---------------------------- MODULE LatestFrame ----------------------------
(***************************************************************************)
(* What the guest output mailbox promises: it looks like a register that   *)
(* holds the newest complete frame.  Publishing replaces it by a newer     *)
(* one; showing takes what is in it at that moment.                        *)
(***************************************************************************)
EXTENDS Naturals

VARIABLES latest, shown

Init == latest = 0 /\ shown = 0

Publish ==
  /\ latest' > latest
  /\ shown' = shown

Show ==
  /\ shown' = latest
  /\ latest' = latest

Next == Publish \/ Show

Spec == Init /\ [][Next]_<<latest, shown>>
=============================================================================
