----------------------------- MODULE MCPresenter -----------------------------
(***************************************************************************)
(* The two halves of the presenter, for TLC: the mailbox that hands frames *)
(* from the guest output thread to the painters (GuestOutputMailbox), and  *)
(* the modes that say who paints (PaintModes).  They share no variable, so *)
(* a behaviour of this module is one of either; `half' says which.         *)
(***************************************************************************)
EXTENDS GuestOutputMailbox, PaintModes

CONSTANTS c1, c2

VARIABLE half

BothInit == half \in {"mailbox", "modes"} /\ Init /\ PaintInit

BothNext ==
  /\ UNCHANGED half
  /\ \/ half = "mailbox" /\ Next /\ UNCHANGED paintVars
     \/ half = "modes" /\ PaintNext /\ UNCHANGED vars

BothSpec == BothInit /\ [][BothNext]_<<half, vars, paintVars>>

=============================================================================
