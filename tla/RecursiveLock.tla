--------------------------- MODULE RecursiveLock ---------------------------
(***************************************************************************)
(* What a critical section promises the guest: one thread at a time has    *)
(* it, and has it until it left as often as it entered.                    *)
(***************************************************************************)
EXTENDS Naturals

CONSTANTS Threads, NoThread

VARIABLES
  holder,  \* the thread that has the lock
  depth    \* depth[t]: how often thread t has entered and not left

vars == <<holder, depth>>

Init == holder = NoThread /\ depth = [t \in Threads |-> 0]

Enter(t) ==
  /\ holder \in {t, NoThread}
  /\ holder' = t
  /\ depth' = [depth EXCEPT ![t] = depth[t] + 1]

Leave(t) ==
  /\ holder = t
  /\ depth[t] > 0
  /\ depth' = [depth EXCEPT ![t] = depth[t] - 1]
  /\ holder' = IF depth[t] = 1 THEN NoThread ELSE t

Next == \E t \in Threads : Enter(t) \/ Leave(t)

Spec == Init /\ [][Next]_vars
=============================================================================
