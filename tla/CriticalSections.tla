-------------------------- MODULE CriticalSections --------------------------
(***************************************************************************)
(* A critical section of the guest (xboxkrnl_rtl.cc): a count that is      *)
(* exchanged and incremented atomically, an owner and a recursion count    *)
(* that are plain fields, and the section itself as an auto-reset event.   *)
(* Each step of the model is one access to what threads share; the fields  *)
(* that only an owner writes and reads go with the step next to them.      *)
(***************************************************************************)
EXTENDS Integers

CONSTANTS
  Threads,    \* the guest's threads
  NoThread,   \* owning_thread of a section nobody owns
  SpinCount,  \* header.absolute * 256
  MaxDepth    \* bound: how often a thread enters a section it has

ASSUME ThreadAssumption == NoThread \notin Threads
ASSUME CountAssumption == SpinCount \in Nat /\ MaxDepth \in Nat

VARIABLES
  lock_count,
  recursion_count,
  owning_thread,
  signaled,        \* the event of the section
  pc,              \* pc[t]: where thread t is
  spins,           \* spins[t]: its spin_count
  depth            \* depth[t]: how often it has entered and not left

section == <<lock_count, recursion_count, owning_thread, signaled>>
vars == <<section, pc, spins, depth>>

Init ==
  /\ lock_count = -1 /\ recursion_count = 0 /\ owning_thread = NoThread
  /\ signaled = FALSE
  /\ pc = [t \in Threads |-> "guest"]
  /\ spins = [t \in Threads |-> 0]
  /\ depth = [t \in Threads |-> 0]

Goto(t, from, to) == pc[t] = from /\ pc' = [pc EXCEPT ![t] = to]

-----------------------------------------------------------------------------
(* RtlEnterCriticalSection. *)

Enter(t) ==
  /\ depth[t] < MaxDepth
  /\ Goto(t, "guest", IF owning_thread = t THEN "again" ELSE "spin")
  /\ spins' = [spins EXCEPT ![t] = SpinCount]
  /\ UNCHANGED <<section, depth>>

EnterAgain(t) ==
  /\ Goto(t, "again", "guest")
  /\ lock_count' = lock_count + 1
  /\ recursion_count' = recursion_count + 1
  /\ depth' = [depth EXCEPT ![t] = depth[t] + 1]
  /\ UNCHANGED <<owning_thread, signaled, spins>>

\* Mutant: the count is looked at and then written.
SpinOnOwner(t) ==
  /\ spins[t] > 0 /\ owning_thread = NoThread
  /\ Goto(t, "spin", "own")
  /\ lock_count' = 0
  /\ UNCHANGED <<recursion_count, owning_thread, signaled, spins, depth>>

SpinSucceeds(t) ==
  /\ spins[t] > 0 /\ lock_count = -1
  /\ Goto(t, "spin", "own")
  /\ lock_count' = 0
  /\ UNCHANGED <<recursion_count, owning_thread, signaled, spins, depth>>

SpinFails(t) ==
  /\ pc[t] = "spin" /\ spins[t] > 0 /\ lock_count # -1
  /\ spins' = [spins EXCEPT ![t] = spins[t] - 1]
  /\ UNCHANGED <<section, pc, depth>>

Count(t) ==
  /\ spins[t] = 0
  /\ Goto(t, "spin", IF lock_count + 1 # 0 THEN "wait" ELSE "own")
  /\ lock_count' = lock_count + 1
  /\ UNCHANGED <<recursion_count, owning_thread, signaled, spins, depth>>

\* Mutant: the event stays signaled.
WaitForManualReset(t) ==
  /\ signaled
  /\ Goto(t, "wait", "own")
  /\ UNCHANGED <<section, spins, depth>>

Wait(t) ==
  /\ signaled
  /\ Goto(t, "wait", "own")
  /\ signaled' = FALSE
  /\ UNCHANGED <<lock_count, recursion_count, owning_thread, spins, depth>>

Own(t) ==
  /\ Goto(t, "own", "guest")
  /\ owning_thread' = t
  /\ recursion_count' = 1
  /\ depth' = [depth EXCEPT ![t] = depth[t] + 1]
  /\ UNCHANGED <<lock_count, signaled, spins>>

-----------------------------------------------------------------------------
(* RtlTryEnterCriticalSection. *)

TryEnter(t) ==
  /\ depth[t] < MaxDepth
  /\ \/ /\ lock_count = -1
        /\ lock_count' = 0
        /\ Goto(t, "guest", "own")
     \/ /\ lock_count # -1
        /\ Goto(t, "guest", "try")
        /\ UNCHANGED lock_count
  /\ UNCHANGED <<recursion_count, owning_thread, signaled, spins, depth>>

TryAgain(t) ==
  /\ Goto(t, "try", IF owning_thread = t THEN "again" ELSE "guest")
  /\ UNCHANGED <<section, spins, depth>>

-----------------------------------------------------------------------------
(* RtlLeaveCriticalSection. *)

Leave(t) ==
  /\ depth[t] > 0
  /\ recursion_count' = recursion_count - 1
  /\ \/ /\ recursion_count # 1
        /\ Goto(t, "guest", "uncount")
        /\ UNCHANGED owning_thread
     \/ /\ recursion_count = 1
        /\ Goto(t, "guest", "release")
        /\ owning_thread' = NoThread
  /\ depth' = [depth EXCEPT ![t] = depth[t] - 1]
  /\ UNCHANGED <<lock_count, signaled, spins>>

Uncount(t) ==
  /\ Goto(t, "uncount", "guest")
  /\ lock_count' = lock_count - 1
  /\ UNCHANGED <<recursion_count, owning_thread, signaled, spins, depth>>

\* Mutant: those who wait are forgotten.
WakeNobody(t) ==
  /\ Goto(t, "release", "guest")
  /\ lock_count' = lock_count - 1
  /\ UNCHANGED <<recursion_count, owning_thread, signaled, spins, depth>>

Release(t) ==
  /\ Goto(t, "release", IF lock_count - 1 # -1 THEN "wake" ELSE "guest")
  /\ lock_count' = lock_count - 1
  /\ UNCHANGED <<recursion_count, owning_thread, signaled, spins, depth>>

Wake(t) ==
  /\ Goto(t, "wake", "guest")
  /\ signaled' = TRUE
  /\ UNCHANGED <<lock_count, recursion_count, owning_thread, spins, depth>>

-----------------------------------------------------------------------------
Entering(t) ==
  \/ EnterAgain(t) \/ SpinSucceeds(t) \/ SpinFails(t) \/ Count(t) \/ Wait(t) \/ Own(t)
  \/ TryAgain(t)

Leaving(t) == Leave(t) \/ Uncount(t) \/ Release(t) \/ Wake(t)

Step(t) == Enter(t) \/ TryEnter(t) \/ Entering(t) \/ Leaving(t)

Next == \E t \in Threads : Step(t)

Spec == Init /\ [][Next]_vars

-----------------------------------------------------------------------------
(* Properties. *)

Places == {"guest", "again", "spin", "wait", "own", "try", "uncount", "release", "wake"}

TypeOK ==
  /\ lock_count \in Nat \union {-1} /\ recursion_count \in 0 .. MaxDepth
  /\ owning_thread \in Threads \union {NoThread}
  /\ signaled \in BOOLEAN
  /\ pc \in [Threads -> Places]
  /\ spins \in [Threads -> 0 .. SpinCount]
  /\ depth \in [Threads -> 0 .. MaxDepth]

\* The threads that have the section, or give it away.
Inside(t) == depth[t] > 0 \/ pc[t] \in {"own", "uncount", "release", "wake"}

\* No two threads are inside, and none is while the event says that the next
\* one may be: between the exchange, the increment and the event of three
\* threads the section is never handed to two of them.
OneInside ==
  /\ \A t, u \in Threads : Inside(t) /\ Inside(u) => t = u
  /\ signaled => \A t \in Threads : ~Inside(t)

\* The assertions of Enter and Leave hold: the new owner finds no owner, and
\* whoever leaves finds itself.  And a thread that reads the owner without
\* having the section never takes itself for the owner.
OwnerAsserted ==
  \A t \in Threads :
    /\ pc[t] = "own" => owning_thread = NoThread
    /\ depth[t] > 0 => recursion_count > 0
    /\ owning_thread = t <=> depth[t] > 0

\* An event that is signaled is for a thread that waits.  One that were left
\* signaled would let the next waiter in beside the owner.
SomebodyIsWoken ==
  signaled \/ (\E t \in Threads : pc[t] = "wake") => \E t \in Threads : pc[t] = "wait"

\* As long as a thread waits, one is inside or is woken: a spinning thread that
\* gets in between does not swallow the event.
NoWaiterForgotten ==
  (\E t \in Threads : pc[t] = "wait") => signaled \/ \E t \in Threads : Inside(t)

\* With all its steps the section is a recursive lock.
Lock == INSTANCE RecursiveLock WITH
  holder <- IF \E t \in Threads : depth[t] > 0 THEN CHOOSE t \in Threads : depth[t] > 0
            ELSE NoThread
ActsAsLock == Lock!Spec

=============================================================================
