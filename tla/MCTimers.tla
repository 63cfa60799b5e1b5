------------------------------ MODULE MCTimers ------------------------------
(***************************************************************************)
(* The timer queue and, above it, the timers that are wait objects, for    *)
(* TLC in one run.  They share no variable, so a behaviour of this module  *)
(* is one of a single part; `part' says which.                             *)
(***************************************************************************)
EXTENDS MCTimerQueue, PosixTimers

VARIABLE part

all == <<part, vars, timerVars>>

PartsInit == part \in {"queue", "timers"} /\ Init /\ TimersInit

(* A step of one part, and not of the other.                                *)
InQueue(A) == part = "queue" /\ A /\ UNCHANGED <<part, timerVars>>
InTimers(A) == part = "timers" /\ A /\ UNCHANGED <<part, vars>>

PartsNext == InQueue(Next) \/ InTimers(TimersNext)

(* The fairness of FairSpec and of FairTimersSpec.                          *)
Fairness ==
  /\ WF_all(InQueue(Dispatch)) /\ WF_all(InQueue(Destroy)) /\ WF_all(InQueue(Tick))
  /\ \A t \in Threads : WF_all(InQueue(Continue(t)))
  /\ SF_all(InTimers(DispatchTimers))
  /\ \A a \in Agents : SF_all(InTimers(ContinueCall(a)))

PartsSpec == PartsInit /\ [][PartsNext]_all /\ Fairness

=============================================================================
