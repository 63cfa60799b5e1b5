---------------------------- MODULE PosixThreads ----------------------------
(***************************************************************************)
(* The life of a thread on POSIX (PosixCondition<Thread> and PosixThread   *)
(* of base/threading_posix.cc).  Others suspend, resume and terminate it;  *)
(* suspending sends it a signal, whose handler waits until the suspend     *)
(* count is zero.  Resume has state_mutex_ while it works on the state and *)
(* the count; Suspend has not.                                             *)
(***************************************************************************)
EXTENDS Integers

CONSTANTS
  Callers,       \* the threads that suspend, resume and terminate it
  Nobody,        \* nobody has the mutex
  Itself,        \* the thread has it
  Creation,      \* the values of create_suspended, a set of Booleans
  SuspendWord,   \* suspend_count_ wraps at SuspendWord
  MaxSuspends    \* bound: how often it is suspended

ASSUME CallersAssumption ==
  /\ Nobody \notin Callers /\ Itself \notin Callers /\ Nobody # Itself
  /\ SuspendWord \in Nat \ {0}

VARIABLES
  state_, suspend_count_, signaled_,
  state_mutex_,  \* who has it
  threadAt,      \* where the thread is in ThreadStartRoutine
  handler,       \* where it is in the handler of the suspend signal
  pending,       \* the suspend signals that wait to be delivered
  canceled,      \* pthread_cancel was called
  create_suspended,
  caller, seen,  \* caller[c]: where a caller is; seen[c]: the count it loaded
  suspends, owed, \* the Suspends, and those without a Resume yet (history)
  astray   \* history: it was resumed though nothing was owed, or terminated before
           \* it had started

object == <<state_, suspend_count_, signaled_, state_mutex_>>
thread == <<threadAt, handler, pending, canceled, create_suspended>>
callers == <<caller, seen, suspends, owed, astray>>
threadVars == <<object, thread, callers>>

ThreadInit ==
  /\ state_ = "uninitialized" /\ suspend_count_ = 0 /\ signaled_ = FALSE
  /\ state_mutex_ = Nobody
  /\ threadAt = "born" /\ handler = "none" /\ pending = 0 /\ canceled = FALSE
  /\ create_suspended \in Creation
  /\ caller = [c \in Callers |-> "idle"] /\ seen = [c \in Callers |-> 0]
  /\ suspends = 0 /\ owed = IF create_suspended THEN 1 ELSE 0
  /\ astray = FALSE

Unlocked == state_mutex_ = Nobody
CallerGoes(c, from, to) == caller[c] = from /\ caller' = [caller EXCEPT ![c] = to]

-----------------------------------------------------------------------------
(* ThreadStartRoutine.  The thread does none of this in the handler.        *)

RoutineGoes(from, to) == threadAt = from /\ handler = "none" /\ threadAt' = to
StaysTheSame == UNCHANGED <<handler, pending, canceled, create_suspended, callers>>

Start ==
  /\ Unlocked
  /\ RoutineGoes("born", IF create_suspended THEN "park" ELSE "run")
  /\ state_' = IF create_suspended THEN "suspended" ELSE "running"
  /\ StaysTheSame /\ UNCHANGED <<suspend_count_, signaled_, state_mutex_>>

Park ==
  /\ Unlocked
  /\ RoutineGoes("park", "parked")
  /\ suspend_count_' = 1
  /\ StaysTheSame /\ UNCHANGED <<state_, signaled_, state_mutex_>>

\* Mutant: the thread waits for its state, which Resume leaves.
UnparkWhenRunning ==
  /\ Unlocked /\ state_ # "suspended"
  /\ RoutineGoes("parked", "run")
  /\ StaysTheSame /\ UNCHANGED object

Unpark ==
  /\ Unlocked /\ suspend_count_ = 0
  /\ RoutineGoes("parked", "run")
  /\ StaysTheSame /\ UNCHANGED object

FinishRoutine ==
  /\ Unlocked
  /\ RoutineGoes("run", "finishing")
  /\ state_mutex_' = Itself
  /\ StaysTheSame /\ UNCHANGED <<state_, suspend_count_, signaled_>>

(* Terminate, by the thread itself.  One that finds that another terminates *)
(* it spins, with the mutex, until it is cancelled.                         *)
TerminateItself ==
  /\ Unlocked
  /\ RoutineGoes("run", IF state_ = "finished" THEN "doomed" ELSE "finishing")
  /\ state_mutex_' = Itself
  /\ StaysTheSame /\ UNCHANGED <<state_, suspend_count_, signaled_>>

Finished ==
  /\ RoutineGoes("finishing", "signal")
  /\ state_' = "finished" /\ state_mutex_' = Nobody
  /\ StaysTheSame /\ UNCHANGED <<suspend_count_, signaled_>>

SignalEnd ==
  /\ RoutineGoes("signal", "ended")
  /\ signaled_' = TRUE
  /\ StaysTheSame /\ UNCHANGED <<state_, suspend_count_, state_mutex_>>

(* The thread is cancelled wherever it is.                                  *)
Cancel ==
  /\ canceled /\ threadAt # "ended"
  /\ threadAt' = "ended" /\ handler' = "none" /\ pending' = 0
  /\ state_mutex_' = IF state_mutex_ = Itself THEN Nobody ELSE state_mutex_
  /\ UNCHANGED <<state_, suspend_count_, signaled_, canceled, create_suspended, callers>>

-----------------------------------------------------------------------------
(* signal_handler, WaitSuspended: the signal interrupts the thread, though  *)
(* it may have the mutex, and no other is delivered meanwhile.              *)

Deliver ==
  /\ pending > 0 /\ handler = "none" /\ threadAt # "ended"
  /\ pending' = pending - 1 /\ handler' = "wait"
  /\ UNCHANGED <<object, threadAt, canceled, create_suspended, callers>>

WaitSuspended ==
  /\ handler = "wait" /\ Unlocked /\ suspend_count_ = 0
  /\ handler' = "awake" /\ state_mutex_' = Itself
  /\ UNCHANGED <<state_, suspend_count_, signaled_, threadAt, pending, canceled,
                 create_suspended, callers>>

SetRunning ==
  /\ handler = "awake"
  /\ handler' = "none" /\ state_' = "running" /\ state_mutex_' = Nobody
  /\ UNCHANGED <<suspend_count_, signaled_, threadAt, pending, canceled, create_suspended,
                 callers>>

-----------------------------------------------------------------------------
(* Suspend and Resume; both wait until the thread has started.              *)

Started == Unlocked /\ state_ # "uninitialized"

SuspendThread(c) ==
  /\ Started /\ suspends < MaxSuspends
  /\ CallerGoes(c, "idle", "increment")
  /\ state_' = "suspended"
  /\ seen' = [seen EXCEPT ![c] = suspend_count_]
  /\ suspends' = suspends + 1 /\ owed' = owed + 1
  /\ UNCHANGED <<suspend_count_, signaled_, state_mutex_, thread, astray>>

\* The signals that reach a thread that lives.
Sent == IF threadAt = "ended" THEN pending ELSE pending + 1

\* Mutant: the signal is sent before the thread is counted as suspended.
KillFirst(c) ==
  \/ /\ CallerGoes(c, "increment", "kill")
     /\ pending' = Sent
     /\ UNCHANGED <<object, threadAt, handler, canceled, create_suspended, seen, suspends,
                    owed, astray>>
  \/ /\ CallerGoes(c, "kill", "idle")
     /\ suspend_count_' = (seen[c] + 1) % SuspendWord
     /\ seen' = [seen EXCEPT ![c] = 0]
     /\ UNCHANGED <<state_, signaled_, state_mutex_, thread, suspends, owed, astray>>

CountAndKill(c) ==
  \/ /\ CallerGoes(c, "increment", "kill")
     /\ suspend_count_' = (seen[c] + 1) % SuspendWord
     /\ seen' = [seen EXCEPT ![c] = 0]
     /\ UNCHANGED <<state_, signaled_, state_mutex_, thread, suspends, owed, astray>>
  \/ /\ CallerGoes(c, "kill", "idle")
     /\ pending' = Sent
     /\ UNCHANGED <<object, threadAt, handler, canceled, create_suspended, seen, suspends,
                    owed, astray>>

OneLess == IF owed > 0 THEN owed - 1 ELSE 0

(* Resume refuses in another state than suspended.                          *)
ResumeThread(c) ==
  /\ Started
  /\ \/ /\ state_ = "suspended"
        /\ CallerGoes(c, "idle", "decrement")
        /\ state_mutex_' = c
        /\ seen' = [seen EXCEPT ![c] = suspend_count_]
        /\ astray' = IF owed = 0 THEN TRUE ELSE astray
        /\ UNCHANGED owed
     \/ /\ state_ # "suspended"
        /\ caller[c] = "idle"
        /\ owed' = OneLess
        /\ UNCHANGED <<caller, state_mutex_, seen, astray>>
  /\ UNCHANGED <<state_, suspend_count_, signaled_, thread, suspends>>

Decrement(c) ==
  /\ CallerGoes(c, "decrement", "idle")
  /\ suspend_count_' = (seen[c] - 1) % SuspendWord
  /\ state_mutex_' = Nobody
  /\ seen' = [seen EXCEPT ![c] = 0]
  /\ owed' = OneLess
  /\ UNCHANGED <<state_, signaled_, thread, suspends, astray>>

(* Terminate, by another thread.  It does not wait until the thread has     *)
(* started, and does nothing if the state is finished.                      *)

Terminate(c) ==
  /\ Unlocked /\ state_ # "finished"
  /\ CallerGoes(c, "idle", "signal")
  /\ state_' = "finished"
  /\ astray' = IF state_ = "uninitialized" THEN TRUE ELSE astray
  /\ UNCHANGED <<suspend_count_, signaled_, state_mutex_, thread, seen, suspends, owed>>

SignalAndCancel(c) ==
  /\ \/ /\ CallerGoes(c, "signal", "cancel")
        /\ signaled_' = TRUE
        /\ UNCHANGED canceled
     \/ /\ CallerGoes(c, "cancel", "idle")
        /\ canceled' = TRUE
        /\ UNCHANGED signaled_
  /\ UNCHANGED <<state_, suspend_count_, state_mutex_, threadAt, handler, pending,
                 create_suspended, seen, suspends, owed, astray>>

-----------------------------------------------------------------------------
Run == Start \/ Park \/ Unpark \/ Finished \/ SignalEnd \/ Cancel
Handle == Deliver \/ WaitSuspended \/ SetRunning
Return(c) == CountAndKill(c) \/ Decrement(c) \/ SignalAndCancel(c)

ThreadNext ==
  \/ Run \/ FinishRoutine \/ TerminateItself \/ Handle
  \/ \E c \in Callers : SuspendThread(c) \/ ResumeThread(c) \/ Terminate(c) \/ Return(c)

ThreadSpec == ThreadInit /\ [][ThreadNext]_threadVars

(* Threads are scheduled and signals delivered; a routine need not end.     *)
ThreadFairness ==
  /\ WF_threadVars(Run) /\ WF_threadVars(Handle)
  /\ \A c \in Callers : WF_threadVars(Return(c))

ThreadFairSpec == ThreadSpec /\ ThreadFairness

-----------------------------------------------------------------------------
(* Properties. *)

Idle == \A c \in Callers : caller[c] = "idle"

\* No thread that is counted as suspended goes on: it waits, or the signal that
\* stops it is on its way, whatever else is suspended, resumed or terminated; unless
\* it was resumed more often than suspended, which wraps the count, or terminated
\* before it started, which lets a suspension be overwritten by the start.
SuspendedStops ==
  suspend_count_ > 0 /\ ~astray =>
    \/ threadAt \in {"park", "parked", "ended"} \/ handler = "wait"
    \/ pending > 0 \/ ~Idle

\* As many Resumes as Suspends resume a thread that runs its routine and was
\* not terminated: when the calls have returned the count is zero (as in "Test
\* Suspending Thread", where the Resume after a Suspend finds a count of 1,
\* threading_test.cc:1061).
ResumedAsOften ==
  Idle /\ owed = 0 /\ ~astray /\ threadAt = "run" /\ ~signaled_ => suspend_count_ = 0

\* The overlaps that Resume does not get over: with the end of the handler, with
\* the start of a suspended thread, with other calls, and of the signal with
\* the end of the thread; and more Resumes than Suspends.
Overlap ==
  \/ astray
  \/ handler = "awake" /\ ~Idle
  \/ threadAt = "park" /\ ~Idle
  \/ threadAt = "finishing" /\ (pending > 0 \/ handler # "none" \/ ~Idle)
  \/ \E c, d \in Callers : c # d /\ caller[c] # "idle" /\ caller[d] # "idle"

\* Without them a thread that was resumed as often as suspended goes on.
GoesOn == threadAt = "ended" \/ (handler = "none" /\ threadAt \notin {"park", "parked"})
ResumedGoesOn == []~Overlap => (owed = 0 ~> owed > 0 \/ GoesOn)

=============================================================================
