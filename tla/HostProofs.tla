----------------------------- MODULE HostProofs -----------------------------
(***************************************************************************)
(* What guest code runs on, for any number of threads: host threads that   *)
(* others suspend, resume and terminate, and the table of the functions    *)
(* that were translated.                                                   *)
(***************************************************************************)
EXTENDS PosixThreads, FunctionTable, FiniteSetTheorems, TLAPS

-----------------------------------------------------------------------------
(* A suspended thread stops.  The handler of the suspend signal waits until *)
(* the count is zero, so the count and what stops the thread have to be     *)
(* kept together over Suspend, which counts without the mutex, and Resume,  *)
(* which writes back a count that it read before.                           *)

ThreadPlaces ==
  {"born", "park", "parked", "run", "doomed", "finishing", "signal", "ended"}

ThreadTypes ==
  /\ suspend_count_ \in Nat /\ pending \in Nat /\ suspends \in Nat /\ owed \in Nat
  /\ caller \in [Callers -> {"idle", "increment", "kill", "decrement", "signal", "cancel"}]
  /\ seen \in [Callers -> Nat]
  /\ threadAt \in ThreadPlaces /\ handler \in {"none", "wait", "awake"}
  /\ astray \in BOOLEAN

\* Some caller has announced a suspension whose signal it has yet to send.
Suspending == \E c \in Callers : caller[c] \in {"increment", "kill"}

\* The thread waits, or has ended, or a signal that stops it is on its way.
Stopped ==
  threadAt \in {"park", "parked", "ended"} \/ handler = "wait" \/ pending > 0 \/ Suspending

\* Who has the mutex for more than a step.
MutexHeld ==
  /\ \A c \in Callers : caller[c] = "decrement" => state_mutex_ = c /\ (owed > 0 \/ astray)
  /\ handler = "awake" \/ threadAt \in {"finishing", "doomed"} => state_mutex_ = Itself
  /\ ~(handler = "awake" /\ threadAt \in {"finishing", "doomed"})

\* What follows is claimed of a thread that did not go astray.  One that nobody has
\* suspended yet is resumed only from its creation.
NeverSuspended ==
  suspends = 0 /\ ~astray =>
    /\ owed <= 1 /\ ~Suspending /\ pending = 0 /\ handler = "none"
    /\ owed = 1 => /\ create_suspended /\ threadAt \in {"born", "park", "parked", "ended"}
                   /\ threadAt = "parked" => suspend_count_ = 1

\* A thread starts before anybody suspends it, and in the state suspended it was
\* created so, or a suspension is under way.
StateSuspended ==
  ~astray =>
  /\ threadAt = "born" => state_ = "uninitialized"
  /\ state_ = "uninitialized" => suspends = 0
  /\ state_ = "suspended" =>
       suspends = 0 \/ handler # "none" \/ pending > 0 \/ Suspending \/ threadAt = "ended"

CountStops ==
  ~astray =>
  /\ suspend_count_ > 0 => Stopped
  /\ (\E c \in Callers : caller[c] = "decrement") => Stopped

ThreadInv ==
  ThreadTypes /\ MutexHeld /\ NeverSuspended /\ StateSuspended /\ CountStops

(* Every step keeps the five parts, one after the other. *)
LEMMA StartInv ==
  ASSUME ThreadInv, Start
  PROVE  ThreadInv'
<1> USE CallersAssumption
   DEF ThreadInv, Stopped, Suspending, Start, Unlocked, RoutineGoes, StaysTheSame, callers
<1>1. ThreadTypes' BY DEF MutexHeld, ThreadTypes, ThreadPlaces
<1>2. MutexHeld' BY DEF MutexHeld, ThreadTypes
<1>3. NeverSuspended' BY DEF NeverSuspended, StateSuspended, ThreadTypes
<1>4. StateSuspended' BY DEF NeverSuspended, StateSuspended, ThreadTypes
<1>5. CountStops' BY DEF CountStops, MutexHeld, NeverSuspended, StateSuspended, ThreadTypes
<1> QED BY <1>1, <1>2, <1>3, <1>4, <1>5

LEMMA ParkInv ==
  ASSUME ThreadInv, Park
  PROVE  ThreadInv'
<1> USE CallersAssumption
   DEF ThreadInv, Stopped, Suspending, Park, Unlocked, RoutineGoes, StaysTheSame, callers
<1>1. ThreadTypes' BY DEF MutexHeld, ThreadTypes, ThreadPlaces
<1>2. MutexHeld' BY DEF MutexHeld, ThreadTypes
<1>3. NeverSuspended' BY DEF NeverSuspended, StateSuspended, ThreadTypes
<1>4. StateSuspended' BY DEF NeverSuspended, StateSuspended, ThreadTypes
<1>5. CountStops' BY DEF CountStops, MutexHeld, NeverSuspended, StateSuspended, ThreadTypes
<1> QED BY <1>1, <1>2, <1>3, <1>4, <1>5

LEMMA UnparkInv ==
  ASSUME ThreadInv, Unpark
  PROVE  ThreadInv'
<1> USE CallersAssumption
   DEF ThreadInv, Stopped, Suspending, Unpark, Unlocked, RoutineGoes, StaysTheSame, callers,
       object
<1>1. ThreadTypes' BY DEF MutexHeld, ThreadTypes, ThreadPlaces
<1>2. MutexHeld' BY DEF MutexHeld, ThreadTypes
<1>3. NeverSuspended' BY DEF NeverSuspended, StateSuspended, ThreadTypes
<1>4. StateSuspended' BY DEF NeverSuspended, StateSuspended, ThreadTypes
<1>5. CountStops' BY DEF CountStops, MutexHeld, NeverSuspended, StateSuspended, ThreadTypes
<1> QED BY <1>1, <1>2, <1>3, <1>4, <1>5

LEMMA FinishRoutineInv ==
  ASSUME ThreadInv, FinishRoutine
  PROVE  ThreadInv'
<1> USE CallersAssumption
   DEF ThreadInv, Stopped, Suspending, FinishRoutine, Unlocked, RoutineGoes, StaysTheSame,
       callers
<1>1. ThreadTypes' BY DEF MutexHeld, ThreadTypes, ThreadPlaces
<1>2. MutexHeld' BY DEF MutexHeld, ThreadTypes
<1>3. NeverSuspended' BY DEF NeverSuspended, StateSuspended, ThreadTypes
<1>4. StateSuspended' BY DEF NeverSuspended, StateSuspended, ThreadTypes
<1>5. CountStops' BY DEF CountStops, MutexHeld, NeverSuspended, StateSuspended, ThreadTypes
<1> QED BY <1>1, <1>2, <1>3, <1>4, <1>5

LEMMA TerminateItselfInv ==
  ASSUME ThreadInv, TerminateItself
  PROVE  ThreadInv'
<1> USE CallersAssumption
   DEF ThreadInv, Stopped, Suspending, TerminateItself, Unlocked, RoutineGoes, StaysTheSame,
       callers
<1>1. ThreadTypes' BY DEF MutexHeld, ThreadTypes, ThreadPlaces
<1>2. MutexHeld' BY DEF MutexHeld, ThreadTypes
<1>3. NeverSuspended' BY DEF NeverSuspended, StateSuspended, ThreadTypes
<1>4. StateSuspended' BY DEF NeverSuspended, StateSuspended, ThreadTypes
<1>5. CountStops' BY DEF CountStops, MutexHeld, NeverSuspended, StateSuspended, ThreadTypes
<1> QED BY <1>1, <1>2, <1>3, <1>4, <1>5

LEMMA FinishedInv ==
  ASSUME ThreadInv, Finished
  PROVE  ThreadInv'
<1> USE CallersAssumption
   DEF ThreadInv, Stopped, Suspending, Finished, RoutineGoes, StaysTheSame, callers
<1>1. ThreadTypes' BY DEF MutexHeld, ThreadTypes, ThreadPlaces
<1>2. MutexHeld' BY DEF MutexHeld, ThreadTypes
<1>3. NeverSuspended' BY DEF NeverSuspended, StateSuspended, ThreadTypes
<1>4. StateSuspended' BY DEF NeverSuspended, StateSuspended, ThreadTypes
<1>5. CountStops' BY DEF CountStops, MutexHeld, NeverSuspended, StateSuspended, ThreadTypes
<1> QED BY <1>1, <1>2, <1>3, <1>4, <1>5

LEMMA SignalEndInv ==
  ASSUME ThreadInv, SignalEnd
  PROVE  ThreadInv'
<1> USE CallersAssumption
   DEF ThreadInv, Stopped, Suspending, SignalEnd, RoutineGoes, StaysTheSame, callers
<1>1. ThreadTypes' BY DEF MutexHeld, ThreadTypes, ThreadPlaces
<1>2. MutexHeld' BY DEF MutexHeld, ThreadTypes
<1>3. NeverSuspended' BY DEF NeverSuspended, StateSuspended, ThreadTypes
<1>4. StateSuspended' BY DEF NeverSuspended, StateSuspended, ThreadTypes
<1>5. CountStops' BY DEF CountStops, MutexHeld, NeverSuspended, StateSuspended, ThreadTypes
<1> QED BY <1>1, <1>2, <1>3, <1>4, <1>5

LEMMA CancelInv ==
  ASSUME ThreadInv, Cancel
  PROVE  ThreadInv'
<1> USE CallersAssumption DEF ThreadInv, Stopped, Suspending, Cancel, callers
<1>1. ThreadTypes' BY DEF MutexHeld, ThreadTypes, ThreadPlaces
<1>2. MutexHeld' BY DEF MutexHeld, ThreadTypes
<1>3. NeverSuspended' BY DEF NeverSuspended, StateSuspended, ThreadTypes
<1>4. StateSuspended' BY DEF NeverSuspended, StateSuspended, ThreadTypes
<1>5. CountStops' BY DEF CountStops, MutexHeld, NeverSuspended, StateSuspended, ThreadTypes
<1> QED BY <1>1, <1>2, <1>3, <1>4, <1>5

LEMMA DeliverInv ==
  ASSUME ThreadInv, Deliver
  PROVE  ThreadInv'
<1> USE CallersAssumption DEF ThreadInv, Stopped, Suspending, Deliver, object, callers
<1>1. ThreadTypes' BY DEF MutexHeld, ThreadTypes, ThreadPlaces
<1>2. MutexHeld' BY DEF MutexHeld, ThreadTypes
<1>3. NeverSuspended' BY DEF NeverSuspended, StateSuspended, ThreadTypes
<1>4. StateSuspended' BY DEF NeverSuspended, StateSuspended, ThreadTypes
<1>5. CountStops' BY DEF CountStops, MutexHeld, NeverSuspended, StateSuspended, ThreadTypes
<1> QED BY <1>1, <1>2, <1>3, <1>4, <1>5

LEMMA WaitSuspendedInv ==
  ASSUME ThreadInv, WaitSuspended
  PROVE  ThreadInv'
<1> USE CallersAssumption DEF ThreadInv, Stopped, Suspending, WaitSuspended, Unlocked, callers
<1>1. ThreadTypes' BY DEF MutexHeld, ThreadTypes, ThreadPlaces
<1>2. MutexHeld' BY DEF MutexHeld, ThreadTypes
<1>3. NeverSuspended' BY DEF NeverSuspended, StateSuspended, ThreadTypes
<1>4. StateSuspended' BY DEF NeverSuspended, StateSuspended, ThreadTypes
<1>5. CountStops' BY DEF CountStops, MutexHeld, NeverSuspended, StateSuspended, ThreadTypes
<1> QED BY <1>1, <1>2, <1>3, <1>4, <1>5

LEMMA SetRunningInv ==
  ASSUME ThreadInv, SetRunning
  PROVE  ThreadInv'
<1> USE CallersAssumption DEF ThreadInv, Stopped, Suspending, SetRunning, callers
<1>1. ThreadTypes' BY DEF MutexHeld, ThreadTypes, ThreadPlaces
<1>2. MutexHeld' BY DEF MutexHeld, ThreadTypes
<1>3. NeverSuspended' BY DEF NeverSuspended, StateSuspended, ThreadTypes
<1>4. StateSuspended' BY DEF NeverSuspended, StateSuspended, ThreadTypes
<1>5. CountStops' BY DEF CountStops, MutexHeld, NeverSuspended, StateSuspended, ThreadTypes
<1> QED BY <1>1, <1>2, <1>3, <1>4, <1>5

LEMMA SuspendThreadInv ==
  ASSUME ThreadInv, NEW c \in Callers, SuspendThread(c)
  PROVE  ThreadInv'
<1> USE CallersAssumption
   DEF ThreadInv, Stopped, Suspending, SuspendThread, Started, Unlocked, CallerGoes, thread
<1>1. ThreadTypes' BY DEF MutexHeld, ThreadTypes, ThreadPlaces
<1>2. MutexHeld' BY DEF MutexHeld, ThreadTypes
<1>3. NeverSuspended' BY DEF NeverSuspended, StateSuspended, ThreadTypes
<1>4. StateSuspended' BY DEF NeverSuspended, StateSuspended, ThreadTypes
<1>5. CountStops' BY DEF CountStops, MutexHeld, NeverSuspended, StateSuspended, ThreadTypes
<1> QED BY <1>1, <1>2, <1>3, <1>4, <1>5

LEMMA CountAndKillInv ==
  ASSUME ThreadInv, NEW c \in Callers, CountAndKill(c)
  PROVE  ThreadInv'
<1> USE CallersAssumption
   DEF ThreadInv, Stopped, Suspending, CountAndKill, CallerGoes, Sent, object, thread
<1>1. ThreadTypes' BY DEF MutexHeld, ThreadTypes, ThreadPlaces
<1>2. MutexHeld' BY DEF MutexHeld, ThreadTypes
<1>3. NeverSuspended' BY DEF NeverSuspended, StateSuspended, ThreadTypes
<1>4. StateSuspended' BY DEF NeverSuspended, StateSuspended, ThreadTypes
<1>5. CountStops' BY DEF CountStops, MutexHeld, NeverSuspended, StateSuspended, ThreadTypes
<1> QED BY <1>1, <1>2, <1>3, <1>4, <1>5

LEMMA ResumeThreadInv ==
  ASSUME ThreadInv, NEW c \in Callers, ResumeThread(c)
  PROVE  ThreadInv'
<1> USE CallersAssumption DEF ThreadInv, Stopped, Suspending
<1>1. CASE state_ = "suspended"
  <2>1. /\ state_mutex_ = Nobody /\ state_mutex_' = c
        /\ caller[c] = "idle" /\ caller' = [caller EXCEPT ![c] = "decrement"]
        /\ seen' = [seen EXCEPT ![c] = suspend_count_]
        /\ astray' = IF owed = 0 THEN TRUE ELSE astray
        /\ UNCHANGED <<owed, state_, suspend_count_, signaled_, threadAt, handler, pending,
                       canceled, create_suspended, suspends>>
    BY <1>1 DEF ResumeThread, Started, Unlocked, CallerGoes, thread
  <2> USE <2>1
  <2>2. ThreadTypes' BY DEF MutexHeld, ThreadTypes, ThreadPlaces
  <2>3. MutexHeld' BY DEF MutexHeld, ThreadTypes
  <2>4. NeverSuspended' BY DEF NeverSuspended, StateSuspended, ThreadTypes
  <2>5. StateSuspended' BY DEF NeverSuspended, StateSuspended, ThreadTypes
  <2>6. CountStops'
    BY <1>1 DEF CountStops, MutexHeld, NeverSuspended, StateSuspended, ThreadTypes
  <2> QED BY <2>2, <2>3, <2>4, <2>5, <2>6
<1>2. CASE state_ # "suspended"
  <2>1. /\ owed' = OneLess /\ state_mutex_ = Nobody
        /\ UNCHANGED <<caller, state_mutex_, seen, astray, state_, suspend_count_, signaled_,
                       threadAt, handler, pending, canceled, create_suspended, suspends>>
    BY <1>2 DEF ResumeThread, Started, Unlocked, thread
  <2>2. OneLess \in Nat /\ OneLess <= owed BY DEF OneLess, ThreadTypes
  <2> USE <2>1, <2>2
  <2>3. ThreadTypes' BY DEF MutexHeld, ThreadTypes, ThreadPlaces
  <2>4. MutexHeld' BY DEF MutexHeld, ThreadTypes
  <2>5. NeverSuspended' BY DEF NeverSuspended, StateSuspended, ThreadTypes, OneLess
  <2>6. StateSuspended' BY DEF NeverSuspended, StateSuspended, ThreadTypes
  <2>7. CountStops' BY DEF CountStops, MutexHeld, NeverSuspended, StateSuspended, ThreadTypes
  <2> QED BY <2>3, <2>4, <2>5, <2>6, <2>7
<1> QED BY <1>1, <1>2

LEMMA DecrementInv ==
  ASSUME ThreadInv, NEW c \in Callers, Decrement(c)
  PROVE  ThreadInv'
<1> USE CallersAssumption
   DEF ThreadInv, Stopped, Suspending, Decrement, CallerGoes, OneLess, thread
<1>1. ThreadTypes' BY DEF MutexHeld, ThreadTypes, ThreadPlaces
<1>2. MutexHeld' BY DEF MutexHeld, ThreadTypes
<1>3. NeverSuspended' BY DEF NeverSuspended, StateSuspended, ThreadTypes
<1>4. StateSuspended' BY DEF NeverSuspended, StateSuspended, ThreadTypes
<1>5. CountStops' BY DEF CountStops, MutexHeld, NeverSuspended, StateSuspended, ThreadTypes
<1> QED BY <1>1, <1>2, <1>3, <1>4, <1>5

LEMMA TerminateInv ==
  ASSUME ThreadInv, NEW c \in Callers, Terminate(c)
  PROVE  ThreadInv'
<1> USE CallersAssumption
   DEF ThreadInv, Stopped, Suspending, Terminate, Unlocked, CallerGoes, thread
<1>1. ThreadTypes' BY DEF MutexHeld, ThreadTypes, ThreadPlaces
<1>2. MutexHeld' BY DEF MutexHeld, ThreadTypes
<1>3. NeverSuspended' BY DEF NeverSuspended, StateSuspended, ThreadTypes
<1>4. StateSuspended' BY DEF NeverSuspended, StateSuspended, ThreadTypes
<1>5. CountStops' BY DEF CountStops, MutexHeld, NeverSuspended, StateSuspended, ThreadTypes
<1> QED BY <1>1, <1>2, <1>3, <1>4, <1>5

LEMMA SignalAndCancelInv ==
  ASSUME ThreadInv, NEW c \in Callers, SignalAndCancel(c)
  PROVE  ThreadInv'
<1> USE CallersAssumption
   DEF ThreadInv, Stopped, Suspending, SignalAndCancel, CallerGoes
<1>1. ThreadTypes' BY DEF MutexHeld, ThreadTypes, ThreadPlaces
<1>2. MutexHeld' BY DEF MutexHeld, ThreadTypes
<1>3. NeverSuspended' BY DEF NeverSuspended, StateSuspended, ThreadTypes
<1>4. StateSuspended' BY DEF NeverSuspended, StateSuspended, ThreadTypes
<1>5. CountStops' BY DEF CountStops, MutexHeld, NeverSuspended, StateSuspended, ThreadTypes
<1> QED BY <1>1, <1>2, <1>3, <1>4, <1>5

LEMMA ThreadStarts == ASSUME ThreadInit PROVE ThreadInv
<1> USE DEF ThreadInit
<1>1. ThreadTypes BY DEF ThreadTypes, ThreadPlaces
<1>2. MutexHeld BY DEF MutexHeld
<1>3. NeverSuspended BY DEF NeverSuspended, Suspending
<1>4. StateSuspended BY DEF StateSuspended
<1>5. CountStops BY DEF CountStops
<1> QED BY <1>1, <1>2, <1>3, <1>4, <1>5 DEF ThreadInv

LEMMA ThreadStutters == ASSUME ThreadInv, UNCHANGED threadVars PROVE ThreadInv'
BY DEF threadVars, object, thread, callers, ThreadInv, ThreadTypes, MutexHeld,
       NeverSuspended, StateSuspended, CountStops, Stopped, Suspending

LEMMA ThreadStep == ThreadInv /\ [ThreadNext]_threadVars => ThreadInv'
<1> SUFFICES ASSUME ThreadInv, [ThreadNext]_threadVars PROVE ThreadInv'
  OBVIOUS
<1>1. ASSUME Run PROVE ThreadInv'
  BY <1>1, StartInv, ParkInv, UnparkInv, FinishedInv, SignalEndInv, CancelInv DEF Run
<1>2. ASSUME Handle PROVE ThreadInv'
  BY <1>2, DeliverInv, WaitSuspendedInv, SetRunningInv DEF Handle
<1>3. ASSUME NEW c \in Callers, SuspendThread(c) \/ ResumeThread(c) \/ Terminate(c) \/ Return(c)
      PROVE  ThreadInv'
  BY <1>3, SuspendThreadInv, ResumeThreadInv, TerminateInv, CountAndKillInv, DecrementInv,
     SignalAndCancelInv DEF Return
<1> QED BY <1>1, <1>2, <1>3, FinishRoutineInv, TerminateItselfInv, ThreadStutters DEF ThreadNext

\* However many threads suspend, resume and terminate it, in whatever order their
\* calls, the suspend signals and the steps of ThreadStartRoutine come: a thread that
\* is counted as suspended has stopped, or the signal that stops it is on its way. (Except
\* that a Resume too many wraps the count, and that a thread terminated before it
\* started may overwrite a suspension.)
THEOREM TheSuspendedStop == ThreadSpec => []SuspendedStops
<1>1. ThreadInit => ThreadInv BY ThreadStarts
<1>2. ThreadInv /\ [ThreadNext]_threadVars => ThreadInv' BY ThreadStep
<1>3. ThreadInv => SuspendedStops
  BY DEF ThreadInv, CountStops, Stopped, Suspending, SuspendedStops, Idle
<1> QED BY <1>1, <1>2, <1>3, PTL DEF ThreadSpec

-----------------------------------------------------------------------------
(* The function table.  Each entry in the making has one thread at work on  *)
(* it.  A symbol in the making belongs to the thread that made it, which    *)
(* declares it, or to the one that translates it (Births): so what the      *)
(* thread at work on an entry has seen of the symbol is not undone, and it  *)
(* finds a symbol in the making only where another thread declares it.      *)

EntryStatus == {"none", "compiling", "ready", "failed"}
SymbolStatus == {"none", "defining", "declared", "defined", "failed"}
ResolverPlaces ==
  {"guest", "spin", "use", "declare", "declared", "define", "await", "translate",
   "declareCallee", "publish", "ready", "fail"}

FunctionTypes ==
  /\ entry \in [Functions -> EntryStatus] /\ symbol \in [Functions -> SymbolStatus]
  /\ callable \in [Functions -> BOOLEAN]
  /\ functionAt \in [Resolvers -> ResolverPlaces]
  /\ resolving \in [Resolvers -> Functions \cup {NoFunction}]
  /\ callees \in [Resolvers -> SUBSET Functions]
  /\ declaring \in [Resolvers -> Functions \cup {NoFunction}]
  /\ early \in SUBSET Functions

\* Threads at work on an entry, and those that only wait for it or use it.
AtWork(t) == functionAt[t] \notin {"guest", "spin", "use"}

OneAtWork ==
  /\ \A t \in Resolvers : functionAt[t] = "guest" <=> resolving[t] = NoFunction
  /\ \A t \in Resolvers : AtWork(t) => entry[resolving[t]] = "compiling"
  /\ \A t, u \in Resolvers : AtWork(t) /\ AtWork(u) /\ resolving[t] = resolving[u] => t = u
  /\ \A f \in Functions :
       entry[f] = "compiling" => \E t \in Resolvers : AtWork(t) /\ resolving[t] = f

HasCode(f) == symbol[f] = "defined" \/ (symbol[f] = "declared" /\ f \in early)

\* What the thread at work knows of the function.
WorkDone ==
  \A t \in Resolvers :
    /\ AtWork(t) /\ functionAt[t] \notin {"declare", "fail"} => symbol[resolving[t]] # "none"
    /\ functionAt[t] = "await" => resolving[t] \in early
    /\ functionAt[t] \in {"publish", "ready"} => HasCode(resolving[t])
    /\ functionAt[t] = "ready" => callable[resolving[t]]

\* The symbols in the making, and the threads they belong to.
Makes(t) == functionAt[t] \in {"declared", "translate", "declareCallee"}

Births ==
  /\ \A t \in Resolvers : Makes(t) => symbol[resolving[t]] = "defining"
  /\ \A t \in Resolvers : functionAt[t] = "declareCallee" =>
       /\ declaring[t] \in Functions /\ symbol[declaring[t]] = "defining"
       /\ \A u \in Resolvers : Makes(u) => declaring[t] # resolving[u]
       /\ \A u \in Resolvers :
            functionAt[u] = "declareCallee" /\ declaring[u] = declaring[t] => u = t

TableInv == FunctionTypes /\ OneAtWork /\ WorkDone /\ Births /\ ReadyIsCallable

(* Every step keeps the four parts, one after the other. *)
LEMMA SpinInv ==
  ASSUME TableInv, NEW t \in Resolvers, Spin(t)
  PROVE  TableInv'
<1> USE FunctionsAssumption DEF TableInv, AtWork, Spin, ResolverGoes, Mark, table, threads
<1>1. FunctionTypes' BY DEF FunctionTypes, ResolverPlaces, EntryStatus, SymbolStatus, OneAtWork
<1>2. OneAtWork' BY DEF OneAtWork, FunctionTypes
<1>3. WorkDone' BY DEF WorkDone, HasCode, Births, Makes, OneAtWork, FunctionTypes, SymbolStatus
<1>4. Births' BY DEF Births, Makes, WorkDone, OneAtWork, FunctionTypes, SymbolStatus
<1>5. ReadyIsCallable'
  BY DEF ReadyIsCallable, HasCode, Births, Makes, WorkDone, OneAtWork, FunctionTypes
<1> QED BY <1>1, <1>2, <1>3, <1>4, <1>5

LEMMA UseInv ==
  ASSUME TableInv, NEW t \in Resolvers, Use(t)
  PROVE  TableInv'
<1> USE FunctionsAssumption DEF TableInv, AtWork, Use, ResolverGoes, Mark, table, threads
<1>1. FunctionTypes' BY DEF FunctionTypes, ResolverPlaces, EntryStatus, SymbolStatus, OneAtWork
<1>2. OneAtWork' BY DEF OneAtWork, FunctionTypes
<1>3. WorkDone' BY DEF WorkDone, HasCode, Births, Makes, OneAtWork, FunctionTypes, SymbolStatus
<1>4. Births' BY DEF Births, Makes, WorkDone, OneAtWork, FunctionTypes, SymbolStatus
<1>5. ReadyIsCallable'
  BY DEF ReadyIsCallable, HasCode, Births, Makes, WorkDone, OneAtWork, FunctionTypes
<1> QED BY <1>1, <1>2, <1>3, <1>4, <1>5

LEMMA DeclareInv ==
  ASSUME TableInv, NEW t \in Resolvers, Declare(t)
  PROVE  TableInv'
<1> USE FunctionsAssumption DEF TableInv, AtWork, Declare, ResolverGoes, Mark, table, threads
<1>1. FunctionTypes' BY DEF FunctionTypes, ResolverPlaces, EntryStatus, SymbolStatus, OneAtWork
<1>2. OneAtWork' BY DEF OneAtWork, FunctionTypes
<1>3. WorkDone' BY DEF WorkDone, HasCode, Births, Makes, OneAtWork, FunctionTypes, SymbolStatus
<1>4. Births' BY DEF Births, Makes, WorkDone, OneAtWork, FunctionTypes, SymbolStatus
<1>5. ReadyIsCallable'
  BY DEF ReadyIsCallable, HasCode, Births, Makes, WorkDone, OneAtWork, FunctionTypes
<1> QED BY <1>1, <1>2, <1>3, <1>4, <1>5

LEMMA NotFoundInv ==
  ASSUME TableInv, NEW t \in Resolvers, NotFound(t)
  PROVE  TableInv'
<1> USE FunctionsAssumption DEF TableInv, AtWork, NotFound, ResolverGoes, Mark, table, threads
<1>1. FunctionTypes' BY DEF FunctionTypes, ResolverPlaces, EntryStatus, SymbolStatus, OneAtWork
<1>2. OneAtWork' BY DEF OneAtWork, FunctionTypes
<1>3. WorkDone' BY DEF WorkDone, HasCode, Births, Makes, OneAtWork, FunctionTypes, SymbolStatus
<1>4. Births' BY DEF Births, Makes, WorkDone, OneAtWork, FunctionTypes, SymbolStatus
<1>5. ReadyIsCallable'
  BY DEF ReadyIsCallable, HasCode, Births, Makes, WorkDone, OneAtWork, FunctionTypes
<1> QED BY <1>1, <1>2, <1>3, <1>4, <1>5

LEMMA DeclaredInv ==
  ASSUME TableInv, NEW t \in Resolvers, Declared(t)
  PROVE  TableInv'
<1> USE FunctionsAssumption DEF TableInv, AtWork, Declared, ResolverGoes, Mark, table, threads
<1>1. FunctionTypes' BY DEF FunctionTypes, ResolverPlaces, EntryStatus, SymbolStatus, OneAtWork
<1>2. OneAtWork' BY DEF OneAtWork, FunctionTypes
<1>3. WorkDone' BY DEF WorkDone, HasCode, Births, Makes, OneAtWork, FunctionTypes, SymbolStatus
<1>4. Births' BY DEF Births, Makes, WorkDone, OneAtWork, FunctionTypes, SymbolStatus
<1>5. ReadyIsCallable'
  BY DEF ReadyIsCallable, HasCode, Births, Makes, WorkDone, OneAtWork, FunctionTypes
<1> QED BY <1>1, <1>2, <1>3, <1>4, <1>5

LEMMA DefineInv ==
  ASSUME TableInv, NEW t \in Resolvers, Define(t)
  PROVE  TableInv'
<1> USE FunctionsAssumption DEF TableInv, AtWork, Define, ResolverGoes, Mark, table, threads
<1>1. FunctionTypes' BY DEF FunctionTypes, ResolverPlaces, EntryStatus, SymbolStatus, OneAtWork
<1>2. OneAtWork' BY DEF OneAtWork, FunctionTypes
<1>3. WorkDone' BY DEF WorkDone, HasCode, Births, Makes, OneAtWork, FunctionTypes, SymbolStatus
<1>4. Births' BY DEF Births, Makes, WorkDone, OneAtWork, FunctionTypes, SymbolStatus
<1>5. ReadyIsCallable'
  BY DEF ReadyIsCallable, HasCode, Births, Makes, WorkDone, OneAtWork, FunctionTypes
<1> QED BY <1>1, <1>2, <1>3, <1>4, <1>5

LEMMA AwaitInv ==
  ASSUME TableInv, NEW t \in Resolvers, Await(t)
  PROVE  TableInv'
<1> USE FunctionsAssumption DEF TableInv, AtWork, Await, ResolverGoes, Mark, table, threads
<1>1. FunctionTypes' BY DEF FunctionTypes, ResolverPlaces, EntryStatus, SymbolStatus, OneAtWork
<1>2. OneAtWork' BY DEF OneAtWork, FunctionTypes
<1>3. WorkDone' BY DEF WorkDone, HasCode, Births, Makes, OneAtWork, FunctionTypes, SymbolStatus
<1>4. Births' BY DEF Births, Makes, WorkDone, OneAtWork, FunctionTypes, SymbolStatus
<1>5. ReadyIsCallable'
  BY DEF ReadyIsCallable, HasCode, Births, Makes, WorkDone, OneAtWork, FunctionTypes
<1> QED BY <1>1, <1>2, <1>3, <1>4, <1>5

LEMMA LookUpCalleeInv ==
  ASSUME TableInv, NEW t \in Resolvers, LookUpCallee(t)
  PROVE  TableInv'
<1> USE FunctionsAssumption
   DEF TableInv, AtWork, LookUpCallee, ResolverGoes, Mark, table, threads
<1>1. FunctionTypes' BY DEF FunctionTypes, ResolverPlaces, EntryStatus, SymbolStatus, OneAtWork
<1>2. OneAtWork' BY DEF OneAtWork, FunctionTypes
<1>3. WorkDone' BY DEF WorkDone, HasCode, Births, Makes, OneAtWork, FunctionTypes, SymbolStatus
<1>4. Births' BY DEF Births, Makes, WorkDone, OneAtWork, FunctionTypes, SymbolStatus
<1>5. ReadyIsCallable'
  BY DEF ReadyIsCallable, HasCode, Births, Makes, WorkDone, OneAtWork, FunctionTypes
<1> QED BY <1>1, <1>2, <1>3, <1>4, <1>5

LEMMA DeclareCalleeInv ==
  ASSUME TableInv, NEW t \in Resolvers, DeclareCallee(t)
  PROVE  TableInv'
<1> USE FunctionsAssumption
   DEF TableInv, AtWork, DeclareCallee, ResolverGoes, Mark, table, threads
<1>1. FunctionTypes' BY DEF FunctionTypes, ResolverPlaces, EntryStatus, SymbolStatus, OneAtWork
<1>2. OneAtWork' BY DEF OneAtWork, FunctionTypes
<1>3. WorkDone' BY DEF WorkDone, HasCode, Births, Makes, OneAtWork, FunctionTypes, SymbolStatus
<1>4. Births' BY DEF Births, Makes, WorkDone, OneAtWork, FunctionTypes, SymbolStatus
<1>5. ReadyIsCallable'
  BY DEF ReadyIsCallable, HasCode, Births, Makes, WorkDone, OneAtWork, FunctionTypes
<1> QED BY <1>1, <1>2, <1>3, <1>4, <1>5

LEMMA TranslateInv ==
  ASSUME TableInv, NEW t \in Resolvers, Translate(t)
  PROVE  TableInv'
<1> USE FunctionsAssumption DEF TableInv, AtWork, Translate, ResolverGoes, Mark, table, threads
<1>1. FunctionTypes' BY DEF FunctionTypes, ResolverPlaces, EntryStatus, SymbolStatus, OneAtWork
<1>2. OneAtWork' BY DEF OneAtWork, FunctionTypes
<1>3. WorkDone' BY DEF WorkDone, HasCode, Births, Makes, OneAtWork, FunctionTypes, SymbolStatus
<1>4. Births' BY DEF Births, Makes, WorkDone, OneAtWork, FunctionTypes, SymbolStatus
<1>5. ReadyIsCallable'
  BY DEF ReadyIsCallable, HasCode, Births, Makes, WorkDone, OneAtWork, FunctionTypes
<1> QED BY <1>1, <1>2, <1>3, <1>4, <1>5

LEMMA PublishInv ==
  ASSUME TableInv, NEW t \in Resolvers, Publish(t)
  PROVE  TableInv'
<1> USE FunctionsAssumption DEF TableInv, AtWork, Publish, ResolverGoes, Mark, table, threads
<1>1. FunctionTypes' BY DEF FunctionTypes, ResolverPlaces, EntryStatus, SymbolStatus, OneAtWork
<1>2. OneAtWork' BY DEF OneAtWork, FunctionTypes
<1>3. WorkDone' BY DEF WorkDone, HasCode, Births, Makes, OneAtWork, FunctionTypes, SymbolStatus
<1>4. Births' BY DEF Births, Makes, WorkDone, OneAtWork, FunctionTypes, SymbolStatus
<1>5. ReadyIsCallable'
  BY DEF ReadyIsCallable, HasCode, Births, Makes, WorkDone, OneAtWork, FunctionTypes
<1> QED BY <1>1, <1>2, <1>3, <1>4, <1>5

LEMMA ReadyInv ==
  ASSUME TableInv, NEW t \in Resolvers, Ready(t)
  PROVE  TableInv'
<1> USE FunctionsAssumption DEF TableInv, AtWork, Ready, ResolverGoes, Mark, table, threads
<1>1. FunctionTypes' BY DEF FunctionTypes, ResolverPlaces, EntryStatus, SymbolStatus, OneAtWork
<1>2. OneAtWork' BY DEF OneAtWork, FunctionTypes
<1>3. WorkDone' BY DEF WorkDone, HasCode, Births, Makes, OneAtWork, FunctionTypes, SymbolStatus
<1>4. Births' BY DEF Births, Makes, WorkDone, OneAtWork, FunctionTypes, SymbolStatus
<1>5. ReadyIsCallable'
  BY DEF ReadyIsCallable, HasCode, Births, Makes, WorkDone, OneAtWork, FunctionTypes
<1> QED BY <1>1, <1>2, <1>3, <1>4, <1>5

LEMMA FailInv ==
  ASSUME TableInv, NEW t \in Resolvers, Fail(t)
  PROVE  TableInv'
<1> USE FunctionsAssumption DEF TableInv, AtWork, Fail, ResolverGoes, Mark, table, threads
<1>1. FunctionTypes' BY DEF FunctionTypes, ResolverPlaces, EntryStatus, SymbolStatus, OneAtWork
<1>2. OneAtWork' BY DEF OneAtWork, FunctionTypes
<1>3. WorkDone' BY DEF WorkDone, HasCode, Births, Makes, OneAtWork, FunctionTypes, SymbolStatus
<1>4. Births' BY DEF Births, Makes, WorkDone, OneAtWork, FunctionTypes, SymbolStatus
<1>5. ReadyIsCallable'
  BY DEF ReadyIsCallable, HasCode, Births, Makes, WorkDone, OneAtWork, FunctionTypes
<1> QED BY <1>1, <1>2, <1>3, <1>4, <1>5

LEMMA GetOrCreateInv ==
  ASSUME TableInv, NEW t \in Resolvers, NEW f \in Functions, GetOrCreate(t, f)
  PROVE  TableInv'
<1> USE FunctionsAssumption
   DEF TableInv, AtWork, GetOrCreate, IsNew, ResolverGoes, table, threads
<1>1. FunctionTypes' BY DEF FunctionTypes, ResolverPlaces, EntryStatus, SymbolStatus, OneAtWork
<1>2. OneAtWork' BY DEF OneAtWork, FunctionTypes
<1>3. WorkDone' BY DEF WorkDone, HasCode, Births, Makes, OneAtWork, FunctionTypes, SymbolStatus
<1>4. Births' BY DEF Births, Makes, WorkDone, OneAtWork, FunctionTypes, SymbolStatus
<1>5. ReadyIsCallable'
  BY DEF ReadyIsCallable, HasCode, Births, Makes, WorkDone, OneAtWork, FunctionTypes
<1> QED BY <1>1, <1>2, <1>3, <1>4, <1>5

LEMMA RemoveModuleInv ==
  ASSUME TableInv, RemoveModule
  PROVE  TableInv'
<1> USE FunctionsAssumption
   DEF TableInv, AtWork, RemoveModule, AddressedFunctions, table, threads
<1>1. FunctionTypes' BY DEF FunctionTypes, ResolverPlaces, EntryStatus, SymbolStatus, OneAtWork
<1>2. OneAtWork' BY DEF OneAtWork, FunctionTypes
<1>3. WorkDone' BY DEF WorkDone, HasCode, Births, Makes, OneAtWork, FunctionTypes, SymbolStatus
<1>4. Births' BY DEF Births, Makes, WorkDone, OneAtWork, FunctionTypes, SymbolStatus
<1>5. ReadyIsCallable'
  BY DEF ReadyIsCallable, HasCode, Births, Makes, WorkDone, OneAtWork, FunctionTypes
<1> QED BY <1>1, <1>2, <1>3, <1>4, <1>5

LEMMA TableStarts == ASSUME FunctionsInit PROVE TableInv
BY DEF FunctionsInit, TableInv, FunctionTypes, ResolverPlaces, EntryStatus, SymbolStatus,
       OneAtWork, AtWork, WorkDone, HasCode, Births, Makes, ReadyIsCallable

LEMMA TableStutters == ASSUME TableInv, UNCHANGED functionVars PROVE TableInv'
BY DEF functionVars, table, threads, TableInv, FunctionTypes, OneAtWork, AtWork, WorkDone,
       HasCode, Births, Makes, ReadyIsCallable

LEMMA TableStep == TableInv /\ [FunctionsNext]_functionVars => TableInv'
<1> SUFFICES ASSUME TableInv, [FunctionsNext]_functionVars PROVE TableInv'
  OBVIOUS
<1>1. ASSUME NEW t \in Resolvers, Resolve(t) PROVE TableInv'
  BY <1>1, SpinInv, UseInv, DeclareInv, NotFoundInv, DeclaredInv, DefineInv, AwaitInv,
     LookUpCalleeInv, DeclareCalleeInv, TranslateInv, PublishInv, ReadyInv, FailInv DEF Resolve
<1>2. ASSUME NEW t \in Resolvers, NEW f \in Functions, GetOrCreate(t, f) PROVE TableInv'
  BY <1>2, GetOrCreateInv
<1> QED BY <1>1, <1>2, RemoveModuleInv, TableStutters DEF FunctionsNext

LEMMA TableInvSuffices == ASSUME TableInv PROVE EntriesAreRight
<1> SUFFICES ASSUME NEW f \in Functions
             PROVE  Cardinality({t \in Resolvers :
                      resolving[t] = f /\ functionAt[t] \notin {"spin", "use"}})
                      = IF entry[f] = "compiling" THEN 1 ELSE 0
  BY DEF EntriesAreRight, OneMaker, TableInv
<1> DEFINE Makers ==
             {t \in Resolvers : resolving[t] = f /\ functionAt[t] \notin {"spin", "use"}}
<1>1. Makers = {t \in Resolvers : AtWork(t) /\ resolving[t] = f}
  BY FunctionsAssumption DEF TableInv, OneAtWork, AtWork
<1>2. CASE entry[f] = "compiling"
  <2>1. PICK t \in Resolvers : AtWork(t) /\ resolving[t] = f
    BY <1>2 DEF TableInv, OneAtWork
  <2>2. Makers = {t} BY <1>1, <2>1 DEF TableInv, OneAtWork
  <2> QED BY <1>2, <2>2, FS_Singleton
<1>3. CASE entry[f] # "compiling"
  <2>1. Makers = {} BY <1>1, <1>3 DEF TableInv, OneAtWork
  <2> QED BY <1>3, <2>1, FS_EmptySet
<1> QED BY <1>2, <1>3

\* However many threads resolve functions whose code calls others, declare what it
\* calls meanwhile, and unload the module between: what is in the making has
\* one thread at work on it, and what is ready has a function that has been translated and
\* has not gone with its module; unless the thread that resolved it found it while another
\* declared it, and then it may have no code.
THEOREM TheEntriesAreRight == FunctionsSpec => []EntriesAreRight
<1>1. FunctionsInit => TableInv BY TableStarts
<1>2. TableInv /\ [FunctionsNext]_functionVars => TableInv' BY TableStep
<1>3. TableInv => EntriesAreRight BY TableInvSuffices
<1> QED BY <1>1, <1>2, <1>3, PTL DEF FunctionsSpec

=============================================================================
