-------------------------- MODULE PosixConditions --------------------------
(***************************************************************************)
(* The wait objects of xe::threading on POSIX (base/threading_posix.cc):   *)
(* events, semaphores and mutants, and the single and multiple waits on    *)
(* them.  Every object of the process shares ONE static mutex and ONE      *)
(* static condition variable (PosixConditionBase::mutex_ and cond_), so    *)
(* each critical section below is one step, each notify_all wakes every    *)
(* blocked thread, and a woken thread looks at its own predicate again.    *)
(*                                                                         *)
(* What is NOT one step is what the code reads before it takes the mutex:  *)
(* the capacity test of a semaphore's Release, and the two reads that      *)
(* decide whether a mutant's Release may proceed.                          *)
(***************************************************************************)
EXTENDS Naturals, Sequences, FiniteSets

CONSTANTS
  Threads,         \* the threads that use the objects
  NoThread,        \* the value of a default-constructed std::thread::id
  ManualEvents,    \* events whose post_execution leaves signal_ alone
  AutoEvents,      \* events whose post_execution clears signal_
  Semaphores,
  Mutants,
  MaximumCount,    \* [Semaphores -> Nat]: maximum_count_
  InitialCount,    \* [Semaphores -> Nat]: the initial count_
  UintMod,         \* 2^32 in the code: count_ is a uint32_t
  WaitLists,       \* the sequences of handles a wait may be given
  Releasers,       \* the threads that release semaphores
  MaxRelease,      \* bound: the largest release_count
  StrayReleasers,  \* threads that may release a mutant they gave up before
  Exiters,         \* threads that may exit, holding whatever they hold
  MaxRecursion     \* bound: how often one thread acquires one mutant

Events == ManualEvents \union AutoEvents
Handles == Events \union Semaphores \union Mutants
Counted == Semaphores \union Mutants
Uint == 0 .. UintMod - 1

ASSUME ThreadAssumption ==
  /\ NoThread \notin Threads
  /\ Releasers \subseteq Threads
  /\ StrayReleasers \subseteq Threads
  /\ Exiters \subseteq Threads

ASSUME HandleAssumption ==
  /\ ManualEvents \intersect AutoEvents = {}
  /\ Events \intersect Counted = {}
  /\ Semaphores \intersect Mutants = {}

\* Semaphore::Create refuses a maximum below 1 and an initial count outside
\* 0..maximum; both arrive as an int, so a maximum is below 2^31.
ASSUME CountAssumption ==
  /\ UintMod \in Nat /\ UintMod > 1
  /\ MaxRelease \in Nat /\ MaxRelease > 0
  /\ MaxRecursion \in Nat /\ MaxRecursion > 0 /\ MaxRecursion < UintMod
  /\ MaximumCount \in [Semaphores -> 1 .. UintMod - 1]
  /\ InitialCount \in [Semaphores -> Uint]
  /\ \A s \in Semaphores : InitialCount[s] <= MaximumCount[s]
  /\ MaxRelease < UintMod

\* WaitMultiple asserts that its handles are not empty.
ASSUME WaitListAssumption ==
  /\ WaitLists \subseteq Seq(Handles)
  /\ \A hs \in WaitLists : Len(hs) > 0 /\ Len(hs) <= MaxRecursion

VARIABLES
  signal,   \* signal[e]: signal_ of an event
  count,    \* count[h]: count_ of a semaphore or a mutant
  owner,    \* owner[m]: owner_ of a mutant; Release never clears it
  pc,       \* pc[t]: where thread t is in the call it makes
  wait,     \* wait[t]: the arguments of t's Wait or WaitMultiple
  release,  \* release[t]: the object and amount of t's Release
  held      \* held[t][m]: t's acquisitions of m less its releases (history)

objects == <<signal, count, owner>>
vars == <<signal, count, owner, pc, wait, release, held>>

-----------------------------------------------------------------------------
(* uint32_t arithmetic. *)

Plus(a, b) == IF a + b < UintMod THEN a + b ELSE (a + b) - UintMod
Minus(a, b) == IF b <= a THEN a - b ELSE (a + UintMod) - b

-----------------------------------------------------------------------------
(* The virtual signaled() of each object, asked by thread t. *)
Signaled(t, h) ==
  IF h \in Events THEN signal[h]
  ELSE IF h \in Semaphores THEN count[h] > 0
  ELSE count[h] = 0 \/ owner[h] = t

(* The predicate the condition variable waits for. *)
Predicate(t, hs, all) ==
  IF all THEN \A i \in DOMAIN hs : Signaled(t, hs[i])
         ELSE \E i \in DOMAIN hs : Signaled(t, hs[i])

(* A wait for any of its handles takes the signaled one of the lowest index. *)
IsFirst(t, hs, i) ==
  Signaled(t, hs[i]) /\ \A j \in DOMAIN hs : j < i => ~Signaled(t, hs[j])

(* How often a successful wait runs post_execution on each object.  A wait  *)
(* for all passes every handle of the list, and looks at signaled() again   *)
(* before each, so a semaphore named twice is not decremented below zero.   *)
(* (An event named twice is cleared once or twice, which is the same.)      *)
TakeOne(hs, i) == [h \in Handles |-> IF h = hs[i] THEN 1 ELSE 0]

Times(hs, h) == Cardinality({i \in DOMAIN hs : hs[i] = h})

\* Mutant: the loop of a wait for all ends at the first object it takes.
TakeFirst(hs) == TakeOne(hs, 1)

TakeAll(hs) ==
  [h \in Handles |-> IF h \in Semaphores /\ Times(hs, h) > count[h]
                     THEN count[h] ELSE Times(hs, h)]

\* Mutant: notify_one.  The one woken may be one that cannot go on.
NotifyOne(t, next) ==
  \E v \in Threads :
    /\ (\E u \in Threads : pc[u] = "blocked") => pc[v] = "blocked"
    /\ pc' = [u \in Threads |-> IF u = t THEN next
                               ELSE IF u = v /\ pc[u] = "blocked" THEN "notified"
                               ELSE pc[u]]

(* notify_all, and then thread t goes to next. *)
NotifyAll(t, next) ==
  pc' = [u \in Threads |-> IF u = t THEN next
                           ELSE IF pc[u] = "blocked" THEN "notified"
                           ELSE pc[u]]

Goto(t, next) == pc' = [pc EXCEPT ![t] = next]

NoWait == [handles |-> <<>>, all |-> FALSE, timed |-> FALSE]
NoRelease == [target |-> NoThread, amount |-> 0]

-----------------------------------------------------------------------------
Init ==
  /\ signal \in [Events -> BOOLEAN]
  /\ owner \in [Mutants -> Threads \union {NoThread}]
  /\ count = [h \in Counted |-> IF h \in Semaphores THEN InitialCount[h]
                                ELSE IF owner[h] = NoThread THEN 0 ELSE 1]
  /\ held = [t \in Threads |-> [m \in Mutants |-> IF owner[m] = t THEN 1 ELSE 0]]
  /\ pc = [t \in Threads |-> "idle"]
  /\ wait = [t \in Threads |-> NoWait]
  /\ release = [t \in Threads |-> NoRelease]

-----------------------------------------------------------------------------
(* Waiting. *)

(* post_execution of everything taken.  Only the semaphore's notifies.      *)
Take(t, taken) ==
  /\ signal' = [e \in Events |-> IF e \in AutoEvents /\ taken[e] > 0
                                 THEN FALSE ELSE signal[e]]
  /\ count' = [h \in Counted |-> IF h \in Semaphores
                                 THEN count[h] - taken[h]
                                 ELSE Plus(count[h], taken[h])]
  /\ owner' = [m \in Mutants |-> IF taken[m] > 0 THEN t ELSE owner[m]]
  /\ held' = [held EXCEPT ![t] = [m \in Mutants |-> @[m] + taken[m]]]
  /\ IF \E s \in Semaphores : taken[s] > 0
     THEN NotifyAll(t, "idle") ELSE Goto(t, "idle")
  /\ wait' = [wait EXCEPT ![t] = NoWait]

(* The predicate holds, and the wait takes what it waited for.              *)
Complete(t, hs, all) ==
  \/ /\ all
     /\ \A i \in DOMAIN hs : Signaled(t, hs[i])
     /\ Take(t, TakeAll(hs))
  \/ /\ ~all
     /\ \E i \in DOMAIN hs : IsFirst(t, hs, i) /\ Take(t, TakeOne(hs, i))

(* The critical section of a wait that starts: take the objects, or let go  *)
(* of the mutex and block.                                                  *)
Enter(t, hs, all, timed) ==
  \/ Complete(t, hs, all)
  \/ /\ ~Predicate(t, hs, all)
     /\ Goto(t, "blocked")
     /\ wait' = [wait EXCEPT ![t] = [handles |-> hs, all |-> all, timed |-> timed]]
     /\ UNCHANGED <<objects, held>>

\* Bound: a thread that has a mutant MaxRecursion times does not wait for it
\* again.
RecursionLeft(t, hs) ==
  \A i \in DOMAIN hs :
    hs[i] \in Mutants => held[t][hs[i]] + Len(hs) <= MaxRecursion

(* Wait and WaitMultiple. *)
Wait(t) ==
  \E hs \in WaitLists, all \in BOOLEAN, timed \in BOOLEAN :
    /\ pc[t] = "idle"
    /\ RecursionLeft(t, hs)
    /\ Enter(t, hs, all, timed)
    /\ UNCHANGED release

(* A notified thread has the mutex again: it takes the objects, or finds    *)
(* that its predicate does not hold and blocks once more.                   *)
Recheck(t) ==
  /\ pc[t] = "notified"
  /\ Enter(t, wait[t].handles, wait[t].all, wait[t].timed)
  /\ UNCHANGED release

(* cond_wait may return although nobody notified. *)
SpuriousWakeup(t) ==
  /\ pc[t] = "blocked"
  /\ Goto(t, "notified")
  /\ UNCHANGED <<objects, wait, release, held>>

(* wait_for has timed out; it evaluates the predicate a last time.          *)
Timeout(t) ==
  /\ pc[t] \in {"blocked", "notified"}
  /\ wait[t].timed
  /\ \/ Complete(t, wait[t].handles, wait[t].all)
     \/ /\ ~Predicate(t, wait[t].handles, wait[t].all)
        /\ Goto(t, "idle")
        /\ wait' = [wait EXCEPT ![t] = NoWait]
        /\ UNCHANGED <<objects, held>>
  /\ UNCHANGED release

-----------------------------------------------------------------------------
(* Events. *)

SetEvent(t, e) ==
  /\ pc[t] = "idle"
  /\ signal' = [signal EXCEPT ![e] = TRUE]
  /\ NotifyAll(t, "idle")
  /\ UNCHANGED <<count, owner, wait, release, held>>

ResetEvent(t, e) ==
  /\ pc[t] = "idle"
  /\ signal' = [signal EXCEPT ![e] = FALSE]
  /\ UNCHANGED <<count, owner, pc, wait, release, held>>

(* Pulse is Signal, a yield and a short sleep, and Reset: two sections.     *)
PulseSignal(t, e) ==
  /\ pc[t] = "idle"
  /\ signal' = [signal EXCEPT ![e] = TRUE]
  /\ NotifyAll(t, "pulse")
  /\ release' = [release EXCEPT ![t] = [target |-> e, amount |-> 0]]
  /\ UNCHANGED <<count, owner, wait, held>>

PulseReset(t) ==
  /\ pc[t] = "pulse"
  /\ signal' = [signal EXCEPT ![release[t].target] = FALSE]
  /\ Goto(t, "idle")
  /\ release' = [release EXCEPT ![t] = NoRelease]
  /\ UNCHANGED <<count, owner, wait, held>>

-----------------------------------------------------------------------------
(* The end of a successful Signal: SignalAndWait goes on to its wait, any   *)
(* other caller is done.                                                    *)
AfterSignal(t) == IF wait[t] = NoWait THEN "idle" ELSE "wait"

\* Mutant: the room is not compared with the amount.
NoRoomCheck(t) ==
  /\ pc[t] = "sem_check"
  /\ Goto(t, "sem_add")
  /\ UNCHANGED <<objects, wait, release, held>>

(* Semaphores.  The room is read without the mutex ...                      *)
SemaphoreCheck(t) ==
  /\ pc[t] = "sem_check"
  /\ LET s == release[t].target
     IN  IF Minus(MaximumCount[s], count[s]) >= release[t].amount
         THEN /\ Goto(t, "sem_add")
              /\ UNCHANGED <<wait, release>>
         ELSE /\ Goto(t, "idle")
              /\ wait' = [wait EXCEPT ![t] = NoWait]
              /\ release' = [release EXCEPT ![t] = NoRelease]
  /\ UNCHANGED <<objects, held>>

(* ... and used after the mutex was taken.                                  *)
SemaphoreAdd(t) ==
  /\ pc[t] = "sem_add"
  /\ LET s == release[t].target
     IN  count' = [count EXCEPT ![s] = Plus(@, release[t].amount)]
  /\ NotifyAll(t, AfterSignal(t))
  /\ release' = [release EXCEPT ![t] = NoRelease]
  /\ UNCHANGED <<signal, owner, wait, held>>

-----------------------------------------------------------------------------
(* Mutants.  Two unlocked reads, then the decrement under the mutex.        *)
GiveUpRelease(t) ==
  /\ Goto(t, "idle")
  /\ wait' = [wait EXCEPT ![t] = NoWait]
  /\ release' = [release EXCEPT ![t] = NoRelease]
  /\ UNCHANGED <<objects, held>>

\* Mutant: whoever calls Release may proceed.
NoOwnerCheck(t) ==
  /\ pc[t] = "mut_owner"
  /\ Goto(t, "mut_count")
  /\ UNCHANGED <<objects, wait, release, held>>

MutantOwnerCheck(t) ==
  /\ pc[t] = "mut_owner"
  /\ \/ /\ owner[release[t].target] = t
        /\ Goto(t, "mut_count")
        /\ UNCHANGED <<objects, wait, release, held>>
     \/ /\ owner[release[t].target] # t
        /\ GiveUpRelease(t)

MutantCountCheck(t) ==
  /\ pc[t] = "mut_count"
  /\ \/ /\ count[release[t].target] > 0
        /\ Goto(t, "mut_dec")
        /\ UNCHANGED <<objects, wait, release, held>>
     \/ /\ count[release[t].target] = 0
        /\ GiveUpRelease(t)

\* Mutant: the count is compared with 0 before it is decremented.
DecrementAfterTest(t) ==
  /\ pc[t] = "mut_dec"
  /\ LET m == release[t].target
     IN  /\ count' = [count EXCEPT ![m] = Minus(@, 1)]
         /\ held' = [held EXCEPT ![t] =
                       [held[t] EXCEPT ![m] = IF @ > 0 THEN @ - 1 ELSE 0]]
         /\ IF count[m] = 0 THEN NotifyAll(t, AfterSignal(t)) ELSE Goto(t, AfterSignal(t))
  /\ release' = [release EXCEPT ![t] = NoRelease]
  /\ UNCHANGED <<signal, owner, wait>>

MutantDecrement(t) ==
  /\ pc[t] = "mut_dec"
  /\ LET m == release[t].target
     IN  /\ count' = [count EXCEPT ![m] = Minus(@, 1)]
         /\ held' = [held EXCEPT ![t] =
                       [held[t] EXCEPT ![m] = IF @ > 0 THEN @ - 1 ELSE 0]]
         /\ IF count[m] = 1 THEN NotifyAll(t, AfterSignal(t)) ELSE Goto(t, AfterSignal(t))
  /\ release' = [release EXCEPT ![t] = NoRelease]
  /\ UNCHANGED <<signal, owner, wait>>

-----------------------------------------------------------------------------
(* The calls that release, alone or as the first half of SignalAndWait.     *)

\* What may follow a signal: nothing, or the single wait of SignalAndWait.
Tails(t) ==
  {NoWait} \union
  {w \in [handles : {hs \in WaitLists : Len(hs) = 1}, all : {FALSE}, timed : BOOLEAN] :
     RecursionLeft(t, w.handles)}

ReleaseSemaphore(t, s) ==
  \E n \in 1 .. MaxRelease, tail \in Tails(t) :
    /\ t \in Releasers
    /\ pc[t] = "idle"
    /\ tail # NoWait => n = 1
    /\ Goto(t, "sem_check")
    /\ wait' = [wait EXCEPT ![t] = tail]
    /\ release' = [release EXCEPT ![t] = [target |-> s, amount |-> n]]
    /\ UNCHANGED <<objects, held>>

(* A thread may release a mutant it holds, or one whose last owner is       *)
(* another thread (which fails); only a stray releaser releases a mutant    *)
(* that it owned last and has given up since.                               *)
ReleaseMutant(t, m) ==
  \E tail \in Tails(t) :
    /\ pc[t] = "idle"
    /\ held[t][m] > 0 \/ owner[m] # t \/ t \in StrayReleasers
    /\ Goto(t, "mut_owner")
    /\ wait' = [wait EXCEPT ![t] = tail]
    /\ release' = [release EXCEPT ![t] = [target |-> m, amount |-> 1]]
    /\ UNCHANGED <<objects, held>>

(* SignalAndWait on an event: Signal() is the whole first half.             *)
SignalEventAndWait(t, e) ==
  \E tail \in Tails(t) \ {NoWait} :
    /\ pc[t] = "idle"
    /\ signal' = [signal EXCEPT ![e] = TRUE]
    /\ NotifyAll(t, "wait")
    /\ wait' = [wait EXCEPT ![t] = tail]
    /\ UNCHANGED <<count, owner, release, held>>

(* The second half of SignalAndWait, a critical section of its own.         *)
WaitAfterSignal(t) ==
  /\ pc[t] = "wait"
  /\ Enter(t, wait[t].handles, wait[t].all, wait[t].timed)
  /\ UNCHANGED release

(* A thread ends.  No object learns of it: nothing marks a mutant abandoned. *)
Exit(t) ==
  /\ t \in Exiters
  /\ pc[t] = "idle"
  /\ Goto(t, "exited")
  /\ UNCHANGED <<objects, wait, release, held>>

-----------------------------------------------------------------------------
WaitSteps(t) ==
  Wait(t) \/ Recheck(t) \/ SpuriousWakeup(t) \/ Timeout(t) \/ WaitAfterSignal(t)

EventSteps(t) ==
  \/ \E e \in Events : \/ SetEvent(t, e) \/ ResetEvent(t, e)
                       \/ PulseSignal(t, e) \/ SignalEventAndWait(t, e)
  \/ PulseReset(t)

ReleaseSteps(t) ==
  \/ \E s \in Semaphores : ReleaseSemaphore(t, s)
  \/ SemaphoreCheck(t)
  \/ SemaphoreAdd(t)
  \/ \E m \in Mutants : ReleaseMutant(t, m)
  \/ MutantOwnerCheck(t)
  \/ MutantCountCheck(t)
  \/ MutantDecrement(t)

Next == \E t \in Threads : WaitSteps(t) \/ EventSteps(t) \/ ReleaseSteps(t) \/ Exit(t)

Spec == Init /\ [][Next]_vars

(* The scheduler runs every thread that can run: one that was notified gets *)
(* the mutex, and one inside a call finishes it.  No fairness on starting a *)
(* call, on a timeout or on a spurious wakeup.                              *)
Finish(t) ==
  \/ PulseReset(t) \/ WaitAfterSignal(t)
  \/ SemaphoreCheck(t) \/ SemaphoreAdd(t)
  \/ MutantOwnerCheck(t) \/ MutantCountCheck(t) \/ MutantDecrement(t)

FairSpec == Spec /\ \A t \in Threads : WF_vars(Recheck(t)) /\ WF_vars(Finish(t))

-----------------------------------------------------------------------------
(* Properties. *)

PCs == {"idle", "blocked", "notified", "wait", "pulse", "sem_check", "sem_add",
        "mut_owner", "mut_count", "mut_dec", "exited"}
Waits == [handles : WaitLists, all : BOOLEAN, timed : BOOLEAN]

\* Every variable has its type, and the local variables of a thread fit the
\* place it is at.
TypeOK ==
  /\ signal \in [Events -> BOOLEAN]
  /\ count \in [Counted -> Uint]
  /\ owner \in [Mutants -> Threads \union {NoThread}]
  /\ pc \in [Threads -> PCs]
  /\ wait \in [Threads -> Waits \union {NoWait}]
  /\ release \in [Threads -> [target : Handles \union {NoThread},
                              amount : 0 .. MaxRelease]]
  /\ held \in [Threads -> [Mutants -> Nat]]
  /\ \A t \in Threads :
       /\ pc[t] \in {"blocked", "notified", "wait"} => wait[t] \in Waits
       /\ pc[t] = "pulse" => release[t].target \in Events
       /\ pc[t] \in {"sem_check", "sem_add"} => release[t].target \in Semaphores
       /\ pc[t] \in {"mut_owner", "mut_count", "mut_dec"} =>
            release[t].target \in Mutants

Ready(t) == Predicate(t, wait[t].handles, wait[t].all)

\* No wakeup is lost: a thread that blocks, and that nobody has woken, waits
\* for something that is not signaled, whichever of its objects changed last
\* and in whose critical section.  A change that can satisfy a waiter and
\* does not notify, or a check of the predicate outside of the mutex, breaks it.
NoLostWakeup == \A t \in Threads : pc[t] = "blocked" => ~Ready(t)

\* A mutant belongs to one thread at a time, for as many releases as it was
\* acquired: whoever has acquired it more often than released it is the
\* owner_, and count_ is the difference.
MutantExclusive ==
  \A t \in Threads, m \in Mutants :
    held[t][m] > 0 => owner[m] = t /\ count[m] = held[t][m]

\* A semaphore never holds more than its maximum.
SemaphoreBound == \A s \in Semaphores : count[s] <= MaximumCount[s]

\* Two releases of one semaphore have both found room and neither has taken
\* the mutex: the second adds to what it did not see.
Raced ==
  \E t, u \in Threads :
    t # u /\ pc[t] = "sem_add" /\ pc[u] = "sem_add" /\ release[t].target = release[u].target

\* That race is all that can take a semaphore above its maximum: until it
\* happens the unlocked look for room is as good as a locked one, whoever
\* takes, waits and releases in between.  (A behaviour up to any state, and
\* nothing after it, is a behaviour; so this speaks of every prefix.)
OverrunNeedsARace == []~Raced => []SemaphoreBound

\* The behaviours without the race, for the run of AtomicObjects.
RaceFreeSpec == Init /\ [][Next /\ ~Raced']_vars

\* Release of a mutant succeeds only for a thread that owns it.
OnlyOwnerReleases ==
  [][\A t \in Threads :
       pc[t] = "mut_dec" /\ pc'[t] # "mut_dec" => held[t][release[t].target] > 0]_vars

Waiting(t) == pc[t] \in {"blocked", "notified"}

\* No thread waits forever for something that stays available: a wakeup
\* that is delivered is also acted on.  It holds as long as nobody gets to the
\* decrement of a mutant it has given up before.
Misused == \E t \in Threads : pc[t] = "mut_dec" /\ held[t][release[t].target] = 0
WaitersServed ==
  []~Misused => \A t \in Threads : []<>~(Waiting(t) /\ Ready(t))

\* What the objects promise, whatever the threads' steps between the unlocked
\* reads and the mutex: each part of each call takes effect once, at one
\* instant, and on what holds at that instant, as in DispatcherObjects.  It
\* holds unless two releases of a semaphore race (Raced), which overruns it.
\* Release leaves owner_ behind; a mutant with a count of 0 has no owner.
Objects == INSTANCE DispatcherObjects WITH
             owner <- [m \in Mutants |-> IF count[m] = 0 THEN NoThread ELSE owner[m]]
AtomicObjects == Objects!Spec

=============================================================================
