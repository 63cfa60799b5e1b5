-------------------------- MODULE DispatcherObjects --------------------------
(***************************************************************************)
(* What events, semaphores and mutants promise their callers (the comments *)
(* of base/threading.h).  A call has a part that signals and a part that   *)
(* waits, or one of them; each part takes effect once, at one instant      *)
(* between the call and its return, and the objects change at no other:    *)
(*   - a wait for all takes all of its objects at one instant, a wait for  *)
(*     any the first that is available, and a wait gives up only when it   *)
(*     has a timeout and what it waits for is not available;               *)
(*   - a semaphore's release is added if it fits and refused if it does    *)
(*     not, a mutant's release is its owner's and refused to others; a     *)
(*     refused signal ends the call, its wait included;                    *)
(*   - SignalAndWait is its signal and then its wait, Pulse a set and then *)
(*     a reset: two instants each, although threading.h calls the first "a *)
(*     single operation"; that is the most this implementation promises.   *)
(***************************************************************************)
EXTENDS Naturals, Sequences, FiniteSets

CONSTANTS Threads, NoThread, ManualEvents, AutoEvents, Semaphores, Mutants,
          MaximumCount, InitialCount, WaitLists, MaxRelease

VARIABLES
  signal, count, owner,  \* the objects
  wait,     \* wait[t]: what t's call waits for and has not had yet
  release   \* release[t]: what t's call signals and has not signaled yet

objects == <<signal, count, owner>>
vars == <<signal, count, owner, wait, release>>

Events == ManualEvents \union AutoEvents
Counted == Semaphores \union Mutants
Handles == Events \union Counted

NoWait == [handles |-> <<>>, all |-> FALSE, timed |-> FALSE]
NoRelease == [target |-> NoThread, amount |-> 0]

Waits == [handles : WaitLists, all : BOOLEAN, timed : BOOLEAN]
Releases == [target : Counted, amount : 1 .. MaxRelease]

Init ==
  /\ signal \in [Events -> BOOLEAN]
  /\ owner \in [Mutants -> Threads \union {NoThread}]
  /\ count = [h \in Counted |-> IF h \in Semaphores THEN InitialCount[h]
                                ELSE IF owner[h] = NoThread THEN 0 ELSE 1]
  /\ wait = [t \in Threads |-> NoWait]
  /\ release = [t \in Threads |-> NoRelease]

\* Thread t is in no call.
Idle(t) == wait[t] = NoWait /\ release[t] = NoRelease

\* What is left of t's call.
Left(t, w, r) ==
  /\ wait' = [wait EXCEPT ![t] = w]
  /\ release' = [release EXCEPT ![t] = r]

Available(t, h) ==
  \/ h \in Events /\ signal[h]
  \/ h \in Semaphores /\ count[h] > 0
  \/ h \in Mutants /\ owner[h] \in {NoThread, t}

-----------------------------------------------------------------------------
(* A call of t begins, and waits or signals later. *)
Call(t) ==
  /\ Idle(t)
  /\ \E w \in Waits \union {NoWait}, r \in Releases \union {NoRelease} : Left(t, w, r)
  /\ UNCHANGED objects

(* The waiting part of t's call, which may be a call that begins now. *)
WaitOf(t, w) == w \in Waits /\ release[t] = NoRelease /\ wait[t] \in {w, NoWait}

Wanted(t, w) ==
  IF w.all THEN \A i \in DOMAIN w.handles : Available(t, w.handles[i])
           ELSE \E i \in DOMAIN w.handles : Available(t, w.handles[i])

\* How often the places I of the list hs take h: a semaphore named more often
\* than its count is taken until it is empty.
Taken(hs, I, h) ==
  LET times == Cardinality({i \in I : hs[i] = h})
  IN  IF h \in Semaphores /\ times > count[h] THEN count[h] ELSE times

Acquire(t, hs, I) ==
  /\ signal' = [e \in Events |-> signal[e] /\ ~(e \in AutoEvents /\ \E i \in I : hs[i] = e)]
  /\ count' = [h \in Counted |-> IF h \in Semaphores THEN count[h] - Taken(hs, I, h)
                                 ELSE count[h] + Taken(hs, I, h)]
  /\ owner' = [m \in Mutants |-> IF \E i \in I : hs[i] = m THEN t ELSE owner[m]]

WaitAll(t) ==
  \E w \in Waits :
    /\ WaitOf(t, w) /\ w.all /\ Wanted(t, w)
    /\ Acquire(t, w.handles, DOMAIN w.handles)
    /\ Left(t, NoWait, NoRelease)

WaitAny(t) ==
  \E w \in Waits : \E i \in DOMAIN w.handles :
    /\ WaitOf(t, w) /\ ~w.all
    /\ Available(t, w.handles[i])
    /\ \A j \in DOMAIN w.handles : j < i => ~Available(t, w.handles[j])
    /\ Acquire(t, w.handles, {i})
    /\ Left(t, NoWait, NoRelease)

GiveUp(t) ==
  /\ wait[t] # NoWait /\ release[t] = NoRelease
  /\ wait[t].timed /\ ~Wanted(t, wait[t])
  /\ Left(t, NoWait, NoRelease)
  /\ UNCHANGED objects

-----------------------------------------------------------------------------
(* Events.  Signal may be the first part of SignalAndWait. *)
SetEvent(t) ==
  /\ Idle(t)
  /\ \E e \in Events : signal' = [signal EXCEPT ![e] = TRUE]
  /\ \E w \in Waits \union {NoWait} : Left(t, w, NoRelease)
  /\ UNCHANGED <<count, owner>>

ResetEvent(t) ==
  \E e \in Events :
    /\ Idle(t)
    /\ signal' = [signal EXCEPT ![e] = FALSE]
    /\ UNCHANGED <<count, owner, wait, release>>

PulseSet(t) ==
  \E e \in Events :
    /\ Idle(t)
    /\ signal' = [signal EXCEPT ![e] = TRUE]
    /\ Left(t, NoWait, [target |-> e, amount |-> 0])
    /\ UNCHANGED <<count, owner>>

PulseReset(t) ==
  /\ release[t].target \in Events
  /\ signal' = [signal EXCEPT ![release[t].target] = FALSE]
  /\ Left(t, NoWait, NoRelease)
  /\ UNCHANGED <<count, owner>>

-----------------------------------------------------------------------------
(* The signaling part of t's call, for a semaphore and for a mutant. *)
Fits(t) == count[release[t].target] + release[t].amount <= MaximumCount[release[t].target]

ReleaseSemaphore(t) ==
  /\ release[t].target \in Semaphores /\ Fits(t)
  /\ count' = [count EXCEPT ![release[t].target] = @ + release[t].amount]
  /\ Left(t, wait[t], NoRelease)
  /\ UNCHANGED <<signal, owner>>

ReleaseMutant(t) ==
  LET m == release[t].target
  IN  /\ m \in Mutants /\ owner[m] = t
      /\ count' = [count EXCEPT ![m] = @ - 1]
      /\ owner' = [owner EXCEPT ![m] = IF count[m] = 1 THEN NoThread ELSE @]
      /\ Left(t, wait[t], NoRelease)
      /\ UNCHANGED signal

Refuse(t) ==
  /\ \/ release[t].target \in Semaphores /\ ~Fits(t)
     \/ release[t].target \in Mutants /\ owner[release[t].target] # t
  /\ Left(t, NoWait, NoRelease)
  /\ UNCHANGED objects

-----------------------------------------------------------------------------
Step(t) ==
  \/ Call(t) \/ WaitAll(t) \/ WaitAny(t) \/ GiveUp(t)
  \/ SetEvent(t) \/ ResetEvent(t) \/ PulseSet(t) \/ PulseReset(t)
  \/ ReleaseSemaphore(t) \/ ReleaseMutant(t) \/ Refuse(t)

Next == \E t \in Threads : Step(t)

Spec == Init /\ [][Next]_vars

=============================================================================
