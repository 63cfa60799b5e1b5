----------------------- MODULE PosixConditionsProofs -----------------------
(***************************************************************************)
(* Proofs about the wait objects, for every set of threads and objects.    *)
(***************************************************************************)
EXTENDS PosixConditions, FiniteSetTheorems, SequenceTheorems, TLAPS

-----------------------------------------------------------------------------
(* The operators of the model. *)

\* A list of handles a wait may be given is a non-empty sequence of handles.
LEMMA WaitListFacts ==
  ASSUME NEW hs \in WaitLists
  PROVE  /\ Len(hs) \in Nat \ {0} /\ Len(hs) <= MaxRecursion
         /\ DOMAIN hs = 1 .. Len(hs)
         /\ \A i \in DOMAIN hs : hs[i] \in Handles
         /\ hs # <<>>
<1>1. hs \in Seq(Handles) BY WaitListAssumption
<1>2. /\ Len(hs) \in Nat /\ DOMAIN hs = 1 .. Len(hs)
      /\ \A i \in DOMAIN hs : hs[i] \in Handles
  BY <1>1, LenProperties, ElementOfSeq
<1>3. Len(hs) > 0 /\ Len(hs) <= MaxRecursion BY WaitListAssumption
<1> QED BY <1>2, <1>3, CountAssumption

\* A handle occurs in a list at most as often as the list is long.
LEMMA TimesFacts ==
  ASSUME NEW hs \in WaitLists, NEW h
  PROVE  /\ Times(hs, h) \in 0 .. Len(hs)
         /\ Times(hs, h) > 0 => \E i \in DOMAIN hs : hs[i] = h
<1> DEFINE S == {i \in DOMAIN hs : hs[i] = h}
<1>1. Len(hs) \in Nat /\ DOMAIN hs = 1 .. Len(hs) BY WaitListFacts
<1>2. IsFiniteSet(1 .. Len(hs)) /\ Cardinality(1 .. Len(hs)) = Len(hs)
  <2>1. 1 \in Int /\ Len(hs) \in Int BY <1>1
  <2>2. Cardinality(1 .. Len(hs)) = IF 1 > Len(hs) THEN 0 ELSE Len(hs) - 1 + 1
    BY <2>1, FS_Interval, Zenon
  <2>3. IsFiniteSet(1 .. Len(hs)) BY <2>1, FS_Interval, Zenon
  <2> QED BY <1>1, <2>2, <2>3
<1>3. IsFiniteSet(S) /\ Cardinality(S) <= Len(hs)
  BY <1>1, <1>2, FS_Subset
<1>4. Cardinality(S) \in Nat BY <1>3, FS_CardinalityType
<1>5. S = {} => Cardinality(S) = 0 BY FS_EmptySet
<1> HIDE DEF S
<1>6. Times(hs, h) = Cardinality(S) BY DEF Times, S
<1>7. Times(hs, h) > 0 => S # {} BY <1>4, <1>5, <1>6
<1> QED BY <1>1, <1>3, <1>4, <1>6, <1>7 DEF S

\* What a successful wait takes: only signaled objects of its list, never
\* more of a semaphore than its count.
LEMMA TakenFacts ==
  ASSUME TypeOK, NEW t \in Threads, NEW hs \in WaitLists, NEW all \in BOOLEAN,
         Complete(t, hs, all)
  PROVE  \E taken \in [Handles -> Nat] :
           /\ Take(t, taken)
           /\ \A h \in Handles :
                /\ taken[h] <= Len(hs)
                /\ taken[h] > 0 => Signaled(t, h) /\ \E i \in DOMAIN hs : hs[i] = h
           /\ \A s \in Semaphores : taken[s] <= count[s]
<1>1. CASE all
  <2>1. Take(t, TakeAll(hs)) /\ \A i \in DOMAIN hs : Signaled(t, hs[i])
    BY <1>1 DEF Complete
  <2>2. \A h \in Handles : Times(hs, h) \in 0 .. Len(hs)
    BY TimesFacts
  <2>3. \A s \in Semaphores : count[s] \in Nat
    BY DEF TypeOK, Counted, Uint
  <2>4. /\ TakeAll(hs) \in [Handles -> Nat]
        /\ \A h \in Handles : TakeAll(hs)[h] <= Times(hs, h)
        /\ \A s \in Semaphores : TakeAll(hs)[s] <= count[s]
    BY <2>2, <2>3 DEF TakeAll, Handles
  <2>5. \A h \in Handles : TakeAll(hs)[h] > 0 => \E i \in DOMAIN hs : hs[i] = h
    <3> TAKE h \in Handles
    <3>1. TakeAll(hs)[h] \in Nat /\ TakeAll(hs)[h] <= Times(hs, h) /\ Times(hs, h) \in Nat
      BY <2>2, <2>4
    <3>2. TakeAll(hs)[h] > 0 => Times(hs, h) > 0 BY <3>1
    <3> QED BY <3>2, TimesFacts
  <2>6. \A h \in Handles : TakeAll(hs)[h] <= Len(hs)
    BY <2>2, <2>4, WaitListFacts
  <2>7. \A h \in Handles : TakeAll(hs)[h] > 0 => Signaled(t, h)
    BY <2>1, <2>5
  <2> QED BY <2>1, <2>4, <2>5, <2>6, <2>7
<1>2. CASE ~all
  <2>1. PICK i \in DOMAIN hs : IsFirst(t, hs, i) /\ Take(t, TakeOne(hs, i))
    BY <1>2 DEF Complete
  <2>2. hs[i] \in Handles /\ Signaled(t, hs[i])
    BY <2>1, WaitListFacts DEF IsFirst
  <2>3. TakeOne(hs, i) \in [Handles -> Nat] /\ \A h \in Handles :
          TakeOne(hs, i)[h] = IF h = hs[i] THEN 1 ELSE 0
    BY DEF TakeOne
  <2>4. \A s \in Semaphores : TakeOne(hs, i)[s] <= count[s]
    BY <2>2, <2>3, HandleAssumption DEF Signaled, TypeOK, Counted, Uint, Handles
  <2>5. \A h \in Handles : TakeOne(hs, i)[h] <= Len(hs)
    BY <2>3, WaitListFacts
  <2> QED BY <2>1, <2>2, <2>3, <2>4, <2>5
<1> QED BY <1>1, <1>2

-----------------------------------------------------------------------------
(* Types. *)

LEMMA InitType == Init => TypeOK
<1> SUFFICES ASSUME Init PROVE TypeOK OBVIOUS
<1>1. count \in [Counted -> Uint]
  <2>1. \A s \in Semaphores : InitialCount[s] \in Uint BY CountAssumption
  <2>2. 0 \in Uint /\ 1 \in Uint BY CountAssumption DEF Uint
  <2> QED BY <2>1, <2>2 DEF Init, Counted
<1>2. NoWait \notin Waits BY WaitListFacts DEF NoWait, Waits
<1>3. release \in [Threads -> [target : Handles \union {NoThread}, amount : 0 .. MaxRelease]]
  BY CountAssumption DEF Init, NoRelease
<1> QED BY <1>1, <1>2, <1>3 DEF Init, TypeOK, PCs

LEMMA TakeType ==
  ASSUME TypeOK, NEW t \in Threads, NEW hs \in WaitLists, NEW all \in BOOLEAN,
         Complete(t, hs, all), UNCHANGED release,
         pc[t] \in {"idle", "blocked", "notified", "wait"}
  PROVE  TypeOK'
<1>1. PICK taken \in [Handles -> Nat] :
        /\ Take(t, taken)
        /\ \A h \in Handles : taken[h] <= Len(hs)
        /\ \A s \in Semaphores : taken[s] <= count[s]
  BY TakenFacts
<1>2. signal' \in [Events -> BOOLEAN]
  BY <1>1 DEF TypeOK, Take
<1>3. count' \in [Counted -> Uint]
  <2>1. ASSUME NEW s \in Semaphores PROVE count[s] - taken[s] \in Uint
    <3>1. count[s] \in Uint /\ taken[s] \in Nat /\ taken[s] <= count[s]
      BY <1>1 DEF TypeOK, Counted, Handles
    <3> QED BY <3>1, CountAssumption DEF Uint
  <2>2. ASSUME NEW m \in Mutants PROVE Plus(count[m], taken[m]) \in Uint
    <3>1. count[m] \in Uint /\ taken[m] \in Nat /\ taken[m] <= MaxRecursion
      BY <1>1, WaitListFacts, CountAssumption DEF TypeOK, Counted, Handles
    <3> QED BY <3>1, CountAssumption DEF Uint, Plus
  <2> QED BY <1>1, <2>1, <2>2 DEF Take, Counted
<1>4. owner' \in [Mutants -> Threads \union {NoThread}]
  BY <1>1 DEF TypeOK, Take
<1>5. held' \in [Threads -> [Mutants -> Nat]]
  <2>1. [m \in Mutants |-> held[t][m] + taken[m]] \in [Mutants -> Nat]
    BY DEF TypeOK, Handles
  <2> QED BY <1>1, <2>1 DEF TypeOK, Take
<1>6. pc' \in [Threads -> PCs] /\ \A u \in Threads : u # t =>
        pc'[u] = pc[u] \/ (pc[u] = "blocked" /\ pc'[u] = "notified")
  BY <1>1 DEF TypeOK, Take, NotifyAll, Goto, PCs
<1>7. pc'[t] = "idle"
  BY <1>1 DEF TypeOK, Take, NotifyAll, Goto
<1>8. wait' = [wait EXCEPT ![t] = NoWait]
  BY <1>1 DEF Take
<1> QED BY <1>2, <1>3, <1>4, <1>5, <1>6, <1>7, <1>8 DEF TypeOK

LEMMA EnterType ==
  ASSUME TypeOK, NEW t \in Threads, NEW hs \in WaitLists, NEW all \in BOOLEAN,
         NEW timed \in BOOLEAN, Enter(t, hs, all, timed), UNCHANGED release,
         pc[t] \in {"idle", "blocked", "notified", "wait"}
  PROVE  TypeOK'
<1>1. CASE Complete(t, hs, all) BY <1>1, TakeType
<1>2. CASE /\ Goto(t, "blocked")
           /\ wait' = [wait EXCEPT ![t] = [handles |-> hs, all |-> all, timed |-> timed]]
           /\ UNCHANGED <<objects, held>>
  BY <1>2 DEF TypeOK, Goto, objects, Waits, PCs
<1> QED BY <1>1, <1>2 DEF Enter

\* The type invariant is inductive on its own.
LEMMA TypeStep == TypeOK /\ [Next]_vars => TypeOK'
<1> SUFFICES ASSUME TypeOK, [Next]_vars PROVE TypeOK' OBVIOUS
<1>a. NoWait \notin Waits BY WaitListFacts DEF NoWait, Waits
<1>b. \A t \in Threads : Tails(t) \subseteq Waits \union {NoWait}
  BY DEF Tails, Waits
<1>c. NoRelease \in [target : Handles \union {NoThread}, amount : 0 .. MaxRelease]
  BY CountAssumption DEF NoRelease
<1>d. \A t \in Threads : AfterSignal(t) \in {"idle", "wait"} /\
        (AfterSignal(t) = "wait" => wait[t] \in Waits)
  BY DEF AfterSignal, TypeOK
<1>e. \A x \in Waits : x.handles \in WaitLists /\ x.all \in BOOLEAN /\ x.timed \in BOOLEAN
  BY DEF Waits
<1>1. CASE UNCHANGED vars BY <1>1 DEF TypeOK, vars, objects
<1>2. ASSUME NEW t \in Threads, WaitSteps(t) PROVE TypeOK'
  <2>1. CASE Wait(t) BY <2>1, EnterType DEF Wait
  <2>2. CASE Recheck(t)
    BY <1>e, <2>2, EnterType DEF Recheck, TypeOK
  <2>3. CASE SpuriousWakeup(t)
    BY <2>3 DEF SpuriousWakeup, Goto, TypeOK, objects, PCs
  <2>4. CASE Timeout(t)
    <3>1. CASE Complete(t, wait[t].handles, wait[t].all)
      BY <1>e, <2>4, <3>1, TakeType DEF Timeout, TypeOK
    <3>2. CASE /\ Goto(t, "idle")
               /\ wait' = [wait EXCEPT ![t] = NoWait]
               /\ UNCHANGED <<objects, held, release>>
      BY <3>2 DEF Goto, TypeOK, objects, PCs
    <3> QED BY <2>4, <3>1, <3>2 DEF Timeout
  <2>5. CASE WaitAfterSignal(t)
    BY <1>e, <2>5, EnterType DEF WaitAfterSignal, TypeOK
  <2> QED BY <1>2, <2>1, <2>2, <2>3, <2>4, <2>5 DEF WaitSteps
<1>3. ASSUME NEW t \in Threads, EventSteps(t) PROVE TypeOK'
  <2>1. ASSUME NEW e \in Events, SetEvent(t, e) PROVE TypeOK'
    BY <2>1 DEF SetEvent, NotifyAll, TypeOK, PCs
  <2>2. ASSUME NEW e \in Events, ResetEvent(t, e) PROVE TypeOK'
    BY <2>2 DEF ResetEvent, TypeOK
  <2>3. ASSUME NEW e \in Events, PulseSignal(t, e) PROVE TypeOK'
    <3>1. [target |-> e, amount |-> 0] \in
            [target : Handles \union {NoThread}, amount : 0 .. MaxRelease]
      BY CountAssumption DEF Handles
    <3> QED BY <2>3, <3>1 DEF PulseSignal, NotifyAll, TypeOK, PCs
  <2>4. ASSUME NEW e \in Events, SignalEventAndWait(t, e) PROVE TypeOK'
    BY <1>b, <2>4 DEF SignalEventAndWait, NotifyAll, TypeOK, PCs
  <2>5. CASE PulseReset(t)
    BY <1>c, <2>5 DEF PulseReset, Goto, TypeOK, PCs
  <2> QED BY <1>3, <2>1, <2>2, <2>3, <2>4, <2>5 DEF EventSteps
<1>4. ASSUME NEW t \in Threads, ReleaseSteps(t) PROVE TypeOK'
  <2>0. ASSUME GiveUpRelease(t) PROVE TypeOK'
    BY <1>c, <2>0 DEF GiveUpRelease, Goto, TypeOK, PCs, objects
  <2>1. ASSUME NEW s \in Semaphores, ReleaseSemaphore(t, s) PROVE TypeOK'
    <3>1. PICK n \in 1 .. MaxRelease, tail \in Tails(t) :
            /\ pc[t] = "idle" /\ Goto(t, "sem_check")
            /\ wait' = [wait EXCEPT ![t] = tail]
            /\ release' = [release EXCEPT ![t] = [target |-> s, amount |-> n]]
            /\ UNCHANGED <<objects, held>>
      BY <2>1 DEF ReleaseSemaphore
    <3>2. [target |-> s, amount |-> n] \in
            [target : Handles \union {NoThread}, amount : 0 .. MaxRelease]
      BY CountAssumption DEF Handles
    <3> QED BY <1>b, <3>1, <3>2 DEF Goto, TypeOK, PCs, objects
  <2>2. CASE SemaphoreCheck(t)
    BY <1>c, <2>2 DEF SemaphoreCheck, Goto, TypeOK, PCs, objects
  <2>3. CASE SemaphoreAdd(t)
    <3> DEFINE s == release[t].target
    <3>1. s \in Semaphores /\ release[t].amount \in 0 .. MaxRelease /\ pc[t] = "sem_add"
      BY <2>3 DEF SemaphoreAdd, TypeOK
    <3>2. Plus(count[s], release[t].amount) \in Uint
      BY <3>1, CountAssumption DEF TypeOK, Plus, Uint, Counted
    <3>3. count' \in [Counted -> Uint] BY <2>3, <3>1, <3>2 DEF SemaphoreAdd, TypeOK
    <3> QED BY <1>c, <1>d, <2>3, <3>3 DEF SemaphoreAdd, NotifyAll, TypeOK, PCs
  <2>4. ASSUME NEW m \in Mutants, ReleaseMutant(t, m) PROVE TypeOK'
    <3>1. [target |-> m, amount |-> 1] \in
            [target : Handles \union {NoThread}, amount : 0 .. MaxRelease]
      BY CountAssumption DEF Handles
    <3> QED BY <1>b, <2>4, <3>1 DEF ReleaseMutant, Goto, TypeOK, PCs, objects
  <2>5. CASE MutantOwnerCheck(t)
    BY <2>0, <2>5 DEF MutantOwnerCheck, Goto, TypeOK, PCs, objects
  <2>6. CASE MutantCountCheck(t)
    BY <2>0, <2>6 DEF MutantCountCheck, Goto, TypeOK, PCs, objects
  <2>7. CASE MutantDecrement(t)
    <3> DEFINE m == release[t].target
    <3>1. m \in Mutants /\ pc[t] = "mut_dec"
      BY <2>7 DEF MutantDecrement, TypeOK
    <3>2. Minus(count[m], 1) \in Uint
      BY <3>1, CountAssumption DEF TypeOK, Minus, Uint, Counted
    <3>3. count' \in [Counted -> Uint]
      BY <2>7, <3>1, <3>2 DEF MutantDecrement, TypeOK
    <3>4. held' \in [Threads -> [Mutants -> Nat]]
      <4> DEFINE mine == [held[t] EXCEPT ![m] = IF @ > 0 THEN @ - 1 ELSE 0]
      <4>1. mine \in [Mutants -> Nat] BY <3>1 DEF TypeOK
      <4>2. held' = [held EXCEPT ![t] = mine] BY <2>7 DEF MutantDecrement
      <4> QED BY <4>1, <4>2 DEF TypeOK
    <3>5. /\ signal' = signal /\ owner' = owner /\ wait' = wait
          /\ release' = [release EXCEPT ![t] = NoRelease]
          /\ NotifyAll(t, AfterSignal(t)) \/ Goto(t, AfterSignal(t))
      BY <2>7 DEF MutantDecrement
    <3> QED BY <1>c, <1>d, <3>1, <3>3, <3>4, <3>5 DEF NotifyAll, Goto, TypeOK, PCs
  <2> QED BY <1>4, <2>1, <2>2, <2>3, <2>4, <2>5, <2>6, <2>7 DEF ReleaseSteps
<1>5. ASSUME NEW t \in Threads, Exit(t) PROVE TypeOK'
  BY <1>5 DEF Exit, Goto, TypeOK, PCs, objects
<1> QED BY <1>1, <1>2, <1>3, <1>4, <1>5 DEF Next

\* Every variable of the wait objects always has its type.
THEOREM TypeCorrect == Spec => []TypeOK
BY InitType, TypeStep, PTL DEF Spec

-----------------------------------------------------------------------------
(* Mutants.                                                                *)
(*                                                                         *)
(* MutantExclusive is not inductive.  It also takes that a count above 0   *)
(* is somebody's (Counts), that a thread inside Release really holds the   *)
(* mutant although it looked before it took the mutex (Releasing: nobody   *)
(* else can take owner_ away from it), and that a recursive acquisition    *)
(* does not wrap the uint32_t (Recursion).                                 *)

Counts ==
  \A m \in Mutants :
    count[m] > 0 => owner[m] \in Threads /\ held[owner[m]][m] = count[m]

Releasing ==
  \A t \in Threads :
    /\ pc[t] = "mut_owner" =>
         held[t][release[t].target] > 0 \/ owner[release[t].target] # t
    /\ pc[t] \in {"mut_count", "mut_dec"} => held[t][release[t].target] > 0

Recursion ==
  \A t \in Threads :
    /\ \A m \in Mutants : held[t][m] <= MaxRecursion
    /\ wait[t] # NoWait => RecursionLeft(t, wait[t].handles)

MutantInv == TypeOK /\ MutantExclusive /\ Counts /\ Releasing /\ Recursion

LEMMA InitMutant == Init => MutantInv
<1> SUFFICES ASSUME Init PROVE MutantInv OBVIOUS
<1>1. TypeOK BY InitType
<1>2. \A m \in Mutants : m \notin Semaphores /\ m \in Counted
  BY HandleAssumption DEF Counted
<1>3. \A m \in Mutants : /\ owner[m] \in Threads \union {NoThread}
                         /\ count[m] = IF owner[m] = NoThread THEN 0 ELSE 1
  BY <1>2 DEF Init
<1>4. \A t \in Threads, m \in Mutants : held[t][m] = IF owner[m] = t THEN 1 ELSE 0
  BY DEF Init
<1>5. MutantExclusive /\ Counts
  BY <1>3, <1>4, ThreadAssumption DEF MutantExclusive, Counts
<1>6. Releasing BY DEF Init, Releasing
<1>7. Recursion BY <1>4, CountAssumption DEF Init, Recursion
<1> QED BY <1>1, <1>5, <1>6, <1>7 DEF MutantInv

\* A step that changes no mutant, and no thread's place in a mutant's
\* Release, preserves the invariant.
LEMMA MutantFrame ==
  ASSUME MutantInv, TypeOK', NEW t \in Threads,
         \A m \in Mutants : count'[m] = count[m],
         owner' = owner, held' = held,
         \A u \in Threads : pc'[u] \in {"mut_owner", "mut_count", "mut_dec"} =>
           pc[u] = pc'[u] /\ release'[u] = release[u],
         \A u \in Threads : u # t => wait'[u] = wait[u],
         wait'[t] # NoWait => RecursionLeft(t, wait'[t].handles)
  PROVE  MutantInv'
<1>1. MutantExclusive' /\ Counts'
  BY DEF MutantInv, MutantExclusive, Counts
<1>2. Releasing'
  BY DEF MutantInv, Releasing
<1>3. Recursion'
  BY DEF MutantInv, Recursion, RecursionLeft
<1> QED BY <1>1, <1>2, <1>3 DEF MutantInv

LEMMA MutantTake ==
  ASSUME MutantInv, TypeOK', NEW t \in Threads, NEW hs \in WaitLists,
         NEW all \in BOOLEAN, RecursionLeft(t, hs), Complete(t, hs, all),
         UNCHANGED release, pc[t] \in {"idle", "blocked", "notified", "wait"}
  PROVE  MutantInv'
<1> USE DEF MutantInv
<1>1. PICK taken \in [Handles -> Nat] :
        /\ Take(t, taken)
        /\ \A h \in Handles :
             /\ taken[h] <= Len(hs)
             /\ taken[h] > 0 => Signaled(t, h) /\ \E i \in DOMAIN hs : hs[i] = h
  BY TakenFacts
<1>2. \A m \in Mutants : /\ m \notin Semaphores /\ m \in Counted
                        /\ m \in Handles /\ m \notin Events
  BY HandleAssumption DEF Counted, Handles
<1>3. \A m \in Mutants : taken[m] \in Nat /\ held[t][m] + taken[m] <= MaxRecursion
  <2> TAKE m \in Mutants
  <2>1. CASE taken[m] = 0
    BY <1>2, <2>1 DEF Recursion, TypeOK
  <2>2. CASE taken[m] > 0
    <3>1. PICK i \in DOMAIN hs : hs[i] = m BY <1>1, <1>2, <2>2
    <3>2. held[t][m] + Len(hs) <= MaxRecursion BY <3>1 DEF RecursionLeft
    <3>3. taken[m] <= Len(hs) /\ taken[m] \in Nat BY <1>1, <1>2
    <3>4. held[t][m] \in Nat BY DEF TypeOK
    <3> QED BY <3>2, <3>3, <3>4, WaitListFacts, CountAssumption
  <2> QED BY <1>2, <2>1, <2>2
<1>4. \A u \in Threads, m \in Mutants :
        held'[u][m] = IF u = t THEN held[t][m] + taken[m] ELSE held[u][m]
  BY <1>1 DEF Take, TypeOK
<1>5. \A m \in Mutants : owner'[m] = IF taken[m] > 0 THEN t ELSE owner[m]
  BY <1>1 DEF Take
<1>6. \A m \in Mutants : taken[m] > 0 =>
        /\ \A u \in Threads : u # t => held[u][m] = 0
        /\ count[m] = held[t][m]
  <2> SUFFICES ASSUME NEW m \in Mutants, taken[m] > 0
               PROVE  /\ \A u \in Threads : u # t => held[u][m] = 0
                      /\ count[m] = held[t][m]
    OBVIOUS
  <2>1. count[m] = 0 \/ owner[m] = t BY <1>1, <1>2 DEF Signaled
  <2>2. count[m] \in Nat /\ \A u \in Threads : held[u][m] \in Nat
    BY <1>2 DEF TypeOK, Uint
  <2>3. CASE count[m] = 0 BY <2>2, <2>3 DEF MutantExclusive
  <2>4. CASE owner[m] = t
    BY <2>2, <2>4 DEF MutantExclusive, Counts
  <2> QED BY <2>1, <2>3, <2>4
<1>7. \A m \in Mutants : count'[m] = count[m] + taken[m]
  <2> TAKE m \in Mutants
  <2>1. count'[m] = Plus(count[m], taken[m]) BY <1>1, <1>2 DEF Take
  <2>2. count[m] \in Nat /\ held[t][m] \in Nat /\ count[m] < UintMod
    BY <1>2, CountAssumption DEF TypeOK, Uint
  <2>3. CASE taken[m] = 0 BY <2>1, <2>2, <2>3 DEF Plus
  <2>4. CASE taken[m] > 0
    <3>1. count[m] = held[t][m] /\ count[m] + taken[m] <= MaxRecursion
      BY <1>3, <1>6, <2>4
    <3> QED BY <1>3, <2>1, <2>2, <3>1, CountAssumption DEF Plus
  <2> QED BY <1>3, <2>3, <2>4
<1>8. MutantExclusive'
  <2> SUFFICES ASSUME NEW u \in Threads, NEW m \in Mutants, held'[u][m] > 0
               PROVE  owner'[m] = u /\ count'[m] = held'[u][m]
    BY DEF MutantExclusive
  <2>1. held[u][m] \in Nat /\ count[m] \in Nat /\ taken[m] \in Nat
    BY <1>2, <1>3 DEF TypeOK, Uint
  <2>2. CASE taken[m] = 0
    BY <1>4, <1>5, <1>7, <2>1, <2>2 DEF MutantExclusive
  <2>3. CASE taken[m] > 0
    BY <1>4, <1>5, <1>6, <1>7, <2>1, <2>3
  <2> QED BY <2>1, <2>2, <2>3
<1>9. Counts'
  <2> SUFFICES ASSUME NEW m \in Mutants, count'[m] > 0
               PROVE  owner'[m] \in Threads /\ held'[owner'[m]][m] = count'[m]
    BY DEF Counts
  <2>1. count[m] \in Nat /\ taken[m] \in Nat BY <1>2, <1>3 DEF TypeOK, Uint
  <2>2. CASE taken[m] = 0
    <3>1. owner[m] \in Threads /\ held[owner[m]][m] = count[m] /\ owner'[m] = owner[m]
      BY <1>5, <1>7, <2>1, <2>2 DEF Counts
    <3>2. held'[owner[m]][m] = held[owner[m]][m]
      <4>1. held[owner[m]][m] \in Nat BY <3>1 DEF TypeOK
      <4> QED BY <1>4, <2>2, <3>1, <4>1
    <3> QED BY <1>7, <2>1, <2>2, <3>1, <3>2
  <2>3. CASE taken[m] > 0
    BY <1>4, <1>5, <1>6, <1>7, <2>1, <2>3
  <2> QED BY <2>1, <2>2, <2>3
<1>10. Releasing'
  <2>1. \A u \in Threads : pc'[u] \in {"mut_owner", "mut_count", "mut_dec"} =>
          u # t /\ pc[u] = pc'[u] /\ release[u].target \in Mutants
    BY <1>1 DEF Take, NotifyAll, Goto, TypeOK
  <2>2. \A u \in Threads : u # t => \A m \in Mutants :
          held'[u][m] = held[u][m] /\ (owner'[m] = u => owner[m] = u)
    BY <1>4, <1>5
  <2> QED BY <2>1, <2>2 DEF Releasing
<1>11. Recursion'
  <2>1. \A u \in Threads, m \in Mutants : held'[u][m] <= MaxRecursion
    BY <1>3, <1>4 DEF Recursion
  <2>2. \A u \in Threads : wait'[u] # NoWait => u # t /\ wait'[u] = wait[u]
    BY <1>1 DEF Take, TypeOK
  <2>3. \A u \in Threads : wait'[u] # NoWait => RecursionLeft(u, wait[u].handles)'
    BY <1>4, <2>2 DEF Recursion, RecursionLeft
  <2> QED BY <2>1, <2>3 DEF Recursion
<1> QED BY <1>8, <1>9, <1>10, <1>11

LEMMA MutantEnter ==
  ASSUME MutantInv, TypeOK', NEW t \in Threads, NEW hs \in WaitLists,
         NEW all \in BOOLEAN, NEW timed \in BOOLEAN, RecursionLeft(t, hs),
         Enter(t, hs, all, timed), UNCHANGED release,
         pc[t] \in {"idle", "blocked", "notified", "wait"}
  PROVE  MutantInv'
<1>1. CASE Complete(t, hs, all) BY <1>1, MutantTake
<1>2. CASE /\ Goto(t, "blocked")
           /\ wait' = [wait EXCEPT ![t] = [handles |-> hs, all |-> all, timed |-> timed]]
           /\ UNCHANGED <<objects, held>>
  <2>1. \A u \in Threads : pc'[u] \in {"mut_owner", "mut_count", "mut_dec"} =>
          pc[u] = pc'[u] /\ release'[u] = release[u]
    BY <1>2 DEF Goto, MutantInv, TypeOK
  <2>2. wait'[t].handles = hs /\ \A u \in Threads : u # t => wait'[u] = wait[u]
    BY <1>2 DEF MutantInv, TypeOK
  <2> QED BY <1>2, <2>1, <2>2, MutantFrame DEF objects
<1> QED BY <1>1, <1>2 DEF Enter

LEMMA MutantWaitSteps ==
  ASSUME MutantInv, TypeOK', NEW t \in Threads, WaitSteps(t)
  PROVE  MutantInv'
<1> USE DEF MutantInv
<1>1. wait[t] \in Waits => /\ wait[t].handles \in WaitLists /\ wait[t].all \in BOOLEAN
                           /\ wait[t].timed \in BOOLEAN
                           /\ RecursionLeft(t, wait[t].handles)
  BY WaitListFacts DEF Waits, NoWait, Recursion
<1>2. CASE Wait(t) BY <1>2, MutantEnter DEF Wait
<1>3. CASE Recheck(t) BY <1>1, <1>3, MutantEnter DEF Recheck, TypeOK
<1>4. CASE SpuriousWakeup(t)
  BY <1>4, MutantFrame DEF SpuriousWakeup, Goto, TypeOK, objects, Recursion
<1>5. CASE Timeout(t)
  <2>1. CASE Complete(t, wait[t].handles, wait[t].all)
    BY <1>1, <1>5, <2>1, MutantTake DEF Timeout, TypeOK
  <2>2. CASE /\ Goto(t, "idle")
             /\ wait' = [wait EXCEPT ![t] = NoWait]
             /\ UNCHANGED <<objects, held, release>>
    BY <2>2, MutantFrame DEF Goto, TypeOK, objects
  <2> QED BY <1>5, <2>1, <2>2 DEF Timeout
<1>6. CASE WaitAfterSignal(t)
  BY <1>1, <1>6, MutantEnter DEF WaitAfterSignal, TypeOK
<1> QED BY <1>2, <1>3, <1>4, <1>5, <1>6 DEF WaitSteps

LEMMA TailFacts ==
  ASSUME NEW t \in Threads, NEW tail \in Tails(t), tail # NoWait
  PROVE  RecursionLeft(t, tail.handles)
BY DEF Tails

LEMMA MutantEventSteps ==
  ASSUME MutantInv, TypeOK', NEW t \in Threads, EventSteps(t)
  PROVE  MutantInv'
<1> USE DEF MutantInv
<1>1. ASSUME NEW e \in Events, SetEvent(t, e) PROVE MutantInv'
  BY <1>1, MutantFrame DEF SetEvent, NotifyAll, TypeOK, Recursion
<1>2. ASSUME NEW e \in Events, ResetEvent(t, e) PROVE MutantInv'
  BY <1>2, MutantFrame DEF ResetEvent, Recursion
<1>3. ASSUME NEW e \in Events, PulseSignal(t, e) PROVE MutantInv'
  BY <1>3, MutantFrame DEF PulseSignal, NotifyAll, TypeOK, Recursion
<1>4. ASSUME NEW e \in Events, SignalEventAndWait(t, e) PROVE MutantInv'
  <2>1. PICK tail \in Tails(t) \ {NoWait} :
          /\ NotifyAll(t, "wait") /\ wait' = [wait EXCEPT ![t] = tail]
          /\ UNCHANGED <<count, owner, release, held>>
    BY <1>4 DEF SignalEventAndWait
  <2>2. wait'[t] = tail BY <2>1 DEF TypeOK
  <2> QED BY <2>1, <2>2, TailFacts, MutantFrame DEF NotifyAll, TypeOK
<1>5. CASE PulseReset(t)
  BY <1>5, MutantFrame DEF PulseReset, Goto, TypeOK, Recursion
<1> QED BY <1>1, <1>2, <1>3, <1>4, <1>5 DEF EventSteps

LEMMA MutantReleaseSteps ==
  ASSUME StrayReleasers = {}, MutantInv, TypeOK', NEW t \in Threads, ReleaseSteps(t)
  PROVE  MutantInv'
<1> USE DEF MutantInv
<1>0. ASSUME GiveUpRelease(t) PROVE MutantInv'
  BY <1>0, MutantFrame DEF GiveUpRelease, Goto, TypeOK, objects
<1>1. ASSUME NEW s \in Semaphores, ReleaseSemaphore(t, s) PROVE MutantInv'
  <2>1. PICK tail \in Tails(t) :
          /\ Goto(t, "sem_check") /\ wait' = [wait EXCEPT ![t] = tail]
          /\ \A u \in Threads : u # t => release'[u] = release[u]
          /\ UNCHANGED <<objects, held>>
    BY <1>1 DEF ReleaseSemaphore, TypeOK
  <2>2. wait'[t] = tail BY <2>1 DEF TypeOK
  <2> QED BY <2>1, <2>2, TailFacts, MutantFrame DEF Goto, TypeOK, objects
<1>2. CASE SemaphoreCheck(t)
  <2>1. /\ UNCHANGED <<objects, held>>
        /\ Goto(t, "sem_add") \/ Goto(t, "idle")
        /\ wait' = wait \/ wait' = [wait EXCEPT ![t] = NoWait]
        /\ release' = release \/ release' = [release EXCEPT ![t] = NoRelease]
    BY <1>2 DEF SemaphoreCheck
  <2> QED BY <2>1, MutantFrame DEF Goto, TypeOK, objects, Recursion
<1>3. CASE SemaphoreAdd(t)
  <2>1. release[t].target \in Semaphores BY <1>3 DEF SemaphoreAdd, TypeOK
  <2>2. \A m \in Mutants : count'[m] = count[m]
    BY <1>3, <2>1, HandleAssumption DEF SemaphoreAdd, TypeOK, Counted
  <2>3. AfterSignal(t) \in {"idle", "wait"} BY DEF AfterSignal
  <2> QED BY <1>3, <2>2, <2>3, MutantFrame DEF SemaphoreAdd, NotifyAll, TypeOK, Recursion
<1>4. ASSUME NEW m \in Mutants, ReleaseMutant(t, m) PROVE MutantInv'
  <2>1. PICK tail \in Tails(t) :
          /\ Goto(t, "mut_owner") /\ wait' = [wait EXCEPT ![t] = tail]
          /\ release' = [release EXCEPT ![t] = [target |-> m, amount |-> 1]]
          /\ held[t][m] > 0 \/ owner[m] # t
          /\ UNCHANGED <<objects, held>>
    BY <1>4 DEF ReleaseMutant
  <2>2. wait'[t] = tail /\ \A u \in Threads : u # t => wait'[u] = wait[u]
    BY <2>1 DEF TypeOK
  <2>3. Releasing'
    BY <2>1 DEF Releasing, Goto, TypeOK, objects
  <2>4. Recursion'
    <3>1. \A u \in Threads : wait'[u] # NoWait => RecursionLeft(u, wait'[u].handles)
      BY <2>2, TailFacts DEF Recursion
    <3> QED BY <2>1, <3>1 DEF Recursion, RecursionLeft
  <2>5. MutantExclusive' /\ Counts'
    BY <2>1 DEF MutantExclusive, Counts, objects
  <2> QED BY <2>3, <2>4, <2>5
<1>5. CASE MutantOwnerCheck(t)
  <2>1. CASE /\ owner[release[t].target] = t /\ Goto(t, "mut_count")
             /\ UNCHANGED <<objects, wait, release, held>>
    <3>1. pc[t] = "mut_owner" BY <1>5 DEF MutantOwnerCheck
    <3>2. Releasing' BY <2>1, <3>1 DEF Releasing, Goto, TypeOK, objects
    <3> QED BY <2>1, <3>2 DEF MutantExclusive, Counts, Recursion, RecursionLeft, objects
  <2> QED BY <1>0, <1>5, <2>1 DEF MutantOwnerCheck
<1>6. CASE MutantCountCheck(t)
  <2>1. CASE /\ Goto(t, "mut_dec")
             /\ UNCHANGED <<objects, wait, release, held>>
    <3>1. pc[t] = "mut_count" BY <1>6 DEF MutantCountCheck
    <3>2. Releasing' BY <2>1, <3>1 DEF Releasing, Goto, TypeOK, objects
    <3> QED BY <2>1, <3>2 DEF MutantExclusive, Counts, Recursion, RecursionLeft, objects
  <2> QED BY <1>0, <1>6, <2>1 DEF MutantCountCheck
<1>7. CASE MutantDecrement(t)
  <2> DEFINE m == release[t].target
  <2>1. /\ m \in Mutants /\ m \in Counted /\ pc[t] = "mut_dec" /\ held[t][m] > 0
        /\ held[t][m] \in Nat
    BY <1>7 DEF MutantDecrement, TypeOK, Releasing, Counted
  <2>2. owner[m] = t /\ count[m] = held[t][m] /\
          \A u \in Threads : u # t => held[u][m] = 0
    BY <2>1 DEF MutantExclusive, TypeOK
  <2>3. count' = [count EXCEPT ![m] = count[m] - 1]
    <3>1. Minus(count[m], 1) = count[m] - 1 BY <2>1, <2>2 DEF Minus
    <3>2. count' = [count EXCEPT ![m] = Minus(count[m], 1)] BY <1>7 DEF MutantDecrement
    <3> QED BY <3>1, <3>2
  <2>4. held' = [held EXCEPT ![t] = [held[t] EXCEPT ![m] = IF @ > 0 THEN @ - 1 ELSE 0]]
    BY <1>7 DEF MutantDecrement
  <2>5. \A u \in Threads, x \in Mutants :
          held'[u][x] = IF u = t /\ x = m THEN held[t][m] - 1 ELSE held[u][x]
    BY <2>1, <2>4 DEF TypeOK
  <2>6. \A x \in Mutants : count'[x] = IF x = m THEN held[t][m] - 1 ELSE count[x]
    BY <2>1, <2>2, <2>3 DEF TypeOK, Counted
  <2>7. owner' = owner /\ wait' = wait /\
          \A u \in Threads : pc'[u] \in {"mut_owner", "mut_count", "mut_dec"} =>
            /\ u # t /\ pc'[u] = pc[u] /\ release'[u] = release[u]
            /\ release[u].target \in Mutants
    <3>1. AfterSignal(t) \in {"idle", "wait"} BY DEF AfterSignal
    <3>2. /\ owner' = owner /\ wait' = wait
          /\ release' = [release EXCEPT ![t] = NoRelease]
          /\ NotifyAll(t, AfterSignal(t)) \/ Goto(t, AfterSignal(t))
      BY <1>7 DEF MutantDecrement
    <3> QED BY <3>1, <3>2 DEF NotifyAll, Goto, TypeOK
  <2> HIDE DEF m
  <2>8. MutantExclusive' BY <2>1, <2>2, <2>5, <2>6, <2>7 DEF MutantExclusive
  <2>9. Counts' BY <2>1, <2>2, <2>5, <2>6, <2>7 DEF Counts
  <2>10. Releasing' BY <2>5, <2>7 DEF Releasing
  <2>11. Recursion'
    <3>1. \A u \in Threads, x \in Mutants : held'[u][x] \in Nat /\ held[u][x] \in Nat
                                            /\ held'[u][x] <= held[u][x]
      BY <2>1, <2>5 DEF TypeOK
    <3>2. \A u \in Threads, x \in Mutants : held'[u][x] <= MaxRecursion
      BY <3>1, CountAssumption DEF Recursion
    <3>3. ASSUME NEW u \in Threads, wait[u] # NoWait
          PROVE  RecursionLeft(u, wait[u].handles)'
      <4>1. RecursionLeft(u, wait[u].handles) BY <3>3 DEF Recursion
      <4>2. wait[u].handles \in WaitLists BY <3>3 DEF TypeOK, Waits
      <4> DEFINE hs == wait[u].handles
      <4>3. Len(hs) \in Nat BY <4>2, WaitListFacts
      <4>4. ASSUME NEW i \in DOMAIN hs, hs[i] \in Mutants
            PROVE  held'[u][hs[i]] + Len(hs) <= MaxRecursion
        <5>1. held[u][hs[i]] + Len(hs) <= MaxRecursion BY <4>1, <4>4 DEF RecursionLeft
        <5> QED BY <3>1, <4>3, <4>4, <5>1, CountAssumption
      <4>5. wait' = wait BY <2>7
      <4> QED BY <4>4, <4>5 DEF RecursionLeft
    <3> QED BY <2>7, <3>2, <3>3 DEF Recursion
  <2> QED BY <2>8, <2>9, <2>10, <2>11
<1> QED BY <1>1, <1>2, <1>3, <1>4, <1>5, <1>6, <1>7 DEF ReleaseSteps

LEMMA MutantStep ==
  ASSUME StrayReleasers = {}, MutantInv, [Next]_vars
  PROVE  MutantInv'
<1>1. TypeOK' BY TypeStep DEF MutantInv
<1>2. CASE UNCHANGED vars
  BY <1>1, <1>2 DEF MutantInv, MutantExclusive, Counts, Releasing, Recursion,
                    RecursionLeft, vars, objects
<1>3. ASSUME NEW t \in Threads, Exit(t) PROVE MutantInv'
  BY <1>1, <1>3, MutantFrame DEF Exit, Goto, MutantInv, TypeOK, objects, Recursion
<1> QED BY <1>1, <1>2, <1>3, MutantWaitSteps, MutantEventSteps, MutantReleaseSteps DEF Next

\* A mutant belongs to one thread at a time, for as many releases as it was
\* acquired, provided that no thread releases a mutant it has given up.
THEOREM MutantsAreExclusive ==
  ASSUME StrayReleasers = {}
  PROVE  Spec => []MutantExclusive
<1>1. MutantInv /\ [Next]_vars => MutantInv' BY MutantStep
<1>2. MutantInv => MutantExclusive BY DEF MutantInv
<1> QED BY InitMutant, <1>1, <1>2, PTL DEF Spec

\* Under the same condition Release of a mutant takes effect only for a
\* thread that owns it, although it asked before it took the mutex.
THEOREM OwnersRelease ==
  ASSUME StrayReleasers = {}
  PROVE  Spec => OnlyOwnerReleases
<1>1. MutantInv /\ [Next]_vars => MutantInv' BY MutantStep
<1>2. MutantInv /\ [Next]_vars =>
        [\A t \in Threads : pc[t] = "mut_dec" /\ pc'[t] # "mut_dec" =>
            held[t][release[t].target] > 0]_vars
  BY DEF MutantInv, Releasing
<1> QED BY InitMutant, <1>1, <1>2, PTL DEF Spec, OnlyOwnerReleases

-----------------------------------------------------------------------------
(* Wakeups.                                                                *)
(*                                                                         *)
(* A step either notifies, and then no thread is blocked, or it makes no   *)
(* object available to anybody else.  The second half needs MutantInv: a   *)
(* decrement that does not notify leaves the mutant with its owner, and an *)
(* acquisition does not bring a count back to 0.                           *)

WakeupInv == MutantInv /\ NoLostWakeup

LEMMA InitWakeup == Init => WakeupInv
BY InitMutant DEF Init, WakeupInv, NoLostWakeup

LEMMA Notified ==
  ASSUME NEW t \in Threads, NEW next, next # "blocked", NotifyAll(t, next)
  PROVE  NoLostWakeup'
BY DEF NotifyAll, NoLostWakeup

\* A step of thread t that does not notify, does not change what the others
\* wait for, and makes nothing available to them.
LEMMA NothingForOthers ==
  ASSUME NoLostWakeup, NEW t \in Threads,
         \A u \in Threads : u # t /\ pc'[u] = "blocked" =>
            pc[u] = "blocked" /\ wait'[u] = wait[u] /\ wait[u] \in Waits,
         \A u \in Threads, h \in Handles :
            u # t /\ Signaled(u, h)' => Signaled(u, h),
         pc'[t] = "blocked" => ~Ready(t)'
  PROVE  NoLostWakeup'
<1> SUFFICES ASSUME NEW u \in Threads, u # t, pc'[u] = "blocked", Ready(u)'
             PROVE  FALSE
  BY DEF NoLostWakeup
<1>1. ~Ready(u) /\ wait'[u] = wait[u] BY DEF NoLostWakeup
<1>2. wait[u].handles \in WaitLists BY DEF Waits
<1>3. \A i \in DOMAIN wait[u].handles :
        Signaled(u, wait[u].handles[i])' => Signaled(u, wait[u].handles[i])
  BY <1>1, <1>2, WaitListFacts
<1> QED BY <1>1, <1>3 DEF Ready, Predicate

\* A thread that starts a critical section of a wait and finds nothing.
LEMMA WakeupEnter ==
  ASSUME WakeupInv, MutantInv', NEW t \in Threads, NEW hs \in WaitLists,
         NEW all \in BOOLEAN, NEW timed \in BOOLEAN,
         ~Predicate(t, hs, all), Goto(t, "blocked"),
         wait' = [wait EXCEPT ![t] = [handles |-> hs, all |-> all, timed |-> timed]],
         UNCHANGED objects
  PROVE  NoLostWakeup'
<1>1. \A u \in Threads, h \in Handles : Signaled(u, h)' = Signaled(u, h)
  BY DEF Signaled, objects
<1>2. wait'[t] = [handles |-> hs, all |-> all, timed |-> timed]
  BY DEF WakeupInv, MutantInv, TypeOK
<1>3. ~Predicate(t, hs, all)'
  BY <1>1, WaitListFacts DEF Predicate
<1>4. ~Ready(t)' BY <1>2, <1>3 DEF Ready
<1>5. \A u \in Threads : u # t /\ pc'[u] = "blocked" =>
        pc[u] = "blocked" /\ wait'[u] = wait[u] /\ wait[u] \in Waits
  BY DEF Goto, WakeupInv, MutantInv, TypeOK
<1> QED BY <1>1, <1>4, <1>5, NothingForOthers DEF WakeupInv

LEMMA WakeupTake ==
  ASSUME WakeupInv, MutantInv', NEW t \in Threads, NEW hs \in WaitLists,
         NEW all \in BOOLEAN, RecursionLeft(t, hs), Complete(t, hs, all)
  PROVE  NoLostWakeup'
<1>1. PICK taken \in [Handles -> Nat] :
        /\ Take(t, taken)
        /\ \A h \in Handles :
             /\ taken[h] <= Len(hs)
             /\ taken[h] > 0 => Signaled(t, h) /\ \E i \in DOMAIN hs : hs[i] = h
        /\ \A s \in Semaphores : taken[s] <= count[s]
  BY TakenFacts DEF WakeupInv, MutantInv
<1>2. CASE \E s \in Semaphores : taken[s] > 0
  BY <1>1, <1>2, Notified DEF Take
<1>3. CASE ~\E s \in Semaphores : taken[s] > 0
  <2>1. /\ Goto(t, "idle") /\ wait' = [wait EXCEPT ![t] = NoWait]
    BY <1>1, <1>3 DEF Take
  <2>2. ASSUME NEW u \in Threads, u # t, NEW h \in Handles, Signaled(u, h)'
        PROVE  Signaled(u, h)
    <3>1. CASE h \in Events
      BY <1>1, <2>2, <3>1 DEF Take, Signaled
    <3>2. CASE h \in Semaphores
      <4>1. h \notin Events /\ h \in Counted BY <3>2, HandleAssumption DEF Counted
      <4>2. taken[h] = 0 /\ count[h] \in Nat
        BY <1>3, <3>2, <4>1 DEF Handles, WakeupInv, MutantInv, TypeOK, Uint
      <4>3. count'[h] = count[h] BY <1>1, <3>2, <4>1, <4>2 DEF Take
      <4> QED BY <2>2, <3>2, <4>1, <4>3 DEF Signaled
    <3>3. CASE h \in Mutants
      <4>1. h \notin Events /\ h \notin Semaphores /\ h \in Counted
        BY <3>3, HandleAssumption DEF Counted
      <4>2. taken[h] \in Nat /\ count[h] \in Uint /\ count'[h] = Plus(count[h], taken[h])
            /\ owner'[h] = IF taken[h] > 0 THEN t ELSE owner[h]
        BY <1>1, <3>3, <4>1 DEF Take, WakeupInv, MutantInv, TypeOK
      <4>3. CASE taken[h] = 0
        <5>1. count'[h] = count[h]
          BY <4>2, <4>3, CountAssumption DEF Plus, Uint
        <5> QED BY <2>2, <4>1, <4>2, <4>3, <5>1 DEF Signaled
      <4>4. CASE taken[h] > 0
        <5>1. held'[t][h] = held[t][h] + taken[h] /\ held[t][h] \in Nat
          BY <1>1, <3>3 DEF Take, WakeupInv, MutantInv, TypeOK
        <5>2. held'[t][h] > 0 BY <4>2, <4>4, <5>1
        <5>3. count'[h] > 0 /\ owner'[h] = t
          BY <3>3, <5>2 DEF MutantInv, MutantExclusive
        <5> QED BY <2>2, <4>1, <5>3 DEF Signaled
      <4> QED BY <4>2, <4>3, <4>4
    <3> QED BY <3>1, <3>2, <3>3 DEF Handles
  <2>3. pc'[t] # "blocked" /\ \A u \in Threads : u # t /\ pc'[u] = "blocked" =>
          pc[u] = "blocked" /\ wait'[u] = wait[u] /\ wait[u] \in Waits
    BY <2>1 DEF Goto, WakeupInv, MutantInv, TypeOK
  <2> QED BY <2>2, <2>3, NothingForOthers DEF WakeupInv
<1> QED BY <1>2, <1>3

\* A step that changes no object and blocks nobody.
LEMMA WakeupFrame ==
  ASSUME WakeupInv, UNCHANGED objects, NEW t \in Threads, NEW next,
         next # "blocked", Goto(t, next),
         \A u \in Threads : u # t => wait'[u] = wait[u]
  PROVE  NoLostWakeup'
<1>1. \A u \in Threads, h \in Handles : Signaled(u, h)' = Signaled(u, h)
  BY DEF Signaled, objects
<1>2. pc'[t] # "blocked" /\ \A u \in Threads : u # t /\ pc'[u] = "blocked" =>
        pc[u] = "blocked" /\ wait'[u] = wait[u] /\ wait[u] \in Waits
  BY DEF Goto, WakeupInv, MutantInv, TypeOK
<1> QED BY <1>1, <1>2, NothingForOthers DEF WakeupInv

\* A step that clears an event.
LEMMA WakeupClear ==
  ASSUME WakeupInv, NEW t \in Threads, pc[t] # "blocked", NEW e \in Events,
         signal' = [signal EXCEPT ![e] = FALSE], UNCHANGED <<count, owner, wait>>,
         pc' = pc \/ Goto(t, "idle")
  PROVE  NoLostWakeup'
<1>1. \A u \in Threads, h \in Handles : Signaled(u, h)' => Signaled(u, h)
  BY DEF Signaled, WakeupInv, MutantInv, TypeOK
<1>2. pc'[t] # "blocked" /\ \A u \in Threads : u # t /\ pc'[u] = "blocked" =>
        pc[u] = "blocked" /\ wait'[u] = wait[u] /\ wait[u] \in Waits
  BY DEF Goto, WakeupInv, MutantInv, TypeOK
<1> QED BY <1>1, <1>2, NothingForOthers DEF WakeupInv

LEMMA WakeupWaitSteps ==
  ASSUME WakeupInv, MutantInv', NEW t \in Threads, WaitSteps(t)
  PROVE  NoLostWakeup'
<1>0. ASSUME NEW hs \in WaitLists, NEW all \in BOOLEAN, NEW timed \in BOOLEAN,
             RecursionLeft(t, hs), Enter(t, hs, all, timed)
      PROVE  NoLostWakeup'
  BY <1>0, WakeupTake, WakeupEnter DEF Enter
<1>1. wait[t] \in Waits => /\ wait[t].handles \in WaitLists /\ wait[t].all \in BOOLEAN
                           /\ wait[t].timed \in BOOLEAN
                           /\ RecursionLeft(t, wait[t].handles)
  BY WaitListFacts DEF Waits, NoWait, WakeupInv, MutantInv, Recursion
<1>2. pc[t] \in {"blocked", "notified", "wait"} => wait[t] \in Waits
  BY DEF WakeupInv, MutantInv, TypeOK
<1>3. CASE Wait(t) BY <1>0, <1>3 DEF Wait
<1>4. CASE Recheck(t) BY <1>0, <1>1, <1>2, <1>4 DEF Recheck
<1>5. CASE SpuriousWakeup(t)
  BY <1>5, WakeupFrame DEF SpuriousWakeup
<1>6. CASE Timeout(t)
  <2>1. CASE Complete(t, wait[t].handles, wait[t].all)
    BY <1>1, <1>2, <1>6, <2>1, WakeupTake DEF Timeout
  <2>2. CASE Goto(t, "idle") /\ wait' = [wait EXCEPT ![t] = NoWait] /\ UNCHANGED objects
    <3>1. \A u \in Threads : u # t => wait'[u] = wait[u]
      BY <2>2 DEF WakeupInv, MutantInv, TypeOK
    <3> QED BY <2>2, <3>1, WakeupFrame
  <2> QED BY <1>6, <2>1, <2>2 DEF Timeout
<1>7. CASE WaitAfterSignal(t) BY <1>0, <1>1, <1>2, <1>7 DEF WaitAfterSignal
<1> QED BY <1>3, <1>4, <1>5, <1>6, <1>7 DEF WaitSteps

LEMMA WakeupEventSteps ==
  ASSUME WakeupInv, NEW t \in Threads, EventSteps(t)
  PROVE  NoLostWakeup'
<1>1. ASSUME NEW e \in Events, SetEvent(t, e) PROVE NoLostWakeup'
  BY <1>1, Notified DEF SetEvent
<1>2. ASSUME NEW e \in Events, ResetEvent(t, e) PROVE NoLostWakeup'
  BY <1>2, WakeupClear DEF ResetEvent
<1>3. ASSUME NEW e \in Events, PulseSignal(t, e) PROVE NoLostWakeup'
  BY <1>3, Notified DEF PulseSignal
<1>4. ASSUME NEW e \in Events, SignalEventAndWait(t, e) PROVE NoLostWakeup'
  BY <1>4, Notified DEF SignalEventAndWait
<1>5. CASE PulseReset(t)
  <2>1. release[t].target \in Events BY <1>5 DEF PulseReset, WakeupInv, MutantInv, TypeOK
  <2> QED BY <1>5, <2>1, WakeupClear DEF PulseReset
<1> QED BY <1>1, <1>2, <1>3, <1>4, <1>5 DEF EventSteps

LEMMA WakeupReleaseSteps ==
  ASSUME WakeupInv, MutantInv', NEW t \in Threads, ReleaseSteps(t)
  PROVE  NoLostWakeup'
<1> USE DEF WakeupInv, MutantInv
<1>0. AfterSignal(t) # "blocked" BY DEF AfterSignal
<1>1. ASSUME NEW next, next # "blocked", Goto(t, next), UNCHANGED objects,
             NEW w, wait' = wait \/ wait' = [wait EXCEPT ![t] = w]
      PROVE  NoLostWakeup'
  <2>1. \A u \in Threads : u # t => wait'[u] = wait[u] BY <1>1 DEF TypeOK
  <2> QED BY <1>1, <2>1, WakeupFrame
<1>2. ASSUME NEW s \in Semaphores, ReleaseSemaphore(t, s) PROVE NoLostWakeup'
  <2>1. PICK tail \in Tails(t) : /\ Goto(t, "sem_check") /\ UNCHANGED objects
                                 /\ wait' = [wait EXCEPT ![t] = tail]
    BY <1>2 DEF ReleaseSemaphore
  <2> QED BY <1>1, <2>1
<1>3. CASE SemaphoreCheck(t)
  <2>1. /\ Goto(t, "sem_add") \/ Goto(t, "idle")
        /\ wait' = wait \/ wait' = [wait EXCEPT ![t] = NoWait]
        /\ UNCHANGED objects
    BY <1>3 DEF SemaphoreCheck
  <2> QED BY <1>1, <2>1
<1>4. CASE SemaphoreAdd(t) BY <1>0, <1>4, Notified DEF SemaphoreAdd
<1>5. ASSUME NEW m \in Mutants, ReleaseMutant(t, m) PROVE NoLostWakeup'
  <2>1. PICK tail \in Tails(t) : /\ Goto(t, "mut_owner") /\ UNCHANGED objects
                                 /\ wait' = [wait EXCEPT ![t] = tail]
    BY <1>5 DEF ReleaseMutant
  <2> QED BY <1>1, <2>1
<1>6. CASE GiveUpRelease(t)
  BY <1>1, <1>6 DEF GiveUpRelease
<1>7. CASE MutantOwnerCheck(t) BY <1>1, <1>6, <1>7 DEF MutantOwnerCheck
<1>8. CASE MutantCountCheck(t) BY <1>1, <1>6, <1>8 DEF MutantCountCheck
<1>9. CASE MutantDecrement(t)
  <2> DEFINE m == release[t].target
  <2>1. CASE count[m] = 1
    <3>1. NotifyAll(t, AfterSignal(t)) BY <1>9, <2>1 DEF MutantDecrement
    <3> QED BY <1>0, <3>1, Notified
  <2>2. CASE count[m] # 1
    <3>1. m \in Mutants /\ m \in Counted /\ held[t][m] > 0 /\ held[t][m] \in Nat
          /\ m \notin Events /\ m \notin Semaphores
      BY <1>9, HandleAssumption DEF MutantDecrement, TypeOK, Releasing, Counted
    <3>2. owner[m] = t /\ count[m] \in Nat /\ count[m] > 1
      BY <2>2, <3>1 DEF MutantExclusive
    <3>3. Minus(count[m], 1) = count[m] - 1 BY <3>2 DEF Minus
    <3>4. /\ count' = [count EXCEPT ![m] = Minus(count[m], 1)]
          /\ Goto(t, AfterSignal(t)) /\ UNCHANGED <<signal, owner, wait>>
      BY <1>9, <2>2 DEF MutantDecrement
    <3>5. count'[m] > 0 /\ \A h \in Counted : h # m => count'[h] = count[h]
      BY <3>1, <3>2, <3>3, <3>4 DEF TypeOK
    <3> HIDE DEF m
    <3>6. ASSUME NEW u \in Threads, u # t, NEW h \in Handles, Signaled(u, h)'
          PROVE  Signaled(u, h)
      <4>1. CASE h \in Events BY <3>4, <3>6, <4>1 DEF Signaled
      <4>2. CASE h = m BY <3>1, <3>2, <3>4, <3>5, <3>6, <4>2 DEF Signaled
      <4>3. CASE h \in Counted /\ h # m
        BY <3>4, <3>5, <3>6, <4>3 DEF Signaled, Counted
      <4> QED BY <4>1, <4>2, <4>3 DEF Handles, Counted
    <3>7. pc'[t] # "blocked" /\ \A u \in Threads : u # t /\ pc'[u] = "blocked" =>
            pc[u] = "blocked" /\ wait'[u] = wait[u] /\ wait[u] \in Waits
      BY <1>0, <3>4 DEF Goto, TypeOK
    <3> QED BY <3>6, <3>7, NothingForOthers
  <2> QED BY <2>1, <2>2
<1> QED BY <1>2, <1>3, <1>4, <1>5, <1>7, <1>8, <1>9 DEF ReleaseSteps

LEMMA WakeupStep ==
  ASSUME StrayReleasers = {}, WakeupInv, [Next]_vars
  PROVE  WakeupInv'
<1>1. MutantInv' BY MutantStep DEF WakeupInv
<1>2. CASE UNCHANGED vars
  BY <1>1, <1>2 DEF WakeupInv, NoLostWakeup, Ready, Predicate, Signaled, vars, objects
<1>3. ASSUME NEW t \in Threads, Exit(t) PROVE NoLostWakeup'
  BY <1>3, WakeupFrame DEF Exit
<1> QED BY <1>1, <1>2, <1>3, WakeupWaitSteps, WakeupEventSteps, WakeupReleaseSteps
        DEF Next, WakeupInv

\* No wakeup is ever lost, provided that no thread releases a mutant it has
\* given up.
THEOREM NoWakeupIsLost ==
  ASSUME StrayReleasers = {}
  PROVE  Spec => []NoLostWakeup
<1>1. WakeupInv /\ [Next]_vars => WakeupInv' BY WakeupStep
<1>2. WakeupInv => NoLostWakeup BY DEF WakeupInv
<1> QED BY InitWakeup, <1>1, <1>2, PTL DEF Spec

-----------------------------------------------------------------------------
(* Semaphores.                                                             *)
(*                                                                         *)
(* Release looks for room before it takes the mutex.  As long as no other  *)
(* release of the semaphore is between its look and its addition at the    *)
(* same time, the room it saw is still there when it adds, because every   *)
(* other step only takes from the count (Room).                            *)

Room ==
  \A t \in Threads :
    pc[t] = "sem_add" =>
      count[release[t].target] + release[t].amount <= MaximumCount[release[t].target]

SemaphoreInv == TypeOK /\ SemaphoreBound /\ Room

LEMMA InitSemaphore == Init => SemaphoreInv
<1> SUFFICES ASSUME Init PROVE SemaphoreInv OBVIOUS
<1>1. SemaphoreBound BY CountAssumption DEF Init, SemaphoreBound, Counted
<1>2. Room BY DEF Init, Room
<1> QED BY <1>1, <1>2, InitType DEF SemaphoreInv

\* A step that adds to no semaphore and passes no thread's check.
LEMMA SemaphoreFrame ==
  ASSUME SemaphoreInv, TypeOK', \A s \in Semaphores : count'[s] <= count[s],
         \A u \in Threads : pc'[u] = "sem_add" =>
           pc'[u] = pc[u] /\ release'[u] = release[u]
  PROVE  SemaphoreInv'
<1>1. \A s \in Semaphores : /\ count[s] \in Nat /\ count'[s] \in Nat
                            /\ MaximumCount[s] \in Nat
  BY CountAssumption DEF SemaphoreInv, TypeOK, Counted, Uint
<1>2. SemaphoreBound'
  BY <1>1 DEF SemaphoreInv, SemaphoreBound
<1>3. Room'
  <2> SUFFICES ASSUME NEW u \in Threads, pc'[u] = "sem_add"
               PROVE  count'[release'[u].target] + release'[u].amount
                        <= MaximumCount[release'[u].target]
    BY DEF Room
  <2>1. /\ release[u].target \in Semaphores /\ release[u].amount \in Nat
        /\ release'[u] = release[u] /\ pc[u] = "sem_add"
    BY DEF SemaphoreInv, TypeOK
  <2>2. count[release[u].target] + release[u].amount <= MaximumCount[release[u].target]
    BY <2>1 DEF SemaphoreInv, Room
  <2> QED BY <1>1, <2>1, <2>2
<1> QED BY <1>2, <1>3 DEF SemaphoreInv

LEMMA SemaphoreTake ==
  ASSUME SemaphoreInv, TypeOK', NEW t \in Threads, NEW hs \in WaitLists,
         NEW all \in BOOLEAN, Complete(t, hs, all), UNCHANGED release
  PROVE  SemaphoreInv'
<1>1. PICK taken \in [Handles -> Nat] :
        Take(t, taken) /\ \A s \in Semaphores : taken[s] <= count[s]
  BY TakenFacts DEF SemaphoreInv
<1>2. \A s \in Semaphores : count'[s] = count[s] - taken[s] /\ taken[s] \in Nat
                            /\ count[s] \in Nat
  BY <1>1 DEF Take, Counted, Handles, SemaphoreInv, TypeOK, Uint
<1>3. \A u \in Threads : pc'[u] = "sem_add" => pc'[u] = pc[u]
  BY <1>1 DEF Take, NotifyAll, Goto, SemaphoreInv, TypeOK
<1> QED BY <1>2, <1>3, SemaphoreFrame

LEMMA SemaphoreWaitSteps ==
  ASSUME SemaphoreInv, TypeOK', NEW t \in Threads, WaitSteps(t)
  PROVE  SemaphoreInv'
<1> USE DEF SemaphoreInv
<1>0. \A s \in Semaphores : count[s] \in Nat BY DEF TypeOK, Counted, Uint
<1>1. ASSUME NEW next \in {"blocked", "notified", "idle"}, Goto(t, next),
             UNCHANGED <<objects, release>>
      PROVE  SemaphoreInv'
  BY <1>0, <1>1, SemaphoreFrame DEF Goto, TypeOK, objects
<1>2. ASSUME NEW hs \in WaitLists, NEW all \in BOOLEAN, NEW timed \in BOOLEAN,
             Enter(t, hs, all, timed), UNCHANGED release
      PROVE  SemaphoreInv'
  BY <1>1, <1>2, SemaphoreTake DEF Enter
<1>3. pc[t] \in {"blocked", "notified", "wait"} =>
        /\ wait[t].handles \in WaitLists /\ wait[t].all \in BOOLEAN
        /\ wait[t].timed \in BOOLEAN
  BY DEF TypeOK, Waits
<1>4. CASE Wait(t) BY <1>2, <1>4 DEF Wait
<1>5. CASE Recheck(t) BY <1>2, <1>3, <1>5 DEF Recheck
<1>6. CASE SpuriousWakeup(t) BY <1>1, <1>6 DEF SpuriousWakeup
<1>7. CASE Timeout(t) BY <1>1, <1>3, <1>7, SemaphoreTake DEF Timeout
<1>8. CASE WaitAfterSignal(t) BY <1>2, <1>3, <1>8 DEF WaitAfterSignal
<1> QED BY <1>4, <1>5, <1>6, <1>7, <1>8 DEF WaitSteps

LEMMA SemaphoreEventSteps ==
  ASSUME SemaphoreInv, TypeOK', NEW t \in Threads, EventSteps(t)
  PROVE  SemaphoreInv'
<1>1. \A s \in Semaphores : count[s] \in Nat BY DEF SemaphoreInv, TypeOK, Counted, Uint
<1>2. count' = count /\ \A u \in Threads : pc'[u] = "sem_add" =>
        pc'[u] = pc[u] /\ release'[u] = release[u]
  BY DEF EventSteps, SetEvent, ResetEvent, PulseSignal, SignalEventAndWait, PulseReset,
         NotifyAll, Goto, SemaphoreInv, TypeOK
<1> QED BY <1>1, <1>2, SemaphoreFrame

LEMMA SemaphoreReleaseSteps ==
  ASSUME ~Raced, SemaphoreInv, TypeOK', NEW t \in Threads, ReleaseSteps(t)
  PROVE  SemaphoreInv'
<1> USE DEF SemaphoreInv
<1>0. \A s \in Semaphores : count[s] \in Nat /\ MaximumCount[s] \in Nat
                            /\ MaximumCount[s] < UintMod
  BY CountAssumption DEF TypeOK, Counted, Uint
<1>1. ASSUME NEW next \in {"idle", "sem_check", "mut_owner", "mut_count", "mut_dec"}, Goto(t, next),
             UNCHANGED objects, \A u \in Threads : u # t => release'[u] = release[u]
      PROVE  SemaphoreInv'
  BY <1>0, <1>1, SemaphoreFrame DEF Goto, TypeOK, objects
<1>2. ASSUME NEW s \in Semaphores, ReleaseSemaphore(t, s) PROVE SemaphoreInv'
  BY <1>1, <1>2 DEF ReleaseSemaphore, TypeOK
<1>3. CASE SemaphoreCheck(t)
  <2> DEFINE s == release[t].target
  <2>1. s \in Semaphores /\ release[t].amount \in Nat
    BY <1>3 DEF SemaphoreCheck, TypeOK
  <2>2. Minus(MaximumCount[s], count[s]) = MaximumCount[s] - count[s]
    BY <1>0, <2>1 DEF Minus, SemaphoreBound
  <2>3. CASE Minus(MaximumCount[s], count[s]) >= release[t].amount
    <3>1. Goto(t, "sem_add") /\ UNCHANGED <<wait, release, objects>>
      BY <1>3, <2>3 DEF SemaphoreCheck
    <3>2. count[s] + release[t].amount <= MaximumCount[s]
      BY <1>0, <2>1, <2>2, <2>3
    <3>3. Room' BY <2>1, <3>1, <3>2 DEF Room, Goto, TypeOK, objects
    <3>4. SemaphoreBound' BY <3>1 DEF SemaphoreBound, objects
    <3> QED BY <3>3, <3>4
  <2>4. CASE ~(Minus(MaximumCount[s], count[s]) >= release[t].amount)
    <3>1. Goto(t, "idle") /\ UNCHANGED objects /\ release' = [release EXCEPT ![t] = NoRelease]
      BY <1>3, <2>4 DEF SemaphoreCheck
    <3> QED BY <1>1, <3>1 DEF TypeOK
  <2> QED BY <2>3, <2>4
<1>4. CASE SemaphoreAdd(t)
  <2> DEFINE s == release[t].target
  <2>1. s \in Semaphores /\ release[t].amount \in Nat
        /\ count[s] + release[t].amount <= MaximumCount[s]
    BY <1>4 DEF SemaphoreAdd, TypeOK, Room
  <2>2. count' = [count EXCEPT ![s] = count[s] + release[t].amount]
    <3>1. count' = [count EXCEPT ![s] = Plus(count[s], release[t].amount)]
      BY <1>4 DEF SemaphoreAdd
    <3>2. Plus(count[s], release[t].amount) = count[s] + release[t].amount
      BY <1>0, <2>1, CountAssumption DEF Plus
    <3> QED BY <3>1, <3>2
  <2>3. \A x \in Semaphores : count'[x] <= MaximumCount[x]
    BY <2>1, <2>2 DEF SemaphoreBound, TypeOK, Counted
  <2>4. NotifyAll(t, AfterSignal(t)) /\ AfterSignal(t) \in {"idle", "wait"}
        /\ \A u \in Threads : u # t => release'[u] = release[u]
    BY <1>4 DEF SemaphoreAdd, AfterSignal, TypeOK
  <2>5. ASSUME NEW u \in Threads, pc'[u] = "sem_add"
        PROVE  /\ u # t /\ pc[u] = "sem_add" /\ release'[u] = release[u]
               /\ release[u].target \in Semaphores /\ release[u].target # s
    <3>1. u # t /\ pc[u] = "sem_add" BY <2>4, <2>5 DEF NotifyAll, TypeOK
    <3>2. pc[t] = "sem_add" BY <1>4 DEF SemaphoreAdd
    <3> QED BY <2>4, <3>1, <3>2 DEF Raced, TypeOK
  <2>6. Room'
    <3> SUFFICES ASSUME NEW u \in Threads, pc'[u] = "sem_add"
                 PROVE  count'[release'[u].target] + release'[u].amount
                          <= MaximumCount[release'[u].target]
      BY DEF Room
    <3>1. count'[release[u].target] = count[release[u].target]
      BY <2>1, <2>2, <2>5 DEF TypeOK, Counted
    <3> QED BY <2>5, <3>1 DEF Room
  <2> QED BY <2>3, <2>6 DEF SemaphoreBound
<1>5. ASSUME NEW m \in Mutants, ReleaseMutant(t, m) PROVE SemaphoreInv'
  BY <1>1, <1>5 DEF ReleaseMutant, TypeOK
<1>6. CASE GiveUpRelease(t) BY <1>1, <1>6 DEF GiveUpRelease, TypeOK
<1>7. CASE MutantOwnerCheck(t) BY <1>1, <1>6, <1>7 DEF MutantOwnerCheck
<1>8. CASE MutantCountCheck(t) BY <1>1, <1>6, <1>8 DEF MutantCountCheck
<1>9. CASE MutantDecrement(t)
  <2> DEFINE m == release[t].target
  <2>1. m \in Mutants BY <1>9 DEF MutantDecrement, TypeOK
  <2>2. count' = [count EXCEPT ![m] = Minus(count[m], 1)]
    BY <1>9 DEF MutantDecrement
  <2>3. \A s \in Semaphores : count'[s] = count[s]
    BY <2>1, <2>2, HandleAssumption DEF TypeOK, Counted
  <2>4. /\ NotifyAll(t, AfterSignal(t)) \/ Goto(t, AfterSignal(t))
        /\ AfterSignal(t) \in {"idle", "wait"}
        /\ \A u \in Threads : u # t => release'[u] = release[u]
    BY <1>9 DEF MutantDecrement, AfterSignal, TypeOK
  <2>5. \A u \in Threads : pc'[u] = "sem_add" =>
          pc'[u] = pc[u] /\ release'[u] = release[u]
    BY <2>4 DEF NotifyAll, Goto, TypeOK
  <2> QED BY <1>0, <2>3, <2>5, SemaphoreFrame
<1> QED BY <1>2, <1>3, <1>4, <1>5, <1>7, <1>8, <1>9 DEF ReleaseSteps

LEMMA SemaphoreStep ==
  ASSUME ~Raced, SemaphoreInv, [Next]_vars
  PROVE  SemaphoreInv'
<1>1. TypeOK' BY TypeStep DEF SemaphoreInv
<1>2. CASE UNCHANGED vars
  BY <1>1, <1>2 DEF SemaphoreInv, SemaphoreBound, Room, vars, objects
<1>3. ASSUME NEW t \in Threads, Exit(t) PROVE SemaphoreInv'
  <2>1. \A s \in Semaphores : count[s] \in Nat
    BY DEF SemaphoreInv, TypeOK, Counted, Uint
  <2> QED BY <1>1, <1>3, <2>1, SemaphoreFrame
          DEF Exit, Goto, SemaphoreInv, TypeOK, objects
<1> QED BY <1>1, <1>2, <1>3, SemaphoreWaitSteps, SemaphoreEventSteps,
           SemaphoreReleaseSteps DEF Next

\* A semaphore exceeds its maximum only after two releases of one semaphore
\* have passed the unlocked look for room at the same time, however many
\* threads release, wait and time out.
THEOREM SemaphoresAreBounded == Spec => OverrunNeedsARace
<1>1. ~Raced /\ SemaphoreInv /\ [Next]_vars => SemaphoreInv' BY SemaphoreStep
<1>2. SemaphoreInv => SemaphoreBound BY DEF SemaphoreInv
<1> QED BY InitSemaphore, <1>1, <1>2, PTL DEF Spec, OverrunNeedsARace

-----------------------------------------------------------------------------
(* The objects are atomic.                                                 *)
(*                                                                         *)
(* What a thread has still to do is in wait and release, in the model as   *)
(* in DispatcherObjects, and is nothing when it is in no call (Fitting).   *)
(* A wait takes all it takes in one step; what a Release decided without   *)
(* the mutex is still true when it has it (MutantInv, Room).               *)

Fitting ==
  \A t \in Threads :
    /\ pc[t] \in {"idle", "exited", "pulse"} => wait[t] = NoWait
    /\ pc[t] \in {"idle", "exited", "blocked", "notified", "wait"} =>
         release[t] = NoRelease

ObjectsInv == MutantInv /\ SemaphoreInv /\ Fitting

\* owner_, or nobody if the count is 0.
Owners == [m \in Mutants |-> IF count[m] = 0 THEN NoThread ELSE owner[m]]

\* What the two modules name alike is alike.
LEMMA Alike ==
  /\ Objects!NoWait = NoWait /\ Objects!NoRelease = NoRelease /\ Objects!Waits = Waits
  /\ Objects!Events = Events /\ Objects!Counted = Counted /\ Objects!Handles = Handles
BY DEF Objects!NoWait, NoWait, Objects!NoRelease, NoRelease, Objects!Waits, Waits,
       Objects!Events, Events, Objects!Counted, Counted, Objects!Handles, Handles

\* A thread that goes to next and leaves w and r in its local variables, which
\* fit there.
LEMMA FittingMove ==
  ASSUME TypeOK, Fitting, NEW t \in Threads, NEW next, NEW w, NEW r,
         Goto(t, next) \/ NotifyAll(t, next),
         wait' = [wait EXCEPT ![t] = w], release' = [release EXCEPT ![t] = r],
         next \in {"idle", "exited", "pulse"} => w = NoWait,
         next \in {"idle", "exited", "blocked", "notified", "wait"} => r = NoRelease
  PROVE  Fitting'
<1>1. pc'[t] = next /\ wait'[t] = w /\ release'[t] = r
  BY DEF Goto, NotifyAll, TypeOK
<1>2. \A u \in Threads : u # t =>
        /\ wait'[u] = wait[u] /\ release'[u] = release[u]
        /\ pc'[u] = pc[u] \/ (pc[u] = "blocked" /\ pc'[u] = "notified")
  BY DEF Goto, NotifyAll, TypeOK
<1> QED BY <1>1, <1>2 DEF Fitting

LEMMA FittingStep ==
  ASSUME TypeOK, Fitting, [Next]_vars
  PROVE  Fitting'
<1>1. CASE UNCHANGED vars BY <1>1 DEF Fitting, vars
<1>2. \A t \in Threads : /\ wait = [wait EXCEPT ![t] = wait[t]]
                        /\ release = [release EXCEPT ![t] = release[t]]
  BY DEF TypeOK
<1>3. ASSUME NEW t \in Threads, NEW hs, NEW all, Complete(t, hs, all),
             UNCHANGED release, release[t] = NoRelease
      PROVE  Fitting'
  <2>1. PICK taken : Take(t, taken) BY <1>3 DEF Complete
  <2>2. /\ wait' = [wait EXCEPT ![t] = NoWait]
        /\ Goto(t, "idle") \/ NotifyAll(t, "idle")
    BY <2>1 DEF Take
  <2> QED BY <1>2, <1>3, <2>2, FittingMove
<1>4. ASSUME NEW t \in Threads, NEW hs, NEW all, NEW timed, Enter(t, hs, all, timed),
             UNCHANGED release, release[t] = NoRelease
      PROVE  Fitting'
  <2>1. CASE /\ Goto(t, "blocked")
             /\ wait' = [wait EXCEPT ![t] = [handles |-> hs, all |-> all, timed |-> timed]]
    BY <1>2, <1>4, <2>1, FittingMove
  <2> QED BY <1>3, <1>4, <2>1 DEF Enter
<1>5. ASSUME NEW t \in Threads, WaitSteps(t) PROVE Fitting'
  <2>1. CASE SpuriousWakeup(t)
    <3>1. /\ Goto(t, "notified") /\ wait' = wait /\ release' = release
          /\ release[t] = NoRelease
      BY <2>1 DEF SpuriousWakeup, Fitting
    <3> QED BY <1>2, <3>1, FittingMove
  <2>2. CASE Timeout(t)
    <3>1. release[t] = NoRelease /\ release' = release BY <2>2 DEF Timeout, Fitting
    <3>2. CASE Goto(t, "idle") /\ wait' = [wait EXCEPT ![t] = NoWait]
      BY <1>2, <3>1, <3>2, FittingMove
    <3> QED BY <1>3, <2>2, <3>1, <3>2 DEF Timeout
  <2>3. CASE Wait(t) BY <1>4, <2>3 DEF Wait, Fitting
  <2>4. CASE Recheck(t) BY <1>4, <2>4 DEF Recheck, Fitting
  <2>5. CASE WaitAfterSignal(t) BY <1>4, <2>5 DEF WaitAfterSignal, Fitting
  <2> QED BY <1>5, <2>1, <2>2, <2>3, <2>4, <2>5 DEF WaitSteps
<1>6. ASSUME NEW t \in Threads, EventSteps(t) PROVE Fitting'
  <2>1. ASSUME NEW e \in Events, SetEvent(t, e) PROVE Fitting'
    <3>1. /\ NotifyAll(t, "idle") /\ wait' = wait /\ release' = release
          /\ wait[t] = NoWait /\ release[t] = NoRelease
      BY <2>1 DEF SetEvent, Fitting
    <3> QED BY <1>2, <3>1, FittingMove
  <2>2. ASSUME NEW e \in Events, ResetEvent(t, e) PROVE Fitting'
    BY <2>2 DEF ResetEvent, Fitting
  <2>3. ASSUME NEW e \in Events, PulseSignal(t, e) PROVE Fitting'
    <3>1. /\ NotifyAll(t, "pulse") /\ wait' = wait /\ wait[t] = NoWait
          /\ release' = [release EXCEPT ![t] = [target |-> e, amount |-> 0]]
      BY <2>3 DEF PulseSignal, Fitting
    <3> QED BY <1>2, <3>1, FittingMove
  <2>4. ASSUME NEW e \in Events, SignalEventAndWait(t, e) PROVE Fitting'
    <3>1. PICK w : /\ NotifyAll(t, "wait") /\ wait' = [wait EXCEPT ![t] = w]
                   /\ release' = release /\ release[t] = NoRelease
      BY <2>4 DEF SignalEventAndWait, Fitting
    <3> QED BY <1>2, <3>1, FittingMove
  <2>5. CASE PulseReset(t)
    <3>1. /\ Goto(t, "idle") /\ wait' = wait /\ wait[t] = NoWait
          /\ release' = [release EXCEPT ![t] = NoRelease]
      BY <2>5 DEF PulseReset, Fitting
    <3> QED BY <1>2, <3>1, FittingMove
  <2> QED BY <1>6, <2>1, <2>2, <2>3, <2>4, <2>5 DEF EventSteps
<1>7. ASSUME NEW t \in Threads, ReleaseSteps(t) PROVE Fitting'
  <2>1. CASE GiveUpRelease(t)
    BY <2>1, FittingMove DEF GiveUpRelease
  <2>2. ASSUME NEW s \in Semaphores, ReleaseSemaphore(t, s) PROVE Fitting'
    <3>1. PICK n \in 1 .. MaxRelease, w \in Tails(t) :
            /\ Goto(t, "sem_check") /\ wait' = [wait EXCEPT ![t] = w]
            /\ release' = [release EXCEPT ![t] = [target |-> s, amount |-> n]]
      BY <2>2 DEF ReleaseSemaphore
    <3> DEFINE r == [target |-> s, amount |-> n]
    <3>2. release' = [release EXCEPT ![t] = r] BY <3>1
    <3> HIDE DEF r
    <3> QED BY <3>1, <3>2, FittingMove
  <2>3. CASE SemaphoreCheck(t)
    <3>1. CASE Goto(t, "sem_add") /\ UNCHANGED <<wait, release>>
      BY <1>2, <3>1, FittingMove
    <3>2. CASE /\ Goto(t, "idle") /\ wait' = [wait EXCEPT ![t] = NoWait]
               /\ release' = [release EXCEPT ![t] = NoRelease]
      BY <3>2, FittingMove
    <3> QED BY <2>3, <3>1, <3>2 DEF SemaphoreCheck
  <2>4. CASE SemaphoreAdd(t) \/ MutantDecrement(t)
    <3>1. /\ Goto(t, AfterSignal(t)) \/ NotifyAll(t, AfterSignal(t))
          /\ wait' = wait /\ release' = [release EXCEPT ![t] = NoRelease]
      BY <2>4 DEF SemaphoreAdd, MutantDecrement
    <3>2. IF wait[t] = NoWait THEN AfterSignal(t) = "idle" ELSE AfterSignal(t) = "wait"
      BY DEF AfterSignal
    <3> QED BY <1>2, <3>1, <3>2, FittingMove
  <2>5. ASSUME NEW m \in Mutants, ReleaseMutant(t, m) PROVE Fitting'
    <3>1. PICK w \in Tails(t) :
            /\ Goto(t, "mut_owner") /\ wait' = [wait EXCEPT ![t] = w]
            /\ release' = [release EXCEPT ![t] = [target |-> m, amount |-> 1]]
      BY <2>5 DEF ReleaseMutant
    <3> DEFINE r == [target |-> m, amount |-> 1]
    <3>2. release' = [release EXCEPT ![t] = r] BY <3>1
    <3> HIDE DEF r
    <3> QED BY <3>1, <3>2, FittingMove
  <2>6. CASE MutantOwnerCheck(t) \/ MutantCountCheck(t)
    <3>1. CASE Goto(t, "mut_count") /\ UNCHANGED <<wait, release>>
      BY <1>2, <3>1, FittingMove
    <3>2. CASE Goto(t, "mut_dec") /\ UNCHANGED <<wait, release>>
      BY <1>2, <3>2, FittingMove
    <3> QED BY <2>1, <2>6, <3>1, <3>2 DEF MutantOwnerCheck, MutantCountCheck
  <2> QED BY <1>7, <2>2, <2>3, <2>4, <2>5, <2>6 DEF ReleaseSteps
<1>8. ASSUME NEW t \in Threads, Exit(t) PROVE Fitting'
  <2>1. /\ Goto(t, "exited") /\ wait' = wait /\ release' = release
        /\ wait[t] = NoWait /\ release[t] = NoRelease
    BY <1>8 DEF Exit, Fitting
  <2> QED BY <1>2, <2>1, FittingMove
<1> QED BY <1>1, <1>5, <1>6, <1>7, <1>8 DEF Next

\* What a wait asks for under the mutex is what the object has to give.
LEMMA AvailableIsSignaled ==
  ASSUME MutantInv, NEW t \in Threads, NEW h \in Handles
  PROVE  Objects!Available(t, h) <=> Signaled(t, h)
<1> USE DEF MutantInv
<1>1. CASE h \in Events
  <2>1. h \notin Semaphores /\ h \notin Mutants
    BY <1>1, HandleAssumption DEF Counted
  <2> QED BY <1>1, <2>1, Alike DEF Objects!Available, Signaled
<1>2. CASE h \in Semaphores
  <2>1. h \notin Events /\ h \notin Mutants
    BY <1>2, HandleAssumption DEF Counted
  <2> QED BY <1>2, <2>1, Alike DEF Objects!Available, Signaled
<1>3. CASE h \in Mutants
  <2>1. h \notin Events /\ h \notin Semaphores /\ count[h] \in Nat
    BY <1>3, HandleAssumption DEF Counted, TypeOK, Uint
  <2>2. count[h] # 0 => owner[h] # NoThread
    BY <1>3, <2>1, ThreadAssumption DEF Counts
  <2> QED BY <1>3, <2>1, <2>2, Alike DEF Objects!Available, Signaled
<1> QED BY <1>1, <1>2, <1>3 DEF Handles

LEMMA SameCardinality ==
  ASSUME NEW S
  PROVE  Objects!Cardinality(S) = Cardinality(S)
BY DEF Objects!Cardinality, Cardinality

\* How often some places of a list name an object.
LEMMA PlacesFacts ==
  ASSUME NEW hs \in WaitLists, NEW I \in SUBSET DOMAIN hs, NEW h
  PROVE  /\ Cardinality({i \in I : hs[i] = h}) \in 0 .. Len(hs)
         /\ Cardinality({i \in I : hs[i] = h}) > 0 <=> \E i \in I : hs[i] = h
<1> DEFINE S == {i \in I : hs[i] = h}
<1>1. Len(hs) \in Nat /\ DOMAIN hs = 1 .. Len(hs) BY WaitListFacts
<1>2. IsFiniteSet(1 .. Len(hs)) /\ Cardinality(1 .. Len(hs)) = Len(hs)
  <2>1. 1 \in Int /\ Len(hs) \in Int BY <1>1
  <2>2. Cardinality(1 .. Len(hs)) = IF 1 > Len(hs) THEN 0 ELSE Len(hs) - 1 + 1
    BY <2>1, FS_Interval, Zenon
  <2>3. IsFiniteSet(1 .. Len(hs)) BY <2>1, FS_Interval, Zenon
  <2> QED BY <1>1, <2>2, <2>3
<1>3. IsFiniteSet(S) /\ Cardinality(S) <= Len(hs) BY <1>1, <1>2, FS_Subset
<1>4. Cardinality(S) \in Nat /\ (Cardinality(S) = 0 <=> S = {})
  BY <1>3, FS_CardinalityType, FS_EmptySet
<1>5. S # {} <=> \E i \in I : hs[i] = h OBVIOUS
<1> HIDE DEF S
<1>6. Cardinality(S) \in 0 .. Len(hs) /\ (Cardinality(S) > 0 <=> \E i \in I : hs[i] = h)
  BY <1>1, <1>3, <1>4, <1>5
<1> QED BY <1>6 DEF S

\* Taking what was asked for, in one step, is DispatcherObjects' Acquire.
LEMMA TakeIsAcquire ==
  ASSUME MutantInv, NEW t \in Threads, NEW hs \in WaitLists, NEW I \in SUBSET DOMAIN hs,
         RecursionLeft(t, hs), \A i \in I : Signaled(t, hs[i]),
         NEW taken, Take(t, taken),
         \A h \in Handles : taken[h] = Objects!Taken(hs, I, h)
  PROVE  Objects!Acquire(t, hs, I)
<1> USE DEF MutantInv
<1> DEFINE named(h) == \E i \in I : hs[i] = h
<1>1. \A m \in Mutants : /\ m \notin Semaphores /\ m \in Counted
                        /\ m \in Handles /\ m \notin Events
  BY HandleAssumption DEF Counted, Handles
<1>2. ASSUME NEW h \in Handles, h \notin Semaphores
      PROVE  taken[h] \in 0 .. Len(hs) /\ (taken[h] > 0 <=> named(h))
  <2>1. taken[h] = Cardinality({i \in I : hs[i] = h}) BY <1>2, SameCardinality DEF Objects!Taken
  <2>2. /\ Cardinality({i \in I : hs[i] = h}) \in 0 .. Len(hs)
        /\ Cardinality({i \in I : hs[i] = h}) > 0 <=> \E i \in I : hs[i] = h
    BY PlacesFacts
  <2> QED BY <2>1, <2>2
<1>3. signal' = [e \in Events |-> signal[e] /\ ~(e \in AutoEvents /\ named(e))]
  <2>1. signal' = [e \in Events |-> IF e \in AutoEvents /\ taken[e] > 0
                                    THEN FALSE ELSE signal[e]]
    BY DEF Take
  <2>2. \A e \in Events : signal[e] \in BOOLEAN /\ (taken[e] > 0 <=> named(e))
    <3>1. \A e \in Events : e \in Handles /\ e \notin Semaphores
      BY HandleAssumption DEF Counted, Handles
    <3> QED BY <1>2, <3>1 DEF TypeOK
  <2> HIDE DEF named
  <2> QED BY <2>1, <2>2
<1>4. ASSUME NEW m \in Mutants
      PROVE  /\ Plus(count[m], taken[m]) = count[m] + taken[m]
             /\ count[m] \in Nat /\ taken[m] \in Nat /\ (taken[m] > 0 <=> named(m))
  <2>1. count[m] \in Nat /\ count[m] < UintMod /\ held[t][m] \in Nat
    BY <1>1, CountAssumption DEF TypeOK, Uint
  <2>2. taken[m] \in 0 .. Len(hs) /\ (taken[m] > 0 <=> named(m)) BY <1>1, <1>2
  <2>3. Len(hs) \in Nat BY WaitListFacts
  <2>4. CASE named(m)
    <3>1. PICK i \in I : hs[i] = m BY <2>4
    <3>2. held[t][m] + Len(hs) <= MaxRecursion BY <3>1 DEF RecursionLeft
    <3>3. count[m] = 0 \/ owner[m] = t BY <1>1, <3>1 DEF Signaled
    <3>4. count[m] <= held[t][m] BY <2>1, <3>3 DEF Counts
    <3>5. count[m] + taken[m] < UintMod
      BY <2>1, <2>2, <2>3, <3>2, <3>4, CountAssumption
    <3> QED BY <2>1, <2>2, <2>3, <3>5 DEF Plus
  <2>5. CASE ~named(m)
    <3>1. taken[m] = 0 BY <2>2, <2>3, <2>5
    <3> QED BY <2>1, <2>2, <2>5, <3>1 DEF Plus
  <2> QED BY <2>4, <2>5
<1> HIDE DEF named
<1>5. count' = [h \in Counted |-> IF h \in Semaphores
                                  THEN count[h] - Objects!Taken(hs, I, h)
                                  ELSE count[h] + Objects!Taken(hs, I, h)]
  <2>1. count' = [h \in Counted |-> IF h \in Semaphores THEN count[h] - taken[h]
                                    ELSE Plus(count[h], taken[h])]
    BY DEF Take
  <2>2. \A h \in Counted : h \in Handles /\ (h \notin Semaphores => h \in Mutants)
    BY DEF Counted, Handles
  <2>3. \A h \in Counted :
          (IF h \in Semaphores THEN count[h] - taken[h] ELSE Plus(count[h], taken[h]))
            = IF h \in Semaphores THEN count[h] - Objects!Taken(hs, I, h)
              ELSE count[h] + Objects!Taken(hs, I, h)
    BY <1>4, <2>2
  <2> QED BY <2>1, <2>3
<1>6. Owners' = [m \in Mutants |-> IF named(m) THEN t ELSE Owners[m]]
  <2>1. \A m \in Mutants : /\ owner'[m] = IF named(m) THEN t ELSE owner[m]
                           /\ count'[m] = count[m] + taken[m]
    BY <1>1, <1>4 DEF Take
  <2>2. \A m \in Mutants : Owners'[m] = IF named(m) THEN t ELSE Owners[m]
    BY <1>4, <2>1 DEF Owners
  <2> QED BY <2>2 DEF Owners
<1> QED BY <1>3, <1>5, <1>6, Alike DEF Objects!Acquire, Owners, named

\* A wait that succeeds, whether it begins now or was blocked.
LEMMA CompleteIsWait ==
  ASSUME MutantInv, NEW t \in Threads, release[t] = NoRelease, UNCHANGED release,
         NEW w \in Waits, wait[t] \in {w, NoWait}, RecursionLeft(t, w.handles),
         Complete(t, w.handles, w.all)
  PROVE  Objects!Step(t)
<1> DEFINE hs == w.handles
<1>1. /\ hs \in WaitLists /\ w.all \in BOOLEAN /\ \A i \in DOMAIN hs : hs[i] \in Handles
  BY WaitListFacts DEF Waits
<1>2. Objects!WaitOf(t, w) BY Alike DEF Objects!WaitOf
<1>3. ASSUME NEW taken, Take(t, taken) PROVE Objects!Left(t, NoWait, NoRelease)
  <2>1. release' = [release EXCEPT ![t] = NoRelease] BY DEF MutantInv, TypeOK
  <2> QED BY <1>3, <2>1 DEF Take, Objects!Left
<1>4. \A i \in DOMAIN hs : Objects!Available(t, hs[i]) <=> Signaled(t, hs[i])
  BY <1>1, AvailableIsSignaled
<1>5. CASE w.all
  <2>1. Take(t, TakeAll(hs)) /\ \A i \in DOMAIN hs : Signaled(t, hs[i])
    BY <1>5 DEF Complete
  <2>2. \A h \in Handles : TakeAll(hs)[h] = Objects!Taken(hs, DOMAIN hs, h)
    BY SameCardinality DEF TakeAll, Times, Objects!Taken
  <2>3. Objects!Acquire(t, hs, DOMAIN hs) BY <1>1, <2>1, <2>2, TakeIsAcquire
  <2>4. Objects!Wanted(t, w) BY <1>4, <1>5, <2>1 DEF Objects!Wanted
  <2>5. Objects!WaitAll(t)
    BY <1>2, <1>3, <1>5, <2>1, <2>3, <2>4, Alike DEF Objects!WaitAll
  <2> QED BY <2>5 DEF Objects!Step
<1>6. CASE ~w.all
  <2>1. PICK i \in DOMAIN hs : IsFirst(t, hs, i) /\ Take(t, TakeOne(hs, i))
    BY <1>6 DEF Complete
  <2>2. Signaled(t, hs[i]) /\ hs[i] \in Handles
        /\ \A j \in DOMAIN hs : j < i => ~Objects!Available(t, hs[j])
    BY <1>1, <1>4, <2>1 DEF IsFirst
  <2>3. \A h \in Handles : TakeOne(hs, i)[h] = Objects!Taken(hs, {i}, h)
    <3> SUFFICES ASSUME NEW h \in Handles
                 PROVE  TakeOne(hs, i)[h] = Objects!Taken(hs, {i}, h)
      OBVIOUS
    <3>1. CASE h = hs[i]
      <4>1. {j \in {i} : hs[j] = h} = {i} BY <3>1
      <4>2. Cardinality({i}) = 1 BY FS_Singleton
      <4>3. h \in Semaphores => count[h] \in Nat /\ count[h] > 0
        BY <2>2, <3>1, HandleAssumption DEF Signaled, MutantInv, TypeOK, Counted, Uint
      <4>4. Objects!Taken(hs, {i}, h) = 1
        <5>1. Cardinality({j \in {i} : hs[j] = h}) = 1 BY <4>1, <4>2
        <5> QED BY <4>3, <5>1, SameCardinality DEF Objects!Taken
      <4> QED BY <3>1, <4>4 DEF TakeOne
    <3>2. CASE h # hs[i]
      <4>1. {j \in {i} : hs[j] = h} = {} BY <3>2
      <4>2. Cardinality({j \in {i} : hs[j] = h}) = 0 BY <4>1, FS_EmptySet
      <4>3. h \in Semaphores => count[h] \in Nat
        BY DEF MutantInv, TypeOK, Counted, Uint
      <4> QED BY <3>2, <4>2, <4>3, SameCardinality DEF TakeOne, Objects!Taken
    <3> QED BY <3>1, <3>2
  <2>4. {i} \in SUBSET DOMAIN hs /\ \A j \in {i} : Signaled(t, hs[j])
    BY <2>1, <2>2
  <2>5. Objects!Acquire(t, hs, {i})
    <3> HIDE DEF hs
    <3> QED BY <1>1, <2>1, <2>3, <2>4, TakeIsAcquire DEF hs
  <2>6. Objects!WaitAny(t)
    BY <1>2, <1>3, <1>4, <1>6, <2>1, <2>2, <2>5, Alike DEF Objects!WaitAny
  <2> QED BY <2>6 DEF Objects!Step
<1> QED BY <1>1, <1>5, <1>6

LEMMA ObjectsSame ==
  ASSUME UNCHANGED <<objects, wait, release>>
  PROVE  UNCHANGED Objects!vars
BY DEF objects, Objects!vars

\* The critical section of a wait: it succeeds, or it begins to block.
LEMMA EnterIsWait ==
  ASSUME ObjectsInv, NEW t \in Threads, release[t] = NoRelease, UNCHANGED release,
         NEW w \in Waits, wait[t] \in {w, NoWait}, RecursionLeft(t, w.handles),
         Enter(t, w.handles, w.all, w.timed)
  PROVE  [Objects!Step(t)]_(Objects!vars)
<1> USE DEF ObjectsInv
<1>1. CASE Complete(t, w.handles, w.all) BY <1>1, CompleteIsWait
<1>2. CASE /\ wait' = [wait EXCEPT ![t] = [handles |-> w.handles, all |-> w.all,
                                           timed |-> w.timed]]
           /\ UNCHANGED objects
  <2>1. wait' = [wait EXCEPT ![t] = w] BY <1>2 DEF Waits
  <2>2. wait \in [Threads -> Waits \union {NoWait}] /\ release' = release
        /\ release = [release EXCEPT ![t] = NoRelease]
    BY DEF MutantInv, TypeOK
  <2>3. CASE wait[t] = w BY <1>2, <2>1, <2>2, <2>3, ObjectsSame
  <2>4. CASE wait[t] = NoWait
    <3>1. Objects!Idle(t) BY <2>4, Alike DEF Objects!Idle
    <3>2. Objects!Left(t, w, NoRelease) BY <2>1, <2>2 DEF Objects!Left
    <3>3. UNCHANGED Objects!objects BY <1>2 DEF objects, Objects!objects
    <3>4. Objects!Call(t) BY <3>1, <3>2, <3>3, Alike DEF Objects!Call
    <3> QED BY <3>4 DEF Objects!Step
  <2> QED BY <2>3, <2>4
<1> QED BY <1>1, <1>2 DEF Enter

\* A Release that is refused changes nothing and ends the call.
LEMMA RefusedIsRefuse ==
  ASSUME ObjectsInv, NEW t \in Threads, UNCHANGED objects,
         wait' = [wait EXCEPT ![t] = NoWait], release' = [release EXCEPT ![t] = NoRelease],
         \/ release[t].target \in Semaphores
            /\ ~(count[release[t].target] + release[t].amount
                   <= MaximumCount[release[t].target])
         \/ release[t].target \in Mutants /\ Owners[release[t].target] # t
  PROVE  Objects!Step(t)
<1>1. Objects!Left(t, NoWait, NoRelease) BY DEF Objects!Left
<1>2. UNCHANGED Objects!objects BY DEF objects, Objects!objects
<1>3. Objects!Refuse(t) BY <1>1, <1>2, Alike DEF Objects!Refuse, Objects!Fits, Owners
<1> QED BY <1>3 DEF Objects!Step

LEMMA WaitStepsAreSteps ==
  ASSUME ObjectsInv, NEW t \in Threads, WaitSteps(t)
  PROVE  [Objects!Step(t)]_(Objects!vars)
<1> USE DEF ObjectsInv
<1>1. /\ wait[t] \in Waits => wait[t] # NoWait /\ RecursionLeft(t, wait[t].handles)
      /\ wait \in [Threads -> Waits \union {NoWait}]
      /\ pc[t] \in {"blocked", "notified", "wait"} =>
           wait[t] \in Waits /\ release[t] = NoRelease
  BY WaitListFacts DEF Waits, NoWait, MutantInv, Recursion, TypeOK, Fitting
<1>2. CASE Wait(t)
  <2>1. PICK hs \in WaitLists, all \in BOOLEAN, timed \in BOOLEAN :
          /\ pc[t] = "idle" /\ RecursionLeft(t, hs) /\ Enter(t, hs, all, timed)
          /\ UNCHANGED release
    BY <1>2 DEF Wait
  <2> DEFINE w == [handles |-> hs, all |-> all, timed |-> timed]
  <2>2. w \in Waits /\ w.handles = hs /\ w.all = all /\ w.timed = timed BY DEF Waits
  <2>3. wait[t] = NoWait /\ release[t] = NoRelease BY <2>1 DEF Fitting
  <2> HIDE DEF w
  <2> QED BY <2>1, <2>2, <2>3, EnterIsWait
<1>3. CASE Recheck(t) BY <1>1, <1>3, EnterIsWait DEF Recheck
<1>4. CASE SpuriousWakeup(t) BY <1>4, ObjectsSame DEF SpuriousWakeup
<1>5. CASE Timeout(t)
  <2>1. wait[t] \in Waits /\ release[t] = NoRelease /\ UNCHANGED release
        /\ RecursionLeft(t, wait[t].handles) /\ wait[t] # NoWait
    BY <1>1, <1>5 DEF Timeout
  <2>2. CASE Complete(t, wait[t].handles, wait[t].all)
    BY <2>1, <2>2, CompleteIsWait
  <2>3. CASE /\ ~Predicate(t, wait[t].handles, wait[t].all)
             /\ wait' = [wait EXCEPT ![t] = NoWait] /\ UNCHANGED objects
    <3>1. \A i \in DOMAIN wait[t].handles :
            Objects!Available(t, wait[t].handles[i]) <=> Signaled(t, wait[t].handles[i])
      <4>1. wait[t].handles \in WaitLists BY <2>1 DEF Waits
      <4> QED BY <4>1, WaitListFacts, AvailableIsSignaled
    <3>2. ~Objects!Wanted(t, wait[t])
      BY <2>3, <3>1 DEF Predicate, Objects!Wanted
    <3>3. Objects!Left(t, NoWait, NoRelease)
      BY <2>1, <2>3 DEF Objects!Left, MutantInv, TypeOK
    <3>4. UNCHANGED Objects!objects BY <2>3 DEF objects, Objects!objects
    <3>5. wait[t].timed BY <1>5 DEF Timeout
    <3>6. Objects!GiveUp(t) BY <2>1, <3>2, <3>3, <3>4, <3>5, Alike DEF Objects!GiveUp
    <3> QED BY <3>6 DEF Objects!Step
  <2> QED BY <1>5, <2>2, <2>3 DEF Timeout
<1>6. CASE WaitAfterSignal(t) BY <1>1, <1>6, EnterIsWait DEF WaitAfterSignal
<1> QED BY <1>2, <1>3, <1>4, <1>5, <1>6 DEF WaitSteps

LEMMA EventStepsAreSteps ==
  ASSUME ObjectsInv, NEW t \in Threads, EventSteps(t)
  PROVE  Objects!Step(t)
<1> USE DEF ObjectsInv, MutantInv
<1>1. /\ wait = [wait EXCEPT ![t] = wait[t]]
      /\ release = [release EXCEPT ![t] = release[t]]
      /\ pc[t] = "idle" => /\ wait[t] = NoWait /\ release[t] = NoRelease
                           /\ Objects!Idle(t)
  BY Alike DEF TypeOK, Fitting, Objects!Idle
<1>2. ASSUME NEW e \in Events, SetEvent(t, e) PROVE Objects!Step(t)
  <2>1. /\ Objects!Idle(t) /\ Objects!Left(t, NoWait, NoRelease)
        /\ signal' = [signal EXCEPT ![e] = TRUE] /\ UNCHANGED <<count, owner>>
    BY <1>1, <1>2 DEF SetEvent, Objects!Left
  <2>2. Objects!SetEvent(t) BY <2>1, Alike DEF Objects!SetEvent
  <2> QED BY <2>2 DEF Objects!Step
<1>3. ASSUME NEW e \in Events, ResetEvent(t, e) PROVE Objects!Step(t)
  <2>1. Objects!ResetEvent(t) BY <1>1, <1>3, Alike DEF ResetEvent, Objects!ResetEvent
  <2> QED BY <2>1 DEF Objects!Step
<1>4. ASSUME NEW e \in Events, PulseSignal(t, e) PROVE Objects!Step(t)
  <2>1. /\ Objects!Idle(t) /\ Objects!Left(t, NoWait, [target |-> e, amount |-> 0])
        /\ signal' = [signal EXCEPT ![e] = TRUE] /\ UNCHANGED <<count, owner>>
    BY <1>1, <1>4 DEF PulseSignal, Objects!Left
  <2>2. Objects!PulseSet(t) BY <2>1, Alike DEF Objects!PulseSet
  <2> QED BY <2>2 DEF Objects!Step
<1>5. ASSUME NEW e \in Events, SignalEventAndWait(t, e) PROVE Objects!Step(t)
  <2>1. PICK w \in Tails(t) \ {NoWait} :
          /\ pc[t] = "idle" /\ wait' = [wait EXCEPT ![t] = w] /\ UNCHANGED release
          /\ signal' = [signal EXCEPT ![e] = TRUE] /\ UNCHANGED <<count, owner>>
    BY <1>5 DEF SignalEventAndWait
  <2>2. w \in Waits BY DEF Tails, Waits
  <2>3. Objects!Idle(t) /\ Objects!Left(t, w, NoRelease)
    BY <1>1, <2>1 DEF Objects!Left
  <2>4. Objects!SetEvent(t) BY <2>1, <2>2, <2>3, Alike DEF Objects!SetEvent
  <2> QED BY <2>4 DEF Objects!Step
<1>6. CASE PulseReset(t)
  <2>1. /\ release[t].target \in Events /\ Objects!Left(t, NoWait, NoRelease)
        /\ signal' = [signal EXCEPT ![release[t].target] = FALSE]
        /\ UNCHANGED <<count, owner>>
    BY <1>1, <1>6 DEF PulseReset, Objects!Left, TypeOK, Fitting
  <2>2. Objects!PulseReset(t) BY <2>1, Alike DEF Objects!PulseReset
  <2> QED BY <2>2 DEF Objects!Step
<1> QED BY <1>2, <1>3, <1>4, <1>5, <1>6 DEF EventSteps

LEMMA SemaphoreAddIsRelease ==
  ASSUME ObjectsInv, NEW t \in Threads, SemaphoreAdd(t)
  PROVE  Objects!Step(t)
<1> USE DEF ObjectsInv, MutantInv, SemaphoreInv
<1> DEFINE s == release[t].target
           n == release[t].amount
<1>1. s \in Semaphores /\ s \notin Mutants /\ s \in Counted /\ n \in Nat
      /\ count[s] \in Nat /\ MaximumCount[s] \in Nat /\ MaximumCount[s] < UintMod
  BY CountAssumption, HandleAssumption DEF SemaphoreAdd, TypeOK, Counted, Uint
<1>2. count[s] + n <= MaximumCount[s] BY DEF SemaphoreAdd, Room
<1>3. /\ count' = [count EXCEPT ![s] = Plus(count[s], n)] /\ UNCHANGED <<signal, owner>>
      /\ wait' = wait /\ release' = [release EXCEPT ![t] = NoRelease]
  BY DEF SemaphoreAdd
<1>4. Objects!Left(t, wait[t], NoRelease)
  BY <1>3 DEF Objects!Left, TypeOK
<1>5. Objects!Fits(t) BY <1>2 DEF Objects!Fits
<1> HIDE DEF s, n
<1>6. Plus(count[s], n) = count[s] + n BY <1>1, <1>2, CountAssumption DEF Plus
<1>7. \A m \in Mutants : count'[m] = count[m] BY <1>1, <1>3 DEF TypeOK, Counted
<1>8. Owners' = Owners BY <1>3, <1>7 DEF Owners
<1>9. count' = [count EXCEPT ![s] = count[s] + n] BY <1>3, <1>6
<1>10. Objects!ReleaseSemaphore(t)
  BY <1>1, <1>3, <1>4, <1>5, <1>8, <1>9, Alike DEF Objects!ReleaseSemaphore, Owners, s, n
<1> QED BY <1>10 DEF Objects!Step

LEMMA MutantDecrementIsRelease ==
  ASSUME ObjectsInv, NEW t \in Threads, MutantDecrement(t)
  PROVE  Objects!Step(t)
<1> USE DEF ObjectsInv, MutantInv
<1>1. PICK m \in Mutants : m = release[t].target /\ m \in Counted /\ held[t][m] > 0
  BY DEF MutantDecrement, TypeOK, Releasing, Counted
<1>2. owner[m] = t /\ count[m] \in Nat /\ count[m] > 0
  BY <1>1 DEF MutantExclusive, TypeOK, Uint
<1>3. /\ count' = [count EXCEPT ![m] = Minus(count[m], 1)] /\ UNCHANGED <<signal, owner>>
      /\ wait' = wait /\ release' = [release EXCEPT ![t] = NoRelease]
  BY <1>1 DEF MutantDecrement
<1>4. Minus(count[m], 1) = count[m] - 1 BY <1>2 DEF Minus
<1>5. count'[m] = count[m] - 1 /\ \A x \in Mutants \ {m} : count'[x] = count[x]
  BY <1>1, <1>3, <1>4 DEF TypeOK, Counted
<1>6. Owners[m] = t BY <1>1, <1>2 DEF Owners
<1>7. Owners'[m] = IF count[m] = 1 THEN NoThread ELSE Owners[m]
  BY <1>1, <1>2, <1>3, <1>5 DEF Owners
<1>8. \A x \in Mutants \ {m} : Owners'[x] = Owners[x] BY <1>3, <1>5 DEF Owners
<1>9. Owners' = [Owners EXCEPT ![m] = IF count[m] = 1 THEN NoThread ELSE Owners[m]]
  <2>1. Owners' = [x \in Mutants |-> Owners'[x]] BY DEF Owners
  <2>2. Owners = [x \in Mutants |-> Owners[x]] BY DEF Owners
  <2> HIDE DEF Owners
  <2> QED BY <1>7, <1>8, <2>1, <2>2
<1>10. count' = [count EXCEPT ![m] = count[m] - 1] BY <1>3, <1>4
<1>11. Objects!Left(t, wait[t], NoRelease) BY <1>3 DEF Objects!Left, TypeOK
<1>12. Objects!ReleaseMutant(t)
  BY <1>1, <1>3, <1>6, <1>9, <1>10, <1>11, Alike, Zenon DEF Objects!ReleaseMutant, Owners
<1> QED BY <1>12 DEF Objects!Step

LEMMA ReleaseStepsAreSteps ==
  ASSUME ObjectsInv, NEW t \in Threads, ReleaseSteps(t)
  PROVE  [Objects!Step(t)]_(Objects!vars)
<1> USE DEF ObjectsInv, MutantInv, SemaphoreInv
<1>1. CASE UNCHANGED <<objects, wait, release>> BY <1>1, ObjectsSame
<1>2. ASSUME NEW w \in Waits \union {NoWait}, NEW r \in Objects!Releases, pc[t] = "idle",
             wait' = [wait EXCEPT ![t] = w], release' = [release EXCEPT ![t] = r],
             UNCHANGED objects
      PROVE  Objects!Step(t)
  <2>1. Objects!Idle(t) BY <1>2, Alike DEF Fitting, Objects!Idle
  <2>2. Objects!Left(t, w, r) BY <1>2 DEF Objects!Left
  <2>3. UNCHANGED Objects!objects BY <1>2 DEF objects, Objects!objects
  <2>4. Objects!Call(t) BY <2>1, <2>2, <2>3, Alike DEF Objects!Call
  <2> QED BY <2>4 DEF Objects!Step
<1>3. Tails(t) \subseteq Waits \union {NoWait} BY DEF Tails, Waits
<1>4. ASSUME NEW s \in Semaphores, ReleaseSemaphore(t, s) PROVE Objects!Step(t)
  <2>1. PICK n \in 1 .. MaxRelease, w \in Tails(t) :
          /\ pc[t] = "idle" /\ wait' = [wait EXCEPT ![t] = w]
          /\ release' = [release EXCEPT ![t] = [target |-> s, amount |-> n]]
          /\ UNCHANGED objects
    BY <1>4 DEF ReleaseSemaphore
  <2> DEFINE r == [target |-> s, amount |-> n]
  <2>2. r \in Objects!Releases BY DEF Objects!Releases, Objects!Counted
  <2>3. release' = [release EXCEPT ![t] = r] BY <2>1
  <2> HIDE DEF r
  <2> QED BY <1>2, <1>3, <2>1, <2>2, <2>3
<1>5. ASSUME NEW m \in Mutants, ReleaseMutant(t, m) PROVE Objects!Step(t)
  <2>1. PICK w \in Tails(t) :
          /\ pc[t] = "idle" /\ wait' = [wait EXCEPT ![t] = w]
          /\ release' = [release EXCEPT ![t] = [target |-> m, amount |-> 1]]
          /\ UNCHANGED objects
    BY <1>5 DEF ReleaseMutant
  <2> DEFINE r == [target |-> m, amount |-> 1]
  <2>2. r \in Objects!Releases
    BY CountAssumption DEF Objects!Releases, Objects!Counted
  <2>3. release' = [release EXCEPT ![t] = r] BY <2>1
  <2> HIDE DEF r
  <2> QED BY <1>2, <1>3, <2>1, <2>2, <2>3
<1>6. CASE SemaphoreCheck(t)
  <2> DEFINE s == release[t].target
             n == release[t].amount
  <2>1. /\ s \in Semaphores /\ n \in Nat /\ count[s] \in Nat
        /\ MaximumCount[s] \in Nat /\ count[s] <= MaximumCount[s]
    BY <1>6, CountAssumption DEF SemaphoreCheck, TypeOK, Counted, Uint, SemaphoreBound
  <2>2. Minus(MaximumCount[s], count[s]) = MaximumCount[s] - count[s]
    BY <2>1 DEF Minus
  <2>3. \/ UNCHANGED <<objects, wait, release>>
        \/ /\ ~(Minus(MaximumCount[s], count[s]) >= n) /\ UNCHANGED objects
           /\ wait' = [wait EXCEPT ![t] = NoWait]
           /\ release' = [release EXCEPT ![t] = NoRelease]
    BY <1>6 DEF SemaphoreCheck
  <2>4. ~(Minus(MaximumCount[s], count[s]) >= n) => ~(count[s] + n <= MaximumCount[s])
    BY <2>1, <2>2
  <2> QED BY <1>1, <2>1, <2>3, <2>4, RefusedIsRefuse
<1>7. CASE MutantOwnerCheck(t) \/ MutantCountCheck(t)
  <2> DEFINE m == release[t].target
  <2>1. m \in Mutants BY <1>7 DEF MutantOwnerCheck, MutantCountCheck, TypeOK
  <2>2. CASE GiveUpRelease(t) /\ (owner[m] # t \/ count[m] = 0)
    <3>1. Owners[m] # t BY <2>1, <2>2, ThreadAssumption DEF Owners
    <3> QED BY <2>1, <2>2, <3>1, RefusedIsRefuse DEF GiveUpRelease
  <2> QED BY <1>1, <1>7, <2>2 DEF MutantOwnerCheck, MutantCountCheck
<1> QED
  BY <1>4, <1>5, <1>6, <1>7, SemaphoreAddIsRelease, MutantDecrementIsRelease
  DEF ReleaseSteps

\* Every step of a thread is a step of its call, or changes nothing it promises.
LEMMA ObjectsStep ==
  ASSUME ObjectsInv, [Next]_vars
  PROVE  [Objects!Next]_(Objects!vars)
<1>1. CASE UNCHANGED vars BY <1>1, ObjectsSame DEF vars, objects
<1>2. ASSUME NEW t \in Threads, Exit(t) PROVE [Objects!Next]_(Objects!vars)
  BY <1>2, ObjectsSame DEF Exit
<1> QED
  BY <1>1, <1>2, WaitStepsAreSteps, EventStepsAreSteps, ReleaseStepsAreSteps
  DEF Next, Objects!Next

LEMMA ObjectsInit ==
  ASSUME Init
  PROVE  Objects!Init /\ Fitting
<1>1. \A m \in Mutants : m \notin Semaphores /\ m \in Counted
  BY HandleAssumption DEF Counted
<1>2. Owners = owner BY <1>1 DEF Init, Owners
<1> QED BY <1>2, Alike DEF Init, Objects!Init, Owners, Fitting

\* The objects act as the comments of threading.h promise, whoever uses them
\* and however many release one semaphore: each part of each call takes effect
\* once, at one instant, a wait for all on all of its objects (those it names
\* twice included), and on what holds at that instant.  Two things are asked
\* of the users: that no two releases of a semaphore race, and that nobody
\* releases a mutant he gave up before.
THEOREM ObjectsAreAtomic ==
  ASSUME StrayReleasers = {}
  PROVE  Spec /\ []~Raced => AtomicObjects
<1>1. MutantInv /\ [Next]_vars => MutantInv' BY MutantStep
<1>2. ~Raced /\ SemaphoreInv /\ [Next]_vars => SemaphoreInv' BY SemaphoreStep
<1>3. SemaphoreInv /\ Fitting /\ [Next]_vars => Fitting'
  BY FittingStep DEF SemaphoreInv
<1>4. MutantInv /\ SemaphoreInv /\ Fitting /\ [Next]_vars
        => [Objects!Next]_(Objects!vars)
  BY ObjectsStep DEF ObjectsInv
<1> QED BY InitMutant, InitSemaphore, ObjectsInit, <1>1, <1>2, <1>3, <1>4, PTL
        DEF Spec, AtomicObjects, Objects!Spec

=============================================================================
