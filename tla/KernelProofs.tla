---------------------------- MODULE KernelProofs ----------------------------
(***************************************************************************)
(* Proofs about three parts of the kernel and what runs on it: critical    *)
(* sections, for every set of threads, every spin count and every depth;   *)
(* an I/O completion port, for every set of threads and every maximum; and *)
(* the audio system, for every set of clients and every number of frames a *)
(* client may queue.                                                       *)
(***************************************************************************)
EXTENDS CriticalSections, IoCompletion, AudioSystem, FiniteSetTheorems, SequenceTheorems, TLAPS

-----------------------------------------------------------------------------
(***************************************************************************)
(* Critical sections.                                                      *)
(*                                                                         *)
(* The invariant says what lock_count counts: every waiting thread, and    *)
(* for the thread inside as often as it has entered, and once more while   *)
(* it has the count of an entry or has yet to give it back (Part).  The    *)
(* event stands for a thread that is woken and counts nothing.  Without    *)
(* the exact count nothing follows from a lock_count of -1, with which one *)
(* thread enters, nor from any other, with which one is woken.             *)
(***************************************************************************)

Waiting == {t \in Threads : pc[t] = "wait"}

\* How much of lock_count + 1 is that of a thread inside.
Part(t) == depth[t] + IF pc[t] \in {"own", "uncount", "release"} THEN 1 ELSE 0

Counted ==
  /\ IsFiniteSet(Waiting)
  /\ \A t \in Threads : Inside(t) => lock_count + 1 = Cardinality(Waiting) + Part(t)
  /\ (\A t \in Threads : ~Inside(t)) => lock_count + 1 = Cardinality(Waiting)

\* How often a thread has entered, by where it is.
Depths ==
  \A t \in Threads :
    /\ pc[t] \in {"spin", "wait", "own", "release", "wake"} => depth[t] = 0
    /\ pc[t] \in {"again", "uncount"} => depth[t] > 0
    /\ pc[t] \in {"again", "spin", "wait", "own", "try"} => depth[t] < MaxDepth
    /\ depth[t] > 0 => recursion_count = depth[t]

SectionInv ==
  TypeOK /\ OneInside /\ OwnerAsserted /\ SomebodyIsWoken /\ NoWaiterForgotten /\ Counted
    /\ Depths

-----------------------------------------------------------------------------
(* The threads that wait. *)

LEMMA WaitingSame ==
  ASSUME NEW t \in Threads, TypeOK, NEW place, pc' = [pc EXCEPT ![t] = place],
         pc[t] # "wait", place # "wait"
  PROVE  Waiting' = Waiting
BY DEF Waiting, TypeOK

LEMMA WaitingMore ==
  ASSUME NEW t \in Threads, TypeOK, Counted, pc' = [pc EXCEPT ![t] = "wait"],
         pc[t] # "wait"
  PROVE  /\ IsFiniteSet(Waiting') /\ t \in Waiting'
         /\ Cardinality(Waiting') = Cardinality(Waiting) + 1
<1>1. Waiting' = Waiting \cup {t} /\ t \notin Waiting BY DEF Waiting, TypeOK
<1> QED BY <1>1, FS_AddElement DEF Counted

LEMMA WaitingFewer ==
  ASSUME NEW t \in Threads, TypeOK, Counted, pc' = [pc EXCEPT ![t] = "own"],
         pc[t] = "wait"
  PROVE  /\ IsFiniteSet(Waiting')
         /\ Cardinality(Waiting') = Cardinality(Waiting) - 1
<1>1. Waiting' = Waiting \ {t} /\ t \in Waiting BY DEF Waiting, TypeOK
<1> QED BY <1>1, FS_RemoveElement DEF Counted

LEMMA WaitingNumber ==
  ASSUME Counted
  PROVE  /\ Cardinality(Waiting) \in Nat
         /\ Cardinality(Waiting) = 0 <=> \A t \in Threads : pc[t] # "wait"
<1>1. Cardinality(Waiting) \in Nat BY FS_CardinalityType DEF Counted
<1>2. Cardinality(Waiting) = 0 <=> Waiting = {} BY FS_EmptySet DEF Counted
<1> QED BY <1>1, <1>2 DEF Waiting

\* With a lock_count of -1 nobody is inside, nobody waits and nobody is woken.
LEMMA OpenIsFree ==
  ASSUME SectionInv, lock_count = -1
  PROVE  /\ \A t \in Threads : ~Inside(t) /\ pc[t] # "wait"
         /\ ~signaled
<1>1. Cardinality(Waiting) \in Nat
  BY WaitingNumber DEF SectionInv
<1>2. ASSUME NEW t \in Threads, Inside(t) PROVE FALSE
  <2>1. Part(t) = 0 /\ Cardinality(Waiting) = 0
    BY <1>1, <1>2 DEF SectionInv, Counted, Part, TypeOK
  <2>2. pc[t] = "wake" BY <1>2, <2>1 DEF Part, Inside, SectionInv, TypeOK
  <2>3. \E u \in Threads : pc[u] = "wait" BY <2>2 DEF SectionInv, SomebodyIsWoken
  <2> QED BY <2>1, <2>3, WaitingNumber DEF SectionInv
<1>3. Cardinality(Waiting) = 0 BY <1>1, <1>2 DEF SectionInv, Counted
<1>4. \A t \in Threads : pc[t] # "wait" BY <1>3, WaitingNumber DEF SectionInv
<1> QED BY <1>2, <1>4 DEF SectionInv, SomebodyIsWoken

-----------------------------------------------------------------------------
LEMMA InitInv == Init => SectionInv
<1> SUFFICES ASSUME Init PROVE SectionInv OBVIOUS
<1>a. \A t \in Threads : pc[t] = "guest" /\ depth[t] = 0 /\ spins[t] = 0 BY DEF Init
<1>1. TypeOK
  <2>1. 0 \in 0 .. MaxDepth /\ 0 \in 0 .. SpinCount BY CountAssumption
  <2>2. pc \in [Threads -> Places] BY DEF Init, Places
  <2>3. spins \in [Threads -> 0 .. SpinCount] /\ depth \in [Threads -> 0 .. MaxDepth]
    BY <2>1 DEF Init
  <2> QED BY <2>1, <2>2, <2>3 DEF Init, TypeOK
<1>2. ASSUME NEW t \in Threads PROVE ~Inside(t)
  <2>1. pc[t] = "guest" /\ depth[t] = 0 BY <1>a
  <2>2. ~(depth[t] > 0) BY <2>1
  <2>3. pc[t] \notin {"own", "uncount", "release", "wake"} BY <2>1
  <2> QED BY <2>2, <2>3 DEF Inside
<1>3. OneInside /\ SomebodyIsWoken /\ NoWaiterForgotten
  BY <1>2 DEF Init, OneInside, SomebodyIsWoken, NoWaiterForgotten
<1>n. \A t \in Threads : ~(depth[t] > 0)
  <2>1. ASSUME NEW t \in Threads PROVE ~(depth[t] > 0)
    <3>1. depth[t] = 0 BY <1>a
    <3> QED BY <3>1
  <2> QED BY <2>1
<1>4. OwnerAsserted BY <1>a, <1>n, ThreadAssumption DEF Init, OwnerAsserted
<1>5. Waiting = {} BY <1>a DEF Waiting
<1>6. Counted BY <1>2, <1>5, FS_EmptySet DEF Init, Counted
<1>7. Depths BY <1>a, <1>n DEF Depths
<1> QED BY <1>1, <1>3, <1>4, <1>6, <1>7 DEF SectionInv

(* Every action changes the place of one thread.  Waiting, the owner and the *)
(* counts follow from where it comes from and where it goes.                *)

LEMMA StepInv == SectionInv /\ [Next]_vars => SectionInv'
<1> SUFFICES ASSUME SectionInv, [Next]_vars PROVE SectionInv' OBVIOUS
<1> USE DEF SectionInv
<1>0. Cardinality(Waiting) \in Nat BY WaitingNumber
<1>1. CASE UNCHANGED vars
  <2>1. Waiting' = Waiting BY <1>1 DEF Waiting, vars
  <2> QED BY <1>1, <2>1 DEF vars, section, TypeOK, OneInside, Inside, OwnerAsserted,
        SomebodyIsWoken, NoWaiterForgotten, Counted, Part, Depths
<1>2. ASSUME NEW t \in Threads, Step(t) PROVE SectionInv'
  <2> USE DEF Goto, section
  <2>1. CASE Enter(t) \/ SpinFails(t) \/ TryAgain(t)
    <3>0. Waiting' = Waiting BY <2>1 DEF Enter, SpinFails, TryAgain, Waiting, TypeOK
    <3>2. TypeOK'
      BY <2>1, <1>0, <3>0, CountAssumption
         DEF Enter, SpinFails, TryAgain, TypeOK, Places, Depths, Counted, Inside, Part
    <3>3. OneInside'
      BY <2>1, <1>0, <3>0
         DEF Enter, SpinFails, TryAgain, OneInside, Depths, TypeOK, Inside
    <3>4. OwnerAsserted'
      BY <2>1, <1>0, <3>0, ThreadAssumption
         DEF Enter, SpinFails, TryAgain, OwnerAsserted, OneInside, Depths, TypeOK, Inside
    <3>5. SomebodyIsWoken' /\ NoWaiterForgotten'
      BY <2>1, <1>0, <3>0
         DEF Enter, SpinFails, TryAgain, SomebodyIsWoken, NoWaiterForgotten, OneInside,
             TypeOK, Depths, Inside
    <3>6. Counted'
      BY <2>1, <1>0, <3>0
         DEF Enter, SpinFails, TryAgain, Counted, OneInside, Depths, TypeOK, Inside, Part
    <3>7. Depths'
      BY <2>1, <1>0, <3>0, CountAssumption
         DEF Enter, SpinFails, TryAgain, Depths, OwnerAsserted, OneInside, TypeOK, Inside,
             Counted, Part
    <3> QED BY <3>2, <3>3, <3>4, <3>5, <3>6, <3>7
  <2>2. CASE TryEnter(t) /\ lock_count # -1
    <3>0. Waiting' = Waiting BY <2>2 DEF TryEnter, Waiting, TypeOK
    <3>2. TypeOK'
      BY <2>2, <1>0, <3>0, CountAssumption
         DEF TryEnter, TypeOK, Places, Depths, Counted, Inside, Part
    <3>3. OneInside' BY <2>2, <1>0, <3>0 DEF TryEnter, OneInside, Depths, TypeOK, Inside
    <3>4. OwnerAsserted'
      BY <2>2, <1>0, <3>0, ThreadAssumption
         DEF TryEnter, OwnerAsserted, OneInside, Depths, TypeOK, Inside
    <3>5. SomebodyIsWoken' /\ NoWaiterForgotten'
      BY <2>2, <1>0, <3>0
         DEF TryEnter, SomebodyIsWoken, NoWaiterForgotten, OneInside, TypeOK, Depths, Inside
    <3>6. Counted'
      BY <2>2, <1>0, <3>0
         DEF TryEnter, Counted, OneInside, Depths, TypeOK, Inside, Part
    <3>7. Depths'
      BY <2>2, <1>0, <3>0, CountAssumption
         DEF TryEnter, Depths, OwnerAsserted, OneInside, TypeOK, Inside, Counted, Part
    <3> QED BY <3>2, <3>3, <3>4, <3>5, <3>6, <3>7
  <2>3. CASE EnterAgain(t)
    <3>0. Waiting' = Waiting BY <2>3 DEF EnterAgain, Waiting, TypeOK
    <3>2. TypeOK'
      BY <2>3, <1>0, <3>0, CountAssumption
         DEF EnterAgain, TypeOK, Places, Depths, Counted, Inside, Part
    <3>3. OneInside' BY <2>3, <1>0, <3>0 DEF EnterAgain, OneInside, Depths, TypeOK, Inside
    <3>4. OwnerAsserted'
      BY <2>3, <1>0, <3>0, ThreadAssumption
         DEF EnterAgain, OwnerAsserted, OneInside, Depths, TypeOK, Inside
    <3>5. SomebodyIsWoken' /\ NoWaiterForgotten'
      BY <2>3, <1>0, <3>0
         DEF EnterAgain, SomebodyIsWoken, NoWaiterForgotten, OneInside, TypeOK, Depths,
             Inside
    <3>6. Counted'
      BY <2>3, <1>0, <3>0
         DEF EnterAgain, Counted, OneInside, Depths, TypeOK, Inside, Part
    <3>7. Depths'
      BY <2>3, <1>0, <3>0, CountAssumption
         DEF EnterAgain, Depths, OwnerAsserted, OneInside, TypeOK, Inside, Counted, Part
    <3> QED BY <3>2, <3>3, <3>4, <3>5, <3>6, <3>7
  <2>4. CASE SpinSucceeds(t)
    <3>0. /\ Waiting' = Waiting
        /\ \A u \in Threads : ~Inside(u) /\ pc[u] # "wait"
        /\ ~signaled
      BY <2>4, OpenIsFree DEF SpinSucceeds, Waiting, TypeOK
    <3>2. TypeOK'
      BY <2>4, <1>0, <3>0, CountAssumption
         DEF SpinSucceeds, TypeOK, Places, Depths, Counted, Inside, Part
    <3>3. OneInside' BY <2>4, <1>0, <3>0 DEF SpinSucceeds, OneInside, Depths, TypeOK, Inside
    <3>4. OwnerAsserted'
      BY <2>4, <1>0, <3>0, ThreadAssumption
         DEF SpinSucceeds, OwnerAsserted, OneInside, Depths, TypeOK, Inside
    <3>5. SomebodyIsWoken' /\ NoWaiterForgotten'
      BY <2>4, <1>0, <3>0
         DEF SpinSucceeds, SomebodyIsWoken, NoWaiterForgotten, OneInside, TypeOK, Depths,
             Inside
    <3>6. Counted'
      BY <2>4, <1>0, <3>0
         DEF SpinSucceeds, Counted, OneInside, Depths, TypeOK, Inside, Part
    <3>7. Depths'
      BY <2>4, <1>0, <3>0, CountAssumption
         DEF SpinSucceeds, Depths, OwnerAsserted, OneInside, TypeOK, Inside, Counted, Part
    <3> QED BY <3>2, <3>3, <3>4, <3>5, <3>6, <3>7
  <2>5. CASE TryEnter(t) /\ lock_count = -1
    <3>0. /\ Waiting' = Waiting
        /\ \A u \in Threads : ~Inside(u) /\ pc[u] # "wait"
        /\ ~signaled
      BY <2>5, OpenIsFree DEF TryEnter, Waiting, TypeOK
    <3>2. TypeOK'
      BY <2>5, <1>0, <3>0, CountAssumption
         DEF TryEnter, TypeOK, Places, Depths, Counted, Inside, Part
    <3>3. OneInside' BY <2>5, <1>0, <3>0 DEF TryEnter, OneInside, Depths, TypeOK, Inside
    <3>4. OwnerAsserted'
      BY <2>5, <1>0, <3>0, ThreadAssumption
         DEF TryEnter, OwnerAsserted, OneInside, Depths, TypeOK, Inside
    <3>5. SomebodyIsWoken' /\ NoWaiterForgotten'
      BY <2>5, <1>0, <3>0
         DEF TryEnter, SomebodyIsWoken, NoWaiterForgotten, OneInside, TypeOK, Depths, Inside
    <3>6. Counted'
      BY <2>5, <1>0, <3>0
         DEF TryEnter, Counted, OneInside, Depths, TypeOK, Inside, Part
    <3>7. Depths'
      BY <2>5, <1>0, <3>0, CountAssumption
         DEF TryEnter, Depths, OwnerAsserted, OneInside, TypeOK, Inside, Counted, Part
    <3> QED BY <3>2, <3>3, <3>4, <3>5, <3>6, <3>7
  <2>6. CASE Count(t) /\ lock_count = -1
    <3>0. /\ Waiting' = Waiting
        /\ \A u \in Threads : ~Inside(u) /\ pc[u] # "wait"
        /\ ~signaled
      BY <2>6, OpenIsFree DEF Count, Waiting, TypeOK
    <3>2. TypeOK'
      BY <2>6, <1>0, <3>0, CountAssumption
         DEF Count, TypeOK, Places, Depths, Counted, Inside, Part
    <3>3. OneInside' BY <2>6, <1>0, <3>0 DEF Count, OneInside, Depths, TypeOK, Inside
    <3>4. OwnerAsserted'
      BY <2>6, <1>0, <3>0, ThreadAssumption
         DEF Count, OwnerAsserted, OneInside, Depths, TypeOK, Inside
    <3>5. SomebodyIsWoken' /\ NoWaiterForgotten'
      BY <2>6, <1>0, <3>0
         DEF Count, SomebodyIsWoken, NoWaiterForgotten, OneInside, TypeOK, Depths, Inside
    <3>6. Counted'
      BY <2>6, <1>0, <3>0
         DEF Count, Counted, OneInside, Depths, TypeOK, Inside, Part
    <3>7. Depths'
      BY <2>6, <1>0, <3>0, CountAssumption
         DEF Count, Depths, OwnerAsserted, OneInside, TypeOK, Inside, Counted, Part
    <3> QED BY <3>2, <3>3, <3>4, <3>5, <3>6, <3>7
  <2>7. CASE Count(t) /\ lock_count # -1
    <3>c. lock_count + 1 # 0 BY <2>7 DEF TypeOK
    <3>a. pc[t] = "spin" /\ pc' = [pc EXCEPT ![t] = "wait"] BY <2>7, <3>c DEF Count
    <3>0. IsFiniteSet(Waiting') /\ Cardinality(Waiting') = Cardinality(Waiting) + 1
      BY <3>a, WaitingMore
    <3>b. signaled \/ \E u \in Threads : Inside(u)
      BY <2>7, WaitingNumber DEF Counted, NoWaiterForgotten, TypeOK
    <3>2. TypeOK'
      BY <2>7, <1>0, <3>0, CountAssumption
         DEF Count, TypeOK, Places, Depths, Counted, Inside, Part
    <3>3. OneInside' BY <2>7, <1>0, <3>0 DEF Count, OneInside, Depths, TypeOK, Inside
    <3>4. OwnerAsserted'
      BY <2>7, <1>0, <3>0, ThreadAssumption
         DEF Count, OwnerAsserted, OneInside, Depths, TypeOK, Inside
    <3>5. SomebodyIsWoken' /\ NoWaiterForgotten'
      BY <2>7, <3>a, <3>b
         DEF Count, SomebodyIsWoken, NoWaiterForgotten, OneInside, TypeOK, Depths, Inside
    <3>6. Counted'
      BY <2>7, <1>0, <3>0
         DEF Count, Counted, OneInside, Depths, TypeOK, Inside, Part
    <3>7. Depths'
      BY <2>7, <1>0, <3>0, CountAssumption
         DEF Count, Depths, OwnerAsserted, OneInside, TypeOK, Inside, Counted, Part
    <3> QED BY <3>2, <3>3, <3>4, <3>5, <3>6, <3>7
  <2>8. CASE Wait(t)
    <3>0. IsFiniteSet(Waiting') /\ Cardinality(Waiting') = Cardinality(Waiting) - 1
      BY <2>8, WaitingFewer DEF Wait
    <3>2. TypeOK'
      BY <2>8, <1>0, <3>0, CountAssumption
         DEF Wait, TypeOK, Places, Depths, Counted, Inside, Part
    <3>3. OneInside' BY <2>8, <1>0, <3>0 DEF Wait, OneInside, Depths, TypeOK, Inside
    <3>4. OwnerAsserted'
      BY <2>8, <1>0, <3>0, ThreadAssumption
         DEF Wait, OwnerAsserted, OneInside, Depths, TypeOK, Inside
    <3>5. SomebodyIsWoken' /\ NoWaiterForgotten'
      BY <2>8, <1>0, <3>0
         DEF Wait, SomebodyIsWoken, NoWaiterForgotten, OneInside, TypeOK, Depths, Inside
    <3>6. Counted'
      BY <2>8, <1>0, <3>0
         DEF Wait, Counted, OneInside, Depths, TypeOK, Inside, Part
    <3>7. Depths'
      BY <2>8, <1>0, <3>0, CountAssumption
         DEF Wait, Depths, OwnerAsserted, OneInside, TypeOK, Inside, Counted, Part
    <3> QED BY <3>2, <3>3, <3>4, <3>5, <3>6, <3>7
  <2>9. CASE Own(t)
    <3>0. Waiting' = Waiting BY <2>9 DEF Own, Waiting, TypeOK
    <3>2. TypeOK'
      BY <2>9, <1>0, <3>0, CountAssumption
         DEF Own, TypeOK, Places, Depths, Counted, Inside, Part
    <3>3. OneInside' BY <2>9, <1>0, <3>0 DEF Own, OneInside, Depths, TypeOK, Inside
    <3>4. OwnerAsserted'
      BY <2>9, <1>0, <3>0, ThreadAssumption
         DEF Own, OwnerAsserted, OneInside, Depths, TypeOK, Inside
    <3>5. SomebodyIsWoken' /\ NoWaiterForgotten'
      BY <2>9, <1>0, <3>0
         DEF Own, SomebodyIsWoken, NoWaiterForgotten, OneInside, TypeOK, Depths, Inside
    <3>6. Counted' BY <2>9, <1>0, <3>0 DEF Own, Counted, OneInside, Depths, TypeOK, Inside, Part
    <3>7. Depths'
      BY <2>9, <1>0, <3>0, CountAssumption
         DEF Own, Depths, OwnerAsserted, OneInside, TypeOK, Inside, Counted, Part
    <3> QED BY <3>2, <3>3, <3>4, <3>5, <3>6, <3>7
  <2>10. CASE Leave(t)
    <3>0. Waiting' = Waiting BY <2>10 DEF Leave, Waiting, TypeOK
    <3>2. TypeOK'
      BY <2>10, <1>0, <3>0, CountAssumption
         DEF Leave, TypeOK, Places, Depths, Counted, Inside, Part
    <3>3. OneInside' BY <2>10, <1>0, <3>0 DEF Leave, OneInside, Depths, TypeOK, Inside
    <3>4. OwnerAsserted'
      BY <2>10, <1>0, <3>0, ThreadAssumption
         DEF Leave, OwnerAsserted, OneInside, Depths, TypeOK, Inside
    <3>5. SomebodyIsWoken' /\ NoWaiterForgotten'
      BY <2>10, <1>0, <3>0
         DEF Leave, SomebodyIsWoken, NoWaiterForgotten, OneInside, TypeOK, Depths, Inside
    <3>6. Counted'
      BY <2>10, <1>0, <3>0
         DEF Leave, Counted, OneInside, Depths, TypeOK, Inside, Part
    <3>7. Depths'
      BY <2>10, <1>0, <3>0, CountAssumption
         DEF Leave, Depths, OwnerAsserted, OneInside, TypeOK, Inside, Counted, Part
    <3> QED BY <3>2, <3>3, <3>4, <3>5, <3>6, <3>7
  <2>11. CASE Uncount(t)
    <3>0. Waiting' = Waiting BY <2>11 DEF Uncount, Waiting, TypeOK
    <3>2. TypeOK'
      BY <2>11, <1>0, <3>0, CountAssumption
         DEF Uncount, TypeOK, Places, Depths, Counted, Inside, Part
    <3>3. OneInside' BY <2>11, <1>0, <3>0 DEF Uncount, OneInside, Depths, TypeOK, Inside
    <3>4. OwnerAsserted'
      BY <2>11, <1>0, <3>0, ThreadAssumption
         DEF Uncount, OwnerAsserted, OneInside, Depths, TypeOK, Inside
    <3>5. SomebodyIsWoken' /\ NoWaiterForgotten'
      BY <2>11, <1>0, <3>0
         DEF Uncount, SomebodyIsWoken, NoWaiterForgotten, OneInside, TypeOK, Depths, Inside
    <3>6. Counted'
      BY <2>11, <1>0, <3>0
         DEF Uncount, Counted, OneInside, Depths, TypeOK, Inside, Part
    <3>7. Depths'
      BY <2>11, <1>0, <3>0, CountAssumption
         DEF Uncount, Depths, OwnerAsserted, OneInside, TypeOK, Inside, Counted, Part
    <3> QED BY <3>2, <3>3, <3>4, <3>5, <3>6, <3>7
  <2>12. CASE Release(t)
    <3>a. lock_count - 1 = -1 <=> \A u \in Threads : pc[u] # "wait"
      <4>1. lock_count = Cardinality(Waiting)
        BY <2>12, <1>0 DEF Release, Counted, Inside, Part, Depths, TypeOK
      <4> QED BY <4>1, <1>0, WaitingNumber
    <3>0. Waiting' = Waiting BY <2>12 DEF Release, Waiting, TypeOK
    <3>2. TypeOK'
      BY <2>12, <1>0, <3>0, CountAssumption
         DEF Release, TypeOK, Places, Depths, Counted, Inside, Part
    <3>3. OneInside' BY <2>12, <1>0, <3>0 DEF Release, OneInside, Depths, TypeOK, Inside
    <3>4. OwnerAsserted'
      BY <2>12, <1>0, <3>0, ThreadAssumption
         DEF Release, OwnerAsserted, OneInside, Depths, TypeOK, Inside
    <3>5. SomebodyIsWoken' /\ NoWaiterForgotten'
      BY <2>12, <3>a
         DEF Release, SomebodyIsWoken, NoWaiterForgotten, OneInside, TypeOK, Depths, Inside
    <3>6. Counted'
      BY <2>12, <1>0, <3>0
         DEF Release, Counted, OneInside, Depths, TypeOK, Inside, Part
    <3>7. Depths'
      BY <2>12, <1>0, <3>0, CountAssumption
         DEF Release, Depths, OwnerAsserted, OneInside, TypeOK, Inside, Counted, Part
    <3> QED BY <3>2, <3>3, <3>4, <3>5, <3>6, <3>7
  <2>13. CASE Wake(t)
    <3>0. Waiting' = Waiting BY <2>13 DEF Wake, Waiting, TypeOK
    <3>2. TypeOK'
      BY <2>13, <1>0, <3>0, CountAssumption
         DEF Wake, TypeOK, Places, Depths, Counted, Inside, Part
    <3>3. OneInside' BY <2>13, <1>0, <3>0 DEF Wake, OneInside, Depths, TypeOK, Inside
    <3>4. OwnerAsserted'
      BY <2>13, <1>0, <3>0, ThreadAssumption
         DEF Wake, OwnerAsserted, OneInside, Depths, TypeOK, Inside
    <3>5. SomebodyIsWoken' /\ NoWaiterForgotten'
      BY <2>13, <1>0, <3>0
         DEF Wake, SomebodyIsWoken, NoWaiterForgotten, OneInside, TypeOK, Depths, Inside
    <3>6. Counted'
      BY <2>13, <1>0, <3>0
         DEF Wake, Counted, OneInside, Depths, TypeOK, Inside, Part
    <3>7. Depths'
      BY <2>13, <1>0, <3>0, CountAssumption
         DEF Wake, Depths, OwnerAsserted, OneInside, TypeOK, Inside, Counted, Part
    <3> QED BY <3>2, <3>3, <3>4, <3>5, <3>6, <3>7
  <2> QED
    BY <1>2, <2>1, <2>2, <2>3, <2>4, <2>5, <2>6, <2>7, <2>8, <2>9, <2>10, <2>11, <2>12,
       <2>13
       DEF Step, Entering, Leaving
<1> QED BY <1>1, <1>2 DEF Next

LEMMA Invariance == Spec => []SectionInv
BY InitInv, StepInv, PTL DEF Spec

-----------------------------------------------------------------------------
(* The properties. *)

\* The counts and the places stay what they are, lock_count at least -1.
THEOREM SectionTypes == Spec => []TypeOK
<1>1. SectionInv => TypeOK BY DEF SectionInv
<1> QED BY Invariance, <1>1, PTL

\* No two threads are ever inside, and none while the event lets one in.
THEOREM OneIsInside == Spec => []OneInside
<1>1. SectionInv => OneInside BY DEF SectionInv
<1> QED BY Invariance, <1>1, PTL

\* The assertions of Enter and of Leave about the owner hold.
THEOREM OwnersAreRight == Spec => []OwnerAsserted
<1>1. SectionInv => OwnerAsserted BY DEF SectionInv
<1> QED BY Invariance, <1>1, PTL

\* The event is signaled only for a thread that waits.
THEOREM WakesSomebody == Spec => []SomebodyIsWoken
<1>1. SectionInv => SomebodyIsWoken BY DEF SectionInv
<1> QED BY Invariance, <1>1, PTL

\* No thread waits for a section that nobody has or is being given.
THEOREM NobodyIsForgotten == Spec => []NoWaiterForgotten
<1>1. SectionInv => NoWaiterForgotten BY DEF SectionInv
<1> QED BY Invariance, <1>1, PTL

-----------------------------------------------------------------------------
(* Refinement: a thread enters the lock when it has become the owner or has  *)
(* counted itself again, and leaves it with its first step of Leave.        *)

Holder == IF \E t \in Threads : depth[t] > 0 THEN CHOOSE t \in Threads : depth[t] > 0
          ELSE NoThread

LEMMA HolderIsInside ==
  ASSUME OneInside
  PROVE  /\ \A t \in Threads : depth[t] > 0 => Holder = t
         /\ (\A t \in Threads : ~(depth[t] > 0)) => Holder = NoThread
<1>1. ASSUME NEW t \in Threads, depth[t] > 0 PROVE Holder = t
  <2>1. \A u \in Threads : depth[u] > 0 => u = t BY <1>1 DEF OneInside, Inside
  <2> QED BY <1>1, <2>1 DEF Holder
<1> QED BY <1>1 DEF Holder

LEMMA LockInit == Init => Lock!Init
<1> SUFFICES ASSUME Init PROVE Lock!Init OBVIOUS
<1>1. SectionInv BY InitInv
<1>2. \A t \in Threads : ~(depth[t] > 0)
  <2>1. ASSUME NEW t \in Threads PROVE ~(depth[t] > 0)
    <3>1. depth[t] = 0 BY DEF Init
    <3> QED BY <3>1
  <2> QED BY <2>1
<1>3. Holder = NoThread BY <1>1, <1>2, HolderIsInside DEF SectionInv
<1> QED BY <1>3 DEF Init, Lock!Init, Holder

LEMMA LockStep == SectionInv /\ SectionInv' /\ [Next]_vars => [Lock!Next]_<<Holder, depth>>
<1> SUFFICES ASSUME SectionInv, SectionInv', [Next]_vars
             PROVE  [Lock!Next]_<<Holder, depth>>
  OBVIOUS
<1>1. /\ \A t \in Threads : depth[t] > 0 => Holder = t
      /\ (\A t \in Threads : ~(depth[t] > 0)) => Holder = NoThread
  BY HolderIsInside DEF SectionInv
<1>2. /\ \A t \in Threads : depth'[t] > 0 => Holder' = t
      /\ (\A t \in Threads : ~(depth'[t] > 0)) => Holder' = NoThread
  <2>1. OneInside' BY DEF SectionInv
  <2>2. ASSUME NEW t \in Threads, depth'[t] > 0 PROVE Holder' = t
    <3>1. \A u \in Threads : depth'[u] > 0 => u = t BY <2>1, <2>2 DEF OneInside, Inside
    <3> QED BY <2>2, <3>1 DEF Holder
  <2> QED BY <2>2 DEF Holder
<1>3. CASE UNCHANGED depth BY <1>3 DEF Holder
<1>4. ASSUME NEW t \in Threads, Own(t) PROVE Lock!Enter(t)
  <2>1. \A u \in Threads : ~(depth[u] > 0)
    BY <1>4 DEF Own, Goto, SectionInv, OneInside, Inside, Depths, TypeOK
  <2>2. depth' = [depth EXCEPT ![t] = depth[t] + 1] /\ depth'[t] > 0
    BY <1>4 DEF Own, SectionInv, TypeOK
  <2> QED BY <1>1, <1>2, <2>1, <2>2 DEF Lock!Enter, Holder
<1>5. ASSUME NEW t \in Threads, EnterAgain(t) PROVE Lock!Enter(t)
  <2>1. depth[t] > 0 BY <1>5 DEF EnterAgain, Goto, SectionInv, Depths
  <2>2. depth' = [depth EXCEPT ![t] = depth[t] + 1] /\ depth'[t] > 0
    BY <1>5 DEF EnterAgain, SectionInv, TypeOK
  <2> QED BY <1>1, <1>2, <2>1, <2>2 DEF Lock!Enter, Holder
<1>6. ASSUME NEW t \in Threads, Leave(t) PROVE Lock!Leave(t)
  <2>1. depth[t] > 0 /\ depth' = [depth EXCEPT ![t] = depth[t] - 1] BY <1>6 DEF Leave
  <2>2. Holder = t BY <1>1, <2>1
  <2>3. Holder' = IF depth[t] = 1 THEN NoThread ELSE t
    <3>1. \A u \in Threads : depth[u] > 0 => u = t BY <1>1, <2>2
    <3>2. CASE depth[t] = 1
      <4>1. \A u \in Threads : ~(depth'[u] > 0)
        BY <2>1, <3>1, <3>2 DEF SectionInv, TypeOK
      <4> QED BY <1>2, <3>2, <4>1
    <3>3. CASE depth[t] # 1
      <4>1. depth'[t] > 0 BY <2>1, <3>3 DEF SectionInv, TypeOK
      <4> QED BY <1>2, <3>3, <4>1
    <3> QED BY <3>2, <3>3
  <2> QED BY <2>1, <2>2, <2>3 DEF Lock!Leave, Holder
<1>7. ASSUME NEW t \in Threads, Step(t), ~Own(t), ~EnterAgain(t), ~Leave(t)
      PROVE  UNCHANGED depth
  BY <1>7 DEF Step, Entering, Leaving, Enter, TryEnter, SpinSucceeds, SpinFails, Count, Wait,
              TryAgain, Uncount, Release, Wake
<1>8. CASE UNCHANGED vars BY <1>3, <1>8 DEF vars
<1> QED BY <1>3, <1>4, <1>5, <1>6, <1>7, <1>8 DEF Next, Lock!Next

\* A critical section with all its steps implements a recursive lock.
THEOREM SectionIsLock == Spec => ActsAsLock
BY LockInit, LockStep, Invariance, PTL DEF Spec, ActsAsLock, Lock!Spec, Lock!vars, Holder

-----------------------------------------------------------------------------
(***************************************************************************)
(* The I/O completion port.                                                *)
(*                                                                         *)
(* What the queue holds is counted by the semaphore, or is stranded, or    *)
(* belongs to a thread that the semaphore has let through, or has been     *)
(* pushed by the thread that has the mutex (PortCounted): what is stranded *)
(* changes only with a release that finds no room (PortStep).              *)
(***************************************************************************)

Popping == At("pop")
Releasing == IF mutex = NoUser THEN 0 ELSE 1
Spare == Len(notifications) - notification_semaphore - Cardinality(Popping) - Releasing

PortTypes ==
  /\ notifications \in Seq(Nat)
  /\ notification_semaphore \in Nat /\ posts \in Nat
  /\ client \in [Users -> {"idle", "release", "pop"}]
  /\ IsFiniteSet(Popping)

PortCounts ==
  /\ \A c \in Users : client[c] = "release" <=> mutex = c
  /\ mutex \in Users \cup {NoUser}
  /\ Spare >= 0

PortInv == PortTypes /\ PortCounts

\* One more is stranded, as the queue is full.
OneMoreStranded ==
  Spare' = Spare + 1 /\ Len(notifications) - Cardinality(Popping) > kMaxNotifications

(* Every action moves one thread, into or out of Popping or past the mutex.   *)

LEMMA PortStep ==
  PortInv /\ [PortNext]_portVars => PortInv' /\ (Spare' = Spare \/ OneMoreStranded)
<1> SUFFICES ASSUME PortInv, [PortNext]_portVars
             PROVE  PortInv' /\ (Spare' = Spare \/ OneMoreStranded)
  OBVIOUS
<1> USE PortAssumption DEF PortInv, PortTypes, PortCounts, Releasing, Spare, OneMoreStranded
<1>0. Cardinality(Popping) \in Nat BY FS_CardinalityType
<1>1. CASE UNCHANGED portVars
  BY <1>1 DEF portVars, Popping, At
<1>2. ASSUME NEW c \in Users, PushNotification(c) PROVE PortInv' /\ Spare' = Spare
  <2>1. Popping' = Popping BY <1>2 DEF PushNotification, UserGoes, Popping, At
  <2>2. /\ notifications' \in Seq(Nat)
        /\ Len(notifications') = Len(notifications) + 1
    BY <1>2 DEF PushNotification
  <2> QED BY <1>2, <2>1, <2>2, <1>0 DEF PushNotification, UserGoes
<1>3. ASSUME NEW c \in Users, ReleaseNotification(c)
      PROVE  PortInv' /\ (Spare' = Spare \/ OneMoreStranded)
  <2>1. Popping' = Popping BY <1>3 DEF ReleaseNotification, UserGoes, Popping, At
  <2>2. mutex = c /\ mutex' = NoUser BY <1>3 DEF ReleaseNotification, UserGoes
  <2>3. Cardinality(Popping') = Cardinality(Popping) /\ Releasing = 1 /\ Releasing' = 0
    BY <2>1, <2>2
  <2>4. CASE HasRoom BY <1>0, <1>3, <2>1, <2>2, <2>3, <2>4 DEF ReleaseNotification, UserGoes
  <2>5. CASE ~HasRoom
    <3>1. notification_semaphore >= kMaxNotifications BY <2>5 DEF HasRoom
    <3>2. notification_semaphore' = notification_semaphore /\ notifications' = notifications
      BY <1>3, <2>5 DEF ReleaseNotification
    <3>3. Spare' = Spare + 1 BY <1>0, <2>3, <3>2
    <3>4. Len(notifications) - Cardinality(Popping) > kMaxNotifications
      BY <1>0, <2>3, <3>1
    <3> QED BY <1>0, <1>3, <2>1, <2>2, <3>2, <3>3, <3>4 DEF ReleaseNotification, UserGoes
  <2> QED BY <2>4, <2>5
<1>4. ASSUME NEW c \in Users, WaitForNotification(c) PROVE PortInv' /\ Spare' = Spare
  <2>1. Popping' = Popping \cup {c} /\ c \notin Popping
    BY <1>4 DEF WaitForNotification, UserGoes, Popping, At
  <2>2. IsFiniteSet(Popping') /\ Cardinality(Popping') = Cardinality(Popping) + 1
    BY <2>1, FS_AddElement
  <2> QED BY <1>4, <2>2, <1>0 DEF WaitForNotification, UserGoes
<1>5. ASSUME NEW c \in Users, PopNotification(c) PROVE PortInv' /\ Spare' = Spare
  <2>1. Popping' = Popping \ {c} /\ c \in Popping
    BY <1>5 DEF PopNotification, UserGoes, Popping, At
  <2>2. IsFiniteSet(Popping') /\ Cardinality(Popping') = Cardinality(Popping) - 1
    BY <2>1, FS_RemoveElement
  <2>3. /\ notifications' \in Seq(Nat)
        /\ Len(notifications') = Len(notifications) - 1
    BY <1>5 DEF PopNotification
  <2> QED BY <1>5, <2>2, <2>3, <1>0 DEF PopNotification, UserGoes
<1> QED BY <1>1, <1>2, <1>3, <1>4, <1>5 DEF PortNext

LEMMA PortCounted == PortInv => Stranded = Spare
<1> SUFFICES ASSUME PortInv PROVE Stranded = Spare OBVIOUS
<1> USE PortAssumption DEF PortInv, PortTypes, PortCounts, Stranded, Spare
<1>0. Cardinality(Popping) \in Nat BY FS_CardinalityType
<1>1. CASE mutex = NoUser
  <2>1. At("pop") \union At("release") = Popping BY <1>1 DEF At, Popping
  <2>2. Cardinality(At("pop") \union At("release")) = Cardinality(Popping) BY Zenon, <2>1
  <2> QED BY <1>0, <1>1, <2>2 DEF Releasing
<1>2. CASE mutex # NoUser
  <2>1. At("pop") \union At("release") = Popping \cup {mutex} /\ mutex \notin Popping
    BY <1>2 DEF At, Popping
  <2>2. Cardinality(At("pop") \union At("release")) = Cardinality(Popping) + 1
    BY <2>1, FS_AddElement
  <2> QED BY <1>0, <1>2, <2>2 DEF Releasing
<1> QED BY <1>1, <1>2

\* A thread that the semaphore let through finds a notification; and a notification is
\* stranded in the queue only by a post that finds as many as the semaphore's maximum
\* there that nobody has been let through to.
THEOREM StrandedByOneTooMany == PortSpec => StrandedOnlyIfFull
<1>1. PortInit => PortInv
  <2> SUFFICES ASSUME PortInit PROVE PortInv OBVIOUS
  <2>1. Popping = {} BY DEF PortInit, Popping, At
  <2>2. IsFiniteSet(Popping) /\ Cardinality(Popping) = 0 BY <2>1, FS_EmptySet
  <2> QED BY <2>2, PortAssumption
          DEF PortInit, PortInv, PortTypes, PortCounts, Releasing, Spare
<1>2. PortInv => Stranded >= 0
  BY PortCounted DEF PortInv, PortCounts
<1> DEFINE OneByAFullQueue ==
      Stranded' # Stranded =>
        /\ Stranded' = Stranded + 1
        /\ Len(notifications) - Cardinality(At("pop")) > kMaxNotifications
<1>3. (PortInv => Stranded = Spare)'
  <2>1. PortInv => Stranded = Spare BY PortCounted
  <2> QED BY <2>1, PTL
<1>4. PortInv /\ [PortNext]_portVars => [OneByAFullQueue]_portVars
  <2> SUFFICES ASSUME PortInv, [PortNext]_portVars PROVE OneByAFullQueue OBVIOUS
  <2>1. PortInv' BY PortStep
  <2>2. Stranded = Spare BY PortCounted
  <2>3. Stranded' = Spare' BY <2>1, <1>3
  <2> QED BY PortStep, <2>1, <2>2, <2>3 DEF OneMoreStranded, Popping
<1> QED BY <1>1, <1>2, <1>4, PortStep, PTL DEF PortSpec, StrandedOnlyIfFull

-----------------------------------------------------------------------------
(* The audio system. *)

(* The inductive invariant: the types, what is true of a client whether it  *)
(* is registered or not, and the protocol of a pause.                       *)

Types ==
  /\ in_use \in [Clients -> BOOLEAN] /\ overdue \in [Clients -> BOOLEAN]
  /\ semaphore \in [Clients -> Nat] /\ frames \in [Clients -> Nat]
  /\ worker \in {"loop", "wait", "shutdown", "pause", "paused", "read", "callback", "exited"}
  /\ index \in Clients
  /\ worker_running \in BOOLEAN /\ paused \in BOOLEAN
  /\ shutdown_event \in BOOLEAN /\ resume_event \in BOOLEAN /\ pause_fence \in BOOLEAN
  /\ control \in {"running", "setShutdown", "awaitFence", "paused", "setResume",
                  "setShutdownLast", "join", "shutDown"}

\* What keeps OnlyOverdueLacksRoom true when a client takes an index over.
NothingLeftOver ==
  \A i \in Clients :
    /\ semaphore[i] <= queued_frames
    /\ ~in_use[i] => frames[i] = 0

\* An event that asks for a pause or the end has not been taken yet by the
\* worker; each signal is pending for at most one of the two threads.
Handshake ==
  /\ paused => control \in {"setShutdown", "awaitFence", "paused", "setShutdownLast", "join"}
  /\ shutdown_event =>
       /\ control \in {"awaitFence", "join", "shutDown"}
       /\ worker \notin {"shutdown", "pause"} /\ ~pause_fence
       /\ worker = "paused" => resume_event \/ (paused /\ control = "join")
  /\ worker = "shutdown" => control \in {"awaitFence", "join", "shutDown"}
  /\ worker = "pause" => control = "awaitFence"
  /\ worker = "paused" =>
       paused \/ resume_event \/ control = "setResume"
  /\ pause_fence => worker = "paused" /\ control = "awaitFence" /\ ~resume_event
  /\ resume_event => worker = "paused"
  /\ control \in {"paused", "setResume"} \/ (paused /\ control = "setShutdownLast") =>
       worker = "paused" /\ ~resume_event /\ ~shutdown_event /\ ~pause_fence
  /\ control \in {"setShutdown", "awaitFence"} => paused
  /\ control = "setShutdown" /\ worker = "paused" => resume_event
  /\ control \in {"running", "setResume"} => ~paused
  /\ paused /\ control = "join" => worker = "paused" /\ ~resume_event /\ ~pause_fence

ClientInv == Types /\ NothingLeftOver /\ OnlyOverdueLacksRoom

-----------------------------------------------------------------------------
(* The clients. *)

LEMMA InitClients ==
  ASSUME AudioInit
  PROVE  ClientInv
<1> USE FrameAssumption
<1>1. Types BY DEF AudioInit, Types
<1>2. ASSUME NEW i \in Clients
      PROVE  semaphore[i] = 0 /\ frames[i] = 0 /\ in_use[i] = FALSE
  BY DEF AudioInit
<1>3. NothingLeftOver
  <2>1. ASSUME NEW i \in Clients PROVE semaphore[i] <= queued_frames
    <3>1. semaphore[i] = 0 BY <1>2
    <3> QED BY <3>1
  <2> QED BY <1>2, <2>1 DEF NothingLeftOver
<1>4. OnlyOverdueLacksRoom BY <1>2 DEF OnlyOverdueLacksRoom
<1> QED BY <1>1, <1>3, <1>4 DEF ClientInv

LEMMA HostKeepsClients ==
  ASSUME ClientInv,
         Finish \/ Pause \/ Resume \/ Shutdown \/ UNCHANGED audioVars
  PROVE  ClientInv'
<1> USE DEF ClientInv, Types, NothingLeftOver, OnlyOverdueLacksRoom, Serves, ControlGoes, clients,
            signals, flags
<1>1. CASE Finish
  BY <1>1
     DEF Finish, SetShutdown, WaitForFence, SetResume, SetShutdownLast, Join
<1>2. CASE Pause \/ Resume \/ Shutdown BY <1>2 DEF Pause, Resume, Shutdown
<1>3. CASE UNCHANGED audioVars BY <1>3 DEF audioVars
<1> QED BY <1>1, <1>2, <1>3

LEMMA WorkKeepsClients ==
  ASSUME ClientInv, Work \/ WakeForShutdown
  PROVE  ClientInv'
<1> USE FrameAssumption DEF ClientInv, Types, NothingLeftOver, OnlyOverdueLacksRoom, Serves,
            WorkerGoes, clients, signals, flags
<1>1. CASE Loop BY <1>1 DEF Loop
<1>2. CASE WakeForClient BY <1>2 DEF WakeForClient, Charged
<1>3. CASE WakeForShutdown BY <1>3 DEF WakeForShutdown
<1>4. CASE SeePaused BY <1>4 DEF SeePaused
<1>5. CASE SignalPaused BY <1>5 DEF SignalPaused
<1>6. CASE WakeForResume BY <1>6 DEF WakeForResume
<1>7. CASE ReadClient BY <1>7 DEF ReadClient
<1>8. CASE Callback BY <1>8 DEF Callback
<1> QED BY <1>1, <1>2, <1>3, <1>4, <1>5, <1>6, <1>7, <1>8 DEF Work

LEMMA RegistrationKeepsClients ==
  ASSUME ClientInv,
         RegisterClient \/ \E i \in Clients : UnregisterClient(i) \/ Play(i)
  PROVE  ClientInv'
<1> USE FrameAssumption
   DEF ClientInv, Types, NothingLeftOver, OnlyOverdueLacksRoom, Serves, signals, flags
<1>1. CASE RegisterClient
  <2>1. PICK i \in Free :
          /\ ReleaseSemaphore(i, queued_frames)
          /\ \/ /\ in_use' = [in_use EXCEPT ![i] = TRUE]
                /\ overdue' = [overdue EXCEPT ![i] = Serves(i)]
             \/ UNCHANGED <<in_use, overdue>>
    BY <1>1 DEF RegisterClient
  <2>2. i \in Clients /\ frames[i] = 0 BY DEF Free
  <2>3. semaphore' \in [Clients -> Nat] /\ \A j \in Clients : semaphore'[j] <= queued_frames
    BY <2>1, <2>2 DEF ReleaseSemaphore
  <2>4. \A j \in Clients \ {i} : semaphore'[j] = semaphore[j] BY <2>1, <2>2 DEF ReleaseSemaphore
  <2>5. UNCHANGED <<frames, worker, index, flags, signals, control>>
    BY <1>1 DEF RegisterClient
  <2>6. CASE UNCHANGED <<in_use, overdue>>
    <3>1. ~in_use[i] BY DEF Free
    <3> QED BY <2>2, <2>3, <2>4, <2>5, <2>6, <3>1
  <2>7. CASE /\ in_use' = [in_use EXCEPT ![i] = TRUE]
             /\ overdue' = [overdue EXCEPT ![i] = Serves(i)]
    <3>1. Types' /\ NothingLeftOver' BY <2>2, <2>3, <2>5, <2>7
    <3>2. ASSUME NEW j \in Clients, in_use'[j]
          PROVE  semaphore'[j] + frames'[j] + (IF Serves(j)' THEN 1 ELSE 0)
                   <= queued_frames + (IF overdue'[j] THEN 1 ELSE 0)
      <4>1. CASE j = i
        <5>1. overdue'[j] = Serves(j) BY <2>2, <2>7, <4>1
        <5>2. Serves(j)' = Serves(j) BY <2>5
        <5>3. semaphore'[j] \in Nat /\ semaphore'[j] <= queued_frames /\ frames'[j] = 0
          BY <2>2, <2>3, <2>5, <4>1
        <5>4. overdue'[j] = Serves(j)' BY <5>1, <5>2
        <5> HIDE DEF Serves, ClientInv
        <5>5. CASE Serves(j)' BY <5>3, <5>4, <5>5
        <5>6. CASE ~Serves(j)' BY <5>3, <5>4, <5>6
        <5> QED BY <5>5, <5>6
      <4>2. CASE j # i BY <2>2, <2>4, <2>5, <2>7, <3>2, <4>2
      <4> QED BY <4>1, <4>2
    <3> QED BY <3>1, <3>2
  <2> QED BY <2>1, <2>6, <2>7
<1>2. ASSUME NEW i \in Clients, UnregisterClient(i) PROVE ClientInv'
  BY <1>2 DEF UnregisterClient
<1>3. ASSUME NEW i \in Clients, Play(i) PROVE ClientInv' BY <1>3 DEF Play, GiveBack, ReleaseSemaphore
<1> QED BY <1>1, <1>2, <1>3

-----------------------------------------------------------------------------
(* The handshake. *)

LEMMA InitHandshake == AudioInit => Handshake
BY DEF AudioInit, Handshake

LEMMA StepHandshake ==
  ASSUME Types, Handshake, [AudioNext]_audioVars
  PROVE  Handshake'
<1> USE DEF Types, Handshake, WorkerGoes, ControlGoes, clients, signals, flags
<1>1. CASE RegisterClient BY <1>1 DEF RegisterClient
<1>2. CASE \E i \in Clients : UnregisterClient(i) \/ Play(i)
  BY <1>2 DEF UnregisterClient, Play, GiveBack
<1>3. CASE Work \/ WakeForShutdown
  <2>1. CASE Loop \/ WakeForClient \/ ReadClient \/ Callback
    BY <2>1 DEF Loop, WakeForClient, ReadClient, Callback
  <2>2. CASE WakeForShutdown BY <2>2 DEF WakeForShutdown
  <2>3. CASE SeePaused BY <2>3 DEF SeePaused
  <2>4. CASE SignalPaused BY <2>4 DEF SignalPaused
  <2>5. CASE WakeForResume BY <2>5 DEF WakeForResume
  <2> QED BY <1>3, <2>1, <2>2, <2>3, <2>4, <2>5 DEF Work
<1>4. CASE Finish
  <2>1. CASE SetShutdown BY <2>1 DEF SetShutdown
  <2>2. CASE WaitForFence BY <2>2 DEF WaitForFence
  <2>3. CASE SetResume BY <2>3 DEF SetResume
  <2>4. CASE SetShutdownLast BY <2>4 DEF SetShutdownLast
  <2>5. CASE Join BY <2>5 DEF Join
  <2> QED BY <1>4, <2>1, <2>2, <2>3, <2>4, <2>5 DEF Finish
<1>5. CASE Pause BY <1>5 DEF Pause
<1>6. CASE Resume BY <1>6 DEF Resume
<1>7. CASE Shutdown BY <1>7 DEF Shutdown
<1>8. CASE UNCHANGED audioVars BY <1>8 DEF audioVars
<1> QED BY <1>1, <1>2, <1>3, <1>4, <1>5, <1>6, <1>7, <1>8 DEF AudioNext

LEMMA AudioInvariant ==
  AudioSpec => [](ClientInv /\ Handshake)
<1>1. AudioInit => ClientInv /\ Handshake BY InitClients, InitHandshake
<1>2. ClientInv /\ Handshake /\ [AudioNext]_audioVars => (ClientInv /\ Handshake)'
  <2> SUFFICES ASSUME ClientInv, Handshake, [AudioNext]_audioVars PROVE ClientInv' /\ Handshake'
    OBVIOUS
  <2>1. ClientInv'
    BY HostKeepsClients, WorkKeepsClients, RegistrationKeepsClients DEF AudioNext
  <2>2. Handshake' BY StepHandshake DEF ClientInv
  <2> QED BY <2>1, <2>2
<1> QED BY <1>1, <1>2, PTL DEF AudioSpec

-----------------------------------------------------------------------------

(* A driver that plays a frame finds room in its client's semaphore, however *)
(* clients come and go under the worker's callbacks, but once for a client   *)
(* that was registered while the worker served an earlier one at its index.  *)
THEOREM OneFrameLacksRoom == AudioSpec => []OnlyOverdueLacksRoom
<1>1. ClientInv => OnlyOverdueLacksRoom BY DEF ClientInv
<1> QED BY <1>1, AudioInvariant, PTL

(* From the return of Pause to Resume no client is called back, and no pause  *)
(* is answered by a signal of an earlier one.                                *)
THEOREM HandshakesAreFresh == AudioSpec => []FreshHandshake
<1>1. Handshake => FreshHandshake BY DEF Handshake, FreshHandshake
<1> QED BY <1>1, AudioInvariant, PTL

=============================================================================
