------------------------- MODULE ObjectTableProofs -------------------------
(***************************************************************************)
(* The pointer counts of the kernel's objects, and what its handles denote,*)
(* for every number of threads, objects, names and slots.                  *)
(*                                                                         *)
(* Each operation moves one entry of the table, or one object_ref, and     *)
(* counts it.  That the object_ref is there when an operation uses it, and *)
(* not there when one takes it, depends on which operation follows which   *)
(* in a call (Follows); that an object is new when New takes it, on the    *)
(* handle in its structure (Stashed).  This holds whatever the guest calls.*)
(*                                                                         *)
(* That a handle denotes its object, and that none leaks, is proved for a  *)
(* guest that creates, duplicates, moves, closes and purges (PlainGuest):  *)
(* every entry of the table has one use, the guest's or that of a call     *)
(* under way (OneUse); and for a careful guest that creates, opens,        *)
(* references, dereferences and closes, with names and without             *)
(* (ReferringGuest): the count of a handle is that of its uses             *)
(* (UsesCounted), and a handle that is there has one that nobody is about  *)
(* to give up (HandlesKept).  For other guests it is not so.               *)
(***************************************************************************)
EXTENDS ObjectTable, Integers, FiniteSetTheorems, SequenceTheorems, WellFoundedInduction,
        TLAPS

-----------------------------------------------------------------------------
(* The operations that are left of a call.                                  *)

Ops ==
  {"LookupObject", "ReadHandle", "RetainHandle", "ReleaseHandle", "AddHandle", "handle",
   "FirstHandle", "GiveHandle", "GivePointer", "DropObject", "RemoveHandle", "New",
   "AddNameMapping"}

Follows ==
  {<<"LookupObject", "ReadHandle">>, <<"LookupObject", "AddHandle">>,
   <<"ReadHandle", "ReleaseHandle">>, <<"ReadHandle", "RetainHandle">>,
   <<"ReleaseHandle", "ReadHandle">>, <<"ReleaseHandle", "DropObject">>,
   <<"RetainHandle", "handle">>, <<"RetainHandle", "GivePointer">>,
   <<"AddNameMapping", "handle">>, <<"handle", "GiveHandle">>,
   <<"AddHandle", "FirstHandle">>, <<"AddHandle", "GiveHandle">>,
   <<"FirstHandle", "GiveHandle">>, <<"GiveHandle", "RemoveHandle">>}

Closing == {"GiveHandle", "GivePointer", "DropObject", "RemoveHandle", "New"}

WellFormed(s) ==
  /\ s \in Seq(Ops)
  /\ \A i \in 1 .. Len(s) - 1 : <<s[i], s[i + 1]>> \in Follows
  /\ s # <<>> => s[Len(s)] \in Closing

\* The call has yet to look at the handle it was given.
Looks(s) == \E i \in 1 .. Len(s) : s[i] \in {"LookupObject", "RemoveHandle"}

First(s) == IF s = <<>> THEN "end" ELSE Head(s)

\* Before these operations, and after the last, a thread has no object_ref.
Bare == {"LookupObject", "New", "RemoveHandle", "end"}

ThreadOk(s, l) ==
  /\ WellFormed(s)
  /\ Looks(s) => l.argument \in Slots
  /\ l.object = NoObject <=> First(s) \in Bare
  /\ First(s) = "ReleaseHandle" => l.handle \in Slots

-----------------------------------------------------------------------------
(* The inductive invariant. *)

Entries == [object : Objects \cup {NoObject}, refs : Int]
Locals == [argument : Slots \cup {NoHandle}, name : Names \cup {NoName},
           object : Objects \cup {NoObject}, handle : Slots \cup {NoHandle}]

TableTypes ==
  /\ table \in [Slots -> Entries] /\ handles \in [Objects -> Seq(Slots)]
  /\ pointers \in [Objects -> Int] /\ stash \in [Objects -> Slots \cup {NoHandle}]
  /\ names \in [Names -> Slots \cup {NoHandle}] /\ derefs \in [Objects -> Int]
  /\ DOMAIN todo = Threads /\ local \in [Threads -> Locals]

CallsOk == \A t \in Threads : ThreadOk(todo[t], local[t])

\* Nothing leads to an object that was not created.
Stashed ==
  \A o \in Objects : stash[o] = NoHandle =>
    /\ \A h \in Slots : table[h].object # o
    /\ \A t \in Threads : local[t].object # o
    /\ derefs[o] <= 0

SlotsOf(o) == {h \in Slots : table[h].object = o}
HoldersOf(o) == {t \in Threads : local[t].object = o}

Counted ==
  \A o \in Objects : pointers[o] = Cardinality(SlotsOf(o)) + Cardinality(HoldersOf(o))

TableInv == TableTypes /\ CallsOk /\ Stashed /\ Counted

-----------------------------------------------------------------------------
(* Sequences of operations, and lists of handles. *)

LEMMA TailFacts ==
  ASSUME NEW s, WellFormed(s), s # <<>>
  PROVE  /\ WellFormed(Tail(s)) /\ Head(s) \in Ops
         /\ Looks(Tail(s)) => Looks(s)
         /\ Tail(s) = <<>> <=> Len(s) = 1
         /\ Tail(s) = <<>> => Head(s) \in Closing
         /\ Tail(s) # <<>> => <<Head(s), Head(Tail(s))>> \in Follows
<1>1. /\ s \in Seq(Ops) /\ Len(s) \in Nat /\ Len(s) > 0 /\ Head(s) = s[1]
      /\ s[1] \in Ops
  BY LenProperties, EmptySeq, ElementOfSeq DEF WellFormed
<1>2. /\ Tail(s) \in Seq(Ops) /\ Len(Tail(s)) = Len(s) - 1
      /\ \A i \in 1 .. Len(s) - 1 : Tail(s)[i] = s[i + 1]
  BY <1>1, HeadTailProperties
<1>3. Tail(s) = <<>> <=> Len(s) = 1
  <2>1. Tail(s) = <<>> => Len(Tail(s)) = 0 BY EmptySeq
  <2>2. Tail(s) # <<>> => Len(Tail(s)) \in Nat \ {0} BY <1>2, EmptySeq
  <2> QED BY <1>1, <1>2, <2>1, <2>2
<1>4. WellFormed(Tail(s)) BY <1>1, <1>2, <1>3 DEF WellFormed
<1>5. Looks(Tail(s)) => Looks(s) BY <1>1, <1>2 DEF Looks
<1>6. Tail(s) = <<>> => Head(s) \in Closing BY <1>1, <1>3 DEF WellFormed
<1>7. ASSUME Tail(s) # <<>> PROVE <<Head(s), Head(Tail(s))>> \in Follows
  <2>1. Len(s) > 1 /\ Head(Tail(s)) = Tail(s)[1] BY <1>1, <1>2, <1>3, <1>7
  <2>2. Tail(s)[1] = s[2] BY <1>1, <1>2, <2>1
  <2>3. <<s[1], s[2]>> \in Follows BY <1>1, <2>1 DEF WellFormed
  <2> QED BY <1>1, <2>1, <2>2, <2>3
<1> QED BY <1>1, <1>3, <1>4, <1>5, <1>6, <1>7

\* The operations that the calls of the guest, and New and handle, leave to be done.
LEMMA Scripts ==
  /\ \A s \in {<<"LookupObject", "ReadHandle", "ReleaseHandle", "ReadHandle", "RetainHandle",
                 "handle", "GiveHandle">>,
               <<"LookupObject", "AddHandle", "GiveHandle">>,
               <<"LookupObject", "AddHandle", "GiveHandle", "RemoveHandle">>,
               <<"LookupObject", "ReadHandle", "RetainHandle", "GivePointer">>,
               <<"LookupObject", "ReadHandle", "ReleaseHandle", "DropObject">>} :
       WellFormed(s) /\ First(s) = "LookupObject"
  /\ WellFormed(<<"New">>) /\ First(<<"New">>) = "New" /\ ~Looks(<<"New">>)
  /\ WellFormed(<<"RemoveHandle">>) /\ First(<<"RemoveHandle">>) = "RemoveHandle"
  /\ WellFormed(<<>>) /\ First(<<>>) = "end" /\ ~Looks(<<>>)
  /\ \A s \in {<<"handle", "GiveHandle">>, <<"AddNameMapping", "handle", "GiveHandle">>} :
       WellFormed(s) /\ ~Looks(s) /\ First(s) \in {"handle", "AddNameMapping"}
<1> USE DEF Ops, Follows, Closing, First
<1>1. /\ WellFormed(<<"LookupObject", "ReadHandle", "ReleaseHandle", "ReadHandle",
                      "RetainHandle", "handle", "GiveHandle">>)
      /\ WellFormed(<<"LookupObject", "AddHandle", "GiveHandle">>)
      /\ WellFormed(<<"LookupObject", "AddHandle", "GiveHandle", "RemoveHandle">>)
      /\ WellFormed(<<"LookupObject", "ReadHandle", "RetainHandle", "GivePointer">>)
      /\ WellFormed(<<"LookupObject", "ReadHandle", "ReleaseHandle", "DropObject">>)
  BY DEF WellFormed
<1>2. WellFormed(<<"New">>) /\ WellFormed(<<"RemoveHandle">>) /\ WellFormed(<<>>)
  BY DEF WellFormed
<1>3. /\ WellFormed(<<"handle", "GiveHandle">>)
      /\ WellFormed(<<"AddNameMapping", "handle", "GiveHandle">>)
  BY DEF WellFormed
<1>4. /\ ~Looks(<<"New">>) /\ ~Looks(<<>>) /\ ~Looks(<<"handle", "GiveHandle">>)
      /\ ~Looks(<<"AddNameMapping", "handle", "GiveHandle">>)
  BY DEF Looks
<1> QED BY <1>1, <1>2, <1>3, <1>4

LEMMA HandleScript ==
  ASSUME NEW s, WellFormed(s), s # <<>>, Head(s) = "handle"
  PROVE  LET r == <<"AddHandle", "FirstHandle">> \o Tail(s) IN
           WellFormed(r) /\ First(r) = "AddHandle" /\ (Looks(r) => Looks(s))
<1> DEFINE a == <<"AddHandle", "FirstHandle">>
           r == a \o Tail(s)
<1>1. /\ WellFormed(Tail(s)) /\ (Looks(Tail(s)) => Looks(s)) /\ Tail(s) # <<>>
      /\ <<"handle", Head(Tail(s))>> \in Follows
  BY TailFacts DEF Closing
<1>2. Tail(s) \in Seq(Ops) /\ Len(Tail(s)) \in Nat \ {0} /\ Head(Tail(s)) = Tail(s)[1]
  BY <1>1, EmptySeq DEF WellFormed
<1>3. Tail(s)[1] = "GiveHandle" BY <1>1, <1>2 DEF Follows
<1>4. a \in Seq(Ops) /\ Len(a) = 2 /\ a[1] = "AddHandle" /\ a[2] = "FirstHandle"
  BY DEF Ops
<1> HIDE DEF a
<1>5. /\ r \in Seq(Ops) /\ Len(r) = 2 + Len(Tail(s))
      /\ \A i \in 1 .. 2 + Len(Tail(s)) : r[i] = IF i <= 2 THEN a[i] ELSE Tail(s)[i - 2]
  <2>1. /\ r \in Seq(Ops) /\ Len(r) = Len(a) + Len(Tail(s))
        /\ \A i \in 1 .. Len(a) + Len(Tail(s)) :
             r[i] = IF i <= Len(a) THEN a[i] ELSE Tail(s)[i - Len(a)]
    BY <1>2, <1>4, ConcatProperties
  <2> HIDE DEF r
  <2> QED BY <2>1, <1>4
<1> HIDE DEF r
<1>6. \A i \in 1 .. Len(r) - 1 : <<r[i], r[i + 1]>> \in Follows
  <2> SUFFICES ASSUME NEW i \in 1 .. Len(r) - 1 PROVE <<r[i], r[i + 1]>> \in Follows
    OBVIOUS
  <2>1. CASE i = 1 BY <2>1, <1>2, <1>4, <1>5 DEF Follows
  <2>2. CASE i = 2 BY <2>2, <1>2, <1>3, <1>4, <1>5 DEF Follows
  <2>3. CASE i > 2
    <3>1. i - 2 \in 1 .. Len(Tail(s)) - 1 /\ i + 1 - 2 = (i - 2) + 1 BY <2>3, <1>2, <1>5
    <3>2. r[i] = Tail(s)[i - 2] /\ r[i + 1] = Tail(s)[(i - 2) + 1]
      BY <2>3, <3>1, <1>2, <1>5
    <3>3. <<Tail(s)[i - 2], Tail(s)[(i - 2) + 1]>> \in Follows
      BY <3>1, <1>1 DEF WellFormed
    <3> QED BY <3>2, <3>3
  <2> QED BY <2>1, <2>2, <2>3, <1>2, <1>5
<1>7. r[Len(r)] \in Closing
  <2>0. \A n \in Nat \ {0} : 2 + n \in 1 .. 2 + n /\ ~(2 + n <= 2) /\ (2 + n) - 2 = n
    OBVIOUS
  <2>1. r[2 + Len(Tail(s))] = Tail(s)[Len(Tail(s))] BY <2>0, <1>2, <1>5
  <2>2. r[Len(r)] = Tail(s)[Len(Tail(s))] BY <2>1, <1>5
  <2> QED BY <2>2, <1>1 DEF WellFormed
<1>8. WellFormed(r) BY <1>5, <1>6, <1>7 DEF WellFormed
<1>9. First(r) = "AddHandle"
  <2>1. r # <<>> BY <1>2, <1>5, EmptySeq
  <2> QED BY <2>1, <1>2, <1>4, <1>5 DEF First
<1>10. Looks(r) => Looks(s)
  <2>1. ASSUME NEW i \in 1 .. Len(r), r[i] \in {"LookupObject", "RemoveHandle"}
        PROVE  Looks(Tail(s))
    <3>1. i > 2 BY <2>1, <1>2, <1>4, <1>5
    <3>2. i - 2 \in 1 .. Len(Tail(s)) /\ r[i] = Tail(s)[i - 2] BY <3>1, <1>2, <1>5
    <3> QED BY <2>1, <3>2 DEF Looks
  <2> QED BY <2>1, <1>1 DEF Looks
<1> QED BY <1>8, <1>9, <1>10 DEF r, a

LEMMA LeastNumber ==
  ASSUME NEW S, S \subseteq Nat, S # {}
  PROVE  \E n \in S : \A m \in S : n <= m
<1> DEFINE R == {p \in Nat \X Nat : p[1] < p[2]}
<1>1. IsWellFoundedOn(R, Nat) BY NatLessThanWellFounded DEF OpToRel
<1>2. PICK n \in S : \A m \in S : <<m, n>> \notin R BY <1>1, WFMin
<1>3. ASSUME NEW m \in S, m < n PROVE FALSE
  <2>1. <<m, n>> \in Nat \X Nat /\ <<m, n>>[1] = m /\ <<m, n>>[2] = n OBVIOUS
  <2>2. <<m, n>> \in R BY <2>1, <1>3
  <2> QED BY <2>2, <1>2
<1>4. \A m \in S : ~(m < n) BY <1>3
<1>5. \A m \in S : n <= m
  <2>1. n \in Nat /\ \A m \in S : m \in Nat OBVIOUS
  <2> QED BY <2>1, <1>4
<1> QED BY <1>5

LEMMA WithoutFacts ==
  ASSUME NEW hs \in Seq(Slots), NEW h
  PROVE  Without(hs, h) \in Seq(Slots)
<1> DEFINE places == {i \in DOMAIN hs : hs[i] = h}
           first == CHOOSE i \in places : \A j \in places : i <= j
<1>1. /\ Len(hs) \in Nat /\ DOMAIN hs = 1 .. Len(hs)
      /\ \A i \in 1 .. Len(hs) : hs[i] \in Slots
  BY LenProperties, ElementOfSeq
<1>2. CASE places = {} BY <1>2 DEF Without
<1>3. CASE places # {}
  <2>1. \E i \in places : \A j \in places : i <= j
    <3>1. places \subseteq Nat BY <1>1
    <3> HIDE DEF places
    <3> QED BY <3>1, <1>3, LeastNumber
  <2>2. first \in 1 .. Len(hs) BY <1>1, <2>1
  <2>3. Without(hs, h) = SubSeq(hs, 1, first - 1) \o SubSeq(hs, first + 1, Len(hs))
    BY <1>3 DEF Without
  <2> HIDE DEF first
  <2>4. first - 1 \in Int /\ first + 1 \in Int /\ Len(hs) \in Int BY <2>2, <1>1
  <2>5. /\ \A i \in 1 .. first - 1 : hs[i] \in Slots
        /\ \A i \in first + 1 .. Len(hs) : hs[i] \in Slots
    BY <2>2, <1>1
  <2>6. SubSeq(hs, 1, first - 1) \in Seq(Slots) BY <2>4, <2>5, SubSeqProperties
  <2>7. SubSeq(hs, first + 1, Len(hs)) \in Seq(Slots) BY <2>4, <2>5, SubSeqProperties
  <2> QED BY <2>3, <2>6, <2>7, ConcatProperties
<1> QED BY <1>2, <1>3

-----------------------------------------------------------------------------
(* Counting. *)

\* Slot h gets a new object, and no other does; thread t another object_ref.
SlotGets(h, new) ==
  \A g \in Slots : table'[g].object = IF g = h THEN new ELSE table[g].object
SlotsStay == \A g \in Slots : table'[g].object = table[g].object
HolderGets(t, new) ==
  \A u \in Threads : local'[u].object = IF u = t THEN new ELSE local[u].object
HoldersStay == \A u \in Threads : local'[u].object = local[u].object

LEMMA CountChanges ==
  ASSUME NEW A, NEW B, IsFiniteSet(A), NEW x
  PROVE  /\ Cardinality(A) \in Nat
         /\ B = A \cup {x} /\ x \notin A => Cardinality(B) = Cardinality(A) + 1
         /\ B = A \ {x} /\ x \in A => Cardinality(B) = Cardinality(A) - 1
<1>1. Cardinality(A) \in Nat BY FS_CardinalityType
<1>2. ASSUME x \notin A PROVE Cardinality(A \cup {x}) = Cardinality(A) + 1
  BY <1>2, FS_AddElement
<1>3. ASSUME x \in A PROVE Cardinality(A \ {x}) = Cardinality(A) - 1
  BY <1>3, FS_RemoveElement
<1> QED BY <1>1, <1>2, <1>3

LEMMA FiniteCounts ==
  ASSUME NEW o
  PROVE  /\ IsFiniteSet(SlotsOf(o)) /\ IsFiniteSet(HoldersOf(o))
         /\ Cardinality(SlotsOf(o)) \in Nat /\ Cardinality(HoldersOf(o)) \in Nat
<1>1. IsFiniteSet(Slots)
  <2>1. 0 \in Int /\ Capacity - 1 \in Int BY TableAssumption
  <2> QED BY <2>1, FS_Interval DEF Slots
<1>2. IsFiniteSet(SlotsOf(o)) BY <1>1, FS_Subset DEF SlotsOf
<1>3. IsFiniteSet(HoldersOf(o)) BY ObjectAssumption, FS_Subset DEF HoldersOf
<1> QED BY <1>2, <1>3, FS_CardinalityType

LEMMA SlotCounts ==
  ASSUME NEW o, NEW h \in Slots, NEW new, SlotGets(h, new)
  PROVE  Cardinality(SlotsOf(o))' =
           Cardinality(SlotsOf(o)) + (IF new = o THEN 1 ELSE 0)
                                   - (IF table[h].object = o THEN 1 ELSE 0)
<1> USE FiniteCounts
<1>1. CASE new = o <=> table[h].object = o
  <2>1. SlotsOf(o)' = SlotsOf(o) BY <1>1 DEF SlotsOf, SlotGets
  <2> QED BY <1>1, <2>1
<1>2. CASE new = o /\ table[h].object # o
  <2>1. SlotsOf(o)' = SlotsOf(o) \cup {h} /\ h \notin SlotsOf(o)
    BY <1>2 DEF SlotsOf, SlotGets
  <2> QED BY <1>2, <2>1, CountChanges
<1>3. CASE new # o /\ table[h].object = o
  <2>1. SlotsOf(o)' = SlotsOf(o) \ {h} /\ h \in SlotsOf(o)
    BY <1>3 DEF SlotsOf, SlotGets
  <2> QED BY <1>3, <2>1, CountChanges
<1> QED BY <1>1, <1>2, <1>3

LEMMA HolderCounts ==
  ASSUME NEW o, NEW t \in Threads, NEW new, HolderGets(t, new)
  PROVE  Cardinality(HoldersOf(o))' =
           Cardinality(HoldersOf(o)) + (IF new = o THEN 1 ELSE 0)
                                     - (IF local[t].object = o THEN 1 ELSE 0)
<1> USE FiniteCounts
<1>1. CASE new = o <=> local[t].object = o
  <2>1. HoldersOf(o)' = HoldersOf(o) BY <1>1 DEF HoldersOf, HolderGets
  <2> QED BY <1>1, <2>1
<1>2. CASE new = o /\ local[t].object # o
  <2>1. HoldersOf(o)' = HoldersOf(o) \cup {t} /\ t \notin HoldersOf(o)
    BY <1>2 DEF HoldersOf, HolderGets
  <2> QED BY <1>2, <2>1, CountChanges
<1>3. CASE new # o /\ local[t].object = o
  <2>1. HoldersOf(o)' = HoldersOf(o) \ {t} /\ t \in HoldersOf(o)
    BY <1>3 DEF HoldersOf, HolderGets
  <2> QED BY <1>3, <2>1, CountChanges
<1> QED BY <1>1, <1>2, <1>3

LEMMA NothingMoves ==
  ASSUME NEW o
  PROVE  /\ SlotsStay => Cardinality(SlotsOf(o))' = Cardinality(SlotsOf(o))
         /\ HoldersStay => Cardinality(HoldersOf(o))' = Cardinality(HoldersOf(o))
<1>1. SlotsStay => SlotsOf(o)' = SlotsOf(o) BY DEF SlotsOf, SlotsStay
<1>2. HoldersStay => HoldersOf(o)' = HoldersOf(o) BY DEF HoldersOf, HoldersStay
<1> QED BY <1>1, <1>2

\* The ways in which an operation keeps the counts.
LEMMA NothingCounted ==
  ASSUME Counted, SlotsStay, HoldersStay, pointers' = pointers
  PROVE  Counted'
BY NothingMoves DEF Counted

LEMMA SlotCounted ==
  ASSUME TableTypes, Counted, HoldersStay,
         NEW h \in Slots, NEW new, table[h].object = NoObject, SlotGets(h, new),
         pointers' = [pointers EXCEPT ![new] = @ + 1]
  PROVE  Counted'
<1> SUFFICES ASSUME NEW o \in Objects
             PROVE  pointers'[o] = Cardinality(SlotsOf(o))' + Cardinality(HoldersOf(o))'
  BY DEF Counted
<1>1. Cardinality(HoldersOf(o))' = Cardinality(HoldersOf(o)) BY NothingMoves
<1>2. Cardinality(SlotsOf(o))' = Cardinality(SlotsOf(o)) + (IF new = o THEN 1 ELSE 0)
  BY SlotCounts, ObjectAssumption, FiniteCounts
<1>3. pointers'[o] = pointers[o] + (IF new = o THEN 1 ELSE 0) BY DEF TableTypes
<1> QED BY <1>1, <1>2, <1>3, FiniteCounts DEF Counted

LEMMA SlotUncounted ==
  ASSUME TableTypes, Counted, HoldersStay, NEW h \in Slots, SlotGets(h, NoObject),
         pointers' = [pointers EXCEPT ![table[h].object] = @ - 1]
  PROVE  Counted'
<1> SUFFICES ASSUME NEW o \in Objects
             PROVE  pointers'[o] = Cardinality(SlotsOf(o))' + Cardinality(HoldersOf(o))'
  BY DEF Counted
<1>1. Cardinality(HoldersOf(o))' = Cardinality(HoldersOf(o)) BY NothingMoves
<1>2. Cardinality(SlotsOf(o))' =
        Cardinality(SlotsOf(o)) - (IF table[h].object = o THEN 1 ELSE 0)
  BY SlotCounts, ObjectAssumption, FiniteCounts
<1>3. pointers'[o] = pointers[o] - (IF table[h].object = o THEN 1 ELSE 0) BY DEF TableTypes
<1> QED BY <1>1, <1>2, <1>3, FiniteCounts DEF Counted

LEMMA HolderCounted ==
  ASSUME TableTypes, Counted, SlotsStay,
         NEW t \in Threads, NEW new, local[t].object = NoObject, HolderGets(t, new),
         pointers' = [pointers EXCEPT ![new] = @ + 1]
  PROVE  Counted'
<1> SUFFICES ASSUME NEW o \in Objects
             PROVE  pointers'[o] = Cardinality(SlotsOf(o))' + Cardinality(HoldersOf(o))'
  BY DEF Counted
<1>1. Cardinality(SlotsOf(o))' = Cardinality(SlotsOf(o)) BY NothingMoves
<1>2. Cardinality(HoldersOf(o))' = Cardinality(HoldersOf(o)) + (IF new = o THEN 1 ELSE 0)
  BY HolderCounts, ObjectAssumption, FiniteCounts
<1>3. pointers'[o] = pointers[o] + (IF new = o THEN 1 ELSE 0) BY DEF TableTypes
<1> QED BY <1>1, <1>2, <1>3, FiniteCounts DEF Counted

LEMMA HolderUncounted ==
  ASSUME TableTypes, Counted, SlotsStay, NEW t \in Threads, HolderGets(t, NoObject),
         pointers' = [pointers EXCEPT ![local[t].object] = @ - 1]
  PROVE  Counted'
<1> SUFFICES ASSUME NEW o \in Objects
             PROVE  pointers'[o] = Cardinality(SlotsOf(o))' + Cardinality(HoldersOf(o))'
  BY DEF Counted
<1>1. Cardinality(SlotsOf(o))' = Cardinality(SlotsOf(o)) BY NothingMoves
<1>2. Cardinality(HoldersOf(o))' =
        Cardinality(HoldersOf(o)) - (IF local[t].object = o THEN 1 ELSE 0)
  BY HolderCounts, ObjectAssumption, FiniteCounts
<1>3. pointers'[o] = pointers[o] - (IF local[t].object = o THEN 1 ELSE 0) BY DEF TableTypes
<1> QED BY <1>1, <1>2, <1>3, FiniteCounts DEF Counted

LEMMA NewCounted ==
  ASSUME TableTypes, Counted, NEW new \in Objects, SlotsOf(new) = {}, HoldersOf(new) = {},
         NEW h \in Slots, table[h].object = NoObject, SlotGets(h, new),
         NEW t \in Threads, local[t].object = NoObject, HolderGets(t, new),
         pointers' = [pointers EXCEPT ![new] = 2]
  PROVE  Counted'
<1> SUFFICES ASSUME NEW o \in Objects
             PROVE  pointers'[o] = Cardinality(SlotsOf(o))' + Cardinality(HoldersOf(o))'
  BY DEF Counted
<1>1. Cardinality(HoldersOf(o))' = Cardinality(HoldersOf(o)) + (IF new = o THEN 1 ELSE 0)
  BY HolderCounts, ObjectAssumption, FiniteCounts
<1>2. Cardinality(SlotsOf(o))' = Cardinality(SlotsOf(o)) + (IF new = o THEN 1 ELSE 0)
  BY SlotCounts, ObjectAssumption, FiniteCounts
<1>3. pointers'[o] = IF new = o THEN 2 ELSE pointers[o] BY DEF TableTypes
<1>4. Cardinality(SlotsOf(new)) = 0 /\ Cardinality(HoldersOf(new)) = 0 BY FS_EmptySet
<1>5. CASE new = o BY <1>1, <1>2, <1>3, <1>4, <1>5
<1>6. CASE new # o BY <1>1, <1>2, <1>3, <1>6, FiniteCounts DEF Counted
<1> QED BY <1>5, <1>6

-----------------------------------------------------------------------------
(* What each step does. *)

LEMMA OneCall ==
  ASSUME TableTypes, CallsOk, NEW t \in Threads, NEW s, NEW l \in Locals, ThreadOk(s, l),
         todo' = [todo EXCEPT ![t] = s], local' = [local EXCEPT ![t] = l]
  PROVE  /\ CallsOk' /\ DOMAIN todo' = Threads /\ local' \in [Threads -> Locals]
         /\ HolderGets(t, l.object)
<1>1. \A u \in Threads : /\ todo'[u] = IF u = t THEN s ELSE todo[u]
                         /\ local'[u] = IF u = t THEN l ELSE local[u]
  BY DEF TableTypes
<1>2. CallsOk' BY <1>1 DEF CallsOk
<1>3. HolderGets(t, l.object) BY <1>1 DEF HolderGets
<1> QED BY <1>2, <1>3 DEF TableTypes

\* What may come after an operation.
LEMMA Successor ==
  ASSUME NEW s, WellFormed(s), s # <<>>
  PROVE  /\ WellFormed(Tail(s)) /\ (Looks(Tail(s)) => Looks(s))
         /\ Head(s) = "LookupObject" => First(Tail(s)) \in {"ReadHandle", "AddHandle"}
         /\ Head(s) = "ReadHandle" => First(Tail(s)) \in {"ReleaseHandle", "RetainHandle"}
         /\ Head(s) = "RetainHandle" => First(Tail(s)) \in {"handle", "GivePointer"}
         /\ Head(s) = "ReleaseHandle" => First(Tail(s)) \in {"ReadHandle", "DropObject"}
         /\ Head(s) = "AddHandle" => First(Tail(s)) \in {"FirstHandle", "GiveHandle"}
         /\ Head(s) \in {"FirstHandle", "handle"} => First(Tail(s)) = "GiveHandle"
         /\ Head(s) = "AddNameMapping" => First(Tail(s)) = "handle"
         /\ Head(s) = "GiveHandle" => First(Tail(s)) \in {"end", "RemoveHandle"}
         /\ Head(s) \in {"GivePointer", "DropObject", "RemoveHandle"} => First(Tail(s)) = "end"
<1>1. /\ WellFormed(Tail(s)) /\ (Looks(Tail(s)) => Looks(s))
      /\ Tail(s) = <<>> => Head(s) \in Closing
      /\ Tail(s) # <<>> => <<Head(s), Head(Tail(s))>> \in Follows
  BY TailFacts
<1>2. CASE Tail(s) = <<>> BY <1>1, <1>2 DEF First, Closing
<1>3. CASE Tail(s) # <<>> BY <1>1, <1>3 DEF First, Follows
<1> QED BY <1>2, <1>3

LEMMA LooksFirst ==
  ASSUME NEW s, WellFormed(s), s # <<>>, Head(s) \in {"LookupObject", "RemoveHandle"}
  PROVE  Looks(s)
<1>1. Len(s) \in Nat \ {0} /\ Head(s) = s[1] BY EmptySeq DEF WellFormed
<1> QED BY <1>1 DEF Looks

\* A thread that is at an operation.
LEMMA AtFacts ==
  ASSUME TableTypes, CallsOk, NEW t \in Threads, NEW op, At(t, op)
  PROVE  /\ ThreadOk(todo[t], local[t]) /\ local[t] \in Locals
         /\ todo[t] # <<>> /\ Head(todo[t]) = op /\ First(todo[t]) = op
         /\ local[t].object = NoObject <=> op \in Bare
         /\ op \in {"LookupObject", "RemoveHandle"} => local[t].argument \in Slots
         /\ op = "ReleaseHandle" => local[t].handle \in Slots
<1>1. ThreadOk(todo[t], local[t]) /\ local[t] \in Locals BY DEF CallsOk, TableTypes
<1>2. todo[t] # <<>> /\ Head(todo[t]) = op BY DEF At
<1>3. WellFormed(todo[t]) BY <1>1 DEF ThreadOk
<1>4. op \in {"LookupObject", "RemoveHandle"} => Looks(todo[t]) BY <1>2, <1>3, LooksFirst
<1>5. First(todo[t]) = op BY <1>2 DEF First
<1> QED BY <1>1, <1>2, <1>4, <1>5 DEF ThreadOk

\* The count of an entry does not matter to its object.
LEMMA EntryCount ==
  ASSUME NEW e \in Entries, NEW n \in Int
  PROVE  [e EXCEPT !.refs = n] \in Entries /\ [e EXCEPT !.refs = n].object = e.object
BY DEF Entries

LEMMA EntryKept ==
  ASSUME TableTypes, NEW h \in Slots, NEW e \in Entries, e.object = table[h].object,
         table' = [table EXCEPT ![h] = e]
  PROVE  table' \in [Slots -> Entries] /\ SlotsStay
BY DEF TableTypes, SlotsStay

LEMMA RetainFacts ==
  ASSUME TableTypes, NEW h, Retain(h)
  PROVE  table' \in [Slots -> Entries] /\ SlotsStay
<1>1. CASE h \in Slots
  <2> DEFINE n == IF table[h].object = NoObject THEN table[h].refs ELSE table[h].refs + 1
             e == [table[h] EXCEPT !.refs = n]
  <2>1. table[h] \in Entries /\ n \in Int BY <1>1 DEF TableTypes, Entries
  <2>2. e \in Entries /\ e.object = table[h].object BY <2>1, EntryCount
  <2>3. table' = [table EXCEPT ![h] = e] BY DEF Retain
  <2> HIDE DEF e
  <2> QED BY <1>1, <2>2, <2>3, EntryKept
<1>2. CASE h \notin Slots
  <2>1. table' = table BY <1>2 DEF Retain, TableTypes
  <2> QED BY <2>1 DEF SlotsStay, TableTypes
<1> QED BY <1>1, <1>2

LEMMA InsertFacts ==
  ASSUME TableTypes, NEW h \in Slots, NEW o \in Objects, Insert(o, h)
  PROVE  /\ table' \in [Slots -> Entries] /\ SlotGets(h, o)
         /\ handles' \in [Objects -> Seq(Slots)]
<1>1. table' \in [Slots -> Entries] /\ SlotGets(h, o)
  BY DEF TableTypes, Insert, Entries, SlotGets
<1>2. Append(handles[o], h) \in Seq(Slots) BY AppendProperties DEF TableTypes
<1>3. handles' = [handles EXCEPT ![o] = Append(handles[o], h)] BY DEF Insert
<1> QED BY <1>1, <1>2, <1>3 DEF TableTypes

LEMMA RemoveFacts ==
  ASSUME TableTypes, Counted, NEW h \in Slots, Remove(h), HoldersStay
  PROVE  /\ table' \in [Slots -> Entries] /\ SlotGets(h, NoObject)
         /\ handles' \in [Objects -> Seq(Slots)] /\ pointers' \in [Objects -> Int]
         /\ names' \in [Names -> Slots \cup {NoHandle}]
         /\ Counted'
<1> DEFINE o == table[h].object
<1>1. table' \in [Slots -> Entries] /\ SlotGets(h, NoObject)
  BY DEF TableTypes, Remove, Entries, SlotGets, Free
<1>2. handles' \in [Objects -> Seq(Slots)]
  <2>1. handles' = [handles EXCEPT ![o] = Without(handles[o], h)] BY DEF Remove
  <2>2. o \in Objects => Without(handles[o], h) \in Seq(Slots)
    BY WithoutFacts DEF TableTypes
  <2> QED BY <2>1, <2>2 DEF TableTypes
<1>4. names' \in [Names -> Slots \cup {NoHandle}] BY DEF TableTypes, Remove
<1>5. pointers' = [pointers EXCEPT ![table[h].object] = @ - 1] BY DEF Remove
<1>3. pointers' \in [Objects -> Int]
  <2>1. pointers \in [Objects -> Int] BY DEF TableTypes
  <2>2. o \in Objects => pointers[o] - 1 \in Int BY <2>1
  <2>3. pointers' = [pointers EXCEPT ![o] = pointers[o] - 1] BY <1>5
  <2> HIDE DEF o
  <2> QED BY <2>1, <2>2, <2>3
<1>6. Counted' BY <1>1, <1>5, SlotUncounted
<1> QED BY <1>1, <1>2, <1>3, <1>4, <1>6

LEMMA ReleaseFacts ==
  ASSUME TableTypes, Counted, NEW h \in Slots, Release(h), HoldersStay
  PROVE  /\ table' \in [Slots -> Entries]
         /\ \A g \in Slots : table'[g].object \in {table[g].object, NoObject}
         /\ handles' \in [Objects -> Seq(Slots)] /\ pointers' \in [Objects -> Int]
         /\ names' \in [Names -> Slots \cup {NoHandle}]
         /\ Counted'
<1>1. CASE Remove(h)
  BY <1>1, RemoveFacts DEF SlotGets
<1>2. CASE /\ table' = [table EXCEPT ![h].refs = IF table[h].object = NoObject THEN @
                                                 ELSE @ - 1]
           /\ UNCHANGED <<lastFree, handles, names, pointers>>
  <2>1. table' \in [Slots -> Entries] /\ SlotsStay
    <3> DEFINE n == IF table[h].object = NoObject THEN table[h].refs ELSE table[h].refs - 1
               e == [table[h] EXCEPT !.refs = n]
    <3>1. table[h] \in Entries /\ n \in Int BY DEF TableTypes, Entries
    <3>2. e \in Entries /\ e.object = table[h].object BY <3>1, EntryCount
    <3>3. table' = [table EXCEPT ![h] = e] BY <1>2
    <3> HIDE DEF e
    <3> QED BY <3>2, <3>3, EntryKept
  <2>2. Counted' BY <1>2, <2>1, NothingCounted
  <2> QED BY <1>2, <2>1, <2>2 DEF TableTypes, SlotsStay
<1> QED BY <1>1, <1>2 DEF Release

-----------------------------------------------------------------------------
(* The operations of a call keep the invariant. *)

LEMMA LocalParts ==
  ASSUME NEW l \in Locals
  PROVE  /\ NoLocals \in Locals /\ NoLocals.object = NoObject
         /\ \A o \in Objects \cup {NoObject} :
              LET m == [l EXCEPT !.object = o]
              IN  /\ m \in Locals /\ m.object = o
                  /\ m.argument = l.argument /\ m.handle = l.handle
         /\ \A h \in Slots \cup {NoHandle} :
              LET m == [l EXCEPT !.handle = h]
              IN  /\ m \in Locals /\ m.handle = h
                  /\ m.argument = l.argument /\ m.object = l.object
         /\ \A h \in Slots \cup {NoHandle} :
              LET m == [l EXCEPT !.argument = h]
              IN  m \in Locals /\ m.argument = h /\ m.object = l.object
         /\ \A n \in Names \cup {NoName} :
              LET m == [l EXCEPT !.name = n]
              IN  m \in Locals /\ m.argument = l.argument /\ m.object = l.object
         /\ l.object \in Objects \cup {NoObject}
BY DEF Locals, NoLocals

\* Where nothing but the counts of the entries and the progress of a call changes.
LEMMA CallMoves ==
  ASSUME TableInv, NEW t \in Threads, NEW s, NEW l \in Locals, ThreadOk(s, l),
         todo' = [todo EXCEPT ![t] = s], local' = [local EXCEPT ![t] = l],
         l.object = local[t].object, SlotsStay, table' \in [Slots -> Entries],
         names' \in [Names -> Slots \cup {NoHandle}],
         UNCHANGED <<handles, pointers, stash, derefs>>
  PROVE  TableInv'
<1>1. /\ CallsOk' /\ DOMAIN todo' = Threads /\ local' \in [Threads -> Locals]
      /\ HolderGets(t, l.object)
  BY OneCall DEF TableInv
<1>2. HoldersStay BY <1>1 DEF HolderGets, HoldersStay
<1>3. Counted' BY <1>2, NothingCounted DEF TableInv
<1>4. Stashed' BY <1>2 DEF TableInv, Stashed, SlotsStay, HoldersStay
<1>5. TableTypes' BY <1>1 DEF TableInv, TableTypes
<1> QED BY <1>1, <1>3, <1>4, <1>5 DEF TableInv

LEMMA TableStays ==
  ASSUME TableInv, table' = table
  PROVE  SlotsStay /\ table' \in [Slots -> Entries]
BY DEF TableInv, TableTypes, SlotsStay

LEMMA LookupObjectKeeps ==
  ASSUME TableInv, NEW t \in Threads, LookupObject(t)
  PROVE  TableInv'
<1>1. /\ ThreadOk(todo[t], local[t]) /\ local[t] \in Locals
      /\ todo[t] # <<>> /\ Head(todo[t]) = "LookupObject"
      /\ local[t].object = NoObject /\ local[t].argument \in Slots
  BY AtFacts DEF TableInv, LookupObject, Bare
<1>2. WellFormed(todo[t]) BY <1>1 DEF ThreadOk
<1>3. table' = table /\ names' = names /\ UNCHANGED <<handles, stash, derefs>>
  BY DEF LookupObject, guest
<1>4. SlotsStay /\ table' \in [Slots -> Entries] BY <1>3, TableStays
<1>5. names' \in [Names -> Slots \cup {NoHandle}] BY <1>3 DEF TableInv, TableTypes
<1> DEFINE o == table[local[t].argument].object
<1>6. CASE /\ o # NoObject
           /\ local' = [local EXCEPT ![t].object = o]
           /\ pointers' = [pointers EXCEPT ![o] = @ + 1]
           /\ Continue(t)
  <2>0. o \in Objects BY <1>1, <1>6 DEF TableInv, TableTypes, Entries
  <2> HIDE DEF o
  <2> DEFINE l == [local[t] EXCEPT !.object = o]
  <2>1. l \in Locals /\ l.object = o /\ l.argument = local[t].argument
    BY <1>1, <2>0, LocalParts
  <2>2. local' = [local EXCEPT ![t] = l] /\ todo' = [todo EXCEPT ![t] = Tail(todo[t])]
    BY <1>6 DEF Continue
  <2> HIDE DEF l
  <2>3. ThreadOk(Tail(todo[t]), l)
    <3>1. /\ WellFormed(Tail(todo[t]))
          /\ First(Tail(todo[t])) \in {"ReadHandle", "AddHandle"}
      BY <1>1, <1>2, Successor
    <3> QED BY <1>1, <1>6, <2>1, <3>1 DEF ThreadOk, Bare
  <2>4. /\ CallsOk' /\ DOMAIN todo' = Threads /\ local' \in [Threads -> Locals]
        /\ HolderGets(t, o)
    BY <2>1, <2>2, <2>3, OneCall DEF TableInv
  <2>5. Counted' BY <1>1, <1>4, <1>6, <2>4, HolderCounted DEF TableInv
  <2>6. pointers' \in [Objects -> Int] BY <1>6, <2>0 DEF TableInv, TableTypes
  <2>7. Stashed'
    <3>1. stash[o] # NoHandle BY <1>1, <2>0 DEF TableInv, Stashed, o
    <3> QED BY <1>3, <1>4, <2>4, <3>1 DEF TableInv, Stashed, SlotsStay, HolderGets
  <2>8. TableTypes' BY <1>3, <1>4, <1>5, <2>4, <2>6 DEF TableInv, TableTypes
  <2> QED BY <2>4, <2>5, <2>7, <2>8 DEF TableInv
<1>7. CASE /\ local' = [local EXCEPT ![t] = IF Abandoned(t) = <<>> THEN NoLocals ELSE @]
           /\ todo' = [todo EXCEPT ![t] = Abandoned(t)]
           /\ UNCHANGED pointers
  <2>1. CASE Abandoned(t) = <<>>
    <3>1. local' = [local EXCEPT ![t] = NoLocals] /\ todo' = [todo EXCEPT ![t] = <<>>]
      BY <1>7, <2>1
    <3>2. ThreadOk(<<>>, NoLocals) /\ NoLocals \in Locals /\ NoLocals.object = NoObject
      BY <1>1, Scripts, LocalParts DEF ThreadOk, Bare
    <3> QED BY <1>1, <1>3, <1>4, <1>5, <1>7, <3>1, <3>2, CallMoves
  <2>2. CASE Abandoned(t) # <<>>
    <3>1. Abandoned(t) = <<"RemoveHandle">> BY <2>2 DEF Abandoned
    <3>2. /\ local' = [local EXCEPT ![t] = local[t]]
          /\ todo' = [todo EXCEPT ![t] = <<"RemoveHandle">>]
      BY <1>7, <2>2, <3>1
    <3>3. ThreadOk(<<"RemoveHandle">>, local[t]) BY <1>1, Scripts DEF ThreadOk, Bare
    <3> QED BY <1>1, <1>3, <1>4, <1>5, <1>7, <3>2, <3>3, CallMoves
  <2> QED BY <2>1, <2>2
<1>8. CASE todo' = [todo EXCEPT ![t] = <<"New">>] /\ UNCHANGED <<local, pointers>>
  <2>1. local' = [local EXCEPT ![t] = local[t]] BY <1>8 DEF TableInv, TableTypes
  <2>2. ThreadOk(<<"New">>, local[t]) BY <1>1, Scripts DEF ThreadOk, Bare
  <2> QED BY <1>1, <1>3, <1>4, <1>5, <1>8, <2>1, <2>2, CallMoves
<1> QED BY <1>6, <1>7, <1>8 DEF LookupObject

\* A thread with an object_ref.
LEMMA HeldFacts ==
  ASSUME TableInv, NEW t \in Threads, NEW op, At(t, op), op \notin Bare
  PROVE  /\ ThreadOk(todo[t], local[t]) /\ local[t] \in Locals
         /\ todo[t] # <<>> /\ Head(todo[t]) = op /\ WellFormed(todo[t])
         /\ Looks(todo[t]) => local[t].argument \in Slots
         /\ local[t].object \in Objects /\ local[t].object # NoObject
         /\ stash[local[t].object] # NoHandle
         /\ handles[local[t].object] \in Seq(Slots)
         /\ handles[local[t].object] # <<>> => Head(handles[local[t].object]) \in Slots
<1>1. /\ ThreadOk(todo[t], local[t]) /\ local[t] \in Locals
      /\ todo[t] # <<>> /\ Head(todo[t]) = op
      /\ local[t].object # NoObject
  BY AtFacts DEF TableInv
<1>2. local[t].object \in Objects BY <1>1, LocalParts
<1>3. handles[local[t].object] \in Seq(Slots) BY <1>2 DEF TableInv, TableTypes
<1>4. stash[local[t].object] # NoHandle BY <1>2 DEF TableInv, Stashed
<1>5. \A hs \in Seq(Slots) : hs # <<>> => Head(hs) \in Slots BY HeadTailProperties
<1> QED BY <1>1, <1>2, <1>3, <1>4, <1>5 DEF ThreadOk

LEMMA ReadHandleKeeps ==
  ASSUME TableInv, NEW t \in Threads, ReadHandle(t)
  PROVE  TableInv'
<1> DEFINE hs == handles[local[t].object]
<1>1. /\ ThreadOk(todo[t], local[t]) /\ local[t] \in Locals
      /\ todo[t] # <<>> /\ Head(todo[t]) = "ReadHandle" /\ WellFormed(todo[t])
      /\ Looks(todo[t]) => local[t].argument \in Slots
      /\ local[t].object # NoObject /\ (hs # <<>> => Head(hs) \in Slots)
  BY HeldFacts DEF ReadHandle, Bare
<1>2. table' = table /\ names' = names /\ UNCHANGED <<handles, pointers, stash, derefs>>
  BY DEF ReadHandle, kernel, guest
<1>3. SlotsStay /\ table' \in [Slots -> Entries] BY <1>2, TableStays
<1>4. names' \in [Names -> Slots \cup {NoHandle}] BY <1>2 DEF TableInv, TableTypes
<1>5. /\ WellFormed(Tail(todo[t])) /\ (Looks(Tail(todo[t])) => Looks(todo[t]))
      /\ First(Tail(todo[t])) \in {"ReleaseHandle", "RetainHandle"}
  BY <1>1, Successor
<1>6. CASE hs # <<>> /\ Keep(t, Head(hs)) /\ Continue(t)
  <2>1. Head(hs) \in Slots BY <1>1, <1>6
  <2> HIDE DEF hs
  <2> DEFINE l == [local[t] EXCEPT !.handle = Head(hs)]
  <2>2. /\ l \in Locals /\ l.handle = Head(hs) /\ l.argument = local[t].argument
        /\ l.object = local[t].object
    BY <1>1, <2>1, LocalParts
  <2>3. local' = [local EXCEPT ![t] = l] /\ todo' = [todo EXCEPT ![t] = Tail(todo[t])]
    BY <1>6 DEF Keep, Continue
  <2> HIDE DEF l
  <2>4. ThreadOk(Tail(todo[t]), l) BY <1>1, <1>5, <2>1, <2>2 DEF ThreadOk, Bare
  <2> QED BY <1>2, <1>3, <1>4, <2>2, <2>3, <2>4, CallMoves
<1>7. CASE todo' = [todo EXCEPT ![t] = Tail(Tail(@))] /\ UNCHANGED local
  <2>1. Tail(todo[t]) # <<>> /\ Head(Tail(todo[t])) \in {"ReleaseHandle", "RetainHandle"}
    BY <1>5 DEF First
  <2>2. /\ WellFormed(Tail(Tail(todo[t])))
        /\ Looks(Tail(Tail(todo[t]))) => Looks(Tail(todo[t]))
        /\ First(Tail(Tail(todo[t]))) \in {"ReadHandle", "DropObject", "handle", "GivePointer"}
    BY <1>5, <2>1, Successor
  <2>3. ThreadOk(Tail(Tail(todo[t])), local[t]) BY <1>1, <1>5, <2>2 DEF ThreadOk, Bare
  <2>4. local' = [local EXCEPT ![t] = local[t]] BY <1>7 DEF TableInv, TableTypes
  <2>5. todo' = [todo EXCEPT ![t] = Tail(Tail(todo[t]))] BY <1>7
  <2> QED BY <1>1, <1>2, <1>3, <1>4, <2>3, <2>4, <2>5, CallMoves
<1> QED BY <1>6, <1>7 DEF ReadHandle

LEMMA RetainHandleKeeps ==
  ASSUME TableInv, NEW t \in Threads, RetainHandle(t)
  PROVE  TableInv'
<1>1. /\ ThreadOk(todo[t], local[t]) /\ local[t] \in Locals
      /\ todo[t] # <<>> /\ Head(todo[t]) = "RetainHandle" /\ WellFormed(todo[t])
      /\ Looks(todo[t]) => local[t].argument \in Slots
      /\ local[t].object # NoObject
  BY HeldFacts DEF RetainHandle, Bare
<1>2. names' = names /\ UNCHANGED <<handles, pointers, stash, derefs>>
  BY DEF RetainHandle, guest
<1>3. SlotsStay /\ table' \in [Slots -> Entries]
  BY RetainFacts DEF RetainHandle, TableInv
<1>4. names' \in [Names -> Slots \cup {NoHandle}] BY <1>2 DEF TableInv, TableTypes
<1>5. ThreadOk(Tail(todo[t]), local[t])
  <2>1. /\ WellFormed(Tail(todo[t])) /\ (Looks(Tail(todo[t])) => Looks(todo[t]))
        /\ First(Tail(todo[t])) \in {"handle", "GivePointer"}
    BY <1>1, Successor
  <2> QED BY <1>1, <2>1 DEF ThreadOk, Bare
<1>6. /\ local' = [local EXCEPT ![t] = local[t]]
      /\ todo' = [todo EXCEPT ![t] = Tail(todo[t])]
  BY DEF RetainHandle, Continue, TableInv, TableTypes
<1> QED BY <1>1, <1>2, <1>3, <1>4, <1>5, <1>6, CallMoves

\* A step that removes entries, or nothing, and holders, or nothing, of objects.
LEMMA StashedKept ==
  ASSUME TableInv, stash' = stash, derefs' = derefs,
         \A g \in Slots : table'[g].object \in {table[g].object, NoObject},
         \A u \in Threads : local'[u].object \in {local[u].object, NoObject}
  PROVE  Stashed'
BY ObjectAssumption DEF TableInv, Stashed

LEMMA ReleaseHandleKeeps ==
  ASSUME TableInv, NEW t \in Threads, ReleaseHandle(t)
  PROVE  TableInv'
<1>1. /\ ThreadOk(todo[t], local[t]) /\ local[t] \in Locals
      /\ todo[t] # <<>> /\ Head(todo[t]) = "ReleaseHandle" /\ WellFormed(todo[t])
      /\ Looks(todo[t]) => local[t].argument \in Slots
      /\ local[t].object # NoObject
  BY HeldFacts DEF ReleaseHandle, Bare
<1>2. local[t].handle \in Slots BY AtFacts DEF ReleaseHandle, TableInv
<1>3. UNCHANGED <<stash, derefs, local>> BY DEF ReleaseHandle, guest
<1>4. ThreadOk(Tail(todo[t]), local[t])
  <2>1. /\ WellFormed(Tail(todo[t])) /\ (Looks(Tail(todo[t])) => Looks(todo[t]))
        /\ First(Tail(todo[t])) \in {"ReadHandle", "DropObject"}
    BY <1>1, Successor
  <2> QED BY <1>1, <2>1 DEF ThreadOk, Bare
<1>5. /\ local' = [local EXCEPT ![t] = local[t]]
      /\ todo' = [todo EXCEPT ![t] = Tail(todo[t])]
  BY DEF ReleaseHandle, Continue, TableInv, TableTypes
<1>6. CallsOk' /\ DOMAIN todo' = Threads /\ local' \in [Threads -> Locals]
  BY <1>1, <1>4, <1>5, OneCall DEF TableInv
<1>7. HoldersStay BY <1>3 DEF HoldersStay
<1>8. /\ table' \in [Slots -> Entries]
      /\ \A g \in Slots : table'[g].object \in {table[g].object, NoObject}
      /\ handles' \in [Objects -> Seq(Slots)] /\ pointers' \in [Objects -> Int]
      /\ names' \in [Names -> Slots \cup {NoHandle}] /\ Counted'
  BY <1>2, <1>7, ReleaseFacts DEF ReleaseHandle, TableInv
<1>9. Stashed' BY <1>3, <1>8, StashedKept
<1>10. TableTypes' BY <1>3, <1>6, <1>8 DEF TableInv, TableTypes
<1> QED BY <1>6, <1>8, <1>9, <1>10 DEF TableInv

LEMMA RemoveHandleKeeps ==
  ASSUME TableInv, NEW t \in Threads, RemoveHandle(t)
  PROVE  TableInv'
<1>1. /\ local[t] \in Locals /\ local[t].object = NoObject
      /\ local[t].argument \in Slots
      /\ todo[t] # <<>> /\ Head(todo[t]) = "RemoveHandle" /\ WellFormed(todo[t])
  BY AtFacts DEF RemoveHandle, Bare, TableInv, ThreadOk
<1>2. UNCHANGED <<stash, derefs>> BY DEF RemoveHandle, guest
<1>3. ThreadOk(Tail(todo[t]), NoLocals) /\ NoLocals \in Locals /\ NoLocals.object = NoObject
  <2>1. WellFormed(Tail(todo[t])) /\ First(Tail(todo[t])) = "end" BY <1>1, Successor
  <2>2. Tail(todo[t]) = <<>>
    <3>1. Tail(todo[t]) # <<>> => Head(Tail(todo[t])) \in Ops BY <2>1, TailFacts
    <3> QED BY <2>1, <3>1 DEF First, Ops
  <2> QED BY <1>1, <2>2, Scripts, LocalParts DEF ThreadOk, Bare
<1>4. local' = [local EXCEPT ![t] = NoLocals] /\ todo' = [todo EXCEPT ![t] = Tail(todo[t])]
  BY DEF RemoveHandle, Continue
<1>5. /\ CallsOk' /\ DOMAIN todo' = Threads /\ local' \in [Threads -> Locals]
      /\ HolderGets(t, NoObject)
  BY <1>1, <1>3, <1>4, OneCall DEF TableInv
<1>6. HoldersStay BY <1>1, <1>5 DEF HoldersStay, HolderGets
<1>7. /\ table' \in [Slots -> Entries]
      /\ \A g \in Slots : table'[g].object \in {table[g].object, NoObject}
      /\ handles' \in [Objects -> Seq(Slots)] /\ pointers' \in [Objects -> Int]
      /\ names' \in [Names -> Slots \cup {NoHandle}] /\ Counted'
  <2>1. CASE Remove(local[t].argument)
    BY <1>1, <1>6, <2>1, RemoveFacts DEF SlotGets, TableInv
  <2>2. CASE UNCHANGED <<table, lastFree, handles, names, pointers>>
    <3>1. SlotsStay /\ table' \in [Slots -> Entries] BY <2>2, TableStays
    <3>2. Counted' BY <1>6, <2>2, <3>1, NothingCounted DEF TableInv
    <3> QED BY <2>2, <3>1, <3>2 DEF TableInv, TableTypes
  <2> QED BY <2>1, <2>2 DEF RemoveHandle
<1>8. Stashed' BY <1>2, <1>6, <1>7, StashedKept DEF HoldersStay
<1>9. TableTypes' BY <1>2, <1>5, <1>7 DEF TableInv, TableTypes
<1> QED BY <1>5, <1>7, <1>8, <1>9 DEF TableInv

LEMMA AddHandleKeeps ==
  ASSUME TableInv, NEW t \in Threads, AddHandle(t)
  PROVE  TableInv'
<1> DEFINE o == local[t].object
<1>1. PICK h \in Slots : /\ At(t, "AddHandle") /\ IsFreeSlot(h) /\ Insert(o, h)
                         /\ pointers' = [pointers EXCEPT ![o] = @ + 1]
                         /\ Keep(t, h) /\ Continue(t)
                         /\ UNCHANGED <<lastFree, stash, names, guest>>
  BY DEF AddHandle
<1>2. /\ ThreadOk(todo[t], local[t]) /\ local[t] \in Locals
      /\ todo[t] # <<>> /\ Head(todo[t]) = "AddHandle" /\ WellFormed(todo[t])
      /\ Looks(todo[t]) => local[t].argument \in Slots
      /\ o # NoObject /\ o \in Objects /\ stash[o] # NoHandle
  BY <1>1, HeldFacts DEF Bare
<1>3. UNCHANGED <<stash, names, derefs>> BY <1>1 DEF guest
<1>4. /\ table' \in [Slots -> Entries] /\ SlotGets(h, o)
      /\ handles' \in [Objects -> Seq(Slots)]
  BY <1>1, <1>2, InsertFacts DEF TableInv
<1> DEFINE l == [local[t] EXCEPT !.handle = h]
<1>5. l \in Locals /\ l.argument = local[t].argument /\ l.object = o
  BY <1>2, LocalParts
<1>6. local' = [local EXCEPT ![t] = l] /\ todo' = [todo EXCEPT ![t] = Tail(todo[t])]
  BY <1>1 DEF Keep, Continue
<1> HIDE DEF l
<1>7. ThreadOk(Tail(todo[t]), l)
  <2>1. /\ WellFormed(Tail(todo[t])) /\ (Looks(Tail(todo[t])) => Looks(todo[t]))
        /\ First(Tail(todo[t])) \in {"FirstHandle", "GiveHandle"}
    BY <1>2, Successor
  <2> QED BY <1>2, <1>5, <2>1 DEF ThreadOk, Bare
<1>8. /\ CallsOk' /\ DOMAIN todo' = Threads /\ local' \in [Threads -> Locals]
      /\ HolderGets(t, o)
  BY <1>5, <1>6, <1>7, OneCall DEF TableInv
<1>9. HoldersStay BY <1>8 DEF HoldersStay, HolderGets
<1> HIDE DEF o
<1>10. Counted'
  <2>1. table[h].object = NoObject BY <1>1 DEF IsFreeSlot
  <2> QED BY <1>1, <1>4, <1>9, <2>1, SlotCounted DEF TableInv
<1>11. pointers' \in [Objects -> Int] BY <1>1, <1>2 DEF TableInv, TableTypes
<1>12. Stashed' BY <1>2, <1>3, <1>4, <1>9 DEF TableInv, Stashed, SlotGets, HoldersStay
<1>13. TableTypes' BY <1>3, <1>4, <1>8, <1>11 DEF TableInv, TableTypes
<1> QED BY <1>8, <1>10, <1>12, <1>13 DEF TableInv

LEMMA HandleKeeps ==
  ASSUME TableInv, NEW t \in Threads, Handle(t)
  PROVE  TableInv'
<1> DEFINE hs == handles[local[t].object]
<1>1. /\ ThreadOk(todo[t], local[t]) /\ local[t] \in Locals
      /\ todo[t] # <<>> /\ Head(todo[t]) = "handle" /\ WellFormed(todo[t])
      /\ Looks(todo[t]) => local[t].argument \in Slots
      /\ local[t].object # NoObject /\ (hs # <<>> => Head(hs) \in Slots)
  BY HeldFacts DEF Handle, Bare
<1>2. table' = table /\ names' = names /\ UNCHANGED <<handles, pointers, stash, derefs>>
  BY DEF Handle, kernel, guest
<1>3. SlotsStay /\ table' \in [Slots -> Entries] BY <1>2, TableStays
<1>4. names' \in [Names -> Slots \cup {NoHandle}] BY <1>2 DEF TableInv, TableTypes
<1>5. CASE hs # <<>> /\ Keep(t, Head(hs)) /\ Continue(t)
  <2>1. Head(hs) \in Slots BY <1>1, <1>5
  <2> HIDE DEF hs
  <2> DEFINE l == [local[t] EXCEPT !.handle = Head(hs)]
  <2>2. /\ l \in Locals /\ l.argument = local[t].argument
        /\ l.object = local[t].object
    BY <1>1, <2>1, LocalParts
  <2>3. local' = [local EXCEPT ![t] = l] /\ todo' = [todo EXCEPT ![t] = Tail(todo[t])]
    BY <1>5 DEF Keep, Continue
  <2> HIDE DEF l
  <2>4. ThreadOk(Tail(todo[t]), l)
    <3>1. /\ WellFormed(Tail(todo[t])) /\ (Looks(Tail(todo[t])) => Looks(todo[t]))
          /\ First(Tail(todo[t])) = "GiveHandle"
      BY <1>1, Successor
    <3> QED BY <1>1, <2>2, <3>1 DEF ThreadOk, Bare
  <2> QED BY <1>2, <1>3, <1>4, <2>2, <2>3, <2>4, CallMoves
<1>6. CASE /\ todo' = [todo EXCEPT ![t] = <<"AddHandle", "FirstHandle">> \o Tail(@)]
           /\ UNCHANGED local
  <2> DEFINE r == <<"AddHandle", "FirstHandle">> \o Tail(todo[t])
  <2>1. WellFormed(r) /\ First(r) = "AddHandle" /\ (Looks(r) => Looks(todo[t]))
    BY <1>1, HandleScript
  <2>2. todo' = [todo EXCEPT ![t] = r] BY <1>6
  <2> HIDE DEF r
  <2>3. local' = [local EXCEPT ![t] = local[t]] BY <1>6 DEF TableInv, TableTypes
  <2>4. ThreadOk(r, local[t]) BY <1>1, <2>1 DEF ThreadOk, Bare
  <2> QED BY <1>1, <1>2, <1>3, <1>4, <2>2, <2>3, <2>4, CallMoves
<1> QED BY <1>5, <1>6 DEF Handle

LEMMA FirstHandleKeeps ==
  ASSUME TableInv, NEW t \in Threads, FirstHandle(t)
  PROVE  TableInv'
<1> DEFINE hs == handles[local[t].object]
           h == IF hs = <<>> THEN NoHandle ELSE Head(hs)
           l == [local[t] EXCEPT !.handle = h]
<1>1. /\ ThreadOk(todo[t], local[t]) /\ local[t] \in Locals
      /\ todo[t] # <<>> /\ Head(todo[t]) = "FirstHandle" /\ WellFormed(todo[t])
      /\ Looks(todo[t]) => local[t].argument \in Slots
      /\ local[t].object # NoObject /\ (hs # <<>> => Head(hs) \in Slots)
  BY HeldFacts DEF FirstHandle, Bare
<1>2. table' = table /\ names' = names /\ UNCHANGED <<handles, pointers, stash, derefs>>
  BY DEF FirstHandle, kernel, guest
<1>3. SlotsStay /\ table' \in [Slots -> Entries] BY <1>2, TableStays
<1>4. names' \in [Names -> Slots \cup {NoHandle}] BY <1>2 DEF TableInv, TableTypes
<1>5. local' = [local EXCEPT ![t] = l] /\ todo' = [todo EXCEPT ![t] = Tail(todo[t])]
  BY DEF FirstHandle, Keep, Continue
<1>6. h \in Slots \cup {NoHandle} BY <1>1
<1> HIDE DEF h
<1>7. l \in Locals /\ l.argument = local[t].argument /\ l.object = local[t].object
  BY <1>1, <1>6, LocalParts
<1> HIDE DEF l
<1>8. ThreadOk(Tail(todo[t]), l)
  <2>1. /\ WellFormed(Tail(todo[t])) /\ (Looks(Tail(todo[t])) => Looks(todo[t]))
        /\ First(Tail(todo[t])) = "GiveHandle"
    BY <1>1, Successor
  <2> QED BY <1>1, <1>7, <2>1 DEF ThreadOk, Bare
<1> QED BY <1>2, <1>3, <1>4, <1>5, <1>7, <1>8, CallMoves

\* The end of the object_ref of a call.
LEMMA DropFacts ==
  ASSUME TableInv, NEW t \in Threads, NEW op \in {"GiveHandle", "GivePointer", "DropObject"},
         At(t, op), Drop(t), Continue(t),
         UNCHANGED <<table, handles, stash, names>>, derefs' \in [Objects -> Int],
         \A o \in Objects : derefs'[o] <= derefs[o] \/ o = local[t].object
  PROVE  TableInv'
<1> DEFINE l == IF Len(todo[t]) = 1 THEN NoLocals ELSE [local[t] EXCEPT !.object = NoObject]
<1>1. /\ ThreadOk(todo[t], local[t]) /\ local[t] \in Locals
      /\ todo[t] # <<>> /\ Head(todo[t]) = op /\ WellFormed(todo[t])
      /\ Looks(todo[t]) => local[t].argument \in Slots
      /\ local[t].object \in Objects /\ stash[local[t].object] # NoHandle
  BY HeldFacts DEF Bare
<1>2. local' = [local EXCEPT ![t] = l] /\ todo' = [todo EXCEPT ![t] = Tail(todo[t])]
  BY DEF Drop, Continue
<1>3. /\ l \in Locals /\ l.object = NoObject
      /\ Len(todo[t]) # 1 => l.argument = local[t].argument
  <2>1. CASE Len(todo[t]) = 1 BY <1>1, <2>1, LocalParts
  <2>2. CASE Len(todo[t]) # 1
    <3> DEFINE m == [local[t] EXCEPT !.object = NoObject]
    <3>0. NoObject \in Objects \cup {NoObject} OBVIOUS
    <3>1. m \in Locals /\ m.object = NoObject /\ m.argument = local[t].argument
      BY <1>1, <3>0, LocalParts
    <3>2. l = m BY <2>2
    <3> HIDE DEF l, m
    <3> QED BY <3>1, <3>2
  <2> QED BY <2>1, <2>2
<1> HIDE DEF l
<1>4. ThreadOk(Tail(todo[t]), l)
  <2>1. /\ WellFormed(Tail(todo[t])) /\ (Looks(Tail(todo[t])) => Looks(todo[t]))
        /\ First(Tail(todo[t])) \in {"end", "RemoveHandle"}
    BY <1>1, Successor
  <2>2. Looks(Tail(todo[t])) => Len(todo[t]) # 1 BY <1>1, TailFacts, Scripts
  <2> QED BY <1>1, <1>3, <2>1, <2>2 DEF ThreadOk, Bare
<1>5. /\ CallsOk' /\ DOMAIN todo' = Threads /\ local' \in [Threads -> Locals]
      /\ HolderGets(t, NoObject)
  BY <1>2, <1>3, <1>4, OneCall DEF TableInv
<1>6. SlotsStay /\ table' \in [Slots -> Entries] BY TableStays
<1>7. pointers' = [pointers EXCEPT ![local[t].object] = @ - 1] BY DEF Drop
<1>8. Counted' BY <1>5, <1>6, <1>7, HolderUncounted DEF TableInv
<1>9. pointers' \in [Objects -> Int] BY <1>1, <1>7 DEF TableInv, TableTypes
<1>10. Stashed'
  <2>1. \A u \in Threads : local'[u].object \in {local[u].object, NoObject}
    BY <1>5 DEF HolderGets
  <2>2. derefs \in [Objects -> Int] BY DEF TableInv, TableTypes
  <2> SUFFICES ASSUME NEW o \in Objects, stash[o] = NoHandle
               PROVE  /\ \A h \in Slots : table'[h].object # o
                      /\ \A u \in Threads : local'[u].object # o
                      /\ derefs'[o] <= 0
    BY DEF Stashed
  <2>3. /\ \A h \in Slots : table[h].object # o
        /\ \A u \in Threads : local[u].object # o
        /\ derefs[o] <= 0
    BY DEF TableInv, Stashed
  <2>4. \A h \in Slots : table'[h].object # o BY <1>6, <2>3 DEF SlotsStay
  <2>5. \A u \in Threads : local'[u].object # o BY <2>1, <2>3, ObjectAssumption
  <2>6. derefs'[o] <= derefs[o] BY <2>3
  <2>7. derefs'[o] \in Int /\ derefs[o] \in Int BY <2>2
  <2> QED BY <2>3, <2>4, <2>5, <2>6, <2>7
<1>11. TableTypes' BY <1>5, <1>6, <1>9 DEF TableInv, TableTypes
<1> QED BY <1>5, <1>8, <1>10, <1>11 DEF TableInv

LEMMA GiveHandleKeeps ==
  ASSUME TableInv, NEW t \in Threads, GiveHandle(t) \/ DropObject(t)
  PROVE  TableInv'
<1>1. derefs' = derefs /\ derefs \in [Objects -> Int]
  BY DEF GiveHandle, DropObject, guest, TableInv, TableTypes
<1>2. \A o \in Objects : derefs'[o] <= derefs[o] BY <1>1
<1> QED BY <1>1, <1>2, DropFacts DEF GiveHandle, DropObject

LEMMA GivePointerKeeps ==
  ASSUME TableInv, NEW t \in Threads, GivePointer(t)
  PROVE  TableInv'
<1>1. derefs \in [Objects -> Int] BY DEF TableInv, TableTypes
<1>2. derefs' = [derefs EXCEPT ![local[t].object] = @ + 1] BY DEF GivePointer
<1>3. derefs' \in [Objects -> Int]
  <2> DEFINE p == local[t].object
  <2>1. derefs' = [derefs EXCEPT ![p] = derefs[p] + 1] BY <1>2
  <2> HIDE DEF p
  <2>2. p \in Objects => derefs[p] + 1 \in Int BY <1>1
  <2> QED BY <1>1, <2>1, <2>2
<1>4. \A o \in Objects : derefs'[o] <= derefs[o] \/ o = local[t].object BY <1>1, <1>2
<1> QED BY <1>3, <1>4, DropFacts DEF GivePointer

LEMMA NamedScript ==
  <<"AddNameMapping">> \o <<"handle", "GiveHandle">> =
    <<"AddNameMapping", "handle", "GiveHandle">>
<1> DEFINE a == <<"AddNameMapping">>
           b == <<"handle", "GiveHandle">>
           c == <<"AddNameMapping", "handle", "GiveHandle">>
<1>1. a \in Seq(Ops) /\ b \in Seq(Ops) /\ c \in Seq(Ops) BY DEF Ops
<1>2. /\ Len(a) = 1 /\ a[1] = "AddNameMapping"
      /\ Len(b) = 2 /\ b[1] = "handle" /\ b[2] = "GiveHandle"
      /\ Len(c) = 3 /\ c[1] = "AddNameMapping" /\ c[2] = "handle" /\ c[3] = "GiveHandle"
  OBVIOUS
<1> HIDE DEF a, b, c
<1>3. /\ a \o b \in Seq(Ops) /\ Len(a \o b) = 1 + 2
      /\ \A i \in 1 .. 1 + 2 : (a \o b)[i] = IF i <= 1 THEN a[i] ELSE b[i - 1]
  <2>1. /\ a \o b \in Seq(Ops) /\ Len(a \o b) = Len(a) + Len(b)
        /\ \A i \in 1 .. Len(a) + Len(b) :
             (a \o b)[i] = IF i <= Len(a) THEN a[i] ELSE b[i - Len(a)]
    BY <1>1, ConcatProperties
  <2> QED BY <1>2, <2>1
<1>4. Len(a \o b) = 3 BY <1>3
<1>5. \A i \in 1 .. 3 : (a \o b)[i] = c[i]
  <2>1. (a \o b)[1] = a[1] /\ (a \o b)[2] = b[1] /\ (a \o b)[3] = b[2] BY <1>3
  <2>2. \A i \in 1 .. 3 : i = 1 \/ i = 2 \/ i = 3 OBVIOUS
  <2> QED BY <1>2, <2>1, <2>2
<1> QED BY <1>1, <1>2, <1>3, <1>4, <1>5, SeqEqual DEF a, b, c

LEMMA NewScript ==
  ASSUME NEW n
  PROVE  LET r == (IF n = NoName THEN <<>> ELSE <<"AddNameMapping">>)
                    \o <<"handle", "GiveHandle">>
         IN  WellFormed(r) /\ ~Looks(r) /\ First(r) \in {"handle", "AddNameMapping"}
<1>1. <<>> \o <<"handle", "GiveHandle">> = <<"handle", "GiveHandle">> OBVIOUS
<1>2. <<"AddNameMapping">> \o <<"handle", "GiveHandle">> =
        <<"AddNameMapping", "handle", "GiveHandle">>
  BY NamedScript
<1>3. CASE n = NoName BY <1>1, <1>3, Scripts
<1>4. CASE n # NoName BY <1>2, <1>4, Scripts
<1> QED BY <1>3, <1>4

LEMMA NewKeeps ==
  ASSUME TableInv, NEW t \in Threads, New(t)
  PROVE  TableInv'
<1> DEFINE r == (IF local[t].name = NoName THEN <<>> ELSE <<"AddNameMapping">>)
                  \o <<"handle", "GiveHandle">>
<1>1. PICK o \in Objects, h \in Slots :
        /\ At(t, "New") /\ stash[o] = NoHandle
        /\ IsFreeSlot(h) /\ Insert(o, h)
        /\ stash' = [stash EXCEPT ![o] = h]
        /\ pointers' = [pointers EXCEPT ![o] = 2]
        /\ local' = [local EXCEPT ![t].object = o]
        /\ todo' = [todo EXCEPT ![t] = r]
        /\ UNCHANGED <<lastFree, names, guest>>
  BY DEF New
<1>2. local[t] \in Locals /\ local[t].object = NoObject
  BY <1>1, AtFacts DEF TableInv, Bare
<1>3. WellFormed(r) /\ ~Looks(r) /\ First(r) \in {"handle", "AddNameMapping"}
  BY NewScript
<1> HIDE DEF r
<1> DEFINE l == [local[t] EXCEPT !.object = o]
<1>4. l \in Locals /\ l.object = o BY <1>2, LocalParts
<1>5. local' = [local EXCEPT ![t] = l] BY <1>1
<1> HIDE DEF l
<1>6. ThreadOk(r, l) BY <1>3, <1>4, ObjectAssumption DEF ThreadOk, Bare
<1>7. /\ CallsOk' /\ DOMAIN todo' = Threads /\ local' \in [Threads -> Locals]
      /\ HolderGets(t, o)
  BY <1>1, <1>4, <1>5, <1>6, OneCall DEF TableInv
<1>8. /\ table' \in [Slots -> Entries] /\ SlotGets(h, o)
      /\ handles' \in [Objects -> Seq(Slots)]
  BY <1>1, InsertFacts DEF TableInv
<1>9. Counted'
  <2>1. SlotsOf(o) = {} /\ HoldersOf(o) = {}
    BY <1>1 DEF TableInv, Stashed, SlotsOf, HoldersOf
  <2>2. table[h].object = NoObject BY <1>1 DEF IsFreeSlot
  <2> QED BY <1>1, <1>2, <1>7, <1>8, <2>1, <2>2, NewCounted DEF TableInv
<1>10. /\ pointers' \in [Objects -> Int] /\ stash' \in [Objects -> Slots \cup {NoHandle}]
       /\ names' \in [Names -> Slots \cup {NoHandle}] /\ derefs' \in [Objects -> Int]
  BY <1>1 DEF guest, TableInv, TableTypes
<1>11. Stashed'
  <2>1. stash'[o] # NoHandle /\ \A p \in Objects \ {o} : stash'[p] = stash[p]
    BY <1>1, TableAssumption DEF TableInv, TableTypes
  <2>2. derefs' = derefs BY <1>1 DEF guest
  <2> QED BY <1>7, <1>8, <2>1, <2>2 DEF TableInv, Stashed, SlotGets, HolderGets
<1>12. TableTypes' BY <1>7, <1>8, <1>10 DEF TableTypes
<1> QED BY <1>7, <1>9, <1>11, <1>12 DEF TableInv

LEMMA AddNameMappingKeeps ==
  ASSUME TableInv, NEW t \in Threads, AddNameMapping(t)
  PROVE  TableInv'
<1> DEFINE hs == handles[local[t].object]
<1>1. /\ ThreadOk(todo[t], local[t]) /\ local[t] \in Locals
      /\ todo[t] # <<>> /\ Head(todo[t]) = "AddNameMapping" /\ WellFormed(todo[t])
      /\ Looks(todo[t]) => local[t].argument \in Slots
      /\ local[t].object # NoObject /\ (hs # <<>> => Head(hs) \in Slots)
  BY HeldFacts DEF AddNameMapping, Bare
<1>2. UNCHANGED <<table, handles, pointers, stash, derefs>>
  BY DEF AddNameMapping, guest
<1>3. SlotsStay /\ table' \in [Slots -> Entries] BY <1>2, TableStays
<1>4. names' \in [Names -> Slots \cup {NoHandle}]
  <2> DEFINE n == local[t].name
             h == IF names[n] = NoHandle /\ hs # <<>> THEN Head(hs) ELSE names[n]
  <2>1. names' = [names EXCEPT ![n] = h] BY DEF AddNameMapping
  <2>2. names \in [Names -> Slots \cup {NoHandle}] BY DEF TableInv, TableTypes
  <2>3. n \in Names => h \in Slots \cup {NoHandle} BY <1>1, <2>2
  <2> HIDE DEF n, h
  <2> QED BY <2>1, <2>2, <2>3
<1>5. ThreadOk(Tail(todo[t]), local[t])
  <2>1. /\ WellFormed(Tail(todo[t])) /\ (Looks(Tail(todo[t])) => Looks(todo[t]))
        /\ First(Tail(todo[t])) = "handle"
    BY <1>1, Successor
  <2> QED BY <1>1, <2>1 DEF ThreadOk, Bare
<1>6. /\ local' = [local EXCEPT ![t] = local[t]]
      /\ todo' = [todo EXCEPT ![t] = Tail(todo[t])]
  BY DEF AddNameMapping, Continue, TableInv, TableTypes
<1> QED BY <1>1, <1>2, <1>3, <1>4, <1>5, <1>6, CallMoves

-----------------------------------------------------------------------------
(* The calls of the guest keep the invariant. *)

LEMMA IdleFacts ==
  ASSUME TableInv, NEW t \in Threads, Idle(t)
  PROVE  local[t] \in Locals /\ local[t].object = NoObject
<1>1. ThreadOk(todo[t], local[t]) BY DEF TableInv, CallsOk
<1>2. local[t].object = NoObject BY <1>1 DEF ThreadOk, First, Bare, Idle
<1>3. local[t] \in Locals BY DEF TableInv, TableTypes
<1> QED BY <1>2, <1>3

\* A call begins with a handle of the guest.
LEMMA CallBegins ==
  ASSUME TableInv, NEW t \in Threads, Idle(t), NEW s, WellFormed(s), First(s) = "LookupObject",
         NEW l \in Locals, l.argument \in Slots, l.object = NoObject,
         todo' = [todo EXCEPT ![t] = s], local' = [local EXCEPT ![t] = l],
         SlotsStay, table' \in [Slots -> Entries],
         UNCHANGED <<handles, pointers, stash, names>>, derefs' \in [Objects -> Int],
         \A o \in Objects : derefs'[o] <= derefs[o]
  PROVE  TableInv'
<1>1. local[t].object = NoObject BY IdleFacts
<1>2. ThreadOk(s, l) BY DEF ThreadOk, Bare
<1>3. /\ CallsOk' /\ DOMAIN todo' = Threads /\ local' \in [Threads -> Locals]
      /\ HolderGets(t, l.object)
  BY <1>2, OneCall DEF TableInv
<1>4. HoldersStay BY <1>1, <1>3 DEF HolderGets, HoldersStay
<1>5. Counted' BY <1>4, NothingCounted DEF TableInv
<1>6. Stashed'
  <2> SUFFICES ASSUME NEW o \in Objects, stash[o] = NoHandle
               PROVE  /\ \A h \in Slots : table'[h].object # o
                      /\ \A u \in Threads : local'[u].object # o
                      /\ derefs'[o] <= 0
    BY DEF Stashed
  <2>1. /\ \A h \in Slots : table[h].object # o
        /\ \A u \in Threads : local[u].object # o
        /\ derefs[o] <= 0
    BY DEF TableInv, Stashed
  <2>2. \A h \in Slots : table'[h].object # o BY <2>1 DEF SlotsStay
  <2>3. \A u \in Threads : local'[u].object # o BY <1>4, <2>1 DEF HoldersStay
  <2>4. derefs'[o] \in Int /\ derefs[o] \in Int /\ derefs'[o] <= derefs[o]
    BY DEF TableInv, TableTypes
  <2> QED BY <2>1, <2>2, <2>3, <2>4
<1>7. TableTypes' BY <1>3 DEF TableInv, TableTypes
<1> QED BY <1>3, <1>5, <1>6, <1>7 DEF TableInv

LEMMA MappedFacts ==
  ASSUME TableInv, NEW n \in Names, Mapped(n)
  PROVE  names[n] \in Slots
<1>1. names[n] \in Slots \cup {NoHandle} BY DEF TableInv, TableTypes
<1>2. n # NoName BY ObjectAssumption
<1>3. names[n] # NoHandle BY <1>2 DEF Mapped
<1> QED BY <1>1, <1>3

LEMMA RetainNamedFacts ==
  ASSUME TableInv, NEW n, RetainNamed(n)
  PROVE  SlotsStay /\ table' \in [Slots -> Entries]
<1>1. CASE UNCHANGED table BY <1>1, TableStays
<1>2. CASE Retain(Head(handles[table[names[n]].object]))
  BY <1>2, RetainFacts DEF TableInv
<1> QED BY <1>1, <1>2 DEF RetainNamed

LEMMA CreateKeeps ==
  ASSUME TableInv, NEW t \in Threads, Create(t)
  PROVE  TableInv'
<1> DEFINE s == <<"LookupObject", "ReadHandle", "ReleaseHandle", "ReadHandle",
                  "RetainHandle", "handle", "GiveHandle">>
<1>1. PICK n \in Names \cup {NoName} :
        /\ Idle(t)
        /\ \/ /\ Mapped(n) /\ RetainNamed(n)
              /\ local' = [local EXCEPT ![t] =
                             [NoLocals EXCEPT !.name = n, !.argument = names[n]]]
              /\ todo' = [todo EXCEPT ![t] = s]
           \/ /\ local' = [local EXCEPT ![t].name = n]
              /\ todo' = [todo EXCEPT ![t] = <<"New">>]
              /\ UNCHANGED table
        /\ UNCHANGED <<lastFree, handles, pointers, stash, names, guest>>
  BY ZenonT(30) DEF Create
<1>2. local[t] \in Locals /\ local[t].object = NoObject BY <1>1, IdleFacts
<1>3. UNCHANGED <<handles, pointers, stash, names, derefs>> BY <1>1 DEF guest
<1>4. derefs' \in [Objects -> Int] /\ \A o \in Objects : derefs'[o] <= derefs[o]
  BY <1>3 DEF TableInv, TableTypes
<1>5. WellFormed(s) /\ First(s) = "LookupObject" BY Scripts
<1> HIDE DEF s
<1>6. CASE /\ Mapped(n) /\ RetainNamed(n)
           /\ local' = [local EXCEPT ![t] =
                          [NoLocals EXCEPT !.name = n, !.argument = names[n]]]
           /\ todo' = [todo EXCEPT ![t] = s]
  <2> DEFINE l == [NoLocals EXCEPT !.name = n, !.argument = names[n]]
  <2>1. n \in Names BY <1>1, <1>6 DEF Mapped
  <2>2. names[n] \in Slots BY <1>6, <2>1, MappedFacts
  <2>3. l \in Locals /\ l.argument = names[n] /\ l.object = NoObject
    BY <1>1, <2>2 DEF NoLocals, Locals
  <2>4. local' = [local EXCEPT ![t] = l] BY <1>6
  <2> HIDE DEF l
  <2>5. SlotsStay /\ table' \in [Slots -> Entries] BY <1>6, RetainNamedFacts
  <2> QED BY <1>1, <1>3, <1>4, <1>5, <1>6, <2>2, <2>3, <2>4, <2>5, CallBegins
<1>7. CASE /\ local' = [local EXCEPT ![t].name = n]
           /\ todo' = [todo EXCEPT ![t] = <<"New">>]
           /\ UNCHANGED table
  <2> DEFINE l == [local[t] EXCEPT !.name = n]
  <2>1. l \in Locals /\ l.object = local[t].object BY <1>1, <1>2, LocalParts
  <2>2. local' = [local EXCEPT ![t] = l] BY <1>7
  <2> HIDE DEF l
  <2>3. ThreadOk(<<"New">>, l) BY <1>2, <2>1, Scripts DEF ThreadOk, Bare
  <2>4. SlotsStay /\ table' \in [Slots -> Entries] BY <1>7, TableStays
  <2>5. names' \in [Names -> Slots \cup {NoHandle}] BY <1>3 DEF TableInv, TableTypes
  <2> QED BY <1>3, <1>7, <2>1, <2>2, <2>3, <2>4, <2>5, CallMoves
<1> QED BY <1>1, <1>6, <1>7

LEMMA CloseKeeps ==
  ASSUME TableInv, NEW t \in Threads, Close(t)
  PROVE  TableInv'
<1>1. PICK h \in Slots : Release(h) /\ UNCHANGED <<stash, calls, denotes, derefs>>
  BY DEF Close
<1>2. UNCHANGED <<stash, todo, local, derefs>> BY <1>1 DEF calls
<1>3. HoldersStay BY <1>2 DEF HoldersStay
<1>4. /\ table' \in [Slots -> Entries]
      /\ \A g \in Slots : table'[g].object \in {table[g].object, NoObject}
      /\ handles' \in [Objects -> Seq(Slots)] /\ pointers' \in [Objects -> Int]
      /\ names' \in [Names -> Slots \cup {NoHandle}] /\ Counted'
  BY <1>1, <1>3, ReleaseFacts DEF TableInv
<1>5. Stashed' BY <1>2, <1>4, StashedKept
<1>6. TableTypes' BY <1>2, <1>4 DEF TableInv, TableTypes
<1>7. CallsOk' BY <1>2 DEF TableInv, CallsOk
<1> QED BY <1>4, <1>5, <1>6, <1>7 DEF TableInv

LEMMA CallKeeps ==
  ASSUME TableInv, NEW t \in Threads, NEW h \in Slots,
         NEW ops, WellFormed(ops), First(ops) = "LookupObject", Call(t, h, ops)
  PROVE  TableInv'
<1>1. local[t] \in Locals /\ local[t].object = NoObject BY IdleFacts DEF Call
<1>2. UNCHANGED <<table, handles, pointers, stash, names, derefs>> BY DEF Call, kernel
<1>3. derefs' \in [Objects -> Int] /\ \A o \in Objects : derefs'[o] <= derefs[o]
  BY <1>2 DEF TableInv, TableTypes
<1>4. SlotsStay /\ table' \in [Slots -> Entries] BY <1>2, TableStays
<1> DEFINE l == [local[t] EXCEPT !.argument = h]
<1>5. l \in Locals /\ l.argument = h /\ l.object = NoObject BY <1>1, LocalParts
<1>6. local' = [local EXCEPT ![t] = l] /\ todo' = [todo EXCEPT ![t] = ops] BY DEF Call
<1> HIDE DEF l
<1> QED BY <1>2, <1>3, <1>4, <1>5, <1>6, CallBegins DEF Call

LEMMA ByHandleKeeps ==
  ASSUME TableInv, NEW t \in Threads, Duplicate(t) \/ Move(t) \/ Reference(t)
  PROVE  TableInv'
<1> DEFINE d == <<"LookupObject", "AddHandle", "GiveHandle">>
           m == <<"LookupObject", "AddHandle", "GiveHandle", "RemoveHandle">>
           r == <<"LookupObject", "ReadHandle", "RetainHandle", "GivePointer">>
<1>1. PICK h \in Slots : Call(t, h, d) \/ Call(t, h, m) \/ Call(t, h, r)
  BY DEF Duplicate, Move, Reference
<1>2. \A s \in {d, m, r} : WellFormed(s) /\ First(s) = "LookupObject" BY Scripts
<1> HIDE DEF d, m, r
<1> QED BY <1>1, <1>2, CallKeeps

LEMMA ReferenceByNameKeeps ==
  ASSUME TableInv, NEW t \in Threads, ReferenceByName(t)
  PROVE  TableInv'
<1> DEFINE s == <<"LookupObject", "ReadHandle", "RetainHandle", "GivePointer">>
<1>1. PICK n \in Names :
        /\ Idle(t) /\ Mapped(n) /\ RetainNamed(n)
        /\ local' = [local EXCEPT ![t].argument = names[n]]
        /\ todo' = [todo EXCEPT ![t] = s]
        /\ UNCHANGED <<lastFree, handles, pointers, stash, names, guest>>
  BY DEF ReferenceByName
<1>2. WellFormed(s) /\ First(s) = "LookupObject" BY Scripts
<1> HIDE DEF s
<1>3. names[n] \in Slots BY <1>1, MappedFacts
<1>4. local[t] \in Locals /\ local[t].object = NoObject BY <1>1, IdleFacts
<1>5. UNCHANGED <<handles, pointers, stash, names, derefs>> BY <1>1 DEF guest
<1>6. derefs' \in [Objects -> Int] /\ \A o \in Objects : derefs'[o] <= derefs[o]
  BY <1>5 DEF TableInv, TableTypes
<1>7. SlotsStay /\ table' \in [Slots -> Entries] BY <1>1, RetainNamedFacts
<1> DEFINE l == [local[t] EXCEPT !.argument = names[n]]
<1>8. l \in Locals /\ l.argument = names[n] /\ l.object = NoObject
  BY <1>3, <1>4, LocalParts
<1>9. local' = [local EXCEPT ![t] = l] BY <1>1
<1> HIDE DEF l
<1> QED BY <1>1, <1>2, <1>3, <1>5, <1>6, <1>7, <1>8, <1>9, CallBegins

LEMMA OpenByNameKeeps ==
  ASSUME TableInv, NEW t \in Threads, OpenByName(t)
  PROVE  TableInv'
<1>1. /\ SlotsStay /\ table' \in [Slots -> Entries]
      /\ UNCHANGED <<handles, pointers, stash, names, todo, local, derefs>>
  BY RetainNamedFacts DEF OpenByName, calls
<1>2. HoldersStay BY <1>1 DEF HoldersStay
<1>3. Counted' BY <1>1, <1>2, NothingCounted DEF TableInv
<1>4. Stashed' BY <1>1, StashedKept DEF SlotsStay
<1>5. TableTypes' /\ CallsOk' BY <1>1 DEF TableInv, TableTypes, CallsOk
<1> QED BY <1>3, <1>4, <1>5 DEF TableInv

LEMMA DereferenceKeeps ==
  ASSUME TableInv, NEW t \in Threads, Dereference(t)
  PROVE  TableInv'
<1> DEFINE s == <<"LookupObject", "ReadHandle", "ReleaseHandle", "DropObject">>
<1>1. PICK o \in Objects :
        /\ Idle(t) /\ derefs[o] > 0
        /\ derefs' = [derefs EXCEPT ![o] = @ - 1]
        /\ local' = [local EXCEPT ![t].argument = stash[o]]
        /\ todo' = [todo EXCEPT ![t] = s]
        /\ UNCHANGED <<kernel, owned, denotes>>
  BY DEF Dereference
<1>2. WellFormed(s) /\ First(s) = "LookupObject" BY Scripts
<1> HIDE DEF s
<1>3. local[t] \in Locals /\ local[t].object = NoObject BY <1>1, IdleFacts
<1>4. derefs \in [Objects -> Int] /\ stash[o] \in Slots \cup {NoHandle}
  BY DEF TableInv, TableTypes
<1>5. stash[o] \in Slots
  <2>1. stash[o] = NoHandle => derefs[o] <= 0 BY DEF TableInv, Stashed
  <2>2. derefs[o] \in Int BY <1>4
  <2> QED BY <1>1, <1>4, <2>1, <2>2
<1>6. derefs' \in [Objects -> Int] /\ \A p \in Objects : derefs'[p] <= derefs[p]
  BY <1>1, <1>4
<1>7. UNCHANGED <<table, handles, pointers, stash, names>> BY <1>1 DEF kernel
<1>8. SlotsStay /\ table' \in [Slots -> Entries] BY <1>7, TableStays
<1> DEFINE l == [local[t] EXCEPT !.argument = stash[o]]
<1>9. l \in Locals /\ l.argument = stash[o] /\ l.object = NoObject
  BY <1>3, <1>5, LocalParts
<1>10. local' = [local EXCEPT ![t] = l] BY <1>1
<1> HIDE DEF l
<1> QED BY <1>1, <1>2, <1>5, <1>6, <1>7, <1>8, <1>9, <1>10, CallBegins

\* When every thread is idle, an object has only the pointers of its entries.
LEMMA PurgeKeeps ==
  ASSUME TableInv, PurgeAllObjects
  PROVE  TableInv'
<1>1. UNCHANGED <<handles, stash, names, todo, local>> BY DEF PurgeAllObjects, calls
<1>2. table' = [h \in Slots |-> Free] /\ derefs' = [o \in Objects |-> 0]
  BY DEF PurgeAllObjects
<1>3. pointers' = [o \in Objects |-> pointers[o] - Cardinality(SlotsOf(o))]
  BY DEF PurgeAllObjects, SlotsOf
<1>4. \A o \in Objects : HoldersOf(o) = {} /\ HoldersOf(o)' = {} /\ SlotsOf(o)' = {}
  <2> TAKE o \in Objects
  <2>1. \A t \in Threads : local[t].object = NoObject BY IdleFacts DEF PurgeAllObjects
  <2>2. o # NoObject BY ObjectAssumption
  <2>3. HoldersOf(o) = {} BY <2>1, <2>2 DEF HoldersOf
  <2>4. HoldersOf(o)' = {} BY <1>1, <2>1, <2>2 DEF HoldersOf
  <2>5. SlotsOf(o)' = {} BY <1>2, <2>2 DEF SlotsOf, Free
  <2> QED BY <2>3, <2>4, <2>5
<1>5. Counted'
  <2> SUFFICES ASSUME NEW o \in Objects
               PROVE  pointers'[o] = Cardinality(SlotsOf(o))' + Cardinality(HoldersOf(o))'
    BY DEF Counted
  <2>1. pointers[o] = Cardinality(SlotsOf(o)) + Cardinality(HoldersOf(o))
    BY DEF TableInv, Counted
  <2>2. Cardinality(HoldersOf(o)) = 0 BY <1>4, FS_EmptySet
  <2>3. Cardinality(SlotsOf(o))' = 0
    <3>1. SlotsOf(o)' = {} BY <1>4
    <3> QED BY <3>1, FS_EmptySet
  <2>4. Cardinality(HoldersOf(o))' = 0
    <3>1. HoldersOf(o)' = {} BY <1>4
    <3> QED BY <3>1, FS_EmptySet
  <2>5. pointers'[o] = pointers[o] - Cardinality(SlotsOf(o)) BY <1>3
  <2> QED BY <2>1, <2>2, <2>3, <2>4, <2>5, FiniteCounts
<1>6. Stashed' BY <1>1, <1>2, ObjectAssumption DEF TableInv, Stashed, Free
<1>7. pointers' \in [Objects -> Int] BY <1>3, FiniteCounts DEF TableInv, TableTypes
<1>8. table' \in [Slots -> Entries] BY <1>2 DEF Entries, Free
<1>9. TableTypes' BY <1>1, <1>2, <1>7, <1>8 DEF TableInv, TableTypes
<1>10. CallsOk' BY <1>1 DEF TableInv, CallsOk
<1> QED BY <1>5, <1>6, <1>9, <1>10 DEF TableInv

-----------------------------------------------------------------------------
(* The theorem. *)

LEMMA InitTable == Init => TableInv
<1> SUFFICES ASSUME Init PROVE TableInv
  OBVIOUS
<1>1. TableTypes
  <2>1. \A o \in Objects : <<>> \in Seq(Slots) OBVIOUS
  <2>2. NoLocals \in Locals BY DEF NoLocals, Locals
  <2> QED BY <2>1, <2>2 DEF Init, TableTypes, Entries, Free
<1>2. CallsOk BY Scripts DEF Init, CallsOk, ThreadOk, Bare, NoLocals
<1>3. \A h \in Slots : table[h].object = NoObject BY DEF Init, Free
<1>4. \A t \in Threads : local[t].object = NoObject BY DEF Init, NoLocals
<1>5. Stashed BY <1>3, <1>4, ObjectAssumption DEF Init, Stashed
<1>6. Counted
  <2> SUFFICES ASSUME NEW o \in Objects
               PROVE  pointers[o] = Cardinality(SlotsOf(o)) + Cardinality(HoldersOf(o))
    BY DEF Counted
  <2>1. SlotsOf(o) = {} /\ HoldersOf(o) = {}
    BY <1>3, <1>4, ObjectAssumption DEF SlotsOf, HoldersOf
  <2>2. Cardinality(SlotsOf(o)) = 0 /\ Cardinality(HoldersOf(o)) = 0 BY <2>1, FS_EmptySet
  <2>3. pointers[o] = 0 BY DEF Init
  <2> QED BY <2>2, <2>3
<1> QED BY <1>1, <1>2, <1>5, <1>6 DEF TableInv

\* One of the titles was launched, and it stays.
Launched == title \in Titles

LEMMA LaunchedTitle ==
  ASSUME Launched
  PROVE  /\ title.threads \subseteq Threads
         /\ NameOf \in [Objects -> Names \cup {NoName}]
<1>1. title \in [calls : SUBSET GuestCalls, threads : SUBSET Threads,
                 names : [Objects -> Names \cup {NoName}], careful : BOOLEAN]
  BY TitleAssumption DEF Launched
<1> QED BY <1>1 DEF NameOf

LEMMA TitleStays == [Next]_vars => title' = title
BY DEF Next, vars

LEMMA LaunchInvariant == Spec => []Launched
<1>1. Init => Launched BY DEF Init, Launched
<1>2. Launched /\ [Next]_vars => Launched' BY TitleStays DEF Launched
<1> QED BY <1>1, <1>2, PTL DEF Spec

LEMMA StepTable == Launched /\ TableInv /\ [Next]_vars => TableInv'
<1> SUFFICES ASSUME Launched, TableInv, [Next]_vars PROVE TableInv'
  OBVIOUS
<1>1. CASE PurgeAllObjects BY <1>1, PurgeKeeps
<1>2. ASSUME NEW t \in Threads, Operation(t) PROVE TableInv'
  <2>1. CASE LookupObject(t) BY <2>1, LookupObjectKeeps
  <2>2. CASE ReadHandle(t) BY <2>2, ReadHandleKeeps
  <2>3. CASE RetainHandle(t) BY <2>3, RetainHandleKeeps
  <2>4. CASE ReleaseHandle(t) BY <2>4, ReleaseHandleKeeps
  <2>5. CASE RemoveHandle(t) BY <2>5, RemoveHandleKeeps
  <2>6. CASE AddHandle(t) BY <2>6, AddHandleKeeps
  <2>7. CASE Handle(t) BY <2>7, HandleKeeps
  <2>8. CASE FirstHandle(t) BY <2>8, FirstHandleKeeps
  <2>9. CASE GiveHandle(t) \/ DropObject(t) BY <2>9, GiveHandleKeeps
  <2>10. CASE GivePointer(t) BY <2>10, GivePointerKeeps
  <2>11. CASE New(t) BY <2>11, NewKeeps
  <2>12. CASE AddNameMapping(t) BY <2>12, AddNameMappingKeeps
  <2> QED
    BY <1>2, <2>1, <2>2, <2>3, <2>4, <2>5, <2>6, <2>7, <2>8, <2>9, <2>10, <2>11, <2>12
    DEF Operation
<1>3. ASSUME NEW t \in Threads, GuestCall(t) PROVE TableInv'
  <2>1. CASE Create(t) BY <2>1, CreateKeeps
  <2>2. CASE Close(t) BY <2>2, CloseKeeps
  <2>3. CASE Duplicate(t) \/ Move(t) \/ Reference(t) BY <2>3, ByHandleKeeps
  <2>4. CASE OpenByName(t) BY <2>4, OpenByNameKeeps
  <2>5. CASE ReferenceByName(t) BY <2>5, ReferenceByNameKeeps
  <2>6. CASE Dereference(t) BY <2>6, DereferenceKeeps
  <2> QED BY <1>3, <2>1, <2>2, <2>3, <2>4, <2>5, <2>6 DEF GuestCall
<1>4. CASE UNCHANGED vars
  <2>1. UNCHANGED <<table, handles, pointers, stash, names, todo, local, derefs>>
    BY <1>4 DEF vars, kernel, calls, guest
  <2>2. SlotsStay /\ table' \in [Slots -> Entries] BY <2>1, TableStays
  <2>3. HoldersStay BY <2>1 DEF HoldersStay
  <2>4. Counted' BY <2>1, <2>2, <2>3, NothingCounted DEF TableInv
  <2>5. Stashed' BY <2>1, StashedKept
  <2>6. TableTypes' /\ CallsOk' BY <2>1 DEF TableInv, TableTypes, CallsOk
  <2> QED BY <2>4, <2>5, <2>6 DEF TableInv
<1>5. title.threads \subseteq Threads BY LaunchedTitle
<1> QED BY <1>1, <1>2, <1>3, <1>4, <1>5 DEF Next

LEMMA TableInvariant == Spec => []TableInv
BY InitTable, StepTable, LaunchInvariant, PTL DEF Spec

\* Whatever the threads of the guest create, close, duplicate, move, open,
\* reference, dereference and purge, and wherever they interrupt each other, the
\* pointer count of an object is the number of its entries in the table plus the
\* number of object_refs: XObject::Release deletes it exactly when nothing leads to
\* it any more.
THEOREM EveryPointerIsCounted == Spec => []PointersCounted
<1>1. TableInv => PointersCounted
  <2> SUFFICES ASSUME TableInv, NEW o \in Objects
               PROVE  pointers[o] = Cardinality({h \in DOMAIN table : table[h].object = o})
                                + Cardinality({t \in DOMAIN local : local[t].object = o})
    BY DEF PointersCounted
  <2>1. DOMAIN table = Slots /\ DOMAIN local = Threads BY DEF TableInv, TableTypes
  <2>2. /\ SlotsOf(o) = {h \in DOMAIN table : table[h].object = o}
        /\ HoldersOf(o) = {t \in DOMAIN local : local[t].object = o}
    BY <2>1 DEF SlotsOf, HoldersOf
  <2> QED BY <2>2 DEF TableInv, Counted
<1> QED BY <1>1, TableInvariant, PTL

-----------------------------------------------------------------------------
(* The handles of a guest that creates, duplicates, moves and closes handles *)
(* of objects without names, and purges them all: every entry of the table   *)
(* has one use, and the invariant says whose it is (OneUse).  What a call    *)
(* will give, or remove, is read off what is left of it (Gives, Removes).    *)

\* What is left of a call that creates, duplicates or moves a handle.
PlainScripts ==
  {<<>>, <<"New">>, <<"handle", "GiveHandle">>, <<"GiveHandle">>,
   <<"LookupObject", "AddHandle", "GiveHandle">>, <<"AddHandle", "GiveHandle">>,
   <<"LookupObject", "AddHandle", "GiveHandle", "RemoveHandle">>,
   <<"AddHandle", "GiveHandle", "RemoveHandle">>, <<"GiveHandle", "RemoveHandle">>,
   <<"RemoveHandle">>}

Moving ==
  {<<"LookupObject", "AddHandle", "GiveHandle", "RemoveHandle">>,
   <<"AddHandle", "GiveHandle", "RemoveHandle">>, <<"GiveHandle", "RemoveHandle">>,
   <<"RemoveHandle">>}

Giving == {<<"handle", "GiveHandle">>, <<"GiveHandle">>, <<"GiveHandle", "RemoveHandle">>}

\* Thread t is to give handle h to the guest; is to remove it.
Gives(t, h) ==
  /\ todo[t] \in Giving
  /\ IF todo[t] = <<"handle", "GiveHandle">>
     THEN handles[local[t].object] # <<>> /\ Head(handles[local[t].object]) = h
     ELSE local[t].handle = h
Removes(t, h) == todo[t] \in Moving /\ local[t].argument = h

PlainTypes ==
  /\ \A t \in Threads : todo[t] \in PlainScripts /\ local[t].name = NoName
  /\ owned \in [Slots -> {0, 1}] /\ DOMAIN denotes = Slots
  /\ \A n \in Names : names[n] = NoHandle
  /\ \A o \in Objects : derefs[o] = 0 /\ (stash[o] = NoHandle => handles[o] = <<>>)

GiveReady == \A t \in Threads : todo[t] \in Giving => \E h \in Slots : Gives(t, h)

\* A handle in the table has one use: the guest's, or that of one thread.
InUse(h) == owned[h] = 1 \/ \E t \in Threads : Gives(t, h) \/ Removes(t, h)
OneUse ==
  \A h \in Slots :
    /\ table[h].object # NoObject <=> InUse(h)
    /\ table[h].object # NoObject => table[h].refs = 1
    /\ \A t \in Threads : Gives(t, h) \/ Removes(t, h) => owned[h] = 0
    /\ \A t, u \in Threads : /\ Gives(t, h) => ~Removes(u, h) /\ (Gives(u, h) => t = u)
                             /\ Removes(t, h) /\ Removes(u, h) => t = u

Denoting ==
  \A h \in Slots :
    /\ owned[h] = 1 => table[h].object = denotes[h]
    /\ \A t \in Threads : Gives(t, h) => table[h].object = local[t].object

PlainInv == PlainTypes /\ GiveReady /\ OneUse /\ Denoting

\* The operations of these calls, one after the other.
LEMMA PlainNext ==
  ASSUME NEW s \in PlainScripts, s # <<>>
  PROVE  /\ Tail(s) \in PlainScripts
         /\ Head(s) \in {"New", "handle", "GiveHandle", "LookupObject", "AddHandle",
                         "RemoveHandle"}
         /\ Head(s) # "New" => (Tail(s) \in Moving <=> s \in Moving /\ Head(s) # "RemoveHandle")
         /\ Head(s) = "New" => s \notin Moving /\ s \notin Giving
         /\ Head(s) = "handle" => s = <<"handle", "GiveHandle">> /\ Tail(s) = <<"GiveHandle">>
         /\ Head(s) = "GiveHandle" =>
              /\ s \in Giving /\ s # <<"handle", "GiveHandle">> /\ Tail(s) \notin Giving
              /\ Len(s) = 1 <=> s \notin Moving
         /\ Head(s) = "LookupObject" => s \notin Giving /\ Tail(s) \notin Giving
         /\ Head(s) = "AddHandle" => /\ s \notin Giving /\ Tail(s) \in Giving
                                     /\ Tail(s) # <<"handle", "GiveHandle">>
         /\ Head(s) = "RemoveHandle" => s \in Moving /\ s \notin Giving /\ Tail(s) = <<>>
         /\ (\E i \in DOMAIN s : s[i] = "RemoveHandle") <=> s \in Moving
<1> USE DEF PlainScripts, Moving, Giving
<1>1. CASE s = <<"New">> BY <1>1
<1>2. CASE s = <<"handle", "GiveHandle">> BY <1>2
<1>3. CASE s = <<"GiveHandle">> BY <1>3
<1>4. CASE s = <<"LookupObject", "AddHandle", "GiveHandle">> BY <1>4
<1>5. CASE s = <<"AddHandle", "GiveHandle">> BY <1>5
<1>6. CASE s = <<"LookupObject", "AddHandle", "GiveHandle", "RemoveHandle">> BY <1>6
<1>7. CASE s = <<"AddHandle", "GiveHandle", "RemoveHandle">> BY <1>7
<1>8. CASE s = <<"GiveHandle", "RemoveHandle">> BY <1>8
<1>9. CASE s = <<"RemoveHandle">> BY <1>9
<1> QED BY <1>1, <1>2, <1>3, <1>4, <1>5, <1>6, <1>7, <1>8, <1>9

LEMMA PlainStarts ==
  /\ <<>> \in PlainScripts \ (Giving \cup Moving)
  /\ <<"New">> \in PlainScripts \ (Giving \cup Moving)
  /\ <<"handle", "GiveHandle">> \in Giving \ Moving
  /\ <<"GiveHandle">> \in Giving \ Moving
  /\ Giving \subseteq PlainScripts /\ Moving \subseteq PlainScripts
  /\ <<"RemoveHandle">> \in Moving \ Giving
  /\ <<"LookupObject", "AddHandle", "GiveHandle">> \in PlainScripts \ (Giving \cup Moving)
  /\ <<"LookupObject", "AddHandle", "GiveHandle", "RemoveHandle">> \in Moving \ Giving
BY DEF PlainScripts, Moving, Giving

\* The first handle of an object stays the first as long as it is not removed.
LEMMA ListHeads ==
  ASSUME NEW hs \in Seq(Slots), NEW h \in Slots
  PROVE  /\ Append(hs, h) # <<>>
         /\ Head(Append(hs, h)) = IF hs = <<>> THEN h ELSE Head(hs)
         /\ hs # <<>> /\ Head(hs) # h =>
              Without(hs, h) # <<>> /\ Head(Without(hs, h)) = Head(hs)
<1>1. /\ Len(hs) \in Nat /\ DOMAIN hs = 1 .. Len(hs) /\ (hs = <<>> <=> Len(hs) = 0)
      /\ \A i \in 1 .. Len(hs) : hs[i] \in Slots
  BY LenProperties, ElementOfSeq, EmptySeq
<1>2. \A s \in Seq(Slots) : Len(s) > 0 => s # <<>> /\ Head(s) = s[1] BY EmptySeq
<1>3. Append(hs, h) # <<>> /\ Head(Append(hs, h)) = IF hs = <<>> THEN h ELSE Head(hs)
  <2>1. /\ Append(hs, h) \in Seq(Slots) /\ Len(Append(hs, h)) = Len(hs) + 1
        /\ \A i \in 1 .. Len(hs) : Append(hs, h)[i] = hs[i]
        /\ Append(hs, h)[Len(hs) + 1] = h
    BY AppendProperties
  <2>2. Append(hs, h) # <<>> /\ Head(Append(hs, h)) = Append(hs, h)[1]
    BY <1>1, <1>2, <2>1
  <2>3. CASE hs = <<>> BY <1>1, <2>1, <2>2, <2>3
  <2>4. CASE hs # <<>>
    <3>1. 1 \in 1 .. Len(hs) /\ Head(hs) = hs[1] BY <1>1, <1>2, <2>4
    <3> QED BY <2>1, <2>2, <2>4, <3>1
  <2> QED BY <2>3, <2>4
<1>4. ASSUME hs # <<>>, Head(hs) # h
      PROVE  Without(hs, h) # <<>> /\ Head(Without(hs, h)) = Head(hs)
  <2> DEFINE places == {i \in DOMAIN hs : hs[i] = h}
             first == CHOOSE i \in places : \A j \in places : i <= j
  <2>1. CASE places = {} BY <1>4, <2>1 DEF Without
  <2>2. CASE places # {}
    <3>1. \E i \in places : \A j \in places : i <= j
      <4>1. places \subseteq Nat BY <1>1
      <4> HIDE DEF places
      <4> QED BY <4>1, <2>2, LeastNumber
    <3>2. first \in places BY <3>1
    <3>3. first \in 1 .. Len(hs) /\ hs[first] = h BY <1>1, <3>2
    <3>4. Without(hs, h) = SubSeq(hs, 1, first - 1) \o SubSeq(hs, first + 1, Len(hs))
      BY <2>2 DEF Without
    <3> HIDE DEF first
    <3>5. Head(hs) = hs[1] /\ 1 \in 1 .. Len(hs) BY <1>1, <1>2, <1>4
    <3>6. first # 1 BY <1>4, <3>3, <3>5
    <3>7. /\ first \in Nat /\ first > 1 /\ Len(hs) \in Int
          /\ first - 1 \in Int /\ first + 1 \in Int
      BY <1>1, <3>3, <3>6
    <3> DEFINE a == SubSeq(hs, 1, first - 1)
               b == SubSeq(hs, first + 1, Len(hs))
    <3>8. /\ \A i \in 1 .. first - 1 : hs[i] \in Slots
          /\ \A i \in first + 1 .. Len(hs) : hs[i] \in Slots
      BY <1>1, <3>3
    <3>9. /\ a \in Seq(Slots) /\ Len(a) = first - 1 /\ a[1] = hs[1]
      <4>1. /\ SubSeq(hs, 1, first - 1) \in Seq(Slots)
            /\ Len(SubSeq(hs, 1, first - 1)) = IF 1 <= first - 1 THEN first - 1 - 1 + 1 ELSE 0
            /\ \A i \in 1 .. first - 1 - 1 + 1 : SubSeq(hs, 1, first - 1)[i] = hs[1 + i - 1]
        BY <3>7, <3>8, SubSeqProperties
      <4>2. 1 \in 1 .. first - 1 - 1 + 1 /\ 1 + 1 - 1 = 1 BY <3>7
      <4> QED BY <3>7, <4>1, <4>2
    <3>10. b \in Seq(Slots) /\ Len(b) \in Nat BY <3>7, <3>8, SubSeqProperties, LenProperties
    <3> HIDE DEF a, b
    <3>11. /\ a \o b \in Seq(Slots) /\ Len(a \o b) = Len(a) + Len(b)
           /\ \A i \in 1 .. Len(a) + Len(b) :
                (a \o b)[i] = IF i <= Len(a) THEN a[i] ELSE b[i - Len(a)]
      BY <3>9, <3>10, ConcatProperties
    <3>12. 1 \in 1 .. Len(a) + Len(b) /\ 1 <= Len(a) /\ Len(a) + Len(b) > 0
      BY <3>7, <3>9, <3>10
    <3>13. (a \o b)[1] = hs[1] BY <3>9, <3>11, <3>12
    <3>14. a \o b # <<>> /\ Head(a \o b) = (a \o b)[1] BY <1>2, <3>11, <3>12
    <3> QED BY <3>4, <3>5, <3>13, <3>14 DEF a, b
  <2> QED BY <2>1, <2>2
<1> QED BY <1>3, <1>4

\* The heads of the objects' lists, except where it is x, stay what they are.
HeadsKept(x) ==
  \A o \in Objects : handles[o] # <<>> /\ Head(handles[o]) # x =>
    handles'[o] # <<>> /\ Head(handles'[o]) = Head(handles[o])

\* A thread that takes no step goes on giving what it was to give.
LEMMA OthersGive ==
  ASSUME TableInv, PlainInv, NEW u \in Threads, todo'[u] = todo[u], local'[u] = local[u],
         NEW x, HeadsKept(x), ~Gives(u, x)
  PROVE  /\ \A g : (Gives(u, g)' <=> Gives(u, g)) /\ (Removes(u, g)' <=> Removes(u, g))
         /\ todo'[u] \in Giving => \E h \in Slots : Gives(u, h)'
<1>1. \A g : Removes(u, g)' <=> Removes(u, g) BY DEF Removes
<1>2. CASE todo[u] = <<"handle", "GiveHandle">>
  <2> DEFINE hs == handles[local[u].object]
  <2>1. At(u, "handle") BY <1>2 DEF At
  <2>2. local[u].object \in Objects BY <2>1, HeldFacts DEF Bare
  <2>3. todo[u] \in Giving BY <1>2 DEF Giving
  <2>4. PICK h \in Slots : Gives(u, h) BY <2>3 DEF PlainInv, GiveReady
  <2>5. hs # <<>> /\ Head(hs) = h /\ h # x BY <1>2, <2>4 DEF Gives
  <2>6. handles'[local[u].object] # <<>> /\ Head(handles'[local[u].object]) = Head(hs)
    BY <2>2, <2>5 DEF HeadsKept
  <2>7. \A g : Gives(u, g)' <=> Gives(u, g) BY <1>2, <2>3, <2>5, <2>6 DEF Gives
  <2> QED BY <1>1, <2>4, <2>7
<1>3. CASE todo[u] # <<"handle", "GiveHandle">>
  <2>1. \A g : Gives(u, g)' <=> Gives(u, g) BY <1>3 DEF Gives
  <2>2. todo[u] \in Giving => \E h \in Slots : Gives(u, h) BY DEF PlainInv, GiveReady
  <2> QED BY <1>1, <2>1, <2>2
<1> QED BY <1>2, <1>3

\* A step of thread t leaves s of its call to do, with the locals l.
Leaves(t, s, l) ==
  /\ s \in PlainScripts /\ l.name = NoName
  /\ todo' = [todo EXCEPT ![t] = s] /\ local' = [local EXCEPT ![t] = l]

\* What it does to what the threads are to give and to remove.
Frame(t, s, l) ==
  /\ \A u \in Threads : todo'[u] \in PlainScripts /\ local'[u].name = NoName
  /\ todo'[t] = s /\ local'[t] = l
  /\ \A u \in Threads \ {t} :
       /\ \A g : (Gives(u, g)' <=> Gives(u, g)) /\ (Removes(u, g)' <=> Removes(u, g))
       /\ local'[u].object = local[u].object
       /\ todo'[u] \in Giving => \E h \in Slots : Gives(u, h)'
  /\ \A g : Removes(t, g)' <=> s \in Moving /\ l.argument = g
  /\ s # <<"handle", "GiveHandle">> => \A g : Gives(t, g)' <=> s \in Giving /\ l.handle = g

LEMMA PlainFrame ==
  ASSUME TableInv, PlainInv, NEW t \in Threads, NEW s, NEW l, Leaves(t, s, l),
         NEW x, HeadsKept(x), \A u \in Threads \ {t} : ~Gives(u, x)
  PROVE  Frame(t, s, l)
<1>0. /\ s \in PlainScripts /\ l.name = NoName
      /\ todo' = [todo EXCEPT ![t] = s] /\ local' = [local EXCEPT ![t] = l]
  BY DEF Leaves
<1>1. DOMAIN todo = Threads /\ DOMAIN local = Threads BY DEF TableInv, TableTypes
<1>2. todo'[t] = s /\ local'[t] = l BY <1>0, <1>1
<1>3. \A u \in Threads \ {t} : todo'[u] = todo[u] /\ local'[u] = local[u] BY <1>0, <1>1
<1>4. \A u \in Threads : todo'[u] \in PlainScripts /\ local'[u].name = NoName
  BY <1>0, <1>2, <1>3 DEF PlainInv, PlainTypes
<1>5. ASSUME NEW u \in Threads \ {t}
      PROVE  /\ \A g : (Gives(u, g)' <=> Gives(u, g)) /\ (Removes(u, g)' <=> Removes(u, g))
             /\ local'[u].object = local[u].object
             /\ todo'[u] \in Giving => \E h \in Slots : Gives(u, h)'
  BY <1>3, OthersGive
<1>6. \A g : Removes(t, g)' <=> s \in Moving /\ l.argument = g BY <1>2 DEF Removes
<1>7. s # <<"handle", "GiveHandle">> => \A g : Gives(t, g)' <=> s \in Giving /\ l.handle = g
  BY <1>2 DEF Gives
<1> QED BY <1>2, <1>4, <1>5, <1>6, <1>7 DEF Frame

\* Where neither the table nor the guest's handles change, nor what is to be given.
LEMMA SameUses ==
  ASSUME PlainInv, UNCHANGED <<table, owned, denotes>>,
         \A t \in Threads, h \in Slots : /\ Gives(t, h)' <=> Gives(t, h)
                                         /\ Removes(t, h)' <=> Removes(t, h)
                                         /\ Gives(t, h) => local'[t].object = local[t].object
  PROVE  OneUse' /\ Denoting'
<1>1. OneUse' BY DEF PlainInv, OneUse, InUse
<1>2. Denoting' BY DEF PlainInv, Denoting
<1> QED BY <1>1, <1>2

LEMMA PlainAt ==
  ASSUME TableInv, PlainInv, NEW t \in Threads, NEW op, At(t, op)
  PROVE  /\ todo[t] \in PlainScripts /\ todo[t] # <<>> /\ Head(todo[t]) = op
         /\ local[t] \in Locals /\ local[t].name = NoName
BY AtFacts DEF PlainInv, PlainTypes, TableInv

LEMMA NothingGiven == ASSUME PlainInv PROVE \A u \in Threads : ~Gives(u, NoHandle)
<1> SUFFICES ASSUME NEW u \in Threads, Gives(u, NoHandle) PROVE FALSE OBVIOUS
<1>1. todo[u] \in Giving BY DEF Gives
<1>2. PICK h \in Slots : Gives(u, h) BY <1>1 DEF PlainInv, GiveReady
<1>3. h = NoHandle BY <1>2 DEF Gives
<1> QED BY <1>3, TableAssumption

\* Nothing but the progress of a call changes.
LEMMA OnlyCallMoves ==
  ASSUME TableInv, PlainInv, NEW t \in Threads, NEW s, NEW l, Leaves(t, s, l),
         UNCHANGED <<table, handles, stash, names, guest>>,
         \A g \in Slots : (Removes(t, g) <=> s \in Moving /\ l.argument = g),
         s \notin Giving, todo[t] \notin Giving
  PROVE  PlainInv'
<1>1. HeadsKept(NoHandle) BY DEF HeadsKept
<1>2. \A u \in Threads : ~Gives(u, NoHandle) BY NothingGiven
<1>3. /\ \A u \in Threads : todo'[u] \in PlainScripts /\ local'[u].name = NoName
      /\ \A u \in Threads \ {t} :
           /\ \A g : (Gives(u, g)' <=> Gives(u, g)) /\ (Removes(u, g)' <=> Removes(u, g))
           /\ local'[u].object = local[u].object
           /\ todo'[u] \in Giving => \E h \in Slots : Gives(u, h)'
      /\ \A g : Removes(t, g)' <=> s \in Moving /\ l.argument = g
      /\ \A g : ~Gives(t, g)'
      /\ todo'[t] = s
  <2>1. s # <<"handle", "GiveHandle">> BY PlainStarts
  <2>2. Frame(t, s, l) BY <1>1, <1>2, PlainFrame
  <2> QED BY <2>1, <2>2 DEF Frame
<1>4. \A g : ~Gives(t, g) BY DEF Gives
<1>5. OneUse' /\ Denoting'
  <2>1. UNCHANGED <<table, owned, denotes>> BY DEF guest
  <2> QED BY <1>3, <1>4, <2>1, SameUses
<1>6. GiveReady' BY <1>3 DEF GiveReady
<1>7. PlainTypes' BY <1>3 DEF PlainInv, PlainTypes, guest
<1> QED BY <1>5, <1>6, <1>7 DEF PlainInv

LEMMA PlainLookup ==
  ASSUME TableInv, PlainInv, NEW t \in Threads, LookupObject(t)
  PROVE  PlainInv'
<1>1. /\ todo[t] \in PlainScripts /\ todo[t] # <<>> /\ Head(todo[t]) = "LookupObject"
      /\ local[t] \in Locals /\ local[t].name = NoName
  BY PlainAt DEF LookupObject
<1>2. /\ Tail(todo[t]) \in PlainScripts
      /\ Tail(todo[t]) \in Moving <=> todo[t] \in Moving
      /\ todo[t] \notin Giving /\ Tail(todo[t]) \notin Giving
      /\ (\E i \in DOMAIN todo[t] : todo[t][i] = "RemoveHandle") <=> todo[t] \in Moving
  BY <1>1, PlainNext
<1>3. UNCHANGED <<table, handles, stash, names, guest>> BY DEF LookupObject
<1> DEFINE o == table[local[t].argument].object
<1>4. CASE local' = [local EXCEPT ![t].object = o] /\ Continue(t)
  <2> DEFINE l == [local[t] EXCEPT !.object = o]
  <2>1. l.name = NoName /\ l.argument = local[t].argument BY <1>1 DEF Locals
  <2>2. local' = [local EXCEPT ![t] = l] /\ todo' = [todo EXCEPT ![t] = Tail(todo[t])]
    BY <1>4 DEF Continue
  <2> HIDE DEF l
  <2>3. \A g \in Slots : Removes(t, g) <=> Tail(todo[t]) \in Moving /\ l.argument = g
    BY <1>2, <2>1 DEF Removes
  <2>4. Leaves(t, Tail(todo[t]), l) BY <1>2, <2>1, <2>2 DEF Leaves
  <2> QED BY <1>2, <1>3, <2>3, <2>4, OnlyCallMoves
<1>5. CASE /\ local' = [local EXCEPT ![t] = IF Abandoned(t) = <<>> THEN NoLocals ELSE @]
           /\ todo' = [todo EXCEPT ![t] = Abandoned(t)]
  <2>1. CASE todo[t] \in Moving
    <3>1. Abandoned(t) = <<"RemoveHandle">> BY <1>2, <2>1 DEF Abandoned
    <3>2. /\ local' = [local EXCEPT ![t] = local[t]]
          /\ todo' = [todo EXCEPT ![t] = <<"RemoveHandle">>]
      BY <1>5, <3>1
    <3>3. \A g \in Slots : Removes(t, g) <=>
                             <<"RemoveHandle">> \in Moving /\ local[t].argument = g
      BY <2>1, PlainStarts DEF Removes
    <3>4. <<"RemoveHandle">> \in PlainScripts /\ <<"RemoveHandle">> \notin Giving
      BY PlainStarts
    <3>5. Leaves(t, <<"RemoveHandle">>, local[t]) BY <1>1, <3>2, <3>4 DEF Leaves
    <3> QED BY <1>2, <1>3, <3>3, <3>4, <3>5, OnlyCallMoves
  <2>2. CASE todo[t] \notin Moving
    <3>1. Abandoned(t) = <<>> BY <1>2, <2>2 DEF Abandoned
    <3>2. local' = [local EXCEPT ![t] = NoLocals] /\ todo' = [todo EXCEPT ![t] = <<>>]
      BY <1>5, <3>1
    <3>3. /\ <<>> \in PlainScripts /\ <<>> \notin Giving /\ <<>> \notin Moving
          /\ NoLocals.name = NoName
      BY PlainStarts DEF NoLocals
    <3>4. \A g \in Slots : Removes(t, g) <=> <<>> \in Moving /\ NoLocals.argument = g
      BY <2>2, <3>3 DEF Removes
    <3>5. Leaves(t, <<>>, NoLocals) BY <3>2, <3>3 DEF Leaves
    <3> QED BY <1>2, <1>3, <3>3, <3>4, <3>5, OnlyCallMoves
  <2> QED BY <2>1, <2>2
<1> QED BY <1>1, <1>4, <1>5 DEF LookupObject

LEMMA PlainHandle ==
  ASSUME TableInv, PlainInv, NEW t \in Threads, Handle(t)
  PROVE  PlainInv'
<1> DEFINE hs == handles[local[t].object]
           l == [local[t] EXCEPT !.handle = Head(hs)]
<1>1. /\ todo[t] \in PlainScripts /\ todo[t] # <<>> /\ Head(todo[t]) = "handle"
      /\ local[t] \in Locals /\ local[t].name = NoName
  BY PlainAt DEF Handle
<1>2. todo[t] = <<"handle", "GiveHandle">> /\ Tail(todo[t]) = <<"GiveHandle">>
  BY <1>1, PlainNext
<1>3. todo[t] \in Giving /\ todo[t] \notin Moving BY <1>2, PlainStarts
<1>4. PICK h \in Slots : Gives(t, h) BY <1>3 DEF PlainInv, GiveReady
<1>5. hs # <<>> /\ \A g : Gives(t, g) <=> Head(hs) = g BY <1>2, <1>3, <1>4 DEF Gives
<1>6. local' = [local EXCEPT ![t] = l] /\ todo' = [todo EXCEPT ![t] = <<"GiveHandle">>]
  BY <1>2, <1>5 DEF Handle, Keep, Continue
<1>7. /\ l.name = NoName /\ l.handle = Head(hs) /\ l.object = local[t].object
  BY <1>1 DEF Locals
<1> HIDE DEF l, hs
<1>8. UNCHANGED <<table, handles, stash, names, guest>> BY DEF Handle, kernel
<1>9. HeadsKept(NoHandle) BY <1>8 DEF HeadsKept
<1>10. \A u \in Threads : ~Gives(u, NoHandle) BY NothingGiven
<1>11. /\ \A u \in Threads : todo'[u] \in PlainScripts /\ local'[u].name = NoName
       /\ todo'[t] = <<"GiveHandle">> /\ local'[t] = l
       /\ \A u \in Threads \ {t} :
            /\ \A g : (Gives(u, g)' <=> Gives(u, g)) /\ (Removes(u, g)' <=> Removes(u, g))
            /\ local'[u].object = local[u].object
            /\ todo'[u] \in Giving => \E g \in Slots : Gives(u, g)'
       /\ \A g : ~Removes(t, g)'
       /\ \A g : Gives(t, g)' <=> l.handle = g
  <2> DEFINE s == <<"GiveHandle">>
  <2>1. s \in PlainScripts /\ s \in Giving /\ s \notin Moving /\ s # <<"handle", "GiveHandle">>
    BY PlainStarts
  <2>2. todo' = [todo EXCEPT ![t] = s] BY <1>6
  <2> HIDE DEF s
  <2>3. Leaves(t, s, l) BY <1>6, <1>7, <2>1, <2>2 DEF Leaves
  <2>4. Frame(t, s, l) BY <1>9, <1>10, <2>3, PlainFrame
  <2> QED BY <2>1, <2>4 DEF Frame, s
<1>12. /\ \A g : Gives(t, g)' <=> Gives(t, g)
       /\ \A g : Removes(t, g)' <=> Removes(t, g)
       /\ local'[t].object = local[t].object
  BY <1>3, <1>5, <1>7, <1>11 DEF Removes
<1>13. OneUse' /\ Denoting'
  <2>1. UNCHANGED <<table, owned, denotes>> BY <1>8 DEF guest
  <2>2. \A u \in Threads : u = t \/ u \in Threads \ {t} OBVIOUS
  <2> QED BY <1>11, <1>12, <2>1, <2>2, SameUses
<1>14. GiveReady' BY <1>4, <1>11, <1>12 DEF GiveReady
<1>15. PlainTypes' BY <1>8, <1>11 DEF PlainInv, PlainTypes, guest
<1> QED BY <1>13, <1>14, <1>15 DEF PlainInv

\* Of a free slot nobody has a use.
LEMMA Unused ==
  ASSUME TableInv, PlainInv, NEW h \in Slots, table[h].object = NoObject
  PROVE  owned[h] = 0 /\ \A u \in Threads : ~Gives(u, h) /\ ~Removes(u, h)
<1>1. ~InUse(h) BY DEF PlainInv, OneUse
<1>2. owned[h] \in {0, 1} BY DEF PlainInv, PlainTypes
<1> QED BY <1>1, <1>2 DEF InUse

LEMMA PlainAddHandle ==
  ASSUME TableInv, PlainInv, NEW t \in Threads, AddHandle(t)
  PROVE  PlainInv'
<1>1. PICK h \in Slots :
        /\ At(t, "AddHandle") /\ IsFreeSlot(h) /\ Insert(local[t].object, h)
        /\ Keep(t, h) /\ Continue(t)
        /\ UNCHANGED <<lastFree, stash, names, guest>>
  BY DEF AddHandle
<1> DEFINE o == local[t].object
           l == [local[t] EXCEPT !.handle = h]
           s == Tail(todo[t])
<1>2. /\ todo[t] \in PlainScripts /\ todo[t] # <<>> /\ Head(todo[t]) = "AddHandle"
      /\ local[t] \in Locals /\ local[t].name = NoName
  BY <1>1, PlainAt
<1>3. /\ s \in PlainScripts /\ (s \in Moving <=> todo[t] \in Moving)
      /\ todo[t] \notin Giving /\ s \in Giving /\ s # <<"handle", "GiveHandle">>
  BY <1>2, PlainNext
<1>4. o \in Objects /\ o # NoObject /\ stash[o] # NoHandle BY <1>1, HeldFacts DEF Bare
<1>5. /\ l.name = NoName /\ l.argument = local[t].argument /\ l.handle = h /\ l.object = o
  BY <1>2 DEF Locals
<1>6. /\ table \in [Slots -> Entries] /\ handles \in [Objects -> Seq(Slots)]
  BY DEF TableInv, TableTypes
<1>7. /\ table' = [table EXCEPT ![h] = [object |-> o, refs |-> 1]]
      /\ handles' = [handles EXCEPT ![o] = Append(@, h)]
      /\ local' = [local EXCEPT ![t] = l] /\ todo' = [todo EXCEPT ![t] = s]
      /\ UNCHANGED <<stash, names, owned, denotes, derefs>>
  BY <1>1 DEF Insert, Keep, Continue, guest
<1>8. owned[h] = 0 /\ \A u \in Threads : ~Gives(u, h) /\ ~Removes(u, h)
  BY <1>1, Unused DEF IsFreeSlot
<1> HIDE DEF s, l
<1>9. HeadsKept(NoHandle)
  <2> SUFFICES ASSUME NEW p \in Objects, handles[p] # <<>>
               PROVE  handles'[p] # <<>> /\ Head(handles'[p]) = Head(handles[p])
    BY DEF HeadsKept
  <2>1. CASE p = o
    <3>1. handles'[p] = Append(handles[p], h) /\ handles[p] \in Seq(Slots)
      BY <1>6, <1>7, <2>1
    <3> QED BY <3>1, ListHeads
  <2>2. CASE p # o BY <1>6, <1>7, <2>2
  <2> QED BY <2>1, <2>2
<1>10. Frame(t, s, l)
  <2>1. Leaves(t, s, l) BY <1>3, <1>5, <1>7 DEF Leaves
  <2> QED BY <1>9, <2>1, NothingGiven, PlainFrame
<1>11. /\ \A u \in Threads, g \in Slots : Removes(u, g)' <=> Removes(u, g)
       /\ \A u \in Threads \ {t}, g \in Slots : Gives(u, g)' <=> Gives(u, g)
       /\ \A u \in Threads \ {t} : local'[u].object = local[u].object
       /\ \A g \in Slots : Gives(t, g)' <=> g = h
       /\ \A g \in Slots : ~Gives(t, g)
  <2>1. \A g : Removes(t, g) <=> s \in Moving /\ l.argument = g BY <1>3, <1>5 DEF Removes
  <2>2. \A g : ~Gives(t, g) BY <1>3 DEF Gives
  <2> QED BY <1>3, <1>5, <1>10, <2>1, <2>2 DEF Frame
<1>12. /\ table'[h] = [object |-> o, refs |-> 1]
       /\ \A g \in Slots : g # h => table'[g] = table[g]
  BY <1>6, <1>7
<1>13. local'[t].object = o BY <1>5, <1>10 DEF Frame
<1>14. GiveReady' BY <1>10, <1>11 DEF GiveReady, Frame
<1>15. OneUse'
  <2> SUFFICES ASSUME NEW g \in Slots
        PROVE  /\ table'[g].object # NoObject <=> InUse(g)'
               /\ table'[g].object # NoObject => table'[g].refs = 1
               /\ \A u \in Threads : Gives(u, g)' \/ Removes(u, g)' => owned'[g] = 0
               /\ \A u, w \in Threads :
                    /\ Gives(u, g)' => ~Removes(w, g)' /\ (Gives(w, g)' => u = w)
                    /\ Removes(u, g)' /\ Removes(w, g)' => u = w
    BY DEF OneUse
  <2>1. CASE g = h BY <1>4, <1>7, <1>8, <1>11, <1>12, <2>1 DEF InUse
  <2>2. CASE g # h BY <1>7, <1>11, <1>12, <2>2 DEF PlainInv, OneUse, InUse
  <2> QED BY <2>1, <2>2
<1>16. Denoting'
  <2> SUFFICES ASSUME NEW g \in Slots
        PROVE  /\ owned'[g] = 1 => table'[g].object = denotes'[g]
               /\ \A u \in Threads : Gives(u, g)' => table'[g].object = local'[u].object
    BY DEF Denoting
  <2>1. CASE g = h BY <1>7, <1>8, <1>11, <1>12, <1>13, <2>1
  <2>2. CASE g # h BY <1>7, <1>11, <1>12, <2>2 DEF PlainInv, Denoting
  <2> QED BY <2>1, <2>2
<1>17. PlainTypes'
  <2>1. \A p \in Objects : stash[p] = NoHandle => handles'[p] = <<>>
    BY <1>4, <1>6, <1>7 DEF PlainInv, PlainTypes
  <2> QED BY <1>7, <1>10, <2>1 DEF PlainInv, PlainTypes, Frame
<1> QED BY <1>14, <1>15, <1>16, <1>17 DEF PlainInv

LEMMA PlainGive ==
  ASSUME TableInv, PlainInv, NEW t \in Threads, GiveHandle(t)
  PROVE  PlainInv'
<1> DEFINE h == local[t].handle
           s == Tail(todo[t])
           l == IF Len(todo[t]) = 1 THEN NoLocals ELSE [local[t] EXCEPT !.object = NoObject]
<1>1. /\ todo[t] \in PlainScripts /\ todo[t] # <<>> /\ Head(todo[t]) = "GiveHandle"
      /\ local[t] \in Locals /\ local[t].name = NoName
  BY PlainAt DEF GiveHandle
<1>2. /\ s \in PlainScripts /\ (s \in Moving <=> todo[t] \in Moving)
      /\ todo[t] \in Giving /\ todo[t] # <<"handle", "GiveHandle">> /\ s \notin Giving
      /\ Len(todo[t]) = 1 <=> todo[t] \notin Moving
  BY <1>1, PlainNext
<1>3. /\ l.name = NoName
      /\ todo[t] \in Moving => l.argument = local[t].argument
  BY <1>1, <1>2 DEF Locals, NoLocals
<1>4. h \in Slots /\ \A g : Gives(t, g) <=> g = h
  <2>1. \A g : Gives(t, g) <=> g = h BY <1>2 DEF Gives
  <2> QED BY <1>2, <2>1 DEF PlainInv, GiveReady
<1>5. h # NoHandle BY <1>4, TableAssumption
<1>6. /\ owned' = [owned EXCEPT ![h] = @ + 1]
      /\ denotes' = [denotes EXCEPT ![h] = local[t].object]
      /\ local' = [local EXCEPT ![t] = l] /\ todo' = [todo EXCEPT ![t] = s]
      /\ UNCHANGED <<table, handles, stash, names, derefs>>
  BY <1>5 DEF GiveHandle, Drop, Continue
<1>7. /\ Gives(t, h) /\ owned[h] = 0 /\ InUse(h) /\ table[h].object = local[t].object
      /\ \A u \in Threads : ~Removes(u, h) /\ (Gives(u, h) => u = t)
  BY <1>4 DEF PlainInv, OneUse, InUse, Denoting
<1> HIDE DEF s, l, h
<1>8. s # <<"handle", "GiveHandle">> BY <1>2, PlainStarts
<1>9. Frame(t, s, l)
  <2>1. Leaves(t, s, l) BY <1>2, <1>3, <1>6 DEF Leaves
  <2>2. HeadsKept(NoHandle) BY <1>6 DEF HeadsKept
  <2> QED BY <2>1, <2>2, NothingGiven, PlainFrame
<1>10. /\ \A u \in Threads, g \in Slots : Removes(u, g)' <=> Removes(u, g)
       /\ \A u \in Threads \ {t}, g \in Slots : Gives(u, g)' <=> Gives(u, g)
       /\ \A u \in Threads \ {t} : local'[u].object = local[u].object
       /\ \A g \in Slots : ~Gives(t, g)'
  <2>1. \A g : Removes(t, g) <=> s \in Moving /\ l.argument = g BY <1>2, <1>3 DEF Removes
  <2> QED BY <1>2, <1>8, <1>9, <2>1 DEF Frame
<1>11. owned \in [Slots -> {0, 1}] /\ DOMAIN denotes = Slots BY DEF PlainInv, PlainTypes
<1>12. /\ owned'[h] = 1 /\ denotes'[h] = local[t].object
       /\ \A g \in Slots : g # h => owned'[g] = owned[g] /\ denotes'[g] = denotes[g]
  BY <1>4, <1>6, <1>7, <1>11
<1>13. GiveReady' BY <1>2, <1>9 DEF GiveReady, Frame
<1>14. OneUse'
  <2> SUFFICES ASSUME NEW g \in Slots
        PROVE  /\ table'[g].object # NoObject <=> InUse(g)'
               /\ table'[g].object # NoObject => table'[g].refs = 1
               /\ \A u \in Threads : Gives(u, g)' \/ Removes(u, g)' => owned'[g] = 0
               /\ \A u, w \in Threads :
                    /\ Gives(u, g)' => ~Removes(w, g)' /\ (Gives(w, g)' => u = w)
                    /\ Removes(u, g)' /\ Removes(w, g)' => u = w
    BY DEF OneUse
  <2>1. CASE g = h
    <3>1. table[g].object # NoObject /\ table[g].refs = 1 BY <1>7, <2>1 DEF PlainInv, OneUse
    <3> QED BY <1>6, <1>7, <1>10, <1>12, <2>1, <3>1 DEF InUse
  <2>2. CASE g # h BY <1>4, <1>6, <1>10, <1>12, <2>2 DEF PlainInv, OneUse, InUse
  <2> QED BY <2>1, <2>2
<1>15. Denoting' BY <1>6, <1>7, <1>10, <1>12 DEF PlainInv, Denoting
<1>16. PlainTypes'
  <2>1. owned' \in [Slots -> {0, 1}] BY <1>4, <1>6, <1>7, <1>11 DEF h
  <2>2. DOMAIN denotes' = Slots BY <1>6, <1>11
  <2> QED BY <1>6, <1>9, <2>1, <2>2 DEF PlainInv, PlainTypes, Frame
<1> QED BY <1>13, <1>14, <1>15, <1>16 DEF PlainInv

\* A handle is removed: the first handles of the others stay.
LEMMA HeadsStay ==
  ASSUME TableInv, NEW h \in Slots, Remove(h)
  PROVE  HeadsKept(h)
<1> DEFINE o == table[h].object
<1>1. handles \in [Objects -> Seq(Slots)] BY DEF TableInv, TableTypes
<1>2. handles' = [handles EXCEPT ![o] = Without(@, h)] BY DEF Remove
<1> SUFFICES ASSUME NEW p \in Objects, handles[p] # <<>>, Head(handles[p]) # h
             PROVE  handles'[p] # <<>> /\ Head(handles'[p]) = Head(handles[p])
  BY DEF HeadsKept
<1>3. CASE p = o
  <2>1. handles'[p] = Without(handles[p], h) /\ handles[p] \in Seq(Slots) BY <1>1, <1>2, <1>3
  <2> QED BY <2>1, ListHeads
<1>4. CASE p # o BY <1>1, <1>2, <1>4
<1> QED BY <1>3, <1>4

\* The last use of a handle is given up, and the handle with it.
LEMMA PlainRemoves ==
  ASSUME TableInv, PlainInv, NEW h \in Slots, table[h].object # NoObject, Remove(h),
         UNCHANGED <<stash, denotes, derefs>>,
         \A u \in Threads : todo'[u] \in PlainScripts /\ local'[u].name = NoName,
         GiveReady', owned' \in [Slots -> {0, 1}], owned'[h] = 0,
         \A g \in Slots : g # h => owned'[g] = owned[g],
         \A u \in Threads : ~Gives(u, h)' /\ ~Removes(u, h)',
         \A u \in Threads, g \in Slots : g # h =>
           /\ Gives(u, g)' <=> Gives(u, g)
           /\ Removes(u, g)' <=> Removes(u, g)
           /\ Gives(u, g) => local'[u].object = local[u].object
  PROVE  PlainInv'
<1> DEFINE o == table[h].object
<1>1. /\ table' = [table EXCEPT ![h] = Free]
      /\ handles' = [handles EXCEPT ![o] = Without(@, h)]
      /\ names' = [n \in Names |-> IF n = NameOf[o] THEN NoHandle ELSE names[n]]
  BY DEF Remove
<1>2. table \in [Slots -> Entries] /\ handles \in [Objects -> Seq(Slots)]
  BY DEF TableInv, TableTypes
<1>3. table'[h].object = NoObject /\ \A g \in Slots : g # h => table'[g] = table[g]
  BY <1>1, <1>2 DEF Free
<1>4. OneUse'
  <2> SUFFICES ASSUME NEW g \in Slots
        PROVE  /\ table'[g].object # NoObject <=> InUse(g)'
               /\ table'[g].object # NoObject => table'[g].refs = 1
               /\ \A u \in Threads : Gives(u, g)' \/ Removes(u, g)' => owned'[g] = 0
               /\ \A u, w \in Threads :
                    /\ Gives(u, g)' => ~Removes(w, g)' /\ (Gives(w, g)' => u = w)
                    /\ Removes(u, g)' /\ Removes(w, g)' => u = w
    BY DEF OneUse
  <2>1. CASE g = h BY <1>3, <2>1 DEF InUse
  <2>2. CASE g # h BY <1>3, <2>2 DEF PlainInv, OneUse, InUse
  <2> QED BY <2>1, <2>2
<1>5. Denoting'
  <2> SUFFICES ASSUME NEW g \in Slots
        PROVE  /\ owned'[g] = 1 => table'[g].object = denotes'[g]
               /\ \A u \in Threads : Gives(u, g)' => table'[g].object = local'[u].object
    BY DEF Denoting
  <2>1. CASE g = h BY <2>1
  <2>2. CASE g # h BY <1>3, <2>2 DEF PlainInv, Denoting
  <2> QED BY <2>1, <2>2
<1>6. PlainTypes'
  <2>1. ASSUME NEW p \in Objects, stash[p] = NoHandle PROVE handles'[p] = <<>>
    <3>1. p # o BY <2>1 DEF TableInv, Stashed
    <3>2. handles[p] = <<>> BY <2>1 DEF PlainInv, PlainTypes
    <3> QED BY <1>1, <1>2, <3>1, <3>2
  <2>2. \A n \in Names : names'[n] = NoHandle BY <1>1 DEF PlainInv, PlainTypes
  <2> QED BY <2>1, <2>2 DEF PlainInv, PlainTypes
<1> QED BY <1>4, <1>5, <1>6 DEF PlainInv

LEMMA PlainRemoveHandle ==
  ASSUME TableInv, PlainInv, NEW t \in Threads, RemoveHandle(t)
  PROVE  PlainInv'
<1>0. PICK h \in Slots : h = local[t].argument BY AtFacts DEF RemoveHandle, TableInv
<1>1. /\ todo[t] \in PlainScripts /\ todo[t] # <<>> /\ Head(todo[t]) = "RemoveHandle"
  BY PlainAt DEF RemoveHandle
<1>2. todo[t] \in Moving /\ todo[t] \notin Giving /\ Tail(todo[t]) = <<>> BY <1>1, PlainNext
<1>4. Removes(t, h) BY <1>0, <1>2 DEF Removes
<1>5. /\ table[h].object # NoObject /\ owned[h] = 0
      /\ \A u \in Threads : ~Gives(u, h) /\ (Removes(u, h) => u = t)
  BY <1>4 DEF PlainInv, OneUse, InUse
<1>6. /\ Remove(h) /\ UNCHANGED <<stash, owned, denotes, derefs>>
      /\ local' = [local EXCEPT ![t] = NoLocals] /\ todo' = [todo EXCEPT ![t] = <<>>]
  BY <1>0, <1>2, <1>5 DEF RemoveHandle, Continue, guest
<1> DEFINE s == <<>>
<1>7. s \in PlainScripts /\ s \notin Giving /\ s \notin Moving /\ s # <<"handle", "GiveHandle">>
  BY PlainStarts
<1>8. todo' = [todo EXCEPT ![t] = s] BY <1>6
<1> HIDE DEF s
<1>9. NoLocals.name = NoName BY DEF NoLocals
<1>10. Frame(t, s, NoLocals)
  <2>1. Leaves(t, s, NoLocals) BY <1>6, <1>7, <1>8, <1>9 DEF Leaves
  <2>2. HeadsKept(h) BY <1>6, HeadsStay
  <2> QED BY <1>5, <2>1, <2>2, PlainFrame
<1>11. /\ \A g : ~Gives(t, g) /\ ~Gives(t, g)' /\ ~Removes(t, g)'
       /\ \A g : Removes(t, g) => g = h
  <2>1. \A g : ~Gives(t, g) BY <1>2 DEF Gives
  <2>2. \A g : Removes(t, g) => g = h BY <1>0 DEF Removes
  <2> QED BY <1>7, <1>10, <2>1, <2>2 DEF Frame
<1>12. \A u \in Threads : u = t \/ u \in Threads \ {t} OBVIOUS
<1>13. GiveReady' BY <1>7, <1>10, <1>12 DEF GiveReady, Frame
<1>14. /\ owned' \in [Slots -> {0, 1}] /\ owned'[h] = 0
       /\ \A g \in Slots : g # h => owned'[g] = owned[g]
  BY <1>5, <1>6 DEF PlainInv, PlainTypes
<1>15. \A u \in Threads : ~Gives(u, h)' /\ ~Removes(u, h)'
  BY <1>5, <1>10, <1>11, <1>12 DEF Frame
<1>16. \A u \in Threads, g \in Slots : g # h =>
         /\ Gives(u, g)' <=> Gives(u, g)
         /\ Removes(u, g)' <=> Removes(u, g)
         /\ Gives(u, g) => local'[u].object = local[u].object
  BY <1>10, <1>11, <1>12 DEF Frame
<1>17. \A u \in Threads : todo'[u] \in PlainScripts /\ local'[u].name = NoName
  BY <1>10 DEF Frame
<1> QED BY <1>5, <1>6, <1>13, <1>14, <1>15, <1>16, <1>17, PlainRemoves

LEMMA PlainClose ==
  ASSUME TableInv, PlainInv, NEW t \in Threads, Close(t)
  PROVE  PlainInv'
<1>1. PICK h \in Slots : /\ owned[h] > 0 /\ owned' = [owned EXCEPT ![h] = @ - 1]
                         /\ Release(h) /\ UNCHANGED <<stash, calls, denotes, derefs>>
  BY DEF Close
<1>2. owned \in [Slots -> {0, 1}] BY DEF PlainInv, PlainTypes
<1>3. owned[h] = 1 BY <1>1, <1>2
<1>4. /\ table[h].object # NoObject /\ table[h].refs = 1
      /\ \A u \in Threads : ~Gives(u, h) /\ ~Removes(u, h)
  BY <1>3 DEF PlainInv, OneUse, InUse
<1>5. Remove(h) /\ UNCHANGED <<stash, todo, local, denotes, derefs>>
  BY <1>1, <1>4 DEF Release, calls
<1>6. HeadsKept(h) BY <1>5, HeadsStay
<1>7. \A u \in Threads :
        /\ \A g : (Gives(u, g)' <=> Gives(u, g)) /\ (Removes(u, g)' <=> Removes(u, g))
        /\ todo'[u] \in Giving => \E g \in Slots : Gives(u, g)'
  BY <1>4, <1>5, <1>6, OthersGive
<1>8. GiveReady' BY <1>7 DEF GiveReady
<1>9. /\ owned' \in [Slots -> {0, 1}] /\ owned'[h] = 0
      /\ \A g \in Slots : g # h => owned'[g] = owned[g]
  BY <1>1, <1>2, <1>3
<1>10. \A u \in Threads : todo'[u] \in PlainScripts /\ local'[u].name = NoName
  BY <1>5 DEF PlainInv, PlainTypes
<1>11. \A u \in Threads : ~Gives(u, h)' /\ ~Removes(u, h)' BY <1>4, <1>7
<1>12. \A u \in Threads, g \in Slots : g # h =>
         /\ Gives(u, g)' <=> Gives(u, g)
         /\ Removes(u, g)' <=> Removes(u, g)
         /\ Gives(u, g) => local'[u].object = local[u].object
  BY <1>5, <1>7
<1> QED BY <1>4, <1>5, <1>8, <1>9, <1>10, <1>11, <1>12, PlainRemoves

LEMMA PlainNew ==
  ASSUME PlainGuest, TableInv, PlainInv, NEW t \in Threads, New(t)
  PROVE  PlainInv'
<1> DEFINE s == <<"handle", "GiveHandle">>
<1>1. PICK o \in Objects, h \in Slots :
        /\ At(t, "New") /\ stash[o] = NoHandle /\ IsFreeSlot(h) /\ Insert(o, h)
        /\ stash' = [stash EXCEPT ![o] = h]
        /\ local' = [local EXCEPT ![t].object = o]
        /\ todo' = [todo EXCEPT ![t] =
                      (IF local[t].name = NoName THEN <<>> ELSE <<"AddNameMapping">>) \o s]
        /\ UNCHANGED <<lastFree, names, guest>>
  BY DEF New
<1> DEFINE l == [local[t] EXCEPT !.object = o]
<1>2. /\ todo[t] \in PlainScripts /\ todo[t] # <<>> /\ Head(todo[t]) = "New"
      /\ local[t] \in Locals /\ local[t].name = NoName
  BY <1>1, PlainAt
<1>3. todo[t] \notin Moving /\ todo[t] \notin Giving BY <1>2, PlainNext
<1>4. l.name = NoName /\ l.object = o BY <1>2 DEF Locals
<1>5. /\ table \in [Slots -> Entries] /\ handles \in [Objects -> Seq(Slots)]
      /\ stash \in [Objects -> Slots \cup {NoHandle}]
  BY DEF TableInv, TableTypes
<1>6. /\ table' = [table EXCEPT ![h] = [object |-> o, refs |-> 1]]
      /\ handles' = [handles EXCEPT ![o] = Append(@, h)]
      /\ local' = [local EXCEPT ![t] = l] /\ todo' = [todo EXCEPT ![t] = s]
      /\ UNCHANGED <<names, owned, denotes, derefs>>
  <2>1. <<>> \o s = s OBVIOUS
  <2> HIDE DEF s
  <2> QED BY <1>1, <1>2, <2>1 DEF Insert, guest
<1>7. owned[h] = 0 /\ \A u \in Threads : ~Gives(u, h) /\ ~Removes(u, h)
  BY <1>1, Unused DEF IsFreeSlot
<1>8. s \in PlainScripts /\ s \in Giving /\ s \notin Moving BY PlainStarts
<1>9. o # NoObject BY ObjectAssumption
<1>10. handles'[o] # <<>> /\ Head(handles'[o]) = h
  <2>1. handles[o] = <<>> BY <1>1 DEF PlainInv, PlainTypes
  <2>2. handles'[o] = Append(handles[o], h) /\ handles[o] \in Seq(Slots) BY <1>5, <1>6
  <2> QED BY <2>1, <2>2, ListHeads
<1> HIDE DEF l
<1>11. HeadsKept(NoHandle)
  <2> SUFFICES ASSUME NEW p \in Objects, handles[p] # <<>>
               PROVE  handles'[p] # <<>> /\ Head(handles'[p]) = Head(handles[p])
    BY DEF HeadsKept
  <2>1. p # o BY <1>1 DEF PlainInv, PlainTypes
  <2> QED BY <1>5, <1>6, <2>1
<1>12. \A g \in Slots : Gives(t, g)' <=> g = h
  <2>1. DOMAIN todo = Threads /\ DOMAIN local = Threads BY DEF TableInv, TableTypes
  <2>2. todo'[t] = s /\ local'[t].object = o BY <1>4, <1>6, <2>1
  <2> QED BY <1>8, <1>10, <2>2 DEF Gives
<1> HIDE DEF s
<1>13. Frame(t, s, l)
  <2>1. Leaves(t, s, l) BY <1>4, <1>6, <1>8 DEF Leaves
  <2> QED BY <1>11, <2>1, NothingGiven, PlainFrame
<1>14. /\ \A u \in Threads, g \in Slots : Removes(u, g)' <=> Removes(u, g)
       /\ \A u \in Threads \ {t}, g \in Slots : Gives(u, g)' <=> Gives(u, g)
       /\ \A u \in Threads \ {t} : local'[u].object = local[u].object
       /\ \A g \in Slots : ~Gives(t, g)
  <2>1. \A g : ~Removes(t, g) /\ ~Gives(t, g) BY <1>3 DEF Gives, Removes
  <2> QED BY <1>8, <1>13, <2>1 DEF Frame
<1>15. /\ table'[h] = [object |-> o, refs |-> 1]
       /\ \A g \in Slots : g # h => table'[g] = table[g]
  BY <1>5, <1>6
<1>16. local'[t].object = o BY <1>4, <1>13 DEF Frame
<1>17. GiveReady' BY <1>12, <1>13 DEF GiveReady, Frame
<1>18. OneUse'
  <2> SUFFICES ASSUME NEW g \in Slots
        PROVE  /\ table'[g].object # NoObject <=> InUse(g)'
               /\ table'[g].object # NoObject => table'[g].refs = 1
               /\ \A u \in Threads : Gives(u, g)' \/ Removes(u, g)' => owned'[g] = 0
               /\ \A u, w \in Threads :
                    /\ Gives(u, g)' => ~Removes(w, g)' /\ (Gives(w, g)' => u = w)
                    /\ Removes(u, g)' /\ Removes(w, g)' => u = w
    BY DEF OneUse
  <2>1. CASE g = h BY <1>6, <1>7, <1>9, <1>12, <1>14, <1>15, <2>1 DEF InUse
  <2>2. CASE g # h BY <1>6, <1>12, <1>14, <1>15, <2>2 DEF PlainInv, OneUse, InUse
  <2> QED BY <2>1, <2>2
<1>19. Denoting'
  <2> SUFFICES ASSUME NEW g \in Slots
        PROVE  /\ owned'[g] = 1 => table'[g].object = denotes'[g]
               /\ \A u \in Threads : Gives(u, g)' => table'[g].object = local'[u].object
    BY DEF Denoting
  <2>1. CASE g = h BY <1>6, <1>7, <1>12, <1>14, <1>15, <1>16, <2>1
  <2>2. CASE g # h BY <1>6, <1>12, <1>14, <1>15, <2>2 DEF PlainInv, Denoting
  <2> QED BY <2>1, <2>2
<1>20. PlainTypes'
  <2>1. ASSUME NEW p \in Objects, stash'[p] = NoHandle PROVE handles'[p] = <<>>
    <3>1. p # o BY <1>1, <1>5, <2>1, TableAssumption
    <3>2. stash[p] = NoHandle BY <1>1, <1>5, <2>1, <3>1
    <3> QED BY <1>5, <1>6, <3>1, <3>2 DEF PlainInv, PlainTypes
  <2> QED BY <1>6, <1>13, <2>1 DEF PlainInv, PlainTypes, Frame
<1> QED BY <1>17, <1>18, <1>19, <1>20 DEF PlainInv

LEMMA PlainCreate ==
  ASSUME PlainGuest, TableInv, PlainInv, NEW t \in Threads, Create(t)
  PROVE  PlainInv'
<1> DEFINE s == <<"New">>
<1>1. ASSUME NEW n \in Names \cup {NoName} PROVE ~Mapped(n)
  BY <1>1 DEF Mapped, PlainInv, PlainTypes
<1>2. PICK n \in Names \cup {NoName} :
        /\ Idle(t) /\ \E o \in Objects : NameOf[o] = n
        /\ local' = [local EXCEPT ![t].name = n] /\ todo' = [todo EXCEPT ![t] = s]
        /\ UNCHANGED table /\ UNCHANGED <<lastFree, handles, pointers, stash, names, guest>>
  BY <1>1 DEF Create
<1>3. n = NoName BY <1>2 DEF PlainGuest, Named
<1>4. todo[t] = <<>> /\ local[t] \in Locals BY <1>2, IdleFacts DEF Idle
<1> DEFINE l == [local[t] EXCEPT !.name = n]
<1>5. l.name = NoName /\ local' = [local EXCEPT ![t] = l] BY <1>2, <1>3, <1>4 DEF Locals
<1>6. /\ todo[t] \notin Moving /\ todo[t] \notin Giving
      /\ s \notin Moving /\ s \notin Giving /\ s \in PlainScripts
  BY <1>4, PlainStarts
<1> HIDE DEF s, l
<1>7. Leaves(t, s, l) BY <1>2, <1>5, <1>6 DEF Leaves
<1>8. \A g \in Slots : Removes(t, g) <=> s \in Moving /\ l.argument = g
  BY <1>6 DEF Removes
<1> QED BY <1>2, <1>6, <1>7, <1>8, OnlyCallMoves

LEMMA PlainDuplicate ==
  ASSUME TableInv, PlainInv, NEW t \in Threads, Duplicate(t)
  PROVE  PlainInv'
<1> DEFINE s == <<"LookupObject", "AddHandle", "GiveHandle">>
<1>1. PICK h \in Slots : Call(t, h, s) /\ UNCHANGED owned BY DEF Duplicate
<1>2. todo[t] = <<>> /\ local[t] \in Locals BY <1>1, IdleFacts DEF Idle, Call
<1> DEFINE l == [local[t] EXCEPT !.argument = h]
<1>3. /\ todo[t] \notin Moving /\ todo[t] \notin Giving
      /\ s \notin Moving /\ s \notin Giving /\ s \in PlainScripts
  BY <1>2, PlainStarts
<1>4. l.name = NoName BY <1>2 DEF Locals, PlainInv, PlainTypes
<1>5. /\ local' = [local EXCEPT ![t] = l] /\ todo' = [todo EXCEPT ![t] = s]
      /\ UNCHANGED <<table, handles, stash, names, guest>>
  BY <1>1 DEF Call, kernel, guest
<1> HIDE DEF s, l
<1>6. Leaves(t, s, l) BY <1>3, <1>4, <1>5 DEF Leaves
<1>7. \A g \in Slots : Removes(t, g) <=> s \in Moving /\ l.argument = g
  BY <1>3 DEF Removes
<1> QED BY <1>3, <1>5, <1>6, <1>7, OnlyCallMoves

LEMMA PlainMove ==
  ASSUME TableInv, PlainInv, NEW t \in Threads, Move(t)
  PROVE  PlainInv'
<1> DEFINE s == <<"LookupObject", "AddHandle", "GiveHandle", "RemoveHandle">>
<1>1. PICK h \in Slots : Call(t, h, s) /\ owned' = [owned EXCEPT ![h] = @ - 1] BY DEF Move
<1>2. todo[t] = <<>> /\ local[t] \in Locals BY <1>1, IdleFacts DEF Idle, Call
<1> DEFINE l == [local[t] EXCEPT !.argument = h]
<1>3. /\ todo[t] \notin Moving /\ todo[t] \notin Giving
      /\ s \in Moving /\ s \notin Giving /\ s \in PlainScripts
  BY <1>2, PlainStarts
<1>4. l.name = NoName /\ l.argument = h BY <1>2 DEF Locals, PlainInv, PlainTypes
<1>5. /\ local' = [local EXCEPT ![t] = l] /\ todo' = [todo EXCEPT ![t] = s]
      /\ UNCHANGED <<table, handles, stash, names, denotes, derefs>>
  BY <1>1 DEF Call, kernel
<1>6. owned[h] > 0 /\ owned \in [Slots -> {0, 1}]
  BY <1>1 DEF Call, PlainInv, PlainTypes
<1>7. /\ owned[h] = 1 /\ owned'[h] = 0 /\ owned' \in [Slots -> {0, 1}]
      /\ \A g \in Slots : g # h => owned'[g] = owned[g]
  BY <1>1, <1>6
<1>8. /\ InUse(h) /\ \A u \in Threads : ~Gives(u, h) /\ ~Removes(u, h)
  BY <1>7 DEF PlainInv, OneUse, InUse
<1> HIDE DEF s, l
<1>9. s # <<"handle", "GiveHandle">> BY <1>3, PlainStarts
<1>10. Frame(t, s, l)
  <2>1. Leaves(t, s, l) BY <1>3, <1>4, <1>5 DEF Leaves
  <2>2. HeadsKept(NoHandle) BY <1>5 DEF HeadsKept
  <2> QED BY <2>1, <2>2, NothingGiven, PlainFrame
<1>11. /\ \A u \in Threads, g \in Slots : Gives(u, g)' <=> Gives(u, g)
       /\ \A u \in Threads \ {t}, g \in Slots : Removes(u, g)' <=> Removes(u, g)
       /\ \A u \in Threads \ {t} : local'[u].object = local[u].object
       /\ \A g \in Slots : /\ Removes(t, g)' <=> g = h
                           /\ ~Removes(t, g) /\ ~Gives(t, g)
  <2>1. \A g : ~Removes(t, g) /\ ~Gives(t, g) BY <1>3 DEF Gives, Removes
  <2> QED BY <1>3, <1>4, <1>9, <1>10, <2>1 DEF Frame
<1>12. GiveReady' BY <1>3, <1>10 DEF GiveReady, Frame
<1>13. OneUse'
  <2> SUFFICES ASSUME NEW g \in Slots
        PROVE  /\ table'[g].object # NoObject <=> InUse(g)'
               /\ table'[g].object # NoObject => table'[g].refs = 1
               /\ \A u \in Threads : Gives(u, g)' \/ Removes(u, g)' => owned'[g] = 0
               /\ \A u, w \in Threads :
                    /\ Gives(u, g)' => ~Removes(w, g)' /\ (Gives(w, g)' => u = w)
                    /\ Removes(u, g)' /\ Removes(w, g)' => u = w
    BY DEF OneUse
  <2>1. CASE g = h
    <3>1. table[g].object # NoObject /\ table[g].refs = 1 BY <1>8, <2>1 DEF PlainInv, OneUse
    <3> QED BY <1>5, <1>7, <1>8, <1>11, <2>1, <3>1 DEF InUse
  <2>2. CASE g # h BY <1>5, <1>7, <1>11, <2>2 DEF PlainInv, OneUse, InUse
  <2> QED BY <2>1, <2>2
<1>14. Denoting' BY <1>5, <1>7, <1>11 DEF PlainInv, Denoting
<1>15. PlainTypes' BY <1>5, <1>7, <1>10 DEF PlainInv, PlainTypes, Frame
<1> QED BY <1>12, <1>13, <1>14, <1>15 DEF PlainInv

LEMMA PlainPurge ==
  ASSUME PlainInv, PurgeAllObjects
  PROVE  PlainInv'
<1>1. /\ \A t \in Threads : todo[t] = <<>>
      /\ table' = [h \in Slots |-> Free] /\ owned' = [h \in Slots |-> 0]
      /\ derefs' = [o \in Objects |-> 0]
      /\ UNCHANGED <<handles, stash, names, todo, local, denotes>>
  BY DEF PurgeAllObjects, Idle, calls
<1>2. \A t \in Threads : todo'[t] \notin Giving /\ todo'[t] \notin Moving
  BY <1>1, PlainStarts
<1>3. \A t \in Threads : \A h : ~Gives(t, h)' /\ ~Removes(t, h)'
  BY <1>2 DEF Gives, Removes
<1>4. GiveReady' BY <1>2 DEF GiveReady
<1>5. \A h \in Slots : table'[h].object = NoObject /\ owned'[h] = 0 BY <1>1 DEF Free
<1>6. OneUse' /\ Denoting' BY <1>3, <1>5 DEF OneUse, InUse, Denoting
<1>7. PlainTypes'
  <2>1. owned' \in [Slots -> {0, 1}] BY <1>1
  <2> QED BY <1>1, <2>1 DEF PlainInv, PlainTypes
<1> QED BY <1>4, <1>6, <1>7 DEF PlainInv

LEMMA PlainInit == PlainGuest /\ Init => PlainInv
<1> SUFFICES ASSUME Init PROVE PlainInv OBVIOUS
<1>1. /\ \A t \in Threads : todo[t] = <<>> /\ local[t].name = NoName
      /\ \A h \in Slots : table[h].object = NoObject /\ owned[h] = 0
      /\ owned \in [Slots -> {0, 1}] /\ DOMAIN denotes = Slots
      /\ \A n \in Names : names[n] = NoHandle
      /\ \A o \in Objects : derefs[o] = 0 /\ handles[o] = <<>>
  BY DEF Init, NoLocals, Free
<1>2. \A t \in Threads : todo[t] \notin Giving /\ todo[t] \notin Moving
  BY <1>1, PlainStarts
<1>3. \A t \in Threads : \A h : ~Gives(t, h) /\ ~Removes(t, h) BY <1>2 DEF Gives, Removes
<1>4. GiveReady BY <1>2 DEF GiveReady
<1>5. OneUse /\ Denoting BY <1>1, <1>3 DEF OneUse, InUse, Denoting
<1>6. PlainTypes BY <1>1, PlainStarts DEF PlainTypes
<1> QED BY <1>4, <1>5, <1>6 DEF PlainInv

LEMMA PlainStep ==
  Launched /\ PlainGuest /\ TableInv /\ PlainInv /\ [Next]_vars => PlainInv'
<1> SUFFICES ASSUME Launched, PlainGuest, TableInv, PlainInv, [Next]_vars PROVE PlainInv'
  OBVIOUS
<1>1. CASE PurgeAllObjects BY <1>1, PlainPurge
<1>2. ASSUME NEW t \in Threads, Operation(t) PROVE PlainInv'
  <2>1. CASE LookupObject(t) BY <2>1, PlainLookup
  <2>2. CASE AddHandle(t) BY <2>2, PlainAddHandle
  <2>3. CASE Handle(t) BY <2>3, PlainHandle
  <2>4. CASE GiveHandle(t) BY <2>4, PlainGive
  <2>5. CASE RemoveHandle(t) BY <2>5, PlainRemoveHandle
  <2>6. CASE New(t) BY <2>6, PlainNew
  <2>7. CASE \/ ReadHandle(t) \/ RetainHandle(t) \/ ReleaseHandle(t) \/ FirstHandle(t)
             \/ GivePointer(t) \/ DropObject(t) \/ AddNameMapping(t)
    <3>1. PICK op \in {"ReadHandle", "RetainHandle", "ReleaseHandle", "FirstHandle",
                       "GivePointer", "DropObject", "AddNameMapping"} : At(t, op)
      BY <2>7 DEF ReadHandle, RetainHandle, ReleaseHandle, FirstHandle, GivePointer,
                  DropObject, AddNameMapping
    <3>2. todo[t] \in PlainScripts /\ todo[t] # <<>> /\ Head(todo[t]) = op
      BY <3>1, PlainAt
    <3>3. Head(todo[t]) \in {"New", "handle", "GiveHandle", "LookupObject", "AddHandle",
                             "RemoveHandle"}
      BY <3>2, PlainNext
    <3> QED BY <3>2, <3>3
  <2> QED BY <1>2, <2>1, <2>2, <2>3, <2>4, <2>5, <2>6, <2>7 DEF Operation
<1>3. ASSUME NEW t \in Threads, GuestCall(t) PROVE PlainInv'
  <2>1. CASE Create(t) BY <2>1, PlainCreate
  <2>2. CASE Close(t) BY <2>2, PlainClose
  <2>3. CASE Duplicate(t) BY <2>3, PlainDuplicate
  <2>4. CASE Move(t) BY <2>4, PlainMove
  <2>5. CASE OpenByName(t) \/ Reference(t) \/ ReferenceByName(t)
    BY <2>5 DEF OpenByName, Reference, ReferenceByName, PlainGuest
  <2>6. CASE Dereference(t) BY <2>6 DEF Dereference, PlainInv, PlainTypes
  <2> QED BY <1>3, <2>1, <2>2, <2>3, <2>4, <2>5, <2>6 DEF GuestCall
<1>4. CASE UNCHANGED vars
  <2>1. UNCHANGED <<table, handles, stash, names, todo, local, owned, denotes, derefs>>
    BY <1>4 DEF vars, kernel, calls, guest
  <2>2. \A t \in Threads : \A h : (Gives(t, h)' <=> Gives(t, h))
                                  /\ (Removes(t, h)' <=> Removes(t, h))
    BY <2>1 DEF Gives, Removes
  <2>3. OneUse' /\ Denoting' BY <2>1, <2>2, SameUses
  <2>4. GiveReady' BY <2>1, <2>2 DEF PlainInv, GiveReady
  <2>5. PlainTypes' BY <2>1 DEF PlainInv, PlainTypes
  <2> QED BY <2>3, <2>4, <2>5 DEF PlainInv
<1>5. title.threads \subseteq Threads BY LaunchedTitle
<1> QED BY <1>1, <1>2, <1>3, <1>4, <1>5 DEF Next

\* The kind of the guest is that of its title.
LEMMA KindsStay ==
  [Next]_vars => (PlainGuest' <=> PlainGuest) /\ (ReferringGuest' <=> ReferringGuest)
<1>1. [Next]_vars => title' = title BY TitleStays
<1> QED BY <1>1 DEF PlainGuest, ReferringGuest, Calls, CarefulGuest, Named, NameOf

LEMMA PlainInvariant == Spec => [](PlainGuest => PlainInv)
<1>1. Init => (PlainGuest => PlainInv) BY PlainInit
<1>2. Launched /\ TableInv /\ (PlainGuest => PlainInv) /\ [Next]_vars
        => (PlainGuest => PlainInv)'
  BY PlainStep, KindsStay
<1> QED BY <1>1, <1>2, LaunchInvariant, TableInvariant, PTL DEF Spec

\* Handles of objects without names, which threads create, duplicate, move and
\* close while they interrupt each other: a handle the guest may use denotes the
\* object it was given it for.  That another thread closes or moves the handle a
\* call was given, and that its slot is used again before the call looks at it, is
\* included.
THEOREM AHandleDenotes == Spec => [](PlainGuest => HandleDenotes)
<1>1. PlainInv => HandleDenotes
  <2> SUFFICES ASSUME PlainInv, NEW h \in Slots, owned[h] > 0
               PROVE  table[h].object = denotes[h]
    BY DEF HandleDenotes
  <2>1. owned[h] \in {0, 1} BY DEF PlainInv, PlainTypes
  <2> QED BY <2>1 DEF PlainInv, Denoting
<1> QED BY <1>1, PlainInvariant, PTL

\* When none of these calls is in progress, an entry of the table is one the guest
\* may close, once: none was lost by a call whose handle was gone before it looked.
THEOREM NoHandleLeaks == Spec => [](PlainGuest => NothingLeaks)
<1>1. TableInv /\ PlainInv => NothingLeaks
  <2> SUFFICES ASSUME TableInv, PlainInv, \A t \in Threads : Idle(t), NEW h \in Slots,
                      table[h].object # NoObject
               PROVE  table[h].refs = owned[h] + (IF h = Head(handles[table[h].object])
                                                  THEN derefs[table[h].object] ELSE 0)
    BY DEF NothingLeaks
  <2>1. \A t \in Threads : ~Gives(t, h) /\ ~Removes(t, h)
    BY PlainStarts DEF Idle, Gives, Removes
  <2>2. owned[h] = 1 /\ table[h].refs = 1 BY <2>1 DEF PlainInv, OneUse, InUse
  <2>3. table[h].object \in Objects BY DEF TableInv, TableTypes, Entries
  <2>4. derefs[table[h].object] = 0 BY <2>3 DEF PlainInv, PlainTypes
  <2> QED BY <2>2, <2>4
<1> QED BY <1>1, TableInvariant, PlainInvariant, PTL

-----------------------------------------------------------------------------
(* The handles of a careful guest that creates objects, opens and closes     *)
(* them, and references and dereferences them, with names and without: the   *)
(* count of a handle is that of the guest's uses, of its references, and of  *)
(* the calls under way that have a use and have not yet given it, or not yet *)
(* given it up.  The search for a named object gives up the use it took      *)
(* before it takes another: the handle is still there because the guest, or  *)
(* a call that creates it, has one that nobody gives up meanwhile (Kept).    *)

\* What is left of a call: of one that has yet to retain a handle that it has no use of, ...
Referring ==
  {<<"LookupObject", "ReadHandle", "RetainHandle", "GivePointer">>,
   <<"ReadHandle", "RetainHandle", "GivePointer">>, <<"RetainHandle", "GivePointer">>,
   <<"ReadHandle", "RetainHandle", "handle", "GiveHandle">>,
   <<"RetainHandle", "handle", "GiveHandle">>}

\* ... of one that has found a handle by its name, and has yet to give up the use that
\* the search took, ...
Finding ==
  {<<"LookupObject", "ReadHandle", "ReleaseHandle", "ReadHandle", "RetainHandle", "handle",
     "GiveHandle">>,
   <<"ReadHandle", "ReleaseHandle", "ReadHandle", "RetainHandle", "handle", "GiveHandle">>,
   <<"ReleaseHandle", "ReadHandle", "RetainHandle", "handle", "GiveHandle">>}

\* ... of one that has yet to give up a reference, ...
Releasing ==
  {<<"LookupObject", "ReadHandle", "ReleaseHandle", "DropObject">>,
   <<"ReadHandle", "ReleaseHandle", "DropObject">>, <<"ReleaseHandle", "DropObject">>}

\* ... and of one that has a use and has yet to give it to the guest.
Creating ==
  {<<"AddNameMapping", "handle", "GiveHandle">>, <<"handle", "GiveHandle">>,
   <<"GiveHandle">>}

Holding == Finding \cup Releasing \cup Creating \cup {<<"GivePointer">>}
Resting == {<<>>, <<"New">>, <<"DropObject">>}

\* The handle that the call of thread t is about.
Subject(t) == IF todo[t] \in Creating THEN stash[local[t].object] ELSE local[t].argument

\* The call has a use of handle h.
Uses(t, h) == todo[t] \in Holding /\ Subject(t) = h
Users(h) == {t \in Threads : Uses(t, h)}

\* The guest may close h, or the call of thread t will give it: a use that no call of
\* another thread gives up.
Keeps(t, h) == owned[h] > 0 \/ (todo[t] \in Creating /\ Subject(t) = h)
Kept(h) == \E t \in Threads : Keeps(t, h)

CallFine(t) ==
  /\ todo[t] \in Referring \cup Holding \cup Resting
  /\ todo[t] \in Referring \cup Holding =>
       /\ Subject(t) \in Slots
       /\ First(todo[t]) # "LookupObject" => table[Subject(t)].object = local[t].object
       /\ First(todo[t]) \in {"RetainHandle", "ReleaseHandle", "GiveHandle"} =>
            local[t].handle = Subject(t)
  /\ todo[t] \in Referring => Kept(Subject(t))
  /\ todo[t] \in Finding => Named
  /\ First(todo[t]) = "AddNameMapping" =>
       local[t].name \in Names /\ NameOf[local[t].object] = local[t].name

GuestTypes ==
  owned \in [Slots -> Nat] /\ DOMAIN denotes = Slots /\ derefs \in [Objects -> Nat]

\* An object has one handle, which is the one in its structure, or none.
OneHandle ==
  /\ \A h \in Slots : LET o == table[h].object
                      IN  o # NoObject => stash[o] = h /\ handles[o] = <<h>>
  /\ \A o \in Objects :
       /\ handles[o] # <<>> => stash[o] \in Slots /\ table[stash[o]].object = o
       /\ derefs[o] > 0 => handles[o] # <<>>

UsesCounted ==
  \A h \in Slots :
    LET o == table[h].object
    IN  /\ o = NoObject => owned[h] = 0 /\ Users(h) = {}
        /\ o # NoObject =>
             /\ table[h].refs = owned[h] + derefs[o] + Cardinality(Users(h))
             /\ table[h].refs > 0
        /\ owned[h] > 0 => denotes[h] = o

\* A guest that names objects keeps a handle while it has any use of it.
HandlesKept == Named => \A h \in Slots : table[h].object # NoObject => Kept(h)

\* A name leads to an object that was created with it.
NamesLead ==
  \A n \in Names : names[n] # NoHandle =>
    LET o == table[names[n]].object IN o # NoObject /\ NameOf[o] = n

ReferenceInv ==
  /\ GuestTypes /\ (\A t \in Threads : CallFine(t)) /\ OneHandle /\ UsesCounted
  /\ HandlesKept /\ NamesLead

\* The operations of these calls, one after the other.
LEMMA ReferringNext ==
  ASSUME NEW s \in Referring \cup Holding \cup Resting, s # <<>>
  PROVE  /\ Tail(s) \in Referring \cup Holding \cup Resting
         /\ Head(s) \in {"LookupObject", "ReadHandle", "RetainHandle", "ReleaseHandle",
                         "handle", "GiveHandle", "GivePointer", "DropObject", "New",
                         "AddNameMapping"}
         /\ Head(s) \in {"LookupObject", "ReadHandle"} =>
              /\ s \in Referring \cup Holding /\ s \notin Creating /\ Tail(s) \notin Creating
              /\ Tail(s) \in Referring <=> s \in Referring
              /\ Tail(s) \in Holding <=> s \in Holding
              /\ Tail(s) \in Finding => s \in Finding
              /\ First(Tail(s)) \in {"ReadHandle", "RetainHandle", "ReleaseHandle"}
         /\ Head(s) = "LookupObject" => First(Tail(s)) = "ReadHandle"
         /\ Head(s) = "RetainHandle" =>
              /\ s \in Referring \ (Holding \cup Creating)
              /\ Tail(s) \in {<<"GivePointer">>, <<"handle", "GiveHandle">>}
         /\ Head(s) = "ReleaseHandle" =>
              /\ s \in Holding \ (Referring \cup Creating)
              /\ \/ Tail(s) = <<"DropObject">>
                 \/ /\ s \in Finding
                    /\ Tail(s) = <<"ReadHandle", "RetainHandle", "handle", "GiveHandle">>
         /\ Head(s) = "AddNameMapping" =>
              /\ s = <<"AddNameMapping", "handle", "GiveHandle">>
              /\ Tail(s) = <<"handle", "GiveHandle">>
         /\ Head(s) = "handle" => s = <<"handle", "GiveHandle">> /\ Tail(s) = <<"GiveHandle">>
         /\ Head(s) \in {"GiveHandle", "GivePointer", "DropObject", "New"} =>
              s = <<Head(s)>> /\ Tail(s) = <<>> /\ Len(s) = 1
<1> USE DEF Referring, Finding, Holding, Releasing, Creating, Resting, First
<1>1. CASE s = <<"LookupObject", "ReadHandle", "RetainHandle", "GivePointer">> BY <1>1
<1>2. CASE s = <<"ReadHandle", "RetainHandle", "GivePointer">> BY <1>2
<1>3. CASE s = <<"RetainHandle", "GivePointer">> BY <1>3
<1>4. CASE s = <<"GivePointer">> BY <1>4
<1>5. CASE s = <<"LookupObject", "ReadHandle", "ReleaseHandle", "DropObject">> BY <1>5
<1>6. CASE s = <<"ReadHandle", "ReleaseHandle", "DropObject">> BY <1>6
<1>7. CASE s = <<"ReleaseHandle", "DropObject">> BY <1>7
<1>8. CASE s = <<"DropObject">> BY <1>8
<1>9. CASE s = <<"handle", "GiveHandle">> BY <1>9
<1>10. CASE s = <<"GiveHandle">> BY <1>10
<1>11. CASE s = <<"New">> BY <1>11
<1>12. CASE s = <<"AddNameMapping", "handle", "GiveHandle">> BY <1>12
<1>13. CASE s = <<"LookupObject", "ReadHandle", "ReleaseHandle", "ReadHandle",
                  "RetainHandle", "handle", "GiveHandle">>
  BY <1>13
<1>14. CASE s = <<"ReadHandle", "ReleaseHandle", "ReadHandle", "RetainHandle", "handle",
                  "GiveHandle">>
  BY <1>14
<1>15. CASE s = <<"ReleaseHandle", "ReadHandle", "RetainHandle", "handle", "GiveHandle">>
  BY <1>15
<1>16. CASE s = <<"ReadHandle", "RetainHandle", "handle", "GiveHandle">> BY <1>16
<1>17. CASE s = <<"RetainHandle", "handle", "GiveHandle">> BY <1>17
<1>18. CASE s \in Referring BY <1>1, <1>2, <1>3, <1>16, <1>17, <1>18
<1>19. CASE s \in Finding BY <1>13, <1>14, <1>15, <1>19
<1>20. CASE s \in Releasing BY <1>5, <1>6, <1>7, <1>20
<1>21. CASE s \in Creating \cup {<<"GivePointer">>} BY <1>4, <1>9, <1>10, <1>12, <1>21
<1>22. CASE s \in Resting BY <1>8, <1>11, <1>22
<1> QED BY <1>18, <1>19, <1>20, <1>21, <1>22 DEF Holding

LEMMA ReferringStarts ==
  /\ Creating \subseteq Holding /\ Referring \cap Holding = {}
  /\ Finding \subseteq Holding /\ Finding \cap Creating = {}
  /\ Resting \cap (Referring \cup Holding) = {}
  /\ {<<>>, <<"New">>, <<"DropObject">>} = Resting
  /\ {<<"AddNameMapping", "handle", "GiveHandle">>, <<"handle", "GiveHandle">>,
      <<"GiveHandle">>} = Creating
  /\ <<"GivePointer">> \in Holding \ (Creating \cup Finding)
  /\ First(<<"GivePointer">>) = "GivePointer"
  /\ First(<<"GiveHandle">>) = "GiveHandle" /\ First(<<"handle", "GiveHandle">>) = "handle"
  /\ First(<<"AddNameMapping", "handle", "GiveHandle">>) = "AddNameMapping"
  /\ \A s \in Resting : First(s) # "AddNameMapping"
  /\ LET s == <<"LookupObject", "ReadHandle", "RetainHandle", "GivePointer">>
     IN  s \in Referring \ (Creating \cup Finding) /\ First(s) = "LookupObject"
  /\ LET s == <<"LookupObject", "ReadHandle", "ReleaseHandle", "DropObject">>
     IN  s \in Holding \ (Creating \cup Finding) /\ First(s) = "LookupObject"
  /\ LET s == <<"LookupObject", "ReadHandle", "ReleaseHandle", "ReadHandle",
                "RetainHandle", "handle", "GiveHandle">>
     IN  s \in Finding \ Creating /\ First(s) = "LookupObject"
  /\ LET s == <<"ReadHandle", "RetainHandle", "handle", "GiveHandle">>
     IN  s \in Referring \ (Creating \cup Finding) /\ First(s) = "ReadHandle"
BY DEF Referring, Finding, Holding, Releasing, Creating, Resting, First

\* The other threads take no step, and no object changes the handle in its structure.
Others(t) ==
  /\ \A u \in Threads \ {t} : todo'[u] = todo[u] /\ local'[u] = local[u]
  /\ \A o \in Objects : stash[o] # NoHandle => stash'[o] = stash[o]
  /\ title' = title

LEMMA Steps ==
  ASSUME TableInv, NEW t \in Threads, NEW s, NEW l, title' = title,
         todo' = [todo EXCEPT ![t] = s], local' = [local EXCEPT ![t] = l],
         \A o \in Objects : stash[o] # NoHandle => stash'[o] = stash[o]
  PROVE  Others(t) /\ todo'[t] = s /\ local'[t] = l
BY DEF Others, TableInv, TableTypes

LEMMA NamesStay ==
  ASSUME title' = title
  PROVE  NameOf' = NameOf /\ (Named' <=> Named)
BY DEF NameOf, Named

LEMMA CreatingObject ==
  ASSUME TableInv, NEW t \in Threads, todo[t] \in Creating
  PROVE  local[t].object \in Objects /\ stash[local[t].object] # NoHandle
<1>1. PICK op \in {"AddNameMapping", "handle", "GiveHandle"} : At(t, op)
  BY DEF Creating, At
<1> QED BY <1>1, HeldFacts DEF Bare

LEMMA OthersUse ==
  ASSUME TableInv, NEW t \in Threads, Others(t), NEW u \in Threads \ {t}
  PROVE  Subject(u)' = Subject(u) /\ \A g : Uses(u, g)' <=> Uses(u, g)
<1>1. Subject(u)' = Subject(u) BY CreatingObject DEF Others, Subject
<1> QED BY <1>1 DEF Others, Uses

\* A use is only given up by the thread that takes the step.
LEMMA KeptStays ==
  ASSUME TableInv, NEW t \in Threads, Others(t)
  PROVE  \A h : Kept(h) /\ (Keeps(t, h) => Keeps(t, h)') => Kept(h)'
<1> SUFFICES ASSUME NEW h, Kept(h), Keeps(t, h) => Keeps(t, h)' PROVE Kept(h)'
  OBVIOUS
<1>1. PICK u \in Threads : Keeps(u, h) BY DEF Kept
<1>2. CASE Keeps(t, h) BY <1>2 DEF Kept
<1>3. CASE ~Keeps(t, h)
  <2>1. u # t /\ todo[u] \in Creating /\ Subject(u) = h BY <1>1, <1>3 DEF Keeps
  <2>2. todo'[u] = todo[u] /\ Subject(u)' = h BY <2>1, OthersUse DEF Others
  <2>3. Keeps(u, h)' BY <2>1, <2>2 DEF Keeps
  <2> QED BY <2>3 DEF Kept
<1> QED BY <1>2, <1>3

\* What is kept has a use.
LEMMA KeptUsed ==
  ASSUME ReferenceInv, NEW h \in Slots, Kept(h)
  PROVE  /\ owned[h] = 0 => \E u \in Threads : todo[u] \in Creating /\ Uses(u, h)
         /\ table[h].object # NoObject
<1>1. PICK u \in Threads : Keeps(u, h) BY DEF Kept
<1>2. owned[h] \in Nat BY DEF ReferenceInv, GuestTypes
<1>3. owned[h] > 0 \/ (todo[u] \in Creating /\ Uses(u, h))
  BY <1>1, ReferringStarts DEF Keeps, Uses
<1>4. owned[h] > 0 \/ Users(h) # {} BY <1>3 DEF Users
<1>5. table[h].object # NoObject BY <1>2, <1>4 DEF ReferenceInv, UsesCounted
<1> QED BY <1>2, <1>3, <1>5

Use(t, h) == IF Uses(t, h) THEN 1 ELSE 0

LEMMA UsersCount ==
  ASSUME TableInv, NEW t \in Threads, Others(t), NEW h \in Slots
  PROVE  /\ IsFiniteSet(Users(h)) /\ Cardinality(Users(h)) \in Nat
         /\ Cardinality(Users(h))' = Cardinality(Users(h)) + Use(t, h)' - Use(t, h)
         /\ Users(h) = {} /\ ~Uses(t, h)' => Users(h)' = {}
<1>1. IsFiniteSet(Users(h)) BY ObjectAssumption, FS_Subset DEF Users
<1>2. Cardinality(Users(h)) \in Nat BY <1>1, FS_CardinalityType
<1>3. \A u \in Threads : u # t => (Uses(u, h)' <=> Uses(u, h)) BY OthersUse
<1>4. CASE Uses(t, h)' <=> Uses(t, h)
  <2>1. Users(h)' = Users(h) BY <1>3, <1>4 DEF Users
  <2>2. Use(t, h)' = Use(t, h) /\ Use(t, h) \in {0, 1} BY <1>4 DEF Use
  <2> QED BY <1>1, <1>2, <2>1, <2>2
<1>5. CASE Uses(t, h)' /\ ~Uses(t, h)
  <2>1. Users(h)' = Users(h) \cup {t} /\ t \notin Users(h) BY <1>3, <1>5 DEF Users
  <2>2. Use(t, h)' = 1 /\ Use(t, h) = 0 BY <1>5 DEF Use
  <2> QED BY <1>1, <1>2, <1>5, <2>1, <2>2, CountChanges
<1>6. CASE ~Uses(t, h)' /\ Uses(t, h)
  <2>1. Users(h)' = Users(h) \ {t} /\ t \in Users(h) BY <1>3, <1>6 DEF Users
  <2>2. Use(t, h)' = 0 /\ Use(t, h) = 1 BY <1>6 DEF Use
  <2> QED BY <1>1, <1>2, <2>1, <2>2, CountChanges
<1> QED BY <1>4, <1>5, <1>6

\* What a call is about is in the table.
LEMMA SubjectFacts ==
  ASSUME ReferenceInv, NEW t \in Threads, todo[t] \in Referring \cup Holding
  PROVE  /\ Subject(t) \in Slots /\ table[Subject(t)].object # NoObject
         /\ todo[t] \in Holding => Uses(t, Subject(t))
         /\ todo[t] \in Referring => Kept(Subject(t))
<1>1. Subject(t) \in Slots /\ (todo[t] \in Referring => Kept(Subject(t)))
  BY DEF ReferenceInv, CallFine
<1>2. todo[t] \in Holding => Uses(t, Subject(t)) BY DEF Uses
<1>3. todo[t] \in Holding => Users(Subject(t)) # {} BY <1>2 DEF Users
<1>4. CASE todo[t] \in Holding
  BY <1>1, <1>2, <1>3, <1>4 DEF ReferenceInv, UsesCounted
<1>5. CASE todo[t] \in Referring BY <1>1, <1>2, <1>5, KeptUsed
<1> QED BY <1>4, <1>5

LEMMA OthersFine ==
  ASSUME TableInv, ReferenceInv, NEW t \in Threads, Others(t), NEW u \in Threads \ {t},
         todo[u] \in Referring \cup Holding =>
           table'[Subject(u)].object = table[Subject(u)].object,
         todo[u] \in Referring => \A h : h = Subject(u) => Kept(h)'
  PROVE  CallFine(u)'
<1>1. Subject(u)' = Subject(u) /\ todo'[u] = todo[u] /\ local'[u] = local[u]
  BY OthersUse DEF Others
<1>2. NameOf' = NameOf /\ (Named' <=> Named) BY NamesStay DEF Others
<1>3. CallFine(u) BY DEF ReferenceInv
<1>4. todo'[u] \in Referring => Kept(Subject(u))' BY <1>1 DEF Kept, Keeps
<1> QED BY <1>1, <1>2, <1>3, <1>4 DEF CallFine

LEMMA Regrouped ==
  ASSUME NEW w \in Int, NEW x \in Int, NEW d \in Int, NEW y \in Int,
         NEW n \in Int, NEW u \in Int, NEW v \in Int
  PROVE  (w + d + n) + (x - w) + (y - d) + v - u = x + y + (n + v - u)
OBVIOUS

\* The objects of the slots stay, and every count follows the uses.
LEMMA SettledMoves ==
  ASSUME TableInv, ReferenceInv, NEW t \in Threads, Others(t), CallFine(t)',
         UNCHANGED <<handles, stash>>, SlotsStay, UNCHANGED names \/ NamesLead',
         owned' \in [Slots -> Nat], DOMAIN denotes' = Slots, derefs' \in [Objects -> Nat],
         \A o \in Objects : derefs'[o] > 0 => handles[o] # <<>>,
         \A h \in Slots : Kept(h) /\ (\/ Named
                                      \/ \E u \in Threads \ {t} : /\ todo[u] \in Referring
                                                                  /\ Subject(u) = h)
                            => Kept(h)',
         \A h \in Slots :
           LET o == table[h].object
           IN  /\ o = NoObject => owned'[h] = 0 /\ ~Uses(t, h)'
               /\ o # NoObject =>
                    /\ table'[h].refs = table[h].refs + (owned'[h] - owned[h])
                                          + (derefs'[o] - derefs[o]) + Use(t, h)' - Use(t, h)
                    /\ table'[h].refs > 0
               /\ owned'[h] > 0 => denotes'[h] = o
  PROVE  ReferenceInv'
<1>1. GuestTypes' BY DEF ReferenceInv, GuestTypes
<1>2. \A u \in Threads : CallFine(u)'
  <2>1. ASSUME NEW u \in Threads \ {t} PROVE CallFine(u)'
    <3>1. todo[u] \in Referring => \A h : h = Subject(u) => Kept(h)' BY SubjectFacts
    <3> QED BY <3>1, SubjectFacts, OthersFine DEF SlotsStay
  <2> QED BY <2>1
<1>3. OneHandle'
  <2>1. \A o \in Objects : handles[o] # <<>> =>
          stash[o] \in Slots /\ table'[stash[o]].object = o
    BY DEF ReferenceInv, OneHandle, SlotsStay
  <2>2. \A h \in Slots : table'[h].object # NoObject =>
          stash[table[h].object] = h /\ handles[table[h].object] = <<h>>
    BY DEF ReferenceInv, OneHandle, SlotsStay
  <2>3. \A h \in Slots : table'[h].object = table[h].object BY DEF SlotsStay
  <2> QED BY <2>1, <2>2, <2>3 DEF OneHandle
<1>4. UsesCounted'
  <2> SUFFICES ASSUME NEW h \in Slots
        PROVE  LET o == table'[h].object
               IN  /\ o = NoObject => owned'[h] = 0 /\ Users(h)' = {}
                   /\ o # NoObject =>
                        /\ table'[h].refs = owned'[h] + derefs'[o] + Cardinality(Users(h))'
                        /\ table'[h].refs > 0
                   /\ owned'[h] > 0 => denotes'[h] = o
    BY DEF UsesCounted
  <2>1. table'[h].object = table[h].object BY DEF SlotsStay
  <2>2. CASE table[h].object = NoObject
    <3>1. Users(h) = {} BY <2>2 DEF ReferenceInv, UsesCounted
    <3> QED BY <2>1, <2>2, <3>1, UsersCount
  <2>3. CASE table[h].object # NoObject
    <3> DEFINE o == table[h].object
    <3>1. o \in Objects BY <2>3 DEF TableInv, TableTypes, Entries
    <3>2. table[h].refs = owned[h] + derefs[o] + Cardinality(Users(h))
      BY <2>3 DEF ReferenceInv, UsesCounted
    <3>3. /\ owned[h] \in Nat /\ owned'[h] \in Nat /\ derefs[o] \in Nat /\ derefs'[o] \in Nat
          /\ Use(t, h) \in {0, 1} /\ Use(t, h)' \in {0, 1}
      BY <3>1 DEF ReferenceInv, GuestTypes, Use
    <3>4. /\ Cardinality(Users(h)) \in Nat
          /\ Cardinality(Users(h))' = Cardinality(Users(h)) + Use(t, h)' - Use(t, h)
      BY UsersCount
    <3>5. /\ table'[h].refs = table[h].refs + (owned'[h] - owned[h])
                                + (derefs'[o] - derefs[o]) + Use(t, h)' - Use(t, h)
          /\ table'[h].refs > 0 /\ (owned'[h] > 0 => denotes'[h] = o)
      BY <2>3
    <3> HIDE DEF o
    <3>6. table'[h].refs = owned'[h] + derefs'[o] + Cardinality(Users(h))'
      <4> DEFINE w == owned[h]    x == owned'[h]    d == derefs[o]    y == derefs'[o]
                 n == Cardinality(Users(h))         u == Use(t, h)    v == Use(t, h)'
      <4>1. /\ w \in Int /\ x \in Int /\ d \in Int /\ y \in Int
            /\ n \in Int /\ u \in Int /\ v \in Int
        BY <3>3, <3>4
      <4>2. /\ table'[h].refs = (w + d + n) + (x - w) + (y - d) + v - u
            /\ Cardinality(Users(h))' = n + v - u
        BY <3>2, <3>4, <3>5
      <4> HIDE DEF w, x, d, y, n, u, v
      <4>3. (w + d + n) + (x - w) + (y - d) + v - u = x + y + (n + v - u)
        BY <4>1, Regrouped
      <4>4. table'[h].refs = x + y + (n + v - u) BY <4>2, <4>3
      <4> QED BY <4>2, <4>4 DEF x, y
    <3> QED BY <2>1, <2>3, <3>5, <3>6 DEF o
  <2> QED BY <2>2, <2>3
<1>5. NameOf' = NameOf /\ (Named' <=> Named) BY NamesStay DEF Others
<1>6. HandlesKept'
  <2> SUFFICES ASSUME Named', NEW h \in Slots, table'[h].object # NoObject PROVE Kept(h)'
    BY DEF HandlesKept
  <2>1. Kept(h) /\ Named BY <1>5 DEF ReferenceInv, HandlesKept, SlotsStay
  <2> QED BY <2>1
<1>7. ASSUME UNCHANGED names PROVE NamesLead'
  <2> SUFFICES ASSUME NEW n \in Names, names[n] # NoHandle
               PROVE  /\ table'[names[n]].object # NoObject
                      /\ NameOf'[table'[names[n]].object] = n
    BY <1>7 DEF NamesLead
  <2>1. names[n] \in Slots BY DEF TableInv, TableTypes
  <2> QED BY <1>5, <2>1 DEF ReferenceInv, NamesLead, SlotsStay
<1> QED BY <1>1, <1>2, <1>3, <1>4, <1>6, <1>7 DEF ReferenceInv

\* Nothing but the progress of a call changes, and its use of a handle does not.
LEMMA QuietMoves ==
  ASSUME TableInv, ReferenceInv, NEW t \in Threads, Others(t), CallFine(t)',
         UNCHANGED <<table, handles, stash, guest>>, UNCHANGED names \/ NamesLead',
         \A g \in Slots : Uses(t, g)' <=> Uses(t, g),
         \A g \in Slots : Kept(g) => Kept(g)'
  PROVE  ReferenceInv'
<1>1. UNCHANGED <<owned, denotes, derefs>> BY DEF guest
<1>2. SlotsStay BY DEF SlotsStay
<1>3. /\ owned' \in [Slots -> Nat] /\ DOMAIN denotes' = Slots /\ derefs' \in [Objects -> Nat]
      /\ \A o \in Objects : derefs'[o] > 0 => handles[o] # <<>>
  BY <1>1 DEF ReferenceInv, GuestTypes, OneHandle
<1>4. ASSUME NEW h \in Slots
      PROVE  LET o == table[h].object
             IN  /\ o = NoObject => owned'[h] = 0 /\ ~Uses(t, h)'
                 /\ o # NoObject =>
                    /\ table'[h].refs = table[h].refs + (owned'[h] - owned[h])
                                          + (derefs'[o] - derefs[o]) + Use(t, h)' - Use(t, h)
                    /\ table'[h].refs > 0
                 /\ owned'[h] > 0 => denotes'[h] = o
  <2>1. Use(t, h)' = Use(t, h) /\ Use(t, h) \in {0, 1} BY DEF Use
  <2>2. CASE table[h].object = NoObject
    BY <1>1, <2>2 DEF ReferenceInv, UsesCounted, Users
  <2>3. CASE table[h].object # NoObject
    <3>1. table[h].object \in Objects /\ table[h].refs \in Int
      BY <2>3 DEF TableInv, TableTypes, Entries
    <3>2. derefs[table[h].object] \in Nat /\ owned[h] \in Nat
      BY <3>1 DEF ReferenceInv, GuestTypes
    <3> QED BY <1>1, <2>1, <2>3, <3>1, <3>2 DEF ReferenceInv, UsesCounted
  <2> QED BY <2>2, <2>3
<1> QED BY <1>2, <1>3, <1>4, SettledMoves

LEMMA ReferringAt ==
  ASSUME TableInv, ReferenceInv, NEW t \in Threads, NEW op, At(t, op)
  PROVE  /\ todo[t] \in Referring \cup Holding \cup Resting
         /\ todo[t] # <<>> /\ Head(todo[t]) = op /\ First(todo[t]) = op
         /\ local[t] \in Locals
BY AtFacts DEF ReferenceInv, CallFine, TableInv

\* What a call that is not about a new object goes on with.
LEMMA GoesOn ==
  ASSUME TableInv, ReferenceInv, NEW t \in Threads, NEW s, NEW l, Others(t),
         todo'[t] = s, local'[t] = l,
         todo[t] \in (Referring \cup Holding) \ Creating, s \notin Creating,
         s \in Referring <=> todo[t] \in Referring, s \in Holding <=> todo[t] \in Holding,
         s \in Finding => todo[t] \in Finding,
         l.argument = local[t].argument,
         First(s) \in {"ReadHandle", "RetainHandle", "ReleaseHandle"},
         table[Subject(t)].object = l.object, UNCHANGED <<table, owned>>,
         First(s) \in {"RetainHandle", "ReleaseHandle"} => l.handle = Subject(t)
  PROVE  /\ CallFine(t)' /\ \A g \in Slots : Uses(t, g)' <=> Uses(t, g)
         /\ \A g \in Slots : Kept(g) => Kept(g)'
<1>1. Subject(t) = local[t].argument /\ Subject(t)' = local[t].argument BY DEF Subject
<1>2. \A g \in Slots : Uses(t, g)' <=> Uses(t, g) BY <1>1 DEF Uses
<1>3. Subject(t) \in Slots /\ (todo[t] \in Referring => Kept(Subject(t)))
  BY SubjectFacts
<1>4. \A g : Keeps(t, g) => Keeps(t, g)' BY DEF Keeps
<1>5. \A g \in Slots : Kept(g) => Kept(g)' BY <1>4, KeptStays
<1>6. todo[t] \in Referring => \A h : h = Subject(t) => Kept(h)' BY <1>3, <1>5
<1>7. s \in Referring => Kept(Subject(t))' BY <1>1, <1>6 DEF Kept, Keeps
<1>8. s \in Finding => Named' BY NamesStay DEF Others, ReferenceInv, CallFine
<1>9. CallFine(t)' BY <1>1, <1>3, <1>7, <1>8 DEF CallFine
<1> QED BY <1>2, <1>5, <1>9

LEMMA ReferLookup ==
  ASSUME TableInv, ReferenceInv, title' = title, NEW t \in Threads, LookupObject(t)
  PROVE  ReferenceInv'
<1> DEFINE o == table[local[t].argument].object
           s == Tail(todo[t])
           l == [local[t] EXCEPT !.object = o]
<1>1. /\ todo[t] \in Referring \cup Holding \cup Resting /\ todo[t] # <<>>
      /\ Head(todo[t]) = "LookupObject" /\ local[t] \in Locals
  BY ReferringAt DEF LookupObject
<1>2. /\ todo[t] \in (Referring \cup Holding) \ Creating /\ s \notin Creating
      /\ (s \in Referring <=> todo[t] \in Referring) /\ (s \in Holding <=> todo[t] \in Holding)
      /\ First(s) = "ReadHandle" /\ (s \in Finding => todo[t] \in Finding)
  BY <1>1, ReferringNext
<1>3. Subject(t) = local[t].argument BY <1>2 DEF Subject
<1>4. o # NoObject BY <1>2, <1>3, SubjectFacts
<1>5. /\ local' = [local EXCEPT ![t] = l] /\ todo' = [todo EXCEPT ![t] = s]
      /\ UNCHANGED <<table, handles, stash, names, guest>>
  BY <1>4 DEF LookupObject, Continue
<1>6. l.argument = local[t].argument /\ l.object = o
  BY <1>1 DEF Locals
<1> HIDE DEF s, l
<1>7. Others(t) /\ todo'[t] = s /\ local'[t] = l BY <1>5, Steps
<1>8. /\ CallFine(t)' /\ \A g \in Slots : Uses(t, g)' <=> Uses(t, g)
      /\ \A g \in Slots : Kept(g) => Kept(g)'
  BY <1>2, <1>3, <1>5, <1>6, <1>7, GoesOn DEF guest
<1> QED BY <1>5, <1>7, <1>8, QuietMoves

LEMMA ReferRead ==
  ASSUME TableInv, ReferenceInv, title' = title, NEW t \in Threads, ReadHandle(t)
  PROVE  ReferenceInv'
<1> DEFINE hs == handles[local[t].object]
           s == Tail(todo[t])
           l == [local[t] EXCEPT !.handle = Head(hs)]
<1>1. /\ todo[t] \in Referring \cup Holding \cup Resting /\ todo[t] # <<>>
      /\ Head(todo[t]) = "ReadHandle" /\ local[t] \in Locals
      /\ First(todo[t]) = "ReadHandle"
  BY ReferringAt DEF ReadHandle
<1>2. /\ todo[t] \in (Referring \cup Holding) \ Creating /\ s \notin Creating
      /\ (s \in Referring <=> todo[t] \in Referring) /\ (s \in Holding <=> todo[t] \in Holding)
      /\ First(s) \in {"ReadHandle", "RetainHandle", "ReleaseHandle"}
      /\ (s \in Finding => todo[t] \in Finding)
  BY <1>1, ReferringNext
<1>3. table[Subject(t)].object = local[t].object
  BY <1>1, <1>2 DEF ReferenceInv, CallFine
<1>4. hs = <<Subject(t)>>
  BY <1>2, <1>3, SubjectFacts DEF ReferenceInv, OneHandle
<1>5. hs # <<>> /\ Head(hs) = Subject(t) BY <1>4
<1>6. /\ local' = [local EXCEPT ![t] = l] /\ todo' = [todo EXCEPT ![t] = s]
      /\ UNCHANGED <<table, handles, stash, names, guest>>
  BY <1>5 DEF ReadHandle, Continue, Keep, kernel
<1>7. /\ l.argument = local[t].argument /\ l.object = local[t].object
      /\ l.handle = Subject(t)
  BY <1>1, <1>5 DEF Locals
<1> HIDE DEF s, l
<1>8. Others(t) /\ todo'[t] = s /\ local'[t] = l BY <1>6, Steps
<1>9. /\ CallFine(t)' /\ \A g \in Slots : Uses(t, g)' <=> Uses(t, g)
      /\ \A g \in Slots : Kept(g) => Kept(g)'
  BY <1>2, <1>3, <1>6, <1>7, <1>8, GoesOn DEF guest
<1> QED BY <1>6, <1>8, <1>9, QuietMoves

\* The call that created an object, or found one, stays about its handle.
LEMMA CreatingGoesOn ==
  ASSUME TableInv, ReferenceInv, NEW t \in Threads, NEW s \in Creating, NEW l, Others(t),
         todo[t] \in Creating, First(todo[t]) # "LookupObject",
         todo'[t] = s, local'[t] = l, l.object = local[t].object,
         First(s) # "AddNameMapping", First(s) = "GiveHandle" => l.handle = Subject(t),
         UNCHANGED <<table, stash, owned>>
  PROVE  /\ CallFine(t)' /\ \A g \in Slots : Uses(t, g)' <=> Uses(t, g)
         /\ \A g \in Slots : Kept(g) => Kept(g)'
<1>1. Subject(t)' = Subject(t) BY DEF Subject
<1>2. todo[t] \in Holding /\ s \in Holding /\ s \notin Referring /\ s \notin Finding
  BY ReferringStarts
<1>3. \A g \in Slots : Uses(t, g)' <=> Uses(t, g) BY <1>1, <1>2 DEF Uses
<1>4. \A g : Keeps(t, g) => Keeps(t, g)' BY <1>1 DEF Keeps
<1>5. \A g \in Slots : Kept(g) => Kept(g)' BY <1>4, KeptStays
<1>6. Subject(t) \in Slots /\ table[Subject(t)].object = local[t].object
  BY <1>2 DEF ReferenceInv, CallFine
<1>7. First(s) \notin {"RetainHandle", "ReleaseHandle"} BY DEF Creating, First
<1>8. CallFine(t)' BY <1>1, <1>2, <1>6, <1>7 DEF CallFine
<1> QED BY <1>3, <1>5, <1>8

LEMMA ReferHandle ==
  ASSUME TableInv, ReferenceInv, title' = title, NEW t \in Threads, Handle(t)
  PROVE  ReferenceInv'
<1> DEFINE hs == handles[local[t].object]
           s == <<"GiveHandle">>
           l == [local[t] EXCEPT !.handle = Head(hs)]
<1>1. /\ todo[t] \in Referring \cup Holding \cup Resting /\ todo[t] # <<>>
      /\ Head(todo[t]) = "handle" /\ local[t] \in Locals
      /\ First(todo[t]) = "handle"
  BY ReferringAt DEF Handle
<1>2. Tail(todo[t]) = s /\ todo[t] \in Creating /\ todo[t] \in Holding /\ s \in Creating
  BY <1>1, ReferringNext, ReferringStarts
<1>3. table[Subject(t)].object = local[t].object
  BY <1>1, <1>2 DEF ReferenceInv, CallFine
<1>4. hs = <<Subject(t)>>
  BY <1>2, <1>3, SubjectFacts DEF ReferenceInv, OneHandle
<1>5. hs # <<>> /\ Head(hs) = Subject(t) BY <1>4
<1>6. /\ local' = [local EXCEPT ![t] = l] /\ todo' = [todo EXCEPT ![t] = s]
      /\ UNCHANGED <<table, handles, stash, names, guest>>
  BY <1>2, <1>5 DEF Handle, Continue, Keep, kernel
<1>7. l.object = local[t].object /\ l.handle = Subject(t)
  BY <1>1, <1>5 DEF Locals
<1>8. First(s) = "GiveHandle" BY ReferringStarts
<1> HIDE DEF s, l
<1>9. Others(t) /\ todo'[t] = s /\ local'[t] = l BY <1>6, Steps
<1>10. /\ CallFine(t)' /\ \A g \in Slots : Uses(t, g)' <=> Uses(t, g)
       /\ \A g \in Slots : Kept(g) => Kept(g)'
  BY <1>1, <1>2, <1>6, <1>7, <1>8, <1>9, CreatingGoesOn DEF guest
<1> QED BY <1>6, <1>9, <1>10, QuietMoves

\* The name is given to the new object, or was given to another that was created with it.
LEMMA ReferAddNameMapping ==
  ASSUME TableInv, ReferenceInv, title' = title, NEW t \in Threads, AddNameMapping(t)
  PROVE  ReferenceInv'
<1> DEFINE s == <<"handle", "GiveHandle">>
           m == local[t].name
           o == local[t].object
           h == Subject(t)
<1>1. /\ todo[t] \in Referring \cup Holding \cup Resting /\ todo[t] # <<>>
      /\ Head(todo[t]) = "AddNameMapping" /\ First(todo[t]) = "AddNameMapping"
  BY ReferringAt DEF AddNameMapping
<1>2. Tail(todo[t]) = s /\ todo[t] \in Creating /\ todo[t] \in Holding /\ s \in Creating
  BY <1>1, ReferringNext, ReferringStarts
<1>3. /\ table[h].object = o /\ o # NoObject /\ h \in Slots /\ m \in Names /\ NameOf[o] = m
  BY <1>1, <1>2, SubjectFacts DEF ReferenceInv, CallFine
<1>4. handles[o] = <<h>> BY <1>3 DEF ReferenceInv, OneHandle
<1>5. handles[o] # <<>> /\ Head(handles[o]) = h BY <1>4
<1>6. /\ names' = [names EXCEPT ![m] = IF @ = NoHandle THEN h ELSE @]
      /\ todo' = [todo EXCEPT ![t] = s]
      /\ UNCHANGED <<table, handles, stash, local, guest>>
  BY <1>2, <1>5 DEF AddNameMapping, Continue
<1>7. First(s) = "handle" BY ReferringStarts
<1> HIDE DEF s, h
<1>8. Others(t) /\ todo'[t] = s /\ local'[t] = local[t]
  BY <1>6 DEF TableInv, TableTypes, Others
<1>9. /\ CallFine(t)' /\ \A g \in Slots : Uses(t, g)' <=> Uses(t, g)
      /\ \A g \in Slots : Kept(g) => Kept(g)'
  BY <1>1, <1>2, <1>6, <1>7, <1>8, CreatingGoesOn DEF guest
<1>10. NamesLead'
  <2>1. names \in [Names -> Slots \cup {NoHandle}] BY DEF TableInv, TableTypes
  <2>2. \A n \in Names : names'[n] = names[n] \/ (n = m /\ names'[n] = h)
    BY <1>3, <1>6, <2>1
  <2>3. NameOf' = NameOf BY NamesStay
  <2> QED BY <1>3, <1>6, <2>2, <2>3 DEF ReferenceInv, NamesLead
<1> QED BY <1>6, <1>8, <1>9, <1>10, QuietMoves

\* A thread that rests has no use of a handle.
LEMMA RestsFine ==
  ASSUME NEW t \in Threads
  PROVE  /\ todo[t] \in Resting =>
              (\A g : ~Uses(t, g)) /\ \A g : Keeps(t, g) <=> owned[g] > 0
         /\ todo'[t] \in Resting => CallFine(t)' /\ \A g : ~Uses(t, g)'
<1>1. \A s \in Resting : /\ s \notin Referring /\ s \notin Holding /\ s \notin Finding
                         /\ s \notin Creating /\ First(s) # "AddNameMapping"
  BY ReferringStarts
<1> QED BY <1>1 DEF Uses, Keeps, CallFine

LEMMA ReferRests ==
  ASSUME TableInv, ReferenceInv, title' = title, NEW t \in Threads, NEW s \in Resting, NEW l,
         todo' = [todo EXCEPT ![t] = s], local' = [local EXCEPT ![t] = l],
         todo[t] \in Resting, UNCHANGED <<table, handles, stash, names, guest>>
  PROVE  ReferenceInv'
<1>1. Others(t) /\ todo'[t] = s /\ local'[t] = l BY Steps
<1>2. \A g : Keeps(t, g) => Keeps(t, g)' BY RestsFine DEF Keeps, guest
<1>3. \A g \in Slots : Kept(g) => Kept(g)' BY <1>1, <1>2, KeptStays
<1> QED BY <1>1, <1>3, RestsFine, QuietMoves

LEMMA ReferDrop ==
  ASSUME TableInv, ReferenceInv, title' = title, NEW t \in Threads, DropObject(t)
  PROVE  ReferenceInv'
<1>1. /\ todo[t] \in Referring \cup Holding \cup Resting /\ todo[t] # <<>>
      /\ Head(todo[t]) = "DropObject"
  BY ReferringAt DEF DropObject
<1>2. todo[t] = <<"DropObject">> /\ Tail(todo[t]) = <<>> /\ Len(todo[t]) = 1
  BY <1>1, ReferringNext
<1>3. todo[t] \in Resting /\ <<>> \in Resting BY <1>2, ReferringStarts
<1>4. /\ local' = [local EXCEPT ![t] = NoLocals] /\ todo' = [todo EXCEPT ![t] = <<>>]
      /\ UNCHANGED <<table, handles, stash, names, guest>>
  BY <1>2 DEF DropObject, Drop, Continue
<1> QED BY <1>3, <1>4, ReferRests

LEMMA ReferReference ==
  ASSUME TableInv, ReferenceInv, title' = title, NEW t \in Threads, Reference(t)
  PROVE  ReferenceInv'
<1> DEFINE s == <<"LookupObject", "ReadHandle", "RetainHandle", "GivePointer">>
<1>1. PICK h \in Slots : owned[h] > 0 /\ Call(t, h, s) /\ UNCHANGED owned
  BY DEF Reference
<1>2. todo[t] = <<>> /\ local[t] \in Locals BY <1>1, IdleFacts DEF Idle, Call
<1> DEFINE l == [local[t] EXCEPT !.argument = h]
<1>3. l.argument = h BY <1>2 DEF Locals
<1>4. /\ local' = [local EXCEPT ![t] = l] /\ todo' = [todo EXCEPT ![t] = s]
      /\ UNCHANGED <<table, handles, stash, names, guest>>
  BY <1>1 DEF Call, kernel, guest
<1>5. /\ todo[t] \in Resting /\ s \in Referring /\ s \notin Holding /\ s \notin Creating
      /\ s \notin Finding /\ First(s) = "LookupObject"
  BY <1>2, ReferringStarts
<1> HIDE DEF s, l
<1>6. Others(t) /\ todo'[t] = s /\ local'[t] = l BY <1>4, Steps
<1>7. Subject(t)' = h BY <1>3, <1>5, <1>6 DEF Subject
<1>8. Keeps(t, h)' BY <1>1 DEF Keeps
<1>9. CallFine(t)' BY <1>3, <1>5, <1>6, <1>7, <1>8 DEF CallFine, Kept, Keeps
<1>10. \A g \in Slots : Uses(t, g)' <=> Uses(t, g)
  BY <1>5, <1>6, RestsFine DEF Uses
<1>11. \A g : Keeps(t, g) => Keeps(t, g)' BY <1>4, <1>5, RestsFine DEF Keeps, guest
<1>12. \A g \in Slots : Kept(g) => Kept(g)' BY <1>6, <1>11, KeptStays
<1> QED BY <1>4, <1>6, <1>9, <1>10, <1>12, QuietMoves

\* The numbers of an entry of the table.
LEMMA EntryNumbers ==
  ASSUME TableInv, ReferenceInv, NEW h \in Slots, NEW t
  PROVE  /\ table[h].refs \in Int /\ owned[h] \in Nat
         /\ Use(t, h) \in {0, 1} /\ Use(t, h)' \in {0, 1}
         /\ table[h].object # NoObject =>
              /\ table[h].object \in Objects /\ derefs[table[h].object] \in Nat
              /\ table[h].refs > 0
         /\ table[h].object = NoObject => owned[h] = 0 /\ \A u \in Threads : ~Uses(u, h)
         /\ owned[h] > 0 => table[h].object # NoObject /\ denotes[h] = table[h].object
<1>1. table[h].refs \in Int /\ table[h].object \in Objects \cup {NoObject}
  BY DEF TableInv, TableTypes, Entries
<1>2. owned[h] \in Nat /\ \A o \in Objects : derefs[o] \in Nat
  BY DEF ReferenceInv, GuestTypes
<1>3. Use(t, h) \in {0, 1} /\ Use(t, h)' \in {0, 1} BY DEF Use
<1>4. CASE table[h].object = NoObject
  <2>1. owned[h] = 0 /\ Users(h) = {} BY <1>4 DEF ReferenceInv, UsesCounted
  <2>2. \A u \in Threads : ~Uses(u, h) BY <2>1 DEF Users
  <2> QED BY <1>1, <1>2, <1>3, <1>4, <2>1, <2>2
<1>5. CASE table[h].object # NoObject
  BY <1>1, <1>2, <1>3, <1>5 DEF ReferenceInv, UsesCounted
<1> QED BY <1>4, <1>5

LEMMA RetainedEntry ==
  ASSUME TableInv, NEW h \in Slots, table[h].object # NoObject, Retain(h)
  PROVE  /\ table'[h].object = table[h].object /\ table'[h].refs = table[h].refs + 1
         /\ \A g \in Slots : g # h => table'[g] = table[g]
         /\ SlotsStay
<1>1. table' = [table EXCEPT ![h].refs = @ + 1] BY DEF Retain
<1>2. table \in [Slots -> Entries] BY DEF TableInv, TableTypes
<1>3. /\ table'[h].object = table[h].object /\ table'[h].refs = table[h].refs + 1
      /\ \A g \in Slots : g # h => table'[g] = table[g]
  BY <1>1, <1>2 DEF Entries
<1> QED BY <1>3 DEF SlotsStay

\* A call that retains a handle has a use of it that it did not have.
LEMMA CallRetains ==
  ASSUME TableInv, ReferenceInv, NEW t \in Threads, Others(t), CallFine(t)',
         NEW h \in Slots, table[h].object # NoObject, Retain(h),
         UNCHANGED <<handles, stash, names, guest>>, todo[t] \notin Creating,
         \A g : (Uses(t, g)' <=> g = h) /\ ~Uses(t, g)
  PROVE  ReferenceInv'
<1>1. /\ table'[h].object = table[h].object /\ table'[h].refs = table[h].refs + 1
      /\ \A g \in Slots : g # h => table'[g] = table[g]
      /\ SlotsStay
  BY RetainedEntry
<1>2. UNCHANGED <<owned, denotes, derefs>> BY DEF guest
<1>3. ASSUME NEW g \in Slots
      PROVE  LET o == table[g].object
             IN  /\ o = NoObject => owned'[g] = 0 /\ ~Uses(t, g)'
                 /\ o # NoObject =>
                    /\ table'[g].refs = table[g].refs + (owned'[g] - owned[g])
                                          + (derefs'[o] - derefs[o]) + Use(t, g)' - Use(t, g)
                    /\ table'[g].refs > 0
                 /\ owned'[g] > 0 => denotes'[g] = o
  <2>1. Use(t, g)' = (IF g = h THEN 1 ELSE 0) /\ Use(t, g) = 0 BY DEF Use
  <2> QED BY <1>1, <1>2, <2>1, EntryNumbers
<1>4. /\ owned' \in [Slots -> Nat] /\ DOMAIN denotes' = Slots /\ derefs' \in [Objects -> Nat]
      /\ \A o \in Objects : derefs'[o] > 0 => handles[o] # <<>>
  BY <1>2 DEF ReferenceInv, GuestTypes, OneHandle
<1>5. \A g : Keeps(t, g) => Keeps(t, g)' BY <1>2 DEF Keeps
<1>6. \A g \in Slots : Kept(g) => Kept(g)' BY <1>5, KeptStays
<1> QED BY <1>1, <1>3, <1>4, <1>6, SettledMoves

LEMMA ReferRetain ==
  ASSUME TableInv, ReferenceInv, title' = title, NEW t \in Threads, RetainHandle(t)
  PROVE  ReferenceInv'
<1>1. /\ todo[t] \in Referring \cup Holding \cup Resting /\ todo[t] # <<>>
      /\ Head(todo[t]) = "RetainHandle" /\ First(todo[t]) = "RetainHandle"
  BY ReferringAt DEF RetainHandle
<1>2. /\ todo[t] \in Referring /\ todo[t] \notin Holding
      /\ Tail(todo[t]) \in {<<"GivePointer">>, <<"handle", "GiveHandle">>}
  BY <1>1, ReferringNext
<1>3. PICK s \in {<<"GivePointer">>, <<"handle", "GiveHandle">>} : s = Tail(todo[t])
  BY <1>2
<1>4. todo[t] \notin Creating BY <1>2, ReferringStarts
<1>5. PICK h \in Slots : h = Subject(t) BY <1>2, SubjectFacts
<1>6. /\ table[h].object = local[t].object /\ local[t].handle = h
      /\ table[h].object # NoObject /\ h = local[t].argument
  BY <1>1, <1>2, <1>4, <1>5, SubjectFacts DEF ReferenceInv, CallFine, Subject
<1>7. stash[local[t].object] = h BY <1>6 DEF ReferenceInv, OneHandle
<1>8. /\ Retain(h) /\ todo' = [todo EXCEPT ![t] = s]
      /\ UNCHANGED <<handles, stash, names, local, guest>>
  BY <1>3, <1>6 DEF RetainHandle, Continue
<1>9. /\ s \in Holding /\ s \notin Referring /\ s \notin Finding
      /\ First(s) \in {"GivePointer", "handle"}
  BY ReferringStarts
<1>10. Others(t) /\ todo'[t] = s /\ local'[t] = local[t]
  BY <1>8 DEF TableInv, TableTypes, Others
<1>11. Subject(t)' = h BY <1>6, <1>7, <1>8, <1>10 DEF Subject
<1>12. table'[h].object = local[t].object BY <1>6, <1>8, RetainedEntry
<1>13. CallFine(t)' BY <1>9, <1>10, <1>11, <1>12 DEF CallFine
<1>14. \A g : (Uses(t, g)' <=> g = h) /\ ~Uses(t, g) BY <1>2, <1>9, <1>10, <1>11 DEF Uses
<1> QED BY <1>4, <1>6, <1>8, <1>10, <1>13, <1>14, CallRetains

\* A name leads to the only handle of its object, and that is retained.
LEMMA MappedEntry ==
  ASSUME Launched, TableInv, ReferenceInv, NEW n \in Names, Mapped(n), RetainNamed(n)
  PROVE  /\ names[n] \in Slots /\ table[names[n]].object # NoObject
         /\ Retain(names[n]) /\ Named
<1>1. names[n] \in Slots BY MappedFacts
<1>2. n # NoName /\ names[n] # NoHandle BY ObjectAssumption DEF Mapped
<1> DEFINE h == names[n]
           o == table[h].object
<1>3. o # NoObject /\ NameOf[o] = n BY <1>2 DEF ReferenceInv, NamesLead
<1>4. o \in Objects BY <1>1, <1>3 DEF TableInv, TableTypes, Entries
<1>5. handles[o] = <<h>> BY <1>1, <1>3 DEF ReferenceInv, OneHandle
<1>6. Head(handles[o]) = h BY <1>5
<1>7. Retain(h) BY <1>3, <1>6 DEF RetainNamed
<1>8. Named BY <1>2, <1>3, <1>4 DEF Named
<1> QED BY <1>1, <1>3, <1>7, <1>8

LEMMA ReferCreate ==
  ASSUME NEW t \in Threads, Launched, TableInv, ReferenceInv, title' = title, Create(t)
  PROVE  ReferenceInv'
<1> DEFINE s == <<"LookupObject", "ReadHandle", "ReleaseHandle", "ReadHandle",
                  "RetainHandle", "handle", "GiveHandle">>
<1>1. PICK n \in Names \cup {NoName} :
        /\ Idle(t)
        /\ \/ /\ Mapped(n) /\ RetainNamed(n)
              /\ local' = [local EXCEPT ![t] =
                             [NoLocals EXCEPT !.name = n, !.argument = names[n]]]
              /\ todo' = [todo EXCEPT ![t] = s]
           \/ /\ local' = [local EXCEPT ![t].name = n]
              /\ todo' = [todo EXCEPT ![t] = <<"New">>]
              /\ UNCHANGED table
        /\ UNCHANGED <<lastFree, handles, pointers, stash, names, guest>>
  BY ZenonT(30) DEF Create
<1>2. todo[t] = <<>> /\ local[t] \in Locals BY <1>1, IdleFacts DEF Idle
<1>3. todo[t] \in Resting /\ <<"New">> \in Resting BY <1>2, ReferringStarts
<1>4. s \in Finding /\ s \notin Creating /\ First(s) = "LookupObject" BY ReferringStarts
<1> HIDE DEF s
<1>5. CASE /\ Mapped(n) /\ RetainNamed(n)
           /\ local' = [local EXCEPT ![t] =
                          [NoLocals EXCEPT !.name = n, !.argument = names[n]]]
           /\ todo' = [todo EXCEPT ![t] = s]
  <2> DEFINE l == [NoLocals EXCEPT !.name = n, !.argument = names[n]]
  <2>1. n \in Names BY <1>1, <1>5 DEF Mapped
  <2>2. PICK h \in Slots : h = names[n] BY <1>5, <2>1, MappedEntry
  <2>3. table[h].object # NoObject /\ Retain(h) /\ Named BY <1>5, <2>1, <2>2, MappedEntry
  <2>4. l.argument = h BY <2>2 DEF NoLocals
  <2>5. local' = [local EXCEPT ![t] = l] BY <1>5
  <2> HIDE DEF l
  <2>6. Others(t) /\ todo'[t] = s /\ local'[t] = l BY <1>1, <1>5, <2>5, Steps
  <2>7. Subject(t)' = h BY <1>4, <2>4, <2>6 DEF Subject
  <2>8. s \in Holding /\ s \notin Referring BY <1>4, ReferringStarts
  <2>9. CallFine(t)' BY <1>4, <2>3, <2>6, <2>7, <2>8, NamesStay DEF CallFine
  <2>10. \A g : (Uses(t, g)' <=> g = h) /\ ~Uses(t, g)
    BY <1>3, <2>6, <2>7, <2>8, RestsFine DEF Uses
  <2>11. todo[t] \notin Creating BY <1>3, ReferringStarts
  <2> QED BY <1>1, <2>3, <2>6, <2>9, <2>10, <2>11, CallRetains
<1>6. CASE /\ local' = [local EXCEPT ![t].name = n]
           /\ todo' = [todo EXCEPT ![t] = <<"New">>]
           /\ UNCHANGED table
  <2> DEFINE l == [local[t] EXCEPT !.name = n]
  <2>1. local' = [local EXCEPT ![t] = l] BY <1>6
  <2> HIDE DEF l
  <2> QED BY <1>1, <1>3, <1>6, <2>1, ReferRests
<1> QED BY <1>1, <1>5, <1>6

\* The guest gets one more use of h; thread t had it, or h was retained for it.
LEMMA GuestGets ==
  ASSUME TableInv, ReferenceInv, NEW t \in Threads, Others(t), CallFine(t)',
         NEW h \in Slots, table[h].object # NoObject,
         owned' = [owned EXCEPT ![h] = @ + 1],
         denotes' = [denotes EXCEPT ![h] = table[h].object],
         UNCHANGED <<handles, stash, names, derefs>>, \A g : ~Uses(t, g)',
         \A g : todo[t] \in Creating /\ Subject(t) = g => g = h,
         \/ UNCHANGED table /\ \A g : Uses(t, g) <=> g = h
         \/ Retain(h) /\ \A g : ~Uses(t, g)
  PROVE  ReferenceInv'
<1>1. owned \in [Slots -> Nat] /\ DOMAIN denotes = Slots
  BY DEF ReferenceInv, GuestTypes
<1>2. /\ owned' \in [Slots -> Nat] /\ DOMAIN denotes' = Slots
      /\ owned'[h] = owned[h] + 1 /\ denotes'[h] = table[h].object
      /\ \A g \in Slots : g # h => owned'[g] = owned[g] /\ denotes'[g] = denotes[g]
  <2>1. owned' \in [Slots -> Nat] /\ owned'[h] = owned[h] + 1 BY <1>1
  <2>2. DOMAIN denotes' = Slots /\ denotes'[h] = table[h].object BY <1>1
  <2>3. \A g \in Slots : g # h => owned'[g] = owned[g] /\ denotes'[g] = denotes[g]
    BY <1>1
  <2> QED BY <2>1, <2>2, <2>3
<1>3. /\ table'[h].object = table[h].object
      /\ table'[h].refs + Use(t, h) = table[h].refs + 1
      /\ \A g \in Slots : g # h => table'[g] = table[g]
      /\ SlotsStay
  <2>1. table[h].refs \in Int BY EntryNumbers
  <2>2. CASE UNCHANGED table /\ \A g : Uses(t, g) <=> g = h
    BY <2>1, <2>2 DEF Use, SlotsStay
  <2>3. CASE Retain(h) /\ \A g : ~Uses(t, g)
    BY <2>1, <2>3, RetainedEntry DEF Use
  <2> QED BY <2>2, <2>3
<1>4. \A g : Use(t, g)' = 0 /\ (g # h => Use(t, g) = 0) BY DEF Use
<1>5. ASSUME NEW g \in Slots
      PROVE  LET o == table[g].object
             IN  /\ o = NoObject => owned'[g] = 0 /\ ~Uses(t, g)'
                 /\ o # NoObject =>
                    /\ table'[g].refs = table[g].refs + (owned'[g] - owned[g])
                                         + (derefs'[o] - derefs[o]) + Use(t, g)' - Use(t, g)
                    /\ table'[g].refs > 0
                 /\ owned'[g] > 0 => denotes'[g] = o
  <2>1. CASE g = h
    <3> DEFINE o == table[h].object
    <3>1. /\ table[h].refs \in Int /\ owned[h] \in Nat /\ Use(t, h) \in {0, 1}
          /\ derefs[o] \in Nat /\ table[h].refs > 0 /\ derefs' = derefs
      BY EntryNumbers
    <3>2. /\ table'[h].refs = table[h].refs + 1 - Use(t, h) /\ Use(t, h)' = 0
          /\ owned'[h] - owned[h] = 1
      <4>1. table'[h].refs \in Int
        <5>1. table' \in [Slots -> Entries]
          BY RetainFacts DEF TableInv, TableTypes
        <5> QED BY <5>1 DEF Entries
      <4> QED BY <1>2, <1>3, <1>4, <3>1, <4>1
    <3> QED BY <1>2, <2>1, <3>1, <3>2
  <2>2. CASE g # h BY <1>2, <1>3, <1>4, <2>2, EntryNumbers
  <2> QED BY <2>1, <2>2
<1>6. /\ derefs' \in [Objects -> Nat]
      /\ \A o \in Objects : derefs'[o] > 0 => handles[o] # <<>>
  BY DEF ReferenceInv, GuestTypes, OneHandle
<1>7. \A g \in Slots : Keeps(t, g) => Keeps(t, g)'
  <2>1. \A g \in Slots : owned[g] > 0 \/ g = h => owned'[g] > 0 BY <1>1, <1>2
  <2> QED BY <2>1 DEF Keeps
<1>8. \A g \in Slots : Kept(g) => Kept(g)' BY <1>7, KeptStays
<1> QED BY <1>2, <1>3, <1>5, <1>6, <1>8, SettledMoves

LEMMA ReferOpen ==
  ASSUME NEW t \in Threads, Launched, TableInv, ReferenceInv, title' = title, OpenByName(t)
  PROVE  ReferenceInv'
<1>1. PICK n \in Names :
        /\ Idle(t) /\ Mapped(n) /\ RetainNamed(n)
        /\ owned' = [owned EXCEPT ![names[n]] = @ + 1]
        /\ denotes' = [denotes EXCEPT ![names[n]] = table[names[n]].object]
        /\ UNCHANGED <<lastFree, handles, pointers, stash, names, calls, derefs>>
  BY DEF OpenByName
<1>2. PICK h \in Slots : h = names[n] BY <1>1, MappedEntry
<1>3. table[h].object # NoObject /\ Retain(h) BY <1>1, <1>2, MappedEntry
<1>4. UNCHANGED <<todo, local>> BY <1>1 DEF calls
<1>5. Others(t) BY <1>1, <1>4 DEF Others
<1>6. todo[t] \in Resting BY <1>1, ReferringStarts DEF Idle
<1>7. CallFine(t)' /\ \A g : ~Uses(t, g) /\ ~Uses(t, g)' BY <1>4, <1>6, RestsFine
<1>8. todo[t] \notin Creating BY <1>6, ReferringStarts
<1>9. /\ owned' = [owned EXCEPT ![h] = @ + 1]
      /\ denotes' = [denotes EXCEPT ![h] = table[h].object]
  BY <1>1, <1>2
<1> QED BY <1>1, <1>3, <1>5, <1>7, <1>8, <1>9, GuestGets

LEMMA ReferGive ==
  ASSUME TableInv, ReferenceInv, title' = title, NEW t \in Threads, GiveHandle(t)
  PROVE  ReferenceInv'
<1>1. /\ todo[t] \in Referring \cup Holding \cup Resting /\ todo[t] # <<>>
      /\ Head(todo[t]) = "GiveHandle" /\ First(todo[t]) = "GiveHandle"
  BY ReferringAt DEF GiveHandle
<1>2. todo[t] = <<"GiveHandle">> /\ Tail(todo[t]) = <<>> /\ Len(todo[t]) = 1
  BY <1>1, ReferringNext
<1>3. todo[t] \in Holding /\ <<>> \in Resting BY <1>2, ReferringStarts
<1>4. PICK h \in Slots : h = Subject(t) BY <1>3, SubjectFacts
<1>5. /\ table[h].object = local[t].object /\ local[t].handle = h
      /\ table[h].object # NoObject /\ h # NoHandle
  BY <1>1, <1>3, <1>4, SubjectFacts, TableAssumption DEF ReferenceInv, CallFine
<1>6. /\ owned' = [owned EXCEPT ![h] = @ + 1]
      /\ denotes' = [denotes EXCEPT ![h] = table[h].object]
      /\ local' = [local EXCEPT ![t] = NoLocals] /\ todo' = [todo EXCEPT ![t] = <<>>]
      /\ UNCHANGED <<table, handles, stash, names, derefs>>
  BY <1>2, <1>5 DEF GiveHandle, Drop, Continue
<1>7. Others(t) /\ todo'[t] = <<>> /\ local'[t] = NoLocals BY <1>6, Steps
<1>8. CallFine(t)' /\ \A g : ~Uses(t, g)' BY <1>3, <1>7, RestsFine
<1>9. \A g : Uses(t, g) <=> g = h BY <1>3, <1>4 DEF Uses
<1>10. \A g : todo[t] \in Creating /\ Subject(t) = g => g = h BY <1>4
<1> QED BY <1>5, <1>6, <1>7, <1>8, <1>9, <1>10, GuestGets

LEMMA ReferGivePointer ==
  ASSUME TableInv, ReferenceInv, title' = title, NEW t \in Threads, GivePointer(t)
  PROVE  ReferenceInv'
<1>1. /\ todo[t] \in Referring \cup Holding \cup Resting /\ todo[t] # <<>>
      /\ Head(todo[t]) = "GivePointer" /\ First(todo[t]) = "GivePointer"
  BY ReferringAt DEF GivePointer
<1>2. todo[t] = <<"GivePointer">> /\ Tail(todo[t]) = <<>> /\ Len(todo[t]) = 1
  BY <1>1, ReferringNext
<1>3. todo[t] \in Holding /\ todo[t] \notin Creating /\ <<>> \in Resting
  BY <1>2, ReferringStarts
<1>4. PICK h \in Slots : h = Subject(t) BY <1>3, SubjectFacts
<1>5. PICK p \in Objects : p = table[h].object
  BY <1>3, <1>4, SubjectFacts, EntryNumbers
<1>6. p = local[t].object /\ p # NoObject
  BY <1>1, <1>3, <1>4, <1>5, SubjectFacts DEF ReferenceInv, CallFine
<1>7. /\ derefs' = [derefs EXCEPT ![p] = @ + 1]
      /\ local' = [local EXCEPT ![t] = NoLocals] /\ todo' = [todo EXCEPT ![t] = <<>>]
      /\ UNCHANGED <<table, handles, stash, names, owned, denotes>>
  BY <1>2, <1>6 DEF GivePointer, Drop, Continue
<1>8. Others(t) /\ todo'[t] = <<>> /\ local'[t] = NoLocals BY <1>7, Steps
<1>9. CallFine(t)' /\ \A g : ~Uses(t, g)' BY <1>3, <1>8, RestsFine
<1>10. \A g : Uses(t, g) <=> g = h BY <1>3, <1>4 DEF Uses
<1>11. derefs \in [Objects -> Nat] BY DEF ReferenceInv, GuestTypes
<1>12. /\ derefs' \in [Objects -> Nat] /\ derefs'[p] = derefs[p] + 1
       /\ \A o \in Objects : o # p => derefs'[o] = derefs[o]
  BY <1>7, <1>11
<1>13. stash[p] = h /\ handles[p] = <<h>> BY <1>5, <1>6 DEF ReferenceInv, OneHandle
<1>14. \A g \in Slots : table[g].object = p => g = h
  BY <1>6, <1>13 DEF ReferenceInv, OneHandle
<1>15. ASSUME NEW g \in Slots
       PROVE  LET o == table[g].object
              IN  /\ o = NoObject => owned'[g] = 0 /\ ~Uses(t, g)'
                  /\ o # NoObject =>
                     /\ table'[g].refs = table[g].refs + (owned'[g] - owned[g])
                                          + (derefs'[o] - derefs[o]) + Use(t, g)' - Use(t, g)
                     /\ table'[g].refs > 0
                  /\ owned'[g] > 0 => denotes'[g] = o
  <2>1. Use(t, g)' = 0 /\ Use(t, g) = (IF g = h THEN 1 ELSE 0) BY <1>9, <1>10 DEF Use
  <2>2. CASE g = h
    <3>1. /\ table[g].refs \in Int /\ owned[g] \in Nat /\ derefs[p] \in Nat
          /\ table[g].refs > 0 /\ (owned[g] > 0 => denotes[g] = p)
      BY <1>5, <1>6, <2>2, EntryNumbers
    <3>2. table'[g] = table[g] /\ owned'[g] = owned[g] /\ denotes'[g] = denotes[g]
      BY <1>7
    <3>3. derefs'[p] - derefs[p] = 1 BY <1>12, <3>1
    <3>4. Use(t, g)' = 0 /\ Use(t, g) = 1 BY <2>1, <2>2
    <3>5. table'[g].refs = table[g].refs + (owned'[g] - owned[g])
                             + (derefs'[p] - derefs[p]) + Use(t, g)' - Use(t, g)
      BY <3>1, <3>2, <3>3, <3>4
    <3> QED BY <1>5, <1>6, <2>2, <3>1, <3>2, <3>5
  <2>3. CASE g # h BY <1>7, <1>9, <1>12, <1>14, <2>1, <2>3, EntryNumbers
  <2> QED BY <2>2, <2>3
<1>16. /\ owned' \in [Slots -> Nat] /\ DOMAIN denotes' = Slots
  BY <1>7 DEF ReferenceInv, GuestTypes
<1>17. \A o \in Objects : derefs'[o] > 0 => handles[o] # <<>>
  <2>1. <<h>> # <<>> OBVIOUS
  <2> QED BY <1>12, <1>13, <2>1 DEF ReferenceInv, OneHandle
<1>18. \A g : Keeps(t, g) => Keeps(t, g)' BY <1>3, <1>7 DEF Keeps
<1>19. \A g \in Slots : Kept(g) => Kept(g)' BY <1>8, <1>18, KeptStays
<1>20. SlotsStay BY <1>7 DEF SlotsStay
<1> QED BY <1>7, <1>8, <1>9, <1>12, <1>15, <1>16, <1>17, <1>19, <1>20, SettledMoves

LEMMA ReferDereference ==
  ASSUME TableInv, ReferenceInv, title' = title, NEW t \in Threads, Dereference(t)
  PROVE  ReferenceInv'
<1> DEFINE s == <<"LookupObject", "ReadHandle", "ReleaseHandle", "DropObject">>
<1>1. PICK p \in Objects :
        /\ Idle(t) /\ derefs[p] > 0 /\ derefs' = [derefs EXCEPT ![p] = @ - 1]
        /\ local' = [local EXCEPT ![t].argument = stash[p]]
        /\ todo' = [todo EXCEPT ![t] = s] /\ UNCHANGED <<kernel, owned, denotes>>
  BY DEF Dereference
<1>2. handles[p] # <<>> BY <1>1 DEF ReferenceInv, OneHandle
<1>3. PICK h \in Slots : h = stash[p] /\ table[h].object = p
  BY <1>2 DEF ReferenceInv, OneHandle
<1>4. p # NoObject BY ObjectAssumption
<1>5. todo[t] = <<>> /\ local[t] \in Locals BY <1>1, IdleFacts DEF Idle
<1> DEFINE l == [local[t] EXCEPT !.argument = h]
<1>6. l.argument = h BY <1>5 DEF Locals
<1>7. /\ local' = [local EXCEPT ![t] = l]
      /\ UNCHANGED <<table, handles, stash, names, owned, denotes>>
  BY <1>1, <1>3 DEF kernel
<1>8. /\ todo[t] \in Resting /\ s \in Holding /\ s \notin Referring /\ s \notin Creating
      /\ s \notin Finding /\ First(s) = "LookupObject"
  BY <1>5, ReferringStarts
<1> HIDE DEF s, l
<1>9. Others(t) /\ todo'[t] = s /\ local'[t] = l BY <1>1, <1>7, Steps
<1>10. Subject(t)' = h BY <1>6, <1>8, <1>9 DEF Subject
<1>11. CallFine(t)' BY <1>6, <1>8, <1>9, <1>10 DEF CallFine
<1>12. \A g : (Uses(t, g)' <=> g = h) /\ ~Uses(t, g)
  BY <1>8, <1>9, <1>10, RestsFine DEF Uses
<1>13. derefs \in [Objects -> Nat] BY DEF ReferenceInv, GuestTypes
<1>14. /\ derefs' \in [Objects -> Nat] /\ derefs'[p] = derefs[p] - 1
       /\ \A o \in Objects : o # p => derefs'[o] = derefs[o]
  BY <1>1, <1>13
<1>15. \A g \in Slots : table[g].object = p => g = h
  BY <1>3, <1>4 DEF ReferenceInv, OneHandle
<1>16. ASSUME NEW g \in Slots
       PROVE  LET o == table[g].object
              IN  /\ o = NoObject => owned'[g] = 0 /\ ~Uses(t, g)'
                  /\ o # NoObject =>
                     /\ table'[g].refs = table[g].refs + (owned'[g] - owned[g])
                                          + (derefs'[o] - derefs[o]) + Use(t, g)' - Use(t, g)
                     /\ table'[g].refs > 0
                  /\ owned'[g] > 0 => denotes'[g] = o
  <2>1. Use(t, g)' = (IF g = h THEN 1 ELSE 0) /\ Use(t, g) = 0 BY <1>12 DEF Use
  <2>2. CASE g = h BY <1>3, <1>4, <1>7, <1>14, <2>1, <2>2, EntryNumbers
  <2>3. CASE g # h BY <1>7, <1>12, <1>14, <1>15, <2>1, <2>3, EntryNumbers
  <2> QED BY <2>2, <2>3
<1>17. /\ owned' \in [Slots -> Nat] /\ DOMAIN denotes' = Slots
  BY <1>7 DEF ReferenceInv, GuestTypes
<1>18. \A o \in Objects : derefs'[o] > 0 => handles[o] # <<>>
  BY <1>2, <1>14 DEF ReferenceInv, OneHandle
<1>19. \A g : Keeps(t, g) => Keeps(t, g)' BY <1>7, <1>8, RestsFine DEF Keeps
<1>20. \A g \in Slots : Kept(g) => Kept(g)' BY <1>9, <1>19, KeptStays
<1>21. SlotsStay BY <1>7 DEF SlotsStay
<1> QED BY <1>7, <1>9, <1>11, <1>14, <1>16, <1>17, <1>18, <1>20, <1>21, SettledMoves

LEMMA WithoutTheOnly ==
  ASSUME NEW h \in Slots
  PROVE  Without(<<h>>, h) = <<>>
<1> DEFINE hs == <<h>>
           places == {i \in DOMAIN hs : hs[i] = h}
           first == CHOOSE i \in places : \A j \in places : i <= j
<1>1. hs \in Seq(Slots) /\ Len(hs) = 1 /\ hs[1] = h /\ DOMAIN hs = {1} OBVIOUS
<1>2. places = {1} BY <1>1
<1>3. first = 1
  <2>1. 1 \in places /\ \A j \in places : 1 <= j BY <1>2
  <2>2. first \in places BY <2>1
  <2> QED BY <1>2, <2>2
<1>4. Without(hs, h) = SubSeq(hs, 1, first - 1) \o SubSeq(hs, first + 1, Len(hs))
  BY <1>2 DEF Without
<1>5. SubSeq(hs, 1, 0) = <<>> /\ SubSeq(hs, 2, 1) = <<>> OBVIOUS
<1>6. Without(hs, h) = <<>> \o <<>> BY <1>1, <1>3, <1>4, <1>5
<1> QED BY <1>6

\* The last use of a handle is given up, and the handle with it.
LEMMA SettledRemoves ==
  ASSUME TableInv, ReferenceInv, NEW t \in Threads, Others(t), CallFine(t)',
         NEW h \in Slots, table[h].object # NoObject, Remove(h),
         UNCHANGED <<stash, denotes, derefs>>, derefs[table[h].object] = 0,
         owned' \in [Slots -> Nat], owned'[h] = 0,
         \A g \in Slots : g # h => owned'[g] = owned[g],
         \A u \in Threads \ {t} : todo[u] \in Referring \cup Holding => Subject(u) # h,
         \A g \in Slots : Uses(t, g)' <=> g # h /\ Uses(t, g), todo[t] \notin Creating
  PROVE  ReferenceInv'
<1>1. PICK o \in Objects : o = table[h].object BY EntryNumbers
<1>2. /\ table' = [table EXCEPT ![h] = Free]
      /\ handles' = [handles EXCEPT ![o] = Without(@, h)]
      /\ names' = [n \in Names |-> IF n = NameOf[o] THEN NoHandle ELSE names[n]]
  BY <1>1 DEF Remove
<1>3. table \in [Slots -> Entries] /\ handles \in [Objects -> Seq(Slots)]
  BY DEF TableInv, TableTypes
<1>4. stash[o] = h /\ handles[o] = <<h>> BY <1>1 DEF ReferenceInv, OneHandle
<1>5. table'[h].object = NoObject /\ \A g \in Slots : g # h => table'[g] = table[g]
  BY <1>2, <1>3 DEF Free
<1>6. handles'[o] = <<>> /\ \A p \in Objects : p # o => handles'[p] = handles[p]
  BY <1>2, <1>3, <1>4, WithoutTheOnly
<1>7. GuestTypes' BY <1>2 DEF ReferenceInv, GuestTypes
<1>8. \A g \in Slots : g # h /\ Kept(g) => Kept(g)'
  <2>1. \A g \in Slots : g # h /\ Keeps(t, g) => Keeps(t, g)' BY DEF Keeps
  <2> QED BY <2>1, KeptStays
<1>9. \A u \in Threads : CallFine(u)'
  <2>1. ASSUME NEW u \in Threads \ {t} PROVE CallFine(u)'
    <3>1. todo[u] \in Referring \cup Holding =>
            table'[Subject(u)].object = table[Subject(u)].object
      BY <1>5, SubjectFacts
    <3>2. todo[u] \in Referring => \A g : g = Subject(u) => Kept(g)' BY <1>8, SubjectFacts
    <3> QED BY <3>1, <3>2, OthersFine
  <2> QED BY <2>1
<1>10. OneHandle'
  <2>1. ASSUME NEW g \in Slots, table'[g].object # NoObject
        PROVE  stash'[table'[g].object] = g /\ handles'[table'[g].object] = <<g>>
    <3>1. g # h /\ table'[g].object = table[g].object BY <1>5, <2>1
    <3>2. /\ table[g].object \in Objects /\ stash[table[g].object] = g
          /\ handles[table[g].object] = <<g>>
      BY <2>1, <3>1, EntryNumbers DEF ReferenceInv, OneHandle
    <3> QED BY <1>4, <1>6, <3>1, <3>2
  <2>2. ASSUME NEW p \in Objects
        PROVE  /\ handles'[p] # <<>> => stash'[p] \in Slots /\ table'[stash'[p]].object = p
               /\ derefs'[p] > 0 => handles'[p] # <<>>
    <3>1. CASE p = o BY <1>1, <1>6, <3>1
    <3>2. CASE p # o
      <4>1. handles'[p] = handles[p] BY <1>6, <3>2
      <4>2. handles[p] # <<>> => stash[p] \in Slots /\ table[stash[p]].object = p
        BY DEF ReferenceInv, OneHandle
      <4>3. handles[p] # <<>> => stash[p] # h BY <1>1, <3>2, <4>2
      <4> QED BY <1>5, <4>1, <4>2, <4>3 DEF ReferenceInv, OneHandle
    <3> QED BY <3>1, <3>2
  <2> QED BY <2>1, <2>2 DEF OneHandle
<1>11. UsesCounted'
  <2> SUFFICES ASSUME NEW g \in Slots
        PROVE  LET p == table'[g].object
               IN  /\ p = NoObject => owned'[g] = 0 /\ Users(g)' = {}
                   /\ p # NoObject =>
                        /\ table'[g].refs = owned'[g] + derefs'[p] + Cardinality(Users(g))'
                        /\ table'[g].refs > 0
                   /\ owned'[g] > 0 => denotes'[g] = p
    BY DEF UsesCounted
  <2>1. CASE g = h
    <3>1. \A u \in Threads \ {t} : ~Uses(u, h)' BY OthersUse DEF Uses
    <3>2. ~Uses(t, g)' BY <2>1
    <3>3. \A u \in Threads : ~Uses(u, g)' BY <2>1, <3>1, <3>2, OthersUse
    <3>4. Users(g)' = {} BY <3>3 DEF Users
    <3> QED BY <1>5, <2>1, <3>4
  <2>2. CASE g # h
    <3>1. \A u \in Threads : Uses(u, g)' <=> Uses(u, g) BY <2>2, OthersUse
    <3>2. Users(g)' = Users(g) BY <3>1 DEF Users
    <3> QED BY <1>5, <2>2, <3>2 DEF ReferenceInv, UsesCounted
  <2> QED BY <2>1, <2>2
<1>12. NameOf' = NameOf /\ (Named' <=> Named) BY NamesStay DEF Others
<1>13. HandlesKept'
  <2> SUFFICES ASSUME Named', NEW g \in Slots, table'[g].object # NoObject PROVE Kept(g)'
    BY DEF HandlesKept
  <2>1. g # h /\ table[g].object # NoObject BY <1>5
  <2>2. Kept(g) BY <1>12, <2>1 DEF ReferenceInv, HandlesKept
  <2> QED BY <1>8, <2>1, <2>2
<1>14. NamesLead'
  <2> SUFFICES ASSUME NEW n \in Names, names'[n] # NoHandle
               PROVE  /\ table'[names'[n]].object # NoObject
                      /\ NameOf'[table'[names'[n]].object] = n
    BY DEF NamesLead
  <2>1. n # NameOf[o] /\ names'[n] = names[n] BY <1>2
  <2>2. names[n] \in Slots BY <2>1 DEF TableInv, TableTypes
  <2>3. table[names[n]].object # NoObject /\ NameOf[table[names[n]].object] = n
    BY <2>1 DEF ReferenceInv, NamesLead
  <2>4. names[n] # h BY <1>1, <2>1, <2>3
  <2> QED BY <1>5, <1>12, <2>1, <2>2, <2>3, <2>4
<1> QED BY <1>7, <1>9, <1>10, <1>11, <1>13, <1>14 DEF ReferenceInv

LEMMA ReleasedEntry ==
  ASSUME TableInv, NEW h \in Slots, table[h].object # NoObject, table[h].refs # 1, Release(h)
  PROVE  /\ table'[h].object = table[h].object /\ table'[h].refs = table[h].refs - 1
         /\ \A g \in Slots : g # h => table'[g] = table[g]
         /\ SlotsStay /\ UNCHANGED <<handles, names>>
<1>1. table' = [table EXCEPT ![h].refs = @ - 1] /\ UNCHANGED <<handles, names>>
  BY DEF Release, Remove
<1>2. table \in [Slots -> Entries] BY DEF TableInv, TableTypes
<1>3. /\ table'[h].object = table[h].object /\ table'[h].refs = table[h].refs - 1
      /\ \A g \in Slots : g # h => table'[g] = table[g]
  BY <1>1, <1>2 DEF Entries
<1> QED BY <1>1, <1>3 DEF SlotsStay

LEMMA ReferRelease ==
  ASSUME TableInv, ReferenceInv, title' = title, NEW t \in Threads, ReleaseHandle(t)
  PROVE  ReferenceInv'
<1>1. /\ todo[t] \in Referring \cup Holding \cup Resting /\ todo[t] # <<>>
      /\ Head(todo[t]) = "ReleaseHandle" /\ First(todo[t]) = "ReleaseHandle"
  BY ReferringAt DEF ReleaseHandle
<1>2. todo[t] \in Holding /\ todo[t] \notin Referring /\ todo[t] \notin Creating
  BY <1>1, ReferringNext
<1>3. PICK h \in Slots : h = Subject(t) BY <1>2, SubjectFacts
<1>4. /\ local[t].handle = h /\ table[h].object # NoObject /\ h = local[t].argument
      /\ table[h].object = local[t].object
  BY <1>1, <1>2, <1>3, SubjectFacts DEF ReferenceInv, CallFine, Subject
<1>5. PICK s : s = Tail(todo[t]) OBVIOUS
<1>6. \/ s \in Resting
      \/ Named /\ s \in Referring /\ s \notin Holding /\ First(s) = "ReadHandle"
  <2>1. \/ s = <<"DropObject">>
        \/ /\ todo[t] \in Finding
           /\ s = <<"ReadHandle", "RetainHandle", "handle", "GiveHandle">>
    BY <1>1, <1>5, ReferringNext
  <2>2. todo[t] \in Finding => Named BY DEF ReferenceInv, CallFine
  <2>3. CASE s = <<"DropObject">> BY <2>3, ReferringStarts
  <2>4. CASE todo[t] \in Finding /\ s = <<"ReadHandle", "RetainHandle", "handle", "GiveHandle">>
    BY <2>2, <2>4, ReferringStarts
  <2> QED BY <2>1, <2>3, <2>4
<1>7. s \notin Holding /\ s \notin Creating /\ s \notin Finding /\ First(s) # "AddNameMapping"
  BY <1>6, ReferringStarts
<1>8. /\ Release(h) /\ todo' = [todo EXCEPT ![t] = s]
      /\ UNCHANGED <<stash, local, owned, denotes, derefs>>
  BY <1>4, <1>5 DEF ReleaseHandle, Continue, guest
<1>9. Others(t) /\ todo'[t] = s /\ local'[t] = local[t]
  BY <1>8 DEF TableInv, TableTypes, Others
<1>10. \A g : (Uses(t, g) <=> g = h) /\ ~Uses(t, g)' BY <1>2, <1>3, <1>7, <1>9 DEF Uses
<1>11. \A g : Keeps(t, g) => Keeps(t, g)' BY <1>2, <1>8 DEF Keeps
<1>12. \A g \in Slots : Kept(g) => Kept(g)' BY <1>9, <1>11, KeptStays
<1>13. CASE table[h].refs = 1
  <2>1. Remove(h) BY <1>4, <1>8, <1>13 DEF Release
  <2>2. t \in Users(h) BY <1>10 DEF Users
  <2>3. /\ IsFiniteSet(Users(h)) /\ Cardinality(Users(h)) \in Nat
    BY <1>9, UsersCount
  <2>4. Cardinality(Users(h)) # 0 BY <2>2, <2>3, FS_EmptySet
  <2>5. /\ owned[h] \in Nat /\ derefs[table[h].object] \in Nat
        /\ 1 = owned[h] + derefs[table[h].object] + Cardinality(Users(h))
    BY <1>4, <1>13, EntryNumbers DEF ReferenceInv, UsesCounted
  <2>6. owned[h] = 0 /\ derefs[table[h].object] = 0 /\ Cardinality(Users(h)) = 1
    BY <2>3, <2>4, <2>5
  <2>7. Users(h) \ {t} = {}
    <3>1. IsFiniteSet(Users(h) \ {t}) BY <2>3, FS_Subset
    <3>2. Cardinality(Users(h) \ {t}) = 1 - 1 BY <2>2, <2>3, <2>6, CountChanges
    <3> QED BY <3>1, <3>2, FS_EmptySet
  <2>8. ~Kept(h) BY <1>2, <2>6, <2>7, KeptUsed DEF Users
  <2>9. \A u \in Threads \ {t} : todo[u] \in Referring \cup Holding => Subject(u) # h
    <3> SUFFICES ASSUME NEW u \in Threads \ {t}, todo[u] \in Referring \cup Holding,
                        Subject(u) = h
                 PROVE  FALSE
      OBVIOUS
    <3>1. CASE todo[u] \in Referring BY <2>8, <3>1, SubjectFacts
    <3>2. CASE todo[u] \in Holding
      <4>1. u \in Users(h) BY <3>2, SubjectFacts DEF Users
      <4> QED BY <2>7, <4>1
    <3> QED BY <3>1, <3>2
  <2>10. s \in Resting BY <1>4, <1>6, <2>8 DEF ReferenceInv, HandlesKept
  <2>11. CallFine(t)' BY <1>9, <2>10, RestsFine
  <2>12. /\ owned' \in [Slots -> Nat] /\ owned'[h] = 0
         /\ \A g \in Slots : g # h => owned'[g] = owned[g]
    BY <1>8, <2>6 DEF ReferenceInv, GuestTypes
  <2>13. \A g \in Slots : Uses(t, g)' <=> g # h /\ Uses(t, g) BY <1>10
  <2> QED
    BY <1>2, <1>4, <1>8, <1>9, <2>1, <2>6, <2>9, <2>11, <2>12, <2>13, SettledRemoves
<1>14. CASE table[h].refs # 1
  <2>1. /\ table'[h].object = table[h].object /\ table'[h].refs = table[h].refs - 1
        /\ \A g \in Slots : g # h => table'[g] = table[g]
        /\ SlotsStay /\ UNCHANGED <<handles, names>>
    BY <1>4, <1>8, <1>14, ReleasedEntry
  <2>2. CallFine(t)'
    <3>1. CASE s \in Resting BY <1>9, <3>1, RestsFine
    <3>2. CASE Named /\ s \in Referring /\ First(s) = "ReadHandle"
      <4>1. Kept(h) BY <1>4, <3>2 DEF ReferenceInv, HandlesKept
      <4>2. Kept(h)' BY <1>12, <4>1
      <4>3. Subject(t)' = h BY <1>4, <1>7, <1>9 DEF Subject
      <4>4. Kept(Subject(t))' BY <4>2, <4>3 DEF Kept, Keeps
      <4> QED BY <1>4, <1>7, <1>9, <2>1, <3>2, <4>3, <4>4 DEF CallFine
    <3> QED BY <1>6, <3>1, <3>2
  <2>3. ASSUME NEW g \in Slots
        PROVE  LET o == table[g].object
               IN  /\ o = NoObject => owned'[g] = 0 /\ ~Uses(t, g)'
                   /\ o # NoObject =>
                      /\ table'[g].refs = table[g].refs + (owned'[g] - owned[g])
                                           + (derefs'[o] - derefs[o]) + Use(t, g)' - Use(t, g)
                      /\ table'[g].refs > 0
                   /\ owned'[g] > 0 => denotes'[g] = o
    <3>1. Use(t, g)' = 0 /\ Use(t, g) = (IF g = h THEN 1 ELSE 0) BY <1>10 DEF Use
    <3>2. CASE g = h BY <1>4, <1>8, <1>14, <2>1, <3>1, <3>2, EntryNumbers
    <3>3. CASE g # h BY <1>8, <1>10, <2>1, <3>1, <3>3, EntryNumbers
    <3> QED BY <3>2, <3>3
  <2>4. /\ owned' \in [Slots -> Nat] /\ DOMAIN denotes' = Slots /\ derefs' \in [Objects -> Nat]
        /\ \A o \in Objects : derefs'[o] > 0 => handles[o] # <<>>
    BY <1>8 DEF ReferenceInv, GuestTypes, OneHandle
  <2> QED BY <1>8, <1>9, <1>12, <2>1, <2>2, <2>3, <2>4, SettledMoves
<1> QED BY <1>13, <1>14

LEMMA ReferClose ==
  ASSUME ReferringGuest, TableInv, ReferenceInv, title' = title, NEW t \in Threads, Close(t)
  PROVE  ReferenceInv'
<1>1. PICK h \in Slots : /\ Idle(t) /\ owned[h] > 0 /\ Spared(h)
                         /\ owned' = [owned EXCEPT ![h] = @ - 1]
                         /\ Release(h) /\ UNCHANGED <<stash, calls, denotes, derefs>>
  BY DEF Close
<1>2. UNCHANGED <<todo, local>> BY <1>1 DEF calls
<1>3. Others(t) BY <1>1, <1>2 DEF Others
<1>4. todo[t] \in Resting BY <1>1, ReferringStarts DEF Idle
<1>5. CallFine(t)' /\ \A g : ~Uses(t, g) /\ ~Uses(t, g)' BY <1>2, <1>4, RestsFine
<1>6. todo[t] \notin Creating BY <1>4, ReferringStarts
<1>7. owned \in [Slots -> Nat] BY DEF ReferenceInv, GuestTypes
<1>8. /\ owned' \in [Slots -> Nat] /\ owned'[h] = owned[h] - 1
      /\ \A g \in Slots : g # h => owned'[g] = owned[g]
  BY <1>1, <1>7
<1>9. table[h].object # NoObject BY <1>1, EntryNumbers
<1>10. PICK p \in Objects : p = table[h].object BY <1>9, EntryNumbers
<1>11. ASSUME NEW u \in Threads, todo[u] \in (Referring \cup Holding) \ Creating,
              Subject(u) = h
       PROVE  owned[h] > 1
  <2>1. todo[u] # <<>> BY <1>11, ReferringStarts
  <2>2. local[u].argument = h BY <1>11 DEF Subject
  <2> QED BY <1>1, <1>7, <2>1, <2>2 DEF Spared, ReferringGuest, Idle
<1>12. /\ IsFiniteSet(Users(h)) /\ Cardinality(Users(h)) \in Nat
       /\ owned[h] \in Nat /\ derefs[p] \in Nat
       /\ table[h].refs = owned[h] + derefs[p] + Cardinality(Users(h))
  <2>1. IsFiniteSet(Users(h)) /\ Cardinality(Users(h)) \in Nat BY <1>3, UsersCount
  <2> QED BY <1>9, <1>10, <2>1, EntryNumbers DEF ReferenceInv, UsesCounted
<1>13. CASE table[h].refs = 1
  <2>1. Remove(h) BY <1>1, <1>9, <1>13 DEF Release
  <2>2. owned[h] = 1 /\ derefs[p] = 0 /\ Cardinality(Users(h)) = 0
    BY <1>1, <1>12, <1>13
  <2>3. Users(h) = {} BY <1>12, <2>2, FS_EmptySet
  <2>4. \A u \in Threads \ {t} : todo[u] \in Referring \cup Holding => Subject(u) # h
    <3> SUFFICES ASSUME NEW u \in Threads \ {t}, todo[u] \in Referring \cup Holding,
                        Subject(u) = h
                 PROVE  FALSE
      OBVIOUS
    <3>1. CASE todo[u] \in Referring BY <1>11, <2>2, <3>1, ReferringStarts
    <3>2. CASE todo[u] \in Holding
      <4>1. u \in Users(h) BY <3>2, SubjectFacts DEF Users
      <4> QED BY <2>3, <4>1
    <3> QED BY <3>1, <3>2
  <2>5. owned'[h] = 0 BY <1>8, <2>2
  <2>6. \A g \in Slots : Uses(t, g)' <=> g # h /\ Uses(t, g) BY <1>5
  <2> QED
    BY <1>1, <1>3, <1>5, <1>6, <1>8, <1>9, <1>10, <2>1, <2>2, <2>4, <2>5, <2>6,
       SettledRemoves
<1>14. CASE table[h].refs # 1
  <2>1. /\ table'[h].object = table[h].object /\ table'[h].refs = table[h].refs - 1
        /\ \A g \in Slots : g # h => table'[g] = table[g]
        /\ SlotsStay /\ UNCHANGED <<handles, names>>
    BY <1>1, <1>9, <1>14, ReleasedEntry
  <2>2. ASSUME NEW g \in Slots
        PROVE  LET o == table[g].object
               IN  /\ o = NoObject => owned'[g] = 0 /\ ~Uses(t, g)'
                   /\ o # NoObject =>
                      /\ table'[g].refs = table[g].refs + (owned'[g] - owned[g])
                                           + (derefs'[o] - derefs[o]) + Use(t, g)' - Use(t, g)
                      /\ table'[g].refs > 0
                   /\ owned'[g] > 0 => denotes'[g] = o
    <3>1. Use(t, g)' = 0 /\ Use(t, g) = 0 BY <1>5 DEF Use
    <3>2. CASE g = h BY <1>1, <1>8, <1>9, <1>14, <2>1, <3>1, <3>2, EntryNumbers
    <3>3. CASE g # h BY <1>1, <1>5, <1>8, <2>1, <3>1, <3>3, EntryNumbers
    <3> QED BY <3>2, <3>3
  <2>3. /\ DOMAIN denotes' = Slots /\ derefs' \in [Objects -> Nat]
        /\ \A o \in Objects : derefs'[o] > 0 => handles[o] # <<>>
    BY <1>1 DEF ReferenceInv, GuestTypes, OneHandle
  <2>4. ASSUME NEW g \in Slots, Kept(g),
               Named \/ \E u \in Threads \ {t} : todo[u] \in Referring /\ Subject(u) = g
        PROVE  Kept(g)'
    <3>1. CASE g # h \/ owned[h] > 1
      <4>1. owned[g] > 0 => owned'[g] > 0 BY <1>7, <1>8, <3>1
      <4>2. Keeps(t, g) => Keeps(t, g)' BY <1>6, <4>1 DEF Keeps
      <4> QED BY <1>3, <2>4, <4>2, KeptStays
    <3>2. CASE g = h /\ owned[h] <= 1
      <4>1. owned[h] = 1 BY <1>1, <1>12, <3>2
      <4>2. Named BY <1>11, <2>4, <3>2, <4>1, ReferringStarts
      <4>3. derefs[p] = 0 BY <1>1, <1>10, <4>1, <4>2 DEF Spared, ReferringGuest
      <4>4. Cardinality(Users(h)) # 0 BY <1>12, <1>14, <4>1, <4>3
      <4>5. PICK u \in Users(h) : TRUE BY <4>4, FS_EmptySet
      <4>6. u \in Threads /\ todo[u] \in Holding /\ Subject(u) = h BY DEF Users, Uses
      <4>7. todo[u] \in Creating BY <1>11, <4>1, <4>6
      <4>8. u # t BY <1>6, <4>7
      <4>9. todo'[u] = todo[u] /\ Subject(u)' = h BY <1>3, <4>6, <4>8, OthersUse DEF Others
      <4>10. Keeps(u, h)' BY <4>7, <4>9 DEF Keeps
      <4> QED BY <3>2, <4>6, <4>10 DEF Kept
    <3> QED BY <1>12, <3>1, <3>2
  <2> QED BY <1>1, <1>3, <1>5, <1>8, <2>1, <2>2, <2>3, <2>4, SettledMoves
<1> QED BY <1>13, <1>14

\* What a thread does after it has created an object, with or without a name.
LEMMA CreatedScript ==
  ASSUME NEW n
  PROVE  LET s == (IF n = NoName THEN <<>> ELSE <<"AddNameMapping">>)
                    \o <<"handle", "GiveHandle">>
         IN  s \in Creating /\ (n = NoName => First(s) # "AddNameMapping")
<1>1. CASE n = NoName
  <2>1. <<>> \o <<"handle", "GiveHandle">> = <<"handle", "GiveHandle">> OBVIOUS
  <2> QED BY <1>1, <2>1, ReferringStarts
<1>2. CASE n # NoName
  <2>1. <<"AddNameMapping">> \o <<"handle", "GiveHandle">> =
          <<"AddNameMapping", "handle", "GiveHandle">>
    BY NamedScript
  <2> QED BY <1>2, <2>1, ReferringStarts
<1> QED BY <1>1, <1>2

LEMMA ReferNew ==
  ASSUME NEW t \in Threads, Launched, TableInv, ReferenceInv, title' = title, New(t)
  PROVE  ReferenceInv'
<1> DEFINE s == (IF local[t].name = NoName THEN <<>> ELSE <<"AddNameMapping">>)
                  \o <<"handle", "GiveHandle">>
<1>1. PICK o \in Objects, h \in Slots :
        /\ At(t, "New") /\ stash[o] = NoHandle /\ NameOf[o] = local[t].name
        /\ IsFreeSlot(h) /\ Insert(o, h)
        /\ stash' = [stash EXCEPT ![o] = h]
        /\ local' = [local EXCEPT ![t].object = o]
        /\ todo' = [todo EXCEPT ![t] = s]
        /\ UNCHANGED <<lastFree, names, guest>>
  BY DEF New
<1> DEFINE l == [local[t] EXCEPT !.object = o]
<1>2. /\ todo[t] \in Referring \cup Holding \cup Resting /\ todo[t] # <<>>
      /\ Head(todo[t]) = "New" /\ local[t] \in Locals
  BY <1>1, ReferringAt
<1>3. todo[t] \in Resting
  <2>1. todo[t] = <<"New">> BY <1>2, ReferringNext
  <2> QED BY <2>1, ReferringStarts
<1>4. l.object = o /\ l.name = local[t].name /\ local[t].name \in Names \cup {NoName}
  BY <1>2 DEF Locals
<1>5. /\ table \in [Slots -> Entries] /\ handles \in [Objects -> Seq(Slots)]
      /\ stash \in [Objects -> Slots \cup {NoHandle}]
  BY DEF TableInv, TableTypes
<1>6. s \in Creating /\ (local[t].name = NoName => First(s) # "AddNameMapping")
  BY CreatedScript
<1>7. /\ s \in Holding /\ s \notin Referring /\ s \notin Finding
      /\ First(s) \notin {"RetainHandle", "ReleaseHandle"}
      /\ First(s) # "GiveHandle"
  <2>1. First(s) \in {"handle", "AddNameMapping"} BY NewScript
  <2> HIDE DEF s
  <2> QED BY <1>6, <2>1, ReferringStarts
<1> HIDE DEF s, l
<1>8. /\ table' = [table EXCEPT ![h] = [object |-> o, refs |-> 1]]
      /\ handles' = [handles EXCEPT ![o] = Append(@, h)]
      /\ local' = [local EXCEPT ![t] = l] /\ todo' = [todo EXCEPT ![t] = s]
      /\ UNCHANGED <<names, owned, denotes, derefs>>
  BY <1>1 DEF Insert, guest, l
<1>9. table[h].object = NoObject BY <1>1 DEF IsFreeSlot
<1>10. owned[h] = 0 /\ Users(h) = {} BY <1>9 DEF ReferenceInv, UsesCounted
<1>11. o # NoObject BY ObjectAssumption
<1>12. /\ derefs[o] = 0 /\ \A g \in Slots : table[g].object # o
  <2>1. derefs[o] <= 0 /\ \A g \in Slots : table[g].object # o
    BY <1>1 DEF TableInv, Stashed
  <2>2. derefs[o] \in Nat BY DEF ReferenceInv, GuestTypes
  <2> QED BY <2>1, <2>2
<1>13. handles'[o] = <<h>>
  <2>1. handles[o] = <<>> BY <1>1, TableAssumption DEF ReferenceInv, OneHandle
  <2>2. Append(<<>>, h) = <<h>> OBVIOUS
  <2> QED BY <1>5, <1>8, <2>1, <2>2
<1>14. Others(t) /\ todo'[t] = s /\ local'[t] = l
  <2>1. \A p \in Objects : stash[p] # NoHandle => stash'[p] = stash[p] BY <1>1, <1>5
  <2> QED BY <1>8, <2>1, Steps
<1>15. /\ table'[h] = [object |-> o, refs |-> 1]
       /\ \A g \in Slots : g # h => table'[g] = table[g]
       /\ stash'[o] = h /\ \A p \in Objects : p # o =>
                             stash'[p] = stash[p] /\ handles'[p] = handles[p]
  BY <1>1, <1>5, <1>8
<1>16. Subject(t)' = h BY <1>4, <1>6, <1>14, <1>15 DEF Subject
<1>17. NameOf' = NameOf /\ (Named' <=> Named) BY NamesStay
<1>18. CallFine(t)'
  BY <1>1, <1>4, <1>6, <1>7, <1>14, <1>15, <1>16, <1>17 DEF CallFine
<1>19. \A g : (Uses(t, g)' <=> g = h) /\ ~Uses(t, g)
  BY <1>3, <1>7, <1>14, <1>16, RestsFine DEF Uses
<1>20. \A g \in Slots : Kept(g) => Kept(g)'
  <2>1. \A g : Keeps(t, g) => Keeps(t, g)' BY <1>3, <1>8, RestsFine DEF Keeps
  <2> QED BY <1>14, <2>1, KeptStays
<1>21. GuestTypes' BY <1>8 DEF ReferenceInv, GuestTypes
<1>22. \A u \in Threads : CallFine(u)'
  <2>1. ASSUME NEW u \in Threads \ {t} PROVE CallFine(u)'
    <3>1. todo[u] \in Referring \cup Holding =>
            table'[Subject(u)].object = table[Subject(u)].object
      BY <1>9, <1>15, SubjectFacts
    <3>2. todo[u] \in Referring => \A g : g = Subject(u) => Kept(g)'
      BY <1>20, SubjectFacts
    <3> QED BY <1>14, <3>1, <3>2, OthersFine
  <2> QED BY <1>18, <2>1
<1>23. OneHandle'
  <2>1. ASSUME NEW g \in Slots, table'[g].object # NoObject
        PROVE  stash'[table'[g].object] = g /\ handles'[table'[g].object] = <<g>>
    <3>1. CASE g = h BY <1>13, <1>15, <3>1
    <3>2. CASE g # h
      <4>1. table'[g].object = table[g].object BY <1>15, <3>2
      <4>2. /\ table[g].object \in Objects /\ stash[table[g].object] = g
            /\ handles[table[g].object] = <<g>>
        BY <2>1, <4>1, EntryNumbers DEF ReferenceInv, OneHandle
      <4> QED BY <1>12, <1>15, <4>1, <4>2
    <3> QED BY <3>1, <3>2
  <2>2. ASSUME NEW p \in Objects
        PROVE  /\ handles'[p] # <<>> => stash'[p] \in Slots /\ table'[stash'[p]].object = p
               /\ derefs'[p] > 0 => handles'[p] # <<>>
    <3>1. CASE p = o BY <1>8, <1>12, <1>15, <3>1
    <3>2. CASE p # o
      <4>1. handles'[p] = handles[p] /\ stash'[p] = stash[p] BY <1>15, <3>2
      <4>2. handles[p] # <<>> => stash[p] \in Slots /\ table[stash[p]].object = p
        BY DEF ReferenceInv, OneHandle
      <4>3. handles[p] # <<>> => stash[p] # h BY <1>9, <4>2, ObjectAssumption
      <4> QED BY <1>8, <1>15, <4>1, <4>2, <4>3 DEF ReferenceInv, OneHandle
    <3> QED BY <3>1, <3>2
  <2> QED BY <2>1, <2>2 DEF OneHandle
<1>24. UsesCounted'
  <2> SUFFICES ASSUME NEW g \in Slots
        PROVE  LET p == table'[g].object
               IN  /\ p = NoObject => owned'[g] = 0 /\ Users(g)' = {}
                   /\ p # NoObject =>
                        /\ table'[g].refs = owned'[g] + derefs'[p] + Cardinality(Users(g))'
                        /\ table'[g].refs > 0
                   /\ owned'[g] > 0 => denotes'[g] = p
    BY DEF UsesCounted
  <2>1. CASE g = h
    <3>1. Cardinality(Users(g))' = 1
      <4>1. Cardinality(Users(g))' = Cardinality(Users(g)) + Use(t, g)' - Use(t, g)
        BY <1>14, UsersCount
      <4>2. Use(t, g)' = 1 /\ Use(t, g) = 0 BY <1>19, <2>1 DEF Use
      <4>3. Cardinality(Users(g)) = 0 BY <1>10, <2>1, FS_EmptySet
      <4> QED BY <4>1, <4>2, <4>3
    <3>2. /\ table'[g].object = o /\ table'[g].refs = 1 /\ owned'[g] = 0 /\ derefs'[o] = 0
      BY <1>8, <1>10, <1>12, <1>15, <2>1
    <3> QED BY <1>11, <3>1, <3>2
  <2>2. CASE g # h
    <3>1. \A u \in Threads : Uses(u, g)' <=> Uses(u, g) BY <1>14, <1>19, <2>2, OthersUse
    <3>2. Users(g)' = Users(g) BY <3>1 DEF Users
    <3> QED BY <1>8, <1>15, <2>2, <3>2 DEF ReferenceInv, UsesCounted
  <2> QED BY <2>1, <2>2
<1>25. HandlesKept'
  <2> SUFFICES ASSUME Named', NEW g \in Slots, table'[g].object # NoObject PROVE Kept(g)'
    BY DEF HandlesKept
  <2>1. CASE g = h
    <3>1. Keeps(t, h)' BY <1>6, <1>14, <1>16 DEF Keeps
    <3> QED BY <2>1, <3>1 DEF Kept
  <2>2. CASE g # h
    <3>1. Kept(g) BY <1>15, <1>17, <2>2 DEF ReferenceInv, HandlesKept
    <3> QED BY <1>20, <3>1
  <2> QED BY <2>1, <2>2
<1>26. NamesLead'
  <2> SUFFICES ASSUME NEW n \in Names, names[n] # NoHandle
               PROVE  /\ table'[names[n]].object # NoObject
                      /\ NameOf'[table'[names[n]].object] = n
    BY <1>8 DEF NamesLead
  <2>1. names[n] \in Slots BY DEF TableInv, TableTypes
  <2>2. table[names[n]].object # NoObject /\ NameOf[table[names[n]].object] = n
    BY DEF ReferenceInv, NamesLead
  <2> QED BY <1>9, <1>15, <1>17, <2>1, <2>2
<1> QED BY <1>21, <1>22, <1>23, <1>24, <1>25, <1>26 DEF ReferenceInv

LEMMA ReferInit == Init => ReferenceInv
<1> SUFFICES ASSUME Init PROVE ReferenceInv OBVIOUS
<1>1. /\ \A t \in Threads : todo[t] = <<>>
      /\ \A h \in Slots : table[h].object = NoObject /\ owned[h] = 0
      /\ owned \in [Slots -> Nat] /\ DOMAIN denotes = Slots /\ derefs \in [Objects -> Nat]
      /\ \A n \in Names : names[n] = NoHandle
      /\ \A o \in Objects : derefs[o] = 0 /\ handles[o] = <<>>
  BY DEF Init, Free
<1>2. <<>> \in Resting /\ <<>> \notin Referring \cup Holding /\ <<>> \notin Finding
  BY ReferringStarts
<1>3. \A t \in Threads : CallFine(t) BY <1>1, <1>2, ReferringStarts DEF CallFine
<1>4. \A h : Users(h) = {} BY <1>1, <1>2 DEF Users, Uses
<1>5. GuestTypes /\ OneHandle /\ UsesCounted
  BY <1>1, <1>4 DEF GuestTypes, OneHandle, UsesCounted
<1>6. HandlesKept /\ NamesLead BY <1>1 DEF HandlesKept, NamesLead
<1> QED BY <1>3, <1>5, <1>6 DEF ReferenceInv

LEMMA ReferStep ==
  Launched /\ ReferringGuest /\ TableInv /\ ReferenceInv /\ [Next]_vars => ReferenceInv'
<1> SUFFICES ASSUME Launched, ReferringGuest, TableInv, ReferenceInv, [Next]_vars
             PROVE  ReferenceInv'
  OBVIOUS
<1>1. CASE PurgeAllObjects BY <1>1 DEF PurgeAllObjects, ReferringGuest
<1>2. title' = title BY TitleStays
<1>3. ASSUME NEW t \in Threads, Operation(t) PROVE ReferenceInv'
  <2>1. CASE LookupObject(t) BY <1>2, <2>1, ReferLookup
  <2>2. CASE ReadHandle(t) BY <1>2, <2>2, ReferRead
  <2>3. CASE RetainHandle(t) BY <1>2, <2>3, ReferRetain
  <2>4. CASE ReleaseHandle(t) BY <1>2, <2>4, ReferRelease
  <2>5. CASE Handle(t) BY <1>2, <2>5, ReferHandle
  <2>6. CASE GiveHandle(t) BY <1>2, <2>6, ReferGive
  <2>7. CASE GivePointer(t) BY <1>2, <2>7, ReferGivePointer
  <2>8. CASE DropObject(t) BY <1>2, <2>8, ReferDrop
  <2>9. CASE New(t) BY <1>2, <2>9, ReferNew
  <2>10. CASE AddNameMapping(t) BY <1>2, <2>10, ReferAddNameMapping
  <2>11. CASE RemoveHandle(t) \/ AddHandle(t) \/ FirstHandle(t)
    <3>1. PICK op \in {"RemoveHandle", "AddHandle", "FirstHandle"} : At(t, op)
      BY <2>11 DEF RemoveHandle, AddHandle, FirstHandle
    <3>2. Head(todo[t]) = op /\ todo[t] # <<>>
          /\ todo[t] \in Referring \cup Holding \cup Resting
      BY <3>1, ReferringAt
    <3>3. Head(todo[t]) \in {"LookupObject", "ReadHandle", "RetainHandle", "ReleaseHandle",
                             "handle", "GiveHandle", "GivePointer", "DropObject", "New",
                             "AddNameMapping"}
      BY <3>2, ReferringNext
    <3> QED BY <3>2, <3>3
  <2> QED
    BY <1>3, <2>1, <2>2, <2>3, <2>4, <2>5, <2>6, <2>7, <2>8, <2>9, <2>10, <2>11
    DEF Operation
<1>4. ASSUME NEW t \in Threads, GuestCall(t) PROVE ReferenceInv'
  <2>1. CASE Create(t) BY <1>2, <2>1, ReferCreate
  <2>2. CASE Close(t) BY <1>2, <2>2, ReferClose
  <2>3. CASE Reference(t) BY <1>2, <2>3, ReferReference
  <2>4. CASE Dereference(t) BY <1>2, <2>4, ReferDereference
  <2>5. CASE OpenByName(t) BY <1>2, <2>5, ReferOpen
  <2>6. CASE Duplicate(t) \/ Move(t) \/ ReferenceByName(t)
    BY <2>6 DEF Duplicate, Move, ReferenceByName, ReferringGuest
  <2> QED BY <1>4, <2>1, <2>2, <2>3, <2>4, <2>5, <2>6 DEF GuestCall
<1>5. CASE UNCHANGED vars
  <2>1. UNCHANGED <<title, table, handles, stash, names, todo, local, owned, denotes, derefs>>
    BY <1>5 DEF vars, kernel, calls, guest
  <2>2. NameOf' = NameOf /\ (Named' <=> Named) BY <2>1, NamesStay
  <2>3. \A t \in Threads : /\ Subject(t)' = Subject(t)
                           /\ \A h : (Uses(t, h)' <=> Uses(t, h))
                                     /\ (Keeps(t, h)' <=> Keeps(t, h))
    BY <2>1 DEF Subject, Uses, Keeps
  <2>4. \A h : Users(h)' = Users(h) /\ (Kept(h)' <=> Kept(h)) BY <2>3 DEF Users, Kept
  <2>5. ASSUME NEW t \in Threads PROVE CallFine(t)'
    <3>1. Kept(Subject(t)) => \A h : h = Subject(t) => Kept(h)' BY <2>4
    <3>2. Kept(Subject(t)) => Kept(Subject(t))' BY <2>3, <3>1 DEF Kept, Keeps
    <3>3. CallFine(t) BY DEF ReferenceInv
    <3> QED BY <2>1, <2>2, <2>3, <3>2, <3>3 DEF CallFine
  <2>6. GuestTypes' /\ OneHandle' BY <2>1 DEF ReferenceInv, GuestTypes, OneHandle
  <2>7. UsesCounted' BY <2>1, <2>4 DEF ReferenceInv, UsesCounted
  <2>8. HandlesKept' /\ NamesLead'
    BY <2>1, <2>2, <2>4 DEF ReferenceInv, HandlesKept, NamesLead
  <2> QED BY <2>5, <2>6, <2>7, <2>8 DEF ReferenceInv
<1>6. title.threads \subseteq Threads BY LaunchedTitle
<1> QED BY <1>1, <1>3, <1>4, <1>5, <1>6 DEF Next

LEMMA ReferenceInvariant == Spec => [](ReferringGuest => ReferenceInv)
<1>1. Init => (ReferringGuest => ReferenceInv) BY ReferInit
<1>2. Launched /\ TableInv /\ (ReferringGuest => ReferenceInv) /\ [Next]_vars
        => (ReferringGuest => ReferenceInv)'
  BY ReferStep, KindsStay
<1> QED BY <1>1, <1>2, LaunchInvariant, TableInvariant, PTL DEF Spec

\* A careful guest that creates and opens objects, by name or not, references and
\* dereferences them: a handle it may use denotes the object it was given it for, until
\* its last use is closed.
THEOREM AReferredHandleDenotes == Spec => [](ReferringGuest => HandleDenotes)
<1>1. TableInv /\ ReferenceInv => HandleDenotes
  BY EntryNumbers DEF HandleDenotes
<1> QED BY <1>1, TableInvariant, ReferenceInvariant, PTL

\* While such an object has its handle, the one that ObDereferenceObject finds in its
\* structure leads to it.
THEOREM TheStructureFindsIt == Spec => [](ReferringGuest => StructureFindsObject)
<1>1. ReferenceInv => StructureFindsObject
  BY DEF StructureFindsObject, ReferenceInv, OneHandle
<1> QED BY <1>1, ReferenceInvariant, PTL

\* The assertion of XObject's destructor: when the last pointer to such an object is
\* given up it has no handle left.
THEOREM DeletedHaveNoHandles == Spec => [](ReferringGuest => DeletedWithoutHandles)
<1>1. TableInv /\ ReferenceInv => DeletedWithoutHandles
  <2> SUFFICES ASSUME TableInv, ReferenceInv, NEW o \in Objects, pointers[o] = 0,
                      handles[o] # <<>>
               PROVE  FALSE
    BY DEF DeletedWithoutHandles
  <2>1. stash[o] \in SlotsOf(o) BY DEF ReferenceInv, OneHandle, SlotsOf
  <2>2. Cardinality(SlotsOf(o)) # 0 BY <2>1, FiniteCounts, FS_EmptySet
  <2>3. 0 = Cardinality(SlotsOf(o)) + Cardinality(HoldersOf(o)) BY DEF TableInv, Counted
  <2> QED BY <2>2, <2>3, FiniteCounts
<1> QED BY <1>1, TableInvariant, ReferenceInvariant, PTL

\* When no call of such a guest is in progress, the count of a handle is what the guest
\* may still close, and dereference.
THEOREM NoReferenceLeaks == Spec => [](ReferringGuest => NothingLeaks)
<1>1. TableInv /\ ReferenceInv => NothingLeaks
  <2> SUFFICES ASSUME TableInv, ReferenceInv, \A t \in Threads : Idle(t), NEW h \in Slots,
                      table[h].object # NoObject
               PROVE  table[h].refs = owned[h] + (IF h = Head(handles[table[h].object])
                                                  THEN derefs[table[h].object] ELSE 0)
    BY DEF NothingLeaks
  <2>1. <<>> \notin Holding BY ReferringStarts
  <2>2. Users(h) = {} BY <2>1 DEF Idle, Users, Uses
  <2>3. Cardinality(Users(h)) = 0 BY <2>2, FS_EmptySet
  <2>4. handles[table[h].object] = <<h>> BY DEF ReferenceInv, OneHandle
  <2>5. table[h].refs = owned[h] + derefs[table[h].object] + Cardinality(Users(h))
    BY DEF ReferenceInv, UsesCounted
  <2>6. owned[h] \in Nat /\ derefs[table[h].object] \in Nat BY EntryNumbers
  <2>7. Head(handles[table[h].object]) = h BY <2>4
  <2> QED BY <2>3, <2>5, <2>6, <2>7
<1> QED BY <1>1, TableInvariant, ReferenceInvariant, PTL

\* For both kinds of guests, whatever their threads do between each other's operations: a
\* handle the guest may use denotes the object it got it for.  For a careful one that
\* opens, references and names objects so does the handle in the object's structure, and
\* an object is not deleted while it has handles.
THEOREM HandlesDenote == Spec => []EveryHandleDenotes
<1>1. (PlainGuest => HandleDenotes) /\ (ReferringGuest => HandleDenotes)
      /\ (ReferringGuest => StructureFindsObject) /\ (ReferringGuest => DeletedWithoutHandles)
        => EveryHandleDenotes
  BY DEF EveryHandleDenotes
<1> QED
  BY <1>1, AHandleDenotes, AReferredHandleDenotes, TheStructureFindsIt,
     DeletedHaveNoHandles, PTL

\* For both kinds of guests, no use of a handle is lost and none is left over when no
\* call is in progress: not by a reference that interrupts another, and not by the search
\* for a named object, which releases the handle and retains it again.
THEOREM UsesDoNotLeak == Spec => []NoUseLeaks
<1>1. (PlainGuest => NothingLeaks) /\ (ReferringGuest => NothingLeaks) => NoUseLeaks
  BY DEF NoUseLeaks
<1> QED BY <1>1, NoHandleLeaks, NoReferenceLeaks, PTL

=============================================================================
