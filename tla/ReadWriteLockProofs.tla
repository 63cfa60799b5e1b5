------------------------ MODULE ReadWriteLockProofs ------------------------
(***************************************************************************)
(* The read-write lock, for every number of readers and writers that a     *)
(* word can count.                                                         *)
(*                                                                         *)
(* The counters are tied to the threads by sums: lock_count counts whoever *)
(* holds the lock or waits for it (AllCounted); two others are the readers *)
(* inside and outside, between which those that were let in and not yet    *)
(* woken are moved (ReadersCounted); and writers_waiting_count is the      *)
(* writers that wait, without the one that is being let in.  A reader      *)
(* waits to be let in only for a writer, and a writer that is not being    *)
(* let in waits for readers, or for another writer (InTurn).  From that    *)
(* follows who the last reader lets in, and that no counter goes below     *)
(* zero, but for the one case in which a writer leaves the lock to writers *)
(* alone.  From then on nobody enters it at all (Deserted), so that those  *)
(* who use it keep apart even so.                                          *)
(***************************************************************************)
EXTENDS ReadWriteLock, FiniteSetTheorems, TLAPS

LockPlaces ==
  {"out", "reading", "writing", "waitToRead", "waitToWrite", "admitReaders", "admitWriter"}

\* The threads at a place, and whether there is one.
Placed(p, f) == {t \in LockUsers : f[t] = p}
Some(p) == \E t \in LockUsers : lockAt[t] = p

LockTypes ==
  /\ erw_lock_count \in Int /\ writers_waiting_count \in Nat
  /\ readers_waiting_count \in Nat /\ readers_entry_count \in Nat
  /\ writer_event \in BOOLEAN /\ reader_semaphore \in Nat
  /\ lockAt \in [LockUsers -> LockPlaces] /\ admits \in [LockUsers -> Nat]
  /\ deserted \in BOOLEAN

\* Where the readers and the writer can be, and who lets readers in.
LockUse ==
  \A t \in LockUsers :
    /\ lockAt[t] \in {"reading", "waitToRead"} => t \in Readers
    /\ lockAt[t] \in {"writing", "waitToWrite"} => t \in Writers
    /\ admits[t] > 0 <=> lockAt[t] = "admitReaders"

OneAdmits == \A t, u \in LockUsers :
  /\ lockAt[t] = "writing" /\ lockAt[u] = "writing" => t = u
  /\ lockAt[t] = "admitReaders" /\ lockAt[u] = "admitReaders" => t = u
  /\ lockAt[t] = "admitWriter" /\ lockAt[u] = "admitWriter" => t = u

NReading == Cardinality(Placed("reading", lockAt))
NWaiting == Cardinality(Placed("waitToRead", lockAt))
NWriters == Cardinality(Placed("waitToWrite", lockAt))

AllCounted ==
  erw_lock_count + 1 = NReading + NWaiting + NWriters + IF Some("writing") THEN 1 ELSE 0

ReadersCounted ==
  /\ Admitted \in Nat
  /\ readers_entry_count = NReading + Admitted
  /\ readers_waiting_count + Admitted = NWaiting

\* A writer is being let in.
LetIn == Some("admitWriter") \/ writer_event

InTurn ==
  /\ Some("admitWriter") => ~writer_event
  /\ LetIn => NWriters > 0 /\ ~Some("writing")
  /\ LetIn \/ Some("writing") => readers_entry_count = 0
  /\ NWriters = writers_waiting_count + IF LetIn THEN 1 ELSE 0
  /\ writers_waiting_count > 0 => readers_entry_count > 0 \/ LetIn \/ Some("writing")
  /\ readers_waiting_count > 0 => Some("writing") \/ NWriters > 0

\* Nobody is in the lock, or comes to be: a writer waits, and no reader passes it.
Deserted ==
  /\ \A t \in LockUsers : lockAt[t] \in {"out", "waitToRead", "waitToWrite"}
  /\ ~writer_event /\ reader_semaphore = 0
  /\ writers_waiting_count = NWriters /\ NWriters > 0

InOrder ==
  /\ LockTypes /\ LockUse /\ OneAdmits /\ AllCounted
  /\ ReadersCounted /\ InTurn /\ ~deserted

IsDeserted == LockTypes /\ LockUse /\ AllCounted /\ Deserted /\ deserted

LockInv == InOrder \/ IsDeserted

-----------------------------------------------------------------------------
(* Counting the threads at a place. *)

LEMMA PlacedFinite ==
  ASSUME NEW p, NEW f
  PROVE  IsFiniteSet(Placed(p, f)) /\ Cardinality(Placed(p, f)) \in Nat
<1>1. Placed(p, f) \subseteq LockUsers /\ IsFiniteSet(LockUsers)
  BY LockUsersAssumption DEF Placed, LockUsers
<1> QED BY <1>1, FS_Subset, FS_CardinalityType

LEMMA WordHolds == CountWord \in Nat /\ CountWord > 1
BY FS_CardinalityType, LockUsersAssumption

LEMMA PlacedSome ==
  /\ NReading \in Nat /\ (NReading > 0 <=> Some("reading"))
  /\ NWaiting \in Nat /\ (NWaiting > 0 <=> Some("waitToRead"))
  /\ NWriters \in Nat /\ (NWriters > 0 <=> Some("waitToWrite"))
<1>1. ASSUME NEW p
      PROVE  /\ Cardinality(Placed(p, lockAt)) \in Nat
             /\ Cardinality(Placed(p, lockAt)) > 0 <=> Some(p)
  <2>1. IsFiniteSet(Placed(p, lockAt)) /\ Cardinality(Placed(p, lockAt)) \in Nat
    BY PlacedFinite
  <2>2. Cardinality(Placed(p, lockAt)) = 0 <=> Placed(p, lockAt) = {} BY <2>1, FS_EmptySet
  <2>3. Placed(p, lockAt) = {} <=> ~Some(p) BY DEF Placed, Some
  <2> QED BY <2>1, <2>2, <2>3
<1> QED BY <1>1 DEF NReading, NWaiting, NWriters

\* No more threads are at a few places than there are.
LEMMA PlacedBound ==
  /\ NReading + NWaiting + 1 < CountWord /\ NWriters + 1 < CountWord
<1> DEFINE A == Placed("reading", lockAt)
           B == Placed("waitToRead", lockAt)
           C == Placed("waitToWrite", lockAt)
<1>1. A \cup B \subseteq LockUsers /\ C \subseteq LockUsers /\ A \cap B = {} BY DEF Placed
<1>2. /\ IsFiniteSet(A) /\ IsFiniteSet(B) /\ IsFiniteSet(A \cup B)
      /\ Cardinality(A \cup B) <= Cardinality(LockUsers)
      /\ Cardinality(C) <= Cardinality(LockUsers)
  BY <1>1, FS_Subset, LockUsersAssumption DEF LockUsers
<1>3. Cardinality(A \cup B) = Cardinality(A) + Cardinality(B)
  <2>1. Cardinality(A \cup B) = Cardinality(A) + Cardinality(B) - Cardinality(A \cap B)
    BY <1>2, FS_Union
  <2>2. Cardinality(A \cap B) = 0 BY <1>1, FS_EmptySet
  <2>3. Cardinality(A) \in Nat /\ Cardinality(B) \in Nat BY PlacedFinite
  <2> QED BY <2>1, <2>2, <2>3
<1>4. /\ Cardinality(A) \in Nat /\ Cardinality(B) \in Nat /\ Cardinality(C) \in Nat
      /\ Cardinality(LockUsers) \in Nat /\ Cardinality(LockUsers) + 1 < CountWord
  BY PlacedFinite, FS_CardinalityType, LockUsersAssumption DEF LockUsers
<1> QED BY <1>2, <1>3, <1>4, LockUsersAssumption DEF NReading, NWaiting, NWriters

-----------------------------------------------------------------------------
(* The steps. *)

\* Admitted, by whether a thread is about to release the semaphore.
LEMMA AdmittedValue ==
  ASSUME OneAdmits, LockTypes
  PROVE  /\ ~Some("admitReaders") => Admitted = reader_semaphore
         /\ \A t \in LockUsers :
              lockAt[t] = "admitReaders" => Admitted = reader_semaphore + admits[t]
<1>1. ASSUME ~Some("admitReaders") PROVE Admitted = reader_semaphore + 0
  <2>1. Admitting = {} BY <1>1 DEF Some, Admitting, In
  <2> QED BY <2>1 DEF Admitted
<1>2. ASSUME NEW t \in LockUsers, lockAt[t] = "admitReaders"
      PROVE  Admitted = reader_semaphore + admits[t]
  <2>1. Admitting = {t} BY <1>2 DEF OneAdmits, Admitting, In
  <2>2. (CHOOSE u \in Admitting : TRUE) = t BY <2>1
  <2> QED BY <2>1, <2>2 DEF Admitted
<1> QED BY <1>1, <1>2 DEF LockTypes

LEMMA AdmittedValueThen ==
  ASSUME OneAdmits', LockTypes'
  PROVE  /\ ~Some("admitReaders")' => Admitted' = reader_semaphore'
         /\ \A t \in LockUsers :
              lockAt'[t] = "admitReaders" => Admitted' = reader_semaphore' + admits'[t]
<1>1. ASSUME ~Some("admitReaders")' PROVE Admitted' = reader_semaphore' + 0
  <2>1. Admitting' = {} BY <1>1 DEF Some, Admitting, In
  <2> QED BY <2>1 DEF Admitted
<1>2. ASSUME NEW t \in LockUsers, lockAt'[t] = "admitReaders"
      PROVE  Admitted' = reader_semaphore' + admits'[t]
  <2>1. Admitting' = {t} BY <1>2 DEF OneAdmits, Admitting, In
  <2>2. (CHOOSE u \in Admitting' : TRUE) = t BY <2>1
  <2> QED BY <2>1, <2>2 DEF Admitted
<1> QED BY <1>1, <1>2 DEF LockTypes

(* At each of these places is one thread at a time.                          *)
Single == {"writing", "admitReaders", "admitWriter"}

LEMMA SomeMoves ==
  ASSUME LockTypes, OneAdmits, NEW t \in LockUsers, NEW q \in LockPlaces,
         lockAt' = [lockAt EXCEPT ![t] = q], NEW p \in Single
  PROVE  Some(p)' <=> (q = p \/ (lockAt[t] # p /\ Some(p)))
<1>1. ASSUME NEW u \in LockUsers, NEW v \in LockUsers, lockAt[u] = p, lockAt[v] = p
      PROVE  u = v
  BY <1>1 DEF OneAdmits, Single
<1>2. CASE q = p BY <1>2 DEF Some, LockTypes
<1>3. CASE q # p /\ lockAt[t] = p BY <1>1, <1>3 DEF Some, LockTypes
<1>4. CASE q # p /\ lockAt[t] # p BY <1>4 DEF Some, LockTypes
<1> QED BY <1>2, <1>3, <1>4

\* The counts of a thread that goes from one place to another.
LEMMA UserMoves ==
  ASSUME LockTypes, NEW t \in LockUsers, NEW q \in LockPlaces,
         lockAt' = [lockAt EXCEPT ![t] = q]
  PROVE  /\ lockAt' \in [LockUsers -> LockPlaces]
         /\ NReading' = NReading + (IF q = "reading" THEN 1 ELSE 0)
                                 - (IF lockAt[t] = "reading" THEN 1 ELSE 0)
         /\ NWaiting' = NWaiting + (IF q = "waitToRead" THEN 1 ELSE 0)
                                 - (IF lockAt[t] = "waitToRead" THEN 1 ELSE 0)
         /\ NWriters' = NWriters + (IF q = "waitToWrite" THEN 1 ELSE 0)
                                 - (IF lockAt[t] = "waitToWrite" THEN 1 ELSE 0)
         /\ NReading' \in Nat /\ NWaiting' \in Nat /\ NWriters' \in Nat
<1>1. ASSUME NEW p
      PROVE  /\ Cardinality(Placed(p, lockAt')) \in Nat
             /\ Cardinality(Placed(p, lockAt')) =
                  Cardinality(Placed(p, lockAt)) + (IF q = p THEN 1 ELSE 0)
                                                 - (IF lockAt[t] = p THEN 1 ELSE 0)
  <2>0. /\ IsFiniteSet(Placed(p, lockAt)) /\ Cardinality(Placed(p, lockAt)) \in Nat
        /\ Cardinality(Placed(p, lockAt')) \in Nat
    BY PlacedFinite
  <2>a. lockAt \in [LockUsers -> LockPlaces] BY DEF LockTypes
  <2>1. CASE lockAt[t] = p <=> q = p
    <3>1. Placed(p, lockAt') = Placed(p, lockAt) BY <2>1, <2>a DEF Placed
    <3> QED BY <2>0, <2>1, <3>1
  <2>2. CASE lockAt[t] = p /\ q # p
    <3>1. Placed(p, lockAt') = Placed(p, lockAt) \ {t} /\ t \in Placed(p, lockAt)
      BY <2>2, <2>a DEF Placed
    <3>2. Cardinality(Placed(p, lockAt')) = Cardinality(Placed(p, lockAt)) - 1
      BY <3>1, <2>0, FS_RemoveElement
    <3> QED BY <2>0, <2>2, <3>2
  <2>3. CASE lockAt[t] # p /\ q = p
    <3>1. Placed(p, lockAt') = Placed(p, lockAt) \cup {t} /\ t \notin Placed(p, lockAt)
      BY <2>3, <2>a DEF Placed
    <3>2. Cardinality(Placed(p, lockAt) \cup {t}) = Cardinality(Placed(p, lockAt)) + 1
      BY <3>1, <2>0, FS_AddElement
    <3>3. Cardinality(Placed(p, lockAt')) = Cardinality(Placed(p, lockAt)) + 1
      BY <3>1, <3>2
    <3> QED BY <2>0, <2>3, <3>3
  <2> QED BY <2>1, <2>2, <2>3
<1>2. lockAt' \in [LockUsers -> LockPlaces] BY DEF LockTypes
<1>3. \A p : Placed(p, lockAt)' = Placed(p, lockAt') BY DEF Placed
<1> QED BY <1>1, <1>2, <1>3 DEF NReading, NWaiting, NWriters

\* What it means for the sums and for the places of one that thread t goes to q.
MovedTo(t, q) ==
  /\ lockAt' \in [LockUsers -> LockPlaces]
  /\ NReading \in Nat /\ NWaiting \in Nat /\ NWriters \in Nat
  /\ NReading' \in Nat /\ NWaiting' \in Nat /\ NWriters' \in Nat
  /\ NReading' = NReading + (IF q = "reading" THEN 1 ELSE 0)
                          - (IF lockAt[t] = "reading" THEN 1 ELSE 0)
  /\ NWaiting' = NWaiting + (IF q = "waitToRead" THEN 1 ELSE 0)
                          - (IF lockAt[t] = "waitToRead" THEN 1 ELSE 0)
  /\ NWriters' = NWriters + (IF q = "waitToWrite" THEN 1 ELSE 0)
                          - (IF lockAt[t] = "waitToWrite" THEN 1 ELSE 0)
  /\ Some("writing")' <=> (q = "writing" \/ (lockAt[t] # "writing" /\ Some("writing")))
  /\ Some("admitReaders")' <=>
       (q = "admitReaders" \/ (lockAt[t] # "admitReaders" /\ Some("admitReaders")))
  /\ Some("admitWriter")' <=>
       (q = "admitWriter" \/ (lockAt[t] # "admitWriter" /\ Some("admitWriter")))
  /\ Some(lockAt[t])
  /\ NReading + NWaiting + 1 < CountWord /\ NWriters + 1 < CountWord

LEMMA MovesTo ==
  ASSUME LockTypes, OneAdmits, NEW t \in LockUsers, NEW q \in LockPlaces,
         lockAt' = [lockAt EXCEPT ![t] = q]
  PROVE  MovedTo(t, q)
<1>1. /\ lockAt' \in [LockUsers -> LockPlaces]
      /\ NReading' = NReading + (IF q = "reading" THEN 1 ELSE 0)
                              - (IF lockAt[t] = "reading" THEN 1 ELSE 0)
      /\ NWaiting' = NWaiting + (IF q = "waitToRead" THEN 1 ELSE 0)
                              - (IF lockAt[t] = "waitToRead" THEN 1 ELSE 0)
      /\ NWriters' = NWriters + (IF q = "waitToWrite" THEN 1 ELSE 0)
                              - (IF lockAt[t] = "waitToWrite" THEN 1 ELSE 0)
      /\ NReading' \in Nat /\ NWaiting' \in Nat /\ NWriters' \in Nat
  BY UserMoves
<1>2. \A p \in Single : Some(p)' <=> (q = p \/ (lockAt[t] # p /\ Some(p)))
  BY SomeMoves
<1>3. Some(lockAt[t]) BY DEF Some
<1> QED BY <1>1, <1>2, <1>3, PlacedSome, PlacedBound DEF MovedTo, Single

LEMMA EnterExclusiveInv ==
  ASSUME InOrder, NEW w \in Writers, EnterExclusive(w)
  PROVE  InOrder'
<1> USE LockUsersAssumption DEF InOrder
<1>0. w \in LockUsers BY DEF LockUsers
<1>1. lockAt' = [lockAt EXCEPT ![w] = "writing"]
  BY
     DEF EnterExclusive, counts, objects, LockUserGoes
<1>2. MovedTo(w, "writing") BY <1>0, <1>1, MovesTo DEF LockPlaces
<1>4. LockUse'
  BY <1>0, <1>1
     DEF EnterExclusive, counts, objects, LockUserGoes, LockUse, LockTypes
<1>o. ~Some("writing")
  BY PlacedSome DEF EnterExclusive, AllCounted, LockTypes
<1>5. OneAdmits'
  BY <1>0, <1>1, <1>o
     DEF Some, EnterExclusive, counts, objects, LockUserGoes, OneAdmits, LockTypes
<1>6. LockTypes'
  BY <1>0, <1>1, <1>2
     DEF EnterExclusive, counts, objects, LockUserGoes, LockTypes, MovedTo
<1>c. Admitted' = Admitted
  BY <1>5, <1>6, <1>0, <1>1, AdmittedValue, AdmittedValueThen
     DEF EnterExclusive, counts, objects, LockUserGoes, LockTypes, Some
<1>7. AllCounted'
  BY <1>1, <1>2, <1>c
     DEF EnterExclusive, counts, objects, LockUserGoes, AllCounted, LockTypes, MovedTo
<1>8. ReadersCounted'
  BY <1>1, <1>2, <1>c
     DEF EnterExclusive, counts, objects, LockUserGoes, ReadersCounted, LockTypes, MovedTo
<1>9. InTurn'
  BY <1>1, <1>2, <1>c
     DEF EnterExclusive, counts, objects, LockUserGoes, InTurn, LetIn, ReadersCounted,
         AllCounted, LockTypes, MovedTo
<1> QED BY <1>4, <1>5, <1>6, <1>7, <1>8, <1>9 DEF EnterExclusive

LEMMA QueueWriterInv ==
  ASSUME InOrder, NEW w \in Writers, QueueWriter(w)
  PROVE  InOrder'
<1> USE LockUsersAssumption DEF InOrder
<1>0. w \in LockUsers BY DEF LockUsers
<1>1. lockAt' = [lockAt EXCEPT ![w] = "waitToWrite"]
  BY
     DEF QueueWriter, counts, objects, LockUserGoes, Plus
<1>2. MovedTo(w, "waitToWrite") BY <1>0, <1>1, MovesTo DEF LockPlaces
<1>4. LockUse'
  BY <1>0, <1>1
     DEF QueueWriter, counts, objects, LockUserGoes, Plus, LockUse, LockTypes
<1>5. OneAdmits'
  BY <1>0, <1>1
     DEF QueueWriter, counts, objects, LockUserGoes, Plus, OneAdmits, LockTypes
<1>6. LockTypes'
  BY <1>0, <1>1, <1>2
     DEF QueueWriter, counts, objects, LockUserGoes, Plus, LockTypes, MovedTo, InTurn, LetIn
<1>c. Admitted' = Admitted
  BY <1>5, <1>6, <1>0, <1>1, AdmittedValue, AdmittedValueThen
     DEF QueueWriter, counts, objects, LockUserGoes, Plus, LockTypes, Some
<1>7. AllCounted'
  BY <1>1, <1>2, <1>c
     DEF QueueWriter, counts, objects, LockUserGoes, Plus, AllCounted, LockTypes, MovedTo
<1>8. ReadersCounted'
  BY <1>1, <1>2, <1>c
     DEF QueueWriter, counts, objects, LockUserGoes, Plus, ReadersCounted, LockTypes,
         MovedTo
<1>9. InTurn'
  BY <1>1, <1>2, <1>c
     DEF QueueWriter, counts, objects, LockUserGoes, Plus, InTurn, LetIn, ReadersCounted,
         AllCounted, LockTypes, MovedTo
<1> QED BY <1>4, <1>5, <1>6, <1>7, <1>8, <1>9 DEF QueueWriter

LEMMA WaitForEventInv ==
  ASSUME InOrder, NEW w \in Writers, WaitForEvent(w)
  PROVE  InOrder'
<1> USE LockUsersAssumption DEF InOrder
<1>0. w \in LockUsers BY DEF LockUsers
<1>1. lockAt' = [lockAt EXCEPT ![w] = "writing"]
  BY
     DEF WaitForEvent, counts, objects, LockUserGoes
<1>2. MovedTo(w, "writing") BY <1>0, <1>1, MovesTo DEF LockPlaces
<1>4. LockUse' BY <1>0, <1>1 DEF WaitForEvent, counts, objects, LockUserGoes, LockUse, LockTypes
<1>o. ~Some("writing") BY DEF WaitForEvent, InTurn, LetIn
<1>5. OneAdmits'
  BY <1>0, <1>1, <1>o
     DEF Some, WaitForEvent, counts, objects, LockUserGoes, OneAdmits, LockTypes
<1>6. LockTypes'
  BY <1>0, <1>1, <1>2
     DEF WaitForEvent, counts, objects, LockUserGoes, LockTypes, MovedTo
<1>c. Admitted' = Admitted
  BY <1>5, <1>6, <1>0, <1>1, AdmittedValue, AdmittedValueThen
     DEF WaitForEvent, counts, objects, LockUserGoes, LockTypes, Some
<1>7. AllCounted'
  BY <1>1, <1>2, <1>c, <1>o
     DEF WaitForEvent, counts, objects, LockUserGoes, AllCounted, LockTypes, MovedTo
<1>8. ReadersCounted'
  BY <1>1, <1>2, <1>c
     DEF WaitForEvent, counts, objects, LockUserGoes, ReadersCounted, LockTypes, MovedTo
<1>9. InTurn'
  BY <1>1, <1>2, <1>c
     DEF WaitForEvent, counts, objects, LockUserGoes, InTurn, LetIn, ReadersCounted,
         AllCounted, LockTypes, MovedTo
<1> QED BY <1>4, <1>5, <1>6, <1>7, <1>8, <1>9 DEF WaitForEvent

LEMMA EnterSharedInv ==
  ASSUME InOrder, NEW r \in Readers, EnterShared(r)
  PROVE  InOrder'
<1> USE LockUsersAssumption DEF InOrder
<1>0. r \in LockUsers BY DEF LockUsers
<1>1. lockAt' = [lockAt EXCEPT ![r] = "reading"]
  BY
     DEF EnterShared, counts, objects, LockUserGoes, Plus, ReadersEnter
<1>2. MovedTo(r, "reading") BY <1>0, <1>1, MovesTo DEF LockPlaces
<1>4. LockUse'
  BY <1>0, <1>1
     DEF EnterShared, counts, objects, LockUserGoes, Plus, ReadersEnter, LockUse, LockTypes
<1>5. OneAdmits'
  BY <1>0, <1>1
     DEF EnterShared, counts, objects, LockUserGoes, Plus, ReadersEnter, OneAdmits,
         LockTypes
<1>6. LockTypes'
  BY <1>0, <1>1, <1>2
     DEF EnterShared, counts, objects, LockUserGoes, Plus, ReadersEnter, LockTypes, MovedTo
<1>c. Admitted' = Admitted
  BY <1>5, <1>6, <1>0, <1>1, AdmittedValue, AdmittedValueThen
     DEF EnterShared, counts, objects, LockUserGoes, Plus, ReadersEnter, LockTypes, Some
<1>7. AllCounted'
  BY <1>1, <1>2, <1>c
     DEF EnterShared, counts, objects, LockUserGoes, Plus, ReadersEnter, AllCounted,
         LockTypes, MovedTo
<1>8. ReadersCounted'
  BY <1>1, <1>2, <1>c
     DEF EnterShared, counts, objects, LockUserGoes, Plus, ReadersEnter, ReadersCounted,
         LockTypes, MovedTo
<1>9. InTurn'
  BY <1>1, <1>2, <1>c
     DEF EnterShared, counts, objects, LockUserGoes, Plus, ReadersEnter, InTurn, LetIn,
         ReadersCounted, AllCounted, LockTypes, MovedTo
<1> QED BY <1>4, <1>5, <1>6, <1>7, <1>8, <1>9 DEF EnterShared

LEMMA QueueReaderInv ==
  ASSUME InOrder, NEW r \in Readers, QueueReader(r)
  PROVE  InOrder'
<1> USE LockUsersAssumption DEF InOrder
<1>0. r \in LockUsers BY DEF LockUsers
<1>1. lockAt' = [lockAt EXCEPT ![r] = "waitToRead"]
  BY
     DEF QueueReader, counts, objects, LockUserGoes, Plus, ReadersEnter
<1>2. MovedTo(r, "waitToRead") BY <1>0, <1>1, MovesTo DEF LockPlaces
<1>4. LockUse'
  BY <1>0, <1>1
     DEF QueueReader, counts, objects, LockUserGoes, Plus, ReadersEnter, LockUse, LockTypes
<1>5. OneAdmits'
  BY <1>0, <1>1
     DEF QueueReader, counts, objects, LockUserGoes, Plus, ReadersEnter, OneAdmits,
         LockTypes
<1>6. LockTypes'
  BY <1>0, <1>1, <1>2
     DEF QueueReader, counts, objects, LockUserGoes, Plus, ReadersEnter, LockTypes, MovedTo
<1>c. Admitted' = Admitted
  BY <1>5, <1>6, <1>0, <1>1, AdmittedValue, AdmittedValueThen
     DEF QueueReader, counts, objects, LockUserGoes, Plus, ReadersEnter, LockTypes, Some
<1>7. AllCounted'
  BY <1>1, <1>2, <1>c
     DEF QueueReader, counts, objects, LockUserGoes, Plus, ReadersEnter, AllCounted,
         LockTypes, MovedTo
<1>8. ReadersCounted'
  BY <1>1, <1>2, <1>c
     DEF QueueReader, counts, objects, LockUserGoes, Plus, ReadersEnter, ReadersCounted,
         LockTypes, MovedTo
<1>9. InTurn'
  BY <1>1, <1>2, <1>c
     DEF QueueReader, counts, objects, LockUserGoes, Plus, ReadersEnter, InTurn, LetIn,
         ReadersCounted, AllCounted, LockTypes, MovedTo
<1> QED BY <1>4, <1>5, <1>6, <1>7, <1>8, <1>9 DEF QueueReader

LEMMA WaitForSemaphoreInv ==
  ASSUME InOrder, NEW r \in Readers, WaitForSemaphore(r)
  PROVE  InOrder'
<1> USE LockUsersAssumption DEF InOrder
<1>0. r \in LockUsers BY DEF LockUsers
<1>1. lockAt' = [lockAt EXCEPT ![r] = "reading"]
  BY
     DEF WaitForSemaphore, counts, objects, LockUserGoes
<1>2. MovedTo(r, "reading") BY <1>0, <1>1, MovesTo DEF LockPlaces
<1>4. LockUse'
  BY <1>0, <1>1
     DEF WaitForSemaphore, counts, objects, LockUserGoes, LockUse, LockTypes
<1>5. OneAdmits'
  BY <1>0, <1>1
     DEF WaitForSemaphore, counts, objects, LockUserGoes, OneAdmits, LockTypes
<1>6. LockTypes'
  BY <1>0, <1>1, <1>2
     DEF WaitForSemaphore, counts, objects, LockUserGoes, LockTypes, MovedTo
<1>c. Admitted' = Admitted - 1
  BY <1>5, <1>6, <1>0, <1>1, AdmittedValue, AdmittedValueThen
     DEF WaitForSemaphore, counts, objects, LockUserGoes, ReadersCounted, LockTypes, Some
<1>d. Admitted > 0
  <2>1. CASE ~Some("admitReaders")
    BY <2>1, AdmittedValue
       DEF WaitForSemaphore, counts, objects, LockUserGoes
  <2>2. ASSUME NEW u \in LockUsers, lockAt[u] = "admitReaders" PROVE Admitted > 0
    <3>1. Admitted = reader_semaphore + admits[u] BY <2>2, AdmittedValue
    <3>2. admits[u] \in Nat BY DEF LockTypes
    <3> QED BY <3>1, <3>2 DEF WaitForSemaphore, counts, objects, LockUserGoes, LockTypes
  <2> QED BY <2>1, <2>2 DEF Some
<1>7. AllCounted'
  BY <1>1, <1>2, <1>c
     DEF WaitForSemaphore, counts, objects, LockUserGoes, AllCounted, LockTypes, MovedTo
<1>8. ReadersCounted'
  BY <1>1, <1>2, <1>c, <1>d
     DEF WaitForSemaphore, counts, objects, LockUserGoes, ReadersCounted, LockTypes, MovedTo
<1>9. InTurn'
  BY <1>1, <1>2, <1>c
     DEF WaitForSemaphore, counts, objects, LockUserGoes, InTurn, LetIn, ReadersCounted,
         AllCounted, LockTypes, MovedTo
<1> QED BY <1>4, <1>5, <1>6, <1>7, <1>8, <1>9 DEF WaitForSemaphore

LEMMA OpenLockInv ==
  ASSUME InOrder, NEW t \in LockUsers, OpenLock(t)
  PROVE  InOrder'
<1> USE LockUsersAssumption DEF InOrder
<1>0. t \in LockUsers BY DEF LockUsers
<1>1. lockAt' = [lockAt EXCEPT ![t] = "out"] BY DEF OpenLock, counts, objects, Holds
<1>2. MovedTo(t, "out") BY <1>0, <1>1, MovesTo DEF LockPlaces
<1>4. LockUse' BY <1>0, <1>1 DEF OpenLock, counts, objects, Holds, LockUse, LockTypes
<1>5. OneAdmits' BY <1>0, <1>1 DEF OpenLock, counts, objects, Holds, OneAdmits, LockTypes
<1>6. LockTypes' BY <1>0, <1>1, <1>2 DEF OpenLock, counts, objects, Holds, LockTypes, MovedTo
<1>c. Admitted' = Admitted
  BY <1>5, <1>6, <1>0, <1>1, AdmittedValue, AdmittedValueThen
     DEF OpenLock, counts, objects, Holds, LockTypes, Some
<1>7. AllCounted'
  BY <1>1, <1>2, <1>c
     DEF OpenLock, counts, objects, Holds, AllCounted, LockTypes, MovedTo
<1>8. ReadersCounted'
  BY <1>1, <1>2, <1>c
     DEF OpenLock, counts, objects, Holds, ReadersCounted, LockTypes, MovedTo, AllCounted
<1>9. InTurn'
  BY <1>1, <1>2, <1>c
     DEF OpenLock, counts, objects, Holds, InTurn, LetIn, ReadersCounted, AllCounted,
         LockTypes, MovedTo
<1> QED BY <1>4, <1>5, <1>6, <1>7, <1>8, <1>9 DEF OpenLock

LEMMA AdmitReadersInv ==
  ASSUME InOrder, NEW t \in LockUsers, AdmitReaders(t)
  PROVE  InOrder'
<1> USE LockUsersAssumption DEF InOrder
<1>0. t \in LockUsers BY DEF LockUsers
<1>1. lockAt' = [lockAt EXCEPT ![t] = "admitReaders"]
  BY
     DEF AdmitReaders, counts, objects, Holds
<1>2. MovedTo(t, "admitReaders") BY <1>0, <1>1, MovesTo DEF LockPlaces
<1>4. LockUse' BY <1>0, <1>1 DEF AdmitReaders, counts, objects, Holds, LockUse, LockTypes
<1>n. Admitted = 0 /\ ~Some("admitReaders") /\ reader_semaphore = 0
  <2>1. Admitted = 0 BY <1>2 DEF AdmitReaders, counts, objects, Holds, ReadersCounted, MovedTo
  <2>2. ASSUME NEW u \in LockUsers, lockAt[u] = "admitReaders" PROVE FALSE
    <3>1. Admitted = reader_semaphore + admits[u] BY <2>2, AdmittedValue
    <3>2. admits[u] \in Nat /\ admits[u] > 0 BY <2>2 DEF LockUse, LockTypes
    <3> QED BY <2>1, <3>1, <3>2 DEF LockTypes
  <2>3. ~Some("admitReaders") BY <2>2 DEF Some
  <2> QED BY <2>1, <2>3, AdmittedValue
<1>5. OneAdmits'
  BY <1>0, <1>1, <1>n
     DEF AdmitReaders, counts, objects, Holds, OneAdmits, LockTypes, Some
<1>6. LockTypes'
  BY <1>0, <1>1, <1>2
     DEF AdmitReaders, counts, objects, Holds, LockTypes, MovedTo
<1>c. Admitted' = readers_waiting_count
  BY <1>5, <1>6, <1>0, <1>1, <1>n, AdmittedValueThen
     DEF AdmitReaders, counts, objects, Holds, LockTypes
<1>7. AllCounted'
  BY <1>1, <1>2, <1>c
     DEF AdmitReaders, counts, objects, Holds, AllCounted, LockTypes, MovedTo
<1>8. ReadersCounted'
  BY <1>1, <1>2, <1>c, <1>n
     DEF AdmitReaders, counts, objects, Holds, ReadersCounted, LockTypes, MovedTo
<1>9. InTurn'
  BY <1>1, <1>2, <1>c
     DEF AdmitReaders, counts, objects, Holds, InTurn, LetIn, ReadersCounted, AllCounted,
         LockTypes, MovedTo
<1> QED BY <1>4, <1>5, <1>6, <1>7, <1>8, <1>9 DEF AdmitReaders

LEMMA ReleaseReadersInv ==
  ASSUME InOrder, NEW t \in LockUsers, ReleaseReaders(t)
  PROVE  InOrder'
<1> USE LockUsersAssumption DEF InOrder
<1>0. t \in LockUsers BY DEF LockUsers
<1>1. lockAt' = [lockAt EXCEPT ![t] = "out"]
  BY
     DEF ReleaseReaders, counts, objects, LockUserGoes
<1>2. MovedTo(t, "out") BY <1>0, <1>1, MovesTo DEF LockPlaces
<1>4. LockUse'
  BY <1>0, <1>1
     DEF ReleaseReaders, counts, objects, LockUserGoes, LockUse, LockTypes
<1>5. OneAdmits'
  BY <1>0, <1>1
     DEF ReleaseReaders, counts, objects, LockUserGoes, OneAdmits, LockTypes
<1>6. LockTypes'
  BY <1>0, <1>1, <1>2
     DEF ReleaseReaders, counts, objects, LockUserGoes, LockTypes, MovedTo
<1>c. Admitted' = Admitted
  <2>1. Admitted = reader_semaphore + admits[t]
    BY <1>0, AdmittedValue
       DEF ReleaseReaders, counts, objects, LockUserGoes
  <2>2. Admitted' = reader_semaphore'
    BY <1>2, <1>5, <1>6, AdmittedValueThen
       DEF ReleaseReaders, counts, objects, LockUserGoes, MovedTo
  <2> QED BY <2>1, <2>2 DEF ReleaseReaders, counts, objects, LockUserGoes
<1>7. AllCounted'
  BY <1>1, <1>2, <1>c
     DEF ReleaseReaders, counts, objects, LockUserGoes, AllCounted, LockTypes, MovedTo
<1>8. ReadersCounted'
  BY <1>1, <1>2, <1>c
     DEF ReleaseReaders, counts, objects, LockUserGoes, ReadersCounted, LockTypes, MovedTo
<1>9. InTurn'
  BY <1>1, <1>2, <1>c
     DEF ReleaseReaders, counts, objects, LockUserGoes, InTurn, LetIn, ReadersCounted,
         AllCounted, LockTypes, MovedTo
<1> QED BY <1>4, <1>5, <1>6, <1>7, <1>8, <1>9 DEF ReleaseReaders

LEMMA SetEventInv ==
  ASSUME InOrder, NEW t \in LockUsers, SetEvent(t)
  PROVE  InOrder'
<1> USE LockUsersAssumption DEF InOrder
<1>0. t \in LockUsers BY DEF LockUsers
<1>1. lockAt' = [lockAt EXCEPT ![t] = "out"] BY DEF SetEvent, counts, objects, LockUserGoes
<1>2. MovedTo(t, "out") BY <1>0, <1>1, MovesTo DEF LockPlaces
<1>4. LockUse' BY <1>0, <1>1 DEF SetEvent, counts, objects, LockUserGoes, LockUse, LockTypes
<1>5. OneAdmits' BY <1>0, <1>1 DEF SetEvent, counts, objects, LockUserGoes, OneAdmits, LockTypes
<1>6. LockTypes'
  BY <1>0, <1>1, <1>2
     DEF SetEvent, counts, objects, LockUserGoes, LockTypes, MovedTo
<1>c. Admitted' = Admitted
  BY <1>5, <1>6, <1>0, <1>1, AdmittedValue, AdmittedValueThen
     DEF SetEvent, counts, objects, LockUserGoes, LockTypes, Some
<1>7. AllCounted'
  BY <1>1, <1>2, <1>c
     DEF SetEvent, counts, objects, LockUserGoes, AllCounted, LockTypes, MovedTo
<1>8. ReadersCounted'
  BY <1>1, <1>2, <1>c
     DEF SetEvent, counts, objects, LockUserGoes, ReadersCounted, LockTypes, MovedTo
<1>9. InTurn'
  BY <1>1, <1>2, <1>c
     DEF SetEvent, counts, objects, LockUserGoes, InTurn, LetIn, ReadersCounted, AllCounted,
         LockTypes, MovedTo
<1> QED BY <1>4, <1>5, <1>6, <1>7, <1>8, <1>9 DEF SetEvent

(* A reader that counts down is one of those counted; the last one lets a  *)
(* writer in, for which the readers outside wait too.                       *)
LEMMA CountDownReads ==
  ASSUME InOrder, NEW t \in LockUsers, CountDown(t), lockAt[t] = "reading"
  PROVE  /\ NReading > 0
         /\ readers_entry_count > 0 /\ Minus(readers_entry_count) = readers_entry_count - 1
         /\ readers_entry_count = 1 =>
              /\ Admitted = 0 /\ NReading = 1 /\ NWriters = writers_waiting_count
              /\ writers_waiting_count > 0
              /\ Minus(writers_waiting_count) = writers_waiting_count - 1
<1> USE LockUsersAssumption DEF InOrder
<1>1. /\ NReading \in Nat /\ (NReading > 0 <=> Some("reading"))
      /\ NWaiting \in Nat /\ NWriters \in Nat
  BY PlacedSome
<1>2. NReading + NWaiting + 1 < CountWord /\ NWriters + 1 < CountWord BY PlacedBound
<1>3. NReading > 0 BY <1>1 DEF Some
<1>4. readers_entry_count > 0 /\ readers_entry_count < CountWord
  BY <1>1, <1>2, <1>3 DEF ReadersCounted, LockTypes
<1>5. Minus(readers_entry_count) = readers_entry_count - 1 BY <1>4 DEF Minus, LockTypes
<1>6. ASSUME readers_entry_count = 1
      PROVE  /\ Admitted = 0 /\ NReading = 1 /\ NWriters = writers_waiting_count
             /\ writers_waiting_count > 0
             /\ Minus(writers_waiting_count) = writers_waiting_count - 1
  <2>1. Admitted = 0 /\ NReading = 1 /\ readers_waiting_count = NWaiting
    BY <1>1, <1>3, <1>6 DEF ReadersCounted, LockTypes
  <2>2. ~Some("writing") /\ ~LetIn BY <1>6 DEF InTurn
  <2>3. NWriters = writers_waiting_count BY <2>2 DEF InTurn, LockTypes
  <2>4. NWaiting + NWriters > 0
    BY <1>1, <2>1, <2>2 DEF AllCounted, CountDown, LockTypes
  <2>5. writers_waiting_count > 0 BY <1>1, <2>1, <2>2, <2>3, <2>4 DEF InTurn
  <2>6. Minus(writers_waiting_count) = writers_waiting_count - 1
    BY <1>2, <2>3, <2>5 DEF Minus, LockTypes
  <2> QED BY <2>1, <2>3, <2>5, <2>6
<1> QED BY <1>3, <1>4, <1>5, <1>6

LEMMA CountDownLastInv ==
  ASSUME InOrder, NEW t \in LockUsers, CountDown(t), lockAt[t] = "reading", LastReader
  PROVE  InOrder'
<1> USE LockUsersAssumption DEF InOrder
<1>0. t \in LockUsers BY DEF LockUsers
<1>1. lockAt' = [lockAt EXCEPT ![t] = "admitWriter"]
  BY
     DEF CountDown, counts, objects, Holds, LastReader
<1>2. MovedTo(t, "admitWriter") BY <1>0, <1>1, MovesTo DEF LockPlaces
<1>4. LockUse'
  BY <1>0, <1>1
     DEF CountDown, counts, objects, Holds, LastReader, LockUse, LockTypes
<1>n. /\ lockAt[t] = "reading" /\ NReading > 0
      /\ readers_entry_count > 0 /\ Minus(readers_entry_count) = readers_entry_count - 1
      /\ readers_entry_count = 1 =>
           /\ Admitted = 0 /\ NReading = 1 /\ NWriters = writers_waiting_count
           /\ writers_waiting_count > 0
           /\ Minus(writers_waiting_count) = writers_waiting_count - 1
  BY CountDownReads
<1>o. ~Some("admitWriter") BY <1>n DEF InTurn, LetIn
<1>5. OneAdmits'
  BY <1>0, <1>1, <1>o
     DEF CountDown, counts, objects, Holds, LastReader, OneAdmits, LockTypes, Some
<1>6. LockTypes'
  BY <1>0, <1>1, <1>2, <1>n
     DEF CountDown, counts, objects, Holds, LastReader, LockTypes, MovedTo
<1>c. Admitted' = Admitted
  BY <1>5, <1>6, <1>0, <1>1, AdmittedValue, AdmittedValueThen
     DEF CountDown, counts, objects, Holds, LastReader, LockTypes, Some
<1>7. AllCounted'
  BY <1>1, <1>2, <1>c, <1>n
     DEF CountDown, counts, objects, Holds, LastReader, AllCounted, LockTypes, MovedTo
<1>8. ReadersCounted'
  BY <1>1, <1>2, <1>c, <1>n
     DEF CountDown, counts, objects, Holds, LastReader, ReadersCounted, LockTypes, MovedTo
<1>9. InTurn'
  BY <1>1, <1>2, <1>c, <1>n
     DEF CountDown, counts, objects, Holds, LastReader, InTurn, LetIn, ReadersCounted,
         AllCounted, LockTypes, MovedTo
<1> QED BY <1>4, <1>5, <1>6, <1>7, <1>8, <1>9, <1>n DEF CountDown

LEMMA CountDownOtherInv ==
  ASSUME InOrder, NEW t \in LockUsers, CountDown(t), lockAt[t] = "reading", ~LastReader
  PROVE  InOrder'
<1> USE LockUsersAssumption DEF InOrder
<1>0. t \in LockUsers BY DEF LockUsers
<1>1. lockAt' = [lockAt EXCEPT ![t] = "out"]
  BY
     DEF CountDown, counts, objects, Holds, LastReader
<1>2. MovedTo(t, "out") BY <1>0, <1>1, MovesTo DEF LockPlaces
<1>4. LockUse'
  BY <1>0, <1>1
     DEF CountDown, counts, objects, Holds, LastReader, LockUse, LockTypes
<1>n. /\ lockAt[t] = "reading" /\ NReading > 0
      /\ readers_entry_count > 0 /\ Minus(readers_entry_count) = readers_entry_count - 1
      /\ readers_entry_count = 1 =>
           /\ Admitted = 0 /\ NReading = 1 /\ NWriters = writers_waiting_count
           /\ writers_waiting_count > 0
           /\ Minus(writers_waiting_count) = writers_waiting_count - 1
  BY CountDownReads
<1>5. OneAdmits'
  BY <1>0, <1>1
     DEF CountDown, counts, objects, Holds, LastReader, OneAdmits, LockTypes
<1>6. LockTypes'
  BY <1>0, <1>1, <1>2, <1>n
     DEF CountDown, counts, objects, Holds, LastReader, LockTypes, MovedTo
<1>c. Admitted' = Admitted
  BY <1>5, <1>6, <1>0, <1>1, AdmittedValue, AdmittedValueThen
     DEF CountDown, counts, objects, Holds, LastReader, LockTypes, Some
<1>7. AllCounted'
  BY <1>1, <1>2, <1>c, <1>n
     DEF CountDown, counts, objects, Holds, LastReader, AllCounted, LockTypes, MovedTo
<1>8. ReadersCounted'
  BY <1>1, <1>2, <1>c, <1>n
     DEF CountDown, counts, objects, Holds, LastReader, ReadersCounted, LockTypes, MovedTo
<1>9. InTurn'
  BY <1>1, <1>2, <1>c, <1>n
     DEF CountDown, counts, objects, Holds, LastReader, InTurn, LetIn, ReadersCounted,
         AllCounted, LockTypes, MovedTo
<1> QED BY <1>4, <1>5, <1>6, <1>7, <1>8, <1>9, <1>n DEF CountDown

(* A writer counts down only where no reader waits: it leaves the lock to   *)
(* the writers that wait, and the count of the readers wraps.               *)
LEMMA CountDownDeserts ==
  ASSUME InOrder, NEW t \in LockUsers, CountDown(t), lockAt[t] = "writing"
  PROVE  IsDeserted'
<1> USE LockUsersAssumption DEF InOrder
<1>0. /\ NReading \in Nat /\ NWaiting \in Nat /\ NWriters \in Nat
      /\ NReading > 0 <=> Some("reading")
  BY PlacedSome
<1>1. Some("writing") BY DEF Some
<1>2. readers_entry_count = 0 /\ readers_waiting_count = 0 /\ ~LetIn
  BY <1>1 DEF InTurn, CountDown
<1>3. NReading = 0 /\ Admitted = 0 /\ NWaiting = 0 BY <1>0, <1>2 DEF ReadersCounted, LockTypes
<1>4. ~Some("admitReaders") /\ reader_semaphore = 0
  <2>1. ASSUME NEW u \in LockUsers, lockAt[u] = "admitReaders" PROVE FALSE
    <3>1. Admitted = reader_semaphore + admits[u] BY <2>1, AdmittedValue
    <3>2. admits[u] \in Nat /\ admits[u] > 0 BY <2>1 DEF LockUse, LockTypes
    <3> QED BY <1>3, <3>1, <3>2 DEF LockTypes
  <2>2. ~Some("admitReaders") BY <2>1 DEF Some
  <2> QED BY <2>2, <1>3, AdmittedValue
<1>5. NWriters > 0 /\ NWriters = writers_waiting_count
  BY <1>0, <1>1, <1>2, <1>3 DEF AllCounted, InTurn, CountDown, LockTypes
<1>6. Minus(readers_entry_count) = CountWord - 1 /\ ~LastReader
  BY <1>2, WordHolds DEF LastReader, Minus
<1>7. lockAt' = [lockAt EXCEPT ![t] = "out"] BY <1>6 DEF CountDown
<1>8. MovedTo(t, "out") BY <1>7, MovesTo DEF LockPlaces
<1>9. LockTypes'
  <2>1. readers_entry_count' \in Nat BY <1>6, WordHolds DEF CountDown
  <2>2. deserted' \in BOOLEAN BY DEF CountDown
  <2> QED BY <1>6, <1>8, <2>1, <2>2 DEF CountDown, LockTypes, MovedTo, objects
<1>10. LockUse' BY <1>7 DEF CountDown, LockUse, LockTypes
<1>11. ~Some("writing")' /\ NWriters' = NWriters /\ NReading' = NReading /\ NWaiting' = NWaiting
  BY <1>8 DEF MovedTo
<1>12. AllCounted' BY <1>1, <1>11, <1>0 DEF CountDown, AllCounted, LockTypes
<1>13. Deserted'
  <2>1. \A u \in LockUsers : lockAt'[u] \in {"out", "waitToRead", "waitToWrite"}
    <3> TAKE u \in LockUsers
    <3>1. lockAt[u] \notin {"reading", "admitReaders", "admitWriter"}
      BY <1>0, <1>2, <1>3, <1>4 DEF Some, LetIn
    <3>2. u # t => lockAt[u] # "writing" BY DEF OneAdmits
    <3> QED BY <1>7, <3>1, <3>2 DEF LockTypes, LockPlaces
  <2>2. ~writer_event' /\ reader_semaphore' = 0 BY <1>2, <1>4 DEF LetIn, CountDown, objects
  <2>3. writers_waiting_count' = NWriters' /\ NWriters' > 0 BY <1>5, <1>6, <1>11 DEF CountDown
  <2> QED BY <2>1, <2>2, <2>3 DEF Deserted
<1>14. deserted' BY DEF CountDown
<1> QED BY <1>9, <1>10, <1>12, <1>13, <1>14 DEF IsDeserted

LEMMA OrderlyStep ==
  ASSUME InOrder, ReadWriteNext
  PROVE  LockInv'
<1>1. ASSUME NEW w \in Writers, Write(w) PROVE InOrder'
  BY <1>1, EnterExclusiveInv, QueueWriterInv, WaitForEventInv DEF Write
<1>2. ASSUME NEW r \in Readers, Read(r) PROVE InOrder'
  BY <1>2, EnterSharedInv, QueueReaderInv, WaitForSemaphoreInv DEF Read
<1>3. ASSUME NEW t \in LockUsers, CountDown(t) PROVE LockInv'
  <2>1. lockAt[t] \in {"reading", "writing"} BY <1>3 DEF CountDown, Holds
  <2> QED BY <1>3, <2>1, CountDownLastInv, CountDownOtherInv, CountDownDeserts DEF LockInv
<1>4. ASSUME NEW t \in LockUsers, ReleaseReadWriteLock(t), ~CountDown(t) PROVE InOrder'
  BY <1>4, OpenLockInv, AdmitReadersInv, ReleaseReadersInv, SetEventInv
     DEF ReleaseReadWriteLock
<1> QED BY <1>1, <1>2, <1>3, <1>4 DEF ReadWriteNext, LockInv

(* Of a deserted lock a thread can only wait.                               *)
LEMMA DesertedStep ==
  ASSUME IsDeserted, ReadWriteNext
  PROVE  IsDeserted'
<1> USE LockUsersAssumption DEF IsDeserted
<1>0. /\ NReading \in Nat /\ NWaiting \in Nat /\ NWriters \in Nat
      /\ NReading > 0 <=> Some("reading")
  BY PlacedSome
<1>1. ~Some("writing") /\ NReading = 0 /\ OneAdmits
  BY <1>0 DEF Some, Deserted, OneAdmits
<1>2. erw_lock_count >= 0 /\ erw_lock_count # -1
  BY <1>0, <1>1 DEF AllCounted, Deserted, LockTypes
<1>3. ~ReadersEnter BY <1>0 DEF ReadersEnter, Deserted
<1>4. ASSUME NEW w \in Writers, Write(w) PROVE QueueWriter(w)
  BY <1>2, <1>4 DEF Write, EnterExclusive, WaitForEvent, Deserted
<1>5. ASSUME NEW r \in Readers, Read(r) PROVE QueueReader(r)
  <2>1. ~EnterShared(r) BY <1>2, <1>3 DEF EnterShared
  <2>2. ~WaitForSemaphore(r) BY DEF WaitForSemaphore, Deserted
  <2> QED BY <1>5, <2>1, <2>2 DEF Read
<1>6. ASSUME NEW t \in LockUsers, ReleaseReadWriteLock(t) PROVE FALSE
  <2>1. lockAt[t] \in {"out", "waitToRead", "waitToWrite"} BY DEF Deserted
  <2>2. lockAt[t] \in {"reading", "writing", "admitReaders", "admitWriter"}
    BY <1>6 DEF ReleaseReadWriteLock, OpenLock, AdmitReaders, CountDown, Holds,
                ReleaseReaders, SetEvent, LockUserGoes
  <2> QED BY <2>1, <2>2
<1>7. ASSUME NEW w \in Writers, QueueWriter(w) PROVE IsDeserted'
  <2>0. w \in LockUsers BY DEF LockUsers
  <2>1. lockAt' = [lockAt EXCEPT ![w] = "waitToWrite"] /\ lockAt[w] = "out"
    BY <1>7 DEF QueueWriter, LockUserGoes
  <2>2. MovedTo(w, "waitToWrite") BY <1>1, <2>0, <2>1, MovesTo DEF LockPlaces
  <2>3. writers_waiting_count' = writers_waiting_count + 1
    BY <1>7, <2>2 DEF QueueWriter, Plus, Deserted, MovedTo, LockTypes
  <2>4. LockTypes'
    BY <1>7, <2>2, <2>3 DEF QueueWriter, LockTypes, MovedTo, objects
  <2>5. LockUse' BY <1>7, <2>0, <2>1 DEF QueueWriter, LockUse, LockTypes
  <2>6. AllCounted'
    BY <1>7, <1>1, <2>1, <2>2 DEF QueueWriter, AllCounted, LockTypes, MovedTo
  <2>7. Deserted'
    BY <1>7, <2>0, <2>1, <2>2, <2>3 DEF QueueWriter, Deserted, LockTypes, MovedTo, objects
  <2> QED BY <1>7, <2>4, <2>5, <2>6, <2>7 DEF QueueWriter
<1>8. ASSUME NEW r \in Readers, QueueReader(r) PROVE IsDeserted'
  <2>0. r \in LockUsers BY DEF LockUsers
  <2>1. lockAt' = [lockAt EXCEPT ![r] = "waitToRead"] /\ lockAt[r] = "out"
    BY <1>8 DEF QueueReader, LockUserGoes
  <2>2. MovedTo(r, "waitToRead") BY <1>1, <2>0, <2>1, MovesTo DEF LockPlaces
  <2>3. readers_waiting_count' \in Nat
    BY <1>8, WordHolds DEF QueueReader, Plus, LockTypes
  <2>4. LockTypes'
    BY <1>8, <2>2, <2>3 DEF QueueReader, LockTypes, MovedTo, objects
  <2>5. LockUse' BY <1>8, <2>0, <2>1 DEF QueueReader, LockUse, LockTypes
  <2>6. AllCounted'
    BY <1>8, <1>1, <2>1, <2>2 DEF QueueReader, AllCounted, LockTypes, MovedTo
  <2>7. Deserted'
    BY <1>8, <2>0, <2>1, <2>2 DEF QueueReader, Deserted, LockTypes, MovedTo, objects
  <2> QED BY <1>8, <2>4, <2>5, <2>6, <2>7 DEF QueueReader
<1> QED BY <1>4, <1>5, <1>6, <1>7, <1>8 DEF ReadWriteNext

(* Nothing else changes the lock, and it starts closed to nobody.           *)
LEMMA LockStutters ==
  ASSUME LockInv, UNCHANGED readWriteVars
  PROVE  LockInv'
BY DEF LockInv, InOrder, IsDeserted, Deserted, readWriteVars, counts, objects, LockTypes,
       LockUse, OneAdmits, AllCounted, ReadersCounted, InTurn, LetIn, Some, NReading,
       NWaiting, NWriters, Placed, Admitted, Admitting, In

LEMMA LockStarts == ASSUME ReadWriteInit PROVE LockInv
<1>1. \A t \in LockUsers : lockAt[t] = "out" BY DEF ReadWriteInit
<1>2. NReading = 0 /\ NWaiting = 0 /\ NWriters = 0
  BY <1>1, PlacedSome DEF Some
<1>3. Admitting = {} BY <1>1 DEF Admitting, In
<1>4. Admitted = 0 BY <1>3 DEF Admitted, ReadWriteInit
<1>5. LockTypes
  <2>1. lockAt \in [LockUsers -> LockPlaces] /\ admits \in [LockUsers -> Nat]
    BY DEF ReadWriteInit, LockPlaces
  <2>2. writer_event \in BOOLEAN /\ deserted \in BOOLEAN BY DEF ReadWriteInit
  <2> QED BY <2>1, <2>2 DEF LockTypes, ReadWriteInit
<1>6. ~Some("writing") /\ ~Some("admitWriter") /\ ~LetIn
  BY <1>1 DEF ReadWriteInit, Some, LetIn
<1>7. LockUse /\ OneAdmits BY DEF LockUse, OneAdmits, ReadWriteInit
<1>8. AllCounted /\ ReadersCounted /\ InTurn
  BY <1>2, <1>4, <1>6 DEF AllCounted, ReadersCounted, InTurn, ReadWriteInit
<1>9. ~deserted BY DEF ReadWriteInit
<1> QED BY <1>5, <1>7, <1>8, <1>9 DEF LockInv, InOrder

LEMMA LockStep == LockInv /\ [ReadWriteNext]_readWriteVars => LockInv'
<1>1. LockInv /\ ReadWriteNext => LockInv' BY OrderlyStep, DesertedStep DEF LockInv
<1> QED BY <1>1, LockStutters

\* From the sums and the turns: a writer is alone, readers_entry_count counts the
\* readers through every handover, and somebody who waits has somebody to wait for.
LEMMA OrderlySuffices == ASSUME InOrder PROVE ReadWriteLockIsSound
<1> USE DEF InOrder
<1>1. /\ NReading \in Nat /\ (NReading > 0 <=> Some("reading"))
      /\ NWaiting \in Nat /\ (NWaiting > 0 <=> Some("waitToRead"))
      /\ NWriters \in Nat /\ (NWriters > 0 <=> Some("waitToWrite"))
  BY PlacedSome
<1>3. In({"reading"}) = Placed("reading", lockAt) BY DEF In, Placed
<1>4. ReadersAreCounted BY <1>3 DEF ReadersAreCounted, ReadersCounted, NReading
<1>5. Exclusion
  <2>1. \A t, u \in Writing : t = u
    BY DEF Writing, In, OneAdmits, InTurn, LetIn, Some
  <2>2. writer_event => Writing = {}
    BY DEF Writing, In, InTurn, LetIn, Some
  <2>3. In({"reading"}) # {} => NReading > 0 BY <1>1, <1>3 DEF Placed, Some
  <2>4. In({"reading"}) # {} \/ Admitted > 0 => readers_entry_count # 0
    BY <1>1, <2>3 DEF ReadersCounted
  <2>5. readers_entry_count # 0 => ~LetIn /\ ~Some("writing") BY DEF InTurn
  <2>6. \A t, u \in Admitting : t = u BY DEF Admitting, In, OneAdmits
  <2>7. ~LetIn /\ ~Some("writing") => Writing = {} /\ ~writer_event
    BY DEF LetIn, Some, Writing, In
  <2> QED BY <2>1, <2>2, <2>4, <2>5, <2>6, <2>7 DEF Exclusion
<1>6. NobodyWaitsInVain
  <2> SUFFICES ASSUME In({"waitToRead", "waitToWrite"}) # {},
                      In({"reading", "writing", "admitReaders", "admitWriter"}) = {},
                      ~writer_event, ~(reader_semaphore > 0)
               PROVE  FALSE
    BY DEF NobodyWaitsInVain
  <2>1. /\ ~Some("reading") /\ ~Some("writing") /\ ~Some("admitReaders")
        /\ ~Some("admitWriter") /\ ~LetIn
    BY DEF In, Some, LetIn
  <2>2. Admitted = 0 BY <2>1, AdmittedValue DEF LockTypes
  <2>3. readers_entry_count = 0 BY <1>1, <2>1, <2>2 DEF ReadersCounted
  <2>4. NWriters = 0 BY <1>1, <2>1, <2>3 DEF InTurn, LockTypes
  <2>5. Some("waitToRead") BY <1>1, <2>4 DEF In, Some
  <2>6. readers_waiting_count > 0 BY <1>1, <2>2, <2>5 DEF ReadersCounted, LockTypes
  <2> QED BY <1>1, <2>1, <2>4, <2>6 DEF InTurn
<1> QED BY <1>4, <1>5, <1>6 DEF ReadWriteLockIsSound

\* In a deserted lock is nobody to keep apart.
LEMMA DesertedSuffices == ASSUME IsDeserted PROVE ReadWriteLockIsSound
<1> USE DEF IsDeserted
<1>1. Writing = {} /\ In({"reading"}) = {} /\ Admitting = {}
  BY DEF Writing, Admitting, In, Deserted
<1>2. Admitted = 0 /\ ~writer_event BY <1>1 DEF Admitted, Deserted
<1>3. Exclusion BY <1>1, <1>2 DEF Exclusion
<1> QED BY <1>3 DEF ReadWriteLockIsSound

\* Of every number of readers and writers, in every order of their calls to the
\* Ex...ReadWriteLock functions and of the events and semaphores they are woken by:
\* who writes is alone; and until a writer leaves the lock to writers alone, the
\* readers are counted, and nobody waits for nobody.
THEOREM TheReadWriteLockIsSound == ReadWriteSpec => []ReadWriteLockIsSound
<1>1. ReadWriteInit => LockInv BY LockStarts
<1>2. LockInv /\ [ReadWriteNext]_readWriteVars => LockInv' BY LockStep
<1>3. LockInv => ReadWriteLockIsSound BY OrderlySuffices, DesertedSuffices DEF LockInv
<1> QED BY <1>1, <1>2, <1>3, PTL DEF ReadWriteSpec

=============================================================================
