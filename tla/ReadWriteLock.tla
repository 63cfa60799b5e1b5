--------------------------- MODULE ReadWriteLock ---------------------------
(***************************************************************************)
(* The executive's read-write lock (xboxkrnl_threading.cc, X_ERWLOCK and   *)
(* the Ex...ReadWriteLock calls).  A spin lock makes the part of a call    *)
(* that works on the counters one step; the event of the writers and the   *)
(* semaphore of the readers are waited for and signaled after it.          *)
(***************************************************************************)
EXTENDS Integers, FiniteSets

CONSTANTS
  Readers,    \* the threads that use the lock shared
  Writers,    \* the threads that use it exclusively
  CountWord   \* the counters are unsigned words: they wrap at CountWord

\* A word counts every thread.
ASSUME LockUsersAssumption ==
  /\ IsFiniteSet(Readers \union Writers)
  /\ CountWord \in Nat /\ Cardinality(Readers \union Writers) + 1 < CountWord

VARIABLES
  erw_lock_count,    \* lock_count
  writers_waiting_count,
  readers_waiting_count,
  readers_entry_count,
  writer_event,      \* signaled; a wait resets it
  reader_semaphore,  \* its count
  lockAt,            \* lockAt[t]: where thread t is
  admits,            \* admits[t]: the readers it is to release
  deserted           \* history: a writer left the lock to writers alone

counts == <<erw_lock_count, writers_waiting_count, readers_waiting_count, readers_entry_count>>
objects == <<writer_event, reader_semaphore>>
readWriteVars == <<counts, objects, lockAt, admits, deserted>>

LockUsers == Readers \union Writers

ReadWriteInit ==
  /\ erw_lock_count = -1
  /\ writers_waiting_count = 0 /\ readers_waiting_count = 0 /\ readers_entry_count = 0
  /\ writer_event = FALSE /\ reader_semaphore = 0
  /\ lockAt = [t \in LockUsers |-> "out"]
  /\ admits = [t \in LockUsers |-> 0]
  /\ deserted = FALSE

Plus(n) == (n + 1) % CountWord
Minus(n) == (n - 1) % CountWord

LockUserGoes(t, from, to) == lockAt[t] = from /\ lockAt' = [lockAt EXCEPT ![t] = to]

-----------------------------------------------------------------------------
(* ExAcquireReadWriteLockExclusive, ExTryToAcquireReadWriteLockExclusive.  *)

EnterExclusive(w) ==
  /\ erw_lock_count = -1
  /\ LockUserGoes(w, "out", "writing")
  /\ erw_lock_count' = 0
  /\ UNCHANGED <<writers_waiting_count, readers_waiting_count, readers_entry_count, objects,
                 admits, deserted>>

QueueWriter(w) ==
  /\ erw_lock_count # -1
  /\ LockUserGoes(w, "out", "waitToWrite")
  /\ erw_lock_count' = erw_lock_count + 1
  /\ writers_waiting_count' = Plus(writers_waiting_count)
  /\ UNCHANGED <<readers_waiting_count, readers_entry_count, objects, admits, deserted>>

WaitForEvent(w) ==
  /\ writer_event
  /\ LockUserGoes(w, "waitToWrite", "writing")
  /\ writer_event' = FALSE
  /\ UNCHANGED <<counts, reader_semaphore, admits, deserted>>

-----------------------------------------------------------------------------
(* ExAcquireReadWriteLockShared, ExTryToAcquireReadWriteLockShared.         *)

\* Mutant: readers enter past the writers that wait.
AnyReaderEnters == readers_entry_count # 0

ReadersEnter == readers_entry_count # 0 /\ writers_waiting_count = 0

EnterShared(r) ==
  /\ erw_lock_count = -1 \/ ReadersEnter
  /\ LockUserGoes(r, "out", "reading")
  /\ erw_lock_count' = erw_lock_count + 1
  /\ readers_entry_count' = Plus(readers_entry_count)
  /\ UNCHANGED <<writers_waiting_count, readers_waiting_count, objects, admits, deserted>>

QueueReader(r) ==
  /\ erw_lock_count # -1 /\ ~ReadersEnter
  /\ LockUserGoes(r, "out", "waitToRead")
  /\ erw_lock_count' = erw_lock_count + 1
  /\ readers_waiting_count' = Plus(readers_waiting_count)
  /\ UNCHANGED <<writers_waiting_count, readers_entry_count, objects, admits, deserted>>

WaitForSemaphore(r) ==
  /\ reader_semaphore > 0
  /\ LockUserGoes(r, "waitToRead", "reading")
  /\ reader_semaphore' = reader_semaphore - 1
  /\ UNCHANGED <<counts, writer_event, admits, deserted>>

-----------------------------------------------------------------------------
(* ExReleaseReadWriteLock.  The last to leave opens the lock; a writer lets *)
(* all readers in that wait; and all others count down the readers, as if   *)
(* they were one, and let a writer in when none is left.  So does a writer  *)
(* that leaves the lock to writers alone: the count of the readers wraps,   *)
(* and nobody is let in.                                                    *)

Holds(t) == lockAt[t] \in {"reading", "writing"}

OpenLock(t) ==
  /\ Holds(t) /\ erw_lock_count = 0
  /\ lockAt' = [lockAt EXCEPT ![t] = "out"]
  /\ erw_lock_count' = -1 /\ readers_entry_count' = 0
  /\ UNCHANGED <<writers_waiting_count, readers_waiting_count, objects, admits, deserted>>

AdmitReaders(t) ==
  /\ Holds(t) /\ erw_lock_count > 0
  /\ readers_entry_count = 0 /\ readers_waiting_count # 0
  /\ lockAt' = [lockAt EXCEPT ![t] = "admitReaders"]
  /\ erw_lock_count' = erw_lock_count - 1
  /\ readers_entry_count' = readers_waiting_count /\ readers_waiting_count' = 0
  /\ admits' = [admits EXCEPT ![t] = readers_waiting_count]
  /\ UNCHANGED <<writers_waiting_count, objects, deserted>>

\* Mutant: a reader lets the writer in although others still read.
EveryReaderAdmits == TRUE

LastReader == Minus(readers_entry_count) = 0

CountDown(t) ==
  /\ Holds(t) /\ erw_lock_count > 0
  /\ readers_entry_count # 0 \/ readers_waiting_count = 0
  /\ erw_lock_count' = erw_lock_count - 1
  /\ readers_entry_count' = Minus(readers_entry_count)
  /\ \/ LastReader
        /\ lockAt' = [lockAt EXCEPT ![t] = "admitWriter"]
        /\ writers_waiting_count' = Minus(writers_waiting_count)
     \/ ~LastReader
        /\ lockAt' = [lockAt EXCEPT ![t] = "out"]
        /\ UNCHANGED writers_waiting_count
  /\ deserted' = (deserted \/ lockAt[t] = "writing")
  /\ UNCHANGED <<readers_waiting_count, objects, admits>>

ReleaseReaders(t) ==
  /\ LockUserGoes(t, "admitReaders", "out")
  /\ reader_semaphore' = reader_semaphore + admits[t]
  /\ admits' = [admits EXCEPT ![t] = 0]
  /\ UNCHANGED <<counts, writer_event, deserted>>

SetEvent(t) ==
  /\ LockUserGoes(t, "admitWriter", "out")
  /\ writer_event' = TRUE
  /\ UNCHANGED <<counts, reader_semaphore, admits, deserted>>

-----------------------------------------------------------------------------
Write(w) == EnterExclusive(w) \/ QueueWriter(w) \/ WaitForEvent(w)

Read(r) == EnterShared(r) \/ QueueReader(r) \/ WaitForSemaphore(r)

ReleaseReadWriteLock(t) ==
  OpenLock(t) \/ AdmitReaders(t) \/ CountDown(t) \/ ReleaseReaders(t) \/ SetEvent(t)

ReadWriteNext ==
  \/ \E w \in Writers : Write(w)
  \/ \E r \in Readers : Read(r)
  \/ \E t \in LockUsers : ReleaseReadWriteLock(t)

ReadWriteSpec == ReadWriteInit /\ [][ReadWriteNext]_readWriteVars

ReadWriteFairness ==
  /\ \A t \in LockUsers : WF_readWriteVars(ReleaseReadWriteLock(t))
  /\ \A w \in Writers : WF_readWriteVars(WaitForEvent(w))
  /\ \A r \in Readers : WF_readWriteVars(WaitForSemaphore(r))

ReadWriteFairSpec == ReadWriteSpec /\ ReadWriteFairness

-----------------------------------------------------------------------------
(* Properties. *)

In(places) == {t \in LockUsers : lockAt[t] \in places}

\* The readers that were let in and have not yet been woken: those the semaphore
\* counts, and those that a thread is about to release it for.
Admitting == In({"admitReaders"})
Admitted ==
  reader_semaphore + IF Admitting = {} THEN 0 ELSE admits[CHOOSE t \in Admitting : TRUE]

\* Who holds the lock exclusively, or has yet to signal the event of the writers.
Writing == In({"writing", "admitWriter"})

\* A writer that holds the lock, or is being let in, is alone with it; and one
\* thread at a time lets readers in.
Exclusion ==
  /\ \A t, u \in Writing : t = u
  /\ writer_event => Writing = {}
  /\ In({"reading"}) # {} \/ Admitted > 0 => Writing = {} /\ ~writer_event
  /\ \A t, u \in Admitting : t = u

\* readers_entry_count counts the readers that hold the lock or were let in,
\* over all the steps in which they are handed over, and is zero for a writer.
ReadersAreCounted == readers_entry_count = Cardinality(In({"reading"})) + Admitted

\* Somebody waits only for somebody: whoever holds the lock, or was let in, or
\* is about to let others in.
NobodyWaitsInVain ==
  In({"waitToRead", "waitToWrite"}) # {} =>
    \/ In({"reading", "writing", "admitReaders", "admitWriter"}) # {}
    \/ writer_event \/ reader_semaphore > 0

\* Together: however many read and write, they keep apart; and they are counted,
\* and let in in turn, until a writer leaves the lock to writers alone.
ReadWriteLockIsSound ==
  Exclusion /\ (~deserted => ReadersAreCounted /\ NobodyWaitsInVain)

\* If whoever holds the lock releases it at some time, then writers that wait while
\* none writes have one of them let in, however many readers come, unless a writer
\* left the lock to writers alone.
WriterEnters ==
  In({"waitToWrite"}) # {} /\ In({"writing"}) = {} ~> In({"writing"}) # {} \/ deserted

=============================================================================
