-------------------------- MODULE AllocatorProofs --------------------------
(***************************************************************************)
(* What the bit map promises its callers, for every number of threads,     *)
(* words and bits; the safety of XmaDecoder, which takes its contexts from *)
(* a bit map, for every set of guest threads and number of contexts; and,  *)
(* for a heap of any size, what GuestHeap says of its search and regions.  *)
(***************************************************************************)
EXTENDS BitMap, XmaDecoder, GuestHeap, FiniteSetTheorems, WellFoundedInduction, TLAPS

(* The inductive invariant: the types, HandedOutOnce, and what a call that   *)
(* searches knows of the words it has left behind.                           *)

Types ==
  /\ data \in [Words -> SUBSET Bits]
  /\ at \in [Threads -> {"idle", "read", "acquire", "failed", "readBack", "release"}]
  /\ word \in [Threads -> Words] /\ step \in [Threads -> {1, -1}]
  /\ entry \in [Threads -> SUBSET Bits] /\ bit \in [Threads -> Nat]
  /\ held \in [Threads -> SUBSET (Words \X Bits)]
  /\ sawFull \subseteq Threads /\ sawRelease \subseteq Threads

ReleasesABit ==
  \A t \in Threads : at[t] \in {"readBack", "release"} =>
    bit[t] \in Bits /\ <<word[t], bit[t]>> \notin held[t]

Searching(t) == at[t] \in {"read", "acquire", "failed"}

LeftBehind(t, i) ==
  \/ at[t] = "failed"
  \/ step[t] = 1 /\ i < word[t]
  \/ step[t] = -1 /\ word[t] < i

FoundEmpty ==
  \A t \in Threads : Searching(t) /\ t \notin sawRelease =>
    \A i \in Words : LeftBehind(t, i) => data[i] = {}

NoticesFull == \A t \in Threads : Searching(t) /\ Full(data) => t \in sawFull

MapInv == Types /\ ReleasesABit /\ HandedOutOnce
SearchInv == FoundEmpty /\ NoticesFull

-----------------------------------------------------------------------------
LEMMA InitMap == Init => MapInv /\ SearchInv
<1> SUFFICES ASSUME Init PROVE MapInv /\ SearchInv OBVIOUS
<1>1. 0 \in Words BY WordAssumption DEF Words
<1>2. Types BY <1>1, WordAssumption DEF Init, Types
<1>3. \A t \in Threads : Has(t) = {} BY DEF Init, Has
<1>4. ReleasesABit /\ HandedOutOnce BY <1>3 DEF Init, ReleasesABit, HandedOutOnce
<1>5. SearchInv BY DEF Init, SearchInv, FoundEmpty, NoticesFull, Searching
<1> QED BY <1>2, <1>4, <1>5 DEF MapInv

LEMMA HasTypes ==
  Types /\ ReleasesABit => \A t \in Threads : Has(t) \subseteq Words \X Bits
BY DEF Types, ReleasesABit, Has

\* The words and the sets of the threads alone decide HandedOutOnce.
LEMMA HandedOutFrame ==
  ASSUME MapInv, UNCHANGED data, \A t \in Threads : Has(t)' \subseteq Has(t)
  PROVE  HandedOutOnce'
BY DEF MapInv, HandedOutOnce

LEMMA AcquireKeepsMap ==
  ASSUME MapInv, NEW t \in Threads, Acquire(t)
  PROVE  MapInv'
<1> USE WordAssumption DEF MapInv, Types, ReleasesABit, Goto, Forget, history, Words
<1>1. CASE Begin(t)
  <2>1. Types' /\ ReleasesABit' BY <1>1 DEF Begin
  <2>2. UNCHANGED data /\ \A u \in Threads : Has(u)' \subseteq Has(u)
    BY <1>1 DEF Begin, Has
  <2> QED BY <2>1, <2>2, HandedOutFrame
<1>2. CASE ReadEmpty(t)
  <2>1. Types' /\ ReleasesABit' BY <1>2 DEF ReadEmpty
  <2>2. UNCHANGED data /\ \A u \in Threads : Has(u)' \subseteq Has(u)
    BY <1>2 DEF ReadEmpty, Has
  <2> QED BY <2>1, <2>2, HandedOutFrame
<1>3. CASE ReadFree(t)
  <2>1. Types' /\ ReleasesABit' BY <1>3 DEF ReadFree
  <2>2. UNCHANGED data /\ \A u \in Threads : Has(u)' \subseteq Has(u)
    BY <1>3 DEF ReadFree, Has
  <2> QED BY <2>1, <2>2, HandedOutFrame
<1>4. CASE AcquireBit(t)
  <2>1. PICK first \in entry[t] :
          /\ data' = [data EXCEPT ![word[t]] = entry[t] \ {first}]
          /\ held' = [held EXCEPT ![t] = @ \union {<<word[t], first>>}]
    BY <1>4 DEF AcquireBit
  <2>2. first \in data[word[t]] /\ first \in Bits BY <1>4 DEF AcquireBit, Unchanged
  <2>3. Types' /\ ReleasesABit' BY <1>4, <2>1, <2>2 DEF AcquireBit
  <2>4. HandedOutOnce'
    <3> DEFINE p == <<word[t], first>>
    <3>1. \A u \in Threads : p \notin Has(u) BY <2>2 DEF HandedOutOnce
    <3>2. Has(t)' = Has(t) \union {p} BY <1>4, <2>1 DEF AcquireBit, Has
    <3>3. \A u \in Threads \ {t} : Has(u)' = Has(u) BY <1>4, <2>1 DEF AcquireBit, Has
    <3>4. \A i \in Words : data'[i] \subseteq data[i]
      BY <1>4, <2>1 DEF AcquireBit, Unchanged
    <3>5. p[2] \notin data'[p[1]] BY <2>1
    <3> HIDE DEF p, Types, ReleasesABit
    <3> QED BY <3>1, <3>2, <3>3, <3>4, <3>5, HasTypes DEF HandedOutOnce
  <2> QED BY <2>3, <2>4
<1>5. CASE Retry(t)
  <2>1. Types' /\ ReleasesABit' BY <1>5 DEF Retry
  <2>2. UNCHANGED data /\ \A u \in Threads : Has(u)' \subseteq Has(u)
    BY <1>5 DEF Retry, Has
  <2> QED BY <2>1, <2>2, HandedOutFrame
<1>6. CASE Fail(t)
  <2>1. Types' /\ ReleasesABit' BY <1>6 DEF Fail
  <2>2. UNCHANGED data /\ \A u \in Threads : Has(u)' \subseteq Has(u)
    BY <1>6 DEF Fail, Has
  <2> QED BY <2>1, <2>2, HandedOutFrame
<1> QED BY <1>1, <1>2, <1>3, <1>4, <1>5, <1>6 DEF Acquire

LEMMA ReleaseKeepsMap ==
  ASSUME MapInv, NEW t \in Threads, Release(t)
  PROVE  MapInv'
<1> USE WordAssumption DEF MapInv, Types, ReleasesABit, Goto, Forget, history, Words
<1>1. CASE BeginRelease(t)
  <2>1. PICK b \in held[t] :
          /\ word' = [word EXCEPT ![t] = b[1]]
          /\ bit' = [bit EXCEPT ![t] = b[2]]
          /\ held' = [held EXCEPT ![t] = @ \ {b}]
    BY <1>1 DEF BeginRelease
  <2>2. b \in Words \X Bits /\ b = <<b[1], b[2]>> OBVIOUS
  <2>3. b[1] \in Words /\ b[2] \in Bits BY <2>2
  <2>4. Types' BY <1>1, <2>1, <2>3 DEF BeginRelease
  <2>5. ReleasesABit' BY <1>1, <2>1, <2>2, <2>3 DEF BeginRelease
  <2>6. Has(t)' = Has(t)
    <3>1. <<word'[t], bit'[t]>> = b BY <2>1, <2>2
    <3>2. at[t] = "idle" /\ at'[t] = "readBack" BY <1>1 DEF BeginRelease
    <3>3. held'[t] = held[t] \ {b} BY <2>1
    <3> HIDE DEF MapInv
    <3> QED BY <3>1, <3>2, <3>3 DEF Has
  <2>7. \A u \in Threads \ {t} : Has(u)' = Has(u) BY <1>1, <2>1 DEF BeginRelease, Has
  <2>8. UNCHANGED data BY <1>1 DEF BeginRelease
  <2> QED BY <2>4, <2>5, <2>6, <2>7, <2>8, HandedOutFrame
<1>2. CASE ReadBack(t)
  <2>1. Types' /\ ReleasesABit' BY <1>2 DEF ReadBack
  <2>2. UNCHANGED data /\ \A u \in Threads : Has(u)' \subseteq Has(u)
    BY <1>2 DEF ReadBack, Has
  <2> QED BY <2>1, <2>2, HandedOutFrame
<1>3. CASE ReleaseBit(t)
  <2>1. data' = [data EXCEPT ![word[t]] = data[word[t]] \union {bit[t]}]
    BY <1>3 DEF ReleaseBit, Unchanged
  <2>2. bit[t] \in Bits /\ <<word[t], bit[t]>> \notin held[t] BY <1>3 DEF ReleaseBit
  <2>3. Types' /\ ReleasesABit' BY <1>3, <2>1, <2>2 DEF ReleaseBit
  <2>4. HandedOutOnce'
    <3> DEFINE p == <<word[t], bit[t]>>
    <3>1. p \in Has(t) BY <1>3 DEF ReleaseBit, Has
    <3>2. Has(t)' = Has(t) \ {p} BY <1>3, <2>2 DEF ReleaseBit, Has
    <3>3. \A u \in Threads \ {t} : Has(u)' = Has(u) BY <1>3 DEF ReleaseBit, Has
    <3>4. \A u \in Threads : p \notin Has(u)'
      <4> HIDE DEF p, Types, ReleasesABit
      <4> QED BY <3>1, <3>2, <3>3 DEF HandedOutOnce
    <3>5. ASSUME NEW b \in Words \X Bits, b # p, b[2] \notin data[b[1]]
          PROVE  b[2] \notin data'[b[1]]
      BY <2>1, <3>5
    <3> HIDE DEF p, Types, ReleasesABit
    <3> QED BY <3>2, <3>3, <3>4, <3>5, HasTypes DEF HandedOutOnce
  <2> QED BY <2>3, <2>4
<1>4. CASE RetryRelease(t)
  <2>1. Types' /\ ReleasesABit' BY <1>4 DEF RetryRelease
  <2>2. UNCHANGED data /\ \A u \in Threads : Has(u)' \subseteq Has(u)
    BY <1>4 DEF RetryRelease, Has
  <2> QED BY <2>1, <2>2, HandedOutFrame
<1> QED BY <1>1, <1>2, <1>3, <1>4 DEF Release

-----------------------------------------------------------------------------
(* What a search knows.  Only a release makes a full map one that is not, or *)
(* an empty word one that is not, and that is noted for every thread.        *)

LEMMA AcquireKeepsSearch ==
  ASSUME MapInv, SearchInv, NEW t \in Threads, Acquire(t)
  PROVE  SearchInv'
<1> USE WordAssumption DEF MapInv, Types, SearchInv, FoundEmpty, NoticesFull, Searching,
                           LeftBehind, Full, Goto, Forget, history, Words
<1>1. CASE Begin(t)
  <2>1. UNCHANGED data /\ \A u \in Threads \ {t} : at'[u] = at[u] BY <1>1 DEF Begin
  <2>2. \A i \in Words : ~LeftBehind(t, i)' BY <1>1 DEF Begin
  <2>3. FoundEmpty' BY <1>1, <2>1, <2>2 DEF Begin
  <2>4. NoticesFull' BY <1>1, <2>1 DEF Begin
  <2> QED BY <2>3, <2>4
<1>2. CASE ReadEmpty(t)
  <2>1. data[word[t]] = {} /\ UNCHANGED <<data, step, sawFull, sawRelease>>
    BY <1>2 DEF ReadEmpty
  <2>2. CASE word[t] + step[t] \in Words
    <3>1. at[t] = "read" /\ word' = [word EXCEPT ![t] = word[t] + step[t]] /\ UNCHANGED at
      BY <1>2, <2>2 DEF ReadEmpty
    <3>2. ASSUME NEW i \in Words, LeftBehind(t, i)' PROVE i = word[t] \/ LeftBehind(t, i)
      BY <2>1, <3>1, <3>2
    <3>3. \A u \in Threads \ {t} : \A i \in Words : LeftBehind(u, i)' = LeftBehind(u, i)
      BY <2>1, <3>1
    <3> HIDE DEF LeftBehind
    <3> QED BY <2>1, <3>1, <3>2, <3>3
  <2>3. CASE word[t] + step[t] \notin Words
    <3>1. \A i \in Words : i = word[t] \/ LeftBehind(t, i) BY <2>3
    <3> QED BY <1>2, <2>1, <2>3, <3>1 DEF ReadEmpty
  <2> QED BY <2>2, <2>3
<1>3. CASE ReadFree(t) BY <1>3 DEF ReadFree
<1>4. CASE AcquireBit(t)
  <2>1. \A i \in Words : data'[i] \subseteq data[i] BY <1>4 DEF AcquireBit, Unchanged
  <2>2. FoundEmpty' BY <1>4, <2>1 DEF AcquireBit
  <2>3. NoticesFull'
    <3>1. sawFull' = IF Full(data)' THEN Threads ELSE sawFull BY <1>4 DEF AcquireBit
    <3> QED BY <3>1
  <2> QED BY <2>2, <2>3
<1>5. CASE Retry(t) BY <1>5 DEF Retry
<1>6. CASE Fail(t) BY <1>6 DEF Fail
<1> QED BY <1>1, <1>2, <1>3, <1>4, <1>5, <1>6 DEF Acquire

LEMMA ReleaseKeepsSearch ==
  ASSUME MapInv, SearchInv, NEW t \in Threads, Release(t)
  PROVE  SearchInv'
<1> USE
   DEF MapInv, Types, SearchInv, FoundEmpty, NoticesFull, Searching, LeftBehind, Full, Goto,
            Forget, history
<1>1. CASE BeginRelease(t)
  <2>1. at' = [at EXCEPT ![t] = "readBack"] /\ UNCHANGED <<data, step, sawFull, sawRelease>>
    BY <1>1 DEF BeginRelease
  <2>2. \A u \in Threads \ {t} : word'[u] = word[u] BY <1>1 DEF BeginRelease
  <2> QED BY <2>1, <2>2
<1>2. CASE ReadBack(t) BY <1>2 DEF ReadBack
<1>3. CASE ReleaseBit(t)
  <2>1. sawRelease' = Threads BY <1>3 DEF ReleaseBit
  <2>2. bit[t] \in data'[word[t]] /\ word[t] \in Words BY <1>3 DEF ReleaseBit
  <2> QED BY <2>1, <2>2
<1>4. CASE RetryRelease(t) BY <1>4 DEF RetryRelease
<1> QED BY <1>1, <1>2, <1>3, <1>4 DEF Release

LEMMA MapInvariant == Spec => [](MapInv /\ SearchInv)
<1>1. MapInv /\ SearchInv /\ [Next]_vars => (MapInv /\ SearchInv)'
  <2> SUFFICES ASSUME MapInv, SearchInv, [Next]_vars PROVE MapInv' /\ SearchInv' OBVIOUS
  <2>1. CASE Next
    BY <2>1, AcquireKeepsMap, ReleaseKeepsMap, AcquireKeepsSearch, ReleaseKeepsSearch DEF Next
  <2>2. CASE UNCHANGED vars
    <3>1. Types' /\ ReleasesABit' /\ SearchInv'
      BY <2>2 DEF vars, calls, history, MapInv, Types, ReleasesABit, SearchInv, FoundEmpty,
                  NoticesFull, Searching, LeftBehind, Full
    <3>2. HandedOutOnce'
      BY <2>2 DEF vars, calls, history, MapInv, HandedOutOnce, Has
    <3> QED BY <3>1, <3>2 DEF MapInv
  <2> QED BY <2>1, <2>2
<1> QED BY InitMap, <1>1, PTL DEF Spec

-----------------------------------------------------------------------------

(* No bit is handed to two threads, whatever words they exchange under one   *)
(* another's feet, and Release never meets a bit that is free.               *)
THEOREM BitsAreHandedOutOnce == Spec => []HandedOutOnce
<1>1. MapInv => HandedOutOnce BY DEF MapInv
<1> QED BY <1>1, MapInvariant, PTL

(* A thread that is told there is no free bit has the map full at an instant *)
(* of its call, or a release that it may have missed.                        *)
THEOREM FailureHasAReason == Spec => []FailsForAReason
<1>1. MapInv /\ SearchInv => FailsForAReason
  BY DEF MapInv, Types, SearchInv, FoundEmpty, NoticesFull, Searching, LeftBehind, Full,
         FailsForAReason
<1> QED BY <1>1, MapInvariant, PTL

-----------------------------------------------------------------------------
(* The XMA decoder. *)

(* The inductive invariant: the types, OneOwner, the flags of a context in   *)
(* terms of one another, the kick and the handshake of a pause.              *)

XmaTypes ==
  /\ context_bitmap_ \in SUBSET Contexts
  /\ is_allocated \in [Contexts -> BOOLEAN] /\ is_enabled \in [Contexts -> BOOLEAN]
  /\ buffer_valid \in [Contexts -> BOOLEAN] /\ kicked \in [Contexts -> BOOLEAN]
  /\ work_event \in BOOLEAN
  /\ guest \in [Guests -> {"idle", "allocate", "release", "signal"}]
  /\ own \in [Guests -> Contexts \union {NoContext}]
  /\ worker \in {"loop", "look", "lock", "decode", "pause?", "pause", "paused", "sleep", "exited"}
  /\ n \in Contexts
  /\ worker_running \in BOOLEAN /\ paused \in BOOLEAN
  /\ pause_fence \in BOOLEAN /\ resume_fence \in BOOLEAN
  /\ control \in {"running", "awaitFence", "paused", "resume", "resumeLast", "wake", "join",
                  "shutDown"}

CallsOwn == \A g \in Guests : guest[g] # "idle" => own[g] # NoContext

FlagsOfContext ==
  \A c \in Contexts :
    /\ buffer_valid[c] => is_allocated[c]
    /\ kicked[c] => is_enabled[c] /\ is_allocated[c]
    /\ is_allocated[c] => \E g \in Guests : own[g] = c

Stopped == worker = "paused" /\ ~resume_fence /\ ~pause_fence

Handshake ==
  /\ pause_fence => worker = "paused" /\ control = "awaitFence" /\ ~resume_fence
  /\ resume_fence => worker = "paused"
  /\ paused => control \in {"awaitFence", "paused", "wake"}
  /\ worker = "pause" => control = "awaitFence" /\ ~pause_fence
  /\ control \in {"paused", "resume", "resumeLast"} => Stopped
  /\ control = "wake" /\ paused => Stopped

XmaInv ==
  /\ XmaTypes /\ CallsOwn /\ FlagsOfContext /\ OneOwner /\ DecodesAllocated /\ NoKickLost
  /\ Handshake

LEMMA ContextFacts == NoContext \notin Contexts /\ \E N \in Nat : Contexts = 0 .. N
<1>1. kContextCount - 1 \in Nat BY ContextAssumption
<1> QED BY <1>1, ContextAssumption DEF Contexts

LEMMA InitXmaInv == XmaInit => XmaInv
<1> SUFFICES ASSUME XmaInit PROVE XmaInv OBVIOUS
<1> USE ContextFacts
<1>1. XmaTypes
  <2>1. 0 \in Contexts OBVIOUS
  <2> QED BY <2>1 DEF XmaInit, XmaTypes
<1>2. CallsOwn /\ FlagsOfContext /\ OneOwner BY DEF XmaInit, CallsOwn, FlagsOfContext, OneOwner
<1>3. DecodesAllocated /\ NoKickLost /\ Handshake
  BY DEF XmaInit, DecodesAllocated, NoKickLost, Handshake, Stopped
<1> QED BY <1>1, <1>2, <1>3 DEF XmaInv

LEMMA GuestStep ==
  ASSUME XmaInv, NEW g \in Guests, Call(g) \/ Return(g)
  PROVE  XmaInv'
<1>0. NoContext \notin Contexts BY ContextFacts
<1> USE <1>0 DEF XmaInv, XmaTypes, CallsOwn, FlagsOfContext, OneOwner, Handshake, Stopped,
            DecodesAllocated, NoKickLost, Ahead, GuestGoes, Locked, Call, Return,
            contexts, hosts, guests, decoder
<1>1. CASE AcquireContext(g)
  <2>1. PICK c \in context_bitmap_ :
          /\ own' = [own EXCEPT ![g] = c]
          /\ context_bitmap_' = context_bitmap_ \ {c}
    BY <1>1 DEF AcquireContext
  <2> QED BY <1>1, <2>1 DEF AcquireContext
<1>2. CASE Allocate(g) BY <1>2 DEF Allocate
<1>3. CASE ReleaseContext(g) BY <1>3 DEF ReleaseContext
<1>4. CASE FreeContext(g) BY <1>4 DEF FreeContext
<1>5. CASE SetBufferValid(g) BY <1>5 DEF SetBufferValid
<1>6. CASE Enable(g) BY <1>6 DEF Enable
<1>7. CASE Disable(g) BY <1>7 DEF Disable
<1>8. CASE SignalWork(g) BY <1>8 DEF SignalWork
<1> QED BY <1>1, <1>2, <1>3, <1>4, <1>5, <1>6, <1>7, <1>8

LEMMA WorkerStep ==
  ASSUME XmaInv, Work
  PROVE  XmaInv'
<1> USE DEF XmaInv, XmaTypes, CallsOwn, FlagsOfContext, OneOwner, Handshake, Stopped,
            DecodesAllocated, NoKickLost, Ahead, WorkerGoes, contexts, hosts, guests
<1>1. PICK N \in Nat : Contexts = 0 .. N BY ContextFacts
<1>2. n \in 0 .. N BY <1>1
<1>3. CASE Loop BY <1>1, <1>3 DEF Loop
<1>4. CASE Skip
  <2>1. ~kicked[n] BY <1>4 DEF Skip
  <2> QED BY <1>1, <1>2, <1>4, <2>1 DEF Skip, Advance
<1>5. CASE Enter BY <1>1, <1>2, <1>5 DEF Enter
<1>6. CASE Lock
  <2>1. CASE buffer_valid[n] BY <1>1, <1>2, <1>6, <2>1 DEF Lock
  <2>2. CASE ~buffer_valid[n] BY <1>1, <1>2, <1>6, <2>2 DEF Lock, Advance
  <2> QED BY <2>1, <2>2
<1>7. CASE Decode
  <2>1. PICK valid \in BOOLEAN : buffer_valid' = [buffer_valid EXCEPT ![n] = valid]
    BY <1>7 DEF Decode
  <2>2. is_allocated[n] BY <1>7 DEF Decode
  <2>3. CASE n + 1 \in Contexts
    <3>1. n' = n + 1 /\ worker' = "look" BY <1>7, <2>3 DEF Decode, Advance
    <3>2. NoKickLost' BY <1>1, <1>2, <1>7, <3>1 DEF Decode
    <3> QED BY <1>7, <2>1, <2>2, <2>3, <3>1, <3>2 DEF Decode
  <2>4. CASE n + 1 \notin Contexts
    <3>1. n' = 0 /\ worker' = "pause?" /\ 0 \in Contexts
      BY <1>1, <1>7, <2>4 DEF Decode, Advance
    <3>2. NoKickLost' BY <1>1, <1>2, <1>7, <2>4, <3>1 DEF Decode
    <3> QED BY <1>7, <2>1, <2>2, <3>1, <3>2 DEF Decode
  <2> QED BY <2>3, <2>4
<1>8. CASE SeePaused BY <1>8 DEF SeePaused
<1>9. CASE SignalPaused BY <1>9 DEF SignalPaused
<1>10. CASE WakeForResume BY <1>10 DEF WakeForResume
<1>11. CASE WakeForWork BY <1>11 DEF WakeForWork
<1> QED
  BY <1>3, <1>4, <1>5, <1>6, <1>7, <1>8, <1>9, <1>10, <1>11 DEF Work

LEMMA HostStep ==
  ASSUME XmaInv, Finish \/ Pause \/ Resume \/ Shutdown \/ UNCHANGED xmaVars
  PROVE  XmaInv'
<1> USE DEF XmaInv, XmaTypes, CallsOwn, FlagsOfContext, OneOwner, Handshake, Stopped,
            DecodesAllocated, NoKickLost, Ahead, ControlGoes, contexts, guests, decoder, others
<1>1. CASE Pause BY <1>1 DEF Pause
<1>2. CASE WaitForFence BY <1>2 DEF WaitForFence
<1>3. CASE Resume BY <1>3 DEF Resume
<1>4. CASE SignalResume BY <1>4 DEF SignalResume
<1>5. CASE Shutdown BY <1>5 DEF Shutdown
<1>6. CASE WakeUp BY <1>6 DEF WakeUp
<1>7. CASE Join BY <1>7 DEF Join
<1>8. CASE UNCHANGED xmaVars BY <1>8 DEF xmaVars, hosts
<1> QED BY <1>1, <1>2, <1>3, <1>4, <1>5, <1>6, <1>7, <1>8 DEF Finish

LEMMA XmaInvariant == XmaSpec => []XmaInv
<1>1. XmaInit => XmaInv BY InitXmaInv
<1>2. XmaInv /\ [XmaNext]_xmaVars => XmaInv'
  BY GuestStep, WorkerStep, HostStep DEF XmaNext
<1> QED BY <1>1, <1>2, PTL DEF XmaSpec

-----------------------------------------------------------------------------

(* Whoever gets a context from the bit map is its only owner and finds it    *)
(* not allocated, as AllocateContext and ReleaseContext assert; and the       *)
(* worker, which tests is_allocated before it has the context's lock, decodes *)
(* only a context that is allocated.                                         *)
THEOREM ContextsAreOwned == XmaSpec => []ContextsAreApart
<1>1. XmaInv => ContextsAreApart BY DEF XmaInv, ContextsAreApart
<1> QED BY <1>1, XmaInvariant, PTL

(* A kick that is not answered is one the worker has still to come to, or    *)
(* its event is set or is about to be.                                       *)
THEOREM KicksAreKept == XmaSpec => []NoKickLost
<1>1. XmaInv => NoKickLost BY DEF XmaInv
<1> QED BY <1>1, XmaInvariant, PTL

(* From the return of Pause to Resume the worker decodes nothing.            *)
THEOREM PauseIsQuiet == XmaSpec => []QuietWhilePaused
<1>1. XmaInv => QuietWhilePaused BY DEF XmaInv, Handshake, Stopped, QuietWhilePaused
<1> QED BY <1>1, XmaInvariant, PTL

-----------------------------------------------------------------------------
(* Loops: a function that is defined by its value at some places and, at the *)
(* others, by its value at a place of lower rank.                            *)

LEMMA LeastNumber ==
  ASSUME NEW S, S \subseteq Nat, S # {}
  PROVE  \E i \in S : \A m \in S : i <= m
<1> DEFINE R == {p \in Nat \X Nat : p[1] < p[2]}
<1>1. IsWellFoundedOn(R, Nat) BY NatLessThanWellFounded DEF OpToRel
<1>2. PICK i \in S : \A m \in S : <<m, i>> \notin R BY <1>1, WFMin
<1>3. ASSUME NEW m \in S, m < i PROVE FALSE
  <2>1. <<m, i>> \in Nat \X Nat /\ <<m, i>>[1] = m /\ <<m, i>>[2] = i OBVIOUS
  <2>2. <<m, i>> \in R BY <2>1, <1>3
  <2> QED BY <2>2, <1>2
<1>4. \A m \in S : ~(m < i) BY <1>3
<1>5. \A m \in S : i <= m
  <2>1. i \in Nat /\ \A m \in S : m \in Nat OBVIOUS
  <2> QED BY <2>1, <1>4
<1> QED BY <1>5

\* What holds wherever it holds at the next place holds everywhere.
LEMMA LoopInduction ==
  ASSUME NEW D, NEW rank \in [D -> Nat], NEW next \in [D -> D], NEW G,
         \A b \in D : b \in G \/ (rank[next[b]] < rank[b] /\ (next[b] \in G => b \in G))
  PROVE  D \subseteq G
<1> SUFFICES ASSUME NEW c \in D, c \notin G PROVE FALSE
  OBVIOUS
<1> DEFINE S == {rank[b] : b \in D \ G}
<1>1. S \subseteq Nat /\ S # {} OBVIOUS
<1>2. PICK i \in S : \A m \in S : i <= m
  <2> HIDE DEF S
  <2> QED BY <1>1, LeastNumber
<1>3. PICK b \in D \ G : i = rank[b] OBVIOUS
<1>4. rank[next[b]] < rank[b] /\ next[b] \in D \ G BY <1>3
<1>5. rank[next[b]] \in S BY <1>4
<1>6. rank[next[b]] \in Nat /\ rank[b] \in Nat BY <1>3
<1> QED BY <1>2, <1>3, <1>4, <1>5, <1>6

\* A loop over D: it stops at some places, with a value, and goes on at the others,
\* where its rank is less.
LoopOver(D, N, rank, stop, V, val, next) ==
  /\ N \in Nat /\ rank \in [D -> 0 .. N] /\ val \in [D -> V] /\ next \in [D -> D]
  /\ \A b \in D : b \in stop \/ rank[next[b]] < rank[b]

\* There is such a function.
LEMMA LoopExists ==
  ASSUME NEW D, NEW N, NEW rank, NEW stop, NEW V, NEW val, NEW next,
         LoopOver(D, N, rank, stop, V, val, next)
  PROVE  \E f \in [D -> V] : \A b \in D : f[b] = IF b \in stop THEN val[b] ELSE f[next[b]]
<1>0. /\ N \in Nat /\ rank \in [D -> 0 .. N] /\ val \in [D -> V] /\ next \in [D -> D]
      /\ \A b \in D : b \in stop \/ rank[next[b]] < rank[b]
  BY DEF LoopOver
<1> USE <1>0
<1> DEFINE Part(i) == {b \in D : rank[b] < i}
           Solves(f, i) == \A b \in Part(i) : f[b] = IF b \in stop THEN val[b] ELSE f[next[b]]
           S == {i \in Nat : ~\E f \in [Part(i) -> V] : Solves(f, i)}
<1>1. CASE S = {}
  <2>1. PICK f \in [Part(N + 1) -> V] : Solves(f, N + 1)
    <3>1. N + 1 \in Nat OBVIOUS
    <3>2. N + 1 \notin S
      <4> HIDE DEF S
      <4> QED BY <1>1
    <3> HIDE DEF Solves, Part
    <3> QED BY <3>1, <3>2
  <2>2. Part(N + 1) = D
    <3>1. \A b \in D : rank[b] \in 0 .. N OBVIOUS
    <3> QED BY <3>1
  <2> QED BY <2>1, <2>2
<1>2. CASE S # {}
  <2>1. PICK i \in S : \A m \in S : i <= m
    <3>1. S \subseteq Nat OBVIOUS
    <3> HIDE DEF S
    <3> QED BY <3>1, <1>2, LeastNumber
  <2>2. i \in Nat /\ ~\E f \in [Part(i) -> V] : Solves(f, i) OBVIOUS
  <2>3. i # 0
    <3> SUFFICES ASSUME i = 0 PROVE FALSE OBVIOUS
    <3>1. Part(0) = {} OBVIOUS
    <3> DEFINE e == [b \in Part(0) |-> val[b]]
    <3>2. e \in [Part(0) -> V] BY <3>1
    <3>3. Solves(e, 0) BY <3>1
    <3> QED BY <2>2, <3>2, <3>3
  <2>4. i - 1 \in Nat /\ i - 1 \notin S
    <3>1. i - 1 \in Nat /\ ~(i <= i - 1) BY <2>2, <2>3
    <3> HIDE DEF S
    <3> QED BY <2>1, <3>1
  <2>5. PICK f \in [Part(i - 1) -> V] : Solves(f, i - 1) BY <2>4
  <2> DEFINE g == [b \in Part(i) |-> IF b \in stop THEN val[b] ELSE f[next[b]]]
  <2>6. \A b \in Part(i) : b \in stop \/ next[b] \in Part(i - 1)
    <3> TAKE b \in Part(i)
    <3>1. rank[b] \in Nat /\ rank[next[b]] \in Nat /\ rank[b] < i OBVIOUS
    <3> QED BY <3>1, <2>2
  <2>7. g \in [Part(i) -> V] BY <2>5, <2>6
  <2>8. \A b \in Part(i - 1) : b \in Part(i) /\ g[b] = f[b]
    <3> TAKE b \in Part(i - 1)
    <3>1. rank[b] \in Nat /\ rank[b] < i - 1 OBVIOUS
    <3>2. b \in Part(i) BY <3>1, <2>2
    <3> QED BY <3>2, <2>5
  <2>9. Solves(g, i) BY <2>6, <2>8
  <2> QED BY <2>2, <2>7, <2>9
<1> QED BY <1>1, <1>2

-----------------------------------------------------------------------------
(* Alignment. *)

LEMMA Multiples ==
  ASSUME NEW s \in Nat \ {0}
  PROVE  /\ \A i \in Int : i % s \in 0 .. s - 1 /\ (i - (i % s)) % s = 0
         /\ \A a, b \in Int : a % s = 0 /\ b % s = 0 =>
              (a + b) % s = 0 /\ (a - b) % s = 0 /\ (a < b => a + s <= b)
         /\ s % s = 0 /\ 0 % s = 0
<1>1. \A i \in Int : i % s \in 0 .. s - 1 /\ i = s * (i \div s) + (i % s) /\ i \div s \in Int
  OBVIOUS
<1>2. \A k \in Int : (k * s) % s = 0 OBVIOUS
<1>3. \A i \in Int : (i - (i % s)) % s = 0 OBVIOUS
<1>4. ASSUME NEW a \in Int, NEW b \in Int, a % s = 0, b % s = 0
      PROVE  (a + b) % s = 0 /\ (a - b) % s = 0 /\ (a < b => a + s <= b)
  <2>0. \A i \in Int : i % s = 0 => i = (i \div s) * s /\ i \div s \in Int
    <3>1. \A i \in Int : i \div s \in Int /\ i = s * (i \div s) + (i % s) BY <1>1
    <3>2. \A q \in Int : s * q = q * s OBVIOUS
    <3> QED BY <3>1, <3>2
  <2>1. PICK k \in Int : a = k * s BY <2>0, <1>4
  <2>2. PICK m \in Int : b = m * s BY <2>0, <1>4
  <2>3. a + b = (k + m) * s /\ a - b = (k - m) * s BY <2>1, <2>2
  <2>4. k + m \in Int /\ k - m \in Int OBVIOUS
  <2>5. (a + b) % s = 0 /\ (a - b) % s = 0 BY <1>2, <2>3, <2>4
  <2>6. a < b => a + s <= b BY <2>1, <2>2
  <2> QED BY <2>5, <2>6
<1>5. s % s = 0 /\ 0 % s = 0
  <2>1. (1 * s) % s = 0 /\ (0 * s) % s = 0 BY <1>2
  <2> QED BY <2>1
<1> QED BY <1>1, <1>3, <1>4, <1>5

\* AlignDown(i) is the last multiple up to i, RoundUp(i) the first from i on.
LEMMA Alignment ==
  ASSUME NEW s \in Nat \ {0}, NEW i \in Int
  PROVE  /\ AlignDown(i, s) \in Int /\ AlignDown(i, s) % s = 0
         /\ AlignDown(i, s) <= i /\ i < AlignDown(i, s) + s
         /\ RoundUp(i, s) \in Int /\ RoundUp(i, s) % s = 0
         /\ i <= RoundUp(i, s) /\ RoundUp(i, s) < i + s
         /\ \A a \in Int : a % s = 0 => /\ a <= i <=> a <= AlignDown(i, s)
                                        /\ i <= a <=> RoundUp(i, s) <= a
<1>1. \A m \in Int : /\ AlignDown(m, s) \in Int /\ AlignDown(m, s) % s = 0
                     /\ AlignDown(m, s) <= m /\ m < AlignDown(m, s) + s
  <2> TAKE m \in Int
  <2>1. m % s \in 0 .. s - 1 /\ (m - (m % s)) % s = 0 BY Multiples
  <2>2. m % s \in Int /\ 0 <= m % s /\ m % s < s BY <2>1
  <2>3. AlignDown(m, s) = m - (m % s) BY DEF AlignDown
  <2>4. AlignDown(m, s) % s = 0 BY <2>1, <2>3
  <2> QED BY <2>2, <2>3, <2>4
<1>2. i + s - 1 \in Int /\ RoundUp(i, s) = AlignDown(i + s - 1, s) BY DEF RoundUp
<1>3. ASSUME NEW a \in Int, a % s = 0
      PROVE  (a <= i <=> a <= AlignDown(i, s)) /\ (i <= a <=> RoundUp(i, s) <= a)
  <2>1. AlignDown(i, s) < a => AlignDown(i, s) + s <= a BY <1>1, <1>3, Multiples
  <2>2. a < RoundUp(i, s) => a + s <= RoundUp(i, s) BY <1>1, <1>2, <1>3, Multiples
  <2>3. a <= i <=> a <= AlignDown(i, s) BY <1>1, <2>1
  <2>4. i <= a <=> RoundUp(i, s) <= a BY <1>1, <1>2, <2>2
  <2> QED BY <2>3, <2>4
<1>4. RoundUp(i, s) \in Int /\ RoundUp(i, s) % s = 0 BY <1>1, <1>2
<1>5. i <= RoundUp(i, s) /\ RoundUp(i, s) < i + s BY <1>1, <1>2
<1> QED BY <1>1, <1>3, <1>4, <1>5

-----------------------------------------------------------------------------
(* The search of AllocRange, in any page table.                             *)

LEMMA FirstTakenFacts ==
  ASSUME NEW base \in Int, NEW count \in Nat, ~AllFree(base, count)
  PROVE  /\ FirstTaken(base, count) \in Span(base, count) /\ ~IsFree(FirstTaken(base, count))
         /\ \A p \in base .. FirstTaken(base, count) - 1 : IsFree(p)
<1> DEFINE S == {p \in Span(base, count) : ~IsFree(p)}
           T == {p - base : p \in S}
<1>1. /\ S # {} /\ S \subseteq Int
      /\ \A p \in S : p \in Span(base, count) /\ ~IsFree(p) /\ base <= p
  BY DEF AllFree, Span
<1>2. T # {} /\ T \subseteq Nat BY <1>1
<1>3. PICK i \in T : \A m \in T : i <= m
  <2> HIDE DEF T
  <2> QED BY <1>2, LeastNumber
<1>4. PICK q \in S : i = q - base OBVIOUS
<1>5. \A p \in S : q <= p
  <2> TAKE p \in S
  <2>1. p - base \in T OBVIOUS
  <2>2. q - base <= p - base BY <1>3, <1>4, <2>1
  <2> QED BY <1>1, <2>2
<1>6. FirstTaken(base, count) \in S /\ \A p \in S : FirstTaken(base, count) <= p
  <2>1. FirstTaken(base, count) = CHOOSE x \in S : \A y \in S : x <= y
    BY DEF FirstTaken, Min
  <2> HIDE DEF S
  <2> QED BY <1>5, <2>1
<1>7. ASSUME NEW p \in base .. FirstTaken(base, count) - 1 PROVE IsFree(p)
  <2>1. p \notin S /\ p \in Span(base, count)
    <3> DEFINE ft == FirstTaken(base, count)
    <3>1. ft \in Int /\ ft < base + count BY <1>6 DEF Span
    <3> HIDE DEF ft
    <3>2. p \in Int /\ p < ft /\ base <= p BY <3>1, <1>7 DEF ft
    <3>3. ~(ft <= p) BY <3>1, <3>2
    <3>4. p \in Span(base, count) BY <3>1, <3>2 DEF Span
    <3> QED BY <1>6, <3>3, <3>4 DEF ft
  <2> QED BY <2>1
<1> QED BY <1>1, <1>6, <1>7

\* Where count pages fit between low and high.
Places(low, high, count, stride) ==
  {b \in Int : /\ low <= b /\ b % stride = 0 /\ b + count <= high /\ AllFree(b, count)}

\* TopDown has the highest place: below the page it looks at there is each that fits.
LEMMA TopDownFinds ==
  ASSUME HeapAssumption, NEW stride \in Nat \ {0}, stride <= PageCount,
         NEW count \in Nat \ {0}, NEW low \in Nat, NEW high \in Nat,
         low % stride = 0, high % stride = 0, RoundUp(count, stride) <= high
  PROVE  LET v == TopDown(low, high, count, stride)
             F == Places(low, high, count, stride)
         IN  IF v = NotFound THEN F = {} ELSE v \in F /\ \A c \in F : c <= v
<1> DEFINE D == -PageCount .. high
           v == TopDown(low, high, count, stride)
           F == Places(low, high, count, stride)
           start == high - RoundUp(count, stride)
           body(f, base) ==
             IF base < low THEN NotFound
             ELSE IF ~IsFree(base) THEN f[base - stride]
             ELSE IF AllFree(base, count) THEN base
             ELSE LET taken == FirstTaken(base, count) IN
                    IF count > taken THEN NotFound ELSE f[BaseBelow(taken, count, stride)]
           from == CHOOSE f : f = [base \in D |-> body(f, base)]
           Stops(b) == b < low \/ (IsFree(b) /\ (AllFree(b, count)
                                                  \/ count > FirstTaken(b, count)))
           stop == {b \in D : Stops(b)}
           val == [b \in D |-> IF b >= low /\ AllFree(b, count) THEN b ELSE NotFound]
           Go(b) == IF ~IsFree(b) THEN b - stride
                    ELSE BaseBelow(FirstTaken(b, count), count, stride)
           next == [b \in D |-> IF Stops(b) THEN b ELSE Go(b)]
           rank == [b \in D |-> b + PageCount]
<1>1. v = from[start] BY DEF TopDown
<1>2. PageCount \in Nat BY DEF HeapAssumption
<1>3. ASSUME NEW b \in D, ~Stops(b)
      PROVE  Go(b) \in D /\ Go(b) < b /\ (b % stride = 0 => Go(b) % stride = 0)
  <2>1. CASE ~IsFree(b)
    <3>1. Go(b) = b - stride BY <2>1
    <3>2. b \in Int /\ stride \in Int /\ stride % stride = 0
      <4>1. stride % stride = 0 BY Multiples
      <4> QED BY <1>2, <4>1
    <3>3. b % stride = 0 => (b - stride) % stride = 0
      <4> HIDE DEF D
      <4> QED BY <3>2, Multiples
    <3> QED BY <1>2, <1>3, <3>1, <3>3
  <2>2. CASE IsFree(b)
    <3> DEFINE taken == FirstTaken(b, count)
    <3>1. Go(b) = AlignDown(taken - count, stride) BY <2>2 DEF BaseBelow
    <3>2. taken \in b .. b + count - 1 /\ count <= taken
      BY <1>3, <2>2, FirstTakenFacts DEF Span
    <3>3. taken \in Int BY <3>2
    <3> HIDE DEF taken
    <3>4. taken - count \in Int /\ 0 <= taken - count /\ taken - count < b BY <3>2, <3>3
    <3>5. /\ AlignDown(taken - count, stride) \in Int
          /\ AlignDown(taken - count, stride) % stride = 0
          /\ AlignDown(taken - count, stride) <= taken - count
          /\ 0 <= AlignDown(taken - count, stride)
      BY <3>4, Alignment, Multiples
    <3> HIDE DEF Go
    <3> QED BY <1>2, <3>1, <3>4, <3>5
  <2> QED BY <2>1, <2>2
<1> HIDE DEF Go
<1>4. /\ next \in [D -> D] /\ rank \in [D -> Nat]
      /\ \A b \in D : Stops(b) \/ (next[b] = Go(b) /\ rank[next[b]] < rank[b])
  <2>1. next \in [D -> D] BY <1>3
  <2>2. rank \in [D -> Nat] BY <1>2
  <2>3. ASSUME NEW b \in D, ~Stops(b) PROVE next[b] = Go(b) /\ rank[next[b]] < rank[b]
    <3>1. next[b] = Go(b) /\ Go(b) \in D /\ Go(b) < b BY <1>3, <2>3
    <3> HIDE DEF next
    <3> QED BY <1>2, <3>1
  <2> QED BY <2>1, <2>2, <2>3
<1>5. \A f : \A b \in D : body(f, b) = IF Stops(b) THEN val[b] ELSE f[Go(b)]
  BY DEF Go
<1>6. \A b \in D : from[b] = IF Stops(b) THEN val[b] ELSE from[Go(b)]
  <2>1. \E f : f = [base \in D |-> body(f, base)]
    <3> DEFINE N == high + PageCount
    <3>1. N \in Nat /\ rank \in [D -> 0 .. N]  BY <1>2
    <3>2. val \in [D -> Int] BY DEF NotFound
    <3>3. \A b \in D : b \in stop \/ rank[next[b]] < rank[b] BY <1>4
    <3> HIDE DEF next, rank, val, stop, D, N
    <3>4. PICK f \in [D -> Int] :
            \A b \in D : f[b] = IF b \in stop THEN val[b] ELSE f[next[b]]
      <4>1. LoopOver(D, N, rank, stop, Int, val, next) BY <1>4, <3>1, <3>2, <3>3 DEF LoopOver
      <4> QED BY <4>1, LoopExists
    <3>5. \A b \in D : f[b] = IF Stops(b) THEN val[b] ELSE f[Go(b)]
      BY <1>4, <3>4 DEF stop
    <3> HIDE DEF body, Stops
    <3>6. f = [base \in D |-> body(f, base)] BY <1>5, <3>4, <3>5
    <3> QED BY <3>6
  <2>2. from = [base \in D |-> body(from, base)]
    <3> HIDE DEF body, D
    <3> QED BY <2>1
  <2> HIDE DEF from, body, val, Stops, D
  <2> QED BY <1>5, <2>2
<1> HIDE DEF from
<1> DEFINE Found(b) == IF from[b] = NotFound THEN \A c \in F : b < c
                       ELSE from[b] \in F /\ \A c \in F : c <= b => c <= from[b]
           G == {b \in D : b % stride = 0 /\ b + count <= high => Found(b)}
<1>7. \A c \in F : /\ c \in Int /\ low <= c /\ c % stride = 0 /\ c + count <= high
                   /\ AllFree(c, count)
  BY DEF Places
<1>8. ASSUME NEW b \in D, Stops(b) PROVE b \in G
  <2>1. from[b] = val[b] BY <1>6, <1>8
  <2>2. CASE b < low
    <3>1. from[b] = NotFound BY <2>1, <2>2
    <3>2. \A c \in F : b < c BY <1>7, <2>2
    <3> QED BY <3>1, <3>2
  <2>3. CASE b >= low /\ AllFree(b, count)
    <3>1. from[b] = b /\ b # NotFound BY <2>1, <2>3 DEF NotFound
    <3>2. b % stride = 0 /\ b + count <= high => b \in F BY <2>3 DEF Places
    <3> QED BY <3>1, <3>2
  <2>4. CASE b >= low /\ ~AllFree(b, count)
    <3> DEFINE taken == FirstTaken(b, count)
    <3>1. from[b] = NotFound BY <2>1, <2>4
    <3>2. count > taken /\ IsFree(b) BY <1>8, <2>4
    <3>3. taken \in b .. b + count - 1 /\ ~IsFree(taken) BY <2>4, FirstTakenFacts DEF Span
    <3>4. \A c \in F : ~(c <= b)
      <4> SUFFICES ASSUME NEW c \in F, c <= b PROVE FALSE OBVIOUS
      <4> HIDE DEF taken
      <4>1. c \in Int /\ 0 <= c /\ AllFree(c, count) BY <1>7
      <4>2. taken \in Int /\ b <= taken BY <3>3
      <4>3. taken \in Span(c, count) BY <3>2, <4>1, <4>2 DEF Span
      <4> QED BY <3>3, <4>1, <4>3 DEF AllFree
    <3>5. \A c \in F : b < c BY <1>7, <3>4
    <3> QED BY <3>1, <3>5
  <2> QED BY <1>8, <2>2, <2>3, <2>4
<1>9. ASSUME NEW b \in D, ~Stops(b), Go(b) \in G PROVE b \in G
  <2> SUFFICES ASSUME b % stride = 0, b + count <= high PROVE Found(b) OBVIOUS
  <2>1. from[b] = from[Go(b)] BY <1>6, <1>9
  <2>2. Go(b) \in D /\ Go(b) < b /\ Go(b) % stride = 0 BY <1>3, <1>9
  <2>3. Found(Go(b))
    <3>1. Go(b) + count <= high BY <2>2
    <3> QED BY <1>9, <2>2, <3>1
  <2>4. \A c \in F : c <= b => c <= Go(b)
    <3> SUFFICES ASSUME NEW c \in F, c <= b PROVE c <= Go(b) OBVIOUS
    <3>1. c \in Int /\ low <= c /\ c % stride = 0 /\ AllFree(c, count) BY <1>7
    <3>2. CASE ~IsFree(b)
      <4>1. c # b
        <5>1. c \in Span(c, count) BY <3>1 DEF Span
        <5> QED BY <3>1, <3>2, <5>1 DEF AllFree
      <4>2. c + stride <= b
        <5>1. b \in Int /\ c < b BY <1>2, <3>1, <4>1
        <5> HIDE DEF D, F
        <5> QED BY <3>1, <5>1, Multiples
      <4>3. Go(b) = b - stride BY <3>2 DEF Go
      <4> QED BY <3>1, <4>2, <4>3
    <3>3. CASE IsFree(b)
      <4> DEFINE taken == FirstTaken(b, count)
      <4>1. Go(b) = AlignDown(taken - count, stride) BY <3>3 DEF BaseBelow, Go
      <4>2. /\ taken \in b .. b + count - 1 /\ ~IsFree(taken) /\ count <= taken
        BY <1>9, <3>3, FirstTakenFacts DEF Span
      <4> HIDE DEF taken
      <4>3. taken \notin Span(c, count) /\ taken \in Int /\ b <= taken
        BY <3>1, <4>2 DEF AllFree
      <4>4. c <= taken - count /\ taken - count \in Int BY <3>1, <4>3 DEF Span
      <4> QED BY <3>1, <4>1, <4>4, Alignment
    <3> QED BY <3>2, <3>3
  <2>5. \A c \in F : c \in Int BY <1>7
  <2>6. CASE from[b] = NotFound
    <3>1. \A c \in F : Go(b) < c BY <2>1, <2>3, <2>6
    <3>2. \A c \in F : b < c BY <2>2, <2>4, <2>5, <3>1
    <3> QED BY <2>6, <3>2
  <2>7. CASE from[b] # NotFound
    <3>1. from[b] \in F /\ \A c \in F : c <= Go(b) => c <= from[b] BY <2>1, <2>3, <2>7
    <3> QED BY <2>4, <2>7, <3>1
  <2> QED BY <2>6, <2>7
<1>10. D \subseteq G
  <2>1. \A b \in D : b \in G \/ (rank[next[b]] < rank[b] /\ (next[b] \in G => b \in G))
    <3> HIDE DEF G, next, rank, Stops, D
    <3> QED BY <1>4, <1>8, <1>9
  <2> HIDE DEF G, next, rank, D
  <2> QED BY <1>4, <2>1, LoopInduction
<1>11. /\ start \in D /\ start % stride = 0 /\ start + count <= high
       /\ \A c \in F : c <= start
  <2>1. /\ RoundUp(count, stride) \in Int /\ RoundUp(count, stride) % stride = 0
        /\ count <= RoundUp(count, stride)
        /\ \A a \in Int : a % stride = 0 => (count <= a <=> RoundUp(count, stride) <= a)
    <3>1. count \in Int OBVIOUS
    <3> QED BY <3>1, Alignment
  <2>2. start \in Int /\ start % stride = 0
    <3> DEFINE r == RoundUp(count, stride)
    <3>1. r \in Int /\ r % stride = 0 /\ high \in Int BY <2>1
    <3>2. (high - r) % stride = 0
      <4> HIDE DEF r
      <4> QED BY <3>1, Multiples
    <3> QED BY <3>1, <3>2
  <2>3. start \in D /\ start + count <= high BY <1>2, <2>1, <2>2
  <2>4. ASSUME NEW c \in F PROVE c <= start
    <3>1. c \in Int /\ c % stride = 0 /\ c + count <= high BY <1>7
    <3>2. high - c \in Int /\ (high - c) % stride = 0 /\ count <= high - c
      <4>1. high \in Int OBVIOUS
      <4> HIDE DEF F
      <4> QED BY <3>1, <4>1, Multiples
    <3>3. RoundUp(count, stride) <= high - c BY <2>1, <3>2
    <3> QED BY <2>1, <3>1, <3>3
  <2> QED BY <2>2, <2>3, <2>4
<1>12. Found(start)
  <2> HIDE DEF start, Found
  <2> QED BY <1>10, <1>11
<1>13. CASE from[start] = NotFound
  <2>1. \A c \in F : start < c BY <1>12, <1>13
  <2>2. \A c \in F : c \in Int /\ c <= start BY <1>7, <1>11
  <2>3. start \in Int BY <1>11
  <2>4. F = {}
    <3> HIDE DEF F, start
    <3> QED BY <2>1, <2>2, <2>3
  <2> QED BY <1>1, <1>13, <2>4
<1>14. CASE from[start] # NotFound
  <2>1. from[start] \in F /\ \A c \in F : c <= from[start] BY <1>11, <1>12, <1>14
  <2> QED BY <1>1, <1>14, <2>1
<1> HIDE DEF v, F
<1> QED BY <1>1, <1>13, <1>14

\* BottomUp has the lowest.
LEMMA BottomUpFinds ==
  ASSUME NEW stride \in Nat \ {0}, NEW count \in Nat \ {0},
         NEW low \in Nat, NEW high \in Nat, low <= high, low % stride = 0
  PROVE  LET v == BottomUp(low, high, count, stride)
             F == Places(low, high, count, stride)
         IN  IF v = NotFound THEN F = {} ELSE v \in F /\ \A c \in F : v <= c
<1> DEFINE D == low .. high + 2 * stride
           v == BottomUp(low, high, count, stride)
           F == Places(low, high, count, stride)
           body(f, base) ==
             IF base > high - count THEN NotFound
             ELSE IF ~IsFree(base) THEN f[base + stride]
             ELSE IF AllFree(base, count) THEN base
             ELSE f[RoundUp(FirstTaken(base, count) + 1, stride)]
           from == CHOOSE f : f = [base \in D |-> body(f, base)]
           Stops(b) == b > high - count \/ (IsFree(b) /\ AllFree(b, count))
           stop == {b \in D : Stops(b)}
           val == [b \in D |-> IF b > high - count THEN NotFound ELSE b]
           Go(b) == IF ~IsFree(b) THEN b + stride
                    ELSE RoundUp(FirstTaken(b, count) + 1, stride)
           next == [b \in D |-> IF Stops(b) THEN b ELSE Go(b)]
           rank == [b \in D |-> high + 2 * stride - b]
<1>1. v = from[low] BY DEF BottomUp
<1>2. \A b \in D : b \in Int /\ low <= b OBVIOUS
<1>3. ASSUME NEW b \in D, ~Stops(b)
      PROVE  Go(b) \in D /\ b < Go(b) /\ (b % stride = 0 => Go(b) % stride = 0)
  <2>1. CASE ~IsFree(b)
    <3>1. Go(b) = b + stride BY <2>1
    <3>2. b \in Int /\ stride \in Int /\ stride % stride = 0
      <4>1. stride % stride = 0 BY Multiples
      <4> QED BY <4>1
    <3>3. b % stride = 0 => (b + stride) % stride = 0
      <4> HIDE DEF D
      <4> QED BY <3>2, Multiples
    <3> QED BY <1>3, <3>1, <3>3
  <2>2. CASE IsFree(b)
    <3> DEFINE taken == FirstTaken(b, count)
    <3>1. Go(b) = RoundUp(taken + 1, stride) BY <2>2
    <3>2. taken \in b .. b + count - 1
      BY <1>3, <2>2, FirstTakenFacts DEF Span
    <3>3. taken \in Int /\ b <= taken /\ taken + 1 <= high /\ taken + 1 \in Int
      BY <1>3, <3>2
    <3> HIDE DEF taken
    <3>4. /\ RoundUp(taken + 1, stride) \in Int
          /\ RoundUp(taken + 1, stride) % stride = 0
          /\ taken + 1 <= RoundUp(taken + 1, stride)
          /\ RoundUp(taken + 1, stride) < taken + 1 + stride
      BY <3>3, Alignment
    <3> HIDE DEF Go
    <3> QED BY <3>1, <3>3, <3>4
  <2> QED BY <2>1, <2>2
<1> HIDE DEF Go
<1>4. /\ next \in [D -> D] /\ rank \in [D -> Nat]
      /\ \A b \in D : Stops(b) \/ (next[b] = Go(b) /\ rank[next[b]] < rank[b])
  <2>1. next \in [D -> D] BY <1>3
  <2>2. rank \in [D -> Nat] OBVIOUS
  <2>3. ASSUME NEW b \in D, ~Stops(b) PROVE next[b] = Go(b) /\ rank[next[b]] < rank[b]
    <3>1. next[b] = Go(b) /\ Go(b) \in D /\ b < Go(b) BY <1>3, <2>3
    <3> HIDE DEF next
    <3> QED BY <3>1
  <2> QED BY <2>1, <2>2, <2>3
<1>5. \A f : \A b \in D : body(f, b) = IF Stops(b) THEN val[b] ELSE f[Go(b)]
  BY DEF Go
<1>6. \A b \in D : from[b] = IF Stops(b) THEN val[b] ELSE from[Go(b)]
  <2>1. \E f : f = [base \in D |-> body(f, base)]
    <3> DEFINE N == high + 2 * stride - low
    <3>1. N \in Nat /\ rank \in [D -> 0 .. N] OBVIOUS
    <3>2. val \in [D -> Int] BY DEF NotFound
    <3>3. \A b \in D : b \in stop \/ rank[next[b]] < rank[b] BY <1>4
    <3> HIDE DEF next, rank, val, stop, D, N
    <3>4. PICK f \in [D -> Int] :
            \A b \in D : f[b] = IF b \in stop THEN val[b] ELSE f[next[b]]
      <4>1. LoopOver(D, N, rank, stop, Int, val, next) BY <1>4, <3>1, <3>2, <3>3 DEF LoopOver
      <4> QED BY <4>1, LoopExists
    <3>5. \A b \in D : f[b] = IF Stops(b) THEN val[b] ELSE f[Go(b)]
      BY <1>4, <3>4 DEF stop
    <3> HIDE DEF body, Stops
    <3>6. f = [base \in D |-> body(f, base)] BY <1>5, <3>4, <3>5
    <3> QED BY <3>6
  <2>2. from = [base \in D |-> body(from, base)]
    <3> HIDE DEF body, D
    <3> QED BY <2>1
  <2> HIDE DEF from, body, val, Stops, D
  <2> QED BY <1>5, <2>2
<1> HIDE DEF from
<1> DEFINE Found(b) == IF from[b] = NotFound THEN \A c \in F : c < b
                       ELSE from[b] \in F /\ \A c \in F : b <= c => from[b] <= c
           G == {b \in D : b % stride = 0 => Found(b)}
<1>7. \A c \in F : /\ c \in Int /\ low <= c /\ c % stride = 0 /\ c + count <= high
                   /\ AllFree(c, count)
  BY DEF Places
<1>8. ASSUME NEW b \in D, Stops(b) PROVE b \in G
  <2>1. from[b] = val[b] BY <1>6, <1>8
  <2>2. CASE b > high - count
    <3>1. from[b] = NotFound BY <2>1, <2>2
    <3>2. \A c \in F : c < b BY <1>7, <2>2
    <3> QED BY <3>1, <3>2
  <2>3. CASE ~(b > high - count)
    <3>1. from[b] = b /\ b # NotFound BY <2>1, <2>3 DEF NotFound
    <3>2. b % stride = 0 => b \in F BY <1>8, <2>3 DEF Places
    <3> QED BY <3>1, <3>2
  <2> QED BY <2>2, <2>3
<1>9. ASSUME NEW b \in D, ~Stops(b), Go(b) \in G PROVE b \in G
  <2> SUFFICES ASSUME b % stride = 0 PROVE Found(b) OBVIOUS
  <2>1. from[b] = from[Go(b)] BY <1>6, <1>9
  <2>2. Go(b) \in D /\ b < Go(b) /\ Go(b) % stride = 0 BY <1>3, <1>9
  <2>3. Found(Go(b)) BY <1>9, <2>2
  <2>4. \A c \in F : b <= c => Go(b) <= c
    <3> SUFFICES ASSUME NEW c \in F, b <= c PROVE Go(b) <= c OBVIOUS
    <3>1. c \in Int /\ low <= c /\ c % stride = 0 /\ AllFree(c, count) BY <1>7
    <3>2. CASE ~IsFree(b)
      <4>1. c # b
        <5>1. c \in Span(c, count) BY <3>1 DEF Span
        <5> QED BY <3>1, <3>2, <5>1 DEF AllFree
      <4>2. b + stride <= c
        <5>1. b \in Int /\ b < c BY <3>1, <4>1
        <5> HIDE DEF D, F
        <5> QED BY <3>1, <5>1, Multiples
      <4>3. Go(b) = b + stride BY <3>2 DEF Go
      <4> QED BY <3>1, <4>2, <4>3
    <3>3. CASE IsFree(b)
      <4> DEFINE taken == FirstTaken(b, count)
      <4>1. Go(b) = RoundUp(taken + 1, stride) BY <3>3 DEF Go
      <4>2. taken \in b .. b + count - 1 /\ ~IsFree(taken)
        BY <1>9, <3>3, FirstTakenFacts DEF Span
      <4> HIDE DEF taken
      <4>3. taken \notin Span(c, count) /\ taken \in Int /\ taken <= b + count - 1
        BY <3>1, <4>2 DEF AllFree
      <4>4. taken + 1 <= c /\ taken + 1 \in Int BY <3>1, <4>3 DEF Span
      <4> QED BY <3>1, <4>1, <4>4, Alignment
    <3> QED BY <3>2, <3>3
  <2>5. \A c \in F : c \in Int BY <1>7
  <2>6. CASE from[b] = NotFound
    <3>1. \A c \in F : c < Go(b) BY <2>1, <2>3, <2>6
    <3>2. \A c \in F : c < b BY <2>2, <2>4, <2>5, <3>1
    <3> QED BY <2>6, <3>2
  <2>7. CASE from[b] # NotFound
    <3>1. from[b] \in F /\ \A c \in F : Go(b) <= c => from[b] <= c BY <2>1, <2>3, <2>7
    <3> QED BY <2>4, <2>7, <3>1
  <2> QED BY <2>6, <2>7
<1>10. D \subseteq G
  <2>1. \A b \in D : b \in G \/ (rank[next[b]] < rank[b] /\ (next[b] \in G => b \in G))
    <3> HIDE DEF G, next, rank, Stops, D
    <3> QED BY <1>4, <1>8, <1>9
  <2> HIDE DEF G, next, rank, D
  <2> QED BY <1>4, <2>1, LoopInduction
<1>11. Found(low)
  <2>1. low \in D OBVIOUS
  <2> HIDE DEF Found, D
  <2> QED BY <1>10, <2>1
<1>12. CASE from[low] = NotFound
  <2>1. \A c \in F : c < low BY <1>11, <1>12
  <2>2. \A c \in F : c \in Int /\ low <= c BY <1>7
  <2>3. F = {}
    <3> HIDE DEF F
    <3> QED BY <2>1, <2>2
  <2> QED BY <1>1, <1>12, <2>3
<1>13. CASE from[low] # NotFound
  <2>1. from[low] \in F /\ \A c \in F : low <= c => from[low] <= c BY <1>11, <1>13
  <2>2. \A c \in F : from[low] <= c BY <1>7, <2>1
  <2> QED BY <1>1, <1>13, <2>1, <2>2
<1> HIDE DEF v, F
<1> QED BY <1>1, <1>12, <1>13

\* What one search of the heap comes to.
LEMMA SearchFinds ==
  ASSUME HeapAssumption, NEW range \in Ranges, NEW count \in 1 .. PageCount,
         NEW stride \in Strides, NEW topDown \in BOOLEAN
  PROVE  LET v == Search(range, count, stride, topDown)
             F == Fits(range, count, stride)
         IN  IF v = NotFound THEN F = {}
             ELSE v \in F /\ \A c \in F : IF topDown THEN c <= v ELSE v <= c
<1> DEFINE low == RoundUp(range[1], stride)
           high == AlignDown(range[2], stride)
           v == Search(range, count, stride, topDown)
           F == Fits(range, count, stride)
<1>1. /\ PageCount \in Nat /\ count \in Nat \ {0} /\ stride \in Nat \ {0}
      /\ AllocEnd \in Nat /\ 0 < AllocEnd /\ AllocEnd <= PageCount - 1
      /\ SystemPage \in Nat /\ 0 < SystemPage /\ SystemPage <= PageCount - 1
      /\ AllocEnd % stride = 0 /\ SystemPage % stride = 0
  BY DEF HeapAssumption
<1>2. 0 \in Int /\ 0 % stride = 0 /\ stride <= SystemPage
  <2>1. 0 \in Int /\ 0 % stride = 0 /\ SystemPage \in Int BY <1>1, Multiples
  <2>2. 0 + stride <= SystemPage BY <1>1, <2>1, Multiples
  <2> QED BY <1>1, <2>2
<1>3. /\ range[1] \in Nat /\ range[1] % stride = 0
      /\ range[2] \in Nat /\ range[1] <= range[2] /\ range[2] <= PageCount - 1
      /\ \/ range[1] = 0 /\ range[2] = AllocEnd
         \/ range[1] = SystemPage /\ range[2] = PageCount - 1
  <2>1. CASE range = <<0, AllocEnd>>
    <3>1. range[1] = 0 /\ range[2] = AllocEnd BY <2>1
    <3> QED BY <1>1, <1>2, <3>1
  <2>2. CASE range = <<SystemPage, PageCount - 1>>
    <3>1. range[1] = SystemPage /\ range[2] = PageCount - 1 BY <2>2
    <3> QED BY <1>1, <3>1
  <2> QED BY <2>1, <2>2 DEF Ranges
<1>4. /\ low = range[1] /\ high \in Int /\ high % stride = 0 /\ high <= range[2]
      /\ \A a \in Int : a % stride = 0 => (a <= range[2] <=> a <= high)
  <2>1. range[1] \in Int /\ range[2] \in Int BY <1>3
  <2>2. /\ low \in Int /\ range[1] <= low
        /\ \A a \in Int : a % stride = 0 => (range[1] <= a <=> low <= a)
    <3> DEFINE i == range[1]
    <3>1. i \in Int BY <2>1
    <3> HIDE DEF i
    <3>2. /\ RoundUp(i, stride) \in Int /\ i <= RoundUp(i, stride)
          /\ \A a \in Int : a % stride = 0 => (i <= a <=> RoundUp(i, stride) <= a)
      BY <1>1, <3>1, Alignment
    <3> QED BY <3>2 DEF i
  <2>3. low = range[1]
    <3> HIDE DEF low
    <3> QED BY <1>3, <2>1, <2>2
  <2>4. /\ high \in Int /\ high % stride = 0 /\ high <= range[2]
        /\ \A a \in Int : a % stride = 0 => (a <= range[2] <=> a <= high)
    <3> DEFINE i == range[2]
    <3>1. i \in Int BY <2>1
    <3> HIDE DEF i
    <3>2. /\ AlignDown(i, stride) \in Int /\ AlignDown(i, stride) % stride = 0
          /\ AlignDown(i, stride) <= i
          /\ \A a \in Int : a % stride = 0 => (a <= i <=> a <= AlignDown(i, stride))
      BY <1>1, <3>1, Alignment
    <3> QED BY <3>2 DEF i
  <2> QED BY <2>3, <2>4
<1>5. v = IF count > range[2] - low THEN NotFound
          ELSE IF topDown THEN TopDown(low, high, count, stride)
          ELSE BottomUp(low, high, count, stride)
  BY DEF Search
<1> HIDE DEF low, high, v
<1>6. low \in Nat /\ low % stride = 0 /\ low <= high /\ high \in Nat
  <2>1. low \in Int BY <1>3, <1>4
  <2> QED BY <1>3, <1>4, <2>1
<1>7. F = Places(low, high, count, stride)
  <2>1. \A b : b \in F <=> /\ b \in Pages /\ b >= low /\ b % stride = 0
                           /\ b + count <= high /\ AllFree(b, count)
    BY <1>4 DEF Fits, high
  <2>2. ASSUME NEW b \in Int, low <= b, b + count <= high PROVE b \in Pages
    BY <1>1, <1>3, <1>4, <1>6, <2>2 DEF Pages
  <2>3. \A b \in Pages : b \in Int /\ (b >= low <=> low <= b) BY <1>6 DEF Pages
  <2>4. \A b : b \in Places(low, high, count, stride) <=>
                 /\ b \in Int /\ low <= b /\ b % stride = 0
                 /\ b + count <= high /\ AllFree(b, count)
    BY DEF Places
  <2> HIDE DEF F
  <2> QED BY <2>1, <2>2, <2>3, <2>4
<1> HIDE DEF F
<1>8. CASE count > range[2] - low
  <2>1. F = {}
    <3> SUFFICES ASSUME NEW b \in Places(low, high, count, stride) PROVE FALSE BY <1>7
    <3>1. b \in Int /\ low <= b /\ b + count <= high BY DEF Places
    <3> QED BY <1>1, <1>3, <1>4, <1>6, <1>8, <3>1
  <2>2. v = NotFound BY <1>5, <1>8
  <2> QED BY <2>1, <2>2 DEF v, F
<1>9. CASE ~(count > range[2] - low) /\ topDown
  <2>1. RoundUp(count, stride) <= high
    <3>1. /\ RoundUp(count, stride) \in Int /\ RoundUp(count, stride) % stride = 0
          /\ RoundUp(count, stride) < count + stride
          /\ \A a \in Int : a % stride = 0 => (count <= a <=> RoundUp(count, stride) <= a)
      <4>1. count \in Int BY <1>1
      <4> QED BY <1>1, <4>1, Alignment
    <3>2. RoundUp(count, stride) <= range[2]
      <4>1. CASE range[1] = 0 /\ range[2] = AllocEnd
        <5>1. count <= AllocEnd BY <1>1, <1>4, <1>9, <4>1
        <5>2. AllocEnd \in Int BY <1>1
        <5> QED BY <1>1, <3>1, <4>1, <5>1, <5>2
      <4>2. CASE range[1] = SystemPage /\ range[2] = PageCount - 1
        <5>1. count + stride <= PageCount - 1 BY <1>1, <1>2, <1>4, <1>9, <4>2
        <5> DEFINE r == RoundUp(count, stride)
        <5>2. r \in Int /\ r < count + stride BY <3>1
        <5> HIDE DEF r
        <5>3. r <= PageCount - 1 BY <1>1, <5>1, <5>2
        <5> QED BY <4>2, <5>3 DEF r
      <4> QED BY <1>3, <4>1, <4>2
    <3> QED BY <1>4, <3>1, <3>2
  <2>2. v = TopDown(low, high, count, stride) BY <1>5, <1>9
  <2>3. IF v = NotFound THEN F = {} ELSE v \in F /\ \A c \in F : c <= v
    <3>1. stride <= PageCount BY <1>1, <1>2
    <3> QED BY <1>1, <1>4, <1>6, <1>7, <2>1, <2>2, <3>1, TopDownFinds
  <2> QED BY <1>9, <2>3 DEF v, F
<1>10. CASE ~(count > range[2] - low) /\ ~topDown
  <2>1. v = BottomUp(low, high, count, stride) BY <1>5, <1>10
  <2>2. IF v = NotFound THEN F = {} ELSE v \in F /\ \A c \in F : v <= c
    BY <1>1, <1>6, <1>7, <2>1, BottomUpFinds
  <2> QED BY <1>10, <2>2 DEF v, F
<1> QED BY <1>8, <1>9, <1>10

LEMMA ExtremesAreUnique ==
  ASSUME NEW S, S \subseteq Int, NEW v \in S
  PROVE  /\ (\A c \in S : c <= v) => Max(S) = v
         /\ (\A c \in S : v <= c) => Min(S) = v
<1>1. ASSUME \A c \in S : c <= v PROVE Max(S) = v
  <2>1. Max(S) = CHOOSE x \in S : \A y \in S : x >= y BY DEF Max
  <2>2. \A y \in S : v >= y BY <1>1
  <2>3. Max(S) \in S /\ \A y \in S : Max(S) >= y BY <2>1, <2>2
  <2>4. Max(S) >= v /\ Max(S) <= v /\ Max(S) \in Int BY <1>1, <2>3
  <2> QED BY <2>4
<1>2. ASSUME \A c \in S : v <= c PROVE Min(S) = v
  <2>1. Min(S) = CHOOSE x \in S : \A y \in S : x <= y BY DEF Min
  <2>2. Min(S) \in S /\ \A y \in S : Min(S) <= y BY <1>2, <2>1
  <2>3. Min(S) <= v /\ v <= Min(S) /\ Min(S) \in Int BY <1>2, <2>2
  <2> QED BY <2>3
<1> QED BY <1>1, <1>2

\* However it skips, in whatever page table and with whatever alignment, the
\* search of AllocRange finds the highest, or lowest, place that fits.
THEOREM TheSearchIsFirstFit == HeapSpec => []FirstFit
<1>1. ASSUME HeapAssumption PROVE FirstFit
  <2> SUFFICES ASSUME NEW range \in Ranges, NEW count \in 1 .. PageCount, NEW stride \in Strides
               PROVE  LET fits == Fits(range, count, stride) IN
                        /\ Search(range, count, stride, TRUE) =
                             IF fits = {} THEN NotFound ELSE Max(fits)
                        /\ Search(range, count, stride, FALSE) =
                             IF fits = {} THEN NotFound ELSE Min(fits)
    BY DEF FirstFit
  <2> DEFINE F == Fits(range, count, stride)
             v(topDown) == Search(range, count, stride, topDown)
  <2>1. F \subseteq Int /\ NotFound \notin F BY DEF Fits, Pages, NotFound
  <2>2. \A topDown \in BOOLEAN :
          IF v(topDown) = NotFound THEN F = {}
          ELSE v(topDown) \in F /\ \A c \in F : IF topDown THEN c <= v(topDown)
                                                           ELSE v(topDown) <= c
    BY <1>1, SearchFinds
  <2> HIDE DEF F, v
  <2>3. v(TRUE) = IF F = {} THEN NotFound ELSE Max(F) BY <2>1, <2>2, ExtremesAreUnique
  <2>4. v(FALSE) = IF F = {} THEN NotFound ELSE Min(F) BY <2>1, <2>2, ExtremesAreUnique
  <2> QED BY <2>3, <2>4 DEF F, v
<1>2. FirstFit BY <1>1, HeapAssumption
<1> QED BY <1>2, PTL

-----------------------------------------------------------------------------
(* The regions of the page table.  The invariant adds to RegionsAreWhole that *)
(* the entry of a free page is blank, as Release takes an entry that names    *)
(* its own page for the first of a region; and that the regions of torn pages *)
(* hold torn pages only, so that none of them reaches into one that is whole. *)

Entry == [base : Nat, count : Nat, state : {"free", "reserved", "committed"}]

FreeIsBlank == \A p \in Pages : IsFree(p) => page_table_[p].base = 0

TornStaysTorn == \A p \in torn : ~IsFree(p) => RegionOf(p) \cap Pages \subseteq torn

HeapInv ==
  /\ page_table_ \in [Pages -> Entry] /\ torn \subseteq Pages
  /\ FreeIsBlank /\ TornStaysTorn /\ RegionsAreWhole

FreePages == {p \in Pages : IsFree(p)}

\* RegionsAreWhole, of one page.
IsWhole(p) ==
  /\ p \in RegionOf(p) /\ RegionOf(p) \subseteq Pages \ torn
  /\ \A q \in RegionOf(p) : /\ ~IsFree(q)
                            /\ page_table_[q].base = page_table_[p].base
                            /\ page_table_[q].count = page_table_[p].count

LEMMA Whole ==
  RegionsAreWhole <=>
    /\ \A p \in Pages \ torn : ~IsFree(p) => IsWhole(p)
    /\ torn = {} => unreserved_page_count_ = Cardinality(FreePages)
BY DEF RegionsAreWhole, IsWhole, FreePages

\* The pages of a whole region have one region.
LEMMA WholeIsShared ==
  ASSUME NEW p, IsWhole(p), NEW q \in RegionOf(p) PROVE RegionOf(q) = RegionOf(p)
BY DEF IsWhole, RegionOf

LEMMA CountsArePages ==
  ASSUME HeapAssumption
  PROVE  IsFiniteSet(Pages) /\ IsFiniteSet(FreePages) /\ Cardinality(FreePages) \in Nat
<1>1. 0 \in Int /\ PageCount - 1 \in Int BY DEF HeapAssumption
<1>2. IsFiniteSet(Pages) BY <1>1, FS_Interval DEF Pages
<1>3. FreePages \subseteq Pages BY DEF FreePages
<1>4. IsFiniteSet(FreePages) BY <1>2, <1>3, FS_Subset
<1> QED BY <1>2, <1>4, FS_CardinalityType

LEMMA SpanCount ==
  ASSUME HeapAssumption, NEW base \in Pages, NEW count \in 1 .. PageCount
  PROVE  /\ base \in Span(base, count)
         /\ IsFiniteSet(Span(base, count)) /\ Cardinality(Span(base, count)) = count
<1>1. PageCount \in Nat BY DEF HeapAssumption
<1>2. /\ base \in Int /\ base + count - 1 \in Int /\ count \in Int
      /\ base <= base + count - 1 /\ (base + count - 1) - base + 1 = count
  BY <1>1 DEF Pages
<1>3. IsFiniteSet(base .. base + count - 1) BY <1>2, FS_Interval
<1>4. Cardinality(base .. base + count - 1) = count BY <1>2, FS_Interval
<1> QED BY <1>2, <1>3, <1>4 DEF Span

\* A call that changes neither which pages are free nor whose they are.
LEMMA SameRegions ==
  ASSUME HeapInv, UNCHANGED <<unreserved_page_count_, torn>>,
         page_table_' \in [Pages -> Entry],
         \A p \in Pages : /\ page_table_'[p].base = page_table_[p].base
                          /\ page_table_'[p].count = page_table_[p].count
                          /\ IsFree(p)' <=> IsFree(p)
  PROVE  HeapInv'
<1>1. FreeIsBlank' BY DEF HeapInv, FreeIsBlank
<1>2. FreePages' = FreePages BY DEF FreePages
<1>3. \A p \in Pages : RegionOf(p)' = RegionOf(p) BY DEF RegionOf, Span
<1>4. TornStaysTorn'
  <2>1. \A p \in torn : p \in Pages BY DEF HeapInv
  <2> QED BY <1>3, <2>1 DEF TornStaysTorn, HeapInv, Pages
<1>5. ASSUME NEW p \in Pages \ torn, ~IsFree(p)' PROVE IsWhole(p)'
  <2>1. IsWhole(p) BY <1>5, Whole DEF HeapInv
  <2>2. \A q \in RegionOf(p) : q \in Pages BY <2>1 DEF IsWhole
  <2> QED BY <1>3, <2>1, <2>2 DEF IsWhole, Pages
<1>6. torn = {} => unreserved_page_count_' = Cardinality(FreePages)'
  BY <1>2, Whole DEF HeapInv
<1>7. RegionsAreWhole' BY <1>5, <1>6 DEF RegionsAreWhole, IsWhole, FreePages, Pages
<1> QED BY <1>1, <1>4, <1>7 DEF HeapInv, Pages

\* What Reserve does to the page table.
LEMMA ReserveWrites ==
  ASSUME HeapAssumption, HeapInv, NEW base \in Pages, NEW count \in 1 .. PageCount,
         NEW state \in {"reserved", "committed"}, NEW unreserved,
         Reserve(base, count, state, unreserved)
  PROVE  /\ page_table_' \in [Pages -> Entry]
         /\ \A p \in Pages : IsFree(p)' <=> IsFree(p) /\ p \notin Span(base, count)
         /\ FreeIsBlank'
         /\ \A p \in Pages \cap Span(base, count) :
              /\ page_table_'[p].base = base /\ page_table_'[p].count = count
              /\ RegionOf(p)' = Span(base, count)
         /\ \A p \in Pages \ Span(base, count) :
              page_table_'[p] = page_table_[p] /\ RegionOf(p)' = RegionOf(p)
<1> DEFINE new == [base |-> base, count |-> count, state |-> state]
<1>1. page_table_ \in [Pages -> Entry] BY DEF HeapInv
<1>2. new \in Entry /\ new.state # "free" /\ new.base = base /\ new.count = count
  BY DEF HeapAssumption, Pages, Entry
<1>3. /\ page_table_' \in [Pages -> Entry]
      /\ \A p \in Pages : page_table_'[p] = IF p \in Span(base, count) THEN new
                                             ELSE page_table_[p]
  BY <1>1, <1>2 DEF Reserve
<1> HIDE DEF new
<1>4. \A p \in Pages : IsFree(p)' <=> IsFree(p) /\ p \notin Span(base, count)
  BY <1>2, <1>3 DEF IsFree
<1>5. FreeIsBlank' BY <1>3, <1>4 DEF FreeIsBlank, HeapInv, Pages
<1>6. ASSUME NEW p \in Pages \cap Span(base, count)
      PROVE  /\ page_table_'[p].base = base /\ page_table_'[p].count = count
             /\ RegionOf(p)' = Span(base, count)
  BY <1>2, <1>3 DEF RegionOf, Span
<1>7. ASSUME NEW p \in Pages \ Span(base, count)
      PROVE  page_table_'[p] = page_table_[p] /\ RegionOf(p)' = RegionOf(p)
  BY <1>3 DEF RegionOf, Span
<1> QED BY <1>3, <1>4, <1>5, <1>6, <1>7

\* A reservation of free pages of the heap, none of them torn.
LEMMA CleanReserveKeeps ==
  ASSUME HeapAssumption, HeapInv, NEW base \in Pages, NEW count \in 1 .. PageCount,
         NEW state \in {"reserved", "committed"}, Reserve(base, count, state, count),
         ~TakesOver(Span(base, count)), Span(base, count) \cap torn = {}
  PROVE  HeapInv'
<1> DEFINE S == Span(base, count)
<1>1. torn' = torn BY DEF Reserve
<1>2. S \subseteq Pages /\ \A p \in S : IsFree(p) BY DEF TakesOver
<1>3. /\ page_table_' \in [Pages -> Entry] /\ FreeIsBlank'
      /\ \A p \in Pages : IsFree(p)' <=> IsFree(p) /\ p \notin S
      /\ \A p \in Pages \cap S : /\ page_table_'[p].base = base
                                 /\ page_table_'[p].count = count /\ RegionOf(p)' = S
      /\ \A p \in Pages \ S : page_table_'[p] = page_table_[p] /\ RegionOf(p)' = RegionOf(p)
  BY ReserveWrites
<1>4. S \cap torn = {} /\ torn \subseteq Pages BY DEF HeapInv
<1>5. unreserved_page_count_' = unreserved_page_count_ - count BY DEF Reserve
<1>6. IsFiniteSet(S) /\ Cardinality(S) = count BY SpanCount
<1> HIDE DEF S
<1>7. TornStaysTorn'
  <2> SUFFICES ASSUME NEW p \in torn, ~IsFree(p)' PROVE RegionOf(p)' \cap Pages \subseteq torn
    BY <1>1 DEF TornStaysTorn, Pages
  <2>1. p \in Pages \ S /\ ~IsFree(p) BY <1>3, <1>4
  <2>2. RegionOf(p) \cap Pages \subseteq torn BY <2>1 DEF HeapInv, TornStaysTorn
  <2> QED BY <1>3, <2>1, <2>2
<1>8. ASSUME NEW p \in Pages \ torn, ~IsFree(p)' PROVE IsWhole(p)'
  <2>1. CASE p \in S
    <3>1. /\ RegionOf(p)' = S /\ p \in S /\ S \subseteq Pages \ torn'
          /\ page_table_'[p].base = base /\ page_table_'[p].count = count
      BY <1>1, <1>2, <1>3, <1>4, <2>1
    <3>2. \A q \in S : /\ ~IsFree(q)'
                       /\ page_table_'[q].base = base /\ page_table_'[q].count = count
      BY <1>2, <1>3
    <3> QED BY <3>1, <3>2 DEF IsWhole, Pages
  <2>2. CASE p \notin S
    <3>1. ~IsFree(p) /\ IsWhole(p) BY <1>3, <1>8, <2>2, Whole DEF HeapInv
    <3>2. \A q \in RegionOf(p) : q \in Pages /\ q \notin torn /\ ~IsFree(q) /\ q \notin S
      BY <1>2, <3>1 DEF IsWhole
    <3>3. RegionOf(p)' = RegionOf(p) /\ page_table_'[p] = page_table_[p] BY <1>3, <2>2
    <3>4. \A q \in RegionOf(p) : page_table_'[q] = page_table_[q] /\ ~IsFree(q)'
      BY <1>3, <3>2
    <3> QED BY <1>1, <3>1, <3>2, <3>3, <3>4 DEF IsWhole, Pages
  <2> QED BY <2>1, <2>2
<1>9. torn = {} => unreserved_page_count_' = Cardinality(FreePages)'
  <2> SUFFICES ASSUME torn = {} PROVE unreserved_page_count_' = Cardinality(FreePages)'
    OBVIOUS
  <2>1. FreePages' = FreePages \ S BY <1>3 DEF FreePages, Pages
  <2>2. FreePages \cap S = S BY <1>2 DEF FreePages
  <2>3. unreserved_page_count_ = Cardinality(FreePages) BY Whole DEF HeapInv
  <2>4. IsFiniteSet(FreePages) BY CountsArePages
  <2>5. Cardinality(FreePages \ S) = Cardinality(FreePages) - Cardinality(FreePages \cap S)
    BY <2>4, FS_Difference
  <2> QED BY <1>5, <1>6, <2>1, <2>2, <2>3, <2>5
<1>10. RegionsAreWhole'
  BY <1>1, <1>8, <1>9 DEF RegionsAreWhole, IsWhole, FreePages, Pages
<1> QED BY <1>1, <1>3, <1>4, <1>7, <1>10 DEF HeapInv, Pages

\* One that tears what it meets, or that is put where something was torn.
LEMMA TearingReserveKeeps ==
  ASSUME HeapAssumption, HeapInv, NEW base \in Pages, NEW count \in 1 .. PageCount,
         NEW state \in {"reserved", "committed"}, NEW unreserved,
         Reserve(base, count, state, unreserved),
         TakesOver(Span(base, count)) \/ Span(base, count) \cap torn # {}
  PROVE  HeapInv'
<1> DEFINE S == Span(base, count)
           Met == {q \in S \cap Pages : ~IsFree(q)}
<1>1. torn' = torn \cup TornBy(S) BY DEF Reserve
<1>2. \A p : p \in torn' <=> \/ p \in torn \/ p \in S \cap Pages
                             \/ \E q \in Met : p \in RegionOf(q) \cap Pages
  BY <1>1 DEF TornBy
<1>3. /\ page_table_' \in [Pages -> Entry] /\ FreeIsBlank'
      /\ \A p \in Pages : IsFree(p)' <=> IsFree(p) /\ p \notin S
      /\ \A p \in Pages \cap S : RegionOf(p)' = S
      /\ \A p \in Pages \ S : page_table_'[p] = page_table_[p] /\ RegionOf(p)' = RegionOf(p)
  BY ReserveWrites
<1>4. base \in S BY SpanCount
<1>5. torn \subseteq Pages BY DEF HeapInv
<1>6. torn' # {} /\ torn' \subseteq Pages BY <1>2, <1>4, <1>5
<1>7. \A q \in Met : q \in Pages /\ q \in S /\ ~IsFree(q) OBVIOUS
<1> HIDE DEF S, Met
\* A taken page whose region meets that of a page the reservation takes is torn with it.
<1>8. ASSUME NEW p \in Pages \ torn, NEW q \in Met, p \in RegionOf(q)
      PROVE  RegionOf(p) = RegionOf(q) /\ q \in RegionOf(p)
  <2>1. q \notin torn BY <1>7, <1>8 DEF HeapInv, TornStaysTorn
  <2>2. IsWhole(q) BY <1>7, <2>1, Whole DEF HeapInv
  <2>3. RegionOf(p) = RegionOf(q) BY <1>8, <2>2, WholeIsShared
  <2> QED BY <2>2, <2>3 DEF IsWhole
<1>9. TornStaysTorn'
  <2> SUFFICES ASSUME NEW p \in torn', ~IsFree(p)' PROVE RegionOf(p)' \cap Pages \subseteq torn'
    BY DEF TornStaysTorn, Pages
  <2>1. p \in Pages BY <1>6
  <2>2. CASE p \in S
    <3>1. RegionOf(p)' = S BY <1>3, <2>1, <2>2
    <3> QED BY <1>2, <3>1
  <2>3. CASE p \notin S /\ p \in torn
    <3>1. RegionOf(p)' = RegionOf(p) /\ ~IsFree(p) BY <1>3, <2>1, <2>3
    <3>2. RegionOf(p) \cap Pages \subseteq torn BY <2>3, <3>1 DEF HeapInv, TornStaysTorn
    <3> QED BY <1>2, <3>1, <3>2
  <2>4. CASE p \notin S /\ p \notin torn
    <3>1. PICK q \in Met : p \in RegionOf(q) \cap Pages BY <1>2, <2>4
    <3>2. RegionOf(p) = RegionOf(q) BY <1>8, <2>1, <2>4, <3>1
    <3>3. RegionOf(p)' = RegionOf(q) BY <1>3, <2>1, <2>4, <3>2
    <3> QED BY <1>2, <3>3
  <2> QED BY <2>2, <2>3, <2>4
<1>10. ASSUME NEW p \in Pages \ torn', ~IsFree(p)' PROVE IsWhole(p)'
  <2>1. p \in Pages /\ p \notin torn /\ p \notin S BY <1>2, <1>10
  <2>2. ~IsFree(p) /\ IsWhole(p) BY <1>3, <1>10, <2>1, Whole DEF HeapInv
  <2>3. \A r \in RegionOf(p) : r \in Pages /\ r \notin torn /\ ~IsFree(r)
    BY <2>2 DEF IsWhole
  <2>4. ASSUME NEW r \in RegionOf(p) PROVE r \notin S
    <3> SUFFICES ASSUME r \in S PROVE FALSE OBVIOUS
    <3>1. r \in Met BY <2>3 DEF Met
    <3>2. p \in RegionOf(r) BY <2>2, WholeIsShared DEF IsWhole
    <3> QED BY <1>2, <1>10, <2>1, <3>1, <3>2
  <2>5. ASSUME NEW r \in RegionOf(p) PROVE r \notin torn'
    <3> SUFFICES ASSUME r \in torn' PROVE FALSE OBVIOUS
    <3>1. PICK q \in Met : r \in RegionOf(q) BY <1>2, <2>3, <2>4
    <3>2. q \in RegionOf(r) BY <1>8, <2>3, <3>1
    <3>3. RegionOf(r) = RegionOf(p) BY <2>2, WholeIsShared
    <3> QED BY <1>7, <2>4, <3>2, <3>3
  <2>6. RegionOf(p)' = RegionOf(p) /\ page_table_'[p] = page_table_[p] BY <1>3, <2>1
  <2>7. \A r \in RegionOf(p) : page_table_'[r] = page_table_[r] /\ ~IsFree(r)'
    BY <1>3, <2>3, <2>4
  <2> QED BY <2>2, <2>3, <2>5, <2>6, <2>7 DEF IsWhole, Pages
<1>11. RegionsAreWhole' BY <1>6, <1>10 DEF RegionsAreWhole, IsWhole, Pages
<1> QED BY <1>3, <1>6, <1>9, <1>11 DEF HeapInv, Pages

LEMMA ReleaseKeeps ==
  ASSUME HeapAssumption, HeapInv, ReleaseRegion PROVE HeapInv'
<1>1. PICK base \in Pages :
        /\ page_table_[base].base = base /\ base # 0
        /\ page_table_' = [p \in Pages |->
                            IF p \in Region(base) THEN FreePage ELSE page_table_[p]]
        /\ unreserved_page_count_' = unreserved_page_count_ + Cardinality(Region(base))
  BY DEF ReleaseRegion
<1> DEFINE R == Region(base)
<1>2. torn' = torn /\ torn \subseteq Pages BY DEF ReleaseRegion, HeapInv
<1>3. page_table_ \in [Pages -> Entry] /\ FreePage \in Entry
  BY DEF HeapInv, Entry, FreePage
<1>4. /\ page_table_' \in [Pages -> Entry]
      /\ \A p \in Pages : page_table_'[p] = IF p \in R THEN FreePage ELSE page_table_[p]
  BY <1>1, <1>3
<1>5. \A p \in Pages : IsFree(p)' <=> IsFree(p) \/ p \in R BY <1>4 DEF IsFree, FreePage
<1>6. FreeIsBlank' BY <1>4, <1>5 DEF FreeIsBlank, HeapInv, FreePage, Pages
<1>7. R = RegionOf(base) /\ ~IsFree(base) BY <1>1 DEF Region, RegionOf, HeapInv, FreeIsBlank
<1>8. unreserved_page_count_' = unreserved_page_count_ + Cardinality(R) BY <1>1
<1> HIDE DEF R
<1>9. \A p \in Pages \ R : page_table_'[p] = page_table_[p] /\ RegionOf(p)' = RegionOf(p)
  BY <1>4 DEF RegionOf, Span
<1>10. TornStaysTorn'
  <2> SUFFICES ASSUME NEW p \in torn, ~IsFree(p)' PROVE RegionOf(p)' \cap Pages \subseteq torn
    BY <1>2 DEF TornStaysTorn, Pages
  <2>1. p \in Pages \ R /\ ~IsFree(p) BY <1>2, <1>5
  <2>2. RegionOf(p) \cap Pages \subseteq torn BY <2>1 DEF HeapInv, TornStaysTorn
  <2> QED BY <1>9, <2>1, <2>2
<1>11. ASSUME NEW p \in Pages \ torn, ~IsFree(p)' PROVE IsWhole(p)'
  <2>1. ~IsFree(p) /\ p \notin R BY <1>5, <1>11
  <2>2. IsWhole(p) BY <1>11, <2>1, Whole DEF HeapInv
  <2>3. \A q \in RegionOf(p) : q \in Pages /\ q \notin torn /\ ~IsFree(q)
    BY <2>2 DEF IsWhole
  <2>4. ASSUME NEW q \in RegionOf(p) PROVE q \notin R
    <3> SUFFICES ASSUME q \in R PROVE FALSE OBVIOUS
    <3>1. base \notin torn BY <1>7, <2>3 DEF HeapInv, TornStaysTorn
    <3>2. IsWhole(base) BY <1>7, <3>1, Whole DEF HeapInv
    <3>3. RegionOf(q) = R BY <1>7, <3>2, WholeIsShared
    <3>4. RegionOf(q) = RegionOf(p) BY <2>2, WholeIsShared
    <3> QED BY <2>1, <2>2, <3>3, <3>4 DEF IsWhole
  <2>5. RegionOf(p)' = RegionOf(p) /\ page_table_'[p] = page_table_[p] BY <1>9, <2>1
  <2>6. \A q \in RegionOf(p) : page_table_'[q] = page_table_[q] /\ ~IsFree(q)'
    BY <1>5, <1>9, <2>3, <2>4
  <2> QED BY <1>2, <2>2, <2>3, <2>5, <2>6 DEF IsWhole, Pages
<1>12. torn = {} => unreserved_page_count_' = Cardinality(FreePages)'
  <2> SUFFICES ASSUME torn = {} PROVE unreserved_page_count_' = Cardinality(FreePages)'
    OBVIOUS
  <2>0. IsWhole(base) BY <1>7, Whole DEF HeapInv
  <2>1. R \subseteq Pages /\ \A q \in R : ~IsFree(q) BY <1>7, <2>0 DEF IsWhole
  <2>2. FreePages' = FreePages \cup R /\ FreePages \cap R = {}
    BY <1>5, <2>1 DEF FreePages, Pages
  <2>3. unreserved_page_count_ = Cardinality(FreePages) BY Whole DEF HeapInv
  <2>4. IsFiniteSet(FreePages) /\ IsFiniteSet(R) BY <2>1, CountsArePages, FS_Subset
  <2>5. Cardinality(FreePages \cup R) =
          Cardinality(FreePages) + Cardinality(R) - Cardinality(FreePages \cap R)
    BY <2>4, FS_Union
  <2>6. Cardinality(FreePages \cap R) = 0 BY <2>2, FS_EmptySet
  <2>7. Cardinality(FreePages) \in Nat /\ Cardinality(R) \in Nat BY <2>4, FS_CardinalityType
  <2> QED BY <1>8, <2>2, <2>3, <2>5, <2>6, <2>7
<1>13. RegionsAreWhole'
  BY <1>2, <1>11, <1>12 DEF RegionsAreWhole, IsWhole, FreePages, Pages
<1> QED BY <1>2, <1>4, <1>6, <1>10, <1>13 DEF HeapInv, Pages

LEMMA InitHeapInv == ASSUME HeapAssumption, HeapInit PROVE HeapInv
<1> DEFINE first == [base |-> 0, count |-> 1, state |-> "committed"]
<1>1. PageCount \in Nat /\ 1 < PageCount BY DEF HeapAssumption
<1>2. 0 \in Pages /\ Span(0, 1) = {0} BY <1>1 DEF Pages, Span
<1>3. /\ page_table_ \in [Pages -> Entry] /\ torn = {}
      /\ \A p \in Pages : page_table_[p] = IF p = 0 THEN first ELSE FreePage
  BY DEF HeapInit, Entry, FreePage
<1>4. \A p \in Pages : IsFree(p) <=> p # 0 BY <1>3 DEF IsFree, FreePage
<1>5. FreeIsBlank /\ TornStaysTorn
  BY <1>3, <1>4 DEF FreeIsBlank, FreePage, TornStaysTorn
<1>6. ASSUME NEW p \in Pages, ~IsFree(p) PROVE IsWhole(p)
  <2>1. p = 0 /\ page_table_[p] = first BY <1>3, <1>4, <1>6
  <2>2. RegionOf(p) = {0} BY <1>2, <2>1 DEF RegionOf
  <2> QED BY <1>2, <1>3, <1>4, <2>1, <2>2 DEF IsWhole
<1>7. unreserved_page_count_ = Cardinality(FreePages)
  <2>1. FreePages = Pages \ {0} BY <1>4 DEF FreePages
  <2>2. Cardinality(Pages) = PageCount
    <3>1. 0 \in Int /\ PageCount - 1 \in Int BY <1>1
    <3>2. Cardinality(0 .. PageCount - 1) = PageCount - 1 - 0 + 1
      BY <1>1, <3>1, FS_Interval
    <3> QED BY <1>1, <3>2 DEF Pages
  <2>3. Cardinality(Pages \ {0}) = Cardinality(Pages) - 1
    BY <1>2, CountsArePages, FS_RemoveElement
  <2> QED BY <2>1, <2>2, <2>3 DEF HeapInit
<1> QED BY <1>3, <1>5, <1>6, <1>7, Whole DEF HeapInv

\* What AllocRange finds is free, and in the heap.
LEMMA FoundIsFree ==
  ASSUME HeapAssumption, NEW range \in Ranges, NEW count \in 1 .. PageCount,
         NEW stride \in Strides, NEW base \in Fits(range, count, stride)
  PROVE  base \in Pages /\ ~TakesOver(Span(base, count))
<1>1. /\ base \in Pages /\ base + count <= AlignDown(range[2], stride)
      /\ AllFree(base, count)
  BY DEF Fits
<1>2. /\ PageCount \in Nat /\ AllocEnd \in Nat /\ AllocEnd < PageCount
      /\ stride \in Nat \ {0}
  BY DEF HeapAssumption
<1> DEFINE i == range[2]
<1>3. i \in Int /\ i <= PageCount
  <2>1. CASE range = <<0, AllocEnd>> BY <1>2, <2>1
  <2>2. CASE range = <<SystemPage, PageCount - 1>> BY <1>2, <2>2
  <2> QED BY <2>1, <2>2 DEF Ranges
<1> HIDE DEF i
<1>4. AlignDown(i, stride) \in Int /\ AlignDown(i, stride) <= i BY <1>2, <1>3, Alignment
<1>5. base \in Int /\ count \in Int BY <1>1, <1>2 DEF Pages
<1>6. base + count <= AlignDown(i, stride) BY <1>1 DEF i
<1>7. base + count <= PageCount
  <2> DEFINE a == AlignDown(i, stride)
  <2>1. a \in Int /\ a <= i /\ base + count <= a BY <1>4, <1>6
  <2> HIDE DEF a
  <2> QED BY <1>2, <1>3, <1>5, <2>1
<1>8. Span(base, count) \subseteq Pages BY <1>1, <1>2, <1>7 DEF Span, Pages
<1> QED BY <1>1, <1>8 DEF TakesOver, AllFree

LEMMA HeapInvariant == HeapSpec => []HeapInv
<1>1. HeapInit => HeapInv BY HeapAssumption, InitHeapInv
<1>2. HeapInv /\ [HeapNext]_heapVars => HeapInv'
  <2> SUFFICES ASSUME HeapInv, [HeapNext]_heapVars PROVE HeapInv' OBVIOUS
  <2>1. page_table_ \in [Pages -> Entry] BY DEF HeapInv
  <2>2. CASE AllocRange
    <3>1. PICK count \in 1 .. PageCount, range \in Ranges, stride \in Strides,
               topDown \in BOOLEAN, state \in {"reserved", "committed"} :
            LET base == Search(range, count, stride, topDown) IN
              base # NotFound /\ Reserve(base, count, state, count)
      BY <2>2 DEF AllocRange
    <3> DEFINE base == Search(range, count, stride, topDown)
    <3>2. base \in Fits(range, count, stride) BY <3>1, SearchFinds, HeapAssumption
    <3>3. Reserve(base, count, state, count) BY <3>1
    <3> HIDE DEF base
    <3>4. base \in Pages /\ ~TakesOver(Span(base, count))
      BY <3>2, FoundIsFree, HeapAssumption
    <3>5. CASE Span(base, count) \cap torn = {}
      BY <3>3, <3>4, <3>5, CleanReserveKeeps, HeapAssumption
    <3>6. CASE Span(base, count) \cap torn # {}
      BY <3>3, <3>4, <3>6, TearingReserveKeeps, HeapAssumption
    <3> QED BY <3>5, <3>6
  <2>3. CASE AllocFixedReserve
    <3>1. PICK base \in Pages, count \in 1 .. PageCount, state \in {"reserved", "committed"} :
            \E unreserved \in Unreserved(base, count) :
              Reserve(base, count, state, Cardinality(unreserved))
      BY <2>3 DEF AllocFixedReserve
    <3>2. PICK unreserved \in Unreserved(base, count) :
            Reserve(base, count, state, Cardinality(unreserved))
      BY <3>1
    <3> DEFINE S == Span(base, count)
    <3>3. CASE ~TakesOver(S) /\ S \cap torn = {}
      <4>1. unreserved = S
        <5>1. S \subseteq Pages /\ \A p \in S : IsFree(p) BY <3>3 DEF TakesOver
        <5>2. {p \in S \cap Pages : IsFree(p)} = S /\ S \ Pages = {} BY <5>1
        <5>3. unreserved = S \/ unreserved = S \cup {} BY <5>2 DEF Unreserved
        <5> QED BY <5>3
      <4>2. Cardinality(S) = count BY SpanCount, HeapAssumption
      <4>3. Reserve(base, count, state, count) BY <3>2, <4>1, <4>2
      <4> QED BY <3>3, <4>3, CleanReserveKeeps, HeapAssumption
    <3>4. CASE TakesOver(S) \/ S \cap torn # {}
      BY <3>2, <3>4, TearingReserveKeeps, HeapAssumption
    <3> QED BY <3>3, <3>4
  <2>4. CASE AllocFixedCommit
    <3>1. PICK base \in Pages, count \in 1 .. PageCount :
            /\ {} \in Unreserved(base, count)
            /\ page_table_' = [p \in Pages |->
                 IF p \in Span(base, count) THEN [page_table_[p] EXCEPT !.state = "committed"]
                 ELSE page_table_[p]]
            /\ UNCHANGED <<unreserved_page_count_, torn, takeovers>>
      BY <2>4 DEF AllocFixedCommit
    <3>2. page_table_' \in [Pages -> Entry] BY <2>1, <3>1 DEF Entry
    <3>3. \A p \in Pages : /\ page_table_'[p].base = page_table_[p].base
                           /\ page_table_'[p].count = page_table_[p].count
      BY <2>1, <3>1 DEF Entry
    <3>4. \A p \in Pages : p \in Span(base, count) => ~IsFree(p) BY <3>1 DEF Unreserved
    <3>5. \A p \in Pages : IsFree(p)' <=> IsFree(p)
      BY <2>1, <3>1, <3>4 DEF Entry, IsFree
    <3> QED BY <3>1, <3>2, <3>3, <3>5, SameRegions
  <2>5. CASE Decommit
    <3>1. PICK base \in Pages, count \in Int :
            /\ page_table_' = [p \in Pages |->
                 IF p \in Span(base, count) /\ ~IsFree(p)
                 THEN [page_table_[p] EXCEPT !.state = "reserved"] ELSE page_table_[p]]
            /\ UNCHANGED <<unreserved_page_count_, torn, takeovers>>
      BY <2>5 DEF Decommit
    <3>2. page_table_' \in [Pages -> Entry] BY <2>1, <3>1 DEF Entry
    <3>3. \A p \in Pages : /\ page_table_'[p].base = page_table_[p].base
                           /\ page_table_'[p].count = page_table_[p].count
      BY <2>1, <3>1 DEF Entry
    <3>4. \A p \in Pages : IsFree(p)' <=> IsFree(p) BY <2>1, <3>1 DEF Entry, IsFree
    <3> QED BY <3>1, <3>2, <3>3, <3>4, SameRegions
  <2>6. CASE ReleaseRegion BY <2>6, ReleaseKeeps, HeapAssumption
  <2>7. CASE UNCHANGED heapVars
    <3>1. \A p : IsFree(p)' <=> IsFree(p) BY <2>7 DEF IsFree, heapVars
    <3> QED BY <2>1, <2>7, <3>1, SameRegions DEF heapVars
  <2> QED BY <2>2, <2>3, <2>4, <2>5, <2>6, <2>7 DEF HeapNext
<1> QED BY <1>1, <1>2, PTL DEF HeapSpec

\* Whatever is asked for, a fixed request that takes reserved pages or passes the end
\* damages only the regions it meets and what is put there after: every other reserved
\* page is in one whole region.  Without such requests the count of pages is exact.
THEOREM TheRegionsAreWhole == HeapSpec => []RegionsAreWhole
<1>1. HeapInv => RegionsAreWhole BY DEF HeapInv
<1> QED BY <1>1, HeapInvariant, PTL

=============================================================================
