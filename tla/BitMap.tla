------------------------------- MODULE BitMap -------------------------------
(***************************************************************************)
(* The lock-free bit map (base/bit_map.cc) from which XMA contexts, TLS    *)
(* slots and trampolines are taken.  A word is the set of its free bits.   *)
(* A thread reads a word, and exchanges it if it is still what was read;   *)
(* it goes from word to word without coming back to one it found empty.    *)
(***************************************************************************)
EXTENDS Integers, FiniteSets

CONSTANTS
  Threads,
  Last,       \* the words are 0 .. Last
  Bits,       \* the bits of a word, numbers
  MaxBits     \* bound: how many bits a thread has at a time

Words == 0 .. Last

ASSUME WordAssumption == Last \in Nat /\ Bits \subseteq Nat

VARIABLES
  data,       \* data[i]: the free bits of word i
  at,         \* at[t]: where thread t is
  word,       \* word[t]: the word it looks at
  step,       \* step[t]: 1 in Acquire, -1 in AcquireFromBack
  entry,      \* entry[t]: the word as it was read
  bit,        \* bit[t]: the bit it gives back
  held,       \* held[t]: the bits that thread t has (history)
  sawFull, sawRelease  \* the threads in whose present call the map was full,
                       \* or a bit was released (history)

calls == <<at, word, step, entry, bit>>
history == <<held, sawFull, sawRelease>>
vars == <<data, calls, history>>

Full(d) == \A i \in Words : d[i] = {}

Init ==
  /\ data = [i \in Words |-> Bits]
  /\ at = [t \in Threads |-> "idle"]
  /\ word = [t \in Threads |-> 0] /\ step = [t \in Threads |-> 1]
  /\ entry = [t \in Threads |-> {}] /\ bit = [t \in Threads |-> 0]
  /\ held = [t \in Threads |-> {}]
  /\ sawFull = {} /\ sawRelease = {}

\* The locals of a call that ends.
Forget(t) ==
  /\ word' = [word EXCEPT ![t] = 0] /\ step' = [step EXCEPT ![t] = 1]
  /\ entry' = [entry EXCEPT ![t] = {}] /\ bit' = [bit EXCEPT ![t] = 0]

Goto(t, from, to) == at[t] = from /\ at' = [at EXCEPT ![t] = to]

-----------------------------------------------------------------------------
(* Acquire, AcquireFromBack. *)

Begin(t) ==
  /\ Cardinality(held[t]) < MaxBits
  /\ Goto(t, "idle", "read")
  /\ \E s \in {1, -1} :
       /\ step' = [step EXCEPT ![t] = s]
       /\ word' = [word EXCEPT ![t] = IF s = 1 THEN 0 ELSE Last]
  /\ sawFull' = IF Full(data) THEN sawFull \union {t} ELSE sawFull \ {t}
  /\ sawRelease' = sawRelease \ {t}
  /\ UNCHANGED <<data, entry, bit, held>>

(* TryAcquireAt: None free, and on to the next word; or acquire it.         *)
ReadEmpty(t) ==
  /\ at[t] = "read" /\ data[word[t]] = {}
  /\ LET next == word[t] + step[t] IN
       \/ next \in Words /\ word' = [word EXCEPT ![t] = next] /\ UNCHANGED at
       \/ next \notin Words /\ Goto(t, "read", "failed") /\ UNCHANGED word
  /\ UNCHANGED <<data, step, entry, bit, history>>

ReadFree(t) ==
  /\ data[word[t]] # {}
  /\ Goto(t, "read", "acquire")
  /\ entry' = [entry EXCEPT ![t] = data[word[t]]]
  /\ UNCHANGED <<data, word, step, bit, history>>

\* Mutant: the word is written whatever it has become.
ExchangeBlindly(t) == entry[t] # {}

\* atomic_cas: the word is what was read.
Unchanged(t) == data[word[t]] = entry[t]

AcquireBit(t) ==
  /\ Unchanged(t)
  /\ Goto(t, "acquire", "idle")
  /\ \E first \in entry[t] :
       /\ \A b \in entry[t] : first <= b
       /\ data' = [data EXCEPT ![word[t]] = entry[t] \ {first}]
       /\ held' = [held EXCEPT ![t] = @ \union {<<word[t], first>>}]
  /\ sawFull' = IF Full(data') THEN Threads ELSE sawFull
  /\ Forget(t)
  /\ UNCHANGED sawRelease

\* Mutant: a word that others change meanwhile is taken for an empty one.
GiveUp(t) ==
  /\ ~Unchanged(t)
  /\ Goto(t, "acquire", "failed")
  /\ UNCHANGED <<data, word, step, entry, bit, history>>

Retry(t) ==
  /\ ~Unchanged(t)
  /\ Goto(t, "acquire", "read")
  /\ UNCHANGED <<data, word, step, entry, bit, history>>

(* The caller is told that there is none.                                   *)
Fail(t) ==
  /\ Goto(t, "failed", "idle")
  /\ Forget(t)
  /\ UNCHANGED <<data, history>>

-----------------------------------------------------------------------------
(* Release, of a bit that any thread may have acquired. *)

BeginRelease(t) ==
  /\ Goto(t, "idle", "readBack")
  /\ \E b \in held[t] :
       /\ word' = [word EXCEPT ![t] = b[1]]
       /\ bit' = [bit EXCEPT ![t] = b[2]]
       /\ held' = [held EXCEPT ![t] = @ \ {b}]
  /\ UNCHANGED <<data, step, entry, sawFull, sawRelease>>

ReadBack(t) ==
  /\ Goto(t, "readBack", "release")
  /\ entry' = [entry EXCEPT ![t] = data[word[t]]]
  /\ UNCHANGED <<data, word, step, bit, history>>

ReleaseBit(t) ==
  /\ Unchanged(t)
  /\ Goto(t, "release", "idle")
  /\ data' = [data EXCEPT ![word[t]] = entry[t] \union {bit[t]}]
  /\ sawRelease' = Threads
  /\ Forget(t)
  /\ UNCHANGED <<held, sawFull>>

RetryRelease(t) ==
  /\ ~Unchanged(t)
  /\ Goto(t, "release", "readBack")
  /\ UNCHANGED <<data, word, step, entry, bit, history>>

-----------------------------------------------------------------------------
Acquire(t) == Begin(t) \/ ReadEmpty(t) \/ ReadFree(t) \/ AcquireBit(t) \/ Retry(t) \/ Fail(t)

Release(t) == BeginRelease(t) \/ ReadBack(t) \/ ReleaseBit(t) \/ RetryRelease(t)

Next == \E t \in Threads : Acquire(t) \/ Release(t)

Spec == Init /\ [][Next]_vars

-----------------------------------------------------------------------------
(* Properties. *)

\* The bits that thread t has, or is giving back.
Has(t) == held[t] \union
  (IF at[t] \in {"readBack", "release"} THEN {<<word[t], bit[t]>>} ELSE {})

\* A bit is handed out once: no two threads have it, and one that a thread has
\* is not free, which is what Release asserts.
HandedOutOnce ==
  \A t \in Threads : \A b \in Has(t) :
    /\ b[2] \notin data[b[1]]
    /\ \A u \in Threads : b \in Has(u) => u = t

\* Acquire fails only if, during the call, all entries were taken at once, or
\* one was released behind its back.
FailsForAReason ==
  \A t \in Threads : at[t] = "failed" => t \in sawFull \union sawRelease

=============================================================================
