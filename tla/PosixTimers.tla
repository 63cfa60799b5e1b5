---------------------------- MODULE PosixTimers ----------------------------
(***************************************************************************)
(* Timers as wait objects: PosixCondition<Timer> of                        *)
(* base/threading_posix.cc over the timer queue.  A timer keeps a weak     *)
(* pointer to the item it queued last; Cancel disarms that item, without   *)
(* any lock; setting a timer cancels it, then takes the mutex that all     *)
(* wait objects share and queues a new item while it holds it.  The        *)
(* dispatch thread signals the timer under the same mutex and runs the     *)
(* callback, which may set and cancel timers itself.                       *)
(*                                                                         *)
(* The queue is TimerQueue's, without time: an item in the queue may be    *)
(* due at any moment.                                                      *)
(***************************************************************************)
EXTENDS Naturals, FiniteSets

CONSTANTS
  Timers,
  Synchronization, \* the timers that a wait resets; the others are manual
  MaxItems,        \* bound: how many items are ever queued
  Users,           \* the threads that use timers
  Dispatcher,      \* the dispatch thread
  None,            \* no item, no timer, nobody
  RingSize,        \* kWaitCount, the size of the ring: 512
  Calls,           \* bound: how many calls one callback makes
  OneSetter        \* TRUE if no timer is set by two callers at once

WaitItems == 1 .. MaxItems
Agents == Users \union {Dispatcher}

ASSUME TimersAssumption ==
  /\ Synchronization \subseteq Timers
  /\ Dispatcher \notin Users /\ None \notin WaitItems \union Timers \union Agents
  /\ OneSetter \in BOOLEAN
ASSUME TimersBoundAssumption ==
  RingSize \in Nat \ {0} /\ Calls \in Nat /\ MaxItems \in Nat

VARIABLES
  itemState,       \* itemState[i]: state_ of the item, "new" before it is queued
  timer,           \* timer[i]: userdata_, the timer the item signals
  recurs,          \* the items that have an interval
  buffer,          \* the items in the ring
  waitQueue,       \* the items in wait_queue_
  thread,          \* where the dispatch thread is
  firing,          \* its wait_item
  copied,          \* its copy of the callback: the item whose set passed it
  made,            \* how many calls the running callback has begun
  at,              \* at[a]: where agent a is in Cancel, SetOnce or SetRepeating
  setting,         \* setting[a]: whether its call is one of the two that set
  on,              \* on[a]: the timer of its call
  disarming,       \* disarming[a]: the item it disarms
  queued,          \* queued[a]: the item it queues
  mutex,           \* the holder of PosixConditionBase::mutex_
  waitItem,        \* waitItem[x]: wait_item_
  callback,        \* callback[x]: callback_, as the item whose set passed it
  signal,          \* the timers whose signal_ is true
  newest,          \* newest[x]: the item of x queued last (history)
  clean,           \* clean[a]: no set overlaps a's call (history)
  stopped          \* the timers cancelled, and not set since (history)

timerVars ==
  <<itemState, timer, recurs, buffer, waitQueue, thread, firing, copied, made, at, setting, on,
    disarming, queued, mutex, waitItem, callback, signal, newest, clean, stopped>>

TimersInit ==
  /\ itemState = [i \in WaitItems |-> "new"]
  /\ timer = [i \in WaitItems |-> None]
  /\ recurs = {} /\ buffer = {} /\ waitQueue = {}
  /\ thread = "take"
  /\ firing = None /\ copied = None
  /\ made = 0
  /\ at = [a \in Agents |-> "idle"]
  /\ setting = [a \in Agents |-> FALSE]
  /\ on = [a \in Agents |-> None]
  /\ disarming = [a \in Agents |-> None]
  /\ queued = [a \in Agents |-> None]
  /\ mutex = None
  /\ waitItem = [x \in Timers |-> None]
  /\ callback = [x \in Timers |-> None]
  /\ signal = {}
  /\ newest = [x \in Timers |-> None]
  /\ clean = [a \in Agents |-> FALSE]
  /\ stopped = {}

items == <<timer, recurs, buffer, waitQueue>>
dispatching == <<thread, firing, copied>>

-----------------------------------------------------------------------------
(* Cancel, SetOnce and SetRepeating, by a thread or by a callback.  All     *)
(* begin with Cancel, which reads wait_item_ without the mutex.  (It is     *)
(* assigned under the mutex: a read that overlaps the assignment is a data  *)
(* race, for which the model takes the old or the new pointer.)  The        *)
(* destructor is a Cancel after which nobody calls.                         *)

MayCall(a) ==
  /\ at[a] = "idle"
  /\ a = Dispatcher => thread = "callback" /\ made < Calls

\* Bound: an item is left for every set that has not queued its own yet.
ItemsLeft ==
  Cardinality({i \in WaitItems : timer[i] = None})
    > Cardinality({a \in Agents : setting[a] /\ queued[a] = None})

\* A caller is in a call that sets x.
BeingSet(x) == \E a \in Agents : at[a] # "idle" /\ setting[a] /\ on[a] = x

\* Mutant: setting a timer leaves its item in the queue.
OnlyCancelDisarms(x, set) == IF set THEN None ELSE waitItem[x]

Outstanding(x, set) == waitItem[x]

CallTimer(a, x, set) ==
  /\ MayCall(a)
  /\ set => ItemsLeft /\ (OneSetter => ~BeingSet(x))
  /\ disarming' = [disarming EXCEPT ![a] = Outstanding(x, set)]
  /\ at' = [at EXCEPT ![a] = "disarm"]
  /\ setting' = [setting EXCEPT ![a] = set]
  /\ on' = [on EXCEPT ![a] = x]
  /\ made' = IF a = Dispatcher THEN made + 1 ELSE made
  /\ clean' = [b \in Agents |->
                 IF b = a THEN ~set /\ ~BeingSet(x)
                 ELSE clean[b] /\ ~(set /\ on[b] = x)]
  /\ stopped' = IF set THEN stopped \ {x} ELSE stopped
  /\ UNCHANGED <<itemState, items, dispatching, queued, mutex, waitItem, callback, signal,
                 newest>>

\* Mutant: Disarm does not wait for a callback that is running.
NotYetOver(i) == itemState[i] \in {"idle", "inCallback", "disarmed"}

\* What ends the loop of Disarm.
CanDisarm(i) == itemState[i] \in {"idle", "disarmed"}

(* TimerQueueWaitItem::Disarm, if the weak pointer still leads to an item.  *)
Disarmed(a) ==
  \/ /\ disarming[a] = None
     /\ UNCHANGED itemState
  \/ /\ disarming[a] # None
     /\ a = Dispatcher /\ itemState[disarming[a]] = "inCallback"
     /\ itemState' = [itemState EXCEPT ![disarming[a]] = "selfDisarmed"]
  \/ /\ disarming[a] # None
     /\ CanDisarm(disarming[a])
     /\ itemState' = [itemState EXCEPT ![disarming[a]] = "disarmed"]

\* The call has returned, and its locals are gone.
Idle(a) ==
  /\ at' = [at EXCEPT ![a] = "idle"]
  /\ setting' = [setting EXCEPT ![a] = FALSE]
  /\ on' = [on EXCEPT ![a] = None]
  /\ disarming' = [disarming EXCEPT ![a] = None]
  /\ queued' = [queued EXCEPT ![a] = None]
  /\ clean' = [clean EXCEPT ![a] = FALSE]

CancelReturns(a) ==
  /\ at[a] = "disarm" /\ ~setting[a]
  /\ Disarmed(a)
  /\ Idle(a)
  /\ stopped' = IF clean[a] THEN stopped \union {on[a]} ELSE stopped
  /\ UNCHANGED <<items, dispatching, made, mutex, waitItem, callback, signal, newest>>

SetCancels(a) ==
  /\ at[a] = "disarm" /\ setting[a]
  /\ Disarmed(a)
  /\ at' = [at EXCEPT ![a] = "lock"]
  /\ disarming' = [disarming EXCEPT ![a] = None]
  /\ UNCHANGED <<items, dispatching, made, setting, on, queued, mutex, waitItem,
                 callback, signal, newest, clean, stopped>>

(* The lock is taken: the callback is stored, the signal is reset.          *)
Lock(a) ==
  /\ at[a] = "lock"
  /\ mutex = None
  /\ mutex' = a
  /\ \E i \in WaitItems :
       /\ timer[i] = None /\ \A j \in 1 .. i - 1 : timer[j] # None
       /\ timer' = [timer EXCEPT ![i] = on[a]]
       /\ recurs' \in {recurs, recurs \union {i}}
       /\ queued' = [queued EXCEPT ![a] = i]
       /\ callback' = [callback EXCEPT ![on[a]] = i]
  /\ signal' = signal \ {on[a]}
  /\ at' = [at EXCEPT ![a] = "queue"]
  /\ UNCHANGED <<itemState, buffer, waitQueue, dispatching, made, setting, on, disarming,
                 waitItem, newest, clean, stopped>>

(* QueueTimer waits for a slot of the ring, with the mutex held.            *)
Queue(a) ==
  /\ at[a] = "queue"
  /\ Cardinality(buffer) < RingSize
  /\ buffer' = buffer \union {queued[a]}
  /\ itemState' = [itemState EXCEPT ![queued[a]] = "idle"]
  /\ newest' = [newest EXCEPT ![on[a]] = queued[a]]
  /\ at' = [at EXCEPT ![a] = "assign"]
  /\ UNCHANGED <<timer, recurs, waitQueue, dispatching, made, setting, on, disarming, queued,
                 mutex, waitItem, callback, signal, clean, stopped>>

\* Mutant: the timer keeps the pointer it has.
KeptItem(x, i) == IF waitItem[x] = None THEN i ELSE waitItem[x]

NewItem(x, i) == i

(* wait_item_ is assigned and the mutex given up.                           *)
SetReturns(a) ==
  /\ at[a] = "assign"
  /\ waitItem' = [waitItem EXCEPT ![on[a]] = NewItem(on[a], queued[a])]
  /\ mutex' = None
  /\ Idle(a)
  /\ UNCHANGED <<itemState, items, dispatching, made, callback, signal, newest, stopped>>

(* A wait on a signaled timer; how threads wait is PosixConditions' matter. *)
Wait(x) ==
  /\ mutex = None
  /\ x \in signal \intersect Synchronization
  /\ signal' = signal \ {x}
  /\ UNCHANGED <<itemState, items, dispatching, made, at, setting, on, disarming, queued, mutex,
                 waitItem, callback, newest, clean, stopped>>

-----------------------------------------------------------------------------
(* The dispatch thread and CompletionRoutine. *)

callers == <<setting, on, disarming, queued, waitItem, newest, clean, stopped>>

TakeItems ==
  /\ thread = "take"
  /\ buffer # {}
  /\ waitQueue' = waitQueue \union buffer
  /\ buffer' = {}
  /\ UNCHANGED <<itemState, timer, recurs, dispatching, made, at, mutex, callback, signal,
                 callers>>

Expire ==
  /\ thread = "take"
  /\ \E i \in waitQueue :
       /\ waitQueue' = waitQueue \ {i}
       /\ \/ /\ itemState[i] = "idle"
             /\ itemState' = [itemState EXCEPT ![i] = "inCallback"]
             /\ thread' = "signal"
             /\ firing' = i
          \/ /\ itemState[i] # "idle"
             /\ UNCHANGED <<itemState, thread, firing>>
  /\ UNCHANGED <<timer, recurs, buffer, copied, made, at, mutex, callback, signal, callers>>

Signal ==
  /\ thread = "signal"
  /\ mutex = None
  /\ signal' = signal \union {timer[firing]}
  /\ thread' = "copy"
  /\ UNCHANGED <<itemState, items, firing, copied, made, at, mutex, callback, callers>>

\* Mutant: the callback is run with the mutex held.
RunsLocked == Dispatcher
RunsUnlocked == None

MutexInCallback == RunsUnlocked

CopyCallback ==
  /\ thread = "copy"
  /\ mutex = None
  /\ copied' = callback[timer[firing]]
  /\ mutex' = MutexInCallback
  /\ thread' = "callback"
  /\ UNCHANGED <<itemState, items, firing, made, at, callback, signal, callers>>

(* The callback returns to the dispatch thread, which arms the item again   *)
(* if it recurs and has not been disarmed in its callback.                  *)
Return ==
  /\ thread = "callback" /\ at[Dispatcher] = "idle"
  /\ LET rearm == firing \in recurs /\ itemState[firing] # "selfDisarmed"
     IN  /\ itemState' = [itemState EXCEPT ![firing] = IF rearm THEN "idle" ELSE "disarmed"]
         /\ waitQueue' = IF rearm THEN waitQueue \union {firing} ELSE waitQueue
  /\ mutex' = IF mutex = Dispatcher THEN None ELSE mutex
  /\ thread' = "take"
  /\ firing' = None /\ copied' = None
  /\ made' = 0
  /\ UNCHANGED <<timer, recurs, buffer, at, callback, signal, callers>>

-----------------------------------------------------------------------------
DispatchTimers == TakeItems \/ Expire \/ Signal \/ CopyCallback \/ Return

ContinueCall(a) == CancelReturns(a) \/ SetCancels(a) \/ Lock(a) \/ Queue(a) \/ SetReturns(a)

TimersNext ==
  \/ DispatchTimers
  \/ \E x \in Timers : Wait(x)
  \/ \E a \in Agents :
       ContinueCall(a) \/ \E x \in Timers, set \in BOOLEAN : CallTimer(a, x, set)

TimersSpec == TimersInit /\ [][TimersNext]_timerVars

(* The mutex and the exchange that a Disarm repeats are fair: who tries     *)
(* again and again gets its turn.                                           *)
FairTimersSpec ==
  /\ TimersSpec
  /\ SF_timerVars(DispatchTimers)
  /\ \A a \in Agents : SF_timerVars(ContinueCall(a))

-----------------------------------------------------------------------------
(* Properties. *)

Places == {"idle", "disarm", "lock", "queue", "assign"}

TimersTypeOK ==
  /\ itemState \in [WaitItems -> {"new", "idle", "inCallback", "selfDisarmed", "disarmed"}]
  /\ timer \in [WaitItems -> Timers \union {None}]
  /\ recurs \subseteq WaitItems /\ buffer \subseteq WaitItems /\ waitQueue \subseteq WaitItems
  /\ thread \in {"take", "signal", "copy", "callback"}
  /\ firing \in WaitItems \union {None} /\ copied \in WaitItems \union {None}
  /\ made \in 0 .. Calls
  /\ at \in [Agents -> Places]
  /\ setting \in [Agents -> BOOLEAN] /\ clean \in [Agents -> BOOLEAN]
  /\ on \in [Agents -> Timers \union {None}]
  /\ disarming \in [Agents -> WaitItems \union {None}]
  /\ queued \in [Agents -> WaitItems \union {None}]
  /\ mutex \in Agents \union {None}
  /\ waitItem \in [Timers -> WaitItems \union {None}]
  /\ callback \in [Timers -> WaitItems \union {None}]
  /\ newest \in [Timers -> WaitItems \union {None}]
  /\ signal \subseteq Timers /\ stopped \subseteq Timers

Armed(i) == itemState[i] \in {"idle", "inCallback"}

\* A Cancel that overlaps no set stops the timer: none of its items is in the
\* queue to signal it, or between its expiry and the end of its callback,
\* until somebody sets the timer again.
CancelIsFinal == \A i \in WaitItems : Armed(i) => timer[i] \notin stopped

\* Only the item of the last set signals a timer: no expiry of an earlier one
\* comes after the set has reset the signal.
OnlyTheLastSetSignals ==
  [][\A x \in Timers : x \in signal' \ signal => firing = newest[x]]_timerVars

\* The callback that is run is the one given with the item that expired, though
\* the dispatch thread reads it from the timer after it gave up the mutex.
RunsItsOwnCallback == thread = "callback" => copied = firing

\* The ring is full, the holder of the mutex waits for a slot, and the only
\* thread that makes slots waits for the mutex, or is the holder.
Clogged ==
  /\ Cardinality(buffer) = RingSize
  /\ mutex # None /\ at[mutex] = "queue"
  /\ thread \in {"signal", "copy"} \/ at[Dispatcher] \in {"lock", "queue"}

\* Every call on a timer returns, also one from a callback, and also when it
\* cancels an item whose callback sets the timer; unless the ring clogs.
CallsReturn == \A a \in Agents : []<>(at[a] = "idle" \/ Clogged)

=============================================================================
