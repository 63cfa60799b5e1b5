---------------------------- MODULE TimerQueue ----------------------------
(***************************************************************************)
(* The timer queue of base/threading_timer_queue.cc.  Threads put wait     *)
(* items into a ring; one dispatch thread moves them to its list, sorted   *)
(* by due time, and runs the callbacks of those that are due.  An item's   *)
(* atomic state decides, without a lock, between the dispatch thread that  *)
(* wants to run the callback and a thread that disarms the item.           *)
(***************************************************************************)
EXTENDS Naturals, Sequences, FiniteSets

CONSTANTS
  Items,          \* the wait items; each is queued once
  Kick,           \* the item the destructor queues
  NoItem,
  Threads,        \* the threads that queue and disarm items
  Interval,       \* [Items -> Nat]: interval_, 0 if the item does not recur
  Capacity,       \* kWaitCount, the size of the ring: 512
  MaxTime,        \* bound: the last instant of the clock
  DisarmCalls     \* bound: how often one callback calls Disarm

AllItems == Items \union {Kick}

ASSUME ItemAssumption ==
  /\ Kick \notin Items /\ NoItem \notin AllItems
  /\ Interval \in [Items -> Nat]
ASSUME BoundAssumption ==
  Capacity \in Nat \ {0} /\ MaxTime \in Nat /\ DisarmCalls \in Nat

VARIABLES
  state,      \* state[i]: state_, or "new" before the item exists
  due,        \* due[i]: due_
  ring,       \* buffer_ from the first slot not consumed on: its items, and
              \* whether each slot has been published
  queue,      \* wait_queue_, as the set that is kept sorted
  again,      \* the items to merge back into the queue: the local wait_items
  dispatcher, \* where the dispatch thread is
  current,    \* its wait_item
  calls,      \* how often the running callback has called Disarm
  target,     \* the item it is disarming
  pc,         \* pc[t]: where thread t is
  item,       \* item[t]: the item it queues or disarms
  shutdown,   \* shutdown_, and how far the destructor is
  now,        \* the clock
  disarmed    \* the items whose Disarm has returned (history)

vars == <<state, due, ring, queue, again, dispatcher, current, calls, target, pc, item,
          shutdown, now, disarmed>>

Init ==
  /\ state = [i \in AllItems |-> "new"]
  /\ due = [i \in AllItems |-> 0]
  /\ ring = <<>>
  /\ queue = {} /\ again = {}
  /\ dispatcher = "top"
  /\ current = NoItem
  /\ calls = 0
  /\ target = NoItem
  /\ pc = [t \in Threads |-> "idle"]
  /\ item = [t \in Threads |-> NoItem]
  /\ shutdown = "no"
  /\ now = 0
  /\ disarmed = {}

-----------------------------------------------------------------------------
(* QueueTimer.  The slot is claimed, filled and published in three steps;   *)
(* a claim waits while the ring is full.                                    *)

Slot(i) == [item |-> i, published |-> FALSE]

\* due_ = max(now - interval_, due_)
Mitigated(i, d) ==
  IF Interval[i] <= now /\ now - Interval[i] > d THEN now - Interval[i] ELSE d

QueueTimer(t, i) ==
  /\ pc[t] = "idle" /\ shutdown = "no"
  /\ state[i] = "new"
  /\ \E d \in 0 .. MaxTime : due' = [due EXCEPT ![i] = Mitigated(i, d)]
  /\ state' = [state EXCEPT ![i] = "idle"]
  /\ pc' = [pc EXCEPT ![t] = "claim"]
  /\ item' = [item EXCEPT ![t] = i]
  /\ UNCHANGED <<ring, queue, again, dispatcher, current, calls, target, shutdown, now, disarmed>>

Claim(t) ==
  /\ pc[t] = "claim"
  /\ Len(ring) < Capacity
  /\ ring' = Append(ring, Slot(item[t]))
  /\ pc' = [pc EXCEPT ![t] = "publish"]
  /\ UNCHANGED <<state, due, queue, again, dispatcher, current, calls, target, item, shutdown,
                 now, disarmed>>

Published(i) ==
  ring' = [k \in DOMAIN ring |->
             IF ring[k].item = i THEN [ring[k] EXCEPT !.published = TRUE] ELSE ring[k]]

Publish(t) ==
  /\ pc[t] = "publish"
  /\ Published(item[t])
  /\ pc' = [pc EXCEPT ![t] = "idle"]
  /\ item' = [item EXCEPT ![t] = NoItem]
  /\ UNCHANGED <<state, due, queue, again, dispatcher, current, calls, target, shutdown, now,
                 disarmed>>

-----------------------------------------------------------------------------
(* Disarm by a thread other than the dispatch thread.                       *)

Disarm(t, i) ==
  /\ pc[t] = "idle"
  /\ state[i] # "new"
  /\ \A u \in Threads : item[u] = i => pc[u] = "disarm"
  /\ pc' = [pc EXCEPT ![t] = "disarm"]
  /\ item' = [item EXCEPT ![t] = i]
  /\ UNCHANGED <<state, due, ring, queue, again, dispatcher, current, calls, target, shutdown,
                 now, disarmed>>

\* Mutant: Disarm does not wait for a callback that is running.
NotYetDone(i) == state[i] \in {"idle", "inCallback", "disarmed"}

\* What ends the loop of Disarm.
Disarmable(i) == state[i] \in {"idle", "disarmed"}

(* One round of its loop that ends it.  In any other state it spins.        *)
DisarmExchange(t) ==
  /\ pc[t] = "disarm"
  /\ Disarmable(item[t])
  /\ state' = [state EXCEPT ![item[t]] = "disarmed"]
  /\ disarmed' = disarmed \union {item[t]}
  /\ pc' = [pc EXCEPT ![t] = "idle"]
  /\ item' = [item EXCEPT ![t] = NoItem]
  /\ UNCHANGED <<due, ring, queue, again, dispatcher, current, calls, target, shutdown, now>>

-----------------------------------------------------------------------------
(* The dispatch thread: TimerThreadMain. *)

dispatched == <<pc, item, shutdown, now>>

\* Mutant: the loop does not look at the flag.
LoopForever ==
  /\ dispatcher = "top"
  /\ dispatcher' = "wait"
  /\ UNCHANGED <<state, due, ring, queue, again, current, calls, disarmed, target, dispatched>>

CheckShutdown ==
  /\ dispatcher = "top"
  /\ dispatcher' = IF shutdown = "no" THEN "wait" ELSE "exited"
  /\ UNCHANGED <<state, due, ring, queue, again, current, calls, disarmed, target, dispatched>>

IsDue(i) == due[i] <= now
Front(i) == i \in queue /\ \A j \in queue : due[i] <= due[j]

\* The first n slots of the ring are published, and no more.
Available(n) ==
  /\ \A k \in 1 .. n : ring[k].published
  /\ n < Len(ring) => ~ring[n + 1].published

(* wait_until_published returns with new items ...                          *)
TakeNewItems ==
  /\ dispatcher = "wait"
  /\ \E n \in 1 .. Len(ring) :
       /\ Available(n)
       /\ queue' = queue \union {ring[k].item : k \in 1 .. n}
       /\ ring' = SubSeq(ring, n + 1, Len(ring))
  /\ dispatcher' = "due"
  /\ UNCHANGED <<state, due, again, current, calls, disarmed, target, dispatched>>

(* ... or because the first item of the queue is due.                       *)
WaitTimesOut ==
  /\ dispatcher = "wait"
  /\ Available(0)
  /\ \E i \in queue : Front(i) /\ IsDue(i)
  /\ dispatcher' = "due"
  /\ UNCHANGED <<state, due, ring, queue, again, current, calls, disarmed, target, dispatched>>

PopDue ==
  /\ dispatcher = "due"
  /\ \E i \in queue :
       /\ Front(i) /\ IsDue(i)
       /\ queue' = queue \ {i}
       /\ current' = i
  /\ dispatcher' = "exchange"
  /\ UNCHANGED <<state, due, ring, again, calls, disarmed, target, dispatched>>

\* Mutant: the rescheduled items are not merged back.
DropRescheduled == queue

\* wait_queue_.merge(wait_items)
Merged == queue \union again

NothingDue ==
  /\ dispatcher = "due"
  /\ \A i \in queue : ~IsDue(i)
  /\ queue' = Merged
  /\ again' = {}
  /\ dispatcher' = "top"
  /\ UNCHANGED <<state, due, ring, current, calls, disarmed, target, dispatched>>

StartCallback ==
  /\ dispatcher = "exchange"
  /\ state[current] = "idle"
  /\ state' = [state EXCEPT ![current] = "inCallback"]
  /\ dispatcher' = "callback"
  /\ UNCHANGED <<due, ring, queue, again, current, calls, disarmed, target, dispatched>>

SkipDisarmed ==
  /\ dispatcher = "exchange"
  /\ state[current] # "idle"
  /\ current' = NoItem
  /\ dispatcher' = "due"
  /\ UNCHANGED <<state, due, ring, queue, again, calls, disarmed, target, dispatched>>

(* The callback calls Disarm, on its own item or on another.  The exchange  *)
(* for an item in its callback succeeds once; everything else goes on to    *)
(* the loop of the normal case.                                             *)
CallbackDisarms(j) ==
  /\ dispatcher = "callback"
  /\ calls < DisarmCalls
  /\ state[j] # "new"
  /\ \A u \in Threads : item[u] = j => pc[u] = "disarm"
  /\ calls' = calls + 1
  /\ \/ /\ state[j] = "inCallback"
        /\ state' = [state EXCEPT ![j] = "selfDisarmed"]
        /\ UNCHANGED <<dispatcher, target>>
     \/ /\ state[j] # "inCallback"
        /\ dispatcher' = "disarm"
        /\ target' = j
        /\ UNCHANGED state
  /\ UNCHANGED <<due, ring, queue, again, current, disarmed, dispatched>>

CallbackExchange ==
  /\ dispatcher = "disarm"
  /\ Disarmable(target)
  /\ state' = [state EXCEPT ![target] = "disarmed"]
  /\ disarmed' = disarmed \union {target}
  /\ dispatcher' = "callback"
  /\ target' = NoItem
  /\ UNCHANGED <<due, ring, queue, again, current, calls, dispatched>>

Recurs(i) == i \in Items /\ Interval[i] > 0

StateAfterCallback(rearm) == IF rearm THEN "idle" ELSE "disarmed"

(* The callback returns.  A recurring item that has not disarmed itself is  *)
(* armed again; nothing else can leave "inCallback", so that looking at the *)
(* state and storing the new one are one step.                              *)
CallbackReturns ==
  /\ dispatcher = "callback"
  /\ LET rearm == Recurs(current) /\ state[current] # "selfDisarmed"
     IN  /\ state' = [state EXCEPT ![current] = StateAfterCallback(rearm)]
         /\ due' = [due EXCEPT ![current] = IF rearm THEN @ + Interval[current] ELSE @]
         /\ again' = IF rearm THEN again \union {current} ELSE again
         /\ disarmed' = IF state[current] = "selfDisarmed"
                        THEN disarmed \union {current} ELSE disarmed
  /\ current' = NoItem
  /\ dispatcher' = "due"
  /\ calls' = 0
  /\ UNCHANGED <<ring, queue, target, dispatched>>

-----------------------------------------------------------------------------
(* The destructor: raise the flag, queue an item that is disarmed so that   *)
(* the dispatch thread looks at the flag, and join.                         *)

StartShutdown ==
  /\ shutdown = "no"
  /\ \A t \in Threads : pc[t] = "idle"
  /\ shutdown' = "raised"
  /\ state' = [state EXCEPT ![Kick] = "disarmed"]
  /\ UNCHANGED <<due, ring, queue, again, dispatcher, current, calls, target, pc, item, now,
                 disarmed>>

QueueKick ==
  /\ shutdown = "raised"
  /\ Len(ring) < Capacity
  /\ ring' = Append(ring, [item |-> Kick, published |-> TRUE])
  /\ due' = [due EXCEPT ![Kick] = now]
  /\ shutdown' = "join"
  /\ UNCHANGED <<state, queue, again, dispatcher, current, calls, target, pc, item, now,
                 disarmed>>

Join ==
  /\ shutdown = "join"
  /\ dispatcher = "exited"
  /\ shutdown' = "joined"
  /\ UNCHANGED <<state, due, ring, queue, again, dispatcher, current, calls, target, pc, item,
                 now, disarmed>>

Tick ==
  /\ now < MaxTime
  /\ now' = now + 1
  /\ UNCHANGED <<state, due, ring, queue, again, dispatcher, current, calls, target, pc, item,
                 shutdown, disarmed>>

-----------------------------------------------------------------------------
Dispatch ==
  \/ CheckShutdown \/ TakeNewItems \/ WaitTimesOut \/ PopDue \/ NothingDue
  \/ StartCallback \/ SkipDisarmed \/ CallbackExchange \/ CallbackReturns

CallbackSteps == \E j \in Items : CallbackDisarms(j)

Call(t) == \E i \in Items : QueueTimer(t, i) \/ Disarm(t, i)
Continue(t) == Claim(t) \/ Publish(t) \/ DisarmExchange(t)

Destroy == QueueKick \/ Join

Next ==
  \/ Dispatch \/ CallbackSteps \/ StartShutdown \/ Destroy \/ Tick
  \/ \E t \in Threads : Call(t) \/ Continue(t)

Spec == Init /\ [][Next]_vars

(* The dispatch thread runs, a callback ends, a thread inside a call goes   *)
(* on, time passes, and a destructor that has begun continues.              *)
FairSpec ==
  /\ Spec
  /\ WF_vars(Dispatch) /\ WF_vars(Destroy) /\ WF_vars(Tick)
  /\ \A t \in Threads : WF_vars(Continue(t))

-----------------------------------------------------------------------------
(* Properties. *)

States == {"new", "idle", "inCallback", "selfDisarmed", "disarmed"}

TypeOK ==
  /\ state \in [AllItems -> States]
  /\ due \in [AllItems -> Nat]
  /\ ring \in Seq([item : AllItems, published : BOOLEAN])
  /\ queue \subseteq AllItems /\ again \subseteq AllItems
  /\ dispatcher \in {"top", "wait", "due", "exchange", "callback", "disarm", "exited"}
  /\ current \in AllItems \union {NoItem}
  /\ calls \in 0 .. DisarmCalls
  /\ target \in Items \union {NoItem}
  /\ pc \in [Threads -> {"idle", "claim", "publish", "disarm"}]
  /\ item \in [Threads -> Items \union {NoItem}]
  /\ shutdown \in {"no", "raised", "join", "joined"}
  /\ now \in 0 .. MaxTime
  /\ disarmed \subseteq Items

Running(i) == dispatcher \in {"callback", "disarm"} /\ current = i

\* Once Disarm has returned, or the callback that disarmed its own item has,
\* the item's callback is not running and never runs again.
NoCallbackOnceDisarmed == \A i \in disarmed : ~Running(i) /\ state[i] = "disarmed"

\* The dispatch thread never meets an item that is in its callback already:
\* the assertion after its failed exchange holds.
NeverInCallbackTwice ==
  dispatcher = "exchange" => Disarmable(current)

\* An armed item does not stay due: it is dispatched or disarmed sooner or
\* later, unless the queue is destroyed.
DueItemIsDispatched ==
  \A i \in Items : []<>(state[i] # "idle" \/ ~IsDue(i) \/ shutdown # "no")

\* The destructor ends: the dispatch thread sees the flag and is joined.  It
\* does not if the dispatch thread sees the flag while the ring is full: then
\* nobody makes room for the item that the destructor queues.
NoRoomLeft == dispatcher = "exited" /\ shutdown = "raised" /\ Len(ring) = Capacity
DestructorEnds == []<>(shutdown \in {"no", "joined"} \/ NoRoomLeft)

\* Disarm called from a callback returns, also when the item is the one whose
\* callback is running.
CallbackDisarmReturns == (dispatcher = "disarm") ~> (dispatcher # "disarm")

=============================================================================
