----------------------------- MODULE TimerProofs -----------------------------
(***************************************************************************)
(* Proofs about the timers: what Disarm promises, for every number of      *)
(* items and threads, every interval and every size of the ring; and about *)
(* the timers that are wait objects above it, for every set of timers and  *)
(* threads and every number of calls in a callback.                        *)
(***************************************************************************)
EXTENDS TimerQueue, PosixTimers, SequenceTheorems, TLAPS

-----------------------------------------------------------------------------
(***************************************************************************)
(* The timer queue.                                                        *)
(***************************************************************************)

(* The inductive invariant.  What is on its way to a callback exists; the    *)
(* item of the running callback, and no other, is in a state that says so;   *)
(* the destructor's item is disarmed from the first; a Disarm that has       *)
(* returned is for good.                                                     *)

Exists(i) == state[i] # "new"

ItemsExist ==
  /\ \A k \in 1 .. Len(ring) : Exists(ring[k].item)
  /\ \A i \in queue \union again : Exists(i)
  /\ \A t \in Threads : pc[t] # "idle" => item[t] \in Items /\ Exists(item[t])
  /\ dispatcher \in {"exchange", "callback", "disarm"} =>
       current \in AllItems /\ Exists(current)
  /\ dispatcher = "disarm" => target \in Items /\ Exists(target)

InCallback(i) == state[i] \in {"inCallback", "selfDisarmed"}

OneInCallback ==
  /\ \A i \in AllItems : InCallback(i) => Running(i)
  /\ dispatcher \in {"callback", "disarm"} => InCallback(current)

KickIsDisarmed ==
  /\ shutdown = "no" => state[Kick] = "new"
  /\ shutdown # "no" => state[Kick] = "disarmed"

ForGood == \A i \in disarmed : state[i] = "disarmed"

QueueInv == TypeOK /\ ItemsExist /\ OneInCallback /\ KickIsDisarmed /\ ForGood

-----------------------------------------------------------------------------
LEMMA InitQueue == Init => QueueInv
<1> SUFFICES ASSUME Init PROVE QueueInv OBVIOUS
<1>1. TypeOK BY BoundAssumption DEF Init, TypeOK, States
<1>2. ItemsExist BY DEF Init, ItemsExist
<1>3. OneInCallback /\ KickIsDisarmed /\ ForGood
  BY ItemAssumption
  DEF Init, OneInCallback, InCallback, KickIsDisarmed, ForGood, AllItems
<1> QED BY <1>1, <1>2, <1>3 DEF QueueInv

(* The ring: appended to, marked and cut, it holds slots of known items.     *)

Slots == [item : AllItems, published : BOOLEAN]

LEMMA AppendedExist ==
  ASSUME ring \in Seq(Slots), \A k \in 1 .. Len(ring) : Exists(ring[k].item),
         NEW i, Exists(i), Slot(i) \in Slots
  PROVE  LET appended == Append(ring, Slot(i))
         IN  /\ appended \in Seq(Slots)
             /\ \A k \in 1 .. Len(appended) : Exists(appended[k].item)
<1> DEFINE appended == Append(ring, Slot(i))
<1>1. /\ appended \in Seq(Slots) /\ Len(appended) = Len(ring) + 1
      /\ \A k \in 1 .. Len(ring) : appended[k] = ring[k]
      /\ appended[Len(ring) + 1] = Slot(i)
  BY AppendProperties
<1>2. ASSUME NEW k \in 1 .. Len(appended) PROVE Exists(appended[k].item)
  <2>1. CASE k \in 1 .. Len(ring) BY <1>1, <2>1
  <2>2. CASE k = Len(ring) + 1
    <3>1. appended[k].item = i BY <1>1, <2>2 DEF Slot
    <3> QED BY <3>1
  <2> HIDE DEF appended
  <2> QED BY <1>1, <2>1, <2>2, LenProperties
<1> QED BY <1>1, <1>2

LEMMA MarkedExist ==
  ASSUME ring \in Seq(Slots), NEW i, Published(i)
  PROVE  /\ ring' \in Seq(Slots) /\ Len(ring') = Len(ring)
         /\ \A k \in 1 .. Len(ring) : ring'[k].item = ring[k].item
<1> DEFINE mark == [k \in 1 .. Len(ring) |->
                     IF ring[k].item = i THEN [ring[k] EXCEPT !.published = TRUE] ELSE ring[k]]
<1>1. Len(ring) \in Nat /\ DOMAIN ring = 1 .. Len(ring)
      /\ \A k \in 1 .. Len(ring) : ring[k] \in Slots
  BY LenProperties, ElementOfSeq
<1>2. ring' = mark BY <1>1 DEF Published
<1>3. ASSUME NEW k \in 1 .. Len(ring)
      PROVE  mark[k] \in Slots /\ mark[k].item = ring[k].item
  BY <1>1 DEF Slots
<1>4. mark \in [1 .. Len(ring) -> Slots]
  <2>1. mark = [k \in 1 .. Len(ring) |-> mark[k]] OBVIOUS
  <2> HIDE DEF mark
  <2> QED BY <1>3, <2>1
<1>5. mark \in Seq(Slots) /\ Len(mark) = Len(ring)
  <2> HIDE DEF mark
  <2> QED BY <1>1, <1>4
<1> QED BY <1>2, <1>3, <1>5

-----------------------------------------------------------------------------
(* The threads that queue and disarm.                                        *)

LEMMA ThreadStep ==
  ASSUME QueueInv, NEW t \in Threads, Call(t) \/ Continue(t)
  PROVE  QueueInv'
<1> USE ItemAssumption, BoundAssumption
    DEF QueueInv, ItemsExist, Exists, OneInCallback, InCallback, Running, KickIsDisarmed,
        ForGood,
        TypeOK, States, AllItems
<1>1. ASSUME NEW i \in Items, QueueTimer(t, i) PROVE QueueInv'
  <2>1. PICK d \in 0 .. MaxTime : due' = [due EXCEPT ![i] = Mitigated(i, d)]
    BY <1>1 DEF QueueTimer
  <2>2. Mitigated(i, d) \in Nat BY DEF Mitigated
  <2>3. TypeOK' BY <1>1, <2>1, <2>2 DEF QueueTimer
  <2>4. ItemsExist' BY <1>1 DEF QueueTimer
  <2>5. OneInCallback' /\ KickIsDisarmed' /\ ForGood' BY <1>1 DEF QueueTimer
  <2> QED BY <2>3, <2>4, <2>5
<1>2. ASSUME NEW i \in Items, Disarm(t, i) PROVE QueueInv' BY <1>2 DEF Disarm
<1>3. CASE Claim(t)
  <2>1. item[t] \in Items /\ Exists(item[t]) BY <1>3 DEF Claim
  <2>2. ring' = Append(ring, Slot(item[t])) /\ Slot(item[t]) \in Slots
    BY <1>3, <2>1 DEF Claim, Slot, Slots
  <2>3. /\ ring' \in Seq(Slots)
        /\ \A k \in 1 .. Len(ring') : Exists(ring'[k].item)
    <3>1. ring \in Seq(Slots) /\ \A k \in 1 .. Len(ring) : Exists(ring[k].item)
      BY DEF Slots
    <3> HIDE DEF QueueInv, Exists
    <3> QED BY <2>1, <2>2, <3>1, AppendedExist
  <2> QED BY <1>3, <2>3 DEF Claim, Slots
<1>4. CASE Publish(t)
  <2>1. ring \in Seq(Slots) BY DEF Slots
  <2>2. /\ ring' \in Seq(Slots) /\ Len(ring') = Len(ring)
        /\ \A k \in 1 .. Len(ring) : ring'[k].item = ring[k].item
    BY <1>4, <2>1, MarkedExist DEF Publish
  <2> QED BY <1>4, <2>2 DEF Publish, Slots
<1>5. CASE DisarmExchange(t) BY <1>5 DEF DisarmExchange, Disarmable
<1> QED BY <1>1, <1>2, <1>3, <1>4, <1>5 DEF Call, Continue

(* The dispatch thread.                                                      *)

LEMMA CutExist ==
  ASSUME ring \in Seq(Slots), \A k \in 1 .. Len(ring) : Exists(ring[k].item),
         NEW n \in 1 .. Len(ring)
  PROVE  LET rest == SubSeq(ring, n + 1, Len(ring))
         IN  /\ rest \in Seq(Slots)
             /\ \A k \in 1 .. Len(rest) : Exists(rest[k].item)
<1> DEFINE rest == SubSeq(ring, n + 1, Len(ring))
<1>1. Len(ring) \in Nat /\ \A k \in 1 .. Len(ring) : ring[k] \in Slots
  BY LenProperties, ElementOfSeq
<1>2. \A k \in n + 1 .. Len(ring) : ring[k] \in Slots BY <1>1
<1>3. /\ rest \in Seq(Slots)
      /\ Len(rest) = IF n + 1 <= Len(ring) THEN Len(ring) - (n + 1) + 1 ELSE 0
      /\ \A k \in 1 .. Len(ring) - (n + 1) + 1 : rest[k] = ring[(n + 1) + k - 1]
  BY <1>1, <1>2, SubSeqProperties
<1>4. ASSUME NEW k \in 1 .. Len(rest) PROVE Exists(rest[k].item)
  <2> HIDE DEF rest
  <2>1. (n + 1) + k - 1 \in 1 .. Len(ring) /\ rest[k] = ring[(n + 1) + k - 1]
    BY <1>1, <1>3
  <2> QED BY <2>1
<1> QED BY <1>3, <1>4

LEMMA DispatchStep ==
  ASSUME QueueInv, Dispatch \/ CallbackSteps
  PROVE  QueueInv'
<1> USE ItemAssumption, BoundAssumption
    DEF QueueInv, ItemsExist, Exists, OneInCallback, InCallback, Running, KickIsDisarmed,
        ForGood,
        TypeOK, States, AllItems, dispatched
<1>1. CASE CheckShutdown BY <1>1 DEF CheckShutdown
<1>2. CASE TakeNewItems
  <2>1. PICK n \in 1 .. Len(ring) :
          /\ queue' = queue \union {ring[k].item : k \in 1 .. n}
          /\ ring' = SubSeq(ring, n + 1, Len(ring))
    BY <1>2 DEF TakeNewItems
  <2>2. /\ ring' \in Seq(Slots)
        /\ \A k \in 1 .. Len(ring') : Exists(ring'[k].item)
    <3>1. ring \in Seq(Slots) /\ \A k \in 1 .. Len(ring) : Exists(ring[k].item)
      BY DEF Slots
    <3> HIDE DEF QueueInv, Exists
    <3> QED BY <2>1, <3>1, CutExist
  <2>3. \A i \in queue' : i \in AllItems /\ Exists(i)
    <3>1. \A k \in 1 .. n : k \in 1 .. Len(ring) /\ ring[k].item \in AllItems
      <4>1. Len(ring) \in Nat /\ \A k \in 1 .. Len(ring) : ring[k] \in Slots
        <5>1. ring \in Seq(Slots) BY DEF Slots
        <5> HIDE DEF QueueInv
        <5> QED BY <5>1, LenProperties, ElementOfSeq
      <4> QED BY <4>1 DEF Slots
    <3> QED BY <2>1, <3>1
  <2> QED BY <1>2, <2>2, <2>3 DEF TakeNewItems, Slots
<1>3. CASE WaitTimesOut BY <1>3 DEF WaitTimesOut
<1>4. CASE PopDue BY <1>4 DEF PopDue
<1>5. CASE NothingDue BY <1>5 DEF NothingDue, Merged
<1>6. CASE StartCallback BY <1>6 DEF StartCallback
<1>7. CASE SkipDisarmed BY <1>7 DEF SkipDisarmed
<1>8. CASE CallbackExchange BY <1>8 DEF CallbackExchange, Disarmable
<1>9. CASE CallbackReturns
  <2>1. current \in Items /\ InCallback(current) BY <1>9 DEF CallbackReturns
  <2> DEFINE rearm == Recurs(current) /\ state[current] # "selfDisarmed"
  <2>2. /\ state' = [state EXCEPT ![current] = StateAfterCallback(rearm)]
        /\ due' = [due EXCEPT ![current] = IF rearm THEN @ + Interval[current] ELSE @]
        /\ again' = IF rearm THEN again \union {current} ELSE again
    BY <1>9 DEF CallbackReturns
  <2>3. due' \in [AllItems -> Nat] BY <2>1, <2>2
  <2>4. StateAfterCallback(rearm) \in {"idle", "disarmed"} BY DEF StateAfterCallback
  <2>5. disarmed' = IF state[current] = "selfDisarmed" THEN disarmed \union {current} ELSE disarmed
    BY <1>9 DEF CallbackReturns
  <2>6. state[current] = "selfDisarmed" => StateAfterCallback(rearm) = "disarmed"
    BY DEF StateAfterCallback
  <2> HIDE DEF rearm
  <2>7. TypeOK' BY <1>9, <2>1, <2>2, <2>3, <2>4, <2>5 DEF CallbackReturns
  <2>8. ItemsExist' BY <1>9, <2>1, <2>2, <2>4 DEF CallbackReturns
  <2>9. OneInCallback' BY <1>9, <2>1, <2>2, <2>4 DEF CallbackReturns
  <2>10. KickIsDisarmed' BY <1>9, <2>1, <2>2 DEF CallbackReturns
  <2>11. ForGood' BY <2>1, <2>2, <2>4, <2>5, <2>6
  <2> QED BY <2>7, <2>8, <2>9, <2>10, <2>11
<1>10. ASSUME NEW j \in Items, CallbackDisarms(j) PROVE QueueInv'
  <2>1. calls' \in 0 .. DisarmCalls BY <1>10 DEF CallbackDisarms
  <2>2. UNCHANGED <<due, ring, queue, again, current, disarmed, dispatched>>
    BY <1>10 DEF CallbackDisarms
  <2>3. dispatcher = "callback" /\ state[j] # "new" BY <1>10 DEF CallbackDisarms
  <2>4. CASE /\ state[j] = "inCallback" /\ state' = [state EXCEPT ![j] = "selfDisarmed"]
             /\ UNCHANGED <<dispatcher, target>>
    BY <2>1, <2>2, <2>3, <2>4
  <2>5. CASE dispatcher' = "disarm" /\ target' = j /\ UNCHANGED state
    BY <2>1, <2>2, <2>3, <2>5
  <2> QED BY <1>10, <2>4, <2>5 DEF CallbackDisarms
<1> QED
  BY <1>1, <1>2, <1>3, <1>4, <1>5, <1>6, <1>7, <1>8, <1>9, <1>10 DEF Dispatch, CallbackSteps

(* The destructor and the clock.                                             *)

LEMMA DestructorStep ==
  ASSUME QueueInv, StartShutdown \/ Destroy \/ Tick \/ UNCHANGED vars
  PROVE  QueueInv'
<1> USE ItemAssumption, BoundAssumption
    DEF QueueInv, ItemsExist, Exists, OneInCallback, InCallback, Running, KickIsDisarmed,
        ForGood,
        TypeOK, States, AllItems
<1>1. CASE StartShutdown BY <1>1 DEF StartShutdown
<1>2. CASE QueueKick
  <2>1. ring' = Append(ring, [item |-> Kick, published |-> TRUE]) /\ Exists(Kick)
    BY <1>2 DEF QueueKick
  <2>2. ring' \in Seq(Slots) /\ \A k \in 1 .. Len(ring') : Exists(ring'[k].item)
    <3>1. ring \in Seq(Slots) /\ \A k \in 1 .. Len(ring) : Exists(ring[k].item)
      BY DEF Slots
    <3>2. [item |-> Kick, published |-> TRUE] \in Slots BY DEF Slots
    <3> HIDE DEF QueueInv, Exists
    <3>3. /\ ring' \in Seq(Slots) /\ Len(ring') = Len(ring) + 1 /\ Len(ring) \in Nat
          /\ \A k \in 1 .. Len(ring) : ring'[k] = ring[k]
          /\ ring'[Len(ring) + 1] = [item |-> Kick, published |-> TRUE]
      BY <2>1, <3>1, <3>2, AppendProperties, LenProperties
    <3> QED BY <2>1, <3>1, <3>3
  <2> QED BY <1>2, <2>2 DEF QueueKick, Slots
<1>3. CASE Join BY <1>3 DEF Join
<1>4. CASE Tick BY <1>4 DEF Tick
<1>5. CASE UNCHANGED vars BY <1>5 DEF vars
<1> QED BY <1>1, <1>2, <1>3, <1>4, <1>5 DEF Destroy

LEMMA QueueInvariant == Spec => []QueueInv
<1>1. QueueInv /\ [Next]_vars => QueueInv'
  BY ThreadStep, DispatchStep, DestructorStep DEF Next
<1> QED BY InitQueue, <1>1, PTL DEF Spec

-----------------------------------------------------------------------------

(* The states of the items, the ring, the queue and the threads are of their *)
(* types.                                                                    *)
THEOREM QueueTypes == Spec => []TypeOK
<1>1. QueueInv => TypeOK BY DEF QueueInv
<1> QED BY <1>1, QueueInvariant, PTL

(* Once Disarm has returned, or the callback that disarmed its own item, the *)
(* callback of the item is not running and never runs again.                 *)
THEOREM DisarmIsForGood == Spec => []NoCallbackOnceDisarmed
<1>1. QueueInv => NoCallbackOnceDisarmed
  BY DEF QueueInv, ForGood, OneInCallback, InCallback, Running, NoCallbackOnceDisarmed
<1> QED BY <1>1, QueueInvariant, PTL

(* The dispatch thread finds the item it would run idle or disarmed: the     *)
(* assertion after its failed exchange holds.                                *)
THEOREM ExchangeIsSound == Spec => []NeverInCallbackTwice
<1>1. QueueInv => NeverInCallbackTwice
  <2> SUFFICES ASSUME QueueInv, dispatcher = "exchange" PROVE Disarmable(current)
    BY DEF NeverInCallbackTwice
  <2>1. current \in AllItems /\ Exists(current) /\ state[current] \in States
    BY DEF QueueInv, ItemsExist, TypeOK
  <2>2. ~InCallback(current) BY <2>1 DEF QueueInv, OneInCallback, Running
  <2> QED BY <2>1, <2>2 DEF Exists, InCallback, States, Disarmable
<1> QED BY <1>1, QueueInvariant, PTL

-----------------------------------------------------------------------------
(***************************************************************************)
(* The timers that are wait objects, if no timer is set by two callers at  *)
(* once.                                                                   *)
(*                                                                         *)
(* The invariant says where an armed item is known: it is the newest of    *)
(* its timer, its callback is the timer's, and wait_item_ leads to it, or  *)
(* will when the set that queued it returns (Known).  A set that has       *)
(* cancelled, and a Cancel that no set overlaps, therefore disarm all      *)
(* there is to disarm, by the pointer they read (Targets).                 *)
(***************************************************************************)

\* A caller, by its place.
Callers ==
  \A a \in Agents :
    /\ at[a] = "idle" => ~setting[a] /\ ~clean[a]
    /\ at[a] # "idle" => on[a] \in Timers
    /\ at[a] \in {"lock", "queue", "assign"} => setting[a]
    /\ at[a] \in {"queue", "assign"} <=> mutex = a
    /\ clean[a] => ~setting[a] /\ ~BeingSet(on[a])
    /\ a = Dispatcher /\ at[a] # "idle" => thread = "callback"

\* What a caller that sets a timer has chosen.
Chosen ==
  \A a \in Agents :
    /\ at[a] \in {"queue", "assign"} => queued[a] \in WaitItems /\ timer[queued[a]] = on[a]
    /\ at[a] = "queue" => itemState[queued[a]] = "new" /\ callback[on[a]] = queued[a]
    /\ at[a] = "assign" => newest[on[a]] = queued[a]

OneSet == \A a, b \in Agents : setting[a] /\ setting[b] /\ on[a] = on[b] => a = b

Fresh == \A i \in WaitItems : timer[i] = None => itemState[i] = "new"

InItsCallback ==
  /\ thread # "take" =>
       firing \in WaitItems /\ itemState[firing] \in {"inCallback", "selfDisarmed"}
  /\ thread \in {"signal", "copy"} => itemState[firing] = "inCallback"

Assigning(i) == \E a \in Agents : at[a] = "assign" /\ on[a] = timer[i] /\ queued[a] = i

Known ==
  \A i \in WaitItems : Armed(i) =>
    /\ timer[i] \in Timers
    /\ newest[timer[i]] = i
    /\ callback[timer[i]] = i
    /\ waitItem[timer[i]] = i \/ Assigning(i)

\* No item of a timer is armed between the Cancel of a set and its new item.
Quiet ==
  \A a \in Agents, i \in WaitItems :
    at[a] \in {"lock", "queue"} /\ Armed(i) => timer[i] # on[a]

Targets ==
  \A a \in Agents :
    at[a] = "disarm" /\ (setting[a] \/ clean[a]) => disarming[a] = waitItem[on[a]]

Stopped == \A x \in stopped : ~BeingSet(x)

TimerInv ==
  /\ TimersTypeOK /\ Callers /\ Chosen /\ OneSet /\ Fresh /\ InItsCallback /\ Known /\ Quiet
  /\ Targets /\ Stopped /\ CancelIsFinal /\ RunsItsOwnCallback

-----------------------------------------------------------------------------
(* Every action keeps the invariant. *)

\* An overlapping set takes the claim that a Cancel is clean, and a set that a
\* timer is stopped.
LEMMA CallTimerStep ==
  ASSUME TimerInv, OneSetter, NEW a \in Agents, NEW x \in Timers, NEW set \in BOOLEAN,
         CallTimer(a, x, set)
  PROVE  TimerInv'
<1> USE DEF TimerInv, CallTimer
<1>1. TimersTypeOK'
  <2>1. made' \in 0 .. Calls
    BY TimersBoundAssumption DEF TimersTypeOK, MayCall
  <2>2. setting' \in [Agents -> BOOLEAN] /\ clean' \in [Agents -> BOOLEAN]
    BY DEF TimersTypeOK, BeingSet
  <2>3. disarming' \in [Agents -> WaitItems \union {None}] /\ stopped' \subseteq Timers
    BY DEF TimersTypeOK, Outstanding
  <2> QED BY <2>1, <2>2, <2>3 DEF TimersTypeOK, Places, items, dispatching
<1>2. Callers' BY DEF TimersTypeOK, dispatching, MayCall, BeingSet, Callers
<1>3. Chosen' BY DEF items, MayCall, Chosen
<1>4. OneSet' BY DEF TimersTypeOK, BeingSet, Callers, OneSet
<1>5. Known' BY DEF items, MayCall, Known, Armed, Assigning
<1>6. Quiet' BY DEF items, MayCall, Quiet, Armed
<1>7. Targets' BY DEF TimersTypeOK, Outstanding, Targets
<1>8. Stopped' BY DEF TimersTypeOK, BeingSet, Stopped
<1>9. Fresh' /\ InItsCallback' /\ CancelIsFinal' /\ RunsItsOwnCallback'
  BY DEF items, Fresh, dispatching, InItsCallback, CancelIsFinal, Armed, RunsItsOwnCallback
<1> QED BY <1>1, <1>2, <1>3, <1>4, <1>5, <1>6, <1>7, <1>8, <1>9

\* What a clean Cancel disarms is all that is armed of its timer.
LEMMA CancelReturnsStep ==
  ASSUME TimerInv, OneSetter, NEW a \in Agents, CancelReturns(a)
  PROVE  TimerInv'
<1> USE DEF TimerInv, CancelReturns
<1>1. TimersTypeOK' BY DEF TimersTypeOK, items, dispatching, Places, Disarmed, Idle, Callers
<1>2. Callers' BY DEF TimersTypeOK, dispatching, Idle, Callers, BeingSet
<1>3. Chosen' BY DEF TimersTypeOK, items, Disarmed, CanDisarm, Idle, Chosen
<1>4. OneSet' BY DEF Idle, OneSet
<1>5. Fresh' BY DEF TimersTypeOK, items, Disarmed, CanDisarm, Fresh
<1>6. InItsCallback'
  BY
     DEF TimersTypeOK, dispatching, Disarmed, CanDisarm, Callers, InItsCallback
<1>7. Known' BY DEF TimersTypeOK, items, Disarmed, Idle, Known, Armed, Assigning
<1>8. Quiet' BY DEF TimersTypeOK, items, Disarmed, Idle, Quiet, Armed
<1>9. Targets' BY DEF TimersTypeOK, Idle, Targets
<1>10. Stopped' BY DEF Idle, Callers, Stopped, BeingSet
<1>11. CancelIsFinal'
  BY TimersAssumption DEF TimersTypeOK, items, Disarmed, Callers, Known, Targets,
     CancelIsFinal, BeingSet, Armed, Assigning
<1>12. RunsItsOwnCallback' BY DEF dispatching, RunsItsOwnCallback
<1> QED BY <1>1, <1>2, <1>3, <1>4, <1>5, <1>6, <1>7, <1>8, <1>9, <1>10, <1>11, <1>12

\* What a set disarms is all that is armed of its timer, whose only set it is.
LEMMA SetCancelsStep ==
  ASSUME TimerInv, OneSetter, NEW a \in Agents, SetCancels(a)
  PROVE  TimerInv'
<1> USE DEF TimerInv, SetCancels
<1>1. TimersTypeOK' BY DEF TimersTypeOK, items, dispatching, Places, Disarmed
<1>2. Chosen' BY DEF TimersTypeOK, items, Disarmed, CanDisarm, Chosen
<1>3. Fresh' BY DEF TimersTypeOK, items, Disarmed, CanDisarm, Fresh
<1>4. InItsCallback'
  BY
     DEF TimersTypeOK, dispatching, Disarmed, CanDisarm, Callers, InItsCallback
<1>5. Known' BY DEF TimersTypeOK, items, Disarmed, Known, Armed, Assigning
<1>6. Quiet'
  BY TimersAssumption DEF TimersTypeOK, items, Disarmed, Callers, OneSet, Known, Quiet,
     Targets, Armed, Assigning
<1>7. Targets' BY DEF TimersTypeOK, Targets
<1>8. CancelIsFinal' BY DEF TimersTypeOK, items, Disarmed, CancelIsFinal, Armed
<1>9. Callers' /\ OneSet' /\ Stopped' /\ RunsItsOwnCallback'
  BY DEF dispatching, Callers, BeingSet, OneSet, Stopped, RunsItsOwnCallback
<1> QED BY <1>1, <1>2, <1>3, <1>4, <1>5, <1>6, <1>7, <1>8, <1>9

\* The timer's callback changes while nothing of the timer is armed.
LEMMA LockStep ==
  ASSUME TimerInv, OneSetter, NEW a \in Agents, Lock(a)
  PROVE  TimerInv'
<1> USE DEF TimerInv, Lock
<1>1. TimersTypeOK' BY DEF TimersTypeOK, dispatching, Places, Callers
<1>2. Callers' BY TimersAssumption DEF TimersTypeOK, dispatching, Callers, BeingSet
<1>3. Chosen' BY TimersAssumption DEF TimersTypeOK, Callers, Chosen, Fresh
<1>4. Known' BY DEF Fresh, Known, Quiet, Armed, Assigning
<1>5. Quiet' BY DEF Fresh, Quiet, Armed
<1>6. CancelIsFinal' BY DEF Fresh, CancelIsFinal, Armed
<1>7. OneSet' /\ Fresh' /\ InItsCallback' /\ Targets' /\ Stopped' /\ RunsItsOwnCallback'
  BY DEF OneSet, Fresh, dispatching, InItsCallback, Targets, Stopped, BeingSet,
     RunsItsOwnCallback
<1> QED BY <1>1, <1>2, <1>3, <1>4, <1>5, <1>6, <1>7

\* The new item is the only one of its timer that is armed.
LEMMA QueueStep ==
  ASSUME TimerInv, OneSetter, NEW a \in Agents, Queue(a)
  PROVE  TimerInv'
<1> USE DEF TimerInv, Queue
<1>1. TimersTypeOK' BY DEF TimersTypeOK, dispatching, Places, Chosen
<1>2. Chosen' BY DEF TimersTypeOK, Callers, Chosen
<1>3. Fresh' BY TimersAssumption DEF Callers, Chosen, Fresh
<1>4. InItsCallback' BY DEF dispatching, Chosen, InItsCallback
<1>5. Known' BY DEF TimersTypeOK, Callers, Chosen, Known, Armed, Assigning
<1>6. Quiet' BY DEF TimersTypeOK, Callers, Chosen, OneSet, Quiet, Armed
<1>7. CancelIsFinal' BY DEF Callers, Chosen, Stopped, CancelIsFinal, BeingSet, Armed
<1>8. Callers' /\ OneSet' /\ Targets' /\ Stopped' /\ RunsItsOwnCallback'
  BY DEF dispatching, Callers, BeingSet, OneSet, Targets, Stopped, RunsItsOwnCallback
<1> QED BY <1>1, <1>2, <1>3, <1>4, <1>5, <1>6, <1>7, <1>8

\* The item that was the newest is now where wait_item_ leads.
LEMMA SetReturnsStep ==
  ASSUME TimerInv, OneSetter, NEW a \in Agents, SetReturns(a)
  PROVE  TimerInv'
<1> USE DEF TimerInv, SetReturns
<1>1. TimersTypeOK' BY DEF TimersTypeOK, items, dispatching, Places, Idle, NewItem
<1>2. Callers' BY TimersAssumption DEF TimersTypeOK, dispatching, Idle, Callers, BeingSet
<1>3. Chosen' BY DEF TimersTypeOK, items, Idle, Chosen
<1>4. OneSet' BY DEF TimersTypeOK, Idle, OneSet
<1>5. Known' BY DEF TimersTypeOK, items, Idle, NewItem, Chosen, Known, Armed, Assigning
<1>6. Quiet' BY DEF items, Idle, Quiet, Armed
<1>7. Targets' BY DEF Idle, Callers, OneSet, Targets, BeingSet
<1>8. Stopped' BY DEF TimersTypeOK, Idle, Stopped, BeingSet
<1>9. Fresh' /\ InItsCallback' /\ CancelIsFinal' /\ RunsItsOwnCallback'
  BY DEF items, Fresh, dispatching, InItsCallback, CancelIsFinal, Armed, RunsItsOwnCallback
<1> QED BY <1>1, <1>2, <1>3, <1>4, <1>5, <1>6, <1>7, <1>8, <1>9

\* The signals are not in the invariant.
LEMMA WaitStep ==
  ASSUME TimerInv, OneSetter, NEW x \in Timers, Wait(x)
  PROVE  TimerInv'
<1> USE DEF TimerInv, Wait
<1>1. TimersTypeOK' BY DEF TimersTypeOK, items, dispatching
<1>2. Callers' /\ Chosen' /\ OneSet' /\ Fresh' /\ InItsCallback' /\ Known' /\ Quiet' /\ Targets'
       /\ Stopped' /\ CancelIsFinal' /\ RunsItsOwnCallback'
  BY DEF dispatching, Callers, BeingSet, items, Chosen, OneSet, Fresh, InItsCallback, Known,
     Armed, Assigning, Quiet, Targets, Stopped, CancelIsFinal, RunsItsOwnCallback
<1> QED BY <1>1, <1>2

\* Neither is whether an item is in the ring or in the queue.
LEMMA TakeItemsStep ==
  ASSUME TimerInv, OneSetter, TakeItems
  PROVE  TimerInv'
<1> USE DEF TimerInv, TakeItems
<1>1. TimersTypeOK' BY DEF TimersTypeOK, dispatching, callers
<1>2. Callers' /\ Chosen' /\ OneSet' /\ Fresh' /\ InItsCallback' /\ Known' /\ Quiet' /\ Targets'
       /\ Stopped' /\ CancelIsFinal' /\ RunsItsOwnCallback'
  BY DEF callers, Callers, BeingSet, Chosen, OneSet, Fresh, dispatching, InItsCallback, Known,
     Armed, Assigning, Quiet, Targets, Stopped, CancelIsFinal, RunsItsOwnCallback
<1> QED BY <1>1, <1>2

\* An idle item is armed, and stays so in its callback.
LEMMA ExpireStep ==
  ASSUME TimerInv, OneSetter, Expire
  PROVE  TimerInv'
<1> USE DEF TimerInv, Expire
<1>1. TimersTypeOK' BY DEF TimersTypeOK, callers
<1>2. Chosen' BY DEF TimersTypeOK, callers, Chosen
<1>3. Fresh' BY DEF TimersTypeOK, Fresh
<1>4. InItsCallback' BY DEF TimersTypeOK, InItsCallback
<1>5. Known' BY DEF TimersTypeOK, callers, Known, Armed, Assigning
<1>6. Quiet' BY DEF TimersTypeOK, callers, Quiet, Armed
<1>7. CancelIsFinal' BY DEF TimersTypeOK, callers, CancelIsFinal, Armed
<1>8. Callers' /\ OneSet' /\ Targets' /\ Stopped' /\ RunsItsOwnCallback'
  BY DEF callers, Callers, BeingSet, OneSet, Targets, Stopped, RunsItsOwnCallback
<1> QED BY <1>1, <1>2, <1>3, <1>4, <1>5, <1>6, <1>7, <1>8

\* The item in its callback has a timer.
LEMMA SignalStep ==
  ASSUME TimerInv, OneSetter, Signal
  PROVE  TimerInv'
<1> USE DEF TimerInv, Signal
<1>1. TimersTypeOK' BY DEF TimersTypeOK, items, callers, InItsCallback, Fresh
<1>2. Callers' /\ Chosen' /\ OneSet' /\ Fresh' /\ InItsCallback' /\ Known' /\ Quiet' /\ Targets'
       /\ Stopped' /\ CancelIsFinal' /\ RunsItsOwnCallback'
  BY DEF callers, Callers, BeingSet, items, Chosen, OneSet, Fresh, InItsCallback, Known,
     Armed, Assigning, Quiet, Targets, Stopped, CancelIsFinal, RunsItsOwnCallback
<1> QED BY <1>1, <1>2

\* The item in its callback is armed, so that the timer's callback is its own.
LEMMA CopyCallbackStep ==
  ASSUME TimerInv, OneSetter, CopyCallback
  PROVE  TimerInv'
<1> USE DEF TimerInv, CopyCallback
<1>1. TimersTypeOK'
  BY DEF TimersTypeOK, items, callers, MutexInCallback, RunsUnlocked, InItsCallback, Fresh
<1>2. Callers' BY DEF callers, MutexInCallback, RunsUnlocked, Callers, BeingSet
<1>3. RunsItsOwnCallback' BY DEF InItsCallback, Known, RunsItsOwnCallback, Armed
<1>4. Chosen' /\ OneSet' /\ Fresh' /\ InItsCallback' /\ Known' /\ Quiet' /\ Targets' /\ Stopped'
       /\ CancelIsFinal'
  BY DEF items, callers, Chosen, OneSet, Fresh, InItsCallback, Known, Armed, Assigning, Quiet,
     Targets, Stopped, BeingSet, CancelIsFinal
<1> QED BY <1>1, <1>2, <1>3, <1>4

\* An item is armed again only if it was not disarmed.
LEMMA ReturnStep ==
  ASSUME TimerInv, OneSetter, Return
  PROVE  TimerInv'
<1> USE DEF TimerInv, Return
<1>1. TimersTypeOK' BY TimersBoundAssumption DEF TimersTypeOK, callers, InItsCallback
<1>2. Callers' BY DEF TimersTypeOK, callers, Callers, BeingSet
<1>3. Chosen' BY DEF callers, Chosen, InItsCallback
<1>4. Fresh' BY DEF Fresh, InItsCallback
<1>5. Known' BY DEF callers, InItsCallback, Known, Armed, Assigning
<1>6. Quiet' BY DEF callers, InItsCallback, Quiet, Armed
<1>7. CancelIsFinal' BY DEF callers, InItsCallback, CancelIsFinal, Armed
<1>8. OneSet' /\ InItsCallback' /\ Targets' /\ Stopped' /\ RunsItsOwnCallback'
  BY DEF callers, OneSet, InItsCallback, Targets, Stopped, BeingSet, RunsItsOwnCallback
<1> QED BY <1>1, <1>2, <1>3, <1>4, <1>5, <1>6, <1>7, <1>8

-----------------------------------------------------------------------------
LEMMA InitTimerInv == TimersInit => TimerInv
<1> SUFFICES ASSUME TimersInit PROVE TimerInv OBVIOUS
<1> USE DEF TimersInit
<1>1. TimersTypeOK
  <2>1. 0 \in 0 .. Calls BY TimersBoundAssumption
  <2> QED BY <2>1 DEF TimersTypeOK, Places
<1>2. Callers /\ Chosen /\ OneSet /\ Targets
  BY TimersAssumption DEF Callers, Chosen, OneSet, Targets
<1>3. Fresh /\ InItsCallback /\ Known /\ Quiet
  BY DEF Fresh, InItsCallback, Known, Quiet, Armed
<1>4. Stopped /\ CancelIsFinal /\ RunsItsOwnCallback
  BY DEF Stopped, CancelIsFinal, RunsItsOwnCallback
<1> QED BY <1>1, <1>2, <1>3, <1>4 DEF TimerInv

LEMMA StepTimerInv ==
  ASSUME TimerInv, OneSetter, [TimersNext]_timerVars
  PROVE  TimerInv'
<1>1. CASE UNCHANGED timerVars
  BY <1>1 DEF timerVars, TimerInv, TimersTypeOK, Callers, BeingSet, Chosen, OneSet, Fresh,
     InItsCallback, Known, Assigning, Armed, Quiet, Targets, Stopped, CancelIsFinal,
     RunsItsOwnCallback
<1>2. CASE DispatchTimers
  BY <1>2, TakeItemsStep, ExpireStep, SignalStep, CopyCallbackStep,
     ReturnStep DEF DispatchTimers
<1>3. CASE \E x \in Timers : Wait(x)
  BY <1>3, WaitStep
<1>4. ASSUME NEW a \in Agents, ContinueCall(a) PROVE TimerInv'
  BY <1>4, CancelReturnsStep, SetCancelsStep, LockStep, QueueStep, SetReturnsStep
     DEF ContinueCall
<1>5. ASSUME NEW a \in Agents, NEW x \in Timers, NEW set \in BOOLEAN, CallTimer(a, x, set)
      PROVE  TimerInv'
  BY <1>5, CallTimerStep
<1> QED BY <1>1, <1>2, <1>3, <1>4, <1>5 DEF TimersNext

LEMMA TimerInvariant == OneSetter /\ TimersSpec => []TimerInv
<1> SUFFICES ASSUME OneSetter PROVE TimersSpec => []TimerInv OBVIOUS
<1>1. TimerInv /\ [TimersNext]_timerVars => TimerInv' BY StepTimerInv
<1> QED BY <1>1, InitTimerInv, PTL DEF TimersSpec

\* If no timer is set by two callers at once, a Cancel that no set overlaps
\* stops its timer, although Cancel reads wait_item_ without the mutex, and
\* although callbacks set and cancel timers themselves.
THEOREM CancelledIsStopped == OneSetter /\ TimersSpec => []CancelIsFinal
<1>1. TimerInv => CancelIsFinal BY DEF TimerInv
<1> QED BY <1>1, TimerInvariant, PTL

\* Under the same assumption CompletionRoutine runs the callback that was given
\* with the item, although it reads it in a second critical section.
THEOREM CallbacksAreOwn == OneSetter /\ TimersSpec => []RunsItsOwnCallback
<1>1. TimerInv => RunsItsOwnCallback BY DEF TimerInv
<1> QED BY <1>1, TimerInvariant, PTL

\* Under the same assumption no expiry of an earlier item signals a timer that
\* was set again.
THEOREM LastSetSignals == OneSetter /\ TimersSpec => OnlyTheLastSetSignals
<1> DEFINE A == \A x \in Timers : x \in signal' \ signal => firing = newest[x]
<1>1. ASSUME TimerInv, TimersNext PROVE A
  <2>1. CASE Signal
    BY <1>1, <2>1 DEF Signal, TimerInv, InItsCallback, Known, Armed
  <2>2. CASE DispatchTimers /\ ~Signal
    BY <2>2 DEF DispatchTimers, TakeItems, Expire, CopyCallback, Return
  <2>3. ASSUME NEW x \in Timers, Wait(x) PROVE A
    BY <2>3 DEF Wait
  <2>4. ASSUME NEW a \in Agents, ContinueCall(a) PROVE A
    BY <2>4 DEF ContinueCall, CancelReturns, SetCancels, Lock, Queue, SetReturns
  <2>5. ASSUME NEW a \in Agents, NEW x \in Timers, NEW set \in BOOLEAN, CallTimer(a, x, set)
        PROVE  A
    BY <2>5 DEF CallTimer
  <2> QED BY <1>1, <2>1, <2>2, <2>3, <2>4, <2>5 DEF TimersNext
<1>2. TimerInv /\ [TimersNext]_timerVars => [A]_timerVars BY <1>1
<1> QED BY <1>2, TimerInvariant, PTL DEF TimersSpec, OnlyTheLastSetSignals

=============================================================================
