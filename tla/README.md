# Formal models of Xenia's concurrent core

Xenia runs an Xbox 360 title by translating its PowerPC code and by doing, on the
host, what the console's kernel and devices did. Most of its code transforms data:
instructions, shaders, textures, samples. What this directory models is the rest,
the part that is small, concurrent and hard to test: the objects threads wait on,
the timer queue, host threads and their suspension, the locks of the kernel, its
handles and reference counts, I/O completion, the table of translated functions, the
audio and XMA workers, the presenter, and the allocators of bits and of guest memory.
Paths below are relative to `src/xenia/`.

Contents

1. Inventory of the system
2. The modules and the code
3. Runs: what is checked and what it shows
4. Fairness
5. What is proved, and how
6. What the code does that its comments do not say
7. What is only model-checked, and what is not modelled
8. What is left
9. How to run

## 1. Inventory of the system

| Component | State | Operations | Talks to |
|---|---|---|---|
| Wait objects (`base/threading_posix.cc`) | per event `signal_`, per semaphore `count_`/`maximum_count_`, per mutant `count_`/`owner_`; ONE static `mutex_` and `cond_` for the process | Set, Reset, Pulse, Release, Wait, WaitMultiple, SignalAndWait | everything that waits: kernel objects, audio, XMA, command processor |
| Timer queue (`base/threading_timer_queue.cc`) | each item's atomic `state_` and `due_`; a 512-slot disruptor ring; the dispatch thread's sorted list; `shutdown_` | QueueTimer, Disarm (from any thread or from a callback), dispatch, destructor | POSIX timers, guest timers, vsync |
| POSIX timers (`base/threading_posix.cc`) | `signal_`, `callback_`, `wait_item_` | SetOnce, SetRepeating, Cancel, CompletionRoutine | timer queue, wait objects |
| POSIX threads (`base/threading_posix.cc`) | `state_`, `suspend_count_`, `signaled_`, `exit_code_` | create, Suspend, Resume, Terminate, QueueUserCallback | signals of the OS, wait objects |
| Guest output mailbox (`ui/presenter.cc`) | two image indices in one atomic word, the producer's private third, per-image properties, the consumer mutex | RefreshGuestOutput, ConsumeGuestOutput | GPU command processor, painting, captures |
| Paint modes (`ui/presenter.cc`) | `paint_mode_`, the state of the surface connection, pending UI paints | SetWindowSurface, Paint from either thread, RequestUIPaint | window, mailbox |
| Handles and references (`kernel/util/object_table.cc`, `kernel/xobject.cc`) | `table_` with a count per handle, `last_free_entry_`, `name_table_`; per object `handles_`, `pointer_ref_count_`, the handle stashed in its guest structure | NtCreate\*, NtClose, NtDuplicateObject, ObReference\*, ObDereferenceObject, ObOpenObjectByName, the purge at the end of a title | every kernel object |
| Critical sections, read-write locks (`kernel/xboxkrnl/xboxkrnl_rtl.cc`, `xboxkrnl_threading.cc`) | `lock_count`/`recursion_count`/`owning_thread` and an auto-reset event; a spin lock, three counters, an event and a semaphore | RtlEnter/TryEnter/LeaveCriticalSection; ExAcquire/ExRelease...ReadWriteLock | wait objects |
| Kernel threads, APCs, DPCs (`kernel/xthread.cc`) | thread structure in guest memory, APC lists | KeWait\*, APC delivery | wait objects, host threads |
| I/O completion, notification listeners (`kernel/xiocompletion.cc`, `kernel/xnotifylistener.cc`) | a queue next to a semaphore or an event | queue, wait, dequeue | wait objects |
| Audio worker (`apu/audio_system.cc`) | eight client slots with a semaphore each, shutdown and resume events, `paused_` | RegisterClient, UnregisterClient, SubmitFrame, Pause, Resume, Shutdown | wait objects, audio driver |
| XMA decoder (`apu/xma_decoder.cc`) | 320 contexts with a lock each, a bit map of the free ones, kick and lock registers, worker thread | AllocateContext, ReleaseContext, kick, lock, clear, Pause, Resume, Shutdown | wait objects, guest MMIO |
| Guest memory (`memory.cc`) | a page table per heap | Alloc, AllocFixed, Decommit, Release, Protect | everything |
| Memory watches (`cpu/mmio_handler.cc`, `gpu/shared_memory.cc`) | valid and GPU-written bits per page, watch lists | page fault, range upload, invalidation callbacks | GPU caches |
| Functions of the guest (`cpu/entry_table.cc`, `cpu/processor.cc`) | entry per address: new, compiling, ready, failed | GetOrCreate, Get, Delete | translator |
| Lock-free helpers (`base/bit_map.cc`, `base/ring_buffer.cc`) | words with one bit per resource; read and write offsets | Acquire, Release; Read, Write | XMA, GPU |
| Command processor (`gpu/command_processor.cc`) | ring read and write pointers, queue of functions | UpdateWritePointer, worker loop | guest, wait objects |
| Compiler, shader translation, texture and render-target caches, file systems, HID, UI, debugger | data | transformations and I/O | - |

What makes each part hard, and what makes it correct:

* **Wait objects.** All objects share one condition variable, so a change to one
  object wakes every thread and each decides again; two conditions are read before
  the mutex is taken (a semaphore's room, a mutant's owner and count). Correct
  means: no wakeup is lost; a wait for several objects takes all or one, in one
  instant; a mutant has one owner; a semaphore stays within its maximum; a waiter
  whose objects stay available is served.
* **Timer queue.** An item's state alone decides between the dispatch thread and
  whoever disarms it. Correct means: once Disarm has returned the callback never
  runs, since its data may be freed; Disarm returns; due items are dispatched; the
  destructor ends.
* **Timers.** A timer knows its item by a weak pointer that is read without a lock, resets
  its signal under the mutex of all wait objects, queues under it, and is signaled under it by
  the dispatch thread, whose callbacks may set timers. Correct means: a cancelled timer is
  not signaled; only the last set signals; the callback is the right one; calls return.
* **Mailbox.** Two indices change together by compare-exchange while a third is
  private. Correct means: an image has one user; a consumer sees the newest
  complete frame; the blank that follows the last active frame is not lost.
* **Handles.** An object is kept alive by handles, names, object_refs and guest
  pointers at once, and calls are compositions of table operations with the lock
  given up in between. Correct means: counts are exact; a handle denotes the
  object it was given for until it is closed as often as it was given out.

* **Threads.** Suspension is a signal whose handler waits for a count; the state and
  the count are written with and without the thread's mutex. Correct means: a thread
  that is counted as suspended stops, one that was resumed as often as suspended goes on.
* **Locks.** A critical section is a count that threads change atomically, an event, and
  plain fields that only an owner may write; a read-write lock is four counts under a
  spin lock, and two objects that are signaled after it was given up. Correct means:
  exclusion, exact counts, nobody waits for a lock that nobody has.
* **Paint modes.** Two threads paint through one surface connection; the mode says which,
  and the UI thread reads it without the mutex. Correct means: one painter at a time, no
  call of the window without a surface, and what is new gets painted.
* **Audio and XMA workers.** They read state under a lock and act without it (audio), or
  look before they lock (XMA), while other threads register, release, kick, pause and
  shut down. Correct means: no frame too many, no context decoded that was given back,
  no kick lost, a pause that is quiet and takes nobody else's answer.
* **Functions.** Threads that ask for the same function wait for the one that translates
  it by spinning on its status. Correct means: one translates, what is published can be
  called, everybody is told.
* **Allocators.** Bits are taken by compare-exchange, pages by a search that jumps.
  Correct means: what is given out has one user, and a request fails for a reason.

`PROJECT.json` lists each hazard at the line where it bites, with the properties
that would catch it.

## 2. The modules and the code

### PosixConditions (with DispatcherObjects, MCPosixConditions, PosixConditionsProofs)

`base/threading_posix.cc`, 190-390 and 860-1010. `signal`, `count` and `owner`
are the fields of the objects; `pc`, `wait` and `release` are where a thread is and
the arguments of its call; `held` is history: acquisitions less releases.

A critical section of `mutex_` is one action. `Enter` is the body of a wait: it
completes, or the thread blocks; `cond_.wait` becomes *blocked*, a notification moves
every blocked thread to *notified*, and `Recheck` is the re-evaluation of the
predicate. `Timeout` evaluates it a last time, as `wait_for` does.
`SpuriousWakeup` is allowed because the standard allows it. What is *not* one
action is what the code does without the mutex: `SemaphoreCheck` and
`SemaphoreAdd` are the two halves of a semaphore's Release; `MutantOwnerCheck`,
`MutantCountCheck` and `MutantDecrement` those of a mutant's;
`SignalAndWait` and `Pulse` are two sections each. `count_` is unsigned, so
`Plus` and `Minus` wrap at `UintMod`. `Exit` is a thread that ends: no object
learns of it.

`DispatcherObjects` says what the comments of `base/threading.h` promise, call by call: a
call has a part that signals and a part that waits, or one of them; each part takes effect
once, at one instant, on what holds then (a wait for all takes everything at that instant,
a release is added or refused by the count at that instant), and the objects change at no
other. SignalAndWait and Pulse are two parts each, and so two instants: that is what this
implementation has, and less than `threading.h:224` says (section 6). `AtomicObjects`
states that the code implements it. What a thread's call has still to do, `wait` and
`release`, is the same in both modules; `owner` is read as "nobody" when a mutant's count
is 0, since Release does not clear `owner_`.

The set of threads that release semaphores (`Releasers`), that release mutants they
gave up before (`StrayReleasers`) and that exit (`Exiters`) are parameters: which
properties hold depends on them, and section 6 says how.

### TimerQueue (with MCTimerQueue, TimerProofs)

`base/threading_timer_queue.cc`, 48-214. `state` is `state_`; `ring` is the part of
the disruptor's buffer that was claimed and not yet consumed, with whether each slot
is published, so that slots can be published in another order than claimed;
`queue` is the dispatch thread's list and `again` the local list of rescheduled
items. `Claim` waits while the ring is full. `CallbackDisarms` and
`CallbackExchange` are Disarm inside a callback, on its own item or on another
one; `StartShutdown`, `QueueKick` and `Join` the destructor. `disarmed` is history.
The destructor is called when no thread is inside a call, which is what the
ownership of the queue guarantees.

### PosixTimers (with MCTimers, TimerProofs)

`base/threading_posix.cc`, 388-463, over the timer queue without its clock: an item in the
queue may be due at any moment. An *agent* is a thread, or the dispatch thread inside a
callback, which may call as well. `CallTimer` reads `wait_item_` without the mutex;
`CancelReturns` and `SetCancels` are the end of the Disarm; `Lock`, `Queue` and
`SetReturns` are the critical section of a set, in which `Queue` waits while the ring is
full; `Signal` and `CopyCallback` are the two critical sections of CompletionRoutine.
`callback` and `copied` name a callback by the item whose set passed it. `newest`, `clean`
and `stopped` are history: the item queued last, whether a Cancel overlaps a set, and the
timers that a Cancel without an overlap has stopped. `OneSetter` says whether a timer may
be set by two callers at once.

### GuestOutputMailbox (with LatestFrame, MCPresenter, PresenterProofs)

`ui/presenter.cc`, 355-423 and 599-652. `mailbox` is
`guest_output_mailbox_acquired_and_ready_` as a pair; loads and compare-exchanges are
separate actions, a failed exchange leaves the value it saw. An image is a frame
number, whether it is active (not blank), and whether it has been written
completely. `LatestFrame` is a register; `ActsAsRegister` states that ready and
acquired image implement it.

### PaintModes (with MCPresenter, PresenterProofs)

`ui/presenter.cc`, 108-588 and 1061-1342. The UI thread paints (`PaintFromUIThread`, a
step per stage: take the mode, recover, consume, present, leave, settle, repaint),
changes the surface and the UI drawers, and is asked to by the window; the guest output
thread refreshes the mailbox and then, under `paint_mode_mutex_`, does what the mode says:
paint itself, or ask the window. `SetMode` takes the mutex only to *give* the connection
to the guest output thread or take it back, as the code does. What a paint makes of the
connection (presented, outdated, a lost GPU) is any of the results of `PaintAndPresent`,
and the window may force a paint. `version` is what there is to see; `tried` (what the
last paint showed), `dropped`, `removed` (the last drawer went outside of a paint) and
`lost` (the host was told that the GPU is lost, which ends the program) are history.
`PaintIsToCome` promises nothing after the loss, and of the UI's removal only what the
code does: a UI that hid itself while drawn is painted over (section 6).

### PosixThreads (with HostProofs)

`base/threading_posix.cc`, 703-786 and 1092-1196. `state_`, `suspend_count_` and
`signaled` are the fields, `state_mutex_` who has the mutex, `pending` the signals that
are sent and not delivered, `handler` where the handler is. `CountAndKill` is Suspend's
unlocked half, `SetRunning` the store the handler ends with. Threads may be created
suspended, resumed more often than suspended, and terminated by others (before they have
started, too, as Terminate does not wait for that) or by themselves: `TerminateItself`,
which spins with the mutex if another was faster. `suspends`, `owed` and `astray` are
history; `astray` says that a Resume too many was accepted, or that the thread was
terminated before it started (section 6).

### CriticalSections (with RecursiveLock, KernelProofs) and ReadWriteLock (with ReadWriteLockProofs)

`kernel/xboxkrnl/xboxkrnl_rtl.cc`, 529-677: each atomic operation on `lock_count` is an
action, and so is the wait for the event and its setting; the owner's plain stores go with the
step next to them. `RecursiveLock` is what a guest believes it has; `ActsAsLock` is the
refinement. `kernel/xboxkrnl/xboxkrnl_threading.cc`, 1567-1698: the spin lock makes the
counting part of a call one action; signaling and waiting are actions of their own.

### IoCompletion (with KernelProofs)

`kernel/xiocompletion.cc`: `Push` and `Release` are the two halves of QueueNotification,
`Wait` and `Pop` those of WaitForNotification. `Stranded` is the number of notifications in the queue
that the semaphore does not count and nobody has been let through to.

### FunctionTable (with MCFunctionTable, HostProofs)

`cpu/entry_table.cc`, `cpu/processor.cc`, `cpu/module.cc`: `entry` is the status of an
entry, `callable` whether its function is set, `symbol` the status of the symbol.
ResolveFunction is GetOrCreate, Spin, Declare, Define, Translate with the lookup of the
callees, Publish, Ready or Fail. Symbols are born *defining* (`symbol.h:53`), which is why a
declared symbol passes through that state. NotFound is the failure to look a function up: no
module has the address, or the symbol there is a variable. `early` is history: the functions
that a thread came to translate while another was declaring them, the race of section 6;
`ReadyIsCallable` says that a ready entry has code unless that happened.

### AudioSystem (with KernelProofs)

`apu/audio_system.cc`, 100-336, and the callback of `apu/sdl/sdl_audio_driver.cc`, 153-203,
which gives a frame back through the client's semaphore. The wait for any of the
clients' semaphores or the event picks the first that is signaled, so `WakeForShutdown`
needs all semaphores at zero. `Serves` marks the window in which the worker has taken a
client's semaphore and has not yet called it back; `overdue` remembers that a client was
registered in that window, until a release of its semaphore has failed for it.
`OnlyOverdueLacksRoom` says that no other release fails. Shutdown is called while the
system runs or is paused, as it has no check of either.

### XmaDecoder and BitMap (with AllocatorProofs), MCAllocators

`apu/xma_decoder.cc`, 140-401, and `apu/xma_context_new.cc`, 116-245: a guest thread
acquires a bit, allocates, kicks, disables and releases; the worker goes through all
contexts, looks at the flags (`Enter` or `Skip`), locks, looks again, decodes. In
XmaDecoder the bit map is a set, taken from in one step; BitMap is how it is done,
`base/bit_map.cc`, 28-95, a load and a compare-exchange of a word each being an action.

### GuestHeap (with AllocatorProofs)

`memory.cc`, 734-748 and 893-1265. A page is its entry in the table; addresses are page
numbers. `TopDown` and `BottomUp` are the two loops of AllocRange as recursive functions of
the page the loop stands at. The search is part of the action, and every call is one action,
as it runs under the global lock. A fixed request
may take pages of other regions, or pass the end of the table, where the code lets it
(section 6): `torn` is the history of the pages of regions that overlap, or did, and
`takeovers` counts such requests up to `MaxTakeovers`. What is written past the end of the
table is not modelled; the word read there decides nothing else (`Unreserved`).

### ObjectTable (with MCObjectTable, ObjectTableProofs)

`kernel/util/object_table.cc`, `kernel/xobject.cc`, and the calls in
`kernel/xboxkrnl/xboxkrnl_ob.cc` and `xboxkrnl_threading.cc`. The table's operations
run under the global lock and are one action each. A guest call is a list of operations
(`todo`), each done as a step of its own, so that the operations of two calls interleave
as they do in the code: NtDuplicateObject is LookupObject, AddHandle, GiveHandle and, to
close the source, RemoveHandle; ObReferenceObjectByHandle is LookupObject, ReadHandle,
RetainHandle, GivePointer. `ReadHandle` is XObject's own look at `handles_`, which
takes no lock. `owned`, `denotes` and `derefs` are history: how often the guest may
still close a handle, the object it was given it for, and the references it holds.

The guest is a *title*: the calls it makes, from which threads, what it names its objects,
and whether it is careful. `title` is chosen at the start and stays. A careful guest does
not give up its last use of a handle that a call under way was given or has found by its
name, nor, if it names objects, of a handle whose object it still references (`Spared`;
section 6 says why). `PlainGuest` and `ReferringGuest` are the guests that the properties
are about.

NtCreateEvent stands for the NtCreate calls: they differ in the object they make. The
table has the size it has after it first grew, so a full table makes AddHandle wait
where the code would resize. Host handles, which live in a table of their own, are not
modelled.

### Modules that run several parts

`MCKernel`, `MCAllocators` and `MCPresenter` hold parts that share no variable. A
behaviour of such a module is one of a single part, chosen at its start by `part` or
`half`; the others stay at their initial states. Interactions between parts are modelled
where they are: PaintModes takes frames from a mailbox it abstracts to the newest version,
AudioSystem contains the driver, XmaDecoder the guest's library, PosixConditions all objects
behind the shared mutex.

## 3. Runs: what is checked and what it shows

| Run | Instance | Shows |
|---|---|---|
| `conditions` | 3 threads; one auto-reset event, one semaphore (max 2), one mutant (recursion 2); lists `<mutant>`, `<semaphore, event>`, `<event, mutant>`, any or all, with and without timeout; all release the semaphore, in behaviours without the race of two releases (`RaceFreeSpec`) | `MutantExclusive`, `NoLostWakeup`, and `AtomicObjects`: every call implements its atomic one |
| `conditions_live` | 2 threads that release one semaphore, one of which also releases mutants it gave up and may exit; a manual event; lists with the semaphore twice | `OverrunNeedsARace`: only that race takes a semaphore above its maximum; `WaitersServed`: nobody waits forever for what stays available |
| `conditions_overrun` | 2 threads that release one semaphore | `SemaphoreBound` is violated: section 6 |
| `timers` | queue: 2 threads, a one-shot and a recurring item, a ring of one slot, 2 ticks, 1 Disarm per callback; timers: 2 timers, a thread and the callbacks, 3 items, a ring of one slot, 1 call per callback, one caller at a time that sets a timer | `NoCallbackOnceDisarmed`, `DueItemIsDispatched`, `DestructorEnds`; `CancelIsFinal`, `RunsItsOwnCallback`, `OnlyTheLastSetSignals`, `CallsReturn` |
| `timers_self_disarm` | a recurring item, 2 Disarms per callback | `CallbackDisarmReturns` is violated: section 6 |
| `presenter` | mailbox: 2 consumers, 6 refreshes; paint modes: 2 new versions, any result of each paint and connection | `OneUser`, `FreshFrame`, `BlankIsSent`, `ActsAsRegister`; `OnePainter`, `PaintIsToCome` |
| `objects` | 2 objects, 3 slots, `MaxUses = 2`; a behaviour is one of four titles: `Handling` (2 threads, duplicate, move, close, purge), `Referencing` (3 threads, careful), `Searching` (3 threads, careful, opens and creates by name), `Careless` (2 threads, all calls by name) | `EveryHandleDenotes`, `NoUseLeaks`, `PointersCounted` |
| `objects_dereference` | 1 thread, 3 slots; create, duplicate, reference | `HandleDenotes` is violated: section 6 |
| `kernel` | critical section: 3 threads, recursion 2, one spin; read-write lock: 3 readers, 2 writers; completion port: 3 threads, room for 2, 5 posts; functions: 3 threads, two that call each other, one unload; host thread: 2 callers, 2 suspends; audio: 2 clients, 2 frames, 3 registrations | `OneInside`, `NoWaiterForgotten`, `ActsAsLock`; `ReadWriteLockIsSound`, `WriterEnters`; `StrandedOnlyIfFull`; `EntriesAreRight`, `ResolvedInTheEnd`; `SuspendedStops`, `ResumedGoesOn`; `OnlyOverdueLacksRoom`, `FreshHandshake`, `AudioPauseReturns` |
| `functions_undefined` | 2 threads, two functions that call each other | `ReadyIsDefined` is violated: section 6 |
| `threads_resume` | 1 caller, 2 suspends | `ResumedAsOften` is violated: section 6 |
| `allocators` | bit map: 2 words of 2 bits, 2 threads; XMA: 2 contexts, 2 guest threads; heap: 6 pages, Alloc up to page 4 and AllocSystemHeap from page 2, alignments 1 and 2, one fixed request that takes what is not its own | `HandedOutOnce`, `FailsForAReason`; `ContextsAreApart`, `NoKickLost`; `RegionsAreWhole`, `FirstFit` |

Why the bounds are enough. The wait objects: two waiters and one thread that changes
something are what a lost or stolen wakeup needs, and the proofs of section 5 cover
any number; `UintMod = 8` keeps the wrap-around of the counters within a few steps. The
timer queue: an item, another one that is due at the same time, and a thread that
disarms are all the parties a race over one item has; the clock lets a recurring item
run again, and a ring of one slot makes every claim meet a full ring. The timers: an old
item, a new one and one of another timer, with a thread and callbacks that set and cancel;
the ring can clog; one call per callback, because the second may spin for ever (section 6).
With more threads there are more callers of the same calls, which the proofs cover. The mailbox:
three images are the code's number, and six refreshes let each image be written twice.
The paint modes: a version that is painted, or lost, while a second one comes.
The table: two objects and three slots let a slot be freed and used again for another
object while an old handle is still around; `MaxUses` lets a handle have two uses at once;
three threads let one close and one create between two steps of a search. Two threads that
every title treats alike are symmetric (2.3 million states up to that symmetry). A critical section: one thread inside, one that spins and one that waits. The
read-write lock: readers that read, readers that wait behind a writer, and a writer that
leaves the lock to a reader or to the other writer; `CountWord = 8` makes a count below zero
show. The port: more posts than it has room for, while
two threads wait. Functions: one is translated, declared and awaited by three threads; the
cycle makes each a caller and a callee. The heap: regions of each size up to the searched
part, holes of each size between them, both alignments, ranges that overlap and one that ends
between two aligned pages; the request that tears regions may meet two, a free page, and the
end, and may be followed by any number of calls that release and allocate.

Every invariant and property of a passing run has been confirmed to be sensitive to the
code: the operators marked *Mutant* in the modules are plausible bugs (a dropped guard,
a store in place of an exchange, a handle that is not unlisted, a page that is not aligned),
and `PROJECT.json` pairs each property with one that violates it.

`CHECK_DEADLOCK FALSE` stands where the system, or a part of it, may stop: queues that were
destroyed, a guest that makes no more calls within the bound, threads that ended, a worker
that was shut down.

## 4. Fairness

* `PosixConditions!FairSpec`: a notified thread gets the mutex and evaluates its
  predicate, and a thread inside a call finishes it (weak fairness of `Recheck`
  and `Finish`): the sections are short, none blocks while it has the mutex, and the
  host's scheduler runs every runnable thread. No fairness on starting a call, on a
  timeout, on a spurious wakeup: `WaitersServed` may not rest on those. It says
  only that a waiter is served if its objects *stay* available; a waiter that
  always loses to others may starve, as in the code.
* `TimerQueue!FairSpec`: the dispatch thread runs and callbacks return, time passes, a
  thread inside QueueTimer or Disarm continues, a destructor that has begun continues.
  Nothing says that a callback ever disarms, or that anyone queues an item.
* `PosixTimers!FairTimersSpec`: the dispatch thread and the callers go on, and callbacks return.
  Fairness is strong, because both the mutex and the state of a recurring item are free time
  and again: a thread that keeps asking for the mutex, or repeats the exchange of a
  Disarm, gets its turn. Nobody has to call.
* The read-write lock: who holds it releases it, and who is let in goes in (weak fairness
  of `ReleaseReadWriteLock`, `WaitForEvent`, `WaitForSemaphore`). Nobody has to ask for it;
  which of two writers takes the event is open, so `WriterEnters` says that one of them does.
* Functions: each thread inside ResolveFunction continues (`Resolve`), the spin being a
  step it can always take; a translation may succeed or fail.
* A host thread runs, its signals are delivered, and a caller inside Suspend, Resume or
  Terminate returns. `ResumedGoesOn` is about behaviours in which none of the overlaps that
  section 6 describes occurs; they are listed in `Overlap`.
* Audio: the worker and the thread that pauses run. The worker takes the event only when
  no client is ready, so that fairness is strong (the event stays signaled); and
  `AudioPauseReturns` says only that a pause comes *if* time and again no client is ready.
* No liveness is claimed for the mailbox, the paint modes, the object table, XMA or the
  allocators; what corresponds to it there is stated as safety (`PaintIsToCome`,
  `NoKickLost`, `FailsForAReason`).

## 5. What is proved, and how

Every theorem is for every value of the constants, under the named `ASSUME`s of the module.

**PosixConditionsProofs**, for every set of threads and objects, every maximum and every
width of the counters:

* `TypeCorrect`: `Spec => []TypeOK`. `TakenFacts` is its core: a successful wait takes
  from a semaphore at most what it has, although a list may name it twice.
* `MutantsAreExclusive` and `OwnersRelease`, if `StrayReleasers = {}`. `MutantExclusive`
  alone is not inductive: between the unlocked reads and the decrement, another
  thread may act. `MutantInv` adds that a thread inside Release that has passed the
  owner test still holds the mutant (`Releasing`), that a count above zero is somebody's
  (`Counts`), and that recursion stays within its bound, so that an acquisition does
  not wrap the counter (`Recursion`).
* `NoWakeupIsLost`, if `StrayReleasers = {}`: `WakeupInv` is `MutantInv` and the
  property itself. Every step that can make an object signaled for a *blocked* thread
  notifies all: a Set, an Add, and the decrement that takes a mutant's count from 1.
  A decrement from a higher count makes nothing signaled for others, and that
  rests on `MutantExclusive`.
* `SemaphoresAreBounded`: `Spec => OverrunNeedsARace`, for any number of threads that
  release and whatever else they do to one another: in a behaviour in which no two releases
  of a semaphore have both found room (`Raced`), no semaphore exceeds its maximum.
  `SemaphoreInv` adds `Room`: between a successful check and the add, the room stays, since
  another add would have been a race and others can only take.
* `ObjectsAreAtomic`: `Spec => ([]~Raced => AtomicObjects)`, if `StrayReleasers = {}`. Lists
  may name an object twice; then a semaphore is taken as often as it has. Under `MutantInv`
  and `SemaphoreInv` every step maps to one step of DispatcherObjects or to a stutter: the
  waits by `CompleteIsWait`, and the Releases by `Room`, `Fitting` and `Releasing`, that what
  they decided without the mutex is still true under it.

**TimerProofs**, the queue, for every set of items and threads, every capacity and interval:
`DisarmIsForGood` and `ExchangeIsSound` follow from `QueueInv`: the types; what is in the
ring, in the list or at the dispatch thread exists (`ItemsExist`); the item of the running
callback, and no other, is in a state that says so (`OneInCallback`); the destructor's
item is disarmed from the first (`KickIsDisarmed`); and an item whose Disarm has returned
stays disarmed and out of its callback (`ForGood`).

**TimerProofs**, the timers over it, for every set of timers and threads, every ring and any number of
calls in a callback, if no timer is set by two callers at once: `TimerInv` says where an
armed item is known. It is the newest of its timer, its callback is the timer's, and
`wait_item_` leads to it, or will when the set that queued it returns (`Known`). Hence the
pointer that a set reads, or a Cancel that no set overlaps, is that of all there is to
disarm (`Targets`), and nothing of the timer is armed while the set goes on (`Quiet`).
`CancelledIsStopped`, `CallbacksAreOwn` and the action property `LastSetSignals` follow.

**PresenterProofs**, the mailbox, for every set of consumers and every number of refreshes:
`MailboxInv` is `TypeOK`, `Ownership` (at each place of producer and consumer, which of
the three images is whose), `Contents` (which images are whole and how recent they are)
and `Blanks`. From it follow `ImagesHaveOneUser`, `FramesAreFresh`, `BlanksAreSent` and
`FirstBranchIsDead`; the last shows that the producer's special case for an image that
is acquired already cannot occur. `MailboxIsRegister` is the refinement to `LatestFrame`:
only `PublishExchange` and `ConsumeExchange` change what the register sees.

**PresenterProofs**, the paint modes, for every number of versions: `PaintInv` ties the mode to the places
of both threads. The UI thread is at a place that uses the connection only while the mode is
not the guest output thread's; what that thread saw of the mode under the mutex stays
true until it gives the mutex back, as every change that matters takes the mutex.
`PaintersAreApart` and `Asserted` follow. `NewIsPainted` is the safety half of "what is new
gets painted": `ComingInv` adds to `PaintInv`, for each debt (a version that was not
painted, UI that appeared or hid itself, a request, a connection to recover), which of the
places of the two threads and which flags still lead to a paint, and that no step clears
the last of them. The exceptions are in the statement: a lost GPU, a request that found no
surface, and a last drawer removed outside of a paint (section 6).

**KernelProofs**, critical sections, for every set of threads, spin count and depth: `Counted` says
what `lock_count` counts: every waiting thread, and for the one inside as often as it
has entered. Without the exact count nothing follows from a count of -1, with which a
thread enters, nor from any other, with which one is woken. `OneIsInside`,
`OwnersAreRight`, `WakesSomebody`, `NobodyIsForgotten` follow, and `SectionIsLock`, the
refinement to `RecursiveLock`.

**AllocatorProofs**, for every set of guest threads and number of contexts: `XmaInv` has the
owner of each context by where its guest thread is, the flags of a context in terms of
one another, and the handshake of a pause. `ContextsAreOwned`, `KicksAreKept`, and
`PauseIsQuiet`: when Pause has returned nothing is decoded until Resume.

**KernelProofs**, audio, for every set of clients and number of frames: `OneFrameLacksRoom`
(every release of a semaphore has room, but for one per client that was registered while
the worker served an earlier one at its index) needs that a client that is gone leaves no frame and no charge behind, except for what the
worker has taken (`NothingLeftOver`); `HandshakesAreFresh` says of each place of the
controlling thread and of the worker which of the signals can be set.

**KernelProofs**, completion ports, for every set of threads and every maximum:
`StrandedByOneTooMany`. `PortInv` is the balance of a port: the notifications in the queue
are those the semaphore counts, those whose reader is between its wait and its pop, the one
whose post is between its push and its release, and those that are stranded; these change
only with a release that fails, and then the queue holds the maximum besides the one that is
posted and those that readers have been let through to.

**ReadWriteLockProofs**, for every number of readers and writers that a word can count:
`TheReadWriteLockIsSound`. `InOrder` ties each counter to the threads by where they are
(`AllCounted`, `ReadersCounted`): between the readers inside and those outside are those
that a writer lets in and that were not woken yet. `InTurn` says for whom a thread waits: a
reader for a writer, a writer for readers or another writer unless it is being let in. From
that follows whom the last reader lets in, and that no counter goes below zero. One step
leaves this order, the writer that leaves the lock to writers alone (section 6);
`IsDeserted` is what holds from then on: nobody is in the lock and everybody who comes
waits, so that exclusion holds of that too.

**HostProofs**, threads, for every number of callers: `TheSuspendedStop`. What stops a
thread is in four places (`Stopped`): its own place, the handler, a signal under way, a
caller inside Suspend. `ThreadInv` keeps the count and the state tied to them although
Suspend writes both without the mutex: a Resume that has read a count of more than zero
has the mutex until it writes it back (`MutexHeld`), and before the first suspension the
only count is that of a thread created suspended (`NeverSuspended`). These are claimed of
a thread that is not `astray` (section 6).

**HostProofs**, functions, for every number of threads and functions, whoever calls whom:
`TheEntriesAreRight`. `TableInv` says that a thread at work on a function is alone with it
while the entry says *compiling* (`OneAtWork`), and what it has done by each place
(`WorkDone`). A symbol in the making belongs to one thread, which translates it or declares
it (`Births`): so a thread at work that finds one meets a declaration, which is the race that
`early` remembers, and without it an entry that says *ready* has code. One that says
*compiling* has exactly one thread that will end it.

**ObjectTableProofs**, for every number of threads, objects, names and slots, and every set
of calls the guest makes: `EveryPointerIsCounted`. Every operation moves one entry of the
table or one object_ref and counts it; but whether an object_ref is there when an operation
uses it, or absent when one takes it, depends on what follows what in a call. So `TableInv`
has, besides the counts (`Counted`), that the operations left of every call follow one
another as they do in the code (`WellFormed`) and that a thread has an object_ref
exactly at the operations that need one (`ThreadOk`), and that an object without a
handle in its structure was not created, so that nothing leads to it when New takes it
(`Stashed`). The counts are cardinalities of sets, each of which gains or loses one element
in a step. The proof covers dereferences that give up another object's handle (section
6): the *pointers* stay exact even then.
`HandlesDenote` and `UsesDoNotLeak` state what the handles mean, for two kinds of guests;
outside them section 6 has counterexamples. `AHandleDenotes` and `NoHandleLeaks` are their
parts for a guest that creates, duplicates, moves, closes and purges handles of objects
without names, with no care (`PlainGuest`). `PlainInv` accounts for every entry
of the table: it has one use, which is the guest's, or that of the one thread whose call is
about to give it or to remove it (`OneUse`). Which handle a call is about to give can be
read off its next operations and locals, except between New and `handle()`, where it is
the first of the object's list; that it stays the first while other threads remove theirs
is `ListHeads`. A call may find that its handle was closed, or that the slot is another
object's by now; both are in the proof, as the guest need not be careful.
`AReferredHandleDenotes`, `NoReferenceLeaks`, `TheStructureFindsIt` and `DeletedHaveNoHandles`
are their parts for a careful guest that creates objects, opens them by name, references,
dereferences and closes (`ReferringGuest`; careful as in `Spared`). `ReferenceInv` says that
an object has at most one handle, the one in its structure (`OneHandle`), and that the count
of a handle is exactly the sum of what the guest may close, of its references to the object,
and of the calls that have retained and not yet given, or not yet released (`UsesCounted`);
so the count reaches zero only when the last of them is gone. Every step moves one use from
one of the three to another (`SettledMoves`), adds or gives up one, or removes the handle with
the last (`SettledRemoves`). Carefulness is needed where a call has looked its handle up and
not yet retained it: nothing counts for it but the guest's own use (`CallFine`). The search
for a name makes such a gap of its own: it releases the handle it found before it retains it
again. What it found is there in the gap because some use is one that no other call is about
to give up, the guest's or that of the call that created the object (`HandlesKept`); that is
not a count, so it is an invariant beside `UsesCounted`. `NamesLead` says that a name leads to
an object of that name, so that a search ends with an object and not with nothing.

**AllocatorProofs** also has, for every number of threads, words and bits: `BitsAreHandedOutOnce`,
and `FailureHasAReason`, which needs what a search knows of the words behind it: each was
empty when it was looked at, and is, or a bit was released since (`FoundEmpty`).
And of the heap, for every page table, in particular for every size: `TheSearchIsFirstFit`
and `TheRegionsAreWhole`. The loops of the search are recursive functions that are called at
lower, or higher, pages. `LoopExists` shows that such a function exists, by the least rank at
which it would not, `LoopInduction` that what a place takes over from the next one holds
at all. What is taken over is, for `TopDown`, that the result is the highest page that fits up
to the place (`Found`): a page between the place and the next does not fit, because the
page that was found taken is in its span, and the next is the last aligned one from which
that is not so (`Alignment`). `HeapAssumption` says that the pages at which the search of Alloc ends and that of
AllocSystemHeap begins are multiples of every alignment asked for: both 0x30000 in
v00000000, 0x3000 and 0x2F00 in the heap of 64 KB pages. What lies behind the last aligned
page of a range is not searched, and `Fits` leaves it out.
`HeapInv` adds to `RegionsAreWhole` that free entries have the base zero, so that Release,
which wants an entry that names its own page, does not take one for a region; and that the
regions of torn pages hold torn pages only (`TornStaysTorn`), so that neither a Release nor
a reservation of one of them reaches a whole region. A reservation keeps that in two cases:
`CleanReserveKeeps`, of free pages, and `TearingReserveKeeps`, in which every region it meets
is torn, and, being whole before, met by no other.

## 6. What the code does that its comments do not say

Five counterexamples are kept as runs:

* **A semaphore can exceed its maximum** (`conditions_overrun`). `Release` compares
  `maximum_count_ - count_` with the amount before it locks. Two releases at once both
  pass. Above the maximum the unsigned difference wraps and every later release
  passes. `base/threading.h:333-334` promises otherwise.
* **A callback that disarms its item twice never returns** (`timers_self_disarm`). The
  second call finds `kInCallbackSelfDisarmed` and waits for a state that only its own
  thread could store. `base/threading_timer_queue.h:38-42` says it returns immediately.
* **Dereferencing an object can take a use of another object's handle**
  (`objects_dereference`). The guest structure keeps the first handle an object
  had. Close that one while a duplicate is open, let the slot be used again, and
  ObDereferenceObject finds the other object through it.
* **A function can be published as ready without code** (`functions_undefined`). A symbol
  is born in the status *defining* and is declared without the lock; a thread that waited
  for *defining* to end takes *declared* for an answer. `cpu/processor.cc:270`.
* **A resumed thread can stay suspended** (`threads_resume`). The handler of an earlier
  suspension stores that the thread runs over the state of a new one; the Resume that
  follows refuses. `base/threading.h:479`.

Others were met while the models were built. Those marked (m) are steps of a model that the
parameters or the properties of the runs stay clear of.

*Wait objects.*
(m) `Release` of a mutant by its *last* owner, who gave it up, can go through while
another thread acquires it: `owner_` is not cleared, and `owner_` and `count_` are read
apart. With `StrayReleasers` non-empty, `MutantExclusive`, `AtomicObjects` and
`NoLostWakeup` do not hold.
(m) `SignalAndWait` signals in one critical section and waits in another; between them
others act, so that it may miss a pulse or lose to a thread that came later.
`threading.h:224` calls it a single operation.
(m) `Pulse` resets the event after a fixed short sleep, whether or not the threads it
woke have run; `threading.h:302-304` says after they were released.
(m) A thread that ends holding a mutant leaves it owned, and no wait returns
`kAbandoned`, which `threading.h:193-196` describes.

*Timers.*
(m) SetOnce and SetRepeating disarm the previous item before they take the mutex
(`threading_posix.cc:405`). Two threads that set one timer at once disarm the same item and
queue one each; `wait_item_` keeps the second. Cancel disarms that; the first signals the
timer, for ever if it recurs, though `base/threading.h:396-397` says that Cancel stops the
timer. With `OneSetter` FALSE and two threads, `CancelIsFinal` does not hold.
(m) The destructor of the timer queue needs a free slot in the ring for its kick. If the
ring is full after the dispatch thread has seen the flag, nobody empties it; the run's
`DestructorEnds` is about the case that there is room.
(m) SetOnce and SetRepeating (`threading_posix.cc:407`) hold the process-wide mutex while
they queue. With a full ring they wait for the dispatch thread, and it for the mutex if it
is about to signal a timer, or if its callback sets one or uses any other wait object:
nothing in the process waits or signals again. `Clogged` is that state, which `CallsReturn`
excepts and without which it is violated.
`wait_item_` is assigned under the mutex and read without it, which is a data race; the
model takes the old or the new pointer.
XTimer::SetTimer (`kernel/xtimer.cc:60`) stores the thread, the routine and the argument of
the APC before it sets the host timer, which cancels the old item: an expiry in between
queues an APC of the old due time with the new routine, or with none.

*Threads.*
(m) `create_suspended` stores the state and the count in two sections; two Suspends at once
may count once; a thread resumed after it was created suspended keeps the state
`kSuspended`. Then another Resume is accepted and takes the count below zero. (m) A thread
that is terminated before it has started writes its first state over `kFinished`, and its
first count over that of a Suspend; it is cancelled soon after. Both are `astray`, and the
properties speak of threads that are not; MCKernel goes no further there.
A signal that arrives while the thread has its own `state_mutex_` waits for itself.
QueueUserCallback has one slot, and a callback for a thread that is not in an alertable wait
is dropped, against `threading.h:472-476`.

*Locks, ports.*
(m) With two writers, a writer that leaves with writers but no readers waiting takes the
branch that counts down the readers' count at zero (an `else` is missing at
`xboxkrnl_threading.cc:1689`): the count wraps and nobody is woken, then or ever. The history
`deserted` says that this has happened: `ReadWriteLockIsSound` promises counts and hand-over
up to there, and exclusion beyond; the theorem shows that nothing else goes wrong.
(m) A notification queued while the port's semaphore is at its maximum stays without a
count: `StrandedOnlyIfFull` says that such a post strands one, and nothing else does.

*Handles.*
(m) `ObReferenceObjectByName` retains the handle twice, and one dereference releases one
use. (m) Creating a name that exists gives up the use of the handle that the search took
before it takes its own (`xboxkrnl_threading.cc:82`); a close in between removes the
handle, and so does a dereference if a reference is all that keeps it. `Spared` keeps a
guest that names objects from both. (m) The search for a name and its insertion are separate sections: two creations
at once make two objects of one name. Closing *any* handle of a named object removes the
name. (m) `NtDuplicateObject` with the option to close the source removes a handle whose
count is not zero, against the assertion at `object_table.cc:221`. (m) The purge at the
end of a title releases objects with handles in their lists, against the assertion at
`xobject.cc:47`, and leaves names behind. `LookupTableInLock` accepts the slot one past
the end.

*Presenter.*
(m) Removing the last UI drawer outside a paint leaves the UI on the screen until the next
frame, against `presenter.cc:1332-1336`: the window is made to paint, but without drawers,
without a request and unforced its paint does nothing (244-255). `removed` is that case.
(m) A request for a paint that finds no surface leaves its flag set, which suppresses the
next request, against `presenter.h:913-915`; `PaintIsToCome` excludes the time after it.

*Audio and XMA.*
(m) A worker that took a client's semaphore before the client was unregistered and another
registered in its place calls the new one back once too often: one frame more than the
semaphore has room for (`overdue`), so that the driver's assertion on `Release(1)`
(`sdl_audio_driver.cc:201`) fails once.
(m) A CreateDriver that fails leaves the semaphore charged (191-197).
(m) Shutdown while paused waits for a worker that waits for Resume. (m) Clients that are
always ready starve the event. (m) XmaDecoder::Pause does not wake the worker: it pauses
with the next kick. `is_enabled_` survives a release.
(m) BitMap::Acquire can fail although the map was never full, if bits before the word it
looks at are released meanwhile; `bit_map.h:32-33` says only when no bits are left.

*Heaps.*
(m) AllocFixed with RESERVE and COMMIT together is not refused over reserved pages, because of
the `==` at `memory.cc:943` (the comment at 937-938 is about every reservation), and a
COMMIT of reserved and free pages makes all of them a new region: inside the old one,
whose Release then frees, and counts, pages twice. (m) The check of AllocFixed compares the
last page with the size by `>`, so one page past the end passes, and the entry after the
table is read and written. `RegionsAreWhole` says that the damage stays with the regions
that such a request meets, and with what is put in their place. Release of a free first
page of a heap that does not start at zero finds a count of zero, of which the last page
wraps, so that the loop runs out of the table.
The numbers of AllocRange wrap if the rounded size is above the aligned end of the range
(1046, 1087). Reset and Restore do not set `unreserved_page_count_`.

## 7. What is only model-checked, and what is not modelled

Liveness is checked on the small instances only: the prover does not reason about
fairness (`WaitersServed`, `DueItemIsDispatched`, `DestructorEnds`, `CallsReturn`,
`WriterEnters`, `ResolvedInTheEnd`, `ResumedGoesOn`, `AudioPauseReturns`). Every invariant
and action property of a passing run, and the refinements, are also proved. Of handles,
nothing but `PointersCounted` is claimed for guests that duplicate *and* reference, that
reference by name, or that name objects and take no care: section 6 has counterexamples.
Not modelled, and why:

* *Alertable waits and user callbacks*: one slot, no protocol.
* *Windows and other hosts*: `threading_win.cc` forwards to the operating system.
* *Kernel threads, APCs, DPCs, dispatcher objects*: the kernel's queues run under the
  dispatcher's spin lock; what is below them is in PosixThreads and PosixConditions.
* *Save and restore* of the object table, the heaps and the audio system: single-threaded
  walks of files, under a paused emulator. *Resize* of the object table: under the lock.
* *Host handles; ObReferenceObject and ObOpenObjectByPointer*: a second table with the
  same operations; calls that go through the same ones.
* *Clear and Block of XMA contexts, and the old decoder*: they change only what is decoded,
  or wait for the lock. *Decoding* is signal processing.
* *Physical heaps, Protect*: a heap whose pages are also allocated in a parent heap, and
  flags of pages that nothing decides on.
* *Memory watches*: the order of a page fault and of a watch's callback is decided by the
  host's protection of pages.
* *The ring of the command processor*: one reader and one writer of two pointers; packets
  are data.
* *Notification listeners, enumerators*: every call is one critical section.
* *Compiler, shader translation, texture and render-target caches, graphics back ends*:
  their correctness is about values of 64-bit data and about external APIs. They are most
  of the repository's lines.
* *File systems, content, patches, HID, UI, debugger*: I/O and presentation.

## 8. What is left

In the order of what it would add:

1. The physical heaps: allocation in two page tables, one of them with the parent's lock.
2. The functions queued for the command processor and its ring; memory watches with an
   abstract page fault.
3. XTimer over PosixTimers, once it is decided what an overlap of SetTimer and an expiry
   should do.

## 9. How to run

    tlc -workers 2 -config conditions.cfg MCPosixConditions
    tlapm PosixConditionsProofs.tla

The first line has the same form for every run of `PROJECT.json`; the longest run takes
two to three minutes on two cores. The proofs take a few minutes.
