----------------------------- MODULE XmaDecoder -----------------------------
(***************************************************************************)
(* The XMA decoder (apu/xma_decoder.cc, apu/xma_context_new.cc).  Guest    *)
(* threads allocate contexts, kick, disable and release them; one worker   *)
(* goes through all contexts, decodes those that are enabled and then      *)
(* sleeps until a kick sets its event.  A context's lock_ is held by the   *)
(* worker while it decodes; what guest threads do under it is one step.    *)
(***************************************************************************)
EXTENDS Integers

CONSTANTS
  Guests,       \* guest threads, each with at most one context
  kContextCount,
  NoContext

ASSUME ContextAssumption == kContextCount \in Nat \ {0} /\ NoContext \notin Nat

Contexts == 0 .. kContextCount - 1   \* the indices of contexts_

VARIABLES
  context_bitmap_,  \* the contexts that are free
  is_allocated, is_enabled,
  buffer_valid,     \* output_buffer_valid of the context data
  work_event,
  guest, own,       \* guest[g]: where guest thread g is; own[g]: its context
  worker, n,        \* where the worker is, and with which context
  worker_running, paused, pause_fence, resume_fence,
  control,          \* where the thread is that pauses, resumes and shuts down
  kicked            \* kicked[c]: its owner waits for it to be decoded (history)

contexts == <<context_bitmap_, is_allocated, is_enabled, buffer_valid, kicked>>
hosts == <<worker_running, paused, pause_fence, resume_fence, control>>
guests == <<guest, own>>
decoder == <<worker, n>>
xmaVars == <<contexts, work_event, guests, decoder, hosts>>

XmaInit ==
  /\ context_bitmap_ = Contexts
  /\ is_allocated = [c \in Contexts |-> FALSE] /\ is_enabled = [c \in Contexts |-> FALSE]
  /\ buffer_valid = [c \in Contexts |-> FALSE] /\ kicked = [c \in Contexts |-> FALSE]
  /\ work_event = FALSE
  /\ guest = [g \in Guests |-> "idle"] /\ own = [g \in Guests |-> NoContext]
  /\ worker = "loop" /\ n = 0
  /\ worker_running = TRUE /\ paused = FALSE
  /\ pause_fence = FALSE /\ resume_fence = FALSE
  /\ control = "running"

GuestGoes(g, from, to) == guest[g] = from /\ guest' = [guest EXCEPT ![g] = to]
WorkerGoes(from, to) == worker = from /\ worker' = to
ControlGoes(from, to) == control = from /\ control' = to

Locked(c) == worker = "decode" /\ n = c

-----------------------------------------------------------------------------
(* AllocateContext, ReleaseContext. *)

AcquireContext(g) ==
  /\ own[g] = NoContext
  /\ GuestGoes(g, "idle", "allocate")
  /\ \E c \in context_bitmap_ :
       /\ \A d \in context_bitmap_ : c <= d
       /\ own' = [own EXCEPT ![g] = c]
       /\ context_bitmap_' = context_bitmap_ \ {c}
  /\ UNCHANGED <<is_allocated, is_enabled, buffer_valid, kicked, work_event, decoder, hosts>>

Allocate(g) ==
  /\ GuestGoes(g, "allocate", "idle")
  /\ is_allocated' = [is_allocated EXCEPT ![own[g]] = TRUE]
  /\ UNCHANGED <<context_bitmap_, is_enabled, buffer_valid, kicked, work_event, own, decoder,
                 hosts>>

\* Mutant: the bit is freed before the context.
FreeBitFirst(g) ==
  /\ own[g] # NoContext /\ ~Locked(own[g])
  /\ GuestGoes(g, "idle", "release")
  /\ context_bitmap_' = context_bitmap_ \union {own[g]}
  /\ UNCHANGED <<is_allocated, is_enabled, buffer_valid, kicked, work_event, own, decoder,
                 hosts>>

\* Mutant: the lock is not taken.
ReleaseUnlocked(g) ==
  /\ own[g] # NoContext
  /\ GuestGoes(g, "idle", "release")
  /\ is_allocated' = [is_allocated EXCEPT ![own[g]] = FALSE]
  /\ buffer_valid' = [buffer_valid EXCEPT ![own[g]] = FALSE]
  /\ kicked' = [kicked EXCEPT ![own[g]] = FALSE]
  /\ UNCHANGED <<context_bitmap_, is_enabled, work_event, own, decoder, hosts>>

ReleaseContext(g) ==
  /\ own[g] # NoContext /\ ~Locked(own[g])
  /\ GuestGoes(g, "idle", "release")
  /\ is_allocated' = [is_allocated EXCEPT ![own[g]] = FALSE]
  /\ buffer_valid' = [buffer_valid EXCEPT ![own[g]] = FALSE]
  /\ kicked' = [kicked EXCEPT ![own[g]] = FALSE]
  /\ UNCHANGED <<context_bitmap_, is_enabled, work_event, own, decoder, hosts>>

FreeContext(g) ==
  /\ GuestGoes(g, "release", "idle")
  /\ context_bitmap_' = context_bitmap_ \union {own[g]}
  /\ own' = [own EXCEPT ![g] = NoContext]
  /\ UNCHANGED <<is_allocated, is_enabled, buffer_valid, kicked, work_event, decoder, hosts>>

-----------------------------------------------------------------------------
(* The guest writes the context data, and the registers (WriteRegister).    *)

SetBufferValid(g) ==
  /\ guest[g] = "idle" /\ own[g] # NoContext
  /\ buffer_valid' = [buffer_valid EXCEPT ![own[g]] = TRUE]
  /\ UNCHANGED <<context_bitmap_, is_allocated, is_enabled, kicked, work_event, guests, decoder,
                 hosts>>

Enable(g) ==
  /\ own[g] # NoContext /\ ~Locked(own[g])
  /\ GuestGoes(g, "idle", "signal")
  /\ is_enabled' = [is_enabled EXCEPT ![own[g]] = TRUE]
  /\ kicked' = [kicked EXCEPT ![own[g]] = TRUE]
  /\ UNCHANGED <<context_bitmap_, is_allocated, buffer_valid, work_event, own, decoder, hosts>>

\* Mutant: the worker is not woken.
KickSilently(g) ==
  /\ GuestGoes(g, "signal", "idle")
  /\ UNCHANGED <<contexts, work_event, own, decoder, hosts>>

SignalWork(g) ==
  /\ GuestGoes(g, "signal", "idle")
  /\ work_event' = TRUE
  /\ UNCHANGED <<contexts, own, decoder, hosts>>

Disable(g) ==
  /\ guest[g] = "idle" /\ own[g] # NoContext /\ ~Locked(own[g])
  /\ is_enabled' = [is_enabled EXCEPT ![own[g]] = FALSE]
  /\ kicked' = [kicked EXCEPT ![own[g]] = FALSE]
  /\ UNCHANGED <<context_bitmap_, is_allocated, buffer_valid, work_event, guests, decoder, hosts>>

-----------------------------------------------------------------------------
(* WorkerThreadMain, and XmaContextNew::Work: the first look at the context  *)
(* is without its lock.                                                     *)

Loop ==
  /\ WorkerGoes("loop", IF worker_running THEN "look" ELSE "exited")
  /\ n' = 0
  /\ UNCHANGED <<contexts, work_event, guests, hosts>>

\* The context after this one; after the last the worker looks for a pause.
Advance ==
  \/ n + 1 \in Contexts /\ n' = n + 1 /\ worker' = "look"
  \/ n + 1 \notin Contexts /\ n' = 0 /\ worker' = "pause?"

Skip ==
  /\ worker = "look" /\ ~(is_enabled[n] /\ is_allocated[n])
  /\ Advance
  /\ UNCHANGED <<contexts, work_event, guests, hosts>>

Enter ==
  /\ is_enabled[n] /\ is_allocated[n]
  /\ WorkerGoes("look", "lock")
  /\ UNCHANGED <<contexts, work_event, n, guests, hosts>>

Lock ==
  /\ worker = "lock"
  /\ is_enabled' = [is_enabled EXCEPT ![n] = FALSE]
  /\ kicked' = [kicked EXCEPT ![n] = FALSE]
  /\ \/ buffer_valid[n] /\ worker' = "decode" /\ UNCHANGED n
     \/ ~buffer_valid[n] /\ Advance
  /\ UNCHANGED <<context_bitmap_, is_allocated, buffer_valid, work_event, guests, hosts>>

Decode ==
  /\ worker = "decode"
  /\ \E valid \in BOOLEAN : buffer_valid' = [buffer_valid EXCEPT ![n] = valid]
  /\ Advance
  /\ UNCHANGED <<context_bitmap_, is_allocated, is_enabled, kicked, work_event, guests, hosts>>

SeePaused ==
  /\ WorkerGoes("pause?", IF paused THEN "pause" ELSE "sleep")
  /\ UNCHANGED <<contexts, work_event, n, guests, hosts>>

SignalPaused ==
  /\ WorkerGoes("pause", "paused")
  /\ pause_fence' = TRUE
  /\ UNCHANGED <<contexts, work_event, n, guests, worker_running, paused, resume_fence, control>>

WakeForResume ==
  /\ resume_fence
  /\ WorkerGoes("paused", "sleep")
  /\ resume_fence' = FALSE
  /\ UNCHANGED <<contexts, work_event, n, guests, worker_running, paused, pause_fence, control>>

WakeForWork ==
  /\ work_event
  /\ WorkerGoes("sleep", "loop")
  /\ work_event' = FALSE
  /\ UNCHANGED <<contexts, n, guests, hosts>>

-----------------------------------------------------------------------------
(* Pause, Resume, Shutdown.  Pause does not wake the worker. *)

others == <<contexts, guests, decoder>>

Pause ==
  /\ ControlGoes("running", "awaitFence")
  /\ paused' = TRUE
  /\ UNCHANGED <<others, work_event, worker_running, pause_fence, resume_fence>>

WaitForFence ==
  /\ pause_fence
  /\ ControlGoes("awaitFence", "paused")
  /\ pause_fence' = FALSE
  /\ UNCHANGED <<others, work_event, worker_running, paused, resume_fence>>

Resume ==
  /\ ControlGoes("paused", "resume")
  /\ paused' = FALSE
  /\ UNCHANGED <<others, work_event, worker_running, pause_fence, resume_fence>>

SignalResume ==
  /\ control \in {"resume", "resumeLast"}
  /\ control' = IF control = "resume" THEN "running" ELSE "join"
  /\ resume_fence' = TRUE
  /\ UNCHANGED <<others, work_event, worker_running, paused, pause_fence>>

Shutdown ==
  /\ control \in {"running", "paused"} /\ control' = "wake"
  /\ worker_running' = FALSE
  /\ UNCHANGED <<others, work_event, paused, pause_fence, resume_fence>>

WakeUp ==
  /\ ControlGoes("wake", IF paused THEN "resumeLast" ELSE "join")
  /\ work_event' = TRUE /\ paused' = FALSE
  /\ UNCHANGED <<others, worker_running, pause_fence, resume_fence>>

Join ==
  /\ worker = "exited"
  /\ ControlGoes("join", "shutDown")
  /\ UNCHANGED <<others, work_event, worker_running, paused, pause_fence, resume_fence>>

-----------------------------------------------------------------------------
Call(g) ==
  AcquireContext(g) \/ ReleaseContext(g) \/ SetBufferValid(g) \/ Enable(g) \/ Disable(g)

Return(g) == Allocate(g) \/ FreeContext(g) \/ SignalWork(g)

Work ==
  \/ Loop \/ Skip \/ Enter \/ Lock \/ Decode \/ SeePaused \/ SignalPaused \/ WakeForResume
  \/ WakeForWork

Finish == WaitForFence \/ SignalResume \/ WakeUp \/ Join

XmaNext ==
  \/ \E g \in Guests : Call(g) \/ Return(g)
  \/ Work \/ Finish \/ Pause \/ Resume \/ Shutdown

XmaSpec == XmaInit /\ [][XmaNext]_xmaVars

-----------------------------------------------------------------------------
(* Properties. *)

\* A context has one owner, and the assertions of AllocateContext and
\* ReleaseContext hold: who gets a context finds it not allocated.
OneOwner ==
  \A g \in Guests : own[g] # NoContext =>
    /\ own[g] \notin context_bitmap_
    /\ \A h \in Guests : own[h] = own[g] => h = g
    /\ is_allocated[own[g]] <=> guest[g] \notin {"allocate", "release"}

\* A context is not given away while it is decoded, although the worker looks at
\* is_allocated before it has the lock.
DecodesAllocated == worker = "decode" => is_allocated[n]

\* Together: nobody uses, nor decodes, the context of another.
ContextsAreApart == OneOwner /\ DecodesAllocated

\* A kick is never lost: as long as one is unanswered, the worker has yet to
\* look at the context, or the event is set or about to be.
Ahead(c) ==
  \/ worker = "loop"
  \/ worker \in {"look", "lock"} /\ n <= c
  \/ worker = "decode" /\ n < c

NoKickLost ==
  worker # "exited" => \A c \in Contexts : kicked[c] =>
    Ahead(c) \/ work_event \/ \E g \in Guests : own[g] = c /\ guest[g] = "signal"

\* When Pause has returned nothing is decoded until Resume.
QuietWhilePaused == control = "paused" => worker = "paused"

=============================================================================
