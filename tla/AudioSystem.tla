---------------------------- MODULE AudioSystem ----------------------------
(***************************************************************************)
(* The audio system (apu/audio_system.cc) with the driver it plays through *)
(* (apu/sdl/sdl_audio_driver.cc).  A client has a semaphore that counts    *)
(* the frames it may still queue.  The worker waits for any of them, and,  *)
(* after them all, for the event that asks it to stop or to pause; then it *)
(* reads the client under the lock and calls it back without.              *)
(***************************************************************************)
EXTENDS Integers

CONSTANTS
  Clients,          \* the indices of clients_, numbers
  queued_frames,    \* how many frames a client may queue
  MaxRegistrations  \* bound: how often a client is registered

ASSUME FrameAssumption == queued_frames \in Nat

VARIABLES
  in_use,           \* in_use[i]: clients_[i] has a callback and a driver
  semaphore,        \* client_semaphores_
  frames,           \* frames[i]: the frames its driver has yet to play
  worker,           \* where the worker is
  index,            \* the client whose semaphore it took
  worker_running, paused,
  shutdown_event, resume_event, pause_fence,
  control,          \* where the thread is that pauses, resumes and shuts down
  registrations,
  overdue           \* overdue[i]: the worker had taken the semaphore of i before
                    \* i was registered as it is, and no release of i has
                    \* failed since (history)

clients == <<in_use, semaphore, frames, registrations, overdue>>
signals == <<shutdown_event, resume_event, pause_fence>>
flags == <<worker_running, paused>>
audioVars == <<clients, signals, flags, worker, index, control>>

AudioInit ==
  /\ in_use = [i \in Clients |-> FALSE]
  /\ semaphore = [i \in Clients |-> 0] /\ frames = [i \in Clients |-> 0]
  /\ worker = "loop" /\ index \in Clients
  /\ worker_running = TRUE /\ paused = FALSE
  /\ shutdown_event = FALSE /\ resume_event = FALSE /\ pause_fence = FALSE
  /\ control = "running"
  /\ registrations = 0
  /\ overdue = [i \in Clients |-> FALSE]

WorkerGoes(from, to) == worker = from /\ worker' = to
ControlGoes(from, to) == control = from /\ control' = to

\* The worker has taken the semaphore of client i and is not done with it.
Serves(i) == index = i /\ worker \in {"read", "callback"}

-----------------------------------------------------------------------------
(* RegisterClient, UnregisterClient: under the global lock. *)

IsFirst(i, S) == \A j \in S : i <= j

Free == {i \in Clients : ~in_use[i]}

\* client_semaphore->ReleaseSemaphore(n): it fails, and counts nothing, if n does not fit.
ReleaseSemaphore(i, n) ==
  semaphore' = IF semaphore[i] + n > queued_frames THEN semaphore
               ELSE [semaphore EXCEPT ![i] = @ + n]

RegisterClient ==
  /\ registrations < MaxRegistrations
  /\ \E i \in Free :
       /\ IsFirst(i, Free)
       /\ ReleaseSemaphore(i, queued_frames)
       /\ \/ /\ in_use' = [in_use EXCEPT ![i] = TRUE]
             /\ overdue' = [overdue EXCEPT ![i] = Serves(i)]
          \/ UNCHANGED <<in_use, overdue>>     \* there is no driver
  /\ registrations' = registrations + 1
  /\ UNCHANGED <<frames, signals, flags, worker, index, control>>

UnregisterClient(i) ==
  /\ in_use[i]
  /\ in_use' = [in_use EXCEPT ![i] = FALSE] /\ frames' = [frames EXCEPT ![i] = 0]
  /\ semaphore' = [semaphore EXCEPT ![i] = 0]
  /\ overdue' = [overdue EXCEPT ![i] = FALSE]
  /\ UNCHANGED <<registrations, signals, flags, worker, index, control>>

(* SDLCallback: the driver has played a frame. *)

\* The release of a frame: where it fails, as the semaphore is full, so does the
\* driver's assertion.
GiveBack(i) ==
  /\ ReleaseSemaphore(i, 1)
  /\ overdue' = [overdue EXCEPT ![i] = @ /\ semaphore'[i] # semaphore[i]]
  /\ UNCHANGED <<in_use, registrations, signals, flags, worker, index, control>>

\* Mutant: the semaphore is released for silence, too.
PlaySilence(i) ==
  /\ in_use[i]
  /\ frames' = [frames EXCEPT ![i] = IF @ = 0 THEN 0 ELSE @ - 1]
  /\ GiveBack(i)

Play(i) ==
  /\ frames[i] > 0
  /\ frames' = [frames EXCEPT ![i] = @ - 1]
  /\ GiveBack(i)

-----------------------------------------------------------------------------
(* WorkerThreadMain. *)

Loop ==
  /\ WorkerGoes("loop", IF worker_running THEN "wait" ELSE "exited")
  /\ UNCHANGED <<clients, signals, flags, index, control>>

Charged == {i \in Clients : semaphore[i] > 0}

WakeForClient ==
  /\ WorkerGoes("wait", "read")
  /\ \E i \in Charged :
       /\ IsFirst(i, Charged)
       /\ index' = i
       /\ semaphore' = [semaphore EXCEPT ![i] = @ - 1]
  /\ UNCHANGED <<in_use, frames, registrations, overdue, signals, flags, control>>

WakeForShutdown ==
  /\ Charged = {} /\ shutdown_event
  /\ WorkerGoes("wait", "shutdown")
  /\ shutdown_event' = FALSE
  /\ UNCHANGED <<clients, resume_event, pause_fence, flags, index, control>>

SeePaused ==
  /\ WorkerGoes("shutdown", IF paused THEN "pause" ELSE "loop")
  /\ UNCHANGED <<clients, signals, flags, index, control>>

\* Mutant: the worker stops and does not say so.
StopSilently ==
  /\ WorkerGoes("pause", "paused")
  /\ UNCHANGED <<clients, signals, flags, index, control>>

SignalPaused ==
  /\ WorkerGoes("pause", "paused")
  /\ pause_fence' = TRUE
  /\ UNCHANGED <<clients, shutdown_event, resume_event, flags, index, control>>

WakeForResume ==
  /\ resume_event
  /\ WorkerGoes("paused", "loop")
  /\ resume_event' = FALSE
  /\ UNCHANGED <<clients, shutdown_event, pause_fence, flags, index, control>>

ReadClient ==
  /\ WorkerGoes("read", IF in_use[index] THEN "callback" ELSE "loop")
  /\ UNCHANGED <<clients, signals, flags, index, control>>

(* The guest's callback submits a frame, or does not; it is one of the      *)
(* client that was read, and clients_[index] may by now be another.         *)
Callback ==
  /\ WorkerGoes("callback", "loop")
  /\ \/ /\ in_use[index]                    \* else SubmitFrame finds no driver
        /\ frames' = [frames EXCEPT ![index] = @ + 1]
     \/ UNCHANGED frames
  /\ UNCHANGED <<in_use, semaphore, registrations, overdue, signals, flags, index,
                 control>>

-----------------------------------------------------------------------------
(* Pause, Resume, Shutdown: one thread of the host. *)

Pause ==
  /\ ControlGoes("running", "setShutdown")
  /\ paused' = TRUE
  /\ UNCHANGED <<clients, signals, worker_running, worker, index>>

SetShutdown ==
  /\ ControlGoes("setShutdown", "awaitFence")
  /\ shutdown_event' = TRUE
  /\ UNCHANGED <<clients, resume_event, pause_fence, flags, worker, index>>

\* Mutant: the fence stays signaled.
FenceStays ==
  /\ pause_fence
  /\ ControlGoes("awaitFence", "paused")
  /\ UNCHANGED <<clients, signals, flags, worker, index>>

WaitForFence ==
  /\ pause_fence
  /\ ControlGoes("awaitFence", "paused")
  /\ pause_fence' = FALSE
  /\ UNCHANGED <<clients, shutdown_event, resume_event, flags, worker, index>>

Resume ==
  /\ ControlGoes("paused", "setResume")
  /\ paused' = FALSE
  /\ UNCHANGED <<clients, signals, worker_running, worker, index>>

SetResume ==
  /\ ControlGoes("setResume", "running")
  /\ resume_event' = TRUE
  /\ UNCHANGED <<clients, shutdown_event, pause_fence, flags, worker, index>>

(* A worker that is paused does not see the shutdown, and the caller waits   *)
(* for it.                                                                   *)
Shutdown ==
  /\ \E from \in {"running", "paused"} : ControlGoes(from, "setShutdownLast")
  /\ worker_running' = FALSE
  /\ UNCHANGED <<clients, signals, paused, worker, index>>

SetShutdownLast ==
  /\ ControlGoes("setShutdownLast", "join")
  /\ shutdown_event' = TRUE
  /\ UNCHANGED <<clients, resume_event, pause_fence, flags, worker, index>>

Join ==
  /\ worker = "exited"
  /\ ControlGoes("join", "shutDown")
  /\ UNCHANGED <<clients, signals, flags, worker, index>>

-----------------------------------------------------------------------------
Work ==
  \/ Loop \/ WakeForClient \/ SeePaused \/ SignalPaused \/ WakeForResume \/ ReadClient
  \/ Callback

Finish == SetShutdown \/ WaitForFence \/ SetResume \/ SetShutdownLast \/ Join

AudioNext ==
  \/ RegisterClient \/ \E i \in Clients : UnregisterClient(i) \/ Play(i)
  \/ Work \/ WakeForShutdown
  \/ Finish \/ Pause \/ Resume \/ Shutdown

AudioSpec == AudioInit /\ [][AudioNext]_audioVars

(* The scheduler runs both threads.  The event stays signaled until the     *)
(* worker comes to wait with no client before it, and is then taken.        *)
AudioFairness == WF_audioVars(Work) /\ SF_audioVars(WakeForShutdown) /\ WF_audioVars(Finish)

AudioFairSpec == AudioSpec /\ AudioFairness

-----------------------------------------------------------------------------
(* Properties. *)

\* When Pause has returned no client is called back until Resume.  The signals
\* of one pause are used up when the next begins, so that no pause takes an
\* answer that was meant for an earlier one; and a worker that has stopped is
\* paused or is told to go on.
FreshHandshake ==
  /\ control = "paused" => worker = "paused"
  /\ control = "running" => ~pause_fence
  /\ pause_fence => control = "awaitFence"
  /\ resume_event => worker = "paused"
  /\ worker = "paused" => paused \/ resume_event \/ control = "setResume"

\* A driver has room to give back every frame it plays, but for one: what the
\* client may queue, what is queued and what the worker is about to have queued
\* add up to queued_frames_ at most.  A callback that the worker had begun before
\* the client was registered makes it one more, so that one release fails, and
\* with it the driver's assertion; no other does.
OnlyOverdueLacksRoom ==
  \A i \in Clients : in_use[i] =>
    semaphore[i] + frames[i] + (IF Serves(i) THEN 1 ELSE 0)
      <= queued_frames + (IF overdue[i] THEN 1 ELSE 0)

\* A pause that is asked for is reached, if time and again the worker has no
\* client to serve; the clients come before the event.
NoneToServe == Charged = {} /\ worker \notin {"read", "callback", "loop"}
AudioPauseReturns == []<>NoneToServe => (control = "awaitFence" ~> control = "paused")

=============================================================================
