------------------------------ MODULE MCKernel ------------------------------
(***************************************************************************)
(* Parts of the kernel and what it runs on, for TLC in one run: critical   *)
(* sections, the read-write lock, an I/O completion port, the function     *)
(* table, a host thread and the audio system.  They share no variable, so  *)
(* a behaviour of this module is one of a single part; `part' says which,  *)
(* and the others stay at their initial states.                            *)
(***************************************************************************)
EXTENDS CriticalSections, ReadWriteLock, IoCompletion, FunctionTable, PosixThreads, AudioSystem

CONSTANTS t1, t2, t3, r1, r2, r3, w1, w2, c1, c2, c3, main, leaf

VARIABLE part

(* Two functions: main calls leaf, and leaf calls main.                     *)
CallsOf == [f \in Functions |-> IF f = main THEN {leaf} ELSE {main}]

-----------------------------------------------------------------------------
all == <<part, vars, readWriteVars, portVars, functionVars, threadVars, audioVars>>

PartsInit ==
  /\ part \in {"section", "lock", "port", "functions", "thread", "audio"}
  /\ Init /\ ReadWriteInit /\ PortInit /\ FunctionsInit /\ ThreadInit /\ AudioInit
  /\ part = "thread" \/ ~create_suspended
  /\ part = "audio" \/ index = 0

(* A step of one part, and of no other.                                     *)
InSection(A) ==
  /\ part = "section" /\ A
  /\ UNCHANGED <<part, readWriteVars, portVars, functionVars, threadVars, audioVars>>
InLock(A) ==
  /\ part = "lock" /\ A
  /\ UNCHANGED <<part, vars, portVars, functionVars, threadVars, audioVars>>
InPort(A) ==
  /\ part = "port" /\ A
  /\ UNCHANGED <<part, vars, readWriteVars, functionVars, threadVars, audioVars>>
InCode(A) ==
  /\ part = "functions" /\ A
  /\ UNCHANGED <<part, vars, readWriteVars, portVars, threadVars, audioVars>>
InHost(A) ==
  /\ part = "thread" /\ A
  /\ UNCHANGED <<part, vars, readWriteVars, portVars, functionVars, audioVars>>
InAudio(A) ==
  /\ part = "audio" /\ A
  /\ UNCHANGED <<part, vars, readWriteVars, portVars, functionVars, threadVars>>

(* Nothing is claimed of a thread that went astray: the run ends there.     *)
PartsNext ==
  \/ InSection(Next) \/ InLock(ReadWriteNext) \/ InPort(PortNext)
  \/ InCode(FunctionsNext) \/ InHost(ThreadNext /\ ~astray) \/ InAudio(AudioNext)

(* The fairness of ReadWriteFairSpec, FunctionsFairSpec, ThreadFairSpec and  *)
(* AudioFairSpec.                                                           *)
Fairness ==
  /\ \A t \in LockUsers : WF_all(InLock(ReleaseReadWriteLock(t)))
  /\ \A w \in Writers : WF_all(InLock(WaitForEvent(w)))
  /\ \A r \in Readers : WF_all(InLock(WaitForSemaphore(r)))
  /\ \A t \in Resolvers : WF_all(InCode(Resolve(t)))
  /\ WF_all(InHost(Run)) /\ WF_all(InHost(Handle))
  /\ \A t \in Callers : WF_all(InHost(Return(t)))
  /\ WF_all(InAudio(Work)) /\ SF_all(InAudio(WakeForShutdown)) /\ WF_all(InAudio(Finish))

PartsSpec == PartsInit /\ [][PartsNext]_all /\ Fairness

=============================================================================
