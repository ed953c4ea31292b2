--------------------------- MODULE CpuThreadProofs ---------------------------
(* Proofs about CpuThread for any set of threads and any bounds.            *)
EXTENDS CpuThread, TLAPS

-----------------------------------------------------------------------------
(* Type correctness, one lemma per part of the state                        *)

\* The bounds are numbers in which the counters can move.
LEMMA Bounds ==
    /\ BacklogMax \in Nat /\ BacklogMax > 1 /\ WedgedMax \in Nat /\ WedgedMax > 0
  BY BoundsAssumption

\* The sound part of the state stays in its types (the backend, its queue, the watchdog).
LEMMA SoundTypeStep ==
    ASSUME TypeOK, Next
    PROVE  SoundTypeOK'
<1> USE Bounds DEF TypeOK, SoundTypeOK, sound, WatchdogFires
<1>1. CASE CpuLoop
  <2>1. CASE CpuStart \/ InitAudio
    <3>1. samples_pending' \in BOOLEAN
      BY <2>1 DEF CpuStart, InitAudio, AudioInit, FlagTypeOK
    <3>2. audio' \in {"off", "playing", "paused"} /\ backlog' \in 0 .. BacklogMax
          /\ UNCHANGED <<starved, speaker_wedged_count>>
      BY <2>1 DEF CpuStart, InitAudio, AudioInit
    <3> QED
      BY <3>1, <3>2
  <2>2. CASE CpuSpeaker
    BY <2>2 DEF CpuSpeaker, SpeakerReset
  <2>3. CASE CheckPause
    BY <2>3 DEF CheckPause
  <2>4. CASE BeginSlice
    BY <2>4 DEF BeginSlice
  <2>5. CASE Flush
    <3>1. backlog' \in 0 .. BacklogMax
      BY <2>5 DEF Flush
    <3>2. starved' \in BOOLEAN
      BY <2>5, Zenon DEF Flush
    <3>4. samples_pending' \in BOOLEAN
      BY <2>5, Zenon DEF Flush
    <3>3. UNCHANGED <<audio, speaker_wedged_count>>
      BY <2>5 DEF Flush
    <3> QED
      BY <3>1, <3>2, <3>3, <3>4
  <2>6. CASE Destroy
    BY <2>6 DEF Destroy
  <2>7. CASE InitLock \/ ReinitVm \/ ReinitSpeed \/ DebugContinue \/ DebugBreak
             \/ DebugResume \/ AutoFast \/ AutoNormal \/ Tail \/ Outer \/ EjectDisks
             \/ PauseBegin(Cpu) \/ PauseLock(Cpu)
    BY <2>7 DEF InitLock, ReinitVm, ReinitSpeed, DebugContinue, DebugBreak, DebugResume,
                AutoFast, AutoNormal, Tail, Outer, EjectDisks, PauseBegin, PauseLock
  <2>8. CASE Exec
    <3>1. samples_pending' \in BOOLEAN
      BY <2>8, Zenon DEF Exec, SpeakerToggled, Sampled
    <3>2. UNCHANGED <<audio, backlog, starved, speaker_wedged_count>>
      BY <2>8 DEF Exec
    <3> QED
      BY <3>1, <3>2
  <2> QED
    BY <1>1, <2>1, <2>2, <2>3, <2>4, <2>5, <2>6, <2>7, <2>8 DEF CpuLoop
<1>2. ASSUME NEW c \in Clients, SetSpeaker(c)
      PROVE  SoundTypeOK'
  BY <1>2 DEF SetSpeaker, SpeakerReset
<1>3. ASSUME NEW c \in Clients, Choice(c) \/ Progress(c) \/ Leave(c), ~SetSpeaker(c)
      PROVE  SoundTypeOK'
  BY <1>3 DEF Choice, Progress, Leave, KeyPress, MenuBegin, PrefsChanged, DiskMenu, Interrupt,
              SetSpeed, DebuggerBegin, DebuggerGo, DebuggerAgain, PauseBegin, PauseLock, DiskDone,
              DebuggerYield, DebuggerRelock, Resume, DebuggerStop, DebuggerEnd
<1>4. CASE \E t \in Threads : SpuriousWakeup(t)
  BY <1>4 DEF SpuriousWakeup
<1>5. CASE MainThread
  BY <1>5 DEF MainThread, StartCPU, StopCPU, Join
<1>6. CASE Drain
  BY <1>6 DEF Drain
<1>7. CASE Exited
  BY <1>7 DEF Exited, vars
<1> QED
  BY <1>1, <1>2, <1>3, <1>4, <1>5, <1>6, <1>7 DEF Next

\* The mutex and the spin lock are free or held by a thread, in every step.
LEMMA LockTypeStep ==
    ASSUME TypeOK, Next
    PROVE  LockTypeOK'
<1> USE DEF TypeOK, LockTypeOK, Threads, locks, Lock, Unlock
<1>1. CASE CpuLoop
  <2>1. CASE InitLock \/ InitAudio \/ BeginSlice \/ Flush
    BY <2>1 DEF InitLock, InitAudio, BeginSlice, Flush
  <2>2. CASE DebugContinue \/ DebugBreak \/ DebugResume
    BY <2>2 DEF DebugContinue, DebugBreak, DebugResume, AfterStep
  <2>3. CASE PauseBegin(Cpu) \/ PauseLock(Cpu)
    BY <2>3 DEF PauseBegin, PauseLock
  <2>4. CASE CpuStart \/ ReinitVm \/ ReinitSpeed \/ CpuSpeaker \/ CheckPause \/ Exec
             \/ AutoFast \/ AutoNormal \/ Tail \/ Outer \/ Destroy \/ EjectDisks
    BY <2>4 DEF CpuStart, ReinitVm, ReinitSpeed, CpuSpeaker, CheckPause, Exec, AutoFast,
                AutoNormal, Tail, Outer, Destroy, EjectDisks
  <2> QED
    BY <1>1, <2>1, <2>2, <2>3, <2>4 DEF CpuLoop
<1>2. ASSUME NEW c \in Clients, PauseBegin(c) \/ PauseLock(c)
      PROVE  LockTypeOK'
  BY <1>2 DEF PauseBegin, PauseLock
<1>3. ASSUME NEW c \in Clients, Resume(c)
      PROVE  LockTypeOK'
  BY <1>3 DEF Resume
<1>4. ASSUME NEW c \in Clients, DebuggerYield(c) \/ DebuggerRelock(c)
      PROVE  LockTypeOK'
  BY <1>4 DEF DebuggerYield, DebuggerRelock
<1>5. ASSUME NEW c \in Clients,
             Choice(c) \/ SetSpeed(c) \/ SetSpeaker(c) \/ DiskDone(c) \/ DebuggerStop(c)
             \/ DebuggerEnd(c)
      PROVE  LockTypeOK'
  BY <1>5 DEF Choice, KeyPress, MenuBegin, PrefsChanged, DiskMenu, Interrupt, SetSpeed,
              DebuggerBegin, DebuggerGo, DebuggerAgain, SetSpeaker, DiskDone, DebuggerStop,
              DebuggerEnd
<1>6. CASE (\E t \in Threads : SpuriousWakeup(t)) \/ MainThread \/ Drain \/ Exited
  BY <1>6 DEF SpuriousWakeup, MainThread, StartCPU, StopCPU, Join, Drain, Exited, vars
<1> QED
  BY <1>1, <1>2, <1>3, <1>4, <1>5, <1>6 DEF Next, Progress, Leave

\* The requests and switches are Booleans in every step.
LEMMA FlagTypeStep ==
    ASSUME TypeOK, Next
    PROVE  FlagTypeOK'
<1> USE DEF TypeOK, FlagTypeOK, requests, control, RequestReinit
<1>1. CASE CpuLoop
  <2>1. CASE InitAudio
    BY <2>1, Zenon DEF InitAudio
  <2>2. CASE CheckPause
    BY <2>2, Zenon DEF CheckPause
  <2>3. CASE BeginSlice
    BY <2>3, Zenon DEF BeginSlice
  <2>4. CASE PauseBegin(Cpu)
    BY <2>4, Zenon DEF PauseBegin
  <2>5. CASE UNCHANGED <<requests, control>>
    BY <2>5
  <2>6. ASSUME ~InitAudio, ~CheckPause, ~BeginSlice, ~PauseBegin(Cpu)
        PROVE  UNCHANGED <<requests, control>>
    BY <1>1, <2>6 DEF CpuLoop, CpuStart, InitLock, ReinitVm, ReinitSpeed, CpuSpeaker, Exec,
          DebugContinue, DebugBreak, DebugResume, Flush, AutoFast, AutoNormal, Tail, Outer,
          Destroy, PauseLock, EjectDisks
  <2> QED
    BY <2>1, <2>2, <2>3, <2>4, <2>5, <2>6
<1>2. ASSUME NEW c \in Clients, PauseBegin(c)
      PROVE  FlagTypeOK'
  BY <1>2, Zenon DEF PauseBegin
<1>3. ASSUME NEW c \in Clients, Resume(c)
      PROVE  FlagTypeOK'
  BY <1>3, Zenon DEF Resume
<1>4. ASSUME NEW c \in Clients, PrefsChanged(c) \/ DebuggerBegin(c) \/ DebuggerEnd(c)
      PROVE  FlagTypeOK'
  BY <1>4, Zenon DEF PrefsChanged, ReinitializeAudio, DebuggerBegin, DebuggerEnd
<1>5. CASE StartCPU \/ StopCPU
  BY <1>5, Zenon DEF StartCPU, ReinitializeAudio, StopCPU
<1>6. ASSUME NEW c \in Clients,
             KeyPress(c) \/ MenuBegin(c) \/ DiskMenu(c) \/ Interrupt(c) \/ SetSpeed(c)
             \/ DebuggerGo(c) \/ DebuggerAgain(c) \/ PauseLock(c) \/ SetSpeaker(c)
             \/ DiskDone(c) \/ DebuggerYield(c) \/ DebuggerRelock(c) \/ DebuggerStop(c)
      PROVE  UNCHANGED <<requests, control>>
  BY <1>6 DEF KeyPress, MenuBegin, DiskMenu, Interrupt, SetSpeed, DebuggerGo, DebuggerAgain,
          PauseLock, SetSpeaker, DiskDone, DebuggerYield, DebuggerRelock, DebuggerStop
<1>7. CASE (\E t \in Threads : SpuriousWakeup(t)) \/ Join \/ Drain \/ Exited
  BY <1>7 DEF SpuriousWakeup, Join, Drain, Exited, vars
<1>8. UNCHANGED <<requests, control>> => FlagTypeOK'
  OBVIOUS
<1> QED
  BY <1>1, <1>2, <1>3, <1>4, <1>5, <1>6, <1>7, <1>8
     DEF Next, Choice, Progress, Leave, MainThread

\* The speed settings and the machine's flags stay in their types.
LEMMA MachineTypeStep ==
    ASSUME TypeOK, Next
    PROVE  MachineTypeOK'
<1> USE DEF TypeOK, MachineTypeOK, speed, machine
<1>1. UNCHANGED <<speed, is_fullspeed, machine>> => MachineTypeOK'
  OBVIOUS
<1>2. CASE CpuLoop
  <2>1. CASE CpuStart
    BY <2>1, Zenon DEF CpuStart
  <2>2. CASE ReinitVm \/ ReinitSpeed
    BY <2>2, Zenon DEF ReinitVm, ReinitSpeed
  <2>3. CASE Exec
    BY <2>3, Zenon DEF Exec, SpeakerToggled
  <2>4. CASE AutoFast \/ AutoNormal
    BY <2>4, Zenon DEF AutoFast, AutoNormal
  <2>5. ASSUME ~CpuStart, ~ReinitVm, ~ReinitSpeed, ~Exec, ~AutoFast, ~AutoNormal
        PROVE  UNCHANGED <<speed, is_fullspeed, machine>>
    BY <1>2, <2>5 DEF CpuLoop, InitLock, InitAudio, CpuSpeaker, CheckPause, BeginSlice,
          DebugContinue, DebugBreak, DebugResume, Flush, Tail, Outer, Destroy, PauseBegin,
          PauseLock, EjectDisks
  <2> QED
    BY <1>1, <2>1, <2>2, <2>3, <2>4, <2>5
<1>3. ASSUME NEW c \in Clients, KeyPress(c) \/ SetSpeed(c) \/ PrefsChanged(c) \/ Interrupt(c)
      PROVE  MachineTypeOK'
  BY <1>3, Zenon DEF KeyPress, SetSpeed, PrefsChanged, Interrupt
<1>4. ASSUME NEW c \in Clients, DebuggerGo(c) \/ DebuggerStop(c)
      PROVE  MachineTypeOK'
  BY <1>4, Zenon DEF DebuggerGo, DebuggerStop
<1>5. ASSUME NEW c \in Clients,
             MenuBegin(c) \/ DiskMenu(c) \/ DebuggerBegin(c) \/ DebuggerAgain(c)
             \/ PauseBegin(c) \/ PauseLock(c) \/ SetSpeaker(c) \/ DiskDone(c)
             \/ DebuggerYield(c) \/ DebuggerRelock(c) \/ Resume(c) \/ DebuggerEnd(c)
      PROVE  UNCHANGED <<speed, is_fullspeed, machine>>
  BY <1>5 DEF MenuBegin, DiskMenu, DebuggerBegin, DebuggerAgain, PauseBegin, PauseLock,
          SetSpeaker, DiskDone, DebuggerYield, DebuggerRelock, Resume, DebuggerEnd
<1>6. CASE (\E t \in Threads : SpuriousWakeup(t)) \/ MainThread \/ Drain \/ Exited
  <2>1. UNCHANGED <<speed, is_fullspeed, machine>>
    BY <1>6 DEF SpuriousWakeup, MainThread, StartCPU, StopCPU, Join, Drain, Exited, vars
  <2> QED
    BY <1>1, <2>1
<1> QED
  BY <1>1, <1>2, <1>3, <1>4, <1>5, <1>6 DEF Next, Choice, Progress, Leave

\* Moving a thread to a label of its own kind keeps every thread at such a label.
LEMMA GotoType ==
    ASSUME PcTypeOK, NEW t \in Threads, NEW label, Goto(t, label),
           t = Cpu => label \in CpuLabels,
           t # Cpu => label \in ClientLabels
    PROVE  /\ pc' \in [Threads -> CpuLabels \cup ClientLabels]
           /\ pc'[Cpu] \in CpuLabels
           /\ \A c \in Clients : pc'[c] \in ClientLabels
  BY ThreadsAssumption DEF PcTypeOK, Goto, Threads

\* Signalling the CPU thread's condition variable moves it from dbgWait to dbgRelock.
LEMMA SignalType ==
    ASSUME PcTypeOK, NEW c \in Clients, NEW label \in ClientLabels, SignalCpu(c, label)
    PROVE  /\ pc' \in [Threads -> CpuLabels \cup ClientLabels]
           /\ pc'[Cpu] \in CpuLabels
           /\ \A d \in Clients : pc'[d] \in ClientLabels
  BY ThreadsAssumption DEF PcTypeOK, SignalCpu, Threads, CpuLabels

\* Every thread stays at the labels of its own program.
LEMMA PcTypeStep ==
    ASSUME TypeOK, Next
    PROVE  PcTypeOK'
<1> DEFINE PcOK == /\ pc' \in [Threads -> CpuLabels \cup ClientLabels]
                   /\ pc'[Cpu] \in CpuLabels
                   /\ \A c \in Clients : pc'[c] \in ClientLabels
<1>0. PcTypeOK /\ Cpu \in Threads /\ Cpu \notin Clients
      /\ (\A c \in Clients : c \in Threads /\ c # Cpu) /\ Main \in Clients
  BY ThreadsAssumption DEF TypeOK, Threads, Clients
<1>1. CASE CpuLoop
  <2>1. op' = op
    BY <1>1 DEF CpuLoop, CpuStart, InitLock, InitAudio, ReinitVm, ReinitSpeed, CpuSpeaker,
          CheckPause, BeginSlice, Exec, DebugContinue, DebugBreak, DebugResume, Flush, AutoFast,
          AutoNormal, Tail, Outer, Destroy, PauseBegin, PauseLock, EjectDisks
  <2>2. CASE DebugBreak
    <3>1. PcOK
      BY <1>0, <2>2 DEF DebugBreak, SignalDebugger, PcTypeOK, CpuLabels, ClientLabels
    <3> QED
      BY <1>0, <2>1, <3>1 DEF PcTypeOK
  <2>3. ASSUME ~DebugBreak
        PROVE  \E label \in CpuLabels : Goto(Cpu, label)
    BY <1>0, <1>1, <2>3 DEF CpuLoop, CpuStart, InitLock, InitAudio, ReinitVm, ReinitSpeed,
          CpuSpeaker, CheckPause, BeginSlice, Exec, DebugContinue, DebugResume, AfterStep, Flush,
          AutoFast, AutoNormal, Tail, Outer, Destroy, PauseBegin, PauseLock, EjectDisks,
          CpuLabels
  <2> QED
    BY <1>0, <2>1, <2>2, <2>3, GotoType DEF PcTypeOK
<1>2. ASSUME NEW c \in Clients, PrefsChanged(c) \/ Interrupt(c)
      PROVE  UNCHANGED <<pc, op>>
  BY <1>2 DEF PrefsChanged, Interrupt
<1>3. ASSUME NEW c \in Clients,
             KeyPress(c) \/ MenuBegin(c) \/ DiskMenu(c) \/ SetSpeed(c) \/ DebuggerBegin(c)
             \/ DebuggerGo(c) \/ DebuggerAgain(c) \/ PauseBegin(c) \/ PauseLock(c)
             \/ SetSpeaker(c) \/ DiskDone(c) \/ DebuggerRelock(c) \/ Resume(c)
      PROVE  PcTypeOK'
  <2>1. op' \in [Clients -> {"none", "boot", "key", "menu"}]
    BY <1>0, <1>3 DEF PcTypeOK, KeyPress, MenuBegin, DiskMenu, SetSpeed, DebuggerBegin,
          DebuggerGo, DebuggerAgain, PauseBegin, PauseLock, SetSpeaker, DiskDone,
          DebuggerRelock, Resume
  <2>2. \E label \in ClientLabels : Goto(c, label)
    BY <1>0, <1>3 DEF KeyPress, MenuBegin, DiskMenu, SetSpeed, DebuggerBegin, DebuggerGo,
          DebuggerAgain, PauseBegin, PauseLock, SetSpeaker, DiskDone, DebuggerRelock, Resume,
          ClientLabels
  <2> QED
    BY <1>0, <2>1, <2>2, GotoType DEF PcTypeOK
<1>4. ASSUME NEW c \in Clients, DebuggerYield(c) \/ DebuggerStop(c) \/ DebuggerEnd(c)
      PROVE  PcTypeOK'
  <2>1. op' = op /\ \E label \in ClientLabels : SignalCpu(c, label)
    BY <1>4 DEF DebuggerYield, DebuggerStop, DebuggerEnd, ClientLabels
  <2> QED
    BY <1>0, <2>1, SignalType DEF PcTypeOK
<1>5. ASSUME NEW t \in Threads, SpuriousWakeup(t)
      PROVE  PcTypeOK'
  <2>1. op' = op /\ Goto(t, "dbgRelock")
    BY <1>5 DEF SpuriousWakeup
  <2> QED
    BY <1>0, <2>1, GotoType DEF PcTypeOK, CpuLabels, ClientLabels
<1>6. CASE StartCPU
  BY <1>0, <1>6 DEF StartCPU, PcTypeOK, CpuLabels, ClientLabels
<1>7. CASE StopCPU \/ Join
  <2>1. op' = op /\ \E label \in ClientLabels : Goto(Main, label)
    BY <1>7 DEF StopCPU, Join, ClientLabels
  <2> QED
    BY <1>0, <2>1, GotoType DEF PcTypeOK
<1>8. CASE Drain \/ Exited
  BY <1>0, <1>8 DEF Drain, Exited, vars, PcTypeOK
<1>9. UNCHANGED <<pc, op>> => PcTypeOK'
  BY <1>0 DEF PcTypeOK
<1> QED
  BY <1>1, <1>2, <1>3, <1>4, <1>5, <1>6, <1>7, <1>8, <1>9
     DEF Next, Choice, Progress, Leave, MainThread

\* The initial state is well typed.
LEMMA TypeInit == Init => TypeOK
<1> SUFFICES ASSUME Init PROVE TypeOK
  OBVIOUS
<1>1. PcTypeOK
  BY ThreadsAssumption DEF Init, PcTypeOK, Threads, Clients, CpuLabels, ClientLabels
<1>2. LockTypeOK /\ FlagTypeOK /\ MachineTypeOK
  BY Zenon DEF Init, LockTypeOK, FlagTypeOK, MachineTypeOK
<1>3. backlog \in 0 .. BacklogMax /\ speaker_wedged_count \in 0 .. (WedgedMax - 1)
  BY Bounds DEF Init
<1>4. SoundTypeOK
  BY <1>3, Zenon DEF Init, SoundTypeOK
<1> QED
  BY <1>1, <1>2, <1>4 DEF TypeOK

\* A step that changes nothing keeps the types.
LEMMA TypeStutter ==
    ASSUME TypeOK, UNCHANGED vars
    PROVE  TypeOK'
  BY DEF TypeOK, PcTypeOK, LockTypeOK, FlagTypeOK, MachineTypeOK, SoundTypeOK, vars, locks,
         requests, control, speed, machine, sound

\* Every reachable state of cpu_thread() and of the threads that pause it is well typed:
\* in particular the watchdog's count stays below its limit and the queue within its size.
THEOREM TypeCorrect == Spec => []TypeOK
<1>1. TypeOK /\ [Next]_vars => TypeOK'
  BY PcTypeStep, LockTypeStep, FlagTypeStep, MachineTypeStep, SoundTypeStep, TypeStutter
     DEF TypeOK
<1> QED
  BY TypeInit, <1>1, PTL DEF Spec

-----------------------------------------------------------------------------
(* The pause: CpuStoppedWhilePaused                                         *)
(*                                                                          *)
(* CpuStoppedWhilePaused is not inductive: it says nothing of who holds the *)
(* mutex.  LockInv adds that the CPU thread owns the mutex throughout its   *)
(* slice, that a pause keeps the mutex out of the CPU thread's hands, and   *)
(* that stepping happens only under the pause of the only client.           *)

DebugLabels == {"debugger", "dbgSpeaker", "dbgSignal", "dbgWait", "dbgRelock", "dbgStepped",
                "dbgDone"}

\* One UI thread, or several that never step: two clients that share the pause can end it
\* under each other, and stepping gives the mutex away while it lasts.
SteppingAlone == "debug" \in Ops => \A c, d \in Clients : c = d

NobodySteps == \A c \in Clients : pc[c] \notin {"dbgWait", "dbgRelock"}

PauseHoldsMutex ==
    is_paused /\ NobodySteps =>
        /\ interface_mutex # NoThread
        /\ interface_mutex = Cpu => pc[Cpu] \in {"eject0", "eject1", "done"}

SteppingIsPaused ==
    IF "debug" \in Ops
    THEN \A c \in Clients : pc[c] \in HoldingLabels => is_paused
    ELSE \A c \in Clients : pc[c] \notin DebugLabels

LockInv == CpuOwnsSlice /\ PauseHoldsMutex /\ SteppingIsPaused

\* The names of the threads are different from each other and from NoThread.
LEMMA ClientFacts ==
    /\ Cpu \in Threads /\ Cpu \notin Clients /\ Main \in Clients /\ NoThread # Cpu
    /\ \A c \in Clients : c \in Threads /\ c # Cpu /\ c # NoThread
  BY ThreadsAssumption DEF Threads, Clients

\* The invariant of the pause holds before main() has paused anything.
LEMMA LockInit == Init => LockInv
  BY ClientFacts DEF Init, LockInv, CpuOwnsSlice, PauseHoldsMutex, SteppingIsPaused, LockedLabels,
     HoldingLabels, DebugLabels, Threads

\* A step of the CPU thread takes the mutex only when it is free, so never under a pause.
LEMMA LockCpuStep ==
    ASSUME TypeOK, LockInv, CpuLoop
    PROVE  LockInv'
<1> USE ClientFacts DEF TypeOK, PcTypeOK, LockInv, locks, Goto, Lock, Unlock, SignalDebugger,
        LockedLabels, HoldingLabels, DebugLabels
<1>1. CASE InitLock
  BY <1>1 DEF InitLock, CpuOwnsSlice, PauseHoldsMutex, SteppingIsPaused, NobodySteps
<1>2. CASE InitAudio \/ Flush
  BY <1>2 DEF InitAudio, Flush, CpuOwnsSlice, PauseHoldsMutex, SteppingIsPaused, NobodySteps
<1>3. CASE BeginSlice
  BY <1>3 DEF BeginSlice, CpuOwnsSlice, PauseHoldsMutex, SteppingIsPaused, NobodySteps
<1>4. CASE DebugContinue
  BY <1>4 DEF DebugContinue, AfterStep, CpuOwnsSlice, PauseHoldsMutex, SteppingIsPaused,
              NobodySteps
<1>5. CASE DebugBreak
  BY <1>5 DEF DebugBreak, CpuOwnsSlice, PauseHoldsMutex, SteppingIsPaused, NobodySteps
<1>6. CASE DebugResume
  BY <1>6 DEF DebugResume, AfterStep, CpuOwnsSlice, PauseHoldsMutex, SteppingIsPaused, NobodySteps
<1>7. CASE PauseBegin(Cpu)
  BY <1>7 DEF PauseBegin, CpuOwnsSlice, PauseHoldsMutex, SteppingIsPaused, NobodySteps
<1>8. CASE PauseLock(Cpu)
  BY <1>8 DEF PauseLock, CpuOwnsSlice, PauseHoldsMutex, SteppingIsPaused, NobodySteps
<1>9. CASE CpuStart \/ ReinitVm \/ ReinitSpeed \/ CpuSpeaker \/ CheckPause \/ Exec
           \/ AutoFast \/ AutoNormal \/ Tail \/ Outer \/ Destroy \/ EjectDisks
  BY <1>9 DEF CpuStart, ReinitVm, ReinitSpeed, CpuSpeaker, CheckPause, Exec, AutoFast, AutoNormal,
              Tail, Outer, Destroy, EjectDisks, CpuOwnsSlice, PauseHoldsMutex, SteppingIsPaused,
              NobodySteps
<1> QED
  BY <1>1, <1>2, <1>3, <1>4, <1>5, <1>6, <1>7, <1>8, <1>9 DEF CpuLoop

\* While no client steps, a pause keeps the CPU thread out of its slice.
LEMMA PausedOutside ==
    ASSUME LockInv, is_paused, NobodySteps
    PROVE  pc[Cpu] \notin LockedLabels
  BY DEF LockInv, CpuOwnsSlice, PauseHoldsMutex, LockedLabels

\* cpu_resume() unlocks the mutex of whoever paused: never the mutex of a running slice.
LEMMA LockResume ==
    ASSUME TypeOK, LockInv, SteppingAlone, NEW c \in Clients, Resume(c)
    PROVE  LockInv'
<1> USE ClientFacts DEF TypeOK, PcTypeOK, Lock, Unlock
<1>1. pc' = [pc EXCEPT ![c] = "idle"] /\ pc[c] \in {"resume", "work"}
      /\ pc'[Cpu] = pc[Cpu]
  BY DEF Resume, Goto
<1>2. NobodySteps
  BY <1>1 DEF NobodySteps, LockInv, SteppingIsPaused, SteppingAlone, DebugLabels
<1>3. CpuOwnsSlice'
  <2>1. CASE is_paused
    BY <1>1, <1>2, <2>1, PausedOutside DEF CpuOwnsSlice
  <2>2. CASE ~is_paused
    BY <1>1, <2>2 DEF Resume, CpuOwnsSlice, LockInv
  <2> QED
    BY <2>1, <2>2
<1>4. ~is_paused'
  BY DEF Resume, LockTypeOK
<1>5. SteppingIsPaused'
  <2>1. CASE "debug" \in Ops
    BY <1>1, <2>1 DEF SteppingIsPaused, SteppingAlone, HoldingLabels
  <2>2. CASE "debug" \notin Ops
    BY <1>1, <2>2 DEF SteppingIsPaused, LockInv, DebugLabels
  <2> QED
    BY <2>1, <2>2
<1> QED
  BY <1>3, <1>4, <1>5 DEF LockInv, PauseHoldsMutex

\* A stepping client gives the mutex away only under its own pause, and takes it back only
\* when the CPU thread is outside its slice.
LEMMA LockStepping ==
    ASSUME TypeOK, LockInv, SteppingAlone, NEW c \in Clients,
           DebuggerYield(c) \/ DebuggerRelock(c)
    PROVE  LockInv'
<1> USE ClientFacts DEF TypeOK, PcTypeOK, Lock, Unlock
<1>0. "debug" \in Ops /\ is_paused /\ \A d \in Clients : d = c
  BY DEF DebuggerYield, DebuggerRelock, LockInv, SteppingIsPaused, DebugLabels, HoldingLabels,
         SteppingAlone
<1>1. CASE DebuggerYield(c)
  <2>1. pc[Cpu] \notin LockedLabels
    BY <1>0, <1>1, PausedOutside DEF NobodySteps, DebuggerYield
  <2>2. pc'[c] = "dbgWait" /\ is_paused' /\ (pc'[Cpu] = pc[Cpu] \/ pc'[Cpu] = "dbgRelock")
    BY <1>0, <1>1 DEF DebuggerYield, SignalCpu
  <2> QED
    BY <1>0, <2>1, <2>2 DEF LockInv, CpuOwnsSlice, PauseHoldsMutex, NobodySteps,
       SteppingIsPaused, LockedLabels
<1>2. CASE DebuggerRelock(c)
  <2>1. pc'[c] = "dbgStepped" /\ is_paused' /\ pc'[Cpu] = pc[Cpu] /\ interface_mutex' = c
        /\ interface_mutex = NoThread
    BY <1>0, <1>2 DEF DebuggerRelock, Goto
  <2> QED
    BY <1>0, <2>1 DEF LockInv, CpuOwnsSlice, PauseHoldsMutex, NobodySteps, SteppingIsPaused
<1> QED
  BY <1>1, <1>2

\* The other steps of a client leave the mutex alone or take it while it is free.
LEMMA LockClientStep ==
    ASSUME TypeOK, LockInv, SteppingAlone, NEW c \in Clients,
           Choice(c) \/ Progress(c) \/ Leave(c)
    PROVE  LockInv'
<1> USE ClientFacts DEF TypeOK, PcTypeOK, LockInv, locks, Goto, Lock, HoldingLabels, DebugLabels
<1>1. CASE PauseLock(c)
  BY <1>1 DEF PauseLock, CpuOwnsSlice, PauseHoldsMutex, SteppingIsPaused, NobodySteps
<1>2. CASE PauseBegin(c)
  BY <1>2 DEF PauseBegin, CpuOwnsSlice, PauseHoldsMutex, SteppingIsPaused, NobodySteps
<1>3. CASE KeyPress(c) \/ MenuBegin(c) \/ PrefsChanged(c) \/ Interrupt(c)
  BY <1>3 DEF KeyPress, MenuBegin, PrefsChanged, Interrupt, CpuOwnsSlice, PauseHoldsMutex,
              SteppingIsPaused, NobodySteps
<1>4. CASE SetSpeed(c) \/ SetSpeaker(c) \/ DiskMenu(c) \/ DiskDone(c)
  BY <1>4 DEF SetSpeed, SetSpeaker, DiskMenu, DiskDone, CpuOwnsSlice, PauseHoldsMutex,
              SteppingIsPaused, NobodySteps
<1>5. CASE DebuggerBegin(c) \/ DebuggerGo(c) \/ DebuggerAgain(c)
  BY <1>5 DEF DebuggerBegin, DebuggerGo, DebuggerAgain, CpuOwnsSlice, PauseHoldsMutex,
              SteppingIsPaused, NobodySteps
<1>6. CASE DebuggerStop(c) \/ DebuggerEnd(c)
  BY <1>6 DEF DebuggerStop, DebuggerEnd, SignalCpu, CpuOwnsSlice, PauseHoldsMutex,
              SteppingIsPaused, NobodySteps, LockedLabels
<1> QED
  BY <1>1, <1>2, <1>3, <1>4, <1>5, <1>6, LockResume, LockStepping DEF Choice, Progress, Leave

\* Every step keeps the invariant of the pause.
LEMMA LockStep ==
    ASSUME TypeOK, LockInv, SteppingAlone, Next
    PROVE  LockInv'
<1> USE ClientFacts DEF TypeOK, PcTypeOK, Lock, Unlock
<1>1. ASSUME NEW t \in Threads, SpuriousWakeup(t)
      PROVE  LockInv'
  BY <1>1 DEF SpuriousWakeup, Goto, locks, LockInv, CpuOwnsSlice, PauseHoldsMutex,
     SteppingIsPaused, NobodySteps, HoldingLabels, DebugLabels, LockedLabels
<1>2. CASE MainThread
  BY <1>2 DEF MainThread, StartCPU, StopCPU, Join, Goto, locks, LockInv, CpuOwnsSlice,
     PauseHoldsMutex, SteppingIsPaused, NobodySteps, HoldingLabels, DebugLabels, LockedLabels
<1>3. CASE Drain \/ Exited
  BY <1>3 DEF Drain, Exited, vars, locks, LockInv, CpuOwnsSlice, PauseHoldsMutex,
     SteppingIsPaused, NobodySteps
<1> QED
  BY <1>1, <1>2, <1>3, LockCpuStep, LockClientStep DEF Next

\* The pause works: after cpu_pause() returns and until cpu_resume(), cpu_thread() is
\* outside its locked slice except while the debugger steps it.
THEOREM PausedCpuIsStopped == SteppingAlone /\ Spec => []CpuStoppedWhilePaused
<1> SUFFICES ASSUME SteppingAlone PROVE Spec => []CpuStoppedWhilePaused
  OBVIOUS
<1>1. TypeOK /\ LockInv /\ [Next]_vars => LockInv'
  <2>1. ASSUME LockInv, UNCHANGED vars PROVE LockInv'
    BY <2>1 DEF vars, locks, LockInv, CpuOwnsSlice, PauseHoldsMutex, SteppingIsPaused,
       NobodySteps
  <2> QED
    BY <2>1, LockStep
<1>2. LockInv => CpuStoppedWhilePaused
  BY PausedOutside DEF CpuStoppedWhilePaused, NobodySteps
<1> QED
  BY LockInit, TypeCorrect, <1>1, <1>2, PTL DEF Spec

-----------------------------------------------------------------------------
(* Pauses that do not overlap: FlushAssertion and EjectAssertion             *)
(*                                                                          *)
(* Any set of clients, the stepping debugger included.  While no pause has  *)
(* joined another, at most one thread relies on the CPU being paused, and   *)
(* the facts of the mutex hold for it; ApartInv says so.  Nothing of it is  *)
(* left while a pause is shared, so ending one must bring it back: when the *)
(* last thread has resumed, nobody relies on a pause and the slice owns its *)
(* mutex.  That samples meet full speed only while somebody is about to     *)
(* reset the speaker (StrayIsReset) needs none of that.                     *)

AtMostOne     == \A t, u \in Pausing : t = u
PausingPaused == \A t \in Pausing : is_paused

ApartInv == ~joined => AtMostOne /\ PausingPaused /\ CpuOwnsSlice /\ PauseHoldsMutex

\* A thread that waits for the mutex keeps the others from pausing and resuming.
SpinInv == \A t \in Threads : pc[t] = "pauseLock" => ~is_paused /\ pause_spinLock = t

\* Whoever changed the speed resets the speaker before anything is flushed.
ResetLabels == {"speaker", "dbgSpeaker", "dbgDone"}

Stray == audio # "off" /\ is_fullspeed /\ samples_pending

StrayIsReset == Stray => \/ pc[Cpu] \in {"reinitSpeaker", "autoFastSpeaker"}
                         \/ \E c \in Clients : pc[c] \in ResetLabels

\* Membership in Pausing, for one client and for the CPU thread.
LEMMA PausingFacts ==
    /\ \A c \in Clients : c \in Pausing <=> pc[c] \in HoldingLabels
    /\ Cpu \in Pausing <=> pc[Cpu] \in {"eject0", "eject1"}
    /\ \A t \in Pausing : t \in Threads
  BY ClientFacts DEF Pausing, Threads

\* Nobody has paused anything at first.
LEMMA ApartInit == Init => SpinInv /\ StrayIsReset /\ ApartInv
<1> SUFFICES ASSUME Init PROVE SpinInv /\ StrayIsReset /\ ApartInv
  OBVIOUS
<1>1. Pausing = {}
  BY ClientFacts DEF Init, Pausing, HoldingLabels, Threads
<1>2. SpinInv /\ StrayIsReset
  BY ClientFacts DEF Init, SpinInv, StrayIsReset, Stray, Threads
<1>3. CpuOwnsSlice /\ PauseHoldsMutex
  BY ClientFacts DEF Init, CpuOwnsSlice, PauseHoldsMutex, LockedLabels, Threads
<1> QED
  BY <1>1, <1>2, <1>3 DEF ApartInv, AtMostOne, PausingPaused

\* The spin lock is held by the one thread that waits for the mutex, in every step.
LEMMA SpinStep ==
    ASSUME TypeOK, SpinInv, Next
    PROVE  SpinInv'
<1> USE ClientFacts, ThreadsAssumption DEF TypeOK, PcTypeOK, SpinInv, Goto, locks
<1>1. CASE CpuLoop
  <2>1. CASE PauseBegin(Cpu) \/ PauseLock(Cpu)
    BY <1>1, <2>1 DEF PauseBegin, PauseLock
  <2>2. CASE DebugBreak
    BY <2>2 DEF DebugBreak, SignalDebugger
  <2>3. CASE CpuStart \/ InitLock \/ InitAudio \/ ReinitVm \/ ReinitSpeed \/ CpuSpeaker
             \/ CheckPause
    BY <2>3 DEF CpuStart, InitLock, InitAudio, ReinitVm, ReinitSpeed, CpuSpeaker, CheckPause
  <2>4. CASE BeginSlice \/ Exec \/ DebugContinue \/ DebugResume \/ Flush
    BY <2>4 DEF BeginSlice, Exec, DebugContinue, DebugResume, AfterStep, Flush
  <2>5. CASE AutoFast \/ AutoNormal \/ Tail \/ Outer \/ Destroy \/ EjectDisks
    BY <2>5 DEF AutoFast, AutoNormal, Tail, Outer, Destroy, EjectDisks
  <2> QED
    BY <1>1, <2>1, <2>2, <2>3, <2>4, <2>5 DEF CpuLoop
<1>2. ASSUME NEW c \in Clients, Choice(c)
      PROVE  SpinInv'
  BY <1>2 DEF Choice, KeyPress, MenuBegin, PrefsChanged, DiskMenu, Interrupt, SetSpeed,
     DebuggerBegin, DebuggerGo, DebuggerAgain
<1>3. ASSUME NEW c \in Clients, Progress(c) \/ Leave(c)
      PROVE  SpinInv'
  <2>1. CASE PauseBegin(c) \/ PauseLock(c) \/ Resume(c)
    BY <2>1 DEF PauseBegin, PauseLock, Resume
  <2>2. CASE SetSpeed(c) \/ SetSpeaker(c) \/ DiskDone(c) \/ DebuggerRelock(c)
    BY <2>2 DEF SetSpeed, SetSpeaker, DiskDone, DebuggerRelock
  <2>3. CASE DebuggerYield(c) \/ DebuggerStop(c) \/ DebuggerEnd(c)
    BY <2>3 DEF DebuggerYield, DebuggerStop, DebuggerEnd, SignalCpu
  <2> QED
    BY <1>3, <2>1, <2>2, <2>3 DEF Progress, Leave
<1>4. ASSUME NEW t \in Threads, SpuriousWakeup(t)
      PROVE  SpinInv'
  BY <1>4 DEF SpuriousWakeup
<1>5. CASE MainThread \/ Drain \/ Exited
  BY <1>5 DEF MainThread, StartCPU, StopCPU, Join, Drain, Exited, vars
<1> QED
  BY <1>1, <1>2, <1>3, <1>4, <1>5 DEF Next

\* A step of the CPU thread that makes full speed meet samples resets the speaker next.
LEMMA StrayCpuStep ==
    ASSUME TypeOK, StrayIsReset, CpuLoop
    PROVE  StrayIsReset'
<1> USE ClientFacts DEF TypeOK, PcTypeOK, Goto, StrayIsReset, ResetLabels, locks, requests,
        control, speed, machine, sound
<1>1. CASE CpuStart \/ InitAudio
  <2>1. ~Stray' \/ (Stray /\ pc[Cpu] = "initAudio")
    BY <1>1 DEF CpuStart, InitAudio, AudioInit, Stray, MachineTypeOK
  <2> QED
    BY <1>1, <2>1 DEF CpuStart, InitAudio
<1>2. CASE CpuSpeaker
  BY <1>2 DEF CpuSpeaker, SpeakerReset, Stray, SoundTypeOK
<1>3. CASE Flush
  <2>1. Stray' => Stray
    BY <1>3 DEF Flush, Stray
  <2> QED
    BY <1>3, <2>1 DEF Flush
<1>4. CASE Exec
  <2>1. Stray' => Stray
    <3>1. CASE is_fullspeed'
      BY <1>4, <3>1, Zenon DEF Exec, SpeakerToggled, Sampled, Stray
    <3>2. CASE ~is_fullspeed'
      BY <3>2 DEF Stray
    <3> QED
      BY <3>1, <3>2
  <2> QED
    BY <1>4, <2>1 DEF Exec
<1>5. CASE BeginSlice \/ CheckPause
  BY <1>5 DEF BeginSlice, CheckPause, Stray
<1>6. CASE ReinitSpeed \/ AutoFast \/ AutoNormal
  BY <1>6 DEF ReinitSpeed, AutoFast, AutoNormal, Stray
<1>7. CASE DebugContinue \/ DebugResume \/ DebugBreak
  BY <1>7 DEF DebugContinue, DebugResume, AfterStep, DebugBreak, SignalDebugger, Stray
<1>8. CASE Destroy \/ PauseBegin(Cpu) \/ PauseLock(Cpu) \/ EjectDisks
  BY <1>8 DEF Destroy, PauseBegin, PauseLock, EjectDisks, Stray
<1>9. CASE InitLock \/ ReinitVm \/ Tail \/ Outer
  BY <1>9 DEF InitLock, ReinitVm, Tail, Outer, Stray
<1> QED
  BY <1>1, <1>2, <1>3, <1>4, <1>5, <1>6, <1>7, <1>8, <1>9 DEF CpuLoop

\* A client that changes the speed goes on to reset the speaker, whoever else pauses.
LEMMA StrayStep ==
    ASSUME TypeOK, StrayIsReset, Next
    PROVE  StrayIsReset'
<1> USE ClientFacts DEF TypeOK, PcTypeOK, Goto, StrayIsReset, ResetLabels, locks, requests,
        control, speed, machine, sound
<1>1. ASSUME NEW c \in Clients, SetSpeaker(c)
      PROVE  StrayIsReset'
  BY <1>1 DEF SetSpeaker, SpeakerReset, Stray, SoundTypeOK
<1>2. ASSUME NEW c \in Clients, Resume(c) \/ PauseBegin(c) \/ PauseLock(c)
      PROVE  StrayIsReset'
  BY <1>2 DEF Resume, PauseBegin, PauseLock, Stray
<1>3. ASSUME NEW c \in Clients, SetSpeed(c) \/ DebuggerGo(c)
      PROVE  StrayIsReset'
  BY <1>3 DEF SetSpeed, DebuggerGo, Stray
<1>4. ASSUME NEW c \in Clients, DebuggerYield(c) \/ DebuggerStop(c) \/ DebuggerEnd(c)
      PROVE  StrayIsReset'
  BY <1>4 DEF DebuggerYield, DebuggerStop, DebuggerEnd, SignalCpu, Stray
<1>5. ASSUME NEW c \in Clients, KeyPress(c) \/ MenuBegin(c) \/ PrefsChanged(c) \/ Interrupt(c)
      PROVE  StrayIsReset'
  BY <1>5 DEF KeyPress, MenuBegin, PrefsChanged, Interrupt, Stray
<1>6. ASSUME NEW c \in Clients,
             DiskMenu(c) \/ DiskDone(c) \/ DebuggerBegin(c) \/ DebuggerAgain(c) \/ DebuggerRelock(c)
      PROVE  StrayIsReset'
  BY <1>6 DEF DiskMenu, DiskDone, DebuggerBegin, DebuggerAgain, DebuggerRelock, Stray
<1>7. ASSUME NEW t \in Threads, SpuriousWakeup(t)
      PROVE  StrayIsReset'
  BY <1>7 DEF SpuriousWakeup, Stray
<1>8. CASE MainThread \/ Drain \/ Exited
  BY <1>8 DEF MainThread, StartCPU, StopCPU, Join, Drain, Exited, vars, Stray
<1> QED
  BY <1>1, <1>2, <1>3, <1>4, <1>5, <1>6, <1>7, <1>8, StrayCpuStep
     DEF Next, Choice, Progress, Leave

\* The CPU thread takes the mutex when it is free, and pauses only what nobody has paused.
LEMMA ApartCpuStep ==
    ASSUME TypeOK, SpinInv, ApartInv, CpuLoop
    PROVE  ApartInv'
<1> USE ClientFacts, PausingFacts
    DEF TypeOK, PcTypeOK, ApartInv, locks, control, Goto, Lock, Unlock, AtMostOne, PausingPaused,
        CpuOwnsSlice, PauseHoldsMutex, NobodySteps, LockedLabels, HoldingLabels
<1>0. CASE joined'
  BY <1>0
<1>1. CASE InitLock \/ BeginSlice
  <2>1. Pausing' = Pausing
    BY <1>1 DEF InitLock, BeginSlice, Pausing
  <2> QED
    BY <1>1, <2>1 DEF InitLock, BeginSlice
<1>2. CASE InitAudio \/ Flush
  <2>1. Pausing' = Pausing
    BY <1>2 DEF InitAudio, Flush, Pausing
  <2> QED
    BY <1>2, <2>1 DEF InitAudio, Flush
<1>3. CASE DebugContinue \/ DebugResume
  <2>1. Pausing' = Pausing
    BY <1>3 DEF DebugContinue, DebugResume, AfterStep, Pausing
  <2> QED
    BY <1>3, <2>1 DEF DebugContinue, DebugResume, AfterStep
<1>4. CASE DebugBreak
  <2>1. Pausing' = Pausing
    BY <1>4 DEF DebugBreak, SignalDebugger, Pausing, Threads
  <2> QED
    BY <1>4, <2>1 DEF DebugBreak, SignalDebugger
<1>5. CASE PauseBegin(Cpu)
  <2>1. CASE is_paused
    BY <1>5, <2>1, Zenon DEF PauseBegin
  <2>2. CASE ~is_paused
    <3>1. Pausing' = Pausing
      BY <1>5, <2>2 DEF PauseBegin, Pausing
    <3> QED
      BY <1>5, <2>2, <3>1 DEF PauseBegin
  <2> QED
    BY <2>1, <2>2
<1>6. CASE PauseLock(Cpu)
  <2>1. Pausing \subseteq Pausing' /\ Pausing' \subseteq Pausing \cup {Cpu}
    BY <1>6 DEF PauseLock, Pausing
  <2>2. ~is_paused
    BY <1>6 DEF PauseLock, SpinInv
  <2> QED
    BY <1>6, <2>1, <2>2 DEF PauseLock
<1>7. CASE EjectDisks
  <2>1. Pausing' \subseteq Pausing
    BY <1>7 DEF EjectDisks, Pausing
  <2> QED
    BY <1>7, <2>1 DEF EjectDisks
<1>8. CASE CpuStart \/ ReinitVm \/ ReinitSpeed \/ CpuSpeaker \/ CheckPause \/ Exec
           \/ AutoFast \/ AutoNormal \/ Tail \/ Outer \/ Destroy
  <2>1. Pausing' = Pausing
    BY <1>8 DEF CpuStart, ReinitVm, ReinitSpeed, CpuSpeaker, CheckPause, Exec, AutoFast, AutoNormal,
       Tail, Outer, Destroy, Pausing
  <2> QED
    BY <1>8, <2>1 DEF CpuStart, ReinitVm, ReinitSpeed, CpuSpeaker, CheckPause, Exec, AutoFast,
       AutoNormal, Tail, Outer, Destroy
<1> QED
  BY <1>1, <1>2, <1>3, <1>4, <1>5, <1>6, <1>7, <1>8 DEF CpuLoop

\* A client pauses what nobody has paused and resumes what it has paused itself; only after a
\* joined pause is there a resume that ends the pause of others.
LEMMA ApartClientStep ==
    ASSUME TypeOK, SpinInv, ApartInv, NEW c \in Clients, Choice(c) \/ Progress(c) \/ Leave(c)
    PROVE  ApartInv'
<1> USE ClientFacts, PausingFacts
    DEF TypeOK, PcTypeOK, ApartInv, locks, control, Goto, Lock, Unlock, AtMostOne, PausingPaused,
        CpuOwnsSlice, PauseHoldsMutex, NobodySteps, LockedLabels, HoldingLabels
<1>1. CASE PauseBegin(c)
  <2>1. CASE is_paused
    BY <1>1, <2>1, Zenon DEF PauseBegin
  <2>2. CASE ~is_paused
    <3>1. Pausing' = Pausing
      BY <1>1, <2>2 DEF PauseBegin, Pausing
    <3> QED
      BY <1>1, <2>2, <3>1 DEF PauseBegin
  <2> QED
    BY <2>1, <2>2
<1>2. CASE PauseLock(c)
  <2>1. Pausing' \subseteq Pausing \cup {c}
    BY <1>2 DEF PauseLock, Pausing
  <2>2. ~is_paused
    BY <1>2 DEF PauseLock, SpinInv
  <2> QED
    BY <1>2, <2>1, <2>2 DEF PauseLock
<1>3. CASE Resume(c)
  <2>1. Pausing' = Pausing \ {c} /\ c \in Pausing /\ pc'[Cpu] = pc[Cpu] /\ ~is_paused'
    BY <1>3 DEF Resume, Pausing, LockTypeOK
  <2>2. ASSUME ~joined', joined
        PROVE  Pausing \ {c} = {} /\ CpuOwnsSlice'
    BY <1>3, <2>2, Zenon DEF Resume
  <2>3. ASSUME ~joined
        PROVE  Pausing \ {c} = {} /\ CpuOwnsSlice'
    <3>1. is_paused /\ NobodySteps
      BY <1>3, <2>1, <2>3 DEF Resume
    <3>2. pc[Cpu] \notin LockedLabels
      BY <2>3, <3>1
    <3> QED
      BY <2>1, <2>3, <3>2
  <2>4. joined' \/ (Pausing' = {} /\ CpuOwnsSlice')
    BY <2>1, <2>2, <2>3
  <2> QED
    BY <2>1, <2>4
<1>4. CASE DebuggerYield(c)
  <2>1. Pausing' = Pausing /\ c \in Pausing /\ pc'[c] = "dbgWait"
        /\ (pc'[Cpu] = pc[Cpu] \/ pc'[Cpu] = "dbgRelock")
    BY <1>4 DEF DebuggerYield, SignalCpu, Pausing
  <2>2. joined \/ NobodySteps
    BY <1>4, <2>1 DEF DebuggerYield
  <2> QED
    BY <1>4, <2>1, <2>2 DEF DebuggerYield
<1>5. CASE DebuggerRelock(c)
  <2>1. Pausing' = Pausing /\ c \in Pausing
    BY <1>5 DEF DebuggerRelock, Pausing
  <2> QED
    BY <1>5, <2>1 DEF DebuggerRelock
<1>6. CASE DebuggerStop(c) \/ DebuggerEnd(c)
  <2>1. Pausing' = Pausing
    BY <1>6 DEF DebuggerStop, DebuggerEnd, SignalCpu, Pausing
  <2> QED
    BY <1>6, <2>1 DEF DebuggerStop, DebuggerEnd, SignalCpu
<1>7. CASE KeyPress(c) \/ MenuBegin(c) \/ PrefsChanged(c) \/ Interrupt(c)
  <2>1. Pausing' = Pausing
    BY <1>7 DEF KeyPress, MenuBegin, PrefsChanged, Interrupt, Pausing
  <2> QED
    BY <1>7, <2>1 DEF KeyPress, MenuBegin, PrefsChanged, Interrupt
<1>8. CASE SetSpeed(c) \/ SetSpeaker(c) \/ DiskMenu(c) \/ DiskDone(c)
  <2>1. Pausing' = Pausing
    BY <1>8 DEF SetSpeed, SetSpeaker, DiskMenu, DiskDone, Pausing
  <2> QED
    BY <1>8, <2>1 DEF SetSpeed, SetSpeaker, DiskMenu, DiskDone
<1>9. CASE DebuggerBegin(c) \/ DebuggerGo(c) \/ DebuggerAgain(c)
  <2>1. Pausing' = Pausing
    BY <1>9 DEF DebuggerBegin, DebuggerGo, DebuggerAgain, Pausing
  <2> QED
    BY <1>9, <2>1 DEF DebuggerBegin, DebuggerGo, DebuggerAgain
<1> QED
  BY <1>1, <1>2, <1>3, <1>4, <1>5, <1>6, <1>7, <1>8, <1>9 DEF Choice, Progress, Leave

\* Every step keeps pauses apart, or joins two.
LEMMA ApartStep ==
    ASSUME TypeOK, SpinInv, ApartInv, Next
    PROVE  ApartInv'
<1> USE ClientFacts, PausingFacts
    DEF TypeOK, PcTypeOK, ApartInv, locks, control, Goto, AtMostOne, PausingPaused,
        CpuOwnsSlice, PauseHoldsMutex, NobodySteps, LockedLabels, HoldingLabels
<1>1. ASSUME NEW t \in Threads, SpuriousWakeup(t)
      PROVE  ApartInv'
  <2>1. Pausing' = Pausing
    BY <1>1 DEF SpuriousWakeup, Pausing
  <2> QED
    BY <1>1, <2>1 DEF SpuriousWakeup
<1>2. CASE StartCPU
  <2>1. Pausing' = Pausing
    BY <1>2 DEF StartCPU, Pausing
  <2> QED
    BY <1>2, <2>1 DEF StartCPU
<1>3. CASE StopCPU \/ Join
  <2>1. Pausing' = Pausing
    BY <1>3 DEF StopCPU, Join, Pausing
  <2> QED
    BY <1>3, <2>1 DEF StopCPU, Join
<1>4. CASE Drain \/ Exited
  <2>1. Pausing' = Pausing
    BY <1>4 DEF Drain, Exited, vars, Pausing
  <2> QED
    BY <1>4, <2>1 DEF Drain, Exited, vars
<1> QED
  BY <1>1, <1>2, <1>3, <1>4, ApartCpuStep, ApartClientStep DEF Next, MainThread

\* The three invariants hold in every reachable state, whatever the clients do.
LEMMA ApartAlways == Spec => [](TypeOK /\ SpinInv /\ StrayIsReset /\ ApartInv)
<1>1. TypeOK /\ SpinInv /\ StrayIsReset /\ ApartInv /\ [Next]_vars
      => (TypeOK /\ SpinInv /\ StrayIsReset /\ ApartInv)'
  <2>1. TypeOK /\ UNCHANGED vars => TypeOK'
    BY TypeStutter
  <2>2. SpinInv /\ UNCHANGED vars => SpinInv'
    BY DEF vars, locks, SpinInv
  <2>3. StrayIsReset /\ UNCHANGED vars => StrayIsReset'
    BY DEF vars, sound, StrayIsReset, Stray
  <2>4. ApartInv /\ UNCHANGED vars => ApartInv'
    BY DEF vars, locks, control, ApartInv, AtMostOne, PausingPaused, CpuOwnsSlice,
       PauseHoldsMutex, NobodySteps, Pausing
  <2>5. TypeOK /\ Next => TypeOK'
    BY PcTypeStep, LockTypeStep, FlagTypeStep, MachineTypeStep, SoundTypeStep DEF TypeOK
  <2> QED
    BY <2>1, <2>2, <2>3, <2>4, <2>5, SpinStep, StrayStep, ApartStep
<1> QED
  BY TypeInit, ApartInit, <1>1, PTL DEF Spec

\* Unless a pause has joined another, the pause works for any number of clients that also step:
\* the CPU thread is outside its slice, but for the steps that the one pausing client asks for.
THEOREM UnsharedPauseStops == Spec => [](joined \/ CpuStoppedWhilePaused)
<1>1. ApartInv => joined \/ CpuStoppedWhilePaused
  BY DEF ApartInv, CpuStoppedWhilePaused, CpuOwnsSlice, PauseHoldsMutex, NobodySteps, LockedLabels
<1> QED
  BY ApartAlways, <1>1, PTL

\* "should be all quiet samples" (speaker.c:495): whatever the threads change, slow down or speed
\* up, speaker_flush() at full speed finds no sample, but while a pause has joined another.
THEOREM FlushIsQuiet == Spec => []FlushAssertion
<1>1. TypeOK /\ StrayIsReset /\ ApartInv => FlushAssertion
  <2> SUFFICES ASSUME TypeOK, StrayIsReset, ApartInv, pc[Cpu] = "flush", Stray, ~joined
               PROVE  FALSE
    BY DEF FlushAssertion, Stray
  <2>1. PICK c \in Clients : pc[c] \in ResetLabels
    BY DEF StrayIsReset
  <2>2. c \in Pausing /\ pc[c] \in HoldingLabels
    BY <2>1, PausingFacts DEF ResetLabels, HoldingLabels
  <2>3. is_paused
    BY <2>2 DEF ApartInv, PausingPaused
  <2>4. NobodySteps
    <3> SUFFICES ASSUME NEW d \in Clients, pc[d] \in {"dbgWait", "dbgRelock"}
                 PROVE  FALSE
      BY DEF NobodySteps
    <3>1. d \in Pausing
      BY PausingFacts DEF HoldingLabels
    <3> QED
      BY <2>1, <2>2, <3>1 DEF ApartInv, AtMostOne, ResetLabels
  <2> QED
    BY <2>3, <2>4 DEF ApartInv, CpuOwnsSlice, PauseHoldsMutex, LockedLabels
<1> QED
  BY ApartAlways, <1>1, PTL

\* disk6_eject() (disk.c:778): neither the menus nor the end of the CPU thread eject a disk
\* while the CPU is not paused, but while a pause has joined another.
THEOREM EjectionIsPaused == Spec => []EjectAssertion
<1>1. TypeOK /\ ApartInv => EjectAssertion
  BY PausingFacts DEF ApartInv, PausingPaused, EjectAssertion, HoldingLabels, Threads, TypeOK,
     PcTypeOK, ClientLabels
<1> QED
  BY ApartAlways, <1>1, PTL

=============================================================================
