------------------------------ MODULE CpuThread ------------------------------
(***************************************************************************)
(* The CPU thread of the emulator and the threads that pause it            *)
(* (src/src/timing.c, with the callers in keys.c, interface.c, misc.c and  *)
(* the stepping debugger of meta/debugger.c).                              *)
(*                                                                         *)
(* The CPU thread runs the 6502 in slices.  Every slice is executed with   *)
(* interface_mutex held; cpu_pause() stops the CPU by taking that mutex    *)
(* and keeping it until cpu_resume().  Audio is owned by the CPU thread,   *)
(* so a pausing thread only leaves requests (emul_pause_audio and friends) *)
(* that the CPU thread serves at fixed points of its loop.                 *)
(*                                                                         *)
(* KeyThreads handle single keys (F9/F3/F4) and one of them, Main, starts  *)
(* and stops the emulator; MenuThreads run whole menus between a pause and *)
(* a resume.  A thread in both sets is a front end with a single UI thread.*)
(***************************************************************************)
EXTENDS Integers, FiniteSets

CONSTANTS Cpu, Main, KeyThreads, MenuThreads, NoThread,
          Ops,          \* what the user and the preferences do in this instance
          BacklogMax,   \* bound on the queued audio, in submissions
          WedgedMax     \* SOUNDCORE_ERROR_MAX<<1, the limit of the watchdog

Clients == KeyThreads \cup MenuThreads
Threads == Clients \cup {Cpu}

ASSUME ThreadsAssumption ==
    /\ Main \in KeyThreads /\ Cpu \notin Clients /\ NoThread \notin Threads
ASSUME BoundsAssumption ==
    /\ Ops \subseteq {"speed", "audio", "disk", "debug", "reset", "autospeed"}
    /\ BacklogMax \in Nat \ {0, 1} /\ WedgedMax \in Nat \ {0}

VARIABLES
    pc,                     \* where each thread is
    op,                     \* the section a client is in: "boot", "key", "menu", "none"
    interface_mutex,        \* the thread that locked it last, or NoThread
    pause_spinLock,         \* the holder of _pause_spinLock, or NoThread
    is_paused,
    emul_reinitialize_audio, emul_pause_audio, emul_resume_audio,
    emul_video_dirty,
    cpu_shutting_down,
    emul_reinitialize,      \* run_args.emul_reinitialize
    reset_signal,           \* ResetSig in run_args.cpu65__signal
    scale_fast,             \* the configured speed is above CPU_SCALE_FASTEST_PIVOT
    saved_scale,            \* begin_cpu_stepping()'s copy of it
    is_fullspeed,
    is_debugging,
    vm,                     \* "fresh" after vm_initialize(), "run" once the 6502 ran
    audio,                  \* the backend: "off", "playing" or "paused"
    samples_pending,        \* samples_buffer_idx > 0
    backlog,                \* sound data queued at the backend
    starved,                \* cycles_speaker_feedback cancels the slice's cycles
    speaker_wedged_count,
    joined                  \* history: a pause joined another, and they have not all ended

locks    == <<interface_mutex, pause_spinLock, is_paused>>
requests == <<emul_reinitialize_audio, emul_pause_audio, emul_resume_audio, emul_video_dirty>>
control  == <<cpu_shutting_down, is_debugging, joined>>
speed    == <<scale_fast, saved_scale>>
machine  == <<emul_reinitialize, reset_signal, vm>>
sound    == <<audio, samples_pending, backlog, starved, speaker_wedged_count>>

vars == <<pc, op, locks, requests, control, speed, is_fullspeed, machine, sound>>

\* Where the CPU thread can be (cpu_thread()).
CpuLabels == {"off", "start", "initLock", "initAudio", "reinit", "reinitSpeed",
              "reinitSpeaker", "checkPause", "sliceLock", "exec", "dbgCheck",
              "dbgWait", "dbgRelock", "flush", "autoFast", "autoFastSpeaker",
              "autoNormal", "autoNormalSpeaker", "tail", "outer", "destroy",
              "pause", "pauseLock", "eject0", "eject1", "done"}

\* Where a thread that pauses and resumes the CPU can be.
ClientLabels == {"idle", "pause", "pauseLock", "work", "speaker", "eject0", "resume",
                 "debugger", "dbgSpeaker", "dbgSignal", "dbgWait", "dbgRelock",
                 "dbgStepped", "dbgDone", "join", "stopped"}

\* The CPU thread is between LOCK and UNLOCK of interface_mutex.
LockedLabels == {"initAudio", "exec", "dbgCheck", "flush"}

\* cpu_pause() has returned to this client.
HoldingLabels == {"work", "speaker", "eject0", "resume", "debugger", "dbgSpeaker",
                  "dbgSignal", "dbgWait", "dbgRelock", "dbgStepped", "dbgDone"}

\* The threads that rely on the CPU being paused.
Pausing == {c \in Clients : pc[c] \in HoldingLabels}
           \cup {t \in {Cpu} : pc[t] \in {"eject0", "eject1"}}

CpuOwnsSlice == pc[Cpu] \in LockedLabels => interface_mutex = Cpu

PcTypeOK ==
    /\ pc \in [Threads -> CpuLabels \cup ClientLabels]
    /\ pc[Cpu] \in CpuLabels
    /\ \A c \in Clients : pc[c] \in ClientLabels
    /\ op \in [Clients -> {"none", "boot", "key", "menu"}]

LockTypeOK ==
    /\ interface_mutex \in Threads \cup {NoThread}
    /\ pause_spinLock \in Threads \cup {NoThread}
    /\ is_paused \in BOOLEAN

FlagTypeOK ==
    /\ emul_reinitialize_audio \in BOOLEAN
    /\ emul_pause_audio \in BOOLEAN
    /\ emul_resume_audio \in BOOLEAN
    /\ emul_video_dirty \in BOOLEAN
    /\ cpu_shutting_down \in BOOLEAN
    /\ is_debugging \in BOOLEAN
    /\ joined \in BOOLEAN

MachineTypeOK ==
    /\ scale_fast \in BOOLEAN
    /\ saved_scale \in BOOLEAN
    /\ is_fullspeed \in BOOLEAN
    /\ emul_reinitialize \in BOOLEAN
    /\ reset_signal \in BOOLEAN
    /\ vm \in {"fresh", "run"}

SoundTypeOK ==
    /\ audio \in {"off", "playing", "paused"}
    /\ samples_pending \in BOOLEAN
    /\ backlog \in 0 .. BacklogMax
    /\ starved \in BOOLEAN
    /\ speaker_wedged_count \in 0 .. (WedgedMax - 1)

TypeOK == PcTypeOK /\ LockTypeOK /\ FlagTypeOK /\ MachineTypeOK /\ SoundTypeOK

Init ==
    /\ pc = [t \in Threads |-> IF t = Cpu THEN "off" ELSE IF t = Main THEN "pause" ELSE "idle"]
    /\ op = [c \in Clients |-> IF c = Main THEN "boot" ELSE "none"]
    /\ interface_mutex = NoThread /\ pause_spinLock = NoThread /\ is_paused = FALSE
    /\ emul_reinitialize_audio = FALSE /\ emul_pause_audio = FALSE
    /\ emul_resume_audio = FALSE /\ emul_video_dirty = FALSE
    /\ cpu_shutting_down = FALSE /\ is_debugging = FALSE /\ joined = FALSE
    /\ scale_fast \in BOOLEAN /\ saved_scale = FALSE /\ is_fullspeed = FALSE
    /\ emul_reinitialize = FALSE /\ reset_signal = FALSE /\ vm = "fresh"
    /\ audio = "off" /\ samples_pending = FALSE /\ backlog = 0
    /\ starved = FALSE /\ speaker_wedged_count = 0

Goto(t, label) == pc' = [pc EXCEPT ![t] = label]

\* pthread_mutex_lock() and pthread_mutex_unlock() of interface_mutex (mutation: the
\* result of the lock goes unchecked).
LockUnchecked(t) == interface_mutex' = t
Lock(t)          == interface_mutex = NoThread /\ interface_mutex' = t
Unlock           == interface_mutex' = NoThread

-----------------------------------------------------------------------------
(* cpu_pause() and cpu_resume(), by any thread                             *)

\* Taking _pause_spinLock, the test of is_paused and the audio request.  Pauses are not
\* counted: one that finds the CPU paused joins the pause of another thread.
PauseBegin(t) ==
    /\ pc[t] = "pause" /\ pause_spinLock = NoThread
    /\ joined' = (joined \/ is_paused)
    /\ IF is_paused
       THEN /\ Goto(t, IF t = Cpu THEN "eject0" ELSE "work")
            /\ UNCHANGED <<pause_spinLock, emul_pause_audio>>
       ELSE /\ pause_spinLock' = t
            /\ emul_pause_audio' = (emul_pause_audio \/ ~emul_reinitialize_audio)
            /\ Goto(t, "pauseLock")
    /\ UNCHANGED <<op, interface_mutex, is_paused, emul_reinitialize_audio, emul_resume_audio,
                   emul_video_dirty, cpu_shutting_down, is_debugging, speed, is_fullspeed,
                   machine, sound>>

\* Mutation: a pthread_mutex_trylock() that starts again when the mutex is taken.
PauseTry(t) ==
    /\ pc[t] = "pauseLock" /\ pause_spinLock' = NoThread
    /\ IF interface_mutex = NoThread
       THEN /\ interface_mutex' = t /\ is_paused' = TRUE
            /\ Goto(t, IF t = Cpu THEN "eject0" ELSE "work")
       ELSE Goto(t, "pause") /\ UNCHANGED <<interface_mutex, is_paused>>
    /\ UNCHANGED <<op, requests, control, speed, is_fullspeed, machine, sound>>

\* pthread_mutex_lock() returns; the spin lock was held while blocking.
PauseLock(t) ==
    /\ pc[t] = "pauseLock" /\ Lock(t)
    /\ is_paused' = TRUE /\ pause_spinLock' = NoThread
    /\ Goto(t, IF t = Cpu THEN "eject0" ELSE "work")
    /\ UNCHANGED <<op, requests, control, speed, is_fullspeed, machine, sound>>

\* cpu_resume(): whoever paused, the mutex is unlocked.  A joined pause is over for the
\* history when nobody relies on it any more and no slice goes on without the mutex.
Resume(c) ==
    /\ pc[c] = "resume" \/ (pc[c] = "work" /\ op[c] = "menu")
    /\ pause_spinLock = NoThread
    /\ IF is_paused
       THEN /\ emul_resume_audio' = (emul_resume_audio \/ ~emul_reinitialize_audio)
            /\ emul_video_dirty' = (emul_video_dirty \/ ~emul_reinitialize_audio)
            /\ is_paused' = FALSE /\ Unlock
       ELSE UNCHANGED <<emul_resume_audio, emul_video_dirty, is_paused, interface_mutex>>
    /\ Goto(c, "idle") /\ op' = [op EXCEPT ![c] = "none"]
    /\ joined' = (joined /\ (Pausing \ {c} # {} \/ ~CpuOwnsSlice'))
    /\ UNCHANGED <<pause_spinLock, emul_reinitialize_audio, emul_pause_audio,
                   cpu_shutting_down, is_debugging, speed, is_fullspeed, machine, sound>>

-----------------------------------------------------------------------------
(* The clients: starting, keys, menus, stepping and stopping               *)

\* speaker_reset() -> _speaker_init_timing(), once a speaker is available
\* (mutation: the samples of normal speed stay).
SpeakerResetNever == UNCHANGED samples_pending
SpeakerReset == samples_pending' = (samples_pending /\ ~(audio # "off" /\ is_fullspeed))

\* timing_reinitializeAudio(), under _pause_spinLock
ReinitializeAudio ==
    /\ pause_spinLock = NoThread
    /\ emul_reinitialize_audio' = TRUE /\ emul_pause_audio' = FALSE
    /\ emul_resume_audio' = FALSE /\ emul_video_dirty' = FALSE

\* emulator_start() between main()'s pause and resume: prefs_sync(), for which a latency
\* or the Mockingboard is a change, and timing_startCPU().
StartCPU ==
    /\ pc[Main] = "work" /\ op[Main] = "boot" /\ pc[Cpu] = "off"
    /\ ReinitializeAudio \/ UNCHANGED requests
    /\ pc' = [pc EXCEPT ![Main] = "resume", ![Cpu] = "start"]
    /\ cpu_shutting_down' = FALSE
    /\ UNCHANGED <<op, locks, is_debugging, joined, speed, is_fullspeed, machine, sound>>

\* c_keys_handle_input() consumes F9, F3 or F4; F3 and F4 store the scale unpaused.
KeyPress(c) ==
    /\ c \in KeyThreads /\ pc[c] = "idle" /\ ~is_paused
    /\ scale_fast' \in BOOLEAN
    /\ Goto(c, "pause") /\ op' = [op EXCEPT ![c] = "key"]
    /\ UNCHANGED <<locks, requests, control, saved_scale, is_fullspeed, machine, sound>>

\* A consumed key makes c_interface_begin() start interface_thread(), which pauses the CPU
\* later; classic_interface_lock admits one.
MenuBegin(c) ==
    /\ c \in MenuThreads /\ pc[c] = "idle" /\ ~cpu_shutting_down
    /\ ~is_paused /\ \E k \in KeyThreads : pc[k] = "idle"
    /\ \A d \in Clients : op[d] # "menu"
    /\ Goto(c, "pause") /\ op' = [op EXCEPT ![c] = "menu"]
    /\ UNCHANGED <<locks, requests, control, speed, is_fullspeed, machine, sound>>

\* timing_toggleCPUSpeed() or timing_initialize(): is_fullspeed is written ...
SetSpeed(c) ==
    /\ pc[c] = "work" /\ (op[c] = "key" \/ (op[c] = "menu" /\ "speed" \in Ops))
    /\ scale_fast' \in BOOLEAN
    /\ is_fullspeed' = scale_fast'
    /\ Goto(c, "speaker")
    /\ UNCHANGED <<op, locks, requests, control, saved_scale, machine, sound>>

\* ... and speaker_reset() reads it again.
SetSpeaker(c) ==
    /\ pc[c] \in {"speaker", "dbgSpeaker", "dbgDone"}
    /\ SpeakerReset
    /\ Goto(c, CASE pc[c] = "speaker" -> IF op[c] = "key" THEN "resume" ELSE "work"
                 [] pc[c] = "dbgSpeaker" -> "dbgSignal"
                 [] pc[c] = "dbgDone" -> "debugger")
    /\ UNCHANGED <<op, locks, requests, control, speed, is_fullspeed, machine,
                   audio, backlog, starved, speaker_wedged_count>>

\* prefs_sync() -> timing_prefsChanged(), with timing_reinitializeAudio() when the
\* latency or the Mockingboard setting changed.
PrefsChanged(c) ==
    /\ pc[c] = "work" /\ op[c] = "menu" /\ "audio" \in Ops
    /\ scale_fast' \in BOOLEAN /\ ReinitializeAudio
    /\ UNCHANGED <<pc, op, locks, control, saved_scale, is_fullspeed, machine, sound>>

\* The disk menu reaches disk6_eject() or disk6_insert(), which assert cpu_isPaused().
DiskMenu(c) ==
    /\ pc[c] = "work" /\ op[c] = "menu" /\ "disk" \in Ops
    /\ Goto(c, "eject0")
    /\ UNCHANGED <<op, locks, requests, control, speed, is_fullspeed, machine, sound>>

DiskDone(c) ==
    /\ pc[c] = "eject0"
    /\ Goto(c, "work")
    /\ UNCHANGED <<op, locks, requests, control, speed, is_fullspeed, machine, sound>>

\* Ctrl-End, or cpu65_reboot() in a menu -> cpu65_interrupt(ResetSig), paused or not.
Interrupt(c) ==
    /\ \/ c \in KeyThreads /\ pc[c] = "idle" /\ ~is_paused
       \/ pc[c] = "work" /\ op[c] = "menu"
    /\ "reset" \in Ops
    /\ reset_signal' = TRUE
    /\ UNCHANGED <<pc, op, locks, requests, control, speed, is_fullspeed,
                   emul_reinitialize, vm, sound>>

\* emulator_shutdown() -> timing_stopCPU(): the flag, then pthread_join().
StopCPU ==
    /\ pc[Main] = "idle" /\ ~cpu_shutting_down
    /\ cpu_shutting_down' = TRUE
    /\ Goto(Main, "join")
    /\ UNCHANGED <<op, locks, requests, is_debugging, joined, speed, is_fullspeed, machine, sound>>

Join ==
    /\ pc[Main] = "join" /\ pc[Cpu] = "done"
    /\ Goto(Main, "stopped")
    /\ UNCHANGED <<op, locks, requests, control, speed, is_fullspeed, machine, sound>>

-----------------------------------------------------------------------------
(* The debugger menu and begin_cpu_stepping()                              *)

\* pthread_cond_signal(&cpu_thread_cond), with the client's own move to label.
SignalCpu(c, label) ==
    pc' = [pc EXCEPT ![c] = label, ![Cpu] = IF @ = "dbgWait" THEN "dbgRelock" ELSE @]

DebuggerBegin(c) ==
    /\ pc[c] = "work" /\ op[c] = "menu" /\ "debug" \in Ops
    /\ is_debugging' = TRUE
    /\ Goto(c, "debugger")
    /\ UNCHANGED <<op, locks, requests, cpu_shutting_down, joined, speed, is_fullspeed, machine,
                   sound>>

\* _debugger_go(): full speed for the time of the stepping.
DebuggerGo(c) ==
    /\ pc[c] = "debugger"
    /\ saved_scale' = scale_fast /\ scale_fast' = TRUE /\ is_fullspeed' = TRUE
    /\ Goto(c, "dbgSpeaker")
    /\ UNCHANGED <<op, locks, requests, control, machine, sound>>

\* Signal the CPU thread and wait on dbg_thread_cond, which unlocks interface_mutex.
DebuggerYield(c) ==
    /\ pc[c] = "dbgSignal"
    /\ SignalCpu(c, "dbgWait") /\ Unlock
    /\ UNCHANGED <<op, pause_spinLock, is_paused, requests, control, speed, is_fullspeed,
                   machine, sound>>

\* POSIX allows a wait to return without a signal; neither waiter retests anything.
SpuriousWakeup(t) ==
    /\ pc[t] = "dbgWait"
    /\ Goto(t, "dbgRelock")
    /\ UNCHANGED <<op, locks, requests, control, speed, is_fullspeed, machine, sound>>

DebuggerRelock(c) ==
    /\ pc[c] = "dbgRelock" /\ Lock(c)
    /\ Goto(c, "dbgStepped")
    /\ UNCHANGED <<op, pause_spinLock, is_paused, requests, control, speed, is_fullspeed,
                   machine, sound>>

\* while (!should_break): once more ...
DebuggerAgain(c) ==
    /\ pc[c] = "dbgStepped"
    /\ Goto(c, "dbgSignal")
    /\ UNCHANGED <<op, locks, requests, control, speed, is_fullspeed, machine, sound>>

\* ... or a key, the end of the text, the timeout or should_break ends the loop.
DebuggerStop(c) ==
    /\ pc[c] = "dbgStepped"
    /\ SignalCpu(c, "dbgDone")
    /\ scale_fast' = saved_scale /\ is_fullspeed' = saved_scale
    /\ UNCHANGED <<op, locks, requests, control, saved_scale, machine, sound>>

DebuggerEnd(c) ==
    /\ pc[c] = "debugger"
    /\ is_debugging' = FALSE
    /\ SignalCpu(c, "work")
    /\ UNCHANGED <<op, locks, requests, cpu_shutting_down, joined, speed, is_fullspeed, machine,
                   sound>>

-----------------------------------------------------------------------------
(* cpu_thread()                                                            *)

\* audio_init(), speaker_init() and the Mockingboard: the backend may refuse.
AudioInit ==
    \/ /\ audio' = "off" /\ backlog' = 0
       /\ UNCHANGED samples_pending
    \/ /\ audio' = "playing" /\ backlog' = 0
       /\ samples_pending' = ~is_fullspeed

CpuStart ==
    /\ pc[Cpu] = "start"
    /\ AudioInit
    /\ emul_reinitialize' = TRUE
    /\ Goto(Cpu, "initLock")
    /\ UNCHANGED <<op, locks, requests, control, speed, is_fullspeed, reset_signal, vm,
                   starved, speaker_wedged_count>>

InitLock ==
    /\ pc[Cpu] = "initLock" /\ Lock(Cpu)
    /\ Goto(Cpu, "initAudio")
    /\ UNCHANGED <<op, pause_spinLock, is_paused, requests, control, speed, is_fullspeed,
                   machine, sound>>

InitAudio ==
    /\ pc[Cpu] = "initAudio"
    /\ IF emul_reinitialize_audio
       THEN AudioInit
       ELSE UNCHANGED <<audio, backlog, samples_pending>>
    /\ emul_reinitialize_audio' = FALSE /\ Unlock
    /\ Goto(Cpu, IF emul_reinitialize THEN "reinit" ELSE "checkPause")
    /\ UNCHANGED <<op, pause_spinLock, is_paused, emul_pause_audio, emul_resume_audio,
                   emul_video_dirty, control, speed, is_fullspeed, machine, starved,
                   speaker_wedged_count>>

\* reinitialize(): vm_initialize(), cpu65_init(), then timing_initialize(), all unlocked.
ReinitVm ==
    /\ pc[Cpu] = "reinit"
    /\ vm' = "fresh"
    /\ Goto(Cpu, "reinitSpeed")
    /\ UNCHANGED <<op, locks, requests, control, speed, is_fullspeed, emul_reinitialize,
                   reset_signal, sound>>

ReinitSpeed ==
    /\ pc[Cpu] = "reinitSpeed"
    /\ is_fullspeed' = scale_fast
    /\ Goto(Cpu, "reinitSpeaker")
    /\ UNCHANGED <<op, locks, requests, control, speed, machine, sound>>

\* speaker_reset() at the end of the CPU thread's own _timing_initialize() calls.
CpuSpeaker ==
    /\ pc[Cpu] \in {"reinitSpeaker", "autoFastSpeaker", "autoNormalSpeaker"}
    /\ SpeakerReset
    /\ Goto(Cpu, CASE pc[Cpu] = "reinitSpeaker" -> "checkPause"
                   [] pc[Cpu] = "autoFastSpeaker" -> "autoNormal"
                   [] pc[Cpu] = "autoNormalSpeaker" -> "tail")
    /\ UNCHANGED <<op, locks, requests, control, speed, is_fullspeed, machine,
                   audio, backlog, starved, speaker_wedged_count>>

\* if (emul_pause_audio) ..., read and cleared before the mutex is taken.
CheckPause ==
    /\ pc[Cpu] = "checkPause"
    /\ emul_pause_audio' = FALSE
    /\ audio' = IF emul_pause_audio /\ audio = "playing" THEN "paused" ELSE audio
    /\ Goto(Cpu, "sliceLock")
    /\ UNCHANGED <<op, locks, emul_reinitialize_audio, emul_resume_audio, emul_video_dirty,
                   control, speed, is_fullspeed, machine, samples_pending, backlog, starved,
                   speaker_wedged_count>>

\* The watchdog: a count of slices without cycles, and what it asks for at the limit
\* (mutation: nothing is asked for).
WatchdogFires(count) == count >= WedgedMax
ReinitForgotten(wedged) == emul_reinitialize_audio' = emul_reinitialize_audio
RequestReinit(wedged)   == emul_reinitialize_audio' = (emul_reinitialize_audio \/ wedged)

\* LOCK, the resume requests and the cycle budget with its watchdog.
BeginSlice ==
    /\ pc[Cpu] = "sliceLock" /\ Lock(Cpu)
    /\ emul_resume_audio' = FALSE /\ emul_video_dirty' = FALSE
    /\ audio' = IF emul_resume_audio /\ audio = "paused" THEN "playing" ELSE audio
    /\ LET noCycles == starved /\ ~is_fullspeed
           wedged   == noCycles /\ WatchdogFires(speaker_wedged_count + 1)
       IN  /\ speaker_wedged_count' =
                IF noCycles /\ ~wedged THEN speaker_wedged_count + 1 ELSE 0
           /\ RequestReinit(wedged)
    /\ Goto(Cpu, "exec")
    /\ UNCHANGED <<op, pause_spinLock, is_paused, emul_pause_audio, control, speed,
                   is_fullspeed, machine, samples_pending, backlog, starved>>

\* timing_shouldAutoAdjustSpeed()
AutoAdjusts == "autospeed" \in Ops /\ ~scale_fast

\* The samples that _speaker_update() makes of the cycles of a slice at normal speed, for
\* each speaker_toggle() and at the latest in speaker_flush(): some, of a whole slice.
Sampled ==
    IF audio = "off" \/ is_fullspeed'
    THEN UNCHANGED samples_pending
    ELSE /\ samples_pending' \in {samples_pending, TRUE}
         /\ ~starved /\ ~is_debugging => samples_pending'

\* speaker_toggle(), called by the 6502
SpeakerToggled(toggled) ==
    is_fullspeed' = (is_fullspeed /\ ~(toggled /\ AutoAdjusts)) /\ Sampled

\* cpu65_run(): enter_reinit or a plain reset consume the signal; with an apple key
\* held, exit_reinit asks for reinitialize().
Exec ==
    /\ pc[Cpu] = "exec"
    /\ \E appleKey \in BOOLEAN :
         emul_reinitialize' = (~emul_reinitialize /\ reset_signal /\ appleKey)
    /\ \E toggled \in BOOLEAN : SpeakerToggled(toggled)
    /\ reset_signal' = FALSE /\ vm' = "run"
    /\ Goto(Cpu, IF is_debugging THEN "dbgCheck" ELSE "flush")
    /\ UNCHANGED <<op, locks, requests, control, speed, audio, backlog, starved,
                   speaker_wedged_count>>

\* The tail of the debugging loop: reinitialise, go on stepping, or end the slice.
AfterStep(unlocked) ==
    IF emul_reinitialize
    THEN Goto(Cpu, "initLock") /\ Unlock
    ELSE Goto(Cpu, IF is_debugging THEN "exec" ELSE "flush") /\ interface_mutex' = unlocked

DebugContinue ==
    /\ pc[Cpu] = "dbgCheck"
    /\ AfterStep(interface_mutex)
    /\ UNCHANGED <<op, pause_spinLock, is_paused, requests, control, speed, is_fullspeed,
                   machine, sound>>

\* pthread_cond_signal(&dbg_thread_cond), then the CPU thread's own wait
\* (mutation: without the signal).
WaitUnsignalled == Goto(Cpu, "dbgWait")
SignalDebugger ==
    pc' = [t \in Threads |-> IF t = Cpu THEN "dbgWait"
                             ELSE IF pc[t] = "dbgWait" THEN "dbgRelock" ELSE pc[t]]

\* debugger_shouldBreak() or the cycles ran out: signal the debugger and wait.
DebugBreak ==
    /\ pc[Cpu] = "dbgCheck"
    /\ SignalDebugger /\ Unlock
    /\ UNCHANGED <<op, pause_spinLock, is_paused, requests, control, speed, is_fullspeed,
                   machine, sound>>

DebugResume ==
    /\ pc[Cpu] = "dbgRelock" /\ interface_mutex = NoThread
    /\ \/ Goto(Cpu, "flush") /\ interface_mutex' = Cpu
       \/ AfterStep(Cpu)
    /\ UNCHANGED <<op, pause_spinLock, is_paused, requests, control, speed, is_fullspeed,
                   machine, sound>>

\* MB_UpdateCycles(), speaker_flush(), video_scannerUpdate(), UNLOCK.  At normal speed
\* the queue length read by _submit_samples_buffer() decides the next slice's cycles; it
\* is not read when there are no samples.
Flush ==
    /\ pc[Cpu] = "flush"
    /\ \/ /\ audio = "off" \/ (~is_fullspeed /\ ~samples_pending)
          /\ UNCHANGED <<samples_pending, backlog, starved>>
       \/ /\ audio # "off" /\ is_fullspeed
          /\ backlog' = IF backlog < BacklogMax - 1 THEN BacklogMax - 1 ELSE backlog
          /\ UNCHANGED <<samples_pending, starved>>
       \/ /\ audio # "off" /\ ~is_fullspeed
          /\ starved' = (backlog = BacklogMax)
          /\ backlog' = IF backlog < BacklogMax THEN backlog + 1 ELSE backlog
          /\ samples_pending' \in BOOLEAN
          /\ backlog = BacklogMax => samples_pending'
    /\ Unlock
    /\ Goto(Cpu, "autoFast")
    /\ UNCHANGED <<op, pause_spinLock, is_paused, requests, control, speed, is_fullspeed,
                   machine, audio, speaker_wedged_count>>

\* Auto speed, after UNLOCK: a quiet disk access speeds up, sound or drawing slows down.
AutoFast ==
    /\ pc[Cpu] = "autoFast"
    /\ \/ /\ AutoAdjusts /\ ~is_fullspeed
          /\ is_fullspeed' = TRUE /\ Goto(Cpu, "autoFastSpeaker")
       \/ /\ is_fullspeed' = is_fullspeed /\ Goto(Cpu, "autoNormal")
    /\ UNCHANGED <<op, locks, requests, control, speed, machine, sound>>

AutoNormal ==
    /\ pc[Cpu] = "autoNormal"
    /\ \/ /\ AutoAdjusts /\ is_fullspeed
          /\ is_fullspeed' = FALSE /\ Goto(Cpu, "autoNormalSpeaker")
       \/ /\ is_fullspeed' = is_fullspeed /\ Goto(Cpu, "tail")
    /\ UNCHANGED <<op, locks, requests, control, speed, machine, sound>>

\* Mutation: the inner loop is left only to reinitialise.
TailUnasked ==
    /\ pc[Cpu] = "tail"
    /\ Goto(Cpu, IF emul_reinitialize \/ emul_reinitialize_audio THEN "outer" ELSE "checkPause")
    /\ UNCHANGED <<op, locks, requests, control, speed, is_fullspeed, machine, sound>>

\* The breaks out of the inner and the outer loop.
Tail ==
    /\ pc[Cpu] = "tail"
    /\ Goto(Cpu, IF emul_reinitialize \/ emul_reinitialize_audio \/ cpu_shutting_down
                 THEN "outer" ELSE "checkPause")
    /\ UNCHANGED <<op, locks, requests, control, speed, is_fullspeed, machine, sound>>

Outer ==
    /\ pc[Cpu] = "outer"
    /\ Goto(Cpu, IF cpu_shutting_down THEN "destroy" ELSE "initLock")
    /\ UNCHANGED <<op, locks, requests, control, speed, is_fullspeed, machine, sound>>

\* Mutation: the thread ejects the disks without its cpu_pause().
DestroyUnpaused ==
    /\ pc[Cpu] = "destroy"
    /\ audio' = "off" /\ backlog' = 0
    /\ Goto(Cpu, "eject0")
    /\ UNCHANGED <<op, locks, requests, control, speed, is_fullspeed, machine,
                   samples_pending, starved, speaker_wedged_count>>

\* The end of the thread: audio torn down, cpu_thread_id = 0, cpu_pause(), two ejects.
Destroy ==
    /\ pc[Cpu] = "destroy"
    /\ audio' = "off" /\ backlog' = 0
    /\ Goto(Cpu, "pause")
    /\ UNCHANGED <<op, locks, requests, control, speed, is_fullspeed, machine,
                   samples_pending, starved, speaker_wedged_count>>

EjectDisks ==
    /\ pc[Cpu] \in {"eject0", "eject1"}
    /\ Goto(Cpu, IF pc[Cpu] = "eject0" THEN "eject1" ELSE "done")
    /\ UNCHANGED <<op, locks, requests, control, speed, is_fullspeed, machine, sound>>

\* The sound card plays a unit of the queue.
Drain ==
    /\ audio = "playing" /\ backlog > 0
    /\ backlog' = backlog - 1
    /\ UNCHANGED <<pc, op, locks, requests, control, speed, is_fullspeed, machine, audio,
                   samples_pending, starved, speaker_wedged_count>>

-----------------------------------------------------------------------------
\* The CPU thread's own steps; what wakes it from dbgWait is a client's step.
CpuLoop ==
    \/ CpuStart \/ InitLock \/ InitAudio \/ ReinitVm \/ ReinitSpeed \/ CpuSpeaker
    \/ CheckPause \/ BeginSlice \/ Exec \/ DebugContinue \/ DebugBreak \/ DebugResume
    \/ Flush \/ AutoFast \/ AutoNormal \/ Tail \/ Outer \/ Destroy
    \/ PauseBegin(Cpu) \/ PauseLock(Cpu) \/ EjectDisks

\* What the user or the environment decides.
Choice(c) ==
    \/ KeyPress(c) \/ MenuBegin(c) \/ PrefsChanged(c) \/ DiskMenu(c) \/ Interrupt(c)
    \/ (op[c] = "menu" /\ SetSpeed(c)) \/ DebuggerBegin(c) \/ DebuggerGo(c)
    \/ DebuggerAgain(c)

\* What a client does by itself once it is in a section.
Progress(c) ==
    \/ PauseBegin(c) \/ PauseLock(c) \/ (op[c] = "key" /\ SetSpeed(c)) \/ SetSpeaker(c)
    \/ DiskDone(c) \/ DebuggerYield(c) \/ DebuggerRelock(c)

\* The user closes the debugger, ends the stepping and leaves the menu.
Leave(c) == Resume(c) \/ DebuggerStop(c) \/ DebuggerEnd(c)

MainThread == StartCPU \/ StopCPU \/ Join

\* main() has returned.
Exited == pc[Main] = "stopped" /\ UNCHANGED vars

Next ==
    \/ CpuLoop
    \/ \E c \in Clients : Choice(c) \/ Progress(c) \/ Leave(c)
    \/ \E t \in Threads : SpuriousWakeup(t)
    \/ MainThread
    \/ Drain
    \/ Exited

Spec == Init /\ [][Next]_vars

\* Scheduling: a thread that can run again and again gets to run, so neither the mutex
\* nor the spin lock with its usleep() starves a waiter; users leave menus; sound plays.
Fairness ==
    /\ SF_vars(CpuLoop) /\ SF_vars(DebugBreak) /\ WF_vars(StartCPU) /\ WF_vars(Join)
    /\ \A c \in Clients : SF_vars(Progress(c)) /\ SF_vars(Resume(c))
                          /\ SF_vars(DebuggerStop(c)) /\ SF_vars(DebuggerEnd(c))
    /\ WF_vars(Drain)

FairSpec == Spec /\ Fairness

-----------------------------------------------------------------------------
(* Properties                                                              *)

\* Between cpu_pause() and cpu_resume() the CPU thread is outside its locked slice,
\* unless the debugger has yielded the mutex to it to step (timing.c:166-205 against
\* the mutex and condition variables of cpu_thread()).
CpuStoppedWhilePaused ==
    is_paused /\ (\A c \in Clients : pc[c] \notin {"dbgWait", "dbgRelock"})
        => pc[Cpu] \notin LockedLabels

\* speaker_flush() asserts "should be all quiet samples" when it finds full speed
\* (speaker.c:495).  Samples are made by the slice, which may leave full speed in its
\* middle (speaker_toggle()), and full speed comes from the CPU thread's automatic change
\* and from any thread under a pause, each with a speaker_reset() of its own: in no
\* interleaving do the two meet, but while a pause has joined another.
FlushAssertion ==
    pc[Cpu] = "flush" /\ audio # "off" /\ is_fullspeed => ~samples_pending \/ joined

\* disk6_eject() asserts "CPU must be paused for disk ejection" (disk.c:778): whatever
\* threads pause and resume, and whenever main() stops the CPU thread, which ejects too,
\* the pause of an ejection is ended by another thread only while the two were joined.
EjectAssertion ==
    \A t \in Threads : pc[t] \in {"eject0", "eject1"} => is_paused \/ joined

\* The assertion of disk6_eject() as it stands.
EjectAssertionAlways == \A t \in Threads : pc[t] \in {"eject0", "eject1"} => is_paused

\* "CPU thread is blocked upon function return, until call to cpu_resume()"
\* (timing.h:117): while a menu works under its pause, the CPU thread changes neither
\* the machine nor its speed.
CpuBlockedOnReturn ==
    [][is_paused /\ pc'[Cpu] # pc[Cpu] /\ (\E c \in Clients : pc[c] = "work" /\ op[c] = "menu")
        => UNCHANGED <<vm, is_fullspeed>>]_vars

\* A request to stop the emulator always brings main() to its end: no order of pauses,
\* steps and ejects leaves the CPU thread waiting for the mutex or main() for the thread.
ShutdownCompletes == cpu_shutting_down ~> pc[Main] = "stopped"

\* cpu_pause() returns, whatever the CPU thread is doing.
PauseCompletes == \A c \in Clients : pc[c] = "pauseLock" ~> pc[c] = "work"

\* A stepping debugger gets the mutex back: no signal between the two condition
\* variables is lost for good.
DebuggerReturns == \A c \in Clients : pc[c] = "dbgWait" ~> pc[c] = "dbgStepped"

\* Sound never stays paused under a CPU that runs at normal speed: a pause request that
\* is served only after the resume is repaired by the wedge watchdog (timing.c:319-328).
AudioRecovers ==
    []<>(audio # "paused" \/ is_paused \/ is_fullspeed \/ cpu_shutting_down)

\* The speaker's feedback slows the CPU to keep the streaming audio fed (speaker.c:281-
\* 283): it does not keep the CPU from its cycles for ever.
StarvationEnds ==
    []<>(~starved \/ is_paused \/ is_fullspeed \/ cpu_shutting_down)
=============================================================================
