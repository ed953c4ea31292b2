# Verification of the Apple //e emulator

TLA+ models of the emulator in `src/src/`, the TLC configurations that check them
on small instances, and TLAPS proofs of their main theorems.

`PROJECT.json` lists, for every definition that models code, the lines it stands
for; for every hazard the line where it bites and the properties that watch it;
for every property of a passing run a mutation of the model that breaks it; and
the theorems.

Contents: [the system](#the-system), [what is hard](#what-is-hard),
[the modules](#the-modules), [the runs](#the-runs), [bounds](#bounds),
[fairness](#fairness), [the proofs](#the-proofs), [findings](#findings),
[what is not modelled](#what-is-not-modelled), [the plan](#the-plan).

## The system

The emulator runs a 6502 in slices of about a millisecond on one thread, the *CPU
thread*, which also owns the audio backend.  User interface threads (the key
handler, the menus, the Android and macOS wrappers) pause it, change what they want
and resume it.

| Part | Source | State | Operations | Correct when |
|---|---|---|---|---|
| CPU thread, pause | `timing.c` | `interface_mutex`, `is_paused`, the audio requests, `cpu_shutting_down` | `cpu_thread`, `cpu_pause`, `cpu_resume`, start, stop | paused means stopped; every pause and every shutdown completes |
| Stepping debugger | `meta/debugger.c` | `is_debugging`, two condition variables | `begin_cpu_stepping` | the mutex always comes back to the debugger |
| Memory, soft switches | `vm.c` | `softswitches`, the base pointers | `read_softswitch`, `write_softswitch`, reset, save, load | the pointers are the function of the flags that the hardware is |
| Video memory | `vm.c`, `video/video.c` | the display pages, `cyclesDirty` | the write handlers, `video_setDirty` | what is displayed is what is in memory |
| Video scanner | `video/video.c` | `cycles_video_frame`, `cyclesFrameLast`, `cyclesDirty`, the scanline | `video_setDirty`, `video_scannerUpdate` | no cycle twice, none skipped, a redraw reaches what changed |
| Disk II | `disk.c` | motor, magnets, head, the track buffers | `disk6_ioRead`, `disk6_ioWrite`, insert, eject, flush, save, load | no written nibble lost or put elsewhere |
| Disk image files | `zlib-helpers.c`, `disk.c` | the file, its mapping, the copy in the drive | insert (inflate in place), eject (deflate in place), flush | whenever the process is killed, the file holds what was saved to it |
| Speaker | `audio/speaker.c` | sample and remainder buffers | `speaker_toggle`, `speaker_flush` | buffers hold what fits; the feedback does not starve the CPU |
| Audio queue | `audio/playqueue.c`, `audio/soundcore-openal.c` | node pool, voices | enqueue, dequeue, lock, unlock | a buffer is in one place, and recycled once |
| OpenSLES voices | `audio/soundcore-opensles.c` | ring buffers, heads and laps, the player | `SLLockBuffer`, `SLUnlockBuffer`, `SLGetPosition`, the callback | what is written is heard once, in its turn |
| Mockingboard | `audio/mockingboard.c`, `AY8910.c` | 6522 timers, registers, the interrupt line | register access, slices, interrupts, reset | a timer expires when it is due, and the line is that of the chips |
| Keyboard, joystick | `keys.c`, `joystick.c` | the latch at $C000, timers | key input, strobe | no key is lost between two writers |
| Preferences | `prefs.c`, `json_parse.c` | the tree, the listeners | get, set, sync, save | every change reaches its listeners and the file |
| Lifecycle, save state | `misc.c` | the state file | save, load, start-up | a load that fails leaves a machine that runs |
| Menus | `interface.c` | the interface thread | open, close | one menu at a time, under one pause |
| 65c02 | `x86/cpu.S`, `arm/cpu.S`, `cpu-supp.c` | registers, the signal byte | `cpu65_run`, interrupts | no interrupt lost |

They interact by calls on the CPU thread (the 6502 core calls the soft switches,
which call the disk, the speaker and the scanner), by flags that the CPU thread
serves (`emul_reinitialize_audio` and friends, `cpu65__signal`), and through
`interface_mutex`, which the CPU thread holds during a slice and a client holds
from `cpu_pause()` to `cpu_resume()`.

## What is hard

* **Interleaving.**  `is_paused`, the audio requests and `is_debugging` are plain
  variables.  `cpu_pause()` does not nest and does not say who paused: the second
  of two pauses returns at once, and the first of two resumes ends both.  The
  requests for audio are served at other points of the loop than the mutex, so a
  request may be served after the resume that should have cancelled it.
* **A cache of a function.**  Each soft switch changes the flags and the base
  pointers by its own increments (ALTZP moves the language card windows by a
  difference of addresses) and a state file stores both.  What goes wrong takes a
  long sequence of legal accesses to show.
* **Redraws.**  The screen is redrawn only when a change is announced.  The scanner
  runs when somebody looks at it, catches up, and keeps a window of cycles still to
  redraw that later changes, flashes and resets replace.
* **Track buffers.**  A written track of a `.dsk` image exists only in its buffer
  until it is saved; the head, the drive, the image and the state may change at any
  moment.
* **A ring with two hands.**  On Android a callback in a thread of the system empties
  each voice's ring while the CPU thread fills it.  The ring is longer than its size by
  a chunk, and its beginning is copied there and back, so that one sample may be in two
  places; the heads alone do not tell a full ring from an empty one.
* **One timer for two.**  Both Mockingboards have one interval timer, and two variables
  say whether it runs; the interrupt line is a bit that resets, loaded states and other
  threads write as well.
* **Files rewritten in place.**  A compressed image is inflated over its own stream when
  it is inserted and compressed over its own mapping when it is ejected.
* **Loads that fail.**  `vm_loadState()` and `disk6_loadState()` assign as they
  read.  A file that ends early leaves part of both machines, and the callers go on.

What the emulator does not have: there are no networks and no messages to lose;
preferences, images and state files are the only things that outlive the process.

## The modules

```
CpuThread          <- MCCpuThread, CpuThreadProofs
SoftSwitches
  VideoMemory      <- MemoryProofs           (EXTENDS SoftSwitches and implements it)
Redraw (abstract)  <- VideoScanner           (implements Redraw)
                          <- VideoScannerProofs
Diskettes (abstract) <- Disk6                (implements Diskettes)
                          <- MCDisk6, Disk6Proofs
PQList
  PlayQueue          <- MCPlayQueue          (implements the abstract BufferQueue)
  ALVoice
    Speaker          <- MCSpeaker, VoiceProofs (of PlayQueue, ALVoice and Speaker)
SLVoice            <- MCSLVoice, SLVoiceProofs
Mockingboard       <- MCMockingboard, MockingboardProofs
DiskImage          <- MCDiskImage, DiskImageProofs
```

`VideoMemory` joins the memory with the display: it adds video memory to the
machine of `SoftSwitches` and takes the scanner for what `Redraw` and
`ChangesAppear` say of it.  The CPU thread meets the others at its slice: one slice
of `CpuThread` (`Exec`) is any number of accesses of the machine, and the host's
operations of `SoftSwitches` and `Disk6` are what a client does under a pause.
`CpuStoppedWhilePaused` is what lets those modules take them as single steps.  In
the other direction `Speaker` opens what `CpuThread` keeps as a count of submissions:
the slices, the feedback and the watchdog, with the voice and the device they wait for.
`SLVoice` takes the place of `ALVoice` under a speaker on Android; `DiskImage` has the
steps of an insertion and an ejection that are one step in `Disk6`, and takes the tracks
of a drive for one value.

### `CpuThread`: who runs when

One program counter per thread; a step is what a thread does between two points
where another thread can be seen: one lock, one flag read, one flag written.

| Model | Code |
|---|---|
| `InitLock` .. `Outer`, `CpuLoop` | the loop of `cpu_thread()`, in the order of its source |
| `CheckPause`, `BeginSlice`, `Exec`, `Flush` | the audio requests, LOCK and the slice, `cpu65_run()`, `speaker_flush()` and the watchdog |
| `DebugBreak`, `DebugContinue`, `DebugResume`; `DebuggerYield`, `DebuggerRelock`, ... | the two condition variables, on the CPU thread's side and in `begin_cpu_stepping()` |
| `PauseBegin`, `PauseLock`, `Resume` | `cpu_pause()` up to the mutex, and with it; `cpu_resume()` |
| `KeyPress`, `SetSpeed`, `MenuBegin`, `DiskMenu` | the keys of `keys.c` that pause, the menus of `interface.c` |
| `StopCPU`, `Join`, `Destroy`, `EjectDisks` | `timing_stopCPU()`, and the end of the thread, which pauses itself to eject |
| `SpuriousWakeup` | what POSIX allows of `pthread_cond_wait()` |

`interface_mutex` is unlocked by whoever resumes, which need not be the thread that
locked it.  Audio is a state and a count of submissions in the queue.  Samples are there or
not: `Exec` makes them, and the program it runs may leave full speed in its middle
(`speaker_toggle()`); `Flush` submits them.

On the desktop two threads pause: the one that consumes keys and the one that shows menus.
Pauses are not counted, so a pause may join another, and the first resume ends both
(`keys.c:282` tests `cpu_isPaused()` before it pauses).  The history variable `joined` is
true from such a join until every thread that relied on a pause has resumed and the slice
has its mutex.  What the code promises of a pause cannot hold in between
(`CpuThreadEject.cfg` shows an ejection that aborts); the properties say that it holds
otherwise, also after a joined pause is over.

### `SoftSwitches`: flags and pointers

`softswitches` is the set of the SS_ flags.  `base`, `slots`, `lc_rd` and `lc_wrt`
are the base pointers; a pointer into the language card is the number of its bank,
and moving it by a difference is arithmetic on that number, so that it can drift
off the card as it can in the code.  Every handler is an action; one that finds its
switch thrown returns and is no step.  `vm_saveState` writes the flags and encodes
the pointers; `vm_loadState` assigns them in the order of the file, and `LoadTorn`
stops after any of them.  `Groups` selects the switches an instance has.

### `VideoMemory`: the display

Adds one *watched* group of cells, chosen in the initial state (so that every group
is the watched one in some behaviour), and `stale`: the screen may show something
else there.  `Write` is a handler with a byte that differs from the one before: it
announces a redraw under exactly the condition in the code, and goes where the
pointers of `SoftSwitches` send it.  `Plotted` says from the plotters which cells
are visible.

### `VideoScanner`: the beam

One iteration of the loop of `_scannerUpdate` is one step, at a geometry given by
constants.  `video_setDirty(n)` and `UpdateClean`/`UpdateDirty(n)` first let the CPU
run `n` cycles.  `watched` is a visible position; a change (the end of
`video_setDirty()`) makes it `stale`, the beam that passes it makes it current.

### `Disk6`: the drives

A nibble stands for a *field*: the header of a sector, its data, or sync.  A track is
a ring of fields, and `run_byte` a place on it.  `nibblize_track` lays out headers
and data; `denibblize_track` finds data after a header from a place that wraps
around, as the code does.  `files` is what the shared mappings of the images hold,
`buffer` the track under the head of each drive.  Each of the sixteen addresses is an
action with all it calls (a step of the head saves the track it leaves; an access to
the data register loads the track first).  The host inserts, ejects, flushes,
resets, saves and loads, also states that end early.  A loaded state fills drive 1 before
it empties drive 2.  For an image that moves from drive 2 the order does not matter, as the
mapping of drive 1 shows what drive 2 saves afterwards; but a write-protected image is read at
once (`disk.c:901`), so that a state which protects it is loaded only once drive 2 has saved
it (`ReadBeforeSaved`, a bound on the loads).

### `PQList`, `PlayQueue`: the buffers in play

`PQList` has the pool and the list in play as records of pointers, and what each
operation of `playqueue.c` does to the pointers, branch by branch.  `PlayQueue` calls
the operations in any order.  `ALVoice` uses the same operators.

### `ALVoice`: a voice and its device

Every step of an operation ends with one call of the OpenAL library (`GetProcessed`,
`Unqueue`, `GetOffset`, `QueueBuffer`, `GetState`, `Play`), so that the device, which
plays in its own thread (`Device`), acts between any two, and each call may fail
(`Fails`).  `ALGetPosition`, `ALLockBuffer` and `ALUnlockBuffer` are what the three
operations do after `_ALProcessPlayBuffers()`; a failed `alBufferData()` is a branch
of `ALUnlockBuffer`, as it changes nothing in the source.  `ALGetPosition()` declares
a second `err` inside its loop, and so answers 0 bytes without an error when a call
fails (`Unprocessed`).  The source, its buffers and its state are external: they
follow the OpenAL 1.1 specification as far as the code relies on it.

### `Speaker`: who waits for whom

The speaker asks how much is in play, adjusts the cycles of the next slices, and
submits what it has.  `Slice` is a slice with its watchdog (`Watch`), the samples that
it makes (`Updated`) and `speaker_flush()` up to its first call of the voice;
`SubmitPosition`, `SubmitLocked` and `SubmitUnlocked` are `_submit_samples_buffer()`
between the calls, `Pad...` the same at full speed.  `Reinitialize` is the outer loop
of `cpu_thread()`.  Changes of speed, pauses and requests for a new voice come between
two slices, which is what the mutex allows (`CpuThread`).  Samples are counted
one by one, two to a frame, and not heard.  The device plays whole frames.

### `SLVoice`: a ring, its callback and its owner

Memory is counted in frames.  The callback is five steps (`SystemCallback` or `Begin` in
the CPU thread, `Mix`, `Enqueue`, `Fill`, `Advance`, `Return`), so that the CPU thread's
`SLLockBuffer`, `Write`, `SLUnlockBuffer` and `_SLMaybeSubmitAndStart` come between any
two.  The code copies samples and never looks at them, so one *watched* sample in each
ring is followed through the cells that hold it (`watched`), together with the frames
that are to be read before its turn (`due`).  `laps` is the difference of the two wrap
counts, which is all the code compares.  `late` remembers that the reader overtook the
writer while it wrote, when a sample may be lost.  Voices are destroyed and created with
a new player as `Reinitialize` of `Speaker` does.

### `Mockingboard`: a timer and an interrupt line

`board` is the state of the C file, and a C function an operator from one board to the
next, so that a handler composes what it calls: `MB_UpdateCycles` first, then the
register.  `lag` is what the CPU ran since the counters were last brought up to date, and
an access may cut a slice anywhere.  The counters wrap (16 bits by their low and high
bytes), and `Underflows` looks at their signs as the code does.  `irq` is the bit
`IS_6522` of the CPU's signals: `ex_reset` clears it with all others, `mb_loadState`
leaves it as it is, `UpdateIFR` renews it, as it does for the registers that change nothing else
here (other bits of IFR and IER, the second timer).  A state file may end within a chip
(`Ends`): behind its counter, its latch, its ACR, its IFR or its IER, and then
`StartTimer()` is not called for it.  `MB_Reset()` does nothing on a machine without sound
(`audio_isAvailable`).  `settled` says that program and user have
left the boards alone for good: a program that rewrites a timer for ever never hears it.

### `DiskImage`: the file under a drive

A file has a form (a raw image, a stream, a stream at the start of a longer file, or a
mixture) and a content, and a drive a copy of the content until it is decoded back.
`stage` walks through `disk6_eject()` and `disk6_insert()`: each write to the file is two
steps, before and after, and every call that can fail has a branch.  One of these branches is
subject to a constant: the second `lseek()` of an inflation fails only with `SeekFails`.  `Request` asks one
drive or both to be emptied and filled, as the menus, a loaded state and the shutdown
do.  `Crash` may come at any time; what was stored in a shared mapping or written to the
file stays, as the host's kernel keeps it.  `FlushDecodes` and `FlushCleans` are
`nativeEmulationPause()`, which flushes a machine that may still run.

### The abstract specifications

* `Redraw`: a change starts a redraw, and a redraw ends only when the screen shows
  the change.
* `Diskettes`: what is recorded changes only by writing, on the track under the head
  of a drive that holds the diskette unprotected, and nothing moves meanwhile.
* `BufferQueue`: buffers of a pool are put in play and leave it first in first out, or
  one by one wherever they are; calls fail exactly when they must.

They are what a user of the component would say: none mentions a window, a dirty flag
or a pointer.

## The runs

| Run | Configuration | States | What it shows |
|---|---|---|---|
| `cpu_safety` | `CpuThreadSafety.cfg` | 1.6M | With the key thread and the interface thread of the desktop and every operation but stepping, in any interleaving with the CPU thread, a pause keeps the CPU out of its locked slice; but while one pause has joined another, `speaker_flush()` meets no stray samples at full speed and nothing is ejected unpaused |
| `cpu_live` | `CpuThreadLive.cfg` | 60K | Every shutdown ends `main()`, every `cpu_pause()` returns, sound comes back after a late request, and the debugger gets its mutex back |
| `switches` | `SoftSwitches.cfg` | 264K | The windows of the language card follow the flags after any accesses, resets, saves and loads, also loads that stop at any pointer; saving is exact |
| `video` | `VideoMemory.cfg` | 184K | The RAM pointers follow the flags, a screen that is not being redrawn shows memory, but for two kinds of writes, and flashing text heals those |
| `scanner` | `VideoScanner.cfg` | 776K | The scanner's assertions hold while a slice is shorter than a frame, it implements `Redraw`, and every change appears |
| `disk` | `Disk6.cfg` | 147K | No write is lost or moved (`Diskettes`), programs read what was written last, and a flush can always decode the track |
| `playqueue` | `PlayQueue.cfg` | 3.8K | Through any calls, also removals from the middle, the answers are those of `BufferQueue` |
| `speaker` | `Speaker.cfg` | 454K | Whatever call fails and however the device plays on, the voice's account is that of the source, its buffer never overflows, sound is not late by more than a bound, and sound and cycles come back |
| `slvoice` | `SLVoice.cfg` | 234K | With the callback between any two steps of the CPU thread, at every position of both heads, samples are heard once and in their turn, the account is what is pending, the mix buffer is free when it is written, and sound goes on |
| `mockingboard` | `Mockingboard.cfg` | 175K | Whatever a program does with the two chips of a card, the timer has an owner, expires exactly when due and is stopped by no other chip, the line follows the flags but for what a reset loses, which the timer raises again, and sound never waits for a timer that does not run |
| `disk_image` | `DiskImage.cfg` | 237K | Whatever call fails and whenever the process is killed, a file holds what was saved to it but for the cases named in `ImageSurvives`, a mapping stays whole, and no write is dropped with its track |
| `speaker_total` | `SpeakerTotal.cfg` | | violated: see [findings](#findings) |

A run of module `M` is `tlc -config X.cfg M`; `PROJECT.json` has the modules.

Every property of a passing run has a *mutation*: an operator placed before the
definition it changes, with the form a plausible bug would give it
(`LeaveUnsaved` for `LeaveTrack`, `MirroredNot` for `Mirrored`, ...).  With
the definition replaced by its mutation the run finds the property violated, so
that none of them holds only by the shape of the model.

The runs check what takes several steps to go wrong.  The modules state more: their
`TypeOK`, and what the proofs show anyway (`DerivedFlags`, `WriteNeedsAccess`, `SlotRoms`,
`DirtyIsHeld`, `SamplesFit`) or what a property of the run implies (`ListsAgree`, `FrameWasOwed`, `ScreenCurrent`, `OverflowAssertion` of `SLVoice`).

## Bounds

* `CpuThread`: the key thread and the interface thread of the desktop in the safety run,
  one thread that does both in the liveness run, whose `Ops` have the debugger.
  `BacklogMax = 2` submissions of audio are enough for empty, queued and full; the
  watchdog's limit is 2 where the code has 400, since only reaching it
  matters.  `Ops` bounds what the user does; the liveness run has the stepping
  debugger only, which has all the waits (pauses and shutdown are always there).
* `SoftSwitches`: finite as it is.  `Groups` splits it where the groups touch
  different flags and pointers: the card and the slots with saves and loads in
  `switches`, the paging and display switches in `video`.  At most one torn load
  before a reset or a complete load (or the pointers drift without bound), and a
  machine that a torn load left is not saved again.
* `VideoMemory`: one watched cell, each of them in some behaviour.
* `VideoScanner`: seven lines of three cycles (of 262 by 65), rows of two lines
  with the last one cut short, flashes every third frame.  The proportions that the
  code depends on are kept: a blank column before the visible ones, several rows, a
  mixed part of less than a screen, a vertical blank.  `Slices` are zero, one, a
  few lines and a frame less one cycle: the longest for which the assertions hold.
* `Disk6`: one sector on each of two tracks, three phases, two of the four magnets
  (the head moves both ways, and stops at both ends), one image of each format in the
  user's library at a time, two values of data (interchangeable, hence `SYMMETRY`).  The user
  inserts in drive 1; a state file of another session puts the image in drive 2, at the end of its
  last track, and another one puts it there in drive 1, write-protected.  A track ring of two fields is the smallest with a header and its data,
  and already wraps.
  `SpinDown = 0`: the motor stops at once or not.  A state file ends in the drives
  (`LoadTorn`) or before them (`LoadTornEarly`); the places in between leave the
  same machine.  The configurations that show divergences are at the real geometry.
* `PlayQueue`: the four buffers that a voice has, with two sizes of data.
* `ALVoice`, `Speaker`: two of the four buffers, so that the pool does run out.  A
  buffer of 32 bytes is divided as the code divides it (a quarter is two frames); a
  slice makes a whole buffer of bytes or nothing at all, so that two slices overfill
  a voice, and a samples buffer of 20 is just larger than the preset and no multiple of
  a slice.  The device takes 20 bytes at a
  time: more than a half, less than a buffer, so that it stops in the middle of
  buffers and at their ends.  `AdjustMax = StarvedAt = 1`: one submission on a full
  voice cancels all cycles (at 1 MHz it takes some ten; the clamp is above it);
  `WedgedMax = 2` where the code has 400.  `MaxFaults = 1`: any one call fails, in any
  behaviour; for the liveness properties more would only repeat it.  `ULONG` is a
  modulus far above every sum, as 2^64 is.
* `SLVoice`: a ring of nine frames (`bufferSize = 9`) and chunks of two, no divisor of
  the ring, so that a chunk begins at every cell and reaches beyond the end by every
  amount.  The owner leaves a frame free (`MaxFill = 8`), as the speaker does, which asks
  for the ideal size of half a ring; only the first submission may fill it.  `MaxIdle`
  bounds how far the reader runs ahead of a writer that stopped, and `MaxFaults = 1` the
  failed submissions.  One owner in the run; `SLVoiceTwo.cfg` has both (2.3M states).
* `Mockingboard`: a counter of four values, two low bytes by two high bytes (`LowByte`,
  `HighByte`), and slices of at most half of it, as the code's are far below half of 2^16
  cycles (`MaxSlice`).  The program uses the registers of the first chip (`Programmed`) and
  enables the interrupts of both chips of its card (`Enabling`); in `MockingboardTwo.cfg`
  the second one is on the other card.  A state file has the first chip unused or just expired.
  The machine has sound (`audio_isAvailable = TRUE`).
* `DiskImage`: an image that is compressed and one that is not, two contents, and `Junk`
  for what only looks like one.  An image is in one drive at a time (`Shared = FALSE`),
  and a descriptor that was wound back (`zlib-helpers.c:297`) can be wound back once more
  (line 334, `SeekFails = FALSE`): on a regular file the call has no reason to fail.

## Fairness

* `CpuThread`: strong fairness for threads that wait for the mutex or the spin lock
  (`usleep()` and the mutex give every waiter a turn in the end; the code has no
  other protection from starvation), for the CPU thread, and for the clients' own
  steps.  Users leave menus and debuggers; sound drains from a playing queue.
  Nothing is assumed about what users begin.
* `Speaker`: weak fairness of the CPU thread, as calls of OpenAL return, and of the
  device while it plays.  Nothing is assumed of pauses: `SoundGoesOn` holds although a
  pause may never be followed by a resume, and a resume may find nothing to play.
* `SLVoice`: both threads go on, a buffer that plays ends, and the owner submits in
  every slice it can (strong fairness, as its turn comes only between other calls).
  Nothing is assumed of pauses and of new players but that a teardown, once begun, ends.
* `Mockingboard`: the CPU executes and slices end, as in `CpuThread`; frames of video
  come round.  Nothing is assumed of programs, users and resets.
* `VideoScanner`: the CPU thread keeps running slices with cycles in them, and a scan
  that began ends (it is one call).  `ChangesAppear` asks that the machine is not
  reset for ever.
* `VideoMemory`: a redraw ends, which is `ChangesAppear` of `VideoScanner`, and
  flashes come round in every sixteenth frame.

## The proofs

The eight proof modules hold some 14,000 proof obligations.  They assume the named
assumptions on the constants only (`ThreadsAssumption`, `BoundsAssumption`,
`GroupsAssumption`, `GeometryAssumption`, `InputAssumption`, `RingAssumption`,
`BoardAssumption`, `SavedAssumption`, `NamesAssumption`), which TLC evaluates in the runs.

**`CpuThreadProofs`**, for any number of threads.  `TypeCorrect` is inductive by one
lemma per group of variables.  `PausedCpuIsStopped`: `CpuStoppedWhilePaused` is not
inductive, as nothing in it says who has the mutex.  `LockInv` adds that the CPU
thread owns the mutex in its slice (`CpuOwnsSlice`), that a pause holds it for a
client, unless the CPU or nobody has it while a client steps (`PauseHoldsMutex`), and
that stepping happens under a pause (`SteppingIsPaused`).  The theorem has the
hypothesis `SteppingAlone`: one client, or several that never step.  Without it the
property is false, as a second client can resume under the debugger.  `FlushIsQuiet`,
`EjectionIsPaused` and `UnsharedPauseStops` have no hypothesis: any clients, stepping or not.
`StrayIsReset` says that whoever left samples behind at full speed is on its way to reset the
speaker; it needs no pause.  That the pause lasts until it does is `ApartInv`: while no pause
has joined another, at most one thread relies on the CPU being paused (`AtMostOne`), it is
paused for it (`PausingPaused`), and the mutex is where `CpuOwnsSlice` and `PauseHoldsMutex`
say.  It is inductive because a thread that waits for the mutex keeps the others from pausing
and resuming (`SpinInv`), and because the end of a joined pause brings all of it back.

**`MemoryProofs`**, for any groups of switches.  The pointers move with the
flags, so that each property needs the others: `FlagsInv` (the pseudo switches have
the values of `vm.h`, and LCWRT implies LCSEC, also in the state file), then `RamInv`
(each handler that changes the flag of a region sets its pointer), `SlotInv`, and
`CardInv`, which needs LCWRT => LCSEC: otherwise `iie_c081()` would keep a window of
the wrong bank that ALTZP moves a second time.  `SavedStateIsExact` follows: on the
reachable windows the encoding of `vm_saveState()` is injective.  Its second part is about
the display.  `VideoSwitches` is a refinement, `VideoSpec => SwitchSpec`,
by which every theorem of `SoftSwitches` holds with video memory.  `ScreenShowsMemory`
rests on three lemmas: `SwitchAnnounces` (a switch that changes the picture starts a
redraw), `QuietPicture` (one that starts none leaves every plotted cell plotted and
ends neither kind of unannounced write) and `WriteAnnounces`.

**`VideoScannerProofs`**, for any geometry of the screen and any flash period, under the
hypothesis `ShortSlices`, slices shorter than a frame; without it `NoUnderflow` and
`FrameWasOwed` are false (see [findings](#findings)).  None of the properties is inductive,
as none says how long a scan may be.  `OrderInv` bounds how far the CPU may be ahead of the
frame that is scanned: by two frames in a scan and by one at rest, so that the end of a frame
takes as much from both counts.  `AlignInv` says that a redraw ends at the start of a
scanline, without which the buffer could keep columns (`BufferInv`), and `WindowInv` that
the redraw reaches the position that has changed; `FramesAreOwed` and
`ScannerImplementsRedraw` follow.  The lemmas about division come first: the counters are
reduced modulo a frame and a scanline in different places, and the solver does not divide by
a symbol.

**`Disk6Proofs`**, for any geometry, images, insertions and state files.  The
invariant `Inv` says that the dirty track of a drive is valid and of an unprotected
image (`SoundDrives`), that images in the drives exist and none is in both
(`Present`), and what the controls range over.  With it at most one drive has
anything to save for an image (`OnePending`), and what a step does to `Medium`, the
diskettes with their unsaved tracks, is one of three: tracks are saved and are clean
afterwards (`SavingKeeps`), tracks that stay dirty stay in their buffers
(`HoldingKeeps`), or a byte is written (`ByteKeeps`).  From these,
`WritesStayRecorded`: every step of the controller is a step of `Diskettes` or
stutters.  `DirtyStaysHeld` and `HardwareStaysOK` are parts of the invariant.

What the buffers hold is proved for programs that write the data of sectors, as DOS and ProDOS
do (`~Formats`); with programs that format tracks `DenibblizeAssertion` is false (see
[findings](#findings)).  The lemma `DecodeEncoded` says that `denibblize_track` undoes
`nibblize_track` at any number of sectors, whatever the file had: without sync bytes the scan
goes over the track in its order and once more over the first header (`ScanOfFormatted`), and
finds the data of each sector once (`FoundFor`).  The invariant `Stored` says that the buffer
of a valid track is the encoding of some sectors, of those in the file unless the track is
dirty (`Holds`).  Writing data over data leaves it an encoding (`DataOverData`), and saving puts
those sectors into the file (`HoldsKept`, `SavedTrack`).  `FlushAlwaysDecodes` and
`BuffersStayFaithful` follow, and `ContentsStayTyped`, the type invariant.

**`SLVoiceProofs`**, for rings and chunks of any size.  `MixBufferIsNotPlayed` needs
`PlayerInv`: a stopped player has nothing queued and no callback under way, so that the CPU
thread may call the callback itself.  `AccountIsPending` and `GrantFits` rest on
`AccountInv`.  Equal heads are a full ring or an empty one, and the account is right only if
no ring is full when the CPU thread counts: a ring that the first submission filled is full
until the callback has taken a chunk of it (`Starting`, `FilledInv`), the CPU thread waits
for the callback it called (`ThreadInv`), which takes a chunk of every voice (`VoicesInv`,
`BatchInv`).  Between Lock and Unlock the reader only makes room (`GrantInv`).  Both
have two hypotheses: one or two voices (`OneOrTwo`), as the callback mixes no third one,
and owners that leave a frame free (`FrameLeft`), without which the property is false (see
[findings](#findings)).

`EachIsHeardInTurn`: every sample that was written in time is heard once, in its turn.  The
property is about the frame that the callback reads; `HeardInv` says the same of every frame
between the heads, and needs what the frames are in: a frame is in its cell of the ring or,
behind the end, in the overflow (`Main`, `Doubled`), and `ReadFrom` is always one of the two
(`ReadFromCell`, a lemma about division).  `Told` says that the watched sample is in those
cells at the frame that is due, and at no other pending one; `Handed` says it of what is
written and not handed over, which the callback may overtake in between; `DueIn` that a due
sample is pending or written.  While a voice is in the mix (`MixInv`) its first chunk is left
out, as `Fill` makes it quiet before `Advance` moves the head.  A step keeps all this by a
pure lemma about cells and heads (`FillKeeps`, `AdvanceKeeps`, `WriteKeeps`, `UnlockKeeps`,
each for frames handed over and for frames written), which knows nothing of threads.  The
theorem has a third hypothesis, `DistinctOwners`: two owners are two, and not one listed
twice.  A sample that was overtaken (`Overtaken`) is only shown not to be heard out of turn.

**`VoiceProofs`**, for any number of buffers and sizes, and any number of failing calls.
*The lists.*  `Represents(l, q, p)` says that the pointers of the list `l` are those of two
disjoint sequences that share the nodes: `q` in play, oldest first, and `p` the pool from its
top.  Each operation of `playqueue.c` is shown to do to `q` and `p` what it should, with one
case for each branch of its unlinking; `ListsAlwaysAgree` follows.  With `q` as the witness the
pointers implement `BufferQueue` (`IsQueue`).  What the model collects along `next` and `prev`
is a recursive function, about which one cannot argue by the library's induction; the lemmas
`Least`, `SetInduction` and `Recursion` take its place, with sets in place of predicates.
*The voice.*  `QueueMirrorsSource` is not inductive between the calls: the account and the
source differ by the buffer that is handed over.  `VoiceOK` is the conjunction that is inductive.  `AccountOK` has the
lists with the account of their bytes, and where the source differs from them; `SourceOK` says
that what was asked of the library stays true until it is used: only `Device` acts in
between, and it only plays on; `RoomOK` bounds the working buffer in every operation, so that
`OverflowAssertion` holds (`NeverOverflows`); `LoopOK` and `CopyOK` are about the loop of
`speaker.c`, which takes no more samples than it has.  `_speaker_update()` tests its index once
for the two samples of a frame, so that from an odd index it would write past its buffer; and how
many samples a flush takes is decided by the room of the voice, in bytes.  `FramesOK` is the second
invariant, beside `VoiceOK`: the account, its nodes, the working buffer, the source, what is asked
for, answered and left to copy are all whole frames, provided that the sizes are and that the
device plays whole frames (`Period % 4 = 0` of `VoiceAssumption`; with a period of 18 bytes TLC
finds the index odd).  Hence `SamplesFit` (`SamplesAreThere`).  `NeverLate` is the
action property `LatencyBounded`: a buffer is handed over only while less than a quarter is
to be heard, whatever the device played since that was asked.

**`MockingboardProofs`**, for counters of any width, slices of at most half of it, and any
chips and state files, on a machine with sound (`ASSUME audio_isAvailable`: without it
`MB_Reset()` returns before it resets the chips, `mockingboard.c:1993`, and a load that
ends early finds the timer with a chip whose interrupt is off, see [findings](#findings)).  `TimerInvariant`: the types and `TimerOwner` together are
inductive, function by function of the C file (each lemma says what one of them makes
of a sound board), as a handler composes several.  `LineFollows`: every handler that
changes a flag ends in `UpdateIFR`, which sets the line from all chips.  `TimerExpires`
needs the arithmetic of the wrapped counters: the signs before and after tell whether
the counter passed zero only because no slice is longer than half of its range.
`TimerStays` proves `TimerKept` under the hypothesis `OneCard`: the chips that program and
state files use belong to one card.  The invariant adds `Lone`: a chip that says that it has the
timer has it, and only chips that are used have their interrupt enabled, so that no second
chip can take it.  With two cards the property is false (see [findings](#findings)).

**`DiskImageProofs`**, for any set of files and values.  `Shape` says at which stages an
operation may be, with which drive, file and form; `Safe` is the conjunction that is
inductive with it: mappings are whole (`Mappings`), no two drives work on one file
(`Separate`), a file under work has its content where the stage says (`Work`),
`ImageSurvives`, and clean copies are in the file (`CleanIsSaved`).  From it follow
`ImagesSurvive`, `MappingsAreWhole`, `CleanTracksAreSaved` and, step by step,
`EjectionSaves`.  The theorems have the hypothesis `Whole`: nobody puts one image into both drives (`~Shared`), and
files can be wound back (`~SeekFails`); TLC finds counterexamples without either (see
[findings](#findings)).

Left to TLC is liveness under fairness, which the prover does not reach: `ShutdownCompletes`,
`PauseCompletes`, `AudioRecovers`, `DebuggerReturns`, `FlashingHeals`, `ChangesAppear`,
`SoundGoesOn`, `CyclesComeBack`, `LostHeals`.  All other properties of the passing runs are
proved, some under the hypotheses above.

## Findings

`speaker_total` (`SpeakerTotal.cfg`, `PositionFits`): the preset of `speaker_init()`
is a whole buffer of bytes, the voice adds a quarter of quiet samples, and the loop of
`_submit_samples_buffer()` writes the rest in its second turn: more than a buffer is in
play, which is the assertion "failing on desktop" of `speaker.c:301`.

More divergences, with configurations of their own, or a change to one, to reproduce them:

| Configuration (module) | Property | What happens |
|---|---|---|
| `CpuThreadEject.cfg` (`MCCpuThread`) | `EjectAssertionAlways` | pauses do not nest, so that a speed key can resume the CPU under an open disk menu, and `disk6_eject()` runs unpaused (`timing.c:171`, `keys.c:301`) |
| `CpuThreadSafety.cfg` with `"debug"` in `Ops` (`MCCpuThread`) | (deadlock) | when another thread resumes a pause that it joined while the debugger steps, the debugger takes the mutex back (`debugger.c:1156`) and its own `cpu_resume()`, which finds nothing paused, keeps it for ever (`timing.c:191`) |
| `CpuThreadFrozen.cfg` (`MCCpuThread`) | `CpuBlockedOnReturn` | `timing.h:117` promises a blocked CPU thread; outside the mutex it reinitialises the machine and changes speeds under a pause (`timing.c:273`) |
| `CpuThreadStarved.cfg` (`MCCpuThread`) | `StarvationEnds` | after the sound device is lost, the speaker's feedback can cancel every cycle of every slice (`speaker.c:321`) |
| `SoftSwitchesBank.cfg` (`SoftSwitches`) | `WritesGoToSelectedBank` | a reset leaves the write window open on the main bank while ALTZP may be set later (`vm.c:1301`) |
| `SoftSwitchesTorn.cfg` (`SoftSwitches`) | `SaveAssertion` | a load that ends early leaves pointers that one access turns into ones on which the next save aborts (`vm.c:1671`, `vm.c:1595`) |
| `SoftSwitches.cfg` with `Groups = {"mode", "state"}` (`SoftSwitches`) | `FontFollowsSwitch` | loading a state restores ALTCHAR and not the glyphs (`vm.c:1674`) |
| `Disk6Format.cfg` (`MCDisk6`) | `DenibblizeAssertion` | a flush while a program formats a track meets data without a header, on which `denibblize_track()` aborts (`disk.c:420`) |
| `Disk6Magnets.cfg` (`MCDisk6`) | `MagnetsRestored` | a loaded state has only two of the four magnets (`disk.c:1210`; `disk.c:46` speaks of phases 0 to 3) |
| `SpeakerReplay.cfg` (`MCSpeaker`) | `PlaysFresh` | when the device runs out between the count of processed buffers and the next buffer, `alSourcePlay()` plays the old one again (`soundcore-openal.c:244`) |
| `VideoMemoryText.cfg` (`VideoMemory`) | `TextScreenCurrent` | with 80STORE and PAGE2, writes to the displayed auxiliary text page start no redraw (`vm.c:235`; `video.h:84` and `video.c:324` promise one) |
| `VideoMemoryText.cfg` with the invariant `HiresScreenCurrent` (`VideoMemory`) | `HiresScreenCurrent` | in mixed hires the pages shared with text rows have the text handler, so their hires rows are written unannounced (`vm.c:1462`) |
| `VideoScannerUnderflow.cfg` with the invariant `FrameWasOwed` (`VideoScanner`) | `FrameWasOwed` | slices of a frame or more (`speaker.c:321` allows 22,500 cycles) end a frame that is not over (`video.c:285`) |
| `VideoScannerMissed.cfg` (`VideoScanner`) | `EveryFrameEnds` | when an announcement is the first to look at the beam after it wrapped, the redraw begins in the new frame and `_endOfFrame()` is never called for the old one (`video.c:241`) |
| `VideoScanner.cfg` with the invariant `FloatingBusReadsScreen` (`VideoScanner`) | `FloatingBusReadsScreen` | in a mixed mode the floating bus reads graphics down to line 192 where the scanner shows text from line 160 on (`video.c:488`) |
| `VideoScannerUnderflow.cfg` (`VideoScanner`) | `NoUnderflow` | with slices longer than a frame, a flash on the way makes the count of cycles underflow (`video.c:296`) |
| `SLVoiceEcho.cfg` (`MCSLVoice`) | `HeardOnce` | a chunk that was played is made quiet in the ring but not in the overflow behind it, which is copied to the beginning later: when the writer is late, old samples are heard again (`soundcore-opensles.c:151`, "backfill quiet samples") |
| `SLVoicePause.cfg` (`MCSLVoice`) | `SoundGoesOn` | a resume that meets a stopped player ("lifecycle mismatch ... continuing anyway", `soundcore-opensles.c:750`) can leave it stopped with a ring that nobody starts again |
| `SLVoice.cfg` with `MaxFill = 9` (`MCSLVoice`) | `PositionIsPending` | an owner that fills the ring to its last frame makes it look empty: the heads are equal, one lap apart, and the next submission counts wrongly (`soundcore-opensles.c:92`, `soundcore-opensles.c:214`) |
| `MockingboardTwo.cfg` (`MCMockingboard`) | `TimerKept` | with a program that uses both cards ("Support 2 MB's", `mockingboard.c:196`), the chip that does not own the one timer takes it away |
| `MockingboardLine.cfg` (`MCMockingboard`) | `LineIsOrSum` | `ex_reset` and `mb_loadState()` leave the line other than the or-sum of the chips (`mockingboard.c:432`), until the next change of a flag |
| `Mockingboard.cfg` with `audio_isAvailable = FALSE` (`MCMockingboard`) | `TimerOwner` | `mb_loadState()` relies on `MB_Reset()`, which does nothing without sound (`mockingboard.c:1993`), so that after a load the timer can still belong to a chip whose interrupt is off |
| `DiskImage.cfg` with `SeekFails = TRUE` (`MCDiskImage`) | `MappingIsWhole` | when the file cannot be wound back after its stream was read, `zlib_inflate_inplace()` leaves the count as it was expected and reports success (`zlib-helpers.c:334`): `disk6_insert()` maps the compressed file |
| `DiskImage.cfg` with `Shared = TRUE` (`MCDiskImage`) | `MappingIsWhole`, `CleanIsSaved` | a loaded state inserts an image in one drive before it is ejected from the other (`disk.c:1189`), so that the ejection compresses and truncates the file under the new mapping |
| `DiskImage.cfg` with the invariant `CleanIsSavedAlways` (`MCDiskImage`) | `CleanIsSavedAlways` | `nativeEmulationPause()` flushes before it pauses (`jnihooks.c:245`): what the machine writes between the decoding and the clearing of the flag is not saved |

Also met, and not a property of any run:

* `disk.c:855` keeps the place on the track for an image that is inserted again, and
  the first access to it resets that place (`disk.c:519`).
* A loaded state that moves a written image from drive 2 to drive 1 and protects it there reads
  the image before drive 2 has saved its track (`disk.c:901`, `disk.c:1189`): drive 1 then
  holds what was there before.  The loads of `Disk6` leave this out.
* `speaker.c:367` counts `samples_idx` in bytes and uses it as an index of samples, so
  that a second turn of the loop copies from the wrong place; `speaker.c:505` moves a
  count of samples as a count of bytes.  `Speaker` counts samples and does not see it.
* Samples that could not be locked or unlocked are counted as used (`speaker.c:347`).
* After the watchdog made a new voice, the feedback goes on from
  `samples_adjustment_counter`, which is not reset: each new voice gives back one step,
  so that it may take several turns of the watchdog until cycles are positive again.
* `ex_reset` stores 0 in the CPU's signals without `irq_mutex` (`x86/cpu.S:2129`), so that
  what another thread raises meanwhile is lost.
* `cpu_resume()` announces the screen only if no new audio is pending (`timing.c:196`).
* `_openal_destroyVoice()` deletes the first buffer four times
  (`soundcore-openal.c:345`), and `playqueue.c:246` uses a node before it tests it.

## What is not modelled

* The instruction set: its reference is the functional test suite of the 65c02.
* The bytes of a sector (6-and-2 encoding, checksums): a field is decoded or not.
* The values of samples and their fractions (`remainder_buffer`): `Speaker` counts.
* The static buffers of a voice (`ALReplay()`), which are not installed; on OpenSLES, the
  failures of the set-up, and voices that are recycled within one context.
* `Mockingboard`: the second timers, whose counters run and never expire; the ports, the
  registers of the AY-3-8910 and the samples made of them; the phonemes (compiled out, and
  most of their source is a table of samples); the Phasor.
* `DiskImage`: the decoding of `.nib` images, for which the buffer is the mapping, and
  the scan for nibble and ProDOS orders: an insertion maps or fails.
* Preferences (`prefs.c`, `json_parse.c`).  `prefs_sync()` counts calls that come while it
  runs and makes one more pass for them; that pass notifies nobody, as the marks of the
  first are not reset (`prefs.c:405` to `prefs.c:466`).  It takes two threads, which only
  the desktop's menus have, and the rest of the file is a tree of strings.
  `prefs_save()` truncates the file before it writes it (`prefs.c:127`); a crash between
  the two loses every setting.  On Android the Java half writes the same file.
* `emulator_loadState()` as a whole: its parts are in `SoftSwitches`, `Disk6` and
  `Mockingboard`, each with files that end early, and nothing relates them but their order.
* The latch of the keyboard and the timers of the joystick, each a word that one thread
  writes and another reads.
* Pixels, glyphs, waveforms, window systems, the touch keyboard, the debugger's commands,
  logging, tracing, build tools.
* Real time: the drift that `cpu_thread()` corrects by sleeping.
* `disk6_stateExtractDiskPaths()`, which reads a state file and changes nothing.

## The plan

Done, in this order: `CpuThread` and its proofs; `SoftSwitches` and its proofs; `Redraw`,
`VideoScanner` and its proofs; `VideoMemory` and its proofs; `Diskettes`, `Disk6` and its proofs;
`BufferQueue`, `PlayQueue`, `ALVoice`, `Speaker` and their proofs; `SLVoice` and its proofs; `Mockingboard` and its proofs;
`DiskImage` and its proofs.

Left, most important first:

1. The contents of the speaker's buffers (`speaker.c:367`, `speaker.c:505`): which
   samples are heard, in which order; and `Speaker` shown to implement the
   `samples_pending` of `CpuThread`.
2. The composition of `CpuThread` with `VideoMemory` (`timing.c:196`), and of the signal
   byte of the core with the threads that raise interrupts (`x86/cpu.S:2129`).
3. `Prefs`, and a save of the state that is broken off.
4. `Keys`, `Joystick`: the latch at $C000 and its two writers, the paddle timers.

Theorems to prove: the types of `Disk6` with programs that format tracks; `HeardInTurn` of `SLVoice` for samples that were overtaken.
