------------------------------- MODULE SLVoice -------------------------------
(***************************************************************************)
(* The OpenSLES backend (src/src/audio/soundcore-opensles.c): each voice   *)
(* is a ring buffer that the CPU thread fills between Lock and Unlock and  *)
(* that a callback empties, chunk by chunk, in a thread of the system or,  *)
(* to force a start, in the CPU thread itself.  The ring has room after    *)
(* its end (the overflow) for a chunk that begins before the end, so that  *)
(* the writer keeps the beginning and the overflow alike.                  *)
(*                                                                         *)
(* Memory is counted in frames.  The code only copies samples, so one      *)
(* watched sample in each ring, among others that are not told apart,      *)
(* shows whether samples are heard once and in their turn.                 *)
(***************************************************************************)
EXTENDS Integers, Sequences
LOCAL INSTANCE SequencesExt

CONSTANTS
    Owners,                \* who creates a sound buffer, in order: speaker, Mockingboard
    Watched,               \* those in whose ring a sample is watched
    bufferSize,            \* frames of a ring, without the overflow
    submitSize,            \* frames of a chunk
    Writes,                \* frames that an owner asks Lock for
    MaxFill,               \* most frames that owners leave pending in a ring
    MaxIdle,               \* bound on the frames by which a chunk begins after the writer's end
    MaxFaults,             \* bound on the calls of Enqueue() that fail
    Mismatch               \* whether a pause or a resume may meet a stopped player

\* opensles_systemSetup() makes a ring of at least four chunks.
ASSUME RingAssumption ==
    /\ submitSize \in Nat \ {0} /\ bufferSize \in Nat /\ bufferSize >= 4 * submitSize
    /\ Watched \subseteq Range(Owners)
    /\ Writes \subseteq Nat \ {0} /\ MaxFill \in 0 .. bufferSize
    /\ MaxIdle \in Nat /\ MaxFaults \in Nat /\ Mismatch \in BOOLEAN

VARIABLES
    voices, recycledVoices,       \* the lists of the context, by their order
    watched,                      \* cells of each ring that hold its watched sample
    writeHead, readHead,
    laps,                         \* writeWrapCount - readWrapCount
    playState, enqueued,          \* external: the player and its queue of buffers
    cb,                           \* the callback: where it is and what it has in its locals
    cpu,                          \* the CPU thread: the call it is in
    due,                          \* history: frames to read before the watched sample's turn
    late,                         \* history: whether the reader had overtaken its writer
    faults

ring  == <<watched, writeHead, readHead, laps>>
rings == <<ring, due, late>>
lists == <<voices, recycledVoices>>
vars  == <<rings, lists, playState, enqueued, cb, cpu, faults>>

Voice  == Range(Owners)
Cells  == 0 .. bufferSize + submitSize - 1
NotDue == -1
None   == "none"

Smaller(a, b) == IF a < b THEN a ELSE b

\* `count' cells from `first'
Span(first, count) == first .. first + count - 1

Idle == [at |-> "idle", thread |-> None, voices |-> <<>>, failed |-> FALSE]

AtRest == [at |-> "idle", voice |-> None, bytes |-> 0]

-----------------------------------------------------------------------------
(* The reader                                                               *)

\* A chunk that reaches the end of the ring goes on at its beginning.
Crosses(v) == readHead[v] + submitSize >= bufferSize

\* The list that follows a voice, also a voice that was unlinked meanwhile
NextOf(v) ==
    LET list == IF Contains(voices, v) THEN voices ELSE recycledVoices
        after == {i \in DOMAIN list : i > 1 /\ list[i-1] = v}
    IN IF after = {} THEN None ELSE list[CHOOSE i \in after : TRUE]

\* Its chunk was copied, and its head has not moved since.
InMix(v) == Contains(cb.voices, v)

\* The frames between the reader and the writer
Ahead(v) == laps[v] * bufferSize + writeHead[v] - readHead[v]

\* A chunk that begins with less than a chunk pending overtakes what is being written.
Overtakes(v) ==
    late' = [w \in Voice |-> late[w] \/ (w = v /\ cpu.at = "written" /\ cpu.voice = w /\ Ahead(w) < submitSize)]

\* The copy of voice 0 into the mix buffer; without a voice the player is stopped.
Begin(thread) ==
    cb' = IF voices = <<>> THEN [Idle EXCEPT !.at = "failed", !.thread = thread]
          ELSE [Idle EXCEPT !.at = "copied", !.thread = thread, !.voices = <<Head(voices)>>]

\* The system calls back when a buffer has been played.
SystemCallback ==
    /\ playState = "playing" /\ enqueued > 0
    /\ cb.at = "idle" /\ cpu.at # "callback"
    /\ \A v \in Voice : Ahead(v) > -MaxIdle
    /\ enqueued' = enqueued - 1
    /\ Begin("system")
    /\ IF voices = <<>> THEN UNCHANGED late ELSE Overtakes(Head(voices))
    /\ UNCHANGED <<ring, due, lists, playState, cpu, faults>>

Mix ==
    /\ cb.at = "copied"
    /\ LET voice0 == Head(cb.voices)  voice1 == NextOf(voice0) IN
       /\ cb' = [cb EXCEPT !.at = "mixed", !.voices = IF voice1 = None THEN @ ELSE <<voice0, voice1>>]
       /\ Overtakes(voice1)
    /\ UNCHANGED <<ring, due, lists, playState, enqueued, cpu, faults>>

\* A chunk that could not be submitted is dropped, and the player stopped at the end.
Enqueue ==
    /\ cb.at = "mixed"
    /\ \/ cb' = [cb EXCEPT !.at = "fill"] /\ enqueued' = enqueued + 1 /\ UNCHANGED faults
       \/ /\ faults < MaxFaults /\ faults' = faults + 1
          /\ cb' = [cb EXCEPT !.at = "fill", !.failed = TRUE] /\ UNCHANGED enqueued
    /\ UNCHANGED <<rings, lists, playState, cpu>>

\* Backfill of quiet samples
Silenced(v) ==
    IF Crosses(v)
    THEN Span(readHead[v], submitSize) \cup Span(bufferSize, submitSize)
             \cup Span(0, readHead[v] + submitSize - bufferSize)
    ELSE Span(readHead[v], submitSize)

Fill ==
    /\ cb.at = "fill"
    /\ LET v == Head(cb.voices) IN watched' = [watched EXCEPT ![v] = @ \ Silenced(v)]
    /\ cb' = [cb EXCEPT !.at = "advance"]
    /\ UNCHANGED <<writeHead, readHead, laps, due, late, lists, playState, enqueued, cpu, faults>>

\* mutation of Wraps: the lap is not counted.
WrapsUncounted(v) == laps' = laps

Wraps(v) == laps' = [laps EXCEPT ![v] = IF Crosses(v) THEN @ - 1 ELSE @]

\* The head moves under the spin lock of the voice; then the next voice is filled.
Advance ==
    /\ cb.at = "advance"
    /\ LET v == Head(cb.voices) IN
       /\ readHead' = [readHead EXCEPT ![v] = IF Crosses(v) THEN @ + submitSize - bufferSize ELSE @ + submitSize]
       /\ Wraps(v)
       /\ due' = [due EXCEPT ![v] = IF @ >= submitSize THEN @ - submitSize ELSE NotDue]
    /\ cb' = [cb EXCEPT !.voices = Tail(@),
                        !.at = IF Len(cb.voices) > 1 THEN "fill" ELSE IF cb.failed THEN "failed" ELSE "done"]
    /\ UNCHANGED <<watched, writeHead, late, lists, playState, enqueued, cpu, faults>>

Return ==
    /\ cb.at \in {"done", "failed"}
    /\ cb.at = "failed" => Mismatch \/ cpu.at # "resume"
    /\ playState' = IF cb.at = "failed" THEN "stopped" ELSE playState
    /\ cb' = Idle
    /\ cpu' = IF cb.thread = "cpu" THEN AtRest ELSE cpu
    /\ UNCHANGED <<rings, lists, enqueued, faults>>

bqPlayerCallback == Mix \/ Enqueue \/ Fill \/ Advance \/ Return

-----------------------------------------------------------------------------
(* The writer                                                               *)

\* mutation of Underrun: the laps are not compared.
UnderrunByHeads(v) == readHead[v] >= writeHead[v]

\* The reader has caught up with the writer, or passed it.
Underrun(v) == laps[v] < 0 \/ (laps[v] = 0 /\ readHead[v] >= writeHead[v])

Checked(v) == IF Underrun(v) THEN [head |-> readHead[v], laps |-> 0]
              ELSE [head |-> writeHead[v], laps |-> laps[v]]

workingBytes(v) ==
    LET head == Checked(v).head
    IN IF readHead[v] <= head THEN head - readHead[v] ELSE head + bufferSize - readHead[v]

_underrun_check_and_manage(v) ==
    /\ writeHead' = [writeHead EXCEPT ![v] = Checked(v).head]
    /\ laps' = [laps EXCEPT ![v] = Checked(v).laps]

SLGetPosition(v) ==
    /\ cpu.at = "idle"
    /\ _underrun_check_and_manage(v)
    /\ UNCHANGED <<watched, readHead, due, late, lists, playState, enqueued, cb, cpu, faults>>

Granted(v, n) ==
    Smaller(n, Smaller(bufferSize - workingBytes(v), bufferSize + submitSize - Checked(v).head))

\* Owners ask for no more than what GetCurrentPosition() leaves; the first submission may be all.
Room == IF playState = "stopped" THEN bufferSize ELSE MaxFill

SLLockBuffer(v, n) ==
    /\ cpu.at = "idle"
    /\ Granted(v, n) > 0 /\ workingBytes(v) + Granted(v, n) <= Room
    /\ _underrun_check_and_manage(v)
    /\ cpu' = [at |-> "locked", voice |-> v, bytes |-> Granted(v, n)]
    /\ UNCHANGED <<watched, readHead, due, late, lists, playState, enqueued, cb, faults>>

\* What the owner writes may have the next watched sample in it.
Written(v, n) ==
    LET untouched == watched[v] \ Span(writeHead[v], n) IN
    \/ watched' = [watched EXCEPT ![v] = untouched] /\ UNCHANGED <<due, late>>
    \/ \E k \in 0 .. n - 1 :
          /\ v \in Watched /\ due[v] = NotDue
          /\ watched' = [watched EXCEPT ![v] = untouched \cup {writeHead[v] + k}]
          /\ due' = [due EXCEPT ![v] = IF Ahead(v) + k >= 0 THEN Ahead(v) + k ELSE NotDue]
          /\ late' = [late EXCEPT ![v] = InMix(v) /\ Ahead(v) < submitSize]

Write ==
    /\ cpu.at = "locked"
    /\ Written(cpu.voice, cpu.bytes)
    /\ cpu' = [cpu EXCEPT !.at = "written"]
    /\ UNCHANGED <<writeHead, readHead, laps, lists, playState, enqueued, cb, faults>>

\* memcpy of `n' cells
Copied(v, from, to, n) ==
    watched' = [watched EXCEPT ![v] =
        (@ \ Span(to, n)) \cup {to + k : k \in {k \in 0 .. n - 1 : from + k \in @}}]

\* mutation of Mirrored: the beginning is not kept in the overflow.
MirroredNot(v, head, n) == UNCHANGED watched

\* The beginning of the ring goes to the overflow.
Mirrored(v, head, n) ==
    IF head < submitSize THEN Copied(v, head, bufferSize + head, Smaller(n, submitSize - head))
    ELSE UNCHANGED watched

Unlocked(v, n) ==
    LET head == writeHead[v] + n IN
    \/ /\ head >= bufferSize
       /\ writeHead' = [writeHead EXCEPT ![v] = head - bufferSize]
       /\ laps' = [laps EXCEPT ![v] = @ + 1]
       /\ Copied(v, bufferSize, 0, head - bufferSize)
    \/ /\ head < bufferSize
       /\ writeHead' = [writeHead EXCEPT ![v] = head]
       /\ UNCHANGED laps
       /\ Mirrored(v, writeHead[v], n)

SLUnlockBuffer ==
    /\ cpu.at = "written"
    /\ Unlocked(cpu.voice, cpu.bytes)
    /\ cpu' = [AtRest EXCEPT !.at = "unlocked"]
    /\ UNCHANGED <<readHead, due, late, lists, playState, enqueued, cb, faults>>

\* mutation of _SLMaybeSubmitAndStart: the player is started, and given nothing to play.
StartOnly ==
    /\ cpu.at = "unlocked"
    /\ playState' = IF playState = "stopped" THEN "playing" ELSE playState
    /\ cpu' = AtRest
    /\ UNCHANGED <<rings, lists, enqueued, cb, faults>>

\* mutation of _SLMaybeSubmitAndStart: every submission calls the callback.
CallAlways ==
    /\ cpu.at = "unlocked" /\ cb.at = "idle"
    /\ playState' = IF playState = "stopped" THEN "playing" ELSE playState
    /\ Begin("cpu") /\ cpu' = [AtRest EXCEPT !.at = "callback"]
    /\ UNCHANGED <<rings, lists, enqueued, faults>>

\* A stopped player is started, and the callback called.
_SLMaybeSubmitAndStart ==
    /\ cpu.at = "unlocked"
    /\ \/ /\ playState = "stopped" /\ playState' = "playing"
          /\ Begin("cpu") /\ cpu' = [AtRest EXCEPT !.at = "callback"]
       \/ /\ playState # "stopped"
          /\ cpu' = AtRest /\ UNCHANGED <<playState, cb>>
    /\ UNCHANGED <<rings, lists, enqueued, faults>>

-----------------------------------------------------------------------------
(* The life of a voice and of the player, all in the CPU thread             *)

opensles_systemPause ==
    /\ cpu.at = "idle"
    /\ Mismatch \/ playState # "stopped"
    /\ playState' = "paused"
    /\ UNCHANGED <<rings, lists, enqueued, cb, cpu, faults>>

\* The state is read before it is set.
opensles_systemResume ==
    /\ \/ /\ cpu.at = "idle" /\ playState = "paused"
          /\ cpu' = [AtRest EXCEPT !.at = "resume"] /\ UNCHANGED playState
       \/ /\ cpu.at = "resume"
          /\ cpu' = AtRest /\ playState' = "playing"
    /\ UNCHANGED <<rings, lists, enqueued, cb, faults>>

\* Voices that are let go are kept, as the callback may still use them.
opensl_destroySoundBuffer ==
    /\ cpu.at \in {"idle", "destroy"} /\ voices # <<>>
    /\ LET v == Owners[Len(Owners) - Len(voices) + 1] IN
       /\ \E i \in DOMAIN voices : voices[i] = v /\ voices' = RemoveAt(voices, i)
       /\ recycledVoices' = <<v>> \o recycledVoices
       /\ due' = [due EXCEPT ![v] = NotDue]
    /\ cpu' = [AtRest EXCEPT !.at = "destroy"]
    /\ UNCHANGED <<ring, late, playState, enqueued, cb, faults>>

\* The player is destroyed when its callback has returned; the voices are freed, and a new player set up.
opensles_systemSetup ==
    /\ cpu.at = "destroy" /\ voices = <<>> /\ cb.at = "idle"
    /\ recycledVoices' = <<>>
    /\ playState' = "stopped" /\ enqueued' = 0
    /\ cpu' = [AtRest EXCEPT !.at = "create"]
    /\ UNCHANGED <<rings, voices, cb, faults>>

opensl_createSoundBuffer ==
    /\ cpu.at = "create"
    /\ LET v == Owners[Len(voices) + 1] IN
       /\ voices' = <<v>> \o voices
       /\ watched' = [watched EXCEPT ![v] = {}]
       /\ writeHead' = [writeHead EXCEPT ![v] = 0]
       /\ readHead' = [readHead EXCEPT ![v] = 0]
       /\ laps' = [laps EXCEPT ![v] = 0]
    /\ cpu' = IF Len(voices') = Len(Owners) THEN AtRest ELSE cpu
    /\ UNCHANGED <<recycledVoices, due, late, playState, enqueued, cb, faults>>

-----------------------------------------------------------------------------

Init ==
    /\ voices = Reverse(Owners) /\ recycledVoices = <<>>
    /\ watched = [v \in Voice |-> {}]
    /\ writeHead = [v \in Voice |-> 0] /\ readHead = [v \in Voice |-> 0]
    /\ laps = [v \in Voice |-> 0] /\ due = [v \in Voice |-> NotDue] /\ late = [v \in Voice |-> FALSE]
    /\ playState = "stopped" /\ enqueued = 0
    /\ cb = Idle /\ cpu = AtRest /\ faults = 0

Submit(v) == \E n \in Writes : SLLockBuffer(v, n)
CpuThread == Write \/ SLUnlockBuffer \/ _SLMaybeSubmitAndStart \/ opensles_systemResume
Reinitialize == opensles_systemSetup \/ opensl_createSoundBuffer

Next ==
    \/ SystemCallback
    \/ bqPlayerCallback
    \/ \E v \in Voice : Submit(v) \/ SLGetPosition(v)
    \/ CpuThread
    \/ opensles_systemPause
    \/ opensl_destroySoundBuffer
    \/ Reinitialize

Spec == Init /\ [][Next]_vars

\* Both threads go on; every slice submits the sound of every owner; a buffer ends.
FairSpec ==
    /\ Spec
    /\ WF_vars(bqPlayerCallback) /\ WF_vars(SystemCallback)
    /\ WF_vars(CpuThread) /\ WF_vars(opensl_destroySoundBuffer /\ cpu.at = "destroy") /\ WF_vars(Reinitialize)
    /\ \A v \in Voice : SF_vars(Submit(v))

-----------------------------------------------------------------------------
(* Properties                                                               *)

TypeOK ==
    /\ watched \in [Voice -> SUBSET Cells]
    /\ writeHead \in [Voice -> 0 .. bufferSize - 1]
    /\ readHead \in [Voice -> 0 .. bufferSize - 1]
    /\ laps \in [Voice -> -1 .. 1]
    /\ due \in [Voice -> -1 .. 2 * bufferSize]
    /\ playState \in {"stopped", "playing", "paused"} /\ enqueued \in 0 .. 2
    /\ faults \in 0 .. MaxFaults

\* The cell from which the callback will read the frame that is k frames ahead of its head
ReadFrom(v, k) ==
    LET head == (readHead[v] + (k \div submitSize) * submitSize) % bufferSize
    IN head + (k % submitSize)

\* What an owner has handed over waits in the cell from which the callback will read it, in
\* its turn and once, whatever was copied to and from the overflow, silenced or overrun
\* before (bqPlayerCallback, SLUnlockBuffer).  The chunk in the mix buffer is done with; what was
\* being written when the reader overtook the writer may be lost, also behind that chunk.
HeardInTurn ==
    \A v \in Range(voices) : late[v] \/
        \A k \in (IF InMix(v) THEN submitSize ELSE 0) .. Ahead(v) - 1 :
            (ReadFrom(v, k) \in watched[v]) <=> (due[v] = k)

\* A chunk that has been played is quiet (src/src/audio/soundcore-opensles.c:151, "backfill quiet
\* samples"): when the writer is late, the reader does not come across it a second time.
HeardOnce ==
    cpu.at = "idle" =>
        \A v \in Range(voices) : InMix(v) \/
            \A k \in 0 .. submitSize - 1 : k >= Ahead(v) => ReadFrom(v, k) \notin watched[v]

\* GetCurrentPosition() answers what is pending (src/src/audio/soundcore-opensles.c:214), although
\* it knows a full ring from an empty one by its laps only.
PositionIsPending ==
    cpu.at = "idle" => \A v \in Voice : workingBytes(v) = IF Ahead(v) < 0 THEN 0 ELSE Ahead(v)

\* The assertion of SLUnlockBuffer(): "OOPS, real overflow in queued sound data!"; what an
\* owner may write is what is neither pending nor beyond the overflow.
OverflowAssertion ==
    cpu.at \in {"locked", "written"} =>
        /\ writeHead[cpu.voice] + cpu.bytes <= bufferSize + submitSize
        /\ Ahead(cpu.voice) + cpu.bytes <= bufferSize

\* There is one mix buffer: it is written only when the player has nothing of it left
\* (bqPlayerCallback), or it would be heard twice.
MixBufferIsFree == cb.at \in {"copied", "mixed"} => enqueued = 0

\* A sample that was handed over is heard, unless the user pauses or its voice goes: a player
\* that stopped is started again (_SLMaybeSubmitAndStart).
SoundGoesOn ==
    \A v \in Voice : due[v] # NotDue ~> (due[v] = NotDue \/ playState = "paused")

=============================================================================
