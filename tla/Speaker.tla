------------------------------- MODULE Speaker -------------------------------
(***************************************************************************)
(* The speaker (src/src/audio/speaker.c) and the voice it plays with, under *)
(* the loop of the CPU thread (src/src/timing.c): the speaker tells the     *)
(* loop how many cycles to run from what the voice has in play, the cycles  *)
(* make samples, and a watchdog makes a new voice when no cycles are left.  *)
(* Samples are counted, not heard.  Other threads act between two slices.   *)
(***************************************************************************)
EXTENDS ALVoice

CONSTANTS
    channelsSampleRateHz,  \* capacity of the samples buffer
    SliceFrames,           \* numbers of frames that a slice may make
    AdjustMax,             \* SOUNDCORE_ERROR_MAX, in units of SOUNDCORE_ERROR_INC
    StarvedAt,             \* adjustment that cancels the cycles of a slice
    WedgedMax              \* SOUNDCORE_ERROR_MAX<<1

ASSUME SpeakerAssumption ==
    /\ {channelsSampleRateHz, AdjustMax, StarvedAt, WedgedMax} \subseteq Nat \ {0}
    /\ SliceFrames \subseteq Nat \ {0} /\ StarvedAt <= AdjustMax
    /\ channelsSampleRateHz % 2 = 0 /\ buffersize \div 2 <= channelsSampleRateHz

VARIABLES
    speaker_isAvailable, is_fullspeed,
    samples_buffer_idx,
    samples_adjustment_counter, cycles_speaker_feedback,
    speaker_wedged_count, emul_reinitialize_audio,
    copy                   \* the locals of _submit_samples_buffer()

control  == <<speaker_wedged_count, emul_reinitialize_audio>>
feedback == <<samples_adjustment_counter, cycles_speaker_feedback>>
speaker  == <<speaker_isAvailable, is_fullspeed, samples_buffer_idx, feedback, copy>>
vars     == <<voicevars, control, speaker>>

bufferTotalSize    == buffersize
bufferSizeIdealMin == bufferTotalSize \div 4
bufferSizeIdealMax == bufferTotalSize \div 2
maxSpeakerBytes    == channelsSampleRateHz * 2

\* Unsigned longs wrap around; a small modulus stands for 2^64.
ULONG == 1024 * bufferTotalSize

NoCopy == [size |-> 0, left |-> 0, idx |-> 0, used |-> 0, turns |-> 0]

-----------------------------------------------------------------------------
(* The slice and its samples                                                *)

\* Without cycles the speaker cannot get the sample it waits for.
Starved == ~is_fullspeed /\ cycles_speaker_feedback <= -StarvedAt

\* _speaker_update() tests the index once for the two samples of each frame, so that
\* from an odd index it would write one sample past the end.
Updated(idx, n) ==
    idx + 2 * Smaller(n, IF idx < channelsSampleRateHz THEN (channelsSampleRateHz - idx + 1) \div 2 ELSE 0)

\* mutation of Watch: the watchdog only counts.
WatchOnly ==
    /\ speaker_wedged_count' = IF Starved THEN Smaller(speaker_wedged_count + 1, WedgedMax - 1) ELSE 0
    /\ UNCHANGED emul_reinitialize_audio

Watch ==
    LET fires == Starved /\ speaker_wedged_count + 1 >= WedgedMax IN
    /\ speaker_wedged_count' = IF Starved /\ ~fires THEN speaker_wedged_count + 1 ELSE 0
    /\ emul_reinitialize_audio' = (emul_reinitialize_audio \/ fires)

\* The inner loop is left when a new voice is asked for.
Flushed(reinitialize) ==
    pc' = (IF reinitialize THEN "outer" ELSE "slice") /\ call' = "position" /\ size' = 0

\* A slice of cycles, in which speaker_toggle() may leave full speed, and
\* speaker_flush() up to the backend.
Slice ==
    /\ pc = "slice"
    /\ Watch
    /\ \E n \in SliceFrames \cup {0}, toggled \in BOOLEAN :
           /\ Starved => n = 0 /\ ~toggled
           /\ ~is_fullspeed /\ ~Starved => n > 0
           /\ is_fullspeed' = (is_fullspeed /\ ~toggled)
           /\ samples_buffer_idx' =
                  IF speaker_isAvailable /\ ~is_fullspeed' THEN Updated(samples_buffer_idx, n)
                  ELSE samples_buffer_idx
    /\ IF speaker_isAvailable /\ (is_fullspeed' \/ samples_buffer_idx' > 0)
       THEN Call("position", 0)
       ELSE Flushed(emul_reinitialize_audio')
    /\ UNCHANGED <<voice, source, processed, reply, faults, speaker_isAvailable, feedback, copy>>

Finish(used) == Flushed(emul_reinitialize_audio) /\ samples_buffer_idx' = samples_buffer_idx - used

Wrote(c) == pc = "return" /\ call = c

-----------------------------------------------------------------------------
(* _submit_samples_buffer_fullspeed()                                       *)

PadPosition ==
    /\ Wrote("position") /\ is_fullspeed
    /\ samples_adjustment_counter' = 0
    /\ LET pad == (bufferSizeIdealMax - reply.bytes) \div 2 IN
       IF reply.bytes >= bufferSizeIdealMax \/ pad = 0
       THEN Finish(0)
       ELSE Call("lock", pad * 2) /\ UNCHANGED samples_buffer_idx
    /\ UNCHANGED <<cycles_speaker_feedback, copy>>

PadLocked ==
    /\ Wrote("lock") /\ is_fullspeed
    /\ IF reply.err THEN Finish(0)
       ELSE Call("unlock", reply.bytes) /\ UNCHANGED samples_buffer_idx
    /\ UNCHANGED <<feedback, copy>>

PadUnlocked ==
    /\ Wrote("unlock") /\ is_fullspeed
    /\ Finish(0)
    /\ UNCHANGED <<feedback, copy>>

-----------------------------------------------------------------------------
(* _submit_samples_buffer()                                                 *)

Clamped(n) == IF n > AdjustMax THEN AdjustMax ELSE IF n < -AdjustMax THEN -AdjustMax ELSE n

Adjusted(queued) ==
    CASE queued < bufferSizeIdealMin -> Clamped(samples_adjustment_counter + 1)
      [] queued > bufferSizeIdealMax -> Clamped(samples_adjustment_counter - 1)
      [] OTHER -> 0

SubmitPosition ==
    /\ Wrote("position") /\ ~is_fullspeed
    /\ samples_adjustment_counter' = Adjusted(reply.bytes)
    /\ cycles_speaker_feedback' = samples_adjustment_counter'
    /\ LET bytes_free == (bufferTotalSize - reply.bytes) % ULONG
           fits == samples_buffer_idx * 2 <= bytes_free
           used == IF fits THEN samples_buffer_idx ELSE bytes_free \div 2
           bytes == IF fits THEN samples_buffer_idx * 2 ELSE bytes_free
       IN  IF bytes = 0
           THEN Finish(used) /\ UNCHANGED copy
           ELSE /\ Call("lock", bytes)
                /\ copy' = [NoCopy EXCEPT !.size = bytes, !.left = bytes, !.used = used]
                /\ UNCHANGED samples_buffer_idx

\* What could not be locked or unlocked counts as used.
SubmitLocked ==
    /\ Wrote("lock") /\ ~is_fullspeed
    /\ IF reply.err
       THEN Finish(copy.used) /\ copy' = NoCopy
       ELSE /\ Call("unlock", Smaller(reply.bytes, maxSpeakerBytes))
            /\ copy' = IF reply.bytes > maxSpeakerBytes THEN [copy EXCEPT !.size = maxSpeakerBytes] ELSE copy
            /\ UNCHANGED samples_buffer_idx
    /\ UNCHANGED feedback

SubmitUnlocked ==
    /\ Wrote("unlock") /\ ~is_fullspeed
    /\ LET next == [copy EXCEPT !.left = @ - size, !.idx = @ + size, !.turns = @ + 1] IN
       IF ~reply.err /\ next.idx < next.size /\ next.turns < 2
       THEN Call("lock", next.left) /\ copy' = next /\ UNCHANGED samples_buffer_idx
       ELSE Finish(copy.used) /\ copy' = NoCopy
    /\ UNCHANGED feedback

Submit ==
    /\ \/ PadPosition \/ PadLocked \/ PadUnlocked
       \/ SubmitPosition \/ SubmitLocked \/ SubmitUnlocked
    /\ reply' = NoReply
    /\ UNCHANGED <<voice, source, processed, faults, control, speaker_isAvailable, is_fullspeed>>

-----------------------------------------------------------------------------
(* Between two slices                                                       *)

Idle == pc = "slice" /\ UNCHANGED <<pc, local, reply>>

\* speaker_init(), when it gets a voice
Available ==
    /\ CreateVoice /\ speaker_isAvailable' = TRUE
    /\ samples_buffer_idx' = IF is_fullspeed THEN 0 ELSE bufferSizeIdealMax

\* speaker_destroy(), audio_shutdown(), audio_init() and speaker_init()
Reinitialize ==
    /\ pc = "outer" /\ pc' = "slice"
    /\ emul_reinitialize_audio' = FALSE
    /\ \/ Works /\ Available
       \/ Fails /\ CreateVoice /\ speaker_isAvailable' = FALSE /\ UNCHANGED samples_buffer_idx
    /\ UNCHANGED <<local, reply, speaker_wedged_count, is_fullspeed, feedback, copy>>

\* timing_reinitializeAudio(), by another thread
ChangeAudio ==
    /\ Idle /\ emul_reinitialize_audio' = TRUE
    /\ UNCHANGED <<voice, source, faults, speaker_wedged_count, speaker>>

\* _timing_initialize() and its speaker_reset()
ChangeSpeed ==
    /\ Idle /\ is_fullspeed' = ~is_fullspeed
    /\ samples_buffer_idx' = IF speaker_isAvailable /\ is_fullspeed' THEN 0 ELSE samples_buffer_idx
    /\ UNCHANGED <<voice, source, faults, control, speaker_isAvailable, feedback, copy>>

\* audio_pause() and audio_resume(), as the loop meets their requests
PauseAudio ==
    /\ Idle /\ speaker_isAvailable
    /\ openal_systemPause \/ openal_systemResume
    /\ UNCHANGED <<voice, faults, control, speaker>>

Init ==
    /\ VoiceInit
    /\ speaker_isAvailable = TRUE /\ is_fullspeed = FALSE
    /\ samples_buffer_idx = bufferSizeIdealMax
    /\ samples_adjustment_counter = 0 /\ cycles_speaker_feedback = 0
    /\ speaker_wedged_count = 0 /\ emul_reinitialize_audio = FALSE
    /\ copy = NoCopy

Library == Operate /\ UNCHANGED <<control, speaker>>

CpuStep == Slice \/ Library \/ Submit \/ Reinitialize

Next ==
    \/ CpuStep
    \/ Device /\ UNCHANGED <<control, speaker>>
    \/ ChangeAudio \/ ChangeSpeed \/ PauseAudio

Spec == Init /\ [][Next]_vars

FairSpec ==
    Spec /\ WF_vars(CpuStep) /\ WF_vars(Device /\ UNCHANGED <<control, speaker>>)
-----------------------------------------------------------------------------
TypeOK ==
    /\ VoiceTypeOK
    /\ speaker_isAvailable \in BOOLEAN /\ is_fullspeed \in BOOLEAN
    /\ samples_buffer_idx \in Nat
    /\ {samples_adjustment_counter, cycles_speaker_feedback} \subseteq (-AdjustMax) .. AdjustMax
    /\ speaker_wedged_count \in 0 .. (WedgedMax - 1) /\ emul_reinitialize_audio \in BOOLEAN
    /\ copy \in [size : Nat, left : Nat, idx : Nat, used : Nat, turns : 0 .. 1]

\* The working buffer never overflows (the assertion of ALUnlockBuffer(), line 270):
\* what a Lock granted still fits when the Unlock adds it, after the quiet samples,
\* in either turn of the copy and whatever call of the library failed before.
OverflowAssertion ==
    call = "unlock" /\ pc \in {"processed", "unqueue", "offset"} => index + size <= buffersize

\* speaker_flush() never takes more samples than there are (its assertion, line 500),
\* and both samples of a frame are in the samples buffer (lines 190 and 205), although
\* what the voice has room for, in bytes, decides how many are taken out (line 333).
SamplesFit ==
    /\ samples_buffer_idx \in 0 .. channelsSampleRateHz /\ samples_buffer_idx % 2 = 0
    /\ copy.used <= samples_buffer_idx

\* At normal speed the speaker is heard again and again, whatever failed before and
\* whether the voice was paused, played out or never started: the quiet samples, the
\* restart in _ALSubmitBufferToOpenAL() or the watchdog (timing.c:320) see to it.
SoundGoesOn ==
    (speaker_isAvailable /\ ~is_fullspeed)
        ~> (source.state = "playing" \/ is_fullspeed \/ ~speaker_isAvailable)

\* A full voice takes all cycles away, and gives them back.
CyclesComeBack == Starved ~> ~Starved

\* The assertion of lines 261 and 301 that was taken out because it "is failing on
\* desktop": what the voice has in play fits in a buffer.
PositionFits == Wrote("position") => reply.bytes <= bufferTotalSize
==============================================================================
