---------------------------- MODULE SLVoiceProofs ----------------------------
(* Proofs about SLVoice for rings, chunks and writes of any size.            *)
EXTENDS SLVoice, TLAPS
LOCAL INSTANCE SequencesExt
LOCAL INSTANCE SequenceTheorems

-----------------------------------------------------------------------------
(* The player and its one mix buffer                                         *)

\* The fields of the two records
CbShape  == cb = [at |-> cb.at, thread |-> cb.thread, voices |-> cb.voices, failed |-> cb.failed]
CpuShape == cpu = [at |-> cpu.at, voice |-> cpu.voice, bytes |-> cpu.bytes]

\* Nothing of the mix buffer is in the queue while a callback has not submitted it, or could
\* not; a stopped player has nothing queued, and no callback under way.
PlayerInv ==
    /\ CbShape /\ enqueued \in {0, 1}
    /\ playState = "stopped" => enqueued = 0 /\ cb.at = "idle"
    /\ cb.at \in {"copied", "mixed", "failed"} => enqueued = 0
    /\ cb.at \in {"fill", "advance"} /\ cb.failed => enqueued = 0
    /\ cb.at \in {"copied", "mixed"} => cb.failed = FALSE

\* The player begins stopped, with nothing queued.
LEMMA PlayerInit == Init => PlayerInv
  BY DEF Init, PlayerInv, CbShape, Idle

\* A callback begins with nothing in the queue.
LEMMA BeginPlays ==
    ASSUME NEW thread, Begin(thread), enqueued' = 0, playState' = "playing"
    PROVE  PlayerInv'
<1>1. CASE voices = <<>>
  <2>1. cb' = [at |-> "failed", thread |-> thread, voices |-> <<>>, failed |-> FALSE]
    BY <1>1 DEF Begin, Idle
  <2> QED
    BY <2>1 DEF PlayerInv, CbShape
<1>2. CASE voices # <<>>
  <2>1. cb' = [at |-> "copied", thread |-> thread, voices |-> <<Head(voices)>>, failed |-> FALSE]
    BY <1>2 DEF Begin, Idle
  <2> QED
    BY <2>1 DEF PlayerInv, CbShape
<1> QED
  BY <1>1, <1>2

\* Every step of either thread keeps it.
LEMMA PlayerStep == PlayerInv /\ [Next]_vars => PlayerInv'
<1> SUFFICES ASSUME PlayerInv, [Next]_vars PROVE PlayerInv'
  OBVIOUS
<1>1. CASE SystemCallback
  <2>1. Begin("system") /\ enqueued' = 0 /\ playState' = "playing"
    BY <1>1 DEF SystemCallback, PlayerInv
  <2> QED
    BY <2>1, BeginPlays
<1>2. CASE Mix
  BY <1>2 DEF Mix, PlayerInv, CbShape
<1>3. CASE Enqueue
  <2>1. /\ CbShape /\ cb.at = "mixed" /\ cb.failed = FALSE /\ enqueued = 0 /\ playState # "stopped"
        /\ playState' = playState
    BY <1>3 DEF Enqueue, PlayerInv
  <2>2. CASE cb' = [cb EXCEPT !.at = "fill"] /\ enqueued' = enqueued + 1
    <3>1. cb' = [at |-> "fill", thread |-> cb.thread, voices |-> cb.voices, failed |-> FALSE]
      BY <2>1, <2>2 DEF CbShape
    <3>2. enqueued' = 1
      BY <2>1, <2>2
    <3> QED
      BY <2>1, <3>1, <3>2 DEF PlayerInv, CbShape
  <2>3. CASE cb' = [cb EXCEPT !.at = "fill", !.failed = TRUE] /\ enqueued' = enqueued
    <3>1. cb' = [at |-> "fill", thread |-> cb.thread, voices |-> cb.voices, failed |-> TRUE]
      BY <2>1, <2>3 DEF CbShape
    <3> QED
      BY <2>1, <2>3, <3>1 DEF PlayerInv, CbShape
  <2> QED
    BY <1>3, <2>2, <2>3 DEF Enqueue
<1>4. CASE Fill
  BY <1>4 DEF Fill, PlayerInv, CbShape
<1>5. CASE Advance
  BY <1>5 DEF Advance, PlayerInv, CbShape
<1>6. CASE Return
  BY <1>6 DEF Return, PlayerInv, CbShape, Idle
<1>7. CASE _SLMaybeSubmitAndStart
  <2>1. CASE playState = "stopped"
    <3>1. Begin("cpu") /\ enqueued' = 0 /\ playState' = "playing"
      BY <1>7, <2>1 DEF _SLMaybeSubmitAndStart, PlayerInv
    <3> QED
      BY <3>1, BeginPlays
  <2>2. CASE playState # "stopped"
    BY <1>7, <2>2 DEF _SLMaybeSubmitAndStart, PlayerInv, CbShape
  <2> QED
    BY <2>1, <2>2
<1>8. CASE opensles_systemPause
  BY <1>8 DEF opensles_systemPause, PlayerInv, CbShape
<1>9. CASE opensles_systemResume
  BY <1>9 DEF opensles_systemResume, PlayerInv, CbShape
<1>10. CASE opensles_systemSetup
  BY <1>10 DEF opensles_systemSetup, PlayerInv, CbShape
<1>11. ASSUME UNCHANGED <<cb, enqueued, playState>> PROVE PlayerInv'
  BY <1>11 DEF PlayerInv, CbShape
<1>12. CASE opensl_createSoundBuffer \/ opensl_destroySoundBuffer
  BY <1>11, <1>12 DEF opensl_createSoundBuffer, opensl_destroySoundBuffer
<1>13. CASE Write \/ SLUnlockBuffer
  BY <1>11, <1>13 DEF Write, SLUnlockBuffer
<1>14. ASSUME NEW v \in Voice, Submit(v) \/ SLGetPosition(v) PROVE PlayerInv'
  BY <1>11, <1>14 DEF Submit, SLLockBuffer, SLGetPosition
<1>15. CASE UNCHANGED vars
  BY <1>11, <1>15 DEF vars
<1> QED
  BY <1>1, <1>2, <1>3, <1>4, <1>5, <1>6, <1>7, <1>8, <1>9, <1>10, <1>12, <1>13, <1>14, <1>15
     DEF Next, bqPlayerCallback, CpuThread, Reinitialize

\* bqPlayerCallback() (soundcore-opensles.c:115) writes the mix buffer only when the player has
\* nothing of it left, with any number of voices, whatever fails, and whoever calls it.
THEOREM MixBufferIsNotPlayed == Spec => []MixBufferIsFree
<1>1. PlayerInv => MixBufferIsFree
  BY DEF PlayerInv, MixBufferIsFree
<1> QED
  BY PlayerInit, PlayerStep, <1>1, PTL DEF Spec

-----------------------------------------------------------------------------
(* The accounts of the rings                                                *)

\* The callback mixes two voices, so that an owner is one of two.
OneOrTwo == Owners \in Seq(Voice) /\ Len(Owners) \in {1, 2} /\ None \notin Voice

\* Owners leave a frame of their ring free, except in the first submission.
FrameLeft == MaxFill < bufferSize

AllVoices == IF Len(Owners) = 1 THEN <<Owners[1]>> ELSE <<Owners[2], Owners[1]>>

\* All voices are linked, unless the CPU thread is between destroying and creating them.
VoicesInv ==
    /\ cpu.at = "create" => voices = <<>> \/ (Len(Owners) = 2 /\ voices = <<Owners[1]>>)
    /\ cpu.at \notin {"create", "destroy"} => voices = AllVoices

\* The CPU thread waits for the callback that it called.
ThreadInv ==
    /\ cb.at = "idle" => cb.thread = None
    /\ cpu.at = "callback" <=> cb.thread = "cpu"

\* A voice whose chunk the callback has still to take
ToRead(v) == \E i \in DOMAIN cb.voices : cb.voices[i] = v

\* A callback in the CPU thread takes a chunk of every voice.
BatchInv ==
    cpu.at = "callback" =>
        /\ cb.at = "copied" => cb.voices = <<AllVoices[1]>>
        /\ cb.at \in {"mixed", "fill", "advance"} => cb.voices \in Seq(Voice) /\ cb.voices # <<>>
        /\ cb.at = "mixed" => \A v \in Voice : ToRead(v)

RingInv ==
    /\ writeHead \in [Voice -> 0 .. bufferSize - 1] /\ readHead \in [Voice -> 0 .. bufferSize - 1]
    /\ laps \in [Voice -> {l \in Int : l <= 1}]

\* A stopped player that is about to be started, or that the CPU thread has started: its ring
\* may be full until the callback has taken a chunk.
Starting(v) ==
    \/ cpu.at = "unlocked" /\ playState = "stopped"
    \/ cpu.at = "callback" /\ (cb.at = "copied" \/ (cb.at \in {"mixed", "fill", "advance"} /\ ToRead(v)))

FilledInv == \A v \in Voice : Ahead(v) < bufferSize \/ (Ahead(v) = bufferSize /\ Starting(v))

\* What is granted fits before the end of the overflow, and between the heads.
Fits(v, n) ==
    /\ writeHead[v] + n <= bufferSize + submitSize
    /\ Ahead(v) + n < bufferSize \/ (Ahead(v) + n = bufferSize /\ playState = "stopped")

GrantInv ==
    cpu.at \in {"locked", "written"} =>
        \E v \in Voice, n \in Nat \ {0} : cpu.voice = v /\ cpu.bytes = n /\ Fits(v, n)

AccountInv ==
    /\ PlayerInv /\ CpuShape /\ VoicesInv /\ ThreadInv /\ BatchInv
    /\ RingInv /\ FilledInv /\ GrantInv

-----------------------------------------------------------------------------
(* The callback that the CPU thread calls                                   *)

\* The linked voices are the voices of all owners.
LEMMA AllVoicesFacts ==
    ASSUME OneOrTwo
    PROVE  /\ AllVoices \in Seq(Voice) /\ AllVoices # <<>> /\ AllVoices[1] \in Voice
           /\ Len(AllVoices) = Len(Owners)
           /\ \A v \in Voice : \E i \in 1 .. Len(AllVoices) : AllVoices[i] = v
<1>1. \A v \in Voice : \E i \in 1 .. Len(Owners) : Owners[i] = v
  BY DEF OneOrTwo, Voice, Range
<1>2. CASE Len(Owners) = 1
  <2>1. AllVoices = <<Owners[1]>> /\ Owners[1] \in Voice
    BY <1>2 DEF AllVoices, OneOrTwo
  <2> QED
    BY <1>1, <1>2, <2>1
<1>3. CASE Len(Owners) = 2
  <2>1. AllVoices = <<Owners[2], Owners[1]>> /\ Owners[1] \in Voice /\ Owners[2] \in Voice
    BY <1>3 DEF AllVoices, OneOrTwo
  <2>2. Len(AllVoices) = 2 /\ AllVoices[1] = Owners[2] /\ AllVoices[2] = Owners[1]
    BY <2>1
  <2>3. \A v \in Voice : v = Owners[1] \/ v = Owners[2]
    BY <1>1, <1>3
  <2> QED
    BY <1>3, <2>1, <2>2, <2>3
<1> QED
  BY <1>2, <1>3 DEF OneOrTwo

\* bqPlayerCallback() mixes the first voice and the one that follows it: all there are.
LEMMA NextCovers ==
    ASSUME OneOrTwo, voices = AllVoices
    PROVE  LET next == NextOf(AllVoices[1])
               mixed == IF next = None THEN <<AllVoices[1]>> ELSE <<AllVoices[1], next>>
           IN mixed \in Seq(Voice) /\ mixed # <<>> /\ \A v \in Voice : \E i \in DOMAIN mixed : mixed[i] = v
<1> DEFINE after == {i \in DOMAIN voices : i > 1 /\ voices[i-1] = AllVoices[1]}
           next == NextOf(AllVoices[1])
<1>1. AllVoices \in Seq(Voice) /\ AllVoices[1] \in Voice /\ Len(AllVoices) = Len(Owners) /\ Len(Owners) \in {1, 2}
  BY AllVoicesFacts DEF OneOrTwo
<1>2. Contains(voices, AllVoices[1])
  BY <1>1 DEF Contains
<1>3. next = IF after = {} THEN None ELSE voices[CHOOSE i \in after : TRUE]
  BY <1>2 DEF NextOf
<1>4. CASE Len(Owners) = 1
  <2>1. after = {}
    BY <1>1, <1>4
  <2>2. next = None
    BY <1>3, <2>1
  <2> QED
    BY <1>1, <1>4, <2>2, AllVoicesFacts
<1>5. CASE Len(Owners) = 2
  <2>1. DOMAIN voices = 1 .. 2
    BY <1>1, <1>5
  <2>2. after = {2}
    BY <2>1
  <2> HIDE DEF after
  <2>3. (CHOOSE i \in after : TRUE) = 2
    BY <2>2
  <2>4. next = AllVoices[2] /\ AllVoices[2] \in Voice /\ AllVoices[2] # None
    BY <1>1, <1>3, <1>5, <2>2, <2>3 DEF OneOrTwo
  <2>5. \A v \in Voice : v = AllVoices[1] \/ v = AllVoices[2]
    BY <1>1, <1>5, AllVoicesFacts
  <2> DEFINE both == <<AllVoices[1], AllVoices[2]>>
  <2>6. both \in Seq(Voice) /\ both # <<>> /\ \A v \in Voice : \E i \in DOMAIN both : both[i] = v
    BY <1>1, <2>4, <2>5
  <2> QED
    BY <2>4, <2>6
<1> QED
  BY <1>1, <1>4, <1>5

ControlInv == PlayerInv /\ CpuShape /\ VoicesInv /\ ThreadInv /\ BatchInv

\* All voices are linked at the start, and no callback is under way.
LEMMA ControlInit == OneOrTwo /\ Init => ControlInv
<1> SUFFICES ASSUME OneOrTwo, Init PROVE ControlInv
  OBVIOUS
<1>1. cb = Idle /\ cpu = AtRest
  BY DEF Init
<1>2. voices = AllVoices
  BY DEF Init, OneOrTwo, AllVoices, Reverse
<1> QED
  BY <1>1, <1>2, PlayerInit DEF ControlInv, VoicesInv, ThreadInv, BatchInv, CpuShape, Idle, AtRest, None

\* What remains of a list of voices after one was filled
LEMMA TailVoices ==
    ASSUME NEW s \in Seq(Voice), Len(s) > 1
    PROVE  Tail(s) \in Seq(Voice) /\ Tail(s) # <<>>
<1>1. s # <<>> /\ Len(s) \in Nat
  BY EmptySeq, LenProperties
<1>2. Tail(s) \in Seq(Voice) /\ Len(Tail(s)) = Len(s) - 1
  BY <1>1, HeadTailProperties
<1>3. Len(Tail(s)) # 0
  BY <1>1, <1>2
<1> QED
  BY <1>2, <1>3, EmptySeq

\* The record of the CPU thread keeps its fields.
LEMMA CpuShapeStep == CpuShape /\ [Next]_vars => CpuShape'
<1> SUFFICES ASSUME CpuShape, [Next]_vars PROVE CpuShape'
  OBVIOUS
<1>1. CASE cpu' = cpu
  BY <1>1 DEF CpuShape
<1>2. ASSUME NEW a, cpu' = [AtRest EXCEPT !.at = a] PROVE CpuShape'
  <2>1. cpu' = [at |-> a, voice |-> None, bytes |-> 0]
    BY <1>2 DEF AtRest
  <2> QED
    BY <2>1 DEF CpuShape
<1>9. CASE cpu' = AtRest
  BY <1>9 DEF CpuShape, AtRest
<1>3. CASE cpu' = [cpu EXCEPT !.at = "written"]
  <2>1. cpu' = [at |-> "written", voice |-> cpu.voice, bytes |-> cpu.bytes]
    BY <1>3 DEF CpuShape
  <2> QED
    BY <2>1 DEF CpuShape
<1>4. ASSUME NEW v \in Voice, Submit(v) \/ SLGetPosition(v) PROVE CpuShape'
  <2>1. CASE SLGetPosition(v)
    BY <1>1, <2>1 DEF SLGetPosition
  <2>2. CASE Submit(v)
    <3>1. PICK n \in Writes : cpu' = [at |-> "locked", voice |-> v, bytes |-> Granted(v, n)]
      BY <2>2 DEF Submit, SLLockBuffer
    <3> QED
      BY <3>1 DEF CpuShape
  <2> QED
    BY <1>4, <2>1, <2>2
<1>5. CASE opensles_systemPause \/ opensles_systemResume \/ opensl_destroySoundBuffer \/ Reinitialize
  BY <1>1, <1>2, <1>9, <1>5 DEF opensles_systemPause, opensles_systemResume, opensl_destroySoundBuffer,
     Reinitialize, opensles_systemSetup, opensl_createSoundBuffer
<1>6. CASE Write \/ SLUnlockBuffer \/ _SLMaybeSubmitAndStart
  BY <1>2, <1>9, <1>3, <1>6 DEF Write, SLUnlockBuffer, _SLMaybeSubmitAndStart
<1>7. CASE SystemCallback \/ bqPlayerCallback
  BY <1>1, <1>9, <1>7 DEF SystemCallback, bqPlayerCallback, Mix, Enqueue, Fill, Advance, Return
<1>8. CASE UNCHANGED vars
  BY <1>1, <1>8 DEF vars
<1> QED
  BY <1>4, <1>5, <1>6, <1>7, <1>8 DEF Next, CpuThread

\* A step of the callback that is not its return
LEMMA CallbackControl ==
    ASSUME OneOrTwo, ControlInv, Mix \/ Enqueue \/ Fill \/ Advance
    PROVE  VoicesInv' /\ ThreadInv' /\ BatchInv'
<1>1. cpu' = cpu /\ voices' = voices
  BY DEF Mix, Enqueue, Fill, Advance, lists
<1>2. VoicesInv'
  BY <1>1 DEF ControlInv, VoicesInv, AllVoices
<1>3. CASE Mix
  <2> DEFINE next == NextOf(Head(cb.voices))
             mixed == IF next = None THEN cb.voices ELSE <<Head(cb.voices), next>>
  <2>1. cb' = [at |-> "mixed", thread |-> cb.thread, voices |-> mixed, failed |-> cb.failed] /\ cb.at = "copied"
    BY <1>3 DEF Mix, ControlInv, PlayerInv, CbShape
  <2>2. ASSUME cpu.at = "callback"
        PROVE  mixed \in Seq(Voice) /\ mixed # <<>> /\ \A v \in Voice : \E i \in DOMAIN mixed : mixed[i] = v
    <3>1. voices = AllVoices /\ cb.voices = <<AllVoices[1]>>
      BY <2>1, <2>2 DEF ControlInv, VoicesInv, BatchInv
    <3>2. Head(cb.voices) = AllVoices[1]
      BY <3>1
    <3> QED
      BY <3>1, <3>2, NextCovers
  <2> HIDE DEF mixed
  <2>3. cb'.at = "mixed" /\ cb'.thread = cb.thread /\ cb'.voices = mixed
    BY <2>1
  <2>4. ThreadInv'
    BY <1>1, <2>1, <2>3 DEF ControlInv, ThreadInv
  <2>5. BatchInv'
    BY <1>1, <2>2, <2>3 DEF BatchInv, ToRead
  <2> QED
    BY <1>2, <2>4, <2>5
<1>4. CASE Enqueue \/ Fill
  <2>1. /\ cb.at \in {"mixed", "fill"} /\ cb'.at \in {"fill", "advance"}
        /\ cb'.thread = cb.thread /\ cb'.voices = cb.voices
    <3>1. CASE Fill
      BY <3>1 DEF Fill, ControlInv, PlayerInv, CbShape
    <3>2. CASE Enqueue
      <4>1. cb' = [cb EXCEPT !.at = "fill"] \/ cb' = [cb EXCEPT !.at = "fill", !.failed = TRUE]
        BY <3>2 DEF Enqueue
      <4>2. cb.at = "mixed"
        BY <3>2 DEF Enqueue
      <4> QED
        BY <4>1, <4>2 DEF ControlInv, PlayerInv, CbShape
    <3> QED
      BY <1>4, <3>1, <3>2
  <2> QED
    BY <1>1, <1>2, <2>1 DEF ControlInv, ThreadInv, BatchInv
<1>5. CASE Advance
  <2>1. /\ cb.at = "advance" /\ cb'.at \in {"fill", "done", "failed"}
        /\ cb'.at = "fill" => Len(cb.voices) > 1
        /\ cb'.thread = cb.thread /\ cb'.voices = Tail(cb.voices)
    BY <1>5 DEF Advance, ControlInv, PlayerInv, CbShape
  <2>2. ASSUME cpu.at = "callback", cb'.at = "fill" PROVE Tail(cb.voices) \in Seq(Voice) /\ Tail(cb.voices) # <<>>
    <3>1. cb.voices \in Seq(Voice) /\ cb.voices # <<>> /\ Len(cb.voices) > 1
      BY <2>1, <2>2 DEF ControlInv, BatchInv
    <3> QED
      BY <3>1, TailVoices
  <2>3. ThreadInv'
    BY <1>1, <2>1 DEF ControlInv, ThreadInv
  <2>4. BatchInv'
    BY <1>1, <2>1, <2>2 DEF BatchInv
  <2> QED
    BY <1>2, <2>3, <2>4
<1> QED
  BY <1>2, <1>3, <1>4, <1>5

\* What the CPU thread does besides starting the player leaves the callback alone.
LEMMA CpuControl ==
    ASSUME ControlInv, UNCHANGED cb, voices' = voices, cpu.at # "callback",
           cpu'.at # "callback", cpu'.at \notin {"create", "destroy"}, cpu.at \notin {"create", "destroy"}
    PROVE  VoicesInv' /\ ThreadInv' /\ BatchInv'
BY DEF ControlInv, VoicesInv, ThreadInv, BatchInv, AllVoices

\* The callback and the CPU thread wait for each other, and no voice is left out, in every step.
LEMMA ControlStep == OneOrTwo /\ ControlInv /\ [Next]_vars => ControlInv'
<1> SUFFICES ASSUME OneOrTwo, ControlInv, [Next]_vars PROVE ControlInv'
  OBVIOUS
<1>0. PlayerInv' /\ CpuShape'
  BY PlayerStep, CpuShapeStep DEF ControlInv
<1> SUFFICES VoicesInv' /\ ThreadInv' /\ BatchInv'
  BY <1>0 DEF ControlInv
<1>1. CASE SystemCallback
  <2>1. cpu.at # "callback" /\ cpu' = cpu /\ voices' = voices /\ cb'.thread = "system" /\ cb'.at # "idle"
    BY <1>1 DEF SystemCallback, Begin, Idle, lists
  <2> QED
    BY <2>1 DEF ControlInv, VoicesInv, ThreadInv, BatchInv, AllVoices, None
<1>2. CASE Mix \/ Enqueue \/ Fill \/ Advance
  BY <1>2, CallbackControl
<1>3. CASE Return
  <2>1. cb' = Idle /\ voices' = voices /\ cb.at # "idle" /\ cpu' = IF cb.thread = "cpu" THEN AtRest ELSE cpu
    BY <1>3 DEF Return, lists
  <2>2. cpu'.at # "callback" /\ cb'.thread = None /\ cb'.at = "idle"
    BY <2>1 DEF ControlInv, ThreadInv, Idle, AtRest
  <2>3. VoicesInv'
    BY <2>1 DEF ControlInv, ThreadInv, VoicesInv, AtRest, AllVoices
  <2> QED
    BY <2>2, <2>3 DEF ThreadInv, BatchInv, None
<1>4. CASE _SLMaybeSubmitAndStart
  <2>1. CASE playState = "stopped"
    <3>1. /\ voices = AllVoices /\ voices' = voices /\ voices # <<>>
          /\ cpu' = [at |-> "callback", voice |-> None, bytes |-> 0]
      BY <1>4, <2>1, AllVoicesFacts DEF _SLMaybeSubmitAndStart, ControlInv, VoicesInv, AtRest, lists
    <3>2. cb' = [at |-> "copied", thread |-> "cpu", voices |-> <<Head(voices)>>, failed |-> FALSE]
      BY <1>4, <2>1, <3>1 DEF _SLMaybeSubmitAndStart, Begin, Idle
    <3>3. Head(voices) = AllVoices[1]
      BY <3>1
    <3> QED
      BY <3>1, <3>2, <3>3 DEF VoicesInv, ThreadInv, BatchInv, AllVoices
  <2>2. CASE playState # "stopped"
    BY <1>4, <2>2, CpuControl DEF _SLMaybeSubmitAndStart, AtRest, lists
  <2> QED
    BY <2>1, <2>2
<1>5. CASE opensles_systemPause \/ opensles_systemResume
  BY <1>5, CpuControl DEF opensles_systemPause, opensles_systemResume, AtRest, lists
<1>6. CASE opensl_destroySoundBuffer
  <2>1. cpu'.at = "destroy" /\ UNCHANGED cb /\ cpu.at # "callback"
    BY <1>6 DEF opensl_destroySoundBuffer, AtRest
  <2> QED
    BY <2>1 DEF ControlInv, VoicesInv, ThreadInv, BatchInv
<1>7. CASE opensles_systemSetup
  <2>1. cpu'.at = "create" /\ UNCHANGED cb /\ cpu.at # "callback" /\ voices' = <<>>
    BY <1>7 DEF opensles_systemSetup, AtRest
  <2> QED
    BY <2>1 DEF ControlInv, VoicesInv, ThreadInv, BatchInv
<1>8. CASE opensl_createSoundBuffer
  <2>1. /\ cpu.at = "create" /\ cpu'.at \in {"idle", "create"} /\ UNCHANGED cb
        /\ cpu'.at = "idle" <=> Len(voices') = Len(Owners)
        /\ voices' = <<Owners[Len(voices) + 1]>> \o voices
    BY <1>8 DEF opensl_createSoundBuffer, AtRest
  <2>2. VoicesInv'
    <3>0. Len(Owners) \in {1, 2}
      BY DEF OneOrTwo
    <3>1. CASE voices = <<>>
      <4>1. voices' = <<Owners[1]>> /\ Len(voices') = 1
        BY <2>1, <3>1
      <4> QED
        BY <2>1, <3>0, <4>1 DEF VoicesInv, AllVoices
    <3>2. CASE Len(Owners) = 2 /\ voices = <<Owners[1]>>
      <4>1. Len(voices) = 1
        BY <3>2
      <4>2. voices' = <<Owners[2]>> \o <<Owners[1]>>
        BY <2>1, <3>2, <4>1
      <4>3. voices' = <<Owners[2], Owners[1]>> /\ Len(voices') = 2
        <5>1. <<Owners[2]>> \in Seq(Voice) /\ <<Owners[1]>> \in Seq(Voice)
          BY <3>2 DEF OneOrTwo
        <5>2. /\ voices' \in Seq(Voice) /\ Len(voices') = 2
              /\ voices'[1] = Owners[2] /\ voices'[2] = Owners[1]
          BY <4>2, <5>1, ConcatProperties
        <5> QED
          BY <5>2
      <4>4. cpu'.at = "idle" /\ AllVoices = <<Owners[2], Owners[1]>>
        BY <2>1, <3>2, <4>3 DEF AllVoices
      <4> QED
        BY <4>3, <4>4 DEF VoicesInv, AllVoices
    <3> QED
      BY <2>1, <3>1, <3>2 DEF ControlInv, VoicesInv
  <2> QED
    BY <2>1, <2>2 DEF ControlInv, ThreadInv, BatchInv
<1>9. CASE Write \/ SLUnlockBuffer
  <2>1. CASE Write
    <3>1. cpu' = [at |-> "written", voice |-> cpu.voice, bytes |-> cpu.bytes] /\ cpu.at = "locked"
      BY <2>1 DEF Write, ControlInv, CpuShape
    <3> QED
      BY <2>1, <3>1, CpuControl DEF Write, lists
  <2>2. CASE SLUnlockBuffer
    BY <2>2, CpuControl DEF SLUnlockBuffer, AtRest, lists
  <2> QED
    BY <1>9, <2>1, <2>2
<1>10. ASSUME NEW v \in Voice, Submit(v) \/ SLGetPosition(v) PROVE VoicesInv' /\ ThreadInv' /\ BatchInv'
  BY <1>10, CpuControl DEF Submit, SLLockBuffer, SLGetPosition, lists
<1>11. CASE UNCHANGED vars
  BY <1>11 DEF vars, lists, ControlInv, VoicesInv, ThreadInv, BatchInv, AllVoices, ToRead
<1> QED
  BY <1>1, <1>2, <1>3, <1>4, <1>5, <1>6, <1>7, <1>8, <1>9, <1>10, <1>11
     DEF Next, bqPlayerCallback, CpuThread, Reinitialize

-----------------------------------------------------------------------------
(* How each step moves the distance between the heads                       *)

\* opensles_systemSetup() makes a ring of at least four chunks.
LEMMA Sizes == bufferSize \in Nat /\ submitSize \in Nat /\ submitSize > 0 /\ bufferSize >= 4 * submitSize
  BY RingAssumption

\* A lap more, a lap less, and a lap behind
LEMMA LapArithmetic ==
    ASSUME NEW size \in Nat, NEW l \in Int
    PROVE  /\ l * size \in Int /\ (l + 1) * size = l * size + size /\ (l - 1) * size = l * size - size
           /\ l < 0 => l * size <= -size
<1>1. l * size \in Int /\ (l + 1) * size = l * size + size /\ (l - 1) * size = l * size - size
  OBVIOUS
<1>2. ASSUME l < 0 PROVE l * size <= -size
  <2>1. (l + 1) * size <= 0
    BY <1>2
  <2> QED
    BY <1>1, <2>1
<1> QED
  BY <1>1, <1>2

\* The heads are in the ring, and the distance between them is a number of frames.
LEMMA HeadsTyped ==
    ASSUME RingInv, NEW v \in Voice
    PROVE  /\ writeHead[v] \in 0 .. bufferSize - 1 /\ readHead[v] \in 0 .. bufferSize - 1
           /\ laps[v] \in Int /\ laps[v] <= 1 /\ laps[v] * bufferSize \in Int /\ Ahead(v) \in Int
<1>1. writeHead[v] \in 0 .. bufferSize - 1 /\ readHead[v] \in 0 .. bufferSize - 1 /\ laps[v] \in Int /\ laps[v] <= 1
  BY DEF RingInv
<1>2. laps[v] * bufferSize \in Int
  BY <1>1, Sizes, LapArithmetic
<1> QED
  BY <1>1, <1>2, Sizes DEF Ahead

\* What GetCurrentPosition() counts from the heads and the laps is what is pending, unless the
\* ring is full.
LEMMA Pending ==
    ASSUME RingInv, NEW v \in Voice, Ahead(v) < bufferSize
    PROVE  /\ workingBytes(v) = IF Ahead(v) < 0 THEN 0 ELSE Ahead(v)
           /\ Checked(v).head \in 0 .. bufferSize - 1 /\ Checked(v).laps \in Int /\ Checked(v).laps <= 1
           /\ Checked(v).laps * bufferSize + Checked(v).head - readHead[v] = workingBytes(v)
<1> DEFINE w == writeHead[v]  r == readHead[v]  l == laps[v]
<1>1. w \in 0 .. bufferSize - 1 /\ r \in 0 .. bufferSize - 1 /\ l \in Int /\ l <= 1 /\ l * bufferSize \in Int
  BY HeadsTyped
<1>2. Ahead(v) = l * bufferSize + w - r
  BY DEF Ahead
<1>3. CASE l < 0
  <2>1. l * bufferSize <= -bufferSize
    BY <1>1, <1>3, Sizes, LapArithmetic
  <2>2. Checked(v) = [head |-> r, laps |-> 0]
    BY <1>3 DEF Checked, Underrun
  <2>3. Ahead(v) < 0 /\ workingBytes(v) = 0
    BY <1>1, <1>2, <2>1, <2>2, Sizes DEF workingBytes
  <2> QED
    BY <1>1, <2>2, <2>3, Sizes
<1>4. CASE l = 0 /\ r >= w
  <2>1. Checked(v) = [head |-> r, laps |-> 0]
    BY <1>4 DEF Checked, Underrun
  <2>2. Ahead(v) = w - r /\ workingBytes(v) = 0
    BY <1>1, <1>2, <1>4, <2>1, Sizes DEF workingBytes
  <2> QED
    BY <1>1, <1>4, <2>1, <2>2, Sizes
<1>5. CASE l = 0 /\ r < w
  <2>1. Checked(v) = [head |-> w, laps |-> 0]
    BY <1>1, <1>5 DEF Checked, Underrun
  <2>2. Ahead(v) = w - r /\ workingBytes(v) = w - r
    BY <1>1, <1>2, <1>5, <2>1, Sizes DEF workingBytes
  <2> QED
    BY <1>1, <1>5, <2>1, <2>2, Sizes
<1>6. CASE l = 1
  <2>1. Checked(v) = [head |-> w, laps |-> 1]
    BY <1>6 DEF Checked, Underrun
  <2>2. Ahead(v) = bufferSize + w - r /\ w < r
    BY <1>1, <1>2, <1>6, Sizes
  <2>3. workingBytes(v) = w + bufferSize - r
    BY <1>1, <2>1, <2>2 DEF workingBytes
  <2> QED
    BY <1>1, <2>1, <2>2, <2>3, Sizes
<1> QED
  BY <1>1, <1>3, <1>4, <1>5, <1>6

\* How far the heads of every voice are from each other after a step
Moved(v, distance) ==
    RingInv' /\ \A u \in Voice : Ahead(u)' = IF u = v THEN distance ELSE Ahead(u)

\* Steps that leave heads and laps alone keep every distance.
LEMMA Unmoved ==
    ASSUME RingInv, UNCHANGED <<writeHead, readHead, laps>>
    PROVE  RingInv' /\ \A u \in Voice : Ahead(u)' = Ahead(u)
BY DEF RingInv, Ahead

\* bqPlayerCallback() brings the reader of its voice a chunk nearer, also over the end of the ring.
LEMMA AdvanceMoves ==
    ASSUME RingInv, Advance
    PROVE  Moved(Head(cb.voices), Ahead(Head(cb.voices)) - submitSize)
<1> DEFINE v == Head(cb.voices)
<1>1. /\ readHead' = [readHead EXCEPT ![v] = IF Crosses(v) THEN @ + submitSize - bufferSize ELSE @ + submitSize]
      /\ laps' = [laps EXCEPT ![v] = IF Crosses(v) THEN @ - 1 ELSE @] /\ writeHead' = writeHead
  BY DEF Advance, Wraps
<1> HIDE DEF v
<1>2. ASSUME NEW u \in Voice
      PROVE  /\ readHead'[u] \in 0 .. bufferSize - 1 /\ laps'[u] \in Int /\ laps'[u] <= 1
             /\ Ahead(u)' = IF u = v THEN Ahead(v) - submitSize ELSE Ahead(u)
  <2>1. /\ readHead'[u] =
              IF u = v THEN (IF Crosses(v) THEN readHead[v] + submitSize - bufferSize ELSE readHead[v] + submitSize) ELSE readHead[u]
        /\ laps'[u] = IF u = v /\ Crosses(v) THEN laps[v] - 1 ELSE laps[u]
        /\ writeHead'[u] = writeHead[u]
    BY <1>1 DEF RingInv
  <2>2. /\ writeHead[u] \in 0 .. bufferSize - 1 /\ readHead[u] \in 0 .. bufferSize - 1
        /\ laps[u] \in Int /\ laps[u] <= 1 /\ laps[u] * bufferSize \in Int
    BY HeadsTyped
  <2>3. (laps[u] - 1) * bufferSize = laps[u] * bufferSize - bufferSize
    BY <2>2, Sizes, LapArithmetic
  <2>4. Ahead(u) = laps[u] * bufferSize + writeHead[u] - readHead[u]
    BY DEF Ahead
  <2>5. Ahead(u)' = laps'[u] * bufferSize + writeHead[u] - readHead'[u]
    BY <2>1 DEF Ahead
  <2>6. CASE u = v /\ Crosses(v)
    <3>1. /\ readHead'[u] = readHead[u] + submitSize - bufferSize /\ laps'[u] = laps[u] - 1
          /\ readHead[u] + submitSize >= bufferSize
      BY <2>1, <2>6 DEF Crosses
    <3>2. Ahead(u)' = laps[u] * bufferSize - bufferSize + writeHead[u] - (readHead[u] + submitSize - bufferSize)
      BY <2>3, <2>5, <3>1
    <3> HIDE DEF v
    <3> QED
      BY <2>2, <2>4, <2>6, <3>1, <3>2, Sizes
  <2>7. CASE u = v /\ ~Crosses(v)
    <3>1. readHead'[u] = readHead[u] + submitSize /\ laps'[u] = laps[u] /\ ~(readHead[u] + submitSize >= bufferSize)
      BY <2>1, <2>7 DEF Crosses
    <3> QED
      BY <2>2, <2>4, <2>5, <2>7, <3>1, Sizes
  <2>8. CASE u # v
    BY <2>1, <2>2, <2>4, <2>5, <2>8
  <2> QED
    BY <2>6, <2>7, <2>8
<1>3. readHead' \in [Voice -> 0 .. bufferSize - 1] /\ laps' \in [Voice -> {l \in Int : l <= 1}]
  BY <1>1, <1>2 DEF RingInv
<1> QED
  BY <1>1, <1>2, <1>3 DEF Moved, RingInv, v

\* _underrun_check_and_manage() leaves the distance that it counts.
LEMMA CheckMoves ==
    ASSUME RingInv, NEW v \in Voice, Ahead(v) < bufferSize,
           _underrun_check_and_manage(v), readHead' = readHead
    PROVE  Moved(v, workingBytes(v)) /\ writeHead'[v] = Checked(v).head
<1>1. writeHead' = [writeHead EXCEPT ![v] = Checked(v).head] /\ laps' = [laps EXCEPT ![v] = Checked(v).laps]
  BY DEF _underrun_check_and_manage
<1>2. /\ Checked(v).head \in 0 .. bufferSize - 1 /\ Checked(v).laps \in Int /\ Checked(v).laps <= 1
      /\ Checked(v).laps * bufferSize + Checked(v).head - readHead[v] = workingBytes(v)
  BY Pending
<1>3. RingInv' /\ writeHead'[v] = Checked(v).head /\ laps'[v] = Checked(v).laps
  BY <1>1, <1>2 DEF RingInv
<1>4. \A u \in Voice : u # v => Ahead(u)' = Ahead(u)
  BY <1>1 DEF RingInv, Ahead
<1>5. Ahead(v)' = workingBytes(v)
  BY <1>2, <1>3 DEF Ahead
<1> QED
  BY <1>3, <1>4, <1>5 DEF Moved

\* SLUnlockBuffer() adds what was written, also over the end of the ring.
LEMMA UnlockMoves ==
    ASSUME RingInv, NEW v \in Voice, NEW n \in Nat, n > 0, Ahead(v) + n <= bufferSize,
           writeHead[v] + n <= bufferSize + submitSize, Unlocked(v, n), readHead' = readHead
    PROVE  Moved(v, Ahead(v) + n)
<1>1. /\ writeHead[v] \in 0 .. bufferSize - 1 /\ readHead[v] \in 0 .. bufferSize - 1
      /\ laps[v] \in Int /\ laps[v] <= 1 /\ laps[v] * bufferSize \in Int
  BY HeadsTyped
<1>2. Ahead(v) = laps[v] * bufferSize + writeHead[v] - readHead[v]
  BY DEF Ahead
<1>3. CASE writeHead[v] + n >= bufferSize
  <2>1. writeHead' = [writeHead EXCEPT ![v] = (writeHead[v] + n) - bufferSize] /\ laps' = [laps EXCEPT ![v] = @ + 1]
    <3>1. ~(writeHead[v] + n < bufferSize)
      BY <1>1, <1>3, Sizes
    <3> DEFINE head == writeHead[v] + n
    <3>2. \/ writeHead' = [writeHead EXCEPT ![v] = head - bufferSize] /\ laps' = [laps EXCEPT ![v] = laps[v] + 1]
          \/ head < bufferSize
      BY DEF Unlocked
    <3> QED
      BY <3>1, <3>2
  <2>2. laps[v] # 1
    <3> SUFFICES ASSUME laps[v] = 1 PROVE FALSE
      OBVIOUS
    <3>1. Ahead(v) = bufferSize + writeHead[v] - readHead[v]
      BY <1>1, <1>2, Sizes
    <3> QED
      BY <1>1, <1>3, <3>1, Sizes
  <2>3. laps[v] + 1 \in Int /\ laps[v] + 1 <= 1 /\ (writeHead[v] + n) - bufferSize \in 0 .. bufferSize - 1
    BY <1>1, <1>3, <2>2, Sizes
  <2>4. RingInv' /\ writeHead'[v] = (writeHead[v] + n) - bufferSize /\ laps'[v] = laps[v] + 1
    BY <2>1, <2>3 DEF RingInv
  <2>5. \A u \in Voice : u # v => Ahead(u)' = Ahead(u)
    BY <2>1 DEF RingInv, Ahead
  <2>6. (laps[v] + 1) * bufferSize = laps[v] * bufferSize + bufferSize
    BY <1>1, Sizes, LapArithmetic
  <2>7. Ahead(v)' = (laps[v] + 1) * bufferSize + ((writeHead[v] + n) - bufferSize) - readHead[v]
    BY <2>4 DEF Ahead
  <2>8. Ahead(v)' = Ahead(v) + n
    BY <1>1, <1>2, <2>6, <2>7, Sizes
  <2> QED
    BY <2>4, <2>5, <2>8 DEF Moved
<1>4. CASE writeHead[v] + n < bufferSize
  <2>1. writeHead' = [writeHead EXCEPT ![v] = writeHead[v] + n] /\ laps' = laps
    BY <1>1, <1>4, Sizes DEF Unlocked
  <2>2. writeHead[v] + n \in 0 .. bufferSize - 1
    BY <1>1, <1>4, Sizes
  <2>3. RingInv' /\ writeHead'[v] = writeHead[v] + n
    BY <2>1, <2>2 DEF RingInv
  <2>4. \A u \in Voice : u # v => Ahead(u)' = Ahead(u)
    BY <2>1 DEF RingInv, Ahead
  <2>5. Ahead(v)' = laps[v] * bufferSize + (writeHead[v] + n) - readHead[v]
    BY <2>1, <2>3 DEF Ahead
  <2>6. Ahead(v)' = Ahead(v) + n
    BY <1>1, <1>2, <2>5
  <2> QED
    BY <2>3, <2>4, <2>6 DEF Moved
<1> QED
  BY <1>1, <1>3, <1>4, Sizes

\* opensl_createSoundBuffer() makes an empty ring.
LEMMA CreateMoves ==
    ASSUME RingInv, opensl_createSoundBuffer
    PROVE  RingInv' /\ \A u \in Voice : Ahead(u)' = Ahead(u) \/ Ahead(u)' = 0
<1> DEFINE v == Owners[Len(voices) + 1]
<1>1. /\ writeHead' = [writeHead EXCEPT ![v] = 0] /\ readHead' = [readHead EXCEPT ![v] = 0]
      /\ laps' = [laps EXCEPT ![v] = 0]
  BY DEF opensl_createSoundBuffer
<1> HIDE DEF v
<1>2. RingInv'
  <2>1. 0 \in 0 .. bufferSize - 1 /\ 0 \in {l \in Int : l <= 1}
    BY Sizes
  <2>2. writeHead' \in [Voice -> 0 .. bufferSize - 1]
    BY <1>1, <2>1 DEF RingInv
  <2>3. readHead' \in [Voice -> 0 .. bufferSize - 1]
    BY <1>1, <2>1 DEF RingInv
  <2>4. laps' \in [Voice -> {l \in Int : l <= 1}]
    BY <1>1, <2>1 DEF RingInv
  <2> QED
    BY <2>2, <2>3, <2>4 DEF RingInv
<1>3. ASSUME NEW u \in Voice PROVE Ahead(u)' = Ahead(u) \/ Ahead(u)' = 0
  <2>1. CASE u = v
    BY <1>1, <2>1, Sizes DEF RingInv, Ahead
  <2>2. CASE u # v
    BY <1>1, <2>2 DEF RingInv, Ahead
  <2> QED
    BY <2>1, <2>2
<1> QED
  BY <1>2, <1>3

-----------------------------------------------------------------------------
(* The accounts stay right                                                  *)

\* All rings are empty at the start.
LEMMA AccountInit == OneOrTwo /\ FrameLeft /\ Init => AccountInv
<1> SUFFICES ASSUME OneOrTwo, Init PROVE AccountInv
  OBVIOUS
<1>1. ControlInv
  BY ControlInit
<1>2. RingInv
  <2>1. 0 \in 0 .. bufferSize - 1 /\ 0 \in {l \in Int : l <= 1}
    BY Sizes
  <2> QED
    BY <2>1 DEF Init, RingInv
<1>3. \A v \in Voice : Ahead(v) = 0
  BY Sizes DEF Init, Ahead
<1>4. FilledInv
  BY <1>3, Sizes DEF FilledInv
<1>5. GrantInv
  BY DEF Init, GrantInv, AtRest
<1> QED
  BY <1>1, <1>2, <1>4, <1>5 DEF AccountInv, ControlInv

\* Steps that leave the heads alone, and neither start a player nor grant anything
LEMMA QuietAccount ==
    ASSUME AccountInv, UNCHANGED <<writeHead, readHead, laps>>,
           \A v \in Voice : Starting(v) => Starting(v)',
           cpu'.at \in {"locked", "written"} =>
               cpu.at \in {"locked", "written"} /\ cpu'.voice = cpu.voice /\ cpu'.bytes = cpu.bytes,
           playState = "stopped" /\ cpu.at \in {"locked", "written"} => playState' = "stopped"
    PROVE  RingInv' /\ FilledInv' /\ GrantInv'
<1>1. RingInv' /\ \A u \in Voice : Ahead(u)' = Ahead(u)
  BY Unmoved DEF AccountInv
<1>2. FilledInv'
  BY <1>1 DEF AccountInv, FilledInv
<1>3. GrantInv'
  <2> SUFFICES ASSUME cpu'.at \in {"locked", "written"}
               PROVE  \E v \in Voice, n \in Nat \ {0} : cpu'.voice = v /\ cpu'.bytes = n /\ Fits(v, n)'
    BY DEF GrantInv
  <2>1. PICK v \in Voice, n \in Nat \ {0} : cpu.voice = v /\ cpu.bytes = n /\ Fits(v, n)
    BY DEF AccountInv, GrantInv
  <2>2. Fits(v, n)'
    <3>1. Ahead(v)' = Ahead(v) /\ writeHead'[v] = writeHead[v]
      BY <1>1
    <3> QED
      BY <2>1, <3>1 DEF Fits
  <2> QED
    BY <2>1, <2>2
<1> QED
  BY <1>1, <1>2, <1>3

\* A call of the callback takes a chunk of its voice off the account.
LEMMA AdvanceAccount ==
    ASSUME AccountInv, Advance
    PROVE  RingInv' /\ FilledInv' /\ GrantInv'
<1> DEFINE v == Head(cb.voices)
<1>1. RingInv' /\ \A u \in Voice : Ahead(u)' = IF u = v THEN Ahead(v) - submitSize ELSE Ahead(u)
  BY AdvanceMoves DEF AccountInv, Moved
<1>2. \A u \in Voice : Ahead(u) \in Int
  BY HeadsTyped DEF AccountInv
<1>3. /\ cb.at = "advance" /\ cb' = [cb EXCEPT !.voices = Tail(@),
                 !.at = IF Len(cb.voices) > 1 THEN "fill" ELSE IF cb.failed THEN "failed" ELSE "done"]
      /\ cpu' = cpu /\ playState' = playState /\ writeHead' = writeHead
  BY DEF Advance
<1>4. FilledInv'
  <2> SUFFICES ASSUME NEW u \in Voice
               PROVE  Ahead(u)' < bufferSize \/ (Ahead(u)' = bufferSize /\ Starting(u)')
    BY DEF FilledInv
  <2>1. Ahead(u) < bufferSize \/ (Ahead(u) = bufferSize /\ Starting(u))
    BY DEF AccountInv, FilledInv
  <2>2. CASE u = v
    BY <1>1, <1>2, <2>1, <2>2, Sizes
  <2>3. CASE u # v /\ Ahead(u) < bufferSize
    BY <1>1, <2>3
  <2>4. CASE u # v /\ Ahead(u) = bufferSize /\ Starting(u)
    <3>1. CASE cpu.at = "unlocked" /\ playState = "stopped"
      BY <1>1, <1>3, <2>4, <3>1 DEF Starting
    <3>2. CASE cpu.at = "callback" /\ ToRead(u)
      <4>1. cb.voices \in Seq(Voice) /\ cb.voices # <<>>
        BY <1>3, <3>2 DEF AccountInv, BatchInv
      <4>2. PICK i \in DOMAIN cb.voices : cb.voices[i] = u
        BY <3>2 DEF ToRead
      <4>3. i \in 2 .. Len(cb.voices)
        BY <2>4, <4>1, <4>2, LenProperties
      <4>4. /\ Tail(cb.voices) \in Seq(Voice) /\ Len(Tail(cb.voices)) = Len(cb.voices) - 1
            /\ \A j \in 1 .. Len(Tail(cb.voices)) : Tail(cb.voices)[j] = cb.voices[j+1]
        BY <4>1, HeadTailProperties
      <4>5. Len(cb.voices) \in Nat /\ Len(cb.voices) > 1 /\ i - 1 \in 1 .. Len(Tail(cb.voices))
        BY <4>1, <4>3, <4>4, LenProperties
      <4>6. i - 1 \in DOMAIN Tail(cb.voices) /\ Tail(cb.voices)[i - 1] = u
        BY <4>2, <4>3, <4>4, <4>5, LenProperties
      <4>7. cb'.at = "fill" /\ cb'.voices = Tail(cb.voices)
        BY <1>3, <4>5 DEF AccountInv, PlayerInv, CbShape
      <4>8. ToRead(u)'
        BY <4>6, <4>7 DEF ToRead
      <4> QED
        BY <1>1, <1>3, <2>4, <3>2, <4>7, <4>8 DEF Starting
    <3> QED
      BY <1>3, <2>4, <3>1, <3>2 DEF Starting
  <2> QED
    BY <2>1, <2>2, <2>3, <2>4
<1>5. GrantInv'
  <2> SUFFICES ASSUME cpu.at \in {"locked", "written"}
               PROVE  \E u \in Voice, n \in Nat \ {0} : cpu.voice = u /\ cpu.bytes = n /\ Fits(u, n)'
    BY <1>3 DEF GrantInv
  <2>1. PICK u \in Voice, n \in Nat \ {0} : cpu.voice = u /\ cpu.bytes = n /\ Fits(u, n)
    BY DEF AccountInv, GrantInv
  <2>2. PICK before \in Int : before = Ahead(u)
    BY <1>2
  <2>3. Ahead(u)' = before \/ Ahead(u)' = before - submitSize
    BY <1>1, <2>2
  <2>4. Fits(u, n)'
    BY <1>3, <2>1, <2>2, <2>3, Sizes DEF Fits
  <2> QED
    BY <2>1, <2>4
<1> QED
  BY <1>1, <1>4, <1>5

\* GetCurrentPosition() and Lock() resynchronise their voice.
LEMMA CheckAccount ==
    ASSUME AccountInv, cpu.at = "idle", NEW v \in Voice, _underrun_check_and_manage(v), readHead' = readHead
    PROVE  /\ RingInv' /\ FilledInv' /\ writeHead'[v] = Checked(v).head
           /\ Ahead(v)' = workingBytes(v) /\ Ahead(v)' \in Nat /\ Ahead(v)' < bufferSize
           /\ Checked(v).head \in 0 .. bufferSize - 1
<1>1. \A u \in Voice : Ahead(u) \in Int /\ Ahead(u) < bufferSize
  BY HeadsTyped DEF AccountInv, FilledInv, Starting
<1>2. Moved(v, workingBytes(v)) /\ writeHead'[v] = Checked(v).head
  BY <1>1, CheckMoves DEF AccountInv
<1>3. /\ workingBytes(v) = IF Ahead(v) < 0 THEN 0 ELSE Ahead(v)
      /\ Checked(v).head \in 0 .. bufferSize - 1
  BY <1>1, Pending DEF AccountInv
<1>4. workingBytes(v) \in Nat /\ workingBytes(v) < bufferSize
  BY <1>1, <1>3, Sizes
<1>5. Ahead(v)' = workingBytes(v) /\ \A u \in Voice : Ahead(u)' < bufferSize
  BY <1>1, <1>2, <1>4 DEF Moved
<1> QED
  BY <1>2, <1>3, <1>4, <1>5 DEF Moved, FilledInv

\* SLLockBuffer() grants no more than the ring and its overflow have room for.
LEMMA LockAccount ==
    ASSUME FrameLeft, AccountInv, NEW v \in Voice, NEW m \in Writes, SLLockBuffer(v, m)
    PROVE  RingInv' /\ FilledInv' /\ GrantInv'
<1> DEFINE granted == Granted(v, m)
<1>1. /\ cpu.at = "idle" /\ granted > 0 /\ workingBytes(v) + granted <= Room /\ _underrun_check_and_manage(v)
      /\ cpu' = [at |-> "locked", voice |-> v, bytes |-> granted] /\ readHead' = readHead /\ playState' = playState
  BY DEF SLLockBuffer
<1>2. /\ RingInv' /\ FilledInv' /\ writeHead'[v] = Checked(v).head
      /\ Ahead(v)' = workingBytes(v) /\ Ahead(v)' \in Nat
      /\ Checked(v).head \in 0 .. bufferSize - 1
  BY <1>1, CheckAccount
<1>3. granted \in Nat \ {0} /\ granted <= bufferSize + submitSize - Checked(v).head
  <2>1. PICK pending \in Nat : pending = workingBytes(v)
    BY <1>2
  <2>2. PICK head \in 0 .. bufferSize - 1 : head = Checked(v).head
    BY <1>2
  <2>3. m \in Nat
    BY RingAssumption
  <2>4. granted = Smaller(m, Smaller(bufferSize - pending, bufferSize + submitSize - head))
    BY <2>1, <2>2 DEF Granted
  <2>5. granted \in Int /\ granted <= bufferSize + submitSize - head
    BY <2>3, <2>4, Sizes DEF Smaller
  <2> HIDE DEF granted
  <2> QED
    BY <1>1, <2>2, <2>5
<1>7. PICK n \in Nat \ {0} : n = granted
  BY <1>3
<1> HIDE DEF granted
<1>4. (Room = bufferSize /\ playState = "stopped") \/ Room < bufferSize
  BY DEF Room, FrameLeft
<1>5. Room \in Nat
  BY Sizes, RingAssumption DEF Room
<1>6. Fits(v, n)'
  <2>1. PICK pending \in Nat : pending = workingBytes(v) /\ pending = Ahead(v)'
    BY <1>2
  <2>2. PICK head \in 0 .. bufferSize - 1 : head = Checked(v).head /\ head = writeHead'[v]
    BY <1>2
  <2>3. head + n <= bufferSize + submitSize
    BY <1>3, <1>7, <2>2, Sizes
  <2>4. pending + n < bufferSize \/ (pending + n = bufferSize /\ playState = "stopped")
    BY <1>1, <1>3, <1>4, <1>5, <1>7, <2>1, Sizes
  <2> QED
    BY <1>1, <2>1, <2>2, <2>3, <2>4 DEF Fits
<1>8. GrantInv'
  BY <1>1, <1>6, <1>7 DEF GrantInv
<1> QED
  BY <1>2, <1>8

\* SLUnlockBuffer() makes pending what was granted.
LEMMA UnlockAccount ==
    ASSUME AccountInv, SLUnlockBuffer
    PROVE  RingInv' /\ FilledInv' /\ GrantInv'
<1>1. /\ cpu.at = "written" /\ Unlocked(cpu.voice, cpu.bytes) /\ cpu'.at = "unlocked"
      /\ readHead' = readHead /\ playState' = playState
  BY DEF SLUnlockBuffer, AtRest
<1>2. PICK v \in Voice, n \in Nat \ {0} : cpu.voice = v /\ cpu.bytes = n /\ Fits(v, n)
  BY <1>1 DEF AccountInv, GrantInv
<1>3. \A u \in Voice : Ahead(u) \in Int
  BY HeadsTyped DEF AccountInv
<1>4. /\ n \in Nat /\ n > 0 /\ Ahead(v) + n <= bufferSize /\ writeHead[v] + n <= bufferSize + submitSize
      /\ Unlocked(v, n)
  BY <1>1, <1>2, <1>3, Sizes DEF Fits
<1>5. Moved(v, Ahead(v) + n)
  BY <1>1, <1>4, UnlockMoves DEF AccountInv
<1>6. FilledInv'
  <2> SUFFICES ASSUME NEW u \in Voice
               PROVE  Ahead(u)' < bufferSize \/ (Ahead(u)' = bufferSize /\ Starting(u)')
    BY DEF FilledInv
  <2>1. Ahead(u) < bufferSize
    BY <1>1 DEF AccountInv, FilledInv, Starting
  <2>2. CASE u = v
    <3>1. Ahead(u)' = Ahead(v) + n
      BY <1>5, <2>2 DEF Moved
    <3> QED
      BY <1>1, <1>2, <3>1 DEF Fits, Starting
  <2>3. CASE u # v
    BY <1>5, <2>1, <2>3 DEF Moved
  <2> QED
    BY <2>2, <2>3
<1>7. GrantInv'
  BY <1>1 DEF GrantInv
<1> QED
  BY <1>5, <1>6, <1>7 DEF Moved

\* Steps of the callback that take nothing off the account
LEMMA CallbackAccount ==
    ASSUME OneOrTwo, AccountInv, ControlInv', SystemCallback \/ Mix \/ Enqueue \/ Fill \/ Return
    PROVE  RingInv' /\ FilledInv' /\ GrantInv'
<1>1. UNCHANGED <<writeHead, readHead, laps>>
  BY DEF SystemCallback, Mix, Enqueue, Fill, Return, rings, ring
<1>2. ASSUME cpu' = cpu, playState' = playState, \A v \in Voice : Starting(v) => Starting(v)'
      PROVE  RingInv' /\ FilledInv' /\ GrantInv'
  BY <1>1, <1>2, QuietAccount
<1>3. CASE SystemCallback
  <2>1. cpu' = cpu /\ playState' = playState /\ playState # "stopped" /\ cpu.at # "callback"
    BY <1>3 DEF SystemCallback
  <2> QED
    BY <1>2, <2>1 DEF Starting
<1>4. CASE Mix
  <2>1. cpu' = cpu /\ playState' = playState /\ cb.at = "copied" /\ cb'.at = "mixed"
    BY <1>4 DEF Mix, AccountInv, PlayerInv, CbShape
  <2>2. cpu'.at = "callback" => \A v \in Voice : ToRead(v)'
    BY <2>1 DEF ControlInv, BatchInv
  <2> QED
    BY <1>2, <2>1, <2>2 DEF Starting
<1>5. CASE Enqueue
  <2>1. cpu' = cpu /\ playState' = playState /\ cb.at = "mixed"
    BY <1>5 DEF Enqueue
  <2>2. cb' = [cb EXCEPT !.at = "fill"] \/ cb' = [cb EXCEPT !.at = "fill", !.failed = TRUE]
    BY <1>5 DEF Enqueue
  <2>3. cb'.at = "fill" /\ cb'.voices = cb.voices
    BY <2>2 DEF AccountInv, PlayerInv, CbShape
  <2> QED
    BY <1>2, <2>1, <2>3 DEF Starting, ToRead
<1>6. CASE Fill
  <2>1. cpu' = cpu /\ playState' = playState /\ cb.at = "fill" /\ cb'.at = "advance" /\ cb'.voices = cb.voices
    BY <1>6 DEF Fill, AccountInv, PlayerInv, CbShape
  <2> QED
    BY <1>2, <2>1 DEF Starting, ToRead
<1>7. CASE Return
  <2>1. /\ cb.at \in {"done", "failed"} /\ cpu' = (IF cb.thread = "cpu" THEN AtRest ELSE cpu)
        /\ playState = "stopped" => playState' = "stopped"
    BY <1>7 DEF Return
  <2>2. cpu' = cpu \/ (cpu.at = "callback" /\ cpu'.at = "idle")
    BY <2>1 DEF AccountInv, ThreadInv, AtRest
  <2>3. \A v \in Voice : Starting(v) => Starting(v)'
    BY <2>1, <2>2 DEF Starting
  <2> QED
    BY <1>1, <2>1, <2>2, <2>3, QuietAccount
<1> QED
  BY <1>3, <1>4, <1>5, <1>6, <1>7

\* Every step of either thread keeps the accounts.
LEMMA AccountStep == OneOrTwo /\ FrameLeft /\ AccountInv /\ [Next]_vars => AccountInv'
<1> SUFFICES ASSUME OneOrTwo, FrameLeft, ControlInv, AccountInv, [Next]_vars PROVE AccountInv'
  BY DEF AccountInv, ControlInv
<1>0. ControlInv'
  BY ControlStep
<1> SUFFICES RingInv' /\ FilledInv' /\ GrantInv'
  BY <1>0 DEF AccountInv, ControlInv
<1>1. CASE SystemCallback \/ Mix \/ Enqueue \/ Fill \/ Return
  BY <1>0, <1>1, CallbackAccount
<1>2. CASE Advance
  BY <1>2, AdvanceAccount
<1>3. ASSUME NEW v \in Voice, Submit(v) PROVE RingInv' /\ FilledInv' /\ GrantInv'
  BY <1>3, LockAccount DEF Submit
<1>4. ASSUME NEW v \in Voice, SLGetPosition(v) PROVE RingInv' /\ FilledInv' /\ GrantInv'
  BY <1>4, CheckAccount DEF SLGetPosition, GrantInv
<1>5. CASE SLUnlockBuffer
  BY <1>5, UnlockAccount
<1>6. CASE Write
  <2>1. /\ cpu' = [at |-> "written", voice |-> cpu.voice, bytes |-> cpu.bytes] /\ cpu.at = "locked"
        /\ UNCHANGED <<writeHead, readHead, laps>> /\ playState' = playState
    BY <1>6 DEF Write, ControlInv, CpuShape
  <2>2. \A v \in Voice : Starting(v) => Starting(v)'
    BY <2>1 DEF Starting
  <2> QED
    BY <2>1, <2>2, QuietAccount
<1>7. CASE _SLMaybeSubmitAndStart
  <2>1. UNCHANGED <<writeHead, readHead, laps>> /\ cpu.at = "unlocked" /\ cpu'.at \in {"callback", "idle"}
    BY <1>7 DEF _SLMaybeSubmitAndStart, rings, ring, AtRest
  <2>2. \A v \in Voice : Starting(v) => Starting(v)'
    <3>1. CASE playState = "stopped"
      <4>1. voices # <<>>
        BY <2>1, AllVoicesFacts DEF AccountInv, VoicesInv
      <4>2. /\ cpu'.at = "callback"
            /\ cb' = [at |-> "copied", thread |-> "cpu", voices |-> <<Head(voices)>>, failed |-> FALSE]
        BY <1>7, <3>1, <4>1 DEF _SLMaybeSubmitAndStart, Begin, Idle, AtRest
      <4> QED
        BY <4>2 DEF Starting
    <3>2. CASE playState # "stopped"
      BY <2>1, <3>2 DEF Starting
    <3> QED
      BY <3>1, <3>2
  <2> QED
    BY <2>1, <2>2, QuietAccount
<1>8. CASE opensles_systemPause \/ opensles_systemResume \/ opensl_destroySoundBuffer \/ opensles_systemSetup
  <2>1. /\ UNCHANGED <<writeHead, readHead, laps>> /\ cpu.at \in {"idle", "resume", "destroy"}
        /\ cpu'.at \in {"idle", "resume", "destroy", "create"}
    BY <1>8 DEF opensles_systemPause, opensles_systemResume, opensl_destroySoundBuffer, opensles_systemSetup,
       rings, ring, AtRest
  <2>2. \A v \in Voice : Starting(v) => Starting(v)'
    BY <2>1 DEF Starting
  <2> QED
    BY <2>1, <2>2, QuietAccount
<1>9. CASE opensl_createSoundBuffer
  <2>1. RingInv' /\ \A u \in Voice : Ahead(u)' = Ahead(u) \/ Ahead(u)' = 0
    BY <1>9, CreateMoves DEF AccountInv
  <2>2. cpu.at = "create" /\ cpu'.at \in {"create", "idle"}
    BY <1>9 DEF opensl_createSoundBuffer, AtRest
  <2>3. \A u \in Voice : Ahead(u) < bufferSize
    BY <2>2 DEF AccountInv, FilledInv, Starting
  <2>4. FilledInv'
    BY <2>1, <2>3, Sizes DEF FilledInv
  <2> QED
    BY <2>1, <2>2, <2>4 DEF GrantInv
<1>10. CASE UNCHANGED vars
  <2>1. UNCHANGED <<writeHead, readHead, laps>> /\ cpu' = cpu /\ playState' = playState /\ cb' = cb
    BY <1>10 DEF vars, rings, ring
  <2> QED
    BY <2>1, QuietAccount DEF Starting, ToRead
<1> QED
  BY <1>1, <1>2, <1>3, <1>4, <1>5, <1>6, <1>7, <1>8, <1>9, <1>10
     DEF Next, bqPlayerCallback, CpuThread, Reinitialize

\* The accounts are right in every reachable state.
LEMMA AccountAlways == OneOrTwo /\ FrameLeft => (Spec => []AccountInv)
<1> SUFFICES ASSUME OneOrTwo /\ FrameLeft PROVE Spec => []AccountInv
  OBVIOUS
<1>1. Init => AccountInv
  BY AccountInit
<1>2. AccountInv /\ [Next]_vars => AccountInv'
  BY AccountStep
<1> QED
  BY <1>1, <1>2, PTL DEF Spec

\* SLGetPosition() (soundcore-opensles.c:214) answers what is pending in a ring of any size: the laps
\* tell a full ring from an empty one, as owners leave a frame free when the player is not stopped, and
\* as a callback takes a chunk of every ring before a started player lets the CPU thread go on.
THEOREM AccountIsPending == OneOrTwo /\ FrameLeft => (Spec => []PositionIsPending)
<1> SUFFICES ASSUME OneOrTwo /\ FrameLeft PROVE Spec => []PositionIsPending
  OBVIOUS
<1>1. AccountInv => PositionIsPending
  BY Pending DEF AccountInv, FilledInv, Starting, PositionIsPending
<1> QED
  BY <1>1, AccountAlways, PTL

\* SLUnlockBuffer() (soundcore-opensles.c:322) is never given more than the ring and its overflow hold,
\* nor more than what the reader has left behind, while the reader moves between Lock and Unlock.
THEOREM GrantFits == OneOrTwo /\ FrameLeft => (Spec => []OverflowAssertion)
<1> SUFFICES ASSUME OneOrTwo /\ FrameLeft PROVE Spec => []OverflowAssertion
  OBVIOUS
<1>1. AccountInv => OverflowAssertion
  <2> SUFFICES ASSUME AccountInv, cpu.at \in {"locked", "written"}
               PROVE  /\ writeHead[cpu.voice] + cpu.bytes <= bufferSize + submitSize
                      /\ Ahead(cpu.voice) + cpu.bytes <= bufferSize
    BY DEF OverflowAssertion
  <2>1. PICK v \in Voice, n \in Nat \ {0} : cpu.voice = v /\ cpu.bytes = n /\ Fits(v, n)
    BY DEF AccountInv, GrantInv
  <2>2. Ahead(v) \in Int
    BY HeadsTyped DEF AccountInv
  <2> QED
    BY <2>1, <2>2, Sizes DEF Fits
<1> QED
  BY <1>1, AccountAlways, PTL

-----------------------------------------------------------------------------
(* Where a ring keeps a frame                                               *)

\* The cell of the frame that is k frames ahead of the reader at r
Main(r, k) == IF r + k < bufferSize THEN r + k ELSE r + k - bufferSize

\* The reader may come to this frame before it goes on at the beginning: then it is read from the
\* overflow.  In a chunk that reaches the end only the frames of this chunk are.
Doubled(r, k) ==
    /\ r + k >= bufferSize /\ r + k < bufferSize + submitSize
    /\ k < submitSize \/ r + submitSize < bufferSize

\* Of the frames from `first' to the writer, `ahead' frames away, no cell but that of frame d has a
\* sample ...
NoOther(r, ahead, first, cells, d) ==
    \A k \in first .. ahead - 1 :
        /\ Main(r, k) \in cells => d = k
        /\ Doubled(r, k) /\ r + k \in cells => d = k

\* ... and it has, wherever it may be read.
Has(r, ahead, first, cells, d) ==
    d \in first .. ahead - 1 => /\ Main(r, d) \in cells
                                /\ Doubled(r, d) => r + d \in cells

\* The same of n cells from w that are written, and not yet unlocked
NoOtherWritten(w, n, ahead, first, cells, d) ==
    \A i \in 0 .. n - 1 : ahead + i >= first /\ w + i \in cells => d = ahead + i

HasWritten(w, n, ahead, first, cells, d) ==
    ahead <= d /\ d < ahead + n /\ first <= d => w + (d - ahead) \in cells

\* The laps between the heads
Laps(w, r, ahead) ==
    \/ ahead = w - r + bufferSize \/ ahead = w - r \/ ahead = w - r - bufferSize
    \/ ahead <= w - r - 2 * bufferSize

\* What is silenced when a chunk has been copied
Quieted(r) ==
    IF r + submitSize >= bufferSize
    THEN Span(r, submitSize) \cup Span(bufferSize, submitSize) \cup Span(0, r + submitSize - bufferSize)
    ELSE Span(r, submitSize)

\* Nothing behind the chunk is silenced: neither in its cells nor where it will be read.
LEMMA FillKeeps ==
    ASSUME NEW r \in 0 .. bufferSize - 1, NEW ahead \in Int, ahead <= bufferSize, NEW cells, NEW d \in Int,
           Has(r, ahead, submitSize, cells, d)
    PROVE  Has(r, ahead, submitSize, cells \ Quieted(r), d)
<1> SUFFICES ASSUME d \in submitSize .. ahead - 1
             PROVE  Main(r, d) \notin Quieted(r) /\ (Doubled(r, d) => r + d \notin Quieted(r))
  BY DEF Has
<1>1. CASE r + submitSize >= bufferSize
  BY <1>1, Sizes DEF Main, Doubled, Quieted, Span
<1>2. CASE ~(r + submitSize >= bufferSize)
  BY <1>2, Sizes DEF Main, Doubled, Quieted, Span
<1> QED
  BY <1>1, <1>2

\* Nor is what is being written, if it is behind the chunk.
LEMMA FillKeepsWritten ==
    ASSUME NEW r \in 0 .. bufferSize - 1, NEW w \in 0 .. bufferSize - 1, NEW ahead \in Int, NEW n \in Nat, NEW cells, NEW d \in Int,
           Laps(w, r, ahead), ahead + n <= bufferSize, w + n <= bufferSize + submitSize,
           d < ahead \/ submitSize <= ahead,
           HasWritten(w, n, ahead, submitSize, cells, d)
    PROVE  HasWritten(w, n, ahead, submitSize, cells \ Quieted(r), d)
<1> SUFFICES ASSUME ahead <= d, d < ahead + n, submitSize <= d
             PROVE  w + (d - ahead) \notin Quieted(r)
  BY DEF HasWritten
<1>0. submitSize <= ahead
  OBVIOUS
<1>1. CASE r + submitSize >= bufferSize
  <2>1. ahead = w - r + bufferSize
    BY <1>0, <1>1, Sizes DEF Laps
  <2> QED
    BY <1>0, <1>1, <2>1, Sizes DEF Quieted, Span
<1>2. CASE ~(r + submitSize >= bufferSize)
  <2>1. ahead = w - r + bufferSize \/ ahead = w - r
    BY <1>0, Sizes DEF Laps
  <2> QED
    BY <1>0, <1>2, <2>1, Sizes DEF Quieted, Span
<1> QED
  BY <1>1, <1>2

\* The reader a chunk further
NextHead(r) == IF r + submitSize >= bufferSize THEN r + submitSize - bufferSize ELSE r + submitSize

\* All frames behind the chunk are a chunk nearer.
LEMMA AdvanceKeeps ==
    ASSUME NEW r \in 0 .. bufferSize - 1, NEW ahead \in Int, ahead <= bufferSize, NEW cells, NEW d \in Int,
           NEW e \in Int, e = d - submitSize \/ (d < submitSize /\ e < 0)
    PROVE  /\ NoOther(r, ahead, submitSize, cells, d) => NoOther(NextHead(r), ahead - submitSize, 0, cells, e)
           /\ Has(r, ahead, submitSize, cells, d) => Has(NextHead(r), ahead - submitSize, 0, cells, e)
<1>1. ASSUME NEW k \in 0 .. ahead - submitSize - 1
      PROVE  /\ Main(NextHead(r), k) = Main(r, k + submitSize)
             /\ Doubled(NextHead(r), k) => /\ Doubled(r, k + submitSize)
                                           /\ NextHead(r) + k = r + (k + submitSize)
  BY Sizes DEF Main, Doubled, NextHead
<1>2. ASSUME NoOther(r, ahead, submitSize, cells, d)
      PROVE  NoOther(NextHead(r), ahead - submitSize, 0, cells, e)
  <2> SUFFICES ASSUME NEW k \in 0 .. ahead - submitSize - 1
               PROVE  /\ Main(NextHead(r), k) \in cells => e = k
                      /\ Doubled(NextHead(r), k) /\ NextHead(r) + k \in cells => e = k
    BY DEF NoOther
  <2>1. k + submitSize \in submitSize .. ahead - 1
    BY Sizes
  <2>2. d = k + submitSize => e = k
    BY Sizes
  <2>3. /\ Main(r, k + submitSize) \in cells => d = k + submitSize
        /\ Doubled(r, k + submitSize) /\ r + (k + submitSize) \in cells => d = k + submitSize
    BY <1>2, <2>1 DEF NoOther
  <2> QED
    BY <1>1, <2>2, <2>3
<1>3. ASSUME Has(r, ahead, submitSize, cells, d)
      PROVE  Has(NextHead(r), ahead - submitSize, 0, cells, e)
  <2> SUFFICES ASSUME e \in 0 .. ahead - submitSize - 1
               PROVE  /\ Main(NextHead(r), e) \in cells
                      /\ Doubled(NextHead(r), e) => NextHead(r) + e \in cells
    BY DEF Has
  <2>1. d = e + submitSize /\ d \in submitSize .. ahead - 1
    BY Sizes
  <2>2. Main(r, d) \in cells /\ (Doubled(r, d) => r + d \in cells)
    BY <1>3, <2>1 DEF Has
  <2> QED
    BY <1>1, <2>1, <2>2
<1> QED
  BY <1>2, <1>3

\* Nor does the count of frames to the writer matter to what is written after it.
LEMMA AdvanceKeepsWritten ==
    ASSUME NEW w \in Nat, NEW ahead \in Int, NEW n \in Nat, NEW cells, NEW d \in Int,
           NEW e \in Int, e = d - submitSize \/ (d < submitSize /\ e < 0)
    PROVE  /\ NoOtherWritten(w, n, ahead, submitSize, cells, d) => NoOtherWritten(w, n, ahead - submitSize, 0, cells, e)
           /\ HasWritten(w, n, ahead, submitSize, cells, d) => HasWritten(w, n, ahead - submitSize, 0, cells, e)
<1>1. ASSUME NoOtherWritten(w, n, ahead, submitSize, cells, d)
      PROVE  NoOtherWritten(w, n, ahead - submitSize, 0, cells, e)
  <2> SUFFICES ASSUME NEW i \in 0 .. n - 1, ahead - submitSize + i >= 0, w + i \in cells
               PROVE  e = ahead - submitSize + i
    BY DEF NoOtherWritten
  <2>1. ahead + i >= submitSize
    BY Sizes
  <2>2. d = ahead + i
    BY <1>1, <2>1 DEF NoOtherWritten
  <2> QED
    BY <2>1, <2>2, Sizes
<1>2. ASSUME HasWritten(w, n, ahead, submitSize, cells, d)
      PROVE  HasWritten(w, n, ahead - submitSize, 0, cells, e)
  <2> SUFFICES ASSUME ahead - submitSize <= e, e < ahead - submitSize + n, 0 <= e
               PROVE  w + (e - (ahead - submitSize)) \in cells
    BY DEF HasWritten
  <2>1. ahead <= d /\ d < ahead + n /\ submitSize <= d /\ d - ahead = e - (ahead - submitSize)
    BY Sizes
  <2> QED
    BY <1>2, <2>1 DEF HasWritten
<1> QED
  BY <1>1, <1>2

\* What is written covers no cell of a frame that is pending.
LEMMA WriteKeeps ==
    ASSUME NEW r \in 0 .. bufferSize - 1, NEW w \in 0 .. bufferSize - 1, NEW ahead \in Int, NEW n \in Nat,
           Laps(w, r, ahead), ahead + n <= bufferSize, w + n <= bufferSize + submitSize,
           NEW k \in 0 .. ahead - 1
    PROVE  Main(r, k) \notin Span(w, n) /\ (Doubled(r, k) => r + k \notin Span(w, n))
<1>1. ahead = w - r + bufferSize \/ ahead = w - r
  BY Sizes DEF Laps
<1> QED
  BY <1>1, Sizes DEF Main, Doubled, Span

\* memcpy of n cells
Moves(cells, from, to, n) ==
    (cells \ Span(to, n)) \cup {to + k : k \in {k \in 0 .. n - 1 : from + k \in cells}}

\* What memcpy() leaves in one cell
LEMMA MovesCell ==
    ASSUME NEW cells, NEW from \in Nat, NEW to \in Nat, NEW n \in Int, NEW c \in Int
    PROVE  c \in Moves(cells, from, to, n) <=> IF to <= c /\ c < to + n THEN from + (c - to) \in cells ELSE c \in cells
<1>1. CASE to <= c /\ c < to + n
  <2>1. c - to \in 0 .. n - 1 /\ c = to + (c - to) /\ c \in Span(to, n)
    BY <1>1 DEF Span
  <2>2. ASSUME NEW k \in 0 .. n - 1, c = to + k PROVE k = c - to
    BY <2>2
  <2> QED
    BY <1>1, <2>1, <2>2 DEF Moves
<1>2. CASE ~(to <= c /\ c < to + n)
  <2>1. c \notin Span(to, n) /\ \A k \in 0 .. n - 1 : c # to + k
    BY <1>2 DEF Span
  <2> QED
    BY <1>2, <2>1 DEF Moves
<1> QED
  BY <1>1, <1>2

\* What the beginning and the overflow of a ring have after the unlock
Joined(cells, w, n) ==
    IF w + n >= bufferSize THEN Moves(cells, bufferSize, 0, w + n - bufferSize)
    ELSE IF w < submitSize THEN Moves(cells, w, bufferSize + w, Smaller(n, submitSize - w))
    ELSE cells

\* A frame that is pending keeps its cells, and one that was written has them, also where it may be
\* read from the overflow or was written there.
LEMMA UnlockCells ==
    ASSUME NEW r \in 0 .. bufferSize - 1, NEW w \in 0 .. bufferSize - 1, NEW ahead \in Int, NEW n \in Nat, NEW cells,
           Laps(w, r, ahead), ahead + n <= bufferSize, w + n <= bufferSize + submitSize, n <= bufferSize,
           NEW k \in 0 .. ahead + n - 1
    PROVE  /\ k < ahead => /\ Main(r, k) \in Joined(cells, w, n) <=> Main(r, k) \in cells
                           /\ Doubled(r, k) => (r + k \in Joined(cells, w, n) <=> r + k \in cells)
           /\ k >= ahead => /\ Main(r, k) \in Joined(cells, w, n) <=> w + (k - ahead) \in cells
                            /\ Doubled(r, k) => (r + k \in Joined(cells, w, n) <=> w + (k - ahead) \in cells)
<1>0. Main(r, k) \in Nat /\ r + k \in Nat
  BY Sizes DEF Main
<1>1. CASE w + n >= bufferSize
  <2>1. \A c \in Int : c \in Joined(cells, w, n) <=>
           IF 0 <= c /\ c < w + n - bufferSize THEN bufferSize + c \in cells ELSE c \in cells
    BY <1>1, Sizes, MovesCell DEF Joined
  <2>2. ASSUME k < ahead
        PROVE  ~(Main(r, k) < w + n - bufferSize) /\ ~(r + k < w + n - bufferSize)
    BY <1>1, <2>2, Sizes DEF Main, Laps
  <2>3. ASSUME k >= ahead
        PROVE  /\ IF Main(r, k) < w + n - bufferSize THEN bufferSize + Main(r, k) = w + (k - ahead)
                  ELSE Main(r, k) = w + (k - ahead)
               /\ Doubled(r, k) => ~(r + k < w + n - bufferSize) /\ r + k = w + (k - ahead)
    <3>1. CASE ahead = w - r + bufferSize
      BY <1>1, <2>3, <3>1, Sizes DEF Main, Doubled
    <3>2. CASE ahead = w - r
      BY <1>1, <2>3, <3>2, Sizes DEF Main, Doubled
    <3>3. CASE ahead = w - r - bufferSize
      BY <1>1, <2>3, <3>3, Sizes DEF Main, Doubled
    <3>4. CASE ahead <= w - r - 2 * bufferSize
      BY <2>3, <3>4, Sizes
    <3> QED
      BY <3>1, <3>2, <3>3, <3>4 DEF Laps
  <2> HIDE DEF Joined
  <2>4. /\ Main(r, k) \in Joined(cells, w, n) <=>
             IF Main(r, k) < w + n - bufferSize THEN bufferSize + Main(r, k) \in cells ELSE Main(r, k) \in cells
        /\ r + k \in Joined(cells, w, n) <=>
             IF r + k < w + n - bufferSize THEN bufferSize + (r + k) \in cells ELSE r + k \in cells
    BY <1>0, <2>1
  <2> QED
    BY <2>2, <2>3, <2>4
<1>2. CASE ~(w + n >= bufferSize)
  <2> DEFINE m == IF w < submitSize THEN Smaller(n, submitSize - w) ELSE 0
  <2>0. m \in Nat /\ (w < submitSize => m = n \/ m = submitSize - w) /\ m <= n /\ (m > 0 => w + m <= submitSize)
    BY Sizes DEF Smaller
  <2>1. \A c \in Int : c \in Joined(cells, w, n) <=>
           IF bufferSize + w <= c /\ c < bufferSize + w + m THEN w + (c - (bufferSize + w)) \in cells ELSE c \in cells
    <3>1. CASE w < submitSize
      <4>1. Joined(cells, w, n) = Moves(cells, w, bufferSize + w, m) /\ bufferSize + w \in Nat /\ w \in Nat
        BY <1>2, <3>1, Sizes DEF Joined
      <4> QED
        BY <2>0, <4>1, MovesCell
    <3>2. CASE ~(w < submitSize)
      BY <1>2, <3>2, Sizes DEF Joined
    <3> QED
      BY <3>1, <3>2
  <2>2. Main(r, k) < bufferSize
    BY Sizes DEF Main
  <2>3. (w < submitSize /\ m < n) => w + m = submitSize
    BY <2>0, Sizes
  <2>9. w < submitSize \/ m = 0
    OBVIOUS
  <2> HIDE DEF m
  <2>4. ASSUME k < ahead, Doubled(r, k) PROVE ~(bufferSize + w <= r + k)
    BY <1>2, <2>4, Sizes DEF Laps, Doubled
  <2>5. ASSUME k >= ahead
        PROVE  /\ Main(r, k) = w + (k - ahead)
               /\ Doubled(r, k) => /\ bufferSize + w <= r + k /\ r + k < bufferSize + w + m
                                   /\ w + (r + k - (bufferSize + w)) = w + (k - ahead)
    <3>1. CASE ahead = w - r + bufferSize
      BY <1>2, <2>0, <2>3, <2>5, <2>9, <3>1, Sizes DEF Main, Doubled
    <3>2. CASE ahead = w - r
      BY <1>2, <2>5, <3>2, Sizes DEF Main, Doubled
    <3>3. CASE ahead <= w - r - bufferSize
      BY <1>2, <2>5, <3>3, Sizes
    <3> QED
      BY <3>1, <3>2, <3>3, Sizes DEF Laps
  <2> HIDE DEF Joined
  <2>6. /\ Main(r, k) \in Joined(cells, w, n) <=> Main(r, k) \in cells
        /\ r + k \in Joined(cells, w, n) <=>
             IF bufferSize + w <= r + k /\ r + k < bufferSize + w + m THEN w + (r + k - (bufferSize + w)) \in cells
             ELSE r + k \in cells
    BY <1>0, <2>1, <2>2, Sizes
  <2> QED
    BY <2>4, <2>5, <2>6
<1> QED
  BY <1>1, <1>2

\* What is told of what is pending and of what is written is told of both together.
LEMMA UnlockKeeps ==
    ASSUME NEW r \in 0 .. bufferSize - 1, NEW w \in 0 .. bufferSize - 1, NEW ahead \in Int, NEW n \in Nat, NEW cells,
           Laps(w, r, ahead), ahead + n <= bufferSize, w + n <= bufferSize + submitSize, n <= bufferSize,
           NEW first \in Nat, NEW d \in Int
    PROVE  /\ NoOther(r, ahead, first, cells, d) /\ NoOtherWritten(w, n, ahead, first, cells, d)
                => NoOther(r, ahead + n, first, Joined(cells, w, n), d)
           /\ Has(r, ahead, first, cells, d) /\ HasWritten(w, n, ahead, first, cells, d)
                => Has(r, ahead + n, first, Joined(cells, w, n), d)
<1>1. ASSUME NoOther(r, ahead, first, cells, d), NoOtherWritten(w, n, ahead, first, cells, d)
      PROVE  NoOther(r, ahead + n, first, Joined(cells, w, n), d)
  <2> SUFFICES ASSUME NEW k \in first .. ahead + n - 1
               PROVE  /\ Main(r, k) \in Joined(cells, w, n) => d = k
                      /\ Doubled(r, k) /\ r + k \in Joined(cells, w, n) => d = k
    BY DEF NoOther
  <2>1. k \in 0 .. ahead + n - 1
    OBVIOUS
  <2>2. CASE k < ahead
    <3>1. k \in first .. ahead - 1
      BY <2>2
    <3>2. (Main(r, k) \in cells => d = k) /\ (Doubled(r, k) /\ r + k \in cells => d = k)
      BY <1>1, <3>1 DEF NoOther
    <3> QED
      BY <2>1, <2>2, <3>2, UnlockCells
  <2>3. CASE k >= ahead
    <3>1. PICK i \in 0 .. n - 1 : i = k - ahead
      BY <2>1, <2>3
    <3>2. ahead + i = k /\ ahead + i >= first
      BY <3>1
    <3>3. w + (k - ahead) \in cells => d = k
      BY <1>1, <3>1, <3>2 DEF NoOtherWritten
    <3> QED
      BY <2>1, <2>3, <3>3, UnlockCells
  <2> QED
    BY <2>2, <2>3
<1>2. ASSUME Has(r, ahead, first, cells, d), HasWritten(w, n, ahead, first, cells, d)
      PROVE  Has(r, ahead + n, first, Joined(cells, w, n), d)
  <2> SUFFICES ASSUME d \in first .. ahead + n - 1
               PROVE  /\ Main(r, d) \in Joined(cells, w, n)
                      /\ Doubled(r, d) => r + d \in Joined(cells, w, n)
    BY DEF Has
  <2>1. d \in 0 .. ahead + n - 1
    OBVIOUS
  <2>2. CASE d < ahead
    <3>1. d \in first .. ahead - 1
      BY <2>2
    <3>2. Main(r, d) \in cells /\ (Doubled(r, d) => r + d \in cells)
      BY <1>2, <3>1 DEF Has
    <3> QED
      BY <2>1, <2>2, <3>2, UnlockCells
  <2>3. CASE d >= ahead
    <3>1. w + (d - ahead) \in cells
      BY <1>2, <2>3 DEF HasWritten
    <3> QED
      BY <2>1, <2>3, <3>1, UnlockCells
  <2> QED
    BY <2>2, <2>3
<1> QED
  BY <1>1, <1>2

\* Chunks of b frames
LEMMA Chunks ==
    ASSUME NEW a \in Nat, NEW b \in Nat, b > 0
    PROVE  /\ a \div b \in Nat /\ a % b \in Nat /\ a % b < b
           /\ a = (a \div b) * b + (a % b)
           /\ a < b => a % b = a
           /\ b <= a /\ a < 2 * b => a % b = a - b
<1>1. a \div b \in Nat /\ a % b \in Nat /\ a % b < b /\ a = (a \div b) * b + (a % b)
  OBVIOUS
<1>2. PICK q \in Nat, m \in Nat : q = a \div b /\ m = a % b /\ m < b /\ a = q * b + m
  BY <1>1
<1>3. ASSUME a < b PROVE m = a
  <2>1. q = 0
    <3>1. CASE q >= 1
      <4>1. q * b >= b
        BY <3>1
      <4> QED
        BY <1>2, <1>3, <4>1
    <3> QED
      BY <3>1
  <2> QED
    BY <1>2, <2>1
<1>4. ASSUME b <= a, a < 2 * b PROVE m = a - b
  <2>1. q = 1
    <3>1. CASE q >= 2
      <4>1. q * b >= 2 * b
        BY <3>1
      <4> QED
        BY <1>2, <1>4, <4>1
    <3>2. CASE q = 0
      BY <1>2, <1>4, <3>2
    <3> QED
      BY <3>1, <3>2
  <2> QED
    BY <1>2, <2>1
<1> QED
  BY <1>1, <1>2, <1>3, <1>4

\* ReadFrom() is one of the two cells.
LEMMA ReadFromCell ==
    ASSUME NEW v, readHead[v] \in 0 .. bufferSize - 1, NEW k \in 0 .. bufferSize - 1
    PROVE  \/ ReadFrom(v, k) = Main(readHead[v], k)
           \/ Doubled(readHead[v], k) /\ ReadFrom(v, k) = readHead[v] + k
<1>1. PICK r \in 0 .. bufferSize - 1 : r = readHead[v]
  OBVIOUS
<1>2. PICK j \in Nat, m \in Nat :
          j = k \div submitSize /\ m = k % submitSize /\ m < submitSize /\ k = j * submitSize + m
  <2>1. k \in Nat /\ submitSize \in Nat /\ submitSize > 0
    BY Sizes
  <2> QED
    BY <2>1, Chunks
<1>3. PICK c \in Nat : c = j * submitSize
  BY Sizes
<1>8. k = c + m
  BY <1>2, <1>3
<1>5. r + c \in Nat /\ bufferSize \in Nat /\ bufferSize > 0 /\ r + c < 2 * bufferSize
  BY <1>8, Sizes
<1>9. PICK h \in Nat : h = (r + c) % bufferSize
  BY <1>5, Chunks
<1>4. ReadFrom(v, k) = h + m
  BY <1>1, <1>2, <1>3, <1>9 DEF ReadFrom
<1>6. CASE r + c < bufferSize
  <2>1. h = r + c
    BY <1>5, <1>6, <1>9, Chunks
  <2>2. k < submitSize \/ c >= submitSize
    <3>1. CASE j = 0
      BY <1>2, <1>3, <1>8, <3>1, Sizes
    <3>2. CASE j >= 1
      BY <1>3, <3>2, Sizes
    <3> QED
      BY <3>1, <3>2
  <2>3. ReadFrom(v, k) = r + k
    BY <1>4, <1>8, <2>1
  <2>4. m < submitSize
    BY <1>2
  <2> QED
    BY <1>1, <1>6, <1>8, <2>2, <2>3, <2>4, Sizes DEF Main, Doubled
<1>7. CASE r + c >= bufferSize
  <2>1. h = r + c - bufferSize
    BY <1>5, <1>7, <1>9, Chunks
  <2>2. ReadFrom(v, k) = r + k - bufferSize
    BY <1>4, <1>8, <2>1, Sizes
  <2> QED
    BY <1>1, <1>7, <1>8, <2>2, Sizes DEF Main
<1> QED
  BY <1>5, <1>6, <1>7


\* The account gives the laps between the heads.
LEMMA LapsBetween ==
    ASSUME RingInv, NEW v \in Voice
    PROVE  Laps(writeHead[v], readHead[v], Ahead(v))
<1>1. PICK l \in Int, w \in 0 .. bufferSize - 1, r \in 0 .. bufferSize - 1 :
          l = laps[v] /\ w = writeHead[v] /\ r = readHead[v] /\ l <= 1
  BY HeadsTyped
<1>2. PICK c \in Int : c = l * bufferSize
  BY Sizes, LapArithmetic
<1>3. Ahead(v) = c + w - r
  BY <1>1, <1>2 DEF Ahead
<1>4. l = 1 \/ l = 0 \/ l = -1 \/ l + 1 < 0
  BY <1>1
<1>5. CASE l = 1
  BY <1>2, <1>3, <1>1, <1>5, Sizes DEF Laps
<1>6. CASE l = 0
  BY <1>2, <1>3, <1>1, <1>6, Sizes DEF Laps
<1>7. CASE l = -1
  BY <1>2, <1>3, <1>1, <1>7, Sizes DEF Laps
<1>8. CASE l + 1 < 0
  <2>1. (l + 1) * bufferSize <= -bufferSize /\ (l + 1) * bufferSize = l * bufferSize + bufferSize
    BY <1>8, Sizes, LapArithmetic
  <2>2. c <= -bufferSize - bufferSize
    BY <1>2, <2>1, Sizes
  <2> QED
    BY <1>1, <1>3, <2>2, Sizes DEF Laps
<1> QED
  BY <1>4, <1>5, <1>6, <1>7, <1>8

\* What is told of all frames from one on is told of those from a later one on.
LEMMA FromLater ==
    ASSUME NEW r, NEW w, NEW n \in Nat, NEW ahead \in Int, NEW cells, NEW d \in Int,
           NEW f \in Int, NEW g \in Int, f <= g
    PROVE  /\ NoOther(r, ahead, f, cells, d) => NoOther(r, ahead, g, cells, d)
           /\ Has(r, ahead, f, cells, d) => Has(r, ahead, g, cells, d)
           /\ NoOtherWritten(w, n, ahead, f, cells, d) => NoOtherWritten(w, n, ahead, g, cells, d)
           /\ HasWritten(w, n, ahead, f, cells, d) => HasWritten(w, n, ahead, g, cells, d)
<1>1. \A k \in g .. ahead - 1 : k \in f .. ahead - 1
  OBVIOUS
<1>2. NoOther(r, ahead, f, cells, d) => NoOther(r, ahead, g, cells, d)
  BY <1>1 DEF NoOther
<1>3. Has(r, ahead, f, cells, d) => Has(r, ahead, g, cells, d)
  BY <1>1 DEF Has
<1>4. ASSUME NoOtherWritten(w, n, ahead, f, cells, d) PROVE NoOtherWritten(w, n, ahead, g, cells, d)
  <2> SUFFICES ASSUME NEW i \in 0 .. n - 1, ahead + i >= g, w + i \in cells PROVE d = ahead + i
    BY DEF NoOtherWritten
  <2>1. ahead + i >= f
    OBVIOUS
  <2> QED
    BY <1>4, <2>1 DEF NoOtherWritten
<1>5. ASSUME HasWritten(w, n, ahead, f, cells, d) PROVE HasWritten(w, n, ahead, g, cells, d)
  <2> SUFFICES ASSUME ahead <= d, d < ahead + n, g <= d PROVE w + (d - ahead) \in cells
    BY DEF HasWritten
  <2>1. f <= d
    OBVIOUS
  <2> QED
    BY <1>5, <2>1 DEF HasWritten
<1> QED
  BY <1>2, <1>3, <1>4, <1>5

-----------------------------------------------------------------------------
(* The samples that wait                                                    *)

\* There are two rings, not one used twice.
DistinctOwners == Len(Owners) = 2 => Owners[1] # Owners[2]

\* The reader is done with the chunk that is in the mix buffer.
First(v) == IF InMix(v) THEN submitSize ELSE 0

\* The reader had overtaken the writer of this sample.
Overtaken(v) == late[v]

\* The frames that are pending
Told(v) ==
    /\ NoOther(readHead[v], Ahead(v), First(v), watched[v], due[v])
    /\ Overtaken(v) \/ Has(readHead[v], Ahead(v), First(v), watched[v], due[v])

\* The reader is not within a chunk of the writer whose sample was in time.
InTime(v) == Overtaken(v) \/ ~InMix(v) \/ due[v] = NotDue \/ due[v] < Ahead(v) \/ submitSize <= Ahead(v)

\* The frames that are written, and not yet handed over
Handed(v, n) ==
    /\ NoOtherWritten(writeHead[v], n, Ahead(v), First(v), watched[v], due[v])
    /\ Overtaken(v) \/ HasWritten(writeHead[v], n, Ahead(v), First(v), watched[v], due[v])
    /\ InTime(v)

\* A sample that is due is pending, or among what is written.
DueIn(v) ==
    due[v] = NotDue \/
    (/\ v \in Range(voices) /\ due[v] \in Nat
     /\ due[v] < Ahead(v) + (IF cpu.at = "written" /\ cpu.voice = v THEN cpu.bytes ELSE 0))

SampleTypes ==
    watched \in [Voice -> SUBSET Int] /\ due \in [Voice -> Int] /\ late \in [Voice -> BOOLEAN]

\* The callback holds the first voice, then both of them, then what it has not filled yet.
MixInv ==
    /\ cb.at \in {"idle", "done", "failed"} => cb.voices = <<>>
    /\ cb.at = "copied" => \E x : cb.voices = <<x>> /\ (cpu.at # "destroy" => x = AllVoices[1])
    /\ cb.at \in {"mixed", "fill", "advance"} =>
          \E x : \/ cb.voices = <<x>>
                 \/ \E y : cb.voices = <<x, y>> /\ (cpu.at # "destroy" => x # y)
    /\ cb.at \in {"idle", "done", "failed", "copied", "mixed", "fill", "advance"}
    /\ cpu.at = "create" => cb.at = "idle" /\ playState = "stopped"
    /\ cpu.at = "destroy" => voices = <<>> \/ (Len(Owners) = 2 /\ voices = <<Owners[2]>>)

SampleInv ==
    /\ SampleTypes
    /\ \A v \in Voice : DueIn(v)
    /\ \A v \in Range(voices) : Told(v)
    /\ cpu.at \in {"locked", "written"} => cpu.bytes <= bufferSize
    /\ cpu.at = "written" => Handed(cpu.voice, cpu.bytes)

HeardInv == AccountInv /\ MixInv /\ SampleInv

\* Which voices have a chunk in the mix
LEMMA ContainsOf ==
    ASSUME NEW s, NEW v
    PROVE  /\ s = <<>> => ~Contains(s, v)
           /\ \A x : s = <<x>> => (Contains(s, v) <=> v = x)
           /\ \A x, y : s = <<x, y>> => (Contains(s, v) <=> v = x \/ v = y)
<1>1. Contains(s, v) <=> \E i \in 1 .. Len(s) : s[i] = v
  BY DEF Contains
<1>2. s = <<>> => ~Contains(s, v)
  BY <1>1
<1>3. ASSUME NEW x, s = <<x>> PROVE Contains(s, v) <=> v = x
  BY <1>1, <1>3
<1>4. ASSUME NEW x, NEW y, s = <<x, y>> PROVE Contains(s, v) <=> v = x \/ v = y
  <2>1. Len(s) = 2 /\ s[1] = x /\ s[2] = y
    BY <1>4
  <2> QED
    BY <1>1, <2>1
<1> QED
  BY <1>2, <1>3, <1>4

\* The two voices of the mix are two.
LEMMA NextOther ==
    ASSUME OneOrTwo, DistinctOwners, voices = AllVoices
    PROVE  NextOf(AllVoices[1]) = None \/ AllVoices[1] # NextOf(AllVoices[1])
<1>1. AllVoices \in Seq(Voice) /\ AllVoices[1] \in Voice /\ Len(AllVoices) = Len(Owners) /\ Len(Owners) \in {1, 2}
  BY AllVoicesFacts DEF OneOrTwo
<1>2. Contains(voices, AllVoices[1])
  BY <1>1 DEF Contains
<1> DEFINE after == {i \in DOMAIN voices : i > 1 /\ voices[i-1] = AllVoices[1]}
<1>3. NextOf(AllVoices[1]) = IF after = {} THEN None ELSE voices[CHOOSE i \in after : TRUE]
  BY <1>2 DEF NextOf
<1>4. CASE after # {}
  <2>1. PICK i \in after : i = CHOOSE j \in after : TRUE
    BY <1>4
  <2>2. i \in DOMAIN voices /\ i > 1
    BY <2>1
  <2>3. i = 2 /\ Len(Owners) = 2
    <3>1. i \in 1 .. Len(Owners) /\ i > 1
      BY <1>1, <2>2, LenProperties
    <3>2. Len(Owners) = 1 \/ Len(Owners) = 2
      BY <1>1
    <3>3. CASE Len(Owners) = 1
      <4>1. i \in 1 .. 1
        BY <3>1, <3>3
      <4> QED
        BY <3>1, <4>1
    <3>4. CASE Len(Owners) = 2
      <4>1. i \in 1 .. 2
        BY <3>1, <3>4
      <4> QED
        BY <3>1, <3>4, <4>1
    <3> HIDE DEF after
    <3> QED
      BY <3>2, <3>3, <3>4
  <2>4. NextOf(AllVoices[1]) = AllVoices[2] /\ AllVoices[1] # AllVoices[2]
    BY <1>3, <1>4, <2>1, <2>3 DEF AllVoices, DistinctOwners
  <2> QED
    BY <2>4
<1> QED
  BY <1>3, <1>4

\* The CPU thread is not in the middle of the renewal of its voices.
LEMMA Linked ==
    ASSUME OneOrTwo, VoicesInv, cpu.at \notin {"create", "destroy"}
    PROVE  voices = AllVoices /\ voices # <<>> /\ Range(voices) = Voice
<1>1. voices = AllVoices
  BY DEF VoicesInv
<1>2. \A i \in DOMAIN AllVoices : AllVoices[i] \in Voice
  BY AllVoicesFacts
<1>3. Range(voices) \subseteq Voice
  BY <1>1, <1>2 DEF Range
<1>4. Voice \subseteq Range(voices)
  BY <1>1, AllVoicesFacts DEF Range
<1> QED
  BY <1>1, <1>3, <1>4, AllVoicesFacts

\* No callback is under way at the start.
LEMMA MixInit == OneOrTwo /\ Init => MixInv
  BY DEF Init, MixInv, Idle, AtRest

\* The callback begins with the first voice.
LEMMA MixBegins ==
    ASSUME OneOrTwo, MixInv, VoicesInv, NEW thread, Begin(thread), cpu' = cpu \/ (cpu.at = "unlocked" /\ cpu'.at = "callback"),
           voices' = voices, cpu.at # "create"
    PROVE  MixInv'
<1>0. cpu'.at # "create" /\ (cpu'.at = "destroy" <=> cpu.at = "destroy")
  BY DEF MixInv
<1>1. cpu'.at = "destroy" => voices' = <<>> \/ (Len(Owners) = 2 /\ voices' = <<Owners[2]>>)
  BY <1>0 DEF MixInv
<1>2. CASE voices = <<>>
  <2>1. cb'.at = "failed" /\ cb'.voices = <<>>
    BY <1>2 DEF Begin, Idle
  <2> QED
    BY <1>0, <1>1, <2>1 DEF MixInv
<1>3. CASE voices # <<>>
  <2>1. cb'.at = "copied" /\ cb'.voices = <<Head(voices)>>
    BY <1>3 DEF Begin, Idle
  <2>2. cpu.at # "destroy" => Head(voices) = AllVoices[1]
    <3>1. cpu.at # "destroy" => voices = AllVoices
      BY Linked
    <3> QED
      BY <3>1, AllVoicesFacts
  <2> QED
    BY <1>0, <1>1, <2>1, <2>2 DEF MixInv, AllVoices
<1> QED
  BY <1>2, <1>3

\* Steps of the CPU thread that leave the callback alone
LEMMA MixStays ==
    ASSUME MixInv, UNCHANGED cb, voices' = voices, cpu'.at # "create",
           cpu'.at = "destroy" <=> cpu.at = "destroy"
    PROVE  MixInv'
BY DEF MixInv, AllVoices

\* opensl_destroySoundBuffer() unlinks the voices in the order in which they were created.
LEMMA DestroyLinks ==
    ASSUME OneOrTwo, DistinctOwners, VoicesInv, MixInv, opensl_destroySoundBuffer
    PROVE  LET v == Owners[Len(Owners) - Len(voices) + 1] IN
           \/ voices = <<v>> /\ voices' = <<>>
           \/ Len(Owners) = 2 /\ voices = <<Owners[2], v>> /\ v = Owners[1] /\ voices' = <<Owners[2]>>
<1> DEFINE v == Owners[Len(Owners) - Len(voices) + 1]
<1>1. PICK i \in DOMAIN voices : voices[i] = v /\ voices' = RemoveAt(voices, i)
  BY DEF opensl_destroySoundBuffer
<1>2. cpu.at \in {"idle", "destroy"} /\ voices # <<>>
  BY DEF opensl_destroySoundBuffer
<1>3. ASSUME NEW x, voices = <<x>> PROVE voices = <<v>> /\ voices' = <<>>
  <2>1. i = 1 /\ Len(voices) = 1 /\ voices[1] = x
    BY <1>1, <1>3
  <2>2. voices' = SubSeq(voices, 1, 0) \o SubSeq(voices, 2, 1)
    BY <1>1, <2>1 DEF RemoveAt
  <2>3. v = x
    BY <1>1, <2>1
  <2> HIDE DEF v
  <2> QED
    BY <1>3, <2>2, <2>3
<1>4. CASE Len(Owners) = 2 /\ voices = <<Owners[2], Owners[1]>>
  <2>1. v = Owners[1] /\ i = 2 /\ Len(voices) = 2
    BY <1>1, <1>4 DEF DistinctOwners
  <2>2. voices' = SubSeq(voices, 1, 1) \o SubSeq(voices, 3, 2)
    BY <1>1, <2>1 DEF RemoveAt
  <2>3. voices \in Seq(Voice) /\ voices[1] = Owners[2]
    <3>1. voices = AllVoices
      BY <1>4 DEF AllVoices
    <3>2. voices \in Seq(Voice)
      BY <3>1, AllVoicesFacts
    <3>3. voices[1] = Owners[2]
      BY <1>4
    <3> QED
      BY <3>2, <3>3
  <2>4. /\ SubSeq(voices, 1, 1) \in Seq(Voice) /\ Len(SubSeq(voices, 1, 1)) = 1
        /\ SubSeq(voices, 1, 1)[1] = Owners[2]
    <3>1. 1 \in DOMAIN voices /\ voices[1] \in Voice
      BY <2>1, <2>3, LenProperties, ElementOfSeq
    <3>2. \A j \in 1 .. 1 : voices[j] \in Voice
      BY <3>1
    <3>3. /\ SubSeq(voices, 1, 1) \in Seq(Voice) /\ Len(SubSeq(voices, 1, 1)) = IF 1 <= 1 THEN 1 - 1 + 1 ELSE 0
          /\ \A j \in 1 .. 1 - 1 + 1 : SubSeq(voices, 1, 1)[j] = voices[1 + j - 1]
      BY <3>2, SubSeqProperties
    <3> QED
      BY <2>3, <3>3
  <2>5. SubSeq(voices, 3, 2) \in Seq(Voice) /\ Len(SubSeq(voices, 3, 2)) = 0
    BY <2>1, <2>3, SubSeqProperties
  <2>6. voices' \in Seq(Voice) /\ Len(voices') = 1 /\ voices'[1] = Owners[2]
    BY <2>2, <2>4, <2>5, ConcatProperties
  <2>7. voices' = <<Owners[2]>>
    BY <2>6
  <2> QED
    BY <1>4, <2>1, <2>7
<1>5. \/ \E x : voices = <<x>>
      \/ Len(Owners) = 2 /\ voices = <<Owners[2], Owners[1]>>
  BY <1>2 DEF MixInv, VoicesInv, AllVoices, OneOrTwo
<1> QED
  BY <1>3, <1>4, <1>5

\* No step gives the callback one voice twice, unless the voices are being renewed.
LEMMA MixStep == OneOrTwo /\ DistinctOwners /\ AccountInv /\ MixInv /\ [Next]_vars => MixInv'
<1> SUFFICES ASSUME OneOrTwo, DistinctOwners, AccountInv, MixInv, [Next]_vars PROVE MixInv'
  OBVIOUS
<1>0. VoicesInv /\ PlayerInv /\ CbShape /\ CpuShape /\ ThreadInv
  BY DEF AccountInv, PlayerInv
<1>1. CASE SystemCallback
  <2>1. cpu.at # "create" /\ cpu' = cpu /\ voices' = voices /\ Begin("system")
    BY <1>1 DEF SystemCallback, MixInv, lists
  <2> QED
    BY <1>0, <2>1, MixBegins
<1>2. CASE Mix
  <2> DEFINE next == NextOf(Head(cb.voices))
             mixed == IF next = None THEN cb.voices ELSE <<Head(cb.voices), next>>
  <2>1. cb.at = "copied" /\ cpu' = cpu /\ voices' = voices /\ playState' = playState /\ cb'.at = "mixed" /\ cb'.voices = mixed
    BY <1>0, <1>2 DEF Mix, CbShape, lists
  <2>2. PICK x : cb.voices = <<x>> /\ (cpu.at # "destroy" => x = AllVoices[1])
    BY <2>1 DEF MixInv
  <2>3. cpu.at # "create"
    BY <2>1 DEF MixInv
  <2>4. Head(cb.voices) = x
    BY <2>2
  <2>5. cpu.at # "destroy" => next = None \/ x # next
    BY <1>0, <2>2, <2>3, <2>4, NextOther, Linked
  <2> HIDE DEF next
  <2>6. cb'.voices = <<x>> \/ (cb'.voices = <<x, next>> /\ (cpu.at # "destroy" => x # next))
    BY <2>1, <2>2, <2>4, <2>5
  <2> QED
    BY <2>1, <2>3, <2>6 DEF MixInv
<1>3. CASE Enqueue \/ Fill
  <2>1. /\ cb.at \in {"mixed", "fill"} /\ cb'.at \in {"fill", "advance"} /\ cb'.voices = cb.voices
        /\ cpu' = cpu /\ voices' = voices /\ playState' = playState
    <3>1. CASE Fill
      BY <1>0, <3>1 DEF Fill, CbShape, lists
    <3>2. CASE Enqueue
      <4>1. cb' = [cb EXCEPT !.at = "fill"] \/ cb' = [cb EXCEPT !.at = "fill", !.failed = TRUE]
        BY <3>2 DEF Enqueue
      <4>2. cb.at = "mixed" /\ cpu' = cpu /\ voices' = voices /\ playState' = playState
        BY <3>2 DEF Enqueue, lists
      <4>3. cb'.at = "fill" /\ cb'.voices = cb.voices
        BY <1>0, <4>1 DEF CbShape
      <4> QED
        BY <4>2, <4>3
    <3> QED
      BY <1>3, <3>1, <3>2
  <2> QED
    BY <2>1 DEF MixInv
<1>4. CASE Advance
  <2>1. /\ cb.at = "advance" /\ cb'.voices = Tail(cb.voices)
        /\ cb'.at = IF Len(cb.voices) > 1 THEN "fill" ELSE IF cb.failed THEN "failed" ELSE "done"
        /\ cpu' = cpu /\ voices' = voices /\ playState' = playState
    BY <1>0, <1>4 DEF Advance, CbShape, lists
  <2>2. PICK x : \/ cb.voices = <<x>>
                 \/ \E y : cb.voices = <<x, y>> /\ (cpu.at # "destroy" => x # y)
    BY <2>1 DEF MixInv
  <2>3. cpu.at # "create"
    BY <2>1 DEF MixInv
  <2>4. CASE cb.voices = <<x>>
    <3>1. cb'.voices = <<>> /\ cb'.at \in {"failed", "done"}
      BY <2>1, <2>4
    <3> QED
      BY <2>1, <2>3, <3>1 DEF MixInv
  <2>5. ASSUME NEW y, cb.voices = <<x, y>> PROVE MixInv'
    <3>1. cb'.voices = <<y>> /\ cb'.at = "fill"
      BY <2>1, <2>5
    <3> QED
      BY <2>1, <2>3, <3>1 DEF MixInv
  <2> QED
    BY <2>2, <2>4, <2>5
<1>5. CASE Return
  <2>1. cb.at \in {"done", "failed"} /\ cb' = Idle /\ voices' = voices /\ cpu' = IF cb.thread = "cpu" THEN AtRest ELSE cpu
    BY <1>5 DEF Return, lists
  <2>2. cb'.at = "idle" /\ cb'.voices = <<>> /\ cpu'.at # "create" /\ (cpu'.at = "destroy" => cpu.at = "destroy")
    BY <2>1 DEF Idle, AtRest, MixInv
  <2> QED
    BY <2>1, <2>2 DEF MixInv
<1>6. CASE _SLMaybeSubmitAndStart
  <2>1. CASE playState = "stopped"
    <3>1. Begin("cpu") /\ cpu.at = "unlocked" /\ cpu'.at = "callback" /\ voices' = voices
      BY <1>6, <2>1 DEF _SLMaybeSubmitAndStart, AtRest, lists
    <3> QED
      BY <1>0, <3>1, MixBegins
  <2>2. CASE playState # "stopped"
    BY <1>6, <2>2, MixStays DEF _SLMaybeSubmitAndStart, AtRest, lists
  <2> QED
    BY <2>1, <2>2
<1>7. CASE opensles_systemPause \/ opensles_systemResume
  BY <1>7, MixStays DEF opensles_systemPause, opensles_systemResume, AtRest, lists
<1>8. CASE Write \/ SLUnlockBuffer
  <2>1. CASE Write
    <3>1. cpu' = [at |-> "written", voice |-> cpu.voice, bytes |-> cpu.bytes]
      BY <1>0, <2>1 DEF Write, CpuShape
    <3> QED
      BY <2>1, <3>1, MixStays DEF Write, lists
  <2>2. CASE SLUnlockBuffer
    BY <2>2, MixStays DEF SLUnlockBuffer, AtRest, lists
  <2> QED
    BY <1>8, <2>1, <2>2
<1>9. ASSUME NEW v \in Voice, Submit(v) \/ SLGetPosition(v) PROVE MixInv'
  BY <1>9, MixStays DEF Submit, SLLockBuffer, SLGetPosition, lists
<1>10. CASE opensles_systemSetup
  <2>1. cpu'.at = "create" /\ UNCHANGED cb /\ cb.at = "idle" /\ playState' = "stopped"
    BY <1>10 DEF opensles_systemSetup, AtRest
  <2> QED
    BY <2>1 DEF MixInv
<1>11. CASE opensl_createSoundBuffer
  <2>1. cpu.at = "create" /\ cpu'.at \in {"idle", "create"} /\ UNCHANGED <<cb, playState>>
    BY <1>11 DEF opensl_createSoundBuffer, AtRest
  <2> QED
    BY <2>1 DEF MixInv
<1>12. CASE opensl_destroySoundBuffer
  <2>1. cpu'.at = "destroy" /\ UNCHANGED cb /\ cpu.at \in {"idle", "destroy"}
    BY <1>12 DEF opensl_destroySoundBuffer, AtRest
  <2>2. voices' = <<>> \/ (Len(Owners) = 2 /\ voices' = <<Owners[2]>>)
    BY <1>0, <1>12, DestroyLinks
  <2> QED
    BY <2>1, <2>2 DEF MixInv
<1>13. CASE UNCHANGED vars
  BY <1>13 DEF vars, lists, MixInv, AllVoices
<1> QED
  BY <1>1, <1>2, <1>3, <1>4, <1>5, <1>6, <1>7, <1>8, <1>9, <1>10, <1>11, <1>12, <1>13
     DEF Next, bqPlayerCallback, CpuThread, Reinitialize

\* The account and the sample of a voice are numbers.
LEMMA SampleTyped ==
    ASSUME AccountInv, SampleTypes, NEW v \in Voice
    PROVE  /\ writeHead[v] \in 0 .. bufferSize - 1 /\ readHead[v] \in 0 .. bufferSize - 1
           /\ Ahead(v) \in Int /\ Ahead(v) <= bufferSize /\ First(v) \in Nat /\ due[v] \in Int
           /\ Laps(writeHead[v], readHead[v], Ahead(v))
<1>1. RingInv /\ FilledInv
  BY DEF AccountInv
<1>2. Ahead(v) < bufferSize \/ Ahead(v) = bufferSize
  BY <1>1 DEF FilledInv
<1>3. First(v) \in Nat
  BY Sizes DEF First
<1>4. due[v] \in Int
  BY DEF SampleTypes
<1> QED
  BY <1>1, <1>2, <1>3, <1>4, HeadsTyped, LapsBetween, Sizes

\* What the CPU thread was granted fits.
LEMMA GrantTyped ==
    ASSUME AccountInv, cpu.at \in {"locked", "written"}
    PROVE  /\ cpu.voice \in Voice /\ cpu.bytes \in Nat \ {0}
           /\ writeHead[cpu.voice] + cpu.bytes <= bufferSize + submitSize
           /\ Ahead(cpu.voice) + cpu.bytes <= bufferSize
<1>1. PICK v \in Voice, n \in Nat \ {0} : cpu.voice = v /\ cpu.bytes = n /\ Fits(v, n)
  BY DEF AccountInv, GrantInv
<1>2. Ahead(v) \in Int
  BY HeadsTyped DEF AccountInv
<1> QED
  BY <1>1, <1>2, Sizes DEF Fits

\* A step that leaves a ring and its sample alone
Kept(v) ==
    /\ readHead'[v] = readHead[v] /\ writeHead'[v] = writeHead[v] /\ Ahead(v)' = Ahead(v)
    /\ watched'[v] = watched[v] /\ due'[v] = due[v]
    /\ Overtaken(v) => Overtaken(v)'
    /\ InMix(v) => InMix(v)'

\* A voice that enters the mix has a chunk less to tell of.
LEMMA FirstLater ==
    ASSUME NEW v, InMix(v) => InMix(v)'
    PROVE  First(v) \in Nat /\ First(v)' \in Nat /\ First(v) <= First(v)'
BY Sizes DEF First

\* A ring that is left alone keeps what is pending ...
LEMMA KeptTold ==
    ASSUME AccountInv, SampleTypes, NEW v \in Voice, Kept(v), Told(v)
    PROVE  Told(v)'
<1>1. PICK a \in Int, d \in Int, f \in Nat : a = Ahead(v) /\ d = due[v] /\ f = First(v)
  BY SampleTyped
<1>2. PICK g \in Nat : g = First(v)' /\ f <= g
  BY <1>1, FirstLater DEF Kept
<1>3. /\ NoOther(readHead[v], a, f, watched[v], d)
      /\ Overtaken(v) \/ Has(readHead[v], a, f, watched[v], d)
  BY <1>1 DEF Told
<1>4. /\ NoOther(readHead[v], a, f, watched[v], d) => NoOther(readHead[v], a, g, watched[v], d)
      /\ Has(readHead[v], a, f, watched[v], d) => Has(readHead[v], a, g, watched[v], d)
  BY <1>2, FromLater
<1>5. readHead'[v] = readHead[v] /\ a = Ahead(v)' /\ watched'[v] = watched[v] /\ d = due'[v] /\ g = First(v)'
  BY <1>1, <1>2 DEF Kept
<1>6. Overtaken(v) => Overtaken(v)'
  BY DEF Kept
<1>7. /\ NoOther(readHead'[v], Ahead(v)', First(v)', watched'[v], due'[v])
      /\ Overtaken(v)' \/ Has(readHead'[v], Ahead(v)', First(v)', watched'[v], due'[v])
  BY <1>3, <1>4, <1>5, <1>6
<1> QED
  BY <1>7 DEF Told

\* ... and what is written, unless the reader comes upon it without being noted.
LEMMA KeptHanded ==
    ASSUME AccountInv, SampleTypes, NEW v \in Voice, Kept(v), NEW n \in Nat, Handed(v, n),
           InMix(v)' => InMix(v) \/ Overtaken(v)' \/ submitSize <= Ahead(v)
    PROVE  Handed(v, n)'
<1>1. PICK a \in Int, d \in Int, f \in Nat : a = Ahead(v) /\ d = due[v] /\ f = First(v)
  BY SampleTyped
<1>2. PICK g \in Nat : g = First(v)' /\ f <= g
  BY <1>1, FirstLater DEF Kept
<1>3. /\ NoOtherWritten(writeHead[v], n, a, f, watched[v], d)
      /\ Overtaken(v) \/ HasWritten(writeHead[v], n, a, f, watched[v], d)
      /\ InTime(v)
  BY <1>1 DEF Handed
<1>4. /\ NoOtherWritten(writeHead[v], n, a, f, watched[v], d) => NoOtherWritten(writeHead[v], n, a, g, watched[v], d)
      /\ HasWritten(writeHead[v], n, a, f, watched[v], d) => HasWritten(writeHead[v], n, a, g, watched[v], d)
  BY <1>2, FromLater
<1>5. /\ writeHead'[v] = writeHead[v] /\ a = Ahead(v)' /\ watched'[v] = watched[v]
      /\ d = due'[v] /\ g = First(v)'
  BY <1>1, <1>2 DEF Kept
<1>6. Overtaken(v) => Overtaken(v)'
  BY DEF Kept
<1>7. InTime(v)'
  BY <1>3, <1>5, <1>6, <1>1 DEF InTime
<1>8. /\ NoOtherWritten(writeHead'[v], n, Ahead(v)', First(v)', watched'[v], due'[v])
      /\ Overtaken(v)' \/ HasWritten(writeHead'[v], n, Ahead(v)', First(v)', watched'[v], due'[v])
  BY <1>3, <1>4, <1>5, <1>6
<1> QED
  BY <1>7, <1>8 DEF Handed

\* A step that leaves every ring alone, and what the CPU thread has written
LEMMA QuietSamples ==
    ASSUME AccountInv, OneOrTwo, SampleInv, SampleTypes', voices' = voices, \A v \in Voice : Kept(v),
           Range(voices) \subseteq Voice,
           cpu' = cpu \/ (cpu.at \notin {"locked", "written"} /\ cpu'.at \notin {"locked", "written"}),
           cpu.at = "written" => \A v \in Voice :
               v = cpu.voice /\ InMix(v)' => InMix(v) \/ Overtaken(v)' \/ submitSize <= Ahead(v)
    PROVE  SampleInv'
<1>1. ASSUME NEW v \in Voice PROVE DueIn(v)'
  <2>1. DueIn(v) /\ Kept(v)
    BY DEF SampleInv
  <2>2. CASE due[v] = NotDue
    BY <2>1, <2>2 DEF DueIn, Kept
  <2>3. CASE due[v] # NotDue
    <3> DEFINE more == IF cpu.at = "written" /\ cpu.voice = v THEN cpu.bytes ELSE 0
    <3>1. v \in Range(voices) /\ due[v] \in Nat /\ due[v] < Ahead(v) + more
      BY <2>1, <2>3 DEF DueIn
    <3>2. more' = more
      OBVIOUS
    <3>3. due'[v] \in Nat /\ due'[v] < Ahead(v)' + more'
      BY <2>1, <3>1, <3>2 DEF Kept
    <3> QED
      BY <3>1, <3>3 DEF DueIn
  <2> QED
    BY <2>2, <2>3
<1>2. ASSUME NEW v \in Range(voices) PROVE Told(v)'
  BY KeptTold DEF SampleInv
<1>3. cpu'.at \in {"locked", "written"} => cpu' = cpu /\ cpu'.bytes <= bufferSize
  BY DEF SampleInv
<1>4. ASSUME cpu'.at = "written" PROVE Handed(cpu.voice, cpu.bytes)'
  <2>1. cpu' = cpu /\ cpu.at = "written" /\ Handed(cpu.voice, cpu.bytes)
    BY <1>3, <1>4 DEF SampleInv
  <2>2. PICK v \in Voice, n \in Nat : v = cpu.voice /\ n = cpu.bytes
    BY <2>1, GrantTyped
  <2>3. Handed(v, n) /\ (InMix(v)' => InMix(v) \/ Overtaken(v)' \/ submitSize <= Ahead(v))
    BY <2>1, <2>2
  <2>4. Handed(v, n)'
    BY <2>3, KeptHanded DEF SampleInv
  <2>5. v = cpu'.voice /\ n = cpu'.bytes
    BY <2>1, <2>2
  <2> QED
    BY <2>4, <2>5
<1> QED
  BY <1>1, <1>2, <1>3, <1>4 DEF SampleInv

\* In its turn, from the cell that the callback will read
LEMMA HeardFromInv == OneOrTwo /\ HeardInv /\ Range(voices) \subseteq Voice => HeardInTurn
<1> SUFFICES ASSUME OneOrTwo, HeardInv, Range(voices) \subseteq Voice,
                    NEW v \in Range(voices), ~Overtaken(v), NEW k \in First(v) .. Ahead(v) - 1
             PROVE  (ReadFrom(v, k) \in watched[v]) <=> (due[v] = k)
  BY DEF HeardInTurn, First, Overtaken
<1>1. /\ v \in Voice /\ readHead[v] \in 0 .. bufferSize - 1 /\ Ahead(v) \in Int
      /\ Ahead(v) <= bufferSize /\ First(v) \in Nat /\ due[v] \in Int
  BY SampleTyped DEF HeardInv, SampleInv
<1>2. k \in 0 .. bufferSize - 1
  BY <1>1, Sizes
<1>3. \/ ReadFrom(v, k) = Main(readHead[v], k)
      \/ Doubled(readHead[v], k) /\ ReadFrom(v, k) = readHead[v] + k
  BY <1>1, <1>2, ReadFromCell
<1>4. /\ NoOther(readHead[v], Ahead(v), First(v), watched[v], due[v])
      /\ Has(readHead[v], Ahead(v), First(v), watched[v], due[v])
  BY DEF HeardInv, SampleInv, Told
<1>5. /\ Main(readHead[v], k) \in watched[v] => due[v] = k
      /\ Doubled(readHead[v], k) /\ readHead[v] + k \in watched[v] => due[v] = k
  BY <1>4 DEF NoOther
<1>6. ASSUME due[v] = k PROVE Main(readHead[v], k) \in watched[v] /\ (Doubled(readHead[v], k) => readHead[v] + k \in watched[v])
  BY <1>4, <1>6 DEF Has
<1> QED
  BY <1>3, <1>5, <1>6

\* Only voices of the owners are linked, also while they are renewed.
LEMMA LinkedOwned ==
    ASSUME OneOrTwo, VoicesInv, MixInv
    PROVE  Range(voices) \subseteq Voice
<1>1. CASE cpu.at \notin {"create", "destroy"}
  BY <1>1, Linked
<1>2. CASE cpu.at \in {"create", "destroy"}
  <2>1. voices = <<>> \/ (Len(Owners) = 2 /\ (voices = <<Owners[1]>> \/ voices = <<Owners[2]>>))
    BY <1>2 DEF VoicesInv, MixInv
  <2>2. Len(Owners) = 2 => Owners[1] \in Voice /\ Owners[2] \in Voice
    BY DEF OneOrTwo
  <2>3. CASE voices = <<>>
    BY <2>3 DEF Range
  <2>4. ASSUME NEW x \in Voice, voices = <<x>> PROVE Range(voices) \subseteq Voice
    BY <2>4 DEF Range
  <2> QED
    BY <2>1, <2>2, <2>3, <2>4
<1> QED
  BY <1>1, <1>2

\* A step that changes no ring keeps each.
LEMMA KeptBy ==
    ASSUME NEW v, UNCHANGED <<watched, writeHead, readHead, laps, due>>,
           Overtaken(v) => Overtaken(v)', InMix(v) => InMix(v)'
    PROVE  Kept(v)
<1>1. Ahead(v)' = Ahead(v)
  BY DEF Ahead
<1> QED
  BY <1>1 DEF Kept

\* A chunk that begins with less than a chunk pending overtakes what is written.
LEMMA OvertakesFacts ==
    ASSUME SampleTypes, NEW x, Overtakes(x)
    PROVE  /\ late' \in [Voice -> BOOLEAN]
           /\ \A v \in Voice : Overtaken(v) => Overtaken(v)'
           /\ \A v \in Voice : v = x /\ cpu.at = "written" /\ cpu.voice = v /\ Ahead(v) < submitSize => Overtaken(v)'
<1>1. late' = [w \in Voice |-> late[w] \/ (w = x /\ cpu.at = "written" /\ cpu.voice = w /\ Ahead(w) < submitSize)]
  BY DEF Overtakes
<1>2. ASSUME NEW v \in Voice
      PROVE  late'[v] = (late[v] \/ (v = x /\ cpu.at = "written" /\ cpu.voice = v /\ Ahead(v) < submitSize))
  BY <1>1, Zenon
<1>3. late' \in [Voice -> BOOLEAN]
  BY <1>1, Zenon
<1>4. \A v \in Voice : Overtaken(v) => Overtaken(v)'
  BY <1>2, Zenon DEF Overtaken
<1>5. \A v \in Voice : v = x /\ cpu.at = "written" /\ cpu.voice = v /\ Ahead(v) < submitSize => Overtaken(v)'
  BY <1>2, Zenon DEF Overtaken
<1> QED
  BY <1>3, <1>4, <1>5

\* The callback begins or goes on to its second voice; nothing is moved yet.
LEMMA MixSamples ==
    ASSUME OneOrTwo, AccountInv, MixInv, SampleInv, SystemCallback \/ Mix
    PROVE  SampleInv'
<1>0. /\ UNCHANGED <<watched, writeHead, readHead, laps, due>> /\ voices' = voices /\ cpu' = cpu
      /\ Range(voices) \subseteq Voice /\ SampleTypes
  BY LinkedOwned DEF AccountInv, SystemCallback, Mix, ring, lists, SampleInv
<1> SUFFICES /\ late' \in [Voice -> BOOLEAN]
             /\ \A v \in Voice : /\ Overtaken(v) => Overtaken(v)'
                                 /\ InMix(v) => InMix(v)'
             /\ cpu.at = "written" => \A v \in Voice :
                    v = cpu.voice /\ InMix(v)' => InMix(v) \/ Overtaken(v)' \/ submitSize <= Ahead(v)
  <2>1. \A v \in Voice : Kept(v)
    BY <1>0, KeptBy
  <2>2. SampleTypes'
    BY <1>0 DEF SampleTypes
  <2> QED
    BY <1>0, <2>1, <2>2, QuietSamples
<1>8. ASSUME NEW v \in Voice PROVE Ahead(v) < submitSize \/ submitSize <= Ahead(v)
  BY <1>0, SampleTyped, Sizes
<1>1. CASE SystemCallback
  <2>1. cb.voices = <<>>
    BY <1>1 DEF SystemCallback, MixInv
  <2>2. CASE voices = <<>>
    <3>1. late' = late /\ cb'.voices = <<>>
      BY <1>1, <2>2 DEF SystemCallback, Begin, Idle
    <3>2. ASSUME NEW v \in Voice PROVE ~InMix(v) /\ ~InMix(v)'
      <4>1. ~InMix(v)
        BY <2>1, ContainsOf DEF InMix
      <4>2. (cb.voices = <<>> => ~InMix(v))'
        BY ContainsOf DEF InMix
      <4> QED
        BY <3>1, <4>1, <4>2
    <3>3. late' \in [Voice -> BOOLEAN] /\ \A v \in Voice : Overtaken(v) => Overtaken(v)'
      BY <1>0, <3>1 DEF SampleTypes, Overtaken
    <3> QED
      BY <3>2, <3>3
  <2>3. CASE voices # <<>>
    <3>1. PICK x : cb'.voices = <<x>> /\ Overtakes(x)
      BY <1>1, <2>3 DEF SystemCallback, Begin, Idle
    <3>2. ASSUME NEW v \in Voice PROVE ~InMix(v) /\ (InMix(v)' => v = x)
      <4>1. ~InMix(v)
        BY <2>1, ContainsOf DEF InMix
      <4>2. (\A y : cb.voices = <<y>> => (InMix(v) <=> v = y))'
        BY ContainsOf DEF InMix
      <4> QED
        BY <3>1, <4>1, <4>2
    <3>3. /\ late' \in [Voice -> BOOLEAN]
          /\ \A v \in Voice : Overtaken(v) => Overtaken(v)'
          /\ \A v \in Voice : v = x /\ cpu.at = "written" /\ cpu.voice = v /\ Ahead(v) < submitSize => Overtaken(v)'
      BY <1>0, <3>1, OvertakesFacts
    <3> QED
      BY <1>8, <3>2, <3>3
  <2> QED
    BY <2>2, <2>3
<1>2. CASE Mix
  <2> DEFINE next == NextOf(Head(cb.voices))
             mixed == IF next = None THEN cb.voices ELSE <<Head(cb.voices), next>>
  <2>1. cb.at = "copied" /\ cb'.voices = mixed /\ Overtakes(next)
    BY <1>2 DEF Mix, AccountInv, PlayerInv, CbShape
  <2>2. PICK x : cb.voices = <<x>>
    BY <2>1 DEF MixInv
  <2>3. Head(cb.voices) = x
    BY <2>2
  <2>4. cb'.voices = <<x>> \/ cb'.voices = <<x, next>>
    BY <2>1, <2>2, <2>3
  <2> HIDE DEF next
  <2>5. ASSUME NEW v \in Voice PROVE (InMix(v) <=> v = x) /\ (v = x => InMix(v)') /\ (InMix(v)' => v = x \/ v = next)
    <3>1. InMix(v) <=> v = x
      BY <2>2, ContainsOf DEF InMix
    <3>2. (/\ \A y : cb.voices = <<y>> => (InMix(v) <=> v = y)
           /\ \A y, z : cb.voices = <<y, z>> => (InMix(v) <=> v = y \/ v = z))'
      BY ContainsOf DEF InMix
    <3>3. CASE cb'.voices = <<x>>
      BY <3>1, <3>2, <3>3
    <3>4. CASE cb'.voices = <<x, next>>
      <4>1. PICK y : y = next
        OBVIOUS
      <4> QED
        BY <3>1, <3>2, <3>4, <4>1
    <3> QED
      BY <2>4, <3>3, <3>4
  <2>6. /\ late' \in [Voice -> BOOLEAN]
        /\ \A v \in Voice : Overtaken(v) => Overtaken(v)'
        /\ \A v \in Voice : v = next /\ cpu.at = "written" /\ cpu.voice = v /\ Ahead(v) < submitSize => Overtaken(v)'
    BY <1>0, <2>1, OvertakesFacts
  <2> QED
    BY <1>8, <2>5, <2>6
<1> QED
  BY <1>1, <1>2

\* What the two threads do besides moving samples and heads
LEMMA ControlSamples ==
    ASSUME OneOrTwo, AccountInv, MixInv, SampleInv,
           \/ Enqueue \/ Return \/ _SLMaybeSubmitAndStart
           \/ opensles_systemPause \/ opensles_systemResume \/ opensles_systemSetup \/ UNCHANGED vars
    PROVE  SampleInv'
<1>0. /\ UNCHANGED <<watched, writeHead, readHead, laps, due, late>> /\ voices' = voices
      /\ Range(voices) \subseteq Voice /\ SampleTypes
  <2>1. UNCHANGED <<rings, voices>>
    BY DEF Enqueue, Return, _SLMaybeSubmitAndStart, opensles_systemPause, opensles_systemResume,
       opensles_systemSetup, vars, lists
  <2> QED
    BY <2>1, LinkedOwned DEF AccountInv, rings, ring, SampleInv
<1>1. cpu' = cpu \/ (cpu.at \notin {"locked", "written"} /\ cpu'.at \notin {"locked", "written"})
  <2>1. CASE Return
    <3>1. cpu' = AtRest \/ cpu' = cpu
      BY <2>1 DEF Return
    <3>2. cpu' = AtRest => cpu.at = "callback" \/ cpu' = cpu
      BY <2>1 DEF Return, AccountInv, ThreadInv
    <3> QED
      BY <3>1, <3>2 DEF AtRest
  <2> QED
    BY <2>1 DEF Enqueue, _SLMaybeSubmitAndStart, opensles_systemPause, opensles_systemResume,
       opensles_systemSetup, vars, AtRest
<1>2. cb'.voices = cb.voices \/ (cb.voices = <<>> /\ cpu.at # "written")
  <2>1. CASE Enqueue
    <3>1. cb' = [cb EXCEPT !.at = "fill"] \/ cb' = [cb EXCEPT !.at = "fill", !.failed = TRUE]
      BY <2>1 DEF Enqueue
    <3> QED
      BY <3>1 DEF AccountInv, PlayerInv, CbShape
  <2>2. CASE Return
    <3>1. cb.voices = <<>> /\ cb'.voices = <<>>
      BY <2>2 DEF Return, MixInv, Idle
    <3> QED
      BY <3>1
  <2>3. CASE _SLMaybeSubmitAndStart
    <3>1. cb' = cb \/ playState = "stopped"
      BY <2>3 DEF _SLMaybeSubmitAndStart
    <3>2. playState = "stopped" => cb.voices = <<>>
      BY DEF AccountInv, PlayerInv, MixInv
    <3>3. cpu.at = "unlocked"
      BY <2>3 DEF _SLMaybeSubmitAndStart
    <3> QED
      BY <3>1, <3>2, <3>3
  <2>4. CASE opensles_systemPause \/ opensles_systemResume \/ opensles_systemSetup \/ UNCHANGED vars
    BY <2>4 DEF opensles_systemPause, opensles_systemResume, opensles_systemSetup, vars
  <2> QED
    BY <2>1, <2>2, <2>3, <2>4
<1>3. ASSUME NEW v \in Voice PROVE (InMix(v) => InMix(v)') /\ (cpu.at = "written" => (InMix(v)' => InMix(v)))
  <2>1. CASE cb'.voices = cb.voices
    BY <2>1 DEF InMix
  <2>2. CASE cb.voices = <<>> /\ cpu.at # "written"
    BY <2>2, ContainsOf DEF InMix
  <2> QED
    BY <1>2, <2>1, <2>2
<1>4. ASSUME NEW v \in Voice PROVE Overtaken(v) => Overtaken(v)'
  BY <1>0 DEF Overtaken
<1>5. \A v \in Voice : Kept(v)
  BY <1>0, <1>3, <1>4, KeptBy
<1>6. SampleTypes'
  BY <1>0 DEF SampleTypes
<1> QED
  BY <1>0, <1>1, <1>3, <1>5, <1>6, QuietSamples

\* Cells that are cleared tell of no other frame.
LEMMA FewerCells ==
    ASSUME NEW cells, NEW fewer, fewer \subseteq cells
    PROVE  /\ \A r, ahead, f, d : NoOther(r, ahead, f, cells, d) => NoOther(r, ahead, f, fewer, d)
           /\ \A w, n, ahead, f, d : NoOtherWritten(w, n, ahead, f, cells, d) => NoOtherWritten(w, n, ahead, f, fewer, d)
<1>1. ASSUME NEW r, NEW ahead, NEW f, NEW d, NoOther(r, ahead, f, cells, d) PROVE NoOther(r, ahead, f, fewer, d)
  BY <1>1 DEF NoOther
<1>2. ASSUME NEW w, NEW n, NEW ahead, NEW f, NEW d, NoOtherWritten(w, n, ahead, f, cells, d)
      PROVE  NoOtherWritten(w, n, ahead, f, fewer, d)
  BY <1>2 DEF NoOtherWritten
<1> QED
  BY <1>1, <1>2

\* What a step of the callback has to keep, voice by voice
LEMMA CallbackSamples ==
    ASSUME AccountInv, SampleInv, SampleTypes', voices' = voices, cpu' = cpu, Range(voices) \subseteq Voice,
           \A u \in Voice : DueIn(u)',
           \A u \in Voice : Told(u) => Told(u)',
           \A u \in Voice, n \in Nat \ {0} :
               cpu.at = "written" /\ cpu.voice = u /\ cpu.bytes = n /\ Handed(u, n) => Handed(u, n)'
    PROVE  SampleInv'
<1>1. \A u \in Range(voices) : Told(u)'
  BY DEF SampleInv
<1>2. ASSUME cpu.at = "written" PROVE Handed(cpu.voice, cpu.bytes)'
  <2>1. PICK u \in Voice, n \in Nat \ {0} : u = cpu.voice /\ n = cpu.bytes
    BY <1>2, GrantTyped
  <2>2. Handed(u, n)
    BY <1>2, <2>1 DEF SampleInv
  <2>3. Handed(u, n)'
    BY <1>2, <2>1, <2>2
  <2>4. u = cpu'.voice /\ n = cpu'.bytes
    BY <2>1
  <2> QED
    BY <2>3, <2>4
<1> QED
  BY <1>1, <1>2 DEF SampleInv

\* The voice at the head of the list that the callback holds
LEMMA HeadInMix ==
    ASSUME MixInv, cb.at \in {"fill", "advance"}
    PROVE  InMix(Head(cb.voices))
<1>1. PICK x : cb.voices = <<x>> \/ \E y : cb.voices = <<x, y>>
  BY DEF MixInv
<1>2. Head(cb.voices) = x
  BY <1>1
<1>3. InMix(x)
  <2>1. CASE cb.voices = <<x>>
    BY <2>1, ContainsOf DEF InMix
  <2>2. ASSUME NEW y, cb.voices = <<x, y>> PROVE InMix(x)
    BY <2>2, ContainsOf DEF InMix
  <2> QED
    BY <1>1, <2>1, <2>2
<1> QED
  BY <1>2, <1>3

\* bqPlayerCallback() makes its chunk quiet: nothing behind it is.
LEMMA FillSamples ==
    ASSUME OneOrTwo, AccountInv, MixInv, SampleInv, Fill
    PROVE  SampleInv'
<1>9. PICK v : v = Head(cb.voices)
  OBVIOUS
<1>0. /\ UNCHANGED <<writeHead, readHead, laps, due, late>> /\ voices' = voices /\ cpu' = cpu /\ cb'.voices = cb.voices
      /\ Range(voices) \subseteq Voice /\ SampleTypes
      /\ watched' = [watched EXCEPT ![v] = @ \ Silenced(v)] /\ cb.at = "fill"
  BY <1>9, LinkedOwned DEF Fill, lists, AccountInv, PlayerInv, CbShape, SampleInv
<1>1. InMix(v)
  BY <1>0, <1>9, HeadInMix
<1>2. Silenced(v) = Quieted(readHead[v])
  BY DEF Silenced, Quieted, Crosses
<1>3. SampleTypes'
  BY <1>0 DEF SampleTypes
<1>4. ASSUME NEW u \in Voice
      PROVE  /\ Ahead(u)' = Ahead(u) /\ First(u)' = First(u) /\ (InMix(u)' <=> InMix(u)) /\ (Overtaken(u)' <=> Overtaken(u))
             /\ DueIn(u)'
  <2>1. Ahead(u)' = Ahead(u)
    BY <1>0 DEF Ahead
  <2>2. InMix(u)' <=> InMix(u)
    BY <1>0 DEF InMix
  <2>3. First(u)' = First(u)
    BY <2>2 DEF First
  <2>4. Overtaken(u)' <=> Overtaken(u)
    BY <1>0 DEF Overtaken
  <2>5. DueIn(u)
    BY DEF SampleInv
  <2>6. DueIn(u)'
    BY <1>0, <2>1, <2>5 DEF DueIn
  <2> QED
    BY <2>1, <2>2, <2>3, <2>4, <2>6
<1>5. ASSUME NEW u \in Voice, u # v PROVE Kept(u)
  <2>1. watched'[u] = watched[u]
    BY <1>0, <1>5 DEF SampleTypes
  <2> QED
    BY <1>0, <1>4, <2>1 DEF Kept
<1>6. ASSUME v \in Voice
      PROVE  /\ Told(v) => Told(v)'
             /\ \A n \in Nat \ {0} :
                  cpu.at = "written" /\ cpu.voice = v /\ cpu.bytes = n /\ Handed(v, n) => Handed(v, n)'
  <2>1. PICK a \in Int, d \in Int, r \in 0 .. bufferSize - 1, w \in 0 .. bufferSize - 1 :
            a = Ahead(v) /\ d = due[v] /\ r = readHead[v] /\ w = writeHead[v] /\ a <= bufferSize /\ Laps(w, r, a)
    BY <1>0, <1>6, SampleTyped
  <2>2. PICK cells : cells = watched[v]
    OBVIOUS
  <2>3. watched'[v] = cells \ Quieted(r)
    BY <1>0, <1>2, <1>6, <2>1, <2>2 DEF SampleTypes
  <2>4. First(v) = submitSize /\ First(v)' = submitSize
    BY <1>1, <1>4, <1>6 DEF First
  <2>5. /\ Ahead(v)' = a /\ due'[v] = d /\ readHead'[v] = r /\ writeHead'[v] = w
        /\ (Overtaken(v)' <=> Overtaken(v)) /\ (InMix(v)' <=> InMix(v))
    BY <1>0, <1>4, <1>6, <2>1
  <2>6. ASSUME Told(v) PROVE Told(v)'
    <3>1. NoOther(r, a, submitSize, cells, d) /\ (Overtaken(v) \/ Has(r, a, submitSize, cells, d))
      BY <2>1, <2>2, <2>4, <2>6 DEF Told
    <3>2. NoOther(r, a, submitSize, cells \ Quieted(r), d)
      BY <3>1, FewerCells
    <3>3. Has(r, a, submitSize, cells, d) => Has(r, a, submitSize, cells \ Quieted(r), d)
      BY <2>1, FillKeeps
    <3> QED
      BY <2>3, <2>4, <2>5, <3>1, <3>2, <3>3 DEF Told
  <2>7. ASSUME NEW n \in Nat \ {0}, cpu.at = "written", cpu.voice = v, cpu.bytes = n, Handed(v, n) PROVE Handed(v, n)'
    <3>1. /\ NoOtherWritten(w, n, a, submitSize, cells, d)
          /\ Overtaken(v) \/ HasWritten(w, n, a, submitSize, cells, d)
          /\ InTime(v)
      BY <2>1, <2>2, <2>4, <2>7 DEF Handed
    <3>2. NoOtherWritten(w, n, a, submitSize, cells \ Quieted(r), d)
      BY <3>1, FewerCells
    <3>3. w + n <= bufferSize + submitSize /\ a + n <= bufferSize
      BY <2>1, <2>7, GrantTyped
    <3>4. CASE d < a \/ submitSize <= a
      <4>1. HasWritten(w, n, a, submitSize, cells, d) => HasWritten(w, n, a, submitSize, cells \ Quieted(r), d)
        BY <2>1, <3>3, <3>4, FillKeepsWritten
      <4>2. InTime(v)'
        BY <2>1, <2>5, <3>4 DEF InTime
      <4> QED
        BY <2>3, <2>4, <2>5, <3>1, <3>2, <4>1, <4>2 DEF Handed
    <3>5. CASE d = NotDue
      <4>1. HasWritten(w, n, a, submitSize, cells \ Quieted(r), d)
        BY <3>5, Sizes DEF HasWritten, NotDue
      <4>2. InTime(v)'
        BY <2>5, <3>5 DEF InTime
      <4> QED
        BY <2>3, <2>4, <2>5, <3>1, <3>2, <4>1, <4>2 DEF Handed
    <3>6. CASE Overtaken(v)
      <4>1. InTime(v)'
        BY <2>5, <3>6 DEF InTime
      <4> QED
        BY <2>3, <2>4, <2>5, <3>2, <3>6, <4>1 DEF Handed
    <3>7. Overtaken(v) \/ d = NotDue \/ d < a \/ submitSize <= a
      BY <1>1, <2>1, <3>1 DEF InTime
    <3> QED
      BY <3>4, <3>5, <3>6, <3>7
  <2> QED
    BY <2>6, <2>7
<1>7. ASSUME NEW u \in Voice
      PROVE  /\ Told(u) => Told(u)'
             /\ \A n \in Nat \ {0} :
                  cpu.at = "written" /\ cpu.voice = u /\ cpu.bytes = n /\ Handed(u, n) => Handed(u, n)'
  <2>1. CASE u = v
    <3>1. v \in Voice
      BY <2>1
    <3> QED
      BY <1>6, <2>1, <3>1
  <2>2. CASE u # v
    <3>1. Told(u) => Told(u)'
      BY <1>0, <1>5, <2>2, KeptTold
    <3>2. ASSUME NEW n \in Nat \ {0}, Handed(u, n) PROVE Handed(u, n)'
      <4>1. InMix(u)' => InMix(u)
        BY <1>4
      <4> QED
        BY <1>0, <1>5, <2>2, <3>2, <4>1, KeptHanded
    <3> QED
      BY <3>1, <3>2
  <2> QED
    BY <2>1, <2>2
<1> QED
  BY <1>0, <1>3, <1>4, <1>7, CallbackSamples

\* bqPlayerCallback() moves its reader a chunk on: what is behind the chunk waits for less.
LEMMA AdvanceSamples ==
    ASSUME OneOrTwo, AccountInv, MixInv, SampleInv, Advance
    PROVE  SampleInv'
<1>9. PICK v : v = Head(cb.voices)
  OBVIOUS
<1>0. /\ UNCHANGED <<watched, writeHead, late>> /\ voices' = voices /\ cpu' = cpu /\ cb'.voices = Tail(cb.voices)
      /\ Range(voices) \subseteq Voice /\ SampleTypes
      /\ readHead' = [readHead EXCEPT ![v] = IF Crosses(v) THEN @ + submitSize - bufferSize ELSE @ + submitSize]
      /\ due' = [due EXCEPT ![v] = IF @ >= submitSize THEN @ - submitSize ELSE NotDue]
      /\ cb.at = "advance" /\ RingInv
  BY <1>9, LinkedOwned DEF Advance, lists, AccountInv, PlayerInv, CbShape, SampleInv
<1>1. \A u \in Voice : Ahead(u)' = IF u = v THEN Ahead(v) - submitSize ELSE Ahead(u)
  BY <1>0, <1>9, AdvanceMoves DEF Moved
<1>2. InMix(v)
  BY <1>0, <1>9, HeadInMix
<1>3. ASSUME NEW u \in Voice
      PROVE  /\ u # v /\ InMix(u) => InMix(u)'
             /\ u = v /\ cpu.at = "written" => ~InMix(u)'
             /\ u # v /\ InMix(u)' => InMix(u)
  <2>1. PICK x : \/ cb.voices = <<x>>
                 \/ \E y : cb.voices = <<x, y>> /\ (cpu.at # "destroy" => x # y)
    BY <1>0 DEF MixInv
  <2>2. CASE cb.voices = <<x>>
    <3>1. cb'.voices = <<>> /\ x = v
      BY <1>0, <1>9, <2>2
    <3>2. (InMix(u) => u = v) /\ ~InMix(u)'
      BY <2>2, <3>1, ContainsOf DEF InMix
    <3> QED
      BY <3>2
  <2>3. ASSUME NEW y, cb.voices = <<x, y>>, cpu.at # "destroy" => x # y
        PROVE  /\ u # v /\ InMix(u) => InMix(u)'
               /\ u = v /\ cpu.at = "written" => ~InMix(u)'
               /\ u # v /\ InMix(u)' => InMix(u)
    <3>1. cb'.voices = <<y>> /\ x = v
      BY <1>0, <1>9, <2>3
    <3>2. InMix(u) <=> u = v \/ u = y
      BY <2>3, <3>1, ContainsOf DEF InMix
    <3>3. InMix(u)' <=> u = y
      BY <3>1, ContainsOf DEF InMix
    <3> QED
      BY <2>3, <3>1, <3>2, <3>3
  <2> QED
    BY <2>1, <2>2, <2>3
<1>4. SampleTypes'
  <2>1. \A d \in Int : (IF d >= submitSize THEN d - submitSize ELSE NotDue) \in Int
    BY Sizes DEF NotDue
  <2>2. due' \in [Voice -> Int]
    BY <1>0, <2>1 DEF SampleTypes
  <2> QED
    BY <1>0, <2>2 DEF SampleTypes
<1>5. ASSUME NEW u \in Voice PROVE Overtaken(u)' <=> Overtaken(u)
  BY <1>0 DEF Overtaken
<1>6. ASSUME NEW u \in Voice, u # v PROVE Kept(u)
  <2>1. readHead'[u] = readHead[u] /\ due'[u] = due[u]
    BY <1>0, <1>6 DEF SampleTypes, RingInv
  <2> QED
    BY <1>0, <1>1, <1>3, <1>5, <1>6, <2>1 DEF Kept
<1>7. ASSUME v \in Voice
      PROVE  /\ DueIn(v)' /\ (Told(v) => Told(v)')
             /\ \A n \in Nat \ {0} :
                  cpu.at = "written" /\ cpu.voice = v /\ cpu.bytes = n /\ Handed(v, n) => Handed(v, n)'
  <2>1. PICK a \in Int, d \in Int, r \in 0 .. bufferSize - 1, w \in 0 .. bufferSize - 1 :
            a = Ahead(v) /\ d = due[v] /\ r = readHead[v] /\ w = writeHead[v] /\ a <= bufferSize
    BY <1>0, <1>7, SampleTyped
  <2>2. PICK cells : cells = watched[v]
    OBVIOUS
  <2>3. PICK e \in Int : e = IF d >= submitSize THEN d - submitSize ELSE NotDue
    <3>1. (IF d >= submitSize THEN d - submitSize ELSE NotDue) \in Int
      BY <2>1, Sizes DEF NotDue
    <3> QED
      BY <3>1
  <2>4. e = d - submitSize \/ (d < submitSize /\ e < 0)
    BY <2>3, Sizes DEF NotDue
  <2>5. First(v) = submitSize
    BY <1>2 DEF First
  <2>6. /\ Ahead(v)' = a - submitSize /\ due'[v] = e /\ readHead'[v] = NextHead(r)
        /\ writeHead'[v] = w /\ watched'[v] = cells
    BY <1>0, <1>1, <1>7, <2>1, <2>2, <2>3 DEF SampleTypes, RingInv, NextHead, Crosses
  <2>7. PICK g \in Nat : g = First(v)'
    BY Sizes DEF First
  <2>8. DueIn(v)'
    <3>1. DueIn(v)
      BY <1>7 DEF SampleInv
    <3>2. CASE d >= submitSize
      <4> DEFINE more == IF cpu.at = "written" /\ cpu.voice = v THEN cpu.bytes ELSE 0
      <4>1. d # NotDue
        BY <3>2, Sizes DEF NotDue
      <4>2. v \in Range(voices) /\ d < a + more
        BY <2>1, <3>1, <4>1 DEF DueIn
      <4>3. PICK m \in Nat : m = more
        BY GrantTyped
      <4>4. more' = more
        BY <1>0
      <4>5. e \in Nat /\ e < (a - submitSize) + m
        BY <2>3, <3>2, <4>2, <4>3, Sizes
      <4>6. v \in Range(voices')
        BY <1>0, <4>2
      <4> QED
        BY <2>6, <4>3, <4>4, <4>5, <4>6 DEF DueIn
    <3>3. CASE ~(d >= submitSize)
      BY <2>3, <2>6, <3>3 DEF DueIn
    <3> QED
      BY <3>2, <3>3
  <2>9. ASSUME Told(v) PROVE Told(v)'
    <3>1. NoOther(r, a, submitSize, cells, d) /\ (Overtaken(v) \/ Has(r, a, submitSize, cells, d))
      BY <2>1, <2>2, <2>5, <2>9 DEF Told
    <3>2. /\ NoOther(r, a, submitSize, cells, d) => NoOther(NextHead(r), a - submitSize, 0, cells, e)
          /\ Has(r, a, submitSize, cells, d) => Has(NextHead(r), a - submitSize, 0, cells, e)
      BY <2>1, <2>4, AdvanceKeeps
    <3>3. a - submitSize \in Int /\ 0 \in Int /\ g \in Int /\ 0 <= g
      BY <2>1, <2>7, Sizes
    <3>4. /\ NoOther(NextHead(r), a - submitSize, 0, cells, e) => NoOther(NextHead(r), a - submitSize, g, cells, e)
          /\ Has(NextHead(r), a - submitSize, 0, cells, e) => Has(NextHead(r), a - submitSize, g, cells, e)
      BY <3>3, FromLater
    <3> QED
      BY <1>5, <1>7, <2>6, <2>7, <3>1, <3>2, <3>4 DEF Told
  <2>10. ASSUME NEW n \in Nat \ {0}, cpu.at = "written", cpu.voice = v, cpu.bytes = n, Handed(v, n) PROVE Handed(v, n)'
    <3>1. /\ NoOtherWritten(w, n, a, submitSize, cells, d)
          /\ Overtaken(v) \/ HasWritten(w, n, a, submitSize, cells, d)
      BY <2>1, <2>2, <2>5, <2>10 DEF Handed
    <3>2. /\ NoOtherWritten(w, n, a, submitSize, cells, d) => NoOtherWritten(w, n, a - submitSize, 0, cells, e)
          /\ HasWritten(w, n, a, submitSize, cells, d) => HasWritten(w, n, a - submitSize, 0, cells, e)
      BY <2>1, <2>4, AdvanceKeepsWritten
    <3>3. ~InMix(v)'
      BY <1>3, <1>7, <2>10
    <3>4. First(v)' = 0 /\ InTime(v)'
      BY <3>3 DEF First, InTime
    <3> QED
      BY <1>5, <1>7, <2>6, <3>1, <3>2, <3>4 DEF Handed
  <2> QED
    BY <2>8, <2>9, <2>10
<1>8. ASSUME NEW u \in Voice
      PROVE  /\ DueIn(u)' /\ (Told(u) => Told(u)')
             /\ \A n \in Nat \ {0} :
                  cpu.at = "written" /\ cpu.voice = u /\ cpu.bytes = n /\ Handed(u, n) => Handed(u, n)'
  <2>1. CASE u = v
    <3>1. v \in Voice
      BY <2>1
    <3> QED
      BY <1>7, <2>1, <3>1
  <2>2. CASE u # v
    <3>1. Told(u) => Told(u)'
      BY <1>0, <1>6, <2>2, KeptTold
    <3>2. ASSUME NEW n \in Nat \ {0}, Handed(u, n) PROVE Handed(u, n)'
      <4>1. InMix(u)' => InMix(u)
        BY <1>3, <2>2
      <4> QED
        BY <1>0, <1>6, <2>2, <3>2, <4>1, KeptHanded
    <3>3. DueIn(u)'
      <4>1. DueIn(u)
        BY DEF SampleInv
      <4>2. Ahead(u)' = Ahead(u) /\ due'[u] = due[u]
        BY <1>6, <2>2 DEF Kept
      <4> QED
        BY <1>0, <4>1, <4>2 DEF DueIn
    <3> QED
      BY <3>1, <3>2, <3>3
  <2> QED
    BY <2>1, <2>2
<1> QED
  BY <1>0, <1>4, <1>8, CallbackSamples

\* GetCurrentPosition() and Lock() resynchronise a writer that has nothing pending.
LEMMA CheckSamples ==
    ASSUME OneOrTwo, FrameLeft, AccountInv, SampleInv, NEW v \in Voice, cpu.at = "idle",
           _underrun_check_and_manage(v),
           UNCHANGED <<watched, readHead, due, late, voices, cb>>, cpu'.at \in {"idle", "locked"},
           cpu'.at = "locked" => cpu'.bytes <= bufferSize
    PROVE  SampleInv'
<1>0. /\ RingInv /\ SampleTypes /\ Ahead(v) < bufferSize /\ Ahead(v) \in Int
      /\ Range(voices) = Voice
  BY HeadsTyped, Linked DEF AccountInv, SampleInv, FilledInv, Starting
<1>1. Moved(v, workingBytes(v))
  BY <1>0, CheckMoves
<1>2. workingBytes(v) = IF Ahead(v) < 0 THEN 0 ELSE Ahead(v)
  BY <1>0, Pending
<1>3. ASSUME NEW u \in Voice PROVE DueIn(u)' /\ Told(u)'
  <2>1. PICK a \in Int, d \in Int, f \in Nat : a = Ahead(u) /\ d = due[u] /\ f = First(u)
    BY <1>0, SampleTyped
  <2>2. PICK b \in Int : b = Ahead(u)' /\ b = IF u = v /\ a < 0 THEN 0 ELSE a
    BY <1>1, <1>2, <2>1 DEF Moved
  <2>3. First(u)' = f /\ (Overtaken(u)' <=> Overtaken(u)) /\ readHead'[u] = readHead[u] /\ watched'[u] = watched[u] /\ due'[u] = d
    BY <2>1 DEF First, InMix, Overtaken
  <2>4. d = NotDue \/ (u \in Range(voices) /\ d \in Nat /\ d < a)
    BY <2>1 DEF SampleInv, DueIn
  <2>5. DueIn(u)'
    <3>1. d = NotDue \/ (u \in Range(voices') /\ d \in Nat /\ d < b)
      BY <2>2, <2>4
    <3> QED
      BY <2>2, <2>3, <3>1 DEF DueIn
  <2>6. /\ NoOther(readHead[u], a, f, watched[u], d)
        /\ Overtaken(u) \/ Has(readHead[u], a, f, watched[u], d)
    BY <1>0, <2>1 DEF SampleInv, Told
  <2>7. ASSUME b = a PROVE Told(u)'
    BY <2>2, <2>3, <2>6, <2>7 DEF Told
  <2>8. ASSUME b = 0 PROVE Told(u)'
    <3>1. NoOther(readHead[u], b, f, watched[u], d) /\ Has(readHead[u], b, f, watched[u], d)
      BY <2>8 DEF NoOther, Has
    <3> QED
      BY <2>2, <2>3, <3>1 DEF Told
  <2> QED
    BY <2>2, <2>5, <2>7, <2>8
<1>4. SampleTypes'
  BY <1>0 DEF SampleTypes
<1>5. \A u \in Range(voices') : Told(u)'
  BY <1>0, <1>3
<1> QED
  BY <1>3, <1>4, <1>5 DEF SampleInv

\* SLLockBuffer() moves the writer only when nothing is pending.
LEMMA LockSamples ==
    ASSUME OneOrTwo, FrameLeft, AccountInv, SampleInv, NEW v \in Voice, NEW m \in Writes, SLLockBuffer(v, m)
    PROVE  SampleInv'
<1>1. /\ cpu.at = "idle" /\ _underrun_check_and_manage(v)
      /\ UNCHANGED <<watched, readHead, due, late, voices, cb>>
      /\ cpu' = [at |-> "locked", voice |-> v, bytes |-> Granted(v, m)]
  BY DEF SLLockBuffer, lists
<1>2. Granted(v, m) <= bufferSize
  <2>1. workingBytes(v) \in Nat /\ Checked(v).head \in Int
    BY <1>1, CheckAccount DEF AccountInv
  <2>2. PICK p \in Nat, h \in Int : p = workingBytes(v) /\ h = Checked(v).head
    BY <2>1
  <2>3. Granted(v, m) = Smaller(m, Smaller(bufferSize - p, bufferSize + submitSize - h)) /\ m \in Nat
    BY <2>2, RingAssumption DEF Granted
  <2> QED
    BY <2>3, Sizes DEF Smaller
<1> QED
  BY <1>1, <1>2, CheckSamples

\* So does SLGetPosition().
LEMMA PositionSamples ==
    ASSUME OneOrTwo, FrameLeft, AccountInv, SampleInv, NEW v \in Voice, SLGetPosition(v)
    PROVE  SampleInv'
BY CheckSamples DEF SLGetPosition, lists

\* What an owner writes covers nothing that is pending, and may have a sample that will be due.
LEMMA WriteSamples ==
    ASSUME OneOrTwo, AccountInv, SampleInv, Write
    PROVE  SampleInv'
<1>1. /\ cpu.at = "locked" /\ Written(cpu.voice, cpu.bytes)
      /\ cpu' = [at |-> "written", voice |-> cpu.voice, bytes |-> cpu.bytes]
      /\ UNCHANGED <<writeHead, readHead, laps, voices, cb>>
  BY DEF Write, lists, AccountInv, CpuShape
<1>2. PICK v \in Voice, n \in Nat \ {0} :
          /\ v = cpu.voice /\ n = cpu.bytes /\ writeHead[v] + n <= bufferSize + submitSize /\ Ahead(v) + n <= bufferSize
  BY <1>1, GrantTyped
<1>3. SampleTypes /\ Range(voices) = Voice /\ n <= bufferSize
  BY <1>1, <1>2, Linked DEF AccountInv, SampleInv
<1>4. PICK a \in Int, d \in Int, r \in 0 .. bufferSize - 1, w \in 0 .. bufferSize - 1, f \in Nat :
          a = Ahead(v) /\ d = due[v] /\ r = readHead[v] /\ w = writeHead[v] /\ f = First(v) /\ a <= bufferSize /\ Laps(w, r, a)
  BY <1>3, SampleTyped
<1>5. PICK cells : cells = watched[v] /\ cells \subseteq Int
  BY <1>3 DEF SampleTypes
<1>6. /\ d = NotDue \/ (d \in Nat /\ d < a)
      /\ NoOther(r, a, f, cells, d) /\ (Overtaken(v) \/ Has(r, a, f, cells, d))
  BY <1>1, <1>3, <1>4, <1>5 DEF SampleInv, DueIn, Told
<1>7. \A j \in 0 .. a - 1 : Main(r, j) \notin Span(w, n) /\ (Doubled(r, j) => r + j \notin Span(w, n))
  BY <1>2, <1>4, WriteKeeps
<1>8. \A u \in Voice : Ahead(u)' = Ahead(u) /\ First(u)' = First(u) /\ (InMix(u)' <=> InMix(u))
  BY <1>1 DEF Ahead, First, InMix
<1>9. PICK untouched : untouched = cells \ Span(w, n)
  OBVIOUS
<1>10. ASSUME NEW e \in Int, NEW after \in SUBSET Int,
              watched' = [watched EXCEPT ![v] = after], due' = [due EXCEPT ![v] = e], late' \in [Voice -> BOOLEAN],
              \A u \in Voice : u # v => (Overtaken(u) => Overtaken(u)'),
              e = NotDue \/ (e \in Nat /\ e < a + n),
              NoOther(r, a, f, after, e), Overtaken(v)' \/ Has(r, a, f, after, e),
              NoOtherWritten(w, n, a, f, after, e), Overtaken(v)' \/ HasWritten(w, n, a, f, after, e),
              Overtaken(v)' \/ ~InMix(v) \/ e = NotDue \/ e < a \/ submitSize <= a
       PROVE  SampleInv'
  <2>1. watched'[v] = after /\ due'[v] = e
    BY <1>3, <1>10 DEF SampleTypes
  <2>2. SampleTypes'
    BY <1>3, <1>10 DEF SampleTypes
  <2>3. /\ Ahead(v)' = a /\ First(v)' = f /\ readHead'[v] = r /\ writeHead'[v] = w /\ (InMix(v)' <=> InMix(v))
    BY <1>1, <1>4, <1>8
  <2>4. Told(v)'
    BY <1>10, <2>1, <2>3 DEF Told
  <2>5. InTime(v)'
    BY <1>10, <2>1, <2>3 DEF InTime
  <2>6. Handed(v, n)'
    BY <1>10, <2>1, <2>3, <2>5 DEF Handed
  <2>7. DueIn(v)'
    <3>1. v \in Range(voices') /\ cpu'.at = "written" /\ cpu'.voice = v /\ cpu'.bytes = n
      BY <1>1, <1>2, <1>3
    <3> QED
      BY <1>10, <2>1, <2>3, <3>1 DEF DueIn
  <2>8. ASSUME NEW u \in Voice, u # v PROVE Told(u)' /\ DueIn(u)'
    <3>1. watched'[u] = watched[u] /\ due'[u] = due[u]
      BY <1>3, <1>10, <2>8 DEF SampleTypes
    <3>2. Kept(u)
      BY <1>1, <1>8, <1>10, <2>8, <3>1 DEF Kept
    <3>3. Told(u) /\ DueIn(u)
      BY <1>3 DEF SampleInv
    <3>4. Told(u)'
      BY <1>3, <3>2, <3>3, KeptTold
    <3>8. PICK b \in Int : b = Ahead(u)
      BY <1>3, SampleTyped
    <3>5. due[u] = NotDue \/ (u \in Range(voices) /\ due[u] \in Nat /\ due[u] < b)
      BY <1>1, <3>3, <3>8 DEF DueIn
    <3>6. cpu'.voice # u
      BY <1>1, <1>2, <2>8
    <3>7. DueIn(u)'
      <4>1. Ahead(u)' = b /\ voices' = voices
        BY <1>1, <1>8, <3>8
      <4> QED
        BY <3>1, <3>5, <3>6, <4>1 DEF DueIn
    <3> QED
      BY <3>4, <3>7
  <2>9. cpu'.at = "written" /\ cpu'.voice = v /\ cpu'.bytes = n
    BY <1>1, <1>2
  <2>10. \A u \in Voice : Told(u)' /\ DueIn(u)'
    BY <2>4, <2>7, <2>8
  <2>11. \A u \in Range(voices') : Told(u)'
    BY <1>1, <1>3, <2>10
  <2>12. Handed(cpu.voice, cpu.bytes)'
    BY <2>6, <2>9
  <2>13. cpu'.bytes <= bufferSize
    BY <1>3, <2>9
  <2> QED
    BY <2>2, <2>10, <2>11, <2>12, <2>13 DEF SampleInv
<1>11. \A e, g, ahead : NoOther(r, ahead, g, cells, e) => NoOther(r, ahead, g, untouched, e)
  BY <1>9, FewerCells
<1>12. CASE watched' = [watched EXCEPT ![v] = untouched] /\ due' = due /\ late' = late
  <2>1. Has(r, a, f, cells, d) => Has(r, a, f, untouched, d)
    <3>1. d \in f .. a - 1 => d \in 0 .. a - 1
      OBVIOUS
    <3> QED
      BY <1>7, <1>9, <3>1 DEF Has
  <2>2. NoOtherWritten(w, n, a, f, untouched, d)
    BY <1>9 DEF NoOtherWritten, Span
  <2>3. HasWritten(w, n, a, f, untouched, d)
    BY <1>6 DEF HasWritten, NotDue
  <2>4. due' = [due EXCEPT ![v] = d] /\ late' \in [Voice -> BOOLEAN]
    BY <1>3, <1>4, <1>12 DEF SampleTypes
  <2>5. untouched \in SUBSET Int
    BY <1>5, <1>9
  <2>6. \A u \in Voice : Overtaken(u)' <=> Overtaken(u)
    BY <1>12 DEF Overtaken
  <2>7. d = NotDue \/ (d \in Nat /\ d < a + n)
    BY <1>6
  <2> QED
    BY <1>6, <1>10, <1>11, <1>12, <2>1, <2>2, <2>3, <2>4, <2>5, <2>6, <2>7
<1>13. ASSUME NEW k \in 0 .. n - 1, d = NotDue,
              watched' = [watched EXCEPT ![v] = untouched \cup {w + k}],
              due' = [due EXCEPT ![v] = IF a + k >= 0 THEN a + k ELSE NotDue],
              late' = [late EXCEPT ![v] = InMix(v) /\ a < submitSize]
       PROVE  SampleInv'
  <2> DEFINE after == untouched \cup {w + k}
  <2>1. PICK e \in Int : e = (IF a + k >= 0 THEN a + k ELSE NotDue) /\ (e = NotDue \/ (e = a + k /\ e \in Nat))
                         /\ (a + k >= 0 => e = a + k)
    BY DEF NotDue
  <2>2. w + k \in Span(w, n) /\ w + k \in Int
    BY DEF Span
  <2>3. NoOther(r, a, f, after, e)
    <3> SUFFICES ASSUME NEW j \in f .. a - 1
                 PROVE  Main(r, j) \notin after /\ (Doubled(r, j) => r + j \notin after)
      BY DEF NoOther
    <3>1. j \in 0 .. a - 1 /\ j # d
      BY <1>13 DEF NotDue
    <3>2. Main(r, j) \notin cells /\ (Doubled(r, j) => r + j \notin cells)
      BY <1>6, <3>1 DEF NoOther
    <3> QED
      BY <1>7, <1>9, <2>2, <3>1, <3>2
  <2>4. Has(r, a, f, after, e)
    BY <2>1 DEF Has, NotDue
  <2>5. NoOtherWritten(w, n, a, f, after, e)
    <3> SUFFICES ASSUME NEW i \in 0 .. n - 1, a + i >= f, w + i \in after PROVE e = a + i
      BY DEF NoOtherWritten
    <3>1. w + i \notin untouched
      BY <1>9 DEF Span
    <3>2. i = k
      BY <3>1
    <3>3. a + k >= 0
      BY <3>2
    <3> QED
      BY <2>1, <3>2, <3>3
  <2>6. HasWritten(w, n, a, f, after, e)
    <3> SUFFICES ASSUME a <= e, f <= e PROVE w + (e - a) \in after
      BY DEF HasWritten
    <3>1. e = a + k
      BY <2>1 DEF NotDue
    <3> QED
      BY <3>1
  <2>7. late' \in [Voice -> BOOLEAN] /\ (\A u \in Voice : u # v => late'[u] = late[u])
        /\ late'[v] = (InMix(v) /\ a < submitSize)
    <3>1. late' \in [Voice -> BOOLEAN]
      BY <1>3, <1>13, Zenon DEF SampleTypes, InMix, Contains
    <3>2. \A u \in Voice : u # v => late'[u] = late[u]
      BY <1>3, <1>13, Zenon DEF SampleTypes
    <3>3. late'[v] = (InMix(v) /\ a < submitSize)
      BY <1>3, <1>13, Zenon DEF SampleTypes
    <3> QED
      BY <3>1, <3>2, <3>3
  <2>8. (\A u \in Voice : u # v => (Overtaken(u) => Overtaken(u)')) /\ (InMix(v) /\ a < submitSize => Overtaken(v)')
    BY <2>7, Zenon DEF Overtaken
  <2>9. a < submitSize \/ submitSize <= a
    BY Sizes
  <2>10. Overtaken(v)' \/ ~InMix(v) \/ submitSize <= a
    BY <2>8, <2>9
  <2>11. after \in SUBSET Int
    BY <1>5, <1>9, <2>2
  <2>12. e = NotDue \/ (e \in Nat /\ e < a + n)
    <3>1. a + k < a + n
      OBVIOUS
    <3> QED
      BY <2>1, <3>1
  <2>13. due' = [due EXCEPT ![v] = e] /\ watched' = [watched EXCEPT ![v] = after] /\ late' \in [Voice -> BOOLEAN]
    BY <1>13, <2>1, <2>7
  <2>14. \A u \in Voice : u # v => (Overtaken(u) => Overtaken(u)')
    BY <2>8
  <2> HIDE DEF after
  <2> QED
    BY <1>10, <2>3, <2>4, <2>5, <2>6, <2>10, <2>11, <2>12, <2>13, <2>14
<1> QED
  <2>1. Written(v, n)
    BY <1>1, <1>2
  <2>2. CASE watched' = [watched EXCEPT ![v] = untouched] /\ UNCHANGED <<due, late>>
    BY <1>12, <2>2
  <2>3. ASSUME NEW k \in 0 .. n - 1,
          /\ v \in Watched /\ due[v] = NotDue
          /\ watched' = [watched EXCEPT ![v] = untouched \cup {writeHead[v] + k}]
          /\ due' = [due EXCEPT ![v] = IF Ahead(v) + k >= 0 THEN Ahead(v) + k ELSE NotDue]
          /\ late' = [late EXCEPT ![v] = InMix(v) /\ Ahead(v) < submitSize]
        PROVE SampleInv'
    <3>1. /\ d = NotDue
          /\ watched' = [watched EXCEPT ![v] = untouched \cup {w + k}]
          /\ due' = [due EXCEPT ![v] = IF a + k >= 0 THEN a + k ELSE NotDue]
          /\ late' = [late EXCEPT ![v] = InMix(v) /\ a < submitSize]
      BY <1>4, <2>3
    <3> QED
      BY <1>13, <3>1
  <2>4. untouched = watched[v] \ Span(writeHead[v], n)
    BY <1>4, <1>5, <1>9
  <2> QED
    BY <2>1, <2>2, <2>3, <2>4 DEF Written

\* SLUnlockBuffer() leaves in the ring what Joined() says.
LEMMA UnlockedCells ==
    ASSUME AccountInv, SampleTypes, NEW v \in Voice, NEW n \in Nat, Unlocked(v, n)
    PROVE  /\ watched'[v] = Joined(watched[v], writeHead[v], n)
           /\ \A u \in Voice : u # v => watched'[u] = watched[u] /\ writeHead'[u] = writeHead[u]
           /\ watched' \in [Voice -> SUBSET Int]
<1>1. PICK w \in 0 .. bufferSize - 1 : w = writeHead[v]
  BY SampleTyped
<1>2. PICK cells \in SUBSET Int : cells = watched[v]
  BY DEF SampleTypes
<1>3. ASSUME NEW from \in Int, NEW to \in Int, NEW m \in Int, Copied(v, from, to, m)
      PROVE  watched' = [watched EXCEPT ![v] = Moves(cells, from, to, m)] /\ Moves(cells, from, to, m) \in SUBSET Int
  <2>1. watched' = [watched EXCEPT ![v] = Moves(cells, from, to, m)]
    BY <1>2, <1>3 DEF Copied, Moves
  <2>2. \A k \in {k \in 0 .. m - 1 : from + k \in cells} : to + k \in Int
    OBVIOUS
  <2>3. {to + k : k \in {k \in 0 .. m - 1 : from + k \in cells}} \subseteq Int
    BY <2>2
  <2> QED
    BY <2>1, <2>3 DEF Moves
<1>4. /\ watched' = [watched EXCEPT ![v] = Joined(cells, w, n)] /\ Joined(cells, w, n) \in SUBSET Int
      /\ writeHead' = [writeHead EXCEPT ![v] = writeHead'[v]]
  <2>1. CASE w + n >= bufferSize
    <3>1. ~(w + n < bufferSize)
      BY <2>1, Sizes
    <3>2. Copied(v, bufferSize, 0, w + n - bufferSize) /\ writeHead' = [writeHead EXCEPT ![v] = w + n - bufferSize]
      <4> DEFINE head == writeHead[v] + n
      <4>1. head = w + n
        BY <1>1
      <4>2. \/ /\ head >= bufferSize
               /\ writeHead' = [writeHead EXCEPT ![v] = head - bufferSize]
               /\ Copied(v, bufferSize, 0, head - bufferSize)
            \/ head < bufferSize
        BY DEF Unlocked
      <4>3. head - bufferSize = w + n - bufferSize
        BY <4>1, Sizes
      <4> HIDE DEF head
      <4> QED
        BY <3>1, <4>1, <4>2, <4>3
    <3>3. Joined(cells, w, n) = Moves(cells, bufferSize, 0, w + n - bufferSize)
      BY <2>1 DEF Joined
    <3>4. w + n - bufferSize \in Int /\ 0 \in Int /\ bufferSize \in Int
      BY Sizes
    <3>5. writeHead' = [writeHead EXCEPT ![v] = writeHead'[v]]
      BY <3>2 DEF AccountInv, RingInv
    <3> QED
      BY <1>3, <3>2, <3>3, <3>4, <3>5
  <2>2. CASE ~(w + n >= bufferSize)
    <3>1. w + n < bufferSize
      BY <2>2, Sizes
    <3>2. Mirrored(v, w, n) /\ writeHead' = [writeHead EXCEPT ![v] = w + n]
      BY <1>1, <2>2, <3>1 DEF Unlocked
    <3>3. writeHead' = [writeHead EXCEPT ![v] = writeHead'[v]]
      BY <3>2 DEF AccountInv, RingInv
    <3>4. CASE w < submitSize
      <4>1. Copied(v, w, bufferSize + w, Smaller(n, submitSize - w))
        BY <3>2, <3>4 DEF Mirrored
      <4>2. Joined(cells, w, n) = Moves(cells, w, bufferSize + w, Smaller(n, submitSize - w))
        BY <2>2, <3>4 DEF Joined
      <4>3. w \in Int /\ bufferSize + w \in Int /\ Smaller(n, submitSize - w) \in Int
        BY Sizes DEF Smaller
      <4> QED
        BY <1>3, <3>3, <4>1, <4>2, <4>3
    <3>5. CASE ~(w < submitSize)
      <4>1. watched' = watched /\ Joined(cells, w, n) = cells
        BY <2>2, <3>2, <3>5 DEF Mirrored, Joined
      <4> QED
        BY <1>2, <3>3, <4>1 DEF SampleTypes
    <3> QED
      BY <3>4, <3>5
  <2> QED
    BY <2>1, <2>2
<1> QED
  BY <1>1, <1>2, <1>4 DEF SampleTypes, AccountInv, RingInv

\* SLUnlockBuffer() makes pending what was written, in every cell where it may be read.
LEMMA UnlockSamples ==
    ASSUME OneOrTwo, AccountInv, SampleInv, SLUnlockBuffer
    PROVE  SampleInv'
<1>1. /\ cpu.at = "written" /\ Unlocked(cpu.voice, cpu.bytes) /\ cpu'.at = "unlocked"
      /\ UNCHANGED <<readHead, due, late, voices, cb>>
  BY DEF SLUnlockBuffer, AtRest, lists
<1>2. PICK v \in Voice, n \in Nat \ {0} :
          /\ v = cpu.voice /\ n = cpu.bytes /\ writeHead[v] + n <= bufferSize + submitSize /\ Ahead(v) + n <= bufferSize
  BY <1>1, GrantTyped
<1>3. /\ SampleTypes /\ Range(voices) = Voice /\ n <= bufferSize /\ Unlocked(v, n) /\ n \in Nat /\ n > 0
      /\ RingInv
  BY <1>1, <1>2, Linked DEF AccountInv, SampleInv
<1>4. PICK a \in Int, d \in Int, r \in 0 .. bufferSize - 1, w \in 0 .. bufferSize - 1, f \in Nat :
          a = Ahead(v) /\ d = due[v] /\ r = readHead[v] /\ w = writeHead[v] /\ f = First(v) /\ a <= bufferSize /\ Laps(w, r, a)
  BY <1>3, SampleTyped
<1>5. PICK cells : cells = watched[v]
  OBVIOUS
<1>6. \A u \in Voice : Ahead(u)' = IF u = v THEN a + n ELSE Ahead(u)
  BY <1>1, <1>2, <1>3, <1>4, UnlockMoves DEF Moved
<1>7. /\ watched'[v] = Joined(cells, w, n) /\ watched' \in [Voice -> SUBSET Int]
      /\ \A u \in Voice : u # v => watched'[u] = watched[u] /\ writeHead'[u] = writeHead[u]
  BY <1>3, <1>4, <1>5, UnlockedCells
<1>8. SampleTypes'
  BY <1>1, <1>3, <1>7 DEF SampleTypes
<1>9. \A u \in Voice : First(u)' = First(u) /\ (InMix(u)' <=> InMix(u)) /\ (Overtaken(u)' <=> Overtaken(u))
  BY <1>1 DEF First, InMix, Overtaken
<1>10. Told(v)'
  <2>1. /\ NoOther(r, a, f, cells, d) /\ (Overtaken(v) \/ Has(r, a, f, cells, d))
    BY <1>3, <1>4, <1>5 DEF SampleInv, Told
  <2>2. Handed(v, n)
    BY <1>1, <1>2 DEF SampleInv
  <2>3. NoOtherWritten(w, n, a, f, cells, d) /\ (Overtaken(v) \/ HasWritten(w, n, a, f, cells, d))
    BY <1>4, <1>5, <2>2 DEF Handed
  <2>4. /\ NoOther(r, a, f, cells, d) /\ NoOtherWritten(w, n, a, f, cells, d)
                => NoOther(r, a + n, f, Joined(cells, w, n), d)
        /\ Has(r, a, f, cells, d) /\ HasWritten(w, n, a, f, cells, d)
                => Has(r, a + n, f, Joined(cells, w, n), d)
    BY <1>2, <1>3, <1>4, UnlockKeeps
  <2>5. readHead'[v] = r /\ Ahead(v)' = a + n /\ First(v)' = f /\ due'[v] = d
    BY <1>1, <1>4, <1>6, <1>9
  <2> QED
    BY <1>7, <1>9, <2>1, <2>3, <2>4, <2>5 DEF Told
<1>11. ASSUME NEW u \in Voice PROVE Told(u)' /\ DueIn(u)'
  <2>1. DueIn(u) /\ Told(u)
    BY <1>3 DEF SampleInv
  <2>2. CASE u = v
    <3>1. d = NotDue \/ (v \in Range(voices) /\ d \in Nat /\ d < a + n)
      BY <1>1, <1>2, <1>4, <2>1, <2>2 DEF DueIn
    <3>2. Ahead(v)' = a + n /\ due'[v] = d /\ voices' = voices
      BY <1>1, <1>4, <1>6
    <3>3. DueIn(v)'
      BY <1>1, <3>1, <3>2 DEF DueIn
    <3> QED
      BY <1>10, <2>2, <3>3
  <2>3. CASE u # v
    <3>1. PICK b \in Int : b = Ahead(u)
      BY <1>3, SampleTyped
    <3>2. Ahead(u)' = b
      BY <1>6, <2>3, <3>1
    <3>3. due[u] = NotDue \/ (u \in Range(voices) /\ due[u] \in Nat /\ due[u] < b)
      BY <1>2, <2>1, <2>3, <3>1 DEF DueIn
    <3>4. DueIn(u)'
      BY <1>1, <3>2, <3>3 DEF DueIn
    <3>5. Kept(u)
      BY <1>1, <1>7, <1>9, <2>3, <3>1, <3>2 DEF Kept
    <3>6. Told(u)'
      BY <1>3, <2>1, <3>5, KeptTold
    <3> QED
      BY <3>4, <3>6
  <2> QED
    BY <2>2, <2>3
<1>12. \A u \in Range(voices') : Told(u)'
  BY <1>1, <1>3, <1>11
<1> QED
  BY <1>1, <1>8, <1>11, <1>12 DEF SampleInv

\* The sample of a voice that goes is no longer due.
LEMMA DestroySamples ==
    ASSUME OneOrTwo, DistinctOwners, AccountInv, MixInv, SampleInv, opensl_destroySoundBuffer
    PROVE  SampleInv'
<1>1. PICK v : v = Owners[Len(Owners) - Len(voices) + 1]
  OBVIOUS
<1>2. /\ UNCHANGED <<watched, writeHead, readHead, laps, late, cb>> /\ due' = [due EXCEPT ![v] = NotDue]
      /\ cpu'.at = "destroy" /\ cpu.at \in {"idle", "destroy"} /\ SampleTypes
      /\ Range(voices) \subseteq Voice
  BY <1>1, LinkedOwned DEF opensl_destroySoundBuffer, ring, AtRest, SampleInv, AccountInv
<1>3. \/ voices = <<v>> /\ voices' = <<>>
      \/ Len(Owners) = 2 /\ voices = <<Owners[2], v>> /\ v = Owners[1] /\ voices' = <<Owners[2]>>
  BY <1>1, DestroyLinks DEF AccountInv
<1>4. Range(voices') \subseteq Range(voices) /\ v \notin Range(voices') /\ \A u \in Range(voices) : u # v => u \in Range(voices')
  <2>1. CASE voices = <<v>> /\ voices' = <<>>
    BY <2>1 DEF Range
  <2>2. ASSUME NEW x, voices = <<x, v>>, voices' = <<x>>, x # v
        PROVE  Range(voices') \subseteq Range(voices) /\ v \notin Range(voices') /\ \A u \in Range(voices) : u # v => u \in Range(voices')
    <3>1. Range(voices') = {x}
      BY <2>2 DEF Range
    <3>2. Range(voices) = {x, v}
      <4>1. DOMAIN voices = {1, 2} /\ voices[1] = x /\ voices[2] = v
        BY <2>2
      <4> QED
        BY <4>1 DEF Range
    <3> QED
      BY <2>2, <3>1, <3>2
  <2> QED
    BY <1>3, <2>1, <2>2 DEF DistinctOwners
<1>5. SampleTypes'
  <2>1. due' \in [Voice -> Int]
    <3>1. due \in [Voice -> Int] /\ NotDue \in Int
      BY <1>2 DEF SampleTypes, NotDue
    <3>2. due' = [due EXCEPT ![v] = NotDue]
      BY <1>2
    <3> QED
      BY <3>1, <3>2
  <2> QED
    BY <1>2, <2>1 DEF SampleTypes
<1>6. ASSUME NEW u \in Voice PROVE DueIn(u)' /\ (u # v => Kept(u))
  <2>1. Ahead(u)' = Ahead(u) /\ (InMix(u)' <=> InMix(u)) /\ (Overtaken(u)' <=> Overtaken(u))
    BY <1>2 DEF Ahead, InMix, Overtaken
  <2>2. due'[u] = IF u = v THEN NotDue ELSE due[u]
    BY <1>2 DEF SampleTypes
  <2>3. DueIn(u)
    BY DEF SampleInv
  <2>4. DueIn(u)'
    BY <1>2, <1>4, <2>1, <2>2, <2>3 DEF DueIn
  <2> QED
    BY <1>2, <2>1, <2>2, <2>4 DEF Kept
<1>7. ASSUME NEW u \in Range(voices') PROVE Told(u)'
  <2>1. u \in Voice /\ u # v /\ Told(u)
    BY <1>2, <1>4 DEF SampleInv
  <2> QED
    BY <1>2, <1>6, <2>1, KeptTold
<1> QED
  BY <1>2, <1>5, <1>6, <1>7 DEF SampleInv

\* A voice that is created has nothing in its ring.
LEMMA CreateSamples ==
    ASSUME OneOrTwo, DistinctOwners, AccountInv, MixInv, SampleInv, opensl_createSoundBuffer
    PROVE  SampleInv'
<1>1. PICK v : v = Owners[Len(voices) + 1]
  OBVIOUS
<1>2. /\ UNCHANGED <<due, late, cb>> /\ cpu.at = "create" /\ cpu'.at \in {"idle", "create"} /\ SampleTypes /\ RingInv
      /\ voices' = <<v>> \o voices /\ watched' = [watched EXCEPT ![v] = {}]
      /\ writeHead' = [writeHead EXCEPT ![v] = 0] /\ readHead' = [readHead EXCEPT ![v] = 0]
      /\ laps' = [laps EXCEPT ![v] = 0]
  BY <1>1 DEF opensl_createSoundBuffer, AtRest, SampleInv, AccountInv
<1>3. v \in Voice /\ v \notin Range(voices) /\ Range(voices') = Range(voices) \cup {v} /\ Range(voices) \subseteq Voice
  <2>1. voices = <<>> \/ (Len(Owners) = 2 /\ voices = <<Owners[1]>>)
    BY <1>2 DEF AccountInv, VoicesInv
  <2>2. CASE voices = <<>>
    <3>1. voices' = <<v>> /\ Len(voices) = 0
      BY <1>2, <2>2
    <3>2. v = Owners[1] /\ v \in Voice
      BY <1>1, <3>1 DEF OneOrTwo
    <3>3. Range(voices) = {} /\ Range(voices') = {v}
      BY <2>2, <3>1 DEF Range
    <3> QED
      BY <3>2, <3>3
  <2>3. CASE Len(Owners) = 2 /\ voices = <<Owners[1]>>
    <3>1. Len(voices) = 1 /\ Owners[1] \in Voice /\ Owners[2] \in Voice
      BY <2>3 DEF OneOrTwo
    <3>2. v = Owners[2] /\ v # Owners[1]
      BY <1>1, <2>3, <3>1 DEF DistinctOwners
    <3>3. <<v>> \in Seq(Voice) /\ voices \in Seq(Voice)
      BY <2>3, <3>1, <3>2
    <3>4. voices' \in Seq(Voice) /\ Len(voices') = 2 /\ voices'[1] = v /\ voices'[2] = Owners[1]
      BY <1>2, <2>3, <3>1, <3>3, ConcatProperties
    <3>5. DOMAIN voices' = {1, 2}
      BY <3>4
    <3>6. Range(voices') = {v, Owners[1]}
      BY <3>4, <3>5 DEF Range
    <3>7. Range(voices) = {Owners[1]}
      BY <2>3 DEF Range
    <3> QED
      BY <3>1, <3>2, <3>6, <3>7
  <2> QED
    BY <2>1, <2>2, <2>3
<1>4. SampleTypes'
  BY <1>2 DEF SampleTypes
<1>5. due[v] = NotDue
  BY <1>3 DEF SampleInv, DueIn
<1>6. readHead'[v] = 0 /\ watched'[v] = {} /\ due'[v] = NotDue
  BY <1>2, <1>3, <1>5 DEF SampleTypes, RingInv
<1>7. Told(v)'
  <2>1. First(v)' \in Nat
    BY Sizes DEF First
  <2> QED
    BY <1>6, <2>1 DEF Told, NoOther, Has, NotDue
<1>8. ASSUME NEW u \in Voice, u # v PROVE Kept(u)
  <2>1. Ahead(u)' = Ahead(u) /\ (InMix(u)' <=> InMix(u)) /\ (Overtaken(u)' <=> Overtaken(u))
    BY <1>2, <1>8 DEF Ahead, InMix, Overtaken, RingInv
  <2> QED
    BY <1>2, <1>8, <2>1 DEF Kept, SampleTypes, RingInv
<1>9. ASSUME NEW u \in Voice PROVE DueIn(u)'
  <2>1. CASE u = v
    BY <1>6, <2>1 DEF DueIn
  <2>2. CASE u # v
    <3>1. DueIn(u) /\ Ahead(u)' = Ahead(u) /\ due'[u] = due[u]
      BY <1>8, <2>2 DEF SampleInv, Kept
    <3> QED
      BY <1>2, <1>3, <3>1 DEF DueIn
  <2> QED
    BY <2>1, <2>2
<1>10. ASSUME NEW u \in Range(voices') PROVE Told(u)'
  <2>1. CASE u = v
    BY <1>7, <2>1
  <2>2. CASE u # v
    <3>1. u \in Voice /\ Told(u)
      BY <1>3, <2>2 DEF SampleInv
    <3> QED
      BY <1>2, <1>8, <2>2, <3>1, KeptTold
  <2> QED
    BY <2>1, <2>2
<1> QED
  BY <1>2, <1>4, <1>9, <1>10 DEF SampleInv

-----------------------------------------------------------------------------
(* Everything is heard in its turn                                          *)

\* The rings are empty at the start.
LEMMA SampleInit == OneOrTwo /\ Init => SampleInv
<1> SUFFICES ASSUME OneOrTwo, Init PROVE SampleInv
  OBVIOUS
<1>1. /\ watched = [v \in Voice |-> {}] /\ due = [v \in Voice |-> NotDue] /\ late = [v \in Voice |-> FALSE]
      /\ cpu.at = "idle" /\ voices = AllVoices
  <2>1. voices = AllVoices
    BY DEF Init, OneOrTwo, AllVoices, Reverse
  <2> QED
    BY <2>1 DEF Init, AtRest
<1>2. SampleTypes
  BY <1>1 DEF SampleTypes, NotDue
<1>3. \A v \in Voice : DueIn(v)
  BY <1>1 DEF DueIn
<1>4. ASSUME NEW v \in Range(voices) PROVE Told(v)
  <2>1. v \in Voice
    BY <1>1, AllVoicesFacts DEF Range
  <2>2. watched[v] = {} /\ due[v] = NotDue
    BY <1>1, <2>1
  <2>3. First(v) \in Nat
    BY Sizes DEF First
  <2> QED
    BY <2>2, <2>3 DEF Told, NoOther, Has, NotDue
<1> QED
  BY <1>1, <1>2, <1>3, <1>4 DEF SampleInv

\* Every step of either thread keeps what is told of every ring.
LEMMA HeardStep == OneOrTwo /\ FrameLeft /\ DistinctOwners /\ HeardInv /\ [Next]_vars => HeardInv'
<1> SUFFICES ASSUME OneOrTwo, FrameLeft, DistinctOwners, AccountInv, MixInv, SampleInv, [Next]_vars PROVE HeardInv'
  BY DEF HeardInv
<1>0. AccountInv' /\ MixInv'
  BY AccountStep, MixStep
<1> SUFFICES SampleInv'
  BY <1>0 DEF HeardInv
<1>1. CASE SystemCallback \/ Mix
  BY <1>1, MixSamples
<1>2. CASE \/ Enqueue \/ Return \/ _SLMaybeSubmitAndStart
           \/ opensles_systemPause \/ opensles_systemResume \/ opensles_systemSetup \/ UNCHANGED vars
  BY <1>2, ControlSamples
<1>3. CASE Fill
  BY <1>3, FillSamples
<1>4. CASE Advance
  BY <1>4, AdvanceSamples
<1>5. ASSUME NEW v \in Voice, Submit(v) \/ SLGetPosition(v) PROVE SampleInv'
  BY <1>5, LockSamples, PositionSamples DEF Submit
<1>6. CASE Write
  BY <1>6, WriteSamples
<1>7. CASE SLUnlockBuffer
  BY <1>7, UnlockSamples
<1>8. CASE opensl_destroySoundBuffer
  BY <1>8, DestroySamples
<1>9. CASE opensl_createSoundBuffer
  BY <1>9, CreateSamples
<1> QED
  BY <1>1, <1>2, <1>3, <1>4, <1>5, <1>6, <1>7, <1>8, <1>9 DEF Next, bqPlayerCallback, CpuThread, Reinitialize

\* What an owner has handed over waits in the cell from which bqPlayerCallback()
\* (soundcore-opensles.c:115) will read it, in its turn and once, in rings, chunks and writes of any
\* size, with one voice or two: neither the copies to and from the overflow, nor the backfill of
\* a chunk that is being played, nor the resynchronisation of a late writer touches another frame.
THEOREM EachIsHeardInTurn == OneOrTwo /\ FrameLeft /\ DistinctOwners => (Spec => []HeardInTurn)
<1> SUFFICES ASSUME OneOrTwo /\ FrameLeft /\ DistinctOwners PROVE Spec => []HeardInTurn
  OBVIOUS
<1>1. Init => HeardInv
  BY AccountInit, MixInit, SampleInit DEF HeardInv
<1>2. HeardInv /\ [Next]_vars => HeardInv'
  BY HeardStep
<1>3. HeardInv => HeardInTurn
  BY LinkedOwned, HeardFromInv DEF HeardInv, AccountInv
<1> QED
  BY <1>1, <1>2, <1>3, PTL DEF Spec
=============================================================================
