------------------------------- MODULE ALVoice -------------------------------
(***************************************************************************)
(* A voice of the OpenAL backend (src/src/audio/soundcore-openal.c): a     *)
(* working buffer that its owner fills between Lock and Unlock, and the    *)
(* play queue with which it keeps account of the buffers that the OpenAL   *)
(* source has.                                                             *)
(*                                                                         *)
(* The CPU thread runs the operations.  Each step ends with one call of    *)
(* the library, so that the device plays on between any two of them; every *)
(* call of the library may fail.                                           *)
(***************************************************************************)
EXTENDS PQList, Integers, SequencesExt

CONSTANTS
    buffersize,            \* bytes of the working buffer
    Period,                \* bytes that the device takes at a time
    MaxFaults              \* bound on the failures of the library

ASSUME VoiceAssumption ==
    /\ {buffersize, Period} \subseteq Nat \ {0} /\ MaxFaults \in Nat
    /\ buffersize % 16 = 0 /\ Period % 4 = 0  \* whole frames of two 16-bit samples

VARIABLES
    playq,
    _queued_total_bytes,
    index,                 \* bytes in the working buffer
    source,                \* external: its buffers, the bytes played of them, its state
    pc,                    \* the next call of the library, "return", or where its owner is
    call, size,            \* the operation that runs, and the bytes it is called with
    processed,             \* buffers still to be unqueued
    reply,                 \* what the operation answered
    faults

voice == <<playq, _queued_total_bytes, index>>
local == <<call, size, processed>>
voicevars == <<voice, source, pc, local, reply, faults>>

QUARTER == buffersize \div 4

Calls  == {"position", "lock", "unlock"}
Labels == {"processed", "unqueue", "offset", "queue", "state", "play", "return"}

NoReply == [err |-> FALSE, bytes |-> 0]

Smaller(a, b) == IF a < b THEN a ELSE b

-----------------------------------------------------------------------------
(* The OpenAL source                                                        *)

Bytes(queue) ==
    LET sum[k \in 0 .. Len(queue)] == IF k = 0 THEN 0 ELSE sum[k - 1] + queue[k].numBytes
    IN sum[Len(queue)]

Sounding(s) == s.state \in {"playing", "paused"}

\* AL_BUFFERS_PROCESSED: a stopped source is done with all its buffers.
Done(s) ==
    IF s.state = "stopped" THEN Len(s.queue)
    ELSE Cardinality({k \in DOMAIN s.queue : Bytes(SubSeq(s.queue, 1, k)) <= s.played})

\* AL_BYTE_OFFSET, from the beginning of the queue
Offset(s) == IF Sounding(s) THEN s.played ELSE 0

ToBeHeard(s) == IF s.state = "stopped" THEN 0 ELSE Bytes(s.queue) - s.played

Unqueued(s) ==
    [s EXCEPT !.queue = Tail(@), !.played = IF Sounding(s) THEN @ - Head(s.queue).numBytes ELSE 0]

\* alSourcePlay() goes on after a pause, and otherwise starts over.
Played(s) ==
    [s EXCEPT !.state = IF s.queue = <<>> THEN "stopped" ELSE "playing",
              !.played = IF s.state = "paused" THEN @ ELSE 0]

\* The device, in its own thread, plays to the end and stops.
Device ==
    /\ source.state = "playing"
    /\ LET played == source.played + Period IN
       source' = IF played < Bytes(source.queue)
                 THEN [source EXCEPT !.played = played]
                 ELSE [source EXCEPT !.played = 0, !.state = "stopped"]
    /\ UNCHANGED <<voice, pc, local, reply, faults>>

\* alGetError() after a call
Works == UNCHANGED faults
Fails == faults < MaxFaults /\ faults' = faults + 1

-----------------------------------------------------------------------------
(* The operations                                                           *)

\* Every operation begins with _ALProcessPlayBuffers().
Call(c, n) == pc' = "processed" /\ call' = c /\ size' = n

Return(err, n) == pc' = "return" /\ reply' = [err |-> err, bytes |-> n]

\* mutation of Forgotten: the bytes stay in the account.
ForgottenUncounted(b) == playq' = Removed(playq, b) /\ UNCHANGED _queued_total_bytes

\* _playq_removeNode(), of a node that is there
Forgotten(b) ==
    /\ playq' = Removed(playq, b)
    /\ _queued_total_bytes' = _queued_total_bytes - playq.numBytes[b]

\* An error of _ALProcessPlayBuffers(): ALGetPosition() hides it in an inner err.
Unprocessed == Return(call # "position", 0)

GetProcessed ==
    /\ pc = "processed"
    /\ \/ /\ Works /\ processed' = Done(source)
          /\ pc' = IF Done(source) > 0 THEN "unqueue" ELSE "offset"
          /\ UNCHANGED reply
       \/ Fails /\ Unprocessed /\ UNCHANGED processed
    /\ UNCHANGED <<voice, source, call, size>>

Unqueue ==
    /\ pc = "unqueue"
    /\ \/ LET b == Head(source.queue).nodeId IN
          /\ Works /\ source' = Unqueued(source) /\ processed' = processed - 1
          /\ IF IsQueued(playq, b) THEN Forgotten(b) ELSE UNCHANGED <<playq, _queued_total_bytes>>
          /\ pc' = IF processed = 1 THEN "offset" ELSE "unqueue"
       \/ /\ Fails /\ pc' = "offset" /\ processed' = 0
          /\ UNCHANGED <<source, playq, _queued_total_bytes>>
    /\ UNCHANGED <<index, call, size, reply>>

ALGetPosition(queued) ==
    /\ Return(FALSE, queued + index)
    /\ UNCHANGED <<voice, faults>>

\* mutation of Granted: the room is taken before the quiet samples are added.
GrantedBefore(n, filled) ==
    Smaller(IF n = 0 THEN buffersize ELSE n, buffersize - index)

Granted(n, filled) == Smaller(IF n = 0 THEN buffersize ELSE n, buffersize - filled)

\* An underrun is filled with quiet samples.
ALLockBuffer(queued) ==
    LET filled == IF queued = 0 /\ index = 0 THEN QUARTER ELSE index IN
    /\ index' = filled /\ Return(FALSE, Granted(size, filled))
    /\ UNCHANGED <<playq, _queued_total_bytes, faults>>

\* mutation of Accumulates: however much is in play.
AccumulatesFull(queued) == ~CanEnqueue(playq)

Accumulates(queued) == queued >= QUARTER \/ ~CanEnqueue(playq)

\* _ALSubmitBufferToOpenAL() up to alBufferData()
ALUnlockBuffer(queued) ==
    LET filled == index + size IN
    \/ /\ Accumulates(queued)
       /\ index' = filled /\ Return(FALSE, 0)
       /\ UNCHANGED <<playq, _queued_total_bytes, faults>>
    \/ /\ ~Accumulates(queued)
       /\ index' = 0
       /\ \/ /\ Works /\ pc' = "queue"
             /\ playq' = Enqueued(playq, filled)
             /\ _queued_total_bytes' = _queued_total_bytes + filled
             /\ UNCHANGED reply
          \/ /\ Fails /\ Return(TRUE, 0)
             /\ playq' = Removed(Enqueued(playq, filled), playq.avail)
             /\ UNCHANGED _queued_total_bytes

GetOffset ==
    /\ pc = "offset"
    /\ \/ LET left == _queued_total_bytes - Offset(source)
              queued == IF left >= 0 THEN left ELSE 0
          IN  \/ call = "position" /\ ALGetPosition(queued)
              \/ call = "lock" /\ ALLockBuffer(queued)
              \/ call = "unlock" /\ ALUnlockBuffer(queued)
       \/ Fails /\ Unprocessed /\ UNCHANGED voice
    /\ UNCHANGED <<source, local>>

QueueBuffer ==
    /\ pc = "queue"
    /\ LET b == playq.queued IN
       \/ /\ Works /\ pc' = "state"
          /\ source' = [source EXCEPT !.queue = Append(@, Node(playq, b))]
          /\ UNCHANGED <<playq, _queued_total_bytes, reply>>
       \/ Fails /\ Return(TRUE, 0) /\ Forgotten(b) /\ UNCHANGED source
    /\ UNCHANGED <<index, local>>

\* mutation of GetState: only a source that never played is started.
GetStateInitial ==
    /\ pc = "state"
    /\ \/ Works /\ source.state # "initial" /\ Return(FALSE, 0)
       \/ Works /\ source.state = "initial" /\ pc' = "play" /\ UNCHANGED reply
       \/ Fails /\ Return(TRUE, 0)
    /\ UNCHANGED <<voice, source, local>>

GetState ==
    /\ pc = "state"
    /\ \/ Works /\ Sounding(source) /\ Return(FALSE, 0)
       \/ Works /\ ~Sounding(source) /\ pc' = "play" /\ UNCHANGED reply
       \/ Fails /\ Return(TRUE, 0)
    /\ UNCHANGED <<voice, source, local>>

Play ==
    /\ pc = "play"
    /\ \/ Works /\ source' = Played(source) /\ Return(FALSE, 0)
       \/ Fails /\ Return(TRUE, 0) /\ UNCHANGED source
    /\ UNCHANGED <<voice, local>>

Operate == GetProcessed \/ Unqueue \/ GetOffset \/ QueueBuffer \/ GetState \/ Play

-----------------------------------------------------------------------------
(* The voice as a whole                                                     *)

NewSource == [queue |-> <<>>, played |-> 0, state |-> "initial"]

\* _openal_destroyVoice() and _openal_createVoice()
CreateVoice ==
    playq' = Created /\ _queued_total_bytes' = 0 /\ index' = 0 /\ source' = NewSource

openal_systemPause ==
    source' = IF source.state = "playing" THEN [source EXCEPT !.state = "paused"] ELSE source

openal_systemResume == source' = Played(source)

VoiceInit ==
    /\ playq = Created /\ _queued_total_bytes = 0 /\ index = 0 /\ source = NewSource
    /\ pc = "slice" /\ call = "position" /\ size = 0 /\ processed = 0
    /\ reply = NoReply /\ faults = 0

VoiceTypeOK ==
    /\ _queued_total_bytes \in Nat /\ index \in Nat
    /\ \A b \in Ids : playq.numBytes[b] \in Nat
    /\ source.state \in {"initial", "playing", "paused", "stopped"} /\ source.played \in Nat
    /\ pc \in Labels \cup {"slice", "outer"} /\ call \in Calls /\ size \in Nat
    /\ processed \in 0 .. Len(Buffers) /\ reply.bytes \in Nat /\ faults \in 0 .. MaxFaults

\* The account that the voice keeps (_playq_removeNode() and its callers, lines 72
\* to 253) is that of the source, whatever fails and however the device plays on
\* between the calls: the same buffers in the same order, but for one that is being
\* handed over, and as many bytes.  The assertions of lines 74, 77 and 217 follow.
QueueMirrorsSource ==
    LET inplay == [i \in DOMAIN InPlay(playq) |-> Node(playq, InPlay(playq)[i])] IN
    /\ source.queue = IF pc = "queue" THEN Front(inplay) ELSE inplay
    /\ _queued_total_bytes = Bytes(inplay)
    /\ \A i \in DOMAIN inplay : inplay[i].numBytes > 0

\* ALUnlockBuffer() hands a buffer over only when less than a quarter is still to be
\* heard, although it measured that some calls ago: the sound is never late by more
\* than one and a quarter buffers (unless the device runs out between two calls, and
\* alSourcePlay() plays again what has not been unqueued).
LatencyBounded ==
    [][Len(source'.queue) > Len(source.queue) => ToBeHeard(source) < QUARTER]_voicevars

\* When the device is started, it has not heard any of the buffers.
PlaysFresh == pc = "play" => Len(source.queue) = 1
==============================================================================
