----------------------------- MODULE BufferQueue -----------------------------
(***************************************************************************)
(* What a play queue promises: buffers of a fixed pool are put in play and *)
(* leave it first in first out, or one by one wherever they are.           *)
(***************************************************************************)
EXTENDS Naturals, SequencesExt

CONSTANTS Ids,       \* the buffers
          Sizes      \* what may be put in them

VARIABLES inplay,    \* the buffers in play with what is in them, oldest first
          result     \* what the last call answered

queuevars == <<inplay, result>>

None == [err |-> TRUE]
Answer(node) == [err |-> FALSE, node |-> node]

Pool == Ids \ {inplay[i].nodeId : i \in DOMAIN inplay}

Init == inplay = <<>> /\ result = None

\* Any buffer of the pool will do.
Enqueue(n) ==
    \/ \E id \in Pool : LET node == [nodeId |-> id, numBytes |-> n] IN
           inplay' = Append(inplay, node) /\ result' = Answer(node)
    \/ Pool = {} /\ result' = None /\ UNCHANGED inplay

Dequeue ==
    \/ inplay # <<>> /\ inplay' = Tail(inplay) /\ result' = Answer(Head(inplay))
    \/ inplay = <<>> /\ result' = None /\ UNCHANGED inplay

Withdraw(id) ==
    \/ \E i \in DOMAIN inplay :
           /\ inplay[i].nodeId = id
           /\ inplay' = RemoveAt(inplay, i) /\ result' = Answer(inplay[i])
    \/ id \in Pool /\ result' = None /\ UNCHANGED inplay

Drain == inplay' = <<>> /\ result' = None

Get(id) ==
    /\ \/ \E i \in DOMAIN inplay : inplay[i].nodeId = id /\ result' = Answer(inplay[i])
       \/ id \in Pool /\ result' = None
    /\ UNCHANGED inplay

GetHead ==
    /\ result' = IF inplay = <<>> THEN None ELSE Answer(Head(inplay))
    /\ UNCHANGED inplay

Next == (\E n \in Sizes : Enqueue(n)) \/ Dequeue \/ (\E id \in Ids : Withdraw(id) \/ Get(id))
        \/ Drain \/ GetHead

Spec == Init /\ [][Next]_queuevars
==============================================================================
