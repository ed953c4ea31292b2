------------------------------ MODULE PlayQueue ------------------------------
(***************************************************************************)
(* The operations of a play queue (src/src/audio/playqueue.c), called in   *)
(* any order by the one thread that owns it.                               *)
(***************************************************************************)
EXTENDS PQList

CONSTANT Sizes       \* numbers of bytes that callers put in a buffer

VARIABLES list,      \* PQList_s with the nodes it threads
          result     \* what the last call answered

playqvars == <<list, result>>

NoNode == [err |-> TRUE]
Found(l, b) == [err |-> FALSE, node |-> Node(l, b)]

PlayQueueInit == list = Created /\ result = NoNode

playq_enqueue(n) ==
    \/ /\ CanEnqueue(list)
       /\ list' = Enqueued(list, n) /\ result' = Found(list', list.avail)
    \/ ~CanEnqueue(list) /\ result' = NoNode /\ UNCHANGED list

playq_dequeue ==
    \/ /\ list.head # NULL
       /\ list' = Dequeued(list) /\ result' = Found(list, list.head)
    \/ list.head = NULL /\ result' = NoNode /\ UNCHANGED list

playq_remove(b) ==
    \/ /\ IsQueued(list, b)
       /\ list' = Removed(list, b) /\ result' = Found(list, b)
    \/ ~IsQueued(list, b) /\ result' = NoNode /\ UNCHANGED list

playq_drain == list' = Drained(list) /\ result' = NoNode

playq_getHead ==
    /\ result' = IF list.head = NULL THEN NoNode ELSE Found(list, list.head)
    /\ UNCHANGED list

playq_get(b) ==
    /\ result' = IF IsQueued(list, b) THEN Found(list, b) ELSE NoNode
    /\ UNCHANGED list

PlayQueueNext ==
    \/ \E n \in Sizes : playq_enqueue(n)
    \/ playq_dequeue
    \/ \E b \in Ids : playq_remove(b) \/ playq_get(b)
    \/ playq_drain
    \/ playq_getHead

PlayQueueSpec == PlayQueueInit /\ [][PlayQueueNext]_playqvars
------------------------------------------------------------------------------
\* Whatever buffers were put in play, withdrawn from the middle or drained
\* (playq_remove() and the rest, lines 76 to 159), both directions of the list
\* in play agree, the assertion of line 108 holds (the list has a head or
\* neither end), and every buffer is in exactly one of the two lists: none is
\* lost or twice there.
ListsAgree ==
    LET newest == Chain(list.next, list.queued)
        oldest == InPlay(list)
    IN
    /\ (list.head = NULL) = (list.queued = NULL)
    /\ Len(newest) = Len(oldest)
    /\ \A i \in DOMAIN newest : newest[i] = oldest[Len(newest) + 1 - i]
    /\ Len(newest) + Len(Pool(list)) = Len(Buffers)
    /\ \A b \in Ids : Holds(newest, b) # Holds(Pool(list), b)

\* Through its linked lists, the queue keeps the promise of playqueue.h (lines
\* 34 to 53): first in, first out, any node can be removed, the others keep their
\* order and their data, and calls fail exactly when they must.
B == INSTANCE BufferQueue WITH inplay <- [i \in DOMAIN InPlay(list) |-> Node(list, InPlay(list)[i])]
IsBufferQueue == B!Spec
==============================================================================
