------------------------------- MODULE PQList --------------------------------
(***************************************************************************)
(* The lists of a play queue (PQList_s of src/src/audio/playqueue.c): the  *)
(* nodes of a pool, threaded through their next pointers, and the doubly   *)
(* linked list of the nodes in play, newest first, with a pointer to its   *)
(* oldest node.                                                            *)
(***************************************************************************)
EXTENDS Naturals, FiniteSets, Sequences

CONSTANTS Buffers,   \* the buffer names handed to playq_createPlayQueue(), in order
          NULL

Ids == {Buffers[i] : i \in DOMAIN Buffers}

ASSUME PQListAssumption ==
    /\ Buffers \in Seq(Ids) /\ \A i, j \in DOMAIN Buffers : Buffers[i] = Buffers[j] => i = j
    /\ NULL \notin Ids

Node(l, b) == [nodeId |-> b, numBytes |-> l.numBytes[b]]

\* b->field = v, where the code tests b first
Assigned(field, b, v) == IF b = NULL THEN field ELSE [field EXCEPT ![b] = v]

\* The n-th node from first along the pointers (NULL past the end).
Along(pointers, first) ==
    LET nth[n \in 0 .. Len(Buffers)] ==
            IF n = 0 THEN first
            ELSE IF nth[n - 1] = NULL THEN NULL ELSE pointers[nth[n - 1]]
    IN nth

\* The nodes met on that walk.
Chain(pointers, first) ==
    LET nth == Along(pointers, first)
    IN [n \in 1 .. Cardinality({k \in DOMAIN nth : nth[k] # NULL}) |-> nth[n - 1]]

Holds(chain, b) == \E i \in DOMAIN chain : chain[i] = b

\* The last buffer comes to the top of the pool.
Created ==
    [avail |-> IF Buffers = <<>> THEN NULL ELSE Buffers[Len(Buffers)],
     queued |-> NULL, head |-> NULL,
     next |-> [b \in Ids |-> LET i == CHOOSE k \in DOMAIN Buffers : Buffers[k] = b
                             IN IF i = 1 THEN NULL ELSE Buffers[i - 1]],
     prev |-> [b \in Ids |-> NULL], numBytes |-> [b \in Ids |-> 0]]

CanEnqueue(l) == l.avail # NULL

\* mutation of Enqueued: the head is reset although there is one.
EnqueuedAsHead(l, n) ==
    LET b == l.avail IN
    [l EXCEPT !.avail = l.next[b], !.numBytes[b] = n,
              !.next[b] = l.queued, !.prev = Assigned([@ EXCEPT ![b] = NULL], l.queued, b),
              !.queued = b, !.head = b]

Enqueued(l, n) ==
    LET b == l.avail IN
    [l EXCEPT !.avail = l.next[b], !.numBytes[b] = n,
              !.next[b] = l.queued, !.prev = Assigned([@ EXCEPT ![b] = NULL], l.queued, b),
              !.queued = b,
              !.head = IF l.queued = NULL THEN b ELSE @]

\* To the top of the pool.
Recycled(l, b) ==
    [l EXCEPT !.prev[b] = NULL, !.next[b] = l.avail, !.avail = b, !.numBytes[b] = 0]

Dequeued(l) ==
    LET b == l.head IN
    Recycled([l EXCEPT !.head = l.prev[b],
                       !.next = Assigned(@, l.prev[b], NULL),
                       !.queued = IF l.prev[b] = NULL THEN NULL ELSE @], b)

Removed(l, b) ==
    Recycled([l EXCEPT !.head = IF l.next[b] = NULL THEN l.prev[b] ELSE @,
                       !.next = Assigned(@, l.prev[b], l.next[b]),
                       !.prev = Assigned(@, l.next[b], l.prev[b]),
                       !.queued = IF l.prev[b] = NULL THEN l.next[b] ELSE @], b)

\* Dequeue until it fails.
Drained(l) ==
    LET step[n \in 0 .. Len(Buffers)] ==
            IF n = 0 THEN l
            ELSE IF step[n - 1].head = NULL THEN step[n - 1] ELSE Dequeued(step[n - 1])
    IN step[Len(Buffers)]

IsQueued(l, b) == Holds(Chain(l.next, l.queued), b)

InPlay(l) == Chain(l.prev, l.head)
Pool(l) == Chain(l.next, l.avail)
==============================================================================
