----------------------------- MODULE MCPlayQueue -----------------------------
(* An instance of PlayQueue with the four buffers of a voice. *)
EXTENDS PlayQueue
CONSTANTS b1, b2, b3, b4
MCBuffers == <<b1, b2, b3, b4>>
==============================================================================
