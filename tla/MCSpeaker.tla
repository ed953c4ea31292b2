------------------------------ MODULE MCSpeaker ------------------------------
(* An instance of Speaker whose voice has two buffers. *)
EXTENDS Speaker
CONSTANTS b1, b2
MCBuffers == <<b1, b2>>
==============================================================================
