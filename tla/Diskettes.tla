------------------------------ MODULE Diskettes ------------------------------
(***************************************************************************)
(* What a pair of drives promises of the diskettes: what is recorded       *)
(* changes only by writing, on the track under the head of a drive that    *)
(* holds the diskette unprotected.                                         *)
(***************************************************************************)
CONSTANTS Drives, Images

VARIABLES media,     \* media[image][track]: what is recorded there
          inside,    \* inside[drive]: the image in the drive, and whether it may be written
          head       \* head[drive]: the track under the head

drivevars == <<media, inside, head>>

\* Only the track under the head changes, and nothing moves meanwhile.
Write(d) ==
    /\ inside[d].image \in Images /\ inside[d].writable
    /\ DOMAIN media' = DOMAIN media
    /\ \A i \in DOMAIN media :
           /\ DOMAIN media'[i] = DOMAIN media[i]
           /\ \A t \in DOMAIN media[i] :
                  media'[i][t] # media[i][t] => i = inside[d].image /\ t = head[d]
    /\ UNCHANGED <<inside, head>>

\* Heads move, diskettes are exchanged, states are saved and loaded, machines are reset.
Handle == UNCHANGED media

Spec == [][Handle \/ \E d \in Drives : Write(d)]_drivevars
==============================================================================
