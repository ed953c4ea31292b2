-------------------------------- MODULE Redraw --------------------------------
(***************************************************************************)
(* What the video scanner promises: a change of video memory or of a video *)
(* switch starts a redraw, and the redraw is over only when the screen     *)
(* shows the change.                                                       *)
(***************************************************************************)
VARIABLES stale,       \* the screen differs from video memory at some cell
          redrawing    \* a redraw is under way

redrawVars == <<stale, redrawing>>

Init == stale = TRUE /\ redrawing = TRUE

\* A change may or may not be visible at the cell; either way the screen is redrawn.
Change == stale' \in BOOLEAN /\ redrawing' = TRUE

\* The scanner reaches the cell, or ends the redraw with nothing left to show.
Look == redrawing /\ stale' = FALSE /\ redrawing' \in BOOLEAN

Spec == Init /\ [][Change \/ Look]_redrawVars
===============================================================================
