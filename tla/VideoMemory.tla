------------------------------ MODULE VideoMemory ------------------------------
(***************************************************************************)
(* Writes to the text and hires pages, and the redraws they start          *)
(* (src/src/vm.c:228-362).  The machine is that of SoftSwitches; this      *)
(* module adds the cells of video memory and what the screen shows.        *)
(*                                                                         *)
(* One group of cells is watched: every group is the watched one in some   *)
(* behaviour.  A redraw is abstracted to what VideoScanner shows of it: it *)
(* ends with every displayed cell redrawn.                                 *)
(***************************************************************************)
EXTENDS SoftSwitches

VARIABLES watched,      \* a group of cells of video memory
          stale         \* the screen may show something else there

vmvars == <<ssvars, watched, stale>>

\* Text pages at $400 and $800, hires pages at $2000 and $4000.  Of the rows that are text
\* in a mixed mode ("lower", 20-23) some pages of 256 bytes also hold others ("shared", 4-7
\* and 12-15); the handlers are registered by pages.
Cells == [area : {"text", "hgr"}, page : {0, 1},
          rows : {"upper", "shared", "lower"}, card : {"main", "aux"}]

\* DRAWPAGE_TEXT is also that of lores graphics.
video_currentMainMode  == IF On("TEXT") \/ ~On("HIRES") THEN "text" ELSE "hgr"
video_currentMixedMode == IF On("TEXT") \/ On("MIXED") \/ ~On("HIRES") THEN "text" ELSE "hgr"
video_currentPage      == IF On("PAGE2") /\ ~On("80STORE") THEN 1 ELSE 0

\* What the plotters take from memory at a row, and which of the two cards.
Characters(rows) == On("TEXT") \/ (rows = "lower" /\ On("MIXED"))
Plotted(cell) ==
    /\ cell.page = video_currentPage
    /\ cell.area = (IF cell.rows = "lower" THEN video_currentMixedMode ELSE video_currentMainMode)
    /\ \/ cell.card = "main"
       \/ On("80COL") /\ (On("DHIRES") \/ (cell.area = "text" /\ Characters(cell.rows)))

\* The switches that the plotters read.
Picture == <<softswitches \cap (Modes \cup {"HIRES"}), video_currentPage, font>>

-----------------------------------------------------------------------------
(* The write handlers                                                       *)

Target(area, page) ==
    base[IF page = 1 THEN "RAMWRT" ELSE IF area = "text" THEN "TEXTWRT" ELSE "HGRWRT"]

\* mutation of HandlerMode: every page is registered by its first rows.
HandlerMainOnly(rows) == video_currentMainMode

\* vm_initialize() registers the mixed handlers last, for the pages with lower rows.
HandlerMode(rows) == IF rows = "upper" THEN video_currentMainMode ELSE video_currentMixedMode

\* Page 1 is seen when PAGE2 is clear, page 2 when it is set and 80STORE does not take it.
Watches(page) == IF page = 0 THEN ~On("PAGE2") ELSE On("PAGE2") /\ ~On("80STORE")

\* video__write_2e_text0() and its like, with a byte that differs from the present one.
Write(area, page, rows) ==
    /\ IF HandlerMode(rows) = area /\ Watches(page) THEN Announce ELSE UNCHANGED scanning
    /\ stale' = (stale \/ watched = [area |-> area, page |-> page, rows |-> rows,
                                     card |-> Target(area, page)])
    /\ UNCHANGED <<switches, files, watched>>

\* A switch, a reset or a load: the screen may now show something else.
Switch == /\ Access \/ State \/ vm_initialize
          /\ stale' = (stale \/ Picture' # Picture)
          /\ UNCHANGED watched

Flashing == ~On("80COL") /\ (On("TEXT") \/ On("MIXED"))

\* mutation of FlashFrame: the glyphs flip and the scanner is not told.
FlashUntold == Flashing /\ UNCHANGED vmvars

\* _endOfFrame() every sixteenth frame.
FlashFrame == Flashing /\ VideoWrite /\ UNCHANGED <<watched, stale>>

\* The redraw is over.
Redrawn == FrameComplete /\ stale' = FALSE /\ UNCHANGED watched

-----------------------------------------------------------------------------

VideoInit == SwitchInit /\ watched \in Cells /\ stale = TRUE

VideoNext ==
    \/ Switch \/ Redrawn \/ FlashFrame
    \/ \E area \in {"text", "hgr"}, page \in {0, 1}, rows \in {"upper", "shared", "lower"} :
           Write(area, page, rows)

VideoSpec == VideoInit /\ [][VideoNext]_vmvars

\* Frames go by, and a redraw ends (ChangesAppear of VideoScanner).
FairVideoSpec == VideoSpec /\ WF_vmvars(Redrawn) /\ WF_vmvars(FlashFrame)

-----------------------------------------------------------------------------
(* Properties                                                               *)

\* Two kinds of writes that the handlers do not announce although they show: to auxiliary
\* memory through 80STORE and PAGE2, and hires rows that share a page with the text rows.
AuxThroughPage2 == watched.card = "aux" /\ On("PAGE2") /\ On("80STORE")
SharedWithText  == /\ watched.area = "hgr" /\ watched.rows = "shared"
                   /\ On("HIRES") /\ On("MIXED") /\ ~On("TEXT")
Unannounced     == AuxThroughPage2 \/ SharedWithText

\* Once a redraw is over the screen shows video memory, whatever was written or switched in
\* which order, but for the two kinds of writes above while their switches stay: the switch
\* that ends such a state starts the redraw that shows them. (A torn load may leave pointers
\* that send the writes elsewhere.)
ScreenFollowsMemory == ~scanning /\ ~torn /\ stale /\ Plotted(watched) => Unannounced

\* video.h:84: video_setDirty() is "Called primary from VM routines to flag when graphics
\* mode or video memory data changes", here for the two cases apart.
TextScreenCurrent  == ~scanning /\ Plotted(watched) /\ watched.area = "text" => ~stale
HiresScreenCurrent == ~scanning /\ Plotted(watched) /\ watched.card = "main" => ~stale

\* In a mode with flashing text even an unannounced change reaches the screen: the redraw
\* every sixteenth frame shows it.
FlashingHeals == <>[]Flashing => []<>~stale
=============================================================================
