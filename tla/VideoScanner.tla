----------------------------- MODULE VideoScanner -----------------------------
(***************************************************************************)
(* The video scanner (src/src/video/video.c): how far the beam has moved   *)
(* since it was last looked at, which cycles must still be redrawn, and    *)
(* the frames that end on the way.                                         *)
(*                                                                         *)
(* The CPU thread is the only actor.  It runs some cycles, then either     *)
(* announces a change of video memory (video_setDirty) or ends its slice   *)
(* (video_scannerUpdate); both scan the cycles that went by, one iteration *)
(* of the loop per step.  One visible position is watched: every position  *)
(* is the watched one in some behaviour.                                   *)
(***************************************************************************)
EXTENDS Integers

CONSTANTS
    HBL, VIS,               \* cycles of a scanline: blank, then visible
    RowLines,               \* scanlines of a row of text
    MixLines, VisLines,     \* first scanline of the four text rows, and of the blank
    VblLines,               \* scanlines of the vertical blank
    FlashPeriod,            \* frames between two flashes of the text
    Slices                  \* cycles the CPU may run between two looks at the beam

CYCLES_SCANLINE == HBL + VIS
SCANLINES_FRAME == VisLines + VblLines
CYCLES_FRAME    == CYCLES_SCANLINE * SCANLINES_FRAME

ASSUME GeometryAssumption ==
    /\ {HBL, VIS, RowLines, MixLines, VisLines, VblLines, FlashPeriod} \subseteq Nat \ {0}
    /\ MixLines < VisLines /\ Slices \subseteq Nat

VARIABLES
    pc,                     \* who scans: "cpu" (nobody), "update" or "setDirty"
    cycles_video_frame,     \* unprocessed cycles of this frame
    cyclesFrameLast,        \* where the scanner got to
    cyclesDirty,            \* cycles to redraw
    cyclesCount,            \* iterations left of the present scan
    hCount, vCount,         \* the beam, during a scan
    scancol, scanidx,       \* columns flushed and columns read of this scanline
    reset_scanner,
    textFlashCounter,
    mode,                   \* what the video switches show
    watched,                \* a visible position
    stale                   \* its memory or mode has changed since it was read

beam == <<cycles_video_frame, cyclesFrameLast, cyclesDirty, textFlashCounter>>
scan == <<cyclesCount, hCount, vCount, scancol, scanidx>>
vars == <<pc, beam, scan, reset_scanner, mode, watched, stale>>

Modes      == {"text40", "text80", "hires", "mixed"}
Flashes(m) == m \in {"text40", "mixed"}

Row(cycles)    == (cycles \div CYCLES_SCANLINE) % SCANLINES_FRAME
Column(cycles) == cycles % CYCLES_SCANLINE

\* UINT_MAX, more than any redraw.
Unbounded == 16 * CYCLES_FRAME

-----------------------------------------------------------------------------
(* The redraw window and the end of a frame                                 *)

\* mutation of _setScannerDirty: the present row is not completed.
ExactlyOneFrame(last) == CYCLES_FRAME

\* mutation of _setScannerDirty: the rest of a row is redrawn, and one frame less a row.
FrameLessOneRow(last) ==
    CYCLES_FRAME + ((CYCLES_SCANLINE - Column(last)) % CYCLES_SCANLINE) - (RowLines * CYCLES_SCANLINE)

\* A whole frame and the rest of the present row of text.
_setScannerDirty(last) ==
    LET lineCount == RowLines - 1 - (Row(last) % RowLines)
        colCount  == CYCLES_SCANLINE - Column(last)
    IN  CYCLES_FRAME + ((lineCount * CYCLES_SCANLINE + colCount) % (RowLines * CYCLES_SCANLINE))

\* mutation of _endOfFrame: the frame is not taken off the unprocessed cycles.
FrameKept(last, cycles, dirty) ==
    /\ textFlashCounter' = (textFlashCounter + 1) % FlashPeriod
    /\ cycles_video_frame' = cycles
    /\ cyclesFrameLast' = last % CYCLES_FRAME /\ cyclesDirty' = dirty
    /\ UNCHANGED stale

\* Every FlashPeriod frames the glyphs flip, and modes that show them are redrawn.
_endOfFrame(last, cycles, dirty) ==
    LET flash == textFlashCounter = FlashPeriod - 1 /\ Flashes(mode)
    IN  /\ textFlashCounter' = (textFlashCounter + 1) % FlashPeriod
        /\ cycles_video_frame' = cycles % CYCLES_FRAME
        /\ \/ flash /\ cyclesFrameLast' = 0 /\ cyclesDirty' = _setScannerDirty(0) /\ stale' = TRUE
           \/ ~flash /\ cyclesFrameLast' = last % CYCLES_FRAME /\ cyclesDirty' = dirty /\ UNCHANGED stale

-----------------------------------------------------------------------------
(* video_setDirty() and video_scannerUpdate()                               *)

\* mutation of Iterations: the redraw does not limit the scan.
Uncapped(elapsed, dirty) == elapsed

Iterations(elapsed, dirty) == IF elapsed <= dirty THEN elapsed ELSE dirty

\* Scanning begins at last; a reset has left the scanline buffer in the middle.
Begin(caller, cycles, last, dirty) ==
    /\ pc' = caller
    /\ cyclesFrameLast' = last /\ hCount' = Column(last) /\ vCount' = Row(last)
    /\ cyclesCount' = Iterations(cycles - last, dirty)
    /\ cycles_video_frame' = cycles /\ cyclesDirty' = dirty
    /\ scancol' = (IF reset_scanner THEN 0 ELSE scancol)
    /\ scanidx' = (IF reset_scanner THEN 0 ELSE scanidx)
    /\ reset_scanner' = FALSE
    /\ UNCHANGED <<textFlashCounter, mode, watched, stale>>

\* A change of video memory or of a switch, n cycles after the last look at the beam: first
\* what was shown until now is scanned, from the start of the scanline if nothing was dirty.
video_setDirty(n) ==
    LET cycles == cycles_video_frame + n
        start  == IF cyclesDirty = 0 THEN cycles - Column(cycles) ELSE cyclesFrameLast
    IN  pc = "cpu" /\ Begin("setDirty", cycles, start, Unbounded)

\* The end of a slice of n cycles, with a screen that is up to date.
UpdateClean(n) ==
    LET cycles == cycles_video_frame + n
    IN  /\ pc = "cpu" /\ cyclesDirty = 0
        /\ \/ cycles < CYCLES_FRAME
              /\ cycles_video_frame' = cycles /\ cyclesFrameLast' = cycles
              /\ UNCHANGED <<cyclesDirty, textFlashCounter, stale>>
           \/ cycles >= CYCLES_FRAME /\ _endOfFrame(cycles, cycles, 0)
        /\ scancol' = (IF reset_scanner THEN 0 ELSE scancol)
        /\ scanidx' = (IF reset_scanner THEN 0 ELSE scanidx)
        /\ reset_scanner' = FALSE
        /\ UNCHANGED <<pc, cyclesCount, hCount, vCount, mode, watched>>

\* The end of a slice of n cycles, with something to redraw.
UpdateDirty(n) ==
    /\ pc = "cpu" /\ cyclesDirty # 0
    /\ Begin("update", cycles_video_frame + n, cyclesFrameLast, cyclesDirty)

video_scannerUpdate(n) == UpdateClean(n) \/ UpdateDirty(n)

-----------------------------------------------------------------------------
(* One iteration of the loop                                                *)

\* mutation of Visible: the first visible column is missed.
FirstColumnBlank == hCount > HBL /\ vCount < VisLines

Visible == hCount >= HBL /\ vCount < VisLines

LastHere == hCount + 1 = CYCLES_SCANLINE

\* Video memory is read at visible positions.
Seen == Visible /\ watched = <<vCount, hCount>>

Within ==
    /\ ~LastHere
    /\ hCount' = hCount + 1 /\ scanidx' = IF Visible THEN scanidx + 1 ELSE scanidx
    /\ cyclesFrameLast' = cyclesFrameLast + 1 /\ cyclesDirty' = cyclesDirty - 1
    /\ stale' = (stale /\ ~Seen)
    /\ UNCHANGED <<vCount, scancol, cycles_video_frame, textFlashCounter>>

NextLine ==
    /\ LastHere /\ vCount + 1 # SCANLINES_FRAME
    /\ hCount' = 0 /\ vCount' = vCount + 1 /\ scancol' = 0 /\ scanidx' = 0
    /\ cyclesFrameLast' = cyclesFrameLast + 1 /\ cyclesDirty' = cyclesDirty - 1
    /\ stale' = (stale /\ ~Seen)
    /\ UNCHANGED <<cycles_video_frame, textFlashCounter>>

NextFrame ==
    /\ LastHere /\ vCount + 1 = SCANLINES_FRAME
    /\ hCount' = 0 /\ vCount' = 0 /\ scancol' = 0 /\ scanidx' = 0
    /\ _endOfFrame(cyclesFrameLast + 1, cycles_video_frame, cyclesDirty - 1)

\* Iterations stop at an assertion: cyclesDirty is unsigned.
Scan ==
    /\ pc # "cpu" /\ cyclesCount > 0 /\ cyclesDirty > 0
    /\ cyclesCount' = cyclesCount - 1
    /\ Within \/ NextLine \/ NextFrame
    /\ UNCHANGED <<pc, reset_scanner, mode, watched>>

\* A scanline that is left in the middle is flushed up to there.
FlushRest ==
    IF scanidx > 0 /\ vCount < VisLines
    THEN scancol' = scancol + scanidx /\ scanidx' = 0
    ELSE UNCHANGED <<scancol, scanidx>>

\* The counters of the loop are locals.
Return == pc' = "cpu" /\ hCount' = 0 /\ vCount' = 0 /\ UNCHANGED cyclesCount

\* The end of video_scannerUpdate() at the end of a slice.
EndUpdate ==
    /\ pc = "update" /\ cyclesCount = 0
    /\ FlushRest /\ Return
    /\ cyclesFrameLast' = IF cyclesDirty = 0 THEN cycles_video_frame ELSE cyclesFrameLast
    /\ UNCHANGED <<cycles_video_frame, cyclesDirty, textFlashCounter,
                   reset_scanner, mode, watched, stale>>

\* The end of video_setDirty(): the redraw starts, and its caller makes the change.
EndSetDirty ==
    /\ pc = "setDirty" /\ cyclesCount = 0
    /\ FlushRest /\ Return
    /\ cyclesDirty' = _setScannerDirty(cyclesFrameLast)
    /\ mode' \in Modes
    /\ stale' = TRUE
    /\ UNCHANGED <<cycles_video_frame, cyclesFrameLast, textFlashCounter, reset_scanner, watched>>

\* reinitialize(), between two slices: the beam returns to the top and the switches to text.
video_scannerReset ==
    /\ pc = "cpu" /\ cycles_video_frame' = 0 /\ cyclesFrameLast' = 0
    /\ cyclesDirty' = CYCLES_FRAME /\ reset_scanner' = TRUE
    /\ mode' = "text40" /\ stale' = TRUE
    /\ UNCHANGED <<pc, scan, textFlashCounter, watched>>

-----------------------------------------------------------------------------

Init ==
    /\ pc = "cpu" /\ cycles_video_frame = 0 /\ cyclesFrameLast = 0 /\ cyclesDirty = CYCLES_FRAME
    /\ cyclesCount = 0 /\ hCount = 0 /\ vCount = 0 /\ scancol = 0 /\ scanidx = 0
    /\ reset_scanner = FALSE /\ textFlashCounter = 0 /\ mode = "text40"
    /\ watched \in (0 .. VisLines - 1) \X (HBL .. CYCLES_SCANLINE - 1) /\ stale = TRUE

Next ==
    \/ \E n \in Slices : video_setDirty(n) \/ UpdateClean(n) \/ UpdateDirty(n)
    \/ Scan \/ EndUpdate \/ EndSetDirty \/ video_scannerReset

Spec == Init /\ [][Next]_vars

\* cpu_thread() goes on with slices that run cycles, and a scan goes on to its end.
FairSpec ==
    /\ Spec /\ WF_vars(Scan) /\ WF_vars(EndUpdate) /\ WF_vars(EndSetDirty)
    /\ SF_vars(\E n \in Slices \ {0} : video_scannerUpdate(n))

-----------------------------------------------------------------------------
(* Properties                                                               *)

TypeOK ==
    /\ pc \in {"cpu", "update", "setDirty"} /\ mode \in Modes
    /\ {cycles_video_frame, cyclesFrameLast, cyclesDirty, cyclesCount} \subseteq Nat
    /\ hCount \in 0 .. CYCLES_SCANLINE - 1 /\ vCount \in 0 .. SCANLINES_FRAME - 1
    /\ textFlashCounter \in 0 .. FlashPeriod - 1
    /\ reset_scanner \in BOOLEAN /\ stale \in BOOLEAN

\* The scanner never falls behind itself (video.c:361), counts no cycle twice, and ends the
\* scan that precedes a change at the present position of the beam (video.c:246).
BeamInOrder ==
    /\ pc = "cpu" \/ cyclesCount > 0 => cyclesFrameLast <= cycles_video_frame
    /\ pc = "setDirty" /\ cyclesCount = 0 => cyclesFrameLast = cycles_video_frame

\* A redraw always has cycles left for the iterations of the loop (video.c:368): the count
\* that was capped at the start stays capped when a flash restarts the redraw on the way.
NoUnderflow == pc # "cpu" => cyclesCount <= cyclesDirty

\* The scanline buffer holds exactly the visible columns since the last flush: lines are
\* flushed whole (video.c:425), or up to a column before the last (video.c:453), the buffer
\* does not overflow (video.c:387), and a redraw ends at the start of a line (video.c:459).
ScanlineBuffer ==
    pc # "cpu" =>
        /\ vCount < VisLines => scancol + scanidx = (IF hCount < HBL THEN 0 ELSE hCount - HBL)
        /\ vCount >= VisLines \/ cyclesDirty = 0 => scancol = 0 /\ scanidx = 0

\* A frame that ends was unprocessed (video.c:285, an assertion the authors disabled).
FrameWasOwed ==
    pc # "cpu" /\ cyclesCount > 0 /\ cyclesDirty > 0 /\ LastHere /\ vCount + 1 = SCANLINES_FRAME
        => cycles_video_frame >= CYCLES_FRAME

\* joystick.c:287 says of the frame callbacks that they are called every video frame: between
\* two slices no whole frame has gone by for which _endOfFrame() was not called.
Longest == CHOOSE n \in Slices : \A k \in Slices : k <= n
EveryFrameEnds == pc = "cpu" => cycles_video_frame < CYCLES_FRAME + Longest

\* The mode that video_scannerAddress() reads at, two cycles behind the beam.
AddressRow ==
    LET h == Column(cycles_video_frame) - 2
        v == Row(cycles_video_frame)
    IN  IF h >= 0 THEN v ELSE IF v = 0 THEN SCANLINES_FRAME - 1 ELSE v - 1

ModeAt(v, mixed) == IF mode = "mixed" THEN (IF v < mixed THEN "hires" ELSE "text40") ELSE mode
AddressMode(v)   == ModeAt(v, VisLines)
_currentMode(v)  == ModeAt(v, MixLines)

\* "get video scanner read position" (video.c:468): the floating bus reads from the page that
\* the scanner shows on that line.
FloatingBusReadsScreen ==
    AddressRow < VisLines => AddressMode(AddressRow) = _currentMode(AddressRow)

\* A position whose memory, mode or glyph has changed is redrawn before the scanner counts
\* the screen as up to date, whatever flashes, resets and further changes come in between.
ScreenCurrent == pc = "cpu" /\ cyclesDirty = 0 => ~stale

\* The scanner implements Redraw.
Abstract == INSTANCE Redraw WITH redrawing <- cyclesDirty > 0
RedrawsChanges == Abstract!Spec

\* Every change reaches the screen, also when further changes keep extending the redraw, once
\* the machine is not reset any more.
ChangesAppear == <>[][~video_scannerReset]_vars => (stale ~> ~stale)
=============================================================================
