----------------------------- MODULE Mockingboard -----------------------------
(***************************************************************************)
(* The interval timers and the interrupts of the Mockingboards             *)
(* (src/src/audio/mockingboard.c): two cards with two 6522 chips each, of  *)
(* which the first of a card can interrupt.  The program of the 6502       *)
(* accesses their registers, the counters follow the cycles of the CPU at  *)
(* the end of every slice and before every access, and the interrupt line  *)
(* is a bit of the CPU's signals, which a reset clears too.                *)
(*                                                                         *)
(* A C function is an operator from the state of the boards to the next    *)
(* one, so that a handler composes what it calls.  The second timers, the  *)
(* ports to the AY-3-8910 and the samples are left out.                    *)
(***************************************************************************)
EXTENDS Integers

CONSTANTS
    LowByte, HighByte,     \* values of a byte of a latch, low and high
    MaxSlice,              \* most cycles of a slice
    Programmed,            \* chips that the program accesses
    Enabling,              \* chips of which it accesses IER
    SavedChips,            \* chips that a state file may hold
    audio_isAvailable      \* the library of sound has been opened

Chips    == 0 .. 3
Modulus  == LowByte * HighByte
Invalid  == -1

Counter == 0 .. Modulus - 1

\* A slice is a thousandth of a second: a few thousand cycles of 2^15.
ASSUME BoardAssumption ==
    /\ LowByte \in Nat \ {0} /\ HighByte \in Nat \ {0}
    /\ MaxSlice \in Nat \ {0} /\ 2 * MaxSlice <= Modulus
    /\ Programmed \subseteq Chips /\ Enabling \subseteq Chips
    /\ audio_isAvailable \in BOOLEAN

Chip == [counter : Counter, latchL : 0 .. LowByte - 1, latchH : 0 .. HighByte - 1, IER : BOOLEAN, IFR : BOOLEAN, raised : BOOLEAN,
         freeRunning : BOOLEAN, nTimerStatus : BOOLEAN]

Blank == [counter |-> 0, latchL |-> 0, latchH |-> 0, IER |-> FALSE, IFR |-> FALSE, raised |-> FALSE,
          freeRunning |-> FALSE, nTimerStatus |-> FALSE]

Boards == [MB : [Chips -> Chip], active : BOOLEAN, device : Chips \cup {Invalid}, irq : BOOLEAN,
           played : BOOLEAN]

\* What a state file keeps of a chip was written in a state of the boards.
ASSUME SavedAssumption == Blank \in SavedChips /\ \A s \in SavedChips : s \in Chip /\ (s.raised => s.IFR)

VARIABLES
    board,       \* the chips, the timer, the interrupt line; whether the last step played sound
    lag,         \* cycles_count_total - g_uLastCumulativeCycles
    enabled,     \* g_SoundcardType # CT_Empty
    iflag,       \* the I flag of the 6502
    resetSig,    \* ResetSig, set by another thread
    settled      \* the program has left the boards alone for good, and the user

vars == <<board, lag, enabled, iflag, resetSig, settled>>

-----------------------------------------------------------------------------
(* The timer                                                                *)

IsDeviceA(d) == d % 2 = 0

\* There is one timer for the chips of both cards.
StartTimer(b, d) ==
    IF IsDeviceA(d) /\ b.MB[d].IER
    THEN [b EXCEPT !.MB[d].nTimerStatus = TRUE, !.active = TRUE, !.device = d]
    ELSE b

StopTimer(b, d) == [b EXCEPT !.MB[d].nTimerStatus = FALSE, !.active = FALSE, !.device = Invalid]

\* mutation of UpdateIFR: the line shows the chip at hand only.
UpdateOne(b, d) ==
    LET raised == b.MB[d].IFR /\ b.MB[d].IER
    IN [b EXCEPT !.MB[d].raised = raised, !.irq = raised]

\* The line is the or-sum of all chips.
UpdateIFR(b, d) ==
    LET raised == b.MB[d].IFR /\ b.MB[d].IER
    IN [b EXCEPT !.MB[d].raised = raised,
                 !.irq = raised \/ \E e \in Chips \ {d} : b.MB[e].raised]

Acknowledged(b, d) == UpdateIFR([b EXCEPT !.MB[d].IFR = FALSE], d)

Latch(c) == c.latchH * LowByte + c.latchL

Minus(counter, n) == IF counter >= n THEN counter - n ELSE counter - n + Modulus

Negative(counter) == 2 * counter >= Modulus

\* mutation of Underflows: the old sign is not looked at.
NewIsNegative(old, new) == Negative(new)

Underflows(old, new) == ~Negative(old) /\ Negative(new)

\* mutation of Withdraws: an expired flag that nobody reads stays.
WithdrawsNever(b, d, n) == FALSE

Passes(b, d, n) == Underflows(b.MB[d].counter, Minus(b.MB[d].counter, n))

\* The chip that generates the interrupts; there is at most one.
Expires(b, d, n) == b.active /\ d = b.device /\ Passes(b, d, n)

\* "alt underflow": the loop finds no timer, or a chip before this one has just stopped it.
Withdraws(b, d, n) ==
    /\ Passes(b, d, n) /\ b.MB[d].IFR /\ ~b.MB[d].freeRunning
    /\ \/ ~b.active
       \/ \E e \in 0 .. d - 1 : Expires(b, e, n) /\ ~b.MB[e].freeRunning

\* A free-running timer starts again from its latch, a one-shot timer stops.
Counted(b, n) ==
    [d \in Chips |->
        LET c       == b.MB[d]
            expires == Expires(b, d, n)
            IFR     == expires \/ (c.IFR /\ ~Withdraws(b, d, n))
        IN [c EXCEPT !.counter = IF expires /\ c.freeRunning THEN Latch(c) ELSE Minus(@, n),
                     !.IFR = IFR,
                     !.raised = IF expires \/ Withdraws(b, d, n) THEN IFR /\ c.IER ELSE @,
                     !.nTimerStatus = @ /\ ~(expires /\ ~c.freeRunning)]]

\* The loop over the chips; the line is renewed with a flag, and sound is played at an expiry.
MB_UpdateCycles(b, n) ==
    IF ~enabled \/ n = 0 THEN [b EXCEPT !.played = FALSE]
    ELSE LET MB      == Counted(b, n)
             expires == \E d \in Chips : Expires(b, d, n)
             changes == expires \/ \E d \in Chips : Withdraws(b, d, n)
             stops   == expires /\ ~b.MB[b.device].freeRunning
         IN [MB     |-> MB,
             active |-> b.active /\ ~stops,
             device |-> IF stops THEN Invalid ELSE b.device,
             irq    |-> IF changes THEN \E d \in Chips : MB[d].raised ELSE b.irq,
             played |-> expires]

-----------------------------------------------------------------------------
(* The registers                                                            *)

\* TIMER1L_COUNTER and TIMER1L_LATCH
WriteTimer1L(b, d, v) == [b EXCEPT !.MB[d].latchL = v]

\* TIMER1H_COUNTER
WriteTimer1HCounter(b, d, v) ==
    LET c == Acknowledged(b, d)
    IN StartTimer([c EXCEPT !.MB[d].latchH = v, !.MB[d].counter = Latch([c.MB[d] EXCEPT !.latchH = v])], d)

\* TIMER1H_LATCH
WriteTimer1HLatch(b, d, v) == Acknowledged([b EXCEPT !.MB[d].latchH = v], d)

WriteACR(b, d, free) == [b EXCEPT !.MB[d].freeRunning = free]

\* IER: the bit of the first timer is written, and the line renewed in any case.
WithIER(b, d, x) == UpdateIFR([b EXCEPT !.MB[d].IER = x], d)

\* mutation of ClearIER: whoever disables its timer stops the one that runs.
ClearIERStops(b, d, timer1) ==
    LET c == WithIER(b, d, b.MB[d].IER /\ ~timer1)
    IN IF c.MB[d].IER THEN c ELSE StopTimer(c, d)

\* A chip that disables its timer stops it if it had started it.
ClearIER(b, d, timer1) ==
    LET c == WithIER(b, d, b.MB[d].IER /\ ~timer1)
    IN IF ~c.MB[d].IER /\ c.MB[d].nTimerStatus THEN StopTimer(c, d) ELSE c

SetIER(b, d, timer1) == StartTimer(WithIER(b, d, b.MB[d].IER \/ timer1), d)

-----------------------------------------------------------------------------
(* Reset                                                                    *)

\* mutation of ResetSY6522: the timer is not stopped.
ResetOnly(b) == [b EXCEPT !.MB = [d \in Chips |-> Blank]]

\* All chips; the timer is stopped by a chip that had started it.
ResetSY6522(b) ==
    [b EXCEPT !.MB = [d \in Chips |-> Blank],
              !.active = @ /\ \A d \in Chips : ~b.MB[d].nTimerStatus]

\* ResetState() leaves g_bMBTimerIrqActive alone, and the interrupt line.
MB_Reset(b) ==
    IF audio_isAvailable THEN [ResetSY6522(b) EXCEPT !.device = Invalid, !.played = FALSE]
    ELSE [b EXCEPT !.played = FALSE]

-----------------------------------------------------------------------------
(* The 6502 and its program                                                 *)

\* Between two instructions the CPU sees its signals.
Running == ~resetSig /\ (board.irq => iflag)

\* The next instructions do not touch the boards.
Execute(n) ==
    /\ Running /\ lag + n <= MaxSlice
    /\ lag' = lag + n
    /\ board' = [board EXCEPT !.played = FALSE]
    /\ UNCHANGED <<enabled, iflag, resetSig, settled>>

\* The end of a slice, and MB_StartOfCpuExecute() of the next
SliceEnd ==
    /\ lag > 0
    /\ board' = MB_UpdateCycles(board, lag)
    /\ lag' = 0
    /\ UNCHANGED <<enabled, iflag, resetSig, settled>>

\* An access updates the counters first; without a card they stay behind.
Updated == {MB_UpdateCycles(board, lag)}

Access(next) ==
    /\ Running /\ ~settled
    /\ board' = next
    /\ lag' = IF enabled THEN 0 ELSE lag
    /\ UNCHANGED <<enabled, iflag, resetSig, settled>>

MB_Write(d) ==
    \E b \in Updated :
        \/ \E v \in 0 .. LowByte - 1 : Access(WriteTimer1L(b, d, v))
        \/ \E v \in 0 .. HighByte - 1 : Access(WriteTimer1HCounter(b, d, v))
        \/ \E v \in 0 .. HighByte - 1 : Access(WriteTimer1HLatch(b, d, v))
        \/ \E free \in BOOLEAN : Access(WriteACR(b, d, free))
        \/ Access(Acknowledged(b, d))                \* IFR
        \/ Access(UpdateIFR(b, d))                   \* other bits of IFR; TIMER2H
        \/ Access(b)                                 \* the other registers

WriteIER(d) ==
    \E b \in Updated, timer1 \in BOOLEAN : Access(ClearIER(b, d, timer1)) \/ Access(SetIER(b, d, timer1))

\* Reading the low byte of a counter acknowledges; reading another register does not.
mb_read(d) == \E b \in Updated : Access(Acknowledged(b, d)) \/ Access(UpdateIFR(b, d)) \/ Access(b)

ex_irq ==
    /\ board.irq /\ ~iflag /\ ~resetSig
    /\ iflag' = TRUE
    /\ UNCHANGED <<board, lag, enabled, resetSig, settled>>

\* CLI, SEI, RTI
SetFlag ==
    /\ Running
    /\ iflag' = ~iflag
    /\ UNCHANGED <<board, lag, enabled, resetSig, settled>>

\* The whole byte of signals is cleared.
ex_reset ==
    /\ resetSig /\ resetSig' = FALSE
    /\ board' = [board EXCEPT !.irq = FALSE]
    /\ UNCHANGED <<lag, enabled, iflag, settled>>

\* With an Apple key held: exit_reinit ends the slice; cpu65_init() and MB_Reset()
reinitialize ==
    /\ resetSig /\ resetSig' = FALSE
    /\ board' = [MB_Reset(MB_UpdateCycles(board, lag)) EXCEPT !.irq = FALSE]
    /\ lag' = 0 /\ iflag' = TRUE
    /\ UNCHANGED <<enabled, settled>>

-----------------------------------------------------------------------------
(* Other threads                                                            *)

ResetKey ==
    /\ ~resetSig /\ resetSig' = TRUE
    /\ UNCHANGED <<board, lag, enabled, iflag, settled>>

MB_SetEnabled ==
    /\ ~settled
    /\ enabled' = ~enabled
    /\ UNCHANGED <<board, lag, iflag, resetSig, settled>>

\* Of the sound, a frame of video plays what no timer does.
MB_EndOfVideoFrame ==
    /\ enabled /\ ~board.active
    /\ board' = [board EXCEPT !.played = TRUE]
    /\ UNCHANGED <<lag, enabled, iflag, resetSig, settled>>

\* Of a chip, the registers come in this order: counter, latch, ACR, IFR, IER.
Part(c, file, part) ==
    [c EXCEPT !.counter     = IF part >= 1 THEN file.counter ELSE @,
              !.latchL      = IF part >= 2 THEN file.latchL ELSE @,
              !.latchH      = IF part >= 2 THEN file.latchH ELSE @,
              !.freeRunning = IF part >= 3 THEN file.freeRunning ELSE @,
              !.IFR         = IF part >= 4 THEN file.IFR ELSE @,
              !.raised      = IF part >= 4 THEN file.raised ELSE @,
              !.IER         = IF part >= 5 THEN file.IER ELSE @]

\* The first `count' chips are loaded, and their timers started; the last one keeps the timer.
\* Of the next chip a part of the registers is loaded, and its timer is not started.
Loaded(b, file, count, part) ==
    LET started(d) == d < count /\ IsDeviceA(d) /\ file[d].IER
        chip(d)    == IF d < count THEN file[d]
                      ELSE IF d = count THEN Part(b.MB[d], file[d], part) ELSE b.MB[d]
    IN [b EXCEPT !.MB = [d \in Chips |-> [chip(d) EXCEPT !.nTimerStatus = b.MB[d].nTimerStatus \/ started(d)]],
                 !.active = @ \/ \E d \in Chips : started(d),
                 !.device = IF started(2) THEN 2 ELSE IF started(0) THEN 0 ELSE @]

\* A program that uses some of the chips leaves the others alone.
StateFiles == {f \in [Chips -> SavedChips] : \A d \in Chips \ Programmed : f[d] = Blank}

\* Where a file ends: within a chip, or after all of them.  Whether it ends in a chip that the
\* program leaves alone or after it makes no difference after a reset.
Ends == (Programmed \X (0 .. 5)) \cup {<<4, 0>>}

\* Between two slices; a file that ends early leaves what follows as it was reset.
mb_loadState ==
    /\ lag = 0 /\ ~settled
    /\ \E file \in StateFiles, e \in Ends : board' = Loaded(MB_Reset(board), file, e[1], e[2])
    /\ iflag' \in BOOLEAN
    /\ UNCHANGED <<lag, enabled, resetSig, settled>>

-----------------------------------------------------------------------------

Init ==
    /\ board = [MB |-> [d \in Chips |-> Blank], active |-> FALSE, device |-> Invalid,
                irq |-> FALSE, played |-> FALSE]
    /\ lag = 0 /\ enabled = TRUE /\ iflag = TRUE /\ resetSig = FALSE /\ settled = FALSE

Program ==
    \/ \E d \in Programmed : MB_Write(d) \/ mb_read(d)
    \/ \E d \in Enabling : WriteIER(d)
Settle ==
    /\ ~settled /\ settled' = TRUE
    /\ UNCHANGED <<board, lag, enabled, iflag, resetSig>>

Run     == \E n \in 1 .. MaxSlice : Execute(n)

Next ==
    \/ Run \/ SliceEnd \/ Program \/ Settle
    \/ ex_irq \/ SetFlag \/ ex_reset \/ reinitialize
    \/ ResetKey \/ MB_SetEnabled \/ MB_EndOfVideoFrame \/ mb_loadState

Spec == Init /\ [][Next]_vars

\* The CPU executes instructions, and video goes from frame to frame.
FairSpec ==
    /\ Spec
    /\ SF_vars(Run) /\ WF_vars(SliceEnd) /\ WF_vars(ex_irq) /\ WF_vars(ex_reset \/ reinitialize)
    /\ SF_vars(MB_EndOfVideoFrame)

-----------------------------------------------------------------------------
(* Properties                                                               *)

TypeOK ==
    /\ board \in Boards
    /\ lag \in 0 .. MaxSlice
    /\ enabled \in BOOLEAN /\ iflag \in BOOLEAN /\ resetSig \in BOOLEAN /\ settled \in BOOLEAN

Owned(b) ==
    /\ b.active <=> b.device # Invalid
    /\ b.active => IsDeviceA(b.device) /\ b.MB[b.device].nTimerStatus /\ b.MB[b.device].IER

\* There is a timer exactly when its chip is known, and that chip has started it and enabled its
\* interrupt: the sound is left to a timer (MB_EndOfVideoFrame) only if one will expire.  Neither
\* a reset, which clears one of the two variables, nor another chip may part them.
TimerOwner == Owned(board)

\* The or-sum that the line stands for
AnyRaised(b) == \E d \in Chips : b.MB[d].raised

\* The line is the or-sum of the chips (src/src/audio/mockingboard.c:432).
LineIsOrSum == board.irq <=> AnyRaised(board)

\* Only a reset of the CPU or a loaded state parts the line from the flags of the chips: what the
\* program or a timer does to a flag of any chip leaves them in agreement (UpdateIFR).
LineFollowsFlags ==
    [][ (board'.irq # board.irq \/ \E d \in Chips : board'.MB[d].raised # board.MB[d].raised)
        => (board'.irq <=> AnyRaised(board')) \/ ex_reset \/ mb_loadState ]_vars

\* The counter of the timer passes zero.
Due == enabled /\ board.active /\ board.MB[board.device].counter < lag

\* A timer expires when its counter passes zero and at no other time, however long the slice
\* and wherever in it an access cuts it (MB_UpdateCycles).
ExpiresWhenDue ==
    [][ enabled /\ lag > 0 /\ lag' = 0 => (board'.played <=> Due) \/ reinitialize ]_vars

\* A timer that runs is stopped by its own chip, at its end or by a reset, by no other chip.
TimerKept ==
    [][ board.active =>
          \/ board'.device = board.device
          \/ ~board'.MB[board.device].IER
          \/ Due /\ ~board.MB[board.device].freeRunning
          \/ reinitialize \/ mb_loadState ]_vars

\* An interrupt that a reset of the CPU lost, or a state file brought, is raised again or
\* withdrawn by the timer itself: when it expires, or when the one-shot timer wraps.
LostHeals ==
    \A d \in Programmed :
        (settled /\ enabled /\ board.MB[d].raised /\ ~board.irq)
            ~> \/ ~board.MB[d].raised \/ board.irq
               \/ ~board.active /\ board.MB[d].freeRunning

\* Sound is played for ever once the program leaves the timers alone: by the timer, or by the
\* frames of video if there is none.
SoundGoesOn == (settled /\ enabled /\ ~board.played) ~> board.played

=============================================================================
