-------------------------- MODULE MockingboardProofs --------------------------
(***************************************************************************)
(* Proofs about Mockingboard: the state stays well formed, the timer and   *)
(* its chip belong together, whichever chips the program uses.  All of     *)
(* them are about a machine with sound: without it MB_Reset() does nothing *)
(* (src/src/audio/mockingboard.c:1993), and a loaded state may leave the   *)
(* timer to a chip that has no interrupt.                                  *)
(***************************************************************************)
EXTENDS Mockingboard, TLAPS

\* A board that is well formed, and whose timer belongs to its chip
Sound(b) == b \in Boards /\ Owned(b)

\* The board with another chip in the place of d
With(b, d, c) == [b EXCEPT !.MB = [b.MB EXCEPT ![d] = c]]

LEMMA WithSound ==
    ASSUME NEW b, Sound(b), NEW d \in Chips, NEW c \in Chip,
           c.nTimerStatus = b.MB[d].nTimerStatus, c.IER = b.MB[d].IER
    PROVE  Sound(With(b, d, c))
  <1> DEFINE M == [b.MB EXCEPT ![d] = c]
  <1>0. b \in Boards /\ b.MB \in [Chips -> Chip] /\ Owned(b) /\ b.device \in Chips \cup {Invalid}
    BY DEF Sound, Boards
  <1>1. M \in [Chips -> Chip] /\ \A e \in Chips : M[e].nTimerStatus = b.MB[e].nTimerStatus /\ M[e].IER = b.MB[e].IER
    BY <1>0
  <1>2. With(b, d, c) = [b EXCEPT !.MB = M]
    BY DEF With
  <1>3. With(b, d, c) \in Boards /\ With(b, d, c).MB = M
        /\ With(b, d, c).active = b.active /\ With(b, d, c).device = b.device
    BY <1>0, <1>1, <1>2 DEF Boards
  <1> QED BY <1>0, <1>1, <1>3 DEF Sound, Owned, Chips, Invalid

LEMMA LineSound ==
    ASSUME NEW b, Sound(b), NEW x \in BOOLEAN
    PROVE  Sound([b EXCEPT !.irq = x])
  BY DEF Sound, Owned, Boards

LEMMA IFRSound ==
    ASSUME NEW b, Sound(b), NEW d \in Chips
    PROVE  Sound(UpdateIFR(b, d))
  <1> DEFINE r == b.MB[d].IFR /\ b.MB[d].IER
             c == [b.MB[d] EXCEPT !.raised = r]
             x == r \/ \E e \in Chips \ {d} : b.MB[e].raised
  <1>0. b \in Boards /\ b.MB[d] \in Chip
    BY DEF Sound, Boards
  <1>1. c \in Chip /\ c.nTimerStatus = b.MB[d].nTimerStatus /\ c.IER = b.MB[d].IER
    BY <1>0 DEF Chip
  <1>2. Sound(With(b, d, c))
    BY <1>1, WithSound
  <1>3. UpdateIFR(b, d) = [With(b, d, c) EXCEPT !.irq = x]
    BY <1>0 DEF UpdateIFR, With, Boards
  <1>4. x \in BOOLEAN
    OBVIOUS
  <1> QED BY <1>2, <1>3, <1>4, LineSound

LEMMA StopSound ==
    ASSUME NEW b \in Boards, NEW d \in Chips
    PROVE  Sound(StopTimer(b, d))
  <1> DEFINE M == [b.MB EXCEPT ![d] = [b.MB[d] EXCEPT !.nTimerStatus = FALSE]]
  <1>1. M \in [Chips -> Chip]
    BY DEF Boards, Chip
  <1>2. StopTimer(b, d) = [b EXCEPT !.MB = M, !.active = FALSE, !.device = Invalid]
    BY DEF StopTimer, Boards
  <1>3. StopTimer(b, d) \in Boards
    BY <1>1, <1>2 DEF Boards
  <1>4. ~StopTimer(b, d).active /\ StopTimer(b, d).device = Invalid
    BY <1>2 DEF Boards
  <1> QED BY <1>3, <1>4 DEF Sound, Owned

LEMMA StartSound ==
    ASSUME NEW b, Sound(b), NEW d \in Chips
    PROVE  Sound(StartTimer(b, d))
  <1> DEFINE c == [b.MB[d] EXCEPT !.nTimerStatus = TRUE]
             M == [b.MB EXCEPT ![d] = c]
  <1>0. b \in Boards /\ b.MB[d] \in Chip
    BY DEF Sound, Boards
  <1> SUFFICES ASSUME IsDeviceA(d) /\ b.MB[d].IER PROVE Sound(StartTimer(b, d))
    BY DEF StartTimer
  <1>1. c \in Chip /\ c.nTimerStatus /\ c.IER
    BY <1>0 DEF Chip
  <1>2. M \in [Chips -> Chip] /\ M[d] = c
    BY <1>0, <1>1 DEF Boards
  <1>3. StartTimer(b, d) = [b EXCEPT !.MB = M, !.active = TRUE, !.device = d]
    BY <1>0 DEF StartTimer, Boards
  <1>4. StartTimer(b, d) \in Boards
    BY <1>0, <1>2, <1>3 DEF Boards
  <1>5. StartTimer(b, d).MB = M /\ StartTimer(b, d).active /\ StartTimer(b, d).device = d
    BY <1>0, <1>3 DEF Boards
  <1> QED BY <1>1, <1>2, <1>4, <1>5 DEF Sound, Owned, Chips, Invalid

-----------------------------------------------------------------------------
(* The registers                                                            *)

\* The two bytes of a latch make a counter.
LEMMA LatchCounter ==
    ASSUME NEW h \in 0 .. HighByte - 1, NEW l \in 0 .. LowByte - 1
    PROVE  h * LowByte + l \in Counter
  <1>1. LowByte \in Nat \ {0} /\ HighByte \in Nat \ {0} /\ h \in Nat /\ l \in Nat /\ h <= HighByte - 1
    BY BoardAssumption
  <1>2. h * LowByte \in Nat /\ h * LowByte <= (HighByte - 1) * LowByte
    BY <1>1
  <1>3. (HighByte - 1) * LowByte = HighByte * LowByte - LowByte
    BY <1>1
  <1>4. HighByte * LowByte = Modulus /\ Modulus \in Nat
    BY <1>1 DEF Modulus
  <1> QED BY <1>1, <1>2, <1>3, <1>4 DEF Counter

LEMMA LatchType ==
    ASSUME NEW c \in Chip
    PROVE  Latch(c) \in Counter
  <1>1. c.latchH \in 0 .. HighByte - 1 /\ c.latchL \in 0 .. LowByte - 1
    BY DEF Chip
  <1> QED BY <1>1, LatchCounter DEF Latch

LEMMA AcknowledgedSound ==
    ASSUME NEW b, Sound(b), NEW d \in Chips
    PROVE  Sound(Acknowledged(b, d))
  <1> DEFINE c == [b.MB[d] EXCEPT !.IFR = FALSE]
  <1>0. b \in Boards /\ b.MB[d] \in Chip
    BY DEF Sound, Boards
  <1>1. c \in Chip /\ c.nTimerStatus = b.MB[d].nTimerStatus /\ c.IER = b.MB[d].IER
    BY <1>0 DEF Chip
  <1>2. Sound(With(b, d, c))
    BY <1>1, WithSound
  <1>3. Acknowledged(b, d) = UpdateIFR(With(b, d, c), d)
    BY <1>0 DEF Acknowledged, With, Boards
  <1> QED BY <1>2, <1>3, IFRSound

LEMMA RegisterSound ==
    ASSUME NEW b, Sound(b), NEW d \in Chips
    PROVE  /\ \A v \in 0 .. LowByte - 1 : Sound(WriteTimer1L(b, d, v))
           /\ \A v \in 0 .. HighByte - 1 : Sound(WriteTimer1HLatch(b, d, v))
           /\ \A free \in BOOLEAN : Sound(WriteACR(b, d, free))
  <1>0. b \in Boards /\ b.MB[d] \in Chip
    BY DEF Sound, Boards
  <1>1. ASSUME NEW v \in 0 .. LowByte - 1 PROVE Sound(WriteTimer1L(b, d, v))
    <2> DEFINE c == [b.MB[d] EXCEPT !.latchL = v]
    <2>1. c \in Chip /\ c.nTimerStatus = b.MB[d].nTimerStatus /\ c.IER = b.MB[d].IER
      BY <1>0 DEF Chip
    <2>2. WriteTimer1L(b, d, v) = With(b, d, c)
      BY <1>0 DEF WriteTimer1L, With, Boards
    <2> QED BY <2>1, <2>2, WithSound
  <1>2. ASSUME NEW v \in 0 .. HighByte - 1 PROVE Sound(WriteTimer1HLatch(b, d, v))
    <2> DEFINE c == [b.MB[d] EXCEPT !.latchH = v]
    <2>1. c \in Chip /\ c.nTimerStatus = b.MB[d].nTimerStatus /\ c.IER = b.MB[d].IER
      BY <1>0 DEF Chip
    <2>2. WriteTimer1HLatch(b, d, v) = Acknowledged(With(b, d, c), d)
      BY <1>0 DEF WriteTimer1HLatch, With, Boards
    <2> QED BY <2>1, <2>2, WithSound, AcknowledgedSound
  <1>3. ASSUME NEW free \in BOOLEAN PROVE Sound(WriteACR(b, d, free))
    <2> DEFINE c == [b.MB[d] EXCEPT !.freeRunning = free]
    <2>1. c \in Chip /\ c.nTimerStatus = b.MB[d].nTimerStatus /\ c.IER = b.MB[d].IER
      BY <1>0 DEF Chip
    <2>2. WriteACR(b, d, free) = With(b, d, c)
      BY <1>0 DEF WriteACR, With, Boards
    <2> QED BY <2>1, <2>2, WithSound
  <1> QED BY <1>1, <1>2, <1>3

LEMMA CounterSound ==
    ASSUME NEW b, Sound(b), NEW d \in Chips, NEW v \in 0 .. HighByte - 1
    PROVE  Sound(WriteTimer1HCounter(b, d, v))
  <1> DEFINE a == Acknowledged(b, d)
             l == Latch([a.MB[d] EXCEPT !.latchH = v])
             c == [a.MB[d] EXCEPT !.latchH = v, !.counter = l]
  <1>0. Sound(a)
    BY AcknowledgedSound
  <1> HIDE DEF a
  <1>1. a \in Boards /\ a.MB[d] \in Chip
    BY <1>0 DEF Sound, Boards
  <1>2. [a.MB[d] EXCEPT !.latchH = v] \in Chip
    BY <1>1 DEF Chip
  <1>3. l \in Counter
    BY <1>2, LatchType
  <1> HIDE DEF l
  <1>4. c \in Chip /\ c.nTimerStatus = a.MB[d].nTimerStatus /\ c.IER = a.MB[d].IER
    BY <1>1, <1>3 DEF Chip
  <1>5. Sound(With(a, d, c))
    BY <1>0, <1>4, WithSound
  <1>6. With(a, d, c) = [a EXCEPT !.MB[d].latchH = v, !.MB[d].counter = l]
    BY <1>1 DEF With, Boards
  <1>7. WriteTimer1HCounter(b, d, v) = StartTimer(With(a, d, c), d)
    BY <1>6 DEF WriteTimer1HCounter, a, l
  <1> QED BY <1>5, <1>7, StartSound

\* The timer and what decides who may have it stay as they are.
SameTimer(b, c) ==
    /\ c.active = b.active /\ c.device = b.device
    /\ \A e \in Chips : c.MB[e].nTimerStatus = b.MB[e].nTimerStatus /\ c.MB[e].IER = b.MB[e].IER

LEMMA WithSame ==
    ASSUME NEW b \in Boards, NEW d \in Chips, NEW c \in Chip,
           c.nTimerStatus = b.MB[d].nTimerStatus, c.IER = b.MB[d].IER
    PROVE  SameTimer(b, With(b, d, c)) /\ With(b, d, c) \in Boards
  <1> DEFINE M == [b.MB EXCEPT ![d] = c]
  <1>1. M \in [Chips -> Chip] /\ \A e \in Chips : M[e].nTimerStatus = b.MB[e].nTimerStatus /\ M[e].IER = b.MB[e].IER
    BY DEF Boards
  <1>2. With(b, d, c) = [b EXCEPT !.MB = M]
    BY DEF With
  <1> HIDE DEF M
  <1> QED BY <1>1, <1>2 DEF SameTimer, Boards

LEMMA IFRSame ==
    ASSUME NEW b \in Boards, NEW d \in Chips
    PROVE  SameTimer(b, UpdateIFR(b, d)) /\ UpdateIFR(b, d) \in Boards
  <1> DEFINE r == b.MB[d].IFR /\ b.MB[d].IER
             c == [b.MB[d] EXCEPT !.raised = r]
             x == r \/ \E e \in Chips \ {d} : b.MB[e].raised
             w == With(b, d, c)
  <1>1. b.MB[d] \in Chip
    BY DEF Boards
  <1>2. c \in Chip /\ c.nTimerStatus = b.MB[d].nTimerStatus /\ c.IER = b.MB[d].IER
    BY <1>1 DEF Chip
  <1>3. UpdateIFR(b, d) = [w EXCEPT !.irq = x]
    BY DEF UpdateIFR, With, Boards
  <1>4. x \in BOOLEAN
    OBVIOUS
  <1> HIDE DEF c, x
  <1>5. SameTimer(b, w) /\ w \in Boards
    BY <1>2, WithSame
  <1> HIDE DEF w
  <1> QED BY <1>3, <1>4, <1>5 DEF SameTimer, Boards

\* The other chips, and who has the timer, stay as they were.
OnlyIER(b, c, d, x) ==
    /\ c.active = b.active /\ c.device = b.device /\ c.MB[d].IER = x
    /\ \A e \in Chips : /\ c.MB[e].nTimerStatus = b.MB[e].nTimerStatus
                        /\ e # d => c.MB[e].IER = b.MB[e].IER

LEMMA IEROnly ==
    ASSUME NEW b \in Boards, NEW d \in Chips, NEW x \in BOOLEAN
    PROVE  WithIER(b, d, x) \in Boards /\ OnlyIER(b, WithIER(b, d, x), d, x)
  <1> DEFINE i == [b.MB[d] EXCEPT !.IER = x]
             M == [b.MB EXCEPT ![d] = i]
             w == With(b, d, i)
             c == UpdateIFR(w, d)
  <1>0. b.MB \in [Chips -> Chip] /\ b.MB[d] \in Chip
    BY DEF Boards
  <1>1. i \in Chip /\ i.nTimerStatus = b.MB[d].nTimerStatus /\ i.IER = x
    BY <1>0 DEF Chip
  <1>2. [b EXCEPT !.MB[d].IER = x] = w
    BY <1>0 DEF With, Boards
  <1> HIDE DEF i
  <1>3. M \in [Chips -> Chip] /\ M[d] = i /\ \A e \in Chips : e # d => M[e] = b.MB[e]
    BY <1>0, <1>1
  <1>4. w = [b EXCEPT !.MB = M]
    BY DEF With
  <1> HIDE DEF w, M
  <1>5. w \in Boards /\ w.MB = M /\ w.active = b.active /\ w.device = b.device
    BY <1>0, <1>3, <1>4 DEF Boards
  <1>6. SameTimer(w, c) /\ c \in Boards
    BY <1>5, IFRSame
  <1> HIDE DEF c
  <1>7. /\ c.active = b.active /\ c.device = b.device /\ c.MB[d].IER = x
        /\ \A e \in Chips : /\ c.MB[e].nTimerStatus = b.MB[e].nTimerStatus
                            /\ e # d => c.MB[e].IER = b.MB[e].IER
    BY <1>1, <1>3, <1>5, <1>6 DEF SameTimer
  <1> QED BY <1>2, <1>6, <1>7 DEF c, WithIER, OnlyIER

LEMMA ClearSound ==
    ASSUME NEW b, Sound(b), NEW d \in Chips, NEW timer1 \in BOOLEAN
    PROVE  Sound(ClearIER(b, d, timer1))
  <1> DEFINE x == b.MB[d].IER /\ ~timer1
             c == WithIER(b, d, x)
  <1>0. b \in Boards /\ Owned(b) /\ b.device \in Chips \cup {Invalid}
    BY DEF Sound, Boards
  <1>1. x \in BOOLEAN
    OBVIOUS
  <1>2. ClearIER(b, d, timer1) = IF ~c.MB[d].IER /\ c.MB[d].nTimerStatus THEN StopTimer(c, d) ELSE c
    BY DEF ClearIER
  <1> HIDE DEF x
  <1>3. c \in Boards /\ OnlyIER(b, c, d, x)
    BY <1>0, <1>1, IEROnly
  <1> HIDE DEF c
  <1>4. CASE ~c.MB[d].IER /\ c.MB[d].nTimerStatus
    BY <1>2, <1>3, <1>4, StopSound
  <1>5. CASE ~(~c.MB[d].IER /\ c.MB[d].nTimerStatus)
    <2>1. ASSUME c.active
          PROVE  c.device \in Chips /\ IsDeviceA(c.device) /\ c.MB[c.device].nTimerStatus /\ c.MB[c.device].IER
      <3>1. /\ b.device = c.device /\ b.device \in Chips /\ IsDeviceA(b.device)
            /\ b.MB[b.device].nTimerStatus /\ b.MB[b.device].IER
        BY <1>0, <1>3, <2>1 DEF Owned, OnlyIER
      <3>2. c.MB[c.device].nTimerStatus
        BY <1>3, <3>1 DEF OnlyIER
      <3>3. CASE c.device = d
        BY <1>5, <3>1, <3>2, <3>3
      <3>4. CASE c.device # d
        BY <1>3, <3>1, <3>2, <3>4 DEF OnlyIER
      <3> QED BY <3>3, <3>4
    <2>2. c.active <=> c.device # Invalid
      BY <1>0, <1>3 DEF Owned, OnlyIER
    <2> QED BY <1>2, <1>3, <1>5, <2>1, <2>2 DEF Sound, Owned
  <1> QED BY <1>4, <1>5

LEMMA SetSound ==
    ASSUME NEW b, Sound(b), NEW d \in Chips, NEW timer1 \in BOOLEAN
    PROVE  Sound(SetIER(b, d, timer1))
  <1> DEFINE x == b.MB[d].IER \/ timer1
             c == WithIER(b, d, x)
  <1>0. b \in Boards /\ Owned(b) /\ b.device \in Chips \cup {Invalid}
    BY DEF Sound, Boards
  <1>1. x \in BOOLEAN /\ (b.MB[d].IER => x)
    BY <1>0 DEF Boards, Chip
  <1>2. SetIER(b, d, timer1) = StartTimer(c, d)
    BY DEF SetIER
  <1> HIDE DEF x
  <1>3. c \in Boards /\ OnlyIER(b, c, d, x)
    BY <1>0, <1>1, IEROnly
  <1> HIDE DEF c
  <1>4. Owned(c)
    BY <1>0, <1>1, <1>3 DEF Owned, OnlyIER
  <1> QED BY <1>2, <1>3, <1>4, StartSound DEF Sound

-----------------------------------------------------------------------------
(* The cycles                                                               *)

LEMMA MinusType ==
    ASSUME NEW k \in Counter, NEW n \in 0 .. MaxSlice
    PROVE  Minus(k, n) \in Counter
  <1>1. LowByte \in Nat \ {0} /\ HighByte \in Nat \ {0} /\ MaxSlice \in Nat \ {0} /\ 2 * MaxSlice <= Modulus
    BY BoardAssumption
  <1>2. Modulus \in Nat
    BY <1>1 DEF Modulus
  <1> QED BY <1>1, <1>2 DEF Minus, Counter

LEMMA CyclesSound ==
    ASSUME NEW b, Sound(b), NEW n \in 0 .. MaxSlice
    PROVE  Sound(MB_UpdateCycles(b, n))
  <1> DEFINE M       == Counted(b, n)
             expires == \E d \in Chips : Expires(b, d, n)
             changes == expires \/ \E d \in Chips : Withdraws(b, d, n)
             stops   == expires /\ ~b.MB[b.device].freeRunning
             x       == IF changes THEN \E d \in Chips : M[d].raised ELSE b.irq
             next    == [MB |-> M, active |-> b.active /\ ~stops,
                         device |-> IF stops THEN Invalid ELSE b.device,
                         irq |-> x, played |-> expires]
  <1>0. b \in Boards /\ b.MB \in [Chips -> Chip] /\ Owned(b)
        /\ b.device \in Chips \cup {Invalid} /\ b.active \in BOOLEAN /\ b.irq \in BOOLEAN
    BY DEF Sound, Boards
  <1>1. CASE ~enabled \/ n = 0
    <2>1. MB_UpdateCycles(b, n) = [b EXCEPT !.played = FALSE]
      BY <1>1 DEF MB_UpdateCycles
    <2>2. [b EXCEPT !.played = FALSE] \in Boards
      BY <1>0 DEF Boards
    <2> QED BY <1>0, <2>1, <2>2 DEF Sound, Owned, Boards
  <1>2. CASE ~(~enabled \/ n = 0)
    <2>1. MB_UpdateCycles(b, n) = next
      BY <1>2 DEF MB_UpdateCycles
    <2>2. ASSUME NEW d \in Chips
          PROVE  /\ M[d] \in Chip /\ M[d].IER = b.MB[d].IER
                 /\ ~(Expires(b, d, n) /\ ~b.MB[d].freeRunning) => M[d].nTimerStatus = b.MB[d].nTimerStatus
      <3> DEFINE c  == b.MB[d]
                 ex == Expires(b, d, n)
                 wd == Withdraws(b, d, n)
                 k  == IF ex /\ c.freeRunning THEN Latch(c) ELSE Minus(c.counter, n)
                 f  == ex \/ (c.IFR /\ ~wd)
                 r  == IF ex \/ wd THEN f /\ c.IER ELSE c.raised
                 s  == c.nTimerStatus /\ ~(ex /\ ~c.freeRunning)
      <3>1. M[d] = [c EXCEPT !.counter = k, !.IFR = f, !.raised = r, !.nTimerStatus = s]
        BY DEF Counted
      <3>2. c \in Chip
        BY <1>0
      <3> HIDE DEF M
      <3>3. c.counter \in Counter /\ c.raised \in BOOLEAN /\ c.nTimerStatus \in BOOLEAN
        BY <3>2 DEF Chip
      <3>4. k \in Counter
        BY <3>2, <3>3, LatchType, MinusType
      <3>5. f \in BOOLEAN /\ r \in BOOLEAN /\ s \in BOOLEAN
        BY <3>3
      <3>6. ~(ex /\ ~c.freeRunning) => s = c.nTimerStatus
        BY <3>3
      <3> HIDE DEF c, ex, k, f, r, s
      <3>7. M[d] \in Chip /\ M[d].IER = c.IER /\ M[d].nTimerStatus = s
        BY <3>1, <3>2, <3>4, <3>5 DEF Chip
      <3> QED BY <3>6, <3>7 DEF c, ex
    <2>3. M \in [Chips -> Chip]
      BY <2>2 DEF Counted
    <2>4. expires \in BOOLEAN /\ stops \in BOOLEAN /\ x \in BOOLEAN
      BY <1>0
    <2>5. expires => Expires(b, b.device, n) /\ b.device \in Chips
      BY DEF Expires
    <2> HIDE DEF M, expires, changes, x
    <2>6. next \in Boards
      BY <1>0, <2>3, <2>4 DEF Boards
    <2>7. Owned(next)
      <3>1. CASE stops
        BY <3>1 DEF Owned
      <3>2. CASE ~stops
        <4>1. next.active = b.active /\ next.device = b.device /\ next.MB = M
          BY <1>0, <3>2
        <4>2. b.active => b.device \in Chips
          BY <1>0 DEF Owned, Chips, Invalid
        <4>3. b.active => M[b.device].nTimerStatus = b.MB[b.device].nTimerStatus /\ M[b.device].IER = b.MB[b.device].IER
          BY <2>2, <3>2, <4>2 DEF expires
        <4> QED BY <1>0, <4>1, <4>3 DEF Owned
      <3> QED BY <3>1, <3>2
    <2> QED BY <2>1, <2>6, <2>7 DEF Sound
  <1> QED BY <1>1, <1>2

-----------------------------------------------------------------------------
(* Reset and load                                                           *)

LEMMA BlankType == Blank \in Chip
  <1>1. LowByte \in Nat \ {0} /\ HighByte \in Nat \ {0}
    BY BoardAssumption
  <1>2. 0 \in Counter
    BY <1>1, LatchCounter
  <1> QED BY <1>1, <1>2 DEF Blank, Chip

\* Whoever the timer belongs to had started it, so that a reset finds and stops it.
LEMMA ResetSound ==
    ASSUME NEW b, Sound(b), audio_isAvailable
    PROVE  Sound(MB_Reset(b)) /\ ~MB_Reset(b).active
  <1> DEFINE M == [d \in Chips |-> Blank]
             a == b.active /\ \A d \in Chips : ~b.MB[d].nTimerStatus
  <1>0. b \in Boards /\ Owned(b) /\ b.device \in Chips \cup {Invalid}
    BY DEF Sound, Boards
  <1>1. M \in [Chips -> Chip]
    BY BlankType
  <1>2. a = FALSE
    BY <1>0 DEF Owned
  <1>3. MB_Reset(b) = [[b EXCEPT !.MB = M, !.active = a] EXCEPT !.device = Invalid, !.played = FALSE]
    BY DEF MB_Reset, ResetSY6522
  <1> HIDE DEF M, a
  <1>4. MB_Reset(b) \in Boards /\ ~MB_Reset(b).active /\ MB_Reset(b).device = Invalid
    BY <1>0, <1>1, <1>2, <1>3 DEF Boards
  <1> QED BY <1>4 DEF Sound, Owned

\* What is loaded of a chip leaves it a chip, and enables its interrupt only if the file does.
LEMMA PartType ==
    ASSUME NEW c \in Chip, NEW f \in Chip, NEW part \in 0 .. 5
    PROVE  /\ Part(c, f, part) \in Chip
           /\ Part(c, f, part).IER => c.IER \/ f.IER
  <1> DEFINE k == IF part >= 1 THEN f.counter ELSE c.counter
             l == IF part >= 2 THEN f.latchL ELSE c.latchL
             h == IF part >= 2 THEN f.latchH ELSE c.latchH
             r == IF part >= 3 THEN f.freeRunning ELSE c.freeRunning
             i == IF part >= 4 THEN f.IFR ELSE c.IFR
             u == IF part >= 4 THEN f.raised ELSE c.raised
             e == IF part >= 5 THEN f.IER ELSE c.IER
  <1>1. Part(c, f, part) = [c EXCEPT !.counter = k, !.latchL = l, !.latchH = h, !.freeRunning = r,
                                     !.IFR = i, !.raised = u, !.IER = e]
    BY DEF Part, Chip
  <1>2. k \in Counter /\ l \in 0 .. LowByte - 1 /\ h \in 0 .. HighByte - 1
    BY DEF Chip
  <1>3. r \in BOOLEAN /\ i \in BOOLEAN /\ u \in BOOLEAN /\ e \in BOOLEAN
    BY DEF Chip
  <1>4. e => c.IER \/ f.IER
    OBVIOUS
  <1> HIDE DEF k, l, h, r, i, u, e
  <1>5. Part(c, f, part) \in Chip /\ Part(c, f, part).IER = e
    BY <1>1, <1>2, <1>3 DEF Chip
  <1> QED BY <1>4, <1>5

LEMMA EndType == \A e \in Ends : e[1] \in 0 .. 4 /\ e[2] \in 0 .. 5
  <1>1. Programmed \subseteq 0 .. 4
    BY BoardAssumption DEF Chips
  <1>2. ASSUME NEW e \in Programmed \X (0 .. 5) PROVE e[1] \in Programmed /\ e[2] \in 0 .. 5
    OBVIOUS
  <1>3. <<4, 0>>[1] \in 0 .. 4 /\ <<4, 0>>[2] \in 0 .. 5
    OBVIOUS
  <1>4. ASSUME NEW e \in Ends PROVE e \in Programmed \X (0 .. 5) \/ e = <<4, 0>>
    BY DEF Ends
  <1> QED BY <1>1, <1>2, <1>3, <1>4

LEMMA LoadedSound ==
    ASSUME NEW b, Sound(b), ~b.active, NEW file \in [Chips -> Chip], NEW count \in 0 .. 4, NEW part \in 0 .. 5
    PROVE  Sound(Loaded(b, file, count, part))
  <1> DEFINE started(d) == d < count /\ IsDeviceA(d) /\ file[d].IER
             chip(d) == IF d < count THEN file[d]
                        ELSE IF d = count THEN Part(b.MB[d], file[d], part) ELSE b.MB[d]
             M == [d \in Chips |-> [chip(d) EXCEPT !.nTimerStatus = b.MB[d].nTimerStatus \/ started(d)]]
             a == b.active \/ \E d \in Chips : started(d)
             e == IF started(2) THEN 2 ELSE IF started(0) THEN 0 ELSE b.device
  <1>0. b \in Boards /\ b.MB \in [Chips -> Chip] /\ b.active = FALSE /\ b.device = Invalid
    BY DEF Sound, Boards, Owned
  <1>1. Loaded(b, file, count, part) = [b EXCEPT !.MB = M, !.active = a, !.device = e]
    BY DEF Loaded
  <1>2. ASSUME NEW d \in Chips
        PROVE  M[d] \in Chip /\ (started(d) => M[d].nTimerStatus /\ M[d].IER)
    <2> DEFINE t == b.MB[d].nTimerStatus \/ started(d)
    <2>1. file[d] \in Chip /\ b.MB[d] \in Chip
      BY <1>0
    <2>2. chip(d) \in Chip /\ (d < count => chip(d) = file[d])
      BY <2>1, PartType
    <2>3. M[d] = [chip(d) EXCEPT !.nTimerStatus = t]
      OBVIOUS
    <2>4. t \in BOOLEAN /\ (started(d) => t)
      OBVIOUS
    <2>5. started(d) => d < count /\ file[d].IER
      OBVIOUS
    <2> HIDE DEF M, started, chip, t
    <2>6. M[d] \in Chip /\ M[d].nTimerStatus = t /\ M[d].IER = chip(d).IER
      BY <2>2, <2>3, <2>4 DEF Chip
    <2> QED BY <2>2, <2>4, <2>5, <2>6
  <1>3. M \in [Chips -> Chip]
    BY <1>2
  <1>4. ASSUME NEW d \in Chips, started(d) PROVE d = 0 \/ d = 2
    BY <1>4 DEF Chips, IsDeviceA
  <1>5. 0 \in Chips /\ 2 \in Chips /\ IsDeviceA(0) /\ IsDeviceA(2) /\ Invalid \notin Chips
    BY DEF Chips, IsDeviceA, Invalid
  <1>6. a \in BOOLEAN /\ (a <=> started(0) \/ started(2))
    BY <1>0, <1>4, <1>5
  <1>7. e \in Chips \cup {Invalid} /\ (a <=> e # Invalid) /\ (a => e \in Chips /\ started(e) /\ IsDeviceA(e))
    BY <1>0, <1>5, <1>6
  <1> HIDE DEF M, a, e
  <1>8. Loaded(b, file, count, part) \in Boards /\ Loaded(b, file, count, part).MB = M
        /\ Loaded(b, file, count, part).active = a /\ Loaded(b, file, count, part).device = e
    BY <1>0, <1>1, <1>3, <1>6, <1>7 DEF Boards
  <1> QED BY <1>2, <1>7, <1>8 DEF Sound, Owned

-----------------------------------------------------------------------------
(* The invariant                                                            *)

IInv == TypeOK /\ TimerOwner

LEMMA InvSound == IInv => Sound(board) /\ lag \in 0 .. MaxSlice
  BY DEF IInv, TypeOK, TimerOwner, Sound

LEMMA InvInit == Init => IInv
  <1> SUFFICES ASSUME Init PROVE IInv
    OBVIOUS
  <1>1. [d \in Chips |-> Blank] \in [Chips -> Chip]
    BY BlankType
  <1>2. board \in Boards
    BY <1>1 DEF Init, Boards
  <1>3. 0 \in 0 .. MaxSlice
    BY BoardAssumption
  <1> QED BY <1>2, <1>3 DEF Init, IInv, TypeOK, TimerOwner, Owned

\* Every access leaves a sound board: the counters are updated, then a register is written.
LEMMA ProgramSound ==
    ASSUME IInv, Program
    PROVE  Sound(board') /\ lag' \in 0 .. MaxSlice /\ UNCHANGED <<enabled, iflag, resetSig, settled>>
  <1>0. Sound(board) /\ lag \in 0 .. MaxSlice /\ 0 \in 0 .. MaxSlice
    BY InvSound, BoardAssumption
  <1>1. ASSUME NEW b \in Updated PROVE Sound(b)
    BY <1>0, CyclesSound DEF Updated
  <1>2. ASSUME NEW next, Sound(next), Access(next)
        PROVE  Sound(board') /\ lag' \in 0 .. MaxSlice /\ UNCHANGED <<enabled, iflag, resetSig, settled>>
    BY <1>0, <1>2 DEF Access
  <1>3. Programmed \subseteq Chips /\ Enabling \subseteq Chips
    BY BoardAssumption
  <1>4. ASSUME NEW d \in Programmed, MB_Write(d)
        PROVE  \E next : Sound(next) /\ Access(next)
    <2>1. PICK b \in Updated :
              \/ \E v \in 0 .. LowByte - 1 : Access(WriteTimer1L(b, d, v))
              \/ \E v \in 0 .. HighByte - 1 : Access(WriteTimer1HCounter(b, d, v))
              \/ \E v \in 0 .. HighByte - 1 : Access(WriteTimer1HLatch(b, d, v))
              \/ \E free \in BOOLEAN : Access(WriteACR(b, d, free))
              \/ Access(Acknowledged(b, d))
              \/ Access(UpdateIFR(b, d))
              \/ Access(b)
      BY <1>4 DEF MB_Write
    <2>2. Sound(b) /\ d \in Chips
      BY <1>1, <1>3
    <2> QED BY <2>1, <2>2, RegisterSound, CounterSound, AcknowledgedSound, IFRSound
  <1>5. ASSUME NEW d \in Enabling, WriteIER(d)
        PROVE  \E next : Sound(next) /\ Access(next)
    <2>1. PICK b \in Updated, timer1 \in BOOLEAN :
              Access(ClearIER(b, d, timer1)) \/ Access(SetIER(b, d, timer1))
      BY <1>5 DEF WriteIER
    <2> QED BY <2>1, <1>1, <1>3, ClearSound, SetSound
  <1>6. ASSUME NEW d \in Programmed, mb_read(d)
        PROVE  \E next : Sound(next) /\ Access(next)
    <2>1. PICK b \in Updated : Access(Acknowledged(b, d)) \/ Access(UpdateIFR(b, d)) \/ Access(b)
      BY <1>6 DEF mb_read
    <2> QED BY <2>1, <1>1, <1>3, AcknowledgedSound, IFRSound
  <1> QED BY <1>2, <1>4, <1>5, <1>6 DEF Program

LEMMA InvNext == ASSUME audio_isAvailable PROVE IInv /\ [Next]_vars => IInv'
  <1> SUFFICES ASSUME IInv, [Next]_vars PROVE Sound(board') /\ lag' \in 0 .. MaxSlice
                 /\ enabled' \in BOOLEAN /\ iflag' \in BOOLEAN /\ resetSig' \in BOOLEAN /\ settled' \in BOOLEAN
    BY DEF IInv, TypeOK, TimerOwner, Sound, Owned
  <1>0. Sound(board) /\ lag \in 0 .. MaxSlice /\ enabled \in BOOLEAN /\ iflag \in BOOLEAN
        /\ resetSig \in BOOLEAN /\ settled \in BOOLEAN /\ 0 \in 0 .. MaxSlice /\ MaxSlice \in Nat
    BY InvSound, BoardAssumption DEF IInv, TypeOK
  <1>1. ASSUME NEW x \in BOOLEAN PROVE Sound([board EXCEPT !.played = x])
    BY <1>0 DEF Sound, Owned, Boards
  <1>2. CASE Run
    <2>1. PICK n \in 1 .. MaxSlice : Execute(n)
      BY <1>2 DEF Run
    <2>2. lag' \in 0 .. MaxSlice
      BY <1>0, <2>1 DEF Execute
    <2> QED BY <1>0, <1>1, <2>1, <2>2 DEF Execute
  <1>3. CASE SliceEnd
    BY <1>0, <1>3, CyclesSound DEF SliceEnd
  <1>4. CASE Program
    BY <1>0, <1>4, ProgramSound
  <1>5. CASE Settle \/ ex_irq \/ SetFlag \/ ResetKey \/ MB_SetEnabled
    BY <1>0, <1>5 DEF Settle, ex_irq, SetFlag, ResetKey, MB_SetEnabled
  <1>6. CASE ex_reset
    BY <1>0, <1>6, LineSound DEF ex_reset
  <1>7. CASE reinitialize
    BY <1>0, <1>7, CyclesSound, ResetSound, LineSound DEF reinitialize
  <1>8. CASE MB_EndOfVideoFrame
    BY <1>0, <1>1, <1>8 DEF MB_EndOfVideoFrame
  <1>9. CASE mb_loadState
    <2>1. PICK file \in StateFiles, e \in Ends : board' = Loaded(MB_Reset(board), file, e[1], e[2])
      BY <1>9 DEF mb_loadState
    <2>2. file \in [Chips -> Chip]
      BY SavedAssumption DEF StateFiles
    <2> QED BY <1>0, <1>9, <2>1, <2>2, EndType, ResetSound, LoadedSound DEF mb_loadState
  <1>10. CASE UNCHANGED vars
    BY <1>0, <1>10 DEF vars
  <1> QED BY <1>2, <1>3, <1>4, <1>5, <1>6, <1>7, <1>8, <1>9, <1>10 DEF Next

\* The state stays well formed, and the timer belongs to a chip that has started it and enabled its
\* interrupt, however the program shares the one timer between the chips of two cards.
THEOREM TimerInvariant == ASSUME audio_isAvailable PROVE Spec => [](TypeOK /\ TimerOwner)
  <1>1. IInv => TypeOK /\ TimerOwner
    BY DEF IInv
  <1>2. IInv /\ [Next]_vars => IInv'
    BY InvNext
  <1> QED BY <1>1, <1>2, InvInit, PTL DEF Spec

-----------------------------------------------------------------------------
(* What happens to the interrupt line and to the sound                      *)

Agree(b) == b.irq <=> AnyRaised(b)

\* The line and the flags stay as they are
Silent(b, c) ==
    c \in Boards /\ c.played = b.played /\ c.irq = b.irq /\ \A e \in Chips : c.MB[e].raised = b.MB[e].raised

\* The line is renewed from the flags
Renewed(b, c) == c \in Boards /\ c.played = b.played /\ Agree(c)

LEMMA SilentTrans ==
    ASSUME NEW a, NEW b, NEW c, Silent(a, b) \/ Renewed(a, b), Silent(b, c) \/ Renewed(b, c)
    PROVE  (Silent(a, c) \/ Renewed(a, c)) /\ (Renewed(a, b) => Renewed(a, c))
  BY DEF Silent, Renewed, Agree, AnyRaised

LEMMA WithSilent ==
    ASSUME NEW b \in Boards, NEW d \in Chips, NEW c \in Chip, c.raised = b.MB[d].raised
    PROVE  Silent(b, With(b, d, c))
  <1> DEFINE M == [b.MB EXCEPT ![d] = c]
  <1>1. M \in [Chips -> Chip] /\ \A e \in Chips : M[e].raised = b.MB[e].raised
    BY DEF Boards
  <1>2. With(b, d, c) = [b EXCEPT !.MB = M]
    BY DEF With
  <1> HIDE DEF M
  <1> QED BY <1>1, <1>2 DEF Silent, Boards

LEMMA TimerSilent ==
    ASSUME NEW b \in Boards, NEW d \in Chips
    PROVE  Silent(b, StartTimer(b, d)) /\ Silent(b, StopTimer(b, d))
  <1> DEFINE c(s) == [b.MB[d] EXCEPT !.nTimerStatus = s]
             t(s, a, e) == [b EXCEPT !.MB = [b.MB EXCEPT ![d] = c(s)], !.active = a, !.device = e]
  <1>1. ASSUME NEW s \in BOOLEAN, NEW a \in BOOLEAN, NEW e \in Chips \cup {Invalid} PROVE Silent(b, t(s, a, e))
    <2> DEFINE M == [b.MB EXCEPT ![d] = c(s)]
    <2>1. b.MB[d] \in Chip
      BY DEF Boards
    <2>2. c(s) \in Chip /\ c(s).raised = b.MB[d].raised
      BY <2>1 DEF Chip
    <2>3. t(s, a, e) = [b EXCEPT !.MB = M, !.active = a, !.device = e]
      OBVIOUS
    <2> HIDE DEF c, t
    <2>4. M \in [Chips -> Chip] /\ \A x \in Chips : M[x].raised = b.MB[x].raised
      BY <2>2 DEF Boards
    <2> HIDE DEF M
    <2> QED BY <2>3, <2>4 DEF Silent, Boards
  <1>2. Silent(b, b)
    BY DEF Silent
  <1>3. StopTimer(b, d) = t(FALSE, FALSE, Invalid)
    BY DEF StopTimer, Boards
  <1>4. StartTimer(b, d) = IF IsDeviceA(d) /\ b.MB[d].IER THEN t(TRUE, TRUE, d) ELSE b
    BY DEF StartTimer, Boards
  <1> HIDE DEF t
  <1> QED BY <1>1, <1>2, <1>3, <1>4

LEMMA IFRRenewed ==
    ASSUME NEW b \in Boards, NEW d \in Chips
    PROVE  Renewed(b, UpdateIFR(b, d))
  <1> DEFINE r == b.MB[d].IFR /\ b.MB[d].IER
             c == [b.MB[d] EXCEPT !.raised = r]
             x == r \/ \E e \in Chips \ {d} : b.MB[e].raised
             M == [b.MB EXCEPT ![d] = c]
             u == UpdateIFR(b, d)
  <1>1. b.MB[d] \in Chip
    BY DEF Boards
  <1>2. c \in Chip /\ c.raised = r
    BY <1>1 DEF Chip
  <1>3. u = [b EXCEPT !.MB = M, !.irq = x]
    BY DEF UpdateIFR, Boards
  <1>4. x \in BOOLEAN
    OBVIOUS
  <1> HIDE DEF u, c, r
  <1>5. M \in [Chips -> Chip] /\ M[d].raised = r /\ \A e \in Chips \ {d} : M[e] = b.MB[e]
    BY <1>2 DEF Boards
  <1> HIDE DEF M
  <1>6. x <=> \E e \in Chips : M[e].raised
    BY <1>5
  <1> HIDE DEF x
  <1>7. u \in Boards /\ u.MB = M /\ u.irq = x /\ u.played = b.played
    BY <1>3, <1>4, <1>5 DEF Boards
  <1> QED BY <1>6, <1>7 DEF Renewed, Agree, AnyRaised, u

LEMMA AcknowledgedRenewed ==
    ASSUME NEW b \in Boards, NEW d \in Chips
    PROVE  Renewed(b, Acknowledged(b, d))
  <1> DEFINE c == [b.MB[d] EXCEPT !.IFR = FALSE]
  <1>1. b.MB[d] \in Chip
    BY DEF Boards
  <1>2. c \in Chip /\ c.raised = b.MB[d].raised
    BY <1>1 DEF Chip
  <1>3. Silent(b, With(b, d, c))
    BY <1>2, WithSilent
  <1>4. Acknowledged(b, d) = UpdateIFR(With(b, d, c), d)
    BY DEF Acknowledged, With, Boards
  <1> HIDE DEF c
  <1> QED BY <1>3, <1>4, IFRRenewed DEF Silent, Renewed

LEMMA RegisterFollows ==
    ASSUME NEW b \in Boards, NEW d \in Chips
    PROVE  /\ \A v \in 0 .. LowByte - 1 : Silent(b, WriteTimer1L(b, d, v))
           /\ \A v \in 0 .. HighByte - 1 : Renewed(b, WriteTimer1HLatch(b, d, v))
           /\ \A free \in BOOLEAN : Silent(b, WriteACR(b, d, free))
           /\ \A timer1 \in BOOLEAN : Renewed(b, SetIER(b, d, timer1)) /\ Renewed(b, ClearIER(b, d, timer1))
  <1>0. b.MB[d] \in Chip
    BY DEF Boards
  <1>1. ASSUME NEW v \in 0 .. LowByte - 1 PROVE Silent(b, WriteTimer1L(b, d, v))
    <2> DEFINE c == [b.MB[d] EXCEPT !.latchL = v]
    <2>1. c \in Chip /\ c.raised = b.MB[d].raised
      BY <1>0 DEF Chip
    <2>2. WriteTimer1L(b, d, v) = With(b, d, c)
      BY DEF WriteTimer1L, With, Boards
    <2> QED BY <2>1, <2>2, WithSilent
  <1>2. ASSUME NEW v \in 0 .. HighByte - 1 PROVE Renewed(b, WriteTimer1HLatch(b, d, v))
    <2> DEFINE c == [b.MB[d] EXCEPT !.latchH = v]
    <2>1. c \in Chip /\ c.raised = b.MB[d].raised
      BY <1>0 DEF Chip
    <2>2. WriteTimer1HLatch(b, d, v) = Acknowledged(With(b, d, c), d)
      BY DEF WriteTimer1HLatch, With, Boards
    <2>3. Silent(b, With(b, d, c))
      BY <2>1, WithSilent
    <2> QED BY <2>2, <2>3, AcknowledgedRenewed DEF Silent, Renewed
  <1>3. ASSUME NEW free \in BOOLEAN PROVE Silent(b, WriteACR(b, d, free))
    <2> DEFINE c == [b.MB[d] EXCEPT !.freeRunning = free]
    <2>1. c \in Chip /\ c.raised = b.MB[d].raised
      BY <1>0 DEF Chip
    <2>2. WriteACR(b, d, free) = With(b, d, c)
      BY DEF WriteACR, With, Boards
    <2> QED BY <2>1, <2>2, WithSilent
  <1>4. ASSUME NEW x \in BOOLEAN PROVE Renewed(b, WithIER(b, d, x)) /\ WithIER(b, d, x) \in Boards
    <2> DEFINE c == [b.MB[d] EXCEPT !.IER = x]
    <2>1. c \in Chip /\ c.raised = b.MB[d].raised
      BY <1>0 DEF Chip
    <2>2. [b EXCEPT !.MB[d].IER = x] = With(b, d, c)
      BY DEF With, Boards
    <2>3. Silent(b, With(b, d, c))
      BY <2>1, WithSilent
    <2> QED BY <2>2, <2>3, IFRRenewed DEF WithIER, Silent, Renewed
  <1>5. ASSUME NEW timer1 \in BOOLEAN PROVE Renewed(b, SetIER(b, d, timer1))
    <2> DEFINE x == b.MB[d].IER \/ timer1
               a == WithIER(b, d, x)
    <2>1. x \in BOOLEAN
      OBVIOUS
    <2>2. SetIER(b, d, timer1) = StartTimer(a, d)
      BY DEF SetIER
    <2> HIDE DEF x
    <2>3. Renewed(b, a) /\ a \in Boards
      BY <1>4, <2>1
    <2> HIDE DEF a
    <2>4. Silent(a, StartTimer(a, d))
      BY <2>3, TimerSilent
    <2> QED BY <2>2, <2>3, <2>4 DEF Silent, Renewed, Agree, AnyRaised
  <1>6. ASSUME NEW timer1 \in BOOLEAN PROVE Renewed(b, ClearIER(b, d, timer1))
    <2> DEFINE x == b.MB[d].IER /\ ~timer1
               a == WithIER(b, d, x)
    <2>1. x \in BOOLEAN
      OBVIOUS
    <2>2. ClearIER(b, d, timer1) = IF ~a.MB[d].IER /\ a.MB[d].nTimerStatus THEN StopTimer(a, d) ELSE a
      BY DEF ClearIER
    <2> HIDE DEF x
    <2>3. Renewed(b, a) /\ a \in Boards
      BY <1>4, <2>1
    <2> HIDE DEF a
    <2>4. Silent(a, StopTimer(a, d))
      BY <2>3, TimerSilent
    <2> QED BY <2>2, <2>3, <2>4 DEF Silent, Renewed, Agree, AnyRaised
  <1> QED BY <1>1, <1>2, <1>3, <1>5, <1>6

LEMMA CounterFollows ==
    ASSUME NEW b \in Boards, NEW d \in Chips, NEW v \in 0 .. HighByte - 1
    PROVE  Renewed(b, WriteTimer1HCounter(b, d, v))
  <1> DEFINE a == Acknowledged(b, d)
             l == Latch([a.MB[d] EXCEPT !.latchH = v])
             c == [a.MB[d] EXCEPT !.latchH = v, !.counter = l]
  <1>0. Renewed(b, a)
    BY AcknowledgedRenewed
  <1> HIDE DEF a
  <1>1. a \in Boards /\ a.MB[d] \in Chip
    BY <1>0 DEF Renewed, Boards
  <1>2. [a.MB[d] EXCEPT !.latchH = v] \in Chip
    BY <1>1 DEF Chip
  <1>3. l \in Counter
    BY <1>2, LatchType
  <1> HIDE DEF l
  <1>4. c \in Chip /\ c.raised = a.MB[d].raised
    BY <1>1, <1>3 DEF Chip
  <1>5. Silent(a, With(a, d, c))
    BY <1>1, <1>4, WithSilent
  <1>6. With(a, d, c) = [a EXCEPT !.MB[d].latchH = v, !.MB[d].counter = l]
    BY <1>1 DEF With, Boards
  <1>7. WriteTimer1HCounter(b, d, v) = StartTimer(With(a, d, c), d)
    BY <1>6 DEF WriteTimer1HCounter, a, l
  <1> DEFINE w == With(a, d, c)
  <1>8. Silent(a, w) /\ w \in Boards
    BY <1>5 DEF Silent
  <1> HIDE DEF w
  <1>9. Silent(w, StartTimer(w, d))
    BY <1>8, TimerSilent
  <1> QED BY <1>0, <1>7, <1>8, <1>9 DEF w, Silent, Renewed, Agree, AnyRaised

\* What the cycles do to the line; they alone play sound.
LEMMA CyclesFollow ==
    ASSUME NEW b, Sound(b), NEW n \in 0 .. MaxSlice
    PROVE  LET c == MB_UpdateCycles(b, n)
           IN Agree(c) \/ (c.irq = b.irq /\ \A d \in Chips : c.MB[d].raised = b.MB[d].raised)
  <1> DEFINE M       == Counted(b, n)
             expires == \E d \in Chips : Expires(b, d, n)
             changes == expires \/ \E d \in Chips : Withdraws(b, d, n)
             stops   == expires /\ ~b.MB[b.device].freeRunning
             x       == IF changes THEN \E d \in Chips : M[d].raised ELSE b.irq
             next    == [MB |-> M, active |-> b.active /\ ~stops,
                         device |-> IF stops THEN Invalid ELSE b.device,
                         irq |-> x, played |-> expires]
  <1>0. b \in Boards /\ b.MB \in [Chips -> Chip]
    BY DEF Sound, Boards
  <1>1. CASE ~enabled \/ n = 0
    BY <1>0, <1>1 DEF MB_UpdateCycles, Boards
  <1>2. CASE ~(~enabled \/ n = 0)
    <2>1. MB_UpdateCycles(b, n) = next
      BY <1>2 DEF MB_UpdateCycles
    <2>2. ASSUME NEW d \in Chips, ~Expires(b, d, n), ~Withdraws(b, d, n)
          PROVE  M[d].raised = b.MB[d].raised
      <3> DEFINE c == b.MB[d]
                 k == Minus(c.counter, n)
                 f == c.IFR
      <3>1. c \in Chip
        BY <1>0
      <3>2. M[d] = [c EXCEPT !.counter = k, !.IFR = f, !.raised = c.raised, !.nTimerStatus = c.nTimerStatus]
        BY <2>2, <3>1 DEF Counted, Chip
      <3> HIDE DEF M, c, k, f
      <3> QED BY <3>1, <3>2 DEF Chip, c
    <2>3. next.MB = M /\ next.irq = x
      OBVIOUS
    <2> HIDE DEF M, next
    <2> QED BY <2>1, <2>2, <2>3 DEF Agree, AnyRaised
  <1> QED BY <1>1, <1>2

\* Half a turn of the counter tells an underflow from a large value: no slice is that long.
LEMMA UnderflowIsBelow ==
    ASSUME NEW k \in Counter, NEW n \in 1 .. MaxSlice
    PROVE  Underflows(k, Minus(k, n)) <=> k < n
  <1>1. LowByte \in Nat \ {0} /\ HighByte \in Nat \ {0} /\ MaxSlice \in Nat \ {0} /\ 2 * MaxSlice <= Modulus
    BY BoardAssumption
  <1>2. Modulus \in Nat
    BY <1>1 DEF Modulus
  <1>3. k \in 0 .. Modulus - 1
    BY DEF Counter
  <1>4. CASE k < n
    <2>1. Minus(k, n) = k - n + Modulus
      BY <1>2, <1>3, <1>4 DEF Minus
    <2>2. ~(2 * k >= Modulus) /\ 2 * (k - n + Modulus) >= Modulus
      BY <1>1, <1>2, <1>3, <1>4
    <2> QED BY <1>4, <2>1, <2>2 DEF Underflows, Negative
  <1>5. CASE ~(k < n)
    <2>1. Minus(k, n) = k - n
      BY <1>2, <1>3, <1>5 DEF Minus
    <2>2. 2 * k >= Modulus \/ ~(2 * (k - n) >= Modulus)
      BY <1>1, <1>2, <1>3
    <2> QED BY <1>5, <2>1, <2>2 DEF Underflows, Negative
  <1> QED BY <1>4, <1>5

LEMMA CyclesPlay ==
    ASSUME IInv, enabled, lag > 0
    PROVE  MB_UpdateCycles(board, lag).played <=> Due
  <1>0. board \in Boards /\ Owned(board) /\ lag \in 1 .. MaxSlice
    BY BoardAssumption DEF IInv, TypeOK, TimerOwner
  <1>1. MB_UpdateCycles(board, lag).played <=> \E d \in Chips : Expires(board, d, lag)
    BY <1>0 DEF MB_UpdateCycles
  <1>2. board.active => board.device \in Chips /\ board.MB[board.device].counter \in Counter
    BY <1>0 DEF Owned, Boards, Chip, Invalid
  <1>3. (\E d \in Chips : Expires(board, d, lag)) <=> (board.active /\ Passes(board, board.device, lag))
    BY <1>2 DEF Expires
  <1>4. board.active => (Passes(board, board.device, lag) <=> board.MB[board.device].counter < lag)
    BY <1>0, <1>2, UnderflowIsBelow DEF Passes
  <1> QED BY <1>1, <1>3, <1>4 DEF Due

\* An access: the counters first, then a register.
LEMMA ProgramFollows ==
    ASSUME IInv, Program
    PROVE  LET c == MB_UpdateCycles(board, lag)
           IN /\ board'.played = c.played
              /\ \/ Agree(board')
                 \/ board'.irq = c.irq /\ \A d \in Chips : board'.MB[d].raised = c.MB[d].raised
  <1> DEFINE c == MB_UpdateCycles(board, lag)
             Follows(x) == x.played = c.played /\ (Silent(c, x) \/ Renewed(c, x))
  <1>0. c \in Boards /\ Updated = {c}
    BY InvSound, CyclesSound DEF Sound, Updated
  <1> HIDE DEF c
  <1>1. Programmed \subseteq Chips /\ Enabling \subseteq Chips
    BY BoardAssumption
  <1>2. ASSUME NEW d \in Programmed, MB_Write(d)
        PROVE  \E next : Follows(next) /\ Access(next)
    <2>1. \/ \E v \in 0 .. LowByte - 1 : Access(WriteTimer1L(c, d, v))
          \/ \E v \in 0 .. HighByte - 1 : Access(WriteTimer1HCounter(c, d, v))
          \/ \E v \in 0 .. HighByte - 1 : Access(WriteTimer1HLatch(c, d, v))
          \/ \E free \in BOOLEAN : Access(WriteACR(c, d, free))
          \/ Access(Acknowledged(c, d))
          \/ Access(UpdateIFR(c, d))
          \/ Access(c)
      BY <1>0, <1>2 DEF MB_Write
    <2>2. d \in Chips
      BY <1>1
    <2>3. \A v \in 0 .. LowByte - 1 : Follows(WriteTimer1L(c, d, v))
      BY <1>0, <2>2, RegisterFollows DEF Silent
    <2>4. \A v \in 0 .. HighByte - 1 : Follows(WriteTimer1HCounter(c, d, v)) /\ Follows(WriteTimer1HLatch(c, d, v))
      BY <1>0, <2>2, RegisterFollows, CounterFollows DEF Renewed
    <2>5. \A free \in BOOLEAN : Follows(WriteACR(c, d, free))
      BY <1>0, <2>2, RegisterFollows DEF Silent
    <2>6. Follows(Acknowledged(c, d)) /\ Follows(UpdateIFR(c, d)) /\ Follows(c)
      BY <1>0, <2>2, AcknowledgedRenewed, IFRRenewed DEF Renewed, Silent
    <2> HIDE DEF Follows
    <2> QED BY <2>1, <2>3, <2>4, <2>5, <2>6
  <1>3. ASSUME NEW d \in Enabling, WriteIER(d)
        PROVE  \E next : Follows(next) /\ Access(next)
    <2>1. PICK timer1 \in BOOLEAN : Access(ClearIER(c, d, timer1)) \/ Access(SetIER(c, d, timer1))
      BY <1>0, <1>3 DEF WriteIER
    <2>2. Follows(ClearIER(c, d, timer1)) /\ Follows(SetIER(c, d, timer1))
      BY <1>0, <1>1, RegisterFollows DEF Renewed
    <2> HIDE DEF Follows
    <2> QED BY <2>1, <2>2
  <1>4. ASSUME NEW d \in Programmed, mb_read(d)
        PROVE  \E next : Follows(next) /\ Access(next)
    <2>1. Access(Acknowledged(c, d)) \/ Access(UpdateIFR(c, d)) \/ Access(c)
      BY <1>0, <1>4 DEF mb_read
    <2>2. Follows(Acknowledged(c, d)) /\ Follows(UpdateIFR(c, d)) /\ Follows(c)
      BY <1>0, <1>1, AcknowledgedRenewed, IFRRenewed DEF Renewed, Silent
    <2> HIDE DEF Follows
    <2> QED BY <2>1, <2>2
  <1>5. PICK next : Follows(next) /\ Access(next)
    BY <1>2, <1>3, <1>4 DEF Program
  <1> QED BY <1>5 DEF Access, Silent, Renewed, c

-----------------------------------------------------------------------------

LEMMA StepFollows ==
    ASSUME audio_isAvailable, IInv, [Next]_vars, ~ex_reset, ~mb_loadState,
           board'.irq # board.irq \/ \E d \in Chips : board'.MB[d].raised # board.MB[d].raised
    PROVE  Agree(board')
  <1> DEFINE Same(b, c) == c.irq = b.irq /\ \A d \in Chips : c.MB[d].raised = b.MB[d].raised
  <1>0. Sound(board) /\ board \in Boards /\ lag \in 0 .. MaxSlice /\ ~Same(board, board')
    BY InvSound DEF Sound
  <1>1. ASSUME NEW x \in BOOLEAN PROVE Same(board, [board EXCEPT !.played = x])
    BY <1>0 DEF Boards
  <1>2. Agree(MB_UpdateCycles(board, lag)) \/ Same(board, MB_UpdateCycles(board, lag))
    BY <1>0, CyclesFollow
  <1>3. CASE Run \/ MB_EndOfVideoFrame
    <2>1. Same(board, board')
      BY <1>1, <1>3 DEF Run, Execute, MB_EndOfVideoFrame
    <2> QED BY <1>0, <2>1
  <1>4. CASE SliceEnd
    BY <1>0, <1>2, <1>4 DEF SliceEnd
  <1>5. CASE Program
    BY <1>0, <1>2, <1>5, ProgramFollows DEF Agree, AnyRaised
  <1>6. CASE Settle \/ ex_irq \/ SetFlag \/ ResetKey \/ MB_SetEnabled \/ UNCHANGED vars
    BY <1>0, <1>6 DEF Settle, ex_irq, SetFlag, ResetKey, MB_SetEnabled, vars
  <1>7. CASE reinitialize
    <2> DEFINE u == MB_UpdateCycles(board, lag)
               r == MB_Reset(u)
               M == [d \in Chips |-> Blank]
    <2>1. board' = [r EXCEPT !.irq = FALSE]
      BY <1>7 DEF reinitialize
    <2>2. r \in Boards /\ r.MB = M
      <3>0. Sound(u) /\ u \in Boards
        BY <1>0, CyclesSound DEF Sound
      <3> HIDE DEF u
      <3>1. r \in Boards
        BY <3>0, ResetSound DEF Sound
      <3> DEFINE a == u.active /\ \A d \in Chips : ~u.MB[d].nTimerStatus
      <3>3. r = [[u EXCEPT !.MB = M, !.active = a] EXCEPT !.device = Invalid, !.played = FALSE]
        BY DEF MB_Reset, ResetSY6522
      <3> HIDE DEF r, M, a
      <3> QED BY <3>0, <3>1, <3>3 DEF Boards
    <2>3. \A d \in Chips : ~M[d].raised
      BY DEF Blank
    <2> HIDE DEF r, M
    <2>4. board'.irq = FALSE /\ board'.MB = M
      BY <2>1, <2>2 DEF Boards
    <2> QED BY <2>3, <2>4 DEF Agree, AnyRaised
  <1> QED BY <1>3, <1>4, <1>5, <1>6, <1>7 DEF Next

\* Whatever the program writes or reads, whichever chip it is and wherever the slice is cut, the
\* interrupt line and the flags of the chips change together.
THEOREM LineFollows == ASSUME audio_isAvailable PROVE Spec => LineFollowsFlags
  <1>1. IInv /\ [Next]_vars =>
          [ (board'.irq # board.irq \/ \E d \in Chips : board'.MB[d].raised # board.MB[d].raised)
            => (board'.irq <=> AnyRaised(board')) \/ ex_reset \/ mb_loadState ]_vars
    BY StepFollows DEF Agree
  <1>2. IInv /\ [Next]_vars => IInv'
    BY InvNext
  <1> QED BY <1>1, <1>2, InvInit, PTL DEF Spec, LineFollowsFlags

LEMMA StepExpires ==
    ASSUME IInv, [Next]_vars, enabled, lag > 0, lag' = 0, ~reinitialize
    PROVE  board'.played <=> Due
  <1>0. lag \in 0 .. MaxSlice /\ lag # 0 /\ MaxSlice \in Nat
    BY InvSound, BoardAssumption
  <1>1. MB_UpdateCycles(board, lag).played <=> Due
    BY CyclesPlay
  <1>2. CASE Run
    <2>1. PICK n \in 1 .. MaxSlice : lag' = lag + n
      BY <1>2 DEF Run, Execute
    <2> QED BY <1>0, <2>1
  <1>3. CASE SliceEnd
    BY <1>1, <1>3 DEF SliceEnd
  <1>4. CASE Program
    BY <1>1, <1>4, ProgramFollows
  <1>5. CASE Settle \/ ex_irq \/ SetFlag \/ ResetKey \/ MB_SetEnabled \/ ex_reset \/ MB_EndOfVideoFrame \/ UNCHANGED vars
    BY <1>0, <1>5 DEF Settle, ex_irq, SetFlag, ResetKey, MB_SetEnabled, ex_reset, MB_EndOfVideoFrame, vars
  <1>6. CASE mb_loadState
    BY <1>0, <1>6 DEF mb_loadState
  <1> QED BY <1>2, <1>3, <1>4, <1>5, <1>6 DEF Next

\* For every length of a slice and every cut of it, a timer expires exactly when its counter
\* passes zero, because half a turn of the counter is longer than a slice.
THEOREM TimerExpires == ASSUME audio_isAvailable PROVE Spec => ExpiresWhenDue
  <1>1. IInv /\ [Next]_vars =>
          [ enabled /\ lag > 0 /\ lag' = 0 => (board'.played <=> Due) \/ reinitialize ]_vars
    BY StepExpires
  <1>2. IInv /\ [Next]_vars => IInv'
    BY InvNext
  <1> QED BY <1>1, <1>2, InvInit, PTL DEF Spec, ExpiresWhenDue

-----------------------------------------------------------------------------
(* Who may stop the timer                                                   *)

\* The chips that the program uses belong to one card, as MockingboardTwo.cfg shows is needed:
\* only one of them can have the timer.
OneCard == \A d, e \in Programmed \cup Enabling : IsDeviceA(d) /\ IsDeviceA(e) => d = e

\* A chip that says that it has the timer has it, and only chips that the program uses can.
Lone(b) ==
    \A d \in Chips :
        /\ b.MB[d].nTimerStatus => b.active /\ b.device = d
        /\ IsDeviceA(d) /\ b.MB[d].IER => d \in Programmed \cup Enabling

\* The timer stays with its chip, unless this chip has disabled it.
Keeps(b, c) == b.active => c.device = b.device \/ ~c.MB[b.device].IER

LEMMA SameLone ==
    ASSUME NEW b, NEW c, Lone(b), SameTimer(b, c)
    PROVE  Lone(c) /\ Keeps(b, c)
  BY DEF Lone, SameTimer, Keeps

LEMMA SameKeeps ==
    ASSUME NEW a, NEW b, NEW c, SameTimer(a, b), Keeps(b, c)
    PROVE  Keeps(a, c)
  BY DEF SameTimer, Keeps

LEMMA SameTrans ==
    ASSUME NEW a, NEW b, NEW c, SameTimer(a, b), SameTimer(b, c)
    PROVE  SameTimer(a, c)
  BY DEF SameTimer

LEMMA AcknowledgedSame ==
    ASSUME NEW b \in Boards, NEW d \in Chips
    PROVE  SameTimer(b, Acknowledged(b, d)) /\ Acknowledged(b, d) \in Boards
  <1> DEFINE c == [b.MB[d] EXCEPT !.IFR = FALSE]
             w == With(b, d, c)
  <1>1. b.MB[d] \in Chip
    BY DEF Boards
  <1>2. c \in Chip /\ c.nTimerStatus = b.MB[d].nTimerStatus /\ c.IER = b.MB[d].IER
    BY <1>1 DEF Chip
  <1>3. Acknowledged(b, d) = UpdateIFR(w, d)
    BY DEF Acknowledged, With, Boards
  <1> HIDE DEF c
  <1>4. SameTimer(b, w) /\ w \in Boards
    BY <1>2, WithSame
  <1> HIDE DEF w
  <1> QED BY <1>3, <1>4, IFRSame, SameTrans

LEMMA RegisterSame ==
    ASSUME NEW b \in Boards, NEW d \in Chips
    PROVE  /\ \A v \in 0 .. LowByte - 1 : SameTimer(b, WriteTimer1L(b, d, v))
           /\ \A v \in 0 .. HighByte - 1 : SameTimer(b, WriteTimer1HLatch(b, d, v))
           /\ \A free \in BOOLEAN : SameTimer(b, WriteACR(b, d, free))
  <1>0. b.MB[d] \in Chip
    BY DEF Boards
  <1>1. ASSUME NEW v \in 0 .. LowByte - 1 PROVE SameTimer(b, WriteTimer1L(b, d, v))
    <2> DEFINE c == [b.MB[d] EXCEPT !.latchL = v]
    <2>1. c \in Chip /\ c.nTimerStatus = b.MB[d].nTimerStatus /\ c.IER = b.MB[d].IER
      BY <1>0 DEF Chip
    <2>2. WriteTimer1L(b, d, v) = With(b, d, c)
      BY DEF WriteTimer1L, With, Boards
    <2> QED BY <2>1, <2>2, WithSame
  <1>2. ASSUME NEW v \in 0 .. HighByte - 1 PROVE SameTimer(b, WriteTimer1HLatch(b, d, v))
    <2> DEFINE c == [b.MB[d] EXCEPT !.latchH = v]
               w == With(b, d, c)
    <2>1. c \in Chip /\ c.nTimerStatus = b.MB[d].nTimerStatus /\ c.IER = b.MB[d].IER
      BY <1>0 DEF Chip
    <2>2. WriteTimer1HLatch(b, d, v) = Acknowledged(w, d)
      BY DEF WriteTimer1HLatch, With, Boards
    <2> HIDE DEF c
    <2>3. SameTimer(b, w) /\ w \in Boards
      BY <2>1, WithSame
    <2> HIDE DEF w
    <2> QED BY <2>2, <2>3, AcknowledgedSame, SameTrans
  <1>3. ASSUME NEW free \in BOOLEAN PROVE SameTimer(b, WriteACR(b, d, free))
    <2> DEFINE c == [b.MB[d] EXCEPT !.freeRunning = free]
    <2>1. c \in Chip /\ c.nTimerStatus = b.MB[d].nTimerStatus /\ c.IER = b.MB[d].IER
      BY <1>0 DEF Chip
    <2>2. WriteACR(b, d, free) = With(b, d, c)
      BY DEF WriteACR, With, Boards
    <2> QED BY <2>1, <2>2, WithSame
  <1> QED BY <1>1, <1>2, <1>3

\* A chip of the program takes the timer from no other chip than itself.
LEMMA StartLone ==
    ASSUME NEW b, Sound(b), Lone(b), OneCard, NEW d \in Programmed \cup Enabling, d \in Chips
    PROVE  Lone(StartTimer(b, d)) /\ Keeps(b, StartTimer(b, d))
  <1> DEFINE c == [b.MB[d] EXCEPT !.nTimerStatus = TRUE]
             M == [b.MB EXCEPT ![d] = c]
             s == StartTimer(b, d)
  <1>0. b \in Boards /\ b.MB \in [Chips -> Chip] /\ b.MB[d] \in Chip /\ Owned(b) /\ b.device \in Chips \cup {Invalid}
    BY DEF Sound, Boards
  <1>1. CASE ~(IsDeviceA(d) /\ b.MB[d].IER)
    BY <1>1 DEF StartTimer, Keeps
  <1>2. CASE IsDeviceA(d) /\ b.MB[d].IER
    <2>1. c.IER = b.MB[d].IER
      BY <1>0 DEF Chip
    <2>2. M[d] = c /\ \A e \in Chips : e # d => M[e] = b.MB[e]
      BY <1>0
    <2>3. s = [b EXCEPT !.MB = M, !.active = TRUE, !.device = d]
      BY <1>0, <1>2 DEF StartTimer, Boards
    <2> HIDE DEF s, c, M
    <2>4. s.MB = M /\ s.active /\ s.device = d
      BY <1>0, <2>3 DEF Boards
    <2>5. b.active => b.device = d
      BY <1>0, <1>2 DEF Owned, Lone, OneCard, Invalid
    <2>6. Lone(s)
      <3>1. ASSUME NEW e \in Chips, e # d PROVE ~b.MB[e].nTimerStatus
        BY <2>5, <3>1 DEF Lone
      <3> QED BY <2>1, <2>2, <2>4, <3>1 DEF Lone
    <2> QED BY <2>4, <2>5, <2>6 DEF Keeps, s
  <1> QED BY <1>1, <1>2

LEMMA CounterLone ==
    ASSUME NEW b, Sound(b), Lone(b), OneCard, NEW d \in Programmed, d \in Chips, NEW v \in 0 .. HighByte - 1
    PROVE  Lone(WriteTimer1HCounter(b, d, v)) /\ Keeps(b, WriteTimer1HCounter(b, d, v))
  <1> DEFINE a == Acknowledged(b, d)
             l == Latch([a.MB[d] EXCEPT !.latchH = v])
             c == [a.MB[d] EXCEPT !.latchH = v, !.counter = l]
             w == With(a, d, c)
  <1>0. Sound(a) /\ SameTimer(b, a)
    BY AcknowledgedSound, AcknowledgedSame DEF Sound
  <1> HIDE DEF a
  <1>1. a \in Boards /\ a.MB[d] \in Chip
    BY <1>0 DEF Sound, Boards
  <1>2. [a.MB[d] EXCEPT !.latchH = v] \in Chip
    BY <1>1 DEF Chip
  <1>3. l \in Counter
    BY <1>2, LatchType
  <1> HIDE DEF l
  <1>4. c \in Chip /\ c.nTimerStatus = a.MB[d].nTimerStatus /\ c.IER = a.MB[d].IER
    BY <1>1, <1>3 DEF Chip
  <1>5. w = [a EXCEPT !.MB[d].latchH = v, !.MB[d].counter = l]
    BY <1>1 DEF With, Boards
  <1>6. WriteTimer1HCounter(b, d, v) = StartTimer(w, d)
    BY <1>5 DEF WriteTimer1HCounter, a, l
  <1> HIDE DEF c
  <1>7. Sound(w) /\ SameTimer(a, w)
    BY <1>0, <1>1, <1>4, WithSound, WithSame
  <1> HIDE DEF w
  <1>8. SameTimer(b, w) /\ Lone(w)
    BY <1>0, <1>7, SameTrans, SameLone
  <1>9. Lone(StartTimer(w, d)) /\ Keeps(w, StartTimer(w, d))
    BY <1>7, <1>8, StartLone
  <1> QED BY <1>6, <1>8, <1>9, SameKeeps

LEMMA IERLone ==
    ASSUME NEW b, Sound(b), Lone(b), NEW d \in Programmed \cup Enabling, d \in Chips, NEW x \in BOOLEAN
    PROVE  /\ WithIER(b, d, x) \in Boards /\ Lone(WithIER(b, d, x))
           /\ OnlyIER(b, WithIER(b, d, x), d, x)
  <1> DEFINE c == WithIER(b, d, x)
  <1>1. c \in Boards /\ OnlyIER(b, c, d, x)
    BY IEROnly DEF Sound
  <1> HIDE DEF c
  <1>2. Lone(c)
    BY <1>1 DEF Lone, OnlyIER
  <1> QED BY <1>1, <1>2 DEF c

LEMMA StopLone ==
    ASSUME NEW b \in Boards, Lone(b), NEW d \in Chips, b.MB[d].nTimerStatus
    PROVE  /\ Lone(StopTimer(b, d)) /\ StopTimer(b, d).MB[d].IER = b.MB[d].IER
  <1> DEFINE c == [b.MB[d] EXCEPT !.nTimerStatus = FALSE]
             M == [b.MB EXCEPT ![d] = c]
             s == StopTimer(b, d)
  <1>0. b.MB[d] \in Chip /\ b.MB \in [Chips -> Chip]
    BY DEF Boards
  <1>1. ~c.nTimerStatus /\ c.IER = b.MB[d].IER
    BY <1>0 DEF Chip
  <1>2. s = [b EXCEPT !.MB = M, !.active = FALSE, !.device = Invalid]
    BY DEF StopTimer, Boards
  <1>3. M[d] = c /\ \A e \in Chips : e # d => M[e] = b.MB[e]
    BY <1>0
  <1> HIDE DEF s, M, c
  <1>4. s.MB = M
    BY <1>2 DEF Boards
  <1>5. ASSUME NEW e \in Chips, e # d PROVE ~b.MB[e].nTimerStatus
    BY <1>5 DEF Lone
  <1>6. Lone(s) /\ s.MB[d].IER = b.MB[d].IER
    BY <1>1, <1>3, <1>4, <1>5 DEF Lone
  <1> QED BY <1>6 DEF s

LEMMA ClearLone ==
    ASSUME NEW b, Sound(b), Lone(b), NEW d \in Enabling, d \in Chips, NEW timer1 \in BOOLEAN
    PROVE  Lone(ClearIER(b, d, timer1)) /\ Keeps(b, ClearIER(b, d, timer1))
  <1> DEFINE x == b.MB[d].IER /\ ~timer1
             c == WithIER(b, d, x)
  <1>0. x \in BOOLEAN /\ d \in Programmed \cup Enabling
    OBVIOUS
  <1>1. ClearIER(b, d, timer1) = IF ~c.MB[d].IER /\ c.MB[d].nTimerStatus THEN StopTimer(c, d) ELSE c
    BY DEF ClearIER
  <1> HIDE DEF x
  <1>2. c \in Boards /\ Lone(c) /\ OnlyIER(b, c, d, x)
    BY <1>0, IERLone
  <1> HIDE DEF c
  <1>3. CASE ~c.MB[d].IER /\ c.MB[d].nTimerStatus
    <2>1. b.device = d
      BY <1>2, <1>3 DEF Lone, OnlyIER
    <2>2. Lone(StopTimer(c, d)) /\ ~StopTimer(c, d).MB[d].IER
      BY <1>2, <1>3, StopLone
    <2> QED BY <1>1, <1>3, <2>1, <2>2 DEF Keeps
  <1>4. CASE ~(~c.MB[d].IER /\ c.MB[d].nTimerStatus)
    BY <1>1, <1>2, <1>4 DEF Keeps, OnlyIER
  <1> QED BY <1>3, <1>4

LEMMA SetLone ==
    ASSUME NEW b, Sound(b), Lone(b), OneCard, NEW d \in Enabling, d \in Chips, NEW timer1 \in BOOLEAN
    PROVE  Lone(SetIER(b, d, timer1)) /\ Keeps(b, SetIER(b, d, timer1))
  <1> DEFINE x == b.MB[d].IER \/ timer1
             c == WithIER(b, d, x)
  <1>0. b \in Boards /\ Owned(b) /\ b.device \in Chips \cup {Invalid}
    BY DEF Sound, Boards
  <1>1. x \in BOOLEAN /\ (b.MB[d].IER => x) /\ d \in Programmed \cup Enabling
    BY <1>0 DEF Boards, Chip
  <1>2. SetIER(b, d, timer1) = StartTimer(c, d)
    BY DEF SetIER
  <1> HIDE DEF x
  <1>3. c \in Boards /\ Lone(c) /\ OnlyIER(b, c, d, x)
    BY <1>1, IERLone
  <1> HIDE DEF c
  <1>4. Owned(c)
    BY <1>0, <1>1, <1>3 DEF Owned, OnlyIER
  <1>5. Lone(StartTimer(c, d)) /\ Keeps(c, StartTimer(c, d))
    BY <1>1, <1>3, <1>4, StartLone DEF Sound
  <1> QED BY <1>2, <1>3, <1>5 DEF Keeps, OnlyIER


\* The counters: only an expiry of the timer itself stops it.
LEMMA CyclesLone ==
    ASSUME NEW b, Sound(b), Lone(b), NEW n \in 0 .. MaxSlice
    PROVE  /\ Lone(MB_UpdateCycles(b, n))
           /\ \/ /\ MB_UpdateCycles(b, n).active = b.active
                 /\ MB_UpdateCycles(b, n).device = b.device
              \/ /\ enabled /\ n # 0
                 /\ \E d \in Chips : Expires(b, d, n) /\ ~b.MB[d].freeRunning
  <1> DEFINE M       == Counted(b, n)
             expires == \E d \in Chips : Expires(b, d, n)
             changes == expires \/ \E d \in Chips : Withdraws(b, d, n)
             stops   == expires /\ ~b.MB[b.device].freeRunning
             x       == IF changes THEN \E d \in Chips : M[d].raised ELSE b.irq
             next    == [MB |-> M, active |-> b.active /\ ~stops,
                         device |-> IF stops THEN Invalid ELSE b.device,
                         irq |-> x, played |-> expires]
  <1>0. b \in Boards /\ b.MB \in [Chips -> Chip] /\ Owned(b)
        /\ b.device \in Chips \cup {Invalid} /\ b.active \in BOOLEAN
    BY DEF Sound, Boards
  <1>1. CASE ~enabled \/ n = 0
    BY <1>0, <1>1 DEF MB_UpdateCycles, Boards, Lone
  <1>2. CASE ~(~enabled \/ n = 0)
    <2>1. MB_UpdateCycles(b, n) = next
      BY <1>2 DEF MB_UpdateCycles
    <2>2. ASSUME NEW d \in Chips
          PROVE  /\ M[d].IER = b.MB[d].IER
                 /\ M[d].nTimerStatus <=> b.MB[d].nTimerStatus /\ ~(Expires(b, d, n) /\ ~b.MB[d].freeRunning)
      <3> DEFINE c  == b.MB[d]
                 ex == Expires(b, d, n)
                 wd == Withdraws(b, d, n)
                 k  == IF ex /\ c.freeRunning THEN Latch(c) ELSE Minus(c.counter, n)
                 f  == ex \/ (c.IFR /\ ~wd)
                 r  == IF ex \/ wd THEN f /\ c.IER ELSE c.raised
                 s  == c.nTimerStatus /\ ~(ex /\ ~c.freeRunning)
      <3>1. M[d] = [c EXCEPT !.counter = k, !.IFR = f, !.raised = r, !.nTimerStatus = s]
        BY DEF Counted
      <3>2. c \in Chip
        BY <1>0
      <3> HIDE DEF M, k, f, r, s
      <3>3. M[d].IER = c.IER /\ M[d].nTimerStatus = s
        BY <3>1, <3>2 DEF Chip
      <3> QED BY <3>3 DEF s
    <2>3. next.MB = M /\ next.active = (b.active /\ ~stops)
          /\ next.device = IF stops THEN Invalid ELSE b.device
      OBVIOUS
    <2>4. expires <=> Expires(b, b.device, n) /\ b.device \in Chips
      BY DEF Expires
    <2> HIDE DEF M, next, expires
    <2>5. CASE stops
      <3>1. \E d \in Chips : Expires(b, d, n) /\ ~b.MB[d].freeRunning
        BY <2>4, <2>5
      <3>2. ASSUME NEW d \in Chips PROVE ~M[d].nTimerStatus
        <4>1. CASE d = b.device
          BY <2>2, <2>4, <2>5, <4>1
        <4>2. CASE d # b.device
          BY <2>2, <4>2 DEF Lone
        <4> QED BY <4>1, <4>2
      <3>3. Lone(next)
        BY <2>2, <2>3, <3>2 DEF Lone
      <3> QED BY <1>2, <2>1, <3>1, <3>3
    <2>6. CASE ~stops
      <3>1. next.active = b.active /\ next.device = b.device
        BY <1>0, <2>3, <2>6
      <3>2. Lone(next)
        BY <2>2, <2>3, <3>1 DEF Lone
      <3> QED BY <2>1, <3>1, <3>2
    <2> QED BY <2>5, <2>6
  <1> QED BY <1>1, <1>2

LEMMA ResetLone ==
    ASSUME NEW b, Sound(b), audio_isAvailable
    PROVE  \A d \in Chips : ~MB_Reset(b).MB[d].nTimerStatus /\ ~MB_Reset(b).MB[d].IER
  <1> DEFINE r == MB_Reset(b)
             M == [d \in Chips |-> Blank]
             a == b.active /\ \A d \in Chips : ~b.MB[d].nTimerStatus
  <1>1. r = [[b EXCEPT !.MB = M, !.active = a] EXCEPT !.device = Invalid, !.played = FALSE]
    BY DEF MB_Reset, ResetSY6522
  <1>2. \A d \in Chips : ~M[d].nTimerStatus /\ ~M[d].IER
    BY DEF Blank
  <1> HIDE DEF r, M, a
  <1>3. r.MB = M
    BY <1>1 DEF Sound, Boards
  <1> QED BY <1>2, <1>3 DEF r

\* A state file has chips of the program only; the timer goes to the one that had it.
LEMMA LoadedLone ==
    ASSUME NEW b, Sound(b), ~b.active, \A d \in Chips : ~b.MB[d].nTimerStatus /\ ~b.MB[d].IER,
           OneCard, NEW file \in StateFiles, NEW count \in 0 .. 4, NEW part \in 0 .. 5
    PROVE  Lone(Loaded(b, file, count, part))
  <1> DEFINE started(d) == d < count /\ IsDeviceA(d) /\ file[d].IER
             chip(d) == IF d < count THEN file[d]
                        ELSE IF d = count THEN Part(b.MB[d], file[d], part) ELSE b.MB[d]
             M == [d \in Chips |-> [chip(d) EXCEPT !.nTimerStatus = b.MB[d].nTimerStatus \/ started(d)]]
             a == b.active \/ \E d \in Chips : started(d)
             e == IF started(2) THEN 2 ELSE IF started(0) THEN 0 ELSE b.device
             l == Loaded(b, file, count, part)
  <1>0. b \in Boards /\ file \in [Chips -> Chip] /\ \A d \in Chips \ Programmed : file[d] = Blank
    BY SavedAssumption DEF Sound, StateFiles
  <1>1. l = [b EXCEPT !.MB = M, !.active = a, !.device = e]
    BY DEF Loaded
  <1>2. ASSUME NEW d \in Chips
        PROVE  /\ M[d].nTimerStatus <=> started(d)
               /\ M[d].IER => file[d].IER
    <2> DEFINE t == b.MB[d].nTimerStatus \/ started(d)
    <2>1. file[d] \in Chip /\ b.MB[d] \in Chip /\ ~b.MB[d].nTimerStatus /\ ~b.MB[d].IER
      BY <1>0 DEF Boards
    <2>2. chip(d) \in Chip /\ (chip(d).IER => file[d].IER)
      BY <2>1, PartType
    <2>3. M[d] = [chip(d) EXCEPT !.nTimerStatus = t]
      OBVIOUS
    <2>4. t \in BOOLEAN /\ (t <=> started(d))
      BY <2>1
    <2> HIDE DEF M, started, chip, t
    <2>5. M[d].nTimerStatus = t /\ M[d].IER = chip(d).IER
      BY <2>2, <2>3, <2>4 DEF Chip
    <2> QED BY <2>2, <2>4, <2>5
  <1>3. ASSUME NEW d \in Chips, file[d].IER PROVE d \in Programmed
    BY <1>0, <1>3 DEF Blank
  <1>4. ASSUME NEW d \in Chips, started(d) PROVE a /\ e = d
    <2>1. d = 0 \/ d = 2
      BY <1>4 DEF Chips, IsDeviceA
    <2>2. 0 \in Chips /\ 2 \in Chips
      BY DEF Chips
    <2>3. started(2) => d = 2
      BY <1>3, <1>4, <2>2 DEF OneCard
    <2> QED BY <1>4, <2>1, <2>3
  <1> HIDE DEF M, a, e, l
  <1>5. l.MB = M /\ l.active = a /\ l.device = e
    BY <1>0, <1>1 DEF Boards
  <1>6. ASSUME NEW d \in Chips
        PROVE  /\ l.MB[d].nTimerStatus => l.active /\ l.device = d
               /\ IsDeviceA(d) /\ l.MB[d].IER => d \in Programmed \cup Enabling
    BY <1>2, <1>3, <1>4, <1>5
  <1> QED BY <1>6 DEF Lone, l

-----------------------------------------------------------------------------

KInv == IInv /\ Lone(board)

LEMMA KeptInit == Init => KInv
  <1>1. Init => Lone(board)
    BY DEF Init, Lone, Blank
  <1> QED BY <1>1, InvInit DEF KInv

\* An access: if the timer survives the counters, only its chip can stop it.
LEMMA ProgramKeeps ==
    ASSUME IInv, Program, NEW c, c = MB_UpdateCycles(board, lag), Lone(c), OneCard
    PROVE  Lone(board') /\ Keeps(c, board')
  <1> DEFINE Good(x) == Lone(x) /\ Keeps(c, x)
  <1>0. Sound(c) /\ c \in Boards /\ Updated = {c}
    BY InvSound, CyclesSound DEF Sound, Updated
  <1>1. Programmed \subseteq Chips /\ Enabling \subseteq Chips
    BY BoardAssumption
  <1>2. ASSUME NEW x, SameTimer(c, x) PROVE Good(x)
    BY <1>2, SameLone
  <1>3. ASSUME NEW d \in Programmed, MB_Write(d)
        PROVE  \E next : Good(next) /\ Access(next)
    <2>1. \/ \E v \in 0 .. LowByte - 1 : Access(WriteTimer1L(c, d, v))
          \/ \E v \in 0 .. HighByte - 1 : Access(WriteTimer1HCounter(c, d, v))
          \/ \E v \in 0 .. HighByte - 1 : Access(WriteTimer1HLatch(c, d, v))
          \/ \E free \in BOOLEAN : Access(WriteACR(c, d, free))
          \/ Access(Acknowledged(c, d))
          \/ Access(UpdateIFR(c, d))
          \/ Access(c)
      BY <1>0, <1>3 DEF MB_Write
    <2>2. d \in Chips
      BY <1>1
    <2>3. \A v \in 0 .. LowByte - 1 : Good(WriteTimer1L(c, d, v))
      BY <1>0, <1>2, <2>2, RegisterSame
    <2>4. \A v \in 0 .. HighByte - 1 : Good(WriteTimer1HCounter(c, d, v))
      BY <1>0, <2>2, CounterLone
    <2>5. \A v \in 0 .. HighByte - 1 : Good(WriteTimer1HLatch(c, d, v))
      BY <1>0, <1>2, <2>2, RegisterSame
    <2>6. \A free \in BOOLEAN : Good(WriteACR(c, d, free))
      BY <1>0, <1>2, <2>2, RegisterSame
    <2>7. Good(Acknowledged(c, d)) /\ Good(UpdateIFR(c, d)) /\ Good(c)
      BY <1>0, <1>2, <2>2, AcknowledgedSame, IFRSame DEF SameTimer
    <2> HIDE DEF Good
    <2> QED BY <2>1, <2>3, <2>4, <2>5, <2>6, <2>7
  <1>4. ASSUME NEW d \in Enabling, WriteIER(d)
        PROVE  \E next : Good(next) /\ Access(next)
    <2>1. PICK timer1 \in BOOLEAN : Access(ClearIER(c, d, timer1)) \/ Access(SetIER(c, d, timer1))
      BY <1>0, <1>4 DEF WriteIER
    <2>2. Good(ClearIER(c, d, timer1)) /\ Good(SetIER(c, d, timer1))
      BY <1>0, <1>1, ClearLone, SetLone
    <2> HIDE DEF Good
    <2> QED BY <2>1, <2>2
  <1>5. ASSUME NEW d \in Programmed, mb_read(d)
        PROVE  \E next : Good(next) /\ Access(next)
    <2>1. Access(Acknowledged(c, d)) \/ Access(UpdateIFR(c, d)) \/ Access(c)
      BY <1>0, <1>5 DEF mb_read
    <2>2. SameTimer(c, c)
      BY DEF SameTimer
    <2>3. Good(Acknowledged(c, d)) /\ Good(UpdateIFR(c, d)) /\ Good(c)
      BY <1>0, <1>1, <1>2, <2>2, AcknowledgedSame, IFRSame
    <2> HIDE DEF Good
    <2> QED BY <2>1, <2>3
  <1>6. PICK next : Good(next) /\ Access(next)
    BY <1>3, <1>4, <1>5 DEF Program
  <1> QED BY <1>6 DEF Access

\* What a step does to the timer: it stays, its chip disables it, or it ends.
LEMMA StepKept ==
    ASSUME audio_isAvailable, KInv, [Next]_vars, OneCard
    PROVE  /\ Lone(board')
           /\ board.active =>
                \/ board'.device = board.device
                \/ ~board'.MB[board.device].IER
                \/ Due /\ ~board.MB[board.device].freeRunning
                \/ reinitialize \/ mb_loadState
  <1> DEFINE m == MB_UpdateCycles(board, lag)
             Lapses == Due /\ ~board.MB[board.device].freeRunning
  <1>0. /\ IInv /\ Sound(board) /\ board \in Boards /\ Lone(board) /\ lag \in 0 .. MaxSlice
        /\ Owned(board)
    BY InvSound DEF KInv, Sound
  <1>1. ASSUME NEW x \in BOOLEAN
        PROVE  /\ SameTimer(board, [board EXCEPT !.played = x])
               /\ SameTimer(board, [board EXCEPT !.irq = x])
    BY <1>0 DEF SameTimer, Boards
  <1>2. Lone(m) /\ (board.active => (m.active /\ m.device = board.device) \/ Lapses)
    <2>1. Lone(m)
      BY <1>0, CyclesLone
    <2>2. CASE m.active = board.active /\ m.device = board.device
      BY <2>1, <2>2
    <2>3. CASE enabled /\ lag # 0 /\ \E d \in Chips : Expires(board, d, lag) /\ ~board.MB[d].freeRunning
      <3>1. PICK d \in Chips : Expires(board, d, lag) /\ ~board.MB[d].freeRunning
        BY <2>3
      <3>2. lag \in 1 .. MaxSlice /\ board.active /\ board.device = d /\ Passes(board, d, lag)
        BY <1>0, <2>3, <3>1, BoardAssumption DEF Expires
      <3>3. board.MB[d].counter \in Counter
        BY <1>0 DEF Boards, Chip
      <3>4. board.MB[d].counter < lag
        BY <3>2, <3>3, UnderflowIsBelow DEF Passes
      <3> QED BY <2>1, <2>3, <3>1, <3>2, <3>4 DEF Due
    <2> QED BY <1>0, <2>2, <2>3, CyclesLone
  <1> HIDE DEF Lapses
  <1>3. ASSUME SameTimer(board, board')
        PROVE  Lone(board') /\ (board.active => board'.device = board.device \/ ~board'.MB[board.device].IER)
    BY <1>0, <1>3, SameLone DEF Keeps
  <1>4. CASE Run \/ MB_EndOfVideoFrame \/ ex_reset
    <2>1. SameTimer(board, board')
      BY <1>1, <1>4 DEF Run, Execute, MB_EndOfVideoFrame, ex_reset
    <2> QED BY <1>3, <2>1
  <1>5. CASE SliceEnd
    BY <1>2, <1>5 DEF SliceEnd, Lapses
  <1>6. CASE Program
    <2>1. Lone(board') /\ Keeps(m, board')
      BY <1>0, <1>2, <1>6, ProgramKeeps
    <2> QED BY <1>2, <2>1 DEF Keeps, Lapses
  <1>7. CASE Settle \/ ex_irq \/ SetFlag \/ ResetKey \/ MB_SetEnabled \/ UNCHANGED vars
    <2>1. board' = board
      BY <1>7 DEF Settle, ex_irq, SetFlag, ResetKey, MB_SetEnabled, vars
    <2> QED BY <1>0, <2>1
  <1>8. CASE reinitialize
    <2>1. Sound(m) /\ Sound(MB_Reset(m)) /\ MB_Reset(m) \in Boards
      BY <1>0, CyclesSound, ResetSound DEF Sound
    <2>2. board'.MB = MB_Reset(m).MB
      BY <1>8, <2>1 DEF reinitialize, Boards
    <2> HIDE DEF m
    <2>3. Lone(board')
      BY <2>1, <2>2, ResetLone DEF Lone
    <2> QED BY <1>8, <2>3
  <1>9. CASE mb_loadState
    <2>1. PICK file \in StateFiles, e \in Ends : board' = Loaded(MB_Reset(board), file, e[1], e[2])
      BY <1>9 DEF mb_loadState
    <2>2. Lone(board')
      BY <1>0, <2>1, EndType, ResetSound, ResetLone, LoadedLone
    <2> QED BY <1>9, <2>2
  <1> QED BY <1>4, <1>5, <1>6, <1>7, <1>8, <1>9 DEF Next

\* A program that uses the chips of one card loses its timer by its own disabling, at its end, by
\* a reset or a loaded state, and never by what it does to another chip (StartTimer and StopTimer).
THEOREM TimerStays == ASSUME audio_isAvailable, OneCard PROVE Spec => TimerKept
  <1>1. KInv /\ [Next]_vars => KInv'
    <2>1. ASSUME KInv, [Next]_vars PROVE KInv'
      BY <2>1, StepKept, InvNext DEF KInv, Lone
    <2> QED BY <2>1
  <1>2. KInv /\ [Next]_vars =>
          [ board.active =>
              \/ board'.device = board.device
              \/ ~board'.MB[board.device].IER
              \/ Due /\ ~board.MB[board.device].freeRunning
              \/ reinitialize \/ mb_loadState ]_vars
    BY StepKept
  <1> QED BY <1>1, <1>2, KeptInit, PTL DEF Spec, TimerKept
=============================================================================
