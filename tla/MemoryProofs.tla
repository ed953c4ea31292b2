---------------------------- MODULE MemoryProofs -----------------------------
(***************************************************************************)
(* What the soft switches promise for every sequence of accesses, resets,  *)
(* saves and loads, whatever groups of switches are thrown; and that the   *)
(* screen follows video memory.                                            *)
(***************************************************************************)
EXTENDS VideoMemory, TLAPS

-----------------------------------------------------------------------------
(* The pseudo switches: DerivedFlags                                        *)
(*                                                                          *)
(* The flags depend on nothing but the flags, so the invariant only has to  *)
(* cover those in the state file.  WriteNeedsAccess goes the same way.      *)

FlagsOK(f) ==
    /\ Pseudo(f)
    /\ "LCWRT" \in f => "LCSEC" \in f

FlagsInv == FlagsOK(softswitches) /\ (saved # NoState => FlagsOK(saved.softswitches))

\* Every handler of a graphics or RAM switch restores the definitions of vm.h.
LEMMA PagingFlags ==
    ASSUME DerivedFlags, Paging
    PROVE  DerivedFlags'
<1>1. CASE iie_page2_off
  BY <1>1 DEF DerivedFlags, Pseudo, PageRead, HgrStored, iie_page2_off, Set, On, Stored, Text, Hgr
<1>2. CASE iie_page2_on
  BY <1>2 DEF DerivedFlags, Pseudo, PageRead, HgrStored, iie_page2_on, Set, On, Stored, Text, Hgr
<1>3. CASE iie_hires_off
  BY <1>3 DEF DerivedFlags, Pseudo, PageRead, HgrStored, iie_hires_off, Set, On, FromRam, Text, Hgr
<1>4. CASE iie_hires_on
  BY <1>4 DEF DerivedFlags, Pseudo, PageRead, HgrStored, iie_hires_on, Set, On, Text, Hgr
<1>5. CASE iie_80store_off
  BY <1>5 DEF DerivedFlags, Pseudo, PageRead, HgrStored, iie_80store_off, Set, On, FromRam, Text, Hgr
<1>6. CASE iie_80store_on
  BY <1>6 DEF DerivedFlags, Pseudo, PageRead, HgrStored, iie_80store_on, Set, On, Stored, Text, Hgr
<1>7. CASE iie_ramrd_main \/ iie_ramrd_aux
  BY <1>7 DEF DerivedFlags, Pseudo, PageRead, HgrStored, iie_ramrd_main, iie_ramrd_aux, Set, On, Followers
<1>8. CASE iie_ramwrt_main \/ iie_ramwrt_aux
  BY <1>8 DEF DerivedFlags, Pseudo, PageRead, HgrStored, iie_ramwrt_main, iie_ramwrt_aux, Set, On, Followers
<1> QED
  BY <1>1, <1>2, <1>3, <1>4, <1>5, <1>6, <1>7, <1>8 DEF Paging

\* The other flags are in none of the definitions.
LEMMA OtherFlags ==
    ASSUME DerivedFlags, Mode \/ Slot \/ Card
    PROVE  DerivedFlags'
<1>1. CASE Mode
  BY <1>1 DEF DerivedFlags, Pseudo, PageRead, HgrStored, Mode, iie_altchar_off, iie_altchar_on,
        IoudisSwitch, ModeSwitch, Modes, Set, On
<1>2. CASE Slot
  BY <1>2 DEF DerivedFlags, Pseudo, PageRead, HgrStored, Slot, iie_c3rom_peripheral,
        iie_c3rom_internal, iie_cxrom_peripheral, iie_cxrom_internal, Set
<1>3. ASSUME NEW b \in {0, 1}, iie_c080(b) \/ iie_c081(b) \/ lc_c082(b) \/ iie_c083(b)
      PROVE  DerivedFlags'
  BY <1>3 DEF DerivedFlags, Pseudo, PageRead, HgrStored, iie_c080, iie_c081, lc_c082, iie_c083,
        _lc_to_auxmem, Others, CardFlags, BankFlag, Armed, On
<1>4. CASE iie_altzp_main \/ iie_altzp_aux
  BY <1>4 DEF DerivedFlags, Pseudo, PageRead, HgrStored, iie_altzp_main, iie_altzp_aux, Set
<1> QED
  BY <1>1, <1>2, <1>3, <1>4 DEF Card

\* Only the language card touches LCWRT and LCSEC: it clears LCSEC only with LCWRT, and sets
\* LCWRT only where LCSEC was set and stays.
LEMMA WriteAccessStep ==
    ASSUME WriteNeedsAccess, Paging \/ Mode \/ Slot \/ Card
    PROVE  WriteNeedsAccess'
<1>1. CASE Paging
  BY <1>1 DEF WriteNeedsAccess, On, Paging, Set, iie_page2_off, iie_page2_on, iie_hires_off,
        iie_hires_on, iie_80store_off, iie_80store_on, iie_ramrd_main, iie_ramrd_aux,
        iie_ramwrt_main, iie_ramwrt_aux, Stored, FromRam, Followers, Text, Hgr
<1>2. CASE Mode \/ Slot
  BY <1>2 DEF WriteNeedsAccess, On, Set, Mode, iie_altchar_off, iie_altchar_on, IoudisSwitch,
        ModeSwitch, Modes, Slot, iie_c3rom_peripheral, iie_c3rom_internal,
        iie_cxrom_peripheral, iie_cxrom_internal
<1>3. ASSUME NEW b \in {0, 1}, iie_c080(b) \/ iie_c081(b) \/ lc_c082(b) \/ iie_c083(b)
      PROVE  WriteNeedsAccess'
  BY <1>3 DEF WriteNeedsAccess, On, iie_c080, iie_c081, lc_c082, iie_c083, _lc_to_auxmem,
        Others, CardFlags, BankFlag, Armed
<1>4. CASE iie_altzp_main \/ iie_altzp_aux
  BY <1>4 DEF WriteNeedsAccess, On, Set, iie_altzp_main, iie_altzp_aux
<1> QED
  BY <1>1, <1>2, <1>3, <1>4 DEF Card

\* Saves, loads and resets: the flags are saved and restored whole.
LEMMA FlagsStep ==
    ASSUME FlagsInv, [SwitchNext]_ssvars
    PROVE  FlagsInv'
<1>1. CASE Access
  <2>1. saved' = saved
    BY <1>1 DEF Access, Paging, Mode, Slot, Card, iie_page2_off, iie_page2_on, iie_hires_off,
          iie_hires_on, iie_80store_off, iie_80store_on, iie_ramrd_main, iie_ramrd_aux,
          iie_ramwrt_main, iie_ramwrt_aux, iie_altchar_off, iie_altchar_on, IoudisSwitch,
          ModeSwitch, iie_c3rom_peripheral, iie_c3rom_internal, iie_cxrom_peripheral,
          iie_cxrom_internal, iie_c080, iie_c081, lc_c082, iie_c083, _lc_to_auxmem,
          iie_altzp_main, iie_altzp_aux, OnlyPaging, OnlySlots, files
  <2>2. Paging \/ Mode \/ Slot \/ Card
    BY <1>1 DEF Access
  <2>3. DerivedFlags' /\ WriteNeedsAccess'
    BY <2>2, PagingFlags, OtherFlags, WriteAccessStep
       DEF FlagsInv, FlagsOK, DerivedFlags, WriteNeedsAccess, On
  <2> QED
    BY <2>1, <2>3 DEF FlagsInv, FlagsOK, DerivedFlags, WriteNeedsAccess, On
<1>2. CASE vm_saveState
  BY <1>2 DEF FlagsInv, vm_saveState, StateFile, switches
<1>3. CASE vm_loadState \/ LoadTorn
  BY <1>3 DEF FlagsInv, vm_loadState, LoadTorn, LoadPointers
<1>4. CASE vm_initialize
  BY <1>4 DEF FlagsInv, FlagsOK, vm_initialize, ResetSwitches, Pseudo, PageRead, HgrStored
<1>5. CASE FrameComplete \/ VideoWrite \/ UNCHANGED ssvars
  BY <1>5 DEF FlagsInv, FrameComplete, VideoWrite, Announce, ssvars, switches, files
<1> QED
  BY <1>1, <1>2, <1>3, <1>4, <1>5 DEF SwitchNext, State

\* vm.h's definitions of the pseudo switches hold after every sequence of accesses, resets,
\* complete and torn loads.
THEOREM PseudoSwitches == SwitchSpec => []DerivedFlags
<1>1. SwitchInit => FlagsInv
  BY DEF SwitchInit, ResetSwitches, FlagsInv, FlagsOK, Pseudo, PageRead, HgrStored
<1>2. FlagsInv => DerivedFlags
  BY DEF FlagsInv, FlagsOK, DerivedFlags
<1> QED
  BY <1>1, <1>2, FlagsStep, PTL DEF SwitchSpec

\* The card is never writable with LCSEC clear.
THEOREM WritesWereArmed == SwitchSpec => []WriteNeedsAccess
<1>1. SwitchInit => FlagsInv
  BY DEF SwitchInit, ResetSwitches, FlagsInv, FlagsOK, Pseudo, PageRead, HgrStored
<1>2. FlagsInv => WriteNeedsAccess
  BY DEF FlagsInv, FlagsOK, WriteNeedsAccess, On
<1> QED
  BY <1>1, <1>2, FlagsStep, PTL DEF SwitchSpec

-----------------------------------------------------------------------------
(* The pointers: RamPointers                                                *)
(*                                                                          *)
(* Inductive with the same fact about the state file.  A torn load breaks   *)
(* it, and only a reset or a complete load, which set every pointer, end    *)
(* torn.                                                                    *)

RamInv ==
    /\ RamPointers
    /\ saved # NoState =>
         \A r \in Regions : saved.base[r] = IF r \in saved.softswitches THEN "aux" ELSE "main"

\* A handler that moves the pointers of exactly the regions whose flags it changes keeps them
\* together.
LEMMA MoveTogether ==
    ASSUME RamPointers, NEW on, NEW off, NEW aux, NEW main,
           Set(on, off), Point(aux, main), torn' = torn,
           \A r \in Regions : r \in aux <=> r \in on,
           \A r \in Regions : r \in on \/ (r \in main <=> r \in off)
    PROVE  RamPointers'
<1> SUFFICES ASSUME ~torn', NEW r \in Regions
             PROVE  base'[r] = IF r \in softswitches' THEN "aux" ELSE "main"
  BY DEF RamPointers, On
<1>1. base'[r] = IF r \in aux THEN "aux" ELSE IF r \in main THEN "main" ELSE base[r]
  BY DEF Point
<1>2. r \in softswitches' <=> r \in on \/ (r \in softswitches /\ r \notin off)
  BY DEF Set
<1>3. base[r] = IF r \in softswitches THEN "aux" ELSE "main"
  BY DEF RamPointers, On
<1> QED
  BY <1>1, <1>2, <1>3

\* The same for a handler that changes no region's flag, and leaves the pointers alone.
LEMMA NoneMoved ==
    ASSUME RamPointers, base' = base, torn' = torn,
           \A r \in Regions : r \in softswitches' <=> r \in softswitches
    PROVE  RamPointers'
  BY DEF RamPointers, On

LEMMA RamAccess ==
    ASSUME RamPointers, Paging \/ Mode \/ Slot \/ Card
    PROVE  RamPointers'
<1> USE DEF Regions, Text, Hgr, Ram
<1>1. CASE iie_page2_off
  BY <1>1, MoveTogether DEF iie_page2_off, Stored, OnlyPaging, files
<1>2. CASE iie_page2_on
  BY <1>2, MoveTogether DEF iie_page2_on, Stored, OnlyPaging, files
<1>3. CASE iie_hires_off
  BY <1>3, MoveTogether DEF iie_hires_off, FromRam, OnlyPaging, files
<1>4. CASE iie_hires_on
  BY <1>4, MoveTogether DEF iie_hires_on, OnlyPaging, files
<1>5. CASE iie_80store_off
  BY <1>5, MoveTogether DEF iie_80store_off, FromRam, OnlyPaging, files
<1>6. CASE iie_80store_on
  BY <1>6, MoveTogether DEF iie_80store_on, Stored, OnlyPaging, files
<1>7. CASE iie_ramrd_main \/ iie_ramrd_aux
  BY <1>7, MoveTogether DEF iie_ramrd_main, iie_ramrd_aux, Followers, OnlyPaging, files
<1>8. CASE iie_ramwrt_main \/ iie_ramwrt_aux
  BY <1>8, MoveTogether DEF iie_ramwrt_main, iie_ramwrt_aux, Followers, OnlyPaging, files
<1>9. CASE Mode
  BY <1>9, NoneMoved DEF Mode, iie_altchar_off, iie_altchar_on, IoudisSwitch, ModeSwitch, Modes,
        Set, OnlyPaging, files
<1>10. CASE Slot
  BY <1>10, NoneMoved DEF Slot, iie_c3rom_peripheral, iie_c3rom_internal, iie_cxrom_peripheral,
        iie_cxrom_internal, Set, OnlySlots, files
<1>11. ASSUME NEW b \in {0, 1}, iie_c080(b) \/ iie_c081(b) \/ lc_c082(b) \/ iie_c083(b)
       PROVE  RamPointers'
  BY <1>11, NoneMoved DEF iie_c080, iie_c081, lc_c082, iie_c083, _lc_to_auxmem, Others,
        CardFlags, BankFlag, Armed, files
<1>12. CASE iie_altzp_main \/ iie_altzp_aux
  BY <1>12, MoveTogether DEF iie_altzp_main, iie_altzp_aux, files
<1> QED
  BY <1>1, <1>2, <1>3, <1>4, <1>5, <1>6, <1>7, <1>8, <1>9, <1>10, <1>11, <1>12
     DEF Paging, Card

\* An access never touches the state file.
LEMMA AccessKeepsFiles ==
    ASSUME Access
    PROVE  UNCHANGED files
  BY DEF Access, Paging, Mode, Slot, Card, iie_page2_off, iie_page2_on, iie_hires_off,
         iie_hires_on, iie_80store_off, iie_80store_on, iie_ramrd_main, iie_ramrd_aux,
         iie_ramwrt_main, iie_ramwrt_aux, iie_altchar_off, iie_altchar_on, IoudisSwitch,
         ModeSwitch, iie_c3rom_peripheral, iie_c3rom_internal, iie_cxrom_peripheral,
         iie_cxrom_internal, iie_c080, iie_c081, lc_c082, iie_c083, _lc_to_auxmem,
         iie_altzp_main, iie_altzp_aux, OnlyPaging, OnlySlots, files

\* A complete load reads every pointer of the file.
LEMMA WholeFile ==
    /\ Len(FileOrder) = 13
    /\ {FileOrder[i] : i \in 1 .. 13}
         = Regions \cup {"c3rom", "cxrom", "d000_rd", "d000_wrt", "e000_rd", "e000_wrt"}
<1>1. Len(FileOrder) = 13
  BY DEF FileOrder
<1>2. \A i \in 1 .. 13 : FileOrder[i] \in Regions
         \cup {"c3rom", "cxrom", "d000_rd", "d000_wrt", "e000_rd", "e000_wrt"}
  BY DEF FileOrder, Regions, Text, Hgr, Ram
<1>3. /\ FileOrder[1] = "RAMRD" /\ FileOrder[2] = "RAMWRT" /\ FileOrder[3] = "TEXTRD"
      /\ FileOrder[4] = "TEXTWRT" /\ FileOrder[5] = "HGRRD" /\ FileOrder[6] = "HGRWRT"
      /\ FileOrder[7] = "ALTZP" /\ FileOrder[8] = "c3rom" /\ FileOrder[9] = "cxrom"
      /\ FileOrder[10] = "d000_rd" /\ FileOrder[11] = "d000_wrt"
      /\ FileOrder[12] = "e000_rd" /\ FileOrder[13] = "e000_wrt"
  BY DEF FileOrder
<1>4. \A x \in Regions \cup {"c3rom", "cxrom", "d000_rd", "d000_wrt", "e000_rd", "e000_wrt"} :
         \E i \in 1 .. 13 : x = FileOrder[i]
  BY <1>3 DEF Regions, Text, Hgr, Ram
<1> QED
  BY <1>1, <1>2, <1>4

LEMMA RamStep ==
    ASSUME RamInv, [SwitchNext]_ssvars
    PROVE  RamInv'
<1>1. CASE Access
  BY <1>1, RamAccess, AccessKeepsFiles DEF RamInv, Access, files
<1>2. CASE vm_saveState
  BY <1>2 DEF RamInv, RamPointers, On, vm_saveState, StateFile, switches
<1>3. CASE vm_loadState
  <2>1. \A r \in Regions : Loaded(saved, Len(FileOrder)).base[r] = saved.base[r]
    BY WholeFile DEF Loaded
  <2> QED
    BY <1>3, <2>1 DEF RamInv, RamPointers, On, vm_loadState, LoadPointers
<1>4. CASE LoadTorn
  BY <1>4 DEF RamInv, RamPointers, LoadTorn, LoadPointers
<1>5. CASE vm_initialize
  BY <1>5 DEF RamInv, RamPointers, On, vm_initialize, ResetSwitches, Regions, Text, Hgr, Ram
<1>6. CASE FrameComplete \/ VideoWrite \/ UNCHANGED ssvars
  BY <1>6 DEF RamInv, RamPointers, On, FrameComplete, VideoWrite, Announce, ssvars, switches, files
<1> QED
  BY <1>1, <1>2, <1>3, <1>4, <1>5, <1>6 DEF SwitchNext, State

\* In a machine that no load has torn, each RAM region is where its flag says.
THEOREM PointersFollowFlags == SwitchSpec => []RamPointers
<1>1. SwitchInit => RamInv
  BY DEF SwitchInit, ResetSwitches, RamInv, RamPointers, On, Regions, Text, Hgr, Ram
<1>2. RamInv => RamPointers
  BY DEF RamInv
<1> QED
  BY <1>1, <1>2, RamStep, PTL DEF SwitchSpec

-----------------------------------------------------------------------------
(* The slots: SlotRoms                                                      *)

SlotRom(f, r) ==
    IF "CXROM" \in f \/ (r = "c3rom" /\ "C3ROM" \in f) THEN "internal" ELSE "peripheral"

\* The state file has the pointers of $C3xx and $C1xx only; the others follow the latter.
SlotInv ==
    /\ SlotRoms
    /\ saved # NoState => /\ saved.c3rom = SlotRom(saved.softswitches, "c3rom")
                          /\ saved.cxrom = SlotRom(saved.softswitches, "cxrom")

LEMMA SlotAccess ==
    ASSUME SlotRoms, Paging \/ Mode \/ Slot \/ Card, UNCHANGED files
    PROVE  SlotRoms'
<1>1. CASE Paging \/ Mode \/ Card
  <2>1. slots' = slots
    BY <1>1 DEF Paging, Mode, Card, iie_page2_off, iie_page2_on, iie_hires_off,
          iie_hires_on, iie_80store_off, iie_80store_on, iie_ramrd_main, iie_ramrd_aux,
          iie_ramwrt_main, iie_ramwrt_aux, iie_altchar_off, iie_altchar_on, IoudisSwitch,
          ModeSwitch, iie_c080, iie_c081, lc_c082, iie_c083, _lc_to_auxmem,
          iie_altzp_main, iie_altzp_aux, OnlyPaging
  <2>2. CASE Paging
    BY <2>1, <2>2 DEF SlotRoms, On, files, Paging, iie_page2_off, iie_page2_on, iie_hires_off,
          iie_hires_on, iie_80store_off, iie_80store_on, iie_ramrd_main, iie_ramrd_aux,
          iie_ramwrt_main, iie_ramwrt_aux, Set, Stored, FromRam, Followers, Text, Hgr
  <2>3. CASE Mode
    BY <2>1, <2>3 DEF SlotRoms, On, files, Mode, iie_altchar_off, iie_altchar_on, IoudisSwitch,
          ModeSwitch, Modes, Set
  <2>4. CASE Card
    BY <2>1, <2>4 DEF SlotRoms, On, files, Card, iie_c080, iie_c081, lc_c082, iie_c083,
          _lc_to_auxmem, Others, CardFlags, BankFlag, Armed, iie_altzp_main, iie_altzp_aux, Set
  <2> QED
    BY <1>1, <2>2, <2>3, <2>4
<1>2. CASE Slot
  BY <1>2 DEF SlotRoms, On, files, Slot, iie_c3rom_peripheral, iie_c3rom_internal,
        iie_cxrom_peripheral, iie_cxrom_internal, Set, MapSlots, Roms
<1> QED
  BY <1>1, <1>2

LEMMA SlotStep ==
    ASSUME SlotInv, [SwitchNext]_ssvars
    PROVE  SlotInv'
<1>1. CASE Access
  BY <1>1, SlotAccess, AccessKeepsFiles DEF SlotInv, SlotRom, Access, files
<1>2. CASE vm_saveState
  <2>1. saved'.c3rom = slots["c3rom"] /\ saved'.cxrom = slots["cxrom"]
        /\ saved'.softswitches = softswitches /\ ~torn
    BY <1>2 DEF vm_saveState, StateFile
  <2> QED
    BY <1>2, <2>1 DEF SlotInv, SlotRoms, SlotRom, Roms, On, vm_saveState, switches
<1>3. CASE vm_loadState
  <2>1. \A r \in Roms : Loaded(saved, Len(FileOrder)).slots[r]
                           = IF r = "c3rom" THEN saved.c3rom ELSE saved.cxrom
    BY WholeFile DEF Loaded
  <2> QED
    BY <1>3, <2>1 DEF SlotInv, SlotRoms, SlotRom, On, vm_loadState, LoadPointers
<1>4. CASE LoadTorn
  BY <1>4 DEF SlotInv, SlotRoms, LoadTorn, LoadPointers
<1>5. CASE vm_initialize
  BY <1>5 DEF SlotInv, SlotRoms, SlotRom, On, vm_initialize, ResetSwitches
<1>6. CASE FrameComplete \/ VideoWrite \/ UNCHANGED ssvars
  BY <1>6 DEF SlotInv, SlotRoms, On, FrameComplete, VideoWrite, Announce, ssvars, switches, files
<1> QED
  BY <1>1, <1>2, <1>3, <1>4, <1>5, <1>6 DEF SwitchNext, State

\* In a machine that no load has torn, the slots are read from the ROMs that CXROM and C3ROM
\* call for, those among them that the state file does not have included.
THEOREM SlotsFollowFlags == SwitchSpec => []SlotRoms
<1>1. SwitchInit => SlotInv
  BY DEF SwitchInit, ResetSwitches, SlotInv, SlotRoms, SlotRom, On
<1>2. SlotInv => SlotRoms
  BY DEF SlotInv
<1> QED
  BY <1>1, <1>2, SlotStep, PTL DEF SwitchSpec

-----------------------------------------------------------------------------
(* The language card: CardPointers                                          *)
(*                                                                          *)
(* ALTZP moves the windows by a difference, so their place is only known by *)
(* induction.  LCWRT => LCSEC is needed: with LCWRT set and LCSEC clear,    *)
(* iie_c081() would keep a window that _lc_to_auxmem() then moves again.    *)

\* The windows that flags f call for.
WindowsOK(f, rd, wrt) ==
    /\ rd = IF "LCRAM" \in f THEN CardWindow(f) ELSE RomWindow
    /\ "LCWRT" \in f => wrt = CardWindow(f)
    /\ "LCWRT" \notin f => wrt \in {NoWindow, MainWindow(0)}

\* The windows that a complete load makes of a file.
FileRead(f) == [d000 |-> Decode(f.rd.d000, Rom), e000 |-> DecodeCard(f.rd.e000, "rom")]
FileWrite(f) == [d000 |-> Decode(f.wrt.d000, Nowhere), e000 |-> DecodeCard(f.wrt.e000, "none")]

CardInv ==
    /\ FlagsInv
    /\ ~torn => WindowsOK(softswitches, lc_rd, lc_wrt)
    /\ saved # NoState => WindowsOK(saved.softswitches, FileRead(saved), FileWrite(saved))

\* Moving a window of the main card to the auxiliary card, and back.
LEMMA MoveWindow ==
    ASSUME NEW b \in {0, 1}
    PROVE  /\ ToAux(MainWindow(b)) = [d000 |-> Bank(b + 2), e000 |-> "aux"]
           /\ ToMain([d000 |-> Bank(b + 2), e000 |-> "aux"]) = MainWindow(b)
<1>1. Shift(Bank(b), 2) = Bank(b + 2) /\ Shift(Bank(b + 2), -2) = Bank(b)
  BY DEF Shift, Bank
<1> QED
  BY <1>1 DEF ToAux, ToMain, MainWindow

\* An access to $C080-$C08F leaves the windows its flags call for.
LEMMA LcAccess ==
    ASSUME FlagsInv, WindowsOK(softswitches, lc_rd, lc_wrt), NEW b \in {0, 1},
           iie_c080(b) \/ iie_c081(b) \/ lc_c082(b) \/ iie_c083(b)
    PROVE  WindowsOK(softswitches', lc_rd', lc_wrt')
<1> DEFINE f == softswitches'
           W == IF "ALTZP" \in f THEN ToAux(MainWindow(b)) ELSE MainWindow(b)
<1>1. "BANK2" \in f <=> b = 0
  BY DEF iie_c080, iie_c081, lc_c082, iie_c083, _lc_to_auxmem, Others, CardFlags, BankFlag, Armed
<1>2. CardWindow(f) = W
  BY <1>1, MoveWindow DEF CardWindow, CardBank, MainWindow
<1>3. lc_rd' = IF "LCRAM" \in f THEN W ELSE RomWindow
  BY DEF iie_c080, iie_c081, lc_c082, iie_c083, _lc_to_auxmem, Others, CardFlags, BankFlag, Armed
<1>4. "LCWRT" \in softswitches => "LCSEC" \in softswitches
  BY DEF FlagsInv, FlagsOK
<1>5. "LCWRT" \in f => lc_wrt' = W
  BY <1>4 DEF iie_c080, iie_c081, lc_c082, iie_c083, _lc_to_auxmem, Others, CardFlags, BankFlag,
        Armed, WriteWindow, On
<1>6. "LCWRT" \notin f => lc_wrt' \in {NoWindow, MainWindow(0)}
  BY <1>4 DEF iie_c080, iie_c081, lc_c082, iie_c083, _lc_to_auxmem, Others, CardFlags, BankFlag,
        Armed, WriteWindow, On, WindowsOK
<1> QED
  BY <1>2, <1>3, <1>5, <1>6 DEF WindowsOK

\* ALTZP moves exactly the windows that are on the card.
LEMMA AltzpAccess ==
    ASSUME WindowsOK(softswitches, lc_rd, lc_wrt), iie_altzp_main \/ iie_altzp_aux
    PROVE  WindowsOK(softswitches', lc_rd', lc_wrt')
<1> DEFINE b == IF "BANK2" \in softswitches THEN 0 ELSE 1
<1>0. b \in {0, 1}
  OBVIOUS
<1>1. \A x \in {"LCRAM", "LCWRT", "BANK2"} : x \in softswitches' <=> x \in softswitches
  BY DEF iie_altzp_main, iie_altzp_aux, Set
<1>2. CASE iie_altzp_main
  <2>1. CardWindow(softswitches) = [d000 |-> Bank(b + 2), e000 |-> "aux"]
    BY <1>2 DEF iie_altzp_main, On, CardWindow, CardBank
  <2>2. CardWindow(softswitches') = MainWindow(b)
    BY <1>1, <1>2 DEF iie_altzp_main, Set, CardWindow, CardBank, MainWindow
  <2>3. ToMain(CardWindow(softswitches)) = CardWindow(softswitches')
    BY <1>0, <2>1, <2>2, MoveWindow
  <2> QED
    BY <1>1, <1>2, <2>3 DEF WindowsOK, iie_altzp_main, On
<1>3. CASE iie_altzp_aux
  <2>1. CardWindow(softswitches) = MainWindow(b)
    BY <1>3 DEF iie_altzp_aux, On, CardWindow, CardBank, MainWindow
  <2>2. CardWindow(softswitches') = [d000 |-> Bank(b + 2), e000 |-> "aux"]
    BY <1>1, <1>3 DEF iie_altzp_aux, Set, CardWindow, CardBank
  <2>3. ToAux(CardWindow(softswitches)) = CardWindow(softswitches')
    BY <1>0, <2>1, <2>2, MoveWindow
  <2> QED
    BY <1>1, <1>3, <2>3 DEF WindowsOK, iie_altzp_aux, On
<1> QED
  BY <1>2, <1>3

\* The codes of vm_saveState() tell apart every window that the flags can call for.
LEMMA CodesAreExact ==
    ASSUME NEW f, NEW rd, NEW wrt, WindowsOK(f, rd, wrt)
    PROVE  /\ rd.d000 \in {Rom} \cup Banks /\ wrt.d000 \in {Nowhere} \cup Banks
           /\ rd = [d000 |-> Decode(Code(rd.d000), Rom), e000 |-> DecodeCard(CardCode(rd.e000), "rom")]
           /\ wrt = [d000 |-> Decode(Code(wrt.d000), Nowhere),
                     e000 |-> DecodeCard(CardCode(wrt.e000), "none")]
<1>1. CardBank(f) \in 0 .. 3
  BY DEF CardBank
<1>2. \A n \in 0 .. 3 : /\ Bank(n) # Rom /\ Bank(n) # Nowhere
                        /\ Code(Bank(n)) = n + 2 /\ Decode(n + 2, Rom) = Bank(n)
                        /\ Decode(n + 2, Nowhere) = Bank(n)
  BY DEF Bank, Rom, Nowhere, Code, Decode
<1>3. Decode(Code(Rom), Rom) = Rom /\ Decode(Code(Nowhere), Nowhere) = Nowhere
  BY DEF Code, Decode
<1>4. \A zero : /\ DecodeCard(CardCode("main"), zero) = "main"
                /\ DecodeCard(CardCode("aux"), zero) = "aux"
                /\ DecodeCard(CardCode("rom"), zero) = zero
                /\ DecodeCard(CardCode("none"), zero) = zero
  BY DEF DecodeCard, CardCode
<1>5. rd = CardWindow(f) \/ rd = RomWindow
  BY DEF WindowsOK
<1>6. wrt = CardWindow(f) \/ wrt = NoWindow \/ wrt = MainWindow(0)
  BY DEF WindowsOK
<1> DEFINE ReadOK(w)  == /\ w.d000 \in {Rom} \cup Banks
                         /\ w = [d000 |-> Decode(Code(w.d000), Rom),
                                 e000 |-> DecodeCard(CardCode(w.e000), "rom")]
           WriteOK(w) == /\ w.d000 \in {Nowhere} \cup Banks
                         /\ w = [d000 |-> Decode(Code(w.d000), Nowhere),
                                 e000 |-> DecodeCard(CardCode(w.e000), "none")]
<1>7. ReadOK(CardWindow(f)) /\ WriteOK(CardWindow(f))
  BY <1>1, <1>2, <1>4 DEF CardWindow, Banks
<1>8. ReadOK(RomWindow) /\ WriteOK(NoWindow)
  BY <1>3, <1>4 DEF RomWindow, NoWindow
<1>9. WriteOK(MainWindow(0))
  BY <1>2, <1>4 DEF MainWindow, Banks
<1> QED
  BY <1>5, <1>6, <1>7, <1>8, <1>9

\* What a complete load makes of a file.
LEMMA WholeLoad ==
    ASSUME NEW f
    PROVE  LET l == Loaded(f, Len(FileOrder)) IN l.lc_rd = FileRead(f) /\ l.lc_wrt = FileWrite(f)
<1> DEFINE l == Loaded(f, Len(FileOrder))
<1>1. l.lc_rd = [d000 |-> Decode(f.rd.d000, Rom), e000 |-> DecodeCard(f.rd.e000, "rom")]
  BY WholeFile DEF Loaded
<1>2. l.lc_wrt = [d000 |-> Decode(f.wrt.d000, Nowhere), e000 |-> DecodeCard(f.wrt.e000, "none")]
  BY WholeFile DEF Loaded
<1> QED
  BY <1>1, <1>2 DEF FileRead, FileWrite

LEMMA CardStep ==
    ASSUME CardInv, [SwitchNext]_ssvars
    PROVE  CardInv'
<1>0. FlagsInv'
  BY FlagsStep DEF CardInv
<1> SUFFICES /\ ~torn' => WindowsOK(softswitches', lc_rd', lc_wrt')
             /\ saved' # NoState
                  => WindowsOK(saved'.softswitches, FileRead(saved'), FileWrite(saved'))
  BY <1>0 DEF CardInv
<1>1. CASE Access
  <2>1. UNCHANGED files
    BY <1>1, AccessKeepsFiles
  <2>2. ASSUME ~torn
        PROVE  WindowsOK(softswitches', lc_rd', lc_wrt')
    <3>1. CASE Paging \/ Mode \/ Slot
      <4>1. lc_rd' = lc_rd /\ lc_wrt' = lc_wrt
        BY <3>1 DEF Paging, Mode, Slot, iie_page2_off, iie_page2_on, iie_hires_off,
              iie_hires_on, iie_80store_off, iie_80store_on, iie_ramrd_main, iie_ramrd_aux,
              iie_ramwrt_main, iie_ramwrt_aux, iie_altchar_off, iie_altchar_on, IoudisSwitch,
              ModeSwitch, iie_c3rom_peripheral, iie_c3rom_internal, iie_cxrom_peripheral,
              iie_cxrom_internal, OnlyPaging, OnlySlots
      <4>2. \A x \in {"LCRAM", "LCWRT", "BANK2", "ALTZP"} : x \in softswitches' <=> x \in softswitches
        <5>1. CASE Paging
          BY <5>1 DEF Paging, iie_page2_off, iie_page2_on, iie_hires_off,
                iie_hires_on, iie_80store_off, iie_80store_on, iie_ramrd_main, iie_ramrd_aux,
                iie_ramwrt_main, iie_ramwrt_aux, Set, Stored, FromRam, Followers, Text, Hgr
        <5>2. CASE Mode \/ Slot
          BY <5>2 DEF Mode, Slot, iie_altchar_off, iie_altchar_on, IoudisSwitch, ModeSwitch,
                Modes, iie_c3rom_peripheral, iie_c3rom_internal, iie_cxrom_peripheral,
                iie_cxrom_internal, Set
        <5> QED
          BY <3>1, <5>1, <5>2
      <4>3. CardWindow(softswitches') = CardWindow(softswitches)
        BY <4>2 DEF CardWindow, CardBank
      <4> QED
        BY <2>2, <4>1, <4>2, <4>3 DEF CardInv, WindowsOK
    <3>2. CASE Card
      BY <2>2, <3>2, LcAccess, AltzpAccess DEF CardInv, Card
    <3> QED
      BY <1>1, <3>1, <3>2 DEF Access
  <2> QED
    BY <2>1, <2>2 DEF files, CardInv
<1>2. CASE vm_saveState
  <2>1. FileRead(saved') = lc_rd /\ FileWrite(saved') = lc_wrt
    BY <1>2, CodesAreExact DEF CardInv, vm_saveState, StateFile, FileRead, FileWrite
  <2> QED
    BY <1>2, <2>1 DEF CardInv, vm_saveState, StateFile, switches
<1>3. CASE vm_loadState
  BY <1>3, WholeLoad DEF CardInv, vm_loadState, LoadPointers
<1>4. CASE LoadTorn
  BY <1>4 DEF CardInv, LoadTorn, LoadPointers
<1>5. CASE vm_initialize
  BY <1>5 DEF CardInv, WindowsOK, vm_initialize, ResetSwitches
<1>6. CASE FrameComplete \/ VideoWrite \/ UNCHANGED ssvars
  BY <1>6 DEF CardInv, FrameComplete, VideoWrite, Announce, ssvars, switches, files
<1> QED
  BY <1>1, <1>2, <1>3, <1>4, <1>5, <1>6 DEF SwitchNext, State

\* In a machine that no load has torn, $D000-$FFFF is read from and written to the bank that
\* the language card flags call for, however often ALTZP moved the windows.
THEOREM WindowsFollowFlags == SwitchSpec => []CardPointers
<1>1. SwitchInit => CardInv
  BY DEF SwitchInit, ResetSwitches, CardInv, WindowsOK, FlagsInv, FlagsOK, Pseudo, PageRead,
         HgrStored
<1>2. CardInv => CardPointers
  BY DEF CardInv, WindowsOK, CardPointers, On
<1> QED
  BY <1>1, <1>2, CardStep, PTL DEF SwitchSpec

-----------------------------------------------------------------------------
(* Types, and the state file: TypeOK and RoundTrip                          *)

\* A file holds typed pointers too, so that a torn load leaves typed ones.
FileTypeOK ==
    saved # NoState =>
        /\ saved.softswitches \subseteq Flags
        /\ saved.base \in [Regions -> {"main", "aux"}]
        /\ saved.c3rom \in {"peripheral", "internal"} /\ saved.cxrom \in {"peripheral", "internal"}
        /\ saved.rd \in [d000 : Int, e000 : {0, 2, 3}]
        /\ saved.wrt \in [d000 : Int, e000 : {0, 2, 3}]

TypeInv == TypeOK /\ FileTypeOK

ReadWindows  == [d000 : [to : {"rom", "banks"}, at : Int], e000 : {"rom", "main", "aux"}]
WriteWindows == [d000 : [to : {"none", "banks"}, at : Int], e000 : {"none", "main", "aux"}]

LEMMA WindowTypes ==
    /\ RomWindow \in ReadWindows /\ NoWindow \in WriteWindows
    /\ \A b \in {0, 1} : MainWindow(b) \in ReadWindows /\ MainWindow(b) \in WriteWindows
    /\ \A w \in ReadWindows : ToAux(w) \in ReadWindows /\ ToMain(w) \in ReadWindows
    /\ \A w \in WriteWindows : ToAux(w) \in WriteWindows /\ ToMain(w) \in WriteWindows
  BY DEF ReadWindows, WriteWindows, RomWindow, NoWindow, MainWindow, ToAux, ToMain, Rom, Nowhere,
         Bank, Shift

LEMMA FlagsTyped ==
    ASSUME softswitches \subseteq Flags, Paging \/ Mode \/ Slot \/ Card
    PROVE  softswitches' \subseteq Flags
<1> USE DEF Set, Flags, Regions, Text, Hgr, Ram, Modes
<1>1. CASE Paging
  BY <1>1 DEF Paging, iie_page2_off, iie_page2_on, iie_hires_off, iie_hires_on, iie_80store_off,
        iie_80store_on, iie_ramrd_main, iie_ramrd_aux, iie_ramwrt_main, iie_ramwrt_aux, Stored,
        FromRam, Followers
<1>2. CASE Mode \/ Slot
  BY <1>2 DEF Mode, iie_altchar_off, iie_altchar_on, IoudisSwitch, ModeSwitch, Slot,
        iie_c3rom_peripheral, iie_c3rom_internal, iie_cxrom_peripheral, iie_cxrom_internal
<1>3. CASE Card
  BY <1>3 DEF Card, iie_c080, iie_c081, lc_c082, iie_c083, _lc_to_auxmem, Others, CardFlags,
        BankFlag, Armed, iie_altzp_main, iie_altzp_aux
<1> QED
  BY <1>1, <1>2, <1>3

LEMMA PointersTyped ==
    ASSUME TypeOK, Paging \/ Mode \/ Slot \/ Card
    PROVE  /\ base' \in [Regions -> {"main", "aux"}]
           /\ slots' \in [Roms -> {"peripheral", "internal"}]
           /\ lc_rd' \in ReadWindows /\ lc_wrt' \in WriteWindows
<1>1. /\ base \in [Regions -> {"main", "aux"}]
      /\ slots \in [Roms -> {"peripheral", "internal"}]
      /\ lc_rd \in ReadWindows /\ lc_wrt \in WriteWindows
  BY DEF TypeOK, ReadWindows, WriteWindows
<1>2. CASE Paging
  <2>1. slots' = slots /\ lc_rd' = lc_rd /\ lc_wrt' = lc_wrt /\ \E aux, main : Point(aux, main)
    BY <1>2 DEF Paging, iie_page2_off, iie_page2_on, iie_hires_off, iie_hires_on,
          iie_80store_off, iie_80store_on, iie_ramrd_main, iie_ramrd_aux, iie_ramwrt_main,
          iie_ramwrt_aux, OnlyPaging
  <2> QED
    BY <1>1, <2>1 DEF Point
<1>3. CASE Mode
  BY <1>1, <1>3 DEF Mode, iie_altchar_off, iie_altchar_on, IoudisSwitch, ModeSwitch, OnlyPaging
<1>4. CASE Slot
  <2>1. base' = base /\ lc_rd' = lc_rd /\ lc_wrt' = lc_wrt
        /\ \E roms, card : card \in {"peripheral", "internal"} /\ MapSlots(roms, card)
    BY <1>4 DEF Slot, iie_c3rom_peripheral, iie_c3rom_internal, iie_cxrom_peripheral,
          iie_cxrom_internal, OnlySlots
  <2> QED
    BY <1>1, <2>1 DEF MapSlots
<1>5. ASSUME NEW b \in {0, 1}, iie_c080(b) \/ iie_c081(b) \/ lc_c082(b) \/ iie_c083(b)
      PROVE  /\ base' = base /\ slots' = slots
             /\ lc_rd' \in ReadWindows /\ lc_wrt' \in WriteWindows
  BY <1>1, <1>5, WindowTypes DEF iie_c080, iie_c081, lc_c082, iie_c083, _lc_to_auxmem, WriteWindow
<1>6. CASE iie_altzp_main \/ iie_altzp_aux
  BY <1>1, <1>6, WindowTypes DEF iie_altzp_main, iie_altzp_aux, Point
<1> QED
  BY <1>1, <1>2, <1>3, <1>4, <1>5, <1>6 DEF Card

LEMMA LoadTyped ==
    ASSUME TypeInv, NEW n \in 0 .. 13, LoadPointers(n)
    PROVE  /\ softswitches' \subseteq Flags
           /\ base' \in [Regions -> {"main", "aux"}]
           /\ slots' \in [Roms -> {"peripheral", "internal"}]
           /\ lc_rd' \in ReadWindows /\ lc_wrt' \in WriteWindows
<1>1. FileRead(saved) \in ReadWindows /\ FileWrite(saved) \in WriteWindows
  BY DEF TypeInv, FileTypeOK, LoadPointers, FileRead, FileWrite, Decode, DecodeCard, Rom, Nowhere,
         Bank, ReadWindows, WriteWindows
<1>2. lc_rd \in ReadWindows /\ lc_wrt \in WriteWindows
  BY DEF TypeInv, TypeOK, ReadWindows, WriteWindows
<1>3. lc_rd' \in ReadWindows
  BY <1>1, <1>2 DEF LoadPointers, Loaded, FileRead, ReadWindows
<1>4. lc_wrt' \in WriteWindows
  BY <1>1, <1>2 DEF LoadPointers, Loaded, FileWrite, WriteWindows
<1>5. softswitches' \subseteq Flags /\ base' \in [Regions -> {"main", "aux"}]
  BY DEF LoadPointers, Loaded, TypeInv, TypeOK, FileTypeOK
<1>6. slots' \in [Roms -> {"peripheral", "internal"}]
  BY DEF LoadPointers, Loaded, TypeInv, TypeOK, FileTypeOK
<1> QED
  BY <1>3, <1>4, <1>5, <1>6

LEMMA TypeStep ==
    ASSUME TypeInv, [SwitchNext]_ssvars
    PROVE  TypeInv'
<1>1. CASE Access
  <2>1. UNCHANGED files
    BY <1>1, AccessKeepsFiles
  <2>2. Paging \/ Mode \/ Slot \/ Card
    BY <1>1 DEF Access
  <2>3. font' \in {"flash", "mousetext"} /\ scanning' \in BOOLEAN
    BY <2>2 DEF TypeInv, TypeOK, Paging, Mode, Slot, Card, iie_page2_off, iie_page2_on,
          iie_hires_off, iie_hires_on, iie_80store_off, iie_80store_on, iie_ramrd_main,
          iie_ramrd_aux, iie_ramwrt_main, iie_ramwrt_aux, iie_altchar_off, iie_altchar_on,
          IoudisSwitch, ModeSwitch, iie_c3rom_peripheral, iie_c3rom_internal,
          iie_cxrom_peripheral, iie_cxrom_internal, iie_c080, iie_c081, lc_c082, iie_c083,
          _lc_to_auxmem, iie_altzp_main, iie_altzp_aux, OnlyPaging, OnlySlots, Announce
  <2> QED
    BY <2>1, <2>2, <2>3, FlagsTyped, PointersTyped
       DEF TypeInv, TypeOK, FileTypeOK, files, ReadWindows, WriteWindows
<1>2. CASE vm_saveState
  <2>1. /\ Code(lc_rd.d000) \in Int /\ Code(lc_wrt.d000) \in Int
        /\ CardCode(lc_rd.e000) \in {0, 2, 3} /\ CardCode(lc_wrt.e000) \in {0, 2, 3}
    BY DEF TypeInv, TypeOK, Code, CardCode
  <2>2. saved' = StateFile /\ UNCHANGED <<switches, scanning, torn>>
    BY <1>2 DEF vm_saveState
  <2>3. FileTypeOK'
    BY <2>1, <2>2 DEF StateFile, FileTypeOK, TypeInv, TypeOK, Roms
  <2> QED
    BY <2>2, <2>3 DEF TypeInv, TypeOK, switches
<1>3. CASE vm_loadState \/ LoadTorn
  <2>1. \E n \in 0 .. 13 : LoadPointers(n)
    BY <1>3, WholeFile DEF vm_loadState, LoadTorn
  <2>2. saved' = saved /\ font' = font /\ scanning' = TRUE /\ torn' \in BOOLEAN
    BY <1>3 DEF vm_loadState, LoadTorn, LoadPointers, Announce
  <2> QED
    BY <2>1, <2>2, LoadTyped DEF TypeInv, TypeOK, FileTypeOK, ReadWindows, WriteWindows
<1>4. CASE vm_initialize
  BY <1>4, WindowTypes DEF TypeInv, TypeOK, FileTypeOK, vm_initialize, ResetSwitches, Announce,
        ReadWindows, WriteWindows, Flags, Modes
<1>5. CASE FrameComplete \/ VideoWrite \/ UNCHANGED ssvars
  BY <1>5 DEF TypeInv, TypeOK, FileTypeOK, FrameComplete, VideoWrite, Announce, ssvars, switches, files
<1> QED
  BY <1>1, <1>2, <1>3, <1>4, <1>5 DEF SwitchNext, State

LEMMA TypeInit == SwitchInit => TypeInv
<1> SUFFICES ASSUME SwitchInit PROVE TypeInv
  OBVIOUS
<1>1. softswitches \subseteq Flags
  BY DEF SwitchInit, ResetSwitches, Flags, Modes
<1>2. /\ base \in [Regions -> {"main", "aux"}]
      /\ slots \in [Roms -> {"peripheral", "internal"}]
  BY DEF SwitchInit, ResetSwitches
<1>3. lc_rd \in ReadWindows /\ lc_wrt \in WriteWindows
  BY WindowTypes DEF SwitchInit, ResetSwitches
<1> QED
  BY <1>1, <1>2, <1>3 DEF SwitchInit, TypeInv, TypeOK, FileTypeOK, ReadWindows, WriteWindows

\* Every reachable machine is well typed, one with a torn load included: the card is never
\* read from nowhere, and never written to ROM.
THEOREM TypeCorrect == SwitchSpec => []TypeOK
<1>1. TypeInv => TypeOK
  BY DEF TypeInv
<1> QED
  BY <1>1, TypeInit, TypeStep, PTL DEF SwitchSpec

\* A state saved at any time and loaded at once brings back every pointer, those that the file
\* does not have included, and none of the assertions of vm_saveState() fails.
THEOREM SavedStateIsExact == SwitchSpec => []RoundTrip
<1>1. SwitchInit => TypeInv /\ SlotInv /\ CardInv
  <2>1. SwitchInit => SlotInv
    BY DEF SwitchInit, ResetSwitches, SlotInv, SlotRoms, SlotRom, On
  <2>2. SwitchInit => CardInv
    BY DEF SwitchInit, ResetSwitches, CardInv, WindowsOK, FlagsInv, FlagsOK, Pseudo, PageRead,
           HgrStored
  <2> QED
    BY <2>1, <2>2, TypeInit
<1>2. TypeInv /\ SlotInv /\ CardInv /\ [SwitchNext]_ssvars => TypeInv' /\ SlotInv' /\ CardInv'
  BY TypeStep, SlotStep, CardStep
<1>3. TypeInv /\ SlotInv /\ CardInv => RoundTrip
  <2> SUFFICES ASSUME TypeInv, SlotInv, CardInv, ~torn
               PROVE  /\ Representable
                      /\ LET l == Loaded(StateFile, Len(FileOrder))
                         IN  l.base = base /\ l.slots = slots /\ l.lc_rd = lc_rd /\ l.lc_wrt = lc_wrt
    BY DEF RoundTrip
  <2> DEFINE l == Loaded(StateFile, Len(FileOrder))
  <2>1. Representable /\ FileRead(StateFile) = lc_rd /\ FileWrite(StateFile) = lc_wrt
    BY CodesAreExact DEF CardInv, Representable, StateFile, FileRead, FileWrite
  <2>2. l.lc_rd = lc_rd /\ l.lc_wrt = lc_wrt
    BY <2>1, WholeLoad
  <2>3. base \in [Regions -> {"main", "aux"}] /\ slots \in [Roms -> {"peripheral", "internal"}]
    BY DEF TypeInv, TypeOK
  <2>4. l.base = base
    <3>1. l.base = [r \in Regions |-> base[r]]
      BY WholeFile DEF Loaded, StateFile
    <3> QED
      BY <2>3, <3>1
  <2>5. l.slots = slots
    <3>1. \A r \in Roms : slots[r] = SlotRom(softswitches, r)
      BY DEF SlotInv, SlotRoms, SlotRom, On
    <3>2. slots["c4rom"] = slots["cxrom"] /\ slots["c5rom"] = slots["cxrom"]
      BY <3>1 DEF SlotRom, Roms
    <3>3. l.slots = [r \in Roms |-> IF r = "c3rom" THEN slots["c3rom"] ELSE slots["cxrom"]]
      BY WholeFile DEF Loaded, StateFile, Roms
    <3> QED
      BY <2>3, <3>2, <3>3 DEF Roms
  <2> QED
    BY <2>1, <2>2, <2>4, <2>5
<1> QED
  BY <1>1, <1>2, <1>3, PTL DEF SwitchSpec

------------------------------------------------------------------------------
(* The screen follows video memory, for every order of writes, switches,    *)
(* loads and resets.                                                        *)

\* Writes and flashing text only announce the screen to the switches: video memory is an
\* environment that SoftSwitches allows for, so that its theorems hold here.
THEOREM VideoSwitches == VideoSpec => SwitchSpec
<1>1. VideoInit => SwitchInit
  BY DEF VideoInit
<1>2. [VideoNext]_vmvars => [SwitchNext]_ssvars
  <2>1. CASE Switch
    BY <2>1 DEF Switch, SwitchNext
  <2>2. CASE Redrawn
    BY <2>2 DEF Redrawn, SwitchNext
  <2>3. CASE FlashFrame
    BY <2>3 DEF FlashFrame, SwitchNext
  <2>4. ASSUME NEW area, NEW page, NEW rows, Write(area, page, rows)
        PROVE  [SwitchNext]_ssvars
    BY <2>4 DEF Write, SwitchNext, VideoWrite, ssvars, switches, files
  <2>5. CASE UNCHANGED vmvars
    BY <2>5 DEF vmvars
  <2> QED
    BY <2>1, <2>2, <2>3, <2>4, <2>5 DEF VideoNext
<1> QED
  BY <1>1, <1>2, PTL DEF VideoSpec, SwitchSpec

-----------------------------------------------------------------------------
(* Switches                                                                 *)

\* The flags that the plotters and the write handlers read.
VideoFlags == {"TEXT", "MIXED", "80COL", "DHIRES", "HIRES", "PAGE2", "80STORE"}

\* The screen is as it was.
Quiet == softswitches' \cap VideoFlags = softswitches \cap VideoFlags
         /\ UNCHANGED <<scanning, torn, font>>

\* A switch that is not announced leaves what the screen shows alone.
LEMMA SwitchAnnounces ==
    ASSUME Access \/ State \/ vm_initialize
    PROVE  scanning' = TRUE \/ Quiet
<1>1. CASE Paging
  <2>1. CASE iie_ramwrt_main \/ iie_ramwrt_aux
    BY <2>1 DEF iie_ramwrt_main, iie_ramwrt_aux, Followers, Set, OnlyPaging, files, Quiet, VideoFlags
  <2> QED
    BY <1>1, <2>1 DEF Paging, Announce, iie_page2_off, iie_page2_on, iie_hires_off, iie_hires_on,
          iie_80store_off, iie_80store_on, iie_ramrd_main, iie_ramrd_aux
<1>2. CASE Mode
  <2>1. CASE IoudisSwitch
    BY <2>1 DEF IoudisSwitch, Set, OnlyPaging, files, Quiet, VideoFlags
  <2> QED
    BY <1>2, <2>1 DEF Mode, Announce, iie_altchar_off, iie_altchar_on, ModeSwitch
<1>3. CASE Slot
  BY <1>3 DEF Slot, iie_c3rom_peripheral, iie_c3rom_internal, iie_cxrom_peripheral,
        iie_cxrom_internal, Set, OnlySlots, files, Quiet, VideoFlags
<1>4. CASE Card
  <2>1. ASSUME NEW b \in {0, 1}, iie_c080(b) \/ iie_c081(b) \/ lc_c082(b) \/ iie_c083(b)
        PROVE  Quiet
    BY <2>1 DEF iie_c080, iie_c081, lc_c082, iie_c083, _lc_to_auxmem, Others, CardFlags, BankFlag,
          Armed, files, Quiet, VideoFlags
  <2>2. CASE iie_altzp_main \/ iie_altzp_aux
    BY <2>2 DEF iie_altzp_main, iie_altzp_aux, Set, files, Quiet, VideoFlags
  <2> QED
    BY <1>4, <2>1, <2>2 DEF Card
<1>5. CASE State
  BY <1>5 DEF State, vm_saveState, vm_loadState, LoadTorn, LoadPointers, Announce, switches, Quiet
<1>6. CASE vm_initialize
  BY <1>6 DEF vm_initialize, Announce
<1> QED
  BY <1>1, <1>2, <1>3, <1>4, <1>5, <1>6 DEF Access

\* What the screen shows is a function of the video flags.
LEMMA QuietPicture ==
    ASSUME Quiet
    PROVE  /\ Picture' = Picture
           /\ watched' = watched => (Plotted(watched)' <=> Plotted(watched))
           /\ watched' = watched => (Unannounced' <=> Unannounced)
<1>1. \A s \in VideoFlags : On(s)' <=> On(s)
  BY DEF Quiet, On
<1>2. video_currentPage' = video_currentPage
  BY <1>1 DEF video_currentPage, VideoFlags
<1>3. softswitches' \cap (Modes \cup {"HIRES"}) = softswitches \cap (Modes \cup {"HIRES"})
  BY DEF Quiet, Modes, VideoFlags
<1>4. watched' = watched => (Plotted(watched)' <=> Plotted(watched))
  BY <1>1, <1>2 DEF Plotted, Characters, video_currentMainMode, video_currentMixedMode, VideoFlags
<1>5. watched' = watched => (Unannounced' <=> Unannounced)
  BY <1>1 DEF Unannounced, AuxThroughPage2, SharedWithText, VideoFlags
<1> QED
  BY <1>2, <1>3, <1>4, <1>5 DEF Picture, Quiet

-----------------------------------------------------------------------------
(* Writes                                                                   *)

\* A write that is not announced, to a displayed cell, is one of the two kinds.
LEMMA WriteAnnounces ==
    ASSUME NEW area \in {"text", "hgr"}, NEW page \in {0, 1},
           NEW rows \in {"upper", "shared", "lower"},
           ~torn, RamPointers, DerivedFlags,
           ~(HandlerMode(rows) = area /\ Watches(page)),
           watched = [area |-> area, page |-> page, rows |-> rows, card |-> Target(area, page)],
           Plotted(watched)
    PROVE  Unannounced
<1>1. /\ watched.area = area /\ watched.page = page /\ watched.rows = rows
      /\ watched.card = Target(area, page)
  OBVIOUS
<1>2. CASE ~Watches(page)
  <2>1. page = 0 /\ On("PAGE2") /\ On("80STORE")
    BY <1>1, <1>2 DEF Watches, Plotted, video_currentPage
  <2>2. area = "hgr" => On("HIRES")
    BY <1>1 DEF Plotted, video_currentMainMode, video_currentMixedMode
  <2>3. On("TEXTWRT") /\ (area = "hgr" => On("HGRWRT"))
    BY <2>1, <2>2 DEF DerivedFlags, Pseudo, PageRead, On
  <2>4. Target(area, page) = "aux"
    BY <2>1, <2>3 DEF Target, RamPointers, Regions, Text, Hgr
  <2> QED
    BY <1>1, <2>1, <2>4 DEF Unannounced, AuxThroughPage2
<1>3. CASE HandlerMode(rows) # area
  <2>1. rows = "shared" /\ video_currentMainMode = area /\ video_currentMixedMode # area
    BY <1>1, <1>3 DEF HandlerMode, Plotted
  <2> QED
    BY <1>1, <2>1 DEF video_currentMainMode, video_currentMixedMode, Unannounced, SharedWithText
<1> QED
  BY <1>2, <1>3

-----------------------------------------------------------------------------
\* Once a redraw is over every displayed cell is shown as it is in memory, but for the two
\* kinds of writes that the handlers do not announce.
THEOREM ScreenShowsMemory == VideoSpec => []ScreenFollowsMemory
<1>1. VideoInit => ScreenFollowsMemory
  BY DEF VideoInit, SwitchInit, ScreenFollowsMemory
<1>2. ASSUME RamPointers, DerivedFlags, ScreenFollowsMemory, [VideoNext]_vmvars
      PROVE  ScreenFollowsMemory'
  <2> SUFFICES ASSUME ~scanning', ~torn', stale', Plotted(watched)'
               PROVE  Unannounced'
    BY DEF ScreenFollowsMemory
  <2>1. CASE Switch
    <3>1. Quiet /\ watched' = watched
      BY <2>1, SwitchAnnounces DEF Switch
    <3>2. stale /\ ~scanning /\ ~torn /\ Plotted(watched)
      BY <2>1, <3>1, QuietPicture DEF Switch, Quiet
    <3> QED
      BY <1>2, <3>1, <3>2, QuietPicture DEF ScreenFollowsMemory
  <2>2. CASE Redrawn
    BY <2>2 DEF Redrawn
  <2>3. CASE FlashFrame
    BY <2>3 DEF FlashFrame, VideoWrite, Announce
  <2>4. ASSUME NEW area \in {"text", "hgr"}, NEW page \in {0, 1},
               NEW rows \in {"upper", "shared", "lower"}, Write(area, page, rows)
        PROVE  Unannounced'
    <3>1. UNCHANGED <<softswitches, scanning, torn, font, watched>>
      BY <2>4 DEF Write, Announce, switches, files
    <3>2. Quiet
      BY <3>1 DEF Quiet
    <3>3. ~scanning /\ ~torn /\ Plotted(watched)
      BY <3>1, <3>2, QuietPicture
    <3>4. CASE stale
      BY <1>2, <3>1, <3>2, <3>3, <3>4, QuietPicture DEF ScreenFollowsMemory
    <3>5. CASE ~stale
      <4>1. watched = [area |-> area, page |-> page, rows |-> rows, card |-> Target(area, page)]
        BY <2>4, <3>5 DEF Write
      <4>2. ~(HandlerMode(rows) = area /\ Watches(page))
        BY <2>4 DEF Write, Announce
      <4> QED
        BY <1>2, <3>1, <3>2, <3>3, <4>1, <4>2, WriteAnnounces, QuietPicture
    <3> QED
      BY <3>4, <3>5
  <2>5. CASE UNCHANGED vmvars
    <3>1. Quiet /\ UNCHANGED <<watched, stale>>
      BY <2>5 DEF vmvars, ssvars, switches, files, Quiet
    <3> QED
      BY <1>2, <3>1, QuietPicture DEF ScreenFollowsMemory, Quiet
  <2> QED
    BY <1>2, <2>1, <2>2, <2>3, <2>4, <2>5 DEF VideoNext
<1> QED
  BY <1>1, <1>2, VideoSwitches, PointersFollowFlags, PseudoSwitches, PTL DEF VideoSpec
==============================================================================
