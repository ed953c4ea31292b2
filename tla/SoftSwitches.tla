----------------------------- MODULE SoftSwitches -----------------------------
(***************************************************************************)
(* The //e soft switches (src/src/vm.c): the flags a program reads back    *)
(* and the base pointers through which the 6502 core reads and writes each *)
(* switched region of the address space.                                   *)
(*                                                                         *)
(* Every handler updates the flags and the pointers separately, from the   *)
(* flags it finds: the pointers are a cache of a function of the flags.    *)
(* vm_saveState() stores both.  A handler that finds its switch already    *)
(* thrown returns at once and is no step here.                             *)
(***************************************************************************)
EXTENDS Integers, Sequences

CONSTANT Groups     \* the switches thrown in this instance

AllGroups == {"mode", "paging", "card", "slots", "state", "torn"}

ASSUME GroupsAssumption == Groups \subseteq AllGroups

VARIABLES
    softswitches,   \* the SS_ flags that are set
    base,           \* main or auxiliary RAM behind each region, by its flag
    slots,          \* what is read at $C3xx, $C4xx, $C5xx and $C1xx-$C7xx
    lc_rd,          \* base_d000_rd and base_e000_rd
    lc_wrt,         \* base_d000_wrt and base_e000_wrt
    font,           \* the glyphs display_loadFont() put at $40-$7F
    scanning,       \* cyclesDirty > 0: the scanner will redraw the screen
    saved,          \* a state file, or NoState
    torn            \* a load stopped in the middle of the file

switches == <<softswitches, base, slots, lc_rd, lc_wrt, font>>
files    == <<saved, torn>>
ssvars   == <<switches, scanning, files>>

Text == {"TEXTRD", "TEXTWRT"}
Hgr  == {"HGRRD", "HGRWRT"}
Ram  == {"RAMRD", "RAMWRT"}

\* base["TEXTRD"] is base_textrd, ..., base["ALTZP"] is base_stackzp.
Regions == Text \cup Hgr \cup Ram \cup {"ALTZP"}
Roms    == {"c3rom", "c4rom", "c5rom", "cxrom"}
Modes   == {"TEXT", "MIXED", "80COL", "DHIRES"}
Flags   == Regions \cup Modes
           \cup {"HIRES", "PAGE2", "80STORE", "SCREEN", "BANK2", "LCRAM", "LCSEC", "LCWRT",
                 "IOUDIS", "CXROM", "C3ROM", "ALTCHAR"}

\* Pointers to what is mapped at $D000: Bank(n) is language_banks[0] - 0xD000 + n * 0x1000,
\* so that 0 and 1 are the banks of the main card and 2 and 3 those of the auxiliary card.
Rom      == [to |-> "rom", at |-> 0]
Nowhere  == [to |-> "none", at |-> 0]
Bank(n)  == [to |-> "banks", at |-> n]
Shift(p, n) == [p EXCEPT !.at = @ + n]

\* The two windows of the language card, read or written together.
RomWindow     == [d000 |-> Rom, e000 |-> "rom"]
NoWindow      == [d000 |-> Nowhere, e000 |-> "none"]
MainWindow(b) == [d000 |-> Bank(b), e000 |-> "main"]
ToAux(w)      == [d000 |-> Shift(w.d000, 2), e000 |-> "aux"]
ToMain(w)     == [d000 |-> Shift(w.d000, -2), e000 |-> "main"]

NoState == [softswitches |-> {}]

On(s) == s \in softswitches

-----------------------------------------------------------------------------
(* Steps of the handlers                                                    *)

\* Set flags after clearing others; point regions at auxiliary or at main RAM.
Set(on, off) == softswitches' = (softswitches \ off) \cup on
Point(aux, main) ==
    base' = [r \in Regions |-> IF r \in aux THEN "aux" ELSE IF r \in main THEN "main" ELSE base[r]]

\* video_setDirty(A2_DIRTY_FLAG)
Announce == scanning' = TRUE

\* Graphics and RAM switches leave the slots, the language card and the font alone.
OnlyPaging == UNCHANGED <<slots, lc_rd, lc_wrt, font, files>>

\* The regions that 80STORE hands to PAGE2, and those that follow RAMRD and RAMWRT.
Stored == IF On("HIRES") THEN Text \cup Hgr ELSE Text

FromRam(rd, wrt) == (IF On("RAMRD") THEN rd ELSE {}) \cup (IF On("RAMWRT") THEN wrt ELSE {})

iie_page2_off ==
    LET routed == IF On("80STORE") THEN Stored ELSE {}
    IN  /\ On("PAGE2")
        /\ Set({}, {"PAGE2", "SCREEN"} \cup routed) /\ Point({}, routed)
        /\ Announce /\ OnlyPaging

iie_page2_on ==
    LET routed == IF On("80STORE") THEN Stored ELSE {}
        screen == IF On("80STORE") THEN {} ELSE {"SCREEN"}
    IN  /\ ~On("PAGE2")
        /\ Set({"PAGE2"} \cup routed \cup screen, {}) /\ Point(routed, {})
        /\ Announce /\ OnlyPaging

\* mutation of iie_hires_off: the pointers do not follow RAMRD and RAMWRT.
HiresOffUnrouted ==
    /\ On("HIRES")
    /\ Set(FromRam({"HGRRD"}, {"HGRWRT"}), {"HIRES"} \cup Hgr) /\ Point({}, Hgr)
    /\ Announce /\ OnlyPaging

iie_hires_off ==
    LET aux == FromRam({"HGRRD"}, {"HGRWRT"})
    IN  /\ On("HIRES")
        /\ Set(aux, {"HIRES"} \cup Hgr) /\ Point(aux, Hgr)
        /\ Announce /\ OnlyPaging

iie_hires_on ==
    LET routed == IF On("80STORE") THEN Hgr ELSE {}
    IN  /\ ~On("HIRES")
        /\ \/ On("PAGE2") /\ Set({"HIRES"} \cup routed, {}) /\ Point(routed, {})
           \/ ~On("PAGE2") /\ Set({"HIRES"}, routed) /\ Point({}, routed)
        /\ Announce /\ OnlyPaging

iie_80store_off ==
    LET aux == FromRam({"TEXTRD", "HGRRD"}, {"TEXTWRT", "HGRWRT"})
        screen == IF On("PAGE2") THEN {"SCREEN"} ELSE {}
    IN  /\ On("80STORE")
        /\ Set(aux \cup screen, {"80STORE"} \cup Text \cup Hgr) /\ Point(aux, Text \cup Hgr)
        /\ Announce /\ OnlyPaging

iie_80store_on ==
    /\ ~On("80STORE")
    /\ \/ On("PAGE2") /\ Set({"80STORE"} \cup Stored, {"SCREEN"}) /\ Point(Stored, {})
       \/ ~On("PAGE2") /\ Set({"80STORE"}, {"SCREEN"} \cup Stored) /\ Point({}, Stored)
    /\ Announce /\ OnlyPaging

\* The display regions that follow RAMRD (or RAMWRT) under the present switches.
Followers(text, hgr) ==
    IF ~On("80STORE") THEN {text, hgr} ELSE IF On("HIRES") THEN {} ELSE {hgr}

iie_ramrd_main ==
    LET moved == {"RAMRD"} \cup Followers("TEXTRD", "HGRRD")
    IN  On("RAMRD") /\ Set({}, moved) /\ Point({}, moved) /\ Announce /\ OnlyPaging

iie_ramrd_aux ==
    LET moved == {"RAMRD"} \cup Followers("TEXTRD", "HGRRD")
    IN  ~On("RAMRD") /\ Set(moved, {}) /\ Point(moved, {}) /\ Announce /\ OnlyPaging

iie_ramwrt_main ==
    LET moved == {"RAMWRT"} \cup Followers("TEXTWRT", "HGRWRT")
    IN  On("RAMWRT") /\ Set({}, moved) /\ Point({}, moved) /\ OnlyPaging /\ UNCHANGED scanning

iie_ramwrt_aux ==
    LET moved == {"RAMWRT"} \cup Followers("TEXTWRT", "HGRWRT")
    IN  ~On("RAMWRT") /\ Set(moved, {}) /\ Point(moved, {}) /\ OnlyPaging /\ UNCHANGED scanning

-----------------------------------------------------------------------------
(* Video modes, and the character set                                       *)

\* read_switch_text() and its like: one flag, and the screen is announced.
ModeSwitch(s) ==
    /\ IF On(s) THEN Set({}, {s}) ELSE Set({s}, {})
    /\ Announce /\ OnlyPaging /\ UNCHANGED base

iie_altchar_off ==
    /\ On("ALTCHAR") /\ Set({}, {"ALTCHAR"}) /\ font' = "flash"
    /\ Announce /\ UNCHANGED <<base, slots, lc_rd, lc_wrt, files>>

iie_altchar_on ==
    /\ ~On("ALTCHAR") /\ Set({"ALTCHAR"}, {}) /\ font' = "mousetext"
    /\ Announce /\ UNCHANGED <<base, slots, lc_rd, lc_wrt, files>>

\* Writing $C07E and $C07F.
IoudisSwitch ==
    /\ IF On("IOUDIS") THEN Set({}, {"IOUDIS"}) ELSE Set({"IOUDIS"}, {})
    /\ OnlyPaging /\ UNCHANGED <<base, scanning>>

-----------------------------------------------------------------------------
(* Slot ROMs                                                                *)

\* What a slot switch leaves alone.
OnlySlots == UNCHANGED <<base, lc_rd, lc_wrt, font, scanning, files>>

MapSlots(roms, card) == slots' = [r \in Roms |-> IF r \in roms THEN card ELSE slots[r]]

iie_c3rom_peripheral ==
    /\ Set({}, {"C3ROM"}) /\ OnlySlots
    /\ MapSlots(IF On("CXROM") THEN {} ELSE {"c3rom"}, "peripheral")

iie_c3rom_internal == Set({"C3ROM"}, {}) /\ MapSlots({"c3rom"}, "internal") /\ OnlySlots

iie_cxrom_peripheral ==
    /\ Set({}, {"CXROM"}) /\ OnlySlots
    /\ MapSlots(IF On("C3ROM") THEN Roms \ {"c3rom"} ELSE Roms, "peripheral")

iie_cxrom_internal == Set({"CXROM"}, {}) /\ MapSlots(Roms, "internal") /\ OnlySlots

-----------------------------------------------------------------------------
(* The language card                                                        *)

\* A handler of $C080-$C08F ends with new flags and windows on the main card;
\* _lc_to_auxmem() then moves the windows that are on the card under ALTZP.
_lc_to_auxmem(flags, rd, wrt) ==
    /\ softswitches' = flags
    /\ lc_rd'  = IF {"ALTZP", "LCRAM"} \subseteq flags THEN ToAux(rd) ELSE rd
    /\ lc_wrt' = IF {"ALTZP", "LCWRT"} \subseteq flags THEN ToAux(wrt) ELSE wrt
    /\ UNCHANGED <<base, slots, font, scanning, files>>

CardFlags == {"LCRAM", "LCWRT", "LCSEC", "BANK2"}
BankFlag(b) == IF b = 0 THEN {"BANK2"} ELSE {}
Others(b) == (softswitches \ CardFlags) \cup BankFlag(b)

\* Each operator is a pair of addresses: b = 0 is $C080-$C083, b = 1 is $C088-$C08B.
iie_c080(b) == _lc_to_auxmem(Others(b) \cup {"LCRAM"}, MainWindow(b), NoWindow)

lc_c082(b) == _lc_to_auxmem(Others(b), RomWindow, NoWindow)

\* Writing is enabled, or moved to the other bank, only if LCSEC was already set; the
\* LCWRT flag of an earlier access stays.
Armed == IF On("LCSEC") THEN {"LCWRT"} ELSE softswitches \cap {"LCWRT"}
WriteWindow(b) == IF On("LCSEC") THEN MainWindow(b) ELSE lc_wrt

iie_c081(b) == _lc_to_auxmem(Others(b) \cup {"LCSEC"} \cup Armed, RomWindow, WriteWindow(b))

iie_c083(b) ==
    _lc_to_auxmem(Others(b) \cup {"LCSEC", "LCRAM"} \cup Armed, MainWindow(b), WriteWindow(b))

\* ALTZP moves zero page and stack, and the windows that are on the card.
iie_altzp_main ==
    /\ On("ALTZP") /\ Set({}, {"ALTZP"}) /\ Point({}, {"ALTZP"})
    /\ lc_rd'  = IF On("LCRAM") THEN ToMain(lc_rd) ELSE lc_rd
    /\ lc_wrt' = IF On("LCWRT") THEN ToMain(lc_wrt) ELSE lc_wrt
    /\ UNCHANGED <<slots, font, scanning, files>>

\* mutation of iie_altzp_aux: the test that vm.c:771 calls needed is dropped.
AltzpAgain ==
    /\ Set({"ALTZP"}, {}) /\ Point({"ALTZP"}, {})
    /\ lc_rd'  = IF On("LCRAM") THEN ToAux(lc_rd) ELSE lc_rd
    /\ lc_wrt' = IF On("LCWRT") THEN ToAux(lc_wrt) ELSE lc_wrt
    /\ UNCHANGED <<slots, font, scanning, files>>

iie_altzp_aux ==
    /\ ~On("ALTZP") /\ Set({"ALTZP"}, {}) /\ Point({"ALTZP"}, {})
    /\ lc_rd'  = IF On("LCRAM") THEN ToAux(lc_rd) ELSE lc_rd
    /\ lc_wrt' = IF On("LCWRT") THEN ToAux(lc_wrt) ELSE lc_wrt
    /\ UNCHANGED <<slots, font, scanning, files>>

-----------------------------------------------------------------------------
(* Reset, and the state file                                                *)

\* _initialize_iie_switches(): the write windows are open although LCWRT is clear.
ResetSwitches ==
    [softswitches |-> {"TEXT", "BANK2"}, base |-> [r \in Regions |-> "main"],
     slots |-> [r \in Roms |-> "peripheral"], lc_rd |-> RomWindow, lc_wrt |-> MainWindow(0)]

\* vm_initialize() within reinitialize(), which also resets the video scanner.
vm_initialize ==
    /\ softswitches' = ResetSwitches.softswitches /\ base' = ResetSwitches.base
    /\ slots' = ResetSwitches.slots
    /\ lc_rd' = ResetSwitches.lc_rd /\ lc_wrt' = ResetSwitches.lc_wrt
    /\ font' = "flash" /\ Announce /\ torn' = FALSE /\ UNCHANGED saved

\* The byte written for each pointer, and what vm_loadState() makes of it.
Code(p) == IF p \in {Rom, Nowhere} THEN 0 ELSE p.at + 2

\* mutation of CardCode: the auxiliary card gets the code of the main one.
CardCodeShared(place) == IF place \in {"rom", "none"} THEN 0 ELSE 2

CardCode(place) == CASE place \in {"rom", "none"} -> 0 [] place = "main" -> 2 [] place = "aux" -> 3

Decode(code, zero) == IF code = 0 THEN zero ELSE Bank(code - 2)
DecodeCard(code, zero) == CASE code = 0 -> zero [] code = 2 -> "main" [] code = 3 -> "aux"

\* vm_saveState() asserts that every pointer is one it has a code for.
Banks == {Bank(n) : n \in 0 .. 3}
Representable == lc_rd.d000 \in {Rom} \cup Banks /\ lc_wrt.d000 \in {Nowhere} \cup Banks

StateFile ==
    [softswitches |-> softswitches, base |-> base,
     c3rom |-> slots["c3rom"], cxrom |-> slots["cxrom"],
     rd |-> [d000 |-> Code(lc_rd.d000), e000 |-> CardCode(lc_rd.e000)],
     wrt |-> [d000 |-> Code(lc_wrt.d000), e000 |-> CardCode(lc_wrt.e000)]]

\* The bound on state files: none is taken of a torn machine, which SaveAssertion is about.
vm_saveState ==
    ~torn /\ Representable /\ saved' = StateFile /\ UNCHANGED <<switches, scanning, torn>>

\* The pointers that vm_loadState() reads, in the order of the file.
FileOrder == <<"RAMRD", "RAMWRT", "TEXTRD", "TEXTWRT", "HGRRD", "HGRWRT", "ALTZP",
               "c3rom", "cxrom", "d000_rd", "d000_wrt", "e000_rd", "e000_wrt">>

\* The pointers after the first n of them were read from file f.
Loaded(f, n) ==
    LET read == {FileOrder[i] : i \in 1 .. n}
        slot(r) == IF r = "c3rom" THEN "c3rom" ELSE "cxrom"
        window(old, new, d000, e000) == [d000 |-> IF d000 \in read THEN new.d000 ELSE old.d000,
                                         e000 |-> IF e000 \in read THEN new.e000 ELSE old.e000]
    IN  [base |-> [r \in Regions |-> IF r \in read THEN f.base[r] ELSE base[r]],
         slots |-> [r \in Roms |-> IF slot(r) \in read THEN f[slot(r)] ELSE slots[r]],
         lc_rd |-> window(lc_rd, [d000 |-> Decode(f.rd.d000, Rom),
                                  e000 |-> DecodeCard(f.rd.e000, "rom")], "d000_rd", "e000_rd"),
         lc_wrt |-> window(lc_wrt, [d000 |-> Decode(f.wrt.d000, Nowhere),
                                    e000 |-> DecodeCard(f.wrt.e000, "none")], "d000_wrt", "e000_wrt")]

\* The flags come first; a file that ends after n pointers leaves the rest as they were.
\* The pause that surrounds a load ends with cpu_resume(), which announces the screen.
LoadPointers(n) ==
    LET l == Loaded(saved, n)
    IN  /\ saved # NoState
        /\ softswitches' = saved.softswitches
        /\ base' = l.base /\ slots' = l.slots /\ lc_rd' = l.lc_rd /\ lc_wrt' = l.lc_wrt
        /\ Announce /\ UNCHANGED <<font, saved>>

vm_loadState == LoadPointers(Len(FileOrder)) /\ torn' = FALSE

\* One torn load at most before a reset or a complete load: the bound on how far the
\* pointers can drift.
LoadTorn == ~torn /\ torn' = TRUE /\ \E n \in 0 .. Len(FileOrder) - 1 : LoadPointers(n)

-----------------------------------------------------------------------------

\* The scanner has redrawn a whole frame: video_clearDirty(A2_DIRTY_FLAG).
FrameComplete == scanning /\ scanning' = FALSE /\ UNCHANGED <<switches, files>>

\* A write to video memory, or text that flashes: the screen is announced.
VideoWrite == Announce /\ UNCHANGED <<switches, files>>

Paging == \/ iie_page2_off \/ iie_page2_on \/ iie_hires_off \/ iie_hires_on
          \/ iie_80store_off \/ iie_80store_on
          \/ iie_ramrd_main \/ iie_ramrd_aux \/ iie_ramwrt_main \/ iie_ramwrt_aux
Mode   == \/ iie_altchar_off \/ iie_altchar_on \/ IoudisSwitch
          \/ \E s \in Modes : ModeSwitch(s)
Slot   == \/ iie_c3rom_peripheral \/ iie_c3rom_internal
          \/ iie_cxrom_peripheral \/ iie_cxrom_internal
Card   == \/ \E b \in {0, 1} : iie_c080(b) \/ iie_c081(b) \/ lc_c082(b) \/ iie_c083(b)
          \/ iie_altzp_main \/ iie_altzp_aux

\* read_softswitch() and write_softswitch()
Access ==
    \E g \in Groups : CASE g = "paging" -> Paging
                        [] g = "mode"   -> Mode
                        [] g = "slots"  -> Slot
                        [] g = "card"   -> Card
                        [] OTHER        -> FALSE
State  == \/ "state" \in Groups /\ (vm_saveState \/ vm_loadState)
          \/ "torn" \in Groups /\ LoadTorn

SwitchInit ==
    /\ softswitches = ResetSwitches.softswitches /\ base = ResetSwitches.base
    /\ slots = ResetSwitches.slots
    /\ lc_rd = ResetSwitches.lc_rd /\ lc_wrt = ResetSwitches.lc_wrt
    /\ font = "flash" /\ scanning = TRUE /\ saved = NoState /\ torn = FALSE

SwitchNext == Access \/ State \/ vm_initialize \/ VideoWrite \/ FrameComplete

SwitchSpec == SwitchInit /\ [][SwitchNext]_ssvars

-----------------------------------------------------------------------------
(* Properties                                                               *)

\* The flags are SS_ flags, and every pointer leads where its region can be mapped: reads of
\* the card never from nowhere, writes never to ROM.
TypeOK ==
    /\ softswitches \subseteq Flags
    /\ base \in [Regions -> {"main", "aux"}]
    /\ slots \in [Roms -> {"peripheral", "internal"}]
    /\ lc_rd \in [d000 : [to : {"rom", "banks"}, at : Int], e000 : {"rom", "main", "aux"}]
    /\ lc_wrt \in [d000 : [to : {"none", "banks"}, at : Int], e000 : {"none", "main", "aux"}]
    /\ font \in {"flash", "mousetext"}
    /\ scanning \in BOOLEAN /\ torn \in BOOLEAN

\* The pseudo soft switches of vm.h:194-203, as functions of the real ones.
PageRead(f)   == "PAGE2" \in f /\ "80STORE" \in f
HgrStored(f)  == "80STORE" \in f /\ "HIRES" \in f
Pseudo(f) ==
    /\ "SCREEN" \in f <=> "PAGE2" \in f /\ "80STORE" \notin f
    /\ "TEXTRD" \in f <=> PageRead(f) \/ ("RAMRD" \in f /\ "80STORE" \notin f)
    /\ "TEXTWRT" \in f <=> PageRead(f) \/ ("RAMWRT" \in f /\ "80STORE" \notin f)
    /\ "HGRRD" \in f <=> (PageRead(f) /\ "HIRES" \in f) \/ ("RAMRD" \in f /\ ~HgrStored(f))
    /\ "HGRWRT" \in f <=> (PageRead(f) /\ "HIRES" \in f) \/ ("RAMWRT" \in f /\ ~HgrStored(f))

\* After any sequence of accesses the flags that the handlers maintain step by step have the
\* values that vm.h defines them by, whatever the order in which PAGE2, 80STORE, HIRES, RAMRD
\* and RAMWRT were thrown.
DerivedFlags == Pseudo(softswitches)

\* Each RAM region is read and written where its flag says, so that what the debugger and the
\* state file show of a switch is what the 6502 core does.
RamPointers == ~torn => \A r \in Regions : base[r] = IF On(r) THEN "aux" ELSE "main"

\* The windows that the language card flags call for.
CardBank(f) == (IF "BANK2" \in f THEN 0 ELSE 1) + (IF "ALTZP" \in f THEN 2 ELSE 0)
CardWindow(f) == [d000 |-> Bank(CardBank(f)), e000 |-> IF "ALTZP" \in f THEN "aux" ELSE "main"]

\* $D000-$FFFF is read from and written to the bank that LCRAM, LCWRT, BANK2 and ALTZP call
\* for: the pointers that iie_altzp_main() and _lc_to_auxmem() move by differences never
\* drift. Until the first access that settles it, the write window left open by a reset stays.
CardPointers ==
    ~torn => /\ lc_rd = IF On("LCRAM") THEN CardWindow(softswitches) ELSE RomWindow
             /\ On("LCWRT") => lc_wrt = CardWindow(softswitches)
             /\ ~On("LCWRT") => lc_wrt \in {NoWindow, MainWindow(0)}

\* Writes to the card are enabled only after an access that left LCSEC set, which a handler
\* that closes the write window clears: LCWRT never outlives LCSEC, without which iie_c081()
\* would keep the old window and move it a second time.
WriteNeedsAccess == On("LCWRT") => On("LCSEC")

\* $C3xx, $C4xx and the other slots are read from the ROM that CXROM and C3ROM call for.
SlotRoms ==
    ~torn => \A r \in Roms :
        slots[r] = IF On("CXROM") \/ (r = "c3rom" /\ On("C3ROM")) THEN "internal" ELSE "peripheral"

\* A state saved now and loaded at once would bring every switch and pointer back, and
\* vm_saveState() passes its assertions.
RoundTrip ==
    ~torn => /\ Representable
             /\ LET l == Loaded(StateFile, Len(FileOrder))
                IN  l.base = base /\ l.slots = slots /\ l.lc_rd = lc_rd /\ l.lc_wrt = lc_wrt

\* What vm.h:99-100 says of $C088-$C08B: writes go to the bank that BANK2 selects, and with
\* ALTZP to the auxiliary card.
WritesGoToSelectedBank == lc_wrt # NoWindow => lc_wrt = CardWindow(softswitches)

\* keys.c:158-159: with the alternate character set on, the glyphs are MouseText.
FontFollowsSwitch == On("ALTCHAR") <=> font = "mousetext"

\* The assertions of vm_saveState() (vm.c:1595, 1620): every pointer is one it knows.
SaveAssertion == Representable
=============================================================================
