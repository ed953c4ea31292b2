--------------------------------- MODULE Disk6 ---------------------------------
(***************************************************************************)
(* The Disk II controller in slot 6 with its two drives (src/src/disk.c):  *)
(* the I/O addresses $C0E0-$C0EF, insertion and ejection of images, the    *)
(* reset and the state file.                                               *)
(*                                                                         *)
(* A nibble stands for a field: the header of a sector, its data, or the   *)
(* self-sync bytes between; a track is a ring of them.  Sectors lie in     *)
(* image files in the order of the skew table, a permutation left out.     *)
(* The host's operations run while the CPU is paused (see CpuThread), so   *)
(* that one access or one operation is one step; only the flush when       *)
(* Android pauses the app does not, and is taken as one step too.  An      *)
(* image file is what the shared mapping of it holds, and is in one drive  *)
(* at a time.                                                              *)
(***************************************************************************)
EXTENDS Integers, FiniteSets

CONSTANTS DskImages, NibImages,    \* image files by their format: .dsk, .do, .po or .nib
          Libraries,               \* which of them a user may have
          NoImage,
          NumSectors,              \* 16
          MaxPhase,                \* 69: two phases a track
          SpinDown,                \* 99: the reads that still work when the motor is off
          Values,                  \* what the data of a sector may be
          Formats,                 \* whether programs write more than the data of a sector
          Reads, Writes,           \* the addresses, 0-15, that programs read and write
          Insertions,              \* what the user may insert: a drive, an image and the protection
          StateFiles               \* the state files of earlier sessions

ASSUME GeometryAssumption ==
    /\ NumSectors \in Nat \ {0} /\ MaxPhase \in Nat /\ SpinDown \in Nat
    /\ DskImages \cap NibImages = {} /\ NoImage \notin DskImages \cup NibImages

VARIABLES stepper_phases,    \* the magnets that are on
          motor_off, drive, ddrw, disk_byte,    \* drive_t; ddrw is write mode
          disk,              \* the two diskette_t
          buffer,            \* the fields of the track under the head of each drive
          files              \* the image files

hostvars == <<stepper_phases, motor_off, drive, ddrw>>
contents == <<disk, buffer, files>>
dvars    == <<hostvars, disk_byte, contents>>

Drives    == {0, 1}
Images    == DskImages \cup NibImages
SectorIds == 0 .. NumSectors - 1
Tracks    == 0 .. MaxPhase \div 2
Width     == 2 * NumSectors
Positions == 0 .. Width - 1

Header(s) == [kind |-> "header", sector |-> s]
Data(v)   == [kind |-> "data", value |-> v]
Sync      == [kind |-> "sync"]
Low       == [kind |-> "low"]          \* a byte below $96, which is no nibble
Fields    == {Sync} \cup {Header(s) : s \in SectorIds} \cup {Data(v) : v \in Values}
Blank     == [p \in Positions |-> Sync]

Track(d)    == disk[d].phase \div 2
Inserted(d) == disk[d].image # NoImage

\* No image is in both drives k.
OneDrive(k) == k[0].image = k[1].image => k[0].image = NoImage

\* What the user and the files of earlier sessions bring.
ASSUME InputAssumption ==
    /\ Reads \subseteq 0 .. 15 /\ Writes \subseteq 0 .. 15
    /\ \A library \in Libraries : library \subseteq Images
    /\ Insertions \subseteq [drive : Drives, image : Images, readonly : BOOLEAN]
    /\ \A f \in StateFiles :
           /\ f \in [motor_off : 0 .. SpinDown + 1, drive : Drives, ddrw : BOOLEAN,
                     disk_byte : Fields \cup {Low}, stepper_phases : SUBSET (0 .. 3),
                     disk : [Drives -> [image : Images \cup {NoImage}, is_protected : BOOLEAN,
                                        phase : 0 .. MaxPhase, run_byte : Positions]]]
           /\ OneDrive(f.disk)

-----------------------------------------------------------------------------
(* Tracks and sectors                                                       *)

\* mutation of nibblize_track: the data of a sector comes before its header.
DataFirst(raw) ==
    [p \in Positions |-> IF p % 2 = 1 THEN Header(p \div 2) ELSE Data(raw[p \div 2])]

nibblize_track(raw) ==
    [p \in Positions |-> IF p % 2 = 0 THEN Header(p \div 2) ELSE Data(raw[p \div 2])]

\* denibblize_track() looks at the fields from the start of the buffer on, one more than there
\* are in a track of two per sector, and skips the sync bytes: place n of P is found nth.
Place(P, n) == CHOOSE p \in P : Cardinality({q \in P : q < p}) = n
Scanned(nib) ==
    LET P == {p \in Positions : nib[p].kind # "sync"}
    IN  [k \in 1 .. Width + 1 |->
            IF P = {} THEN Sync ELSE nib[Place(P, (k - 1) % Cardinality(P))]]

\* Data belongs to the sector of the header before it. The last one that belongs to a sector
\* is what is decoded; a sector without any keeps what the file has.
denibblize_track(nib, raw) ==
    LET scan == Scanned(nib)
    IN  [s \in SectorIds |->
            LET of == {k \in 2 .. Width + 1 : scan[k].kind = "data" /\ scan[k - 1] = Header(s)}
            IN  IF of = {} THEN raw[s] ELSE scan[CHOOSE k \in of : \A l \in of : l <= k].value]

\* Data without a header before it fails an assertion.
Decodable(nib) ==
    LET scan == Scanned(nib)
    IN  \A k \in 1 .. Width + 1 :
            scan[k].kind = "data" => k > 1 /\ scan[k - 1].kind = "header"

\* The file of image i after save_track_data() for the drives D; .nib images are written
\* through the mapping and have nothing to save.
Pending(d, i) == disk[d].image = i /\ disk[d].track_dirty /\ i \in DskImages
Saved(d, i)   == [files[i] EXCEPT ![Track(d)] = denibblize_track(buffer[d], @)]

save_track_data(D) ==
    [i \in DOMAIN files |-> IF \E d \in D : Pending(d, i)
                           THEN Saved(CHOOSE d \in D : Pending(d, i), i) ELSE files[i]]

\* A buffer whose track left the head is not read again before load_track_data() refills it.
OffTrack(k) == [k EXCEPT !.track_valid = FALSE, !.track_dirty = FALSE]

load_track_data(d) ==
    IF ~Inserted(d) \/ disk[d].track_valid THEN disk[d]
    ELSE [disk[d] EXCEPT !.track_valid = TRUE, !.run_byte = 0]

LoadedBuffer(d) ==
    IF disk[d].image \in DskImages /\ ~disk[d].track_valid
    THEN nibblize_track(files[disk[d].image][Track(d)]) ELSE buffer[d]

\* nib_image_data at the track under the head; a .nib image has no buffer of its own.
Stream(d) == IF disk[d].image \in NibImages THEN files[disk[d].image][Track(d)] ELSE LoadedBuffer(d)

-----------------------------------------------------------------------------
(* $C0E0-$C0EF                                                              *)

\* One step towards a neighbouring magnet, unless both or none are on.
Direction(magnets, phase) == (IF (phase + 1) % 4 \in magnets THEN 1 ELSE 0)
                             - (IF (phase + 3) % 4 \in magnets THEN 1 ELSE 0)
NextPhase(magnets, phase) ==
    LET next == phase + Direction(magnets, phase)
    IN  IF next < 0 THEN 0 ELSE IF next > MaxPhase THEN MaxPhase ELSE next

\* mutation of LeaveTrack: the old track is not saved.
LeaveUnsaved(next) ==
    /\ disk' = [disk EXCEPT ![drive] = [OffTrack(@) EXCEPT !.phase = next]]
    /\ buffer' = [buffer EXCEPT ![drive] = Blank]
    /\ UNCHANGED files

\* mutation of LeaveTrack: the buffer stays valid.
LeaveValid(next) ==
    /\ disk' = [disk EXCEPT ![drive] = [@ EXCEPT !.track_dirty = FALSE, !.phase = next]]
    /\ files' = save_track_data({drive}) /\ UNCHANGED buffer

LeaveTrack(next) ==
    /\ disk' = [disk EXCEPT ![drive] = [OffTrack(@) EXCEPT !.phase = next]]
    /\ buffer' = [buffer EXCEPT ![drive] = Blank]
    /\ files' = save_track_data({drive})

_disk6_phaseChange(sw) ==
    /\ stepper_phases' = IF sw % 2 = 1 THEN stepper_phases \cup {sw \div 2}
                                       ELSE stepper_phases \ {sw \div 2}
    /\ LET next == NextPhase(stepper_phases', disk[drive].phase)
       IN  IF next \div 2 # Track(drive) THEN LeaveTrack(next)
           ELSE disk' = [disk EXCEPT ![drive].phase = next] /\ UNCHANGED <<buffer, files>>
    /\ UNCHANGED <<motor_off, drive, ddrw>>

_disk6_motorControl(sw) ==
    motor_off' = 1 - (sw % 2) /\ UNCHANGED <<stepper_phases, drive, ddrw, contents>>
_disk6_driveSelect(sw) ==
    drive' = sw % 2 /\ UNCHANGED <<stepper_phases, motor_off, ddrw, contents>>
_disk_modeSelect(sw) ==
    ddrw' = (sw % 2 = 1) /\ UNCHANGED <<stepper_phases, motor_off, drive, contents>>

Writing == Inserted(drive) /\ ddrw /\ ~disk[drive].is_protected /\ disk_byte # Low

\* What programs write. DOS and ProDOS write the data of a sector after they have read its
\* header; formatting writes anything anywhere.
WritesData == /\ disk[drive].track_valid /\ disk_byte.kind = "data"
              /\ Stream(drive)[disk[drive].run_byte].kind = "data"

Turned(k) ==
    [k EXCEPT !.run_byte = IF k.image # NoImage /\ @ + 1 < Width THEN @ + 1 ELSE 0]

_disk_readWriteByte ==
    LET k == load_track_data(drive)
    IN  /\ Writing => WritesData \/ Formats
        /\ disk' = [disk EXCEPT ![drive] =
                       IF Writing THEN [Turned(k) EXCEPT !.track_dirty = TRUE] ELSE Turned(k)]
        /\ buffer' = [buffer EXCEPT ![drive] =
                         IF Writing /\ k.image \in DskImages
                         THEN [LoadedBuffer(drive) EXCEPT ![k.run_byte] = disk_byte]
                         ELSE LoadedBuffer(drive)]
        /\ files' = IF Writing /\ k.image \in NibImages
                    THEN [files EXCEPT ![k.image][Track(drive)][k.run_byte] = disk_byte]
                    ELSE files
        /\ motor_off' = IF Inserted(drive) /\ ~ddrw /\ motor_off \in 1 .. SpinDown
                        THEN motor_off + 1 ELSE motor_off
        /\ UNCHANGED <<stepper_phases, drive, ddrw>>

\* The latch after a read or write of the byte under the head.
Shifted ==
    IF ~Inserted(drive) THEN Sync
    ELSE IF ddrw THEN disk_byte
    ELSE IF motor_off > SpinDown THEN Sync
    ELSE Stream(drive)[load_track_data(drive).run_byte]

\* _disk_readLatch() sets or clears bit 7: a low byte may become a nibble.
Sensed == IF motor_off # 0 \/ ddrw THEN {disk_byte}
          ELSE IF ~disk[drive].is_protected THEN {Low}
          ELSE IF disk_byte = Low THEN {Low, Sync} ELSE {disk_byte}

Access(sw) ==
    \/ sw \in 0 .. 7   /\ _disk6_phaseChange(sw)
    \/ sw \in {8, 9}   /\ _disk6_motorControl(sw)
    \/ sw \in {10, 11} /\ _disk6_driveSelect(sw)
    \/ sw = 12         /\ _disk_readWriteByte
    \/ sw = 13         /\ UNCHANGED <<hostvars, contents>>
    \/ sw \in {14, 15} /\ _disk_modeSelect(sw)

disk6_ioRead(sw) ==
    /\ Access(sw)
    /\ disk_byte' \in CASE sw = 12 -> {Shifted} [] sw = 13 -> Sensed [] OTHER -> {disk_byte}

disk6_ioWrite(sw, b) ==
    /\ Access(sw)
    /\ disk_byte' = IF ddrw' THEN b ELSE IF sw = 12 THEN Shifted ELSE disk_byte

-----------------------------------------------------------------------------
(* The host: images, flushes, resets and state files                        *)

Clean(k) == [k EXCEPT !.track_dirty = FALSE]

\* disk6_flush(), also as part of disk6_saveState().
disk6_flush(D) ==
    /\ files' = save_track_data(D)
    /\ disk' = [d \in Drives |-> IF d \in D THEN Clean(disk[d]) ELSE disk[d]]
    /\ UNCHANGED <<hostvars, disk_byte, buffer>>

\* The phase and the place on the track stay, for images that are inserted again.
Emptied(k) == [OffTrack(k) EXCEPT !.image = NoImage, !.is_protected = FALSE]

\* Also what is left of an insertion that fails.
disk6_eject(d) ==
    /\ files' = save_track_data({d})
    /\ disk' = [disk EXCEPT ![d] = Emptied(@)] /\ buffer' = [buffer EXCEPT ![d] = Blank]
    /\ UNCHANGED <<hostvars, disk_byte>>

disk6_insert(d, i, readonly) ==
    /\ i \in DOMAIN files /\ disk[1 - d].image # i
    /\ files' = save_track_data({d})
    /\ disk' = [disk EXCEPT ![d] = [Emptied(@) EXCEPT !.image = i, !.is_protected = readonly]]
    /\ buffer' = [buffer EXCEPT ![d] = Blank]
    /\ UNCHANGED <<hostvars, disk_byte>>

disk6_init ==
    /\ files' = save_track_data(Drives)
    /\ disk' = [d \in Drives |-> [OffTrack(disk[d]) EXCEPT !.phase = 0, !.run_byte = 0]]
    /\ buffer' = [d \in Drives |-> Blank]
    /\ stepper_phases' = {} /\ motor_off' = 1 /\ drive' = 0 /\ ddrw' = FALSE /\ disk_byte' = Low

\* What disk6_saveState() writes of the controller, after it has flushed.
StateFile ==
    [motor_off |-> motor_off, drive |-> drive, ddrw |-> ddrw, disk_byte |-> disk_byte,
     stepper_phases |-> stepper_phases,
     disk |-> [d \in Drives |-> [image |-> disk[d].image, is_protected |-> disk[d].is_protected,
                                 phase |-> disk[d].phase, run_byte |-> disk[d].run_byte]]]

\* state & 0x3
LoadedPhases(f) == f.stepper_phases \cap {0, 1}

LoadController(f) ==
    motor_off' = f.motor_off /\ drive' = f.drive /\ ddrw' = f.ddrw /\ disk_byte' = f.disk_byte

\* Drive 1 is filled before drive 2 is emptied. A mapping shows what is saved afterwards; a
\* protected image is read at once (line 901), without the track that drive 2 has not saved.
ReadBeforeSaved(f) == f.disk[0].is_protected /\ Pending(1, f.disk[0].image)

\* Each drive is emptied, given its image, if that can still be inserted, and put in its place.
\* A protected image that comes from drive 2 has been saved there: a bound on the loads.
disk6_loadState(f) ==
    /\ ~ReadBeforeSaved(f)
    /\ LoadController(f)
    /\ stepper_phases' = LoadedPhases(f)
    /\ files' = save_track_data(Drives) /\ buffer' = [d \in Drives |-> Blank]
    /\ disk' = [d \in Drives |->
           LET k == f.disk[d]
               there == k.image \in DOMAIN files
           IN  [Emptied(disk[d]) EXCEPT !.image = IF there THEN k.image ELSE NoImage,
                                        !.is_protected = there /\ k.is_protected,
                                        !.phase = k.phase, !.run_byte = k.run_byte]]

\* A file that ends in the drives leaves both empty, with the first one (n = 1) or none in
\* its place: the bound on where it ends.
LoadTorn(f, n) ==
    /\ LoadController(f)
    /\ stepper_phases' = IF n = 1 THEN LoadedPhases(f) ELSE stepper_phases
    /\ files' = save_track_data(Drives) /\ buffer' = [d \in Drives |-> Blank]
    /\ disk' = [d \in Drives |->
           IF d < n THEN [Emptied(disk[d]) EXCEPT !.phase = f.disk[d].phase,
                                                  !.run_byte = f.disk[d].run_byte]
                    ELSE Emptied(disk[d])]

\* One that ends before leaves the drives as they are.
LoadTornEarly(f, n) ==
    /\ motor_off' = IF n > 0 THEN f.motor_off ELSE motor_off
    /\ drive' = IF n > 1 THEN f.drive ELSE drive
    /\ ddrw' = IF n > 2 THEN f.ddrw ELSE ddrw
    /\ UNCHANGED <<stepper_phases, disk_byte, contents>>

-----------------------------------------------------------------------------
(* The whole                                                                *)

\* Diskettes are formatted before they come here.
DiskInit ==
    /\ \E library \in Libraries, v \in Values :
           LET raw == [s \in SectorIds |-> v]
           IN  files = [i \in library |-> [t \in Tracks |->
                           IF i \in NibImages THEN nibblize_track(raw) ELSE raw]]
    /\ disk = [d \in Drives |->
                  [image |-> NoImage, is_protected |-> FALSE, track_valid |-> FALSE,
                   track_dirty |-> FALSE, phase |-> 0, run_byte |-> 0]]
    /\ buffer = [d \in Drives |-> Blank]
    /\ stepper_phases = {} /\ motor_off = 1 /\ drive = 0 /\ ddrw = FALSE /\ disk_byte = Low

Program == \/ \E sw \in Reads : disk6_ioRead(sw)
           \/ \E sw \in Writes, b \in Fields \cup {Low} : disk6_ioWrite(sw, b)

Host ==
    \/ \E D \in {{0}, {1}, Drives} : disk6_flush(D)
    \/ \E d \in Drives : disk6_eject(d)
    \/ \E n \in Insertions : disk6_insert(n.drive, n.image, n.readonly)
    \/ disk6_init
    \/ \E f \in StateFiles : \/ disk6_loadState(f)
                             \/ \E n \in 0 .. 1 : LoadTorn(f, n)
                             \/ \E n \in 1 .. 3 : LoadTornEarly(f, n)

DiskSpec == DiskInit /\ [][Program \/ Host]_dvars

-----------------------------------------------------------------------------
(* Properties                                                               *)

diskette_t == [image : Images \cup {NoImage}, is_protected : BOOLEAN, track_valid : BOOLEAN,
               track_dirty : BOOLEAN, phase : 0 .. MaxPhase, run_byte : Positions]

HardwareOK ==
    /\ stepper_phases \subseteq 0 .. 3 /\ motor_off \in 0 .. SpinDown + 1
    /\ drive \in Drives /\ ddrw \in BOOLEAN
    /\ disk \in [Drives -> diskette_t]

TypeOK ==
    /\ HardwareOK
    /\ disk_byte \in Fields \cup {Low} /\ buffer \in [Drives -> [Positions -> Fields]]
    /\ \A i \in DskImages \cap DOMAIN files : files[i] \in [Tracks -> [SectorIds -> Values]]
    /\ \A i \in NibImages \cap DOMAIN files : files[i] \in [Tracks -> [Positions -> Fields]]

\* disk.c:508: a track is not loaded over one that was written and not saved; and only a
\* track of an unprotected image in the drive is ever dirty.
DirtyIsHeld ==
    \A d \in Drives : disk[d].track_dirty =>
        disk[d].track_valid /\ Inserted(d) /\ ~disk[d].is_protected

\* What is recorded on the diskettes, the tracks that are not saved yet included.
Medium == save_track_data(Drives)

\* No order of steps, drive changes, resets, ejections and loads loses a write or puts it on
\* another track or diskette: see Diskettes.
Recorded == INSTANCE Diskettes WITH
    media <- Medium, head <- [d \in Drives |-> Track(d)],
    inside <- [d \in Drives |-> [image |-> disk[d].image, writable |-> ~disk[d].is_protected]]
WritesAreKept == Recorded!Spec

\* The buffer under a head holds what the diskette holds, so that a program reads what was
\* written last, in whatever drive and session.
ReadsWhatIsRecorded ==
    \A d \in Drives : disk[d].track_valid /\ disk[d].image \in DskImages =>
        buffer[d] = nibblize_track(Medium[disk[d].image][Track(d)])

\* disk.c:421, "invalid previous nibblization": a flush, which may come at any moment, finds a
\* header before the data of every sector.
DenibblizeAssertion ==
    \A d \in Drives, i \in DskImages :
        Pending(d, i) => Decodable(buffer[d])

\* disk.c:46: a saved state has all the four magnets.
MagnetsRestored == LoadedPhases(StateFile) = stepper_phases
=============================================================================
