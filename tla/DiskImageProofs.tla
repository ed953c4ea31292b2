--------------------------- MODULE DiskImageProofs ---------------------------
(***************************************************************************)
(* Proofs about DiskImage: no kill and no failing step outside the two     *)
(* copies loses an image, as long as no file is in both drives, and the    *)
(* host can wind back a file that it has just read (zlib-helpers.c:334).   *)
(***************************************************************************)
EXTENDS DiskImage, TLAPS

Rewritten == {"deflate", "copy", "copied", "truncate"}     \* stages of an ejection after its flush
Filled    == {"insert", "inflate", "map"}                  \* stages of an insertion after it

\* Where an operation is and what its drive holds
Shape ==
    /\ \A e \in Drives : todo[e].pending \/ todo[e] = Done
    /\ stage = "idle" <=> \A e \in Drives : ~todo[e].pending
    /\ stage # "idle" => flushing = NoDrive
    /\ flushing # NoDrive => Mounted(flushing)
    /\ stage \in Rewritten => Mounted(drive)
    /\ stage \in Filled => disk[drive].file = NoFile
    /\ stage \in {"inflate", "map"} => wanted # NoFile

\* What the theorems about images assume: DiskImage.cfg with either constant TRUE shows it is needed.
Whole == ~Shared /\ ~SeekFails

\* The drive e keeps its file.
Kept(e) == disk'[e].file = disk[e].file /\ disk'[e].is_protected = disk[e].is_protected

-----------------------------------------------------------------------------
(* What the parts of the steps do                                           *)

LEMMA Names ==
    TypeOK => /\ drive \in Drives /\ 1 - drive \in Drives /\ 1 - drive # drive /\ Drives = {drive, 1 - drive}
              /\ todo[drive] \in Asked /\ disk[drive] \in Diskette
              /\ wanted \in Files \cup {NoFile} /\ held \in Files \cup {NoFile}
  BY DEF TypeOK, drive, Drives, Asked, Diskette, wanted, held

LEMMA EmptyType == Empty \in Diskette /\ Done \in Asked
  BY DEF Empty, Diskette, Done, Asked, Contents

LEMMA DropEffect ==
    ASSUME TypeOK, disk' = [disk EXCEPT ![drive] = Empty]
    PROVE  /\ disk' \in [Drives -> Diskette] /\ disk'[drive] = Empty /\ disk'[drive].file = NoFile
           /\ disk'[1 - drive] = disk[1 - drive]
  BY Names, EmptyType DEF TypeOK, Empty

LEMMA FileEffect ==
    ASSUME TypeOK, NEW g \in Files, NEW x \in Forms, NEW c \in Contents, files' = [files EXCEPT ![g] = [form |-> x, content |-> c]]
    PROVE  /\ files' \in [Files -> ImageFile] /\ files'[g].form = x /\ files'[g].content = c
           /\ \A h \in Files : h # g => files'[h] = files[h]
  BY DEF TypeOK, ImageFile

LEMMA FormEffect ==
    ASSUME TypeOK, NEW g \in Files, NEW x \in Forms, files' = [files EXCEPT ![g] = [files[g] EXCEPT !.form = x]]
    PROVE  /\ files' \in [Files -> ImageFile] /\ files'[g].form = x /\ files'[g].content = files[g].content
           /\ \A h \in Files : h # g => files'[h] = files[h]
  BY DEF TypeOK, ImageFile

LEMMA DecodeEffect ==
    ASSUME TypeOK, NEW e \in Drives, Mounted(e), Decode(e)
    PROVE  LET g == disk[e].file
           IN /\ g \in Files /\ disk[e].image \in Contents
              /\ files' \in [Files -> ImageFile] /\ recorded' \in [Files -> Contents]
              /\ files'[g].form = Overwritten(files[g].form)
              /\ files'[g].content = disk[e].image /\ recorded'[g] = disk[e].image
              /\ \A h \in Files : h # g => files'[h] = files[h] /\ recorded'[h] = recorded[h]
  <1> DEFINE g == disk[e].file
             x == Overwritten(files[g].form)
             c == disk[e].image
  <1>1. g \in Files /\ c \in Contents /\ files[g] \in ImageFile /\ recorded \in [Files -> Contents]
    BY DEF TypeOK, Mounted, Diskette
  <1>2. x \in Forms
    BY <1>1 DEF Overwritten, Forms, ImageFile
  <1>3. files' = [files EXCEPT ![g] = [form |-> x, content |-> c]] /\ recorded' = [recorded EXCEPT ![g] = c]
    BY DEF Decode
  <1> HIDE DEF g, x, c
  <1>4. /\ files' \in [Files -> ImageFile] /\ files'[g].form = x /\ files'[g].content = c
        /\ \A h \in Files : h # g => files'[h] = files[h]
    BY <1>1, <1>2, <1>3, FileEffect
  <1> QED BY <1>1, <1>3, <1>4 DEF g, x, c

\* The flags of drive e and its image
LEMMA FlagsEffect ==
    ASSUME TypeOK, NEW e \in Drives, NEW c \in Contents, NEW x \in BOOLEAN, NEW y \in BOOLEAN,
           disk' = [disk EXCEPT ![e] = [disk[e] EXCEPT !.image = c, !.track_dirty = x, !.raced = y]]
    PROVE  /\ disk' \in [Drives -> Diskette] /\ Kept(e)
           /\ disk'[e].image = c /\ disk'[e].track_dirty = x /\ disk'[e].raced = y
           /\ \A a \in Drives : a # e => disk'[a] = disk[a]
  <1> DEFINE r == [disk[e] EXCEPT !.image = c, !.track_dirty = x, !.raced = y]
  <1>1. disk[e] \in Diskette /\ disk \in [Drives -> Diskette]
    BY DEF TypeOK
  <1>2. /\ r \in Diskette /\ r.image = c /\ r.track_dirty = x /\ r.raced = y
        /\ r.file = disk[e].file /\ r.is_protected = disk[e].is_protected
    BY <1>1 DEF Diskette
  <1>3. disk' = [disk EXCEPT ![e] = r]
    OBVIOUS
  <1> HIDE DEF r
  <1> QED BY <1>1, <1>2, <1>3 DEF Kept

LEMMA SaveEffect ==
    ASSUME TypeOK, NEW e \in Drives, Mounted(e), save_track_data(e)
    PROVE  /\ Decode(e) /\ disk' \in [Drives -> Diskette] /\ Kept(e)
           /\ disk'[e].image = disk[e].image /\ ~disk'[e].track_dirty /\ ~disk'[e].raced
           /\ \A a \in Drives : a # e => disk'[a] = disk[a]
  <1>1. disk[e] \in Diskette /\ disk[e].image \in Contents
    BY DEF TypeOK, Diskette
  <1>2. disk' = [disk EXCEPT ![e] = [disk[e] EXCEPT !.image = disk[e].image, !.track_dirty = FALSE, !.raced = FALSE]]
    BY <1>1 DEF save_track_data, TypeOK, Diskette
  <1> QED BY <1>1, <1>2, FlagsEffect DEF save_track_data

LEMMA InsertedEffect ==
    ASSUME TypeOK, NEW c \in Contents, Inserted(c)
    PROVE  /\ disk' \in [Drives -> Diskette] /\ disk'[1 - drive] = disk[1 - drive]
           /\ disk'[drive].file = wanted /\ disk'[drive].is_protected = todo[drive].readonly
           /\ disk'[drive].image = c /\ ~disk'[drive].track_dirty
  <1> DEFINE r == [file |-> wanted, is_protected |-> todo[drive].readonly, image |-> c,
                   track_dirty |-> FALSE, raced |-> FALSE]
  <1>1. disk \in [Drives -> Diskette] /\ todo[drive].readonly \in BOOLEAN
    BY Names DEF TypeOK, Asked
  <1>2. /\ r \in Diskette /\ r.file = wanted /\ r.is_protected = todo[drive].readonly /\ r.image = c
        /\ r.track_dirty = FALSE
    BY <1>1, Names DEF Diskette
  <1>3. disk' = [disk EXCEPT ![drive] = r]
    BY DEF Inserted
  <1> HIDE DEF r
  <1> QED BY <1>1, <1>2, <1>3, Names

LEMMA PopEffect ==
    ASSUME TypeOK, Pop
    PROVE  /\ todo' \in [Drives -> Asked] /\ todo'[drive] = Done /\ todo'[1 - drive] = todo[1 - drive]
           /\ stage' \in {"idle", "eject"} /\ (stage' = "eject" <=> todo[1 - drive].pending)
  BY Names, EmptyType DEF TypeOK, Pop

\* The first drive is done with: the other one is next.
LEMMA PopShape ==
    ASSUME TypeOK, Shape, Pop
    PROVE  /\ \A e \in Drives : todo'[e].pending \/ todo'[e] = Done
           /\ stage' = "idle" <=> \A e \in Drives : ~todo'[e].pending
           /\ stage' = "eject" => drive = 0 /\ drive' = 1
  <1>1. Done.pending = FALSE /\ todo[0].pending \in BOOLEAN /\ Drives = {0, 1}
    BY DEF Done, TypeOK, Asked, Drives
  <1>2. stage' = "eject" => drive = 0
    <2>1. drive = 1 => ~todo[0].pending
      BY DEF drive
    <2> QED BY <2>1, PopEffect, Names DEF Drives
  <1>3. drive = 0 => ~todo'[0].pending /\ drive' = 1
    BY <1>1, PopEffect DEF drive
  <1> QED BY <1>1, <1>2, <1>3, PopEffect, Names DEF Shape

-----------------------------------------------------------------------------
(* Well-formed states                                                       *)

\* While the operation stands, so does what it says of the drives.
LEMMA SameDrive == UNCHANGED todo => drive' = drive
  BY DEF drive

LEMMA ShapeInit == Init => TypeOK /\ Shape
  <1>1. \A c \in Values : c \in Contents
    BY DEF Contents
  <1>2. Junk \in Contents /\ {"raw", "gz"} \subseteq Forms
    BY DEF Contents, Forms
  <1> QED BY <1>1, <1>2, EmptyType DEF Init, TypeOK, Shape, Done, Drives, NoDrive, ImageFile, Rewritten, Filled

\* The machine's steps and the flush: the files in the drives stay.
LEMMA ShapeMachine ==
    ASSUME TypeOK, Shape, NEW e \in Drives,
           (\E v \in Values : Write(e, v)) \/ Save(e) \/ FlushDecodes(e) \/ FlushCleans
    PROVE  TypeOK' /\ Shape' /\ (\A a \in Drives : Kept(a)) /\ UNCHANGED <<todo, stage>>
  <1>0. disk \in [Drives -> Diskette] /\ \A a \in Drives : disk[a] \in Diskette /\ (Kept(a) \/ disk'[a] # disk[a])
    BY DEF TypeOK, Kept
  <1>1. CASE \E v \in Values : Write(e, v)
    <2>1. PICK v \in Values : Write(e, v)
      BY <1>1
    <2>2. v \in Contents /\ (flushing = e) \in BOOLEAN
      BY DEF Contents
    <2>3. disk' = [disk EXCEPT ![e] = [disk[e] EXCEPT !.image = v, !.track_dirty = TRUE, !.raced = (flushing = e)]]
      BY <2>1, <1>0 DEF Write
    <2>4. disk' \in [Drives -> Diskette] /\ \A a \in Drives : Kept(a)
      BY <1>0, <2>2, <2>3, FlagsEffect DEF Kept
    <2> QED BY <2>1, <2>4 DEF Write, TypeOK, Shape, Kept, Mounted, drive, wanted, Machine, Rewritten, Filled
  <1>2. CASE Save(e)
    <2>1. Mounted(e) /\ save_track_data(e)
      BY <1>2 DEF Save
    <2>2. disk' \in [Drives -> Diskette] /\ \A a \in Drives : Kept(a)
      BY <1>0, <2>1, SaveEffect DEF Kept
    <2>3. files' \in [Files -> ImageFile] /\ recorded' \in [Files -> Contents]
      BY <2>1, SaveEffect, DecodeEffect
    <2> QED BY <1>2, <2>2, <2>3 DEF Save, TypeOK, Shape, Kept, Mounted, drive, wanted, Machine, Rewritten, Filled
  <1>3. CASE FlushDecodes(e)
    <2>1. Mounted(e) /\ Decode(e)
      BY <1>3 DEF FlushDecodes
    <2>2. disk' = [disk EXCEPT ![e] = [disk[e] EXCEPT !.image = disk[e].image, !.track_dirty = disk[e].track_dirty, !.raced = FALSE]]
      BY <1>0, <1>3 DEF FlushDecodes, Diskette
    <2>3. disk[e].image \in Contents /\ disk[e].track_dirty \in BOOLEAN
      BY <1>0 DEF Diskette
    <2>4. disk' \in [Drives -> Diskette] /\ \A a \in Drives : Kept(a)
      BY <1>0, <2>2, <2>3, FlagsEffect DEF Kept
    <2>5. files' \in [Files -> ImageFile] /\ recorded' \in [Files -> Contents]
      BY <2>1, DecodeEffect
    <2>6. flushing' = e /\ Mounted(e)' /\ stage = "idle" /\ UNCHANGED <<todo, stage, packed, damaged>>
      BY <1>3, <2>1, <2>4 DEF FlushDecodes, Machine, Kept, Mounted
    <2> QED BY <2>4, <2>5, <2>6 DEF TypeOK, Shape, drive, wanted, Rewritten, Filled
  <1>4. CASE FlushCleans
    <2> DEFINE a == flushing
    <2>1. a \in Drives /\ disk[a].image \in Contents /\ disk[a].raced \in BOOLEAN
      BY <1>0, <1>4 DEF FlushCleans, Diskette
    <2>2. disk' = [disk EXCEPT ![a] = [disk[a] EXCEPT !.image = disk[a].image, !.track_dirty = FALSE, !.raced = disk[a].raced]]
      BY <1>0, <1>4, <2>1 DEF FlushCleans, Diskette
    <2> HIDE DEF a
    <2>3. disk' \in [Drives -> Diskette] /\ \A b \in Drives : Kept(b)
      BY <1>0, <2>1, <2>2, FlagsEffect DEF Kept
    <2> QED BY <1>4, <2>3 DEF FlushCleans, TypeOK, Shape, Kept, Mounted, drive, wanted, Rewritten, Filled
  <1> QED BY <1>1, <1>2, <1>3, <1>4

LEMMA ShapeEject ==
    ASSUME TypeOK, Shape, Request \/ Eject \/ zlib_deflate_buffer \/ CopyStarts \/ CopyEnds \/ Truncate
    PROVE  TypeOK' /\ Shape'
  <1>0. drive \in Drives /\ Drives = {0, 1} /\ Drives = {drive, 1 - drive} /\ NoDrive \notin Drives
    BY Names DEF Drives, NoDrive
  <1>1. CASE Request
    BY <1>0, <1>1 DEF Request, Step, TypeOK, Shape, Machine, Mounted, drive, wanted, Rewritten, Filled
  <1>2. CASE Eject /\ Mounted(drive)
    <2>1. Flush /\ UNCHANGED <<todo, packed, flushing, damaged>> /\ stage = "eject" /\ stage' = "deflate"
      BY <1>2 DEF Eject, Flush, Step
    <2>2. disk' \in [Drives -> Diskette] /\ files' \in [Files -> ImageFile] /\ recorded' \in [Files -> Contents] /\ Kept(drive)
      <3>1. CASE disk[drive].track_dirty
        BY <1>0, <1>2, <2>1, <3>1, SaveEffect, DecodeEffect DEF Flush
      <3>2. CASE ~disk[drive].track_dirty
        BY <2>1, <3>2 DEF Flush, TypeOK, Kept
      <3> QED BY <3>1, <3>2
    <2>3. drive' = drive /\ Mounted(drive)'
      BY <1>2, <2>1, <2>2, SameDrive DEF Kept, Mounted
    <2> QED BY <1>0, <2>1, <2>2, <2>3 DEF TypeOK, Shape, Rewritten, Filled
  <1>3. ASSUME stage # "idle", Drop("insert"), UNCHANGED <<todo, flushing, damaged>>, packed' \in Contents,
               files' \in [Files -> ImageFile], recorded' \in [Files -> Contents]
        PROVE  TypeOK' /\ Shape'
    <2>1. disk' \in [Drives -> Diskette] /\ disk'[drive].file = NoFile /\ stage' = "insert"
      BY <1>3, DropEffect DEF Drop
    <2>2. drive' = drive /\ flushing' = NoDrive
      BY <1>3, SameDrive DEF Shape
    <2> QED BY <1>0, <1>3, <2>1, <2>2 DEF TypeOK, Shape, Rewritten, Filled
  <1>4. CASE Eject /\ ~Mounted(drive)
    BY <1>3, <1>4 DEF Eject, TypeOK
  <1>5. CASE zlib_deflate_buffer
    <2>1. CASE Drop("insert")
      BY <1>3, <1>5, <2>1 DEF zlib_deflate_buffer, TypeOK, Drop, Deflated, Step
    <2>2. CASE UNCHANGED disk /\ Step("copy") /\ packed' \in Deflated
      <3>1. Mounted(drive) /\ stage = "deflate" /\ UNCHANGED <<files, todo, flushing, recorded, damaged>>
        BY <1>5 DEF zlib_deflate_buffer, Shape, Rewritten
      <3>2. held \in Files /\ packed' \in Contents
        BY <2>2, <3>1, Names DEF Mounted, held, Deflated, Bytes, TypeOK, ImageFile, Contents
      <3> QED BY <1>0, <2>2, <3>1, <3>2 DEF Step, TypeOK, Shape, Mounted, Rewritten, Filled, drive
    <2> QED BY <1>5, <2>1, <2>2 DEF zlib_deflate_buffer
  <1>6. CASE CopyStarts \/ CopyEnds
    <2>1. Mounted(drive) /\ held \in Files /\ files[held] \in ImageFile /\ packed \in Contents
      BY <1>6, Names DEF CopyStarts, CopyEnds, Shape, Rewritten, Mounted, held, TypeOK
    <2>2. files' \in [Files -> ImageFile]
      BY <1>6, <2>1, FileEffect, FormEffect DEF CopyStarts, CopyEnds, File, Copying, Forms, TypeOK
    <2>3. /\ UNCHANGED <<disk, todo, packed, flushing, recorded, damaged>> /\ stage \in {"copy", "copied"}
          /\ stage' \in {"copied", "truncate"}
      BY <1>6 DEF CopyStarts, CopyEnds, Step
    <2> QED BY <1>0, <2>1, <2>2, <2>3 DEF TypeOK, Shape, Mounted, drive, Rewritten, Filled
  <1>7. CASE Truncate
    <2>1. Mounted(drive) /\ held \in Files
      BY <1>7, Names DEF Truncate, Shape, Rewritten, Mounted, held
    <2>2. files' \in [Files -> ImageFile]
      BY <1>7, <2>1, FormEffect DEF Truncate, File, Forms, TypeOK
    <2> QED BY <1>3, <1>7, <2>2 DEF Truncate, TypeOK
  <1> QED BY <1>1, <1>2, <1>4, <1>5, <1>6, <1>7

LEMMA ShapeInsert ==
    ASSUME TypeOK, Shape,
           Nothing \/ InsertProtected \/ Fail \/ Inflate \/ Inflated \/ InflateFails \/ InsertRaw \/ Map
    PROVE  TypeOK' /\ Shape'
  <1>0. drive \in Drives /\ Drives = {0, 1} /\ Drives = {drive, 1 - drive} /\ NoDrive \notin Drives
    BY Names DEF Drives, NoDrive
  <1>1. ASSUME Pop, stage # "idle", UNCHANGED <<files, flushing>>, disk' \in [Drives -> Diskette],
               packed' \in Contents, recorded' \in [Files -> Contents], damaged' \subseteq Files
        PROVE  TypeOK' /\ Shape'
    BY <1>0, <1>1, PopEffect, PopShape DEF TypeOK, Shape, Rewritten, Filled
  <1>2. ASSUME wanted # NoFile PROVE wanted \in Files /\ files[wanted] \in ImageFile /\ Readable(wanted) \in Contents
    BY <1>2, Names DEF TypeOK, Readable, ImageFile, Contents
  <1>3. CASE Nothing \/ Fail \/ InflateFails
    <2>1. InflateFails => wanted \in Files
      BY <1>2 DEF InflateFails, Shape
    <2> QED BY <1>1, <1>3, <2>1 DEF Nothing, Fail, InflateFails, TypeOK
  <1>4. CASE InsertProtected
    <2>1. disk' \in [Drives -> Diskette]
      BY <1>2, <1>4, InsertedEffect DEF InsertProtected
    <2> QED BY <1>1, <1>4, <2>1 DEF InsertProtected, TypeOK
  <1>5. CASE Map
    <2>1. wanted \in Files /\ files[wanted].content \in Contents /\ Bytes(wanted) \in Contents
      BY <1>2, <1>5 DEF Map, Shape, ImageFile, Bytes, Contents
    <2>2. disk' \in [Drives -> Diskette]
      BY <1>5, <2>1, InsertedEffect DEF Map
    <2>3. recorded' \in [Files -> Contents] /\ damaged' \subseteq Files
      BY <1>5, <2>1 DEF Map, TypeOK
    <2> QED BY <1>1, <1>5, <2>2, <2>3 DEF Map, TypeOK
  <1>6. CASE Inflate \/ Inflated \/ InsertRaw
    <2>1. wanted \in Files /\ files[wanted] \in ImageFile /\ Readable(wanted) \in Contents /\ wanted # NoFile
      BY <1>2, <1>6 DEF Inflate, Inflated, InsertRaw, Shape
    <2>2. files' \in [Files -> ImageFile] /\ packed' \in Contents
      BY <1>6, <2>1, FileEffect, FormEffect DEF Inflate, Inflated, InsertRaw, File, Forms, TypeOK
    <2>3. /\ UNCHANGED <<disk, todo, flushing, recorded, damaged>> /\ stage \in {"insert", "inflate"}
          /\ stage' \in {"inflate", "map"}
      BY <1>6 DEF Inflate, Inflated, InsertRaw, Step
    <2> QED BY <1>0, <2>1, <2>2, <2>3 DEF TypeOK, Shape, Mounted, drive, wanted, Rewritten, Filled
  <1> QED BY <1>3, <1>4, <1>5, <1>6

LEMMA ShapeNext == TypeOK /\ Shape /\ [Next]_vars => TypeOK' /\ Shape'
  <1> SUFFICES ASSUME TypeOK, Shape, [Next]_vars PROVE TypeOK' /\ Shape'
    OBVIOUS
  <1>1. CASE Crash
    <2>1. \A g \in Files : Rewriting(g) \in BOOLEAN
      BY DEF Rewriting
    <2> QED BY <1>1, <2>1, EmptyType DEF Crash, TypeOK, Shape, Done, Drives, NoDrive, Rewritten, Filled
  <1>2. CASE UNCHANGED vars
    BY <1>2 DEF vars, TypeOK, Shape, Mounted, drive, wanted, Rewritten, Filled
  <1> QED BY <1>1, <1>2, ShapeMachine, ShapeEject, ShapeInsert DEF Next, Drives

-----------------------------------------------------------------------------
(* The images                                                               *)

\* The form of the file that drive e has mapped
MappedForm(e) == IF e = drive /\ stage = "copied" THEN "torn"
                 ELSE IF e = drive /\ stage = "truncate" THEN "both" ELSE "raw"

Mappings == \A e \in Drives : Mounted(e) => /\ files[disk[e].file].form = MappedForm(e)
                                            /\ disk[e].file \notin damaged

\* No file is in both drives, or on its way to the second one.
Separate ==
    /\ disk[0].file # NoFile => disk[0].file # disk[1].file
    /\ stage # "idle" /\ wanted # NoFile => wanted # disk[1 - drive].file
    /\ todo[0].pending /\ todo[1].file # NoFile => todo[1].file # todo[0].file

\* What the operation has in its hands
Work ==
    /\ stage \in Rewritten => ~disk[drive].track_dirty
    /\ stage \in {"copy", "copied", "truncate"} => packed = recorded[held]
    /\ stage = "inflate" => files[wanted].form \in {"torn", "short"} /\ (packed = recorded[wanted] \/ wanted \in damaged)
    /\ stage = "map" => files[wanted].form = "raw"
    /\ flushing \in Drives => recorded[disk[flushing].file] = disk[flushing].image \/ disk[flushing].raced

Safe == Mappings /\ Separate /\ Work /\ ImageSurvives /\ CleanIsSaved

LEMMA SafeInit == Init => Safe
  BY DEF NoDrive, Init, Safe, Mappings, Separate, Work, ImageSurvives, CleanIsSaved, Mounted, Empty, Done, Drives, Rewriting,
     Rewritten, InWork

\* A drive decodes a track into its raw file and nothing else.
LEMMA SafeDecode ==
    ASSUME TypeOK, Safe, NEW e \in Drives, Mounted(e), Decode(e), MappedForm(e) = "raw"
    PROVE  LET g == disk[e].file
           IN /\ g \in Files /\ files'[g].form = "raw" /\ files'[g].content = disk[e].image
              /\ recorded'[g] = disk[e].image
              /\ \A h \in Files : h # g => files'[h] = files[h] /\ recorded'[h] = recorded[h]
  BY DecodeEffect DEF Safe, Mappings, Overwritten

\* The track that drive e has saved is as it has it.
LEMMA SafeSave ==
    ASSUME TypeOK, Shape, Safe, NEW e \in Drives, Mounted(e), Decode(e), Kept(e), disk'[e].image = disk[e].image,
           \A a \in Drives : a # e => disk'[a] = disk[a], UNCHANGED <<todo, packed, damaged>>,
           \/ stage = "idle" /\ stage' = "idle" /\ flushing' \in {flushing, e}
           \/ stage = "eject" /\ stage' = "deflate" /\ e = drive /\ ~disk'[e].track_dirty /\ UNCHANGED flushing
    PROVE  Safe'
  <1> DEFINE g == disk[e].file
  <1>1. /\ g \in Files /\ files'[g].form = "raw" /\ files'[g].content = disk[e].image /\ recorded'[g] = disk[e].image
        /\ \A h \in Files : h # g => files'[h] = files[h] /\ recorded'[h] = recorded[h]
    BY SafeDecode DEF MappedForm
  <1>2. /\ Drives = {0, 1} /\ drive' = drive /\ \A a \in Drives : Mounted(a)' = Mounted(a)
        /\ \A a \in Drives : disk'[a].file = disk[a].file /\ (Mounted(a) => disk[a].file \in Files)
    <2>1. Drives = {0, 1} /\ drive' = drive /\ \A a \in Drives : Kept(a) /\ disk[a] \in Diskette
      BY SameDrive DEF Drives, Kept, TypeOK
    <2> QED BY <2>1 DEF Kept, Mounted, Diskette
  <1>3. disk'[e].file = g /\ \A a \in Drives : a # e => disk[a].file # g
    BY <1>2 DEF Safe, Separate, Mounted
  <1> HIDE DEF g
  <1>4. Mappings' /\ Separate'
    <2>1. Mappings'
      BY <1>1, <1>2, <1>3 DEF Safe, Mappings, MappedForm
    <2>2. wanted' = wanted /\ drive \in Drives /\ 1 - drive \in Drives
      BY <1>2, Names DEF wanted
    <2>3. Separate'
      BY <1>2, <2>2 DEF Safe, Separate, Shape, drive
    <2> QED BY <2>1, <2>3
  <1>5. ImageSurvives'
    BY <1>1, <1>2 DEF Safe, ImageSurvives, Rewriting, InWork
  <1>6. CleanIsSaved'
    BY <1>1, <1>2, <1>3 DEF Safe, CleanIsSaved, Kept
  <1>7. Work'
    <2>1. CASE stage = "idle"
      <3>1. flushing' \in Drives => recorded'[disk'[flushing'].file] = disk'[flushing'].image \/ disk'[flushing'].raced
        <4>1. CASE flushing' = e
          <5>1. recorded'[disk'[e].file] = disk'[e].image
            BY <1>1, <1>3
          <5> QED BY <4>1, <5>1, Zenon
        <4>2. CASE flushing' = flushing /\ flushing \in Drives /\ flushing # e
          <5>1. disk[flushing].file \in Files /\ disk[flushing].file # g /\ disk'[flushing] = disk[flushing]
            BY <1>2, <1>3, <4>2 DEF Shape, NoDrive, Drives
          <5>2. recorded'[disk[flushing].file] = recorded[disk[flushing].file]
            BY <1>1, <5>1
          <5> QED BY <4>2, <5>1, <5>2 DEF Safe, Work
        <4> QED BY <2>1, <4>1, <4>2
      <3> QED BY <2>1, <3>1 DEF Work, Rewritten
    <2>2. CASE stage = "eject"
      BY <1>2, <2>2 DEF Work, Rewritten, Shape, NoDrive, Drives
    <2> QED BY <2>1, <2>2
  <1> QED BY <1>4, <1>5, <1>6, <1>7 DEF Safe

LEMMA SafeMachine ==
    ASSUME TypeOK, Shape, Safe, NEW e \in Drives,
           (\E v \in Values : Write(e, v)) \/ Save(e) \/ FlushDecodes(e) \/ FlushCleans
    PROVE  Safe'
  <1>0. /\ (\A a \in Drives : Kept(a)) /\ UNCHANGED <<todo, stage>> /\ Drives = {0, 1} /\ drive' = drive
        /\ \A a \in Drives : disk[a] \in Diskette /\ Mounted(a)' = Mounted(a)
    BY ShapeMachine, SameDrive DEF Drives, TypeOK, Kept, Mounted
  <1>1. stage = "idle"
    <2>1. flushing \in Drives => stage = "idle"
      BY DEF Shape, NoDrive, Drives
    <2>2. (\E v \in Values : Write(e, v)) => Machine
      BY DEF Write
    <2>3. Save(e) \/ FlushDecodes(e) => Machine
      BY DEF Save, FlushDecodes
    <2> QED BY <2>1, <2>2, <2>3 DEF FlushCleans, Machine
  <1>2. CASE \E v \in Values : Write(e, v)
    <2>1. PICK v \in Values : Write(e, v)
      BY <1>2
    <2>2. /\ disk'[e].track_dirty = TRUE /\ (flushing = e => disk'[e].raced = TRUE)
          /\ \A a \in Drives : a # e => disk'[a] = disk[a]
      <3>1. disk' = [disk EXCEPT ![e] = [disk[e] EXCEPT !.image = v, !.track_dirty = TRUE, !.raced = (flushing = e)]]
        BY <2>1, <1>0 DEF Write
      <3>2. v \in Contents /\ (flushing = e) \in BOOLEAN
        BY DEF Contents
      <3> QED BY <3>1, <3>2, FlagsEffect
    <2>3. UNCHANGED <<files, todo, stage, packed, flushing, recorded, damaged>>
      BY <2>1 DEF Write
    <2> QED BY <1>0, <1>1, <2>2, <2>3 DEF Safe, Mappings, MappedForm, Separate, Work, ImageSurvives, CleanIsSaved,
            Kept, Rewriting, Rewritten, InWork
  <1>3. CASE FlushCleans
    <2> DEFINE a == flushing
    <2>1. a \in Drives /\ disk[a].image \in Contents /\ disk[a].raced \in BOOLEAN
      BY <1>0, <1>3 DEF FlushCleans, Diskette
    <2>2. disk' = [disk EXCEPT ![a] = [disk[a] EXCEPT !.image = disk[a].image, !.track_dirty = FALSE, !.raced = disk[a].raced]]
      BY <1>0, <1>3, <2>1 DEF FlushCleans, Diskette, TypeOK
    <2>3. recorded[disk[a].file] = disk[a].image \/ disk[a].raced
      BY <2>1 DEF Safe, Work
    <2> HIDE DEF a
    <2>4. disk'[a].image = disk[a].image /\ disk'[a].raced = disk[a].raced /\ \A b \in Drives : b # a => disk'[b] = disk[b]
      BY <2>1, <2>2, FlagsEffect
    <2>5. flushing' \notin Drives /\ UNCHANGED <<files, packed, recorded, damaged>>
      BY <1>3 DEF FlushCleans, NoDrive, Drives
    <2> QED BY <1>0, <1>1, <2>3, <2>4, <2>5 DEF Safe, Mappings, MappedForm, Separate, Work, ImageSurvives, CleanIsSaved,
            Kept, Rewriting, Rewritten, InWork
  <1>5. CASE Save(e)
    BY <1>1, <1>0, <1>5, SaveEffect, SafeSave DEF Save
  <1>6. CASE FlushDecodes(e)
    <2>1. disk' = [disk EXCEPT ![e] = [disk[e] EXCEPT !.image = disk[e].image, !.track_dirty = disk[e].track_dirty, !.raced = FALSE]]
      BY <1>0, <1>6 DEF FlushDecodes, Diskette, TypeOK
    <2>2. disk[e].image \in Contents /\ disk[e].track_dirty \in BOOLEAN
      BY <1>0 DEF Diskette
    <2>3. disk'[e].image = disk[e].image /\ \A a \in Drives : a # e => disk'[a] = disk[a]
      BY <2>1, <2>2, FlagsEffect
    <2> QED BY <1>1, <1>0, <1>6, <2>3, SafeSave DEF FlushDecodes
  <1> QED BY <1>2, <1>3, <1>5, <1>6

\* The drive is emptied: its file is raw, or compressed, as it was saved.
LEMMA SafeDrop ==
    ASSUME TypeOK, Shape, Safe, Drop("insert"), UNCHANGED <<todo, flushing, recorded, damaged>>,
           stage \in {"eject", "deflate", "truncate"},
           \/ UNCHANGED files
           \/ /\ held \in Files /\ Mounted(drive) /\ files'[held].form = "gz" /\ files'[held].content = files[held].content
              /\ \A h \in Files : h # held => files'[h] = files[h]
    PROVE  Safe'
  <1>1. /\ disk'[drive] = Empty /\ disk'[1 - drive] = disk[1 - drive] /\ drive' = drive /\ stage' = "insert"
        /\ flushing' \notin Drives
    BY DropEffect, SameDrive DEF Drop, Step, Shape, NoDrive, Drives
  <1>2. /\ drive \in Drives /\ 1 - drive \in Drives /\ 1 - drive # drive /\ Drives = {0, 1} /\ Drives = {drive, 1 - drive}
        /\ disk[1 - drive] \in Diskette /\ ~Mounted(drive)' /\ disk'[drive].file = NoFile
    BY <1>1, Names DEF Drives, TypeOK, Mounted, Empty
  <1>3. Mounted(1 - drive) => disk[1 - drive].file \in Files /\ disk[1 - drive].file # held
    BY <1>2 DEF Mounted, Diskette, Safe, Separate, held
  <1>4. Mounted(1 - drive)' = Mounted(1 - drive)
    BY <1>1, <1>2 DEF Mounted
  <1>5. Mappings'
    BY <1>1, <1>2, <1>3, <1>4 DEF Safe, Mappings, MappedForm
  <1>6. Separate'
    <2>1. wanted' = wanted
      BY <1>1 DEF wanted
    <2> QED BY <1>1, <1>2, <2>1 DEF Safe, Separate
  <1>7. ImageSurvives'
    BY <1>1 DEF Safe, ImageSurvives, Rewriting, InWork
  <1>8. CleanIsSaved'
    BY <1>1, <1>2, <1>4 DEF Safe, CleanIsSaved
  <1>9. Work'
    BY <1>1 DEF Work, Rewritten
  <1> QED BY <1>5, <1>6, <1>7, <1>8, <1>9 DEF Safe

LEMMA SafeRequest ==
    ASSUME ~Shared, TypeOK, Shape, Safe, Request
    PROVE  Safe'
  <1>1. /\ stage = "idle" /\ stage' = "eject" /\ UNCHANGED <<files, disk, packed, flushing, recorded, damaged>>
        /\ flushing \notin Drives
    BY DEF Request, Machine, Step, NoDrive, Drives
  <1>2. \A e \in Drives : Mounted(e)' = Mounted(e)
    BY <1>1 DEF Mounted
  <1>3. PICK asked \in [Drives -> Asked] : /\ \E e \in Drives : asked[e].pending
                                           /\ \A e \in Drives : asked[e].pending \/ asked[e] = Done
                                           /\ Apart(asked) /\ todo' = asked
    BY DEF Request
  <1>4. Separate'
    <2>1. drive' = (IF asked[0].pending THEN 0 ELSE 1) /\ wanted' = asked[drive'].file
      BY <1>3 DEF drive, wanted
    <2> QED BY <1>1, <1>3, <2>1 DEF Safe, Separate, Apart
  <1>5. Mappings'
    BY <1>1, <1>2 DEF Safe, Mappings, MappedForm
  <1>6. ImageSurvives' /\ CleanIsSaved' /\ Work'
    BY <1>1, <1>2 DEF Safe, ImageSurvives, CleanIsSaved, Work, Rewriting, InWork, Rewritten
  <1> QED BY <1>4, <1>5, <1>6 DEF Safe

\* The compressed data are copied over the mapping.
LEMMA SafeCopy ==
    ASSUME TypeOK, Shape, Safe, CopyStarts \/ CopyEnds
    PROVE  Safe'
  <1>1. /\ UNCHANGED <<disk, todo, packed, flushing, recorded, damaged>> /\ drive' = drive /\ held' = held
        /\ \/ stage = "copy" /\ stage' = "copied"
           \/ stage = "copied" /\ stage' = "truncate"
        /\ Mounted(drive) /\ flushing \notin Drives
    BY SameDrive DEF CopyStarts, CopyEnds, Step, Shape, Rewritten, NoDrive, Drives, held
  <1>2. /\ drive \in Drives /\ 1 - drive # drive /\ Drives = {0, 1} /\ Drives = {drive, 1 - drive} /\ held \in Files
        /\ disk[1 - drive] \in Diskette /\ 1 - drive \in Drives
    BY <1>1, Names DEF Drives, Mounted, held, TypeOK
  <1>3. /\ files'[held].form = (IF stage = "copy" THEN "torn" ELSE "both") /\ files'[held].content = recorded[held]
        /\ \A h \in Files : h # held => files'[h] = files[h]
    <2>1. held \notin damaged /\ files[held].form = (IF stage = "copy" THEN "raw" ELSE "torn")
      BY <1>1, <1>2 DEF Safe, Mappings, MappedForm, held
    <2>2. CASE stage = "copy"
      <3>1. files[held].content = recorded[held]
        BY <1>2, <2>1, <2>2 DEF Safe, ImageSurvives, InWork
      <3> QED BY <1>2, <2>1, <2>2, <3>1, FormEffect DEF CopyStarts, CopyEnds, File, Copying, Forms
    <2>3. CASE stage = "copied"
      <3>1. packed = recorded[held] /\ packed \in Contents
        BY <2>3 DEF Safe, Work, TypeOK
      <3>2. File(held, [form |-> "both", content |-> packed])
        BY <2>1, <2>3 DEF CopyStarts, CopyEnds
      <3> QED BY <1>2, <2>3, <3>1, <3>2, FileEffect DEF File, Forms
    <2> QED BY <1>1, <2>2, <2>3
  <1>4. \A a \in Drives : Mounted(a)' = Mounted(a) /\ (Mounted(a) => disk[a].file \in Files)
    BY <1>1 DEF Mounted, TypeOK, Diskette
  <1>5. Mounted(1 - drive) => disk[1 - drive].file # held
    BY <1>2 DEF Mounted, Safe, Separate, held
  <1>6. Mappings'
    BY <1>1, <1>2, <1>3, <1>4, <1>5 DEF Safe, Mappings, MappedForm, held
  <1>7. Separate'
    <2>1. wanted' = wanted
      BY <1>1 DEF wanted
    <2> QED BY <1>1, <2>1 DEF Safe, Separate
  <1>8. ImageSurvives'
    BY <1>1, <1>3 DEF Safe, ImageSurvives, Rewriting, InWork
  <1>9. CleanIsSaved'
    BY <1>1, <1>4 DEF Safe, CleanIsSaved
  <1>10. Work'
    BY <1>1 DEF Safe, Work, Rewritten
  <1> QED BY <1>6, <1>7, <1>8, <1>9, <1>10 DEF Safe

LEMMA SafeEject ==
    ASSUME TypeOK, Shape, Safe, Eject \/ zlib_deflate_buffer \/ CopyStarts \/ CopyEnds \/ Truncate
    PROVE  Safe'
  <1>1. CASE Eject /\ ~Mounted(drive)
    BY <1>1, SafeDrop DEF Eject
  <1>2. CASE Eject /\ Mounted(drive)
    <2>1. Flush /\ UNCHANGED <<todo, packed, flushing, damaged>> /\ stage = "eject" /\ stage' = "deflate"
      BY <1>2 DEF Eject, Flush, Step
    <2>2. CASE disk[drive].track_dirty
      <3>1. save_track_data(drive) /\ drive \in Drives
        BY <2>1, <2>2, Names DEF Flush
      <3> QED BY <1>2, <2>1, <3>1, SaveEffect, SafeSave
    <2>3. CASE ~disk[drive].track_dirty
      <3>1. UNCHANGED <<files, disk, recorded>> /\ drive' = drive /\ flushing \notin Drives
        BY <2>1, <2>3, SameDrive DEF Flush, Shape, NoDrive, Drives
      <3>2. wanted' = wanted /\ \A a \in Drives : Mounted(a)' = Mounted(a)
        BY <2>1, <3>1 DEF wanted, Mounted
      <3> QED BY <2>1, <2>3, <3>1, <3>2 DEF Safe, Mappings, MappedForm, Separate, Work, ImageSurvives, CleanIsSaved,
              Rewriting, Rewritten, InWork
    <2> QED BY <2>2, <2>3
  <1>3. CASE zlib_deflate_buffer /\ Drop("insert")
    BY <1>3, SafeDrop DEF zlib_deflate_buffer
  <1>4. CASE zlib_deflate_buffer /\ packed' \in Deflated /\ Step("copy") /\ UNCHANGED disk
    <2>1. /\ UNCHANGED <<files, disk, todo, flushing, recorded, damaged>> /\ stage = "deflate" /\ stage' = "copy"
          /\ drive' = drive /\ flushing \notin Drives
      BY <1>4, SameDrive DEF zlib_deflate_buffer, Step, Shape, NoDrive, Drives
    <2>2. Mounted(drive) /\ held \in Files
      BY <2>1, Names DEF Shape, Rewritten, Mounted, held
    <2>3. files[held].form = "raw" /\ held \notin damaged
      BY <2>1, <2>2, Names DEF Safe, Mappings, MappedForm, held
    <2>4. packed' = recorded[held]
      BY <1>4, <2>1, <2>2, <2>3 DEF Deflated, Bytes, Safe, ImageSurvives, InWork
    <2>5. wanted' = wanted /\ held' = held /\ \A a \in Drives : Mounted(a)' = Mounted(a)
      BY <2>1 DEF wanted, held, Mounted
    <2> QED BY <2>1, <2>4, <2>5 DEF Safe, Mappings, MappedForm, Separate, Work, ImageSurvives, CleanIsSaved,
            Rewriting, Rewritten, InWork
  <1>5. CASE Truncate
    <2>1. Mounted(drive) /\ held \in Files /\ stage = "truncate"
      BY <1>5, Names DEF Truncate, Shape, Rewritten, Mounted, held
    <2>2. UNCHANGED files \/ File(held, [files[held] EXCEPT !.form = "gz"])
      BY <1>5 DEF Truncate
    <2>3. File(held, [files[held] EXCEPT !.form = "gz"]) =>
              /\ files'[held].form = "gz" /\ files'[held].content = files[held].content
              /\ \A h \in Files : h # held => files'[h] = files[h]
      BY <2>1, FormEffect DEF File, Forms
    <2> QED BY <1>5, <2>1, <2>2, <2>3, SafeDrop DEF Truncate
  <1> QED BY <1>1, <1>2, <1>3, <1>4, <1>5, SafeCopy DEF Eject, zlib_deflate_buffer

\* The drive is done with, filled or not.
LEMMA SafePop ==
    ASSUME TypeOK, Shape, Safe, Pop, stage \in Filled, wanted # NoFile \/ UNCHANGED damaged,
           UNCHANGED <<files, flushing>>, disk' \in [Drives -> Diskette], disk'[1 - drive] = disk[1 - drive],
           \A h \in Files : h # wanted => recorded'[h] = recorded[h],
           damaged' \in {damaged, damaged \cup {wanted}, damaged \ {wanted}},
           wanted = NoFile => UNCHANGED <<disk, recorded, damaged>>,
           stage = "inflate" => wanted \in damaged',
           wanted \in Files => wanted \in damaged' \/ (~Rewriting(wanted) /\ files[wanted].content = recorded'[wanted]),
           \/ disk'[drive].file = NoFile
           \/ /\ disk'[drive].file = wanted /\ wanted # NoFile
              /\ disk'[drive].is_protected \/ /\ files[wanted].form = "raw" /\ wanted \notin damaged'
                                              /\ disk'[drive].image = recorded'[wanted]
    PROVE  Safe'
  <1>0. PICK d \in Drives, o \in Drives, w \in Files \cup {NoFile} : d = drive /\ o = 1 - drive /\ w = wanted
    BY Names
  <1>1. /\ o # d /\ Drives = {0, 1} /\ Drives = {d, o} /\ disk[d].file = NoFile /\ disk[o] \in Diskette /\ disk'[o] = disk[o]
        /\ stage' \in {"idle", "eject"} /\ flushing' \notin Drives /\ stage # "idle" /\ disk'[d].file \in {NoFile, w}
    BY <1>0, Names, PopEffect DEF Drives, TypeOK, Shape, NoDrive, Filled
  <1>2. Mounted(o)' = Mounted(o) /\ (Mounted(o) => disk[o].file \in Files)
    BY <1>1 DEF Mounted, Diskette
  <1>3. w # NoFile => w # disk[o].file
    BY <1>0, <1>1 DEF Safe, Separate
  <1>4. Mappings'
    <2>1. Mounted(o) => files[disk[o].file].form = "raw" /\ disk[o].file \notin damaged
      BY <1>0, <1>1 DEF Safe, Mappings, MappedForm
    <2>2. Mounted(o)' => files'[disk'[o].file].form = "raw" /\ disk'[o].file \notin damaged'
      BY <1>0, <1>1, <1>2, <1>3, <2>1
    <2>3. Mounted(d)' => files'[disk'[d].file].form = "raw" /\ disk'[d].file \notin damaged'
      BY <1>0, <1>1 DEF Mounted
    <2>4. MappedForm(d)' = "raw" /\ MappedForm(o)' = "raw"
      BY <1>1 DEF MappedForm
    <2> QED BY <1>1, <2>2, <2>3, <2>4 DEF Mappings
  <1>5. Separate'
    <2>1. disk'[0].file # NoFile => disk'[0].file # disk'[1].file
      BY <1>1, <1>3 DEF Safe, Separate
    <2>2. stage' = "eject" => d = 0 /\ drive' = 1 /\ wanted' = todo[1].file
      BY <1>0, PopShape, PopEffect DEF wanted
    <2>3. d = 0 => todo[0].pending /\ w = todo[0].file
      BY <1>0 DEF drive, wanted
    <2>4. stage' # "idle" /\ wanted' # NoFile => wanted' # disk'[1 - drive'].file
      BY <1>1, <2>2, <2>3 DEF Safe, Separate
    <2>5. ~todo'[0].pending
      BY <1>0, <1>1, <2>2, PopShape, PopEffect DEF Done
    <2> QED BY <2>1, <2>4, <2>5 DEF Separate
  <1>6. ImageSurvives'
    <2> SUFFICES ASSUME NEW g \in Files
                 PROVE  g \in damaged' \/ (~Rewriting(g)' /\ files'[g].content = recorded'[g])
      BY DEF ImageSurvives
    <2>1. CASE g = w
      BY <1>0, <2>1 DEF Rewriting
    <2>2. CASE g # w
      <3>1. InWork(g) \/ g \in damaged \/ (~Rewriting(g) /\ files[g].content = recorded[g])
        BY DEF Safe, ImageSurvives
      <3>2. ~InWork(g)
        BY <1>0, <2>2 DEF InWork, Filled
      <3> QED BY <1>0, <2>2, <3>1, <3>2 DEF Rewriting
    <2> QED BY <2>1, <2>2
  <1>7. CleanIsSaved'
    <2>1. Mounted(o) => recorded'[disk[o].file] = recorded[disk[o].file]
      BY <1>0, <1>1, <1>2, <1>3
    <2>2. Mounted(o)' /\ ~disk'[o].track_dirty => recorded'[disk'[o].file] = disk'[o].image \/ disk'[o].raced
      BY <1>1, <1>2, <2>1 DEF Safe, CleanIsSaved
    <2>3. Mounted(d)' => recorded'[disk'[d].file] = disk'[d].image
      BY <1>0, <1>1 DEF Mounted
    <2> QED BY <1>1, <2>2, <2>3 DEF CleanIsSaved
  <1>8. Work'
    BY <1>1 DEF Work, Rewritten
  <1> QED BY <1>4, <1>5, <1>6, <1>7, <1>8 DEF Safe

\* The file to be inserted is made raw.
LEMMA SafeInflate ==
    ASSUME ~SeekFails, TypeOK, Shape, Safe, Inflate \/ Inflated \/ InsertRaw
    PROVE  Safe'
  <1>1. /\ wanted \in Files /\ files[wanted] \in ImageFile /\ Readable(wanted) \in Contents /\ wanted # NoFile
        /\ disk[drive].file = NoFile /\ flushing \notin Drives
    BY Names DEF Inflate, Inflated, InsertRaw, Shape, Filled, TypeOK, Readable, ImageFile, Contents, NoDrive, Drives
  <1>2. /\ UNCHANGED <<disk, todo, flushing, recorded, damaged>> /\ drive' = drive /\ wanted' = wanted /\ stage # "idle"
        /\ \/ stage = "insert" /\ stage' \in {"inflate", "map"}
           \/ stage = "inflate" /\ stage' = "map"
    BY SameDrive DEF Inflate, Inflated, InsertRaw, Step, wanted
  <1>3. /\ \A h \in Files : h # wanted => files'[h] = files[h]
        /\ stage' = "map" => files'[wanted].form = "raw" /\ (files'[wanted].content = recorded[wanted] \/ wanted \in damaged)
        /\ stage' = "inflate" => /\ files'[wanted].form \in {"torn", "short"}
                                 /\ packed' = recorded[wanted] \/ wanted \in damaged
    <2>1. CASE Inflate
      <3>0. /\ files[wanted].form \in {"gz", "both"} /\ packed' = Readable(wanted) /\ stage = "insert" /\ Step("inflate")
            /\ File(wanted, [files[wanted] EXCEPT !.form = IF @ = "gz" THEN "short" ELSE "torn"])
        <4>1. PICK fails \in {FALSE, SeekFails} :
                  IF fails THEN Step("map") /\ UNCHANGED files
                  ELSE /\ Step("inflate")
                       /\ File(wanted, [files[wanted] EXCEPT !.form = IF @ = "gz" THEN "short" ELSE "torn"])
          BY <2>1 DEF Inflate
        <4>2. ~fails
          BY <4>1, Zenon
        <4> QED BY <2>1, <4>1, <4>2 DEF Inflate
      <3>1. /\ files[wanted].form \in {"gz", "both"} /\ packed' = files[wanted].content /\ stage = "insert"
            /\ stage' = "inflate"
        BY <3>0 DEF Readable, Step
      <3>2. files[wanted].content = recorded[wanted] \/ wanted \in damaged
        BY <1>1, <3>1 DEF Safe, ImageSurvives, InWork
      <3>3. File(wanted, [files[wanted] EXCEPT !.form = IF files[wanted].form = "gz" THEN "short" ELSE "torn"])
        BY <1>1, <3>0 DEF ImageFile
      <3> QED BY <1>1, <3>1, <3>2, <3>3, FormEffect DEF File, Forms
    <2>2. CASE Inflated
      <3>1. stage = "inflate" /\ stage' = "map" /\ File(wanted, [form |-> "raw", content |-> packed]) /\ packed \in Contents
        BY <2>2 DEF Inflated, Step, TypeOK
      <3> QED BY <1>1, <3>1, FileEffect DEF File, Forms, Safe, Work
    <2>3. CASE InsertRaw
      <3>1. /\ stage = "insert" /\ stage' = "map" /\ File(wanted, [form |-> "raw", content |-> Readable(wanted)])
            /\ files[wanted].form \in {"raw", "torn"}
        BY <2>3 DEF InsertRaw, Step
      <3>2. Readable(wanted) = recorded[wanted] \/ wanted \in damaged
        BY <1>1, <3>1 DEF Safe, ImageSurvives, InWork, Readable, Rewriting
      <3> QED BY <1>1, <3>1, <3>2, FileEffect DEF File, Forms
    <2> QED BY <2>1, <2>2, <2>3
  <1>4. /\ drive \in Drives /\ Drives = {drive, 1 - drive} /\ 1 - drive # drive /\ ~Mounted(drive) /\ Drives = {0, 1}
        /\ \A a \in Drives : Mounted(a)' = Mounted(a) /\ (Mounted(a) => disk[a].file \in Files)
    BY <1>1, <1>2, Names DEF Mounted, Drives, TypeOK, Diskette
  <1>5. Mounted(1 - drive) => disk[1 - drive].file # wanted
    BY <1>1, <1>2 DEF Safe, Separate
  <1>6. Mappings'
    BY <1>1, <1>2, <1>3, <1>4, <1>5 DEF Safe, Mappings, MappedForm
  <1>7. Separate'
    BY <1>2 DEF Safe, Separate
  <1>8. ImageSurvives'
    <2>1. CASE stage' = "map"
      BY <1>1, <1>2, <1>3, <2>1 DEF Safe, ImageSurvives, Rewriting, InWork
    <2>2. CASE stage' = "inflate"
      BY <1>1, <1>2, <1>3, <2>2 DEF Safe, ImageSurvives, Rewriting, InWork
    <2> QED BY <1>2, <2>1, <2>2
  <1>9. CleanIsSaved'
    BY <1>2, <1>4 DEF Safe, CleanIsSaved
  <1>10. Work'
    BY <1>1, <1>2, <1>3 DEF Work, Rewritten
  <1> QED BY <1>6, <1>7, <1>8, <1>9, <1>10 DEF Safe

LEMMA SafeInsert ==
    ASSUME ~SeekFails, TypeOK, Shape, Safe,
           Nothing \/ InsertProtected \/ Fail \/ Inflate \/ Inflated \/ InflateFails \/ InsertRaw \/ Map
    PROVE  Safe'
  <1>1. /\ disk \in [Drives -> Diskette] /\ drive \in Drives /\ wanted \in Files \cup {NoFile} /\ todo[drive].readonly \in BOOLEAN
        /\ stage \in Filled => disk[drive].file = NoFile
    BY Names DEF TypeOK, Shape, Asked
  <1>2. stage = "insert" /\ wanted \in Files => wanted \in damaged \/ (~Rewriting(wanted) /\ files[wanted].content = recorded[wanted])
    BY DEF Safe, ImageSurvives, InWork
  <1>3. stage = "map" /\ wanted \in Files =>
            files[wanted].form = "raw" /\ (wanted \in damaged \/ files[wanted].content = recorded[wanted])
    BY DEF Safe, ImageSurvives, InWork, Work
  <1>4. CASE Nothing
    <2>1. stage = "insert" /\ wanted = NoFile /\ Pop /\ UNCHANGED <<files, disk, packed, flushing, recorded, damaged>>
      BY <1>4 DEF Nothing
    <2>2. NoFile \notin Files
      BY NamesAssumption
    <2> QED BY <1>1, <2>1, <2>2, SafePop DEF Filled
  <1>5. CASE Fail
    <2>1. /\ stage \in {"insert", "map"} /\ wanted \in Files /\ wanted # NoFile /\ Pop
          /\ UNCHANGED <<files, disk, packed, flushing, recorded, damaged>>
      BY <1>1, <1>5 DEF Fail
    <2>2. wanted \in damaged \/ (~Rewriting(wanted) /\ files[wanted].content = recorded[wanted])
      BY <1>2, <1>3, <2>1 DEF Rewriting
    <2> QED BY <1>1, <2>1, <2>2, SafePop DEF Filled
  <1>6. CASE InflateFails
    <2>1. /\ stage = "inflate" /\ wanted \in Files /\ wanted # NoFile /\ Pop /\ damaged' = damaged \cup {wanted}
          /\ UNCHANGED <<files, disk, packed, flushing, recorded>>
      BY <1>1, <1>6 DEF InflateFails, Shape
    <2>2. wanted \in damaged'
      BY <2>1
    <2> QED BY <1>1, <2>1, <2>2, SafePop DEF Filled
  <1>7. CASE InsertProtected
    <2>1. /\ stage = "insert" /\ wanted \in Files /\ wanted # NoFile /\ Pop /\ todo[drive].readonly
          /\ Inserted(Readable(wanted)) /\ UNCHANGED <<files, packed, flushing, recorded, damaged>>
      BY <1>1, <1>7 DEF InsertProtected
    <2>2. Readable(wanted) \in Contents
      BY <2>1 DEF Readable, TypeOK, ImageFile, Contents
    <2> QED BY <1>1, <1>2, <2>1, <2>2, InsertedEffect, SafePop DEF Filled
  <1>8. CASE Map
    <2>1. /\ stage = "map" /\ wanted \in Files /\ wanted # NoFile /\ Pop /\ Inserted(files[wanted].content)
          /\ UNCHANGED <<files, packed, flushing>> /\ damaged' = damaged \ {wanted} /\ files[wanted].content \in Contents
      BY <1>1, <1>3, <1>8 DEF Map, Shape, TypeOK, ImageFile, Bytes
    <2>2. recorded' = IF wanted \in damaged THEN [recorded EXCEPT ![wanted] = files[wanted].content] ELSE recorded
      BY <1>8 DEF Map
    <2>3. recorded'[wanted] = files[wanted].content /\ \A h \in Files : h # wanted => recorded'[h] = recorded[h]
      BY <1>3, <2>1, <2>2 DEF TypeOK
    <2>4. ~Rewriting(wanted) /\ wanted \notin damaged' /\ files[wanted].form = "raw"
      BY <1>3, <2>1 DEF Rewriting
    <2> QED BY <1>1, <2>1, <2>3, <2>4, InsertedEffect, SafePop DEF Filled
  <1> QED BY <1>4, <1>5, <1>6, <1>7, <1>8, SafeInflate

LEMMA SafeCrash ==
    ASSUME TypeOK, Shape, Safe, Crash
    PROVE  Safe'
  <1>1. /\ \A e \in Drives : disk'[e] = Empty /\ todo'[e] = Done
        /\ stage' = "idle" /\ flushing' \notin Drives /\ UNCHANGED <<files, packed, recorded>>
    BY DEF Crash, NoDrive, Drives
  <1>2. \A g \in Files : InWork(g) => Rewriting(g)
    <2>1. stage = "copied" => held \in Files /\ files[held].form = "torn"
      BY Names DEF Shape, Rewritten, Mounted, Safe, Mappings, MappedForm, held
    <2>2. stage = "inflate" => files[wanted].form \in {"torn", "short"}
      BY DEF Safe, Work
    <2> QED BY <2>1, <2>2 DEF InWork, Rewriting
  <1>3. ImageSurvives'
    <2>1. damaged' = damaged \cup {g \in Files : Rewriting(g)}
      BY DEF Crash
    <2> QED BY <1>1, <1>2, <2>1 DEF Safe, ImageSurvives, Rewriting
  <1>4. \A e \in Drives : ~Mounted(e)'
    BY <1>1 DEF Mounted, Empty
  <1>5. Separate'
    <2>1. disk'[0].file = NoFile /\ ~todo'[0].pending
      BY <1>1 DEF Drives, Empty, Done
    <2> QED BY <1>1, <2>1 DEF Separate
  <1> QED BY <1>1, <1>3, <1>4, <1>5 DEF Safe, Mappings, CleanIsSaved, Work, Rewritten

LEMMA SafeNext == Whole /\ TypeOK /\ Shape /\ Safe /\ [Next]_vars => Safe'
  <1> SUFFICES ASSUME ~Shared, ~SeekFails, TypeOK, Shape, Safe, [Next]_vars PROVE Safe'
    BY DEF Whole
  <1>1. CASE UNCHANGED vars
    <2>1. UNCHANGED <<files, disk, todo, stage, packed, flushing, recorded, damaged>>
      BY <1>1 DEF vars
    <2>2. drive' = drive /\ held' = held /\ wanted' = wanted
      BY <2>1 DEF drive, held, wanted
    <2> QED BY <2>1, <2>2 DEF Safe, Mappings, MappedForm, Separate, Work, ImageSurvives, CleanIsSaved,
            Mounted, Rewriting, Rewritten, InWork
  <1> QED BY <1>1, SafeMachine, SafeRequest, SafeEject, SafeInsert, SafeCrash DEF Next, Drives

-----------------------------------------------------------------------------
(* Theorems                                                                 *)

\* The variables keep their types, and an operation goes through its stages with the drive and the file
\* it began with (disk6_eject, disk6_insert).
THEOREM TypesAndStages == Spec => [](TypeOK /\ Shape)
  <1>1. Init => TypeOK /\ Shape
    BY ShapeInit
  <1>2. TypeOK /\ Shape /\ [Next]_vars => (TypeOK /\ Shape)'
    BY ShapeNext
  <1> QED BY <1>1, <1>2, PTL DEF Spec

LEMMA AlwaysSafe == ASSUME Whole PROVE Spec => [](TypeOK /\ Shape /\ Safe)
  <1>1. Init => TypeOK /\ Shape /\ Safe
    BY ShapeInit, SafeInit
  <1>2. TypeOK /\ Shape /\ Safe /\ [Next]_vars => (TypeOK /\ Shape /\ Safe)'
    BY ShapeNext, SafeNext
  <1> QED BY <1>1, <1>2, PTL DEF Spec

\* If no image is inserted that the other drive has, and files can be wound back, a file holds what was last saved to it, whenever the
\* process is killed and whatever step fails, but for a kill within one of the two copies in place and an
\* inflation on a full host disk (disk6_eject, zlib_inflate_inplace).
THEOREM ImagesSurvive == ASSUME Whole PROVE Spec => []ImageSurvives
  <1>1. TypeOK /\ Shape /\ Safe => ImageSurvives
    BY DEF Safe
  <1> QED BY <1>1, AlwaysSafe, PTL

\* If no image is inserted that the other drive has, and files can be wound back, the mapping of a drive lies on a raw file of full
\* length as long as the machine runs (disk6_insert, disk6_eject).
THEOREM MappingsAreWhole == ASSUME Whole PROVE Spec => []MappingIsWhole
  <1>1. TypeOK /\ Shape /\ Safe => MappingIsWhole
    BY DEF Safe, Mappings, MappedForm, MappingIsWhole
  <1> QED BY <1>1, AlwaysSafe, PTL

\* If no image is inserted that the other drive has, and files can be wound back, a clean track is in the file as the drive has it, but
\* for a write within a flush of a running machine (save_track_data, nativeEmulationPause).
THEOREM CleanTracksAreSaved == ASSUME Whole PROVE Spec => []CleanIsSaved
  <1>1. TypeOK /\ Shape /\ Safe => CleanIsSaved
    BY DEF Safe
  <1> QED BY <1>1, AlwaysSafe, PTL

\* If no image is inserted that the other drive has, and files can be wound back, what the machine wrote is saved before an image leaves
\* its drive, unless the process is killed, or the write fell within a flush of a running machine
\* (disk6_eject, nativeEmulationPause).
THEOREM EjectionSaves == ASSUME Whole PROVE Spec => EjectionKeepsWrites
  <1> DEFINE Saves == \A e \in Drives :
                   Mounted(e) /\ disk'[e].file # disk[e].file => recorded'[disk[e].file] = disk[e].image \/ disk[e].raced \/ Crash
  <1>1. TypeOK /\ Shape /\ Safe /\ [Next]_vars => [Saves]_vars
    <2> SUFFICES ASSUME TypeOK, Shape, Safe, [Next]_vars, NEW e \in Drives, Mounted(e), disk'[e].file # disk[e].file, ~Crash
                 PROVE  recorded'[disk[e].file] = disk[e].image \/ disk[e].raced
      OBVIOUS
    <2>1. disk' # disk /\ Next
      BY DEF vars
    <2>2. PICK d \in Drives : d = drive
      BY Names
    <2>3. CASE stage \in Rewritten /\ Drop("insert") /\ UNCHANGED recorded
      <3>1. e = d
        BY <2>2, <2>3, Names, DropEffect DEF Drop
      <3>2. ~disk[e].track_dirty
        BY <2>2, <2>3, <3>1 DEF Safe, Work
      <3> QED BY <2>3, <3>2 DEF Safe, CleanIsSaved
    <2>4. ASSUME NEW c, Inserted(c), stage \in Filled PROVE FALSE
      <3>1. disk[d].file = NoFile
        BY <2>2, <2>4 DEF Shape
      <3>2. \A a \in Drives : a # d => disk'[a] = disk[a]
        BY <2>2, <2>4 DEF Inserted, TypeOK
      <3> QED BY <3>1, <3>2 DEF Mounted
    <2>5. ASSUME NEW a \in Drives, (\E v \in Values : Write(a, v)) \/ Save(a) \/ FlushDecodes(a) \/ FlushCleans PROVE FALSE
      BY <2>5, ShapeMachine DEF Kept
    <2>6. CASE Eject
      <3>1. CASE Mounted(drive) /\ Flush
        <4>1. disk[drive].track_dirty /\ save_track_data(drive)
          BY <2>1, <3>1 DEF Flush
        <4> QED BY <2>2, <3>1, <4>1, SaveEffect DEF Kept
      <3>2. CASE ~Mounted(drive) /\ Drop("insert")
        BY <2>2, <3>2, Names, DropEffect DEF Drop
      <3> QED BY <2>6, <3>1, <3>2 DEF Eject
    <2>7. CASE zlib_deflate_buffer
      BY <2>1, <2>3, <2>7 DEF zlib_deflate_buffer, Rewritten
    <2>8. CASE Truncate
      BY <2>3, <2>8 DEF Truncate, Rewritten
    <2>9. CASE InsertProtected \/ Map
      <3>1. Inserted(Readable(wanted)) \/ Inserted(Bytes(wanted))
        BY <2>9 DEF InsertProtected, Map
      <3>2. stage \in Filled
        BY <2>9 DEF InsertProtected, Map, Filled
      <3> QED BY <2>4, <3>1, <3>2
    <2>10. CASE Request \/ CopyStarts \/ CopyEnds \/ Nothing \/ Fail \/ Inflate \/ Inflated \/ InflateFails \/ InsertRaw
      BY <2>1, <2>10 DEF Request, CopyStarts, CopyEnds, Nothing, Fail, Inflate, Inflated, InflateFails, InsertRaw
    <2> QED BY <2>1, <2>5, <2>6, <2>7, <2>8, <2>9, <2>10 DEF Next, Drives
  <1> QED BY <1>1, AlwaysSafe, PTL DEF Spec, EjectionKeepsWrites

=============================================================================
