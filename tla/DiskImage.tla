------------------------------ MODULE DiskImage ------------------------------
(***************************************************************************)
(* The image files of the two drives on the host (src/src/disk.c and       *)
(* src/src/zlib-helpers.c): a file is inflated in place when it is         *)
(* inserted to be written, mapped while it is in the drive, and compressed *)
(* in place when it is ejected, if its name ends in .gz.  The process may  *)
(* be killed between any two steps; what it has stored stays in the file.  *)
(*                                                                         *)
(* The content of an image is one value, of which a drive has a copy of    *)
(* its own, as nibbles, until save_track_data() decodes it into the        *)
(* mapping (.dsk, .do, .po; see Disk6 for the tracks).                     *)
(***************************************************************************)
EXTENDS Naturals

CONSTANTS
    Files, NoFile,
    Compressed,         \* the files whose name ends in .gz
    Values, Junk,       \* contents of an image, and of what only looks like one
    Shared,             \* an image is inserted that the other drive has
    SeekFails           \* lseek() may fail on a file whose stream has just been read

ASSUME NamesAssumption ==
    Compressed \subseteq Files /\ NoFile \notin Files /\ Junk \notin Values
    /\ Shared \in BOOLEAN /\ SeekFails \in BOOLEAN

Drives == {0, 1}

Contents == Values \cup {Junk}

\* "both": a stream at the start of a file of full length; "torn", "short": a part of one over
\* the other, of full length or not.
Forms == {"raw", "gz", "both", "torn", "short"}

VARIABLES
    files,        \* form and content of each file
    disk,         \* file, is_protected, nib_image_data and track_dirty of each drive, and
                  \* whether it was written to within a flush of a running machine
    todo,         \* what the host's operation has still to do with each drive
    stage,        \* where it is with the first of those it empties and fills
    packed,       \* the compressed data
    flushing,     \* the drive whose track Android's flush has decoded, or a number that is none
    recorded,     \* the content last saved to each file
    damaged       \* files whose rewriting was broken off

vars == <<files, disk, todo, stage, packed, flushing, recorded, damaged>>

Empty == [file |-> NoFile, is_protected |-> FALSE, image |-> Junk, track_dirty |-> FALSE, raced |-> FALSE]

ImageFile == [form : Forms, content : Contents]

Diskette == [file : Files \cup {NoFile}, is_protected : BOOLEAN, image : Contents, track_dirty : BOOLEAN,
             raced : BOOLEAN]

Mounted(d) == disk[d].file # NoFile /\ ~disk[d].is_protected

NoDrive == 2

\* What is asked of a drive: to be emptied, and filled unless there is no file for it
Asked == [pending : BOOLEAN, file : Files \cup {NoFile}, readonly : BOOLEAN]
Done  == [pending |-> FALSE, file |-> NoFile, readonly |-> FALSE]

\* The drive at hand, the file it holds, the file it is to get
drive  == IF todo[0].pending THEN 0 ELSE 1
held   == disk[drive].file
wanted == todo[drive].file

\* What a mapping of the file g shows
Bytes(g) == IF files[g].form = "raw" THEN files[g].content ELSE Junk

Step(next) == stage' = next
Drop(next) == stage' = next /\ disk' = [disk EXCEPT ![drive] = Empty]

\* A step with the file g of the current operation
File(g, next) == files' = [files EXCEPT ![g] = next]

-----------------------------------------------------------------------------
(* Tracks                                                                   *)

\* What a file is after its mapping is written to
Overwritten(form) == CASE form = "both" -> "torn" [] form = "gz" -> "short" [] OTHER -> form

\* save_track_data() of drive e, up to the flag
Decode(e) ==
    LET g == disk[e].file
    IN /\ files' = [files EXCEPT ![g] = [form |-> Overwritten(@.form), content |-> disk[e].image]]
       /\ recorded' = [recorded EXCEPT ![g] = disk[e].image]

\* mutation of save_track_data: the track is forgotten.
ForgetTrack(e) == disk' = [disk EXCEPT ![e].track_dirty = FALSE, ![e].raced = FALSE] /\ UNCHANGED <<files, recorded>>

save_track_data(e) == Decode(e) /\ disk' = [disk EXCEPT ![e].track_dirty = FALSE, ![e].raced = FALSE]

Machine == stage = "idle"

\* _disk_readWriteByte()
Write(e, v) ==
    /\ Machine /\ Mounted(e)
    /\ disk' = [disk EXCEPT ![e].image = v, ![e].track_dirty = TRUE, ![e].raced = (flushing = e)]
    /\ UNCHANGED <<files, todo, stage, packed, flushing, recorded, damaged>>

\* The head leaves the track, or the state is saved: disk6_flush().
Save(e) ==
    /\ Machine /\ Mounted(e) /\ disk[e].track_dirty
    /\ save_track_data(e)
    /\ UNCHANGED <<todo, stage, packed, flushing, damaged>>

\* nativeEmulationPause() flushes the drives of a machine that may still run.
FlushDecodes(e) ==
    /\ Machine /\ flushing = NoDrive /\ Mounted(e) /\ disk[e].track_dirty
    /\ Decode(e) /\ flushing' = e
    /\ disk' = [disk EXCEPT ![e].raced = FALSE]
    /\ UNCHANGED <<todo, stage, packed, damaged>>

FlushCleans ==
    /\ flushing \in Drives
    /\ disk' = [disk EXCEPT ![flushing].track_dirty = FALSE] /\ flushing' = NoDrive
    /\ UNCHANGED <<files, todo, stage, packed, recorded, damaged>>

-----------------------------------------------------------------------------
(* disk6_eject()                                                            *)

\* mutation of Flush: the dirty track is left.
FlushNothing == Step("deflate") /\ UNCHANGED <<files, disk, recorded>>

Flush ==
    /\ Step("deflate")
    /\ IF disk[drive].track_dirty THEN save_track_data(drive) ELSE UNCHANGED <<files, disk, recorded>>

\* A protected image needs no more, for its file is not mapped.
Eject ==
    /\ stage = "eject"
    /\ \/ Mounted(drive) /\ Flush
       \/ ~Mounted(drive) /\ Drop("insert") /\ UNCHANGED <<files, recorded>>
    /\ UNCHANGED <<todo, packed, flushing, damaged>>

\* zlib_deflate_buffer() reads the mapping.
Deflated == {Bytes(held)}

\* mutation of zlib_deflate_buffer: a failure is not noticed.
DeflateAnyway ==
    /\ stage = "deflate"
    /\ packed' \in Deflated \cup {packed}
    /\ IF held \in Compressed THEN Step("copy") /\ UNCHANGED disk ELSE Drop("insert")
    /\ UNCHANGED <<files, todo, flushing, recorded, damaged>>

\* It may fail: the file stays as it is.
zlib_deflate_buffer ==
    /\ stage = "deflate"
    /\ \/ held \in Compressed /\ packed' \in Deflated /\ Step("copy") /\ UNCHANGED disk
       \/ packed' = packed /\ Drop("insert")
    /\ UNCHANGED <<files, todo, flushing, recorded, damaged>>

\* memcpy() over the start of the mapping
Copying(form) == IF form \in {"raw", "both", "torn"} THEN "torn" ELSE "short"

CopyStarts ==
    /\ stage = "copy" /\ Step("copied")
    /\ File(held, [files[held] EXCEPT !.form = Copying(@)])
    /\ UNCHANGED <<disk, todo, packed, flushing, recorded, damaged>>

CopyEnds ==
    /\ stage = "copied" /\ Step("truncate")
    /\ File(held, [form |-> IF files[held].form = "torn" THEN "both" ELSE "gz", content |-> packed])
    /\ UNCHANGED <<disk, todo, packed, flushing, recorded, damaged>>

\* munmap(), ftruncate(), which may fail, fsync(), close()
Truncate ==
    /\ stage = "truncate" /\ Drop("insert")
    /\ \/ File(held, [files[held] EXCEPT !.form = "gz"])
       \/ UNCHANGED files
    /\ UNCHANGED <<todo, packed, flushing, recorded, damaged>>

-----------------------------------------------------------------------------
(* disk6_insert()                                                           *)

\* On to the other drive, if it is asked for too
Pop ==
    /\ todo' = [todo EXCEPT ![drive] = Done]
    /\ stage' = IF todo[1 - drive].pending THEN "eject" ELSE "idle"

Inserted(content) ==
    disk' = [disk EXCEPT ![drive] = [file |-> wanted, is_protected |-> todo[drive].readonly, image |-> content,
                                 track_dirty |-> FALSE, raced |-> FALSE]]

\* zlib_inflate_to_buffer(); what does not inflate but is long enough is taken for an image.
Readable(g) == IF files[g].form = "torn" THEN Junk ELSE files[g].content

Nothing == stage = "insert" /\ wanted = NoFile /\ Pop
           /\ UNCHANGED <<files, disk, packed, flushing, recorded, damaged>>

InsertProtected ==
    /\ stage = "insert" /\ wanted # NoFile /\ todo[drive].readonly
    /\ files[wanted].form # "short" /\ Inserted(Readable(wanted))
    /\ Pop
    /\ UNCHANGED <<files, packed, flushing, recorded, damaged>>

\* The insertion fails: a short file, a file that cannot be opened, memory, a mapping.
Fail ==
    /\ stage \in {"insert", "map"} /\ wanted # NoFile
    /\ Pop
    /\ UNCHANGED <<files, disk, packed, flushing, recorded, damaged>>

\* zlib_inflate_inplace(): the stream is read, and the image is written over it.  A file that cannot
\* be wound back is left as it is, and taken for inflated.
Inflate ==
    /\ stage = "insert" /\ wanted # NoFile /\ ~todo[drive].readonly /\ files[wanted].form \in {"gz", "both"}
    /\ packed' = Readable(wanted)
    /\ \E fails \in {FALSE, SeekFails} :
           IF fails THEN Step("map") /\ UNCHANGED files
           ELSE /\ Step("inflate")
                /\ File(wanted, [files[wanted] EXCEPT !.form = IF @ = "gz" THEN "short" ELSE "torn"])
    /\ UNCHANGED <<disk, todo, flushing, recorded, damaged>>

Inflated ==
    /\ stage = "inflate" /\ Step("map")
    /\ File(wanted, [form |-> "raw", content |-> packed])
    /\ UNCHANGED <<disk, todo, packed, flushing, recorded, damaged>>

\* The host's disk is full: the image takes more room than the stream.
InflateFails ==
    /\ stage = "inflate" /\ Pop
    /\ damaged' = damaged \cup {wanted}
    /\ UNCHANGED <<files, disk, packed, flushing, recorded>>

\* mutation of InsertRaw: the length decides, not the magic.
InsertLong ==
    /\ stage = "insert" /\ wanted # NoFile /\ ~todo[drive].readonly /\ files[wanted].form \in {"raw", "torn", "both"}
    /\ Step("map")
    /\ UNCHANGED <<files, disk, todo, packed, flushing, recorded, damaged>>

\* No magic, or no stream after it, and long enough
InsertRaw ==
    /\ stage = "insert" /\ wanted # NoFile /\ ~todo[drive].readonly /\ files[wanted].form \in {"raw", "torn"}
    /\ File(wanted, [form |-> "raw", content |-> Readable(wanted)]) /\ Step("map")
    /\ UNCHANGED <<disk, todo, packed, flushing, recorded, damaged>>

\* What is mapped is the image from now on.
Map ==
    /\ stage = "map" /\ Inserted(Bytes(wanted))
    /\ recorded' = IF wanted \in damaged THEN [recorded EXCEPT ![wanted] = files[wanted].content] ELSE recorded
    /\ damaged' = damaged \ {wanted}
    /\ Pop
    /\ UNCHANGED <<files, packed, flushing>>

-----------------------------------------------------------------------------

\* Unless images are shared, the other drive does not have the file, and is not to get it.
Apart(asked) ==
    \/ Shared
    \/ /\ asked[0].file # NoFile => asked[0].file # disk[1].file
       /\ asked[1].file # NoFile =>
              asked[1].file # (IF asked[0].pending THEN asked[0].file ELSE disk[0].file)

\* The menus empty or fill a drive; emulator_loadState() empties and fills both, the first one
\* first; the shutdown empties them.
Request ==
    /\ Machine /\ flushing = NoDrive
    /\ \E asked \in [Drives -> Asked] :
           /\ \E e \in Drives : asked[e].pending
           /\ \A e \in Drives : asked[e].pending \/ asked[e] = Done
           /\ Apart(asked)
           /\ todo' = asked
    /\ Step("eject")
    /\ UNCHANGED <<files, disk, packed, flushing, recorded, damaged>>

Rewriting(g) == files[g].form \in {"torn", "short"}

\* The process is killed and starts again.
Crash ==
    /\ disk' = [e \in Drives |-> Empty] /\ todo' = [e \in Drives |-> Done] /\ stage' = "idle" /\ flushing' = NoDrive
    /\ damaged' = damaged \cup {g \in Files : Rewriting(g)}
    /\ UNCHANGED <<files, packed, recorded>>

Init ==
    /\ files \in [Files -> [form : {"raw", "gz"}, content : Values]]
    /\ disk = [e \in Drives |-> Empty]
    /\ todo = [e \in Drives |-> Done] /\ stage = "idle" /\ packed = Junk /\ flushing = NoDrive
    /\ recorded = [g \in Files |-> files[g].content] /\ damaged = {}

Next ==
    \/ \E e \in Drives, v \in Values : Write(e, v)
    \/ \E e \in Drives : Save(e) \/ FlushDecodes(e)
    \/ FlushCleans \/ Request
    \/ Eject \/ zlib_deflate_buffer \/ CopyStarts \/ CopyEnds \/ Truncate
    \/ Nothing \/ InsertProtected \/ Fail \/ Inflate \/ Inflated \/ InflateFails \/ InsertRaw \/ Map
    \/ Crash

Spec == Init /\ [][Next]_vars

-----------------------------------------------------------------------------
(* Properties                                                               *)

TypeOK ==
    /\ files \in [Files -> ImageFile] /\ disk \in [Drives -> Diskette]
    /\ todo \in [Drives -> Asked]
    /\ stage \in {"idle", "eject", "deflate", "copy", "copied", "truncate", "insert", "inflate", "map"}
    /\ packed \in Contents /\ flushing \in Drives \cup {NoDrive}
    /\ recorded \in [Files -> Contents] /\ damaged \subseteq Files

\* The file that the operation at hand rewrites
InWork(g) == (stage = "copied" /\ g = held) \/ (stage = "inflate" /\ g = wanted)

\* A file holds, raw or compressed, what was last saved to it, whenever the process is killed and
\* whatever step fails, but for a kill within one of the two copies over a file in use, or an
\* inflation that finds the host's disk full (disk6_eject, zlib_inflate_inplace).
ImageSurvives ==
    \A g \in Files : InWork(g) \/ g \in damaged \/ (~Rewriting(g) /\ files[g].content = recorded[g])

\* What the machine wrote is saved before an image leaves its drive, unless the process is killed,
\* or the machine wrote it between Android's decoding of the track and the clearing of its flag.
EjectionKeepsWrites ==
    [][ \A e \in Drives :
          Mounted(e) /\ disk'[e].file # disk[e].file => recorded'[disk[e].file] = disk[e].image \/ disk[e].raced \/ Crash ]_vars

\* The mapping of a drive lies on a raw file of full length: the other drive's ejection neither
\* compresses nor truncates it meanwhile.
MappingIsWhole ==
    \A e \in Drives :
        Mounted(e) => files[disk[e].file].form = "raw" \/ (e = drive /\ stage \in {"copied", "truncate"})

\* A track that is not dirty is in the file as the drive has it, and no write in between is lost.
CleanIsSavedAlways ==
    \A e \in Drives :
        Mounted(e) /\ ~disk[e].track_dirty => recorded[disk[e].file] = disk[e].image

\* But for a write within a flush of a running machine (src/Android/jni/jnihooks.c:245).
CleanIsSaved ==
    \A e \in Drives :
        Mounted(e) /\ ~disk[e].track_dirty => recorded[disk[e].file] = disk[e].image \/ disk[e].raced

==============================================================================
