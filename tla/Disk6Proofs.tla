------------------------------ MODULE Disk6Proofs ------------------------------
(***************************************************************************)
(* The drives lose no write: at any geometry and for any images, whatever  *)
(* programs access and users do.                                           *)
(***************************************************************************)
EXTENDS Disk6, FiniteSetTheorems, TLAPS

\* A diskette_t whose dirty track is the one in the buffer of an image that may be written.
Sound(k) == /\ k \in diskette_t
            /\ k.track_dirty => k.track_valid /\ k.image # NoImage /\ ~k.is_protected

SoundDrives == disk \in [Drives -> diskette_t] /\ \A d \in Drives : Sound(disk[d])

\* The files in the drives are there, and no image is in both.
Present == /\ DOMAIN files \subseteq Images /\ OneDrive(disk)
           /\ \A d \in Drives : disk[d].image # NoImage => disk[d].image \in DOMAIN files

Controls == /\ stepper_phases \subseteq 0 .. 3 /\ motor_off \in 0 .. SpinDown + 1
            /\ drive \in Drives /\ ddrw \in BOOLEAN

Inv == Controls /\ SoundDrives /\ Present

-----------------------------------------------------------------------------
(* A diskette_t                                                             *)

LEMMA ZeroPosition == 0 \in Positions
BY GeometryAssumption DEF Positions, Width

LEMMA OneChanged ==
    ASSUME SoundDrives, NEW e \in Drives, NEW k, Sound(k), disk' = [disk EXCEPT ![e] = k]
    PROVE  SoundDrives' /\ disk'[e] = k /\ \A d \in Drives \ {e} : disk'[d] = disk[d]
BY DEF SoundDrives, Sound

\* Off the track at a new phase, and empty or with another image, a diskette_t is clean.
LEMMA MovedIsSound ==
    ASSUME NEW k, Sound(k), NEW p \in 0 .. MaxPhase
    PROVE  LET m == [OffTrack(k) EXCEPT !.phase = p]
           IN  Sound(m) /\ ~m.track_dirty /\ m.image = k.image /\ m.is_protected = k.is_protected
BY DEF Sound, OffTrack, diskette_t

LEMMA EmptiedIsSound ==
    ASSUME NEW k, Sound(k), NEW i \in Images \cup {NoImage}, NEW readonly \in BOOLEAN
    PROVE  LET m == [Emptied(k) EXCEPT !.image = i, !.is_protected = readonly]
           IN  /\ Sound(m) /\ ~m.track_dirty /\ m.image = i
               /\ Sound(Emptied(k)) /\ ~Emptied(k).track_dirty /\ Emptied(k).image = NoImage
BY DEF Sound, OffTrack, Emptied, diskette_t

LEMMA NextPhaseBound ==
    ASSUME NEW magnets, NEW phase \in 0 .. MaxPhase
    PROVE  NextPhase(magnets, phase) \in 0 .. MaxPhase
BY GeometryAssumption DEF NextPhase, Direction

-----------------------------------------------------------------------------
(* Saving tracks                                                            *)

\* At most one drive has something to save for an image.
LEMMA OnePending ==
    ASSUME Inv, NEW i, NEW d \in Drives, NEW e \in Drives, Pending(d, i), Pending(e, i)
    PROVE  d = e
BY GeometryAssumption DEF Inv, Present, OneDrive, Pending, Drives

LEMMA SavedImage ==
    ASSUME Inv, NEW D \in SUBSET Drives, NEW i \in DOMAIN files
    PROVE  /\ \A d \in D : Pending(d, i) => save_track_data(D)[i] = Saved(d, i)
           /\ (\A d \in D : ~Pending(d, i)) => save_track_data(D)[i] = files[i]
<1>1. ASSUME NEW d \in D, Pending(d, i)
      PROVE  save_track_data(D)[i] = Saved(d, i)
  <2>1. \A e \in D : Pending(e, i) <=> e = d
    BY <1>1, OnePending
  <2>2. d = CHOOSE e \in D : Pending(e, i)
    BY <2>1
  <2> QED
    BY <1>1, <2>2 DEF save_track_data
<1>2. (\A d \in D : ~Pending(d, i)) => save_track_data(D)[i] = files[i]
  BY DEF save_track_data
<1> QED
  BY <1>1, <1>2

LEMMA SavedImagePrimed ==
    ASSUME Inv', NEW i \in DOMAIN files'
    PROVE  /\ \A d \in Drives : Pending(d, i)' => Medium'[i] = Saved(d, i)'
           /\ (\A d \in Drives : ~Pending(d, i)') => Medium'[i] = files'[i]
<1>1. ASSUME NEW d \in Drives, Pending(d, i)'
      PROVE  Medium'[i] = Saved(d, i)'
  <2>1. \A e \in Drives : Pending(e, i)' <=> e = d
    BY <1>1, GeometryAssumption DEF Inv, Present, OneDrive, Pending, Drives
  <2> QED
    BY <1>1, <2>1 DEF Medium, save_track_data
<1>2. (\A d \in Drives : ~Pending(d, i)') => Medium'[i] = files'[i]
  BY DEF Medium, save_track_data
<1> QED
  BY <1>1, <1>2

\* Saving the tracks of some drives, which are clean afterwards, changes nothing of what is
\* recorded.
LEMMA SavingKeeps ==
    ASSUME Inv, Inv', NEW D \in SUBSET Drives, files' = save_track_data(D),
           \A d \in D : ~disk'[d].track_dirty,
           \A d \in Drives \ D : disk'[d] = disk[d] /\ buffer'[d] = buffer[d]
    PROVE  Medium' = Medium
<1>1. DOMAIN files' = DOMAIN files
  BY DEF save_track_data
<1>2. /\ Medium = [i \in DOMAIN files |-> Medium[i]]
      /\ Medium' = [i \in DOMAIN files |-> Medium'[i]]
  BY <1>1 DEF Medium, save_track_data
<1>3. ASSUME NEW i \in DOMAIN files
      PROVE  Medium'[i] = Medium[i]
  <2>0. Drives \in SUBSET Drives
    OBVIOUS
  <2>1. ASSUME NEW d \in Drives, Pending(d, i)'
        PROVE  d \in Drives \ D /\ Pending(d, i)
    BY <2>1 DEF Pending
  <2>2. CASE \E d \in D : Pending(d, i)
    <3>1. PICK d \in D : Pending(d, i)
      BY <2>2
    <3>2. \A e \in Drives : ~Pending(e, i)'
      BY <2>1, <3>1, OnePending
    <3>3. Medium'[i] = files'[i]
      BY <1>1, <2>0, <3>2, SavedImagePrimed DEF Medium
    <3>4. Medium[i] = files'[i]
      BY <2>0, <3>1, SavedImage DEF Medium
    <3> QED
      BY <3>3, <3>4
  <2>3. CASE \A d \in D : ~Pending(d, i)
    <3>1. files'[i] = files[i]
      BY <2>3, SavedImage
    <3>2. \A d \in Drives : Pending(d, i)' <=> Pending(d, i)
      BY <2>1, <2>3 DEF Pending
    <3>3. CASE \E d \in Drives : Pending(d, i)
      <4>1. PICK d \in Drives : Pending(d, i)
        BY <3>3
      <4>2. Medium[i] = Saved(d, i) /\ Medium'[i] = Saved(d, i)'
        BY <1>1, <2>0, <3>2, <4>1, SavedImage, SavedImagePrimed DEF Medium
      <4> QED
        BY <2>1, <3>1, <3>2, <4>1, <4>2 DEF Saved, Track
    <3>4. CASE \A d \in Drives : ~Pending(d, i)
      BY <1>1, <2>0, <3>1, <3>2, <3>4, SavedImage, SavedImagePrimed DEF Medium
    <3> QED
      BY <3>3, <3>4
  <2> QED
    BY <2>2, <2>3
<1> QED
  BY <1>2, <1>3

\* Tracks that were written and not saved stay in their buffers.
LEMMA HoldingKeeps ==
    ASSUME Inv, Inv', UNCHANGED files,
           \A d \in Drives :
               /\ disk'[d].image = disk[d].image /\ disk'[d].track_dirty = disk[d].track_dirty
               /\ disk[d].track_dirty => Track(d)' = Track(d) /\ buffer'[d] = buffer[d]
    PROVE  Medium' = Medium
<1>1. Drives \in SUBSET Drives
  OBVIOUS
<1>2. /\ Medium = [i \in DOMAIN files |-> Medium[i]]
      /\ Medium' = [i \in DOMAIN files |-> Medium'[i]]
  BY DEF Medium, save_track_data
<1>3. ASSUME NEW i \in DOMAIN files
      PROVE  Medium'[i] = Medium[i]
  <2>1. \A d \in Drives : Pending(d, i)' <=> Pending(d, i)
    BY DEF Pending
  <2>2. ASSUME NEW d \in Drives, Pending(d, i)
        PROVE  Saved(d, i)' = Saved(d, i)
    BY <2>2 DEF Saved, Pending
  <2>3. CASE \E d \in Drives : Pending(d, i)
    BY <1>1, <2>1, <2>2, <2>3, SavedImage, SavedImagePrimed DEF Medium
  <2>4. CASE \A d \in Drives : ~Pending(d, i)
    BY <1>1, <2>1, <2>4, SavedImage, SavedImagePrimed DEF Medium
  <2> QED
    BY <2>3, <2>4
<1> QED
  BY <1>2, <1>3

-----------------------------------------------------------------------------
(* $C0E0-$C0EF                                                              *)

LEMMA PhaseKeeps ==
    ASSUME Inv, NEW sw \in 0 .. 7, _disk6_phaseChange(sw)
    PROVE  Inv' /\ Medium' = Medium
<1>1. Controls'
  BY DEF Inv, Controls, _disk6_phaseChange
<1>2. drive \in Drives /\ Sound(disk[drive]) /\ disk[drive].phase \in 0 .. MaxPhase
  BY DEF Inv, Controls, SoundDrives, Sound, diskette_t
<1>3. PICK next \in 0 .. MaxPhase :
          IF next \div 2 # Track(drive) THEN LeaveTrack(next)
          ELSE disk' = [disk EXCEPT ![drive].phase = next] /\ UNCHANGED <<buffer, files>>
  BY <1>2, NextPhaseBound DEF _disk6_phaseChange
<1>4. CASE LeaveTrack(next)
  <2> DEFINE m == [OffTrack(disk[drive]) EXCEPT !.phase = next]
  <2>1. Sound(m) /\ ~m.track_dirty /\ m.image = disk[drive].image
    BY <1>2, MovedIsSound
  <2>2. disk' = [disk EXCEPT ![drive] = m]
    BY <1>4 DEF LeaveTrack
  <2> HIDE DEF m
  <2>3. SoundDrives' /\ disk'[drive] = m /\ \A d \in Drives \ {drive} : disk'[d] = disk[d]
    BY <1>2, <2>1, <2>2, OneChanged DEF Inv
  <2>4. files' = save_track_data({drive}) /\ DOMAIN files' = DOMAIN files
    BY <1>4 DEF LeaveTrack, save_track_data
  <2>5. \A d \in Drives : disk'[d].image = disk[d].image
    BY <1>2, <2>1, <2>3
  <2>6. Inv'
    BY <1>1, <2>3, <2>4, <2>5 DEF Inv, Present, OneDrive, Drives
  <2>7. \A d \in Drives \ {drive} : buffer'[d] = buffer[d]
    BY <1>4 DEF LeaveTrack
  <2> QED
    BY <1>2, <2>1, <2>3, <2>4, <2>6, <2>7, SavingKeeps
<1>5. CASE /\ next \div 2 = Track(drive) /\ disk' = [disk EXCEPT ![drive].phase = next]
           /\ UNCHANGED <<buffer, files>>
  <2> DEFINE m == [disk[drive] EXCEPT !.phase = next]
  <2>1. /\ Sound(m) /\ m.track_dirty = disk[drive].track_dirty /\ m.image = disk[drive].image
        /\ m.phase = next
    BY <1>2 DEF Sound, diskette_t
  <2>2. disk' = [disk EXCEPT ![drive] = m]
    BY <1>5
  <2> HIDE DEF m
  <2>3. SoundDrives' /\ disk'[drive] = m /\ \A d \in Drives \ {drive} : disk'[d] = disk[d]
    BY <1>2, <2>1, <2>2, OneChanged DEF Inv
  <2>4. \A d \in Drives : disk'[d].image = disk[d].image
                          /\ disk'[d].track_dirty = disk[d].track_dirty /\ Track(d)' = Track(d)
    BY <1>2, <1>5, <2>1, <2>3 DEF Track
  <2>5. Inv'
    BY <1>1, <1>5, <2>3, <2>4 DEF Inv, Present, OneDrive, Drives
  <2> QED
    BY <1>5, <2>4, <2>5, HoldingKeeps
<1> QED
  BY <1>3, <1>4, <1>5

\* The head stays on its track while a byte goes by.
SameTrack(m, k) == m.image = k.image /\ m.is_protected = k.is_protected /\ m.phase = k.phase

LEMMA TurnedIsSound ==
    ASSUME NEW k, Sound(k)
    PROVE  /\ Sound(Turned(k)) /\ SameTrack(Turned(k), k)
           /\ Turned(k).track_dirty = k.track_dirty
           /\ k.track_valid /\ k.image # NoImage /\ ~k.is_protected =>
                LET m == [Turned(k) EXCEPT !.track_dirty = TRUE]
                IN  Sound(m) /\ SameTrack(m, k) /\ m.track_dirty = TRUE
<1>1. k \in diskette_t
  BY DEF Sound
<1>2. k.run_byte \in Int /\ Positions = 0 .. Width - 1 /\ Width \in Int /\ 0 \in Positions
  BY <1>1, GeometryAssumption, ZeroPosition DEF diskette_t, Positions, Width
<1>3. PICK r \in Positions : Turned(k) = [k EXCEPT !.run_byte = r]
  <2>1. CASE k.image # NoImage /\ k.run_byte + 1 < Width
    <3>1. k.run_byte + 1 \in Positions
      BY <1>1, <1>2, <2>1 DEF diskette_t
    <3> QED
      BY <2>1, <3>1 DEF Turned
  <2>2. CASE ~(k.image # NoImage /\ k.run_byte + 1 < Width)
    BY <1>2, <2>2 DEF Turned
  <2> QED
    BY <2>1, <2>2
<1> QED
  BY <1>1, <1>3 DEF Sound, SameTrack, diskette_t

LEMMA LoadedIsSound ==
    ASSUME SoundDrives, NEW d \in Drives
    PROVE  LET k == load_track_data(d)
           IN  /\ Sound(k) /\ SameTrack(k, disk[d]) /\ k.track_dirty = disk[d].track_dirty
               /\ k.image # NoImage => k.track_valid
               /\ disk[d].track_valid \/ k.image = NoImage => k = disk[d]
<1>1. disk[d] \in diskette_t /\ Sound(disk[d])
  BY DEF SoundDrives, Sound
<1>2. CASE ~Inserted(d) \/ disk[d].track_valid
  BY <1>1, <1>2 DEF load_track_data, SameTrack, Inserted
<1>3. CASE Inserted(d) /\ ~disk[d].track_valid
  BY <1>1, <1>3, ZeroPosition DEF load_track_data, SameTrack, Inserted, Sound, diskette_t
<1> QED
  BY <1>2, <1>3

\* A byte that goes by either changes nothing of what is recorded or is written on the track
\* under the head.
LEMMA ByteKeeps ==
    ASSUME Inv, _disk_readWriteByte
    PROVE  Inv' /\ (Medium' = Medium \/ Recorded!Write(drive))
<1> DEFINE k == load_track_data(drive)
<1> DEFINE m == IF Writing THEN [Turned(k) EXCEPT !.track_dirty = TRUE] ELSE Turned(k)
<1>1. drive \in Drives
  BY DEF Inv, Controls
<1>2. /\ Sound(k) /\ SameTrack(k, disk[drive]) /\ k.track_dirty = disk[drive].track_dirty
      /\ k.image # NoImage => k.track_valid
  BY <1>1, LoadedIsSound DEF Inv
<1>3. Writing => k.image # NoImage /\ ~k.is_protected /\ k.track_valid
  BY <1>2 DEF Writing, Inserted, SameTrack
<1>4. Sound(m) /\ SameTrack(m, k) /\ m.track_dirty = (Writing \/ k.track_dirty)
  <2> HIDE DEF k
  <2>1. CASE Writing
    <3>1. m = [Turned(k) EXCEPT !.track_dirty = TRUE]
      BY <2>1
    <3> HIDE DEF m
    <3>2. Sound(m) /\ SameTrack(m, k) /\ m.track_dirty = TRUE
      BY <1>2, <1>3, <2>1, <3>1, TurnedIsSound
    <3> QED
      BY <2>1, <3>2
  <2>2. CASE ~Writing
    BY <1>2, <2>2, TurnedIsSound DEF Sound, diskette_t
  <2> QED
    BY <2>1, <2>2
<1>5. disk' = [disk EXCEPT ![drive] = m]
  BY DEF _disk_readWriteByte
<1>6. /\ files' = IF Writing /\ k.image \in NibImages
                  THEN [files EXCEPT ![k.image][Track(drive)][k.run_byte] = disk_byte]
                  ELSE files
      /\ \A d \in Drives \ {drive} : buffer'[d] = buffer[d]
      /\ disk[drive].track_dirty /\ ~Writing => buffer'[drive] = buffer[drive]
  BY <1>1, <1>2 DEF _disk_readWriteByte, LoadedBuffer, Inv, SoundDrives, Sound
<1>7. Controls'
  BY GeometryAssumption DEF _disk_readWriteByte, Inv, Controls
<1> HIDE DEF k, m
<1>8. SoundDrives' /\ disk'[drive] = m /\ \A d \in Drives \ {drive} : disk'[d] = disk[d]
  BY <1>1, <1>4, <1>5, OneChanged DEF Inv
<1>9. /\ DOMAIN files' = DOMAIN files
      /\ \A d \in Drives : SameTrack(disk'[d], disk[d])
  BY <1>1, <1>2, <1>4, <1>6, <1>8 DEF SameTrack
<1>10. Inv'
  BY <1>7, <1>8, <1>9 DEF Inv, Present, OneDrive, Drives, SameTrack
<1>11. CASE ~Writing
  <2>1. \A d \in Drives : /\ disk'[d].track_dirty = disk[d].track_dirty
                          /\ disk[d].track_dirty => buffer'[d] = buffer[d]
    BY <1>1, <1>2, <1>4, <1>6, <1>8, <1>11 DEF Inv, SoundDrives, Sound, diskette_t
  <2> QED
    BY <1>6, <1>9, <1>10, <1>11, <2>1, HoldingKeeps DEF SameTrack, Track
<1>12. CASE Writing
  <2>a. PICK im, h : im = disk[drive].image /\ h = Track(drive)
    OBVIOUS
  <2>b. Drives \in SUBSET Drives /\ drive' = drive
    BY DEF _disk_readWriteByte
  <2>1. /\ im \in Images /\ im # NoImage /\ ~disk[drive].is_protected /\ im = k.image
        /\ im \in DOMAIN files /\ disk'[drive].track_dirty
    BY <2>a, <1>1, <1>2, <1>3, <1>4, <1>8, <1>12
    DEF Inv, Present, SoundDrives, Sound, SameTrack, diskette_t
  <2>2. /\ \A d \in Drives \ {drive} : disk[d].image # im
        /\ \A d \in Drives : disk'[d].image = disk[d].image /\ Track(d)' = Track(d)
    BY <2>a, <1>1, <1>9, <2>1 DEF Inv, Present, OneDrive, Drives, SameTrack, Track
  <2>3. /\ \A i \in DOMAIN files \ {im} : files'[i] = files[i]
        /\ im \in DskImages => files' = files
        /\ im \in NibImages => /\ DOMAIN files'[im] = DOMAIN files[im]
                               /\ \A t \in DOMAIN files[im] : t # h => files'[im][t] = files[im][t]
    BY <2>a, <1>6, <1>12, <2>1, GeometryAssumption
  <2>4. ASSUME NEW i \in DOMAIN files \ {im}
        PROVE  Medium'[i] = Medium[i]
    <3>1. \A d \in Drives : Pending(d, i)' <=> Pending(d, i)
      BY <2>a, <1>8, <2>1, <2>2 DEF Pending
    <3>2. ASSUME NEW d \in Drives, Pending(d, i)
          PROVE  Saved(d, i)' = Saved(d, i)
      BY <2>a, <1>6, <2>1, <2>2, <2>3, <3>2 DEF Saved, Pending
    <3>3. CASE \E d \in Drives : Pending(d, i)
      BY <1>9, <1>10, <2>b, <3>1, <3>2, <3>3, SavedImage, SavedImagePrimed DEF Medium
    <3>4. CASE \A d \in Drives : ~Pending(d, i)
      BY <1>9, <1>10, <2>b, <2>3, <3>1, <3>4, SavedImage, SavedImagePrimed DEF Medium
    <3> QED
      BY <3>3, <3>4
  <2>5. ASSUME im \in NibImages
        PROVE  Medium'[im] = files'[im] /\ Medium[im] = files[im]
    <3>1. \A d \in Drives : ~Pending(d, im) /\ ~Pending(d, im)'
      BY <2>5, GeometryAssumption DEF Pending
    <3> QED
      BY <1>9, <1>10, <2>b, <2>1, <3>1, SavedImage, SavedImagePrimed DEF Medium
  <2>6. ASSUME im \in DskImages
        PROVE  Medium'[im] = Saved(drive, im)' /\ Medium[im] \in {Saved(drive, im), files[im]}
    <3>1. Pending(drive, im)'
      BY <2>a, <2>b, <2>1, <2>2, <2>6, <1>1 DEF Pending
    <3>2. \A d \in Drives \ {drive} : ~Pending(d, im)
      BY <2>2 DEF Pending
    <3>3. Medium'[im] = Saved(drive, im)'
      BY <1>1, <1>9, <1>10, <2>b, <2>1, <3>1, SavedImagePrimed
    <3>4. CASE Pending(drive, im)
      BY <1>1, <2>b, <2>1, <3>3, <3>4, SavedImage DEF Medium
    <3>5. CASE ~Pending(drive, im)
      BY <2>b, <2>1, <3>2, <3>3, <3>5, SavedImage DEF Medium
    <3> QED
      BY <3>4, <3>5
  <2>7. /\ DOMAIN Medium'[im] = DOMAIN Medium[im]
        /\ \A t \in DOMAIN Medium[im] : t # h => Medium'[im][t] = Medium[im][t]
    <3>1. CASE im \in NibImages
      BY <2>3, <2>5, <3>1
    <3>2. CASE im \in DskImages
      <4>1. Saved(drive, im)' = [files[im] EXCEPT ![h] = denibblize_track(buffer'[drive], @)]
        BY <2>a, <2>b, <1>1, <2>2, <2>3, <3>2 DEF Saved
      <4>2. /\ DOMAIN Saved(drive, im)' = DOMAIN files[im]
            /\ \A t \in DOMAIN files[im] : t # h => Saved(drive, im)'[t] = files[im][t]
        BY <4>1
      <4>3. /\ DOMAIN Saved(drive, im) = DOMAIN files[im]
            /\ \A t \in DOMAIN files[im] : t # h => Saved(drive, im)[t] = files[im][t]
        BY <2>a DEF Saved
      <4> QED
        BY <2>6, <3>2, <4>2, <4>3
    <3> QED
      BY <2>1, <3>1, <3>2 DEF Images
  <2>8. DOMAIN Medium = DOMAIN files /\ DOMAIN Medium' = DOMAIN files
    BY <1>9 DEF Medium, save_track_data
  <2>9. Recorded!Write(drive)
    <3>1. /\ UNCHANGED [d \in Drives |-> [image |-> disk[d].image,
                                          writable |-> ~disk[d].is_protected]]
          /\ UNCHANGED [d \in Drives |-> Track(d)]
      BY <1>9, <2>2 DEF SameTrack
    <3> QED
      BY <2>a, <1>1, <2>1, <2>4, <2>7, <2>8, <3>1 DEF Recorded!Write
  <2> QED
    BY <1>10, <2>9
<1> QED
  BY <1>11, <1>12

\* Accesses that leave the drives alone.
LEMMA ContentsKeep ==
    ASSUME Inv, Controls', UNCHANGED contents
    PROVE  Inv' /\ Medium' = Medium
<1>1. Inv'
  BY DEF Inv, SoundDrives, Present, contents
<1> QED
  BY <1>1, HoldingKeeps DEF contents, Track

LEMMA AccessKeeps ==
    ASSUME Inv, NEW sw \in 0 .. 15, Access(sw)
    PROVE  Inv' /\ (Medium' = Medium \/ \E d \in Drives : Recorded!Write(d))
<1>1. CASE sw \in 0 .. 7
  BY <1>1, PhaseKeeps DEF Access
<1>2. CASE sw \in {8, 9}
  <2>1. _disk6_motorControl(sw)
    BY <1>2 DEF Access
  <2>2. motor_off' \in {0, 1}
    BY <1>2, <2>1 DEF _disk6_motorControl
  <2>3. Controls'
    BY <2>1, <2>2, GeometryAssumption DEF _disk6_motorControl, Inv, Controls
  <2> QED
    BY <2>1, <2>3, ContentsKeep DEF _disk6_motorControl
<1>3. CASE sw \in {10, 11}
  <2>1. _disk6_driveSelect(sw)
    BY <1>3 DEF Access
  <2>2. Controls'
    BY <1>3, <2>1 DEF _disk6_driveSelect, Inv, Controls, Drives
  <2> QED
    BY <2>1, <2>2, ContentsKeep DEF _disk6_driveSelect
<1>4. CASE sw = 12
  <2>1. _disk_readWriteByte
    BY <1>4 DEF Access
  <2> QED
    BY <2>1, ByteKeeps DEF Inv, Controls
<1>5. CASE sw = 13
  <2>1. UNCHANGED <<hostvars, contents>>
    BY <1>5 DEF Access
  <2>2. Controls'
    BY <2>1 DEF Inv, Controls, hostvars
  <2> QED
    BY <2>1, <2>2, ContentsKeep
<1>6. CASE sw \in {14, 15}
  <2>1. _disk_modeSelect(sw)
    BY <1>6 DEF Access
  <2>2. Controls'
    BY <2>1 DEF _disk_modeSelect, Inv, Controls
  <2> QED
    BY <2>1, <2>2, ContentsKeep DEF _disk_modeSelect
<1> QED
  BY <1>1, <1>2, <1>3, <1>4, <1>5, <1>6

-----------------------------------------------------------------------------
(* The host                                                                 *)

LEMMA FlushKeeps ==
    ASSUME Inv, NEW D \in SUBSET Drives, disk6_flush(D)
    PROVE  Inv' /\ Medium' = Medium
<1>1. Controls'
  BY DEF disk6_flush, hostvars, Inv, Controls
<1>2. \A d \in Drives : Sound(Clean(disk[d])) /\ ~Clean(disk[d]).track_dirty
                        /\ Clean(disk[d]).image = disk[d].image
  BY DEF Inv, SoundDrives, Sound, Clean, diskette_t
<1>3. /\ \A d \in D : disk'[d] = Clean(disk[d])
      /\ \A d \in Drives \ D : disk'[d] = disk[d] /\ buffer'[d] = buffer[d]
      /\ files' = save_track_data(D) /\ DOMAIN files' = DOMAIN files
  BY DEF disk6_flush, save_track_data
<1>4. SoundDrives'
  <2>1. disk' = [d \in Drives |-> IF d \in D THEN Clean(disk[d]) ELSE disk[d]]
    BY DEF disk6_flush
  <2> QED
    BY <1>2, <2>1 DEF Inv, SoundDrives, Sound
<1>5. \A d \in Drives : disk'[d].image = disk[d].image
  BY <1>2, <1>3
<1>6. Inv'
  BY <1>1, <1>3, <1>4, <1>5 DEF Inv, Present, OneDrive, Drives
<1> QED
  BY <1>2, <1>3, <1>6, SavingKeeps

\* One drive is saved and gets another image or none.
LEMMA ExchangeKeeps ==
    ASSUME Inv, UNCHANGED hostvars, NEW e \in Drives, NEW k, Sound(k), ~k.track_dirty,
           k.image = NoImage \/ (k.image \in DOMAIN files /\ disk[1 - e].image # k.image),
           files' = save_track_data({e}), disk' = [disk EXCEPT ![e] = k],
           buffer' = [buffer EXCEPT ![e] = Blank]
    PROVE  Inv' /\ Medium' = Medium
<1>1. Controls'
  BY DEF hostvars, Inv, Controls
<1>2. SoundDrives' /\ disk'[e] = k /\ \A d \in Drives \ {e} : disk'[d] = disk[d]
  BY OneChanged DEF Inv
<1>3. DOMAIN files' = DOMAIN files
  BY DEF save_track_data
<1>4. Inv'
  BY <1>1, <1>2, <1>3 DEF Inv, Present, OneDrive, Drives
<1>5. \A d \in Drives \ {e} : buffer'[d] = buffer[d]
  OBVIOUS
<1> QED
  BY <1>2, <1>4, <1>5, SavingKeeps

\* All drives are saved; what they hold afterwards is clean.
LEMMA ReplaceKeeps ==
    ASSUME Inv, Controls', SoundDrives', files' = save_track_data(Drives),
           \A d \in Drives : /\ ~disk'[d].track_dirty
                             /\ disk'[d].image # NoImage => disk'[d].image \in DOMAIN files,
           OneDrive(disk')
    PROVE  Inv' /\ Medium' = Medium
<1>1. DOMAIN files' = DOMAIN files
  BY DEF save_track_data
<1>2. Inv'
  BY <1>1 DEF Inv, Present
<1>3. Drives \in SUBSET Drives /\ \A d \in Drives : d \in Drives
  OBVIOUS
<1> QED
  BY <1>2, <1>3, SavingKeeps

LEMMA StateFileTyped ==
    ASSUME NEW f \in StateFiles
    PROVE  /\ f.motor_off \in 0 .. SpinDown + 1 /\ f.drive \in Drives /\ f.ddrw \in BOOLEAN
           /\ f.stepper_phases \subseteq 0 .. 3
           /\ \A d \in Drives : /\ f.disk[d].image \in Images \cup {NoImage}
                                /\ f.disk[d].is_protected \in BOOLEAN
                                /\ f.disk[d].phase \in 0 .. MaxPhase
                                /\ f.disk[d].run_byte \in Positions
           /\ OneDrive(f.disk)
<1> DEFINE T == [image : Images \cup {NoImage}, is_protected : BOOLEAN,
                 phase : 0 .. MaxPhase, run_byte : Positions]
<1>1. /\ f \in [motor_off : 0 .. SpinDown + 1, drive : Drives, ddrw : BOOLEAN,
                disk_byte : Fields \cup {Low}, stepper_phases : SUBSET (0 .. 3),
                disk : [Drives -> T]]
      /\ OneDrive(f.disk)
  BY InputAssumption
<1>2. f.disk \in [Drives -> T]
  <2> HIDE DEF T
  <2> QED
    BY <1>1
<1>3. \A d \in Drives : f.disk[d] \in T
  <2> HIDE DEF T
  <2> QED
    BY <1>2
<1>4. /\ f.motor_off \in 0 .. SpinDown + 1 /\ f.drive \in Drives /\ f.ddrw \in BOOLEAN
      /\ f.stepper_phases \subseteq 0 .. 3
  <2> HIDE DEF T
  <2> QED
    BY <1>1
<1> QED
  BY <1>1, <1>3, <1>4

\* Drives that are given an image, or none, and put in their places.
Placed(d, i, readonly, p, r) ==
    [Emptied(disk[d]) EXCEPT !.image = i, !.is_protected = readonly, !.phase = p, !.run_byte = r]

LEMMA PlacedIsSound ==
    ASSUME Inv, NEW d \in Drives, NEW i \in Images \cup {NoImage}, NEW readonly \in BOOLEAN,
           NEW p \in 0 .. MaxPhase, NEW r \in Positions
    PROVE  /\ Sound(Placed(d, i, readonly, p, r)) /\ ~Placed(d, i, readonly, p, r).track_dirty
           /\ Placed(d, i, readonly, p, r).image = i
<1> disk[d] \in diskette_t
  BY DEF Inv, SoundDrives
<1> QED
  BY DEF Placed, Sound, OffTrack, Emptied, diskette_t

LEMMA PlacedKeep ==
    ASSUME Inv, Controls', files' = save_track_data(Drives), OneDrive(disk'),
           disk' = [d \in Drives |-> disk'[d]],
           \A d \in Drives : /\ Sound(disk'[d]) /\ ~disk'[d].track_dirty
                             /\ disk'[d].image # NoImage => disk'[d].image \in DOMAIN files
    PROVE  Inv' /\ Medium' = Medium
<1>1. SoundDrives'
  BY DEF SoundDrives, Sound
<1> QED
  BY <1>1, ReplaceKeeps

LEMMA LoadKeeps ==
    ASSUME Inv, NEW f \in StateFiles, disk6_loadState(f)
    PROVE  Inv' /\ Medium' = Medium
<1> DEFINE there(d) == f.disk[d].image \in DOMAIN files
<1>1. Controls'
  BY StateFileTyped DEF disk6_loadState, LoadController, LoadedPhases, Controls
<1>2. disk' = [d \in Drives |->
                  Placed(d, IF there(d) THEN f.disk[d].image ELSE NoImage,
                         there(d) /\ f.disk[d].is_protected, f.disk[d].phase, f.disk[d].run_byte)]
  BY DEF disk6_loadState, Placed
<1>3. ASSUME NEW d \in Drives
      PROVE  /\ Sound(disk'[d]) /\ ~disk'[d].track_dirty
             /\ disk'[d].image = IF there(d) THEN f.disk[d].image ELSE NoImage
  <2> DEFINE i == IF there(d) THEN f.disk[d].image ELSE NoImage
  <2> DEFINE readonly == there(d) /\ f.disk[d].is_protected
  <2>1. disk'[d] = Placed(d, i, readonly, f.disk[d].phase, f.disk[d].run_byte)
    BY <1>2
  <2>2. /\ i \in Images \cup {NoImage} /\ readonly \in BOOLEAN
        /\ f.disk[d].phase \in 0 .. MaxPhase /\ f.disk[d].run_byte \in Positions
    BY StateFileTyped
  <2> HIDE DEF i, readonly
  <2>3. /\ Sound(disk'[d]) /\ ~disk'[d].track_dirty /\ disk'[d].image = i
    BY <2>1, <2>2, PlacedIsSound
  <2> QED
    BY <2>3 DEF i
<1>4. OneDrive(disk')
  BY <1>3, StateFileTyped DEF OneDrive, Drives
<1>5. disk' = [d \in Drives |-> disk'[d]]
  BY <1>2
<1> QED
  BY <1>1, <1>3, <1>4, <1>5, PlacedKeep DEF disk6_loadState

LEMMA TornKeeps ==
    ASSUME Inv, NEW f \in StateFiles, NEW n \in 0 .. 1, LoadTorn(f, n)
    PROVE  Inv' /\ Medium' = Medium
<1>1. Controls'
  BY StateFileTyped DEF LoadTorn, LoadController, LoadedPhases, Inv, Controls
<1>2. ASSUME NEW d \in Drives
      PROVE  Sound(disk'[d]) /\ ~disk'[d].track_dirty /\ disk'[d].image = NoImage
  <2>1. disk[d] \in diskette_t
    BY DEF Inv, SoundDrives
  <2>2. CASE d < n
    <3>1. disk'[d] = [Emptied(disk[d]) EXCEPT !.phase = f.disk[d].phase,
                                              !.run_byte = f.disk[d].run_byte]
      BY <2>2 DEF LoadTorn
    <3>2. PICK p \in 0 .. MaxPhase, r \in Positions :
              disk'[d] = [Emptied(disk[d]) EXCEPT !.phase = p, !.run_byte = r]
      BY <3>1, StateFileTyped
    <3> QED
      BY <2>1, <3>2 DEF Sound, Emptied, OffTrack, diskette_t
  <2>3. CASE ~(d < n)
    <3>1. disk'[d] = Emptied(disk[d])
      BY <2>3 DEF LoadTorn
    <3> QED
      BY <2>1, <3>1 DEF Sound, Emptied, OffTrack, diskette_t
  <2> QED
    BY <2>2, <2>3
<1>3. OneDrive(disk')
  BY <1>2 DEF OneDrive, Drives
<1>4. disk' = [d \in Drives |-> disk'[d]]
  BY DEF LoadTorn
<1> QED
  BY <1>1, <1>2, <1>3, <1>4, PlacedKeep DEF LoadTorn

LEMMA InsertKeeps ==
    ASSUME Inv, NEW d \in Drives, NEW i \in Images, NEW readonly \in BOOLEAN,
           disk6_insert(d, i, readonly)
    PROVE  Inv' /\ Medium' = Medium
<1> DEFINE k == [Emptied(disk[d]) EXCEPT !.image = i, !.is_protected = readonly]
<1>1. Sound(disk[d])
  BY DEF Inv, SoundDrives
<1>2. Sound(k) /\ ~k.track_dirty /\ k.image = i
  BY <1>1, EmptiedIsSound
<1>3. disk' = [disk EXCEPT ![d] = k]
  BY DEF disk6_insert
<1> HIDE DEF k
<1>4. /\ UNCHANGED hostvars /\ files' = save_track_data({d})
      /\ buffer' = [buffer EXCEPT ![d] = Blank] /\ i \in DOMAIN files /\ disk[1 - d].image # i
  BY DEF disk6_insert
<1> QED
  BY <1>2, <1>3, <1>4, ExchangeKeeps

LEMMA InitKeeps ==
    ASSUME Inv, disk6_init
    PROVE  Inv' /\ Medium' = Medium
<1>1. ASSUME NEW d \in Drives
      PROVE  /\ Sound(disk'[d]) /\ ~disk'[d].track_dirty /\ disk'[d].image = disk[d].image
  <2>1. disk'[d] = [OffTrack(disk[d]) EXCEPT !.phase = 0, !.run_byte = 0]
    BY DEF disk6_init
  <2>2. 0 \in 0 .. MaxPhase /\ 0 \in Positions
    BY ZeroPosition, GeometryAssumption
  <2>3. disk[d] \in diskette_t
    BY DEF Inv, SoundDrives
  <2> QED
    BY <2>1, <2>2, <2>3 DEF Sound, OffTrack, diskette_t
<1>2. disk' = [d \in Drives |-> disk'[d]]
  BY DEF disk6_init
<1>3. SoundDrives'
  BY <1>1, <1>2 DEF SoundDrives, Sound
<1>4. Controls'
  <2>1. 1 \in 0 .. SpinDown + 1
    BY GeometryAssumption
  <2> QED
    BY <2>1 DEF disk6_init, Controls, Drives
<1>5. OneDrive(disk')
  BY <1>1 DEF Inv, Present, OneDrive, Drives
<1> QED
  BY <1>1, <1>3, <1>4, <1>5, ReplaceKeeps DEF disk6_init, Inv, Present

LEMMA HostKeeps ==
    ASSUME Inv, Host
    PROVE  Inv' /\ Medium' = Medium
<1>1. ASSUME NEW D \in {{0}, {1}, Drives}, disk6_flush(D)
      PROVE  Inv' /\ Medium' = Medium
  BY <1>1, FlushKeeps DEF Drives
<1>2. ASSUME NEW d \in Drives, disk6_eject(d)
      PROVE  Inv' /\ Medium' = Medium
  <2> DEFINE k == Emptied(disk[d])
  <2>1. Sound(disk[d])
    BY DEF Inv, SoundDrives
  <2>2. Sound(k) /\ ~k.track_dirty /\ k.image = NoImage
    BY <2>1, EmptiedIsSound
  <2>3. disk' = [disk EXCEPT ![d] = k]
    BY <1>2 DEF disk6_eject
  <2> HIDE DEF k
  <2>4. /\ UNCHANGED hostvars /\ files' = save_track_data({d})
        /\ buffer' = [buffer EXCEPT ![d] = Blank]
    BY <1>2 DEF disk6_eject
  <2> QED
    BY <2>2, <2>3, <2>4, ExchangeKeeps
<1>3. ASSUME NEW n \in Insertions, disk6_insert(n.drive, n.image, n.readonly)
      PROVE  Inv' /\ Medium' = Medium
  <2>1. n.drive \in Drives /\ n.image \in Images /\ n.readonly \in BOOLEAN
    BY InputAssumption
  <2> QED
    BY <1>3, <2>1, InsertKeeps
<1>4. ASSUME disk6_init
      PROVE  Inv' /\ Medium' = Medium
  BY <1>4, InitKeeps
<1>5. ASSUME NEW f \in StateFiles, disk6_loadState(f)
      PROVE  Inv' /\ Medium' = Medium
  BY <1>5, LoadKeeps
<1>6. ASSUME NEW f \in StateFiles, NEW n \in 0 .. 1, LoadTorn(f, n)
      PROVE  Inv' /\ Medium' = Medium
  BY <1>6, TornKeeps
<1>7. ASSUME NEW f \in StateFiles, NEW n \in 1 .. 3, LoadTornEarly(f, n)
      PROVE  Inv' /\ Medium' = Medium
  BY <1>7, StateFileTyped, ContentsKeep DEF LoadTornEarly, Inv, Controls
<1> QED
  BY <1>1, <1>2, <1>3, <1>4, <1>5, <1>6, <1>7 DEF Host

-----------------------------------------------------------------------------
(* The controller                                                           *)

LEMMA InvInit == DiskInit => Inv
<1> SUFFICES ASSUME DiskInit PROVE Inv
  OBVIOUS
<1>1. DOMAIN files \subseteq Images
  BY InputAssumption DEF DiskInit
<1>2. \A d \in Drives :
          disk[d] = [image |-> NoImage, is_protected |-> FALSE, track_valid |-> FALSE,
                     track_dirty |-> FALSE, phase |-> 0, run_byte |-> 0]
  BY DEF DiskInit
<1>3. 0 \in 0 .. MaxPhase /\ 0 \in Positions /\ 1 \in 0 .. SpinDown + 1
  BY ZeroPosition, GeometryAssumption
<1>4. \A d \in Drives : Sound(disk[d]) /\ disk[d].image = NoImage
  <2> DEFINE empty == [image |-> NoImage, is_protected |-> FALSE, track_valid |-> FALSE,
                       track_dirty |-> FALSE, phase |-> 0, run_byte |-> 0]
  <2>1. empty \in diskette_t
    BY <1>3 DEF diskette_t
  <2>2. Sound(empty) /\ empty.image = NoImage
    BY <2>1 DEF Sound
  <2> HIDE DEF empty
  <2> QED
    BY <1>2, <2>2 DEF empty
<1>5. SoundDrives
  <2>1. disk = [d \in Drives |-> disk[d]]
    BY DEF DiskInit
  <2> QED
    BY <1>4, <2>1 DEF SoundDrives, Sound
<1>6. Present
  BY <1>1, <1>4 DEF Present, OneDrive, Drives
<1>7. Controls
  BY <1>3 DEF DiskInit, Controls, Drives
<1> QED
  BY <1>5, <1>6, <1>7 DEF Inv

\* What every step does to the diskettes.
LEMMA StepKeeps ==
    ASSUME Inv, [Program \/ Host]_dvars
    PROVE  Inv' /\ (Medium' = Medium \/ \E d \in Drives : Recorded!Write(d))
<1>1. ASSUME NEW sw \in Reads, disk6_ioRead(sw)
      PROVE  Inv' /\ (Medium' = Medium \/ \E d \in Drives : Recorded!Write(d))
  BY <1>1, InputAssumption, AccessKeeps DEF disk6_ioRead
<1>2. ASSUME NEW sw \in Writes, NEW b, disk6_ioWrite(sw, b)
      PROVE  Inv' /\ (Medium' = Medium \/ \E d \in Drives : Recorded!Write(d))
  BY <1>2, InputAssumption, AccessKeeps DEF disk6_ioWrite
<1>3. CASE Host
  BY <1>3, HostKeeps
<1>4. CASE UNCHANGED dvars
  <2>1. UNCHANGED hostvars /\ UNCHANGED contents
    BY <1>4 DEF dvars
  <2>2. Controls'
    BY <2>1 DEF Inv, Controls, hostvars
  <2> QED
    BY <2>1, <2>2, ContentsKeep
<1> QED
  BY <1>1, <1>2, <1>3, <1>4 DEF Program

LEMMA InvAlways == DiskSpec => []Inv
<1>1. Inv /\ [Program \/ Host]_dvars => Inv'
  BY StepKeeps
<1> QED
  BY <1>1, InvInit, PTL DEF DiskSpec

-----------------------------------------------------------------------------
(* Encoding and decoding                                                    *)

\* The remainder of a place that is at most one round ahead
LEMMA Round ==
    ASSUME NEW b \in Nat \ {0}, NEW a \in 0 .. b
    PROVE  a % b = IF a = b THEN 0 ELSE a
<1>1. PICK q \in Nat, m \in Nat : q = a \div b /\ m = a % b /\ m < b /\ a = q * b + m
  OBVIOUS
<1>2. q * b <= b
  BY <1>1
<1>3. q = 0 \/ q = 1
  <2>1. ASSUME q >= 2 PROVE FALSE
    <3>1. q * b >= 2 * b
      BY <2>1
    <3> QED
      BY <1>2, <3>1
  <2> QED
    BY <2>1
<1>4. CASE q = 0
  BY <1>1, <1>4
<1>5. CASE q = 1
  BY <1>1, <1>5
<1> QED
  BY <1>3, <1>4, <1>5

\* The geometry of a track
LEMMA WidthIsPositive ==
    /\ Width \in Nat \ {0} /\ NumSectors \in Nat /\ Width = 2 * NumSectors
    /\ \A s : s \in SectorIds <=> s \in Nat /\ s < NumSectors
BY GeometryAssumption DEF Width, SectorIds

\* Every number is even or odd.
LEMMA Halves ==
    ASSUME NEW n \in Nat
    PROVE  /\ n \div 2 \in Nat
           /\ n % 2 = 0 \/ n % 2 = 1
           /\ n % 2 = 0 => n = 2 * (n \div 2)
           /\ n % 2 = 1 => n = 2 * (n \div 2) + 1
  OBVIOUS

\* A place is that of a header or of the data of a sector.
LEMMA PlaceOfSector ==
    ASSUME NEW p \in Positions
    PROVE  /\ p \in Nat /\ p < Width /\ p \div 2 \in SectorIds
           /\ p % 2 = 0 => p = 2 * (p \div 2)
           /\ p % 2 # 0 => p % 2 = 1 /\ p = 2 * (p \div 2) + 1
<1>1. PICK n \in Nat : n = p /\ n < Width
  BY WidthIsPositive DEF Positions
<1>2. PICK h \in Nat : h = n \div 2 /\ (n = 2 * h \/ n = 2 * h + 1)
  BY Halves
<1>3. h < NumSectors
  BY <1>1, <1>2, WidthIsPositive
<1> QED
  BY <1>1, <1>2, <1>3, Halves, WidthIsPositive

\* Places without a gap are found one after the other.
LEMMA PlaceIsItself ==
    ASSUME NEW n \in Positions
    PROVE  Place(Positions, n) = n /\ Cardinality(Positions) = Width
<1>1. ASSUME NEW p \in Positions
      PROVE  Cardinality({q \in Positions : q < p}) = p
  <2>1. p \in Int /\ {q \in Positions : q < p} = 0 .. p - 1
    BY <1>1, WidthIsPositive DEF Positions
  <2>2. Cardinality(0 .. p - 1) = IF 0 > p - 1 THEN 0 ELSE p - 1 - 0 + 1
    BY <2>1, FS_Interval
  <2>3. p >= 0 /\ (0 > p - 1 => p = 0) /\ p - 1 - 0 + 1 = p
    BY <1>1, <2>1, WidthIsPositive DEF Positions
  <2>4. (IF 0 > p - 1 THEN 0 ELSE p - 1 - 0 + 1) = p
    BY <2>3
  <2> QED
    BY <2>1, <2>2, <2>4
<1>2. \A p \in Positions : Cardinality({q \in Positions : q < p}) = n <=> p = n
  BY <1>1
<1>3. Place(Positions, n) = n
  BY <1>2 DEF Place
<1>4. Cardinality(0 .. Width - 1) = Width
  <2>1. PICK w \in Nat : w = Width /\ w > 0
    BY WidthIsPositive
  <2>2. Cardinality(0 .. w - 1) = IF 0 > w - 1 THEN 0 ELSE w - 1 - 0 + 1
    BY FS_Interval
  <2>3. (IF 0 > w - 1 THEN 0 ELSE w - 1 - 0 + 1) = w
    BY <2>1
  <2> QED
    BY <2>1, <2>2, <2>3
<1> QED
  BY <1>3, <1>4 DEF Positions

\* nibblize_track() field by field
LEMMA Fieldwise ==
    ASSUME NEW raw, NEW p \in Positions
    PROVE  /\ p % 2 = 0 => nibblize_track(raw)[p] = Header(p \div 2)
           /\ p % 2 # 0 => nibblize_track(raw)[p] = Data(raw[p \div 2])
           /\ nibblize_track(raw)[p].kind # "sync"
           /\ nibblize_track(raw)[p].kind = "data" <=> p % 2 # 0
<1>1. CASE p % 2 = 0
  <2>1. nibblize_track(raw)[p] = Header(p \div 2)
    BY <1>1 DEF nibblize_track
  <2> QED
    BY <1>1, <2>1 DEF Header
<1>2. CASE p % 2 # 0
  <2>1. nibblize_track(raw)[p] = Data(raw[p \div 2])
    BY <1>2 DEF nibblize_track
  <2> QED
    BY <1>2, <2>1 DEF Data
<1> QED
  BY <1>1, <1>2

\* A formatted track is scanned from its start, and its first header again.
LEMMA ScanOfFormatted ==
    ASSUME NEW raw, NEW k \in 1 .. Width + 1
    PROVE  Scanned(nibblize_track(raw))[k] =
               nibblize_track(raw)[IF k = Width + 1 THEN 0 ELSE k - 1]
<1> DEFINE nib == nibblize_track(raw)
<1>1. {p \in Positions : nib[p].kind # "sync"} = Positions
  BY Fieldwise
<1>2. 0 \in Positions /\ Positions # {}
  BY WidthIsPositive DEF Positions
<1>3. Cardinality(Positions) = Width
  BY <1>2, PlaceIsItself
<1>4. PICK p \in Positions : p = (k - 1) % Width /\ p = IF k = Width + 1 THEN 0 ELSE k - 1
  <2>1. k - 1 \in 0 .. Width /\ Width \in Nat \ {0}
    BY WidthIsPositive
  <2>2. (k - 1) % Width = IF k - 1 = Width THEN 0 ELSE k - 1
    BY <2>1, Round
  <2>3. (IF k = Width + 1 THEN 0 ELSE k - 1) \in Positions
    BY <2>1 DEF Positions
  <2>4. (k - 1 = Width) <=> (k = Width + 1)
    BY <2>1
  <2> QED
    BY <2>2, <2>3, <2>4
<1> HIDE DEF nib
<1>5. Scanned(nib)[k] = nib[Place(Positions, (k - 1) % Width)]
  BY <1>1, <1>2, <1>3 DEF Scanned
<1>6. Place(Positions, (k - 1) % Width) = p
  BY <1>4, PlaceIsItself
<1> QED
  BY <1>4, <1>5, <1>6 DEF nib

\* The data that is found for a sector is its own.
LEMMA FoundFor ==
    ASSUME NEW raw, NEW s \in SectorIds, NEW k \in 2 .. Width + 1
    PROVE  LET scan == Scanned(nibblize_track(raw))
           IN  /\ (scan[k].kind = "data" /\ scan[k - 1] = Header(s)) <=> k = 2 * s + 2
               /\ k = 2 * s + 2 => scan[k].value = raw[s]
<1> DEFINE nib == nibblize_track(raw)
<1> DEFINE scan == Scanned(nib)
<1>1. /\ scan[k] = nib[IF k = Width + 1 THEN 0 ELSE k - 1]
      /\ scan[k - 1] = nib[k - 2] /\ k - 2 \in Positions
  <2>1. k - 1 \in 1 .. Width + 1 /\ k \in 1 .. Width + 1 /\ k - 1 # Width + 1 /\ k - 1 - 1 = k - 2
    BY WidthIsPositive
  <2>2. k - 2 \in Positions
    BY WidthIsPositive DEF Positions
  <2> HIDE DEF nib
  <2>3. scan[k - 1] = nib[k - 1 - 1]
    BY <2>1, ScanOfFormatted DEF nib
  <2> QED
    BY <2>1, <2>2, <2>3, ScanOfFormatted DEF nib
<1> HIDE DEF scan
<1>2. s \in Nat /\ s < NumSectors /\ 2 * s + 2 <= Width
  BY WidthIsPositive
<1>3. CASE k = Width + 1
  <2>1. 0 \in Positions /\ 0 % 2 = 0
    BY WidthIsPositive DEF Positions
  <2>2. scan[k] = nib[0]
    BY <1>1, <1>3
  <2>3. scan[k].kind # "data"
    BY <2>1, <2>2, Fieldwise
  <2> QED
    BY <1>2, <1>3, <2>3, WidthIsPositive DEF scan
<1>4. CASE k # Width + 1
  <2>1. k - 1 \in Positions /\ scan[k] = nib[k - 1]
    BY <1>1, <1>4, WidthIsPositive DEF Positions
  <2>2. ASSUME scan[k].kind = "data", scan[k - 1] = Header(s) PROVE k = 2 * s + 2
    <3>1. (k - 1) % 2 # 0
      BY <2>1, <2>2, Fieldwise
    <3>2. (k - 2) % 2 = 0
      BY <3>1
    <3>3. nib[k - 2] = Header((k - 2) \div 2)
      BY <1>1, <3>2, Fieldwise
    <3>4. (k - 2) \div 2 = s
      <4>1. \A h : Header(h).sector = h
        BY DEF Header
      <4>2. Header((k - 2) \div 2) = Header(s)
        BY <1>1, <2>2, <3>3
      <4> QED
        BY <4>1, <4>2
    <3> QED
      BY <3>2, <3>4, <1>2
  <2>3. ASSUME k = 2 * s + 2
        PROVE  scan[k].kind = "data" /\ scan[k - 1] = Header(s) /\ scan[k].value = raw[s]
    <3>1. (k - 1) % 2 # 0 /\ (k - 1) \div 2 = s /\ (k - 2) % 2 = 0 /\ (k - 2) \div 2 = s
      BY <1>2, <2>3
    <3>2. nib[k - 1] = Data(raw[s]) /\ nib[k - 2] = Header(s)
      BY <1>1, <2>1, <3>1, Fieldwise
    <3> QED
      BY <1>1, <2>1, <3>2 DEF Data
  <2> QED
    BY <2>2, <2>3 DEF scan
<1> QED
  BY <1>3, <1>4

\* Decoding undoes encoding, whatever the file had.
LEMMA DecodeEncoded ==
    ASSUME NEW raw \in [SectorIds -> Values], NEW old
    PROVE  denibblize_track(nibblize_track(raw), old) = raw
<1> DEFINE scan == Scanned(nibblize_track(raw))
<1> DEFINE of(s) == {k \in 2 .. Width + 1 : scan[k].kind = "data" /\ scan[k - 1] = Header(s)}
<1>1. ASSUME NEW s \in SectorIds
      PROVE  of(s) = {2 * s + 2} /\ scan[2 * s + 2].value = raw[s]
  <2>1. 2 * s + 2 \in 2 .. Width + 1
    BY WidthIsPositive
  <2>2. \A k \in 2 .. Width + 1 :
            (scan[k].kind = "data" /\ scan[k - 1] = Header(s)) <=> k = 2 * s + 2
    BY FoundFor
  <2>3. scan[2 * s + 2].value = raw[s]
    BY <2>1, FoundFor
  <2> QED
    BY <2>1, <2>2, <2>3
<1> HIDE DEF scan
<1>2. ASSUME NEW s \in SectorIds
      PROVE  (IF of(s) = {} THEN old[s]
              ELSE scan[CHOOSE k \in of(s) : \A l \in of(s) : l <= k].value) = raw[s]
  <2>1. PICK c \in Nat : c = 2 * s + 2 /\ of(s) = {c}
    BY <1>1, WidthIsPositive
  <2> HIDE DEF of
  <2>2. (CHOOSE k \in of(s) : \A l \in of(s) : l <= k) = c
    BY <2>1
  <2> QED
    BY <1>1, <2>1, <2>2
<1>3. denibblize_track(nibblize_track(raw), old) =
          [s \in SectorIds |-> IF of(s) = {} THEN old[s]
                               ELSE scan[CHOOSE k \in of(s) : \A l \in of(s) : l <= k].value]
  BY DEF denibblize_track, scan
<1> HIDE DEF of
<1> QED
  BY <1>2, <1>3

\* A formatted track has a header before the data of every sector.
LEMMA FormattedIsDecodable ==
    ASSUME NEW raw
    PROVE  Decodable(nibblize_track(raw))
<1> DEFINE scan == Scanned(nibblize_track(raw))
<1>1. ASSUME NEW k \in 1 .. Width + 1, scan[k].kind = "data"
      PROVE  k > 1 /\ scan[k - 1].kind = "header"
  <2>1. PICK p \in Positions : p = (IF k = Width + 1 THEN 0 ELSE k - 1) /\ scan[k] = nibblize_track(raw)[p]
    <3>1. (IF k = Width + 1 THEN 0 ELSE k - 1) \in Positions
      BY WidthIsPositive DEF Positions
    <3> QED
      BY <3>1, ScanOfFormatted
  <2> HIDE DEF scan
  <2>2. p % 2 # 0
    BY <1>1, <2>1, Fieldwise
  <2>3. p = k - 1 /\ k > 1 /\ k # Width + 1 /\ k - 1 \in 1 .. Width + 1 /\ k - 2 \in Positions
    BY <2>1, <2>2, WidthIsPositive DEF Positions
  <2>4. scan[k - 1] = nibblize_track(raw)[k - 2]
    <3>1. k - 1 # Width + 1 /\ k - 1 - 1 = k - 2
      BY <2>3
    <3> QED
      BY <2>3, <3>1, ScanOfFormatted DEF scan
  <2>5. (k - 2) % 2 = 0
    BY <2>2, <2>3
  <2>6. scan[k - 1] = Header((k - 2) \div 2)
    BY <2>3, <2>4, <2>5, Fieldwise
  <2> QED
    BY <2>3, <2>6 DEF Header
<1> QED
  BY <1>1 DEF Decodable

-----------------------------------------------------------------------------
(* What the buffers and files hold                                          *)

ImageOK(i, c) == /\ i \in DskImages => c \in [Tracks -> [SectorIds -> Values]]
                 /\ i \in NibImages => c \in [Tracks -> [Positions -> Fields]]

\* The buffer b of a diskette_t k has the encoding of a track, of the one in the files F unless
\* it was written.
Holds(k, b, F) ==
    k.track_valid /\ k.image \in DskImages =>
        \E raw \in [SectorIds -> Values] :
            /\ b = nibblize_track(raw)
            /\ k.track_dirty \/ raw = F[k.image][k.phase \div 2]

FilesOK   == \A i \in DOMAIN files : ImageOK(i, files[i])
BuffersOK == buffer \in [Drives -> [Positions -> Fields]]
Faithful  == \A d \in Drives : Holds(disk[d], buffer[d], files)
ByteOK    == disk_byte \in Fields \cup {Low}

Stored == FilesOK /\ BuffersOK /\ Faithful

\* An encoded track consists of fields.
LEMMA EncodedTyped ==
    ASSUME NEW raw \in [SectorIds -> Values]
    PROVE  nibblize_track(raw) \in [Positions -> Fields]
<1> SUFFICES ASSUME NEW p \in Positions PROVE nibblize_track(raw)[p] \in Fields
  BY DEF nibblize_track
<1>1. p \div 2 \in SectorIds
  BY PlaceOfSector
<1>2. CASE p % 2 = 0
  BY <1>1, <1>2, Fieldwise DEF Fields
<1>3. CASE p % 2 # 0
  <2>1. raw[p \div 2] \in Values
    BY <1>1
  <2> QED
    BY <1>3, <2>1, Fieldwise DEF Fields
<1> QED
  BY <1>2, <1>3

\* So does a buffer without a track.
LEMMA BlankTyped == Blank \in [Positions -> Fields]
BY DEF Blank, Fields

\* A track stays in its buffer while nothing is written, or until it is decoded into its file.
LEMMA HoldsKept ==
    ASSUME NEW k, NEW m, NEW b, NEW F, NEW G, Holds(k, b, F),
           m.track_valid => k.track_valid, m.image = k.image, m.phase \div 2 = k.phase \div 2,
           NEW old, old = F[k.image][k.phase \div 2], NEW new, new = G[k.image][k.phase \div 2],
           m.track_dirty \/ (~k.track_dirty /\ new = old) \/ new = denibblize_track(b, old)
    PROVE  Holds(m, b, G)
<1> SUFFICES ASSUME m.track_valid, m.image \in DskImages
             PROVE  \E raw \in [SectorIds -> Values] :
                        /\ b = nibblize_track(raw)
                        /\ m.track_dirty \/ raw = G[m.image][m.phase \div 2]
  BY DEF Holds
<1>1. k.track_valid /\ k.image \in DskImages
  OBVIOUS
<1>2. PICK raw \in [SectorIds -> Values] : b = nibblize_track(raw) /\ (k.track_dirty \/ raw = old)
  BY <1>1 DEF Holds
<1>3. denibblize_track(b, old) = raw
  BY <1>2, DecodeEncoded
<1>4. m.track_dirty \/ raw = new
  BY <1>2, <1>3
<1> QED
  BY <1>2, <1>4

\* The head is on a track.
LEMMA TrackTyped ==
    ASSUME Inv, NEW d \in Drives
    PROVE  Track(d) \in Tracks
<1>1. PICK p \in 0 .. MaxPhase : p = disk[d].phase
  BY DEF Inv, SoundDrives, Sound, diskette_t
<1>2. MaxPhase \in Nat
  BY GeometryAssumption
<1>3. p \div 2 \in 0 .. MaxPhase \div 2
  BY <1>2
<1> QED
  BY <1>1, <1>3 DEF Track, Tracks

\* The file of a drive that is saved has what is decoded, and that of another what it had.
LEMMA SavedTrack ==
    ASSUME Inv, FilesOK, NEW D \in SUBSET Drives, NEW e \in Drives, NEW i \in DskImages,
           i = disk[e].image
    PROVE  /\ i \in DOMAIN files
           /\ e \in D /\ disk[e].track_dirty =>
                save_track_data(D)[i][Track(e)] = denibblize_track(buffer[e], files[i][Track(e)])
           /\ ~(e \in D /\ disk[e].track_dirty) => save_track_data(D)[i] = files[i]
<1>1. i # NoImage /\ i \in DOMAIN files
  BY GeometryAssumption DEF Inv, Present
<1>2. \A d \in Drives \ {e} : disk[d].image # i
  BY <1>1 DEF Inv, Present, OneDrive, Drives
<1>3. ASSUME e \in D, disk[e].track_dirty
      PROVE  save_track_data(D)[i][Track(e)] = denibblize_track(buffer[e], files[i][Track(e)])
  <2>1. save_track_data(D)[i] = Saved(e, i)
    BY <1>1, <1>3, SavedImage DEF Pending
  <2>2. Track(e) \in DOMAIN files[i]
    <3>1. files[i] \in [Tracks -> [SectorIds -> Values]]
      BY <1>1 DEF FilesOK, ImageOK
    <3> QED
      BY <3>1, TrackTyped
  <2> QED
    BY <2>1, <2>2 DEF Saved
<1>4. ASSUME ~(e \in D /\ disk[e].track_dirty)
      PROVE  save_track_data(D)[i] = files[i]
  <2>1. \A d \in D : ~Pending(d, i)
    BY <1>2, <1>4 DEF Pending
  <2> QED
    BY <1>1, <2>1, SavedImage
<1> QED
  BY <1>1, <1>3, <1>4

\* Saved files have the form of their images.
LEMMA SavedTyped ==
    ASSUME Inv, Stored, NEW D \in SUBSET Drives
    PROVE  \A i \in DOMAIN files : ImageOK(i, save_track_data(D)[i])
<1> SUFFICES ASSUME NEW i \in DOMAIN files PROVE ImageOK(i, save_track_data(D)[i])
  OBVIOUS
<1>1. ImageOK(i, files[i])
  BY DEF Stored, FilesOK
<1>2. CASE \A d \in D : ~Pending(d, i)
  BY <1>1, <1>2, SavedImage
<1>3. ASSUME NEW d \in D, Pending(d, i) PROVE ImageOK(i, save_track_data(D)[i])
  <2>1. save_track_data(D)[i] = Saved(d, i)
    BY <1>3, SavedImage
  <2>2. disk[d].track_valid /\ disk[d].image \in DskImages /\ i \in DskImages /\ i \notin NibImages
    BY <1>3, GeometryAssumption DEF Pending, Inv, SoundDrives, Sound
  <2>3. PICK raw \in [SectorIds -> Values] : buffer[d] = nibblize_track(raw)
    BY <2>2 DEF Stored, Faithful, Holds
  <2>4. Saved(d, i) = [files[i] EXCEPT ![Track(d)] = raw]
    BY <2>3, DecodeEncoded DEF Saved
  <2>5. files[i] \in [Tracks -> [SectorIds -> Values]]
    BY <1>1, <2>2 DEF ImageOK
  <2>6. Saved(d, i) \in [Tracks -> [SectorIds -> Values]]
    BY <2>4, <2>5
  <2> QED
    BY <2>1, <2>2, <2>6 DEF ImageOK
<1> QED
  BY <1>2, <1>3

\* A drive has nothing, or what it had, on the same track and clean only if it was or is saved.
Settled(d, D) ==
    \/ disk'[d].track_valid = FALSE
    \/ /\ disk'[d].image = disk[d].image /\ disk'[d].phase \div 2 = disk[d].phase \div 2
       /\ disk'[d].track_valid => disk[d].track_valid
       /\ disk'[d].track_dirty \/ ~disk[d].track_dirty \/ d \in D
       /\ buffer'[d] = buffer[d]

\* A step that saves some drives, and leaves the tracks of these or of none, keeps the contents.
LEMMA SavingStores ==
    ASSUME Inv, Stored, NEW D \in SUBSET Drives, files' = save_track_data(D), BuffersOK',
           \A d \in Drives : Settled(d, D)
    PROVE  Stored'
<1>1. FilesOK'
  <2>1. DOMAIN files' = DOMAIN files
    BY DEF save_track_data
  <2> QED
    BY <2>1, SavedTyped DEF FilesOK
<1>2. ASSUME NEW d \in Drives PROVE Holds(disk'[d], buffer'[d], files')
  <2> DEFINE k == disk[d]
  <2> DEFINE m == disk'[d]
  <2>1. CASE m.track_valid = FALSE
    BY <2>1 DEF Holds
  <2>2. CASE k.image \notin DskImages /\ m.image = k.image
    BY <2>2 DEF Holds
  <2>3. CASE m.track_valid # FALSE /\ k.image \in DskImages
    <3>1. /\ m.image = k.image /\ m.phase \div 2 = k.phase \div 2
          /\ m.track_valid => k.track_valid
          /\ m.track_dirty \/ ~k.track_dirty \/ d \in D
          /\ buffer'[d] = buffer[d]
      BY <2>3 DEF Settled
    <3>2. PICK old, new : old = files[k.image][k.phase \div 2] /\ new = files'[k.image][k.phase \div 2]
      OBVIOUS
    <3>3. /\ d \in D /\ k.track_dirty => new = denibblize_track(buffer[d], old)
          /\ ~(d \in D /\ k.track_dirty) => new = old
      BY <2>3, <3>2, SavedTrack DEF Track, Stored
    <3>4. m.track_dirty \/ (~k.track_dirty /\ new = old) \/ new = denibblize_track(buffer[d], old)
      BY <3>1, <3>3
    <3>5. Holds(k, buffer[d], files)
      BY DEF Stored, Faithful
    <3> HIDE DEF k, m
    <3>6. Holds(m, buffer[d], files')
      BY <3>1, <3>2, <3>4, <3>5, HoldsKept
    <3> QED
      BY <3>1, <3>6 DEF m
  <2> QED
    BY <2>1, <2>2, <2>3 DEF Settled
<1> QED
  BY <1>1, <1>2 DEF Stored, Faithful

\* So does one that leaves the files and buffers alone.
LEMMA HoldingStores ==
    ASSUME Stored, UNCHANGED files, UNCHANGED buffer, \A d \in Drives : Settled(d, {})
    PROVE  Stored'
<1>1. ASSUME NEW d \in Drives PROVE Holds(disk'[d], buffer'[d], files')
  <2> DEFINE k == disk[d]
  <2> DEFINE m == disk'[d]
  <2>1. CASE m.track_valid = FALSE
    BY <2>1 DEF Holds
  <2>2. CASE m.track_valid # FALSE
    <3>1. /\ m.image = k.image /\ m.phase \div 2 = k.phase \div 2
          /\ m.track_valid => k.track_valid
          /\ m.track_dirty \/ ~k.track_dirty
      BY <2>2 DEF Settled
    <3>2. PICK old : old = files[k.image][k.phase \div 2]
      OBVIOUS
    <3>3. Holds(k, buffer[d], files)
      BY DEF Stored, Faithful
    <3> HIDE DEF k, m
    <3>4. m.track_dirty \/ (~k.track_dirty /\ old = old) \/ old = denibblize_track(buffer[d], old)
      BY <3>1
    <3>5. Holds(m, buffer[d], files)
      BY <3>1, <3>2, <3>3, <3>4, HoldsKept
    <3> QED
      BY <3>5 DEF m
  <2> QED
    BY <2>1, <2>2
<1>2. FilesOK' /\ BuffersOK'
  BY DEF Stored, FilesOK, BuffersOK
<1> QED
  BY <1>1, <1>2 DEF Stored, Faithful

\* A drive that nothing happens to
LEMMA SameSettled ==
    ASSUME NEW d, NEW D, disk'[d] = disk[d], buffer'[d] = buffer[d]
    PROVE  Settled(d, D)
BY DEF Settled

\* A buffer whose track is left
LEMMA BlankBuffers ==
    ASSUME Stored, NEW d \in Drives, buffer' = [buffer EXCEPT ![d] = Blank]
    PROVE  BuffersOK' /\ \A e \in Drives \ {d} : buffer'[e] = buffer[e]
BY BlankTyped DEF Stored, BuffersOK

\* _disk6_phaseChange() saves a track before the head leaves it.
LEMMA PhaseStores ==
    ASSUME Inv, Stored, NEW sw \in 0 .. 7, _disk6_phaseChange(sw)
    PROVE  Stored'
<1>1. drive \in Drives /\ disk \in [Drives -> diskette_t]
  BY DEF Inv, Controls, SoundDrives
<1>2. PICK next : IF next \div 2 # Track(drive) THEN LeaveTrack(next)
                  ELSE disk' = [disk EXCEPT ![drive].phase = next] /\ UNCHANGED <<buffer, files>>
  BY DEF _disk6_phaseChange
<1>3. CASE LeaveTrack(next)
  <2>1. disk' = [disk EXCEPT ![drive] = [OffTrack(disk[drive]) EXCEPT !.phase = next]]
    BY <1>3 DEF LeaveTrack
  <2>2. disk'[drive].track_valid = FALSE
    BY <1>1, <2>1 DEF OffTrack, diskette_t
  <2>3. \A d \in Drives \ {drive} : disk'[d] = disk[d]
    BY <2>1
  <2>4. BuffersOK' /\ \A d \in Drives \ {drive} : buffer'[d] = buffer[d]
    BY <1>1, <1>3, BlankBuffers DEF LeaveTrack
  <2>5. ASSUME NEW d \in Drives PROVE Settled(d, {drive})
    <3>1. CASE d = drive
      BY <2>2, <3>1 DEF Settled
    <3>2. CASE d # drive
      BY <2>3, <2>4, <3>2, SameSettled
    <3> QED
      BY <3>1, <3>2
  <2>6. files' = save_track_data({drive}) /\ {drive} \in SUBSET Drives
    BY <1>1, <1>3 DEF LeaveTrack
  <2> QED
    BY <2>4, <2>5, <2>6, SavingStores
<1>4. CASE /\ next \div 2 = Track(drive) /\ disk' = [disk EXCEPT ![drive].phase = next]
           /\ UNCHANGED <<buffer, files>>
  <2>1. /\ disk'[drive].image = disk[drive].image /\ disk'[drive].phase = next
        /\ disk'[drive].track_valid = disk[drive].track_valid
        /\ disk'[drive].track_dirty = disk[drive].track_dirty
    BY <1>1, <1>4 DEF diskette_t
  <2>2. ASSUME NEW d \in Drives PROVE Settled(d, {})
    <3>1. CASE d = drive
      BY <1>4, <2>1, <3>1 DEF Settled, Track
    <3>2. CASE d # drive
      BY <1>4, <3>2, SameSettled
    <3> QED
      BY <3>1, <3>2
  <2> QED
    BY <1>4, <2>2, HoldingStores
<1> QED
  BY <1>2, <1>3, <1>4

\* What load_track_data() finds in the buffer or the file
LEMMA LoadedBufferTyped ==
    ASSUME Inv, Stored, NEW d \in Drives
    PROVE  /\ LoadedBuffer(d) \in [Positions -> Fields]
           /\ disk[d].image \in DskImages =>
                /\ files[disk[d].image][Track(d)] \in [SectorIds -> Values]
                /\ ~disk[d].track_valid =>
                     LoadedBuffer(d) = nibblize_track(files[disk[d].image][Track(d)])
           /\ disk[d].image \in NibImages =>
                files[disk[d].image][Track(d)] \in [Positions -> Fields]
<1>1. buffer[d] \in [Positions -> Fields]
  BY DEF Stored, BuffersOK
<1>2. Track(d) \in Tracks
  BY TrackTyped
<1>3. disk[d].image # NoImage => disk[d].image \in DOMAIN files
  BY DEF Inv, Present
<1>4. CASE disk[d].image \in DskImages
  <2>1. disk[d].image \in DOMAIN files /\ disk[d].image \notin NibImages
    BY <1>3, <1>4, GeometryAssumption
  <2>2. files[disk[d].image] \in [Tracks -> [SectorIds -> Values]]
    BY <1>4, <2>1 DEF Stored, FilesOK, ImageOK
  <2>3. PICK raw \in [SectorIds -> Values] : raw = files[disk[d].image][Track(d)]
    BY <1>2, <2>2
  <2>4. nibblize_track(raw) \in [Positions -> Fields]
    BY EncodedTyped
  <2> QED
    BY <1>1, <1>4, <2>1, <2>3, <2>4 DEF LoadedBuffer
<1>5. CASE disk[d].image \in NibImages
  <2>1. disk[d].image \in DOMAIN files /\ disk[d].image \notin DskImages
    BY <1>3, <1>5, GeometryAssumption
  <2>2. files[disk[d].image] \in [Tracks -> [Positions -> Fields]]
    BY <1>5, <2>1 DEF Stored, FilesOK, ImageOK
  <2> QED
    BY <1>1, <1>2, <2>1, <2>2 DEF LoadedBuffer
<1> QED
  BY <1>1, <1>4, <1>5 DEF LoadedBuffer

\* What is under a head
LEMMA StreamTyped ==
    ASSUME Inv, Stored, NEW d \in Drives
    PROVE  Stream(d) \in [Positions -> Fields]
BY LoadedBufferTyped DEF Stream

\* Data written over data leaves the encoding of a track.
LEMMA DataOverData ==
    ASSUME NEW raw \in [SectorIds -> Values], NEW p \in Positions, NEW v \in Values,
           nibblize_track(raw)[p].kind = "data"
    PROVE  \E new \in [SectorIds -> Values] :
               [nibblize_track(raw) EXCEPT ![p] = Data(v)] = nibblize_track(new)
<1> DEFINE new == [raw EXCEPT ![p \div 2] = v]
<1>1. p % 2 # 0 /\ p \div 2 \in SectorIds
  BY Fieldwise, PlaceOfSector
<1>2. new \in [SectorIds -> Values]
  BY <1>1
<1>3. ASSUME NEW q \in Positions
      PROVE  [nibblize_track(raw) EXCEPT ![p] = Data(v)][q] = nibblize_track(new)[q]
  <2>1. DOMAIN nibblize_track(raw) = Positions
    BY DEF nibblize_track
  <2>2. CASE q = p
    <3>1. new[p \div 2] = v
      BY <1>1
    <3>2. nibblize_track(new)[p] = Data(new[p \div 2])
      BY <1>1, Fieldwise
    <3> HIDE DEF new
    <3> QED
      BY <2>1, <2>2, <3>1, <3>2
  <2>3. CASE q # p /\ q % 2 = 0
    <3> HIDE DEF new
    <3> QED
      BY <2>1, <2>3, Fieldwise
  <2>4. CASE q # p /\ q % 2 # 0
    <3>1. q \div 2 # p \div 2
      BY <1>1, <2>4, PlaceOfSector
    <3>2. new[q \div 2] = raw[q \div 2]
      BY <3>1, <2>4, PlaceOfSector
    <3> HIDE DEF new
    <3> QED
      BY <2>1, <2>4, <3>2, Fieldwise
  <2> QED
    BY <2>2, <2>3, <2>4
<1>4. [nibblize_track(raw) EXCEPT ![p] = Data(v)] = nibblize_track(new)
  <2> HIDE DEF new
  <2>1. DOMAIN nibblize_track(raw) = Positions /\ DOMAIN nibblize_track(new) = Positions
    BY DEF nibblize_track
  <2>2. DOMAIN [nibblize_track(raw) EXCEPT ![p] = Data(v)] = Positions
    BY <2>1
  <2>3. /\ nibblize_track(new) = [q \in Positions |-> nibblize_track(new)[q]]
        /\ [nibblize_track(raw) EXCEPT ![p] = Data(v)] =
              [q \in Positions |-> [nibblize_track(raw) EXCEPT ![p] = Data(v)][q]]
    BY <2>1, <2>2 DEF nibblize_track
  <2> QED
    BY <1>3, <2>3
<1> QED
  BY <1>2, <1>4

\* A byte that a program writes as data is the data of a sector, and none that it writes is low.
LEMMA DataField ==
    ASSUME NEW b \in Fields \cup {Low}
    PROVE  /\ b.kind = "data" => \E v \in Values : b = Data(v)
           /\ b # Low => b \in Fields
BY DEF Fields, Sync, Header, Data, Low

\* What programs write when they do not format is the data of a sector.
LEMMA ByteStores ==
    ASSUME ~Formats, Inv, Stored, ByteOK, _disk_readWriteByte
    PROVE  Stored'
<1> DEFINE k == load_track_data(drive)
<1> DEFINE m == disk'[drive]
<1>1. drive \in Drives /\ disk \in [Drives -> diskette_t] /\ Sound(disk[drive])
  BY DEF Inv, Controls, SoundDrives
<1>2. /\ Sound(k) /\ SameTrack(k, disk[drive]) /\ k.track_dirty = disk[drive].track_dirty
      /\ k.image # NoImage => k.track_valid
      /\ disk[drive].track_valid \/ k.image = NoImage => k = disk[drive]
  BY <1>1, LoadedIsSound DEF Inv
<1>3. /\ m.image = disk[drive].image /\ m.phase = disk[drive].phase /\ m.track_valid = k.track_valid
      /\ Writing => m.track_dirty = TRUE
      /\ ~Writing => m.track_dirty = disk[drive].track_dirty
  <2>1. k \in diskette_t /\ m = IF Writing THEN [Turned(k) EXCEPT !.track_dirty = TRUE] ELSE Turned(k)
    BY <1>1, <1>2 DEF _disk_readWriteByte, Sound
  <2> HIDE DEF k, m
  <2>2. PICK r : Turned(k) = [k EXCEPT !.run_byte = r]
    BY DEF Turned
  <2>3. CASE Writing
    BY <1>2, <2>1, <2>2, <2>3 DEF diskette_t, SameTrack
  <2>4. CASE ~Writing
    BY <1>2, <2>1, <2>2, <2>4 DEF diskette_t, SameTrack
  <2> QED
    BY <2>3, <2>4
<1>4. \A d \in Drives \ {drive} : disk'[d] = disk[d] /\ buffer'[d] = buffer[d]
  BY DEF _disk_readWriteByte
<1>5. /\ Writing => WritesData
      /\ buffer'[drive] = IF Writing /\ k.image \in DskImages
                          THEN [LoadedBuffer(drive) EXCEPT ![k.run_byte] = disk_byte]
                          ELSE LoadedBuffer(drive)
      /\ files' = IF Writing /\ k.image \in NibImages
                  THEN [files EXCEPT ![k.image][Track(drive)][k.run_byte] = disk_byte]
                  ELSE files
      /\ DOMAIN buffer' = Drives /\ buffer' = [d \in Drives |-> buffer'[d]]
  BY <1>1 DEF _disk_readWriteByte, Stored, BuffersOK
<1>6. k.run_byte \in Positions /\ k.image = disk[drive].image
  BY <1>2 DEF Sound, SameTrack, diskette_t
<1>7. LoadedBuffer(drive) \in [Positions -> Fields]
  BY <1>1, LoadedBufferTyped
<1>8. Writing => disk_byte \in Fields
  BY DataField DEF Writing, ByteOK
<1>9. BuffersOK'
  <2>1. buffer'[drive] \in [Positions -> Fields]
    <3> HIDE DEF k
    <3>1. CASE Writing /\ k.image \in DskImages
      BY <1>5, <1>6, <1>7, <1>8, <3>1
    <3>2. CASE ~(Writing /\ k.image \in DskImages)
      BY <1>5, <1>7, <3>2
    <3> QED
      BY <3>1, <3>2
  <2> QED
    BY <1>1, <1>4, <1>5, <2>1 DEF Stored, BuffersOK
<1> HIDE DEF k, m
<1>10. FilesOK' /\ \A i \in DskImages : files'[i] = files[i]
  <2>1. CASE ~(Writing /\ k.image \in NibImages)
    BY <1>5, <2>1 DEF Stored, FilesOK
  <2>2. CASE Writing /\ k.image \in NibImages
    <3>1. PICK im, t, p : im = k.image /\ t = Track(drive) /\ p = k.run_byte
      OBVIOUS
    <3>2. /\ im \in NibImages /\ im \notin DskImages /\ im \in DOMAIN files /\ t \in Tracks /\ p \in Positions
      <4>1. im \notin DskImages /\ im # NoImage
        BY <2>2, <3>1, GeometryAssumption
      <4> QED
        BY <1>1, <1>6, <2>2, <3>1, <4>1, TrackTyped DEF Inv, Present
    <3>3. files[im] \in [Tracks -> [Positions -> Fields]]
      BY <3>2 DEF Stored, FilesOK, ImageOK
    <3>4. files' = [files EXCEPT ![im] = [files[im] EXCEPT ![t] = [files[im][t] EXCEPT ![p] = disk_byte]]]
      BY <1>5, <2>2, <3>1
    <3>5. files[im][t] \in [Positions -> Fields] /\ disk_byte \in Fields
      BY <1>8, <2>2, <3>2, <3>3
    <3>6. PICK b \in [Positions -> Fields] : b = [files[im][t] EXCEPT ![p] = disk_byte]
      BY <3>2, <3>5
    <3>7. PICK c \in [Tracks -> [Positions -> Fields]] : c = [files[im] EXCEPT ![t] = b]
      BY <3>2, <3>3
    <3>8. files' = [files EXCEPT ![im] = c]
      BY <3>4, <3>6, <3>7
    <3>9. DOMAIN files' = DOMAIN files /\ files'[im] = c /\ \A i \in DOMAIN files \ {im} : files'[i] = files[i]
      BY <3>2, <3>8
    <3>10. \A i \in DskImages : files'[i] = files[i]
      BY <3>2, <3>8
    <3>11. ImageOK(im, c)
      BY <3>2, <3>7 DEF ImageOK
    <3>12. ASSUME NEW i \in DOMAIN files' PROVE ImageOK(i, files'[i])
      BY <3>9, <3>11, <3>12 DEF Stored, FilesOK
    <3> QED
      BY <3>10, <3>12 DEF FilesOK
  <2> QED
    BY <2>1, <2>2
<1>11. Holds(m, buffer'[drive], files')
  <2>1. SUFFICES ASSUME m.track_valid, m.image \in DskImages
                 PROVE  \E raw \in [SectorIds -> Values] :
                            /\ buffer'[drive] = nibblize_track(raw)
                            /\ m.track_dirty \/ raw = files'[m.image][m.phase \div 2]
    BY DEF Holds
  <2>2. k.image \in DskImages /\ disk[drive].image \in DskImages
    BY <1>3, <1>6, <2>1
  <2>3. files'[m.image][m.phase \div 2] = files[disk[drive].image][Track(drive)]
    BY <1>3, <1>10, <2>2 DEF Track
  <2>4. CASE disk[drive].track_valid
    <3>1. LoadedBuffer(drive) = buffer[drive]
      BY <2>4 DEF LoadedBuffer
    <3>2. PICK raw \in [SectorIds -> Values] :
              /\ buffer[drive] = nibblize_track(raw)
              /\ disk[drive].track_dirty \/ raw = files[disk[drive].image][Track(drive)]
      BY <1>1, <2>2, <2>4 DEF Stored, Faithful, Holds, Track
    <3>3. CASE ~Writing
      BY <1>3, <1>5, <2>3, <3>1, <3>2, <3>3
    <3>4. CASE Writing
      <4>1. k.run_byte = disk[drive].run_byte
        BY <1>2, <2>4
      <4>2. disk_byte.kind = "data" /\ Stream(drive)[k.run_byte].kind = "data"
        BY <1>5, <3>4, <4>1 DEF WritesData
      <4>3. Stream(drive) = nibblize_track(raw)
        BY <2>2, <3>1, <3>2, GeometryAssumption DEF Stream
      <4>4. PICK v \in Values : disk_byte = Data(v)
        BY <4>2, DataField DEF ByteOK
      <4>5. buffer'[drive] = [nibblize_track(raw) EXCEPT ![k.run_byte] = Data(v)]
        BY <1>5, <2>2, <3>1, <3>2, <3>4, <4>4
      <4>6. PICK new \in [SectorIds -> Values] : buffer'[drive] = nibblize_track(new)
        <5>1. PICK p \in Positions : p = k.run_byte /\ nibblize_track(raw)[p].kind = "data"
          BY <1>6, <4>2, <4>3
        <5>2. \E new \in [SectorIds -> Values] :
                  [nibblize_track(raw) EXCEPT ![p] = Data(v)] = nibblize_track(new)
          BY <5>1, DataOverData
        <5> QED
          BY <4>5, <5>1, <5>2
      <4> QED
        BY <1>3, <3>4, <4>6
    <3> QED
      BY <3>3, <3>4
  <2>5. CASE ~disk[drive].track_valid
    <3>1. ~Writing
      BY <1>5, <2>5 DEF WritesData
    <3>2. PICK raw \in [SectorIds -> Values] :
              /\ raw = files[disk[drive].image][Track(drive)]
              /\ LoadedBuffer(drive) = nibblize_track(raw)
      BY <1>1, <2>2, <2>5, LoadedBufferTyped
    <3> QED
      BY <1>5, <2>3, <3>1, <3>2
  <2> QED
    BY <2>4, <2>5
<1>12. ASSUME NEW d \in Drives \ {drive} PROVE Holds(disk'[d], buffer'[d], files')
  <2>1. Holds(disk[d], buffer[d], files)
    BY DEF Stored, Faithful
  <2>2. disk[d].image \in DskImages => files'[disk[d].image] = files[disk[d].image]
    BY <1>10
  <2> QED
    BY <1>4, <2>1, <2>2 DEF Holds
<1> QED
  BY <1>9, <1>10, <1>11, <1>12 DEF Stored, Faithful, m

\* The latch holds a field, or a byte that is none.
LEMMA ShiftedTyped ==
    ASSUME Inv, Stored, ByteOK
    PROVE  Shifted \in Fields \cup {Low}
<1>1. drive \in Drives
  BY DEF Inv, Controls
<1>2. load_track_data(drive).run_byte \in Positions
  BY <1>1, LoadedIsSound DEF Inv, Sound, diskette_t
<1>3. Stream(drive)[load_track_data(drive).run_byte] \in Fields
  BY <1>1, <1>2, StreamTyped
<1>4. Sync \in Fields
  BY DEF Fields
<1> QED
  BY <1>3, <1>4 DEF Shifted, ByteOK

\* So does _disk_readLatch() find it.
LEMMA SensedTyped ==
    ASSUME ByteOK
    PROVE  Sensed \in SUBSET (Fields \cup {Low})
BY DEF Sensed, ByteOK, Fields

\* $C0E0-$C0EF keep the contents,
LEMMA AccessStores ==
    ASSUME ~Formats, Inv, Stored, ByteOK, NEW sw \in 0 .. 15, Access(sw)
    PROVE  Stored'
<1>0. ASSUME UNCHANGED contents PROVE Stored'
  <2>1. UNCHANGED disk /\ UNCHANGED buffer /\ UNCHANGED files
    BY <1>0 DEF contents
  <2> QED
    BY <2>1, SameSettled, HoldingStores
<1>1. CASE sw \in 0 .. 7
  BY <1>1, PhaseStores DEF Access
<1>2. CASE sw \in 8 .. 11 \cup {13, 14, 15}
  BY <1>0, <1>2 DEF Access, _disk6_motorControl, _disk6_driveSelect, _disk_modeSelect
<1>3. CASE sw = 12
  BY <1>3, ByteStores DEF Access
<1> QED
  BY <1>1, <1>2, <1>3

\* and programs keep the latch too.
LEMMA ProgramStores ==
    ASSUME ~Formats, Inv, Stored, ByteOK, Program
    PROVE  Stored' /\ ByteOK'
<1>1. ASSUME NEW sw \in Reads, disk6_ioRead(sw) PROVE Stored' /\ ByteOK'
  <2>1. sw \in 0 .. 15 /\ Access(sw)
    BY <1>1, InputAssumption DEF disk6_ioRead
  <2>2. \/ disk_byte' = Shifted \/ disk_byte' \in Sensed \/ disk_byte' = disk_byte
    BY <1>1 DEF disk6_ioRead
  <2>3. ByteOK'
    BY <2>2, ShiftedTyped, SensedTyped DEF ByteOK
  <2> QED
    BY <2>1, <2>3, AccessStores
<1>2. ASSUME NEW sw \in Writes, NEW b \in Fields \cup {Low}, disk6_ioWrite(sw, b) PROVE Stored' /\ ByteOK'
  <2>1. sw \in 0 .. 15 /\ Access(sw)
    BY <1>2, InputAssumption DEF disk6_ioWrite
  <2>2. disk_byte' = b \/ disk_byte' = Shifted \/ disk_byte' = disk_byte
    BY <1>2 DEF disk6_ioWrite
  <2>3. ByteOK'
    BY <2>2, ShiftedTyped DEF ByteOK
  <2> QED
    BY <2>1, <2>3, AccessStores
<1> QED
  BY <1>1, <1>2 DEF Program

\* One drive is saved and gets another image or none.
LEMMA ExchangeStores ==
    ASSUME Inv, Stored, NEW e \in Drives, NEW k, k.track_valid = FALSE,
           files' = save_track_data({e}), disk' = [disk EXCEPT ![e] = k],
           buffer' = [buffer EXCEPT ![e] = Blank]
    PROVE  Stored'
<1>1. disk'[e] = k /\ \A d \in Drives \ {e} : disk'[d] = disk[d]
  BY DEF Inv, SoundDrives
<1>2. BuffersOK' /\ \A d \in Drives \ {e} : buffer'[d] = buffer[d]
  BY BlankBuffers
<1>3. ASSUME NEW d \in Drives PROVE Settled(d, {e})
  <2>1. CASE d = e
    BY <1>1, <2>1 DEF Settled
  <2>2. CASE d # e
    BY <1>1, <1>2, <2>2, SameSettled
  <2> QED
    BY <2>1, <2>2
<1> QED
  BY <1>2, <1>3, SavingStores

\* All drives are saved, and their tracks are left.
LEMMA ReplaceStores ==
    ASSUME Inv, Stored, files' = save_track_data(Drives), buffer' = [d \in Drives |-> Blank],
           \A d \in Drives : disk'[d].track_valid = FALSE
    PROVE  Stored'
<1>1. BuffersOK'
  BY BlankTyped DEF BuffersOK
<1>2. \A d \in Drives : Settled(d, Drives)
  BY DEF Settled
<1>3. Drives \in SUBSET Drives
  OBVIOUS
<1> QED
  BY <1>1, <1>2, <1>3, SavingStores

\* disk6_flush() saves and keeps the tracks in their buffers.
LEMMA FlushStores ==
    ASSUME Inv, Stored, NEW D \in SUBSET Drives, disk6_flush(D)
    PROVE  Stored'
<1>1. BuffersOK' /\ files' = save_track_data(D) /\ UNCHANGED buffer
  BY DEF disk6_flush, Stored, BuffersOK
<1>2. ASSUME NEW d \in Drives PROVE Settled(d, D)
  <2>1. disk[d] \in diskette_t
    BY DEF Inv, SoundDrives
  <2>2. CASE d \in D
    <3>1. disk'[d] = [disk[d] EXCEPT !.track_dirty = FALSE]
      BY <2>2 DEF disk6_flush, Clean
    <3>2. /\ disk'[d].image = disk[d].image /\ disk'[d].phase = disk[d].phase
          /\ disk'[d].track_valid = disk[d].track_valid
      BY <2>1, <3>1 DEF diskette_t
    <3> QED
      BY <1>1, <2>2, <3>2 DEF Settled
  <2>3. CASE d \notin D
    BY <1>1, <2>3, SameSettled DEF disk6_flush
  <2> QED
    BY <2>2, <2>3
<1> QED
  BY <1>1, <1>2, SavingStores

\* A drive that is emptied has no track in its buffer,
LEMMA EmptiedIsOff ==
    ASSUME NEW k \in diskette_t
    PROVE  Emptied(k).track_valid = FALSE /\ DOMAIN Emptied(k) = DOMAIN k /\ "track_valid" \in DOMAIN k
BY DEF Emptied, OffTrack, diskette_t

\* also when it gets another image or a place from a state file.
LEMMA PlacedIsOff ==
    ASSUME Inv, NEW d \in Drives, NEW i, NEW readonly, NEW p, NEW r
    PROVE  Placed(d, i, readonly, p, r).track_valid = FALSE
<1>1. disk[d] \in diskette_t
  BY DEF Inv, SoundDrives
<1> QED
  BY <1>1, EmptiedIsOff DEF Placed

\* The operations of the host keep the contents and the latch.
LEMMA HostStores ==
    ASSUME Inv, Stored, ByteOK, Host
    PROVE  Stored' /\ ByteOK'
<1>0. \A d \in Drives : disk[d] \in diskette_t
  BY DEF Inv, SoundDrives
<1>1. ASSUME NEW D \in {{0}, {1}, Drives}, disk6_flush(D)
      PROVE  Stored' /\ ByteOK'
  <2>1. D \in SUBSET Drives
    BY DEF Drives
  <2> QED
    BY <1>1, <2>1, FlushStores DEF disk6_flush, ByteOK
<1>2. ASSUME NEW d \in Drives, disk6_eject(d)
      PROVE  Stored' /\ ByteOK'
  <2>1. Emptied(disk[d]).track_valid = FALSE
    BY <1>0, EmptiedIsOff
  <2> QED
    BY <1>2, <2>1, ExchangeStores DEF disk6_eject, ByteOK
<1>3. ASSUME NEW n \in Insertions, disk6_insert(n.drive, n.image, n.readonly)
      PROVE  Stored' /\ ByteOK'
  <2>1. n.drive \in Drives
    BY InputAssumption
  <2>2. PICK k : k = [Emptied(disk[n.drive]) EXCEPT !.image = n.image, !.is_protected = n.readonly]
    OBVIOUS
  <2>3. k.track_valid = FALSE
    <3>1. PICK e \in diskette_t : e = disk[n.drive]
      BY <1>0, <2>1
    <3>2. k = [Emptied(e) EXCEPT !.image = n.image, !.is_protected = n.readonly]
      BY <2>2, <3>1
    <3> QED
      BY <3>2, EmptiedIsOff
  <2>4. /\ disk' = [disk EXCEPT ![n.drive] = k] /\ files' = save_track_data({n.drive})
        /\ buffer' = [buffer EXCEPT ![n.drive] = Blank] /\ UNCHANGED disk_byte
    BY <1>3, <2>2 DEF disk6_insert
  <2> QED
    BY <2>1, <2>3, <2>4, ExchangeStores DEF ByteOK
<1>4. ASSUME disk6_init
      PROVE  Stored' /\ ByteOK'
  <2>1. ASSUME NEW d \in Drives PROVE disk'[d].track_valid = FALSE
    <3>1. PICK e \in diskette_t : e = disk[d]
      BY <1>0
    <3>2. disk'[d] = [OffTrack(e) EXCEPT !.phase = 0, !.run_byte = 0]
      BY <1>4, <3>1 DEF disk6_init
    <3> QED
      BY <3>2 DEF OffTrack, diskette_t
  <2>2. /\ files' = save_track_data(Drives) /\ buffer' = [d \in Drives |-> Blank]
        /\ disk_byte' = Low
    BY <1>4 DEF disk6_init
  <2> QED
    BY <2>1, <2>2, ReplaceStores DEF ByteOK
<1>5. ASSUME NEW f \in StateFiles
      PROVE  f.disk_byte \in Fields \cup {Low}
  <2>1. PICK X : f \in [motor_off : 0 .. SpinDown + 1, drive : Drives, ddrw : BOOLEAN,
                        disk_byte : Fields \cup {Low}, stepper_phases : SUBSET (0 .. 3), disk : X]
    BY InputAssumption
  <2> QED
    BY <2>1
<1>6. ASSUME NEW f \in StateFiles, disk6_loadState(f)
      PROVE  Stored' /\ ByteOK'
  <2> DEFINE there(d) == f.disk[d].image \in DOMAIN files
  <2>1. ASSUME NEW d \in Drives PROVE disk'[d].track_valid = FALSE
    <3> DEFINE i == IF there(d) THEN f.disk[d].image ELSE NoImage
    <3> DEFINE readonly == there(d) /\ f.disk[d].is_protected
    <3>1. disk'[d] = Placed(d, i, readonly, f.disk[d].phase, f.disk[d].run_byte)
      BY <1>6 DEF disk6_loadState, Placed
    <3> HIDE DEF i, readonly
    <3>2. Placed(d, i, readonly, f.disk[d].phase, f.disk[d].run_byte).track_valid = FALSE
      BY PlacedIsOff
    <3> QED
      BY <3>1, <3>2
  <2>2. /\ files' = save_track_data(Drives) /\ buffer' = [d \in Drives |-> Blank]
        /\ disk_byte' = f.disk_byte
    BY <1>6 DEF disk6_loadState, LoadController
  <2> QED
    BY <1>5, <2>1, <2>2, ReplaceStores DEF ByteOK
<1>7. ASSUME NEW f \in StateFiles, NEW n \in 0 .. 1, LoadTorn(f, n)
      PROVE  Stored' /\ ByteOK'
  <2>1. ASSUME NEW d \in Drives PROVE disk'[d].track_valid = FALSE
    <3>1. PICK e \in diskette_t : e = disk[d]
      BY <1>0
    <3>2. CASE d < n
      <4>1. disk'[d] = [Emptied(e) EXCEPT !.phase = f.disk[d].phase, !.run_byte = f.disk[d].run_byte]
        BY <1>7, <3>1, <3>2 DEF LoadTorn
      <4> QED
        BY <4>1, EmptiedIsOff
    <3>3. CASE ~(d < n)
      BY <1>7, <3>1, <3>3, EmptiedIsOff DEF LoadTorn
    <3> QED
      BY <3>2, <3>3
  <2>2. /\ files' = save_track_data(Drives) /\ buffer' = [d \in Drives |-> Blank]
        /\ disk_byte' = f.disk_byte
    BY <1>7 DEF LoadTorn, LoadController
  <2> QED
    BY <1>5, <2>1, <2>2, ReplaceStores DEF ByteOK
<1>8. ASSUME NEW f \in StateFiles, NEW n \in 1 .. 3, LoadTornEarly(f, n)
      PROVE  Stored' /\ ByteOK'
  <2>1. UNCHANGED disk_byte /\ UNCHANGED disk /\ UNCHANGED buffer /\ UNCHANGED files
    BY <1>8 DEF LoadTornEarly, contents
  <2> QED
    BY <2>1, SameSettled, HoldingStores DEF ByteOK
<1> QED
  BY <1>1, <1>2, <1>3, <1>4, <1>6, <1>7, <1>8 DEF Host

\* Diskettes are formatted before they come here.
LEMMA StoredInit == DiskInit => Stored /\ ByteOK
<1> SUFFICES ASSUME DiskInit PROVE Stored /\ ByteOK
  OBVIOUS
<1>1. PICK library \in Libraries, v \in Values :
          files = [i \in library |-> [t \in Tracks |->
                      IF i \in NibImages THEN nibblize_track([s \in SectorIds |-> v])
                      ELSE [s \in SectorIds |-> v]]]
  BY DEF DiskInit
<1>2. PICK raw \in [SectorIds -> Values] : raw = [s \in SectorIds |-> v]
  OBVIOUS
<1>3. nibblize_track(raw) \in [Positions -> Fields]
  BY EncodedTyped
<1>4. ASSUME NEW i \in DOMAIN files PROVE ImageOK(i, files[i])
  <2>1. files[i] = [t \in Tracks |-> IF i \in NibImages THEN nibblize_track(raw) ELSE raw]
    BY <1>1, <1>2
  <2>2. CASE i \in NibImages
    <3>1. i \notin DskImages
      BY <2>2, GeometryAssumption
    <3> QED
      BY <1>3, <2>1, <2>2, <3>1 DEF ImageOK
  <2>3. CASE i \notin NibImages
    BY <2>1, <2>3 DEF ImageOK
  <2> QED
    BY <2>2, <2>3
<1>5. Faithful
  BY DEF DiskInit, Faithful, Holds
<1> QED
  BY <1>4, <1>5, BlankTyped DEF DiskInit, Stored, FilesOK, BuffersOK, ByteOK

\* With programs that write the data of sectors, all this is so for ever.
LEMMA StoredAlways == ASSUME ~Formats PROVE DiskSpec => [](Inv /\ Stored /\ ByteOK)
<1>1. Inv /\ Stored /\ ByteOK /\ [Program \/ Host]_dvars => (Inv /\ Stored /\ ByteOK)'
  <2> SUFFICES ASSUME Inv, Stored, ByteOK, [Program \/ Host]_dvars PROVE (Inv /\ Stored /\ ByteOK)'
    OBVIOUS
  <2>1. Inv'
    BY StepKeeps
  <2>2. CASE UNCHANGED dvars
    <3>1. UNCHANGED disk_byte /\ UNCHANGED disk /\ UNCHANGED buffer /\ UNCHANGED files
      BY <2>2 DEF dvars, contents
    <3>2. Stored'
      BY <3>1, SameSettled, HoldingStores
    <3> QED
      BY <2>1, <3>1, <3>2 DEF ByteOK
  <2>3. CASE Program
    BY <2>1, <2>3, ProgramStores
  <2>4. CASE Host
    BY <2>1, <2>4, HostStores
  <2> QED
    BY <2>2, <2>3, <2>4
<1>2. DiskInit => Inv /\ Stored /\ ByteOK
  BY InvInit, StoredInit
<1> QED
  BY <1>1, <1>2, PTL DEF DiskSpec

-----------------------------------------------------------------------------
(* Theorems                                                                 *)

\* disk.c: the arm stays on the diskette and the head within the track, whatever magnets
\* programs switch and whatever state files bring (_disk6_phaseChange(), _disk_readWriteByte(),
\* disk6_loadState()).
THEOREM HardwareStaysOK == DiskSpec => []HardwareOK
<1>1. Inv => HardwareOK
  BY DEF Inv, Controls, SoundDrives, HardwareOK
<1> QED
  BY <1>1, InvAlways, PTL

\* disk.c:508: a track that is written is in the buffer of the drive until it is saved, and is
\* one of an image that may be written; load_track_data() never overwrites it.
THEOREM DirtyStaysHeld == DiskSpec => []DirtyIsHeld
<1>1. Inv => DirtyIsHeld
  BY DEF Inv, SoundDrives, Sound, DirtyIsHeld, Inserted
<1> QED
  BY <1>1, InvAlways, PTL

\* save_track_data() before every seek, ejection, insertion, reset, flush and load keeps all
\* that programs have written: what is recorded changes only on the track under the head of an
\* inserted diskette that is not protected. The controller implements Diskettes.
THEOREM WritesStayRecorded == DiskSpec => WritesAreKept
<1>1. Inv /\ [Program \/ Host]_dvars
          => [Recorded!Handle \/ \E d \in Drives : Recorded!Write(d)]_(Recorded!drivevars)
  BY StepKeeps DEF Recorded!Handle
<1> QED
  BY <1>1, InvAlways, PTL DEF DiskSpec, WritesAreKept, Recorded!Spec

\* disk.c: with programs that write the data of sectors, files have their sectors, buffers and
\* the latch have fields (_disk_readWriteByte(), denibblize_track()).
THEOREM ContentsStayTyped == ASSUME ~Formats PROVE DiskSpec => []TypeOK
<1>1. Inv /\ Stored /\ ByteOK => TypeOK
  <2> SUFFICES ASSUME Inv, Stored, ByteOK PROVE TypeOK
    OBVIOUS
  <2>1. HardwareOK
    BY DEF Inv, Controls, SoundDrives, HardwareOK
  <2>2. /\ \A i \in DskImages \cap DOMAIN files : files[i] \in [Tracks -> [SectorIds -> Values]]
        /\ \A i \in NibImages \cap DOMAIN files : files[i] \in [Tracks -> [Positions -> Fields]]
    BY DEF Stored, FilesOK, ImageOK
  <2> QED
    BY <2>1, <2>2 DEF TypeOK, Stored, BuffersOK, ByteOK
<1> QED
  BY <1>1, StoredAlways, PTL

\* disk.c:421: a flush may come between any two nibbles, and finds a header before the data of
\* every sector, with programs that write the data of sectors. With programs that format tracks
\* it does not (Disk6Format.cfg).
THEOREM FlushAlwaysDecodes == ASSUME ~Formats PROVE DiskSpec => []DenibblizeAssertion
<1>1. Inv /\ Stored /\ ByteOK => DenibblizeAssertion
  <2> SUFFICES ASSUME Inv, Stored, NEW d \in Drives, NEW i \in DskImages, Pending(d, i)
               PROVE  Decodable(buffer[d])
    BY DEF DenibblizeAssertion
  <2>1. disk[d].track_valid /\ disk[d].image \in DskImages
    BY DEF Pending, Inv, SoundDrives, Sound
  <2>2. PICK raw \in [SectorIds -> Values] : buffer[d] = nibblize_track(raw)
    BY <2>1 DEF Stored, Faithful, Holds
  <2> QED
    BY <2>2, FormattedIsDecodable
<1> QED
  BY <1>1, StoredAlways, PTL

\* disk.c:638: whatever is moved, exchanged, flushed, reset and loaded, the buffer under a head
\* holds what the diskette holds with all that was written, which is what programs read.
THEOREM BuffersStayFaithful == ASSUME ~Formats PROVE DiskSpec => []ReadsWhatIsRecorded
<1>1. Inv /\ Stored /\ ByteOK => ReadsWhatIsRecorded
  <2> SUFFICES ASSUME Inv, Stored, NEW d \in Drives, disk[d].track_valid, disk[d].image \in DskImages
               PROVE  buffer[d] = nibblize_track(Medium[disk[d].image][Track(d)])
    BY DEF ReadsWhatIsRecorded
  <2>1. PICK i \in DskImages : i = disk[d].image
    OBVIOUS
  <2>2. PICK raw \in [SectorIds -> Values] :
            buffer[d] = nibblize_track(raw) /\ (disk[d].track_dirty \/ raw = files[i][Track(d)])
    BY <2>1 DEF Stored, Faithful, Holds, Track
  <2>3. Drives \in SUBSET Drives
    OBVIOUS
  <2>4. CASE disk[d].track_dirty
    <3>1. Medium[i][Track(d)] = denibblize_track(buffer[d], files[i][Track(d)])
      BY <2>1, <2>3, <2>4, SavedTrack DEF Stored, Medium
    <3>2. Medium[i][Track(d)] = raw
      BY <2>2, <3>1, DecodeEncoded
    <3> QED
      BY <2>1, <2>2, <3>2
  <2>5. CASE ~disk[d].track_dirty
    <3>1. Medium[i] = files[i]
      BY <2>1, <2>3, <2>5, SavedTrack DEF Stored, Medium
    <3> QED
      BY <2>1, <2>2, <2>5, <3>1
  <2> QED
    BY <2>4, <2>5
<1> QED
  BY <1>1, StoredAlways, PTL
===============================================================================
