------------------------------- MODULE MCDisk6 -------------------------------
(* Instances of Disk6: the user inserts an image in drive 1, and has state   *)
(* files of sessions that had it in drive 2, or write-protected in drive 1.   *)
EXTENDS Disk6, TLC

CONSTANTS dsk, nib, v0, v1

\* What the data of a sector is does not matter.
MCValues == {v0, v1}
AnyValues == Permutations(MCValues)

MCInsertions == {[drive |-> 0, image |-> i, readonly |-> FALSE] : i \in Images}

StateOf(d, protected) ==
    [motor_off |-> 0, drive |-> d, ddrw |-> TRUE, disk_byte |-> Low, stepper_phases |-> {1, 2},
     disk |-> [k \in Drives |-> [image |-> IF k = d THEN dsk ELSE NoImage,
                                 is_protected |-> k = d /\ protected,
                                 phase |-> IF k = d THEN MaxPhase ELSE 0, run_byte |-> Width - 1]]]

MCStateFiles == {StateOf(1, FALSE), StateOf(0, TRUE)}
==============================================================================
