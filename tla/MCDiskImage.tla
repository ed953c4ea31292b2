----------------------------- MODULE MCDiskImage -----------------------------
(***************************************************************************)
(* A compressed and a plain image.                                         *)
(***************************************************************************)
EXTENDS DiskImage
CONSTANTS gz, dsk
==============================================================================
