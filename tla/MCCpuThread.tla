----------------------------- MODULE MCCpuThread -----------------------------
(* Model-checking instances of CpuThread: one UI thread, or a key thread and *)
(* an interface thread.                                                      *)
EXTENDS CpuThread
=============================================================================
