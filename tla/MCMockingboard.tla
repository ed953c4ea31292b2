---------------------------- MODULE MCMockingboard ----------------------------
(* Model-checking instances of Mockingboard.                                 *)
EXTENDS Mockingboard

\* A timer that has just expired, and one that was never used
SomeChips ==
    {Blank, [Blank EXCEPT !.counter = Modulus - 1, !.latchL = 1, !.IER = TRUE, !.IFR = TRUE, !.raised = TRUE]}
=============================================================================
