------------------------------ MODULE MCSLVoice ------------------------------
(* Model-checking instances of SLVoice: the speaker alone, or with the       *)
(* Mockingboard.                                                             *)
EXTENDS SLVoice
CONSTANTS speaker, mockingboard
OneOwner  == <<speaker>>
TwoOwners == <<speaker, mockingboard>>
=============================================================================
