------------------------------- MODULE MCIntake -------------------------------
(* Instances of Intake for TLC.                                              *)
EXTENDS Intake, SequencesExt

OneBatch == SetToSeq(Uploads)
===============================================================================
