---------------------------- MODULE MCSubmission ----------------------------
(***************************************************************************)
(* Model-checking instances of Submission: the bounds are in the cfgs.     *)
(***************************************************************************)
EXTENDS Submission
=============================================================================
