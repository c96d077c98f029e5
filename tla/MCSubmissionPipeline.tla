------------------------ MODULE MCSubmissionPipeline ------------------------
(***************************************************************************)
(* Small instances of the submission pipeline for TLC.                     *)
(***************************************************************************)
EXTENDS SubmissionPipeline

=============================================================================
