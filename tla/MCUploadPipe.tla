---------------------------- MODULE MCUploadPipe ----------------------------
(* Instances of UploadPipe for TLC. *)
EXTENDS UploadPipe

\* Empty, below, at, above and at twice the chunk size, plus a tail.
MCLengths == 0..5
MCHints == 0..5
=============================================================================
