------------------------------ MODULE MCUploads -----------------------------
(* Constants for model checking Uploads. *)
EXTENDS Uploads

CONSTANTS r1, r2, q1, q2
=============================================================================
