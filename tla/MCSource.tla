------------------------------ MODULE MCSource ------------------------------
(* A buffer of a few bytes and a socket that takes a few.                      *)
EXTENDS Source
=============================================================================
