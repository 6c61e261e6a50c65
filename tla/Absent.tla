------------------------------- MODULE Absent -------------------------------
(* What the components of the host write for what is not there *)
CONSTANT Nil
=============================================================================
