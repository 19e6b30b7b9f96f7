----------------------------- MODULE MCAdmission -----------------------------
(* TLC instance of Admission.                                               *)
EXTENDS Admission
=============================================================================
