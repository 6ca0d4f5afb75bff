----------------------------- MODULE MCCustody -----------------------------
(* A small instance of Custody: two servers compete for the volume.          *)
EXTENDS Custody
CONSTANTS s1, s2
=============================================================================
