----------------------------- MODULE MCNodeHost -----------------------------
(* Small instances of NodeHost: calls one after the other, or a retry that    *)
(* overlaps the call it repeats.                                             *)
EXTENDS NodeHost, TLC
CONSTANTS h1, h2
=============================================================================
