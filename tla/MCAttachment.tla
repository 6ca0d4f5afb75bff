---------------------------- MODULE MCAttachment ----------------------------
(* Small instances of Attachment: two servers compete for the volume.        *)
EXTENDS Attachment, TLC
CONSTANTS s1, s2
ServerSymmetry == Permutations(Servers)
=============================================================================
