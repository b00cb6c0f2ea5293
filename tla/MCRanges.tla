------------------------------ MODULE MCRanges ------------------------------
(* Lists of up to two ranges of five offsets, and blocks of two sizes, one of *)
(* which divides no offset but 0 and 3.                                       *)
EXTENDS Ranges
=============================================================================
