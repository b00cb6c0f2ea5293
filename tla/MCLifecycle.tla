----------------------------- MODULE MCLifecycle -----------------------------
(* Two file systems, one read for either.                                     *)
EXTENDS Lifecycle, TLC

CONSTANTS i1, i2

TwoInterfaces == <<i1, i2>>
=============================================================================
