------------------------------ MODULE MCEvData ------------------------------
(* Instances of EvData: a pipe smaller than the messages in flight, so that *)
(* senders block and a gulp leaves bytes behind; the main thread only reads.*)
EXTENDS EvData, TLC
=============================================================================
