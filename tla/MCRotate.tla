------------------------------ MODULE MCRotate ------------------------------
(* An instance of Rotate: two rotations, so that an archive is moved again     *)
(* while the compressor has jobs of the first; with a limit on the age of      *)
(* archives that the second rotation meets, and one it does not.               *)
EXTENDS Rotate
=============================================================================
