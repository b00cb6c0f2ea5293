----------------------------- MODULE MCCacheFile -----------------------------
(* Two servers and one slot for two blocks.  Both servers reflect, the first  *)
(* of them blocks that the other has put there too; only the first keeps the  *)
(* file it finds.                                                             *)
EXTENDS CacheFile, TLC

CONSTANTS s1, s2, b1, b2

OneSlot == (b1 :> {1}) @@ (b2 :> {1})
BothAndOne == (s1 :> {b1, b2}) @@ (s2 :> {b2})
=============================================================================
