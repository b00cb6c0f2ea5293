------------------------------ MODULE MCRequest ------------------------------
(* The sources of config.jpf as an instance of Request.  A block has two       *)
(* units; the file ends within its third block.                                *)
EXTENDS Request, TLC

CONSTANTS r1, r2, r3

\* A small cache, a cache that reflects to the next, the metadata, and a server
\* and a file system that may fail for a while.
ChainKind == <<"cache", "cache", "cache", "meta", "http", "file">>
ChainBlock == <<2, 2, 2, 2, 2, 2>>
ChainTarget == <<0, 3, 0, 0, 0, 0>>

\* The whole file, its tail, and nothing
SomeReads == (r1 :> 0..4) @@ (r2 :> 1..4) @@ (r3 :> {})
=============================================================================
