----------------------------- MODULE MCSyncSource -----------------------------
(* An instance of SyncSource: two threads and a pipe smaller than the          *)
(* messages; two blocking sources, the first one writable, and two requests,   *)
(* of which one asks the first source and the other either.                    *)
EXTENDS SyncSource, TLC

CONSTANTS s1, s2, r1, r2

TwoSources == <<s1, s2>>
OneAndEither == (r1 :> {s1}) @@ (r2 :> {s1, s2})
=============================================================================
