-------------------------------- MODULE Refs --------------------------------
(***************************************************************************)
(* The reference counts of util/misc.c, as operators on a record of the    *)
(* two counts.  The caller applies what the on_release and on_free lists   *)
(* do: ReleaseFires and Freed say when they run.                       *)
(***************************************************************************)
EXTENDS Naturals

RefType == [strong : Nat, weak : Nat]

\* ref_create
NewRef == [strong |-> 1, weak |-> 0]

\* ref_acquire: after the release, a reference that was meant strong is weak.
Acquire(r) == IF r.strong > 0 THEN [r EXCEPT !.strong = @ + 1]
              ELSE [r EXCEPT !.weak = @ + 1]

\* ref_acquire_weak and ref_release_weak
AcquireWeak(r) == [r EXCEPT !.weak = @ + 1]
ReleaseWeak(r) == [r EXCEPT !.weak = @ - 1]

\* ref_release: the weak reference it holds while on_release runs is gone when
\* it returns.
Release(r) == IF r.strong > 0 THEN [r EXCEPT !.strong = @ - 1]
              ELSE ReleaseWeak(r)

\* ref_release of the last strong reference runs on_release.
ReleaseFires(r) == r.strong = 1

\* A release that leaves neither count runs on_free.
Freed(r) == r.strong + r.weak = 0
=============================================================================
