------------------------------- MODULE Ranges -------------------------------
(***************************************************************************)
(* Sets of bytes as lists of half-open ranges, as requests and sources     *)
(* keep them.  Each function goes through a list and takes it apart: a     *)
(* call is followed range by range, in any order, as no caller depends on  *)
(* that of the list.  The names of the specification begin with Ranges, so *)
(* that a module may extend this one and another.                          *)
(***************************************************************************)
EXTENDS Integers, FiniteSets

CONSTANTS
  Offsets,  \* the offsets of the ranges that callers give
  Sizes     \* of blocks

ASSUME RangesAssumption == Offsets \subseteq Nat /\ Sizes \subseteq Nat \ {0}

VARIABLES
  list,         \* rr->r
  kept,         \* "new" of ranges_add and ranges_remove
  first, last,  \* a and b, their range
  fn,           \* the function under way
  todo,         \* the ranges that the function calling it has yet to come to
  call,         \* that function
  size,         \* its block size
  bytes         \* what the list stands for, when the call is over

rangeVars == <<list, kept, first, last, fn, todo, call, size, bytes>>

-----------------------------------------------------------------------------
Range(x, y) == [a |-> x, b |-> y]

AllRanges == {r \in [a : Nat, b : Nat] : r.a <= r.b}

Bytes(r) == r.a .. (r.b - 1)

Covered(S) == UNION {Bytes(r) : r \in S}

\* Where the block of a byte begins
BlockStart(p, n) == (p \div n) * n

\* The bytes of the blocks that a range touches, and of those it contains
Touched(r, n) == {p \in 0..(r.b + n) : BlockStart(p, n) < r.b /\ r.a < BlockStart(p, n) + n}

Contained(r, n) == {p \in Bytes(r) : r.a <= BlockStart(p, n) /\ BlockStart(p, n) + n <= r.b}

\* The lists that callers give: of ranges that have no byte in common
Given == {S \in SUBSET {r \in [a : Offsets, b : Offsets] : r.a <= r.b} :
            /\ Cardinality(S) <= 2
            /\ \A r, s \in S : r = s \/ Bytes(r) \cap Bytes(s) = {}}

RangesInit == /\ list = {} /\ kept = {} /\ first = 0 /\ last = 0
              /\ fn = "none" /\ todo = {} /\ call = "merge" /\ size = 1
              /\ bytes = {}

-----------------------------------------------------------------------------
(* The calls *)

Ready == fn = "none" /\ todo = {}

Call(what, todo1, list1, n, bytes1) ==
  /\ Ready
  /\ call' = what /\ todo' = todo1 /\ list' = list1 /\ size' = n
  /\ bytes' = bytes1
  /\ UNCHANGED <<kept, first, last, fn>>

\* ranges_merge; ranges_add is that of one range, ranges_copy that to no range.
Merge(S) == Call("merge", S, list, 1, bytes \cup Covered(S))

Copy(S) == Call("merge", S, {}, 1, Covered(S))

\* ranges_difference; ranges_remove is that of one range.
Difference(S) == Call("difference", S, list, 1, bytes \ Covered(S))

\* ranges_blockify_expand
Expand(n) ==
  Call("expand", list, {}, n, UNION {Touched(r, n) : r \in list})

\* ranges_blockify_reduce, which is only called with a list of one range
Reduce(n) ==
  /\ \A r, s \in list : r = s
  /\ Call("reduce", list, {}, n, UNION {Contained(r, n) : r \in list})

-----------------------------------------------------------------------------
(* What a call does with its next range *)

Add(x, y) == fn' = "add" /\ first' = x /\ last' = y /\ UNCHANGED <<list, kept>>

\* chop: no two ranges have a byte in common, so that at most one is chopped.
Chop(S, c) ==
  {r \in S : ~(r.a < c /\ c < r.b)}
    \cup UNION {{Range(r.a, c), Range(c, r.b)} : r \in {s \in S : s.a < c /\ c < s.b}}

Remove(x, y) ==
  /\ fn' = "remove" /\ first' = x /\ last' = y
  /\ list' = Chop(Chop(list, x), y)
  /\ UNCHANGED kept

\* Up to a multiple that is always a later one
UpPast(x, n) == (x \div n + 1) * n

Up(x, n) == ((x + n - 1) \div n) * n

Take(r) ==
  /\ fn = "none" /\ r \in todo
  /\ todo' = todo \ {r}
  /\ \/ call = "merge" /\ Add(r.a, r.b)
     \/ call = "difference" /\ Remove(r.a, r.b)
     \/ call = "expand" /\ Add(BlockStart(r.a, size), Up(r.b, size))
     \/ /\ call = "reduce" /\ BlockStart(r.b, size) > Up(r.a, size)
        /\ Add(Up(r.a, size), BlockStart(r.b, size))
     \/ /\ call = "reduce" /\ BlockStart(r.b, size) <= Up(r.a, size)
        /\ UNCHANGED <<fn, first, last, list, kept>>
  /\ UNCHANGED <<call, size, bytes>>

-----------------------------------------------------------------------------
(* The loops of ranges_add and ranges_remove *)

Apart(r) == r.a > last \/ first > r.b

\* unify fails.
SetAside(r) ==
  /\ fn = "add" /\ r \in list
  /\ Apart(r)
  /\ list' = list \ {r}
  /\ kept' = kept \cup {r}
  /\ UNCHANGED <<first, last>>

\* unify of ranges that overlap or touch
Unify(r) ==
  /\ fn = "add" /\ r \in list
  /\ ~Apart(r)
  /\ first' = IF r.a < first THEN r.a ELSE first
  /\ last' = IF r.b > last THEN r.b ELSE last
  /\ list' = list \ {r}
  /\ UNCHANGED kept

\* After the chops a range is all out or all in.
Spare(r) ==
  /\ fn = "remove" /\ r \in list
  /\ first >= r.b \/ last <= r.a
  /\ list' = list \ {r}
  /\ kept' = kept \cup {r}
  /\ UNCHANGED <<first, last>>

Free(r) ==
  /\ fn = "remove" /\ r \in list
  /\ ~(first >= r.b \/ last <= r.a)
  /\ list' = list \ {r}
  /\ UNCHANGED <<kept, first, last>>

Return ==
  /\ fn # "none" /\ list = {}
  /\ list' = IF fn = "add" THEN kept \cup {Range(first, last)} ELSE kept
  /\ kept' = {}
  /\ fn' = "none" /\ first' = 0 /\ last' = 0
  /\ UNCHANGED <<todo, call, size, bytes>>

Step(r) == /\ SetAside(r) \/ Unify(r) \/ Spare(r) \/ Free(r)
           /\ UNCHANGED <<fn, todo, call, size, bytes>>

RangesNext == \/ \E S \in Given : Merge(S) \/ Copy(S) \/ Difference(S)
              \/ \E n \in Sizes : Expand(n) \/ Reduce(n)
              \/ \E r \in todo : Take(r)
              \/ \E r \in list : Step(r)
              \/ Return

RangesSpec == RangesInit /\ [][RangesNext]_rangeVars

-----------------------------------------------------------------------------
RangesTypeOK == /\ list \subseteq AllRanges /\ kept \subseteq AllRanges
                /\ todo \subseteq AllRanges
                /\ first \in Nat /\ last \in Nat /\ first <= last
                /\ fn \in {"none", "add", "remove"}
                /\ call \in {"merge", "difference", "expand", "reduce"}
                /\ size \in Nat \ {0}
                /\ bytes \subseteq Nat

(***************************************************************************)
(* After each call the list stands for the bytes that the call is for: the *)
(* union or the difference of two lists, the blocks that a list touches or *)
(* contains.                                                               *)
(***************************************************************************)
Meaning == Ready => Covered(list) = bytes

(***************************************************************************)
(* No byte is in two ranges of a list: a source that goes through it does  *)
(* not ask for anything twice.                                             *)
(***************************************************************************)
Disjoint ==
  fn = "none" => \A r, s \in list : r = s \/ Bytes(r) \cap Bytes(s) = {}

Faithful == Meaning /\ Disjoint
=============================================================================
