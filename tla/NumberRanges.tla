---------------------------- MODULE NumberRanges ----------------------------
(***************************************************************************)
(* The ranges of numbers in reserved and extensions statements of messages *)
(* and enums (NumberRange, range_contains, ranges_overlap and add_range of *)
(* proto_parser.cpp).  Both ends belong to a range.                        *)
(***************************************************************************)
EXTENDS Integers

CONSTANT INT32_MAX     \* 2^31 - 1

Covers(r, n) == r.first <= n /\ n <= r.last

(* Mutant of Overlap: ranges that meet in one number do not overlap.       *)
OverlapInside(r, s) == r.first < s.last /\ s.first < r.last

Overlap(r, s) == r.first <= s.last /\ s.first <= r.last

(* A range that may join those already read.                               *)
RangeAllowed(ranges, r) ==
    /\ r.first <= r.last
    /\ \A i \in DOMAIN ranges : ~Overlap(ranges[i], r)
=============================================================================
