------------------------------- MODULE Sorting -------------------------------
(***************************************************************************)
(* The order in which the keys of a map are walked (cache.go:182-186,      *)
(* forwarding.go:104-115, 186-191).  A name is a number: its place in the  *)
(* order of the names as strings.                                          *)
(***************************************************************************)
EXTENDS Integers, FiniteSets

(* sort.Slice, sort.Strings: at each place the one with as many before it.   *)
sorted(names) ==
  [i \in 1..Cardinality(names) |->
    CHOOSE n \in names : Cardinality({m \in names : m < n}) = i - 1]

=============================================================================
