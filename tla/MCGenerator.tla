---------------------------- MODULE MCGenerator ----------------------------
(***************************************************************************)
(* Lists of up to two patterns from a few of Width bits, and lists of      *)
(* three in which patterns overlap, as the aliases in the generator's      *)
(* table do with the patterns they abbreviate.                             *)
(***************************************************************************)
EXTENDS Generator

Fixed(f, o) == [fixed |-> f, ones |-> o]

Few == { Fixed({}, {}), Fixed({4}, {4}), Fixed({0, 4}, {0}), Fixed(Positions, {1, 3}) }

UpToTwo == UNION { [1 .. n -> Few] : n \in 0 .. 2 }

Overlapping ==
  { << Fixed({0, 3}, {0}), Fixed(f, f), Fixed({}, {}) >> : f \in SUBSET {0, 2, 4} }

(* Five sets of patterns at the split chosen, one more than the run's      *)
(* table entries can number.                                               *)
TooMany == { << Fixed({4}, {4}), Fixed({3}, {3}), Fixed({2, 3, 4}, {2, 3, 4}) >> }

SmallLists == UpToTwo \cup Overlapping \cup TooMany

=============================================================================
