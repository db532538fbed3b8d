----------------------------- MODULE MCListPage -----------------------------
(* Four rows of two kinds, two of them absent at first; the text selects two *)
(* of the four.                                                              *)
EXTENDS ListPage, TLC

CONSTANTS a, b, l1, l2, p1, p2

FourRows == 1..4
OneAndTwo == {1, 2}
NameHits == [t \in Texts |-> IF t = Blank THEN Rows ELSE {1, 3}]
TwoStored == [r \in Rows |-> CASE r = 1 -> [kind |-> a, active |-> TRUE]
                                [] r = 2 -> [kind |-> b, active |-> TRUE]
                                [] OTHER -> Null]
TwoInputs == {[kind |-> a, active |-> FALSE], [kind |-> b, active |-> TRUE]}
SlotSymmetry == Permutations({l1, l2}) \cup Permutations({p1, p2})
=============================================================================
