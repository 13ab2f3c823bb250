---------------------------- MODULE MCSparseTerms ----------------------------
(* Instances of SparseTerms for TLC. *)
EXTENDS SparseTerms

(* Books 1 and 2 share a term that each numbers differently; book 3 has no *)
(* chunks.                                                                 *)
ThreeBooks == 1..3
ThreeTerms == [b \in ThreeBooks |-> <<{1, 2}, {2, 3}, {}>>[b]]
ThreeRoots == [b \in ThreeBooks |-> <<{1}, {2}, {}>>[b]]

AnySelection == {{1}, {2}, {1, 2, 3}}
OneByOne == {{1}, {2}}

=============================================================================
