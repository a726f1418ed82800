------------------------------- MODULE MCSlots -------------------------------
(* Small instances of ShmSlots.                                            *)
EXTENDS ShmSlots, TLC

CONSTANTS c1, c2, c3

ThreeChildren   == {c1, c2, c3}
Interchangeable == Permutations(Child)
=============================================================================
