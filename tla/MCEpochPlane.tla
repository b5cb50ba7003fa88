---------------------------- MODULE MCEpochPlane ----------------------------
(* Small instances of EpochPlane for TLC.                                   *)
EXTENDS EpochPlane, TLC

CONSTANTS o1, o2, o3, c1, c2, d1, d2

OneOp        == {o1}
TwoOps       == {o1, o2}
NoContent    == {}
OneContent   == {c1}
TwoContents  == {c1, c2}
Refused      == {c2}
OneDriver    == {d1}
TwoDrivers   == {d1, d2}

\* Operation ids and drivers are interchangeable in the safety runs.
Symmetry == Permutations(Op) \cup Permutations(Driver)

=============================================================================
