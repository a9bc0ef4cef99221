---------------------------- MODULE MCOrderPath ----------------------------
EXTENDS OrderPath

MCAmounts == {-2, -1, 0, 1}

(* Just outside, at and just inside the bounds, and one that rounds.       *)
MCConfidences == {-1, 0, 1, 15001, 20000, 20001}

=============================================================================
