------------------------- MODULE MCSkillSettlement -------------------------
(* An instance of SkillSettlement for TLC: two jobs that recover from the *)
(* same failure, with similar skills, and one failure that no run          *)
(* recovers from.                                                          *)
EXTENDS SkillSettlement, TLC

CONSTANTS j1, j2, a1, a2, b1, b2, blocked, stuck, same

PairBatch == (j1 :> <<a1, a2>>) @@ (j2 :> <<b1, b2>>)
PairFailure == (a1 :> blocked) @@ (a2 :> NoSignature) @@ (b1 :> stuck) @@ (b2 :> blocked)
PairRecovers == [r \in Runs |-> IF r \in {a2, b2} THEN {blocked} ELSE {}]
PairName == [r \in Runs |-> same]
=============================================================================
