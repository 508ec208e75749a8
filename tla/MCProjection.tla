---------------------------- MODULE MCProjection ----------------------------
(* RunProjection for TLC: a consumer's host whose clock is ahead. *)
EXTENDS RunProjection

OneAhead == [w \in Writers |-> IF w = "first" THEN 4 ELSE 0]
=============================================================================
