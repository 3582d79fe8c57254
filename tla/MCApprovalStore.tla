-------------------------- MODULE MCApprovalStore --------------------------
(* Small instance of ApprovalStore: two arguments share a digest, as two   *)
(* values with the same canonical JSON do, and None and 0 both mean the    *)
(* default life.  Tokens are alike, and so are agents.                     *)
EXTENDS ApprovalStore, TLC

CONSTANTS x, xs, y, dx, dy

MCArgs == {x, xs, y}
MCDigests == {dx, dy}
MCArgsDigest == [a \in MCArgs |-> IF a = y THEN dy ELSE dx]
MCTtls == {NoTtl, 0}

Symmetry == {p @@ q : p \in Permutations(TokenIds), q \in Permutations(AgentIds)}
=============================================================================
