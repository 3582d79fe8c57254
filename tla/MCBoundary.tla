------------------------------ MODULE MCBoundary ------------------------------
(* A small instance of each edge of the program, for TLC. *)
EXTENDS Boundary

CONSTANTS a, b, kidA, kidB, api, left, right, n1

(* Two servers with a tool of one name each, clean in two ways or poisoned, *)
(* of which one changes under an approval, or, alone, there and back.       *)
MCServers == <<left, right>>
Def(poison, description) == [poison |-> poison, description |-> description]
MCDefinitions == {Def(0, "x"), Def(0, "y"), Def(3, "x")}
OneChange == [change |-> 1, refresh |-> 2, approve |-> 1, request |-> 1]
ThereAndBack == [change |-> 2, refresh |-> 3, approve |-> 0, request |-> 1]
MCBounds == {OneChange, ThereAndBack}

(* Keys are rotated by way of a set with both; a token names its key or    *)
(* does not; discovery finds sound metadata second, or none.               *)
JWK(kid, key) == [kid |-> kid, alg |-> "EdDSA", key |-> key]
Token(kid, key, exp) == [kid |-> kid, alg |-> "EdDSA", key |-> key, exp |-> exp,
                         aud |-> {api}, scopes |-> {}]
MCKeySets == <<<<JWK(kidA, a)>>, <<JWK(kidB, b), JWK(kidA, a)>>, <<JWK(kidB, b)>>>>
MCTokens == {Token(kidB, b, 0), Token(NoKid, a, 1)}
MCSettings == {[verifier |-> v, key |-> JWK(NoKid, a), override |-> FALSE,
                loopback |-> v = "none"] : v \in {"none", "key", "jwks"}}
MCMetadata == {<<"error", "sound">>, <<"mismatch", "sound">>}

ASSUME MCAssumption == PartsAssumption

(* The parts that do not run start in one state only. *)
MCInit ==
  /\ AllInit
  /\ offered[right][n1] \in {Nothing, Def(0, "x")}
  /\ counts = OneChange \/ (part = "gateway" /\ offered[right][n1] = Nothing)
  /\ part # "gateway" => \A s \in {left, right} : offered[s][n1] = Nothing
  /\ part # "sandbox" => backend = "deny"

MCSpec == MCInit /\ [][AllNext]_allVars /\ AllFairness
===============================================================================
