----------------------------- MODULE Predicates -----------------------------
(***************************************************************************)
(* Policy packs and the conditions of their rules: capguard/packs.py, which *)
(* compiles them, and the predicates of capguard/policy_dsl.py they mean.  *)
(*                                                                         *)
(* A condition is the record a pack spells it with; a name pattern is the  *)
(* set of names it matches.  A call has an agent with roles, a tool and    *)
(* arguments, each with the trust named at the call site and the label the *)
(* tracker propagated.                                                     *)
(***************************************************************************)
EXTENDS Labels

CONSTANTS
  Absent,            \* the value of an argument a call does not have
  Conditions         \* what rules are made conditional on, and what that is made of

Flows == {"any_secret", "any_untrusted", "secret_and_untrusted"}
Ops == {"<", "<=", ">", ">=", "==", "!=", "in", "matches"}
Effects == {"allow", "rate_limit", "require_approval", "deny"}

Says(p, key) == key \in DOMAIN p
Is(p, word) == Says(p, "is") /\ p.is = word

ConditionsAssumption ==
  \A q \in Conditions :
    /\ Says(q, "all") => q.all \subseteq Conditions
    /\ Says(q, "any") => q.any \subseteq Conditions
    /\ Says(q, "not") => q.not \in Conditions

(* What _compile_predicate tests for, in this order: the first key a       *)
(* condition has says what it is.  A rule written in code may ask for a    *)
(* detector's signal, which no pack can.                                   *)
Tests == <<"all", "any", "not", "role_in", "flow", "provenance", "taint", "arg", "signal">>

Kind(p) ==
  LET said == {i \in DOMAIN Tests : Says(p, Tests[i])}
  IN IF said = {} THEN "none" ELSE Tests[CHOOSE i \in said : \A j \in said : i <= j]

(* What it raises on does not compile. *)
Compiles(p) ==
  LET compiles[q \in Conditions] ==
        CASE DOMAIN q = {} -> TRUE
          [] Kind(q) = "all" -> \A r \in q.all : compiles[r]
          [] Kind(q) = "any" -> \A r \in q.any : compiles[r]
          [] Kind(q) = "not" -> compiles[q.not]
          [] Kind(q) = "role_in" -> TRUE
          [] Kind(q) = "flow" -> q.flow \in Flows
          [] Kind(q) = "provenance" ->
               Is(q, "trusted") \/ Is(q, "untrusted") \/ Says(q, "equals") \/ Says(q, "not_equals")
          [] Kind(q) = "taint" -> Is(q, "untrusted") \/ Is(q, "secret") \/ Says(q, "at_least")
          [] Kind(q) = "arg" -> Says(q, "op") /\ q.op \in Ops /\ Says(q, "value")
          [] OTHER -> FALSE
  IN compiles[p]

(* _compile_rule *)
RuleCompiles(r) == Says(r, "name") /\ r.effect \in Effects /\ Compiles(r.when)

IsSecret(label) == label.confidentiality >= Secret
IsUntrusted(label) == label.trust < Trusted

LabelOf(c, arg) == IF arg \in DOMAIN c.labels THEN c.labels[arg] ELSE Plain
NameOf(c, arg) == IF arg \in DOMAIN c.provenance THEN c.provenance[arg] ELSE "trusted"

FlowHolds(flow, c) ==
  LET labels == {c.labels[arg] : arg \in DOMAIN c.labels}
      secret == \E l \in labels : IsSecret(l)
      untrusted == \E l \in labels : IsUntrusted(l)
  IN /\ flow \in {"any_secret", "secret_and_untrusted"} => secret
     /\ flow \in {"any_untrusted", "secret_and_untrusted"} => untrusted

ProvenanceHolds(p, c) ==
  LET name == NameOf(c, p.provenance)
  IN IF Is(p, "trusted") THEN name = "trusted"
     ELSE IF Is(p, "untrusted") THEN name # "trusted"
     ELSE IF Says(p, "equals") THEN name = p.equals
     ELSE name # p.not_equals

(* Only rules written in code ask for what is below a level. *)
TaintHolds(p, c) ==
  LET label == LabelOf(c, p.taint)
  IN IF Is(p, "untrusted") THEN IsUntrusted(label)
     ELSE IF Is(p, "secret") THEN IsSecret(label)
     ELSE IF Says(p, "at_least") THEN label.trust >= FromName(p.at_least).trust
     ELSE label.trust < FromName(p.below).trust

(* An argument that is not there satisfies no comparison but !=. *)
ArgHolds(p, c) ==
  LET v == IF p.arg \in DOMAIN c.args THEN c.args[p.arg] ELSE Absent
  IN CASE p.op = "==" -> v = p.value
       [] p.op = "!=" -> v # p.value
       [] p.op \in {"in", "matches"} -> v \in p.value
       [] p.op = "<" -> v # Absent /\ v < p.value
       [] p.op = "<=" -> v # Absent /\ v <= p.value
       [] p.op = ">" -> v # Absent /\ v > p.value
       [] p.op = ">=" -> v # Absent /\ v >= p.value

(* A detector's signal, where it gave one; rules in code may use it.       *)
SignalHolds(p, c) ==
  /\ p.signal \in DOMAIN c.signals
  /\ LET s == c.signals[p.signal]
     IN \/ Says(p, "above") /\ s.score >= p.above
        \/ Says(p, "at_or_below") /\ s.score <= p.at_or_below
        \/ Says(p, "flagged") /\ (s.score >= p.flagged \/ s.label # "")
        \/ Says(p, "label_is") /\ s.label = p.label_is

Holds(p, c) ==
  LET holds[q \in Conditions] ==
        CASE DOMAIN q = {} -> TRUE
          [] Kind(q) = "all" -> \A r \in q.all : holds[r]
          [] Kind(q) = "any" -> \E r \in q.any : holds[r]
          [] Kind(q) = "not" -> ~holds[q.not]
          [] Kind(q) = "role_in" -> q.role_in \cap c.roles # {}
          [] Kind(q) = "flow" -> FlowHolds(q.flow, c)
          [] Kind(q) = "provenance" -> ProvenanceHolds(q, c)
          [] Kind(q) = "taint" -> TaintHolds(q, c)
          [] Kind(q) = "arg" -> ArgHolds(q, c)
          [] Kind(q) = "signal" -> SignalHolds(q, c)
  IN holds[p]

(* Rule.fires; a rule that names no tool is about every tool. *)
Fires(r, c) == (r.tools = {} \/ c.tool \in r.tools) /\ Holds(r.when, c)

Restrictiveness(effect) ==
  CASE effect = "allow" -> 0 [] effect = "rate_limit" -> 1
    [] effect = "require_approval" -> 2 [] effect = "deny" -> 3
=============================================================================
