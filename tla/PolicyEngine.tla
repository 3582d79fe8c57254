---------------------------- MODULE PolicyEngine ----------------------------
(***************************************************************************)
(* PolicyEngine and its rate limiter (capguard/policy_dsl.py): several     *)
(* invocations run the loop over the rules at once, while the application  *)
(* adds rules to an engine in use or installs a new one, with a limiter of *)
(* its own.  Every iteration is a step; over_limit is two, since it reads  *)
(* the clock before it waits for the limiter's lock.                       *)
(***************************************************************************)
EXTENDS Predicates, Sequences, FiniteSets

CONSTANTS
  Packs, Defaults,                  \* what engines are built with
  NewRules,                         \* rules added to engines in use
  Threads, Calls, Nothing,          \* Calls: the contexts of the calls made
  MaxTime, MaxEngines, MaxRules, MaxCalls

AllRules == NewRules \cup UNION {{pack[i] : i \in DOMAIN pack} : pack \in Packs}

EngineAssumption ==
  /\ Threads # {} /\ IsFiniteSet(Threads) /\ MaxTime \in Nat
  /\ ConditionsAssumption
  /\ \A pack \in Packs : pack \in Seq({pack[i] : i \in DOMAIN pack})
  /\ \A r \in AllRules :
       /\ r.when \in Conditions /\ r.effect \in Effects
       /\ r.effect = "rate_limit" => r.max_calls \in Int /\ r.per_seconds \in Int
  /\ Defaults \subseteq Effects

(* Limits of one name, which share their hits, are over the same period.   *)
PeriodsByName ==
  \A r, q \in AllRules :
    r.effect = "rate_limit" /\ q.effect = "rate_limit" /\ r.name = q.name
      => r.per_seconds = q.per_seconds

VARIABLES
  now,
  engines,       \* engines the runtime has had, in order; the last is in force
  pc, eval,      \* per thread: where evaluate is
  calls,         \* calls made
  decided,       \* history: a thread's last decision
  admitted       \* history: what passed a rate limit, when, and when it read the clock

vars == <<now, engines, pc, eval, calls, decided, admitted>>

(* Hits are numbered, so that two at one time are two. *)
Engine(rules, effect) == [rules |-> rules, default |-> effect, hits |-> {}]

(* `began' is how many rules there were when evaluate began. *)
NoEval == [ctx |-> Nothing, engine |-> 0, began |-> 0, at |-> 0, i |-> 0, over |-> {},
           effect |-> "allow", rule |-> 0]

TypeOK ==
  /\ now \in 0..MaxTime
  /\ \A e \in DOMAIN engines : \A h \in engines[e].hits :
       h.at \in 0..now /\ engines[e].rules[h.rule].effect = "rate_limit"
  /\ \A t \in Threads :
       /\ pc[t] \in {"idle", "rules", "hit"}
       /\ pc[t] = "idle" <=> eval[t] = NoEval
       /\ pc[t] = "hit" => engines[eval[t].engine].rules[eval[t].i].effect = "rate_limit"

Init ==
  /\ now = 0
  /\ \E pack \in Packs, effect \in Defaults : engines = <<Engine(pack, effect)>>
  /\ pc = [t \in Threads |-> "idle"] /\ eval = [t \in Threads |-> NoEval]
  /\ calls = 0
  /\ decided = [t \in Threads |-> NoEval]
  /\ admitted = << >>
-----------------------------------------------------------------------------
Install(pack, effect) ==
  /\ Len(engines) < MaxEngines
  /\ engines' = Append(engines, Engine(pack, effect))
  /\ UNCHANGED <<now, pc, eval, calls, decided, admitted>>

(* add appends to the list that evaluations in progress walk. *)
Add(e, rule) ==
  /\ Len(engines[e].rules) < MaxRules
  /\ engines' = [engines EXCEPT ![e].rules = Append(@, rule)]
  /\ UNCHANGED <<now, pc, eval, calls, decided, admitted>>

(* evaluate: the winner starts as the default. *)
Evaluate(t, c) ==
  LET e == Len(engines)
  IN /\ pc[t] = "idle"
     /\ calls < MaxCalls
     /\ calls' = calls + 1
     /\ pc' = [pc EXCEPT ![t] = "rules"]
     /\ eval' = [eval EXCEPT ![t] =
                   [NoEval EXCEPT !.ctx = c, !.engine = e, !.began = Len(engines[e].rules),
                                  !.i = 1, !.effect = engines[e].default]]
     /\ UNCHANGED <<now, engines, decided, admitted>>

Rules(t) == engines[eval[t].engine].rules
Rule(t) == Rules(t)[eval[t].i]

(* Mutant: the first rule that restricts wins. *)
WinsFirst(t, effect) == eval[t].rule = 0 /\ Restrictiveness(effect) > Restrictiveness(eval[t].effect)

(* Only a strictly more restrictive effect replaces the winner. *)
Wins(t, effect) == Restrictiveness(effect) > Restrictiveness(eval[t].effect)

NextRule(t, e) ==
  /\ pc' = [pc EXCEPT ![t] = "rules"]
  /\ eval' = [eval EXCEPT ![t] = [e EXCEPT !.i = @ + 1]]

(* The rule's effect meets the winner so far. *)
Meet(t, effect, e) ==
  NextRule(t, IF Wins(t, effect) THEN [e EXCEPT !.effect = effect, !.rule = e.i] ELSE e)

Apply(t) ==
  /\ pc[t] = "rules" /\ eval[t].i <= Len(Rules(t))
  /\ CASE ~Fires(Rule(t), eval[t].ctx) -> NextRule(t, eval[t])
       [] Fires(Rule(t), eval[t].ctx) /\ Rule(t).effect # "rate_limit" ->
            Meet(t, Rule(t).effect, eval[t])
       [] OTHER ->    \* over_limit reads the clock before it waits for the lock
            /\ pc' = [pc EXCEPT ![t] = "hit"]
            /\ eval' = [eval EXCEPT ![t].at = now]
  /\ UNCHANGED <<now, engines, calls, decided, admitted>>

(* Mutant: a hit counts against its own window only. *)
InWindowSame(hit, at, per) == hit = at

InWindow(hit, at, per) == at - hit < per

(* over_limit under the limiter's lock. *)
Hit(t) ==
  LET agent == eval[t].ctx.agent
      e == eval[t].engine
      own(h) == h.agent = agent /\ Rules(t)[h.rule].name = Rule(t).name
      kept == {h \in engines[e].hits :
                 own(h) => InWindow(h.at, eval[t].at, Rule(t).per_seconds)}
      over == Cardinality({h \in kept : own(h)}) >= Rule(t).max_calls
      hit == [agent |-> agent, rule |-> eval[t].i, at |-> eval[t].at, number |-> Len(admitted) + 1]
  IN /\ pc[t] = "hit"
     /\ engines' = [engines EXCEPT ![e].hits = IF over THEN kept ELSE kept \cup {hit}]
     /\ IF over
        THEN /\ Meet(t, "deny", [eval[t] EXCEPT !.over = @ \cup {eval[t].i}])
             /\ UNCHANGED admitted
        ELSE /\ NextRule(t, eval[t])
             /\ admitted' = Append(admitted, [engine |-> e, agent |-> agent, rule |-> eval[t].i,
                                              by |-> t, read |-> eval[t].at, at |-> now])
     /\ UNCHANGED <<now, calls, decided>>

Decide(t) ==
  /\ pc[t] = "rules" /\ eval[t].i > Len(Rules(t))
  /\ pc' = [pc EXCEPT ![t] = "idle"]
  /\ eval' = [eval EXCEPT ![t] = NoEval]
  /\ decided' = [decided EXCEPT ![t] = eval[t]]
  /\ UNCHANGED <<now, engines, calls, admitted>>

Tick ==
  /\ now < MaxTime
  /\ now' = now + 1
  /\ UNCHANGED <<engines, pc, eval, calls, decided, admitted>>

Next ==
  \/ \E pack \in Packs, effect \in Defaults : Install(pack, effect)
  \/ \E e \in DOMAIN engines, rule \in NewRules : Add(e, rule)
  \/ \E t \in Threads : Apply(t) \/ Hit(t) \/ Decide(t) \/ \E c \in Calls : Evaluate(t, c)
  \/ Tick

Spec == Init /\ [][Next]_vars
-----------------------------------------------------------------------------
(* Deny overrides: whatever the order of the rules, and whatever rules are *)
(* added meanwhile, a decision has seen every rule there was when it began *)
(* and is as restrictive as the default and the most restrictive rule that *)
(* fires of those it has seen, a rate limit counting as a denial when it   *)
(* is exceeded and not at all otherwise; and the rule named is one with    *)
(* that effect.                                                            *)
DenyOverrides ==
  \A t \in Threads :
    LET d == decided[t]
        rules == engines[d.engine].rules
        default == engines[d.engine].default
        effect(i) == IF rules[i].effect # "rate_limit" THEN rules[i].effect
                     ELSE IF i \in d.over THEN "deny" ELSE default
        fired == {i \in 1..(d.i - 1) : Fires(rules[i], d.ctx)}
    IN d.engine # 0 =>
         /\ d.began <= d.i - 1 /\ d.i - 1 <= Len(rules)
         /\ \A i \in fired : Restrictiveness(d.effect) >= Restrictiveness(effect(i))
         /\ Restrictiveness(d.effect) >= Restrictiveness(default)
         /\ d.effect # default => d.rule \in fired /\ effect(d.rule) = d.effect

(* In any window of the rule's length no agent gets more calls past a rate *)
(* limit than the rule says, plus one of each thread that read the clock   *)
(* before the window and reached the limiter inside it.                    *)
RateBounded ==
  \A i \in DOMAIN admitted :
    LET a == admitted[i]
        rule == engines[a.engine].rules[a.rule]
        window == {j \in DOMAIN admitted :
                     /\ admitted[j].engine = a.engine /\ admitted[j].agent = a.agent
                     /\ admitted[j].rule = a.rule
                     /\ admitted[j].at \in a.at..(a.at + rule.per_seconds - 1)}
        fresh == {j \in window : admitted[j].read >= a.at}
    IN /\ Cardinality(fresh) <= rule.max_calls
       /\ Cardinality(window \ fresh) <= Cardinality(Threads)
=============================================================================
