----------------------------- MODULE MCAuthority -----------------------------
(* A small instance of each part that decides what a call may do, for TLC. *)
EXTENDS Authority, TLC

CONSTANTS
  lead, sub, acme, other, cat, put, docs, f, site, g,
  t1, t2, k, page, note, token, alice, fetch, send, web

(* Delegation. *)
MCHosts == [x \in {site, g, Wildcard} |-> IF x = Wildcard THEN {site, g} ELSE {x}]
MCGrants == {<<File("file_read", {Under(<<docs>>)})>>,
             <<File("file_read", {Dir(<<docs, f>>)}), Http({site})>>}
MCToolSpecs == (cat :> [caps |-> <<File("file_read", {Dir(<<docs, f>>)})>>, severity |-> 1])
               @@ (put :> [caps |-> <<File("file_read", {Dir(<<docs, f>>)}), Http({site})>>, severity |-> 1])
Limit == [arg |-> "n", op |-> "<=", value |-> 1]
MCScopes == {[tools |-> <<[names |-> {cat}, constraints |-> {Limit}]>>, capabilities |-> << >>],
             [tools |-> <<[names |-> {cat, put}, constraints |-> {}]>>,
              capabilities |-> <<File("file_read", {Dir(<<docs, f>>)})>>]}
Value(target) == [clean |-> TRUE, target |-> target]
MCCalls == {[args |-> <<Value(<<docs>>)>>, kwargs |-> [n |-> 1]],
            [args |-> <<Value(<<docs, f>>), Value(site)>>, kwargs |-> [n |-> 2]]}

(* The conditions of all rules: those of a rule that no tainted value is   *)
(* sent, and those of an engine.                                           *)
AnyUntrusted == [flow |-> "any_untrusted"]
SecretBody == [taint |-> "body", is |-> "secret"]
Injected == [signal |-> "prompt_injection", flagged |-> 1]
Tainted == [any |-> {AnyUntrusted, SecretBody, Injected}]
Always == << >>
Large == [arg |-> "amount", op |-> ">", value |-> 1]
AnySecret == [flow |-> "any_secret"]
LargeOrSecret == [any |-> {Large, AnySecret}]
UntrustedTo == [taint |-> "to", is |-> "untrusted"]
ByAdmin == [role_in |-> {"admin"}]
NotByAdmin == [not |-> ByAdmin]
UntrustedByOthers == [all |-> {UntrustedTo, NotByAdmin}]
SaidUntrusted == [provenance |-> "to", is |-> "untrusted"]
MCConditions ==
  {AnyUntrusted, SecretBody, Injected, Tainted, Always, Large, AnySecret, LargeOrSecret,
   UntrustedTo, ByAdmin, NotByAdmin, UntrustedByOthers, SaidUntrusted}

(* Two threads fetch, edit and send values, one of them a secret; the      *)
(* memory labels or denies.                                                *)
L == INSTANCE Labels
MCFlowTools ==
  [fetch |-> [label |-> L!FromName("untrusted_web"), results |-> {page}],
   vault |-> [label |-> [L!Plain EXCEPT !.confidentiality = L!Secret], results |-> {token}],
   edit |-> [label |-> L!Plain, results |-> {note, page}],
   send |-> [label |-> L!Plain, results |-> {}]]
Call(tool, args) == [tool |-> tool, args |-> args]
MCInvocations ==
  {Call("fetch", << >>), Call("vault", << >>)}
  \cup {Call("edit", [body |-> page])}
  \cup {Call("send", [body |-> v]) : v \in {note, token}}
MCFlowRules == {[name |-> "no-tainted-sink", tools |-> {"send"}, effect |-> "deny",
                 when |-> Tainted]}
MCTags == {[value |-> page, label |-> L!FromName("untrusted_tool")]}
MCDefault == L!Plain
MCMemoryLabels == {Nothing, L!Plain}

(* A pack with a human review and a limit of one call in two seconds, a    *)
(* denial that may be added to it, and two calls: one that only the limit  *)
(* applies to, one tainted.                                                *)
Rule(name, on, when, effect) ==
  [name |-> name, tools |-> on, when |-> when, effect |-> effect,
   max_calls |-> 1, per_seconds |-> 2]
MCEngineRules ==
  {<<Rule("review", {send}, LargeOrSecret, "require_approval"),
     Rule("rate", {}, Always, "rate_limit")>>}
MCNewRules == {Rule("block", {send}, UntrustedByOthers, "deny")}
Ctx(tool, amount, label) ==
  [agent |-> alice, roles |-> {}, tool |-> tool, args |-> [amount |-> amount],
   provenance |-> [to |-> "trusted"], labels |-> [to |-> label], signals |-> << >>]
MCContexts == {Ctx(fetch, 0, L!Plain), Ctx(send, 2, L!FromName("untrusted_web"))}

(* Two tenants; the guard is acme's.  One pack has a rule that does not    *)
(* compile.                                                                *)
Block == Rule("block", {send}, SaidUntrusted, "deny")
MCApiKeys == [c \in {acme, other} |-> c]
MCPublished ==
  {<<Block>>, <<Block, Rule("odd", {send}, Always, "refuse")>>,
   <<Rule("review", {send}, Large, "require_approval"), Block>>}

(* A hub whose tools have narrow network scopes or a wide one behind an    *)
(* approval, and calls of a host that only some of them declare.           *)
Flags == [network |-> {}, file_read |-> No, file_write |-> No, shell |-> {}, db |-> FALSE,
          db_write |-> FALSE, custom |-> << >>, risk |-> "low", approval |-> FALSE]
HubNames == {"fetch", "browse"}
HubDeclarations == {[Flags EXCEPT !.network = {site}], [Flags EXCEPT !.network = {g}],
                    [Flags EXCEPT !.network = {Wildcard}, !.approval = TRUE]}
HubInputs == {[url |-> Value(g)]}
HubMarks == {[value |-> page, label |-> "web"]}

(* Two guards of one runtime; a tool with a wide scope, one registered     *)
(* with a risk that is none, and one that declares nothing.                *)
Declaration == [capabilities |-> << >>, network |-> {}, shell |-> {}, file_read |-> {},
                file_write |-> {}, db_read |-> FALSE, db_write |-> FALSE, risk |-> "low"]
MCGuardDeclarations ==
  {[Declaration EXCEPT !.network = {Wildcard}],
   [Declaration EXCEPT !.network = {site}, !.risk = "odd"], Declaration}
MCHeld == {<< >>, <<Http({site})>>}

ASSUME MCAssumption == PartsAssumption /\ P!PeriodsByName /\ F!WorseFiresToo

(* Engines that are not open by default. *)
Strict(seq) == {e \in DOMAIN seq : seq[e].default # "allow"}

(* One start of the parts that do not run. *)
MCInit ==
  /\ AllInit
  /\ part # "flow" => mode = "label"
  /\ part # "engine" => Strict(engines) = {}
  /\ part # "guard" => identities = <<<< >>>> /\ guards = << >> /\ tracker = 1

(* The more engines, the fewer calls, and a strict one counts for two; the *)
(* more assertions, the fewer scopes.                                      *)
MCNext ==
  /\ AllNext
  /\ calls' + Len(engines') + Cardinality(Strict(engines')) <= MaxCalls + 1
  /\ Len(minted') + Cardinality(scopes') <= MaxMinted

MCSpec == MCInit /\ [][MCNext]_allVars

ThreadSymmetry == Permutations({t1, t2})
==============================================================================
