----------------------------- MODULE Delegation -----------------------------
(***************************************************************************)
(* Signed identities (capguard/identity.py), task scopes                   *)
(* (capguard/taskscope.py) and what the runtime lets their holders do.     *)
(*                                                                         *)
(* An issuer signs root assertions and delegates from them; assertions     *)
(* travel as data and copies of them may be changed on the way.  A         *)
(* verified identity may be attenuated, given a task scope and used for    *)
(* calls, while time passes.  A signature is the signed content itself.    *)
(* A check that fails raises and changes nothing, so only the successful   *)
(* outcome of each operation is a step.                                    *)
(***************************************************************************)
EXTENDS Capability

CONSTANTS
  AgentIds, Tenants, RoleSets,
  ExpectedTenant,
  Grants,             \* the capability lists that are issued and requested
  Tools, ToolSpecs,   \* ToolSpecs: capabilities and severity of each tool
  ScopeBodies,        \* tools and capabilities of task scopes
  Calls,              \* arguments bound to capabilities, and plain ones
  Ttls, NoTtl, DefaultTtl,
  MaxDepth,           \* max_delegation_depth
  NoSig, NoScope, Nothing,
  MaxTime, MaxRoots, MaxMinted, MaxAgents, MaxScopes, MaxActs

IsPath(p) == p \in Seq({p[i] : i \in DOMAIN p})

(* Files are granted by path, and a file argument comes down to a path.    *)
ASSUME DelegationAssumption ==
  /\ MaxDepth \in Nat /\ DefaultTtl \in Nat \ {0} /\ Ttls \subseteq Nat \cup {NoTtl}
  /\ ExpectedTenant \in Tenants /\ MaxTime \in Nat
  /\ \A caps \in Grants : \A i \in DOMAIN caps :
       caps[i].type \in FileTypes => \A p \in caps[i].paths : IsPath(p.dir)
  /\ \A tool \in Tools, call \in Calls :
       \A i \in DOMAIN call.args \cap DOMAIN ToolSpecs[tool].caps :
         ToolSpecs[tool].caps[i].type \in FileTypes => IsPath(call.args[i].target)

VARIABLES
  now,
  minted,     \* history: the claims signed, each with its delegator's and its root's index
  held,       \* assertions somebody holds, altered copies included
  minting,    \* the delegation whose checks have passed
  agents,     \* identities a verifier accepted, with the claims and the time
  scopes,     \* task scopes somebody holds
  granted,    \* history: task scopes issued
  acts        \* history: tool calls let through

vars == <<now, minted, held, minting, agents, scopes, granted, acts>>

Claims == [agent_id : AgentIds, tenant : Tenants, capabilities : Grants, roles : RoleSets,
           expires_at : Int, depth : Nat]
Assertion == [claims : Claims, signed : Claims \cup {NoSig}]
Identity == [id : AgentIds, caps : Grants, via : Claims, since : Nat]
Scope == [agent_id : AgentIds, tools : {b.tools : b \in ScopeBodies},
          capabilities : {b.capabilities : b \in ScopeBodies}, expires_at : Int]

(* The depth of a delegation chain is bounded, for signed claims.          *)
TypeOK ==
  /\ now \in 0..MaxTime
  /\ \A i \in DOMAIN minted :
       /\ minted[i].claims \in Claims
       /\ minted[i].claims.depth <= MaxDepth
       /\ minted[i].root \in 1..i
  /\ held \subseteq Assertion
  /\ minting = Nothing \/ minting.from \in 1..Len(minted)
  /\ agents \subseteq Identity
  /\ \A s \in scopes : s.body \in Scope /\ s.signed \in Scope \cup {NoSig}
  /\ granted \subseteq Scope
  /\ \A a \in acts : a.by \in Identity /\ a.tool \in Tools /\ a.call \in Calls

Init ==
  /\ now = 0
  /\ minted = << >>
  /\ held = {}
  /\ minting = Nothing
  /\ agents = {}
  /\ scopes = {}
  /\ granted = {}
  /\ acts = {}

EffectiveTtl(ttl) == IF ttl \in {NoTtl, 0} THEN DefaultTtl ELSE ttl
-----------------------------------------------------------------------------
(* Signed: the claims are those the trusted key signed. *)
Valid(a) == a.signed = a.claims
Expired(claims) == now >= claims.expires_at

(* Sign claims and hand the assertion out. *)
Mint(claims, root) ==
  /\ minted' = Append(minted, [claims |-> claims, root |-> root])
  /\ held' = held \cup {[claims |-> claims, signed |-> claims]}

Issue(agent_id, tenant, caps, roles, ttl) ==
  /\ Len(minted) < MaxRoots
  /\ Mint([agent_id |-> agent_id, tenant |-> tenant, capabilities |-> caps, roles |-> roles,
           expires_at |-> now + EffectiveTtl(ttl), depth |-> 0], Len(minted) + 1)
  /\ UNCHANGED <<now, minting, agents, scopes, granted, acts>>

(* Mutant: the chain may be one link too long. *)
DepthLoose(claims) == claims.depth <= MaxDepth

DepthAllows(claims) == claims.depth + 1 <= MaxDepth

(* What delegate checks before it reads the clock again and mints. *)
MayDelegate(parent, caps) ==
  /\ Valid(parent) /\ ~Expired(parent.claims) /\ DepthAllows(parent.claims)
  /\ AllCovered(parent.claims.capabilities, caps)

IndexOf(claims) == CHOOSE i \in DOMAIN minted : minted[i].claims = claims

Delegate(parent, agent_id, caps, roles, ttl) ==
  /\ minting = Nothing
  /\ Len(minted) < MaxMinted
  /\ MayDelegate(parent, caps)
  /\ minting' = [from |-> IndexOf(parent.claims), agent_id |-> agent_id, caps |-> caps,
                 roles |-> roles, ttl |-> ttl]
  /\ UNCHANGED <<now, minted, held, agents, scopes, granted, acts>>

(* Mutant: the child gets its full ttl. *)
ChildExpiryFull(parent, ttl) == now + EffectiveTtl(ttl)

ChildExpiry(parent, ttl) ==
  LET expiry == now + EffectiveTtl(ttl)
  IN IF expiry < parent.expires_at THEN expiry ELSE parent.expires_at

MintDelegated ==
  /\ minting # Nothing
  /\ Len(minted) < MaxMinted
  /\ LET parent == minted[minting.from].claims
     IN Mint([agent_id |-> minting.agent_id, tenant |-> parent.tenant,
              capabilities |-> minting.caps, roles |-> minting.roles,
              expires_at |-> ChildExpiry(parent, minting.ttl), depth |-> parent.depth + 1],
             minted[minting.from].root)
  /\ minting' = Nothing
  /\ UNCHANGED <<now, agents, scopes, granted, acts>>

(* IdentityVerifier.verify *)
Verify(a) ==
  /\ Valid(a) /\ ~Expired(a.claims) /\ a.claims.tenant = ExpectedTenant
  /\ Cardinality(agents) < MaxAgents
  /\ agents' = agents \cup {[id |-> a.claims.agent_id, caps |-> a.claims.capabilities,
                             via |-> a.claims, since |-> now]}
  /\ UNCHANGED <<now, minted, held, minting, scopes, granted, acts>>

(* AgentIdentity.attenuate *)
Attenuate(g, caps) ==
  /\ AllCovered(g.caps, caps)
  /\ Cardinality(agents) < MaxAgents
  /\ agents' = agents \cup {[g EXCEPT !.caps = caps]}
  /\ UNCHANGED <<now, minted, held, minting, scopes, granted, acts>>
-----------------------------------------------------------------------------
(* TaskScopeIssuer.issue, with or without a signer. *)
IssueScope(g, b, ttl) ==
  LET body == [agent_id |-> g.id, tools |-> b.tools, capabilities |-> b.capabilities,
               expires_at |-> now + EffectiveTtl(ttl)]
  IN /\ AllCovered(g.caps, b.capabilities)
     /\ Cardinality(scopes) < MaxScopes
     /\ \E signed \in {body, NoSig} : scopes' = scopes \cup {[body |-> body, signed |-> signed]}
     /\ granted' = granted \cup {body}
     /\ UNCHANGED <<now, minted, held, minting, agents, acts>>

(* ArgConstraint.check; an absent value is None. *)
Satisfies(c, actual) ==
  CASE c.op = "<=" -> actual # Nothing /\ actual <= c.value
    [] c.op = ">=" -> actual # Nothing /\ actual >= c.value
    [] c.op = "==" -> actual = c.value
    [] c.op = "!=" -> actual # c.value
    [] c.op = "in" -> actual \in c.value

(* ToolScope.check: a constrained argument must be there. *)
ConstraintsHold(ts, kwargs) ==
  \A c \in ts.constraints : c.arg \in DOMAIN kwargs /\ Satisfies(c, kwargs[c.arg])

(* TaskScope.check_call: the first tool scope whose name or glob matches   *)
(* decides; no capabilities means no narrowing.                            *)
CheckCall(body, tool, call) ==
  LET matching == SelectSeq(body.tools, LAMBDA ts : tool \in ts.names)
  IN /\ now < body.expires_at
     /\ matching # << >>
     /\ body.capabilities = << >> \/ AllCovered(body.capabilities, ToolSpecs[tool].caps)
     /\ ConstraintsHold(matching[1], call.kwargs)

(* The runtime's task scope gate looks at a signature only if there is one. *)
ScopeUntouched(s) == s.signed = NoSig \/ s.signed = s.body

ScopeAdmits(s, g, tool, call) ==
  s # NoScope => ScopeUntouched(s) /\ s.body.agent_id = g.id /\ CheckCall(s.body, tool, call)

(* A call that passes task scope, baseline policy and argument enforcement *)
(* (the other gates are AgentRuntime's).                                   *)
Invoke(g, tool, call, s) ==
  /\ ScopeAdmits(s, g, tool, call)
  /\ Evaluate(g.caps, ToolSpecs[tool], TRUE, 1) = "allow"
  /\ ArgumentsEnforced(g.caps, ToolSpecs[tool].caps, call.args)
  /\ acts' = acts \cup {[by |-> g, tool |-> tool, call |-> call, scope |-> s]}
  /\ UNCHANGED <<now, minted, held, minting, agents, scopes, granted>>
-----------------------------------------------------------------------------
(* An assertion or a task scope is changed on its way; its signature       *)
(* stays, or is left out.  A bound: one altered assertion at a time.       *)
Alter(a) ==
  /\ \A b \in held : Valid(b)
  /\ \E claims \in {[a.claims EXCEPT !.capabilities = caps] : caps \in Grants}
                   \cup {[a.claims EXCEPT !.expires_at = @ + 1]} :
       claims # a.claims /\ held' = (held \ {a}) \cup {[claims |-> claims, signed |-> a.signed]}
  /\ UNCHANGED <<now, minted, minting, agents, scopes, granted, acts>>

AlterScope(s) ==
  /\ s.body \in granted
  /\ \E b \in ScopeBodies, signed \in {s.signed, NoSig} :
       scopes' = (scopes \ {s}) \cup
         {[body |-> [s.body EXCEPT !.tools = b.tools, !.capabilities = b.capabilities],
           signed |-> signed]}
  /\ UNCHANGED <<now, minted, held, minting, agents, granted, acts>>

Tick == now < MaxTime /\ now' = now + 1
        /\ UNCHANGED <<minted, held, minting, agents, scopes, granted, acts>>

(* A bound: nothing happens after MaxActs calls. *)
Running == Cardinality(acts) < MaxActs

Next ==
  /\ Running
  /\ \/ \E id \in AgentIds, caps \in Grants, roles \in RoleSets, ttl \in Ttls :
          \/ \E tenant \in Tenants : Issue(id, tenant, caps, roles, ttl)
          \/ \E a \in held : Delegate(a, id, caps, roles, ttl)
     \/ MintDelegated
     \/ \E a \in held : Verify(a) \/ Alter(a)
     \/ \E g \in agents :
          \/ \E caps \in Grants : Attenuate(g, caps)
          \/ \E b \in ScopeBodies, ttl \in Ttls : IssueScope(g, b, ttl)
          \/ \E tool \in Tools, call \in Calls, s \in scopes \cup {NoScope} :
               Invoke(g, tool, call, s)
     \/ \E s \in scopes : AlterScope(s)
     \/ Tick

Spec == Init /\ [][Next]_vars
-----------------------------------------------------------------------------
(* The root assertion behind claims that a verifier accepted. *)
RootOf(claims) == minted[minted[IndexOf(claims)].root].claims

(* "Authority can only ever narrow down a delegation chain": whatever was  *)
(* delegated, attenuated, scoped or altered on the way, the resource a     *)
(* call reaches is one that a capability signed at the root lets through,  *)
(* for the tenant the verifier expects.                                    *)
ActsWithinRoot ==
  \A a \in acts :
    LET root == RootOf(a.by.via)
    IN /\ root.tenant = ExpectedTenant
       /\ \A i \in DOMAIN a.call.args \cap DOMAIN ToolSpecs[a.tool].caps :
            \E j \in DOMAIN root.capabilities :
              /\ root.capabilities[j].type = ToolSpecs[a.tool].caps[i].type
              /\ Enforces(root.capabilities[j], a.call.args[i])

(* "The child cannot outlive the parent": no identity is accepted after    *)
(* its root expired, however many delegations, with clocks read between    *)
(* check and signature, lie in between.                                    *)
NothingOutlivesRoot == \A g \in agents : g.since < RootOf(g.via).expires_at

(* A task scope is "tamper-evident": a call made under a signed scope is   *)
(* made under one that was issued, to an identity of that agent.           *)
ScopeAsIssued ==
  \A a \in acts :
    (a.scope # NoScope /\ a.scope.signed # NoSig)
      => a.scope.body \in granted /\ a.scope.body.agent_id = a.by.id

(* What a delegate does, how long it may and under which scope all trace   *)
(* back to what was signed at the root of its chain.                       *)
WithinRoot == ActsWithinRoot /\ NothingOutlivesRoot /\ ScopeAsIssued
=============================================================================
