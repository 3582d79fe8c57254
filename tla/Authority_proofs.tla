--------------------------- MODULE Authority_proofs ---------------------------
(***************************************************************************)
(* Authority only narrows, for any number of identities, grants, tools and *)
(* delegations, whatever is altered on the way; what the tools of one hub  *)
(* share is no more than the hub granted; the guards over one runtime      *)
(* agree.  At the end, the composition of all parts.                       *)
(***************************************************************************)
EXTENDS Rules_proofs

(* A value a capability of this type can be asked about. *)
Fits(type, value) == type \in FileTypes => IsPath(value.target)

FilesByPath(c) == c.type \in FileTypes => \A p \in c.paths : IsPath(p.dir)

(* Whatever an inner capability lets through, an outer one of the same     *)
(* type does.                                                              *)
Within(outer, inner) ==
  \A i \in DOMAIN inner : \E j \in DOMAIN outer :
    /\ outer[j].type = inner[i].type
    /\ \A v : Fits(inner[i].type, v) /\ Enforces(inner[i], v) => Enforces(outer[j], v)
-----------------------------------------------------------------------------
(* A prefix says the sequences agree as far as the shorter one goes. *)
LEMMA PrefixAgrees ==
  ASSUME NEW X, NEW W, NEW a \in Seq(X), NEW b \in Seq(W)
  PROVE  IsPrefix(a, b) <=> Len(a) <= Len(b) /\ \A i \in 1..Len(a) : a[i] = b[i]
<1>1. Len(a) \in Nat /\ Len(b) \in Nat
  OBVIOUS
<1>2. ASSUME Len(a) <= Len(b)
      PROVE  SubSeq(a, 1, Len(a)) = SubSeq(b, 1, Len(a)) <=> \A i \in 1..Len(a) : a[i] = b[i]
  <2>1. /\ DOMAIN SubSeq(a, 1, Len(a)) = 1..Len(a)
        /\ \A i \in 1..Len(a) : SubSeq(a, 1, Len(a))[i] = a[i]
    BY <1>1
  <2>2. /\ DOMAIN SubSeq(b, 1, Len(a)) = 1..Len(a)
        /\ \A i \in 1..Len(a) : SubSeq(b, 1, Len(a))[i] = b[i]
    BY <1>1, <1>2
  <2>3. SubSeq(a, 1, Len(a)) \in Seq(X \cup W) /\ SubSeq(b, 1, Len(a)) \in Seq(X \cup W)
        /\ Len(SubSeq(a, 1, Len(a))) = Len(a) /\ Len(SubSeq(b, 1, Len(a))) = Len(a)
    BY <1>1, <1>2
  <2> QED BY <2>1, <2>2, <2>3
<1> QED BY <1>2 DEF IsPrefix

(* Directories nest. *)
LEMMA PrefixTransitive ==
  ASSUME NEW a, NEW b, NEW c, IsPath(a), IsPath(b), IsPath(c), IsPrefix(a, b), IsPrefix(b, c)
  PROVE  IsPrefix(a, c) /\ (a = c => b = a)
<1>1. PICK X : a \in Seq(X)
  BY DEF IsPath
<1>2. PICK W : b \in Seq(W)
  BY DEF IsPath
<1>3. PICK Z : c \in Seq(Z)
  BY DEF IsPath
<1>4. Len(a) <= Len(b) /\ \A i \in 1..Len(a) : a[i] = b[i]
  BY <1>1, <1>2, PrefixAgrees
<1>5. Len(b) <= Len(c) /\ \A i \in 1..Len(b) : b[i] = c[i]
  BY <1>2, <1>3, PrefixAgrees
<1>6. Len(a) \in Nat /\ Len(b) \in Nat /\ Len(c) \in Nat
  BY <1>1, <1>2, <1>3
<1>7. Len(a) <= Len(c) /\ \A i \in 1..Len(a) : a[i] = c[i]
  BY <1>4, <1>5, <1>6
<1>8. IsPrefix(a, c)
  BY <1>1, <1>3, <1>7, PrefixAgrees
<1>9. ASSUME a = c PROVE b = a
  <2>1. Len(b) = Len(a) /\ \A i \in 1..Len(a) : b[i] = a[i]
    BY <1>4, <1>5, <1>6, <1>9
  <2>2. a \in Seq(X \cup W) /\ b \in Seq(X \cup W)
    BY <1>1, <1>2
  <2> QED BY <2>1, <2>2
<1> QED BY <1>8, <1>9

(* Capability.covers and Capability.enforce agree: what a capability lets  *)
(* through, every capability that covers it lets through.                  *)
THEOREM CoverEnforces ==
  ASSUME NEW outer, NEW inner, Covers(outer, inner), FilesByPath(outer), FilesByPath(inner),
         NEW value, Fits(inner.type, value), Enforces(inner, value)
  PROVE  Enforces(outer, value)
<1>0. outer.type = inner.type
  BY DEF Covers
<1>1. CASE outer.type = "shell_exec"
  <2>1. Wildcard \in outer.allowlist \/ inner.allowlist \subseteq outer.allowlist
    BY <1>1 DEF Covers, FileTypes
  <2>2. value.clean /\ (Wildcard \in inner.allowlist \/ value.target \in inner.allowlist)
    BY <1>0, <1>1 DEF Enforces, FileTypes
  <2>3. value.clean /\ (Wildcard \in outer.allowlist \/ value.target \in outer.allowlist)
    BY <2>1, <2>2
  <2> QED BY <1>1, <2>3 DEF Enforces, FileTypes
<1>2. CASE outer.type = "network_http"
  <2>1. Wildcard \in outer.domains \/ inner.domains \subseteq outer.domains
    BY <1>2 DEF Covers, FileTypes
  <2>2. value.clean
        /\ (Wildcard \in inner.domains \/ \E d \in inner.domains : value.target \in HostsOf[d])
    BY <1>0, <1>2 DEF Enforces, FileTypes
  <2>3. value.clean
        /\ (Wildcard \in outer.domains \/ \E d \in outer.domains : value.target \in HostsOf[d])
    BY <2>1, <2>2
  <2> QED BY <1>2, <2>3 DEF Enforces, FileTypes
<1>3. CASE outer.type \in FileTypes
  <2>1. value.clean /\ IsPath(value.target)
        /\ \E r \in inner.paths : PathContains(r, value.target)
    BY <1>0, <1>3 DEF Enforces, FileTypes, Fits
  <2>2. PICK r \in inner.paths : PathContains(r, value.target)
    BY <2>1
  <2>3. PICK p \in outer.paths : PathCovers(p, r)
    BY <1>0, <1>3 DEF Covers, FileTypes
  <2>4. IsPath(p.dir) /\ IsPath(r.dir)
    BY <1>0, <1>3 DEF FilesByPath
  <2>5. IsPrefix(p.dir, value.target) /\ (p.dir = value.target => r.dir = p.dir)
    BY <2>1, <2>2, <2>3, <2>4, PrefixTransitive DEF PathCovers, PathContains
  <2>6. PathContains(p, value.target)
    BY <2>2, <2>3, <2>5 DEF PathCovers, PathContains
  <2> QED BY <1>3, <2>1, <2>6 DEF Enforces, FileTypes
<1>4. CASE outer.type = "db_query"
  BY <1>0, <1>4 DEF Covers, Enforces, FileTypes
<1>5. CASE outer.type \notin {"shell_exec", "network_http", "db_query"} \cup FileTypes
  BY <1>5 DEF Enforces
<1> QED BY <1>1, <1>2, <1>3, <1>4, <1>5

(* Within is an order, and coverage establishes it.                        *)
Grant(caps) == \A i \in DOMAIN caps : FilesByPath(caps[i])

(* Attenuation narrows. *)
LEMMA AttenuationNarrows ==
  ASSUME NEW outer, NEW inner, Grant(outer), Grant(inner), AllCovered(outer, inner)
  PROVE  Within(outer, inner)
<1> SUFFICES ASSUME NEW i \in DOMAIN inner
             PROVE  \E j \in DOMAIN outer :
                      /\ outer[j].type = inner[i].type
                      /\ \A v : Fits(inner[i].type, v) /\ Enforces(inner[i], v)
                                  => Enforces(outer[j], v)
  BY DEF Within
<1>1. PICK j \in DOMAIN outer : Covers(outer[j], inner[i])
  BY DEF AllCovered, HeldCovers
<1>2. outer[j].type = inner[i].type
  BY <1>1 DEF Covers
<1>3. FilesByPath(outer[j]) /\ FilesByPath(inner[i])
  BY DEF Grant
<1>4. ASSUME NEW v, Fits(inner[i].type, v), Enforces(inner[i], v)
      PROVE  Enforces(outer[j], v)
  BY <1>1, <1>3, <1>4, CoverEnforces
<1> QED BY <1>2, <1>4

(* A grant is within itself. *)
LEMMA WithinReflexive ==
  ASSUME NEW caps PROVE Within(caps, caps)
BY DEF Within

(* Narrowing twice is narrowing. *)
LEMMA WithinTransitive ==
  ASSUME NEW a, NEW b, NEW c, Within(a, b), Within(b, c)
  PROVE  Within(a, c)
<1> SUFFICES ASSUME NEW i \in DOMAIN c
             PROVE  \E j \in DOMAIN a :
                      /\ a[j].type = c[i].type
                      /\ \A v : Fits(c[i].type, v) /\ Enforces(c[i], v) => Enforces(a[j], v)
  BY DEF Within
<1>1. PICK k \in DOMAIN b : /\ b[k].type = c[i].type
                            /\ \A v : Fits(c[i].type, v) /\ Enforces(c[i], v) => Enforces(b[k], v)
  BY DEF Within
<1>2. PICK j \in DOMAIN a : /\ a[j].type = b[k].type
                            /\ \A v : Fits(b[k].type, v) /\ Enforces(b[k], v) => Enforces(a[j], v)
  BY DEF Within
<1> QED BY <1>1, <1>2

(* What issuers grant is by path. *)
LEMMA GrantsByPath ==
  \A caps \in Grants : Grant(caps)
BY DelegationAssumption DEF Grant, FilesByPath

(* A lifetime is a number of seconds. *)
LEMMA TtlIsNumber ==
  \A ttl \in Ttls : EffectiveTtl(ttl) \in Nat
BY DelegationAssumption DEF EffectiveTtl
-----------------------------------------------------------------------------
Link == [claims : Claims, root : Nat]
Signed == {minted[i].claims : i \in DOMAIN minted}

Pending == [from : Nat, agent_id : AgentIds, caps : Grants, roles : RoleSets, ttl : Ttls]

(* The shape of the state. *)
Types ==
  /\ now \in 0..MaxTime
  /\ minted \in Seq(Link)
  /\ held \subseteq Assertion
  /\ minting = Nothing \/ minting \in Pending
  /\ agents \subseteq Identity
  /\ \A s \in scopes : s.body \in Scope /\ s.signed \in Scope \cup {NoSig}
  /\ granted \subseteq Scope
  /\ \A a \in acts : a.by \in Identity /\ a.tool \in Tools /\ a.call \in Calls

(* Signed claims stay within the root of their chain. *)
Chained(i) ==
  /\ minted[i].claims.depth <= MaxDepth
  /\ minted[i].root \in 1..i
  /\ LET root == minted[minted[i].root].claims
     IN /\ minted[i].claims.tenant = root.tenant
        /\ minted[i].claims.expires_at <= root.expires_at
        /\ Within(root.capabilities, minted[i].claims.capabilities)

Chains == \A i \in DOMAIN minted : Chained(i)

(* However an assertion was altered, its signature is over signed claims. *)
Signatures == \A a \in held : a.signed \in Signed

(* The delegation whose checks have passed still narrows when it mints. *)
Checked ==
  minting # Nothing =>
    /\ minting.from \in DOMAIN minted
    /\ minted[minting.from].claims.depth + 1 <= MaxDepth
    /\ Within(minted[minting.from].claims.capabilities, minting.caps)

(* An identity rests on claims that were signed. *)
Vouched(g) ==
  /\ g.via \in Signed
  /\ g.via.tenant = ExpectedTenant
  /\ g.since < g.via.expires_at
  /\ Within(g.via.capabilities, g.caps)

Identities == \A g \in agents : Vouched(g)

(* A signature under a task scope is that of an issued one. *)
ScopeSignatures == \A s \in scopes : s.signed # NoSig => s.signed \in granted

(* A call is within what its agent holds, and under an issued scope. *)
Contained(a) ==
  /\ Vouched(a.by)
  /\ \A i \in DOMAIN a.call.args \cap DOMAIN ToolSpecs[a.tool].caps :
       \E e \in DOMAIN a.by.caps :
         /\ a.by.caps[e].type = ToolSpecs[a.tool].caps[i].type
         /\ Enforces(a.by.caps[e], a.call.args[i])
  /\ a.scope # NoScope /\ a.scope.signed # NoSig
       => a.scope.body \in granted /\ a.scope.body.agent_id = a.by.id

Actions == \A a \in acts : Contained(a)

IInv == Types /\ Chains /\ Signatures /\ Checked /\ Identities /\ ScopeSignatures /\ Actions
-----------------------------------------------------------------------------
(* What was signed stays signed, and what was issued stays issued. *)
Grows ==
  /\ \A i \in DOMAIN minted : i \in DOMAIN minted' /\ minted'[i] = minted[i]
  /\ granted \subseteq granted'

(* Every link of the history holds claims and the place of its root. *)
LEMMA LinksTyped ==
  ASSUME Types, NEW i \in DOMAIN minted
  PROVE  minted[i].claims \in Claims /\ minted[i].root \in Nat
<1>1. minted[i] \in Link
  BY DEF Types
<1> QED BY <1>1 DEF Link

(* Signing appends one link to the history. *)
LEMMA MintShape ==
  ASSUME Types, NEW claims \in Claims, NEW root \in Nat, Mint(claims, root)
  PROVE  /\ minted' \in Seq(Link)
         /\ DOMAIN minted' = DOMAIN minted \cup {Len(minted) + 1}
         /\ \A i \in DOMAIN minted : minted'[i] = minted[i]
         /\ minted'[Len(minted) + 1] = [claims |-> claims, root |-> root]
         /\ DOMAIN minted = 1..Len(minted) /\ Len(minted) \in Nat
<1>1. minted \in Seq(Link) /\ [claims |-> claims, root |-> root] \in Link
  BY DEF Types, Link
<1>2. minted' = Append(minted, [claims |-> claims, root |-> root])
  BY DEF Mint
<1> QED BY <1>1, <1>2

(* The claims of a delegated identity. *)
Child ==
  [agent_id |-> minting.agent_id, tenant |-> minted[minting.from].claims.tenant,
   capabilities |-> minting.caps, roles |-> minting.roles,
   expires_at |-> ChildExpiry(minted[minting.from].claims, minting.ttl),
   depth |-> minted[minting.from].claims.depth + 1]

(* They are those of the parent, narrower and for no longer. *)
LEMMA ChildShape ==
  ASSUME Types, Chains, Checked, MintDelegated
  PROVE  /\ Child \in Claims
         /\ minted[minting.from].root \in Nat
         /\ Mint(Child, minted[minting.from].root)
         /\ minting.from \in DOMAIN minted
         /\ Child.tenant = minted[minting.from].claims.tenant
         /\ Child.expires_at <= minted[minting.from].claims.expires_at
         /\ Child.depth <= MaxDepth
         /\ Within(minted[minting.from].claims.capabilities, Child.capabilities)
<1>1. minting # Nothing /\ minting \in Pending /\ minting.from \in DOMAIN minted
  BY DEF MintDelegated, Types, Checked
<1>2. PICK parent : parent = minted[minting.from]
  OBVIOUS
<1>3. parent \in Link
  BY <1>1, <1>2 DEF Types
<1>4. parent.claims \in Claims /\ parent.root \in Nat
  BY <1>3 DEF Link
<1>5. /\ parent.claims.tenant \in Tenants /\ parent.claims.expires_at \in Int
      /\ parent.claims.depth \in Nat
  BY <1>4 DEF Claims
<1>6. PICK expiry : expiry = ChildExpiry(parent.claims, minting.ttl)
  OBVIOUS
<1>7. EffectiveTtl(minting.ttl) \in Nat
  BY <1>1, TtlIsNumber DEF Pending
<1>8. now \in Nat
  BY DelegationAssumption DEF Types
<1>9. expiry \in Int /\ expiry <= parent.claims.expires_at
  BY <1>5, <1>6, <1>7, <1>8 DEF ChildExpiry
<1>10. /\ minting.agent_id \in AgentIds /\ minting.caps \in Grants /\ minting.roles \in RoleSets
  BY <1>1 DEF Pending
<1>11. Child = [agent_id |-> minting.agent_id, tenant |-> parent.claims.tenant,
                capabilities |-> minting.caps, roles |-> minting.roles,
                expires_at |-> expiry, depth |-> parent.claims.depth + 1]
  BY <1>2, <1>6 DEF Child
<1>12. Child \in Claims
  BY <1>5, <1>9, <1>10, <1>11 DEF Claims
<1>13. /\ Child.tenant = parent.claims.tenant /\ Child.expires_at = expiry
       /\ Child.depth = parent.claims.depth + 1 /\ Child.capabilities = minting.caps
  BY <1>11
<1>14. Mint(Child, minted[minting.from].root)
  BY DEF MintDelegated, Child
<1>15. /\ parent.claims.depth + 1 <= MaxDepth
       /\ Within(parent.claims.capabilities, minting.caps)
  BY <1>1, <1>2 DEF Checked
<1> QED BY <1>1, <1>2, <1>4, <1>9, <1>12, <1>13, <1>14, <1>15

(* The claims of a root identity. *)
Root(id, tenant, caps, roles, ttl) ==
  [agent_id |-> id, tenant |-> tenant, capabilities |-> caps, roles |-> roles,
   expires_at |-> now + EffectiveTtl(ttl), depth |-> 0]

(* They are claims, whatever is asked for. *)
LEMMA RootShape ==
  ASSUME Types, NEW id \in AgentIds, NEW tenant \in Tenants, NEW caps \in Grants,
         NEW roles \in RoleSets, NEW ttl \in Ttls, Issue(id, tenant, caps, roles, ttl)
  PROVE  /\ Root(id, tenant, caps, roles, ttl) \in Claims
         /\ Root(id, tenant, caps, roles, ttl).depth = 0
         /\ Mint(Root(id, tenant, caps, roles, ttl), Len(minted) + 1)
         /\ Len(minted) + 1 \in Nat
<1>1. now \in Nat /\ EffectiveTtl(ttl) \in Nat
  BY TtlIsNumber, DelegationAssumption DEF Types
<1>2. now + EffectiveTtl(ttl) \in Int
  BY <1>1
<1>3. Root(id, tenant, caps, roles, ttl) \in Claims
  BY <1>2 DEF Root, Claims
<1>4. Root(id, tenant, caps, roles, ttl).depth = 0
  BY DEF Root
<1>5. Mint(Root(id, tenant, caps, roles, ttl), Len(minted) + 1)
  BY DEF Issue, Root
<1> QED BY <1>3, <1>4, <1>5 DEF Types

(* The claims an assertion with a good signature shows were signed. *)
LEMMA ValidIsSigned ==
  ASSUME Types, Signatures, NEW a \in held, Valid(a)
  PROVE  /\ a.claims \in Claims /\ a.claims \in Signed
         /\ IndexOf(a.claims) \in DOMAIN minted
         /\ minted[IndexOf(a.claims)].claims = a.claims
<1>1. a \in Assertion /\ a.signed \in Signed
  BY DEF Types, Signatures
<1>2. a.claims \in Claims /\ a.claims \in Signed
  BY <1>1 DEF Valid, Assertion
<1>3. \E i \in DOMAIN minted : minted[i].claims = a.claims
  BY <1>2 DEF Signed
<1> QED BY <1>2, <1>3 DEF IndexOf
-----------------------------------------------------------------------------
(* Every step leaves the two histories as they were, or longer. *)
LEMMA NextGrows ==
  ASSUME Types, Chains, Checked, [Next]_vars
  PROVE  Grows
<1> USE DEF Grows
<1>1. ASSUME NEW id \in AgentIds, NEW tenant \in Tenants, NEW caps \in Grants,
             NEW roles \in RoleSets, NEW ttl \in Ttls, Issue(id, tenant, caps, roles, ttl)
      PROVE  Grows
  <2>1. granted' = granted
    BY <1>1 DEF Issue
  <2> QED BY <1>1, <2>1, RootShape, MintShape
<1>2. ASSUME NEW a, NEW id, NEW caps, NEW roles, NEW ttl, Delegate(a, id, caps, roles, ttl)
      PROVE  Grows
  BY <1>2 DEF Delegate
<1>3. CASE MintDelegated
  <2>1. granted' = granted
    BY <1>3 DEF MintDelegated
  <2> QED BY <1>3, <2>1, ChildShape, MintShape
<1>4. ASSUME NEW a, Verify(a) PROVE Grows
  BY <1>4 DEF Verify
<1>5. ASSUME NEW a, Alter(a) PROVE Grows
  BY <1>5 DEF Alter
<1>6. ASSUME NEW g, NEW caps, Attenuate(g, caps) PROVE Grows
  BY <1>6 DEF Attenuate
<1>7. ASSUME NEW g, NEW b, NEW ttl, IssueScope(g, b, ttl) PROVE Grows
  BY <1>7 DEF IssueScope
<1>8. ASSUME NEW g, NEW tool, NEW call, NEW s, Invoke(g, tool, call, s) PROVE Grows
  BY <1>8 DEF Invoke
<1>9. ASSUME NEW s, AlterScope(s) PROVE Grows
  BY <1>9 DEF AlterScope
<1>10. CASE Tick
  BY <1>10 DEF Tick
<1>11. CASE UNCHANGED vars
  BY <1>11 DEF vars
<1> QED BY <1>1, <1>2, <1>3, <1>4, <1>5, <1>6, <1>7, <1>8, <1>9, <1>10, <1>11 DEF Next

(* Signed claims stay signed. *)
LEMMA SignedGrows ==
  ASSUME Grows PROVE Signed \subseteq Signed'
<1> SUFFICES ASSUME NEW c \in Signed PROVE c \in Signed'
  OBVIOUS
<1>1. PICK i \in DOMAIN minted : minted[i].claims = c
  BY DEF Signed
<1>2. i \in DOMAIN minted' /\ minted'[i].claims = c
  BY <1>1 DEF Grows
<1> QED BY <1>2 DEF Signed

(* An identity that was vouched for stays so. *)
LEMMA VouchedStays ==
  ASSUME Grows, NEW g, Vouched(g) PROVE Vouched(g)'
BY SignedGrows DEF Vouched

(* A call within its agent's authority stays so. *)
LEMMA ContainedStays ==
  ASSUME Grows, NEW a, Contained(a) PROVE Contained(a)'
BY VouchedStays DEF Contained, Grows

(* A link stays within its root. *)
LEMMA ChainedStays ==
  ASSUME Types, Grows, NEW i \in DOMAIN minted, Chained(i) PROVE Chained(i)'
<1>1. minted[i].root \in 1..i /\ 1..i \subseteq DOMAIN minted
  BY DEF Types, Chained
<1>2. minted'[i] = minted[i] /\ minted'[minted[i].root] = minted[minted[i].root]
  BY <1>1 DEF Grows
<1> QED BY <1>2 DEF Chained
-----------------------------------------------------------------------------
(* Types is kept. *)
LEMMA TypesKept ==
  ASSUME Types, Chains, Checked, Signatures, [Next]_vars
  PROVE  Types'
<1>1. ASSUME NEW id \in AgentIds, NEW tenant \in Tenants, NEW caps \in Grants,
             NEW roles \in RoleSets, NEW ttl \in Ttls, Issue(id, tenant, caps, roles, ttl)
      PROVE  Types'
  <2>1. PICK claims \in Claims : claims = Root(id, tenant, caps, roles, ttl)
    BY <1>1, RootShape
  <2>2. Mint(claims, Len(minted) + 1) /\ Len(minted) + 1 \in Nat
    BY <1>1, <2>1, RootShape
  <2>3. minted' \in Seq(Link)
    BY <2>2, MintShape
  <2>4. held' \subseteq Assertion
    BY <2>2 DEF Mint, Assertion, Types
  <2> QED BY <1>1, <2>3, <2>4 DEF Issue, Types
<1>2. ASSUME NEW a \in held, NEW id \in AgentIds, NEW caps \in Grants, NEW roles \in RoleSets,
             NEW ttl \in Ttls, Delegate(a, id, caps, roles, ttl)
      PROVE  Types'
  <2>1. Valid(a)
    BY <1>2 DEF Delegate, MayDelegate
  <2>2. IndexOf(a.claims) \in Nat
    BY <2>1, ValidIsSigned DEF Types
  <2>3. minting' \in Pending
    BY <1>2, <2>2 DEF Delegate, Pending
  <2> QED BY <1>2, <2>3 DEF Delegate, Types
<1>3. CASE MintDelegated
  <2>1. PICK claims \in Claims : claims = Child
    BY <1>3, ChildShape
  <2>2. PICK root \in Nat : root = minted[minting.from].root
    BY <1>3, ChildShape
  <2>3. Mint(claims, root)
    BY <1>3, <2>1, <2>2, ChildShape
  <2>4. minted' \in Seq(Link)
    BY <2>3, MintShape
  <2>5. held' \subseteq Assertion
    BY <2>3 DEF Mint, Assertion, Types
  <2> QED BY <1>3, <2>4, <2>5 DEF MintDelegated, Types
<1>4. ASSUME NEW a \in held, Verify(a) PROVE Types'
  <2>1. a.claims \in Claims /\ now \in Nat
    BY <1>4, DelegationAssumption DEF Types, Assertion
  <2>2. [id |-> a.claims.agent_id, caps |-> a.claims.capabilities, via |-> a.claims,
         since |-> now] \in Identity
    BY <2>1 DEF Identity, Claims
  <2> QED BY <1>4, <2>2 DEF Verify, Types
<1>5. ASSUME NEW a \in held, Alter(a) PROVE Types'
  <2>1. a.claims \in Claims /\ a.signed \in Claims \cup {NoSig}
    BY <1>5 DEF Types, Assertion
  <2>2. PICK claims : /\ \/ \E caps \in Grants : claims = [a.claims EXCEPT !.capabilities = caps]
                         \/ claims = [a.claims EXCEPT !.expires_at = @ + 1]
                      /\ held' = (held \ {a}) \cup {[claims |-> claims, signed |-> a.signed]}
    BY <1>5 DEF Alter
  <2>3. claims \in Claims
    BY <2>1, <2>2 DEF Claims
  <2>4. [claims |-> claims, signed |-> a.signed] \in Assertion
    BY <2>1, <2>3 DEF Assertion
  <2> QED BY <1>5, <2>2, <2>4 DEF Alter, Types
<1>6. ASSUME NEW g \in agents, NEW caps \in Grants, Attenuate(g, caps) PROVE Types'
  <2>1. [g EXCEPT !.caps = caps] \in Identity
    BY <1>6 DEF Types, Identity
  <2> QED BY <1>6, <2>1 DEF Attenuate, Types
<1>7. ASSUME NEW g \in agents, NEW b \in ScopeBodies, NEW ttl \in Ttls, IssueScope(g, b, ttl)
      PROVE  Types'
  <2>1. now \in Nat /\ EffectiveTtl(ttl) \in Nat
    BY TtlIsNumber, DelegationAssumption DEF Types
  <2>2. PICK body : body = [agent_id |-> g.id, tools |-> b.tools, capabilities |-> b.capabilities,
                            expires_at |-> now + EffectiveTtl(ttl)]
    OBVIOUS
  <2>3. body \in Scope
    BY <2>1, <2>2 DEF Scope, Types, Identity
  <2>4. PICK signed \in {body, NoSig} : scopes' = scopes \cup {[body |-> body, signed |-> signed]}
    BY <1>7, <2>2 DEF IssueScope
  <2>5. granted' = granted \cup {body}
    BY <1>7, <2>2 DEF IssueScope
  <2>6. \A s \in scopes' : s.body \in Scope /\ s.signed \in Scope \cup {NoSig}
    BY <2>3, <2>4 DEF Types
  <2>7. granted' \subseteq Scope
    BY <2>3, <2>5 DEF Types
  <2> QED BY <1>7, <2>6, <2>7 DEF IssueScope, Types
<1>8. ASSUME NEW g \in agents, NEW tool \in Tools, NEW call \in Calls,
             NEW s, Invoke(g, tool, call, s)
      PROVE  Types'
  BY <1>8 DEF Invoke, Types
<1>9. ASSUME NEW s \in scopes, AlterScope(s) PROVE Types'
  <2>1. PICK b \in ScopeBodies, signed \in {s.signed, NoSig} :
          scopes' = (scopes \ {s}) \cup
            {[body |-> [s.body EXCEPT !.tools = b.tools, !.capabilities = b.capabilities],
              signed |-> signed]}
    BY <1>9 DEF AlterScope
  <2>2. [s.body EXCEPT !.tools = b.tools, !.capabilities = b.capabilities] \in Scope
    BY DEF Types, Scope
  <2>3. \A x \in scopes' : x.body \in Scope /\ x.signed \in Scope \cup {NoSig}
    BY <2>1, <2>2 DEF Types
  <2> QED BY <1>9, <2>3 DEF AlterScope, Types
<1>10. CASE Tick
  BY <1>10, DelegationAssumption DEF Tick, Types
<1>11. CASE UNCHANGED vars
  BY <1>11 DEF vars, Types
<1> QED
  <2>1. ASSUME Next PROVE Types'
    <3>1. ASSUME NEW id \in AgentIds, NEW caps \in Grants, NEW roles \in RoleSets, NEW ttl \in Ttls,
                 (\E tenant \in Tenants : Issue(id, tenant, caps, roles, ttl))
                 \/ (\E a \in held : Delegate(a, id, caps, roles, ttl))
          PROVE  Types'
      BY <1>1, <1>2, <3>1
    <3>2. ASSUME NEW g \in agents,
                 \/ \E caps \in Grants : Attenuate(g, caps)
                 \/ \E b \in ScopeBodies, ttl \in Ttls : IssueScope(g, b, ttl)
                 \/ \E tool \in Tools, call \in Calls, s \in scopes \cup {NoScope} :
                      Invoke(g, tool, call, s)
          PROVE  Types'
      BY <1>6, <1>7, <1>8, <3>2
    <3> QED BY <2>1, <3>1, <3>2, <1>3, <1>4, <1>5, <1>9, <1>10 DEF Next
  <2> QED BY <1>11, <2>1

(* Only signing changes what was signed. *)
LEMMA OnlySigning ==
  ASSUME [Next]_vars
  PROVE  \/ \E id \in AgentIds, tenant \in Tenants, caps \in Grants, roles \in RoleSets, ttl \in Ttls :
              Issue(id, tenant, caps, roles, ttl)
         \/ MintDelegated
         \/ minted' = minted
BY DEF Next, vars, Delegate, Verify, Alter, Attenuate, IssueScope, Invoke, AlterScope, Tick

(* Chains is kept: a root starts a chain, a delegation extends one that    *)
(* its parent is in.                                                       *)
LEMMA ChainsKept ==
  ASSUME Types, Chains, Checked, [Next]_vars
  PROVE  Chains'
<1> DEFINE n == Len(minted) + 1
<1> HIDE DEF n
<1>1. \A i \in DOMAIN minted : Chained(i)'
  BY NextGrows, ChainedStays DEF Chains
<1>2. ASSUME NEW id \in AgentIds, NEW tenant \in Tenants, NEW caps \in Grants,
             NEW roles \in RoleSets, NEW ttl \in Ttls, Issue(id, tenant, caps, roles, ttl)
      PROVE  Chains'
  <2>1. PICK claims \in Claims : claims = Root(id, tenant, caps, roles, ttl)
    BY <1>2, RootShape
  <2>2. Mint(claims, n) /\ n \in Nat \ {0}
    BY <1>2, <2>1, RootShape DEF Types, n
  <2>12. /\ DOMAIN minted' = DOMAIN minted \cup {n}
         /\ minted'[n] = [claims |-> claims, root |-> n]
    BY <2>2, MintShape DEF n
  <2>3. claims.depth <= MaxDepth
    BY <1>2, <2>1, RootShape, DelegationAssumption
  <2>4. claims.expires_at <= claims.expires_at
    BY DEF Claims
  <2>5. PICK k : k = n
    OBVIOUS
  <2>6. /\ minted'[k].claims = claims /\ minted'[k].root = k /\ k \in 1..k
        /\ minted'[minted'[k].root].claims = claims
    BY <2>2, <2>5, <2>12
  <2>7. Chained(k)'
    BY <2>3, <2>4, <2>6, WithinReflexive DEF Chained
  <2> QED BY <1>1, <2>5, <2>7, <2>12 DEF Chains
<1>3. CASE MintDelegated
  <2>1. PICK claims \in Claims : claims = Child
    BY <1>3, ChildShape
  <2>2. PICK from \in DOMAIN minted : from = minting.from
    BY <1>3, ChildShape
  <2>3. PICK root \in Nat : root = minted[from].root
    BY <1>3, <2>2, ChildShape
  <2>4. /\ DOMAIN minted' = DOMAIN minted \cup {n} /\ n \in Nat
        /\ \A i \in DOMAIN minted : minted'[i] = minted[i]
        /\ minted'[n] = [claims |-> claims, root |-> root]
        /\ DOMAIN minted = 1..(n - 1)
    <3>1. Mint(claims, root)
      BY <1>3, <2>1, <2>2, <2>3, ChildShape
    <3>2. /\ DOMAIN minted' = DOMAIN minted \cup {n}
          /\ \A i \in DOMAIN minted : minted'[i] = minted[i]
          /\ minted'[n] = [claims |-> claims, root |-> root]
      BY <3>1, MintShape DEF n
    <3>3. Len(minted) \in Nat /\ DOMAIN minted = 1..Len(minted)
      BY DEF Types
    <3>4. n \in Nat /\ DOMAIN minted = 1..(n - 1)
      BY <3>3 DEF n
    <3> QED BY <3>2, <3>4
  <2>5. PICK parent \in Claims : parent = minted[from].claims
    BY <2>2, LinksTyped
  <2>6. /\ claims.tenant = parent.tenant /\ claims.expires_at <= parent.expires_at
        /\ claims.depth <= MaxDepth /\ Within(parent.capabilities, claims.capabilities)
    BY <1>3, <2>1, <2>2, <2>5, ChildShape
  <2>7. root \in 1..from /\ root \in DOMAIN minted
    BY <2>2, <2>3, <2>4 DEF Chains, Chained
  <2>8. PICK top \in Claims : top = minted[root].claims
    BY <2>7, LinksTyped
  <2>9. /\ parent.tenant = top.tenant /\ parent.expires_at <= top.expires_at
        /\ Within(top.capabilities, parent.capabilities)
    BY <2>2, <2>3, <2>5, <2>8 DEF Chains, Chained
  <2>10. claims.tenant = top.tenant /\ claims.expires_at <= top.expires_at
    BY <2>6, <2>9 DEF Claims
  <2>11. Within(top.capabilities, claims.capabilities)
    BY <2>6, <2>9, WithinTransitive
  <2>12. PICK k : k = n
    OBVIOUS
  <2>13. /\ minted'[k].claims = claims /\ minted'[k].root = root /\ root \in 1..k
         /\ minted'[root].claims = top
    BY <2>2, <2>4, <2>7, <2>8, <2>12
  <2>14. Chained(k)'
    BY <2>6, <2>10, <2>11, <2>13 DEF Chained
  <2> QED BY <1>1, <2>4, <2>12, <2>14 DEF Chains
<1>4. CASE minted' = minted
  BY <1>1, <1>4 DEF Chains
<1> QED BY <1>2, <1>3, <1>4, OnlySigning

(* Signatures is kept: altering leaves the signature alone. *)
LEMMA SignaturesKept ==
  ASSUME Types, Chains, Checked, Signatures, [Next]_vars
  PROVE  Signatures'
<1>1. Signed \subseteq Signed'
  BY NextGrows, SignedGrows
<1>2. \A a \in held : a.signed \in Signed'
  BY <1>1 DEF Signatures
<1>3. ASSUME NEW claims \in Claims, NEW root \in Nat, Mint(claims, root)
      PROVE  Signatures'
  <2>1. PICK n : n = Len(minted) + 1
    OBVIOUS
  <2>2. n \in DOMAIN minted' /\ minted'[n].claims = claims
    <3>1. /\ DOMAIN minted' = DOMAIN minted \cup {Len(minted) + 1}
          /\ minted'[Len(minted) + 1] = [claims |-> claims, root |-> root]
      BY <1>3, MintShape
    <3> QED BY <2>1, <3>1
  <2>3. claims \in Signed'
    BY <2>2 DEF Signed
  <2>4. held' = held \cup {[claims |-> claims, signed |-> claims]}
    BY <1>3 DEF Mint
  <2> QED BY <1>2, <2>3, <2>4 DEF Signatures
<1>4. ASSUME NEW id \in AgentIds, NEW tenant \in Tenants, NEW caps \in Grants,
             NEW roles \in RoleSets, NEW ttl \in Ttls, Issue(id, tenant, caps, roles, ttl)
      PROVE  Signatures'
  BY <1>3, <1>4, RootShape
<1>5. CASE MintDelegated
  BY <1>3, <1>5, ChildShape
<1>6. ASSUME NEW a \in held, Alter(a) PROVE Signatures'
  <2>1. PICK claims : held' = (held \ {a}) \cup {[claims |-> claims, signed |-> a.signed]}
    BY <1>6 DEF Alter
  <2> QED BY <1>2, <2>1 DEF Signatures
<1>7. CASE held' = held
  BY <1>2, <1>7 DEF Signatures
<1>8. \/ \E id \in AgentIds, tenant \in Tenants, caps \in Grants, roles \in RoleSets, ttl \in Ttls :
           Issue(id, tenant, caps, roles, ttl)
      \/ MintDelegated \/ (\E a \in held : Alter(a)) \/ held' = held
  BY DEF Next, vars, Delegate, Verify, Attenuate, IssueScope, Invoke, AlterScope, Tick
<1> QED BY <1>4, <1>5, <1>6, <1>7, <1>8

(* Checked is kept: what delegate checked of the signed claims is still so *)
(* when it signs.                                                          *)
LEMMA CheckedKept ==
  ASSUME Types, Chains, Checked, Signatures, [Next]_vars
  PROVE  Checked'
<1>1. ASSUME NEW a \in held, NEW id \in AgentIds, NEW caps \in Grants, NEW roles \in RoleSets,
             NEW ttl \in Ttls, Delegate(a, id, caps, roles, ttl)
      PROVE  Checked'
  <2>1. Valid(a) /\ DepthAllows(a.claims) /\ AllCovered(a.claims.capabilities, caps)
    BY <1>1 DEF Delegate, MayDelegate
  <2>2. PICK i \in DOMAIN minted : i = IndexOf(a.claims) /\ minted[i].claims = a.claims
    BY <2>1, ValidIsSigned
  <2>3. a.claims.capabilities \in Grants
    BY <2>1, ValidIsSigned DEF Claims
  <2>4. Within(a.claims.capabilities, caps)
    BY <2>1, <2>3, AttenuationNarrows, GrantsByPath
  <2>5. minting'.from = i /\ minting'.caps = caps /\ minted' = minted
    BY <1>1, <2>2 DEF Delegate
  <2>6. a.claims.depth + 1 <= MaxDepth
    BY <2>1 DEF DepthAllows
  <2> QED BY <2>2, <2>4, <2>5, <2>6 DEF Checked
<1>2. CASE minting' = minting
  <2>1. SUFFICES ASSUME minting # Nothing PROVE Checked'
    BY <1>2 DEF Checked
  <2>2. minting.from \in DOMAIN minted' /\ minted'[minting.from] = minted[minting.from]
    BY <2>1, NextGrows DEF Checked, Grows
  <2> QED BY <1>2, <2>1, <2>2 DEF Checked
<1>3. CASE minting' = Nothing
  BY <1>3 DEF Checked
<1>4. \/ \E a \in held, id \in AgentIds, caps \in Grants, roles \in RoleSets, ttl \in Ttls :
           Delegate(a, id, caps, roles, ttl)
      \/ minting' = Nothing \/ minting' = minting
  BY DEF Next, vars, Issue, MintDelegated, Verify, Alter, Attenuate, IssueScope, Invoke, AlterScope,
         Tick
<1> QED BY <1>1, <1>2, <1>3, <1>4

(* Identities is kept: a verifier vouches for what was signed, attenuation *)
(* narrows it.                                                             *)
LEMMA IdentitiesKept ==
  ASSUME Types, Chains, Checked, Signatures, Identities, [Next]_vars
  PROVE  Identities'
<1>1. \A g \in agents : Vouched(g)'
  BY NextGrows, VouchedStays DEF Identities
<1>2. ASSUME NEW a \in held, Verify(a) PROVE Identities'
  <2>1. Valid(a) /\ a.claims.tenant = ExpectedTenant /\ ~Expired(a.claims)
    BY <1>2 DEF Verify
  <2>2. a.claims \in Claims /\ a.claims \in Signed
    BY <2>1, ValidIsSigned
  <2>3. PICK g : g = [id |-> a.claims.agent_id, caps |-> a.claims.capabilities, via |-> a.claims,
                      since |-> now]
    OBVIOUS
  <2>4. now < a.claims.expires_at
    <3>1. a.claims.expires_at \in Int /\ now \in Int
      BY <2>2, DelegationAssumption DEF Claims, Types
    <3> QED BY <2>1, <3>1 DEF Expired
  <2>5. /\ g.via = a.claims /\ g.caps = a.claims.capabilities /\ g.since = now
    BY <2>3
  <2>6. Vouched(g)
    BY <2>1, <2>2, <2>4, <2>5, WithinReflexive DEF Vouched
  <2>7. Vouched(g)'
    BY <2>6, NextGrows, VouchedStays
  <2>8. agents' = agents \cup {g}
    BY <1>2, <2>3 DEF Verify
  <2> QED BY <1>1, <2>7, <2>8 DEF Identities
<1>3. ASSUME NEW g \in agents, NEW caps \in Grants, Attenuate(g, caps) PROVE Identities'
  <2>1. PICK h : h = [g EXCEPT !.caps = caps]
    OBVIOUS
  <2>2. g \in Identity
    BY DEF Types
  <2>3. /\ h.via = g.via /\ h.caps = caps /\ h.since = g.since
        /\ g.caps \in Grants
    BY <2>1, <2>2 DEF Identity
  <2>4. Within(g.caps, caps)
    BY <1>3, <2>3, AttenuationNarrows, GrantsByPath DEF Attenuate
  <2>5. Vouched(h)
    BY <2>3, <2>4, WithinTransitive DEF Vouched, Identities
  <2>6. Vouched(h)'
    BY <2>5, NextGrows, VouchedStays
  <2>7. agents' = agents \cup {h}
    BY <1>3, <2>1 DEF Attenuate
  <2> QED BY <1>1, <2>6, <2>7 DEF Identities
<1>4. CASE agents' = agents
  BY <1>1, <1>4 DEF Identities
<1>5. \/ \E a \in held : Verify(a)
      \/ \E g \in agents, caps \in Grants : Attenuate(g, caps)
      \/ agents' = agents
  BY DEF Next, vars, Issue, Delegate, MintDelegated, Alter, IssueScope, Invoke, AlterScope, Tick
<1> QED BY <1>2, <1>3, <1>4, <1>5

(* ScopeSignatures is kept: a changed task scope keeps a signature over    *)
(* the old one, or none.                                                   *)
LEMMA ScopeSignaturesKept ==
  ASSUME Types, Chains, Checked, ScopeSignatures, [Next]_vars
  PROVE  ScopeSignatures'
<1>1. \A s \in scopes : s.signed # NoSig => s.signed \in granted'
  BY NextGrows DEF ScopeSignatures, Grows
<1>2. ASSUME NEW g, NEW b, NEW ttl, IssueScope(g, b, ttl) PROVE ScopeSignatures'
  <2>1. PICK body : body = [agent_id |-> g.id, tools |-> b.tools, capabilities |-> b.capabilities,
                            expires_at |-> now + EffectiveTtl(ttl)]
    OBVIOUS
  <2>2. PICK signed \in {body, NoSig} : scopes' = scopes \cup {[body |-> body, signed |-> signed]}
    BY <1>2, <2>1 DEF IssueScope
  <2>3. body \in granted'
    BY <1>2, <2>1 DEF IssueScope
  <2> QED BY <1>1, <2>2, <2>3 DEF ScopeSignatures
<1>3. ASSUME NEW s \in scopes, AlterScope(s) PROVE ScopeSignatures'
  <2>1. PICK b, signed : /\ signed \in {s.signed, NoSig}
                         /\ scopes' = (scopes \ {s}) \cup {[body |-> b, signed |-> signed]}
    BY <1>3 DEF AlterScope
  <2> QED BY <1>1, <2>1 DEF ScopeSignatures
<1>4. CASE scopes' = scopes
  BY <1>1, <1>4 DEF ScopeSignatures
<1>5. \/ \E g \in agents, b \in ScopeBodies, ttl \in Ttls : IssueScope(g, b, ttl)
      \/ \E s \in scopes : AlterScope(s)
      \/ scopes' = scopes
  BY DEF Next, vars, Issue, Delegate, MintDelegated, Verify, Alter, Attenuate, Invoke, Tick
<1> QED BY <1>2, <1>3, <1>4, <1>5

(* Actions is kept: what a call may touch its agent's grant decides.       *)
LEMMA ActionsKept ==
  ASSUME Types, Chains, Checked, Identities, ScopeSignatures, Actions, [Next]_vars
  PROVE  Actions'
<1>1. \A a \in acts : Contained(a)'
  BY NextGrows, ContainedStays DEF Actions
<1>2. ASSUME NEW g \in agents, NEW tool \in Tools, NEW call \in Calls,
             NEW s \in scopes \cup {NoScope}, Invoke(g, tool, call, s)
      PROVE  Actions'
  <2>1. PICK a : a = [by |-> g, tool |-> tool, call |-> call, scope |-> s]
    OBVIOUS
  <2>2. a.by = g /\ a.tool = tool /\ a.call = call /\ a.scope = s
    BY <2>1
  <2>3. Vouched(g)
    BY DEF Identities
  <2>4. ASSUME NEW i \in DOMAIN call.args \cap DOMAIN ToolSpecs[tool].caps
        PROVE  \E e \in DOMAIN g.caps :
                 /\ g.caps[e].type = ToolSpecs[tool].caps[i].type
                 /\ Enforces(g.caps[e], call.args[i])
    <3>1. PICK e \in DOMAIN g.caps : /\ EffectiveCapability(g.caps, ToolSpecs[tool].caps[i], e)
                                     /\ Enforces(g.caps[e], call.args[i])
      BY <1>2 DEF Invoke, ArgumentsEnforced
    <3>2. g.caps[e].type = ToolSpecs[tool].caps[i].type
      BY <3>1 DEF EffectiveCapability, Covers
    <3> QED BY <3>1, <3>2
  <2>5. ASSUME s # NoScope, s.signed # NoSig
        PROVE  s.body \in granted /\ s.body.agent_id = g.id
    <3>1. ScopeUntouched(s) /\ s.body.agent_id = g.id
      BY <1>2, <2>5 DEF Invoke, ScopeAdmits
    <3>2. s.signed \in granted
      BY <2>5 DEF ScopeSignatures
    <3> QED BY <2>5, <3>1, <3>2 DEF ScopeUntouched
  <2>6. Contained(a)
    BY <2>2, <2>3, <2>4, <2>5 DEF Contained
  <2>7. Contained(a)'
    BY <2>6, NextGrows, ContainedStays
  <2>8. acts' = acts \cup {a}
    BY <1>2, <2>1 DEF Invoke
  <2> QED BY <1>1, <2>7, <2>8 DEF Actions
<1>3. CASE acts' = acts
  BY <1>1, <1>3 DEF Actions
<1>4. \/ \E g \in agents, tool \in Tools, call \in Calls, s \in scopes \cup {NoScope} :
           Invoke(g, tool, call, s)
      \/ acts' = acts
  BY DEF Next, vars, Issue, Delegate, MintDelegated, Verify, Alter, Attenuate, IssueScope, AlterScope,
         Tick
<1> QED BY <1>2, <1>3, <1>4
-----------------------------------------------------------------------------
(* The invariant holds at the start and in every step. *)
THEOREM Invariance == Spec => []IInv
<1>1. Init => IInv
  <2> SUFFICES ASSUME Init PROVE IInv
    OBVIOUS
  <2>1. Types
    BY DelegationAssumption DEF Init, Types
  <2>2. Chains /\ Signatures /\ Checked /\ Identities /\ ScopeSignatures /\ Actions
    BY DEF Init, Chains, Signatures, Checked, Identities, ScopeSignatures, Actions
  <2> QED BY <2>1, <2>2 DEF IInv
<1>2. IInv /\ [Next]_vars => IInv'
  BY TypesKept, ChainsKept, SignaturesKept, CheckedKept, IdentitiesKept, ScopeSignaturesKept,
     ActionsKept
     DEF IInv
<1> QED BY <1>1, <1>2, PTL DEF Spec

(* The delegation model keeps its types; the depth of every signed chain   *)
(* is bounded.                                                             *)
THEOREM TypeCorrect == Spec => []TypeOK
<1>1. IInv => TypeOK
  <2> SUFFICES ASSUME IInv PROVE TypeOK
    OBVIOUS
  <2>1. \A i \in DOMAIN minted :
          /\ minted[i].claims \in Claims
          /\ minted[i].claims.depth <= MaxDepth
          /\ minted[i].root \in 1..i
    BY LinksTyped DEF IInv, Chains, Chained
  <2>2. minting = Nothing \/ minting.from \in 1..Len(minted)
    BY DEF IInv, Checked, Types
  <2> QED BY <2>1, <2>2 DEF IInv, Types, TypeOK
<1> QED BY <1>1, Invariance, PTL

(* Signed claims lie within the root that RootOf finds for them. *)
LEMMA RootContains ==
  ASSUME Types, Chains, NEW claims \in Signed
  PROVE  /\ claims.tenant = RootOf(claims).tenant
         /\ claims.expires_at <= RootOf(claims).expires_at
         /\ RootOf(claims) \in Claims
         /\ Within(RootOf(claims).capabilities, claims.capabilities)
<1>1. \E i \in DOMAIN minted : minted[i].claims = claims
  BY DEF Signed
<1>2. PICK i \in DOMAIN minted : i = IndexOf(claims) /\ minted[i].claims = claims
  BY <1>1 DEF IndexOf
<1>3. Chained(i) /\ minted[i].root \in DOMAIN minted
  BY DEF Chains, Chained, Types
<1>4. RootOf(claims) = minted[minted[i].root].claims
  BY <1>2 DEF RootOf
<1> QED BY <1>2, <1>3, <1>4, LinksTyped DEF Chained

(* Whatever is delegated, attenuated, scoped or altered, what a call       *)
(* reaches is what a root's capability lets through, no identity is        *)
(* accepted after its root expired, and a signed task scope is an issued   *)
(* one.                                                                    *)
THEOREM AuthorityOnlyNarrows == Spec => []WithinRoot
<1>1. IInv => WithinRoot
  <2> SUFFICES ASSUME IInv PROVE WithinRoot
    OBVIOUS
  <2>1. NothingOutlivesRoot
    <3> SUFFICES ASSUME NEW g \in agents PROVE g.since < RootOf(g.via).expires_at
      BY DEF NothingOutlivesRoot
    <3>1. Vouched(g) /\ g \in Identity
      BY DEF IInv, Identities, Types
    <3>2. g.since < g.via.expires_at /\ g.via.expires_at <= RootOf(g.via).expires_at
      BY <3>1, RootContains DEF Vouched, IInv
    <3>3. g.since \in Int /\ g.via.expires_at \in Int /\ RootOf(g.via).expires_at \in Int
      BY <3>1, RootContains DEF Vouched, IInv, Identity, Claims
    <3> QED BY <3>2, <3>3
  <2>2. ActsWithinRoot
    <3> SUFFICES ASSUME NEW a \in acts
                 PROVE  /\ RootOf(a.by.via).tenant = ExpectedTenant
                        /\ \A i \in DOMAIN a.call.args \cap DOMAIN ToolSpecs[a.tool].caps :
                             \E j \in DOMAIN RootOf(a.by.via).capabilities :
                               /\ RootOf(a.by.via).capabilities[j].type
                                    = ToolSpecs[a.tool].caps[i].type
                               /\ Enforces(RootOf(a.by.via).capabilities[j], a.call.args[i])
      BY DEF ActsWithinRoot
    <3>1. Contained(a) /\ Vouched(a.by) /\ a.tool \in Tools /\ a.call \in Calls
      BY DEF IInv, Actions, Contained, Types
    <3>2. PICK root : root = RootOf(a.by.via)
      OBVIOUS
    <3>3. a.by.via.tenant = root.tenant /\ Within(root.capabilities, a.by.via.capabilities)
      BY <3>1, <3>2, RootContains DEF IInv, Vouched
    <3>4. Within(root.capabilities, a.by.caps)
      BY <3>1, <3>3, WithinTransitive DEF Vouched
    <3>5. ASSUME NEW i \in DOMAIN a.call.args \cap DOMAIN ToolSpecs[a.tool].caps
          PROVE  \E j \in DOMAIN root.capabilities :
                   /\ root.capabilities[j].type = ToolSpecs[a.tool].caps[i].type
                   /\ Enforces(root.capabilities[j], a.call.args[i])
      <4>1. PICK e \in DOMAIN a.by.caps : /\ a.by.caps[e].type = ToolSpecs[a.tool].caps[i].type
                                          /\ Enforces(a.by.caps[e], a.call.args[i])
        BY <3>1 DEF Contained
      <4>2. Fits(a.by.caps[e].type, a.call.args[i])
        BY <3>1, <4>1, DelegationAssumption DEF Fits
      <4> QED BY <3>4, <4>1, <4>2 DEF Within
    <3> QED BY <3>1, <3>2, <3>3, <3>5 DEF Vouched
  <2>3. ScopeAsIssued
    BY DEF IInv, Actions, Contained, ScopeAsIssued
  <2> QED BY <2>1, <2>2, <2>3 DEF WithinRoot
<1> QED BY <1>1, Invariance, PTL
-----------------------------------------------------------------------------
(* The hub, for any names, declarations, threads, and changes of the       *)
(* default.                                                                *)

(* Cardinality as the hub's module has it is that of the finite sets.      *)
LEMMA HubCardinality == \A S : H!Cardinality(S) = Cardinality(S)
BY DEF H!Cardinality, Cardinality

Specs == {H!ToolSpec(n, f) : n \in Names, f \in Declarations}
HubCaps == UNION {H!Range(H!ToolSpec(n, f).caps) : n \in Names, f \in Declarations}

(* A scope of files is covered by itself if each of its patterns is. *)
LEMMA FilesAreCovered ==
  ASSUME NEW c, c.type \in H!FileTypes, \A r \in c.paths : H!PathCovers(r, r)
  PROVE  H!Covers(c, c)
<1>1. c.type # "shell_exec" /\ c.type # "network_http" /\ c.type # "db_query"
  BY DEF H!FileTypes
<1>2. \A r \in c.paths : \E g \in c.paths : H!PathCovers(g, r)
  OBVIOUS
<1> QED BY <1>1, <1>2 DEF H!Covers

(* What guard registers needs something, and is covered once it is granted. *)
LEMMA BuiltIsCovered ==
  ASSUME H!HubAssumption, NEW name \in Names, NEW flags \in Declarations
  PROVE  /\ H!ToolSpec(name, flags).caps \in Seq(HubCaps)
         /\ H!ToolSpec(name, flags).caps # << >>
         /\ \A i \in DOMAIN H!ToolSpec(name, flags).caps :
              H!Covers(H!ToolSpec(name, flags).caps[i], H!ToolSpec(name, flags).caps[i])
<1> DEFINE Scopes == {flags.file_read, flags.file_write} \ {No, Anywhere}
           Fixed == {H!Http(flags.network), H!Shell(flags.shell, 30), H!Db(TRUE), H!Db(FALSE), H!Custom(name)}
           Further == {H!Custom(p) : p \in H!Range(flags.custom)}
           Files == {H!File(ty, S) : ty \in H!FileTypes, S \in {{}} \cup {{s} : s \in Scopes}}
           D == Fixed \cup Further \cup Files
           caps == H!ToolSpec(name, flags).caps
<1>1. ASSUME NEW c \in D PROVE H!Covers(c, c)
  <2>1. CASE c \in Fixed
    BY <2>1 DEF H!Covers, H!Http, H!Shell, H!Db, H!Custom, H!FileTypes
  <2>2. CASE c \in Further
    BY <2>2 DEF H!Covers, H!Custom, H!FileTypes
  <2>3. CASE c \in Files
    <3>1. PICK ty \in H!FileTypes, S \in {{}} \cup {{s} : s \in Scopes} : c = H!File(ty, S)
      BY <2>3
    <3>2. c.type \in H!FileTypes /\ c.paths = S
      BY <3>1 DEF H!File
    <3>3. \A s \in Scopes : H!IsPrefix(s.dir, s.dir)
      <4>1. ASSUME NEW s \in Scopes PROVE Len(s.dir) \in Nat
        BY DEF H!HubAssumption
      <4> QED BY <4>1 DEF H!IsPrefix
    <3>4. \A r \in S : H!PathCovers(r, r) /\ r \in c.paths
      BY <3>1, <3>2, <3>3 DEF H!PathCovers
    <3> QED BY <3>2, <3>4, FilesAreCovered
  <2> HIDE DEF Fixed, Further, Files
  <2> QED BY <2>1, <2>2, <2>3
<1>2. flags.custom \in Seq(H!Range(flags.custom))
  BY DEF H!HubAssumption
<1>3. /\ Fixed \subseteq D
      /\ \A i \in DOMAIN flags.custom : H!Custom(flags.custom[i]) \in D
      /\ \A ty \in H!FileTypes : H!File(ty, {}) \in D /\ \A s \in Scopes : H!File(ty, {s}) \in D
  <2>1. \A i \in DOMAIN flags.custom : H!Custom(flags.custom[i]) \in Further
    BY DEF H!Range
  <2>2. \A ty \in H!FileTypes : H!File(ty, {}) \in Files /\ \A s \in Scopes : H!File(ty, {s}) \in Files
    OBVIOUS
  <2> HIDE DEF Fixed, Further, Files
  <2> QED BY <2>1, <2>2
<1>4. "file_read" \in H!FileTypes /\ "file_write" \in H!FileTypes
  BY DEF H!FileTypes
<1>5. /\ H!Http(flags.network) \in D /\ H!Shell(flags.shell, 30) \in D
      /\ H!Db(TRUE) \in D /\ H!Db(FALSE) \in D /\ H!Custom(name) \in D
  BY <1>3
<1> HIDE DEF D
<1>6. ASSUME NEW ty \in H!FileTypes, NEW scope \in {flags.file_read, flags.file_write}
      PROVE  H!FileScope(ty, scope) \in Seq(D)
  <2>1. scope \in {No, Anywhere} \/ scope \in Scopes
    OBVIOUS
  <2>2. H!File(ty, {}) \in D /\ (scope \in Scopes => H!File(ty, {scope}) \in D)
    BY <1>3
  <2> HIDE DEF Scopes
  <2> QED BY <2>1, <2>2 DEF H!FileScope
<1>7. ASSUME NEW c \in D, NEW flag PROVE H!When(flag, c) \in Seq(D)
  BY DEF H!When
<1>8. H!BuildCapabilities(flags) \in Seq(D)
  <2>1. [i \in DOMAIN flags.custom |-> H!Custom(flags.custom[i])] \in Seq(D)
    <3>1. DOMAIN flags.custom = 1..Len(flags.custom) /\ Len(flags.custom) \in Nat
      BY <1>2
    <3> QED BY <3>1, <1>3
  <2>2. /\ H!When(flags.network # {}, H!Http(flags.network)) \in Seq(D)
        /\ H!When(flags.shell # {}, H!Shell(flags.shell, 30)) \in Seq(D)
        /\ H!When(flags.db, H!Db(TRUE)) \in Seq(D) /\ H!When(flags.db_write, H!Db(FALSE)) \in Seq(D)
    BY <1>5, <1>7
  <2>3. H!FileScope("file_read", flags.file_read) \in Seq(D) /\ H!FileScope("file_write", flags.file_write) \in Seq(D)
    BY <1>4, <1>6
  <2>4. \A a, b, c, d, e, f, g \in Seq(D) : a \o b \o c \o d \o e \o f \o g \in Seq(D)
    <3>1. \A a, b \in Seq(D) : a \o b \in Seq(D)
      OBVIOUS
    <3> QED BY <3>1, Zenon
  <2> DEFINE net == H!When(flags.network # {}, H!Http(flags.network))
             shell == H!When(flags.shell # {}, H!Shell(flags.shell, 30))
             db == H!When(flags.db, H!Db(TRUE))
             write == H!When(flags.db_write, H!Db(FALSE))
             in == H!FileScope("file_read", flags.file_read)
             out == H!FileScope("file_write", flags.file_write)
             further == [i \in DOMAIN flags.custom |-> H!Custom(flags.custom[i])]
  <2>5. H!BuildCapabilities(flags) = net \o in \o out \o shell \o db \o write \o further
    BY DEF H!BuildCapabilities
  <2>6. /\ net \in Seq(D) /\ shell \in Seq(D) /\ db \in Seq(D) /\ write \in Seq(D)
        /\ in \in Seq(D) /\ out \in Seq(D) /\ further \in Seq(D)
    BY <2>1, <2>2, <2>3
  <2> HIDE DEF net, shell, db, write, in, out, further
  <2> QED BY <2>4, <2>5, <2>6
<1>9. caps \in Seq(D) /\ caps # << >>
  <2>1. caps = IF H!BuildCapabilities(flags) = << >> THEN <<H!Custom(name)>> ELSE H!BuildCapabilities(flags)
    BY DEF H!ToolSpec
  <2>2. <<H!Custom(name)>> \in Seq(D) /\ <<H!Custom(name)>> # << >>
    BY <1>5
  <2> HIDE DEF caps
  <2> QED BY <2>1, <2>2, <1>8
<1>10. caps \in Seq(HubCaps)
  <2>1. \A i \in DOMAIN caps : caps[i] \in HubCaps
    <3>1. \A i \in DOMAIN caps : caps[i] \in H!Range(caps)
      BY DEF H!Range
    <3> QED BY <3>1 DEF HubCaps
  <2>2. caps = [i \in 1..Len(caps) |-> caps[i]] /\ Len(caps) \in Nat /\ DOMAIN caps = 1..Len(caps)
    BY <1>9
  <2> HIDE DEF caps
  <2> QED BY <2>1, <2>2
<1> QED BY <1>1, <1>9, <1>10
-----------------------------------------------------------------------------
Stages == {"idle", "create", "return", "apply", "register", "extend", "invoke"}
Hubs == [registry : [Names -> Specs \cup {Nothing}], granted : Seq(HubCaps),
         lock : Threads \cup {Nobody}, marks : SUBSET Marks]
Guards == [name : Names, flags : Declarations]
FunctionCalls == [name : Names, kwargs : Inputs]
Works == [op : {"guard", "observe", "configure", "call"},
          arg : Guards \cup FunctionCalls \cup Marks \cup {Nothing},
          hub : Nat, from : Nat, held : Seq(HubCaps), calm : BOOLEAN]

(* What a thread is at, it is at with an operation of that kind, and a hub *)
(* once it has one.                                                        *)
HubWorkOK(t) ==
  /\ pc[t] # "idle" => work[t] \in Works /\ work[t].from <= epoch
  /\ pc[t] \in {"create", "apply"} => work[t].op \in {"guard", "observe"}
  /\ pc[t] = "return" => work[t].op # "call"
  /\ pc[t] \in {"register", "extend"} => work[t].op = "guard"
  /\ pc[t] = "invoke" => work[t].op = "call"
  /\ pc[t] # "idle" /\ work[t].op = "guard" => work[t].arg \in Guards
  /\ pc[t] # "idle" /\ work[t].op = "observe" => work[t].arg \in Marks
  /\ pc[t] # "idle" /\ work[t].op = "call" => work[t].arg \in FunctionCalls
  /\ pc[t] \in {"apply", "register", "extend", "invoke"} => work[t].hub \in DOMAIN hubs

HubTypes ==
  /\ hubs \in Seq(Hubs) /\ default \in 0..Len(hubs) /\ epoch \in 0..MaxSwitches
  /\ ops \in 0..MaxUses
  /\ pc \in [Threads -> Stages] /\ work = [t \in Threads |-> work[t]]
  /\ \A t \in Threads : HubWorkOK(t)
  /\ tools \subseteq [hub : DOMAIN hubs, name : Names]
  /\ \A r \in ran : r.hub \in DOMAIN hubs

AtGuard(t, h) == pc[t] \in {"register", "extend"} /\ work[t].hub = h

(* The thread inside guard holds the hub's lock, and it alone. *)
HubLocks ==
  \A h \in DOMAIN hubs :
    /\ \A t \in Threads : AtGuard(t, h) => hubs[h].lock = t
    /\ hubs[h].lock \in Threads => AtGuard(hubs[h].lock, h)

(* A name stands for a tool whose capabilities are all among `have`. *)
Served(h, name, have) ==
  \E f \in Declarations :
    /\ hubs[h].registry[name] = H!ToolSpec(name, f)
    /\ H!Range(H!ToolSpec(name, f).caps) \subseteq H!Range(have)

Unguarded(h, name) ==
  \A u \in Threads : AtGuard(u, h) => work[u].arg.name # name

(* Inside guard the name is free, then taken by what is being granted.     *)
NameOK(t) ==
  LET w == work[t] IN
  /\ pc[t] = "register" => hubs[w.hub].registry[w.arg.name] = Nothing
  /\ pc[t] = "extend" => hubs[w.hub].registry[w.arg.name] = H!ToolSpec(w.arg.name, w.arg.flags)

(* A call holds what was granted; one that its tool was not guarded under  *)
(* all that it needs.                                                      *)
CallOK(t) ==
  LET w == work[t] IN
  pc[t] = "invoke" =>
    /\ H!Range(w.held) \subseteq H!Range(hubs[w.hub].granted)
    /\ w.calm => Unguarded(w.hub, w.arg.name) /\ Served(w.hub, w.arg.name, w.held)

HubServes ==
  /\ broken = {}
  /\ \A t \in Threads : NameOK(t) /\ CallOK(t)
  /\ \A tool \in tools :
       Unguarded(tool.hub, tool.name) => Served(tool.hub, tool.name, hubs[tool.hub].granted)

(* Within an epoch the default changes but from none to one. *)
HubDefaults ==
  /\ \A t \in Threads : pc[t] = "return" /\ work[t].from = epoch => default # 0
  /\ \A u \in uses : u.to \in 0..epoch
  /\ \A u \in uses : u.from = u.to => u.hub # 0 /\ (u.to = epoch => u.hub = default)
  /\ \A u, v \in uses : u.from = u.to /\ v.from = v.to /\ u.to = v.to => u.hub = v.hub

HubInv == HubTypes /\ HubLocks /\ HubServes /\ HubDefaults /\ H!BoundedByHub
-----------------------------------------------------------------------------
(* Another hub leaves those there are alone. *)
LEMMA HubMade ==
  ASSUME HubTypes, hubs' = Append(hubs, H!NewHub)
  PROVE  /\ hubs' \in Seq(Hubs) /\ Len(hubs') = Len(hubs) + 1 /\ Len(hubs) \in Nat
         /\ DOMAIN hubs \subseteq DOMAIN hubs' /\ DOMAIN hubs' = DOMAIN hubs \cup {Len(hubs) + 1}
         /\ \A h \in DOMAIN hubs : hubs'[h] = hubs[h]
         /\ hubs'[Len(hubs) + 1] = H!NewHub /\ H!NewHub.lock = Nobody
<1>1. H!NewHub \in Hubs /\ H!NewHub.lock = Nobody
  BY DEF H!NewHub, Hubs
<1>2. hubs \in Seq(Hubs) /\ Len(hubs) \in Nat
  BY DEF HubTypes
<1> QED BY <1>1, <1>2

(* So does an edit of one of them. *)
LEMMA HubEdited ==
  ASSUME HubTypes, NEW k \in DOMAIN hubs, NEW hub \in Hubs, hubs' = [hubs EXCEPT ![k] = hub]
  PROVE  /\ hubs' \in Seq(Hubs) /\ DOMAIN hubs' = DOMAIN hubs /\ Len(hubs') = Len(hubs)
         /\ \A h \in DOMAIN hubs : hubs'[h] = IF h = k THEN hub ELSE hubs[h]
<1>1. hubs \in Seq(Hubs)
  BY DEF HubTypes
<1> QED BY <1>1

(* Unregistering frees the name and takes the lock. *)
LEMMA UnregisterShape ==
  ASSUME HubTypes, NEW t \in Threads, H!Unregister(t)
  PROVE  LET k == work[t].hub  n == work[t].arg.name IN
         /\ k \in DOMAIN hubs /\ n \in Names /\ hubs[k].lock = Nobody /\ pc[t] = "apply"
         /\ hubs' \in Seq(Hubs) /\ DOMAIN hubs' = DOMAIN hubs /\ Len(hubs') = Len(hubs)
         /\ \A h \in DOMAIN hubs : h # k => hubs'[h] = hubs[h]
         /\ hubs'[k].lock = t /\ hubs'[k].granted = hubs[k].granted
         /\ hubs'[k].registry[n] = Nothing
         /\ \A m \in Names : m # n => hubs'[k].registry[m] = hubs[k].registry[m]
<1> DEFINE k == work[t].hub  n == work[t].arg.name
           hub == [hubs[k] EXCEPT !.lock = t, !.registry = [@ EXCEPT ![n] = Nothing]]
<1>1. /\ k \in DOMAIN hubs /\ n \in Names /\ hubs[k].lock = Nobody /\ pc[t] = "apply"
      /\ hubs[k] \in Hubs
  <2>1. HubWorkOK(t) /\ pc[t] = "apply" /\ work[t].op = "guard" /\ hubs[k].lock = Nobody
    BY DEF HubTypes, H!Unregister, H!Mine
  <2> QED BY <2>1 DEF HubTypes, HubWorkOK, Guards
<1>2. hubs' = [hubs EXCEPT ![k] = hub]
  BY <1>1 DEF HubTypes, H!Unregister, Hubs
<1>3. /\ hub \in Hubs /\ hub.lock = t /\ hub.granted = hubs[k].granted
      /\ hub.registry[n] = Nothing
      /\ \A m \in Names : m # n => hub.registry[m] = hubs[k].registry[m]
  BY <1>1 DEF Hubs
<1> HIDE DEF hub, k, n
<1>4. /\ hubs' \in Seq(Hubs) /\ DOMAIN hubs' = DOMAIN hubs /\ Len(hubs') = Len(hubs)
      /\ \A h \in DOMAIN hubs : hubs'[h] = IF h = k THEN hub ELSE hubs[h]
  BY <1>1, <1>2, <1>3, HubEdited
<1> QED BY <1>1, <1>3, <1>4 DEF k, n

(* In the name that guard has freed, registering puts the tool. *)
LEMMA RegisterShape ==
  ASSUME HubTypes, HubServes, NEW t \in Threads, H!Register(t)
  PROVE  LET k == work[t].hub  n == work[t].arg.name IN
         /\ k \in DOMAIN hubs /\ work[t].arg \in Guards /\ pc[t] = "register"
         /\ pc' = [pc EXCEPT ![t] = "extend"] /\ work' = work /\ broken' = broken
         /\ hubs' \in Seq(Hubs) /\ DOMAIN hubs' = DOMAIN hubs /\ Len(hubs') = Len(hubs)
         /\ \A h \in DOMAIN hubs : h # k => hubs'[h] = hubs[h]
         /\ hubs'[k].lock = hubs[k].lock /\ hubs'[k].granted = hubs[k].granted
         /\ hubs'[k].registry[n] = H!ToolSpec(n, work[t].arg.flags)
         /\ \A m \in Names : m # n => hubs'[k].registry[m] = hubs[k].registry[m]
<1> DEFINE k == work[t].hub  n == work[t].arg.name  spec == H!ToolSpec(n, work[t].arg.flags)
           hub == [hubs[k] EXCEPT !.registry = [@ EXCEPT ![n] = spec]]
<1>1. k \in DOMAIN hubs /\ n \in Names /\ work[t].arg \in Guards /\ pc[t] = "register"
  <2>1. HubWorkOK(t) /\ pc[t] = "register"
    BY DEF HubTypes, H!Register
  <2> QED BY <2>1 DEF HubWorkOK, Guards
<1>2. hubs[k] \in Hubs /\ hubs[k].registry[n] = Nothing
  BY <1>1 DEF HubTypes, HubServes, NameOK
<1>3. spec \in Specs
  BY <1>1 DEF Specs, Guards
<1>4. work = [u \in Threads |-> work[u]] /\ pc \in [Threads -> Stages]
  BY DEF HubTypes
<1> HIDE DEF spec
<1>5. /\ hubs' = [hubs EXCEPT ![k] = hub] /\ broken' = broken
      /\ pc' = [pc EXCEPT ![t] = "extend"] /\ work' = [work EXCEPT ![t] = @]
  BY <1>1, <1>2 DEF HubTypes, H!Register, H!Mine, Hubs, spec
<1>6. /\ hub \in Hubs /\ hub.lock = hubs[k].lock /\ hub.granted = hubs[k].granted
      /\ hub.registry[n] = spec
      /\ \A m \in Names : m # n => hub.registry[m] = hubs[k].registry[m]
  BY <1>1, <1>2, <1>3 DEF Hubs
<1>7. work' = work
  BY <1>4, <1>5
<1> HIDE DEF hub, k, n
<1>8. /\ hubs' \in Seq(Hubs) /\ DOMAIN hubs' = DOMAIN hubs /\ Len(hubs') = Len(hubs)
      /\ \A h \in DOMAIN hubs : hubs'[h] = IF h = k THEN hub ELSE hubs[h]
  BY <1>1, <1>5, <1>6, HubEdited
<1> QED BY <1>1, <1>5, <1>6, <1>7, <1>8 DEF k, n, spec

(* Extending grants what the tool declares and frees the lock. *)
LEMMA ExtendShape ==
  ASSUME HubTypes, H!HubAssumption, NEW t \in Threads, H!Extend(t)
  PROVE  LET k == work[t].hub
             caps == H!ToolSpec(work[t].arg.name, work[t].arg.flags).caps
         IN
         /\ k \in DOMAIN hubs /\ work[t].arg \in Guards /\ pc[t] = "extend"
         /\ hubs' \in Seq(Hubs) /\ DOMAIN hubs' = DOMAIN hubs /\ Len(hubs') = Len(hubs)
         /\ \A h \in DOMAIN hubs : h # k => hubs'[h] = hubs[h]
         /\ hubs'[k].lock = Nobody /\ hubs'[k].registry = hubs[k].registry
         /\ H!Range(hubs[k].granted) \subseteq H!Range(hubs'[k].granted)
         /\ H!Range(caps) \subseteq H!Range(hubs'[k].granted)
<1> DEFINE k == work[t].hub
           caps == H!ToolSpec(work[t].arg.name, work[t].arg.flags).caps
           hub == [hubs[k] EXCEPT !.granted = @ \o caps, !.lock = Nobody]
<1>1. k \in DOMAIN hubs /\ work[t].arg \in Guards /\ pc[t] = "extend"
  <2>1. HubWorkOK(t) /\ pc[t] = "extend"
    BY DEF HubTypes, H!Extend
  <2> QED BY <2>1 DEF HubWorkOK
<1>2. hubs[k] \in Hubs /\ hubs[k].granted \in Seq(HubCaps)
  <2>1. hubs[k] \in Hubs
    BY <1>1 DEF HubTypes
  <2> QED BY <2>1 DEF Hubs
<1>3. caps \in Seq(HubCaps)
  BY <1>1, BuiltIsCovered DEF Guards
<1> HIDE DEF caps
<1>4. hubs' = [hubs EXCEPT ![k] = hub]
  BY <1>1, <1>2 DEF HubTypes, H!Extend, Hubs, caps
<1>5. /\ hub \in Hubs /\ hub.lock = Nobody /\ hub.granted = hubs[k].granted \o caps
      /\ hub.registry = hubs[k].registry
  <2>1. hubs[k].granted \o caps \in Seq(HubCaps)
    BY <1>2, <1>3
  <2>2. PICK more : more = hubs[k].granted \o caps
    OBVIOUS
  <2>3. hub = [hubs[k] EXCEPT !.granted = more, !.lock = Nobody] /\ more \in Seq(HubCaps)
    BY <2>1, <2>2
  <2> HIDE DEF hub
  <2>4. /\ hub \in Hubs /\ hub.lock = Nobody /\ hub.granted = more
        /\ hub.registry = hubs[k].registry
    BY <1>2, <2>3 DEF Hubs
  <2> QED BY <2>2, <2>4
<1> HIDE DEF hub, k
<1>6. /\ hubs' \in Seq(Hubs) /\ DOMAIN hubs' = DOMAIN hubs /\ Len(hubs') = Len(hubs)
      /\ \A h \in DOMAIN hubs : hubs'[h] = IF h = k THEN hub ELSE hubs[h]
  BY <1>1, <1>4, <1>5, HubEdited
<1>7. \A a, b \in Seq(HubCaps) : H!Range(a) \subseteq H!Range(a \o b) /\ H!Range(b) \subseteq H!Range(a \o b)
  <2> SUFFICES ASSUME NEW a \in Seq(HubCaps), NEW b \in Seq(HubCaps)
               PROVE  H!Range(a) \subseteq H!Range(a \o b) /\ H!Range(b) \subseteq H!Range(a \o b)
    OBVIOUS
  <2>1. \A i \in DOMAIN a : i \in DOMAIN (a \o b) /\ a[i] = (a \o b)[i]
    OBVIOUS
  <2>2. \A i \in DOMAIN b : Len(a) + i \in DOMAIN (a \o b) /\ b[i] = (a \o b)[Len(a) + i]
    OBVIOUS
  <2> QED BY <2>1, <2>2 DEF H!Range
<1> QED BY <1>1, <1>2, <1>3, <1>5, <1>6, <1>7 DEF k, caps

(* Observing leaves all but the marks. *)
LEMMA ObserveShape ==
  ASSUME HubTypes, NEW t \in Threads, H!Observe(t)
  PROVE  /\ pc[t] = "apply"
         /\ hubs' \in Seq(Hubs) /\ DOMAIN hubs' = DOMAIN hubs /\ Len(hubs') = Len(hubs)
         /\ \A h \in DOMAIN hubs :
              /\ hubs'[h].lock = hubs[h].lock /\ hubs'[h].registry = hubs[h].registry
              /\ hubs'[h].granted = hubs[h].granted
<1> DEFINE k == work[t].hub
           hub == [hubs[k] EXCEPT !.marks = @ \cup {work[t].arg}]
<1>1. k \in DOMAIN hubs /\ work[t].arg \in Marks /\ pc[t] = "apply"
  <2>1. HubWorkOK(t) /\ pc[t] = "apply" /\ work[t].op = "observe"
    BY DEF HubTypes, H!Observe
  <2> QED BY <2>1 DEF HubWorkOK
<1>2. hubs[k] \in Hubs /\ hubs \in Seq(Hubs)
  BY <1>1 DEF HubTypes
<1>3. hubs' = hubs \/ hubs' = [hubs EXCEPT ![k] = hub]
  BY <1>1, <1>2 DEF H!Observe, Hubs
<1>4. /\ hub \in Hubs /\ hub.lock = hubs[k].lock /\ hub.granted = hubs[k].granted
      /\ hub.registry = hubs[k].registry
  BY <1>1, <1>2 DEF Hubs
<1> HIDE DEF hub, k
<1>5. CASE hubs' = [hubs EXCEPT ![k] = hub]
  <2>1. /\ hubs' \in Seq(Hubs) /\ DOMAIN hubs' = DOMAIN hubs /\ Len(hubs') = Len(hubs)
        /\ \A h \in DOMAIN hubs : hubs'[h] = IF h = k THEN hub ELSE hubs[h]
    BY <1>1, <1>4, <1>5, HubEdited
  <2> QED BY <1>1, <1>4, <2>1
<1> QED BY <1>1, <1>2, <1>3, <1>5
-----------------------------------------------------------------------------
(* A thread that an action leaves alone stays as it was. *)
LEMMA HubWorkStays ==
  ASSUME NEW u, HubWorkOK(u), pc'[u] = pc[u], work'[u] = work[u],
         epoch \in Nat, epoch' \in Nat, epoch <= epoch', DOMAIN hubs \subseteq DOMAIN hubs'
  PROVE  HubWorkOK(u)'
<1>1. work[u] \in Works => work[u].from \in Nat
  BY DEF Works
<1>2. work[u] \in Works /\ work[u].from <= epoch => work[u].from <= epoch'
  BY <1>1
<1> QED BY <1>2 DEF HubWorkOK

(* What an action does to threads and hubs decides the types. *)
LEMMA HubTypesFrom ==
  ASSUME HubTypes, MaxSwitches \in Nat, NEW t \in Threads, NEW stage \in Stages, NEW doing,
         pc' = [pc EXCEPT ![t] = stage], work' = [work EXCEPT ![t] = doing],
         hubs' \in Seq(Hubs), DOMAIN hubs \subseteq DOMAIN hubs',
         epoch' \in 0..MaxSwitches, epoch <= epoch', HubWorkOK(t)'
  PROVE  /\ pc' \in [Threads -> Stages] /\ work' = [u \in Threads |-> work'[u]]
         /\ \A u \in Threads : HubWorkOK(u)'
         /\ tools \subseteq [hub : DOMAIN hubs', name : Names]
         /\ \A r \in ran : r.hub \in DOMAIN hubs'
<1>1. pc \in [Threads -> Stages] /\ work = [u \in Threads |-> work[u]]
  BY DEF HubTypes
<1>2. ASSUME NEW u \in Threads PROVE HubWorkOK(u)'
  <2>1. CASE u # t
    <3>1. pc'[u] = pc[u] /\ work'[u] = work[u]
      BY <1>1, <2>1
    <3>2. HubWorkOK(u) /\ epoch \in Nat /\ epoch' \in Nat
      BY DEF HubTypes
    <3> QED BY <3>1, <3>2, HubWorkStays
  <2> QED BY <2>1
<1>3. /\ tools \subseteq [hub : DOMAIN hubs, name : Names]
      /\ \A r \in ran : r.hub \in DOMAIN hubs
  BY DEF HubTypes
<1>4. tools \subseteq [hub : DOMAIN hubs', name : Names]
  <2>1. \A tool \in tools : tool \in [hub : DOMAIN hubs', name : Names]
    BY <1>3
  <2> QED BY <2>1
<1> QED BY <1>1, <1>2, <1>3, <1>4

(* What a thread does next is of its kind. *)
LEMMA UseTyped ==
  ASSUME HubTypes, H!HubAssumption, NEW t \in Threads, NEW op, NEW arg, H!Use(t, op, arg),
         \/ op = "guard" /\ arg \in Guards
         \/ op = "observe" /\ arg \in Marks
  PROVE  HubTypes'
<1>1. PICK stage : stage = IF default = 0 THEN "create" ELSE "return"
  OBVIOUS
<1>2. PICK doing : doing = H!Work(op, arg, 0, << >>, TRUE)
  OBVIOUS
<1>3. /\ stage \in {"create", "return"} /\ stage \in Stages
      /\ pc' = [pc EXCEPT ![t] = stage] /\ work' = [work EXCEPT ![t] = doing]
      /\ UNCHANGED <<hubs, default, epoch, tools, ran>> /\ ops < MaxUses /\ ops' = ops + 1
  BY <1>1, <1>2 DEF H!Use, Stages
<1>4. epoch \in Nat /\ MaxUses \in Nat /\ MaxSwitches \in Nat
  BY DEF HubTypes, H!HubAssumption
<1>5. doing \in Works /\ doing.op = op /\ doing.arg = arg /\ doing.from = epoch
  BY <1>2, <1>4 DEF H!Work, Works
<1>6. pc'[t] = stage /\ work'[t] = doing
  BY <1>3 DEF HubTypes
<1>7. HubWorkOK(t)'
  BY <1>3, <1>4, <1>5, <1>6 DEF HubWorkOK
<1>8. /\ hubs' \in Seq(Hubs) /\ DOMAIN hubs \subseteq DOMAIN hubs'
      /\ epoch' \in 0..MaxSwitches /\ epoch <= epoch'
  BY <1>3, <1>4 DEF HubTypes
<1>9. ops' \in 0..MaxUses /\ default' \in 0..Len(hubs')
  BY <1>3, <1>4 DEF HubTypes
<1> QED BY <1>3, <1>4, <1>7, <1>8, <1>9, HubTypesFrom DEF HubTypes

LEMMA CallTyped ==
  ASSUME HubTypes, H!HubAssumption, NEW t \in Threads, NEW tool \in tools, NEW kwargs \in Inputs,
         H!Call(t, tool, kwargs)
  PROVE  HubTypes'
<1> DEFINE arg == [name |-> tool.name, kwargs |-> kwargs]
           w == H!Work("call", arg, tool.hub, hubs[tool.hub].granted, TRUE)
<1>1. PICK calm : calm \in BOOLEAN /\ calm = ~\E u \in Threads : H!Guarding(u, w)
  OBVIOUS
<1>2. PICK doing : doing = [w EXCEPT !.calm = calm]
  OBVIOUS
<1>3. /\ pc' = [pc EXCEPT ![t] = "invoke"] /\ work' = [work EXCEPT ![t] = doing]
      /\ UNCHANGED <<hubs, default, epoch, tools, ran>> /\ ops < MaxUses /\ ops' = ops + 1
  BY <1>1, <1>2 DEF H!Call
<1>4. epoch \in Nat /\ MaxUses \in Nat /\ MaxSwitches \in Nat
  BY DEF HubTypes, H!HubAssumption
<1>5. /\ tool.hub \in DOMAIN hubs /\ tool.hub \in Nat /\ arg \in FunctionCalls
      /\ hubs[tool.hub].granted \in Seq(HubCaps)
  <2>1. tool \in [hub : DOMAIN hubs, name : Names] /\ hubs \in Seq(Hubs)
    BY DEF HubTypes
  <2>2. hubs[tool.hub] \in Hubs
    BY <2>1
  <2> QED BY <2>1, <2>2 DEF FunctionCalls, Hubs
<1> HIDE DEF arg
<1>6. doing = [op |-> "call", arg |-> arg, hub |-> tool.hub, from |-> epoch,
               held |-> hubs[tool.hub].granted, calm |-> calm]
  BY <1>2 DEF H!Work
<1>7. /\ doing \in Works /\ doing.op = "call" /\ doing.arg \in FunctionCalls
      /\ doing.from = epoch /\ doing.hub \in DOMAIN hubs
  BY <1>1, <1>4, <1>5, <1>6 DEF Works
<1>8. pc'[t] = "invoke" /\ work'[t] = doing
  BY <1>3 DEF HubTypes
<1>9. HubWorkOK(t)'
  BY <1>3, <1>4, <1>7, <1>8 DEF HubWorkOK
<1>10. /\ hubs' \in Seq(Hubs) /\ DOMAIN hubs \subseteq DOMAIN hubs'
       /\ epoch' \in 0..MaxSwitches /\ epoch <= epoch' /\ "invoke" \in Stages
  BY <1>3, <1>4 DEF HubTypes, Stages
<1>11. ops' \in 0..MaxUses /\ default' \in 0..Len(hubs')
  BY <1>3, <1>4 DEF HubTypes
<1> QED BY <1>3, <1>4, <1>9, <1>10, <1>11, HubTypesFrom DEF HubTypes

LEMMA HubTypesKept ==
  ASSUME HubTypes, HubServes, H!HubAssumption, H!Next
  PROVE  HubTypes'
<1>1. /\ epoch \in Nat /\ MaxUses \in Nat /\ MaxSwitches \in Nat /\ hubs \in Seq(Hubs)
      /\ Len(hubs) \in Nat /\ DOMAIN hubs = 1..Len(hubs) /\ epoch \in 0..MaxSwitches
      /\ default \in 0..Len(hubs) /\ ops \in 0..MaxUses
  BY DEF HubTypes, H!HubAssumption
<1>2. CASE H!Reset
  <2>1. /\ UNCHANGED <<hubs, pc, work, tools, ops, uses, ran>> /\ default' = 0
        /\ epoch' = epoch + 1 /\ epoch < MaxSwitches
    BY <1>2 DEF H!Reset
  <2>2. \A u \in Threads : HubWorkOK(u)'
    BY <1>1, <2>1, HubWorkStays DEF HubTypes
  <2> QED BY <1>1, <2>1, <2>2 DEF HubTypes
<1>3. ASSUME NEW t \in Threads, H!Create(t) PROVE HubTypes'
  <2>1. /\ pc[t] = "create" /\ pc' = [pc EXCEPT ![t] = "return"] /\ UNCHANGED <<epoch, work, tools, ops, ran>>
        /\ \/ hubs' = Append(hubs, H!NewHub) /\ default' = Len(hubs) + 1
           \/ UNCHANGED <<hubs, default>>
    BY <1>3 DEF H!Create
  <2>2. /\ hubs' \in Seq(Hubs) /\ DOMAIN hubs \subseteq DOMAIN hubs' /\ default' \in 0..Len(hubs')
    BY <1>1, <2>1, HubMade
  <2>3. /\ work' = [work EXCEPT ![t] = work[t]] /\ pc'[t] = "return"
        /\ "return" \in Stages /\ epoch' \in 0..MaxSwitches /\ epoch <= epoch'
    BY <1>1, <2>1 DEF HubTypes, Stages
  <2>4. HubWorkOK(t)'
    BY <2>1, <2>3 DEF HubTypes, HubWorkOK
  <2> QED BY <1>1, <2>1, <2>2, <2>3, <2>4, HubTypesFrom DEF HubTypes
<1>4. ASSUME NEW t \in Threads, H!Return(t) PROVE HubTypes'
  <2>1. PICK done : done \in BOOLEAN /\ done = (default = 0 \/ work[t].op = "configure")
    OBVIOUS
  <2>2. PICK stage, doing : /\ stage = IF done THEN "idle" ELSE "apply"
                            /\ doing = IF done THEN H!Idle ELSE [work[t] EXCEPT !.hub = default]
    OBVIOUS
  <2>3. /\ pc[t] = "return" /\ pc' = [pc EXCEPT ![t] = stage] /\ work' = [work EXCEPT ![t] = doing]
        /\ UNCHANGED <<hubs, default, epoch, tools, ops, ran>>
    BY <1>4, <2>1, <2>2 DEF H!Return
  <2>4. HubWorkOK(t)'
    <3>1. /\ HubWorkOK(t) /\ pc'[t] = stage /\ work'[t] = doing
      BY <2>3 DEF HubTypes
    <3>2. CASE done
      BY <3>1, <3>2, <2>2 DEF HubWorkOK
    <3>3. CASE ~done
      <4>0. default # 0 /\ work[t].op # "configure"
        BY <2>1, <3>3
      <4>1. default \in DOMAIN hubs /\ default \in Nat /\ work[t] \in Works
        BY <1>1, <2>3, <3>1, <4>0 DEF HubWorkOK
      <4>2. /\ doing \in Works /\ doing.op = work[t].op /\ doing.arg = work[t].arg
            /\ doing.from = work[t].from /\ doing.hub = default
        BY <2>2, <3>3, <4>1 DEF Works
      <4>3. stage = "apply" /\ work[t].op \in {"guard", "observe"}
        BY <2>2, <2>3, <3>1, <3>3, <4>0, <4>1 DEF HubWorkOK, Works
      <4> QED BY <2>3, <3>1, <4>1, <4>2, <4>3 DEF HubWorkOK
    <3> QED BY <2>1, <3>2, <3>3
  <2>5. stage \in Stages /\ epoch' \in 0..MaxSwitches /\ epoch <= epoch'
    BY <1>1, <2>2, <2>3 DEF Stages
  <2> QED BY <1>1, <2>3, <2>4, <2>5, HubTypesFrom DEF HubTypes
<1>5. ASSUME NEW t \in Threads, H!Configure(t) PROVE HubTypes'
  <2>1. PICK doing : doing = [H!Work("configure", Nothing, 0, << >>, TRUE) EXCEPT !.from = epoch + 1]
    OBVIOUS
  <2>2. /\ hubs' = Append(hubs, H!NewHub) /\ default' = Len(hubs) + 1 /\ epoch < MaxSwitches
        /\ epoch' = epoch + 1 /\ pc' = [pc EXCEPT ![t] = "return"] /\ work' = [work EXCEPT ![t] = doing]
        /\ UNCHANGED <<tools, ops, ran>>
    BY <1>5, <2>1 DEF H!Configure
  <2>3. /\ hubs' \in Seq(Hubs) /\ DOMAIN hubs \subseteq DOMAIN hubs' /\ default' \in 0..Len(hubs')
        /\ "return" \in Stages /\ epoch' \in 0..MaxSwitches /\ epoch <= epoch'
    BY <1>1, <2>2, HubMade DEF Stages
  <2>4. HubWorkOK(t)'
    <3>1. pc'[t] = "return" /\ work'[t] = doing
      BY <2>2 DEF HubTypes
    <3>2. doing \in Works /\ doing.op = "configure" /\ doing.from = epoch + 1
      <4>1. doing = [op |-> "configure", arg |-> Nothing, hub |-> 0, from |-> epoch + 1,
                     held |-> << >>, calm |-> TRUE]
        BY <2>1 DEF H!Work
      <4>2. << >> \in Seq(HubCaps) /\ epoch + 1 \in Nat
        BY <1>1
      <4> QED BY <4>1, <4>2 DEF Works
    <3> QED BY <1>1, <2>2, <3>1, <3>2 DEF HubWorkOK
  <2> QED BY <1>1, <2>2, <2>3, <2>4, HubTypesFrom DEF HubTypes
<1>6. ASSUME NEW t \in Threads, H!Observe(t) PROVE HubTypes'
  <2>1. /\ pc' = [pc EXCEPT ![t] = "idle"] /\ work' = [work EXCEPT ![t] = H!Idle]
        /\ UNCHANGED <<default, epoch, tools, ops, ran>> /\ "idle" \in Stages
    BY <1>6 DEF H!Observe, Stages
  <2>2. hubs' \in Seq(Hubs) /\ DOMAIN hubs' = DOMAIN hubs /\ Len(hubs') = Len(hubs)
    BY <1>6, ObserveShape
  <2>3. pc'[t] = "idle" /\ epoch' \in 0..MaxSwitches /\ epoch <= epoch'
    BY <1>1, <2>1 DEF HubTypes
  <2>4. HubWorkOK(t)'
    BY <2>3 DEF HubWorkOK
  <2> QED BY <1>1, <2>1, <2>2, <2>3, <2>4, HubTypesFrom DEF HubTypes
<1>7. ASSUME NEW t \in Threads, H!Unregister(t) PROVE HubTypes'
  <2>1. /\ pc' = [pc EXCEPT ![t] = "register"] /\ UNCHANGED <<default, epoch, tools, ops, ran>>
        /\ work' = [u \in Threads |-> IF H!Calling(u, work[t]) THEN [work[u] EXCEPT !.calm = FALSE] ELSE work[u]]
        /\ pc[t] = "apply" /\ work[t].op = "guard"
    BY <1>7 DEF H!Unregister
  <2>2. hubs' \in Seq(Hubs) /\ DOMAIN hubs' = DOMAIN hubs /\ Len(hubs') = Len(hubs)
    BY <1>7, UnregisterShape
  <2>3. pc' \in [Threads -> Stages] /\ work' = [u \in Threads |-> work'[u]]
    BY <2>1 DEF HubTypes, Stages
  <2>4. ASSUME NEW u \in Threads PROVE HubWorkOK(u)'
    <3>1. HubWorkOK(u) /\ pc'[u] = IF u = t THEN "register" ELSE pc[u]
      BY <2>1 DEF HubTypes
    <3>2. CASE H!Calling(u, work[t])
      <4>1. pc[u] = "invoke" /\ u # t /\ work'[u] = [work[u] EXCEPT !.calm = FALSE]
        BY <2>1, <3>2 DEF H!Calling
      <4>2. work[u] \in Works
        BY <3>1, <4>1 DEF HubWorkOK
      <4>3. /\ work'[u] \in Works /\ work'[u].op = work[u].op /\ work'[u].arg = work[u].arg
            /\ work'[u].hub = work[u].hub /\ work'[u].from = work[u].from
        BY <4>1, <4>2 DEF Works
      <4> QED BY <2>1, <2>2, <3>1, <4>1, <4>3 DEF HubWorkOK
    <3>3. CASE ~H!Calling(u, work[t])
      <4>1. work'[u] = work[u]
        BY <2>1, <3>3
      <4> QED BY <2>1, <2>2, <3>1, <4>1 DEF HubWorkOK
    <3> QED BY <3>2, <3>3
  <2> QED BY <1>1, <2>1, <2>2, <2>3, <2>4 DEF HubTypes
<1>8. ASSUME NEW t \in Threads, H!Register(t) PROVE HubTypes'
  <2>1. /\ hubs' \in Seq(Hubs) /\ DOMAIN hubs' = DOMAIN hubs /\ Len(hubs') = Len(hubs)
        /\ pc[t] = "register" /\ pc' = [pc EXCEPT ![t] = "extend"] /\ work' = work
    BY <1>8, RegisterShape
  <2>2. UNCHANGED <<default, epoch, tools, ops, ran>> /\ "extend" \in Stages
    BY <1>8 DEF H!Register, Stages
  <2>3. /\ work' = [work EXCEPT ![t] = work[t]] /\ pc'[t] = "extend"
        /\ epoch' \in 0..MaxSwitches /\ epoch <= epoch'
    BY <1>1, <2>1, <2>2 DEF HubTypes
  <2>4. HubWorkOK(t)'
    BY <2>1, <2>2, <2>3 DEF HubTypes, HubWorkOK
  <2> QED BY <1>1, <2>1, <2>2, <2>3, <2>4, HubTypesFrom DEF HubTypes
<1>9. ASSUME NEW t \in Threads, H!Extend(t) PROVE HubTypes'
  <2>1. /\ pc' = [pc EXCEPT ![t] = "idle"] /\ work' = [work EXCEPT ![t] = H!Idle]
        /\ UNCHANGED <<default, epoch, ops, ran>> /\ "idle" \in Stages
        /\ tools' = tools \cup {[hub |-> work[t].hub, name |-> work[t].arg.name]}
    BY <1>9 DEF H!Extend, Stages
  <2>2. /\ hubs' \in Seq(Hubs) /\ DOMAIN hubs' = DOMAIN hubs /\ Len(hubs') = Len(hubs)
        /\ work[t].hub \in DOMAIN hubs /\ work[t].arg \in Guards
    BY <1>9, ExtendShape
  <2>3. pc'[t] = "idle" /\ epoch' \in 0..MaxSwitches /\ epoch <= epoch'
    BY <1>1, <2>1 DEF HubTypes
  <2>4. HubWorkOK(t)'
    BY <2>3 DEF HubWorkOK
  <2>5. /\ pc' \in [Threads -> Stages] /\ work' = [u \in Threads |-> work'[u]]
        /\ \A u \in Threads : HubWorkOK(u)'
        /\ tools \subseteq [hub : DOMAIN hubs', name : Names]
        /\ \A r \in ran : r.hub \in DOMAIN hubs'
    BY <1>1, <2>1, <2>2, <2>3, <2>4, HubTypesFrom
  <2>6. tools' \subseteq [hub : DOMAIN hubs', name : Names]
    <3>1. work[t].arg.name \in Names
      BY <2>2 DEF Guards
    <3> QED BY <2>1, <2>2, <2>5, <3>1
  <2> QED BY <1>1, <2>1, <2>2, <2>3, <2>5, <2>6 DEF HubTypes
<1>10. ASSUME NEW t \in Threads, H!Invoke(t) PROVE HubTypes'
  <2>1. /\ pc[t] = "invoke" /\ pc' = [pc EXCEPT ![t] = "idle"] /\ work' = [work EXCEPT ![t] = H!Idle]
        /\ UNCHANGED <<hubs, default, epoch, tools, ops>> /\ "idle" \in Stages
        /\ \A r \in ran' : r \in ran \/ r.hub = work[t].hub
    BY <1>10 DEF H!Invoke, Stages
  <2>2. pc'[t] = "idle" /\ epoch' \in 0..MaxSwitches /\ epoch <= epoch'
    BY <1>1, <2>1 DEF HubTypes
  <2>3. HubWorkOK(t)' /\ work[t].hub \in DOMAIN hubs
    BY <2>1, <2>2 DEF HubTypes, HubWorkOK
  <2>4. \A r \in ran' : r.hub \in DOMAIN hubs'
    BY <2>1, <2>3 DEF HubTypes
  <2> QED BY <1>1, <2>1, <2>2, <2>3, <2>4, HubTypesFrom DEF HubTypes
<1>11. ASSUME NEW t \in Threads, NEW n \in Names, NEW flags \in Declarations,
              H!Use(t, "guard", [name |-> n, flags |-> flags])
       PROVE  HubTypes'
  BY <1>11, UseTyped DEF Guards
<1>12. ASSUME NEW t \in Threads, NEW m \in Marks, H!Use(t, "observe", m) PROVE HubTypes'
  BY <1>12, UseTyped
<1> QED BY <1>2, <1>3, <1>4, <1>5, <1>6, <1>7, <1>8, <1>9, <1>10, <1>11, <1>12, CallTyped DEF H!Next
-----------------------------------------------------------------------------
(* A thread that keeps out of guard. *)
KeepsOut(u) ==
  \/ pc'[u] = pc[u] /\ work'[u] = work[u]
  \/ pc[u] \notin {"register", "extend"} /\ pc'[u] \notin {"register", "extend"}

(* While all do, nobody enters or leaves guard. *)
LEMMA GuardsStay ==
  ASSUME HubTypes, \A u \in Threads : KeepsOut(u)
  PROVE  /\ \A h : \A u \in Threads : AtGuard(u, h)' <=> AtGuard(u, h)
         /\ \A h, n : Unguarded(h, n)' <=> Unguarded(h, n)
         /\ \A h : \A u \in Threads : AtGuard(u, h) => h \in DOMAIN hubs
<1>1. ASSUME NEW u \in Threads, NEW h
      PROVE  /\ AtGuard(u, h)' <=> AtGuard(u, h)
             /\ AtGuard(u, h) => work'[u] = work[u] /\ h \in DOMAIN hubs
  <2>1. KeepsOut(u) /\ HubWorkOK(u)
    BY DEF HubTypes
  <2> QED BY <2>1 DEF KeepsOut, AtGuard, HubWorkOK
<1> QED BY <1>1 DEF Unguarded

(* So the locks stay as they are. *)
LEMMA LocksStay ==
  ASSUME HubTypes, HubLocks, H!HubAssumption, \A u \in Threads : KeepsOut(u),
         \A h \in DOMAIN hubs' : IF h \in DOMAIN hubs THEN hubs'[h].lock = hubs[h].lock
                                 ELSE hubs'[h].lock = Nobody
  PROVE  HubLocks'
<1>1. ASSUME NEW h \in DOMAIN hubs'
      PROVE  /\ \A t \in Threads : AtGuard(t, h)' => hubs'[h].lock = t
             /\ (hubs[h].lock \in Threads => AtGuard(hubs[h].lock, h))'
  <2>1. \A u \in Threads : (AtGuard(u, h)' <=> AtGuard(u, h)) /\ (AtGuard(u, h) => h \in DOMAIN hubs)
    BY GuardsStay
  <2>2. CASE h \in DOMAIN hubs
    <3>1. PICK l : l = hubs[h].lock
      OBVIOUS
    <3>2. hubs'[h].lock = l
      BY <2>2, <3>1
    <3>3. (\A t \in Threads : AtGuard(t, h) => l = t) /\ (l \in Threads => AtGuard(l, h))
      BY <2>2, <3>1 DEF HubLocks
    <3>4. l \in Threads => AtGuard(l, h)'
      BY <2>1, <3>3
    <3> QED BY <2>1, <3>2, <3>3, <3>4
  <2>3. CASE h \notin DOMAIN hubs
    BY <2>1, <2>3 DEF H!HubAssumption
  <2> QED BY <2>2, <2>3
<1> QED BY <1>1 DEF HubLocks

(* And so does what is served, as long as the hubs keep their tools and    *)
(* grants, and who calls holds what it should.                             *)
LEMMA ServesStay ==
  ASSUME HubTypes, HubServes, \A u \in Threads : KeepsOut(u),
         \A h \in DOMAIN hubs : /\ h \in DOMAIN hubs' /\ hubs'[h].registry = hubs[h].registry
                                /\ hubs'[h].granted = hubs[h].granted,
         tools' = tools, broken' = broken,
         \A u \in Threads : (pc'[u] = pc[u] /\ work'[u] = work[u]) \/ CallOK(u)'
  PROVE  HubServes'
<1>1. \A h \in DOMAIN hubs : \A n, have : Served(h, n, have)' <=> Served(h, n, have)
  BY DEF Served
<1>2. \A h, n : Unguarded(h, n)' <=> Unguarded(h, n)
  BY GuardsStay
<1>3. ASSUME NEW u \in Threads PROVE NameOK(u)'
  <2>1. KeepsOut(u) /\ HubWorkOK(u) /\ NameOK(u)
    BY DEF HubTypes, HubServes
  <2> QED BY <2>1 DEF KeepsOut, NameOK, HubWorkOK
<1>4. ASSUME NEW u \in Threads, pc'[u] = pc[u], work'[u] = work[u] PROVE CallOK(u)'
  <2>1. HubWorkOK(u) /\ CallOK(u)
    BY DEF HubTypes, HubServes
  <2>2. PICK w : w = work[u]
    OBVIOUS
  <2>3. CASE pc[u] = "invoke"
    <3>1. w.hub \in DOMAIN hubs
      BY <2>1, <2>2, <2>3 DEF HubWorkOK
    <3>2. /\ H!Range(w.held) \subseteq H!Range(hubs[w.hub].granted)
          /\ w.calm => Unguarded(w.hub, w.arg.name) /\ Served(w.hub, w.arg.name, w.held)
      BY <2>1, <2>2, <2>3 DEF CallOK
    <3>3. /\ H!Range(w.held) \subseteq H!Range(hubs'[w.hub].granted)
          /\ w.calm => Unguarded(w.hub, w.arg.name)' /\ Served(w.hub, w.arg.name, w.held)'
      BY <1>1, <1>2, <3>1, <3>2
    <3>4. work'[u] = w
      BY <1>4, <2>2
    <3> QED BY <3>3, <3>4 DEF CallOK
  <2> QED BY <1>4, <2>3 DEF CallOK
<1>5. ASSUME NEW tool \in tools, Unguarded(tool.hub, tool.name)'
      PROVE  Served(tool.hub, tool.name, hubs[tool.hub].granted)'
  <2>1. tool.hub \in DOMAIN hubs
    BY DEF HubTypes
  <2>2. Served(tool.hub, tool.name, hubs[tool.hub].granted)
    BY <1>2, <1>5 DEF HubServes
  <2>3. PICK have : have = hubs[tool.hub].granted
    OBVIOUS
  <2>4. hubs'[tool.hub].granted = have
    BY <2>1, <2>3
  <2>5. Served(tool.hub, tool.name, have)'
    BY <1>1, <2>1, <2>2, <2>3
  <2> QED BY <2>4, <2>5
<1> QED BY <1>3, <1>4, <1>5 DEF HubServes

(* A step outside guard keeps both. *)
LEMMA OutsideKeeps ==
  ASSUME HubTypes, HubLocks, HubServes, H!HubAssumption,
         NEW t \in Threads, NEW stage, NEW doing,
         {pc[t], stage} \cap {"register", "extend"} = {},
         pc' = [pc EXCEPT ![t] = stage], work' = [work EXCEPT ![t] = doing],
         DOMAIN hubs \subseteq DOMAIN hubs',
         \A h \in DOMAIN hubs : /\ hubs'[h].lock = hubs[h].lock
                                /\ hubs'[h].registry = hubs[h].registry
                                /\ hubs'[h].granted = hubs[h].granted,
         \A h \in DOMAIN hubs' \ DOMAIN hubs : hubs'[h].lock = Nobody,
         tools' = tools, broken' = broken, stage # "invoke" \/ CallOK(t)'
  PROVE  HubLocks' /\ HubServes'
<1>1. pc \in [Threads -> Stages] /\ work = [u \in Threads |-> work[u]]
  BY DEF HubTypes
<1>2. pc'[t] = stage /\ \A u \in Threads : u # t => pc'[u] = pc[u] /\ work'[u] = work[u]
  BY <1>1
<1>3. \A u \in Threads : KeepsOut(u)
  BY <1>2 DEF KeepsOut
<1>4. CallOK(t)'
  BY <1>2 DEF CallOK
<1>5. HubLocks'
  BY <1>3, LocksStay
<1>6. \A u \in Threads : (pc'[u] = pc[u] /\ work'[u] = work[u]) \/ CallOK(u)'
  BY <1>2, <1>4
<1>7. HubServes'
  BY <1>3, <1>6, ServesStay
<1> QED BY <1>5, <1>7

(* A tool is let through, or handed to a human, that is served by what the *)
(* call holds.                                                             *)
LEMMA ServedIsLetThrough ==
  ASSUME H!HubAssumption, NEW hub, NEW w, w.arg.name \in Names, NEW f \in Declarations,
         hub.registry[w.arg.name] = H!ToolSpec(w.arg.name, f),
         H!Range(H!ToolSpec(w.arg.name, f).caps) \subseteq H!Range(w.held)
  PROVE  H!Outcome(hub, w) \notin {"unknown", "deny"}
<1>1. PICK tool : tool = hub.registry[w.arg.name] /\ tool = H!ToolSpec(w.arg.name, f)
  OBVIOUS
<1>2. tool # Nothing
  BY <1>1 DEF H!HubAssumption
<1>3. tool.caps # << >> /\ \A i \in DOMAIN tool.caps : H!Covers(tool.caps[i], tool.caps[i])
  BY <1>1, BuiltIsCovered
<1>4. H!AllCovered(w.held, tool.caps)
  <2>1. ASSUME NEW i \in DOMAIN tool.caps PROVE H!HeldCovers(w.held, tool.caps[i])
    <3>1. tool.caps[i] \in H!Range(w.held)
      BY <1>1 DEF H!Range
    <3>2. PICK j \in DOMAIN w.held : w.held[j] = tool.caps[i]
      BY <3>1 DEF H!Range
    <3> QED BY <1>3, <3>2 DEF H!HeldCovers
  <2> QED BY <2>1 DEF H!AllCovered
<1>5. H!Evaluate(w.held, tool, TRUE, RiskCeiling) \in {"allow", "require_approval"}
  BY <1>3, <1>4 DEF H!Evaluate
<1>6. PICK verdict : verdict = H!Evaluate(w.held, tool, TRUE, RiskCeiling)
  OBVIOUS
<1>7. H!Outcome(hub, w) \in {verdict, "ran", "violation"}
  BY <1>1, <1>2, <1>6 DEF H!Outcome
<1> QED BY <1>5, <1>6, <1>7

(* A call that began while nobody guarded its tool finds what it needs. *)
LEMMA CalmCallsAreLetThrough ==
  ASSUME HubTypes, HubServes, H!HubAssumption, NEW t \in Threads, H!Invoke(t)
  PROVE  broken' = broken
<1>1. pc[t] = "invoke" /\ HubWorkOK(t) /\ CallOK(t)
  BY DEF H!Invoke, HubTypes, HubServes
<1>2. work[t].arg.name \in Names
  BY <1>1 DEF HubWorkOK, FunctionCalls
<1>3. work[t].calm => H!Outcome(H!Mine(t), work[t]) \notin {"unknown", "deny"}
  <2> SUFFICES ASSUME work[t].calm PROVE H!Outcome(H!Mine(t), work[t]) \notin {"unknown", "deny"}
    OBVIOUS
  <2>1. Served(work[t].hub, work[t].arg.name, work[t].held)
    BY <1>1 DEF CallOK
  <2>2. PICK f \in Declarations :
          /\ H!Mine(t).registry[work[t].arg.name] = H!ToolSpec(work[t].arg.name, f)
          /\ H!Range(H!ToolSpec(work[t].arg.name, f).caps) \subseteq H!Range(work[t].held)
    BY <2>1 DEF Served, H!Mine
  <2> QED BY <1>2, <2>2, ServedIsLetThrough
<1>4. PICK outcome : outcome = H!Outcome(H!Mine(t), work[t])
  OBVIOUS
<1> QED BY <1>3, <1>4 DEF H!Invoke

(* Who calls a tool holds what the tool is served with. *)
LEMMA CallKeeps ==
  ASSUME HubTypes, HubLocks, HubServes, H!HubAssumption,
         NEW t \in Threads, NEW tool \in tools, NEW kwargs \in Inputs, H!Call(t, tool, kwargs)
  PROVE  HubLocks' /\ HubServes'
<1> DEFINE w == H!Work("call", [name |-> tool.name, kwargs |-> kwargs], tool.hub,
                     hubs[tool.hub].granted, TRUE)
<1>1. PICK calm : calm = ~\E u \in Threads : H!Guarding(u, w)
  OBVIOUS
<1>2. PICK doing : doing = [w EXCEPT !.calm = calm]
  OBVIOUS
<1>3. /\ pc[t] = "idle" /\ pc' = [pc EXCEPT ![t] = "invoke"] /\ work' = [work EXCEPT ![t] = doing]
      /\ UNCHANGED <<hubs, tools, broken>>
  BY <1>1, <1>2 DEF H!Call
<1>4. /\ doing.hub = tool.hub /\ doing.arg.name = tool.name /\ doing.calm = calm
      /\ doing.held = hubs[tool.hub].granted /\ w.hub = tool.hub /\ w.arg.name = tool.name
  BY <1>2 DEF H!Work
<1> HIDE DEF w
<1>5. calm => Unguarded(tool.hub, tool.name)
  BY <1>1, <1>4 DEF H!Guarding, H!SameTool, Unguarded, AtGuard
<1>6. pc'[t] = "invoke" /\ work'[t] = doing
      /\ \A u \in Threads : u # t => pc'[u] = pc[u] /\ work'[u] = work[u]
  BY <1>3 DEF HubTypes
<1>7. \A h, n : Unguarded(h, n)' <=> Unguarded(h, n)
  <2>1. \A u \in Threads : KeepsOut(u)
    BY <1>3, <1>6 DEF KeepsOut
  <2> QED BY <2>1, GuardsStay
<1>8. calm => Served(tool.hub, tool.name, doing.held)
  BY <1>4, <1>5 DEF HubServes
<1>9. \A have : Served(tool.hub, tool.name, have)' <=> Served(tool.hub, tool.name, have)
  BY <1>3 DEF Served
<1>10. CallOK(t)'
  <2>1. H!Range(doing.held) \subseteq H!Range(hubs'[doing.hub].granted)
    BY <1>3, <1>4
  <2>2. doing.calm => Unguarded(doing.hub, doing.arg.name)' /\ Served(doing.hub, doing.arg.name, doing.held)'
    BY <1>4, <1>5, <1>7, <1>8, <1>9
  <2> QED BY <1>6, <2>1, <2>2 DEF CallOK
<1> QED BY <1>3, <1>10, OutsideKeeps

(* Entering guard frees a name, which no calm call then relies on. *)
LEMMA UnregisterKeeps ==
  ASSUME HubTypes, HubLocks, HubServes, H!HubAssumption, NEW t \in Threads, H!Unregister(t)
  PROVE  HubLocks' /\ HubServes'
<1>1. PICK k, n : k = work[t].hub /\ n = work[t].arg.name
  OBVIOUS
<1>2. /\ k \in DOMAIN hubs /\ n \in Names /\ hubs[k].lock = Nobody /\ pc[t] = "apply"
      /\ DOMAIN hubs' = DOMAIN hubs
      /\ \A h \in DOMAIN hubs : h # k => hubs'[h] = hubs[h]
      /\ hubs'[k].lock = t /\ hubs'[k].granted = hubs[k].granted
      /\ hubs'[k].registry[n] = Nothing
      /\ \A m \in Names : m # n => hubs'[k].registry[m] = hubs[k].registry[m]
  BY <1>1, UnregisterShape
<1>3. /\ pc' = [pc EXCEPT ![t] = "register"]
      /\ work' = [u \in Threads |-> IF H!Calling(u, work[t]) THEN [work[u] EXCEPT !.calm = FALSE] ELSE work[u]]
      /\ UNCHANGED <<tools, broken>>
  BY DEF H!Unregister
<1>4. /\ pc'[t] = "register" /\ \A u \in Threads : u # t => pc'[u] = pc[u]
  BY <1>3 DEF HubTypes
<1>5. ASSUME NEW u \in Threads
      PROVE  /\ pc[u] # "invoke" => work'[u] = work[u]
             /\ pc[u] = "invoke" => /\ work'[u].hub = work[u].hub /\ work'[u].arg = work[u].arg
                                    /\ work'[u].held = work[u].held
                                    /\ work'[u].calm => work[u].calm /\ (work[u].hub # k \/ work[u].arg.name # n)
  <2>1. work'[u] = IF H!Calling(u, work[t]) THEN [work[u] EXCEPT !.calm = FALSE] ELSE work[u]
    BY <1>3
  <2>2. H!Calling(u, work[t]) <=> pc[u] = "invoke" /\ work[u].hub = k /\ work[u].arg.name = n
    BY <1>1 DEF H!Calling, H!SameTool
  <2>3. HubWorkOK(u)
    BY DEF HubTypes
  <2>4. CASE pc[u] = "invoke"
    <3>1. work[u] \in Works
      BY <2>3, <2>4 DEF HubWorkOK
    <3>2. CASE H!Calling(u, work[t])
      BY <2>1, <2>4, <3>1, <3>2 DEF Works
    <3>3. CASE ~H!Calling(u, work[t])
      BY <2>1, <2>2, <2>4, <3>3
    <3> QED BY <3>2, <3>3
  <2>5. CASE pc[u] # "invoke"
    BY <2>1, <2>2, <2>5
  <2> QED BY <2>4, <2>5
<1>6. \A u \in Threads : ~AtGuard(u, k)
  BY <1>2 DEF HubLocks, H!HubAssumption
<1>7. ASSUME NEW u \in Threads, NEW h
      PROVE  /\ u # t => (AtGuard(u, h)' <=> AtGuard(u, h)) /\ (AtGuard(u, h) => work'[u] = work[u])
             /\ AtGuard(t, h)' <=> h = k
  <2>1. work'[t] = work[t]
    BY <1>2, <1>5
  <2>2. pc[u] \in {"register", "extend"} => work'[u] = work[u]
    BY <1>5
  <2> QED BY <1>1, <1>4, <2>1, <2>2 DEF AtGuard
<1>8. HubLocks'
  <2>1. ASSUME NEW h \in DOMAIN hubs
        PROVE  /\ \A u \in Threads : AtGuard(u, h)' => hubs'[h].lock = u
               /\ (hubs[h].lock \in Threads => AtGuard(hubs[h].lock, h))'
    <3>1. CASE h = k
      <4>1. AtGuard(t, k)'
        BY <1>7
      <4> QED BY <1>2, <1>6, <1>7, <3>1, <4>1
    <3>2. CASE h # k
      <4>1. PICK l : l = hubs[h].lock
        OBVIOUS
      <4>2. hubs'[h].lock = l
        BY <1>2, <3>2, <4>1
      <4>3. (\A u \in Threads : AtGuard(u, h) => l = u) /\ (l \in Threads => AtGuard(l, h))
        BY <4>1 DEF HubLocks
      <4>4. (\A u \in Threads : AtGuard(u, h)' => l = u)
        BY <1>7, <3>2, <4>3
      <4>5. l \in Threads => AtGuard(l, h)'
        <5>1. ~AtGuard(t, h)
          BY <1>2 DEF AtGuard
        <5> QED BY <1>7, <4>3, <5>1
      <4> QED BY <4>2, <4>4, <4>5
    <3> QED BY <3>1, <3>2
  <2> QED BY <1>2, <2>1 DEF HubLocks
<1>9. ASSUME NEW h \in DOMAIN hubs, NEW m \in Names
      PROVE  /\ Unguarded(h, m)' => Unguarded(h, m) /\ (h # k \/ m # n)
             /\ Unguarded(h, m) /\ (h # k \/ m # n) => Unguarded(h, m)'
             /\ h # k \/ m # n => /\ hubs'[h].registry[m] = hubs[h].registry[m]
                                  /\ \A have : Served(h, m, have)' <=> Served(h, m, have)
  <2>1. h # k \/ m # n => hubs'[h].registry[m] = hubs[h].registry[m]
    BY <1>2
  <2>2. h # k \/ m # n => \A have : Served(h, m, have)' <=> Served(h, m, have)
    BY <2>1 DEF Served
  <2>3. work'[t] = work[t]
    BY <1>2, <1>5
  <2>4. Unguarded(h, m)' <=> \A u \in Threads : AtGuard(u, h)' => work'[u].arg.name # m
    BY DEF Unguarded
  <2>5. Unguarded(h, m) <=> \A u \in Threads : AtGuard(u, h) => work[u].arg.name # m
    BY DEF Unguarded
  <2>6. ~AtGuard(t, h)
    BY <1>2 DEF AtGuard
  <2>7. Unguarded(h, m)' => Unguarded(h, m) /\ (h # k \/ m # n)
    BY <1>1, <1>7, <2>3, <2>4, <2>5, <2>6
  <2>8. Unguarded(h, m) /\ (h # k \/ m # n) => Unguarded(h, m)'
    BY <1>1, <1>7, <2>3, <2>4, <2>5
  <2> QED BY <2>1, <2>2, <2>7, <2>8
<1>10. HubServes'
  <2>1. ASSUME NEW u \in Threads PROVE NameOK(u)'
    <3>1. CASE u = t
      <4>1. work'[t] = work[t]
        BY <1>2, <1>5
      <4> QED BY <1>1, <1>2, <1>4, <3>1, <4>1 DEF NameOK
    <3>2. CASE u # t /\ pc[u] \in {"register", "extend"}
      <4>1. /\ pc'[u] = pc[u] /\ work'[u] = work[u] /\ work[u].hub # k /\ NameOK(u)
            /\ work[u].hub \in DOMAIN hubs
        BY <1>4, <1>5, <1>6, <3>2 DEF AtGuard, HubServes, HubTypes, HubWorkOK
      <4> QED BY <1>2, <4>1 DEF NameOK
    <3>3. CASE u # t /\ pc[u] \notin {"register", "extend"}
      BY <1>4, <3>3 DEF NameOK
    <3> QED BY <3>1, <3>2, <3>3
  <2>2. ASSUME NEW u \in Threads PROVE CallOK(u)'
    <3>1. CASE pc[u] = "invoke"
      <4>1. PICK h, m, have : h = work[u].hub /\ m = work[u].arg.name /\ have = work[u].held
        OBVIOUS
      <4>2. work'[u].hub = h /\ work'[u].arg.name = m /\ work'[u].held = have
            /\ (work'[u].calm => work[u].calm /\ (h # k \/ m # n))
        BY <1>5, <3>1, <4>1
      <4>3. h \in DOMAIN hubs /\ m \in Names
        BY <3>1, <4>1 DEF HubTypes, HubWorkOK, FunctionCalls
      <4>4. /\ H!Range(have) \subseteq H!Range(hubs[h].granted)
            /\ work[u].calm => Unguarded(h, m) /\ Served(h, m, have)
        BY <3>1, <4>1 DEF HubServes, CallOK
      <4>5. H!Range(have) \subseteq H!Range(hubs'[h].granted)
        BY <1>2, <4>3, <4>4
      <4>6. work'[u].calm => Unguarded(h, m)' /\ Served(h, m, have)'
        BY <1>9, <4>2, <4>3, <4>4
      <4> QED BY <4>2, <4>5, <4>6 DEF CallOK
    <3>2. CASE pc[u] # "invoke"
      BY <1>4, <3>2 DEF CallOK
    <3> QED BY <3>1, <3>2
  <2>3. ASSUME NEW tool \in tools, Unguarded(tool.hub, tool.name)'
        PROVE  Served(tool.hub, tool.name, hubs[tool.hub].granted)'
    <3>1. tool.hub \in DOMAIN hubs /\ tool.name \in Names
      BY DEF HubTypes
    <3>2. PICK have : have = hubs[tool.hub].granted
      OBVIOUS
    <3>3. hubs'[tool.hub].granted = have
      BY <1>2, <3>1, <3>2
    <3>4. Unguarded(tool.hub, tool.name) /\ (tool.hub # k \/ tool.name # n)
      BY <1>9, <2>3, <3>1
    <3>5. Served(tool.hub, tool.name, have)
      BY <3>2, <3>4 DEF HubServes
    <3>6. Served(tool.hub, tool.name, have)'
      BY <1>9, <3>1, <3>4, <3>5
    <3> QED BY <3>3, <3>6
  <2> QED BY <1>3, <2>1, <2>2, <2>3 DEF HubServes
<1> QED BY <1>8, <1>10

(* Nothing relies on a name that is inside guard. *)
LEMMA RegisterKeeps ==
  ASSUME HubTypes, HubLocks, HubServes, H!HubAssumption, NEW t \in Threads, H!Register(t)
  PROVE  HubLocks' /\ HubServes'
<1>1. PICK k, n, f : k = work[t].hub /\ n = work[t].arg.name /\ f = work[t].arg.flags
  OBVIOUS
<1>2. /\ k \in DOMAIN hubs /\ work[t].arg \in Guards /\ pc[t] = "register"
      /\ pc' = [pc EXCEPT ![t] = "extend"] /\ work' = work /\ broken' = broken
      /\ DOMAIN hubs' = DOMAIN hubs
      /\ \A h \in DOMAIN hubs : h # k => hubs'[h] = hubs[h]
      /\ hubs'[k].lock = hubs[k].lock /\ hubs'[k].granted = hubs[k].granted
      /\ hubs'[k].registry[n] = H!ToolSpec(n, f)
      /\ \A m \in Names : m # n => hubs'[k].registry[m] = hubs[k].registry[m]
  BY <1>1, RegisterShape
<1>3. /\ pc'[t] = "extend" /\ \A u \in Threads : u # t => pc'[u] = pc[u]
      /\ tools' = tools
  BY <1>2 DEF HubTypes, H!Register
<1>4. AtGuard(t, k)
  BY <1>1, <1>2 DEF AtGuard
<1>5. /\ \A u \in Threads, h \in DOMAIN hubs : AtGuard(u, h)' <=> AtGuard(u, h)
      /\ \A u \in Threads : AtGuard(u, k) => u = t
  <2>1. \A u \in Threads, h \in DOMAIN hubs : AtGuard(u, h)' <=> AtGuard(u, h)
    BY <1>2, <1>3 DEF AtGuard
  <2> QED BY <1>2, <1>4, <2>1 DEF HubLocks
<1>6. HubLocks'
  <2>1. ASSUME NEW h \in DOMAIN hubs
        PROVE  /\ \A u \in Threads : AtGuard(u, h)' => hubs'[h].lock = u
               /\ (hubs[h].lock \in Threads => AtGuard(hubs[h].lock, h))'
    <3>1. PICK l : l = hubs[h].lock
      OBVIOUS
    <3>2. hubs'[h].lock = l
      BY <1>2, <3>1
    <3>3. (\A u \in Threads : AtGuard(u, h) => l = u) /\ (l \in Threads => AtGuard(l, h))
      BY <3>1 DEF HubLocks
    <3>4. (\A u \in Threads : AtGuard(u, h)' => l = u) /\ (l \in Threads => AtGuard(l, h)')
      BY <1>5, <3>3
    <3> QED BY <3>2, <3>4
  <2> QED BY <1>2, <2>1 DEF HubLocks
<1>7. ASSUME NEW h \in DOMAIN hubs, NEW m \in Names
      PROVE  /\ Unguarded(h, m)' <=> Unguarded(h, m)
             /\ Unguarded(h, m) => \A have : Served(h, m, have)' <=> Served(h, m, have)
  <2>1. Unguarded(h, m)' <=> Unguarded(h, m)
    BY <1>2, <1>5 DEF Unguarded
  <2>2. Unguarded(h, m) => h # k \/ m # n
    BY <1>1, <1>4 DEF Unguarded
  <2>3. h # k \/ m # n => hubs'[h].registry[m] = hubs[h].registry[m]
    BY <1>2
  <2>4. hubs'[h].registry[m] = hubs[h].registry[m] => \A have : Served(h, m, have)' <=> Served(h, m, have)
    BY DEF Served
  <2> QED BY <2>1, <2>2, <2>3, <2>4
<1>8. HubServes'
  <2>1. ASSUME NEW u \in Threads PROVE NameOK(u)'
    <3>1. CASE u = t
      BY <1>1, <1>2, <1>3, <3>1 DEF NameOK
    <3>2. CASE u # t /\ pc[u] \in {"register", "extend"}
      <4>1. /\ pc'[u] = pc[u] /\ work'[u] = work[u] /\ work[u].hub # k /\ NameOK(u)
            /\ work[u].hub \in DOMAIN hubs
        BY <1>2, <1>3, <1>5, <3>2 DEF AtGuard, HubServes, HubTypes, HubWorkOK
      <4> QED BY <1>2, <4>1 DEF NameOK
    <3>3. CASE u # t /\ pc[u] \notin {"register", "extend"}
      BY <1>3, <3>3 DEF NameOK
    <3> QED BY <3>1, <3>2, <3>3
  <2>2. ASSUME NEW u \in Threads PROVE CallOK(u)'
    <3>1. CASE pc[u] = "invoke"
      <4>1. PICK w : w = work[u]
        OBVIOUS
      <4>2. work'[u] = w /\ w.hub \in DOMAIN hubs /\ w.arg.name \in Names
        BY <1>2, <3>1, <4>1 DEF HubTypes, HubWorkOK, FunctionCalls
      <4>3. /\ H!Range(w.held) \subseteq H!Range(hubs[w.hub].granted)
            /\ w.calm => Unguarded(w.hub, w.arg.name) /\ Served(w.hub, w.arg.name, w.held)
        BY <3>1, <4>1 DEF HubServes, CallOK
      <4>4. /\ H!Range(w.held) \subseteq H!Range(hubs'[w.hub].granted)
            /\ w.calm => Unguarded(w.hub, w.arg.name)' /\ Served(w.hub, w.arg.name, w.held)'
        BY <1>2, <1>7, <4>2, <4>3
      <4> QED BY <4>2, <4>4 DEF CallOK
    <3>2. CASE pc[u] # "invoke"
      BY <1>3, <3>2 DEF CallOK
    <3> QED BY <3>1, <3>2
  <2>3. ASSUME NEW tool \in tools, Unguarded(tool.hub, tool.name)'
        PROVE  Served(tool.hub, tool.name, hubs[tool.hub].granted)'
    <3>1. tool.hub \in DOMAIN hubs /\ tool.name \in Names
      BY DEF HubTypes
    <3>2. PICK have : have = hubs[tool.hub].granted
      OBVIOUS
    <3>3. hubs'[tool.hub].granted = have
      BY <1>2, <3>1, <3>2
    <3>4. Unguarded(tool.hub, tool.name)
      BY <1>7, <2>3, <3>1
    <3>5. Served(tool.hub, tool.name, have)
      BY <3>2, <3>4 DEF HubServes
    <3>6. Served(tool.hub, tool.name, have)'
      BY <1>7, <3>1, <3>4, <3>5
    <3> QED BY <3>3, <3>6
  <2> QED BY <1>2, <1>3, <2>1, <2>2, <2>3 DEF HubServes
<1> QED BY <1>6, <1>8

(* Leaving guard, what is registered is also granted. *)
LEMMA ExtendKeeps ==
  ASSUME HubTypes, HubLocks, HubServes, H!HubAssumption, NEW t \in Threads, H!Extend(t)
  PROVE  HubLocks' /\ HubServes'
<1>1. PICK k, n, f : k = work[t].hub /\ n = work[t].arg.name /\ f = work[t].arg.flags
  OBVIOUS
<1>2. /\ k \in DOMAIN hubs /\ work[t].arg \in Guards /\ pc[t] = "extend"
      /\ DOMAIN hubs' = DOMAIN hubs
      /\ \A h \in DOMAIN hubs : h # k => hubs'[h] = hubs[h]
      /\ hubs'[k].lock = Nobody /\ hubs'[k].registry = hubs[k].registry
      /\ H!Range(hubs[k].granted) \subseteq H!Range(hubs'[k].granted)
      /\ H!Range(H!ToolSpec(n, f).caps) \subseteq H!Range(hubs'[k].granted)
  BY <1>1, ExtendShape
<1>3. /\ n \in Names /\ f \in Declarations /\ hubs[k].registry[n] = H!ToolSpec(n, f)
  BY <1>1, <1>2 DEF Guards, HubServes, NameOK
<1>4. /\ pc' = [pc EXCEPT ![t] = "idle"] /\ work' = [work EXCEPT ![t] = H!Idle]
      /\ tools' = tools \cup {[hub |-> k, name |-> n]} /\ broken' = broken
  BY <1>1 DEF H!Extend
<1>5. pc'[t] = "idle" /\ \A u \in Threads : u # t => pc'[u] = pc[u] /\ work'[u] = work[u]
  BY <1>4 DEF HubTypes
<1>6. \A u \in Threads : AtGuard(u, k) <=> u = t
  BY <1>1, <1>2 DEF AtGuard, HubLocks
<1>7. \A u \in Threads, h \in DOMAIN hubs : AtGuard(u, h)' <=> AtGuard(u, h) /\ h # k
  <2>1. \A u \in Threads, h \in DOMAIN hubs : u # t => (AtGuard(u, h)' <=> AtGuard(u, h))
    BY <1>5 DEF AtGuard
  <2>2. \A h \in DOMAIN hubs : ~AtGuard(t, h)' /\ (AtGuard(t, h) => h = k)
    BY <1>1, <1>5 DEF AtGuard
  <2> QED BY <1>6, <2>1, <2>2
<1>8. HubLocks'
  <2>1. ASSUME NEW h \in DOMAIN hubs
        PROVE  /\ \A u \in Threads : AtGuard(u, h)' => hubs'[h].lock = u
               /\ (hubs[h].lock \in Threads => AtGuard(hubs[h].lock, h))'
    <3>1. CASE h = k
      BY <1>2, <1>7, <3>1 DEF H!HubAssumption
    <3>2. CASE h # k
      <4>1. PICK l : l = hubs[h].lock
        OBVIOUS
      <4>2. hubs'[h].lock = l
        BY <1>2, <3>2, <4>1
      <4>3. (\A u \in Threads : AtGuard(u, h) => l = u) /\ (l \in Threads => AtGuard(l, h))
        BY <4>1 DEF HubLocks
      <4>4. (\A u \in Threads : AtGuard(u, h)' => l = u) /\ (l \in Threads => AtGuard(l, h)')
        BY <1>7, <3>2, <4>3
      <4> QED BY <4>2, <4>4
    <3> QED BY <3>1, <3>2
  <2> QED BY <1>2, <2>1 DEF HubLocks
<1>9. ASSUME NEW h \in DOMAIN hubs, NEW m \in Names
      PROVE  /\ Unguarded(h, m) => Unguarded(h, m)'
             /\ Unguarded(h, m)' => Unguarded(h, m) \/ (h = k /\ m = n)
             /\ \A have : Served(h, m, have)' <=> Served(h, m, have)
             /\ H!Range(hubs[h].granted) \subseteq H!Range(hubs'[h].granted)
  <2>1. \A u \in Threads : AtGuard(u, h)' => u # t /\ AtGuard(u, h)
    BY <1>2, <1>6, <1>7 DEF AtGuard
  <2>2. Unguarded(h, m) => Unguarded(h, m)'
    BY <1>5, <2>1 DEF Unguarded
  <2>3. Unguarded(h, m)' => Unguarded(h, m) \/ (h = k /\ m = n)
    <3>1. CASE h = k
      BY <1>1, <1>6, <3>1 DEF Unguarded
    <3>2. CASE h # k
      <4>1. \A u \in Threads : AtGuard(u, h) => AtGuard(u, h)' /\ u # t
        BY <1>1, <1>7, <3>2 DEF AtGuard
      <4> QED BY <1>5, <4>1 DEF Unguarded
    <3> QED BY <3>1, <3>2
  <2>4. hubs'[h].registry = hubs[h].registry /\ H!Range(hubs[h].granted) \subseteq H!Range(hubs'[h].granted)
    BY <1>2
  <2>5. \A have : Served(h, m, have)' <=> Served(h, m, have)
    BY <2>4 DEF Served
  <2> QED BY <2>2, <2>3, <2>4, <2>5
<1>10. HubServes'
  <2>1. ASSUME NEW u \in Threads PROVE NameOK(u)' /\ CallOK(u)'
    <3>1. CASE u = t
      BY <1>5, <3>1 DEF NameOK, CallOK
    <3>2. CASE u # t
      <4>1. PICK w : w = work[u]
        OBVIOUS
      <4>2. /\ pc'[u] = pc[u] /\ work'[u] = w /\ NameOK(u) /\ CallOK(u) /\ HubWorkOK(u)
        BY <1>5, <3>2, <4>1 DEF HubServes, HubTypes
      <4>3. NameOK(u)'
        BY <1>2, <4>1, <4>2 DEF NameOK, HubWorkOK
      <4>4. CASE pc[u] = "invoke"
        <5>1. w.hub \in DOMAIN hubs /\ w.arg.name \in Names
          BY <4>1, <4>2, <4>4 DEF HubWorkOK, FunctionCalls
        <5>2. /\ H!Range(w.held) \subseteq H!Range(hubs[w.hub].granted)
              /\ w.calm => Unguarded(w.hub, w.arg.name) /\ Served(w.hub, w.arg.name, w.held)
          BY <4>1, <4>2, <4>4 DEF CallOK
        <5>3. H!Range(w.held) \subseteq H!Range(hubs'[w.hub].granted)
          BY <1>9, <5>1, <5>2
        <5>4. w.calm => Unguarded(w.hub, w.arg.name)' /\ Served(w.hub, w.arg.name, w.held)'
          BY <1>9, <5>1, <5>2
        <5> QED BY <4>2, <4>3, <5>3, <5>4 DEF CallOK
      <4>5. CASE pc[u] # "invoke"
        BY <4>2, <4>3, <4>5 DEF CallOK
      <4> QED BY <4>4, <4>5
    <3> QED BY <3>1, <3>2
  <2>2. ASSUME NEW tool \in tools', Unguarded(tool.hub, tool.name)'
        PROVE  Served(tool.hub, tool.name, hubs[tool.hub].granted)'
    <3>1. tool.hub \in DOMAIN hubs /\ tool.name \in Names
      BY <1>2, <1>3, <1>4 DEF HubTypes
    <3>2. tool \in tools \/ (tool.hub = k /\ tool.name = n)
      BY <1>4
    <3>3. PICK have : have = hubs'[tool.hub].granted
      OBVIOUS
    <3>4. CASE tool.hub = k /\ tool.name = n
      <4>1. Served(k, n, have)
        BY <1>2, <1>3, <3>3, <3>4 DEF Served
      <4>2. Served(tool.hub, tool.name, have)'
        BY <1>9, <3>1, <3>4, <4>1
      <4> QED BY <3>3, <4>2
    <3>5. CASE tool \in tools /\ ~(tool.hub = k /\ tool.name = n)
      <4>1. Unguarded(tool.hub, tool.name)
        BY <1>9, <2>2, <3>1, <3>5
      <4>2. Served(tool.hub, tool.name, hubs[tool.hub].granted)
        BY <3>5, <4>1 DEF HubServes
      <4>3. Served(tool.hub, tool.name, have)
        BY <1>9, <3>1, <3>3, <4>2 DEF Served
      <4>4. Served(tool.hub, tool.name, have)'
        BY <1>9, <3>1, <4>3
      <4> QED BY <3>3, <4>4
    <3> QED BY <3>2, <3>4, <3>5
  <2>3. broken' = {}
    BY <1>4 DEF HubServes
  <2> QED BY <2>1, <2>2, <2>3 DEF HubServes
<1> QED BY <1>8, <1>10

(* Every step keeps both. *)
LEMMA GuardKept ==
  ASSUME HubTypes, HubLocks, HubServes, H!HubAssumption, H!Next
  PROVE  HubLocks' /\ HubServes'
<1> DEFINE Same(h) == /\ hubs'[h].lock = hubs[h].lock /\ hubs'[h].registry = hubs[h].registry
                      /\ hubs'[h].granted = hubs[h].granted
<1>1. ASSUME hubs' = Append(hubs, H!NewHub)
      PROVE  /\ DOMAIN hubs \subseteq DOMAIN hubs' /\ \A h \in DOMAIN hubs : Same(h)
             /\ \A h \in DOMAIN hubs' \ DOMAIN hubs : hubs'[h].lock = Nobody
  BY <1>1, HubMade
<1>2. CASE H!Reset
  <2>1. UNCHANGED <<hubs, pc, work, tools, broken>>
    BY <1>2 DEF H!Reset
  <2>2. HubLocks'
    BY <2>1 DEF HubLocks, AtGuard
  <2>3. \A u \in Threads : KeepsOut(u)
    BY <2>1 DEF KeepsOut
  <2> QED BY <2>1, <2>2, <2>3, ServesStay
<1>3. ASSUME NEW t \in Threads, H!Create(t) PROVE HubLocks' /\ HubServes'
  <2>1. /\ pc[t] = "create" /\ pc' = [pc EXCEPT ![t] = "return"] /\ UNCHANGED <<work, tools, broken>>
        /\ hubs' = Append(hubs, H!NewHub) \/ hubs' = hubs
    BY <1>3 DEF H!Create
  <2>2. work' = [work EXCEPT ![t] = work[t]]
    BY <2>1 DEF HubTypes
  <2>3. /\ DOMAIN hubs \subseteq DOMAIN hubs' /\ \A h \in DOMAIN hubs : Same(h)
        /\ \A h \in DOMAIN hubs' \ DOMAIN hubs : hubs'[h].lock = Nobody
    BY <1>1, <2>1
  <2> QED BY <2>1, <2>2, <2>3, OutsideKeeps
<1>4. ASSUME NEW t \in Threads, H!Return(t) PROVE HubLocks' /\ HubServes'
  <2>1. PICK stage, doing :
          /\ stage = IF default = 0 \/ work[t].op = "configure" THEN "idle" ELSE "apply"
          /\ doing = IF default = 0 \/ work[t].op = "configure" THEN H!Idle
                     ELSE [work[t] EXCEPT !.hub = default]
    OBVIOUS
  <2>2. /\ pc[t] = "return" /\ pc' = [pc EXCEPT ![t] = stage] /\ work' = [work EXCEPT ![t] = doing]
        /\ UNCHANGED <<hubs, tools, broken>> /\ stage \in {"idle", "apply"}
    BY <1>4, <2>1 DEF H!Return
  <2> QED BY <2>2, OutsideKeeps
<1>5. ASSUME NEW t \in Threads, H!Configure(t) PROVE HubLocks' /\ HubServes'
  <2>1. PICK doing : doing = [H!Work("configure", Nothing, 0, << >>, TRUE) EXCEPT !.from = epoch + 1]
    OBVIOUS
  <2>2. /\ pc[t] = "idle" /\ pc' = [pc EXCEPT ![t] = "return"] /\ work' = [work EXCEPT ![t] = doing]
        /\ UNCHANGED <<tools, broken>> /\ hubs' = Append(hubs, H!NewHub)
    BY <1>5, <2>1 DEF H!Configure
  <2> QED BY <1>1, <2>2, OutsideKeeps
<1>6. ASSUME NEW t \in Threads, H!Observe(t) PROVE HubLocks' /\ HubServes'
  <2>1. /\ pc' = [pc EXCEPT ![t] = "idle"] /\ work' = [work EXCEPT ![t] = H!Idle]
        /\ UNCHANGED <<tools, broken>>
    BY <1>6 DEF H!Observe
  <2>2. pc[t] = "apply" /\ DOMAIN hubs' = DOMAIN hubs /\ \A h \in DOMAIN hubs : Same(h)
    BY <1>6, ObserveShape
  <2> QED BY <2>1, <2>2, OutsideKeeps
<1>7. ASSUME NEW t \in Threads, H!Invoke(t) PROVE HubLocks' /\ HubServes'
  <2>1. /\ pc[t] = "invoke" /\ pc' = [pc EXCEPT ![t] = "idle"] /\ work' = [work EXCEPT ![t] = H!Idle]
        /\ UNCHANGED <<hubs, tools>>
    BY <1>7 DEF H!Invoke
  <2>2. broken' = broken
    BY <1>7, CalmCallsAreLetThrough
  <2> QED BY <2>1, <2>2, OutsideKeeps
<1>8. ASSUME NEW t \in Threads, NEW op, NEW arg, H!Use(t, op, arg) PROVE HubLocks' /\ HubServes'
  <2>1. PICK stage, doing : /\ stage = IF default = 0 THEN "create" ELSE "return"
                            /\ doing = H!Work(op, arg, 0, << >>, TRUE)
    OBVIOUS
  <2>2. /\ pc[t] = "idle" /\ pc' = [pc EXCEPT ![t] = stage] /\ work' = [work EXCEPT ![t] = doing]
        /\ UNCHANGED <<hubs, tools, broken>> /\ stage \in {"create", "return"}
    BY <1>8, <2>1 DEF H!Use
  <2> QED BY <2>2, OutsideKeeps
<1> QED BY <1>2, <1>3, <1>4, <1>5, <1>6, <1>7, <1>8, CallKeeps, UnregisterKeeps, RegisterKeeps,
           ExtendKeeps DEF H!Next
-----------------------------------------------------------------------------
(* The default is replaced only with the epoch, or when there was none. *)
LEMMA DefaultsKept ==
  ASSUME HubTypes, HubDefaults, H!Next
  PROVE  HubDefaults'
<1>1. epoch \in Nat /\ default \in Nat /\ Len(hubs) \in Nat
  BY DEF HubTypes
<1>2. \A t \in Threads : pc[t] # "idle" => work[t].from \in Nat /\ work[t].from <= epoch
  BY DEF HubTypes, HubWorkOK, Works
<1>3. ASSUME epoch' = epoch + 1, uses' = uses,
             \A t \in Threads : (pc'[t] = pc[t] /\ work'[t] = work[t]) \/ default' # 0
      PROVE  HubDefaults'
  <2>1. \A t \in Threads : pc'[t] = "return" /\ work'[t].from = epoch' => default' # 0
    BY <1>1, <1>2, <1>3
  <2>2. \A u \in uses' : u.to \in 0..epoch' /\ u.to # epoch'
    BY <1>1, <1>3 DEF HubDefaults
  <2> QED BY <1>3, <2>1, <2>2 DEF HubDefaults
<1>4. ASSUME epoch' = epoch, uses' = uses, default' = default \/ default = 0,
             default' # 0 \/ \A t \in Threads :
                               pc'[t] = "return" => pc[t] = "return" /\ work'[t].from = work[t].from
      PROVE  HubDefaults'
  BY <1>1, <1>4 DEF HubDefaults
<1>5. CASE H!Reset
  BY <1>3, <1>5 DEF H!Reset
<1>6. ASSUME NEW t \in Threads, H!Configure(t) PROVE HubDefaults'
  BY <1>1, <1>3, <1>6 DEF H!Configure
<1>7. ASSUME NEW t \in Threads, H!Create(t) PROVE HubDefaults'
  <2>1. /\ epoch' = epoch /\ uses' = uses /\ default' # 0 /\ (default' = default \/ default = 0)
    BY <1>1, <1>7 DEF H!Create
  <2> QED BY <1>4, <2>1
<1>8. ASSUME NEW t \in Threads, H!Return(t) PROVE HubDefaults'
  <2>1. PICK stage, doing : /\ pc[t] = "return" /\ stage # "return"
                            /\ pc' = [pc EXCEPT ![t] = stage] /\ work' = [work EXCEPT ![t] = doing]
                            /\ UNCHANGED <<default, epoch>>
                            /\ uses' = uses \cup {[from |-> work[t].from, to |-> epoch, hub |-> default]}
    <3>1. PICK stage, doing :
            /\ stage = IF default = 0 \/ work[t].op = "configure" THEN "idle" ELSE "apply"
            /\ doing = IF default = 0 \/ work[t].op = "configure" THEN H!Idle
                       ELSE [work[t] EXCEPT !.hub = default]
      OBVIOUS
    <3>2. stage # "return"
      BY <3>1
    <3> QED BY <1>8, <3>1, <3>2 DEF H!Return
  <2>9. pc \in [Threads -> Stages] /\ work = [u \in Threads |-> work[u]]
    BY DEF HubTypes
  <2>2. \A u \in Threads : pc'[u] = "return" => pc[u] = "return" /\ work'[u] = work[u]
    BY <2>1, <2>9
  <2>3. PICK use : use = [from |-> work[t].from, to |-> epoch, hub |-> default]
    OBVIOUS
  <2>4. use.to = epoch /\ use.hub = default /\ (use.from = use.to => default # 0)
    BY <2>1, <2>3 DEF HubDefaults
  <2>5. uses' = uses \cup {use}
    BY <2>1, <2>3
  <2>6. \A u \in uses' : u.to \in 0..epoch'
    BY <1>1, <2>1, <2>4, <2>5 DEF HubDefaults
  <2>7. \A u \in uses' : u.from = u.to => u.hub # 0 /\ (u.to = epoch' => u.hub = default')
    BY <2>1, <2>4, <2>5 DEF HubDefaults
  <2>8. \A u, v \in uses' : u.from = u.to /\ v.from = v.to /\ u.to = v.to => u.hub = v.hub
    BY <2>4, <2>5 DEF HubDefaults
  <2> QED BY <2>1, <2>2, <2>6, <2>7, <2>8 DEF HubDefaults
<1>9. ASSUME NEW t \in Threads, NEW stage, NEW doing, stage # "return",
             pc' = [pc EXCEPT ![t] = stage], work' = [work EXCEPT ![t] = doing],
             UNCHANGED <<default, epoch, uses>>
      PROVE  HubDefaults'
  <2>1. \A u \in Threads : pc'[u] = "return" => pc[u] = "return" /\ work'[u].from = work[u].from
    BY <1>9 DEF HubTypes
  <2> QED BY <1>4, <1>9, <2>1
<1>10. ASSUME NEW t \in Threads, H!Observe(t) PROVE HubDefaults'
  BY <1>9, <1>10 DEF H!Observe
<1>11. ASSUME NEW t \in Threads, H!Unregister(t) PROVE HubDefaults'
  <2>1. /\ pc' = [pc EXCEPT ![t] = "register"] /\ UNCHANGED <<default, epoch, uses>>
        /\ work' = [u \in Threads |-> IF H!Calling(u, work[t]) THEN [work[u] EXCEPT !.calm = FALSE] ELSE work[u]]
    BY <1>11 DEF H!Unregister
  <2>2. \A u \in Threads : pc'[u] = "return" => pc[u] = "return" /\ work'[u] = work[u]
    BY <2>1 DEF HubTypes, H!Calling
  <2> QED BY <1>4, <2>1, <2>2
<1>12. ASSUME NEW t \in Threads, H!Register(t) PROVE HubDefaults'
  <2>1. PICK stage, doing : /\ stage # "return" /\ pc' = [pc EXCEPT ![t] = stage]
                            /\ work' = [work EXCEPT ![t] = doing] /\ UNCHANGED <<default, epoch, uses>>
    BY <1>12, Zenon DEF H!Register
  <2> QED BY <1>9, <2>1
<1>13. ASSUME NEW t \in Threads, H!Extend(t) PROVE HubDefaults'
  BY <1>9, <1>13, Zenon DEF H!Extend
<1>14. ASSUME NEW t \in Threads, H!Invoke(t) PROVE HubDefaults'
  BY <1>9, <1>14 DEF H!Invoke
<1>15. ASSUME NEW t \in Threads, NEW tool \in tools, NEW kwargs \in Inputs, H!Call(t, tool, kwargs)
       PROVE  HubDefaults'
  BY <1>9, <1>15 DEF H!Call
<1>16. ASSUME NEW t \in Threads, NEW op, NEW arg, H!Use(t, op, arg) PROVE HubDefaults'
  <2>1. PICK doing : doing = H!Work(op, arg, 0, << >>, TRUE)
    OBVIOUS
  <2>2. /\ pc' = [pc EXCEPT ![t] = IF default = 0 THEN "create" ELSE "return"]
        /\ work' = [work EXCEPT ![t] = doing] /\ UNCHANGED <<default, epoch, uses>>
    BY <1>16, <2>1 DEF H!Use
  <2>3. CASE default = 0
    <3>1. pc' = [pc EXCEPT ![t] = "create"]
      BY <2>2, <2>3
    <3> QED BY <1>9, <2>2, <3>1
  <2>4. CASE default # 0
    <3>1. epoch' = epoch /\ uses' = uses /\ default' = default /\ default' # 0
      BY <2>2, <2>4
    <3> QED BY <1>4, <3>1
  <2> QED BY <2>3, <2>4
<1> QED BY <1>5, <1>6, <1>7, <1>8, <1>10, <1>11, <1>12, <1>13, <1>14, <1>15, <1>16 DEF H!Next
-----------------------------------------------------------------------------
(* No hub takes back what it granted. *)
LEMMA GrantsGrow ==
  ASSUME HubTypes, HubServes, H!HubAssumption, H!Next
  PROVE  \A h \in DOMAIN hubs : h \in DOMAIN hubs' /\ H!Range(hubs[h].granted) \subseteq H!Range(hubs'[h].granted)
<1>1. CASE hubs' = hubs
  BY <1>1
<1>2. CASE hubs' = Append(hubs, H!NewHub)
  BY <1>2, HubMade
<1>3. ASSUME NEW t \in Threads, H!Observe(t)
      PROVE  \A h \in DOMAIN hubs : h \in DOMAIN hubs' /\ hubs'[h].granted = hubs[h].granted
  BY <1>3, ObserveShape
<1>4. ASSUME NEW t \in Threads, H!Unregister(t)
      PROVE  \A h \in DOMAIN hubs : h \in DOMAIN hubs' /\ hubs'[h].granted = hubs[h].granted
  BY <1>4, UnregisterShape
<1>5. ASSUME NEW t \in Threads, H!Register(t)
      PROVE  \A h \in DOMAIN hubs : h \in DOMAIN hubs' /\ hubs'[h].granted = hubs[h].granted
  BY <1>5, RegisterShape
<1>6. ASSUME NEW t \in Threads, H!Extend(t)
      PROVE  \A h \in DOMAIN hubs : h \in DOMAIN hubs' /\ H!Range(hubs[h].granted) \subseteq H!Range(hubs'[h].granted)
  BY <1>6, ExtendShape
<1>7. \/ hubs' \in {hubs, Append(hubs, H!NewHub)}
      \/ \E t \in Threads : H!Observe(t) \/ H!Unregister(t) \/ H!Register(t) \/ H!Extend(t)
  BY DEF H!Next, H!Reset, H!Create, H!Return, H!Configure, H!Invoke, H!Use, H!Call
<1> QED BY <1>1, <1>2, <1>3, <1>4, <1>5, <1>6, <1>7

(* A call that runs holds, for each argument, a grant that lets it through. *)
LEMMA RunIsBounded ==
  ASSUME NEW hub, NEW w, H!Outcome(hub, w) = "ran"
  PROVE  LET caps == hub.registry[w.arg.name].caps IN
         \A i \in DOMAIN H!Bound(caps, w.arg.kwargs) :
           \E c \in H!Range(w.held) : H!Covers(c, caps[i]) /\ H!Admits(c, caps, i, w.arg.kwargs)
<1>1. PICK tool, args : tool = hub.registry[w.arg.name] /\ args = H!Bound(tool.caps, w.arg.kwargs)
  OBVIOUS
<1>2. H!Evaluate(w.held, tool, TRUE, RiskCeiling) \in {"allow", "deny", "require_approval"}
  BY DEF H!Evaluate
<1>3. H!ArgumentsEnforced(w.held, tool.caps, args)
  BY <1>1, <1>2, Zenon DEF H!Outcome
<1>4. \A i \in DOMAIN args : i \in DOMAIN tool.caps
  BY <1>1, Zenon DEF H!Bound
<1>5. ASSUME NEW i \in DOMAIN args
      PROVE  \E c \in H!Range(w.held) : H!Covers(c, tool.caps[i]) /\ H!Enforces(c, args[i])
  <2>1. PICK e \in DOMAIN w.held : H!EffectiveCapability(w.held, tool.caps[i], e) /\ H!Enforces(w.held[e], args[i])
    BY <1>3, <1>4 DEF H!ArgumentsEnforced
  <2>2. w.held[e] \in H!Range(w.held)
    BY DEF H!Range
  <2>3. H!Covers(w.held[e], tool.caps[i])
    BY <2>1 DEF H!EffectiveCapability
  <2> QED BY <2>1, <2>2, <2>3
<1> QED BY <1>1, <1>5 DEF H!Admits

LEMMA BoundKept ==
  ASSUME HubTypes, HubServes, H!HubAssumption, H!BoundedByHub, H!Next
  PROVE  H!BoundedByHub'
<1> DEFINE AdmittedHere(r, grants) ==
      \A i \in DOMAIN H!Bound(r.caps, r.kwargs) :
        \E c \in grants : H!Covers(c, r.caps[i]) /\ H!Admits(c, r.caps, i, r.kwargs)
<1>1. \A r \in ran : r.hub \in DOMAIN hubs /\ AdmittedHere(r, H!Range(hubs[r.hub].granted))
  BY DEF H!BoundedByHub, HubTypes
<1>2. ASSUME NEW r \in ran' PROVE r.hub \in DOMAIN hubs /\ AdmittedHere(r, H!Range(hubs[r.hub].granted))
  <2>1. CASE r \in ran
    BY <1>1, <2>1
  <2>2. CASE r \notin ran
    <3>1. PICK t \in Threads : H!Invoke(t)
      BY <2>2, Zenon DEF H!Next, H!Reset, H!Create, H!Return, H!Configure, H!Observe, H!Unregister, H!Register, H!Extend, H!Use, H!Call
    <3>2. PICK w : w = work[t]
      OBVIOUS
    <3>3. /\ pc[t] = "invoke" /\ H!Outcome(hubs[w.hub], w) = "ran"
          /\ r = [hub |-> w.hub, caps |-> hubs[w.hub].registry[w.arg.name].caps, kwargs |-> w.arg.kwargs]
      <4>1. PICK outcome : outcome = H!Outcome(H!Mine(t), work[t])
        OBVIOUS
      <4>2. /\ pc[t] = "invoke" /\ outcome = "ran"
            /\ r = [hub |-> work[t].hub, caps |-> H!Mine(t).registry[work[t].arg.name].caps,
                    kwargs |-> work[t].arg.kwargs]
        BY <2>2, <3>1, <4>1 DEF H!Invoke
      <4> QED BY <3>2, <4>1, <4>2 DEF H!Mine
    <3>4. w.hub \in DOMAIN hubs /\ H!Range(w.held) \subseteq H!Range(hubs[w.hub].granted)
      BY <3>2, <3>3 DEF HubTypes, HubWorkOK, HubServes, CallOK
    <3>5. PICK caps, kwargs : caps = hubs[w.hub].registry[w.arg.name].caps /\ kwargs = w.arg.kwargs
      OBVIOUS
    <3>6. r.hub = w.hub /\ r.caps = caps /\ r.kwargs = kwargs
      BY <3>3, <3>5, SMTT(30)
    <3>7. \A i \in DOMAIN H!Bound(caps, kwargs) :
            \E c \in H!Range(w.held) : H!Covers(c, caps[i]) /\ H!Admits(c, caps, i, kwargs)
      BY <3>3, <3>5, RunIsBounded, Zenon
    <3> QED BY <3>4, <3>6, <3>7, SMTT(30)
  <2> QED BY <2>1, <2>2
<1>3. ASSUME NEW r \in ran' PROVE AdmittedHere(r, H!Range(hubs'[r.hub].granted))
  BY <1>2, GrantsGrow
<1> QED BY <1>3 DEF H!BoundedByHub
-----------------------------------------------------------------------------
(* The hub's invariant. *)
LEMMA HubInvariant ==
  ASSUME H!HubAssumption
  PROVE  H!Spec => []HubInv
<1>1. H!Init => HubInv
  <2> SUFFICES ASSUME H!Init PROVE HubInv
    OBVIOUS
  <2>1. HubTypes
    <3>1. << >> \in Seq(Hubs) /\ Len(<< >>) = 0 /\ 0 \in 0..MaxSwitches /\ 0 \in 0..MaxUses
      BY DEF H!HubAssumption
    <3> QED BY <3>1 DEF H!Init, HubTypes, HubWorkOK, Stages
  <2>2. HubLocks /\ HubServes /\ HubDefaults /\ H!BoundedByHub
    BY DEF H!Init, HubLocks, HubServes, NameOK, CallOK, HubDefaults, H!BoundedByHub
  <2> QED BY <2>1, <2>2 DEF HubInv
<1>2. HubInv /\ [H!Next]_(H!vars) => HubInv'
  <2> SUFFICES ASSUME HubInv, [H!Next]_(H!vars) PROVE HubInv'
    OBVIOUS
  <2>1. CASE H!Next
    BY <2>1, HubTypesKept, GuardKept, DefaultsKept, BoundKept DEF HubInv
  <2>2. CASE UNCHANGED H!vars
    <3>1. UNCHANGED <<hubs, default, epoch, pc, work, tools, ops, uses, ran, broken>>
      BY <2>2 DEF H!vars
    <3>2. HubTypes'
      BY <3>1 DEF HubInv, HubTypes, HubWorkOK
    <3>3. HubLocks' /\ HubDefaults' /\ H!BoundedByHub'
      BY <3>1 DEF HubInv, HubLocks, AtGuard, HubDefaults, H!BoundedByHub
    <3>4. \A u \in Threads : KeepsOut(u)
      BY <3>1 DEF KeepsOut
    <3>5. HubServes'
      BY <3>1, <3>4, ServesStay DEF HubInv
    <3> QED BY <3>2, <3>3, <3>5 DEF HubInv
  <2> QED BY <2>1, <2>2
<1> QED BY <1>1, <1>2, PTL DEF H!Spec

(* A hub's lock is held by the thread inside guard, and it alone; every    *)
(* tool has a name and a hub (aegis/core.py).                              *)
THEOREM HubTypeCorrect ==
  ASSUME H!HubAssumption
  PROVE  H!Spec => []H!TypeOK
<1>1. HubInv => H!TypeOK
  <2> SUFFICES ASSUME HubInv PROVE H!TypeOK
    OBVIOUS
  <2>1. ASSUME NEW h \in DOMAIN hubs
        PROVE  /\ DOMAIN hubs[h].registry = Names
               /\ hubs[h].lock \in Threads \cup {Nobody}
               /\ hubs[h].lock = Nobody <=> ~\E t \in Threads : AtGuard(t, h)
    <3>1. hubs[h] \in Hubs
      BY DEF HubInv, HubTypes
    <3>2. DOMAIN hubs[h].registry = Names /\ hubs[h].lock \in Threads \cup {Nobody}
      BY <3>1 DEF Hubs
    <3> QED BY <3>2 DEF HubInv, HubLocks, H!HubAssumption
  <2> QED BY <2>1 DEF H!TypeOK, HubInv, HubTypes, Stages, AtGuard
<1> QED BY <1>1, HubInvariant, PTL

(* Whichever threads guard, call and change the default: uses between two  *)
(* changes get one hub, a guarded tool is found with all it needs, and no  *)
(* argument passes that the hub granted to none (aegis/core.py).           *)
THEOREM HubIsOneScope ==
  ASSUME H!HubAssumption
  PROVE  H!Spec => []HubKeepsScope
<1>1. HubInv => HubKeepsScope
  <2> SUFFICES ASSUME HubInv PROVE H!HubKeepsScope
    BY DEF HubKeepsScope
  <2>1. H!OneDefault
    <3> SUFFICES ASSUME NEW e \in 0..epoch
                 PROVE  LET got == {u.hub : u \in {v \in uses : v.from = e /\ v.to = e}}
                        IN H!Cardinality(got) <= 1 /\ 0 \notin got
      BY DEF H!OneDefault
    <3> DEFINE got == {u.hub : u \in {v \in uses : v.from = e /\ v.to = e}}
    <3>1. 0 \notin got /\ \A g, h \in got : g = h
      BY DEF HubInv, HubDefaults
    <3> HIDE DEF got
    <3>2. H!Cardinality(got) <= 1
      <4>1. CASE got = {}
        BY <4>1, FS_EmptySet, HubCardinality
      <4>2. CASE got # {}
        <5>1. PICK g : got = {g}
          BY <3>1, <4>2
        <5>2. Cardinality({g}) = 1
          BY FS_Singleton
        <5>3. H!Cardinality(got) = 1
          BY <5>1, <5>2, HubCardinality
        <5> QED BY <5>3
      <4> QED BY <4>1, <4>2
    <3> QED BY <3>1, <3>2 DEF got
  <2> QED BY <2>1 DEF HubInv, HubServes, H!GuardedNamesWork, H!HubKeepsScope
<1> QED BY <1>1, HubInvariant, PTL
-----------------------------------------------------------------------------
(* The guards over one runtime, for any tools, capabilities and number of  *)
(* guards.                                                                 *)

GuardDeclared == GuardDeclarations \cup {U!Plain}

GuardCaps ==
  (UNION {U!Range(caps) : caps \in Held})
  \cup (UNION {U!Range(U!BuildCapabilities(name, d)) : name \in GuardNames, d \in GuardDeclared})

LEMMA GuardPathCovers ==
  ASSUME NEW c, c.type \in U!FileTypes, \A p \in c.paths : U!IsPath(p.dir)
  PROVE  U!Covers(c, c)
<1>1. c.type # "shell_exec" /\ c.type # "network_http" /\ c.type # "db_query"
  BY DEF U!FileTypes
<1>2. \A p \in c.paths : U!PathCovers(p, p)
  <2>1. ASSUME NEW p \in c.paths PROVE Len(p.dir) \in Nat
    BY DEF U!IsPath
  <2> QED BY <2>1 DEF U!PathCovers, U!IsPrefix
<1>3. \A r \in c.paths : \E g \in c.paths : U!PathCovers(g, r)
  BY <1>2
<1> QED BY <1>1, <1>3 DEF U!Covers

LEMMA GuardCoversItself ==
  ASSUME NEW c, c.type = "shell_exec" => c.timeout \in Int,
         c.type \in U!FileTypes => \A p \in c.paths : U!IsPath(p.dir)
  PROVE  U!Covers(c, c)
<1>1. CASE c.type \in U!FileTypes
  BY <1>1, GuardPathCovers
<1>2. CASE c.type \notin U!FileTypes
  BY <1>2 DEF U!Covers, U!FileTypes
<1> QED BY <1>1, <1>2

(* What a declaration comes to is a list of capabilities that cover        *)
(* themselves.                                                             *)
LEMMA GuardBuilds ==
  ASSUME U!GuardAssumption, NEW name \in GuardNames, NEW d \in GuardDeclared
  PROVE  /\ U!BuildCapabilities(name, d) \in Seq(GuardCaps)
         /\ \A i \in DOMAIN U!BuildCapabilities(name, d) :
              U!Covers(U!BuildCapabilities(name, d)[i], U!BuildCapabilities(name, d)[i])
<1> DEFINE Fixed == {U!Http(d.network), U!Shell(d.shell, 30), U!File("file_read", d.file_read),
                     U!File("file_write", d.file_write), U!Db(TRUE), U!Db(FALSE), U!Custom(name)}
           D == Fixed \cup U!Range(d.capabilities)
           caps == U!BuildCapabilities(name, d)
<1>1. /\ d.capabilities \in Seq(U!Range(d.capabilities))
      /\ \A c \in U!Range(d.capabilities) : U!Covers(c, c)
      /\ \A p \in d.file_read \cup d.file_write : U!IsPath(p.dir)
  <2>1. CASE d \in GuardDeclarations
    BY <2>1, GuardCoversItself DEF U!GuardAssumption
  <2>2. CASE d = U!Plain
    <3>1. d.capabilities = << >> /\ d.file_read = {} /\ d.file_write = {}
      BY <2>2 DEF U!Plain
    <3> QED BY <3>1 DEF U!Range
  <2> QED BY <2>1, <2>2 DEF GuardDeclared
<1>2. ASSUME NEW c \in Fixed PROVE U!Covers(c, c)
  <2>1. CASE c \in {U!File("file_read", d.file_read), U!File("file_write", d.file_write)}
    <3>1. c.type \in U!FileTypes /\ \A p \in c.paths : U!IsPath(p.dir)
      BY <1>1, <2>1 DEF U!File, U!FileTypes
    <3> QED BY <3>1, GuardPathCovers
  <2>2. CASE c \in {U!Http(d.network), U!Shell(d.shell, 30), U!Db(TRUE), U!Db(FALSE), U!Custom(name)}
    BY <2>2 DEF U!Covers, U!Http, U!Shell, U!Db, U!Custom, U!FileTypes
  <2> QED BY <2>1, <2>2
<1>3. \A c \in D : U!Covers(c, c)
  BY <1>1, <1>2
<1>4. d.capabilities \in Seq(D) /\ Fixed \subseteq D
  <2> DEFINE R == U!Range(d.capabilities)
             own == d.capabilities
  <2>1. own \in Seq(R)
    BY <1>1
  <2>2. R \subseteq D /\ Fixed \subseteq D
    OBVIOUS
  <2> HIDE DEF R, D, Fixed, own
  <2>3. own \in Seq(D)
    BY <2>1, <2>2
  <2> QED BY <2>2, <2>3 DEF own
<1>a. /\ U!Http(d.network) \in D /\ U!Shell(d.shell, 30) \in D
      /\ U!File("file_read", d.file_read) \in D /\ U!File("file_write", d.file_write) \in D
      /\ U!Db(TRUE) \in D /\ U!Db(FALSE) \in D /\ U!Custom(name) \in D
  OBVIOUS
<1> HIDE DEF D
<1>5. ASSUME NEW flag, NEW c \in D PROVE U!When(flag, c) \in Seq(D)
  BY <1>5 DEF U!When
<1>6. /\ U!When(d.network # {}, U!Http(d.network)) \in Seq(D)
      /\ U!When(d.shell # {}, U!Shell(d.shell, 30)) \in Seq(D)
      /\ U!When(d.file_read # {}, U!File("file_read", d.file_read)) \in Seq(D)
      /\ U!When(d.file_write # {}, U!File("file_write", d.file_write)) \in Seq(D)
      /\ U!When(d.db_read, U!Db(TRUE)) \in Seq(D)
      /\ U!When(d.db_write, U!Db(FALSE)) \in Seq(D)
      /\ <<U!Custom(name)>> \in Seq(D)
  <2>1. U!When(d.network # {}, U!Http(d.network)) \in Seq(D)
    BY <1>a, <1>5, Zenon
  <2>2. U!When(d.shell # {}, U!Shell(d.shell, 30)) \in Seq(D)
    BY <1>a, <1>5, Zenon
  <2>3. U!When(d.file_read # {}, U!File("file_read", d.file_read)) \in Seq(D)
    BY <1>a, <1>5, Zenon
  <2>4. U!When(d.file_write # {}, U!File("file_write", d.file_write)) \in Seq(D)
    BY <1>a, <1>5, Zenon
  <2>5. U!When(d.db_read, U!Db(TRUE)) \in Seq(D) /\ U!When(d.db_write, U!Db(FALSE)) \in Seq(D)
    BY <1>a, <1>5, Zenon
  <2>6. <<U!Custom(name)>> \in Seq(D)
    <3>1. PICK c : c = U!Custom(name)
      OBVIOUS
    <3>2. c \in D
      BY <1>a, <3>1
    <3>3. <<c>> \in Seq(D)
      BY <3>2
    <3> QED BY <3>1, <3>3
  <2> QED BY <2>1, <2>2, <2>3, <2>4, <2>5, <2>6
<1>7. ASSUME NEW r \in Seq(D), NEW s \in Seq(D) PROVE r \o s \in Seq(D)
  BY <1>7
<1>8. caps \in Seq(D)
  <2> DEFINE a == d.capabilities
             b == U!When(d.network # {}, U!Http(d.network))
             e == U!When(d.shell # {}, U!Shell(d.shell, 30))
             f == U!When(d.file_read # {}, U!File("file_read", d.file_read))
             g == U!When(d.file_write # {}, U!File("file_write", d.file_write))
             h == U!When(d.db_read, U!Db(TRUE))
             k == U!When(d.db_write, U!Db(FALSE))
             all == a \o b \o e \o f \o g \o h \o k
  <2>1. caps = IF all = << >> THEN <<U!Custom(name)>> ELSE all
    BY DEF U!BuildCapabilities
  <2> HIDE DEF a, b, e, f, g, h, k
  <2>2. a \o b \in Seq(D)
    BY <1>4, <1>6, <1>7 DEF a, b
  <2>3. a \o b \o e \in Seq(D)
    BY <1>6, <1>7, <2>2 DEF e
  <2>4. a \o b \o e \o f \in Seq(D)
    BY <1>6, <1>7, <2>3 DEF f
  <2>5. a \o b \o e \o f \o g \in Seq(D)
    BY <1>6, <1>7, <2>4 DEF g
  <2>6. a \o b \o e \o f \o g \o h \in Seq(D)
    BY <1>6, <1>7, <2>5 DEF h
  <2>7. all \in Seq(D)
    BY <1>6, <1>7, <2>6 DEF k
  <2> HIDE DEF all
  <2> QED BY <1>6, <2>1, <2>7
<1> HIDE DEF caps
<1>9. \A i \in DOMAIN caps : caps[i] \in D
  BY <1>8
<1>10. \A i \in DOMAIN caps : caps[i] \in GuardCaps
  <2>1. \A i \in DOMAIN caps : caps[i] \in U!Range(caps)
    BY DEF U!Range
  <2>2. U!Range(caps) \subseteq GuardCaps
    <3> DEFINE All == {U!Range(U!BuildCapabilities(n, e)) : n \in GuardNames, e \in GuardDeclared}
    <3>1. U!Range(caps) \in All
      BY DEF caps
    <3>2. UNION All \subseteq GuardCaps
      BY DEF GuardCaps
    <3> HIDE DEF All
    <3> QED BY <3>1, <3>2
  <2> QED BY <2>1, <2>2
<1>11. caps \in Seq(GuardCaps)
  BY <1>8, <1>10
<1> QED BY <1>3, <1>9, <1>11 DEF caps
-----------------------------------------------------------------------------
(* A grant adds one capability after the other.                            *)
LEMMA GrantIs ==
  ASSUME NEW was, NEW caps, Len(caps) \in Nat
  PROVE  \E f : /\ f[0] = was
                /\ \A i \in 1..Len(caps) : f[i] = U!Add(f[i - 1], caps[i])
                /\ U!Grant(was, caps) = f[Len(caps)]
<1> DEFINE Body(f, i) == IF i = 0 THEN was ELSE U!Add(f[i - 1], caps[i])
           Walk(n, f) == f = [i \in 0..n |-> f[i]] /\ \A i \in 0..n : f[i] = Body(f, i)
           S == {n \in 0..Len(caps) : \E f : Walk(n, f)}
<1>1. 0 \in S
  <2> DEFINE f == [i \in 0..0 |-> was]
  <2>1. Walk(0, f)
    OBVIOUS
  <2>2. \E g : Walk(0, g)
    <3> HIDE DEF Walk, f
    <3> QED BY <2>1
  <2> QED BY <2>2
<1>2. ASSUME NEW n \in 1..Len(caps), n - 1 \in S PROVE n \in S
  <2>1. PICK f : Walk(n - 1, f)
    BY <1>2
  <2> DEFINE g == [i \in 0..n |-> IF i = n THEN U!Add(f[n - 1], caps[n]) ELSE f[i]]
  <2>2. g = [i \in 0..n |-> g[i]] /\ g[n] = U!Add(f[n - 1], caps[n]) /\ \A i \in 0..(n - 1) : g[i] = f[i]
    OBVIOUS
  <2> HIDE DEF g
  <2>3. \A i \in 0..n : g[i] = Body(g, i)
    <3> SUFFICES ASSUME NEW i \in 0..n PROVE g[i] = Body(g, i)
      OBVIOUS
    <3>1. CASE i = n
      <4>1. n - 1 \in 0..(n - 1) /\ n # 0
        OBVIOUS
      <4> QED BY <2>2, <3>1, <4>1
    <3>2. CASE i # n
      <4>1. i \in 0..(n - 1) /\ (i # 0 => i - 1 \in 0..(n - 1))
        BY <3>2
      <4> QED BY <2>1, <2>2, <4>1
    <3> QED BY <3>1, <3>2
  <2>4. Walk(n, g)
    BY <2>2, <2>3
  <2>5. \E h : Walk(n, h)
    <3> HIDE DEF Walk
    <3> QED BY <2>4
  <2> HIDE DEF Walk
  <2> QED BY <2>5
<1>3. Len(caps) \in S
  <2> HIDE DEF S
  <2>1. 0..Len(caps) \subseteq S
    BY <1>1, <1>2, UpTo
  <2> QED BY <2>1
<1>4. PICK f : Walk(Len(caps), f)
  BY <1>3
<1> DEFINE Is(g) == g = [i \in 0..Len(caps) |-> Body(g, i)]
<1>5. Is(f)
  BY <1>4
<1>6. PICK g : g = CHOOSE h : Is(h)
  OBVIOUS
<1>7. Is(g)
  <2> HIDE DEF Is
  <2> QED BY <1>5, <1>6
<1>8. U!Grant(was, caps) = g[Len(caps)]
  BY <1>6, Zenon DEF U!Grant
<1>9. g[0] = was /\ \A i \in 1..Len(caps) : g[i] = U!Add(g[i - 1], caps[i])
  BY <1>7
<1> QED BY <1>8, <1>9

LEMMA HeldMeans ==
  ASSUME NEW was, NEW c
  PROVE  U!HeldCovers(was, c) <=> \E h \in U!Range(was) : U!Covers(h, c)
BY DEF U!HeldCovers, U!Range

(* What was held still is, what is added was asked for, and all that was   *)
(* asked for is covered.                                                   *)
LEMMA GrantGives ==
  ASSUME NEW C, NEW was \in Seq(C), NEW caps \in Seq(C),
         \A i \in DOMAIN caps : U!Covers(caps[i], caps[i])
  PROVE  /\ U!Grant(was, caps) \in Seq(C)
         /\ U!Range(was) \subseteq U!Range(U!Grant(was, caps))
         /\ U!Range(U!Grant(was, caps)) \subseteq U!Range(was) \cup U!Range(caps)
         /\ U!AllCovered(U!Grant(was, caps), caps)
<1>1. Len(caps) \in Nat /\ DOMAIN caps = 1..Len(caps)
  OBVIOUS
<1>2. PICK f : /\ f[0] = was
               /\ \A i \in 1..Len(caps) : f[i] = U!Add(f[i - 1], caps[i])
               /\ U!Grant(was, caps) = f[Len(caps)]
  BY <1>1, GrantIs
<1> DEFINE S == {i \in 0..Len(caps) :
                   /\ f[i] \in Seq(C)
                   /\ U!Range(was) \subseteq U!Range(f[i])
                   /\ U!Range(f[i]) \subseteq U!Range(was) \cup U!Range(caps)
                   /\ \A j \in 1..i : \E h \in U!Range(f[i]) : U!Covers(h, caps[j])}
<1>3. 0 \in S
  BY <1>1, <1>2
<1>4. ASSUME NEW i \in 1..Len(caps), i - 1 \in S PROVE i \in S
  <2> DEFINE old == f[i - 1]
             new == f[i]
  <2>1. /\ old \in Seq(C) /\ U!Range(was) \subseteq U!Range(old)
        /\ U!Range(old) \subseteq U!Range(was) \cup U!Range(caps)
        /\ \A j \in 1..(i - 1) : \E h \in U!Range(old) : U!Covers(h, caps[j])
    BY <1>4
  <2>2. caps[i] \in C /\ caps[i] \in U!Range(caps) /\ U!Covers(caps[i], caps[i])
    BY <1>1 DEF U!Range
  <2>3. new = IF U!HeldCovers(old, caps[i]) THEN old ELSE Append(old, caps[i])
    BY <1>2 DEF U!Add
  <2> HIDE DEF old, new
  <2>4. /\ new \in Seq(C) /\ U!Range(old) \subseteq U!Range(new)
        /\ U!Range(new) \subseteq U!Range(old) \cup {caps[i]}
        /\ \E h \in U!Range(new) : U!Covers(h, caps[i])
    <3>1. CASE U!HeldCovers(old, caps[i])
      BY <2>1, <2>3, <3>1, HeldMeans
    <3>2. CASE ~U!HeldCovers(old, caps[i])
      <4>1. new = Append(old, caps[i])
        BY <2>3, <3>2
      <4>2. PICK n \in Nat : n = Len(old)
        BY <2>1
      <4>3. /\ DOMAIN old = 1..n /\ DOMAIN new = 1..(n + 1) /\ new[n + 1] = caps[i]
            /\ \A k \in 1..n : new[k] = old[k]
            /\ new \in Seq(C)
        BY <2>1, <2>2, <4>1, <4>2
      <4>4. U!Range(new) = U!Range(old) \cup {caps[i]}
        <5>1. \A x : x \in U!Range(old) <=> \E k \in 1..n : x = old[k]
          BY <4>3 DEF U!Range
        <5>2. \A x : x \in U!Range(new) <=> \E k \in 1..(n + 1) : x = new[k]
          BY <4>3 DEF U!Range
        <5>3. 1..(n + 1) = (1..n) \cup {n + 1}
          BY <4>2
        <5> QED BY <4>3, <5>1, <5>2, <5>3
      <4> QED BY <2>2, <4>3, <4>4
    <3> QED BY <3>1, <3>2
  <2>5. \A j \in 1..i : \E h \in U!Range(new) : U!Covers(h, caps[j])
    <3> SUFFICES ASSUME NEW j \in 1..i PROVE \E h \in U!Range(new) : U!Covers(h, caps[j])
      OBVIOUS
    <3>1. CASE j = i
      BY <2>4, <3>1
    <3>2. CASE j # i
      <4>1. j \in 1..(i - 1)
        BY <3>2
      <4> QED BY <2>1, <2>4, <4>1
    <3> QED BY <3>1, <3>2
  <2>6. U!Range(was) \subseteq U!Range(new) /\ U!Range(new) \subseteq U!Range(was) \cup U!Range(caps)
    BY <2>1, <2>2, <2>4
  <2> QED BY <2>4, <2>5, <2>6 DEF new
<1>5. Len(caps) \in S
  <2> HIDE DEF S
  <2>1. 0..Len(caps) \subseteq S
    BY <1>1, <1>3, <1>4, UpTo
  <2> QED BY <1>1, <2>1
<1>6. U!AllCovered(U!Grant(was, caps), caps)
  BY <1>1, <1>2, <1>5, HeldMeans DEF U!AllCovered
<1> QED BY <1>2, <1>5, <1>6
-----------------------------------------------------------------------------
(* What tool and protect work on, by parts. *)
Registration == [caps : Seq(GuardCaps), guard : 1..Len(guards)]
GuardHandles == [guard : 1..Len(guards), agent : 1..Len(identities), name : GuardNames]
Registries == [GuardNames -> Registration \cup {Nothing}]
Toolsets == [GuardNames -> GuardHandles \cup {Nothing}]

GuardWorlds ==
  [registry : Registries, agents : [1..Len(identities) -> Seq(GuardCaps)],
   guarded : [1..Len(guards) -> Toolsets], failed : SUBSET Registration, raised : BOOLEAN]

GuardRecords ==
  [auto_grant : BOOLEAN, agent : 1..Len(identities), tracker : 0..Len(trackers)]

GuardTypes ==
  /\ guards \in Seq(GuardRecords) /\ Len(guards) <= MaxGuards
  /\ identities \in Seq(Seq(GuardCaps)) /\ initially \in Seq(Seq(GuardCaps))
  /\ Len(initially) = Len(identities)
  /\ trackers \in Seq(SUBSET Values)
  /\ tracker \in 0..Len(trackers) /\ shared \in 0..Len(identities)
  /\ guardOps \in 0..GuardOps

(* Once there is a tracker the runtime has one. *)
RuntimeTracks == trackers # << >> => tracker # 0

Accounting(w) == (U!Range(w.registry) \ {Nothing}) \cup w.failed

Accounts(r, a, c) ==
  c \in U!Range(r.caps) /\ guards[r.guard].auto_grant /\ guards[r.guard].agent = a

AccountedIn(w) ==
  \A a \in 1..Len(identities) : \A c \in U!Range(w.agents[a]) \ U!Range(initially[a]) :
    \E r \in Accounting(w) : Accounts(r, a, c)

CallableIn(w) ==
  \A n \in GuardNames :
    w.registry[n] # Nothing /\ guards[w.registry[n].guard].auto_grant =>
      U!AllCovered(w.agents[guards[w.registry[n].guard].agent], w.registry[n].caps)

GoodWorlds == {w \in GuardWorlds : AccountedIn(w) /\ CallableIn(w)}

LEMMA CoveredStays ==
  ASSUME NEW old, NEW new, NEW caps, U!Range(old) \subseteq U!Range(new), U!AllCovered(old, caps)
  PROVE  U!AllCovered(new, caps)
<1>1. \A c : U!HeldCovers(old, c) => U!HeldCovers(new, c)
  <2> SUFFICES ASSUME NEW c, U!HeldCovers(old, c) PROVE U!HeldCovers(new, c)
    OBVIOUS
  <2>1. PICK h \in U!Range(old) : U!Covers(h, c)
    BY HeldMeans
  <2> QED BY <2>1, HeldMeans
<1> QED BY <1>1 DEF U!AllCovered

(* A guard's agent is granted what its tool needs, and the tool is         *)
(* registered or its registration raises: either accounts for the grant.   *)
LEMMA GuardRegisterKeeps ==
  ASSUME U!GuardAssumption, GuardTypes,
         NEW w \in GoodWorlds, NEW g \in 1..Len(guards), NEW name \in GuardNames,
         NEW d \in GuardDeclared, NEW known \in BOOLEAN, NEW wider \in Seq(GuardCaps),
         NEW caps, caps = U!BuildCapabilities(name, d),
         U!Range(w.agents[guards[g].agent]) \subseteq U!Range(wider),
         U!Range(wider) \subseteq U!Range(w.agents[guards[g].agent]) \cup U!Range(caps),
         guards[g].auto_grant => U!AllCovered(wider, caps),
         ~guards[g].auto_grant => wider = w.agents[guards[g].agent]
  PROVE  U!Register([w EXCEPT !.agents[guards[g].agent] = wider], g, name, caps, known) \in GoodWorlds
<1> DEFINE a == guards[g].agent
           v == [w EXCEPT !.agents[a] = wider]
           new == [caps |-> caps, guard |-> g]
           out == U!Register(v, g, name, caps, known)
<1>1. PICK n \in Nat : n = Len(guards)
  BY DEF GuardTypes
<1>2. PICK m \in Nat : m = Len(identities)
  BY DEF GuardTypes
<1>3. /\ a \in 1..m /\ guards[g].auto_grant \in BOOLEAN /\ g \in 1..n /\ g \in 1..MaxGuards
  <2>1. guards[g] \in GuardRecords /\ Len(guards) <= MaxGuards
    BY <1>1 DEF GuardTypes
  <2>2. MaxGuards \in Nat
    BY DEF U!GuardAssumption
  <2> QED BY <1>1, <1>2, <2>1, <2>2 DEF GuardRecords
<1>4. caps \in Seq(GuardCaps)
  BY GuardBuilds
<1>5. new # Nothing
  BY <1>3, Zenon DEF U!GuardAssumption, GuardDeclared
<1>6. new \in Registration
  BY <1>4 DEF Registration
<1>7. U!Handle(g, name) \in GuardHandles
  BY <1>2, <1>3 DEF U!Handle, GuardHandles
<1>8. /\ w \in GuardWorlds /\ AccountedIn(w) /\ CallableIn(w)
  BY DEF GoodWorlds
<1>9. /\ v \in GuardWorlds /\ v.registry = w.registry /\ v.failed = w.failed
      /\ v.guarded = w.guarded
      /\ v.agents[a] = wider /\ \A b \in 1..m : b # a => v.agents[b] = w.agents[b]
  BY <1>2, <1>3, <1>8 DEF GuardWorlds
<1> HIDE DEF v, new, a
<1>10. out = IF ~known \/ v.registry[name] # Nothing
             THEN [v EXCEPT !.raised = TRUE, !.failed = @ \cup {new}]
             ELSE [v EXCEPT !.registry[name] = new, !.guarded[g][name] = U!Handle(g, name)]
  BY DEF U!Register, new
<1> HIDE DEF out
<1>11. \A b \in 1..m : \A c \in U!Range(w.agents[b]) \ U!Range(initially[b]) :
         \E r \in Accounting(w) : Accounts(r, b, c)
  BY <1>2, <1>8 DEF AccountedIn
<1>12. ASSUME NEW R, Accounting(w) \subseteq R, new \in R,
              NEW b \in 1..m, NEW c \in U!Range(v.agents[b]) \ U!Range(initially[b])
       PROVE  \E r \in R : Accounts(r, b, c)
  <2>1. CASE b # a \/ c \in U!Range(w.agents[a])
    <3>1. c \in U!Range(w.agents[b]) \ U!Range(initially[b])
      BY <1>9, <2>1
    <3>2. PICK r \in Accounting(w) : Accounts(r, b, c)
      BY <1>11, <3>1
    <3> QED BY <1>12, <3>2
  <2>2. CASE b = a /\ c \notin U!Range(w.agents[a])
    <3>1. c \in U!Range(wider)
      BY <1>9, <2>2
    <3>2. c \in U!Range(caps)
      BY <2>2, <3>1 DEF a
    <3>3. guards[g].auto_grant
      BY <2>2, <3>1 DEF a
    <3>4. new.caps = caps /\ new.guard = g
      BY DEF new
    <3>5. Accounts(new, b, c)
      BY <2>2, <3>2, <3>3, <3>4, SMTT(30) DEF a, Accounts
    <3> QED BY <1>12, <3>5
  <2> QED BY <2>1, <2>2
<1>13. \A k \in GuardNames :
         w.registry[k] # Nothing /\ guards[w.registry[k].guard].auto_grant =>
           U!AllCovered(v.agents[guards[w.registry[k].guard].agent], w.registry[k].caps)
  <2> SUFFICES ASSUME NEW k \in GuardNames, w.registry[k] # Nothing,
                      guards[w.registry[k].guard].auto_grant
               PROVE  U!AllCovered(v.agents[guards[w.registry[k].guard].agent], w.registry[k].caps)
    OBVIOUS
  <2> DEFINE b == guards[w.registry[k].guard].agent
  <2>1. b \in 1..m
    <3>1. w.registry[k] \in Registration
      BY <1>8 DEF GuardWorlds, Registries
    <3>2. w.registry[k].guard \in 1..n
      BY <1>1, <3>1 DEF Registration
    <3>3. guards[w.registry[k].guard] \in GuardRecords
      BY <1>1, <3>2 DEF GuardTypes
    <3> QED BY <1>2, <3>3 DEF GuardRecords
  <2>2. U!AllCovered(w.agents[b], w.registry[k].caps)
    BY <1>8 DEF CallableIn
  <2>3. U!Range(w.agents[b]) \subseteq U!Range(v.agents[b])
    BY <1>9, <2>1 DEF a
  <2> QED BY <2>2, <2>3, CoveredStays, Zenon
<1>14. ASSUME ~known \/ v.registry[name] # Nothing PROVE out \in GoodWorlds
  <2>1. out = [v EXCEPT !.raised = TRUE, !.failed = @ \cup {new}]
    BY <1>10, <1>14
  <2>2. /\ out \in GuardWorlds /\ out.registry = w.registry /\ out.failed = w.failed \cup {new}
        /\ out.agents = v.agents
    BY <1>6, <1>9, <2>1 DEF GuardWorlds
  <2>3. AccountedIn(out)
    <3>1. Accounting(w) \subseteq Accounting(out) /\ new \in Accounting(out)
      BY <2>2 DEF Accounting
    <3> QED BY <1>2, <1>12, <2>2, <3>1 DEF AccountedIn
  <2>4. CallableIn(out)
    BY <1>13, <2>2 DEF CallableIn
  <2> QED BY <2>2, <2>3, <2>4, Zenon DEF GoodWorlds
<1>15. ASSUME known, v.registry[name] = Nothing PROVE out \in GoodWorlds
  <2>1. out = [v EXCEPT !.registry[name] = new, !.guarded[g][name] = U!Handle(g, name)]
    BY <1>10, <1>15
  <2>2. /\ out \in GuardWorlds /\ out.failed = w.failed /\ out.agents = v.agents
        /\ out.registry = [w.registry EXCEPT ![name] = new]
    BY <1>1, <1>3, <1>6, <1>7, <1>9, <2>1 DEF GuardWorlds, Registries, Toolsets
  <2>3. w.registry \in Registries
    BY <1>8 DEF GuardWorlds
  <2>4. /\ U!Range(w.registry) \ {Nothing} \subseteq U!Range(out.registry) \ {Nothing}
        /\ new \in U!Range(out.registry) \ {Nothing}
    <3>1. DOMAIN w.registry = GuardNames /\ DOMAIN out.registry = GuardNames
      BY <2>2, <2>3 DEF Registries
    <3>2. out.registry[name] = new /\ \A k \in GuardNames : k # name => out.registry[k] = w.registry[k]
      BY <2>2, <3>1
    <3>3. \A x \in U!Range(w.registry) \ {Nothing} : \E k \in GuardNames : k # name /\ x = w.registry[k]
      BY <1>9, <1>15, <3>1 DEF U!Range
    <3>4. \A x : x \in U!Range(out.registry) <=> \E k \in GuardNames : x = out.registry[k]
      BY <3>1 DEF U!Range
    <3>5. new # Nothing
      BY <1>5 DEF new
    <3> QED BY <3>2, <3>3, <3>4, <3>5
  <2>5. AccountedIn(out)
    <3>1. Accounting(w) \subseteq Accounting(out) /\ new \in Accounting(out)
      BY <2>2, <2>4 DEF Accounting
    <3> QED BY <1>2, <1>12, <2>2, <3>1 DEF AccountedIn
  <2>6. CallableIn(out)
    <3> SUFFICES ASSUME NEW k \in GuardNames, out.registry[k] # Nothing,
                        guards[out.registry[k].guard].auto_grant
                 PROVE  U!AllCovered(out.agents[guards[out.registry[k].guard].agent], out.registry[k].caps)
      BY DEF CallableIn
    <3>1. CASE k # name
      <4>1. out.registry[k] = w.registry[k]
        BY <2>2, <2>3, <3>1 DEF Registries
      <4> QED BY <1>13, <2>2, <4>1
    <3>2. CASE k = name
      <4>1. out.registry[k] = new
        BY <2>2, <2>3, <3>2 DEF Registries
      <4>2. new.guard = g /\ new.caps = caps
        BY DEF new
      <4>3. guards[g].auto_grant /\ out.agents[guards[g].agent] = wider
        BY <1>9, <2>2, <4>1, <4>2 DEF a
      <4> QED BY <4>1, <4>2, <4>3
    <3> QED BY <3>1, <3>2
  <2> QED BY <2>2, <2>5, <2>6, Zenon DEF GoodWorlds
<1>16. out \in GoodWorlds
  BY <1>10, <1>14, <1>15
<1> QED BY <1>16 DEF out, v, a

LEMMA AddToolKeeps ==
  ASSUME U!GuardAssumption, GuardTypes,
         NEW w \in GoodWorlds, NEW g \in 1..Len(guards), NEW name \in GuardNames,
         NEW d \in GuardDeclared
  PROVE  U!AddTool(w, g, name, d) \in GoodWorlds
<1> DEFINE a == guards[g].agent
           caps == U!BuildCapabilities(name, d)
           was == w.agents[a]
           given == IF guards[g].auto_grant THEN U!Grant(was, caps) ELSE was
<1>1. caps \in Seq(GuardCaps) /\ \A i \in DOMAIN caps : U!Covers(caps[i], caps[i])
  BY GuardBuilds
<1>2. was \in Seq(GuardCaps)
  <2>1. guards[g] \in GuardRecords
    BY DEF GuardTypes
  <2>2. a \in 1..Len(identities)
    BY <2>1 DEF GuardRecords
  <2>3. w \in GuardWorlds
    BY DEF GoodWorlds
  <2> QED BY <2>2, <2>3 DEF GuardWorlds
<1> HIDE DEF was, caps
<1>3. /\ U!Grant(was, caps) \in Seq(GuardCaps)
      /\ U!Range(was) \subseteq U!Range(U!Grant(was, caps))
      /\ U!Range(U!Grant(was, caps)) \subseteq U!Range(was) \cup U!Range(caps)
      /\ U!AllCovered(U!Grant(was, caps), caps)
  BY <1>1, <1>2, GrantGives
<1>4. /\ given \in Seq(GuardCaps)
      /\ U!Range(was) \subseteq U!Range(given)
      /\ U!Range(given) \subseteq U!Range(was) \cup U!Range(caps)
      /\ guards[g].auto_grant => U!AllCovered(given, caps)
      /\ ~guards[g].auto_grant => given = was
  BY <1>2, <1>3
<1>5. U!AddTool(w, g, name, d)
        = U!Register([w EXCEPT !.agents[guards[g].agent] = given], g, name, caps, d.risk \in U!Risks)
  BY DEF U!AddTool, was, caps
<1> HIDE DEF given
<1>6. (d.risk \in U!Risks) \in BOOLEAN
  OBVIOUS
<1>7. PICK known \in BOOLEAN : known = (d.risk \in U!Risks)
  BY <1>6
<1>8. caps = U!BuildCapabilities(name, d)
  BY DEF caps
<1>9. /\ U!Range(w.agents[guards[g].agent]) \subseteq U!Range(given)
      /\ U!Range(given) \subseteq U!Range(w.agents[guards[g].agent]) \cup U!Range(caps)
      /\ ~guards[g].auto_grant => given = w.agents[guards[g].agent]
  BY <1>4 DEF was
<1>10. U!Register([w EXCEPT !.agents[guards[g].agent] = given], g, name, caps, known) \in GoodWorlds
  BY <1>4, <1>8, <1>9, GuardRegisterKeeps
<1> QED BY <1>5, <1>7, <1>10

(* A tool of another guard is kept by name; nothing else changes. *)
LEMMA ProtectOneKeeps ==
  ASSUME U!GuardAssumption, GuardTypes,
         NEW w \in GoodWorlds, NEW g \in 1..Len(guards),
         NEW item \in [kind : {"tool"}, tool : GuardHandles]
                        \cup [kind : {"function"}, name : GuardNames]
                        \cup {[kind |-> "other"]}
  PROVE  U!ProtectOne(w, g, item) \in GoodWorlds
<1>1. CASE w.raised
  BY <1>1 DEF U!ProtectOne
<1>2. CASE ~w.raised /\ item.kind = "tool"
  <2> DEFINE h == item.tool
             out == [w EXCEPT !.guarded[g][h.name] = IF @ = Nothing THEN h ELSE @]
  <2>1. U!ProtectOne(w, g, item) = out
    BY <1>2 DEF U!ProtectOne
  <2>2. h \in GuardHandles /\ h.name \in GuardNames
    BY <1>2 DEF GuardHandles
  <2> HIDE DEF h
  <2>3. w \in GuardWorlds /\ AccountedIn(w) /\ CallableIn(w)
    BY DEF GoodWorlds
  <2>4. /\ out \in GuardWorlds /\ out.registry = w.registry /\ out.failed = w.failed
        /\ out.agents = w.agents
    BY <2>2, <2>3, ZenonT(60) DEF GuardWorlds, Toolsets
  <2> HIDE DEF out
  <2>5. AccountedIn(out) /\ CallableIn(out)
    BY <2>3, <2>4 DEF AccountedIn, CallableIn, Accounting
  <2>6. out \in GoodWorlds
    BY <2>4, <2>5, Zenon DEF GoodWorlds
  <2> QED BY <2>1, <2>6
<1>3. CASE ~w.raised /\ item.kind = "function"
  <2>1. U!ProtectOne(w, g, item) = U!AddTool(w, g, item.name, U!Plain)
    BY <1>3 DEF U!ProtectOne
  <2>2. item.name \in GuardNames
    BY <1>3
  <2>3. U!Plain \in GuardDeclared
    BY DEF GuardDeclared
  <2> QED BY <2>1, <2>2, <2>3, AddToolKeeps
<1>4. CASE ~w.raised /\ item.kind # "tool" /\ item.kind # "function"
  <2> DEFINE out == [w EXCEPT !.raised = TRUE]
  <2>1. U!ProtectOne(w, g, item) = out
    BY <1>4 DEF U!ProtectOne
  <2>3. w \in GuardWorlds /\ AccountedIn(w) /\ CallableIn(w)
    BY DEF GoodWorlds
  <2>4. /\ out \in GuardWorlds /\ out.registry = w.registry /\ out.failed = w.failed
        /\ out.agents = w.agents
    BY <2>3 DEF GuardWorlds
  <2> HIDE DEF out
  <2>5. AccountedIn(out) /\ CallableIn(out)
    BY <2>3, <2>4 DEF AccountedIn, CallableIn, Accounting
  <2>6. out \in GoodWorlds
    BY <2>4, <2>5, Zenon DEF GoodWorlds
  <2> QED BY <2>1, <2>6
<1> QED BY <1>1, <1>2, <1>3, <1>4

(* protect takes its items one after the other. *)
LEMMA ProtectIs ==
  ASSUME NEW g, NEW items, Len(items) \in Nat
  PROVE  \E f : /\ f[0] = U!World
                /\ \A i \in 1..Len(items) : f[i] = U!ProtectOne(f[i - 1], g, items[i])
                /\ U!Protect(g, items) <=> U!Becomes(f[Len(items)])
<1> DEFINE Body(f, i) == IF i = 0 THEN U!World ELSE U!ProtectOne(f[i - 1], g, items[i])
           Walk(n, f) == f = [i \in 0..n |-> f[i]] /\ \A i \in 0..n : f[i] = Body(f, i)
           S == {n \in 0..Len(items) : \E f : Walk(n, f)}
<1>1. 0 \in S
  <2> DEFINE f == [i \in 0..0 |-> U!World]
  <2>1. Walk(0, f)
    OBVIOUS
  <2>2. \E h : Walk(0, h)
    <3> HIDE DEF Walk, f
    <3> QED BY <2>1
  <2> QED BY <2>2
<1>2. ASSUME NEW n \in 1..Len(items), n - 1 \in S PROVE n \in S
  <2>1. PICK f : Walk(n - 1, f)
    BY <1>2
  <2> DEFINE h == [i \in 0..n |-> IF i = n THEN U!ProtectOne(f[n - 1], g, items[n]) ELSE f[i]]
  <2>2. /\ h = [i \in 0..n |-> h[i]] /\ h[n] = U!ProtectOne(f[n - 1], g, items[n])
        /\ \A i \in 0..(n - 1) : h[i] = f[i]
    OBVIOUS
  <2> HIDE DEF h
  <2>3. \A i \in 0..n : h[i] = Body(h, i)
    <3> SUFFICES ASSUME NEW i \in 0..n PROVE h[i] = Body(h, i)
      OBVIOUS
    <3>1. CASE i = n
      <4>1. n - 1 \in 0..(n - 1) /\ n # 0
        OBVIOUS
      <4> QED BY <2>2, <3>1, <4>1
    <3>2. CASE i # n
      <4>1. i \in 0..(n - 1) /\ (i # 0 => i - 1 \in 0..(n - 1))
        BY <3>2
      <4> QED BY <2>1, <2>2, <4>1
    <3> QED BY <3>1, <3>2
  <2>4. Walk(n, h)
    BY <2>2, <2>3
  <2>5. \E k : Walk(n, k)
    <3> HIDE DEF Walk
    <3> QED BY <2>4
  <2> HIDE DEF Walk
  <2> QED BY <2>5
<1>3. Len(items) \in S
  <2> HIDE DEF S
  <2>1. 0..Len(items) \subseteq S
    BY <1>1, <1>2, UpTo
  <2> QED BY <2>1
<1>4. PICK f : Walk(Len(items), f)
  BY <1>3
<1> DEFINE Is(h) == h = [i \in 0..Len(items) |-> Body(h, i)]
<1>5. Is(f)
  BY <1>4
<1>6. PICK h : h = CHOOSE k : Is(k)
  OBVIOUS
<1>7. Is(h)
  <2> HIDE DEF Is
  <2> QED BY <1>5, <1>6
<1>8. U!Protect(g, items) <=> U!Becomes(h[Len(items)])
  BY <1>6, Zenon DEF U!Protect
<1>9. h[0] = U!World /\ \A i \in 1..Len(items) : h[i] = U!ProtectOne(h[i - 1], g, items[i])
  BY <1>7
<1> QED BY <1>8, <1>9

LEMMA ProtectKeeps ==
  ASSUME U!GuardAssumption, GuardTypes, U!World \in GoodWorlds,
         NEW g \in 1..Len(guards), NEW items, U!Protect(g, items), Len(items) \in Nat,
         \A i \in 1..Len(items) :
           items[i] \in [kind : {"tool"}, tool : GuardHandles]
                        \cup [kind : {"function"}, name : GuardNames]
                        \cup {[kind |-> "other"]}
  PROVE  \E w \in GoodWorlds : U!Becomes(w)
<1>1. PICK f : /\ f[0] = U!World
               /\ \A i \in 1..Len(items) : f[i] = U!ProtectOne(f[i - 1], g, items[i])
               /\ U!Protect(g, items) <=> U!Becomes(f[Len(items)])
  BY ProtectIs
<1> DEFINE S == {i \in 0..Len(items) : f[i] \in GoodWorlds}
<1>2. 0 \in S
  BY <1>1
<1>3. ASSUME NEW i \in 1..Len(items), i - 1 \in S PROVE i \in S
  <2>1. f[i - 1] \in GoodWorlds /\ f[i] = U!ProtectOne(f[i - 1], g, items[i])
    BY <1>1, <1>3
  <2> QED BY <2>1, ProtectOneKeeps
<1>4. Len(items) \in S
  <2> HIDE DEF S
  <2>1. 0..Len(items) \subseteq S
    BY <1>2, <1>3, UpTo
  <2> QED BY <2>1
<1> QED BY <1>1, <1>4

LEMMA SequenceOfFunction ==
  ASSUME NEW n \in Nat, NEW X, NEW s \in [1..n -> X]
  PROVE  s \in Seq(X) /\ Len(s) = n
<1>1. s \in Seq(X)
  BY SeqDef
<1> QED BY <1>1

LEMMA HeldFits ==
  ASSUME U!GuardAssumption, NEW caps \in Held
  PROVE  caps \in Seq(GuardCaps)
<1>1. caps \in Seq(U!Range(caps))
  BY DEF U!GuardAssumption
<1>2. U!Range(caps) \subseteq GuardCaps
  <2> DEFINE All == {U!Range(c) : c \in Held}
  <2>1. U!Range(caps) \in All
    OBVIOUS
  <2>2. UNION All \subseteq GuardCaps
    BY DEF GuardCaps
  <2> HIDE DEF All
  <2> QED BY <2>1, <2>2
<1>3. PICK R : R = U!Range(caps)
  OBVIOUS
<1> QED BY <1>1, <1>2, <1>3
-----------------------------------------------------------------------------
GuardInv ==
  /\ GuardTypes
  /\ U!World \in GoodWorlds
  /\ RuntimeTracks
  /\ U!MarksSeen

LEMMA GuardStarts ==
  ASSUME U!GuardAssumption, U!Init
  PROVE  GuardInv
<1>1. PICK caps \in Held, own \in BOOLEAN, default_agent \in BOOLEAN, tracked \in BOOLEAN,
           auto_grant \in BOOLEAN :
       /\ own => default_agent /\ tracked
       /\ ~own => ~auto_grant
       /\ identities = IF default_agent THEN <<caps>> ELSE << >>
       /\ shared = IF default_agent THEN 1 ELSE 0
       /\ trackers = IF tracked THEN <<{}>> ELSE << >>
       /\ tracker = IF tracked THEN 1 ELSE 0
       /\ guards = IF own THEN <<[auto_grant |-> auto_grant, agent |-> 1, tracker |-> 1]>> ELSE << >>
       /\ guarded = [g \in DOMAIN guards |-> [n \in GuardNames |-> Nothing]]
  BY Zenon DEF U!Init
<1>2. /\ registry = [n \in GuardNames |-> Nothing] /\ guardOps = 0
      /\ failed = {} /\ marked = {} /\ initially = identities
  BY DEF U!Init
<1>3. caps \in Seq(GuardCaps)
  BY HeldFits
<1>4. identities \in Seq(Seq(GuardCaps)) /\ Len(identities) = (IF default_agent THEN 1 ELSE 0)
  BY <1>1, <1>3
<1>5. trackers \in Seq(SUBSET Values) /\ Len(trackers) = (IF tracked THEN 1 ELSE 0)
  <2>1. PICK X : X = SUBSET Values
    OBVIOUS
  <2>2. PICK x \in X : x = {}
    BY <2>1
  <2>3. trackers = IF tracked THEN <<x>> ELSE << >>
    BY <1>1, <2>2
  <2>4. trackers \in Seq(X) /\ Len(trackers) = (IF tracked THEN 1 ELSE 0)
    BY <2>3
  <2> QED BY <2>1, <2>4
<1>6. guards \in Seq(GuardRecords) /\ Len(guards) = (IF own THEN 1 ELSE 0)
  <2>1. CASE own
    <3>1. [auto_grant |-> auto_grant, agent |-> 1, tracker |-> 1] \in GuardRecords
      BY <1>1, <1>4, <1>5, <2>1 DEF GuardRecords
    <3> QED BY <1>1, <2>1, <3>1
  <2>2. CASE ~own
    BY <1>1, <2>2
  <2> QED BY <2>1, <2>2
<1>7. guardOps \in 0..GuardOps /\ MaxGuards \in Nat \ {0}
  BY <1>2 DEF U!GuardAssumption
<1>8. GuardTypes
  BY <1>1, <1>2, <1>4, <1>5, <1>6, <1>7 DEF GuardTypes
<1>9. /\ U!World = [registry |-> registry, agents |-> identities, guarded |-> guarded,
                    failed |-> failed, raised |-> FALSE]
  BY DEF U!World
<1>10. U!World \in GuardWorlds
  <2>1. registry \in Registries /\ [n \in GuardNames |-> Nothing] \in Toolsets
    BY <1>2 DEF Registries, Toolsets
  <2>2. DOMAIN guards = 1..Len(guards)
    BY <1>6, LenProperties
  <2>3. guarded \in [1..Len(guards) -> Toolsets]
    BY <1>1, <2>1, <2>2
  <2>4. identities \in [1..Len(identities) -> Seq(GuardCaps)]
    BY <1>4, LenProperties
  <2>5. failed \in SUBSET Registration
    BY <1>2
  <2> QED BY <1>9, <2>1, <2>3, <2>4, <2>5 DEF GuardWorlds
<1>11. AccountedIn(U!World)
  BY <1>2, <1>9 DEF AccountedIn
<1>12. CallableIn(U!World)
  BY <1>2, <1>9 DEF CallableIn
<1>13. RuntimeTracks /\ U!MarksSeen
  BY <1>1, <1>2 DEF RuntimeTracks, U!MarksSeen
<1> QED BY <1>8, <1>10, <1>11, <1>12, <1>13 DEF GuardInv, GoodWorlds
-----------------------------------------------------------------------------
LEMMA GuardWrap ==
  ASSUME U!GuardAssumption, GuardInv, NEW g \in DOMAIN guards, NEW name \in GuardNames,
         U!Wrap(g, name)
  PROVE  GuardInv'
<1>1. PICK n \in Nat : n = Len(guards)
  BY DEF GuardInv, GuardTypes
<1>2. PICK m \in Nat : m = Len(identities)
  BY DEF GuardInv, GuardTypes
<1>3. /\ guardOps < GuardOps /\ guardOps' = guardOps + 1
      /\ guarded' = [guarded EXCEPT ![g][name] = U!Handle(g, name)]
      /\ registry' = registry /\ tracker' = tracker /\ trackers' = trackers
      /\ identities' = identities /\ shared' = shared /\ guards' = guards
      /\ initially' = initially /\ failed' = failed /\ marked' = marked
  BY DEF U!Wrap
<1>4. GuardTypes'
  <2>1. GuardTypes /\ GuardOps \in Nat
    BY DEF GuardInv, U!GuardAssumption
  <2>2. guardOps' \in 0..GuardOps
    BY <1>3, <2>1 DEF GuardTypes
  <2>3. GuardRecords' = GuardRecords
    BY <1>3 DEF GuardRecords
  <2> QED BY <1>3, <2>1, <2>2, <2>3 DEF GuardTypes
<1>5. /\ g \in 1..n /\ guards[g].agent \in 1..m
  <2>1. g \in 1..n /\ guards[g] \in GuardRecords
    BY <1>1 DEF GuardInv, GuardTypes
  <2> QED BY <1>2, <2>1 DEF GuardRecords
<1>6. U!Handle(g, name) \in GuardHandles
  BY <1>1, <1>2, <1>5 DEF U!Handle, GuardHandles
<1>7. guarded \in [1..n -> Toolsets]
  BY <1>1 DEF GuardInv, GoodWorlds, GuardWorlds, U!World
<1>8. guarded' \in [1..n -> Toolsets]
  BY <1>3, <1>5, <1>6, <1>7 DEF Toolsets
<1>9. /\ Toolsets' = Toolsets /\ Registration' = Registration /\ Registries' = Registries
  BY <1>3 DEF Toolsets, Registration, Registries, GuardHandles
<1>10. U!World \in GuardWorlds /\ AccountedIn(U!World) /\ CallableIn(U!World)
  BY DEF GuardInv, GoodWorlds
<1>11. U!World' \in GuardWorlds'
  BY <1>1, <1>3, <1>8, <1>9, <1>10 DEF U!World, GuardWorlds
<1>12. AccountedIn(U!World)'
  BY <1>3, <1>10 DEF AccountedIn, Accounting, Accounts, U!World
<1>13. CallableIn(U!World)'
  BY <1>3, <1>10 DEF CallableIn, U!World
<1>14. RuntimeTracks' /\ U!MarksSeen'
  BY <1>3 DEF GuardInv, RuntimeTracks, U!MarksSeen
<1> QED BY <1>4, <1>11, <1>12, <1>13, <1>14 DEF GuardInv, GoodWorlds

LEMMA GuardBecomes ==
  ASSUME U!GuardAssumption, GuardInv, NEW w \in GoodWorlds, U!Becomes(w)
  PROVE  GuardInv'
<1>1. PICK n \in Nat : n = Len(guards)
  BY DEF GuardInv, GuardTypes
<1>2. PICK m \in Nat : m = Len(identities)
  BY DEF GuardInv, GuardTypes
<1>3. /\ guardOps < GuardOps /\ guardOps' = guardOps + 1
      /\ registry' = w.registry /\ identities' = w.agents /\ guarded' = w.guarded /\ failed' = w.failed
      /\ tracker' = tracker /\ trackers' = trackers
      /\ shared' = shared /\ guards' = guards
      /\ initially' = initially /\ marked' = marked
  BY DEF U!Becomes
<1>4. w \in GuardWorlds /\ AccountedIn(w) /\ CallableIn(w)
  BY DEF GoodWorlds
<1>5. identities' \in Seq(Seq(GuardCaps)) /\ Len(identities') = m
  <2>1. identities' \in [1..m -> Seq(GuardCaps)]
    BY <1>2, <1>3, <1>4 DEF GuardWorlds
  <2> QED BY <2>1, SequenceOfFunction
<1>6. GuardTypes'
  <2>1. GuardTypes /\ GuardOps \in Nat
    BY DEF GuardInv, U!GuardAssumption
  <2>2. guardOps' \in 0..GuardOps
    BY <1>3, <2>1 DEF GuardTypes
  <2>3. GuardRecords' = GuardRecords
    BY <1>2, <1>3, <1>5 DEF GuardRecords
  <2> QED BY <1>2, <1>3, <1>5, <2>1, <2>2, <2>3 DEF GuardTypes
<1>9. /\ Toolsets' = Toolsets /\ Registration' = Registration /\ Registries' = Registries
  BY <1>2, <1>3, <1>5 DEF Toolsets, Registration, Registries, GuardHandles
<1>11. U!World' \in GuardWorlds'
  BY <1>1, <1>2, <1>3, <1>4, <1>5, <1>9 DEF U!World, GuardWorlds
<1>12. AccountedIn(U!World)'
  <2>1. /\ U!World'.agents = w.agents /\ U!World'.registry = w.registry
        /\ U!World'.failed = w.failed
    BY <1>3 DEF U!World
  <2>2. \A a \in 1..m : \A c \in U!Range(w.agents[a]) \ U!Range(initially[a]) :
          \E r \in Accounting(w) : Accounts(r, a, c)
    BY <1>2, <1>4 DEF AccountedIn
  <2>3. \A r, a, c : Accounts(r, a, c)' <=> Accounts(r, a, c)
    BY <1>3 DEF Accounts
  <2>4. Accounting(U!World)' = Accounting(w)
    BY <2>1 DEF Accounting
  <2> QED BY <1>3, <1>5, <2>1, <2>2, <2>3, <2>4 DEF AccountedIn
<1>13. CallableIn(U!World)'
  BY <1>3, <1>4 DEF CallableIn, U!World
<1>14. RuntimeTracks' /\ U!MarksSeen'
  BY <1>3 DEF GuardInv, RuntimeTracks, U!MarksSeen
<1> QED BY <1>6, <1>11, <1>12, <1>13, <1>14 DEF GuardInv, GoodWorlds

(* A guard comes after the others, with an agent of its own or not: what   *)
(* is registered through them is registered still.                         *)
LEMMA GuardFromRuntime ==
  ASSUME U!GuardAssumption, GuardInv, NEW auto_grant \in BOOLEAN, NEW brings_agent \in BOOLEAN,
         NEW caps \in Held, NEW brings_tracker \in BOOLEAN,
         U!FromRuntime(auto_grant, brings_agent, caps, brings_tracker)
  PROVE  GuardInv'
<1> DEFINE created == brings_agent \/ shared = 0
           agent == IF created THEN Len(identities) + 1 ELSE shared
           its == IF brings_tracker THEN Len(trackers) + 1 ELSE tracker
           record == [auto_grant |-> auto_grant, agent |-> agent, tracker |-> its]
           none == [n \in GuardNames |-> Nothing]
<1>1. PICK n \in Nat : n = Len(guards)
  BY DEF GuardInv, GuardTypes
<1>2. PICK m \in Nat : m = Len(identities)
  BY DEF GuardInv, GuardTypes
<1>3. PICK k \in Nat : k = Len(trackers)
  BY DEF GuardInv, GuardTypes
<1>4. /\ guardOps < GuardOps /\ guardOps' = guardOps + 1 /\ Len(guards) < MaxGuards
      /\ identities' = IF created THEN Append(identities, caps) ELSE identities
      /\ initially' = IF created THEN Append(initially, caps) ELSE initially
      /\ trackers' = IF brings_tracker THEN Append(trackers, {}) ELSE trackers
      /\ tracker' = its
      /\ guards' = Append(guards, record)
      /\ guarded' = Append(guarded, none)
      /\ registry' = registry /\ shared' = shared /\ failed' = failed /\ marked' = marked
  BY DEF U!FromRuntime
<1>5. /\ GuardTypes /\ RuntimeTracks /\ U!MarksSeen /\ U!World \in GuardWorlds
      /\ AccountedIn(U!World) /\ CallableIn(U!World)
  BY DEF GuardInv, GoodWorlds
<1>6. caps \in Seq(GuardCaps)
  BY HeldFits
<1>7. PICK mm \in Nat : mm = IF created THEN m + 1 ELSE m
  OBVIOUS
<1>8. PICK kk \in Nat : kk = IF brings_tracker THEN k + 1 ELSE k
  OBVIOUS
<1>9. /\ identities' \in Seq(Seq(GuardCaps)) /\ Len(identities') = mm
      /\ initially' \in Seq(Seq(GuardCaps)) /\ Len(initially') = mm
      /\ \A a \in 1..m : identities'[a] = identities[a] /\ initially'[a] = initially[a]
      /\ \A a \in 1..mm : a \notin 1..m => identities'[a] = initially'[a]
  <2>1. /\ identities \in Seq(Seq(GuardCaps)) /\ initially \in Seq(Seq(GuardCaps))
        /\ Len(initially) = m
    BY <1>2, <1>5 DEF GuardTypes
  <2>2. CASE created
    <3>1. PICK X : X = Seq(GuardCaps)
      OBVIOUS
    <3>2. /\ identities' = Append(identities, caps) /\ initially' = Append(initially, caps)
          /\ mm = m + 1
      BY <1>4, <1>7, <2>2
    <3> HIDE DEF created
    <3>3. /\ identities' \in Seq(X) /\ Len(identities') = m + 1 /\ identities'[m + 1] = caps
          /\ \A a \in 1..m : identities'[a] = identities[a]
      BY <1>2, <1>6, <2>1, <3>1, <3>2
    <3>4. /\ initially' \in Seq(X) /\ Len(initially') = m + 1 /\ initially'[m + 1] = caps
          /\ \A a \in 1..m : initially'[a] = initially[a]
      BY <1>6, <2>1, <3>1, <3>2
    <3>5. \A a \in 1..(m + 1) : a \notin 1..m => a = m + 1
      OBVIOUS
    <3> QED BY <3>1, <3>2, <3>3, <3>4, <3>5
  <2>3. CASE ~created
    <3>1. identities' = identities /\ initially' = initially /\ mm = m
      BY <1>4, <1>7, <2>3
    <3> QED BY <1>2, <2>1, <3>1
  <2> QED BY <2>2, <2>3
<1>10. trackers' \in Seq(SUBSET Values) /\ Len(trackers') = kk /\ its \in 0..kk
  <2>1. trackers \in Seq(SUBSET Values) /\ tracker \in 0..k
    BY <1>3, <1>5 DEF GuardTypes
  <2>2. PICK X : X = SUBSET Values
    OBVIOUS
  <2>3. PICK x \in X : x = {}
    BY <2>2
  <2>4. trackers' = IF brings_tracker THEN Append(trackers, x) ELSE trackers
    BY <1>4, <2>3
  <2>5. trackers' \in Seq(X) /\ Len(trackers') = kk
    BY <1>3, <1>8, <2>1, <2>2, <2>4
  <2> QED BY <1>3, <1>8, <2>1, <2>2, <2>5
<1>11. agent \in 1..mm /\ shared \in 0..mm /\ m <= mm /\ k <= kk
  BY <1>2, <1>5, <1>7, <1>8 DEF GuardTypes
<1>12. PICK r : r = record
  OBVIOUS
<1>13. /\ r \in GuardRecords' /\ GuardRecords \subseteq GuardRecords'
  <2>1. GuardRecords' = [auto_grant : BOOLEAN, agent : 1..mm, tracker : 0..kk]
    BY <1>9, <1>10 DEF GuardRecords
  <2>2. GuardRecords = [auto_grant : BOOLEAN, agent : 1..m, tracker : 0..k]
    BY <1>2, <1>3 DEF GuardRecords
  <2> HIDE DEF agent, its
  <2>3. 1..m \subseteq 1..mm /\ 0..k \subseteq 0..kk
    BY <1>11
  <2> QED BY <1>10, <1>11, <1>12, <2>1, <2>2, <2>3
<1> HIDE DEF created, agent, its, record
<1>14. /\ guards' \in Seq(GuardRecords') /\ Len(guards') = n + 1
       /\ \A i \in 1..n : guards'[i] = guards[i]
  <2>1. guards \in Seq(GuardRecords)
    BY <1>5 DEF GuardTypes
  <2>2. PICK X, Z : X = GuardRecords /\ Z = GuardRecords'
    OBVIOUS
  <2>3. guards \in Seq(X) /\ X \subseteq Z /\ r \in Z
    BY <1>13, <2>1, <2>2
  <2>4. guards \in Seq(Z)
    BY <2>3
  <2>5. guards' = Append(guards, r)
    BY <1>4, <1>12
  <2>6. Append(guards, r) \in Seq(Z) /\ Len(Append(guards, r)) = n + 1
        /\ \A i \in 1..n : Append(guards, r)[i] = guards[i]
    BY <1>1, <2>3, <2>4
  <2> QED BY <2>2, <2>5, <2>6
<1>15. GuardTypes'
  <2>1. guardOps' \in 0..GuardOps
    BY <1>4, <1>5 DEF GuardTypes, U!GuardAssumption
  <2>2. n + 1 <= MaxGuards
    BY <1>1, <1>4 DEF U!GuardAssumption
  <2> QED BY <1>4, <1>9, <1>10, <1>11, <1>14, <2>1, <2>2 DEF GuardTypes
<1>16. U!World = [registry |-> registry, agents |-> identities, guarded |-> guarded,
                  failed |-> failed, raised |-> FALSE]
  BY DEF U!World
<1>17. U!World' = [registry |-> registry, agents |-> identities', guarded |-> guarded',
                  failed |-> failed, raised |-> FALSE]
  BY <1>4 DEF U!World
<1>18. U!World' \in GuardWorlds'
  <2>1. Registration \subseteq Registration' /\ GuardHandles \subseteq GuardHandles'
    <3>1. 1..n \subseteq 1..(n + 1) /\ 1..m \subseteq 1..mm
      BY <1>11
    <3> QED BY <1>1, <1>2, <1>9, <1>14, <3>1 DEF Registration, GuardHandles
  <2>2. Registries \subseteq Registries' /\ Toolsets \subseteq Toolsets'
    BY <2>1 DEF Registries, Toolsets
  <2>3. /\ registry \in Registries /\ guarded \in [1..n -> Toolsets]
        /\ failed \in SUBSET Registration
    BY <1>1, <1>5, <1>16 DEF GuardWorlds
  <2>4. none \in Toolsets'
    BY DEF Toolsets
  <2>5. guarded' \in [1..(n + 1) -> Toolsets']
    <3>1. PICK T : T = Toolsets'
      OBVIOUS
    <3>2. PICK x \in T : x = none
      BY <2>4, <3>1
    <3>3. guarded \in [1..n -> T]
      BY <2>2, <2>3, <3>1
    <3>4. guarded \in Seq(T) /\ Len(guarded) = n
      BY <3>3, SequenceOfFunction
    <3>5. Append(guarded, x) \in Seq(T) /\ Len(Append(guarded, x)) = n + 1
      BY <3>4
    <3>6. Append(guarded, x) \in [1..(n + 1) -> T]
      BY <3>5, LenProperties
    <3> QED BY <1>4, <3>1, <3>2, <3>6
  <2>6. identities' \in [1..mm -> Seq(GuardCaps)]
    BY <1>9, LenProperties
  <2>7. /\ registry \in Registries' /\ failed \in SUBSET Registration'
    BY <2>1, <2>2, <2>3
  <2>8. GuardWorlds' = [registry : Registries', agents : [1..mm -> Seq(GuardCaps)],
                        guarded : [1..(n + 1) -> Toolsets'], failed : SUBSET Registration',
                        raised : BOOLEAN]
    BY <1>9, <1>14 DEF GuardWorlds
  <2> QED BY <1>17, <2>5, <2>6, <2>7, <2>8
<1>19. Accounting(U!World)' = Accounting(U!World)
  BY <1>16, <1>17 DEF Accounting
<1>20. \A x \in Accounting(U!World) : x.guard \in 1..n
  BY <1>1, <1>5, <1>16 DEF Accounting, GuardWorlds, Registries, Registration, U!Range
<1>21. AccountedIn(U!World)'
  <2> SUFFICES ASSUME NEW a \in 1..mm, NEW c \in U!Range(identities'[a]) \ U!Range(initially'[a])
               PROVE  \E x \in Accounting(U!World) : Accounts(x, a, c)'
    BY <1>9, <1>17, <1>19 DEF AccountedIn
  <2>1. a \in 1..m
    BY <1>9
  <2>2. c \in U!Range(identities[a]) \ U!Range(initially[a])
    BY <1>9, <2>1
  <2>3. PICK x \in Accounting(U!World) : Accounts(x, a, c)
    BY <1>2, <1>5, <1>16, <2>1, <2>2 DEF AccountedIn
  <2>4. Accounts(x, a, c)'
    BY <1>14, <1>20, <2>3 DEF Accounts
  <2> QED BY <2>4
<1>22. CallableIn(U!World)'
  <2> SUFFICES ASSUME NEW i \in GuardNames, registry[i] # Nothing,
                      guards'[registry[i].guard].auto_grant
               PROVE  U!AllCovered(identities'[guards'[registry[i].guard].agent], registry[i].caps)
    BY <1>17 DEF CallableIn
  <2>1. registry[i].guard \in 1..n
    BY <1>1, <1>5, <1>16 DEF GuardWorlds, Registries, Registration
  <2>2. guards'[registry[i].guard] = guards[registry[i].guard]
    BY <1>14, <2>1
  <2>3. guards[registry[i].guard].agent \in 1..m
    <3>1. guards[registry[i].guard] \in GuardRecords
      BY <1>1, <1>5, <2>1 DEF GuardTypes
    <3> QED BY <1>2, <3>1 DEF GuardRecords
  <2>4. U!AllCovered(identities[guards[registry[i].guard].agent], registry[i].caps)
    BY <1>5, <1>16, <2>2 DEF CallableIn
  <2> QED BY <1>9, <2>2, <2>3, <2>4
<1>23. RuntimeTracks' /\ U!MarksSeen'
  <2>1. CASE brings_tracker
    <3>1. Len(trackers') = k + 1 /\ tracker' = k + 1
      BY <1>3, <1>4, <1>8, <1>10, <2>1 DEF its
    <3>2. k = 0 => marked = {}
      <4>1. tracker \in 0..k /\ (k <= 1 => \A v \in marked : tracker # 0 /\ v \in trackers[tracker])
        BY <1>3, <1>5 DEF GuardTypes, U!MarksSeen
      <4> QED BY <4>1
    <3> QED BY <1>4, <3>1, <3>2 DEF RuntimeTracks, U!MarksSeen
  <2>2. CASE ~brings_tracker
    <3>1. trackers' = trackers /\ tracker' = tracker /\ marked' = marked
      BY <1>4, <2>2 DEF its
    <3> QED BY <1>5, <3>1 DEF RuntimeTracks, U!MarksSeen
  <2> QED BY <2>1, <2>2
<1> QED BY <1>15, <1>18, <1>21, <1>22, <1>23 DEF GuardInv, GoodWorlds

(* A mark made while there is no tracker makes one, which the runtime has  *)
(* from then on.                                                           *)
LEMMA GuardObserve ==
  ASSUME U!GuardAssumption, GuardInv, NEW g \in DOMAIN guards, NEW value \in Values,
         U!Observe(g, value)
  PROVE  GuardInv'
<1> DEFINE missing == guards[g].tracker = 0
           its == IF missing THEN Len(trackers) + 1 ELSE guards[g].tracker
           all == IF missing THEN Append(trackers, {}) ELSE trackers
<1>1. PICK n \in Nat : n = Len(guards)
  BY DEF GuardInv, GuardTypes
<1>2. PICK m \in Nat : m = Len(identities)
  BY DEF GuardInv, GuardTypes
<1>3. PICK k \in Nat : k = Len(trackers)
  BY DEF GuardInv, GuardTypes
<1>4. /\ guardOps < GuardOps /\ guardOps' = guardOps + 1
      /\ trackers' = [all EXCEPT ![its] = @ \cup {value}]
      /\ tracker' = IF missing THEN its ELSE tracker
      /\ guards' = [guards EXCEPT ![g].tracker = its]
      /\ marked' = marked \cup {value}
      /\ registry' = registry /\ identities' = identities /\ shared' = shared
      /\ guarded' = guarded /\ initially' = initially /\ failed' = failed
  BY DEF U!Observe
<1>5. /\ GuardTypes /\ RuntimeTracks /\ U!MarksSeen /\ U!World \in GuardWorlds
      /\ AccountedIn(U!World) /\ CallableIn(U!World)
  BY DEF GuardInv, GoodWorlds
<1>6. /\ g \in 1..n /\ guards[g] \in GuardRecords /\ guards \in Seq(GuardRecords)
      /\ guards[g].tracker \in 0..k
  <2>1. g \in 1..n /\ guards[g] \in GuardRecords /\ guards \in Seq(GuardRecords)
    BY <1>1, <1>5 DEF GuardTypes
  <2> QED BY <1>3, <2>1 DEF GuardRecords
<1>7. PICK kk \in Nat : kk = IF missing THEN k + 1 ELSE k
  OBVIOUS
<1>8. all \in Seq(SUBSET Values) /\ Len(all) = kk /\ its \in 1..kk
  <2>1. trackers \in Seq(SUBSET Values)
    BY <1>5 DEF GuardTypes
  <2>2. PICK X : X = SUBSET Values
    OBVIOUS
  <2>3. PICK x \in X : x = {}
    BY <2>2
  <2>4. all = IF missing THEN Append(trackers, x) ELSE trackers
    BY <2>3
  <2>5. all \in Seq(X) /\ Len(all) = kk
    BY <1>3, <1>7, <2>1, <2>2, <2>4
  <2>6. its \in 1..kk
    BY <1>3, <1>6, <1>7
  <2> QED BY <2>2, <2>5, <2>6
<1>9. /\ trackers' \in Seq(SUBSET Values) /\ Len(trackers') = kk
      /\ trackers'[its] = all[its] \cup {value}
  <2> HIDE DEF all, its
  <2>1. PICK X : X = SUBSET Values
    OBVIOUS
  <2>2. all \in Seq(X) /\ DOMAIN all = 1..kk
    BY <1>8, <2>1
  <2>3. PICK x : x = all[its] \cup {value}
    OBVIOUS
  <2>4. x \in X
    <3>1. all[its] \in X
      BY <1>8, <2>2
    <3> QED BY <2>1, <2>3, <3>1
  <2>5. trackers' = [all EXCEPT ![its] = x]
    BY <1>4, <2>3
  <2>6. /\ [all EXCEPT ![its] = x] \in Seq(X) /\ Len([all EXCEPT ![its] = x]) = kk
        /\ [all EXCEPT ![its] = x][its] = x
    BY <1>8, <2>2, <2>4
  <2> QED BY <2>1, <2>3, <2>5, <2>6
<1>10. /\ guards' \in Seq(GuardRecords') /\ Len(guards') = n
       /\ \A i \in 1..n : guards'[i].auto_grant = guards[i].auto_grant
                          /\ guards'[i].agent = guards[i].agent
  <2> HIDE DEF its
  <2>1. GuardRecords = [auto_grant : BOOLEAN, agent : 1..m, tracker : 0..k]
    BY <1>2, <1>3 DEF GuardRecords
  <2>2. GuardRecords' = [auto_grant : BOOLEAN, agent : 1..m, tracker : 0..kk]
    BY <1>2, <1>4, <1>9 DEF GuardRecords
  <2>3. PICK Z : Z = GuardRecords'
    OBVIOUS
  <2>4. PICK r : r = [guards[g] EXCEPT !.tracker = its]
    OBVIOUS
  <2>5. guards[g] \in [auto_grant : BOOLEAN, agent : 1..m, tracker : 0..k]
    BY <1>6, <2>1
  <2>6. /\ r \in Z /\ r.auto_grant = guards[g].auto_grant /\ r.agent = guards[g].agent
    BY <1>8, <2>2, <2>3, <2>4, <2>5
  <2>7. GuardRecords \subseteq Z
    <3>1. 0..k \subseteq 0..kk
      BY <1>7
    <3> QED BY <2>1, <2>2, <2>3, <3>1
  <2> HIDE DEF GuardRecords
  <2>8. PICK X : X = GuardRecords
    OBVIOUS
  <2>9. guards \in Seq(Z)
    <3>1. guards \in Seq(X) /\ X \subseteq Z
      BY <1>6, <2>7, <2>8
    <3> QED BY <3>1
  <2>10. guards' = [guards EXCEPT ![g] = r]
    BY <1>4, <2>4
  <2>11. /\ [guards EXCEPT ![g] = r] \in Seq(Z) /\ Len([guards EXCEPT ![g] = r]) = n
         /\ [guards EXCEPT ![g] = r][g] = r
         /\ \A i \in 1..n : i # g => [guards EXCEPT ![g] = r][i] = guards[i]
    BY <1>1, <1>6, <2>6, <2>9
  <2> QED BY <2>3, <2>6, <2>10, <2>11
<1>11. tracker' \in 0..kk
  <2>1. tracker \in 0..k
    BY <1>3, <1>5 DEF GuardTypes
  <2> QED BY <1>4, <1>7, <1>8, <2>1
<1>12. GuardTypes'
  <2>1. guardOps' \in 0..GuardOps
    BY <1>4, <1>5 DEF GuardTypes, U!GuardAssumption
  <2> HIDE DEF its, all
  <2> QED BY <1>1, <1>4, <1>5, <1>9, <1>10, <1>11, <2>1 DEF GuardTypes
<1>13. /\ U!World' = U!World
  BY <1>4 DEF U!World
<1>14. GuardWorlds' = GuardWorlds
  <2>1. Len(guards') = Len(guards) /\ identities' = identities
    BY <1>1, <1>4, <1>10
  <2> QED BY <2>1 DEF GuardWorlds, Registries, Registration, Toolsets, GuardHandles
<1>15. U!World = [registry |-> registry, agents |-> identities, guarded |-> guarded,
                  failed |-> failed, raised |-> FALSE]
  BY DEF U!World
<1>16. /\ \A x \in Accounting(U!World) : x.guard \in 1..n
       /\ \A i \in GuardNames : registry[i] # Nothing => registry[i].guard \in 1..n
  BY <1>1, <1>5, <1>15 DEF Accounting, GuardWorlds, Registries, Registration, U!Range
<1>17. AccountedIn(U!World)'
  <2> SUFFICES ASSUME NEW a \in 1..m, NEW c \in U!Range(identities[a]) \ U!Range(initially[a])
               PROVE  \E x \in Accounting(U!World) : Accounts(x, a, c)'
    BY <1>2, <1>4, <1>13, <1>15 DEF AccountedIn, Accounting
  <2>1. PICK x \in Accounting(U!World) : Accounts(x, a, c)
    BY <1>2, <1>5, <1>15 DEF AccountedIn
  <2>2. Accounts(x, a, c)'
    BY <1>10, <1>16, <2>1 DEF Accounts
  <2> QED BY <2>2
<1>18. CallableIn(U!World)'
  <2> SUFFICES ASSUME NEW i \in GuardNames, registry[i] # Nothing,
                      guards'[registry[i].guard].auto_grant
               PROVE  U!AllCovered(identities[guards'[registry[i].guard].agent], registry[i].caps)
    BY <1>4, <1>13, <1>15 DEF CallableIn
  <2>1. /\ guards'[registry[i].guard].auto_grant = guards[registry[i].guard].auto_grant
        /\ guards'[registry[i].guard].agent = guards[registry[i].guard].agent
    BY <1>10, <1>16
  <2> QED BY <1>5, <1>15, <2>1 DEF CallableIn
<1>22. k # 0 => tracker # 0
  BY <1>3, <1>5 DEF RuntimeTracks, GuardTypes
<1>19. RuntimeTracks'
  <2>2. CASE missing
    BY <1>4, <1>8, <2>2 DEF RuntimeTracks
  <2>3. CASE ~missing
    BY <1>3, <1>4, <1>6, <1>22, <2>3 DEF RuntimeTracks
  <2> QED BY <2>2, <2>3
<1>20. U!MarksSeen'
  <2> SUFFICES ASSUME kk <= 1, NEW v \in marked \cup {value}
               PROVE  tracker' # 0 /\ v \in trackers'[tracker']
    BY <1>4, <1>9 DEF U!MarksSeen
  <2>1. k <= 1 /\ tracker \in 0..k
    BY <1>3, <1>5, <1>7 DEF GuardTypes
  <2>2. \A x \in marked : tracker # 0 /\ x \in trackers[tracker]
    BY <1>3, <1>5, <2>1 DEF U!MarksSeen
  <2>3. CASE missing
    <3>1. k = 0 /\ tracker' = its /\ its = 1
      BY <1>3, <1>4, <1>7, <1>8, <2>3
    <3>2. marked = {}
      BY <2>1, <2>2, <3>1
    <3> HIDE DEF its, all
    <3> QED BY <1>9, <3>1, <3>2
  <2>4. CASE ~missing
    <3>1. its = 1 /\ k = 1 /\ all = trackers
      BY <1>6, <1>7, <1>8, <2>1, <2>4
    <3>2. tracker = 1 /\ tracker' = 1
      <4>1. tracker # 0
        BY <1>22, <3>1
      <4> QED BY <1>4, <2>1, <2>4, <3>1, <4>1
    <3>3. trackers'[1] = trackers[1] \cup {value}
      <4> HIDE DEF its, all
      <4> QED BY <1>9, <3>1
    <3> QED BY <2>2, <3>2, <3>3
  <2> QED BY <2>3, <2>4
<1>21. U!World' \in GuardWorlds'
  BY <1>5, <1>13, <1>14
<1> QED BY <1>12, <1>17, <1>18, <1>19, <1>20, <1>21 DEF GuardInv, GoodWorlds
-----------------------------------------------------------------------------
LEMMA GuardItemsFit ==
  ASSUME GuardInv, NEW item \in U!Items
  PROVE  item \in [kind : {"tool"}, tool : GuardHandles]
                    \cup [kind : {"function"}, name : GuardNames] \cup {[kind |-> "other"]}
<1>1. guarded \in [1..Len(guards) -> Toolsets] /\ DOMAIN guards = 1..Len(guards)
  BY DEF GuardInv, GoodWorlds, GuardWorlds, U!World, GuardTypes
<1>2. \A h \in U!Handles : h \in GuardHandles
  BY <1>1 DEF U!Handles, Toolsets
<1> HIDE DEF GuardHandles
<1>3. [kind : {"tool"}, tool : U!Handles] \subseteq [kind : {"tool"}, tool : GuardHandles]
  BY <1>2
<1> QED BY <1>3 DEF U!Items

LEMMA GuardSteps ==
  ASSUME U!GuardAssumption, GuardInv, [U!Next]_U!vars
  PROVE  GuardInv'
<1>1. CASE U!Next
  <2>1. ASSUME NEW auto_grant \in BOOLEAN, NEW brings_agent \in BOOLEAN,
               NEW brings_tracker \in BOOLEAN, NEW caps \in Held,
               U!FromRuntime(auto_grant, brings_agent, caps, brings_tracker)
        PROVE  GuardInv'
    BY <2>1, GuardFromRuntime
  <2>2. ASSUME NEW g \in DOMAIN guards, NEW name \in GuardNames, U!Wrap(g, name) PROVE GuardInv'
    BY <2>2, GuardWrap
  <2>3. ASSUME NEW g \in DOMAIN guards, NEW value \in Values, U!Observe(g, value) PROVE GuardInv'
    BY <2>3, GuardObserve
  <2>4. ASSUME NEW g \in DOMAIN guards PROVE g \in 1..Len(guards)
    BY <2>4 DEF GuardInv, GuardTypes
  <2>5. GuardTypes /\ U!World \in GoodWorlds
    BY DEF GuardInv
  <2>6. ASSUME NEW g \in DOMAIN guards, NEW name \in GuardNames, NEW d \in GuardDeclarations,
               U!Tool(g, name, d)
        PROVE  GuardInv'
    <3>1. d \in GuardDeclared
      BY DEF GuardDeclared
    <3>2. U!AddTool(U!World, g, name, d) \in GoodWorlds
      BY <2>4, <2>5, <3>1, AddToolKeeps
    <3> QED BY <2>6, <3>2, GuardBecomes DEF U!Tool
  <2>7. ASSUME NEW g \in DOMAIN guards, NEW items, U!Protect(g, items), Len(items) \in Nat,
               \A i \in 1..Len(items) : items[i] \in U!Items
        PROVE  GuardInv'
    <3>1. \A i \in 1..Len(items) :
            items[i] \in [kind : {"tool"}, tool : GuardHandles]
                         \cup [kind : {"function"}, name : GuardNames] \cup {[kind |-> "other"]}
      BY <2>7, GuardItemsFit
    <3>2. PICK w \in GoodWorlds : U!Becomes(w)
      BY <2>4, <2>5, <2>7, <3>1, ProtectKeeps
    <3> QED BY <3>2, GuardBecomes
  <2>8. ASSUME NEW items \in {<< >>} \cup {<<i>> : i \in U!Items} \cup {<<i, j>> : i, j \in U!Items}
        PROVE  Len(items) \in Nat /\ \A i \in 1..Len(items) : items[i] \in U!Items
    <3>1. CASE items = << >>
      BY <3>1
    <3>2. ASSUME NEW x \in U!Items, items = <<x>>
          PROVE  Len(items) \in Nat /\ \A i \in 1..Len(items) : items[i] \in U!Items
      BY <3>2
    <3>3. ASSUME NEW x \in U!Items, NEW y \in U!Items, items = <<x, y>>
          PROVE  Len(items) \in Nat /\ \A i \in 1..Len(items) : items[i] \in U!Items
      BY <3>3
    <3> QED BY <2>8, <3>1, <3>2, <3>3
  <2>9. ASSUME NEW g \in DOMAIN guards,
               NEW items \in {<< >>} \cup {<<i>> : i \in U!Items} \cup {<<i, j>> : i, j \in U!Items},
               U!Protect(g, items)
        PROVE  GuardInv'
    <3>1. Len(items) \in Nat /\ \A i \in 1..Len(items) : items[i] \in U!Items
      BY <2>8
    <3> QED BY <2>7, <2>9, <3>1
  <2> HIDE DEF GuardInv
  <2>10. ASSUME NEW g \in DOMAIN guards, NEW name \in GuardNames,
                U!Wrap(g, name) \/ \E d \in GuardDeclarations : U!Tool(g, name, d)
         PROVE  GuardInv'
    BY <2>2, <2>6, <2>10
  <2>11. \/ \E auto_grant, brings_agent, brings_tracker \in BOOLEAN, caps \in Held :
             U!FromRuntime(auto_grant, brings_agent, caps, brings_tracker)
         \/ \E g \in DOMAIN guards :
              \/ \E name \in GuardNames :
                   U!Wrap(g, name) \/ \E d \in GuardDeclarations : U!Tool(g, name, d)
              \/ \E items \in {<< >>} \cup {<<i>> : i \in U!Items}
                                 \cup {<<i, j>> : i, j \in U!Items} : U!Protect(g, items)
              \/ \E value \in Values : U!Observe(g, value)
    BY <1>1 DEF U!Next
  <2>12. CASE \E auto_grant, brings_agent, brings_tracker \in BOOLEAN, caps \in Held :
                U!FromRuntime(auto_grant, brings_agent, caps, brings_tracker)
    BY <2>1, <2>12
  <2>13. ASSUME NEW g \in DOMAIN guards,
                \/ \E name \in GuardNames :
                     U!Wrap(g, name) \/ \E d \in GuardDeclarations : U!Tool(g, name, d)
                \/ \E items \in {<< >>} \cup {<<i>> : i \in U!Items}
                                   \cup {<<i, j>> : i, j \in U!Items} : U!Protect(g, items)
                \/ \E value \in Values : U!Observe(g, value)
         PROVE  GuardInv'
    <3>1. CASE \E name \in GuardNames :
                 U!Wrap(g, name) \/ \E d \in GuardDeclarations : U!Tool(g, name, d)
      BY <2>10, <3>1
    <3>2. CASE \E items \in {<< >>} \cup {<<i>> : i \in U!Items}
                               \cup {<<i, j>> : i, j \in U!Items} : U!Protect(g, items)
      BY <2>9, <3>2
    <3>3. CASE \E value \in Values : U!Observe(g, value)
      BY <2>3, <3>3
    <3> QED BY <2>13, <3>1, <3>2, <3>3
  <2> QED BY <2>11, <2>12, <2>13
<1>2. CASE UNCHANGED U!vars
  <2>1. /\ registry' = registry /\ tracker' = tracker /\ trackers' = trackers
        /\ identities' = identities /\ shared' = shared /\ guards' = guards
        /\ guarded' = guarded /\ guardOps' = guardOps /\ initially' = initially
        /\ failed' = failed /\ marked' = marked
    BY <1>2 DEF U!vars
  <2>2. GuardTypes /\ U!World \in GoodWorlds /\ RuntimeTracks /\ U!MarksSeen
    BY DEF GuardInv
  <2>3. GuardRecords' = GuardRecords
    BY <2>1 DEF GuardRecords
  <2>4. GuardTypes'
    BY <2>1, <2>2, <2>3 DEF GuardTypes
  <2>5. RuntimeTracks' /\ U!MarksSeen'
    BY <2>1, <2>2 DEF RuntimeTracks, U!MarksSeen
  <2>6. U!World' = U!World
    BY <2>1 DEF U!World
  <2>7. GuardWorlds' = GuardWorlds
    BY <2>1 DEF GuardWorlds, Registries, Registration, Toolsets, GuardHandles
  <2>8. \A w : (AccountedIn(w)' <=> AccountedIn(w)) /\ (CallableIn(w)' <=> CallableIn(w))
    BY <2>1 DEF AccountedIn, CallableIn, Accounting, Accounts
  <2>9. GoodWorlds' = GoodWorlds
    BY <2>7, <2>8 DEF GoodWorlds
  <2> QED BY <2>2, <2>4, <2>5, <2>6, <2>9 DEF GuardInv
<1> QED BY <1>1, <1>2

LEMMA GuardInvariant ==
  ASSUME U!GuardAssumption
  PROVE  U!Spec => []GuardInv
<1>1. U!Init => GuardInv
  BY GuardStarts
<1>2. GuardInv /\ [U!Next]_U!vars => GuardInv'
  BY GuardSteps
<1> QED BY <1>1, <1>2, PTL DEF U!Spec

(* The guards, their tools and trackers have their types.                  *)
THEOREM GuardTypeCorrect ==
  ASSUME U!GuardAssumption
  PROVE  U!Spec => []U!TypeOK
<1>1. GuardInv => U!TypeOK
  <2> SUFFICES ASSUME GuardInv PROVE U!TypeOK
    OBVIOUS
  <2>1. /\ guarded \in [1..Len(guards) -> Toolsets] /\ registry \in Registries
    BY DEF GuardInv, GoodWorlds, GuardWorlds, U!World
  <2>2. GuardTypes
    BY DEF GuardInv
  <2>3. /\ DOMAIN guards = 1..Len(guards) /\ DOMAIN identities = 1..Len(identities)
        /\ Len(guards) \in Nat
    BY <2>2 DEF GuardTypes
  <2>4. Len(guarded) = Len(guards)
    BY <2>1, <2>3, SequenceOfFunction
  <2>5. \A g \in DOMAIN guards :
          /\ guards[g].agent \in DOMAIN identities /\ guards[g].tracker \in 0..Len(trackers)
          /\ guards[g].auto_grant \in BOOLEAN
    <3>1. \A g \in DOMAIN guards : guards[g] \in GuardRecords
      BY <2>2, <2>3 DEF GuardTypes
    <3> QED BY <2>3, <3>1 DEF GuardRecords
  <2>6. \A h \in U!Handles : h.guard \in DOMAIN guards /\ h.agent \in DOMAIN identities
    BY <2>1, <2>3 DEF U!Handles, Toolsets, GuardHandles
  <2>7. Len(guards) \in 0..MaxGuards
    BY <2>2, <2>3 DEF GuardTypes
  <2> QED BY <2>1, <2>2, <2>4, <2>5, <2>6, <2>7 DEF U!TypeOK, GuardTypes, Registries
<1> QED BY <1>1, GuardInvariant, PTL

(* Guards over one runtime do not undo each other's grants and marks, for  *)
(* any number of guards, agents, trackers and tools.                       *)
THEOREM GuardsDoAgree ==
  ASSUME U!GuardAssumption
  PROVE  U!Spec => []GuardsAgree
<1>1. GuardInv => GuardsAgree
  <2> SUFFICES ASSUME GuardInv PROVE GuardsAgree
    OBVIOUS
  <2>1. /\ AccountedIn(U!World) /\ CallableIn(U!World) /\ U!MarksSeen
    BY DEF GuardInv, GoodWorlds
  <2>2. U!World = [registry |-> registry, agents |-> identities, guarded |-> guarded,
                   failed |-> failed, raised |-> FALSE]
    BY DEF U!World
  <2>3. DOMAIN identities = 1..Len(identities)
    BY DEF GuardInv, GuardTypes
  <2>4. U!AuthorityAccounted
    BY <2>1, <2>2, <2>3 DEF U!AuthorityAccounted, AccountedIn, Accounts, Accounting
  <2>5. U!ProtectedCallable
    BY <2>1, <2>2 DEF U!ProtectedCallable, CallableIn
  <2> QED BY <2>1, <2>4, <2>5 DEF GuardsAgree, U!GuardsAgree
<1> QED BY <1>1, GuardInvariant, PTL
-----------------------------------------------------------------------------
(* The composition implements each part: its steps are the part's own, or  *)
(* leave all that the part has as it is.                                   *)
LEMMA PartSteps ==
  ASSUME [AllNext]_allVars
  PROVE  /\ [Next]_vars /\ [H!Next]_(H!vars) /\ [F!Next]_(F!vars)
         /\ [P!Next]_(P!vars) /\ [Y!Next]_(Y!vars) /\ [U!Next]_(U!vars)
<1>1. /\ UNCHANGED hubVars => UNCHANGED H!vars
      /\ UNCHANGED flowVars => UNCHANGED F!vars
      /\ UNCHANGED engineVars => UNCHANGED P!vars
      /\ UNCHANGED syncVars => UNCHANGED Y!vars
      /\ UNCHANGED guardVars => UNCHANGED U!vars
  BY DEF hubVars, flowVars, engineVars, syncVars, guardVars, H!vars, F!vars, F!memory, F!ghosts,
         P!vars, Y!vars, U!vars
<1>2. CASE UNCHANGED allVars
  <2>1. UNCHANGED <<vars, hubVars, flowVars, engineVars, syncVars, guardVars>>
    BY <1>2 DEF allVars
  <2> QED BY <1>1, <2>1
<1>3. CASE AllNext
  <2>1. \/ Next /\ UNCHANGED <<hubVars, flowVars, engineVars, syncVars, guardVars>>
        \/ H!Next /\ UNCHANGED <<vars, flowVars, engineVars, syncVars, guardVars>>
        \/ F!Next /\ UNCHANGED <<vars, hubVars, engineVars, syncVars, guardVars>>
        \/ P!Next /\ UNCHANGED <<vars, hubVars, flowVars, syncVars, guardVars>>
        \/ Y!Next /\ UNCHANGED <<vars, hubVars, flowVars, engineVars, guardVars>>
        \/ U!Next /\ UNCHANGED <<vars, hubVars, flowVars, engineVars, syncVars>>
    BY <1>3 DEF AllNext
  <2> QED BY <1>1, <2>1
<1> QED BY <1>2, <1>3

(* Every behaviour of the six parts together is one of each of them: the   *)
(* composition adds no step that a part does not take by itself.           *)
THEOREM PartsRefined ==
  AllSpec => Spec /\ H!Spec /\ F!Spec /\ P!Spec /\ Y!Spec /\ U!Spec
<1>1. AllInit => Init /\ H!Init /\ F!Init /\ P!Init /\ Y!Init /\ U!Init
  BY DEF AllInit
<1>2. [AllNext]_allVars =>
        /\ [Next]_vars /\ [H!Next]_(H!vars) /\ [F!Next]_(F!vars)
        /\ [P!Next]_(P!vars) /\ [Y!Next]_(Y!vars) /\ [U!Next]_(U!vars)
  BY PartSteps
<1> QED BY <1>1, <1>2, PTL DEF AllSpec, Spec, H!Spec, F!Spec, P!Spec, Y!Spec, U!Spec

(* Whichever part runs, all of them have their types.                      *)
THEOREM AllTypeCorrect ==
  ASSUME PartsAssumption
  PROVE  AllSpec => []TypesOK
<1>1. /\ H!HubAssumption /\ F!FlowAssumption /\ P!EngineAssumption /\ Y!PolicyAssumption
      /\ U!GuardAssumption
  BY DEF PartsAssumption
<1>2. /\ Spec => []TypeOK
      /\ H!Spec => []H!TypeOK
      /\ F!Spec => []F!TypeOK
      /\ P!Spec => []P!TypeOK
      /\ Y!Spec => []Y!TypeOK
      /\ U!Spec => []U!TypeOK
  BY <1>1, TypeCorrect, HubTypeCorrect, FlowTypeCorrect, EngineTypeCorrect, SyncTypeCorrect,
     GuardTypeCorrect
<1>3. TypeOK /\ H!TypeOK /\ F!TypeOK /\ P!TypeOK /\ Y!TypeOK /\ U!TypeOK => TypesOK
  BY DEF TypesOK
<1> QED BY <1>2, <1>3, PartsRefined, PTL

(* And each keeps its promises.                                            *)
THEOREM AllCorrect ==
  ASSUME PartsAssumption
  PROVE  AllSpec => /\ []WithinRoot /\ []HubKeepsScope /\ []TaintKept /\ []FlowsFound
                    /\ []DenyOverrides /\ []PoliciesAsPublished /\ []GuardsAgree
<1>1. /\ H!HubAssumption /\ F!FlowAssumption /\ P!EngineAssumption /\ Y!PolicyAssumption
      /\ U!GuardAssumption
  BY DEF PartsAssumption
<1>2. /\ Spec => []WithinRoot
      /\ H!Spec => []HubKeepsScope
      /\ F!Spec => []TaintKept
      /\ F!Spec => []FlowsFound
      /\ P!Spec => []DenyOverrides
      /\ Y!Spec => []PoliciesAsPublished
      /\ U!Spec => []GuardsAgree
  BY <1>1, AuthorityOnlyNarrows, HubIsOneScope, TaintIsKept, FlowsAreFound,
     TheMostRestrictiveWins, OneFetchHeals, GuardsDoAgree
<1> QED BY <1>2, PartsRefined, PTL

(* Where limits of one name have one period, and rules that fire on data   *)
(* fire on worse data too, rates are kept and no tainted call passes.      *)
THEOREM AllLimitsKept ==
  ASSUME PartsAssumption, P!PeriodsByName, F!WorseFiresToo
  PROVE  AllSpec => []RateBounded /\ NoTaintedCall
<1>1. F!FlowAssumption /\ P!EngineAssumption
  BY DEF PartsAssumption
<1>2. (P!Spec => []RateBounded) /\ (F!Spec => NoTaintedCall)
  BY <1>1, TheRateIsKept, NoTaintedCallPasses
<1> QED BY <1>2, PartsRefined, PTL
==============================================================================
