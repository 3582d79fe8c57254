---------------------------- MODULE Rules_proofs ----------------------------
(***************************************************************************)
(* The parts of Authority that have rules, for any number of tenants,      *)
(* engines, rules, threads, values and calls: a fetched policy is one that *)
(* was signed; the most restrictive rule wins and a rate is kept; taint    *)
(* stays on a value, and the flows behind a call are found.                *)
(***************************************************************************)
EXTENDS Authority, FiniteSetTheorems, SequenceTheorems, WellFoundedInduction, TLAPS
-----------------------------------------------------------------------------
(* The policies a guard fetches, for any number of tenants, operators and  *)
(* fetches.                                                                *)

SyncPolicies == [version : Nat, pack : Published, key : {Key}]

(* What is in force is the last of what was pushed, and its number the     *)
(* highest.                                                                *)
Numbered ==
  \A t \in Customers :
    /\ policy[t] = Nothing => pushed[t] = {}
    /\ policy[t] # Nothing =>
         /\ policy[t] \in pushed[t]
         /\ \A sp \in pushed[t] : sp.version <= policy[t].version

(* What is on its way was signed for some tenant; the answer was signed    *)
(* for the guard's, and no earlier than what it runs of its tenant's.      *)
OnTheWay ==
  response # Nothing =>
    /\ response.version \in Nat /\ response.current \in BOOLEAN
    /\ response.signers # {} /\ response.signers \subseteq Customers
    /\ \A t \in response.signers : response.signature \in pushed[t]
    /\ response.current =>
         /\ Customer \in response.signers
         /\ \A i \in DOMAIN synced :
              Customer \in synced[i].signers => synced[i].version <= response.version

Installed ==
  /\ synced # << >>
  /\ synced[1].signers = {} /\ ~synced[1].current
  /\ Y!OnlySigned /\ Y!FetchHeals

SyncEngines ==
  [rules : Published \cup {<< >>}, version : Nat, current : BOOLEAN, signers : SUBSET Customers]

SyncTypes ==
  /\ policy \in [Customers -> SyncPolicies \cup {Nothing}]
  /\ pushed \in [Customers -> SUBSET SyncPolicies]
  /\ fetches \in Nat
  /\ synced \in Seq(SyncEngines)
  /\ Len(synced) <= fetches + 1
  /\ response # Nothing => Len(synced) <= fetches

SyncInv == SyncTypes /\ Numbered /\ OnTheWay /\ Installed /\ Y!VersionNamesPack

LEMMA SyncStarts ==
  ASSUME Y!PolicyAssumption, Y!Init
  PROVE  SyncInv
<1>1. synced = <<[rules |-> << >>, version |-> 0, current |-> FALSE, signers |-> {}]>>
  BY DEF Y!Init, Y!Engine
<1>2. /\ policy = [t \in Customers |-> Nothing] /\ pushed = [t \in Customers |-> {}]
      /\ response = Nothing /\ fetches = 0
  BY DEF Y!Init
<1>3. SyncTypes
  <2>1. [rules |-> << >>, version |-> 0, current |-> FALSE, signers |-> {}] \in SyncEngines
    BY DEF SyncEngines
  <2> QED BY <1>1, <1>2, <2>1 DEF SyncTypes
<1>4. Numbered /\ OnTheWay /\ Y!VersionNamesPack
  BY <1>2 DEF Numbered, OnTheWay, Y!VersionNamesPack
<1>5. Installed
  BY <1>1 DEF Installed, Y!OnlySigned, Y!FetchHeals
<1> QED BY <1>3, <1>4, <1>5 DEF SyncInv

(* A push is numbered one higher than the last of its tenant.              *)
LEMMA PushKeepsSync ==
  ASSUME Y!PolicyAssumption, SyncInv,
         NEW credential \in Credentials, NEW pack \in Published, Y!SetPolicy(credential, pack)
  PROVE  SyncInv'
<1>1. PICK t \in Customers : t = ApiKeys[credential]
  BY DEF Y!PolicyAssumption, Y!SetPolicy
<1>2. PICK sp : sp = Y!Signed(Y!NextVersion(t), pack)
  OBVIOUS
<1>3. /\ policy' = [policy EXCEPT ![t] = sp]
      /\ pushed' = [pushed EXCEPT ![t] = @ \cup {sp}]
      /\ UNCHANGED <<response, synced, fetches>>
  BY <1>1, <1>2 DEF Y!SetPolicy
<1>4. /\ sp \in SyncPolicies /\ sp # Nothing /\ sp.pack = pack
      /\ \A old \in pushed[t] : old.version < sp.version
  <2>1. CASE policy[t] = Nothing
    BY <1>2, <2>1 DEF Y!Signed, Y!NextVersion, SyncInv, Numbered, SyncPolicies, Y!PolicyAssumption
  <2>2. CASE policy[t] # Nothing
    <3>1. policy[t] \in SyncPolicies /\ \A old \in pushed[t] : old \in SyncPolicies
      BY <2>2 DEF SyncInv, SyncTypes
    <3>2. policy[t].version \in Nat /\ \A old \in pushed[t] : old.version \in Nat
      BY <3>1 DEF SyncPolicies
    <3>3. sp = [version |-> policy[t].version + 1, pack |-> pack, key |-> Key]
      BY <1>2, <2>2 DEF Y!Signed, Y!NextVersion
    <3>4. \A old \in pushed[t] : old.version <= policy[t].version
      BY <2>2 DEF SyncInv, Numbered
    <3> QED BY <3>2, <3>3, <3>4 DEF SyncPolicies, Y!PolicyAssumption
  <2> QED BY <2>1, <2>2
<1>5. \A u \in Customers :
        /\ policy'[u] = IF u = t THEN sp ELSE policy[u]
        /\ pushed'[u] = IF u = t THEN pushed[u] \cup {sp} ELSE pushed[u]
  BY <1>3 DEF SyncInv, SyncTypes
<1>6. SyncTypes'
  BY <1>3, <1>4 DEF SyncInv, SyncTypes
<1>7. Numbered'
  <2>1. sp.version \in Nat /\ \A old \in pushed[t] : old.version \in Nat
    BY <1>4 DEF SyncInv, SyncTypes, SyncPolicies
  <2>2. \A old \in pushed[t] \cup {sp} : old.version <= sp.version
    BY <1>4, <2>1
  <2>3. ASSUME NEW u \in Customers
        PROVE  /\ policy'[u] = Nothing => pushed'[u] = {}
               /\ policy'[u] # Nothing =>
                    /\ policy'[u] \in pushed'[u]
                    /\ \A old \in pushed'[u] : old.version <= policy'[u].version
    <3>1. CASE u = t
      BY <1>4, <1>5, <2>2, <3>1
    <3>2. CASE u # t
      BY <1>5, <3>2 DEF SyncInv, Numbered
    <3> QED BY <3>1, <3>2
  <2> QED BY <2>3 DEF Numbered
<1>8. OnTheWay' /\ Installed'
  <2>1. \A u \in Customers : pushed[u] \subseteq pushed'[u]
    BY <1>5
  <2>2. OnTheWay'
    BY <1>3, <2>1 DEF SyncInv, OnTheWay
  <2>3. \A i \in 2..Len(synced) : synced[i].signers \subseteq Customers
    <3>1. synced \in Seq(SyncEngines)
      BY DEF SyncInv, SyncTypes
    <3>2. \A i \in 1..Len(synced) : synced[i] \in SyncEngines
      BY <3>1, ElementOfSeq
    <3>3. \A i \in 2..Len(synced) : i \in 1..Len(synced)
      BY <3>1, LenProperties
    <3> QED BY <3>2, <3>3 DEF SyncEngines
  <2>4. Installed'
    BY <1>3, <2>1, <2>3 DEF SyncInv, Installed, Y!OnlySigned, Y!FetchHeals, Y!Signed
  <2> QED BY <2>2, <2>4
<1>9. Y!VersionNamesPack'
  <2>1. sp.version \in Nat /\ \A old \in pushed[t] : old.version \in Nat
    BY <1>4 DEF SyncInv, SyncTypes, SyncPolicies
  <2>2. \A a, b \in pushed[t] \cup {sp} : a.version = b.version => a.pack = b.pack
    <3>1. \A a, b \in pushed[t] : a.version = b.version => a.pack = b.pack
      BY DEF SyncInv, Y!VersionNamesPack
    <3>2. \A a \in pushed[t] : a.version # sp.version
      BY <1>4, <2>1
    <3> QED BY <3>1, <3>2
  <2>3. ASSUME NEW u \in Customers
        PROVE  \A a, b \in pushed'[u] : a.version = b.version => a.pack = b.pack
    <3>1. CASE u = t
      <4>1. pushed'[u] = pushed[t] \cup {sp}
        BY <1>5, <3>1
      <4> QED BY <2>2, <4>1
    <3>2. CASE u # t
      <4>1. pushed'[u] = pushed[u]
        BY <1>5, <3>2
      <4> QED BY <4>1 DEF SyncInv, Y!VersionNamesPack
    <3> QED BY <3>1, <3>2
  <2> QED BY <2>3 DEF Y!VersionNamesPack
<1> QED BY <1>6, <1>7, <1>8, <1>9 DEF SyncInv

(* Whatever arrives carries a signature; the answer is what is in force.   *)
LEMMA RequestKeepsSync ==
  ASSUME Y!PolicyAssumption, SyncInv, Y!Request
  PROVE  SyncInv'
<1>1. UNCHANGED <<policy, synced, pushed>> /\ fetches' = fetches + 1 /\ response = Nothing
  BY DEF Y!Request
<1>2. PICK sp \in UNION {pushed[t] : t \in Customers}, later \in {0, 1}, pack \in Published :
        response' = [version |-> sp.version + later, pack |-> pack, signature |-> sp,
                     current |-> later = 0 /\ pack = sp.pack /\ sp \in Y!Answer(Credential),
                     signers |-> {t \in Customers : sp \in pushed[t]}]
  BY DEF Y!Request, Y!Arrives
<1>3. PICK owner \in Customers : sp \in pushed[owner]
  BY <1>2
<1>4. sp \in SyncPolicies /\ sp.version \in Nat
  BY <1>3 DEF SyncInv, SyncTypes, SyncPolicies
<1>5. /\ response'.version \in Nat /\ response'.current \in BOOLEAN
      /\ response'.signers # {} /\ response'.signers \subseteq Customers
      /\ \A t \in response'.signers : response'.signature \in pushed[t]
  BY <1>2, <1>3, <1>4
<1>6. ASSUME response'.current
      PROVE  /\ Customer \in response'.signers
             /\ \A i \in DOMAIN synced :
                  Customer \in synced[i].signers => synced[i].version <= response'.version
  <2>1. sp \in Y!Answer(Credential) /\ response'.version = sp.version
    <3>1. response'.current <=> later = 0 /\ pack = sp.pack /\ sp \in Y!Answer(Credential)
      BY <1>2, Zenon
    <3>2. response'.version = sp.version + later
      BY <1>2
    <3> QED BY <1>4, <1>6, <3>1, <3>2
  <2>2. sp = policy[Customer] /\ sp # Nothing
    BY <2>1 DEF Y!Answer, Y!PolicyAssumption
  <2>3. sp \in pushed[Customer] /\ \A old \in pushed[Customer] : old.version <= sp.version
    BY <2>2 DEF SyncInv, Numbered, Y!PolicyAssumption
  <2>4. Customer \in response'.signers
    BY <1>2, <2>3 DEF Y!PolicyAssumption
  <2>5. ASSUME NEW i \in DOMAIN synced, Customer \in synced[i].signers
        PROVE  synced[i].version <= sp.version
    <3>1. Len(synced) \in Nat /\ DOMAIN synced = 1..Len(synced)
      BY DEF SyncInv, SyncTypes
    <3>2. i \in 2..Len(synced)
      BY <2>5, <3>1 DEF SyncInv, Installed
    <3>3. Y!Signed(synced[i].version, synced[i].rules) \in pushed[Customer]
      BY <2>5, <3>2 DEF SyncInv, Installed, Y!OnlySigned
    <3>4. Y!Signed(synced[i].version, synced[i].rules).version = synced[i].version
      BY DEF Y!Signed
    <3> QED BY <2>3, <3>3, <3>4
  <2> QED BY <2>1, <2>4, <2>5
<1>7. SyncTypes'
  <2>1. Len(synced) \in Nat /\ fetches \in Nat /\ Len(synced) <= fetches + 1
    BY DEF SyncInv, SyncTypes
  <2> QED BY <1>1, <2>1 DEF SyncInv, SyncTypes
<1>8. OnTheWay'
  BY <1>1, <1>5, <1>6 DEF OnTheWay
<1>9. Numbered' /\ Installed' /\ Y!VersionNamesPack'
  BY <1>1 DEF SyncInv, Numbered, Installed, Y!OnlySigned, Y!FetchHeals, Y!VersionNamesPack
<1> QED BY <1>7, <1>8, <1>9 DEF SyncInv

(* What verifies was signed as it is, and is compiled as a whole.          *)
LEMMA FetchKeepsSync ==
  ASSUME Y!PolicyAssumption, SyncInv, Y!Fetched
  PROVE  SyncInv'
<1>1. /\ response # Nothing /\ response' = Nothing
      /\ UNCHANGED <<policy, pushed, fetches>>
  BY DEF Y!Fetched
<1>2. Numbered' /\ OnTheWay' /\ Y!VersionNamesPack'
  BY <1>1 DEF SyncInv, Numbered, OnTheWay, Y!VersionNamesPack
<1>3. CASE synced' = synced
  BY <1>1, <1>2, <1>3 DEF SyncInv, SyncTypes, Installed, Y!OnlySigned, Y!FetchHeals
<1>4. CASE synced' # synced
  <2>1. Y!Verifies(response) /\ Y!Compiled(response.pack) # {}
    BY <1>4 DEF Y!Fetched
  <2>2. (CHOOSE rules \in Y!Compiled(response.pack) : TRUE) = response.pack
    BY <2>1 DEF Y!Compiled
  <2> DEFINE e == [rules |-> response.pack, version |-> response.version,
                   current |-> response.current, signers |-> response.signers]
  <2>3. synced' = Append(synced, e)
    BY <2>1, <2>2 DEF Y!Fetched, Y!Engine
  <2>4. /\ e.signers # {} /\ e.signers \subseteq Customers
        /\ \A t \in e.signers : Y!Signed(e.version, e.rules) \in pushed[t]
        /\ e.version \in Nat /\ e.current \in BOOLEAN
        /\ e.current =>
             /\ Customer \in e.signers
             /\ \A i \in DOMAIN synced :
                  Customer \in synced[i].signers => synced[i].version <= e.version
    BY <1>1, <2>1 DEF SyncInv, OnTheWay, Y!Verifies
  <2>5. e.rules \in Published
    <3>1. PICK t \in Customers : Y!Signed(e.version, e.rules) \in pushed[t]
      BY <2>4
    <3>2. Y!Signed(e.version, e.rules) \in SyncPolicies
      BY <3>1 DEF SyncInv, SyncTypes
    <3> QED BY <3>2 DEF SyncPolicies, Y!Signed
  <2>6. e \in SyncEngines
    BY <2>4, <2>5 DEF SyncEngines
  <2> HIDE DEF e
  <2>7. /\ Len(synced) \in Nat /\ Len(synced) >= 1 /\ Len(synced) <= fetches /\ fetches \in Nat
        /\ synced \in Seq(SyncEngines) /\ DOMAIN synced = 1..Len(synced)
    BY <1>1 DEF SyncInv, SyncTypes, Installed
  <2>8. /\ Len(synced') = Len(synced) + 1 /\ DOMAIN synced' = 1..(Len(synced) + 1)
        /\ \A i \in 1..Len(synced) : synced'[i] = synced[i]
        /\ synced'[Len(synced) + 1] = e
        /\ synced' \in Seq(SyncEngines)
    BY <2>3, <2>6, <2>7
  <2>9. SyncTypes'
    BY <1>1, <2>7, <2>8 DEF SyncInv, SyncTypes
  <2>10. Y!OnlySigned'
    <3> SUFFICES ASSUME NEW i \in 2..Len(synced)'
                 PROVE  /\ synced'[i].signers # {}
                        /\ \A t \in synced'[i].signers :
                             Y!Signed(synced'[i].version, synced'[i].rules) \in pushed'[t]
      BY DEF Y!OnlySigned, Y!Signed
    <3>1. CASE i = Len(synced) + 1
      BY <1>1, <2>4, <2>8, <3>1
    <3>2. CASE i # Len(synced) + 1
      <4>1. i \in 2..Len(synced) /\ synced'[i] = synced[i]
        BY <2>7, <2>8, <3>2
      <4> QED BY <1>1, <4>1 DEF SyncInv, Installed, Y!OnlySigned
    <3> QED BY <3>1, <3>2
  <2>11. Y!FetchHeals'
    <3> SUFFICES ASSUME NEW i \in 1..(Len(synced) + 1), synced'[i].current
                 PROVE  /\ Customer \in synced'[i].signers
                        /\ \A j \in 1..i : Customer \in synced'[j].signers =>
                             synced'[j].version <= synced'[i].version
      BY <2>8 DEF Y!FetchHeals
    <3>1. CASE i = Len(synced) + 1
      <4>1. synced'[i] = e /\ e.current
        BY <2>8, <3>1
      <4>2. ASSUME NEW j \in 1..i, Customer \in synced'[j].signers
            PROVE  synced'[j].version <= e.version
        <5>1. CASE j = i
          BY <2>4, <4>1, <5>1
        <5>2. CASE j # i
          <6>1. j \in DOMAIN synced /\ synced'[j] = synced[j]
            BY <2>7, <2>8, <3>1, <5>2
          <6> QED BY <2>4, <4>1, <4>2, <6>1
        <5> QED BY <5>1, <5>2
      <4> QED BY <2>4, <4>1, <4>2
    <3>2. CASE i # Len(synced) + 1
      <4>1. i \in DOMAIN synced /\ \A j \in 1..i : synced'[j] = synced[j]
        BY <2>7, <2>8, <3>2
      <4>2. synced'[i] = synced[i]
        BY <2>7, <4>1
      <4> QED BY <4>1, <4>2 DEF SyncInv, Installed, Y!FetchHeals
    <3> QED BY <3>1, <3>2
  <2>12. synced'[1] = synced[1] /\ synced' # << >>
    BY <2>7, <2>8
  <2>13. Installed'
    BY <2>10, <2>11, <2>12 DEF SyncInv, Installed
  <2> QED BY <1>2, <2>9, <2>13 DEF SyncInv
<1> QED BY <1>3, <1>4

(* The types of policy sync, and that every fetched or running policy is   *)
(* one that was signed (policy_sync.py).                                   *)
THEOREM SyncInvariant ==
  ASSUME Y!PolicyAssumption
  PROVE  Y!Spec => []SyncInv
<1>1. ASSUME SyncInv, [Y!Next]_(Y!vars) PROVE SyncInv'
  <2>1. CASE UNCHANGED Y!vars
    BY <1>1, <2>1 DEF Y!vars, SyncInv, SyncTypes, Numbered, OnTheWay, Installed, Y!OnlySigned,
                      Y!FetchHeals, Y!VersionNamesPack
  <2>2. CASE \E credential \in Credentials, pack \in Published : Y!SetPolicy(credential, pack)
    BY <1>1, <2>2, PushKeepsSync
  <2>3. CASE Y!Request
    BY <1>1, <2>3, RequestKeepsSync
  <2>4. CASE Y!Fetched
    BY <1>1, <2>4, FetchKeepsSync
  <2> QED BY <1>1, <2>1, <2>2, <2>3, <2>4 DEF Y!Next
<1> QED BY <1>1, SyncStarts, PTL DEF Y!Spec

(* Whatever is published, altered on the way and fetched, what a guard     *)
(* holds has its type (policy_sync.py).                                    *)
THEOREM SyncTypeCorrect ==
  ASSUME Y!PolicyAssumption
  PROVE  Y!Spec => []Y!TypeOK
<1>1. SyncInv => Y!TypeOK
  <2> SUFFICES ASSUME SyncInv PROVE Y!TypeOK
    OBVIOUS
  <2>1. \A t \in Customers : policy[t] = Nothing \/ policy[t] \in pushed[t]
    BY DEF SyncInv, Numbered
  <2>2. response # Nothing =>
          /\ response.signature \in UNION {pushed[t] : t \in Customers}
          /\ response.signers # {} /\ response.signers \subseteq Customers
    BY DEF SyncInv, OnTheWay
  <2>3. Len(synced) \in 1..(fetches + 1)
    BY DEF SyncInv, SyncTypes, Installed
  <2> QED BY <2>1, <2>2, <2>3 DEF Y!TypeOK
<1> QED BY <1>1, SyncInvariant, PTL

(* Whatever is replayed, brought from another tenant or altered, a guard   *)
(* runs whole packs that were signed for a tenant, under their version;    *)
(* and a fetch of the answer brings its own tenant's, no older than any of *)
(* them it ran before (policy_sync.py).                                    *)
THEOREM OneFetchHeals ==
  ASSUME Y!PolicyAssumption
  PROVE  Y!Spec => []PoliciesAsPublished
<1>1. SyncInv => PoliciesAsPublished
  BY DEF SyncInv, Installed, PoliciesAsPublished, Y!PoliciesAsPublished
<1> QED BY <1>1, SyncInvariant, PTL
-----------------------------------------------------------------------------
(* The rules of an engine, for any packs, calls and threads: what a        *)
(* decision is, and how many calls pass a rate limit.                      *)

ContextAgents == {c.agent : c \in Contexts}
EngineHits == [agent : ContextAgents, rule : Nat, at : Nat, number : Nat]
EngineRecords == [rules : Seq(P!AllRules), default : Defaults, hits : SUBSET EngineHits]
Admissions == [engine : Nat, agent : ContextAgents, rule : Nat, by : Threads, read : Nat, at : Nat]
Evals == [ctx : Contexts \cup {Nothing}, engine : Nat, began : Nat, at : Nat, i : Nat,
          over : SUBSET Nat, effect : P!Effects, rule : Nat]

(* What the i-th rule of an engine asks for, given the limits that were    *)
(* exceeded.                                                               *)
EffectOf(g, over, i) ==
  IF g.rules[i].effect # "rate_limit" THEN g.rules[i].effect
  ELSE IF i \in over THEN "deny" ELSE g.default

(* The effect so far is the most restrictive of the default and the rules  *)
(* before the i-th.                                                        *)
Judged(es, x) ==
  /\ x.engine \in DOMAIN es /\ x.ctx \in Contexts
  /\ x.began <= Len(es[x.engine].rules)
  /\ x.i \in 1..(Len(es[x.engine].rules) + 1)
  /\ x.over \subseteq 1..(x.i - 1)
  /\ P!Restrictiveness(x.effect) >= P!Restrictiveness(es[x.engine].default)
  /\ \A j \in 1..(x.i - 1) : P!Fires(es[x.engine].rules[j], x.ctx) =>
       P!Restrictiveness(x.effect) >= P!Restrictiveness(EffectOf(es[x.engine], x.over, j))
  /\ x.effect # es[x.engine].default =>
       /\ x.rule \in 1..(x.i - 1)
       /\ P!Fires(es[x.engine].rules[x.rule], x.ctx)
       /\ EffectOf(es[x.engine], x.over, x.rule) = x.effect

(* Engines are installed and rules added at the end; the others stay.      *)
Extends(es, fs) ==
  \A e \in DOMAIN es :
    /\ e \in DOMAIN fs /\ fs[e].default = es[e].default
    /\ Len(es[e].rules) \in Nat /\ Len(fs[e].rules) \in Nat
    /\ Len(es[e].rules) <= Len(fs[e].rules)
    /\ DOMAIN es[e].rules = 1..Len(es[e].rules) /\ DOMAIN fs[e].rules = 1..Len(fs[e].rules)
    /\ \A i \in DOMAIN es[e].rules : fs[e].rules[i] = es[e].rules[i]

EngineTypes ==
  /\ engineNow \in 0..EngineTime
  /\ engines \in Seq(EngineRecords) /\ engines # << >>
  /\ enginePc \in [Threads -> {"idle", "rules", "hit"}]
  /\ eval \in [Threads -> Evals] /\ decided \in [Threads -> Evals]
  /\ calls \in Nat
  /\ admitted \in Seq(Admissions)

(* Where a thread is, and what it last decided. *)
ThreadJudged(es, at, p, x, d) ==
  /\ p = "idle" => x = P!NoEval
  /\ p # "idle" => Judged(es, x) /\ x.at <= at
  /\ p = "hit" =>
       /\ x.i <= Len(es[x.engine].rules)
       /\ es[x.engine].rules[x.i].effect = "rate_limit"
       /\ P!Fires(es[x.engine].rules[x.i], x.ctx)
  /\ d.engine # 0 => Judged(es, d) /\ d.began <= d.i - 1

Judging ==
  \A t \in Threads : ThreadJudged(engines, engineNow, enginePc[t], eval[t], decided[t])

(* The limiter remembers hits of rate limits. *)
Remembered ==
  \A e \in DOMAIN engines :
    /\ IsFiniteSet(engines[e].hits)
    /\ \A h \in engines[e].hits :
         /\ h.at <= engineNow
         /\ h.rule \in DOMAIN engines[e].rules
         /\ engines[e].rules[h.rule].effect = "rate_limit"

RuleOf(a) == engines[a.engine].rules[a.rule]
HitOf(j) == [agent |-> admitted[j].agent, rule |-> admitted[j].rule, at |-> admitted[j].read,
             number |-> j]

(* A hit is remembered at least until it leaves the window that ends now,  *)
(* for no limit of its name forgets earlier.                               *)
Retained ==
  \A j \in DOMAIN admitted :
    engineNow - admitted[j].read < RuleOf(admitted[j]).per_seconds
      => HitOf(j) \in engines[admitted[j].engine].hits

Admitted ==
  \A j \in DOMAIN admitted :
    /\ admitted[j].engine \in DOMAIN engines
    /\ admitted[j].rule \in DOMAIN engines[admitted[j].engine].rules
    /\ RuleOf(admitted[j]).effect = "rate_limit" /\ RuleOf(admitted[j]).max_calls > 0
    /\ admitted[j].read <= admitted[j].at /\ admitted[j].at <= engineNow
    /\ enginePc[admitted[j].by] = "hit" => admitted[j].at <= eval[admitted[j].by].at

(* A thread reads the clock for a hit after its last one. *)
InTurn ==
  \A i, j \in DOMAIN admitted :
    i < j /\ admitted[i].by = admitted[j].by => admitted[i].at <= admitted[j].read

Alike(a, b) == a.engine = b.engine /\ a.agent = b.agent /\ a.rule = b.rule

(* Those like the i-th that both read the clock and passed in the window   *)
(* from a time on.                                                         *)
FreshFrom(i, from) ==
  {j \in DOMAIN admitted :
     /\ Alike(admitted[j], admitted[i])
     /\ admitted[j].read >= from
     /\ admitted[j].at <= from + RuleOf(admitted[i]).per_seconds - 1}

FreshBounded ==
  \A i \in DOMAIN admitted, from \in Nat :
    Cardinality(FreshFrom(i, from)) <= RuleOf(admitted[i]).max_calls

DecisionInv == EngineTypes /\ Judging /\ Remembered
LimitInv == Admitted /\ Retained /\ InTurn /\ FreshBounded

-----------------------------------------------------------------------------
LEMMA EngineCardinality == \A S : P!Cardinality(S) = Cardinality(S)
BY DEF P!Cardinality, Cardinality

LEMMA EngineFinite == \A S : P!IsFiniteSet(S) <=> IsFiniteSet(S)
BY DEF P!IsFiniteSet, IsFiniteSet

LEMMA PackRules ==
  ASSUME P!EngineAssumption, NEW rules \in Seq(P!AllRules)
  PROVE  /\ Len(rules) \in Nat /\ DOMAIN rules = 1..Len(rules)
         /\ \A i \in 1..Len(rules) : rules[i] \in P!AllRules /\ rules[i].effect \in P!Effects
         /\ \A i \in 1..Len(rules) : rules[i].effect = "rate_limit" =>
              rules[i].max_calls \in Int /\ rules[i].per_seconds \in Int
<1>1. Len(rules) \in Nat /\ DOMAIN rules = 1..Len(rules)
  OBVIOUS
<1>2. \A i \in 1..Len(rules) : rules[i] \in P!AllRules
  OBVIOUS
<1> QED BY <1>1, <1>2 DEF P!EngineAssumption

(* An engine begins with a pack and a default.                             *)
LEMMA NewEngine ==
  ASSUME P!EngineAssumption, NEW pack \in EngineRules, NEW effect \in Defaults
  PROVE  /\ P!Engine(pack, effect) \in EngineRecords
         /\ P!Engine(pack, effect).hits = {} /\ P!Engine(pack, effect).rules = pack
<1>1. {pack[i] : i \in DOMAIN pack} \subseteq P!AllRules
  BY DEF P!AllRules
<1>2. pack \in Seq({pack[i] : i \in DOMAIN pack})
  BY DEF P!EngineAssumption
<1>3. pack \in Seq(P!AllRules)
  BY <1>1, <1>2
<1> QED BY <1>3 DEF P!Engine, EngineRecords

LEMMA RestrictivenessType ==
  \A effect \in P!Effects : P!Restrictiveness(effect) \in 0..3
BY DEF P!Effects, P!Restrictiveness

(* Rules judged by stay what they are, and so does what was judged.        *)
LEMMA JudgedStays ==
  ASSUME NEW es, NEW fs, NEW x \in Evals, Judged(es, x), Extends(es, fs)
  PROVE  Judged(fs, x)
<1> DEFINE e == x.engine
<1>1. /\ e \in DOMAIN fs /\ fs[e].default = es[e].default
      /\ Len(es[e].rules) \in Nat /\ Len(fs[e].rules) \in Nat
      /\ Len(es[e].rules) <= Len(fs[e].rules)
      /\ \A i \in 1..Len(es[e].rules) : fs[e].rules[i] = es[e].rules[i]
  BY DEF Judged, Extends
<1>2. x.i \in Nat /\ \A j \in 1..(x.i - 1) : j \in 1..Len(es[e].rules)
  BY <1>1 DEF Judged
<1>3. \A j \in 1..(x.i - 1) :
        fs[e].rules[j] = es[e].rules[j] /\ EffectOf(fs[e], x.over, j) = EffectOf(es[e], x.over, j)
  BY <1>1, <1>2 DEF EffectOf
<1>4. x.i \in 1..(Len(fs[e].rules) + 1) /\ x.began <= Len(fs[e].rules)
  BY <1>1 DEF Judged, Evals
<1> QED BY <1>1, <1>3, <1>4 DEF Judged

(* One more rule is judged: it loses to the effect so far, or wins.        *)
LEMMA NextJudged ==
  ASSUME P!EngineAssumption, NEW es, NEW x \in Evals, NEW y \in Evals,
         Judged(es, x), es[x.engine] \in EngineRecords,
         x.i <= Len(es[x.engine].rules),
         y.engine = x.engine, y.ctx = x.ctx, y.began = x.began, y.i = x.i + 1,
         y.over \subseteq 1..x.i, \A j \in 1..(x.i - 1) : j \in y.over <=> j \in x.over,
         \/ /\ y.effect = x.effect /\ y.rule = x.rule
            /\ P!Fires(es[x.engine].rules[x.i], x.ctx) =>
                 P!Restrictiveness(x.effect)
                   >= P!Restrictiveness(EffectOf(es[x.engine], y.over, x.i))
         \/ /\ y.effect = EffectOf(es[x.engine], y.over, x.i) /\ y.rule = x.i
            /\ P!Fires(es[x.engine].rules[x.i], x.ctx)
            /\ P!Restrictiveness(y.effect) >= P!Restrictiveness(x.effect)
  PROVE  Judged(es, y)
<1> DEFINE g == es[x.engine]
           rules == g.rules
<1>0. rules \in Seq(P!AllRules) /\ g.default \in P!Effects
  BY DEF EngineRecords, P!EngineAssumption
<1>1. /\ Len(rules) \in Nat /\ DOMAIN rules = 1..Len(rules)
      /\ \A i \in 1..Len(rules) : rules[i].effect \in P!Effects
  BY <1>0, PackRules
<1>2. x.i \in Nat /\ x.i >= 1 /\ x.i <= Len(rules)
  BY <1>1 DEF Judged
<1>3. \A j \in 1..(x.i - 1) : EffectOf(g, y.over, j) = EffectOf(g, x.over, j)
  BY DEF EffectOf
<1>4. /\ P!Restrictiveness(x.effect) \in 0..3 /\ P!Restrictiveness(y.effect) \in 0..3
      /\ P!Restrictiveness(g.default) \in 0..3
      /\ \A j \in 1..x.i : P!Restrictiveness(EffectOf(g, y.over, j)) \in 0..3
  <2>1. \A j \in 1..x.i : EffectOf(g, y.over, j) \in P!Effects
    BY <1>0, <1>1, <1>2 DEF EffectOf, P!Effects
  <2> QED BY <1>0, <2>1, RestrictivenessType DEF Evals
<1>5. 1..x.i = (1..(x.i - 1)) \cup {x.i}
  BY <1>2
<1>6. /\ P!Restrictiveness(y.effect) >= P!Restrictiveness(x.effect)
      /\ P!Restrictiveness(y.effect) >= P!Restrictiveness(g.default)
  <2>1. P!Restrictiveness(x.effect) >= P!Restrictiveness(g.default)
    BY DEF Judged
  <2>2. y.effect = x.effect \/ P!Restrictiveness(y.effect) >= P!Restrictiveness(x.effect)
    OBVIOUS
  <2>3. P!Restrictiveness(y.effect) >= P!Restrictiveness(x.effect)
    BY <1>4, <2>2
  <2> HIDE DEF g
  <2> QED BY <1>4, <2>1, <2>3
<1>7. ASSUME NEW j \in 1..x.i, P!Fires(rules[j], x.ctx)
      PROVE  P!Restrictiveness(y.effect) >= P!Restrictiveness(EffectOf(g, y.over, j))
  <2>1. CASE j = x.i
    BY <1>4, <1>7, <2>1
  <2>2. CASE j \in 1..(x.i - 1)
    <3>1. P!Restrictiveness(x.effect) >= P!Restrictiveness(EffectOf(g, x.over, j))
      BY <1>7, <2>2 DEF Judged
    <3> QED BY <1>3, <1>4, <1>6, <2>2, <3>1
  <2> QED BY <1>5, <2>1, <2>2
<1>8. ASSUME y.effect # g.default
      PROVE  /\ y.rule \in 1..x.i /\ P!Fires(rules[y.rule], x.ctx)
             /\ EffectOf(g, y.over, y.rule) = y.effect
  <2>1. CASE y.effect = x.effect /\ y.rule = x.rule
    BY <1>3, <1>5, <1>8, <2>1 DEF Judged
  <2>2. CASE ~(y.effect = x.effect /\ y.rule = x.rule)
    BY <1>2, <2>2
  <2> QED BY <2>1, <2>2
<1>9. y.i - 1 = x.i /\ y.i \in 1..(Len(rules) + 1) /\ y.began <= Len(rules)
  BY <1>1, <1>2 DEF Judged
<1> QED BY <1>6, <1>7, <1>8, <1>9 DEF Judged

LEMMA ThreadStays ==
  ASSUME NEW es, NEW fs, NEW at \in Int, NEW bt \in Int, at <= bt,
         NEW p, NEW x \in Evals, NEW d \in Evals,
         ThreadJudged(es, at, p, x, d), Extends(es, fs)
  PROVE  ThreadJudged(fs, bt, p, x, d)
<1>1. p # "idle" => Judged(fs, x) /\ x.at <= bt
  <2> SUFFICES ASSUME p # "idle" PROVE Judged(fs, x) /\ x.at <= bt
    OBVIOUS
  <2>1. Judged(es, x) /\ x.at <= at
    BY DEF ThreadJudged
  <2> QED BY <2>1, JudgedStays DEF Evals
<1>2. p = "hit" =>
        /\ x.i <= Len(fs[x.engine].rules)
        /\ fs[x.engine].rules[x.i].effect = "rate_limit"
        /\ P!Fires(fs[x.engine].rules[x.i], x.ctx)
  <2> SUFFICES ASSUME p = "hit"
               PROVE  /\ x.i <= Len(fs[x.engine].rules)
                      /\ fs[x.engine].rules[x.i].effect = "rate_limit"
                      /\ P!Fires(fs[x.engine].rules[x.i], x.ctx)
    OBVIOUS
  <2>1. /\ Judged(es, x) /\ x.i <= Len(es[x.engine].rules)
        /\ es[x.engine].rules[x.i].effect = "rate_limit"
        /\ P!Fires(es[x.engine].rules[x.i], x.ctx)
    BY DEF ThreadJudged
  <2>2. x.engine \in DOMAIN es /\ x.i \in Nat /\ x.i >= 1
    BY <2>1 DEF Judged, Evals
  <2>3. /\ Len(es[x.engine].rules) \in Nat /\ Len(fs[x.engine].rules) \in Nat
        /\ Len(es[x.engine].rules) <= Len(fs[x.engine].rules)
        /\ \A i \in 1..Len(es[x.engine].rules) : fs[x.engine].rules[i] = es[x.engine].rules[i]
    BY <2>2 DEF Extends
  <2>4. x.i \in 1..Len(es[x.engine].rules) /\ x.i <= Len(fs[x.engine].rules)
    BY <2>1, <2>2, <2>3
  <2> QED BY <2>1, <2>3, <2>4
<1>3. d.engine # 0 => Judged(fs, d) /\ d.began <= d.i - 1
  <2> SUFFICES ASSUME d.engine # 0 PROVE Judged(fs, d) /\ d.began <= d.i - 1
    OBVIOUS
  <2>1. Judged(es, d) /\ d.began <= d.i - 1
    BY DEF ThreadJudged
  <2> QED BY <2>1, JudgedStays
<1> QED BY <1>1, <1>2, <1>3 DEF ThreadJudged

LEMMA EngineFacts ==
  ASSUME P!EngineAssumption, DecisionInv
  PROVE  /\ engineNow \in Nat
         /\ Len(engines) \in Nat /\ Len(engines) >= 1 /\ DOMAIN engines = 1..Len(engines)
         /\ \A e \in 1..Len(engines) :
              /\ engines[e] \in EngineRecords
              /\ engines[e].rules \in Seq(P!AllRules) /\ engines[e].hits \subseteq EngineHits
              /\ Len(engines[e].rules) \in Nat
              /\ DOMAIN engines[e].rules = 1..Len(engines[e].rules)
         /\ \A t \in Threads : eval[t] \in Evals /\ decided[t] \in Evals
         /\ Len(admitted) \in Nat /\ DOMAIN admitted = 1..Len(admitted)
         /\ \A j \in 1..Len(admitted) : admitted[j] \in Admissions
<1>1. engineNow \in Nat
  BY DEF DecisionInv, EngineTypes, P!EngineAssumption
<1>2. /\ Len(engines) \in Nat /\ Len(engines) >= 1 /\ DOMAIN engines = 1..Len(engines)
      /\ \A e \in 1..Len(engines) : engines[e] \in EngineRecords
  <2>1. engines \in Seq(EngineRecords) /\ engines # << >>
    BY DEF DecisionInv, EngineTypes
  <2>2. Len(engines) # 0
    BY <2>1, EmptySeq
  <2> QED BY <2>1, <2>2
<1>3. \A e \in 1..Len(engines) :
        /\ engines[e] \in EngineRecords
        /\ engines[e].rules \in Seq(P!AllRules) /\ engines[e].hits \subseteq EngineHits
  BY <1>2 DEF EngineRecords
<1>4. \A e \in 1..Len(engines) :
        /\ Len(engines[e].rules) \in Nat
        /\ DOMAIN engines[e].rules = 1..Len(engines[e].rules)
  BY <1>3, PackRules
<1>5. \A t \in Threads : eval[t] \in Evals /\ decided[t] \in Evals
  BY DEF DecisionInv, EngineTypes
<1>6. /\ Len(admitted) \in Nat /\ DOMAIN admitted = 1..Len(admitted)
      /\ \A j \in 1..Len(admitted) : admitted[j] \in Admissions
  BY DEF DecisionInv, EngineTypes
<1> QED BY <1>1, <1>2, <1>3, <1>4, <1>5, <1>6

(* Where only limiters change, or nothing.                                 *)
LEMMA SameRulesExtend ==
  ASSUME P!EngineAssumption, DecisionInv, NEW fs,
         \A e \in DOMAIN engines :
           e \in DOMAIN fs /\ fs[e].rules = engines[e].rules /\ fs[e].default = engines[e].default
  PROVE  Extends(engines, fs)
BY EngineFacts DEF Extends

LEMMA NoEvalType == P!NoEval \in Evals /\ P!NoEval.engine = 0
BY DEF P!NoEval, Evals, P!Effects

LEMMA DecisionsStart ==
  ASSUME P!EngineAssumption, P!Init
  PROVE  DecisionInv
<1>1. PICK pack \in EngineRules, effect \in Defaults : engines = <<P!Engine(pack, effect)>>
  BY DEF P!Init
<1>2. /\ engineNow = 0 /\ calls = 0 /\ admitted = << >>
      /\ enginePc = [t \in Threads |-> "idle"]
      /\ eval = [t \in Threads |-> P!NoEval] /\ decided = [t \in Threads |-> P!NoEval]
  BY DEF P!Init
<1>4. P!Engine(pack, effect) \in EngineRecords /\ P!Engine(pack, effect).hits = {}
  BY NewEngine
<1>5. EngineTypes
  <2>1. engines \in Seq(EngineRecords) /\ engines # << >>
    BY <1>1, <1>4
  <2>2. engineNow \in 0..EngineTime
    BY <1>2 DEF P!EngineAssumption
  <2> QED BY <1>2, <2>1, <2>2, NoEvalType DEF EngineTypes
<1>6. Judging
  <2> SUFFICES ASSUME NEW t \in Threads
               PROVE  ThreadJudged(engines, engineNow, enginePc[t], eval[t], decided[t])
    BY DEF Judging
  <2> QED BY <1>2, NoEvalType DEF ThreadJudged
<1>7. Remembered
  <2>1. DOMAIN engines = {1} /\ engines[1].hits = {}
    BY <1>1, <1>4
  <2>2. IsFiniteSet({})
    BY FS_EmptySet
  <2> QED BY <2>1, <2>2 DEF Remembered
<1> QED BY <1>5, <1>6, <1>7 DEF DecisionInv

(* A new engine does not touch what runs on the one before.                *)
LEMMA InstallKeepsDecisions ==
  ASSUME P!EngineAssumption, DecisionInv, NEW pack \in EngineRules,
         NEW effect \in Defaults, P!Install(pack, effect)
  PROVE  /\ DecisionInv' /\ Extends(engines, engines')
         /\ \A e \in DOMAIN engines : engines'[e] = engines[e]
<1>1. /\ engines' = Append(engines, P!Engine(pack, effect))
      /\ UNCHANGED <<engineNow, enginePc, eval, calls, decided, admitted>>
  BY DEF P!Install
<1>3. P!Engine(pack, effect) \in EngineRecords /\ P!Engine(pack, effect).hits = {}
  BY NewEngine
<1>4. engines \in Seq(EngineRecords)
  BY DEF DecisionInv, EngineTypes
<1>5. /\ engines' \in Seq(EngineRecords) /\ engines' # << >>
      /\ Len(engines') = Len(engines) + 1
      /\ \A e \in 1..Len(engines) : engines'[e] = engines[e]
      /\ engines'[Len(engines) + 1] = P!Engine(pack, effect)
  BY <1>1, <1>3, <1>4, AppendProperties
<1>6. /\ Len(engines) \in Nat /\ DOMAIN engines = 1..Len(engines)
      /\ DOMAIN engines' = 1..(Len(engines) + 1)
  BY <1>4, <1>5
<1>7. \A e \in DOMAIN engines : e \in DOMAIN engines' /\ engines'[e] = engines[e]
  BY <1>5, <1>6
<1>11. Extends(engines, engines')
  BY <1>7, SameRulesExtend
<1>8. EngineTypes'
  BY <1>1, <1>5 DEF DecisionInv, EngineTypes
<1>9. Judging'
  <2> SUFFICES ASSUME NEW t \in Threads
               PROVE  ThreadJudged(engines', engineNow, enginePc[t], eval[t], decided[t])
    BY <1>1 DEF Judging
  <2>1. ThreadJudged(engines, engineNow, enginePc[t], eval[t], decided[t])
    BY DEF DecisionInv, Judging
  <2>2. engineNow \in Int /\ engineNow <= engineNow /\ eval[t] \in Evals /\ decided[t] \in Evals
    BY EngineFacts
  <2> QED BY <1>11, <2>1, <2>2, ThreadStays
<1>10. Remembered'
  <2> SUFFICES ASSUME NEW e \in DOMAIN engines'
               PROVE  /\ IsFiniteSet(engines'[e].hits)
                      /\ \A h \in engines'[e].hits :
                           /\ h.at <= engineNow
                           /\ h.rule \in DOMAIN engines'[e].rules
                           /\ engines'[e].rules[h.rule].effect = "rate_limit"
    BY <1>1 DEF Remembered
  <2>1. CASE e \in DOMAIN engines
    BY <1>7, <2>1 DEF DecisionInv, Remembered
  <2>2. CASE e = Len(engines) + 1
    BY <1>3, <1>5, <2>2, FS_EmptySet
  <2> QED BY <1>6, <2>1, <2>2
<1> QED BY <1>7, <1>8, <1>9, <1>10, <1>11 DEF DecisionInv

(* A rule added comes after those there are.                               *)
LEMMA AddKeepsDecisions ==
  ASSUME P!EngineAssumption, DecisionInv, NEW e \in DOMAIN engines, NEW rule \in NewRules,
         P!Add(e, rule)
  PROVE  /\ DecisionInv' /\ Extends(engines, engines')
         /\ \A f \in DOMAIN engines : engines'[f].hits = engines[f].hits
<1> DEFINE longer == [engines[e] EXCEPT !.rules = Append(@, rule)]
<1>1. /\ engines' = [engines EXCEPT ![e] = longer]
      /\ UNCHANGED <<engineNow, enginePc, eval, calls, decided, admitted>>
  BY DEF P!Add
<1>2. engines[e] \in EngineRecords /\ rule \in P!AllRules
  BY EngineFacts DEF P!AllRules
<1>3. /\ longer \in EngineRecords /\ longer.rules = Append(engines[e].rules, rule)
      /\ longer.default = engines[e].default /\ longer.hits = engines[e].hits
  <2> DEFINE longerRules == Append(engines[e].rules, rule)
  <2>1. longerRules \in Seq(P!AllRules)
    BY <1>2, AppendProperties DEF EngineRecords
  <2>2. longer = [engines[e] EXCEPT !.rules = longerRules]
    OBVIOUS
  <2> HIDE DEF longerRules, longer
  <2>3. /\ longer \in EngineRecords /\ longer.rules = longerRules
        /\ longer.default = engines[e].default /\ longer.hits = engines[e].hits
    BY <1>2, <2>1, <2>2 DEF EngineRecords
  <2> QED BY <2>3 DEF longerRules
<1> HIDE DEF longer
<1>4. engines \in Seq(EngineRecords) /\ e \in 1..Len(engines)
  BY EngineFacts DEF DecisionInv, EngineTypes
<1>5. /\ engines' \in Seq(EngineRecords) /\ Len(engines') = Len(engines)
      /\ \A f \in 1..Len(engines) : engines'[f] = IF f = e THEN longer ELSE engines[f]
  BY <1>1, <1>3, <1>4, ExceptSeq
<1>6. engines' # << >> /\ DOMAIN engines' = 1..Len(engines) /\ DOMAIN engines = 1..Len(engines)
  BY <1>4, <1>5, EmptySeq
<1>7. /\ Len(longer.rules) = Len(engines[e].rules) + 1
      /\ Len(engines[e].rules) \in Nat
      /\ DOMAIN engines[e].rules = 1..Len(engines[e].rules)
      /\ DOMAIN longer.rules = 1..Len(longer.rules)
      /\ \A i \in DOMAIN engines[e].rules : longer.rules[i] = engines[e].rules[i]
  <2>1. engines[e].rules \in Seq(P!AllRules)
    BY <1>2 DEF EngineRecords
  <2> QED BY <1>2, <1>3, <2>1, AppendProperties
<1>8. Extends(engines, engines')
  <2> SUFFICES ASSUME NEW f \in DOMAIN engines
               PROVE  /\ f \in DOMAIN engines' /\ engines'[f].default = engines[f].default
                      /\ Len(engines[f].rules) \in Nat /\ Len(engines'[f].rules) \in Nat
                      /\ Len(engines[f].rules) <= Len(engines'[f].rules)
                      /\ DOMAIN engines[f].rules = 1..Len(engines[f].rules)
                      /\ DOMAIN engines'[f].rules = 1..Len(engines'[f].rules)
                      /\ \A i \in DOMAIN engines[f].rules :
                           engines'[f].rules[i] = engines[f].rules[i]
    BY DEF Extends
  <2>1. CASE f = e
    BY <1>3, <1>5, <1>6, <1>7, <2>1
  <2>2. CASE f # e
    BY <1>5, <1>6, <2>2, EngineFacts
  <2> QED BY <2>1, <2>2
<1>9. \A f \in DOMAIN engines : engines'[f].hits = engines[f].hits
  BY <1>3, <1>5, <1>6
<1>10. EngineTypes'
  BY <1>1, <1>5, <1>6 DEF DecisionInv, EngineTypes
<1>11. Judging'
  <2> SUFFICES ASSUME NEW t \in Threads
               PROVE  ThreadJudged(engines', engineNow, enginePc[t], eval[t], decided[t])
    BY <1>1 DEF Judging
  <2>1. ThreadJudged(engines, engineNow, enginePc[t], eval[t], decided[t])
    BY DEF DecisionInv, Judging
  <2>2. engineNow \in Int /\ engineNow <= engineNow /\ eval[t] \in Evals /\ decided[t] \in Evals
    BY EngineFacts
  <2> QED BY <1>8, <2>1, <2>2, ThreadStays
<1>12. Remembered'
  <2> SUFFICES ASSUME NEW f \in DOMAIN engines
               PROVE  /\ IsFiniteSet(engines[f].hits)
                      /\ \A h \in engines[f].hits :
                           /\ h.at <= engineNow
                           /\ h.rule \in DOMAIN engines'[f].rules
                           /\ engines'[f].rules[h.rule].effect = "rate_limit"
    BY <1>1, <1>6, <1>9 DEF Remembered
  <2>1. \A i \in DOMAIN engines[f].rules :
          i \in DOMAIN engines'[f].rules /\ engines'[f].rules[i] = engines[f].rules[i]
    BY <1>8 DEF Extends
  <2> QED BY <2>1 DEF DecisionInv, Remembered
<1> QED BY <1>8, <1>9, <1>10, <1>11, <1>12 DEF DecisionInv

LEMMA EvaluateKeepsDecisions ==
  ASSUME P!EngineAssumption, DecisionInv, NEW t \in Threads, NEW c \in Contexts, P!Evaluate(t, c)
  PROVE  DecisionInv'
<1> DEFINE e == Len(engines)
           x == [P!NoEval EXCEPT !.ctx = c, !.engine = e, !.began = Len(engines[e].rules),
                                 !.i = 1, !.effect = engines[e].default]
<1>1. /\ enginePc' = [enginePc EXCEPT ![t] = "rules"] /\ eval' = [eval EXCEPT ![t] = x]
      /\ calls' = calls + 1
      /\ UNCHANGED <<engineNow, engines, decided, admitted>>
  BY DEF P!Evaluate
<1>0. /\ e \in DOMAIN engines /\ e \in Nat /\ Len(engines[e].rules) \in Nat
      /\ engines[e].default \in P!Effects
  BY EngineFacts DEF EngineRecords, P!EngineAssumption
<1>2. /\ x.ctx = c /\ x.engine = e /\ x.began = Len(engines[e].rules) /\ x.i = 1
      /\ x.over = {} /\ x.at = 0 /\ x.effect = engines[e].default /\ x.rule = 0
      /\ x \in Evals
  BY <1>0 DEF P!NoEval, Evals
<1> HIDE DEF x
<1>3. Judged(engines, x)
  <2>1. P!Restrictiveness(engines[e].default) \in 0..3
    BY <1>0, RestrictivenessType
  <2> QED BY <1>0, <1>2, <2>1 DEF Judged
<1>4. EngineTypes'
  BY <1>1, <1>2 DEF DecisionInv, EngineTypes
<1>5. Judging'
  <2> SUFFICES ASSUME NEW u \in Threads
               PROVE  ThreadJudged(engines, engineNow, enginePc'[u], eval'[u], decided[u])
    BY <1>1 DEF Judging
  <2>1. ThreadJudged(engines, engineNow, enginePc[u], eval[u], decided[u])
    BY DEF DecisionInv, Judging
  <2>2. CASE u = t
    <3>1. enginePc'[u] = "rules" /\ eval'[u] = x
      BY <1>1, <2>2 DEF DecisionInv, EngineTypes
    <3>2. 0 <= engineNow
      BY EngineFacts
    <3> QED BY <1>2, <1>3, <2>1, <3>1, <3>2 DEF ThreadJudged
  <2>3. CASE u # t
    <3>1. enginePc'[u] = enginePc[u] /\ eval'[u] = eval[u]
      BY <1>1, <2>3 DEF DecisionInv, EngineTypes
    <3> QED BY <2>1, <3>1
  <2> QED BY <2>2, <2>3
<1>6. Remembered'
  BY <1>1 DEF DecisionInv, Remembered
<1> QED BY <1>4, <1>5, <1>6 DEF DecisionInv

(* A thread goes on to its next rule; the others stay where they are.      *)
LEMMA OneGoesOn ==
  ASSUME P!EngineAssumption, DecisionInv, NEW t \in Threads, NEW y \in Evals,
         Judged(engines, y), y.at <= engineNow,
         enginePc' = [enginePc EXCEPT ![t] = "rules"], eval' = [eval EXCEPT ![t] = y],
         UNCHANGED <<engineNow, decided>>,
         Extends(engines, engines')
  PROVE  /\ Judging'
         /\ enginePc' \in [Threads -> {"idle", "rules", "hit"}] /\ eval' \in [Threads -> Evals]
<1>1. SUFFICES ASSUME NEW u \in Threads
      PROVE  ThreadJudged(engines', engineNow, enginePc'[u], eval'[u], decided[u])
  BY DEF Judging, DecisionInv, EngineTypes
<1>2. ThreadJudged(engines, engineNow, enginePc[u], eval[u], decided[u])
  BY DEF DecisionInv, Judging
<1>3. engineNow \in Int /\ engineNow <= engineNow /\ eval'[u] \in Evals /\ decided[u] \in Evals
  <2>1. eval'[u] \in Evals
    BY DEF DecisionInv, EngineTypes
  <2> QED BY <2>1, EngineFacts
<1>4. ThreadJudged(engines, engineNow, enginePc'[u], eval'[u], decided[u])
  <2>1. CASE u = t
    <3>1. enginePc'[u] = "rules" /\ eval'[u] = y
      BY <2>1 DEF DecisionInv, EngineTypes
    <3> QED BY <1>2, <3>1 DEF ThreadJudged
  <2>2. CASE u # t
    <3>1. enginePc'[u] = enginePc[u] /\ eval'[u] = eval[u]
      BY <2>2 DEF DecisionInv, EngineTypes
    <3> QED BY <1>2, <3>1
  <2> QED BY <2>1, <2>2
<1> QED BY <1>3, <1>4, ThreadStays

(* An effect that wins, and the next rule. *)
Winning(x, over, effect) ==
  [[x EXCEPT !.over = over, !.effect = effect, !.rule = x.i] EXCEPT !.i = @ + 1]

LEMMA WonEval ==
  ASSUME NEW x \in Evals, NEW over \in SUBSET Nat, NEW effect \in P!Effects,
         NEW w, w = Winning(x, over, effect)
  PROVE  /\ w \in Evals /\ w.engine = x.engine /\ w.ctx = x.ctx /\ w.i = x.i + 1
         /\ w.began = x.began /\ w.over = over /\ w.effect = effect /\ w.rule = x.i /\ w.at = x.at
<1>1. PICK v : v = [x EXCEPT !.over = over, !.effect = effect, !.rule = x.i]
  OBVIOUS
<1>2. v = [ctx |-> x.ctx, engine |-> x.engine, began |-> x.began, at |-> x.at, i |-> x.i,
           over |-> over, effect |-> effect, rule |-> x.i]
  BY <1>1 DEF Evals
<1>3. v.i = x.i /\ w = [v EXCEPT !.i = v.i + 1]
  BY <1>1, <1>2 DEF Winning
<1>4. w = [ctx |-> x.ctx, engine |-> x.engine, began |-> x.began, at |-> x.at, i |-> x.i + 1,
           over |-> over, effect |-> effect, rule |-> x.i]
  BY <1>2, <1>3
<1>5. x.i + 1 \in Nat
  BY DEF Evals
<1> QED BY <1>4, <1>5 DEF Evals

LEMMA ApplyKeepsDecisions ==
  ASSUME P!EngineAssumption, DecisionInv, NEW t \in Threads, P!Apply(t)
  PROVE  DecisionInv'
<1> DEFINE x == eval[t]
           rules == engines[x.engine].rules
           next == [x EXCEPT !.i = @ + 1]
           won == [[x EXCEPT !.effect = rules[x.i].effect, !.rule = x.i] EXCEPT !.i = @ + 1]
<1>1. /\ enginePc[t] = "rules" /\ x.i <= Len(rules)
      /\ UNCHANGED <<engineNow, engines, calls, decided, admitted>>
  BY DEF P!Apply, P!Rules
<1>2. x \in Evals /\ Judged(engines, x) /\ x.at <= engineNow
  BY <1>1, EngineFacts DEF DecisionInv, Judging, ThreadJudged
<1>3. /\ engines[x.engine] \in EngineRecords /\ rules \in Seq(P!AllRules) /\ x.i \in Nat /\ x.i >= 1 /\ x.i <= Len(rules)
      /\ x.over \subseteq 1..(x.i - 1)
      /\ x.engine \in DOMAIN engines
  BY <1>1, <1>2, EngineFacts DEF Judged
<1>4. rules[x.i].effect \in P!Effects
  BY <1>3, PackRules
<1>5. x.over \subseteq 1..x.i /\ x.i \notin x.over
  BY <1>3
<1>6. /\ next \in Evals /\ next.engine = x.engine /\ next.ctx = x.ctx /\ next.i = x.i + 1
      /\ next.began = x.began /\ next.over = x.over /\ next.effect = x.effect /\ next.rule = x.rule /\ next.at = x.at
  BY <1>2, <1>3 DEF Evals
<1>7. /\ won \in Evals /\ won.engine = x.engine /\ won.ctx = x.ctx /\ won.i = x.i + 1
      /\ won.began = x.began /\ won.over = x.over /\ won.effect = rules[x.i].effect /\ won.rule = x.i /\ won.at = x.at
  <2>1. won = Winning(x, x.over, rules[x.i].effect)
    BY <1>2 DEF Evals, Winning
  <2>2. x.over \in SUBSET Nat
    BY <1>2 DEF Evals
  <2>3. x \in Evals
    BY <1>2
  <2> HIDE DEF won, x, rules
  <2> QED BY <1>4, <2>1, <2>2, <2>3, WonEval
<1>8. P!Restrictiveness(x.effect) \in 0..3 /\ P!Restrictiveness(rules[x.i].effect) \in 0..3
  BY <1>2, <1>4, RestrictivenessType DEF Evals
<1>9. P!Rule(t) = rules[x.i]
  BY DEF P!Rule, P!Rules
<1>10. ASSUME NEW y \in Evals, Judged(engines, y), y.at = x.at,
              enginePc' = [enginePc EXCEPT ![t] = "rules"], eval' = [eval EXCEPT ![t] = y]
       PROVE  DecisionInv'
  <2>1. Extends(engines, engines')
    BY <1>1, SameRulesExtend
  <2>2. /\ Judging' /\ enginePc' \in [Threads -> {"idle", "rules", "hit"}]
        /\ eval' \in [Threads -> Evals]
    BY <1>1, <1>2, <1>10, <2>1, OneGoesOn
  <2> QED BY <1>1, <2>2 DEF DecisionInv, EngineTypes, Remembered
<1> HIDE DEF next, won
<1>11. CASE ~P!Fires(rules[x.i], x.ctx)
  <2>1. P!NextRule(t, x)
    BY <1>9, <1>11 DEF P!Apply
  <2>2. enginePc' = [enginePc EXCEPT ![t] = "rules"] /\ eval' = [eval EXCEPT ![t] = next]
    BY <2>1 DEF P!NextRule, next
  <2>3. Judged(engines, next)
    <3> HIDE DEF x
    <3> QED BY <1>2, <1>3, <1>5, <1>6, <1>11, NextJudged
  <2> QED BY <1>6, <1>10, <2>2, <2>3
<1>12. CASE P!Fires(rules[x.i], x.ctx) /\ rules[x.i].effect # "rate_limit"
  <2>1. P!Meet(t, rules[x.i].effect, x)
    BY Zenon, <1>9, <1>12 DEF P!Apply
  <2>2. EffectOf(engines[x.engine], x.over, x.i) = rules[x.i].effect
    BY <1>12 DEF EffectOf
  <2>3. CASE P!Wins(t, rules[x.i].effect)
    <3>1. enginePc' = [enginePc EXCEPT ![t] = "rules"] /\ eval' = [eval EXCEPT ![t] = won]
      BY <2>1, <2>3 DEF P!Meet, P!NextRule, won
    <3>2. P!Restrictiveness(won.effect) >= P!Restrictiveness(x.effect)
      BY <1>7, <1>8, <2>3 DEF P!Wins
    <3>3. Judged(engines, won)
      <4> HIDE DEF x
      <4> QED BY <1>2, <1>3, <1>5, <1>7, <1>12, <2>2, <3>2, NextJudged
    <3> HIDE DEF x
    <3> QED BY <1>7, <1>10, <3>1, <3>3
  <2>4. CASE ~P!Wins(t, rules[x.i].effect)
    <3>1. enginePc' = [enginePc EXCEPT ![t] = "rules"] /\ eval' = [eval EXCEPT ![t] = next]
      BY <2>1, <2>4 DEF P!Meet, P!NextRule, next
    <3>2. P!Restrictiveness(x.effect) >= P!Restrictiveness(EffectOf(engines[x.engine], x.over, x.i))
      BY <1>8, <2>2, <2>4 DEF P!Wins
    <3>3. Judged(engines, next)
      <4> HIDE DEF x
      <4> QED BY <1>2, <1>3, <1>5, <1>6, <1>12, <3>2, NextJudged
    <3> HIDE DEF x
    <3> QED BY <1>6, <1>10, <3>1, <3>3
  <2> QED BY <2>3, <2>4
<1>13. CASE P!Fires(rules[x.i], x.ctx) /\ rules[x.i].effect = "rate_limit"
  <2> DEFINE z == [x EXCEPT !.at = engineNow]
  <2>1. enginePc' = [enginePc EXCEPT ![t] = "hit"] /\ eval' = [eval EXCEPT ![t] = z]
    BY <1>9, <1>13 DEF P!Apply
  <2>2. /\ z \in Evals /\ z.engine = x.engine /\ z.ctx = x.ctx /\ z.i = x.i /\ z.over = x.over
        /\ z.began = x.began
        /\ z.effect = x.effect /\ z.rule = x.rule /\ z.at = engineNow
    BY <1>2, EngineFacts DEF Evals
  <2> HIDE DEF z
  <2>3. Judged(engines, z)
    BY <1>2, <2>2 DEF Judged
  <2>4. Judging'
    <3> SUFFICES ASSUME NEW u \in Threads
                 PROVE  ThreadJudged(engines, engineNow, enginePc'[u], eval'[u], decided[u])
      BY <1>1 DEF Judging
    <3>1. ThreadJudged(engines, engineNow, enginePc[u], eval[u], decided[u])
      BY SMTT(30) DEF DecisionInv, Judging
    <3>2. CASE u = t
      <4>1. enginePc'[u] = "hit" /\ eval'[u] = z
        BY <2>1, <3>2 DEF DecisionInv, EngineTypes
      <4>2. engineNow <= engineNow
        BY EngineFacts
      <4> QED BY <1>1, <1>13, <2>2, <2>3, <3>1, <4>1, <4>2 DEF ThreadJudged
    <3>3. CASE u # t
      <4>1. enginePc'[u] = enginePc[u] /\ eval'[u] = eval[u]
        BY <2>1, <3>3 DEF DecisionInv, EngineTypes
      <4> QED BY <3>1, <4>1
    <3> QED BY <3>2, <3>3
  <2>5. EngineTypes'
    BY <1>1, <2>1, <2>2 DEF DecisionInv, EngineTypes
  <2> QED BY <1>1, <2>4, <2>5 DEF DecisionInv, Remembered
<1> QED BY <1>11, <1>12, <1>13

LEMMA DecideKeepsDecisions ==
  ASSUME P!EngineAssumption, DecisionInv, NEW t \in Threads, P!Decide(t)
  PROVE  DecisionInv'
<1>1. /\ enginePc[t] = "rules" /\ eval[t].i > Len(engines[eval[t].engine].rules)
      /\ enginePc' = [enginePc EXCEPT ![t] = "idle"] /\ eval' = [eval EXCEPT ![t] = P!NoEval]
      /\ decided' = [decided EXCEPT ![t] = eval[t]]
      /\ UNCHANGED <<engineNow, engines, calls, admitted>>
  BY DEF P!Decide, P!Rules
<1>2. eval[t] \in Evals /\ Judged(engines, eval[t])
  BY <1>1, EngineFacts DEF DecisionInv, Judging, ThreadJudged
<1>3. eval[t].began <= eval[t].i - 1
  <2>1. Len(engines[eval[t].engine].rules) \in Nat
    BY <1>2, EngineFacts DEF Judged
  <2>2. eval[t].i \in Nat /\ eval[t].began \in Nat
    BY <1>2 DEF Evals
  <2> QED BY <1>1, <1>2, <2>1, <2>2 DEF Judged
<1>4. EngineTypes'
  BY <1>1, <1>2, NoEvalType DEF DecisionInv, EngineTypes
<1>5. Judging'
  <2> SUFFICES ASSUME NEW u \in Threads
               PROVE  ThreadJudged(engines, engineNow, enginePc'[u], eval'[u], decided'[u])
    BY <1>1 DEF Judging
  <2>1. ThreadJudged(engines, engineNow, enginePc[u], eval[u], decided[u])
    BY DEF DecisionInv, Judging
  <2>2. CASE u = t
    <3>1. enginePc'[u] = "idle" /\ eval'[u] = P!NoEval /\ decided'[u] = eval[t]
      BY <1>1, <2>2 DEF DecisionInv, EngineTypes
    <3> QED BY <1>2, <1>3, <3>1 DEF ThreadJudged
  <2>3. CASE u # t
    <3>1. enginePc'[u] = enginePc[u] /\ eval'[u] = eval[u] /\ decided'[u] = decided[u]
      BY <1>1, <2>3 DEF DecisionInv, EngineTypes
    <3> QED BY <2>1, <3>1
  <2> QED BY <2>2, <2>3
<1> QED BY <1>1, <1>4, <1>5 DEF DecisionInv, Remembered

LEMMA TickKeepsDecisions ==
  ASSUME P!EngineAssumption, DecisionInv, P!Tick
  PROVE  DecisionInv'
<1>1. /\ engineNow < EngineTime /\ engineNow' = engineNow + 1
      /\ UNCHANGED <<engines, enginePc, eval, calls, decided, admitted>>
  BY DEF P!Tick
<1>2. engineNow \in Int /\ engineNow' \in Int /\ engineNow <= engineNow'
  BY <1>1, EngineFacts
<1>3. EngineTypes'
  BY <1>1, EngineFacts DEF DecisionInv, EngineTypes, P!EngineAssumption
<1>4. Judging'
  <2> SUFFICES ASSUME NEW u \in Threads
               PROVE  ThreadJudged(engines, engineNow', enginePc[u], eval[u], decided[u])
    BY <1>1 DEF Judging
  <2>1. ThreadJudged(engines, engineNow, enginePc[u], eval[u], decided[u])
    BY DEF DecisionInv, Judging
  <2>2. eval[u] \in Evals /\ decided[u] \in Evals
    BY EngineFacts
  <2>3. Extends(engines, engines)
    BY SameRulesExtend
  <2> QED BY <1>2, <2>1, <2>2, <2>3, ThreadStays
<1>5. Remembered'
  <2>1. \A e \in DOMAIN engines : \A h \in engines[e].hits : h.at \in Nat
    BY EngineFacts DEF EngineHits
  <2> QED BY <1>1, <1>2, <2>1 DEF DecisionInv, Remembered
<1> QED BY <1>3, <1>4, <1>5 DEF DecisionInv

(* What a thread finds in the limiter, and what it leaves there.           *)
Own(t, h) == h.agent = eval[t].ctx.agent /\ P!Rules(t)[h.rule].name = P!Rule(t).name

Kept(t) ==
  {h \in engines[eval[t].engine].hits :
     Own(t, h) => P!InWindow(h.at, eval[t].at, P!Rule(t).per_seconds)}

OverLimit(t) == Cardinality({h \in Kept(t) : Own(t, h)}) >= P!Rule(t).max_calls

NewHit(t) ==
  [agent |-> eval[t].ctx.agent, rule |-> eval[t].i, at |-> eval[t].at, number |-> Len(admitted) + 1]

NewAdmission(t) ==
  [engine |-> eval[t].engine, agent |-> eval[t].ctx.agent, rule |-> eval[t].i, by |-> t,
   read |-> eval[t].at, at |-> engineNow]

LEMMA HitCases ==
  ASSUME NEW t \in Threads, P!Hit(t)
  PROVE  /\ enginePc[t] = "hit"
         /\ UNCHANGED <<engineNow, calls, decided>>
         /\ \/ /\ OverLimit(t)
               /\ engines' = [engines EXCEPT ![eval[t].engine].hits = Kept(t)]
               /\ P!Meet(t, "deny", [eval[t] EXCEPT !.over = @ \cup {eval[t].i}])
               /\ admitted' = admitted
            \/ /\ ~OverLimit(t)
               /\ engines' = [engines EXCEPT ![eval[t].engine].hits = Kept(t) \cup {NewHit(t)}]
               /\ P!NextRule(t, eval[t])
               /\ admitted' = Append(admitted, NewAdmission(t))
<1>1. Kept(t) = {h \in engines[eval[t].engine].hits :
                   h.agent = eval[t].ctx.agent /\ P!Rules(t)[h.rule].name = P!Rule(t).name
                     => P!InWindow(h.at, eval[t].at, P!Rule(t).per_seconds)}
  BY DEF Kept, Own
<1>2. OverLimit(t) <=> P!Cardinality({h \in Kept(t) : h.agent = eval[t].ctx.agent
                                        /\ P!Rules(t)[h.rule].name = P!Rule(t).name})
                         >= P!Rule(t).max_calls
  BY EngineCardinality DEF OverLimit, Own
<1> HIDE DEF Kept
<1>3. CASE OverLimit(t)
  BY Zenon, <1>1, <1>2, <1>3 DEF P!Hit
<1>4. CASE ~OverLimit(t)
  BY Zenon, <1>1, <1>2, <1>4 DEF P!Hit, NewHit, NewAdmission
<1>5. enginePc[t] = "hit" /\ UNCHANGED <<engineNow, calls, decided>>
  BY DEF P!Hit
<1> QED BY <1>3, <1>4, <1>5

(* The limiter of one engine changes, its rules do not.                    *)
LEMMA LimiterChanges ==
  ASSUME P!EngineAssumption, DecisionInv, NEW e \in DOMAIN engines, NEW hits \in SUBSET EngineHits,
         engines' = [engines EXCEPT ![e].hits = hits]
  PROVE  /\ engines' \in Seq(EngineRecords) /\ engines' # << >>
         /\ DOMAIN engines' = DOMAIN engines
         /\ Extends(engines, engines')
         /\ \A d \in DOMAIN engines : engines'[d].rules = engines[d].rules
         /\ \A d \in DOMAIN engines : engines'[d].hits = IF d = e THEN hits ELSE engines[d].hits
<1> DEFINE changed == [engines[e] EXCEPT !.hits = hits]
<1>1. engines' = [engines EXCEPT ![e] = changed]
  OBVIOUS
<1>2. changed \in EngineRecords /\ changed.rules = engines[e].rules
      /\ changed.default = engines[e].default /\ changed.hits = hits
  BY EngineFacts DEF EngineRecords
<1> HIDE DEF changed
<1>3. engines \in Seq(EngineRecords) /\ e \in 1..Len(engines)
  BY EngineFacts DEF DecisionInv, EngineTypes
<1>4. /\ engines' \in Seq(EngineRecords) /\ Len(engines') = Len(engines)
      /\ \A d \in 1..Len(engines) : engines'[d] = IF d = e THEN changed ELSE engines[d]
  BY <1>1, <1>2, <1>3, ExceptSeq
<1>5. engines' # << >>
  BY <1>1, <1>3, <1>4, EmptySeq
<1>6. DOMAIN engines' = 1..Len(engines) /\ DOMAIN engines = 1..Len(engines)
  BY <1>3, <1>4
<1>7. Extends(engines, engines')
  BY <1>2, <1>4, <1>6, SameRulesExtend
<1> QED BY <1>2, <1>4, <1>5, <1>6, <1>7

(* A call over the limit is denied, one within it goes on to the next      *)
(* rule.                                                                   *)
LEMMA HitKeepsDecisions ==
  ASSUME P!EngineAssumption, DecisionInv, NEW t \in Threads, P!Hit(t)
  PROVE  DecisionInv'
<1> DEFINE x == eval[t]
           rules == engines[x.engine].rules
           over == x.over \cup {x.i}
           full == [x EXCEPT !.over = over]
           next == [x EXCEPT !.i = @ + 1]
<1>1. enginePc[t] = "hit" /\ UNCHANGED <<engineNow, calls, decided>>
  BY HitCases
<1>2. /\ x \in Evals /\ Judged(engines, x) /\ x.at <= engineNow
      /\ x.i <= Len(rules) /\ rules[x.i].effect = "rate_limit" /\ P!Fires(rules[x.i], x.ctx)
  BY <1>1, EngineFacts DEF DecisionInv, Judging, ThreadJudged
<1>3. /\ engines[x.engine] \in EngineRecords /\ rules \in Seq(P!AllRules) /\ x.i \in Nat /\ x.i >= 1 /\ x.i <= Len(rules)
      /\ x.over \subseteq 1..(x.i - 1) /\ x.i \in DOMAIN rules
      /\ x.engine \in DOMAIN engines /\ x.ctx \in Contexts
  <2>1. x.engine \in DOMAIN engines /\ x.ctx \in Contexts /\ x.over \subseteq 1..(x.i - 1)
        /\ x.i \in 1..(Len(rules) + 1)
    BY <1>2 DEF Judged
  <2>2. engines[x.engine] \in EngineRecords /\ rules \in Seq(P!AllRules) /\ Len(rules) \in Nat /\ DOMAIN rules = 1..Len(rules)
    BY <2>1, EngineFacts
  <2> HIDE DEF x, rules
  <2> QED BY <1>2, <2>1, <2>2
<1>4. over \in SUBSET Nat /\ over \subseteq 1..x.i /\ \A j \in 1..(x.i - 1) : j \in over <=> j \in x.over
  BY <1>3
<1>5. /\ Kept(t) \subseteq engines[x.engine].hits /\ Kept(t) \in SUBSET EngineHits
      /\ IsFiniteSet(Kept(t)) /\ IsFiniteSet(Kept(t) \cup {NewHit(t)})
  <2>1. Kept(t) \subseteq engines[x.engine].hits /\ engines[x.engine].hits \subseteq EngineHits
    BY <1>3, EngineFacts DEF Kept
  <2>2. IsFiniteSet(engines[x.engine].hits)
    BY <1>3 DEF DecisionInv, Remembered
  <2>3. IsFiniteSet(Kept(t))
    BY <2>1, <2>2, FS_Subset
  <2> QED BY <2>1, <2>3, FS_AddElement
<1>6. /\ NewHit(t) \in EngineHits /\ NewHit(t).at = x.at /\ NewHit(t).rule = x.i
      /\ NewAdmission(t) \in Admissions
  BY <1>2, <1>3, EngineFacts DEF NewHit, NewAdmission, EngineHits, Admissions, ContextAgents, Evals
<1>7. P!Restrictiveness("allow") = 0 /\ P!Restrictiveness("deny") = 3
      /\ P!Restrictiveness(x.effect) \in 0..3
  <2>1. P!Restrictiveness("allow") = 0 /\ P!Restrictiveness("deny") = 3
    BY DEF P!Restrictiveness
  <2> QED BY <1>2, <2>1, RestrictivenessType DEF Evals
<1>8. ASSUME NEW y \in Evals, Judged(engines, y), y.at = x.at,
             enginePc' = [enginePc EXCEPT ![t] = "rules"], eval' = [eval EXCEPT ![t] = y],
             NEW hits \in SUBSET EngineHits, IsFiniteSet(hits),
             hits \subseteq engines[x.engine].hits \cup {NewHit(t)},
             engines' = [engines EXCEPT ![x.engine].hits = hits],
             admitted' \in Seq(Admissions)
      PROVE  DecisionInv'
  <2>1. /\ engines' \in Seq(EngineRecords) /\ engines' # << >>
        /\ DOMAIN engines' = DOMAIN engines
        /\ Extends(engines, engines')
        /\ \A d \in DOMAIN engines : engines'[d].rules = engines[d].rules
        /\ \A d \in DOMAIN engines : engines'[d].hits = IF d = x.engine THEN hits ELSE engines[d].hits
    BY <1>3, <1>8, LimiterChanges
  <2>2. y.at <= engineNow
    BY <1>2, <1>8
  <2>3. /\ Judging' /\ enginePc' \in [Threads -> {"idle", "rules", "hit"}]
        /\ eval' \in [Threads -> Evals]
    BY <1>1, <1>8, <2>1, <2>2, OneGoesOn
  <2>4. EngineTypes'
    BY <1>1, <1>8, <2>1, <2>3 DEF DecisionInv, EngineTypes
  <2>5. Remembered'
    <3> SUFFICES ASSUME NEW e \in DOMAIN engines
                 PROVE  /\ IsFiniteSet(engines'[e].hits)
                        /\ \A h \in engines'[e].hits :
                             /\ h.at <= engineNow
                             /\ h.rule \in DOMAIN engines[e].rules
                             /\ engines[e].rules[h.rule].effect = "rate_limit"
      BY <1>1, <2>1 DEF Remembered
    <3>1. CASE e = x.engine
      <4>1. \A h \in engines[e].hits :
              h.at <= engineNow /\ h.rule \in DOMAIN rules /\ rules[h.rule].effect = "rate_limit"
        BY <3>1 DEF DecisionInv, Remembered
      <4>2. /\ NewHit(t).at <= engineNow /\ NewHit(t).rule \in DOMAIN rules
            /\ rules[NewHit(t).rule].effect = "rate_limit"
        BY <1>2, <1>3, <1>6
      <4>3. engines'[e].hits = hits /\ hits \subseteq engines[e].hits \cup {NewHit(t)}
        BY <1>8, <2>1, <3>1
      <4>4. \A h \in hits : h \in engines[e].hits \/ h = NewHit(t)
        BY <4>3
      <4>5. \A h \in hits :
              h.at <= engineNow /\ h.rule \in DOMAIN rules /\ rules[h.rule].effect = "rate_limit"
        BY <4>1, <4>2, <4>4
      <4> QED BY <1>8, <3>1, <4>3, <4>5
    <3>2. CASE e # x.engine
      BY <2>1, <3>2 DEF DecisionInv, Remembered
    <3> QED BY <3>1, <3>2
  <2> QED BY <2>3, <2>4, <2>5 DEF DecisionInv
<1>9. CASE OverLimit(t)
  <2>1. /\ engines' = [engines EXCEPT ![x.engine].hits = Kept(t)]
        /\ P!Meet(t, "deny", full)
        /\ admitted' = admitted
    BY <1>9, HitCases
  <2>2. /\ full \in Evals /\ full.engine = x.engine /\ full.ctx = x.ctx /\ full.i = x.i
        /\ full.began = x.began /\ full.over = over /\ full.effect = x.effect /\ full.rule = x.rule /\ full.at = x.at
    BY <1>2, <1>4 DEF Evals
  <2>3. EffectOf(engines[x.engine], over, x.i) = "deny"
    BY <1>2 DEF EffectOf
  <2>4. PICK y \in Evals :
          /\ enginePc' = [enginePc EXCEPT ![t] = "rules"] /\ eval' = [eval EXCEPT ![t] = y]
          /\ y.engine = x.engine /\ y.ctx = x.ctx /\ y.began = x.began /\ y.i = x.i + 1 /\ y.over = over /\ y.at = x.at
          /\ \/ y.effect = "deny" /\ y.rule = x.i
             \/ y.effect = x.effect /\ y.rule = x.rule
                /\ P!Restrictiveness(x.effect) >= P!Restrictiveness("deny")
    <3>1. CASE P!Wins(t, "deny")
      <4> DEFINE w == Winning(x, over, "deny")
      <4>1. [[full EXCEPT !.effect = "deny", !.rule = full.i] EXCEPT !.i = @ + 1] = w
        BY <2>2 DEF Winning
      <4>2. enginePc' = [enginePc EXCEPT ![t] = "rules"] /\ eval' = [eval EXCEPT ![t] = w]
        BY <2>1, <3>1, <4>1 DEF P!Meet, P!NextRule
      <4>3. x \in Evals /\ over \in SUBSET Nat /\ "deny" \in P!Effects
        BY <1>2, <1>4 DEF P!Effects
      <4> HIDE DEF x, over
      <4>4. /\ w \in Evals /\ w.engine = x.engine /\ w.ctx = x.ctx /\ w.i = x.i + 1
            /\ w.began = x.began /\ w.over = over /\ w.effect = "deny" /\ w.rule = x.i /\ w.at = x.at
        BY <4>3, WonEval
      <4> HIDE DEF w
      <4> QED BY <4>2, <4>4
    <3>2. CASE ~P!Wins(t, "deny")
      <4> DEFINE w == [full EXCEPT !.i = @ + 1]
      <4>1. enginePc' = [enginePc EXCEPT ![t] = "rules"] /\ eval' = [eval EXCEPT ![t] = w]
        BY <2>1, <3>2 DEF P!Meet, P!NextRule
      <4> HIDE DEF full
      <4>2. /\ w \in Evals /\ w.engine = x.engine /\ w.ctx = x.ctx /\ w.i = x.i + 1
            /\ w.began = x.began /\ w.over = over /\ w.effect = x.effect /\ w.rule = x.rule /\ w.at = x.at
        BY <2>2 DEF Evals
      <4>3. P!Restrictiveness(x.effect) >= P!Restrictiveness("deny")
        BY <1>7, <3>2 DEF P!Wins
      <4> HIDE DEF w
      <4> QED BY <4>1, <4>2, <4>3
    <3> QED BY <3>1, <3>2
  <2>5. Judged(engines, y)
    <3>1. y.over \subseteq 1..x.i /\ \A j \in 1..(x.i - 1) : j \in y.over <=> j \in x.over
      BY <1>4, <2>4
    <3>2. EffectOf(engines[x.engine], y.over, x.i) = "deny"
      BY <2>3, <2>4
    <3>3. /\ y.engine = x.engine /\ y.ctx = x.ctx /\ y.began = x.began /\ y.i = x.i + 1
          /\ \/ y.effect = "deny" /\ y.rule = x.i
             \/ y.effect = x.effect /\ y.rule = x.rule
                /\ P!Restrictiveness(x.effect) >= P!Restrictiveness("deny")
          /\ P!Restrictiveness("deny") >= P!Restrictiveness(x.effect)
      BY <1>7, <2>4
    <3> HIDE DEF x, over
    <3> QED BY <1>2, <1>3, <3>1, <3>2, <3>3, NextJudged
  <2> QED BY <1>5, <1>8, <2>1, <2>4, <2>5 DEF DecisionInv, EngineTypes
<1>10. CASE ~OverLimit(t)
  <2>1. /\ engines' = [engines EXCEPT ![x.engine].hits = Kept(t) \cup {NewHit(t)}]
        /\ P!NextRule(t, x)
        /\ admitted' = Append(admitted, NewAdmission(t))
    BY <1>10, HitCases
  <2>2. enginePc' = [enginePc EXCEPT ![t] = "rules"] /\ eval' = [eval EXCEPT ![t] = next]
    BY <2>1 DEF P!NextRule
  <2>3. /\ next \in Evals /\ next.engine = x.engine /\ next.ctx = x.ctx /\ next.i = x.i + 1
        /\ next.began = x.began /\ next.over = x.over /\ next.effect = x.effect /\ next.rule = x.rule /\ next.at = x.at
    BY <1>2, <1>3, SMTT(30) DEF Evals
  <2> HIDE DEF next
  <2>4. EffectOf(engines[x.engine], x.over, x.i) = engines[x.engine].default /\ x.over \subseteq 1..x.i
    BY <1>2, <1>3 DEF EffectOf
  <2>5. Judged(engines, next)
    <3>1. P!Restrictiveness(x.effect) >= P!Restrictiveness(EffectOf(engines[x.engine], x.over, x.i))
      BY <1>2, <2>4 DEF Judged
    <3> HIDE DEF x
    <3> QED BY <1>2, <1>3, <2>3, <2>4, <3>1, NextJudged
  <2>6. admitted' \in Seq(Admissions)
    BY <1>6, <2>1, AppendProperties DEF DecisionInv, EngineTypes
  <2> QED BY <1>5, <1>6, <1>8, <2>1, <2>2, <2>3, <2>5, <2>6
<1> QED BY <1>9, <1>10

LEMMA NextKeepsDecisions ==
  ASSUME P!EngineAssumption, DecisionInv, [P!Next]_(P!vars)
  PROVE  DecisionInv'
<1>1. CASE UNCHANGED P!vars
  BY <1>1 DEF P!vars, DecisionInv, EngineTypes, Judging, Remembered
<1>2. CASE \E pack \in EngineRules, effect \in Defaults : P!Install(pack, effect)
  BY <1>2, InstallKeepsDecisions
<1>8. CASE \E e \in DOMAIN engines, rule \in NewRules : P!Add(e, rule)
  BY <1>8, AddKeepsDecisions
<1>3. CASE \E t \in Threads : P!Apply(t)
  BY <1>3, ApplyKeepsDecisions
<1>4. CASE \E t \in Threads : P!Hit(t)
  BY <1>4, HitKeepsDecisions
<1>5. CASE \E t \in Threads : P!Decide(t)
  BY <1>5, DecideKeepsDecisions
<1>6. CASE \E t \in Threads, c \in Contexts : P!Evaluate(t, c)
  BY <1>6, EvaluateKeepsDecisions
<1>7. CASE P!Tick
  BY <1>7, TickKeepsDecisions
<1> QED BY <1>1, <1>2, <1>3, <1>4, <1>5, <1>6, <1>7, <1>8 DEF P!Next

(* Whatever the rules, calls and threads, the state of an engine has its   *)
(* type.                                                                   *)
THEOREM EngineTypeCorrect ==
  ASSUME P!EngineAssumption
  PROVE  P!Spec => []P!TypeOK
<1>1. DecisionInv => P!TypeOK
  <2> SUFFICES ASSUME DecisionInv PROVE P!TypeOK
    OBVIOUS
  <2>1. engineNow \in 0..EngineTime
    BY DEF DecisionInv, EngineTypes
  <2>2. \A e \in DOMAIN engines : \A h \in engines[e].hits :
          h.at \in 0..engineNow /\ engines[e].rules[h.rule].effect = "rate_limit"
    <3> SUFFICES ASSUME NEW e \in DOMAIN engines, NEW h \in engines[e].hits
                 PROVE  h.at \in 0..engineNow /\ engines[e].rules[h.rule].effect = "rate_limit"
      OBVIOUS
    <3>1. h.at \in Nat /\ engineNow \in Nat
      BY EngineFacts DEF EngineHits
    <3>2. h.at <= engineNow /\ engines[e].rules[h.rule].effect = "rate_limit"
      BY DEF DecisionInv, Remembered
    <3> QED BY <3>1, <3>2
  <2>3. ASSUME NEW t \in Threads
        PROVE  /\ enginePc[t] \in {"idle", "rules", "hit"}
               /\ enginePc[t] = "idle" <=> eval[t] = P!NoEval
               /\ enginePc[t] = "hit" =>
                    engines[eval[t].engine].rules[eval[t].i].effect = "rate_limit"
    <3>1. enginePc[t] \in {"idle", "rules", "hit"}
      BY DEF DecisionInv, EngineTypes
    <3>2. ThreadJudged(engines, engineNow, enginePc[t], eval[t], decided[t])
      BY DEF DecisionInv, Judging
    <3>3. enginePc[t] # "idle" => eval[t].i # 0
      BY <3>2 DEF ThreadJudged, Judged
    <3>4. P!NoEval.i = 0
      BY DEF P!NoEval
    <3> QED BY <3>1, <3>2, <3>3, <3>4 DEF ThreadJudged
  <2> QED BY <2>1, <2>2, <2>3 DEF P!TypeOK
<1> QED BY <1>1, DecisionsStart, NextKeepsDecisions, PTL DEF P!Spec

(* A decision has seen every rule there was when it began, and is as       *)
(* restrictive as the default and the most restrictive rule that fires of  *)
(* those it has seen, whatever their order, the other threads and the      *)
(* rules they add.                                                         *)
THEOREM TheMostRestrictiveWins ==
  ASSUME P!EngineAssumption
  PROVE  P!Spec => []DenyOverrides
<1>1. DecisionInv => DenyOverrides
  <2> SUFFICES ASSUME DecisionInv, NEW t \in Threads, decided[t].engine # 0
               PROVE
                 LET d == decided[t]
                     rules == engines[d.engine].rules
                     base == engines[d.engine].default
                     effect(i) == IF rules[i].effect # "rate_limit" THEN rules[i].effect
                                  ELSE IF i \in d.over THEN "deny" ELSE base
                     fired == {i \in 1..(d.i - 1) : P!Fires(rules[i], d.ctx)}
                 IN /\ d.began <= d.i - 1 /\ d.i - 1 <= Len(rules)
                    /\ \A i \in fired : P!Restrictiveness(d.effect) >= P!Restrictiveness(effect(i))
                    /\ P!Restrictiveness(d.effect) >= P!Restrictiveness(base)
                    /\ d.effect # base => d.rule \in fired /\ effect(d.rule) = d.effect
    BY DEF DenyOverrides, P!DenyOverrides
  <2> DEFINE d == decided[t]
             g == engines[d.engine]
  <2>1. Judged(engines, d) /\ d.began <= d.i - 1
    BY DEF DecisionInv, Judging, ThreadJudged
  <2>2. d.i - 1 <= Len(g.rules)
    <3>1. Len(g.rules) \in Nat /\ d.i \in 1..(Len(g.rules) + 1)
      BY <2>1, EngineFacts DEF Judged
    <3> QED BY <3>1
  <2>3. /\ \A j \in 1..(d.i - 1) : P!Fires(g.rules[j], d.ctx) =>
             P!Restrictiveness(d.effect) >= P!Restrictiveness(EffectOf(g, d.over, j))
        /\ P!Restrictiveness(d.effect) >= P!Restrictiveness(g.default)
        /\ d.effect # g.default =>
             /\ d.rule \in 1..(d.i - 1) /\ P!Fires(g.rules[d.rule], d.ctx)
             /\ EffectOf(g, d.over, d.rule) = d.effect
    BY <2>1 DEF Judged
  <2> HIDE DEF d, g
  <2> QED BY <2>1, <2>2, <2>3, SMTT(30) DEF EffectOf, d, g
<1> QED BY <1>1, DecisionsStart, NextKeepsDecisions, PTL DEF P!Spec

LEMMA LimitsStart ==
  ASSUME P!EngineAssumption, P!Init
  PROVE  LimitInv
<1>1. admitted = << >>
  BY DEF P!Init
<1>2. DOMAIN admitted = {}
  BY <1>1
<1> QED BY <1>2 DEF LimitInv, Admitted, Retained, InTurn, FreshBounded

(* Where nobody passes a limit, hits are forgotten as their window ends.   *)
LEMMA NoneAdmitted ==
  ASSUME P!EngineAssumption, DecisionInv, LimitInv, admitted' = admitted,
         engineNow' \in Int, engineNow <= engineNow',
         Extends(engines, engines'),
         \A u \in Threads : enginePc'[u] = "hit" =>
           \/ enginePc[u] = "hit" /\ eval'[u].at = eval[u].at
           \/ eval'[u].at = engineNow,
         \A j \in DOMAIN admitted :
           engineNow' - admitted[j].read < RuleOf(admitted[j]).per_seconds
             /\ HitOf(j) \in engines[admitted[j].engine].hits
               => HitOf(j) \in engines'[admitted[j].engine].hits
  PROVE  LimitInv'
<1>1. \A j \in DOMAIN admitted :
        /\ admitted[j] \in Admissions
        /\ admitted[j].engine \in DOMAIN engines
        /\ admitted[j].rule \in DOMAIN engines[admitted[j].engine].rules
        /\ RuleOf(admitted[j]).effect = "rate_limit" /\ RuleOf(admitted[j]).max_calls > 0
        /\ admitted[j].read <= admitted[j].at /\ admitted[j].at <= engineNow
        /\ enginePc[admitted[j].by] = "hit" => admitted[j].at <= eval[admitted[j].by].at
  BY EngineFacts DEF LimitInv, Admitted
<1>2. \A j \in DOMAIN admitted :
        /\ RuleOf(admitted[j])' = RuleOf(admitted[j])
        /\ admitted[j].engine \in DOMAIN engines'
        /\ admitted[j].rule \in DOMAIN engines'[admitted[j].engine].rules
  <2> SUFFICES ASSUME NEW j \in DOMAIN admitted
               PROVE  /\ RuleOf(admitted[j])' = RuleOf(admitted[j])
                      /\ admitted[j].engine \in DOMAIN engines'
                      /\ admitted[j].rule \in DOMAIN engines'[admitted[j].engine].rules
    OBVIOUS
  <2> DEFINE e == admitted[j].engine
  <2>1. /\ e \in DOMAIN engines'
        /\ Len(engines[e].rules) \in Nat /\ Len(engines'[e].rules) \in Nat
        /\ Len(engines[e].rules) <= Len(engines'[e].rules)
        /\ DOMAIN engines[e].rules = 1..Len(engines[e].rules)
        /\ DOMAIN engines'[e].rules = 1..Len(engines'[e].rules)
        /\ \A i \in DOMAIN engines[e].rules : engines'[e].rules[i] = engines[e].rules[i]
    BY <1>1 DEF Extends
  <2>2. admitted[j].rule \in 1..Len(engines[e].rules)
    BY <1>1, <2>1
  <2> QED BY <2>1, <2>2 DEF RuleOf
<1>3. engineNow \in Int /\ \A j \in DOMAIN admitted : admitted[j].read \in Int /\ admitted[j].at \in Int
                       /\ RuleOf(admitted[j]).per_seconds \in Int
  <2>1. engineNow \in Int /\ \A j \in DOMAIN admitted : admitted[j].read \in Int /\ admitted[j].at \in Int
    BY <1>1, EngineFacts DEF Admissions
  <2>2. ASSUME NEW j \in DOMAIN admitted PROVE RuleOf(admitted[j]).per_seconds \in Int
    BY <1>1, EngineFacts, PackRules DEF RuleOf
  <2> QED BY <2>1, <2>2
<1>4. Admitted'
  <2> SUFFICES ASSUME NEW j \in DOMAIN admitted
               PROVE
                 /\ admitted[j].engine \in DOMAIN engines'
                 /\ admitted[j].rule \in DOMAIN engines'[admitted[j].engine].rules
                 /\ RuleOf(admitted[j]).effect = "rate_limit" /\ RuleOf(admitted[j]).max_calls > 0
                 /\ admitted[j].read <= admitted[j].at /\ admitted[j].at <= engineNow'
                 /\ enginePc'[admitted[j].by] = "hit" => admitted[j].at <= eval'[admitted[j].by].at
    BY <1>2 DEF Admitted
  <2>1. admitted[j].at <= engineNow'
    BY <1>1, <1>3
  <2>2. enginePc'[admitted[j].by] = "hit" => admitted[j].at <= eval'[admitted[j].by].at
    <3>1. admitted[j].by \in Threads
      BY <1>1 DEF Admissions
    <3> QED BY <1>1, <3>1
  <2> QED BY <1>1, <1>2, <2>1, <2>2
<1>5. Retained'
  <2> SUFFICES ASSUME NEW j \in DOMAIN admitted,
                      engineNow' - admitted[j].read < RuleOf(admitted[j]).per_seconds
               PROVE  HitOf(j) \in engines'[admitted[j].engine].hits
    BY <1>2 DEF Retained, HitOf
  <2>1. engineNow - admitted[j].read < RuleOf(admitted[j]).per_seconds
    BY <1>3
  <2> QED BY <2>1 DEF LimitInv, Retained
<1>6. InTurn'
  BY DEF LimitInv, InTurn
<1>7. FreshBounded'
  <2> SUFFICES ASSUME NEW i \in DOMAIN admitted, NEW from \in Nat
               PROVE  Cardinality(FreshFrom(i, from)') <= RuleOf(admitted[i]).max_calls
    BY <1>2 DEF FreshBounded
  <2>1. FreshFrom(i, from)' = FreshFrom(i, from)
    BY <1>2 DEF FreshFrom
  <2> QED BY <2>1 DEF LimitInv, FreshBounded
<1> QED BY <1>4, <1>5, <1>6, <1>7 DEF LimitInv

(* A limit forgets only hits that have left the window, and so have those  *)
(* of its name.                                                            *)
LEMMA KeptWhileItCounts ==
  ASSUME P!EngineAssumption, P!PeriodsByName, DecisionInv, LimitInv, NEW t \in Threads,
         enginePc[t] = "hit", NEW j \in DOMAIN admitted, admitted[j].engine = eval[t].engine,
         engineNow - admitted[j].read < RuleOf(admitted[j]).per_seconds
  PROVE  HitOf(j) \in Kept(t)
<1> DEFINE x == eval[t]
           rules == engines[x.engine].rules
<1>1. HitOf(j) \in engines[x.engine].hits
  BY DEF LimitInv, Retained
<1>2. /\ x \in Evals /\ Judged(engines, x) /\ x.at <= engineNow
      /\ x.i <= Len(rules) /\ rules[x.i].effect = "rate_limit"
  BY EngineFacts DEF DecisionInv, Judging, ThreadJudged
<1>3. x.engine \in DOMAIN engines /\ rules \in Seq(P!AllRules) /\ x.i \in DOMAIN rules
  BY <1>2, EngineFacts DEF Judged
<1>4. admitted[j].rule \in DOMAIN rules /\ rules[admitted[j].rule].effect = "rate_limit"
      /\ RuleOf(admitted[j]) = rules[admitted[j].rule]
  BY DEF LimitInv, Admitted, RuleOf
<1>5. engineNow \in Int /\ x.at \in Int /\ admitted[j].read \in Int
      /\ rules[admitted[j].rule].per_seconds \in Int
  <2>1. engineNow \in Int /\ x.at \in Int /\ admitted[j].read \in Int
    BY <1>2, EngineFacts DEF Evals, Admissions
  <2> QED BY <1>3, <1>4, <2>1, PackRules
<1>6. HitOf(j).at = admitted[j].read /\ HitOf(j).rule = admitted[j].rule
  BY DEF HitOf
<1>7. ASSUME Own(t, HitOf(j))
      PROVE  P!InWindow(HitOf(j).at, x.at, rules[x.i].per_seconds)
  <2>1. rules[admitted[j].rule].name = rules[x.i].name
    BY <1>6, <1>7 DEF Own, P!Rule, P!Rules
  <2>2. rules[admitted[j].rule].per_seconds = rules[x.i].per_seconds
    <3>1. rules[admitted[j].rule] \in P!AllRules /\ rules[x.i] \in P!AllRules
      BY <1>3, <1>4, PackRules
    <3> HIDE DEF x, rules
    <3> QED BY <1>2, <1>4, <2>1, <3>1 DEF P!PeriodsByName
  <2>3. x.at - admitted[j].read < rules[x.i].per_seconds
    <3> HIDE DEF x, rules
    <3> QED BY <1>2, <1>4, <1>5, <2>2
  <2> QED BY <1>6, <2>3 DEF P!InWindow
<1> QED BY <1>1, <1>7 DEF Kept, P!Rule, P!Rules

(* Those that passed in the window of the new one, which they are alike,   *)
(* are among the hits it found: fewer than the limit.                      *)
LEMMA FewBefore ==
  ASSUME P!EngineAssumption, P!PeriodsByName, DecisionInv, LimitInv, NEW t \in Threads,
         enginePc[t] = "hit", ~OverLimit(t), NEW from \in Nat, NEW before \in SUBSET DOMAIN admitted,
         engineNow <= from + P!Rule(t).per_seconds - 1,
         \A j \in before : Alike(admitted[j], NewAdmission(t)) /\ admitted[j].read >= from
  PROVE  IsFiniteSet(before) /\ Cardinality(before) + 1 <= P!Rule(t).max_calls
<1> DEFINE x == eval[t]
           own == {h \in Kept(t) : Own(t, h)}
           hit == [j \in before |-> HitOf(j)]
<1>1. x \in Evals /\ Judged(engines, x) /\ x.i <= Len(P!Rules(t)) /\ P!Rule(t).effect = "rate_limit"
  BY EngineFacts DEF DecisionInv, Judging, ThreadJudged, P!Rule, P!Rules
<1>2. x.engine \in DOMAIN engines /\ P!Rules(t) \in Seq(P!AllRules) /\ x.i \in DOMAIN P!Rules(t)
  BY <1>1, EngineFacts DEF Judged, P!Rules
<1>3. P!Rule(t).max_calls \in Int /\ P!Rule(t).per_seconds \in Int
  BY <1>1, <1>2, PackRules DEF P!Rule
<1>4. ASSUME NEW j \in before
      PROVE  HitOf(j) \in own /\ HitOf(j).number = j
  <2>1. /\ admitted[j].engine = x.engine /\ admitted[j].agent = x.ctx.agent
        /\ admitted[j].rule = x.i /\ admitted[j].read >= from /\ j \in DOMAIN admitted
    BY DEF Alike, NewAdmission
  <2>2. RuleOf(admitted[j]) = P!Rule(t)
    BY <2>1 DEF RuleOf, P!Rule, P!Rules
  <2>3. admitted[j].read \in Int /\ engineNow \in Int
    BY <2>1, EngineFacts DEF Admissions
  <2>4. engineNow - admitted[j].read < RuleOf(admitted[j]).per_seconds
    BY <1>3, <2>1, <2>2, <2>3
  <2>5. HitOf(j) \in Kept(t)
    BY <2>1, <2>4, KeptWhileItCounts
  <2>6. HitOf(j).agent = x.ctx.agent /\ HitOf(j).rule = x.i /\ HitOf(j).number = j
    BY <2>1 DEF HitOf
  <2>7. Own(t, HitOf(j))
    BY <2>6 DEF Own, P!Rule
  <2> QED BY <2>5, <2>6, <2>7
<1>5. IsFiniteSet(own) /\ Cardinality(own) \in Nat
  <2>1. IsFiniteSet(engines[x.engine].hits)
    BY <1>2 DEF DecisionInv, Remembered
  <2>2. own \in SUBSET engines[x.engine].hits
    BY DEF Kept
  <2>3. IsFiniteSet(own)
    BY <2>1, <2>2, FS_Subset
  <2> QED BY <2>3, FS_CardinalityType
<1>6. hit \in Injection(before, own)
  <2>1. hit \in [before -> own]
    BY <1>4
  <2>2. \A i, j \in before : hit[i] = hit[j] => i = j
    <3>1. \A j \in before : hit[j].number = j
      BY <1>4
    <3> QED BY <3>1
  <2> QED BY <2>1, <2>2 DEF Injection, IsInjective
<1> HIDE DEF hit
<1>7. IsFiniteSet(before) /\ Cardinality(before) <= Cardinality(own)
  BY <1>5, <1>6, FS_Injection
<1>8. Cardinality(before) \in Nat
  BY <1>7, FS_CardinalityType
<1>9. ~(Cardinality(own) >= P!Rule(t).max_calls)
  BY DEF OverLimit
<1> QED BY <1>3, <1>5, <1>7, <1>8, <1>9

LEMMA HitKeepsLimits ==
  ASSUME P!EngineAssumption, P!PeriodsByName, DecisionInv, LimitInv, NEW t \in Threads, P!Hit(t)
  PROVE  LimitInv'
<1> DEFINE x == eval[t]
           a == NewAdmission(t)
<1>0. PICK n : n = Len(admitted) + 1
  OBVIOUS
<1>1. enginePc[t] = "hit" /\ UNCHANGED <<engineNow, calls, decided>>
  BY HitCases
<1>2. /\ x \in Evals /\ Judged(engines, x) /\ x.at <= engineNow
      /\ x.i <= Len(P!Rules(t)) /\ P!Rule(t).effect = "rate_limit"
  BY <1>1, EngineFacts DEF DecisionInv, Judging, ThreadJudged, P!Rule, P!Rules
<1>3. /\ x.engine \in DOMAIN engines /\ P!Rules(t) \in Seq(P!AllRules) /\ x.i \in DOMAIN P!Rules(t)
      /\ x.ctx \in Contexts
  BY <1>2, EngineFacts DEF Judged, P!Rules
<1>4. PICK hits \in SUBSET EngineHits :
        /\ engines' = [engines EXCEPT ![x.engine].hits = hits]
        /\ Kept(t) \subseteq hits
        /\ ~OverLimit(t) => NewHit(t) \in hits
  <2>1. Kept(t) \in SUBSET EngineHits
    BY <1>3, EngineFacts DEF Kept
  <2>2. NewHit(t) \in EngineHits
    BY <1>2, <1>3, EngineFacts DEF NewHit, EngineHits, ContextAgents, Evals
  <2>3. CASE OverLimit(t)
    <3>1. engines' = [engines EXCEPT ![x.engine].hits = Kept(t)]
      BY <2>3, HitCases
    <3> QED BY <1>0, <2>1, <2>3, <3>1
  <2>4. CASE ~OverLimit(t)
    <3>1. engines' = [engines EXCEPT ![x.engine].hits = Kept(t) \cup {NewHit(t)}]
      BY <2>4, HitCases
    <3>2. Kept(t) \cup {NewHit(t)} \in SUBSET EngineHits
      BY <2>1, <2>2
    <3> QED BY <3>1, <3>2
  <2> QED BY <2>3, <2>4
<1>5. /\ DOMAIN engines' = DOMAIN engines /\ Extends(engines, engines')
      /\ \A d \in DOMAIN engines : engines'[d].rules = engines[d].rules
      /\ \A d \in DOMAIN engines : engines'[d].hits = IF d = x.engine THEN hits ELSE engines[d].hits
  BY <1>3, <1>4, LimiterChanges
<1>6. /\ enginePc' = [enginePc EXCEPT ![t] = "rules"]
      /\ \A u \in Threads : u # t => eval'[u] = eval[u]
  <2>1. \/ P!Meet(t, "deny", [x EXCEPT !.over = @ \cup {x.i}])
        \/ P!NextRule(t, x)
    BY HitCases
  <2>2. eval \in [Threads -> Evals]
    BY DEF DecisionInv, EngineTypes
  <2>3. PICK y : enginePc' = [enginePc EXCEPT ![t] = "rules"] /\ eval' = [eval EXCEPT ![t] = y]
    BY <2>1 DEF P!Meet, P!NextRule
  <2> QED BY <2>2, <2>3
<1>7. \A u \in Threads : enginePc'[u] = "hit" => enginePc[u] = "hit" /\ eval'[u].at = eval[u].at
  <2>1. enginePc \in [Threads -> {"idle", "rules", "hit"}]
    BY DEF DecisionInv, EngineTypes
  <2> QED BY <1>6, <2>1
<1>8. \A j \in DOMAIN admitted :
        engineNow - admitted[j].read < RuleOf(admitted[j]).per_seconds
          /\ HitOf(j) \in engines[admitted[j].engine].hits
            => HitOf(j) \in engines'[admitted[j].engine].hits
  <2> SUFFICES ASSUME NEW j \in DOMAIN admitted,
                      engineNow - admitted[j].read < RuleOf(admitted[j]).per_seconds,
                      HitOf(j) \in engines[admitted[j].engine].hits
               PROVE  HitOf(j) \in engines'[admitted[j].engine].hits
    OBVIOUS
  <2>1. admitted[j].engine \in DOMAIN engines
    BY DEF LimitInv, Admitted
  <2>2. CASE admitted[j].engine = x.engine
    <3>1. HitOf(j) \in Kept(t)
      BY <1>1, <2>2, KeptWhileItCounts
    <3>2. Kept(t) \subseteq hits /\ engines'[x.engine].hits = hits
      BY <1>3, <1>4, <1>5
    <3> QED BY <2>2, <3>1, <3>2
  <2>3. CASE admitted[j].engine # x.engine
    BY <1>5, <2>1, <2>3
  <2> QED BY <2>2, <2>3
<1>9. CASE OverLimit(t)
  <2>1. admitted' = admitted
    BY <1>9, HitCases
  <2>2. engineNow' \in Int /\ engineNow <= engineNow'
    BY <1>1, EngineFacts
  <2>3. \A j \in DOMAIN admitted :
          engineNow' - admitted[j].read < RuleOf(admitted[j]).per_seconds
            /\ HitOf(j) \in engines[admitted[j].engine].hits
              => HitOf(j) \in engines'[admitted[j].engine].hits
    BY <1>1, <1>8
  <2>4. \A u \in Threads : enginePc'[u] = "hit" =>
          \/ enginePc[u] = "hit" /\ eval'[u].at = eval[u].at
          \/ eval'[u].at = engineNow
    BY <1>7
  <2>5. Extends(engines, engines')
    BY <1>5
  <2> HIDE DEF x
  <2> QED BY <2>1, <2>2, <2>3, <2>4, <2>5, NoneAdmitted
<1>10. CASE ~OverLimit(t)
  <2>1. admitted' = Append(admitted, a)
    BY <1>10, HitCases
  <2>2. /\ a.engine = x.engine /\ a.agent = x.ctx.agent /\ a.rule = x.i /\ a.by = t
        /\ a.read = x.at /\ a.at = engineNow /\ a \in Admissions
    BY <1>2, <1>3, EngineFacts DEF NewAdmission, Admissions, ContextAgents, Evals
  <2> HIDE DEF a
  <2>3. admitted \in Seq(Admissions)
    BY DEF DecisionInv, EngineTypes
  <2>4. /\ Len(admitted) \in Nat /\ DOMAIN admitted = 1..Len(admitted)
        /\ DOMAIN admitted' = 1..n /\ n \notin DOMAIN admitted
        /\ DOMAIN admitted' = DOMAIN admitted \cup {n}
        /\ \A j \in DOMAIN admitted : admitted'[j] = admitted[j]
        /\ admitted'[n] = a
    <3>1. Append(admitted, a) \in Seq(Admissions) /\ Len(Append(admitted, a)) = n
      BY <1>0, <2>2, <2>3, AppendProperties
    <3>2. Len(admitted) \in Nat /\ DOMAIN admitted = 1..Len(admitted) /\ DOMAIN admitted' = 1..n
      BY <1>0, <2>1, <2>3, <3>1
    <3>3. \A j \in DOMAIN admitted : admitted'[j] = admitted[j]
      BY <2>1, <2>2, <2>3, <3>2, AppendProperties
    <3>4. admitted'[n] = a
      BY <1>0, <2>1, <2>2, <2>3, AppendProperties
    <3> QED BY <1>0, <3>2, <3>3, <3>4
  <2>5. \A j \in DOMAIN admitted :
          /\ admitted[j] \in Admissions
          /\ admitted[j].engine \in DOMAIN engines
          /\ admitted[j].rule \in DOMAIN engines[admitted[j].engine].rules
          /\ RuleOf(admitted[j]).effect = "rate_limit" /\ RuleOf(admitted[j]).max_calls > 0
          /\ admitted[j].read <= admitted[j].at /\ admitted[j].at <= engineNow
          /\ enginePc[admitted[j].by] = "hit" => admitted[j].at <= eval[admitted[j].by].at
    BY EngineFacts DEF LimitInv, Admitted
  <2>6. /\ \A j \in DOMAIN admitted : RuleOf(admitted[j])' = RuleOf(admitted[j])
        /\ RuleOf(admitted[n])' = P!Rule(t)
    BY <1>3, <1>5, <2>2, <2>4, <2>5 DEF RuleOf, P!Rule, P!Rules
  <2>7. P!Rule(t).max_calls \in Int /\ P!Rule(t).per_seconds \in Int /\ P!Rule(t).max_calls > 0
    <3>1. P!Rule(t).max_calls \in Int /\ P!Rule(t).per_seconds \in Int
      BY <1>2, <1>3, PackRules DEF P!Rule
    <3>2. {} \in SUBSET DOMAIN admitted /\ engineNow \in Nat
      BY EngineFacts
    <3>3. PICK from \in Nat : engineNow <= from + P!Rule(t).per_seconds - 1
      <4>1. CASE P!Rule(t).per_seconds >= 0
        <5>1. engineNow + 1 \in Nat /\ engineNow <= engineNow + 1 + P!Rule(t).per_seconds - 1
          BY <3>1, <3>2, <4>1
        <5> QED BY <5>1
      <4>2. CASE P!Rule(t).per_seconds < 0
        <5> DEFINE late == engineNow + 1 - P!Rule(t).per_seconds
        <5>1. late \in Nat /\ engineNow <= late + P!Rule(t).per_seconds - 1
          BY <3>1, <3>2, <4>2
        <5> HIDE DEF late
        <5> QED BY <5>1
      <4> QED BY <3>1, <4>1, <4>2
    <3>4. Cardinality({}) + 1 <= P!Rule(t).max_calls
      BY <1>1, <1>10, <3>2, <3>3, FewBefore
    <3> QED BY <3>1, <3>4, FS_EmptySet
  <2>8. Admitted'
    <3> SUFFICES ASSUME NEW j \in DOMAIN admitted'
                 PROVE
                   /\ admitted'[j].engine \in DOMAIN engines'
                   /\ admitted'[j].rule \in DOMAIN engines'[admitted'[j].engine].rules
                   /\ RuleOf(admitted[j])'.effect = "rate_limit"
                   /\ RuleOf(admitted[j])'.max_calls > 0
                   /\ admitted'[j].read <= admitted'[j].at /\ admitted'[j].at <= engineNow'
                   /\ enginePc'[admitted'[j].by] = "hit" =>
                        admitted'[j].at <= eval'[admitted'[j].by].at
      BY DEF Admitted
    <3>1. CASE j = n
      <4>1. enginePc'[t] = "rules"
        BY <1>6 DEF DecisionInv, EngineTypes
      <4>2. engineNow <= engineNow
        BY EngineFacts
      <4> QED BY <1>1, <1>2, <1>3, <1>5, <2>2, <2>4, <2>6, <2>7, <3>1, <4>1, <4>2 DEF P!Rules
    <3>2. CASE j \in DOMAIN admitted
      <4>1. admitted[j].by \in Threads
        BY <2>5, <3>2 DEF Admissions
      <4>2. enginePc'[admitted[j].by] = "hit" => admitted[j].at <= eval'[admitted[j].by].at
        BY <1>7, <2>5, <3>2, <4>1
      <4> QED BY <1>1, <1>5, <2>4, <2>5, <2>6, <3>2, <4>2
    <3> QED BY <2>4, <3>1, <3>2
  <2>9. Retained'
    <3> SUFFICES ASSUME NEW j \in DOMAIN admitted',
                        engineNow - admitted'[j].read < RuleOf(admitted[j])'.per_seconds
                 PROVE  HitOf(j)' \in engines'[admitted'[j].engine].hits
      BY <1>1 DEF Retained
    <3>1. CASE j = n
      <4>1. HitOf(j)' = NewHit(t)
        BY <1>0, <2>2, <2>4, <3>1 DEF HitOf, NewHit
      <4> QED BY <1>3, <1>4, <1>5, <1>10, <2>2, <2>4, <3>1, <4>1
    <3>2. CASE j \in DOMAIN admitted
      <4>1. HitOf(j)' = HitOf(j)
        BY <2>4, <3>2 DEF HitOf
      <4>2. engineNow - admitted[j].read < RuleOf(admitted[j]).per_seconds
        BY <2>4, <2>6, <3>2
      <4>3. HitOf(j) \in engines[admitted[j].engine].hits
        BY <3>2, <4>2 DEF LimitInv, Retained
      <4> QED BY <1>8, <2>4, <3>2, <4>1, <4>2, <4>3
    <3> QED BY <2>4, <3>1, <3>2
  <2>10. InTurn'
    <3> SUFFICES ASSUME NEW i \in DOMAIN admitted', NEW j \in DOMAIN admitted',
                        i < j, admitted'[i].by = admitted'[j].by
                 PROVE  admitted'[i].at <= admitted'[j].read
      BY DEF InTurn
    <3>1. i \in DOMAIN admitted
      BY <1>0, <2>4
    <3>2. CASE j = n
      BY <1>1, <2>2, <2>4, <2>5, <3>1, <3>2
    <3>3. CASE j \in DOMAIN admitted
      BY <2>4, <3>1, <3>3 DEF LimitInv, InTurn
    <3> QED BY <2>4, <3>2, <3>3
  <2>11. FreshBounded'
    <3> SUFFICES ASSUME NEW i \in DOMAIN admitted', NEW from \in Nat
                 PROVE  Cardinality(FreshFrom(i, from)') <= RuleOf(admitted[i])'.max_calls
      BY DEF FreshBounded
    <3> DEFINE fresh == FreshFrom(i, from)'
    <3>0. SUFFICES Cardinality(fresh) <= RuleOf(admitted[i])'.max_calls
      OBVIOUS
    <3>1. fresh = {j \in DOMAIN admitted' :
                     /\ Alike(admitted'[j], admitted'[i]) /\ admitted'[j].read >= from
                     /\ admitted'[j].at <= from + RuleOf(admitted[i])'.per_seconds - 1}
      BY DEF FreshFrom
    <3> HIDE DEF fresh
    <3>2. ASSUME NEW k \in DOMAIN admitted, n \notin fresh, Alike(admitted[k], admitted'[i])
          PROVE  Cardinality(fresh) <= RuleOf(admitted[i])'.max_calls
      <4>1. RuleOf(admitted[i])' = RuleOf(admitted[k])
        BY <1>5, <2>4, <2>5, <3>2 DEF Alike, RuleOf
      <4>2. fresh = FreshFrom(k, from)
        <5>1. ASSUME NEW j \in DOMAIN admitted
              PROVE  j \in fresh <=> j \in FreshFrom(k, from)
          BY <2>4, <3>1, <3>2, <4>1 DEF FreshFrom, Alike
        <5> QED BY <2>4, <3>1, <3>2, <5>1 DEF FreshFrom
      <4> QED BY <4>1, <4>2 DEF LimitInv, FreshBounded
    <3>3. CASE n \in fresh
      <4> DEFINE before == fresh \ {n}
      <4>1. Alike(a, admitted'[i]) /\ a.at <= from + RuleOf(admitted[i])'.per_seconds - 1
        BY <2>4, <3>1, <3>3
      <4>2. RuleOf(admitted[i])' = P!Rule(t)
        BY <2>4, <2>6, <4>1 DEF Alike, RuleOf
      <4>3. before \in SUBSET DOMAIN admitted
        BY <2>4, <3>1
      <4>4. \A j \in before : Alike(admitted[j], NewAdmission(t)) /\ admitted[j].read >= from
        BY <2>4, <3>1, <4>1, <4>3 DEF Alike, a
      <4>5. engineNow <= from + P!Rule(t).per_seconds - 1
        BY <2>2, <4>1, <4>2
      <4> HIDE DEF before
      <4>6. IsFiniteSet(before) /\ Cardinality(before) + 1 <= P!Rule(t).max_calls
        BY <1>1, <1>10, <4>3, <4>4, <4>5, FewBefore
      <4>7. fresh = before \cup {n} /\ n \notin before
        BY <3>3 DEF before
      <4>8. Cardinality(fresh) = Cardinality(before) + 1
        BY <4>6, <4>7, FS_AddElement
      <4> QED BY <4>2, <4>6, <4>8
    <3>4. CASE n \notin fresh /\ i \in DOMAIN admitted
      <4>1. Alike(admitted[i], admitted'[i])
        BY <2>4, <3>4 DEF Alike
      <4> QED BY <3>2, <3>4, <4>1
    <3>5. CASE n \notin fresh /\ i = n
      <4>1. CASE fresh = {}
        <5>1. Cardinality(fresh) = 0
          BY <4>1, FS_EmptySet
        <5> QED BY <2>6, <2>7, <3>5, <5>1
      <4>2. CASE fresh # {}
        <5>1. PICK k \in fresh : TRUE
          BY <4>2
        <5>2. k \in DOMAIN admitted /\ Alike(admitted[k], admitted'[i])
          BY <2>4, <3>1, <3>5, <5>1
        <5> QED BY <3>2, <3>5, <5>2
      <4> QED BY <4>1, <4>2
    <3> QED BY <2>4, <3>3, <3>4, <3>5
  <2> QED BY <2>8, <2>9, <2>10, <2>11 DEF LimitInv
<1> QED BY <1>9, <1>10

LEMMA NextKeepsLimits ==
  ASSUME P!EngineAssumption, P!PeriodsByName, DecisionInv, LimitInv, [P!Next]_(P!vars)
  PROVE  LimitInv'
<1>1. CASE \E t \in Threads : P!Hit(t)
  BY <1>1, HitKeepsLimits
<1>2. CASE ~(\E t \in Threads : P!Hit(t))
  <2>1. engineNow \in Nat /\ \A j \in DOMAIN admitted : admitted[j].engine \in DOMAIN engines
    BY EngineFacts DEF LimitInv, Admitted
  <2>2. CASE \/ \E pack \in EngineRules, effect \in Defaults : P!Install(pack, effect)
             \/ \E e \in DOMAIN engines, rule \in NewRules : P!Add(e, rule)
    <3>1. UNCHANGED <<engineNow, enginePc, eval, admitted>>
      BY <2>2 DEF P!Install, P!Add
    <3>2. Extends(engines, engines') /\ \A e \in DOMAIN engines : engines'[e].hits = engines[e].hits
      BY <2>2, InstallKeepsDecisions, AddKeepsDecisions
    <3>3. engineNow' \in Int /\ engineNow <= engineNow'
      BY <2>1, <3>1
    <3>4. \A j \in DOMAIN admitted :
            engines'[admitted[j].engine].hits = engines[admitted[j].engine].hits
      BY <2>1, <3>2
    <3> QED BY <3>1, <3>2, <3>3, <3>4, NoneAdmitted
  <2>3. CASE P!Tick \/ UNCHANGED P!vars
    <3>1. /\ UNCHANGED <<engines, enginePc, eval, admitted>>
          /\ engineNow' = engineNow \/ engineNow' = engineNow + 1
      BY <2>3 DEF P!Tick, P!vars
    <3>2. engineNow' \in Int /\ engineNow <= engineNow'
      BY <2>1, <3>1
    <3>3. Extends(engines, engines')
      BY <3>1, SameRulesExtend
    <3> QED BY <3>1, <3>2, <3>3, NoneAdmitted
  <2>4. CASE \E t \in Threads : P!Apply(t) \/ P!Decide(t) \/ \E c \in Contexts : P!Evaluate(t, c)
    <3>1. PICK t \in Threads : P!Apply(t) \/ P!Decide(t) \/ \E c \in Contexts : P!Evaluate(t, c)
      BY <2>4
    <3>2. eval \in [Threads -> Evals] /\ enginePc \in [Threads -> {"idle", "rules", "hit"}]
      BY DEF DecisionInv, EngineTypes
    <3>3. UNCHANGED <<engineNow, engines, admitted>>
      BY <3>1 DEF P!Apply, P!Decide, P!Evaluate
    <3>4. PICK p, y : /\ enginePc' = [enginePc EXCEPT ![t] = p] /\ eval' = [eval EXCEPT ![t] = y]
                      /\ p = "hit" => y.at = engineNow
      <4>1. CASE P!Decide(t)
        <5> DEFINE p == "idle"
        <5>1. enginePc' = [enginePc EXCEPT ![t] = p] /\ eval' = [eval EXCEPT ![t] = P!NoEval]
              /\ p # "hit"
          BY <4>1 DEF P!Decide
        <5> HIDE DEF p
        <5> QED BY <5>1
      <4>3. CASE \E c \in Contexts : P!Evaluate(t, c)
        <5>1. PICK c \in Contexts : P!Evaluate(t, c)
          BY <4>3
        <5> DEFINE e == Len(engines)
                   y == [P!NoEval EXCEPT !.ctx = c, !.engine = e, !.began = Len(engines[e].rules),
                                         !.i = 1, !.effect = engines[e].default]
                   p == "rules"
        <5>2. enginePc' = [enginePc EXCEPT ![t] = p] /\ eval' = [eval EXCEPT ![t] = y] /\ p # "hit"
          BY <5>1 DEF P!Evaluate
        <5> HIDE DEF y, p
        <5> QED BY <5>2
      <4>2. CASE P!Apply(t)
        <5>1. CASE ~P!Fires(P!Rule(t), eval[t].ctx)
          BY <4>2, <5>1 DEF P!Apply, P!NextRule
        <5>2. CASE P!Fires(P!Rule(t), eval[t].ctx) /\ P!Rule(t).effect # "rate_limit"
          BY <4>2, <5>2 DEF P!Apply, P!Meet, P!NextRule
        <5>3. CASE P!Fires(P!Rule(t), eval[t].ctx) /\ P!Rule(t).effect = "rate_limit"
          <6> DEFINE y == [eval[t] EXCEPT !.at = engineNow]
          <6>1. enginePc' = [enginePc EXCEPT ![t] = "hit"] /\ eval' = [eval EXCEPT ![t] = y]
            BY <4>2, <5>3 DEF P!Apply
          <6>2. y.at = engineNow
            BY <3>1, <3>2 DEF Evals
          <6> HIDE DEF y
          <6> QED BY <6>1, <6>2
        <5> QED BY <5>1, <5>2, <5>3
      <4> QED BY <3>1, <4>1, <4>2, <4>3
    <3>5. \A u \in Threads : enginePc'[u] = "hit" =>
            \/ enginePc[u] = "hit" /\ eval'[u].at = eval[u].at
            \/ eval'[u].at = engineNow
      BY <3>2, <3>4
    <3>6. engineNow' \in Int /\ engineNow <= engineNow'
      BY <2>1, <3>3
    <3>7. Extends(engines, engines')
      BY <3>3, SameRulesExtend
    <3> QED BY <3>3, <3>5, <3>6, <3>7, NoneAdmitted
  <2> QED BY <1>2, <2>2, <2>3, <2>4 DEF P!Next
<1> QED BY <1>1, <1>2

(* A thread that read the clock before the window and reached the limiter  *)
(* inside it reads the next one inside it.                                 *)
LEMMA OneStaleEach ==
  ASSUME P!EngineAssumption, DecisionInv, LimitInv, NEW at \in Nat,
         NEW stale \in SUBSET DOMAIN admitted,
         \A j \in stale : admitted[j].read < at /\ at <= admitted[j].at
  PROVE  Cardinality(stale) <= Cardinality(Threads)
<1> DEFINE by == [j \in stale |-> admitted[j].by]
<1>1. \A j \in stale : j \in Int /\ admitted[j].by \in Threads
                       /\ admitted[j].read \in Int /\ admitted[j].at \in Int
  BY EngineFacts DEF Admissions
<1>2. \A i, j \in stale : i < j => admitted[i].by # admitted[j].by
  <2> SUFFICES ASSUME NEW i \in stale, NEW j \in stale, i < j, admitted[i].by = admitted[j].by
               PROVE  FALSE
    OBVIOUS
  <2>1. admitted[i].at <= admitted[j].read
    BY DEF LimitInv, InTurn
  <2> QED BY <1>1, <2>1
<1>3. by \in Injection(stale, Threads)
  <2>1. by \in [stale -> Threads]
    BY <1>1
  <2>2. \A i, j \in stale : by[i] = by[j] => i = j
    <3> SUFFICES ASSUME NEW i \in stale, NEW j \in stale, by[i] = by[j]
                 PROVE  i = j
      OBVIOUS
    <3>1. i \in Int /\ j \in Int /\ ~(i < j) /\ ~(j < i)
      BY <1>1, <1>2
    <3> QED BY <3>1
  <2> QED BY <2>1, <2>2 DEF Injection, IsInjective
<1> HIDE DEF by
<1>4. IsFiniteSet(Threads)
  BY EngineFinite DEF P!EngineAssumption
<1> QED BY <1>3, <1>4, FS_Injection

(* No agent gets more calls past a rate limit in a window of its length    *)
(* than it says, those of threads that read the clock before apart: of     *)
(* them one each.  Limits of one name must be over one period.             *)
THEOREM TheRateIsKept ==
  ASSUME P!EngineAssumption, P!PeriodsByName
  PROVE  P!Spec => []RateBounded
<1>1. DecisionInv /\ LimitInv => RateBounded
  <2> SUFFICES ASSUME DecisionInv, LimitInv, NEW i \in DOMAIN admitted
               PROVE
                 LET a == admitted[i]
                     rule == engines[a.engine].rules[a.rule]
                     window == {j \in DOMAIN admitted :
                                  /\ admitted[j].engine = a.engine /\ admitted[j].agent = a.agent
                                  /\ admitted[j].rule = a.rule
                                  /\ admitted[j].at \in a.at..(a.at + rule.per_seconds - 1)}
                     fresh == {j \in window : admitted[j].read >= a.at}
                 IN /\ P!Cardinality(fresh) <= rule.max_calls
                    /\ P!Cardinality(window \ fresh) <= P!Cardinality(Threads)
    BY Zenon DEF RateBounded, P!RateBounded
  <2> DEFINE a == admitted[i]
             rule == engines[a.engine].rules[a.rule]
             window == {j \in DOMAIN admitted :
                          /\ admitted[j].engine = a.engine /\ admitted[j].agent = a.agent
                          /\ admitted[j].rule = a.rule
                          /\ admitted[j].at \in a.at..(a.at + rule.per_seconds - 1)}
             fresh == {j \in window : admitted[j].read >= a.at}
  <2>1. a.at \in Nat /\ rule.per_seconds \in Int
    <3>1. a \in Admissions /\ a.engine \in DOMAIN engines
      BY EngineFacts DEF LimitInv, Admitted
    <3>2. a.rule \in DOMAIN engines[a.engine].rules /\ rule.effect = "rate_limit"
      BY DEF LimitInv, Admitted, RuleOf
    <3>3. engines[a.engine].rules \in Seq(P!AllRules)
      BY <3>1, EngineFacts
    <3>4. rule.per_seconds \in Int
      BY <3>2, <3>3, PackRules
    <3> QED BY <3>1, <3>4 DEF Admissions
  <2>2. \A j \in DOMAIN admitted :
          admitted[j].read \in Nat /\ admitted[j].at \in Nat /\ admitted[j].read <= admitted[j].at
    BY EngineFacts DEF LimitInv, Admitted, Admissions
  <2>3. fresh = FreshFrom(i, a.at)
    <3>1. RuleOf(admitted[i]) = rule
      BY DEF RuleOf
    <3>2. ASSUME NEW j \in DOMAIN admitted
          PROVE  admitted[j].at \in a.at..(a.at + rule.per_seconds - 1) /\ admitted[j].read >= a.at
                 <=> admitted[j].read >= a.at /\ admitted[j].at <= a.at + rule.per_seconds - 1
      <4>1. admitted[j].read \in Nat /\ admitted[j].at \in Nat /\ admitted[j].read <= admitted[j].at
        BY <2>2
      <4> HIDE DEF a, rule
      <4> QED BY <2>1, <4>1
    <3> HIDE DEF rule
    <3> QED BY <3>1, <3>2 DEF FreshFrom, Alike
  <2>4. Cardinality(fresh) <= rule.max_calls
    <3>1. Cardinality(FreshFrom(i, a.at)) <= RuleOf(admitted[i]).max_calls
      BY <2>1 DEF LimitInv, FreshBounded
    <3> QED BY <2>3, <3>1 DEF RuleOf
  <2>5. Cardinality(window \ fresh) <= Cardinality(Threads)
    <3>1. window \ fresh \in SUBSET DOMAIN admitted
      OBVIOUS
    <3>2. ASSUME NEW j \in window \ fresh
          PROVE  admitted[j].read < a.at /\ a.at <= admitted[j].at
      <4>1. /\ j \in DOMAIN admitted /\ ~(admitted[j].read >= a.at)
            /\ admitted[j].at \in a.at..(a.at + rule.per_seconds - 1)
        OBVIOUS
      <4> HIDE DEF a, rule
      <4> QED BY <2>1, <2>2, <4>1
    <3> HIDE DEF window, fresh
    <3> QED BY <2>1, <3>1, <3>2, OneStaleEach
  <2> HIDE DEF window, fresh
  <2>6. /\ P!Cardinality(fresh) <= rule.max_calls
        /\ P!Cardinality(window \ fresh) <= P!Cardinality(Threads)
    BY <2>4, <2>5, EngineCardinality
  <2> QED BY Zenon, <2>6 DEF window, fresh
<1>2. ASSUME DecisionInv /\ LimitInv, [P!Next]_(P!vars) PROVE (DecisionInv /\ LimitInv)'
  BY <1>2, NextKeepsDecisions, NextKeepsLimits
<1>3. P!Init => DecisionInv /\ LimitInv
  BY DecisionsStart, LimitsStart
<1> QED BY <1>1, <1>2, <1>3, PTL DEF P!Spec
-----------------------------------------------------------------------------
(* The flow of data, for any tools, calls, threads and labels.             *)

(* The lattice: a label carries another that trusts no less and is no more *)
(* confidential.                                                           *)
LEMMA CarriesMeans ==
  \A a, b \in F!Label :
    F!Carries(a, b) <=> a.trust <= b.trust /\ a.confidentiality >= b.confidentiality
<1> SUFFICES ASSUME NEW a \in F!Label, NEW b \in F!Label
    PROVE  F!Carries(a, b) <=> a.trust <= b.trust /\ a.confidentiality >= b.confidentiality
  OBVIOUS
<1>1. /\ a.trust \in Int /\ b.trust \in Int /\ a.confidentiality \in Int /\ b.confidentiality \in Int
      /\ a = [trust |-> a.trust, confidentiality |-> a.confidentiality]
  BY DEF F!Label, F!Web, F!Trusted, F!Public, F!Secret
<1>2. /\ F!Combine(a, b).trust = IF a.trust <= b.trust THEN a.trust ELSE b.trust
      /\ F!Combine(a, b).confidentiality =
           IF a.confidentiality >= b.confidentiality THEN a.confidentiality ELSE b.confidentiality
  BY DEF F!Combine
<1>3. F!Combine(a, b) = a <=>
        /\ F!Combine(a, b).trust = a.trust
        /\ F!Combine(a, b).confidentiality = a.confidentiality
  BY <1>1 DEF F!Combine
<1> QED BY <1>1, <1>2, <1>3 DEF F!Carries

LEMMA PlainLabel ==
  /\ F!Plain \in F!Label
  /\ \A a \in F!Label : F!Carries(a, F!Plain)
<1>1. F!Plain \in F!Label /\ F!Plain.trust = 2 /\ F!Plain.confidentiality = 0
  BY DEF F!Plain, F!Label, F!Web, F!Trusted, F!Public, F!Secret
<1>2. \A a \in F!Label : a.trust \in 0..2 /\ a.confidentiality \in 0..2
  BY DEF F!Label, F!Web, F!Trusted, F!Public, F!Secret
<1> QED BY <1>1, <1>2, CarriesMeans

(* The join carries both, and no more than what carries both.              *)
LEMMA CombineJoins ==
  \A a, b \in F!Label :
    /\ F!Combine(a, b) \in F!Label
    /\ F!Carries(F!Combine(a, b), a) /\ F!Carries(F!Combine(a, b), b)
    /\ \A c \in F!Label : F!Carries(c, a) /\ F!Carries(c, b) => F!Carries(c, F!Combine(a, b))
<1> SUFFICES ASSUME NEW a \in F!Label, NEW b \in F!Label
    PROVE  /\ F!Combine(a, b) \in F!Label
           /\ F!Carries(F!Combine(a, b), a) /\ F!Carries(F!Combine(a, b), b)
           /\ \A c \in F!Label : F!Carries(c, a) /\ F!Carries(c, b) => F!Carries(c, F!Combine(a, b))
  OBVIOUS
<1>1. /\ a.trust \in 0..2 /\ b.trust \in 0..2
      /\ a.confidentiality \in 0..2 /\ b.confidentiality \in 0..2
  BY DEF F!Label, F!Web, F!Trusted, F!Public, F!Secret
<1>2. /\ F!Combine(a, b).trust = IF a.trust <= b.trust THEN a.trust ELSE b.trust
      /\ F!Combine(a, b).confidentiality =
           IF a.confidentiality >= b.confidentiality THEN a.confidentiality ELSE b.confidentiality
  BY DEF F!Combine
<1>3. F!Combine(a, b) \in F!Label
  BY <1>1 DEF F!Combine, F!Label, F!Web, F!Trusted, F!Public, F!Secret
<1>4. F!Carries(F!Combine(a, b), a) /\ F!Carries(F!Combine(a, b), b)
  BY <1>1, <1>2, <1>3, CarriesMeans
<1>5. ASSUME NEW c \in F!Label, F!Carries(c, a), F!Carries(c, b)
      PROVE  F!Carries(c, F!Combine(a, b))
  BY <1>1, <1>2, <1>3, <1>5, CarriesMeans
<1> QED BY <1>3, <1>4, <1>5

LEMMA CarriesOrder ==
  /\ \A a \in F!Label : F!Carries(a, a)
  /\ \A a, b, c \in F!Label : F!Carries(a, b) /\ F!Carries(b, c) => F!Carries(a, c)
<1>1. \A a \in F!Label : a.trust \in 0..2 /\ a.confidentiality \in 0..2
  BY DEF F!Label, F!Web, F!Trusted, F!Public, F!Secret
<1> QED BY <1>1, CarriesMeans

(* The join of a set carries all of it, and no more than what does.        *)
LEMMA CombineAllJoins ==
  ASSUME NEW S \in SUBSET F!Label
  PROVE  /\ F!CombineAll(S) \in F!Label
         /\ \A a \in S : F!Carries(F!CombineAll(S), a)
         /\ \A c \in F!Label : (\A a \in S : F!Carries(c, a)) => F!Carries(c, F!CombineAll(S))
<1> DEFINE all == S \cup {F!Plain}
           joins == {F!Combine(a, b) : a, b \in all}
           Join(j) == \A l \in all : F!Combine(j, l) = j
<1>1. /\ all \subseteq F!Label /\ F!Plain \in all
      /\ \A a \in all : a.trust \in 0..2 /\ a.confidentiality \in 0..2
  BY PlainLabel DEF F!Label, F!Web, F!Trusted, F!Public, F!Secret
<1>2. PICK a \in all : \A l \in all : a.trust <= l.trust
  <2>1. CASE \E l \in all : l.trust = 0
    BY <1>1, <2>1
  <2>2. CASE (\A l \in all : l.trust # 0) /\ \E l \in all : l.trust = 1
    BY <1>1, <2>2
  <2>3. CASE \A l \in all : l.trust = 2
    BY <1>1, <2>3
  <2> QED BY <1>1, <2>1, <2>2, <2>3
<1>3. PICK b \in all : \A l \in all : b.confidentiality >= l.confidentiality
  <2>1. CASE \E l \in all : l.confidentiality = 2
    BY <1>1, <2>1
  <2>2. CASE (\A l \in all : l.confidentiality # 2) /\ \E l \in all : l.confidentiality = 1
    BY <1>1, <2>2
  <2>3. CASE \A l \in all : l.confidentiality = 0
    BY <1>1, <2>3
  <2> QED BY <1>1, <2>1, <2>2, <2>3
<1> HIDE DEF all
<1>4. F!Combine(a, b) \in joins /\ Join(F!Combine(a, b))
  <2>1. F!Combine(a, b) \in F!Label
    BY <1>1, CombineJoins
  <2>2. /\ F!Combine(a, b).trust <= a.trust /\ F!Combine(a, b).confidentiality >= b.confidentiality
        /\ F!Combine(a, b).trust \in 0..2 /\ F!Combine(a, b).confidentiality \in 0..2
    BY <1>1, <2>1, CombineJoins, CarriesMeans DEF F!Label, F!Web, F!Trusted, F!Public, F!Secret
  <2>3. \A l \in all : F!Carries(F!Combine(a, b), l)
    BY <1>1, <1>2, <1>3, <2>1, <2>2, CarriesMeans
  <2> QED BY <2>3 DEF F!Carries
<1>5. F!CombineAll(S) = CHOOSE j \in joins : Join(j)
  BY DEF F!CombineAll, all
<1>6. F!CombineAll(S) \in joins /\ Join(F!CombineAll(S))
  <2> HIDE DEF joins, Join
  <2> QED BY <1>4, <1>5
<1>7. PICK x \in all, y \in all : F!CombineAll(S) = F!Combine(x, y)
  BY <1>6
<1>8. F!CombineAll(S) \in F!Label
  BY <1>1, <1>7, CombineJoins
<1>9. \A l \in S : F!Carries(F!CombineAll(S), l)
  BY <1>6 DEF F!Carries, all
<1>10. ASSUME NEW c \in F!Label, \A l \in S : F!Carries(c, l)
       PROVE  F!Carries(c, F!CombineAll(S))
  <2>1. \A l \in all : F!Carries(c, l)
    BY <1>10, PlainLabel DEF all
  <2> QED BY <1>1, <1>7, <2>1, CombineJoins
<1> QED BY <1>8, <1>9, <1>10

LEMMA FromNameLabel == \A name : F!FromName(name) \in F!Label
BY DEF F!FromName, F!Plain, F!Label, F!Web, F!ToolOutput, F!Trusted, F!Public, F!Secret
-----------------------------------------------------------------------------
FlowItems == [value : Contents, label : F!Label]

ProvenanceOf(c) == [DOMAIN c.args -> {"trusted", "untrusted_tool", "untrusted_web"}]

Provenances == {<< >>} \cup UNION {ProvenanceOf(c) : c \in Invocations}

Events ==
  UNION {[tool : {c.tool}, args : {c.args}, provenance : ProvenanceOf(c),
          result : Contents \cup {Nothing}] : c \in Invocations}

Jobs == [call : Invocations \cup {Nothing}, todo : Seq(FlowItems), got : F!Label \cup {Nothing},
         prov : Provenances, result : Contents \cup {Nothing}, real : F!Label, bad : BOOLEAN]

FlowTypes ==
  /\ labels \in [Contents -> F!Label \cup {Nothing}]
  /\ mode \in Modes /\ kv \in [Keys -> FlowItems \cup {Nothing}] /\ ns \in Seq(FlowItems)
  /\ flowPc \in [Threads -> {"idle", "running", "observe", "store", "emit"}]
  /\ job \in [Threads -> Jobs]
  /\ flowOps \in Nat
  /\ raced \subseteq Contents /\ dirty \subseteq Contents
  /\ truth \in [Contents -> F!Label]
  /\ audit \in Seq(Events) /\ took \in Seq(BOOLEAN) /\ Len(audit) = Len(took)

(* A memory that denies holds nothing below its floor. *)
FloorHolds ==
  mode = "deny" =>
    /\ \A k \in Keys : kv[k] # Nothing => kv[k].label.trust >= MinTrust
    /\ \A i \in DOMAIN ns : ns[i].label.trust >= MinTrust

(* What a thread has left to do, in each place.                            *)
JobFits(p, j) ==
  /\ p = "idle" => j = F!NoJob
  /\ j.call # Nothing => j.prov \in ProvenanceOf(j.call)
  /\ p \in {"running", "emit"} => j.call # Nothing
  /\ p = "emit" => j.result # Nothing
  /\ p \in {"observe", "store"} =>
       /\ j.todo # << >>
       /\ j.call # Nothing => Len(j.todo) = 1 /\ j.result = j.todo[1].value

JobsFit == \A t \in Threads : JobFits(flowPc[t], job[t])

(* What a value is labelled with carries what flowed into it, and what a   *)
(* call is about to label its result with carries what flowed into that.   *)
LabelsCarry ==
  /\ \A v \in Contents :
       /\ labels[v] = Nothing => truth[v] = F!Plain
       /\ labels[v] # Nothing => F!Carries(labels[v], truth[v])
  /\ \A t \in Threads :
       /\ flowPc[t] \in {"observe", "store"} /\ job[t].call # Nothing =>
            F!Carries(job[t].todo[1].label, job[t].real)
       /\ flowPc[t] = "emit" /\ job[t].real # F!Plain =>
            labels[job[t].result] # Nothing /\ F!Carries(labels[job[t].result], job[t].real)

FlowInv == FlowTypes /\ FloorHolds /\ JobsFit /\ (raced = {} => LabelsCarry)

LEMMA NoJobType ==
  ASSUME F!FlowAssumption
  PROVE  /\ F!NoJob \in Jobs
         /\ F!NoJob.call = Nothing /\ F!NoJob.todo = << >> /\ F!NoJob.real = F!Plain
         /\ F!NoJob.bad = FALSE
BY PlainLabel DEF F!NoJob, Jobs, Provenances

LEMMA LabelForType ==
  ASSUME F!FlowAssumption, FlowTypes, NEW v \in Contents
  PROVE  F!LabelFor(v) \in F!Label
BY DEF F!LabelFor, F!FlowAssumption, FlowTypes

LEMMA LabelForCarries ==
  ASSUME F!FlowAssumption, FlowTypes, LabelsCarry, NEW v \in Contents
  PROVE  F!Carries(F!LabelFor(v), truth[v])
<1>1. CASE labels[v] = Nothing
  <2>1. truth[v] = F!Plain /\ F!LabelFor(v) = Default /\ Default \in F!Label
    BY <1>1 DEF F!LabelFor, LabelsCarry, F!FlowAssumption
  <2> QED BY <2>1, PlainLabel
<1>2. CASE labels[v] # Nothing
  BY <1>2 DEF F!LabelFor, LabelsCarry
<1> QED BY <1>1, <1>2

LEMMA FlowStarts ==
  ASSUME F!FlowAssumption, F!Init
  PROVE  FlowInv
<1>1. /\ labels = [v \in Contents |-> Nothing] /\ mode \in Modes
      /\ kv = [k \in Keys |-> Nothing] /\ ns = << >>
      /\ flowPc = [t \in Threads |-> "idle"] /\ job = [t \in Threads |-> F!NoJob]
      /\ audit = << >> /\ flowOps = 0 /\ raced = {} /\ dirty = {} /\ took = << >>
      /\ truth = [v \in Contents |-> F!Plain]
  BY DEF F!Init
<1>2. FlowTypes
  BY <1>1, NoJobType, PlainLabel DEF FlowTypes
<1>3. FloorHolds
  BY <1>1 DEF FloorHolds
<1>4. JobsFit
  BY <1>1, NoJobType DEF JobsFit, JobFits
<1>5. LabelsCarry
  <2>1. \A v \in Contents : labels[v] = Nothing /\ truth[v] = F!Plain
    BY <1>1
  <2>2. \A t \in Threads : flowPc[t] = "idle"
    BY <1>1
  <2> QED BY <2>1, <2>2 DEF LabelsCarry
<1> QED BY <1>2, <1>3, <1>4, <1>5 DEF FlowInv

(* A thread goes somewhere with a job that fits; the others stay.          *)
LEMMA OneThreadGoes ==
  ASSUME FlowTypes, JobsFit, NEW t \in Threads, NEW p \in {"idle", "running", "observe", "store", "emit"},
         NEW j \in Jobs, JobFits(p, j), F!Goto(t, p, j)
  PROVE  /\ flowPc' \in [Threads -> {"idle", "running", "observe", "store", "emit"}]
         /\ job' \in [Threads -> Jobs]
         /\ flowPc'[t] = p /\ job'[t] = j
         /\ \A u \in Threads : u # t => flowPc'[u] = flowPc[u] /\ job'[u] = job[u]
         /\ JobsFit'
<1>1. /\ flowPc' = [flowPc EXCEPT ![t] = p] /\ job' = [job EXCEPT ![t] = j]
  BY DEF F!Goto
<1>2. /\ flowPc' \in [Threads -> {"idle", "running", "observe", "store", "emit"}]
      /\ job' \in [Threads -> Jobs]
      /\ flowPc'[t] = p /\ job'[t] = j
      /\ \A u \in Threads : u # t => flowPc'[u] = flowPc[u] /\ job'[u] = job[u]
  BY <1>1 DEF FlowTypes
<1>3. JobsFit'
  <2> SUFFICES ASSUME NEW u \in Threads PROVE JobFits(flowPc'[u], job'[u])
    BY DEF JobsFit
  <2> QED BY <1>2 DEF JobsFit
<1> QED BY <1>2, <1>3

(* Nothing is labelled and nothing flows: what a thread is about to do     *)
(* decides.                                                                *)
LEMMA NothingLabelled ==
  ASSUME F!FlowAssumption, FlowInv, NEW t \in Threads,
         NEW p \in {"idle", "running", "observe", "store", "emit"},
         NEW j \in Jobs, JobFits(p, j), F!Goto(t, p, j), UNCHANGED <<labels, raced, truth>>,
         raced = {} =>
           /\ p \in {"observe", "store"} /\ j.call # Nothing => F!Carries(j.todo[1].label, j.real)
           /\ p = "emit" /\ j.real # F!Plain =>
                labels[j.result] # Nothing /\ F!Carries(labels[j.result], j.real)
  PROVE  raced' = {} => LabelsCarry'
<1> SUFFICES ASSUME raced = {} PROVE LabelsCarry'
  OBVIOUS
<1>1. /\ flowPc'[t] = p /\ job'[t] = j
      /\ \A u \in Threads : u # t => flowPc'[u] = flowPc[u] /\ job'[u] = job[u]
  BY OneThreadGoes DEF FlowInv
<1>2. LabelsCarry
  BY DEF FlowInv
<1>3. \A v \in Contents :
        /\ labels'[v] = Nothing => truth'[v] = F!Plain
        /\ labels'[v] # Nothing => F!Carries(labels'[v], truth'[v])
  BY <1>2 DEF LabelsCarry
<1>4. ASSUME NEW u \in Threads
      PROVE  /\ flowPc'[u] \in {"observe", "store"} /\ job'[u].call # Nothing =>
                  F!Carries(job'[u].todo[1].label, job'[u].real)
             /\ flowPc'[u] = "emit" /\ job'[u].real # F!Plain =>
                  labels[job'[u].result] # Nothing /\ F!Carries(labels[job'[u].result], job'[u].real)
  <2>1. CASE u = t
    BY <1>1, <2>1
  <2>2. CASE u # t
    BY <1>1, <1>2, <2>2 DEF LabelsCarry
  <2> QED BY <2>1, <2>2
<1> QED BY <1>3, <1>4 DEF LabelsCarry

(* Where something is only to be observed, nothing changes yet.            *)
LEMMA ObservingKeepsFlow ==
  ASSUME F!FlowAssumption, FlowInv, NEW t \in Threads, NEW todo \in Seq(FlowItems), todo # << >>,
         NEW j, j = [F!NoJob EXCEPT !.todo = todo] \/ j = [F!NoJob EXCEPT !.todo = todo, !.bad = TRUE],
         F!Begin(t), F!Goto(t, "observe", j),
         UNCHANGED <<labels, mode, audit, raced, truth, dirty, took>>,
         kv' \in [Keys -> FlowItems \cup {Nothing}], ns' \in Seq(FlowItems), FloorHolds'
  PROVE  FlowInv'
<1>1. j \in Jobs /\ j.call = Nothing /\ j.todo = todo
  BY NoJobType DEF Jobs
<1>2. JobFits("observe", j)
  BY <1>1 DEF JobFits
<1>3. /\ flowPc' \in [Threads -> {"idle", "running", "observe", "store", "emit"}]
      /\ job' \in [Threads -> Jobs] /\ JobsFit'
  BY <1>1, <1>2, OneThreadGoes DEF FlowInv
<1>4. flowOps' \in Nat
  BY DEF FlowInv, FlowTypes, F!Begin
<1>5. FlowTypes'
  BY <1>3, <1>4 DEF FlowInv, FlowTypes
<1>6. raced' = {} => LabelsCarry'
  BY <1>1, <1>2, NothingLabelled
<1> QED BY <1>3, <1>5, <1>6 DEF FlowInv

LEMMA TagKeepsFlow ==
  ASSUME F!FlowAssumption, FlowInv, NEW t \in Threads, NEW x \in Tags, F!Tag(t, x)
  PROVE  FlowInv'
<1>1. /\ F!Begin(t) /\ F!Goto(t, "observe", [F!NoJob EXCEPT !.todo = <<x>>, !.bad = TRUE])
      /\ UNCHANGED <<labels, mode, kv, ns, audit, raced, truth, dirty, took>>
  BY DEF F!Tag, F!memory, F!ghosts
<1>2. <<x>> \in Seq(FlowItems) /\ <<x>> # << >>
  BY DEF F!FlowAssumption, FlowItems
<1>3. kv' \in [Keys -> FlowItems \cup {Nothing}] /\ ns' \in Seq(FlowItems) /\ FloorHolds'
  BY <1>1 DEF FlowInv, FlowTypes, FloorHolds
<1> QED BY <1>1, <1>2, <1>3, ObservingKeepsFlow

LEMMA StoredItem ==
  ASSUME F!FlowAssumption, FlowTypes, NEW v \in Contents, NEW label \in MemoryLabels
  PROVE  /\ F!Item(v, F!StoredLabel(v, label)) \in FlowItems
         /\ F!Item(v, F!StoredLabel(v, label)).label = F!StoredLabel(v, label)
         /\ F!Item(v, F!StoredLabel(v, label)) # Nothing
<1>1. F!StoredLabel(v, label) \in F!Label
  BY LabelForType DEF F!StoredLabel, F!FlowAssumption
<1> QED BY <1>1 DEF F!Item, FlowItems, F!FlowAssumption

LEMMA WriteKeepsFlow ==
  ASSUME F!FlowAssumption, FlowInv, NEW t \in Threads, NEW k \in Keys, NEW v \in Contents,
         NEW label \in MemoryLabels, F!Write(t, k, v, label)
  PROVE  FlowInv'
<1> DEFINE x == F!Item(v, F!StoredLabel(v, label))
<1>1. /\ F!Begin(t) /\ F!Goto(t, "observe", [F!NoJob EXCEPT !.todo = <<x>>])
      /\ F!Storable(x.label) /\ kv' = [kv EXCEPT ![k] = x]
      /\ UNCHANGED <<labels, mode, ns, audit, raced, truth, dirty, took>>
  BY DEF F!Write, F!ghosts
<1>2. x \in FlowItems
  BY StoredItem DEF FlowInv
<1> HIDE DEF x
<1>3. <<x>> \in Seq(FlowItems) /\ <<x>> # << >>
  BY <1>2
<1>4. kv' \in [Keys -> FlowItems \cup {Nothing}] /\ ns' \in Seq(FlowItems)
  BY <1>1, <1>2 DEF FlowInv, FlowTypes
<1>5. FloorHolds'
  <2>1. \A l \in Keys : kv'[l] = IF l = k THEN x ELSE kv[l]
    BY <1>1 DEF FlowInv, FlowTypes
  <2> QED BY <1>1, <2>1 DEF FlowInv, FloorHolds, F!Storable
<1> QED BY <1>1, <1>3, <1>4, <1>5, ObservingKeepsFlow

LEMMA AppendKeepsFlow ==
  ASSUME F!FlowAssumption, FlowInv, NEW t \in Threads, NEW v \in Contents,
         NEW label \in MemoryLabels, F!AppendTo(t, v, label)
  PROVE  FlowInv'
<1> DEFINE x == F!Item(v, F!StoredLabel(v, label))
<1>1. /\ F!Begin(t) /\ F!Goto(t, "observe", [F!NoJob EXCEPT !.todo = <<x>>])
      /\ F!Storable(x.label) /\ ns' = Append(ns, x)
      /\ UNCHANGED <<labels, mode, kv, audit, raced, truth, dirty, took>>
  BY DEF F!AppendTo, F!ghosts
<1>2. x \in FlowItems
  BY StoredItem DEF FlowInv
<1> HIDE DEF x
<1>3. <<x>> \in Seq(FlowItems) /\ <<x>> # << >>
  BY <1>2
<1>4. ns \in Seq(FlowItems)
  BY DEF FlowInv, FlowTypes
<1>5. kv' \in [Keys -> FlowItems \cup {Nothing}] /\ ns' \in Seq(FlowItems)
  BY <1>1, <1>2, <1>4 DEF FlowInv, FlowTypes
<1>6. FloorHolds'
  <2>1. \A i \in DOMAIN ns' : (i \in DOMAIN ns /\ ns'[i] = ns[i]) \/ ns'[i] = x
    BY <1>1, <1>2, <1>4
  <2> QED BY <1>1, <2>1 DEF FlowInv, FloorHolds, F!Storable
<1> QED BY <1>1, <1>3, <1>5, <1>6, ObservingKeepsFlow

LEMMA ReadKeepsFlow ==
  ASSUME F!FlowAssumption, FlowInv, NEW t \in Threads, NEW k \in Keys, F!Read(t, k)
  PROVE  FlowInv'
<1>1. /\ F!Begin(t) /\ F!Goto(t, "observe", [F!NoJob EXCEPT !.todo = <<kv[k]>>])
      /\ kv[k] # Nothing
      /\ UNCHANGED <<labels, mode, kv, ns, audit, raced, truth, dirty, took>>
  BY DEF F!Read, F!memory, F!ghosts
<1>2. kv[k] \in FlowItems
  BY <1>1 DEF FlowInv, FlowTypes
<1>3. <<kv[k]>> \in Seq(FlowItems) /\ <<kv[k]>> # << >>
  BY <1>2
<1>4. kv' \in [Keys -> FlowItems \cup {Nothing}] /\ ns' \in Seq(FlowItems) /\ FloorHolds'
  BY <1>1 DEF FlowInv, FlowTypes, FloorHolds
<1> QED BY <1>1, <1>3, <1>4, ObservingKeepsFlow

LEMMA RecallKeepsFlow ==
  ASSUME F!FlowAssumption, FlowInv, NEW t \in Threads, F!Recall(t)
  PROVE  FlowInv'
<1>1. /\ F!Begin(t) /\ F!Goto(t, "observe", [F!NoJob EXCEPT !.todo = ns])
      /\ ns # << >>
      /\ UNCHANGED <<labels, mode, kv, ns, audit, raced, truth, dirty, took>>
  BY DEF F!Recall, F!memory, F!ghosts
<1>2. ns \in Seq(FlowItems)
  BY DEF FlowInv, FlowTypes
<1>3. kv' \in [Keys -> FlowItems \cup {Nothing}] /\ ns' \in Seq(FlowItems) /\ FloorHolds'
  BY <1>1 DEF FlowInv, FlowTypes, FloorHolds
<1> QED BY <1>1, <1>2, <1>3, ObservingKeepsFlow

LEMMA SearchKeepsFlow ==
  ASSUME F!FlowAssumption, FlowInv, NEW t \in Threads, NEW hits, F!Search(t, hits)
  PROVE  FlowInv'
<1>1. PICK k \in 1..Len(ns) : \E at \in [1..k -> {i \in DOMAIN ns : ns[i].value \in hits}] :
        F!Goto(t, "observe", [F!NoJob EXCEPT !.todo = [n \in 1..k |-> ns[at[n]]]])
  BY DEF F!Search
<1>2. PICK at \in [1..k -> {i \in DOMAIN ns : ns[i].value \in hits}] :
        F!Goto(t, "observe", [F!NoJob EXCEPT !.todo = [n \in 1..k |-> ns[at[n]]]])
  BY <1>1
<1> DEFINE todo == [n \in 1..k |-> ns[at[n]]]
<1>3. /\ F!Begin(t) /\ UNCHANGED <<labels, mode, kv, ns, audit, raced, truth, dirty, took>>
  BY DEF F!Search, F!memory, F!ghosts
<1>4. ns \in Seq(FlowItems) /\ k \in Nat /\ k >= 1
  BY DEF FlowInv, FlowTypes
<1>5. todo \in Seq(FlowItems) /\ todo # << >>
  <2>1. \A n \in 1..k : ns[at[n]] \in FlowItems
    BY <1>4
  <2>2. todo \in Seq(FlowItems)
    BY <1>4, <2>1, IsASeq
  <2>3. 1 \in DOMAIN todo
    BY <1>4
  <2> QED BY <2>2, <2>3
<1>6. kv' \in [Keys -> FlowItems \cup {Nothing}] /\ ns' \in Seq(FlowItems) /\ FloorHolds'
  BY <1>3 DEF FlowInv, FlowTypes, FloorHolds
<1> HIDE DEF todo
<1> QED BY <1>2, <1>3, <1>5, <1>6, ObservingKeepsFlow DEF todo
-----------------------------------------------------------------------------
LEMMA TodoItem ==
  ASSUME NEW j \in Jobs, j.todo # << >>
  PROVE  /\ j.todo[1].value \in Contents /\ j.todo[1].label \in F!Label
         /\ Tail(j.todo) \in Seq(FlowItems)
         /\ Len(j.todo) = 1 => Tail(j.todo) = << >>
<1>1. PICK s \in Seq(FlowItems) : s = j.todo
  <2> HIDE DEF FlowItems
  <2> QED BY DEF Jobs
<1>2. s # << >>
  BY <1>1
<1>3. s[1] \in FlowItems /\ Tail(s) \in Seq(FlowItems)
  <2> HIDE DEF FlowItems
  <2> QED BY <1>2
<1>4. ASSUME Len(s) = 1 PROVE Tail(s) = << >>
  <2>1. Len(Tail(s)) = 0
    BY <1>2, <1>4
  <2>2. Tail(s) # << >> => Len(Tail(s)) \in Nat \ {0}
    <3> HIDE DEF FlowItems
    <3> QED BY <1>3, EmptySeq
  <2> QED BY <2>1, <2>2
<1>5. s[1].value \in Contents /\ s[1].label \in F!Label
  BY <1>3 DEF FlowItems
<1> QED BY <1>1, <1>3, <1>4, <1>5

LEMMA ObserveKeepsFlow ==
  ASSUME F!FlowAssumption, FlowInv, NEW t \in Threads, F!Observe(t)
  PROVE  FlowInv'
<1> DEFINE j == [job[t] EXCEPT !.got = labels[job[t].todo[1].value]]
<1>1. /\ flowPc[t] = "observe" /\ F!Goto(t, "store", j)
      /\ UNCHANGED <<labels, mode, kv, ns, audit, flowOps, raced, truth, dirty, took>>
  BY DEF F!Observe, F!memory, F!ghosts
<1>2. job[t] \in Jobs /\ JobFits("observe", job[t])
  BY <1>1 DEF FlowInv, FlowTypes, JobsFit
<1>3. job[t].todo[1].value \in Contents
  BY <1>2, TodoItem DEF JobFits
<1>4. labels[job[t].todo[1].value] \in F!Label \cup {Nothing}
  BY <1>3 DEF FlowInv, FlowTypes
<1>5. /\ j \in Jobs /\ j.call = job[t].call /\ j.todo = job[t].todo /\ j.real = job[t].real
      /\ j.result = job[t].result /\ j.prov = job[t].prov
  <2>1. ASSUME NEW old \in Jobs, NEW got \in F!Label \cup {Nothing}
        PROVE  LET new == [old EXCEPT !.got = got]
               IN /\ new \in Jobs /\ new.call = old.call /\ new.todo = old.todo
                  /\ new.real = old.real /\ new.result = old.result /\ new.prov = old.prov
    BY DEF Jobs
  <2> QED BY <1>2, <1>4, <2>1, Zenon
<1>6. JobFits("store", j)
  BY <1>2, <1>5 DEF JobFits
<1> HIDE DEF j
<1>7. FlowTypes' /\ JobsFit' /\ FloorHolds'
  <2>1. /\ flowPc' \in [Threads -> {"idle", "running", "observe", "store", "emit"}]
        /\ job' \in [Threads -> Jobs] /\ JobsFit'
    BY <1>1, <1>5, <1>6, OneThreadGoes DEF FlowInv
  <2> QED BY <1>1, <2>1 DEF FlowInv, FlowTypes, FloorHolds
<1>8. raced = {} /\ j.call # Nothing => F!Carries(j.todo[1].label, j.real)
  BY <1>1, <1>5 DEF FlowInv, LabelsCarry
<1>9. raced' = {} => LabelsCarry'
  BY <1>1, <1>5, <1>6, <1>8, NothingLabelled
<1> QED BY <1>7, <1>9 DEF FlowInv

(* After an observation or a result, with what is left.                    *)
Place(j) == IF j.todo # << >> THEN "observe" ELSE IF j.call # Nothing THEN "emit" ELSE "idle"
LeftOf(j) == IF j.todo = << >> /\ j.call = Nothing THEN F!NoJob ELSE j

LEMMA ContinueGoes ==
  ASSUME F!FlowAssumption, NEW t \in Threads, NEW j \in Jobs, F!Continue(t, j),
         j.call # Nothing =>
           /\ j.prov \in ProvenanceOf(j.call) /\ j.result # Nothing
           /\ j.todo # << >> => Len(j.todo) = 1 /\ j.result = j.todo[1].value
  PROVE  /\ F!Goto(t, Place(j), LeftOf(j)) /\ LeftOf(j) \in Jobs /\ JobFits(Place(j), LeftOf(j))
         /\ Place(j) \in {"idle", "observe", "emit"}
         /\ Place(j) # "idle" => LeftOf(j) = j
<1>1. CASE j.todo # << >>
  <2>1. Place(j) = "observe" /\ LeftOf(j) = j
    BY <1>1 DEF Place, LeftOf
  <2> QED BY <1>1, <2>1 DEF F!Continue, JobFits
<1>2. CASE j.todo = << >> /\ j.call # Nothing
  <2>1. Place(j) = "emit" /\ LeftOf(j) = j
    BY <1>2 DEF Place, LeftOf
  <2> QED BY <1>2, <2>1 DEF F!Continue, JobFits
<1>3. CASE j.todo = << >> /\ j.call = Nothing
  <2>1. Place(j) = "idle" /\ LeftOf(j) = F!NoJob
    BY <1>3 DEF Place, LeftOf
  <2> QED BY <1>3, <2>1, NoJobType DEF F!Continue, F!Leave, JobFits
<1> QED BY <1>1, <1>2, <1>3

(* What remains of a job once an item is labelled.                         *)
LEMMA NextItem ==
  ASSUME F!FlowAssumption, NEW old \in Jobs, JobFits("store", old)
  PROVE  LET new == [old EXCEPT !.todo = Tail(@), !.got = Nothing]
         IN /\ new \in Jobs /\ new.call = old.call /\ new.todo = Tail(old.todo)
            /\ new.real = old.real /\ new.result = old.result /\ new.prov = old.prov
            /\ new.bad = old.bad
            /\ new.call # Nothing => new.prov \in ProvenanceOf(new.call) /\ new.result # Nothing
                                     /\ new.todo = << >> /\ new.result = old.todo[1].value
<1>1. old.todo # << >> /\ (old.call # Nothing =>
        Len(old.todo) = 1 /\ old.result = old.todo[1].value /\ old.prov \in ProvenanceOf(old.call))
  BY DEF JobFits
<1>2. /\ old.todo[1].value \in Contents
      /\ Tail(old.todo) \in Seq(FlowItems)
      /\ Len(old.todo) = 1 => Tail(old.todo) = << >>
  BY <1>1, TodoItem
<1>3. ASSUME NEW rest \in Seq(FlowItems)
      PROVE  LET new == [old EXCEPT !.todo = rest, !.got = Nothing]
             IN /\ new \in Jobs /\ new.call = old.call /\ new.todo = rest
                /\ new.real = old.real /\ new.result = old.result /\ new.prov = old.prov
                /\ new.bad = old.bad
  <2>1. PICK named : named = Seq(FlowItems)
    OBVIOUS
  <2> QED BY <2>1 DEF Jobs
<1> DEFINE new == [old EXCEPT !.todo = Tail(@), !.got = Nothing]
<1>5. /\ new \in Jobs /\ new.call = old.call /\ new.todo = Tail(old.todo)
      /\ new.real = old.real /\ new.result = old.result /\ new.prov = old.prov
      /\ new.bad = old.bad
  BY <1>2, <1>3
<1> HIDE DEF new
<1>6. new.call # Nothing => /\ new.prov \in ProvenanceOf(new.call) /\ new.result # Nothing
                            /\ new.todo = << >> /\ new.result = old.todo[1].value
  BY <1>1, <1>2, <1>5 DEF F!FlowAssumption
<1> QED BY <1>5, <1>6 DEF new

(* A label grows as it is stored over what was found.                      *)
LEMMA MergedGrows ==
  ASSUME F!FlowAssumption, NEW got \in F!Label \cup {Nothing}, NEW label \in F!Label
  PROVE  /\ F!Merged(got, label) \in F!Label /\ F!Merged(got, label) # Nothing
         /\ F!Carries(F!Merged(got, label), label)
         /\ got # Nothing => F!Carries(F!Merged(got, label), got)
<1>1. Nothing \notin F!Label
  BY DEF F!FlowAssumption
<1>2. CASE got = Nothing
  BY <1>1, <1>2, CarriesOrder DEF F!Merged
<1>3. CASE got # Nothing
  BY <1>1, <1>3, CombineJoins DEF F!Merged
<1> QED BY <1>2, <1>3

LEMMA StoreKeepsFlow ==
  ASSUME F!FlowAssumption, FlowInv, NEW t \in Threads, F!Store(t)
  PROVE  FlowInv'
<1> DEFINE v == job[t].todo[1].value
           label == job[t].todo[1].label
           merged == F!Merged(job[t].got, label)
           j == [job[t] EXCEPT !.todo = Tail(@), !.got = Nothing]
<1>1. /\ flowPc[t] = "store" /\ labels' = [labels EXCEPT ![v] = merged]
      /\ raced' = IF labels[v] # Nothing /\ labels[v] # job[t].got /\ ~F!Carries(merged, labels[v])
                  THEN raced \cup {v} ELSE raced
      /\ F!Continue(t, j)
      /\ UNCHANGED <<mode, kv, ns, audit, flowOps, took>>
      /\ \/ job[t].call = Nothing /\ truth' = [truth EXCEPT ![v] = F!Combine(truth[v], label)]
            /\ dirty' = IF F!IsUntrusted(label) THEN dirty \cup {v} ELSE dirty
         \/ truth' = truth /\ dirty' = dirty
  BY DEF F!Store, F!memory
<1>2. job[t] \in Jobs /\ JobFits("store", job[t]) /\ job[t].todo # << >>
  BY <1>1 DEF FlowInv, FlowTypes, JobsFit, JobFits
<1>3. v \in Contents /\ label \in F!Label /\ job[t].got \in F!Label \cup {Nothing}
  BY <1>2, TodoItem DEF Jobs
<1>4. /\ j \in Jobs /\ j.call = job[t].call /\ j.real = job[t].real /\ j.result = job[t].result
      /\ j.call # Nothing => /\ j.prov \in ProvenanceOf(j.call) /\ j.result # Nothing
                             /\ j.todo = << >> /\ j.result = v
  BY <1>2, NextItem
<1>5. /\ merged \in F!Label /\ merged # Nothing /\ F!Carries(merged, label)
      /\ job[t].got # Nothing => F!Carries(merged, job[t].got)
  BY <1>3, MergedGrows
<1>6. ASSUME job[t].call # Nothing, LabelsCarry PROVE F!Carries(label, job[t].real)
  BY <1>1, <1>6 DEF LabelsCarry
<1> HIDE DEF merged, j, label, v
<1>7. /\ F!Goto(t, Place(j), LeftOf(j)) /\ LeftOf(j) \in Jobs /\ JobFits(Place(j), LeftOf(j))
      /\ Place(j) \in {"idle", "observe", "emit"}
      /\ Place(j) # "idle" => LeftOf(j) = j
      /\ Place(j) = "observe" => j.call = Nothing
  <2>1. Place(j) = "observe" => j.call = Nothing
    BY <1>4 DEF Place
  <2> QED BY <1>1, <1>4, <2>1, ContinueGoes
<1>8. /\ flowPc' \in [Threads -> {"idle", "running", "observe", "store", "emit"}]
      /\ job' \in [Threads -> Jobs] /\ JobsFit'
      /\ flowPc'[t] = Place(j) /\ job'[t] = LeftOf(j)
      /\ \A u \in Threads : u # t => flowPc'[u] = flowPc[u] /\ job'[u] = job[u]
  BY <1>7, OneThreadGoes DEF FlowInv
<1>9. /\ labels' \in [Contents -> F!Label \cup {Nothing}] /\ raced' \subseteq Contents
      /\ truth' \in [Contents -> F!Label] /\ dirty' \subseteq Contents
      /\ \A w \in Contents : labels'[w] = IF w = v THEN merged ELSE labels[w]
      /\ \A w \in Contents : truth'[w] = truth[w] \/ (w = v /\ truth'[w] = F!Combine(truth[w], label))
  <2>1. F!Combine(truth[v], label) \in F!Label
    BY <1>3, CombineJoins DEF FlowInv, FlowTypes
  <2>2. /\ labels' \in [Contents -> F!Label \cup {Nothing}]
        /\ \A w \in Contents : labels'[w] = IF w = v THEN merged ELSE labels[w]
    BY <1>1, <1>3, <1>5 DEF FlowInv, FlowTypes
  <2>3. raced' \subseteq Contents /\ dirty' \subseteq Contents
    BY <1>1, <1>3 DEF FlowInv, FlowTypes
  <2>4. truth \in [Contents -> F!Label]
    BY DEF FlowInv, FlowTypes
  <2>5. /\ truth' \in [Contents -> F!Label]
        /\ \A w \in Contents : truth'[w] = truth[w] \/ (w = v /\ truth'[w] = F!Combine(truth[w], label))
    <3>1. CASE truth' = truth
      BY <2>4, <3>1
    <3>2. CASE truth' = [truth EXCEPT ![v] = F!Combine(truth[v], label)]
      BY <1>3, <2>1, <2>4, <3>2
    <3> QED BY <1>1, <3>1, <3>2
  <2> QED BY <2>2, <2>3, <2>5
<1>10. FlowTypes' /\ FloorHolds'
  BY <1>1, <1>8, <1>9 DEF FlowInv, FlowTypes, FloorHolds
<1>11. ASSUME raced' = {} PROVE LabelsCarry'
  <2>1. LabelsCarry
    BY <1>1, <1>11 DEF FlowInv
  <2>2. labels[v] # Nothing => F!Carries(merged, labels[v])
    BY <1>1, <1>5, <1>11
  <2>3. ASSUME NEW w \in Contents, labels[w] # Nothing, NEW x \in F!Label, F!Carries(labels[w], x)
        PROVE  labels'[w] # Nothing /\ F!Carries(labels'[w], x)
    BY <1>5, <1>9, <2>2, <2>3, CarriesOrder DEF FlowInv, FlowTypes
  <2>4. ASSUME NEW w \in Contents
        PROVE  /\ labels'[w] = Nothing => truth'[w] = F!Plain
               /\ labels'[w] # Nothing => F!Carries(labels'[w], truth'[w])
    <3>1. CASE w # v
      BY <1>9, <2>1, <3>1 DEF LabelsCarry
    <3>2. CASE w = v
      <4>1. labels'[v] = merged /\ truth[v] \in F!Label
        BY <1>3, <1>9 DEF FlowInv, FlowTypes
      <4>2. F!Carries(merged, truth[v])
        <5>1. CASE labels[v] = Nothing
          BY <1>3, <1>5, <2>1, <5>1, PlainLabel DEF LabelsCarry
        <5>2. CASE labels[v] # Nothing
          <6>1. F!Carries(labels[v], truth[v]) /\ labels[v] \in F!Label
            BY <1>3, <2>1, <5>2 DEF LabelsCarry, FlowInv, FlowTypes
          <6> QED BY <1>5, <2>2, <4>1, <5>2, <6>1, CarriesOrder
        <5> QED BY <5>1, <5>2
      <4>3. F!Carries(merged, F!Combine(truth[v], label))
        BY <1>3, <1>5, <4>1, <4>2, CombineJoins
      <4> QED BY <1>3, <1>5, <1>9, <3>2, <4>1, <4>2, <4>3
    <3> QED BY <3>1, <3>2
  <2>5. ASSUME NEW u \in Threads
        PROVE  /\ flowPc'[u] \in {"observe", "store"} /\ job'[u].call # Nothing =>
                    F!Carries(job'[u].todo[1].label, job'[u].real)
               /\ flowPc'[u] = "emit" /\ job'[u].real # F!Plain =>
                    labels'[job'[u].result] # Nothing /\ F!Carries(labels'[job'[u].result], job'[u].real)
    <3>1. CASE u = t
      <4>1. CASE Place(j) = "emit"
        <5>1. j.call # Nothing /\ j.result = v /\ j.real = job[t].real
          BY <1>4, <1>7, <4>1 DEF JobFits
        <5>2. F!Carries(label, job[t].real) /\ job[t].real \in F!Label
          BY <1>2, <1>4, <1>6, <2>1, <5>1 DEF Jobs
        <5>3. F!Carries(merged, job[t].real)
          BY <1>3, <1>5, <5>2, CarriesOrder
        <5> QED BY <1>3, <1>5, <1>7, <1>8, <1>9, <3>1, <4>1, <5>1, <5>3
      <4>2. CASE Place(j) # "emit"
        BY <1>7, <1>8, <3>1, <4>2
      <4> QED BY <4>1, <4>2
    <3>2. CASE u # t
      <4>1. /\ flowPc'[u] = flowPc[u] /\ job'[u] = job[u] /\ job[u] \in Jobs
            /\ JobFits(flowPc[u], job[u])
        BY <1>8, <3>2 DEF FlowInv, FlowTypes, JobsFit
      <4>2. flowPc[u] = "emit" => job[u].result \in Contents /\ job[u].real \in F!Label
        BY <4>1 DEF Jobs, JobFits
      <4> QED BY <2>1, <2>3, <4>1, <4>2 DEF LabelsCarry
    <3> QED BY <3>1, <3>2
  <2> QED BY <2>4, <2>5 DEF LabelsCarry
<1> QED BY <1>8, <1>10, <1>11 DEF FlowInv
-----------------------------------------------------------------------------
(* Calls. *)
LEMMA ArgLabelCarries ==
  ASSUME F!FlowAssumption, FlowTypes, NEW v \in Contents, NEW name
  PROVE  /\ F!ArgLabel(v, name) \in F!Label
         /\ LabelsCarry => F!Carries(F!ArgLabel(v, name), truth[v])
<1>1. F!LabelFor(v) \in F!Label /\ F!FromName(name) \in F!Label
  BY LabelForType, FromNameLabel
<1>2. F!ArgLabel(v, name) \in F!Label /\ F!Carries(F!ArgLabel(v, name), F!LabelFor(v))
  <2>1. CASE name = "none"
    BY <1>1, <2>1, CarriesOrder DEF F!ArgLabel
  <2>2. CASE name # "none"
    BY <1>1, <2>2, CombineJoins DEF F!ArgLabel
  <2> QED BY <2>1, <2>2
<1>3. truth[v] \in F!Label
  BY DEF FlowTypes
<1>4. ASSUME LabelsCarry PROVE F!Carries(F!ArgLabel(v, name), truth[v])
  <2>1. F!Carries(F!LabelFor(v), truth[v])
    BY <1>4, LabelForCarries
  <2> QED BY <1>1, <1>2, <1>3, <2>1, CarriesOrder
<1> QED BY <1>2, <1>4

ArgLabels(c, name) == [a \in DOMAIN c.args |-> F!ArgLabel(c.args[a], name)]
ContextOf(c, name, signals) == F!Context(c, ArgLabels(c, name), signals)
TakesDirt(c, name) ==
  F!ArgValues(c) \cap dirty # {} \/ (F!ArgValues(c) # {} /\ F!IsUntrusted(F!FromName(name)))

LEMMA ContextFits ==
  ASSUME F!FlowAssumption, FlowTypes, NEW c \in Invocations, NEW name, NEW signals
  PROVE  /\ ArgLabels(c, name) \in [DOMAIN c.args -> F!Label]
         /\ ContextOf(c, name, signals).provenance \in ProvenanceOf(c)
         /\ ContextOf(c, name, signals).provenance =
              [a \in DOMAIN c.args |-> F!Name(ArgLabels(c, name)[a])]
<1>1. ArgLabels(c, name) \in [DOMAIN c.args -> F!Label]
  <2>1. \A a \in DOMAIN c.args : F!ArgLabel(c.args[a], name) \in F!Label
    BY ArgLabelCarries DEF F!FlowAssumption
  <2> QED BY <2>1 DEF ArgLabels
<1>2. ContextOf(c, name, signals).provenance =
        [a \in DOMAIN c.args |-> F!Name(ArgLabels(c, name)[a])]
  BY DEF ContextOf, F!Context
<1>3. \A l : F!Name(l) \in {"trusted", "untrusted_tool", "untrusted_web"}
  BY DEF F!Name
<1> QED BY <1>1, <1>2, <1>3 DEF ProvenanceOf

LEMMA EventType ==
  ASSUME NEW c \in Invocations, NEW prov \in ProvenanceOf(c), NEW r \in Contents \cup {Nothing}
  PROVE  [tool |-> c.tool, args |-> c.args, provenance |-> prov, result |-> r] \in Events
BY DEF Events

LEMMA LogGrows ==
  ASSUME FlowTypes, NEW e \in Events, NEW b \in BOOLEAN,
         audit' = Append(audit, e), took' = Append(took, b)
  PROVE  audit' \in Seq(Events) /\ took' \in Seq(BOOLEAN) /\ Len(audit') = Len(took')
<1>1. audit \in Seq(Events) /\ took \in Seq(BOOLEAN) /\ Len(audit) = Len(took)
  BY DEF FlowTypes
<1> HIDE DEF Events
<1> QED BY <1>1

LEMMA InvokeKeepsFlow ==
  ASSUME F!FlowAssumption, FlowInv, NEW t \in Threads, NEW c \in Invocations,
         NEW name, NEW signals, F!Invoke(t, c, name, signals)
  PROVE  FlowInv'
<1> DEFINE prov == ContextOf(c, name, signals).provenance
           j == [F!NoJob EXCEPT !.call = c, !.prov = prov, !.bad = TakesDirt(c, name)]
<1>1. /\ F!Begin(t) /\ UNCHANGED <<labels, mode, kv, ns, raced, truth, dirty>>
      /\ \/ /\ audit' = Append(audit, [tool |-> c.tool, args |-> c.args, provenance |-> prov,
                                        result |-> Nothing])
            /\ took' = Append(took, TakesDirt(c, name))
            /\ UNCHANGED <<flowPc, job>>
         \/ /\ F!Goto(t, "running", j)
            /\ UNCHANGED <<audit, took>>
  BY Zenon DEF F!Invoke, F!memory, TakesDirt, ContextOf, ArgLabels
<1>2. prov \in ProvenanceOf(c) /\ TakesDirt(c, name) \in BOOLEAN /\ FlowTypes
  BY ContextFits DEF FlowInv, TakesDirt
<1>3. flowOps' \in Nat
  BY <1>1 DEF FlowInv, FlowTypes, F!Begin
<1>4. FloorHolds'
  BY <1>1 DEF FlowInv, FloorHolds
<1>5. c # Nothing
  BY DEF F!FlowAssumption
<1>6. CASE UNCHANGED <<flowPc, job>> /\ audit' = Append(audit,
             [tool |-> c.tool, args |-> c.args, provenance |-> prov, result |-> Nothing])
             /\ took' = Append(took, TakesDirt(c, name))
  <2>1. audit' \in Seq(Events) /\ took' \in Seq(BOOLEAN) /\ Len(audit') = Len(took')
    <3> HIDE DEF prov
    <3> QED BY <1>2, <1>6, EventType, LogGrows
  <2>2. FlowTypes'
    BY <1>1, <1>2, <1>3, <1>6, <2>1 DEF FlowTypes
  <2>3. JobsFit'
    BY <1>6 DEF FlowInv, JobsFit
  <2>4. raced' = {} => LabelsCarry'
    BY <1>1, <1>6 DEF FlowInv, LabelsCarry
  <2> QED BY <1>4, <2>2, <2>3, <2>4 DEF FlowInv
<1>7. CASE F!Goto(t, "running", j) /\ UNCHANGED <<audit, took>>
  <2>1. /\ j \in Jobs /\ j.call = c /\ j.prov = prov
    BY <1>2, NoJobType DEF Jobs, Provenances
  <2>2. JobFits("running", j)
    BY <1>2, <1>5, <2>1 DEF JobFits
  <2> HIDE DEF j
  <2>3. /\ flowPc' \in [Threads -> {"idle", "running", "observe", "store", "emit"}]
        /\ job' \in [Threads -> Jobs] /\ JobsFit'
    BY <1>7, <2>1, <2>2, OneThreadGoes DEF FlowInv
  <2>4. FlowTypes'
    BY <1>1, <1>2, <1>3, <1>7, <2>3 DEF FlowTypes
  <2>5. raced' = {} => LabelsCarry'
    BY <1>1, <1>7, <2>1, <2>2, NothingLabelled
  <2> QED BY <1>4, <2>3, <2>4, <2>5 DEF FlowInv
<1> QED BY <1>1, <1>6, <1>7

Answered(old, r, real, rest) == [old EXCEPT !.result = r, !.real = real, !.todo = rest]

LEMMA AnsweredJob ==
  ASSUME NEW old \in Jobs, NEW r \in Contents, NEW real \in F!Label, NEW rest \in Seq(FlowItems)
  PROVE  LET new == Answered(old, r, real, rest)
         IN /\ new \in Jobs /\ new.call = old.call /\ new.prov = old.prov /\ new.result = r
            /\ new.real = real /\ new.todo = rest /\ new.bad = old.bad
<1>1. PICK named : named = Seq(FlowItems)
  OBVIOUS
<1> QED BY <1>1 DEF Jobs, Answered

LEMMA ReturnKeepsFlow ==
  ASSUME F!FlowAssumption, FlowInv, NEW t \in Threads, NEW r \in Contents, F!Return(t, r)
  PROVE  FlowInv'
<1> DEFINE c == job[t].call
           source == FlowTools[c.tool].label
           out == F!Combine(F!CombineAll({F!LabelFor(v) : v \in F!ArgValues(c)}), source)
           real == F!Combine(F!CombineAll({truth[v] : v \in F!ArgValues(c)}), source)
           todo == IF out = F!Plain THEN << >> ELSE <<F!Item(r, out)>>
           j == [job[t] EXCEPT !.result = r, !.real = real, !.todo = todo]
<1>1. /\ flowPc[t] = "running" /\ F!Continue(t, j)
      /\ UNCHANGED <<labels, mode, kv, ns, audit, flowOps, raced, truth, dirty, took>>
  BY DEF F!Return, F!memory, F!ghosts
<1>2. job[t] \in Jobs /\ JobFits("running", job[t]) /\ c \in Invocations
      /\ job[t].prov \in ProvenanceOf(c)
  BY <1>1 DEF FlowInv, FlowTypes, JobsFit, JobFits, Jobs
<1>3. source \in F!Label /\ F!ArgValues(c) \subseteq Contents /\ r # Nothing /\ c # Nothing
  BY <1>2 DEF F!FlowAssumption, F!ArgValues
<1>4. /\ {F!LabelFor(v) : v \in F!ArgValues(c)} \subseteq F!Label
      /\ {truth[v] : v \in F!ArgValues(c)} \subseteq F!Label
  BY <1>3, LabelForType DEF FlowInv, FlowTypes
<1>5. out \in F!Label /\ real \in F!Label
  BY <1>3, <1>4, CombineAllJoins, CombineJoins
<1>6. LabelsCarry => F!Carries(out, real)
  <2> SUFFICES ASSUME LabelsCarry PROVE F!Carries(out, real)
    OBVIOUS
  <2> DEFINE all == F!CombineAll({F!LabelFor(v) : v \in F!ArgValues(c)})
             truths == F!CombineAll({truth[v] : v \in F!ArgValues(c)})
  <2>1. /\ all \in F!Label /\ truths \in F!Label
        /\ \A v \in F!ArgValues(c) : F!Carries(all, F!LabelFor(v))
        /\ (\A v \in F!ArgValues(c) : F!Carries(all, truth[v])) => F!Carries(all, truths)
    BY <1>4, CombineAllJoins
  <2>2. \A v \in F!ArgValues(c) : F!Carries(F!LabelFor(v), truth[v]) /\ F!LabelFor(v) \in F!Label
                                  /\ truth[v] \in F!Label
    BY <1>3, <1>4, LabelForCarries DEF FlowInv
  <2> HIDE DEF all, truths
  <2>3. \A v \in F!ArgValues(c) : F!Carries(all, truth[v])
    BY <2>1, <2>2, CarriesOrder
  <2>4. F!Carries(all, truths)
    BY <2>1, <2>3
  <2>5. F!Combine(all, source) \in F!Label /\ F!Carries(F!Combine(all, source), truths)
        /\ F!Carries(F!Combine(all, source), source)
    BY <1>3, <2>1, <2>4, CombineJoins, CarriesOrder
  <2>6. F!Carries(F!Combine(all, source), F!Combine(truths, source))
    BY <1>3, <2>1, <2>5, CombineJoins
  <2> QED BY <2>6 DEF all, truths
<1> HIDE DEF out, real
<1>7. /\ todo \in Seq(FlowItems)
      /\ todo # << >> => out # F!Plain
      /\ todo # << >> => Len(todo) = 1 /\ todo[1].value = r /\ todo[1].label = out
  <2>1. PICK x : x = F!Item(r, out)
    OBVIOUS
  <2>2. x \in FlowItems /\ x.value = r /\ x.label = out
    BY <1>5, <2>1 DEF F!Item, FlowItems
  <2>3. CASE out = F!Plain
    BY <2>3
  <2>4. CASE out # F!Plain
    <3>1. todo = <<x>>
      BY <2>1, <2>4
    <3> HIDE DEF FlowItems, todo
    <3> QED BY <2>2, <2>4, <3>1
  <2> QED BY <2>3, <2>4
<1> HIDE DEF todo, c
<1>8. /\ j \in Jobs /\ j.call = c /\ j.prov = job[t].prov /\ j.result = r /\ j.real = real
      /\ j.todo = todo
  <2>1. j = Answered(job[t], r, real, todo)
    BY DEF Answered
  <2> HIDE DEF j
  <2> QED BY <1>2, <1>5, <1>7, <2>1, AnsweredJob DEF c
<1> HIDE DEF j
<1>9. /\ F!Goto(t, Place(j), LeftOf(j)) /\ LeftOf(j) \in Jobs /\ JobFits(Place(j), LeftOf(j))
      /\ Place(j) \in {"idle", "observe", "emit"}
      /\ Place(j) # "idle" => LeftOf(j) = j
  BY <1>1, <1>2, <1>3, <1>7, <1>8, ContinueGoes
<1>10. FlowTypes' /\ JobsFit' /\ FloorHolds'
  <2>1. /\ flowPc' \in [Threads -> {"idle", "running", "observe", "store", "emit"}]
        /\ job' \in [Threads -> Jobs] /\ JobsFit'
    BY <1>9, OneThreadGoes DEF FlowInv
  <2> QED BY <1>1, <2>1 DEF FlowInv, FlowTypes, FloorHolds
<1>11. raced = {} =>
         /\ Place(j) \in {"observe", "store"} /\ LeftOf(j).call # Nothing =>
              F!Carries(LeftOf(j).todo[1].label, LeftOf(j).real)
         /\ Place(j) = "emit" /\ LeftOf(j).real # F!Plain =>
              labels[LeftOf(j).result] # Nothing /\ F!Carries(labels[LeftOf(j).result], LeftOf(j).real)
  <2> SUFFICES ASSUME raced = {}
               PROVE  /\ Place(j) = "observe" => F!Carries(j.todo[1].label, j.real)
                      /\ Place(j) = "emit" => j.real = F!Plain
    BY <1>9
  <2>1. F!Carries(out, real)
    BY <1>6 DEF FlowInv
  <2>2. Place(j) = "observe" => todo # << >>
    BY <1>8 DEF Place
  <2>3. CASE Place(j) = "emit"
    <3>1. out = F!Plain
      BY <1>8, <2>3 DEF Place, todo
    <3>2. real.trust >= 2 /\ real.confidentiality <= 0
      BY <1>5, <2>1, <3>1, CarriesMeans DEF F!Plain, F!Trusted, F!Public
    <3>3. real = F!Plain
      BY <1>5, <3>2 DEF F!Label, F!Plain, F!Web, F!Trusted, F!Public, F!Secret
    <3> QED BY <1>8, <2>3, <3>3
  <2> QED BY <1>7, <1>8, <2>1, <2>2, <2>3
<1>12. raced' = {} => LabelsCarry'
  BY <1>1, <1>9, <1>11, NothingLabelled
<1> QED BY <1>10, <1>12 DEF FlowInv

LEMMA EmitKeepsFlow ==
  ASSUME F!FlowAssumption, FlowInv, NEW t \in Threads, F!Emit(t)
  PROVE  FlowInv'
<1> DEFINE j == job[t]
<1>1. /\ flowPc[t] = "emit"
      /\ audit' = Append(audit, [tool |-> j.call.tool, args |-> j.call.args,
                                 provenance |-> j.prov, result |-> j.result])
      /\ took' = Append(took, j.bad)
      /\ truth' = [truth EXCEPT ![j.result] = F!Combine(truth[j.result], j.real)]
      /\ dirty' \in {dirty, dirty \cup {j.result}}
      /\ F!Goto(t, "idle", F!NoJob)
      /\ UNCHANGED <<labels, mode, kv, ns, flowOps, raced>>
  BY DEF F!Emit, F!memory, F!Leave
<1>2. j \in Jobs /\ JobFits("emit", j)
  BY <1>1 DEF FlowInv, FlowTypes, JobsFit
<1>3. /\ j.call \in Invocations /\ j.result \in Contents /\ j.real \in F!Label
      /\ j.prov \in ProvenanceOf(j.call) /\ j.bad \in BOOLEAN
  BY <1>2 DEF JobFits, Jobs
<1>4. ASSUME LabelsCarry, j.real # F!Plain
      PROVE  labels[j.result] # Nothing /\ F!Carries(labels[j.result], j.real)
  BY <1>1, <1>4 DEF LabelsCarry
<1> HIDE DEF j
<1>5. audit' \in Seq(Events) /\ took' \in Seq(BOOLEAN) /\ Len(audit') = Len(took')
  BY <1>1, <1>3, EventType, LogGrows DEF FlowInv
<1>6. JobFits("idle", F!NoJob)
  BY NoJobType DEF JobFits
<1>7. /\ flowPc' \in [Threads -> {"idle", "running", "observe", "store", "emit"}]
      /\ job' \in [Threads -> Jobs] /\ JobsFit'
      /\ flowPc'[t] = "idle"
      /\ \A u \in Threads : u # t => flowPc'[u] = flowPc[u] /\ job'[u] = job[u]
  BY <1>1, <1>6, NoJobType, OneThreadGoes DEF FlowInv
<1>8. /\ truth' \in [Contents -> F!Label]
      /\ \A w \in Contents : w # j.result => truth'[w] = truth[w]
      /\ truth'[j.result] = F!Combine(truth[j.result], j.real)
      /\ truth[j.result] \in F!Label
  <2>1. F!Combine(truth[j.result], j.real) \in F!Label
    BY <1>3, CombineJoins DEF FlowInv, FlowTypes
  <2>2. truth \in [Contents -> F!Label]
    BY DEF FlowInv, FlowTypes
  <2> QED BY <1>1, <1>3, <2>1, <2>2
<1>9. FlowTypes' /\ FloorHolds'
  <2>1. dirty' \subseteq Contents
    BY <1>1, <1>3 DEF FlowInv, FlowTypes
  <2> QED BY <1>1, <1>5, <1>7, <1>8, <2>1 DEF FlowInv, FlowTypes, FloorHolds
<1>10. ASSUME raced' = {} PROVE LabelsCarry'
  <2>1. LabelsCarry
    BY <1>1, <1>10 DEF FlowInv
  <2>2. ASSUME NEW w \in Contents
        PROVE  /\ labels'[w] = Nothing => truth'[w] = F!Plain
               /\ labels'[w] # Nothing => F!Carries(labels'[w], truth'[w])
    <3>1. CASE w # j.result
      BY <1>1, <1>8, <2>1, <3>1 DEF LabelsCarry
    <3>2. CASE w = j.result /\ j.real = F!Plain
      <4>1. truth'[w] = truth[w]
        BY <1>8, <3>2, PlainLabel DEF F!Carries
      <4> QED BY <1>1, <2>1, <4>1 DEF LabelsCarry
    <3>3. CASE w = j.result /\ j.real # F!Plain
      <4>1. labels[w] # Nothing /\ F!Carries(labels[w], j.real) /\ F!Carries(labels[w], truth[w])
            /\ labels[w] \in F!Label
        BY <1>4, <2>1, <3>3 DEF LabelsCarry, FlowInv, FlowTypes
      <4>2. F!Carries(labels[w], truth'[w])
        BY <1>3, <1>8, <3>3, <4>1, CombineJoins
      <4> QED BY <1>1, <4>1, <4>2
    <3> QED BY <3>1, <3>2, <3>3
  <2>3. ASSUME NEW u \in Threads
        PROVE  /\ flowPc'[u] \in {"observe", "store"} /\ job'[u].call # Nothing =>
                    F!Carries(job'[u].todo[1].label, job'[u].real)
               /\ flowPc'[u] = "emit" /\ job'[u].real # F!Plain =>
                    labels[job'[u].result] # Nothing /\ F!Carries(labels[job'[u].result], job'[u].real)
    <3>1. CASE u = t
      BY <1>7, <3>1
    <3>2. CASE u # t
      BY <1>7, <2>1, <3>2 DEF LabelsCarry
    <3> QED BY <3>1, <3>2
  <2> QED BY <1>1, <2>2, <2>3 DEF LabelsCarry
<1> QED BY <1>7, <1>9, <1>10 DEF FlowInv

LEMMA FlowKept ==
  ASSUME F!FlowAssumption, FlowInv, [F!Next]_(F!vars)
  PROVE  FlowInv'
<1>1. CASE UNCHANGED F!vars
  BY <1>1 DEF F!vars, F!memory, F!ghosts, FlowInv, FlowTypes, FloorHolds, JobsFit, LabelsCarry
<1>2. ASSUME NEW t \in Threads, F!Step(t) PROVE FlowInv'
  BY <1>2, ObserveKeepsFlow, StoreKeepsFlow, EmitKeepsFlow, ReturnKeepsFlow DEF F!Step
<1>3. ASSUME NEW t \in Threads, F!Start(t) PROVE FlowInv'
  BY <1>3, TagKeepsFlow, InvokeKeepsFlow, AppendKeepsFlow, WriteKeepsFlow, ReadKeepsFlow,
     RecallKeepsFlow, SearchKeepsFlow DEF F!Start
<1> QED BY <1>1, <1>2, <1>3 DEF F!Next

LEMMA FlowTyped ==
  ASSUME F!FlowAssumption, FlowInv
  PROVE  F!TypeOK
<1>1. /\ \A x \in F!Items : x.value \in Contents /\ x.label \in F!Label
      /\ mode = "deny" => \A x \in F!Items : x.label.trust >= MinTrust
  <2>1. \A x \in F!Items :
          \/ \E k \in Keys : kv[k] # Nothing /\ x = kv[k]
          \/ \E i \in DOMAIN ns : x = ns[i]
    BY DEF F!Items
  <2>2. \A k \in Keys : kv[k] # Nothing => kv[k] \in FlowItems
    BY DEF FlowInv, FlowTypes
  <2>3. \A i \in DOMAIN ns : ns[i] \in FlowItems
    <3> HIDE DEF FlowItems
    <3> QED BY DEF FlowInv, FlowTypes
  <2>4. \A x \in F!Items : x \in FlowItems
    BY <2>1, <2>2, <2>3
  <2> QED BY <2>1, <2>4 DEF FlowItems, FlowInv, FloorHolds
<1>2. ASSUME NEW t \in Threads
      PROVE  /\ flowPc[t] \in {"idle", "running", "observe", "store", "emit"}
             /\ flowPc[t] = "idle" <=> job[t] = F!NoJob
             /\ flowPc[t] \in {"observe", "store"} => job[t].todo # << >>
  <2>1. /\ flowPc[t] \in {"idle", "running", "observe", "store", "emit"}
        /\ JobFits(flowPc[t], job[t])
    BY DEF FlowInv, FlowTypes, JobsFit
  <2> QED BY <2>1, NoJobType DEF JobFits
<1>3. /\ \A v \in Contents : labels[v] = Nothing \/ labels[v] \in F!Label
      /\ Len(took) = Len(audit)
  BY DEF FlowInv, FlowTypes
<1> QED BY <1>1, <1>2, <1>3 DEF F!TypeOK

(* The flow keeps its types: a thread that is idle has no job, and a       *)
(* memory that denies holds nothing below its floor.                       *)
THEOREM FlowTypeCorrect == ASSUME F!FlowAssumption PROVE F!Spec => []F!TypeOK
<1>1. F!Init => FlowInv
  BY FlowStarts
<1>2. FlowInv /\ [F!Next]_(F!vars) => FlowInv'
  BY FlowKept
<1>3. FlowInv => F!TypeOK
  BY FlowTyped
<1> QED BY <1>1, <1>2, <1>3, PTL DEF F!Spec

(* Unless two observations of one value overlapped, every value carries    *)
(* the taint of all that flowed into it.                                   *)
THEOREM TaintIsKept == ASSUME F!FlowAssumption PROVE F!Spec => []TaintKept
<1>1. F!Init => FlowInv
  BY FlowStarts
<1>2. FlowInv /\ [F!Next]_(F!vars) => FlowInv'
  BY FlowKept
<1>3. FlowInv => TaintKept
  BY LabelForCarries DEF TaintKept, F!TaintKept, FlowInv
<1> QED BY <1>1, <1>2, <1>3, PTL DEF F!Spec

(* Only an invocation that no rule blocked starts a tool.                  *)
LEMMA OnlyInvokeRuns ==
  ASSUME F!FlowAssumption, FlowInv, [F!Next]_(F!vars), NEW t \in Threads,
         flowPc[t] = "idle", flowPc'[t] = "running"
  PROVE  \E c \in Invocations, name \in TrustNames, signals \in F!Signals :
           /\ ~F!Blocked(ContextOf(c, name, signals))
           /\ job'[t].call = c /\ job'[t].prov = ContextOf(c, name, signals).provenance
           /\ job'[t].bad = TakesDirt(c, name)
<1>1. flowPc \in [Threads -> {"idle", "running", "observe", "store", "emit"}] /\ job \in [Threads -> Jobs]
  BY DEF FlowInv, FlowTypes
<1>2. F!Next
  BY DEF F!vars
<1>3. ASSUME NEW u \in Threads, NEW p, NEW j, F!Goto(u, p, j) PROVE p = "running" /\ u = t /\ job'[t] = j
  BY <1>1, <1>3 DEF F!Goto
<1>4. ~(flowPc' = flowPc)
  BY <1>1
<1>5. ASSUME NEW u \in Threads, F!Step(u) PROVE FALSE
  <2>1. \A j : ~F!Continue(u, j)
    BY <1>3, SMTT(30) DEF F!Continue, F!Leave
  <2>2. ~F!Observe(u) /\ ~F!Store(u) /\ ~F!Emit(u) /\ \A v \in Contents : ~F!Return(u, v)
    BY <1>3, <2>1, Zenon DEF F!Observe, F!Store, F!Emit, F!Return, F!Leave
  <2> QED BY <1>5, <2>2 DEF F!Step
<1>6. PICK u \in Threads : F!Start(u)
  BY <1>2, <1>5 DEF F!Next
<1>7. /\ \A x \in Tags : ~F!Tag(u, x)
      /\ \A v \in Contents, label \in MemoryLabels :
           ~F!AppendTo(u, v, label) /\ \A k \in Keys : ~F!Write(u, k, v, label)
      /\ \A k \in Keys : ~F!Read(u, k)
      /\ ~F!Recall(u)
      /\ \A v \in Contents : ~F!Search(u, {v})
  <2>1. \A j : ~F!Goto(u, "observe", j)
    BY <1>3
  <2>2. \A x \in Tags : ~F!Tag(u, x)
    BY <2>1 DEF F!Tag
  <2>3. ASSUME NEW v \in Contents, NEW label \in MemoryLabels
        PROVE  ~F!AppendTo(u, v, label) /\ \A k \in Keys : ~F!Write(u, k, v, label)
    BY <2>1 DEF F!AppendTo, F!Write
  <2>4. ~F!Recall(u) /\ \A k \in Keys : ~F!Read(u, k)
    BY <2>1 DEF F!Read, F!Recall
  <2>5. \A v \in Contents : ~F!Search(u, {v})
    BY <2>1, Zenon DEF F!Search
  <2> QED BY <2>2, <2>3, <2>4, <2>5
<1>8. PICK c \in Invocations, name \in TrustNames, signals \in F!Signals : F!Invoke(u, c, name, signals)
  BY <1>6, <1>7, Zenon DEF F!Start
<1> DEFINE j == [F!NoJob EXCEPT !.call = c, !.prov = ContextOf(c, name, signals).provenance,
                               !.bad = TakesDirt(c, name)]
<1>9. F!Goto(u, "running", j) /\ ~F!Blocked(ContextOf(c, name, signals))
  <2>1. IF F!Blocked(ContextOf(c, name, signals)) THEN UNCHANGED <<flowPc, job>>
        ELSE F!Goto(u, "running", j)
    BY <1>8, Zenon DEF F!Invoke, TakesDirt, ContextOf, ArgLabels
  <2> QED BY <1>4, <2>1
<1>10. job'[t] = j
  BY <1>3, <1>9
<1>11. j.call = c /\ j.prov = ContextOf(c, name, signals).provenance /\ j.bad = TakesDirt(c, name)
  BY DEF F!NoJob
<1> QED BY <1>8, <1>9, <1>10, <1>11

(* Where rules also fire on what is labelled worse, no call that one would *)
(* block for the data that really flowed into it gets past the gate.       *)
THEOREM NoTaintedCallPasses ==
  ASSUME F!FlowAssumption, F!WorseFiresToo PROVE F!Spec => NoTaintedCall
<1> DEFINE Passes ==
      \A t \in Threads : (flowPc[t] = "idle" /\ flowPc'[t] = "running" /\ raced = {}) =>
        LET c == job'[t].call
        IN ~F!Blocked(F!Context(c, [a \in DOMAIN c.args |-> truth[c.args[a]]], << >>))
<1>1. F!Init => FlowInv
  BY FlowStarts
<1>2. FlowInv /\ [F!Next]_(F!vars) => FlowInv'
  BY FlowKept
<1>3. FlowInv /\ [F!Next]_(F!vars) => Passes
  <2> SUFFICES ASSUME FlowInv, [F!Next]_(F!vars), NEW t \in Threads,
                      flowPc[t] = "idle", flowPc'[t] = "running", raced = {}
               PROVE  LET c == job'[t].call
                      IN ~F!Blocked(F!Context(c, [a \in DOMAIN c.args |-> truth[c.args[a]]], << >>))
    OBVIOUS
  <2>1. PICK c \in Invocations, name \in TrustNames, signals \in F!Signals :
          ~F!Blocked(ContextOf(c, name, signals)) /\ job'[t].call = c
    BY OnlyInvokeRuns
  <2> DEFINE real == [a \in DOMAIN c.args |-> truth[c.args[a]]]
             said == ArgLabels(c, name)
  <2>2. real \in [DOMAIN c.args -> F!Label] /\ said \in [DOMAIN c.args -> F!Label]
    BY ContextFits DEF FlowInv, FlowTypes, F!FlowAssumption
  <2>3. \A a \in DOMAIN c.args : F!Carries(said[a], real[a])
    BY ArgLabelCarries DEF FlowInv, F!FlowAssumption, ArgLabels
  <2> HIDE DEF real, said
  <2>4. F!Blocked(F!Context(c, real, << >>)) => F!Blocked(F!Context(c, said, signals))
    BY <2>2, <2>3 DEF F!WorseFiresToo
  <2> QED BY <2>1, <2>4 DEF ContextOf, real, said
<1> QED BY <1>1, <1>2, <1>3, PTL DEF F!Spec, NoTaintedCall, F!NoTaintedCall
-----------------------------------------------------------------------------
(* The flows rebuilt from a log.  The two walks over it are recursive      *)
(* functions: that they exist is proved up to each event in turn.          *)
LEMMA LeastOf ==
  ASSUME NEW S \in SUBSET Nat, S # {}
  PROVE  \E m \in S : \A k \in S : m <= k
<1> DEFINE less == OpToRel(<, Nat)
<1>1. PICK m \in S : \A k \in S : <<k, m>> \notin less
  <2>1. IsWellFoundedOn(less, Nat)
    BY NatLessThanWellFounded
  <2> HIDE DEF less
  <2> QED BY <2>1, WFMin, Zenon
<1>2. \A k \in S : ~(k < m)
  BY <1>1 DEF OpToRel
<1> QED BY <1>2

LEMMA UpTo ==
  ASSUME NEW n \in Nat, NEW S, 0 \in S, \A i \in 1..n : i - 1 \in S => i \in S
  PROVE  0..n \subseteq S
<1> SUFFICES ASSUME (0..n) \ S # {} PROVE FALSE
  OBVIOUS
<1>0. (0..n) \ S \in SUBSET Nat
  OBVIOUS
<1>1. PICK m \in (0..n) \ S : \A k \in (0..n) \ S : m <= k
  BY <1>0, LeastOf
<1>2. m \in 1..n /\ m - 1 \in 0..n
  BY <1>1
<1>3. m - 1 \in S
  BY <1>1, <1>2
<1> QED BY <1>1, <1>2, <1>3

(* The latest of the earlier events that returned a value. *)
LEMMA ProducerIs ==
  ASSUME NEW log, NEW d, NEW i \in Nat, F!Producers(log, d, i) # {}
  PROVE  /\ F!Producer(log, d, i) \in F!Producers(log, d, i)
         /\ F!Producer(log, d, i) \in 1..(i - 1)
         /\ log[F!Producer(log, d, i)].result = d
<1> DEFINE Made == F!Producers(log, d, i)
           Later == {i - j : j \in Made}
<1>1. Made \subseteq 1..(i - 1) /\ \A j \in Made : log[j].result = d
  BY DEF F!Producers
<1>2. Later \in SUBSET Nat /\ Later # {}
  BY <1>1
<1>3. PICK m \in Later : \A k \in Later : m <= k
  <2> HIDE DEF Later
  <2> QED BY <1>2, LeastOf
<1>4. PICK j \in Made : m = i - j
  BY <1>3
<1>5. ASSUME NEW k \in Made PROVE j >= k
  <2>1. i - k \in Later /\ j \in 1..(i - 1) /\ k \in 1..(i - 1)
    BY <1>1
  <2>2. i - j <= i - k
    BY <1>3, <1>4, <2>1
  <2> QED BY <2>1, <2>2
<1>6. F!Producer(log, d, i) = CHOOSE p \in Made : \A k \in Made : p >= k
  BY DEF F!Producer
<1>7. F!Producer(log, d, i) \in Made
  <2> HIDE DEF Made
  <2> QED BY <1>4, <1>5, <1>6
<1> QED BY <1>1, <1>7

(* An edge comes from an earlier event or from outside. *)
LEMMA EdgesGoForward ==
  ASSUME NEW log, NEW i \in Nat \ {0}, NEW e \in F!Incoming(log, i)
  PROVE  e.src \in 0..(i - 1)
<1>1. PICK a \in DOMAIN log[i].args :
        e.src = IF F!Producers(log, log[i].args[a], i) = {} THEN 0
                ELSE F!Producer(log, log[i].args[a], i)
  BY DEF F!Incoming, F!External
<1> QED BY <1>1, ProducerIs

(* What a walk says of an event, by what it says of the ones before. *)
SaysTainted(log, f, i) ==
  i # 0 /\ \E e \in F!Incoming(log, i) : e.label # "trusted" \/ f[e.src]
Feeds(log, f, i) ==
  IF i = 0 THEN {} ELSE UNION {{e.src} \cup f[e.src] : e \in F!Incoming(log, i)}

LEMMA TaintedIs ==
  ASSUME NEW log, Len(log) \in Nat, DOMAIN log = 1..Len(log)
  PROVE  \E f : /\ F!Tainted(log) = {i \in DOMAIN log : f[i]}
                /\ \A i \in 0..Len(log) : f[i] = SaysTainted(log, f, i)
<1> DEFINE Walk(n) == {f \in [0..n -> BOOLEAN] : \A i \in 0..n : f[i] = SaysTainted(log, f, i)}
           S == {n \in 0..Len(log) : Walk(n) # {}}
<1>1. 0 \in S
  <2> DEFINE f == [i \in 0..0 |-> FALSE]
  <2>1. f \in Walk(0)
    BY DEF SaysTainted
  <2> QED BY <2>1
<1>2. ASSUME NEW n \in 1..Len(log), n - 1 \in S PROVE n \in S
  <2>1. PICK f \in Walk(n - 1) : TRUE
    BY <1>2
  <2> DEFINE g == [i \in 0..n |-> IF i = n THEN SaysTainted(log, f, n) ELSE f[i]]
  <2>2. /\ f \in [0..(n - 1) -> BOOLEAN]
        /\ \A i \in 0..(n - 1) : f[i] = SaysTainted(log, f, i)
    BY <2>1
  <2>3. SaysTainted(log, f, n) \in BOOLEAN
    BY DEF SaysTainted
  <2>4. /\ g \in [0..n -> BOOLEAN] /\ g[n] = SaysTainted(log, f, n)
        /\ \A i \in 0..(n - 1) : g[i] = f[i]
    <3> HIDE DEF SaysTainted
    <3> QED BY <2>2, <2>3
  <2> HIDE DEF g
  <2>5. ASSUME NEW i \in 0..n PROVE SaysTainted(log, g, i) = SaysTainted(log, f, i)
    <3>1. CASE i = 0
      BY <3>1 DEF SaysTainted
    <3>2. CASE i # 0
      <4>1. \A e \in F!Incoming(log, i) : e.src \in 0..(n - 1)
        BY <3>2, EdgesGoForward
      <4>2. \A e \in F!Incoming(log, i) : g[e.src] = f[e.src]
        BY <2>4, <4>1
      <4> QED BY <4>2, Zenon DEF SaysTainted
    <3> QED BY <3>1, <3>2
  <2>6. \A i \in 0..n : g[i] = SaysTainted(log, g, i)
    <3> SUFFICES ASSUME NEW i \in 0..n PROVE g[i] = SaysTainted(log, g, i)
      OBVIOUS
    <3>1. SaysTainted(log, g, i) = SaysTainted(log, f, i)
      BY <2>5
    <3>2. CASE i = n
      BY <2>4, <3>1, <3>2
    <3>3. CASE i # n
      <4>1. i \in 0..(n - 1)
        BY <3>3
      <4> QED BY <2>2, <2>4, <3>1, <4>1
    <3> QED BY <3>2, <3>3
  <2>7. g \in Walk(n)
    BY <2>4, <2>6
  <2> QED BY <2>7
<1>3. Len(log) \in S
  <2> HIDE DEF S
  <2>1. 0..Len(log) \subseteq S
    BY <1>1, <1>2, UpTo
  <2> QED BY <2>1
<1>4. PICK f \in Walk(Len(log)) : TRUE
  BY <1>3
<1> DEFINE Is(g) == g = [i \in 0..Len(log) |-> SaysTainted(log, g, i)]
<1>5. Is(f)
  BY <1>4
<1>6. PICK g : g = CHOOSE h : Is(h)
  OBVIOUS
<1>7. Is(g)
  <2> HIDE DEF Is
  <2> QED BY <1>5, <1>6
<1>8. F!Tainted(log) = {i \in DOMAIN log : g[i]}
  BY <1>6, Zenon DEF F!Tainted, SaysTainted, F!External
<1>9. \A i \in 0..Len(log) : g[i] = SaysTainted(log, g, i)
  BY <1>7
<1> QED BY <1>8, <1>9

LEMMA UpstreamIs ==
  ASSUME NEW log, Len(log) \in Nat, DOMAIN log = 1..Len(log)
  PROVE  \E f : /\ \A i : F!Upstream(log, i) = f[i]
                /\ \A i \in 0..Len(log) : f[i] = Feeds(log, f, i)
<1> DEFINE Walk(n, f) == f = [i \in 0..n |-> f[i]] /\ \A i \in 0..n : f[i] = Feeds(log, f, i)
           S == {n \in 0..Len(log) : \E f : Walk(n, f)}
<1>1. 0 \in S
  <2> DEFINE f == [i \in 0..0 |-> {}]
  <2>1. Walk(0, f)
    BY DEF Feeds
  <2> QED BY <2>1
<1>2. ASSUME NEW n \in 1..Len(log), n - 1 \in S PROVE n \in S
  <2>1. PICK f : Walk(n - 1, f)
    BY <1>2
  <2> DEFINE g == [i \in 0..n |-> IF i = n THEN Feeds(log, f, n) ELSE f[i]]
  <2>2. \A i \in 0..(n - 1) : f[i] = Feeds(log, f, i)
    BY <2>1
  <2>3. g = [i \in 0..n |-> g[i]] /\ g[n] = Feeds(log, f, n) /\ \A i \in 0..(n - 1) : g[i] = f[i]
    <3> HIDE DEF Feeds
    <3> QED OBVIOUS
  <2> HIDE DEF g
  <2>4. ASSUME NEW i \in 0..n PROVE Feeds(log, g, i) = Feeds(log, f, i)
    <3>1. CASE i = 0
      BY <3>1 DEF Feeds
    <3>2. CASE i # 0
      <4>1. \A e \in F!Incoming(log, i) : e.src \in 0..(n - 1)
        BY <3>2, EdgesGoForward
      <4>2. \A e \in F!Incoming(log, i) : {e.src} \cup g[e.src] = {e.src} \cup f[e.src]
        BY <2>3, <4>1
      <4>3. {{e.src} \cup g[e.src] : e \in F!Incoming(log, i)}
              = {{e.src} \cup f[e.src] : e \in F!Incoming(log, i)}
        BY <4>2
      <4> QED BY <4>3, Zenon DEF Feeds
    <3> QED BY <3>1, <3>2
  <2>5. \A i \in 0..n : g[i] = Feeds(log, g, i)
    <3> SUFFICES ASSUME NEW i \in 0..n PROVE g[i] = Feeds(log, g, i)
      OBVIOUS
    <3>1. Feeds(log, g, i) = Feeds(log, f, i)
      BY <2>4
    <3>2. CASE i = n
      BY <2>3, <3>1, <3>2
    <3>3. CASE i # n
      <4>1. i \in 0..(n - 1)
        BY <3>3
      <4> QED BY <2>2, <2>3, <3>1, <4>1
    <3> QED BY <3>2, <3>3
  <2>6. Walk(n, g)
    BY <2>3, <2>5
  <2> QED BY <2>6
<1>3. Len(log) \in S
  <2> HIDE DEF S
  <2>1. 0..Len(log) \subseteq S
    BY <1>1, <1>2, UpTo
  <2> QED BY <2>1
<1>4. PICK f : Walk(Len(log), f)
  BY <1>3
<1> DEFINE Is(g) == g = [i \in 0..Len(log) |-> Feeds(log, g, i)]
<1>5. Is(f)
  BY <1>4
<1>6. PICK g : g = CHOOSE h : Is(h)
  OBVIOUS
<1>7. Is(g)
  <2> HIDE DEF Is
  <2> QED BY <1>5, <1>6
<1>8. \A i : F!Upstream(log, i) = g[i]
  BY <1>6, Zenon DEF F!Upstream, Feeds, F!External
<1>9. \A i \in 0..Len(log) : g[i] = Feeds(log, g, i)
  BY <1>7
<1> QED BY <1>8, <1>9

(* What untrusted data an event consumed, its arguments show: a label, or  *)
(* the result of one of the first n events that consumed such data, too.   *)
Shows(log, consumed, args, provenance, n) ==
  \E a \in DOMAIN args :
    \/ provenance[a] # "trusted"
    \/ \E k \in 1..n : log[k].result = args[a] /\ consumed[k]

LEMMA ConsumedFound ==
  ASSUME F!FlowAssumption, NEW log \in Seq(Events), NEW consumed,
         \A i, j \in DOMAIN log : log[i].result = log[j].result /\ log[i].result # Nothing => i = j,
         \A i \in DOMAIN log :
           consumed[i] => Shows(log, consumed, log[i].args, log[i].provenance, i - 1)
  PROVE  \A i \in DOMAIN log : consumed[i] => i \in F!Tainted(log) /\ F!Upstream(log, i) # {}
<1>1. Len(log) \in Nat /\ DOMAIN log = 1..Len(log) /\ \A i \in 1..Len(log) : log[i] \in Events
  <2> HIDE DEF Events
  <2> QED OBVIOUS
<1>2. ASSUME NEW i \in DOMAIN log, NEW a \in DOMAIN log[i].args PROVE log[i].args[a] # Nothing
  <2>1. PICK c \in Invocations : log[i].args = c.args
    BY <1>1 DEF Events
  <2> QED BY <2>1 DEF F!FlowAssumption
<1>3. ASSUME NEW i \in DOMAIN log, consumed[i]
      PROVE  \E e \in F!Incoming(log, i) :
               e.label # "trusted" \/ (e.src \in 1..(i - 1) /\ consumed[e.src])
  <2> DEFINE edge(a) ==
        [src |-> IF F!Producers(log, log[i].args[a], i) = {} THEN F!External
                 ELSE F!Producer(log, log[i].args[a], i),
         arg |-> a, label |-> log[i].provenance[a]]
  <2>1. PICK a \in DOMAIN log[i].args :
          \/ log[i].provenance[a] # "trusted"
          \/ \E k \in 1..(i - 1) : log[k].result = log[i].args[a] /\ consumed[k]
    BY <1>3 DEF Shows
  <2>2. F!Producers(log, log[i].args[a], i) # {} \/ log[i].provenance[a] # "trusted"
          => edge(a) \in F!Incoming(log, i)
    BY DEF F!Incoming
  <2>3. CASE log[i].provenance[a] # "trusted"
    BY <2>2, <2>3
  <2>4. CASE log[i].provenance[a] = "trusted"
    <3>1. PICK k \in 1..(i - 1) : log[k].result = log[i].args[a] /\ consumed[k]
      BY <2>1, <2>4
    <3>2. k \in F!Producers(log, log[i].args[a], i)
      BY <3>1 DEF F!Producers
    <3>3. i \in Nat
      BY <1>1
    <3>4. /\ F!Producer(log, log[i].args[a], i) \in 1..(i - 1)
          /\ log[F!Producer(log, log[i].args[a], i)].result = log[i].args[a]
      BY <3>2, <3>3, ProducerIs
    <3>5. F!Producer(log, log[i].args[a], i) \in DOMAIN log /\ k \in DOMAIN log
      BY <1>1, <3>1, <3>4
    <3>6. F!Producer(log, log[i].args[a], i) = k
      BY <1>2, <3>1, <3>4, <3>5
    <3>7. edge(a).src = k
      BY <3>2, <3>6
    <3> HIDE DEF edge
    <3> QED BY <2>2, <3>1, <3>2, <3>7
  <2> QED BY <2>3, <2>4
<1>4. \A i \in DOMAIN log : consumed[i] => i \in F!Tainted(log)
  <2>1. PICK f : /\ F!Tainted(log) = {i \in DOMAIN log : f[i]}
                 /\ \A i \in 0..Len(log) : f[i] = SaysTainted(log, f, i)
    BY <1>1, TaintedIs
  <2> DEFINE Missed == {i \in DOMAIN log : consumed[i] /\ ~f[i]}
  <2> SUFFICES ASSUME Missed # {} PROVE FALSE
    BY <2>1
  <2>2. Missed \in SUBSET Nat
    BY <1>1
  <2>3. PICK m \in Missed : \A k \in Missed : m <= k
    <3> HIDE DEF Missed
    <3> QED BY <2>2, LeastOf
  <2>4. PICK e \in F!Incoming(log, m) :
          e.label # "trusted" \/ (e.src \in 1..(m - 1) /\ consumed[e.src])
    BY <1>3, <2>3
  <2>5. e.label # "trusted" \/ f[e.src]
    <3>1. e.src \in 1..(m - 1) => e.src \in DOMAIN log /\ ~(m <= e.src)
      BY <1>1, <2>3
    <3> QED BY <2>3, <2>4, <3>1
  <2>6. m \in 0..Len(log) /\ m # 0
    BY <1>1, <2>3
  <2>7. SaysTainted(log, f, m)
    BY <2>5, <2>6 DEF SaysTainted
  <2> QED BY <2>1, <2>3, <2>6, <2>7
<1>5. \A i \in DOMAIN log : consumed[i] => F!Upstream(log, i) # {}
  <2>1. PICK f : /\ \A i : F!Upstream(log, i) = f[i]
                 /\ \A i \in 0..Len(log) : f[i] = Feeds(log, f, i)
    BY <1>1, UpstreamIs
  <2> SUFFICES ASSUME NEW i \in DOMAIN log, consumed[i] PROVE f[i] # {}
    BY <2>1
  <2>2. PICK e \in F!Incoming(log, i) : TRUE
    BY <1>3
  <2>3. i \in 0..Len(log) /\ i # 0
    BY <1>1
  <2>4. f[i] = UNION {{x.src} \cup f[x.src] : x \in F!Incoming(log, i)}
    BY <2>1, <2>3 DEF Feeds
  <2>5. e.src \in f[i]
    BY <2>2, <2>4
  <2> QED BY <2>5
<1> QED BY <1>4, <1>5

(* What makes the log tell: a value made from untrusted data is one by its *)
(* labels, or an event that consumed such data returned it; an event that  *)
(* did shows it, and so will a call under way; and what flowed into the    *)
(* result of a call carries the label of its tool.                         *)
DirtIsKnown ==
  \A v \in dirty :
    F!IsUntrusted(truth[v]) \/ \E k \in DOMAIN audit : audit[k].result = v /\ took[k]

EventsShow ==
  \A i \in DOMAIN audit :
    took[i] => Shows(audit, took, audit[i].args, audit[i].provenance, i - 1)

JobShows(p, j) ==
  j.call # Nothing =>
    /\ j.bad => Shows(audit, took, j.call.args, j.prov, Len(audit))
    /\ p \in {"observe", "store", "emit"} => F!Carries(j.real, FlowTools[j.call.tool].label)

JobsShow == \A t \in Threads : JobShows(flowPc[t], job[t])

TraceInv == DirtIsKnown /\ EventsShow /\ JobsShow

LEMMA TraceStarts ==
  ASSUME F!FlowAssumption, F!Init
  PROVE  TraceInv
<1>1. /\ job = [t \in Threads |-> F!NoJob] /\ audit = << >> /\ dirty = {}
  BY DEF F!Init
<1> QED BY <1>1, NoJobType DEF TraceInv, DirtIsKnown, EventsShow, JobsShow, JobShows

(* Untrusted is what carries something untrusted.                          *)
LEMMA UntrustedCarried ==
  ASSUME NEW a \in F!Label, NEW b \in F!Label, F!Carries(a, b), F!IsUntrusted(b)
  PROVE  F!IsUntrusted(a)
BY CarriesMeans DEF F!IsUntrusted, F!Label, F!Web, F!Trusted, F!Public, F!Secret

(* Where nothing is logged, what a thread does next decides.               *)
LEMMA NothingLogged ==
  ASSUME F!FlowAssumption, FlowInv, TraceInv, NEW t \in Threads, NEW p, NEW j, F!Goto(t, p, j),
         UNCHANGED <<audit, took>>, JobShows(p, j), DirtIsKnown'
  PROVE  TraceInv'
<1>1. /\ flowPc' = [flowPc EXCEPT ![t] = p] /\ job' = [job EXCEPT ![t] = j]
      /\ flowPc \in [Threads -> {"idle", "running", "observe", "store", "emit"}]
      /\ job \in [Threads -> Jobs]
  BY DEF F!Goto, FlowInv, FlowTypes
<1>2. EventsShow'
  BY DEF TraceInv, EventsShow, Shows
<1>3. \A u \in Threads : flowPc'[u] = (IF u = t THEN p ELSE flowPc[u]) /\ job'[u] = (IF u = t THEN j ELSE job[u])
  BY <1>1
<1>4. JobsShow'
  <2> SUFFICES ASSUME NEW u \in Threads PROVE JobShows(flowPc[u], job[u])'
    BY DEF JobsShow
  <2>1. JobShows(flowPc'[u], job'[u])
    BY <1>3 DEF TraceInv, JobsShow
  <2> QED BY <2>1 DEF JobShows, Shows
<1> QED BY <1>2, <1>4 DEF TraceInv

LEMMA NoCallShows == ASSUME NEW p, NEW j, j.call = Nothing PROVE JobShows(p, j)
BY DEF JobShows

(* Steps on the way of a call and outside of one, which log nothing.       *)
LEMMA QuietStepsKeepTrace ==
  ASSUME F!FlowAssumption, FlowInv, TraceInv, NEW t \in Threads,
         \/ F!Observe(t)
         \/ \E x \in Tags : F!Tag(t, x)
         \/ \E k \in Keys, v \in Contents, label \in MemoryLabels : F!Write(t, k, v, label)
         \/ \E v \in Contents, label \in MemoryLabels : F!AppendTo(t, v, label)
         \/ \E k \in Keys : F!Read(t, k)
         \/ F!Recall(t)
         \/ \E hits : F!Search(t, hits)
  PROVE  TraceInv'
<1>1. DirtIsKnown
  BY DEF TraceInv
<1>2. CASE F!Observe(t)
  <2> DEFINE j == [job[t] EXCEPT !.got = labels[job[t].todo[1].value]]
  <2>1. /\ flowPc[t] = "observe" /\ F!Goto(t, "store", j) /\ UNCHANGED <<audit, took, dirty, truth>>
    BY <1>2 DEF F!Observe, F!ghosts
  <2>2. job[t] \in Jobs /\ JobShows("observe", job[t])
    BY <2>1 DEF FlowInv, FlowTypes, TraceInv, JobsShow
  <2>3. j.call = job[t].call /\ j.bad = job[t].bad /\ j.prov = job[t].prov /\ j.real = job[t].real
    BY <2>2 DEF Jobs
  <2> HIDE DEF j
  <2>4. JobShows("store", j)
    BY <2>2, <2>3 DEF JobShows
  <2>5. DirtIsKnown'
    BY <1>1, <2>1 DEF DirtIsKnown
  <2> QED BY <2>1, <2>4, <2>5, NothingLogged
<1>3. ASSUME NEW todo, NEW bad, F!Goto(t, "observe", [F!NoJob EXCEPT !.todo = todo, !.bad = bad]),
             UNCHANGED <<audit, took, dirty, truth>>
      PROVE  TraceInv'
  <2>1. [F!NoJob EXCEPT !.todo = todo, !.bad = bad].call = Nothing
    BY DEF F!NoJob
  <2>2. DirtIsKnown'
    BY <1>1, <1>3 DEF DirtIsKnown
  <2> QED BY <1>3, <2>1, <2>2, NoCallShows, NothingLogged
<1>4. ASSUME NEW todo, F!Goto(t, "observe", [F!NoJob EXCEPT !.todo = todo]),
             UNCHANGED <<audit, took, dirty, truth>>
      PROVE  TraceInv'
  <2>1. [F!NoJob EXCEPT !.todo = todo].call = Nothing
    BY DEF F!NoJob
  <2>2. DirtIsKnown'
    BY <1>1, <1>4 DEF DirtIsKnown
  <2> QED BY <1>4, <2>1, <2>2, NoCallShows, NothingLogged
<1>5. CASE \E x \in Tags : F!Tag(t, x)
  BY <1>3, <1>5, Zenon DEF F!Tag, F!ghosts
<1>6. CASE \E k \in Keys, v \in Contents, label \in MemoryLabels : F!Write(t, k, v, label)
  BY <1>4, <1>6 DEF F!Write, F!ghosts
<1>7. CASE \E v \in Contents, label \in MemoryLabels : F!AppendTo(t, v, label)
  BY <1>4, <1>7 DEF F!AppendTo, F!ghosts
<1>8. CASE F!Recall(t) \/ \E k \in Keys : F!Read(t, k)
  BY <1>4, <1>8 DEF F!Read, F!Recall, F!ghosts
<1>9. CASE \E hits : F!Search(t, hits)
  BY <1>4, <1>9 DEF F!Search, F!ghosts
<1> QED BY <1>2, <1>5, <1>6, <1>7, <1>8, <1>9

LEMMA StoreKeepsTrace ==
  ASSUME F!FlowAssumption, FlowInv, TraceInv, NEW t \in Threads, F!Store(t)
  PROVE  TraceInv'
<1> DEFINE v == job[t].todo[1].value
           label == job[t].todo[1].label
           j == [job[t] EXCEPT !.todo = Tail(@), !.got = Nothing]
<1>1. /\ flowPc[t] = "store" /\ F!Continue(t, j) /\ UNCHANGED <<audit, took>>
      /\ \/ /\ truth' = [truth EXCEPT ![v] = F!Combine(truth[v], label)]
            /\ dirty' = IF F!IsUntrusted(label) THEN dirty \cup {v} ELSE dirty
         \/ truth' = truth /\ dirty' = dirty
  BY DEF F!Store
<1>2. job[t] \in Jobs /\ JobFits("store", job[t]) /\ job[t].todo # << >> /\ JobShows("store", job[t])
  BY <1>1 DEF FlowInv, FlowTypes, JobsFit, JobFits, TraceInv, JobsShow
<1>3. v \in Contents /\ label \in F!Label
  BY <1>2, TodoItem
<1>4. /\ j \in Jobs /\ j.call = job[t].call /\ j.real = job[t].real /\ j.bad = job[t].bad
      /\ j.prov = job[t].prov
      /\ j.call # Nothing => /\ j.prov \in ProvenanceOf(j.call) /\ j.result # Nothing
                             /\ j.todo = << >>
  BY <1>2, NextItem
<1> HIDE DEF j, label, v
<1>5. F!Goto(t, Place(j), LeftOf(j)) /\ (Place(j) # "idle" => LeftOf(j) = j)
  BY <1>1, <1>4, ContinueGoes
<1>6. JobShows(Place(j), LeftOf(j))
  <2>1. CASE Place(j) = "idle"
    <3>1. LeftOf(j).call = Nothing
      BY <2>1, NoJobType DEF Place, LeftOf
    <3> QED BY <3>1, NoCallShows
  <2>2. CASE Place(j) # "idle"
    <3>1. JobShows("store", j) => JobShows(Place(j), j)
      BY DEF JobShows
    <3>2. JobShows("store", j)
      BY <1>2, <1>4 DEF JobShows
    <3> QED BY <1>5, <2>2, <3>1, <3>2
  <2> QED BY <2>1, <2>2
<1>7. DirtIsKnown'
  <2>1. truth \in [Contents -> F!Label] /\ dirty \subseteq Contents
    BY DEF FlowInv, FlowTypes
  <2>2. CASE truth' = truth /\ dirty' = dirty
    BY <1>1, <2>2 DEF TraceInv, DirtIsKnown
  <2>3. CASE /\ truth' = [truth EXCEPT ![v] = F!Combine(truth[v], label)]
             /\ dirty' = IF F!IsUntrusted(label) THEN dirty \cup {v} ELSE dirty
    <3>1. /\ F!Combine(truth[v], label) \in F!Label /\ F!Carries(F!Combine(truth[v], label), truth[v])
          /\ F!Carries(F!Combine(truth[v], label), label)
      BY <1>3, <2>1, CombineJoins
    <3>2. /\ F!IsUntrusted(truth[v]) => F!IsUntrusted(truth'[v])
          /\ F!IsUntrusted(label) => F!IsUntrusted(truth'[v])
      BY <1>3, <2>1, <2>3, <3>1, UntrustedCarried
    <3>3. \A w \in Contents : w # v => truth'[w] = truth[w]
      BY <2>1, <2>3
    <3>4. \A w \in dirty' : w \in dirty \/ (w = v /\ F!IsUntrusted(label))
      BY <2>3
    <3> SUFFICES ASSUME NEW w \in dirty'
                 PROVE  F!IsUntrusted(truth'[w]) \/ \E k \in DOMAIN audit : audit[k].result = w /\ took[k]
      BY <1>1 DEF DirtIsKnown, F!IsUntrusted
    <3> QED BY <2>1, <3>2, <3>3, <3>4 DEF TraceInv, DirtIsKnown
  <2> QED BY <1>1, <2>2, <2>3
<1> QED BY <1>1, <1>5, <1>6, <1>7, NothingLogged

LEMMA ReturnKeepsTrace ==
  ASSUME F!FlowAssumption, FlowInv, TraceInv, NEW t \in Threads, NEW r \in Contents, F!Return(t, r)
  PROVE  TraceInv'
<1> DEFINE c == job[t].call
           source == FlowTools[c.tool].label
           truths == F!CombineAll({truth[v] : v \in F!ArgValues(c)})
           out == F!Combine(F!CombineAll({F!LabelFor(v) : v \in F!ArgValues(c)}), source)
           todo == IF out = F!Plain THEN << >> ELSE <<F!Item(r, out)>>
           j == [job[t] EXCEPT !.result = r, !.real = F!Combine(truths, source), !.todo = todo]
<1>1. /\ flowPc[t] = "running" /\ F!Continue(t, j) /\ UNCHANGED <<audit, took, dirty, truth>>
  BY DEF F!Return, F!ghosts
<1>2. job[t] \in Jobs /\ JobFits("running", job[t]) /\ c \in Invocations /\ JobShows("running", job[t])
  BY <1>1 DEF FlowInv, FlowTypes, JobsFit, JobFits, Jobs, TraceInv, JobsShow
<1>3. /\ source \in F!Label /\ {truth[v] : v \in F!ArgValues(c)} \subseteq F!Label
  BY <1>2 DEF F!FlowAssumption, F!ArgValues, FlowInv, FlowTypes
<1>4. F!Carries(F!Combine(truths, source), source)
  BY <1>3, CombineAllJoins, CombineJoins
<1> HIDE DEF todo, truths
<1>5. /\ j.call = c /\ j.bad = job[t].bad /\ j.prov = job[t].prov
      /\ j.real = F!Combine(truths, source)
  BY <1>2 DEF Jobs
<1>6. \A p : JobShows(p, j)
  BY <1>2, <1>4, <1>5 DEF JobShows
<1>7. DirtIsKnown'
  BY <1>1 DEF TraceInv, DirtIsKnown
<1> HIDE DEF j
<1>8. c # Nothing
  BY <1>2 DEF F!FlowAssumption
<1>9. \E p : F!Goto(t, p, j)
  BY <1>1, <1>5, <1>8 DEF F!Continue
<1> QED BY <1>1, <1>6, <1>7, <1>9, NothingLogged

(* A call that takes untrusted data shows it in its arguments.             *)
LEMMA DirtShows ==
  ASSUME F!FlowAssumption, FlowInv, TraceInv, raced = {}, NEW c \in Invocations, NEW name, NEW signals,
         TakesDirt(c, name)
  PROVE  Shows(audit, took, c.args, ContextOf(c, name, signals).provenance, Len(audit))
<1> DEFINE prov == ContextOf(c, name, signals).provenance
<1>1. \A a \in DOMAIN c.args :
        /\ c.args[a] \in Contents /\ F!ArgLabel(c.args[a], name) \in F!Label
        /\ F!Carries(F!ArgLabel(c.args[a], name), truth[c.args[a]]) /\ truth[c.args[a]] \in F!Label
        /\ prov[a] = F!Name(F!ArgLabel(c.args[a], name))
  <2>1. \A a \in DOMAIN c.args : prov[a] = F!Name(F!ArgLabel(c.args[a], name))
    <3>1. prov = [a \in DOMAIN c.args |-> F!Name(ArgLabels(c, name)[a])]
      BY ContextFits DEF FlowInv
    <3>2. \A a \in DOMAIN c.args : ArgLabels(c, name)[a] = F!ArgLabel(c.args[a], name)
      BY DEF ArgLabels
    <3> HIDE DEF prov
    <3> QED BY <3>1, <3>2
  <2> HIDE DEF prov
  <2> QED BY <2>1, ArgLabelCarries DEF F!FlowAssumption, FlowInv, FlowTypes
<1> HIDE DEF prov
<1>2. \A l \in F!Label : F!IsUntrusted(l) => F!Name(l) # "trusted"
  BY DEF F!IsUntrusted, F!Name, F!Label, F!Web, F!ToolOutput, F!Trusted, F!Public, F!Secret
<1>3. CASE F!ArgValues(c) \cap dirty # {}
  <2>1. PICK a \in DOMAIN c.args : c.args[a] \in dirty
    BY <1>3 DEF F!ArgValues
  <2>2. CASE F!IsUntrusted(truth[c.args[a]])
    <3>1. prov[a] # "trusted"
      BY <1>1, <1>2, <2>2, UntrustedCarried
    <3> QED BY <3>1 DEF Shows, prov
  <2>3. CASE \E k \in DOMAIN audit : audit[k].result = c.args[a] /\ took[k]
    <3>1. \E k \in 1..Len(audit) : audit[k].result = c.args[a] /\ took[k]
      <4>1. audit \in Seq(Events)
        BY DEF FlowInv, FlowTypes
      <4>2. DOMAIN audit = 1..Len(audit)
        <5> HIDE DEF Events
        <5> QED BY <4>1
      <4> QED BY <2>3, <4>2
    <3> QED BY <3>1 DEF Shows
  <2> QED BY <2>1, <2>2, <2>3 DEF TraceInv, DirtIsKnown
<1>4. CASE F!ArgValues(c) # {} /\ F!IsUntrusted(F!FromName(name))
  <2>1. PICK a \in DOMAIN c.args : TRUE
    BY <1>4 DEF F!ArgValues
  <2>2. name # "none"
    BY <1>4 DEF F!FromName, F!IsUntrusted, F!Plain, F!Trusted
  <2>3. F!Carries(F!ArgLabel(c.args[a], name), F!FromName(name))
    BY <1>1, <2>2, LabelForType, FromNameLabel, CombineJoins DEF F!ArgLabel, FlowInv
  <2>4. prov[a] # "trusted"
    BY <1>1, <1>2, <1>4, <2>3, FromNameLabel, UntrustedCarried
  <2> QED BY <2>4 DEF Shows, prov
<1> QED BY <1>3, <1>4 DEF TakesDirt

(* One more event: what was shown still is, and so is what it took.        *)
LEMMA EventLogged ==
  ASSUME FlowInv, TraceInv, NEW e \in Events, NEW b \in BOOLEAN,
         audit' = Append(audit, e), took' = Append(took, b),
         b => Shows(audit, took, e.args, e.provenance, Len(audit))
  PROVE  /\ EventsShow'
         /\ \A p, j : JobShows(p, j) => JobShows(p, j)'
         /\ \A v : (\E k \in DOMAIN audit : audit[k].result = v /\ took[k])
                    => \E k \in DOMAIN audit' : audit'[k].result = v /\ took'[k]
         /\ b => \E k \in DOMAIN audit' : audit'[k].result = e.result /\ took'[k]
<1>1. PICK n \in Nat : n = Len(audit)
  BY DEF FlowInv, FlowTypes
<1>2. /\ DOMAIN audit = 1..n /\ Len(audit') = n + 1 /\ DOMAIN audit' = 1..(n + 1)
      /\ \A k \in 1..n : audit'[k] = audit[k] /\ took'[k] = took[k]
      /\ audit'[n + 1] = e /\ took'[n + 1] = b
  <2>1. audit \in Seq(Events) /\ took \in Seq(BOOLEAN) /\ Len(took) = n
    BY <1>1 DEF FlowInv, FlowTypes
  <2> HIDE DEF Events
  <2> QED BY <1>1, <2>1
<1>3. ASSUME NEW args, NEW prov, NEW m \in 0..n, Shows(audit, took, args, prov, m)
      PROVE  Shows(audit', took', args, prov, m) /\ Shows(audit', took', args, prov, n + 1)
  <2>1. 1..m \subseteq 1..n /\ 1..n \subseteq 1..(n + 1)
    OBVIOUS
  <2>2. PICK a \in DOMAIN args :
          prov[a] # "trusted" \/ \E k \in 1..m : audit[k].result = args[a] /\ took[k]
    BY <1>3 DEF Shows
  <2>3. CASE prov[a] # "trusted"
    BY <2>3 DEF Shows
  <2>4. CASE \E k \in 1..m : audit[k].result = args[a] /\ took[k]
    <3>1. PICK k \in 1..m : audit[k].result = args[a] /\ took[k]
      BY <2>4
    <3>2. k \in 1..n /\ k \in 1..(n + 1) /\ audit'[k].result = args[a] /\ took'[k]
      BY <1>2, <2>1, <3>1
    <3> QED BY <3>1, <3>2 DEF Shows
  <2> QED BY <2>2, <2>3, <2>4
<1>4. EventsShow'
  <2> SUFFICES ASSUME NEW i \in DOMAIN audit', took'[i]
               PROVE  Shows(audit', took', audit'[i].args, audit'[i].provenance, i - 1)
    BY DEF EventsShow
  <2>1. CASE i = n + 1
    <3>1. Shows(audit, took, e.args, e.provenance, n)
      BY <1>1, <1>2, <2>1
    <3> QED BY <1>2, <1>3, <2>1, <3>1
  <2>2. CASE i # n + 1
    <3>1. i \in 1..n /\ i - 1 \in 0..n /\ audit'[i] = audit[i]
      BY <1>2, <2>2
    <3>3. took[i]
      BY <1>2, <3>1, Zenon
    <3>2. Shows(audit, took, audit[i].args, audit[i].provenance, i - 1)
      BY <1>2, <3>1, <3>3 DEF TraceInv, EventsShow
    <3> QED BY <1>3, <3>1, <3>2
  <2> QED BY <2>1, <2>2
<1>5. ASSUME NEW p, NEW j, JobShows(p, j) PROVE JobShows(p, j)'
  <2>1. Shows(audit, took, j.call.args, j.prov, n) => Shows(audit', took', j.call.args, j.prov, n + 1)
    BY <1>3
  <2> QED BY <1>1, <1>2, <1>5, <2>1 DEF JobShows
<1>6. /\ \A v : (\E k \in DOMAIN audit : audit[k].result = v /\ took[k])
                 => \E k \in DOMAIN audit' : audit'[k].result = v /\ took'[k]
      /\ b => \E k \in DOMAIN audit' : audit'[k].result = e.result /\ took'[k]
  <2>1. n + 1 \in 1..(n + 1) /\ 1..n \subseteq 1..(n + 1)
    OBVIOUS
  <2> QED BY <1>2, <2>1, Zenon
<1> QED BY <1>4, <1>5, <1>6

LEMMA InvokeKeepsTrace ==
  ASSUME F!FlowAssumption, FlowInv, TraceInv, raced = {}, NEW t \in Threads, NEW c \in Invocations,
         NEW name, NEW signals, F!Invoke(t, c, name, signals)
  PROVE  TraceInv'
<1> DEFINE prov == ContextOf(c, name, signals).provenance
           j == [F!NoJob EXCEPT !.call = c, !.prov = prov, !.bad = TakesDirt(c, name)]
           e == [tool |-> c.tool, args |-> c.args, provenance |-> prov, result |-> Nothing]
<1>1. /\ UNCHANGED <<truth, dirty>>
      /\ \/ /\ audit' = Append(audit, e) /\ took' = Append(took, TakesDirt(c, name))
            /\ UNCHANGED <<flowPc, job>>
         \/ /\ F!Goto(t, "running", j)
            /\ UNCHANGED <<audit, took>>
  BY Zenon DEF F!Invoke, TakesDirt, ContextOf, ArgLabels
<1>2. prov \in ProvenanceOf(c) /\ TakesDirt(c, name) \in BOOLEAN
  BY ContextFits DEF FlowInv, TakesDirt
<1>3. TakesDirt(c, name) => Shows(audit, took, c.args, prov, Len(audit))
  BY DirtShows
<1> HIDE DEF prov
<1>4. CASE F!Goto(t, "running", j) /\ UNCHANGED <<audit, took>>
  <2>1. j.call = c /\ j.bad = TakesDirt(c, name) /\ j.prov = prov
    BY DEF F!NoJob
  <2> HIDE DEF j
  <2>2. JobShows("running", j)
    BY <1>3, <2>1 DEF JobShows
  <2>3. DirtIsKnown'
    BY <1>1, <1>4 DEF TraceInv, DirtIsKnown
  <2> QED BY <1>4, <2>2, <2>3, NothingLogged
<1>5. CASE /\ audit' = Append(audit, e) /\ took' = Append(took, TakesDirt(c, name))
           /\ UNCHANGED <<flowPc, job>>
  <2>1. e \in Events /\ e.args = c.args /\ e.provenance = prov
    BY <1>2, EventType
  <2> HIDE DEF e
  <2>2. /\ EventsShow'
        /\ \A p, k : JobShows(p, k) => JobShows(p, k)'
        /\ \A v : (\E k \in DOMAIN audit : audit[k].result = v /\ took[k])
                   => \E k \in DOMAIN audit' : audit'[k].result = v /\ took'[k]
    BY <1>2, <1>3, <1>5, <2>1, EventLogged
  <2>3. JobsShow'
    BY <1>5, <2>2 DEF TraceInv, JobsShow
  <2>4. DirtIsKnown'
    BY <1>1, <2>2 DEF TraceInv, DirtIsKnown
  <2> QED BY <2>2, <2>3, <2>4 DEF TraceInv
<1> QED BY <1>1, <1>4, <1>5

LEMMA EmitKeepsTrace ==
  ASSUME F!FlowAssumption, FlowInv, TraceInv, NEW t \in Threads, F!Emit(t)
  PROVE  TraceInv'
<1> DEFINE j == job[t]
           e == [tool |-> j.call.tool, args |-> j.call.args, provenance |-> j.prov, result |-> j.result]
<1>1. /\ flowPc[t] = "emit" /\ audit' = Append(audit, e) /\ took' = Append(took, j.bad)
      /\ truth' = [truth EXCEPT ![j.result] = F!Combine(truth[j.result], j.real)]
      /\ dirty' = IF j.bad \/ F!IsUntrusted(FlowTools[j.call.tool].label) THEN dirty \cup {j.result}
                  ELSE dirty
      /\ flowPc' = [flowPc EXCEPT ![t] = "idle"] /\ job' = [job EXCEPT ![t] = F!NoJob]
  BY DEF F!Emit, F!Leave, F!Goto
<1>2. j \in Jobs /\ JobFits("emit", j) /\ JobShows("emit", j)
  BY <1>1 DEF FlowInv, FlowTypes, JobsFit, TraceInv, JobsShow
<1>3. /\ j.call \in Invocations /\ j.call # Nothing /\ j.result \in Contents /\ j.real \in F!Label
      /\ j.prov \in ProvenanceOf(j.call) /\ j.bad \in BOOLEAN
  BY <1>2 DEF JobFits, Jobs
<1>4. /\ j.bad => Shows(audit, took, j.call.args, j.prov, Len(audit))
      /\ F!Carries(j.real, FlowTools[j.call.tool].label) /\ FlowTools[j.call.tool].label \in F!Label
  BY <1>2, <1>3 DEF JobShows, F!FlowAssumption
<1>5. e \in Events /\ e.args = j.call.args /\ e.provenance = j.prov /\ e.result = j.result
  BY <1>3, EventType
<1>6. \A u \in Threads : flowPc'[u] = (IF u = t THEN "idle" ELSE flowPc[u])
                         /\ job'[u] = (IF u = t THEN F!NoJob ELSE job[u])
  BY <1>1 DEF FlowInv, FlowTypes
<1> HIDE DEF j, e
<1>7. /\ EventsShow'
      /\ \A p, k : JobShows(p, k) => JobShows(p, k)'
      /\ \A v : (\E k \in DOMAIN audit : audit[k].result = v /\ took[k])
                 => \E k \in DOMAIN audit' : audit'[k].result = v /\ took'[k]
      /\ j.bad => \E k \in DOMAIN audit' : audit'[k].result = e.result /\ took'[k]
  BY <1>1, <1>3, <1>4, <1>5, EventLogged
<1>8. JobsShow'
  <2> SUFFICES ASSUME NEW u \in Threads PROVE JobShows(flowPc[u], job[u])'
    BY DEF JobsShow
  <2>1. CASE u = t
    <3>1. job'[u].call = Nothing
      BY <1>6, <2>1, NoJobType
    <3> QED BY <3>1 DEF JobShows
  <2>2. CASE u # t
    <3>1. JobShows(flowPc[u], job[u])
      BY DEF TraceInv, JobsShow
    <3>2. PICK p, k : p = flowPc[u] /\ k = job[u]
      OBVIOUS
    <3>3. JobShows(p, k)'
      BY <1>7, <3>1, <3>2
    <3>4. flowPc'[u] = p /\ job'[u] = k
      BY <1>6, <2>2, <3>2
    <3> QED BY <3>3, <3>4 DEF JobShows
  <2> QED BY <2>1, <2>2
<1>9. DirtIsKnown'
  <2>1. truth \in [Contents -> F!Label] /\ dirty \subseteq Contents
    BY DEF FlowInv, FlowTypes
  <2>2. /\ F!Combine(truth[j.result], j.real) \in F!Label
        /\ F!Carries(F!Combine(truth[j.result], j.real), truth[j.result])
        /\ F!Carries(F!Combine(truth[j.result], j.real), j.real)
    BY <1>3, <2>1, CombineJoins
  <2>3. /\ F!IsUntrusted(truth[j.result]) => F!IsUntrusted(truth'[j.result])
        /\ F!IsUntrusted(j.real) => F!IsUntrusted(truth'[j.result])
    BY <1>1, <1>3, <2>1, <2>2, UntrustedCarried
  <2>4. F!IsUntrusted(FlowTools[j.call.tool].label) => F!IsUntrusted(truth'[j.result])
    BY <1>3, <1>4, <2>3, UntrustedCarried
  <2>5. \A w \in Contents : w # j.result => truth'[w] = truth[w]
    BY <1>1, <2>1
  <2> SUFFICES ASSUME NEW w \in dirty'
               PROVE  F!IsUntrusted(truth'[w]) \/ \E k \in DOMAIN audit' : audit'[k].result = w /\ took'[k]
    BY DEF DirtIsKnown, F!IsUntrusted
  <2>6. w \in dirty \/ (w = j.result /\ (j.bad \/ F!IsUntrusted(FlowTools[j.call.tool].label)))
    BY <1>1
  <2>7. CASE w \in dirty
    <3>1. F!IsUntrusted(truth[w]) \/ \E k \in DOMAIN audit : audit[k].result = w /\ took[k]
      BY <2>7 DEF TraceInv, DirtIsKnown
    <3> QED BY <1>7, <2>1, <2>3, <2>5, <2>7, <3>1
  <2>8. CASE w = j.result /\ j.bad
    BY <1>5, <1>7, <2>8
  <2>9. CASE w = j.result /\ F!IsUntrusted(FlowTools[j.call.tool].label)
    BY <2>4, <2>9
  <2> QED BY <2>6, <2>7, <2>8, <2>9
<1> QED BY <1>7, <1>8, <1>9 DEF TraceInv

LEMMA TraceKept ==
  ASSUME F!FlowAssumption, FlowInv, raced = {} => TraceInv, [F!Next]_(F!vars)
  PROVE  raced' = {} => TraceInv'
<1> SUFFICES ASSUME raced' = {} PROVE TraceInv'
  OBVIOUS
<1>1. CASE UNCHANGED F!vars
  <2>1. UNCHANGED <<flowPc, job, audit, raced, truth, dirty, took>>
    BY <1>1 DEF F!vars, F!ghosts
  <2> QED BY <2>1 DEF TraceInv, DirtIsKnown, EventsShow, JobsShow, JobShows, Shows
<1>2. ASSUME NEW t \in Threads, F!Step(t) PROVE TraceInv'
  <2>1. raced = {} \/ F!Store(t)
    BY <1>2, Zenon DEF F!Step, F!Observe, F!Emit, F!Return, F!ghosts
  <2>2. F!Store(t) => raced \subseteq raced'
    BY DEF F!Store
  <2>3. TraceInv
    BY <2>1, <2>2
  <2> QED BY <1>2, <2>3, QuietStepsKeepTrace, StoreKeepsTrace, EmitKeepsTrace, ReturnKeepsTrace DEF F!Step
<1>3. ASSUME NEW t \in Threads, F!Start(t) PROVE TraceInv'
  <2>1. /\ \A x \in Tags : F!Tag(t, x) => raced' = raced
        /\ \A c \in Invocations, name \in TrustNames, signals \in F!Signals :
             F!Invoke(t, c, name, signals) => raced' = raced
        /\ \A v \in Contents, label \in MemoryLabels : F!AppendTo(t, v, label) => raced' = raced
        /\ \A k \in Keys, v \in Contents, label \in MemoryLabels : F!Write(t, k, v, label) => raced' = raced
        /\ \A k \in Keys : F!Read(t, k) => raced' = raced
        /\ F!Recall(t) => raced' = raced
        /\ \A v \in Contents : F!Search(t, {v}) => raced' = raced
    <3>1. \A x \in Tags : F!Tag(t, x) => raced' = raced
      BY DEF F!Tag, F!ghosts
    <3>2. \A c \in Invocations, name \in TrustNames, signals \in F!Signals :
            F!Invoke(t, c, name, signals) => raced' = raced
      BY DEF F!Invoke
    <3>3. ASSUME NEW v \in Contents, NEW label \in MemoryLabels
          PROVE  /\ F!AppendTo(t, v, label) => raced' = raced
                 /\ \A k \in Keys : F!Write(t, k, v, label) => raced' = raced
      BY DEF F!AppendTo, F!Write, F!ghosts
    <3>4. /\ \A k \in Keys : F!Read(t, k) => raced' = raced
          /\ F!Recall(t) => raced' = raced
          /\ \A v \in Contents : F!Search(t, {v}) => raced' = raced
      BY DEF F!Read, F!Recall, F!Search, F!ghosts
    <3> QED BY <3>1, <3>2, <3>3, <3>4
  <2>2. raced = {}
    BY <1>3, <2>1 DEF F!Start
  <2> QED BY <1>3, <2>2, QuietStepsKeepTrace, InvokeKeepsTrace DEF F!Start
<1> QED BY <1>1, <1>2, <1>3 DEF F!Next

(* A call that consumed untrusted data is found when the flows are rebuilt *)
(* from the log, however many calls lie between.                           *)
THEOREM FlowsAreFound == ASSUME F!FlowAssumption PROVE F!Spec => []FlowsFound
<1> DEFINE Inv == FlowInv /\ (raced = {} => TraceInv)
<1>1. F!Init => Inv
  BY FlowStarts, TraceStarts
<1>2. Inv /\ [F!Next]_(F!vars) => Inv'
  BY FlowKept, TraceKept
<1>3. Inv => FlowsFound
  <2> SUFFICES ASSUME FlowInv, TraceInv, F!Distinct
               PROVE  \A i \in DOMAIN audit :
                        took[i] => i \in F!Tainted(audit) /\ F!Upstream(audit, i) # {}
    BY DEF FlowsFound, F!FlowsFound
  <2>1. audit \in Seq(Events)
    BY DEF FlowInv, FlowTypes
  <2> QED BY <2>1, ConsumedFound DEF F!Distinct, TraceInv, EventsShow
<1> QED BY <1>1, <1>2, <1>3, PTL DEF F!Spec
==============================================================================
