----------------------------- MODULE PolicySync -----------------------------
(***************************************************************************)
(* Policies pushed to guards: the store of the control plane               *)
(* (capguard_cloud), which signs and numbers what a tenant's operators     *)
(* push, and the client of a guard (capguard/policy_sync.py), which        *)
(* fetches, verifies and compiles it for the application to install.  What *)
(* lies between them may answer with any pack it has seen, and alter it.   *)
(*                                                                         *)
(* A signature is what was signed with the key that signed it: version and *)
(* pack, and neither the tenant nor the time.                              *)
(***************************************************************************)
EXTENDS Predicates, Sequences, FiniteSets

CONSTANTS
  Tenants, Credentials, ApiKeys,    \* ApiKeys: from a bearer token to its tenant
  Packs,                            \* packs operators push: sequences of rules
  Key, Nothing,
  Tenant, Credential,               \* the guard's own
  MaxPushes, MaxFetches

(* The guard's credential is its tenant's, and no policy is None.          *)
PolicyAssumption ==
  /\ Tenant \in Tenants /\ Credential \in Credentials
  /\ Credential \in DOMAIN ApiKeys => ApiKeys[Credential] = Tenant
  /\ DOMAIN ApiKeys \subseteq Credentials /\ \A c \in DOMAIN ApiKeys : ApiKeys[c] \in Tenants
  /\ Nothing \notin [version : Nat, pack : Packs, key : {Key}]
  /\ ConditionsAssumption
  /\ \A pack \in Packs : \A i \in DOMAIN pack : pack[i].when \in Conditions

VARIABLES
  policy,        \* CloudStore._policy
  pushed,        \* history: what each tenant's operators had signed
  response,      \* what the guard's request was answered with; history: `current', whether
                 \* it is the control plane's answer, and `signers', whose tenants' pack it is
  fetches,
  engines        \* the engines the guard has run, the last is in force

vars == <<policy, pushed, response, fetches, engines>>

Signed(version, pack) == [version |-> version, pack |-> pack, key |-> Key]
Engine(rules, r) ==
  [rules |-> rules, version |-> r.version, current |-> r.current, signers |-> r.signers]

TypeOK ==
  /\ \A t \in Tenants : policy[t] = Nothing \/ policy[t] \in pushed[t]
  /\ response # Nothing =>
       /\ response.signature \in UNION {pushed[t] : t \in Tenants}
       /\ response.signers # {} /\ response.signers \subseteq Tenants
  /\ Len(engines) \in 1..(fetches + 1)

(* A guard starts with the engine it was built with, which has no rules.   *)
Init ==
  /\ policy = [t \in Tenants |-> Nothing]
  /\ pushed = [t \in Tenants |-> {}]
  /\ response = Nothing
  /\ fetches = 0
  /\ engines = <<Engine(<< >>, [version |-> 0, current |-> FALSE, signers |-> {}])>>
-----------------------------------------------------------------------------
NextVersion(t) == IF policy[t] = Nothing THEN 1 ELSE policy[t].version + 1

(* PUT /v1/policy: the credential names the tenant, or the answer is 401.  *)
SetPolicy(credential, pack) ==
  /\ credential \in DOMAIN ApiKeys
  /\ LET t == ApiKeys[credential]
         sp == Signed(NextVersion(t), pack)
     IN /\ Cardinality(pushed[t]) < MaxPushes
        /\ policy' = [policy EXCEPT ![t] = sp]
        /\ pushed' = [pushed EXCEPT ![t] = @ \cup {sp}]
  /\ UNCHANGED <<response, engines, fetches>>

(* GET /v1/policy: 401 without a tenant, 404 without a policy. *)
Answer(credential) ==
  IF credential \in DOMAIN ApiKeys THEN {policy[ApiKeys[credential]]} \ {Nothing} ELSE {}

(* What may arrive: the answer, a pack signed earlier or for another       *)
(* tenant, or one of these with its version or its pack changed.           *)
Arrives ==
  {[version |-> sp.version + later, pack |-> pack, signature |-> sp,
    current |-> later = 0 /\ pack = sp.pack /\ sp \in Answer(Credential),
    signers |-> {t \in Tenants : sp \in pushed[t]}] :
     sp \in UNION {pushed[t] : t \in Tenants}, later \in {0, 1}, pack \in Packs}
-----------------------------------------------------------------------------
(* The guard's client. *)
Request ==
  /\ response = Nothing
  /\ fetches < MaxFetches
  /\ fetches' = fetches + 1
  /\ response' \in Arrives
  /\ UNCHANGED <<policy, engines, pushed>>

(* Mutant: the signature is checked against the pack alone. *)
VerifiesPack(r) == r.signature.key = Key /\ r.signature.pack = r.pack

Verifies(r) == r.signature = Signed(r.version, r.pack)

(* compile_pack: one rule that does not compile fails the pack. *)
Compiled(pack) == IF \A i \in DOMAIN pack : RuleCompiles(pack[i]) THEN {pack} ELSE {}

(* fetch returns the compiled engine, which the application installs, or   *)
(* raises, and the engine in force stays.                                  *)
Fetched ==
  /\ response # Nothing
  /\ response' = Nothing
  /\ engines' = IF Verifies(response) /\ Compiled(response.pack) # {}
                THEN Append(engines, Engine(CHOOSE rules \in Compiled(response.pack) : TRUE, response))
                ELSE engines
  /\ UNCHANGED <<policy, pushed, fetches>>

Next ==
  \/ \E credential \in Credentials, pack \in Packs : SetPolicy(credential, pack)
  \/ Request
  \/ Fetched

Spec == Init /\ [][Next]_vars
-----------------------------------------------------------------------------
(* Every engine a guard ever runs, but the one it was built with, holds    *)
(* all the rules of a pack the control plane signed for some tenant, under *)
(* the version it claims: nothing altered on the way or compiled in part   *)
(* is ever in force.                                                       *)
OnlySigned ==
  \A i \in 2..Len(engines) :
    /\ engines[i].signers # {}
    /\ \A t \in engines[i].signers :
         Signed(engines[i].version, engines[i].rules) \in pushed[t]

(* The client compares neither versions nor tenants, and so may be given   *)
(* an old pack, or another tenant's.  But one fetch of the answer is all   *)
(* it takes to undo that: what is then in force is its own tenant's, and   *)
(* no older than any pack of its tenant's it ran before.                   *)
FetchHeals ==
  \A i \in DOMAIN engines :
    engines[i].current =>
      /\ Tenant \in engines[i].signers
      /\ \A j \in 1..i : Tenant \in engines[j].signers => engines[j].version <= engines[i].version

(* A version names one pack: guards that report the same version decide    *)
(* alike.                                                                  *)
VersionNamesPack ==
  \A t \in Tenants : \A a, b \in pushed[t] : a.version = b.version => a.pack = b.pack

(* The policies in force are published ones, and the newest as soon as the *)
(* answer comes through.                                                   *)
PoliciesAsPublished == OnlySigned /\ FetchHeals /\ VersionNamesPack
=============================================================================
