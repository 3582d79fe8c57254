--------------------------- MODULE ApprovalStore ---------------------------
(***************************************************************************)
(* The human-approval store of capguard/approval.py.                       *)
(*                                                                         *)
(* A risky call that is paused leaves a PENDING token bound to the agent,  *)
(* the tool and a digest of the arguments.  An operator approves or        *)
(* rejects it; the agent's retry presents the token and consumes it.       *)
(* Operators and agents run on different threads: every operation takes    *)
(* the store's lock once, so an operation is one action.  The token        *)
(* objects are shared with callers (issue, approve and get return them),   *)
(* who may write to them: that is what the signature over the bound fields *)
(* is for.  It does not cover the status.                                  *)
(*                                                                         *)
(* The HMAC of a payload under the store's secret is modelled by the       *)
(* payload itself: two signatures agree iff the signed fields agree.       *)
(***************************************************************************)
EXTENDS Integers, Sequences, FiniteSets

CONSTANTS
  TokenIds,     \* ids secrets.token_urlsafe may return
  AgentIds,
  ToolNames,
  Args,         \* keyword arguments of a call
  Digests,      \* values of args_digest
  ArgsDigest,   \* args_digest: canonical JSON, non-JSON values through str
  Ttls,         \* values of ttl_seconds, NoTtl for None
  NoTtl,
  NoToken,      \* a token id the store does not hold
  DefaultTtl,   \* default_ttl_seconds
  MaxTime,      \* bound on the clock, for model checking
  MaxOverwritten,   \* tokens whose status is overwritten, and
  MaxGrants     \* how many calls may have been let through when one is

ASSUME DigestAssumption == ArgsDigest \in [Args -> Digests]
ASSUME TtlAssumption ==
  /\ NoTtl \notin Int
  /\ Ttls \subseteq Int \cup {NoTtl}
  /\ DefaultTtl \in Int
ASSUME BoundsAssumption == MaxTime \in Nat /\ MaxOverwritten \in Nat /\ MaxGrants \in Nat

Status == {"pending", "approved", "rejected", "consumed", "expired"}

(* signing_payload: the fields the signature covers.  The id is the key    *)
(* under which the store holds the token; the status is not signed.        *)
Payload == [agent_id : AgentIds, tool_name : ToolNames,
            args_digest : Digests, expires_at : Int]

Token == [payload : Payload, signature : Payload, status : Status]

ASSUME NoTokenAssumption == NoToken \notin Token \cup Payload

VARIABLES
  tokens,    \* ApprovalStore._tokens
  now,       \* datetime.now(timezone.utc)
  bound,     \* history: the payload each id was issued with
  verdicts,  \* history: what operators successfully decided about each id, and
             \* "overwritten" if somebody else wrote its status
  grants     \* history: the calls verify_and_consume answered True to

vars == <<tokens, now, bound, verdicts, grants>>

(* A call for which a token was consumed, and when. *)
Grant == [id : TokenIds, agent_id : AgentIds, tool_name : ToolNames,
          args_digest : Digests, at : Int]

TypeOK ==
  /\ tokens \in [TokenIds -> Token \cup {NoToken}]
  /\ now \in Int
  /\ bound \in [TokenIds -> Payload \cup {NoToken}]
  /\ verdicts \in [TokenIds -> SUBSET {"approved", "rejected", "overwritten"}]
  /\ grants \in Seq(Grant)

Init ==
  /\ tokens = [id \in TokenIds |-> NoToken]
  /\ now = 0
  /\ bound = [id \in TokenIds |-> NoToken]
  /\ verdicts = [id \in TokenIds |-> {}]
  /\ grants = << >>
-----------------------------------------------------------------------------
Held(id) == id \in TokenIds /\ tokens[id] # NoToken

IsExpired(tok) == now >= tok.payload.expires_at

(* ttl_seconds or self._ttl: None and 0 both mean the default. *)
EffectiveTtl(ttl) == IF ttl \in {NoTtl, 0} THEN DefaultTtl ELSE ttl

(* Mutant: the arguments themselves are stored. *)
BindingRaw(agent, tool, args, expires) ==
  [agent_id |-> agent, tool_name |-> tool, args_digest |-> args, expires_at |-> expires]

Binding(agent, tool, args, expires) ==
  [agent_id |-> agent, tool_name |-> tool, args_digest |-> ArgsDigest[args],
   expires_at |-> expires]

(* The clock is read before the lock is taken: `at` may lie in the past    *)
(* when the token enters the table.                                        *)
Issue(id, agent, tool, args, ttl, at) ==
  LET payload == Binding(agent, tool, args, at + EffectiveTtl(ttl))
  IN /\ ~Held(id)
     /\ tokens' = [tokens EXCEPT ![id] = [payload |-> payload,
                                          signature |-> payload,
                                          status |-> "pending"]]
     /\ bound' = [bound EXCEPT ![id] = payload]
     /\ UNCHANGED <<now, verdicts, grants>>

Undecided(id) == Held(id) /\ tokens[id].status = "pending"

(* approve and reject.  A missing or decided token raises and changes      *)
(* nothing; an expired one is marked before the error is raised.           *)
Transition(id, status) ==
  /\ Undecided(id)
  /\ IF IsExpired(tokens[id])
     THEN /\ tokens' = [tokens EXCEPT ![id].status = "expired"]
          /\ UNCHANGED verdicts
     ELSE /\ tokens' = [tokens EXCEPT ![id].status = status]
          /\ verdicts' = [verdicts EXCEPT ![id] = @ \cup {status}]
  /\ UNCHANGED <<now, bound, grants>>

Approve(id) == Transition(id, "approved")
Reject(id)  == Transition(id, "rejected")

(* Mutants: the status test forgets that a token is spent; the signature   *)
(* is not verified.                                                        *)
PresentableAgain(id) ==
  /\ Held(id)
  /\ tokens[id].signature = tokens[id].payload
  /\ tokens[id].status \in {"approved", "consumed"}
PresentableUnsigned(id) == Held(id) /\ tokens[id].status = "approved"

(* The part of verify_and_consume that precedes the expiry test. *)
Presentable(id) ==
  /\ Held(id)
  /\ tokens[id].signature = tokens[id].payload
  /\ tokens[id].status = "approved"

(* Mutant: the approval covers the tool whatever the arguments. *)
MatchesTool(tok, agent, tool, args) ==
  tok.payload.agent_id = agent /\ tok.payload.tool_name = tool

Matches(tok, agent, tool, args) ==
  /\ tok.payload.agent_id = agent
  /\ tok.payload.tool_name = tool
  /\ tok.payload.args_digest = ArgsDigest[args]

Consumable(id, agent, tool, args) ==
  /\ Presentable(id)
  /\ ~IsExpired(tokens[id])
  /\ Matches(tokens[id], agent, tool, args)

(* verify_and_consume answering True. *)
Consume(id, agent, tool, args) ==
  /\ Consumable(id, agent, tool, args)
  /\ tokens' = [tokens EXCEPT ![id].status = "consumed"]
  /\ grants' = Append(grants, [id |-> id, agent_id |-> agent, tool_name |-> tool,
                               args_digest |-> ArgsDigest[args], at |-> now])
  /\ UNCHANGED <<now, bound, verdicts>>

(* Mutant: the token is spent before it is compared with the call. *)
RefuseSpends(id, agent, tool, args) ==
  /\ ~Consumable(id, agent, tool, args)
  /\ tokens' = IF Presentable(id) THEN [tokens EXCEPT ![id].status = "consumed"] ELSE tokens
  /\ UNCHANGED <<now, bound, verdicts, grants>>

(* verify_and_consume answering False: an expired token is marked so,      *)
(* whoever presented it; every other refusal leaves the store alone.       *)
Refuse(id, agent, tool, args) ==
  /\ ~Consumable(id, agent, tool, args)
  /\ tokens' = IF Presentable(id) /\ IsExpired(tokens[id])
               THEN [tokens EXCEPT ![id].status = "expired"]
               ELSE tokens
  /\ UNCHANGED <<now, bound, verdicts, grants>>

(* External: a caller that holds the token object writes to the fields     *)
(* the signature covers.                                                   *)
Rewrite(id, payload) ==
  /\ Held(id)
  /\ tokens' = [tokens EXCEPT ![id].payload = payload]
  /\ UNCHANGED <<now, bound, verdicts, grants>>

Overwritten(id) == "overwritten" \in verdicts[id]

(* External: it writes to the status. *)
Overwrite(id, status) ==
  /\ Held(id) /\ status # tokens[id].status
  /\ Len(grants) < MaxGrants
  /\ Cardinality({k \in TokenIds \ {id} : Overwritten(k)}) < MaxOverwritten
  /\ tokens' = [tokens EXCEPT ![id].status = status]
  /\ verdicts' = [verdicts EXCEPT ![id] = @ \cup {"overwritten"}]
  /\ UNCHANGED <<now, bound, grants>>

(* External: time passes. *)
Tick ==
  /\ now < MaxTime
  /\ now' = now + 1
  /\ UNCHANGED <<tokens, bound, verdicts, grants>>

(* What a writer may put there: an expiry time in the past, or one the     *)
(* clock does not reach.                                                   *)
RewrittenPayload == [agent_id : AgentIds, tool_name : ToolNames,
                     args_digest : Digests, expires_at : {0, MaxTime + 1}]

Call(id, agent, tool, args) ==
  \/ \E ttl \in Ttls, at \in 0..now : Issue(id, agent, tool, args, ttl, at)
  \/ Consume(id, agent, tool, args)
  \/ Refuse(id, agent, tool, args)

Next ==
  \/ \E id \in TokenIds, agent \in AgentIds, tool \in ToolNames, args \in Args :
       Call(id, agent, tool, args)
  \/ \E id \in TokenIds : Approve(id) \/ Reject(id)
  \/ \E id \in TokenIds, payload \in RewrittenPayload : Rewrite(id, payload)
  \/ \E id \in TokenIds, status \in Status : Overwrite(id, status)
  \/ Tick

Spec == Init /\ [][Next]_vars
-----------------------------------------------------------------------------
(* An approval authorises one call: verify_and_consume answers True at     *)
(* most once for a token, whoever retries and however often, unless the    *)
(* status of the object was overwritten.                                   *)
SingleUse ==
  \A i, j \in DOMAIN grants :
    grants[i].id = grants[j].id => i = j \/ Overwritten(grants[i].id)

(* Whatever is written to the shared object, its status included, a call   *)
(* let through has the agent, tool and argument digest the token was       *)
(* issued for, and the token had not expired; and unless the status was    *)
(* overwritten some operator approved that token and none rejected it.     *)
GrantAuthorized ==
  \A i \in DOMAIN grants :
    LET g == grants[i]
    IN /\ verdicts[g.id] = {"approved"} \/ Overwritten(g.id)
       /\ bound[g.id] # NoToken
       /\ g.agent_id = bound[g.id].agent_id
       /\ g.tool_name = bound[g.id].tool_name
       /\ g.args_digest = bound[g.id].args_digest
       /\ g.at < bound[g.id].expires_at

(* A refused presentation does not spend the approval: a token is consumed *)
(* only if some call was let through with it, so a retry with the wrong    *)
(* arguments or by the wrong agent leaves it usable.                       *)
NoApprovalLost ==
  \A id \in TokenIds :
    tokens[id] # NoToken /\ tokens[id].status = "consumed" /\ ~Overwritten(id)
      => \E i \in DOMAIN grants : grants[i].id = id

(* Each approval is spent, if at all, on exactly one call.                 *)
SpentOnOneCall == SingleUse /\ NoApprovalLost

(* Two operators deciding at once, or one who changes his mind: a token    *)
(* gets one verdict, and no operation takes it back, revives a closed      *)
(* token or makes a token vanish, whatever is written to the fields that   *)
(* are signed.                                                             *)
VerdictFinal ==
  [][\A id \in TokenIds :
       /\ verdicts[id] # {} /\ ~Overwritten(id)' => verdicts'[id] = verdicts[id]
       /\ Held(id) => /\ Held(id)'
                      /\ tokens[id].status \in {"rejected", "consumed", "expired"}
                           /\ ~Overwritten(id)'
                           => tokens'[id].status = tokens[id].status]_vars
=============================================================================
