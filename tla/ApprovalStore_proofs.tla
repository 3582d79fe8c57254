------------------------ MODULE ApprovalStore_proofs ------------------------
(***************************************************************************)
(* The approval store's safety, for any number of tokens, agents, tools    *)
(* and argument values, and whatever is written to the shared token        *)
(* objects: what the signature covers binds a grant without exception, the *)
(* rest does unless the status, which is not signed, was overwritten.      *)
(***************************************************************************)
EXTENDS ApprovalStore, TLAPS

(* What ties the table to its history: a held token carries the signature  *)
(* of the payload it was issued with; and unless its status was            *)
(* overwritten it says which verdict the token got, and is consumed if the *)
(* token has a grant.                                                      *)
Ledger ==
  \A id \in TokenIds :
    IF tokens[id] = NoToken
    THEN bound[id] = NoToken /\ verdicts[id] = {}
    ELSE /\ bound[id] = tokens[id].signature
         /\ ~Overwritten(id) =>
              /\ tokens[id].status = "pending" => verdicts[id] = {}
              /\ tokens[id].status = "rejected" => verdicts[id] = {"rejected"}
              /\ tokens[id].status = "expired" => verdicts[id] \in {{}, {"approved"}}
              /\ tokens[id].status \in {"approved", "consumed"} => verdicts[id] = {"approved"}

GrantsClosed ==
  \A i \in DOMAIN grants : /\ tokens[grants[i].id] # NoToken
                           /\ \/ tokens[grants[i].id].status = "consumed"
                              \/ Overwritten(grants[i].id)

IInv == TypeOK /\ Ledger /\ GrantsClosed /\ SingleUse /\ GrantAuthorized /\ NoApprovalLost

(* A new status for a held token leaves the rest of the table alone.       *)
LEMMA StatusWritten ==
  ASSUME TypeOK, NEW id \in TokenIds, tokens[id] # NoToken, NEW st \in Status,
         tokens' = [tokens EXCEPT ![id].status = st]
  PROVE  /\ tokens' \in [TokenIds -> Token \cup {NoToken}]
         /\ tokens'[id] # NoToken
         /\ tokens'[id].status = st
         /\ tokens'[id].signature = tokens[id].signature
         /\ \A k \in TokenIds : k # id => tokens'[k] = tokens[k]
<1>1. tokens[id] \in Token
  BY DEF TypeOK
<1>2. [tokens[id] EXCEPT !.status = st] \in Token
  BY <1>1 DEF Token
<1>3. tokens'[id] = [tokens[id] EXCEPT !.status = st]
  BY DEF TypeOK
<1>4. \A k \in TokenIds : k # id => tokens'[k] = tokens[k]
  BY DEF TypeOK
<1>5. tokens'[id].status = st /\ tokens'[id].signature = tokens[id].signature
  BY <1>1, <1>3 DEF Token
<1>6. tokens' \in [TokenIds -> Token \cup {NoToken}]
  BY <1>2 DEF TypeOK
<1> QED BY <1>6, <1>2, <1>3, <1>4, <1>5, NoTokenAssumption

(* Every operation keeps the state well typed. *)
LEMMA TypeStep ==
  ASSUME TypeOK, [Next]_vars
  PROVE  TypeOK'
<1>4. ASSUME NEW id \in TokenIds, NEW st \in {"approved", "rejected"}, Transition(id, st)
      PROVE TypeOK'
  <2>1. PICK new \in Status : tokens' = [tokens EXCEPT ![id].status = new]
    BY <1>4 DEF Transition, Status
  <2>2. tokens[id] # NoToken
    BY <1>4 DEF Transition, Undecided, Held
  <2>3. tokens' \in [TokenIds -> Token \cup {NoToken}]
    BY <2>1, <2>2, StatusWritten
  <2>4. verdicts' \in [TokenIds -> SUBSET {"approved", "rejected", "overwritten"}]
    BY <1>4 DEF Transition, TypeOK
  <2> QED BY <1>4, <2>3, <2>4 DEF Transition, TypeOK
<1> USE DEF TypeOK, Token, Payload, Status
<1>1. ASSUME NEW id \in TokenIds, NEW agent \in AgentIds, NEW tool \in ToolNames,
             NEW args \in Args, NEW ttl \in Ttls, NEW at \in 0..now,
             Issue(id, agent, tool, args, ttl, at)
      PROVE TypeOK'
  <2>1. EffectiveTtl(ttl) \in Int
    BY TtlAssumption DEF EffectiveTtl
  <2>2. at + EffectiveTtl(ttl) \in Int
    BY <2>1
  <2> QED BY <1>1, <2>2, DigestAssumption DEF Issue, Binding
<1>2. ASSUME NEW id \in TokenIds, NEW agent \in AgentIds, NEW tool \in ToolNames,
             NEW args \in Args, Consume(id, agent, tool, args)
      PROVE TypeOK'
  <2>1. tokens[id] \in Token
    BY <1>2 DEF Consume, Consumable, Presentable, Held
  <2>2. tokens' \in [TokenIds -> Token \cup {NoToken}]
    BY <1>2, <2>1 DEF Consume
  <2>3. [id |-> id, agent_id |-> agent, tool_name |-> tool,
         args_digest |-> ArgsDigest[args], at |-> now] \in Grant
    BY DigestAssumption DEF Grant
  <2>4. grants' \in Seq(Grant)
    BY <1>2, <2>3 DEF Consume
  <2> QED BY <1>2, <2>2, <2>4 DEF Consume
<1>3. ASSUME NEW id \in TokenIds, NEW agent \in AgentIds, NEW tool \in ToolNames,
             NEW args \in Args, Refuse(id, agent, tool, args)
      PROVE TypeOK'
  BY <1>3 DEF Refuse, Presentable, Held
<1>5. ASSUME NEW id \in TokenIds, NEW payload \in RewrittenPayload, Rewrite(id, payload)
      PROVE TypeOK'
  <2>1. payload \in Payload
    BY BoundsAssumption DEF RewrittenPayload, Payload
  <2>2. tokens[id] \in Token
    BY <1>5 DEF Rewrite, Held
  <2>3. [tokens[id] EXCEPT !.payload = payload] \in Token
    BY <2>1, <2>2
  <2> QED BY <1>5, <2>3 DEF Rewrite
<1>6. CASE Tick
  BY <1>6 DEF Tick
<1>7. CASE UNCHANGED vars
  BY <1>7 DEF vars
<1>8. ASSUME NEW id \in TokenIds, NEW status \in Status, Overwrite(id, status) PROVE TypeOK'
  <2>1. tokens[id] \in Token
    BY <1>8 DEF Overwrite, Held
  <2>2. [tokens[id] EXCEPT !.status = status] \in Token
    BY <2>1
  <2> QED BY <1>8, <2>2 DEF Overwrite
<1> QED
  BY <1>1, <1>2, <1>3, <1>4, <1>5, <1>6, <1>7, <1>8 DEF Next, Call, Approve, Reject

(* So the state is well typed whatever operators and agents do.            *)
THEOREM TypeCorrect == Spec => []TypeOK
<1>1. Init => TypeOK
  BY DEF Init, TypeOK
<1>2. TypeOK /\ [Next]_vars => TypeOK'
  BY TypeStep
<1> QED
  BY <1>1, <1>2, PTL DEF Spec
-----------------------------------------------------------------------------
(* The grants on record are grants for tokens of the store. *)
LEMMA GrantIds ==
  ASSUME TypeOK
  PROVE  \A i \in DOMAIN grants : grants[i] \in Grant /\ grants[i].id \in TokenIds
<1>1. \A i \in DOMAIN grants : grants[i] \in Grant
  BY DEF TypeOK
<1> QED BY <1>1 DEF Grant

(* Only who overwrites a status marks the token's history.                 *)
LEMMA MarksKept ==
  ASSUME verdicts' = verdicts
  PROVE  \A id \in TokenIds : Overwritten(id)' <=> Overwritten(id)
  BY DEF Overwritten

(* A step that grants nothing keeps the facts about past grants as long as *)
(* no token vanishes or is issued again, and it leaves tokens that are not *)
(* overwritten, if consumed, consumed and with their verdict, and consumes *)
(* none itself.                                                            *)
LEMMA NoNewGrant ==
  ASSUME TypeOK, GrantsClosed, SingleUse, GrantAuthorized, NoApprovalLost,
         grants' = grants,
         \A id \in TokenIds :
           /\ tokens[id] # NoToken => tokens'[id] # NoToken /\ bound'[id] = bound[id]
           /\ Overwritten(id) => Overwritten(id)'
           /\ ~Overwritten(id)' =>
                /\ (tokens[id] # NoToken /\ tokens[id].status = "consumed")
                     <=> (tokens'[id] # NoToken /\ tokens'[id].status = "consumed")
                /\ (tokens[id] # NoToken /\ tokens[id].status = "consumed")
                     => verdicts'[id] = verdicts[id]
  PROVE  GrantsClosed' /\ SingleUse' /\ GrantAuthorized' /\ NoApprovalLost'
<1>1. \A i \in DOMAIN grants : grants[i] \in Grant /\ grants[i].id \in TokenIds
  BY GrantIds
<1>2. GrantsClosed'
  BY <1>1 DEF GrantsClosed
<1>3. SingleUse'
  BY <1>1 DEF SingleUse
<1>4. GrantAuthorized'
  BY <1>1 DEF GrantAuthorized, GrantsClosed
<1>5. NoApprovalLost'
  BY DEF NoApprovalLost
<1> QED BY <1>2, <1>3, <1>4, <1>5

(* A successful verify_and_consume: the grant it adds is the token's first, *)
(* because the token was approved and not yet consumed.                    *)
LEMMA ConsumePreserves ==
  ASSUME IInv, NEW id \in TokenIds, NEW agent \in AgentIds, NEW tool \in ToolNames,
         NEW args \in Args, Consume(id, agent, tool, args)
  PROVE  Ledger' /\ GrantsClosed' /\ SingleUse' /\ GrantAuthorized' /\ NoApprovalLost'
<1> DEFINE g == [id |-> id, agent_id |-> agent, tool_name |-> tool,
                 args_digest |-> ArgsDigest[args], at |-> now]
<1>1. /\ tokens[id] # NoToken
      /\ tokens[id] \in Token
      /\ tokens[id].status = "approved"
      /\ tokens[id].signature = tokens[id].payload
      /\ now < tokens[id].payload.expires_at
      /\ Matches(tokens[id], agent, tool, args)
  BY DEF IInv, TypeOK, Consume, Consumable, Presentable, Held, IsExpired, Token, Payload
<1>2. /\ grants' = Append(grants, g)
      /\ tokens' = [tokens EXCEPT ![id].status = "consumed"]
      /\ bound' = bound /\ verdicts' = verdicts
  BY DEF Consume
<1>3. /\ tokens'[id] # NoToken
      /\ tokens'[id].status = "consumed"
      /\ tokens'[id].signature = tokens[id].signature
      /\ \A k \in TokenIds : k # id => tokens'[k] = tokens[k]
  BY <1>1, <1>2, StatusWritten DEF IInv, Status
<1>4. /\ verdicts[id] = {"approved"} \/ Overwritten(id)
      /\ bound[id] = tokens[id].payload
      /\ \A k \in TokenIds : Overwritten(k)' <=> Overwritten(k)
  BY <1>1, <1>2 DEF IInv, Ledger, Overwritten
<1>5. /\ grants \in Seq(Grant)
      /\ g \in Grant
      /\ \A i \in DOMAIN grants : grants[i].id \in TokenIds
      /\ \A i \in DOMAIN grants : grants[i].id # id \/ Overwritten(id)
  BY <1>1, GrantIds, DigestAssumption DEF IInv, TypeOK, GrantsClosed, Grant
<1>6. /\ Len(grants) \in Nat /\ DOMAIN grants = 1..Len(grants)
      /\ DOMAIN grants' = 1..Len(grants) + 1
      /\ grants'[Len(grants) + 1] = g
      /\ \A i \in DOMAIN grants : grants'[i] = grants[i]
  BY <1>2, <1>5
<1>7. \A i \in DOMAIN grants' : i \in DOMAIN grants \/ i = Len(grants) + 1
  BY <1>6
<1>8. Ledger'
  BY <1>1, <1>2, <1>3, <1>4 DEF IInv, Ledger
<1>9. GrantsClosed'
  BY <1>3, <1>4, <1>5, <1>6, <1>7 DEF IInv, GrantsClosed
<1>10. SingleUse'
  BY <1>4, <1>5, <1>6, <1>7 DEF IInv, SingleUse
<1>11. GrantAuthorized'
  <2>1. g.agent_id = bound[id].agent_id /\ g.tool_name = bound[id].tool_name
        /\ g.args_digest = bound[id].args_digest /\ g.at < bound[id].expires_at
    BY <1>1, <1>4 DEF Matches
  <2>2. bound[id] # NoToken
    BY <1>1, <1>4, NoTokenAssumption DEF Token
  <2>3. \A i \in DOMAIN grants : grants'[i] = grants[i] /\ grants[i].id \in TokenIds
    BY <1>5, <1>6
  <2>4. grants'[Len(grants) + 1] = g /\ g.id = id
    BY <1>6
  <2> HIDE DEF g
  <2> QED BY <2>1, <2>2, <2>3, <2>4, <1>2, <1>4, <1>7 DEF IInv, GrantAuthorized
<1>12. NoApprovalLost'
  <2> SUFFICES ASSUME NEW k \in TokenIds, tokens'[k] # NoToken, tokens'[k].status = "consumed",
                      ~Overwritten(k)'
               PROVE \E i \in DOMAIN grants' : grants'[i].id = k
    BY DEF NoApprovalLost
  <2>1. CASE k = id
    BY <2>1, <1>6
  <2>2. CASE k # id
    <3>1. PICK i \in DOMAIN grants : grants[i].id = k
      BY <2>2, <1>3, <1>4 DEF IInv, NoApprovalLost
    <3> QED BY <3>1, <1>6
  <2> QED BY <2>1, <2>2
<1> QED BY <1>8, <1>9, <1>10, <1>11, <1>12
-----------------------------------------------------------------------------
(* The strengthening holds at first and is inductive.                      *)
LEMMA StoreInit == Init => IInv
  BY DEF Init, IInv, TypeOK, Ledger, GrantsClosed, SingleUse, GrantAuthorized, NoApprovalLost

LEMMA StoreStep ==
  ASSUME IInv, [Next]_vars
  PROVE  IInv'
<1> SUFFICES Ledger' /\ GrantsClosed' /\ SingleUse' /\ GrantAuthorized' /\ NoApprovalLost'
  BY TypeStep DEF IInv
<1>1. ASSUME NEW id \in TokenIds, NEW agent \in AgentIds, NEW tool \in ToolNames,
             NEW args \in Args, NEW ttl \in Ttls, NEW at \in 0..now,
             Issue(id, agent, tool, args, ttl, at)
      PROVE Ledger' /\ GrantsClosed' /\ SingleUse' /\ GrantAuthorized' /\ NoApprovalLost'
  <2> DEFINE payload == [agent_id |-> agent, tool_name |-> tool,
                         args_digest |-> ArgsDigest[args],
                         expires_at |-> at + EffectiveTtl(ttl)]
  <2> DEFINE tok == [payload |-> payload, signature |-> payload, status |-> "pending"]
  <2>1. /\ tokens[id] = NoToken
        /\ tokens' = [tokens EXCEPT ![id] = tok]
        /\ bound' = [bound EXCEPT ![id] = payload]
        /\ verdicts' = verdicts /\ grants' = grants
    BY <1>1 DEF Issue, Binding, Held
  <2>2. tok # NoToken
    <3>1. payload \in Payload
      BY DigestAssumption, TtlAssumption DEF IInv, TypeOK, Payload, EffectiveTtl
    <3> QED BY <3>1, NoTokenAssumption DEF Token, Status
  <2>3. Ledger'
    <3>1. tokens'[id] = tok /\ bound'[id] = payload /\ verdicts'[id] = {}
      BY <2>1 DEF IInv, TypeOK, Ledger
    <3>2. \A k \in TokenIds : k # id =>
            tokens'[k] = tokens[k] /\ bound'[k] = bound[k] /\ verdicts'[k] = verdicts[k]
      BY <2>1 DEF IInv, TypeOK
    <3>3. tok.signature = payload /\ tok.status = "pending"
      OBVIOUS
    <3> HIDE DEF tok, payload
    <3> QED BY <3>1, <3>2, <3>3, <2>1, <2>2, MarksKept DEF IInv, Ledger
  <2>4. tok.status # "consumed"
    OBVIOUS
  <2> HIDE DEF tok, payload
  <2>5. \A k \in TokenIds : k # id => tokens'[k] = tokens[k] /\ bound'[k] = bound[k]
    BY <2>1 DEF IInv, TypeOK
  <2>6. tokens'[id] = tok
    BY <2>1 DEF IInv, TypeOK
  <2> QED BY <2>1, <2>2, <2>3, <2>4, <2>5, <2>6, MarksKept, NoNewGrant DEF IInv
<1>2. ASSUME NEW id \in TokenIds, NEW agent \in AgentIds, NEW tool \in ToolNames,
             NEW args \in Args, Consume(id, agent, tool, args)
      PROVE Ledger' /\ GrantsClosed' /\ SingleUse' /\ GrantAuthorized' /\ NoApprovalLost'
  BY <1>2, ConsumePreserves
<1>3. ASSUME NEW id \in TokenIds, NEW agent \in AgentIds, NEW tool \in ToolNames,
             NEW args \in Args, Refuse(id, agent, tool, args)
      PROVE Ledger' /\ GrantsClosed' /\ SingleUse' /\ GrantAuthorized' /\ NoApprovalLost'
  <2>1. CASE tokens' = tokens
    BY <2>1, <1>3, MarksKept, NoNewGrant DEF IInv, Refuse, Ledger
  <2>2. CASE Presentable(id) /\ IsExpired(tokens[id])
    <3>1. /\ tokens[id] # NoToken /\ tokens[id] \in Token
          /\ tokens[id].status = "approved"
          /\ tokens' = [tokens EXCEPT ![id].status = "expired"]
          /\ bound' = bound /\ verdicts' = verdicts /\ grants' = grants
      BY <1>3, <2>2 DEF IInv, TypeOK, Refuse, Presentable, Held
    <3>2. /\ tokens'[id] # NoToken
          /\ tokens'[id].status = "expired"
          /\ tokens'[id].signature = tokens[id].signature
          /\ \A k \in TokenIds : k # id => tokens'[k] = tokens[k]
      BY <3>1, StatusWritten DEF IInv, Status
    <3>3. Ledger'
      BY <3>1, <3>2, MarksKept DEF IInv, Ledger
    <3> QED BY <3>1, <3>2, <3>3, MarksKept, NoNewGrant DEF IInv
  <2> QED BY <1>3, <2>1, <2>2 DEF Refuse
<1>4. ASSUME NEW id \in TokenIds, NEW st \in {"approved", "rejected"}, Transition(id, st)
      PROVE Ledger' /\ GrantsClosed' /\ SingleUse' /\ GrantAuthorized' /\ NoApprovalLost'
  <2>1. /\ tokens[id] # NoToken /\ tokens[id] \in Token
        /\ tokens[id].status = "pending"
        /\ bound' = bound /\ grants' = grants
    BY <1>4 DEF IInv, TypeOK, Transition, Undecided, Held
  <2>2. PICK new \in {st, "expired"} :
          /\ tokens' = [tokens EXCEPT ![id].status = new]
          /\ verdicts' = IF new = "expired" THEN verdicts
                         ELSE [verdicts EXCEPT ![id] = @ \cup {new}]
    BY <1>4 DEF Transition
  <2>3. /\ tokens'[id] # NoToken
        /\ tokens'[id].status = new
        /\ tokens'[id].signature = tokens[id].signature
        /\ \A k \in TokenIds : k # id => tokens'[k] = tokens[k]
    BY <2>1, <2>2, StatusWritten DEF IInv, Status
  <2>3a. \A k \in TokenIds : k # id => verdicts'[k] = verdicts[k]
    BY <2>2 DEF IInv, TypeOK
  <2>4. Overwritten(id) \/ verdicts'[id] = IF new = "expired" THEN {} ELSE {new}
    BY <2>1, <2>2 DEF IInv, TypeOK, Ledger
  <2>5. \A k \in TokenIds : Overwritten(k)' <=> Overwritten(k)
    BY <2>2, <2>3a DEF Overwritten, IInv, TypeOK
  <2>6. Ledger'
    BY <2>1, <2>3, <2>3a, <2>4, <2>5 DEF IInv, Ledger
  <2> QED BY <2>1, <2>3, <2>3a, <2>5, <2>6, NoNewGrant DEF IInv
<1>5. ASSUME NEW id \in TokenIds, NEW payload \in RewrittenPayload, Rewrite(id, payload)
      PROVE Ledger' /\ GrantsClosed' /\ SingleUse' /\ GrantAuthorized' /\ NoApprovalLost'
  <2>1. /\ tokens[id] # NoToken /\ tokens[id] \in Token
        /\ tokens' = [tokens EXCEPT ![id].payload = payload]
        /\ bound' = bound /\ verdicts' = verdicts /\ grants' = grants
    BY <1>5 DEF IInv, TypeOK, Rewrite, Held
  <2>2. /\ tokens'[id] # NoToken
        /\ tokens'[id].status = tokens[id].status
        /\ tokens'[id].signature = tokens[id].signature
        /\ \A k \in TokenIds : k # id => tokens'[k] = tokens[k]
    <3>1. payload \in Payload
      BY BoundsAssumption DEF RewrittenPayload, Payload
    <3>2. [tokens[id] EXCEPT !.payload = payload] \in Token
      BY <2>1, <3>1 DEF Token
    <3>3. tokens'[id] = [tokens[id] EXCEPT !.payload = payload]
      BY <2>1 DEF IInv, TypeOK
    <3> QED BY <2>1, <3>2, <3>3, NoTokenAssumption DEF IInv, TypeOK, Token
  <2>3. Ledger'
    BY <2>1, <2>2, MarksKept DEF IInv, Ledger
  <2> QED BY <2>1, <2>2, <2>3, MarksKept, NoNewGrant DEF IInv
<1>6. CASE Tick
  BY <1>6, MarksKept, NoNewGrant DEF Tick, IInv, Ledger
<1>7. CASE UNCHANGED vars
  BY <1>7, MarksKept, NoNewGrant DEF vars, IInv, Ledger
<1>8. ASSUME NEW id \in TokenIds, NEW status \in Status, Overwrite(id, status)
      PROVE Ledger' /\ GrantsClosed' /\ SingleUse' /\ GrantAuthorized' /\ NoApprovalLost'
  <2>1. /\ tokens[id] # NoToken
        /\ tokens' = [tokens EXCEPT ![id].status = status]
        /\ verdicts' = [verdicts EXCEPT ![id] = @ \cup {"overwritten"}]
        /\ bound' = bound /\ grants' = grants
    BY <1>8 DEF Overwrite, Held
  <2>2. /\ tokens'[id] # NoToken
        /\ tokens'[id].signature = tokens[id].signature
        /\ \A k \in TokenIds : k # id => tokens'[k] = tokens[k]
    BY <2>1, StatusWritten DEF IInv
  <2>3. Overwritten(id)' /\ \A k \in TokenIds : k # id => verdicts'[k] = verdicts[k]
    BY <2>1 DEF Overwritten, IInv, TypeOK
  <2>4. \A k \in TokenIds : k # id => (Overwritten(k)' <=> Overwritten(k))
    BY <2>3 DEF Overwritten
  <2>5. Ledger'
    BY <2>1, <2>2, <2>3, <2>4 DEF IInv, Ledger
  <2> QED BY <2>1, <2>2, <2>3, <2>4, <2>5, NoNewGrant DEF IInv
<1> QED
  BY <1>1, <1>2, <1>3, <1>4, <1>5, <1>6, <1>7, <1>8 DEF Next, Call, Approve, Reject

LEMMA StoreInductive == Spec => []IInv
  BY StoreInit, StoreStep, PTL DEF Spec

(* Every grant is the call the token was issued for, in time, whatever was *)
(* written to the token; and unless its status was overwritten the call    *)
(* was reviewed, no approval is spent twice and no refusal spends one: in  *)
(* every reachable state of the store.                                     *)
THEOREM StoreSafe == Spec => [](SingleUse /\ GrantAuthorized /\ NoApprovalLost)
<1>1. IInv => SingleUse /\ GrantAuthorized /\ NoApprovalLost
  BY DEF IInv
<1> QED
  BY <1>1, StoreInductive, PTL

(* An approval that is spent let exactly one call through.                 *)
THEOREM SpentOnce == Spec => []SpentOnOneCall
  BY StoreSafe, PTL DEF SpentOnOneCall

(* What VerdictFinal says of one step and one token. *)
Kept(id) ==
  /\ verdicts[id] # {} /\ ~Overwritten(id)' => verdicts'[id] = verdicts[id]
  /\ Held(id) => /\ Held(id)'
                 /\ tokens[id].status \in {"rejected", "consumed", "expired"}
                      /\ ~Overwritten(id)'
                      => tokens'[id].status = tokens[id].status

(* A token gets one verdict, and no operation takes it back, revives a     *)
(* closed token or makes one vanish, but who overwrites its status: only a *)
(* pending token is decided, and Ledger says a pending token has no        *)
(* verdict yet.                                                            *)
THEOREM VerdictsStand == Spec => VerdictFinal
<1>1. ASSUME IInv, [Next]_vars, NEW k \in TokenIds PROVE Kept(k)
  <2>1. ASSUME UNCHANGED <<verdicts, tokens>> PROVE Kept(k)
    BY <2>1 DEF Kept, Held
  <2>2. ASSUME NEW id \in TokenIds, NEW st \in Status, tokens[id] # NoToken,
               tokens[id].status \in {"pending", "approved"} \/ Overwritten(id)',
               tokens' = [tokens EXCEPT ![id].status = st],
               verdicts[k] # {} /\ ~Overwritten(k)' => verdicts'[k] = verdicts[k]
        PROVE Kept(k)
    <3>1. /\ tokens'[id] # NoToken
          /\ \A j \in TokenIds : j # id => tokens'[j] = tokens[j]
      BY <1>1, <2>2, StatusWritten DEF IInv
    <3> QED BY <2>2, <3>1 DEF Kept, Held
  <2>3. ASSUME NEW id \in TokenIds, NEW agent \in AgentIds, NEW tool \in ToolNames,
               NEW args \in Args, Call(id, agent, tool, args)
        PROVE Kept(k)
    <3>1. CASE \E ttl \in Ttls, at \in 0..now : Issue(id, agent, tool, args, ttl, at)
      <4>1. tokens[id] = NoToken /\ verdicts' = verdicts
        BY <3>1 DEF Issue, Held
      <4>2. k # id => tokens'[k] = tokens[k]
        BY <1>1, <3>1 DEF Issue, IInv, TypeOK
      <4> QED BY <4>1, <4>2 DEF Kept, Held
    <3>2. CASE Consume(id, agent, tool, args)
      BY <3>2, <2>2 DEF Consume, Consumable, Presentable, Held, Status
    <3>3. CASE Refuse(id, agent, tool, args)
      BY <3>3, <2>1, <2>2 DEF Refuse, Presentable, Held, Status
    <3> QED BY <2>3, <3>1, <3>2, <3>3 DEF Call
  <2>4. ASSUME NEW id \in TokenIds, NEW st \in {"approved", "rejected"}, Transition(id, st)
        PROVE Kept(k)
    <3>1. tokens[id] # NoToken /\ tokens[id].status = "pending"
      BY <2>4 DEF Transition, Undecided, Held
    <3>2. PICK new \in Status : tokens' = [tokens EXCEPT ![id].status = new]
      BY <2>4 DEF Transition, Status
    <3>3. verdicts[k] # {} /\ ~Overwritten(k)' => verdicts'[k] = verdicts[k]
      <4>1. verdicts[id] = {} \/ Overwritten(id)
        BY <1>1, <3>1 DEF IInv, Ledger
      <4>2. k # id => verdicts'[k] = verdicts[k]
        BY <1>1, <2>4 DEF Transition, IInv, TypeOK
      <4>3. Overwritten(id) => Overwritten(id)'
        BY <1>1, <2>4 DEF Transition, Overwritten, IInv, TypeOK
      <4> QED BY <4>1, <4>2, <4>3
    <3> QED BY <2>2, <3>1, <3>2, <3>3
  <2>5. ASSUME NEW id \in TokenIds, NEW payload \in RewrittenPayload, Rewrite(id, payload)
        PROVE Kept(k)
    <3>1. /\ tokens[id] # NoToken /\ tokens[id] \in Token
          /\ tokens' = [tokens EXCEPT ![id].payload = payload]
          /\ verdicts' = verdicts
      BY <1>1, <2>5 DEF IInv, TypeOK, Rewrite, Held
    <3>2. payload \in Payload
      BY BoundsAssumption DEF RewrittenPayload, Payload
    <3>3. /\ tokens'[id] = [tokens[id] EXCEPT !.payload = payload]
          /\ \A j \in TokenIds : j # id => tokens'[j] = tokens[j]
      BY <1>1, <3>1 DEF IInv, TypeOK
    <3>4. tokens'[id] \in Token /\ tokens'[id].status = tokens[id].status
      BY <3>1, <3>2, <3>3 DEF Token
    <3> QED BY <3>1, <3>3, <3>4, NoTokenAssumption DEF Kept, Held
  <2>6. CASE Tick
    BY <2>6, <2>1 DEF Tick
  <2>7. CASE UNCHANGED vars
    BY <2>7, <2>1 DEF vars
  <2>8. ASSUME NEW id \in TokenIds, NEW status \in Status, Overwrite(id, status)
        PROVE Kept(k)
    <3>1. Overwritten(id)' /\ (k # id => verdicts'[k] = verdicts[k])
      BY <1>1, <2>8 DEF Overwrite, Overwritten, IInv, TypeOK
    <3>2. tokens[id] # NoToken /\ tokens' = [tokens EXCEPT ![id].status = status]
      BY <2>8 DEF Overwrite, Held
    <3> QED BY <2>2, <3>1, <3>2
  <2> QED
    BY <1>1, <2>3, <2>4, <2>5, <2>6, <2>7, <2>8 DEF Next, Approve, Reject
<1>2. IInv /\ [Next]_vars => [\A id \in TokenIds : Kept(id)]_vars
  BY <1>1
<1>3. [\A id \in TokenIds : Kept(id)]_vars
        <=> [\A id \in TokenIds :
               /\ verdicts[id] # {} /\ ~Overwritten(id)' => verdicts'[id] = verdicts[id]
               /\ Held(id) => /\ Held(id)'
                              /\ tokens[id].status \in {"rejected", "consumed", "expired"}
                                   /\ ~Overwritten(id)'
                                   => tokens'[id].status = tokens[id].status]_vars
  BY DEF Kept
<1> QED
  BY <1>2, <1>3, StoreInductive, PTL DEF Spec, VerdictFinal
=============================================================================
