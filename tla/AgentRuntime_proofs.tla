------------------------- MODULE AgentRuntime_proofs -------------------------
(***************************************************************************)
(* The runtime's safety for any number of threads, agents, tools, tokens   *)
(* and requests, and for every policy, grant and task scope.               *)
(***************************************************************************)
EXTENDS AgentRuntime, FiniteSetTheorems, TLAPS

(* The store of a runtime is an approval store: what is proved of the one  *)
(* is cited for the other.                                                 *)
ASP == INSTANCE ApprovalStore_proofs WITH AgentIds <- Agents, ToolNames <- Tools,
                                          MaxOverwritten <- 0, MaxGrants <- 0

(* So is its ledger a budget ledger.                                       *)
BLP == INSTANCE BudgetLedger_proofs
         WITH Keys <- LedgerKeys, Deltas <- Reports, MaxCharges <- MaxInvocations

(* The labels between invoke_tool's entry and its exit.                    *)
Inside == Labels \ {"idle", "report_trip"}
Nexts == {"none", "raise", "return", "budget_trip"}
CallTypes == Invocation \cup Report \cup {NoCall}

(* The threads' part of the type invariant, with what makes it inductive:  *)
(* a call inside the pipeline has an agent and a registered tool.          *)
ThreadTypes ==
  /\ pc \in [Threads -> Labels]
  /\ call \in [Threads -> CallTypes]
  /\ then \in [Threads -> Nexts]
  /\ found \in [Threads -> SUBSET AP!Kinds]
  /\ \A t \in Threads :
       /\ pc[t] = "idle" => call[t] = NoCall
       /\ pc[t] = "report_trip" => call[t] \in Report
       /\ pc[t] \in Inside => call[t] \in Invocation /\ Resolves(call[t].req)

BreakerTypes ==
  /\ trips \in [Agents \cup LedgerKeys -> Nat]
  /\ trippedAt \in [Agents \cup LedgerKeys -> Int \cup {NoTrip}]

Control == ThreadTypes /\ BreakerTypes /\ started \in Nat /\ now \in Nat

(* A step of thread t leaves every other thread's variables alone.         *)
Alone(t) ==
  \A u \in Threads \ {t} :
    pc'[u] = pc[u] /\ call'[u] = call[u] /\ then'[u] = then[u] /\ found'[u] = found[u]

(* The three moves of a thread, index by index.                            *)
LEMMA Continues ==
  ASSUME ThreadTypes, NEW t \in Threads, NEW label, NEW c, Continue(t, label, c)
  PROVE  /\ pc'[t] = label /\ call'[t] = c /\ then'[t] = then[t] /\ found'[t] = found[t]
         /\ Alone(t)
  BY DEF ThreadTypes, Continue, Alone

(* An event goes to the monitor, or straight to the log. *)
LEMMA Emits ==
  ASSUME ThreadTypes, NEW t \in Threads, NEW c, NEW next, Emit(t, c, next)
  PROVE  /\ pc'[t] = IF Has("monitor") /\ c.error # "circuit_breaker_open"
                     THEN "observe" ELSE "write"
         /\ call'[t] = c /\ then'[t] = next /\ found'[t] = found[t]
         /\ Alone(t)
  BY DEF ThreadTypes, Emit, Alone

(* A call that ends is recorded as ended, and its thread is free. *)
LEMMA Leaves ==
  ASSUME ThreadTypes, NEW t \in Threads, NEW how, Leave(t, how)
  PROVE  /\ pc'[t] = "idle" /\ call'[t] = NoCall /\ then'[t] = "none" /\ found'[t] = {}
         /\ ended' = ended \cup {[inv |-> call[t].inv, how |-> how]}
         /\ Alone(t)
  BY DEF ThreadTypes, Leave, Alone

(* They keep the threads well typed. *)
LEMMA ContinueTyped ==
  ASSUME ThreadTypes, NEW t \in Threads, NEW label \in Inside, NEW c \in Invocation,
         Resolves(c.req), Continue(t, label, c)
  PROVE  ThreadTypes'
  BY DEF ThreadTypes, Continue, Inside, CallTypes

(* So does handing an event to the sinks... *)
LEMMA EmitTyped ==
  ASSUME ThreadTypes, NEW t \in Threads, NEW c \in Invocation, Resolves(c.req),
         NEW next \in Nexts, Emit(t, c, next)
  PROVE  ThreadTypes'
  BY DEF ThreadTypes, Emit, Inside, CallTypes, Labels

(* ...and leaving. *)
LEMMA LeaveTyped ==
  ASSUME ThreadTypes, NEW t \in Threads, NEW how, Leave(t, how)
  PROVE  ThreadTypes'
  BY DEF ThreadTypes, Leave, Inside, CallTypes, Labels, Nexts
-----------------------------------------------------------------------------
(* A call inside the pipeline is a whole one, for an agent the breaker and *)
(* the ledger know; the steps of the pipeline write to its fields.         *)
LEMMA InsideCall ==
  ASSUME ThreadTypes, NEW t \in Threads, pc[t] \in Inside
  PROVE  /\ call[t] \in Invocation /\ Resolves(call[t].req)
         /\ call[t].req \in Requests
         /\ Agent(t) \in Agents /\ call[t].req.tool \in Tools /\ call[t].req.args \in Args
         /\ Key(t) \in LedgerKeys
         /\ call[t].inv \in Nat
<1>1. call[t] \in Invocation /\ Resolves(call[t].req)
  BY DEF ThreadTypes
<1>2. call[t].req \in Requests /\ call[t].inv \in Nat
  BY <1>1 DEF Invocation
<1> QED
  BY <1>1, <1>2, RuntimeAssumption DEF Resolves, Agent, Key, LedgerKeys

(* Writing one field of an invocation leaves an invocation for the same    *)
(* request.                                                                *)
LEMMA FieldWritten ==
  ASSUME NEW c \in Invocation
  PROVE  /\ \A e \in Errors : /\ [c EXCEPT !.error = e] \in Invocation
                              /\ [c EXCEPT !.error = e].req = c.req
         /\ \A d \in Decisions : /\ [c EXCEPT !.decision = d] \in Invocation
                                 /\ [c EXCEPT !.decision = d].req = c.req
         /\ \A d \in Decisions, e \in Errors :
              /\ [c EXCEPT !.decision = d, !.error = e] \in Invocation
              /\ [c EXCEPT !.decision = d, !.error = e].req = c.req
         /\ \A d \in Decisions, b \in Approvals :
              /\ [c EXCEPT !.decision = d, !.by = b] \in Invocation
              /\ [c EXCEPT !.decision = d, !.by = b].req = c.req
         /\ \A n \in Nat : /\ [c EXCEPT !.epoch = n] \in Invocation
                           /\ [c EXCEPT !.epoch = n].req = c.req
         /\ \A b \in BOOLEAN : /\ [c EXCEPT !.ran = b] \in Invocation
                               /\ [c EXCEPT !.ran = b].req = c.req
  BY DEF Invocation

(* Refusing is emitting the event with an error.                           *)
LEMMA RefuseTyped ==
  ASSUME ThreadTypes, NEW t \in Threads, pc[t] \in Inside, NEW e \in Errors, Refuse(t, e)
  PROVE  ThreadTypes'
<1> DEFINE c == [call[t] EXCEPT !.error = e]
<1>1. call[t] \in Invocation /\ Resolves(call[t].req)
  BY InsideCall
<1>2. c \in Invocation /\ Resolves(c.req)
  BY <1>1, FieldWritten
<1>3. Emit(t, c, "raise") /\ "raise" \in Nexts
  BY DEF Refuse, Nexts
<1> HIDE DEF c
<1> QED BY <1>2, <1>3, EmitTyped

(* Tripping keeps the breaker well typed. *)
LEMMA TripTyped ==
  ASSUME BreakerTypes, now \in Nat, NEW k \in Agents \cup LedgerKeys, TripBreaker(k)
  PROVE  BreakerTypes' /\ now' = now
  BY DEF BreakerTypes, TripBreaker, CB!Trip

(* Every step keeps the threads, the breaker and the counters well typed.  *)
LEMMA ControlStep == Control /\ [Next]_vars => Control'
<1> SUFFICES ASSUME Control, [Next]_vars PROVE Control'
  OBVIOUS
<1> USE DEF At
<1>a. ThreadTypes /\ BreakerTypes /\ started \in Nat /\ now \in Nat
  BY DEF Control
<1>b. ASSUME ThreadTypes', UNCHANGED <<trippedAt, trips>>, started' = started, now' = now
      PROVE Control'
  BY <1>a, <1>b DEF Control, BreakerTypes
<1>c. ASSUME NEW t \in Threads, pc[t] \in Inside,
             (\E e \in Errors : Refuse(t, e)) \/ (\E how : Leave(t, how))
      PROVE  ThreadTypes'
  BY <1>a, <1>c, RefuseTyped, LeaveTyped
<1>d. ASSUME NEW t \in Threads, pc[t] \in Inside, NEW label \in Inside,
             \/ Continue(t, label, call[t])
             \/ \E d \in Decisions : Continue(t, label, [call[t] EXCEPT !.decision = d])
             \/ \E d \in Decisions, b \in Approvals :
                  Continue(t, label, [call[t] EXCEPT !.decision = d, !.by = b])
      PROVE  ThreadTypes'
  <2>1. call[t] \in Invocation /\ Resolves(call[t].req)
    BY <1>a, <1>d, InsideCall
  <2>2. CASE Continue(t, label, call[t])
    BY <1>a, <2>1, <2>2, ContinueTyped
  <2>3. CASE \E d \in Decisions : Continue(t, label, [call[t] EXCEPT !.decision = d])
    <3>1. PICK d, c :
            d \in Decisions /\ c = [call[t] EXCEPT !.decision = d] /\ Continue(t, label, c)
      BY <2>3
    <3>2. c \in Invocation /\ c.req = call[t].req
      BY <2>1, <3>1, FieldWritten
    <3> QED BY <1>a, <2>1, <3>1, <3>2, ContinueTyped
  <2>4. CASE \E d \in Decisions, b \in Approvals :
               Continue(t, label, [call[t] EXCEPT !.decision = d, !.by = b])
    <3>1. PICK d, b, c :
            /\ d \in Decisions /\ b \in Approvals
            /\ c = [call[t] EXCEPT !.decision = d, !.by = b] /\ Continue(t, label, c)
      BY <2>4
    <3>2. c \in Invocation /\ c.req = call[t].req
      BY <2>1, <3>1, FieldWritten
    <3> QED BY <1>a, <2>1, <3>1, <3>2, ContinueTyped
  <2> QED BY <1>d, <2>2, <2>3, <2>4
<1>1. ASSUME NEW t \in Threads, KillSwitch(t) PROVE Control'
  <2>1. /\ pc[t] \in Inside /\ trips' = trips /\ started' = started
        /\ call[t] \in Invocation /\ Resolves(call[t].req) /\ Agent(t) \in Agents
    BY <1>a, <1>1, InsideCall DEF KillSwitch, breaker, history, Inside, Labels
  <2>2. CASE Has("breaker")
    <3>1. PICK open \in BOOLEAN :
            /\ CB!IsOpen(BreakerKey(t), open)
            /\ IF open THEN Refuse(t, "circuit_breaker_open")
               ELSE Continue(t, "budget", [call[t] EXCEPT !.epoch = trips[Agent(t)]])
      BY <1>1, <2>2 DEF KillSwitch
    <3>2. BreakerTypes' /\ now' = now
      BY <1>a, <2>1, <3>1 DEF CB!IsOpen, BreakerTypes, BreakerKey
    <3>3. trips[Agent(t)] \in Nat
      BY <1>a, <2>1 DEF BreakerTypes
    <3>4. ThreadTypes'
      <4>1. CASE open
        BY <1>a, <2>1, <3>1, <4>1, RefuseTyped DEF Errors
      <4>2. CASE ~open
        BY <1>a, <2>1, <3>1, <3>3, <4>2, FieldWritten, ContinueTyped DEF Inside, Labels
      <4> QED BY <4>1, <4>2
    <3> QED BY <1>a, <2>1, <3>2, <3>4 DEF Control
  <2>3. CASE ~Has("breaker")
    BY <1>a, <1>1, <1>b, <2>1, <2>3, ContinueTyped DEF KillSwitch, Inside, Labels
  <2> QED BY <2>2, <2>3
<1>2. ASSUME NEW t \in Threads, BudgetGate(t) PROVE Control'
  <2>1. /\ pc[t] \in Inside /\ UNCHANGED <<trips, trippedAt>> /\ started' = started
        /\ now' = now /\ call[t] \in Invocation /\ Resolves(call[t].req)
    BY <1>a, <1>2, InsideCall DEF BudgetGate, breaker, history, Inside, Labels, BL!Check, BL!Read
  <2>2. \/ Continue(t, "policy", call[t])
        \/ \E next \in Nexts : Emit(t, [call[t] EXCEPT !.error = "budget_exceeded"], next)
    BY <1>2 DEF BudgetGate, Nexts
  <2>3. ThreadTypes'
    <3>1. CASE Continue(t, "policy", call[t])
      BY <1>a, <2>1, <3>1, ContinueTyped DEF Inside, Labels
    <3>2. CASE \E next \in Nexts : Emit(t, [call[t] EXCEPT !.error = "budget_exceeded"], next)
      <4>1. "budget_exceeded" \in Errors
        BY DEF Errors
      <4> QED BY <1>a, <2>1, <3>2, <4>1, FieldWritten, EmitTyped
    <3> QED BY <2>2, <3>1, <3>2
  <2> QED BY <1>b, <2>1, <2>3
<1>3. ASSUME NEW t \in Threads, BudgetTrip(t) PROVE Control'
  BY <1>a, <1>3, LeaveTyped, TripTyped, InsideCall DEF BudgetTrip, Control, Inside, Labels
<1>4. ASSUME NEW t \in Threads, PolicyGates(t) PROVE Control'
  <2>1. /\ pc[t] \in Inside /\ UNCHANGED <<trips, trippedAt>> /\ started' = started
        /\ now' = now /\ call[t] \in Invocation /\ Resolves(call[t].req)
    BY <1>a, <1>4, InsideCall DEF PolicyGates, breaker, Inside, Labels
  <2>2. \/ \E e \in Errors : Refuse(t, e)
        \/ Continue(t, "approval", [call[t] EXCEPT !.decision = "require_approval"])
        \/ Continue(t, "arguments", call[t])
        \/ Leave(t, "raised")
    BY <1>4 DEF PolicyGates, Errors
  <2>3. ThreadTypes'
    <3>1. {"approval", "arguments"} \subseteq Inside /\ "require_approval" \in Decisions
      BY DEF Inside, Labels, Decisions
    <3> QED BY <1>c, <1>d, <2>1, <2>2, <3>1
  <2> QED BY <1>b, <2>1, <2>3
<1>5. ASSUME NEW t \in Threads, ReplayApproval(t) PROVE Control'
  <2>1. /\ pc[t] \in Inside /\ UNCHANGED <<trips, trippedAt>> /\ started' = started
        /\ now' = now /\ call[t] \in Invocation /\ Resolves(call[t].req)
    BY <1>a, <1>5, InsideCall
       DEF ReplayApproval, breaker, history, Inside, Labels, AS!Consume, AS!Refuse
  <2>2. \/ Refuse(t, "invalid_or_mismatched_approval_token")
        \/ /\ call[t].req.token \in TokenIds
           /\ Continue(t, "arguments",
                       [call[t] EXCEPT !.decision = "allow", !.by = call[t].req.token])
    BY <1>5 DEF ReplayApproval
  <2>3. ThreadTypes'
    <3>1. /\ "arguments" \in Inside /\ "allow" \in Decisions /\ TokenIds \subseteq Approvals
          /\ "invalid_or_mismatched_approval_token" \in Errors
      BY DEF Inside, Labels, Decisions, Approvals, Errors
    <3>2. CASE Refuse(t, "invalid_or_mismatched_approval_token")
      BY <1>c, <2>1, <3>1, <3>2
    <3>3. CASE ~Refuse(t, "invalid_or_mismatched_approval_token")
      BY <1>d, <2>1, <2>2, <3>1, <3>3
    <3> QED BY <3>2, <3>3
  <2> QED BY <1>b, <2>1, <2>3
<1>6. ASSUME NEW t \in Threads, AskHandler(t) PROVE Control'
  <2>1. /\ pc[t] \in Inside /\ UNCHANGED <<trips, trippedAt>> /\ started' = started
        /\ now' = now /\ call[t] \in Invocation /\ Resolves(call[t].req)
    BY <1>a, <1>6, InsideCall DEF AskHandler, breaker, Inside, Labels
  <2>2. \/ Refuse(t, "denied_by_approval_handler")
        \/ Continue(t, "arguments", [call[t] EXCEPT !.decision = "allow", !.by = "handler"])
        \/ Leave(t, "raised")
    BY <1>6 DEF AskHandler
  <2>3. ThreadTypes'
    <3>1. /\ "arguments" \in Inside /\ "allow" \in Decisions /\ "handler" \in Approvals
          /\ "denied_by_approval_handler" \in Errors
      BY DEF Inside, Labels, Decisions, Approvals, Errors
    <3>2. CASE Refuse(t, "denied_by_approval_handler") \/ Leave(t, "raised")
      BY <1>c, <2>1, <3>1, <3>2
    <3>3. CASE Continue(t, "arguments", [call[t] EXCEPT !.decision = "allow", !.by = "handler"])
      BY <1>d, <2>1, <3>1, <3>3
    <3> QED BY <2>2, <3>2, <3>3
  <2> QED BY <1>b, <2>1, <2>3
<1>7. ASSUME NEW t \in Threads, Pause(t) PROVE Control'
  <2>1. /\ pc[t] \in Inside /\ UNCHANGED <<trips, trippedAt>> /\ started' = started
        /\ now' = now /\ Refuse(t, "require_approval_pending")
    BY <1>a, <1>7 DEF Pause, breaker, history, Inside, Labels, AS!Issue
  <2> QED BY <1>a, <1>b, <2>1, RefuseTyped DEF Errors
<1>8. ASSUME NEW t \in Threads, EnforceArguments(t) PROVE Control'
  <2>1. /\ pc[t] \in Inside /\ UNCHANGED <<trips, trippedAt>> /\ started' = started
        /\ now' = now /\ call[t] \in Invocation /\ Resolves(call[t].req)
    BY <1>a, <1>8, InsideCall DEF EnforceArguments, breaker, history, Inside, Labels
  <2>2. ThreadTypes'
    <3>1. "dispatch" \in Inside /\ "deny" \in Decisions /\ "capability_violation" \in Errors
          /\ "raise" \in Nexts
      BY DEF Inside, Labels, Decisions, Errors, Nexts
    <3>2. CASE Continue(t, "dispatch", call[t])
      BY <1>d, <2>1, <3>1, <3>2
    <3>3. CASE ~Continue(t, "dispatch", call[t])
      <4>1. PICK c : /\ c = [call[t] EXCEPT !.decision = "deny", !.error = "capability_violation"]
                     /\ Emit(t, c, "raise")
        BY <1>8, <3>3 DEF EnforceArguments
      <4>2. c \in Invocation /\ c.req = call[t].req
        BY <2>1, <3>1, <4>1 DEF Invocation
      <4> QED BY <1>a, <2>1, <3>1, <4>1, <4>2, EmitTyped
    <3> QED BY <3>2, <3>3
  <2> QED BY <1>b, <2>1, <2>2
<1>9. ASSUME NEW t \in Threads, Dispatch(t) PROVE Control'
  <2>1. /\ pc[t] \in Inside /\ UNCHANGED <<trips, trippedAt>> /\ started' = started
        /\ now' = now /\ call[t] \in Invocation /\ Resolves(call[t].req)
    BY <1>a, <1>9, InsideCall DEF Dispatch, breaker, history, Inside, Labels
  <2>2. ThreadTypes'
    BY <1>9, <1>a, <2>1, ContinueTyped, FieldWritten DEF Dispatch, Inside, Labels
  <2> QED BY <1>b, <2>1, <2>2
<1>10. ASSUME NEW t \in Threads, ToolReturns(t) PROVE Control'
  <2>1. /\ pc[t] \in Inside /\ UNCHANGED <<trips, trippedAt>> /\ started' = started
        /\ now' = now /\ call[t] \in Invocation /\ Resolves(call[t].req)
    BY <1>a, <1>10, InsideCall DEF ToolReturns, breaker, history, Inside, Labels, BL!Charge
  <2>2. Emit(t, call[t], "return") \/ Refuse(t, "BudgetExceeded")
    BY <1>10 DEF ToolReturns
  <2>3. ThreadTypes'
    BY <1>a, <2>1, <2>2, EmitTyped, RefuseTyped DEF Errors, Nexts
  <2> QED BY <1>b, <2>1, <2>3
<1>11. ASSUME NEW t \in Threads, ToolRaises(t) PROVE Control'
  BY <1>11, <1>a, <1>b, RefuseTyped DEF ToolRaises, breaker, history, Inside, Labels, Errors
<1>12. ASSUME NEW t \in Threads, Observe(t) PROVE Control'
  <2>1. /\ pc[t] \in Inside /\ UNCHANGED <<trips, trippedAt, call, then>>
        /\ started' = started /\ now' = now
        /\ found' \in [Threads -> SUBSET AP!Kinds]
        /\ \E label \in Inside : pc' = [pc EXCEPT ![t] = label]
    BY <1>a, <1>12 DEF ThreadTypes, Observe, breaker, history, Inside, Labels, AP!Anomalies, AP!AnomaliesAt
  <2>2. ThreadTypes'
    BY <1>a, <2>1 DEF ThreadTypes, Inside
  <2> QED BY <1>b, <2>1, <2>2
<1>13. ASSUME NEW t \in Threads, MonitorTrip(t) PROVE Control'
  <2>1. pc[t] \in Inside /\ Agent(t) \in Agents
    BY <1>a, <1>13, InsideCall DEF MonitorTrip, Inside, Labels
  <2>2. ThreadTypes'
    BY <1>a, <1>13, <2>1 DEF ThreadTypes, MonitorTrip, Inside, Labels
  <2>3. started' = started
    BY <1>13 DEF MonitorTrip, history
  <2> QED BY <1>a, <1>13, <2>1, <2>2, <2>3, TripTyped DEF MonitorTrip, Control
<1>14. ASSUME NEW t \in Threads, Write(t) PROVE Control'
  <2>1. UNCHANGED <<trips, trippedAt>> /\ started' = started /\ now' = now
    BY <1>14 DEF Write, breaker
  <2>2. CASE then[t] = "budget_trip"
    BY <1>a, <1>b, <1>14, <2>1, <2>2 DEF ThreadTypes, Write, Inside, Labels
  <2>3. CASE then[t] # "budget_trip"
    BY <1>a, <1>b, <1>14, <2>1, <2>3, LeaveTyped DEF Write
  <2> QED BY <2>2, <2>3
<1>15. ASSUME NEW t \in Threads, WriteFails(t) PROVE Control'
  <2>1. /\ UNCHANGED <<trips, trippedAt>> /\ started' = started /\ now' = now
        /\ Refuse(t, "sink_error") \/ Leave(t, "raised")
        /\ pc[t] \in Inside
    BY <1>15 DEF WriteFails, breaker, Inside, Labels
  <2> QED BY <1>a, <1>b, <2>1, LeaveTyped, RefuseTyped DEF Errors
<1>16. ASSUME NEW t \in Threads, ReportTrip(t) PROVE Control'
  <2>1. /\ Continue(t, "idle", NoCall) /\ TripBreaker(Key(t)) /\ started' = started
        /\ pc[t] = "report_trip"
    BY <1>16 DEF ReportTrip, history
  <2>2. Key(t) \in LedgerKeys
    BY <1>a, <2>1 DEF ThreadTypes, Report, Key, Agent, LedgerKeys
  <2>3. ThreadTypes'
    BY <1>a, <2>1 DEF ThreadTypes, Continue, Inside, Labels, CallTypes
  <2> QED BY <1>a, <2>1, <2>2, <2>3, TripTyped DEF Control
<1>17. ASSUME NEW t \in Threads, NEW r \in Requests, Invoke(t, r) PROVE Control'
  <2>1. UNCHANGED <<trips, trippedAt>> /\ started' = started + 1 /\ now' = now
    BY <1>17 DEF Invoke, breaker
  <2>2. ThreadTypes'
    <3>1. CASE Resolves(r)
      <4>1. NewCall(r) \in Invocation /\ NewCall(r).req = r
        BY <1>a DEF NewCall, Invocation, Decisions, Errors, Approvals
      <4> QED BY <1>a, <1>17, <3>1, <4>1, ContinueTyped DEF Invoke, Inside, Labels
    <3>2. CASE ~Resolves(r)
      BY <1>a, <1>17, <3>2 DEF Invoke, thread, ThreadTypes
    <3> QED BY <3>1, <3>2
  <2> QED BY <1>a, <2>1, <2>2 DEF Control, BreakerTypes
<1>18. ASSUME NEW t \in Threads, NEW a \in Agents, NEW delta \in Reports,
              ReportUsage(t, a, delta)
       PROVE Control'
  <2>1. UNCHANGED <<trips, trippedAt>> /\ started' = started + 1 /\ now' = now
    BY <1>18 DEF ReportUsage, breaker, BL!Charge
  <2>2. \/ Continue(t, "report_trip", [inv |-> 0, req |-> [agent |-> a]])
        \/ UNCHANGED thread
    BY <1>18 DEF ReportUsage
  <2>3. ThreadTypes'
    <3>1. CASE Continue(t, "report_trip", [inv |-> 0, req |-> [agent |-> a]])
      <4>1. [inv |-> 0, req |-> [agent |-> a]] \in Report
        BY DEF Report
      <4> QED BY <1>a, <3>1, <4>1 DEF ThreadTypes, Continue, Inside, Labels, CallTypes
    <3>2. CASE UNCHANGED thread
      BY <1>a, <3>2 DEF thread, ThreadTypes
    <3> QED BY <2>2, <3>1, <3>2
  <2> QED BY <1>a, <2>1, <2>3 DEF Control, BreakerTypes
<1>19. ASSUME NEW id \in TokenIds, Review(id) PROVE Control'
  BY <1>a, <1>19
     DEF Review, Control, ThreadTypes, BreakerTypes, thread, breaker, history,
         AS!Approve, AS!Reject, AS!Transition
<1>20. ASSUME NEW a \in Agents, ResetBreaker(a) PROVE Control'
  BY <1>a, <1>20
     DEF ResetBreaker, Control, ThreadTypes, BreakerTypes, thread, history, CB!Reset
<1>21. ASSUME NEW k \in LedgerKeys, ResetBudget(k) PROVE Control'
  BY <1>a, <1>21
     DEF ResetBudget, Control, ThreadTypes, BreakerTypes, thread, breaker, history, BL!Reset
<1>22. CASE Tick
  BY <1>a, <1>22 DEF Tick, Control, ThreadTypes, BreakerTypes, thread, breaker, history
<1>23. CASE UNCHANGED vars
  BY <1>a, <1>23 DEF vars, Control, ThreadTypes, BreakerTypes, thread, breaker, history
<1> QED
  BY <1>1, <1>2, <1>3, <1>4, <1>5, <1>6, <1>7, <1>8, <1>9, <1>10, <1>11, <1>12, <1>13,
     <1>14, <1>15, <1>16, <1>17, <1>18, <1>19, <1>20, <1>21, <1>22, <1>23 DEF Next, Step

(* They start well typed... *)
LEMMA ControlInit == Init => Control
<1> QED
  BY RuntimeAssumption
     DEF Init, AS!Init, CB!Init, Control, ThreadTypes, BreakerTypes, CallTypes, Labels, Nexts,
         Inside

(* ...and stay so. *)
LEMMA ControlAlways == Spec => []Control
  BY ControlInit, ControlStep, PTL DEF Spec
-----------------------------------------------------------------------------
(* The threads and operators use the store through its operations; nobody  *)
(* writes to a token.                                                      *)
StoreMove ==
  \/ \E id \in TokenIds, agent \in Agents, tool \in Tools, args \in Args :
       AS!Call(id, agent, tool, args)
  \/ \E id \in TokenIds : AS!Approve(id) \/ AS!Reject(id)
  \/ AS!Tick
  \/ UNCHANGED AS!vars

LEMMA StoreMoves == ASSUME Control, [Next]_vars PROVE StoreMove
<1> USE DEF At, AS!vars
<1>a. ThreadTypes /\ now \in Nat
  BY DEF Control
<1>1. ASSUME NEW t \in Threads, ReplayApproval(t) PROVE StoreMove
  <2> DEFINE r == call[t].req
  <2>1. r.agent \in Agents /\ r.tool \in Tools /\ r.args \in Args
    BY <1>a, <1>1, InsideCall DEF ReplayApproval, Agent, Inside, Labels
  <2>2. \/ r.token \in TokenIds /\ AS!Consume(r.token, r.agent, r.tool, r.args)
        \/ AS!Refuse(r.token, r.agent, r.tool, r.args)
    BY <1>1 DEF ReplayApproval
  <2>3. CASE r.token \in TokenIds
    BY <2>1, <2>2, <2>3 DEF StoreMove, AS!Call
  <2>4. CASE r.token \notin TokenIds
    BY <2>2, <2>4 DEF AS!Refuse, AS!Presentable, AS!Held, StoreMove
  <2> QED BY <2>3, <2>4
<1>2. ASSUME NEW t \in Threads, Pause(t) PROVE StoreMove
  <2> DEFINE r == call[t].req
  <2>1. r.agent \in Agents /\ r.tool \in Tools /\ r.args \in Args
    BY <1>a, <1>2, InsideCall DEF Pause, Agent, Inside, Labels
  <2>2. \/ \E id \in TokenIds : AS!Issue(id, r.agent, r.tool, r.args, NoTtl, now)
        \/ UNCHANGED AS!vars
    BY <1>2 DEF Pause, store
  <2>3. NoTtl \in Ttls /\ now \in 0..now
    BY <1>a, StoreAssumption
  <2> QED BY <2>1, <2>2, <2>3 DEF StoreMove, AS!Call
<1>3. ASSUME NEW id \in TokenIds, Review(id) PROVE StoreMove
  BY <1>3 DEF Review, StoreMove
<1>4. CASE Tick
  BY <1>4 DEF Tick, store, StoreMove, AS!Tick
<1>5. ASSUME NEW t \in Threads, Step(t), ~ReplayApproval(t), ~Pause(t)
      PROVE UNCHANGED AS!vars
  BY <1>5
     DEF Step, store, KillSwitch, BudgetGate, BudgetTrip, PolicyGates, AskHandler,
         EnforceArguments, Dispatch, ToolReturns, ToolRaises, Observe, MonitorTrip, Write,
         WriteFails, ReportTrip, TripBreaker, CB!IsOpen, CB!Trip, BL!Check, BL!Read,
         BL!Charge
<1>6. ASSUME NEW t \in Threads, NEW r \in Requests, Invoke(t, r) PROVE UNCHANGED AS!vars
  BY <1>6 DEF Invoke, store
<1>7. ASSUME NEW t \in Threads, NEW a \in Agents, NEW delta \in Reports,
             ReportUsage(t, a, delta)
      PROVE UNCHANGED AS!vars
  BY <1>7 DEF ReportUsage, store, BL!Charge
<1>8. ASSUME NEW a \in Agents, ResetBreaker(a) PROVE UNCHANGED AS!vars
  BY <1>8 DEF ResetBreaker, store, CB!Reset
<1>9. ASSUME NEW k \in LedgerKeys, ResetBudget(k) PROVE UNCHANGED AS!vars
  BY <1>9 DEF ResetBudget, store, BL!Reset
<1>10. ASSUME UNCHANGED vars PROVE UNCHANGED AS!vars
  BY <1>10 DEF vars, store
<1> QED
  BY <1>1, <1>2, <1>3, <1>4, <1>5, <1>6, <1>7, <1>8, <1>9, <1>10
     DEF Next, StoreMove

(* Whatever the pipeline and its threads do, the store they share is used  *)
(* through its operations only: a runtime behaves as an approval store.    *)
THEOREM StoreUsed == Spec => AS!Spec
<1>1. Init => AS!Init
  BY DEF Init
<1>2. Control /\ [Next]_vars => [AS!Next]_(AS!vars)
  BY StoreMoves DEF StoreMove, AS!Next
<1> QED
  BY <1>1, <1>2, ControlAlways, PTL DEF Spec, AS!Spec

(* What the store's proofs assume of its constants, the runtime assumes.   *)
LEMMA StoreConstants ==
  /\ ArgsDigest \in [Args -> Digests]
  /\ NoTtl \notin Int /\ Ttls \subseteq Int \cup {NoTtl} /\ DefaultTtl \in Int
  /\ MaxTime \in Nat
  /\ NoToken \notin ASP!Token \cup ASP!Payload
  BY StoreAssumption
     DEF AS!Token, ASP!Token, AS!Payload, ASP!Payload, AS!Status, ASP!Status

(* What is proved of the store, and that nobody overwrites a status.       *)
StoreInv == ASP!IInv /\ \A id \in TokenIds : ~ASP!Overwritten(id)

LEMMA Marks == ASSUME Control, ASP!TypeOK, [Next]_vars, NEW k \in TokenIds, ~ASP!Overwritten(k)
               PROVE  ~ASP!Overwritten(k)'
<1> USE DEF ASP!Overwritten
<1>1. ASSUME NEW id \in TokenIds, AS!Approve(id) \/ AS!Reject(id) PROVE ~ASP!Overwritten(k)'
  <2>1. verdicts'[k] = verdicts[k] \/ \E st \in {"approved", "rejected"} :
                                         verdicts'[k] = verdicts[k] \cup {st}
    BY <1>1 DEF AS!Approve, AS!Reject, AS!Transition, ASP!TypeOK
  <2> QED BY <2>1
<1>2. CASE UNCHANGED verdicts
  BY <1>2
<1>3. ASSUME NEW id \in TokenIds, NEW agent \in Agents, NEW tool \in Tools, NEW args \in Args,
             AS!Call(id, agent, tool, args)
      PROVE  UNCHANGED verdicts
  BY <1>3 DEF AS!Call, AS!Issue, AS!Consume, AS!Refuse
<1> QED BY <1>1, <1>2, <1>3, StoreMoves DEF StoreMove, AS!Tick, AS!vars

(* So what is proved of the store holds of the runtime's: its inductive    *)
(* invariant is one of the runtime.                                        *)
LEMMA StoreInvariant == Spec => []StoreInv
<1>1. AS!Init => StoreInv
  BY StoreConstants, ASP!StoreInit DEF AS!Init, ASP!Init, ASP!Overwritten, StoreInv
<1>2. ASP!IInv /\ [AS!Next]_(AS!vars) => ASP!IInv'
  <2>1. AS!Next => ASP!Next
    BY DEF AS!Next, ASP!Next, AS!Call, ASP!Call, AS!Issue, ASP!Issue, AS!Consume, ASP!Consume,
           AS!Refuse, ASP!Refuse, AS!Approve, ASP!Approve, AS!Reject, ASP!Reject,
           AS!Transition, ASP!Transition, AS!Rewrite, ASP!Rewrite, AS!Overwrite, ASP!Overwrite,
           AS!Overwritten, ASP!Overwritten, AS!Cardinality, ASP!Cardinality,
           AS!Status, ASP!Status, AS!Tick, ASP!Tick,
           AS!RewrittenPayload, ASP!RewrittenPayload, AS!Binding, ASP!Binding,
           AS!EffectiveTtl, ASP!EffectiveTtl, AS!Held, ASP!Held, AS!Undecided, ASP!Undecided,
           AS!IsExpired, ASP!IsExpired, AS!Presentable, ASP!Presentable,
           AS!Consumable, ASP!Consumable, AS!Matches, ASP!Matches
  <2>2. [AS!Next]_(AS!vars) => [ASP!Next]_(ASP!vars)
    BY <2>1 DEF AS!vars, ASP!vars
  <2> QED BY <2>2, StoreConstants, ASP!StoreStep, SMTT(30)
<1>3. StoreInv /\ Control /\ [Next]_vars => StoreInv'
  <2> SUFFICES ASSUME StoreInv, Control, [Next]_vars PROVE StoreInv'
    OBVIOUS
  <2>1. [AS!Next]_(AS!vars)
    BY StoreMoves DEF StoreMove, AS!Next
  <2>2. ASP!IInv /\ ASP!TypeOK /\ \A id \in TokenIds : ~ASP!Overwritten(id)
    BY DEF StoreInv, ASP!IInv
  <2>3. ASP!IInv'
    BY <1>2, <2>1, <2>2
  <2>4. ASSUME NEW id \in TokenIds PROVE ~ASP!Overwritten(id)'
    BY <2>2, Marks
  <2> QED BY <2>3, <2>4 DEF StoreInv
<1> QED BY <1>1, <1>3, ControlAlways, PTL DEF Spec, Init
-----------------------------------------------------------------------------
(* Nobody writes to the tokens of the runtime, and one is only marked      *)
(* expired when its time is over.                                          *)
Pristine(id) ==
  tokens[id] # NoToken =>
    /\ tokens[id].payload = bound[id]
    /\ tokens[id].status = "expired" => bound[id].expires_at <= now

Untouched == \A id \in TokenIds : Pristine(id)

(* A token that gets a new status keeps what it was issued with.           *)
LEMMA StatusKeepsPristine ==
  ASSUME ASP!TypeOK, NEW id \in TokenIds, Pristine(id), NEW k \in TokenIds, Pristine(k),
         tokens[id] # NoToken, NEW st, tokens' = [tokens EXCEPT ![id].status = st],
         st = "expired" => AS!IsExpired(tokens[id]), UNCHANGED <<now, bound>>
  PROVE  Pristine(k)'
<1>1. tokens[id] \in ASP!Token /\ bound[id] \in ASP!Payload \cup {NoToken} /\ now \in Int
  BY DEF ASP!TypeOK
<1>2. k # id => tokens'[k] = tokens[k]
  BY DEF ASP!TypeOK
<1>3. tokens'[id] = [tokens[id] EXCEPT !.status = st]
  BY DEF ASP!TypeOK
<1>4. tokens'[id].payload = tokens[id].payload /\ tokens'[id].status = st
  BY <1>1, <1>3 DEF ASP!Token
<1>5. tokens[id].payload.expires_at \in Int
  BY <1>1 DEF ASP!Token, ASP!Payload
<1> QED BY <1>2, <1>4, <1>5 DEF Pristine, AS!IsExpired

LEMMA UntouchedStep == Control /\ StoreInv /\ Untouched /\ [Next]_vars => Untouched'
<1> SUFFICES ASSUME Control, StoreInv, \A id \in TokenIds : Pristine(id), [Next]_vars,
                    NEW k \in TokenIds
             PROVE  Pristine(k)'
  BY DEF Untouched
<1>a. ASP!TypeOK
  BY DEF StoreInv, ASP!IInv
<1>1. ASSUME NEW id \in TokenIds, NEW agent \in Agents, NEW tool \in Tools, NEW args \in Args,
             AS!Call(id, agent, tool, args)
      PROVE  Pristine(k)'
  <2>1. CASE \E ttl \in Ttls, at \in 0..now : AS!Issue(id, agent, tool, args, ttl, at)
    <3>1. PICK payload : /\ tokens' = [tokens EXCEPT ![id] = [payload |-> payload,
                                         signature |-> payload, status |-> "pending"]]
                         /\ bound' = [bound EXCEPT ![id] = payload]
      BY <2>1 DEF AS!Issue
    <3>2. k # id => tokens'[k] = tokens[k] /\ bound'[k] = bound[k]
      BY <1>a, <3>1 DEF ASP!TypeOK
    <3>3. /\ tokens'[id] = [payload |-> payload, signature |-> payload, status |-> "pending"]
          /\ bound'[id] = payload
      BY <1>a, <3>1 DEF ASP!TypeOK
    <3>4. now' = now
      BY <2>1 DEF AS!Issue
    <3> QED BY <3>2, <3>3, <3>4 DEF Pristine
  <2>2. CASE AS!Consume(id, agent, tool, args)
    <3> DEFINE st == "consumed"
    <3>1. tokens[id] # NoToken
      BY <2>2 DEF AS!Consume, AS!Consumable, AS!Presentable, AS!Held
    <3>2. /\ tokens' = [tokens EXCEPT ![id].status = st]
          /\ UNCHANGED <<now, bound>>
      BY <2>2 DEF AS!Consume
    <3>3. st = "expired" => AS!IsExpired(tokens[id])
      OBVIOUS
    <3> HIDE DEF st
    <3> QED BY <1>a, <3>3, <3>1, <3>2, StatusKeepsPristine
  <2>3. CASE AS!Refuse(id, agent, tool, args)
    <3>1. CASE AS!Presentable(id) /\ AS!IsExpired(tokens[id])
      BY <1>a, <2>3, <3>1, StatusKeepsPristine DEF AS!Refuse, AS!Presentable, AS!Held
    <3>2. CASE ~(AS!Presentable(id) /\ AS!IsExpired(tokens[id]))
      BY <2>3, <3>2 DEF AS!Refuse, Pristine
    <3> QED BY <3>1, <3>2
  <2> QED BY <1>1, <2>1, <2>2, <2>3 DEF AS!Call
<1>2. ASSUME NEW id \in TokenIds, AS!Approve(id) \/ AS!Reject(id) PROVE Pristine(k)'
  <2>1. PICK st : /\ tokens' = [tokens EXCEPT ![id].status = st]
                  /\ st = "expired" => AS!IsExpired(tokens[id])
    BY <1>2 DEF AS!Approve, AS!Reject, AS!Transition
  <2>2. tokens[id] # NoToken /\ UNCHANGED <<now, bound>>
    BY <1>2 DEF AS!Approve, AS!Reject, AS!Transition, AS!Undecided, AS!Held
  <2> QED BY <1>a, <2>1, <2>2, StatusKeepsPristine
<1>3. CASE AS!Tick
  <2>1. UNCHANGED <<tokens, bound>> /\ now' = now + 1
    BY <1>3 DEF AS!Tick
  <2>2. now \in Int /\ bound[k] \in ASP!Payload \cup {NoToken}
    BY <1>a DEF ASP!TypeOK
  <2>3. tokens[k] # NoToken => bound[k].expires_at \in Int
    <3>1. tokens[k] # NoToken => bound[k] = tokens[k].signature /\ tokens[k] \in ASP!Token
      BY <1>a DEF StoreInv, ASP!IInv, ASP!Ledger, ASP!TypeOK
    <3> QED BY <3>1 DEF ASP!Token, ASP!Payload
  <2> QED BY <2>1, <2>2, <2>3 DEF Pristine
<1>4. CASE UNCHANGED AS!vars
  BY <1>4 DEF AS!vars, Pristine
<1> QED BY <1>1, <1>2, <1>3, <1>4, StoreMoves DEF StoreMove

(* What an operator approved, in time and for the first time, the store    *)
(* lets through.                                                           *)
LEMMA RedeemableIsConsumable ==
  ASSUME StoreInv, NEW r, Redeemable(r), Pristine(r.token)
  PROVE  AS!Consumable(r.token, r.agent, r.tool, r.args)
<1> DEFINE id == r.token
<1>1. id \in TokenIds /\ verdicts[id] = {"approved"} /\ now < bound[id].expires_at
  BY DEF Redeemable
<1>2. tokens[id] # NoToken
  BY <1>1 DEF StoreInv, ASP!IInv, ASP!Ledger
<1>3. tokens[id] \in ASP!Token /\ now \in Int /\ bound[id] = tokens[id].signature
  BY <1>1, <1>2 DEF StoreInv, ASP!IInv, ASP!Ledger, ASP!TypeOK
<1>4. tokens[id].status \in ASP!Status /\ bound[id].expires_at \in Int
  BY <1>3 DEF ASP!Token, ASP!Payload
<1>5. tokens[id].status \notin {"pending", "rejected"}
  BY <1>1, <1>2 DEF StoreInv, ASP!IInv, ASP!Ledger
<1>6. tokens[id].status # "expired"
  BY <1>1, <1>2, <1>3, <1>4 DEF Pristine
<1>7. tokens[id].status # "consumed"
  BY <1>1, <1>2 DEF Redeemable, StoreInv, ASP!IInv, ASP!NoApprovalLost
<1>8. tokens[id].status = "approved"
  BY <1>4, <1>5, <1>6, <1>7 DEF ASP!Status
<1>9. tokens[id].payload = bound[id]
  BY <1>2 DEF Pristine
<1>10. ~AS!IsExpired(tokens[id])
  BY <1>1, <1>3, <1>4, <1>9 DEF AS!IsExpired
<1> QED
  BY <1>1, <1>2, <1>3, <1>8, <1>9, <1>10
     DEF AS!Consumable, AS!Presentable, AS!Held, AS!Matches, Redeemable

(* Only its own step takes a thread on from the approval step.             *)
LEMMA OnlyReplayMoves ==
  ASSUME Control, [Next]_vars, NEW t \in Threads, At(t, "approval"), ReplaysToken(t), pc'[t] # pc[t]
  PROVE  ReplayApproval(t)
<1> USE DEF At
<1>1. ASSUME NEW u \in Threads, u # t, Step(u) PROVE pc'[t] = pc[t]
  <2> USE DEF Control, ThreadTypes, Continue, Emit, Refuse, Leave
  <2>1. CASE KillSwitch(u) \/ BudgetGate(u) \/ BudgetTrip(u)
    BY <1>1, <2>1 DEF KillSwitch, BudgetGate, BudgetTrip
  <2>2. CASE PolicyGates(u)
    BY <1>1, <2>2 DEF PolicyGates
  <2>3. CASE ReplayApproval(u) \/ AskHandler(u) \/ Pause(u)
    BY <1>1, <2>3 DEF ReplayApproval, AskHandler, Pause
  <2>4. CASE EnforceArguments(u) \/ Dispatch(u) \/ ToolReturns(u) \/ ToolRaises(u)
    BY <1>1, <2>4 DEF EnforceArguments, Dispatch, ToolReturns, ToolRaises
  <2>5. CASE Observe(u) \/ MonitorTrip(u) \/ Write(u) \/ WriteFails(u) \/ ReportTrip(u)
    BY <1>1, <2>5 DEF Observe, MonitorTrip, Write, WriteFails, ReportTrip
  <2> HIDE DEF Control, ThreadTypes, Continue, Emit, Refuse, Leave
  <2> QED BY <1>1, <2>1, <2>2, <2>3, <2>4, <2>5 DEF Step
<1>2. ASSUME Step(t) PROVE ReplayApproval(t)
  BY <1>2
     DEF Step, KillSwitch, BudgetGate, BudgetTrip, PolicyGates, AskHandler, AsksHandler, Pause,
         EnforceArguments, Dispatch, ToolReturns, ToolRaises, Observe, MonitorTrip, Write,
         WriteFails, ReportTrip
<1>3. ASSUME NEW u \in Threads, NEW r \in Requests, Invoke(u, r) PROVE pc'[t] = pc[t]
  BY <1>3 DEF Control, ThreadTypes, Invoke, Continue, thread
<1>4. ASSUME NEW u \in Threads, NEW a \in Agents, NEW delta \in Reports,
             ReportUsage(u, a, delta)
      PROVE  pc'[t] = pc[t]
  BY <1>4 DEF Control, ThreadTypes, ReportUsage, Continue, thread
<1>5. ASSUME \/ \E id \in TokenIds : Review(id)
             \/ \E a \in Agents : ResetBreaker(a)
             \/ \E k \in LedgerKeys : ResetBudget(k)
             \/ Tick \/ UNCHANGED vars
      PROVE  pc'[t] = pc[t]
  BY <1>5 DEF Review, ResetBreaker, ResetBudget, Tick, vars, thread
<1> QED BY <1>1, <1>2, <1>3, <1>4, <1>5 DEF Next

(* A retry with the approved call, in time and for the first time, is let  *)
(* through: approving is not in vain, whatever else was presented.         *)
THEOREM RetriesHonoured == Spec => RetryHonoured
<1>1. Init => Untouched
  BY DEF Init, AS!Init, Pristine, Untouched
<1>2. Spec => []Untouched
  BY <1>1, UntouchedStep, ControlAlways, StoreInvariant, PTL DEF Spec
<1>3. ASSUME Control, StoreInv, Untouched, [Next]_vars, NEW t \in Threads,
             At(t, "approval"), ReplaysToken(t), pc'[t] # pc[t], Redeemable(call[t].req)
      PROVE  pc'[t] = "arguments"
  <2>1. AS!Consumable(call[t].req.token, call[t].req.agent, call[t].req.tool, call[t].req.args)
    BY <1>3, RedeemableIsConsumable DEF Redeemable, Untouched
  <2>2. call[t].req.token \in TokenIds /\ ReplayApproval(t)
    BY <1>3, OnlyReplayMoves DEF Redeemable
  <2> QED BY <1>3, <2>1, <2>2 DEF ReplayApproval, Continue, Control, ThreadTypes
<1>4. Control /\ StoreInv /\ Untouched /\ [Next]_vars
        => [\A t \in Threads :
                (At(t, "approval") /\ ReplaysToken(t) /\ pc'[t] # pc[t]
                   /\ Redeemable(call[t].req))
                  => pc'[t] = "arguments"]_vars
  BY <1>3
<1> QED
  BY <1>2, <1>4, ControlAlways, StoreInvariant, PTL DEF Spec, RetryHonoured
-----------------------------------------------------------------------------
(* Pruning a window leaves a window: the loop that drops aged entries      *)
(* stops at a definite place.                                              *)
LEMMA PrunedTyped ==
  ASSUME NEW s \in Seq(BL!Entry)
  PROVE  BL!Pruned(s) \in Seq(BL!Entry)
<1> DEFINE fresh == {i \in DOMAIN s : s[i].at >= now - Window}
<1> DEFINE m == CHOOSE i \in fresh : \A j \in fresh : i <= j
<1>1. CASE fresh = {}
  BY <1>1 DEF BL!Pruned
<1>2. CASE fresh # {}
  <2>1. fresh \in SUBSET Nat
    OBVIOUS
  <2>2. \E i \in fresh : \A j \in fresh : i <= j
    <3> HIDE DEF fresh
    <3> QED BY <1>2, <2>1, BLP!LeastOf
  <2>3. m \in fresh
    BY <2>2
  <2>4. m \in 1..Len(s)
    BY <2>3
  <2>5. BL!Pruned(s) = SubSeq(s, m, Len(s))
    BY <1>2 DEF BL!Pruned
  <2> HIDE DEF m, fresh
  <2> QED BY <2>4, <2>5
<1> QED BY <1>1, <1>2

(* A charge, a check and a reset keep the ledger well typed. *)
LEMMA LedgerTyped ==
  ASSUME BL!TypeOK, NEW k \in LedgerKeys
  PROVE  /\ \A ok \in BOOLEAN : BL!Check(k, ok) => BL!TypeOK'
         /\ \A ok \in BOOLEAN, delta \in BL!Spend : BL!Charge(k, delta, ok) => BL!TypeOK'
         /\ BL!Reset(k) => BL!TypeOK'
<1> USE DEF BL!TypeOK
<1>1. ASSUME NEW ok \in BOOLEAN, BL!Check(k, ok) PROVE BL!TypeOK'
  <2>1. BL!Pruned(events[k]) \in Seq(BL!Entry)
    BY PrunedTyped
  <2> QED BY <1>1, <2>1 DEF BL!Check, BL!Read
<1>2. ASSUME NEW ok \in BOOLEAN, NEW delta \in BL!Spend, BL!Charge(k, delta, ok) PROVE BL!TypeOK'
  <2> DEFINE entry == [at |-> now, spend |-> delta]
  <2>1. entry \in BL!Entry
    BY DEF BL!Entry
  <2>2. Append(events[k], entry) \in Seq(BL!Entry) /\ Append(charged[k], entry) \in Seq(BL!Entry)
    BY <2>1
  <2>3. BL!Pruned(Append(events[k], entry)) \in Seq(BL!Entry)
    BY <2>2, PrunedTyped
  <2>4. BL!Add(totals[k], delta) \in BL!Spend
    BY DEF BL!Add, BL!Spend
  <2>5. /\ totals' \in {totals, [totals EXCEPT ![k] = BL!Add(totals[k], delta)]}
        /\ events' \in {events, [events EXCEPT ![k] = BL!Pruned(Append(events[k], entry))]}
        /\ charged' = [charged EXCEPT ![k] = Append(charged[k], entry)]
        /\ now' = now
    BY <1>2 DEF BL!Charge
  <2> HIDE DEF entry
  <2> QED BY <2>2, <2>3, <2>4, <2>5
<1>3. ASSUME BL!Reset(k) PROVE BL!TypeOK'
  BY <1>3 DEF BL!Reset, BL!NoSpend, BL!Spend
<1> QED BY <1>1, <1>2, <1>3

(* The records: ledger, windows, log and histories.                        *)
Ending == [inv : Nat, how : {"unresolved", "raised", "returned"}]
LogTypes ==
  /\ win \in [Agents -> Seq(AuditEvent)]
  /\ audit \in Seq(AuditEvent)
  /\ runs \in Seq(Run)
  /\ ended \subseteq Ending

(* What a call tells the sinks is an audit event. *)
LEMMA EventTyped ==
  ASSUME ThreadTypes, NEW t \in Threads, pc[t] \in Inside
  PROVE  Event(call[t]) \in AuditEvent
<1>1. call[t] \in Invocation /\ Agent(t) \in Agents /\ call[t].req.tool \in Tools
  BY InsideCall
<1> QED BY <1>1 DEF Event, AuditEvent, Invocation, Agent

(* How a call ended is recorded well typed. *)
LEMMA LeaveRecorded ==
  ASSUME ThreadTypes, LogTypes, NEW t \in Threads, pc[t] \in Inside,
         NEW how \in {"raised", "returned"}, Leave(t, how)
  PROVE  ended' \subseteq Ending
  BY InsideCall DEF LogTypes, Leave, Ending

(* Every step keeps them well typed. *)
LEMMA RecordStep ==
  Control /\ BL!TypeOK /\ LogTypes /\ [Next]_vars => BL!TypeOK' /\ LogTypes'
<1> SUFFICES ASSUME Control, BL!TypeOK, LogTypes, [Next]_vars PROVE BL!TypeOK' /\ LogTypes'
  OBVIOUS
<1> USE DEF At
<1>a. ThreadTypes /\ started \in Nat /\ now \in Nat /\ now' \in Nat
  BY ControlStep DEF Control
<1>b. UNCHANGED ledger => BL!TypeOK'
  BY <1>a DEF ledger, BL!TypeOK
<1>c. UNCHANGED <<win, audit, runs, ended>> => LogTypes'
  BY DEF LogTypes
<1>1. ASSUME NEW t \in Threads, KillSwitch(t) \/ ReplayApproval(t) \/ Pause(t)
                                  \/ EnforceArguments(t) \/ ToolRaises(t) \/ ReportTrip(t)
      PROVE BL!TypeOK' /\ LogTypes'
  BY <1>1, <1>b, <1>c
     DEF KillSwitch, ReplayApproval, Pause, EnforceArguments, ToolRaises, ReportTrip, history
<1>2. ASSUME NEW t \in Threads, MonitorTrip(t) PROVE BL!TypeOK' /\ LogTypes'
  BY <1>2, <1>b, <1>c DEF MonitorTrip, history
<1>3. ASSUME NEW t \in Threads, BudgetGate(t) \/ ToolReturns(t)
      PROVE BL!TypeOK' /\ LogTypes'
  <2>1. Key(t) \in LedgerKeys
    BY <1>a, <1>3, InsideCall DEF BudgetGate, ToolReturns, Inside, Labels
  <2>2. BL!OneCall \in BL!Spend
    BY DEF BL!OneCall, BL!Spend
  <2>3. \/ UNCHANGED ledger
        \/ \E ok \in BOOLEAN : BL!Check(Key(t), ok) \/ BL!Charge(Key(t), BL!OneCall, ok)
    BY <1>3 DEF BudgetGate, ToolReturns
  <2>4. BL!TypeOK'
    BY <1>b, <2>1, <2>2, <2>3, LedgerTyped
  <2> QED BY <1>3, <1>c, <2>4 DEF BudgetGate, ToolReturns, history
<1>4. ASSUME NEW t \in Threads, BudgetTrip(t) \/ PolicyGates(t) \/ AskHandler(t)
      PROVE BL!TypeOK' /\ LogTypes'
  <2>1. pc[t] \in Inside /\ UNCHANGED <<ledger, win, audit, runs>>
    BY <1>4 DEF BudgetTrip, PolicyGates, AskHandler, Inside, Labels
  <2>2. UNCHANGED ended \/ Leave(t, "raised")
    BY <1>4 DEF BudgetTrip, PolicyGates, AskHandler
  <2> QED BY <1>a, <1>b, <2>1, <2>2, LeaveRecorded DEF LogTypes
<1>5. ASSUME NEW t \in Threads, Dispatch(t) PROVE BL!TypeOK' /\ LogTypes'
  <2>1. call[t] \in Invocation
    BY <1>a, <1>5, InsideCall DEF Dispatch, Inside, Labels
  <2>2. [inv |-> call[t].inv, req |-> call[t].req, by |-> call[t].by] \in Run
    BY <2>1 DEF Invocation, Run
  <2>3. runs' \in Seq(Run)
    BY <1>5, <2>2 DEF Dispatch, LogTypes
  <2> QED BY <1>b, <1>5, <2>3 DEF Dispatch, LogTypes
<1>6. ASSUME NEW t \in Threads, Observe(t) PROVE BL!TypeOK' /\ LogTypes'
  <2>1. Event(call[t]) \in AuditEvent /\ Agent(t) \in Agents
    BY <1>a, <1>6, EventTyped, InsideCall DEF Observe, Inside, Labels
  <2>2. win' = [win EXCEPT ![Agent(t)] = Append(win[Agent(t)], Event(call[t]))]
    BY <1>6 DEF Observe
  <2>3. win' \in [Agents -> Seq(AuditEvent)]
    BY <2>1, <2>2 DEF LogTypes
  <2> QED BY <1>6, <1>b, <2>3 DEF Observe, LogTypes, history
<1>7. ASSUME NEW t \in Threads, Write(t) \/ WriteFails(t) PROVE BL!TypeOK' /\ LogTypes'
  <2>1. pc[t] \in Inside /\ UNCHANGED <<ledger, win, runs>>
    BY <1>7 DEF Write, WriteFails, Inside, Labels
  <2>2. Event(call[t]) \in AuditEvent
    BY <1>a, <2>1, EventTyped
  <2>3. audit' \in {audit, Append(audit, Event(call[t]))}
    BY <1>7 DEF Write, WriteFails
  <2>4. UNCHANGED ended \/ Leave(t, "raised") \/ Leave(t, "returned")
    BY <1>7 DEF Write, WriteFails
  <2>5. ended' \subseteq Ending
    BY <1>a, <2>1, <2>4, LeaveRecorded DEF LogTypes
  <2> QED BY <1>b, <2>1, <2>2, <2>3, <2>5 DEF LogTypes
<1>8. ASSUME NEW t \in Threads, NEW r \in Requests, Invoke(t, r) PROVE BL!TypeOK' /\ LogTypes'
  <2>1. ended' \in {ended, ended \cup {[inv |-> started + 1, how |-> "unresolved"]}}
    BY <1>8 DEF Invoke
  <2>2. ended' \subseteq Ending
    BY <1>a, <2>1 DEF LogTypes, Ending
  <2> QED BY <1>8, <1>b, <2>2 DEF Invoke, LogTypes
<1>9. ASSUME NEW t \in Threads, NEW a \in Agents, NEW delta \in Reports,
             ReportUsage(t, a, delta)
      PROVE BL!TypeOK' /\ LogTypes'
  <2>1. delta \in BL!Spend /\ BudgetKey[a] \in LedgerKeys
    BY LedgerAssumption DEF BL!BudgetAssumption, LedgerKeys
  <2>2. BL!TypeOK'
    BY <1>9, <2>1, LedgerTyped DEF ReportUsage
  <2> QED BY <1>9, <1>c, <2>2 DEF ReportUsage
<1>10. ASSUME NEW id \in TokenIds, Review(id) PROVE BL!TypeOK' /\ LogTypes'
  BY <1>10, <1>b, <1>c DEF Review, history
<1>11. ASSUME NEW a \in Agents, ResetBreaker(a) PROVE BL!TypeOK' /\ LogTypes'
  BY <1>11, <1>b, <1>c DEF ResetBreaker, history
<1>12. ASSUME NEW k \in LedgerKeys, ResetBudget(k) PROVE BL!TypeOK' /\ LogTypes'
  BY <1>12, <1>c, LedgerTyped DEF ResetBudget, history
<1>13. CASE Tick
  BY <1>13, <1>b, <1>c DEF Tick, history
<1>14. CASE UNCHANGED vars
  BY <1>14, <1>b, <1>c DEF vars, history
<1> QED
  BY <1>1, <1>2, <1>3, <1>4, <1>5, <1>6, <1>7, <1>8, <1>9, <1>10, <1>11, <1>12, <1>13, <1>14
     DEF Next, Step

(* Type correctness of the composition: whatever threads, operators, tools *)
(* and sinks do, store, ledger, breaker, window, log and threads stay      *)
(* well formed.                                                            *)
THEOREM TypeCorrect == Spec => []TypeOK
<1>1. Init => BL!TypeOK /\ LogTypes
  BY DEF Init, AS!Init, BL!TypeOK, BL!NoSpend, BL!Spend, LogTypes, Ending
<1>2. Spec => [](BL!TypeOK /\ LogTypes)
  BY <1>1, RecordStep, ControlAlways, PTL DEF Spec
<1>3. Control /\ StoreInv /\ BL!TypeOK /\ LogTypes => TypeOK
  <2> SUFFICES ASSUME Control, StoreInv, BL!TypeOK, LogTypes PROVE TypeOK
    OBVIOUS
  <2>1. AS!TypeOK
    BY DEF StoreInv, ASP!IInv, ASP!TypeOK, AS!TypeOK, ASP!Token, AS!Token, ASP!Payload, AS!Payload,
           ASP!Status, AS!Status, ASP!Grant, AS!Grant
  <2>2. CB!TypeOK
    BY DEF Control, BreakerTypes, CB!TypeOK
  <2>3. ASSUME NEW t \in Threads
        PROVE CASE pc[t] = "idle" -> call[t] = NoCall
                [] pc[t] = "report_trip" -> call[t] \in Report
                [] OTHER -> call[t] \in Invocation
    BY DEF Control, ThreadTypes, Inside
  <2> QED
    BY <2>1, <2>2, <2>3 DEF TypeOK, Control, ThreadTypes, BreakerTypes, LogTypes, Nexts, Ending
<1> QED
  BY <1>2, <1>3, ControlAlways, StoreInvariant, PTL
-----------------------------------------------------------------------------
(* The kill switch.  A call keeps in `epoch` how often its agent had been  *)
(* tripped when it was let past; a breaker that stands at that count has   *)
(* been clear ever since.  A call refused for its budget stays past the    *)
(* kill switch while its event is emitted.                                 *)
Reporting == {"observe", "trip", "write"}
Past(t) == pc[t] \in PastKillSwitch \/ then[t] = "budget_trip"

ClearSince(t) ==
  /\ call[t].epoch <= trips[Agent(t)]
  /\ call[t].epoch = trips[Agent(t)] => trippedAt[Agent(t)] = NoTrip

HaltInv ==
  \A t \in Threads :
    /\ pc[t] \notin Reporting \cup {"budget_trip"} => then[t] = "none"
    /\ Has("breaker") /\ Past(t) => ClearSince(t)

(* No step trips a breaker without counting it. *)
BreakerMoves ==
  \A k \in Agents \cup LedgerKeys :
    \/ trips'[k] = trips[k] /\ trippedAt'[k] \in {trippedAt[k], NoTrip}
    \/ trips'[k] = trips[k] + 1

(* A step of t that does not let it past the kill switch. *)
NotLetPast(t) ==
  /\ Alone(t)
  /\ pc'[t] \notin Reporting \cup {"budget_trip"} => then'[t] = "none"
  /\ Past(t)' => Past(t) /\ call'[t].epoch = call[t].epoch /\ call'[t].req = call[t].req

(* A thread that is not let past owes the kill switch nothing new. *)
LEMMA HaltKept ==
  ASSUME Control, HaltInv, BreakerMoves, NEW t \in Threads, NotLetPast(t)
  PROVE  HaltInv'
<1>1. ASSUME NEW u \in Threads, Has("breaker"), Past(u)' PROVE ClearSince(u)'
  <2>1. Past(u) /\ call'[u].epoch = call[u].epoch /\ call'[u].req = call[u].req
    BY <1>1 DEF NotLetPast, Alone, Past
  <2>2. ClearSince(u)
    BY <1>1, <2>1 DEF HaltInv
  <2>3. pc[u] \in Inside
    BY <2>1 DEF Past, PastKillSwitch, Inside, HaltInv, Reporting, Labels
  <2>4. Agent(u) \in Agents /\ call[u].epoch \in Nat /\ Agent(u)' = Agent(u)
    BY <2>1, <2>3, InsideCall DEF Control, Invocation, Agent
  <2>5. trips[Agent(u)] \in Nat
    BY <2>4 DEF Control, BreakerTypes
  <2>6. CASE trips'[Agent(u)] = trips[Agent(u)] + 1
    BY <2>1, <2>2, <2>4, <2>5, <2>6 DEF ClearSince
  <2>7. CASE /\ trips'[Agent(u)] = trips[Agent(u)]
             /\ trippedAt'[Agent(u)] \in {trippedAt[Agent(u)], NoTrip}
    BY <2>1, <2>2, <2>4, <2>7 DEF ClearSince
  <2> QED BY <2>4, <2>6, <2>7 DEF BreakerMoves
<1>2. ASSUME NEW u \in Threads
      PROVE  pc'[u] \notin Reporting \cup {"budget_trip"} => then'[u] = "none"
  <2>1. CASE u = t
    BY <2>1 DEF NotLetPast
  <2>2. CASE u # t
    <3>1. pc'[u] = pc[u] /\ then'[u] = then[u]
      BY <2>2 DEF NotLetPast, Alone
    <3> QED BY <3>1 DEF HaltInv
  <2> QED BY <2>1, <2>2
<1> QED BY <1>1, <1>2 DEF HaltInv

(* Every step moves each breaker in one of these ways. *)
LEMMA BreakerMovesAlways ==
  ASSUME Control, [Next]_vars
  PROVE  BreakerMoves
<1>1. UNCHANGED breaker => BreakerMoves
  BY DEF breaker, BreakerMoves
<1>2. ASSUME NEW k, TripBreaker(k) PROVE BreakerMoves
  BY <1>2 DEF Control, BreakerTypes, TripBreaker, CB!Trip, BreakerMoves
<1>3. ASSUME NEW t \in Threads, KillSwitch(t) PROVE BreakerMoves
  <2>1. trips' = trips
    BY <1>3 DEF KillSwitch
  <2>2. \/ trippedAt' = trippedAt
        \/ \E k : trippedAt' = [trippedAt EXCEPT ![k] = NoTrip]
    BY <1>3 DEF KillSwitch, CB!IsOpen
  <2> QED BY <2>1, <2>2 DEF Control, BreakerTypes, BreakerMoves
<1>4. ASSUME NEW a \in Agents, ResetBreaker(a) PROVE BreakerMoves
  BY <1>4 DEF Control, BreakerTypes, ResetBreaker, CB!Reset, BreakerMoves
<1>5. ASSUME NEW t \in Threads, BudgetTrip(t) \/ MonitorTrip(t) \/ ReportTrip(t)
      PROVE  BreakerMoves
  BY <1>2, <1>5 DEF BudgetTrip, MonitorTrip, ReportTrip
<1>6. ASSUME NEW t \in Threads,
             \/ BudgetGate(t) \/ PolicyGates(t) \/ ReplayApproval(t) \/ AskHandler(t)
             \/ Pause(t) \/ EnforceArguments(t) \/ Dispatch(t)
             \/ ToolReturns(t) \/ ToolRaises(t)
      PROVE  BreakerMoves
  BY <1>1, <1>6
     DEF BudgetGate, PolicyGates, ReplayApproval, AskHandler, Pause, EnforceArguments,
         Dispatch, ToolReturns, ToolRaises
<1>7. ASSUME NEW t \in Threads,
             \/ Observe(t) \/ Write(t) \/ WriteFails(t)
             \/ \E r \in Requests : Invoke(t, r)
             \/ \E a \in Agents, delta \in Reports : ReportUsage(t, a, delta)
      PROVE  BreakerMoves
  BY <1>1, <1>7 DEF Observe, Write, WriteFails, Invoke, ReportUsage
<1>8. ASSUME \/ \E id \in TokenIds : Review(id)
             \/ \E k \in LedgerKeys : ResetBudget(k)
             \/ Tick \/ UNCHANGED vars
      PROVE  BreakerMoves
  BY <1>1, <1>8 DEF Review, ResetBudget, Tick, vars
<1> QED
  BY <1>3, <1>4, <1>5, <1>6, <1>7, <1>8 DEF Next, Step

(* Every step keeps what the kill switch owes. *)
LEMMA HaltStep == Control /\ HaltInv /\ [Next]_vars => HaltInv'
<1> SUFFICES ASSUME Control, HaltInv, [Next]_vars PROVE HaltInv'
  OBVIOUS
<1> USE DEF At, Reporting
<1>a. ThreadTypes
  BY DEF Control
<1>b. ASSUME NEW t \in Threads, NotLetPast(t) PROVE HaltInv'
  BY <1>b, BreakerMovesAlways, HaltKept
<1>c. \A t \in Threads : pc[t] \in Inside => call[t] \in Invocation
  BY <1>a, InsideCall
<1>d. ASSUME NEW t \in Threads, Past(t), call'[t] = call[t], Alone(t),
             then'[t] = then[t], pc'[t] \in Reporting \cup {"budget_trip"} \/ then[t] = "none"
      PROVE HaltInv'
  BY <1>b, <1>d DEF NotLetPast
<1>e. ASSUME NEW t \in Threads, pc'[t] = "idle", then'[t] = "none", Alone(t) PROVE HaltInv'
  BY <1>b, <1>e DEF NotLetPast, Past, PastKillSwitch
<1>f. ASSUME NEW t \in Threads, NEW c \in Invocation, Past(t), call[t] \in Invocation,
             c.epoch = call[t].epoch, c.req = call[t].req,
             \/ \E next : Emit(t, c, next)
             \/ \E label \in PastKillSwitch : Continue(t, label, c) /\ then[t] = "none"
      PROVE HaltInv'
  <2>1. CASE \E next : Emit(t, c, next)
    BY <1>a, <1>b, <1>f, <2>1, Emits DEF NotLetPast
  <2>2. CASE \E label \in PastKillSwitch : Continue(t, label, c) /\ then[t] = "none"
    BY <1>a, <1>b, <1>f, <2>2, Continues DEF NotLetPast
  <2> QED BY <1>f, <2>1, <2>2
<1>g. ASSUME UNCHANGED thread PROVE HaltInv'
  <2>1. ASSUME NEW t \in Threads PROVE NotLetPast(t)
    BY <1>g, <2>1 DEF thread, NotLetPast, Alone, Past, HaltInv
  <2>2. CASE Threads = {}
    BY <2>2 DEF HaltInv
  <2> QED BY <1>b, <2>1, <2>2
(* the kill switch itself *)
<1>1. ASSUME NEW t \in Threads, KillSwitch(t) PROVE HaltInv'
  <2>1. /\ pc[t] = "breaker" /\ then[t] = "none" /\ call[t] \in Invocation
        /\ Agent(t) \in Agents
    BY <1>a, <1>1, InsideCall DEF KillSwitch, HaltInv, Inside, Labels
  <2>2. CASE ~Has("breaker")
    BY <1>a, <1>1, <2>1, <2>2, Continues DEF KillSwitch, HaltInv, Alone
  <2>3. CASE Has("breaker") /\ Refuse(t, "circuit_breaker_open")
    <3>1. Emit(t, [call[t] EXCEPT !.error = "circuit_breaker_open"], "raise")
      BY <2>3 DEF Refuse
    <3> QED BY <1>a, <1>b, <3>1, Emits DEF NotLetPast, Past, PastKillSwitch
  <2>4. CASE /\ Has("breaker") /\ CB!IsOpen(Agent(t), FALSE)
             /\ Continue(t, "budget", [call[t] EXCEPT !.epoch = trips[Agent(t)]])
    <3> DEFINE c == [call[t] EXCEPT !.epoch = trips[Agent(t)]]
    <3>1. c.epoch = trips[Agent(t)] /\ c.req = call[t].req
      BY <2>1 DEF Invocation
    <3>2. /\ pc'[t] = "budget" /\ call'[t] = c /\ then'[t] = "none" /\ Alone(t)
      BY <1>a, <2>1, <2>4, Continues
    <3>3. trips' = trips /\ trippedAt' = [trippedAt EXCEPT ![Agent(t)] = NoTrip]
      BY <1>1, <2>4 DEF KillSwitch, CB!IsOpen
    <3>4. trippedAt'[Agent(t)] = NoTrip /\ trips[Agent(t)] \in Nat
      BY <2>1, <3>3 DEF Control, BreakerTypes
    <3>5. ClearSince(t)'
      <4> HIDE DEF c
      <4>1. Agent(t)' = Agent(t)
        BY <3>1, <3>2 DEF Agent
      <4> QED BY <3>1, <3>2, <3>3, <3>4, <4>1 DEF ClearSince
    <3>6. ASSUME NEW u \in Threads \ {t}, Past(u)' PROVE ClearSince(u)'
      <4>1. Past(u) /\ call'[u] = call[u] /\ ClearSince(u)
        BY <2>4, <3>2, <3>6 DEF Alone, Past, HaltInv
      <4>2. pc[u] \in Inside
        BY <4>1 DEF Past, PastKillSwitch, Inside, HaltInv, Labels
      <4>3. Agent(u) \in Agents /\ Agent(u)' = Agent(u)
        BY <1>a, <4>1, <4>2, InsideCall DEF Agent
      <4> QED BY <3>3, <4>1, <4>3 DEF ClearSince, Control, BreakerTypes
    <3>7. ASSUME NEW u \in Threads
          PROVE  pc'[u] \notin Reporting \cup {"budget_trip"} => then'[u] = "none"
      BY <3>2 DEF Alone, HaltInv
    <3> QED BY <3>5, <3>6, <3>7 DEF HaltInv
  <2> QED BY <1>1, <2>2, <2>3, <2>4 DEF KillSwitch, BreakerKey
<1>2. ASSUME NEW t \in Threads, BudgetGate(t) PROVE HaltInv'
  <2>1. Past(t) /\ call[t] \in Invocation /\ then[t] = "none"
    BY <1>2, <1>c DEF BudgetGate, HaltInv, Past, PastKillSwitch, Inside, Labels
  <2> DEFINE c == [call[t] EXCEPT !.error = "budget_exceeded"]
  <2>2. c \in Invocation /\ c.epoch = call[t].epoch /\ c.req = call[t].req
    BY <2>1 DEF Invocation, Errors
  <2>3. Continue(t, "policy", call[t]) \/ \E next : Emit(t, c, next)
    BY <1>2 DEF BudgetGate
  <2> HIDE DEF c
  <2> QED BY <1>f, <2>1, <2>2, <2>3 DEF PastKillSwitch, Labels
<1>3. ASSUME NEW t \in Threads, Leave(t, "raised") \/ Leave(t, "returned") PROVE HaltInv'
  BY <1>a, <1>e, <1>3, Leaves
(* the gates, the tool and the approval step: nothing but moves past the    *)
(* kill switch                                                              *)
<1>4. ASSUME NEW t \in Threads, Past(t), pc[t] \in Inside, NEW e \in Errors, Refuse(t, e)
      PROVE HaltInv'
  <2>1. call[t] \in Invocation
    BY <1>4, <1>c
  <2> DEFINE c == [call[t] EXCEPT !.error = e]
  <2>2. c \in Invocation /\ c.epoch = call[t].epoch /\ c.req = call[t].req
    BY <2>1 DEF Invocation
  <2>3. Emit(t, c, "raise")
    BY <1>4 DEF Refuse
  <2> HIDE DEF c
  <2> QED BY <1>f, <1>4, <2>1, <2>2, <2>3
<1>5. ASSUME NEW t \in Threads, PolicyGates(t) PROVE HaltInv'
  <2>1. Past(t) /\ pc[t] \in Inside /\ call[t] \in Invocation /\ then[t] = "none"
    BY <1>5, <1>c DEF PolicyGates, HaltInv, Past, PastKillSwitch, Inside, Labels
  <2> DEFINE c == [call[t] EXCEPT !.decision = "require_approval"]
  <2>2. c \in Invocation /\ c.epoch = call[t].epoch /\ c.req = call[t].req
    BY <2>1 DEF Invocation, Decisions
  <2>3. \/ \E e \in Errors : Refuse(t, e)
        \/ Continue(t, "approval", c)
        \/ Continue(t, "arguments", call[t])
        \/ Leave(t, "raised")
    BY <1>5 DEF PolicyGates, Errors
  <2> HIDE DEF c
  <2> QED BY <1>f, <1>3, <1>4, <2>1, <2>2, <2>3 DEF PastKillSwitch, Labels
<1>6. ASSUME NEW t \in Threads, ReplayApproval(t) \/ AskHandler(t) \/ Pause(t) PROVE HaltInv'
  <2>1. Past(t) /\ pc[t] \in Inside /\ call[t] \in Invocation /\ then[t] = "none"
    BY <1>6, <1>c DEF ReplayApproval, AskHandler, Pause, HaltInv, Past, PastKillSwitch, Inside, Labels
  <2>2. \/ \E e \in Errors : Refuse(t, e)
        \/ \E by \in Approvals :
             Continue(t, "arguments", [call[t] EXCEPT !.decision = "allow", !.by = by])
        \/ Leave(t, "raised")
    BY <1>6 DEF ReplayApproval, AskHandler, Pause, Errors, Approvals
  <2>3. ASSUME NEW by \in Approvals,
               Continue(t, "arguments", [call[t] EXCEPT !.decision = "allow", !.by = by])
        PROVE HaltInv'
    <3> DEFINE c == [call[t] EXCEPT !.decision = "allow", !.by = by]
    <3>1. c \in Invocation /\ c.epoch = call[t].epoch /\ c.req = call[t].req
      BY <2>1 DEF Invocation, Decisions
    <3>2. Continue(t, "arguments", c)
      BY <2>3
    <3> HIDE DEF c
    <3> QED BY <1>f, <2>1, <3>1, <3>2 DEF PastKillSwitch, Labels
  <2> QED BY <1>3, <1>4, <2>1, <2>2, <2>3
<1>7. ASSUME NEW t \in Threads, EnforceArguments(t) PROVE HaltInv'
  <2>1. Past(t) /\ call[t] \in Invocation /\ then[t] = "none"
    BY <1>7, <1>c DEF EnforceArguments, HaltInv, Past, PastKillSwitch, Inside, Labels
  <2> DEFINE c == [call[t] EXCEPT !.decision = "deny", !.error = "capability_violation"]
  <2>2. c \in Invocation /\ c.epoch = call[t].epoch /\ c.req = call[t].req
    BY <2>1 DEF Invocation, Decisions, Errors
  <2>3. Continue(t, "dispatch", call[t]) \/ Emit(t, c, "raise")
    BY <1>7 DEF EnforceArguments
  <2> HIDE DEF c
  <2> QED BY <1>f, <2>1, <2>2, <2>3 DEF PastKillSwitch, Labels
<1>8. ASSUME NEW t \in Threads, Dispatch(t) PROVE HaltInv'
  <2>1. Past(t) /\ call[t] \in Invocation /\ then[t] = "none"
    BY <1>8, <1>c DEF Dispatch, HaltInv, Past, PastKillSwitch, Inside, Labels
  <2> DEFINE c == [call[t] EXCEPT !.ran = TRUE]
  <2>2. c \in Invocation /\ c.epoch = call[t].epoch /\ c.req = call[t].req
    BY <2>1 DEF Invocation
  <2>3. Continue(t, "running", c)
    BY <1>8 DEF Dispatch
  <2> HIDE DEF c
  <2> QED BY <1>f, <2>1, <2>2, <2>3 DEF PastKillSwitch, Labels
<1>9. ASSUME NEW t \in Threads, ToolReturns(t) \/ ToolRaises(t) PROVE HaltInv'
  <2>1. Past(t) /\ pc[t] \in Inside /\ call[t] \in Invocation
    BY <1>9, <1>c DEF ToolReturns, ToolRaises, Past, PastKillSwitch, Inside, Labels
  <2>2. \/ \E e \in Errors : Refuse(t, e)
        \/ Emit(t, call[t], "return")
    BY <1>9 DEF ToolReturns, ToolRaises, Errors
  <2> QED BY <1>f, <1>4, <2>1, <2>2
(* the sinks *)
<1>10. ASSUME NEW t \in Threads, Observe(t) \/ MonitorTrip(t) PROVE HaltInv'
  <2>1. /\ pc[t] \in Reporting /\ pc'[t] \in Reporting /\ call' = call /\ then' = then
        /\ Alone(t)
    BY <1>a, <1>10 DEF Observe, MonitorTrip, ThreadTypes, Alone
  <2> QED BY <1>b, <2>1 DEF NotLetPast, Past, PastKillSwitch
<1>11. ASSUME NEW t \in Threads, Write(t) PROVE HaltInv'
  <2>1. CASE then[t] = "budget_trip"
    <3>1. /\ pc'[t] = "budget_trip" /\ call' = call /\ then' = then /\ Alone(t)
      BY <1>a, <1>11, <2>1 DEF Write, ThreadTypes, Alone
    <3> QED BY <1>d, <2>1, <3>1 DEF Past
  <2>2. CASE then[t] # "budget_trip"
    BY <1>3, <1>11, <2>2 DEF Write
  <2> QED BY <2>1, <2>2
<1>12. ASSUME NEW t \in Threads, WriteFails(t) PROVE HaltInv'
  <2>1. CASE Leave(t, "raised")
    BY <1>3, <2>1
  <2>2. CASE Refuse(t, "sink_error") /\ then[t] = "return"
    <3>1. Emit(t, [call[t] EXCEPT !.error = "sink_error"], "raise")
      BY <2>2 DEF Refuse
    <3>2. /\ pc'[t] \in Reporting /\ then'[t] = "raise" /\ Alone(t)
      BY <1>a, <3>1, Emits
    <3> QED BY <1>b, <3>2 DEF NotLetPast, Past, PastKillSwitch
  <2> QED BY <1>12, <2>1, <2>2 DEF WriteFails
<1>13. ASSUME NEW t \in Threads, BudgetTrip(t) PROVE HaltInv'
  BY <1>3, <1>13 DEF BudgetTrip
<1>14. ASSUME NEW t \in Threads, ReportTrip(t) PROVE HaltInv'
  <2>1. then[t] = "none" /\ Continue(t, "idle", NoCall)
    BY <1>14 DEF ReportTrip, HaltInv
  <2> QED BY <1>a, <1>e, <2>1, Continues
<1>15. ASSUME NEW t \in Threads, NEW r \in Requests, Invoke(t, r) PROVE HaltInv'
  <2>1. then[t] = "none" /\ (UNCHANGED thread \/ Continue(t, "breaker", NewCall(r)))
    BY <1>15 DEF Invoke, HaltInv
  <2> QED BY <1>a, <1>b, <1>g, <2>1, Continues DEF NotLetPast, Past, PastKillSwitch
<1>16. ASSUME NEW t \in Threads, NEW a \in Agents, NEW delta \in Reports,
              ReportUsage(t, a, delta)
       PROVE HaltInv'
  <2>1. /\ then[t] = "none"
        /\ \/ UNCHANGED thread
           \/ Continue(t, "report_trip", [inv |-> 0, req |-> [agent |-> a]])
    BY <1>16 DEF ReportUsage, HaltInv
  <2> QED BY <1>a, <1>b, <1>g, <2>1, Continues DEF NotLetPast, Past, PastKillSwitch
<1>17. ASSUME \/ \E id \in TokenIds : Review(id)
              \/ \E a \in Agents : ResetBreaker(a)
              \/ \E k \in LedgerKeys : ResetBudget(k)
              \/ Tick \/ UNCHANGED vars
       PROVE HaltInv'
  BY <1>g, <1>17 DEF Review, ResetBreaker, ResetBudget, Tick, vars
<1> QED
  BY <1>1, <1>2, <1>5, <1>6, <1>7, <1>8, <1>9, <1>10, <1>11, <1>12, <1>13, <1>14, <1>15, <1>16,
     <1>17 DEF Next, Step

(* A tripped breaker fails closed every subsequent call: no call inside    *)
(* the pipeline of an agent that is halted was let past after the trip.    *)
THEOREM HaltHolds == Spec => []HaltRespected
<1>1. Init => HaltInv
  BY DEF Init, HaltInv, Past, PastKillSwitch, Reporting
<1>2. Spec => []HaltInv
  BY <1>1, HaltStep, ControlAlways, PTL DEF Spec
<1>3. Control /\ HaltInv => HaltRespected
  <2> SUFFICES ASSUME Control, HaltInv, NEW t \in Threads,
                      Has("breaker"), pc[t] \in PastKillSwitch, CB!Open(Agent(t))
               PROVE  call[t].epoch < trips[Agent(t)]
    BY DEF HaltRespected
  <2>1. ClearSince(t) /\ pc[t] \in Inside
    BY DEF HaltInv, Past, PastKillSwitch, Inside
  <2>2. call[t].epoch \in Nat /\ trips[Agent(t)] \in Nat
    <3>1. call[t] \in Invocation /\ Agent(t) \in Agents
      BY <2>1, InsideCall DEF Control
    <3> QED BY <3>1 DEF Control, BreakerTypes, Invocation
  <2>3. trippedAt[Agent(t)] # NoTrip
    BY DEF CB!Open, CB!Tripped
  <2> QED BY <2>1, <2>2, <2>3 DEF ClearSince
<1> QED BY <1>2, <1>3, ControlAlways, PTL
-----------------------------------------------------------------------------
(* Authorisation.  What clears a call: nothing had to, the inline handler, *)
(* or a grant of the store for this very call.                             *)
GrantFor(g, by, r) ==
  /\ g.id = by
  /\ g.agent_id = r.agent /\ g.tool_name = r.tool
  /\ g.args_digest = ArgsDigest[r.args]
Cleared(gs, by, r) ==
  /\ by = NoApproval => ~NeedsHuman(r)
  /\ by \in TokenIds => \E i \in DOMAIN gs : GrantFor(gs[i], by, r)

(* What the gates a thread has passed say of its call.                     *)
Vetted(t) ==
  /\ pc[t] \in {"breaker", "budget", "policy", "approval"} => call[t].by = NoApproval
  /\ pc[t] \in {"approval", "arguments", "dispatch"} => Admissible(call[t].req)
  /\ pc[t] \in {"arguments", "dispatch"} => Cleared(grants, call[t].by, call[t].req)
  /\ pc[t] = "dispatch" => call[t].req \in ArgsAllowed

(* A thread that has spent an approval and not yet run its tool: the       *)
(* approval is in no other thread's hands and has let no tool run.         *)
Holds(t) == pc[t] \in {"arguments", "dispatch"} /\ call[t].by \in TokenIds
HeldOnce ==
  \A t \in Threads :
    Holds(t) => /\ \A i \in DOMAIN runs : runs[i].by # call[t].by
                /\ \A u \in Threads \ {t} : Holds(u) => call[u].by # call[t].by

RunsCleared ==
  /\ \A i \in DOMAIN runs : /\ Admissible(runs[i].req) /\ runs[i].req \in ArgsAllowed
                            /\ Cleared(grants, runs[i].by, runs[i].req)
  /\ \A i, j \in DOMAIN runs :
       runs[i].by \in TokenIds /\ runs[i].by = runs[j].by => i = j
  /\ \A i \in DOMAIN runs : runs[i].by \in TokenIds =>
       \E j \in DOMAIN grants : grants[j].id = runs[i].by

AuthInv == (\A t \in Threads : Vetted(t)) /\ HeldOnce /\ RunsCleared

(* Grants are only ever added. *)
GrantsGrow ==
  \A i \in DOMAIN grants : i \in DOMAIN grants' /\ grants'[i] = grants[i]

(* No step takes a grant back or rewrites it. *)
LEMMA GrantsOnlyGrow ==
  ASSUME Control, StoreInv, [Next]_vars
  PROVE  GrantsGrow
<1>1. grants' = grants => GrantsGrow
  BY DEF GrantsGrow
<1>2. ASSUME NEW t \in Threads, ReplayApproval(t) PROVE GrantsGrow
  <2>1. grants \in Seq(ASP!Grant)
    BY DEF StoreInv, ASP!IInv, ASP!TypeOK
  <2>2. grants' = grants \/ \E g : grants' = Append(grants, g)
    BY <1>2 DEF ReplayApproval, AS!Consume, AS!Refuse
  <2>3. ASSUME NEW g, grants' = Append(grants, g) PROVE GrantsGrow
    BY <2>1, <2>3 DEF GrantsGrow
  <2> QED BY <1>1, <2>2, <2>3
<1>3. UNCHANGED store => GrantsGrow
  BY <1>1 DEF store
<1>4. ASSUME NEW t \in Threads, Pause(t) PROVE GrantsGrow
  BY <1>1, <1>3, <1>4 DEF Pause, AS!Issue
<1>5. ASSUME NEW id \in TokenIds, Review(id) PROVE GrantsGrow
  BY <1>1, <1>5 DEF Review, AS!Approve, AS!Reject, AS!Transition
<1>6. ASSUME NEW t \in Threads,
             \/ KillSwitch(t) \/ BudgetGate(t) \/ BudgetTrip(t) \/ PolicyGates(t)
             \/ AskHandler(t) \/ EnforceArguments(t) \/ Dispatch(t)
             \/ ToolReturns(t) \/ ToolRaises(t)
      PROVE  GrantsGrow
  BY <1>3, <1>6
     DEF KillSwitch, BudgetGate, BudgetTrip, PolicyGates, AskHandler, EnforceArguments,
         Dispatch, ToolReturns, ToolRaises
<1>7. ASSUME NEW t \in Threads,
             \/ Observe(t) \/ MonitorTrip(t) \/ Write(t) \/ WriteFails(t) \/ ReportTrip(t)
             \/ \E r \in Requests : Invoke(t, r)
             \/ \E a \in Agents, delta \in Reports : ReportUsage(t, a, delta)
      PROVE  GrantsGrow
  BY <1>3, <1>7
     DEF Observe, MonitorTrip, Write, WriteFails, ReportTrip, Invoke, ReportUsage
<1>8. ASSUME \/ \E a \in Agents : ResetBreaker(a)
             \/ \E k \in LedgerKeys : ResetBudget(k)
             \/ Tick \/ UNCHANGED vars
      PROVE  GrantsGrow
  BY <1>3, <1>8 DEF ResetBreaker, ResetBudget, Tick, vars
<1> QED
  BY <1>2, <1>4, <1>5, <1>6, <1>7, <1>8 DEF Next, Step

(* What cleared a call goes on clearing it. *)
LEMMA ClearedKept ==
  ASSUME GrantsGrow
  PROVE  \A by, r : Cleared(grants, by, r) => Cleared(grants', by, r)
  BY DEF GrantsGrow, Cleared

(* A step of one thread that neither spends an approval nor runs a tool.   *)
LEMMA AuthKept ==
  ASSUME AuthInv, GrantsGrow, UNCHANGED runs, NEW t \in Threads, Alone(t), Vetted(t)',
         Holds(t)' => Holds(t) /\ call'[t].by = call[t].by
  PROVE  AuthInv'
<1>1. ASSUME NEW u \in Threads PROVE Vetted(u)'
  <2>1. CASE u = t
    BY <2>1
  <2>2. CASE u # t
    <3>1. pc'[u] = pc[u] /\ call'[u] = call[u] /\ Vetted(u)
      BY <2>2 DEF Alone, AuthInv
    <3>2. pc[u] \in {"arguments", "dispatch"} => Cleared(grants', call[u].by, call[u].req)
      BY <3>1, ClearedKept DEF Vetted
    <3>3. Admissible(call[u].req) => Admissible(call'[u].req)
      BY <3>1
    <3> QED BY <3>1, <3>2, <3>3 DEF Vetted
  <2> QED BY <2>1, <2>2
<1>2. \A u \in Threads : Holds(u)' => Holds(u) /\ call'[u].by = call[u].by
  BY DEF Alone, Holds
<1>3. HeldOnce'
  BY <1>2 DEF AuthInv, HeldOnce
<1>4. RunsCleared'
  <2>1. \A i \in DOMAIN runs : Cleared(grants', runs[i].by, runs[i].req)
    BY ClearedKept DEF AuthInv, RunsCleared
  <2>2. \A i \in DOMAIN runs : runs[i].by \in TokenIds =>
          \E j \in DOMAIN grants' : grants'[j].id = runs[i].by
    BY DEF AuthInv, RunsCleared, GrantsGrow
  <2> QED BY <2>1, <2>2 DEF AuthInv, RunsCleared
<1> QED BY <1>1, <1>3, <1>4 DEF AuthInv

(* A retry that is let through: the token was approved and not consumed,   *)
(* so nobody had it before.                                                *)
LEMMA ConsumeAuthorised ==
  ASSUME Control, StoreInv, AuthInv, GrantsGrow, NEW t \in Threads, NEW r, NEW id \in TokenIds,
         At(t, "approval"), call[t].req = r, UNCHANGED runs,
         AS!Consume(id, r.agent, r.tool, r.args),
         Continue(t, "arguments", [call[t] EXCEPT !.decision = "allow", !.by = id])
  PROVE  AuthInv'
<1> DEFINE c == [call[t] EXCEPT !.decision = "allow", !.by = id]
           g == [id |-> id, agent_id |-> r.agent, tool_name |-> r.tool,
                 args_digest |-> ArgsDigest[r.args], at |-> now]
<1>1. call[t] \in Invocation
  BY InsideCall DEF Control, At, Inside, Labels
<1>2. c.by = id /\ c.req = r
  BY <1>1 DEF Invocation
<1>3. pc'[t] = "arguments" /\ call'[t].by = id /\ call'[t].req = r /\ Alone(t)
  <2>1. Continue(t, "arguments", c)
    OBVIOUS
  <2> HIDE DEF c
  <2> QED BY <1>2, <2>1, Continues DEF Control
<1>4. tokens[id] # NoToken /\ tokens[id].status = "approved" /\ grants' = Append(grants, g)
  BY DEF AS!Consume, AS!Consumable, AS!Presentable, AS!Held
<1>5. \A i \in DOMAIN grants : grants[i].id # id
  BY <1>4 DEF StoreInv, ASP!IInv, ASP!GrantsClosed
<1>6. Len(grants) + 1 \in DOMAIN grants' /\ grants'[Len(grants) + 1] = g
  <2>1. grants \in Seq(ASP!Grant)
    BY DEF StoreInv, ASP!IInv, ASP!TypeOK
  <2> HIDE DEF g
  <2> QED BY <1>4, <2>1
<1>7. Cleared(grants', id, r)
  <2>1. \E i \in DOMAIN grants' : GrantFor(grants'[i], id, r)
    BY <1>6 DEF GrantFor
  <2>2. id # NoApproval
    BY RuntimeAssumption
  <2> QED BY <2>1, <2>2 DEF Cleared
<1>8. Vetted(t)'
  <2>1. Admissible(r)
    BY DEF AuthInv, Vetted, At
  <2> QED BY <1>3, <1>7, <2>1 DEF Vetted, Cleared, GrantFor, Admissible, Resolves
(* nobody else had it *)
<1>9. \A i \in DOMAIN runs : runs[i].by # id
  BY <1>5 DEF AuthInv, RunsCleared
<1>10. \A u \in Threads : Holds(u) => call[u].by # id
  BY <1>5 DEF AuthInv, Vetted, Holds, Cleared, GrantFor
<1>11. \A u \in Threads \ {t} : (Holds(u)' <=> Holds(u)) /\ call'[u] = call[u]
  BY <1>3 DEF Alone, Holds
<1>12. HeldOnce'
  BY <1>3, <1>9, <1>10, <1>11 DEF AuthInv, HeldOnce
<1>13. \A u \in Threads \ {t} : Vetted(u)'
  <2> TAKE u \in Threads \ {t}
  <2>1. pc'[u] = pc[u] /\ call'[u] = call[u] /\ Vetted(u)
    BY <1>3 DEF Alone, AuthInv
  <2>2. pc[u] \in {"arguments", "dispatch"} => Cleared(grants', call[u].by, call[u].req)
    BY <2>1, ClearedKept DEF Vetted
  <2>3. Admissible(call[u].req) => Admissible(call'[u].req)
    BY <2>1
  <2> QED BY <2>1, <2>2, <2>3 DEF Vetted
<1>14. RunsCleared'
  <2>1. \A i \in DOMAIN runs : Cleared(grants', runs[i].by, runs[i].req)
    BY ClearedKept DEF AuthInv, RunsCleared
  <2>2. \A i \in DOMAIN runs : runs[i].by \in TokenIds =>
          \E j \in DOMAIN grants' : grants'[j].id = runs[i].by
    BY DEF AuthInv, RunsCleared, GrantsGrow
  <2> QED BY <2>1, <2>2 DEF AuthInv, RunsCleared
<1> QED BY <1>8, <1>12, <1>13, <1>14 DEF AuthInv

(* A cleared call enters its tool: the approval it holds is now on record. *)
LEMMA DispatchAuthorised ==
  ASSUME Control, LogTypes, AuthInv, GrantsGrow, NEW t \in Threads, Dispatch(t)
  PROVE  AuthInv'
<1> DEFINE c == [call[t] EXCEPT !.ran = TRUE]
           run == [inv |-> call[t].inv, req |-> call[t].req, by |-> call[t].by]
<1>1. pc[t] = "dispatch" /\ call[t] \in Invocation /\ grants' = grants
  BY InsideCall DEF Control, Dispatch, store, At, Inside, Labels
<1>2. pc'[t] = "running" /\ Alone(t)
  <2>1. Continue(t, "running", c)
    BY DEF Dispatch
  <2> HIDE DEF c
  <2> QED BY <2>1, Continues DEF Control
<1>3. /\ DOMAIN runs = 1..Len(runs) /\ Len(runs) \in Nat
      /\ DOMAIN runs' = 1..Len(runs) + 1
      /\ runs'[Len(runs) + 1] = run
      /\ \A i \in DOMAIN runs : runs'[i] = runs[i]
  <2>1. runs \in Seq(Run) /\ runs' = Append(runs, run)
    BY DEF LogTypes, Dispatch
  <2> HIDE DEF run
  <2> QED BY <2>1
<1>4. \A i \in DOMAIN runs' : i \in DOMAIN runs \/ i = Len(runs) + 1
  BY <1>3
<1>5. run.by = call[t].by /\ run.req = call[t].req
  OBVIOUS
<1> HIDE DEF run, c
<1>6. /\ Admissible(run.req) /\ run.req \in ArgsAllowed /\ Cleared(grants, run.by, run.req)
      /\ run.by \in TokenIds => Holds(t)
  BY <1>1, <1>5 DEF AuthInv, Vetted, Holds
<1>7. \A by, r : Cleared(grants, by, r) => Cleared(grants', by, r)
  BY ClearedKept
<1>8. \A u \in Threads \ {t} : Vetted(u)'
  BY <1>2, <1>7 DEF Alone, AuthInv, Vetted
<1>9. Vetted(t)' /\ ~Holds(t)'
  BY <1>2 DEF Vetted, Holds
<1>10. \A u \in Threads \ {t} : (Holds(u)' <=> Holds(u)) /\ call'[u] = call[u]
  BY <1>2 DEF Alone, Holds
<1>11. HeldOnce'
  <2> SUFFICES ASSUME NEW u \in Threads \ {t}, Holds(u)
               PROVE  \A i \in DOMAIN runs' : runs'[i].by # call[u].by
    BY <1>9, <1>10 DEF AuthInv, HeldOnce
  <2>1. run.by # call[u].by
    BY <1>5, <1>6 DEF AuthInv, HeldOnce, Holds
  <2> QED BY <1>3, <1>4, <2>1 DEF AuthInv, HeldOnce
<1>12. RunsCleared'
  <2>1. ASSUME NEW i \in DOMAIN runs'
        PROVE  /\ Admissible(runs'[i].req) /\ runs'[i].req \in ArgsAllowed
               /\ Cleared(grants', runs'[i].by, runs'[i].req)
    <3>1. CASE i \in DOMAIN runs
      BY <1>1, <1>3, <3>1 DEF AuthInv, RunsCleared, Cleared
    <3>2. CASE i = Len(runs) + 1
      BY <1>1, <1>3, <1>6, <3>2 DEF Cleared
    <3> QED BY <1>4, <3>1, <3>2
  <2>2. ASSUME NEW i \in DOMAIN runs', NEW j \in DOMAIN runs',
               runs'[i].by \in TokenIds, runs'[i].by = runs'[j].by
        PROVE  i = j
    <3>1. \A k \in DOMAIN runs : run.by \in TokenIds => runs[k].by # run.by
      BY <1>5, <1>6 DEF AuthInv, HeldOnce
    <3> QED BY <1>3, <1>4, <2>2, <3>1 DEF AuthInv, RunsCleared
  <2>3. ASSUME NEW i \in DOMAIN runs', runs'[i].by \in TokenIds
        PROVE  \E j \in DOMAIN grants : grants[j].id = runs'[i].by
    <3>1. CASE i \in DOMAIN runs
      BY <1>3, <2>3, <3>1 DEF AuthInv, RunsCleared
    <3>2. CASE i = Len(runs) + 1
      BY <1>3, <1>6, <2>3, <3>2 DEF Cleared, GrantFor
    <3> QED BY <1>4, <3>1, <3>2
  <2> QED BY <1>1, <2>1, <2>2, <2>3 DEF RunsCleared, Cleared, GrantFor
<1> QED BY <1>8, <1>9, <1>11, <1>12 DEF AuthInv

(* Every step keeps the calls cleared and the runs authorised. *)
LEMMA AuthStep ==
  Control /\ LogTypes /\ StoreInv /\ AuthInv /\ [Next]_vars => AuthInv'
<1> SUFFICES ASSUME Control, LogTypes, StoreInv, AuthInv, [Next]_vars PROVE AuthInv'
  OBVIOUS
<1> USE DEF At
<1>a. ThreadTypes /\ GrantsGrow
  BY GrantsOnlyGrow DEF Control
<1>b. ASSUME NEW t \in Threads, UNCHANGED runs, Alone(t), Vetted(t)',
             Holds(t)' => Holds(t) /\ call'[t].by = call[t].by
      PROVE  AuthInv'
  BY <1>a, <1>b, AuthKept
<1>c. ASSUME NEW t \in Threads, UNCHANGED runs, Alone(t),
             pc'[t] \in {"running", "idle", "report_trip", "budget_trip"} \cup Reporting
      PROVE  AuthInv'
  BY <1>b, <1>c DEF Vetted, Holds, Reporting
<1>d. ASSUME NEW t \in Threads, UNCHANGED runs,
             (\E c, next : Emit(t, c, next)) \/ (\E e : Refuse(t, e)) \/ (\E how : Leave(t, how))
      PROVE  AuthInv'
  BY <1>a, <1>c, <1>d, Emits, Leaves DEF Refuse, Reporting
<1>e. ASSUME UNCHANGED runs, UNCHANGED thread PROVE AuthInv'
  <2>1. ASSUME NEW t \in Threads PROVE AuthInv'
    <3>1. Alone(t) /\ (Holds(t)' => Holds(t) /\ call'[t].by = call[t].by)
      BY <1>e DEF thread, Alone, Holds
    <3>2. pc[t] \in {"arguments", "dispatch"} => Cleared(grants', call[t].by, call[t].req)
      BY <1>a, ClearedKept DEF AuthInv, Vetted
    <3>3. pc' = pc /\ call' = call /\ Vetted(t)
      BY <1>e DEF thread, AuthInv
    <3>4. Vetted(t)'
      BY <3>2, <3>3 DEF Vetted, Cleared, GrantFor
    <3> QED BY <1>b, <1>e, <3>1, <3>4
  <2>2. CASE Threads = {}
    <3>1. RunsCleared'
      <4>1. \A i \in DOMAIN runs : Cleared(grants', runs[i].by, runs[i].req)
        BY <1>a, ClearedKept DEF AuthInv, RunsCleared
      <4>2. \A i \in DOMAIN runs : runs[i].by \in TokenIds =>
              \E j \in DOMAIN grants' : grants'[j].id = runs[i].by
        BY <1>a DEF AuthInv, RunsCleared, GrantsGrow
      <4> QED BY <1>e, <4>1, <4>2 DEF AuthInv, RunsCleared, Cleared, GrantFor
    <3> QED BY <2>2, <3>1 DEF AuthInv, HeldOnce
  <2> QED BY <2>1, <2>2
<1>1. ASSUME NEW t \in Threads, KillSwitch(t) \/ BudgetGate(t) PROVE AuthInv'
  <2>1. /\ pc[t] \in {"breaker", "budget"} /\ call[t] \in Invocation /\ UNCHANGED runs
        /\ call[t].by = NoApproval
    BY <1>a, <1>1, InsideCall
       DEF KillSwitch, BudgetGate, history, Inside, Labels, AuthInv, Vetted
  <2>2. \/ \E c, next : Emit(t, c, next)
        \/ \E label \in {"budget", "policy"}, n \in Nat :
             Continue(t, label, call[t]) \/ Continue(t, label, [call[t] EXCEPT !.epoch = n])
    <3>1. CASE KillSwitch(t)
      <4>1. Agent(t) \in Agents
        BY <1>a, <3>1, InsideCall DEF KillSwitch, Inside, Labels
      <4>2. trips[Agent(t)] \in Nat
        BY <4>1 DEF Control, BreakerTypes
      <4> QED BY <3>1, <4>2 DEF KillSwitch, Refuse
    <3>2. CASE BudgetGate(t)
      BY <3>2 DEF BudgetGate
    <3> QED BY <1>1, <3>1, <3>2
  <2>3. ASSUME NEW label \in {"budget", "policy"}, NEW c, c.by = NoApproval, Continue(t, label, c)
        PROVE AuthInv'
    <3>1. pc'[t] = label /\ call'[t] = c /\ Alone(t)
      BY <1>a, <2>3, Continues
    <3> QED BY <1>b, <2>1, <2>3, <3>1 DEF Vetted, Holds
  <2>4. \A n \in Nat : [call[t] EXCEPT !.epoch = n].by = NoApproval
    BY <2>1 DEF Invocation
  <2> QED BY <1>d, <2>1, <2>2, <2>3, <2>4
<1>2. ASSUME NEW t \in Threads, PolicyGates(t) PROVE AuthInv'
  <2> DEFINE r == call[t].req
             c == [call[t] EXCEPT !.decision = "require_approval"]
  <2>1. /\ pc[t] = "policy" /\ call[t] \in Invocation /\ UNCHANGED runs
        /\ call[t].by = NoApproval /\ Resolves(r)
    BY <1>a, <1>2, InsideCall DEF PolicyGates, Inside, Labels, AuthInv, Vetted
  <2>2. c.by = NoApproval /\ c.req = r
    BY <2>1 DEF Invocation
  <2>3. /\ r \in Requests /\ r.agent \in Agents /\ r.tool \in Tools
        /\ Base[r.agent, r.tool] \in {"allow", "deny", "require_approval"}
        /\ Effects[r] \in SUBSET {"allow", "deny", "require_approval"}
    BY <2>1, RuntimeAssumption DEF Resolves, Invocation
  <2>4. \/ \E e : Refuse(t, e)
        \/ Leave(t, "raised")
        \/ /\ Admissible(r)
           /\ \/ Continue(t, "approval", c)
              \/ Continue(t, "arguments", call[t]) /\ ~NeedsHuman(r)
    BY <1>2, <2>1, <2>3 DEF PolicyGates, Effective, Admissible, NeedsHuman
  <2> HIDE DEF c
  <2>5. CASE Admissible(r) /\ Continue(t, "approval", c)
    <3>1. pc'[t] = "approval" /\ call'[t] = c /\ Alone(t)
      BY <1>a, <2>5, Continues
    <3> QED BY <1>b, <2>1, <2>2, <2>5, <3>1 DEF Vetted, Holds, Admissible, Resolves
  <2>6. CASE Admissible(r) /\ Continue(t, "arguments", call[t]) /\ ~NeedsHuman(r)
    <3>1. pc'[t] = "arguments" /\ call'[t] = call[t] /\ Alone(t)
      BY <1>a, <2>6, Continues
    <3>2. Vetted(t)'
      BY <2>1, <2>6, <3>1, RuntimeAssumption DEF Vetted, Cleared, Admissible, Resolves, NeedsHuman
    <3>3. ~Holds(t)'
      BY <2>1, <3>1, RuntimeAssumption DEF Holds
    <3> QED BY <1>b, <2>1, <3>1, <3>2, <3>3
  <2> QED BY <1>d, <2>1, <2>4, <2>5, <2>6
<1>3. ASSUME NEW t \in Threads, ReplayApproval(t) PROVE AuthInv'
  <2>1. UNCHANGED runs
    BY <1>3 DEF ReplayApproval, history
  <2>2. CASE \E e : Refuse(t, e)
    BY <1>d, <2>1, <2>2
  <2>3. CASE ~\E e : Refuse(t, e)
    <3>1. PICK r, id : r = call[t].req /\ id = r.token
      OBVIOUS
    <3>2. /\ id \in TokenIds /\ AS!Consume(id, r.agent, r.tool, r.args)
          /\ Continue(t, "arguments", [call[t] EXCEPT !.decision = "allow", !.by = id])
          /\ At(t, "approval")
      BY <1>3, <2>3, <3>1 DEF ReplayApproval
    <3> QED BY <1>a, <2>1, <3>1, <3>2, ConsumeAuthorised
  <2> QED BY <2>2, <2>3
<1>4. ASSUME NEW t \in Threads, AskHandler(t) PROVE AuthInv'
  <2> DEFINE c == [call[t] EXCEPT !.decision = "allow", !.by = "handler"]
  <2>1. /\ pc[t] = "approval" /\ call[t] \in Invocation /\ UNCHANGED runs
        /\ Admissible(call[t].req)
    BY <1>a, <1>4, InsideCall DEF AskHandler, Inside, Labels, AuthInv, Vetted
  <2>2. c.by = "handler" /\ c.req = call[t].req
    BY <2>1 DEF Invocation
  <2>3. Continue(t, "arguments", c) \/ (\E e : Refuse(t, e)) \/ Leave(t, "raised")
    BY <1>4 DEF AskHandler
  <2> HIDE DEF c
  <2>4. CASE Continue(t, "arguments", c)
    <3>1. pc'[t] = "arguments" /\ call'[t] = c /\ Alone(t)
      BY <1>a, <2>4, Continues
    <3>2. Vetted(t)'
      BY <2>1, <2>2, <3>1, RuntimeAssumption DEF Vetted, Cleared, Admissible, Resolves
    <3>3. ~Holds(t)'
      BY <2>2, <3>1, RuntimeAssumption DEF Holds
    <3> QED BY <1>b, <2>1, <3>1, <3>2, <3>3
  <2> QED BY <1>d, <2>1, <2>3, <2>4
<1>5. ASSUME NEW t \in Threads, Pause(t) \/ ToolReturns(t) \/ ToolRaises(t) PROVE AuthInv'
  BY <1>5, <1>d DEF Pause, ToolReturns, ToolRaises, history
<1>6. ASSUME NEW t \in Threads, EnforceArguments(t) PROVE AuthInv'
  <2>1. pc[t] = "arguments" /\ UNCHANGED runs /\ UNCHANGED grants
    BY <1>6 DEF EnforceArguments, history, store
  <2>2. CASE call[t].req \in ArgsAllowed /\ Continue(t, "dispatch", call[t])
    <3>1. pc'[t] = "dispatch" /\ call'[t] = call[t] /\ Alone(t)
      BY <1>a, <2>2, Continues
    <3>2. Vetted(t)'
      BY <2>1, <2>2, <3>1
         DEF AuthInv, Vetted, Cleared, GrantFor, Admissible, Resolves, NeedsHuman
    <3> QED BY <1>b, <2>1, <3>1, <3>2 DEF Holds
  <2> QED BY <1>6, <1>d, <2>1, <2>2 DEF EnforceArguments
<1>7. ASSUME NEW t \in Threads, Dispatch(t) PROVE AuthInv'
  BY <1>a, <1>7, DispatchAuthorised
<1>8. ASSUME NEW t \in Threads, Observe(t) \/ MonitorTrip(t) PROVE AuthInv'
  <2>1. pc'[t] \in Reporting /\ Alone(t) /\ UNCHANGED runs
    BY <1>a, <1>8 DEF Observe, MonitorTrip, ThreadTypes, Alone, Reporting, history
  <2> QED BY <1>c, <2>1
<1>9. ASSUME NEW t \in Threads, Write(t) \/ WriteFails(t) \/ BudgetTrip(t) PROVE AuthInv'
  <2>1. UNCHANGED runs
    BY <1>9 DEF Write, WriteFails, BudgetTrip
  <2>2. \/ pc' = [pc EXCEPT ![t] = "budget_trip"] /\ UNCHANGED <<call, then, found>>
        \/ (\E e : Refuse(t, e)) \/ (\E how : Leave(t, how))
    BY <1>9 DEF Write, WriteFails, BudgetTrip
  <2>3. CASE pc' = [pc EXCEPT ![t] = "budget_trip"] /\ UNCHANGED <<call, then, found>>
    <3>1. pc'[t] = "budget_trip" /\ Alone(t)
      BY <1>a, <2>3 DEF ThreadTypes, Alone
    <3> QED BY <1>c, <2>1, <3>1
  <2> QED BY <1>d, <2>1, <2>2, <2>3
<1>10. ASSUME NEW t \in Threads, ReportTrip(t) PROVE AuthInv'
  <2>1. Continue(t, "idle", NoCall) /\ UNCHANGED runs
    BY <1>10 DEF ReportTrip, history
  <2> QED BY <1>a, <1>c, <2>1, Continues
<1>11. ASSUME NEW t \in Threads, NEW r \in Requests, Invoke(t, r) PROVE AuthInv'
  <2>1. UNCHANGED runs /\ (UNCHANGED thread \/ Continue(t, "breaker", NewCall(r)))
    BY <1>11 DEF Invoke
  <2>2. NewCall(r).by = NoApproval
    BY DEF NewCall
  <2>3. CASE Continue(t, "breaker", NewCall(r))
    <3>1. pc'[t] = "breaker" /\ call'[t].by = NoApproval /\ Alone(t)
      BY <1>a, <2>2, <2>3, Continues
    <3> QED BY <1>b, <2>1, <3>1 DEF Vetted, Holds
  <2> QED BY <1>e, <2>1, <2>3
<1>12. ASSUME NEW t \in Threads, NEW a \in Agents, NEW delta \in Reports,
              ReportUsage(t, a, delta)
       PROVE AuthInv'
  <2>1. /\ UNCHANGED runs
        /\ \/ UNCHANGED thread
           \/ Continue(t, "report_trip", [inv |-> 0, req |-> [agent |-> a]])
    BY <1>12 DEF ReportUsage
  <2> QED BY <1>a, <1>c, <1>e, <2>1, Continues
<1>13. ASSUME \/ \E id \in TokenIds : Review(id)
              \/ \E a \in Agents : ResetBreaker(a)
              \/ \E k \in LedgerKeys : ResetBudget(k)
              \/ Tick \/ UNCHANGED vars
       PROVE AuthInv'
  BY <1>e, <1>13 DEF Review, ResetBreaker, ResetBudget, Tick, vars, history
<1> QED
  BY <1>1, <1>2, <1>3, <1>4, <1>5, <1>6, <1>7, <1>8, <1>9, <1>10, <1>11, <1>12, <1>13
     DEF Next, Step

(* A tool function is entered only for a call every gate admits; where a   *)
(* human must decide, one did, and one approval lets one call through,     *)
(* however many threads retry with it.                                     *)
THEOREM RunsAuthorised == Spec => []RunAuthorized
<1>1. Init => AuthInv
  BY DEF Init, AuthInv, Vetted, HeldOnce, Holds, RunsCleared
<1>2. Init => LogTypes
  BY DEF Init, LogTypes, Ending
<1>3. Spec => []LogTypes
  <2>1. Init => BL!TypeOK
    BY DEF Init, AS!Init, BL!TypeOK, BL!NoSpend, BL!Spend
  <2> QED BY <1>2, <2>1, RecordStep, ControlAlways, PTL DEF Spec
<1>4. Spec => []AuthInv
  BY <1>1, <1>3, AuthStep, ControlAlways, StoreInvariant, PTL DEF Spec
<1>5. StoreInv /\ AuthInv => RunAuthorized
  <2> SUFFICES ASSUME StoreInv, AuthInv, NEW i \in DOMAIN runs, runs[i].by \in TokenIds
               PROVE  /\ verdicts[runs[i].by] = {"approved"}
                      /\ bound[runs[i].by].agent_id = runs[i].req.agent
                      /\ bound[runs[i].by].tool_name = runs[i].req.tool
                      /\ bound[runs[i].by].args_digest = ArgsDigest[runs[i].req.args]
    BY DEF RunAuthorized, AuthInv, RunsCleared, Cleared
  <2>1. PICK j \in DOMAIN grants : GrantFor(grants[j], runs[i].by, runs[i].req)
    BY DEF AuthInv, RunsCleared, Cleared
  <2> QED BY <2>1 DEF GrantFor, StoreInv, ASP!IInv, ASP!GrantAuthorized
<1> QED BY <1>4, <1>5, StoreInvariant, PTL
-----------------------------------------------------------------------------
(* The log.  Each invocation has a number of its own, which its thread     *)
(* carries from entry to exit; what the log may say under that number      *)
(* depends on how far the thread is.                                       *)
Active(t) == pc[t] \in Inside
Ran(n) == \E i \in DOMAIN runs : runs[i].inv = n
Logged(n) == \E i \in DOMAIN audit : audit[i].inv = n
Returned(n) == [inv |-> n, how |-> "returned"]

(* Errors an event may carry although the tool was entered.                *)
AfterRun == {"none", "tool_error", "BudgetExceeded"}

Numbered ==
  /\ \A t \in Threads : Active(t) =>
       /\ call[t].inv \in 1..started
       /\ \A u \in Threads \ {t} : Active(u) => call[u].inv # call[t].inv
       /\ \A e \in ended : e.inv # call[t].inv
       /\ pc[t] # "budget_trip" => ~Logged(call[t].inv)
       /\ call[t].ran <=> Ran(call[t].inv)
  /\ \A i \in DOMAIN runs : runs[i].inv \in 1..started
  /\ \A i \in DOMAIN audit : audit[i].inv \in 1..started
  /\ \A e \in ended : e.inv \in 1..started
  /\ \A i, j \in DOMAIN runs : runs[i].inv = runs[j].inv => i = j
  /\ \A i, j \in DOMAIN audit : audit[i].inv = audit[j].inv => i = j

(* The event a thread is building agrees with what it did.                 *)
Told(t) ==
  /\ pc[t] \in {"breaker", "budget", "policy", "approval", "arguments", "dispatch"} =>
       call[t].error = "none" /\ ~call[t].ran
  /\ pc[t] = "running" => call[t].error = "none" /\ call[t].ran
  /\ pc[t] \in Reporting \cup {"budget_trip"} =>
       /\ call[t].error = "none" <=> then[t] = "return"
       /\ call[t].ran <=> call[t].error \in AfterRun
       /\ then[t] = "budget_trip" => call[t].error = "budget_exceeded"
  /\ pc[t] = "budget_trip" => then[t] = "budget_trip"

(* What is on record is what happened.                                     *)
Truthful ==
  /\ \A i \in DOMAIN audit :
       /\ audit[i].error = "none" => Ran(audit[i].inv) /\ Returned(audit[i].inv) \in ended
       /\ audit[i].error \notin AfterRun => ~Ran(audit[i].inv)
       /\ audit[i].error # "none" => Returned(audit[i].inv) \notin ended
  /\ \A e \in ended : Ran(e.inv) => Logged(e.inv)

LogInv == Numbered /\ (\A t \in Threads : Told(t)) /\ Truthful

(* A step inside the pipeline that writes no history.                      *)
LEMMA LogKept ==
  ASSUME Control, LogInv, NEW t \in Threads, Alone(t), UNCHANGED <<runs, audit, ended, started>>,
         Active(t), pc[t] # "budget_trip", Active(t)',
         call'[t].inv = call[t].inv, call'[t].ran = call[t].ran, Told(t)'
  PROVE  LogInv'
<1>1. \A u \in Threads : /\ Active(u)' <=> Active(u)
                         /\ call'[u].inv = call[u].inv /\ call'[u].ran = call[u].ran
                         /\ pc'[u] # "budget_trip" => u = t \/ pc[u] # "budget_trip"
  BY DEF Alone, Active
<1>2. Numbered'
  BY <1>1 DEF LogInv, Numbered, Ran, Logged
<1>3. Truthful'
  BY DEF LogInv, Truthful, Ran, Logged, Returned
<1>4. \A u \in Threads : Told(u)'
  BY DEF LogInv, Told, Alone
<1> QED BY <1>2, <1>3, <1>4 DEF LogInv

(* A call that never entered its tool leaves, its event on record or not.  *)
LEMMA LogAbandoned ==
  ASSUME Control, LogTypes, LogInv, NEW t \in Threads, Active(t), ~call[t].ran,
         Leave(t, "raised"), UNCHANGED <<runs, audit, started>>
  PROVE  LogInv'
<1> DEFINE gone == [inv |-> call[t].inv, how |-> "raised"]
<1>1. pc'[t] = "idle" /\ ended' = ended \cup {gone} /\ Alone(t)
  BY Leaves DEF Control
<1>2. gone.inv = call[t].inv /\ \A n : gone # Returned(n)
  BY DEF Returned
<1>3. call[t].inv \in 1..started /\ ~Ran(call[t].inv)
  BY DEF LogInv, Numbered
<1> HIDE DEF gone
<1>4. ~Active(t)' /\ \A u \in Threads \ {t} : (Active(u)' <=> Active(u)) /\ call'[u] = call[u]
                                              /\ pc'[u] = pc[u]
  BY <1>1 DEF Alone, Active, Inside
<1>5. Numbered'
  BY <1>1, <1>2, <1>3, <1>4 DEF LogInv, Numbered, Ran, Logged
<1>6. Truthful'
  BY <1>1, <1>2, <1>3 DEF LogInv, Truthful, Ran, Logged, Returned
<1>7. \A u \in Threads : Told(u)'
  BY <1>1 DEF LogInv, Told, Alone, Reporting
<1> QED BY <1>5, <1>6, <1>7 DEF LogInv

(* A call's event goes on record: as the thread leaves, or before it trips *)
(* the breaker.                                                            *)
LEMMA LogWritten ==
  ASSUME Control, LogTypes, LogInv, NEW t \in Threads, Write(t)
  PROVE  LogInv'
<1> DEFINE ev == Event(call[t])
           n == call[t].inv
           how == IF then[t] = "return" THEN "returned" ELSE "raised"
           gone == [inv |-> n, how |-> how]
<1>1. /\ pc[t] = "write" /\ Active(t) /\ UNCHANGED <<runs, started>>
      /\ call[t] \in Invocation
  BY InsideCall DEF Control, Write, At, Active, Inside, Labels
<1>2. ev.inv = n /\ ev.error = call[t].error
  BY DEF Event
<1>3. /\ DOMAIN audit = 1..Len(audit) /\ Len(audit) \in Nat
      /\ DOMAIN audit' = 1..Len(audit) + 1
      /\ audit'[Len(audit) + 1] = ev
      /\ \A i \in DOMAIN audit : audit'[i] = audit[i]
  <2>1. audit \in Seq(AuditEvent) /\ audit' = Append(audit, ev)
    BY DEF LogTypes, Write
  <2> HIDE DEF ev
  <2> QED BY <2>1
<1>4. \A i \in DOMAIN audit' : i \in DOMAIN audit \/ i = Len(audit) + 1
  BY <1>3
<1>5. /\ n \in 1..started /\ ~Logged(n) /\ (call[t].ran <=> Ran(n))
      /\ \A e \in ended : e.inv # n
      /\ \A u \in Threads \ {t} : Active(u) => call[u].inv # n
  BY <1>1 DEF LogInv, Numbered
<1>6. /\ call[t].error = "none" <=> then[t] = "return"
      /\ call[t].ran <=> call[t].error \in AfterRun
      /\ then[t] = "budget_trip" => call[t].error = "budget_exceeded"
  BY <1>1 DEF LogInv, Told, Reporting
<1>7. \A m \in Nat : Logged(m)' <=> Logged(m) \/ m = n
  BY <1>2, <1>3, <1>4 DEF Logged
<1>8. \/ /\ then[t] = "budget_trip" /\ ended' = ended
         /\ pc'[t] = "budget_trip" /\ call'[t] = call[t] /\ then'[t] = then[t] /\ Alone(t)
      \/ /\ then[t] # "budget_trip" /\ ended' = ended \cup {gone}
         /\ pc'[t] = "idle" /\ Alone(t)
  <2>1. CASE then[t] = "budget_trip"
    BY <2>1 DEF Write, Control, ThreadTypes, Alone
  <2>2. CASE then[t] # "budget_trip"
    <3>1. Leave(t, how)
      BY <2>2 DEF Write
    <3> HIDE DEF how
    <3> QED BY <2>2, <3>1, Leaves DEF Control
  <2> QED BY <2>1, <2>2
<1>9. Alone(t)
  BY <1>8
<1>10. gone.inv = n /\ (gone = Returned(n) <=> then[t] = "return")
       /\ \A m \in Nat : m # n => gone # Returned(m)
  BY DEF Returned
<1> HIDE DEF ev, gone, how, n
<1>11. \A u \in Threads \ {t} : /\ Active(u)' <=> Active(u)
                                /\ call'[u] = call[u] /\ pc'[u] = pc[u] /\ then'[u] = then[u]
  BY <1>9 DEF Alone, Active
<1>12. \A i \in DOMAIN audit' : audit'[i].inv \in 1..started
  BY <1>2, <1>3, <1>4, <1>5 DEF LogInv, Numbered
<1>13. \A i, j \in DOMAIN audit' : audit'[i].inv = audit'[j].inv => i = j
  BY <1>2, <1>3, <1>4, <1>5 DEF LogInv, Numbered, Logged
<1>14. \A u \in Threads : Active(u)' =>
         /\ call'[u] = call[u]
         /\ u = t => pc'[t] = "budget_trip"
         /\ u # t => Active(u) /\ pc'[u] = pc[u]
  BY <1>8, <1>11 DEF Active, Inside, Labels
<1>15. \A u \in Threads : Active(u)' =>
         /\ call'[u].inv \in 1..started
         /\ \A v \in Threads \ {u} : Active(v)' => call'[v].inv # call'[u].inv
         /\ call'[u].ran <=> Ran(call'[u].inv)
  BY <1>1, <1>14 DEF LogInv, Numbered
<1>16. \A u \in Threads : Active(u)' => \A e \in ended' : e.inv # call'[u].inv
  <2> TAKE u \in Threads
  <2> HAVE Active(u)'
  <2>1. CASE u = t
    BY <1>5, <1>8, <1>14, <2>1 DEF Inside, Labels, n
  <2>2. CASE u # t
    BY <1>5, <1>8, <1>10, <1>14, <2>2 DEF LogInv, Numbered
  <2> QED BY <2>1, <2>2
<1>17. \A u \in Threads : Active(u)' /\ pc'[u] # "budget_trip" =>
         \A i \in DOMAIN audit' : audit'[i].inv # call'[u].inv
  BY <1>2, <1>3, <1>4, <1>5, <1>14 DEF LogInv, Numbered, Logged
<1>18. \A e \in ended' : e.inv \in 1..started
  BY <1>5, <1>8, <1>10 DEF LogInv, Numbered
<1>19. Numbered'
  BY <1>1, <1>12, <1>13, <1>15, <1>16, <1>17, <1>18 DEF LogInv, Numbered, Ran, Logged
<1>20. \A u \in Threads : Told(u)'
  <2>1. Told(t)'
    BY <1>1, <1>6, <1>8 DEF Told, Reporting
  <2> QED BY <1>11, <2>1 DEF LogInv, Told
<1>21. ASSUME NEW i \in DOMAIN audit'
       PROVE  /\ audit'[i].error = "none" =>
                   Ran(audit'[i].inv) /\ Returned(audit'[i].inv) \in ended'
              /\ audit'[i].error \notin AfterRun => ~Ran(audit'[i].inv)
              /\ audit'[i].error # "none" => Returned(audit'[i].inv) \notin ended'
  <2>1. CASE i \in DOMAIN audit
    <3>1. audit[i].inv # n /\ audit[i].inv \in Nat
      BY <1>5, <2>1 DEF LogInv, Numbered, Logged
    <3> QED BY <1>3, <1>8, <1>10, <2>1, <3>1 DEF LogInv, Truthful
  <2>2. CASE i = Len(audit) + 1
    BY <1>2, <1>3, <1>5, <1>6, <1>8, <1>10, <2>2 DEF AfterRun, Returned
  <2> QED BY <1>4, <2>1, <2>2
<1>22. \A e \in ended' : Ran(e.inv) => Logged(e.inv)'
  BY <1>2, <1>3, <1>4, <1>8, <1>10 DEF LogInv, Truthful, Logged
<1>23. Truthful'
  BY <1>1, <1>21, <1>22 DEF Truthful, Ran, Logged, Returned
<1> QED BY <1>19, <1>20, <1>23 DEF LogInv

(* A call's event is handed to the sinks, its tool entered or not.         *)
LEMMA LogEmitted ==
  ASSUME Control, LogInv, NEW t \in Threads, Active(t), pc[t] # "budget_trip",
         NEW c, NEW next, Emit(t, c, next), UNCHANGED history, UNCHANGED audit,
         c.inv = call[t].inv, c.ran = call[t].ran,
         c.error = "none" <=> next = "return",
         c.ran <=> c.error \in AfterRun,
         next = "budget_trip" => c.error = "budget_exceeded"
  PROVE  LogInv'
<1>1. /\ pc'[t] \in {"observe", "write"} /\ call'[t] = c /\ then'[t] = next /\ Alone(t)
  BY Emits DEF Control
<1>2. Told(t)' /\ Active(t)'
  BY <1>1 DEF Told, Active, Reporting, Inside, Labels
<1> QED BY <1>1, <1>2, LogKept DEF history

(* A refusal is told as one.                                               *)
LEMMA LogRefused ==
  ASSUME Control, LogInv, NEW t \in Threads, Active(t), pc[t] # "budget_trip",
         NEW e, Refuse(t, e), UNCHANGED history, UNCHANGED audit, e # "none",
         call[t].ran <=> e \in AfterRun
  PROVE  LogInv'
<1> DEFINE c == [call[t] EXCEPT !.error = e]
<1>1. call[t] \in Invocation
  BY InsideCall DEF Control, Active
<1>2. c.inv = call[t].inv /\ c.ran = call[t].ran /\ c.error = e
  BY <1>1 DEF Invocation
<1>3. Emit(t, c, "raise")
  BY DEF Refuse
<1> HIDE DEF c
<1> QED BY <1>2, <1>3, LogEmitted

(* A call moves on, past its gates, without a word to the sinks.           *)
LEMMA LogPassed ==
  ASSUME Control, LogInv, NEW t \in Threads, Active(t), pc[t] # "budget_trip",
         NEW label \in {"breaker", "budget", "policy", "approval", "arguments", "dispatch"},
         NEW c, Continue(t, label, c), UNCHANGED history, UNCHANGED audit,
         c.inv = call[t].inv, c.ran = call[t].ran, c.error = "none", ~c.ran
  PROVE  LogInv'
<1>1. pc'[t] = label /\ call'[t] = c /\ Alone(t)
  BY Continues DEF Control
<1>2. Told(t)' /\ Active(t)'
  BY <1>1 DEF Told, Active, Reporting, Inside, Labels
<1> QED BY <1>1, <1>2, LogKept DEF history

(* The tool is entered: once, under the call's number.                     *)
LEMMA LogDispatched ==
  ASSUME Control, LogTypes, LogInv, NEW t \in Threads, Dispatch(t)
  PROVE  LogInv'
<1> DEFINE run == [inv |-> call[t].inv, req |-> call[t].req, by |-> call[t].by]
           c == [call[t] EXCEPT !.ran = TRUE]
           n == call[t].inv
<1>1. /\ pc[t] = "dispatch" /\ Active(t) /\ UNCHANGED <<audit, ended, started>>
      /\ call[t] \in Invocation
  BY InsideCall DEF Control, Dispatch, At, Active, Inside, Labels
<1>2. run.inv = n
  OBVIOUS
<1>3. c.inv = n /\ c.ran /\ c.error = call[t].error
  BY <1>1 DEF Invocation
<1>4. Continue(t, "running", c)
  BY DEF Dispatch
<1>5. /\ DOMAIN runs = 1..Len(runs) /\ Len(runs) \in Nat
      /\ DOMAIN runs' = 1..Len(runs) + 1
      /\ runs'[Len(runs) + 1] = run
      /\ \A i \in DOMAIN runs : runs'[i] = runs[i]
  <2>1. runs \in Seq(Run) /\ runs' = Append(runs, run)
    BY DEF LogTypes, Dispatch
  <2> HIDE DEF run
  <2> QED BY <2>1
<1>6. \A i \in DOMAIN runs' : i \in DOMAIN runs \/ i = Len(runs) + 1
  BY <1>5
<1>7. /\ call[t].error = "none" /\ ~call[t].ran
      /\ n \in 1..started /\ ~Logged(n) /\ ~Ran(n)
      /\ \A e \in ended : e.inv # n
      /\ \A u \in Threads \ {t} : Active(u) => call[u].inv # n
  BY <1>1 DEF LogInv, Numbered, Told
<1> HIDE DEF run, c, n
<1>8. pc'[t] = "running" /\ call'[t] = c /\ Alone(t)
  BY <1>4, Continues DEF Control
<1>9. \A m \in Nat : Ran(m)' <=> Ran(m) \/ m = n
  BY <1>2, <1>5, <1>6 DEF Ran
<1>10. \A u \in Threads \ {t} : /\ Active(u)' <=> Active(u)
                                /\ call'[u] = call[u] /\ pc'[u] = pc[u] /\ then'[u] = then[u]
  BY <1>8 DEF Alone, Active
<1>11. Active(t)' /\ call'[t].inv = n /\ call'[t].ran
  BY <1>3, <1>8 DEF Active, Inside, Labels
<1>12. \A i \in DOMAIN runs' : runs'[i].inv \in 1..started
  BY <1>2, <1>5, <1>6, <1>7 DEF LogInv, Numbered
<1>13. \A i, j \in DOMAIN runs' : runs'[i].inv = runs'[j].inv => i = j
  BY <1>2, <1>5, <1>6, <1>7 DEF LogInv, Numbered, Ran
<1>14. \A u \in Threads : Active(u)' =>
         /\ call'[u].inv \in 1..started
         /\ \A v \in Threads \ {u} : Active(v)' => call'[v].inv # call'[u].inv
         /\ \A e \in ended : e.inv # call'[u].inv
         /\ pc'[u] # "budget_trip" => ~Logged(call'[u].inv)
  BY <1>7, <1>8, <1>10, <1>11 DEF LogInv, Numbered
<1>15. \A u \in Threads : Active(u)' =>
         (call'[u].ran <=> \E i \in DOMAIN runs' : runs'[i].inv = call'[u].inv)
  BY <1>7, <1>9, <1>10, <1>11, <1>14 DEF LogInv, Numbered, Ran
<1>16. Numbered'
  BY <1>1, <1>12, <1>13, <1>14, <1>15 DEF LogInv, Numbered, Ran, Logged
<1>17. \A u \in Threads : Told(u)'
  BY <1>3, <1>7, <1>8, <1>10 DEF LogInv, Told, Reporting
<1>18. Truthful'
  <2>1. \A i \in DOMAIN audit : audit[i].inv \in Nat /\ audit[i].inv # n
    BY <1>7 DEF LogInv, Numbered, Logged
  <2>2. \A e \in ended : e.inv \in Nat /\ e.inv # n
    BY <1>7 DEF LogInv, Numbered
  <2> QED BY <1>1, <1>9, <2>1, <2>2 DEF LogInv, Truthful, Logged, Returned
<1> QED BY <1>16, <1>17, <1>18 DEF LogInv

(* A step that writes no history and works on no call inside the pipeline. *)
LEMMA LogApart ==
  ASSUME Control, LogInv, UNCHANGED <<runs, ended, audit>>, started' \in {started, started + 1},
         \A u \in Threads : \/ ~Active(u)'
                            \/ Active(u) /\ pc'[u] = pc[u] /\ call'[u] = call[u] /\ then'[u] = then[u]
  PROVE  LogInv'
<1>1. 1..started \subseteq 1..started'
  BY DEF Control
<1>2. Numbered'
  BY <1>1 DEF LogInv, Numbered, Ran, Logged
<1>3. Truthful'
  BY DEF LogInv, Truthful, Ran, Logged, Returned
<1>4. \A u \in Threads : Told(u)'
  BY DEF LogInv, Told, Active, Reporting, Inside, Labels
<1> QED BY <1>2, <1>3, <1>4 DEF LogInv

(* A call enters under a number of its own, or ends as it begins.          *)
LEMMA LogInvoked ==
  ASSUME Control, LogInv, NEW t \in Threads, NEW r \in Requests, Invoke(t, r)
  PROVE  LogInv'
<1> DEFINE n == started + 1
           gone == [inv |-> n, how |-> "unresolved"]
           c == NewCall(r)
<1>1. /\ pc[t] = "idle" /\ ~Active(t) /\ started' = n /\ UNCHANGED <<audit, runs>>
      /\ n \notin 1..started /\ 1..n = (1..started) \cup {n} /\ started \in Nat
  BY DEF Invoke, At, Active, Inside, Control
<1>2. ~Ran(n) /\ ~Logged(n) /\ (\A e \in ended : e.inv # n)
      /\ \A u \in Threads : Active(u) => call[u].inv # n
  BY <1>1 DEF LogInv, Numbered, Ran, Logged
<1>3. CASE Resolves(r)
  <2>1. c.inv = n /\ c.error = "none" /\ ~c.ran
    BY DEF NewCall
  <2>2. Continue(t, "breaker", c) /\ UNCHANGED ended
    BY <1>3 DEF Invoke
  <2> HIDE DEF c, n
  <2>3. pc'[t] = "breaker" /\ call'[t] = c /\ Alone(t)
    BY <2>2, Continues DEF Control
  <2>4. \A u \in Threads \ {t} : /\ Active(u)' <=> Active(u)
                                 /\ call'[u] = call[u] /\ pc'[u] = pc[u] /\ then'[u] = then[u]
    BY <2>3 DEF Alone, Active
  <2>5. Numbered'
    BY <1>1, <1>2, <2>1, <2>2, <2>3, <2>4 DEF LogInv, Numbered, Ran, Logged
  <2>6. Truthful'
    BY <1>1, <2>2 DEF LogInv, Truthful, Ran, Logged, Returned
  <2>7. \A u \in Threads : Told(u)'
    BY <2>1, <2>3, <2>4 DEF LogInv, Told, Reporting
  <2> QED BY <2>5, <2>6, <2>7 DEF LogInv
<1>4. CASE ~Resolves(r)
  <2>1. UNCHANGED thread /\ ended' = ended \cup {gone}
    BY <1>4 DEF Invoke
  <2>2. gone.inv = n /\ \A m : gone # Returned(m)
    BY DEF Returned
  <2> HIDE DEF gone, n
  <2>3. Numbered'
    BY <1>1, <1>2, <2>1, <2>2 DEF LogInv, Numbered, Ran, Logged, Active, thread
  <2>4. Truthful'
    BY <1>1, <1>2, <2>1, <2>2 DEF LogInv, Truthful, Ran, Logged
  <2>5. \A u \in Threads : Told(u)'
    BY <2>1 DEF LogInv, Told, thread
  <2> QED BY <2>3, <2>4, <2>5 DEF LogInv
<1> QED BY <1>3, <1>4

(* The log follows the calls through every step, as long as it does not    *)
(* raise itself.                                                           *)
LEMMA LogStep ==
  ASSUME "sink" \notin Faults, Control, LogTypes, LogInv, [Next]_vars
  PROVE  LogInv'
<1> USE DEF At
<1>a. ThreadTypes
  BY DEF Control
<1>b. ASSUME NEW t \in Threads,
             pc[t] \in {"breaker", "budget", "policy", "approval", "arguments", "dispatch"}
      PROVE  /\ Active(t) /\ pc[t] # "budget_trip" /\ call[t] \in Invocation
             /\ call[t].error = "none" /\ ~call[t].ran
  BY <1>a, <1>b, InsideCall DEF Active, Inside, Labels, LogInv, Told
<1>c. ASSUME NEW t \in Threads, pc[t] = "running"
      PROVE  /\ Active(t) /\ pc[t] # "budget_trip" /\ call[t] \in Invocation
             /\ call[t].error = "none" /\ call[t].ran
  BY <1>a, <1>c, InsideCall DEF Active, Inside, Labels, LogInv, Told
<1>d. ASSUME NEW t \in Threads, NEW n, call[t] \in Invocation
      PROVE  LET c == [call[t] EXCEPT !.epoch = n]
             IN c.inv = call[t].inv /\ c.ran = call[t].ran /\ c.error = call[t].error
  BY <1>d DEF Invocation
<1>e. ASSUME NEW t \in Threads, NEW e, call[t] \in Invocation
      PROVE  LET c == [call[t] EXCEPT !.error = e]
             IN c.inv = call[t].inv /\ c.ran = call[t].ran /\ c.error = e
  BY <1>e DEF Invocation
<1>f. ASSUME NEW t \in Threads, NEW d, NEW by, NEW e, call[t] \in Invocation
      PROVE  /\ LET c == [call[t] EXCEPT !.decision = d]
                IN c.inv = call[t].inv /\ c.ran = call[t].ran /\ c.error = call[t].error
             /\ LET c == [call[t] EXCEPT !.decision = d, !.by = by]
                IN c.inv = call[t].inv /\ c.ran = call[t].ran /\ c.error = call[t].error
             /\ LET c == [call[t] EXCEPT !.decision = d, !.error = e]
                IN c.inv = call[t].inv /\ c.ran = call[t].ran /\ c.error = e
  BY <1>f DEF Invocation
<1>1. ASSUME NEW t \in Threads, KillSwitch(t) PROVE LogInv'
  <2>1. /\ pc[t] = "breaker" /\ UNCHANGED history /\ UNCHANGED audit
        /\ \/ Refuse(t, "circuit_breaker_open")
           \/ \E n : Continue(t, "budget", [call[t] EXCEPT !.epoch = n])
           \/ Continue(t, "budget", call[t])
    BY <1>1 DEF KillSwitch
  <2>2. CASE Refuse(t, "circuit_breaker_open")
    BY <1>b, <2>1, <2>2, LogRefused DEF AfterRun
  <2>3. CASE \E n : Continue(t, "budget", [call[t] EXCEPT !.epoch = n])
    <3>1. PICK n, c : c = [call[t] EXCEPT !.epoch = n] /\ Continue(t, "budget", c)
      BY <2>3
    <3>2. c.inv = call[t].inv /\ c.ran = call[t].ran /\ c.error = call[t].error
      BY <1>b, <1>d, <2>1, <3>1
    <3> QED BY <1>b, <2>1, <3>1, <3>2, LogPassed
  <2>4. CASE Continue(t, "budget", call[t])
    BY <1>b, <2>1, <2>4, LogPassed
  <2> QED BY <2>1, <2>2, <2>3, <2>4
<1>2. ASSUME NEW t \in Threads, BudgetGate(t) PROVE LogInv'
  <2> DEFINE c == [call[t] EXCEPT !.error = "budget_exceeded"]
  <2>1. /\ pc[t] = "budget" /\ UNCHANGED history /\ UNCHANGED audit
        /\ \/ Continue(t, "policy", call[t])
           \/ \E next : next # "return" /\ Emit(t, c, next)
    BY <1>2 DEF BudgetGate
  <2>2. c.inv = call[t].inv /\ c.ran = call[t].ran /\ c.error = "budget_exceeded"
    BY <1>b, <1>e, <2>1
  <2> HIDE DEF c
  <2>3. CASE Continue(t, "policy", call[t])
    BY <1>b, <2>1, <2>3, LogPassed
  <2>4. CASE \E next : next # "return" /\ Emit(t, c, next)
    BY <1>b, <2>1, <2>2, <2>4, LogEmitted DEF AfterRun
  <2> QED BY <2>1, <2>3, <2>4
<1>3. ASSUME NEW t \in Threads, BudgetTrip(t) PROVE LogInv'
  <2>1. /\ pc[t] = "budget_trip" /\ Active(t) /\ Leave(t, "raised")
        /\ UNCHANGED <<runs, audit, started>>
    BY <1>3 DEF BudgetTrip, Active, Inside, Labels
  <2>2. ~call[t].ran
    BY <2>1 DEF LogInv, Told, AfterRun
  <2> QED BY <2>1, <2>2, LogAbandoned
<1>4. ASSUME NEW t \in Threads, PolicyGates(t) PROVE LogInv'
  <2> DEFINE c == [call[t] EXCEPT !.decision = "require_approval"]
  <2>1. /\ pc[t] = "policy" /\ UNCHANGED <<audit, runs, started>>
        /\ \/ /\ UNCHANGED ended
              /\ \/ \E e \in Errors \ AfterRun : Refuse(t, e)
                 \/ Continue(t, "approval", c)
                 \/ Continue(t, "arguments", call[t])
           \/ Leave(t, "raised")
    BY <1>4 DEF PolicyGates, Errors, AfterRun
  <2>2. c.inv = call[t].inv /\ c.ran = call[t].ran /\ c.error = call[t].error
    BY <1>b, <1>f, <2>1
  <2> HIDE DEF c
  <2>3. CASE UNCHANGED ended /\ \E e \in Errors \ AfterRun : Refuse(t, e)
    BY <1>b, <2>1, <2>3, LogRefused DEF AfterRun, history
  <2>4. CASE UNCHANGED ended /\ (Continue(t, "approval", c) \/ Continue(t, "arguments", call[t]))
    BY <1>b, <2>1, <2>2, <2>4, LogPassed DEF history
  <2>5. CASE Leave(t, "raised")
    BY <1>b, <2>1, <2>5, LogAbandoned
  <2> QED BY <2>1, <2>3, <2>4, <2>5
<1>5. ASSUME NEW t \in Threads, ReplayApproval(t) PROVE LogInv'
  <2>1. PICK c : c = [call[t] EXCEPT !.decision = "allow", !.by = call[t].req.token]
    OBVIOUS
  <2>2. /\ pc[t] = "approval" /\ UNCHANGED history /\ UNCHANGED audit
        /\ Refuse(t, "invalid_or_mismatched_approval_token") \/ Continue(t, "arguments", c)
    BY <1>5, <2>1 DEF ReplayApproval
  <2>3. c.inv = call[t].inv /\ c.ran = call[t].ran /\ c.error = call[t].error
    BY <1>b, <1>f, <2>1, <2>2
  <2>4. CASE Refuse(t, "invalid_or_mismatched_approval_token")
    BY <1>b, <2>2, <2>4, LogRefused DEF AfterRun
  <2>5. CASE Continue(t, "arguments", c)
    BY <1>b, <2>2, <2>3, <2>5, LogPassed
  <2> QED BY <2>2, <2>4, <2>5
<1>6. ASSUME NEW t \in Threads, AskHandler(t) PROVE LogInv'
  <2> DEFINE c == [call[t] EXCEPT !.decision = "allow", !.by = "handler"]
  <2>1. /\ pc[t] = "approval" /\ UNCHANGED <<audit, runs, started>>
        /\ \/ UNCHANGED ended /\ Continue(t, "arguments", c)
           \/ UNCHANGED ended /\ Refuse(t, "denied_by_approval_handler")
           \/ Leave(t, "raised")
    BY <1>6 DEF AskHandler
  <2>2. c.inv = call[t].inv /\ c.ran = call[t].ran /\ c.error = call[t].error
    BY <1>b, <1>f, <2>1
  <2> HIDE DEF c
  <2>3. CASE UNCHANGED ended /\ Continue(t, "arguments", c)
    BY <1>b, <2>1, <2>2, <2>3, LogPassed DEF history
  <2>4. CASE UNCHANGED ended /\ Refuse(t, "denied_by_approval_handler")
    BY <1>b, <2>1, <2>4, LogRefused DEF AfterRun, history
  <2>5. CASE Leave(t, "raised")
    BY <1>b, <2>1, <2>5, LogAbandoned
  <2> QED BY <2>1, <2>3, <2>4, <2>5
<1>7. ASSUME NEW t \in Threads, Pause(t) PROVE LogInv'
  BY <1>b, <1>7, LogRefused DEF Pause, AfterRun
<1>8. ASSUME NEW t \in Threads, EnforceArguments(t) PROVE LogInv'
  <2> DEFINE c == [call[t] EXCEPT !.decision = "deny", !.error = "capability_violation"]
  <2>1. /\ pc[t] = "arguments" /\ UNCHANGED history /\ UNCHANGED audit
        /\ Continue(t, "dispatch", call[t]) \/ Emit(t, c, "raise")
    BY <1>8 DEF EnforceArguments
  <2>2. c.inv = call[t].inv /\ c.ran = call[t].ran /\ c.error = "capability_violation"
    BY <1>b, <1>f, <2>1
  <2> HIDE DEF c
  <2>3. CASE Continue(t, "dispatch", call[t])
    BY <1>b, <2>1, <2>3, LogPassed
  <2>4. CASE Emit(t, c, "raise")
    BY <1>b, <2>1, <2>2, <2>4, LogEmitted DEF AfterRun
  <2> QED BY <2>1, <2>3, <2>4
<1>9. ASSUME NEW t \in Threads, ToolReturns(t) PROVE LogInv'
  <2>1. /\ pc[t] = "running" /\ UNCHANGED history /\ UNCHANGED audit
        /\ Emit(t, call[t], "return") \/ Refuse(t, "BudgetExceeded")
    BY <1>9 DEF ToolReturns
  <2>2. CASE Emit(t, call[t], "return")
    BY <1>c, <2>1, <2>2, LogEmitted DEF AfterRun
  <2>3. CASE Refuse(t, "BudgetExceeded")
    BY <1>c, <2>1, <2>3, LogRefused DEF AfterRun
  <2> QED BY <2>1, <2>2, <2>3
<1>10. ASSUME NEW t \in Threads, ToolRaises(t) PROVE LogInv'
  BY <1>c, <1>10, LogRefused DEF ToolRaises, AfterRun
<1>11. ASSUME NEW t \in Threads, Observe(t) \/ MonitorTrip(t) PROVE LogInv'
  <2>1. /\ pc[t] \in {"observe", "trip"} /\ pc'[t] \in {"trip", "write"} /\ Alone(t)
        /\ UNCHANGED <<call, then, history, audit>>
    BY <1>a, <1>11 DEF Observe, MonitorTrip, ThreadTypes, Alone
  <2>2. Told(t)' /\ Active(t) /\ Active(t)'
    BY <2>1 DEF LogInv, Told, Active, Reporting, Inside, Labels
  <2> QED BY <2>1, <2>2, LogKept DEF history
<1>12. ASSUME NEW t \in Threads, WriteFails(t) PROVE FALSE
  BY <1>12 DEF WriteFails, MayRaise
<1>13. ASSUME NEW t \in Threads, ReportTrip(t) PROVE LogInv'
  <2>1. pc'[t] = "idle" /\ Alone(t) /\ UNCHANGED history /\ UNCHANGED audit
    BY <1>a, <1>13, Continues DEF ReportTrip
  <2> QED BY <2>1, LogApart DEF Alone, Active, Inside, history
<1>14. ASSUME NEW t \in Threads, NEW a \in Agents, NEW delta \in Reports,
              ReportUsage(t, a, delta)
       PROVE LogInv'
  <2>1. /\ pc[t] = "idle" /\ started' = started + 1 /\ UNCHANGED <<runs, ended, audit>>
        /\ \/ Continue(t, "report_trip", [inv |-> 0, req |-> [agent |-> a]])
           \/ UNCHANGED thread
    BY <1>14 DEF ReportUsage
  <2>2. CASE UNCHANGED thread
    BY <2>1, <2>2, LogApart DEF thread, Active
  <2>3. CASE Continue(t, "report_trip", [inv |-> 0, req |-> [agent |-> a]])
    <3>1. pc'[t] = "report_trip" /\ Alone(t)
      BY <1>a, <2>3, Continues
    <3> QED BY <2>1, <3>1, LogApart DEF Alone, Active, Inside
  <2> QED BY <2>1, <2>2, <2>3
<1>15. ASSUME \/ \E id \in TokenIds : Review(id)
              \/ \E a \in Agents : ResetBreaker(a)
              \/ \E k \in LedgerKeys : ResetBudget(k)
              \/ Tick \/ UNCHANGED vars
       PROVE LogInv'
  BY <1>15, LogApart
     DEF Review, ResetBreaker, ResetBudget, Tick, vars, history, thread, Active
<1> QED
  BY <1>1, <1>2, <1>3, <1>4, <1>5, <1>6, <1>7, <1>8, <1>9, <1>10, <1>11, <1>12, <1>13,
     <1>14, <1>15, LogDispatched, LogWritten, LogInvoked
     DEF Next, Step

(* When the sink does not raise, no call leaves two events, none that ran  *)
(* its tool leaves without one, and no event tells of a run that was not   *)
(* or hides one that was.                                                  *)
THEOREM AuditIsExact ==
  ASSUME "sink" \notin Faults
  PROVE  Spec => []AuditExact
<1>1. Init => LogInv
  BY DEF Init, LogInv, Numbered, Told, Truthful, Active, Inside, Reporting, Ran, Logged
<1>2. Init => LogTypes
  BY DEF Init, LogTypes, Ending
<1>3. Spec => []LogTypes
  <2>1. Init => BL!TypeOK
    BY DEF Init, AS!Init, BL!TypeOK, BL!NoSpend, BL!Spend
  <2> QED BY <1>2, <2>1, RecordStep, ControlAlways, PTL DEF Spec
<1>4. Spec => []LogInv
  <2>1. Control /\ LogTypes /\ LogInv /\ [Next]_vars => LogInv'
    BY LogStep
  <2> QED BY <1>1, <1>3, <2>1, ControlAlways, PTL DEF Spec
<1>5. LogInv => AuditExact
  <2> SUFFICES ASSUME LogInv PROVE AuditExact
    OBVIOUS
  <2>1. ASSUME NEW n PROVE /\ Ran(n) => Cardinality(RunsOf(n)) = 1
                           /\ ~Ran(n) => RunsOf(n) = {}
    <3>1. CASE Ran(n)
      <4>1. PICK i \in DOMAIN runs : runs[i].inv = n
        BY <3>1 DEF Ran
      <4>2. RunsOf(n) = {i}
        BY <4>1 DEF RunsOf, LogInv, Numbered
      <4> QED BY <3>1, <4>2, FS_Singleton
    <3>2. CASE ~Ran(n)
      BY <3>2 DEF Ran, RunsOf
    <3> QED BY <3>1, <3>2
  <2>2. ASSUME NEW n PROVE /\ Cardinality(EventsOf(n)) <= 1
                           /\ Logged(n) => EventsOf(n) # {}
    <3>1. CASE Logged(n)
      <4>1. PICK i \in DOMAIN audit : audit[i].inv = n
        BY <3>1 DEF Logged
      <4>2. EventsOf(n) = {i}
        BY <4>1 DEF EventsOf, LogInv, Numbered
      <4>3. Cardinality({i}) = 1
        BY FS_Singleton
      <4> QED BY <4>2, <4>3
    <3>2. CASE ~Logged(n)
      <4>1. EventsOf(n) = {}
        BY <3>2 DEF Logged, EventsOf
      <4> QED BY <3>2, <4>1, FS_EmptySet
    <3> QED BY <3>1, <3>2
  <2>3. AuditTruthful
    BY <2>1 DEF LogInv, Truthful, AuditTruthful, AfterRun, Returned
  <2>4. AuditComplete
    BY <2>1, <2>2 DEF LogInv, Truthful, AuditComplete
  <2> QED BY <2>3, <2>4 DEF AuditExact
<1> QED BY <1>4, <1>5, PTL

(* ...and every run was cleared by whom the call needed, and is told.      *)
THEOREM RunsAreAccounted ==
  ASSUME "sink" \notin Faults
  PROVE  Spec => []RunsAccounted
<1>1. AuditExact /\ RunAuthorized => RunsAccounted
  BY DEF AuditExact, RunsAccounted
<1> QED BY <1>1, AuditIsExact, RunsAuthorised, PTL
-----------------------------------------------------------------------------
(* The budget, cumulative.  A call is in flight from the moment the budget *)
(* gate admits it until it is charged or given up.                         *)
Charging == {"policy", "approval", "arguments", "dispatch", "running"}
InFlight(k) == {t \in Threads : pc[t] \in Charging /\ Key(t) = k}
Calls(k) == totals[k]["calls"]

(* What is charged and what is in flight together stay below the ceiling   *)
(* and the calls the other threads may have slipped past it.  A ceiling of *)
(* nothing lets no call in, which is what a reset in mid-flight rests on.  *)
SpendInv ==
  \A k \in LedgerKeys :
    /\ ~Has("budget") => Calls(k) = 0
    /\ Has("budget") /\ Caps["calls"] # NoCap =>
         /\ Calls(k) + Cardinality(InFlight(k)) <= Caps["calls"] + Cardinality(Threads) - 1
         /\ InFlight(k) # {} => Caps["calls"] >= 1

(* A step that charges no call and admits none.                            *)
LEMMA SpendKept ==
  ASSUME IsFiniteSet(Threads), SpendInv, BL!TypeOK,
         \A k \in LedgerKeys : Calls(k)' = Calls(k) /\ InFlight(k)' \subseteq InFlight(k)
  PROVE  SpendInv'
<1> SUFFICES ASSUME NEW k \in LedgerKeys, Has("budget"), Caps["calls"] # NoCap
             PROVE  /\ Calls(k)' + Cardinality(InFlight(k)')
                         <= Caps["calls"] + Cardinality(Threads) - 1
                    /\ InFlight(k)' # {} => Caps["calls"] >= 1
  BY DEF SpendInv
<1>1. Calls(k)' = Calls(k) /\ InFlight(k)' \subseteq InFlight(k)
  OBVIOUS
<1>2. Cardinality(InFlight(k)') <= Cardinality(InFlight(k))
      /\ Cardinality(InFlight(k)') \in Nat /\ Cardinality(InFlight(k)) \in Nat
  <2>1. IsFiniteSet(InFlight(k))
    BY FS_Subset DEF InFlight
  <2> QED BY <1>1, <2>1, FS_Subset, FS_CardinalityType
<1>3. Calls(k) \in Nat /\ Caps["calls"] \in Nat /\ Cardinality(Threads) \in Nat
  BY LedgerAssumption, FS_CardinalityType
     DEF BL!BudgetAssumption, BL!TypeOK, BL!Spend, BL!Dims, Calls
<1> QED BY <1>1, <1>2, <1>3 DEF SpendInv

(* A step of one thread, as long as it neither admits a call nor charges.  *)
LEMMA SpendMoved ==
  ASSUME IsFiniteSet(Threads), SpendInv, BL!TypeOK, NEW t \in Threads, Alone(t),
         totals' = totals,
         pc'[t] \in Charging => pc[t] \in Charging /\ call'[t].req = call[t].req
  PROVE  SpendInv'
<1>1. \A k \in LedgerKeys : Calls(k)' = Calls(k) /\ InFlight(k)' \subseteq InFlight(k)
  BY DEF Calls, InFlight, Key, Agent, Alone
<1> QED BY <1>1, SpendKept

(* The gate admits a call: with it the ceiling is not passed, and no other *)
(* thread has more than one in flight.                                     *)
LEMMA SpendAdmitted ==
  ASSUME IsFiniteSet(Threads), Window = NoWindow, SpendInv, BL!TypeOK, ThreadTypes,
         NEW t \in Threads, pc[t] \in Inside, Alone(t), BL!Check(Key(t), TRUE),
         call'[t] = call[t]
  PROVE  SpendInv'
<1>1. Key(t) \in LedgerKeys
  BY InsideCall
<1> SUFFICES ASSUME NEW k \in LedgerKeys, Has("budget"), Caps["calls"] # NoCap
             PROVE  /\ Calls(k)' + Cardinality(InFlight(k)')
                         <= Caps["calls"] + Cardinality(Threads) - 1
                    /\ InFlight(k)' # {} => Caps["calls"] >= 1
  BY DEF SpendInv, BL!Check, BL!Read, Calls
<1>2. Calls(k)' = Calls(k)
  BY DEF Calls, BL!Check, BL!Read
<1>3. /\ Calls(k) \in Nat /\ Caps["calls"] \in Nat /\ Cardinality(Threads) \in Nat
      /\ IsFiniteSet(InFlight(k)) /\ IsFiniteSet(InFlight(k)')
      /\ Cardinality(InFlight(k)) \in Nat /\ Cardinality(InFlight(k)') \in Nat
  <2>1. IsFiniteSet(InFlight(k)) /\ IsFiniteSet(InFlight(k)')
    BY FS_Subset DEF InFlight
  <2> QED BY <2>1, LedgerAssumption, FS_CardinalityType
             DEF BL!BudgetAssumption, BL!TypeOK, BL!Spend, BL!Dims, Calls
<1>4. CASE k = Key(t)
  <2>1. ~BL!Violates(BL!Add(totals[k], BL!OneCall))
    BY <1>4 DEF BL!Check, BL!Admits, BL!Current
  <2>2. Calls(k) + 1 <= Caps["calls"]
    BY <1>3, <2>1 DEF BL!Violates, BL!Add, BL!OneCall, BL!Dims, Calls
  <2>3. Cardinality(InFlight(k)') <= Cardinality(Threads)
    <3>1. InFlight(k)' \subseteq Threads
      BY DEF InFlight
    <3> QED BY <3>1, FS_Subset
  <2> QED BY <1>2, <1>3, <2>2, <2>3
<1>5. CASE k # Key(t)
  <2>1. InFlight(k)' \subseteq InFlight(k)
    BY <1>5 DEF InFlight, Alone, Key, Agent
  <2>2. Cardinality(InFlight(k)') <= Cardinality(InFlight(k))
    BY <1>3, <2>1, FS_Subset
  <2> QED BY <1>2, <1>3, <2>1, <2>2 DEF SpendInv
<1> QED BY <1>4, <1>5

(* A call that ran is charged and no longer in flight.                     *)
LEMMA SpendCharged ==
  ASSUME IsFiniteSet(Threads), Window = NoWindow, SpendInv, BL!TypeOK, ThreadTypes,
         Has("budget"), NEW t \in Threads, pc[t] = "running", Alone(t),
         NEW ok, BL!Charge(Key(t), BL!OneCall, ok), pc'[t] \notin Charging
  PROVE  SpendInv'
<1>1. Key(t) \in LedgerKeys
  BY InsideCall DEF Inside, Labels
<1> SUFFICES ASSUME NEW k \in LedgerKeys, Caps["calls"] # NoCap
             PROVE  /\ Calls(k)' + Cardinality(InFlight(k)')
                         <= Caps["calls"] + Cardinality(Threads) - 1
                    /\ InFlight(k)' # {} => Caps["calls"] >= 1
  BY DEF SpendInv
<1>2. totals' = [totals EXCEPT ![Key(t)] = BL!Add(totals[Key(t)], BL!OneCall)]
  BY DEF BL!Charge
<1>3. /\ Calls(k) \in Nat /\ Caps["calls"] \in Nat /\ Cardinality(Threads) \in Nat
      /\ IsFiniteSet(InFlight(k)) /\ Cardinality(InFlight(k)) \in Nat
  <2>1. IsFiniteSet(InFlight(k))
    BY FS_Subset DEF InFlight
  <2> QED BY <2>1, LedgerAssumption, FS_CardinalityType
             DEF BL!BudgetAssumption, BL!TypeOK, BL!Spend, BL!Dims, Calls
<1>4. CASE k = Key(t)
  <2>1. Calls(k)' = Calls(k) + 1
    BY <1>1, <1>2, <1>4 DEF Calls, BL!TypeOK, BL!Add, BL!OneCall, BL!Dims
  <2>2. t \in InFlight(k) /\ InFlight(k)' \subseteq InFlight(k) \ {t}
    BY <1>4 DEF InFlight, Alone, Charging, Key, Agent
  <2>3. /\ IsFiniteSet(InFlight(k) \ {t})
        /\ Cardinality(InFlight(k) \ {t}) = Cardinality(InFlight(k)) - 1
    BY <1>3, <2>2, FS_RemoveElement
  <2>4. /\ Cardinality(InFlight(k)') <= Cardinality(InFlight(k)) - 1
        /\ Cardinality(InFlight(k)') \in Nat
    BY <2>2, <2>3, FS_Subset, FS_CardinalityType
  <2> QED BY <1>3, <2>1, <2>2, <2>4 DEF SpendInv
<1>5. CASE k # Key(t)
  <2>1. Calls(k)' = Calls(k)
    BY <1>2, <1>5 DEF Calls, BL!TypeOK
  <2>2. InFlight(k)' \subseteq InFlight(k)
    BY DEF InFlight, Alone, Key, Agent
  <2>3. /\ Cardinality(InFlight(k)') <= Cardinality(InFlight(k))
        /\ Cardinality(InFlight(k)') \in Nat
    BY <1>3, <2>2, FS_Subset, FS_CardinalityType
  <2> QED BY <1>3, <2>1, <2>2, <2>3 DEF SpendInv
<1> QED BY <1>4, <1>5

(* An operator resets a key while calls of it are in flight.               *)
LEMMA SpendReset ==
  ASSUME IsFiniteSet(Threads), Threads # {}, SpendInv, BL!TypeOK,
         NEW r \in LedgerKeys, BL!Reset(r), UNCHANGED <<pc, call>>
  PROVE  SpendInv'
<1>1. ASSUME NEW k \in LedgerKeys
      PROVE  /\ InFlight(k)' = InFlight(k)
             /\ Calls(k)' = IF k = r THEN 0 ELSE Calls(k)
  BY <1>1 DEF InFlight, Key, Agent, Calls, BL!Reset, BL!TypeOK, BL!NoSpend, BL!Dims
<1>2. ASSUME NEW k \in LedgerKeys, Caps["calls"] # NoCap
      PROVE  /\ Calls(k) \in Nat /\ Caps["calls"] \in Nat /\ Cardinality(Threads) \in Nat \ {0}
             /\ Cardinality(InFlight(k)) \in Nat
             /\ Cardinality(InFlight(k)) <= Cardinality(Threads)
             /\ InFlight(k) = {} => Cardinality(InFlight(k)) = 0
  <2>1. InFlight(k) \subseteq Threads
    BY DEF InFlight
  <2>2. Cardinality(Threads) # 0
    BY FS_EmptySet
  <2> QED BY <1>2, <2>1, <2>2, LedgerAssumption, FS_CardinalityType, FS_Subset, FS_EmptySet
             DEF BL!BudgetAssumption, BL!TypeOK, BL!Spend, BL!Dims, Calls
<1> QED BY <1>1, <1>2 DEF SpendInv

(* Every step keeps what is charged and in flight within the ceiling.      *)
LEMMA SpendStep ==
  ASSUME IsFiniteSet(Threads), Threads # {}, Window = NoWindow,
         Control, BL!TypeOK, SpendInv, [Next]_vars
  PROVE  SpendInv'
<1> USE DEF At
<1>a. ThreadTypes
  BY DEF Control
<1>b. ASSUME NEW t \in Threads, UNCHANGED totals,
             (\E c, next : Emit(t, c, next)) \/ (\E e : Refuse(t, e)) \/ (\E how : Leave(t, how))
      PROVE  SpendInv'
  <2>1. pc'[t] \in {"observe", "write", "idle"} /\ Alone(t)
    BY <1>a, <1>b, Emits, Leaves DEF Refuse
  <2> QED BY <1>b, <2>1, SpendMoved DEF Charging
<1>c. ASSUME NEW t \in Threads, UNCHANGED totals, NEW label, NEW c, Continue(t, label, c),
             label \in Charging => pc[t] \in Charging /\ c.req = call[t].req
      PROVE  SpendInv'
  <2>1. pc'[t] = label /\ call'[t] = c /\ Alone(t)
    BY <1>a, <1>c, Continues
  <2> QED BY <1>c, <2>1, SpendMoved
<1>1. ASSUME NEW t \in Threads, KillSwitch(t) PROVE SpendInv'
  <2>1. UNCHANGED totals /\ ((\E e : Refuse(t, e)) \/ \E c : Continue(t, "budget", c))
    BY <1>1 DEF KillSwitch, ledger
  <2> QED BY <1>b, <1>c, <2>1 DEF Charging
<1>2. ASSUME NEW t \in Threads, BudgetGate(t) PROVE SpendInv'
  <2>1. CASE Has("budget")
    <3>1. PICK ok \in BOOLEAN :
            /\ BL!Check(Key(t), ok)
            /\ IF ok THEN Continue(t, "policy", call[t])
               ELSE \E c, next : Emit(t, c, next)
      BY <1>2, <2>1 DEF BudgetGate
    <3>2. UNCHANGED totals /\ pc[t] \in Inside
      BY <1>2, <3>1 DEF BL!Check, BL!Read, BudgetGate, Inside, Labels
    <3>3. CASE ok
      <4>1. Alone(t) /\ call'[t] = call[t]
        BY <1>a, <3>1, <3>3, Continues
      <4>2. BL!Check(Key(t), TRUE)
        BY <3>1, <3>3
      <4> QED BY <1>a, <3>2, <4>1, <4>2, SpendAdmitted
    <3>4. CASE ~ok
      BY <1>b, <3>1, <3>2, <3>4
    <3> QED BY <3>3, <3>4
  <2>2. CASE ~Has("budget")
    BY <1>2, <2>2 DEF BudgetGate, ledger, SpendInv, Calls
  <2> QED BY <2>1, <2>2
<1>3. ASSUME NEW t \in Threads,
             BudgetTrip(t) \/ PolicyGates(t) \/ AskHandler(t) \/ Write(t) \/ WriteFails(t)
      PROVE  SpendInv'
  <2>1. /\ UNCHANGED totals
        /\ \/ (\E e : Refuse(t, e)) \/ (\E how : Leave(t, how))
           \/ pc' = [pc EXCEPT ![t] = "budget_trip"] /\ UNCHANGED <<call, then, found>>
           \/ /\ pc[t] \in {"policy", "approval"}
              /\ \E label \in Charging : \E c : c.req = call[t].req /\ Continue(t, label, c)
    <3>1. CASE PolicyGates(t)
      <4>1. /\ pc[t] = "policy" /\ UNCHANGED totals
            /\ \/ (\E e : Refuse(t, e)) \/ (\E how : Leave(t, how))
               \/ Continue(t, "approval", [call[t] EXCEPT !.decision = "require_approval"])
               \/ Continue(t, "arguments", call[t])
        BY <3>1 DEF PolicyGates, ledger
      <4>2. [call[t] EXCEPT !.decision = "require_approval"].req = call[t].req
        BY <1>a, <4>1, InsideCall DEF Inside, Labels, Invocation
      <4> QED BY <4>1, <4>2 DEF Charging
    <3>2. CASE AskHandler(t)
      <4>1. /\ pc[t] = "approval" /\ UNCHANGED totals
            /\ \/ (\E e : Refuse(t, e)) \/ (\E how : Leave(t, how))
               \/ Continue(t, "arguments",
                           [call[t] EXCEPT !.decision = "allow", !.by = "handler"])
        BY <3>2 DEF AskHandler, ledger
      <4>2. [call[t] EXCEPT !.decision = "allow", !.by = "handler"].req = call[t].req
        BY <1>a, <4>1, InsideCall DEF Inside, Labels, Invocation
      <4> QED BY <4>1, <4>2 DEF Charging
    <3>3. CASE BudgetTrip(t) \/ Write(t) \/ WriteFails(t)
      BY <3>3 DEF BudgetTrip, Write, WriteFails, ledger
    <3> QED BY <1>3, <3>1, <3>2, <3>3
  <2>2. CASE pc' = [pc EXCEPT ![t] = "budget_trip"] /\ UNCHANGED <<call, then, found>>
    <3>1. pc'[t] \notin Charging /\ Alone(t)
      BY <1>a, <2>2 DEF ThreadTypes, Alone, Charging
    <3> QED BY <2>1, <3>1, SpendMoved
  <2> QED BY <1>b, <1>c, <2>1, <2>2 DEF Charging
<1>4. ASSUME NEW t \in Threads, ReplayApproval(t) \/ EnforceArguments(t) \/ Dispatch(t)
      PROVE  SpendInv'
  <2> DEFINE a == [call[t] EXCEPT !.decision = "allow", !.by = call[t].req.token]
             b == [call[t] EXCEPT !.ran = TRUE]
  <2>1. /\ pc[t] \in {"approval", "arguments", "dispatch"} /\ UNCHANGED totals
        /\ \/ (\E e : Refuse(t, e)) \/ (\E c, next : Emit(t, c, next))
           \/ Continue(t, "arguments", a)
           \/ Continue(t, "dispatch", call[t])
           \/ Continue(t, "running", b)
    BY <1>4 DEF ReplayApproval, EnforceArguments, Dispatch, ledger
  <2>2. a.req = call[t].req /\ b.req = call[t].req
    BY <1>a, <2>1, InsideCall DEF Inside, Labels, Invocation
  <2> HIDE DEF a, b
  <2> QED BY <1>b, <1>c, <2>1, <2>2 DEF Charging
<1>5. ASSUME NEW t \in Threads, Pause(t) \/ ToolRaises(t) PROVE SpendInv'
  BY <1>b, <1>5 DEF Pause, ToolRaises, ledger
<1>6. ASSUME NEW t \in Threads, ToolReturns(t) PROVE SpendInv'
  <2>1. (\E c, next : Emit(t, c, next)) \/ (\E e : Refuse(t, e))
    BY <1>6 DEF ToolReturns
  <2>2. CASE Has("budget")
    <3>1. PICK ok : BL!Charge(Key(t), BL!OneCall, ok)
      BY <1>6, <2>2 DEF ToolReturns
    <3>2. pc[t] = "running" /\ Alone(t) /\ pc'[t] \in {"observe", "write"}
      BY <1>a, <1>6, <2>1, Emits DEF ToolReturns, Refuse
    <3> QED BY <1>a, <2>2, <3>1, <3>2, SpendCharged DEF Charging
  <2>3. CASE ~Has("budget")
    BY <1>6, <1>b, <2>1, <2>3 DEF ToolReturns, ledger
  <2> QED BY <2>2, <2>3
<1>7. ASSUME NEW t \in Threads, Observe(t) \/ MonitorTrip(t) PROVE SpendInv'
  <2>1. pc'[t] \in {"trip", "write"} /\ Alone(t) /\ UNCHANGED totals
    BY <1>a, <1>7 DEF Observe, MonitorTrip, ThreadTypes, Alone, ledger
  <2> QED BY <2>1, SpendMoved DEF Charging
<1>8. ASSUME NEW t \in Threads, ReportTrip(t) PROVE SpendInv'
  BY <1>8, <1>c DEF ReportTrip, ledger, Charging
<1>9. ASSUME NEW t \in Threads, NEW r \in Requests, Invoke(t, r) PROVE SpendInv'
  <2>1. UNCHANGED totals /\ (Continue(t, "breaker", NewCall(r)) \/ UNCHANGED thread)
    BY <1>9 DEF Invoke, ledger
  <2>2. CASE UNCHANGED thread
    BY <2>1, <2>2, SpendKept DEF thread, Calls, InFlight, Key, Agent
  <2> QED BY <1>c, <2>1, <2>2 DEF Charging
<1>10. ASSUME NEW t \in Threads, NEW a \in Agents, NEW delta \in Reports,
              ReportUsage(t, a, delta)
       PROVE SpendInv'
  <2>1. delta \in BL!Spend /\ delta["calls"] = 0 /\ BudgetKey[a] \in LedgerKeys
    BY LedgerAssumption DEF BL!BudgetAssumption, LedgerKeys
  <2>2. totals' = [totals EXCEPT ![BudgetKey[a]] = BL!Add(totals[BudgetKey[a]], delta)]
    BY <1>10 DEF ReportUsage, BL!Charge
  <2>3. \A k \in LedgerKeys : Calls(k)' = Calls(k)
    BY <2>1, <2>2 DEF Calls, BL!TypeOK, BL!Add, BL!Spend, BL!Dims
  <2>4. /\ pc[t] = "idle"
        /\ \/ Continue(t, "report_trip", [inv |-> 0, req |-> [agent |-> a]])
           \/ UNCHANGED thread
    BY <1>10 DEF ReportUsage
  <2>5. \A k \in LedgerKeys : InFlight(k)' \subseteq InFlight(k)
    <3>1. CASE UNCHANGED thread
      BY <3>1 DEF thread, InFlight, Key, Agent
    <3>2. CASE Continue(t, "report_trip", [inv |-> 0, req |-> [agent |-> a]])
      <4>1. pc'[t] = "report_trip" /\ Alone(t)
        BY <1>a, <3>2, Continues
      <4> QED BY <4>1 DEF InFlight, Alone, Charging, Key, Agent
    <3> QED BY <2>4, <3>1, <3>2
  <2> QED BY <2>3, <2>5, SpendKept
<1>11. ASSUME NEW k \in LedgerKeys, ResetBudget(k) PROVE SpendInv'
  BY <1>11, SpendReset DEF ResetBudget, thread
<1>12. ASSUME \/ \E id \in TokenIds : Review(id)
              \/ \E a \in Agents : ResetBreaker(a)
              \/ Tick \/ UNCHANGED vars
       PROVE SpendInv'
  <2>1. UNCHANGED totals /\ UNCHANGED thread
    BY <1>12 DEF Review, ResetBreaker, Tick, vars, ledger
  <2> QED BY <2>1, SpendKept DEF thread, Calls, InFlight, Key, Agent
<1> QED
  BY <1>1, <1>2, <1>3, <1>4, <1>5, <1>6, <1>7, <1>8, <1>9, <1>10, <1>11, <1>12
     DEF Next, Step

(* With a cumulative budget, and whatever the threads, resets and reports, *)
(* a key is never charged more calls than its ceiling and one per other    *)
(* thread.                                                                 *)
THEOREM OverrunIsBounded ==
  ASSUME IsFiniteSet(Threads), Threads # {}, Window = NoWindow
  PROVE  Spec => []OverrunBound
<1>1. Init => SpendInv
  <2> SUFFICES ASSUME Init, NEW k \in LedgerKeys
               PROVE  /\ Calls(k) = 0 /\ InFlight(k) = {} /\ Cardinality(Threads) \in Nat \ {0}
                      /\ Cardinality(InFlight(k)) = 0
                      /\ Caps["calls"] # NoCap => Caps["calls"] \in Nat
    BY DEF SpendInv
  <2>1. Calls(k) = 0 /\ InFlight(k) = {}
    BY DEF Init, Calls, BL!NoSpend, BL!Dims, InFlight, Charging
  <2>2. Cardinality(Threads) \in Nat \ {0}
    BY FS_CardinalityType, FS_EmptySet
  <2> QED BY <2>1, <2>2, FS_EmptySet, LedgerAssumption DEF BL!BudgetAssumption, BL!Dims
<1>2. Spec => []BL!TypeOK
  BY TypeCorrect, PTL DEF TypeOK
<1>3. Spec => []SpendInv
  <2>1. Control /\ BL!TypeOK /\ SpendInv /\ [Next]_vars => SpendInv'
    BY SpendStep
  <2> QED BY <1>1, <1>2, <2>1, ControlAlways, PTL DEF Spec
<1>4. BL!TypeOK /\ SpendInv => OverrunBound
  <2> SUFFICES ASSUME BL!TypeOK, SpendInv, NEW k \in LedgerKeys, Caps["calls"] # NoCap
               PROVE  totals[k]["calls"] <= Caps["calls"] + Cardinality(Threads) - 1
    BY DEF OverrunBound, BL!Current
  <2>1. InFlight(k) \subseteq Threads /\ Cardinality(InFlight(k)) \in Nat
    <3>1. InFlight(k) \subseteq Threads
      BY DEF InFlight
    <3> QED BY <3>1, FS_Subset, FS_CardinalityType
  <2>2. Cardinality(Threads) \in Nat \ {0} /\ Caps["calls"] \in Nat /\ Calls(k) \in Nat
    BY FS_CardinalityType, FS_EmptySet, LedgerAssumption
       DEF BL!BudgetAssumption, BL!Dims, BL!TypeOK, BL!Spend, Calls
  <2> QED BY <2>1, <2>2 DEF SpendInv, Calls
<1> QED BY <1>2, <1>3, <1>4, PTL
-----------------------------------------------------------------------------
(* The runtime's ledger is a budget ledger: what is proved of what windows *)
(* hold is cited for the runtime's.                                        *)
LEMMA SameLedger ==
  /\ BL!TypeOK <=> BLP!TypeOK
  /\ \A k \in LedgerKeys, ok \in BOOLEAN : BL!Check(k, ok) <=> BLP!Check(k, ok)
  /\ \A k \in LedgerKeys, delta \in BL!Spend, ok \in BOOLEAN :
       BL!Charge(k, delta, ok) <=> BLP!Charge(k, delta, ok)
  /\ \A k \in LedgerKeys : BL!Reset(k) <=> BLP!Reset(k)
  /\ BL!SpendExact <=> BLP!SpendExact
  /\ BL!Spend = BLP!Spend /\ BL!OneCall = BLP!OneCall /\ BL!NoSpend = BLP!NoSpend
<1>1. /\ BL!Spend = BLP!Spend /\ BL!OneCall = BLP!OneCall /\ BL!NoSpend = BLP!NoSpend
      /\ BL!Dims = BLP!Dims
  BY DEF BL!Spend, BLP!Spend, BL!OneCall, BLP!OneCall, BL!NoSpend, BLP!NoSpend,
         BL!Dims, BLP!Dims
<1>2. BL!TypeOK <=> BLP!TypeOK
  BY <1>1 DEF BL!TypeOK, BLP!TypeOK, BL!Entry, BLP!Entry
<1>3. \A a, b : BL!Add(a, b) = BLP!Add(a, b)
  BY <1>1 DEF BL!Add, BLP!Add
<1>4. \A s : BL!Pruned(s) = BLP!Pruned(s)
  BY DEF BL!Pruned, BLP!Pruned
<1>5. \A s : BL!Total(s) = BLP!Total(s)
  BY <1>1, <1>3 DEF BL!Total, BLP!Total
<1>6. \A s : BL!Violates(s) <=> BLP!Violates(s)
  BY <1>1 DEF BL!Violates, BLP!Violates
<1>7. \A k : BL!Current(k) = BLP!Current(k)
  BY <1>4, <1>5 DEF BL!Current, BLP!Current
<1>8. \A s : BL!Counted(s) = BLP!Counted(s)
  BY <1>1 DEF BL!Counted, BLP!Counted, BL!Counts, BLP!Counts
<1>9. BL!SpendExact <=> BLP!SpendExact
  BY <1>5, <1>7, <1>8 DEF BL!SpendExact, BLP!SpendExact
<1>10. \A k \in LedgerKeys, ok \in BOOLEAN : BL!Check(k, ok) <=> BLP!Check(k, ok)
  BY <1>1, <1>3, <1>4, <1>6, <1>7
     DEF BL!Check, BLP!Check, BL!Admits, BLP!Admits, BL!Read, BLP!Read
<1>11. \A k \in LedgerKeys, delta \in BL!Spend, ok \in BOOLEAN :
         BL!Charge(k, delta, ok) <=> BLP!Charge(k, delta, ok)
  BY <1>3, <1>4, <1>5, <1>6 DEF BL!Charge, BLP!Charge
<1>12. \A k \in LedgerKeys : BL!Reset(k) <=> BLP!Reset(k)
  BY <1>1 DEF BL!Reset, BLP!Reset
<1> QED BY <1>1, <1>2, <1>9, <1>10, <1>11, <1>12

(* The ledger's assumption, as far as its proofs need it. *)
LEMMA LedgerConstants == BLP!BudgetAssumption
  BY LedgerAssumption
     DEF BL!BudgetAssumption, BLP!BudgetAssumption, BL!Spend, BLP!Spend, BL!Dims, BLP!Dims

(* What every step of the runtime does to the ledger. *)
LedgerMove ==
  \/ \E k \in LedgerKeys, ok \in BOOLEAN : BL!Check(k, ok)
  \/ \E k \in LedgerKeys, delta \in BL!Spend, ok \in BOOLEAN : BL!Charge(k, delta, ok)
  \/ \E k \in LedgerKeys : BL!Reset(k)
  \/ now' \in Int /\ now <= now' /\ UNCHANGED ledger

(* A step of the runtime checks, charges or resets one key, or leaves the  *)
(* ledger to the clock.                                                    *)
LEMMA LedgerMoves == Control /\ [Next]_vars => LedgerMove
<1> SUFFICES ASSUME Control, [Next]_vars PROVE LedgerMove
  OBVIOUS
<1> USE DEF At
<1>a. ThreadTypes /\ now \in Nat /\ now' \in Nat
  BY ControlStep DEF Control
<1>b. now' = now /\ UNCHANGED ledger => LedgerMove
  BY <1>a DEF LedgerMove
<1>1. ASSUME NEW t \in Threads,
             \/ KillSwitch(t) \/ ReplayApproval(t) \/ Pause(t) \/ MonitorTrip(t)
             \/ ReportTrip(t) \/ BudgetTrip(t)
      PROVE LedgerMove
  <2>1. now <= now' /\ UNCHANGED ledger
    BY <1>1, <1>a
       DEF KillSwitch, ReplayApproval, Pause, MonitorTrip, ReportTrip, BudgetTrip, TripBreaker,
           CB!Trip, CB!IsOpen, AS!Issue, AS!Consume, AS!Refuse, store
  <2> QED BY <2>1, <1>a DEF LedgerMove
<1>2. ASSUME NEW t \in Threads, BudgetGate(t) \/ ToolReturns(t)
      PROVE LedgerMove
  <2>1. Key(t) \in LedgerKeys
    BY <1>a, <1>2, InsideCall DEF BudgetGate, ToolReturns, Inside, Labels
  <2>2. BL!OneCall \in BL!Spend
    BY DEF BL!OneCall, BL!Spend
  <2>3. \/ now' = now /\ UNCHANGED ledger
        \/ \E ok \in BOOLEAN : BL!Check(Key(t), ok) \/ BL!Charge(Key(t), BL!OneCall, ok)
    BY <1>2 DEF BudgetGate, ToolReturns
  <2> QED BY <1>b, <2>1, <2>2, <2>3 DEF LedgerMove
<1>3. ASSUME NEW t \in Threads,
             \/ PolicyGates(t) \/ AskHandler(t) \/ EnforceArguments(t) \/ Dispatch(t)
             \/ ToolRaises(t) \/ Observe(t) \/ Write(t) \/ WriteFails(t)
      PROVE LedgerMove
  <2>1. now' = now /\ UNCHANGED ledger
    BY <1>3 DEF PolicyGates, AskHandler, EnforceArguments, Dispatch, ToolRaises, Observe,
                Write, WriteFails
  <2> QED BY <2>1, <1>b
<1>4. ASSUME NEW t \in Threads, NEW r \in Requests, Invoke(t, r) PROVE LedgerMove
  BY <1>4, <1>b DEF Invoke
<1>5. ASSUME NEW t \in Threads, NEW a \in Agents, NEW delta \in Reports,
             ReportUsage(t, a, delta)
      PROVE LedgerMove
  <2>1. delta \in BL!Spend /\ BudgetKey[a] \in LedgerKeys
    BY LedgerAssumption DEF BL!BudgetAssumption, LedgerKeys
  <2> QED BY <1>5, <2>1 DEF ReportUsage, LedgerMove
<1>6. ASSUME NEW id \in TokenIds, Review(id) PROVE LedgerMove
  BY <1>6, <1>b, <1>a DEF Review, LedgerMove, AS!Approve, AS!Reject, AS!Transition
<1>7. ASSUME NEW a \in Agents, ResetBreaker(a) PROVE LedgerMove
  BY <1>7, <1>b DEF ResetBreaker, CB!Reset
<1>8. ASSUME NEW k \in LedgerKeys, ResetBudget(k) PROVE LedgerMove
  BY <1>8 DEF ResetBudget, LedgerMove
<1>9. CASE Tick
  BY <1>9, <1>a DEF Tick, LedgerMove
<1>10. CASE UNCHANGED vars
  BY <1>10, <1>b DEF vars
<1> QED
  BY <1>1, <1>2, <1>3, <1>4, <1>5, <1>6, <1>7, <1>8, <1>9, <1>10 DEF Next, Step

(* Each of those keeps the ledger exact.                                   *)
LEMMA MoveExact == BLP!IInv /\ LedgerMove => BLP!IInv'
<1> SUFFICES ASSUME BLP!IInv, LedgerMove PROVE BLP!IInv'
  OBVIOUS
<1> USE DEF BLP!IInv
<1>1. Window = NoWindow \/ Window \in Nat
  BY LedgerConstants DEF BLP!BudgetAssumption
<1>2. ASSUME NEW k \in LedgerKeys, NEW ok \in BOOLEAN, BL!Check(k, ok) PROVE BLP!IInv'
  <2>1. BLP!Check(k, ok)
    BY <1>2, SameLedger
  <2> QED BY <1>1, <2>1, BLP!CheckKeeps
<1>3. ASSUME NEW k \in LedgerKeys, NEW delta \in BL!Spend, NEW ok \in BOOLEAN,
             BL!Charge(k, delta, ok)
      PROVE  BLP!IInv'
  <2>1. BLP!Charge(k, delta, ok) /\ delta \in BLP!Spend
    BY <1>3, SameLedger
  <2> QED BY <1>1, <2>1, BLP!ChargeKeeps
<1>4. ASSUME NEW k \in LedgerKeys, BL!Reset(k) PROVE BLP!IInv'
  <2>1. BLP!Reset(k)
    BY <1>4, SameLedger
  <2> QED BY <2>1, BLP!ResetKeeps
<1>5. ASSUME now' \in Int, now <= now', UNCHANGED ledger PROVE BLP!IInv'
  BY <1>1, <1>5, BLP!ClockKeeps DEF ledger
<1> QED BY <1>2, <1>3, <1>4, <1>5 DEF LedgerMove

(* Cumulative or over a window, what the runtime's threads charge from     *)
(* wherever they are adds up: the gate reads the sum of the charges made   *)
(* since the last reset that still count, refused ones included.           *)
THEOREM LedgerIsExact == Spec => []LedgerExact
<1>1. Init => BLP!IInv
  <2>1. Init => BLP!Init
    BY SameLedger DEF Init, BLP!Init, CB!Init, AS!Init
  <2> QED BY <2>1, BLP!InitExact DEF BLP!IInv
<1>2. Spec => []BLP!IInv
  BY <1>1, LedgerMoves, MoveExact, ControlAlways, PTL DEF Spec
<1>3. BLP!IInv => LedgerExact
  BY LedgerConstants, BLP!ExactBefore, SameLedger DEF LedgerExact
<1> QED BY <1>2, <1>3, PTL

(* So what has been spent is known exactly and, for a cumulative budget,   *)
(* bounded whatever the interleaving of gates and charges.                 *)
THEOREM SpendIsBounded ==
  ASSUME IsFiniteSet(Threads), Threads # {}, Window = NoWindow
  PROVE  Spec => []SpendBounded
<1>1. OverrunBound /\ LedgerExact => SpendBounded
  BY DEF SpendBounded
<1> QED BY <1>1, OverrunIsBounded, LedgerIsExact, PTL
-----------------------------------------------------------------------------
(* The refinement.  How far a call is agrees with whether its tool ran,    *)
(* and a runtime without a breaker has none tripped.                       *)
Staged(t) ==
  /\ pc[t] \in {"breaker", "budget", "policy", "approval", "arguments", "dispatch"} =>
       ~call[t].ran
  /\ pc[t] = "running" => call[t].ran
  /\ pc[t] \in {"trip", "budget_trip", "report_trip"} \/ then[t] = "budget_trip" =>
       Has("breaker")
StageInv ==
  /\ \A t \in Threads : Staged(t)
  /\ ~Has("breaker") => trippedAt = [k \in Agents \cup LedgerKeys |-> NoTrip]

(* A step of one thread, which trips a breaker only if there is one.       *)
LEMMA StageKept ==
  ASSUME StageInv, NEW t \in Threads, Alone(t), Staged(t)', Has("breaker") \/ UNCHANGED trippedAt
  PROVE  StageInv'
<1>1. \A u \in Threads \ {t} : Staged(u)'
  BY DEF StageInv, Staged, Alone
<1> QED BY <1>1 DEF StageInv

(* Every step keeps the stages. *)
LEMMA StageStep == Control /\ StageInv /\ [Next]_vars => StageInv'
<1> SUFFICES ASSUME Control, StageInv, [Next]_vars PROVE StageInv'
  OBVIOUS
<1> USE DEF At
<1>a. ThreadTypes
  BY DEF Control
<1>b. ASSUME NEW t \in Threads, UNCHANGED trippedAt \/ Has("breaker"),
             \/ \E c, next : Emit(t, c, next) /\ (next = "budget_trip" => Has("breaker"))
             \/ \E e : Refuse(t, e)
             \/ \E how : Leave(t, how)
      PROVE  StageInv'
  <2>1. /\ pc'[t] \in {"observe", "write", "idle"} /\ Alone(t)
        /\ then'[t] = "budget_trip" => Has("breaker")
    <3>1. CASE \E c, next : Emit(t, c, next) /\ (next = "budget_trip" => Has("breaker"))
      <4>1. PICK c, next : Emit(t, c, next) /\ (next = "budget_trip" => Has("breaker"))
        BY <3>1
      <4> QED BY <1>a, <4>1, Emits
    <3>2. CASE \E e : Refuse(t, e)
      <4>1. \E c : Emit(t, c, "raise")
        BY <3>2 DEF Refuse
      <4> QED BY <1>a, <4>1, Emits
    <3>3. CASE \E how : Leave(t, how)
      BY <1>a, <3>3, Leaves
    <3> QED BY <1>b, <3>1, <3>2, <3>3
  <2> QED BY <1>b, <2>1, StageKept DEF Staged
<1>c. ASSUME NEW t \in Threads, UNCHANGED trippedAt \/ Has("breaker"),
             NEW label \in Labels \ {"trip", "budget_trip", "report_trip"}, NEW c,
             Continue(t, label, c),
             label \notin {"running", "idle"} => ~c.ran, label = "running" => c.ran
      PROVE  StageInv'
  <2>1. pc'[t] = label /\ call'[t] = c /\ then'[t] = then[t] /\ Alone(t)
    BY <1>a, <1>c, Continues
  <2>2. Staged(t)'
    BY <1>c, <2>1 DEF StageInv, Staged
  <2> QED BY <1>c, <2>2, <2>1, StageKept
<1>d. ASSUME UNCHANGED thread, UNCHANGED trippedAt \/ Has("breaker") PROVE StageInv'
  BY <1>d DEF thread, StageInv, Staged
<1>1. ASSUME NEW t \in Threads, KillSwitch(t) PROVE StageInv'
  <2>1. /\ pc[t] = "breaker" /\ call[t] \in Invocation /\ ~call[t].ran
        /\ UNCHANGED trippedAt \/ Has("breaker")
    BY <1>1, <1>a, InsideCall DEF KillSwitch, Inside, Labels, StageInv, Staged
  <2>2. \/ \E e : Refuse(t, e)
        \/ \E c : ~c.ran /\ Continue(t, "budget", c)
    <3>1. \A n : ~[call[t] EXCEPT !.epoch = n].ran
      BY <2>1 DEF Invocation
    <3>2. \/ \E e : Refuse(t, e)
          \/ Continue(t, "budget", [call[t] EXCEPT !.epoch = trips[Agent(t)]])
          \/ Continue(t, "budget", call[t])
      BY <1>1 DEF KillSwitch
    <3> QED BY <2>1, <3>1, <3>2
  <2> QED BY <1>b, <1>c, <2>1, <2>2 DEF Labels
<1>2. ASSUME NEW t \in Threads, BudgetGate(t) PROVE StageInv'
  <2>1. /\ ~call[t].ran /\ UNCHANGED trippedAt
        /\ \/ Continue(t, "policy", call[t])
           \/ \E c, next : Emit(t, c, next) /\ (next = "budget_trip" => Has("breaker"))
    BY <1>2 DEF BudgetGate, breaker, StageInv, Staged
  <2> QED BY <1>b, <1>c, <2>1 DEF Labels
<1>3. ASSUME NEW t \in Threads, BudgetTrip(t) \/ MonitorTrip(t) \/ ReportTrip(t) PROVE StageInv'
  <2>1. Has("breaker")
    BY <1>3 DEF BudgetTrip, MonitorTrip, ReportTrip, StageInv, Staged
  <2>2. CASE BudgetTrip(t)
    BY <1>b, <2>1, <2>2 DEF BudgetTrip
  <2>3. CASE MonitorTrip(t)
    <3>1. pc'[t] = "write" /\ then' = then /\ Alone(t)
      BY <1>a, <2>3 DEF MonitorTrip, ThreadTypes, Alone
    <3> QED BY <2>1, <3>1, StageKept DEF Staged
  <2>4. CASE ReportTrip(t)
    BY <1>c, <2>1, <2>4 DEF ReportTrip, Labels
  <2> QED BY <1>3, <2>2, <2>3, <2>4
<1>4. ASSUME NEW t \in Threads, PolicyGates(t) PROVE StageInv'
  <2> DEFINE c == [call[t] EXCEPT !.decision = "require_approval"]
  <2>1. /\ pc[t] = "policy" /\ UNCHANGED trippedAt
        /\ \/ (\E e : Refuse(t, e)) \/ (\E how : Leave(t, how))
           \/ Continue(t, "approval", c) \/ Continue(t, "arguments", call[t])
    BY <1>4 DEF PolicyGates, breaker
  <2>2. ~call[t].ran /\ ~c.ran
    BY <1>a, <2>1, InsideCall DEF Inside, Labels, Invocation, StageInv, Staged
  <2> HIDE DEF c
  <2> QED BY <1>b, <1>c, <2>1, <2>2 DEF Labels
<1>5. ASSUME NEW t \in Threads, ReplayApproval(t) \/ AskHandler(t) \/ Pause(t) PROVE StageInv'
  <2> DEFINE a == [call[t] EXCEPT !.decision = "allow", !.by = call[t].req.token]
             b == [call[t] EXCEPT !.decision = "allow", !.by = "handler"]
  <2>1. /\ pc[t] = "approval" /\ UNCHANGED trippedAt
        /\ \/ (\E e : Refuse(t, e)) \/ (\E how : Leave(t, how))
           \/ Continue(t, "arguments", a) \/ Continue(t, "arguments", b)
    BY <1>5 DEF ReplayApproval, AskHandler, Pause, breaker
  <2>2. ~a.ran /\ ~b.ran
    BY <1>a, <2>1, InsideCall DEF Inside, Labels, Invocation, StageInv, Staged
  <2> HIDE DEF a, b
  <2> QED BY <1>b, <1>c, <2>1, <2>2 DEF Labels
<1>6. ASSUME NEW t \in Threads, EnforceArguments(t) PROVE StageInv'
  <2>1. /\ UNCHANGED trippedAt /\ ~call[t].ran
        /\ Continue(t, "dispatch", call[t]) \/ \E c : Emit(t, c, "raise")
    BY <1>6 DEF EnforceArguments, breaker, StageInv, Staged
  <2> QED BY <1>b, <1>c, <2>1 DEF Labels
<1>7. ASSUME NEW t \in Threads, Dispatch(t) PROVE StageInv'
  <2> DEFINE c == [call[t] EXCEPT !.ran = TRUE]
  <2>1. UNCHANGED trippedAt /\ Continue(t, "running", c) /\ pc[t] = "dispatch"
    BY <1>7 DEF Dispatch, breaker
  <2>2. c.ran
    BY <1>a, <2>1, InsideCall DEF Inside, Labels, Invocation
  <2> HIDE DEF c
  <2> QED BY <1>c, <2>1, <2>2 DEF Labels
<1>8. ASSUME NEW t \in Threads, ToolReturns(t) \/ ToolRaises(t) \/ WriteFails(t) PROVE StageInv'
  <2>1. /\ UNCHANGED trippedAt
        /\ \/ Emit(t, call[t], "return") \/ (\E e : Refuse(t, e)) \/ (\E how : Leave(t, how))
    BY <1>8 DEF ToolReturns, ToolRaises, WriteFails, breaker
  <2> QED BY <1>b, <2>1
<1>9. ASSUME NEW t \in Threads, Observe(t) PROVE StageInv'
  <2>1. /\ pc'[t] \in {"trip", "write"} /\ (pc'[t] = "trip" => Has("breaker"))
        /\ then' = then /\ Alone(t) /\ UNCHANGED trippedAt
    BY <1>a, <1>9 DEF Observe, ThreadTypes, Alone, breaker
  <2> QED BY <2>1, StageKept DEF StageInv, Staged
<1>10. ASSUME NEW t \in Threads, Write(t) PROVE StageInv'
  <2>1. UNCHANGED trippedAt
    BY <1>10 DEF Write, breaker
  <2>2. CASE then[t] = "budget_trip"
    <3>1. pc'[t] = "budget_trip" /\ then' = then /\ Alone(t)
      BY <1>a, <1>10, <2>2 DEF Write, ThreadTypes, Alone
    <3> QED BY <2>1, <2>2, <3>1, StageKept DEF StageInv, Staged
  <2>3. CASE then[t] # "budget_trip"
    BY <1>10, <1>b, <2>1, <2>3 DEF Write
  <2> QED BY <2>2, <2>3
<1>11. ASSUME NEW t \in Threads, NEW r \in Requests, Invoke(t, r) PROVE StageInv'
  <2>1. UNCHANGED trippedAt /\ (Continue(t, "breaker", NewCall(r)) \/ UNCHANGED thread)
    BY <1>11 DEF Invoke, breaker
  <2>2. ~NewCall(r).ran
    BY DEF NewCall
  <2> QED BY <1>c, <1>d, <2>1, <2>2 DEF Labels
<1>12. ASSUME NEW t \in Threads, NEW a \in Agents, NEW delta \in Reports,
              ReportUsage(t, a, delta)
       PROVE StageInv'
  <2>1. /\ UNCHANGED trippedAt
        /\ \/ /\ Has("breaker")
              /\ Continue(t, "report_trip", [inv |-> 0, req |-> [agent |-> a]])
           \/ UNCHANGED thread
    BY <1>12 DEF ReportUsage, breaker
  <2>2. CASE Continue(t, "report_trip", [inv |-> 0, req |-> [agent |-> a]]) /\ Has("breaker")
    <3>1. pc'[t] = "report_trip" /\ then'[t] = then[t] /\ Alone(t)
      BY <1>a, <2>2, Continues
    <3> QED BY <2>1, <2>2, <3>1, StageKept DEF StageInv, Staged
  <2> QED BY <1>d, <2>1, <2>2
<1>13. ASSUME \/ \E id \in TokenIds : Review(id)
              \/ \E a \in Agents : ResetBreaker(a)
              \/ \E k \in LedgerKeys : ResetBudget(k)
              \/ Tick \/ UNCHANGED vars
       PROVE StageInv'
  BY <1>d, <1>13 DEF Review, ResetBreaker, ResetBudget, Tick, vars, breaker
<1> QED
  BY <1>1, <1>2, <1>3, <1>4, <1>5, <1>6, <1>7, <1>8, <1>9, <1>10, <1>11, <1>12, <1>13
     DEF Next, Step

(* What a thread's call is to Enforcement.                                 *)
Doing(t) == IF Phase(t) = "idle" THEN {} ELSE {call[t].req}
Ground(t) == IF Phase(t) = "idle" THEN "none" ELSE Basis(call[t].by)

(* A step of one thread is a move of that thread's call.                   *)
LEMMA Moved ==
  ASSUME NEW t \in Threads, Alone(t), NEW from, NEW to, Phase(t) \in from, Phase(t)' = to,
         to # "idle" => Doing(t)' = Doing(t)
  PROVE  Enforced!Move(t, from, to)
<1>1. \A u \in Threads \ {t} : Phase(u)' = Phase(u) /\ Doing(u)' = Doing(u)
  BY DEF Alone, Phase, Doing
<1>2. to = "idle" => Doing(t)' = {}
  BY DEF Doing
<1>3. [u \in Threads |-> Phase(u)]' = [[u \in Threads |-> Phase(u)] EXCEPT ![t] = to]
  BY <1>1
<1>4. [u \in Threads |-> Doing(u)]' = IF to = "idle"
                                      THEN [[u \in Threads |-> Doing(u)] EXCEPT ![t] = {}]
                                      ELSE [u \in Threads |-> Doing(u)]
  BY <1>1, <1>2
<1> QED BY <1>3, <1>4 DEF Enforced!Move, Doing

(* It may keep what cleared the call... *)
LEMMA KeptGround ==
  ASSUME NEW t \in Threads, Alone(t), UNCHANGED grants, NEW to, Phase(t)' = to,
         to # "idle" => Ground(t)' = Ground(t)
  PROVE  Enforced!Keep(t, to)
<1>1. \A u \in Threads \ {t} : Ground(u)' = Ground(u)
  BY DEF Alone, Phase, Ground
<1>2. to = "idle" => Ground(t)' = "none"
  BY DEF Ground
<1>3. [u \in Threads |-> Ground(u)]' = IF to = "idle"
                                       THEN [[u \in Threads |-> Ground(u)] EXCEPT ![t] = "none"]
                                       ELSE [u \in Threads |-> Ground(u)]
  BY <1>1, <1>2
<1> QED BY <1>3 DEF Enforced!Keep, Ground

(* ...or change it. *)
LEMMA NewGround ==
  ASSUME NEW t \in Threads, Alone(t), NEW why, Ground(t)' = why
  PROVE  Enforced!On(t, why)
<1>1. \A u \in Threads \ {t} : Ground(u)' = Ground(u)
  BY DEF Alone, Phase, Ground
<1>2. [u \in Threads |-> Ground(u)]' = [[u \in Threads |-> Ground(u)] EXCEPT ![t] = why]
  BY <1>1
<1> QED BY <1>2 DEF Enforced!On, Ground

(* Breakers and approvals change as they will.                             *)
LEMMA StepSimulated ==
  ASSUME NEW t \in Threads, Enforced!Step(t)
  PROVE  Enforced!Next
  BY DEF Enforced!Next

(* Steps of which Enforcement knows nothing.                               *)
LEMMA Unseen ==
  ASSUME NEW t \in Threads, Alone(t), UNCHANGED grants,
         Phase(t)' = Phase(t),
         Phase(t) # "idle" => Doing(t)' = Doing(t) /\ Ground(t)' = Ground(t)
  PROVE  Enforced!Next
<1>1. \A u \in Threads : Phase(u)' = Phase(u) /\ Doing(u)' = Doing(u) /\ Ground(u)' = Ground(u)
  BY DEF Alone, Phase, Doing, Ground
<1>2. /\ [u \in Threads |-> Phase(u)]' = [u \in Threads |-> Phase(u)]
      /\ [u \in Threads |-> Doing(u)]' = [u \in Threads |-> Doing(u)]
      /\ [u \in Threads |-> Ground(u)]' = [u \in Threads |-> Ground(u)]
  BY <1>1
<1> QED BY <1>2 DEF Enforced!Next, Enforced!thread, Doing, Ground

(* A call that a gate refuses, or whose event is handed to the sinks.      *)
LEMMA RefusalSimulated ==
  ASSUME NEW t \in Threads, Alone(t), UNCHANGED grants,
         Phase(t) \in {"received", "admitted", "cleared"}, Phase(t)' = "reporting",
         call'[t].req = call[t].req, call'[t].by = call[t].by
  PROVE  Enforced!Next
<1>1. Doing(t)' = Doing(t) /\ Ground(t)' = Ground(t)
  BY DEF Doing, Ground
<1>2. Enforced!Move(t, {"received", "admitted", "cleared"}, "reporting")
  BY <1>1, Moved
<1>3. Enforced!Keep(t, "reporting")
  BY <1>1, KeptGround
<1> QED BY <1>2, <1>3, StepSimulated DEF Enforced!Refuse, Enforced!Step

(* A call leaves: reported, or abandoned by the code that decides.         *)
LEMMA ExitSimulated ==
  ASSUME NEW t \in Threads, Alone(t), UNCHANGED grants,
         Phase(t) \in {"admitted", "ran", "reporting"}, Phase(t)' = "idle"
  PROVE  Enforced!Next
<1>1. Enforced!Keep(t, "idle")
  BY KeptGround
<1>2. CASE Phase(t) = "admitted"
  <2>1. Enforced!Move(t, {"admitted"}, "idle")
    BY <1>2, Moved
  <2> QED BY <1>1, <2>1, StepSimulated DEF Enforced!Abandon, Enforced!Step
<1>3. CASE Phase(t) \in {"ran", "reporting"}
  <2>1. Enforced!Move(t, {"ran", "reporting"}, "idle")
    BY <1>3, Moved
  <2> QED BY <1>1, <2>1, StepSimulated DEF Enforced!Report, Enforced!Step
<1> QED BY <1>2, <1>3

(* Nor of steps of operators, clocks and ledgers. *)
LEMMA NothingMoves ==
  ASSUME UNCHANGED thread, UNCHANGED grants PROVE Enforced!Next
<1>1. \A u \in Threads : Phase(u)' = Phase(u) /\ Doing(u)' = Doing(u) /\ Ground(u)' = Ground(u)
  BY DEF thread, Phase, Doing, Ground
<1>2. /\ [u \in Threads |-> Phase(u)]' = [u \in Threads |-> Phase(u)]
      /\ [u \in Threads |-> Doing(u)]' = [u \in Threads |-> Doing(u)]
      /\ [u \in Threads |-> Ground(u)]' = [u \in Threads |-> Ground(u)]
  BY <1>1
<1> QED BY <1>2 DEF Enforced!Next, Enforced!thread, Doing, Ground

(* The kill switch admits only agents that are not halted.                 *)
LEMMA KillSwitchSimulated ==
  ASSUME Control, StageInv, NEW t \in Threads, KillSwitch(t)
  PROVE  Enforced!Next
<1>1. /\ pc[t] = "breaker" /\ call[t] \in Invocation /\ UNCHANGED grants
      /\ Agent(t) \in Agents /\ ~call[t].ran
  BY InsideCall DEF KillSwitch, At, Control, Inside, Labels, store, StageInv, Staged
<1>2. ASSUME NEW c, c.req = call[t].req, c.by = call[t].by, Continue(t, "budget", c),
             ~CB!Open(Agent(t))
      PROVE  Enforced!Next
  <2>1. pc'[t] = "budget" /\ call'[t] = c /\ Alone(t)
    BY <1>2, Continues DEF Control
  <2>2. Phase(t) = "received" /\ Phase(t)' = "admitted"
    BY <1>1, <2>1 DEF Phase
  <2>3. Doing(t)' = Doing(t) /\ Ground(t)' = Ground(t) /\ Doing(t) = {call[t].req}
    BY <1>2, <2>1, <2>2 DEF Doing, Ground
  <2>4. Enforced!Move(t, {"received"}, "admitted")
    BY <2>1, <2>2, <2>3, Moved
  <2>5. Enforced!Keep(t, "admitted")
    BY <1>1, <2>1, <2>2, <2>3, KeptGround
  <2>6. Enforced!Admit(t)
    <3>1. \A r \in Doing(t) : [q \in Requests |-> q.agent][r] \notin {a \in Agents : CB!Open(a)}
      BY <1>1, <1>2, <2>3 DEF Agent, Invocation
    <3> QED BY <2>4, <2>5, <3>1 DEF Enforced!Admit, Doing
  <2> QED BY <2>6, StepSimulated DEF Enforced!Step
<1>3. CASE Refuse(t, "circuit_breaker_open")
  <2> DEFINE c == [call[t] EXCEPT !.error = "circuit_breaker_open"]
  <2>1. c.req = call[t].req /\ c.by = call[t].by /\ ~c.ran
    BY <1>1 DEF Invocation
  <2>2. Emit(t, c, "raise")
    BY <1>3 DEF Refuse
  <2> HIDE DEF c
  <2>3. pc'[t] \in {"observe", "write"} /\ call'[t] = c /\ Alone(t)
    BY <2>2, Emits DEF Control
  <2>4. Phase(t) = "received" /\ Phase(t)' = "reporting"
    BY <1>1, <2>1, <2>3 DEF Phase
  <2> QED BY <1>1, <2>1, <2>3, <2>4, RefusalSimulated
<1>4. CASE Has("breaker") /\ ~Refuse(t, "circuit_breaker_open")
  <2> DEFINE c == [call[t] EXCEPT !.epoch = trips[Agent(t)]]
  <2>1. c.req = call[t].req /\ c.by = call[t].by
    BY <1>1 DEF Invocation
  <2>2. Continue(t, "budget", c) /\ ~CB!Open(Agent(t))
    BY <1>4 DEF KillSwitch, CB!IsOpen, BreakerKey
  <2> HIDE DEF c
  <2> QED BY <1>2, <2>1, <2>2
<1>5. CASE ~Has("breaker")
  <2>1. ~CB!Open(Agent(t))
    BY <1>1, <1>5 DEF StageInv, CB!Open, CB!Tripped
  <2> QED BY <1>2, <1>5, <2>1 DEF KillSwitch
<1> QED BY <1>3, <1>4, <1>5

(* The gates clear a call as Enforcement says it may be cleared.           *)
LEMMA PolicySimulated ==
  ASSUME Control, StageInv, AuthInv, AuthInv', NEW t \in Threads, PolicyGates(t)
  PROVE  Enforced!Next
<1> DEFINE c == [call[t] EXCEPT !.decision = "require_approval"]
<1>1. /\ pc[t] = "policy" /\ call[t] \in Invocation /\ UNCHANGED grants /\ ~call[t].ran
      /\ call[t].by = NoApproval /\ call[t].req \in Requests
  BY InsideCall
     DEF PolicyGates, At, Control, Inside, Labels, store, StageInv, Staged, AuthInv, Vetted
<1>2. c.req = call[t].req /\ c.by = call[t].by
  BY <1>1 DEF Invocation
<1>3. \/ \E e : Refuse(t, e)
      \/ Leave(t, "raised")
      \/ Continue(t, "approval", c)
      \/ Continue(t, "arguments", call[t])
  BY DEF PolicyGates
<1> HIDE DEF c
<1>4. Phase(t) = "admitted"
  BY <1>1 DEF Phase
<1>5. CASE \E e : Refuse(t, e)
  <2>1. PICK e, d : d = [call[t] EXCEPT !.error = e] /\ Emit(t, d, "raise")
    BY <1>5 DEF Refuse
  <2>2. d.req = call[t].req /\ d.by = call[t].by /\ ~d.ran
    BY <1>1, <2>1 DEF Invocation
  <2>3. pc'[t] \in {"observe", "write"} /\ call'[t] = d /\ Alone(t)
    BY <2>1, Emits DEF Control
  <2>4. Phase(t)' = "reporting"
    BY <2>2, <2>3 DEF Phase
  <2> QED BY <1>1, <1>4, <2>2, <2>3, <2>4, RefusalSimulated
<1>6. CASE Leave(t, "raised")
  <2>1. pc'[t] = "idle" /\ Alone(t)
    BY <1>6, Leaves DEF Control
  <2>2. Phase(t)' = "idle"
    BY <2>1 DEF Phase
  <2> QED BY <1>1, <1>4, <2>1, <2>2, ExitSimulated
<1>7. CASE Continue(t, "approval", c)
  <2>1. pc'[t] = "approval" /\ call'[t] = c /\ Alone(t)
    BY <1>7, Continues DEF Control
  <2>2. Phase(t)' = Phase(t)
    BY <1>4, <2>1 DEF Phase
  <2>3. Doing(t)' = Doing(t) /\ Ground(t)' = Ground(t)
    BY <1>2, <1>4, <2>1, <2>2 DEF Doing, Ground
  <2> QED BY <1>1, <2>1, <2>2, <2>3, Unseen
<1>8. CASE Continue(t, "arguments", call[t])
  <2>1. pc'[t] = "arguments" /\ call'[t] = call[t] /\ Alone(t)
    BY <1>8, Continues DEF Control
  <2>2. Phase(t)' = "cleared"
    BY <2>1 DEF Phase
  <2>3. Doing(t)' = Doing(t) /\ Ground(t)' = Ground(t) /\ Doing(t) = {call[t].req}
    BY <1>4, <2>1, <2>2 DEF Doing, Ground
  <2>4. Enforced!Move(t, {"admitted"}, "cleared") /\ Enforced!Keep(t, "cleared")
    BY <1>1, <1>4, <2>1, <2>2, <2>3, Moved, KeptGround
  <2>5. Admissible(call[t].req) /\ ~NeedsHuman(call[t].req)
    BY <1>1, <2>1 DEF AuthInv, Vetted, Cleared, Admissible, Resolves, NeedsHuman
  <2>6. Doing(t) \subseteq {r \in Requests : Admissible(r) /\ ~NeedsHuman(r)}
    BY <1>1, <2>3, <2>5
  <2>7. Enforced!ClearUnattended(t)
    BY <2>4, <2>6 DEF Enforced!ClearUnattended, Doing
  <2> QED BY <2>7, StepSimulated DEF Enforced!Step
<1> QED BY <1>3, <1>5, <1>6, <1>7, <1>8

(* An approval clears one call: it was given, and has cleared none.        *)
LEMMA ReplaySimulated ==
  ASSUME Control, StoreInv, StageInv, AuthInv, NEW t \in Threads, ReplayApproval(t)
  PROVE  Enforced!Next
<1>1. /\ pc[t] = "approval" /\ call[t] \in Invocation /\ ~call[t].ran
      /\ Admissible(call[t].req) /\ call[t].req \in Requests
  BY InsideCall
     DEF ReplayApproval, At, Control, Inside, Labels, StageInv, Staged, AuthInv, Vetted
<1>2. Phase(t) = "admitted"
  BY <1>1 DEF Phase
<1>3. CASE \E e : Refuse(t, e) /\ UNCHANGED grants
  <2>1. PICK e, d : d = [call[t] EXCEPT !.error = e] /\ Emit(t, d, "raise")
    BY <1>3 DEF Refuse
  <2>2. d.req = call[t].req /\ d.by = call[t].by /\ ~d.ran
    BY <1>1, <2>1 DEF Invocation
  <2>3. pc'[t] \in {"observe", "write"} /\ call'[t] = d /\ Alone(t)
    BY <2>1, Emits DEF Control
  <2>4. Phase(t)' = "reporting"
    BY <2>2, <2>3 DEF Phase
  <2> QED BY <1>2, <1>3, <2>2, <2>3, <2>4, RefusalSimulated
<1>4. CASE ~\E e : Refuse(t, e) /\ UNCHANGED grants
  <2>1. PICK r, id, c : /\ r = call[t].req /\ id = r.token
                        /\ c = [call[t] EXCEPT !.decision = "allow", !.by = id]
    OBVIOUS
  <2>2. id \in TokenIds /\ AS!Consume(id, r.agent, r.tool, r.args) /\ Continue(t, "arguments", c)
    BY <1>4, <2>1 DEF ReplayApproval, AS!Refuse
  <2>3. c.by = id /\ c.req = r
    BY <1>1, <2>1 DEF Invocation
  <2>4. pc'[t] = "arguments" /\ call'[t] = c /\ Alone(t)
    BY <2>2, Continues DEF Control
  <2>5. Phase(t)' = "cleared"
    BY <2>4 DEF Phase
  <2>6. Doing(t)' = Doing(t) /\ Doing(t) = {r}
    BY <1>2, <2>1, <2>3, <2>4, <2>5 DEF Doing
  <2>7. Ground(t)' = "approval"
    BY <2>2, <2>3, <2>4, <2>5, RuntimeAssumption DEF Ground, Basis
  <2>8. Enforced!Move(t, {"admitted"}, "cleared") /\ Enforced!On(t, "approval")
    BY <1>2, <2>4, <2>5, <2>6, <2>7, Moved, NewGround
  <2>9. Doing(t) \subseteq {q \in Requests : Admissible(q)}
    BY <1>1, <2>1, <2>6
  <2>10. tokens[id] # NoToken /\ tokens[id].status = "approved"
    BY <2>2 DEF AS!Consume, AS!Consumable, AS!Presentable, AS!Held
  <2>11. id \in {n \in TokenIds : verdicts[n] = {"approved"}}
    BY <2>2, <2>10 DEF StoreInv, ASP!IInv, ASP!Ledger
  <2>12. id \notin {grants[i].id : i \in DOMAIN grants}
    <3>1. id \in TokenIds /\ ~ASP!Overwritten(id) /\ ASP!GrantsClosed
      BY <2>2 DEF StoreInv, ASP!IInv
    <3> QED BY <3>1, <2>10 DEF ASP!GrantsClosed
  <2>13. {grants[i].id : i \in DOMAIN grants}' = {grants[i].id : i \in DOMAIN grants} \cup {id}
    <3>1. PICK g : g = [id |-> id, agent_id |-> r.agent, tool_name |-> r.tool,
                        args_digest |-> ArgsDigest[r.args], at |-> now]
      OBVIOUS
    <3>2. g.id = id
      BY <3>1
    <3>3. grants \in Seq(ASP!Grant) /\ grants' = Append(grants, g)
      BY <2>2, <3>1 DEF StoreInv, ASP!IInv, ASP!TypeOK, AS!Consume
    <3>4. /\ DOMAIN grants = 1..Len(grants) /\ Len(grants) \in Nat
          /\ DOMAIN grants' = 1..Len(grants) + 1
          /\ grants'[Len(grants) + 1] = g
          /\ \A i \in DOMAIN grants : grants'[i] = grants[i]
      BY <3>3
    <3>5. DOMAIN grants' = DOMAIN grants \cup {Len(grants) + 1}
      BY <3>4
    <3> QED BY <3>2, <3>4, <3>5
  <2>14. Enforced!ClearApproved(t)
    BY <2>8, <2>9, <2>11, <2>12, <2>13 DEF Enforced!ClearApproved, Doing
  <2> QED BY <2>14, StepSimulated DEF Enforced!Step
<1> QED BY <1>3, <1>4

(* The inline handler is the human asked on the spot.                      *)
LEMMA HandlerSimulated ==
  ASSUME Control, StageInv, AuthInv, NEW t \in Threads, AskHandler(t)
  PROVE  Enforced!Next
<1> DEFINE c == [call[t] EXCEPT !.decision = "allow", !.by = "handler"]
<1>1. /\ pc[t] = "approval" /\ call[t] \in Invocation /\ UNCHANGED grants /\ ~call[t].ran
      /\ Admissible(call[t].req) /\ call[t].req \in Requests
  BY InsideCall
     DEF AskHandler, At, Control, Inside, Labels, store, StageInv, Staged, AuthInv, Vetted
<1>2. c.req = call[t].req /\ c.by = "handler"
  BY <1>1 DEF Invocation
<1>3. \/ \E e : Refuse(t, e)
      \/ Leave(t, "raised")
      \/ Continue(t, "arguments", c)
  BY DEF AskHandler
<1> HIDE DEF c
<1>4. Phase(t) = "admitted"
  BY <1>1 DEF Phase
<1>5. CASE \E e : Refuse(t, e)
  <2>1. PICK e, d : d = [call[t] EXCEPT !.error = e] /\ Emit(t, d, "raise")
    BY <1>5 DEF Refuse
  <2>2. d.req = call[t].req /\ d.by = call[t].by /\ ~d.ran
    BY <1>1, <2>1 DEF Invocation
  <2>3. pc'[t] \in {"observe", "write"} /\ call'[t] = d /\ Alone(t)
    BY <2>1, Emits DEF Control
  <2>4. Phase(t)' = "reporting"
    BY <2>2, <2>3 DEF Phase
  <2> QED BY <1>1, <1>4, <2>2, <2>3, <2>4, RefusalSimulated
<1>6. CASE Leave(t, "raised")
  <2>1. pc'[t] = "idle" /\ Alone(t)
    BY <1>6, Leaves DEF Control
  <2>2. Phase(t)' = "idle"
    BY <2>1 DEF Phase
  <2> QED BY <1>1, <1>4, <2>1, <2>2, ExitSimulated
<1>7. CASE Continue(t, "arguments", c)
  <2>1. pc'[t] = "arguments" /\ call'[t] = c /\ Alone(t)
    BY <1>7, Continues DEF Control
  <2>2. Phase(t)' = "cleared"
    BY <2>1 DEF Phase
  <2>3. Doing(t)' = Doing(t) /\ Doing(t) = {call[t].req}
    BY <1>2, <1>4, <2>1, <2>2 DEF Doing
  <2>4. Ground(t)' = "human"
    BY <1>2, <2>1, <2>2, RuntimeAssumption DEF Ground, Basis
  <2>5. Enforced!Move(t, {"admitted"}, "cleared") /\ Enforced!On(t, "human")
    BY <1>4, <2>1, <2>2, <2>3, <2>4, Moved, NewGround
  <2>6. Doing(t) \subseteq {q \in Requests : Admissible(q)}
    BY <1>1, <2>3
  <2>7. Enforced!ClearAttended(t)
    BY <1>1, <2>5, <2>6 DEF Enforced!ClearAttended, Doing
  <2> QED BY <2>7, StepSimulated DEF Enforced!Step
<1> QED BY <1>3, <1>5, <1>6, <1>7

(* A tool is entered within the agent's grant.                             *)
LEMMA RunSimulated ==
  ASSUME Control, StageInv, AuthInv, NEW t \in Threads, Dispatch(t)
  PROVE  Enforced!Next
<1> DEFINE c == [call[t] EXCEPT !.ran = TRUE]
<1>1. /\ pc[t] = "dispatch" /\ call[t] \in Invocation /\ UNCHANGED grants
      /\ call[t].req \in ArgsAllowed
  BY InsideCall DEF Dispatch, At, Control, Inside, Labels, store, AuthInv, Vetted
<1>2. c.req = call[t].req /\ c.by = call[t].by
  BY <1>1 DEF Invocation
<1>3. Continue(t, "running", c)
  BY DEF Dispatch
<1> HIDE DEF c
<1>4. pc'[t] = "running" /\ call'[t] = c /\ Alone(t)
  BY <1>3, Continues DEF Control
<1>5. Phase(t) = "cleared" /\ Phase(t)' = "ran"
  BY <1>1, <1>4 DEF Phase
<1>6. Doing(t)' = Doing(t) /\ Ground(t)' = Ground(t) /\ Doing(t) = {call[t].req}
  BY <1>2, <1>4, <1>5 DEF Doing, Ground
<1>7. Enforced!Move(t, {"cleared"}, "ran") /\ Enforced!Keep(t, "ran")
  BY <1>1, <1>4, <1>5, <1>6, Moved, KeptGround
<1>8. Doing(t) \subseteq ArgsAllowed
  BY <1>1, <1>6
<1>9. Enforced!Run(t)
  BY <1>7, <1>8 DEF Enforced!Run, Doing
<1> QED BY <1>9, StepSimulated DEF Enforced!Step

(* The remaining steps refuse, report, or are none of Enforcement's        *)
(* business.                                                               *)
LEMMA StepImplements ==
  ASSUME Control, StoreInv, StageInv, AuthInv, AuthInv', Next
  PROVE  Enforced!Next
<1> USE DEF At
<1>a. ThreadTypes
  BY DEF Control
<1>b. ASSUME NEW t \in Threads, UNCHANGED grants,
             pc[t] \in {"breaker", "budget", "policy", "approval", "arguments", "dispatch"},
             NEW c, NEW next, Emit(t, c, next), c.req = call[t].req, c.by = call[t].by,
             c.ran = call[t].ran
      PROVE  Enforced!Next
  <2>1. pc'[t] \in {"observe", "write"} /\ call'[t] = c /\ Alone(t)
    BY <1>a, <1>b, Emits
  <2>2. Phase(t) \in {"received", "admitted", "cleared"} /\ Phase(t)' = "reporting"
    BY <1>b, <2>1 DEF Phase, StageInv, Staged
  <2> QED BY <1>b, <2>1, <2>2, RefusalSimulated
<1>c. ASSUME NEW t \in Threads, UNCHANGED grants,
             pc[t] = "running" \/ (pc[t] = "write" /\ call[t].ran),
             NEW c, NEW next, Emit(t, c, next), c.req = call[t].req, c.by = call[t].by,
             c.ran = call[t].ran
      PROVE  Enforced!Next
  <2>1. pc'[t] \in {"observe", "write"} /\ call'[t] = c /\ Alone(t)
    BY <1>a, <1>c, Emits
  <2>2. Phase(t) = "ran" /\ Phase(t)' = "ran"
    BY <1>c, <2>1 DEF Phase, StageInv, Staged
  <2>3. Doing(t)' = Doing(t) /\ Ground(t)' = Ground(t)
    BY <1>c, <2>1, <2>2 DEF Doing, Ground
  <2> QED BY <1>c, <2>1, <2>2, <2>3, Unseen
<1>d. ASSUME NEW t \in Threads, NEW e, pc[t] \in Inside
      PROVE  LET c == [call[t] EXCEPT !.error = e]
             IN c.req = call[t].req /\ c.by = call[t].by /\ c.ran = call[t].ran
  BY <1>a, <1>d, InsideCall DEF Invocation
<1>1. ASSUME NEW t \in Threads, BudgetGate(t) PROVE Enforced!Next
  <2> DEFINE c == [call[t] EXCEPT !.error = "budget_exceeded"]
  <2>1. /\ pc[t] = "budget" /\ UNCHANGED grants
        /\ Continue(t, "policy", call[t]) \/ \E next : Emit(t, c, next)
    BY <1>1 DEF BudgetGate, store
  <2>2. c.req = call[t].req /\ c.by = call[t].by /\ c.ran = call[t].ran
    BY <1>d, <2>1 DEF Inside, Labels
  <2> HIDE DEF c
  <2>3. CASE Continue(t, "policy", call[t])
    <3>1. pc'[t] = "policy" /\ call'[t] = call[t] /\ Alone(t)
      BY <1>a, <2>3, Continues
    <3>2. Phase(t) = "admitted" /\ Phase(t)' = "admitted"
      BY <2>1, <3>1 DEF Phase
    <3>3. Doing(t)' = Doing(t) /\ Ground(t)' = Ground(t)
      BY <3>1, <3>2 DEF Doing, Ground
    <3> QED BY <2>1, <3>1, <3>2, <3>3, Unseen
  <2> QED BY <1>b, <2>1, <2>2, <2>3
<1>2. ASSUME NEW t \in Threads, BudgetTrip(t) PROVE Enforced!Next
  <2>1. pc[t] = "budget_trip" /\ pc'[t] = "idle" /\ Alone(t) /\ UNCHANGED grants
    BY <1>a, <1>2, Leaves DEF BudgetTrip, store
  <2>2. Phase(t) = "idle" /\ Phase(t)' = "idle"
    BY <2>1 DEF Phase
  <2> QED BY <2>1, <2>2, Unseen
<1>3. ASSUME NEW t \in Threads, Pause(t) PROVE Enforced!Next
  <2> DEFINE c == [call[t] EXCEPT !.error = "require_approval_pending"]
  <2>1. /\ pc[t] = "approval" /\ UNCHANGED grants /\ Emit(t, c, "raise")
    BY <1>3 DEF Pause, store, AS!Issue, Refuse
  <2>2. c.req = call[t].req /\ c.by = call[t].by /\ c.ran = call[t].ran
    BY <1>d, <2>1 DEF Inside, Labels
  <2> HIDE DEF c
  <2> QED BY <1>b, <2>1, <2>2
<1>4. ASSUME NEW t \in Threads, EnforceArguments(t) PROVE Enforced!Next
  <2> DEFINE c == [call[t] EXCEPT !.decision = "deny", !.error = "capability_violation"]
  <2>1. /\ pc[t] = "arguments" /\ UNCHANGED grants
        /\ Continue(t, "dispatch", call[t]) \/ Emit(t, c, "raise")
    BY <1>4 DEF EnforceArguments, store
  <2>2. c.req = call[t].req /\ c.by = call[t].by /\ c.ran = call[t].ran
    BY <1>a, <2>1, InsideCall DEF Inside, Labels, Invocation
  <2> HIDE DEF c
  <2>3. CASE Continue(t, "dispatch", call[t])
    <3>1. pc'[t] = "dispatch" /\ call'[t] = call[t] /\ Alone(t)
      BY <1>a, <2>3, Continues
    <3>2. Phase(t) = "cleared" /\ Phase(t)' = "cleared"
      BY <2>1, <3>1 DEF Phase
    <3>3. Doing(t)' = Doing(t) /\ Ground(t)' = Ground(t)
      BY <3>1, <3>2 DEF Doing, Ground
    <3> QED BY <2>1, <3>1, <3>2, <3>3, Unseen
  <2> QED BY <1>b, <2>1, <2>2, <2>3
<1>5. ASSUME NEW t \in Threads, ToolReturns(t) \/ ToolRaises(t) PROVE Enforced!Next
  <2>1. /\ pc[t] = "running" /\ UNCHANGED grants
        /\ Emit(t, call[t], "return") \/ \E e : Refuse(t, e)
    BY <1>5 DEF ToolReturns, ToolRaises, store
  <2>2. CASE Emit(t, call[t], "return")
    BY <1>c, <2>1, <2>2
  <2>3. CASE \E e : Refuse(t, e)
    <3>1. PICK e, c : c = [call[t] EXCEPT !.error = e] /\ Emit(t, c, "raise")
      BY <2>3 DEF Refuse
    <3>2. c.req = call[t].req /\ c.by = call[t].by /\ c.ran = call[t].ran
      BY <1>d, <2>1, <3>1 DEF Inside, Labels
    <3> QED BY <1>c, <2>1, <3>1, <3>2
  <2> QED BY <2>1, <2>2, <2>3
<1>6. ASSUME NEW t \in Threads, Observe(t) \/ MonitorTrip(t) PROVE Enforced!Next
  <2>1. /\ pc[t] \in {"observe", "trip"} /\ pc'[t] \in {"trip", "write"} /\ call' = call
        /\ Alone(t) /\ UNCHANGED grants
    BY <1>a, <1>6 DEF Observe, MonitorTrip, ThreadTypes, Alone, store
  <2>2. Phase(t)' = Phase(t)
    BY <2>1 DEF Phase
  <2>3. Doing(t)' = Doing(t) /\ Ground(t)' = Ground(t)
    BY <2>1, <2>2 DEF Doing, Ground
  <2> QED BY <2>1, <2>2, <2>3, Unseen
<1>7. ASSUME NEW t \in Threads, Write(t) \/ WriteFails(t) PROVE Enforced!Next
  <2>1. /\ pc[t] = "write" /\ UNCHANGED grants
        /\ \/ pc' = [pc EXCEPT ![t] = "budget_trip"] /\ UNCHANGED <<call, then, found>>
           \/ \E how : Leave(t, how)
           \/ Refuse(t, "sink_error")
    BY <1>7 DEF Write, WriteFails, store
  <2>2. Phase(t) \in {"ran", "reporting"}
    BY <2>1 DEF Phase
  <2>3. CASE \/ pc' = [pc EXCEPT ![t] = "budget_trip"] /\ UNCHANGED <<call, then, found>>
             \/ \E how : Leave(t, how)
    <3>1. pc'[t] \in {"budget_trip", "idle"} /\ Alone(t)
      BY <1>a, <2>3, Leaves DEF ThreadTypes, Alone
    <3>2. Phase(t)' = "idle"
      BY <3>1 DEF Phase
    <3> QED BY <2>1, <2>2, <3>1, <3>2, ExitSimulated
  <2>4. CASE Refuse(t, "sink_error")
    <3>1. PICK c : c = [call[t] EXCEPT !.error = "sink_error"] /\ Emit(t, c, "raise")
      BY <2>4 DEF Refuse
    <3>2. c.req = call[t].req /\ c.by = call[t].by /\ c.ran = call[t].ran
      BY <1>d, <2>1, <3>1 DEF Inside, Labels
    <3>3. pc'[t] \in {"observe", "write"} /\ call'[t] = c /\ Alone(t)
      BY <1>a, <3>1, Emits
    <3>4. Phase(t)' = Phase(t)
      BY <2>1, <3>2, <3>3 DEF Phase
    <3>5. Doing(t)' = Doing(t) /\ Ground(t)' = Ground(t)
      BY <3>2, <3>3, <3>4 DEF Doing, Ground
    <3> QED BY <2>1, <3>3, <3>4, <3>5, Unseen
  <2> QED BY <2>1, <2>3, <2>4
<1>8. ASSUME NEW t \in Threads, ReportTrip(t) PROVE Enforced!Next
  <2>1. pc[t] = "report_trip" /\ pc'[t] = "idle" /\ Alone(t) /\ UNCHANGED grants
    BY <1>a, <1>8, Continues DEF ReportTrip, store
  <2>2. Phase(t) = "idle" /\ Phase(t)' = "idle"
    BY <2>1 DEF Phase
  <2> QED BY <2>1, <2>2, Unseen
<1>9. ASSUME NEW t \in Threads, NEW r \in Requests, Invoke(t, r) PROVE Enforced!Next
  <2>1. /\ pc[t] = "idle" /\ UNCHANGED grants
        /\ Continue(t, "breaker", NewCall(r)) \/ UNCHANGED thread
    BY <1>9 DEF Invoke, store
  <2>2. NewCall(r).req = r /\ NewCall(r).by = NoApproval
    BY DEF NewCall
  <2>3. CASE Continue(t, "breaker", NewCall(r))
    <3>1. pc'[t] = "breaker" /\ call'[t] = NewCall(r) /\ Alone(t)
      BY <1>a, <2>3, Continues
    <3>2. Phase(t) = "idle" /\ Phase(t)' = "received"
      BY <2>1, <3>1 DEF Phase
    <3>3. Doing(t)' = {r} /\ Ground(t)' = Ground(t)
      <4>1. Basis(NoApproval) = "none"
        BY RuntimeAssumption DEF Basis
      <4>2. Doing(t)' = {call'[t].req} /\ Ground(t)' = Basis(call'[t].by) /\ Ground(t) = "none"
        BY <3>2 DEF Doing, Ground
      <4> QED BY <2>2, <3>1, <4>1, <4>2
    <3>4. Enforced!Keep(t, "received")
      BY <2>1, <3>1, <3>2, <3>3, KeptGround
    <3>5. \A u \in Threads \ {t} : Phase(u)' = Phase(u) /\ Doing(u)' = Doing(u)
      BY <3>1 DEF Alone, Phase, Doing
    <3>6. /\ [u \in Threads |-> Phase(u)]'
               = [[u \in Threads |-> Phase(u)] EXCEPT ![t] = "received"]
          /\ [u \in Threads |-> Doing(u)]' = [[u \in Threads |-> Doing(u)] EXCEPT ![t] = {r}]
      BY <3>2, <3>3, <3>5
    <3>7. Enforced!Receive(t, r)
      BY <3>2, <3>4, <3>6 DEF Enforced!Receive, Doing
    <3> QED BY <3>7, StepSimulated DEF Enforced!Step
  <2>4. CASE UNCHANGED thread
    BY <2>1, <2>4, NothingMoves
  <2> QED BY <2>1, <2>3, <2>4
<1>10. ASSUME NEW t \in Threads, NEW a \in Agents, NEW delta \in Reports,
              ReportUsage(t, a, delta)
       PROVE Enforced!Next
  <2>1. /\ pc[t] = "idle" /\ UNCHANGED grants
        /\ \/ Continue(t, "report_trip", [inv |-> 0, req |-> [agent |-> a]])
           \/ UNCHANGED thread
    BY <1>10 DEF ReportUsage, store
  <2>2. CASE Continue(t, "report_trip", [inv |-> 0, req |-> [agent |-> a]])
    <3>1. pc'[t] = "report_trip" /\ Alone(t)
      BY <1>a, <2>2, Continues
    <3>2. Phase(t) = "idle" /\ Phase(t)' = "idle"
      BY <2>1, <3>1 DEF Phase
    <3> QED BY <2>1, <3>1, <3>2, Unseen
  <2> QED BY <2>1, <2>2, NothingMoves
<1>11. ASSUME \/ \E id \in TokenIds : Review(id)
              \/ \E a \in Agents : ResetBreaker(a)
              \/ \E k \in LedgerKeys : ResetBudget(k)
              \/ Tick
       PROVE Enforced!Next
  BY <1>11, NothingMoves
     DEF Review, ResetBreaker, ResetBudget, Tick, store, AS!Approve, AS!Reject, AS!Transition
<1> QED
  BY <1>1, <1>2, <1>3, <1>4, <1>5, <1>6, <1>7, <1>8, <1>9, <1>10, <1>11,
     KillSwitchSimulated, PolicySimulated, ReplaySimulated, HandlerSimulated, RunSimulated
     DEF Next, Step

(* The pipeline implements Enforcement: whatever the threads, operators    *)
(* and clocks do, no tool runs for a call that was not cleared as          *)
(* Enforcement allows, and no call that ran is left without a report.      *)
THEOREM PipelineImplements == Spec => ImplementsEnforcement
<1>1. Init => Enforced!Init
  <2> SUFFICES ASSUME Init PROVE Enforced!Init
    OBVIOUS
  <2>1. \A t \in Threads : Phase(t) = "idle"
    BY DEF Init, Phase
  <2>2. {a \in Agents : CB!Open(a)} = {}
    BY DEF Init, CB!Init, CB!Open, CB!Tripped
  <2>3. {id \in TokenIds : verdicts[id] = {"approved"}} = {}
    BY DEF Init, AS!Init
  <2>4. {grants[i].id : i \in DOMAIN grants} = {}
    BY DEF Init, AS!Init
  <2> QED BY <2>1, <2>2, <2>3, <2>4 DEF Enforced!Init
<1>2. Init => AuthInv
  BY DEF Init, AuthInv, Vetted, HeldOnce, Holds, RunsCleared
<1>3. Init => LogTypes
  BY DEF Init, LogTypes, Ending
<1>4. Spec => []LogTypes
  <2>1. Init => BL!TypeOK
    BY DEF Init, AS!Init, BL!TypeOK, BL!NoSpend, BL!Spend
  <2> QED BY <1>3, <2>1, RecordStep, ControlAlways, PTL DEF Spec
<1>5. Spec => []AuthInv
  BY <1>2, <1>4, AuthStep, ControlAlways, StoreInvariant, PTL DEF Spec
<1>6. Init => StageInv
  BY DEF Init, CB!Init, StageInv, Staged
<1>7. Spec => []StageInv
  BY <1>6, StageStep, ControlAlways, PTL DEF Spec
<1>8. Control /\ StoreInv /\ StageInv /\ AuthInv /\ AuthInv' /\ [Next]_vars
        => [Enforced!Next]_(Enforced!vars)
  <2> SUFFICES ASSUME Control, StoreInv, StageInv, AuthInv, AuthInv', [Next]_vars
               PROVE  Enforced!Next
    OBVIOUS
  <2>1. CASE Next
    BY <2>1, StepImplements
  <2>2. CASE UNCHANGED vars
    BY <2>2, NothingMoves DEF vars, store
  <2> QED BY <2>1, <2>2
<1> QED
  BY <1>1, <1>5, <1>7, <1>8, ControlAlways, StoreInvariant, PTL
     DEF Spec, ImplementsEnforcement, Enforced!Spec
=============================================================================
