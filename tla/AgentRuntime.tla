---------------------------- MODULE AgentRuntime ----------------------------
(***************************************************************************)
(* capguard/runtime.py: AgentRuntime.invoke_tool and report_usage, run by  *)
(* several threads at once over the approval store, the budget ledger, the *)
(* circuit breaker, the behaviour monitor and the audit sink.              *)
(*                                                                         *)
(* A thread walks the pipeline gate by gate.  Each step below ends where   *)
(* the code releases a lock or calls out (a tool, a human, a sink); gates  *)
(* that read nothing shared are decided together in PolicyGates.  What a   *)
(* gate decides for a request is a CONSTANT: the theorems hold for every   *)
(* policy, capability set and task scope.                                  *)
(***************************************************************************)
EXTENDS Integers, Sequences, FiniteSets

CONSTANTS
  Threads,
  Agents, Tools, Registered,        \* Registered: the tools the registry holds
  NoAgent,                          \* neither agent= nor default_agent
  Args, Digests, ArgsDigest,
  TokenIds, NoApproval,             \* approval_token values, NoApproval for None
  Requests,                         \* the calls clients may make
  ScopeAllows, ArgsAllowed,         \* requests the task scope / the granted capability admits
  Base,                             \* Policy.evaluate per agent and tool
  Effects,                          \* PolicyEngine.evaluate: possible effects per request
  BudgetKey,                        \* _budget_key
  Features,                         \* the optional parts this runtime was built with
  Faults,                           \* externals that may raise
  \* parameters of the parts
  Caps, NoCap, Window, NoWindow, Reports, Ttls, NoTtl, DefaultTtl, NoToken,
  Cooldown, NoTrip, MaxDenials,
  \* bounds, for model checking
  MaxTime, MaxInvocations

AllFeatures == {"breaker", "budget", "trip_on_budget", "store", "handler", "monitor"}
AllFaults == {"policy", "handler", "tool", "sink"}

ASSUME RuntimeAssumption ==
  /\ Features \subseteq AllFeatures /\ Faults \subseteq AllFaults
  /\ Registered \subseteq Tools
  /\ Requests \subseteq [agent : Agents \cup {NoAgent}, tool : Tools, args : Args,
                         token : TokenIds \cup {NoApproval}]
  /\ ScopeAllows \subseteq Requests /\ ArgsAllowed \subseteq Requests
  /\ Base \in [Agents \X Tools -> {"allow", "deny", "require_approval"}]
  /\ Effects \in [Requests -> SUBSET {"allow", "deny", "require_approval"}]
  /\ NoApproval \notin TokenIds /\ NoAgent \notin Agents
  /\ "handler" \notin TokenIds \cup {NoApproval}
  /\ Cooldown \in Nat /\ NoTrip \notin Int

LedgerKeys == {BudgetKey[a] : a \in Agents}

VARIABLES
  tokens, now, bound, verdicts, grants,  \* the approval store
  trippedAt,                             \* the circuit breaker
  totals, events, charged,               \* the budget ledger
  win,                                   \* the monitor's window per agent
  pc, call, then, found,                 \* per thread
  started,                               \* invocations and reports begun
  audit,                                 \* what the audit sink holds
  runs,                                  \* history: tool functions entered
  ended,                                 \* history: how invocations ended
  trips                                  \* history: times each breaker was tripped

store == <<tokens, bound, verdicts, grants>>
ledger == <<totals, events, charged>>
breaker == <<trippedAt, trips>>
thread == <<pc, call, then, found>>
history == <<started, runs, ended>>
vars == <<store, now, ledger, breaker, win, thread, history, audit>>

(* Nobody holds the runtime's tokens to write to them.                     *)
AS == INSTANCE ApprovalStore WITH AgentIds <- Agents, ToolNames <- Tools,
                                  MaxOverwritten <- 0, MaxGrants <- 0
BL == INSTANCE BudgetLedger WITH Keys <- LedgerKeys, Deltas <- Reports, MaxCharges <- MaxInvocations
CB == INSTANCE CircuitBreaker WITH Keys <- Agents \cup LedgerKeys
(* The runtime's monitor counts denials only; the other thresholds and the *)
(* window are those of BehaviorMonitor.                                    *)
AP == INSTANCE AnomalyPolicy WITH Window <- 0, MaxCalls <- 0, MaxSinks <- 0,
                                  SinkTools <- {}, Baseline <- {}, NoBaseline <- {}

(* The parts' assumptions.  The runtime issues tokens with no ttl, and     *)
(* report_usage charges tokens and dollars, never a call.                  *)
ASSUME StoreAssumption ==
  /\ ArgsDigest \in [Args -> Digests]
  /\ NoTtl \notin Int /\ DefaultTtl \in Int
  /\ NoTtl \in Ttls /\ Ttls \subseteq Int \cup {NoTtl}
  /\ NoToken \notin AS!Token \cup AS!Payload
  /\ MaxTime \in Nat
ASSUME LedgerAssumption ==
  /\ BL!BudgetAssumption
  /\ \A delta \in Reports : delta["calls"] = 0

Has(f) == f \in Features
MayRaise(x) == x \in Faults

NoCall == [inv |-> 0]
(* The local variables of an invocation: its number, the request, the      *)
(* audit event built so far, what let it past the approval step and the    *)
(* trips its agent had when it passed the kill switch.                     *)
NewCall(r) == [inv |-> started + 1, req |-> r, decision |-> "deny", error |-> "none",
               by |-> NoApproval, ran |-> FALSE, epoch |-> 0]

Event(c) == [inv |-> c.inv, agent |-> c.req.agent, tool |-> c.req.tool,
             decision |-> c.decision, error |-> c.error]

Agent(t) == call[t].req.agent
Key(t) == BudgetKey[Agent(t)]

Init ==
  /\ AS!Init
  /\ CB!Init
  /\ totals = [k \in LedgerKeys |-> BL!NoSpend]
  /\ events = [k \in LedgerKeys |-> << >>]
  /\ charged = [k \in LedgerKeys |-> << >>]
  /\ win = [a \in Agents |-> << >>]
  /\ pc = [t \in Threads |-> "idle"]
  /\ call = [t \in Threads |-> NoCall]
  /\ then = [t \in Threads |-> "none"]
  /\ found = [t \in Threads |-> {}]
  /\ started = 0
  /\ audit = << >>
  /\ runs = << >>
  /\ ended = {}
  /\ trips = [k \in Agents \cup LedgerKeys |-> 0]
-----------------------------------------------------------------------------
(* Moves of one thread. *)
At(t, label) == pc[t] = label

Continue(t, label, c) ==
  /\ pc' = [pc EXCEPT ![t] = label]
  /\ call' = [call EXCEPT ![t] = c]
  /\ UNCHANGED <<then, found>>

(* _emit, and what follows once the sink is done: "raise", "return" or the *)
(* budget gate's trip.  The monitor, when there is one, is the first sink; *)
(* it looks away from the breaker's own refusals.                          *)
Emit(t, c, next) ==
  /\ pc' = [pc EXCEPT ![t] = IF Has("monitor") /\ c.error # "circuit_breaker_open"
                             THEN "observe" ELSE "write"]
  /\ call' = [call EXCEPT ![t] = c]
  /\ then' = [then EXCEPT ![t] = next]
  /\ UNCHANGED found

(* Mutant: the event keeps no trace of the refusal. *)
RefuseUnmarked(t, error) == Emit(t, call[t], "raise")

Refuse(t, error) == Emit(t, [call[t] EXCEPT !.error = error], "raise")

(* Mutant: the call is not cleared. *)
LeaveDirty(t, how) ==
  /\ pc' = [pc EXCEPT ![t] = "idle"]
  /\ ended' = ended \cup {[inv |-> call[t].inv, how |-> how]}
  /\ UNCHANGED <<call, then, found>>

(* The invocation leaves invoke_tool. *)
Leave(t, how) ==
  /\ pc' = [pc EXCEPT ![t] = "idle"]
  /\ call' = [call EXCEPT ![t] = NoCall]
  /\ then' = [then EXCEPT ![t] = "none"]
  /\ found' = [found EXCEPT ![t] = {}]
  /\ ended' = ended \cup {[inv |-> call[t].inv, how |-> how]}

TripBreaker(k) ==
  /\ CB!Trip(k)
  /\ trips' = [trips EXCEPT ![k] = @ + 1]
-----------------------------------------------------------------------------
(* The call resolves its agent and tool.  Without an identity, or for an   *)
(* unknown tool, it raises at once.                                        *)
Resolves(r) == r.agent # NoAgent /\ r.tool \in Registered

Invoke(t, r) ==
  /\ At(t, "idle")
  /\ started < MaxInvocations
  /\ started' = started + 1
  /\ IF Resolves(r)
     THEN Continue(t, "breaker", NewCall(r)) /\ UNCHANGED ended
     ELSE /\ ended' = ended \cup {[inv |-> started + 1, how |-> "unresolved"]}
          /\ UNCHANGED thread
  /\ UNCHANGED <<store, now, ledger, breaker, win, audit, runs>>

(* Mutant: the breaker is asked under the ledger key. *)
BreakerKeyLedger(t) == Key(t)

(* 0. the kill switch, asked under the agent's id *)
BreakerKey(t) == Agent(t)

KillSwitch(t) ==
  /\ At(t, "breaker")
  /\ IF Has("breaker")
     THEN \E open \in BOOLEAN :
            /\ CB!IsOpen(BreakerKey(t), open)
            /\ IF open THEN Refuse(t, "circuit_breaker_open")
               ELSE Continue(t, "budget", [call[t] EXCEPT !.epoch = trips[Agent(t)]])
     ELSE Continue(t, "budget", call[t]) /\ UNCHANGED <<trippedAt, now>>
  /\ UNCHANGED <<store, ledger, trips, win, history, audit>>

(* 0.3 the budget pre-gate.  The refusal is audited before the breaker is  *)
(* tripped.                                                                *)
BudgetGate(t) ==
  /\ At(t, "budget")
  /\ IF Has("budget")
     THEN \E ok \in BOOLEAN :
            /\ BL!Check(Key(t), ok)
            /\ IF ok THEN Continue(t, "policy", call[t])
               ELSE Emit(t, [call[t] EXCEPT !.error = "budget_exceeded"],
                         IF Has("trip_on_budget") /\ Has("breaker")
                         THEN "budget_trip" ELSE "raise")
     ELSE Continue(t, "policy", call[t]) /\ UNCHANGED <<ledger, now>>
  /\ UNCHANGED <<store, breaker, win, history, audit>>

BudgetTrip(t) ==
  /\ At(t, "budget_trip")
  /\ TripBreaker(Agent(t))
  /\ Leave(t, "raised")
  /\ UNCHANGED <<store, ledger, win, started, runs, audit>>

(* Mutant: the DSL decides alone. *)
EffectiveDsl(base, effect) == effect

(* What the baseline and the DSL make of a request together: the DSL can   *)
(* turn an allow into an approval, and anything into a denial.             *)
Effective(base, effect) ==
  CASE base = "deny" \/ effect = "deny" -> "deny"
    [] effect = "require_approval" -> "require_approval"
    [] OTHER -> base

(* 0.5 task scope, 1. capability gate, 2. policy DSL.  A user predicate in *)
(* a rule may raise, which leaves invoke_tool with no event.               *)
PolicyGates(t) ==
  LET r == call[t].req
      base == Base[r.agent, r.tool]
  IN /\ At(t, "policy")
     /\ IF r \notin ScopeAllows THEN Refuse(t, "denied_by_task_scope") /\ UNCHANGED ended
        ELSE IF base = "deny" THEN Refuse(t, "denied_by_capability_policy") /\ UNCHANGED ended
        ELSE \/ \E effect \in Effects[r] :
                  /\ CASE Effective(base, effect) = "deny" ->
                            Refuse(t, "denied_by_policy_dsl")
                       [] Effective(base, effect) = "require_approval" ->
                            Continue(t, "approval",
                                     [call[t] EXCEPT !.decision = "require_approval"])
                       [] OTHER -> Continue(t, "arguments", call[t])
                  /\ UNCHANGED ended
             \/ MayRaise("policy") /\ Leave(t, "raised")
     /\ UNCHANGED <<store, now, ledger, breaker, win, started, runs, audit>>

(* 2a. the retry presents a token. *)
ReplaysToken(t) == call[t].req.token # NoApproval /\ Has("store")

ReplayApproval(t) ==
  LET r == call[t].req
  IN /\ At(t, "approval") /\ ReplaysToken(t)
     /\ IF r.token \in TokenIds /\ AS!Consumable(r.token, r.agent, r.tool, r.args)
        THEN /\ AS!Consume(r.token, r.agent, r.tool, r.args)
             /\ Continue(t, "arguments", [call[t] EXCEPT !.decision = "allow", !.by = r.token])
        ELSE /\ AS!Refuse(r.token, r.agent, r.tool, r.args)
             /\ Refuse(t, "invalid_or_mismatched_approval_token")
     /\ UNCHANGED <<ledger, breaker, win, history, audit>>

(* 2b. the inline handler asks a human.  It is user code and may raise.    *)
AsksHandler(t) == ~ReplaysToken(t) /\ Has("handler")

AskHandler(t) ==
  /\ At(t, "approval") /\ AsksHandler(t)
  /\ \/ /\ Continue(t, "arguments", [call[t] EXCEPT !.decision = "allow", !.by = "handler"])
        /\ UNCHANGED ended
     \/ Refuse(t, "denied_by_approval_handler") /\ UNCHANGED ended
     \/ MayRaise("handler") /\ Leave(t, "raised")
  /\ UNCHANGED <<store, now, ledger, breaker, win, started, runs, audit>>

(* 2c. otherwise the call pauses, leaving a pending token if there is a    *)
(* store to hold it.                                                       *)
Pause(t) ==
  LET r == call[t].req
  IN /\ At(t, "approval") /\ ~ReplaysToken(t) /\ ~Has("handler")
     /\ IF Has("store")
        THEN \E id \in TokenIds : AS!Issue(id, r.agent, r.tool, r.args, NoTtl, now)
        ELSE UNCHANGED <<store, now>>
     /\ Refuse(t, "require_approval_pending")
     /\ UNCHANGED <<ledger, breaker, win, history, audit>>

(* 3. argument enforcement *)
EnforceArguments(t) ==
  /\ At(t, "arguments")
  /\ IF call[t].req \in ArgsAllowed THEN Continue(t, "dispatch", call[t])
     ELSE Emit(t, [call[t] EXCEPT !.decision = "deny", !.error = "capability_violation"], "raise")
  /\ UNCHANGED <<store, now, ledger, breaker, win, history, audit>>

(* 4. the tool function is entered... *)
Dispatch(t) ==
  /\ At(t, "dispatch")
  /\ runs' = Append(runs, [inv |-> call[t].inv, req |-> call[t].req, by |-> call[t].by])
  /\ Continue(t, "running", [call[t] EXCEPT !.ran = TRUE])
  /\ UNCHANGED <<store, now, ledger, breaker, win, started, ended, audit>>

(* ...and returns, after which one call is charged, or raises, in which    *)
(* case nothing is.                                                        *)
ToolReturns(t) ==
  /\ At(t, "running")
  /\ IF Has("budget")
     THEN \E ok \in BOOLEAN :
            /\ BL!Charge(Key(t), BL!OneCall, ok)
            /\ IF ok THEN Emit(t, call[t], "return") ELSE Refuse(t, "BudgetExceeded")
     ELSE Emit(t, call[t], "return") /\ UNCHANGED <<ledger, now>>
  /\ UNCHANGED <<store, breaker, win, history, audit>>

ToolRaises(t) ==
  /\ At(t, "running") /\ MayRaise("tool")
  /\ Refuse(t, "tool_error")
  /\ UNCHANGED <<store, now, ledger, breaker, win, history, audit>>
-----------------------------------------------------------------------------
(* The sinks.  The monitor looks at the event under its lock... *)
Observe(t) ==
  LET seen == Append(win[Agent(t)], Event(call[t]))
  IN /\ At(t, "observe")
     /\ win' = [win EXCEPT ![Agent(t)] = seen]
     /\ found' = [found EXCEPT ![t] = AP!Anomalies(seen, Event(call[t]))]
     /\ pc' = [pc EXCEPT ![t] = IF found'[t] # {} /\ Has("breaker") THEN "trip" ELSE "write"]
     /\ UNCHANGED <<store, now, ledger, breaker, call, then, history, audit>>

(* ...trips the breaker after letting the lock go... *)
MonitorTrip(t) ==
  /\ At(t, "trip")
  /\ TripBreaker(Agent(t))
  /\ found' = [found EXCEPT ![t] = {}]
  /\ pc' = [pc EXCEPT ![t] = "write"]
  /\ UNCHANGED <<store, ledger, win, call, then, history, audit>>

(* ...and hands the event to the log. *)
Write(t) ==
  /\ At(t, "write")
  /\ audit' = Append(audit, Event(call[t]))
  /\ IF then[t] = "budget_trip"
     THEN pc' = [pc EXCEPT ![t] = "budget_trip"] /\ UNCHANGED <<call, then, found, ended>>
     ELSE Leave(t, IF then[t] = "return" THEN "returned" ELSE "raised")
  /\ UNCHANGED <<store, now, ledger, breaker, win, started, runs>>

(* A log that raises, before or after the event is on record.  On the way  *)
(* out of a successful call the handler around the dispatch catches it and *)
(* emits once more; anywhere else it replaces the error being raised.      *)
WriteFails(t) ==
  /\ At(t, "write") /\ MayRaise("sink")
  /\ \E kept \in BOOLEAN :
       audit' = IF kept THEN Append(audit, Event(call[t])) ELSE audit
  /\ IF then[t] = "return" THEN Refuse(t, "sink_error") /\ UNCHANGED ended
     ELSE Leave(t, "raised")
  /\ UNCHANGED <<store, now, ledger, breaker, win, started, runs>>
-----------------------------------------------------------------------------
(* report_usage: the application charges tokens or dollars it measured and *)
(* the breaker is tripped, under the ledger key, if a ceiling is breached. *)
ReportUsage(t, agent, delta) ==
  /\ At(t, "idle") /\ Has("budget")
  /\ started < MaxInvocations
  /\ started' = started + 1
  /\ \E ok \in BOOLEAN :
       /\ BL!Charge(BudgetKey[agent], delta, ok)
       /\ IF ~ok /\ Has("trip_on_budget") /\ Has("breaker")
          THEN Continue(t, "report_trip", [inv |-> 0, req |-> [agent |-> agent]])
          ELSE UNCHANGED thread
  /\ UNCHANGED <<store, breaker, win, runs, ended, audit>>

ReportTrip(t) ==
  /\ At(t, "report_trip")
  /\ TripBreaker(Key(t))
  /\ Continue(t, "idle", NoCall)
  /\ UNCHANGED <<store, ledger, win, history, audit>>

(* Operators, on their own threads. *)
Review(id) ==
  /\ Has("store")
  /\ AS!Approve(id) \/ AS!Reject(id)
  /\ UNCHANGED <<ledger, breaker, win, thread, history, audit>>

ResetBreaker(a) ==
  /\ Has("breaker") /\ CB!Tripped(a) /\ CB!Reset(a)
  /\ UNCHANGED <<store, ledger, trips, win, thread, history, audit>>

ResetBudget(k) ==
  /\ Has("budget") /\ charged[k] # << >> /\ BL!Reset(k)
  /\ UNCHANGED <<store, breaker, win, thread, history, audit>>

Tick ==
  /\ now < MaxTime
  /\ now' = now + 1
  /\ UNCHANGED <<store, ledger, breaker, win, thread, history, audit>>
-----------------------------------------------------------------------------
Step(t) ==
  \/ KillSwitch(t) \/ BudgetGate(t) \/ BudgetTrip(t) \/ PolicyGates(t)
  \/ ReplayApproval(t) \/ AskHandler(t) \/ Pause(t)
  \/ EnforceArguments(t) \/ Dispatch(t) \/ ToolReturns(t) \/ ToolRaises(t)
  \/ Observe(t) \/ MonitorTrip(t) \/ Write(t) \/ WriteFails(t)
  \/ ReportTrip(t)

Next ==
  \/ \E t \in Threads :
       \/ Step(t)
       \/ \E r \in Requests : Invoke(t, r)
       \/ \E a \in Agents, delta \in Reports : ReportUsage(t, a, delta)
  \/ \E id \in TokenIds : Review(id)
  \/ \E a \in Agents : ResetBreaker(a)
  \/ \E k \in LedgerKeys : ResetBudget(k)
  \/ Tick

(* A thread inside the pipeline is scheduled: locks are held briefly, and  *)
(* tools, handlers and sinks are assumed to return or raise.               *)
Fairness == \A t \in Threads : WF_vars(Step(t))

Spec == Init /\ [][Next]_vars /\ Fairness
-----------------------------------------------------------------------------
Labels == {"idle", "breaker", "budget", "policy", "approval", "arguments", "dispatch",
           "running", "observe", "trip", "write", "budget_trip", "report_trip"}
Decisions == {"allow", "deny", "require_approval"}
Errors == {"none", "circuit_breaker_open", "budget_exceeded", "denied_by_task_scope",
           "denied_by_capability_policy", "denied_by_policy_dsl",
           "invalid_or_mismatched_approval_token", "denied_by_approval_handler",
           "require_approval_pending", "capability_violation", "BudgetExceeded",
           "tool_error", "sink_error"}
Approvals == TokenIds \cup {NoApproval, "handler"}
Invocation == [inv : Nat, req : Requests, decision : Decisions, error : Errors,
               by : Approvals, ran : BOOLEAN, epoch : Nat]
Report == [inv : {0}, req : [agent : Agents]]
AuditEvent == [inv : Nat, agent : Agents, tool : Tools, decision : Decisions, error : Errors]
Run == [inv : Nat, req : Requests, by : Approvals]

TypeOK ==
  /\ AS!TypeOK /\ BL!TypeOK /\ CB!TypeOK
  /\ win \in [Agents -> Seq(AuditEvent)]
  /\ pc \in [Threads -> Labels]
  /\ \A t \in Threads :
       CASE pc[t] = "idle" -> call[t] = NoCall
         [] pc[t] = "report_trip" -> call[t] \in Report
         [] OTHER -> call[t] \in Invocation
  /\ then \in [Threads -> {"none", "raise", "return", "budget_trip"}]
  /\ found \in [Threads -> SUBSET AP!Kinds]
  /\ started \in Nat
  /\ audit \in Seq(AuditEvent)
  /\ runs \in Seq(Run)
  /\ ended \subseteq [inv : Nat, how : {"unresolved", "raised", "returned"}]
  /\ trips \in [Agents \cup LedgerKeys -> Nat]
-----------------------------------------------------------------------------
(* What the configuration says of a request: whether task scope, baseline  *)
(* and DSL may let it through, and whether they may without a human.       *)
Admissible(r) ==
  /\ Resolves(r)
  /\ r \in ScopeAllows
  /\ Base[r.agent, r.tool] # "deny"
  /\ Effects[r] # {"deny"}
NeedsHuman(r) ==
  \/ Base[r.agent, r.tool] = "require_approval"
  \/ "allow" \notin Effects[r]

(* A tool function is entered only for a call every gate admits.  Where a  *)
(* human must decide, one did: the inline handler said yes, or an operator *)
(* approved the token for this agent, tool and argument digest; and one    *)
(* approval lets one call through, however many threads retry with it.     *)
RunAuthorized ==
  \A i \in DOMAIN runs :
    LET run == runs[i]
        r == run.req
    IN /\ Admissible(r) /\ r \in ArgsAllowed
       /\ run.by = NoApproval => ~NeedsHuman(r)
       /\ run.by \in TokenIds =>
            /\ verdicts[run.by] = {"approved"}
            /\ bound[run.by].agent_id = r.agent
            /\ bound[run.by].tool_name = r.tool
            /\ bound[run.by].args_digest = ArgsDigest[r.args]
            /\ \A j \in DOMAIN runs : runs[j].by = run.by => j = i

(* The converse, without which approving would be pointless: a retry with  *)
(* the approved call, in time and for the first time, is let through.      *)
Redeemable(r) ==
  /\ r.token \in TokenIds
  /\ verdicts[r.token] = {"approved"}
  /\ bound[r.token].agent_id = r.agent
  /\ bound[r.token].tool_name = r.tool
  /\ bound[r.token].args_digest = ArgsDigest[r.args]
  /\ now < bound[r.token].expires_at
  /\ \A i \in DOMAIN grants : grants[i].id # r.token
RetryHonoured ==
  [][\A t \in Threads :
       (At(t, "approval") /\ ReplaysToken(t) /\ pc'[t] # pc[t] /\ Redeemable(call[t].req))
         => pc'[t] = "arguments"]_vars

EventsOf(n) == {i \in DOMAIN audit : audit[i].inv = n}
RunsOf(n) == {i \in DOMAIN runs : runs[i].inv = n}

(* The log says what happened: an event without an error is a call whose   *)
(* tool ran once and whose result was returned; one with a refusal is a    *)
(* call whose tool never ran.                                              *)
AuditTruthful ==
  \A i \in DOMAIN audit :
    LET e == audit[i]
    IN /\ e.error = "none" => /\ Cardinality(RunsOf(e.inv)) = 1
                              /\ [inv |-> e.inv, how |-> "returned"] \in ended
       /\ e.error \notin {"none", "tool_error", "BudgetExceeded"} => RunsOf(e.inv) = {}
       /\ e.error # "none" => [inv |-> e.inv, how |-> "returned"] \notin ended

(* No call leaves two events, and none that ran its tool leaves without    *)
(* one, whatever raises outside the sink.                                  *)
AuditComplete ==
  \A e \in ended :
    /\ Cardinality(EventsOf(e.inv)) <= 1
    /\ RunsOf(e.inv) # {} => EventsOf(e.inv) # {}

(* The log is the record of what ran: nothing is misreported, reported     *)
(* twice or left out.                                                      *)
AuditExact == AuditTruthful /\ AuditComplete

(* Every run of a tool was cleared by whom the call needed, and is told as *)
(* it was.                                                                 *)
RunsAccounted == RunAuthorized /\ AuditTruthful

(* The ceiling holds up to the calls that were in flight together: check   *)
(* and charge are apart, so each other thread can slip one call past.      *)
OverrunBound ==
  \A k \in LedgerKeys :
    Caps["calls"] # NoCap => BL!Current(k)["calls"] <= Caps["calls"] + Cardinality(Threads) - 1

(* What gates and reports charge from their threads adds up: the ledger    *)
(* holds every charge since the last reset, those that raised included.    *)
LedgerExact == BL!SpendExact

(* What has been spent is known, and bounded.                              *)
SpendBounded == OverrunBound /\ LedgerExact

PastKillSwitch == Labels \ {"idle", "breaker", "observe", "trip", "write", "report_trip"}

(* A tripped breaker fails closed every subsequent call: a thread found    *)
(* inside the pipeline while the breaker is open passed the kill switch    *)
(* before the breaker was last tripped.                                    *)
HaltRespected ==
  \A t \in Threads :
    (Has("breaker") /\ pc[t] \in PastKillSwitch /\ CB!Open(Agent(t)))
      => call[t].epoch < trips[Agent(t)]

(* "A run of denials => probing": an agent whose every call ran and        *)
(* returned is not halted.                                                 *)
BenignNotHalted ==
  \A a \in Agents :
    (\A i \in DOMAIN win[a] : win[a][i].error = "none") => ~CB!Tripped(a)

(* "Trip the circuit breaker so the whole agent fails closed": once a      *)
(* reported overspend has tripped the breaker the agent is halted.         *)
OverspendHaltsAgent ==
  [][\A t \in Threads, a \in Agents :
       (At(t, "report_trip") /\ Agent(t) = a /\ pc'[t] # pc[t])
         => trippedAt'[a] # NoTrip]_vars
-----------------------------------------------------------------------------
(* The pipeline implements Enforcement.  A thread in a sink is reporting;  *)
(* whether its tool ran decides what it still owes.                        *)
Phase(t) ==
  CASE pc[t] \in {"idle", "report_trip", "budget_trip"} -> "idle"
    [] pc[t] = "breaker" -> "received"
    [] pc[t] \in {"budget", "policy", "approval"} -> "admitted"
    [] pc[t] \in {"arguments", "dispatch"} -> "cleared"
    [] pc[t] = "running" -> "ran"
    [] OTHER -> IF call[t].ran THEN "ran" ELSE "reporting"

Basis(by) ==
  CASE by = NoApproval -> "none" [] by = "handler" -> "human" [] OTHER -> "approval"

Enforced ==
  INSTANCE Enforcement WITH
    AgentOf <- [r \in Requests |-> r.agent],
    Unattended <- {r \in Requests : Admissible(r) /\ ~NeedsHuman(r)},
    Attended <- {r \in Requests : Admissible(r)},
    WithinGrant <- ArgsAllowed,
    phase <- [t \in Threads |-> Phase(t)],
    request <- [t \in Threads |-> IF Phase(t) = "idle" THEN {} ELSE {call[t].req}],
    basis <- [t \in Threads |-> IF Phase(t) = "idle" THEN "none" ELSE Basis(call[t].by)],
    halted <- {a \in Agents : CB!Open(a)},
    approved <- {id \in TokenIds : verdicts[id] = {"approved"}},
    spent <- {grants[i].id : i \in DOMAIN grants}

(* Whatever the interleaving of threads, operators and clocks, the         *)
(* pipeline keeps the promises of Enforcement.                             *)
ImplementsEnforcement == Enforced!Spec
=============================================================================
