# CapGuard in TLA+

A verification project for CapGuard (`src/`, Python): the runtime that stands
between an LLM agent and its tools. It holds TLA+ modules translated from the
source, TLC configurations that check them on small instances, and theorems
proved with TLAPS for every value of the constants.

Contents: 1 the system · 2 the modules and how they correspond to the code ·
3 the runs · 4 fairness · 5 abstractions · 6 proofs · 7 findings · 8 what is
not modelled · 9 what remains.

## 1. The system

An agent's tool call enters `AgentRuntime.invoke_tool`
(`src/capguard/runtime.py`) and passes a fixed sequence of gates; each may
refuse, and whatever happens is reported to the audit sink:

    kill switch -> budget -> task scope -> capabilities -> policy DSL
      -> human approval -> arguments -> tool function -> charge -> audit

The runtime has no lock of its own. A server runs many calls at once on many
threads; the parts it shares each take a lock for one operation, and nothing is
held from one gate to the next. Operators decide approvals, clear breakers and
reset budgets from other threads.

Around the runtime stand the parts that decide and the parts that connect. Those
that decide: identities and scopes say what an agent may do, the policy engine
and the labels of data what a call may do, policy sync brings the rules. Those
that connect: the MCP gateway, with its HTTP server and stdio client, stands
between clients and downstream tool servers; a channel carries messages between
agents; Aegis and `AgentGuard` turn functions into guarded tools; the sandbox
runs commands.

| Component | State | Operations | Correct when | Here |
|---|---|---|---|---|
| Approval store (`approval.py`) | tokens by id: bound fields, signature, status | issue, approve, reject, verify_and_consume | an approval lets one call through, the one reviewed, in time; refused retries do not spend it | modelled, proved |
| Budget ledger (`budget.py`) | running totals, or timed charges per key | check, charge, spend, reset | what a gate sees is what was charged; the ceiling is overrun by the calls in flight at most | modelled, proved |
| Circuit breaker (`monitor.py`) | trip time per key | trip, is_open, reset | a tripped agent makes no call until the cooldown or a reset | modelled |
| Behaviour monitor (`monitor.py`) | window of events per agent | observe, detect, trip, hook | no event missed, every anomaly halts, no agent halted by others' or old calls | modelled; that none is missed and each judged exactly proved |
| Agent runtime (`runtime.py`) | the invocation in progress | invoke_tool, report_usage | no gate is skipped in any interleaving; the log tells what happened | modelled over the four parts above; what the other gates decide is a constant; safety and refinement proved |
| Audit trail (`audit.py`), control plane (`capguard_cloud/store.py`) | file, chain heads, tenant log, drops, policy versions | sinks, recovery, ingest, verify; push, fetch | the local log verifies; the mirror knows nothing it lacks; what is missing is counted | modelled but for dashboards and API keys; log and mirror proved |
| Capability model (`core.py`) | capabilities per agent | covers, evaluate, enforce, attenuate | enforcement follows covering, attenuation only narrows | modelled, as operators, but for symbolic links; proved |
| Identity (`identity.py`) | signed delegation chains | issue, delegate, verify | a child has no more authority and lives no longer than its root | modelled, proved |
| Task scope (`taskscope.py`) | grants, expiry | issue, verify, check_call | a scope only narrows, and is the one issued | modelled, proved |
| Policy DSL, rate limiter (`policy_dsl.py`), packs (`packs.py`) | rules, timestamps per key | evaluate, over_limit, add, compile | the most restrictive rule wins in any order, rules added meanwhile included; a limit holds under threads | modelled but for YAML and built-in packs; proved |
| Provenance, memory (`provenance.py`, `memory.py`) | labels per value; items of memory | observe, check, guarded read and write | integrity only falls, confidentiality only rises; no tainted value reaches a sink unnoticed | modelled, proved |
| Flow reconstruction (`audit_graph.py`) | none | build, tainted, upstream | every tainted path is found in the log | modelled, proved |
| Detectors (`detectors.py`) | none | scan | – | what the runtime does with their signals; the patterns are text |
| Agent-to-agent channel (`a2a.py`) | nonces seen | send, verify | a message is accepted at most once, as it was sent | modelled, proved |
| MCP guard (`mcp_guard.py`), registry (`registry.py`) | definitions, pins, quarantine, tools | register_server, approve_change, guard_call | no call reaches a definition nobody vetted | modelled, proved |
| MCP proxy, stdio client (`mcp_proxy.py`) | exposed names; pipes | refresh, tools/list, tools/call; call | what is listed can be called; no call gets another's answer | modelled but for `HttpDownstream` and the server loop; proved |
| MCP HTTP server (`mcp_http.py`), authentication (`mcp_auth.py`) | settings; two key tables | do_POST, verify, refresh | a request is handled under a genuine token only; a withdrawn key soon ends | modelled but for encoding, minting, the metadata document; proved |
| Policy sync (`policy_sync.py`) | none of its own; the engine the application installs | fetch, verify | what is in force was signed, whole and under its version; one answer of the control plane undoes a replay | modelled, proved |
| Aegis (`src/aegis/core.py`) | hubs, default hub | guard, call, observe, configure, reset | guarded functions stay callable, within what was declared | modelled but for views, `report_usage`, `wrap`; proved |
| Framework adapters (`adapters.py`) | guards, guarded tools, marks | tool, wrap, protect, observe | a facade grants what its tools need and no more | `AgentGuard` and `CapGuard` modelled, proved |
| Execution sandbox (`sandbox.py`) | a tree of processes | run; shell and python tools | a timeout leaves no process behind; output is of a command that succeeded | modelled, proved |
| CLI, network checks, benchmarks | – | – | – | not modelled (section 8) |

What is hard, and where: calls that pass a gate together and act on the same balance or
token (`approval.py:139`, `runtime.py:224`); locks released between reading and acting
(`monitor.py:138`, `:147`); token objects shared with callers (`approval.py:143`); user
code that raises in the middle of the pipeline (`runtime.py:298`); a sink that raises on
the way out (`runtime.py:339`); processes that die between two writes and requests that
arrive after they were given up (`audit.py:63`, `:161`); dictionaries rewritten by a
refresh while requests walk over them (`mcp_guard.py:310`, `mcp_proxy.py:206`); rules
added to the list an evaluation walks (`policy_dsl.py:306`); a label read, joined and
written without a lock (`provenance.py:187`); three clock readings in one verification
(`a2a.py:168`); two key tables replaced one after the other (`mcp_auth.py`); a hub shared
by every decorated function (`core.py:324`); processes that outlive the run that started
them (`sandbox.py`). `PROJECT.json` lists every hazard with the properties aimed at it.

## 2. Modules

| Module | Models | Uses |
|---|---|---|
| `ApprovalStore` | `approval.py` | |
| `BudgetLedger` | `budget.py` | |
| `CircuitBreaker` | `CircuitBreaker` of `monitor.py` | |
| `AnomalyPolicy` | pruning and detection of `monitor.py`, as operators | |
| `BehaviorMonitor` | the monitor as an audit sink of several threads | `AnomalyPolicy`, `CircuitBreaker` |
| `AgentRuntime` | `runtime.py` | `ApprovalStore`, `BudgetLedger`, `CircuitBreaker`, `AnomalyPolicy` |
| `Enforcement` | the abstract promise of the runtime | implemented by `AgentRuntime` |
| `AuditTrail` | `audit.py` and the ingest of `capguard_cloud` | |
| `Capability` | covering, enforcement and baseline policy of `core.py`, as operators | |
| `Delegation` | `identity.py`, `taskscope.py` and the calls made under them | `Capability` |
| `A2AChannel` | `a2a.py` | `Capability` |
| `Labels` | the lattice of `provenance.py`, as operators | |
| `Predicates` | rules and conditions of `policy_dsl.py` and `packs.py`, as operators | `Labels` |
| `PolicyEngine` | evaluation by several threads, and the rate limiter | `Predicates` |
| `PolicySync` | `policy_sync.py` and the policy store of `capguard_cloud` | `Predicates` |
| `FlowGraph` | `audit_graph.py`, as operators | |
| `DataFlow` | tracker, memory and detectors around calls | `Predicates`, `FlowGraph` |
| `Gateway` | `mcp_guard.py`, `registry.py`, `MCPProxy` | |
| `StdioTransport` | `StdioDownstream` of `mcp_proxy.py` | |
| `ResourceServer` | `mcp_http.py`, `JWKSVerifier` and claims of `mcp_auth.py` | |
| `Aegis` | `aegis/core.py` | `Capability` |
| `AgentGuard` | `adapters.py` | `Capability` |
| `Sandbox` | `sandbox.py` | |
| `Windows` | the parts that remember for a time, side by side | `A2AChannel`, `BehaviorMonitor`, `BudgetLedger` |
| `Authority` | the parts that decide what a call may do, side by side | `Delegation`, `Aegis`, `DataFlow`, `PolicyEngine`, `PolicySync`, `AgentGuard` |
| `Boundary` | the edges, side by side | `Gateway`, `ResourceServer`, `StdioTransport`, `AuditTrail`, `Sandbox` |
| `MCApprovalStore`, `MCAgentRuntime`, `MCAuditTrail`, `MCA2A`, `MCAegis` | small instances of one module each | |
| `MCWindows`, `MCAuthority`, `MCBoundary` | small instances of the three above | see section 3 |
| `ApprovalStore_proofs`, `BudgetLedger_proofs`, `ResourceServer_proofs` | theorems about one module each | |
| `AgentRuntime_proofs` | theorems about the runtime | instances of the proofs of store and ledger |
| `Rules_proofs` | theorems about `PolicySync`, `PolicyEngine`, `DataFlow`, as instances in `Authority` | |
| `Authority_proofs` | theorems about `Capability`, `Delegation`, `Aegis`, `AgentGuard`, `Authority` | extends `Rules_proofs` |
| `Windows_proofs` | theorems about `A2AChannel`, `BehaviorMonitor`, `Windows` | an instance of the proofs of the ledger |
| `Boundary_proofs` | theorems about `Gateway`, `Sandbox`, `StdioTransport`, `AuditTrail`, `Boundary` | an instance of the proofs of the server |

**One action per critical section.** Every operation of the store, the ledger
and the breaker holds its lock from beginning to end, so it is one action, with
the exception of what the code reads before the lock: `issue` computes the
expiry first, hence its parameter `at \in 0..now`; the monitor stamps its event
first, hence `Emit` and `Observe` are two actions. Where the code acts after the
lock is released (the monitor's trips) there is an action for that too.

**ApprovalStore.** `tokens` is `_tokens`; `Issue`, `Approve`, `Reject`,
`Consume` and `Refuse` are the operations, the last two being
`verify_and_consume` answering True and False. `Refuse` carries the side effect
of the code: an expired token is marked whoever presents it. Callers may write to a
token object they got from the store: `Rewrite` to the fields the signature
covers, `Overwrite` to the status, which it does not. `bound`, `verdicts`
and `grants` are history: what was bound at issue, what operators decided (or that
the status was overwritten), which calls were let through. The properties relate them.

**BudgetLedger.** `totals` and `events` are `_totals` and `_events`; the pruning
loop, which stops at the first entry still inside, is `Pruned`, and reading
prunes, as in the code. `charged` is the history the spend is compared with.

**BehaviorMonitor.** `win` is `_win`. A thread goes `idle`, `observe` (stamped,
waiting for the lock), `trip` (anomalies found, lock released). `emitted` is the
history from which a sliding window is defined.

**AgentRuntime.** `pc[t]` is the gate the thread of an invocation is at, `call[t]`
its local variables: the request, the audit event built so far, the approval
that let it past. Gates that read nothing shared are taken together
(`PolicyGates`); every gate that touches shared state, calls out or audits is a
step of its own. What task scope, capabilities, argument enforcement and DSL
decide is given by constants (`ScopeAllows`, `Base`, `ArgsAllowed`, `Effects`),
the last one as a set, because a rate limit makes a rule's effect vary. `Emit`
hands the event to the sink: the monitor first if there is one (`Observe`,
`MonitorTrip`), then the log (`Write`, or `WriteFails` when it raises). `then[t]`
remembers what follows: re-raise, return, or trip the breaker.

**Enforcement.** What the runtime promises, with no word on tokens' life, ledgers or
sinks: no tool runs for a call that was not cleared; a call is cleared because it needs no
human or by a human, whose approval clears one call; a halted agent's calls are not
admitted; a call that ran is reported before its thread turns to another. The refinement
mapping is at the end of `AgentRuntime`: the phase of a thread is computed from `pc`, an
approval is `approved` when an operator decided so and `spent` when the store granted a
call on it, what cleared a call (`basis`) is what let it past the approval step, and an
agent is halted when its breaker is open.

**AuditTrail.** A thread takes its event to the file sink, then to the mirror
(the order of `cli.py` 165-174 and of the README's example). Each sink seals
under its own lock; the mirror posts after releasing it. Faults are a constant:
`"disk"` (a write raises after the head moved), `"network"` (a request fails or
times out, and may still arrive), `"crash"` (the process restarts; the file
sink recovers its head, the mirror begins at GENESIS).

**Capability, Delegation.** A path is a sequence of components; what a domain entry
admits is a constant. `covers` and `enforce` are operators over them, with the
fields the code compares. An assertion is its claims and a signature, which is the
signed claims; copies of it travel and may be changed (`Alter`). Checks that fail
change nothing and are no steps. `acts` records the calls that were let through
and the identity they were made under; the properties compare them with the root.

**A2AChannel.** `verify` reads the clock three times and is four steps: expiry, time
to remember, the nonce store's own reading before its lock, and pruning with
consumption under it. `era` lets a sender lose authority between sending and
verification. Messages are altered, replayed and kept back.

**Predicates, PolicyEngine, PolicySync.** A condition is the record a pack spells it with,
and means what the first key says that `_compile_predicate` tests for (`Kind`). Conditions
nest, so `Holds` and `Compiles` are recursive functions over the constant `Conditions`,
the conditions that occur and what they are made of. The loop over the rules is one step
per rule, because other threads append rules to the list it walks (`Add`) and count hits
in between; the limiter is two, as its clock is read before its lock. An evaluation keeps
the engine it began with when another is installed (`Install`), which is built with a list
of rules and a default effect. `PolicySync` has operators pushing packs to tenants, a
guard that fetches, and a network that answers with any pack ever signed, for any tenant,
altered or not. `current` and `signers` are history: whether an answer is the control
plane's, and whose pack it is.

**Labels, DataFlow, FlowGraph.** An invocation passes the gate with the labels of its
arguments, runs, and labels its result (`observe` as its read and its write). `truth`
is what flowed into a value, kept without losses; `raced` names the values one of
whose labels was overwritten by a concurrent `observe`. `FlowGraph` is evaluated on
the log that `DataFlow` writes.

**Gateway.** One thread refreshes, one approves, others list and call; every access to a
shared dictionary that another thread may come between is a step, exceptions of
a dictionary changed while it is walked included. Servers change what they list at
any time. `vetted` is what was pinned on first sight or approved. The refusal of a
quarantined tool reads the quarantine again for its reason (`SayWhy`).

**StdioTransport, ResourceServer.** A call takes the lock, counts an id, reads it back,
sends and reads lines until one bears it. What the server has read and not answered is
a set: it answers in any order, and it may write lines of its own with any id. Every
message carries the call it belongs to, which only the history sees. A
caller that gave up leaves its answer for the next one to skip. The two key tables of
`JWKSVerifier` are read without the lock its refresh holds, one after the other;
`installs` remembers which key sets a refresh put in place and when.

**Aegis, AgentGuard.** A guarded function is a name in a hub, whose lock covers `guard`
only; a call reads capabilities and registry without it. `AgentGuard` has no lock and
its operations are one step each; when one raises, what it had already changed stays.

**Sandbox.** The command is a tree of processes that fork, leave the group, let go of
the output and end on their own; the run waits for the output, times out, kills the
group and waits again. `Start` has the errors of starting a program: a missing command is
a `SandboxError`, a missing `docker` what `subprocess.run` raises.

**Mutants.** An operator whose comment begins with "Mutant:" is not part of the
specification. It is its neighbour with a plausible bug (a dropped test, an
off-by-one, a swapped key); substituting it must break the property `PROJECT.json`
names for it. That shows each property depends on the code it is about.

## 3. Runs

`MCApprovals`, `MCBreaker`, `MCWindows`, `MCAuthority` and `MCBoundary` take one to
four minutes each, the others seconds.

The last three of those check parts that share no state (`Windows`, `Authority`,
`Boundary`). Their initial state
chooses a `part`, whose actions alone are taken afterwards while the variables of
the others stay as they are: the run is the disjoint union of the runs of its parts,
and a property of a part is checked over all behaviours of that part. `MCInit` of
`MCAuthority` starts the parts that do not run in one state only.

| Run | Question | Instance, and why it is enough |
|---|---|---|
| `MCApprovalStore` | Can retries, operators, writers to tokens and time together get a call through that nobody approved, or lose an approval? | Two tokens, agents and digests; two arguments share a digest; TTLs None and 0, both the default of 1, with a clock to 1 and tokens stamped before they enter the table, so they expire before, between and after decisions. Signed fields are written without bound, the status of one token while at most one call was let through, so that the other token shows what does not depend on it. A violation needs at most two tokens or two presentations of one. |
| `MCApprovals` | Does the whole pipeline run a tool once per approval, for the reviewed call only, and honour every rightful retry? | Two threads, two tokens, four calls: pause, approve, then two retries at once, by the right and the wrong agent, with the right and the wrong arguments, before and after expiry. Checks the refinement of `Enforcement` on the token path, `MCGates` on the handler path. |
| `MCGates` | Do all gates, and everything that may raise in them, implement `Enforcement` and tell the truth in the log? | Requests that are refused at each gate once, an inline handler, predicates, handlers and tools that raise, two threads. |
| `MCBreaker` | How far is a ceiling overrun, does the kill switch hold, and is `Enforcement` still implemented, when budget, monitor and usage reports halt the agent under calls in flight and the sink raises? | Two threads share a cumulative ledger (cap one call and one token), denial threshold 1, a breaker with a cooldown and operator resets; three invocations or reports, so that one could overrun past the two in flight. The sink fails visibly in one invocation (`OneTroubled`): a second one would only repeat what it does to the log. |
| `MCWindows` | Is what is remembered for a time complete and no more: anomalies, spend, nonces? | Monitor: two threads, three events, two tools that are both sinks and one novel, thresholds 2 calls, 2 refusals, 1 sink, clock to 2, so the window fills and slides while a thread waits with an old stamp. Ledger: two keys, charges inside, at the edge of and outside window 1. Channel: two threads verify one message and its forgeries, on time, late and after the nonce was pruned. |
| `MCAuthority` | Does what may be done only narrow, whatever is delegated, altered, mixed, stored, reconfigured or shared? | Delegation: one root with a delegate of it and a scope, or with two delegates, copies altered at every field. Flow: a web page, a secret, a note; two threads, three operations; memory in both modes. Engine: a review and a rate limit, a denial that is added while two threads evaluate, a second engine installed under them, two default effects, a clock that reaches the end of the limit's window; the conditions use every combinator. Sync: two tenants with two pushes each, a pack that does not compile, three fetches, each of which may get the answer, a replay, the other tenant's pack or an altered one. Hub and guards: narrow and wide declarations, two hubs, two guards of one runtime. |
| `MCBoundary` | Do the edges hold when the other side misbehaves? | Gateway: two servers, one of which changes its tool, for a clean or a poisoned definition, under two refreshes, an approval and a request; or, alone, changes it twice under three refreshes, back to what it was included (`Bounds` lists the two mixes). HTTP: two handler threads, a rotation, failing fetches. Stdio: two callers in two calls that give up after two lines, answers in any order, two lines of the server's own or garbled, exit. Audit: two threads, three events, one restart, failing disk and network. Sandbox: a command and two children under each backend. |
| `MCBenign`, `MCSessionKey`, `MCAuditRestart`, `MCSingleUse`, `MCDeclared` | The disagreements of section 7. | The smallest instance that shows each. |

What the properties say, composites with their parts:

- **`MCApprovalStore`.** `SpentOnOneCall` (`SingleUse`, `NoApprovalLost`),
  `GrantAuthorized`, `VerdictFinal`: a call let through is the one bound at issue, before
  expiry, whatever was written to the shared object. Unless the status was among
  that, which no signature covers, it was approved and not rejected; an approval is
  consumed at most once, and never without a call let through; and the first verdict is
  the last.
- **`MCApprovals`, `MCGates`.** `RunsAccounted` (`RunAuthorized`, `AuditTruthful`),
  `RetryHonoured`: no tool runs past a gate, and a rightful retry is let through.
  `AuditExact` (`AuditTruthful`, `AuditComplete`): an event without an error is a call
  that ran once and returned, a refusal one that never ran, and no call that ran
  goes unlogged. `ImplementsEnforcement`: the refinement.
- **`MCBreaker`.** `SpendBounded` (`OverrunBound`, `LedgerExact`): check and charge are
  apart, so calls in flight together slip past the ceiling, one per other thread and
  no more; what threads charge adds up. `HaltRespected`: a call found inside the
  pipeline while the breaker is open passed the kill switch before the last trip.
- **`MCWindows`.** `WindowComplete`: whatever the order of threads, the window holds every
  event that counts now but those whose thread waits for the lock. `DetectionExact`: an
  event that joins in order, while no other of its agent waits, is judged by exactly what
  a sliding window holds. `AnomalyHalts`: a thread that found an anomaly halts the agent,
  even if the hook raises. `SpendExact`: the lazily pruned spend equals its definition
  over the history. `ChargesStand` (`NoRefund`, `CheckAgreesWithCharge`): nothing but time
  and reset gives budget back, and the probe of `check` refuses exactly the call whose
  charge would raise. `AcceptedOnceAsSent` (`OnceInLife`, `AcceptedAsSent`): a message is
  accepted once while it lives, and as its sender signed it.
- **`MCAuthority`.** `WithinRoot` (`ActsWithinRoot`, `NothingOutlivesRoot`,
  `ScopeAsIssued`): every resource a call reaches is one the root was granted, before the
  root expired, under a scope that was issued. `TaintKept`, `NoTaintedCall`, `FlowsFound`:
  the taint that flowed into a value stays on it through any chain of calls and memory, no
  call passes a rule for the data it really carries, and the log shows every such flow;
  all but for values whose labels two threads wrote at once. `DenyOverrides`: a verdict
  has seen every rule there was when it began, is as restrictive as every rule that fires
  of those it has seen, those added on the way included, and as the default, and names a
  rule that asked for it. `RateBounded`: of the calls that pass a rate limit in a window
  of its length, those that read the clock inside the window are at most `max_calls`,
  those that read it before at most one per thread. `PoliciesAsPublished` (`OnlySigned`,
  `FetchHeals`, `VersionNamesPack`): what a guard runs is a whole pack that was signed for
  some tenant, under its version; the client compares neither tenant nor version, so that
  may be a replay or another tenant's, but a fetch that gets the control plane's answer
  puts a pack of the guard's own tenant in force, no older than any of them it ran.
  `HubKeepsScope` (`OneDefault`, `GuardedNamesWork`, `BoundedByHub`): threads agree on the
  default hub, guarded functions stay callable, and an argument beyond a tool's own
  declaration is within another of the hub. `GuardsAgree` (`AuthorityAccounted`,
  `ProtectedCallable`, `MarksSeen`): the same questions for guards that share a runtime.
- **`MCBoundary`.** `OnlyVettedRuns` (`RunsAsVetted`, `PoisonNeverRuns`): no rug pull.
  `ExposedServed` (`ExposedCallable`, `CalmCallsAnswered`): what is listed can be called
  once refreshes are done, and requests that nothing overlaps do not end the server.
  `AnswerMatches`: no call returns the answer to another's request, which it would if the
  lock did not hold from counting the id to reading the answer. `HandledGenuine`
  (`TokensGenuine`, `RevocationBounded`, `NoRollback`): a withdrawn key is of use for the
  cache's life and one fetch. `FileVerifies`: the file breaks at no more lines than writes
  to it raised. `MirrorAccounted` (`LocalIsTruth`, `DropsCounted`): the control plane and
  the callers know no event the file lacks, and `dropped` is at least what the mirror
  misses of this process. `RunContained` (`WhatOutlivesARun`, `ReturnedInTime`).
  `NobodyWaitsForEver`: every call of a downstream, every HTTP request and every sandboxed
  run ends, the last one unless a process that left the group holds the output.

`PeriodsByName` and `WorseFiresToo`, which two theorems of section 6 ask of the rules,
are evaluated by TLC on the rules of `MCAuthority` (`MCAssumption`).

Each composite has a mutant that breaks one of its parts.

**Bounds.** `MaxTime`, `MaxInvocations`, `MaxEvents`, `MaxCharges`, `MaxCrashes`,
`MaxOps`, `MaxCalls`, `MaxRules`, `MaxLines`, `MaxNoise`, `MaxOverwritten`, `MaxGrants`
and their like bound clocks and counters and appear in the guards of the actions they
bound; `OneTroubled` is a state constraint of `MCBreaker`, and `MCNext` of `MCAuthority`
trades calls for engines and delegates for scopes. `MaxLines` is the code's 1000. Deadlock is allowed where a run
ends when its calls or events are used up. Symmetry is used over threads, tokens and
agents only where the run checks safety (invariants and action formulas) and no constant
tells them apart.

## 4. Fairness

`AgentRuntime` assumes `WF(Step(t))` for every thread: a thread inside the pipeline
is eventually scheduled. The locks it takes are held for one operation that takes
no other lock, so nobody waits for ever; tools, handlers and sinks are assumed to
return or raise (`Step(t)` contains both outcomes). Nothing is assumed of clients,
operators or the clock. No property depends on it: a call goes from gate to gate
without waiting for another, so that it ends says nothing of the code. The other
assumptions are as weak:

- `BehaviorMonitor`: a thread inside the sink gets the lock and trips (`Observe`, `Trip`).
- `StdioTransport`: a caller moves when it can, and the subprocess, while it lives,
  answers what it read. One that lives and stays silent for ever would hold the lock for
  ever: the client has no timeout.
- `ResourceServer`: handler threads move. The fetch of keys has a timeout in the code,
  so it answers or fails, and the lock is let go. Requests have arrived whole: a client that
  sends its body slowly keeps a handler in `rfile.read` (`mcp_http.py:241`), which is not
  modelled.
- `Sandbox`: `communicate` returns once it can, its timeout fires, the kill that follows
  is carried out, and a container ends with its command. Nothing is assumed of the
  processes: none need ever exit.

The other modules have no liveness properties and no fairness.

## 5. Abstractions

- The HMAC of a payload under the store's secret is the payload: signatures agree
  iff the signed fields do. SHA-256 is collision-free: a hash is the sequence of
  events its chain goes through. `args_digest` is a constant function, not
  injective in the instances.
- Ids (`token_urlsafe`, run ids) are fresh. Clocks do not go back; the wall clock of
  the approval store could, if it is set.
- Dollar amounts are whole numbers; the code adds floats.
- In `AgentRuntime` a pause stamps its token when it enters the table; the earlier
  stamp is covered by `ApprovalStore`, and so are writes to token objects. The runtime's monitor counts denials only and
  does not slide; thresholds and window are covered by `BehaviorMonitor`.
- In `AgentRuntime` the tracker and the detectors show as the possible effects of the
  DSL; `DataFlow` models them. `report_usage` is modelled with an agent, not with a ledger
  key as a string.
- A path has one form. In the code `covers` compares paths normalised by their text
  (`normpath`, `core.py:264`) and `enforce` paths resolved in the file system
  (`realpath`, `core.py:244` and `:276`): a symbolic link inside a granted directory
  separates the two, and `CoverEnforces` does not hold of it.
- Patterns (globs, hosts, commands, tool names) are the sets of what they match.
  Values stand for their content; a tool definition for what its fingerprint covers,
  with the severity its scan finds; a key set for its keys and ids.
- Signatures of identities, scopes, messages, packs and tokens are ideal: what was
  signed, and by which key.
- Wall and monotonic clock of the channel advance together.
- What a module assumes of its constants is an operator (`GatewayAssumption`,
  `ServerAssumption`, ...) that the theorems cite; the instances evaluate it, parts of a
  composition through `PartsAssumption`.
- `Windows` spells the monitor's fairness with its own tuple of the monitor's variables;
  it is `M!Fairness`.
- Reads and writes of one dictionary entry are atomic, as under CPython's global lock;
  nothing else is.
- A line of the log is written whole or not at all; a torn line stops the next
  start (`_recover_head` raises). `dropped += 1` is atomic, as under CPython's global
  lock.

## 6. Proofs

TLAPS proves the following for every value of the constants: any number of threads,
agents, tokens, tools, servers, keys, messages, events and processes, any rules and
nesting of conditions, any time-outs, windows and faults, and any bound. Type
correctness is proved of every module named here (`TypeCorrect`, or with the name of
the part before it: `HubTypeCorrect`, `MonitorTypeCorrect`, `SyncTypeCorrect`,
`EngineTypeCorrect`, `FlowTypeCorrect`, `GuardTypeCorrect`, `AuditTyped`) and of the three
compositions (`PartsTyped`, `AllTypeCorrect`), and is left out of the table.

| Theorem | States | Assumes |
|---|---|---|
| `ApprovalStore_proofs!StoreSafe` | `[](SingleUse /\ GrantAuthorized /\ NoApprovalLost)` | what the store assumes of digests and TTLs |
| `ApprovalStore_proofs!SpentOnce` | `[]SpentOnOneCall` | same |
| `ApprovalStore_proofs!VerdictsStand` | `VerdictFinal`, an action property | same |
| `BudgetLedger_proofs!LazyPruningExact` | `[]SpendExact`, cumulative and windowed | `BudgetAssumption` |
| `BudgetLedger_proofs!SpendStands` | `ChargesStand`, an action property | `BudgetAssumption` |
| `AgentRuntime_proofs!StoreUsed` | `AS!Spec`: the runtime keeps to the store's protocol | `RuntimeAssumption`, `StoreAssumption`, `LedgerAssumption`, here and below |
| `AgentRuntime_proofs!HaltHolds` | `[]HaltRespected` | |
| `AgentRuntime_proofs!RunsAuthorised` | `[]RunAuthorized` | |
| `AgentRuntime_proofs!RetriesHonoured` | `RetryHonoured`, an action property | |
| `AgentRuntime_proofs!AuditIsExact` | `[]AuditExact` | `"sink" \notin Faults` |
| `AgentRuntime_proofs!RunsAreAccounted` | `[]RunsAccounted` | `"sink" \notin Faults` |
| `AgentRuntime_proofs!LedgerIsExact` | `[]LedgerExact`, cumulative and windowed | |
| `AgentRuntime_proofs!OverrunIsBounded` | `[]OverrunBound` | finitely many threads, `Window = NoWindow` |
| `AgentRuntime_proofs!SpendIsBounded` | `[]SpendBounded` | same |
| `AgentRuntime_proofs!PipelineImplements` | `ImplementsEnforcement`, the refinement | |
| `Boundary_proofs!LogsStand` | `[]FileVerifies` | nothing of the faults |
| `Boundary_proofs!MirrorStands` | `[]MirrorAccounted` | nothing of the faults |
| `Windows_proofs!NoReplay` | `[]AcceptedOnceAsSent` | `ChannelAssumption` |
| `Windows_proofs!NothingMissed` | `[]WindowComplete` | `MonitorAssumption`, `PolicyAssumption`, finitely many threads |
| `Windows_proofs!JudgedExactly` | `DetectionExact`, an action property | same |
| `Windows_proofs!WindowSpendExact`, `WindowSpendStands` | the ledger's two, in the composition | `BudgetAssumption` |
| `Windows_proofs!PartsRemember` | the safety properties of `Windows`, of the composition | `PartsAssumption`, finitely many threads |
| `Rules_proofs!OneFetchHeals` | `[]PoliciesAsPublished` | `PolicyAssumption` of the sync |
| `Rules_proofs!TheMostRestrictiveWins` | `[]DenyOverrides` | `EngineAssumption` |
| `Rules_proofs!TheRateIsKept` | `[]RateBounded` | `EngineAssumption`, `PeriodsByName` |
| `Rules_proofs!TaintIsKept` | `[]TaintKept` | `FlowAssumption` |
| `Rules_proofs!NoTaintedCallPasses` | `NoTaintedCall`, an action property | `FlowAssumption`, `WorseFiresToo` |
| `Rules_proofs!FlowsAreFound` | `[]FlowsFound` | `FlowAssumption` |
| `Authority_proofs!CoverEnforces` | what a capability lets through, one that covers it lets through | paths are paths |
| `Authority_proofs!AuthorityOnlyNarrows` | `[]WithinRoot` | what `Delegation` assumes |
| `Authority_proofs!HubIsOneScope` | `[]HubKeepsScope` | `HubAssumption` |
| `Authority_proofs!GuardsDoAgree` | `[]GuardsAgree` | `GuardAssumption` |
| `Authority_proofs!PartsRefined` | a behaviour of `Authority` is one of each of its six parts | nothing |
| `Authority_proofs!AllCorrect` | the invariants of `Authority` but `RateBounded`, of the composition | `PartsAssumption` |
| `Authority_proofs!AllLimitsKept` | `[]RateBounded /\ NoTaintedCall`, of the composition | `PartsAssumption`, `PeriodsByName`, `WorseFiresToo` |
| `Boundary_proofs!NoRugPull` | `[]OnlyVettedRuns` | `GatewayAssumption` |
| `Boundary_proofs!ListedIsServed` | `[]ExposedServed` | `GatewayAssumption` |
| `Boundary_proofs!AnswersMatch` | `[]AnswerMatches` | `TransportAssumption` |
| `ResourceServer_proofs!OnlyGenuine`, `Boundary_proofs!OnlyGenuineHandled` | `[]HandledGenuine` | `ServerAssumption` |
| `Boundary_proofs!RunIsContained` | `[]RunContained` | nothing |
| `Boundary_proofs!EdgesHold` | the invariants of `Boundary`, of the composition | `PartsAssumption` |

The assumptions say what kind of thing a constant is (a function, a sequence, a
number that is not negative, a null value that is none of the real ones); each is
evaluated by TLC on the instances. Some theorems need more, for reasons in the code:

- `AuditIsExact` and `RunsAreAccounted` say that sinks do not raise: a sink that raises
  loses an event or makes the `except` clause report one twice, and the log is then
  not exact (`MCBreaker` has such sinks).
- `OverrunIsBounded` and `SpendIsBounded` say that the ledger is cumulative: charges
  leave a window on their own, so a window bounds no total.
- `TheRateIsKept` says that limits of one name have one period (`PeriodsByName`). The
  limiter keeps hits by agent and rule name and prunes by the period of the rule it is
  asked for (`policy_dsl.py:278`), so of two limits of one name the shorter would make
  the longer forget.
- `NoTaintedCallPasses` says that a rule that fires for some labels also fires when they
  are worse (`WorseFiresToo`). A rule can be written for which it is false (`not` over
  `taint`, `provenance: trusted`), and of such a rule the property says nothing.
- Threads are finite where they are counted.

### The arguments

*The store.* The properties speak of history and are not inductive: whether the next
`Consume` is rightful depends on the token's fields, which anyone may rewrite. `Ledger`
says what cannot be rewritten unnoticed: the signature of a held token is what was bound
at issue, and unless it was overwritten its status agrees with the verdicts (a pending
token has none, an approved or consumed one exactly "approved"). `GrantsClosed` says that
the token of every grant is consumed, or overwritten. `Consume` tests the signature, so
the fields it compares are the bound ones, and the status, so the token has no earlier
grant.

*The ledger.* Exactness is that the window is what was charged less a prefix that is
older than the window (`Holds`), with charges in the order of the clock (`InOrder`).
The pruning loop stops at the first entry still inside; by the order everything
after it is inside as well. Sums are recursive functions. That the sum of a suffix
and the sum over the history differ by what was cut (`TotalSuffix`), which asks for
induction, is proved by a least counterexample (`LeastOf`, with the library's
well-founded order of the naturals).

*The runtime.* `Control` types the threads: where each is, what its call may be there,
and what follows when it has reported. On it stand the invariants below, each with
one lemma per kind of step.

- `StoreUsed` makes each step one of the store's or a stutter of it, so the store's
  invariant, cited through an instance of its proof module, holds in the runtime
  (`StoreInv`), where nobody overwrites a status.
- `HaltInv`: a thread past the kill switch, or one that has refused for the budget and is
  about to trip, counted no trip since, or the breaker has tripped again since.
  No step trips without counting (`BreakerMoves`).
- `AuthInv`: what the gates a thread has passed say of its call (`Vetted`); an
  approval in a thread's hands is in no other's and has let no tool run (`HeldOnce`);
  every run is cleared by a grant (`RunsCleared`). Grants only grow, and the
  store's `SingleUse` makes the thread that consumed a token the only one.
- `Untouched`: nobody writes to the runtime's tokens, and one is marked expired only when
  its time is over. With the store's `Ledger` and `NoApprovalLost`, what an operator
  approved, in time and not yet used, is what the store lets through.
- `LogInv`: invocations are numbered once (`Numbered`), the event a thread is building
  agrees with what the thread did (`Told`), the log with what happened (`Truthful`).
- `SpendInv`: charged calls and calls in flight together are at most the ceiling and one
  per other thread. A thread in flight is a token of the overrun: admission adds it
  when the total is below the ceiling, charging turns it into a charge.
- `LedgerExact` follows from the ledger's own invariant: every step charges one
  key, resets one, lets time pass or leaves the ledger alone (`LedgerMove`).

The refinement needs `StageInv` besides: how far a call is agrees with whether its
tool ran. Each gate is then shown to be a step of `Enforcement` or a stutter
(`KillSwitchSimulated`, `PolicySimulated`, `ReplaySimulated`, `HandlerSimulated`,
`RunSimulated`, and `RefusalSimulated`, `ExitSimulated` for every way out).

*The log and its mirror.* The number of broken links is not bounded inductively by
itself: a write that raises breaks nothing yet. `Accounted` counts the break to come as
well: `Cardinality(Breaks(file)) + Ahead(file, fileHead) <= failed`, where `Ahead`
is 1 while the head is not the hash of the last line. A write turns `Ahead` into a
break (`SealAdds`), a restart recovers the head and forgives it. For the mirror,
`Tracked` says where the event of each emission is: not yet in the file, or in
it while its copy is sealed, posted or late, and no two emissions share one.

*The channel.* Between its readings of the clocks a thread knows that the time to
remember, added to the clock it read, reaches the end of the message's life
(`Verifying`). So what was accepted alive is remembered while it lives
(`Remembered`), and a second acceptance in life finds it (`Once`).

*The monitor.* `WindowComplete` is an equation of counts: events in the window, plus those
whose thread waits, are those that count. It is not inductive for the present alone:
when time passes, events leave both sides. Nor does it say what kind of events they are.
`CompleteFrom` has it for every set of the events that count at a time, and for every time
after which the window has no stamp. Pruning may use an old reading of the clock, which
removes only what counts at none of these times (`PlacesPruned`). For
`DetectionExact` the time is the stamp of the event that joins, when that is the
latest in the window and nobody else waits (`ObserveExact`): the equation for all events
gives the number of calls, for refusals that of refusals, and for each tool whether
it was called, hence the set of tools.

*Delegation.* `covers` is compared over sets of paths and is not obviously transitive.
`Within`, whatever the inner one enforces the outer one enforces, is transitive by its
form, and `CoverEnforces` shows that `covers` implies it. `Chains` says it of every signed
chain and its root, with the expiry; `Checked` keeps it between the two halves of
`delegate`; `Signatures`, `Identities`, `Actions` carry it to what is held, verified and
done with copies anybody may alter.

*The hub.* The thread inside `guard` holds the hub's lock (`HubLocks`); the name it is
guarding is free, then taken by what is being granted (`NameOK`); a call that
no `guard` overlaps holds all its tool needs (`CallOK`), since grants only grow.
`HubDefaults`: within an epoch the default changes but from none to one, so two
uses that began and ended in it got the same.

*Guards.* The operations are one step each, but they register tool by tool (`protect`), and
a part of one may raise. `GoodWorlds` are the worlds in which what an agent
holds is accounted for and what a granting guard registered is covered; each way from
one world to the next stays inside (`Becomes`). Capabilities only grow, so what is
covered stays so (`CoveredStays`). For marks, `RuntimeTracks`: once there is a
tracker the runtime has one, so a second one comes up only if two guards bring their own.

*Policy sync.* The policy of a tenant is the last that was pushed and its version the
highest (`Numbered`). The signature of what is on its way to the guard was made for the
tenants in `signers`; of an answer the guard's own is one, and no engine of that tenant's
is newer (`OnTheWay`). So what `verify` lets pass is a signed pack, and an answer is at
least as new as every engine of the tenant's before it (`Installed`).

*The policy engine.* `Judging` says of a thread in the middle of `evaluate` that its
effect is as restrictive as that of every rule it has passed, and comes from one of
them and the default, and that it has passed no more than the list holds. `Add` appends
behind those, so it disturbs neither; a rule once in the list keeps its place.

*The limiter.* Stamps come in any order, as the clock is read before the lock. `Retained`:
a hit is remembered at least until it leaves the window that ends now; a thread with an
older reading prunes less. `InTurn`: a thread reads the clock for its next hit after
its last one, so of hits read before a window and made inside it each thread has one at
most. `FreshBounded` counts those read inside: the last to be admitted found all the
others remembered and in its window (`Retained`), fewer than `max_calls`.

*Data flow.* `LabelsCarry`: the label of a value carries its `truth`, and so does what a call
is about to write. It holds as long as no two observations of a value overlapped
(`raced`), by the laws of the lattice: a join carries both sides, and carrying is
transitive. What passed the gate did so for labels at least as bad as the truth, which
gives `NoTaintedCall`. `TraceInv` is about the log: an event that consumed untrusted
data shows it in its arguments, by a label or as the result of an earlier such event
(`Shows`). The walk of `audit_graph.py` is a recursive function over the log; that it
reaches every such event is proved by a least counterexample (`LeastOf`).

*The gateway.* `VettedInv`: what is pinned, registered, carried by a worker about to pin
or register it, or by a request about to run, was vetted, and what was vetted passed the scan.
`ServedInv`: a refresh exposes server by server, so what it exposed belongs to
servers it has left; a callable tool is registered or a worker is about to register
it, while approvals and refreshes keep apart; and a request that nothing disturbed
sees the map it started on.

*Transport and server.* `AnswerMatches` compares calls, and the code compares ids: what
has to be shown is that the reader's id is on no message of another call (`IdsOK`). The
holder of the lock is the one caller between counting an id and reading its answer
(`CallersOK`), so the id it reads back is the one it counted, above all ids in the pipes,
and stays its own in whatever order the server answers. In the resource server the lock is
held by the refreshing thread (`LockInv`); both tables hold key sets installed at the last
refresh or after it (`TablesInv`), none newer than what is published (`OrderInv`); what a
thread read from a table, without the lock, was once installed, recently enough for its
request (`Vouched`), and that stays true whatever is installed afterwards.

*The sandbox.* Only a command that timed out is killed, and after the kill what still
runs has left the group, whatever is forked (`KilledLate`); a command with a
return code has ended for good (`CommandOver`).

*Compositions.* Parts share no state, so every behaviour of `Windows`, `Authority` or
`Boundary` is one of each part (`PartsRun`, `PartsRefined`), and the properties of the
parts hold in it (`PartsRemember`, `AllCorrect`, `AllLimitsKept`, `EdgesHold`). Where a part
has a proof module of its own, the composition cites it through an instance, and a lemma
(`SameLedger`, `SameServer`) shows that the two instances say the same.

### What is only model-checked

Liveness, which rests on fairness and `ENABLED`, out of the prover's reach:
`AnomalyHalts`, `NobodyWaitsForEver`. Every invariant and every action
property of the passing runs is stated by a theorem.

## 7. Findings

| Run | Code | What |
|---|---|---|
| `MCBenign` | `runtime.py:206` | The event starts as a denial and the plain path never changes it: a call that ran and returned is audited as "deny" and counts towards the monitor's denial threshold. Three successful calls halt an agent. |
| `MCSessionKey` | `runtime.py:156` | `report_usage` trips the breaker under the ledger key, `invoke_tool` asks it under the agent's id: with a `budget_key_fn` an overspend does not halt the agent. |
| `MCAuditRestart` | `audit.py:147` | The mirror starts at GENESIS in every process while the tenant's log goes on: it does not verify after a restart. |
| `MCSingleUse` | `a2a.py:168` | A thread that tested the expiry in time may consume the nonce after another thread's copy was accepted and its nonce pruned: one message is accepted twice. |
| `MCDeclared` | `aegis/core.py:324` | All functions of a hub share one agent: a function declared for one host runs with another that a different function, itself behind an approval, is declared for. |

The passing runs also mark the limits of what holds, at places where a reader of
the documentation may expect more.

- Runtime: the call ceiling is overrun by the calls in flight (`OverrunBound`, against
  "admitted only if it stays within the call ceiling", `budget.py:110`); a call that
  user code ends with an exception leaves no event, so `AuditComplete` covers the calls
  that ran (`runtime.py:9` has "at every exit"); a write that raises breaks one link of
  the file (`FileVerifies`).
- Approvals: the status of a token object is not signed (`approval.py:50`): who holds the
  object can approve it, or revive it after use, by writing to it. What was bound at issue
  stands even then (`GrantAuthorized`).
- Audit: threads reach the two sinks of a `MultiSink` in different orders, so the chains
  are not always "identically-ordered" (`audit.py:114`).
- Monitor: the clock is read before the lock, so with several threads an agent can be
  halted by events that were never in one window; `DetectionExact` says when it is exact.
- Gateway: a definition that changes and changes back leaves quarantine without a human
  (`mcp_guard.py:254` speaks of re-approval); `_handle_call` catches four exceptions, so
  an error of the registry, or of a dictionary that changes while it is walked, ends
  `StdioServer.serve` (`CalmCallsAnswered` says when none is met); an approval that
  overlaps a refresh can leave a callable tool unregistered (`overlapped`); a tool released
  between the test for quarantine and the reading of its reason gives a `KeyError` for
  the refusal (`mcp_guard.py:312`).
- Transport: `_recv_for` takes any line with the id it waits for, so a request of the
  server's own that bears it passes for the answer (`AnswerMatches` allows this).
- Aegis: `wrap` raises whenever it is called, and a hub never has a budget, whatever
  `report_usage` says; an unknown risk is low; with a high ceiling a tool declared with
  `approval=True` runs unapproved; `reset` at the wrong moment makes `_get_default`
  return None; `configure` after `guard` splits functions over two hubs.
- Guards: capabilities stay granted when the registration that needed them raises; two
  guards made while the runtime has no tracker replace each other's, and marks are lost.
- Sandbox: a missing `docker` raises `FileNotFoundError`, where a missing command is a
  `SandboxError` (`sandbox.py:154`, `:231`); a child that left the group and holds the
  output makes the second `communicate` wait for ever; a timeout of the docker backend
  kills the client only; a normal end leaves background children running.
- Policy sync: the signature covers version and pack (`policy_sync.py:41`), and the client
  compares neither versions nor tenants (`:87-92`). An older pack, or another tenant's, is
  accepted if it was validly signed, and stays in force until the control plane's answer
  comes through (`FetchHeals`); lines 4-15 speak of safety "even against a compromised
  control plane", of which this model has the authenticity. Of two fetches that overlap
  the older may be installed last; the model's guard fetches one at a time.
- Provenance: of two concurrent `observe` of one value a taint can be lost (`raced`); a
  rule that fires for trusted data only lets a call pass whose data got worse
  (`WorseFiresToo`).
- Rate limits: threads that read the clock before a window began may each have one call
  more in it than the limit says (`RateBounded`); two limits of one name with different
  periods prune each other's hits (`PeriodsByName`).

## 8. Not modelled

- The CLI, the network checks and the benchmarks: the CLI builds the parts above from
  files and flags; the checks classify addresses with `ipaddress` and a resolver
  (`ResourceServer` has their verdict as part of an endpoint's answer); benchmarks are
  not part of the product.
- Text: the patterns of the detectors and of the poisoning scan, the YAML of packs, the
  shape of JSON-RPC, SSE and metadata documents, reports and dashboards.
- `HttpDownstream`: one request per call over `urllib`. Two things a reader should know:
  a session id is kept after the server restarts, and `_parse_sse` joins the data of
  all events of an answer.
- `GuardedAgent` and the conversions to frameworks' tool objects, Aegis' views of
  the log, `MemorySink`, `PrintSink`, `TraceContext`: they keep nothing or only add to a
  list.
- Cryptography, minting and encoding of tokens, resource limits of the operating system
  as amounts. A line of the log torn by a crash; the API keys of the control plane.

## 9. What remains

All safety properties of the passing runs are proved. What remains is liveness, which TLC
checks on the instances, and what section 8 lists. The models could say more in two
places: a guard that fetches on several threads at once, and a restart that meets a torn
line.
