--------------------------- MODULE MCAgentRuntime ---------------------------
(***************************************************************************)
(* Small instances of AgentRuntime.  `read` is a tool anyone may call,     *)
(* `wire` needs a human, `drop` is denied by the capability gate and       *)
(* `mail` by a DSL rule that is sometimes a rate limit.                    *)
(***************************************************************************)
EXTENDS AgentRuntime, TLC

CONSTANTS alice, bob, session, read, wire, drop, mail, x, xs, y, dx, dy

MCArgs == {x, xs, y}
MCDigests == {dx, dy}
MCArgsDigest == [a \in MCArgs |-> IF a = y THEN dy ELSE dx]

MCBase == [p \in Agents \X Tools |->
             CASE p[2] = drop -> "deny"
               [] p[2] = wire -> "require_approval"
               [] OTHER -> "allow"]

MCEffects == [r \in Requests |->
                CASE r.tool = mail -> {"allow", "deny", "require_approval"}
                  [] OTHER -> {"allow"}]

Ask(a, tool, args, token) == [agent |-> a, tool |-> tool, args |-> args, token |-> token]

(* Pauses and retries: the reviewed call, other arguments, another agent.  *)
ApprovalRequests ==
  {Ask(alice, wire, x, id) : id \in TokenIds \cup {NoApproval}}
  \cup {Ask(alice, wire, y, id) : id \in TokenIds}
  \cup {Ask(bob, wire, x, id) : id \in TokenIds}

(* Requests that meet every gate once; one presents a token to a runtime   *)
(* that has no store.                                                      *)
GateRequests ==
  {Ask(alice, tool, x, NoApproval) : tool \in Tools}
  \cup {Ask(alice, wire, x, id) : id \in TokenIds}
  \cup {Ask(NoAgent, read, x, NoApproval), Ask(alice, read, y, NoApproval),
        Ask(alice, read, xs, NoApproval)}

(* Plain calls of two agents. *)
PlainRequests == {Ask(a, read, x, NoApproval) : a \in Agents}

(* Calls that are denied, and one that is not. *)
DenialRequests == {Ask(alice, drop, x, NoApproval), Ask(alice, read, x, NoApproval)}

(* y is outside the task scope, xs outside the granted capability. *)
InScope == {r \in Requests : r.args # y \/ r.tool # read}
WithinGrant == {r \in Requests : r.args # xs}

OwnKey == [a \in Agents |-> a]
SessionKey == [a \in Agents |-> session]

Amounts(n, m, c) ==
  [d \in {"calls", "tokens", "cost"} |->
     CASE d = "calls" -> n [] d = "tokens" -> m [] d = "cost" -> c]
TwoCalls == Amounts(2, 1, NoCap)
OneCallCap == Amounts(1, 1, NoCap)
OneToken == {Amounts(0, 1, 0)}
MCTtls == {NoTtl}

(* The invocations in which the audit sink was seen to fail: it lost their *)
(* event, or made invoke_tool emit an error of its own.                    *)
SinkTroubled ==
  {e.inv : e \in {d \in ended : d.inv # 0 /\ EventsOf(d.inv) = {}}}
  \cup {audit[i].inv : i \in {j \in DOMAIN audit : audit[j].error = "sink_error"}}
  \cup {call[t].inv : t \in {u \in Threads : pc[u] # "idle" /\ call[u].inv # 0
                                               /\ call[u].error = "sink_error"}}
OneTroubled == Cardinality(SinkTroubled) <= 1

Symmetric == Permutations(Threads) \cup Permutations(TokenIds)
ThreadSymmetry == Permutations(Threads)
=============================================================================
