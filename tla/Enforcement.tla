---------------------------- MODULE Enforcement ----------------------------
(***************************************************************************)
(* What the runtime promises whoever puts it in front of the tools, with   *)
(* no word on gates, tokens' life, ledgers or sinks: no tool runs for a    *)
(* call that was not cleared; a call is cleared either because it needs no *)
(* human or by a human's approval, which clears one call only; a halted    *)
(* agent's calls are not admitted; and a call that ran is reported before  *)
(* its thread turns to another.                                            *)
(***************************************************************************)
CONSTANTS
  Threads, Requests, Agents,
  AgentOf,          \* whose call a request is
  TokenIds,
  Unattended,       \* requests that may run with no human asked
  Attended,         \* requests that may run if a human agrees
  WithinGrant       \* requests whose arguments the agent may use

VARIABLES
  phase,            \* how far each thread's call has come
  request,          \* the call it works on
  basis,            \* what cleared it: nothing had to, a human, an approval
  halted,           \* agents that are halted; changes as it will
  approved,         \* approvals humans gave; likewise
  spent             \* approvals that have cleared a call

thread == <<phase, request, basis>>
vars == <<thread, halted, approved, spent>>

Phases == {"idle", "received", "admitted", "cleared", "ran", "reporting"}

Init ==
  /\ phase = [t \in Threads |-> "idle"]
  /\ request = [t \in Threads |-> {}]
  /\ basis = [t \in Threads |-> "none"]
  /\ halted = {}
  /\ approved = {}
  /\ spent = {}

Move(t, from, to) ==
  /\ phase[t] \in from
  /\ phase' = [phase EXCEPT ![t] = to]
  /\ request' = IF to = "idle" THEN [request EXCEPT ![t] = {}] ELSE request

Keep(t, to) ==
  /\ basis' = IF to = "idle" THEN [basis EXCEPT ![t] = "none"] ELSE basis
  /\ UNCHANGED spent

On(t, why) == basis' = [basis EXCEPT ![t] = why]

Receive(t, r) ==
  /\ phase[t] = "idle"
  /\ phase' = [phase EXCEPT ![t] = "received"]
  /\ request' = [request EXCEPT ![t] = {r}]
  /\ Keep(t, "received")

Admit(t) ==
  /\ Move(t, {"received"}, "admitted")
  /\ \A r \in request[t] : AgentOf[r] \notin halted
  /\ Keep(t, "admitted")

ClearUnattended(t) ==
  /\ Move(t, {"admitted"}, "cleared")
  /\ request[t] \subseteq Unattended
  /\ Keep(t, "cleared")

(* The human is asked on the spot. *)
ClearAttended(t) ==
  /\ Move(t, {"admitted"}, "cleared")
  /\ request[t] \subseteq Attended
  /\ On(t, "human")
  /\ UNCHANGED spent

(* The human was asked before. *)
ClearApproved(t) ==
  /\ Move(t, {"admitted"}, "cleared")
  /\ request[t] \subseteq Attended
  /\ On(t, "approval")
  /\ \E id \in approved \ spent : spent' = spent \cup {id}

Run(t) ==
  /\ Move(t, {"cleared"}, "ran")
  /\ request[t] \subseteq WithinGrant
  /\ Keep(t, "ran")

Refuse(t) == Move(t, {"received", "admitted", "cleared"}, "reporting") /\ Keep(t, "reporting")

Report(t) == Move(t, {"ran", "reporting"}, "idle") /\ Keep(t, "idle")

(* The code that decides raises: the call is over and nothing ran. *)
Abandon(t) == Move(t, {"admitted"}, "idle") /\ Keep(t, "idle")

Step(t) ==
  \/ \E r \in Requests : Receive(t, r)
  \/ Admit(t) \/ ClearUnattended(t) \/ ClearAttended(t) \/ ClearApproved(t)
  \/ Run(t) \/ Refuse(t) \/ Report(t) \/ Abandon(t)

Next ==
  /\ halted' \subseteq Agents
  /\ approved' \subseteq TokenIds
  /\ \/ \E t \in Threads : Step(t)
     \/ UNCHANGED <<thread, spent>>

Spec == Init /\ [][Next]_vars
=============================================================================
