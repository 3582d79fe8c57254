------------------------------ MODULE Gateway ------------------------------
(***************************************************************************)
(* The MCP gateway: MCPGuard (capguard/mcp_guard.py) with its tool         *)
(* registry (capguard/registry.py) behind MCPProxy (capguard/mcp_proxy.py).*)
(*                                                                         *)
(* One thread refreshes, one approves, and several answer requests, with   *)
(* no lock anywhere: every read or write of a shared dictionary that       *)
(* another thread may come between is a step.  Servers change what they    *)
(* list at any time.  A definition is what its fingerprint covers; of its  *)
(* text the model keeps what the scan for poisoning finds (a severity) and *)
(* the normalised description.                                             *)
(***************************************************************************)
EXTENDS Integers, Sequences, FiniteSets

CONSTANTS
  ServerOrder,        \* the downstreams, in the order of refresh
  Names,              \* tool names
  Definitions,        \* [poison, description] records
  Nothing,
  BlockAt,            \* rank of block_severity
  Signed, Required,   \* an identity verifier; require_signed_identity
  Threads,
  Faults,             \* "list", "call": downstream operations that may raise
  Bounds              \* how many changes, refreshes, approvals and requests may happen:
                      \* one record for each mix of them

Servers == {ServerOrder[i] : i \in DOMAIN ServerOrder}
Keys == Servers \X Names
Ranks == 0..4
Medium == 2
High == 3
Critical == 4
Workers == {"refresh", "approve"}

(* Downstreams are kept by id, so none comes twice.                        *)
GatewayAssumption ==
  /\ ServerOrder \in Seq(Servers) /\ ServerOrder # << >>
  /\ \A i, j \in DOMAIN ServerOrder : ServerOrder[i] = ServerOrder[j] => i = j
  /\ IsFiniteSet(Names)
  /\ BlockAt \in Ranks /\ Definitions \subseteq [poison : Ranks, description : STRING]
  /\ Nothing \notin Definitions
  /\ Faults \subseteq {"list", "call"}

VARIABLES
  offered,            \* what each server lists: definitions by name
  defs, pins, quarantine,    \* of the guard
  registered,         \* ToolRegistry._tools: the definition a shim was made from
  nameMap,            \* the proxy's: what is exposed
  work,               \* per worker: where it is and on what
  pc, req,            \* per request thread
  counts,             \* changes, refreshes, approvals and requests that may still happen
  vetted,             \* history: definitions pinned on first sight, or approved
  ran,                \* history: calls that reached a server
  ended,              \* history: how requests ended
  overlapped,         \* history: an approval and a refresh were under way at once
  disturbed           \* history: requests under way during a refresh or an approval

guard == <<defs, pins, quarantine, registered>>
requests == <<pc, req, ran, ended>>
vars == <<offered, guard, nameMap, work, requests, counts, vetted, overlapped, disturbed>>

Idle == [at |-> "idle", todo |-> << >>, server |-> 0, listed |-> {}]
NoRequest == [key |-> Nothing, size |-> 0, def |-> Nothing]

TypeOK ==
  /\ \A k \in Keys :
       /\ registered[k] # Nothing => pins[k] # Nothing /\ defs[k] # Nothing
       /\ pins[k] # Nothing => pins[k] \in vetted[k]
  /\ \A w \in Workers :
       /\ work[w].at \in {"idle", "list", "define", "block", "unregister", "pin", "release",
                          "drop", "register", "expose"}
       /\ work[w].at \notin {"idle", "list", "expose"} => work[w].todo # << >>
  /\ \A t \in Threads : pc[t] = "idle" => req[t] = NoRequest

Init ==
  /\ offered \in [Servers -> [Names -> Definitions \cup {Nothing}]]
  /\ defs = [k \in Keys |-> Nothing] /\ pins = [k \in Keys |-> Nothing]
  /\ quarantine = {}
  /\ registered = [k \in Keys |-> Nothing]
  /\ nameMap = {}
  /\ work = [w \in Workers |-> Idle]
  /\ pc = [t \in Threads |-> "idle"] /\ req = [t \in Threads |-> NoRequest]
  /\ counts \in Bounds
  /\ vetted = [k \in Keys |-> {}]
  /\ ran = {} /\ ended = {} /\ overlapped = FALSE /\ disturbed = {}

Count(what) == counts[what] > 0 /\ counts' = [counts EXCEPT ![what] = @ - 1]
-----------------------------------------------------------------------------
(* A server changes or withdraws a tool.                                   *)
Change(s, n, d) ==
  /\ Count("change")
  /\ offered[s][n] # d
  /\ offered' = [offered EXCEPT ![s][n] = d]
  /\ UNCHANGED <<guard, nameMap, work, requests, vetted>>

At(w, label) == work[w].at = label
Job(w) == work[w].todo[1]
Goto(w, label) == work' = [work EXCEPT ![w].at = label]

(* On to the worker's next tool: a refresh exposes what it has registered, *)
(* an approval is over.                                                    *)
NextTool(w) ==
  LET rest == Tail(work[w].todo)
  IN work' = [work EXCEPT ![w] =
       IF rest # << >> THEN [@ EXCEPT !.todo = rest, !.at = "define"]
       ELSE IF w = "refresh" THEN [@ EXCEPT !.todo = rest, !.at = "expose"] ELSE Idle]

(* MCPProxy.refresh clears the map, then lists, scans and exposes server   *)
(* by server.                                                              *)
Refresh ==
  /\ At("refresh", "idle") /\ Count("refresh")
  /\ nameMap' = {}
  /\ work' = [work EXCEPT !["refresh"] = [Idle EXCEPT !.at = "list", !.server = 1]]
  /\ UNCHANGED <<offered, guard, requests, vetted>>

ListTools ==
  LET w == work["refresh"]
      s == ServerOrder[w.server]
      listed == {n \in Names : offered[s][n] # Nothing}
      job(n) == [key |-> <<s, n>>, def |-> offered[s][n]]
  IN /\ At("refresh", "list")
     /\ \E order \in [1..Cardinality(listed) -> listed] :
          /\ \A n \in listed : \E i \in DOMAIN order : order[i] = n
          /\ work' = [work EXCEPT !["refresh"] =
               [w EXCEPT !.at = IF listed = {} THEN "expose" ELSE "define",
                         !.todo = [i \in DOMAIN order |-> job(order[i])],
                         !.listed = {<<s, n>> : n \in listed}]]
     /\ UNCHANGED <<offered, guard, nameMap, requests, counts, vetted>>

(* A server that cannot be listed ends the refresh, the map half built.    *)
ListFails ==
  /\ At("refresh", "list") /\ "list" \in Faults
  /\ work' = [work EXCEPT !["refresh"] = Idle]
  /\ UNCHANGED <<offered, guard, nameMap, requests, counts, vetted>>

(* Mutant: a changed definition is no finding. *)
FindingsUnpinned(key, d) == {d.poison}

(* The severities of what the scan finds: poisoning, a definition changed  *)
(* since it was pinned, a name or a description another server's tool has. *)
Findings(key, d) ==
  LET others == {k \in Keys : k[1] # key[1] /\ defs[k] # Nothing}
  IN {d.poison}
     \cup {Critical : x \in {1 : y \in {k \in {key} : pins[k] \notin {Nothing, d}}}}
     \cup {High : k \in {k \in others : k[2] = key[2]}}
     \cup {Medium : k \in {k \in others : /\ k[2] # key[2] /\ d.description # ""
                                          /\ defs[k].description = d.description}}

Blocks(findings) == \E rank \in findings : rank >= BlockAt

(* register_server, per tool: scan and remember the definition... *)
Define ==
  LET key == Job("refresh").key
      d == Job("refresh").def
      blocked == Blocks(Findings(key, d))
  IN /\ At("refresh", "define")
     /\ defs' = [defs EXCEPT ![key] = d]
     /\ vetted' = IF ~blocked /\ pins[key] = Nothing THEN [vetted EXCEPT ![key] = @ \cup {d}]
                  ELSE vetted
     /\ Goto("refresh", IF blocked THEN "block" ELSE "pin")
     /\ UNCHANGED <<offered, pins, quarantine, registered, nameMap, requests, counts>>

(* Mutant: the tool is not noted. *)
QuarantineForgotten ==
  /\ At("refresh", "block")
  /\ Goto("refresh", "unregister")
  /\ UNCHANGED <<offered, guard, nameMap, requests, counts, vetted>>

(* ...then quarantine it and take its shim away... *)
Quarantine ==
  /\ At("refresh", "block")
  /\ quarantine' = quarantine \cup {Job("refresh").key}
  /\ Goto("refresh", "unregister")
  /\ UNCHANGED <<offered, defs, pins, registered, nameMap, requests, counts, vetted>>

Unregister ==
  /\ At("refresh", "unregister")
  /\ registered' = [registered EXCEPT ![Job("refresh").key] = Nothing]
  /\ NextTool("refresh")
  /\ UNCHANGED <<offered, defs, pins, quarantine, nameMap, requests, counts, vetted>>

(* ...or pin it, release it and register a shim, as an approval does.      *)
Pin(w) ==
  /\ At(w, "pin")
  /\ pins' = [pins EXCEPT ![Job(w).key] = Job(w).def]
  /\ vetted' = IF w = "approve" THEN [vetted EXCEPT ![Job(w).key] = @ \cup {Job(w).def}]
               ELSE vetted
  /\ Goto(w, "release")
  /\ UNCHANGED <<offered, defs, quarantine, registered, nameMap, requests, counts>>

Release(w) ==
  /\ At(w, "release")
  /\ quarantine' = quarantine \ {Job(w).key}
  /\ Goto(w, "drop")
  /\ UNCHANGED <<offered, defs, pins, registered, nameMap, requests, counts, vetted>>

Drop(w) ==
  /\ At(w, "drop")
  /\ registered' = [registered EXCEPT ![Job(w).key] = Nothing]
  /\ Goto(w, "register")
  /\ UNCHANGED <<offered, defs, pins, quarantine, nameMap, requests, counts, vetted>>

(* ToolRegistry.register raises on a name it holds, which ends the worker. *)
Register(w) ==
  LET key == Job(w).key
  IN /\ At(w, "register")
     /\ IF registered[key] = Nothing
        THEN registered' = [registered EXCEPT ![key] = Job(w).def] /\ NextTool(w)
        ELSE work' = [work EXCEPT ![w] = Idle] /\ UNCHANGED registered
     /\ UNCHANGED <<offered, defs, pins, quarantine, nameMap, requests, counts, vetted>>

(* is_callable *)
Callable(key) == pins[key] # Nothing /\ key \notin quarantine

Expose ==
  LET w == work["refresh"]
  IN /\ At("refresh", "expose")
     /\ nameMap' = nameMap \cup {key \in w.listed : Callable(key)}
     /\ work' = [work EXCEPT !["refresh"] =
                   IF w.server = Len(ServerOrder) THEN Idle
                   ELSE [Idle EXCEPT !.at = "list", !.server = w.server + 1]]
     /\ UNCHANGED <<offered, guard, requests, counts, vetted>>

(* approve_change re-pins the definition of the moment, unless it still    *)
(* fails the scan for poisoning.                                           *)
Approvable(key) == defs[key] # Nothing /\ ~Blocks({defs[key].poison})

Approve(key) ==
  /\ At("approve", "idle") /\ Count("approve")
  /\ Approvable(key)
  /\ work' = [work EXCEPT !["approve"] =
                [Idle EXCEPT !.at = "pin", !.todo = <<[key |-> key, def |-> defs[key]]>>]]
  /\ UNCHANGED <<offered, guard, nameMap, requests, vetted>>
-----------------------------------------------------------------------------
(* Requests. *)
Step(t, label, r) == pc' = [pc EXCEPT ![t] = label] /\ req' = [req EXCEPT ![t] = r]

End(t, how) ==
  /\ Step(t, "idle", NoRequest)
  /\ ended' = ended \cup {[how |-> how, calm |-> t \notin disturbed /\ ~overlapped]}

(* tools/list walks the map, which raises if it changes size meanwhile.    *)
List(t) ==
  /\ pc[t] = "idle" /\ Count("request")
  /\ Step(t, "listing", [NoRequest EXCEPT !.size = Cardinality(nameMap)])
  /\ UNCHANGED <<offered, guard, nameMap, work, ran, ended, vetted>>

Listed(t) ==
  /\ pc[t] = "listing"
  /\ End(t, IF Cardinality(nameMap) = req[t].size THEN "answered" ELSE "raised")
  /\ UNCHANGED <<offered, guard, nameMap, work, ran, counts, vetted>>

(* Who calls: an assertion that does not verify, or none where one is      *)
(* required, is refused.                                                   *)
Identified(assertion) ==
  Signed => IF assertion = "none" THEN ~Required ELSE assertion = "valid"

(* tools/call: the exposed name leads to a server's tool. *)
Request(t, key, assertion) ==
  /\ pc[t] = "idle" /\ Count("request")
  /\ IF key \in nameMap /\ Identified(assertion)
     THEN Step(t, "quarantined?", [NoRequest EXCEPT !.key = key]) /\ UNCHANGED ended
     ELSE End(t, "answered")
  /\ UNCHANGED <<offered, guard, nameMap, work, ran, vetted>>

(* guard_call: not quarantined... *)
CheckQuarantine(t) ==
  /\ pc[t] = "quarantined?"
  /\ Step(t, IF req[t].key \in quarantine THEN "why?" ELSE "drifted?", req[t])
  /\ UNCHANGED <<offered, guard, nameMap, work, ran, ended, counts, vetted>>

(* The refusal says why: a KeyError if the tool was released meanwhile.    *)
SayWhy(t) ==
  /\ pc[t] = "why?"
  /\ End(t, IF req[t].key \in quarantine THEN "answered" ELSE "raised")
  /\ UNCHANGED <<offered, guard, nameMap, work, ran, counts, vetted>>

(* ...pinned, and not drifted from the pin. *)
CheckPin(t) ==
  LET key == req[t].key
  IN /\ pc[t] = "drifted?"
     /\ IF pins[key] = Nothing \/ defs[key] # pins[key] THEN End(t, "answered")
        ELSE Step(t, "resolve", req[t]) /\ UNCHANGED ended
     /\ UNCHANGED <<offered, guard, nameMap, work, ran, counts, vetted>>

(* invoke_tool looks the tool up, which may be gone by now; its gates let  *)
(* the call pass or refuse it.                                             *)
Resolve(t) ==
  LET d == registered[req[t].key]
  IN /\ pc[t] = "resolve"
     /\ \/ d = Nothing /\ End(t, "raised")
        \/ d # Nothing /\ End(t, "answered")
        \/ d # Nothing /\ Step(t, "run", [req[t] EXCEPT !.def = d]) /\ UNCHANGED ended
     /\ UNCHANGED <<offered, guard, nameMap, work, ran, counts, vetted>>

(* The shim calls the server.  What it raises, handle lets through.        *)
Run(t) ==
  /\ pc[t] = "run"
  /\ ran' = ran \cup {[key |-> req[t].key, def |-> req[t].def]}
  /\ \/ End(t, "answered")
     \/ "call" \in Faults /\ End(t, "server raised")
  /\ UNCHANGED <<offered, guard, nameMap, work, counts, vetted>>
-----------------------------------------------------------------------------
Operation ==
  \/ \E s \in Servers, n \in Names, d \in Definitions \cup {Nothing} : Change(s, n, d)
  \/ Refresh \/ ListTools \/ ListFails \/ Define \/ Quarantine \/ Unregister \/ Expose
  \/ \E w \in Workers : Pin(w) \/ Release(w) \/ Drop(w) \/ Register(w)
  \/ \E key \in Keys : Approve(key)
  \/ \E t \in Threads :
       \/ List(t) \/ Listed(t)
       \/ \E key \in Keys, assertion \in {"none", "valid", "invalid"} : Request(t, key, assertion)
       \/ CheckQuarantine(t) \/ SayWhy(t) \/ CheckPin(t) \/ Resolve(t) \/ Run(t)

Next ==
  /\ Operation
  /\ overlapped' = (overlapped \/ \A w \in Workers : work'[w].at # "idle")
  /\ disturbed' = {t \in Threads : /\ pc'[t] # "idle"
                                   /\ t \in disturbed \/ \E w \in Workers : work'[w].at # "idle"}

Spec == Init /\ [][Next]_vars
-----------------------------------------------------------------------------
(* No rug pull: whatever refreshes, approvals and calls overlap, a tool    *)
(* only ever runs behind the definition seen first or one approved.        *)
RunsAsVetted == \A r \in ran : r.def \in vetted[r.key]

(* A definition that fails the scan for poisoning never runs, not even     *)
(* after an approval.                                                      *)
PoisonNeverRuns == \A r \in ran : ~Blocks({r.def.poison})

(* With refreshes and approvals done, what is exposed can be called: it is *)
(* pinned, out of quarantine and, if no approval overlapped a refresh,     *)
(* registered.  (One that did may leave a callable tool unregistered.)     *)
ExposedCallable ==
  (\A w \in Workers : At(w, "idle")) =>
    \A key \in nameMap :
      /\ pins[key] # Nothing /\ key \notin quarantine
      /\ (~overlapped => registered[key] \in vetted[key])

(* Exceptions of the registry, of a walk over the map and of a lookup in   *)
(* the quarantine are not caught: they end the proxy's loop.  A request    *)
(* that no refresh or approval overlaps, nor one of which has overlapped   *)
(* the other, meets none.                                                  *)
CalmCallsAnswered == [how |-> "raised", calm |-> TRUE] \notin ended

(* What ran was vetted and passed the scan.                                *)
OnlyVettedRuns == RunsAsVetted /\ PoisonNeverRuns

(* What is exposed is served.                                              *)
ExposedServed == ExposedCallable /\ CalmCallsAnswered
=============================================================================
