---------------------------- MODULE Boundary_proofs ----------------------------
(***************************************************************************)
(* The gateway, for any number of downstreams, tools, definitions and      *)
(* request threads, whatever refreshes, approvals and requests overlap;    *)
(* the sandbox, for any tree of processes, whatever they do when; and the  *)
(* audit trail, for any threads and events, whatever fails or restarts.    *)
(***************************************************************************)
EXTENDS Boundary, FiniteSetTheorems, TLAPS

(* What a worker does with one tool, and the part of it that follows when  *)
(* nothing blocks the tool.                                                *)
Filing == {"pin", "release", "drop", "register"}
Busy == {"define", "block", "unregister"} \cup Filing
Jobs == [key : Keys, def : Definitions]
Work == [at : {"idle", "list", "expose"} \cup Busy, todo : Seq(Jobs), server : Nat,
         listed : SUBSET Keys]

(* A refresh works on the tools of one server; an approval on one tool.    *)
WorkOK(w) ==
  /\ work[w] \in Work
  /\ work[w].at \in Busy => work[w].todo # << >>
  /\ w = "approve" => work[w].at \in {"idle"} \cup Filing
  /\ w = "approve" /\ work[w].at \in Filing => Len(work[w].todo) = 1
  /\ w = "refresh" /\ work[w].at # "idle" =>
       /\ work[w].server \in DOMAIN ServerOrder
       /\ \A i \in DOMAIN work[w].todo : work[w].todo[i].key[1] = ServerOrder[work[w].server]
       /\ \A k \in work[w].listed : k[1] = ServerOrder[work[w].server]

Calling == {"quarantined?", "why?", "drifted?", "resolve", "run"}
Sizes == {Cardinality(S) : S \in SUBSET Keys} \cup {0}
RequestTypes == [key : Keys \cup {Nothing}, size : Sizes, def : Definitions \cup {Nothing}]

Types ==
  /\ offered \in [Servers -> [Names -> Definitions \cup {Nothing}]]
  /\ defs \in [Keys -> Definitions \cup {Nothing}]
  /\ pins \in [Keys -> Definitions \cup {Nothing}]
  /\ registered \in [Keys -> Definitions \cup {Nothing}]
  /\ vetted \in [Keys -> SUBSET Definitions]
  /\ quarantine \subseteq Keys /\ nameMap \subseteq Keys
  /\ DOMAIN work = Workers /\ \A w \in Workers : WorkOK(w)
  /\ pc \in [Threads -> {"idle", "listing"} \cup Calling]
  /\ req \in [Threads -> RequestTypes]
  /\ \A t \in Threads : /\ pc[t] = "idle" => req[t] = NoRequest
                        /\ pc[t] \in Calling => req[t].key \in Keys

(* The guard and the workers, which no request touches.                    *)
guarding == <<offered, guard, nameMap, work, vetted>>

(* What a worker changes of its own record, the other keeping its.         *)
OnlyWorker(w) == DOMAIN work' = Workers /\ \A v \in Workers \ {w} : work'[v] = work[v]

(* A busy worker has a tool in hand, one of its server's.                  *)
LEMMA JobTyped ==
  ASSUME Types, NEW w \in Workers, work[w].at \in Busy
  PROVE  /\ Job(w) \in Jobs /\ Job(w).key \in Keys /\ Job(w).def \in Definitions
         /\ w = "refresh" => Job(w).key[1] = ServerOrder[work[w].server]
<1>1. WorkOK(w) /\ work[w].todo # << >> /\ work[w].todo \in Seq(Jobs)
  BY DEF Types, WorkOK, Work
<1>2. 1 \in DOMAIN work[w].todo /\ work[w].todo[1] \in Jobs
  BY <1>1
<1>3. w = "refresh" => Job(w).key[1] = ServerOrder[work[w].server]
  BY <1>1, <1>2 DEF WorkOK, Job, Busy, Filing
<1> QED BY <1>2, <1>3 DEF Job, Jobs

(* A worker that moves on with the same tool. *)
LEMMA GotoTyped ==
  ASSUME Types, NEW w \in Workers, work[w].at \in Busy, NEW label \in Busy,
         w = "approve" => label \in Filing, Goto(w, label)
  PROVE  /\ OnlyWorker(w) /\ WorkOK(w)'
         /\ work'[w].at = label /\ work'[w].todo = work[w].todo
         /\ work'[w].server = work[w].server /\ work'[w].listed = work[w].listed
<1>1. WorkOK(w) /\ DOMAIN work = Workers
  BY DEF Types
<1>2. work' = [work EXCEPT ![w] = [work[w] EXCEPT !.at = label]]
  BY DEF Goto
<1>3. work'[w] = [work[w] EXCEPT !.at = label] /\ OnlyWorker(w)
  BY <1>1, <1>2 DEF OnlyWorker
<1>4. work'[w] \in Work /\ work'[w].at = label /\ work'[w].todo = work[w].todo
      /\ work'[w].server = work[w].server /\ work'[w].listed = work[w].listed
  BY <1>1, <1>3 DEF WorkOK, Work
<1>5. WorkOK(w)'
  BY <1>1, <1>4 DEF WorkOK, Busy, Filing
<1> QED BY <1>3, <1>4, <1>5

(* A worker that goes on to its next tool, or is done with them. *)
LEMMA NextToolTyped ==
  ASSUME Types, NEW w \in Workers, work[w].at \in Busy, NextTool(w)
  PROVE  /\ OnlyWorker(w) /\ WorkOK(w)'
         /\ work'[w].at \in {"idle", "define", "expose"}
         /\ work'[w].at # "idle" => /\ work'[w].server = work[w].server
                                    /\ work'[w].listed = work[w].listed
         /\ w = "approve" => work'[w].at = "idle"
         /\ w = "refresh" => work'[w].at # "idle"
<1> DEFINE rest == Tail(work[w].todo)
<1>1. /\ WorkOK(w) /\ DOMAIN work = Workers /\ work[w].todo # << >>
      /\ work[w] \in Work /\ work[w].todo \in Seq(Jobs)
  BY DEF Types, WorkOK, Work
<1>2. /\ rest \in Seq(Jobs) /\ Len(rest) = Len(work[w].todo) - 1
      /\ \A i \in DOMAIN rest : i + 1 \in DOMAIN work[w].todo /\ rest[i] = work[w].todo[i + 1]
  BY <1>1
<1>3. w = "approve" => Len(work[w].todo) = 1
  BY <1>1 DEF WorkOK, Busy, Filing
<1>4. w = "approve" => rest = << >>
  BY <1>2, <1>3
<1> HIDE DEF rest
<1>5. w \in {"refresh", "approve"}
  BY DEF Workers
<1>6. Idle \in Work
  BY DEF Idle, Work, Busy, Filing
<1>7. CASE rest # << >>
  <2>1. work' = [work EXCEPT ![w] = [work[w] EXCEPT !.todo = rest, !.at = "define"]]
    BY <1>7 DEF NextTool, rest
  <2>2. work'[w] = [work[w] EXCEPT !.todo = rest, !.at = "define"] /\ OnlyWorker(w)
    BY <1>1, <2>1 DEF OnlyWorker
  <2>3. work'[w] \in Work /\ work'[w].at = "define" /\ work'[w].todo = rest
        /\ work'[w].server = work[w].server /\ work'[w].listed = work[w].listed
    BY <1>1, <1>2, <2>2 DEF Work, Busy, Filing
  <2>4. w = "refresh"
    BY <1>4, <1>5, <1>7
  <2>5. WorkOK(w)'
    BY <1>1, <1>2, <1>7, <2>3, <2>4 DEF WorkOK, Busy, Filing
  <2> QED BY <2>2, <2>3, <2>4, <2>5
<1>8. CASE rest = << >> /\ w = "refresh"
  <2>1. work' = [work EXCEPT ![w] = [work[w] EXCEPT !.todo = rest, !.at = "expose"]]
    BY <1>8 DEF NextTool, rest
  <2>2. work'[w] = [work[w] EXCEPT !.todo = rest, !.at = "expose"] /\ OnlyWorker(w)
    BY <1>1, <2>1 DEF OnlyWorker
  <2>3. work'[w] \in Work /\ work'[w].at = "expose" /\ work'[w].todo = rest
        /\ work'[w].server = work[w].server /\ work'[w].listed = work[w].listed
    BY <1>1, <1>2, <2>2 DEF Work, Busy, Filing
  <2>4. WorkOK(w)'
    BY <1>1, <1>2, <1>8, <2>3 DEF WorkOK, Busy, Filing
  <2> QED BY <1>8, <2>2, <2>3, <2>4
<1>9. CASE rest = << >> /\ w = "approve"
  <2>1. work' = [work EXCEPT ![w] = Idle]
    BY <1>9 DEF NextTool, rest
  <2>2. work'[w] = Idle /\ OnlyWorker(w)
    BY <1>1, <2>1 DEF OnlyWorker
  <2>3. WorkOK(w)'
    BY <1>6, <1>9, <2>2 DEF WorkOK, Idle, Busy, Filing
  <2> QED BY <1>9, <2>2, <2>3 DEF Idle
<1> QED BY <1>5, <1>7, <1>8, <1>9

(* A worker that stops. *)
LEMMA StopTyped ==
  ASSUME Types, NEW w \in Workers, work' = [work EXCEPT ![w] = Idle]
  PROVE  OnlyWorker(w) /\ WorkOK(w)' /\ work'[w] = Idle
<1>1. work'[w] = Idle /\ OnlyWorker(w)
  BY DEF Types, OnlyWorker
<1>2. Idle \in Work /\ Idle.at = "idle" /\ "idle" \notin Busy /\ "idle" \notin Filing
  BY DEF Work, Idle, Busy, Filing
<1>3. WorkOK(w)'
  BY <1>1, <1>2 DEF WorkOK
<1> QED BY <1>1, <1>3

(* The other worker's part of the invariant needs nothing but its record.  *)
LEMMA WorkersTyped ==
  ASSUME Types, NEW w \in Workers, OnlyWorker(w), WorkOK(w)'
  PROVE  DOMAIN work' = Workers /\ \A v \in Workers : WorkOK(v)'
<1>1. ASSUME NEW v \in Workers \ {w} PROVE WorkOK(v)'
  BY <1>1 DEF Types, OnlyWorker, WorkOK
<1> QED BY <1>1 DEF OnlyWorker

(* A request that moves. *)
LEMMA RequestTyped ==
  ASSUME Types, UNCHANGED guarding, NEW t \in Threads,
         NEW label \in {"idle", "listing"} \cup Calling, NEW r \in RequestTypes,
         label = "idle" => r = NoRequest, label \in Calling => r.key \in Keys,
         Step(t, label, r)
  PROVE  Types'
<1>1. /\ pc' \in [Threads -> {"idle", "listing"} \cup Calling]
      /\ req' \in [Threads -> RequestTypes]
      /\ \A u \in Threads : /\ pc'[u] = "idle" => req'[u] = NoRequest
                            /\ pc'[u] \in Calling => req'[u].key \in Keys
  BY DEF Types, Step
<1>2. /\ offered' = offered /\ defs' = defs /\ pins' = pins /\ registered' = registered
      /\ quarantine' = quarantine /\ nameMap' = nameMap /\ work' = work /\ vetted' = vetted
  BY DEF guarding, guard
<1>3. \A w \in Workers : WorkOK(w)'
  BY <1>2 DEF Types, WorkOK
<1> QED BY <1>1, <1>2, <1>3 DEF Types

(* The requests of a gateway are typed. *)
LEMMA EmptyTyped ==
  /\ NoRequest \in RequestTypes /\ NoRequest.key = Nothing /\ NoRequest.size = 0
  /\ \A t \in Threads : Types => req[t] \in RequestTypes
  BY DEF NoRequest, RequestTypes, Sizes, Types

(* What a worker's step must show of the types. *)
LEMMA WorkerTyped ==
  ASSUME Types, UNCHANGED <<offered, pc, req>>, NEW w \in Workers, OnlyWorker(w), WorkOK(w)',
         defs' \in [Keys -> Definitions \cup {Nothing}],
         pins' \in [Keys -> Definitions \cup {Nothing}],
         registered' \in [Keys -> Definitions \cup {Nothing}],
         vetted' \in [Keys -> SUBSET Definitions],
         quarantine' \subseteq Keys, nameMap' \subseteq Keys
  PROVE  Types'
  BY WorkersTyped DEF Types

(* A function on 1..n is a sequence of its values. *)
LEMMA SequenceOf ==
  ASSUME NEW S, NEW n \in Nat, NEW f \in [1..n -> S]
  PROVE  f \in Seq(S) /\ Len(f) = n
  OBVIOUS

(* Listing a server hands its tools to the refresh, in some order. *)
LEMMA ListTyped ==
  ASSUME GatewayAssumption, Types, ListTools
  PROVE  OnlyWorker("refresh") /\ WorkOK("refresh")'
         /\ work'["refresh"].at \in {"define", "expose"}
         /\ work'["refresh"].server = work["refresh"].server
<1> DEFINE W == work["refresh"]
           S == ServerOrder[W.server]
           Some == {n \in Names : offered[S][n] # Nothing}
           Todo(order) == [i \in DOMAIN order |-> [key |-> <<S, order[i]>>, def |-> offered[S][order[i]]]]
<1>1. PICK order \in [1..Cardinality(Some) -> Some] :
        work' = [work EXCEPT !["refresh"] =
                   [W EXCEPT !.at = IF Some = {} THEN "expose" ELSE "define",
                             !.todo = Todo(order), !.listed = {<<S, n>> : n \in Some}]]
  BY Zenon DEF ListTools
<1>2. PICK w, s, listed, todo, keys :
        /\ w = W /\ s = S /\ listed = Some /\ todo = Todo(order)
        /\ keys = {<<S, n>> : n \in Some}
  OBVIOUS
<1>a. /\ order \in [1..Cardinality(listed) -> listed]
      /\ listed = {n \in Names : offered[s][n] # Nothing}
      /\ todo = [i \in DOMAIN order |-> [key |-> <<s, order[i]>>, def |-> offered[s][order[i]]]]
      /\ keys = {<<s, n>> : n \in listed}
      /\ work' = [work EXCEPT !["refresh"] =
                      [w EXCEPT !.at = IF listed = {} THEN "expose" ELSE "define",
                                !.todo = todo, !.listed = keys]]
  BY <1>1, <1>2
<1>b. w = work["refresh"] /\ s = ServerOrder[w.server]
  BY <1>2
<1> HIDE DEF W, S, Some, Todo
<1>3. /\ w.at = "list" /\ WorkOK("refresh") /\ w \in Work /\ DOMAIN work = Workers
      /\ "refresh" \in Workers
  <2>1. "refresh" \in Workers
    BY DEF Workers
  <2>2. WorkOK("refresh") /\ DOMAIN work = Workers
    BY <2>1, SMTT(30) DEF Types
  <2>3. w.at = "list"
    BY <1>b, Zenon DEF ListTools, At
  <2>4. w \in Work
    BY <1>b, <2>2 DEF WorkOK
  <2> QED BY <2>1, <2>2, <2>3, <2>4
<1>4. w.server \in DOMAIN ServerOrder /\ s \in Servers
  <2>1. w.server \in DOMAIN ServerOrder
    BY <1>b, <1>3 DEF WorkOK
  <2> QED BY <1>b, <2>1 DEF Servers
<1>5. IsFiniteSet(listed) /\ Cardinality(listed) \in Nat /\ (Cardinality(listed) = 0 <=> listed = {})
  <2>1. listed \subseteq Names /\ IsFiniteSet(Names)
    BY <1>a DEF GatewayAssumption
  <2>2. IsFiniteSet(listed)
    BY <2>1, FS_Subset
  <2> QED BY <2>2, FS_CardinalityType, FS_EmptySet
<1>6. \A n \in listed : <<s, n>> \in Keys /\ offered[s][n] \in Definitions
  BY <1>a, <1>4 DEF Types, Keys
<1>7. ASSUME NEW i \in DOMAIN order
      PROVE  /\ todo[i] = [key |-> <<s, order[i]>>, def |-> offered[s][order[i]]]
             /\ todo[i] \in Jobs /\ todo[i].key[1] = s
  <2>1. order[i] \in listed
    BY <1>a, <1>7
  <2>2. todo[i] = [key |-> <<s, order[i]>>, def |-> offered[s][order[i]]]
    BY <1>a, <1>7
  <2>3. <<s, order[i]>> \in Keys /\ offered[s][order[i]] \in Definitions
    BY <1>6, <2>1
  <2>4. todo[i] \in Jobs /\ todo[i].key = <<s, order[i]>>
    BY <2>2, <2>3 DEF Jobs
  <2> QED BY <2>2, <2>4
<1>8. DOMAIN order = 1..Cardinality(listed) /\ DOMAIN todo = DOMAIN order
  BY <1>a
<1>9. /\ todo \in Seq(Jobs) /\ (listed # {} => todo # << >>)
      /\ \A i \in DOMAIN todo : todo[i].key[1] = s
  <2>1. \A i \in DOMAIN todo : todo[i] \in Jobs
    BY <1>7, <1>8
  <2>2. todo = [i \in DOMAIN todo |-> todo[i]]
    BY <1>a
  <2>3. todo \in [1..Cardinality(listed) -> Jobs]
    BY <1>8, <2>1, <2>2
  <2>4. todo \in Seq(Jobs) /\ Len(todo) = Cardinality(listed)
    BY <2>3, <1>5, SequenceOf
  <2>5. listed # {} => todo # << >>
    BY <2>4, <1>5
  <2> QED BY <1>7, <1>8, <2>4, <2>5
<1>10. keys \subseteq Keys /\ \A k \in keys : k[1] = s
  BY <1>a, <1>6
<1>11. /\ work'["refresh"] = [w EXCEPT !.at = IF listed = {} THEN "expose" ELSE "define",
                                       !.todo = todo, !.listed = keys]
       /\ OnlyWorker("refresh")
  BY <1>a, <1>3 DEF OnlyWorker
<1>12. /\ work'["refresh"] \in Work
       /\ work'["refresh"].at = IF listed = {} THEN "expose" ELSE "define"
       /\ work'["refresh"].todo = todo /\ work'["refresh"].listed = keys
       /\ work'["refresh"].server = w.server
  BY <1>3, <1>9, <1>10, <1>11 DEF Work, Busy, Filing
<1>13. WorkOK("refresh")'
  BY <1>b, <1>4, <1>9, <1>10, <1>12 DEF WorkOK, Busy, Filing
<1> QED BY <1>b, <1>11, <1>12, <1>13
-----------------------------------------------------------------------------
(* How each worker's step moves its record: one tool further along, on to  *)
(* the next tool, or to rest.                                              *)
Moves(w) == OnlyWorker(w) /\ WorkOK(w)'

LEMMA WorkerMoves ==
  ASSUME GatewayAssumption, Types
  PROVE  /\ Refresh => Moves("refresh") /\ work'["refresh"].at = "list"
         /\ ListTools => Moves("refresh")
         /\ ListFails => Moves("refresh")
         /\ Define => Moves("refresh")
         /\ Quarantine => Moves("refresh")
         /\ Unregister => Moves("refresh")
         /\ Expose => Moves("refresh")
         /\ \A w \in Workers : Pin(w) \/ Release(w) \/ Drop(w) \/ Register(w) => Moves(w)
         /\ \A key \in Keys : Approve(key) => Moves("approve")
<1>w. "refresh" \in Workers /\ "approve" \in Workers
  BY DEF Workers
<1>1. ASSUME Refresh PROVE Moves("refresh") /\ work'["refresh"].at = "list"
  <2>1. /\ work'["refresh"] = [Idle EXCEPT !.at = "list", !.server = 1]
        /\ OnlyWorker("refresh")
    BY <1>1, <1>w DEF Refresh, Types, OnlyWorker
  <2>2. work'["refresh"] = [at |-> "list", todo |-> << >>, server |-> 1, listed |-> {}]
    BY <2>1 DEF Idle
  <2>3. 1 \in DOMAIN ServerOrder
    BY DEF GatewayAssumption
  <2>4. WorkOK("refresh")'
    <3>1. work'["refresh"] \in Work
      BY <2>2 DEF Work
    <3> QED BY <2>2, <2>3, <3>1 DEF WorkOK, Busy, Filing
  <2> QED BY <2>1, <2>2, <2>4 DEF Moves
<1>2. ListTools => Moves("refresh")
  BY ListTyped DEF Moves
<1>3. ListFails => Moves("refresh")
  BY <1>w, StopTyped DEF Moves, ListFails
<1>4. Define => Moves("refresh")
  <2> SUFFICES ASSUME Define PROVE Moves("refresh")
    OBVIOUS
  <2>1. work["refresh"].at \in Busy
    BY DEF Define, At, Busy
  <2>2. Goto("refresh", "block") \/ Goto("refresh", "pin")
    BY DEF Define
  <2> QED BY <1>w, <2>1, <2>2, GotoTyped DEF Moves, Busy, Filing
<1>5. Quarantine => Moves("refresh")
  BY <1>w, GotoTyped DEF Moves, Quarantine, At, Busy, Filing
<1>6. Unregister => Moves("refresh")
  BY <1>w, NextToolTyped DEF Moves, Unregister, At, Busy, Filing
<1>7. ASSUME Expose PROVE Moves("refresh")
  <2> DEFINE w == work["refresh"]
  <2>1. w.at = "expose" /\ WorkOK("refresh") /\ w.server \in DOMAIN ServerOrder
    BY <1>7, <1>w DEF Expose, At, Types, WorkOK
  <2>2. CASE w.server = Len(ServerOrder)
    BY <1>7, <1>w, <2>2, StopTyped DEF Expose, Moves
  <2>3. CASE w.server # Len(ServerOrder)
    <3>1. /\ work'["refresh"] = [Idle EXCEPT !.at = "list", !.server = w.server + 1]
          /\ OnlyWorker("refresh")
      BY <1>7, <1>w, <2>3 DEF Expose, Types, OnlyWorker
    <3>2. work'["refresh"] = [at |-> "list", todo |-> << >>, server |-> w.server + 1,
                              listed |-> {}]
      BY <3>1 DEF Idle
    <3>3. w.server + 1 \in DOMAIN ServerOrder /\ w.server + 1 \in Nat
      BY <2>1, <2>3 DEF GatewayAssumption
    <3>4. WorkOK("refresh")'
      <4>1. work'["refresh"] \in Work
        BY <3>2, <3>3 DEF Work
      <4> QED BY <3>2, <3>3, <4>1 DEF WorkOK, Busy, Filing
    <3> QED BY <3>1, <3>4 DEF Moves
  <2> QED BY <2>2, <2>3
<1>8. ASSUME NEW w \in Workers, Pin(w) \/ Release(w) \/ Drop(w) \/ Register(w) PROVE Moves(w)
  <2>1. CASE Pin(w)
    BY <2>1, GotoTyped DEF Moves, Pin, At, Busy, Filing
  <2>2. CASE Release(w)
    BY <2>2, GotoTyped DEF Moves, Release, At, Busy, Filing
  <2>3. CASE Drop(w)
    BY <2>3, GotoTyped DEF Moves, Drop, At, Busy, Filing
  <2>4. CASE Register(w)
    BY <2>4, NextToolTyped, StopTyped DEF Moves, Register, At, Busy, Filing
  <2> QED BY <1>8, <2>1, <2>2, <2>3, <2>4
<1>9. ASSUME NEW key \in Keys, Approve(key) PROVE Moves("approve")
  <2>1. /\ work'["approve"] =
             [Idle EXCEPT !.at = "pin", !.todo = <<[key |-> key, def |-> defs[key]]>>]
        /\ OnlyWorker("approve")
    BY <1>9, <1>w DEF Approve, Types, OnlyWorker
  <2>2. work'["approve"] = [at |-> "pin", todo |-> <<[key |-> key, def |-> defs[key]]>>,
                            server |-> 0, listed |-> {}]
    BY <2>1 DEF Idle
  <2>3. [key |-> key, def |-> defs[key]] \in Jobs
    BY <1>9 DEF Approve, Approvable, Types, Jobs
  <2>4. WorkOK("approve")'
    <3>1. work'["approve"] \in Work
      BY <2>2, <2>3 DEF Work, Busy, Filing
    <3> QED BY <2>2, <3>1 DEF WorkOK, Busy, Filing
  <2> QED BY <2>1, <2>4 DEF Moves
<1> QED BY <1>1, <1>2, <1>3, <1>4, <1>5, <1>6, <1>7, <1>8, <1>9

(* Every step keeps the types. *)
LEMMA TypesStep == GatewayAssumption /\ Types /\ [Next]_vars => Types'
<1> SUFFICES ASSUME GatewayAssumption, Types, [Next]_vars PROVE Types'
  OBVIOUS
<1>w. "refresh" \in Workers /\ "approve" \in Workers
  BY DEF Workers
<1>1. ASSUME NEW s \in Servers, NEW n \in Names, NEW d \in Definitions \cup {Nothing},
             Change(s, n, d)
      PROVE  Types'
  <2>1. offered' \in [Servers -> [Names -> Definitions \cup {Nothing}]]
    BY <1>1 DEF Change, Types
  <2>2. \A w \in Workers : WorkOK(w)'
    BY <1>1 DEF Change, Types, WorkOK
  <2> QED BY <1>1, <2>1, <2>2 DEF Change, Types, guard, requests
<1>2. ASSUME Refresh \/ ListTools \/ ListFails PROVE Types'
  <2>1. Moves("refresh") /\ UNCHANGED <<offered, pc, req, defs, pins, registered, quarantine, vetted>>
        /\ nameMap' \in {nameMap, {}}
    <3>1. Moves("refresh")
      BY <1>2, WorkerMoves
    <3> QED BY <1>2, <3>1, Zenon DEF Refresh, ListTools, ListFails, guard, requests
  <2> QED BY <1>w, <2>1, WorkerTyped, SMTT(30) DEF Moves, Types
<1>3. ASSUME Define PROVE Types'
  <2>1. Job("refresh").key \in Keys /\ Job("refresh").def \in Definitions
    BY <1>3, <1>w, JobTyped DEF Define, At, Busy
  <2>2. /\ Moves("refresh")
        /\ UNCHANGED <<offered, pc, req, pins, registered, quarantine, nameMap>>
    BY <1>3, WorkerMoves DEF Define, requests
  <2>3. defs' \in [Keys -> Definitions \cup {Nothing}] /\ vetted' \in [Keys -> SUBSET Definitions]
    BY <1>3, <2>1 DEF Define, Types
  <2> QED BY <1>w, <2>2, <2>3, WorkerTyped DEF Moves, Types
<1>4. ASSUME Quarantine \/ Unregister PROVE Types'
  <2>1. Job("refresh").key \in Keys
    BY <1>4, <1>w, JobTyped DEF Quarantine, Unregister, At, Busy
  <2>2. Moves("refresh") /\ UNCHANGED <<offered, pc, req, defs, pins, vetted, nameMap>>
    BY <1>4, WorkerMoves DEF Quarantine, Unregister, requests
  <2>3. quarantine' \subseteq Keys /\ registered' \in [Keys -> Definitions \cup {Nothing}]
    BY <1>4, <2>1 DEF Quarantine, Unregister, Types
  <2> QED BY <1>w, <2>2, <2>3, WorkerTyped DEF Moves, Types
<1>5. ASSUME Expose PROVE Types'
  <2>1. work["refresh"].listed \subseteq Keys
    BY <1>w DEF Types, WorkOK, Work
  <2>2. Moves("refresh") /\ UNCHANGED <<offered, pc, req, defs, pins, registered, quarantine, vetted>>
    BY <1>5, WorkerMoves DEF Expose, guard, requests
  <2>3. nameMap' \subseteq Keys
    BY <1>5, <2>1 DEF Expose, Types
  <2> QED BY <1>w, <2>2, <2>3, WorkerTyped DEF Moves, Types
<1>6. ASSUME NEW w \in Workers, Pin(w) \/ Release(w) \/ Drop(w) \/ Register(w) PROVE Types'
  <2>1. Job(w).key \in Keys /\ Job(w).def \in Definitions
    BY <1>6, JobTyped DEF Pin, Release, Drop, Register, At, Busy, Filing
  <2>2. Moves(w) /\ UNCHANGED <<offered, pc, req, defs, nameMap>>
    BY <1>6, WorkerMoves DEF Pin, Release, Drop, Register, requests
  <2>3. pins' \in [Keys -> Definitions \cup {Nothing}] /\ vetted' \in [Keys -> SUBSET Definitions]
    BY <1>6, <2>1 DEF Pin, Release, Drop, Register, Types
  <2>4. quarantine' \subseteq Keys /\ registered' \in [Keys -> Definitions \cup {Nothing}]
    BY <1>6, <2>1 DEF Pin, Release, Drop, Register, Types
  <2> QED BY <2>2, <2>3, <2>4, WorkerTyped DEF Moves, Types
<1>7. ASSUME NEW key \in Keys, Approve(key) PROVE Types'
  <2>1. Moves("approve")
        /\ UNCHANGED <<offered, pc, req, defs, pins, registered, quarantine, vetted, nameMap>>
    BY <1>7, WorkerMoves DEF Approve, guard, requests
  <2> QED BY <1>w, <2>1, WorkerTyped DEF Moves, Types
<1>8. ASSUME NEW t \in Threads, List(t) PROVE Types'
  <2>1. [NoRequest EXCEPT !.size = Cardinality(nameMap)] \in RequestTypes
    BY DEF NoRequest, RequestTypes, Sizes, Types
  <2>2. Step(t, "listing", [NoRequest EXCEPT !.size = Cardinality(nameMap)]) /\ UNCHANGED guarding
    BY <1>8 DEF List, guarding
  <2>3. "listing" \notin Calling
    BY DEF Calling
  <2> QED BY <2>1, <2>2, <2>3, RequestTyped
<1>9. ASSUME NEW t \in Threads, \E how : End(t, how), UNCHANGED guarding PROVE Types'
  <2>1. Step(t, "idle", NoRequest) /\ "idle" \notin Calling
    BY <1>9 DEF End, Calling
  <2> QED BY <1>9, <2>1, EmptyTyped, RequestTyped
<1>10. ASSUME NEW t \in Threads, NEW label \in Calling, NEW r \in RequestTypes, r.key \in Keys,
              Step(t, label, r), UNCHANGED guarding
       PROVE  Types'
  BY <1>10, RequestTyped DEF Calling
<1>11. ASSUME NEW t \in Threads, Listed(t) \/ Run(t) PROVE Types'
  <2>1. (\E how : End(t, how)) /\ UNCHANGED guarding
    BY <1>11 DEF Listed, Run, guarding
  <2> QED BY <1>9, <2>1
<1>12. ASSUME NEW t \in Threads, NEW key \in Keys, NEW assertion, Request(t, key, assertion)
       PROVE  Types'
  <2>1. [NoRequest EXCEPT !.key = key] \in RequestTypes /\ [NoRequest EXCEPT !.key = key].key = key
    BY DEF NoRequest, RequestTypes, Sizes
  <2>2. /\ Step(t, "quarantined?", [NoRequest EXCEPT !.key = key]) \/ End(t, "answered")
        /\ UNCHANGED guarding
    BY <1>12 DEF Request, guarding
  <2> QED BY <1>9, <1>10, <2>1, <2>2 DEF Calling
<1>13. ASSUME NEW t \in Threads, CheckQuarantine(t) \/ SayWhy(t) \/ CheckPin(t) PROVE Types'
  <2>1. /\ (\E how : End(t, how)) \/ \E label \in Calling : Step(t, label, req[t])
        /\ UNCHANGED guarding
    BY <1>13 DEF CheckQuarantine, SayWhy, CheckPin, guarding, Calling
  <2>2. req[t] \in RequestTypes /\ req[t].key \in Keys
    BY <1>13 DEF CheckQuarantine, SayWhy, CheckPin, Types, Calling
  <2> QED BY <1>9, <1>10, <2>1, <2>2
<1>14. ASSUME NEW t \in Threads, Resolve(t) PROVE Types'
  <2>1. req[t] \in RequestTypes /\ req[t].key \in Keys
    BY <1>14 DEF Resolve, Types, Calling
  <2> DEFINE d == registered[req[t].key]
  <2>2. d \in Definitions \cup {Nothing}
    BY <2>1 DEF Types
  <2>3. [req[t] EXCEPT !.def = d] \in RequestTypes /\ [req[t] EXCEPT !.def = d].key = req[t].key
    BY <2>1, <2>2 DEF RequestTypes
  <2>4. /\ (\E how : End(t, how)) \/ Step(t, "run", [req[t] EXCEPT !.def = d])
        /\ UNCHANGED guarding
    BY <1>14 DEF Resolve, guarding
  <2> QED BY <1>9, <1>10, <2>1, <2>3, <2>4 DEF Calling
<1>15. ASSUME UNCHANGED vars PROVE Types'
  <2>1. \A w \in Workers : WorkOK(w)'
    BY <1>15 DEF vars, Types, WorkOK
  <2> QED BY <1>15, <2>1 DEF vars, guard, requests, Types
<1> QED BY <1>1, <1>2, <1>3, <1>4, <1>5, <1>6, <1>7, <1>8, <1>11, <1>12, <1>13, <1>14, <1>15
        DEF Next, Operation
-----------------------------------------------------------------------------
(* A definition that passes the scan for poisoning.                        *)
Clean(d) == ~Blocks({d.poison})

(* What a worker has in hand is fit for what it is about to do with it: a  *)
(* refresh comes to pin what it vetted, an approval what passed the scan.  *)
Carries(w) ==
  LET k == Job(w).key
      d == Job(w).def
  IN /\ At(w, "pin") => /\ defs[k] # Nothing /\ Clean(d)
                        /\ w = "refresh" => d \in vetted[k]
     /\ work[w].at \in {"release", "drop", "register"} =>
          d \in vetted[k] /\ pins[k] # Nothing /\ defs[k] # Nothing

KeyVetted(k) ==
  /\ pins[k] # Nothing => pins[k] \in vetted[k]
  /\ registered[k] # Nothing => /\ registered[k] \in vetted[k]
                                /\ pins[k] # Nothing /\ defs[k] # Nothing
  /\ \A d \in vetted[k] : Clean(d)

VettedInv ==
  /\ \A k \in Keys : KeyVetted(k)
  /\ \A w \in Workers : Carries(w)
  /\ \A t \in Threads : pc[t] = "run" => req[t].def \in vetted[req[t].key]
  /\ \A r \in ran : r.key \in Keys /\ r.def \in vetted[r.key]

(* No step withdraws a vetting, or forgets a tool that it knew.            *)
Grows ==
  \A k \in Keys : /\ vetted[k] \subseteq vetted'[k]
                  /\ pins[k] # Nothing => pins'[k] # Nothing
                  /\ defs[k] # Nothing => defs'[k] # Nothing

(* A worker that another one overtakes still carries what it did.          *)
LEMMA StillCarries ==
  ASSUME Types, VettedInv, Grows, NEW w \in Workers, NEW v \in Workers \ {w}, OnlyWorker(w)
  PROVE  Carries(v)'
<1>1. work'[v] = work[v] /\ Carries(v)
  BY DEF OnlyWorker, VettedInv
<1>2. work[v].at \in Busy => Job(v).key \in Keys
  BY JobTyped
<1> QED BY <1>1, <1>2 DEF Carries, Grows, At, Job, Busy, Filing

(* Steps of a worker, and of a request. *)
LEMMA VettedByWorker ==
  ASSUME Types, VettedInv, Grows, NEW w \in Workers, OnlyWorker(w), UNCHANGED <<pc, req, ran>>,
         Carries(w)', \A k \in Keys : KeyVetted(k)'
  PROVE  VettedInv'
<1>1. \A v \in Workers : Carries(v)'
  BY StillCarries
<1>2. \A t \in Threads : pc[t] = "run" => req[t].key \in Keys
  BY DEF Types, Calling
<1> QED BY <1>1, <1>2 DEF VettedInv, Grows

(* A request only matters when it is about to run, or runs. *)
LEMMA VettedByRequest ==
  ASSUME Types, VettedInv, UNCHANGED guarding, NEW t \in Threads, NEW label, NEW r,
         Step(t, label, r), label = "run" => r.def \in vetted[r.key],
         \A x \in ran' \ ran : x.key \in Keys /\ x.def \in vetted[x.key]
  PROVE  VettedInv'
<1>1. /\ defs' = defs /\ pins' = pins /\ registered' = registered
      /\ work' = work /\ vetted' = vetted
  BY DEF guarding, guard
<1>2. /\ \A k \in Keys : KeyVetted(k)'
      /\ \A w \in Workers : Carries(w)'
  BY <1>1 DEF VettedInv, KeyVetted, Carries, At, Job
<1>3. \A u \in Threads : pc'[u] = "run" => req'[u].def \in vetted[req'[u].key]
  BY DEF VettedInv, Step, Types
<1> QED BY <1>1, <1>2, <1>3 DEF VettedInv

(* A tool that passes the whole scan has no pin or the one it had.         *)
LEMMA UnblockedIsPinned ==
  ASSUME GatewayAssumption, NEW key \in Keys, NEW d \in Definitions, ~Blocks(Findings(key, d))
  PROVE  Clean(d) /\ pins[key] \in {Nothing, d}
<1>1. d.poison \in Findings(key, d)
  BY DEF Findings
<1>2. Clean(d)
  BY <1>1 DEF Clean, Blocks
<1>3. ASSUME pins[key] \notin {Nothing, d} PROVE FALSE
  <2>1. Critical \in Findings(key, d)
    BY <1>3 DEF Findings
  <2>2. Critical >= BlockAt
    BY DEF Critical, GatewayAssumption, Ranks
  <2> QED BY <2>1, <2>2 DEF Blocks
<1> QED BY <1>2, <1>3

(* Every step keeps what is vetted. *)
LEMMA VettedStep == GatewayAssumption /\ Types /\ VettedInv /\ [Next]_vars => VettedInv'
<1> SUFFICES ASSUME GatewayAssumption, Types, VettedInv, [Next]_vars PROVE VettedInv'
  OBVIOUS
<1>w. "refresh" \in Workers /\ "approve" \in Workers
  BY DEF Workers
<1>a. ASSUME UNCHANGED <<guard, work, vetted, pc, req, ran>> PROVE VettedInv'
  BY <1>a DEF VettedInv, KeyVetted, Carries, guard, At, Job
<1>b. UNCHANGED <<defs, pins, vetted>> => Grows
  BY DEF Grows
<1>c. ASSUME NEW k \in Keys, UNCHANGED <<defs, pins, registered, vetted>> PROVE KeyVetted(k)'
  BY <1>c DEF VettedInv, KeyVetted
<1>1. ASSUME Refresh \/ ListTools \/ ListFails \/ Expose PROVE VettedInv'
  <2>1. /\ Moves("refresh") /\ UNCHANGED <<defs, pins, registered, vetted, pc, req, ran>>
    <3>1. Moves("refresh")
      BY <1>1, WorkerMoves
    <3> QED BY <1>1, <3>1, Zenon DEF Refresh, ListTools, ListFails, Expose, guard, requests
  <2>2. work'["refresh"].at \in {"idle", "list", "define", "expose"}
    <3>1. CASE Refresh
      BY <3>1, WorkerMoves
    <3>2. CASE ListTools
      BY <3>2, ListTyped
    <3>3. CASE ListFails
      <4>1. work'["refresh"] = Idle
        BY <3>3, <1>w, StopTyped DEF ListFails
      <4> QED BY <4>1 DEF Idle
    <3>4. CASE Expose
      BY <3>4, <1>w DEF Expose, Types, Idle
    <3> QED BY <1>1, <3>1, <3>2, <3>3, <3>4
  <2>3. Carries("refresh")'
    BY <2>2 DEF Carries, At
  <2> QED BY <1>w, <1>b, <1>c, <2>1, <2>3, VettedByWorker, SMTT(30) DEF Moves
<1>2. ASSUME Define PROVE VettedInv'
  <2> DEFINE key == Job("refresh").key
             d == Job("refresh").def
  <2>1. key \in Keys /\ d \in Definitions /\ d # Nothing
    BY <1>2, <1>w, JobTyped DEF Define, At, Busy, GatewayAssumption
  <2>2. /\ defs' = [defs EXCEPT ![key] = d]
        /\ vetted' = IF ~Blocks(Findings(key, d)) /\ pins[key] = Nothing
                     THEN [vetted EXCEPT ![key] = @ \cup {d}] ELSE vetted
        /\ Goto("refresh", IF Blocks(Findings(key, d)) THEN "block" ELSE "pin")
        /\ UNCHANGED <<pins, registered, pc, req, ran>>
    BY <1>2 DEF Define, requests
  <2>3. ~Blocks(Findings(key, d)) => Clean(d) /\ pins[key] \in {Nothing, d}
    BY <2>1, UnblockedIsPinned
  <2>4. /\ OnlyWorker("refresh")
        /\ work'["refresh"].at = IF Blocks(Findings(key, d)) THEN "block" ELSE "pin"
        /\ work'["refresh"].todo = work["refresh"].todo
    BY <1>2, <1>w, <2>2, GotoTyped DEF Define, At, Busy, Filing
  <2> HIDE DEF key, d
  <2>5. Grows
    BY <2>1, <2>2 DEF Grows, Types
  <2>6. ASSUME NEW k \in Keys PROVE KeyVetted(k)'
    <3>1. KeyVetted(k) /\ vetted[k] \subseteq vetted'[k]
      BY <2>5 DEF VettedInv, Grows
    <3>2. defs[k] # Nothing => defs'[k] # Nothing
      BY <2>5 DEF Grows
    <3>3. \A x \in vetted'[k] : Clean(x)
      BY <2>1, <2>2, <2>3, <3>1 DEF KeyVetted, Types
    <3> QED BY <2>2, <3>1, <3>2, <3>3 DEF KeyVetted
  <2>7. Carries("refresh")'
    <3>1. CASE Blocks(Findings(key, d))
      BY <2>4, <3>1 DEF Carries, At
    <3>2. CASE ~Blocks(Findings(key, d))
      <4>1. Job("refresh")' = Job("refresh")
        BY <2>4 DEF Job
      <4>2. d \in vetted'[key] /\ defs'[key] = d
        BY <2>1, <2>2, <2>3, <3>2 DEF VettedInv, KeyVetted, Types
      <4> QED BY <2>1, <2>3, <2>4, <3>2, <4>1, <4>2 DEF Carries, At, key, d
    <3> QED BY <3>1, <3>2
  <2> QED BY <1>w, <2>2, <2>4, <2>5, <2>6, <2>7, VettedByWorker
<1>3. ASSUME Quarantine PROVE VettedInv'
  <2>1. /\ UNCHANGED <<defs, pins, registered, vetted, pc, req, ran>>
        /\ OnlyWorker("refresh") /\ work'["refresh"].at = "unregister"
    BY <1>3, <1>w, GotoTyped DEF Quarantine, requests, At, Busy
  <2>2. Carries("refresh")'
    BY <2>1 DEF Carries, At
  <2> QED BY <1>w, <1>b, <1>c, <2>1, <2>2, VettedByWorker
<1>4. ASSUME Unregister PROVE VettedInv'
  <2>1. /\ UNCHANGED <<defs, pins, vetted, pc, req, ran>>
        /\ OnlyWorker("refresh") /\ work'["refresh"].at \in {"idle", "define", "expose"}
    BY <1>4, <1>w, NextToolTyped DEF Unregister, requests, At, Busy
  <2>2. Carries("refresh")'
    BY <2>1 DEF Carries, At
  <2>3. \A k \in Keys : registered'[k] \in {registered[k], Nothing}
    BY <1>4 DEF Unregister, Types
  <2>4. \A k \in Keys : KeyVetted(k)'
    BY <2>1, <2>3 DEF VettedInv, KeyVetted
  <2> QED BY <1>w, <1>b, <2>1, <2>2, <2>4, VettedByWorker
<1>5. ASSUME NEW w \in Workers, Pin(w) PROVE VettedInv'
  <2> DEFINE key == Job(w).key
             d == Job(w).def
  <2>1. key \in Keys /\ d \in Definitions /\ d # Nothing
    BY <1>5, JobTyped DEF Pin, At, Busy, Filing, GatewayAssumption
  <2>2. /\ pins' = [pins EXCEPT ![key] = d]
        /\ vetted' = IF w = "approve" THEN [vetted EXCEPT ![key] = @ \cup {d}] ELSE vetted
        /\ UNCHANGED <<defs, registered, pc, req, ran>> /\ work[w].at = "pin"
    BY <1>5 DEF Pin, requests, At
  <2>3. OnlyWorker(w) /\ work'[w].at = "release" /\ work'[w].todo = work[w].todo
    BY <1>5, GotoTyped DEF Pin, At, Busy, Filing
  <2>4. defs[key] # Nothing /\ Clean(d) /\ (w = "refresh" => d \in vetted[key])
    BY <2>2 DEF VettedInv, Carries, At
  <2>5. Job(w)' = Job(w)
    BY <2>3 DEF Job
  <2> HIDE DEF key, d
  <2>6. Grows
    BY <2>1, <2>2 DEF Grows, Types
  <2>7. d \in vetted'[key]
    BY <2>1, <2>2, <2>4 DEF Types, Workers
  <2>8. ASSUME NEW k \in Keys PROVE KeyVetted(k)'
    <3>1. KeyVetted(k) /\ vetted[k] \subseteq vetted'[k]
      BY <2>6 DEF VettedInv, Grows
    <3>2. \A x \in vetted'[k] : Clean(x)
      BY <2>1, <2>2, <2>4, <3>1 DEF KeyVetted, Types
    <3>3. pins'[k] # Nothing => pins'[k] \in vetted'[k]
      BY <2>1, <2>2, <2>7, <3>1 DEF KeyVetted, Types
    <3>4. pins[k] # Nothing => pins'[k] # Nothing
      BY <2>6 DEF Grows
    <3> QED BY <2>2, <3>1, <3>2, <3>3, <3>4 DEF KeyVetted
  <2>9. Carries(w)'
    <3>1. pins'[key] # Nothing /\ defs'[key] # Nothing
      BY <2>1, <2>2, <2>4 DEF Types
    <3> QED BY <2>3, <2>5, <2>7, <3>1 DEF Carries, At, key, d
  <2> QED BY <2>2, <2>3, <2>6, <2>8, <2>9, VettedByWorker
<1>6. ASSUME NEW w \in Workers, Release(w) \/ Drop(w) PROVE VettedInv'
  <2>1. /\ UNCHANGED <<defs, pins, vetted, pc, req, ran>>
        /\ OnlyWorker(w) /\ work'[w].at \in {"drop", "register"}
        /\ work[w].at \in {"release", "drop"} /\ work'[w].todo = work[w].todo
    BY <1>6, GotoTyped DEF Release, Drop, requests, At, Busy, Filing
  <2>2. Carries(w)'
    <3>1. Carries(w) /\ Job(w)' = Job(w)
      BY <2>1 DEF VettedInv, Job
    <3> QED BY <2>1, <3>1 DEF Carries, At
  <2>3. \A k \in Keys : registered'[k] \in {registered[k], Nothing}
    BY <1>6 DEF Release, Drop, Types
  <2>4. \A k \in Keys : KeyVetted(k)'
    BY <2>1, <2>3 DEF VettedInv, KeyVetted
  <2> QED BY <1>b, <2>1, <2>2, <2>4, VettedByWorker
<1>7. ASSUME NEW w \in Workers, Register(w) PROVE VettedInv'
  <2> DEFINE key == Job(w).key
             d == Job(w).def
  <2>1. /\ UNCHANGED <<defs, pins, vetted, pc, req, ran>>
        /\ OnlyWorker(w) /\ work'[w].at \in {"idle", "define", "expose"}
        /\ work[w].at = "register"
    BY <1>7, NextToolTyped, StopTyped DEF Register, requests, At, Busy, Filing, Idle
  <2>2. Carries(w)'
    BY <2>1 DEF Carries, At
  <2>3. d \in vetted[key] /\ pins[key] # Nothing /\ defs[key] # Nothing
    BY <2>1 DEF VettedInv, Carries
  <2>4. \A k \in Keys : registered'[k] = registered[k] \/ (k = key /\ registered'[k] = d)
    BY <1>7 DEF Register, Types
  <2>5. ASSUME NEW k \in Keys PROVE KeyVetted(k)'
    <3>1. KeyVetted(k)
      BY DEF VettedInv
    <3> QED BY <2>1, <2>3, <2>4, <3>1 DEF KeyVetted
  <2> QED BY <1>b, <2>1, <2>2, <2>5, VettedByWorker
<1>8. ASSUME NEW key \in Keys, Approve(key) PROVE VettedInv'
  <2>1. /\ UNCHANGED <<defs, pins, registered, vetted, pc, req, ran>> /\ OnlyWorker("approve")
    BY <1>8, WorkerMoves DEF Approve, guard, requests, Moves
  <2>2. /\ work'["approve"].at = "pin"
        /\ work'["approve"].todo = <<[key |-> key, def |-> defs[key]]>>
    BY <1>8, <1>w DEF Approve, Types, Idle
  <2>3. Job("approve")' = [key |-> key, def |-> defs[key]]
    BY <2>2 DEF Job
  <2>4. defs[key] # Nothing /\ Clean(defs[key])
    BY <1>8 DEF Approve, Approvable, Clean
  <2>5. Carries("approve")'
    BY <2>1, <2>2, <2>3, <2>4 DEF Carries, At
  <2> QED BY <1>w, <1>b, <1>c, <2>1, <2>5, VettedByWorker
<1>9. ASSUME NEW t \in Threads, NEW r, NEW label, label # "run",
             Step(t, label, r), UNCHANGED <<guarding, ran>>
      PROVE  VettedInv'
  BY <1>9, VettedByRequest
<1>10. ASSUME NEW t \in Threads, List(t) \/ Listed(t) \/ CheckQuarantine(t) \/ SayWhy(t) \/ CheckPin(t)
                                 \/ \E key \in Keys : \E assertion : Request(t, key, assertion)
       PROVE  VettedInv'
  <2>1. UNCHANGED <<guarding, ran>>
    BY <1>10 DEF List, Listed, CheckQuarantine, SayWhy, CheckPin, Request, End, guarding
  <2>2. \E label, r : label # "run" /\ Step(t, label, r)
    BY <1>10 DEF List, Listed, CheckQuarantine, SayWhy, CheckPin, Request, End
  <2> QED BY <1>9, <2>1, <2>2
<1>11. ASSUME NEW t \in Threads, Resolve(t) PROVE VettedInv'
  <2> DEFINE d == registered[req[t].key]
  <2>1. req[t].key \in Keys /\ req[t] \in RequestTypes
    BY <1>11 DEF Resolve, Types, Calling
  <2>2. CASE \E how : End(t, how)
    BY <1>9, <1>11, <2>2 DEF Resolve, End, guarding
  <2>3. CASE d # Nothing /\ Step(t, "run", [req[t] EXCEPT !.def = d])
    <3>1. [req[t] EXCEPT !.def = d].def = d /\ [req[t] EXCEPT !.def = d].key = req[t].key
      BY <2>1 DEF RequestTypes
    <3>2. d \in vetted[req[t].key]
      BY <2>1, <2>3 DEF VettedInv, KeyVetted
    <3>3. UNCHANGED <<guarding, ran>>
      BY <1>11 DEF Resolve, guarding
    <3> QED BY <2>3, <3>1, <3>2, <3>3, VettedByRequest
  <2> QED BY <1>11, <2>2, <2>3 DEF Resolve
<1>12. ASSUME NEW t \in Threads, Run(t) PROVE VettedInv'
  <2>1. /\ Step(t, "idle", NoRequest) /\ UNCHANGED guarding
        /\ ran' = ran \cup {[key |-> req[t].key, def |-> req[t].def]} /\ pc[t] = "run"
    BY <1>12 DEF Run, End, guarding
  <2>2. req[t].key \in Keys /\ req[t].def \in vetted[req[t].key]
    BY <2>1 DEF VettedInv, Types, Calling
  <2> QED BY <2>1, <2>2, VettedByRequest
<1>13. ASSUME NEW s \in Servers, NEW n \in Names, NEW d \in Definitions \cup {Nothing},
              Change(s, n, d)
       PROVE  VettedInv'
  BY <1>13, <1>a DEF Change, requests
<1>14. CASE UNCHANGED vars
  BY <1>14, <1>a DEF vars, requests
<1> QED BY <1>1, <1>2, <1>3, <1>4, <1>5, <1>6, <1>7, <1>8, <1>10, <1>11, <1>12, <1>13, <1>14
        DEF Next, Operation
-----------------------------------------------------------------------------
(* What the workers and the requests may rely on about what is exposed.    *)
(* A refresh exposes server by server, so what it exposed so far belongs   *)
(* to servers it has left.                                                 *)
ExposedBefore ==
  work["refresh"].at # "idle" =>
    \A k \in nameMap : \A j \in DOMAIN ServerOrder :
      j >= work["refresh"].server => ServerOrder[j] # k[1]

(* A worker about to (re)register the tool it has released.                *)
Registering(k) ==
  \E w \in Workers : work[w].at \in {"release", "drop", "register"} /\ Job(w).key = k

(* While approvals and refreshes keep out of each other's way, a callable  *)
(* tool has a shim, or gets one before its worker turns to anything else.  *)
CallableRegistered ==
  ~overlapped =>
    /\ \A k \in Keys : Callable(k) => registered[k] # Nothing \/ Registering(k)
    /\ work["refresh"].at = "unregister" => Job("refresh").key \in quarantine

Resting == \A w \in Workers : work[w].at = "idle"

(* A request that nothing has disturbed still sees the map it started on,  *)
(* and the quarantine.                                                     *)
Undisturbed(t) ==
  t \notin disturbed /\ pc[t] # "idle" =>
    /\ Resting
    /\ pc[t] = "listing" => req[t].size = Cardinality(nameMap)
    /\ pc[t] = "why?" => req[t].key \in quarantine
    /\ pc[t] \in {"quarantined?", "drifted?", "resolve"} => req[t].key \in nameMap

ServedInv ==
  /\ overlapped \in BOOLEAN
  /\ (\A w \in Workers : work[w].at # "idle") => overlapped
  /\ \A k \in nameMap : Callable(k)
  /\ ExposedBefore
  /\ CallableRegistered
  /\ \A t \in Threads : Undisturbed(t)
  /\ CalmCallsAnswered

(* What the invariant promises, from its parts.                            *)
LEMMA ServedFromParts ==
  ASSUME Types, VettedInv, ServedInv
  PROVE  ExposedServed
<1>1. ASSUME Resting, NEW k \in nameMap
      PROVE  /\ pins[k] # Nothing /\ k \notin quarantine
             /\ ~overlapped => registered[k] \in vetted[k]
  <2>1. k \in Keys /\ Callable(k) /\ ~Registering(k)
    BY <1>1 DEF Types, ServedInv, Registering, Resting
  <2>2. ~overlapped => registered[k] # Nothing
    BY <2>1 DEF ServedInv, CallableRegistered
  <2> QED BY <2>1, <2>2 DEF VettedInv, KeyVetted, Callable
<1> QED BY <1>1 DEF ServedInv, ExposedServed, ExposedCallable, Resting, At

(* What every step does to the histories of overlaps and disturbances.     *)
LEMMA Disturbs ==
  ASSUME ServedInv, Next
  PROVE  /\ overlapped' \in BOOLEAN /\ (overlapped => overlapped')
         /\ (\A w \in Workers : work'[w].at # "idle") => overlapped'
         /\ \A t \in Threads : t \notin disturbed' /\ pc'[t] # "idle" =>
              t \notin disturbed /\ \A w \in Workers : work'[w].at = "idle"
  BY DEF ServedInv, Next

(* A step of a worker disturbs every request that is under way.            *)
LEMMA ServedByWorker ==
  ASSUME Types, ServedInv, Next, NEW w \in Workers, UNCHANGED <<pc, req, ended>>,
         work[w].at # "idle" \/ work'[w].at # "idle" \/ UNCHANGED <<nameMap, quarantine>>,
         \A k \in nameMap' : Callable(k)', ExposedBefore', CallableRegistered'
  PROVE  ServedInv'
<1>1. ASSUME NEW t \in Threads PROVE Undisturbed(t)'
  <2> SUFFICES ASSUME t \notin disturbed', pc'[t] # "idle" PROVE Undisturbed(t)'
    BY DEF Undisturbed
  <2>1. pc[t] # "idle" /\ t \notin disturbed /\ \A v \in Workers : work'[v].at = "idle"
    BY Disturbs
  <2>2. Undisturbed(t) /\ Resting
    BY <2>1 DEF ServedInv, Undisturbed
  <2>3. nameMap' = nameMap /\ quarantine' = quarantine
    BY <2>1, <2>2 DEF Resting
  <2> QED BY <2>1, <2>2, <2>3 DEF Undisturbed, Resting
<1>2. CalmCallsAnswered'
  BY DEF ServedInv, CalmCallsAnswered
<1> QED BY <1>1, <1>2, Disturbs DEF ServedInv

(* A step of a request touches neither the guard nor the workers.          *)
LEMMA ServedByRequest ==
  ASSUME Types, ServedInv, Next, UNCHANGED guarding, NEW t \in Threads, NEW label, NEW r,
         Step(t, label, r),
         label = "listing" => r.size = Cardinality(nameMap),
         label = "why?" => r.key \in quarantine,
         label \in {"quarantined?", "drifted?", "resolve"} /\ t \notin disturbed => r.key \in nameMap,
         CalmCallsAnswered'
  PROVE  ServedInv'
<1>1. /\ pins' = pins /\ quarantine' = quarantine /\ registered' = registered
      /\ work' = work /\ nameMap' = nameMap /\ defs' = defs
  BY DEF guarding, guard
<1>2. ASSUME NEW u \in Threads PROVE Undisturbed(u)'
  <2> SUFFICES ASSUME u \notin disturbed', pc'[u] # "idle" PROVE Undisturbed(u)'
    BY DEF Undisturbed
  <2>1. u \notin disturbed /\ \A v \in Workers : work'[v].at = "idle"
    BY Disturbs
  <2>2. CASE u = t
    <3>1. pc'[u] = label /\ req'[u] = r
      BY <2>2 DEF Step, Types
    <3> QED BY <1>1, <2>1, <2>2, <3>1 DEF Undisturbed, Resting
  <2>3. CASE u # t
    <3>1. pc'[u] = pc[u] /\ req'[u] = req[u]
      BY <2>3 DEF Step, Types
    <3>2. Undisturbed(u)
      BY DEF ServedInv
    <3> QED BY <1>1, <2>1, <3>1, <3>2 DEF Undisturbed, Resting
  <2> QED BY <2>2, <2>3
<1>3. /\ \A k \in nameMap' : Callable(k)'
      /\ ExposedBefore'
  BY <1>1 DEF ServedInv, Callable, ExposedBefore
<1>4. CallableRegistered'
  <2>1. \A k \in Keys : (Callable(k)' <=> Callable(k)) /\ (Registering(k)' <=> Registering(k))
    BY <1>1 DEF Callable, Registering, Job
  <2>2. Job("refresh")' = Job("refresh")
    BY <1>1 DEF Job
  <2> QED BY <1>1, <2>1, <2>2, Disturbs DEF ServedInv, CallableRegistered
<1> QED BY <1>2, <1>3, <1>4, Disturbs DEF ServedInv

(* A worker's step that neither pins, quarantines nor (un)registers, and   *)
(* comes from and leads to where no shim is due.                           *)
LEMMA ServedAside ==
  ASSUME Types, ServedInv, Next, NEW w \in Workers, OnlyWorker(w), UNCHANGED guard,
         work[w].at \notin {"release", "drop", "register"},
         work'[w].at \notin {"release", "drop", "register", "unregister"}
  PROVE  CallableRegistered'
<1>1. pins' = pins /\ quarantine' = quarantine /\ registered' = registered
  BY DEF guard
<1>2. ASSUME NEW k \in Keys PROVE (Callable(k)' <=> Callable(k)) /\ (Registering(k) => Registering(k)')
  BY <1>1 DEF Callable, Registering, OnlyWorker, Job
<1>3. work'["refresh"].at = "unregister" => work'["refresh"] = work["refresh"]
  BY DEF OnlyWorker, Workers
<1> QED BY <1>1, <1>2, <1>3, Disturbs DEF ServedInv, CallableRegistered, Job

(* Nothing that is exposed becomes uncallable while pins and quarantine    *)
(* are left alone.                                                         *)
LEMMA StillCallable ==
  ASSUME ServedInv, UNCHANGED <<pins, quarantine>>, nameMap' \subseteq nameMap
  PROVE  \A k \in nameMap' : Callable(k)'
  BY DEF ServedInv, Callable

(* A refresh that goes on with the same server, and one at rest. *)
LEMMA StillBefore ==
  ASSUME ServedInv, nameMap' \subseteq nameMap,
         work'["refresh"].at # "idle" =>
           work["refresh"].at # "idle" /\ work'["refresh"].server = work["refresh"].server
  PROVE  ExposedBefore'
  BY DEF ServedInv, ExposedBefore

(* Two workers that are both at work have overlapped. *)
LEMMA Alone ==
  ASSUME ServedInv, Next, NEW w \in Workers, NEW v \in Workers \ {w},
         \/ work[w].at # "idle" /\ work[v].at # "idle"
         \/ work'[w].at # "idle" /\ work'[v].at # "idle"
  PROVE  overlapped'
<1>1. Workers = {w, v}
  BY DEF Workers
<1> QED BY <1>1, Disturbs DEF ServedInv

(* What each step does to the registered tools, while nothing overlaps.    *)
LEMMA RegisteredStep ==
  ASSUME GatewayAssumption, Types, ServedInv, Next, NEW w \in Workers,
         Pin(w) \/ Release(w) \/ Drop(w) \/ Register(w)
  PROVE  CallableRegistered'
<1> SUFFICES ASSUME ~overlapped' PROVE CallableRegistered'
  BY DEF CallableRegistered
<1>k. PICK key, d : key = Job(w).key /\ d = Job(w).def
  OBVIOUS
<1>1. work[w].at \in Filing /\ work[w].at \in Busy
  BY DEF Pin, Release, Drop, Register, At, Busy, Filing
<1>2. key \in Keys /\ d \in Definitions /\ d # Nothing
  BY <1>1, <1>k, JobTyped DEF GatewayAssumption
<1>3. ~overlapped /\ \A v \in Workers \ {w} : work[v].at = "idle"
  <2>1. ~overlapped /\ work[w].at # "idle"
    BY <1>1, Disturbs DEF Filing
  <2>2. ASSUME NEW v \in Workers \ {w}, work[v].at # "idle" PROVE FALSE
    BY <2>1, <2>2, Alone
  <2> QED BY <2>1, <2>2
<1>4. OnlyWorker(w)
  BY WorkerMoves DEF Moves
<1>5. \A k \in Keys : Callable(k) => registered[k] # Nothing \/ Registering(k)
  BY <1>3 DEF ServedInv, CallableRegistered
<1>6. \A k \in Keys \ {key} : ~Registering(k) /\ (Callable(k)' <=> Callable(k))
                              /\ registered'[k] = registered[k]
  BY <1>2, <1>3, <1>k DEF Registering, Callable, Pin, Release, Drop, Register, Types
<1>7. registered'[key] # Nothing \/ Registering(key)'
  <2>1. CASE Pin(w) \/ Release(w) \/ Drop(w)
    <3>1. work'[w].at \in {"release", "drop", "register"} /\ work'[w].todo = work[w].todo
      BY <1>1, <2>1, GotoTyped DEF Pin, Release, Drop, Busy, Filing
    <3>2. Job(w)' = Job(w)
      BY <3>1 DEF Job
    <3> QED BY <1>k, <3>1, <3>2 DEF Registering
  <2>2. CASE Register(w)
    BY <1>2, <1>k, <2>2 DEF Register, Types
  <2> QED BY <2>1, <2>2
<1>8. work'["refresh"].at # "unregister"
  <2>1. work'[w].at # "unregister"
    <3>1. CASE Pin(w) \/ Release(w) \/ Drop(w)
      BY <1>1, <3>1, GotoTyped DEF Pin, Release, Drop, Busy, Filing
    <3>2. CASE Register(w)
      BY <1>1, <3>2, NextToolTyped, StopTyped DEF Register, Idle
    <3> QED BY <3>1, <3>2
  <2>2. CASE w = "refresh"
    BY <2>1, <2>2
  <2>3. CASE w # "refresh"
    <3>1. "refresh" \in Workers \ {w}
      BY <2>3 DEF Workers
    <3>2. work'["refresh"] = work["refresh"] /\ work["refresh"].at = "idle"
      BY <1>3, <1>4, <3>1 DEF OnlyWorker
    <3> QED BY <3>2
  <2> QED BY <2>2, <2>3
<1>9. \A k \in Keys : Callable(k)' => registered'[k] # Nothing \/ Registering(k)'
  BY <1>5, <1>6, <1>7
<1> QED BY <1>8, <1>9 DEF CallableRegistered

(* Every step keeps what is exposed served. *)
LEMMA ServedStep ==
  GatewayAssumption /\ Types /\ VettedInv /\ ServedInv /\ [Next]_vars => ServedInv'
<1> SUFFICES ASSUME GatewayAssumption, Types, VettedInv, ServedInv, [Next]_vars PROVE ServedInv'
  OBVIOUS
<1>w. "refresh" \in Workers /\ "approve" \in Workers /\ Workers = {"refresh", "approve"}
  BY DEF Workers
<1>1. ASSUME Next, Refresh PROVE ServedInv'
  <2>1. /\ OnlyWorker("refresh") /\ work'["refresh"].at = "list" /\ work["refresh"].at = "idle"
        /\ UNCHANGED <<guard, pc, req, ended>> /\ nameMap' = {}
    BY <1>1, WorkerMoves DEF Refresh, requests, Moves, At
  <2>2. ExposedBefore' /\ \A k \in nameMap' : Callable(k)'
    BY <2>1 DEF ExposedBefore
  <2>3. CallableRegistered'
    BY <1>1, <1>w, <2>1, ServedAside
  <2> QED BY <1>1, <1>w, <2>1, <2>2, <2>3, ServedByWorker
<1>2. ASSUME Next, ListTools \/ ListFails PROVE ServedInv'
  <2>1. /\ OnlyWorker("refresh") /\ work["refresh"].at = "list"
        /\ work'["refresh"].at \in {"define", "expose", "idle"}
        /\ work'["refresh"].at # "idle" => work'["refresh"].server = work["refresh"].server
        /\ UNCHANGED <<guard, nameMap, pc, req, ended>>
    <3>1. CASE ListTools
      BY <3>1, ListTyped, Zenon DEF ListTools, requests, At
    <3>2. CASE ListFails
      <4>1. OnlyWorker("refresh") /\ work'["refresh"] = Idle
        BY <3>2, <1>w, StopTyped DEF ListFails
      <4> QED BY <3>2, <4>1 DEF ListFails, requests, At, Idle
    <3> QED BY <1>2, <3>1, <3>2, SMTT(30)
  <2>2. ExposedBefore'
    BY <2>1, StillBefore
  <2>3. CallableRegistered'
    BY <1>2, <1>w, <2>1, ServedAside
  <2>4. \A k \in nameMap' : Callable(k)'
    BY <2>1, StillCallable DEF guard
  <2> QED BY <1>2, <1>w, <2>1, <2>2, <2>3, <2>4, ServedByWorker
<1>3. ASSUME Next, Define PROVE ServedInv'
  <2>1. /\ work["refresh"].at = "define" /\ UNCHANGED <<pins, quarantine, registered, nameMap>>
        /\ UNCHANGED <<pc, req, ended>> /\ (Goto("refresh", "block") \/ Goto("refresh", "pin"))
    BY <1>3 DEF Define, requests, At
  <2>2. /\ OnlyWorker("refresh") /\ work'["refresh"].at \in {"block", "pin"}
        /\ work'["refresh"].server = work["refresh"].server
    BY <1>w, <2>1, GotoTyped DEF Busy, Filing
  <2>3. ExposedBefore'
    BY <2>1, <2>2, StillBefore
  <2>4. CallableRegistered'
    <3>1. \A k \in Keys : (Callable(k)' <=> Callable(k)) /\ (Registering(k) => Registering(k)')
      BY <2>1, <2>2 DEF Callable, Registering, OnlyWorker, Job
    <3> QED BY <1>3, <2>1, <2>2, <3>1, Disturbs DEF ServedInv, CallableRegistered
  <2>5. \A k \in nameMap' : Callable(k)'
    BY <2>1, StillCallable
  <2> QED BY <1>3, <1>w, <2>1, <2>3, <2>4, <2>5, ServedByWorker
<1>4. ASSUME Next, Quarantine PROVE ServedInv'
  <2> DEFINE key == Job("refresh").key
  <2>1. /\ work["refresh"].at = "block" /\ UNCHANGED <<pins, registered, nameMap, pc, req, ended>>
        /\ quarantine' = quarantine \cup {key} /\ Goto("refresh", "unregister")
    BY <1>4 DEF Quarantine, requests, At
  <2>2. /\ OnlyWorker("refresh") /\ work'["refresh"].at = "unregister"
        /\ work'["refresh"].server = work["refresh"].server
        /\ work'["refresh"].todo = work["refresh"].todo
    BY <1>w, <2>1, GotoTyped DEF Busy, Filing
  <2>3. ExposedBefore'
    BY <2>1, <2>2, StillBefore
  <2>4. Job("refresh")' = Job("refresh")
    BY <2>2 DEF Job
  <2>5. CallableRegistered'
    <3>1. \A k \in Keys : (Callable(k)' => Callable(k)) /\ (Registering(k) => Registering(k)')
      BY <2>1, <2>2 DEF Callable, Registering, OnlyWorker, Job
    <3> QED BY <1>4, <2>1, <2>2, <2>4, <3>1, Disturbs DEF ServedInv, CallableRegistered
  <2>6. key \notin nameMap
    <3>1. key[1] = ServerOrder[work["refresh"].server]
      BY <1>w, <2>1, JobTyped DEF Busy, Filing
    <3>2. WorkOK("refresh")
      BY <1>w DEF Types
    <3>3. /\ work["refresh"].server \in DOMAIN ServerOrder
          /\ work["refresh"].server >= work["refresh"].server
      BY <2>1, <3>2 DEF WorkOK, Work
    <3> QED BY <2>1, <3>1, <3>3 DEF ServedInv, ExposedBefore
  <2>7. \A k \in nameMap' : Callable(k)'
    BY <2>1, <2>6 DEF ServedInv, Callable
  <2> QED BY <1>4, <1>w, <2>1, <2>3, <2>5, <2>7, ServedByWorker
<1>5. ASSUME Next, Unregister PROVE ServedInv'
  <2> DEFINE key == Job("refresh").key
  <2>1. /\ work["refresh"].at = "unregister" /\ UNCHANGED <<pins, quarantine, nameMap, pc, req, ended>>
        /\ registered' = [registered EXCEPT ![key] = Nothing] /\ NextTool("refresh")
    BY <1>5 DEF Unregister, requests, At
  <2>2. /\ OnlyWorker("refresh") /\ work'["refresh"].at \in {"define", "expose"}
        /\ work'["refresh"].server = work["refresh"].server
    BY <1>w, <2>1, NextToolTyped DEF Busy, Filing
  <2>3. ExposedBefore'
    BY <2>1, <2>2, StillBefore
  <2>4. CallableRegistered'
    <3>1. \A k \in Keys : (Callable(k)' <=> Callable(k)) /\ (Registering(k) => Registering(k)')
      BY <2>1, <2>2 DEF Callable, Registering, OnlyWorker, Job
    <3>2. \A k \in Keys \ {key} : registered'[k] = registered[k]
      BY <2>1 DEF Types
    <3>3. ~overlapped => key \in quarantine
      BY <2>1 DEF ServedInv, CallableRegistered
    <3>4. ~overlapped => ~Callable(key)
      BY <3>3 DEF Callable
    <3> QED BY <1>5, <2>2, <3>1, <3>2, <3>4, Disturbs DEF ServedInv, CallableRegistered
  <2>5. \A k \in nameMap' : Callable(k)'
    BY <2>1, StillCallable
  <2> QED BY <1>5, <1>w, <2>1, <2>3, <2>4, <2>5, ServedByWorker
<1>6. ASSUME Next, NEW w \in Workers, Pin(w) \/ Release(w) \/ Drop(w) \/ Register(w)
      PROVE  ServedInv'
  <2>1. work[w].at \in Filing /\ work[w].at # "idle" /\ work[w].at \in Busy
        /\ UNCHANGED <<nameMap, pc, req, ended>>
    BY <1>6 DEF Pin, Release, Drop, Register, At, Busy, Filing, requests
  <2>2. CallableRegistered'
    BY <1>6, RegisteredStep
  <2>3. Job(w).key \in Keys /\ Job(w).def # Nothing
    BY <2>1, JobTyped DEF GatewayAssumption
  <2>4. \A k \in nameMap' : Callable(k)'
    BY <1>6, <2>1, <2>3 DEF ServedInv, Callable, Pin, Release, Drop, Register, Types
  <2>5. ExposedBefore'
    <3>1. CASE w = "refresh"
      <4>1. work'[w].at # "idle" => work'[w].server = work[w].server
        <5>1. CASE Pin(w) \/ Release(w) \/ Drop(w)
          BY <2>1, <5>1, GotoTyped DEF Pin, Release, Drop, Busy, Filing
        <5>2. CASE Register(w) /\ NextTool(w)
          BY <2>1, <5>2, NextToolTyped
        <5>3. CASE work' = [work EXCEPT ![w] = Idle]
          <6>1. work'[w] = Idle
            BY <5>3, StopTyped
          <6> QED BY <6>1 DEF Idle
        <5> QED BY <1>6, <5>1, <5>2, <5>3 DEF Register
      <4> QED BY <2>1, <3>1, <4>1, StillBefore
    <3>2. CASE w # "refresh"
      <4>1. work'["refresh"] = work["refresh"]
        BY <1>6, <1>w, <3>2, WorkerMoves DEF Moves, OnlyWorker
      <4> QED BY <2>1, <4>1, StillBefore
    <3> QED BY <3>1, <3>2
  <2> QED BY <1>6, <2>1, <2>2, <2>4, <2>5, ServedByWorker
<1>7. ASSUME Next, Expose PROVE ServedInv'
  <2> DEFINE w == work["refresh"]
  <2>1. /\ w.at = "expose" /\ UNCHANGED <<guard, pc, req, ended>>
        /\ nameMap' = nameMap \cup {k \in w.listed : Callable(k)}
        /\ work' = [work EXCEPT !["refresh"] =
                      IF w.server = Len(ServerOrder) THEN Idle
                      ELSE [Idle EXCEPT !.at = "list", !.server = w.server + 1]]
    BY <1>7 DEF Expose, requests, At
  <2>2. OnlyWorker("refresh")
    BY <1>7, WorkerMoves DEF Moves
  <2>3. /\ work'["refresh"].at \in {"idle", "list"}
        /\ work'["refresh"].at = "list" => work'["refresh"].server = w.server + 1
    BY <1>w, <2>1 DEF Idle, Types
  <2>4. CallableRegistered'
    BY <1>7, <1>w, <2>1, <2>2, <2>3, ServedAside
  <2>5. \A k \in nameMap' : Callable(k)'
    BY <2>1 DEF ServedInv, Callable, guard
  <2>6. ExposedBefore'
    <3>1. WorkOK("refresh")
      BY <1>w DEF Types
    <3>2. w.server \in DOMAIN ServerOrder /\ w.server \in Nat /\ DOMAIN ServerOrder \subseteq Nat
          /\ \A k \in w.listed : k[1] = ServerOrder[w.server]
      BY <2>1, <3>1 DEF WorkOK, Work, GatewayAssumption
    <3>3. ASSUME NEW k \in nameMap', NEW j \in DOMAIN ServerOrder, j >= w.server + 1
          PROVE  ServerOrder[j] # k[1]
      <4>1. j \in Nat /\ j >= w.server /\ j # w.server
        BY <3>2, <3>3
      <4>2. CASE k \in nameMap
        BY <2>1, <4>1, <4>2 DEF ServedInv, ExposedBefore
      <4>3. CASE k \in w.listed
        BY <3>2, <4>1, <4>3 DEF GatewayAssumption
      <4> QED BY <2>1, <4>2, <4>3
    <3> QED BY <2>3, <3>3 DEF ExposedBefore
  <2> QED BY <1>7, <1>w, <2>1, <2>4, <2>5, <2>6, ServedByWorker
<1>8. ASSUME Next, NEW key \in Keys, Approve(key) PROVE ServedInv'
  <2>1. /\ OnlyWorker("approve") /\ work["approve"].at = "idle"
        /\ UNCHANGED <<guard, nameMap, pc, req, ended>>
    BY <1>8, WorkerMoves DEF Approve, requests, Moves, At
  <2>2. work'["approve"].at = "pin" /\ work'["refresh"] = work["refresh"]
    BY <1>8, <1>w DEF Approve, Types, Idle
  <2>3. ExposedBefore'
    BY <2>1, <2>2, StillBefore
  <2>4. CallableRegistered'
    BY <1>8, <1>w, <2>1, <2>2, ServedAside
  <2>5. \A k \in nameMap' : Callable(k)'
    BY <2>1, StillCallable DEF guard
  <2> QED BY <1>8, <1>w, <2>1, <2>2, <2>3, <2>4, <2>5, ServedByWorker
<1>9. ASSUME Next, NEW s \in Servers, NEW n \in Names, NEW d \in Definitions \cup {Nothing},
             Change(s, n, d)
      PROVE  ServedInv'
  <2>1. UNCHANGED <<guard, nameMap, work, pc, req, ended>>
    BY <1>9 DEF Change, requests
  <2>q. quarantine' = quarantine
    BY <2>1 DEF guard
  <2>2. ExposedBefore'
    BY <2>1, StillBefore
  <2>3. CallableRegistered'
    <3>1. \A k \in Keys : (Callable(k)' <=> Callable(k)) /\ (Registering(k)' <=> Registering(k))
      BY <2>1 DEF Callable, Registering, Job, guard
    <3> QED BY <1>9, <2>1, <3>1, Disturbs DEF ServedInv, CallableRegistered, guard, Job
  <2>4. \A k \in nameMap' : Callable(k)'
    BY <2>1, StillCallable DEF guard
  <2> QED BY <1>9, <1>w, <2>1, <2>q, <2>2, <2>3, <2>4, ServedByWorker
<1>10. ASSUME Next, NEW t \in Threads, NEW how, End(t, how), UNCHANGED guarding,
              how = "raised" => t \in disturbed \/ overlapped
       PROVE  ServedInv'
  <2>1. /\ Step(t, "idle", NoRequest)
        /\ ended' = ended \cup {[how |-> how, calm |-> t \notin disturbed /\ ~overlapped]}
    BY <1>10 DEF End
  <2>2. CalmCallsAnswered'
    BY <1>10, <2>1 DEF ServedInv, CalmCallsAnswered
  <2> QED BY <1>10, <2>1, <2>2, ServedByRequest
<1>11. ASSUME Next, NEW t \in Threads, NEW label \in Calling, Step(t, label, req[t]),
              label = "why?" => req[t].key \in quarantine,
              UNCHANGED <<guarding, ended>>, pc[t] \in {"quarantined?", "drifted?"}
       PROVE  ServedInv'
  <2>1. t \notin disturbed => req[t].key \in nameMap
    BY <1>11 DEF ServedInv, Undisturbed
  <2>2. CalmCallsAnswered'
    BY <1>11 DEF ServedInv, CalmCallsAnswered
  <2> QED BY <1>11, <2>1, <2>2, ServedByRequest DEF Calling
<1>12. ASSUME Next, NEW t \in Threads, List(t) PROVE ServedInv'
  <2> DEFINE r == [NoRequest EXCEPT !.size = Cardinality(nameMap)]
  <2>1. Step(t, "listing", r) /\ UNCHANGED guarding /\ ended' = ended
    BY <1>12 DEF List, guarding
  <2>2. r.size = Cardinality(nameMap)
    BY DEF NoRequest
  <2>3. CalmCallsAnswered'
    BY <2>1 DEF ServedInv, CalmCallsAnswered
  <2> QED BY <1>12, <2>1, <2>2, <2>3, ServedByRequest
<1>13. ASSUME Next, NEW t \in Threads, Listed(t) PROVE ServedInv'
  <2>1. /\ pc[t] = "listing" /\ UNCHANGED guarding
        /\ End(t, IF Cardinality(nameMap) = req[t].size THEN "answered" ELSE "raised")
    BY <1>13 DEF Listed, guarding
  <2>2. t \notin disturbed => req[t].size = Cardinality(nameMap)
    BY <2>1 DEF ServedInv, Undisturbed
  <2> QED BY <1>10, <1>13, <2>1, <2>2
<1>14. ASSUME Next, NEW t \in Threads, NEW key \in Keys, NEW assertion, Request(t, key, assertion)
       PROVE  ServedInv'
  <2> DEFINE r == [NoRequest EXCEPT !.key = key]
  <2>1. CASE End(t, "answered")
    BY <1>10, <1>14, <2>1 DEF Request, guarding
  <2>2. CASE key \in nameMap /\ Step(t, "quarantined?", r) /\ ended' = ended
    <3>1. r.key = key
      BY DEF NoRequest
    <3>2. CalmCallsAnswered' /\ UNCHANGED guarding
      BY <1>14, <2>2 DEF ServedInv, CalmCallsAnswered, Request, guarding
    <3> QED BY <1>14, <2>2, <3>1, <3>2, ServedByRequest
  <2> QED BY <1>14, <2>1, <2>2 DEF Request
<1>15. ASSUME Next, NEW t \in Threads, CheckQuarantine(t) \/ SayWhy(t) \/ CheckPin(t) PROVE ServedInv'
  <2>1. CASE CheckQuarantine(t) \/ CheckPin(t)
    <3>1. /\ pc[t] \in {"quarantined?", "drifted?"} /\ UNCHANGED guarding
          /\ \/ End(t, "answered")
             \/ \E label \in Calling : /\ Step(t, label, req[t]) /\ ended' = ended
                                       /\ label = "why?" => req[t].key \in quarantine
      BY <2>1 DEF CheckQuarantine, CheckPin, guarding, Calling
    <3> QED BY <1>10, <1>11, <1>15, <3>1
  <2>2. CASE SayWhy(t)
    <3>1. /\ pc[t] = "why?" /\ UNCHANGED guarding
          /\ End(t, IF req[t].key \in quarantine THEN "answered" ELSE "raised")
      BY <2>2 DEF SayWhy, guarding
    <3>2. t \notin disturbed => req[t].key \in quarantine
      BY <3>1 DEF ServedInv, Undisturbed
    <3> QED BY <1>10, <1>15, <3>1, <3>2
  <2> QED BY <1>15, <2>1, <2>2
<1>16. ASSUME Next, NEW t \in Threads, Resolve(t) PROVE ServedInv'
  <2> DEFINE d == registered[req[t].key]
  <2>1. pc[t] = "resolve" /\ UNCHANGED guarding
    BY <1>16 DEF Resolve, guarding
  <2>2. CASE d = Nothing /\ End(t, "raised")
    <3>1. ASSUME t \notin disturbed, ~overlapped PROVE FALSE
      <4>1. Resting /\ req[t].key \in nameMap
        BY <2>1, <3>1 DEF ServedInv, Undisturbed
      <4>2. Callable(req[t].key) /\ req[t].key \in Keys /\ ~Registering(req[t].key)
        BY <4>1 DEF ServedInv, Types, Registering, Resting
      <4> QED BY <2>2, <3>1, <4>2 DEF ServedInv, CallableRegistered
    <3> QED BY <1>10, <1>16, <2>1, <2>2, <3>1
  <2>3. CASE d # Nothing /\ End(t, "answered")
    BY <1>10, <1>16, <2>1, <2>3
  <2>4. CASE Step(t, "run", [req[t] EXCEPT !.def = d]) /\ ended' = ended
    <3>1. CalmCallsAnswered'
      BY <2>4 DEF ServedInv, CalmCallsAnswered
    <3> QED BY <1>16, <2>1, <2>4, <3>1, ServedByRequest
  <2> QED BY <1>16, <2>2, <2>3, <2>4 DEF Resolve
<1>17. ASSUME Next, NEW t \in Threads, Run(t) PROVE ServedInv'
  <2>1. UNCHANGED guarding /\ (End(t, "answered") \/ End(t, "server raised"))
    BY <1>17 DEF Run, guarding
  <2> QED BY <1>10, <1>17, <2>1
<1>18. ASSUME UNCHANGED vars PROVE ServedInv'
  <2>1. /\ pins' = pins /\ quarantine' = quarantine /\ registered' = registered
        /\ work' = work /\ nameMap' = nameMap /\ pc' = pc /\ req' = req /\ ended' = ended
        /\ overlapped' = overlapped /\ disturbed' = disturbed
    BY <1>18 DEF vars, guard, requests
  <2>2. \A t \in Threads : Undisturbed(t)'
    BY <2>1 DEF ServedInv, Undisturbed, Resting
  <2>3. ExposedBefore' /\ CalmCallsAnswered' /\ \A k \in nameMap' : Callable(k)'
    BY <2>1 DEF ServedInv, ExposedBefore, CalmCallsAnswered, Callable
  <2>4. CallableRegistered'
    BY <2>1 DEF ServedInv, CallableRegistered, Callable, Registering, Job
  <2> QED BY <2>1, <2>2, <2>3, <2>4 DEF ServedInv
<1> QED BY <1>1, <1>2, <1>3, <1>4, <1>5, <1>6, <1>7, <1>8, <1>9, <1>12, <1>13, <1>14, <1>15,
           <1>16, <1>17, <1>18 DEF Next, Operation
-----------------------------------------------------------------------------
(* A gateway starts with nothing pinned, exposed or under way.             *)
LEMMA GatewayInit == Init /\ GatewayAssumption => Types /\ VettedInv /\ ServedInv
<1> SUFFICES ASSUME Init, GatewayAssumption PROVE Types /\ VettedInv /\ ServedInv
  OBVIOUS
<1>1. \A w \in Workers : work[w] = Idle
  BY DEF Init
<1>2. /\ Idle \in Work /\ Idle.at = "idle" /\ "idle" \notin Busy /\ "idle" \notin Filing
      /\ NoRequest \in RequestTypes /\ "idle" \notin Calling
  BY DEF Idle, Work, Busy, Filing, NoRequest, RequestTypes, Sizes, Calling
<1>3. \A w \in Workers : WorkOK(w)
  BY <1>1, <1>2 DEF WorkOK
<1>4. Types
  BY <1>2, <1>3 DEF Init, Types
<1>5. VettedInv
  <2>1. \A w \in Workers : Carries(w)
    BY <1>1, <1>2 DEF Carries, At
  <2>2. \A k \in Keys : KeyVetted(k)
    BY DEF Init, KeyVetted
  <2> QED BY <2>1, <2>2 DEF Init, VettedInv
<1>6. ServedInv
  <2>1. \A w \in Workers : work[w].at = "idle"
    BY <1>1, <1>2
  <2>2. /\ ExposedBefore /\ CalmCallsAnswered /\ "refresh" \in Workers
        /\ \A t \in Threads : Undisturbed(t)
    BY DEF Init, ExposedBefore, CalmCallsAnswered, Undisturbed, Workers
  <2>3. CallableRegistered
    BY <2>1, <2>2 DEF Init, CallableRegistered, Callable
  <2> QED BY <2>1, <2>2, <2>3 DEF Init, ServedInv
<1> QED BY <1>4, <1>5, <1>6

(* The three layers together are inductive.                                *)
LEMMA GatewayInvariant ==
  ASSUME GatewayAssumption
  PROVE  Spec => [](Types /\ VettedInv /\ ServedInv)
<1>1. Init => Types /\ VettedInv /\ ServedInv
  BY GatewayInit
<1>2. Types /\ VettedInv /\ ServedInv /\ [Next]_vars => (Types /\ VettedInv /\ ServedInv)'
  BY TypesStep, VettedStep, ServedStep
<1> QED BY <1>1, <1>2, PTL DEF Spec

(* The gateway is well typed: what is registered is pinned and defined,    *)
(* what is pinned was vetted, a worker knows its tool.                     *)
THEOREM TypeCorrect ==
  ASSUME GatewayAssumption
  PROVE  Spec => []TypeOK
<1>1. Types /\ VettedInv /\ ServedInv => TypeOK
  <2> SUFFICES ASSUME Types, VettedInv PROVE TypeOK
    OBVIOUS
  <2>1. ASSUME NEW w \in Workers
        PROVE  /\ work[w].at \in {"idle", "list", "define", "block", "unregister", "pin",
                                  "release", "drop", "register", "expose"}
               /\ work[w].at \notin {"idle", "list", "expose"} => work[w].todo # << >>
    <3>1. WorkOK(w)
      BY DEF Types
    <3> QED BY <3>1 DEF WorkOK, Work, Busy, Filing
  <2> QED BY <2>1 DEF TypeOK, Types, VettedInv, KeyVetted
<1> QED BY <1>1, GatewayInvariant, PTL

(* Whatever refreshes, approvals and calls overlap, a tool only ever runs  *)
(* behind a definition seen first or approved, which passed the scan for   *)
(* poisoning (mcp_guard.py).                                               *)
THEOREM NoRugPull ==
  ASSUME GatewayAssumption
  PROVE  Spec => []OnlyVettedRuns
<1>1. Types /\ VettedInv /\ ServedInv => OnlyVettedRuns
  BY DEF VettedInv, KeyVetted, Clean, OnlyVettedRuns, RunsAsVetted, PoisonNeverRuns
<1> QED BY <1>1, GatewayInvariant, PTL

(* With refreshes and approvals done, what is exposed can be called, and   *)
(* no request raises that nothing disturbs (mcp_proxy.py).                 *)
THEOREM ListedIsServed ==
  ASSUME GatewayAssumption
  PROVE  Spec => []ExposedServed
<1>1. Types /\ VettedInv /\ ServedInv => ExposedServed
  BY ServedFromParts
<1> QED BY <1>1, GatewayInvariant, PTL
-----------------------------------------------------------------------------
(* The other edge that is proved: a run of a command in the sandbox, over  *)
(* any tree of processes (sandbox.py).                                     *)

(* Before the run nothing was started, nor ever under DenyBackend.         *)
NothingYet ==
  /\ phase = "idle" => started = {} /\ ~timed_out /\ returncode = "none"
  /\ backend = "deny" => started = {}

(* Only a command that timed out is killed; then, whatever is forked, what *)
(* still runs has left the group.                                          *)
KilledLate ==
  /\ phase = "communicate" => ~timed_out
  /\ phase \in {"kill", "drain"} => timed_out
  /\ phase = "drain" => running \cap group = {}

(* A command with a code has ended, for good; output is that of such a one. *)
CommandOver ==
  /\ returncode # "none" => Main \in started \ running
  /\ result = "output" => Main \in started \ running

RunInv ==
  /\ B!TypeOK /\ NothingYet /\ KilledLate /\ CommandOver
  /\ B!WhatOutlivesARun /\ B!ReturnedInTime

(* Processes that fork, end, or let go of the output or the group leave    *)
(* what holds of the run.                                                  *)
LEMMA ProcessesKeep ==
  ASSUME RunInv,
         \/ \E parent \in B!Processes, child \in Children : B!Fork(parent, child)
         \/ \E p \in B!Processes : B!CloseOutput(p) \/ B!LeaveGroup(p)
         \/ \E p \in B!Processes, code \in {"ok", "failed", "killed"} : B!Exit(p, code)
  PROVE  RunInv'
<1> USE DEF RunInv, B!run
<1>1. ASSUME NEW parent \in B!Processes, NEW child \in Children, B!Fork(parent, child)
      PROVE  RunInv'
  <2>1. /\ parent \in running /\ child \notin started
        /\ started' = started \cup {child} /\ running' = running \cup {child}
        /\ group' \in {group, group \cup {child}} /\ (parent \notin group => group' = group)
        /\ output' \in {output, output \cup {child}} /\ (parent \notin output => output' = output)
        /\ UNCHANGED <<backend, phase, timed_out, result, returncode>>
    BY <1>1 DEF B!Fork, B!Inherit
  <2>2. B!TypeOK'
    BY <2>1 DEF B!TypeOK, B!Processes
  <2>3. NothingYet' /\ KilledLate' /\ CommandOver'
    BY <2>1 DEF B!TypeOK, NothingYet, KilledLate, CommandOver
  <2>4. B!WhatOutlivesARun' /\ B!ReturnedInTime'
    BY <2>1 DEF B!TypeOK, B!WhatOutlivesARun, B!ReturnedInTime
  <2> QED BY <2>2, <2>3, <2>4
<1>2. ASSUME NEW p \in B!Processes, B!CloseOutput(p) \/ B!LeaveGroup(p) PROVE RunInv'
  <2>1. /\ group' \subseteq group /\ output' \subseteq output
        /\ UNCHANGED <<backend, phase, timed_out, result, returncode, started, running>>
    BY <1>2 DEF B!CloseOutput, B!LeaveGroup
  <2> QED BY <2>1 DEF B!TypeOK, NothingYet, KilledLate, CommandOver, B!WhatOutlivesARun,
                      B!ReturnedInTime
<1>3. ASSUME NEW p \in B!Processes, NEW code \in {"ok", "failed", "killed"}, B!Exit(p, code)
      PROVE  RunInv'
  <2>1. /\ p \in running /\ running' = running \ {p} /\ output' = output \ {p}
        /\ returncode' = IF Main = p THEN code ELSE returncode
        /\ UNCHANGED <<backend, phase, timed_out, result, started, group>>
    BY <1>3 DEF B!Exit, B!End
  <2>2. B!TypeOK'
    BY <2>1 DEF B!TypeOK
  <2>3. NothingYet' /\ KilledLate' /\ CommandOver'
    BY <2>1 DEF B!TypeOK, NothingYet, KilledLate, CommandOver
  <2>4. B!WhatOutlivesARun' /\ B!ReturnedInTime'
    BY <2>1 DEF B!TypeOK, CommandOver, B!WhatOutlivesARun, B!ReturnedInTime
  <2> QED BY <2>2, <2>3, <2>4
<1> QED BY <1>1, <1>2, <1>3

(* So does every step of the backend. *)
LEMMA BackendKeeps ==
  ASSUME RunInv,
         \/ \E problem \in B!Problems \cup {"none"} : B!Start(problem)
         \/ B!Communicated \/ B!Timeout \/ B!KillTree \/ B!ContainerEnds
  PROVE  RunInv'
<1> USE DEF RunInv
<1>1. ASSUME NEW problem \in B!Problems \cup {"none"}, B!Start(problem) PROVE RunInv'
  BY <1>1 DEF B!Start, B!TypeOK, B!Problems, B!Processes, NothingYet, KilledLate, CommandOver,
              B!WhatOutlivesARun, B!ReturnedInTime
<1>2. CASE B!Communicated
  <2>1. /\ phase # "done" /\ backend = "subprocess" /\ output = {} /\ phase' = "done" /\ result' # "none"
        /\ result' \in {"output", "TimeoutError", "SandboxError"}
        /\ result' = "output" => ~timed_out /\ returncode = "ok"
        /\ timed_out => phase = "drain"
        /\ UNCHANGED <<backend, timed_out, started, running, group, output, returncode>>
    BY <1>2 DEF B!Communicated, B!Finish, B!Outcome, B!processes, B!TypeOK, KilledLate
  <2>2. B!TypeOK' /\ NothingYet' /\ KilledLate' /\ CommandOver'
    BY <2>1 DEF B!TypeOK, NothingYet, KilledLate, CommandOver
  <2>3. B!WhatOutlivesARun' /\ B!ReturnedInTime'
    BY <2>1 DEF KilledLate, B!WhatOutlivesARun, B!ReturnedInTime
  <2> QED BY <2>2, <2>3
<1>3. CASE B!Timeout
  BY <1>3 DEF B!Timeout, B!Finish, B!Outcome, B!processes, B!TypeOK, NothingYet, KilledLate,
              CommandOver, B!WhatOutlivesARun, B!ReturnedInTime
<1>4. CASE B!KillTree
  BY <1>4 DEF B!KillTree, B!Killed, B!End, B!TypeOK, NothingYet, KilledLate,
              CommandOver, B!WhatOutlivesARun, B!ReturnedInTime
<1>5. CASE B!ContainerEnds
  <2>1. /\ phase = "communicate" /\ backend = "docker" /\ phase' = "done" /\ result' # "none"
        /\ result' \in {"output", "SandboxError"} /\ running' = {} /\ output' = {}
        /\ result' = "output" => returncode = "ok"
        /\ UNCHANGED <<backend, timed_out, started, group, returncode>>
    BY <1>5 DEF B!ContainerEnds, B!End, B!Finish, B!Outcome, B!TypeOK
  <2>2. B!TypeOK' /\ NothingYet' /\ KilledLate' /\ CommandOver'
    BY <2>1 DEF B!TypeOK, NothingYet, KilledLate, CommandOver
  <2>3. B!WhatOutlivesARun' /\ B!ReturnedInTime'
    BY <2>1 DEF KilledLate, B!WhatOutlivesARun, B!ReturnedInTime
  <2> QED BY <2>2, <2>3
<1> QED BY <1>1, <1>2, <1>3, <1>4, <1>5

(* The run's invariant, for any command, children and backends. *)
LEMMA RunInvariant == B!Spec => []RunInv
<1>1. B!Init => RunInv
  BY DEF B!Init, RunInv, B!TypeOK, NothingYet, KilledLate, CommandOver, B!WhatOutlivesARun,
         B!ReturnedInTime
<1>2. RunInv /\ [B!Next]_(B!vars) => RunInv'
  <2>1. CASE UNCHANGED B!vars
    BY <2>1 DEF B!vars, B!run, B!processes, RunInv, B!TypeOK, NothingYet, KilledLate, CommandOver,
                B!WhatOutlivesARun, B!ReturnedInTime
  <2> QED BY <2>1, ProcessesKeep, BackendKeeps DEF B!Next
<1> QED BY <1>1, <1>2, PTL DEF B!Spec

(* Whatever its processes fork, close, leave or survive: a run that is     *)
(* over leaves running only what let go of the output, or left the group   *)
(* before it was killed, or is a container's whose client was killed; and  *)
(* a tool returns output only of a command that succeeded in time.         *)
THEOREM RunIsContained == B!Spec => []RunContained
<1>1. RunInv => RunContained
  BY DEF RunInv, RunContained, B!RunContained
<1> QED BY <1>1, RunInvariant, PTL
-----------------------------------------------------------------------------
(* The transport to a downstream, for any finite number of callers,        *)
(* whatever the subprocess writes (mcp_proxy.py).                          *)
CallersOK ==
  /\ callerPc \in [Callers -> {"idle", "blocked", "id", "send", "read"}]
  /\ lines \in [Callers -> 0..MaxLines]
  /\ asked \in [Callers -> Nat]
  /\ call \in [Callers -> 0..made]
  /\ holder \in Callers \cup {T!Nobody}
  /\ \A c \in Callers : /\ callerPc[c] \in {"id", "send", "read"} <=> holder = c
                        /\ callerPc[c] # "idle" => call[c] # 0
                        /\ callerPc[c] = "read" => lines[c] < MaxLines

Requests == [id : Nat, call : 1..made]
Lines == [id : Nat, call : T!Garbled..made]

PipesOK ==
  /\ lastId \in Nat /\ noise \in 0..MaxNoise /\ alive \in BOOLEAN /\ made \in 0..MaxCalls
  /\ stdin \subseteq Requests /\ stdout \in Seq(Lines)

(* What is in the pipes, of the calls made. *)
InPipes == {m \in stdin \cup {stdout[i] : i \in DOMAIN stdout} : m.call > 0}

(* Ids are taken in order and under the lock: what is in the pipes bears   *)
(* one taken before, and the reader's only if it belongs to its call.      *)
IdsOK ==
  /\ \A m \in InPipes : m.id <= lastId
  /\ \A c \in Callers :
       /\ callerPc[c] = "send" => \A m \in InPipes : m.id < lastId
       /\ callerPc[c] = "read" => \A m \in InPipes : m.id = asked[c] => m.call = call[c]

TransportInv == CallersOK /\ PipesOK /\ IdsOK /\ AnswerMatches

LEMMA PipeFacts ==
  ASSUME NEW S, NEW s \in Seq(S)
  PROVE  /\ \A i \in DOMAIN s : s[i] \in S
         /\ s # << >> => /\ Tail(s) \in Seq(S) /\ s[1] \in S /\ 1 \in DOMAIN s
                         /\ {Tail(s)[i] : i \in DOMAIN Tail(s)} \subseteq {s[i] : i \in DOMAIN s}
         /\ \A m \in S : /\ Append(s, m) \in Seq(S)
                         /\ {Append(s, m)[i] : i \in DOMAIN Append(s, m)}
                              = {s[i] : i \in DOMAIN s} \cup {m}
<1>1. Len(s) \in Nat /\ DOMAIN s = 1..Len(s) /\ \A i \in 1..Len(s) : s[i] \in S
  OBVIOUS
<1>2. ASSUME s # << >>
      PROVE  /\ Tail(s) \in Seq(S) /\ 1 \in DOMAIN s
             /\ {Tail(s)[i] : i \in DOMAIN Tail(s)} \subseteq {s[i] : i \in DOMAIN s}
  <2>1. /\ Tail(s) \in Seq(S) /\ Len(Tail(s)) = Len(s) - 1 /\ Len(s) >= 1
        /\ \A i \in 1..(Len(s) - 1) : Tail(s)[i] = s[i + 1]
    BY <1>1, <1>2
  <2>2. DOMAIN Tail(s) = 1..(Len(s) - 1)
    BY <2>1
  <2>3. \A i \in 1..(Len(s) - 1) : i + 1 \in 1..Len(s)
    BY <1>1
  <2> QED BY <1>1, <2>1, <2>2, <2>3
<1>3. ASSUME NEW m \in S
      PROVE  /\ Append(s, m) \in Seq(S)
             /\ {Append(s, m)[i] : i \in DOMAIN Append(s, m)} = {s[i] : i \in DOMAIN s} \cup {m}
  <2>1. /\ Append(s, m) \in Seq(S) /\ Len(Append(s, m)) = Len(s) + 1
        /\ \A i \in 1..Len(s) : Append(s, m)[i] = s[i]
        /\ Append(s, m)[Len(s) + 1] = m
    OBVIOUS
  <2>2. DOMAIN Append(s, m) = 1..Len(s) \cup {Len(s) + 1}
    BY <1>1, <2>1
  <2> QED BY <1>1, <2>1, <2>2
<1> QED BY <1>1, <1>2, <1>3

(* What the pipes hold stays of calls made when one more is.               *)
LEMMA PipesGrow ==
  ASSUME NEW n \in Nat
  PROVE  /\ [id : Nat, call : 1..n] \subseteq [id : Nat, call : 1..(n + 1)]
         /\ Seq([id : Nat, call : T!Garbled..n]) \subseteq Seq([id : Nat, call : T!Garbled..(n + 1)])
<1>1. 1..n \subseteq 1..(n + 1) /\ T!Garbled..n \subseteq T!Garbled..(n + 1)
  BY DEF T!Garbled
<1>2. [id : Nat, call : T!Garbled..n] \subseteq [id : Nat, call : T!Garbled..(n + 1)]
  BY <1>1
<1>3. [id : Nat, call : 1..n] \subseteq [id : Nat, call : 1..(n + 1)]
  BY <1>1
<1>4. \A S, U : S \subseteq U => Seq(S) \subseteq Seq(U)
  OBVIOUS
<1> QED BY <1>2, <1>3, <1>4

(* What leaves the pipes, or changes them, leaves the rest as it is.       *)
LEMMA IdsKept ==
  ASSUME IdsOK, InPipes' \subseteq InPipes, lastId' = lastId,
         \A c \in Callers :
           callerPc'[c] \in {"send", "read"} =>
             callerPc'[c] = callerPc[c] /\ asked'[c] = asked[c] /\ call'[c] = call[c]
  PROVE  IdsOK'
BY DEF IdsOK

(* The call is over: it returned the line, or raised.                      *)
LEMMA Leaves ==
  ASSUME T!TransportAssumption, TransportInv, NEW c \in Callers, NEW got \in Int,
         T!Leave(c, got), holder = c,
         got >= 0 => got \in {call[c], T!Own}, UNCHANGED made,
         \E n \in 0..MaxLines : lines' = [lines EXCEPT ![c] = n],
         \E n \in Nat : asked' = [asked EXCEPT ![c] = n]
  PROVE  /\ CallersOK' /\ AnswerMatches'
         /\ \A d \in Callers : callerPc'[d] \notin {"id", "send", "read"}
<1> USE DEF TransportInv, CallersOK
<1>1. /\ callerPc' = [callerPc EXCEPT ![c] = "idle"] /\ call' = [call EXCEPT ![c] = 0]
      /\ holder' = T!Nobody
      /\ results' = IF got < 0 THEN results ELSE results \cup {[asked |-> call[c], got |-> got]}
  BY DEF T!Leave
<1>2. made \in Nat
  BY DEF PipesOK
<1>3. \A d \in Callers : callerPc'[d] \notin {"id", "send", "read"} /\ T!Nobody # d
  BY <1>1 DEF T!TransportAssumption
<1>4. CallersOK'
  BY <1>1, <1>2, <1>3
<1>5. AnswerMatches'
  BY <1>1 DEF AnswerMatches, T!AnswerMatches
<1> QED BY <1>3, <1>4, <1>5

(* The lock goes from caller to caller, one at a time. *)
LEMMA CallerMoves ==
  ASSUME T!TransportAssumption, TransportInv, NEW c \in Callers, T!Call(c) \/ T!Step(c)
  PROVE  TransportInv'
<1>0. /\ lastId \in Nat /\ made \in 0..MaxCalls /\ MaxCalls \in Nat /\ MaxLines \in Nat \ {0}
      /\ T!Nobody \notin Callers /\ made \in Nat
  BY DEF TransportInv, PipesOK, T!TransportAssumption
<1>s. stdin \subseteq Requests /\ stdout \in Seq(Lines)
  BY DEF TransportInv, PipesOK
<1>m. \A m \in InPipes : m.id \in Nat
  <2>1. \A i \in DOMAIN stdout : stdout[i] \in Lines
    BY <1>s, PipeFacts
  <2> QED BY <1>s, <2>1 DEF InPipes, Requests, Lines
<1>n. T!Nobody \in Int /\ ~(T!Nobody >= 0)
  BY DEF T!Nobody
<1>1. CASE T!Call(c)
  <2>1. /\ callerPc[c] = "idle" /\ callerPc' = [callerPc EXCEPT ![c] = "blocked"]
        /\ made < MaxCalls /\ made' = made + 1 /\ call' = [call EXCEPT ![c] = made + 1]
        /\ UNCHANGED <<lastId, holder, stdin, stdout, alive, noise, asked, lines, results>>
    BY <1>1 DEF T!Call, T!server
  <2>2. CallersOK'
    BY <1>0, <2>1 DEF TransportInv, CallersOK
  <2>3. PipesOK'
    <3>1. Requests \subseteq Requests' /\ Seq(Lines) \subseteq Seq(Lines')
      BY <1>0, <2>1, PipesGrow DEF Requests, Lines
    <3>2. stdin' \subseteq Requests' /\ stdout' \in Seq(Lines')
      BY <1>s, <2>1, <3>1
    <3> QED BY <1>0, <2>1, <3>2 DEF TransportInv, PipesOK
  <2>4. InPipes' = InPipes
    BY <2>1 DEF InPipes
  <2>5. IdsOK'
    BY <2>1, <2>4, IdsKept DEF TransportInv, CallersOK
  <2> QED BY <2>1, <2>2, <2>3, <2>5 DEF TransportInv, AnswerMatches, T!AnswerMatches
<1>2. CASE T!Lock(c)
  <2>1. /\ callerPc[c] = "blocked" /\ callerPc' = [callerPc EXCEPT ![c] = "id"]
        /\ holder = T!Nobody /\ holder' = c
        /\ UNCHANGED <<lastId, stdin, stdout, alive, noise, asked, lines, made, call, results>>
    BY <1>2 DEF T!Lock, T!Free, T!server
  <2>2. CallersOK'
    BY <1>0, <2>1 DEF TransportInv, CallersOK
  <2>3. PipesOK' /\ InPipes' = InPipes
    BY <2>1 DEF TransportInv, PipesOK, InPipes, Requests, Lines
  <2>4. IdsOK'
    BY <2>1, <2>3, IdsKept DEF TransportInv, CallersOK
  <2> QED BY <2>1, <2>2, <2>3, <2>4 DEF TransportInv, AnswerMatches, T!AnswerMatches
<1>3. CASE T!NextId(c)
  <2>1. /\ callerPc[c] = "id" /\ callerPc' = [callerPc EXCEPT ![c] = "send"]
        /\ lastId' = lastId + 1 /\ holder = c
        /\ UNCHANGED <<holder, stdin, stdout, alive, noise, asked, lines, made, call, results>>
    BY <1>3 DEF T!NextId, T!server, TransportInv, CallersOK
  <2>2. CallersOK'
    BY <2>1 DEF TransportInv, CallersOK
  <2>3. PipesOK' /\ InPipes' = InPipes
    BY <1>0, <2>1 DEF TransportInv, PipesOK, InPipes, Requests, Lines
  <2>4. \A d \in Callers : callerPc'[d] # "read"
    BY <2>1, <2>2 DEF CallersOK
  <2>5. \A m \in InPipes : m.id \in Nat /\ m.id <= lastId
    BY <1>m DEF TransportInv, IdsOK
  <2>6. IdsOK'
    BY <1>0, <2>1, <2>3, <2>4, <2>5 DEF IdsOK
  <2> QED BY <2>1, <2>2, <2>3, <2>6 DEF TransportInv, AnswerMatches, T!AnswerMatches
<1>4. CASE T!Send(c)
  <2>1. /\ callerPc[c] = "send" /\ holder = c /\ call[c] \in 1..made
        /\ asked' = [asked EXCEPT ![c] = lastId] /\ lines' = [lines EXCEPT ![c] = 0]
        /\ UNCHANGED <<lastId, stdout, alive, noise, made>>
    BY <1>0, <1>4 DEF T!Send, TransportInv, CallersOK
  <2>2. CASE alive
    <3>1. /\ callerPc' = [callerPc EXCEPT ![c] = "read"] /\ UNCHANGED <<holder, call, results>>
          /\ stdin' = stdin \cup {T!Message(lastId, call[c])}
      BY <1>4, <2>2 DEF T!Send
    <3>2. T!Message(lastId, call[c]) \in Requests
      BY <1>0, <2>1 DEF T!Message, Requests
    <3>3. CallersOK'
      BY <1>0, <2>1, <3>1 DEF TransportInv, CallersOK
    <3>4. PipesOK'
      BY <2>1, <3>1, <3>2 DEF TransportInv, PipesOK, Requests, Lines
    <3>5. InPipes' \subseteq InPipes \cup {T!Message(lastId, call[c])}
      BY <2>1, <3>1 DEF InPipes
    <3>6. \A m \in InPipes : m.id \in Nat /\ m.id < lastId
      BY <1>m, <2>1 DEF TransportInv, IdsOK
    <3>7. \A d \in Callers : callerPc'[d] \in {"send", "read"} => d = c
      BY <2>1, <3>1, <3>3 DEF CallersOK
    <3>8. callerPc'[c] = "read" /\ asked'[c] = lastId /\ call'[c] = call[c]
      BY <2>1, <3>1 DEF TransportInv, CallersOK
    <3>9. IdsOK'
      BY <1>0, <2>1, <3>5, <3>6, <3>7, <3>8 DEF IdsOK, T!Message
    <3> QED BY <3>1, <3>3, <3>4, <3>9 DEF TransportInv, AnswerMatches, T!AnswerMatches
  <2>3. CASE ~alive
    <3>1. T!Leave(c, T!Nobody) /\ UNCHANGED stdin
      BY <1>4, <2>3 DEF T!Send
    <3>2. /\ CallersOK' /\ AnswerMatches'
          /\ \A d \in Callers : callerPc'[d] \notin {"id", "send", "read"}
      <4>1. 0 \in 0..MaxLines
        BY <1>0
      <4>2. /\ \E n \in Nat : asked' = [asked EXCEPT ![c] = n]
            /\ \E n \in 0..MaxLines : lines' = [lines EXCEPT ![c] = n]
        BY <1>0, <2>1, <4>1, Zenon
      <4> QED BY <1>n, <2>1, <3>1, <4>2, Leaves
    <3>3. PipesOK' /\ InPipes' = InPipes
      BY <2>1, <3>1 DEF TransportInv, PipesOK, InPipes, Requests, Lines
    <3> QED BY <2>1, <3>2, <3>3, IdsKept DEF TransportInv
  <2> QED BY <2>2, <2>3
<1>5. CASE T!Read(c)
  <2> DEFINE line == stdout[1]
  <2>1. /\ callerPc[c] = "read" /\ holder = c /\ stdout # << >> /\ lines[c] \in 0..MaxLines
        /\ lines[c] < MaxLines
    BY <1>5 DEF T!Read, TransportInv, CallersOK
  <2>2. /\ UNCHANGED <<lastId, asked, stdin, alive, noise, made>> /\ stdout' = Tail(stdout)
        /\ lines' = [lines EXCEPT ![c] = lines[c] + 1]
    BY <1>5 DEF T!Read
  <2>3. PipesOK'
    BY <1>s, <2>1, <2>2, PipeFacts DEF TransportInv, PipesOK, Requests, Lines
  <2>4. InPipes' \subseteq InPipes
    <3>1. {stdout'[i] : i \in DOMAIN stdout'} \subseteq {stdout[i] : i \in DOMAIN stdout}
      BY <1>s, <2>1, <2>2, PipeFacts
    <3> QED BY <2>2, <3>1 DEF InPipes
  <2>5. lines[c] + 1 \in 0..MaxLines
    BY <1>0, <2>1
  <2>6. CASE \E got \in Int : T!Leave(c, got) /\ (got >= 0 => got \in {call[c], T!Own})
    <3>1. \E n \in Nat : asked' = [asked EXCEPT ![c] = n]
      BY <2>2 DEF TransportInv, CallersOK
    <3>2. /\ CallersOK' /\ AnswerMatches'
          /\ \A d \in Callers : callerPc'[d] \notin {"id", "send", "read"}
      BY <2>1, <2>2, <2>5, <2>6, <3>1, Leaves
    <3> QED BY <2>2, <2>3, <2>4, <3>2, IdsKept DEF TransportInv
  <2>7. CASE UNCHANGED <<holder, callerPc, call, results>> /\ lines[c] + 1 # MaxLines
    <3>1. CallersOK'
      BY <1>0, <2>1, <2>2, <2>5, <2>7 DEF TransportInv, CallersOK
    <3>2. IdsOK'
      BY <2>2, <2>4, <2>7, IdsKept DEF TransportInv
    <3> QED BY <2>3, <2>7, <3>1, <3>2 DEF TransportInv, AnswerMatches, T!AnswerMatches
  <2>8. line \in Lines /\ line \in {stdout[i] : i \in DOMAIN stdout}
    BY <1>s, <2>1, PipeFacts
  <2>9. ASSUME T!IsAnswer(c, line)
        PROVE  line.call \in Int /\ (line.call >= 0 => line.call \in {call[c], T!Own})
    <3>1. line.call \in Int /\ line.id = asked[c]
      BY <1>0, <2>8, <2>9 DEF T!IsAnswer, Lines, T!Garbled
    <3>2. line.call > 0 => line \in InPipes
      BY <2>8 DEF InPipes
    <3> QED BY <2>1, <3>1, <3>2 DEF TransportInv, IdsOK, T!Own
  <2>10. CASE T!IsAnswer(c, line)
    BY <1>5, <2>6, <2>9, <2>10 DEF T!Read
  <2>11. CASE ~T!IsAnswer(c, line) /\ T!Leave(c, T!Nobody)
    BY <2>6, <2>11 DEF T!Nobody
  <2> QED BY <1>5, <2>7, <2>10, <2>11 DEF T!Read
<1>6. CASE T!EndOfFile(c)
  <2>1. /\ callerPc[c] = "read" /\ holder = c /\ T!Leave(c, T!Nobody)
        /\ UNCHANGED <<lastId, stdin, stdout, alive, noise, asked, lines, made>>
    BY <1>6 DEF T!EndOfFile, T!server, TransportInv, CallersOK
  <2>2. /\ \E n \in Nat : asked' = [asked EXCEPT ![c] = n]
        /\ \E n \in 0..MaxLines : lines' = [lines EXCEPT ![c] = n]
    BY <2>1 DEF TransportInv, CallersOK
  <2>3. /\ CallersOK' /\ AnswerMatches'
        /\ \A d \in Callers : callerPc'[d] \notin {"id", "send", "read"}
    BY <1>n, <2>1, <2>2, Leaves
  <2>4. PipesOK' /\ InPipes' = InPipes
    BY <2>1 DEF TransportInv, PipesOK, InPipes, Requests, Lines
  <2> QED BY <2>1, <2>3, <2>4, IdsKept DEF TransportInv
<1> QED BY <1>1, <1>2, <1>3, <1>4, <1>5, <1>6 DEF T!Step

(* The subprocess moves messages from pipe to pipe, adds lines, or exits.  *)
LEMMA ProcessMoves ==
  ASSUME T!TransportAssumption, TransportInv,
         \/ T!Answer \/ T!Exit \/ T!Disturb(T!Message(0, T!Garbled))
         \/ \E id \in 0..MaxCalls : T!Disturb(T!Message(id, T!Own))
  PROVE  TransportInv'
<1>1. UNCHANGED <<lastId, holder, callerPc, asked, lines, made, call, results>>
  BY DEF T!Answer, T!Disturb, T!Exit
<1>2. CallersOK' /\ AnswerMatches'
  BY <1>1 DEF TransportInv, CallersOK, AnswerMatches, T!AnswerMatches
<1>3. alive' \in BOOLEAN /\ noise' \in 0..MaxNoise
  <2>1. alive \in BOOLEAN /\ noise \in 0..MaxNoise /\ MaxNoise \in Nat
    BY DEF TransportInv, PipesOK, T!TransportAssumption
  <2>2. /\ alive' = alive \/ alive' = FALSE
        /\ noise' = noise \/ (noise < MaxNoise /\ noise' = noise + 1)
    BY DEF T!Answer, T!Disturb, T!Exit
  <2>3. alive' \in BOOLEAN
    BY <2>1, <2>2, Zenon
  <2>4. noise' \in 0..MaxNoise
    <3>1. noise \in Nat /\ noise <= MaxNoise
      BY <2>1
    <3> QED BY <2>1, <2>2, <3>1
  <2> QED BY <2>3, <2>4
<1>4. stdin' \subseteq Requests /\ stdout' \in Seq(Lines) /\ InPipes' \subseteq InPipes
  <2>0. stdin \subseteq Requests /\ stdout \in Seq(Lines) /\ made \in Nat
    BY DEF TransportInv, PipesOK
  <2>1. CASE T!Answer
    <3>1. PICK m \in stdin : stdin' = stdin \ {m} /\ stdout' = Append(stdout, m)
      BY <2>1 DEF T!Answer
    <3>2. m \in Lines
      BY <2>0 DEF Requests, Lines, T!Garbled
    <3>3. /\ stdout' \in Seq(Lines)
          /\ {stdout'[i] : i \in DOMAIN stdout'} = {stdout[i] : i \in DOMAIN stdout} \cup {m}
      BY <2>0, <3>1, <3>2, PipeFacts
    <3> QED BY <2>0, <3>1, <3>3 DEF InPipes
  <2>2. CASE \E m \in Lines : m.call <= 0 /\ T!Disturb(m)
    <3>1. PICK m \in Lines : m.call <= 0 /\ stdin' = stdin /\ stdout' = Append(stdout, m)
      BY <2>2 DEF T!Disturb
    <3>2. m.call \in Int
      BY <2>0 DEF Lines, T!Garbled
    <3>3. /\ stdout' \in Seq(Lines)
          /\ {stdout'[i] : i \in DOMAIN stdout'} = {stdout[i] : i \in DOMAIN stdout} \cup {m}
      BY <2>0, <3>1, PipeFacts
    <3> QED BY <2>0, <3>1, <3>2, <3>3 DEF InPipes
  <2>3. CASE T!Exit
    BY <2>0, <2>3 DEF T!Exit, InPipes
  <2>4. \A id \in 0..MaxCalls :
          /\ T!Message(id, T!Own) \in Lines /\ T!Message(id, T!Own).call <= 0
          /\ T!Message(0, T!Garbled) \in Lines /\ T!Message(0, T!Garbled).call <= 0
    BY <2>0 DEF T!Message, T!Own, T!Garbled, Lines
  <2>5. 0 \in 0..MaxCalls
    BY DEF T!TransportAssumption
  <2> QED BY <2>1, <2>2, <2>3, <2>4, <2>5
<1>5. PipesOK'
  BY <1>1, <1>3, <1>4 DEF TransportInv, PipesOK, Requests, Lines
<1>6. IdsOK'
  BY <1>1, <1>4, IdsKept DEF TransportInv
<1> QED BY <1>2, <1>5, <1>6 DEF TransportInv

LEMMA TransportInvariant ==
  ASSUME T!TransportAssumption
  PROVE  T!Spec => []TransportInv
<1>1. T!Init => TransportInv
  <2> SUFFICES ASSUME T!Init PROVE TransportInv
    OBVIOUS
  <2>1. CallersOK
    BY DEF T!Init, CallersOK, T!TransportAssumption
  <2>2. PipesOK
    BY DEF T!Init, PipesOK, T!TransportAssumption
  <2>3. InPipes = {}
    BY DEF T!Init, InPipes
  <2> QED BY <2>1, <2>2, <2>3 DEF T!Init, TransportInv, IdsOK, AnswerMatches, T!AnswerMatches
<1>2. TransportInv /\ [T!Next]_(T!vars) => TransportInv'
  <2>1. CASE UNCHANGED T!vars
    BY <2>1 DEF T!vars, T!server, TransportInv, CallersOK, PipesOK, IdsOK, InPipes, Requests, Lines,
                AnswerMatches, T!AnswerMatches
  <2> QED BY <2>1, CallerMoves, ProcessMoves DEF T!Next
<1> QED BY <1>1, <1>2, PTL DEF T!Spec

LEMMA TransportTyped ==
  ASSUME T!TransportAssumption
  PROVE  T!Spec => []T!TypeOK
<1>1. TransportInv => T!TypeOK
  <2> SUFFICES ASSUME TransportInv PROVE T!TypeOK
    OBVIOUS
  <2>1. \A m \in stdin : m.call \in 1..made
    BY DEF TransportInv, PipesOK, Requests
  <2>2. \A i \in DOMAIN stdout : stdout[i].call \in T!Garbled..made
    <3>1. \A i \in DOMAIN stdout : stdout[i] \in Lines
      BY PipeFacts DEF TransportInv, PipesOK
    <3> QED BY <3>1 DEF Lines
  <2> QED BY <2>1, <2>2 DEF TransportInv, CallersOK, PipesOK, T!TypeOK
<1> QED BY <1>1, TransportInvariant, PTL

(* No call returns the answer to another's request, whatever the           *)
(* subprocess writes, in whatever order it answers, and however many calls *)
(* gave up before (mcp_proxy.py).                                          *)
THEOREM AnswersMatch ==
  ASSUME T!TransportAssumption
  PROVE  T!Spec => []AnswerMatches
<1>1. TransportInv => AnswerMatches
  BY DEF TransportInv
<1> QED BY <1>1, TransportInvariant, PTL
-----------------------------------------------------------------------------
(* The audit trail, for any number of threads, events, faults and restarts. *)
LEMMA AuditCardinality == \A S : A!Cardinality(S) = Cardinality(S)
BY DEF A!Cardinality, Cardinality


(* The head a sink of this log should have.                                *)
HeadOf(log) == IF log = << >> THEN A!Genesis ELSE A!Hash(log[Len(log)])

(* 1 while the sink's head is ahead of its file: the next line will not    *)
(* link, unless a restart comes first and recovers the head.               *)
Ahead(log, head) == IF head = HeadOf(log) THEN 0 ELSE 1

(* Why the breaks are bounded: a write that raised leaves the head ahead,  *)
(* which costs one break at the next line or nothing at a restart.         *)
Accounted ==
  /\ file \in Seq(A!Entry)
  /\ event \in [Emitters -> Nat]
  /\ emitted \in Nat
  /\ failed \in Nat
  /\ fileHead \in Seq(Nat)
  /\ Cardinality(A!Breaks(file)) + Ahead(file, fileHead) <= failed

(* Breaks are lines of the log, so they are finitely many.                 *)
LEMMA BreaksFinite ==
  ASSUME NEW log \in Seq(A!Entry)
  PROVE  IsFiniteSet(A!Breaks(log)) /\ Cardinality(A!Breaks(log)) \in Nat
<1>1. A!Breaks(log) \subseteq 1..Len(log)
  BY DEF A!Breaks
<1>2. IsFiniteSet(1..Len(log))
  BY FS_Interval
<1>3. IsFiniteSet(A!Breaks(log))
  BY <1>1, <1>2, FS_Subset
<1> QED BY <1>3, FS_CardinalityType

(* A line sealed on the right head adds no break, one sealed on a head     *)
(* that is ahead adds one, and in both cases the head is right afterwards. *)
LEMMA SealAdds ==
  ASSUME NEW log \in Seq(A!Entry), NEW ev \in Nat, NEW head \in Seq(Nat)
  PROVE  /\ Append(log, A!Sealed(head, ev)) \in Seq(A!Entry)
         /\ A!Hash(A!Sealed(head, ev)) \in Seq(Nat)
         /\ A!Hash(A!Sealed(head, ev)) = HeadOf(Append(log, A!Sealed(head, ev)))
         /\ Cardinality(A!Breaks(Append(log, A!Sealed(head, ev))))
              = Cardinality(A!Breaks(log)) + Ahead(log, head)
<1> DEFINE e == A!Sealed(head, ev)
           longer == Append(log, e)
           n == Len(log) + 1
<1>1. e \in A!Entry /\ e.prev = head
  BY DEF A!Sealed, A!Entry
<1>2. /\ longer \in Seq(A!Entry)
      /\ Len(log) \in Nat /\ DOMAIN log = 1..Len(log)
      /\ Len(longer) = n /\ DOMAIN longer = 1..n
      /\ longer[n] = e
      /\ \A i \in DOMAIN log : longer[i] = log[i]
  BY <1>1
<1>3. A!Hash(e) \in Seq(Nat)
  BY DEF A!Hash, A!Sealed
<1> HIDE DEF e, longer
<1>4. A!Hash(e) = HeadOf(longer)
  <2>1. longer # << >>
    BY <1>2
  <2> QED BY <2>1, <1>2 DEF HeadOf
<1>5. ASSUME NEW i \in DOMAIN log
      PROVE i \in A!Breaks(longer) <=> i \in A!Breaks(log)
  <2>1. i \in DOMAIN longer /\ longer[i] = log[i]
    BY <1>2
  <2>2. i # 1 => longer[i - 1] = log[i - 1]
    BY <1>2
  <2> QED BY <2>1, <2>2 DEF A!Breaks
<1>6. n \in A!Breaks(longer) <=> head # HeadOf(log)
  <2>1. n \in DOMAIN longer /\ longer[n].prev = head
    BY <1>1, <1>2
  <2>2. CASE log = << >>
    BY <2>1, <2>2 DEF A!Breaks, HeadOf
  <2>3. CASE log # << >>
    <3>1. n # 1 /\ longer[n - 1] = log[Len(log)]
      BY <2>3, <1>2
    <3> QED BY <2>1, <2>3, <3>1 DEF A!Breaks, HeadOf
  <2> QED BY <2>2, <2>3
<1>7. A!Breaks(longer) = IF head = HeadOf(log) THEN A!Breaks(log) ELSE A!Breaks(log) \cup {n}
  <2>1. A!Breaks(longer) \subseteq DOMAIN longer /\ A!Breaks(log) \subseteq DOMAIN log
    BY DEF A!Breaks
  <2>2. DOMAIN longer = DOMAIN log \cup {n} /\ n \notin DOMAIN log
    BY <1>2
  <2> HIDE DEF n
  <2>3. ASSUME NEW i \in DOMAIN longer
        PROVE i \in A!Breaks(longer)
                <=> i \in A!Breaks(log) \/ (i = n /\ head # HeadOf(log))
    BY <2>1, <2>2, <1>5, <1>6
  <2>4. CASE head = HeadOf(log)
    <3>1. A!Breaks(longer) = A!Breaks(log)
      BY <2>1, <2>2, <2>3, <2>4
    <3> QED BY <2>4, <3>1
  <2>5. CASE head # HeadOf(log)
    <3>1. A!Breaks(longer) = A!Breaks(log) \cup {n}
      BY <2>1, <2>2, <2>3, <2>5
    <3> QED BY <2>5, <3>1
  <2> QED BY <2>4, <2>5
<1>8. n \notin A!Breaks(log)
  <2>1. A!Breaks(log) \subseteq 1..Len(log)
    BY <1>2 DEF A!Breaks
  <2> QED BY <2>1, <1>2
<1>9. Cardinality(A!Breaks(longer)) = Cardinality(A!Breaks(log)) + Ahead(log, head)
  <2>1. CASE head = HeadOf(log)
    BY <2>1, <1>7, BreaksFinite DEF Ahead
  <2>2. CASE head # HeadOf(log)
    BY <2>2, <1>7, <1>8, BreaksFinite, FS_AddElement DEF Ahead
  <2> QED BY <2>1, <2>2
<1> QED BY <1>2, <1>3, <1>4, <1>9 DEF e, longer

(* The local log fails to verify at no more lines than writes to it        *)
(* raised: threads, network faults and restarts cannot break its chain.    *)
THEOREM LogsStand == A!Spec => []FileVerifies
<1>1. A!Init => Accounted
  <2> SUFFICES ASSUME A!Init PROVE Accounted
    OBVIOUS
  <2>1. A!Breaks(file) = {}
    BY DEF A!Init, A!Breaks
  <2>2. Cardinality(A!Breaks(file)) = 0
    BY <2>1, FS_EmptySet
  <2> QED BY <2>2 DEF A!Init, Accounted, Ahead, HeadOf, A!Genesis
<1>2. Accounted /\ [A!Next]_(A!vars) => Accounted'
  <2> SUFFICES ASSUME Accounted, [A!Next]_(A!vars) PROVE Accounted'
    OBVIOUS
  <2>1. ASSUME UNCHANGED <<file, fileHead, failed>>,
               event' \in [Emitters -> Nat], emitted' \in Nat
        PROVE Accounted'
    BY <2>1 DEF Accounted, Ahead, HeadOf, A!Hash, A!Breaks
  <2>2. ASSUME NEW t \in Emitters, A!Emit(t) PROVE Accounted'
    <3>1. emitted + 1 \in Nat
      BY DEF Accounted
    <3> QED BY <2>2, <3>1, <2>1 DEF A!Emit, A!sinks, Accounted
  <2>3. ASSUME NEW t \in Emitters, A!WriteFile(t) PROVE Accounted'
    <3>1. event[t] \in Nat
      BY DEF Accounted
    <3>2. /\ file' = Append(file, A!Sealed(fileHead, event[t]))
          /\ fileHead' = A!Hash(A!Sealed(fileHead, event[t]))
          /\ event' = event /\ emitted' = emitted /\ failed' = failed
      BY <2>3 DEF A!WriteFile, A!history
    <3>3. /\ file' \in Seq(A!Entry)
          /\ fileHead' \in Seq(Nat)
          /\ fileHead' = HeadOf(file')
          /\ Cardinality(A!Breaks(file')) = Cardinality(A!Breaks(file)) + Ahead(file, fileHead)
      BY <3>1, <3>2, SealAdds DEF Accounted
    <3>4. Ahead(file', fileHead') = 0
      BY <3>3 DEF Ahead
    <3>5. Cardinality(A!Breaks(file')) \in Nat
      BY <3>3, BreaksFinite
    <3>6. Cardinality(A!Breaks(file')) + Ahead(file', fileHead') <= failed'
      BY <3>2, <3>3, <3>4, <3>5 DEF Accounted
    <3>7. event' \in [Emitters -> Nat] /\ emitted' \in Nat /\ failed' \in Nat
      BY <3>2 DEF Accounted
    <3> QED BY <3>3, <3>6, <3>7 DEF Accounted, Ahead, HeadOf, A!Hash, A!Breaks
  <2>4. ASSUME NEW t \in Emitters, A!WriteFileFails(t) PROVE Accounted'
    <3>1. /\ file' = file /\ emitted' = emitted /\ failed' = failed + 1
          /\ fileHead' = A!Hash(A!Sealed(fileHead, event[t]))
          /\ event' = [event EXCEPT ![t] = 0]
      BY <2>4 DEF A!WriteFileFails, A!Done
    <3>2. fileHead' \in Seq(Nat) /\ event' \in [Emitters -> Nat]
      BY <3>1, SealAdds DEF Accounted
    <3>3. Cardinality(A!Breaks(file)) \in Nat
      BY BreaksFinite DEF Accounted
    <3>4. Ahead(file, fileHead) \in {0, 1} /\ Ahead(file', fileHead') \in {0, 1}
      BY DEF Ahead
    <3>5. Cardinality(A!Breaks(file')) + Ahead(file', fileHead') <= failed'
      BY <3>1, <3>3, <3>4 DEF Accounted
    <3>6. file' \in Seq(A!Entry) /\ emitted' \in Nat /\ failed' \in Nat
      BY <3>1 DEF Accounted
    <3> QED BY <3>2, <3>5, <3>6 DEF Accounted, Ahead, HeadOf, A!Hash, A!Breaks
  <2>5. ASSUME NEW t \in Emitters, A!SealMirror(t) PROVE Accounted'
    BY <2>5, <2>1 DEF A!SealMirror, A!history, Accounted
  <2>6. ASSUME NEW t \in Emitters, A!Post(t) \/ A!PostFails(t) PROVE Accounted'
    <3>1. /\ UNCHANGED <<file, fileHead, failed>> /\ emitted' = emitted
          /\ event' = [event EXCEPT ![t] = 0]
      <4>1. CASE A!Post(t)
        BY <4>1 DEF A!Post, A!Returns, A!Done
      <4>2. CASE A!PostFails(t)
        BY <4>2 DEF A!PostFails, A!Returns, A!Done
      <4> QED BY <2>6, <4>1, <4>2
    <3> QED BY <3>1, <2>1 DEF Accounted
  <2>7. CASE A!Arrive
    BY <2>7, <2>1 DEF A!Arrive, A!threads, A!history, Accounted
  <2>8. CASE A!Restart
    <3>1. /\ file' = file /\ emitted' = emitted /\ failed' = failed
          /\ event' = [t \in Emitters |-> 0]
          /\ fileHead' = A!RecoveredHead
      BY <2>8 DEF A!Restart
    <3>2. A!RecoveredHead = HeadOf(file)
      BY DEF A!RecoveredHead, HeadOf, Accounted, A!Last
    <3>3. A!RecoveredHead \in Seq(Nat)
      <4>1. CASE file = << >>
        BY <4>1 DEF A!RecoveredHead, A!Genesis
      <4>2. CASE file # << >>
        <5>1. file[Len(file)] \in A!Entry
          BY <4>2 DEF Accounted
        <5> QED BY <4>2, <5>1, <3>2 DEF HeadOf, A!Hash, A!Entry
      <4> QED BY <4>1, <4>2
    <3>4. Cardinality(A!Breaks(file)) \in Nat /\ Ahead(file, fileHead) \in {0, 1}
      BY BreaksFinite DEF Accounted, Ahead
    <3>5. Ahead(file', fileHead') = 0
      BY <3>1, <3>2 DEF Ahead
    <3>6. Cardinality(A!Breaks(file')) + Ahead(file', fileHead') <= failed'
      BY <3>1, <3>4, <3>5 DEF Accounted
    <3> QED BY <3>1, <3>3, <3>6 DEF Accounted, Ahead, HeadOf, A!Hash, A!Breaks
  <2>9. CASE UNCHANGED A!vars
    BY <2>9, <2>1 DEF A!vars, A!sinks, A!threads, A!history, Accounted
  <2> QED
    BY <2>2, <2>3, <2>4, <2>5, <2>6, <2>7, <2>8, <2>9 DEF A!Next
<1>3. Accounted => FileVerifies
  <2> SUFFICES ASSUME Accounted PROVE FileVerifies
    OBVIOUS
  <2>1. Cardinality(A!Breaks(file)) \in Nat /\ Ahead(file, fileHead) \in {0, 1}
    BY BreaksFinite DEF Accounted, Ahead
  <2> QED BY <2>1, AuditCardinality DEF Accounted, FileVerifies, A!FileVerifies
<1> QED
  BY <1>1, <1>2, <1>3, PTL DEF A!Spec
-----------------------------------------------------------------------------
Emitted == 1..emitted

(* Where an emission is tells where its event is: not yet in the file, or  *)
(* in it while its copy is sealed, posted or late.  No two emissions have  *)
(* the same event.                                                         *)
Tracked ==
  /\ Cardinality(A!EventsIn(file)) = Len(file) /\ A!EventsIn(file) \subseteq Emitted
  /\ A!EventsIn(cloud) \cup returned \cup {e.ev : e \in late} \subseteq A!EventsIn(file)
  /\ DOMAIN post = Emitters
  /\ \A t \in Emitters :
       /\ emitterPc[t] # "idle" => event[t] \in Emitted
       /\ emitterPc[t] = "file" => event[t] \notin A!EventsIn(file)
       /\ emitterPc[t] \in {"mirror", "post"} => event[t] \in A!EventsIn(file)
       /\ emitterPc[t] = "post" => post[t].ev = event[t]
  /\ \A t, u \in Emitters :
       emitterPc[t] # "idle" /\ emitterPc[u] # "idle" /\ event[t] = event[u] => t = u

(* A log's events, one entry later. *)
LEMMA EventsAppend ==
  ASSUME NEW log \in Seq(A!Entry), NEW e \in A!Entry
  PROVE  A!EventsIn(Append(log, e)) = A!EventsIn(log) \cup {e.ev}
<1> DEFINE longer == Append(log, e)
           n == Len(log) + 1
<1>1. /\ DOMAIN longer = DOMAIN log \cup {n} /\ longer[n] = e
      /\ \A i \in DOMAIN log : longer[i] = log[i]
  OBVIOUS
<1> HIDE DEF longer, n
<1>2. ASSUME NEW x PROVE x \in A!EventsIn(longer) <=> x \in A!EventsIn(log) \cup {e.ev}
  BY <1>1 DEF A!EventsIn
<1> QED BY <1>2 DEF longer

(* A set of emitted events is finite. *)
LEMMA EmittedFinite ==
  ASSUME emitted \in Nat, NEW S, S \subseteq Emitted
  PROVE  IsFiniteSet(S) /\ Cardinality(S) \in Nat
<1>1. IsFiniteSet(Emitted)
  BY FS_Interval DEF Emitted
<1>2. IsFiniteSet(S)
  BY <1>1, FS_Subset
<1> QED BY <1>2, FS_CardinalityType

(* What an entry seals. *)
LEMMA SealTyped ==
  ASSUME NEW head \in Seq(Nat), NEW ev \in Nat
  PROVE  /\ A!Sealed(head, ev) \in A!Entry /\ A!Sealed(head, ev).ev = ev
         /\ A!Hash(A!Sealed(head, ev)) \in Seq(Nat)
BY DEF A!Sealed, A!Hash, A!Entry

(* The state at the start. *)
LEMMA TrackedInit == ASSUME A!Init PROVE A!TypeOK /\ Tracked /\ A!DropsCounted
<1>1. A!EventsIn(file) = {} /\ A!EventsIn(cloud) = {} /\ late = {} /\ returned = {} /\ life = {}
  BY DEF A!Init, A!EventsIn
<1>2. Cardinality({}) = 0
  BY FS_EmptySet
<1>3. A!TypeOK
  BY <1>1 DEF A!Init, A!TypeOK, A!Genesis
<1>4. Tracked
  BY <1>1, <1>2 DEF A!Init, Tracked
<1>5. life \ A!EventsIn(cloud) = {}
  BY <1>1
<1> QED BY <1>2, <1>3, <1>4, <1>5, AuditCardinality DEF A!DropsCounted, A!Init

(* Every step keeps the types. *)
LEMMA TypesKept == ASSUME A!TypeOK, Tracked, [A!Next]_(A!vars) PROVE A!TypeOK'
<1>1. ASSUME NEW t \in Emitters, A!Emit(t) PROVE A!TypeOK'
  <2>1. /\ emitted' = emitted + 1 /\ event' = [event EXCEPT ![t] = emitted + 1]
        /\ emitterPc' = [emitterPc EXCEPT ![t] = "file"]
        /\ UNCHANGED <<file, cloud, late, fileHead, mirrorHead, dropped, post, returned, life,
                       failed, crashes>>
    BY <1>1 DEF A!Emit, A!sinks
  <2>2. emitted' \in Nat /\ Emitted \subseteq 1..emitted'
    BY <2>1 DEF A!TypeOK, Emitted
  <2> QED BY <2>1, <2>2 DEF A!TypeOK, Emitted
<1>2. ASSUME NEW t \in Emitters, A!WriteFile(t) PROVE A!TypeOK'
  <2>1. event[t] \in Nat /\ fileHead \in Seq(Nat)
    BY DEF A!TypeOK
  <2>2. PICK e \in A!Entry : e = A!Sealed(fileHead, event[t]) /\ A!Hash(e) \in Seq(Nat)
    BY <2>1, SealTyped
  <2>3. /\ file' = Append(file, e) /\ fileHead' = A!Hash(e) /\ emitterPc' = [emitterPc EXCEPT ![t] = "mirror"]
        /\ UNCHANGED <<mirrorHead, dropped, cloud, late, event, post, emitted, returned, life,
                       failed, crashes>>
    BY <1>2, <2>2 DEF A!WriteFile, A!history
  <2> QED BY <2>2, <2>3 DEF A!TypeOK
<1>3. ASSUME NEW t \in Emitters, A!WriteFileFails(t) PROVE A!TypeOK'
  <2>1. event[t] \in Nat /\ fileHead \in Seq(Nat)
    BY DEF A!TypeOK
  <2>2. fileHead' \in Seq(Nat)
    BY <1>3, <2>1, SealTyped DEF A!WriteFileFails
  <2>3. /\ emitterPc' \in [Emitters -> {"idle", "file", "mirror", "post"}] /\ event' \in [Emitters -> Nat]
        /\ \A u \in Emitters : emitterPc'[u] = "post" => post'[u] \in A!Entry
    BY <1>3 DEF A!WriteFileFails, A!Done, A!TypeOK, Tracked
  <2> QED BY <1>3, <2>2, <2>3 DEF A!WriteFileFails, A!TypeOK
<1>4. ASSUME NEW t \in Emitters, A!SealMirror(t) PROVE A!TypeOK'
  <2>1. event[t] \in Nat /\ mirrorHead \in Seq(Nat)
    BY DEF A!TypeOK
  <2>2. PICK e \in A!Entry : e = A!Sealed(mirrorHead, event[t]) /\ A!Hash(e) \in Seq(Nat)
    BY <2>1, SealTyped
  <2>3. /\ mirrorHead' = A!Hash(e) /\ post' = [post EXCEPT ![t] = e]
        /\ emitterPc' = [emitterPc EXCEPT ![t] = "post"]
        /\ UNCHANGED <<file, fileHead, dropped, cloud, late, event, emitted, returned, life,
                       failed, crashes>>
    BY <1>4, <2>2 DEF A!SealMirror, A!history
  <2>4. ASSUME NEW u \in Emitters, emitterPc'[u] = "post" PROVE post'[u] \in A!Entry
    BY <2>2, <2>3, <2>4 DEF A!TypeOK, Tracked
  <2> QED BY <2>2, <2>3, <2>4 DEF A!TypeOK
<1>5. ASSUME NEW t \in Emitters, emitterPc[t] = "post", A!Returns(t),
             UNCHANGED <<file, fileHead, mirrorHead>>,
             cloud' \in Seq(A!Entry), late' \subseteq A!Entry, dropped' \in Nat
      PROVE  A!TypeOK'
  <2>1. event[t] \in 1..emitted
    BY <1>5 DEF Tracked, Emitted
  <2>2. /\ returned' \subseteq 1..emitted /\ life' \subseteq returned' /\ emitted' = emitted
        /\ UNCHANGED <<failed, crashes>>
    BY <1>5, <2>1 DEF A!Returns, A!TypeOK
  <2>3. /\ emitterPc' \in [Emitters -> {"idle", "file", "mirror", "post"}] /\ event' \in [Emitters -> Nat]
        /\ \A u \in Emitters : emitterPc'[u] = "post" => post'[u] \in A!Entry
    BY <1>5 DEF A!Returns, A!Done, A!TypeOK, Tracked
  <2> QED BY <1>5, <2>2, <2>3 DEF A!TypeOK
<1>6. ASSUME NEW t \in Emitters, A!Post(t) \/ A!PostFails(t) PROVE A!TypeOK'
  <2>1. emitterPc[t] = "post" /\ post[t] \in A!Entry
    BY <1>6 DEF A!Post, A!PostFails, A!TypeOK
  <2>2. cloud' \in Seq(A!Entry) /\ late' \subseteq A!Entry /\ dropped' \in Nat
    <3>1. cloud \in Seq(A!Entry) /\ late \subseteq A!Entry /\ dropped \in Nat
      BY DEF A!TypeOK
    <3>2. CASE A!Post(t)
      BY <2>1, <3>1, <3>2 DEF A!Post
    <3>3. CASE A!PostFails(t)
      BY <2>1, <3>1, <3>3 DEF A!PostFails
    <3> QED BY <1>6, <3>2, <3>3
  <2> QED BY <1>5, <1>6, <2>1, <2>2 DEF A!Post, A!PostFails
<1>7. CASE A!Arrive
  BY <1>7 DEF A!Arrive, A!TypeOK, A!threads, A!history
<1>8. CASE A!Restart
  <2>1. A!RecoveredHead \in Seq(Nat)
    <3>1. CASE file = << >>
      BY <3>1 DEF A!RecoveredHead, A!Genesis
    <3>2. CASE file # << >>
      <4>1. file[Len(file)] \in A!Entry
        BY <3>2 DEF A!TypeOK
      <4> QED BY <3>2, <4>1 DEF A!RecoveredHead, A!Last, A!Hash, A!Entry
    <3> QED BY <3>1, <3>2
  <2>2. late' \subseteq A!Entry
    <3>1. PICK sent \in SUBSET {t \in Emitters : emitterPc[t] = "post"} :
             late' = late \cup {post[t] : t \in sent}
      BY <1>8 DEF A!Restart
    <3> QED BY <3>1 DEF A!TypeOK
  <2> QED BY <1>8, <2>1, <2>2 DEF A!Restart, A!TypeOK, A!Genesis
<1>9. CASE UNCHANGED A!vars
  BY <1>9 DEF A!vars, A!sinks, A!threads, A!history, A!TypeOK
<1> QED BY <1>1, <1>2, <1>3, <1>4, <1>6, <1>7, <1>8, <1>9 DEF A!Next

(* Every step keeps track of where the events are. *)
LEMMA TrackedKept == ASSUME A!TypeOK, Tracked, [A!Next]_(A!vars) PROVE Tracked'
<1>0. /\ file \in Seq(A!Entry) /\ cloud \in Seq(A!Entry) /\ fileHead \in Seq(Nat)
      /\ mirrorHead \in Seq(Nat) /\ emitted \in Nat /\ event \in [Emitters -> Nat]
      /\ emitterPc \in [Emitters -> {"idle", "file", "mirror", "post"}]
      /\ A!EventsIn(file) \subseteq Emitted
  BY DEF A!TypeOK, Tracked
<1>1. ASSUME NEW t \in Emitters, A!Emit(t) PROVE Tracked'
  <2>1. /\ emitted' = emitted + 1 /\ event' = [event EXCEPT ![t] = emitted + 1]
        /\ emitterPc' = [emitterPc EXCEPT ![t] = "file"]
        /\ UNCHANGED <<file, cloud, late, post, returned>>
    BY <1>1 DEF A!Emit, A!sinks
  <2>2. Emitted' = Emitted \cup {emitted + 1} /\ emitted + 1 \notin Emitted
    <3>1. \A x : x \in 1..(emitted + 1) <=> x \in 1..emitted \/ x = emitted + 1
      BY <1>0
    <3>2. emitted + 1 \notin 1..emitted
      BY <1>0
    <3> QED BY <2>1, <3>1, <3>2 DEF Emitted
  <2>3. UNCHANGED <<A!EventsIn(file), A!EventsIn(cloud)>>
    BY <2>1 DEF A!EventsIn
  <2> HIDE DEF Emitted
  <2>4. ASSUME NEW u \in Emitters
        PROVE  /\ emitterPc'[u] # "idle" => event'[u] \in Emitted'
               /\ emitterPc'[u] = "file" => event'[u] \notin A!EventsIn(file)
               /\ emitterPc'[u] \in {"mirror", "post"} => event'[u] \in A!EventsIn(file)
               /\ emitterPc'[u] = "post" => post[u].ev = event'[u]
    BY <1>0, <2>1, <2>2 DEF Tracked
  <2>5. ASSUME NEW u \in Emitters, NEW v \in Emitters, emitterPc'[u] # "idle", emitterPc'[v] # "idle",
               event'[u] = event'[v]
        PROVE  u = v
    BY <1>0, <2>1, <2>2, <2>5 DEF Tracked
  <2> QED BY <2>1, <2>2, <2>3, <2>4, <2>5 DEF Tracked
<1>2. ASSUME NEW t \in Emitters, A!WriteFile(t) PROVE Tracked'
  <2>1. PICK e \in A!Entry : e = A!Sealed(fileHead, event[t]) /\ e.ev = event[t]
    BY <1>0, SealTyped
  <2>2. /\ file' = Append(file, e) /\ emitterPc' = [emitterPc EXCEPT ![t] = "mirror"] /\ emitterPc[t] = "file"
        /\ UNCHANGED <<cloud, late, event, post, emitted, returned>>
    BY <1>2, <2>1 DEF A!WriteFile, A!history
  <2>3. A!EventsIn(file') = A!EventsIn(file) \cup {event[t]} /\ Len(file') = Len(file) + 1
    BY <1>0, <2>1, <2>2, EventsAppend
  <2>4. event[t] \notin A!EventsIn(file) /\ event[t] \in Emitted
    BY <2>2 DEF Tracked
  <2>5. Cardinality(A!EventsIn(file')) = Cardinality(A!EventsIn(file)) + 1
    BY <1>0, <2>3, <2>4, EmittedFinite, FS_AddElement
  <2>6. UNCHANGED <<A!EventsIn(cloud), Emitted>>
    BY <2>2 DEF A!EventsIn, Emitted
  <2>7. ASSUME NEW u \in Emitters
        PROVE  /\ emitterPc'[u] # "idle" => event[u] \in Emitted
               /\ emitterPc'[u] = "file" => event[u] \notin A!EventsIn(file')
               /\ emitterPc'[u] \in {"mirror", "post"} => event[u] \in A!EventsIn(file')
               /\ emitterPc'[u] = "post" => post[u].ev = event[u]
    BY <1>0, <2>2, <2>3, <2>4 DEF Tracked
  <2>8. \A u, v \in Emitters : emitterPc'[u] # "idle" /\ emitterPc'[v] # "idle" /\ event[u] = event[v] => u = v
    BY <1>0, <2>2 DEF Tracked
  <2>9. A!EventsIn(file)' = A!EventsIn(file')
    BY DEF A!EventsIn
  <2> QED BY <2>2, <2>3, <2>4, <2>5, <2>6, <2>7, <2>8, <2>9 DEF Tracked
<1>3. ASSUME NEW t \in Emitters, A!Done(t),
             UNCHANGED <<file, emitted>>,
             A!EventsIn(cloud)' \cup returned' \cup {e.ev : e \in late}' \subseteq A!EventsIn(file)
      PROVE  Tracked'
  <2>1. UNCHANGED <<A!EventsIn(file), Emitted, file>>
    BY <1>3 DEF A!EventsIn, Emitted
  <2>2. ASSUME NEW u \in Emitters
        PROVE  /\ emitterPc'[u] # "idle" => u # t /\ emitterPc'[u] = emitterPc[u] /\ event'[u] = event[u]
                                     /\ post'[u] = post[u]
               /\ DOMAIN post' = Emitters
    BY <1>0, <1>3 DEF A!Done, Tracked
  <2> QED BY <1>3, <2>1, <2>2 DEF Tracked
<1>4. ASSUME NEW t \in Emitters, A!WriteFileFails(t) PROVE Tracked'
  <2>1. UNCHANGED <<A!EventsIn(cloud), late>>
    BY <1>4 DEF A!WriteFileFails, A!EventsIn
  <2> QED BY <1>3, <1>4, <2>1 DEF A!WriteFileFails, Tracked
<1>5. ASSUME NEW t \in Emitters, A!SealMirror(t) PROVE Tracked'
  <2>1. PICK e \in A!Entry : e = A!Sealed(mirrorHead, event[t]) /\ e.ev = event[t]
    BY <1>0, SealTyped
  <2>2. /\ post' = [post EXCEPT ![t] = e] /\ emitterPc' = [emitterPc EXCEPT ![t] = "post"] /\ emitterPc[t] = "mirror"
        /\ UNCHANGED <<file, cloud, late, event, emitted, returned>>
    BY <1>5, <2>1 DEF A!SealMirror, A!history
  <2>3. UNCHANGED <<A!EventsIn(file), A!EventsIn(cloud), Emitted>>
    BY <2>2 DEF A!EventsIn, Emitted
  <2>4. ASSUME NEW u \in Emitters
        PROVE  /\ emitterPc'[u] # "idle" => event[u] \in Emitted
               /\ emitterPc'[u] = "file" => event[u] \notin A!EventsIn(file)
               /\ emitterPc'[u] \in {"mirror", "post"} => event[u] \in A!EventsIn(file)
               /\ emitterPc'[u] = "post" => post'[u].ev = event[u]
               /\ DOMAIN post' = Emitters
    BY <1>0, <2>1, <2>2 DEF Tracked
  <2>5. \A u, v \in Emitters : emitterPc'[u] # "idle" /\ emitterPc'[v] # "idle" /\ event[u] = event[v] => u = v
    BY <1>0, <2>2 DEF Tracked
  <2>6. DOMAIN post' = Emitters
    BY <2>2 DEF Tracked
  <2> QED BY <2>2, <2>3, <2>4, <2>5, <2>6 DEF Tracked
<1>6. ASSUME NEW t \in Emitters, A!Post(t) \/ A!PostFails(t) PROVE Tracked'
  <2>1. /\ emitterPc[t] = "post" /\ post[t] \in A!Entry /\ post[t].ev = event[t]
        /\ event[t] \in A!EventsIn(file)
    BY <1>6 DEF A!Post, A!PostFails, A!TypeOK, Tracked
  <2>2. A!Done(t) /\ returned' = returned \cup {event[t]} /\ UNCHANGED <<file, emitted>>
    BY <1>6 DEF A!Post, A!PostFails, A!Returns
  <2>3. CASE A!Post(t)
    <3>1. A!EventsIn(cloud') = A!EventsIn(cloud) \cup {event[t]} /\ late' = late
      BY <1>0, <2>1, <2>3, EventsAppend DEF A!Post
    <3>2. A!EventsIn(cloud)' = A!EventsIn(cloud')
      BY DEF A!EventsIn
    <3> QED BY <1>3, <2>1, <2>2, <3>1, <3>2 DEF Tracked
  <2>4. CASE A!PostFails(t)
    <3>1. UNCHANGED A!EventsIn(cloud) /\ late' \subseteq late \cup {post[t]}
      BY <2>4 DEF A!PostFails, A!EventsIn
    <3>2. \A e \in late' : e.ev \in A!EventsIn(file)
      BY <2>1, <3>1 DEF Tracked
    <3> QED BY <1>3, <2>1, <2>2, <3>1, <3>2 DEF Tracked
  <2> QED BY <1>6, <2>3, <2>4
<1>7. CASE A!Arrive
  <2>1. PICK e \in late : late' = late \ {e} /\ cloud' = Append(cloud, e)
    BY <1>7 DEF A!Arrive
  <2>2. e \in A!Entry /\ e.ev \in A!EventsIn(file)
    BY <2>1 DEF A!TypeOK, Tracked
  <2>3. A!EventsIn(cloud') = A!EventsIn(cloud) \cup {e.ev}
    BY <1>0, <2>1, <2>2, EventsAppend
  <2>4. UNCHANGED <<file, emitterPc, event, post, emitted, returned>>
    BY <1>7 DEF A!Arrive, A!threads, A!history
  <2>5. UNCHANGED <<A!EventsIn(file), Emitted>> /\ A!EventsIn(cloud)' = A!EventsIn(cloud')
    BY <2>4 DEF A!EventsIn, Emitted
  <2> QED BY <2>1, <2>2, <2>3, <2>4, <2>5 DEF Tracked
<1>8. CASE A!Restart
  <2>1. PICK sent \in SUBSET {t \in Emitters : emitterPc[t] = "post"} :
           late' = late \cup {post[t] : t \in sent}
    BY <1>8 DEF A!Restart
  <2>2. \A e \in late' : e.ev \in A!EventsIn(file)
    BY <2>1 DEF Tracked
  <2>3. /\ UNCHANGED <<file, cloud, emitted, returned>> /\ DOMAIN post' = Emitters
        /\ \A t \in Emitters : emitterPc'[t] = "idle"
    BY <1>8 DEF A!Restart
  <2>4. UNCHANGED <<A!EventsIn(file), A!EventsIn(cloud), Emitted>>
    BY <2>3 DEF A!EventsIn, Emitted
  <2> QED BY <2>2, <2>3, <2>4 DEF Tracked
<1>9. CASE UNCHANGED A!vars
  <2>1. UNCHANGED <<file, cloud, late, emitterPc, event, post, emitted, returned>>
    BY <1>9 DEF A!vars, A!sinks, A!threads, A!history
  <2>2. UNCHANGED <<A!EventsIn(file), A!EventsIn(cloud), Emitted>>
    BY <2>1 DEF A!EventsIn, Emitted
  <2> QED BY <2>1, <2>2 DEF Tracked
<1> QED BY <1>1, <1>2, <1>4, <1>5, <1>6, <1>7, <1>8, <1>9 DEF A!Next

(* An emission whose post fails is counted; every other step only adds to  *)
(* what the control plane knows.                                           *)
LEMMA DropsKept ==
  ASSUME A!TypeOK, Tracked, A!DropsCounted, [A!Next]_(A!vars)
  PROVE  A!DropsCounted'
<1>0. /\ life \subseteq Emitted /\ emitted \in Nat /\ cloud \in Seq(A!Entry) /\ dropped \in Nat
  BY DEF A!TypeOK, Emitted
<1> DEFINE missing == life \ A!EventsIn(cloud)
<1>1. ASSUME missing' \subseteq missing, dropped' = dropped
      PROVE  A!DropsCounted'
  <2>1. IsFiniteSet(missing) /\ Cardinality(missing) \in Nat
    BY <1>0, EmittedFinite
  <2>2. Cardinality(missing') <= Cardinality(missing) /\ Cardinality(missing') \in Nat
    BY <1>1, <2>1, FS_Subset, FS_CardinalityType
  <2> QED BY <1>0, <1>1, <2>1, <2>2, AuditCardinality DEF A!DropsCounted
<1>2. CASE UNCHANGED <<life, cloud, dropped>>
  BY <1>1, <1>2 DEF A!EventsIn
<1>3. ASSUME NEW t \in Emitters, A!Post(t) PROVE A!DropsCounted'
  <2>1. /\ post[t] \in A!Entry /\ post[t].ev = event[t] /\ life' = life \cup {event[t]}
        /\ cloud' = Append(cloud, post[t]) /\ dropped' = dropped
    BY <1>3 DEF A!Post, A!Returns, A!TypeOK, Tracked
  <2>2. A!EventsIn(cloud') = A!EventsIn(cloud) \cup {event[t]} /\ A!EventsIn(cloud)' = A!EventsIn(cloud')
    BY <1>0, <2>1, EventsAppend DEF A!EventsIn
  <2> QED BY <1>1, <2>1, <2>2
<1>4. ASSUME NEW t \in Emitters, A!PostFails(t) PROVE A!DropsCounted'
  <2>1. life' = life \cup {event[t]} /\ cloud' = cloud /\ dropped' = dropped + 1
    BY <1>4 DEF A!PostFails, A!Returns
  <2>2. IsFiniteSet(missing) /\ Cardinality(missing) \in Nat
    BY <1>0, EmittedFinite
  <2>3. missing' \subseteq missing \cup {event[t]}
    BY <2>1 DEF A!EventsIn
  <2>4. /\ IsFiniteSet(missing \cup {event[t]})
        /\ Cardinality(missing \cup {event[t]}) <= Cardinality(missing) + 1
        /\ Cardinality(missing \cup {event[t]}) \in Nat
    <3>1. PICK m, ev : m = missing /\ ev = event[t]
      OBVIOUS
    <3> HIDE DEF missing
    <3>2. /\ IsFiniteSet(m \cup {ev})
          /\ Cardinality(m \cup {ev}) = IF ev \in m THEN Cardinality(m) ELSE Cardinality(m) + 1
      BY <2>2, <3>1, FS_AddElement
    <3> QED BY <2>2, <3>1, <3>2
  <2>5. Cardinality(missing') <= Cardinality(missing \cup {event[t]}) /\ Cardinality(missing') \in Nat
    BY <2>3, <2>4, FS_Subset, FS_CardinalityType
  <2> QED BY <1>0, <2>1, <2>2, <2>4, <2>5, AuditCardinality DEF A!DropsCounted
<1>5. CASE A!Arrive
  <2>1. PICK e \in late : cloud' = Append(cloud, e)
    BY <1>5 DEF A!Arrive
  <2>2. e \in A!Entry /\ UNCHANGED <<life, dropped>>
    BY <1>5, <2>1 DEF A!TypeOK, A!Arrive, A!history
  <2>3. A!EventsIn(cloud') = A!EventsIn(cloud) \cup {e.ev} /\ A!EventsIn(cloud)' = A!EventsIn(cloud')
    BY <1>0, <2>1, <2>2, EventsAppend DEF A!EventsIn
  <2> QED BY <1>1, <2>2, <2>3
<1>6. CASE A!Restart
  <2>1. dropped' = 0 /\ missing' = {}
    BY <1>6 DEF A!Restart
  <2> QED BY <2>1, FS_EmptySet, AuditCardinality DEF A!DropsCounted
<1> QED
  BY <1>2, <1>3, <1>4, <1>5, <1>6
  DEF A!Next, A!Emit, A!WriteFile, A!WriteFileFails, A!SealMirror, A!Done, A!vars, A!sinks, A!threads, A!history

(* The inductive invariant of the two logs. *)
LEMMA LogsInductive == A!Spec => [](A!TypeOK /\ Tracked /\ A!DropsCounted)
<1>1. A!Init => A!TypeOK /\ Tracked /\ A!DropsCounted
  BY TrackedInit
<1>2. A!TypeOK /\ Tracked /\ A!DropsCounted /\ [A!Next]_(A!vars) => (A!TypeOK /\ Tracked /\ A!DropsCounted)'
  BY TypesKept, TrackedKept, DropsKept
<1> QED BY <1>1, <1>2, PTL DEF A!Spec
-----------------------------------------------------------------------------
(* The logs hold sealed entries, and what returned was emitted.            *)
THEOREM AuditTyped == A!Spec => []A!TypeOK
BY LogsInductive, PTL

(* MultiSink over a file and a mirror: whatever threads, faults and        *)
(* crashes do, the control plane never knows an event the local log lacks, *)
(* no emission that returned is lost from it or on it twice, and what the  *)
(* mirror misses is counted.                                               *)
THEOREM MirrorStands == A!Spec => []MirrorAccounted
<1>1. A!TypeOK /\ Tracked /\ A!DropsCounted => MirrorAccounted
  BY AuditCardinality DEF Tracked, MirrorAccounted, A!MirrorAccounted, A!LocalIsTruth
<1> QED BY <1>1, LogsInductive, PTL
-----------------------------------------------------------------------------
(* The HTTP server, whose theorems are proved in a module of their own.    *)
RP == INSTANCE ResourceServer_proofs WITH
        Threads <- Handlers, server <- http, pc <- handlerPc, req <- reqs

LEMMA SameServer ==
  /\ R!Init <=> RP!Init
  /\ [R!Next]_(R!vars) <=> [RP!Next]_(RP!vars)
  /\ R!TypeOK <=> RP!TypeOK
  /\ R!ServerAssumption <=> RP!ServerAssumption
<1>1. R!Init <=> RP!Init
  BY DEF R!Init, RP!Init, R!NoRequest, RP!NoRequest
<1>2. R!vars = RP!vars /\ R!tables = RP!tables
  BY DEF R!vars, RP!vars, R!tables, RP!tables
<1>3. \A t \in Handlers : R!Step(t) <=> RP!Step(t)
  <2> SUFFICES ASSUME NEW t \in Handlers PROVE R!Step(t) <=> RP!Step(t)
    OBVIOUS
  <2>1. R!Authorize(t) <=> RP!Authorize(t)
    BY DEF R!Authorize, RP!Authorize, R!Handle, RP!Handle, R!Refuse, RP!Refuse, R!VerifyWithKey,
           RP!VerifyWithKey, R!VerifyWithTable, RP!VerifyWithTable, R!Chosen,
           RP!Chosen, R!Stale, RP!Stale, R!Goto, RP!Goto, R!Keep, RP!Keep,
           R!NoRequest, RP!NoRequest, R!tables, RP!tables
  <2>2. R!Acquire(t) <=> RP!Acquire(t)
    BY DEF R!Acquire, RP!Acquire, R!Goto, RP!Goto, R!tables, RP!tables
  <2>3. R!Fetch(t) <=> RP!Fetch(t)
    BY DEF R!Fetch, RP!Fetch, R!Goto, RP!Goto, R!Keep, RP!Keep, R!Usable, RP!Usable, R!tables,
           RP!tables
  <2>4. R!FetchFails(t) <=> RP!FetchFails(t)
    BY DEF R!FetchFails, RP!FetchFails, R!Goto, RP!Goto, R!Keep, RP!Keep, R!Refuse, RP!Refuse,
           R!NoRequest, RP!NoRequest, R!tables, RP!tables
  <2>5. R!Install(t) <=> RP!Install(t)
    BY DEF R!Install, RP!Install, R!Goto, RP!Goto, R!tables, RP!tables
  <2>6. R!Stamp(t) <=> RP!Stamp(t)
    BY DEF R!Stamp, RP!Stamp, R!Goto, RP!Goto, R!tables, RP!tables
  <2>7. R!Look(t) <=> RP!Look(t)
    BY DEF R!Look, RP!Look, R!Usable, RP!Usable, R!First, RP!First, R!Chosen, RP!Chosen, R!Goto,
           RP!Goto, R!Keep, RP!Keep, R!Miss, RP!Miss, R!Refuse, RP!Refuse,
           R!NoRequest, RP!NoRequest, R!tables, RP!tables
  <2>8. R!Count(t) <=> RP!Count(t)
    BY DEF R!Count, RP!Count, R!Usable, RP!Usable, R!Cardinality, RP!Cardinality, R!Goto,
           RP!Goto, R!Keep, RP!Keep, R!Miss, RP!Miss, R!Refuse, RP!Refuse,
           R!NoRequest, RP!NoRequest, R!tables, RP!tables
  <2>9. R!Pick(t) <=> RP!Pick(t)
    BY DEF R!Pick, RP!Pick, R!Usable, RP!Usable, R!First, RP!First, R!Chosen, RP!Chosen, R!Goto,
           RP!Goto, R!Keep, RP!Keep, R!Miss, RP!Miss, R!Refuse, RP!Refuse,
           R!NoRequest, RP!NoRequest, R!tables, RP!tables
  <2>10. R!Check(t) <=> RP!Check(t)
    BY DEF R!Check, RP!Check, R!SignedBy, RP!SignedBy, R!ClaimsHold, RP!ClaimsHold, R!Handle,
           RP!Handle, R!Refuse, RP!Refuse, R!Goto, RP!Goto, R!Keep, RP!Keep,
           R!NoRequest, RP!NoRequest, R!tables, RP!tables
  <2> QED BY <2>1, <2>2, <2>3, <2>4, <2>5, <2>6, <2>7, <2>8, <2>9, <2>10 DEF R!Step, RP!Step
<1>4. \A s \in Settings, answers \in Metadata : R!Start(s, answers) <=> RP!Start(s, answers)
  BY DEF R!Start, RP!Start, R!MayServe, RP!MayServe, R!Discovered, RP!Discovered, R!Usable,
         RP!Usable, R!First, RP!First, R!tables, RP!tables
<1>5. \A t \in Handlers : \A token \in Tokens \cup {NoToken} :
        R!Receive(t, token) <=> RP!Receive(t, token)
  BY DEF R!Receive, RP!Receive, R!Goto, RP!Goto, R!Keep, RP!Keep, R!NoRequest, RP!NoRequest,
         R!tables, RP!tables
<1>6. (R!Rotate <=> RP!Rotate) /\ (R!Tick <=> RP!Tick)
  BY DEF R!Rotate, RP!Rotate, R!Tick, RP!Tick, R!tables, RP!tables
<1>7. [R!Next]_(R!vars) <=> [RP!Next]_(RP!vars)
  <2>1. R!Next <=> RP!Next
    BY <1>3, <1>4, <1>5, <1>6, Zenon DEF R!Next, RP!Next
  <2>2. UNCHANGED R!vars <=> UNCHANGED RP!vars
    BY DEF R!vars, RP!vars, R!tables, RP!tables
  <2> QED BY <2>1, <2>2
<1>8. R!TypeOK <=> RP!TypeOK
  BY DEF R!TypeOK, RP!TypeOK, R!NoRequest, RP!NoRequest
<1>9. R!ServerAssumption <=> RP!ServerAssumption
  BY DEF R!ServerAssumption, RP!ServerAssumption
<1> QED BY <1>1, <1>7, <1>8, <1>9

(* Only genuine tokens are passed on, and a withdrawn key soon ends        *)
(* (mcp_auth.py).                                                          *)
THEOREM OnlyGenuineHandled ==
  ASSUME R!ServerAssumption
  PROVE  R!Spec => []HandledGenuine
<1>1. HandledGenuine <=> RP!HandledGenuine
  BY DEF HandledGenuine, R!HandledGenuine, RP!HandledGenuine, R!TokensGenuine, RP!TokensGenuine, R!RevocationBounded,
         RP!RevocationBounded, R!NoRollback, RP!NoRollback, R!Keys, RP!Keys, R!Current,
         RP!Current
<1> QED BY <1>1, SameServer, RP!StaysGenuine, PTL DEF R!Spec, RP!Unfair

(* Whichever part runs, the steps of each are its own, or none.            *)
LEMMA PartsStep ==
  /\ AllInit => Init /\ R!Init /\ T!Init /\ A!Init /\ B!Init
  /\ [AllNext]_allVars =>
       [Next]_vars /\ [R!Next]_(R!vars) /\ [T!Next]_(T!vars) /\ [A!Next]_(A!vars) /\ [B!Next]_(B!vars)
BY DEF AllInit, AllNext, allVars, serverVars, transportVars, auditVars, sandboxVars,
       R!vars, R!tables, T!vars, T!server, A!vars, A!sinks, A!threads, A!history,
       B!vars, B!run, B!processes

LEMMA PartsRun ==
  AllSpec => Spec /\ R!Spec /\ T!Spec /\ A!Spec /\ B!Spec
BY PartsStep, PTL DEF AllSpec, AllFairness, Spec, R!Spec, T!Spec, A!Spec, B!Spec

(* Whichever part runs, every part keeps its types.                        *)
THEOREM PartsTyped ==
  ASSUME PartsAssumption
  PROVE  AllSpec => []TypesOK
<1>1. AllSpec => []R!TypeOK
  BY PartsRun, SameServer, RP!StaysTyped, PTL DEF R!Spec, PartsAssumption, RP!Unfair
<1>2. RunInv => B!TypeOK
  BY DEF RunInv
<1>3. AllSpec => []TypeOK
  BY PartsRun, TypeCorrect, PTL DEF PartsAssumption
<1>4. AllSpec => []T!TypeOK
  BY PartsRun, TransportTyped, PTL DEF PartsAssumption
<1>5. AllSpec => []A!TypeOK
  BY PartsRun, AuditTyped, PTL
<1>6. AllSpec => []B!TypeOK
  BY PartsRun, <1>2, RunInvariant, PTL
<1> QED BY <1>1, <1>3, <1>4, <1>5, <1>6, PTL DEF TypesOK

(* Whichever part runs, every edge of the program is safe: what is passed  *)
(* on was vetted and carries a genuine token, answers match, the logs      *)
(* account for every event, and a run leaves nothing it should not.        *)
THEOREM EdgesHold ==
  ASSUME PartsAssumption
  PROVE  AllSpec => [](/\ OnlyVettedRuns /\ ExposedServed
                       /\ HandledGenuine /\ AnswerMatches
                       /\ FileVerifies /\ MirrorAccounted
                       /\ RunContained)
<1>1. AllSpec => [](OnlyVettedRuns /\ ExposedServed)
  BY PartsRun, NoRugPull, ListedIsServed, PTL DEF PartsAssumption
<1>2. AllSpec => [](HandledGenuine /\ AnswerMatches)
  BY PartsRun, OnlyGenuineHandled, AnswersMatch, PTL DEF PartsAssumption
<1>3. AllSpec => [](FileVerifies /\ MirrorAccounted)
  BY PartsRun, LogsStand, MirrorStands, PTL
<1>4. AllSpec => []RunContained
  BY PartsRun, RunIsContained, PTL
<1> QED BY <1>1, <1>2, <1>3, <1>4, PTL
=============================================================================
