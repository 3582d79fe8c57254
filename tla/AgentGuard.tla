----------------------------- MODULE AgentGuard -----------------------------
(***************************************************************************)
(* capguard/adapters.py: AgentGuard, the facade over a runtime and one     *)
(* agent, and the guarded tools it hands to frameworks.  Several guards    *)
(* may wrap one runtime: they share its registry, its default agent unless *)
(* they bring their own, and its tracker, which one that brings its own    *)
(* replaces.                                                               *)
(*                                                                         *)
(* The facade takes no lock and does no input or output: each operation is *)
(* one step, whatever it had changed when it raises included.  A call of a *)
(* guarded tool is AgentRuntime's.                                         *)
(***************************************************************************)
EXTENDS Capability

CONSTANTS
  Names,                 \* names of tools
  Declarations,          \* what tool is told of one
  Held,                  \* capabilities an agent may be created with
  Values,                \* values an application may mark
  Nothing,
  MaxGuards, MaxOps

VARIABLES
  registry,              \* the runtime's tools by name
  tracker, trackers,     \* the number of its tracker or 0, and the marks of each
  agents,                \* the capabilities of each AgentIdentity
  shared,                \* the number of the runtime's default agent or 0
  guards, guarded,       \* the AgentGuards, and of each its GuardedTools by name
  ops,
  initially,             \* history: the capabilities each agent was created with
  failed,                \* history: registrations that raised
  marked                 \* history: values marked through any guard

vars == <<registry, tracker, trackers, agents, shared, guards, guarded, ops,
          initially, failed, marked>>
-----------------------------------------------------------------------------
When(flag, capability) == IF flag THEN <<capability>> ELSE << >>

(* _build_capabilities *)
BuildCapabilities(name, d) ==
  LET caps == d.capabilities
              \o When(d.network # {}, Http(d.network)) \o When(d.shell # {}, Shell(d.shell, 30))
              \o When(d.file_read # {}, File("file_read", d.file_read))
              \o When(d.file_write # {}, File("file_write", d.file_write))
              \o When(d.db_read, Db(TRUE)) \o When(d.db_write, Db(FALSE))
  IN IF caps = << >> THEN <<Custom(name)>> ELSE caps

(* What tool and protect take a plain function for. *)
Plain == [capabilities |-> << >>, network |-> {}, shell |-> {}, file_read |-> {},
          file_write |-> {}, db_read |-> FALSE, db_write |-> FALSE, risk |-> "low"]

(* _severity raises on another risk. *)
Risks == {"low", "medium", "high", "critical"}

IsPath(p) == p \in Seq(Range(p))

GuardAssumption ==
  /\ MaxGuards \in Nat \ {0} /\ MaxOps \in Nat
  /\ \A caps \in Held : caps \in Seq(Range(caps))
  /\ \A d \in Declarations :
       /\ d.capabilities \in Seq(Range(d.capabilities))
       /\ \A c \in Range(d.capabilities) :
            /\ c.type = "shell_exec" => c.timeout \in Int
            /\ c.type \in FileTypes => \A p \in c.paths : IsPath(p.dir)
       /\ \A p \in d.file_read \cup d.file_write : IsPath(p.dir)
  /\ \A name \in Names, d \in Declarations \cup {Plain}, g \in 1..MaxGuards :
       [caps |-> BuildCapabilities(name, d), guard |-> g] # Nothing

(* AgentGuard._grant, in order: what the agent holds by then is not added. *)
Add(held, c) == IF HeldCovers(held, c) THEN held ELSE Append(held, c)

Grant(held, caps) ==
  LET granted[i \in 0..Len(caps)] == IF i = 0 THEN held ELSE Add(granted[i - 1], caps[i])
  IN granted[Len(caps)]

(* A GuardedTool calls the runtime for the agent of the guard it is from.  *)
Handle(g, name) == [guard |-> g, agent |-> guards[g].agent, name |-> name]
Handles == {guarded[g][n] : g \in DOMAIN guards, n \in Names} \ {Nothing}

(* What tool and protect change, and whether they raise. *)
World == [registry |-> registry, agents |-> agents, guarded |-> guarded,
          failed |-> failed, raised |-> FALSE]

(* CapGuard.tool: register raises when the name is taken. *)
Register(w, g, name, caps, known_risk) ==
  IF ~known_risk \/ w.registry[name] # Nothing
  THEN [w EXCEPT !.raised = TRUE, !.failed = @ \cup {[guard |-> g, caps |-> caps]}]
  ELSE [w EXCEPT !.registry[name] = [caps |-> caps, guard |-> g],
                 !.guarded[g][name] = Handle(g, name)]

(* AgentGuard.tool: the grant comes first, and stays when the risk is not  *)
(* known or the name is registered already.                                *)
AddTool(w, g, name, d) ==
  LET caps == BuildCapabilities(name, d)
      granted == IF guards[g].auto_grant THEN Grant(w.agents[guards[g].agent], caps)
                 ELSE w.agents[guards[g].agent]
  IN Register([w EXCEPT !.agents[guards[g].agent] = granted], g, name, caps, d.risk \in Risks)

(* One of the tools given to protect: a GuardedTool of any guard is kept,  *)
(* a function registered under its name; anything else raises, as all that *)
(* follows is left.                                                        *)
ProtectOne(w, g, item) ==
  CASE w.raised -> w
    [] ~w.raised /\ item.kind = "tool" ->
         [w EXCEPT !.guarded[g][item.tool.name] = IF @ = Nothing THEN item.tool ELSE @]
    [] ~w.raised /\ item.kind = "function" -> AddTool(w, g, item.name, Plain)
    [] OTHER -> [w EXCEPT !.raised = TRUE]

Items == [kind : {"tool"}, tool : Handles] \cup [kind : {"function"}, name : Names]
         \cup {[kind |-> "other"]}

TypeOK ==
  /\ DOMAIN registry = Names /\ ops \in 0..MaxOps
  /\ tracker \in 0..Len(trackers) /\ shared \in 0..Len(agents)
  /\ Len(initially) = Len(agents) /\ Len(guards) \in 0..MaxGuards /\ Len(guarded) = Len(guards)
  /\ \A g \in DOMAIN guards :
       /\ guards[g].agent \in DOMAIN agents /\ guards[g].tracker \in 0..Len(trackers)
       /\ guards[g].auto_grant \in BOOLEAN
  /\ \A h \in Handles : h.guard \in DOMAIN guards /\ h.agent \in DOMAIN agents

(* A guard made without a runtime makes one with its own agent and a       *)
(* tracker; otherwise there is a runtime that may have neither.            *)
Init ==
  /\ registry = [n \in Names |-> Nothing] /\ ops = 0
  /\ failed = {} /\ marked = {}
  /\ \E caps \in Held, own, default_agent, tracked, auto_grant \in BOOLEAN :
       /\ own => default_agent /\ tracked
       /\ ~own => ~auto_grant            \* there is no guard yet
       /\ agents = IF default_agent THEN <<caps>> ELSE << >>
       /\ shared = IF default_agent THEN 1 ELSE 0
       /\ trackers = IF tracked THEN <<{}>> ELSE << >>
       /\ tracker = IF tracked THEN 1 ELSE 0
       /\ guards = IF own THEN <<[auto_grant |-> auto_grant, agent |-> 1, tracker |-> 1]>> ELSE << >>
       /\ guarded = [g \in DOMAIN guards |-> [n \in Names |-> Nothing]]
  /\ initially = agents
-----------------------------------------------------------------------------
(* AgentGuard over the runtime, given an agent or not, a tracker or not.   *)
FromRuntime(auto_grant, brings_agent, caps, brings_tracker) ==
  LET created == brings_agent \/ shared = 0
      agent == IF created THEN Len(agents) + 1 ELSE shared
      its == IF brings_tracker THEN Len(trackers) + 1 ELSE tracker
  IN
  /\ ops < MaxOps /\ ops' = ops + 1 /\ Len(guards) < MaxGuards
  /\ agents' = IF created THEN Append(agents, caps) ELSE agents
  /\ initially' = IF created THEN Append(initially, caps) ELSE initially
  /\ trackers' = IF brings_tracker THEN Append(trackers, {}) ELSE trackers
  /\ tracker' = its
  /\ guards' = Append(guards, [auto_grant |-> auto_grant, agent |-> agent, tracker |-> its])
  /\ guarded' = Append(guarded, [n \in Names |-> Nothing])
  /\ UNCHANGED <<registry, shared, failed, marked>>

Becomes(w) ==
  /\ ops < MaxOps /\ ops' = ops + 1
  /\ registry' = w.registry /\ agents' = w.agents /\ guarded' = w.guarded /\ failed' = w.failed
  /\ UNCHANGED <<tracker, trackers, shared, guards, initially, marked>>

Tool(g, name, d) == Becomes(AddTool(World, g, name, d))

(* The tools in turn; without any, protect takes those the guard has. *)
Protect(g, items) ==
  LET world[i \in 0..Len(items)] == IF i = 0 THEN World ELSE ProtectOne(world[i - 1], g, items[i])
  IN Becomes(world[Len(items)])

(* wrap, for a name registered or not. *)
Wrap(g, name) ==
  /\ ops < MaxOps /\ ops' = ops + 1
  /\ guarded' = [guarded EXCEPT ![g][name] = Handle(g, name)]
  /\ UNCHANGED <<registry, tracker, trackers, agents, shared, guards, initially, failed, marked>>

(* Mutant: the runtime is not told of the new tracker. *)
ObserveAside(g, value) ==
  LET its == IF guards[g].tracker = 0 THEN Len(trackers) + 1 ELSE guards[g].tracker
      all == IF guards[g].tracker = 0 THEN Append(trackers, {}) ELSE trackers
  IN
  /\ ops < MaxOps /\ ops' = ops + 1
  /\ trackers' = [all EXCEPT ![its] = @ \cup {value}]
  /\ guards' = [guards EXCEPT ![g].tracker = its]
  /\ marked' = marked \cup {value}
  /\ UNCHANGED <<registry, tracker, agents, shared, guarded, initially, failed>>

(* observe, and untrusted and secret through it: a guard that was made     *)
(* while the runtime had no tracker gives it a new one, even if it has one *)
(* by now; a guard whose tracker was replaced goes on marking in its own.  *)
Observe(g, value) ==
  LET missing == guards[g].tracker = 0
      its == IF missing THEN Len(trackers) + 1 ELSE guards[g].tracker
      all == IF missing THEN Append(trackers, {}) ELSE trackers
  IN
  /\ ops < MaxOps /\ ops' = ops + 1
  /\ trackers' = [all EXCEPT ![its] = @ \cup {value}]
  /\ tracker' = IF missing THEN its ELSE tracker
  /\ guards' = [guards EXCEPT ![g].tracker = its]
  /\ marked' = marked \cup {value}
  /\ UNCHANGED <<registry, agents, shared, guarded, initially, failed>>

Next ==
  \/ \E auto_grant, brings_agent, brings_tracker \in BOOLEAN, caps \in Held :
       FromRuntime(auto_grant, brings_agent, caps, brings_tracker)
  \/ \E g \in DOMAIN guards :
       \/ \E name \in Names : Wrap(g, name) \/ \E d \in Declarations : Tool(g, name, d)
       \/ \E items \in {<< >>} \cup {<<i>> : i \in Items} \cup {<<i, j>> : i, j \in Items} :
            Protect(g, items)
       \/ \E value \in Values : Observe(g, value)

Spec == Init /\ [][Next]_vars
-----------------------------------------------------------------------------
(* What an agent holds beyond what it was created with, a tool declared    *)
(* that was registered through a guard of this agent that may grant, or    *)
(* whose registration raised (AgentGuard.tool): no other guard of the      *)
(* runtime widens it.                                                      *)
AuthorityAccounted ==
  \A a \in DOMAIN agents : \A c \in Range(agents[a]) \ Range(initially[a]) :
    \E r \in (Range(registry) \ {Nothing}) \cup failed :
      c \in Range(r.caps) /\ guards[r.guard].auto_grant /\ guards[r.guard].agent = a

(* A tool registered through a guard that may grant is not refused for     *)
(* want of capabilities: the agent holds all it needs (AgentGuard.tool).   *)
ProtectedCallable ==
  \A n \in Names :
    LET tool == registry[n] IN
    tool # Nothing /\ guards[tool.guard].auto_grant =>
      AllCovered(agents[guards[tool.guard].agent], tool.caps)

(* As long as no second tracker comes up, every mark made through any      *)
(* guard is one the runtime sees (AgentGuard.observe).                     *)
MarksSeen ==
  Len(trackers) <= 1 => \A v \in marked : tracker # 0 /\ v \in trackers[tracker]

(* Guards over one runtime do not undo each other's grants and marks.      *)
GuardsAgree == AuthorityAccounted /\ ProtectedCallable /\ MarksSeen
=============================================================================
