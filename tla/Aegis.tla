------------------------------- MODULE Aegis -------------------------------
(***************************************************************************)
(* aegis/core.py: the hub behind the one-line decorators.  guard registers *)
(* a function under its name and grants what it declares to the hub's one  *)
(* agent; a guarded function, called later from any thread, invokes what   *)
(* is registered under that name.  The module-level functions use a        *)
(* default hub made on first use, which configure replaces and reset       *)
(* drops.                                                                  *)
(*                                                                         *)
(* A hub's lock covers guard only: a call reads the granted capabilities   *)
(* and then the registry without it.  The runtime behind the hub comes     *)
(* down to its baseline policy and argument enforcement here; a hub has no *)
(* budget, so that report_usage does nothing.                              *)
(***************************************************************************)
EXTENDS Capability

CONSTANTS
  Names,              \* names functions are guarded under
  Declarations,       \* the flags of guard
  Inputs,             \* keyword arguments of a call
  Marks,              \* [value, label] pairs given to observe
  RiskCeiling,
  No, Anywhere,           \* a file flag that is False, or True
  Nothing, Nobody,
  Threads, MaxUses, MaxSwitches

VARIABLES
  hubs,               \* the Aegis instances, in the order they were made
  default,            \* _default: the number of one, or 0 for None
  epoch,              \* how often configure or reset changed it
  pc, work,           \* per thread
  tools,              \* the guarded functions
  ops,
  uses,               \* history: which hub a module-level call got, and in which epochs
  ran, broken         \* history: calls let through; errors without cause

vars == <<hubs, default, epoch, pc, work, tools, ops, uses, ran, broken>>

Low == 0
High == 2

(* _RISK_MAP: an unknown risk is low. *)
Risk(risk) ==
  CASE risk = "medium" -> 1 [] risk = "high" -> High [] risk = "critical" -> 3 [] OTHER -> Low

Severity(flags) ==
  IF flags.approval /\ Risk(flags.risk) < High THEN High ELSE Risk(flags.risk)

(* _SOURCE_MAP *)
Sources == {"trusted", "untrusted", "web", "secret"}

FileScope(type, scope) ==
  CASE scope = No -> << >> [] scope = Anywhere -> <<File(type, {})>> [] OTHER -> <<File(type, {scope})>>

When(flag, capability) == IF flag THEN <<capability>> ELSE << >>

(* _build_capabilities: a flag that is True is the wildcard, or no bound.  *)
BuildCapabilities(flags) ==
  When(flags.network # {}, Http(flags.network))
  \o FileScope("file_read", flags.file_read)
  \o FileScope("file_write", flags.file_write)
  \o When(flags.shell # {}, Shell(flags.shell, 30))
  \o When(flags.db, Db(TRUE)) \o When(flags.db_write, Db(FALSE))
  \o [i \in DOMAIN flags.custom |-> Custom(flags.custom[i])]

(* The spec guard registers. *)
ToolSpec(name, flags) ==
  LET built == BuildCapabilities(flags)
  IN [caps |-> IF built = << >> THEN <<Custom(name)>> ELSE built, severity |-> Severity(flags)]

(* File scopes are path patterns, further capabilities a list, and Nothing is no tool. *)
HubAssumption ==
  /\ MaxUses \in Nat /\ MaxSwitches \in Nat /\ Nobody \notin Threads
  /\ \A flags \in Declarations :
       /\ flags.custom \in Seq(Range(flags.custom))
       /\ \A scope \in {flags.file_read, flags.file_write} \ {No, Anywhere} :
            scope.dir \in Seq(Range(scope.dir))
       /\ \A name \in Names : ToolSpec(name, flags) # Nothing

NewHub == [registry |-> [n \in Names |-> Nothing], granted |-> << >>,
           lock |-> Nobody, marks |-> {}]

Work(op, arg, hub, held, calm) ==
  [op |-> op, arg |-> arg, hub |-> hub, from |-> epoch, held |-> held, calm |-> calm]
Idle == [op |-> "none"]

TypeOK ==
  /\ default \in 0..Len(hubs) /\ epoch \in 0..MaxSwitches /\ ops \in 0..MaxUses
  /\ \A h \in DOMAIN hubs :
       /\ DOMAIN hubs[h].registry = Names
       /\ hubs[h].lock \in Threads \cup {Nobody}
       /\ hubs[h].lock = Nobody <=>
            ~\E t \in Threads : pc[t] \in {"register", "extend"} /\ work[t].hub = h
  /\ \A t \in Threads : pc[t] \in {"idle", "create", "return", "apply", "register", "extend", "invoke"}
  /\ \A tool \in tools : tool.hub \in DOMAIN hubs /\ tool.name \in Names

Init ==
  /\ hubs = << >> /\ default = 0 /\ epoch = 0
  /\ pc = [t \in Threads |-> "idle"] /\ work = [t \in Threads |-> Idle]
  /\ tools = {} /\ ops = 0 /\ uses = {} /\ ran = {} /\ broken = {}

Mine(t) == hubs[work[t].hub]
-----------------------------------------------------------------------------
(* guard or observe of the module: _get_default tests _default unlocked.   *)
Use(t, op, arg) ==
  /\ pc[t] = "idle" /\ ops < MaxUses /\ ops' = ops + 1
  /\ work' = [work EXCEPT ![t] = Work(op, arg, 0, << >>, TRUE)]
  /\ pc' = [pc EXCEPT ![t] = IF default = 0 THEN "create" ELSE "return"]
  /\ UNCHANGED <<hubs, default, epoch, tools, uses, ran, broken>>

(* Mutant: _default is not tested again under the lock. *)
CreateUntested(t) ==
  /\ pc[t] = "create"
  /\ hubs' = Append(hubs, NewHub) /\ default' = Len(hubs) + 1
  /\ pc' = [pc EXCEPT ![t] = "return"]
  /\ UNCHANGED <<epoch, work, tools, ops, uses, ran, broken>>

(* Under the lock _default is tested again. *)
Create(t) ==
  /\ pc[t] = "create"
  /\ IF default = 0
       THEN hubs' = Append(hubs, NewHub) /\ default' = Len(hubs) + 1
       ELSE UNCHANGED <<hubs, default>>
  /\ pc' = [pc EXCEPT ![t] = "return"]
  /\ UNCHANGED <<epoch, work, tools, ops, uses, ran, broken>>

(* _default is read once more to be returned: reset may have dropped it.   *)
Return(t) ==
  /\ pc[t] = "return"
  /\ uses' = uses \cup {[from |-> work[t].from, to |-> epoch, hub |-> default]}
  /\ LET done == default = 0 \/ work[t].op = "configure"
     IN /\ pc' = [pc EXCEPT ![t] = IF done THEN "idle" ELSE "apply"]
        /\ work' = [work EXCEPT ![t] = IF done THEN Idle ELSE [@ EXCEPT !.hub = default]]
  /\ UNCHANGED <<hubs, default, epoch, tools, ops, ran, broken>>

Configure(t) ==
  /\ pc[t] = "idle" /\ epoch < MaxSwitches
  /\ hubs' = Append(hubs, NewHub)
  /\ default' = Len(hubs) + 1
  /\ epoch' = epoch + 1
  /\ work' = [work EXCEPT ![t] = [Work("configure", Nothing, 0, << >>, TRUE) EXCEPT !.from = epoch + 1]]
  /\ pc' = [pc EXCEPT ![t] = "return"]
  /\ UNCHANGED <<tools, ops, uses, ran, broken>>

Reset ==
  /\ epoch < MaxSwitches
  /\ default' = 0
  /\ epoch' = epoch + 1
  /\ UNCHANGED <<hubs, pc, work, tools, ops, uses, ran, broken>>

(* A source the hub does not know is ignored. *)
Observe(t) ==
  /\ pc[t] = "apply" /\ work[t].op = "observe"
  /\ hubs' = IF work[t].arg.label \in Sources
             THEN [hubs EXCEPT ![work[t].hub].marks = @ \cup {work[t].arg}] ELSE hubs
  /\ pc' = [pc EXCEPT ![t] = "idle"] /\ work' = [work EXCEPT ![t] = Idle]
  /\ UNCHANGED <<default, epoch, tools, ops, uses, ran, broken>>
-----------------------------------------------------------------------------
SameTool(one, another) == one.hub = another.hub /\ one.arg.name = another.arg.name
Calling(u, w) == pc[u] = "invoke" /\ SameTool(work[u], w)
Guarding(u, w) == pc[u] \in {"register", "extend"} /\ SameTool(work[u], w)

(* guard takes the hub's lock and drops what has its name. *)
Unregister(t) ==
  LET w == work[t] IN
  /\ pc[t] = "apply" /\ w.op = "guard"
  /\ Mine(t).lock = Nobody
  /\ hubs' = [hubs EXCEPT ![w.hub].lock = t, ![w.hub].registry[w.arg.name] = Nothing]
  /\ work' = [u \in Threads |-> IF Calling(u, w) THEN [work[u] EXCEPT !.calm = FALSE] ELSE work[u]]
  /\ pc' = [pc EXCEPT ![t] = "register"]
  /\ UNCHANGED <<default, epoch, tools, ops, uses, ran, broken>>

(* register raises when the name is taken. *)
Register(t) ==
  LET w == work[t]
      taken == Mine(t).registry[w.arg.name] # Nothing
  IN
  /\ pc[t] = "register"
  /\ hubs' = IF taken THEN [hubs EXCEPT ![w.hub].lock = Nobody]
             ELSE [hubs EXCEPT ![w.hub].registry[w.arg.name] = ToolSpec(w.arg.name, w.arg.flags)]
  /\ pc' = [pc EXCEPT ![t] = IF taken THEN "idle" ELSE "extend"]
  /\ work' = [work EXCEPT ![t] = IF taken THEN Idle ELSE @]
  /\ broken' = IF taken THEN broken \cup {"duplicate"} ELSE broken
  /\ UNCHANGED <<default, epoch, tools, ops, uses, ran>>

(* The capabilities are granted, on top of those of every other tool, and  *)
(* guard returns the function.                                             *)
Extend(t) ==
  LET w == work[t] IN
  /\ pc[t] = "extend"
  /\ hubs' = [hubs EXCEPT ![w.hub].granted = @ \o ToolSpec(w.arg.name, w.arg.flags).caps,
                          ![w.hub].lock = Nobody]
  /\ tools' = tools \cup {[hub |-> w.hub, name |-> w.arg.name]}
  /\ pc' = [pc EXCEPT ![t] = "idle"] /\ work' = [work EXCEPT ![t] = Idle]
  /\ UNCHANGED <<default, epoch, ops, uses, ran, broken>>

(* A guarded function is called: _agent copies what is granted by now.     *)
Call(t, tool, kwargs) ==
  LET w == Work("call", [name |-> tool.name, kwargs |-> kwargs], tool.hub,
                hubs[tool.hub].granted, TRUE)
  IN
  /\ pc[t] = "idle" /\ ops < MaxUses /\ ops' = ops + 1
  /\ work' = [work EXCEPT ![t] = [w EXCEPT !.calm = ~\E u \in Threads : Guarding(u, w)]]
  /\ pc' = [pc EXCEPT ![t] = "invoke"]
  /\ UNCHANGED <<hubs, default, epoch, tools, uses, ran, broken>>

(* invoke_tool for that agent: the name is looked up, the call decided and *)
(* its arguments enforced.                                                 *)
Outcome(hub, w) ==
  LET tool == hub.registry[w.arg.name]
      verdict == Evaluate(w.held, tool, TRUE, RiskCeiling)
  IN CASE tool = Nothing -> "unknown"
       [] tool # Nothing /\ verdict # "allow" -> verdict
       [] OTHER -> IF ArgumentsEnforced(w.held, tool.caps, Bound(tool.caps, w.arg.kwargs))
                   THEN "ran" ELSE "violation"

Invoke(t) ==
  LET w == work[t]
      outcome == Outcome(Mine(t), w)
  IN
  /\ pc[t] = "invoke"
  /\ ran' = IF outcome = "ran"
            THEN ran \cup {[hub |-> w.hub, caps |-> Mine(t).registry[w.arg.name].caps,
                            kwargs |-> w.arg.kwargs]}
            ELSE ran
  /\ broken' = IF w.calm /\ outcome \in {"unknown", "deny"} THEN broken \cup {outcome} ELSE broken
  /\ pc' = [pc EXCEPT ![t] = "idle"] /\ work' = [work EXCEPT ![t] = Idle]
  /\ UNCHANGED <<hubs, default, epoch, tools, ops, uses>>

Next ==
  \/ Reset
  \/ \E t \in Threads :
       \/ Create(t) \/ Return(t) \/ Configure(t) \/ Observe(t)
       \/ Unregister(t) \/ Register(t) \/ Extend(t) \/ Invoke(t)
       \/ \E n \in Names, flags \in Declarations : Use(t, "guard", [name |-> n, flags |-> flags])
       \/ \E m \in Marks : Use(t, "observe", m)
       \/ \E tool \in tools, kwargs \in Inputs : Call(t, tool, kwargs)

Spec == Init /\ [][Next]_vars
-----------------------------------------------------------------------------
Admits(c, caps, i, kwargs) == Enforces(c, Bound(caps, kwargs)[i])

(* Module-level calls between two changes of the default all get one hub,  *)
(* whichever thread makes it (_get_default, configure).                    *)
OneDefault ==
  \A e \in 0..epoch :
    LET got == {u.hub : u \in {v \in uses : v.from = e /\ v.to = e}}
    IN Cardinality(got) <= 1 /\ 0 \notin got

(* Unless its name is being guarded again, a guarded function is found and *)
(* holds what it needs; guard never finds its name taken (Aegis.guard).    *)
GuardedNamesWork == broken = {}

(* An argument beyond what the tool that ran declared is one that another  *)
(* tool of the hub was granted, of a declaration that covers the tool's.   *)
BoundedByHub ==
  \A r \in ran : \A i \in DOMAIN Bound(r.caps, r.kwargs) :
    \E c \in Range(hubs[r.hub].granted) : Covers(c, r.caps[i]) /\ Admits(c, r.caps, i, r.kwargs)

(* The hub keeps what the decorators promise of it.                        *)
HubKeepsScope == OneDefault /\ GuardedNamesWork /\ BoundedByHub

(* aegis/core.py:243 "network=["api.example.com"]) # only api.example.com": *)
(* a guarded function runs only within the scope it declares itself.        *)
WithinDeclared ==
  \A r \in ran : \A i \in DOMAIN Bound(r.caps, r.kwargs) : Admits(r.caps[i], r.caps, i, r.kwargs)
=============================================================================
