------------------------------ MODULE Authority ------------------------------
(***************************************************************************)
(* What decides what a call may do: identities delegated and task scopes   *)
(* issued, the labels of data on their way through calls and memory, the   *)
(* rules of an engine, the policies a guard fetches, and the two facades   *)
(* that grant capabilities, the hub and the guards over one runtime.  The  *)
(* parts share no state; `part` is the one that runs, the others stay as   *)
(* they start.                                                             *)
(***************************************************************************)
EXTENDS Delegation

CONSTANTS
  Names, Declarations, Inputs, Marks, RiskCeiling, No, Anywhere, Nobody, Threads,  \* of the hub
  MaxUses, MaxSwitches,
  Conditions, Absent,                                          \* of all that has rules
  Contents, FlowTools, Invocations, TrustNames, FlowRules,       \* of the flow
  Detectors, Tags, Default, Modes, MinTrust, Keys, MemoryLabels, MaxOps,
  EngineRules, Defaults, NewRules, Contexts, EngineTime, MaxEngines, MaxRules, MaxCalls,  \* of the engine
  Customers, Credentials, ApiKeys, Published, Key, Customer, Credential,   \* of the sync
  MaxPushes, MaxFetches,
  GuardNames, GuardDeclarations, Held, Values, MaxGuards, GuardOps         \* of the guards

VARIABLES
  part,
  hubs, default, epoch, pc, work, tools, ops, uses, ran, broken,
  labels, mode, kv, ns, flowPc, job, audit, flowOps, raced, truth, dirty, took,
  engineNow, engines, enginePc, eval, calls, decided, admitted,
  policy, pushed, response, fetches, synced,
  registry, tracker, trackers, identities, shared, guards, guarded, guardOps, initially, failed,
  marked

hubVars == <<hubs, default, epoch, pc, work, tools, ops, uses, ran, broken>>
flowVars == <<labels, mode, kv, ns, flowPc, job, audit, flowOps, raced, truth, dirty, took>>
engineVars == <<engineNow, engines, enginePc, eval, calls, decided, admitted>>
syncVars == <<policy, pushed, response, fetches, synced>>
guardVars == <<registry, tracker, trackers, identities, shared, guards, guarded, guardOps,
               initially, failed, marked>>
allVars == <<part, vars, hubVars, flowVars, engineVars, syncVars, guardVars>>

H == INSTANCE Aegis
F == INSTANCE DataFlow WITH
       Values <- Contents, Tools <- FlowTools, Calls <- Invocations, Names <- TrustNames,
       Rules <- FlowRules, pc <- flowPc, ops <- flowOps
P == INSTANCE PolicyEngine WITH
       Packs <- EngineRules, Calls <- Contexts, MaxTime <- EngineTime,
       now <- engineNow, pc <- enginePc
Y == INSTANCE PolicySync WITH
       Tenants <- Customers, Tenant <- Customer, Packs <- Published, engines <- synced
U == INSTANCE AgentGuard WITH
       Names <- GuardNames, Declarations <- GuardDeclarations, MaxOps <- GuardOps,
       agents <- identities, ops <- guardOps

PartsAssumption ==
  H!HubAssumption /\ F!FlowAssumption /\ P!EngineAssumption /\ Y!PolicyAssumption
  /\ U!GuardAssumption

AllInit ==
  /\ part \in {"delegation", "hub", "flow", "engine", "sync", "guard"}
  /\ Init /\ H!Init /\ F!Init /\ P!Init /\ Y!Init /\ U!Init

AllNext ==
  /\ UNCHANGED part
  /\ \/ part = "delegation" /\ Next
        /\ UNCHANGED <<hubVars, flowVars, engineVars, syncVars, guardVars>>
     \/ part = "hub" /\ H!Next
        /\ UNCHANGED <<vars, flowVars, engineVars, syncVars, guardVars>>
     \/ part = "flow" /\ F!Next
        /\ UNCHANGED <<vars, hubVars, engineVars, syncVars, guardVars>>
     \/ part = "engine" /\ P!Next
        /\ UNCHANGED <<vars, hubVars, flowVars, syncVars, guardVars>>
     \/ part = "sync" /\ Y!Next
        /\ UNCHANGED <<vars, hubVars, flowVars, engineVars, guardVars>>
     \/ part = "guard" /\ U!Next
        /\ UNCHANGED <<vars, hubVars, flowVars, engineVars, syncVars>>

AllSpec == AllInit /\ [][AllNext]_allVars
-----------------------------------------------------------------------------
(* The types of every part. *)
TypesOK == TypeOK /\ H!TypeOK /\ F!TypeOK /\ P!TypeOK /\ Y!TypeOK /\ U!TypeOK

(* Between two changes of the default hub all threads get the same one; a  *)
(* guarded function is found and holds what it needs, unless its name is   *)
(* being guarded again; and what it runs with beyond its own declaration,  *)
(* a wider declaration of its hub covers (aegis/core.py).                  *)
HubKeepsScope == H!HubKeepsScope

(* The taint of what flowed into a value stays on it, unless two threads   *)
(* labelled it at once (provenance.py).                                    *)
TaintKept == F!TaintKept

(* The flows audit_graph.py reconstructs include every real one. *)
FlowsFound == F!FlowsFound

(* The rule is never passed by a call that carries what it forbids. *)
NoTaintedCall == F!NoTaintedCall

(* The verdict is the most restrictive of the default and the rules that   *)
(* fire, whatever their order, those added to the engine while they are    *)
(* evaluated included (policy_dsl.py).                                     *)
DenyOverrides == P!DenyOverrides

(* A rate limit is exceeded by no more than threads that read the clock    *)
(* before the lock can make it.                                            *)
RateBounded == P!RateBounded

(* The guard runs only packs as some tenant's operators had them signed; a *)
(* fetch that nobody meddles with brings its own tenant's, no older than   *)
(* any of these it ran before, whatever was replayed to it; and a version  *)
(* stands for one pack (policy_sync.py).                                   *)
PoliciesAsPublished == Y!PoliciesAsPublished

(* An agent is widened only by the tools of guards that may grant to it,   *)
(* such a tool is not refused for want of capabilities, and as long as     *)
(* there is one tracker the runtime sees every mark (adapters.py).         *)
GuardsAgree == U!GuardsAgree
==============================================================================
