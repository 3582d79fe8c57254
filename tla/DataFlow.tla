------------------------------ MODULE DataFlow ------------------------------
(***************************************************************************)
(* Information flow through a guarded agent: the ProvenanceTracker         *)
(* (capguard/provenance.py) that invoke_tool consults before and after a   *)
(* call, the ProvenanceMemory (capguard/memory.py) over it, and the audit  *)
(* log from which capguard/audit_graph.py rebuilds the flows.              *)
(*                                                                         *)
(* None of them has a lock, and several threads invoke tools at once.      *)
(* observe reads a label in one step and writes the join in another.  A    *)
(* value stands for its content: two calls that return the same content    *)
(* return the same value.                                                  *)
(***************************************************************************)
EXTENDS Predicates, FlowGraph, FiniteSets

CONSTANTS
  Values, Nothing,
  Tools,              \* per tool its output_label and what it may return
  Calls,              \* [tool, args] invocations
  Names,              \* trust named at a call site, "none" for not at all
  Rules,              \* the engine's deny rules
  Detectors,          \* names of the advisory detectors
  Tags,               \* [value, label] pairs the application observes itself
  Default,            \* the tracker's label for what it does not know
  Modes, MinTrust, Keys,   \* modes of the memory ("label", "deny"), its floor and keys
  MemoryLabels,       \* labels given to write and append, Nothing for none
  Threads, MaxOps

FlowAssumption ==
  /\ Modes \subseteq {"label", "deny"} /\ Default \in Label
  /\ Nothing \notin Values \cup Label \cup [value : Values, label : Label] \cup Calls
  /\ \A tool \in DOMAIN Tools : Tools[tool].label \in Label
  /\ \A c \in Calls : c.tool \in DOMAIN Tools /\ \A a \in DOMAIN c.args : c.args[a] \in Values
  /\ Tags \subseteq [value : Values, label : Label] /\ MemoryLabels \subseteq Label \cup {Nothing}
  /\ ConditionsAssumption /\ \A r \in Rules : r.when \in Conditions

VARIABLES
  labels,             \* ProvenanceTracker._labels
  mode, kv, ns,       \* ProvenanceMemory: its mode, items by key, and a namespace
  pc, job,            \* per thread
  audit,
  ops,
  raced,              \* history: values one of whose labels was overwritten
  truth,              \* history: what really flowed into a value through the guard
  dirty,              \* history: values made from data the call site named untrusted, too
  took                \* history: per event, whether it consumed such data

memory == <<mode, kv, ns>>
ghosts == <<raced, truth, dirty, took>>
vars == <<labels, memory, pc, job, audit, ops, ghosts>>

NoJob == [call |-> Nothing, todo |-> << >>, got |-> Nothing, prov |-> << >>, result |-> Nothing,
          real |-> Plain, bad |-> FALSE]

Item(v, label) == [value |-> v, label |-> label]
Items == {kv[k] : k \in {k \in Keys : kv[k] # Nothing}} \cup {ns[i] : i \in DOMAIN ns}

TypeOK ==
  /\ \A v \in Values : labels[v] = Nothing \/ labels[v] \in Label
  /\ \A x \in Items : x.value \in Values /\ x.label \in Label
  /\ mode = "deny" => \A x \in Items : x.label.trust >= MinTrust
  /\ \A t \in Threads :
       /\ pc[t] \in {"idle", "running", "observe", "store", "emit"}
       /\ pc[t] = "idle" <=> job[t] = NoJob
       /\ pc[t] \in {"observe", "store"} => job[t].todo # << >>
  /\ Len(took) = Len(audit)

Init ==
  /\ labels = [v \in Values |-> Nothing]
  /\ mode \in Modes
  /\ kv = [k \in Keys |-> Nothing] /\ ns = << >>
  /\ pc = [t \in Threads |-> "idle"] /\ job = [t \in Threads |-> NoJob]
  /\ audit = << >>
  /\ ops = 0
  /\ raced = {}
  /\ truth = [v \in Values |-> Plain]
  /\ dirty = {}
  /\ took = << >>
-----------------------------------------------------------------------------
LabelFor(v) == IF labels[v] = Nothing THEN Default ELSE labels[v]

Begin(t) == pc[t] = "idle" /\ ops < MaxOps /\ ops' = ops + 1
Goto(t, label, j) == pc' = [pc EXCEPT ![t] = label] /\ job' = [job EXCEPT ![t] = j]
Leave(t) == Goto(t, "idle", NoJob)

(* What is left to observe; then a call is audited, and anything else ends. *)
Continue(t, j) ==
  IF j.todo # << >> THEN Goto(t, "observe", j)
  ELSE IF j.call # Nothing THEN Goto(t, "emit", j) ELSE Leave(t)

(* observe looks the value up... *)
Observe(t) ==
  /\ pc[t] = "observe"
  /\ Goto(t, "store", [job[t] EXCEPT !.got = labels[job[t].todo[1].value]])
  /\ UNCHANGED <<labels, memory, audit, ops, ghosts>>

(* Mutant: the label observed last replaces the one before. *)
MergedLast(got, label) == label

Merged(got, label) == IF got = Nothing THEN label ELSE Combine(got, label)

(* ...and stores the join with what it found, over what came meanwhile.    *)
Store(t) ==
  LET v == job[t].todo[1].value
      merged == Merged(job[t].got, job[t].todo[1].label)
  IN /\ pc[t] = "store"
     /\ labels' = [labels EXCEPT ![v] = merged]
     /\ raced' = IF labels[v] # Nothing /\ labels[v] # job[t].got /\ ~Carries(merged, labels[v])
                 THEN raced \cup {v} ELSE raced
     /\ IF job[t].call = Nothing /\ job[t].bad
        THEN /\ truth' = [truth EXCEPT ![v] = Combine(@, job[t].todo[1].label)]
             /\ dirty' = IF IsUntrusted(job[t].todo[1].label) THEN dirty \cup {v} ELSE dirty
        ELSE UNCHANGED <<truth, dirty>>
     /\ Continue(t, [job[t] EXCEPT !.todo = Tail(@), !.got = Nothing])
     /\ UNCHANGED <<memory, audit, ops, took>>

(* The application labels a value it knows the origin of. *)
Tag(t, x) ==
  /\ Begin(t)
  /\ Goto(t, "observe", [NoJob EXCEPT !.todo = <<x>>, !.bad = TRUE])
  /\ UNCHANGED <<labels, memory, audit, ghosts>>
-----------------------------------------------------------------------------
(* invoke_tool. *)

(* Mutant: what the call site says of an argument replaces what is known.  *)
ArgLabelSaid(v, name) == IF name = "none" THEN LabelFor(v) ELSE FromName(name)

ArgLabel(v, name) ==
  IF name = "none" THEN LabelFor(v) ELSE Combine(LabelFor(v), FromName(name))

(* _run_detectors: the signal of one that raises or says nothing is absent. *)
Signals ==
  UNION {[S -> [score : 0..1, label : {"", "instruction_override"}]] : S \in SUBSET Detectors}

Context(c, argLabels, signals) ==
  [tool |-> c.tool, roles |-> {}, args |-> c.args, signals |-> signals, labels |-> argLabels,
   provenance |-> [a \in DOMAIN c.args |-> Name(argLabels[a])]]

Blocked(ctx) == \E r \in Rules : Fires(r, ctx)

ArgValues(c) == {c.args[a] : a \in DOMAIN c.args}

(* The labels of the arguments are read once, for the gates and the event. *)
Invoke(t, c, name, signals) ==
  LET argLabels == [a \in DOMAIN c.args |-> ArgLabel(c.args[a], name)]
      ctx == Context(c, argLabels, signals)
      bad == ArgValues(c) \cap dirty # {} \/ (ArgValues(c) # {} /\ IsUntrusted(FromName(name)))
  IN /\ Begin(t)
     /\ IF Blocked(ctx)
        THEN /\ audit' = Append(audit, [tool |-> c.tool, args |-> c.args,
                                        provenance |-> ctx.provenance, result |-> Nothing])
             /\ took' = Append(took, bad)
             /\ UNCHANGED <<pc, job>>
        ELSE /\ Goto(t, "running", [NoJob EXCEPT !.call = c, !.prov = ctx.provenance, !.bad = bad])
             /\ UNCHANGED <<audit, took>>
     /\ UNCHANGED <<labels, memory, raced, truth, dirty>>

(* The tool returns and record_output labels the result; a label that says *)
(* nothing is not stored.                                                  *)
Return(t, r) ==
  LET c == job[t].call
      source == Tools[c.tool].label
      out == Combine(CombineAll({LabelFor(v) : v \in ArgValues(c)}), source)
      real == Combine(CombineAll({truth[v] : v \in ArgValues(c)}), source)
  IN /\ pc[t] = "running" /\ r \in Tools[c.tool].results
     /\ Continue(t, [job[t] EXCEPT !.result = r, !.real = real,
                                   !.todo = IF out = Plain THEN << >> ELSE <<Item(r, out)>>])
     /\ UNCHANGED <<labels, memory, audit, ops, ghosts>>

(* The event is emitted and the result reaches the caller. *)
Emit(t) ==
  LET j == job[t]
  IN /\ pc[t] = "emit"
     /\ audit' = Append(audit, [tool |-> j.call.tool, args |-> j.call.args, provenance |-> j.prov,
                                result |-> j.result])
     /\ took' = Append(took, j.bad)
     /\ truth' = [truth EXCEPT ![j.result] = Combine(@, j.real)]
     /\ dirty' = IF j.bad \/ IsUntrusted(Tools[j.call.tool].label) THEN dirty \cup {j.result}
                 ELSE dirty
     /\ Leave(t)
     /\ UNCHANGED <<labels, memory, ops, raced>>
-----------------------------------------------------------------------------
(* The memory. *)

(* _label_for, and the refusal of the deny mode. *)
StoredLabel(v, label) == IF label = Nothing THEN LabelFor(v) ELSE label
Storable(label) == mode = "deny" => label.trust >= MinTrust

Write(t, k, v, label) ==
  LET x == Item(v, StoredLabel(v, label))
  IN /\ Begin(t) /\ Storable(x.label)
     /\ kv' = [kv EXCEPT ![k] = x]
     /\ Goto(t, "observe", [NoJob EXCEPT !.todo = <<x>>])
     /\ UNCHANGED <<labels, mode, ns, audit, ghosts>>

AppendTo(t, v, label) ==
  LET x == Item(v, StoredLabel(v, label))
  IN /\ Begin(t) /\ Storable(x.label)
     /\ ns' = Append(ns, x)
     /\ Goto(t, "observe", [NoJob EXCEPT !.todo = <<x>>])
     /\ UNCHANGED <<labels, mode, kv, audit, ghosts>>

(* read, recall and search observe what they return once more. *)
Read(t, k) ==
  /\ Begin(t) /\ kv[k] # Nothing
  /\ Goto(t, "observe", [NoJob EXCEPT !.todo = <<kv[k]>>])
  /\ UNCHANGED <<labels, memory, audit, ghosts>>

(* All items of the namespace as it is; what is appended while they are    *)
(* labelled is left for the next recall.                                   *)
Recall(t) ==
  /\ Begin(t) /\ ns # << >>
  /\ Goto(t, "observe", [NoJob EXCEPT !.todo = ns])
  /\ UNCHANGED <<labels, memory, audit, ghosts>>

(* The first items that match, in their order, up to a limit.              *)
Search(t, hits) ==
  LET found == {i \in DOMAIN ns : ns[i].value \in hits}
  IN /\ Begin(t)
     /\ \E k \in 1..Len(ns) : \E at \in [1..k -> found] :
          /\ \A m, n \in 1..k : m < n => at[m] < at[n]
          /\ \A i \in found : i < at[k] => \E n \in 1..k : at[n] = i
          /\ Goto(t, "observe", [NoJob EXCEPT !.todo = [n \in 1..k |-> ns[at[n]]]])
     /\ UNCHANGED <<labels, memory, audit, ghosts>>
-----------------------------------------------------------------------------
Step(t) ==
  \/ Observe(t) \/ Store(t) \/ Emit(t)
  \/ \E v \in Values : Return(t, v)

Start(t) ==
  \/ \E x \in Tags : Tag(t, x)
  \/ \E c \in Calls, name \in Names, signals \in Signals : Invoke(t, c, name, signals)
  \/ \E v \in Values, label \in MemoryLabels :
       AppendTo(t, v, label) \/ \E k \in Keys : Write(t, k, v, label)
  \/ \E k \in Keys : Read(t, k)
  \/ Recall(t)
  \/ \E v \in Values : Search(t, {v})

Next == \E t \in Threads : Step(t) \/ Start(t)

Spec == Init /\ [][Next]_vars
-----------------------------------------------------------------------------
(* No chain of calls and no trip through memory launders a value: unless   *)
(* two observations of one value overlapped, every value carries the       *)
(* taint of all that flowed into it through the guard, whatever label a    *)
(* caller gave it when it was stored.                                      *)
TaintKept == raced = {} => \A v \in Values : Carries(LabelFor(v), truth[v])

(* Rules that also fire on what is labelled worse, whatever detectors say. *)
WorseFiresToo ==
  \A c \in Calls, signals \in Signals :
    \A l, m \in [DOMAIN c.args -> Label] :
      (\A a \in DOMAIN c.args : Carries(m[a], l[a])) /\ Blocked(Context(c, l, << >>))
        => Blocked(Context(c, m, signals))

(* No call that a rule would block for the data that really flowed into    *)
(* its arguments gets past the gate, whatever the call site says of them   *)
(* and the detectors of the call.                                          *)
NoTaintedCall ==
  [][\A t \in Threads : (pc[t] = "idle" /\ pc'[t] = "running" /\ raced = {}) =>
       LET c == job'[t].call
       IN ~Blocked(Context(c, [a \in DOMAIN c.args |-> truth[c.args[a]]], << >>))]_vars

Distinct == \A i, j \in DOMAIN audit :
              audit[i].result = audit[j].result /\ audit[i].result # Nothing => i = j

(* The log shows it: a call that consumed untrusted data, even data only   *)
(* the call site knew to be so, any number of calls earlier, is found when *)
(* the flows are rebuilt, with the outside among what feeds it or a tool   *)
(* whose output is untrusted, unless two calls returned the same content.  *)
FlowsFound ==
  (raced = {} /\ Distinct) =>
    \A i \in DOMAIN audit : took[i] => i \in Tainted(audit) /\ Upstream(audit, i) # {}
=============================================================================
