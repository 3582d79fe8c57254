----------------------------- MODULE FlowGraph -----------------------------
(***************************************************************************)
(* capguard/audit_graph.py: which calls in an audit log consumed untrusted *)
(* data, rebuilt from the digests and trust labels of their arguments and  *)
(* the digests of their results.  An event has a tool, args (name to       *)
(* digest), provenance (name to trust) and a result; events are numbered   *)
(* from 1, and 0 stands for the source outside the log.                    *)
(***************************************************************************)
EXTENDS Integers, Sequences

External == 0

Producers(log, digest, i) == {j \in 1..(i - 1) : log[j].result = digest}

(* The latest earlier event that returned the value. *)
Producer(log, digest, i) ==
  CHOOSE j \in Producers(log, digest, i) : \A k \in Producers(log, digest, i) : j >= k

(* build_flow_graph: the edges into event i. *)
Incoming(log, i) ==
  LET edge(arg) == [src |-> IF Producers(log, log[i].args[arg], i) = {} THEN External
                            ELSE Producer(log, log[i].args[arg], i),
                    arg |-> arg, label |-> log[i].provenance[arg]]
  IN {edge(arg) : arg \in {a \in DOMAIN log[i].args :
        Producers(log, log[i].args[a], i) # {} \/ log[i].provenance[a] # "trusted"}}

(* Mutant: a call is tainted by labels only. *)
TaintedByLabel(log) ==
  {i \in DOMAIN log : \E e \in Incoming(log, i) : e.label # "trusted"}

(* tainted_nodes, one pass over the events in order. *)
Tainted(log) ==
  LET tainted[i \in 0..Len(log)] ==
        i # External /\ \E e \in Incoming(log, i) : e.label # "trusted" \/ tainted[e.src]
  IN {i \in DOMAIN log : tainted[i]}

TaintedSinkCalls(log, sinks) == {i \in Tainted(log) : log[i].tool \in sinks}

(* upstream_chain: everything that feeds event i. *)
Upstream(log, i) ==
  LET up[j \in 0..Len(log)] ==
        IF j = External THEN {}
        ELSE UNION {{e.src} \cup up[e.src] : e \in Incoming(log, j)}
  IN up[i]
=============================================================================
