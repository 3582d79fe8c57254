------------------------------ MODULE MCWindows ------------------------------
(* A small instance of each part that remembers for a time, for TLC. *)
EXTENDS Windows

CONSTANTS planner, worker, m1, d, f, h

(* The planner may read a directory, the worker a file in it; then the     *)
(* planner is narrowed to that file as well.                               *)
Hosts == [x \in {h, Wildcard} |-> {h}]
Broad == <<File("file_read", {Dir(<<d>>)})>>
Narrow == <<File("file_read", {Dir(<<d, f>>)})>>
Authorities == <<[a \in {planner, worker} |-> IF a = planner THEN Broad ELSE Narrow],
                 [a \in {planner, worker} |-> Narrow]>>
Claimed == {Broad, Narrow}

(* A cap on calls and tokens, none on cost. *)
BudgetCaps == [dim \in {"calls", "tokens", "cost"} |-> IF dim = "cost" THEN NoCap ELSE 2]
Delta(c, t) == [dim \in {"calls", "tokens", "cost"} |->
                  CASE dim = "calls" -> c [] dim = "tokens" -> t [] OTHER -> 0]
Charges == {Delta(1, 0), Delta(0, 2)}

ASSUME MCAssumption == PartsAssumption
=============================================================================
