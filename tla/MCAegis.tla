------------------------------- MODULE MCAegis -------------------------------
(***************************************************************************)
(* A hub whose tools have narrow network scopes or a wide one behind an    *)
(* approval, and calls of a host that only some of them declare.           *)
(***************************************************************************)
EXTENDS Aegis, TLC

CONSTANTS api, other, t1, t2

MCHosts == [x \in {api, other, Wildcard} |-> IF x = Wildcard THEN {api, other} ELSE {x}]
Flags == [network |-> {}, file_read |-> No, file_write |-> No, shell |-> {}, db |-> FALSE,
          db_write |-> FALSE, custom |-> << >>, risk |-> "low", approval |-> FALSE]
MCDeclarations == {[Flags EXCEPT !.network = {api}], [Flags EXCEPT !.network = {other}],
                   [Flags EXCEPT !.network = {Wildcard}, !.approval = TRUE]}
Url(host) == [url |-> [clean |-> TRUE, target |-> host]]
MCInputs == {Url(other)}
MCMarks == {[value |-> "v", label |-> "web"]}
ThreadSymmetry == Permutations(Threads)
==============================================================================
