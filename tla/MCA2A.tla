-------------------------------- MODULE MCA2A --------------------------------
(***************************************************************************)
(* A channel from a planner, whose authority is narrowed on the way, to a  *)
(* worker, with messages that live for up to two ticks of the clock.       *)
(***************************************************************************)
EXTENDS A2AChannel
CONSTANTS planner, worker, d, f, h
MCHosts == [x \in {h, Wildcard} |-> {h}]
Broad == <<File("file_read", {Dir(<<d>>)})>>
Narrow == <<File("file_read", {Dir(<<d, f>>)})>>
MCRequests == {Broad, Narrow}
MCAuthority == <<[a \in Agents |-> IF a = planner THEN Broad ELSE Narrow], [a \in Agents |-> Narrow]>>
==============================================================================
