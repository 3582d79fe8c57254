------------------------------- MODULE Sandbox -------------------------------
(***************************************************************************)
(* capguard/sandbox.py: one run of a command under a backend, and what the *)
(* tools built by shell_tool and python_tool make of it.                   *)
(*                                                                         *)
(* The command is a tree of processes that fork, close the output they     *)
(* inherited, leave the process group with setsid, and exit or are ended   *)
(* by a resource limit at any time.  communicate returns once nobody holds *)
(* the output and the command itself has exited.  How much was printed is  *)
(* left out.                                                               *)
(***************************************************************************)
EXTENDS FiniteSets

CONSTANTS
  Main,           \* the command itself
  Children,       \* processes it may start, and they in turn
  Backends        \* a subset of {"subprocess", "docker", "deny"}

Processes == {Main} \cup Children
Problems == {"FileNotFoundError", "PermissionError"}     \* of starting a program

VARIABLES
  backend, phase, timed_out,   \* of the run
  started, running,            \* processes that were started, that run
  group,                       \* members of the process group made by _preexec
  output,                      \* processes that hold the pipes
  returncode,                  \* "ok", "failed" or "killed", once the command has exited
  result                       \* what the tool does: "output" or the error it raises

run == <<backend, phase, timed_out, result>>
processes == <<started, running, group, output, returncode>>
vars == <<run, processes>>

TypeOK ==
  /\ backend \in Backends /\ timed_out \in BOOLEAN
  /\ phase \in {"idle", "communicate", "kill", "drain", "done"}
  /\ started \subseteq Processes /\ running \subseteq started
  /\ group \subseteq started /\ output \subseteq running
  /\ returncode \in {"none", "ok", "failed", "killed"}
  /\ result \in {"none", "output", "TimeoutError", "SandboxError"} \cup Problems
  /\ (phase = "done") = (result # "none")

Init ==
  /\ backend \in Backends /\ phase = "idle" /\ timed_out = FALSE
  /\ started = {} /\ running = {} /\ group = {} /\ output = {}
  /\ returncode = "none" /\ result = "none"
-----------------------------------------------------------------------------
(* Popen, if there is no problem.  DenyBackend raises whatever there is;   *)
(* the missing command is a SandboxError of its backend, and the missing   *)
(* docker what Popen raises, as is a program that may not be executed.     *)
Start(problem) ==
  /\ phase = "idle"
  /\ IF backend # "deny" /\ problem = "none"
     THEN /\ started' = {Main} /\ running' = {Main} /\ group' = {Main} /\ output' = {Main}
          /\ phase' = "communicate" /\ UNCHANGED result
     ELSE /\ phase' = "done"
          /\ result' = IF \/ backend = "deny"
                          \/ backend = "subprocess" /\ problem = "FileNotFoundError"
                       THEN "SandboxError" ELSE problem
          /\ UNCHANGED <<started, running, group, output>>
  /\ UNCHANGED <<backend, timed_out, returncode>>

Inherit(set, parent, child) == IF parent \in set THEN set \cup {child} ELSE set

Fork(parent, child) ==
  /\ parent \in running /\ child \notin started
  /\ started' = started \cup {child} /\ running' = running \cup {child}
  /\ group' = Inherit(group, parent, child) /\ output' = Inherit(output, parent, child)
  /\ UNCHANGED <<run, returncode>>

CloseOutput(p) ==
  /\ p \in output
  /\ output' = output \ {p}
  /\ UNCHANGED <<run, started, running, group, returncode>>

(* The command leads the group and cannot leave it. *)
LeaveGroup(p) ==
  /\ p \in (running \cap group) \ {Main}
  /\ group' = group \ {p}
  /\ UNCHANGED <<run, started, running, output, returncode>>

(* Processes end; `code` counts if the command is among them. *)
End(ended, code) ==
  /\ running' = running \ ended /\ output' = output \ ended
  /\ returncode' = IF Main \in ended \cap running THEN code ELSE returncode
  /\ UNCHANGED <<started, group>>

(* On its own or by a limit (_preexec). *)
Exit(p, code) == p \in running /\ End({p}, code) /\ UNCHANGED run
-----------------------------------------------------------------------------
(* shell_tool and python_tool: time first, then ExecResult.ok. *)
Outcome(late, code) ==
  IF late THEN "TimeoutError" ELSE IF code = "ok" THEN "output" ELSE "SandboxError"

Finish(late, code) == phase' = "done" /\ result' = Outcome(late, code) /\ UNCHANGED backend

(* communicate returns, before the timeout or after the kill. *)
Communicated ==
  /\ backend = "subprocess" /\ phase \in {"communicate", "drain"}
  /\ output = {} /\ Main \notin running
  /\ Finish(timed_out, returncode)
  /\ UNCHANGED <<processes, timed_out>>

Timeout ==
  /\ phase = "communicate" /\ timed_out' = TRUE
  /\ IF backend = "docker"
       THEN Finish(TRUE, "none")     \* the client is killed, the container is not
       ELSE phase' = "kill" /\ UNCHANGED <<backend, result>>
  /\ UNCHANGED processes

(* Mutant: proc.kill() alone. *)
KilledAlone == {Main}

(* _kill_tree: killpg, which finds the group also when the command has     *)
(* exited, as nobody has waited for it yet.                                *)
Killed == group

KillTree ==
  /\ phase = "kill"
  /\ End(Killed, "killed")
  /\ phase' = "drain"
  /\ UNCHANGED <<backend, timed_out, result>>

(* With its command a container ends, and all it runs. *)
ContainerEnds ==
  /\ backend = "docker" /\ phase = "communicate" /\ Main \notin running
  /\ End(running, returncode)
  /\ Finish(FALSE, returncode) /\ UNCHANGED timed_out

Next ==
  \/ \E problem \in Problems \cup {"none"} : Start(problem)
  \/ \E parent \in Processes, child \in Children : Fork(parent, child)
  \/ \E p \in Processes :
       \/ CloseOutput(p) \/ LeaveGroup(p)
       \/ \E code \in {"ok", "failed", "killed"} : Exit(p, code)
  \/ Communicated \/ Timeout \/ KillTree \/ ContainerEnds

(* Time passes and the caller goes on; no process need ever exit. *)
Fairness == WF_vars(Communicated) /\ WF_vars(Timeout) /\ WF_vars(KillTree) /\ WF_vars(ContainerEnds)

Spec == Init /\ [][Next]_vars /\ Fairness
-----------------------------------------------------------------------------
(* Of what a run started there goes on, once it is over: if it ended in    *)
(* time, what let go of the output (not of a container); if it timed out,  *)
(* what left the group (all of a container).                               *)
WhatOutlivesARun ==
  phase = "done" /\ running # {} =>
    IF backend = "docker" THEN timed_out
    ELSE running \cap output = {} /\ (timed_out => running \cap group = {})

(* A tool returns output only of a command that succeeded in time.         *)
ReturnedInTime == result = "output" => ~timed_out /\ returncode = "ok"

(* A run ends, whatever its processes do, unless one that left the group   *)
(* holds the output: communicate waits for it without a timeout.           *)
EveryRunEnds ==
  phase = "communicate" ~> phase = "done" \/ output \ group # {}

(* A run leaves no more behind, and reports no more, than it may.          *)
RunContained == WhatOutlivesARun /\ ReturnedInTime
=============================================================================
