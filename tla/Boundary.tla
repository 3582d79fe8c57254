------------------------------- MODULE Boundary -------------------------------
(***************************************************************************)
(* The edges of the program: the MCP gateway, the HTTP resource server in  *)
(* front of it, the stdio transport to a downstream behind it, the audit   *)
(* trail on its way to a file and the control plane, and a command run in  *)
(* the sandbox.  The parts share no state; `part` is the one that runs,    *)
(* the others stay as they start.                                          *)
(***************************************************************************)
EXTENDS Gateway

CONSTANTS
  Handlers, NoThread, KeySets, Algorithms, Tokens, NoToken, NoKid,     \* of the HTTP server
  Audience, RequiredScopes, Leeway, CacheTtl, Down, Settings, Metadata,
  MaxTime, MaxRequests,
  Callers, MaxCalls, MaxLines, MaxNoise,                               \* of the transport
  Emitters, AuditFaults, MaxEvents, MaxCrashes,                        \* of the audit trail
  Main, Children, Backends                                             \* of the sandbox

VARIABLES
  part,
  now, published, http, byKid, all, lastRefresh, lock, handlerPc, received, reqs, installs,
  handled,
  lastId, holder, stdin, stdout, alive, callerPc, asked, lines, noise, made, call, results,
  file, fileHead, mirrorHead, dropped, cloud, late, emitterPc, event, post, emitted, returned,
  life, failed, crashes,
  backend, phase, timed_out, started, running, group, output, returncode, result

serverVars == <<now, published, http, byKid, all, lastRefresh, lock, handlerPc, received, reqs,
                installs, handled>>
transportVars == <<lastId, holder, stdin, stdout, alive, callerPc, asked, lines, noise, made, call, results>>
auditVars == <<file, fileHead, mirrorHead, dropped, cloud, late, emitterPc, event, post, emitted,
               returned, life, failed, crashes>>
sandboxVars == <<backend, phase, timed_out, started, running, group, output, returncode, result>>
allVars == <<part, vars, serverVars, transportVars, auditVars, sandboxVars>>

R == INSTANCE ResourceServer WITH
       Threads <- Handlers, server <- http, pc <- handlerPc, req <- reqs
T == INSTANCE StdioTransport WITH pc <- callerPc, sent <- asked
A == INSTANCE AuditTrail WITH Threads <- Emitters, Faults <- AuditFaults, pc <- emitterPc
B == INSTANCE Sandbox

PartsAssumption ==
  /\ GatewayAssumption /\ R!ServerAssumption /\ T!TransportAssumption
  /\ A!FaultsAssumption

AllInit ==
  /\ part \in {"gateway", "server", "transport", "audit", "sandbox"}
  /\ Init /\ R!Init /\ T!Init /\ A!Init /\ B!Init

AllNext ==
  /\ UNCHANGED part
  /\ \/ part = "gateway" /\ Next
        /\ UNCHANGED <<serverVars, transportVars, auditVars, sandboxVars>>
     \/ part = "server" /\ R!Next
        /\ UNCHANGED <<vars, transportVars, auditVars, sandboxVars>>
     \/ part = "transport" /\ T!Next
        /\ UNCHANGED <<vars, serverVars, auditVars, sandboxVars>>
     \/ part = "audit" /\ A!Next
        /\ UNCHANGED <<vars, serverVars, transportVars, sandboxVars>>
     \/ part = "sandbox" /\ B!Next
        /\ UNCHANGED <<vars, serverVars, transportVars, auditVars>>

AllFairness == R!Fairness /\ T!Fairness /\ B!Fairness

AllSpec == AllInit /\ [][AllNext]_allVars /\ AllFairness
-----------------------------------------------------------------------------
(* The types of every part. *)
TypesOK == TypeOK /\ R!TypeOK /\ T!TypeOK /\ A!TypeOK /\ B!TypeOK

(* Whatever is passed on under authentication carries a genuine token; a   *)
(* withdrawn key is of use for cache_ttl_seconds and one fetch at most,    *)
(* and refreshes never put an older key set back (mcp_auth.py).            *)
HandledGenuine == R!HandledGenuine

(* No call to a downstream returns the answer to another's request         *)
(* (mcp_proxy.py).                                                         *)
AnswerMatches == T!AnswerMatches

(* The local log breaks at no more lines than writes to it raised          *)
(* (audit.py).                                                             *)
FileVerifies == A!FileVerifies

(* The control plane and the callers know no event the log lacks, and what *)
(* the mirror misses is counted (audit.py).                                *)
MirrorAccounted == A!MirrorAccounted

(* What of a run in the sandbox goes on once it is over, and that a tool   *)
(* returns output only of a command that succeeded in time (sandbox.py).   *)
RunContained == B!RunContained

(* Nobody waits for ever: a call to a downstream ends whatever it writes   *)
(* or if it exits (mcp_proxy.py), every HTTP request is answered           *)
(* (mcp_http.py), and a run in the sandbox ends unless a process that left *)
(* its group holds the output (sandbox.py).                                *)
NobodyWaitsForEver == T!EveryCallEnds /\ R!EveryRequestAnswered /\ B!EveryRunEnds
===============================================================================
