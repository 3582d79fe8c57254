---------------------------- MODULE StdioTransport ----------------------------
(***************************************************************************)
(* StdioDownstream (capguard/mcp_proxy.py): several threads call one       *)
(* subprocess over one pair of pipes.  A call holds the lock while it      *)
(* takes an id, sends its request and reads lines until one bears that id. *)
(* The server answers what it reads, in any order; it may also write lines *)
(* of its own, with no id or an id of its choice, write a line that is no  *)
(* JSON, or exit.  An answer may be an error: the call that takes it ends. *)
(***************************************************************************)
EXTENDS Integers, Sequences

CONSTANTS Callers, MaxCalls,
          MaxLines,        \* lines a call reads before it gives up
          MaxNoise         \* lines the server writes that answer nothing

Nobody == -2

(* What a line answers, if no call: a line of the server's own, and one    *)
(* that json.loads rejects.                                                *)
Own == 0
Garbled == -1

TransportAssumption ==
  /\ Nobody \notin Callers
  /\ MaxCalls \in Nat /\ MaxLines \in Nat \ {0} /\ MaxNoise \in Nat

VARIABLES
  lastId,                  \* _id
  holder,                  \* who holds _lock
  stdin,                   \* requests the server has yet to answer
  stdout,                  \* lines it wrote
  alive,                   \* the subprocess
  pc, sent, lines,         \* per caller: where it is, its request's id, lines read
  noise,                   \* lines of noise so far
  made, call,              \* history: calls made, and which of them a caller is in
  results                  \* history: the calls that returned, and whose answer they got

server == <<stdin, stdout, alive, noise>>
vars == <<lastId, holder, server, pc, sent, lines, made, call, results>>

(* A request, or a line that answers one: the id it bears, and the call it *)
(* belongs to, which nobody sees.                                          *)
Message(id, c) == [id |-> id, call |-> c]

TypeOK ==
  /\ lastId \in Nat /\ noise \in 0..MaxNoise /\ alive \in BOOLEAN /\ made \in 0..MaxCalls
  /\ holder \in Callers \cup {Nobody}
  /\ \A c \in Callers :
       /\ pc[c] \in {"idle", "blocked", "id", "send", "read"}
       /\ lines[c] \in 0..MaxLines /\ call[c] \in 0..made
       /\ pc[c] \in {"id", "send", "read"} <=> holder = c
  /\ \A m \in stdin : m.call \in 1..made
  /\ \A i \in DOMAIN stdout : stdout[i].call \in Garbled..made

Init ==
  /\ lastId = 0 /\ holder = Nobody
  /\ stdin = {} /\ stdout = << >> /\ alive = TRUE /\ noise = 0
  /\ pc = [c \in Callers |-> "idle"]
  /\ sent = [c \in Callers |-> 0] /\ lines = [c \in Callers |-> 0]
  /\ made = 0 /\ call = [c \in Callers |-> 0] /\ results = {}

Call(c) ==
  /\ pc[c] = "idle" /\ made < MaxCalls
  /\ pc' = [pc EXCEPT ![c] = "blocked"]
  /\ made' = made + 1 /\ call' = [call EXCEPT ![c] = made + 1]
  /\ UNCHANGED <<lastId, holder, server, sent, lines, results>>

(* Mutant: the calls do not take the lock. *)
FreeAlways(c) == c \in Callers

Free(c) == holder = Nobody

Lock(c) ==
  /\ pc[c] = "blocked" /\ Free(c)
  /\ holder' = c /\ pc' = [pc EXCEPT ![c] = "id"]
  /\ UNCHANGED <<lastId, server, sent, lines, made, call, results>>

(* _next_id counts, and then reads what it counted to. *)
NextId(c) ==
  /\ pc[c] = "id"
  /\ lastId' = lastId + 1 /\ pc' = [pc EXCEPT ![c] = "send"]
  /\ UNCHANGED <<holder, server, sent, lines, made, call, results>>

(* Mutant: a call that raises does not give the lock back. *)
LeaveLocked(c, got) ==
  /\ pc' = [pc EXCEPT ![c] = "idle"] /\ call' = [call EXCEPT ![c] = 0]
  /\ holder' = IF got = call[c] THEN Nobody ELSE holder
  /\ results' = IF got < 0 THEN results ELSE results \cup {[asked |-> call[c], got |-> got]}

(* The call returns the line it got, or raises (Garbled, Nobody); both     *)
(* release the lock.                                                       *)
Leave(c, got) ==
  /\ pc' = [pc EXCEPT ![c] = "idle"] /\ call' = [call EXCEPT ![c] = 0]
  /\ holder' = Nobody
  /\ results' = IF got < 0 THEN results ELSE results \cup {[asked |-> call[c], got |-> got]}

(* _send, which raises once nobody reads the pipe. *)
Send(c) ==
  /\ pc[c] = "send"
  /\ sent' = [sent EXCEPT ![c] = lastId] /\ lines' = [lines EXCEPT ![c] = 0]
  /\ IF alive THEN /\ stdin' = stdin \cup {Message(lastId, call[c])}
                   /\ pc' = [pc EXCEPT ![c] = "read"]
                   /\ UNCHANGED <<holder, call, results>>
     ELSE Leave(c, Nobody) /\ UNCHANGED stdin
  /\ UNCHANGED <<lastId, stdout, alive, noise, made>>

IsAnswer(c, line) == line.call # Garbled /\ line.id = sent[c]

(* _recv_for: one line.  A line of another id is skipped, up to MaxLines.  *)
Read(c) ==
  /\ pc[c] = "read" /\ stdout # << >>
  /\ stdout' = Tail(stdout)
  /\ lines' = [lines EXCEPT ![c] = @ + 1]
  /\ IF IsAnswer(c, stdout[1]) THEN Leave(c, stdout[1].call)
     ELSE IF stdout[1].call = Garbled \/ lines[c] + 1 = MaxLines THEN Leave(c, Nobody)
     ELSE UNCHANGED <<holder, pc, call, results>>
  /\ UNCHANGED <<lastId, sent, stdin, alive, noise, made>>

(* An exhausted pipe of a server that is gone reads as end of file. *)
EndOfFile(c) ==
  /\ pc[c] = "read" /\ stdout = << >> /\ ~alive
  /\ Leave(c, Nobody)
  /\ UNCHANGED <<lastId, server, sent, lines, made>>

Answer ==
  /\ alive
  /\ \E m \in stdin : stdin' = stdin \ {m} /\ stdout' = Append(stdout, m)
  /\ UNCHANGED <<lastId, holder, alive, noise, pc, sent, lines, made, call, results>>

Disturb(line) ==
  /\ alive /\ noise < MaxNoise /\ noise' = noise + 1
  /\ stdout' = Append(stdout, line)
  /\ UNCHANGED <<lastId, holder, stdin, alive, pc, sent, lines, made, call, results>>

Exit ==
  /\ alive /\ alive' = FALSE
  /\ UNCHANGED <<lastId, holder, stdin, stdout, noise, pc, sent, lines, made, call, results>>

Step(c) == Lock(c) \/ NextId(c) \/ Send(c) \/ Read(c) \/ EndOfFile(c)

(* Lines of the server's own are numbered as it likes, 0 for none. *)
Next ==
  \/ \E c \in Callers : Call(c) \/ Step(c)
  \/ Answer \/ Disturb(Message(0, Garbled)) \/ Exit
  \/ \E id \in 0..MaxCalls : Disturb(Message(id, Own))

(* Threads run (the calls being bounded, the lock need not be fair); the   *)
(* server answers, or has exited.  There is no timeout: a server that does *)
(* neither keeps every caller waiting.                                     *)
Fairness == (\A c \in Callers : WF_vars(Step(c))) /\ WF_vars(Answer)

Spec == Init /\ [][Next]_vars /\ Fairness
-----------------------------------------------------------------------------
(* No call returns the answer to another's request, also after calls that  *)
(* gave up and left theirs in the pipe, and in whatever order the server   *)
(* answers.  (_recv_for takes any line that bears the id, so that a        *)
(* request of the server's own may pass for the answer.)                   *)
AnswerMatches == \A r \in results : r.got \in {r.asked, Own}

(* Whatever the server writes or if it exits, every call returns or        *)
(* raises: none leaves the lock behind.                                    *)
EveryCallEnds == \A c \in Callers : pc[c] # "idle" ~> pc[c] = "idle"
=============================================================================
