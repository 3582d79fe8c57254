----------------------------- MODULE AuditTrail -----------------------------
(***************************************************************************)
(* The hash-chained audit trail of capguard/audit.py: several threads emit *)
(* through a MultiSink to a local file (HashChainedSink) and, mirrored, to *)
(* the control plane (HttpSink to capguard_cloud's ingest).                *)
(*                                                                         *)
(* Each sink seals its own copy of the event: it links it to the sink's    *)
(* head and hashes the result.  SHA-256 is modelled without collisions:    *)
(* the hash of an entry is the sequence of events its chain goes through,  *)
(* so GENESIS is the empty sequence.                                       *)
(***************************************************************************)
EXTENDS Integers, Sequences, FiniteSets, SequencesExt

CONSTANTS
  Threads,
  Faults,        \* what goes wrong: "disk", "network", "crash"
  MaxEvents,     \* bounds, for model checking
  MaxCrashes

FaultsAssumption == Faults \subseteq {"disk", "network", "crash"}

VARIABLES
  file,          \* the lines of the local log; survives a crash
  fileHead,      \* HashChainedSink._head
  mirrorHead,    \* HttpSink._head
  dropped,       \* HttpSink.dropped
  cloud,         \* CloudStore._events of this tenant, in order of arrival
  late,          \* requests given up by the client that may still arrive
  pc, event,     \* per thread: where in MultiSink.__call__, with which event
  post,          \* per thread: the sealed copy being posted
  emitted,       \* events emitted so far, numbered
  returned,      \* history: emissions that returned normally
  life,          \* history: emissions that returned since the last restart
  failed,        \* history: how many writes to the file raised
  crashes

sinks == <<file, fileHead, mirrorHead, dropped, cloud, late>>
threads == <<pc, event, post>>
history == <<emitted, returned, life, failed, crashes>>
vars == <<sinks, threads, history>>

Entry == [prev : Seq(Nat), ev : Nat]
Hash(e) == Append(e.prev, e.ev)
Sealed(head, ev) == [prev |-> head, ev |-> ev]
Genesis == << >>

(* verify_chain: the lines that do not link to the one before. *)
Breaks(log) ==
  {i \in DOMAIN log : log[i].prev # IF i = 1 THEN Genesis ELSE Hash(log[i - 1])}
Verifies(log) == Breaks(log) = {}

TypeOK ==
  /\ file \in Seq(Entry) /\ cloud \in Seq(Entry) /\ late \subseteq Entry
  /\ fileHead \in Seq(Nat) /\ mirrorHead \in Seq(Nat)
  /\ dropped \in Nat /\ emitted \in Nat /\ failed \in Nat /\ crashes \in Nat
  /\ pc \in [Threads -> {"idle", "file", "mirror", "post"}]
  /\ event \in [Threads -> Nat]
  /\ \A t \in Threads : pc[t] = "post" => post[t] \in Entry
  /\ life \subseteq returned /\ returned \subseteq 1..emitted

Init ==
  /\ file = << >> /\ cloud = << >> /\ late = {}
  /\ fileHead = Genesis /\ mirrorHead = Genesis /\ dropped = 0
  /\ pc = [t \in Threads |-> "idle"]
  /\ event = [t \in Threads |-> 0]
  /\ post = [t \in Threads |-> << >>]
  /\ emitted = 0 /\ returned = {} /\ life = {}
  /\ failed = 0 /\ crashes = 0
-----------------------------------------------------------------------------
(* MultiSink.__call__ hands a copy of the event to the first sink... *)
Emit(t) ==
  /\ pc[t] = "idle" /\ emitted < MaxEvents
  /\ emitted' = emitted + 1
  /\ event' = [event EXCEPT ![t] = emitted + 1]
  /\ pc' = [pc EXCEPT ![t] = "file"]
  /\ UNCHANGED <<sinks, post, returned, life, failed, crashes>>

Done(t) ==
  /\ pc' = [pc EXCEPT ![t] = "idle"]
  /\ event' = [event EXCEPT ![t] = 0]
  /\ post' = [post EXCEPT ![t] = << >>]

(* ...the file sink, which seals and appends under its lock... *)
WriteFile(t) ==
  LET e == Sealed(fileHead, event[t])
  IN /\ pc[t] = "file"
     /\ fileHead' = Hash(e)
     /\ file' = Append(file, e)
     /\ pc' = [pc EXCEPT ![t] = "mirror"]
     /\ UNCHANGED <<mirrorHead, dropped, cloud, late, event, post, history>>

(* ...and moves its head before it writes: if the write raises, the line   *)
(* is missing but the head has passed it.  The exception leaves MultiSink, *)
(* so the mirror is not called.                                            *)
WriteFileFails(t) ==
  /\ pc[t] = "file" /\ "disk" \in Faults
  /\ fileHead' = Hash(Sealed(fileHead, event[t]))
  /\ failed' = failed + 1
  /\ Done(t)
  /\ UNCHANGED <<file, mirrorHead, dropped, cloud, late, emitted, returned, life, crashes>>

(* The mirror seals its copy under its lock and posts it after letting the *)
(* lock go.                                                                *)
SealMirror(t) ==
  LET e == Sealed(mirrorHead, event[t])
  IN /\ pc[t] = "mirror"
     /\ mirrorHead' = Hash(e)
     /\ post' = [post EXCEPT ![t] = e]
     /\ pc' = [pc EXCEPT ![t] = "post"]
     /\ UNCHANGED <<file, fileHead, dropped, cloud, late, event, history>>

Returns(t) ==
  /\ returned' = returned \cup {event[t]}
  /\ life' = life \cup {event[t]}
  /\ Done(t)
  /\ UNCHANGED <<emitted, failed, crashes>>

(* The ingest endpoint appends what arrives. *)
Post(t) ==
  /\ pc[t] = "post"
  /\ cloud' = Append(cloud, post[t])
  /\ Returns(t)
  /\ UNCHANGED <<file, fileHead, mirrorHead, dropped, late>>

(* Mutant: a failure is not counted. *)
PostFailsSilently(t) ==
  /\ pc[t] = "post" /\ "network" \in Faults
  /\ Returns(t)
  /\ UNCHANGED <<file, fileHead, mirrorHead, dropped, cloud, late>>

(* Fail-open: a request that fails or times out is counted and forgotten,  *)
(* though it may reach the server later.                                   *)
PostFails(t) ==
  /\ pc[t] = "post" /\ "network" \in Faults
  /\ dropped' = dropped + 1
  /\ \E lost \in BOOLEAN : late' = IF lost THEN late ELSE late \cup {post[t]}
  /\ Returns(t)
  /\ UNCHANGED <<file, fileHead, mirrorHead, cloud>>

(* External: a late request arrives. *)
Arrive ==
  \E e \in late :
    /\ late' = late \ {e}
    /\ cloud' = Append(cloud, e)
    /\ UNCHANGED <<file, fileHead, mirrorHead, dropped, threads, history>>

(* The process dies and is started again: the file sink recovers its head  *)
(* from the last line of the file, the mirror starts from GENESIS.  A      *)
(* request on the wire may still arrive.                                   *)
RecoveredHead == IF file = << >> THEN Genesis ELSE Hash(Last(file))

Restart ==
  /\ "crash" \in Faults /\ crashes < MaxCrashes
  /\ crashes' = crashes + 1
  /\ fileHead' = RecoveredHead
  /\ mirrorHead' = Genesis
  /\ dropped' = 0 /\ life' = {}
  /\ \E sent \in SUBSET {t \in Threads : pc[t] = "post"} :
       late' = late \cup {post[t] : t \in sent}
  /\ pc' = [t \in Threads |-> "idle"]
  /\ event' = [t \in Threads |-> 0]
  /\ post' = [t \in Threads |-> << >>]
  /\ UNCHANGED <<file, cloud, emitted, returned, failed>>

Next ==
  \/ \E t \in Threads :
       Emit(t) \/ WriteFile(t) \/ WriteFileFails(t) \/ SealMirror(t) \/ Post(t) \/ PostFails(t)
  \/ Arrive
  \/ Restart

Spec == Init /\ [][Next]_vars
-----------------------------------------------------------------------------
EventsIn(log) == {log[i].ev : i \in DOMAIN log}

(* Threads and restarts never break the chain of the local log: it fails   *)
(* to verify at no more lines than writes raised, and as long as the disk  *)
(* takes what is written it verifies at every moment.                      *)
FileVerifies == Cardinality(Breaks(file)) <= failed

(* "The local sink is the source of truth": the control plane never knows  *)
(* an event the local log lacks, and no emission that returned is lost     *)
(* from it or on it twice, whatever fails in between.                      *)
LocalIsTruth ==
  /\ EventsIn(cloud) \cup returned \subseteq EventsIn(file)
  /\ Cardinality(EventsIn(file)) = Len(file)

(* What the mirror misses is counted: of the events mirrored since the     *)
(* process started, no more are missing than `dropped` says.               *)
DropsCounted == Cardinality(life \ EventsIn(cloud)) <= dropped

(* The control plane holds what the local log holds, but for drops that    *)
(* are counted.                                                            *)
MirrorAccounted == LocalIsTruth /\ DropsCounted

(* "Each event is hash-chained here too, so the server can verify_chain    *)
(* what it received".                                                      *)
MirrorVerifies == Verifies(cloud)
=============================================================================
