-------------------------- MODULE BehaviorMonitor --------------------------
(***************************************************************************)
(* The audit sink of capguard/monitor.py that watches each agent's recent  *)
(* events and trips its circuit breaker.  Several runtime threads emit at  *)
(* once.  The sink reads the clock before it takes its lock and trips the  *)
(* breaker after it released it, so each emission is three steps here:     *)
(* Emit (clock), Observe (under the lock), Trip (one per anomaly found).   *)
(***************************************************************************)
EXTENDS AnomalyPolicy

CONSTANTS
  Threads, Agents, Tools, Decisions,
  Cooldown, NoTrip, MaxTime,
  MaxEvents       \* bound on the events emitted, for model checking

MonitorAssumption ==
  /\ "deny" \in Decisions
  /\ Cooldown \in Nat /\ NoTrip \notin Int

VARIABLES
  trippedAt, now,  \* the breaker and its clock
  win,             \* BehaviorMonitor._win
  pc, latest,      \* per thread: where it is in __call__ and with which event
  found,           \* per thread: anomalies still to be acted on
  emitted          \* history: every event with the time it was stamped

vars == <<trippedAt, now, win, pc, latest, found, emitted>>

CB == INSTANCE CircuitBreaker WITH Keys <- Agents

(* What detection reads of an AuditEvent; `halted` stands for the error    *)
(* CIRCUIT_OPEN_ERROR.                                                     *)
Event == [agent : Agents, tool : Tools, decision : Decisions, halted : BOOLEAN, at : Int]

TypeOK ==
  /\ CB!TypeOK
  /\ win \in [Agents -> Seq(Event)]
  /\ pc \in [Threads -> {"idle", "observe", "trip"}]
  /\ \A t \in Threads : pc[t] # "idle" => latest[t] \in Event
  /\ found \in [Threads -> SUBSET Kinds]
  /\ emitted \in Seq(Event)

Init ==
  /\ CB!Init
  /\ win = [a \in Agents |-> << >>]
  /\ pc = [t \in Threads |-> "idle"]
  /\ latest = [t \in Threads |-> << >>]
  /\ found = [t \in Threads |-> {}]
  /\ emitted = << >>
-----------------------------------------------------------------------------
(* Mutant: the breaker's own refusals are watched too. *)
WatchedAlways(e) == TRUE

(* A call the breaker itself refused is passed on without being observed.  *)
Watched(e) == ~e.halted

(* A runtime thread reports a call of `agent`, refused if it is halted.    *)
Emit(t, agent, tool, decision) ==
  /\ pc[t] = "idle"
  /\ Len(emitted) < MaxEvents
  /\ \E open \in BOOLEAN :
       /\ CB!IsOpen(agent, open)
       /\ LET e == [agent |-> agent, tool |-> tool, at |-> now, halted |-> open,
                    decision |-> IF open THEN "deny" ELSE decision]
          IN /\ emitted' = Append(emitted, e)
             /\ IF Watched(e)
                THEN /\ pc' = [pc EXCEPT ![t] = "observe"]
                     /\ latest' = [latest EXCEPT ![t] = e]
                ELSE UNCHANGED <<pc, latest>>
  /\ UNCHANGED <<win, found>>

(* Mutant: the event is let go while it is still worked on. *)
ReturnEarly(t) == latest' = [latest EXCEPT ![t] = << >>] /\ UNCHANGED pc

Return(t) ==
  /\ pc' = [pc EXCEPT ![t] = "idle"]
  /\ latest' = [latest EXCEPT ![t] = << >>]

Observe(t) ==
  LET e == latest[t]
      w == Pruned(Append(win[e.agent], e), e.at - Window)
      anomalies == Anomalies(w, e)
  IN /\ pc[t] = "observe"
     /\ win' = [win EXCEPT ![e.agent] = w]
     /\ found' = [found EXCEPT ![t] = anomalies]
     /\ IF anomalies = {} THEN Return(t)
                          ELSE pc' = [pc EXCEPT ![t] = "trip"] /\ UNCHANGED latest
     /\ UNCHANGED <<trippedAt, now, emitted>>

(* Mutant: an anomaly is only noted. *)
NoteOnly(t) ==
  /\ pc[t] = "trip"
  /\ found' = [found EXCEPT ![t] = {}]
  /\ Return(t)
  /\ UNCHANGED <<trippedAt, now, win, emitted>>

(* Trip the breaker and call on_anomaly, which may raise: then the other   *)
(* anomalies are forgotten, and the event does not go downstream.          *)
Trip(t) ==
  /\ pc[t] = "trip"
  /\ \E k \in found[t], raises \in BOOLEAN :
       /\ CB!Trip(latest[t].agent)
       /\ found' = [found EXCEPT ![t] = IF raises THEN {} ELSE @ \ {k}]
       /\ IF found'[t] = {} THEN Return(t) ELSE UNCHANGED <<pc, latest>>
  /\ UNCHANGED <<win, emitted>>

(* An operator clears an agent's breaker. *)
Reset(a) == CB!Tripped(a) /\ CB!Reset(a) /\ UNCHANGED <<win, pc, latest, found, emitted>>

Tick == CB!Tick /\ UNCHANGED <<win, pc, latest, found, emitted>>

Next ==
  \/ \E t \in Threads, agent \in Agents, tool \in Tools, decision \in Decisions :
       Emit(t, agent, tool, decision)
  \/ \E t \in Threads : Observe(t) \/ Trip(t)
  \/ \E a \in Agents : Reset(a)
  \/ Tick

(* A thread inside the sink is running code that takes no other lock.      *)
Fairness == \A t \in Threads : WF_vars(Observe(t) \/ Trip(t))

Spec == Init /\ [][Next]_vars /\ Fairness
-----------------------------------------------------------------------------
(* The events that count for an agent at time `t`: its own, no older than  *)
(* the window, without the refusals of the breaker itself.                 *)
Counts(e, a, t) == e.agent = a /\ ~e.halted /\ e.at >= t - Window
RecentIn(events, a, t) == {i \in DOMAIN events : Counts(events[i], a, t)}

(* Those of threads that wait for the lock. *)
Waiting(a, t) == {u \in Threads : pc[u] = "observe" /\ Counts(latest[u], a, t)}

(* The sink misses nothing: whatever the order in which threads read the   *)
(* clock and got the lock, the window still holds every event of the agent *)
(* that counts now, but for those whose thread waits for the lock.         *)
WindowComplete ==
  \A a \in Agents :
    Cardinality(RecentIn(win[a], a, now)) + Cardinality(Waiting(a, now))
      = Cardinality(RecentIn(emitted, a, now))

(* "Deterministic thresholds over a sliding window": an event that joins   *)
(* the window in the order of the stamps, with no other event of its agent *)
(* still waiting for the lock, is judged by exactly the events a sliding   *)
(* window has.  Calls of others, calls that have left the window and calls *)
(* the breaker itself refused count for nothing.                           *)
DetectionExact ==
  [][\A t \in Threads :
       LET e == latest[t]
           w == win'[e.agent]
           InOrder == \A i, j \in DOMAIN w : i < j => w[i].at <= w[j].at
           Alone == \A u \in Threads \ {t} : pc[u] # "observe" \/ latest[u].agent # e.agent
       IN (pc[t] = "observe" /\ pc'[t] # "observe" /\ InOrder /\ Alone)
             => found'[t] = AnomaliesAt(emitted, RecentIn(emitted, e.agent, e.at), e)]_vars

(* A thread that found an anomaly halts the agent, even if an operator     *)
(* clears the breaker in between and even if the hook raises.              *)
AnomalyHalts ==
  \A t \in Threads, a \in Agents :
    (found[t] # {} /\ latest[t].agent = a) ~> CB!Tripped(a)
=============================================================================
