--------------------------- MODULE AnomalyPolicy ---------------------------
(***************************************************************************)
(* The deterministic detection of capguard/monitor.py: thresholds over the *)
(* recent events of one agent.                                             *)
(***************************************************************************)
EXTENDS Integers, Sequences, FiniteSets

CONSTANTS
  Window,         \* AnomalyPolicy.window_seconds
  MaxCalls,       \* thresholds, 0 for off
  MaxDenials,
  MaxSinks,       \* max_distinct_sinks
  SinkTools,
  Baseline,       \* baseline_tools, NoBaseline for None
  NoBaseline

PolicyAssumption ==
  /\ Window \in Nat /\ MaxCalls \in Nat /\ MaxDenials \in Nat /\ MaxSinks \in Nat

Kinds == {"call_rate", "denial_rate", "blast_radius", "novel_tool"}

Exceeds(limit, count) == limit # 0 /\ count > limit

(* _detect over the events at `places`, the last of which is `event`.      *)
AnomaliesAt(events, places, event) ==
  {k \in Kinds :
     CASE k = "call_rate" -> Exceeds(MaxCalls, Cardinality(places))
       [] k = "denial_rate" ->
            Exceeds(MaxDenials, Cardinality({i \in places : events[i].decision = "deny"}))
       [] k = "blast_radius" ->
            Exceeds(MaxSinks, Cardinality({events[i].tool : i \in places} \cap SinkTools))
       [] k = "novel_tool" -> Baseline # NoBaseline /\ event.tool \notin Baseline}

Anomalies(seen, event) == AnomaliesAt(seen, DOMAIN seen, event)

(* Mutant: an event exactly window_seconds old is dropped. *)
PrunedEarly(events, cutoff) == SelectSeq(events, LAMBDA e : e.at > cutoff)

(* The popleft loop: it stops at the first event that is still inside, so  *)
(* an event stamped earlier but appended later may stay a little longer.   *)
Pruned(events, cutoff) ==
  LET fresh == {i \in DOMAIN events : events[i].at >= cutoff}
  IN IF fresh = {} THEN << >>
     ELSE SubSeq(events, CHOOSE i \in fresh : \A j \in fresh : i <= j, Len(events))
=============================================================================
