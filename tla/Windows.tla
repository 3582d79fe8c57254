------------------------------- MODULE Windows -------------------------------
(***************************************************************************)
(* The parts that remember for a time: the nonce store of the channel, the *)
(* anomaly window and the budget window.  They share no state; `part` is   *)
(* the one that runs, the others stay as they start.                       *)
(***************************************************************************)
EXTENDS A2AChannel

CONSTANTS
  MonitoredAgents, Tools, Decisions,                          \* of the monitor
  Window, MaxCalls, MaxDenials, MaxSinks, SinkTools, Baseline, NoBaseline,
  Cooldown, NoTrip, MonitorTime, MaxEvents,
  Keys, Caps, NoCap, Deltas,                                  \* of the ledger
  BudgetWindow, NoWindow, BudgetTime, MaxCharges

VARIABLES
  part,
  trippedAt, clock, win, sinkPc, latest, found, emitted,
  totals, events, budgetNow, charged

monitorVars == <<trippedAt, clock, win, sinkPc, latest, found, emitted>>
budgetVars == <<totals, events, budgetNow, charged>>
allVars == <<part, vars, monitorVars, budgetVars>>

M == INSTANCE BehaviorMonitor WITH
       Agents <- MonitoredAgents, MaxTime <- MonitorTime, now <- clock, pc <- sinkPc

B == INSTANCE BudgetLedger WITH
       Window <- BudgetWindow, MaxTime <- BudgetTime, now <- budgetNow

PartsAssumption ==
  ChannelAssumption /\ M!PolicyAssumption /\ M!MonitorAssumption /\ B!BudgetAssumption

AllInit ==
  /\ part \in {"channel", "monitor", "budget"}
  /\ Init /\ M!Init /\ B!Init

AllNext ==
  /\ UNCHANGED part
  /\ \/ part = "channel" /\ Next /\ UNCHANGED <<monitorVars, budgetVars>>
     \/ part = "monitor" /\ M!Next /\ UNCHANGED <<vars, budgetVars>>
     \/ part = "budget" /\ B!Next /\ UNCHANGED <<vars, monitorVars>>

(* M!Fairness, spelt with the variables of this module. *)
AllSpec ==
  /\ AllInit /\ [][AllNext]_allVars
  /\ \A t \in Threads : WF_monitorVars(M!Observe(t) \/ M!Trip(t))
-----------------------------------------------------------------------------
(* The types of every part. *)
TypesOK == TypeOK /\ M!TypeOK /\ B!TypeOK

(* The window holds every event that counts, whatever the order in which   *)
(* threads recorded them (monitor.py).                                     *)
WindowComplete == M!WindowComplete

(* An event that joins in order is judged by exactly the events a sliding  *)
(* window holds (monitor.py).                                              *)
DetectionExact == M!DetectionExact

(* A thread that found an anomaly halts the agent, though the hook raise.  *)
AnomalyHalts == M!AnomalyHalts

(* Lazy pruning gives exactly the spend of the window (budget.py). *)
SpendExact == B!SpendExact

(* Money spent is never given back but by leaving the window or a reset,   *)
(* and a check admits a call exactly when charging it would fit.           *)
ChargesStand == B!ChargesStand
=============================================================================
