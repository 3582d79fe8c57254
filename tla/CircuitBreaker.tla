--------------------------- MODULE CircuitBreaker ---------------------------
(***************************************************************************)
(* The per-agent kill switch of capguard/monitor.py.  The budget gate, the *)
(* behaviour monitor and operators trip it from their own threads; the     *)
(* runtime asks is_open before anything else.  Every operation holds the   *)
(* breaker's lock throughout.                                              *)
(***************************************************************************)
EXTENDS Integers

CONSTANTS
  Keys,        \* what the breaker is asked about and tripped with
  Cooldown,    \* cooldown_seconds, 0 for none
  NoTrip,      \* the key is absent from _tripped_at
  MaxTime      \* bound on the clock, for model checking

VARIABLES
  trippedAt,   \* CircuitBreaker._tripped_at
  now          \* time.monotonic()

TypeOK ==
  /\ trippedAt \in [Keys -> Int \cup {NoTrip}]
  /\ now \in Int

Init ==
  /\ trippedAt = [k \in Keys |-> NoTrip]
  /\ now = 0

Tripped(k) == trippedAt[k] # NoTrip

CooledDown(k) == Cooldown # 0 /\ now - trippedAt[k] >= Cooldown

Open(k) == Tripped(k) /\ ~CooledDown(k)

(* A second trip restarts the cooldown. *)
Trip(k) ==
  /\ trippedAt' = [trippedAt EXCEPT ![k] = now]
  /\ UNCHANGED now

(* is_open: a breaker whose cooldown has elapsed is cleared by the asking. *)
IsOpen(k, answer) ==
  /\ answer = Open(k)
  /\ trippedAt' = IF answer THEN trippedAt ELSE [trippedAt EXCEPT ![k] = NoTrip]
  /\ UNCHANGED now

Reset(k) ==
  /\ trippedAt' = [trippedAt EXCEPT ![k] = NoTrip]
  /\ UNCHANGED now

(* External: time passes. *)
Tick ==
  /\ now < MaxTime
  /\ now' = now + 1
  /\ UNCHANGED trippedAt
=============================================================================
