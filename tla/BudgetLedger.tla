---------------------------- MODULE BudgetLedger ----------------------------
(***************************************************************************)
(* The spend ledger of capguard/budget.py: a running total per key, or a   *)
(* sliding window of charges when window_seconds is set.  check and charge *)
(* each take the lock once; a caller that checks and later charges does    *)
(* not hold it in between.                                                 *)
(*                                                                         *)
(* Dollar amounts are whole numbers here; the code adds floats.            *)
(***************************************************************************)
EXTENDS Integers, Sequences

CONSTANTS
  Keys,        \* ledger keys: an agent, or what budget_key_fn makes of it
  Caps,        \* the Budget: max_calls, max_tokens, max_cost
  NoCap,       \* None
  Window,      \* window_seconds, NoWindow for a cumulative budget
  NoWindow,
  Deltas,      \* what callers charge
  MaxTime,     \* bound on the clock, for model checking
  MaxCharges   \* bound on the charges of a key, for model checking

Dims == {"calls", "tokens", "cost"}
Spend == [Dims -> Nat]
NoSpend == [d \in Dims |-> 0]
OneCall == [d \in Dims |-> IF d = "calls" THEN 1 ELSE 0]

(* __post_init__: a Budget caps at least one dimension. *)
BudgetAssumption ==
  /\ Caps \in [Dims -> Nat \cup {NoCap}]
  /\ NoCap \notin Nat
  /\ \E d \in Dims : Caps[d] # NoCap
  /\ Window = NoWindow \/ Window \in Nat
  /\ Deltas \subseteq Spend

VARIABLES
  totals,      \* BudgetLedger._totals
  events,      \* BudgetLedger._events: the charges a window still holds
  now,         \* the clock, read under the lock
  charged      \* history: every charge of a key since it was last reset

vars == <<totals, events, now, charged>>

Entry == [at : Int, spend : Spend]

TypeOK ==
  /\ totals \in [Keys -> Spend]
  /\ events \in [Keys -> Seq(Entry)]
  /\ now \in Int
  /\ charged \in [Keys -> Seq(Entry)]

Init ==
  /\ totals = [k \in Keys |-> NoSpend]
  /\ events = [k \in Keys |-> << >>]
  /\ now = 0
  /\ charged = [k \in Keys |-> << >>]
-----------------------------------------------------------------------------
Add(s, delta) == [d \in Dims |-> s[d] + delta[d]]

Total(entries) ==
  LET sum[i \in 0..Len(entries)] ==
        IF i = 0 THEN NoSpend ELSE Add(sum[i - 1], entries[i].spend)
  IN sum[Len(entries)]

(* Mutant: an entry exactly window_seconds old is dropped. *)
PrunedEarly(entries) == SelectSeq(entries, LAMBDA e : e.at > now - Window)

(* The popleft loop of _windowed_spend: it stops at the first entry that   *)
(* is still inside the window.                                             *)
Pruned(entries) ==
  LET fresh == {i \in DOMAIN entries : entries[i].at >= now - Window}
  IN IF fresh = {} THEN << >>
     ELSE SubSeq(entries, CHOOSE i \in fresh : \A j \in fresh : i <= j, Len(entries))

Violates(s) == \E d \in Dims : Caps[d] # NoCap /\ s[d] > Caps[d]

(* _current_locked: reading a windowed spend drops what has aged out. *)
Current(k) == IF Window = NoWindow THEN totals[k] ELSE Total(Pruned(events[k]))

Read(k) ==
  /\ events' = IF Window = NoWindow THEN events
               ELSE [events EXCEPT ![k] = Pruned(@)]
  /\ UNCHANGED <<totals, now, charged>>

(* Mutant: no probe. *)
AdmitsCurrent(k) == ~Violates(Current(k))

(* check: probe with one more call. *)
Admits(k) == ~Violates(Add(Current(k), OneCall))

Check(k, ok) == ok = Admits(k) /\ Read(k)

(* Mutant: a charge replaces what was spent. *)
ChargeOverwrites(k, delta, ok) ==
  LET entry == [at |-> now, spend |-> delta]
  IN /\ ok = ~Violates(delta)
     /\ totals' = IF Window = NoWindow THEN [totals EXCEPT ![k] = delta] ELSE totals
     /\ events' = IF Window = NoWindow THEN events ELSE [events EXCEPT ![k] = <<entry>>]
     /\ charged' = [charged EXCEPT ![k] = Append(@, entry)]
     /\ UNCHANGED now

(* charge: the spend is recorded whether or not it breaches a ceiling; `ok` *)
(* is FALSE when BudgetExceeded is raised.                                  *)
Charge(k, delta, ok) ==
  LET entry == [at |-> now, spend |-> delta]
      window == Pruned(Append(events[k], entry))
      total == IF Window = NoWindow THEN Add(totals[k], delta) ELSE Total(window)
  IN /\ ok = ~Violates(total)
     /\ IF Window = NoWindow
        THEN totals' = [totals EXCEPT ![k] = total] /\ UNCHANGED events
        ELSE events' = [events EXCEPT ![k] = window] /\ UNCHANGED totals
     /\ charged' = [charged EXCEPT ![k] = Append(@, entry)]
     /\ UNCHANGED now

Reset(k) ==
  /\ totals' = [totals EXCEPT ![k] = NoSpend]
  /\ events' = [events EXCEPT ![k] = << >>]
  /\ charged' = [charged EXCEPT ![k] = << >>]
  /\ UNCHANGED now

(* External: time passes. *)
Tick ==
  /\ now < MaxTime
  /\ now' = now + 1
  /\ UNCHANGED <<totals, events, charged>>

Next ==
  \/ \E k \in Keys, ok \in BOOLEAN : Check(k, ok)
  \/ \E k \in Keys, delta \in Deltas, ok \in BOOLEAN :
       Len(charged[k]) < MaxCharges /\ Charge(k, delta, ok)
  \/ \E k \in Keys : Reset(k)
  \/ Tick

Spec == Init /\ [][Next]_vars
-----------------------------------------------------------------------------
(* What the docstring calls cumulative, or over a rolling window: the sum  *)
(* of the charges since the last reset, or of those no older than the      *)
(* window.                                                                 *)
Counts(e) == Window = NoWindow \/ e.at >= now - Window
Counted(entries) ==
  [i \in DOMAIN entries |->
     IF Counts(entries[i]) THEN entries[i] ELSE [entries[i] EXCEPT !.spend = NoSpend]]

(* The spend a gate sees is exactly the spend that counts, at any time and *)
(* after any mix of checks, charges and resets: the pruning loop never     *)
(* drops a charge that is still in the window nor keeps one that left it.  *)
SpendExact ==
  \A k \in Keys : Current(k) = Total(Counted(charged[k]))

(* check and charge agree on where the ceiling is: with nothing in between *)
(* an admitted call is charged without an error, and a refused one would   *)
(* have raised.                                                            *)
CheckAgreesWithCharge ==
  [][\A k \in Keys :
       charged'[k] = Append(charged[k], [at |-> now, spend |-> OneCall])
         => (Admits(k) <=> ~Violates(Current(k))')]_vars

(* Spend is not refunded: until the clock moves or the key is reset no     *)
(* check, no charge of another key and no charge that raised gives a key   *)
(* any of its budget back.                                                 *)
NoRefund ==
  [][\A k \in Keys :
       (now' = now /\ charged'[k] # << >>) =>
          \A d \in Dims : Current(k)'[d] >= Current(k)[d]]_vars

(* What a check promises a charge keeps, and no charge is taken back.      *)
ChargesStand == NoRefund /\ CheckAgreesWithCharge
=============================================================================
