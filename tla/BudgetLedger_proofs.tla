------------------------- MODULE BudgetLedger_proofs -------------------------
(***************************************************************************)
(* The ledger is exact: for any keys, caps, charges and window, the spend  *)
(* a gate sees is the sum of the charges that count, what was spent is not *)
(* given back, and check agrees with charge.  Sums are recursive           *)
(* functions; facts about them are proved by the least number for which    *)
(* they fail.                                                              *)
(***************************************************************************)
EXTENDS BudgetLedger, WellFoundedInduction, TLAPS

(* A set of numbers has a least one. *)
LEMMA LeastOf ==
  ASSUME NEW S \in SUBSET Nat, S # {}
  PROVE  \E m \in S : \A k \in S : m <= k
<1> DEFINE less == OpToRel(<, Nat)
<1>1. PICK m \in S : \A k \in S : <<k, m>> \notin less
  <2>1. IsWellFoundedOn(less, Nat)
    BY NatLessThanWellFounded
  <2> HIDE DEF less
  <2> QED BY <2>1, WFMin, Zenon
<1>2. \A k \in S : ~(k < m)
  BY <1>1 DEF OpToRel
<1> QED BY <1>2

(* What holds of zero, and of a number when of the one before, holds of    *)
(* all up to a bound: `S` are the numbers for which it holds.              *)
LEMMA UpTo ==
  ASSUME NEW n \in Nat, NEW S, 0 \in S, \A i \in 1..n : i - 1 \in S => i \in S
  PROVE  0..n \subseteq S
<1> SUFFICES ASSUME (0..n) \ S # {} PROVE FALSE
  OBVIOUS
<1>1. (0..n) \ S \in SUBSET Nat
  OBVIOUS
<1>2. PICK m \in (0..n) \ S : \A k \in (0..n) \ S : m <= k
  BY <1>1, LeastOf
<1>3. m \in 1..n /\ m - 1 \in 0..n
  BY <1>2
<1>4. m - 1 \in S
  BY <1>2, <1>3
<1> QED BY <1>2, <1>3, <1>4
-----------------------------------------------------------------------------
(* Adding what two entries spent. *)
LEMMA AddSpend ==
  ASSUME NEW a \in Spend, NEW b \in Spend
  PROVE  /\ Add(a, b) \in Spend
         /\ Add(a, NoSpend) = a
         /\ \A d \in Dims : Add(a, b)[d] = a[d] + b[d]
         /\ NoSpend \in Spend /\ OneCall \in Spend
BY DEF Add, Spend, NoSpend, OneCall, Dims

(* The running sums of entries. *)
Sums(entries, f) ==
  f = [i \in 0..Len(entries) |-> IF i = 0 THEN NoSpend ELSE Add(f[i - 1], entries[i].spend)]

(* Running sums, as far as `n`. *)
SumsTo(entries, n, f) ==
  f = [i \in 0..n |-> IF i = 0 THEN NoSpend ELSE Add(f[i - 1], entries[i].spend)]

(* Every list of entries has running sums. *)
LEMMA SumsExist ==
  ASSUME NEW s \in Seq(Entry)
  PROVE  \E f : Sums(s, f)
<1> DEFINE n == Len(s)
           S == {i \in 0..n : \E f : SumsTo(s, i, f)}
<1>0. n \in Nat
  OBVIOUS
<1>1. 0 \in S
  <2>1. SumsTo(s, 0, [i \in 0..0 |-> NoSpend])
    BY DEF SumsTo
  <2> QED BY <1>0, <2>1
<1>2. ASSUME NEW i \in 1..n, i - 1 \in S PROVE i \in S
  <2>1. PICK f : SumsTo(s, i - 1, f)
    BY <1>2
  <2>2. PICK e : e = s[i].spend
    OBVIOUS
  <2> DEFINE g == [j \in 0..i |-> IF j = i THEN Add(f[i - 1], e) ELSE f[j]]
  <2>3. \A j \in 0..(i - 1) : f[j] = IF j = 0 THEN NoSpend ELSE Add(f[j - 1], s[j].spend)
    BY <1>0, <2>1 DEF SumsTo
  <2>4. \A j \in 0..i : g[j] = IF j = 0 THEN NoSpend ELSE Add(g[j - 1], s[j].spend)
    <3> SUFFICES ASSUME NEW j \in 0..i
                 PROVE  g[j] = IF j = 0 THEN NoSpend ELSE Add(g[j - 1], s[j].spend)
      OBVIOUS
    <3>1. CASE j = i
      <4>1. g[j] = Add(f[i - 1], e) /\ g[j - 1] = f[i - 1]
        BY <1>0, <3>1
      <4> QED BY <1>0, <2>2, <3>1, <4>1
    <3>2. CASE j # i
      <4>1. j \in 0..(i - 1) /\ g[j] = f[j] /\ (j # 0 => g[j - 1] = f[j - 1])
        BY <1>0, <3>2
      <4>2. f[j] = IF j = 0 THEN NoSpend ELSE Add(f[j - 1], s[j].spend)
        BY <2>3, <4>1
      <4> HIDE DEF g
      <4> QED BY <4>1, <4>2
    <3> QED BY <3>1, <3>2
  <2>5. SumsTo(s, i, g)
    <3>1. DOMAIN g = 0..i /\ g = [j \in DOMAIN g |-> g[j]]
      OBVIOUS
    <3> HIDE DEF g
    <3> QED BY <2>4, <3>1 DEF SumsTo
  <2> QED BY <2>5
<1>3. 0..n \subseteq S
  <2> HIDE DEF n, S
  <2> QED BY <1>0, <1>1, <1>2, UpTo
<1>4. n \in S
  BY <1>0, <1>3
<1> QED BY <1>4 DEF SumsTo, Sums

(* The total is the last of any running sums, which are spends. *)
LEMMA TotalIs ==
  ASSUME NEW s \in Seq(Entry), NEW f, Sums(s, f)
  PROVE  /\ Total(s) = f[Len(s)]
         /\ f \in [0..Len(s) -> Spend]
         /\ f[0] = NoSpend
         /\ \A i \in 1..Len(s) : f[i] = Add(f[i - 1], s[i].spend)
<1> DEFINE n == Len(s)
<1>0. n \in Nat
  OBVIOUS
<1>1. PICK g : g = (CHOOSE h : Sums(s, h))
  OBVIOUS
<1>2. Sums(s, g)
  BY <1>1
<1>3. Total(s) = g[n]
  BY <1>1 DEF Total, Sums
<1>4. /\ f[0] = NoSpend
      /\ \A i \in 1..n : f[i] = Add(f[i - 1], s[i].spend)
  BY <1>0 DEF Sums
<1>5. /\ g[0] = NoSpend
      /\ \A i \in 1..n : g[i] = Add(g[i - 1], s[i].spend)
  BY <1>0, <1>2 DEF Sums
<1> DEFINE S == {i \in 0..n : f[i] = g[i] /\ f[i] \in Spend}
<1>6. 0 \in S
  BY <1>0, <1>4, <1>5, AddSpend DEF Spend, NoSpend
<1>7. ASSUME NEW i \in 1..n, i - 1 \in S PROVE i \in S
  <2>1. s[i] \in Entry
    BY <1>0
  <2>2. s[i].spend \in Spend
    BY <2>1 DEF Entry
  <2>3. f[i - 1] = g[i - 1] /\ f[i - 1] \in Spend
    BY <1>7
  <2>4. f[i] = Add(f[i - 1], s[i].spend) /\ g[i] = Add(g[i - 1], s[i].spend)
    BY <1>4, <1>5
  <2>5. f[i] = g[i] /\ f[i] \in Spend
    BY <2>2, <2>3, <2>4, AddSpend
  <2> QED BY <2>5
<1>8. 0..n \subseteq S
  <2> HIDE DEF n, S
  <2> QED BY <1>0, <1>6, <1>7, UpTo
<1>9. n \in S
  BY <1>0, <1>8
<1>10. f = [i \in 0..n |-> f[i]]
  BY DEF Sums
<1> QED BY <1>0, <1>3, <1>4, <1>8, <1>9, <1>10

(* One more entry adds what it spent. *)
LEMMA TotalAppend ==
  ASSUME NEW s \in Seq(Entry), NEW e \in Entry
  PROVE  /\ Total(s) \in Spend
         /\ Total(Append(s, e)) = Add(Total(s), e.spend)
<1> DEFINE t == Append(s, e)
<1>1. t \in Seq(Entry) /\ Len(t) = Len(s) + 1 /\ Len(s) \in Nat
      /\ t[Len(s) + 1] = e /\ \A i \in 1..Len(s) : t[i] = s[i]
  OBVIOUS
<1> HIDE DEF t
<1>2. PICK f : Sums(s, f)
  BY SumsExist
<1>3. PICK g : Sums(t, g)
  BY <1>1, SumsExist
<1>4. /\ Total(s) = f[Len(s)] /\ f \in [0..Len(s) -> Spend] /\ f[0] = NoSpend
      /\ \A i \in 1..Len(s) : f[i] = Add(f[i - 1], s[i].spend)
  BY <1>2, TotalIs
<1>5. /\ Total(t) = g[Len(t)] /\ g[0] = NoSpend
      /\ \A i \in 1..Len(t) : g[i] = Add(g[i - 1], t[i].spend)
  BY <1>1, <1>3, TotalIs
<1> DEFINE S == {i \in 0..Len(s) : f[i] = g[i]}
<1>6. 0 \in S
  BY <1>1, <1>4, <1>5
<1>7. ASSUME NEW i \in 1..Len(s), i - 1 \in S PROVE i \in S
  <2>1. f[i - 1] = g[i - 1] /\ t[i] = s[i] /\ i \in 1..Len(t)
    BY <1>1, <1>7
  <2>2. f[i] = g[i]
    BY <1>4, <1>5, <2>1
  <2> QED BY <2>2
<1>8. 0..Len(s) \subseteq S
  <2> HIDE DEF S
  <2> QED BY <1>1, <1>6, <1>7, UpTo
<1>9. f[Len(s)] = g[Len(s)] /\ f[Len(s)] \in Spend
  BY <1>1, <1>4, <1>8
<1>10. Len(t) \in 1..Len(t) /\ Len(t) - 1 = Len(s)
  BY <1>1
<1>11. g[Len(t)] = Add(g[Len(s)], e.spend)
  BY <1>1, <1>5, <1>10
<1> QED BY <1>4, <1>5, <1>9, <1>11 DEF t

(* Nothing adds up to nothing. *)
LEMMA TotalEmpty ==
  /\ Total(<< >>) = NoSpend
  /\ << >> \in Seq(Entry)
<1>1. << >> \in Seq(Entry) /\ Len(<< >>) = 0
  OBVIOUS
<1> QED BY <1>1, SumsExist, TotalIs

(* Entries up to a place that spend nothing do not count, those from there *)
(* on are all that does.                                                   *)
LEMMA TotalSuffix ==
  ASSUME NEW s \in Seq(Entry), NEW t \in Seq(Entry), NEW d \in 0..Len(s),
         Len(t) = Len(s) - d,
         \A i \in 1..d : s[i].spend = NoSpend,
         \A i \in 1..Len(t) : t[i].spend = s[i + d].spend
  PROVE  Total(s) = Total(t)
<1>1. PICK f : Sums(s, f)
  BY SumsExist
<1>2. PICK g : Sums(t, g)
  BY SumsExist
<1>3. /\ Total(s) = f[Len(s)] /\ f \in [0..Len(s) -> Spend] /\ f[0] = NoSpend
      /\ \A i \in 1..Len(s) : f[i] = Add(f[i - 1], s[i].spend)
  BY <1>1, TotalIs
<1>4. /\ Total(t) = g[Len(t)] /\ g[0] = NoSpend
      /\ \A i \in 1..Len(t) : g[i] = Add(g[i - 1], t[i].spend)
  BY <1>2, TotalIs
<1>5. Len(s) \in Nat /\ Len(t) \in Nat /\ d \in Nat /\ d + Len(t) = Len(s)
  OBVIOUS
<1> DEFINE Before == {i \in 0..d : f[i] = NoSpend}
           Since == {i \in 0..Len(t) : f[i + d] = g[i]}
<1>6. 0 \in Before
  BY <1>3, <1>5
<1>7. ASSUME NEW i \in 1..d, i - 1 \in Before PROVE i \in Before
  <2>1. i \in 1..Len(s) /\ f[i - 1] = NoSpend /\ s[i].spend = NoSpend
    BY <1>5, <1>7
  <2>2. f[i] = NoSpend
    BY <1>3, <2>1, AddSpend DEF Spend
  <2> QED BY <2>2
<1>8. 0..d \subseteq Before
  <2> HIDE DEF Before
  <2> QED BY <1>5, <1>6, <1>7, UpTo
<1>9. 0 \in Since
  <2>1. d \in Before
    BY <1>5, <1>8
  <2>2. f[d] = NoSpend /\ 0 + d = d
    BY <1>5, <2>1
  <2> QED BY <1>4, <1>5, <2>2
<1>10. ASSUME NEW i \in 1..Len(t), i - 1 \in Since PROVE i \in Since
  <2>1. /\ i + d \in 1..Len(s) /\ (i + d) - 1 = (i - 1) + d
        /\ t[i].spend = s[i + d].spend
    BY <1>5
  <2>2. f[(i - 1) + d] = g[i - 1]
    BY <1>10
  <2>3. f[i + d] = Add(f[(i - 1) + d], s[i + d].spend)
    BY <1>3, <2>1
  <2>4. f[i + d] = g[i]
    BY <1>4, <2>1, <2>2, <2>3
  <2> QED BY <2>4
<1>11. 0..Len(t) \subseteq Since
  <2> HIDE DEF Since
  <2> QED BY <1>5, <1>9, <1>10, UpTo
<1>12. f[Len(t) + d] = g[Len(t)]
  <2>1. Len(t) \in Since
    BY <1>5, <1>11
  <2> QED BY <2>1
<1> QED BY <1>3, <1>4, <1>5, <1>12
-----------------------------------------------------------------------------
(* A window holds all of the charges but some that are older than it.      *)
Holds(window, entries, cutoff) ==
  \E d \in 0..Len(entries) :
    /\ Len(window) = Len(entries) - d
    /\ \A i \in 1..Len(window) : window[i] = entries[i + d]
    /\ \A i \in 1..d : entries[i].at < cutoff

(* Charges come in the order of the clock. *)
InOrder(entries, clock) ==
  \A i \in DOMAIN entries :
    /\ entries[i].at <= clock
    /\ \A j \in DOMAIN entries : i < j => entries[i].at <= entries[j].at

Exact(k) ==
  /\ InOrder(charged[k], now)
  /\ IF Window = NoWindow THEN totals[k] = Total(charged[k])
     ELSE Holds(events[k], charged[k], now - Window)

LedgerExact == \A k \in Keys : Exact(k)

(* The loop drops the entries before the first one inside the window.      *)
LEMMA PrunedIs ==
  ASSUME now \in Int, Window \in Nat, NEW s \in Seq(Entry)
  PROVE  /\ Pruned(s) \in Seq(Entry)
         /\ \E p \in 0..Len(s) :
              /\ Len(Pruned(s)) = Len(s) - p
              /\ \A i \in 1..Len(Pruned(s)) : Pruned(s)[i] = s[i + p]
              /\ \A i \in 1..p : s[i].at < now - Window
              /\ p < Len(s) => s[p + 1].at >= now - Window
<1> DEFINE fresh == {i \in DOMAIN s : s[i].at >= now - Window}
           m == CHOOSE i \in fresh : \A j \in fresh : i <= j
<1>0. /\ Len(s) \in Nat /\ DOMAIN s = 1..Len(s)
      /\ \A i \in DOMAIN s : s[i] \in Entry
  OBVIOUS
<1>1. \A i \in DOMAIN s : s[i].at \in Int
  BY <1>0 DEF Entry
<1>2. CASE fresh = {}
  <2>1. Pruned(s) = << >>
    BY <1>2 DEF Pruned
  <2>2. \A i \in 1..Len(s) : s[i].at < now - Window
    BY <1>0, <1>1, <1>2
  <2>3. Pruned(s) \in Seq(Entry) /\ Len(Pruned(s)) = 0
    BY <2>1
  <2>4. PICK p : p = Len(s)
    OBVIOUS
  <2>5. /\ p \in 0..Len(s)
        /\ Len(Pruned(s)) = Len(s) - p
        /\ \A i \in 1..Len(Pruned(s)) : Pruned(s)[i] = s[i + p]
        /\ \A i \in 1..p : s[i].at < now - Window
        /\ p < Len(s) => s[p + 1].at >= now - Window
    BY <1>0, <2>2, <2>3, <2>4
  <2> QED BY <2>3, <2>5
<1>3. CASE fresh # {}
  <2>1. \E i \in fresh : \A j \in fresh : i <= j
    <3>1. fresh \in SUBSET Nat
      BY <1>0
    <3> HIDE DEF fresh
    <3> QED BY <1>3, <3>1, LeastOf
  <2>2. m \in fresh /\ \A j \in fresh : m <= j
    <3> HIDE DEF fresh
    <3>1. PICK x : x = m
      OBVIOUS
    <3>2. x = CHOOSE i \in fresh : \A j \in fresh : i <= j
      BY <3>1
    <3> HIDE DEF m
    <3>3. x \in fresh /\ \A j \in fresh : x <= j
      BY <2>1, <3>2
    <3> QED BY <3>1, <3>3
  <2>3. Pruned(s) = SubSeq(s, m, Len(s))
    BY <1>3 DEF Pruned
  <2>4. m \in 1..Len(s) /\ s[m].at >= now - Window
    BY <1>0, <2>2
  <2>5. \A i \in 1..(m - 1) : s[i].at < now - Window
    <3> SUFFICES ASSUME NEW i \in 1..(m - 1), ~(s[i].at < now - Window) PROVE FALSE
      OBVIOUS
    <3>1. i \in DOMAIN s
      BY <1>0, <2>4
    <3>2. i \in fresh
      BY <1>1, <3>1
    <3> HIDE DEF m, fresh
    <3> QED BY <1>0, <2>2, <2>4, <3>2
  <2> HIDE DEF m, fresh
  <2>6. /\ Pruned(s) \in Seq(Entry) /\ Len(Pruned(s)) = Len(s) - (m - 1)
        /\ \A i \in 1..Len(Pruned(s)) : Pruned(s)[i] = s[i + (m - 1)]
    BY <1>0, <2>3, <2>4
  <2> DEFINE p == m - 1
  <2>7. p \in 0..Len(s) /\ p + 1 = m
    BY <1>0, <2>4
  <2>8. /\ Len(Pruned(s)) = Len(s) - p
        /\ \A i \in 1..Len(Pruned(s)) : Pruned(s)[i] = s[i + p]
        /\ \A i \in 1..p : s[i].at < now - Window
        /\ s[p + 1].at >= now - Window
    BY <2>4, <2>5, <2>6, <2>7
  <2> HIDE DEF p
  <2> QED BY <2>6, <2>7, <2>8
<1> QED BY <1>2, <1>3

(* A window that loses what is too old still holds the rest. *)
LEMMA HoldsPruned ==
  ASSUME now \in Int, Window \in Nat, NEW w \in Seq(Entry), NEW s \in Seq(Entry),
         Holds(w, s, now - Window)
  PROVE  Holds(Pruned(w), s, now - Window)
<1>1. PICK d \in 0..Len(s) :
        /\ Len(w) = Len(s) - d
        /\ \A i \in 1..Len(w) : w[i] = s[i + d]
        /\ \A i \in 1..d : s[i].at < now - Window
  BY DEF Holds
<1>2. PICK v \in Seq(Entry) : v = Pruned(w)
  BY PrunedIs
<1>3. PICK p \in 0..Len(w) :
        /\ Len(v) = Len(w) - p
        /\ \A i \in 1..Len(v) : v[i] = w[i + p]
        /\ \A i \in 1..p : w[i].at < now - Window
  BY <1>2, PrunedIs
<1>4. /\ Len(s) \in Nat /\ Len(w) \in Nat /\ Len(v) \in Nat /\ d \in Nat /\ p \in Nat
  OBVIOUS
<1>5. p + d \in 0..Len(s) /\ Len(v) = Len(s) - (p + d)
  BY <1>1, <1>3, <1>4
<1>6. ASSUME NEW i \in 1..Len(v) PROVE v[i] = s[i + (p + d)]
  <2>1. i + p \in 1..Len(w) /\ (i + p) + d = i + (p + d)
    BY <1>3, <1>4
  <2> QED BY <1>1, <1>3, <2>1
<1>7. ASSUME NEW i \in 1..(p + d) PROVE s[i].at < now - Window
  <2>1. CASE i <= d
    BY <1>1, <1>4, <2>1
  <2>2. CASE i > d
    <3>1. i - d \in 1..p /\ i - d \in 1..Len(w) /\ (i - d) + d = i
      BY <1>3, <1>4, <2>2
    <3>2. w[i - d] = s[i]
      BY <1>1, <3>1
    <3> QED BY <1>3, <3>1, <3>2
  <2> QED BY <1>4, <2>1, <2>2
<1>8. \E e \in 0..Len(s) :
        /\ Len(v) = Len(s) - e
        /\ \A i \in 1..Len(v) : v[i] = s[i + e]
        /\ \A i \in 1..e : s[i].at < now - Window
  BY <1>5, <1>6, <1>7
<1> QED BY <1>2, <1>8 DEF Holds

(* A window that gets the charge holds it. *)
LEMMA HoldsAppend ==
  ASSUME NEW w \in Seq(Entry), NEW s \in Seq(Entry), NEW c, Holds(w, s, c), NEW e \in Entry
  PROVE  Holds(Append(w, e), Append(s, e), c)
<1>1. PICK d \in 0..Len(s) :
        /\ Len(w) = Len(s) - d
        /\ \A i \in 1..Len(w) : w[i] = s[i + d]
        /\ \A i \in 1..d : s[i].at < c
  BY DEF Holds
<1>2. PICK v : v = Append(w, e)
  OBVIOUS
<1>3. PICK t : t = Append(s, e)
  OBVIOUS
<1>4. /\ Len(v) = Len(w) + 1 /\ v[Len(w) + 1] = e /\ \A i \in 1..Len(w) : v[i] = w[i]
      /\ Len(t) = Len(s) + 1 /\ t[Len(s) + 1] = e /\ \A i \in 1..Len(s) : t[i] = s[i]
      /\ Len(w) \in Nat /\ Len(s) \in Nat
  BY <1>2, <1>3
<1>5. /\ d \in 0..Len(t) /\ Len(v) = Len(t) - d
      /\ Len(w) = Len(s) - d /\ Len(v) = Len(w) + 1 /\ Len(w) \in Nat /\ Len(s) \in Nat
  BY <1>1, <1>4
<1>6. ASSUME NEW i \in 1..Len(v) PROVE v[i] = t[i + d]
  <2>1. CASE i = Len(w) + 1
    <3>1. i + d = Len(s) + 1
      BY <1>1, <1>4, <2>1
    <3> QED BY <1>4, <2>1, <3>1
  <2>2. CASE i # Len(w) + 1
    <3>1. i \in 1..Len(w) /\ i + d \in 1..Len(s)
      BY <1>5, <2>2
    <3>4. v[i] = w[i]
      BY <1>4, <3>1
    <3>5. PICK j : j = i + d
      OBVIOUS
    <3>6. t[j] = s[j]
      BY <1>4, <3>1, <3>5
    <3>2. v[i] = w[i] /\ t[i + d] = s[i + d]
      BY <3>4, <3>5, <3>6
    <3>3. w[i] = s[i + d]
      BY <1>1, <3>1
    <3> QED BY <3>2, <3>3
  <2> QED BY <2>1, <2>2
<1>7. \A i \in 1..d : t[i].at < c
  <2>1. \A i \in 1..d : i \in 1..Len(s)
    BY <1>4
  <2> QED BY <1>1, <1>4, <2>1
<1>8. \E x \in 0..Len(t) :
        /\ Len(v) = Len(t) - x
        /\ \A i \in 1..Len(v) : v[i] = t[i + x]
        /\ \A i \in 1..x : t[i].at < c
  BY <1>5, <1>6, <1>7
<1> QED BY <1>2, <1>3, <1>8 DEF Holds

(* As time passes a window still holds what is inside it. *)
LEMMA HoldsLater ==
  ASSUME NEW w, NEW s \in Seq(Entry), NEW b \in Int, NEW c \in Int, b <= c, Holds(w, s, b)
  PROVE  Holds(w, s, c)
<1>1. PICK d \in 0..Len(s) :
        /\ Len(w) = Len(s) - d
        /\ \A i \in 1..Len(w) : w[i] = s[i + d]
        /\ \A i \in 1..d : s[i].at < b
  BY DEF Holds
<1>2. \A i \in 1..d : s[i].at < c
  <2> SUFFICES ASSUME NEW i \in 1..d PROVE s[i].at < c
    OBVIOUS
  <2>1. s[i] \in Entry
    OBVIOUS
  <2>2. s[i].at \in Int /\ s[i].at < b
    BY <1>1, <2>1 DEF Entry
  <2> QED BY <2>2
<1> QED BY <1>1, <1>2 DEF Holds
-----------------------------------------------------------------------------
(* Entries that do not count, masked, are entries; so is the charge made   *)
(* now, which counts.                                                      *)
LEMMA CountedTyped ==
  ASSUME now \in Int, Window = NoWindow \/ Window \in Nat, NEW s \in Seq(Entry)
  PROVE  /\ Counted(s) \in Seq(Entry) /\ Len(Counted(s)) = Len(s)
         /\ \A i \in 1..Len(s) :
              /\ Counts(s[i]) => Counted(s)[i].spend = s[i].spend
              /\ ~Counts(s[i]) => Counted(s)[i].spend = NoSpend
         /\ \A spend \in Spend :
              LET e == [at |-> now, spend |-> spend]
              IN e \in Entry /\ Counted(Append(s, e)) = Append(Counted(s), e)
<1> DEFINE Mask(x) == IF Counts(x) THEN x ELSE [x EXCEPT !.spend = NoSpend]
<1>1. Counted(s) = [i \in 1..Len(s) |-> Mask(s[i])]
  BY DEF Counted
<1>2. NoSpend \in Spend
  BY AddSpend DEF NoSpend, Spend
<1>3. ASSUME NEW x \in Entry
      PROVE  /\ Mask(x) \in Entry
             /\ Counts(x) => Mask(x).spend = x.spend
             /\ ~Counts(x) => Mask(x).spend = NoSpend
  BY <1>2 DEF Entry
<1>4. \A i \in 1..Len(s) : s[i] \in Entry
  OBVIOUS
<1> HIDE DEF Mask
<1>5. Counted(s) \in Seq(Entry) /\ Len(Counted(s)) = Len(s)
  BY <1>1, <1>3, <1>4
<1>6. \A i \in 1..Len(s) : Counted(s)[i] = Mask(s[i])
  BY <1>1
<1>7. ASSUME NEW spend \in Spend
      PROVE  LET e == [at |-> now, spend |-> spend]
             IN e \in Entry /\ Counted(Append(s, e)) = Append(Counted(s), e)
  <2> DEFINE e == [at |-> now, spend |-> spend]
  <2>1. e \in Entry /\ e.at = now
    BY DEF Entry
  <2>2. Counts(e)
    BY <2>1 DEF Counts
  <2> HIDE DEF e
  <2>3. Mask(e) = e
    BY <2>2 DEF Mask
  <2>4. Counted(Append(s, e)) = [i \in 1..(Len(s) + 1) |-> Mask(Append(s, e)[i])]
    BY <2>1 DEF Counted, Mask
  <2>5. Counted(Append(s, e)) = Append(Counted(s), e)
    <3>1. PICK t : t = Counted(s)
      OBVIOUS
    <3>2. t \in Seq(Entry) /\ Len(t) = Len(s) /\ Len(s) \in Nat
          /\ \A i \in 1..Len(s) : t[i] = Mask(s[i])
      BY <1>5, <1>6, <3>1
    <3>3. /\ Append(t, e) = [i \in 1..(Len(s) + 1) |-> IF i = Len(s) + 1 THEN e ELSE t[i]]
          /\ \A i \in 1..Len(s) : Append(s, e)[i] = s[i]
          /\ Append(s, e)[Len(s) + 1] = e
      <4>1. PICK u : u = Append(t, e)
        OBVIOUS
      <4>2. /\ u \in Seq(Entry) /\ Len(u) = Len(s) + 1 /\ u[Len(s) + 1] = e
            /\ \A i \in 1..Len(s) : u[i] = t[i]
        BY <2>1, <3>2, <4>1
      <4>3. u = [i \in 1..(Len(s) + 1) |-> u[i]]
        BY <4>2
      <4>4. \A i \in 1..(Len(s) + 1) : u[i] = IF i = Len(s) + 1 THEN e ELSE t[i]
        BY <3>2, <4>2
      <4>5. Append(t, e) = [i \in 1..(Len(s) + 1) |-> IF i = Len(s) + 1 THEN e ELSE t[i]]
        BY <4>1, <4>3, <4>4
      <4> QED BY <2>1, <4>5
    <3>4. \A i \in 1..(Len(s) + 1) :
            Mask(Append(s, e)[i]) = IF i = Len(s) + 1 THEN e ELSE t[i]
      <4> SUFFICES ASSUME NEW i \in 1..(Len(s) + 1)
                   PROVE  Mask(Append(s, e)[i]) = IF i = Len(s) + 1 THEN e ELSE t[i]
        OBVIOUS
      <4>1. CASE i = Len(s) + 1
        BY <2>3, <3>3, <4>1
      <4>2. CASE i # Len(s) + 1
        <5>1. i \in 1..Len(s)
          BY <3>2, <4>2
        <5> QED BY <3>2, <3>3, <4>2, <5>1
      <4> QED BY <4>1, <4>2
    <3> QED BY <2>4, <3>1, <3>3, <3>4
  <2> QED BY <2>1, <2>5 DEF e
<1> QED BY <1>3, <1>4, <1>5, <1>6, <1>7

(* What a gate sees is the sum of what counts. *)
LEMMA SpendIsExact ==
  ASSUME TypeOK, Window = NoWindow \/ Window \in Nat, NEW k \in Keys, Exact(k)
  PROVE  Current(k) = Total(Counted(charged[k]))
<1>1. PICK s \in Seq(Entry) : s = charged[k]
  BY DEF TypeOK
<1>2. PICK w \in Seq(Entry) : w = events[k]
  BY DEF TypeOK
<1>3. now \in Int
  BY DEF TypeOK
<1>4. Len(s) \in Nat /\ \A i \in 1..Len(s) : s[i] \in Entry /\ s[i].at \in Int
  <2>1. Len(s) \in Nat /\ \A i \in 1..Len(s) : s[i] \in Entry
    OBVIOUS
  <2> QED BY <2>1 DEF Entry
<1>5. PICK t \in Seq(Entry) : t = Counted(s)
  BY <1>3, CountedTyped
<1>6. /\ Len(t) = Len(s)
      /\ \A i \in 1..Len(s) : /\ Counts(s[i]) => t[i].spend = s[i].spend
                              /\ ~Counts(s[i]) => t[i].spend = NoSpend
  BY <1>3, <1>5, CountedTyped
<1>7. CASE Window = NoWindow
  <2>1. \A i \in 1..Len(s) : t[i].spend = s[i].spend
    BY <1>6, <1>7 DEF Counts
  <2>2. Total(t) = Total(s)
    <3>1. PICK d : d = 0
      OBVIOUS
    <3>2. d \in 0..Len(t) /\ Len(s) = Len(t) - d
      BY <1>4, <1>6, <3>1
    <3>3. \A i \in 1..Len(s) : s[i].spend = t[i + d].spend
      BY <1>4, <2>1, <3>1
    <3>4. \A i \in 1..d : t[i].spend = NoSpend
      BY <3>1
    <3> QED BY <3>2, <3>3, <3>4, TotalSuffix
  <2> QED BY <1>1, <1>5, <1>7, <2>2 DEF Exact, Current
<1>8. CASE Window # NoWindow
  <2>1. Window \in Nat
    BY <1>8
  <2>2. PICK v \in Seq(Entry) : v = Pruned(w)
    BY <1>3, <2>1, PrunedIs
  <2>3. Holds(w, s, now - Window)
    BY <1>1, <1>2, <1>8 DEF Exact
  <2>4. Holds(v, s, now - Window)
    BY <1>3, <2>1, <2>2, <2>3, HoldsPruned
  <2>5. PICK d \in 0..Len(s) :
          /\ Len(v) = Len(s) - d
          /\ \A i \in 1..Len(v) : v[i] = s[i + d]
          /\ \A i \in 1..d : s[i].at < now - Window
    BY <2>4 DEF Holds
  <2>6. Len(v) > 0 => v[1].at >= now - Window
    <3>1. PICK p \in 0..Len(w) :
            /\ Len(v) = Len(w) - p
            /\ \A i \in 1..Len(v) : v[i] = w[i + p]
            /\ p < Len(w) => w[p + 1].at >= now - Window
      BY <1>3, <2>1, <2>2, PrunedIs
    <3>2. SUFFICES ASSUME Len(v) > 0 PROVE v[1].at >= now - Window
      OBVIOUS
    <3>3. p < Len(w) /\ 1 \in 1..Len(v) /\ 1 + p = p + 1
      BY <3>1, <3>2
    <3> QED BY <3>1, <3>3
  <2>7. Len(v) \in Nat /\ d \in Nat /\ Len(v) + d = Len(s)
    BY <1>4, <2>5
  <2>8. ASSUME NEW i \in 1..Len(v)
        PROVE  Counts(s[i + d]) /\ i + d \in 1..Len(s)
    <3>1. 1 \in 1..Len(v) /\ 1 + d \in 1..Len(s) /\ i + d \in 1..Len(s) /\ 1 + d <= i + d
      BY <2>7
    <3>2. s[1 + d].at >= now - Window
      BY <2>5, <2>6, <3>1
    <3>3. PICK a \in 1..Len(s) : a = 1 + d
      BY <3>1, Zenon
    <3>4. PICK b \in 1..Len(s) : b = i + d
      BY <3>1, Zenon
    <3>5. a = b \/ a < b
      BY <3>1, <3>3, <3>4
    <3>6. s[a].at <= s[b].at
      <4>1. s[a].at \in Int /\ a \in DOMAIN s /\ b \in DOMAIN s
        BY <1>4
      <4>2. InOrder(s, now)
        BY <1>1 DEF Exact
      <4>3. CASE a = b
        BY <4>1, <4>3
      <4>4. CASE a < b
        BY <4>1, <4>2, <4>4 DEF InOrder
      <4> QED BY <3>5, <4>3, <4>4
    <3>7. s[b].at \in Int /\ s[a].at \in Int /\ s[a].at >= now - Window
      BY <1>4, <3>2, <3>3
    <3>8. s[b].at >= now - Window
      BY <1>3, <2>1, <3>6, <3>7
    <3> QED BY <3>1, <3>4, <3>8 DEF Counts
  <2>9. \A i \in 1..d : t[i].spend = NoSpend
    <3> SUFFICES ASSUME NEW i \in 1..d PROVE t[i].spend = NoSpend
      OBVIOUS
    <3>1. i \in 1..Len(s) /\ s[i].at \in Int /\ s[i].at < now - Window
      BY <1>4, <2>5, <2>7
    <3>2. ~Counts(s[i])
      BY <1>3, <1>8, <2>1, <3>1 DEF Counts
    <3> QED BY <1>6, <3>1, <3>2
  <2>10. \A i \in 1..Len(v) : v[i].spend = t[i + d].spend
    <3> SUFFICES ASSUME NEW i \in 1..Len(v) PROVE v[i].spend = t[i + d].spend
      OBVIOUS
    <3>1. v[i] = s[i + d]
      BY <2>5
    <3>2. t[i + d].spend = s[i + d].spend
      BY <1>6, <2>8
    <3> QED BY <3>1, <3>2
  <2>11. d \in 0..Len(t) /\ Len(v) = Len(t) - d
    BY <1>6, <2>5
  <2>12. Total(t) = Total(v)
    BY <2>9, <2>10, <2>11, TotalSuffix
  <2> QED BY <1>1, <1>2, <1>5, <1>8, <2>2, <2>12 DEF Current
<1> QED BY <1>7, <1>8
-----------------------------------------------------------------------------
(* A check reads one key: it prunes its window and touches no other key.   *)
LEMMA CheckKeeps ==
  ASSUME TypeOK, Window = NoWindow \/ Window \in Nat, LedgerExact,
         NEW k \in Keys, NEW ok, Check(k, ok)
  PROVE  TypeOK' /\ LedgerExact'
<1>1. now' = now /\ totals' = totals /\ charged' = charged
  BY DEF Check, Read
<1>2. CASE Window = NoWindow
  <2>1. events' = events
    BY <1>2 DEF Check, Read
  <2> QED BY <1>1, <2>1 DEF TypeOK, LedgerExact, Exact
<1>3. CASE Window # NoWindow
  <2>1. events' = [events EXCEPT ![k] = Pruned(events[k])]
    BY <1>3 DEF Check, Read
  <2>2. /\ Pruned(events[k]) \in Seq(Entry) /\ events[k] \in Seq(Entry)
        /\ charged[k] \in Seq(Entry) /\ now \in Int /\ Window \in Nat
    BY <1>3, PrunedIs DEF TypeOK
  <2>3. TypeOK'
    BY <1>1, <2>1, <2>2 DEF TypeOK
  <2>4. Holds(Pruned(events[k]), charged[k], now - Window)
    BY <1>3, <2>2, HoldsPruned DEF LedgerExact, Exact
  <2>5. ASSUME NEW h \in Keys PROVE Exact(h)'
    <3>1. InOrder(charged[h], now)
      BY DEF LedgerExact, Exact
    <3>2. Holds(events'[h], charged[h], now - Window)
      <4>1. CASE h = k
        BY <2>1, <2>4, <4>1 DEF TypeOK
      <4>2. CASE h # k
        BY <1>3, <2>1, <4>2 DEF TypeOK, LedgerExact, Exact
      <4> QED BY <4>1, <4>2
    <3> QED BY <1>1, <1>3, <3>1, <3>2 DEF Exact
  <2> QED BY <2>3, <2>5 DEF LedgerExact
<1> QED BY <1>2, <1>3

(* The entry a charge makes comes last in the order of the clock. *)
LEMMA InOrderAppend ==
  ASSUME NEW s \in Seq(Entry), NEW clock \in Int, InOrder(s, clock), NEW e \in Entry, e.at = clock
  PROVE  InOrder(Append(s, e), clock)
<1>1. PICK t : t = Append(s, e)
  OBVIOUS
<1>2. /\ DOMAIN t = 1..(Len(s) + 1) /\ DOMAIN s = 1..Len(s) /\ Len(s) \in Nat
      /\ t[Len(s) + 1] = e /\ \A i \in 1..Len(s) : t[i] = s[i]
  BY <1>1
<1>3. \A i \in 1..Len(s) : s[i].at <= clock
  BY <1>2 DEF InOrder
<1>4. ASSUME NEW i \in DOMAIN t PROVE t[i].at <= clock
  BY <1>2, <1>3
<1>5. ASSUME NEW i \in DOMAIN t, NEW j \in DOMAIN t, i < j PROVE t[i].at <= t[j].at
  <2>1. i \in 1..Len(s) /\ t[i] = s[i]
    BY <1>2, <1>5
  <2>2. CASE j = Len(s) + 1
    BY <1>2, <1>3, <2>1, <2>2
  <2>3. CASE j # Len(s) + 1
    <3>1. j \in 1..Len(s) /\ t[j] = s[j]
      BY <1>2, <2>3
    <3>2. s[i].at <= s[j].at
      BY <1>2, <1>5, <2>1, <3>1 DEF InOrder
    <3> QED BY <2>1, <3>1, <3>2
  <2> QED BY <2>2, <2>3
<1> QED BY <1>1, <1>4, <1>5 DEF InOrder

(* A charge adds to one key, in its total or its window. *)
LEMMA ChargeKeeps ==
  ASSUME TypeOK, Window = NoWindow \/ Window \in Nat, LedgerExact,
         NEW k \in Keys, NEW delta \in Spend, NEW ok, Charge(k, delta, ok)
  PROVE  TypeOK' /\ LedgerExact'
<1>1. PICK e : e = [at |-> now, spend |-> delta]
  OBVIOUS
<1>2. now \in Int /\ now' = now /\ e \in Entry /\ e.at = now /\ e.spend = delta
  BY <1>1 DEF Charge, TypeOK, Entry
<1>3. charged' = [charged EXCEPT ![k] = Append(charged[k], e)]
  BY <1>1 DEF Charge
<1>4. charged[k] \in Seq(Entry) /\ events[k] \in Seq(Entry) /\ totals[k] \in Spend
      /\ Append(charged[k], e) \in Seq(Entry) /\ Append(events[k], e) \in Seq(Entry)
  BY <1>2 DEF TypeOK
<1>5. charged' \in [Keys -> Seq(Entry)]
  BY <1>3, <1>4 DEF TypeOK
<1>6. InOrder(Append(charged[k], e), now)
  BY <1>2, <1>4, InOrderAppend DEF LedgerExact, Exact
<1>7. ASSUME NEW h \in Keys PROVE InOrder(charged'[h], now)
  <2>1. CASE h = k
    BY <1>3, <1>6, <2>1 DEF TypeOK
  <2>2. CASE h # k
    BY <1>3, <2>2 DEF TypeOK, LedgerExact, Exact
  <2> QED BY <2>1, <2>2
<1>8. CASE Window = NoWindow
  <2>1. totals' = [totals EXCEPT ![k] = Add(totals[k], delta)] /\ events' = events
    BY <1>8 DEF Charge
  <2>2. Add(totals[k], delta) \in Spend
    BY <1>4, AddSpend
  <2>3. TypeOK'
    BY <1>2, <1>5, <2>1, <2>2 DEF TypeOK
  <2>4. Total(Append(charged[k], e)) = Add(Total(charged[k]), delta)
    BY <1>2, <1>4, TotalAppend
  <2>5. ASSUME NEW h \in Keys PROVE totals'[h] = Total(charged'[h])
    <3>1. totals[h] = Total(charged[h])
      BY <1>8 DEF LedgerExact, Exact
    <3>2. CASE h = k
      <4>1. totals'[h] = Add(totals[k], delta) /\ charged'[h] = Append(charged[k], e)
        BY <1>3, <2>1, <3>2 DEF TypeOK
      <4> QED BY <2>4, <3>1, <3>2, <4>1
    <3>3. CASE h # k
      <4>1. totals'[h] = totals[h] /\ charged'[h] = charged[h]
        BY <1>3, <2>1, <3>3 DEF TypeOK
      <4> QED BY <3>1, <4>1
    <3> QED BY <3>2, <3>3
  <2>6. \A h \in Keys : Exact(h)'
    BY <1>2, <1>7, <1>8, <2>5 DEF Exact
  <2> QED BY <2>3, <2>6 DEF LedgerExact
<1>9. CASE Window # NoWindow
  <2>1. /\ events' = [events EXCEPT ![k] = Pruned(Append(events[k], e))] /\ totals' = totals
    BY <1>1, <1>9 DEF Charge
  <2>2. Pruned(Append(events[k], e)) \in Seq(Entry) /\ Window \in Nat
    BY <1>2, <1>4, <1>9, PrunedIs
  <2>3. TypeOK'
    BY <1>2, <1>5, <2>1, <2>2 DEF TypeOK
  <2>4. Holds(events[k], charged[k], now - Window)
    BY <1>9 DEF LedgerExact, Exact
  <2>5. Holds(Append(events[k], e), Append(charged[k], e), now - Window)
    BY <1>2, <1>4, <2>4, HoldsAppend
  <2>6. Holds(Pruned(Append(events[k], e)), Append(charged[k], e), now - Window)
    BY <1>2, <1>4, <2>2, <2>5, HoldsPruned
  <2>7. ASSUME NEW h \in Keys PROVE Holds(events'[h], charged'[h], now - Window)
    <3>1. CASE h = k
      <4>1. events'[h] = Pruned(Append(events[k], e)) /\ charged'[h] = Append(charged[k], e)
        BY <1>3, <2>1, <3>1 DEF TypeOK
      <4> QED BY <2>6, <4>1
    <3>2. CASE h # k
      <4>1. events'[h] = events[h] /\ charged'[h] = charged[h]
        BY <1>3, <2>1, <3>2 DEF TypeOK
      <4> QED BY <1>9, <4>1 DEF LedgerExact, Exact
    <3> QED BY <3>1, <3>2
  <2>8. \A h \in Keys : Exact(h)'
    BY <1>2, <1>7, <1>9, <2>7 DEF Exact
  <2> QED BY <2>3, <2>8 DEF LedgerExact
<1> QED BY <1>8, <1>9

(* A reset forgets one key. *)
LEMMA ResetKeeps ==
  ASSUME TypeOK, LedgerExact, NEW k \in Keys, Reset(k)
  PROVE  TypeOK' /\ LedgerExact'
<1>1. /\ totals' = [totals EXCEPT ![k] = NoSpend] /\ events' = [events EXCEPT ![k] = << >>]
      /\ charged' = [charged EXCEPT ![k] = << >>] /\ now' = now
  BY DEF Reset
<1>2. NoSpend \in Spend
  BY DEF NoSpend, Spend
<1>3. TypeOK'
  BY <1>1, <1>2 DEF TypeOK
<1>4. ASSUME NEW h \in Keys PROVE Exact(h)'
  <2>1. CASE h = k
    <3>1. totals'[h] = NoSpend /\ events'[h] = << >> /\ charged'[h] = << >>
      BY <1>1, <2>1 DEF TypeOK
    <3>2. InOrder(<< >>, now) /\ Holds(<< >>, << >>, now - Window)
      BY DEF InOrder, Holds
    <3> QED BY <1>1, <3>1, <3>2, TotalEmpty DEF Exact
  <2>2. CASE h # k
    <3>1. totals'[h] = totals[h] /\ events'[h] = events[h] /\ charged'[h] = charged[h]
      BY <1>1, <2>2 DEF TypeOK
    <3> QED BY <1>1, <3>1 DEF LedgerExact, Exact
  <2> QED BY <2>1, <2>2
<1> QED BY <1>3, <1>4 DEF LedgerExact

(* Time passing leaves everything where it is. *)
LEMMA ClockKeeps ==
  ASSUME TypeOK, Window = NoWindow \/ Window \in Nat, LedgerExact,
         now' \in Int, now <= now', UNCHANGED <<totals, events, charged>>
  PROVE  TypeOK' /\ LedgerExact'
<1>1. TypeOK'
  BY DEF TypeOK
<1>2. PICK later : later = now'
  OBVIOUS
<1>5. later \in Int /\ now <= later
  BY <1>2
<1>3. now \in Int
  BY DEF TypeOK
<1>4. ASSUME NEW h \in Keys PROVE Exact(h)'
  <2>1. InOrder(charged[h], later)
    <3>1. PICK s \in Seq(Entry) : s = charged[h]
      BY DEF TypeOK
    <3>2. InOrder(s, now)
      BY <3>1 DEF LedgerExact, Exact
    <3>3. \A i \in DOMAIN s : s[i] \in Entry
      OBVIOUS
    <3>4. \A i \in DOMAIN s : s[i].at \in Int
      BY <3>3 DEF Entry
    <3>5. \A i \in DOMAIN s : s[i].at <= later
      BY <1>3, <1>5, <3>2, <3>4 DEF InOrder
    <3> QED BY <3>1, <3>2, <3>5 DEF InOrder
  <2>2. ASSUME Window # NoWindow PROVE Holds(events[h], charged[h], later - Window)
    <3>1. Window \in Nat
      BY <2>2
    <3>2. now - Window \in Int /\ later - Window \in Int /\ now - Window <= later - Window
      BY <1>3, <1>5, <3>1
    <3>3. Holds(events[h], charged[h], now - Window) /\ charged[h] \in Seq(Entry)
      BY <2>2 DEF LedgerExact, Exact, TypeOK
    <3> QED BY <3>2, <3>3, HoldsLater
  <2> QED BY <1>2, <2>1, <2>2 DEF LedgerExact, Exact
<1> QED BY <1>1, <1>4 DEF LedgerExact

(* Nothing is spent at the start. *)
LEMMA InitExact ==
  ASSUME Init PROVE TypeOK /\ LedgerExact
<1>1. NoSpend \in Spend
  BY DEF NoSpend, Spend
<1>2. TypeOK
  BY <1>1 DEF Init, TypeOK
<1>3. ASSUME NEW h \in Keys PROVE Exact(h)
  <2>1. totals[h] = NoSpend /\ events[h] = << >> /\ charged[h] = << >>
    BY DEF Init
  <2>2. InOrder(<< >>, now) /\ Holds(<< >>, << >>, now - Window)
    BY DEF InOrder, Holds
  <2> QED BY <2>1, <2>2, TotalEmpty DEF Exact
<1> QED BY <1>2, <1>3 DEF LedgerExact
-----------------------------------------------------------------------------
IInv == TypeOK /\ LedgerExact

(* The types and what windows hold are kept by every step. *)
LEMMA StepKeeps ==
  ASSUME BudgetAssumption, IInv, [Next]_vars
  PROVE  IInv'
<1>1. Window = NoWindow \/ Window \in Nat
  BY DEF BudgetAssumption
<1>2. ASSUME NEW k \in Keys, NEW ok \in BOOLEAN, Check(k, ok) PROVE IInv'
  BY <1>1, <1>2, CheckKeeps DEF IInv
<1>3. ASSUME NEW k \in Keys, NEW delta \in Deltas, NEW ok \in BOOLEAN, Charge(k, delta, ok)
      PROVE  IInv'
  <2>1. delta \in Spend
    BY DEF BudgetAssumption
  <2> QED BY <1>1, <1>3, <2>1, ChargeKeeps DEF IInv
<1>4. ASSUME NEW k \in Keys, Reset(k) PROVE IInv'
  BY <1>4, ResetKeeps DEF IInv
<1>5. CASE Tick
  <2>1. now' \in Int /\ now <= now' /\ UNCHANGED <<totals, events, charged>>
    BY <1>5 DEF Tick, IInv, TypeOK
  <2> QED BY <1>1, <2>1, ClockKeeps DEF IInv
<1>6. CASE UNCHANGED vars
  <2>1. now' \in Int /\ now <= now' /\ UNCHANGED <<totals, events, charged>>
    BY <1>6 DEF vars, IInv, TypeOK
  <2> QED BY <1>1, <2>1, ClockKeeps DEF IInv
<1> QED BY <1>2, <1>3, <1>4, <1>5, <1>6 DEF Next

(* Every behaviour of the ledger keeps both. *)
LEMMA Invariance == ASSUME BudgetAssumption PROVE Spec => []IInv
<1>1. Init => IInv
  BY InitExact DEF IInv
<1>2. IInv /\ [Next]_vars => IInv'
  BY StepKeeps
<1> QED BY <1>1, <1>2, PTL DEF Spec

(* The ledger keeps its types: totals and charges are spends, windows are  *)
(* lists of stamped charges.                                               *)
THEOREM TypeCorrect == ASSUME BudgetAssumption PROVE Spec => []TypeOK
<1>1. IInv => TypeOK
  BY DEF IInv
<1> QED BY <1>1, Invariance, PTL

(* In any state with the invariant, before a step or after it, the spend   *)
(* is exact.                                                               *)
LEMMA ExactBefore ==
  ASSUME BudgetAssumption
  PROVE  (IInv => SpendExact) /\ (IInv' => SpendExact')
<1>1. IInv => SpendExact
  BY SpendIsExact DEF IInv, LedgerExact, SpendExact, BudgetAssumption
<1>2. IInv' => SpendExact'
  BY <1>1, PTL
<1> QED BY <1>1, <1>2

(* For a cumulative budget and for a rolling window of any length: the     *)
(* spend a gate sees is the sum of the charges that count, however checks, *)
(* charges, resets and the clock interleave.                               *)
THEOREM LazyPruningExact == ASSUME BudgetAssumption PROVE Spec => []SpendExact
BY ExactBefore, Invariance, PTL

(* A charge made now adds what it spent to what a gate sees. *)
LEMMA ChargeAdds ==
  ASSUME BudgetAssumption, IInv, IInv', now' = now, NEW k \in Keys, NEW spend \in Spend,
         charged'[k] = Append(charged[k], [at |-> now, spend |-> spend])
  PROVE  Current(k)' = Add(Current(k), spend) /\ Current(k) \in Spend
<1>1. PICK s \in Seq(Entry) : s = charged[k]
  BY DEF IInv, TypeOK
<1>2. PICK e : e = [at |-> now, spend |-> spend]
  OBVIOUS
<1>3. now \in Int /\ (Window = NoWindow \/ Window \in Nat)
  BY DEF IInv, TypeOK, BudgetAssumption
<1>4. /\ e \in Entry /\ e.spend = spend
      /\ Counted(Append(s, e)) = Append(Counted(s), e) /\ Counted(s) \in Seq(Entry)
  BY <1>2, <1>3, CountedTyped
<1>5. Current(k) = Total(Counted(s))
  BY <1>1, <1>3, SpendIsExact DEF IInv, LedgerExact
<1>6. Current(k)' = Total(Counted(charged[k]))'
  BY ExactBefore DEF SpendExact
<1>7. Counted(charged[k])' = Counted(Append(s, e))
  BY <1>1, <1>2 DEF Counted, Counts
<1>8. Current(k)' = Total(Append(Counted(s), e))
  BY <1>4, <1>6, <1>7 DEF Total
<1> QED BY <1>4, <1>5, <1>8, TotalAppend

(* What a step may do to the spend of a key. *)
LEMMA StepStands ==
  ASSUME BudgetAssumption, IInv, IInv', [Next]_vars, NEW k \in Keys
  PROVE  /\ charged'[k] = Append(charged[k], [at |-> now, spend |-> OneCall])
              => (Admits(k) <=> ~Violates(Current(k))')
         /\ now' = now /\ charged'[k] # << >>
              => \A d \in Dims : Current(k)'[d] >= Current(k)[d]
<1>1. charged[k] \in Seq(Entry) /\ Current(k) \in Spend
  <2>1. charged[k] \in Seq(Entry) /\ now \in Int /\ (Window = NoWindow \/ Window \in Nat)
    BY DEF IInv, TypeOK, BudgetAssumption
  <2>2. Counted(charged[k]) \in Seq(Entry)
    BY <2>1, CountedTyped
  <2>3. PICK e \in Entry : e = [at |-> now, spend |-> NoSpend]
    BY <2>1 DEF Entry, Spend, NoSpend
  <2>4. Current(k) = Total(Counted(charged[k]))
    BY ExactBefore DEF SpendExact
  <2> QED BY <2>1, <2>2, <2>3, <2>4, TotalAppend
<1>2. \/ charged'[k] = charged[k]
      \/ charged'[k] = << >>
      \/ /\ now' = now
         /\ \E delta \in Spend : charged'[k] = Append(charged[k], [at |-> now, spend |-> delta])
  <2>1. charged \in [Keys -> Seq(Entry)] /\ Deltas \subseteq Spend
    BY DEF IInv, TypeOK, BudgetAssumption
  <2>2. ASSUME NEW h \in Keys, NEW delta \in Deltas, NEW ok, Charge(h, delta, ok)
        PROVE  \/ charged'[k] = charged[k]
               \/ /\ now' = now
                  /\ charged'[k] = Append(charged[k], [at |-> now, spend |-> delta])
    <3>1. /\ charged' = [charged EXCEPT ![h] = Append(charged[h], [at |-> now, spend |-> delta])]
          /\ now' = now
      BY <2>2 DEF Charge
    <3> QED BY <2>1, <3>1
  <2>3. ASSUME NEW h \in Keys, Reset(h)
        PROVE  charged'[k] = charged[k] \/ charged'[k] = << >>
    BY <2>1, <2>3 DEF Reset
  <2> QED BY <2>1, <2>2, <2>3 DEF Next, vars, Check, Read, Tick
<1>3. ASSUME NEW x PROVE Append(charged[k], x) # charged[k] /\ Append(charged[k], x) # << >>
  <2>1. Len(Append(charged[k], x)) = Len(charged[k]) + 1 /\ Len(charged[k]) \in Nat
    BY <1>1
  <2> QED BY <2>1
<1>4. ASSUME NEW delta \in Spend, now' = now,
             charged'[k] = Append(charged[k], [at |-> now, spend |-> delta])
      PROVE  Current(k)' = Add(Current(k), delta)
  BY <1>4, ChargeAdds
<1>5. ASSUME charged'[k] = Append(charged[k], [at |-> now, spend |-> OneCall])
      PROVE  Admits(k) <=> ~Violates(Current(k))'
  <2>1. now' = now
    BY <1>2, <1>3, <1>5
  <2>2. OneCall \in Spend
    BY DEF OneCall, Spend, Dims
  <2>3. Current(k)' = Add(Current(k), OneCall)
    BY <1>4, <1>5, <2>1, <2>2
  <2> QED BY <2>3 DEF Admits, Violates
<1>6. ASSUME now' = now, charged'[k] # << >>, NEW d \in Dims
      PROVE  Current(k)'[d] >= Current(k)[d]
  <2>1. Current(k)[d] \in Nat
    BY <1>1 DEF Spend
  <2>2. CASE charged'[k] = charged[k]
    <3>1. Current(k) = Total(Counted(charged[k]))
      BY ExactBefore DEF SpendExact
    <3>2. Current(k)' = Total(Counted(charged[k]))'
      BY ExactBefore DEF SpendExact
    <3>3. Total(Counted(charged[k]))' = Total(Counted(charged[k]))
      BY <1>6, <2>2 DEF Total, Counted, Counts
    <3> QED BY <2>1, <3>1, <3>2, <3>3
  <2>3. ASSUME NEW delta \in Spend,
               charged'[k] = Append(charged[k], [at |-> now, spend |-> delta])
        PROVE  Current(k)'[d] >= Current(k)[d]
    <3>1. Current(k)' = Add(Current(k), delta)
      BY <1>4, <1>6, <2>3
    <3>2. Current(k)'[d] = Current(k)[d] + delta[d] /\ delta[d] \in Nat
      BY <1>1, <3>1, AddSpend DEF Spend
    <3> QED BY <2>1, <3>2
  <2> QED BY <1>2, <1>6, <2>2, <2>3
<1> QED BY <1>5, <1>6

(* Spend is given back only by leaving the window or by a reset, and a     *)
(* check admits a call exactly when charging it would not raise.           *)
THEOREM SpendStands == ASSUME BudgetAssumption PROVE Spec => ChargesStand
<1>1. IInv /\ IInv' /\ [Next]_vars =>
        /\ [\A k \in Keys : (now' = now /\ charged'[k] # << >>) =>
              \A d \in Dims : Current(k)'[d] >= Current(k)[d]]_vars
        /\ [\A k \in Keys : charged'[k] = Append(charged[k], [at |-> now, spend |-> OneCall])
              => (Admits(k) <=> ~Violates(Current(k))')]_vars
  BY StepStands
<1> QED BY <1>1, Invariance, PTL DEF Spec, ChargesStand, NoRefund, CheckAgreesWithCharge
=============================================================================
