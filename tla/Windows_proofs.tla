---------------------------- MODULE Windows_proofs ----------------------------
(***************************************************************************)
(* The parts that remember for a while: the channel, for any number of     *)
(* agents, messages and verifying threads, whatever the network delivers;  *)
(* and the behaviour monitor, for any agents, actions, window and finite   *)
(* number of threads that record into it, however they overlap.            *)
(***************************************************************************)
EXTENDS Windows, FiniteSetTheorems, FunctionTheorems, WellFoundedInduction, TLAPS

Reads == [ttl : Nat, clock : Nat]
Deliveries == [msg : Message, at : Nat]

Types ==
  /\ now \in 0..MaxTime /\ era \in DOMAIN Authority
  /\ sent \in [Ids -> Message \cup {Nothing}]
  /\ \A id \in Ids : sent[id] # Nothing => sent[id].id = id
  /\ DOMAIN seen \subseteq Ids /\ \A id \in DOMAIN seen : seen[id] \in Nat
  /\ pc \in [Threads -> {"idle", "ttl", "clock", "consume"}]
  /\ msg \in [Threads -> Message \cup {Nothing}]
  /\ \A t \in Threads : pc[t] = "idle" <=> msg[t] = Nothing
  /\ read \in [Threads -> Reads]
  /\ \A t \in Threads : read[t].clock <= now
  /\ accepted \in Seq(Deliveries)

(* What a thread verifies is a message that was sent; once it has read a   *)
(* ttl that ttl still reaches the end of the message's life, and so does   *)
(* the ttl added to the clock it reads after it.                           *)
Verifying ==
  \A t \in Threads :
    /\ pc[t] # "idle" => sent[msg[t].id] = msg[t]
    /\ pc[t] = "clock" => msg[t].expires_at <= now + read[t].ttl
    /\ pc[t] = "consume" => msg[t].expires_at <= read[t].clock + read[t].ttl

(* A message accepted while it lived is remembered until it expires. *)
Remembered ==
  \A i \in DOMAIN accepted :
    LET m == accepted[i].msg IN
    /\ accepted[i].at <= now /\ sent[m.id] = m
    /\ now < m.expires_at => m.id \in DOMAIN seen /\ m.expires_at <= seen[m.id]

InLife(i) == accepted[i].at < accepted[i].msg.expires_at

Once ==
  \A i, j \in DOMAIN accepted :
    accepted[i].msg.id = accepted[j].msg.id /\ InLife(i) /\ InLife(j) => i = j

IInv == Types /\ Verifying /\ Remembered /\ Once
-----------------------------------------------------------------------------
(* A message put into the network is one that was sent, or a message with  *)
(* other claims in it: a message either way.                               *)
LEMMA DeliverableTyped ==
  ASSUME ChannelAssumption, Types, NEW m \in Deliverable
  PROVE  m \in Message
<1>1. CASE m \in {sent[id] : id \in {i \in Ids : sent[i] # Nothing}}
  BY <1>1 DEF Types
<1>2. CASE m \in {[sent[p[1]] EXCEPT !.capabilities = p[2]] :
                    p \in {i \in Ids : sent[i] # Nothing} \X Requests}
  <2>1. PICK id \in Ids : \E caps \in Requests :
               /\ sent[id] # Nothing /\ m = [sent[id] EXCEPT !.capabilities = caps]
    BY <1>2
  <2>2. sent[id] \in Message
    BY <2>1 DEF Types
  <2> QED BY <2>1, <2>2 DEF Message
<1> QED BY <1>1, <1>2 DEF Deliverable

(* A thread at work verifies a message. *)
LEMMA Held ==
  ASSUME ChannelAssumption, Types, NEW t \in Threads, pc[t] # "idle"
  PROVE  /\ msg[t] \in Message /\ msg[t].id \in Ids /\ msg[t].expires_at \in Int
         /\ read[t] \in Reads /\ read[t].ttl \in Nat /\ read[t].clock \in Nat
         /\ read[t].clock <= now /\ now \in Nat
<1>1. msg[t] \in Message
  BY DEF Types
<1>2. read[t] \in Reads /\ read[t].clock <= now /\ now \in Nat
  BY DEF Types, ChannelAssumption
<1> QED BY <1>1, <1>2 DEF Message, Reads

(* A nonce lives at least as long as the message it belongs to. *)
LEMMA TtlReaches ==
  ASSUME NEW m, m.expires_at \in Int, now \in Nat
  PROVE  NonceTtl(m) \in Nat /\ m.expires_at <= now + NonceTtl(m)
BY DEF NonceTtl

(* What consuming a nonce leaves in the store: an entry that is pruned had *)
(* run out by the clock the thread read, the others stay as they were, and *)
(* the thread's own is there until its message expires.                    *)
LEMMA Consumed ==
  ASSUME ChannelAssumption, Types, Verifying, NEW t \in Threads, Consume(t)
  PROVE  /\ DOMAIN seen' \subseteq Ids /\ \A id \in DOMAIN seen' : seen'[id] \in Nat
         /\ \A id \in DOMAIN seen : \/ id \in DOMAIN seen' /\ seen'[id] = seen[id]
                                    \/ seen[id] <= now
         /\ msg[t].id \in DOMAIN seen'
         /\ msg[t].id \notin Live(read[t].clock) => msg[t].expires_at <= seen'[msg[t].id]
<1> DEFINE live == Live(read[t].clock)
           until == read[t].clock + read[t].ttl
<1>1. PICK id : id = msg[t].id
  OBVIOUS
<1>2. /\ id \in Ids /\ until \in Nat /\ msg[t].expires_at <= until
      /\ read[t].clock \in Nat /\ read[t].clock <= now /\ now \in Nat
  BY <1>1, Held DEF Consume, Verifying
<1>3. seen' = [n \in live \cup {id} |-> IF n \in live THEN seen[n] ELSE until]
  BY <1>1 DEF Consume
<1>4. live \subseteq DOMAIN seen /\ \A n \in DOMAIN seen : n \in live <=> read[t].clock < seen[n]
  BY <1>2 DEF Live, Types
<1>5. DOMAIN seen \subseteq Ids /\ \A n \in DOMAIN seen : seen[n] \in Nat
  BY DEF Types
<1> HIDE DEF live, until
<1>6. DOMAIN seen' = live \cup {id} /\ \A n \in DOMAIN seen' : seen'[n] = IF n \in live THEN seen[n] ELSE until
  BY <1>3
<1>7. DOMAIN seen' \subseteq Ids /\ \A n \in DOMAIN seen' : seen'[n] \in Nat
  BY <1>2, <1>4, <1>5, <1>6
<1>8. ASSUME NEW n \in DOMAIN seen
      PROVE  \/ n \in DOMAIN seen' /\ seen'[n] = seen[n]
             \/ seen[n] <= now
  BY <1>2, <1>4, <1>5, <1>6
<1>9. id \in DOMAIN seen' /\ (id \notin live => msg[t].expires_at <= seen'[id])
  BY <1>2, <1>6
<1> QED BY <1>1, <1>7, <1>8, <1>9 DEF live
-----------------------------------------------------------------------------
(* The first state. *)
LEMMA InitHolds == ASSUME ChannelAssumption, Init PROVE IInv
<1>1. Types
  <2>1. now \in 0..MaxTime /\ era \in DOMAIN Authority
    BY DEF Init, ChannelAssumption
  <2>2. DOMAIN seen = {} /\ accepted \in Seq(Deliveries)
    BY DEF Init
  <2> QED BY <2>1, <2>2 DEF Init, Types, Reads
<1>2. DOMAIN accepted = {}
  BY DEF Init
<1> QED BY <1>1, <1>2 DEF Init, IInv, Verifying, Remembered, Once

(* Every step keeps the types. *)
LEMMA TypesKept ==
  ASSUME ChannelAssumption, Types, Verifying, [Next]_vars
  PROVE  Types'
<1>0. now \in Nat /\ MaxTime \in Nat /\ Len(Authority) \in Nat /\ DOMAIN Authority = 1..Len(Authority)
  BY DEF Types, ChannelAssumption
<1>1. CASE UNCHANGED vars
  BY <1>1 DEF Types, vars
<1>2. ASSUME NEW id \in Ids, NEW s \in Agents, NEW r \in Agents, NEW caps \in Requests,
             NEW ttl \in Ttls, Send(id, s, r, caps, ttl)
      PROVE  Types'
  <2>1. PICK m : /\ m = [id |-> id, sender |-> s, recipient |-> r, capabilities |-> caps,
                         expires_at |-> now + (IF ttl = 0 THEN DefaultTtl ELSE ttl)]
                 /\ sent' = [sent EXCEPT ![id] = m]
    BY <1>2 DEF Send
  <2>2. m \in Message /\ m.id = id
    BY <1>0, <2>1 DEF Message, ChannelAssumption
  <2>3. sent' \in [Ids -> Message \cup {Nothing}]
        /\ \A i \in Ids : sent'[i] # Nothing => sent'[i].id = i
    BY <2>1, <2>2 DEF Types
  <2>4. UNCHANGED <<now, era, seen, pc, msg, read, accepted>>
    BY <1>2 DEF Send
  <2> QED BY <2>3, <2>4 DEF Types
<1>3. ASSUME NEW t \in Threads, NEW m \in Deliverable, NEW r \in Agents, Check(t, m, r)
      PROVE  Types'
  <2>1. m \in Message /\ m # Nothing
    BY DeliverableTyped DEF ChannelAssumption
  <2> QED BY <1>3, <2>1 DEF Types, Check
<1>4. ASSUME NEW t \in Threads, ReadTtl(t)
      PROVE  Types'
  <2>1. NonceTtl(msg[t]) \in Nat
    BY <1>4, Held, TtlReaches DEF ReadTtl
  <2>2. read' \in [Threads -> Reads] /\ \A u \in Threads : read'[u].clock <= now
    BY <1>4, <2>1 DEF ReadTtl, Types, Reads
  <2> QED BY <1>4, <2>2 DEF ReadTtl, Types
<1>5. ASSUME NEW t \in Threads, ReadClock(t)
      PROVE  Types'
  <2>1. read' \in [Threads -> Reads] /\ \A u \in Threads : read'[u].clock <= now
    <3>1. read[t] \in Reads
      BY DEF Types
    <3>2. [read[t] EXCEPT !.clock = now] \in Reads /\ [read[t] EXCEPT !.clock = now].clock = now
      BY <1>0, <3>1 DEF Reads
    <3>3. read' = [read EXCEPT ![t] = [read[t] EXCEPT !.clock = now]]
      BY <1>5 DEF ReadClock
    <3> QED BY <1>0, <3>2, <3>3 DEF Types
  <2> QED BY <1>5, <2>1 DEF ReadClock, Types
<1>6. ASSUME NEW t \in Threads, Consume(t)
      PROVE  Types'
  <2>1. DOMAIN seen' \subseteq Ids /\ \A id \in DOMAIN seen' : seen'[id] \in Nat
    BY <1>6, Consumed
  <2>2. accepted' \in Seq(Deliveries)
    <3>1. msg[t] \in Message /\ accepted \in Seq(Deliveries)
      BY <1>6, Held DEF Consume, Types
    <3>2. [msg |-> msg[t], at |-> now] \in Deliveries
      BY <1>0, <3>1 DEF Deliveries
    <3> QED BY <1>6, <3>1, <3>2 DEF Consume
  <2>3. /\ read' \in [Threads -> Reads] /\ \A u \in Threads : read'[u].clock <= now
        /\ pc' = [pc EXCEPT ![t] = "idle"] /\ msg' = [msg EXCEPT ![t] = Nothing]
    BY <1>0, <1>6 DEF Consume, Return, Types, Reads
  <2>4. UNCHANGED <<now, era, sent>>
    BY <1>6 DEF Consume
  <2> QED BY <2>1, <2>2, <2>3, <2>4 DEF Types
<1>7. CASE Regrant
  BY <1>0, <1>7 DEF Regrant, Types
<1>8. CASE Tick
  <2>1. now' \in 0..MaxTime /\ \A t \in Threads : read[t].clock <= now'
    BY <1>0, <1>8 DEF Tick, Types, Reads
  <2> QED BY <1>8, <2>1 DEF Tick, Types
<1> QED BY <1>1, <1>2, <1>3, <1>4, <1>5, <1>6, <1>7, <1>8 DEF Next

(* A message, once sent, stays what it is, and the clock only advances. *)
LEMMA SentStays ==
  ASSUME ChannelAssumption, Types, [Next]_vars
  PROVE  /\ now \in Nat /\ now' \in Nat /\ now <= now'
         /\ \A id \in Ids : sent[id] # Nothing => sent'[id] = sent[id]
<1>1. now \in Nat
  BY DEF Types, ChannelAssumption
<1>2. CASE UNCHANGED <<now, sent>>
  BY <1>1, <1>2
<1>3. CASE Tick
  BY <1>1, <1>3 DEF Tick
<1>4. CASE \E id \in Ids, s, r \in Agents, caps \in Requests, ttl \in Ttls : Send(id, s, r, caps, ttl)
  BY <1>1, <1>4 DEF Send, Types
<1> QED BY <1>2, <1>3, <1>4 DEF Next, Check, ReadTtl, ReadClock, Consume, Regrant, vars

(* A sent message is not Nothing and is known under its own id. *)
LEMMA SentTyped ==
  ASSUME ChannelAssumption, Types, NEW m, m # Nothing, m \in Message \/ m.id \in Ids, sent[m.id] = m
  PROVE  m.id \in Ids /\ m \in Message /\ m.expires_at \in Int
BY DEF Types, Message

(* A thread takes up a message that was sent, and the message's life still *)
(* fits in what it has read, whatever the other threads do.                *)
LEMMA VerifyingKept ==
  ASSUME ChannelAssumption, Types, Verifying, [Next]_vars
  PROVE  Verifying'
<1> SUFFICES ASSUME NEW u \in Threads
             PROVE  /\ pc'[u] # "idle" => sent'[msg'[u].id] = msg'[u]
                    /\ pc'[u] = "clock" => msg'[u].expires_at <= now' + read'[u].ttl
                    /\ pc'[u] = "consume" => msg'[u].expires_at <= read'[u].clock + read'[u].ttl
  BY DEF Verifying
<1>0. /\ now \in Nat /\ now' \in Nat /\ now <= now'
      /\ \A id \in Ids : sent[id] # Nothing => sent'[id] = sent[id]
  BY SentStays
<1>1. CASE pc'[u] = pc[u] /\ msg'[u] = msg[u] /\ read'[u] = read[u]
  <2>1. CASE pc[u] = "idle"
    BY <1>1, <2>1
  <2>2. CASE pc[u] # "idle"
    <3>1. /\ msg[u] \in Message /\ msg[u].id \in Ids /\ msg[u].expires_at \in Int
          /\ read[u].ttl \in Nat
      BY <2>2, Held
    <3>2. sent[msg[u].id] = msg[u] /\ msg[u] # Nothing
      BY <2>2, <3>1 DEF Verifying, ChannelAssumption
    <3>3. pc[u] = "clock" => msg[u].expires_at <= now' + read[u].ttl
      BY <1>0, <3>1 DEF Verifying
    <3> QED BY <1>0, <1>1, <3>1, <3>2, <3>3 DEF Verifying
  <2> QED BY <2>1, <2>2
<1>2. ASSUME NEW m \in Deliverable, NEW r \in Agents, Check(u, m, r)
      PROVE  sent'[msg'[u].id] = msg'[u] /\ pc'[u] = "ttl"
  BY <1>2 DEF Check, Authentic, Types
<1>3. ASSUME ReadTtl(u)
      PROVE  /\ sent'[msg'[u].id] = msg'[u] /\ pc'[u] = "clock"
             /\ msg'[u].expires_at <= now' + read'[u].ttl
  <2>1. msg[u].expires_at \in Int /\ pc[u] # "idle"
    BY <1>3, Held DEF ReadTtl
  <2>2. msg[u].expires_at <= now + NonceTtl(msg[u])
    BY <1>0, <2>1, TtlReaches
  <2>3. read'[u].ttl = NonceTtl(msg[u])
    BY <1>3 DEF ReadTtl, Types, Reads
  <2> QED BY <1>3, <2>1, <2>2, <2>3 DEF ReadTtl, Verifying, Types
<1>4. ASSUME ReadClock(u)
      PROVE  /\ sent'[msg'[u].id] = msg'[u] /\ pc'[u] = "consume"
             /\ msg'[u].expires_at <= read'[u].clock + read'[u].ttl
  <2>1. pc[u] = "clock" /\ read[u] \in Reads
    BY <1>4 DEF ReadClock, Types
  <2>2. read'[u].clock = now /\ read'[u].ttl = read[u].ttl
    BY <1>4, <2>1 DEF ReadClock, Types, Reads
  <2> QED BY <1>4, <2>1, <2>2 DEF ReadClock, Verifying, Types
<1>5. ASSUME Consume(u)
      PROVE  pc'[u] = "idle"
  BY <1>5 DEF Consume, Return, Types
<1>6. ASSUME NEW t \in Threads, t # u,
             \/ \E m \in Deliverable, r \in Agents : Check(t, m, r)
             \/ ReadTtl(t) \/ ReadClock(t) \/ Consume(t)
      PROVE  pc'[u] = pc[u] /\ msg'[u] = msg[u] /\ read'[u] = read[u]
  BY <1>6 DEF Check, ReadTtl, ReadClock, Consume, Return, Types
<1>7. CASE UNCHANGED <<pc, msg, read>>
  BY <1>1, <1>7
<1> QED
  BY <1>1, <1>2, <1>3, <1>4, <1>5, <1>6, <1>7 DEF Next, Send, Regrant, Tick, vars

(* What was accepted is in the log as it was sent. *)
LEMMA AcceptedTyped ==
  ASSUME ChannelAssumption, Types, Remembered, NEW i \in DOMAIN accepted
  PROVE  /\ accepted[i].msg \in Message /\ accepted[i].msg.id \in Ids
         /\ accepted[i].msg.expires_at \in Int /\ accepted[i].at \in Nat
         /\ accepted[i].at <= now /\ sent[accepted[i].msg.id] = accepted[i].msg
         /\ sent[accepted[i].msg.id] # Nothing
<1>1. accepted[i] \in Deliveries
  BY DEF Types
<1>2. accepted[i].msg \in Message /\ accepted[i].at \in Nat
  BY <1>1 DEF Deliveries
<1> QED BY <1>2 DEF Message, Remembered, ChannelAssumption

(* A step that accepts nothing keeps what is remembered, unless it prunes. *)
LEMMA RememberedKept ==
  ASSUME ChannelAssumption, Types, Verifying, Remembered, [Next]_vars
  PROVE  Remembered'
<1>0. /\ now \in Nat /\ now' \in Nat /\ now <= now'
      /\ \A id \in Ids : sent[id] # Nothing => sent'[id] = sent[id]
  BY SentStays
<1>1. CASE UNCHANGED <<accepted, seen>>
  <2> SUFFICES ASSUME NEW i \in DOMAIN accepted, NEW m, m = accepted[i].msg
               PROVE  /\ accepted[i].at <= now' /\ sent'[m.id] = m
                      /\ now' < m.expires_at => m.id \in DOMAIN seen /\ m.expires_at <= seen[m.id]
    BY <1>1 DEF Remembered
  <2>1. /\ m.id \in Ids /\ m.expires_at \in Int /\ accepted[i].at \in Nat
        /\ accepted[i].at <= now /\ sent[m.id] = m /\ sent[m.id] # Nothing
    BY AcceptedTyped
  <2>2. now < m.expires_at => m.id \in DOMAIN seen /\ m.expires_at <= seen[m.id]
    BY DEF Remembered
  <2> QED BY <1>0, <2>1, <2>2
<1>2. ASSUME NEW t \in Threads, Consume(t)
      PROVE  Remembered'
  <2>1. /\ DOMAIN seen' \subseteq Ids /\ \A id \in DOMAIN seen' : seen'[id] \in Nat
        /\ \A id \in DOMAIN seen : \/ id \in DOMAIN seen' /\ seen'[id] = seen[id]
                                   \/ seen[id] <= now
        /\ msg[t].id \in DOMAIN seen'
        /\ msg[t].id \notin Live(read[t].clock) => msg[t].expires_at <= seen'[msg[t].id]
    BY <1>2, Consumed
  <2>2. UNCHANGED <<now, sent>>
    BY <1>2 DEF Consume
  <2>3. ASSUME NEW i \in DOMAIN accepted, NEW m, m = accepted[i].msg
        PROVE  /\ accepted[i].at <= now /\ sent[m.id] = m
               /\ now < m.expires_at => m.id \in DOMAIN seen' /\ m.expires_at <= seen'[m.id]
    <3>1. m.expires_at \in Int /\ accepted[i].at <= now /\ sent[m.id] = m
      BY <2>3, AcceptedTyped
    <3>2. now < m.expires_at => m.id \in DOMAIN seen /\ m.expires_at <= seen[m.id]
      BY <2>3 DEF Remembered
    <3>3. \A id \in DOMAIN seen : seen[id] \in Nat
      BY DEF Types
    <3> QED BY <1>0, <2>1, <3>1, <3>2, <3>3
  <2>4. CASE accepted' = accepted
    BY <2>2, <2>3, <2>4 DEF Remembered
  <2>5. CASE /\ msg[t].id \notin Live(read[t].clock)
             /\ accepted' = Append(accepted, [msg |-> msg[t], at |-> now])
    <3>1. accepted \in Seq(Deliveries)
      BY DEF Types
    <3>2. /\ DOMAIN accepted' = DOMAIN accepted \cup {Len(accepted) + 1}
          /\ \A i \in DOMAIN accepted : accepted'[i] = accepted[i]
          /\ accepted'[Len(accepted) + 1] = [msg |-> msg[t], at |-> now]
      BY <2>5, <3>1
    <3>3. sent[msg[t].id] = msg[t]
      BY <1>2 DEF Consume, Verifying
    <3> QED BY <1>0, <2>1, <2>2, <2>3, <2>5, <3>2, <3>3 DEF Remembered
  <2> QED BY <1>2, <2>4, <2>5 DEF Consume
<1>3. CASE \E t \in Threads : Consume(t)
  BY <1>2, <1>3
<1> QED BY <1>1, <1>3 DEF Next, Send, Check, ReadTtl, ReadClock, Regrant, Tick, vars

(* A message accepted in its life is remembered when it comes again in its *)
(* life, so it is not accepted again.                                      *)
LEMMA OnceKept ==
  ASSUME ChannelAssumption, Types, Verifying, Remembered, Once, [Next]_vars
  PROVE  Once'
<1>1. CASE UNCHANGED accepted
  BY <1>1 DEF Once, InLife
<1>2. ASSUME NEW t \in Threads, Consume(t),
             msg[t].id \notin Live(read[t].clock),
             accepted' = Append(accepted, [msg |-> msg[t], at |-> now])
      PROVE  Once'
  <2>1. accepted \in Seq(Deliveries)
    BY DEF Types
  <2>2. /\ DOMAIN accepted' = DOMAIN accepted \cup {Len(accepted) + 1}
        /\ \A i \in DOMAIN accepted : accepted'[i] = accepted[i]
        /\ accepted'[Len(accepted) + 1] = [msg |-> msg[t], at |-> now]
    BY <1>2, <2>1
  <2>3. ASSUME NEW i \in DOMAIN accepted, accepted[i].msg.id = msg[t].id
        PROVE  ~(now < msg[t].expires_at)
    <3>1. sent[msg[t].id] = msg[t]
      BY <1>2 DEF Consume, Verifying
    <3>2. accepted[i].msg = msg[t]
      BY <2>3, <3>1, AcceptedTyped
    <3>3. /\ read[t].clock \in Nat /\ read[t].clock <= now /\ now \in Nat
          /\ msg[t].expires_at \in Int
      BY <1>2, Held DEF Consume
    <3>4. now < msg[t].expires_at =>
            msg[t].id \in DOMAIN seen /\ msg[t].expires_at <= seen[msg[t].id]
      BY <3>2 DEF Remembered
    <3>5. msg[t].id \in DOMAIN seen => seen[msg[t].id] \in Nat
      BY DEF Types
    <3> QED BY <1>2, <3>3, <3>4, <3>5 DEF Live
  <2> QED BY <2>2, <2>3 DEF Once, InLife
<1>3. CASE \E t \in Threads : Consume(t)
  <2>1. PICK t \in Threads : Consume(t)
    BY <1>3
  <2> QED BY <1>1, <1>2, <2>1 DEF Consume
<1> QED BY <1>1, <1>3 DEF Next, Send, Check, ReadTtl, ReadClock, Regrant, Tick, vars

(* The inductive invariant. *)
LEMMA Inductive == ASSUME ChannelAssumption PROVE Spec => []IInv
<1>1. Init => IInv
  BY InitHolds
<1>2. IInv /\ [Next]_vars => IInv'
  BY TypesKept, VerifyingKept, RememberedKept, OnceKept DEF IInv
<1> QED BY <1>1, <1>2, PTL DEF Spec
-----------------------------------------------------------------------------
(* The store of nonces and the threads' readings stay well formed; no      *)
(* thread's clock is ahead of the channel's.                               *)
THEOREM TypeCorrect == ASSUME ChannelAssumption PROVE Spec => []TypeOK
<1>1. IInv => TypeOK
  <2> SUFFICES ASSUME IInv PROVE TypeOK
    OBVIOUS
  <2>1. /\ now \in 0..MaxTime /\ era \in DOMAIN Authority
        /\ \A id \in Ids : sent[id] # Nothing => sent[id] \in Message /\ sent[id].id = id
        /\ DOMAIN seen \subseteq Ids /\ \A id \in DOMAIN seen : seen[id] \in Nat
    BY DEF IInv, Types
  <2>2. ASSUME NEW t \in Threads
        PROVE  /\ pc[t] \in {"idle", "ttl", "clock", "consume"}
               /\ (pc[t] = "idle") = (msg[t] = Nothing)
               /\ read[t].ttl \in Nat /\ read[t].clock \in 0..now
    <3>1. read[t] \in Reads /\ read[t].clock <= now /\ now \in Nat
      BY DEF IInv, Types, ChannelAssumption
    <3> QED BY <3>1 DEF IInv, Types, Reads
  <2>3. \A i \in DOMAIN accepted : accepted[i].msg \in Message
    <3>1. accepted \in Seq(Deliveries)
      BY DEF IInv, Types
    <3>2. \A i \in DOMAIN accepted : accepted[i] \in Deliveries
      BY <3>1
    <3> QED BY <3>2 DEF Deliveries
  <2> QED BY <2>1, <2>2, <2>3 DEF TypeOK
<1> QED BY <1>1, Inductive, PTL

(* A2AChannel.verify: as long as a message lives it is accepted at most    *)
(* once, and only as it was sent, by however many threads at once and      *)
(* however late each takes the lock of the nonce store.                    *)
THEOREM NoReplay == ASSUME ChannelAssumption PROVE Spec => []AcceptedOnceAsSent
<1>1. IInv => AcceptedOnceAsSent
  <2> SUFFICES ASSUME IInv PROVE AcceptedOnceAsSent
    OBVIOUS
  <2>1. AcceptedAsSent
    BY DEF IInv, Remembered, AcceptedAsSent
  <2>2. ASSUME NEW id \in Ids
        PROVE  Cardinality({i \in Acceptances(id) : accepted[i].at < accepted[i].msg.expires_at}) <= 1
    <3> DEFINE S == {i \in Acceptances(id) : accepted[i].at < accepted[i].msg.expires_at}
    <3>1. ASSUME NEW i \in S, NEW j \in S
          PROVE  i = j
      <4>1. /\ i \in DOMAIN accepted /\ j \in DOMAIN accepted /\ InLife(i) /\ InLife(j)
            /\ accepted[i].msg.id = id /\ accepted[j].msg.id = id
        BY DEF Acceptances, InLife
      <4>2. Once
        BY DEF IInv
      <4> HIDE DEF S
      <4> QED BY <4>1, <4>2, Zenon DEF Once
    <3> HIDE DEF S
    <3>2. ASSUME NEW i \in S
          PROVE  Cardinality(S) = 1
      <4>1. S = {i}
        BY <3>1
      <4> QED BY <4>1, FS_Singleton
    <3>3. Cardinality(S) <= 1
      BY <3>2, FS_EmptySet
    <3> QED BY <3>3 DEF S
  <2> QED BY <2>1, <2>2 DEF AcceptedOnceAsSent, OnceInLife
<1> QED BY <1>1, Inductive, PTL
-----------------------------------------------------------------------------
(* The behaviour monitor, which forgets as well: its window holds every    *)
(* event that counts but those whose thread waits for the lock.            *)
WindowsOwn ==
  \A a \in MonitoredAgents : \A i \in DOMAIN win[a] :
    win[a][i].agent = a /\ ~win[a][i].halted /\ win[a][i].at <= clock

MonitorTypes ==
  /\ clock \in Nat
  /\ trippedAt \in [MonitoredAgents -> Int \cup {NoTrip}]
  /\ win \in [MonitoredAgents -> Seq(M!Event)]
  /\ WindowsOwn
  /\ sinkPc \in [Threads -> {"idle", "observe", "trip"}]
  /\ DOMAIN latest = Threads
  /\ \A t \in Threads : sinkPc[t] # "idle" =>
       latest[t] \in M!Event /\ ~latest[t].halted /\ latest[t].at <= clock
  /\ found \in [Threads -> SUBSET M!Kinds]
  /\ emitted \in Seq(M!Event)

(* Where events of a kind are: in a log, and in the hands of threads that  *)
(* wait for the lock.                                                      *)
Places(s, C) == {i \in DOMAIN s : s[i] \in C}
Waits(C) == {u \in Threads : sinkPc[u] = "observe" /\ latest[u] \in C}
Counting(a, t) == {e \in M!Event : M!Counts(e, a, t)}

(* The equation holds for events of any kind, and for every time that no   *)
(* stamp of the window is after: an event that leaves the window then      *)
(* leaves both sides, and what the loop dropped had left before.           *)
CompleteFor(a, C) ==
  Cardinality(Places(win[a], C)) + Cardinality(Waits(C)) = Cardinality(Places(emitted, C))

CompleteFrom ==
  \A a \in MonitoredAgents, t \in Int :
    (\A i \in DOMAIN win[a] : win[a][i].at <= t)
      => \A C \in SUBSET Counting(a, t) : CompleteFor(a, C)

MonitorInv == MonitorTypes /\ CompleteFrom

(* A set of places has a first one. *)
LEMMA FirstOf ==
  ASSUME NEW S \in SUBSET Nat, S # {}
  PROVE  \E m \in S : \A k \in S : m <= k
<1> DEFINE less == OpToRel(<, Nat)
<1>1. PICK m \in S : \A k \in S : <<k, m>> \notin less
  <2>1. IsWellFoundedOn(less, Nat)
    BY NatLessThanWellFounded
  <2> HIDE DEF less
  <2> QED BY <2>1, WFMin, Zenon
<1>2. \A k \in S : ~(k < m)
  BY <1>1 DEF OpToRel
<1> QED BY <1>2

(* The places of some events are finitely many. *)
LEMMA PlacesFinite ==
  ASSUME NEW s \in Seq(M!Event), NEW C
  PROVE  IsFiniteSet(Places(s, C)) /\ Cardinality(Places(s, C)) \in Nat
<1>1. IsFiniteSet(1..Len(s)) /\ Places(s, C) \subseteq 1..Len(s)
  BY FS_Interval DEF Places
<1> QED BY <1>1, FS_Subset, FS_CardinalityType

(* What is recent is where the events that count are. *)
LEMMA RecentPlaces ==
  ASSUME NEW s \in Seq(M!Event), NEW a, NEW t
  PROVE  M!RecentIn(s, a, t) = Places(s, Counting(a, t))
<1>1. \A i \in DOMAIN s : s[i] \in M!Event
  OBVIOUS
<1> QED BY <1>1 DEF M!RecentIn, Places, Counting

(* One more event has one more place, if it is of the kind. *)
LEMMA PlacesAppended ==
  ASSUME NEW s \in Seq(M!Event), NEW e \in M!Event, NEW C
  PROVE  Cardinality(Places(Append(s, e), C))
           = Cardinality(Places(s, C)) + (IF e \in C THEN 1 ELSE 0)
<1> DEFINE R == Places(s, C)
<1>1. IsFiniteSet(R) /\ Cardinality(R) \in Nat
  BY PlacesFinite
<1>2. Len(s) + 1 \notin R
  BY DEF Places
<1>3. PICK v : v = Append(s, e)
  OBVIOUS
<1>4. /\ DOMAIN v = 1..(Len(s) + 1) /\ DOMAIN s = 1..Len(s) /\ Len(s) \in Nat
      /\ v[Len(s) + 1] = e /\ \A i \in 1..Len(s) : v[i] = s[i]
  BY <1>3
<1>5. CASE e \in C
  <2>1. Places(v, C) = R \cup {Len(s) + 1}
    BY <1>4, <1>5 DEF Places
  <2>2. R = Places(s, C)
    OBVIOUS
  <2> HIDE DEF R
  <2> QED BY <1>1, <1>2, <1>3, <1>5, <2>1, <2>2, FS_AddElement
<1>6. CASE e \notin C
  <2>1. Places(v, C) = R
    BY <1>4, <1>6 DEF Places
  <2> QED BY <1>1, <1>3, <1>6, <2>1
<1> QED BY <1>5, <1>6

(* The loop drops the events before the first one inside. *)
LEMMA WindowPruned ==
  ASSUME NEW s \in Seq(M!Event), NEW c \in Int
  PROVE  /\ M!Pruned(s, c) \in Seq(M!Event)
         /\ \E p \in 0..Len(s) :
              /\ Len(M!Pruned(s, c)) = Len(s) - p
              /\ \A i \in 1..Len(M!Pruned(s, c)) : M!Pruned(s, c)[i] = s[i + p]
              /\ \A i \in 1..p : s[i].at < c
<1> DEFINE fresh == {i \in DOMAIN s : s[i].at >= c}
           m == CHOOSE i \in fresh : \A j \in fresh : i <= j
<1>0. DOMAIN s = 1..Len(s) /\ Len(s) \in Nat /\ \A i \in 1..Len(s) : s[i].at \in Int
  <2>1. DOMAIN s = 1..Len(s) /\ Len(s) \in Nat /\ \A i \in 1..Len(s) : s[i] \in M!Event
    OBVIOUS
  <2>2. \A e \in M!Event : e.at \in Int
    BY DEF M!Event
  <2> QED BY <2>1, <2>2
<1>1. CASE fresh = {}
  <2>1. M!Pruned(s, c) = << >>
    BY <1>1 DEF M!Pruned
  <2>2. \A i \in 1..Len(s) : s[i].at < c
    BY <1>0, <1>1
  <2>3. Len(M!Pruned(s, c)) = 0 /\ M!Pruned(s, c) \in Seq(M!Event)
    BY <2>1
  <2>4. Len(s) \in 0..Len(s) /\ 0 = Len(s) - Len(s)
    BY <1>0
  <2> HIDE DEF fresh
  <2> QED BY <2>2, <2>3, <2>4
<1>2. CASE fresh # {}
  <2>1. m \in fresh /\ \A j \in fresh : m <= j
    <3>1. fresh \in SUBSET Nat
      BY <1>0
    <3> HIDE DEF fresh
    <3> QED BY <1>2, <3>1, FirstOf
  <2>2. M!Pruned(s, c) = SubSeq(s, m, Len(s))
    BY <1>2 DEF M!Pruned
  <2>3. m \in 1..Len(s) /\ \A i \in 1..(m - 1) : s[i].at < c
    <3>1. m \in 1..Len(s)
      BY <1>0, <2>1
    <3>2. ASSUME NEW i \in 1..(m - 1) PROVE s[i].at < c
      <4>1. i \in 1..Len(s) /\ ~(m <= i)
        <5> HIDE DEF m
        <5> QED BY <1>0, <3>1
      <4>2. i \notin fresh
        BY <2>1, <4>1
      <4> QED BY <1>0, <4>1, <4>2
    <3> QED BY <3>1, <3>2
  <2> HIDE DEF m, fresh
  <2>4. PICK v : v = SubSeq(s, m, Len(s))
    OBVIOUS
  <2>5. /\ v \in Seq(M!Event) /\ Len(v) = Len(s) - (m - 1)
        /\ \A i \in 1..Len(v) : v[i] = s[i + (m - 1)]
    BY <1>0, <2>3, <2>4
  <2>6. m - 1 \in 0..Len(s)
    BY <1>0, <2>3
  <2> QED BY <2>2, <2>3, <2>4, <2>5, <2>6
<1> QED BY <1>1, <1>2

(* So it drops none of a kind that is no older than its cutoff.            *)
LEMMA PlacesPruned ==
  ASSUME NEW s \in Seq(M!Event), NEW c \in Int, NEW C, \A e \in C : e.at >= c
  PROVE  /\ M!Pruned(s, c) \in Seq(M!Event)
         /\ Cardinality(Places(M!Pruned(s, c), C)) = Cardinality(Places(s, C))
<1>1. PICK v : v = M!Pruned(s, c)
  OBVIOUS
<1>2. PICK p \in 0..Len(s) : /\ v \in Seq(M!Event) /\ Len(v) = Len(s) - p
                             /\ \A i \in 1..Len(v) : v[i] = s[i + p]
                             /\ \A i \in 1..p : s[i].at < c
  BY <1>1, WindowPruned
<1> DEFINE V == Places(v, C)
           S == Places(s, C)
           f == [i \in V |-> i + p]
<1>3. DOMAIN v = 1..Len(v) /\ DOMAIN s = 1..Len(s) /\ Len(s) \in Nat /\ Len(v) \in Nat
  BY <1>2
<1>4. V \subseteq 1..Len(v) /\ S \subseteq 1..Len(s)
  BY <1>3 DEF Places
<1>5. \A i \in V : i + p \in S
  <2> SUFFICES ASSUME NEW i \in V PROVE i + p \in S
    OBVIOUS
  <2>1. i \in 1..Len(v) /\ v[i] \in C
    BY <1>3 DEF Places
  <2>2. i + p \in 1..Len(s) /\ v[i] = s[i + p]
    BY <1>2, <1>3, <2>1
  <2> QED BY <1>3, <2>1, <2>2 DEF Places
<1>6. \A j \in S : j - p \in V
  <2> SUFFICES ASSUME NEW j \in S PROVE j - p \in V
    OBVIOUS
  <2>1. j \in 1..Len(s) /\ s[j] \in C /\ s[j] \in M!Event
    BY <1>3 DEF Places
  <2>2. s[j].at \in Int /\ s[j].at >= c
    BY <2>1 DEF M!Event
  <2>3. j \notin 1..p
    BY <1>2, <2>2
  <2>4. j - p \in 1..Len(v) /\ (j - p) + p = j
    BY <1>2, <1>3, <2>1, <2>3
  <2>5. v[j - p] = s[j]
    BY <1>2, <2>4
  <2> QED BY <1>3, <2>1, <2>4, <2>5 DEF Places
<1>7. IsFiniteSet(V)
  BY <1>2, PlacesFinite
<1> HIDE DEF V, S
<1>8. f \in Bijection(V, S)
  <2>1. f \in [V -> S]
    BY <1>5
  <2>2. \A i, j \in V : f[i] = f[j] => i = j
    BY <1>4
  <2>3. \A j \in S : \E i \in V : f[i] = j
    <3> SUFFICES ASSUME NEW j \in S PROVE \E i \in V : f[i] = j
      OBVIOUS
    <3>1. j - p \in V /\ j \in Int
      BY <1>4, <1>6
    <3>2. f[j - p] = j
      BY <3>1
    <3> HIDE DEF f
    <3> QED BY <3>1, <3>2
  <2> HIDE DEF f
  <2> QED BY <2>1, <2>2, <2>3, Fun_IsBij
<1>9. ExistsBijection(V, S)
  BY <1>8 DEF ExistsBijection
<1>10. Cardinality(S) = Cardinality(V)
  BY <1>7, <1>9, FS_Bijection
<1> QED BY <1>1, <1>2, <1>10 DEF V, S

(* In a state with the invariant the sets counted are finite. *)
LEMMA CountsAreNumbers ==
  ASSUME MonitorTypes, IsFiniteSet(Threads), NEW a \in MonitoredAgents, NEW C
  PROVE  /\ IsFiniteSet(Waits(C)) /\ Cardinality(Waits(C)) \in Nat
         /\ Cardinality(Places(win[a], C)) \in Nat
         /\ Cardinality(Places(emitted, C)) \in Nat
<1>1. Waits(C) \subseteq Threads
  BY DEF Waits
<1>2. IsFiniteSet(Waits(C)) /\ Cardinality(Waits(C)) \in Nat
  BY <1>1, FS_Subset, FS_CardinalityType
<1>3. win[a] \in Seq(M!Event) /\ emitted \in Seq(M!Event)
  BY DEF MonitorTypes
<1> QED BY <1>2, <1>3, PlacesFinite

(* A call is reported: its event is one more to count, and to wait for.    *)
LEMMA EmitComplete ==
  ASSUME M!MonitorAssumption, M!PolicyAssumption, IsFiniteSet(Threads), MonitorInv,
         NEW u \in Threads, NEW agent \in MonitoredAgents, NEW tool \in Tools, NEW decision \in Decisions,
         M!Emit(u, agent, tool, decision)
  PROVE  MonitorInv'
<1> USE DEF MonitorInv
<1>1. PICK open \in BOOLEAN : M!CB!IsOpen(agent, open)
       /\ LET e == [agent |-> agent, tool |-> tool, at |-> clock, halted |-> open,
                    decision |-> IF open THEN "deny" ELSE decision]
          IN /\ emitted' = Append(emitted, e)
             /\ IF M!Watched(e)
                THEN /\ sinkPc' = [sinkPc EXCEPT ![u] = "observe"]
                     /\ latest' = [latest EXCEPT ![u] = e]
                ELSE UNCHANGED <<sinkPc, latest>>
  BY DEF M!Emit
<1>2. PICK e : e = [agent |-> agent, tool |-> tool, at |-> clock, halted |-> open,
                    decision |-> IF open THEN "deny" ELSE decision]
  OBVIOUS
<1>3. e \in M!Event /\ e.at = clock /\ e.halted = open
  BY <1>2 DEF M!Event, M!MonitorAssumption, MonitorTypes
<1>4. /\ emitted' = Append(emitted, e) /\ win' = win /\ found' = found /\ clock' = clock
      /\ sinkPc[u] = "idle"
      /\ ~open => sinkPc' = [sinkPc EXCEPT ![u] = "observe"] /\ latest' = [latest EXCEPT ![u] = e]
      /\ open => UNCHANGED <<sinkPc, latest>>
  BY <1>1, <1>2, <1>3 DEF M!Emit, M!Watched, M!CB!IsOpen
<1>5. trippedAt' \in [MonitoredAgents -> Int \cup {NoTrip}]
  BY <1>1 DEF M!CB!IsOpen, MonitorTypes
<1>6. MonitorTypes'
  <2>1. /\ clock' \in Nat /\ win' \in [MonitoredAgents -> Seq(M!Event)] /\ WindowsOwn'
        /\ found' \in [Threads -> SUBSET M!Kinds]
    BY <1>4 DEF MonitorTypes, WindowsOwn
  <2>2. emitted' \in Seq(M!Event)
    BY <1>3, <1>4 DEF MonitorTypes
  <2>3. sinkPc' \in [Threads -> {"idle", "observe", "trip"}] /\ DOMAIN latest' = Threads
    BY <1>4 DEF MonitorTypes
  <2>4. ASSUME NEW v \in Threads, sinkPc'[v] # "idle"
        PROVE  latest'[v] \in M!Event /\ ~latest'[v].halted /\ latest'[v].at <= clock'
    <3>1. CASE v = u
      <4>1. ~open /\ latest'[v] = e
        BY <1>4, <2>4, <3>1 DEF MonitorTypes
      <4>2. clock \in Nat
        BY DEF MonitorTypes
      <4> QED BY <1>3, <1>4, <4>1, <4>2
    <3>2. CASE v # u
      <4>1. latest'[v] = latest[v] /\ sinkPc'[v] = sinkPc[v]
        BY <1>4, <3>2 DEF MonitorTypes
      <4> QED BY <1>4, <2>4, <4>1 DEF MonitorTypes
    <3> QED BY <3>1, <3>2
  <2> QED BY <1>5, <2>1, <2>2, <2>3, <2>4 DEF MonitorTypes
<1>7. ASSUME NEW a \in MonitoredAgents, NEW C, CompleteFor(a, C), \A x \in C : ~x.halted
      PROVE  CompleteFor(a, C)'
  <2>2. /\ IsFiniteSet(Waits(C)) /\ Cardinality(Waits(C)) \in Nat
        /\ Cardinality(Places(win[a], C)) \in Nat
        /\ Cardinality(Places(emitted, C)) \in Nat
    BY CountsAreNumbers
  <2>3. Cardinality(Places(emitted', C)) = Cardinality(Places(emitted, C)) + (IF e \in C THEN 1 ELSE 0)
    BY <1>3, <1>4, PlacesAppended DEF MonitorTypes
  <2>4. Cardinality(Waits(C)') = Cardinality(Waits(C)) + (IF e \in C THEN 1 ELSE 0)
    <3>1. CASE e \in C
      <4>1. ~open
        BY <1>3, <1>7, <3>1
      <4>2. Waits(C)' = Waits(C) \cup {u}
        BY <1>4, <3>1, <4>1 DEF Waits, MonitorTypes
      <4>3. u \notin Waits(C)
        BY <1>4 DEF Waits
      <4> QED BY <2>2, <3>1, <4>2, <4>3, FS_AddElement
    <3>2. CASE e \notin C
      <4>1. Waits(C)' = Waits(C)
        BY <1>4, <3>2 DEF Waits, MonitorTypes
      <4> QED BY <2>2, <3>2, <4>1
    <3> QED BY <3>1, <3>2
  <2> QED BY <1>4, <1>7, <2>2, <2>3, <2>4 DEF CompleteFor
<1>8. CompleteFrom'
  <2> SUFFICES ASSUME NEW a \in MonitoredAgents, NEW t \in Int,
                      \A i \in DOMAIN win'[a] : win'[a][i].at <= t,
                      NEW C \in SUBSET Counting(a, t)
               PROVE  CompleteFor(a, C)'
    BY DEF CompleteFrom, Counting
  <2>1. CompleteFor(a, C)
    BY <1>4 DEF CompleteFrom
  <2> QED BY <1>7, <2>1 DEF Counting, M!Counts
<1> QED BY <1>6, <1>8

(* The thread gets the lock: its event waits no more, and is in the        *)
(* window; what the loop drops is too old to count.                        *)
LEMMA ObserveComplete ==
  ASSUME M!MonitorAssumption, M!PolicyAssumption, IsFiniteSet(Threads), MonitorInv,
         NEW u \in Threads, M!Observe(u)
  PROVE  MonitorInv'
<1> USE DEF MonitorInv
<1>1. PICK e : e = latest[u]
  OBVIOUS
<1>2. PICK w : w = M!Pruned(Append(win[e.agent], e), e.at - Window)
  OBVIOUS
<1>3. /\ sinkPc[u] = "observe" /\ clock' = clock /\ trippedAt' = trippedAt /\ emitted' = emitted
      /\ win' = [win EXCEPT ![e.agent] = w]
      /\ found' = [found EXCEPT ![u] = M!Anomalies(w, e)]
      /\ \/ sinkPc' = [sinkPc EXCEPT ![u] = "idle"] /\ latest' = [latest EXCEPT ![u] = << >>]
         \/ sinkPc' = [sinkPc EXCEPT ![u] = "trip"] /\ latest' = latest
  BY <1>1, <1>2 DEF M!Observe, M!Return
<1>4. /\ e \in M!Event /\ ~e.halted /\ e.agent \in MonitoredAgents /\ e.at \in Int /\ e.at <= clock
      /\ clock \in Nat /\ Window \in Nat
  BY <1>1, <1>3 DEF MonitorTypes, M!Event, M!PolicyAssumption
<1>5. PICK v : v = Append(win[e.agent], e)
  OBVIOUS
<1>a. PICK c : c = e.at - Window
  OBVIOUS
<1>b. v \in Seq(M!Event) /\ c \in Int /\ w = M!Pruned(v, c)
  <2>1. win[e.agent] \in Seq(M!Event)
    BY <1>4 DEF MonitorTypes
  <2> QED BY <1>2, <1>4, <1>5, <1>a, <2>1
<1>d. PICK p \in 0..Len(v) : /\ w \in Seq(M!Event) /\ Len(w) = Len(v) - p
                             /\ \A i \in 1..Len(w) : w[i] = v[i + p]
                             /\ \A i \in 1..p : v[i].at < c
  BY <1>b, WindowPruned
<1>e. /\ v = Append(win[e.agent], e) /\ Len(v) = Len(win[e.agent]) + 1 /\ Len(win[e.agent]) \in Nat
      /\ v[Len(v)] = e /\ \A i \in 1..Len(win[e.agent]) : v[i] = win[e.agent][i]
      /\ DOMAIN v = 1..Len(v) /\ DOMAIN win[e.agent] = 1..Len(win[e.agent]) /\ DOMAIN w = 1..Len(w)
  <2>1. win[e.agent] \in Seq(M!Event)
    BY <1>4 DEF MonitorTypes
  <2> QED BY <1>4, <1>5, <1>d, <2>1
<1>f. p < Len(v) /\ Len(w) >= 1 /\ w[Len(w)] = e
  <2>1. ~(e.at < c)
    BY <1>4, <1>a
  <2>2. p # Len(v)
    BY <1>d, <1>e, <2>1
  <2>3. p < Len(v) /\ Len(w) \in 1..Len(w) /\ Len(w) + p = Len(v)
    BY <1>d, <1>e, <2>2
  <2> QED BY <1>d, <1>e, <2>3
<1>6. w \in Seq(M!Event) /\ \A i \in DOMAIN w : w[i].agent = e.agent /\ ~w[i].halted /\ w[i].at <= clock
  <2>1. \A i \in DOMAIN v : v[i].agent = e.agent /\ ~v[i].halted /\ v[i].at <= clock
    <3>1. \A i \in 1..Len(win[e.agent]) : win[e.agent][i].agent = e.agent
             /\ ~win[e.agent][i].halted /\ win[e.agent][i].at <= clock
      BY <1>4, <1>e DEF MonitorTypes, WindowsOwn
    <3>2. \A i \in DOMAIN v : i \in 1..Len(win[e.agent]) \/ i = Len(v)
      BY <1>e
    <3> SUFFICES ASSUME NEW i \in DOMAIN v
                 PROVE  v[i].agent = e.agent /\ ~v[i].halted /\ v[i].at <= clock
      OBVIOUS
    <3>3. CASE i = Len(v)
      BY <1>4, <1>e, <3>3
    <3>4. CASE i \in 1..Len(win[e.agent])
      <4>1. v[i] = win[e.agent][i]
        BY <1>e, <3>4
      <4> QED BY <3>1, <3>4, <4>1
    <3> QED BY <3>2, <3>3, <3>4
  <2>2. \A i \in DOMAIN w : i + p \in DOMAIN v /\ w[i] = v[i + p]
    <3> SUFFICES ASSUME NEW i \in 1..Len(w) PROVE i + p \in 1..Len(v) /\ w[i] = v[i + p]
      BY <1>e
    <3>1. Len(v) \in Nat
      BY <1>b
    <3> QED BY <1>d, <3>1
  <2> QED BY <1>d, <2>1, <2>2
<1>7. MonitorTypes'
  <2>1. /\ clock' \in Nat /\ trippedAt' \in [MonitoredAgents -> Int \cup {NoTrip}]
        /\ sinkPc' \in [Threads -> {"idle", "observe", "trip"}] /\ DOMAIN latest' = Threads
        /\ found' \in [Threads -> SUBSET M!Kinds] /\ emitted' \in Seq(M!Event)
    BY <1>3 DEF MonitorTypes, M!Anomalies, M!AnomaliesAt
  <2>2. win' \in [MonitoredAgents -> Seq(M!Event)]
    BY <1>3, <1>6 DEF MonitorTypes
  <2>3. WindowsOwn'
    <3> SUFFICES ASSUME NEW a \in MonitoredAgents, NEW i \in DOMAIN win'[a]
                 PROVE  win'[a][i].agent = a /\ ~win'[a][i].halted /\ win'[a][i].at <= clock
      BY <1>3 DEF WindowsOwn
    <3>1. CASE a = e.agent
      <4>1. win'[a] = w
        BY <1>3, <3>1 DEF MonitorTypes
      <4> QED BY <1>6, <3>1, <4>1
    <3>2. CASE a # e.agent
      <4>1. win'[a] = win[a]
        BY <1>3, <3>2 DEF MonitorTypes
      <4> QED BY <4>1 DEF MonitorTypes, WindowsOwn
    <3> QED BY <3>1, <3>2
  <2>4. \A t \in Threads : sinkPc'[t] # "idle" =>
          latest'[t] \in M!Event /\ ~latest'[t].halted /\ latest'[t].at <= clock'
    BY <1>3 DEF MonitorTypes
  <2> QED BY <2>1, <2>2, <2>3, <2>4 DEF MonitorTypes
<1>8. ASSUME NEW a \in MonitoredAgents, NEW C, CompleteFor(a, C), \A x \in C : x.agent = a,
             a = e.agent => \A x \in C : x.at >= c
      PROVE  CompleteFor(a, C)'
  <2>2. /\ IsFiniteSet(Waits(C)) /\ Cardinality(Waits(C)) \in Nat
        /\ Cardinality(Places(win[a], C)) \in Nat
        /\ Cardinality(Places(emitted, C)) \in Nat
    BY CountsAreNumbers
  <2>3. Cardinality(Places(win'[a], C)) = Cardinality(Places(win[a], C)) + (IF e \in C THEN 1 ELSE 0)
    <3>1. CASE a = e.agent
      <4>1. Cardinality(Places(w, C)) = Cardinality(Places(v, C))
        BY <1>b, <1>8, <3>1, PlacesPruned
      <4>2. Cardinality(Places(v, C)) = Cardinality(Places(win[a], C)) + (IF e \in C THEN 1 ELSE 0)
        BY <1>4, <1>5, <3>1, PlacesAppended DEF MonitorTypes
      <4>3. win'[a] = w
        BY <1>3, <1>4, <3>1 DEF MonitorTypes
      <4> QED BY <4>1, <4>2, <4>3
    <3>2. CASE a # e.agent
      <4>1. win'[a] = win[a] /\ e \notin C
        BY <1>3, <1>8, <3>2 DEF MonitorTypes
      <4> QED BY <2>2, <4>1
    <3> QED BY <3>1, <3>2
  <2>4. Cardinality(Waits(C)') = Cardinality(Waits(C)) - (IF e \in C THEN 1 ELSE 0)
    <3>1. Waits(C)' = Waits(C) \ {u}
      BY <1>3 DEF Waits, MonitorTypes
    <3>2. u \in Waits(C) <=> e \in C
      BY <1>1, <1>3 DEF Waits
    <3>3. Cardinality(Waits(C) \ {u})
            = IF u \in Waits(C) THEN Cardinality(Waits(C)) - 1 ELSE Cardinality(Waits(C))
      BY <2>2, FS_RemoveElement
    <3> QED BY <2>2, <3>1, <3>2, <3>3
  <2> QED BY <1>3, <1>8, <2>2, <2>3, <2>4 DEF CompleteFor
<1>9. CompleteFrom'
  <2> SUFFICES ASSUME NEW a \in MonitoredAgents, NEW t \in Int,
                      \A i \in DOMAIN win'[a] : win'[a][i].at <= t,
                      NEW C \in SUBSET Counting(a, t)
               PROVE  CompleteFor(a, C)'
    BY DEF CompleteFrom, Counting
  <2>1. \A x \in C : x.agent = a /\ x.at \in Int /\ x.at >= t - Window
    BY DEF Counting, M!Counts, M!Event
  <2>2. CASE a = e.agent
    <3>1. win'[a] = w
      BY <1>3, <1>4, <2>2 DEF MonitorTypes
    <3>2. e.at <= t
      BY <1>d, <1>e, <1>f, <3>1
    <3>3. \A x \in C : x.at >= c
      BY <1>4, <1>a, <2>1, <3>2
    <3>4. \A i \in DOMAIN win[a] : win[a][i].at <= t
      <4> SUFFICES ASSUME NEW i \in 1..Len(win[a]) PROVE v[i].at <= t
        BY <1>e, <2>2
      <4>1. v[i] \in M!Event /\ v[i].at \in Int
        <5>1. i \in 1..Len(v)
          BY <1>e, <2>2
        <5>2. v[i] \in M!Event
          BY <1>b, <5>1
        <5> QED BY <5>2 DEF M!Event
      <4>2. CASE i \in 1..p
        BY <1>4, <1>a, <1>d, <3>2, <4>1, <4>2
      <4>3. CASE i \notin 1..p
        <5>1. i - p \in 1..Len(w) /\ (i - p) + p = i
          BY <1>d, <1>e, <2>2, <4>3
        <5>2. w[i - p] = v[i]
          BY <1>d, <5>1
        <5> QED BY <1>e, <3>1, <5>1, <5>2
      <4> QED BY <4>2, <4>3
    <3> QED BY <1>8, <2>1, <3>3, <3>4 DEF CompleteFrom
  <2>3. CASE a # e.agent
    <3>1. win'[a] = win[a]
      BY <1>3, <2>3 DEF MonitorTypes
    <3> QED BY <1>8, <2>1, <2>3, <3>1 DEF CompleteFrom
  <2> QED BY <2>2, <2>3
<1> QED BY <1>7, <1>9

(* Whoever does not emit or observe leaves the counts as they are; time    *)
(* only leaves fewer of them to hold.                                      *)
LEMMA OtherwiseComplete ==
  ASSUME MonitorInv, MonitorTypes', clock <= clock', UNCHANGED <<win, emitted>>,
         \A u \in Threads : sinkPc'[u] = "observe" <=> sinkPc[u] = "observe",
         \A u \in Threads : sinkPc[u] = "observe" => latest'[u] = latest[u]
  PROVE  MonitorInv'
<1> USE DEF MonitorInv
<1>1. ASSUME NEW a \in MonitoredAgents, NEW C, CompleteFor(a, C) PROVE CompleteFor(a, C)'
  <2>1. Waits(C)' = Waits(C)
    BY DEF Waits
  <2> QED BY <1>1, <2>1 DEF CompleteFor
<1>2. CompleteFrom'
  <2> SUFFICES ASSUME NEW a \in MonitoredAgents, NEW t \in Int,
                      \A i \in DOMAIN win[a] : win[a][i].at <= t,
                      NEW C \in SUBSET Counting(a, t)
               PROVE  CompleteFor(a, C)'
    BY DEF CompleteFrom, Counting
  <2> QED BY <1>1 DEF CompleteFrom
<1> QED BY <1>2

(* A window that stays is as good later. *)
LEMMA WindowsStayOwn ==
  ASSUME MonitorTypes, win' = win, clock' \in Nat, clock <= clock'
  PROVE  WindowsOwn'
<1> SUFFICES ASSUME NEW a \in MonitoredAgents, NEW i \in DOMAIN win[a]
             PROVE  win[a][i].agent = a /\ ~win[a][i].halted /\ win[a][i].at <= clock'
  BY DEF WindowsOwn
<1>1. win[a][i] \in M!Event
  <2>1. win[a] \in Seq(M!Event)
    BY DEF MonitorTypes
  <2> QED BY <2>1
<1>2. win[a][i].agent = a /\ ~win[a][i].halted /\ win[a][i].at <= clock /\ clock \in Nat
  BY DEF MonitorTypes, WindowsOwn
<1>3. win[a][i].at \in Int
  BY <1>1 DEF M!Event
<1> QED BY <1>2, <1>3

(* Every step of the monitor keeps its window complete.                    *)
LEMMA MonitorStep ==
  ASSUME M!MonitorAssumption, M!PolicyAssumption, IsFiniteSet(Threads), MonitorInv,
         [M!Next]_(M!vars)
  PROVE  MonitorInv'
<1>1. ASSUME NEW u \in Threads, NEW agent \in MonitoredAgents, NEW tool \in Tools,
             NEW decision \in Decisions, M!Emit(u, agent, tool, decision)
      PROVE  MonitorInv'
  BY <1>1, EmitComplete
<1>2. ASSUME NEW u \in Threads, M!Observe(u) PROVE MonitorInv'
  BY <1>2, ObserveComplete
<1>3. ASSUME NEW u \in Threads, M!Trip(u) PROVE MonitorInv'
  <2>1. MonitorTypes /\ sinkPc[u] = "trip"
    BY <1>3 DEF MonitorInv, M!Trip
  <2>2. PICK k \in found[u], raises \in BOOLEAN :
          /\ M!CB!Trip(latest[u].agent)
          /\ found' = [found EXCEPT ![u] = IF raises THEN {} ELSE found[u] \ {k}]
    BY <1>3 DEF M!Trip
  <2>3. /\ trippedAt' \in [MonitoredAgents -> Int \cup {NoTrip}] /\ clock' = clock
    <3>1. clock \in Int /\ trippedAt \in [MonitoredAgents -> Int \cup {NoTrip}]
      BY <2>1 DEF MonitorTypes
    <3>2. trippedAt' = [trippedAt EXCEPT ![latest[u].agent] = clock] /\ clock' = clock
      BY <2>2 DEF M!CB!Trip
    <3> QED BY <3>1, <3>2
  <2>4. found' \in [Threads -> SUBSET M!Kinds]
    BY <2>1, <2>2 DEF MonitorTypes
  <2>5. /\ win' = win /\ emitted' = emitted
        /\ \/ UNCHANGED <<sinkPc, latest>>
           \/ sinkPc' = [sinkPc EXCEPT ![u] = "idle"] /\ latest' = [latest EXCEPT ![u] = << >>]
    BY <1>3 DEF M!Trip, M!Return
  <2>a. WindowsOwn'
    BY <2>1, <2>3, <2>5, WindowsStayOwn DEF MonitorTypes
  <2>6. MonitorTypes'
    BY <2>1, <2>3, <2>4, <2>5, <2>a DEF MonitorTypes
  <2>7. /\ \A v \in Threads : sinkPc'[v] = "observe" <=> sinkPc[v] = "observe"
        /\ \A v \in Threads : sinkPc[v] = "observe" => latest'[v] = latest[v]
    BY <2>1, <2>5 DEF MonitorTypes
  <2> QED BY <2>1, <2>3, <2>5, <2>6, <2>7, OtherwiseComplete DEF MonitorTypes
<1>4. ASSUME NEW a \in MonitoredAgents, M!Reset(a) PROVE MonitorInv'
  <2>1. /\ trippedAt' = [trippedAt EXCEPT ![a] = NoTrip]
        /\ UNCHANGED <<clock, win, sinkPc, latest, found, emitted>>
    BY <1>4 DEF M!Reset, M!CB!Reset
  <2>2. MonitorTypes /\ MonitorTypes'
    BY <2>1 DEF MonitorInv, MonitorTypes, WindowsOwn
  <2> QED BY <2>1, <2>2, OtherwiseComplete DEF MonitorTypes
<1>5. CASE M!Tick
  <2>1. clock' = clock + 1 /\ UNCHANGED <<trippedAt, win, sinkPc, latest, found, emitted>>
    BY <1>5 DEF M!Tick, M!CB!Tick
  <2>2. MonitorTypes /\ MonitorTypes'
    <3>1. \A e \in M!Event : e.at \in Int
      BY DEF M!Event
    <3>2. MonitorTypes /\ clock \in Nat
      BY DEF MonitorInv, MonitorTypes
    <3>3. WindowsOwn'
      BY <2>1, <3>2, WindowsStayOwn
    <3> QED BY <2>1, <3>1, <3>2, <3>3 DEF MonitorTypes
  <2> QED BY <2>1, <2>2, OtherwiseComplete DEF MonitorTypes
<1>6. CASE UNCHANGED M!vars
  <2>1. UNCHANGED <<trippedAt, clock, win, sinkPc, latest, found, emitted>>
    BY <1>6 DEF M!vars
  <2>2. MonitorTypes /\ MonitorTypes'
    BY <2>1 DEF MonitorInv, MonitorTypes, WindowsOwn
  <2> QED BY <2>1, <2>2, OtherwiseComplete DEF MonitorTypes
<1> QED BY <1>1, <1>2, <1>3, <1>4, <1>5, <1>6 DEF M!Next

(* The types and the equation, for any number of threads and agents.       *)
LEMMA MonitorInvariant ==
  ASSUME M!MonitorAssumption, M!PolicyAssumption, IsFiniteSet(Threads)
  PROVE  M!Init /\ [][M!Next]_(M!vars) => []MonitorInv
<1>1. M!Init => MonitorInv
  <2> SUFFICES ASSUME M!Init PROVE MonitorInv
    OBVIOUS
  <2>1. MonitorTypes
    BY DEF M!Init, M!CB!Init, MonitorTypes, WindowsOwn
  <2>2. ASSUME NEW a \in MonitoredAgents, NEW C PROVE CompleteFor(a, C)
    <3>1. Waits(C) = {} /\ Places(win[a], C) = {} /\ Places(emitted, C) = {}
      BY DEF M!Init, Waits, Places
    <3> QED BY <3>1, FS_EmptySet DEF CompleteFor
  <2> QED BY <2>1, <2>2 DEF MonitorInv, CompleteFrom
<1>2. MonitorInv /\ [M!Next]_(M!vars) => MonitorInv'
  BY MonitorStep
<1> QED BY <1>1, <1>2, PTL

(* The cardinality the monitor's module speaks of is the usual one. *)
LEMMA SameCardinality == \A S : M!Cardinality(S) = Cardinality(S)
  BY DEF M!Cardinality, Cardinality

(* The monitor keeps its types (monitor.py). *)
THEOREM MonitorTypeCorrect ==
  ASSUME M!MonitorAssumption, M!PolicyAssumption, IsFiniteSet(Threads)
  PROVE  M!Spec => []M!TypeOK
<1>1. MonitorInv => M!TypeOK
  BY DEF MonitorInv, MonitorTypes, M!TypeOK, M!CB!TypeOK
<1> QED BY <1>1, MonitorInvariant, PTL DEF M!Spec

(* At the present, the equation is that of the events which count now.     *)
LEMMA CompleteNow ==
  ASSUME M!MonitorAssumption, M!PolicyAssumption, IsFiniteSet(Threads), MonitorInv
  PROVE  WindowComplete
<1> SUFFICES \A a \in MonitoredAgents :
               Cardinality(M!RecentIn(win[a], a, clock)) + Cardinality(M!Waiting(a, clock))
                 = Cardinality(M!RecentIn(emitted, a, clock))
  BY SameCardinality DEF WindowComplete, M!WindowComplete
<1> TAKE a \in MonitoredAgents
<1>1. MonitorTypes /\ clock \in Int
  BY DEF MonitorInv, MonitorTypes
<1>2. CompleteFor(a, Counting(a, clock))
  BY <1>1 DEF MonitorInv, MonitorTypes, WindowsOwn, CompleteFrom
<1>3. /\ M!RecentIn(win[a], a, clock) = Places(win[a], Counting(a, clock))
      /\ M!RecentIn(emitted, a, clock) = Places(emitted, Counting(a, clock))
  <2>1. win[a] \in Seq(M!Event) /\ emitted \in Seq(M!Event)
    BY <1>1 DEF MonitorTypes
  <2> QED BY <2>1, RecentPlaces
<1>4. M!Waiting(a, clock) = Waits(Counting(a, clock))
  BY <1>1 DEF M!Waiting, Waits, Counting, MonitorTypes
<1> QED BY <1>2, <1>3, <1>4 DEF CompleteFor

(* In whatever order threads read the clock and get the lock, the window   *)
(* misses no event that counts now but those still waiting (monitor.py).   *)
THEOREM NothingMissed ==
  ASSUME M!MonitorAssumption, M!PolicyAssumption, IsFiniteSet(Threads)
  PROVE  M!Spec => []WindowComplete
BY CompleteNow, MonitorInvariant, PTL DEF M!Spec

(* What the thread that has the lock judges: its event is the last, and    *)
(* the first is no older than the window.                                  *)
LEMMA ObservedWindow ==
  ASSUME NEW s \in Seq(M!Event), NEW e \in M!Event, NEW w, Window \in Nat,
         w = M!Pruned(Append(s, e), e.at - Window)
  PROVE  /\ w \in Seq(M!Event) /\ Len(w) \in Nat /\ Len(w) >= 1 /\ DOMAIN w = 1..Len(w)
         /\ w[Len(w)] = e /\ w[1].at >= e.at - Window
<1>1. PICK v : v = Append(s, e)
  OBVIOUS
<1>2. PICK c : c = e.at - Window
  OBVIOUS
<1>3. /\ v \in Seq(M!Event) /\ Len(v) \in Nat /\ Len(v) >= 1 /\ v[Len(v)] = e /\ c \in Int
      /\ w = M!Pruned(v, c) /\ ~(e.at < c)
  <2>1. e.at \in Int
    BY DEF M!Event
  <2>2. v \in Seq(M!Event) /\ Len(v) = Len(s) + 1 /\ v[Len(s) + 1] = e /\ Len(s) \in Nat
    BY <1>1
  <2>3. w = M!Pruned(v, c)
    BY <1>1, <1>2
  <2>4. c \in Int /\ ~(e.at < c)
    BY <1>2, <2>1
  <2> QED BY <2>2, <2>3, <2>4
<1>4. PICK p \in 0..Len(v) : /\ w \in Seq(M!Event) /\ Len(w) = Len(v) - p
                             /\ \A i \in 1..Len(w) : w[i] = v[i + p]
                             /\ \A i \in 1..p : v[i].at < c
  <2> DEFINE W == M!Pruned(v, c)
  <2>1. /\ W \in Seq(M!Event)
        /\ \E p \in 0..Len(v) : /\ Len(W) = Len(v) - p
                                /\ \A i \in 1..Len(W) : W[i] = v[i + p]
                                /\ \A i \in 1..p : v[i].at < c
    <3>1. v \in Seq(M!Event) /\ c \in Int
      BY <1>3
    <3> QED BY ONLY <3>1, WindowPruned
  <2>2. w = W
    BY <1>3
  <2> HIDE DEF W
  <2> QED BY <2>1, <2>2, Zenon
<1>5. p # Len(v)
  BY <1>3, <1>4
<1>6. Len(w) \in 1..Len(w) /\ Len(w) + p = Len(v) /\ Len(w) >= 1
  BY <1>3, <1>4, <1>5
<1>7. w[1].at >= c
  <2> DEFINE fresh == {i \in DOMAIN v : v[i].at >= c}
  <2>1. fresh # {}
    <3>1. Len(v) \in DOMAIN v /\ v[Len(v)].at \in Int
      BY <1>3 DEF M!Event
    <3> QED BY <1>3, <3>1
  <2>2. PICK m : m = CHOOSE i \in fresh : \A j \in fresh : i <= j
    OBVIOUS
  <2>3. m \in fresh
    <3>1. fresh \in SUBSET Nat
      BY <1>3
    <3>2. \A F \in SUBSET Nat : F # {} => (CHOOSE i \in F : \A j \in F : i <= j) \in F
      BY FirstOf
    <3> HIDE DEF fresh
    <3> QED BY <2>1, <2>2, <3>1, <3>2
  <2>4. w = SubSeq(v, m, Len(v))
    BY <1>3, <2>1, <2>2 DEF M!Pruned
  <2>5. m \in 1..Len(v) /\ v[m].at >= c
    BY <1>3, <2>3
  <2>6. w[1] = v[m]
    BY <1>3, <2>4, <2>5
  <2> QED BY <2>5, <2>6
<1>8. DOMAIN w = 1..Len(w) /\ w[Len(w)] = v[Len(w) + p]
  BY <1>4, <1>6
<1>9. w[Len(w)] = e
  BY <1>3, <1>6, <1>8
<1> QED BY <1>2, <1>4, <1>6, <1>7, <1>8, <1>9

(* Alone and in order, the thread judges what a sliding window has.        *)
LEMMA ObserveExact ==
  ASSUME M!MonitorAssumption, M!PolicyAssumption, IsFiniteSet(Threads), MonitorInv, MonitorInv',
         NEW t \in Threads, M!Observe(t), NEW e, e = latest[t], NEW w, w = win'[e.agent],
         \A i, j \in DOMAIN w : i < j => w[i].at <= w[j].at,
         \A u \in Threads \ {t} : sinkPc[u] # "observe" \/ latest[u].agent # e.agent
  PROVE  found'[t] = M!AnomaliesAt(emitted, M!RecentIn(emitted, e.agent, e.at), e)
<1>1. PICK a : a = e.agent
  OBVIOUS
<1>2. /\ sinkPc[t] = "observe" /\ sinkPc'[t] # "observe" /\ emitted' = emitted
      /\ \A u \in Threads \ {t} : sinkPc'[u] = sinkPc[u] /\ latest'[u] = latest[u]
      /\ win' = [win EXCEPT ![a] = M!Pruned(Append(win[a], e), e.at - Window)]
      /\ found' = [found EXCEPT ![t] = M!Anomalies(M!Pruned(Append(win[a], e), e.at - Window), e)]
  BY <1>1 DEF M!Observe, M!Return, MonitorInv, MonitorTypes
<1>3. e \in M!Event /\ a \in MonitoredAgents /\ e.at \in Int /\ Window \in Nat
  BY <1>1, <1>2 DEF MonitorInv, MonitorTypes, M!Event, M!PolicyAssumption
<1>4. w = M!Pruned(Append(win[a], e), e.at - Window) /\ found'[t] = M!Anomalies(w, e)
  BY <1>1, <1>2, <1>3 DEF MonitorInv, MonitorTypes
<1>5. /\ w \in Seq(M!Event) /\ Len(w) \in Nat /\ Len(w) >= 1 /\ DOMAIN w = 1..Len(w)
      /\ w[Len(w)] = e /\ w[1].at >= e.at - Window
  <2>1. win[a] \in Seq(M!Event)
    BY <1>3 DEF MonitorInv, MonitorTypes
  <2>2. w = M!Pruned(Append(win[a], e), e.at - Window)
    BY <1>4
  <2> QED BY ONLY <1>3, <2>1, <2>2, ObservedWindow
<1>6. ASSUME NEW i \in DOMAIN w
      PROVE  w[i] \in Counting(a, e.at) /\ w[i].at <= e.at
  <2>1. w[i] \in M!Event /\ w[1] \in M!Event /\ w[i].at \in Int /\ w[1].at \in Int
    <3>1. w[i] \in M!Event /\ w[1] \in M!Event
      BY <1>5
    <3> QED BY <3>1 DEF M!Event
  <2>2. w[i].agent = a /\ ~w[i].halted
    BY <1>1, <1>3 DEF MonitorInv, MonitorTypes, WindowsOwn
  <2>3. i = Len(w) \/ i < Len(w)
    BY <1>5
  <2>4. w[i].at <= e.at
    BY <1>3, <1>5, <2>1, <2>3
  <2>5. i = 1 \/ 1 < i
    BY <1>5
  <2>6. w[i].at >= e.at - Window
    BY <1>3, <1>5, <2>1, <2>5
  <2> QED BY <2>1, <2>2, <2>4, <2>6 DEF Counting, M!Counts
<1> DEFINE R == M!RecentIn(emitted, a, e.at)
<1>7. ASSUME NEW K \in SUBSET M!Event
      PROVE  /\ Cardinality(Places(w, K)) = Cardinality({i \in R : emitted[i] \in K})
             /\ Places(w, K) = {} <=> {i \in R : emitted[i] \in K} = {}
  <2>1. PICK C : C = Counting(a, e.at) \cap K
    OBVIOUS
  <2>2. CompleteFor(a, C)'
    <3>1. C \in SUBSET Counting(a, e.at) /\ Counting(a, e.at)' = Counting(a, e.at)
      BY <2>1 DEF Counting
    <3>2. \A i \in DOMAIN win'[a] : win'[a][i].at <= e.at
      BY <1>1, <1>6
    <3> QED BY <1>3, <3>1, <3>2 DEF MonitorInv, CompleteFrom, Counting
  <2>3. Waits(C)' = {}
    <3>1. \A x \in C : x.agent = a
      BY <2>1 DEF Counting, M!Counts
    <3> QED BY <1>1, <1>2, <3>1 DEF Waits
  <2>4. Places(w, C) = Places(w, K)
    BY <1>6, <2>1 DEF Places
  <2>5. Places(emitted, C) = {i \in R : emitted[i] \in K}
    <3>1. emitted \in Seq(M!Event)
      BY DEF MonitorInv, MonitorTypes
    <3>2. R = Places(emitted, Counting(a, e.at))
      BY <3>1, RecentPlaces
    <3> QED BY <2>1, <3>2 DEF Places
  <2>6. /\ IsFiniteSet(Places(w, C)) /\ Cardinality(Places(w, C)) \in Nat
        /\ IsFiniteSet(Places(emitted, C)) /\ Cardinality(Places(emitted, C)) \in Nat
    BY <1>5, PlacesFinite DEF MonitorInv, MonitorTypes
  <2>7. Cardinality(Places(w, C)) = Cardinality(Places(emitted, C))
    <3>1. Cardinality(Places(w, C)) + Cardinality(Waits(C)') = Cardinality(Places(emitted, C))
      BY <1>1, <1>2, <2>2 DEF CompleteFor
    <3> QED BY <2>3, <2>6, <3>1, FS_EmptySet
  <2>8. Places(w, C) = {} <=> Places(emitted, C) = {}
    BY <2>6, <2>7, FS_EmptySet
  <2> QED BY <2>4, <2>5, <2>7, <2>8
<1>8. \A i \in DOMAIN emitted : emitted[i] \in M!Event
  BY DEF MonitorInv, MonitorTypes
<1>9. Cardinality(DOMAIN w) = Cardinality(R)
  <2>1. Places(w, M!Event) = DOMAIN w
    BY <1>5 DEF Places
  <2>2. {i \in R : emitted[i] \in M!Event} = R
    BY <1>8 DEF M!RecentIn
  <2> HIDE DEF R
  <2> QED BY <1>7, <2>1, <2>2
<1>10. Cardinality({i \in DOMAIN w : w[i].decision = "deny"})
         = Cardinality({i \in R : emitted[i].decision = "deny"})
  <2>1. PICK K : K = {x \in M!Event : x.decision = "deny"}
    OBVIOUS
  <2>2. Places(w, K) = {i \in DOMAIN w : w[i].decision = "deny"}
    BY <1>5, <2>1 DEF Places
  <2>3. {i \in R : emitted[i] \in K} = {i \in R : emitted[i].decision = "deny"}
    BY <1>8, <2>1 DEF M!RecentIn
  <2>4. K \in SUBSET M!Event
    BY <2>1
  <2> HIDE DEF R
  <2> QED BY <1>7, <2>2, <2>3, <2>4
<1>11. {w[i].tool : i \in DOMAIN w} = {emitted[i].tool : i \in R}
  <2>1. ASSUME NEW x
        PROVE  (\E i \in DOMAIN w : w[i].tool = x) <=> (\E i \in R : emitted[i].tool = x)
    <3>1. PICK K : K = {y \in M!Event : y.tool = x}
      OBVIOUS
    <3>2. /\ Places(w, K) = {i \in DOMAIN w : w[i].tool = x}
          /\ Places(w, K) = {} <=> ~(\E i \in DOMAIN w : w[i].tool = x)
      <4>1. \A i \in DOMAIN w : w[i] \in M!Event
        BY <1>5
      <4> QED BY <3>1, <4>1 DEF Places
    <3>3. {i \in R : emitted[i] \in K} = {} <=> ~(\E i \in R : emitted[i].tool = x)
      <4>1. \A i \in R : emitted[i] \in M!Event
        BY <1>8 DEF M!RecentIn
      <4> HIDE DEF R
      <4> QED BY <3>1, <4>1
    <3>4. K \in SUBSET M!Event
      BY <3>1
    <3> HIDE DEF R
    <3> QED BY <1>7, <3>2, <3>3, <3>4
  <2>2. PICK inside, recent : inside = DOMAIN w /\ recent = R
    OBVIOUS
  <2>3. \A x : (\E i \in inside : w[i].tool = x) <=> (\E i \in recent : emitted[i].tool = x)
    BY <2>1, <2>2
  <2>4. {w[i].tool : i \in inside} = {emitted[i].tool : i \in recent}
    BY ONLY <2>3
  <2> HIDE DEF R
  <2> QED BY <2>2, <2>4
<1>12. M!Anomalies(w, e) = M!AnomaliesAt(emitted, R, e)
  <2> HIDE DEF R
  <2> QED BY <1>9, <1>10, <1>11, SameCardinality DEF M!Anomalies, M!AnomaliesAt
<1> QED BY <1>1, <1>4, <1>12

(* Every step judges so, whether or not the threads are scheduled fairly.  *)
LEMMA StepsExact ==
  ASSUME M!MonitorAssumption, M!PolicyAssumption, IsFiniteSet(Threads)
  PROVE  M!Init /\ [][M!Next]_(M!vars) => DetectionExact
<1> DEFINE Exact ==
      \A t \in Threads :
        LET e == latest[t]
            w == win'[e.agent]
            InOrder == \A i, j \in DOMAIN w : i < j => w[i].at <= w[j].at
            Alone == \A u \in Threads \ {t} : sinkPc[u] # "observe" \/ latest[u].agent # e.agent
        IN (sinkPc[t] = "observe" /\ sinkPc'[t] # "observe" /\ InOrder /\ Alone)
              => found'[t] = M!AnomaliesAt(emitted, M!RecentIn(emitted, e.agent, e.at), e)
<1>1. ASSUME MonitorInv, MonitorInv', [M!Next]_(M!vars) PROVE [Exact]_(M!vars)
  <2> SUFFICES ASSUME M!Next, NEW t \in Threads, NEW e, e = latest[t], NEW w, w = win'[e.agent],
                      sinkPc[t] = "observe", sinkPc'[t] # "observe",
                      \A i, j \in DOMAIN w : i < j => w[i].at <= w[j].at,
                      \A u \in Threads \ {t} : sinkPc[u] # "observe" \/ latest[u].agent # e.agent
               PROVE  found'[t] = M!AnomaliesAt(emitted, M!RecentIn(emitted, e.agent, e.at), e)
    BY <1>1
  <2>1. sinkPc \in [Threads -> {"idle", "observe", "trip"}]
    BY <1>1 DEF MonitorInv, MonitorTypes
  <2>2. ASSUME NEW u \in Threads, NEW agent \in MonitoredAgents, NEW tool \in Tools,
               NEW decision \in Decisions, M!Emit(u, agent, tool, decision)
        PROVE  FALSE
    <3>1. sinkPc[u] = "idle" /\ (sinkPc' = [sinkPc EXCEPT ![u] = "observe"] \/ sinkPc' = sinkPc)
      BY <2>2 DEF M!Emit
    <3> QED BY <2>1, <3>1
  <2>3. ASSUME NEW u \in Threads, M!Trip(u) PROVE FALSE
    <3>1. sinkPc[u] = "trip" /\ (sinkPc' = [sinkPc EXCEPT ![u] = "idle"] \/ sinkPc' = sinkPc)
      BY <2>3 DEF M!Trip, M!Return
    <3> QED BY <2>1, <3>1
  <2>4. ASSUME NEW u \in Threads, M!Observe(u) PROVE u = t
    BY <2>1, <2>4 DEF M!Observe, M!Return
  <2>5. ~(\E a \in MonitoredAgents : M!Reset(a)) /\ ~M!Tick
    BY DEF M!Reset, M!Tick
  <2>6. M!Observe(t)
    BY <2>2, <2>3, <2>4, <2>5 DEF M!Next
  <2> QED BY <1>1, <2>6, ObserveExact
<1>2. DetectionExact <=> [][Exact]_(M!vars)
  BY DEF DetectionExact, M!DetectionExact
<1> HIDE DEF Exact
<1> QED BY <1>1, <1>2, MonitorInvariant, PTL

(* An event that joins the window in order and alone is judged by exactly  *)
(* the calls of its agent that a sliding window has (monitor.py).          *)
THEOREM JudgedExactly ==
  ASSUME M!MonitorAssumption, M!PolicyAssumption, IsFiniteSet(Threads)
  PROVE  M!Spec => DetectionExact
BY StepsExact, PTL DEF M!Spec
-----------------------------------------------------------------------------
(* The budget window, whose theorems are those of the ledger. *)
LP == INSTANCE BudgetLedger_proofs WITH
        Window <- BudgetWindow, MaxTime <- BudgetTime, now <- budgetNow

LEMMA SameLedger ==
  /\ B!Spec <=> LP!Spec
  /\ B!TypeOK <=> LP!TypeOK
  /\ B!BudgetAssumption <=> LP!BudgetAssumption
<1>1. B!Spec <=> LP!Spec
  BY DEF B!Spec, LP!Spec, B!Init, LP!Init, B!Next, LP!Next, B!vars, LP!vars, B!Check, LP!Check,
         B!Charge, LP!Charge, B!Reset, LP!Reset, B!Tick, LP!Tick, B!Admits, LP!Admits,
         B!Read, LP!Read, B!Current, LP!Current, B!Pruned, LP!Pruned, B!Total, LP!Total,
         B!Add, LP!Add, B!Violates, LP!Violates, B!NoSpend, LP!NoSpend, B!OneCall,
         LP!OneCall, B!Dims, LP!Dims
<1>2. B!TypeOK <=> LP!TypeOK
  BY DEF B!TypeOK, LP!TypeOK, B!Spend, LP!Spend, B!Entry, LP!Entry, B!Dims, LP!Dims
<1>3. B!BudgetAssumption <=> LP!BudgetAssumption
  BY DEF B!BudgetAssumption, LP!BudgetAssumption, B!Spend, LP!Spend, B!Dims, LP!Dims
<1> QED BY <1>1, <1>2, <1>3

(* The lazily pruned spend is that of the window (budget.py).              *)
THEOREM WindowSpendExact ==
  ASSUME B!BudgetAssumption
  PROVE  B!Spec => []SpendExact
<1>1. SpendExact <=> LP!SpendExact
  BY DEF SpendExact, B!SpendExact, LP!SpendExact, B!Counted, LP!Counted, B!Counts, LP!Counts, B!Current,
         LP!Current, B!Pruned, LP!Pruned, B!Total, LP!Total, B!Add, LP!Add, B!NoSpend,
         LP!NoSpend, B!Dims, LP!Dims
<1> QED BY <1>1, SameLedger, LP!LazyPruningExact, PTL

(* No spend is given back but by time or a reset, and a check agrees with  *)
(* the charge that follows it (budget.py).                                 *)
THEOREM WindowSpendStands ==
  ASSUME B!BudgetAssumption
  PROVE  B!Spec => ChargesStand
<1>1. ChargesStand <=> LP!ChargesStand
  BY DEF ChargesStand, B!ChargesStand, LP!ChargesStand, B!NoRefund, LP!NoRefund, B!CheckAgreesWithCharge,
         LP!CheckAgreesWithCharge, B!Admits, LP!Admits, B!Current, LP!Current, B!Pruned,
         LP!Pruned, B!Total, LP!Total, B!Add, LP!Add, B!Violates, LP!Violates, B!NoSpend,
         LP!NoSpend, B!OneCall, LP!OneCall, B!Dims, LP!Dims, B!vars, LP!vars
<1> QED BY <1>1, SameLedger, LP!SpendStands

(* Whichever part runs, the steps of each are its own, or none.            *)
LEMMA PartsStep ==
  /\ AllInit => Init /\ M!Init /\ B!Init
  /\ [AllNext]_allVars => [Next]_vars /\ [M!Next]_(M!vars) /\ [B!Next]_(B!vars)
BY DEF AllInit, AllNext, allVars, monitorVars, budgetVars, M!vars, B!vars

LEMMA PartsRun ==
  AllSpec => Spec /\ (M!Init /\ [][M!Next]_(M!vars)) /\ B!Spec
BY PartsStep, PTL DEF AllSpec, Spec, B!Spec

(* Whichever part runs, every part keeps its types.                        *)
THEOREM PartsTyped ==
  ASSUME PartsAssumption, IsFiniteSet(Threads)
  PROVE  AllSpec => []TypesOK
<1>1. AllSpec => []TypeOK
  BY PartsRun, TypeCorrect, PTL DEF PartsAssumption
<1>2. AllSpec => []M!TypeOK
  <2>1. MonitorInv => M!TypeOK
    BY DEF MonitorInv, MonitorTypes, M!TypeOK, M!CB!TypeOK
  <2> QED BY PartsRun, <2>1, MonitorInvariant, PTL DEF PartsAssumption
<1>3. AllSpec => []B!TypeOK
  BY PartsRun, SameLedger, LP!TypeCorrect, PTL DEF PartsAssumption
<1> QED BY <1>1, <1>2, <1>3, PTL DEF TypesOK

(* Whichever part runs, what is remembered for a time is right: no message *)
(* is replayed, the windows miss nothing and judge exactly, no spend comes *)
(* back before its time.                                                   *)
THEOREM PartsRemember ==
  ASSUME PartsAssumption, IsFiniteSet(Threads)
  PROVE  AllSpec => /\ [](AcceptedOnceAsSent /\ WindowComplete /\ SpendExact)
                    /\ DetectionExact
                    /\ ChargesStand
<1>1. AllSpec => []AcceptedOnceAsSent
  BY PartsRun, NoReplay, PTL DEF PartsAssumption
<1>2. AllSpec => []WindowComplete /\ DetectionExact
  BY PartsRun, CompleteNow, MonitorInvariant, StepsExact, PTL DEF PartsAssumption
<1>3. AllSpec => []SpendExact /\ ChargesStand
  BY PartsRun, WindowSpendExact, WindowSpendStands, PTL DEF PartsAssumption
<1> QED BY <1>1, <1>2, <1>3, PTL
=============================================================================
