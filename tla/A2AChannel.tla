----------------------------- MODULE A2AChannel -----------------------------
(***************************************************************************)
(* capguard/a2a.py: agents send each other signed messages, which the      *)
(* network may deliver late, more than once, to the wrong recipient or     *)
(* altered; several threads verify them over one store of used nonces.     *)
(*                                                                         *)
(* verify reads the clock three times, the last time (in the nonce store)  *)
(* before it takes the lock, so it is four steps here.  The wall clock and *)
(* the monotonic clock advance together: `now` is both.  A signature is    *)
(* the signed content itself.                                              *)
(***************************************************************************)
EXTENDS Capability

CONSTANTS
  Threads, Ids, Agents,
  Authority,      \* the capabilities each agent may hold, one list per value of `era`
  Requests,       \* capability lists a message may claim
  Ttls, DefaultTtl,
  Nothing,
  MaxTime, MaxAccepted

VARIABLES
  now,
  era,        \* which authority agents hold at present
  sent,       \* per id: the message signed under it, or Nothing
  seen,       \* _NonceStore._seen: until when a nonce is remembered
  pc, msg,    \* per thread: where it is in verify, and with which message
  read,       \* per thread: the ttl, then the monotonic clock it read
  accepted    \* history: deliveries accepted and when

vars == <<now, era, sent, seen, pc, msg, read, accepted>>

Message == [id : Ids, sender : Agents, recipient : Agents, capabilities : Requests,
            expires_at : Int]

ChannelAssumption ==
  /\ DefaultTtl \in Nat \ {0} /\ Ttls \subseteq Nat
  /\ Len(Authority) \in Nat \ {0} /\ DOMAIN Authority = 1..Len(Authority)
  /\ MaxTime \in Nat
  /\ Nothing \notin Message

TypeOK ==
  /\ now \in 0..MaxTime /\ era \in DOMAIN Authority
  /\ \A id \in Ids : sent[id] # Nothing => sent[id] \in Message /\ sent[id].id = id
  /\ DOMAIN seen \subseteq Ids /\ \A id \in DOMAIN seen : seen[id] \in Nat
  /\ \A t \in Threads :
       /\ pc[t] \in {"idle", "ttl", "clock", "consume"}
       /\ (pc[t] = "idle") = (msg[t] = Nothing)
       /\ read[t].ttl \in Nat /\ read[t].clock \in 0..now
  /\ \A i \in DOMAIN accepted : accepted[i].msg \in Message

Init ==
  /\ now = 0
  /\ era = 1
  /\ sent = [id \in Ids |-> Nothing]
  /\ seen = << >>
  /\ pc = [t \in Threads |-> "idle"]
  /\ msg = [t \in Threads |-> Nothing]
  /\ read = [t \in Threads |-> [ttl |-> 0, clock |-> 0]]
  /\ accepted = << >>

MayClaim(agent, caps) == AllCovered(Authority[era][agent], caps)
-----------------------------------------------------------------------------
Send(id, sender, recipient, caps, ttl) ==
  /\ sent[id] = Nothing
  /\ MayClaim(sender, caps)
  /\ sent' = [sent EXCEPT ![id] =
                [id |-> id, sender |-> sender, recipient |-> recipient, capabilities |-> caps,
                 expires_at |-> now + (IF ttl = 0 THEN DefaultTtl ELSE ttl)]]
  /\ UNCHANGED <<now, era, seen, pc, msg, read, accepted>>

(* The signature holds for what was sent and nothing else. *)
Authentic(m) == sent[m.id] = m

(* verify, up to the nonce: signature, expiry, recipient, and what the     *)
(* message claims against the sender's authority as known now.             *)
Check(t, m, recipient) ==
  /\ pc[t] = "idle"
  /\ Authentic(m) /\ now < m.expires_at /\ m.recipient = recipient
  /\ MayClaim(m.sender, m.capabilities)
  /\ Len(accepted) < MaxAccepted
  /\ pc' = [pc EXCEPT ![t] = "ttl"]
  /\ msg' = [msg EXCEPT ![t] = m]
  /\ UNCHANGED <<now, era, sent, seen, read, accepted>>

(* Mutant: a nonce is remembered for a fixed time. *)
NonceTtlFixed(m) == 1

NonceTtl(m) == IF m.expires_at - now > 1 THEN m.expires_at - now ELSE 1

ReadTtl(t) ==
  /\ pc[t] = "ttl"
  /\ pc' = [pc EXCEPT ![t] = "clock"]
  /\ read' = [read EXCEPT ![t].ttl = NonceTtl(msg[t])]
  /\ UNCHANGED <<now, era, sent, seen, msg, accepted>>

ReadClock(t) ==
  /\ pc[t] = "clock"
  /\ pc' = [pc EXCEPT ![t] = "consume"]
  /\ read' = [read EXCEPT ![t].clock = now]
  /\ UNCHANGED <<now, era, sent, seen, msg, accepted>>

Return(t) ==
  /\ pc' = [pc EXCEPT ![t] = "idle"]
  /\ msg' = [msg EXCEPT ![t] = Nothing]
  /\ read' = [read EXCEPT ![t] = [ttl |-> 0, clock |-> 0]]

Live(clock) == {id \in DOMAIN seen : seen[id] > clock}

(* _NonceStore.consume: under the lock, with the clock read before it.     *)
Consume(t) ==
  LET id == msg[t].id
      live == Live(read[t].clock)
      Until(n) == IF n \in live THEN seen[n] ELSE read[t].clock + read[t].ttl
  IN /\ pc[t] = "consume"
     /\ seen' = [n \in live \cup {id} |-> Until(n)]
     /\ accepted' = IF id \in live THEN accepted
                    ELSE Append(accepted, [msg |-> msg[t], at |-> now])
     /\ Return(t)
     /\ UNCHANGED <<now, era, sent>>
-----------------------------------------------------------------------------
(* What the network may deliver: a message as it was sent, to anybody and  *)
(* any number of times, or with other claims in it.                        *)
Deliverable ==
  {sent[id] : id \in {i \in Ids : sent[i] # Nothing}}
  \cup {[sent[p[1]] EXCEPT !.capabilities = p[2]] :
          p \in {i \in Ids : sent[i] # Nothing} \X Requests}

(* An operator changes what agents may do. *)
Regrant == era < Len(Authority) /\ era' = era + 1
           /\ UNCHANGED <<now, sent, seen, pc, msg, read, accepted>>

Tick == now < MaxTime /\ now' = now + 1
        /\ UNCHANGED <<era, sent, seen, pc, msg, read, accepted>>

Next ==
  \/ \E id \in Ids, s, r \in Agents, caps \in Requests, ttl \in Ttls : Send(id, s, r, caps, ttl)
  \/ \E t \in Threads :
       \/ \E m \in Deliverable, r \in Agents : Check(t, m, r)
       \/ ReadTtl(t) \/ ReadClock(t) \/ Consume(t)
  \/ Regrant
  \/ Tick

Spec == Init /\ [][Next]_vars
-----------------------------------------------------------------------------
Acceptances(id) == {i \in DOMAIN accepted : accepted[i].msg.id = id}

(* "Replaying it is rejected": as long as a message lives it is accepted   *)
(* once, however deliveries, clocks read ahead of the lock and pruning by  *)
(* other threads interleave.                                               *)
OnceInLife ==
  \A id \in Ids :
    Cardinality({i \in Acceptances(id) : accepted[i].at < accepted[i].msg.expires_at}) <= 1

(* What is accepted is what was sent, to the recipient it was sent to.     *)
AcceptedAsSent == \A i \in DOMAIN accepted : accepted[i].msg = sent[accepted[i].msg.id]

(* What the channel promises the receiving agent.                          *)
AcceptedOnceAsSent == OnceInLife /\ AcceptedAsSent

(* "A single-use nonce": no message is ever accepted twice. *)
SingleUse == \A id \in Ids : Cardinality(Acceptances(id)) <= 1
=============================================================================
