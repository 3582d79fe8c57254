------------------------ MODULE ResourceServer_proofs ------------------------
(***************************************************************************)
(* The HTTP boundary, for any number of handler threads, tokens and key    *)
(* sets, whatever rotations, failed fetches and requests overlap.          *)
(***************************************************************************)
EXTENDS ResourceServer, TLAPS

Refreshing == {"fetch", "install", "stamp"}
Reading == {"look", "count", "pick"}
Looking == {"acquire"} \cup Refreshing \cup Reading
Labels == {"idle", "authorize", "check"} \cup Looking

(* The keys a request can be verified with. *)
PublishedKeys == UNION {{KeySets[s][i] : i \in DOMAIN KeySets[s]} : s \in DOMAIN KeySets}
FixedKeys == {s.key : s \in Settings}
HeldKeys == PublishedKeys \cup FixedKeys

Requests == [token : Tokens \cup {NoToken}, started : Nat, why : {"none", "stale", "miss"},
             got : 0..Len(KeySets), failed : BOOLEAN, key : HeldKeys \cup {NoKid}]
Installs == [set : DOMAIN KeySets, at : Nat]
Passed == [token : Tokens \cup {NoToken}, started : Nat, failed : BOOLEAN]

RequestsOK ==
  /\ pc \in [Threads -> Labels] /\ req \in [Threads -> Requests]
  /\ \A t \in Threads : /\ pc[t] = "idle" => req[t] = NoRequest
                        /\ req[t].started <= now

Types ==
  /\ now \in 0..MaxTime /\ published \in DOMAIN KeySets
  /\ server \in Settings \cup {Down}
  /\ byKid \in 0..Len(KeySets) /\ all \in 0..Len(KeySets) /\ lastRefresh \in 0..now
  /\ installs \in Seq(Installs) /\ \A i \in DOMAIN installs : installs[i].at <= now
  /\ handled \subseteq Passed
  /\ RequestsOK

(* One thread refreshes at a time, the one that holds the lock. *)
LockInv ==
  /\ lock \in Threads \cup {NoThread}
  /\ \A t \in Threads : pc[t] \in Refreshing <=> lock = t

Jwks == server # Down /\ server.verifier = "jwks"

(* Nothing happens before the server has started. *)
QuietInv == server = Down => handled = {} /\ \A t \in Threads : pc[t] = "idle"

(* The tables hold key sets that were installed, at the time of the last   *)
(* refresh or after it; the one by kid holds the last.                     *)
TablesInv ==
  Jwks => /\ Len(installs) \in DOMAIN installs
          /\ byKid = installs[Len(installs)].set /\ lastRefresh <= installs[Len(installs)].at
          /\ \E i \in DOMAIN installs : all = installs[i].set /\ lastRefresh <= installs[i].at

(* No key set is older than one installed before it, nor newer than what   *)
(* is published.                                                           *)
OrderInv ==
  /\ NoRollback
  /\ \A i \in DOMAIN installs : installs[i].set <= published

Recent(time, started) == time >= started \/ time > started - CacheTtl

(* A key the tables once held under the name the token bears, recently     *)
(* enough for a request of that time.                                      *)
Vouched(token, key, started, failed) ==
  \E i \in DOMAIN installs : \E j \in DOMAIN KeySets[installs[i].set] :
    /\ key = KeySets[installs[i].set][j]
    /\ key.alg = token.alg /\ token.kid \in {key.kid, NoKid}
    /\ failed \/ Recent(installs[i].at, started)

(* What a thread has established when it is where it is. *)
ThreadOK(t) ==
  /\ pc[t] \in Looking => Jwks /\ req[t].token \in Tokens
  /\ pc[t] = "install" => /\ req[t].got \in DOMAIN KeySets /\ req[t].got <= published
                          /\ \A i \in DOMAIN installs : installs[i].set <= req[t].got
  /\ pc[t] = "stamp" => req[t].got = byKid
  /\ pc[t] \in Reading => req[t].failed \/ Recent(lastRefresh, req[t].started)
  /\ pc[t] \in {"count", "pick"} => req[t].token.kid = NoKid
  /\ pc[t] = "check" =>
       /\ server # Down /\ req[t].token \in Tokens
       /\ \/ server.verifier = "key" /\ req[t].key = server.key
          \/ Jwks /\ Vouched(req[t].token, req[t].key, req[t].started, req[t].failed)

(* What is passed on under authentication was verified with such a key. *)
Genuine(h) ==
  server.verifier # "none" =>
    /\ h.token \in Tokens /\ Audience \in h.token.aud /\ RequiredScopes \subseteq h.token.scopes
    /\ \/ server.verifier = "key" /\ h.token.key = server.key.key
       \/ /\ server.verifier = "jwks"
          /\ \E key \in HeldKeys : /\ key.key = h.token.key
                                   /\ Vouched(h.token, key, h.started, h.failed)

IInv ==
  /\ Types /\ LockInv /\ QuietInv /\ TablesInv /\ OrderInv
  /\ \A t \in Threads : ThreadOK(t)
  /\ \A h \in handled : Genuine(h)

Others(t) == \A u \in Threads \ {t} : pc'[u] = pc[u] /\ req'[u] = req[u]

(* The tables and what led to them only grow. *)
Grows ==
  /\ server' = server /\ published <= published' /\ lastRefresh <= lastRefresh'
  /\ \A i \in DOMAIN installs : /\ i \in DOMAIN installs'
                                /\ installs'[i].set = installs[i].set
                                /\ installs[i].at <= installs'[i].at
-----------------------------------------------------------------------------
(* A key of a key set, or of a setting, is held. *)
LEMMA KeyHeld ==
  /\ \A s \in DOMAIN KeySets : \A i \in DOMAIN KeySets[s] : KeySets[s][i] \in HeldKeys
  /\ \A s \in Settings : s.key \in HeldKeys
<1>1. ASSUME NEW s \in DOMAIN KeySets, NEW i \in DOMAIN KeySets[s]
      PROVE  KeySets[s][i] \in PublishedKeys
  <2>1. KeySets[s][i] \in {KeySets[s][j] : j \in DOMAIN KeySets[s]}
    OBVIOUS
  <2>2. {KeySets[s][j] : j \in DOMAIN KeySets[s]} \in
          {{KeySets[x][j] : j \in DOMAIN KeySets[x]} : x \in DOMAIN KeySets}
    BY Zenon
  <2> QED BY <2>1, <2>2, Zenon DEF PublishedKeys
<1>2. \A s \in Settings : s.key \in FixedKeys
  BY DEF FixedKeys
<1> QED BY <1>1, <1>2 DEF HeldKeys

(* The numbers among the state. *)
LEMMA Numbers ==
  ASSUME ServerAssumption, Types
  PROVE  /\ now \in Nat /\ lastRefresh \in Nat /\ lastRefresh <= now /\ published \in Nat
         /\ byKid \in Nat /\ all \in Nat /\ CacheTtl \in Nat /\ Len(KeySets) \in Nat
         /\ DOMAIN KeySets = 1..Len(KeySets)
         /\ \A t \in Threads : req[t] \in Requests /\ req[t].started \in Nat /\ req[t].started <= now
         /\ \A i \in DOMAIN installs : /\ installs[i] \in Installs /\ installs[i].set \in DOMAIN KeySets
                                       /\ installs[i].set \in Nat
                                       /\ installs[i].at \in Nat /\ installs[i].at <= now
<1>1. /\ now \in Nat /\ lastRefresh \in Nat /\ lastRefresh <= now /\ published \in Nat
      /\ byKid \in Nat /\ all \in Nat /\ CacheTtl \in Nat /\ Len(KeySets) \in Nat
      /\ DOMAIN KeySets = 1..Len(KeySets)
  BY DEF ServerAssumption, Types
<1>2. \A t \in Threads : req[t] \in Requests /\ req[t].started \in Nat /\ req[t].started <= now
  BY DEF Types, RequestsOK, Requests
<1>3. \A i \in DOMAIN installs : installs[i] \in Installs /\ installs[i].at <= now
  BY DEF Types
<1> QED BY <1>1, <1>2, <1>3 DEF Installs

(* A thread that moves on, with its request as it is to be. *)
LEMMA Moved ==
  ASSUME ServerAssumption, Types, NEW t \in Threads, NEW label \in Labels, NEW r \in Requests,
         r.started <= now, label = "idle" => r = NoRequest,
         pc' = [pc EXCEPT ![t] = label], req' = [req EXCEPT ![t] = r], now' = now
  PROVE  RequestsOK' /\ Others(t) /\ pc'[t] = label /\ req'[t] = r
<1>1. pc'[t] = label /\ req'[t] = r /\ Others(t)
  BY DEF Types, RequestsOK, Others
<1>2. pc' \in [Threads -> Labels] /\ req' \in [Threads -> Requests]
  BY DEF Types, RequestsOK
<1>3. ASSUME NEW u \in Threads
      PROVE  (pc'[u] = "idle" => req'[u] = NoRequest) /\ req'[u].started <= now
  <2>1. CASE u = t
    BY <1>1, <2>1
  <2>2. CASE u # t
    BY <1>1, <2>2 DEF Types, RequestsOK, Others
  <2> QED BY <2>1, <2>2
<1> QED BY <1>1, <1>2, <1>3 DEF RequestsOK

(* A key vouched for stays vouched for. *)
LEMMA VouchedStays ==
  ASSUME ServerAssumption, Types, Grows, Types',
         NEW token, NEW key, NEW started \in Nat, NEW failed,
         Vouched(token, key, started, failed)
  PROVE  Vouched(token, key, started, failed)'
<1>1. PICK i \in DOMAIN installs : \E j \in DOMAIN KeySets[installs[i].set] :
         /\ key = KeySets[installs[i].set][j]
         /\ key.alg = token.alg /\ token.kid \in {key.kid, NoKid}
         /\ failed \/ Recent(installs[i].at, started)
  BY DEF Vouched
<1>2. /\ i \in DOMAIN installs' /\ installs'[i].set = installs[i].set
      /\ installs[i].at <= installs'[i].at
  BY DEF Grows
<1>3. installs[i].at \in Nat /\ installs'[i].at \in Nat /\ CacheTtl \in Nat
  <2>1. installs' \in Seq(Installs)
    BY DEF Types
  <2>2. installs'[i] \in Installs
    BY <1>2, <2>1
  <2> QED BY <2>2, Numbers DEF Installs
<1>4. Recent(installs[i].at, started) => Recent(installs'[i].at, started)
  BY <1>2, <1>3 DEF Recent
<1> QED BY <1>1, <1>2, <1>4 DEF Vouched

(* What a thread has established holds whatever others do, as long as they *)
(* leave the tables alone while it refreshes them.                         *)
LEMMA ThreadStays ==
  ASSUME ServerAssumption, Types, Types', Grows, NEW u \in Threads, ThreadOK(u),
         pc'[u] = pc[u], req'[u] = req[u],
         pc[u] \in Refreshing => UNCHANGED <<byKid, installs>>
  PROVE  ThreadOK(u)'
<1>1. /\ req[u].started \in Nat /\ lastRefresh \in Nat /\ lastRefresh' \in Nat
      /\ published \in Nat /\ published' \in Nat /\ CacheTtl \in Nat
      /\ lastRefresh <= lastRefresh' /\ published <= published' /\ server' = server
      /\ req[u].got \in Nat
  <2>1. /\ req[u] \in Requests /\ req[u].started \in Nat /\ lastRefresh \in Nat
        /\ published \in Nat /\ CacheTtl \in Nat /\ Len(KeySets) \in Nat
        /\ DOMAIN KeySets = 1..Len(KeySets)
    BY Numbers
  <2>2. lastRefresh' \in Nat /\ published' \in Nat
    BY <2>1 DEF Types
  <2>3. req[u].got \in Nat
    BY <2>1 DEF Requests
  <2> QED BY <2>1, <2>2, <2>3 DEF Grows
<1>2. Recent(lastRefresh, req[u].started) => Recent(lastRefresh', req[u].started)
  BY <1>1 DEF Recent
<1>3. Vouched(req[u].token, req[u].key, req[u].started, req[u].failed)
        => Vouched(req[u].token, req[u].key, req[u].started, req[u].failed)'
  <2>1. PICK token, key, failed : token = req[u].token /\ key = req[u].key /\ failed = req[u].failed
    OBVIOUS
  <2>2. PICK started \in Nat : started = req[u].started
    BY <1>1
  <2>3. Vouched(token, key, started, failed) => Vouched(token, key, started, failed)'
    BY VouchedStays
  <2> QED BY <2>1, <2>2, <2>3 DEF Vouched
<1>4. Jwks' = Jwks
  BY <1>1 DEF Jwks
<1>5. pc[u] = "install" => /\ req[u].got <= published'
                           /\ \A i \in DOMAIN installs' : installs'[i].set <= req[u].got
  BY <1>1 DEF ThreadOK, Refreshing
<1>6. pc[u] = "stamp" => req[u].got = byKid'
  BY DEF ThreadOK, Refreshing
<1> QED BY <1>1, <1>2, <1>3, <1>4, <1>5, <1>6 DEF ThreadOK
-----------------------------------------------------------------------------
(* The ways a handler thread goes on: it answers, ... *)
LEMMA Answers ==
  ASSUME ServerAssumption, Types, NEW t \in Threads, Goto(t, "idle"), Keep(t, NoRequest), now' = now
  PROVE  RequestsOK' /\ Others(t) /\ pc'[t] = "idle" /\ ThreadOK(t)'
<1>1. NoRequest \in Requests /\ NoRequest.started <= now
  BY Numbers DEF NoRequest, Requests
<1>2. RequestsOK' /\ Others(t) /\ pc'[t] = "idle"
  BY <1>1, Moved DEF Goto, Keep, Labels
<1> QED BY <1>2 DEF ThreadOK, Looking, Refreshing, Reading

(* ... it has a key to check the token with, ... *)
LEMMA HasKey ==
  ASSUME ServerAssumption, Types, NEW t \in Threads, NEW key \in HeldKeys, Chosen(t, key),
         UNCHANGED <<now, server, tables>>, server # Down, req[t].token \in Tokens,
         \/ server.verifier = "key" /\ key = server.key
         \/ Jwks /\ Vouched(req[t].token, key, req[t].started, req[t].failed)
  PROVE  RequestsOK' /\ Others(t) /\ pc'[t] = "check" /\ ThreadOK(t)'
<1> DEFINE r == [req[t] EXCEPT !.key = key]
<1>1. /\ r \in Requests /\ r.key = key /\ r.token = req[t].token /\ r.failed = req[t].failed
      /\ r.started = req[t].started /\ r.started <= now
  BY Numbers DEF Requests
<1>2. pc' = [pc EXCEPT ![t] = "check"] /\ req' = [req EXCEPT ![t] = r]
  BY DEF Chosen, Goto, Keep
<1> HIDE DEF r
<1>3. RequestsOK' /\ Others(t) /\ pc'[t] = "check" /\ req'[t] = r
  BY <1>1, <1>2, Moved DEF Labels
<1>4. server' = server /\ installs' = installs
  BY DEF tables
<1> QED BY <1>1, <1>3, <1>4 DEF ThreadOK, Looking, Refreshing, Reading, Jwks, Vouched

(* ... or its key is unknown, and it refreshes the tables once. *)
LEMMA Misses ==
  ASSUME ServerAssumption, Types, NEW t \in Threads, Miss(t),
         UNCHANGED <<now, server, tables>>, Jwks, req[t].token \in Tokens
  PROVE  RequestsOK' /\ Others(t) /\ pc'[t] \in {"idle", "acquire"} /\ ThreadOK(t)'
<1>1. CASE Refuse(t)
  BY <1>1, Answers DEF Refuse
<1>2. CASE Goto(t, "acquire") /\ Keep(t, [req[t] EXCEPT !.why = "miss"])
  <2> DEFINE r == [req[t] EXCEPT !.why = "miss"]
  <2>1. r \in Requests /\ r.token = req[t].token /\ r.started <= now
    BY Numbers DEF Requests
  <2>2. pc' = [pc EXCEPT ![t] = "acquire"] /\ req' = [req EXCEPT ![t] = r]
    BY <1>2 DEF Goto, Keep
  <2> HIDE DEF r
  <2>3. RequestsOK' /\ Others(t) /\ pc'[t] = "acquire" /\ req'[t] = r
    BY <2>1, <2>2, Moved DEF Labels, Looking
  <2> QED BY <2>1, <2>3 DEF ThreadOK, Looking, Refreshing, Reading, Jwks
<1> QED BY <1>1, <1>2 DEF Miss

(* A request comes in. *)
LEMMA ReceiveOK ==
  ASSUME ServerAssumption, IInv, NEW t \in Threads, NEW token \in Tokens \cup {NoToken},
         Receive(t, token)
  PROVE  RequestsOK' /\ Others(t) /\ pc'[t] = "authorize" /\ ThreadOK(t)'
<1> DEFINE r == [NoRequest EXCEPT !.token = token, !.started = now]
<1>0. Types
  BY DEF IInv
<1>1. r \in Requests /\ r.started <= now
  <2>1. now \in Nat /\ 0 \in 0..Len(KeySets)
    BY <1>0, Numbers
  <2>2. NoRequest \in Requests
    BY <2>1 DEF NoRequest, Requests
  <2>3. PICK q \in Requests : q = [NoRequest EXCEPT !.token = token]
    BY <2>2 DEF Requests
  <2>4. r = [q EXCEPT !.started = now]
    BY <2>3
  <2> HIDE DEF r
  <2>5. r \in Requests
    BY <2>1, <2>3, <2>4 DEF Requests
  <2>6. r.started = now
    BY <2>3, <2>4 DEF Requests
  <2> QED BY <2>1, <2>5, <2>6
<1>2. pc' = [pc EXCEPT ![t] = "authorize"] /\ req' = [req EXCEPT ![t] = r] /\ now' = now
  BY DEF Receive, Goto, Keep
<1> HIDE DEF r
<1>3. RequestsOK' /\ Others(t) /\ pc'[t] = "authorize"
  BY <1>0, <1>1, <1>2, Moved DEF Labels
<1> QED BY <1>3 DEF ThreadOK, Looking, Refreshing, Reading

(* The server decides how to verify a token. *)
LEMMA AuthorizeOK ==
  ASSUME ServerAssumption, IInv, NEW t \in Threads, Authorize(t)
  PROVE  RequestsOK' /\ Others(t) /\ pc'[t] \in {"idle", "check", "acquire", "look"} /\ ThreadOK(t)'
<1>0. /\ Types /\ pc[t] = "authorize" /\ UNCHANGED <<now, server, tables>>
      /\ req[t] \in Requests /\ server # Down /\ server \in Settings
      /\ server.verifier \in {"none", "key", "jwks"}
  BY Numbers DEF Authorize, IInv, QuietInv, Types, ServerAssumption
<1>1. CASE Handle(t) \/ Refuse(t)
  BY <1>0, <1>1, Answers DEF Handle, Refuse
<1>2. CASE server.verifier = "key" /\ req[t].token # NoToken /\ VerifyWithKey(t)
  <2>1. CASE Chosen(t, server.key)
    BY <1>0, <1>2, <2>1, HasKey, KeyHeld DEF Requests
  <2> QED BY <1>1, <1>2, <2>1 DEF VerifyWithKey
<1>3. CASE Jwks /\ req[t].token \in Tokens /\ VerifyWithTable(t)
  <2>1. CASE Goto(t, "acquire") /\ Keep(t, [req[t] EXCEPT !.why = "stale"])
    <3> DEFINE r == [req[t] EXCEPT !.why = "stale"]
    <3>1. r \in Requests /\ r.token = req[t].token /\ r.started <= now
      BY <1>0, Numbers DEF Requests
    <3>2. pc' = [pc EXCEPT ![t] = "acquire"] /\ req' = [req EXCEPT ![t] = r] /\ now' = now
      BY <1>0, <2>1 DEF Goto, Keep
    <3> HIDE DEF r
    <3>3. RequestsOK' /\ Others(t) /\ pc'[t] = "acquire" /\ req'[t] = r
      BY <1>0, <3>1, <3>2, Moved DEF Labels, Looking
    <3> QED BY <1>0, <1>3, <3>1, <3>3 DEF ThreadOK, Looking, Refreshing, Reading, Jwks
  <2>2. CASE ~Stale /\ Goto(t, "look") /\ UNCHANGED req
    <3>1. req' = [req EXCEPT ![t] = req[t]] /\ pc' = [pc EXCEPT ![t] = "look"] /\ now' = now
      BY <1>0, <2>2 DEF Goto, Types, RequestsOK
    <3>2. RequestsOK' /\ Others(t) /\ pc'[t] = "look" /\ req'[t] = req[t]
      BY <1>0, <3>1, Numbers, Moved DEF Labels, Looking, Reading
    <3>3. Recent(lastRefresh, req[t].started)
      BY <1>0, <2>2, Numbers DEF Stale, Recent
    <3>4. lastRefresh' = lastRefresh
      BY <1>0 DEF tables
    <3> QED BY <1>0, <1>3, <3>2, <3>3, <3>4 DEF ThreadOK, Looking, Refreshing, Reading, Jwks
  <2> QED BY <1>1, <1>3, <2>1, <2>2 DEF VerifyWithTable
<1> QED
  <2>1. req[t].token # NoToken => req[t].token \in Tokens
    BY <1>0 DEF Requests
  <2> QED BY <1>0, <1>1, <1>2, <1>3, <2>1 DEF Authorize, Jwks

(* A thread that takes the lock. *)
LEMMA AcquireOK ==
  ASSUME ServerAssumption, IInv, NEW t \in Threads, Acquire(t)
  PROVE  RequestsOK' /\ Others(t) /\ pc'[t] = "fetch" /\ ThreadOK(t)'
<1>0. Types /\ ThreadOK(t) /\ UNCHANGED <<now, server>> /\ pc[t] = "acquire" /\ req[t] \in Requests
  BY Numbers DEF IInv, Acquire
<1>1. req' = [req EXCEPT ![t] = req[t]] /\ pc' = [pc EXCEPT ![t] = "fetch"] /\ req[t].started <= now
  BY <1>0, Numbers DEF Acquire, Goto, Types, RequestsOK
<1>2. RequestsOK' /\ Others(t) /\ pc'[t] = "fetch" /\ req'[t] = req[t]
  BY <1>0, <1>1, Moved DEF Labels, Looking, Refreshing
<1> QED BY <1>0, <1>2 DEF ThreadOK, Looking, Refreshing, Reading, Jwks

(* What is fetched is what is published now, no older than any install. *)
LEMMA FetchOK ==
  ASSUME ServerAssumption, IInv, NEW t \in Threads, Fetch(t)
  PROVE  RequestsOK' /\ Others(t) /\ pc'[t] = "install" /\ ThreadOK(t)'
<1>0. /\ Types /\ ThreadOK(t) /\ UNCHANGED <<now, server, published, tables>> /\ pc[t] = "fetch"
      /\ req[t] \in Requests /\ published \in DOMAIN KeySets /\ published \in 0..Len(KeySets)
      /\ \A i \in DOMAIN installs : installs[i].set <= published
  BY Numbers DEF IInv, Fetch, OrderInv, Types
<1> DEFINE r == [req[t] EXCEPT !.got = published]
<1>1. /\ r \in Requests /\ r.token = req[t].token /\ r.got = published /\ r.started <= now
  BY <1>0, Numbers DEF Requests
<1>2. pc' = [pc EXCEPT ![t] = "install"] /\ req' = [req EXCEPT ![t] = r]
  BY DEF Fetch, Goto, Keep
<1> HIDE DEF r
<1>3. RequestsOK' /\ Others(t) /\ pc'[t] = "install" /\ req'[t] = r
  BY <1>0, <1>1, <1>2, Moved DEF Labels, Looking, Refreshing
<1>4. published <= published /\ installs' = installs
  BY <1>0, Numbers DEF tables
<1> QED BY <1>0, <1>1, <1>3, <1>4 DEF ThreadOK, Looking, Refreshing, Reading, Jwks

(* A fetch that fails marks the request or refuses it. *)
LEMMA FetchFailsOK ==
  ASSUME ServerAssumption, IInv, NEW t \in Threads, FetchFails(t)
  PROVE  RequestsOK' /\ Others(t) /\ pc'[t] \in {"idle", "look"} /\ ThreadOK(t)'
<1>0. /\ Types /\ ThreadOK(t) /\ UNCHANGED <<now, server, tables>> /\ pc[t] = "fetch"
      /\ req[t] \in Requests
  BY Numbers DEF IInv, FetchFails
<1>1. CASE Refuse(t)
  BY <1>0, <1>1, Answers DEF Refuse
<1>2. CASE Goto(t, "look") /\ Keep(t, [req[t] EXCEPT !.failed = TRUE])
  <2> DEFINE r == [req[t] EXCEPT !.failed = TRUE]
  <2>1. r \in Requests /\ r.token = req[t].token /\ r.failed /\ r.started <= now
    BY <1>0, Numbers DEF Requests
  <2>2. pc' = [pc EXCEPT ![t] = "look"] /\ req' = [req EXCEPT ![t] = r]
    BY <1>2 DEF Goto, Keep
  <2> HIDE DEF r
  <2>3. RequestsOK' /\ Others(t) /\ pc'[t] = "look" /\ req'[t] = r
    BY <1>0, <2>1, <2>2, Moved DEF Labels, Looking, Reading
  <2> QED BY <1>0, <2>1, <2>3 DEF ThreadOK, Looking, Refreshing, Reading, Jwks
<1> QED BY <1>1, <1>2 DEF FetchFails

(* The refresh puts in what it fetched. *)
LEMMA InstallOK ==
  ASSUME ServerAssumption, IInv, NEW t \in Threads, Install(t)
  PROVE  RequestsOK' /\ Others(t) /\ pc'[t] = "stamp" /\ ThreadOK(t)'
<1>0. Types /\ ThreadOK(t) /\ UNCHANGED <<now, server>> /\ pc[t] = "install" /\ req[t] \in Requests
  BY Numbers DEF IInv, Install
<1>1. req' = [req EXCEPT ![t] = req[t]] /\ pc' = [pc EXCEPT ![t] = "stamp"] /\ req[t].started <= now
  BY <1>0, Numbers DEF Install, Goto, Types, RequestsOK
<1>2. RequestsOK' /\ Others(t) /\ pc'[t] = "stamp" /\ req'[t] = req[t]
  BY <1>0, <1>1, Moved DEF Labels, Looking, Refreshing
<1>3. byKid' = req[t].got
  BY DEF Install
<1> QED BY <1>0, <1>2, <1>3 DEF ThreadOK, Looking, Refreshing, Reading, Jwks

(* It then reads from tables as recent as its own refresh. *)
LEMMA StampOK ==
  ASSUME ServerAssumption, IInv, NEW t \in Threads, Stamp(t)
  PROVE  RequestsOK' /\ Others(t) /\ pc'[t] = "look" /\ ThreadOK(t)'
<1>0. Types /\ ThreadOK(t) /\ UNCHANGED <<now, server>> /\ pc[t] = "stamp" /\ req[t] \in Requests
  BY Numbers DEF IInv, Stamp
<1>1. req' = [req EXCEPT ![t] = req[t]] /\ pc' = [pc EXCEPT ![t] = "look"] /\ req[t].started <= now
  BY <1>0, Numbers DEF Stamp, Goto, Types, RequestsOK
<1>2. RequestsOK' /\ Others(t) /\ pc'[t] = "look" /\ req'[t] = req[t]
  BY <1>0, <1>1, Moved DEF Labels, Looking, Reading
<1>3. Recent(lastRefresh', req[t].started)
  BY <1>0, <1>1, Numbers DEF Stamp, Recent
<1> QED BY <1>0, <1>2, <1>3 DEF ThreadOK, Looking, Refreshing, Reading, Jwks

(* A key read from a table that holds an installed key set is vouched for. *)
LEMMA ReadVouched ==
  ASSUME ServerAssumption, Types, NEW t \in Threads, NEW m \in DOMAIN installs,
         lastRefresh <= installs[m].at,
         req[t].failed \/ Recent(lastRefresh, req[t].started),
         NEW i \in DOMAIN KeySets[installs[m].set],
         KeySets[installs[m].set][i].alg = req[t].token.alg,
         req[t].token.kid \in {KeySets[installs[m].set][i].kid, NoKid}
  PROVE  /\ KeySets[installs[m].set][i] \in HeldKeys
         /\ Vouched(req[t].token, KeySets[installs[m].set][i], req[t].started, req[t].failed)
<1>1. installs[m].set \in DOMAIN KeySets /\ installs[m].at \in Nat
  BY Numbers
<1>2. req[t].failed \/ Recent(installs[m].at, req[t].started)
  BY <1>1, Numbers DEF Recent
<1> QED BY <1>1, <1>2, KeyHeld DEF Vouched

(* The lookup by kid. *)
LEMMA LookOK ==
  ASSUME ServerAssumption, IInv, NEW t \in Threads, Look(t)
  PROVE  RequestsOK' /\ Others(t) /\ pc'[t] \in {"idle", "check", "acquire", "count"} /\ ThreadOK(t)'
<1>0. /\ Types /\ ThreadOK(t) /\ UNCHANGED <<now, server, tables>> /\ pc[t] = "look"
      /\ req[t] \in Requests
  BY Numbers DEF IInv, Look
<1>1. /\ Jwks /\ server # Down /\ req[t].token \in Tokens
      /\ req[t].failed \/ Recent(lastRefresh, req[t].started)
  BY <1>0 DEF ThreadOK, Looking, Reading, Jwks
<1>2. PICK m \in DOMAIN installs : byKid = installs[m].set /\ lastRefresh <= installs[m].at
  BY <1>1 DEF IInv, TablesInv
<1>3. ASSUME NEW i \in DOMAIN KeySets[byKid], Chosen(t, KeySets[byKid][i]),
             KeySets[byKid][i].alg = req[t].token.alg, KeySets[byKid][i].kid = req[t].token.kid
      PROVE  RequestsOK' /\ Others(t) /\ pc'[t] = "check" /\ ThreadOK(t)'
  <2>1. PICK key : key = KeySets[byKid][i]
    OBVIOUS
  <2>2. key \in HeldKeys /\ Vouched(req[t].token, key, req[t].started, req[t].failed)
    BY <1>0, <1>1, <1>2, <1>3, <2>1, ReadVouched
  <2> QED BY <1>0, <1>1, <1>3, <2>1, <2>2, HasKey
<1>4. CASE Miss(t)
  BY <1>0, <1>1, <1>4, Misses
<1>5. CASE req[t].token.kid = NoKid /\ Goto(t, "count") /\ UNCHANGED req
  <2>1. /\ req' = [req EXCEPT ![t] = req[t]] /\ pc' = [pc EXCEPT ![t] = "count"]
        /\ req[t].started <= now
    BY <1>0, <1>5, Numbers DEF Goto, Types, RequestsOK
  <2>2. RequestsOK' /\ Others(t) /\ pc'[t] = "count" /\ req'[t] = req[t]
    BY <1>0, <2>1, Moved DEF Labels, Looking, Reading
  <2> QED BY <1>0, <1>1, <1>5, <2>2 DEF ThreadOK, Looking, Refreshing, Reading, Jwks, tables
<1> QED BY <1>3, <1>4, <1>5 DEF Look, First, Usable

(* The only key there is: the count of them, ... *)
LEMMA CountOK ==
  ASSUME ServerAssumption, IInv, NEW t \in Threads, Count(t)
  PROVE  RequestsOK' /\ Others(t) /\ pc'[t] \in {"idle", "acquire", "pick"} /\ ThreadOK(t)'
<1>0. /\ Types /\ ThreadOK(t) /\ UNCHANGED <<now, server, tables>> /\ pc[t] = "count"
      /\ req[t] \in Requests
  BY Numbers DEF IInv, Count
<1>1. Jwks /\ req[t].token \in Tokens /\ req[t].token.kid = NoKid
      /\ (req[t].failed \/ Recent(lastRefresh, req[t].started))
  BY <1>0 DEF ThreadOK, Looking, Reading
<1>2. CASE Miss(t)
  BY <1>0, <1>1, <1>2, Misses
<1>3. CASE Goto(t, "pick") /\ UNCHANGED req
  <2>1. /\ req' = [req EXCEPT ![t] = req[t]] /\ pc' = [pc EXCEPT ![t] = "pick"]
        /\ req[t].started <= now
    BY <1>0, <1>3, Numbers DEF Goto, Types, RequestsOK
  <2>2. RequestsOK' /\ Others(t) /\ pc'[t] = "pick" /\ req'[t] = req[t]
    BY <1>0, <2>1, Moved DEF Labels, Looking, Reading
  <2> QED BY <1>0, <1>1, <2>2 DEF ThreadOK, Looking, Refreshing, Reading, Jwks, tables
<1> QED BY <1>2, <1>3 DEF Count

(* ... and the key, perhaps of a table put in since. *)
LEMMA PickOK ==
  ASSUME ServerAssumption, IInv, NEW t \in Threads, Pick(t)
  PROVE  RequestsOK' /\ Others(t) /\ pc'[t] \in {"idle", "acquire", "check"} /\ ThreadOK(t)'
<1>0. /\ Types /\ ThreadOK(t) /\ UNCHANGED <<now, server, tables>> /\ pc[t] = "pick"
      /\ req[t] \in Requests
  BY Numbers DEF IInv, Pick
<1>1. /\ Jwks /\ server # Down /\ req[t].token \in Tokens /\ req[t].token.kid = NoKid
      /\ req[t].failed \/ Recent(lastRefresh, req[t].started)
  BY <1>0 DEF ThreadOK, Looking, Reading, Jwks
<1>2. PICK m \in DOMAIN installs : all = installs[m].set /\ lastRefresh <= installs[m].at
  BY <1>1 DEF IInv, TablesInv
<1>3. PICK i \in DOMAIN KeySets[all] :
        IF KeySets[all][i].alg = req[t].token.alg THEN Chosen(t, KeySets[all][i]) ELSE Miss(t)
  BY DEF Pick, Usable
<1>4. CASE Miss(t)
  BY <1>0, <1>1, <1>4, Misses
<1>5. CASE KeySets[all][i].alg = req[t].token.alg /\ Chosen(t, KeySets[all][i])
  <2>1. PICK key : key = KeySets[all][i]
    OBVIOUS
  <2>2. key \in HeldKeys /\ Vouched(req[t].token, key, req[t].started, req[t].failed)
    BY <1>0, <1>1, <1>2, <1>5, <2>1, ReadVouched
  <2> QED BY <1>0, <1>1, <1>5, <2>1, <2>2, HasKey
<1> QED BY <1>3, <1>4, <1>5

(* Signature, claims and scopes. *)
LEMMA CheckOK ==
  ASSUME ServerAssumption, IInv, NEW t \in Threads, Check(t)
  PROVE  RequestsOK' /\ Others(t) /\ pc'[t] = "idle" /\ ThreadOK(t)'
<1>1. Types /\ now' = now
  BY DEF IInv, Check
<1> QED BY <1>1, Answers DEF Check, Handle, Refuse
-----------------------------------------------------------------------------
(* What every step of a thread keeps of the thread's own and of others'.   *)
LEMMA StepOK ==
  ASSUME ServerAssumption, IInv, NEW t \in Threads, Step(t)
  PROVE  /\ RequestsOK' /\ Others(t) /\ ThreadOK(t)'
         /\ UNCHANGED <<now, published, server>>
         /\ \/ lock = t /\ pc[t] \in {"install", "stamp"}
            \/ UNCHANGED tables
<1>1. UNCHANGED <<now, published, server>>
  BY DEF Step, Authorize, Acquire, Fetch, FetchFails, Install, Stamp, Look, Count, Pick, Check
<1>2. RequestsOK' /\ Others(t) /\ ThreadOK(t)'
  BY AuthorizeOK, AcquireOK, FetchOK, FetchFailsOK, InstallOK, StampOK, LookOK, CountOK, PickOK,
     CheckOK DEF Step
<1>3. \/ lock = t /\ pc[t] \in {"install", "stamp"}
      \/ UNCHANGED tables
  BY DEF Step, Authorize, Acquire, Fetch, FetchFails, Install, Stamp, Look, Count, Pick, Check,
         IInv, LockInv, Refreshing, tables
<1> QED BY <1>1, <1>2, <1>3

(* A key set that is put in is the last; its stamp makes it more recent.   *)
LEMMA Installing ==
  ASSUME ServerAssumption, IInv, NEW t \in Threads, Install(t) \/ Stamp(t)
  PROVE  /\ installs' \in Seq(Installs) /\ Jwks
         /\ \A i \in DOMAIN installs' : installs'[i].at <= now
         /\ byKid' \in 0..Len(KeySets) /\ all' \in 0..Len(KeySets) /\ lastRefresh' \in 0..now
         /\ Grows /\ TablesInv' /\ OrderInv'
<1>0. /\ Types /\ ThreadOK(t) /\ UNCHANGED <<now, server, published>> /\ req[t] \in Requests
      /\ installs \in Seq(Installs) /\ OrderInv
  BY Numbers DEF IInv, Install, Stamp, Types
<1>n. /\ now \in Nat /\ lastRefresh \in Nat /\ lastRefresh <= now /\ published \in Nat
      /\ req[t].got \in 0..Len(KeySets) /\ Len(KeySets) \in Nat
      /\ \A i \in DOMAIN installs : /\ installs[i] \in Installs /\ installs[i].set \in Nat
                                    /\ installs[i].at \in Nat /\ installs[i].at <= now
  BY <1>0, Numbers DEF Requests
<1>j. Jwks /\ Jwks'
  BY <1>0 DEF ThreadOK, Looking, Refreshing, Install, Stamp, Jwks
<1> DEFINE n == Len(installs)
<1>t. /\ n \in DOMAIN installs /\ byKid = installs[n].set /\ lastRefresh <= installs[n].at
      /\ \E i \in DOMAIN installs : all = installs[i].set /\ lastRefresh <= installs[i].at
      /\ DOMAIN installs = 1..n /\ n \in Nat
  BY <1>0, <1>j DEF IInv, TablesInv
<1>1. CASE Install(t)
  <2> DEFINE entry == [set |-> req[t].got, at |-> now]
  <2>1. /\ req[t].got \in DOMAIN KeySets /\ req[t].got <= published
        /\ \A i \in DOMAIN installs : installs[i].set <= req[t].got
    BY <1>0, <1>1 DEF ThreadOK, Install
  <2>2. entry \in Installs /\ entry.set = req[t].got /\ entry.at = now
    BY <1>n, <2>1 DEF Installs
  <2>3. installs' = Append(installs, entry) /\ byKid' = req[t].got /\ UNCHANGED <<all, lastRefresh>>
    BY <1>1 DEF Install
  <2> HIDE DEF entry
  <2>4. /\ installs' \in Seq(Installs) /\ Len(installs') = n + 1 /\ DOMAIN installs' = 1..(n + 1)
        /\ \A i \in DOMAIN installs : installs'[i] = installs[i]
        /\ installs'[n + 1] = entry
    BY <1>0, <1>t, <2>2, <2>3
  <2>5. Grows /\ \A i \in DOMAIN installs' : installs'[i].at <= now
    BY <1>0, <1>n, <1>t, <2>2, <2>3, <2>4 DEF Grows
  <2>6. TablesInv'
    BY <1>n, <1>t, <2>2, <2>3, <2>4 DEF TablesInv
  <2>7. OrderInv'
    BY <1>0, <1>t, <2>1, <2>2, <2>4 DEF OrderInv, NoRollback
  <2> QED BY <1>n, <1>0, <1>j, <2>3, <2>4, <2>5, <2>6, <2>7 DEF Types
<1>2. CASE Stamp(t)
  <2>1. req[t].got = byKid
    BY <1>0, <1>2 DEF ThreadOK, Stamp
  <2>2. /\ installs' = [installs EXCEPT ![n] = [installs[n] EXCEPT !.at = now]]
        /\ byKid' = byKid /\ all' = byKid /\ lastRefresh' = now
    BY <1>2, <2>1 DEF Stamp
  <2> DEFINE entry == [installs[n] EXCEPT !.at = now]
  <2>3. entry \in Installs /\ entry.set = installs[n].set /\ entry.at = now
    BY <1>n, <1>t DEF Installs
  <2> HIDE DEF entry
  <2>4. /\ installs' \in Seq(Installs) /\ Len(installs') = n /\ DOMAIN installs' = 1..n
        /\ \A i \in DOMAIN installs : installs'[i] = IF i = n THEN entry ELSE installs[i]
    BY <1>0, <1>t, <2>2, <2>3 DEF entry
  <2>5. Grows /\ \A i \in DOMAIN installs' : installs'[i].at <= now
    BY <1>0, <1>n, <1>t, <2>2, <2>3, <2>4 DEF Grows
  <2>6. TablesInv'
    BY <1>n, <1>t, <2>2, <2>3, <2>4 DEF TablesInv
  <2>7. OrderInv'
    BY <1>0, <1>t, <2>3, <2>4 DEF OrderInv, NoRollback
  <2> QED BY <1>n, <1>0, <1>j, <2>2, <2>4, <2>5, <2>6, <2>7 DEF Types
<1> QED BY <1>1, <1>2

(* What a step of a thread passes on. *)
LEMMA PassesOn ==
  ASSUME ServerAssumption, IInv, NEW t \in Threads, Step(t)
  PROVE  /\ handled' \subseteq Passed
         /\ \A h \in handled' : h \in handled \/ Genuine(h)
<1>0. Types /\ req[t] \in Requests /\ ThreadOK(t)
  BY Numbers DEF IInv
<1>1. CASE handled' = handled
  BY <1>0, <1>1 DEF Types
<1> DEFINE h == [token |-> req[t].token, started |-> req[t].started, failed |-> req[t].failed]
<1>h. ASSUME Handle(t)
      PROVE  h \in Passed /\ handled' = handled \cup {h} /\ handled \subseteq Passed
             /\ h.token = req[t].token /\ h.started = req[t].started /\ h.failed = req[t].failed
  BY <1>0, <1>h DEF Handle, Requests, Passed, Types
<1> HIDE DEF h
<1>2. CASE Handle(t) /\ server.verifier = "none"
  BY <1>2, <1>h DEF Genuine
<1>3. CASE /\ Check(t) /\ Handle(t) /\ SignedBy(t) /\ ClaimsHold(req[t].token)
           /\ RequiredScopes \subseteq req[t].token.scopes
  <2>1. /\ req[t].token \in Tokens /\ req[t].key \in HeldKeys \cup {NoKid}
        /\ req[t].token.key = req[t].key.key /\ Audience \in req[t].token.aud
        /\ \/ server.verifier = "key" /\ req[t].key = server.key
           \/ Jwks /\ Vouched(req[t].token, req[t].key, req[t].started, req[t].failed)
    BY <1>0, <1>3 DEF ThreadOK, Check, SignedBy, ClaimsHold, Requests
  <2>2. ASSUME Jwks, Vouched(req[t].token, req[t].key, req[t].started, req[t].failed)
        PROVE  req[t].key \in HeldKeys
    <3>1. PICK i \in DOMAIN installs : \E j \in DOMAIN KeySets[installs[i].set] :
             req[t].key = KeySets[installs[i].set][j]
      BY <2>2 DEF Vouched
    <3> QED BY <1>0, <3>1, Numbers, KeyHeld
  <2> QED BY <1>3, <1>h, <2>1, <2>2 DEF Genuine, Jwks
<1> QED
  BY <1>1, <1>2, <1>3
  DEF Step, Authorize, Acquire, Fetch, FetchFails, Install, Stamp, Look, Count, Pick, Check,
      Refuse, Chosen, Miss, VerifyWithKey, VerifyWithTable
-----------------------------------------------------------------------------
(* What was passed on stays genuine. *)
LEMMA GenuineStays ==
  ASSUME ServerAssumption, Types, Types', Grows, NEW h \in Passed, Genuine(h)
  PROVE  Genuine(h)'
<1>1. h.started \in Nat /\ server' = server
  BY DEF Passed, Grows
<1>2. ASSUME NEW key \in HeldKeys, Vouched(h.token, key, h.started, h.failed)
      PROVE  Vouched(h.token, key, h.started, h.failed)'
  <2>1. PICK token, started, failed : token = h.token /\ started = h.started /\ failed = h.failed
    OBVIOUS
  <2>2. Vouched(token, key, started, failed)'
    BY <1>1, <1>2, <2>1, VouchedStays
  <2> QED BY <2>1, <2>2
<1> QED BY <1>1, <1>2 DEF Genuine

(* The invariant after a step that leaves the tables or makes them grow.   *)
LEMMA Kept ==
  ASSUME ServerAssumption, IInv, Types', LockInv', QuietInv', TablesInv', OrderInv', Grows,
         \A h \in handled' : h \in handled \/ Genuine(h),
         \A u \in Threads :
           \/ ThreadOK(u)'
           \/ /\ pc'[u] = pc[u] /\ req'[u] = req[u]
              /\ pc[u] \in Refreshing => UNCHANGED <<byKid, installs>>
  PROVE  IInv'
<1>0. Types /\ Types'
  BY DEF IInv
<1>1. ASSUME NEW u \in Threads PROVE ThreadOK(u)'
  BY <1>0, ThreadStays DEF IInv
<1>2. ASSUME NEW h \in handled' PROVE Genuine(h)'
  <2>1. h \in Passed /\ Genuine(h)
    BY <1>0 DEF Types, IInv
  <2> QED BY <1>0, <2>1, GenuineStays
<1> QED BY <1>1, <1>2 DEF IInv

(* The tables and installs as they were. *)
LEMMA TablesStay ==
  ASSUME ServerAssumption, IInv, UNCHANGED <<server, tables>>, published <= published'
  PROVE  Grows /\ TablesInv'
<1>1. Types
  BY DEF IInv
<1> QED BY <1>1, Numbers DEF Grows, tables, IInv, TablesInv, Jwks

(* A thread takes and releases the lock as it enters and leaves a refresh. *)
LEMMA LockKept ==
  ASSUME ServerAssumption, IInv, NEW t \in Threads, Step(t)
  PROVE  LockInv'
<1>0. /\ LockInv /\ Types /\ NoThread \notin Threads /\ pc \in [Threads -> Labels]
      /\ RequestsOK' /\ Others(t)
  BY StepOK DEF IInv, ServerAssumption, Types, RequestsOK
<1>1. CASE Acquire(t)
  BY <1>0, <1>1 DEF Acquire, Goto, LockInv, Refreshing, Others
<1>2. CASE Fetch(t)
  BY <1>0, <1>2 DEF Fetch, Goto, LockInv, Refreshing, Others
<1>3. CASE FetchFails(t)
  <2>1. pc'[t] \in {"idle", "look"} /\ lock' = NoThread /\ lock = t
    BY <1>0, <1>3, FetchFailsOK DEF FetchFails, LockInv, Refreshing
  <2> QED BY <1>0, <2>1 DEF LockInv, Refreshing, Others
<1>4. CASE Install(t)
  BY <1>0, <1>4 DEF Install, Goto, LockInv, Refreshing, Others
<1>5. CASE Stamp(t)
  <2>1. pc'[t] = "look" /\ lock' = NoThread /\ lock = t
    BY <1>0, <1>5, StampOK DEF Stamp, LockInv, Refreshing
  <2> QED BY <1>0, <2>1 DEF LockInv, Refreshing, Others
<1>6. CASE Authorize(t) \/ Look(t) \/ Count(t) \/ Pick(t) \/ Check(t)
  <2>1. pc[t] \notin Refreshing /\ pc'[t] \notin Refreshing /\ lock' = lock
    BY <1>6, AuthorizeOK, LookOK, CountOK, PickOK, CheckOK
    DEF Authorize, Look, Count, Pick, Check, Refreshing
  <2> QED BY <1>0, <2>1 DEF LockInv, Others
<1> QED BY <1>1, <1>2, <1>3, <1>4, <1>5, <1>6 DEF Step

(* A step of a handler thread. *)
LEMMA StepKept ==
  ASSUME ServerAssumption, IInv, NEW t \in Threads, Step(t)
  PROVE  IInv'
<1>0. /\ Types /\ RequestsOK' /\ Others(t) /\ ThreadOK(t)' /\ UNCHANGED <<now, published, server>>
      /\ handled' \subseteq Passed /\ \A h \in handled' : h \in handled \/ Genuine(h)
      /\ LockInv'
  BY StepOK, PassesOn, LockKept DEF IInv
<1>1. /\ Types' /\ Grows /\ TablesInv' /\ OrderInv'
      /\ \A u \in Threads \ {t} : pc[u] \in Refreshing => UNCHANGED <<byKid, installs>>
  <2>1. CASE UNCHANGED tables
    <3>1. Grows /\ TablesInv'
      BY <1>0, <2>1, Numbers, TablesStay
    <3>2. OrderInv'
      BY <1>0, <2>1 DEF IInv, OrderInv, NoRollback, tables
    <3> QED BY <1>0, <2>1, <3>1, <3>2 DEF Types, tables
  <2>2. CASE (Install(t) \/ Stamp(t)) /\ lock = t
    <3>1. /\ installs' \in Seq(Installs) /\ \A i \in DOMAIN installs' : installs'[i].at <= now
          /\ byKid' \in 0..Len(KeySets) /\ all' \in 0..Len(KeySets) /\ lastRefresh' \in 0..now
          /\ Grows /\ TablesInv' /\ OrderInv'
      BY <2>2, Installing
    <3>2. Types'
      BY <1>0, <3>1 DEF Types
    <3> QED BY <2>2, <3>1, <3>2 DEF IInv, LockInv
  <2> QED
    BY <2>1, <2>2, StepOK
    DEF Step, Authorize, Acquire, Fetch, FetchFails, Install, Stamp, Look, Count, Pick, Check,
        IInv, LockInv, Refreshing
<1>2. QuietInv'
  <2>1. pc[t] # "idle" /\ server # Down
    BY DEF Step, Authorize, Acquire, Fetch, FetchFails, Install, Stamp, Look, Count, Pick, Check,
           IInv, QuietInv
  <2> QED BY <1>0, <2>1 DEF QuietInv
<1> QED BY <1>0, <1>1, <1>2, Kept DEF Others

(* A request that comes in. *)
LEMMA ReceiveKept ==
  ASSUME ServerAssumption, IInv, NEW t \in Threads, NEW token \in Tokens \cup {NoToken},
         Receive(t, token)
  PROVE  IInv'
<1>0. /\ Types /\ RequestsOK' /\ Others(t) /\ pc'[t] = "authorize" /\ ThreadOK(t)'
      /\ UNCHANGED <<now, published, server, tables, lock, handled>>
      /\ server # Down /\ pc[t] = "idle"
  BY ReceiveOK DEF IInv, Receive
<1>1. Types'
  BY <1>0 DEF Types, tables
<1>2. LockInv'
  BY <1>0 DEF IInv, LockInv, Refreshing, Others
<1>3. Grows /\ TablesInv'
  BY <1>0, Numbers, TablesStay
<1>4. OrderInv' /\ QuietInv'
  BY <1>0 DEF IInv, OrderInv, NoRollback, QuietInv, tables
<1> QED BY <1>0, <1>1, <1>2, <1>3, <1>4, Kept DEF Others, tables

(* The server starts: the first table is what is published. *)
LEMMA StartKept ==
  ASSUME ServerAssumption, IInv, NEW s \in Settings, NEW answers \in Metadata, Start(s, answers)
  PROVE  IInv'
<1>0. /\ Types /\ server = Down /\ server' = s /\ s # Down
      /\ handled = {} /\ \A t \in Threads : pc[t] = "idle"
      /\ UNCHANGED <<now, published, lock, pc, req, handled>>
  BY DEF Start, IInv, QuietInv, ServerAssumption
<1>1. now \in Nat /\ published \in DOMAIN KeySets /\ published \in 0..Len(KeySets)
      /\ published \in Nat
  BY <1>0, Numbers DEF Types
<1>2. CASE s.verifier = "jwks"
  <2>1. /\ byKid' = published /\ all' = published /\ lastRefresh' = now
        /\ installs' = <<[set |-> published, at |-> now]>>
    BY <1>2 DEF Start
  <2> DEFINE entry == [set |-> published, at |-> now]
  <2>2. entry \in Installs /\ entry.set = published /\ entry.at = now
    BY <1>1 DEF Installs
  <2> HIDE DEF entry
  <2>3. installs' \in Seq(Installs) /\ Len(installs') = 1 /\ DOMAIN installs' = {1}
        /\ installs'[1] = entry
    BY <2>1, <2>2 DEF entry
  <2>4. Types'
    BY <1>0, <1>1, <2>1, <2>2, <2>3 DEF Types, RequestsOK
  <2>5. TablesInv' /\ OrderInv'
    BY <1>0, <1>1, <2>1, <2>2, <2>3 DEF TablesInv, OrderInv, NoRollback
  <2> QED
    BY <1>0, <2>4, <2>5
    DEF IInv, LockInv, QuietInv, ThreadOK, Looking, Refreshing, Reading
<1>3. CASE s.verifier # "jwks"
  <2>1. UNCHANGED tables
    BY <1>3 DEF Start
  <2>2. Types'
    BY <1>0, <2>1 DEF Types, RequestsOK, tables
  <2>3. TablesInv' /\ OrderInv'
    BY <1>0, <1>3, <2>1 DEF IInv, TablesInv, OrderInv, NoRollback, tables, Jwks
  <2> QED
    BY <1>0, <2>2, <2>3
    DEF IInv, LockInv, QuietInv, ThreadOK, Looking, Refreshing, Reading
<1> QED BY <1>2, <1>3

(* A rotation, and the passing of time. *)
LEMMA OutsideKept ==
  ASSUME ServerAssumption, IInv, Rotate \/ Tick
  PROVE  IInv'
<1>0. /\ Types /\ UNCHANGED <<server, tables, lock, pc, req, handled>>
      /\ published <= published' /\ now <= now' /\ now' \in 0..MaxTime /\ published' \in DOMAIN KeySets
  <2>1. Types /\ now \in 0..MaxTime /\ MaxTime \in Nat /\ published \in DOMAIN KeySets
        /\ DOMAIN KeySets = 1..Len(KeySets) /\ Len(KeySets) \in Nat
    BY DEF IInv, Types, ServerAssumption
  <2> QED BY <2>1 DEF Rotate, Tick
<1>n. /\ now \in Nat /\ now' \in Nat /\ published \in Nat /\ published' \in Nat
      /\ lastRefresh \in Nat /\ lastRefresh <= now
      /\ \A t \in Threads : req[t].started \in Nat /\ req[t].started <= now
      /\ \A i \in DOMAIN installs : installs[i].at \in Nat /\ installs[i].at <= now
                                    /\ installs[i].set \in Nat
  BY <1>0, Numbers DEF ServerAssumption
<1>1. Types'
  BY <1>0, <1>n DEF Types, RequestsOK, tables
<1>2. LockInv' /\ QuietInv'
  BY <1>0 DEF IInv, LockInv, QuietInv
<1>3. Grows /\ TablesInv'
  BY <1>0, TablesStay
<1>4. OrderInv'
  BY <1>0, <1>n DEF IInv, OrderInv, NoRollback, tables
<1> QED BY <1>0, <1>1, <1>2, <1>3, <1>4, Kept DEF tables

(* Safety needs no fairness of the handlers. *)
Unfair == Init /\ [][Next]_vars

(* The inductive invariant. *)
LEMMA Inductive == ASSUME ServerAssumption PROVE Unfair => []IInv
<1>1. Init => IInv
  <2> SUFFICES ASSUME Init PROVE IInv
    OBVIOUS
  <2>1. NoRequest \in Requests /\ NoRequest.started = 0
    BY DEF NoRequest, Requests, ServerAssumption
  <2>2. Types
    <3>1. DOMAIN installs = {} /\ installs \in Seq(Installs)
      BY DEF Init
    <3> QED BY <2>1, <3>1 DEF Init, Types, RequestsOK, Labels, ServerAssumption
  <2>3. LockInv /\ QuietInv /\ TablesInv /\ OrderInv
    BY DEF Init, LockInv, Refreshing, QuietInv, TablesInv, Jwks, OrderInv, NoRollback,
           ServerAssumption
  <2>4. \A t \in Threads : ThreadOK(t)
    BY DEF Init, ThreadOK, Looking, Refreshing, Reading
  <2> QED BY <2>2, <2>3, <2>4 DEF IInv, Init
<1>2. IInv /\ [Next]_vars => IInv'
  <2> SUFFICES ASSUME IInv, [Next]_vars PROVE IInv'
    OBVIOUS
  <2>1. CASE UNCHANGED vars
    <3>0. Types /\ UNCHANGED <<now, published, server, tables, lock, pc, req, handled>>
      BY <2>1 DEF vars, tables, IInv
    <3>1. Types' /\ LockInv' /\ QuietInv'
      BY <3>0 DEF IInv, Types, RequestsOK, LockInv, QuietInv, tables
    <3>2. Grows /\ TablesInv'
      BY <3>0, Numbers, TablesStay
    <3>3. OrderInv'
      BY <3>0 DEF IInv, OrderInv, NoRollback, tables
    <3> QED BY <3>0, <3>1, <3>2, <3>3, Kept DEF tables
  <2> QED BY <2>1, StepKept, ReceiveKept, StartKept, OutsideKept DEF Next
<1> QED BY <1>1, <1>2, PTL DEF Unfair
-----------------------------------------------------------------------------
LEMMA StaysTyped == ASSUME ServerAssumption PROVE Unfair => []TypeOK
<1>1. IInv => TypeOK
  <2> SUFFICES ASSUME IInv PROVE TypeOK
    OBVIOUS
  <2>1. pc \in [Threads -> {"idle", "authorize", "acquire", "fetch", "install", "stamp", "look",
                            "count", "pick", "check"}]
    BY DEF IInv, Types, RequestsOK, Labels, Looking, Refreshing, Reading
  <2>2. \A t \in Threads :
           /\ (pc[t] \in {"fetch", "install", "stamp"}) = (lock = t)
           /\ pc[t] = "idle" => req[t] = NoRequest
           /\ pc[t] = "stamp" => byKid = req[t].got
    BY DEF IInv, Types, RequestsOK, LockInv, Refreshing, ThreadOK
  <2> QED BY <2>1, <2>2 DEF TypeOK, IInv, Types, LockInv
<1> QED BY <1>1, Inductive, PTL

(* The tables hold indexes of key sets, never read from the future, and    *)
(* one thread at a time refreshes them, whatever fails.                    *)
THEOREM TypeCorrect == ASSUME ServerAssumption PROVE Spec => []TypeOK
BY StaysTyped, PTL DEF Spec, Unfair

LEMMA StaysGenuine == ASSUME ServerAssumption PROVE Unfair => []HandledGenuine
<1>1. IInv => HandledGenuine
  <2> SUFFICES ASSUME IInv PROVE HandledGenuine
    OBVIOUS
  <2>0. Types
    BY DEF IInv
  <2>1. NoRollback
    BY DEF IInv, OrderInv
  <2>2. ASSUME NEW h \in handled, server.verifier # "none"
        PROVE  /\ h.token \in Tokens /\ Audience \in h.token.aud /\ RequiredScopes \subseteq h.token.scopes
               /\ \/ server.verifier = "key" /\ h.token.key = server.key.key
                  \/ /\ server.verifier = "jwks"
                     /\ \E key \in HeldKeys : /\ key.key = h.token.key
                                              /\ Vouched(h.token, key, h.started, h.failed)
    BY <2>2 DEF IInv, Genuine
  <2>3. ASSUME NEW h \in handled, server.verifier # "none"
        PROVE  /\ h.token # NoToken
               /\ IF server.verifier = "key" THEN h.token.key = server.key.key
                  ELSE \E i \in DOMAIN installs : \E j \in DOMAIN KeySets[installs[i].set] :
                         LET k == KeySets[installs[i].set][j]
                         IN k.key = h.token.key /\ k.alg = h.token.alg /\ h.token.kid \in {k.kid, NoKid}
    <3>1. h.token # NoToken
      BY <2>2, <2>3 DEF ServerAssumption
    <3>2. CASE server.verifier = "key" /\ h.token.key = server.key.key
      BY <3>1, <3>2
    <3>3. ASSUME server.verifier = "jwks", NEW key \in HeldKeys, key.key = h.token.key,
                 Vouched(h.token, key, h.started, h.failed)
          PROVE  \E i \in DOMAIN installs : \E j \in DOMAIN KeySets[installs[i].set] :
                   LET k == KeySets[installs[i].set][j]
                   IN k.key = h.token.key /\ k.alg = h.token.alg /\ h.token.kid \in {k.kid, NoKid}
      BY <3>3 DEF Vouched
    <3> QED BY <2>2, <2>3, <3>1, <3>2, <3>3
  <2>4. RevocationBounded
    <3> SUFFICES ASSUME NEW h \in handled, server.verifier = "jwks", ~h.failed
                 PROVE  \E i \in DOMAIN installs :
                          /\ Current(installs[i], h.started)
                          /\ h.token.key \in Keys(installs[i].set)
      BY DEF RevocationBounded
    <3>1. PICK key \in HeldKeys : key.key = h.token.key /\ Vouched(h.token, key, h.started, h.failed)
      BY <2>2
    <3>2. PICK i \in DOMAIN installs : \E j \in DOMAIN KeySets[installs[i].set] :
             key = KeySets[installs[i].set][j] /\ Recent(installs[i].at, h.started)
      BY <3>1 DEF Vouched
    <3>3. h.token.key \in Keys(installs[i].set)
      BY <3>1, <3>2 DEF Keys
    <3> QED BY <3>2, <3>3 DEF Current, Recent
  <2>5. TokensGenuine
    BY <2>2, <2>3 DEF TokensGenuine
  <2> QED BY <2>1, <2>4, <2>5 DEF HandledGenuine
<1> QED BY <1>1, Inductive, PTL

(* JWKSVerifier and the request handler: however many threads verify while *)
(* keys rotate and fetches fail, whoever gets through holds a genuine      *)
(* token under a key as current as the cache promises, and no refresh puts *)
(* an older key set back.                                                  *)
THEOREM OnlyGenuine == ASSUME ServerAssumption PROVE Spec => []HandledGenuine
BY StaysGenuine, PTL DEF Spec, Unfair
=============================================================================
