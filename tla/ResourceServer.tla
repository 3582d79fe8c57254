--------------------------- MODULE ResourceServer ---------------------------
(***************************************************************************)
(* The HTTP boundary of the guard: the request handler of                  *)
(* capguard/mcp_http.py and the JWKSVerifier of capguard/mcp_auth.py,      *)
(* whose keys the authorization server rotates while several handler       *)
(* threads verify tokens.                                                  *)
(*                                                                         *)
(* The verifier reads its two key tables without the lock that refreshes   *)
(* hold, so each read and each assignment of a table is a step.  A table   *)
(* is the index of the published key set it was parsed from; a key set is  *)
(* a sequence of keys, and a signature is the key that made it.            *)
(***************************************************************************)
EXTENDS Integers, Sequences, FiniteSets

CONSTANTS
  Threads, NoThread,
  KeySets,          \* the key sets the authorization server publishes, in order
  Algorithms,       \* allowed algorithms
  Tokens, NoToken, NoKid,
  Audience, RequiredScopes, Leeway,
  CacheTtl,         \* cache_ttl_seconds
  Down, Settings,   \* how the server may be configured
  Metadata,         \* answers of the discovery endpoints
  MaxTime, MaxRequests

(* What the constants must satisfy. *)
ServerAssumption ==
  /\ Len(KeySets) \in Nat \ {0} /\ DOMAIN KeySets = 1..Len(KeySets)
  /\ CacheTtl \in Nat /\ Leeway \in Nat /\ MaxTime \in Nat
  /\ NoThread \notin Threads /\ NoToken \notin Tokens /\ Down \notin Settings
  /\ \A s \in Settings : s.verifier \in {"none", "key", "jwks"}

VARIABLES
  now,
  published,      \* index of the key set the authorization server publishes
  server,         \* Down or the settings it was started with
  byKid, all,     \* _keys_by_kid and _all_keys
  lastRefresh, lock,
  pc, req,        \* per handler thread
  received,       \* requests received
  installs,       \* history: the key sets installed, and when
  handled         \* history: requests passed on to the proxy

tables == <<byKid, all, lastRefresh, installs>>
vars == <<now, published, server, tables, lock, pc, req, received, handled>>

NoRequest == [token |-> NoToken, started |-> 0, why |-> "none", got |-> 0, failed |-> FALSE,
              key |-> NoKid]

TypeOK ==
  /\ now \in 0..MaxTime
  /\ published \in DOMAIN KeySets
  /\ server = Down \/ server \in Settings
  /\ byKid \in 0..Len(KeySets) /\ all \in 0..Len(KeySets)
  /\ lastRefresh \in 0..now
  /\ lock \in Threads \cup {NoThread}
  /\ pc \in [Threads -> {"idle", "authorize", "acquire", "fetch", "install", "stamp", "look",
                         "count", "pick", "check"}]
  /\ \A t \in Threads :
       /\ (pc[t] \in {"fetch", "install", "stamp"}) = (lock = t)
       /\ pc[t] = "idle" => req[t] = NoRequest
       /\ pc[t] = "stamp" => byKid = req[t].got

Init ==
  /\ now = 0
  /\ published = 1
  /\ server = Down
  /\ byKid = 0 /\ all = 0 /\ lastRefresh = 0
  /\ lock = NoThread
  /\ pc = [t \in Threads |-> "idle"]
  /\ req = [t \in Threads |-> NoRequest]
  /\ received = 0
  /\ installs = << >>
  /\ handled = {}
-----------------------------------------------------------------------------
(* The keys of a set that the verifier can use, by their index. *)
Usable(set) == {i \in DOMAIN KeySets[set] : KeySets[set][i].alg \in Algorithms}
First(i, indexes) == i \in indexes /\ \A j \in indexes : i <= j

(* fetch_authorization_server_metadata: the first endpoint that answers    *)
(* decides, and must name the issuer and a key set with a safe URL.        *)
Discovered(answers) ==
  \E i \in DOMAIN answers :
    /\ \A j \in 1..(i - 1) : answers[j] = "error"
    /\ answers[i] = "sound"

(* validate_http_server_auth *)
MayServe(s) == s.verifier # "none" \/ s.override \/ s.loopback

(* The server starts with no verifier, with a fixed key, or with a         *)
(* JWKSVerifier built from discovered metadata.                            *)
Start(s, answers) ==
  /\ server = Down
  /\ MayServe(s)
  /\ server' = s
  /\ IF s.verifier = "jwks"
     THEN /\ Discovered(answers) /\ Usable(published) # {}
          /\ byKid' = published /\ all' = published /\ lastRefresh' = now
          /\ installs' = <<[set |-> published, at |-> now]>>
     ELSE UNCHANGED tables
  /\ UNCHANGED <<now, published, lock, pc, req, handled, received>>
-----------------------------------------------------------------------------
Goto(t, label) == pc' = [pc EXCEPT ![t] = label]
Keep(t, r) == req' = [req EXCEPT ![t] = r]

(* The handler answers 401 or 403, or hands the message to the proxy and   *)
(* answers with what it returns.                                           *)
Refuse(t) == Goto(t, "idle") /\ Keep(t, NoRequest) /\ UNCHANGED handled

Handle(t) ==
  /\ Goto(t, "idle") /\ Keep(t, NoRequest)
  /\ handled' = handled \cup {[token |-> req[t].token, started |-> req[t].started,
                               failed |-> req[t].failed]}

Receive(t, token) ==
  /\ server # Down /\ pc[t] = "idle"
  /\ received < MaxRequests
  /\ received' = received + 1
  /\ Goto(t, "authorize")
  /\ Keep(t, [NoRequest EXCEPT !.token = token, !.started = now])
  /\ UNCHANGED <<now, published, server, tables, lock, handled>>

(* Mutant: a cache as old as its ttl is still good, and a tick more. *)
StaleLate == now > lastRefresh + CacheTtl

Stale == now >= lastRefresh + CacheTtl

Chosen(t, key) ==
  /\ Goto(t, "check") /\ Keep(t, [req[t] EXCEPT !.key = key])
  /\ UNCHANGED handled

(* verify of the verifiers that hold one key. *)
VerifyWithKey(t) ==
  IF req[t].token.alg = server.key.alg THEN Chosen(t, server.key) ELSE Refuse(t)

(* verify of the JWKSVerifier, up to the lookup. *)
VerifyWithTable(t) ==
  IF req[t].token.alg \notin Algorithms THEN Refuse(t)
  ELSE /\ IF Stale THEN Goto(t, "acquire") /\ Keep(t, [req[t] EXCEPT !.why = "stale"])
                   ELSE Goto(t, "look") /\ UNCHANGED req
       /\ UNCHANGED handled

(* _authorized: no verifier means no check. *)
Authorize(t) ==
  /\ pc[t] = "authorize"
  /\ CASE server.verifier = "none" -> Handle(t)
       [] server.verifier # "none" /\ req[t].token = NoToken -> Refuse(t)
       [] server.verifier = "key" /\ req[t].token # NoToken -> VerifyWithKey(t)
       [] OTHER -> VerifyWithTable(t)
  /\ UNCHANGED <<now, published, server, tables, lock, received>>

(* _refresh_from_url: fetch, parse and install under the lock. *)
Acquire(t) ==
  /\ pc[t] = "acquire" /\ lock = NoThread
  /\ lock' = t
  /\ Goto(t, "fetch")
  /\ UNCHANGED <<now, published, server, tables, req, handled, received>>

Fetch(t) ==
  /\ pc[t] = "fetch"
  /\ Usable(published) # {}
  /\ Goto(t, "install")
  /\ Keep(t, [req[t] EXCEPT !.got = published])
  /\ UNCHANGED <<now, published, server, tables, lock, handled, received>>

(* Mutant: a refresh that raises keeps the lock. *)
FetchFailsLocked(t) ==
  /\ pc[t] = "fetch"
  /\ IF req[t].why = "stale"
     THEN Goto(t, "look") /\ Keep(t, [req[t] EXCEPT !.failed = TRUE]) /\ UNCHANGED handled
     ELSE Refuse(t)
  /\ UNCHANGED <<now, published, server, tables, lock, received>>

(* A failed fetch, or one without usable keys: a stale cache goes on with  *)
(* the last good keys, an unknown kid is refused.                          *)
FetchFails(t) ==
  /\ pc[t] = "fetch"
  /\ lock' = NoThread
  /\ IF req[t].why = "stale"
     THEN Goto(t, "look") /\ Keep(t, [req[t] EXCEPT !.failed = TRUE]) /\ UNCHANGED handled
     ELSE Refuse(t)
  /\ UNCHANGED <<now, published, server, tables, received>>

Install(t) ==
  /\ pc[t] = "install"
  /\ byKid' = req[t].got
  /\ installs' = Append(installs, [set |-> req[t].got, at |-> now])
  /\ Goto(t, "stamp")
  /\ UNCHANGED <<now, published, server, all, lastRefresh, lock, req, handled, received>>

Stamp(t) ==
  /\ pc[t] = "stamp"
  /\ all' = req[t].got /\ lastRefresh' = now
  /\ installs' = [installs EXCEPT ![Len(installs)].at = now]
  /\ lock' = NoThread
  /\ Goto(t, "look")
  /\ UNCHANGED <<now, published, server, byKid, req, handled, received>>
-----------------------------------------------------------------------------
(* An unknown key: one refresh, then a refusal. *)
Miss(t) ==
  IF req[t].why = "miss" THEN Refuse(t)
  ELSE /\ Goto(t, "acquire") /\ Keep(t, [req[t] EXCEPT !.why = "miss"])
       /\ UNCHANGED handled

(* _candidates: the first key under the token's kid and algorithm.         *)
Look(t) ==
  LET token == req[t].token
      named == {i \in Usable(byKid) : KeySets[byKid][i].kid = token.kid}
      fitting == {i \in named : KeySets[byKid][i].alg = token.alg}
  IN /\ pc[t] = "look"
     /\ \/ \E i \in fitting : First(i, fitting) /\ Chosen(t, KeySets[byKid][i])
        \/ named = {} /\ token.kid = NoKid /\ Goto(t, "count") /\ UNCHANGED <<req, handled>>
        \/ fitting = {} /\ (named # {} \/ token.kid # NoKid) /\ Miss(t)
     /\ UNCHANGED <<now, published, server, tables, lock, received>>

(* A token that names no key may use the only one there is: the table is   *)
(* read once for its length and once for the key.                          *)
Count(t) ==
  /\ pc[t] = "count"
  /\ IF Cardinality(Usable(all)) = 1
     THEN Goto(t, "pick") /\ UNCHANGED <<req, handled>>
     ELSE Miss(t)
  /\ UNCHANGED <<now, published, server, tables, lock, received>>

Pick(t) ==
  /\ pc[t] = "pick"
  /\ \E i \in Usable(all) :
       /\ First(i, Usable(all))
       /\ IF KeySets[all][i].alg = req[t].token.alg THEN Chosen(t, KeySets[all][i]) ELSE Miss(t)
  /\ UNCHANGED <<now, published, server, tables, lock, received>>

SignedBy(t) == req[t].token.key = req[t].key.key

(* _claims_from_payload *)
ClaimsHold(token) == now <= token.exp + Leeway /\ Audience \in token.aud

(* Signature and claims, then the scopes the server requires.              *)
Check(t) ==
  /\ pc[t] = "check"
  /\ IF SignedBy(t) /\ ClaimsHold(req[t].token) /\ RequiredScopes \subseteq req[t].token.scopes
     THEN Handle(t) ELSE Refuse(t)
  /\ UNCHANGED <<now, published, server, tables, lock, received>>
-----------------------------------------------------------------------------
(* The authorization server publishes its next key set. *)
Rotate ==
  /\ published < Len(KeySets)
  /\ published' = published + 1
  /\ UNCHANGED <<now, server, tables, lock, pc, req, handled, received>>

Tick ==
  /\ now < MaxTime
  /\ now' = now + 1
  /\ UNCHANGED <<published, server, tables, lock, pc, req, handled, received>>

Step(t) ==
  \/ Authorize(t) \/ Acquire(t) \/ Fetch(t) \/ FetchFails(t) \/ Install(t) \/ Stamp(t)
  \/ Look(t) \/ Count(t) \/ Pick(t) \/ Check(t)

Next ==
  \/ \E s \in Settings, answers \in Metadata : Start(s, answers)
  \/ \E t \in Threads : Step(t) \/ \E token \in Tokens \cup {NoToken} : Receive(t, token)
  \/ Rotate
  \/ Tick

(* Handler threads run; a fetch has a timeout, so the lock is let go.      *)
Fairness == \A t \in Threads : WF_vars(Step(t))

Spec == Init /\ [][Next]_vars /\ Fairness
-----------------------------------------------------------------------------
Keys(set) == {KeySets[set][i].key : i \in DOMAIN KeySets[set]}

(* A set of keys still current when a request of that time came in, or     *)
(* installed since.                                                        *)
Current(install, started) == install.at >= started \/ install.at > started - CacheTtl

(* A withdrawn key is of use for cache_ttl_seconds and the time of one     *)
(* fetch at most: the request was passed on under a key of a set whose     *)
(* installation ended less than the ttl before the request came in, or     *)
(* after it, unless the authorization server could not be reached.         *)
RevocationBounded ==
  \A h \in handled :
    (server.verifier = "jwks" /\ ~h.failed) =>
      \E i \in DOMAIN installs :
        /\ Current(installs[i], h.started)
        /\ h.token.key \in Keys(installs[i].set)

(* Whatever is passed on under authentication carries a token signed with  *)
(* the server's key, or with one the issuer published under the kid the    *)
(* token names, for this audience, with the scopes.                        *)
TokensGenuine ==
  \A h \in handled :
    server.verifier # "none" =>
      /\ h.token # NoToken
      /\ IF server.verifier = "key" THEN h.token.key = server.key.key
         ELSE \E i \in DOMAIN installs : \E j \in DOMAIN KeySets[installs[i].set] :
                LET k == KeySets[installs[i].set][j]
                IN k.key = h.token.key /\ k.alg = h.token.alg /\ h.token.kid \in {k.kid, NoKid}
      /\ Audience \in h.token.aud /\ RequiredScopes \subseteq h.token.scopes

(* Refreshes by several threads never put an older key set back.           *)
NoRollback ==
  \A i, j \in DOMAIN installs : i < j => installs[i].set <= installs[j].set

(* Whoever gets through the boundary holds a genuine token under a key     *)
(* that is as current as the cache promises.                               *)
HandledGenuine == TokensGenuine /\ RevocationBounded /\ NoRollback

(* Every request is answered: no order of rotations, failed fetches and    *)
(* waits for the lock leaves a handler stuck.                              *)
EveryRequestAnswered == \A t \in Threads : pc[t] # "idle" ~> pc[t] = "idle"
=============================================================================
