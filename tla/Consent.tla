------------------------------- MODULE Consent -------------------------------
(***************************************************************************)
(* The runtime bridge (bridge.rs): the one identity a session is bound to, *)
(* and the ledger of exact, expiring grants its dispatches are checked     *)
(* against, a set since nothing reads its order.  Names are abstracted to  *)
(* whether they are well formed; times are small integers and the last one *)
(* stands for u64::MAX.                                                    *)
(*                                                                         *)
(* On the bound identity rests the client of the host's IPC (slice         *)
(* bridge.rs): every call is authorized, consented to, sent and correlated *)
(* with its answer.  The endpoint with its queues and its ledger of scopes *)
(* is the bitty-ipc library, external; so is the peer that serves.         *)
(***************************************************************************)
EXTENDS Verdicts

CONSTANTS Protocols, Tools, Scopes,     \* names, some malformed
          WellFormed,                   \* the well-formed ones
          Instances,
          MaxGrants,                    \* MAX_CONSENT_GRANTS
          Ttl,                          \* DEFAULT_CONSENT_TTL_MS
          LastTime,                     \* the end of the clock
          LongIds,                      \* protocol ids beyond MAX_WIRE_CLIENT_ID_BYTES
          Methods,                      \* method -> {} or {its scope}
          MaxPending,                   \* requests the endpoint may have open
          MaxCalls,                     \* bound of the instance
          Gestures                      \* sets of pairs a user may grant at once, in order

ASSUME ConsentAssumption ==
    /\ MaxGrants \in Nat /\ Ttl \in Nat /\ LastTime \in Nat /\ MaxPending \in Nat \ {0}
    /\ \A gesture \in Gestures : Len(gesture) \in Nat

VARIABLES binding,           \* {} or {<<protocol, instance>>}
          grants,            \* the ledger
          time,
          willed,            \* history: what the user last said of a triple
          asked,             \* the dispatch just made and its answer
          client,            \* {} or the wire client id with its scopes
          consented,         \* scope -> end of the grant to this client
          requests,          \* the endpoint's queue of requests
          pending,           \* ids the endpoint awaits an answer to
          calls,             \* ids handed out
          called             \* {} or the last call: [id, result, by]

ipcVars == <<client, consented, requests, pending, calls, called>>
consentVars == <<binding, grants, time, willed, asked, ipcVars>>

IpcInit ==
    /\ client = {} /\ consented = [s \in Scopes |-> 0] /\ requests = <<>>
    /\ pending = {} /\ calls = 0 /\ called = {}

ConsentInit == binding = {} /\ grants = {} /\ time = 0 /\ willed = {} /\ asked = {} /\ IpcInit

-----------------------------------------------------------------------------
ValidateProtocolId(p) == p \in WellFormed

(* bind: idempotent for the same pair, refused for another. *)
Bind(p, a) ==
    /\ ValidateProtocolId(p)
    /\ binding' = IF binding = {} THEN {<<p, a>>} ELSE binding
    /\ asked' = {} /\ UNCHANGED <<grants, time, willed, ipcVars>>

ResolveProtocol(a) == {b[1] : b \in {x \in binding : x[2] = a}}

-----------------------------------------------------------------------------
Triple(p, t, s) == [protocol |-> p, tool |-> t, scope |-> s]

Grant(triple, expires) == [triple |-> triple, expires |-> expires]

Held(ledger, triple) == {g \in ledger : g.triple = triple}

(* grant: names are checked, a known triple is refreshed, a full ledger
   refuses a new one. *)
Granted(ledger, triple, expires) ==
    LET result == Verdict(<< <<~ValidateProtocolId(triple.protocol), "InvalidProtocolId">>,
                             <<triple.tool \notin WellFormed \/ triple.scope \notin WellFormed, "InvalidGrant">>,
                             <<Held(ledger, triple) = {} /\ Cardinality(ledger) >= MaxGrants, "LedgerFull">> >>)
    IN  [result |-> result,
         grants |-> IF result = "ok" THEN (ledger \ Held(ledger, triple)) \cup {Grant(triple, expires)} ELSE ledger]

(* An iteration of grant_turn_set: nothing more after a failure. *)
GrantedNext(set, triple, expires) ==
    LET one == Granted(set.grants, triple, expires) IN
    IF set.result # "ok" THEN set
    ELSE [grants |-> one.grants, result |-> one.result,
          done |-> IF one.result = "ok" THEN set.done \cup {triple} ELSE set.done]

(* grant_turn_set, n -> what n pairs come to: pair after pair, the earlier
   ones staying when one fails. *)
GrantedSets(ledger, p, pairs, expires) ==
    LET after[n \in 0..Len(pairs)] ==
            IF n = 0 THEN [grants |-> ledger, result |-> "ok", done |-> {}]
            ELSE GrantedNext(after[n - 1], Triple(p, pairs[n][1], pairs[n][2]), expires)
    IN  after

Will(triples, expires) ==
    {w \in willed : w.triple \notin triples} \cup {Grant(t, expires) : t \in triples}

GrantTurnSet(p, pairs, ttl) ==
    LET expires == Min({time + ttl, LastTime})
        set     == GrantedSets(grants, p, pairs, expires)[Len(pairs)]
    IN  /\ grants' = set.grants /\ willed' = Will(set.done, expires)
        /\ asked' = {} /\ UNCHANGED <<binding, time, ipcVars>>

Revoke(triple) ==
    /\ grants' = grants \ Held(grants, triple)
    /\ willed' = {w \in willed : w.triple # triple}
    /\ asked' = {} /\ UNCHANGED <<binding, time, ipcVars>>

DrainExpired ==
    /\ grants' = {g \in grants : time < g.expires}
    /\ asked' = {} /\ UNCHANGED <<binding, time, willed, ipcVars>>

Tick == time < LastTime /\ time' = time + 1 /\ asked' = {} /\ UNCHANGED <<binding, grants, willed, ipcVars>>

\* Mutant: the last moment of a grant still counts.
LiveInclusive(g) == time <= g.expires

Live(g) == time < g.expires

(* check, and ensure_consented_for_dispatch over it. *)
Consented(triple) == \E g \in Held(grants, triple) : Live(g)

Dispatch(a, t, s) ==
    /\ \E p \in ResolveProtocol(a) :
         asked' = {[triple |-> Triple(p, t, s), at |-> time, answer |-> IF Consented(Triple(p, t, s)) THEN "allow" ELSE "deny",
                    due |-> \E w \in willed : w.triple = Triple(p, t, s) /\ time < w.expires]}
    /\ UNCHANGED <<binding, grants, time, willed, ipcVars>>

ConsentNext ==
    \/ \E p \in Protocols, a \in Instances : Bind(p, a)
    \/ \E p \in Protocols, g \in Gestures, ttl \in {1, Ttl} : GrantTurnSet(p, g, ttl)
    \/ \E p \in Protocols, t \in Tools, s \in Scopes : Revoke(Triple(p, t, s))
    \/ DrainExpired \/ Tick
    \/ \E a \in Instances, t \in Tools, s \in Scopes : Dispatch(a, t, s)

-----------------------------------------------------------------------------
(* wire_client_id: the bound protocol id itself, when it is short enough. *)
WireClientId == {b[1] : b \in {x \in binding : x[1] \notin LongIds}}

FromBinding(scopes) ==
    /\ client = {}
    /\ \E id \in WireClientId : client' = {[id |-> id, scopes |-> scopes]}
    /\ UNCHANGED <<binding, grants, time, willed, asked, consented, requests, pending, calls, called>>

GrantConsent(scope, ttl) ==
    /\ client # {}
    /\ consented' = [consented EXCEPT ![scope] = Min({time + ttl, LastTime})]
    /\ UNCHANGED <<binding, grants, time, willed, asked, client, requests, pending, calls, called>>

ConsentActive(scope) == time < consented[scope]

(* Every exit after admission finalizes the pending entry. *)
Complete(open, id, result) == open \ {id}

(* serve_admitted: the oldest request goes to the peer, which fails, answers
   under some id, refuses, or answers what no envelope may hold; an answer that
   does not correlate is never queued. *)
ServeAdmitted(id, queue, peer) ==
    LET request  == Head(queue)
        answerId == IF peer = "other" THEN 0 ELSE request
    IN  [requests |-> Tail(queue),
         by       |-> request,
         result   |-> Verdict(<< <<peer = "fault", "Transport">>,
                                 <<answerId # id, "ContextUnavailable">>,
                                 <<peer = "oversize", "Ipc">>,
                                 <<peer = "refuse", "ContextUnavailable">> >>)]

(* call: the checks, the admission by the endpoint, the exchange, the cleanup. *)
Call(method, peer) ==
    LET id     == calls + 1
        served == ServeAdmitted(id, Append(requests, id), peer)
    IN  /\ calls < MaxCalls
        /\ \E c \in client, scope \in Methods[method] : scope \in c.scopes /\ ConsentActive(scope)
        /\ calls' = id
        /\ IF Cardinality(pending) >= MaxPending
           THEN called' = {[id |-> id, result |-> "Full", by |-> 0, at |-> time, method |-> method]} /\ UNCHANGED <<requests, pending>>
           ELSE /\ requests' = served.requests
                /\ pending' = Complete(pending \cup {id}, id, served.result)
                /\ called' = {[id |-> id, result |-> served.result, by |-> served.by, at |-> time, method |-> method]}
        /\ UNCHANGED <<binding, grants, time, willed, asked, client, consented>>

IpcTick == time < LastTime /\ time' = time + 1 /\ UNCHANGED <<binding, grants, willed, asked, ipcVars>>

IpcNext ==
    \/ \E p \in Protocols, a \in Instances : Bind(p, a)
    \/ \E scopes \in SUBSET Scopes : FromBinding(scopes)
    \/ \E scope \in Scopes, ttl \in {1, Ttl} : GrantConsent(scope, ttl)
    \/ \E method \in DOMAIN Methods, peer \in {"fault", "other", "oversize", "refuse", "answer"} : Call(method, peer)
    \/ IpcTick

ConsentSpec == ConsentInit /\ [][ConsentNext \/ IpcNext]_consentVars

-----------------------------------------------------------------------------
(* A dispatch is let through exactly when the user's last word on that very
   triple was a grant that has not run out: never for a revoked or an expired
   one, a neighbouring tool or scope, or another session's protocol.  The
   ledger holds each triple once, within its bound.  A call over IPC goes out
   under the bound identity with consent to its scope, is answered by its own
   answer, and leaves nothing behind in the endpoint however it ends, so that
   no failure of a peer uses up what later calls need (AI-CTX-007). *)
ConsentExact ==
    /\ \A q \in asked : (q.answer = "allow") <=> q.due
    /\ Cardinality(grants) <= MaxGrants /\ grants \subseteq willed
    /\ \A g, h \in grants : g.triple = h.triple => g = h
    /\ pending = {} /\ requests = <<>>
    /\ \A c \in client : \E b \in binding : c.id = b[1]
    /\ \A c \in called : c.result # "Full" /\ (c.result = "ok" => c.by = c.id)
=============================================================================
