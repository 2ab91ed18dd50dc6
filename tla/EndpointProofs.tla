--------------------------- MODULE EndpointProofs ---------------------------
(***************************************************************************)
(* The endpoint contacts what the host injects only for a call that is     *)
(* admitted as it is dispatched, and what it answers is so as it is        *)
(* answered, for any clients, requests, views, bounds and changes of the   *)
(* host in between.  The compaction store, which builds on the same view   *)
(* store, keeps nothing that was deleted or has outlived its class.  The   *)
(* assembly of a turn, which fills the same artifact store, says what was  *)
(* observed and fits its budget; the layered prompt that goes with it only *)
(* narrows, whatever order it was given in, and keeps its cache key from   *)
(* turn to turn.                                                           *)
(***************************************************************************)
EXTENDS Endpoint, Compaction, Assembly, Prompt, FiniteSetTheorems, NaturalsInduction, WellFoundedInduction, TLAPS

\* What a client composed, and the host has not dispatched.
WellComposed(call) ==
    call.created \in Nat /\ call.at \in Int /\ call.args \in {t.args : t \in Templates}

CallsComposed ==
    /\ calls = [c \in Clients |-> calls[c]]
    /\ \A c \in Clients : calls[c] # <<>> => WellComposed(calls[c][1])

EndpointInv ==
    /\ now \in Nat /\ tools \in Seq(ToolSpecs) /\ CallsComposed
    /\ ContactGated /\ AxisKept
    /\ last.kind = "none" => last.contacts = 0

-----------------------------------------------------------------------------
LEMMA LeastNatural ==
    ASSUME NEW S \in SUBSET Nat, S # {}
    PROVE  \E n \in S : \A x \in S : n <= x
  <1>1. PICK n \in S : \A x \in S : <<x, n>> \notin OpToRel(<, Nat)
    BY NatLessThanWellFounded, WFMin, Zenon
  <1>2. ASSUME NEW x \in S, x < n
        PROVE  FALSE
    <2>1. <<x, n>> \in OpToRel(<, Nat)
      BY <1>2 DEF OpToRel
    <2> QED
      BY <2>1, <1>1
  <1> QED
    BY <1>2

LEMMA LeastIsIn ==
    ASSUME NEW S \in SUBSET Nat, S # {}
    PROVE  Min(S) \in S
  <1>1. PICK n \in S : \A x \in S : n <= x
    BY LeastNatural
  <1> QED
    BY <1>1 DEF Min

\* A sequence of checks that lets something through had none that failed.
LEMMA NoneFailed ==
    ASSUME NEW checks, DOMAIN checks \subseteq Nat, Verdict(checks) = "ok",
           \A i \in DOMAIN checks : checks[i][1] => checks[i][2] # "ok"
    PROVE  \A i \in DOMAIN checks : ~checks[i][1]
  <1>1. Failing(checks) \in SUBSET Nat /\ \A i \in Failing(checks) : i \in DOMAIN checks /\ checks[i][1]
    BY DEF Failing
  <1>2. Failing(checks) = {}
    <2> SUFFICES ASSUME Failing(checks) # {}
                 PROVE  FALSE
      OBVIOUS
    <2>1. Min(Failing(checks)) \in Failing(checks)
      BY <1>1, LeastIsIn
    <2>2. Verdict(checks) = checks[Min(Failing(checks))][2]
      BY DEF Verdict
    <2> QED
      BY <1>1, <2>1, <2>2
  <1> QED
    BY <1>2 DEF Failing

\* What the gates let through.
LEMMA GatesHeld ==
    ASSUME NEW call, RunGates(call) = "ok"
    PROVE  /\ RequiredScope(call.method) \in GrantedTo(call.client)
           /\ ConsentLive(call.client, RequiredScope(call.method))
           /\ call.timeout \in 1..MaxTimeout
           /\ ~ now >= DomainDeadline(call.created, call.timeout)
  <1> DEFINE checks ==
          << <<call.method \notin Methods, "NotFound">>,
             <<RequiredScope(call.method) \notin GrantedTo(call.client), "ScopeDenied">>,
             <<~ConsentLive(call.client, RequiredScope(call.method)), "ScopeDenied">>,
             <<call.timeout \notin 1..MaxTimeout, "InvalidRequest">>,
             <<now >= DomainDeadline(call.created, call.timeout), "Timeout">>,
             <<~SchemaAccepts(call), "InvalidRequest">> >>
  <1>1. Verdict(checks) = "ok"
    BY DEF RunGates
  <1>2. DOMAIN checks = 1..6
    OBVIOUS
  <1>3. /\ checks[1][2] = "NotFound" /\ checks[2][2] = "ScopeDenied" /\ checks[3][2] = "ScopeDenied"
        /\ checks[4][2] = "InvalidRequest" /\ checks[5][2] = "Timeout" /\ checks[6][2] = "InvalidRequest"
    OBVIOUS
  <1>4. (RequiredScope(call.method) \notin GrantedTo(call.client)) => checks[2][1]
    OBVIOUS
  <1>5. ~ConsentLive(call.client, RequiredScope(call.method)) => checks[3][1]
    OBVIOUS
  <1>6. (call.timeout \notin 1..MaxTimeout) => checks[4][1]
    OBVIOUS
  <1>7. (now >= DomainDeadline(call.created, call.timeout)) => checks[5][1]
    OBVIOUS
  <1> HIDE DEF checks
  <1>8. \A i \in DOMAIN checks : ~checks[i][1]
    <2>1. DOMAIN checks \subseteq Nat /\ \A i \in DOMAIN checks : checks[i][2] # "ok"
      BY <1>2, <1>3
    <2> QED
      BY <1>1, <2>1, NoneFailed
  <1>9. ~checks[2][1] /\ ~checks[3][1] /\ ~checks[4][1] /\ ~checks[5][1]
    BY <1>2, <1>8
  <1> QED
    BY <1>4, <1>5, <1>6, <1>7, <1>9

LEMMA CompletionHeld ==
    ASSUME NEW call, NEW shown, CompleteVerdict(call, shown) = "ok"
    PROVE  /\ shown.echo = call.body.provider /\ shown.provider = call.body.provider
           /\ call.body.timeout \in 1..MaxTimeout
           /\ ~ now >= DomainDeadline(call.at, call.body.timeout)
  <1> DEFINE b == call.body
             checks ==
          << <<b.sampling = "declared", "InvalidRequest">>,
             <<shown.echo # b.provider, "ScopeDenied">>,
             <<shown.provider # b.provider, "NotFound">>,
             <<TotalMessageBytes(b) > b.budget, "BudgetExceeded">>,
             <<b.timeout \notin 1..MaxTimeout, "TimeoutTooLarge">>,
             <<EnvelopeVerdict(b) # "ok", EnvelopeVerdict(b)>>,
             <<now >= DomainDeadline(call.at, b.timeout), "Timeout">> >>
  <1>1. Verdict(checks) = "ok"
    BY DEF CompleteVerdict
  <1>2. DOMAIN checks = 1..7
    OBVIOUS
  <1>3. /\ checks[1][2] = "InvalidRequest" /\ checks[2][2] = "ScopeDenied" /\ checks[3][2] = "NotFound"
        /\ checks[4][2] = "BudgetExceeded" /\ checks[5][2] = "TimeoutTooLarge" /\ checks[7][2] = "Timeout"
    OBVIOUS
  <1>4. checks[6][1] => checks[6][2] # "ok"
    OBVIOUS
  <1>5. (shown.echo # b.provider) => checks[2][1]
    OBVIOUS
  <1>6. (shown.provider # b.provider) => checks[3][1]
    OBVIOUS
  <1>7. (b.timeout \notin 1..MaxTimeout) => checks[5][1]
    OBVIOUS
  <1>8. (now >= DomainDeadline(call.at, b.timeout)) => checks[7][1]
    OBVIOUS
  <1> HIDE DEF checks
  <1>9. \A i \in DOMAIN checks : ~checks[i][1]
    <2>1. DOMAIN checks \subseteq Nat /\ \A i \in DOMAIN checks : checks[i][1] => checks[i][2] # "ok"
      BY <1>2, <1>3, <1>4
    <2> QED
      BY <1>1, <2>1, NoneFailed
  <1>10. ~checks[2][1] /\ ~checks[3][1] /\ ~checks[5][1] /\ ~checks[7][1]
    BY <1>2, <1>9
  <1> QED
    BY <1>5, <1>6, <1>7, <1>8, <1>10

\* A deadline that has not passed is no later than its time after the start.
LEMMA BeforeDeadline ==
    ASSUME now \in Nat, NEW start \in Int, NEW timeout \in 1..MaxTimeout, ~ now >= DomainDeadline(start, timeout)
    PROVE  now < start + timeout
  BY EndpointAssumption DEF DomainDeadline, Later

-----------------------------------------------------------------------------
\* The shape of an outcome; what is uncontacted told nobody of the call.
IsOutcome(o) ==
    o = [kind |-> o.kind, error |-> o.error, answer |-> o.answer, contacts |-> o.contacts,
         call |-> o.call, with |-> o.with]

Uncontacted(o) == IsOutcome(o) /\ o.contacts = 0 /\ o.kind # "none"

LEMMA OutcomeUncontacted ==
    ASSUME NEW kind, NEW error, NEW answer, kind # "none"
    PROVE  Uncontacted(Outcome(kind, error, answer))
  BY DEF Uncontacted, IsOutcome, Outcome

LEMMA ReadyUncontacted == \A answer : Uncontacted(Ready(answer))
  BY OutcomeUncontacted DEF Ready

LEMMA RefusedUncontacted == \A error : Uncontacted(Refused(error))
  BY OutcomeUncontacted DEF Refused

LEMMA NotWiredUncontacted == Uncontacted(NotWired)
  BY OutcomeUncontacted DEF NotWired

LEMMA ContactedOnce ==
    ASSUME NEW o, Uncontacted(o)
    PROVE  /\ IsOutcome(Contacted(o)) /\ Contacted(o).contacts = 1 /\ Contacted(o).kind # "none"
           /\ Contacted(o).kind = o.kind /\ Contacted(o).error = o.error /\ Contacted(o).answer = o.answer
  <1> DEFINE r == [kind |-> o.kind, error |-> o.error, answer |-> o.answer, contacts |-> 0,
                   call |-> o.call, with |-> o.with]
  <1>1. o = r
    BY DEF Uncontacted, IsOutcome
  <1>2. [r EXCEPT !.contacts = 1] = [kind |-> o.kind, error |-> o.error, answer |-> o.answer, contacts |-> 1,
                                     call |-> o.call, with |-> o.with]
    OBVIOUS
  <1>3. Contacted(o) = [kind |-> o.kind, error |-> o.error, answer |-> o.answer, contacts |-> 1,
                        call |-> o.call, with |-> o.with]
    BY <1>1, <1>2 DEF Contacted
  <1> HIDE DEF r
  <1> QED
    BY <1>3 DEF IsOutcome, Uncontacted

LEMMA SelectUncontacted ==
    ASSUME NEW b
    PROVE  Uncontacted(HandleSelect(b))
  <1> DEFINE chosen == Select(models, aliases, b)
  <1>1. CASE chosen.error = "ok"
    BY <1>1, ReadyUncontacted DEF HandleSelect
  <1>2. CASE chosen.error = "UnknownAlias"
    BY <1>2, RefusedUncontacted DEF HandleSelect
  <1>3. CASE chosen.error = "NoCandidate"
    BY <1>3, ReadyUncontacted DEF HandleSelect
  <1>4. CASE chosen.error \notin {"ok", "UnknownAlias", "NoCandidate"}
    BY <1>4, RefusedUncontacted DEF HandleSelect
  <1> QED
    BY <1>1, <1>2, <1>3, <1>4

\* A handler of a reading method contacts nobody.
LEMMA ReadUncontacted ==
    ASSUME NEW call, call.method \in ReadMethods
    PROVE  Uncontacted(HandleRead(call))
  <1> DEFINE b == call.body
  <1>1. CASE DecodeRequest(call) # "ok"
    BY <1>1, RefusedUncontacted DEF HandleRead
  <1>2. CASE DecodeRequest(call) = "ok"
    <2>1. CASE call.method = "ai.model_select"
      <3>1. HandleRead(call) = HandleSelect(b)
        BY <1>2, <2>1 DEF HandleRead
      <3> QED
        BY <3>1, SelectUncontacted
    <2>2. CASE call.method = "ai.model_fallback"
      BY <1>2, <2>2, ReadyUncontacted DEF HandleRead, HandleFallback
    <2>3. CASE call.method = "ai.model_cost"
      <3>1. HandleRead(call) = HandleCost(b)
        BY <1>2, <2>3 DEF HandleRead
      <3> QED
        BY <3>1, ReadyUncontacted DEF HandleCost
    <2>4. CASE call.method = "ai.provider_list"
      <3>1. HandleRead(call) = HandleList
        BY <1>2, <2>4 DEF HandleRead
      <3> QED
        BY <3>1, ReadyUncontacted, RefusedUncontacted DEF HandleList
    <2>5. CASE call.method = "ai.cache_hint"
      <3>1. HandleRead(call) = HandleCacheHint(b)
        BY <1>2, <2>5 DEF HandleRead
      <3> QED
        BY <3>1, ReadyUncontacted, RefusedUncontacted DEF HandleCacheHint
    <2>6. CASE call.method = "ai.mcp_pin"
      <3>1. HandleRead(call) = HandlePin
        BY <1>2, <2>6 DEF HandleRead
      <3> QED
        BY <3>1, ReadyUncontacted, RefusedUncontacted DEF HandlePin
    <2>7. CASE call.method = "ai.mcp_snapshot"
      BY <1>2, <2>7, ReadyUncontacted DEF HandleRead, HandleSnapshot
    <2>8. CASE call.method = "ai.extension_manifest"
      BY <1>2, <2>8, ReadyUncontacted DEF HandleRead, HandleManifest
    <2>9. CASE call.method = "ai.extension_contribute"
      BY <1>2, <2>9, ReadyUncontacted DEF HandleRead, HandleContribute
    <2>10. CASE call.method = "ai.extension_activate"
      <3>1. HandleRead(call) = HandleActivate(b)
        BY <1>2, <2>10 DEF HandleRead
      <3> QED
        BY <3>1, RefusedUncontacted DEF HandleActivate
    <2> QED
      BY <2>1, <2>2, <2>3, <2>4, <2>5, <2>6, <2>7, <2>8, <2>9, <2>10 DEF ReadMethods
  <1> QED
    BY <1>1, <1>2

LEMMA ContextReadUncontacted ==
    ASSUME NEW call
    PROVE  Uncontacted(HandleContextRead(call))
  BY ReadyUncontacted, RefusedUncontacted DEF HandleContextRead

\* What a provider or an executor answered is an outcome before it is marked.
LEMMA CompletedUncontacted ==
    ASSUME NEW call, NEW reply
    PROVE  Uncontacted(Completed(call, reply))
  BY ReadyUncontacted, RefusedUncontacted DEF Completed

LEMMA ExecutedUncontacted ==
    ASSUME NEW reply
    PROVE  Uncontacted(Executed(reply))
  BY ReadyUncontacted, RefusedUncontacted DEF Executed

LEMMA ReadySays == \A answer : Ready(answer).kind = "Ready" /\ Ready(answer).answer = answer
  BY DEF Ready, Outcome

LEMMA RefusedSays == \A error : Refused(error).kind = "Refused" /\ Refused(error).error = error
  BY DEF Refused, Outcome

\* The class a failed completion is refused with keeps the fallback directive.
LEMMA CompletedKeepsClass ==
    ASSUME NEW call, NEW reply
    PROVE  IF Completed(call, reply).kind = "Ready" THEN reply.error = "ok"
           ELSE reply.error # "ok" =>
                  ((Completed(call, reply).error \in AdvanceClasses)
                     <=> (FallbackDirective(reply.error) = "Advance"))
  <1>1. CASE reply.error # "ok"
    <2>1. Completed(call, reply) = Refused(ProviderErrorRefusal(reply.error))
      BY <1>1 DEF Completed
    <2>2. (ProviderErrorRefusal(reply.error) \in AdvanceClasses) <=> (FallbackDirective(reply.error) = "Advance")
      BY DEF ProviderErrorRefusal, AdvanceClasses, FallbackDirective
    <2> QED
      BY <1>1, <2>1, <2>2, RefusedSays
  <1> QED
    BY <1>1

\* The status a tool's answer is reported with is the one it ended with.
LEMMA ExecutedKeepsStatus ==
    ASSUME NEW reply, Executed(reply).kind = "Ready"
    PROVE  Executed(reply).answer[1].status = CASE reply.error = "ok" -> "success"
                                                [] reply.error = "EffectUnknown" -> "unknown"
                                                [] reply.error = "Denied" -> "denied"
                                                [] OTHER -> "failed"
  <1>1. CASE reply.error = "ok"
    <2>1. \/ Executed(reply) = Ready(EncodeToolResult("success", "rejected"))
          \/ Executed(reply) = Ready(EncodeToolResult("success", "accepted"))
      BY <1>1, RefusedSays DEF Executed
    <2>2. Executed(reply).answer[1].status = "success"
      BY <2>1, ReadySays DEF EncodeToolResult
    <2> QED
      BY <1>1, <2>2
  <1>2. CASE reply.error # "ok"
    <2> DEFINE status == CHOOSE s \in ToolStatus(reply.error) : TRUE
    <2>1. ToolStatus(reply.error) # {} /\ Executed(reply) = Ready(EncodeToolResult(status, "accepted"))
      BY <1>2, RefusedSays DEF Executed
    <2>2. status \in ToolStatus(reply.error)
      BY <2>1
    <2> HIDE DEF status
    <2>3. Executed(reply).answer[1].status = status
      BY <2>1, ReadySays DEF EncodeToolResult
    <2> QED
      BY <1>2, <2>2, <2>3 DEF ToolStatus
  <1> QED
    BY <1>1, <1>2

-----------------------------------------------------------------------------
LEMMA ReportFields ==
    ASSUME NEW o, IsOutcome(o), NEW x, NEW y
    PROVE  /\ [o EXCEPT !.call = x, !.with = y].kind = o.kind
           /\ [o EXCEPT !.call = x, !.with = y].error = o.error
           /\ [o EXCEPT !.call = x, !.with = y].answer = o.answer
           /\ [o EXCEPT !.call = x, !.with = y].contacts = o.contacts
           /\ [o EXCEPT !.call = x, !.with = y].call = x
           /\ [o EXCEPT !.call = x, !.with = y].with = y
  <1> DEFINE r == [kind |-> o.kind, error |-> o.error, answer |-> o.answer, contacts |-> o.contacts,
                   call |-> o.call, with |-> o.with]
             s == [r EXCEPT !.call = x, !.with = y]
  <1>1. s.kind = o.kind /\ s.error = o.error /\ s.answer = o.answer /\ s.contacts = o.contacts /\ s.call = x /\ s.with = y
    OBVIOUS
  <1>2. o = r
    BY DEF IsOutcome
  <1>3. s = [o EXCEPT !.call = x, !.with = y]
    BY <1>2
  <1> HIDE DEF s
  <1> QED
    BY <1>1, <1>3

\* What a report leaves in place, and what it says.
LEMMA Reports ==
    ASSUME EndpointInv, NEW c \in Clients, NEW o, IsOutcome(o), NEW injected, Report(c, o, injected)
    PROVE  /\ now' \in Nat /\ tools' \in Seq(ToolSpecs) /\ CallsComposed'
           /\ now' = now /\ consent' = consent /\ toolGrants' = toolGrants /\ tools' = tools
           /\ last'.kind = o.kind /\ last'.contacts = o.contacts /\ last'.call = calls[c][1]
           /\ last'.error = o.error /\ last'.answer = o.answer
           /\ o.contacts > 0 => last'.with = injected
  <1>1. /\ last'.kind = o.kind /\ last'.error = o.error /\ last'.answer = o.answer
        /\ last'.contacts = o.contacts /\ last'.call = calls[c][1]
        /\ last'.with = IF o.contacts > 0 THEN injected ELSE Nothing
    BY ReportFields DEF Report
  <1>2. now' = now /\ consent' = consent /\ toolGrants' = toolGrants /\ tools' = tools
    BY DEF Report, hostVars
  <1>3. CallsComposed'
    BY DEF Report, EndpointInv, CallsComposed, WellComposed
  <1> QED
    BY <1>1, <1>2, <1>3 DEF EndpointInv

LEMMA UncontactedReport ==
    ASSUME EndpointInv, NEW c \in Clients, NEW o, Uncontacted(o), NEW injected, Report(c, o, injected)
    PROVE  EndpointInv'
  <1>1. IsOutcome(o)
    BY DEF Uncontacted
  <1>2. /\ now' \in Nat /\ tools' \in Seq(ToolSpecs) /\ CallsComposed'
        /\ last'.contacts = 0
    BY <1>1, Reports DEF Uncontacted
  <1>3. ContactGated' /\ AxisKept'
    BY <1>2 DEF ContactGated, AxisKept
  <1> QED
    BY <1>2, <1>3 DEF EndpointInv

\* A host's step, with no report standing.
LEMMA HostKeeps ==
    ASSUME EndpointInv, last.kind = "none", last' = last, now' \in Nat, tools' \in Seq(ToolSpecs), CallsComposed'
    PROVE  EndpointInv'
  <1>1. last'.contacts = 0
    BY DEF EndpointInv
  <1>2. ContactGated' /\ AxisKept'
    BY <1>1 DEF ContactGated, AxisKept
  <1> QED
    BY <1>1, <1>2 DEF EndpointInv

-----------------------------------------------------------------------------
LEMMA DispatchReadKeeps ==
    ASSUME EndpointInv, NEW c \in Clients, NEW entry, DispatchRead(c, entry),
           entry \in {"dispatch", "dispatch_with", "dispatch_with_context",
                      "dispatch_with_complete", "dispatch_with_tools"}
    PROVE  EndpointInv'
  <1> DEFINE call == calls[c][1]
             handled == IF call.method = "ai.context_read" THEN HandleContextRead(call) ELSE HandleRead(call)
             o == Admitted(call, entry, handled)
  <1>1. Uncontacted(o)
    <2>1. CASE RunGates(call) # "ok"
      BY <2>1, RefusedUncontacted DEF Admitted
    <2>2. CASE RunGates(call) = "ok" /\ call.method \notin Wired(entry)
      BY <2>2, NotWiredUncontacted DEF Admitted
    <2>3. CASE RunGates(call) = "ok" /\ call.method \in Wired(entry)
      <3>1. call.method \in Methods
        BY <2>3 DEF Wired, Methods, InvokeMethods
      <3>2. call.method \notin InvokeMethods
        BY <2>3 DEF DispatchRead
      <3>3. call.method = "ai.context_read" \/ call.method \in ReadMethods
        BY <3>1, <3>2 DEF Methods
      <3>4. Uncontacted(handled)
        BY <3>3, ContextReadUncontacted, ReadUncontacted
      <3>5. o = handled
        BY <2>3 DEF Admitted
      <3> HIDE DEF handled
      <3> QED
        BY <3>4, <3>5
    <2> QED
      BY <2>1, <2>2, <2>3
  <1>2. Report(c, o, Nothing)
    BY DEF DispatchRead
  <1> HIDE DEF o
  <1> QED
    BY <1>1, <1>2, UncontactedReport

LEMMA DispatchStrictKeeps ==
    ASSUME EndpointInv, NEW c \in Clients, DispatchStrict(c)
    PROVE  EndpointInv'
  <1>1. Uncontacted(StrictOutcome(calls[c][1]))
    BY RefusedUncontacted DEF StrictOutcome
  <1> QED
    BY <1>1, UncontactedReport DEF DispatchStrict

\* What the gates leave standing of a call that reaches an injected part.
LEMMA AdmittedIsLive ==
    ASSUME EndpointInv, NEW c \in Clients, calls[c] # <<>>, calls[c][1].method \in InvokeMethods,
           RunGates(calls[c][1]) = "ok"
    PROVE  /\ "ai.invoke" \in GrantedTo(calls[c][1].client)
           /\ \E g \in consent : g.client = calls[c][1].client /\ g.scope = "ai.invoke" /\ now < g.expires
           /\ now < calls[c][1].created + calls[c][1].timeout
  <1> DEFINE call == calls[c][1]
  <1>1. WellComposed(call) /\ now \in Nat
    BY DEF EndpointInv, CallsComposed
  <1>2. RequiredScope(call.method) = "ai.invoke"
    BY DEF RequiredScope
  <1>3. /\ RequiredScope(call.method) \in GrantedTo(call.client)
        /\ ConsentLive(call.client, RequiredScope(call.method))
        /\ call.timeout \in 1..MaxTimeout
        /\ ~ now >= DomainDeadline(call.created, call.timeout)
    BY GatesHeld
  <1>4. now < call.created + call.timeout
    BY <1>1, <1>3, BeforeDeadline DEF WellComposed
  <1> QED
    BY <1>2, <1>3, <1>4 DEF ConsentLive

LEMMA DispatchCompleteKeeps ==
    ASSUME EndpointInv, NEW c \in Clients, NEW shown, NEW reply, DispatchComplete(c, shown, reply)
    PROVE  EndpointInv'
  <1> DEFINE call == calls[c][1]
             handled == HandleComplete(call, shown, reply)
             o == Admitted(call, "dispatch_with_complete", handled)
             injected == [part |-> "provider", view |-> shown, reply |-> reply]
  <1>1. calls[c] # <<>> /\ call.method = "ai.provider_complete" /\ Report(c, o, injected)
    BY DEF DispatchComplete, Composed
  <1>2. CASE Uncontacted(o)
    <2> HIDE DEF o
    <2> QED
      BY <1>1, <1>2, UncontactedReport
  <1>3. CASE ~Uncontacted(o)
    <2>1. RunGates(call) = "ok" /\ call.method \in Wired("dispatch_with_complete")
      BY <1>3, RefusedUncontacted, NotWiredUncontacted DEF Admitted
    <2>2. o = handled
      BY <2>1 DEF Admitted
    <2>3. DecodeRequest(call) = "ok" /\ CompleteVerdict(call, shown) = "ok"
      BY <1>3, <2>2, RefusedUncontacted DEF HandleComplete
    <2>4. o = Contacted(Completed(call, reply))
      BY <2>2, <2>3 DEF HandleComplete
    <2>5. /\ IsOutcome(o) /\ o.contacts = 1 /\ o.kind # "none"
          /\ o.kind = Completed(call, reply).kind /\ o.error = Completed(call, reply).error
          /\ o.answer = Completed(call, reply).answer
      <3>1. Uncontacted(Completed(call, reply))
        BY CompletedUncontacted
      <3> QED
        BY <2>4, <3>1, ContactedOnce
    <2>6. /\ "ai.invoke" \in GrantedTo(call.client)
          /\ \E g \in consent : g.client = call.client /\ g.scope = "ai.invoke" /\ now < g.expires
          /\ now < call.created + call.timeout
      BY <1>1, <2>1, AdmittedIsLive DEF InvokeMethods
    <2>7. /\ shown.echo = call.body.provider /\ shown.provider = call.body.provider
          /\ now < call.at + call.body.timeout
      <3>1. call.at \in Int /\ now \in Nat
        BY <1>1 DEF EndpointInv, CallsComposed, WellComposed
      <3>2. /\ shown.echo = call.body.provider /\ shown.provider = call.body.provider
            /\ call.body.timeout \in 1..MaxTimeout
            /\ ~ now >= DomainDeadline(call.at, call.body.timeout)
        BY <2>3, CompletionHeld
      <3> QED
        BY <3>1, <3>2, BeforeDeadline
    <2>8. injected.part = "provider" /\ injected.view = shown /\ injected.reply = reply
      OBVIOUS
    <2> HIDE DEF o, injected
    <2>9. /\ now' \in Nat /\ tools' \in Seq(ToolSpecs) /\ CallsComposed'
          /\ now' = now /\ consent' = consent /\ toolGrants' = toolGrants /\ tools' = tools
          /\ last'.kind = o.kind /\ last'.contacts = 1 /\ last'.call = call
          /\ last'.error = o.error /\ last'.answer = o.answer /\ last'.with = injected
      BY <1>1, <2>5, Reports
    <2>10. ContactGated'
      BY <1>1, <2>6, <2>7, <2>8, <2>9 DEF ContactGated, InvokeMethods
    <2>11. AxisKept'
      BY <2>5, <2>8, <2>9, CompletedKeepsClass DEF AxisKept
    <2> QED
      BY <2>5, <2>9, <2>10, <2>11 DEF EndpointInv
  <1> QED
    BY <1>2, <1>3

\* What the checks of a tool call leave standing.
LEMMA ToolHeld ==
    ASSUME NEW call, NEW args, tools \in Seq(ToolSpecs), ToolVerdict(call, args) = "ok"
    PROVE  /\ ArgsDigest(args) = call.body.digest
           /\ \E i \in DOMAIN tools, g \in toolGrants :
                /\ tools[i].name = call.body.tool /\ g.tool = tools[i].name
                /\ g.scope = tools[i].scope /\ call.at < g.expires
           /\ \A list \in call.body.allowed : call.body.tool \in list
  <1> DEFINE b == call.body
             i == Min(Lookup(tools, b.tool))
  <1>1. /\ ArgsDigest(args) = b.digest /\ Lookup(tools, b.tool) # {}
        /\ ToolConsented(b.tool, ScopeOfTool(b.tool), call.at) /\ ~NarrowingOmits(b.allowed, b.tool)
    BY DEF ToolVerdict
  <1>2. Lookup(tools, b.tool) \in SUBSET Nat
    BY DEF Lookup
  <1>3. i \in Lookup(tools, b.tool)
    BY <1>1, <1>2, LeastIsIn
  <1>4. ScopeOfTool(b.tool) = tools[i].scope
    BY DEF ScopeOfTool
  <1> HIDE DEF i
  <1>5. i \in DOMAIN tools /\ tools[i].name = b.tool
    BY <1>3 DEF Lookup
  <1>6. PICK g \in toolGrants : g.tool = b.tool /\ g.scope = tools[i].scope /\ call.at < g.expires
    BY <1>1, <1>4 DEF ToolConsented, Covers
  <1> QED
    BY <1>1, <1>5, <1>6 DEF NarrowingOmits

LEMMA DispatchToolKeeps ==
    ASSUME EndpointInv, NEW c \in Clients, NEW args \in {t.args : t \in Templates}, NEW reply,
           DispatchTool(c, args, reply)
    PROVE  EndpointInv'
  <1> DEFINE call == calls[c][1]
             handled == HandleToolDispatch(call, args, reply)
             o == Admitted(call, "dispatch_with_tools", handled)
             injected == [part |-> "executor", args |-> args, reply |-> reply]
  <1>1. calls[c] # <<>> /\ call.method = "ai.tool_dispatch" /\ Report(c, o, injected)
    BY DEF DispatchTool, Composed
  <1>2. CASE Uncontacted(o)
    <2> HIDE DEF o
    <2> QED
      BY <1>1, <1>2, UncontactedReport
  <1>3. CASE ~Uncontacted(o)
    <2>1. RunGates(call) = "ok" /\ call.method \in Wired("dispatch_with_tools")
      BY <1>3, RefusedUncontacted, NotWiredUncontacted DEF Admitted
    <2>2. o = handled
      BY <2>1 DEF Admitted
    <2>3. DecodeRequest(call) = "ok" /\ ToolVerdict(call, args) = "ok"
      BY <1>3, <2>2, RefusedUncontacted DEF HandleToolDispatch
    <2>4. o = Contacted(Executed(reply))
      BY <2>2, <2>3 DEF HandleToolDispatch
    <2>5. /\ IsOutcome(o) /\ o.contacts = 1 /\ o.kind # "none"
          /\ o.kind = Executed(reply).kind /\ o.error = Executed(reply).error
          /\ o.answer = Executed(reply).answer
      <3>1. Uncontacted(Executed(reply))
        BY ExecutedUncontacted
      <3> QED
        BY <2>4, <3>1, ContactedOnce
    <2>6. /\ "ai.invoke" \in GrantedTo(call.client)
          /\ \E g \in consent : g.client = call.client /\ g.scope = "ai.invoke" /\ now < g.expires
          /\ now < call.created + call.timeout
      BY <1>1, <2>1, AdmittedIsLive DEF InvokeMethods
    <2>7. /\ ArgsDigest(args) = call.body.digest
          /\ \E i \in DOMAIN tools, g \in toolGrants :
               /\ tools[i].name = call.body.tool /\ g.tool = tools[i].name
               /\ g.scope = tools[i].scope /\ call.at < g.expires
          /\ \A list \in call.body.allowed : call.body.tool \in list
      BY <2>3, ToolHeld DEF EndpointInv
    <2>8. call.body.digest = ArgsDigest(call.args) => args = call.args
      <3>1. call.args \in {t.args : t \in Templates}
        BY <1>1 DEF EndpointInv, CallsComposed, WellComposed
      <3> QED
        BY <2>7, <3>1, EndpointAssumption
    <2>9. injected.part = "executor" /\ injected.args = args /\ injected.reply = reply
      OBVIOUS
    <2> HIDE DEF o, injected
    <2>10. /\ now' \in Nat /\ tools' \in Seq(ToolSpecs) /\ CallsComposed'
           /\ now' = now /\ consent' = consent /\ toolGrants' = toolGrants /\ tools' = tools
           /\ last'.kind = o.kind /\ last'.contacts = 1 /\ last'.call = call
           /\ last'.error = o.error /\ last'.answer = o.answer /\ last'.with = injected
      BY <1>1, <2>5, Reports
    <2>11. ContactGated'
      <3>1. last'.with.part # "provider"
        BY <2>9, <2>10
      <3>2. last'.call.method \in InvokeMethods
        BY <1>1, <2>10 DEF InvokeMethods
      <3>3. last'.call.body.digest = ArgsDigest(last'.call.args) => last'.with.args = last'.call.args
        BY <2>8, <2>9, <2>10 DEF ArgsDigest
      <3> QED
        BY <2>6, <2>7, <2>10, <3>1, <3>2, <3>3 DEF ContactGated, ArgsDigest
    <2>12. AxisKept'
      BY <2>5, <2>9, <2>10, ExecutedKeepsStatus DEF AxisKept
    <2> QED
      BY <2>5, <2>10, <2>11, <2>12 DEF EndpointInv
  <1> QED
    BY <1>2, <1>3

-----------------------------------------------------------------------------
LEMMA IssueKeeps ==
    ASSUME EndpointInv, NEW c \in Clients, NEW t \in Templates, Issue(c, t)
    PROVE  EndpointInv'
  <1> DEFINE made == [method |-> t.method, form |-> t.form, body |-> t.body, timeout |-> t.timeout,
                      args |-> t.args, client |-> c, created |-> now, at |-> now + t.skew,
                      generation |-> generation,
                      seen |-> IF t.sights THEN {listing.version} ELSE {}, saw |-> listing.digests]
  <1>1. calls' = [calls EXCEPT ![c] = <<made>>] /\ last.kind = "none" /\ last' = last /\ now' = now /\ tools' = tools
    BY DEF Issue, hostVars
  <1>2. made.created = now /\ made.at = now + t.skew /\ made.args = t.args
    OBVIOUS
  <1>3. WellComposed(made)
    BY <1>2, EndpointAssumption DEF EndpointInv, WellComposed
  <1> HIDE DEF made
  <1>4. CallsComposed'
    <2>1. calls' = [d \in Clients |-> calls'[d]]
      BY <1>1 DEF EndpointInv, CallsComposed
    <2>2. ASSUME NEW d \in Clients, calls'[d] # <<>>
          PROVE  WellComposed(calls'[d][1])
      <3>1. calls'[d] = IF d = c THEN <<made>> ELSE calls[d]
        BY <1>1 DEF EndpointInv, CallsComposed
      <3> QED
        BY <1>3, <2>2, <3>1 DEF EndpointInv, CallsComposed
    <2> QED
      BY <2>1, <2>2 DEF CallsComposed, WellComposed
  <1> QED
    BY <1>1, <1>4, HostKeeps DEF EndpointInv

LEMMA TakeKeeps ==
    ASSUME EndpointInv, Take
    PROVE  EndpointInv'
  <1>1. last'.contacts = 0
    BY DEF Take, NoReport, Outcome
  <1>2. ContactGated' /\ AxisKept'
    BY <1>1 DEF ContactGated, AxisKept
  <1> QED
    BY <1>1, <1>2 DEF EndpointInv, Take, hostVars, CallsComposed, WellComposed

LEMMA RegistersKeep ==
    ASSUME EndpointInv, Registers
    PROVE  EndpointInv'
  <1>1. last.kind = "none" /\ last' = last /\ calls' = calls /\ now' = now
    BY DEF Registers, HostStep, hostVars
  <1>2. tools' = tools \/ \E spec \in ToolSpecs : tools' = Append(tools, spec)
    BY DEF Registers, RegisterTool, Relist, MarkStale
  <1>3. tools' \in Seq(ToolSpecs)
    BY <1>2 DEF EndpointInv
  <1>4. CallsComposed'
    BY <1>1 DEF EndpointInv, CallsComposed, WellComposed
  <1> QED
    BY <1>1, <1>3, <1>4, HostKeeps DEF EndpointInv

\* The steps of the host that register nothing.
HostChanges ==
    \/ Tick
    \/ \E c \in Clients, scope \in {"ai.read", "ai.invoke"}, live \in BOOLEAN : SetConsent(c, scope, live)
    \/ \E g \in ToolConsents, live \in BOOLEAN : SetToolConsent(g, live)
    \/ \E k \in RecordKinds : AddRecord(k)
    \/ \E ref \in 1..artifacts.next : Invalidate(ref)
    \/ NewGeneration

LEMMA HostChangesKeep ==
    ASSUME EndpointInv, HostChanges
    PROVE  EndpointInv'
  <1>1. last.kind = "none" /\ last' = last /\ calls' = calls /\ tools' = tools /\ (now' = now \/ now' = now + 1)
    <2>1. CASE Tick
      BY <2>1 DEF Tick, HostStep
    <2>2. CASE \E c \in Clients, scope \in {"ai.read", "ai.invoke"}, live \in BOOLEAN : SetConsent(c, scope, live)
      BY <2>2 DEF SetConsent, HostStep
    <2>3. CASE \E g \in ToolConsents, live \in BOOLEAN : SetToolConsent(g, live)
      BY <2>3 DEF SetToolConsent, HostStep
    <2>4. CASE \E k \in RecordKinds : AddRecord(k)
      BY <2>4 DEF AddRecord, HostStep
    <2>5. CASE \E ref \in 1..artifacts.next : Invalidate(ref)
      BY <2>5 DEF Invalidate, HostStep
    <2>6. CASE NewGeneration
      BY <2>6 DEF NewGeneration, HostStep
    <2> QED
      BY <2>1, <2>2, <2>3, <2>4, <2>5, <2>6 DEF HostChanges
  <1>2. now' \in Nat /\ tools' \in Seq(ToolSpecs) /\ CallsComposed'
    BY <1>1 DEF EndpointInv, CallsComposed, WellComposed
  <1> QED
    BY <1>1, <1>2, HostKeeps

LEMMA EndpointStarts == EndpointInit => EndpointInv
  <1> SUFFICES ASSUME EndpointInit
               PROVE  EndpointInv
    OBVIOUS
  <1>1. now = 0 /\ tools = <<>> /\ last.contacts = 0
    BY DEF EndpointInit, HostToolsInit, NoReport, Outcome
  <1>2. CallsComposed
    BY DEF EndpointInit, CallsComposed
  <1> QED
    BY <1>1, <1>2 DEF EndpointInv, ContactGated, AxisKept

LEMMA EndpointSteps == EndpointInv /\ [EndpointNext]_endpointVars => EndpointInv'
  <1> SUFFICES ASSUME EndpointInv, [EndpointNext]_endpointVars
               PROVE  EndpointInv'
    OBVIOUS
  <1>1. ASSUME NEW c \in Clients, NEW t \in Templates, Issue(c, t)
        PROVE  EndpointInv'
    BY <1>1, IssueKeeps
  <1>2. ASSUME NEW c \in Clients,
               NEW entry \in {"dispatch", "dispatch_with", "dispatch_with_context",
                              "dispatch_with_complete", "dispatch_with_tools"},
               DispatchRead(c, entry)
        PROVE  EndpointInv'
    BY <1>2, DispatchReadKeeps
  <1>3. ASSUME NEW c \in Clients, NEW shown \in Views, NEW reply \in ProviderReplies, DispatchComplete(c, shown, reply)
        PROVE  EndpointInv'
    BY <1>3, DispatchCompleteKeeps
  <1>4. ASSUME NEW c \in Clients, NEW args \in {t.args : t \in Templates}, NEW reply \in ToolReplies,
               DispatchTool(c, args, reply)
        PROVE  EndpointInv'
    BY <1>4, DispatchToolKeeps
  <1>5. ASSUME NEW c \in Clients, DispatchStrict(c)
        PROVE  EndpointInv'
    BY <1>5, DispatchStrictKeeps
  <1>6. CASE Registers
    BY <1>6, RegistersKeep
  <1>7. CASE Take
    BY <1>7, TakeKeeps
  <1>8. CASE HostChanges
    BY <1>8, HostChangesKeep
  <1>9. CASE UNCHANGED endpointVars
    <2>1. UNCHANGED <<now, consent, toolGrants, tools, calls, last>>
      BY <1>9 DEF endpointVars, hostVars
    <2> QED
      BY <2>1 DEF EndpointInv, CallsComposed, WellComposed, ContactGated, ArgsDigest,
                   AxisKept
  <1> QED
    BY <1>1, <1>2, <1>3, <1>4, <1>5, <1>6, <1>7, <1>8, <1>9 DEF EndpointNext, HostChanges

\* A provider or an executor is contacted at most once a call and only for one
\* that is admitted as it is dispatched (ContactGated): consent that is live and
\* deadlines not passed then, whatever the host granted, revoked, registered or
\* let expire after the client composed the request, and the arguments composed.
THEOREM ContactsAreGated == EndpointSpec => []ContactGated
  <1>1. EndpointInv => ContactGated
    BY DEF EndpointInv
  <1> QED
    BY EndpointStarts, EndpointSteps, <1>1, PTL DEF EndpointSpec

\* After a contact nothing is told that is not so (AxisKept): a tool's effect
\* keeps its axis, an unknown one above all, and the class a provider's failure
\* is refused with gives the client the directive ai.model_fallback would.
THEOREM EffectsKeepTheirAxis == EndpointSpec => []AxisKept
  <1>1. EndpointInv => AxisKept
    BY DEF EndpointInv
  <1> QED
    BY EndpointStarts, EndpointSteps, <1>1, PTL DEF EndpointSpec

-----------------------------------------------------------------------------
\* The positions kept, in order: increasing, and onto what is kept.
LEMMA RanksRise ==
    ASSUME NEW S \in SUBSET Nat, IsFiniteSet(S), NEW i \in S, NEW j \in S
    PROVE  /\ RankIn(S, i) \in 1..Cardinality(S)
           /\ i < j => RankIn(S, i) < RankIn(S, j)
  <1> DEFINE T(x) == {y \in S : y <= x}
  <1>1. ASSUME NEW x \in S
        PROVE  /\ IsFiniteSet(T(x)) /\ Cardinality(T(x)) \in Nat /\ Cardinality(T(x)) <= Cardinality(S)
               /\ Cardinality(T(x)) # 0
    <2>1. T(x) \in SUBSET S /\ T(x) # {}
      OBVIOUS
    <2>2. IsFiniteSet(T(x)) /\ Cardinality(T(x)) <= Cardinality(S)
      BY <2>1, FS_Subset
    <2>3. Cardinality(T(x)) \in Nat
      BY <2>2, FS_CardinalityType
    <2>4. Cardinality(T(x)) # 0
      BY <2>1, <2>2, FS_EmptySet
    <2> QED
      BY <2>2, <2>3, <2>4
  <1>2. ASSUME i < j
        PROVE  Cardinality(T(i)) < Cardinality(T(j))
    <2>0. i \in Nat /\ j \in Nat
      OBVIOUS
    <2>1. T(i) \in SUBSET T(j) /\ T(i) # T(j)
      <3>1. j \in T(j) /\ j \notin T(i)
        BY <1>2, <2>0
      <3>2. ASSUME NEW y \in T(i)
            PROVE  y \in T(j)
        <4>1. y \in S /\ y \in Nat /\ y <= i
          OBVIOUS
        <4> QED
          BY <1>2, <2>0, <4>1
      <3> HIDE DEF T
      <3> QED
        BY <3>1, <3>2
    <2>2. IsFiniteSet(T(j)) /\ Cardinality(T(j)) \in Nat /\ Cardinality(T(i)) \in Nat
      BY <1>1
    <2> HIDE DEF T
    <2>3. /\ Cardinality(T(i)) <= Cardinality(T(j))
          /\ Cardinality(T(j)) = Cardinality(T(i)) => T(j) = T(i)
      BY <2>1, <2>2, FS_Subset
    <2> QED
      BY <2>1, <2>2, <2>3
  <1>3. RankIn(S, i) = Cardinality(T(i)) /\ RankIn(S, j) = Cardinality(T(j))
    BY DEF RankIn
  <1>4. Cardinality(S) \in Nat
    BY FS_CardinalityType
  <1>5. Cardinality(T(i)) \in 1..Cardinality(S)
    <2>1. /\ Cardinality(T(i)) \in Nat /\ Cardinality(T(i)) <= Cardinality(S) /\ Cardinality(T(i)) # 0
      BY <1>1
    <2> QED
      BY <2>1, <1>4
  <1> QED
    BY <1>2, <1>3, <1>5

LEMMA InOrderRanks ==
    ASSUME NEW S \in SUBSET Nat, IsFiniteSet(S)
    PROVE  /\ Cardinality(S) \in Nat
           /\ \A i, j \in S : RankIn(S, i) = RankIn(S, j) => i = j
           /\ \A k \in 1..Cardinality(S) : InOrder(S)[k] \in S /\ RankIn(S, InOrder(S)[k]) = k
  <1> DEFINE n == Cardinality(S)
             f == [i \in S |-> RankIn(S, i)]
  <1>1. n \in Nat
    BY FS_CardinalityType
  <1>2. f \in [S -> 1..n]
    BY RanksRise
  <1>3. ASSUME NEW i \in S, NEW j \in S, RankIn(S, i) = RankIn(S, j)
        PROVE  i = j
    <2>1. /\ i < j => RankIn(S, i) < RankIn(S, j)
          /\ j < i => RankIn(S, j) < RankIn(S, i)
          /\ RankIn(S, i) \in 1..n
      BY RanksRise
    <2>2. i \in Nat /\ j \in Nat
      OBVIOUS
    <2> QED
      BY <1>1, <1>3, <2>1, <2>2
  <1>4. f \in Injection(S, 1..n)
    BY <1>2, <1>3 DEF Injection, IsInjective
  <1>5. IsFiniteSet(1..n) /\ Cardinality(1..n) = n
    BY <1>1, FS_Interval
  <1>6. f \in Surjection(S, 1..n)
    BY <1>4, <1>5, FS_Injection
  <1>7. \A k \in 1..n : \E i \in S : RankIn(S, i) = k
    BY <1>6 DEF Surjection
  <1>8. ASSUME NEW k \in 1..n
        PROVE  InOrder(S)[k] \in S /\ RankIn(S, InOrder(S)[k]) = k
    BY <1>7 DEF InOrder
  <1> QED
    BY <1>1, <1>3, <1>8

LEMMA InOrderIs ==
    ASSUME NEW S \in SUBSET Nat, IsFiniteSet(S)
    PROVE  /\ Cardinality(S) \in Nat
           /\ InOrder(S) \in [1..Cardinality(S) -> S]
           /\ \A j, k \in 1..Cardinality(S) : j < k => InOrder(S)[j] < InOrder(S)[k]
           /\ \A i \in S : \E k \in 1..Cardinality(S) : InOrder(S)[k] = i
  <1> DEFINE n == Cardinality(S)
  <1>1. n \in Nat
    BY InOrderRanks
  <1>3. ASSUME NEW i \in S, NEW j \in S, RankIn(S, i) = RankIn(S, j)
        PROVE  i = j
    BY <1>3, InOrderRanks
  <1>8. ASSUME NEW k \in 1..n
        PROVE  InOrder(S)[k] \in S /\ RankIn(S, InOrder(S)[k]) = k
    BY InOrderRanks
  <1>9. InOrder(S) \in [1..n -> S]
    BY <1>8 DEF InOrder
  <1>10. ASSUME NEW j \in 1..n, NEW k \in 1..n, j < k
         PROVE  InOrder(S)[j] < InOrder(S)[k]
    <2> DEFINE x == InOrder(S)[j]
               y == InOrder(S)[k]
    <2>1. x \in S /\ y \in S /\ RankIn(S, x) = j /\ RankIn(S, y) = k
      BY <1>8
    <2> HIDE DEF x, y
    <2>2. y < x => RankIn(S, y) < RankIn(S, x)
      BY <2>1, RanksRise
    <2>3. x \in Nat /\ y \in Nat
      BY <2>1
    <2>4. x < y
      BY <1>1, <1>10, <2>1, <2>2, <2>3
    <2> QED
      BY <2>4 DEF x, y
  <1>11. ASSUME NEW i \in S
         PROVE  \E k \in 1..n : InOrder(S)[k] = i
    <2>1. RankIn(S, i) \in 1..n
      BY RanksRise
    <2>2. InOrder(S)[RankIn(S, i)] = i
      BY <1>3, <1>8, <2>1
    <2> QED
      BY <2>1, <2>2
  <1> QED
    BY <1>1, <1>9, <1>10, <1>11

\* What is picked of a sequence is there in its order, and nothing else is.
LEMMA PickedIs ==
    ASSUME NEW s, NEW S \in SUBSET Nat, IsFiniteSet(S)
    PROVE  /\ DOMAIN Picked(s, S) = 1..Cardinality(S) /\ Cardinality(S) \in Nat
           /\ Len(Picked(s, S)) = Cardinality(S)
           /\ InOrder(S) \in [1..Cardinality(S) -> S]
           /\ \A i, j \in 1..Cardinality(S) : i < j => InOrder(S)[i] < InOrder(S)[j]
           /\ \A a \in S : \E i \in 1..Cardinality(S) : InOrder(S)[i] = a
           /\ \A i \in 1..Cardinality(S) : Picked(s, S)[i] = s[InOrder(S)[i]]
  <1>1. /\ Cardinality(S) \in Nat
        /\ InOrder(S) \in [1..Cardinality(S) -> S]
        /\ \A j, k \in 1..Cardinality(S) : j < k => InOrder(S)[j] < InOrder(S)[k]
        /\ \A i \in S : \E k \in 1..Cardinality(S) : InOrder(S)[k] = i
    BY InOrderIs
  <1>2. Picked(s, S) = [k \in 1..Cardinality(S) |-> s[InOrder(S)[k]]]
    BY <1>1 DEF Picked
  <1>3. DOMAIN Picked(s, S) = 1..Cardinality(S) /\ \A i \in 1..Cardinality(S) : Picked(s, S)[i] = s[InOrder(S)[i]]
    BY <1>2
  <1>4. Len(Picked(s, S)) = Cardinality(S)
    <2> DEFINE T == {s[InOrder(S)[k]] : k \in 1..Cardinality(S)}
    <2>1. Picked(s, S) \in [1..Cardinality(S) -> T]
      BY <1>2
    <2>2. Picked(s, S) \in Seq(T)
      BY <1>1, <2>1
    <2> QED
      BY <1>1, <1>3, <2>2
  <1> QED
    BY <1>1, <1>3, <1>4

\* One list after another.
LEMMA ConcatIs ==
    ASSUME NEW T, NEW a \in Seq(T), NEW b \in Seq(T)
    PROVE  /\ a \o b \in Seq(T) /\ Len(a \o b) = Len(a) + Len(b)
           /\ \A k \in 1..(Len(a) + Len(b)) : (a \o b)[k] = IF k <= Len(a) THEN a[k] ELSE b[k - Len(a)]
  <1>1. a \o b \in Seq(T) /\ Len(a \o b) = Len(a) + Len(b)
    OBVIOUS
  <1>2. ASSUME NEW k \in 1..(Len(a) + Len(b))
        PROVE  (a \o b)[k] = IF k <= Len(a) THEN a[k] ELSE b[k - Len(a)]
    OBVIOUS
  <1> QED
    BY <1>1, <1>2

-----------------------------------------------------------------------------
\* Removal by position closes the gap.
LEMMA RemoveAtIs ==
    ASSUME NEW T, NEW s \in Seq(T), NEW i \in 1..Len(s)
    PROVE  /\ RemoveAt(s, i) \in Seq(T) /\ Len(RemoveAt(s, i)) = Len(s) - 1
           /\ \A k \in 1..(Len(s) - 1) : RemoveAt(s, i)[k] = s[IF k < i THEN k ELSE k + 1]
  <1> DEFINE a == SubSeq(s, 1, i - 1)
             b == SubSeq(s, i + 1, Len(s))
  <1>1. a \in Seq(T) /\ Len(a) = i - 1 /\ \A k \in 1..(i - 1) : a[k] = s[k]
    OBVIOUS
  <1>2. b \in Seq(T) /\ Len(b) = Len(s) - i /\ \A k \in 1..(Len(s) - i) : b[k] = s[k + i]
    OBVIOUS
  <1>3. RemoveAt(s, i) = a \o b
    BY DEF RemoveAt
  <1> HIDE DEF a, b
  <1>4. /\ a \o b \in Seq(T) /\ Len(a \o b) = Len(s) - 1
        /\ \A k \in 1..(Len(s) - 1) : (a \o b)[k] = IF k <= i - 1 THEN a[k] ELSE b[k - (i - 1)]
    <2>1. Len(s) \in Nat /\ Len(a) + Len(b) = Len(s) - 1
      BY <1>1, <1>2
    <2>2. /\ a \o b \in Seq(T) /\ Len(a \o b) = Len(a) + Len(b)
          /\ \A k \in 1..(Len(a) + Len(b)) : (a \o b)[k] = IF k <= Len(a) THEN a[k] ELSE b[k - Len(a)]
      BY ConcatIs, <1>1, <1>2, Zenon
    <2> QED
      BY <1>1, <2>1, <2>2
  <1>5. ASSUME NEW k \in 1..(Len(s) - 1)
        PROVE  (a \o b)[k] = s[IF k < i THEN k ELSE k + 1]
    <2>1. CASE k < i
      BY <1>1, <1>4, <2>1
    <2>2. CASE ~(k < i)
      <3>1. k - (i - 1) \in 1..(Len(s) - i) /\ (k - (i - 1)) + i = k + 1 /\ ~(k <= i - 1)
        BY <2>2
      <3>2. b[k - (i - 1)] = s[(k - (i - 1)) + i]
        BY <1>2, <3>1
      <3> QED
        BY <1>4, <2>2, <3>1, <3>2
    <2> QED
      BY <2>1, <2>2
  <1> QED
    BY <1>3, <1>4, <1>5

\* What the store holds of what it was ever given, and what it forgot of it.
EntryRecords == [ref : Nat, content : {k.body.content : k \in RecordKinds},
                 size : {k.body.size : k \in RecordKinds}, generation : Nat]

StoreTypes ==
    /\ artifacts \in [entries : Seq(EntryRecords), next : Nat, deleted : SUBSET Nat]
    /\ issued \in Seq([content : {k.body.content : k \in RecordKinds}, generation : Nat])
    /\ generation \in Nat /\ \E R : records \in Seq(R)

EntriesTrue ==
    \A i \in DOMAIN artifacts.entries :
      /\ artifacts.entries[i].ref \in 1..artifacts.next /\ artifacts.entries[i].ref \notin killed
      /\ artifacts.entries[i].content = issued[artifacts.entries[i].ref].content
      /\ artifacts.entries[i].generation = issued[artifacts.entries[i].ref].generation

EntriesOnce ==
    \A i, j \in DOMAIN artifacts.entries : artifacts.entries[i].ref = artifacts.entries[j].ref => i = j

EntriesWhole ==
    \A ref \in 1..artifacts.next : ref \in killed \/ \E i \in DOMAIN artifacts.entries : artifacts.entries[i].ref = ref

TombstonesTrue ==
    /\ killed \subseteq 1..artifacts.next /\ artifacts.deleted \subseteq killed
    /\ Cardinality(killed) <= MaxDeleted => artifacts.deleted = killed

StoreInv ==
    /\ StoreTypes /\ artifacts.next = Len(issued)
    /\ EntriesTrue /\ EntriesOnce /\ EntriesWhole /\ TombstonesTrue

LEMMA StoreStands ==
    ASSUME StoreInv, UNCHANGED <<records, artifacts, issued, killed>>, generation' \in Nat
    PROVE  StoreInv'
  <1>1. StoreTypes'
    BY DEF StoreInv, StoreTypes
  <1> QED
    BY <1>1 DEF StoreInv, EntriesTrue, EntriesOnce, EntriesWhole, TombstonesTrue

\* A body is stored under the next reference.
LEMMA StoredKeeps ==
    ASSUME StoreInv, NEW k \in RecordKinds, artifacts' = Stored(artifacts, k.body, generation),
           issued' = Append(issued, [content |-> k.body.content, generation |-> generation]),
           UNCHANGED <<generation, killed>>, \E R : records' \in Seq(R)
    PROVE  StoreInv'
  <1> DEFINE n == artifacts.next
             e == [ref |-> n + 1, content |-> k.body.content, size |-> k.body.size, generation |-> generation]
             o == [content |-> k.body.content, generation |-> generation]
             es == artifacts.entries
             app == Append(es, e)
  <1>1. /\ es \in Seq(EntryRecords) /\ n \in Nat /\ generation \in Nat /\ n = Len(issued)
        /\ issued \in Seq([content : {m.body.content : m \in RecordKinds}, generation : Nat])
        /\ artifacts \in [entries : Seq(EntryRecords), next : Nat, deleted : SUBSET Nat]
    BY DEF StoreInv, StoreTypes
  <1>2. e \in EntryRecords /\ o \in [content : {m.body.content : m \in RecordKinds}, generation : Nat]
    BY <1>1 DEF EntryRecords
  <1>3. artifacts' = [artifacts EXCEPT !.next = n + 1, !.entries = app]
    BY DEF Stored
  <1>4. artifacts'.next = n + 1 /\ artifacts'.entries = app /\ artifacts'.deleted = artifacts.deleted
    BY <1>1, <1>3
  <1>5. e.ref = n + 1 /\ e.content = o.content /\ e.generation = o.generation
    OBVIOUS
  <1>6. issued' = Append(issued, o)
    OBVIOUS
  <1> HIDE DEF e, o
  <1>7. app \in Seq(EntryRecords) /\ DOMAIN app = 1..(Len(es) + 1)
        /\ app[Len(es) + 1] = e /\ \A i \in 1..Len(es) : app[i] = es[i]
    BY <1>1, <1>2
  <1> HIDE DEF app
  <1>8. StoreTypes'
    <2>1. artifacts' \in [entries : Seq(EntryRecords), next : Nat, deleted : SUBSET Nat]
      <3> DEFINE m == n + 1
      <3>1. m \in Nat /\ app \in Seq(EntryRecords) /\ artifacts' = [artifacts EXCEPT !.next = m, !.entries = app]
        BY <1>1, <1>3, <1>7
      <3> HIDE DEF m
      <3> QED
        BY <1>1, <3>1
    <2>2. issued' \in Seq([content : {m.body.content : m \in RecordKinds}, generation : Nat])
      BY <1>1, <1>2, <1>6
    <2> QED
      BY <1>1, <2>1, <2>2 DEF StoreTypes
  <1>9. issued'[n + 1] = o /\ Len(issued') = n + 1 /\ \A r \in 1..n : issued'[r] = issued[r]
    BY <1>1, <1>6
  <1>10. killed' = killed /\ n + 1 \notin killed
    BY <1>1 DEF StoreInv, TombstonesTrue
  <1>11. DOMAIN es = 1..Len(es) /\ Len(es) \in Nat
    BY <1>1
  <1>12. EntriesTrue'
    <2> SUFFICES ASSUME NEW i \in 1..(Len(es) + 1)
                 PROVE  /\ artifacts'.entries[i].ref \in 1..artifacts'.next /\ artifacts'.entries[i].ref \notin killed'
                        /\ artifacts'.entries[i].content = issued'[artifacts'.entries[i].ref].content
                        /\ artifacts'.entries[i].generation = issued'[artifacts'.entries[i].ref].generation
      BY <1>4, <1>7 DEF EntriesTrue
    <2>1. CASE i = Len(es) + 1
      BY <1>1, <1>4, <1>5, <1>7, <1>9, <1>10, <2>1
    <2>2. CASE i # Len(es) + 1
      <3>1. i \in DOMAIN es /\ artifacts'.entries[i] = es[i]
        BY <1>4, <1>7, <1>11, <2>2
      <3>2. /\ es[i].ref \in 1..n /\ es[i].ref \notin killed
            /\ es[i].content = issued[es[i].ref].content /\ es[i].generation = issued[es[i].ref].generation
        BY <3>1 DEF StoreInv, EntriesTrue
      <3> QED
        BY <1>1, <1>4, <1>9, <1>10, <3>1, <3>2
    <2> QED
      BY <2>1, <2>2
  <1>13. EntriesOnce'
    <2> SUFFICES ASSUME NEW i \in 1..(Len(es) + 1), NEW j \in 1..(Len(es) + 1),
                        app[i].ref = app[j].ref
                 PROVE  i = j
      BY <1>4, <1>7 DEF EntriesOnce
    <2>1. \A m \in 1..Len(es) : es[m].ref # n + 1
      <3>1. \A m \in 1..Len(es) : es[m].ref \in 1..n
        BY <1>11 DEF StoreInv, EntriesTrue
      <3> QED
        BY <1>1, <3>1
    <2>2. CASE i \in 1..Len(es) /\ j \in 1..Len(es)
      BY <1>7, <1>11, <2>2 DEF StoreInv, EntriesOnce
    <2>3. CASE ~(i \in 1..Len(es) /\ j \in 1..Len(es))
      <3>1. app[Len(es) + 1].ref = n + 1
        BY <1>5, <1>7
      <3>2. \A m \in 1..Len(es) : app[m].ref # n + 1
        BY <1>7, <2>1
      <3>3. CASE i = Len(es) + 1
        <4>1. app[j].ref = n + 1
          BY <3>1, <3>3
        <4> QED
          BY <1>11, <3>2, <3>3, <4>1
      <3>4. CASE j = Len(es) + 1
        <4>1. app[i].ref = n + 1
          BY <3>1, <3>4
        <4> QED
          BY <1>11, <3>2, <3>4, <4>1
      <3> QED
        BY <1>11, <2>3, <3>3, <3>4
    <2> QED
      BY <2>2, <2>3
  <1>14. EntriesWhole'
    <2> SUFFICES ASSUME NEW ref \in 1..(n + 1), ref \notin killed
                 PROVE  \E i \in 1..(Len(es) + 1) : app[i].ref = ref
      BY <1>4, <1>7, <1>10 DEF EntriesWhole
    <2>1. CASE ref = n + 1
      BY <1>5, <1>7, <1>11, <2>1
    <2>2. CASE ref # n + 1
      <3>1. ref \in 1..n
        BY <1>1, <2>2
      <3>2. PICK i \in DOMAIN es : es[i].ref = ref
        BY <3>1 DEF StoreInv, EntriesWhole
      <3> QED
        BY <1>7, <1>11, <3>2
    <2> QED
      BY <2>1, <2>2
  <1>15. TombstonesTrue'
    BY <1>1, <1>4, <1>10 DEF StoreInv, TombstonesTrue
  <1> QED
    BY <1>4, <1>8, <1>9, <1>12, <1>13, <1>14, <1>15 DEF StoreInv

\* An entry goes, and its tombstone stays while there is room.
LEMMA InvalidatedKeeps ==
    ASSUME StoreInv, NEW ref, EntryOf(artifacts, ref) # {}, artifacts' = Invalidated(artifacts, ref),
           killed' = killed \cup {ref}, UNCHANGED <<records, generation, issued>>
    PROVE  StoreInv'
  <1> DEFINE n == artifacts.next
             es == artifacts.entries
             at == Min(EntryOf(artifacts, ref))
             rest == RemoveAt(es, at)
             From(i) == IF i < at THEN i ELSE i + 1
             deleted == IF Cardinality(artifacts.deleted) < MaxDeleted THEN artifacts.deleted \cup {ref}
                        ELSE artifacts.deleted
  <1>1. /\ es \in Seq(EntryRecords) /\ n \in Nat /\ n = Len(issued)
        /\ artifacts \in [entries : Seq(EntryRecords), next : Nat, deleted : SUBSET Nat]
        /\ DOMAIN es = 1..Len(es) /\ Len(es) \in Nat
    BY DEF StoreInv, StoreTypes
  <1>2. at \in DOMAIN es /\ es[at].ref = ref
    <2>1. EntryOf(artifacts, ref) \in SUBSET Nat
      BY <1>1 DEF EntryOf
    <2>2. at \in EntryOf(artifacts, ref)
      BY <2>1, LeastIsIn
    <2> HIDE DEF at
    <2> QED
      BY <2>2 DEF EntryOf
  <1>3. artifacts' = [artifacts EXCEPT !.entries = rest, !.deleted = deleted]
    BY DEF Invalidated
  <1>4. artifacts'.next = n /\ artifacts'.entries = rest /\ artifacts'.deleted = deleted
    BY <1>1, <1>3
  <1> HIDE DEF at
  <1>5. rest \in Seq(EntryRecords) /\ Len(rest) = Len(es) - 1 /\ \A i \in 1..(Len(es) - 1) : rest[i] = es[From(i)]
    <2>1. at \in 1..Len(es)
      BY <1>1, <1>2
    <2> QED
      BY <1>1, <2>1, RemoveAtIs
  <1> HIDE DEF rest
  <1>6. DOMAIN rest = 1..(Len(es) - 1)
    BY <1>1, <1>5
  <1>7. \A i \in 1..(Len(es) - 1) : From(i) \in DOMAIN es /\ From(i) # at
    BY <1>1, <1>2
  <1>8. ref \in 1..n /\ ref \notin killed
    BY <1>2 DEF StoreInv, EntriesTrue
  <1>9. ASSUME NEW i \in DOMAIN rest
        PROVE  /\ rest[i].ref \in 1..n /\ rest[i].ref \notin killed'
               /\ rest[i].content = issued[rest[i].ref].content /\ rest[i].generation = issued[rest[i].ref].generation
    <2>1. rest[i] = es[From(i)] /\ From(i) \in DOMAIN es /\ From(i) # at
      BY <1>5, <1>6, <1>7
    <2> HIDE DEF From
    <2>2. es[From(i)].ref # ref
      BY <1>2, <2>1 DEF StoreInv, EntriesOnce
    <2> QED
      BY <2>1, <2>2 DEF StoreInv, EntriesTrue
  <1>10. EntriesTrue'
    BY <1>4, <1>9 DEF EntriesTrue
  <1>11. EntriesOnce'
    <2> SUFFICES ASSUME NEW i \in DOMAIN rest, NEW j \in DOMAIN rest, rest[i].ref = rest[j].ref
                 PROVE  i = j
      BY <1>4 DEF EntriesOnce
    <2>1. es[From(i)].ref = es[From(j)].ref /\ From(i) \in DOMAIN es /\ From(j) \in DOMAIN es
      <3> HIDE DEF From
      <3> QED
        BY <1>5, <1>6, <1>7
    <2>2. From(i) = From(j)
      <3> HIDE DEF From
      <3> QED
        BY <2>1 DEF StoreInv, EntriesOnce
    <2>3. at \in Nat /\ i \in Nat /\ j \in Nat
      BY <1>1, <1>2, <1>6
    <2> QED
      BY <2>2, <2>3
  <1>12. EntriesWhole'
    <2> SUFFICES ASSUME NEW r \in 1..n, r \notin killed'
                 PROVE  \E i \in DOMAIN rest : rest[i].ref = r
      BY <1>4 DEF EntriesWhole
    <2>1. PICK j \in DOMAIN es : es[j].ref = r
      BY DEF StoreInv, EntriesWhole
    <2>2. j # at
      BY <1>2, <2>1
    <2> DEFINE i == IF j < at THEN j ELSE j - 1
    <2>3. i \in 1..(Len(es) - 1) /\ From(i) = j
      BY <1>1, <1>2, <2>1, <2>2
    <2> QED
      BY <1>5, <1>6, <2>1, <2>3
  <1>13. TombstonesTrue'
    <2>1. killed \subseteq 1..n /\ IsFiniteSet(killed) /\ Cardinality(killed) \in Nat /\ MaxDeleted \in Nat
      <3>1. killed \subseteq 1..n /\ IsFiniteSet(1..n)
        BY <1>1, FS_Interval DEF StoreInv, TombstonesTrue
      <3>2. IsFiniteSet(killed)
        BY <3>1, FS_Subset
      <3> QED
        BY <3>1, <3>2, FS_CardinalityType, EndpointAssumption
    <2>2. Cardinality(killed') = Cardinality(killed) + 1
      BY <1>8, <2>1, FS_AddElement
    <2>3. artifacts.deleted \subseteq killed /\ (Cardinality(killed) <= MaxDeleted => artifacts.deleted = killed)
      BY DEF StoreInv, TombstonesTrue
    <2>4. killed' \subseteq 1..n /\ deleted \subseteq killed'
      BY <1>8, <2>1, <2>3
    <2>5. Cardinality(killed') <= MaxDeleted => deleted = killed'
      BY <2>1, <2>2, <2>3
    <2> QED
      BY <1>4, <2>4, <2>5 DEF TombstonesTrue
  <1>14. StoreTypes'
    <2>1. deleted \in SUBSET Nat
      BY <1>1, <1>8
    <2> HIDE DEF deleted
    <2>2. artifacts' \in [entries : Seq(EntryRecords), next : Nat, deleted : SUBSET Nat]
      BY <1>1, <1>3, <1>5, <2>1
    <2> QED
      BY <2>2 DEF StoreInv, StoreTypes
  <1> QED
    BY <1>1, <1>4, <1>10, <1>11, <1>12, <1>13, <1>14 DEF StoreInv

-----------------------------------------------------------------------------
\* Why an artifact is said to be missing is so.
LEMMA AbsenceIsTrue ==
    ASSUME StoreInv, NEW ref, NEW gen
    PROVE  /\ Absence(artifacts, ref, gen) # "Available" => AbsenceTrue(ref, gen, Absence(artifacts, ref, gen))
           /\ Absence(artifacts, ref, gen) = "Available" =>
                /\ ref \notin killed
                /\ Resolve(artifacts, ref, gen) = [error |-> "ok", content |-> issued[ref].content]
  <1> DEFINE es == artifacts.entries
             S == EntryOf(artifacts, ref)
             n == artifacts.next
  <1>1. es \in Seq(EntryRecords) /\ n \in Nat /\ DOMAIN issued = 1..n
    BY DEF StoreInv, StoreTypes
  <1>2. S \in SUBSET Nat /\ \A i \in S : i \in DOMAIN es /\ es[i].ref = ref
    BY <1>1 DEF EntryOf
  <1>3. \A i \in S : /\ ref \in 1..n /\ ref \notin killed
                     /\ es[i].content = issued[ref].content /\ es[i].generation = issued[ref].generation
    BY <1>2 DEF StoreInv, EntriesTrue
  <1>4. CASE S # {}
    <2>1. PICK i \in S : TRUE
      BY <1>4
    <2>2. ref \in DOMAIN issued /\ ref \notin killed
      BY <1>1, <1>3, <2>1
    <2>3. CASE \E j \in S : es[j].generation = gen
      <3>1. Absence(artifacts, ref, gen) = "Available"
        BY <1>4, <2>3 DEF Absence
      <3>2. Min(S) \in S
        BY <1>2, <1>4, LeastIsIn
      <3>3. es[Min(S)].content = issued[ref].content
        BY <1>3, <3>2
      <3>4. Resolve(artifacts, ref, gen) = [error |-> "ok", content |-> es[Min(S)].content]
        BY <3>1 DEF Resolve
      <3> QED
        BY <2>2, <3>1, <3>3, <3>4
    <2>4. CASE ~\E j \in S : es[j].generation = gen
      <3>1. Absence(artifacts, ref, gen) = "Expired"
        BY <1>4, <2>4 DEF Absence
      <3>2. issued[ref].generation # gen
        BY <1>3, <2>1, <2>4
      <3> QED
        BY <2>2, <3>1, <3>2 DEF AbsenceTrue
    <2> QED
      BY <2>3, <2>4
  <1>5. CASE S = {}
    <2>1. CASE ref \in artifacts.deleted
      <3>1. Absence(artifacts, ref, gen) = "Deleted"
        BY <1>5, <2>1 DEF Absence
      <3>2. ref \in killed
        BY <2>1 DEF StoreInv, TombstonesTrue
      <3> QED
        BY <3>1, <3>2 DEF AbsenceTrue
    <2>2. CASE ref \notin artifacts.deleted /\ ref \in 1..n
      <3>1. Absence(artifacts, ref, gen) = "Missing"
        BY <1>5, <2>2 DEF Absence
      <3>2. ref \in killed
        <4>1. ~\E i \in DOMAIN es : es[i].ref = ref
          BY <1>5 DEF EntryOf
        <4> QED
          BY <2>2, <4>1 DEF StoreInv, EntriesWhole
      <3>3. ~(Cardinality(killed) <= MaxDeleted)
        BY <2>2, <3>2 DEF StoreInv, TombstonesTrue
      <3>4. Cardinality(killed) \in Nat /\ MaxDeleted \in Nat
        <4>1. killed \in SUBSET (1..n) /\ IsFiniteSet(1..n)
          BY <1>1, FS_Interval DEF StoreInv, TombstonesTrue
        <4>2. IsFiniteSet(killed)
          BY <4>1, FS_Subset
        <4> QED
          BY <4>2, FS_CardinalityType, EndpointAssumption
      <3>5. Cardinality(killed) > MaxDeleted
        BY <3>3, <3>4
      <3> QED
        BY <3>1, <3>2, <3>5 DEF AbsenceTrue
    <2>3. CASE ref \notin artifacts.deleted /\ ref \notin 1..n
      <3>1. Absence(artifacts, ref, gen) = "NeverRecorded"
        BY <1>5, <2>3 DEF Absence
      <3> QED
        BY <1>1, <2>3, <3>1 DEF AbsenceTrue
    <2> QED
      BY <2>1, <2>2, <2>3
  <1> QED
    BY <1>4, <1>5

LEMMA ContextReadTrue ==
    ASSUME StoreInv, NEW call, HandleContextRead(call).kind = "Ready"
    PROVE  ReadTrue(call, HandleContextRead(call).answer)
  <1> DEFINE gen == call.generation
             wanted == {i \in DOMAIN records :
                         records[i].generation = gen /\ records[i].owner \in Range(call.body.scopes)}
             rs == Wanted(call)
             absent == [i \in Absent(rs, gen) |-> Absence(artifacts, rs[i].body.ref, gen)]
             n == Cardinality(wanted)
  <1>1. HandleContextRead(call) = Ready(ReadAnswer(rs, gen))
    BY RefusedSays DEF HandleContextRead
  <1>2. HandleContextRead(call).answer = <<rs, absent>>
    BY <1>1, ReadySays DEF ReadAnswer
  <1>3. wanted \in SUBSET Nat /\ IsFiniteSet(wanted)
    <2>1. PICK R : records \in Seq(R)
      BY DEF StoreInv, StoreTypes
    <2>2. wanted \in SUBSET (1..Len(records)) /\ Len(records) \in Nat
      BY <2>1
    <2>3. IsFiniteSet(1..Len(records))
      BY <2>2, FS_Interval
    <2> QED
      BY <2>2, <2>3, FS_Subset
  <1>4. rs = Picked(records, wanted)
    BY DEF Wanted
  <1> HIDE DEF rs, wanted
  <1>5. /\ DOMAIN rs = 1..n /\ Len(rs) = n
        /\ \E place \in [1..n -> wanted] :
             /\ \A i, j \in 1..n : i < j => place[i] < place[j]
             /\ \A a \in wanted : \E i \in 1..n : place[i] = a
             /\ \A i \in 1..n : rs[i] = records[place[i]]
    <2> DEFINE place == InOrder(wanted)
    <2>1. /\ DOMAIN rs = 1..n /\ Len(rs) = n
          /\ place \in [1..n -> wanted]
          /\ \A i, j \in 1..n : i < j => place[i] < place[j]
          /\ \A a \in wanted : \E i \in 1..n : place[i] = a
          /\ \A i \in 1..n : rs[i] = records[place[i]]
      BY <1>3, <1>4, PickedIs
    <2> HIDE DEF place, n
    <2> QED
      BY <2>1
  <1>6. DOMAIN absent = Absent(rs, gen)
    OBVIOUS
  <1>7. ASSUME NEW i \in DOMAIN rs
        PROVE  IF i \in DOMAIN absent THEN AbsenceTrue(rs[i].body.ref, gen, absent[i])
               ELSE rs[i].body.kind = "artifact" =>
                      /\ rs[i].body.ref \notin killed
                      /\ Resolve(artifacts, rs[i].body.ref, gen) =
                           [error |-> "ok", content |-> issued[rs[i].body.ref].content]
    <2>1. CASE i \in Absent(rs, gen)
      <3>1. absent[i] = Absence(artifacts, rs[i].body.ref, gen) /\ Absence(artifacts, rs[i].body.ref, gen) # "Available"
        BY <2>1 DEF Absent
      <3>2. AbsenceTrue(rs[i].body.ref, gen, absent[i])
        BY <3>1, AbsenceIsTrue
      <3> QED
        BY <1>6, <2>1, <3>2
    <2>2. CASE i \notin Absent(rs, gen)
      <3>1. rs[i].body.kind = "artifact" => Absence(artifacts, rs[i].body.ref, gen) = "Available"
        BY <2>2 DEF Absent
      <3> QED
        BY <1>6, <2>2, <3>1, AbsenceIsTrue
    <2> QED
      BY <2>1, <2>2
  <1> HIDE DEF absent
  <1>8. <<rs, absent>>[1] = rs /\ <<rs, absent>>[2] = absent
    OBVIOUS
  <1> DEFINE ans == HandleContextRead(call).answer
  <1>9. ans[1] = rs /\ ans[2] = absent
    BY <1>2, <1>8
  <1> HIDE DEF ans
  <1>10. ReadTrue(call, ans)
    <2>1. /\ Len(ans[1]) = Cardinality(wanted)
          /\ \E place \in [DOMAIN ans[1] -> wanted] :
               /\ \A i, j \in DOMAIN ans[1] : i < j => place[i] < place[j]
               /\ \A a \in wanted : \E i \in DOMAIN ans[1] : place[i] = a
               /\ \A i \in DOMAIN ans[1] : ans[1][i] = records[place[i]]
      BY <1>5, <1>9
    <2>2. \A i \in DOMAIN ans[1] :
             IF i \in DOMAIN ans[2] THEN AbsenceTrue(ans[1][i].body.ref, gen, ans[2][i])
             ELSE ans[1][i].body.kind = "artifact" =>
                    /\ ans[1][i].body.ref \notin killed
                    /\ Resolve(artifacts, ans[1][i].body.ref, gen) =
                         [error |-> "ok", content |-> issued[ans[1][i].body.ref].content]
      BY <1>7, <1>9
    <2> QED
      BY <2>1, <2>2, Zenon DEF ReadTrue, wanted
  <1> QED
    BY <1>10 DEF ans

-----------------------------------------------------------------------------
\* What a client saw of the listing, and how far the listing has moved on.
SightingTrue(call) ==
    \/ call.seen = {}
    \/ \E v \in Nat : /\ call.seen = {v} /\ v <= listing.version
                      /\ v = listing.version /\ v < MaxTime => call.saw = listing.digests

ListingInv ==
    /\ listing.version \in 0..MaxTime
    /\ listing = [digests |-> listing.digests, version |-> listing.version, stale |-> listing.stale]
    /\ \A c \in Clients : calls[c] # <<>> => SightingTrue(calls[c][1])

\* A listing that moves on moves its version on, until there is none left.
LEMMA SightingsAge ==
    ASSUME ListingInv, listing'.version = Later(listing.version, 1), NEW call, SightingTrue(call)
    PROVE  listing'.version \in 0..MaxTime /\ SightingTrue(call)'
  <1>1. listing.version \in Nat /\ listing.version <= MaxTime /\ MaxTime \in Nat
    BY EndpointAssumption DEF ListingInv
  <1>2. /\ listing'.version \in 0..MaxTime /\ listing.version <= listing'.version
        /\ listing'.version < MaxTime => listing'.version = listing.version + 1
    BY <1>1 DEF Later
  <1>3. CASE call.seen = {}
    BY <1>2, <1>3 DEF SightingTrue
  <1>4. CASE call.seen # {}
    <2>1. PICK v \in Nat : call.seen = {v} /\ v <= listing.version
      BY <1>4 DEF SightingTrue
    <2>2. v <= listing'.version /\ ~(v = listing'.version /\ v < MaxTime)
      BY <1>1, <1>2, <2>1
    <2> QED
      BY <1>2, <2>1, <2>2 DEF SightingTrue
  <1> QED
    BY <1>3, <1>4

LEMMA SnapshotIsTrue ==
    ASSUME ListingInv, NEW call, call.method = "ai.mcp_snapshot", SightingTrue(call), HandleRead(call).kind = "Ready"
    PROVE  CurrentTrue(call, HandleRead(call).answer)
  <1> DEFINE ans == HandleRead(call).answer
             w == listing.version
             check == CheckCorrelator(call.seen, CorrelatorCurrent("ai.mcp_snapshot"))
  <1>1. HandleRead(call) = Ready(<<listing>>)
    <2>1. HandleRead(call) = HandleSnapshot
      BY RefusedSays DEF HandleRead
    <2> QED
      BY <2>1 DEF HandleSnapshot
  <1>2. ans[1] = listing
    BY <1>1, ReadySays
  <1>3. w \in Nat /\ w <= MaxTime
    BY EndpointAssumption DEF ListingInv
  <1>4. /\ CorrelatorCurrent("ai.mcp_snapshot") # {}
        /\ (CHOOSE v \in CorrelatorCurrent("ai.mcp_snapshot") : TRUE) = w
    BY DEF CorrelatorCurrent
  <1>5. check = CASE SnapshotVerdict(call.seen, w) = "ok" -> "Current"
                  [] SnapshotVerdict(call.seen, w) = "StaleVersion" -> "StaleTolerated"
                  [] OTHER -> "MissingTolerated"
    BY <1>4 DEF CheckCorrelator
  <1>6. CASE call.seen = {}
    <2>1. check # "Current"
      BY <1>5, <1>6 DEF SnapshotVerdict
    <2> HIDE DEF ans, check
    <2> QED
      BY <1>6, <2>1 DEF CurrentTrue, ans, check
  <1>7. CASE call.seen # {}
    <2>1. PICK v \in Nat : /\ call.seen = {v} /\ v <= w
                           /\ v = w /\ v < MaxTime => call.saw = listing.digests
      BY <1>7 DEF SightingTrue
    <2>2. SnapshotVerdict(call.seen, w) = IF v < w THEN "StaleVersion" ELSE "ok"
      BY <2>1 DEF SnapshotVerdict, IsStale
    <2>3. CASE v < w
      <3>1. check # "Current"
        BY <1>5, <2>2, <2>3
      <3>2. call.seen # {ans[1].version}
        BY <1>2, <1>3, <2>1, <2>3
      <3> HIDE DEF ans, check
      <3> QED
        BY <3>1, <3>2 DEF CurrentTrue, ans, check
    <2>4. CASE ~(v < w)
      <3>1. check = "Current"
        BY <1>5, <2>2, <2>4
      <3>2. v = w
        BY <1>3, <2>1, <2>4
      <3>3. ans[1].version < MaxTime => call.saw = ans[1].digests
        BY <1>2, <2>1, <3>2
      <3>4. DiffToolSnapshots(ans[1].digests, ans[1].digests) = [added |-> {}, removed |-> {}, changed |-> {}]
        BY DEF DiffToolSnapshots, Names
      <3> HIDE DEF ans, check
      <3>5. ans[1].version < MaxTime =>
              DiffToolSnapshots(call.saw, ans[1].digests) = [added |-> {}, removed |-> {}, changed |-> {}]
        BY <3>3, <3>4
      <3> QED
        BY <3>1, <3>5 DEF CurrentTrue, ans, check
    <2> QED
      BY <2>3, <2>4
  <1> QED
    BY <1>6, <1>7

-----------------------------------------------------------------------------
\* What is said of the host's state, and what that rests on.
AnswerInv == StoreInv /\ ListingInv /\ ReadExact /\ CurrentMeansUnchanged

\* While the host stands still, what was true of an answer is.
LEMMA ReadStands ==
    ASSUME NEW call, NEW answer, ReadTrue(call, answer), UNCHANGED <<records, artifacts, issued, killed>>,
           last'.call = call, last'.answer = answer
    PROVE  ReadExact'
  <1> DEFINE gen == call.generation
             wanted == {i \in DOMAIN records :
                         records[i].generation = gen /\ records[i].owner \in Range(call.body.scopes)}
             rs == answer[1]
             absent == answer[2]
             Placed(A, recs) ==
               /\ Len(rs) = Cardinality(A)
               /\ \E place \in [DOMAIN rs -> A] :
                    /\ \A i, j \in DOMAIN rs : i < j => place[i] < place[j]
                    /\ \A a \in A : \E i \in DOMAIN rs : place[i] = a
                    /\ \A i \in DOMAIN rs : rs[i] = recs[place[i]]
             Told(i) ==
               IF i \in DOMAIN absent THEN AbsenceTrue(rs[i].body.ref, gen, absent[i])
               ELSE rs[i].body.kind = "artifact" =>
                      /\ rs[i].body.ref \notin killed
                      /\ Resolve(artifacts, rs[i].body.ref, gen) =
                           [error |-> "ok", content |-> issued[rs[i].body.ref].content]
  <1>1. Placed(wanted, records) /\ \A i \in DOMAIN rs : Told(i)
    BY Zenon DEF ReadTrue
  <1>2. records' = records /\ wanted' = wanted
    OBVIOUS
  <1>3. Placed(wanted', records')
    <2> HIDE DEF Placed, wanted
    <2> QED
      BY <1>1, <1>2
  <1>4. \A i \in DOMAIN rs : Told(i)'
    <2> TAKE i \in DOMAIN rs
    <2>1. Told(i)
      BY <1>1
    <2> QED
      BY <2>1 DEF AbsenceTrue
  <1>5. ReadTrue(call, answer)'
    BY <1>3, <1>4, Zenon DEF ReadTrue
  <1> QED
    BY <1>5 DEF ReadExact
LEMMA CurrentStands ==
    ASSUME NEW call, NEW answer, CurrentTrue(call, answer), listing' = listing,
           last'.call = call, last'.answer = answer
    PROVE  CurrentMeansUnchanged'
  BY DEF CurrentMeansUnchanged, CurrentTrue, CorrelatorCurrent

\* A dispatch reports what its handler found.
LEMMA DispatchAnswers ==
    ASSUME EndpointInv, AnswerInv, NEW c \in Clients, calls[c] # <<>>, NEW o, IsOutcome(o), NEW injected,
           Report(c, o, injected),
           o.kind = "Ready" => \/ calls[c][1].method \in InvokeMethods
                               \/ calls[c][1].method = "ai.context_read" /\ o = HandleContextRead(calls[c][1])
                               \/ calls[c][1].method \in ReadMethods /\ o = HandleRead(calls[c][1])
    PROVE  AnswerInv'
  <1> DEFINE call == calls[c][1]
  <1>1. UNCHANGED <<records, artifacts, issued, killed, generation, listing>>
    BY DEF Report, hostVars
  <1>2. last'.kind = o.kind /\ last'.call = call /\ last'.answer = o.answer
    BY Reports
  <1>3. StoreInv'
    BY <1>1, StoreStands DEF AnswerInv, StoreInv, StoreTypes
  <1>4. ListingInv'
    <2>1. \A d \in Clients : calls'[d] = IF d = c THEN <<>> ELSE calls[d]
      BY DEF Report, EndpointInv, CallsComposed
    <2> QED
      BY <1>1, <2>1 DEF AnswerInv, ListingInv, SightingTrue
  <1>5. ReadExact'
    <2>1. CASE o.kind = "Ready" /\ call.method = "ai.context_read"
      <3>1. o = HandleContextRead(call)
        BY <2>1 DEF InvokeMethods, ReadMethods
      <3>2. ReadTrue(call, o.answer)
        BY <2>1, <3>1, ContextReadTrue DEF AnswerInv
      <3> QED
        BY <1>1, <1>2, <3>2, ReadStands
    <2>2. CASE ~(o.kind = "Ready" /\ call.method = "ai.context_read")
      BY <1>2, <2>2 DEF ReadExact
    <2> QED
      BY <2>1, <2>2
  <1>6. CurrentMeansUnchanged'
    <2>1. CASE o.kind = "Ready" /\ call.method = "ai.mcp_snapshot"
      <3>1. o = HandleRead(call)
        BY <2>1 DEF InvokeMethods, ReadMethods
      <3>2. SightingTrue(call)
        BY DEF AnswerInv, ListingInv
      <3>3. CurrentTrue(call, o.answer)
        BY <2>1, <3>1, <3>2, SnapshotIsTrue DEF AnswerInv
      <3> QED
        BY <1>1, <1>2, <3>3, CurrentStands
    <2>2. CASE ~(o.kind = "Ready" /\ call.method = "ai.mcp_snapshot")
      BY <1>2, <2>2 DEF CurrentMeansUnchanged
    <2> QED
      BY <2>1, <2>2
  <1> QED
    BY <1>3, <1>4, <1>5, <1>6 DEF AnswerInv

LEMMA NotReadyAnswers ==
    /\ \A error : IsOutcome(Refused(error)) /\ Refused(error).kind # "Ready"
    /\ IsOutcome(NotWired) /\ NotWired.kind # "Ready"
  BY RefusedUncontacted, NotWiredUncontacted, RefusedSays DEF Uncontacted, NotWired, Outcome

LEMMA DispatchesAnswer ==
    ASSUME EndpointInv, AnswerInv, NEW c \in Clients,
           \/ \E entry \in {"dispatch", "dispatch_with", "dispatch_with_context",
                            "dispatch_with_complete", "dispatch_with_tools"} : DispatchRead(c, entry)
           \/ \E shown \in Views, reply \in ProviderReplies : DispatchComplete(c, shown, reply)
           \/ \E args \in {t.args : t \in Templates}, reply \in ToolReplies : DispatchTool(c, args, reply)
           \/ DispatchStrict(c)
    PROVE  AnswerInv'
  <1> DEFINE call == calls[c][1]
  <1>1. ASSUME NEW entry \in {"dispatch", "dispatch_with", "dispatch_with_context",
                              "dispatch_with_complete", "dispatch_with_tools"}, DispatchRead(c, entry)
        PROVE  AnswerInv'
    <2> DEFINE handled == IF call.method = "ai.context_read" THEN HandleContextRead(call) ELSE HandleRead(call)
               o == Admitted(call, entry, handled)
    <2>1. calls[c] # <<>> /\ call.method \notin InvokeMethods \cap Wired(entry) /\ Report(c, o, Nothing)
      BY <1>1 DEF DispatchRead, Composed
    <2>2. CASE RunGates(call) # "ok"
      <3>1. o = Refused(RunGates(call))
        BY <2>2 DEF Admitted
      <3>2. IsOutcome(o) /\ o.kind # "Ready"
        BY <3>1, NotReadyAnswers
      <3> HIDE DEF o
      <3> QED
        BY <2>1, <3>2, DispatchAnswers
    <2>3. CASE RunGates(call) = "ok" /\ call.method \notin Wired(entry)
      <3>1. o = NotWired
        BY <2>3 DEF Admitted
      <3>2. IsOutcome(o) /\ o.kind # "Ready"
        BY <3>1, NotReadyAnswers
      <3> HIDE DEF o
      <3> QED
        BY <2>1, <3>2, DispatchAnswers
    <2>4. CASE RunGates(call) = "ok" /\ call.method \in Wired(entry)
      <3>1. call.method = "ai.context_read" \/ call.method \in ReadMethods
        BY <1>1, <2>1, <2>4 DEF Wired, Methods, InvokeMethods
      <3>2. o = handled
        BY <2>4 DEF Admitted
      <3>3. Uncontacted(handled)
        BY <3>1, ContextReadUncontacted, ReadUncontacted
      <3>4. \/ call.method = "ai.context_read" /\ handled = HandleContextRead(call)
            \/ call.method \in ReadMethods /\ handled = HandleRead(call)
        BY <3>1 DEF ReadMethods
      <3> HIDE DEF o, handled
      <3>5. IsOutcome(o)
        BY <3>2, <3>3 DEF Uncontacted
      <3> QED
        BY <2>1, <3>2, <3>4, <3>5, DispatchAnswers
    <2> QED
      BY <2>2, <2>3, <2>4
  <1>2. ASSUME NEW shown, NEW reply, DispatchComplete(c, shown, reply)
        PROVE  AnswerInv'
    <2> DEFINE o == Admitted(call, "dispatch_with_complete", HandleComplete(call, shown, reply))
               injected == [part |-> "provider", view |-> shown, reply |-> reply]
    <2>1. calls[c] # <<>> /\ call.method \in InvokeMethods /\ Report(c, o, injected)
      BY <1>2 DEF DispatchComplete, Composed, InvokeMethods
    <2>2. IsOutcome(o)
      <3>1. IsOutcome(Contacted(Completed(call, reply)))
        BY CompletedUncontacted, ContactedOnce
      <3> QED
        BY <3>1, NotReadyAnswers DEF Admitted, HandleComplete
    <2> HIDE DEF o, injected
    <2> QED
      BY <2>1, <2>2, DispatchAnswers
  <1>3. ASSUME NEW args, NEW reply, DispatchTool(c, args, reply)
        PROVE  AnswerInv'
    <2> DEFINE o == Admitted(call, "dispatch_with_tools", HandleToolDispatch(call, args, reply))
               injected == [part |-> "executor", args |-> args, reply |-> reply]
    <2>1. calls[c] # <<>> /\ call.method \in InvokeMethods /\ Report(c, o, injected)
      BY <1>3 DEF DispatchTool, Composed, InvokeMethods
    <2>2. IsOutcome(o)
      <3>1. IsOutcome(Contacted(Executed(reply)))
        BY ExecutedUncontacted, ContactedOnce
      <3> QED
        BY <3>1, NotReadyAnswers DEF Admitted, HandleToolDispatch
    <2> HIDE DEF o, injected
    <2> QED
      BY <2>1, <2>2, DispatchAnswers
  <1>4. CASE DispatchStrict(c)
    <2> DEFINE o == StrictOutcome(call)
    <2>1. calls[c] # <<>> /\ Report(c, o, Nothing)
      BY <1>4 DEF DispatchStrict, Composed
    <2>2. IsOutcome(o) /\ o.kind # "Ready"
      BY NotReadyAnswers DEF StrictOutcome
    <2> HIDE DEF o
    <2> QED
      BY <2>1, <2>2, DispatchAnswers
  <1> QED
    BY <1>1, <1>2, <1>3, <1>4

\* Nothing is said where no report stands.
LEMMA SilentAnswers ==
    ASSUME last'.kind = "none"
    PROVE  ReadExact' /\ CurrentMeansUnchanged'
  BY DEF ReadExact, CurrentMeansUnchanged

LEMMA IssueSights ==
    ASSUME EndpointInv, AnswerInv, NEW c \in Clients, NEW t \in Templates, Issue(c, t)
    PROVE  AnswerInv'
  <1> DEFINE made == [method |-> t.method, form |-> t.form, body |-> t.body, timeout |-> t.timeout,
                      args |-> t.args, client |-> c, created |-> now, at |-> now + t.skew,
                      generation |-> generation,
                      seen |-> IF t.sights THEN {listing.version} ELSE {}, saw |-> listing.digests]
  <1>1. /\ calls' = [calls EXCEPT ![c] = <<made>>] /\ last'.kind = "none"
        /\ UNCHANGED <<records, artifacts, issued, killed, generation, listing>>
    BY DEF Issue, hostVars
  <1>2. made.saw = listing.digests /\ (made.seen = {} \/ made.seen = {listing.version})
    OBVIOUS
  <1> HIDE DEF made
  <1>3. SightingTrue(made)
    BY <1>2 DEF AnswerInv, ListingInv, SightingTrue
  <1>4. ListingInv'
    <2>1. \A d \in Clients : calls'[d] = IF d = c THEN <<made>> ELSE calls[d]
      BY <1>1 DEF EndpointInv, CallsComposed
    <2>2. ASSUME NEW d \in Clients, calls'[d] # <<>>
          PROVE  SightingTrue(calls'[d][1])
      BY <1>3, <2>1, <2>2 DEF AnswerInv, ListingInv
    <2> QED
      BY <1>1, <2>2 DEF AnswerInv, ListingInv, SightingTrue
  <1>5. StoreInv'
    BY <1>1, StoreStands DEF AnswerInv, StoreInv, StoreTypes
  <1> QED
    BY <1>1, <1>4, <1>5, SilentAnswers DEF AnswerInv

LEMMA RegistersSight ==
    ASSUME AnswerInv, Registers
    PROVE  AnswerInv'
  <1>1. last'.kind = "none" /\ calls' = calls /\ UNCHANGED <<records, artifacts, issued, killed, generation>>
    BY DEF Registers, HostStep, hostVars
  <1>2. \/ listing' = listing
        \/ listing' = [listing EXCEPT !.stale = TRUE, !.version = Later(@, 1)]
        \/ \E d : listing' = [digests |-> d, version |-> Later(listing.version, 1), stale |-> FALSE]
    BY DEF Registers, RegisterTool, Relist, MarkStale
  <1>3. ListingInv'
    <2>1. CASE listing' = listing
      BY <1>1, <2>1 DEF AnswerInv, ListingInv, SightingTrue
    <2>2. CASE listing' # listing
      <3>1. /\ listing'.version = Later(listing.version, 1)
            /\ listing' = [digests |-> listing'.digests, version |-> listing'.version, stale |-> listing'.stale]
        <4>1. CASE listing' = [listing EXCEPT !.stale = TRUE, !.version = Later(@, 1)]
          <5>1. listing = [digests |-> listing.digests, version |-> listing.version, stale |-> listing.stale]
            BY DEF AnswerInv, ListingInv
          <5>2. listing' = [digests |-> listing.digests, version |-> Later(listing.version, 1), stale |-> TRUE]
            BY <4>1, <5>1
          <5> QED
            BY <5>2
        <4>2. CASE \E d : listing' = [digests |-> d, version |-> Later(listing.version, 1), stale |-> FALSE]
          BY <4>2
        <4> QED
          BY <1>2, <2>2, <4>1, <4>2
      <3>2. listing'.version \in 0..MaxTime
        <4>1. listing.version \in Nat /\ listing.version <= MaxTime /\ MaxTime \in Nat
          BY EndpointAssumption DEF AnswerInv, ListingInv
        <4> QED
          BY <3>1, <4>1 DEF Later
      <3>3. ASSUME NEW c \in Clients, calls'[c] # <<>>
            PROVE  SightingTrue(calls[c][1])'
        <4>1. SightingTrue(calls[c][1])
          BY <1>1, <3>3 DEF AnswerInv, ListingInv
        <4>2. \A call : SightingTrue(call) => SightingTrue(call)'
          BY <3>1, SightingsAge DEF AnswerInv
        <4> QED
          BY <1>1, <4>1, <4>2 DEF SightingTrue
      <3> QED
        BY <3>1, <3>2, <3>3 DEF ListingInv
    <2> QED
      BY <2>1, <2>2
  <1>4. StoreInv'
    BY <1>1, StoreStands DEF AnswerInv, StoreInv, StoreTypes
  <1> QED
    BY <1>1, <1>3, <1>4, SilentAnswers DEF AnswerInv

LEMMA HostChangesStore ==
    ASSUME AnswerInv, HostChanges
    PROVE  AnswerInv'
  <1>1. last'.kind = "none" /\ calls' = calls /\ listing' = listing
    BY DEF HostChanges, Tick, SetConsent, SetToolConsent, AddRecord, Invalidate, NewGeneration, HostStep
  <1>2. ListingInv'
    BY <1>1 DEF AnswerInv, ListingInv, SightingTrue
  <1>3. StoreInv'
    <2>1. ASSUME UNCHANGED <<records, artifacts, issued, killed>>, generation' = generation \/ generation' = generation + 1
          PROVE  StoreInv'
      BY <2>1, StoreStands DEF AnswerInv, StoreInv, StoreTypes
    <2>2. CASE Tick
      BY <2>1, <2>2 DEF Tick, HostStep
    <2>3. CASE \E c \in Clients, scope \in {"ai.read", "ai.invoke"}, live \in BOOLEAN : SetConsent(c, scope, live)
      BY <2>1, <2>3 DEF SetConsent, HostStep
    <2>4. CASE \E g \in ToolConsents, live \in BOOLEAN : SetToolConsent(g, live)
      BY <2>1, <2>4 DEF SetToolConsent, HostStep
    <2>5. ASSUME NEW k \in RecordKinds, AddRecord(k)
          PROVE  StoreInv'
      <3> DEFINE stored == k.body.kind = "stored"
                 body == IF stored THEN Reference(artifacts.next + 1) ELSE k.body
                 r == [k EXCEPT !.body = body] @@ [generation |-> generation]
      <3>1. /\ records' = Append(records, r) /\ UNCHANGED <<generation, killed>>
            /\ stored => /\ artifacts' = Stored(artifacts, k.body, generation)
                         /\ issued' = Append(issued, [content |-> k.body.content, generation |-> generation])
            /\ ~stored => artifacts' = artifacts /\ issued' = issued
        BY <2>5 DEF AddRecord, HostStep
      <3> HIDE DEF r
      <3>2. \E R : records' \in Seq(R)
        <4>1. PICK R : records \in Seq(R)
          BY DEF AnswerInv, StoreInv, StoreTypes
        <4>2. records \in Seq(R \cup {r})
          BY <4>1
        <4>3. Append(records, r) \in Seq(R \cup {r})
          BY <4>2
        <4> QED
          BY <3>1, <4>3
      <3>3. CASE stored
        BY <3>1, <3>2, <3>3, StoredKeeps DEF AnswerInv
      <3>4. CASE ~stored
        <4>1. UNCHANGED <<artifacts, issued, killed, generation>>
          BY <3>1, <3>4
        <4> QED
          BY <3>2, <4>1 DEF AnswerInv, StoreInv, StoreTypes, EntriesTrue, EntriesOnce, EntriesWhole, TombstonesTrue
      <3> QED
        BY <3>3, <3>4
    <2>6. CASE \E ref \in 1..artifacts.next : Invalidate(ref)
      BY <2>6, InvalidatedKeeps DEF Invalidate, HostStep, AnswerInv
    <2>7. CASE NewGeneration
      BY <2>1, <2>7 DEF NewGeneration, HostStep
    <2> QED
      BY <2>2, <2>3, <2>4, <2>5, <2>6, <2>7 DEF HostChanges
  <1> QED
    BY <1>1, <1>2, <1>3, SilentAnswers DEF AnswerInv

LEMMA AnswersStart == EndpointInit => AnswerInv
  <1> SUFFICES ASSUME EndpointInit
               PROVE  AnswerInv
    OBVIOUS
  <1>1. /\ artifacts = [entries |-> <<>>, next |-> 0, deleted |-> {}] /\ issued = <<>> /\ killed = {}
        /\ generation = 1 /\ records = <<>> /\ last.kind = "none"
        /\ listing = [digests |-> <<>>, version |-> 0, stale |-> FALSE]
        /\ calls = [c \in Clients |-> <<>>]
    BY DEF EndpointInit, HostToolsInit, EmptyStore, NoReport, Outcome
  <1>2. StoreTypes
    <2>1. records \in Seq({})
      BY <1>1
    <2>2. <<>> \in Seq(EntryRecords) /\ issued \in Seq([content : {k.body.content : k \in RecordKinds}, generation : Nat])
      BY <1>1
    <2>3. artifacts \in [entries : Seq(EntryRecords), next : Nat, deleted : SUBSET Nat]
      BY <1>1, <2>2
    <2> QED
      BY <1>1, <2>1, <2>2, <2>3 DEF StoreTypes
  <1>3. StoreInv
    BY <1>1, <1>2 DEF StoreInv, EntriesTrue, EntriesOnce, EntriesWhole, TombstonesTrue
  <1>4. ListingInv
    BY <1>1, EndpointAssumption DEF ListingInv
  <1> QED
    BY <1>1, <1>3, <1>4 DEF AnswerInv, ReadExact, CurrentMeansUnchanged

LEMMA AnswersStep == EndpointInv /\ AnswerInv /\ [EndpointNext]_endpointVars => AnswerInv'
  <1> SUFFICES ASSUME EndpointInv, AnswerInv, [EndpointNext]_endpointVars
               PROVE  AnswerInv'
    OBVIOUS
  <1>1. ASSUME NEW c \in Clients, NEW t \in Templates, Issue(c, t)
        PROVE  AnswerInv'
    BY <1>1, IssueSights
  <1>2. ASSUME NEW c \in Clients,
               \/ \E entry \in {"dispatch", "dispatch_with", "dispatch_with_context",
                                "dispatch_with_complete", "dispatch_with_tools"} : DispatchRead(c, entry)
               \/ \E shown \in Views, reply \in ProviderReplies : DispatchComplete(c, shown, reply)
               \/ \E args \in {t.args : t \in Templates}, reply \in ToolReplies : DispatchTool(c, args, reply)
               \/ DispatchStrict(c)
        PROVE  AnswerInv'
    BY <1>2, DispatchesAnswer
  <1>3. CASE Registers
    BY <1>3, RegistersSight
  <1>4. CASE HostChanges
    BY <1>4, HostChangesStore
  <1>5. CASE Take
    <2>1. last'.kind = "none" /\ calls' = calls /\ UNCHANGED <<records, artifacts, issued, killed, generation, listing>>
      BY <1>5 DEF Take, NoReport, Outcome, hostVars
    <2>2. StoreInv'
      BY <2>1, StoreStands DEF AnswerInv, StoreInv, StoreTypes
    <2>3. ListingInv'
      BY <2>1 DEF AnswerInv, ListingInv, SightingTrue
    <2> QED
      BY <2>1, <2>2, <2>3, SilentAnswers DEF AnswerInv
  <1>6. CASE UNCHANGED endpointVars
    <2>1. UNCHANGED <<records, artifacts, issued, killed, generation, listing, calls, last>>
      BY <1>6 DEF endpointVars, hostVars
    <2>2. StoreInv'
      BY <2>1, StoreStands DEF AnswerInv, StoreInv, StoreTypes
    <2>3. ListingInv'
      BY <2>1 DEF AnswerInv, ListingInv, SightingTrue
    <2>4. ReadExact'
      <3>1. CASE last.kind = "Ready" /\ last.call.method = "ai.context_read"
        <4>1. ReadTrue(last.call, last.answer)
          BY <3>1 DEF AnswerInv, ReadExact
        <4> QED
          BY <2>1, <4>1, ReadStands
      <3>2. CASE ~(last.kind = "Ready" /\ last.call.method = "ai.context_read")
        BY <2>1, <3>2 DEF ReadExact
      <3> QED
        BY <3>1, <3>2
    <2>5. CurrentMeansUnchanged'
      <3>1. CASE last.kind = "Ready" /\ last.call.method = "ai.mcp_snapshot"
        <4>1. CurrentTrue(last.call, last.answer)
          BY <3>1 DEF AnswerInv, CurrentMeansUnchanged
        <4> QED
          BY <2>1, <4>1, CurrentStands
      <3>2. CASE ~(last.kind = "Ready" /\ last.call.method = "ai.mcp_snapshot")
        BY <2>1, <3>2 DEF CurrentMeansUnchanged
      <3> QED
        BY <3>1, <3>2
    <2> QED
      BY <2>2, <2>3, <2>4, <2>5 DEF AnswerInv
  <1> QED
    BY <1>1, <1>2, <1>3, <1>4, <1>5, <1>6 DEF EndpointNext, HostChanges

\* What a call is told is so (AnswersTrue): a context answer is every record
\* wanted for, in the host's order, and says of each artifact what the store's
\* history has of it, whatever was recorded, invalidated or moved to another
\* generation before the dispatch; and an effect keeps its axis.
THEOREM AnswersAreTrue == EndpointSpec => []AnswersTrue
  <1>1. EndpointInv /\ AnswerInv => AnswersTrue
    BY DEF EndpointInv, AnswerInv, AnswersTrue
  <1> QED
    BY EndpointStarts, EndpointSteps, AnswersStart, AnswersStep, <1>1, PTL DEF EndpointSpec

\* A sighting called current is of the listing as it is (CurrentMeansUnchanged),
\* through every relisting and every list_changed signal, until the saturating
\* list version has run out.
THEOREM CurrentIsUnchanged == EndpointSpec => []CurrentMeansUnchanged
  <1>1. AnswerInv => CurrentMeansUnchanged
    BY DEF AnswerInv
  <1> QED
    BY EndpointStarts, EndpointSteps, AnswersStart, AnswersStep, <1>1, PTL DEF EndpointSpec

-----------------------------------------------------------------------------
(***************************************************************************)
(* The compaction store.                                                   *)
(***************************************************************************)

\* Lists, by what is in them.
IsList(s) == s \in Seq(Range(s))

\* A function on 1..n is a list of its values.
LEMMA ListIs ==
    ASSUME NEW n \in Nat, NEW s, s = [i \in 1..n |-> s[i]]
    PROVE  IsList(s) /\ Len(s) = n /\ DOMAIN s = 1..n
  <1>1. DOMAIN s = 1..n
    OBVIOUS
  <1>2. \A i \in 1..n : s[i] \in Range(s)
    BY <1>1 DEF Range
  <1>3. s \in [1..n -> Range(s)]
    BY <1>2
  <1>4. s \in Seq(Range(s))
    BY <1>3
  <1> QED
    BY <1>1, <1>4 DEF IsList

LEMMA ListHas ==
    ASSUME NEW s, IsList(s)
    PROVE  Len(s) \in Nat /\ DOMAIN s = 1..Len(s) /\ s = [i \in 1..Len(s) |-> s[i]]
  BY DEF IsList

\* retain() keeps what it does not name.
LEMMA WithoutIs ==
    ASSUME NEW rs, IsList(rs), NEW ids
    PROVE  /\ IsList(Without(rs, ids)) /\ Range(Without(rs, ids)) = {r \in Range(rs) : r.id \notin ids}
           /\ Ids(Without(rs, ids)) = Ids(rs) \ ids
           /\ Without(rs, ids) # <<>> => rs # <<>>
  <1> DEFINE S == {i \in DOMAIN rs : rs[i].id \notin ids}
             w == Picked(rs, S)
             n == Cardinality(S)
             f == InOrder(S)
  <1>1. Len(rs) \in Nat /\ DOMAIN rs = 1..Len(rs)
    BY ListHas
  <1>2. S \in SUBSET Nat /\ S \subseteq 1..Len(rs)
    BY <1>1
  <1>3. IsFiniteSet(S)
    <2>1. IsFiniteSet(1..Len(rs))
      BY <1>1, FS_Interval
    <2> HIDE DEF S
    <2> QED
      BY <1>2, <2>1, FS_Subset
  <1> HIDE DEF S
  <1>4. /\ DOMAIN w = 1..n /\ n \in Nat
        /\ f \in [1..n -> S]
        /\ \A a \in S : \E i \in 1..n : f[i] = a
        /\ \A i \in 1..n : w[i] = rs[f[i]]
    BY <1>2, <1>3, PickedIs
  <1>5. w = [i \in 1..n |-> w[i]]
    BY <1>4 DEF Picked
  <1>6. IsList(w)
    <2> HIDE DEF w, n
    <2> QED
      BY <1>4, <1>5, ListIs
  <1>7. Without(rs, ids) = w
    BY DEF Without, S
  <1> HIDE DEF w, n, f
  <1>8. Range(w) = {r \in Range(rs) : r.id \notin ids}
    <2>1. ASSUME NEW r \in Range(w)
          PROVE  r \in Range(rs) /\ r.id \notin ids
      <3>1. PICK i \in 1..n : r = w[i]
        BY <1>4 DEF Range
      <3>2. f[i] \in DOMAIN rs /\ rs[f[i]].id \notin ids /\ r = rs[f[i]]
        BY <1>4, <3>1 DEF S
      <3> QED
        BY <3>2 DEF Range
    <2>2. ASSUME NEW r \in Range(rs), r.id \notin ids
          PROVE  r \in Range(w)
      <3>1. PICK a \in DOMAIN rs : r = rs[a]
        BY DEF Range
      <3>2. a \in S
        BY <2>2, <3>1 DEF S
      <3>3. PICK i \in 1..n : f[i] = a
        BY <1>4, <3>2
      <3>4. w[i] = r
        BY <1>4, <3>1, <3>3
      <3> QED
        BY <1>4, <3>4 DEF Range
    <2> QED
      BY <2>1, <2>2
  <1>9. \A s : Ids(s) = {r.id : r \in Range(s)}
    BY DEF Ids, Range
  <1>10. Ids(w) = Ids(rs) \ ids
    BY <1>8, <1>9
  <1>11. w # <<>> => rs # <<>>
    <2> SUFFICES ASSUME rs = <<>>
                 PROVE  w = <<>>
      OBVIOUS
    <2>1. DOMAIN rs = {} /\ S = {}
      BY <1>1, <1>2
    <2>2. n = 0
      BY <2>1, FS_EmptySet DEF n
    <2> QED
      BY <1>4, <1>5, <2>2
  <1> QED
    BY <1>6, <1>7, <1>8, <1>10, <1>11

\* Max and Min are in the set they bound.
LEMMA GreatestIs ==
    ASSUME NEW S \in SUBSET Nat, IsFiniteSet(S), S # {}
    PROVE  Max(S) \in S /\ \A x \in S : x <= Max(S)
  <1> DEFINE n == Cardinality(S)
             f == InOrder(S)
  <1>1. /\ n \in Nat /\ f \in [1..n -> S]
        /\ \A j, k \in 1..n : j < k => f[j] < f[k]
        /\ \A i \in S : \E k \in 1..n : f[k] = i
    BY InOrderIs
  <1> HIDE DEF n, f
  <1>2. n # 0
    <2>1. PICK x \in S : TRUE
      OBVIOUS
    <2>2. PICK k \in 1..n : f[k] = x
      BY <1>1, <2>1
    <2> QED
      BY <1>1, <2>2
  <1>3. n \in 1..n /\ f[n] \in S
    BY <1>1, <1>2
  <1>4. ASSUME NEW x \in S
        PROVE  x <= f[n]
    <2>1. PICK k \in 1..n : f[k] = x
      BY <1>1
    <2>2. k = n \/ k < n
      BY <1>1
    <2>3. x \in Nat /\ f[n] \in Nat
      BY <1>3
    <2> QED
      BY <1>1, <1>3, <2>1, <2>2, <2>3
  <1>5. \E x \in S : \A y \in S : x >= y
    BY <1>3, <1>4
  <1>6. Max(S) \in S /\ \A y \in S : Max(S) >= y
    BY <1>5 DEF Max
  <1> QED
    BY <1>6

LEMMA LeastIs ==
    ASSUME NEW S \in SUBSET Nat, S # {}
    PROVE  Min(S) \in S /\ \A x \in S : Min(S) <= x
  <1>1. PICK n \in S : \A x \in S : n <= x
    BY LeastNatural
  <1> QED
    BY <1>1 DEF Min

\* Ranges that lie within n records.
Within(ranges, n) ==
    /\ IsList(ranges)
    /\ \A k \in DOMAIN ranges :
         /\ ranges[k][1] \in 1..n /\ ranges[k][2] \in 1..n /\ ranges[k][1] <= ranges[k][2]

\* A run of head records ends before the next gap, and the next run is beyond it.
LEMMA RunEndIs ==
    ASSUME NEW n \in Nat, NEW head \in SUBSET (1..n), NEW i \in head
    PROVE  /\ RunEnd(head, i) \in head /\ i <= RunEnd(head, i)
           /\ \A j \in head : j > i /\ j - 1 \notin head => j > RunEnd(head, i)
  <1> DEFINE ends == {j \in head : j >= i /\ j + 1 \notin head}
             top == Max(head)
             e == Min(ends)
  <1>1. IsFiniteSet(head) /\ head \in SUBSET Nat
    <2>1. IsFiniteSet(1..n)
      BY FS_Interval
    <2>2. IsFiniteSet(head)
      BY <2>1, FS_Subset
    <2> QED
      BY <2>2
  <1>2. top \in head /\ \A x \in head : x <= top
    BY <1>1, GreatestIs
  <1> HIDE DEF top
  <1>3. top \in ends
    <2>1. top \in Nat /\ i \in Nat
      BY <1>1, <1>2
    <2> QED
      BY <1>2, <2>1
  <1>4. ends \in SUBSET Nat
    BY <1>1
  <1>5. e \in ends /\ \A x \in ends : e <= x
    <2> HIDE DEF ends
    <2> QED
      BY <1>3, <1>4, LeastIs
  <1>6. RunEnd(head, i) = e
    BY DEF RunEnd
  <1> HIDE DEF e
  <1>7. e \in head /\ i <= e /\ e + 1 \notin head /\ e \in Nat /\ i \in Nat
    BY <1>1, <1>5
  <1>8. ASSUME NEW j \in head, j > i, j - 1 \notin head, j <= e
        PROVE  FALSE
    <2> DEFINE gaps == {x \in i..e : x \notin head}
    <2>1. j \in Nat
      BY <1>1
    <2>2. j - 1 \in gaps
      BY <1>7, <1>8, <2>1
    <2>3. gaps \in SUBSET Nat
      BY <1>7
    <2>4. PICK g \in gaps : \A x \in gaps : g <= x
      <3> HIDE DEF gaps
      <3> QED
        BY <2>2, <2>3, LeastNatural
    <2>5. g \in Nat /\ g > i /\ g <= e /\ g \notin head
      BY <1>7, <2>4
    <2>6. g - 1 \in i..e /\ g - 1 < g
      BY <1>7, <2>5
    <2>7. g - 1 \in head
      BY <2>4, <2>5, <2>6
    <2>8. g - 1 \in ends
      BY <2>5, <2>6, <2>7, <1>7
    <2>9. e <= g - 1
      BY <1>5, <2>8
    <2> QED
      BY <1>7, <2>5, <2>9
  <1>9. ASSUME NEW j \in head, j > i, j - 1 \notin head
        PROVE  j > e
    <2>1. j \in Nat
      BY <1>1
    <2> QED
      BY <1>7, <1>8, <1>9, <2>1
  <1> QED
    BY <1>6, <1>7, <1>9

\* The runs of a head are ranges within its records.
LEMMA HeadRangesAre ==
    ASSUME NEW n \in Nat, NEW head \in SUBSET (1..n)
    PROVE  /\ Within(HeadRanges(head), n) /\ IsList(HeadRanges(head))
           /\ Len(HeadRanges(head)) = Cardinality(RunStarts(head))
           /\ \A k \in DOMAIN HeadRanges(head) :
                k > 1 => HeadRanges(head)[k][1] > HeadRanges(head)[k - 1][2]
           /\ head # {} => RunStarts(head) # {} /\ HeadRanges(head) # <<>>
  <1> DEFINE S == RunStarts(head)
             m == Cardinality(S)
             f == InOrder(S)
             r == HeadRanges(head)
  <1>1. S \in SUBSET Nat /\ S \subseteq head /\ IsFiniteSet(S)
    <2>1. IsFiniteSet(1..n)
      BY FS_Interval
    <2>2. S \subseteq 1..n /\ S \subseteq head
      BY DEF RunStarts
    <2> HIDE DEF S
    <2>3. IsFiniteSet(S)
      BY <2>1, <2>2, FS_Subset
    <2> QED
      BY <2>2, <2>3
  <1> HIDE DEF S
  <1>2. /\ m \in Nat /\ f \in [1..m -> S]
        /\ \A j, k \in 1..m : j < k => f[j] < f[k]
        /\ \A i \in S : \E k \in 1..m : f[k] = i
    BY <1>1, InOrderIs
  <1>3. r = [k \in 1..m |-> <<f[k], RunEnd(head, f[k])>>]
    BY <1>2 DEF HeadRanges, S
  <1> HIDE DEF m, f, r
  <1>4. r = [k \in 1..m |-> r[k]]
    BY <1>3
  <1>5. IsList(r) /\ Len(r) = m /\ DOMAIN r = 1..m
    BY <1>2, <1>4, ListIs
  <1>6. ASSUME NEW k \in 1..m
        PROVE  /\ r[k][1] = f[k] /\ r[k][2] = RunEnd(head, f[k])
               /\ f[k] \in S /\ f[k] \in head /\ f[k] \in 1..n
               /\ RunEnd(head, f[k]) \in 1..n /\ f[k] <= RunEnd(head, f[k])
    <2>1. r[k] = <<f[k], RunEnd(head, f[k])>>
      BY <1>3
    <2>2. f[k] \in S /\ f[k] \in head /\ f[k] \in 1..n
      BY <1>1, <1>2
    <2>3. RunEnd(head, f[k]) \in head /\ f[k] <= RunEnd(head, f[k])
      BY <2>2, RunEndIs
    <2>4. RunEnd(head, f[k]) \in 1..n
      BY <2>3
    <2> QED
      BY <2>1, <2>2, <2>3, <2>4
  <1>7. Within(r, n)
    BY <1>5, <1>6 DEF Within
  <1>8. ASSUME NEW k \in 1..m, k > 1
        PROVE  r[k][1] > r[k - 1][2]
    <2>1. k - 1 \in 1..m /\ k - 1 < k
      BY <1>2, <1>8
    <2>2. f[k - 1] < f[k]
      BY <1>2, <2>1
    <2>3. f[k] \in head /\ f[k - 1] \in head /\ f[k] \in S /\ f[k] \in Nat /\ f[k - 1] \in Nat
      BY <1>6, <2>1
    <2>4. f[k] - 1 \notin head
      BY <2>3 DEF S, RunStarts
    <2>5. f[k] > f[k - 1]
      BY <2>2, <2>3
    <2>6. f[k] > RunEnd(head, f[k - 1])
      BY <2>3, <2>4, <2>5, RunEndIs
    <2> QED
      BY <1>6, <2>1, <2>6
  <1>9. ASSUME head # {}
        PROVE  S # {} /\ r # <<>>
    <2>1. head \in SUBSET Nat
      OBVIOUS
    <2>2. PICK i \in head : \A x \in head : i <= x
      BY <1>9, <2>1, LeastNatural
    <2>3. i \in Nat /\ i - 1 \notin head
      BY <2>1, <2>2
    <2>4. i \in S
      BY <2>3 DEF S, RunStarts
    <2>5. m # 0
      BY <1>2, <2>4
    <2> QED
      BY <1>5, <2>4, <2>5
  <1> QED
    BY <1>5, <1>7, <1>8, <1>9 DEF r, m, S

\* The retention classes, from the loosest to the strictest.
LEMMA ClassesAre ==
    /\ DOMAIN Classes = 1..4
    /\ Range(Classes) = {"Pinned", "Recent", "Normal", "Ephemeral"}
    /\ \A m \in 1..4 : Classes[m] \in Range(Classes) /\ Restrictiveness(Classes[m]) = m
    /\ Restrictiveness("Pinned") = 1 /\ Restrictiveness("Recent") = 2
    /\ Restrictiveness("Normal") = 3 /\ Restrictiveness("Ephemeral") = 4
    /\ \A id : GetTag(TagsGiven, id) \in Range(Classes)
  <1>1. /\ DOMAIN Classes = 1..4
        /\ Classes[1] = "Pinned" /\ Classes[2] = "Recent" /\ Classes[3] = "Normal" /\ Classes[4] = "Ephemeral"
    BY DEF Classes
  <1>2. Range(Classes) = {"Pinned", "Recent", "Normal", "Ephemeral"}
    <2>1. Range(Classes) = {Classes[i] : i \in 1..4}
      BY <1>1 DEF Range
    <2>2. \A x : x \in {Classes[i] : i \in 1..4} <=> x = Classes[1] \/ x = Classes[2] \/ x = Classes[3] \/ x = Classes[4]
      OBVIOUS
    <2> QED
      BY <1>1, <2>1, <2>2
  <1>3. ASSUME NEW m \in 1..4
        PROVE  Restrictiveness(Classes[m]) = m
    <2> DEFINE P(i) == i \in DOMAIN Classes /\ Classes[i] = Classes[m]
    <2>1. \A i : P(i) => i = m
      <3> SUFFICES ASSUME NEW i \in 1..4, Classes[i] = Classes[m]
                   PROVE  i = m
        BY <1>1
      <3>1. (i = 1 \/ i = 2 \/ i = 3 \/ i = 4) /\ (m = 1 \/ m = 2 \/ m = 3 \/ m = 4)
        OBVIOUS
      <3> QED
        BY <1>1, <3>1
    <2>2. P(m)
      BY <1>1
    <2> QED
      BY <2>1, <2>2 DEF Restrictiveness
  <1>4. \A m \in 1..4 : Classes[m] \in Range(Classes)
    BY <1>1 DEF Range
  <1>5. /\ Restrictiveness("Pinned") = 1 /\ Restrictiveness("Recent") = 2
        /\ Restrictiveness("Normal") = 3 /\ Restrictiveness("Ephemeral") = 4
    BY <1>1, <1>3
  <1>6. \A id : GetTag(TagsGiven, id) \in Range(Classes)
    <2>1. \A id \in DOMAIN TagsGiven : TagsGiven[id] \in Range(Classes)
      BY CompactionAssumption
    <2> QED
      BY <1>2, <2>1 DEF GetTag
  <1> QED
    BY <1>1, <1>2, <1>3, <1>4, <1>5, <1>6

\* A stricter class, counted from an earlier time, is over no later.
LEMMA StricterIsOver ==
    ASSUME NEW c \in Range(Classes), NEW d \in Range(Classes), Restrictiveness(c) <= Restrictiveness(d),
           NEW at \in Nat, NEW since \in Nat, since <= at, NEW t \in Nat, Over(c, at, t)
    PROVE  Over(d, since, t)
  <1>1. /\ TtlFor("Pinned") = {} /\ TtlFor("Recent") = {3} /\ TtlFor("Normal") = {2} /\ TtlFor("Ephemeral") = {1}
    BY DEF TtlFor
  <1>2. PICK ttl \in TtlFor(c) : t - at > ttl
    BY DEF Over
  <1>3. c \in {"Pinned", "Recent", "Normal", "Ephemeral"} /\ d \in {"Pinned", "Recent", "Normal", "Ephemeral"}
    BY ClassesAre
  <1>4. \E x \in TtlFor(d) : x \in Nat /\ x <= ttl /\ ttl \in Nat
    <2>1. CASE c = "Recent"
      BY <1>1, <1>2, <1>3, <2>1, ClassesAre
    <2>2. CASE c = "Normal"
      BY <1>1, <1>2, <1>3, <2>2, ClassesAre
    <2>3. CASE c = "Ephemeral"
      BY <1>1, <1>2, <1>3, <2>3, ClassesAre
    <2>4. c # "Pinned"
      BY <1>1, <1>2
    <2> QED
      BY <1>3, <2>1, <2>2, <2>3, <2>4
  <1>5. PICK x \in TtlFor(d) : x \in Nat /\ x <= ttl /\ ttl \in Nat
    BY <1>4
  <1>6. t - since > x
    BY <1>2, <1>5
  <1> QED
    BY <1>5, <1>6 DEF Over

\* A span inherits the strictest class of its sources.
LEMMA InheritsStrictest ==
    ASSUME NEW n \in Nat, n > 0, NEW s, s = [i \in 1..n |-> s[i]]
    PROVE  /\ InheritRetention(s, TagsGiven) \in Range(Classes)
           /\ \A i \in 1..n : Restrictiveness(GetTag(TagsGiven, s[i]))
                              <= Restrictiveness(InheritRetention(s, TagsGiven))
  <1> DEFINE R == {Restrictiveness(GetTag(TagsGiven, s[i])) : i \in DOMAIN s}
             m == Max(R)
  <1>1. DOMAIN s = 1..n /\ s # <<>>
    BY ListIs
  <1>2. \A id : Restrictiveness(GetTag(TagsGiven, id)) \in 1..4
    <2> TAKE id
    <2>1. GetTag(TagsGiven, id) \in {"Pinned", "Recent", "Normal", "Ephemeral"}
      BY ClassesAre
    <2> QED
      BY <2>1, ClassesAre
  <1>3. R \in SUBSET (1..4) /\ R # {}
    <2>1. 1 \in DOMAIN s
      BY <1>1
    <2>2. Restrictiveness(GetTag(TagsGiven, s[1])) \in R
      BY <2>1
    <2>3. ASSUME NEW x \in R
          PROVE  x \in 1..4
      <3>1. PICK i \in DOMAIN s : x = Restrictiveness(GetTag(TagsGiven, s[i]))
        OBVIOUS
      <3> QED
        BY <1>2, <3>1
    <2>4. R # {}
      BY <2>2
    <2>5. R \in SUBSET (1..4)
      BY <2>3
    <2> QED
      BY <2>4, <2>5
  <1>4. IsFiniteSet(R) /\ R \in SUBSET Nat
    <2>0. \A b \in Nat : IsFiniteSet(1..b)
      BY FS_Interval
    <2>1. IsFiniteSet(1..4)
      BY <2>0
    <2> HIDE DEF R
    <2>2. IsFiniteSet(R)
      BY <1>3, <2>1, FS_Subset
    <2> QED
      BY <1>3, <2>2
  <1>5. m \in R /\ \A x \in R : x <= m
    <2> HIDE DEF R
    <2> QED
      BY <1>3, <1>4, GreatestIs
  <1>6. InheritRetention(s, TagsGiven) = Classes[m]
    BY <1>1 DEF InheritRetention
  <1> HIDE DEF m
  <1>7. m \in 1..4
    BY <1>3, <1>5
  <1>8. Classes[m] \in Range(Classes) /\ Restrictiveness(Classes[m]) = m
    BY <1>7, ClassesAre
  <1>9. ASSUME NEW i \in 1..n
        PROVE  Restrictiveness(GetTag(TagsGiven, s[i])) <= m
    BY <1>1, <1>5
  <1> QED
    BY <1>6, <1>8, <1>9

\* A record of a view has the time of the collected record whose id it has, and
\* a span is no younger and no looser than any collected record it covers.
RecordTrue(p, r) ==
    /\ r.id \in Nat /\ r.at \in Nat /\ Footprint(r) \in Nat
    /\ \A i \in DOMAIN p : p[i].id = r.id => p[i].at = r.at

SpanTrue(p, s) ==
    /\ s.id \in Nat /\ s.deadline \in Nat /\ s.retention \in Range(Classes)
    /\ \A i \in DOMAIN p : p[i].id \in Range(s.sources) =>
         /\ s.deadline <= p[i].at
         /\ Restrictiveness(GetTag(TagsGiven, p[i].id)) <= Restrictiveness(s.retention)

\* In memory or on disk: what a span covers is neither a record nor a span beside it.
ImageTrue(p, recs, spans) ==
    /\ IsList(recs) /\ \A i \in DOMAIN recs : RecordTrue(p, recs[i])
    /\ IsFiniteSet(spans) /\ \A s \in spans : SpanTrue(p, s)
    /\ \A s, u \in spans : Range(s.sources) \cap (Ids(recs) \cup {u.id}) = {}
    /\ recs # <<>> => SpanId(0) \notin Ids(p)

ViewTrue(p, v) ==
    /\ v = [records |-> v.records, spans |-> v.spans, tombstones |-> v.tombstones, tags |-> v.tags]
    /\ IsList(v.spans) /\ ImageTrue(p, v.records, Range(v.spans))

\* What a range covers of a list.
LEMMA CoveredIs ==
    ASSUME NEW rs, IsList(rs), NEW range, range[1] \in 1..Len(rs), range[2] \in 1..Len(rs), range[1] <= range[2]
    PROVE  \E n \in Nat :
             /\ n > 0 /\ DOMAIN Covered(rs, range) = 1..n
             /\ \A i \in 1..n : \E j \in range[1]..range[2] : j \in DOMAIN rs /\ Covered(rs, range)[i] = rs[j]
  <1> DEFINE a == range[1]
             b == range[2]
  <1>0. rs \in Seq(Range(rs)) /\ Len(rs) \in Nat /\ DOMAIN rs = 1..Len(rs)
    BY ListHas DEF IsList
  <1>1. Covered(rs, range) = SubSeq(rs, a, b)
    BY DEF Covered
  <1> HIDE DEF a, b
  <1>2. a \in 1..Len(rs) /\ b \in 1..Len(rs) /\ a <= b
    BY DEF a, b
  <1>3. /\ Len(SubSeq(rs, a, b)) = b - a + 1 /\ DOMAIN SubSeq(rs, a, b) = 1..(b - a + 1)
        /\ \A i \in 1..(b - a + 1) : SubSeq(rs, a, b)[i] = rs[a + i - 1]
    BY <1>0, <1>2
  <1>4. b - a + 1 \in Nat /\ b - a + 1 > 0
    BY <1>0, <1>2
  <1>5. \A i \in 1..(b - a + 1) : a + i - 1 \in a..b /\ a + i - 1 \in DOMAIN rs
    BY <1>0, <1>2
  <1>6. \A i \in 1..(b - a + 1) : \E j \in a..b : j \in DOMAIN rs /\ SubSeq(rs, a, b)[i] = rs[j]
    BY <1>3, <1>5
  <1>7. \E n \in Nat : /\ n > 0 /\ DOMAIN SubSeq(rs, a, b) = 1..n
                       /\ \A i \in 1..n : \E j \in a..b : j \in DOMAIN rs /\ SubSeq(rs, a, b)[i] = rs[j]
    BY <1>3, <1>4, <1>6
  <1> QED
    BY <1>1, <1>7 DEF a, b

\* The span over a range, and the record that stands for it.
LEMMA SpanOfTrue ==
    ASSUME NEW p, NEW rs, IsList(rs), \A i \in DOMAIN rs : RecordTrue(p, rs[i]),
           NEW range, range[1] \in 1..Len(rs), range[2] \in 1..Len(rs), range[1] <= range[2],
           NEW k \in Nat, NEW shown, NEW reply, reply \subseteq Nat, reply # {}, NEW t \in Nat
    PROVE  LET span == SpanOf(k, Covered(rs, range), shown, TagsGiven, reply, t) IN
           /\ span.id = SpanId(k) /\ SpanTrue(p, span)
           /\ Range(span.sources) \subseteq {rs[j].id : j \in (range[1]..range[2]) \cap DOMAIN rs}
           /\ LET r == Synthetic(span, Covered(rs, range)) IN
              r.id = SpanId(k) /\ r.at = t /\ r.id \in Nat /\ Footprint(r) \in Nat
  <1> DEFINE c == Covered(rs, range)
             src == [i \in DOMAIN c |-> c[i].id]
             span == SpanOf(k, c, shown, TagsGiven, reply, t)
             ats == {c[i].at : i \in DOMAIN c}
             r == Synthetic(span, c)
  <1>1. PICK n \in Nat :
             /\ n > 0 /\ DOMAIN c = 1..n
             /\ \A i \in 1..n : \E j \in range[1]..range[2] : j \in DOMAIN rs /\ c[i] = rs[j]
    BY CoveredIs
  <1> HIDE DEF c
  <1>2. SpanBase \in Nat
    BY CompactionAssumption
  <1>3. SpanId(k) \in Nat
    BY <1>2 DEF SpanId
  <1>4. /\ span.id = SpanId(k) /\ span.sources = src /\ span.retention = InheritRetention(src, TagsGiven)
        /\ span.deadline = Min(ats) /\ span.created = t /\ span.sumLen = CHOOSE x \in reply : TRUE
    BY DEF SpanOf, SourceDeadline
  <1>5. ats \in SUBSET Nat /\ ats # {}
    <2>1. ASSUME NEW i \in DOMAIN c
          PROVE  c[i].at \in Nat
      <3>1. PICK j \in DOMAIN rs : c[i] = rs[j]
        BY <1>1
      <3> QED
        BY <3>1 DEF RecordTrue
    <2>2. 1 \in DOMAIN c
      BY <1>1
    <2> QED
      BY <2>1, <2>2
  <1>6. Min(ats) \in Nat /\ \A i \in DOMAIN c : Min(ats) <= c[i].at
    <2>1. \A i \in DOMAIN c : c[i].at \in ats
      OBVIOUS
    <2> HIDE DEF ats
    <2> QED
      BY <1>5, <2>1, LeastIs
  <1>7. src = [i \in 1..n |-> src[i]]
    BY <1>1
  <1>8. /\ InheritRetention(src, TagsGiven) \in Range(Classes)
        /\ \A i \in 1..n : Restrictiveness(GetTag(TagsGiven, src[i]))
                            <= Restrictiveness(InheritRetention(src, TagsGiven))
    <2> HIDE DEF src
    <2> QED
      BY <1>1, <1>7, InheritsStrictest
  <1>9. DOMAIN src = 1..n /\ \A i \in 1..n : src[i] = c[i].id
    BY <1>1
  <1> HIDE DEF src, ats
  <1>10. Range(src) \subseteq {rs[j].id : j \in (range[1]..range[2]) \cap DOMAIN rs}
    <2> SUFFICES ASSUME NEW x \in Range(src)
                 PROVE  x \in {rs[j].id : j \in (range[1]..range[2]) \cap DOMAIN rs}
      OBVIOUS
    <2>1. PICK i \in 1..n : x = c[i].id
      BY <1>9 DEF Range
    <2>2. PICK j \in range[1]..range[2] : j \in DOMAIN rs /\ c[i] = rs[j]
      BY <1>1
    <2> QED
      BY <2>1, <2>2
  <1>11. ASSUME NEW i \in DOMAIN p, p[i].id \in Range(src)
         PROVE  /\ Min(ats) <= p[i].at
                /\ Restrictiveness(GetTag(TagsGiven, p[i].id)) <= Restrictiveness(InheritRetention(src, TagsGiven))
    <2>1. PICK a \in 1..n : p[i].id = c[a].id
      BY <1>9, <1>11 DEF Range
    <2>2. PICK j \in DOMAIN rs : c[a] = rs[j]
      BY <1>1
    <2>3. p[i].at = c[a].at
      BY <2>1, <2>2 DEF RecordTrue
    <2>4. p[i].id = src[a]
      BY <1>9, <2>1
    <2> QED
      BY <1>1, <1>6, <1>8, <2>3, <2>4
  <1>12. SpanTrue(p, span)
    <2> HIDE DEF span
    <2> QED
      BY <1>3, <1>4, <1>6, <1>8, <1>11 DEF SpanTrue
  <1>13. r.id = span.id /\ r.at = span.created /\ r.sumLen = span.sumLen /\ r.body.kind = "inline" /\ r.body.size = 0
    BY DEF Synthetic
  <1>14. (CHOOSE x \in reply : TRUE) \in Nat
    OBVIOUS
  <1> HIDE DEF span, r
  <1>15. Footprint(r) \in Nat
    BY <1>4, <1>13, <1>14 DEF Footprint
  <1>16. /\ span.id = SpanId(k) /\ SpanTrue(p, span)
         /\ Range(span.sources) \subseteq {rs[j].id : j \in (range[1]..range[2]) \cap DOMAIN rs}
         /\ r.id = SpanId(k) /\ r.at = t /\ r.id \in Nat /\ Footprint(r) \in Nat
    BY <1>3, <1>4, <1>10, <1>12, <1>13, <1>15
  <1> QED
    BY <1>16 DEF span, r, c

\* A compression whose span ids are new makes a true view.
LEMMA CompressedTrue ==
    ASSUME NEW p, NEW rs, IsList(rs), \A i \in DOMAIN rs : RecordTrue(p, rs[i]),
           \A i, j \in DOMAIN rs : rs[i].id = rs[j].id => i = j,
           NEW ranges, Within(ranges, Len(rs)),
           \A k \in DOMAIN ranges : SpanId(k - 1) \notin Ids(rs) /\ SpanId(k - 1) \notin Ids(p),
           rs # <<>> => SpanId(0) \notin Ids(p),
           NEW chained, NEW reply, reply \subseteq Nat, reply # {}, NEW t \in Nat
    PROVE  /\ ViewTrue(p, Compressed(rs, ranges, chained, TagsGiven, reply, t))
           /\ Compressed(rs, ranges, chained, TagsGiven, reply, t).tombstones = {}
  <1> DEFINE v == Compressed(rs, ranges, chained, TagsGiven, reply, t)
             SpanAt(k) == SpanOf(k - 1, Covered(rs, ranges[k]), Shown(rs, ranges, chained, k), TagsGiven, reply, t)
             spans == [k \in DOMAIN ranges |-> SpanAt(k)]
             S == {i \in DOMAIN rs : \A k \in InRange(ranges, i) : i = ranges[k][1]}
             f == InOrder(S)
             n == Cardinality(S)
             N == Len(rs)
             m == Len(ranges)
             recs == ViewRecords(rs, ranges, spans)
  <1>1. N \in Nat /\ DOMAIN rs = 1..N /\ m \in Nat /\ DOMAIN ranges = 1..m
    BY ListHas DEF Within
  <1>2. /\ v = [records |-> recs, spans |-> spans, tombstones |-> {}, tags |-> TagsGiven]
        /\ v = [records |-> v.records, spans |-> v.spans, tombstones |-> v.tombstones, tags |-> v.tags]
        /\ v.records = recs /\ v.spans = spans /\ v.tombstones = {}
    BY DEF Compressed
  <1>3. ASSUME NEW k \in 1..m
        PROVE  /\ k - 1 \in Nat /\ SpanAt(k).id = SpanId(k - 1) /\ SpanTrue(p, SpanAt(k))
               /\ Range(SpanAt(k).sources) \subseteq {rs[j].id : j \in (ranges[k][1]..ranges[k][2]) \cap DOMAIN rs}
               /\ LET r == Synthetic(SpanAt(k), Covered(rs, ranges[k])) IN
                  r.id = SpanId(k - 1) /\ RecordTrue(p, r)
    <2> DEFINE r == Synthetic(SpanAt(k), Covered(rs, ranges[k]))
    <2>1. /\ ranges[k][1] \in 1..N /\ ranges[k][2] \in 1..N /\ ranges[k][1] <= ranges[k][2] /\ k - 1 \in Nat
      BY <1>1 DEF Within
    <2>2. /\ SpanAt(k).id = SpanId(k - 1) /\ SpanTrue(p, SpanAt(k))
          /\ Range(SpanAt(k).sources) \subseteq {rs[j].id : j \in (ranges[k][1]..ranges[k][2]) \cap DOMAIN rs}
          /\ r.id = SpanId(k - 1) /\ r.at = t /\ r.id \in Nat /\ Footprint(r) \in Nat
      BY <2>1, SpanOfTrue
    <2>3. SpanId(k - 1) \notin Ids(p)
      BY <1>1
    <2> HIDE DEF r
    <2>4. RecordTrue(p, r)
      BY <2>2, <2>3 DEF RecordTrue, Ids
    <2> QED
      BY <2>1, <2>2, <2>4 DEF r
  <1>4. spans = [k \in 1..m |-> spans[k]] /\ \A k \in 1..m : spans[k] = SpanAt(k)
    BY <1>1
  <1> HIDE DEF SpanAt, spans
  <1>5. IsList(spans) /\ DOMAIN spans = 1..m
    BY <1>1, <1>4, ListIs
  <1>6. IsFiniteSet(Range(spans))
    <2>1. Range(spans) = {spans[k] : k \in 1..m}
      BY <1>5 DEF Range
    <2>2. IsFiniteSet(1..m)
      BY <1>1, FS_Interval
    <2>3. spans \in Surjection(1..m, Range(spans))
      <3>1. spans \in [1..m -> Range(spans)]
        BY <1>4, <2>1
      <3> QED
        BY <2>1, <3>1 DEF Surjection
    <2> QED
      BY <2>2, <2>3, FS_Surjection
  <1>7. S \in SUBSET Nat /\ IsFiniteSet(S) /\ S \subseteq 1..N
    <2>1. S \subseteq 1..N
      BY <1>1
    <2>2. IsFiniteSet(1..N)
      BY <1>1, FS_Interval
    <2> HIDE DEF S
    <2>3. IsFiniteSet(S)
      BY <2>1, <2>2, FS_Subset
    <2> QED
      BY <2>1, <2>3
  <1>8. /\ n \in Nat /\ f \in [1..n -> S]
    <2> HIDE DEF S
    <2> QED
      BY <1>7, InOrderIs
  <1> DEFINE At(i) == IF InRange(ranges, i) = {} THEN rs[i]
                      ELSE LET k == CHOOSE k \in InRange(ranges, i) : TRUE
                           IN  Synthetic(spans[k], Covered(rs, ranges[k]))
  <1>9. recs = [a \in 1..n |-> At(f[a])]
    <2>1. DOMAIN f = 1..n
      BY <1>8
    <2>2. recs = [a \in DOMAIN f |-> At(f[a])]
      BY DEF ViewRecords
    <2> QED
      BY <2>1, <2>2
  <1>10. ASSUME NEW i \in 1..N
         PROVE  \/ InRange(ranges, i) = {} /\ At(i) = rs[i]
                \/ \E k \in 1..m : At(i) = Synthetic(spans[k], Covered(rs, ranges[k]))
    <2>1. CASE InRange(ranges, i) = {}
      BY <2>1
    <2>2. CASE InRange(ranges, i) # {}
      <3>1. InRange(ranges, i) \subseteq 1..m
        BY <1>1 DEF InRange
      <3>2. (CHOOSE k \in InRange(ranges, i) : TRUE) \in 1..m
        BY <2>2, <3>1
      <3> QED
        BY <2>2, <3>2
    <2> QED
      BY <2>1, <2>2
  <1> HIDE DEF At, recs, S, n, f
  <1>11. recs = [a \in 1..n |-> recs[a]] /\ \A a \in 1..n : recs[a] = At(f[a]) /\ f[a] \in 1..N
    BY <1>7, <1>8, <1>9
  <1>12. IsList(recs) /\ Len(recs) = n /\ DOMAIN recs = 1..n
    BY <1>8, <1>11, ListIs
  <1>13. ASSUME NEW a \in 1..n
         PROVE  /\ RecordTrue(p, recs[a])
                /\ \/ \E k \in 1..m : recs[a].id = SpanId(k - 1)
                   \/ \E i \in DOMAIN rs : recs[a].id = rs[i].id /\ InRange(ranges, i) = {}
    <2>1. f[a] \in 1..N /\ f[a] \in DOMAIN rs /\ recs[a] = At(f[a])
      BY <1>1, <1>11
    <2>2. CASE InRange(ranges, f[a]) = {} /\ At(f[a]) = rs[f[a]]
      BY <2>1, <2>2
    <2>3. CASE \E k \in 1..m : At(f[a]) = Synthetic(spans[k], Covered(rs, ranges[k]))
      <3>1. PICK k \in 1..m : At(f[a]) = Synthetic(spans[k], Covered(rs, ranges[k]))
        BY <2>3
      <3>2. At(f[a]) = Synthetic(SpanAt(k), Covered(rs, ranges[k]))
        BY <1>4, <3>1
      <3>3. At(f[a]).id = SpanId(k - 1) /\ RecordTrue(p, At(f[a]))
        BY <1>3, <3>2
      <3> QED
        BY <2>1, <3>3
    <2> QED
      BY <1>10, <2>1, <2>2, <2>3
  <1>14. ASSUME NEW s \in Range(spans)
         PROVE  \E k \in 1..m : /\ s.id = SpanId(k - 1) /\ SpanTrue(p, s)
                                /\ Range(s.sources) \subseteq {rs[j].id : j \in (ranges[k][1]..ranges[k][2]) \cap DOMAIN rs}
    <2>1. PICK k \in 1..m : s = SpanAt(k)
      BY <1>4, <1>5 DEF Range
    <2> QED
      BY <1>3, <2>1
  <1>15. ASSUME NEW s \in Range(spans), NEW u \in Range(spans), NEW x \in Range(s.sources)
         PROVE  x \notin Ids(recs) /\ x # u.id
    <2>1. PICK k \in 1..m : Range(s.sources) \subseteq {rs[j].id : j \in (ranges[k][1]..ranges[k][2]) \cap DOMAIN rs}
      BY <1>14
    <2>2. PICK j \in (ranges[k][1]..ranges[k][2]) \cap DOMAIN rs : x = rs[j].id
      BY <1>15, <2>1
    <2>3. \A l \in 1..m : x # SpanId(l - 1)
      BY <1>1, <2>2 DEF Ids
    <2>4. x # u.id
      BY <1>14, <2>3
    <2>5. ASSUME NEW a \in 1..n, recs[a].id = x
          PROVE  FALSE
      <3>1. PICK i \in DOMAIN rs : rs[i].id = x /\ InRange(ranges, i) = {}
        BY <1>13, <2>3, <2>5
      <3>2. i = j
        BY <2>2, <3>1
      <3>3. k \in InRange(ranges, j)
        BY <1>1, <2>2 DEF InRange
      <3> QED
        BY <3>1, <3>2, <3>3
    <2> QED
      BY <1>12, <2>4, <2>5 DEF Ids
  <1>16. \A s, u \in Range(spans) : Range(s.sources) \cap (Ids(recs) \cup {u.id}) = {}
    BY <1>15
  <1>17. ASSUME recs # <<>>
         PROVE  SpanId(0) \notin Ids(p)
    <2>1. n # 0
      BY <1>8, <1>11, <1>17
    <2>2. 1 \in 1..n /\ f[1] \in 1..N
      BY <1>8, <1>11, <2>1
    <2>3. rs # <<>>
      BY <1>1, <2>2
    <2> QED
      BY <2>3
  <1>18. ImageTrue(p, recs, Range(spans))
    BY <1>6, <1>12, <1>13, <1>14, <1>16, <1>17 DEF ImageTrue
  <1> HIDE DEF v
  <1>19. ViewTrue(p, v)
    BY <1>2, <1>5, <1>18 DEF ViewTrue
  <1> QED
    BY <1>2, <1>19 DEF v

\* What a recursion over 1..n defines.
Recurs(f, n, V, a, F) ==
    f \in [0..n -> V] /\ f[0] = a /\ \A i \in 1..n : f[i] = F[i][f[i - 1]]

\* Such a function exists for every n.
LEMMA Recursion ==
    ASSUME NEW n \in Nat, NEW V, NEW a \in V, NEW F \in [1..n -> [V -> V]]
    PROVE  \E f : Recurs(f, n, V, a, F)
  <1> DEFINE Sat(f, m) == f \in [0..m -> V] /\ f = [i \in 0..m |-> IF i = 0 THEN a ELSE F[i][f[i - 1]]]
             Bad == {m \in 0..n : ~ \E f : Sat(f, m)}
  <1>1. Bad = {}
    <2> SUFFICES ASSUME Bad # {}
                 PROVE  FALSE
      OBVIOUS
    <2>1. PICK m \in Bad : \A x \in Bad : m <= x
      <3>1. Bad \in SUBSET Nat
        OBVIOUS
      <3> HIDE DEF Bad
      <3> QED
        BY <3>1, LeastNatural
    <2>2. m # 0
      <3> DEFINE g == [i \in 0..0 |-> a]
      <3>1. Sat(g, 0)
        OBVIOUS
      <3> QED
        BY <2>1, <3>1
    <2>3. m \in 1..n /\ m - 1 \in 0..n /\ m - 1 \notin Bad
      <3>1. m \in 0..n
        BY <2>1
      <3>2. m \in 1..n /\ m - 1 \in 0..n /\ ~(m <= m - 1)
        BY <2>2, <3>1
      <3> HIDE DEF Bad
      <3> QED
        BY <2>1, <3>2
    <2>4. PICK f : Sat(f, m - 1)
      BY <2>3
    <2> DEFINE g == [i \in 0..m |-> IF i = m THEN F[m][f[m - 1]] ELSE f[i]]
    <2>5. F[m][f[m - 1]] \in V /\ \A i \in 0..(m - 1) : f[i] \in V
      <3>1. \A i \in 0..(m - 1) : f[i] \in V
        BY <2>4
      <3>2. F[m] \in [V -> V] /\ m - 1 \in 0..(m - 1)
        BY <2>3
      <3> QED
        BY <3>1, <3>2
    <2>6. ASSUME NEW i \in 0..m
          PROVE  g[i] \in V /\ g[i] = IF i = 0 THEN a ELSE F[i][g[i - 1]]
      <3>1. CASE i = m
        BY <2>2, <2>3, <2>5, <3>1
      <3>2. CASE i # m
        <4>1. i \in 0..(m - 1) /\ g[i] = f[i] /\ (i # 0 => g[i - 1] = f[i - 1])
          BY <2>3, <3>2
        <4>2. f[i] = IF i = 0 THEN a ELSE F[i][f[i - 1]]
          BY <2>4, <4>1
        <4> QED
          BY <2>5, <4>1, <4>2
      <3> QED
        BY <3>1, <3>2
    <2>7. Sat(g, m)
      <3>1. g = [i \in 0..m |-> g[i]]
        OBVIOUS
      <3> HIDE DEF g
      <3>2. g \in [0..m -> V]
        BY <2>6, <3>1
      <3>3. g = [i \in 0..m |-> IF i = 0 THEN a ELSE F[i][g[i - 1]]]
        BY <2>6, <3>1
      <3> QED
        BY <3>2, <3>3
    <2> QED
      BY <2>1, <2>7
  <1>2. PICK f : Sat(f, n)
    <2>1. n \in 0..n
      OBVIOUS
    <2> QED
      BY <1>1, <2>1
  <1>3. f[0] = a
    BY <1>2
  <1>4. ASSUME NEW i \in 1..n
        PROVE  f[i] = F[i][f[i - 1]]
    BY <1>2
  <1> QED
    BY <1>2, <1>3, <1>4 DEF Recurs

\* What the newest records weigh, one record at a time.
LEMMA NewestBytesAre ==
    ASSUME NEW rs, IsList(rs), \A i \in DOMAIN rs : Footprint(rs[i]) \in Nat
    PROVE  \A n \in 0..Len(rs) :
             /\ NewestBytes(rs)[n] \in Nat
             /\ n > 0 => NewestBytes(rs)[n] = NewestBytes(rs)[n - 1] + Footprint(rs[Len(rs) + 1 - n])
  <1> DEFINE N == Len(rs)
             F == [n \in 1..N |-> [x \in Nat |-> x + Footprint(rs[N + 1 - n])]]
             Sat(f) == f = [n \in 0..N |-> IF n = 0 THEN 0 ELSE f[n - 1] + Footprint(rs[N + 1 - n])]
  <1>1. N \in Nat /\ DOMAIN rs = 1..N
    BY ListHas
  <1>2. \A i \in 1..N : N + 1 - i \in 1..N
    BY <1>1
  <1>3. F \in [1..N -> [Nat -> Nat]]
    <2> SUFFICES \A n \in 1..N, x \in Nat : x + Footprint(rs[N + 1 - n]) \in Nat
      OBVIOUS
    <2> TAKE n \in 1..N, x \in Nat
    <2>1. Footprint(rs[N + 1 - n]) \in Nat
      BY <1>1, <1>2
    <2> QED
      BY <2>1
  <1>4. \A y \in Nat, n \in 1..N : F[n][y] = y + Footprint(rs[N + 1 - n])
    OBVIOUS
  <1> HIDE DEF F, N
  <1>5. PICK f \in [0..N -> Nat] : f[0] = 0 /\ \A n \in 1..N : f[n] = F[n][f[n - 1]]
    <2>1. \E f : Recurs(f, N, Nat, 0, F)
      BY <1>1, <1>3, Recursion
    <2> QED
      BY <2>1 DEF Recurs
  <1>6. Sat(f)
    <2>1. ASSUME NEW n \in 0..N
          PROVE  f[n] = IF n = 0 THEN 0 ELSE f[n - 1] + Footprint(rs[N + 1 - n])
      <3>1. CASE n = 0
        BY <1>5, <3>1
      <3>2. CASE n # 0
        <4>1. n \in 1..N /\ n - 1 \in 0..N
          BY <1>1, <3>2
        <4>2. f[n - 1] \in Nat
          BY <1>5, <4>1
        <4>3. f[n] = F[n][f[n - 1]]
          BY <1>5, <4>1
        <4> QED
          BY <1>4, <3>2, <4>1, <4>2, <4>3
      <3> QED
        BY <3>1, <3>2
    <2>2. f = [n \in 0..N |-> f[n]]
      BY <1>5
    <2> QED
      BY <2>1, <2>2
  <1>7. Sat(NewestBytes(rs))
    <2>1. NewestBytes(rs) = CHOOSE g : Sat(g)
      BY DEF NewestBytes, N
    <2> HIDE DEF Sat
    <2> QED
      BY <1>6, <2>1
  <1> DEFINE g == NewestBytes(rs)
             Bad == {n \in 0..N : g[n] \notin Nat}
  <1>8. \A n \in 0..N : g[n] = IF n = 0 THEN 0 ELSE g[n - 1] + Footprint(rs[N + 1 - n])
    <2> HIDE DEF g
    <2> QED
      BY <1>7 DEF g
  <1> HIDE DEF g
  <1>9. Bad = {}
    <2> SUFFICES ASSUME Bad # {}
                 PROVE  FALSE
      OBVIOUS
    <2>1. PICK m \in Bad : \A x \in Bad : m <= x
      <3>1. Bad \in SUBSET Nat
        OBVIOUS
      <3> HIDE DEF Bad
      <3> QED
        BY <3>1, LeastNatural
    <2>2. m # 0
      BY <1>8, <2>1
    <2>3. m \in 1..N /\ m - 1 \in 0..N /\ m - 1 \notin Bad
      BY <1>1, <2>1, <2>2
    <2>4. g[m - 1] \in Nat
      BY <2>3
    <2>5. Footprint(rs[N + 1 - m]) \in Nat
      BY <1>1, <1>2, <2>3
    <2>6. g[m] = g[m - 1] + Footprint(rs[N + 1 - m])
      BY <1>8, <2>2, <2>3
    <2> QED
      BY <2>1, <2>4, <2>5, <2>6
  <1>10. \A n \in 0..N : g[n] \in Nat /\ (n > 0 => g[n] = g[n - 1] + Footprint(rs[N + 1 - n]))
    BY <1>8, <1>9
  <1> QED
    BY <1>10 DEF g, N

\* With nothing protected the head is a prefix: what is older than a head record
\* is in the head.
LEMMA HeadIsPrefix ==
    ASSUME NEW rs, IsList(rs), \A i \in DOMAIN rs : Footprint(rs[i]) \in Nat, NEW keep \in Nat
    PROVE  \A i \in HeadWindow(rs, keep, {}) : i > 1 => i - 1 \in HeadWindow(rs, keep, {})
  <1> DEFINE N == Len(rs)
             g == NewestBytes(rs)
  <1>1. N \in Nat /\ DOMAIN rs = 1..N /\ MinKeep \in Nat
    BY ListHas, CompactionAssumption
  <1>2. \A n \in 0..N : g[n] \in Nat /\ (n > 0 => g[n] = g[n - 1] + Footprint(rs[N + 1 - n]))
    BY NewestBytesAre
  <1> HIDE DEF N, g
  <1>3. \A i : i \in HeadWindow(rs, keep, {}) <=> i \in 1..N /\ ~(N - i < MinKeep) /\ ~(g[N - i] < keep)
    BY <1>1 DEF HeadWindow, RecentWindow, N, g
  <1> SUFFICES ASSUME NEW i \in 1..N, i > 1, N - i >= MinKeep, ~(g[N - i] < keep)
               PROVE  i - 1 \in 1..N /\ ~(N - (i - 1) < MinKeep) /\ ~(g[N - (i - 1)] < keep)
    BY <1>1, <1>3
  <1>4. i - 1 \in 1..N /\ ~(N - (i - 1) < MinKeep)
    BY <1>1
  <1>5. N - (i - 1) \in 0..N /\ N - (i - 1) > 0 /\ N - (i - 1) - 1 = N - i /\ N - i \in 0..N /\ N + 1 - (N - (i - 1)) = i
    BY <1>1
  <1>6. g[N - (i - 1)] = g[N - i] + Footprint(rs[i]) /\ g[N - i] \in Nat
    BY <1>2, <1>5
  <1>7. Footprint(rs[i]) \in Nat
    BY <1>1
  <1> QED
    BY <1>4, <1>6, <1>7

\* A pass that protects nothing makes at most one run, and it starts at the first record.
LEMMA OneRun ==
    ASSUME NEW rs, IsList(rs), \A i \in DOMAIN rs : Footprint(rs[i]) \in Nat, NEW keep \in Nat
    PROVE  \A k \in DOMAIN HeadRanges(HeadWindow(rs, keep, {})) : k = 1
  <1> DEFINE head == HeadWindow(rs, keep, {})
             r == HeadRanges(head)
  <1>1. Len(rs) \in Nat /\ head \in SUBSET (1..Len(rs))
    <2>1. Len(rs) \in Nat /\ DOMAIN rs = 1..Len(rs)
      BY ListHas
    <2> QED
      BY <2>1 DEF HeadWindow
  <1>2. \A i \in head : i > 1 => i - 1 \in head
    BY HeadIsPrefix
  <1> HIDE DEF head
  <1>3. RunStarts(head) \subseteq {1}
    <2> SUFFICES ASSUME NEW i \in head, i - 1 \notin head
                 PROVE  i = 1
      BY DEF RunStarts
    <2>1. i \in 1..Len(rs)
      BY <1>1
    <2> QED
      BY <1>1, <1>2, <2>1
  <1>4. Len(r) = Cardinality(RunStarts(head)) /\ IsList(r)
    BY <1>1, HeadRangesAre
  <1>5. Cardinality(RunStarts(head)) <= 1
    <2>1. IsFiniteSet({1}) /\ Cardinality({1}) = 1
      BY FS_Singleton
    <2> QED
      BY <1>3, <2>1, FS_Subset
  <1> HIDE DEF r
  <1>6. Len(r) \in Nat /\ DOMAIN r = 1..Len(r)
    BY <1>4, ListHas
  <1>7. \A k \in DOMAIN r : k = 1
    BY <1>4, <1>5, <1>6
  <1> QED
    BY <1>7 DEF r, head

\* The greedy packing opens a span at the first record, and its ranges lie
\* within the records.
LEMMA OpenedAtOnce ==
    ASSUME NEW rs, IsList(rs), rs # <<>>, NEW cap
    PROVE  Opened(rs, cap)[1] = 1
  <1> DEFINE N == Len(rs)
             Used(x, i) == HeadBytes(rs, x..(i - 1))
             Step(i, x) == IF i <= 1 THEN i
                           ELSE IF Used(x, i) > 0 /\ Used(x, i) + Footprint(rs[i]) > cap THEN i ELSE x
             F == [i \in 1..N |-> [x \in 0..N |-> Step(i, x)]]
             Sat(f) == f = [i \in 0..N |-> IF i <= 1 THEN i
                              ELSE LET used == HeadBytes(rs, f[i - 1]..(i - 1)) IN
                                   IF used > 0 /\ used + Footprint(rs[i]) > cap THEN i ELSE f[i - 1]]
  <1>1. N \in Nat /\ N > 0
    BY ListHas
  <1>2. F \in [1..N -> [0..N -> 0..N]]
    <2>1. \A i \in 1..N, x \in 0..N : Step(i, x) \in 0..N
      <3> HIDE DEF Used
      <3> QED
        BY <1>1
    <2> HIDE DEF Step
    <2> QED
      BY <2>1
  <1>3. \A i \in 1..N, x \in 0..N : F[i][x] = Step(i, x)
    <2> HIDE DEF Step
    <2> QED
      OBVIOUS
  <1> HIDE DEF F, N
  <1>4. PICK f : Recurs(f, N, 0..N, 0, F)
    <2>1. 0 \in 0..N
      BY <1>1
    <2> QED
      BY <1>1, <1>2, <2>1, Recursion
  <1>5. f \in [0..N -> 0..N] /\ f[0] = 0 /\ \A i \in 1..N : f[i] = F[i][f[i - 1]]
    BY <1>4 DEF Recurs
  <1>6. ASSUME NEW i \in 0..N
        PROVE  f[i] = IF i <= 1 THEN i ELSE Step(i, f[i - 1])
    <2>1. CASE i = 0
      BY <1>5, <2>1
    <2>2. CASE i # 0
      <3>1. i \in 1..N /\ i - 1 \in 0..N
        BY <1>1, <2>2
      <3>2. f[i - 1] \in 0..N
        BY <1>5, <3>1
      <3>3. f[i] = Step(i, f[i - 1])
        <4> HIDE DEF Step
        <4> QED
          BY <1>3, <1>5, <3>1, <3>2
      <3> HIDE DEF Used
      <3> QED
        BY <3>3
    <2> QED
      BY <2>1, <2>2
  <1>7. Sat(f)
    <2>1. f = [i \in 0..N |-> f[i]]
      BY <1>5
    <2>2. \A i \in 0..N : f[i] = IF i <= 1 THEN i
                              ELSE LET used == HeadBytes(rs, f[i - 1]..(i - 1)) IN
                                   IF used > 0 /\ used + Footprint(rs[i]) > cap THEN i ELSE f[i - 1]
      <3> TAKE i \in 0..N
      <3>1. CASE i <= 1
        BY <1>6, <3>1
      <3>2. CASE ~(i <= 1)
        <4>1. f[i] = Step(i, f[i - 1])
          <5> HIDE DEF Step
          <5> QED
            BY <1>6, <3>2
        <4> QED
          BY <3>2, <4>1
      <3> QED
        BY <3>1, <3>2
    <2> QED
      BY <2>1, <2>2
  <1>8. Sat(Opened(rs, cap))
    <2>1. Opened(rs, cap) = CHOOSE g : Sat(g)
      BY DEF Opened, N
    <2> HIDE DEF Sat
    <2> QED
      BY <1>7, <2>1
  <1>9. 1 \in 0..N
    BY <1>1
  <1> QED
    BY <1>8, <1>9

\* The ranges between the spans the packing opens.
LEMMA BreakpointsAre ==
    ASSUME NEW rs, IsList(rs), NEW tokens
    PROVE  /\ Within(SelectBreakpoints(rs, tokens), Len(rs))
           /\ rs # <<>> => 1 \in DOMAIN SelectBreakpoints(rs, tokens)
  <1> DEFINE N == Len(rs)
             open == Opened(rs, EffectiveSpanBytes(tokens))
             S == {i \in DOMAIN rs : open[i] = i}
             f == InOrder(S)
             m == Cardinality(S)
             r == SelectBreakpoints(rs, tokens)
  <1>1. N \in Nat /\ DOMAIN rs = 1..N
    BY ListHas
  <1>2. rs # <<>> => open[1] = 1
    BY OpenedAtOnce
  <1> HIDE DEF open
  <1>3. S \in SUBSET Nat /\ S \subseteq 1..N /\ IsFiniteSet(S)
    <2>1. S \subseteq 1..N
      BY <1>1
    <2>2. IsFiniteSet(1..N)
      BY <1>1, FS_Interval
    <2> HIDE DEF S
    <2>3. IsFiniteSet(S)
      BY <2>1, <2>2, FS_Subset
    <2> QED
      BY <2>1, <2>3
  <1>4. rs # <<>> => 1 \in S
    <2>1. rs # <<>> => N > 0
      BY <1>1 DEF IsList
    <2> QED
      BY <1>1, <1>2, <2>1
  <1>5. /\ m \in Nat /\ f \in [1..m -> S]
        /\ \A j, k \in 1..m : j < k => f[j] < f[k]
        /\ \A i \in S : \E k \in 1..m : f[k] = i
    <2> HIDE DEF S
    <2> QED
      BY <1>3, InOrderIs
  <1>6. Len(f) = m /\ DOMAIN f = 1..m
    <2>1. f = [k \in 1..m |-> f[k]]
      BY <1>5
    <2> HIDE DEF f, m
    <2> QED
      BY <1>5, <2>1, ListIs
  <1>7. r = [k \in 1..m |-> <<f[k], IF k = m THEN N ELSE f[k + 1] - 1>>]
    <2>1. r = [k \in DOMAIN f |-> <<f[k], IF k = Len(f) THEN N ELSE f[k + 1] - 1>>]
      BY DEF SelectBreakpoints, open
    <2> HIDE DEF f, m, r
    <2> QED
      BY <1>6, <2>1
  <1> HIDE DEF S, f, m, r
  <1>8. r = [k \in 1..m |-> r[k]]
    BY <1>7
  <1>9. IsList(r) /\ Len(r) = m /\ DOMAIN r = 1..m
    BY <1>5, <1>8, ListIs
  <1>10. ASSUME NEW k \in 1..m
         PROVE  r[k][1] \in 1..N /\ r[k][2] \in 1..N /\ r[k][1] <= r[k][2]
    <2>1. r[k] = <<f[k], IF k = m THEN N ELSE f[k + 1] - 1>>
      BY <1>7
    <2>2. f[k] \in 1..N
      BY <1>3, <1>5
    <2>3. CASE k = m
      BY <1>1, <2>1, <2>2, <2>3
    <2>4. CASE k # m
      <3>1. k + 1 \in 1..m /\ k < k + 1
        BY <1>5, <2>4
      <3>2. f[k + 1] \in 1..N /\ f[k] < f[k + 1]
        BY <1>3, <1>5, <3>1
      <3> QED
        BY <1>1, <2>1, <2>2, <2>4, <3>2
    <2> QED
      BY <2>3, <2>4
  <1>11. Within(r, N)
    BY <1>9, <1>10 DEF Within
  <1>12. rs # <<>> => 1 \in DOMAIN r
    <2> SUFFICES ASSUME rs # <<>>
                 PROVE  1 \in 1..m
      BY <1>9
    <2>1. PICK k \in 1..m : f[k] = 1
      BY <1>4, <1>5
    <2> QED
      BY <1>5, <2>1
  <1> QED
    BY <1>11, <1>12 DEF r, N

\* What the checks of a compression and of a window leave.
LEMMA CompressAdmits ==
    ASSUME NEW rs, IsList(rs), NEW ranges, NEW gen, CompressVerdict(rs, ranges, gen) = "ok"
    PROVE  \A k \in DOMAIN ranges : SpanId(k - 1) \notin Ids(rs)
  <1>1. InvalidRecord(rs) # {} => RecordVerdict(rs[Min(InvalidRecord(rs))]) # "ok"
    <2> SUFFICES ASSUME InvalidRecord(rs) # {}
                 PROVE  RecordVerdict(rs[Min(InvalidRecord(rs))]) # "ok"
      OBVIOUS
    <2>1. InvalidRecord(rs) \in SUBSET Nat
      BY ListHas DEF InvalidRecord
    <2>2. Min(InvalidRecord(rs)) \in InvalidRecord(rs)
      BY <2>1, LeastIs
    <2> QED
      BY <2>2 DEF InvalidRecord
  <1> DEFINE A == Len(rs) > MaxRecords
             B == InvalidRecord(rs) # {}
             R == RangesVerdict(Len(rs), ranges)
             G == \E i \in DOMAIN ranges, g \in gen :
                    \E j \in ranges[i][1]..ranges[i][2] : rs[j].generation # g
             D == \E k \in DOMAIN ranges : SpanId(k - 1) \in Ids(rs)
             x == RecordVerdict(rs[Min(InvalidRecord(rs))])
  <1>2. CompressVerdict(rs, ranges, gen)
          = IF A THEN "TooManyRecords" ELSE IF B THEN x ELSE IF R # "ok" THEN R
            ELSE IF G THEN "StaleGeneration" ELSE IF D THEN "DuplicateId" ELSE "ok"
    BY DEF CompressVerdict
  <1>3. B => x # "ok"
    BY <1>1
  <1> HIDE DEF A, B, R, G, D, x
  <1>4. ~D
    BY <1>2, <1>3
  <1> QED
    BY <1>4 DEF D

\* An admitted window has no invalid record, no id twice and one generation.
LEMMA WindowAdmits ==
    ASSUME NEW rs, IsList(rs), NEW gen, WindowVerdict(rs, gen) = "ok"
    PROVE  /\ ~(Len(rs) > MaxRecords) /\ InvalidRecord(rs) = {}
           /\ \A i, j \in DOMAIN rs : rs[i].id = rs[j].id => i = j
           /\ \A i \in DOMAIN rs, g \in gen : rs[i].generation = g
  <1>1. InvalidRecord(rs) # {} => RecordVerdict(rs[Min(InvalidRecord(rs))]) # "ok"
    <2> SUFFICES ASSUME InvalidRecord(rs) # {}
                 PROVE  RecordVerdict(rs[Min(InvalidRecord(rs))]) # "ok"
      OBVIOUS
    <2>1. InvalidRecord(rs) \in SUBSET Nat
      BY ListHas DEF InvalidRecord
    <2>2. Min(InvalidRecord(rs)) \in InvalidRecord(rs)
      BY <2>1, LeastIs
    <2> QED
      BY <2>2 DEF InvalidRecord
  <1> DEFINE A == Len(rs) > MaxRecords
             B == InvalidRecord(rs) # {}
             D == \E i, j \in DOMAIN rs : i # j /\ rs[i].id = rs[j].id
             G == \E i \in DOMAIN rs, g \in gen : rs[i].generation # g
             x == RecordVerdict(rs[Min(InvalidRecord(rs))])
  <1>2. WindowVerdict(rs, gen)
          = IF A THEN "TooManyRecords" ELSE IF B THEN x
            ELSE IF D THEN "DuplicateRecordId" ELSE IF G THEN "StaleGeneration" ELSE "ok"
    BY DEF WindowVerdict
  <1>3. B => x # "ok"
    BY <1>1
  <1> HIDE DEF A, B, D, G, x
  <1>4. ~A /\ ~B /\ ~D /\ ~G
    BY <1>2, <1>3
  <1> QED
    BY <1>4 DEF A, B, D, G

\* What is older than the recent window is among the records.
LEMMA HeadIsWithin ==
    ASSUME NEW rs, IsList(rs), NEW keep, NEW protected
    PROVE  Len(rs) \in Nat /\ HeadWindow(rs, keep, protected) \in SUBSET (1..Len(rs))
  BY ListHas DEF HeadWindow

\* Once the window is admitted only a clash of ids or too many runs refuses its ranges.
LEMMA RangesAdmitted ==
    ASSUME NEW rs, IsList(rs), NEW gen, WindowVerdict(rs, gen) = "ok", NEW keep, NEW protected,
           ~(Len(HeadRanges(HeadWindow(rs, keep, protected))) > MaxSpans),
           ~ \E k \in 0..(MaxSpans - 1) : SpanId(k) \in Ids(rs)
    PROVE  CompressVerdict(rs, HeadRanges(HeadWindow(rs, keep, protected)), gen) = "ok"
  <1> DEFINE N == Len(rs)
             r == HeadRanges(HeadWindow(rs, keep, protected))
  <1>1. /\ ~(N > MaxRecords) /\ InvalidRecord(rs) = {}
        /\ \A i \in DOMAIN rs, g \in gen : rs[i].generation = g
    BY WindowAdmits
  <1>2. /\ Within(r, N) /\ IsList(r)
        /\ \A k \in DOMAIN r : k > 1 => r[k][1] > r[k - 1][2]
    BY HeadIsWithin, HeadRangesAre
  <1>3. N \in Nat /\ DOMAIN rs = 1..N /\ Len(r) \in Nat /\ DOMAIN r = 1..Len(r) /\ MaxSpans \in Nat
    BY <1>2, ListHas, CompactionAssumption
  <1> HIDE DEF r
  <1>4. ~(Len(r) > MaxSpans)
    BY DEF r
  <1>5. ASSUME NEW i \in DOMAIN r
        PROVE  /\ r[i][1] \in 1..N /\ r[i][2] \in 1..N
               /\ ~(r[i][1] > r[i][2]) /\ ~(r[i][2] > N) /\ ~(i > 1 /\ r[i][1] <= r[i - 1][2])
    <2>1. r[i][1] \in 1..N /\ r[i][2] \in 1..N /\ r[i][1] <= r[i][2]
      BY <1>2 DEF Within
    <2>2. ASSUME i > 1
          PROVE  ~(r[i][1] <= r[i - 1][2])
      <3>1. i - 1 \in DOMAIN r
        BY <1>3, <2>2
      <3>2. r[i - 1][2] \in 1..N /\ r[i][1] > r[i - 1][2]
        BY <1>2, <2>2, <3>1 DEF Within
      <3> QED
        BY <2>1, <3>2
    <2> QED
      BY <1>3, <2>1, <2>2
  <1>6. RangesVerdict(N, r) = "ok"
    BY <1>4, <1>5 DEF RangesVerdict
  <1>7. ~ \E i \in DOMAIN r, g \in gen : \E j \in r[i][1]..r[i][2] : rs[j].generation # g
    <2> SUFFICES ASSUME NEW i \in DOMAIN r, NEW g \in gen, NEW j \in r[i][1]..r[i][2]
                 PROVE  rs[j].generation = g
      OBVIOUS
    <2>1. j \in DOMAIN rs
      BY <1>3, <1>5
    <2> QED
      BY <1>1, <2>1
  <1>8. ~ \E k \in DOMAIN r : SpanId(k - 1) \in Ids(rs)
    <2> SUFFICES ASSUME NEW k \in DOMAIN r
                 PROVE  SpanId(k - 1) \notin Ids(rs)
      OBVIOUS
    <2>1. k - 1 \in 0..(MaxSpans - 1)
      BY <1>3, <1>4
    <2> QED
      BY <2>1
  <1>9. CompressVerdict(rs, r, gen) = "ok"
    BY <1>1, <1>6, <1>7, <1>8 DEF CompressVerdict
  <1> QED
    BY <1>9 DEF r

\* What a pass says before it starts, it does.
LEMMA PassIsHonest ==
    ASSUME NEW rs, IsList(rs), NEW p, NEW protected, NEW gen, NEW seed, NEW reply,
           Compact(rs, p, protected, gen, seed, reply)
    PROVE  PreviewHonest'
  <1> DEFINE head == HeadWindow(rs, p.keep, protected)
             ranges == HeadRanges(head)
             W == WindowVerdict(rs, gen) = "ok"
             E == head = {}
             L == \E n \in seed : n > MaxSummary
             D == Doomed(rs, head, p.window)
             C == CompressVerdict(rs, ranges, gen) = "ok"
             M == SummaryVerdict(reply) = "ok"
             clash == \E k \in 0..(MaxSpans - 1) : SpanId(k) \in Ids(rs)
             outcome == CompactOutcome(rs, p, protected, gen, seed, reply)
             preview == PreviewCompaction(rs, p, protected, gen)
  <1>1. /\ pass'.preview = preview /\ pass'.outcome = outcome /\ pass'.policy = PolicyVerdict(p)
        /\ pass'.reply = reply /\ pass'.seed = seed /\ pass'.runs = Len(ranges) /\ pass'.clash = clash
    BY DEF Compact
  <1>2. outcome = IF ~W THEN "Failed" ELSE IF E THEN "NoOp" ELSE IF L THEN "Failed" ELSE IF D THEN "Failed"
                  ELSE IF ~C THEN "Failed" ELSE IF ~M THEN "Failed" ELSE "Compacted"
    BY DEF CompactOutcome
  <1>3. PolicyVerdict(p) = "ok" =>
        preview = IF ~W THEN "Failed" ELSE IF E THEN "NoOp" ELSE IF D THEN "Failed" ELSE "WouldCompact"
    BY DEF PreviewCompaction
  <1>4. W /\ ~clash /\ ~(Len(ranges) > MaxSpans) => C
    BY RangesAdmitted
  <1>5. PreviewHonest' = (pass'.policy = "ok" =>
          /\ pass'.preview = "NoOp" <=> pass'.outcome = "NoOp"
          /\ pass'.preview = "Failed" => pass'.outcome = "Failed"
          /\ pass'.preview = "WouldCompact" =>
               \/ pass'.outcome = "Compacted"
               \/ SummaryVerdict(pass'.reply) # "ok" \/ \E n \in pass'.seed : n > MaxSummary
               \/ pass'.clash \/ pass'.runs > MaxSpans)
    BY DEF PreviewHonest, SummaryVerdict
  <1> DEFINE T == pass'.runs > MaxSpans
             Q == pass'.clash
  <1>6. (T <=> Len(ranges) > MaxSpans) /\ (Q <=> clash)
    BY <1>1
  <1>7. (\E n \in pass'.seed : n > MaxSummary) <=> L
    BY <1>1
  <1>8. SummaryVerdict(pass'.reply) = "ok" <=> M
    BY <1>1
  <1> HIDE DEF W, E, L, D, C, M, clash, outcome, preview, ranges, head, T, Q
  <1>9. ASSUME pass'.policy = "ok"
        PROVE  /\ pass'.preview = "NoOp" <=> pass'.outcome = "NoOp"
               /\ pass'.preview = "Failed" => pass'.outcome = "Failed"
               /\ pass'.preview = "WouldCompact" => pass'.outcome = "Compacted" \/ ~M \/ L \/ Q \/ T
    BY <1>1, <1>2, <1>3, <1>4, <1>6, <1>9
  <1> QED
    BY <1>5, <1>7, <1>8, <1>9 DEF T, Q

\* What the tombstones of a view took is out of it.
Forgotten(v) ==
    /\ \A s \in Range(v.spans) : ~Hit(s, v.tombstones)
    /\ Ids(v.records) \cap v.tombstones = {}

\* No span of a view covers a record whose time is over.
Young(p, v, t) ==
    \A s \in Range(v.spans) : \A i \in DOMAIN p :
      p[i].id \in Range(s.sources) => ~Over(GetTag(TagsGiven, p[i].id), p[i].at, t)

\* A view is true of the collected records, keeps nothing its tombstones took
\* and nothing a sweep found too old; and so is the image a crash leaves.
CompactionInv ==
    /\ pool \in Pools /\ clock \in Nat /\ swept \subseteq Nat
    /\ \A v \in view : ViewTrue(pool, v) /\ Forgotten(v) /\ \A t \in swept : Young(pool, v, t)
    /\ db = [spans |-> db.spans, tombstones |-> db.tombstones, records |-> db.records, tags |-> db.tags,
             generation |-> db.generation, strikes |-> db.strikes, previous |-> db.previous]
    /\ ImageTrue(pool, db.records, db.spans)
    /\ PreviewHonest

\* Ids and Hit, as sets.
LEMMA IdsAre == \A s : Ids(s) = {r.id : r \in Range(s)}
  BY DEF Ids, Range

LEMMA HitAre == \A s, ids : Hit(s, ids) <=> s.id \in ids \/ Range(s.sources) \cap ids # {}
  BY DEF Hit, Range

\* What is left of a true image is true.
LEMMA ImageShrinks ==
    ASSUME NEW p, NEW recs, NEW spans, ImageTrue(p, recs, spans), NEW rs, NEW ss, ss \subseteq spans,
           IsList(rs), Range(rs) \subseteq Range(recs), rs # <<>> => recs # <<>>
    PROVE  ImageTrue(p, rs, ss)
  <1>1. \A r \in Range(recs) : RecordTrue(p, r)
    BY DEF ImageTrue, Range
  <1>2. \A i \in DOMAIN rs : rs[i] \in Range(rs)
    BY DEF Range
  <1>3. \A i \in DOMAIN rs : RecordTrue(p, rs[i])
    BY <1>1, <1>2
  <1>4. IsFiniteSet(ss)
    <2>1. IsFiniteSet(spans)
      BY DEF ImageTrue
    <2> QED
      BY <2>1, FS_Subset
  <1>5. Ids(rs) \subseteq Ids(recs)
    BY IdsAre
  <1>6. \A s, u \in ss : Range(s.sources) \cap (Ids(rs) \cup {u.id}) = {}
    <2> SUFFICES ASSUME NEW s \in ss, NEW u \in ss
                 PROVE  Range(s.sources) \cap (Ids(rs) \cup {u.id}) = {}
      OBVIOUS
    <2>1. Range(s.sources) \cap (Ids(recs) \cup {u.id}) = {}
      BY DEF ImageTrue
    <2> QED
      BY <1>5, <2>1
  <1>7. (\A s \in ss : SpanTrue(p, s)) /\ (rs # <<>> => SpanId(0) \notin Ids(p))
    BY DEF ImageTrue
  <1> QED
    BY <1>3, <1>4, <1>6, <1>7 DEF ImageTrue

\* A deletion drops every span that covers a deleted record.
LEMMA DeleteTrue ==
    ASSUME NEW p, NEW v, ViewTrue(p, v), Forgotten(v), NEW ids
    PROVE  /\ ViewTrue(p, DeleteIds(v, ids)) /\ Forgotten(DeleteIds(v, ids))
           /\ Range(DeleteIds(v, ids).spans) \subseteq Range(v.spans)
  <1> DEFINE dead == {v.spans[i].id : i \in {j \in DOMAIN v.spans : Hit(v.spans[j], ids)}}
             ss == Without(v.spans, dead)
             rs == Without(v.records, ids \cup dead)
             w == DeleteIds(v, ids)
  <1>1. /\ v = [records |-> v.records, spans |-> v.spans, tombstones |-> v.tombstones, tags |-> v.tags]
        /\ IsList(v.spans) /\ IsList(v.records) /\ ImageTrue(p, v.records, Range(v.spans))
    BY DEF ViewTrue, ImageTrue
  <1>2. w = [v EXCEPT !.tombstones = @ \cup ids, !.spans = Without(@, dead), !.records = Without(@, ids \cup dead)]
    BY DEF DeleteIds
  <1>3. \A s \in Range(v.spans) : Hit(s, ids) => s.id \in dead
    BY DEF Range
  <1> HIDE DEF dead
  <1>4. w = [records |-> rs, spans |-> ss, tombstones |-> v.tombstones \cup ids, tags |-> v.tags]
    <2> DEFINE a == v.records
               b == v.spans
               c == v.tombstones
               d == v.tags
    <2>1. v = [records |-> a, spans |-> b, tombstones |-> c, tags |-> d]
      BY <1>1
    <2> HIDE DEF a, b, c, d
    <2>2. w = [records |-> Without(a, ids \cup dead), spans |-> Without(b, dead), tombstones |-> c \cup ids, tags |-> d]
      BY <1>2, <2>1
    <2> QED
      BY <2>2 DEF a, b, c, d
  <1>5. /\ IsList(ss) /\ Range(ss) = {s \in Range(v.spans) : s.id \notin dead}
    BY <1>1, WithoutIs
  <1>6. /\ IsList(rs) /\ Range(rs) = {r \in Range(v.records) : r.id \notin ids \cup dead}
        /\ Ids(rs) = Ids(v.records) \ (ids \cup dead) /\ (rs # <<>> => v.records # <<>>)
    BY <1>1, WithoutIs
  <1> HIDE DEF ss, rs
  <1>7. ImageTrue(p, rs, Range(ss))
    BY <1>1, <1>5, <1>6, ImageShrinks
  <1>8. /\ w.records = rs /\ w.spans = ss /\ w.tombstones = v.tombstones \cup ids /\ w.tags = v.tags
    BY <1>4
  <1>9. ViewTrue(p, w)
    <2> HIDE DEF w
    <2> QED
      BY <1>4, <1>5, <1>7, <1>8 DEF ViewTrue
  <1>10. ASSUME NEW s \in Range(ss)
         PROVE  ~Hit(s, v.tombstones \cup ids)
    <2>1. s \in Range(v.spans) /\ s.id \notin dead
      BY <1>5
    <2>2. ~Hit(s, ids) /\ ~Hit(s, v.tombstones)
      BY <1>3, <2>1 DEF Forgotten
    <2> QED
      BY <2>2, HitAre
  <1>11. Ids(rs) \cap (v.tombstones \cup ids) = {}
    BY <1>6 DEF Forgotten
  <1>12. Forgotten(w)
    <2> HIDE DEF w
    <2> QED
      BY <1>8, <1>10, <1>11 DEF Forgotten
  <1>13. Range(w.spans) \subseteq Range(v.spans)
    BY <1>5, <1>8
  <1> QED
    BY <1>9, <1>12, <1>13

\* A sweep drops every span that covers an expired record.
LEMMA SweepTrue ==
    ASSUME NEW p, NEW v, ViewTrue(p, v), Forgotten(v), NEW t \in Nat, \A i \in DOMAIN p : p[i].at \in Nat
    PROVE  ViewTrue(p, ApplyRetention(v, t)) /\ Forgotten(ApplyRetention(v, t)) /\ Young(p, ApplyRetention(v, t), t)
  <1> DEFINE gone == Expired(v, t)
             ss == Without(v.spans, gone)
             rs == Without(v.records, gone)
             w == ApplyRetention(v, t)
  <1>1. /\ v = [records |-> v.records, spans |-> v.spans, tombstones |-> v.tombstones, tags |-> v.tags]
        /\ IsList(v.spans) /\ IsList(v.records) /\ ImageTrue(p, v.records, Range(v.spans))
    BY DEF ViewTrue, ImageTrue
  <1>2. w = [v EXCEPT !.tombstones = @ \cup gone, !.spans = Without(@, gone), !.records = Without(@, gone)]
    BY DEF ApplyRetention
  <1>3. /\ \A s \in Range(v.spans) : Over(s.retention, s.deadline, t) => s.id \in gone
        /\ gone \subseteq Ids(v.spans) \cup Ids(v.records)
    BY DEF Range, Expired, Ids
  <1> HIDE DEF gone
  <1>4. w = [records |-> rs, spans |-> ss, tombstones |-> v.tombstones \cup gone, tags |-> v.tags]
    <2> DEFINE a == v.records
               b == v.spans
               c == v.tombstones
               d == v.tags
    <2>1. v = [records |-> a, spans |-> b, tombstones |-> c, tags |-> d]
      BY <1>1
    <2> HIDE DEF a, b, c, d
    <2>2. w = [records |-> Without(a, gone), spans |-> Without(b, gone), tombstones |-> c \cup gone, tags |-> d]
      BY <1>2, <2>1
    <2> QED
      BY <2>2 DEF a, b, c, d
  <1>5. /\ IsList(ss) /\ Range(ss) = {s \in Range(v.spans) : s.id \notin gone}
    BY <1>1, WithoutIs
  <1>6. /\ IsList(rs) /\ Range(rs) = {r \in Range(v.records) : r.id \notin gone}
        /\ Ids(rs) = Ids(v.records) \ gone /\ (rs # <<>> => v.records # <<>>)
    BY <1>1, WithoutIs
  <1> HIDE DEF ss, rs
  <1>7. ImageTrue(p, rs, Range(ss))
    BY <1>1, <1>5, <1>6, ImageShrinks
  <1>8. /\ w.records = rs /\ w.spans = ss /\ w.tombstones = v.tombstones \cup gone /\ w.tags = v.tags
    BY <1>4
  <1> HIDE DEF w
  <1>9. ViewTrue(p, w)
    BY <1>4, <1>5, <1>7, <1>8 DEF ViewTrue
  <1>10. ASSUME NEW s \in Range(ss)
         PROVE  ~Hit(s, v.tombstones \cup gone)
    <2>1. s \in Range(v.spans) /\ s.id \notin gone
      BY <1>5
    <2>2. ~Hit(s, v.tombstones)
      BY <2>1 DEF Forgotten
    <2>3. Range(s.sources) \cap (Ids(v.spans) \cup Ids(v.records)) = {}
      <3>1. \A u \in Range(v.spans) : Range(s.sources) \cap (Ids(v.records) \cup {u.id}) = {}
        BY <1>1, <2>1 DEF ImageTrue
      <3>2. Ids(v.spans) = {u.id : u \in Range(v.spans)}
        BY IdsAre
      <3>3. ASSUME NEW x \in Range(s.sources)
            PROVE  x \notin Ids(v.records) /\ x \notin Ids(v.spans)
        <4>1. \A u \in Range(v.spans) : x # u.id /\ x \notin Ids(v.records)
          BY <3>1
        <4> QED
          BY <2>1, <3>2, <4>1
      <3> QED
        BY <3>3
    <2>4. Range(s.sources) \cap gone = {}
      BY <1>3, <2>3
    <2> QED
      BY <2>1, <2>2, <2>4, HitAre
  <1>11. Ids(rs) \cap (v.tombstones \cup gone) = {}
    BY <1>6 DEF Forgotten
  <1>12. Forgotten(w)
    BY <1>8, <1>10, <1>11 DEF Forgotten
  <1>13. ASSUME NEW s \in Range(ss), NEW i \in DOMAIN p, p[i].id \in Range(s.sources),
                Over(GetTag(TagsGiven, p[i].id), p[i].at, t)
         PROVE  FALSE
    <2>1. s \in Range(v.spans) /\ s.id \notin gone
      BY <1>5
    <2>2. SpanTrue(p, s)
      BY <1>1, <2>1 DEF ImageTrue
    <2>3. /\ s.deadline \in Nat /\ s.retention \in Range(Classes) /\ s.deadline <= p[i].at
          /\ Restrictiveness(GetTag(TagsGiven, p[i].id)) <= Restrictiveness(s.retention)
      BY <1>13, <2>2 DEF SpanTrue
    <2>4. GetTag(TagsGiven, p[i].id) \in Range(Classes) /\ p[i].at \in Nat
      BY ClassesAre
    <2>5. Over(s.retention, s.deadline, t)
      BY <1>13, <2>3, <2>4, StricterIsOver
    <2> QED
      BY <1>3, <2>1, <2>5
  <1>14. Young(p, w, t)
    BY <1>8, <1>13 DEF Young
  <1> QED
    BY <1>9, <1>12, <1>14 DEF w

\* The collected records have ids of their own.
LEMMA PoolIs ==
    ASSUME pool \in Pools
    PROVE  /\ IsList(pool) /\ \A i \in DOMAIN pool : RecordTrue(pool, pool[i])
           /\ \A i, j \in DOMAIN pool : pool[i].id = pool[j].id => i = j
           /\ \A i \in DOMAIN pool : pool[i].at \in Nat /\ Footprint(pool[i]) \in Nat
  <1>1. /\ pool \in Seq(Range(pool))
        /\ \A i \in DOMAIN pool : pool[i].id \in Nat /\ pool[i].at \in Nat /\ Footprint(pool[i]) \in Nat
        /\ \A i, j \in DOMAIN pool : pool[i].id = pool[j].id => i = j
    BY CompactionAssumption
  <1>2. \A i \in DOMAIN pool : RecordTrue(pool, pool[i])
    BY <1>1 DEF RecordTrue
  <1> QED
    BY <1>1, <1>2 DEF IsList

\* A view that no deletion or sweep has touched yet.
LEMMA FreshForgotten == ASSUME NEW v, v.tombstones = {} PROVE Forgotten(v)
  BY DEF Forgotten, Hit

\* A step that runs no pass announces nothing.
LEMMA NoPassHonest == ASSUME pass' = NoPass PROVE PreviewHonest'
  <1>1. pass'.preview = "NoOp" /\ pass'.outcome = "NoOp"
    BY DEF NoPass
  <1> QED
    BY <1>1 DEF PreviewHonest

\* A pass over records that are true leaves the view or makes a true one.
LEMMA PassKeeps ==
    ASSUME CompactionInv, NEW rs, IsList(rs), \A i \in DOMAIN rs : RecordTrue(pool, rs[i]),
           NEW p \in Policies, NEW protected, NEW gen, NEW seed, NEW reply \in Replies,
           \/ rs = pool
           \/ /\ rs # <<>> => SpanId(0) \notin Ids(pool)
              /\ \A k \in DOMAIN HeadRanges(HeadWindow(rs, p.keep, protected)) : k = 1,
           Compact(rs, p, protected, gen, seed, reply)
    PROVE  CompactionInv'
  <1> DEFINE head == HeadWindow(rs, p.keep, protected)
             ranges == HeadRanges(head)
             v == Compressed(rs, ranges, TRUE, TagsGiven, reply, clock)
             outcome == CompactOutcome(rs, p, protected, gen, seed, reply)
  <1>1. /\ pool' = pool /\ db' = db /\ clock' = clock
        /\ outcome = "Compacted" => view' = {v} /\ swept' = {}
        /\ outcome # "Compacted" => view' = view /\ swept' = swept
    BY DEF Compact, Adopt
  <1>2. PreviewHonest'
    BY PassIsHonest
  <1>3. ASSUME outcome = "Compacted"
        PROVE  ViewTrue(pool, v) /\ Forgotten(v)
    <2>1. /\ WindowVerdict(rs, gen) = "ok" /\ head # {}
          /\ CompressVerdict(rs, ranges, gen) = "ok" /\ SummaryVerdict(reply) = "ok"
      BY <1>3 DEF CompactOutcome
    <2>2. \A i, j \in DOMAIN rs : rs[i].id = rs[j].id => i = j
      BY <2>1, WindowAdmits
    <2>3. Within(ranges, Len(rs)) /\ IsList(ranges) /\ ranges # <<>>
      BY <2>1, HeadIsWithin, HeadRangesAre
    <2>4. \A k \in DOMAIN ranges : SpanId(k - 1) \notin Ids(rs)
      BY <2>1, CompressAdmits
    <2>5. reply # {} /\ reply \subseteq Nat /\ clock \in Nat
      BY <2>1, CompactionAssumption DEF SummaryVerdict, CompactionInv
    <2>6. 1 \in DOMAIN ranges
      <3> HIDE DEF ranges
      <3> QED
        BY <2>3, ListHas
    <2>7. SpanId(0) \notin Ids(pool) /\ \A k \in DOMAIN ranges : SpanId(k - 1) \notin Ids(pool)
      <3>1. CASE rs = pool
        BY <2>4, <2>6, <3>1
      <3>2. CASE /\ rs # <<>> => SpanId(0) \notin Ids(pool)
                 /\ \A k \in DOMAIN ranges : k = 1
        <4>1. rs # <<>>
          <5>1. head \in SUBSET (1..Len(rs)) /\ Len(rs) \in Nat
            BY HeadIsWithin
          <5>2. PICK i \in 1..Len(rs) : i \in head
            BY <2>1, <5>1
          <5> QED
            BY <5>1, <5>2
        <4> QED
          BY <3>2, <4>1
      <3> QED
        BY <3>1, <3>2
    <2> HIDE DEF ranges
    <2>8. ViewTrue(pool, v) /\ v.tombstones = {}
      BY <2>2, <2>3, <2>4, <2>5, <2>7, CompressedTrue
    <2> HIDE DEF v
    <2> QED
      BY <2>8, FreshForgotten
  <1> HIDE DEF v, outcome
  <1>4. CASE outcome = "Compacted"
    BY <1>1, <1>2, <1>3, <1>4 DEF CompactionInv
  <1>5. CASE outcome # "Compacted"
    BY <1>1, <1>2, <1>5 DEF CompactionInv
  <1> QED
    BY <1>4, <1>5

\* One lemma per step of the store.
LEMMA CompactPoolKeeps == CompactionInv /\ CompactPool => CompactionInv'
  <1> SUFFICES ASSUME CompactionInv, CompactPool
               PROVE  CompactionInv'
    OBVIOUS
  <1>1. PICK p \in Policies, protected \in Protections, seed \in Seeds, reply \in Replies :
          Compact(pool, p, protected, {}, seed, reply)
    BY DEF CompactPool
  <1>2. IsList(pool) /\ \A i \in DOMAIN pool : RecordTrue(pool, pool[i])
    BY PoolIs DEF CompactionInv
  <1> QED
    BY <1>1, <1>2, PassKeeps

LEMMA FollowUpKeeps == CompactionInv /\ FollowUp => CompactionInv'
  <1> SUFFICES ASSUME CompactionInv, FollowUp
               PROVE  CompactionInv'
    OBVIOUS
  <1>1. PICK v \in view, p \in Policies, reply \in Replies :
          Compact(v.records, p, {}, {ViewGeneration(v.records)}, {}, reply)
    BY DEF FollowUp
  <1> DEFINE rs == v.records
  <1>2. /\ IsList(rs) /\ \A i \in DOMAIN rs : RecordTrue(pool, rs[i])
        /\ rs # <<>> => SpanId(0) \notin Ids(pool)
    BY DEF CompactionInv, ViewTrue, ImageTrue
  <1>3. (\A i \in DOMAIN rs : Footprint(rs[i]) \in Nat) /\ p.keep \in Nat
    BY <1>2, CompactionAssumption DEF RecordTrue
  <1> HIDE DEF rs
  <1>4. \A k \in DOMAIN HeadRanges(HeadWindow(rs, p.keep, {})) : k = 1
    BY <1>2, <1>3, OneRun
  <1>5. Compact(rs, p, {}, {ViewGeneration(rs)}, {}, reply)
    BY <1>1 DEF rs
  <1> QED
    BY <1>2, <1>4, <1>5, PassKeeps

LEMMA CompressAllKeeps == CompactionInv /\ CompressAll => CompactionInv'
  <1> SUFFICES ASSUME CompactionInv, CompressAll
               PROVE  CompactionInv'
    OBVIOUS
  <1>1. PICK tokens \in {{}, {1}}, reply \in Replies :
          LET ranges == SelectBreakpoints(pool, tokens) IN
          /\ CompressVerdict(pool, ranges, {}) = "ok" /\ SummaryVerdict(reply) = "ok"
          /\ Adopt(Compressed(pool, ranges, FALSE, TagsGiven, reply, clock))
          /\ pass' = NoPass /\ UNCHANGED <<pool, db, clock>>
    BY DEF CompressAll
  <1> DEFINE ranges == SelectBreakpoints(pool, tokens)
             v == Compressed(pool, ranges, FALSE, TagsGiven, reply, clock)
  <1>2. /\ CompressVerdict(pool, ranges, {}) = "ok" /\ SummaryVerdict(reply) = "ok"
        /\ view' = {v} /\ swept' = {}
        /\ pass' = NoPass /\ pool' = pool /\ db' = db /\ clock' = clock
    BY <1>1 DEF Adopt
  <1>3. /\ IsList(pool) /\ \A i \in DOMAIN pool : RecordTrue(pool, pool[i])
        /\ \A i, j \in DOMAIN pool : pool[i].id = pool[j].id => i = j
    BY PoolIs DEF CompactionInv
  <1>4. Within(ranges, Len(pool)) /\ (pool # <<>> => 1 \in DOMAIN ranges)
    BY <1>3, BreakpointsAre
  <1>5. reply # {} /\ reply \subseteq Nat /\ clock \in Nat
    BY <1>2, CompactionAssumption DEF SummaryVerdict, CompactionInv
  <1> HIDE DEF ranges
  <1>6. \A k \in DOMAIN ranges : SpanId(k - 1) \notin Ids(pool)
    BY <1>2, <1>3, CompressAdmits
  <1>7. pool # <<>> => SpanId(0) \notin Ids(pool)
    BY <1>4, <1>6
  <1>8. ViewTrue(pool, v) /\ v.tombstones = {}
    BY <1>3, <1>4, <1>5, <1>6, <1>7, CompressedTrue
  <1> HIDE DEF v
  <1>9. Forgotten(v)
    BY <1>8, FreshForgotten
  <1>10. PreviewHonest'
    BY <1>2, NoPassHonest
  <1> QED
    BY <1>2, <1>8, <1>9, <1>10 DEF CompactionInv

LEMMA DeleteKeeps == CompactionInv /\ Delete => CompactionInv'
  <1> SUFFICES ASSUME CompactionInv, Delete
               PROVE  CompactionInv'
    OBVIOUS
  <1>1. PICK v \in view : \E id \in Ids(v.records) \cup Ids(pool) :
          /\ view' = {DeleteIds(v, {id})}
          /\ pass' = NoPass /\ UNCHANGED <<pool, swept, db, clock>>
    BY DEF Delete
  <1>2. PICK id : view' = {DeleteIds(v, {id})} /\ pass' = NoPass /\ UNCHANGED <<pool, swept, db, clock>>
    BY <1>1
  <1> DEFINE w == DeleteIds(v, {id})
  <1>3. ViewTrue(pool, v) /\ Forgotten(v) /\ \A t \in swept : Young(pool, v, t)
    BY DEF CompactionInv
  <1>4. ViewTrue(pool, w) /\ Forgotten(w) /\ Range(w.spans) \subseteq Range(v.spans)
    BY <1>3, DeleteTrue
  <1> HIDE DEF w
  <1>5. \A t \in swept : Young(pool, w, t)
    BY <1>3, <1>4 DEF Young
  <1>6. PreviewHonest'
    BY <1>2, NoPassHonest
  <1>7. view' = {w} /\ pool' = pool /\ swept' = swept /\ db' = db /\ clock' = clock
    BY <1>2 DEF w
  <1> QED
    BY <1>4, <1>5, <1>6, <1>7 DEF CompactionInv

LEMMA SweepKeeps == CompactionInv /\ Sweep => CompactionInv'
  <1> SUFFICES ASSUME CompactionInv, Sweep
               PROVE  CompactionInv'
    OBVIOUS
  <1>1. PICK v \in view : /\ view' = {ApplyRetention(v, clock)} /\ swept' = {clock}
                          /\ pass' = NoPass /\ UNCHANGED <<pool, db, clock>>
    BY DEF Sweep
  <1> DEFINE w == ApplyRetention(v, clock)
  <1>2. ViewTrue(pool, v) /\ Forgotten(v) /\ clock \in Nat /\ \A i \in DOMAIN pool : pool[i].at \in Nat
    BY PoolIs DEF CompactionInv
  <1>3. ViewTrue(pool, w) /\ Forgotten(w) /\ Young(pool, w, clock)
    BY <1>2, SweepTrue
  <1>4. PreviewHonest'
    BY <1>1, NoPassHonest
  <1>5. view' = {w} /\ pool' = pool /\ swept' = {clock} /\ db' = db /\ clock' = clock
    BY <1>1
  <1> HIDE DEF w
  <1> QED
    BY <1>2, <1>3, <1>4, <1>5 DEF CompactionInv

LEMMA RecordViewKeeps == CompactionInv /\ RecordView => CompactionInv'
  <1> SUFFICES ASSUME CompactionInv, RecordView
               PROVE  CompactionInv'
    OBVIOUS
  <1>1. PICK v \in view : db' = RecordedView(v) /\ pass' = NoPass /\ UNCHANGED <<pool, view, swept, clock>>
    BY DEF RecordView
  <1> DEFINE rs == LiveRecords(v)
             live == [v EXCEPT !.records = LiveRecords(v)]
             tags == SerializeTags(live)
             gen == IF live.records = <<>> THEN db.generation ELSE {ViewGeneration(live.records)}
  <1>2. ViewTrue(pool, v)
    BY DEF CompactionInv
  <1>3. /\ v = [records |-> v.records, spans |-> v.spans, tombstones |-> v.tombstones, tags |-> v.tags]
        /\ IsList(v.records) /\ ImageTrue(pool, v.records, Range(v.spans))
    BY <1>2 DEF ViewTrue, ImageTrue
  <1>4. /\ IsList(rs) /\ Range(rs) = {r \in Range(v.records) : r.id \notin v.tombstones}
        /\ rs # <<>> => v.records # <<>>
    BY <1>3, WithoutIs DEF LiveRecords
  <1>5. live.records = rs
    <2> DEFINE a == v.records
               b == v.spans
               c == v.tombstones
               d == v.tags
    <2>1. v = [records |-> a, spans |-> b, tombstones |-> c, tags |-> d]
      BY <1>3
    <2> HIDE DEF a, b, c, d, rs
    <2>2. [v EXCEPT !.records = rs].records = rs
      BY <2>1
    <2> QED
      BY <2>2 DEF rs
  <1>6. ImageTrue(pool, rs, Range(v.spans))
    <2> HIDE DEF rs
    <2> QED
      BY <1>3, <1>4, ImageShrinks
  <1>7. db' = [db EXCEPT !.spans = Range(v.spans), !.tombstones = @ \cup v.tombstones,
                         !.records = live.records, !.tags = tags, !.generation = gen]
    BY <1>1 DEF RecordedView
  <1> HIDE DEF tags, gen, live
  <1>8. /\ db'.records = rs /\ db'.spans = Range(v.spans)
        /\ db' = [spans |-> db'.spans, tombstones |-> db'.tombstones, records |-> db'.records, tags |-> db'.tags,
                  generation |-> db'.generation, strikes |-> db'.strikes, previous |-> db'.previous]
    <2> DEFINE a == db.spans
               b == db.tombstones
               c == db.records
               d == db.tags
               e == db.generation
               f == db.strikes
               g == db.previous
               x == Range(v.spans)
               y == v.tombstones
               z == live.records
    <2>1. db = [spans |-> a, tombstones |-> b, records |-> c, tags |-> d, generation |-> e, strikes |-> f, previous |-> g]
      BY DEF CompactionInv
    <2>2. db' = [db EXCEPT !.spans = x, !.tombstones = @ \cup y, !.records = z, !.tags = tags, !.generation = gen]
      BY <1>7
    <2>3. z = rs
      BY <1>5
    <2> HIDE DEF a, b, c, d, e, f, g, x, y, z, rs
    <2>4. db' = [spans |-> x, tombstones |-> b \cup y, records |-> z, tags |-> tags, generation |-> gen,
                 strikes |-> f, previous |-> g]
      BY <2>1, <2>2
    <2>5. db'.records = z /\ db'.spans = x
      BY <2>4
    <2>6. db' = [spans |-> db'.spans, tombstones |-> db'.tombstones, records |-> db'.records, tags |-> db'.tags,
                 generation |-> db'.generation, strikes |-> db'.strikes, previous |-> db'.previous]
      BY <2>4
    <2> QED
      BY <2>3, <2>5, <2>6 DEF x
  <1>9. PreviewHonest'
    BY <1>1, NoPassHonest
  <1> HIDE DEF rs
  <1>10. ImageTrue(pool, db'.records, db'.spans)
    BY <1>6, <1>8
  <1>11. pool' = pool /\ view' = view /\ swept' = swept /\ clock' = clock
    BY <1>1
  <1> QED
    BY <1>8, <1>9, <1>10, <1>11 DEF CompactionInv

LEMMA AddTombstonesKeeps == CompactionInv /\ AddTombstones => CompactionInv'
  <1> SUFFICES ASSUME CompactionInv, AddTombstones
               PROVE  CompactionInv'
    OBVIOUS
  <1>1. PICK ids : db' = WithTombstones(ids) /\ pass' = NoPass /\ UNCHANGED <<pool, view, swept, clock>>
    BY DEF AddTombstones
  <1> DEFINE all == db.tombstones \cup ids
             rs == Without(db.records, all)
             ss == {s \in db.spans : ~Hit(s, all)}
  <1>2. IsList(db.records) /\ ImageTrue(pool, db.records, db.spans)
    BY DEF CompactionInv, ImageTrue
  <1>3. db' = [db EXCEPT !.tombstones = all, !.records = Without(@, all), !.spans = {s \in @ : ~Hit(s, all)}]
    BY <1>1 DEF WithTombstones
  <1> HIDE DEF all
  <1>4. /\ IsList(rs) /\ Range(rs) = {r \in Range(db.records) : r.id \notin all}
        /\ rs # <<>> => db.records # <<>>
    BY <1>2, WithoutIs
  <1>5. ImageTrue(pool, rs, ss)
    <2>1. ss \subseteq db.spans
      OBVIOUS
    <2> HIDE DEF rs, ss
    <2> QED
      BY <1>2, <1>4, <2>1, ImageShrinks
  <1>6. /\ db'.records = rs /\ db'.spans = ss
        /\ db' = [spans |-> db'.spans, tombstones |-> db'.tombstones, records |-> db'.records, tags |-> db'.tags,
                  generation |-> db'.generation, strikes |-> db'.strikes, previous |-> db'.previous]
    <2> DEFINE a == db.spans
               b == db.tombstones
               c == db.records
               d == db.tags
               e == db.generation
               f == db.strikes
               g == db.previous
    <2>1. db = [spans |-> a, tombstones |-> b, records |-> c, tags |-> d, generation |-> e, strikes |-> f, previous |-> g]
      BY DEF CompactionInv
    <2>2. rs = Without(c, all) /\ ss = {s \in a : ~Hit(s, all)}
      OBVIOUS
    <2> HIDE DEF a, b, c, d, e, f, g, rs, ss
    <2>3. db' = [spans |-> ss, tombstones |-> all, records |-> rs, tags |-> d, generation |-> e,
                 strikes |-> f, previous |-> g]
      BY <1>3, <2>1, <2>2
    <2> QED
      BY <2>3
  <1>7. PreviewHonest'
    BY <1>1, NoPassHonest
  <1> HIDE DEF rs, ss
  <1>8. ImageTrue(pool, db'.records, db'.spans)
    BY <1>5, <1>6
  <1>9. pool' = pool /\ view' = view /\ swept' = swept /\ clock' = clock
    BY <1>1
  <1> QED
    BY <1>6, <1>7, <1>8, <1>9 DEF CompactionInv

LEMMA ReopenKeeps == CompactionInv /\ Reopen => CompactionInv'
  <1> SUFFICES ASSUME CompactionInv, Reopen
               PROVE  CompactionInv'
    OBVIOUS
  <1> DEFINE live == {s \in db.spans : ~Hit(s, db.tombstones)}
             S == {s.id : s \in live}
             ids == InOrder(S)
             n == Cardinality(S)
             rs == Without(db.records, db.tombstones)
             ss == [k \in DOMAIN ids |-> CHOOSE s \in live : s.id = ids[k]]
             w == LoadView
  <1>1. view' = {w} /\ swept' = {} /\ pass' = NoPass /\ pool' = pool /\ db' = db /\ clock' = clock
    BY DEF Reopen, Adopt
  <1>2. w = [records |-> rs, spans |-> ss, tombstones |-> db.tombstones, tags |-> db.tags]
    BY DEF LoadView
  <1>3. /\ IsList(db.records) /\ ImageTrue(pool, db.records, db.spans) /\ IsFiniteSet(db.spans)
        /\ \A s \in db.spans : s.id \in Nat
    BY DEF CompactionInv, ImageTrue, SpanTrue
  <1>4. live \subseteq db.spans /\ IsFiniteSet(live)
    <2>1. live \subseteq db.spans
      OBVIOUS
    <2> HIDE DEF live
    <2>2. IsFiniteSet(live)
      BY <1>3, <2>1, FS_Subset
    <2> QED
      BY <2>1, <2>2
  <1>5. \A s \in live : ~Hit(s, db.tombstones)
    OBVIOUS
  <1> HIDE DEF live
  <1>6. S \in SUBSET Nat /\ IsFiniteSet(S)
    <2>1. S \in SUBSET Nat
      BY <1>3, <1>4
    <2> DEFINE h == [s \in live |-> s.id]
    <2>2. h \in [live -> S] /\ \A x \in S : \E s \in live : h[s] = x
      OBVIOUS
    <2>3. h \in Surjection(live, S)
      BY <2>2 DEF Surjection
    <2> HIDE DEF h, S
    <2>4. IsFiniteSet(S)
      BY <1>4, <2>3, FS_Surjection
    <2> QED
      BY <2>1, <2>4
  <1>7. n \in Nat /\ ids \in [1..n -> S]
    <2> HIDE DEF S
    <2> QED
      BY <1>6, InOrderIs
  <1>8. \A k \in 1..n : (CHOOSE s \in live : s.id = ids[k]) \in live
    <2> TAKE k \in 1..n
    <2>1. ids[k] \in S
      <3> HIDE DEF S, ids
      <3> QED
        BY <1>7
    <2> DEFINE x == ids[k]
    <2> HIDE DEF ids, n, x
    <2>2. \E s \in live : s.id = x
      BY <2>1 DEF x
    <2>3. (CHOOSE s \in live : s.id = x) \in live
      BY <2>2
    <2> QED
      BY <2>3 DEF x
  <1> HIDE DEF S, ids, n
  <1>9. ss = [k \in 1..n |-> ss[k]] /\ \A k \in 1..n : ss[k] \in live
    <2>1. DOMAIN ids = 1..n
      BY <1>7
    <2>2. \A k \in 1..n : ss[k] = CHOOSE s \in live : s.id = ids[k]
      BY <2>1
    <2> QED
      BY <1>8, <2>1, <2>2
  <1> HIDE DEF ss
  <1>10. IsList(ss) /\ DOMAIN ss = 1..n
    BY <1>7, <1>9, ListIs
  <1>11. Range(ss) \subseteq live
    BY <1>9, <1>10 DEF Range
  <1>12. /\ IsList(rs) /\ Range(rs) = {r \in Range(db.records) : r.id \notin db.tombstones}
         /\ Ids(rs) = Ids(db.records) \ db.tombstones
         /\ rs # <<>> => db.records # <<>>
    BY <1>3, WithoutIs
  <1> HIDE DEF rs
  <1>13. ImageTrue(pool, rs, Range(ss))
    <2>1. Range(ss) \subseteq db.spans
      BY <1>4, <1>11
    <2> QED
      BY <1>3, <1>12, <2>1, ImageShrinks
  <1>14. w.records = rs /\ w.spans = ss /\ w.tombstones = db.tombstones /\ w.tags = db.tags
    BY <1>2
  <1> HIDE DEF w
  <1>15. ViewTrue(pool, w)
    BY <1>2, <1>10, <1>13, <1>14 DEF ViewTrue
  <1>16. Forgotten(w)
    BY <1>5, <1>11, <1>12, <1>14 DEF Forgotten
  <1>17. PreviewHonest'
    BY <1>1, NoPassHonest
  <1> QED
    BY <1>1, <1>15, <1>16, <1>17 DEF CompactionInv

LEMMA QuietStepsKeep == CompactionInv /\ (Crash \/ Strike \/ Pass \/ UNCHANGED compactionVars) => CompactionInv'
  <1> SUFFICES ASSUME CompactionInv
               PROVE  Crash \/ Strike \/ Pass \/ UNCHANGED compactionVars => CompactionInv'
    OBVIOUS
  <1>1. ASSUME Crash
        PROVE  CompactionInv'
    <2>1. PreviewHonest'
      BY <1>1, NoPassHonest DEF Crash
    <2>2. view' = {} /\ swept' = {} /\ pool' = pool /\ db' = db /\ clock' = clock
      BY <1>1 DEF Crash
    <2> QED
      BY <2>1, <2>2 DEF CompactionInv
  <1>2. ASSUME Strike
        PROVE  CompactionInv'
    <2>1. PreviewHonest'
      BY <1>2, NoPassHonest DEF Strike
    <2>2. /\ view' = view /\ swept' = swept /\ pool' = pool /\ clock' = clock
          /\ db' = [db EXCEPT !.strikes = @ + 1]
      BY <1>2 DEF Strike
    <2> DEFINE a == db.spans
               b == db.tombstones
               c == db.records
               d == db.tags
               e == db.generation
               f == db.strikes
               g == db.previous
    <2>3. db = [spans |-> a, tombstones |-> b, records |-> c, tags |-> d, generation |-> e, strikes |-> f, previous |-> g]
      BY DEF CompactionInv
    <2> HIDE DEF a, b, c, d, e, f, g
    <2>4. db' = [spans |-> a, tombstones |-> b, records |-> c, tags |-> d, generation |-> e,
                 strikes |-> f + 1, previous |-> g]
      BY <2>2, <2>3
    <2>5. /\ db'.records = c /\ db'.spans = a
          /\ db' = [spans |-> db'.spans, tombstones |-> db'.tombstones, records |-> db'.records, tags |-> db'.tags,
                    generation |-> db'.generation, strikes |-> db'.strikes, previous |-> db'.previous]
      BY <2>4
    <2>6. ImageTrue(pool, db'.records, db'.spans)
      BY <2>5 DEF CompactionInv, a, c
    <2> QED
      BY <2>1, <2>2, <2>5, <2>6 DEF CompactionInv
  <1>3. ASSUME Pass
        PROVE  CompactionInv'
    <2>1. PreviewHonest'
      BY <1>3, NoPassHonest DEF Pass
    <2>2. view' = view /\ swept' = swept /\ pool' = pool /\ db' = db /\ clock' = clock + 1
      BY <1>3 DEF Pass
    <2> QED
      BY <2>1, <2>2 DEF CompactionInv
  <1>4. ASSUME UNCHANGED compactionVars
        PROVE  CompactionInv'
    <2>1. view' = view /\ swept' = swept /\ pool' = pool /\ db' = db /\ clock' = clock /\ pass' = pass
      BY <1>4 DEF compactionVars
    <2>2. PreviewHonest'
      BY <2>1 DEF PreviewHonest, CompactionInv
    <2> QED
      BY <2>1, <2>2 DEF CompactionInv
  <1> QED
    BY <1>1, <1>2, <1>3, <1>4

LEMMA CompactionStarts == CompactionInit => CompactionInv
  <1> SUFFICES ASSUME CompactionInit
               PROVE  CompactionInv
    OBVIOUS
  <1> DEFINE ats == {0} \cup {pool[i].at : i \in DOMAIN pool}
  <1>1. /\ pool \in Pools /\ view = {} /\ swept = {} /\ pass = NoPass /\ db = EmptyDb /\ clock = Max(ats)
    BY DEF CompactionInit
  <1>2. IsList(pool) /\ \A i \in DOMAIN pool : pool[i].at \in Nat
    BY <1>1, PoolIs
  <1>3. clock \in Nat
    <2> DEFINE T == {pool[i].at : i \in DOMAIN pool}
               h == [i \in DOMAIN pool |-> pool[i].at]
    <2>1. IsFiniteSet(DOMAIN pool)
      <3>1. Len(pool) \in Nat /\ DOMAIN pool = 1..Len(pool)
        BY <1>2, ListHas
      <3> QED
        BY <3>1, FS_Interval
    <2>2. h \in [DOMAIN pool -> T] /\ \A x \in T : \E i \in DOMAIN pool : h[i] = x
      OBVIOUS
    <2>3. h \in Surjection(DOMAIN pool, T)
      BY <2>2 DEF Surjection
    <2>4. ats = T \cup {0} /\ T \in SUBSET Nat
      BY <1>2
    <2> HIDE DEF h, T, ats
    <2>5. IsFiniteSet(T)
      BY <2>1, <2>3, FS_Surjection
    <2>6. IsFiniteSet(ats)
      BY <2>4, <2>5, FS_AddElement
    <2>7. ats \in SUBSET Nat /\ ats # {}
      BY <2>4
    <2>8. Max(ats) \in ats
      BY <2>6, <2>7, GreatestIs
    <2> QED
      BY <1>1, <2>7, <2>8
  <1>4. /\ db.records = <<>> /\ db.spans = {}
        /\ db = [spans |-> db.spans, tombstones |-> db.tombstones, records |-> db.records, tags |-> db.tags,
                 generation |-> db.generation, strikes |-> db.strikes, previous |-> db.previous]
    BY <1>1 DEF EmptyDb
  <1>5. IsList(<<>>) /\ DOMAIN <<>> = {}
    BY DEF IsList, Range
  <1>6. ImageTrue(pool, <<>>, {})
    BY <1>5, FS_EmptySet DEF ImageTrue
  <1>7. PreviewHonest
    BY <1>1 DEF PreviewHonest, NoPass
  <1> QED
    BY <1>1, <1>3, <1>4, <1>6, <1>7 DEF CompactionInv

LEMMA CompactionSteps == CompactionInv /\ [CompactionNext]_compactionVars => CompactionInv'
  BY CompactPoolKeeps, FollowUpKeeps, CompressAllKeeps, DeleteKeeps, SweepKeeps, RecordViewKeeps,
     AddTombstonesKeeps, ReopenKeeps, QuietStepsKeep DEF CompactionNext

LEMMA CompactionImplies == CompactionInv => CompactionTrue
  <1> SUFFICES ASSUME CompactionInv
               PROVE  CompactionTrue
    OBVIOUS
  <1>1. SpanNoOutlive
    <2> SUFFICES ASSUME NEW v \in view, NEW t \in swept, NEW i \in DOMAIN v.spans,
                        NEW id \in Range(v.spans[i].sources) \cap Ids(pool)
                 PROVE  ~Over(GetTag(TagsGiven, id), Original(id).at, t)
      BY DEF SpanNoOutlive
    <2> DEFINE j == CHOOSE j \in DOMAIN pool : pool[j].id = id
    <2>1. j \in DOMAIN pool /\ pool[j].id = id
      BY DEF Ids
    <2>2. Original(id) = pool[j]
      BY DEF Original
    <2> HIDE DEF j
    <2>3. Young(pool, v, t) /\ v.spans[i] \in Range(v.spans)
      BY DEF CompactionInv, Range
    <2> QED
      BY <2>1, <2>2, <2>3 DEF Young
  <1>2. TombstonesHold
    <2> SUFFICES ASSUME NEW v \in view
                 PROVE  /\ \A i \in DOMAIN v.spans : ~Hit(v.spans[i], v.tombstones)
                        /\ Ids(v.records) \cap v.tombstones = {}
      BY DEF TombstonesHold
    <2>1. Forgotten(v)
      BY DEF CompactionInv
    <2>2. \A i \in DOMAIN v.spans : v.spans[i] \in Range(v.spans)
      BY DEF Range
    <2> QED
      BY <2>1, <2>2 DEF Forgotten
  <1>3. PreviewHonest
    BY DEF CompactionInv
  <1> QED
    BY <1>1, <1>2, <1>3 DEF CompactionTrue

\* Whatever is compressed, compressed again, deleted, swept, recorded and
\* reloaded, and wherever it crashes: what was deleted or has outlived its class
\* stays gone from every view, and a pass does what its preview says.
THEOREM CompactionIsTrue == CompactionSpec => []CompactionTrue
  <1> QED
    BY CompactionStarts, CompactionSteps, CompactionImplies, PTL DEF CompactionSpec

-----------------------------------------------------------------------------
(* The assembly of a turn.  Sums of sizes are compared as cardinalities of
   sets of bytes (Grains), which makes them independent of the order in which
   the selection and the output count them. *)

\* A later reference is no shorter.
LEMMA RefLenGrows ==
    /\ \A n \in Nat : RefLen(n) \in Nat
    /\ \A m, n \in Nat : m <= n => RefLen(m) <= RefLen(n)
  <1> DEFINE D(n) == {d \in Decades : d <= n}
  <1>1. RefBase \in Nat /\ Decades \in SUBSET Nat /\ IsFiniteSet(Decades)
    BY AssemblyAssumption
  <1>2. ASSUME NEW n \in Nat
        PROVE  IsFiniteSet(D(n)) /\ Cardinality(D(n)) \in Nat /\ RefLen(n) = RefBase + Cardinality(D(n))
    <2>1. D(n) \in SUBSET Decades
      OBVIOUS
    <2>2. IsFiniteSet(D(n))
      BY <1>1, <2>1, FS_Subset
    <2> QED
      BY <2>2, FS_CardinalityType DEF RefLen
  <1>3. ASSUME NEW m \in Nat, NEW n \in Nat, m <= n
        PROVE  Cardinality(D(m)) <= Cardinality(D(n))
    <2>1. ASSUME NEW d \in D(m)
          PROVE  d \in D(n)
      <3>1. d \in Decades /\ d \in Nat /\ d <= m
        BY <1>1
      <3> QED
        BY <1>3, <3>1
    <2>2. IsFiniteSet(D(n))
      BY <1>2
    <2> HIDE DEF D
    <2> QED
      BY <2>1, <2>2, FS_Subset
  <1> HIDE DEF D
  <1> QED
    BY <1>1, <1>2, <1>3

\* A record has a size and a rank.
LEMMA RecordCounts ==
    ASSUME NEW r, IsRecord(r)
    PROVE  Footprint(r) \in Nat /\ EffectivePriority(r) \in Nat
  <1>1. /\ r.priority \in Nat /\ r.sumLen \in Nat /\ r.untrusted \in BOOLEAN
        /\ r.body.size \in Nat /\ r.body.ref \in Nat
    BY DEF IsRecord
  <1>2. Footprint(r) \in Nat
    <2>1. RefLen(r.body.ref) \in Nat
      BY <1>1, RefLenGrows
    <2> QED
      BY <1>1, <2>1 DEF Footprint
  <1>3. Min({r.priority, 1}) \in Nat
    <2>1. {r.priority, 1} \in SUBSET Nat /\ {r.priority, 1} # {}
      BY <1>1
    <2> QED
      BY <2>1, LeastIs
  <1> QED
    BY <1>1, <1>2, <1>3 DEF EffectivePriority

\* Of several copies one survives, a trusted one if there is one.
LEMMA SurvivorIs ==
    ASSUME NEW rs, NEW S, S \in SUBSET Nat, IsFiniteSet(S), S # {}, \A i \in S : rs[i].at \in Nat
    PROVE  Survivor(rs, S) \in S /\ ((\E i \in S : ~rs[i].untrusted) => ~rs[Survivor(rs, S)].untrusted)
  <1> DEFINE trusted == {i \in S : ~rs[i].untrusted}
             best    == IF trusted = {} THEN S ELSE trusted
             newest  == {i \in best : \A j \in best : rs[j].at <= rs[i].at}
             times   == {rs[i].at : i \in best}
  <1>1. best \in SUBSET S /\ best # {} /\ IsFiniteSet(best)
    BY FS_Subset
  <1>2. Survivor(rs, S) = Min(newest)
    BY DEF Survivor
  <1>3. best \subseteq trusted \/ trusted = {}
    OBVIOUS
  <1> HIDE DEF best
  <1>4. times \in SUBSET Nat /\ times # {}
    BY <1>1
  <1>5. IsFiniteSet(times)
    <2> DEFINE f == [i \in best |-> rs[i].at]
    <2>1. f \in Surjection(best, times)
      BY DEF Surjection
    <2> QED
      BY <1>1, <2>1, FS_Surjection
  <1>6. Max(times) \in times /\ \A x \in times : x <= Max(times)
    BY <1>4, <1>5, GreatestIs
  <1>7. newest # {} /\ newest \in SUBSET Nat
    BY <1>1, <1>6
  <1>8. Min(newest) \in newest
    BY <1>7, LeastIs
  <1> QED
    BY <1>1, <1>2, <1>3, <1>8

\* The copies of a record: itself among them, and the same for each of them.
LEMMA CopiesAre ==
    ASSUME NEW rs, IsList(rs), NEW i \in Surviving(rs)
    PROVE  /\ Surviving(rs) \in SUBSET Nat /\ IsFiniteSet(Surviving(rs)) /\ Surviving(rs) \subseteq DOMAIN rs
           /\ Copies(rs, i) \in SUBSET Nat /\ IsFiniteSet(Copies(rs, i)) /\ i \in Copies(rs, i)
           /\ \A j \in Copies(rs, i) : j \in Surviving(rs) /\ Twins(rs[j], rs[i]) /\ Copies(rs, j) = Copies(rs, i)
  <1>1. Len(rs) \in Nat /\ DOMAIN rs = 1..Len(rs)
    BY ListHas
  <1>2. Surviving(rs) \in SUBSET (1..Len(rs))
    BY <1>1 DEF Surviving
  <1>3. IsFiniteSet(1..Len(rs))
    BY <1>1, FS_Interval
  <1>4. IsFiniteSet(Surviving(rs))
    BY <1>2, <1>3, FS_Subset
  <1>5. Copies(rs, i) \in SUBSET Surviving(rs)
    BY DEF Copies
  <1>6. IsFiniteSet(Copies(rs, i))
    BY <1>4, <1>5, FS_Subset
  <1>7. i \in Copies(rs, i)
    BY DEF Copies, Twins
  <1>8. ASSUME NEW j \in Copies(rs, i)
        PROVE  j \in Surviving(rs) /\ Twins(rs[j], rs[i]) /\ Copies(rs, j) = Copies(rs, i)
    BY DEF Copies, Twins
  <1> QED
    BY <1>1, <1>2, <1>4, <1>5, <1>6, <1>7, <1>8

\* What is left of the records: survivors, each once, and of each record that
\* was not superseded a twin, trusted if the record was.
LEMMA DedupedIs ==
    ASSUME NEW rs, IsList(rs), \A i \in DOMAIN rs : rs[i].at \in Nat
    PROVE  /\ IsList(Deduped(rs)) /\ Surviving(rs) \subseteq DOMAIN rs
           /\ \A k \in DOMAIN Deduped(rs) : Deduped(rs)[k] \in Surviving(rs)
           /\ \A k, l \in DOMAIN Deduped(rs) : Deduped(rs)[k] = Deduped(rs)[l] => k = l
           /\ \A i \in Surviving(rs) : \E k \in DOMAIN Deduped(rs) :
                /\ Twins(rs[i], rs[Deduped(rs)[k]])
                /\ ~rs[i].untrusted => ~rs[Deduped(rs)[k]].untrusted
  <1> DEFINE S == Surviving(rs)
             C(i) == Copies(rs, i)
             F == {i \in S : i = Min(C(i))}
             n == Cardinality(F)
             f == InOrder(F)
             D == Deduped(rs)
  <1>1. Len(rs) \in Nat /\ DOMAIN rs = 1..Len(rs)
    BY ListHas
  <1>2. S \in SUBSET (1..Len(rs))
    BY <1>1 DEF Surviving
  <1>3. IsFiniteSet(1..Len(rs))
    BY <1>1, FS_Interval
  <1>4. F \in SUBSET (1..Len(rs)) /\ F \in SUBSET Nat
    BY <1>1, <1>2
  <1>5. IsFiniteSet(F)
    BY <1>3, <1>4, FS_Subset
  <1>6. /\ n \in Nat /\ f \in [1..n -> F]
        /\ \A j, k \in 1..n : j < k => f[j] < f[k]
        /\ \A i \in F : \E k \in 1..n : f[k] = i
    BY <1>4, <1>5, InOrderIs
  <1>7. D = [k \in 1..n |-> Survivor(rs, C(f[k]))]
    BY <1>6 DEF Deduped
  <1> HIDE DEF n, f, D
  <1>8. IsList(D) /\ DOMAIN D = 1..n
    <2>1. D = [k \in 1..n |-> D[k]]
      BY <1>7
    <2> QED
      BY <1>6, <2>1, ListIs
  <1>9. ASSUME NEW i \in S
        PROVE  /\ C(i) \in SUBSET Nat /\ IsFiniteSet(C(i)) /\ i \in C(i)
               /\ \A j \in C(i) : j \in S /\ Twins(rs[j], rs[i]) /\ C(j) = C(i)
               /\ Min(C(i)) \in C(i)
               /\ Survivor(rs, C(i)) \in C(i)
               /\ (\E j \in C(i) : ~rs[j].untrusted) => ~rs[Survivor(rs, C(i))].untrusted
    <2>1. /\ C(i) \in SUBSET Nat /\ IsFiniteSet(C(i)) /\ i \in C(i)
          /\ \A j \in C(i) : j \in S /\ Twins(rs[j], rs[i]) /\ C(j) = C(i)
      BY CopiesAre
    <2>2. Min(C(i)) \in C(i)
      BY <2>1, LeastIs
    <2>3. \A j \in C(i) : rs[j].at \in Nat
      BY <1>1, <1>2, <2>1
    <2>4. /\ Survivor(rs, C(i)) \in C(i)
          /\ (\E j \in C(i) : ~rs[j].untrusted) => ~rs[Survivor(rs, C(i))].untrusted
      BY <2>1, <2>3, SurvivorIs
    <2> QED
      BY <2>1, <2>2, <2>4
  <1> HIDE DEF C, S
  <1>10. ASSUME NEW k \in 1..n
         PROVE  f[k] \in S /\ f[k] = Min(C(f[k])) /\ D[k] = Survivor(rs, C(f[k])) /\ D[k] \in C(f[k]) /\ D[k] \in S
    <2>1. f[k] \in F
      BY <1>6
    <2>2. f[k] \in S /\ f[k] = Min(C(f[k]))
      BY <2>1
    <2>3. D[k] = Survivor(rs, C(f[k]))
      BY <1>7
    <2> QED
      BY <1>9, <2>2, <2>3
  <1>11. ASSUME NEW k \in 1..n, NEW l \in 1..n, D[k] = D[l]
         PROVE  k = l
    <2>1. C(f[k]) = C(f[l])
      <3>1. C(D[k]) = C(f[k])
        BY <1>9, <1>10
      <3>2. C(D[l]) = C(f[l])
        BY <1>9, <1>10
      <3> QED
        BY <1>11, <3>1, <3>2
    <2>2. f[k] = f[l]
      BY <1>10, <2>1
    <2>3. k \in Nat /\ l \in Nat /\ f[k] \in Nat
      BY <1>4, <1>6
    <2>4. (k < l => f[k] < f[l]) /\ (l < k => f[l] < f[k])
      BY <1>6
    <2> QED
      BY <2>2, <2>3, <2>4
  <1>12. ASSUME NEW i \in S
         PROVE  \E k \in 1..n : Twins(rs[i], rs[D[k]]) /\ (~rs[i].untrusted => ~rs[D[k]].untrusted)
    <2> DEFINE m == Min(C(i))
    <2>1. m \in C(i) /\ m \in S /\ C(m) = C(i) /\ i \in C(i)
      BY <1>9
    <2> HIDE DEF m
    <2>2. m = Min(C(m))
      BY <2>1 DEF m
    <2>3. m \in F
      BY <2>1, <2>2
    <2>4. PICK k \in 1..n : f[k] = m
      BY <1>6, <2>3
    <2>5. D[k] = Survivor(rs, C(i))
      BY <1>10, <2>1, <2>4
    <2>6. /\ Survivor(rs, C(i)) \in C(i)
          /\ ~rs[i].untrusted => ~rs[Survivor(rs, C(i))].untrusted
      BY <1>9, <2>1
    <2>7. Twins(rs[Survivor(rs, C(i))], rs[i])
      BY <1>9, <2>6
    <2>8. Twins(rs[i], rs[D[k]])
      BY <2>5, <2>7 DEF Twins
    <2> QED
      BY <2>5, <2>6, <2>8
  <1>13. S \subseteq DOMAIN rs
    BY <1>1, <1>2
  <1> QED
    BY <1>8, <1>10, <1>11, <1>12, <1>13 DEF S, D

\* The selection takes every record once, each sooner than the ones after it.
LEMMA SelectionOrderIs ==
    ASSUME NEW st, IsList(st), \A i \in DOMAIN st : EffectivePriority(st[i]) \in Nat
    PROVE  /\ SelectionOrder(st) \in [DOMAIN st -> DOMAIN st]
           /\ \A j, k \in DOMAIN st : j < k => Sooner(st, SelectionOrder(st)[j], SelectionOrder(st)[k])
           /\ \A j, k \in DOMAIN st : SelectionOrder(st)[j] = SelectionOrder(st)[k] => j = k
           /\ \A i \in DOMAIN st : \E k \in DOMAIN st : SelectionOrder(st)[k] = i
  <1> DEFINE N == Len(st)
             E(i) == EffectivePriority(st[i])
             B(i) == {j \in 1..N : Sooner(st, j, i)}
             P(i) == Cardinality(B(i))
             o == SelectionOrder(st)
  <1>1. N \in Nat /\ DOMAIN st = 1..N
    BY ListHas
  <1>2. \A i \in 1..N : E(i) \in Nat
    BY <1>1
  <1>3. \A i, j \in 1..N : Sooner(st, i, j) <=> E(i) > E(j) \/ (E(i) = E(j) /\ i < j)
    BY DEF Sooner
  <1> HIDE DEF N, E
  <1>4. /\ \A i \in 1..N : ~Sooner(st, i, i)
        /\ \A i, j \in 1..N : Sooner(st, i, j) \/ Sooner(st, j, i) \/ i = j
        /\ \A i, j \in 1..N : ~(Sooner(st, i, j) /\ Sooner(st, j, i))
    BY <1>1, <1>2, <1>3
  <1>5. \A i, j, k \in 1..N : Sooner(st, i, j) /\ Sooner(st, j, k) => Sooner(st, i, k)
    BY <1>1, <1>2, <1>3
  <1>6. IsFiniteSet(1..N) /\ Cardinality(1..N) = N
    BY <1>1, FS_Interval
  <1>7. ASSUME NEW i \in 1..N
        PROVE  /\ B(i) \in SUBSET (1..N) /\ IsFiniteSet(B(i)) /\ P(i) \in Nat /\ P(i) + 1 \in 1..N
               /\ IsFiniteSet(B(i) \cup {i}) /\ Cardinality(B(i) \cup {i}) = P(i) + 1
    <2>1. B(i) \in SUBSET (1..N) /\ i \notin B(i)
      BY <1>4
    <2> HIDE DEF B
    <2>2. IsFiniteSet(B(i))
      BY <1>6, <2>1, FS_Subset
    <2>3. P(i) \in Nat
      BY <2>2, FS_CardinalityType
    <2>4. IsFiniteSet(B(i) \cup {i}) /\ Cardinality(B(i) \cup {i}) = P(i) + 1
      BY <2>1, <2>2, FS_AddElement
    <2>5. B(i) \cup {i} \in SUBSET (1..N)
      BY <2>1
    <2>6. P(i) + 1 <= N
      BY <1>6, <2>4, <2>5, FS_Subset
    <2> QED
      BY <1>1, <2>1, <2>2, <2>3, <2>4, <2>6
  <1>8. ASSUME NEW i \in 1..N, NEW j \in 1..N, Sooner(st, i, j)
        PROVE  P(i) < P(j)
    <2>1. B(i) \cup {i} \in SUBSET B(j)
      BY <1>5, <1>8
    <2>2. /\ IsFiniteSet(B(j)) /\ P(i) \in Nat /\ P(j) \in Nat
          /\ Cardinality(B(i) \cup {i}) = P(i) + 1
      BY <1>7
    <2> HIDE DEF B
    <2>3. Cardinality(B(i) \cup {i}) <= P(j)
      BY <2>1, <2>2, FS_Subset
    <2> QED
      BY <2>2, <2>3
  <1> DEFINE f == [i \in 1..N |-> P(i) + 1]
  <1>9. \A i, j \in 1..N : P(i) = P(j) => i = j
    <2> SUFFICES ASSUME NEW i \in 1..N, NEW j \in 1..N, P(i) = P(j)
                 PROVE  i = j
      OBVIOUS
    <2>1. P(i) \in Nat /\ P(j) \in Nat
      BY <1>7
    <2>2. (Sooner(st, i, j) => P(i) < P(j)) /\ (Sooner(st, j, i) => P(j) < P(i))
      BY <1>8
    <2> HIDE DEF P
    <2> QED
      BY <1>4, <2>1, <2>2
  <1>10. f \in Surjection(1..N, 1..N)
    <2>1. \A i \in 1..N : P(i) + 1 \in 1..N /\ P(i) \in Nat
      BY <1>7
    <2> HIDE DEF P
    <2>2. f \in [1..N -> 1..N]
      BY <2>1
    <2>3. \A i, j \in 1..N : f[i] = f[j] => i = j
      BY <1>9, <2>1
    <2>4. f \in Injection(1..N, 1..N)
      BY <2>2, <2>3 DEF Injection, IsInjective
    <2> HIDE DEF f
    <2> QED
      BY <1>6, <2>4, FS_Injection
  <1>11. ASSUME NEW k \in 1..N
         PROVE  o[k] \in 1..N /\ P(o[k]) = k - 1
    <2>1. \E i \in 1..N : P(i) = k - 1
      <3>1. PICK i \in 1..N : f[i] = k
        BY <1>10 DEF Surjection
      <3>2. P(i) \in Nat
        BY <1>7
      <3> HIDE DEF P
      <3>3. P(i) + 1 = k
        BY <3>1
      <3> QED
        BY <3>2, <3>3
    <2>2. o[k] = CHOOSE i \in 1..N : P(i) = k - 1
      BY <1>1 DEF SelectionOrder
    <2> HIDE DEF P, o
    <2> QED
      BY <2>1, <2>2
  <1>12. o \in [1..N -> 1..N]
    <2> DEFINE g(k) == CHOOSE i \in 1..N : P(i) = k - 1
    <2>1. o = [k \in 1..N |-> g(k)]
      BY <1>1 DEF SelectionOrder
    <2> HIDE DEF g
    <2>2. DOMAIN o = 1..N /\ o = [k \in 1..N |-> o[k]]
      <3> HIDE DEF o
      <3> QED
        BY <2>1
    <2> HIDE DEF o
    <2> QED
      BY <1>11, <2>2
  <1> HIDE DEF o
  <1>13. ASSUME NEW j \in 1..N, NEW k \in 1..N
         PROVE  (j < k => Sooner(st, o[j], o[k])) /\ (o[j] = o[k] => j = k)
    <2>1. o[j] \in 1..N /\ o[k] \in 1..N /\ P(o[j]) = j - 1 /\ P(o[k]) = k - 1
      BY <1>11
    <2>2. Sooner(st, o[k], o[j]) => P(o[k]) < P(o[j])
      BY <1>8, <2>1
    <2> HIDE DEF P
    <2>3. j \in Nat /\ k \in Nat
      BY <1>1
    <2>4. o[j] = o[k] => j = k
      BY <2>1, <2>3
    <2>5. j < k => o[j] # o[k] /\ ~Sooner(st, o[k], o[j])
      BY <2>1, <2>2, <2>3
    <2> QED
      BY <1>4, <2>1, <2>3, <2>4, <2>5
  <1>14. ASSUME NEW i \in 1..N
         PROVE  \E k \in 1..N : o[k] = i
    <2>1. P(i) + 1 \in 1..N /\ P(i) \in Nat
      BY <1>7
    <2>2. o[P(i) + 1] \in 1..N /\ P(o[P(i) + 1]) = (P(i) + 1) - 1
      BY <1>11, <2>1
    <2> HIDE DEF P
    <2>3. (P(i) + 1) - 1 = P(i)
      BY <2>1
    <2>4. o[P(i) + 1] = i
      BY <1>9, <2>2, <2>3
    <2> QED
      BY <2>1, <2>4
  <1> QED
    BY <1>1, <1>12, <1>13, <1>14 DEF o

\* The bytes of the records of S, told apart, so that a sum is a cardinality
\* and does not depend on an order.
Grains(F, S) == {p \in S \X Nat : p[2] < F[p[1]]}

\* One more record brings its own bytes.
LEMMA GrainsGrow ==
    ASSUME NEW F, NEW S, NEW i, i \notin S, F[i] \in Nat, IsFiniteSet(Grains(F, S))
    PROVE  /\ IsFiniteSet(Grains(F, S \cup {i}))
           /\ Cardinality(Grains(F, S \cup {i})) = Cardinality(Grains(F, S)) + F[i]
  <1> DEFINE X == {p \in {i} \X Nat : p[2] < F[i]}
             g == [k \in 1..F[i] |-> <<i, k - 1>>]
  <1>1. g \in Bijection(1..F[i], X)
    <2>1. ASSUME NEW k \in 1..F[i]
          PROVE  <<i, k - 1>> \in X
      OBVIOUS
    <2>2. ASSUME NEW p \in X
          PROVE  \E k \in 1..F[i] : <<i, k - 1>> = p
      <3>1. p[1] = i /\ p[2] \in Nat /\ p[2] < F[i] /\ p = <<p[1], p[2]>>
        OBVIOUS
      <3>2. p[2] + 1 \in 1..F[i] /\ (p[2] + 1) - 1 = p[2]
        BY <3>1
      <3> QED
        BY <3>1, <3>2
    <2>3. g \in [1..F[i] -> X]
      BY <2>1
    <2>4. \A k, l \in 1..F[i] : g[k] = g[l] => k = l
      OBVIOUS
    <2>5. \A p \in X : \E k \in 1..F[i] : g[k] = p
      BY <2>2
    <2> HIDE DEF X, g
    <2>6. g \in Injection(1..F[i], X)
      BY <2>3, <2>4 DEF Injection, IsInjective
    <2>7. g \in Surjection(1..F[i], X)
      BY <2>3, <2>5 DEF Surjection
    <2> QED
      BY <2>6, <2>7 DEF Bijection
  <1>2. IsFiniteSet(1..F[i]) /\ Cardinality(1..F[i]) = F[i]
    <2>1. 1 \in Int /\ F[i] \in Int
      OBVIOUS
    <2>2. IsFiniteSet(1..F[i]) /\ Cardinality(1..F[i]) = IF 1 > F[i] THEN 0 ELSE F[i] - 1 + 1
      BY <2>1, FS_Interval
    <2> QED
      BY <2>2
  <1>3. IsFiniteSet(X) /\ Cardinality(X) = F[i]
    <2> HIDE DEF X, g
    <2>1. ExistsBijection(1..F[i], X)
      BY <1>1 DEF ExistsBijection
    <2> QED
      BY <1>2, <2>1, FS_Bijection
  <1>4. Grains(F, S \cup {i}) = Grains(F, S) \cup X
    BY DEF Grains
  <1>5. Grains(F, S) \cap X = {}
    BY DEF Grains
  <1> HIDE DEF X
  <1>6. Cardinality({}) = 0 /\ Cardinality(Grains(F, S)) \in Nat
    BY FS_EmptySet, FS_CardinalityType
  <1>7. /\ IsFiniteSet(Grains(F, S) \cup X)
        /\ Cardinality(Grains(F, S) \cup X) = Cardinality(Grains(F, S)) + Cardinality(X) - Cardinality(Grains(F, S) \cap X)
    BY <1>3, FS_Union
  <1>8. Cardinality(Grains(F, S) \cap X) = 0
    BY <1>5, <1>6
  <1>9. Cardinality(Grains(F, S) \cup X) = Cardinality(Grains(F, S)) + F[i]
    BY <1>3, <1>6, <1>7, <1>8
  <1> QED
    BY <1>4, <1>7, <1>9

\* Records that are each no larger than another one of T, no two than the same,
\* are together no larger than T.
LEMMA GrainsBelow ==
    ASSUME NEW F, NEW S, NEW G, NEW T, IsFiniteSet(Grains(G, T)), NEW h \in [S -> T],
           \A a, b \in S : h[a] = h[b] => a = b,
           \A a \in S : F[a] \in Nat /\ G[h[a]] \in Nat /\ F[a] <= G[h[a]]
    PROVE  IsFiniteSet(Grains(F, S)) /\ Cardinality(Grains(F, S)) <= Cardinality(Grains(G, T))
  <1> DEFINE m == [p \in Grains(F, S) |-> <<h[p[1]], p[2]>>]
  <1>1. ASSUME NEW p \in Grains(F, S)
        PROVE  /\ p[1] \in S /\ p[2] \in Nat /\ p = <<p[1], p[2]>>
               /\ <<h[p[1]], p[2]>> \in Grains(G, T)
    <2>1. p[1] \in S /\ p[2] \in Nat /\ p = <<p[1], p[2]>> /\ p[2] < F[p[1]]
      BY DEF Grains
    <2>2. h[p[1]] \in T /\ p[2] < G[h[p[1]]]
      BY <2>1
    <2> QED
      BY <2>1, <2>2 DEF Grains
  <1>2. m \in [Grains(F, S) -> Grains(G, T)]
    BY <1>1
  <1>3. ASSUME NEW p \in Grains(F, S), NEW q \in Grains(F, S), m[p] = m[q]
        PROVE  p = q
    <2>1. h[p[1]] = h[q[1]] /\ p[2] = q[2]
      BY <1>3
    <2> QED
      BY <1>1, <2>1
  <1>4. m \in Injection(Grains(F, S), Grains(G, T))
    <2> HIDE DEF m
    <2> QED
      BY <1>2, <1>3 DEF Injection, IsInjective
  <1> HIDE DEF m
  <1> QED
    BY <1>4, FS_Injection

\* The greedy fill, one record at a time.
LEMMA FilledIs ==
    ASSUME NEW st, IsList(st), NEW budget \in Nat,
           \A i \in DOMAIN st : EffectivePriority(st[i]) \in Nat /\ Footprint(st[i]) \in Nat
    PROVE  LET fill == Filled(st, budget)
               o    == SelectionOrder(st)
           IN  /\ fill[0] = [in |-> {}, used |-> 0]
               /\ \A n \in 0..Len(st) : fill[n] \in [in : SUBSET (DOMAIN st), used : Nat]
               /\ \A n \in 1..Len(st) : fill[n] = SelectStep(st, budget, fill[n - 1], o[n])
  <1> DEFINE N == Len(st)
             o == SelectionOrder(st)
             V == [in : SUBSET (1..N), used : Nat]
             a == [in |-> {}, used |-> 0]
             Step(n, x) == SelectStep(st, budget, x, o[n])
             F == [n \in 1..N |-> [x \in V |-> Step(n, x)]]
             Sat(f) == f = [n \in 0..N |-> IF n = 0 THEN a ELSE Step(n, f[n - 1])]
  <1>1. N \in Nat /\ DOMAIN st = 1..N
    BY ListHas
  <1>2. o \in [1..N -> 1..N]
    BY <1>1, SelectionOrderIs
  <1> HIDE DEF o, N
  <1>3. a \in V
    OBVIOUS
  <1>4. ASSUME NEW n \in 1..N, NEW x \in V
        PROVE  Step(n, x) \in V
    <2>1. o[n] \in 1..N /\ Footprint(st[o[n]]) \in Nat
      BY <1>1, <1>2
    <2>2. x.in \in SUBSET (1..N) /\ x.used \in Nat
      OBVIOUS
    <2> QED
      BY <2>1, <2>2 DEF SelectStep
  <1> HIDE DEF Step, V, a
  <1>5. F \in [1..N -> [V -> V]]
    BY <1>4
  <1>6. \A n \in 1..N, x \in V : F[n][x] = Step(n, x)
    OBVIOUS
  <1> HIDE DEF F
  <1>7. PICK f \in [0..N -> V] : f[0] = a /\ \A n \in 1..N : f[n] = F[n][f[n - 1]]
    <2>1. \E f : Recurs(f, N, V, a, F)
      BY <1>1, <1>3, <1>5, Recursion
    <2> QED
      BY <2>1 DEF Recurs
  <1>8. ASSUME NEW n \in 0..N
        PROVE  f[n] = IF n = 0 THEN a ELSE Step(n, f[n - 1])
    <2>1. CASE n = 0
      BY <1>7, <2>1
    <2>2. CASE n # 0
      <3>1. n \in 1..N /\ n - 1 \in 0..N
        BY <1>1, <2>2
      <3>2. f[n - 1] \in V /\ f[n] = F[n][f[n - 1]]
        BY <1>7, <3>1
      <3> QED
        BY <1>6, <2>2, <3>1, <3>2
    <2> QED
      BY <2>1, <2>2
  <1>9. Sat(f)
    <2>1. f = [n \in 0..N |-> f[n]]
      BY <1>7
    <2> QED
      BY <1>8, <2>1
  <1> DEFINE g == Filled(st, budget)
  <1>10. Sat(g)
    <2>1. g = CHOOSE x : Sat(x)
      BY DEF Filled, N, Step, a, o
    <2> HIDE DEF Sat, g
    <2> QED
      BY <1>9, <2>1
  <1>11. \A n \in 0..N : g[n] = IF n = 0 THEN a ELSE Step(n, g[n - 1])
    <2> HIDE DEF g
    <2> QED
      BY <1>10
  <1> HIDE DEF g
  <1> DEFINE Bad == {n \in 0..N : g[n] \notin V}
  <1>12. Bad = {}
    <2> SUFFICES ASSUME Bad # {}
                 PROVE  FALSE
      OBVIOUS
    <2>1. PICK m \in Bad : \A x \in Bad : m <= x
      <3>1. Bad \in SUBSET Nat
        OBVIOUS
      <3> HIDE DEF Bad
      <3> QED
        BY <3>1, LeastNatural
    <2>2. m # 0
      BY <1>3, <1>11, <2>1
    <2>3. m \in 1..N /\ m - 1 \in 0..N /\ m - 1 \notin Bad
      BY <1>1, <2>1, <2>2
    <2>4. g[m] = Step(m, g[m - 1]) /\ g[m - 1] \in V
      BY <1>11, <2>2, <2>3
    <2> QED
      BY <1>4, <2>1, <2>3, <2>4
  <1>13. /\ g[0] = a
         /\ \A n \in 0..N : g[n] \in V
         /\ \A n \in 1..N : g[n] = Step(n, g[n - 1])
    <2>1. 0 \in 0..N /\ \A n \in 1..N : n \in 0..N /\ n # 0
      BY <1>1
    <2> QED
      BY <1>11, <1>12, <2>1
  <1> QED
    BY <1>1, <1>13 DEF g, a, V, Step, N, o

\* What is selected fits the budget, and what is left out is larger than
\* anything selected after it.
LEMMA SelectedIs ==
    ASSUME NEW st, IsList(st), NEW budget \in Nat,
           \A i \in DOMAIN st : EffectivePriority(st[i]) \in Nat /\ Footprint(st[i]) \in Nat,
           NEW F, F = [i \in DOMAIN st |-> Footprint(st[i])]
    PROVE  LET in == Selected(st, budget)
           IN  /\ in \in SUBSET (DOMAIN st)
               /\ IsFiniteSet(Grains(F, in)) /\ Cardinality(Grains(F, in)) <= budget
               /\ \A i \in DOMAIN st \ in, j \in in : Sooner(st, i, j) => F[i] > F[j]
  <1> DEFINE N == Len(st)
             o == SelectionOrder(st)
             fill == Filled(st, budget)
             Good(n) == /\ fill[n].in \subseteq {o[k] : k \in 1..n}
                        /\ IsFiniteSet(Grains(F, fill[n].in)) /\ Cardinality(Grains(F, fill[n].in)) = fill[n].used
                        /\ fill[n].used <= budget
                        /\ \A k \in 0..n : fill[k].used <= fill[n].used
                        /\ \A k \in 1..n : o[k] \in fill[n].in <=> fill[k - 1].used + F[o[k]] <= budget
             Bad == {n \in 0..N : ~Good(n)}
  <1>1. N \in Nat /\ DOMAIN st = 1..N
    BY ListHas
  <1>2. /\ o \in [1..N -> 1..N]
        /\ \A j, k \in 1..N : j < k => Sooner(st, o[j], o[k])
        /\ \A j, k \in 1..N : o[j] = o[k] => j = k
        /\ \A i \in 1..N : \E k \in 1..N : o[k] = i
    BY <1>1, SelectionOrderIs
  <1>3. /\ fill[0] = [in |-> {}, used |-> 0]
        /\ \A n \in 0..N : fill[n] \in [in : SUBSET (1..N), used : Nat]
        /\ \A n \in 1..N : fill[n] = SelectStep(st, budget, fill[n - 1], o[n])
    BY <1>1, FilledIs
  <1>4. \A i \in 1..N : F[i] = Footprint(st[i]) /\ F[i] \in Nat
    BY <1>1
  <1>5. Selected(st, budget) = fill[N].in
    BY DEF Selected
  <1> HIDE DEF N, o, fill
  <1>6. \A n \in 0..N : fill[n].in \in SUBSET (1..N) /\ fill[n].used \in Nat
    BY <1>3
  <1>7. Good(0)
    <2>1. fill[0].in = {} /\ fill[0].used = 0
      BY <1>3
    <2>2. Grains(F, {}) = {}
      BY DEF Grains
    <2>3. IsFiniteSet({}) /\ Cardinality({}) = 0
      BY FS_EmptySet
    <2>4. \A k \in 0..0 : k = 0
      OBVIOUS
    <2>5. \A k \in 1..0 : FALSE
      OBVIOUS
    <2> QED
      BY <2>1, <2>2, <2>3, <2>4, <2>5
  <1>8. ASSUME NEW n \in 1..N, Good(n - 1)
        PROVE  Good(n)
    <2> DEFINE p == fill[n - 1]
               q == fill[n]
               i == o[n]
    <2>0. n - 1 \in 0..N /\ n \in 0..N /\ n \in Nat
      BY <1>1
    <2>1. p.in \in SUBSET (1..N) /\ p.used \in Nat /\ i \in 1..N /\ F[i] \in Nat /\ F[i] = Footprint(st[i])
      BY <1>2, <1>4, <1>6, <2>0
    <2>2. i \notin p.in
      <3> SUFFICES ASSUME i \in p.in
                   PROVE  FALSE
        OBVIOUS
      <3>1. PICK k \in 1..(n - 1) : i = o[k]
        BY <1>8
      <3>2. k \in 1..N /\ k # n
        BY <1>1, <2>0
      <3> QED
        BY <1>2, <3>1, <3>2
    <2>3. CASE p.used + F[i] <= budget
      <3>1. q = [in |-> p.in \cup {i}, used |-> p.used + F[i]]
        BY <1>3, <2>1, <2>3 DEF SelectStep
      <3>2. q.in = p.in \cup {i} /\ q.used = p.used + F[i]
        BY <3>1
      <3> HIDE DEF q, p, i
      <3>3. q.in \subseteq {o[k] : k \in 1..n}
        <4>1. \A k \in 1..(n - 1) : k \in 1..n
          BY <2>0
        <4>2. p.in \subseteq {o[k] : k \in 1..(n - 1)}
          BY <1>8 DEF p
        <4>3. n \in 1..n /\ i = o[n]
          BY <2>0 DEF i
        <4> QED
          BY <3>2, <4>1, <4>2, <4>3
      <3>4. IsFiniteSet(Grains(F, q.in)) /\ Cardinality(Grains(F, q.in)) = q.used
        <4>1. IsFiniteSet(Grains(F, p.in)) /\ Cardinality(Grains(F, p.in)) = p.used
          BY <1>8 DEF p
        <4>2. /\ IsFiniteSet(Grains(F, p.in \cup {i}))
              /\ Cardinality(Grains(F, p.in \cup {i})) = Cardinality(Grains(F, p.in)) + F[i]
          BY <2>1, <2>2, <4>1, GrainsGrow
        <4> QED
          BY <3>2, <4>1, <4>2
      <3>5. \A k \in 0..n : fill[k].used <= q.used
        <4> SUFFICES ASSUME NEW k \in 0..n
                     PROVE  fill[k].used <= q.used
          OBVIOUS
        <4>1. CASE k = n
          BY <2>0, <1>6, <4>1 DEF q
        <4>2. CASE k # n
          <5>1. k \in 0..(n - 1) /\ k \in 0..N
            BY <1>1, <2>0, <4>2
          <5>2. fill[k].used <= p.used /\ fill[k].used \in Nat
            BY <1>6, <1>8, <5>1 DEF p
          <5> QED
            BY <2>1, <3>2, <5>2
        <4> QED
          BY <4>1, <4>2
      <3>6. \A k \in 1..n : o[k] \in q.in <=> fill[k - 1].used + F[o[k]] <= budget
        <4> SUFFICES ASSUME NEW k \in 1..n
                     PROVE  o[k] \in q.in <=> fill[k - 1].used + F[o[k]] <= budget
          OBVIOUS
        <4>1. CASE k = n
          BY <2>3, <3>2, <4>1 DEF p, i
        <4>2. CASE k # n
          <5>1. k \in 1..(n - 1) /\ k \in 1..N
            BY <1>1, <2>0, <4>2
          <5>2. o[k] # i
            BY <1>2, <4>2, <5>1 DEF i
          <5>3. o[k] \in p.in <=> fill[k - 1].used + F[o[k]] <= budget
            BY <1>8, <5>1 DEF p
          <5> QED
            BY <3>2, <5>2, <5>3
        <4> QED
          BY <4>1, <4>2
      <3>7. q.used <= budget
        BY <2>3, <3>2
      <3> QED
        BY <3>3, <3>4, <3>5, <3>6, <3>7 DEF q
    <2>4. CASE ~(p.used + F[i] <= budget)
      <3>1. q = p
        BY <1>3, <2>1, <2>4 DEF SelectStep
      <3> HIDE DEF q, p, i
      <3>2. /\ p.in \subseteq {o[k] : k \in 1..(n - 1)}
            /\ IsFiniteSet(Grains(F, p.in)) /\ Cardinality(Grains(F, p.in)) = p.used
            /\ p.used <= budget
            /\ \A k \in 0..(n - 1) : fill[k].used <= p.used
            /\ \A k \in 1..(n - 1) : o[k] \in p.in <=> fill[k - 1].used + F[o[k]] <= budget
        BY <1>8 DEF p
      <3>3. \A k \in 0..n : k \in 0..(n - 1) \/ k = n
        BY <2>0
      <3>4. \A k \in 1..n : k \in 1..(n - 1) \/ k = n
        BY <2>0
      <3>5. \A k \in 1..(n - 1) : k \in 1..n
        BY <2>0
      <3>6. \A k \in 0..n : fill[k].used <= p.used
        BY <2>1, <3>1, <3>2, <3>3 DEF q
      <3>7. \A k \in 1..n : o[k] \in p.in <=> fill[k - 1].used + F[o[k]] <= budget
        <4>1. ~(o[n] \in p.in) /\ ~(fill[n - 1].used + F[o[n]] <= budget)
          BY <2>2, <2>4 DEF p, i
        <4> QED
          BY <3>2, <3>4, <4>1
      <3>8. p.in \subseteq {o[k] : k \in 1..n}
        BY <3>2, <3>5
      <3> QED
        BY <3>1, <3>2, <3>6, <3>7, <3>8 DEF q
    <2> QED
      BY <2>3, <2>4
  <1> HIDE DEF Good
  <1>9. Bad = {}
    <2> SUFFICES ASSUME Bad # {}
                 PROVE  FALSE
      OBVIOUS
    <2>1. PICK m \in Bad : \A x \in Bad : m <= x
      <3>1. Bad \in SUBSET Nat
        OBVIOUS
      <3> HIDE DEF Bad
      <3> QED
        BY <3>1, LeastNatural
    <2>2. m # 0
      BY <1>7, <2>1
    <2>3. m \in 1..N /\ m - 1 \in 0..N /\ m - 1 \notin Bad
      BY <1>1, <2>1, <2>2
    <2> QED
      BY <1>8, <2>1, <2>3
  <1>10. \A n \in 0..N : Good(n)
    BY <1>9
  <1> DEFINE in == fill[N].in
  <1>11. /\ in \in SUBSET (1..N)
         /\ IsFiniteSet(Grains(F, in)) /\ Cardinality(Grains(F, in)) <= budget
         /\ \A k \in 1..N : o[k] \in in <=> fill[k - 1].used + F[o[k]] <= budget
    <2>1. N \in 0..N
      BY <1>1
    <2> QED
      BY <1>6, <1>10, <2>1 DEF Good
  <1>12. ASSUME NEW i \in 1..N \ in, NEW j \in in, Sooner(st, i, j)
         PROVE  F[i] > F[j]
    <2>1. PICK a \in 1..N : o[a] = i
      BY <1>2
    <2>2. PICK b \in 1..N : o[b] = j
      BY <1>2, <1>11
    <2>3. a < b
      <3> SUFFICES ASSUME ~(a < b)
                   PROVE  FALSE
        OBVIOUS
      <3>1. a # b
        BY <1>12, <2>1, <2>2
      <3>2. b < a
        BY <1>1, <3>1
      <3>3. Sooner(st, j, i)
        BY <1>2, <2>1, <2>2, <3>2
      <3>4. i \in 1..N /\ j \in 1..N
        BY <1>11
      <3>5. EffectivePriority(st[i]) \in Nat /\ EffectivePriority(st[j]) \in Nat
        BY <1>1, <3>4
      <3> QED
        BY <1>1, <1>12, <3>3, <3>4, <3>5 DEF Sooner
    <2>4. ~(fill[a - 1].used + F[i] <= budget) /\ fill[b - 1].used + F[j] <= budget
      BY <1>11, <2>1, <2>2
    <2>5. a - 1 \in 0..N /\ b - 1 \in 0..N /\ a - 1 \in 0..(b - 1)
      BY <1>1, <2>3
    <2>6. fill[a - 1].used <= fill[b - 1].used
      BY <1>10, <2>5 DEF Good
    <2>7. fill[a - 1].used \in Nat /\ fill[b - 1].used \in Nat /\ F[i] \in Nat /\ F[j] \in Nat
      BY <1>4, <1>6, <1>11, <2>5
    <2> QED
      BY <2>4, <2>6, <2>7
  <1> QED
    BY <1>1, <1>5, <1>11, <1>12

\* What a turn spends is the number of its bytes.
LEMMA SpentIs ==
    ASSUME NEW out, IsList(out), \A i \in DOMAIN out : Footprint(out[i]) \in Nat,
           NEW F, F = [i \in DOMAIN out |-> Footprint(out[i])]
    PROVE  Spent(out) = Cardinality(Grains(F, DOMAIN out))
  <1> DEFINE N == Len(out)
             G == [n \in 1..N |-> [x \in Nat |-> x + Footprint(out[n])]]
             Sat(f) == f = [n \in 0..N |-> IF n = 0 THEN 0 ELSE f[n - 1] + Footprint(out[n])]
             S == CHOOSE f : Sat(f)
             Good(n) == IsFiniteSet(Grains(F, 1..n)) /\ Cardinality(Grains(F, 1..n)) = S[n]
             Bad == {n \in 0..N : ~Good(n)}
  <1>1. N \in Nat /\ DOMAIN out = 1..N
    BY ListHas
  <1>2. \A n \in 1..N : Footprint(out[n]) \in Nat /\ F[n] = Footprint(out[n])
    BY <1>1
  <1>3. Spent(out) = S[N]
    BY DEF Spent
  <1> HIDE DEF N
  <1>4. G \in [1..N -> [Nat -> Nat]] /\ \A n \in 1..N, x \in Nat : G[n][x] = x + Footprint(out[n])
    BY <1>2
  <1> HIDE DEF G
  <1>5. PICK f \in [0..N -> Nat] : f[0] = 0 /\ \A n \in 1..N : f[n] = G[n][f[n - 1]]
    <2>1. \E f : Recurs(f, N, Nat, 0, G)
      BY <1>1, <1>4, Recursion
    <2> QED
      BY <2>1 DEF Recurs
  <1>6. Sat(f)
    <2>1. ASSUME NEW n \in 0..N
          PROVE  f[n] = IF n = 0 THEN 0 ELSE f[n - 1] + Footprint(out[n])
      <3>1. CASE n = 0
        BY <1>5, <3>1
      <3>2. CASE n # 0
        <4>1. n \in 1..N /\ n - 1 \in 0..N
          BY <1>1, <3>2
        <4>2. f[n - 1] \in Nat /\ f[n] = G[n][f[n - 1]]
          BY <1>5, <4>1
        <4> QED
          BY <1>4, <3>2, <4>1, <4>2
      <3> QED
        BY <3>1, <3>2
    <2>2. f = [n \in 0..N |-> f[n]]
      BY <1>5
    <2> QED
      BY <2>1, <2>2
  <1>7. Sat(S)
    <2> HIDE DEF Sat
    <2> QED
      BY <1>6
  <1> HIDE DEF S
  <1>8. \A n \in 0..N : S[n] = IF n = 0 THEN 0 ELSE S[n - 1] + Footprint(out[n])
    BY <1>7
  <1> HIDE DEF Sat
  <1>9. Good(0)
    <2>1. Grains(F, 1..0) = {}
      BY DEF Grains
    <2>2. S[0] = 0
      BY <1>1, <1>8
    <2>3. IsFiniteSet({}) /\ Cardinality({}) = 0
      BY FS_EmptySet
    <2> QED
      BY <2>1, <2>2, <2>3
  <1>10. ASSUME NEW n \in 1..N, Good(n - 1)
         PROVE  Good(n)
    <2>0. n \notin 1..(n - 1) /\ n # 0 /\ n \in 0..N /\ n \in Nat
      BY <1>1
    <2>1. 1..n = (1..(n - 1)) \cup {n}
      BY <2>0
    <2>2. S[n] = S[n - 1] + F[n] /\ F[n] \in Nat
      BY <1>2, <1>8, <2>0
    <2>3. /\ IsFiniteSet(Grains(F, (1..(n - 1)) \cup {n}))
          /\ Cardinality(Grains(F, (1..(n - 1)) \cup {n})) = Cardinality(Grains(F, 1..(n - 1))) + F[n]
      BY <1>10, <2>0, <2>2, GrainsGrow
    <2> QED
      BY <1>10, <2>1, <2>2, <2>3
  <1> HIDE DEF Good
  <1>11. Bad = {}
    <2> SUFFICES ASSUME Bad # {}
                 PROVE  FALSE
      OBVIOUS
    <2>1. PICK m \in Bad : \A x \in Bad : m <= x
      <3>1. Bad \in SUBSET Nat
        OBVIOUS
      <3> HIDE DEF Bad
      <3> QED
        BY <3>1, LeastNatural
    <2>2. m # 0
      BY <1>9, <2>1
    <2>3. m \in 1..N /\ m - 1 \in 0..N /\ m - 1 \notin Bad
      BY <1>1, <2>1, <2>2
    <2> QED
      BY <1>10, <2>1, <2>3
  <1>12. Good(N)
    BY <1>1, <1>11
  <1> QED
    BY <1>1, <1>3, <1>12 DEF Good

\* A record whose body went to the store.
LEMMA WithReference ==
    ASSUME NEW r, IsRecord(r), NEW n \in Nat
    PROVE  LET w == [r EXCEPT !.body = Reference(n)]
           IN  /\ IsRecord(w) /\ w.id = r.id /\ w.body = Reference(n)
               /\ EffectivePriority(w) = EffectivePriority(r)
               /\ Footprint(w) = r.sumLen + RefLen(n)
  <1> DEFINE w == [r EXCEPT !.body = Reference(n)]
  <1>1. r = [id |-> r.id, provider |-> r.provider, owner |-> r.owner, generation |-> r.generation,
             at |-> r.at, priority |-> r.priority, summary |-> r.summary, sumLen |-> r.sumLen,
             body |-> r.body, supersedes |-> r.supersedes, untrusted |-> r.untrusted]
    BY DEF IsRecord
  <1>2. w = [id |-> r.id, provider |-> r.provider, owner |-> r.owner, generation |-> r.generation,
             at |-> r.at, priority |-> r.priority, summary |-> r.summary, sumLen |-> r.sumLen,
             body |-> Reference(n), supersedes |-> r.supersedes, untrusted |-> r.untrusted]
    BY <1>1, SMT
  <1> HIDE DEF w
  <1>3. /\ w.id = r.id /\ w.provider = r.provider /\ w.owner = r.owner /\ w.generation = r.generation
        /\ w.at = r.at /\ w.priority = r.priority /\ w.summary = r.summary /\ w.sumLen = r.sumLen
        /\ w.body = Reference(n) /\ w.supersedes = r.supersedes /\ w.untrusted = r.untrusted
    BY <1>2
  <1>4. Reference(n).kind = "artifact" /\ Reference(n).size = 0 /\ Reference(n).ref = n
    BY DEF Reference
  <1>5. IsRecord(w)
    BY <1>2, <1>3, <1>4 DEF IsRecord
  <1>6. EffectivePriority(w) = EffectivePriority(r)
    BY <1>3 DEF EffectivePriority
  <1>7. Footprint(w) = r.sumLen + RefLen(n)
    BY <1>3, <1>4 DEF Footprint
  <1> QED
    BY <1>3, <1>5, <1>6, <1>7 DEF w

\* How many large bodies stand at or before a position.
LEMMA RanksAre ==
    ASSUME NEW P, NEW n \in Nat, P \in SUBSET (1..n), NEW i \in 1..n
    PROVE  /\ IsFiniteSet(P) /\ P \in SUBSET Nat /\ Cardinality(P) \in Nat /\ RankIn(P, i) \in 0..Cardinality(P)
           /\ i \in P => RankIn(P, i) \in 1..Cardinality(P)
           /\ \A Q \in SUBSET P : RankIn(Q, i) \in Nat /\ RankIn(Q, i) <= RankIn(P, i)
  <1>1. IsFiniteSet(1..n)
    BY FS_Interval
  <1>2. IsFiniteSet(P) /\ P \in SUBSET Nat
    <2>1. IsFiniteSet(P)
      BY <1>1, FS_Subset
    <2> QED
      BY <2>1
  <1>3. Cardinality(P) \in Nat
    BY <1>2, FS_CardinalityType
  <1>4. ASSUME NEW Q \in SUBSET P
        PROVE  /\ IsFiniteSet({j \in Q : j <= i}) /\ RankIn(Q, i) = Cardinality({j \in Q : j <= i})
               /\ RankIn(Q, i) \in Nat
    <2>1. {j \in Q : j <= i} \in SUBSET P
      OBVIOUS
    <2>2. IsFiniteSet({j \in Q : j <= i})
      BY <1>2, <2>1, FS_Subset
    <2> QED
      BY <2>2, FS_CardinalityType DEF RankIn
  <1>5. ASSUME NEW Q \in SUBSET P
        PROVE  RankIn(Q, i) <= RankIn(P, i)
    <2> DEFINE A == {j \in Q : j <= i}
               B == {j \in P : j <= i}
    <2>1. A \in SUBSET B
      OBVIOUS
    <2>2. IsFiniteSet(B) /\ RankIn(Q, i) = Cardinality(A) /\ RankIn(P, i) = Cardinality(B)
      BY <1>4
    <2> HIDE DEF A, B
    <2> QED
      BY <2>1, <2>2, FS_Subset
  <1>6. RankIn(P, i) \in 0..Cardinality(P)
    <2> DEFINE B == {j \in P : j <= i}
    <2>1. B \in SUBSET P /\ RankIn(P, i) = Cardinality(B) /\ RankIn(P, i) \in Nat
      BY <1>4
    <2> HIDE DEF B
    <2>2. Cardinality(B) <= Cardinality(P)
      BY <1>2, <2>1, FS_Subset
    <2> QED
      BY <1>3, <2>1, <2>2
  <1>7. i \in P => RankIn(P, i) \in 1..Cardinality(P)
    BY <1>2, RanksRise
  <1> QED
    BY <1>2, <1>3, <1>4, <1>5, <1>6, <1>7

\* A list of records.
AreRecords(rs) == IsList(rs) /\ \A i \in DOMAIN rs : IsRecord(rs[i])

\* A committed record is the record, or the record with a reference.
LEMMA CommittedIs ==
    ASSUME NEW kept, AreRecords(kept), NEW s, s.next \in Nat,
           NEW in \in SUBSET (DOMAIN kept), NEW i \in in
    PROVE  /\ Committed(kept, in, s, i).id = kept[i].id
           /\ Externalizes(kept[i]) =>
                Committed(kept, in, s, i).body = Reference(s.next + RankIn(Pending(kept, in), i))
  <1> DEFINE c == Committed(kept, in, s, i)
             P == Pending(kept, in)
  <1>1. Len(kept) \in Nat /\ DOMAIN kept = 1..Len(kept)
    BY ListHas DEF AreRecords
  <1>2. P \in SUBSET (1..Len(kept)) /\ i \in 1..Len(kept) /\ IsRecord(kept[i])
    BY <1>1 DEF Pending, AreRecords
  <1>3. CASE ~Externalizes(kept[i])
    <2>1. c = kept[i]
      BY <1>3 DEF Committed
    <2> QED
      BY <1>3, <2>1
  <1>4. CASE Externalizes(kept[i])
    <2>1. c = [kept[i] EXCEPT !.body = Reference(s.next + RankIn(P, i))]
      BY <1>4 DEF Committed
    <2> HIDE DEF P
    <2>2. RankIn(P, i) \in 0..Cardinality(P) /\ Cardinality(P) \in Nat
      BY <1>1, <1>2, RanksAre
    <2>3. s.next + RankIn(P, i) \in Nat
      BY <2>2
    <2>4. c.id = kept[i].id /\ c.body = Reference(s.next + RankIn(P, i))
      BY <1>2, <2>1, <2>3, WithReference
    <2> QED
      BY <1>4, <2>4 DEF P
  <1> QED
    BY <1>3, <1>4

\* A staged record is the record, or the record with a reference no earlier
\* than the one the commit gives it.
LEMMA StagedIs ==
    ASSUME NEW kept, IsList(kept), \A i \in DOMAIN kept : IsRecord(kept[i]), NEW s, s.next \in Nat
    PROVE  /\ IsList(Staged(kept, s)) /\ DOMAIN Staged(kept, s) = DOMAIN kept
           /\ \A i \in DOMAIN kept :
                /\ IsRecord(Staged(kept, s)[i])
                /\ EffectivePriority(Staged(kept, s)[i]) = EffectivePriority(kept[i])
                /\ ~Externalizes(kept[i]) => Staged(kept, s)[i] = kept[i]
           /\ \A in \in SUBSET (DOMAIN kept) : \A i \in in :
                /\ IsRecord(Committed(kept, in, s, i))
                /\ Footprint(Committed(kept, in, s, i)) <= Footprint(Staged(kept, s)[i])
  <1> DEFINE N == Len(kept)
             X == {j \in 1..N : Externalizes(kept[j])}
             st == Staged(kept, s)
  <1>1. N \in Nat /\ DOMAIN kept = 1..N
    BY ListHas
  <1> HIDE DEF N
  <1>2. ASSUME NEW i \in 1..N
        PROVE  /\ {j \in 1..i : Externalizes(kept[j])} = {j \in X : j <= i}
               /\ st[i] = IF Externalizes(kept[i]) THEN [kept[i] EXCEPT !.body = Reference(s.next + RankIn(X, i))]
                          ELSE kept[i]
    <2>1. {j \in 1..i : Externalizes(kept[j])} = {j \in X : j <= i}
      BY <1>1
    <2> QED
      BY <1>1, <2>1 DEF Staged, RankIn
  <1>3. IsList(st) /\ DOMAIN st = 1..N
    <2>1. DOMAIN st = 1..N /\ st = [i \in 1..N |-> st[i]]
      BY <1>1 DEF Staged
    <2> HIDE DEF st
    <2> QED
      BY <1>1, <2>1, ListIs
  <1> HIDE DEF st
  <1>4. X \in SUBSET (1..N)
    OBVIOUS
  <1>5. ASSUME NEW i \in 1..N
        PROVE  /\ IsRecord(kept[i]) /\ kept[i].sumLen \in Nat
               /\ s.next + RankIn(X, i) \in Nat /\ RankIn(X, i) \in Nat
    <2>1. RankIn(X, i) \in 0..Cardinality(X) /\ Cardinality(X) \in Nat
      BY <1>1, <1>4, RanksAre
    <2>2. RankIn(X, i) \in Nat
      BY <2>1
    <2> QED
      BY <1>1, <2>2 DEF IsRecord
  <1>6. ASSUME NEW i \in 1..N
        PROVE  /\ IsRecord(st[i])
               /\ EffectivePriority(st[i]) = EffectivePriority(kept[i])
               /\ ~Externalizes(kept[i]) => st[i] = kept[i]
               /\ Externalizes(kept[i]) => Footprint(st[i]) = kept[i].sumLen + RefLen(s.next + RankIn(X, i))
    <2>1. CASE Externalizes(kept[i])
      <3>1. st[i] = [kept[i] EXCEPT !.body = Reference(s.next + RankIn(X, i))]
        BY <1>2, <2>1
      <3>2. IsRecord(kept[i]) /\ s.next + RankIn(X, i) \in Nat
        BY <1>5
      <3> HIDE DEF X
      <3>3. /\ IsRecord(st[i]) /\ EffectivePriority(st[i]) = EffectivePriority(kept[i])
            /\ Footprint(st[i]) = kept[i].sumLen + RefLen(s.next + RankIn(X, i))
        BY <3>1, <3>2, WithReference
      <3> QED
        BY <2>1, <3>3
    <2>2. CASE ~Externalizes(kept[i])
      BY <1>2, <1>5, <2>2
    <2> QED
      BY <2>1, <2>2
  <1>7. ASSUME NEW in \in SUBSET (1..N), NEW i \in in
        PROVE  /\ IsRecord(Committed(kept, in, s, i))
               /\ Footprint(Committed(kept, in, s, i)) <= Footprint(st[i])
    <2> DEFINE c == Committed(kept, in, s, i)
               P == Pending(kept, in)
    <2>1. i \in 1..N /\ IsRecord(kept[i]) /\ Footprint(st[i]) \in Nat
      BY <1>5, <1>6, RecordCounts
    <2>2. CASE ~Externalizes(kept[i])
      <3>1. c = kept[i]
        BY <2>2 DEF Committed
      <3>2. Footprint(c) <= Footprint(st[i])
        <4>1. st[i] = kept[i]
          BY <1>6, <2>1, <2>2
        <4>2. Footprint(c) = Footprint(st[i])
          BY <3>1, <4>1
        <4> QED
          BY <2>1, <4>2
      <3> QED
        BY <2>1, <2>2, <3>1, <3>2
    <2>3. CASE Externalizes(kept[i])
      <3>1. c = [kept[i] EXCEPT !.body = Reference(s.next + RankIn(P, i))]
        BY <2>3 DEF Committed
      <3>2. P \in SUBSET X
        BY DEF Pending
      <3>3. RankIn(P, i) \in Nat /\ RankIn(P, i) <= RankIn(X, i)
        BY <1>1, <1>4, <2>1, <3>2, RanksAre
      <3> HIDE DEF X, P
      <3>4. s.next + RankIn(P, i) \in Nat /\ s.next + RankIn(X, i) \in Nat
            /\ s.next + RankIn(P, i) <= s.next + RankIn(X, i)
        BY <1>5, <2>1, <3>3
      <3>5. /\ IsRecord(c)
            /\ Footprint(c) = kept[i].sumLen + RefLen(s.next + RankIn(P, i))
        BY <2>1, <3>1, <3>4, WithReference
      <3>6. /\ RefLen(s.next + RankIn(P, i)) <= RefLen(s.next + RankIn(X, i))
            /\ RefLen(s.next + RankIn(P, i)) \in Nat /\ RefLen(s.next + RankIn(X, i)) \in Nat
        BY <3>4, RefLenGrows
      <3>7. Footprint(st[i]) = kept[i].sumLen + RefLen(s.next + RankIn(X, i)) /\ kept[i].sumLen \in Nat
        BY <1>5, <1>6, <2>1, <2>3
      <3>8. Footprint(c) <= Footprint(st[i])
        BY <3>5, <3>6, <3>7
      <3> QED
        BY <2>3, <3>5, <3>8 DEF P
    <2> QED
      BY <2>2, <2>3
  <1> QED
    BY <1>1, <1>3, <1>6, <1>7 DEF st

\* Every entry of a store has a reference the store gave out.
StoreSound(s) ==
    /\ s = [entries |-> s.entries, next |-> s.next, deleted |-> s.deleted]
    /\ s.next \in Nat /\ IsList(s.entries)
    /\ \A e \in Range(s.entries) : e.ref \in 1..s.next

\* The commit gives each selected large body a reference of its own.
LEMMA CommittedStoreIs ==
    ASSUME NEW kept, IsList(kept), NEW in \in SUBSET (DOMAIN kept), NEW s, StoreSound(s), NEW g
    PROVE  LET c == CommittedStore(kept, in, s, g)
               P == Pending(kept, in)
           IN  /\ StoreSound(c) /\ c.next >= s.next
               /\ \A i \in P : s.next + RankIn(P, i) \in 1..c.next /\ RankIn(P, i) \in Nat \ {0}
               /\ \A i, j \in P : RankIn(P, i) = RankIn(P, j) => i = j
               /\ \A e \in Range(c.entries) :
                    e \in Range(s.entries)
                    \/ \E i \in P : e.ref = s.next + RankIn(P, i) /\ e.content = kept[i].body.content
  <1> DEFINE P == Pending(kept, in)
             n == Cardinality(P)
             f == InOrder(P)
             new == [m \in 1..n |-> [ref |-> s.next + m, content |-> kept[f[m]].body.content,
                                     size |-> kept[f[m]].body.size, generation |-> g]]
             c == CommittedStore(kept, in, s, g)
             T == Range(s.entries) \cup Range(new)
  <1>1. Len(kept) \in Nat /\ DOMAIN kept = 1..Len(kept)
    BY ListHas
  <1>2. P \in SUBSET (1..Len(kept)) /\ P \in SUBSET Nat
    BY <1>1 DEF Pending
  <1>3. IsFiniteSet(P)
    <2>1. IsFiniteSet(1..Len(kept))
      BY <1>1, FS_Interval
    <2> QED
      BY <1>2, <2>1, FS_Subset
  <1> HIDE DEF P
  <1>4. /\ n \in Nat /\ f \in [1..n -> P]
        /\ \A m \in 1..n : f[m] \in P /\ RankIn(P, f[m]) = m
        /\ \A i, j \in P : RankIn(P, i) = RankIn(P, j) => i = j
    BY <1>2, <1>3, InOrderIs, InOrderRanks
  <1>5. \A i \in P : RankIn(P, i) \in 1..n
    BY <1>2, <1>3, RanksRise
  <1>6. s = [entries |-> s.entries, next |-> s.next, deleted |-> s.deleted] /\ s.next \in Nat /\ IsList(s.entries)
        /\ \A e \in Range(s.entries) : e.ref \in 1..s.next
    BY DEF StoreSound
  <1> HIDE DEF n
  <1>7. IsList(f) /\ Len(f) = n /\ DOMAIN f = 1..n
    <2>1. f = [m \in 1..n |-> f[m]]
      BY <1>4
    <2> HIDE DEF f
    <2> QED
      BY <1>4, <2>1, ListIs
  <1>8. c = [s EXCEPT !.next = @ + n, !.entries = @ \o new]
    BY <1>7 DEF CommittedStore, P
  <1> HIDE DEF f
  <1>9. IsList(new) /\ Len(new) = n /\ DOMAIN new = 1..n
    <2>1. new = [m \in 1..n |-> new[m]]
      OBVIOUS
    <2> HIDE DEF new
    <2> QED
      BY <1>4, <2>1, ListIs
  <1>10. \A m \in 1..n : new[m].ref = s.next + m /\ new[m].content = kept[f[m]].body.content
    OBVIOUS
  <1> HIDE DEF new, c
  <1>11. c = [entries |-> s.entries \o new, next |-> s.next + n, deleted |-> s.deleted]
    <2> DEFINE x == s.entries
               y == s.next
               z == s.deleted
    <2>1. s = [entries |-> x, next |-> y, deleted |-> z]
      BY <1>6
    <2> HIDE DEF x, y, z
    <2>2. [s EXCEPT !.next = @ + n, !.entries = @ \o new]
           = [entries |-> s.entries \o new, next |-> s.next + n, deleted |-> z]
      <3> DEFINE u == s.entries \o new
                 v == s.next + n
      <3>1. [s EXCEPT !.next = @ + n, !.entries = @ \o new] = [s EXCEPT !.next = v, !.entries = u]
        BY <2>1
      <3> HIDE DEF u, v
      <3>2. [s EXCEPT !.next = v, !.entries = u] = [entries |-> u, next |-> v, deleted |-> z]
        <4> DEFINE t == [s EXCEPT !.next = v]
        <4>1. t = [entries |-> x, next |-> v, deleted |-> z]
          BY <2>1, SMT
        <4>2. [s EXCEPT !.next = v, !.entries = u] = [t EXCEPT !.entries = u]
          BY <2>1, SMT
        <4> HIDE DEF t
        <4>3. [t EXCEPT !.entries = u] = [entries |-> u, next |-> v, deleted |-> z]
          BY <4>1, SMT
        <4> QED
          BY <4>2, <4>3
      <3> QED
        BY <3>1, <3>2 DEF u, v
    <2> QED
      BY <1>8, <2>2 DEF z
  <1>12. c.entries = s.entries \o new /\ c.next = s.next + n /\ c.deleted = s.deleted
    BY <1>11
  <1>13. s.entries \in Seq(T) /\ new \in Seq(T)
    <2>1. s.entries \in Seq(Range(s.entries)) /\ new \in Seq(Range(new))
      BY <1>6, <1>9 DEF IsList
    <2> DEFINE a == s.entries
    <2> HIDE DEF a
    <2>2. Range(a) \in SUBSET (Range(a) \cup Range(new)) /\ Range(new) \in SUBSET (Range(a) \cup Range(new))
      OBVIOUS
    <2>3. a \in Seq(Range(a) \cup Range(new)) /\ new \in Seq(Range(a) \cup Range(new))
      <3>1. a \in Seq(Range(a))
        BY <2>1 DEF a
      <3> QED
        BY <2>1, <2>2, <3>1
    <2> QED
      BY <2>3 DEF a
  <1>14. /\ s.entries \o new \in Seq(T) /\ Len(s.entries \o new) = Len(s.entries) + Len(new)
         /\ \A k \in 1..(Len(s.entries) + Len(new)) :
              (s.entries \o new)[k] = IF k <= Len(s.entries) THEN s.entries[k] ELSE new[k - Len(s.entries)]
    BY <1>13, ConcatIs, Zenon
  <1>15. Len(s.entries) \in Nat /\ DOMAIN s.entries = 1..Len(s.entries)
    BY <1>6, ListHas
  <1> DEFINE cat == s.entries \o new
             L == Len(s.entries)
  <1>16. DOMAIN cat = 1..(L + n) /\ IsList(cat)
    <2>1. DOMAIN cat = 1..(L + n)
      BY <1>9, <1>14, <1>15
    <2>2. cat = [k \in 1..(L + n) |-> cat[k]]
      <3>1. cat \in Seq(T)
        BY <1>14
      <3> HIDE DEF cat, T
      <3>2. cat = [k \in 1..Len(cat) |-> cat[k]] /\ DOMAIN cat = 1..Len(cat)
        BY <3>1
      <3> QED
        BY <2>1, <3>2
    <2>3. L + n \in Nat
      BY <1>4, <1>15
    <2> HIDE DEF cat, L
    <2> QED
      BY <2>2, <2>3, ListIs
  <1>17. ASSUME NEW k \in 1..(L + n)
         PROVE  \/ k \in 1..L /\ cat[k] = s.entries[k]
                \/ k - L \in 1..n /\ cat[k] = new[k - L]
    <2>1. cat[k] = IF k <= L THEN s.entries[k] ELSE new[k - L]
      BY <1>9, <1>14
    <2> HIDE DEF cat, L
    <2>2. L \in Nat
      BY <1>15 DEF L
    <2> QED
      BY <1>4, <2>1, <2>2
  <1>18. ASSUME NEW e \in Range(cat)
         PROVE  /\ \/ e \in Range(s.entries)
                   \/ \E i \in P : e.ref = s.next + RankIn(P, i) /\ e.content = kept[i].body.content
                /\ e.ref \in 1..(s.next + n)
    <2>1. PICK k \in 1..(L + n) : e = cat[k]
      BY <1>16 DEF Range
    <2>2. CASE k \in 1..L /\ cat[k] = s.entries[k]
      <3>1. e \in Range(s.entries)
        BY <1>15, <2>1, <2>2 DEF Range
      <3>2. e.ref \in 1..s.next
        BY <1>6, <3>1
      <3> QED
        BY <1>4, <1>6, <3>1, <3>2
    <2>3. CASE k - L \in 1..n /\ cat[k] = new[k - L]
      <3>1. PICK m \in 1..n : e = new[m]
        BY <2>1, <2>3
      <3>2. e.ref = s.next + m /\ e.content = kept[f[m]].body.content /\ f[m] \in P /\ RankIn(P, f[m]) = m
        BY <1>4, <1>10, <3>1
      <3>3. e.ref \in 1..(s.next + n)
        BY <1>4, <1>6, <3>2
      <3> QED
        BY <3>2, <3>3
    <2> QED
      BY <1>17, <2>1, <2>2, <2>3
  <1>19. StoreSound(c)
    <2>1. s.next + n \in Nat
      BY <1>4, <1>6
    <2> QED
      BY <1>11, <1>12, <1>16, <1>18, <2>1 DEF StoreSound
  <1>20. c.next >= s.next
    BY <1>4, <1>6, <1>12
  <1>21. \A i \in P : s.next + RankIn(P, i) \in 1..c.next /\ RankIn(P, i) \in Nat \ {0}
    BY <1>4, <1>5, <1>6, <1>12
  <1> QED
    BY <1>4, <1>12, <1>18, <1>19, <1>20, <1>21 DEF P, c

\* The records of a turn that are left to select from, the ones selected, and
\* the turn's own list.
KeptOf(rs) == [k \in DOMAIN Deduped(rs) |-> rs[Deduped(rs)[k]]]
InOf(rs, s, req) == Selected(Staged(KeptOf(rs), s), EffectiveBudget(req))
OutOf(rs, s, req) ==
    [k \in DOMAIN InOrder({Deduped(rs)[i] : i \in InOf(rs, s, req)}) |->
       Committed(KeptOf(rs), InOf(rs, s, req), s,
                 CHOOSE i \in InOf(rs, s, req) :
                   Deduped(rs)[i] = InOrder({Deduped(rs)[j] : j \in InOf(rs, s, req)})[k])]

\* A check that is refused says one of its refusals.
LEMMA RefusalIs ==
    ASSUME NEW checks, DOMAIN checks \subseteq Nat, Verdict(checks) # "ok"
    PROVE  \E i \in DOMAIN checks : Verdict(checks) = checks[i][2]
  <1>1. Failing(checks) # {} /\ Verdict(checks) = checks[Min(Failing(checks))][2]
    BY DEF Verdict
  <1>2. Failing(checks) \in SUBSET Nat /\ Failing(checks) \subseteq DOMAIN checks
    BY DEF Failing
  <1>3. Min(Failing(checks)) \in Failing(checks)
    BY <1>1, <1>2, LeastIs
  <1> QED
    BY <1>1, <1>2, <1>3

\* What is admitted has unique ids and one generation; what is not is refused
\* with an error of the context.
LEMMA InputIs ==
    ASSUME NEW rs, IsList(rs), NEW g
    PROVE  /\ InputVerdict(rs, g) = "ok" =>
                /\ \A i, j \in DOMAIN rs : rs[i].id = rs[j].id => i = j
                /\ \A i \in DOMAIN rs : rs[i].generation = g
           /\ InputVerdict(rs, g) # "ok" => InputVerdict(rs, g) \in ContextErrors
  <1> DEFINE B == InvalidRecord(rs)
             x == RecordVerdict(rs[Min(B)])
  <1>1. Len(rs) \in Nat /\ DOMAIN rs = 1..Len(rs)
    BY ListHas
  <1>2. ASSUME B # {}
        PROVE  x # "ok" /\ x \in {"UnknownProvider", "SummaryTooLarge", "BodyTooLarge"}
    <2>1. B \in SUBSET Nat
      BY <1>1 DEF InvalidRecord
    <2>2. Min(B) \in B
      BY <1>2, <2>1, LeastIs
    <2>3. x # "ok"
      BY <2>2 DEF InvalidRecord
    <2> DEFINE r == rs[Min(B)]
               checks == << <<r.provider \notin KnownProviders, "UnknownProvider">>,
                            <<r.sumLen > MaxSummary, "SummaryTooLarge">>,
                            <<r.body.kind = "inline" /\ r.body.size > MaxBody, "BodyTooLarge">> >>
    <2>4. x = Verdict(checks)
      BY DEF RecordVerdict
    <2>5. DOMAIN checks = 1..3 /\ checks[1][2] = "UnknownProvider" /\ checks[2][2] = "SummaryTooLarge"
          /\ checks[3][2] = "BodyTooLarge"
      OBVIOUS
    <2> HIDE DEF checks, x
    <2>6. DOMAIN checks \subseteq Nat
      BY <2>5
    <2>7. PICK i \in DOMAIN checks : x = checks[i][2]
      BY <2>3, <2>4, <2>6, RefusalIs
    <2>8. i = 1 \/ i = 2 \/ i = 3
      BY <2>5, <2>7
    <2> QED
      BY <2>3, <2>5, <2>7, <2>8
  <1> DEFINE D == \E i, j \in DOMAIN rs : i # j /\ rs[i].id = rs[j].id
             G == \E i \in DOMAIN rs : rs[i].generation # g
  <1>3. InputVerdict(rs, g) = IF Len(rs) > MaxRecords THEN "TooManyRecords"
                              ELSE IF B # {} THEN x
                              ELSE IF D THEN "DuplicateRecordId"
                              ELSE IF G THEN "StaleGeneration" ELSE "ok"
    BY DEF InputVerdict
  <1> HIDE DEF B, x, D, G
  <1>4. InputVerdict(rs, g) = "ok" => ~D /\ ~G
    BY <1>2, <1>3
  <1>5. InputVerdict(rs, g) # "ok" =>
          InputVerdict(rs, g) \in {"TooManyRecords", "DuplicateRecordId", "StaleGeneration",
                                   "UnknownProvider", "SummaryTooLarge", "BodyTooLarge"}
    BY <1>2, <1>3
  <1> QED
    BY <1>4, <1>5 DEF D, G, ContextErrors

\* An assembly is refused and leaves the store, or commits what it selected.
LEMMA AssembleIs ==
    ASSUME NEW rs, IsList(rs), NEW s, NEW req
    PROVE  \/ \E e \in ContextErrors : Assemble(rs, s, req) = AssembleError(e, s)
           \/ /\ InputVerdict(rs, req.generation) = "ok"
              /\ Assemble(rs, s, req) =
                   [error |-> "ok", store |-> CommittedStore(KeptOf(rs), InOf(rs, s, req), s, req.generation),
                    out |-> OutOf(rs, s, req),
                    omitted |-> {KeptOf(rs)[i].id : i \in DOMAIN KeptOf(rs) \ InOf(rs, s, req)},
                    pruned |-> {rs[i].id : i \in DOMAIN rs} \ {KeptOf(rs)[i].id : i \in DOMAIN KeptOf(rs)}]
  <1> DEFINE kept == KeptOf(rs)
             in == InOf(rs, s, req)
             v == InputVerdict(rs, req.generation)
             A == \E i \in DOMAIN kept : Externalizes(kept[i]) /\ kept[i].body.size > MaxArtifactBytes
             B == kept # <<>> /\ in = {}
             C == \/ Len(s.entries) + Cardinality(Pending(kept, in)) > MaxArtifacts
                  \/ TotalBytes(s) + PendingBytes(kept, in) > MaxStoreBytes
             R == [error |-> "ok", store |-> CommittedStore(kept, in, s, req.generation),
                   out |-> OutOf(rs, s, req),
                   omitted |-> {kept[i].id : i \in DOMAIN kept \ in},
                   pruned |-> {rs[i].id : i \in DOMAIN rs} \ {kept[i].id : i \in DOMAIN kept}]
  <1>1. Assemble(rs, s, req) = IF v # "ok" THEN AssembleError(v, s)
                               ELSE IF A THEN AssembleError("ArtifactTooLarge", s)
                               ELSE IF B THEN AssembleError("BudgetExceeded", s)
                               ELSE IF C THEN AssembleError("ArtifactStoreFull", s) ELSE R
    BY DEF Assemble, KeptOf, InOf, OutOf
  <1>2. v # "ok" => v \in ContextErrors
    BY InputIs
  <1>3. {"ArtifactTooLarge", "BudgetExceeded", "ArtifactStoreFull"} \subseteq ContextErrors
    BY DEF ContextErrors
  <1> HIDE DEF kept, in, A, B, C, R, v
  <1>4. (\E e \in ContextErrors : Assemble(rs, s, req) = AssembleError(e, s)) \/ (v = "ok" /\ Assemble(rs, s, req) = R)
    BY <1>1, <1>2, <1>3
  <1> QED
    BY <1>4 DEF kept, in, R, v

\* A budget is a number of bytes.
LEMMA BudgetIs ==
    ASSUME NEW req, req.bytes \subseteq Nat, req.tokens \subseteq Nat
    PROVE  EffectiveBudget(req) \in Nat
  <1> DEFINE b == IF req.bytes = {} THEN DefaultBudget ELSE CHOOSE x \in req.bytes : TRUE
             S == {b} \cup {t * BytesPerToken : t \in req.tokens}
  <1>1. DefaultBudget \in Nat /\ BytesPerToken \in Nat
    BY AssemblyAssumption
  <1>2. b \in Nat
    BY <1>1
  <1> HIDE DEF b
  <1>3. \A t \in req.tokens : t * BytesPerToken \in Nat
    BY <1>1
  <1>4. S \in SUBSET Nat /\ S # {}
    BY <1>2, <1>3
  <1>5. EffectiveBudget(req) = Min(S)
    BY DEF EffectiveBudget, b
  <1> QED
    BY <1>4, <1>5, LeastIs

\* The records left after deduplication are records of the turn, each once.
LEMMA KeptIs ==
    ASSUME NEW rs, IsList(rs), \A i \in DOMAIN rs : IsRecord(rs[i])
    PROVE  /\ IsList(KeptOf(rs)) /\ DOMAIN KeptOf(rs) = DOMAIN Deduped(rs)
           /\ \A k \in DOMAIN KeptOf(rs) :
                /\ Deduped(rs)[k] \in DOMAIN rs /\ Deduped(rs)[k] \in Surviving(rs)
                /\ KeptOf(rs)[k] = rs[Deduped(rs)[k]] /\ IsRecord(KeptOf(rs)[k])
           /\ \A k, l \in DOMAIN KeptOf(rs) : Deduped(rs)[k] = Deduped(rs)[l] => k = l
  <1> DEFINE at == Deduped(rs)
             kept == KeptOf(rs)
  <1>1. \A i \in DOMAIN rs : rs[i].at \in Nat
    BY DEF IsRecord
  <1>2. /\ IsList(at) /\ Surviving(rs) \subseteq DOMAIN rs
        /\ \A k \in DOMAIN at : at[k] \in Surviving(rs)
        /\ \A k, l \in DOMAIN at : at[k] = at[l] => k = l
    BY <1>1, DedupedIs
  <1>3. kept = [k \in DOMAIN at |-> rs[at[k]]]
    BY DEF KeptOf
  <1> HIDE DEF at, kept
  <1>4. Len(at) \in Nat /\ DOMAIN at = 1..Len(at)
    BY <1>2, ListHas
  <1>5. IsList(kept) /\ DOMAIN kept = DOMAIN at
    <2>1. kept = [k \in 1..Len(at) |-> kept[k]]
      BY <1>3, <1>4
    <2> QED
      BY <1>4, <2>1, ListIs
  <1>6. \A k \in DOMAIN kept : at[k] \in DOMAIN rs /\ at[k] \in Surviving(rs) /\ kept[k] = rs[at[k]] /\ IsRecord(kept[k])
    BY <1>2, <1>3, <1>5
  <1> QED
    BY <1>2, <1>5, <1>6 DEF at, kept

\* The selection from those records, under a budget in bytes.
LEMMA InIs ==
    ASSUME NEW rs, IsList(rs), \A i \in DOMAIN rs : IsRecord(rs[i]), NEW s, s.next \in Nat,
           NEW req, EffectiveBudget(req) \in Nat,
           NEW F, F = [i \in DOMAIN KeptOf(rs) |-> Footprint(Staged(KeptOf(rs), s)[i])]
    PROVE  /\ InOf(rs, s, req) \in SUBSET (DOMAIN KeptOf(rs))
           /\ \A i \in DOMAIN KeptOf(rs) : F[i] = Footprint(Staged(KeptOf(rs), s)[i]) /\ F[i] \in Nat
           /\ IsFiniteSet(Grains(F, InOf(rs, s, req)))
           /\ Cardinality(Grains(F, InOf(rs, s, req))) <= EffectiveBudget(req)
           /\ \A i \in DOMAIN KeptOf(rs) \ InOf(rs, s, req), j \in InOf(rs, s, req) :
                EffectivePriority(KeptOf(rs)[i]) > EffectivePriority(KeptOf(rs)[j]) => F[i] > F[j]
  <1> DEFINE kept == KeptOf(rs)
             st == Staged(kept, s)
             in == InOf(rs, s, req)
  <1>1. IsList(kept) /\ \A i \in DOMAIN kept : IsRecord(kept[i])
    BY KeptIs
  <1> HIDE DEF kept
  <1>2. /\ IsList(st) /\ DOMAIN st = DOMAIN kept
        /\ \A i \in DOMAIN kept : IsRecord(st[i]) /\ EffectivePriority(st[i]) = EffectivePriority(kept[i])
    BY <1>1, StagedIs
  <1>3. \A i \in DOMAIN kept : Footprint(st[i]) \in Nat /\ EffectivePriority(st[i]) \in Nat
    BY <1>2, RecordCounts
  <1>4. in = Selected(st, EffectiveBudget(req))
    BY DEF InOf, kept
  <1> HIDE DEF st, in
  <1>5. F = [i \in DOMAIN st |-> Footprint(st[i])]
    BY <1>2 DEF st, kept
  <1>6. /\ in \in SUBSET (DOMAIN st)
        /\ IsFiniteSet(Grains(F, in)) /\ Cardinality(Grains(F, in)) <= EffectiveBudget(req)
        /\ \A i \in DOMAIN st \ in, j \in in : Sooner(st, i, j) => F[i] > F[j]
    BY <1>2, <1>3, <1>4, <1>5, SelectedIs
  <1>7. \A i, j \in DOMAIN kept : EffectivePriority(kept[i]) > EffectivePriority(kept[j]) => Sooner(st, i, j)
    BY <1>2 DEF Sooner
  <1>8. \A i \in DOMAIN kept : F[i] = Footprint(st[i]) /\ F[i] \in Nat
    BY <1>2, <1>3, <1>5
  <1>9. \A i \in DOMAIN kept \ in, j \in in : EffectivePriority(kept[i]) > EffectivePriority(kept[j]) => F[i] > F[j]
    BY <1>2, <1>6, <1>7
  <1> QED
    BY <1>2, <1>6, <1>8, <1>9 DEF in, st, kept

\* The turn's list is the selected records, each once.
LEMMA OutIs ==
    ASSUME NEW rs, IsList(rs), \A i \in DOMAIN rs : IsRecord(rs[i]), NEW s, NEW req,
           InOf(rs, s, req) \in SUBSET (DOMAIN KeptOf(rs))
    PROVE  /\ IsList(OutOf(rs, s, req))
           /\ \E h \in [DOMAIN OutOf(rs, s, req) -> InOf(rs, s, req)] :
                /\ \A k, l \in DOMAIN OutOf(rs, s, req) : h[k] = h[l] => k = l
                /\ \A i \in InOf(rs, s, req) : \E k \in DOMAIN OutOf(rs, s, req) : h[k] = i
                /\ \A k \in DOMAIN OutOf(rs, s, req) :
                     OutOf(rs, s, req)[k] = Committed(KeptOf(rs), InOf(rs, s, req), s, h[k])
  <1> DEFINE at == Deduped(rs)
             kept == KeptOf(rs)
             in == InOf(rs, s, req)
             S == {at[i] : i \in in}
             n == Cardinality(S)
             f == InOrder(S)
             out == OutOf(rs, s, req)
             h == [k \in 1..n |-> CHOOSE i \in in : at[i] = f[k]]
  <1>1. \A k \in in : at[k] \in DOMAIN rs
    BY KeptIs
  <1>2. \A k, l \in in : at[k] = at[l] => k = l
    BY KeptIs
  <1>3. Len(rs) \in Nat /\ DOMAIN rs = 1..Len(rs)
    BY ListHas
  <1>4. out = [k \in DOMAIN f |-> Committed(kept, in, s, CHOOSE i \in in : at[i] = f[k])]
    BY DEF OutOf
  <1> HIDE DEF at, kept, in, out
  <1>5. S \in SUBSET (1..Len(rs)) /\ S \in SUBSET Nat
    BY <1>1, <1>3
  <1>6. IsFiniteSet(S)
    <2>1. IsFiniteSet(1..Len(rs))
      BY <1>3, FS_Interval
    <2> QED
      BY <1>5, <2>1, FS_Subset
  <1>7. /\ n \in Nat /\ f \in [1..n -> S]
        /\ \A j, k \in 1..n : j < k => f[j] < f[k]
        /\ \A i \in S : \E k \in 1..n : f[k] = i
    BY <1>5, <1>6, InOrderIs
  <1> HIDE DEF n, f
  <1>8. ASSUME NEW k \in 1..n
        PROVE  h[k] \in in /\ at[h[k]] = f[k]
    <2>1. \E i \in in : at[i] = f[k]
      BY <1>7
    <2> QED
      BY <2>1
  <1>9. out = [k \in 1..n |-> Committed(kept, in, s, h[k])]
    BY <1>4, <1>7
  <1>10. h \in [1..n -> in]
    BY <1>8
  <1> HIDE DEF h
  <1>11. IsList(out) /\ DOMAIN out = 1..n
    <2>1. out = [k \in 1..n |-> out[k]]
      BY <1>9
    <2> QED
      BY <1>7, <2>1, ListIs
  <1>12. ASSUME NEW k \in 1..n, NEW l \in 1..n, h[k] = h[l]
         PROVE  k = l
    <2>1. f[k] = f[l]
      BY <1>8, <1>12
    <2>2. f[k] \in Nat /\ f[l] \in Nat
      BY <1>5, <1>7
    <2>3. ~(k < l) /\ ~(l < k)
      BY <1>7, <2>1, <2>2
    <2> QED
      BY <1>7, <2>3
  <1>13. ASSUME NEW i \in in
         PROVE  \E k \in 1..n : h[k] = i
    <2>1. PICK k \in 1..n : f[k] = at[i]
      BY <1>7
    <2>2. h[k] = i
      BY <1>2, <1>8, <2>1
    <2> QED
      BY <2>2
  <1>14. \A k \in 1..n : out[k] = Committed(kept, in, s, h[k])
    BY <1>9
  <1>15. \E z \in [DOMAIN out -> in] :
           /\ \A k, l \in DOMAIN out : z[k] = z[l] => k = l
           /\ \A i \in in : \E k \in DOMAIN out : z[k] = i
           /\ \A k \in DOMAIN out : out[k] = Committed(kept, in, s, z[k])
    BY <1>10, <1>11, <1>12, <1>13, <1>14
  <1> QED
    BY <1>11, <1>15 DEF in, kept, out

\* The turn's list fits the budget: a reference at the commit is no longer
\* than the one the record was selected with.
LEMMA SpendsWithin ==
    ASSUME NEW rs, IsList(rs), \A i \in DOMAIN rs : IsRecord(rs[i]), NEW s, s.next \in Nat,
           NEW req, EffectiveBudget(req) \in Nat
    PROVE  Spent(OutOf(rs, s, req)) <= EffectiveBudget(req)
  <1> DEFINE kept == KeptOf(rs)
             in == InOf(rs, s, req)
             out == OutOf(rs, s, req)
             st == Staged(kept, s)
             F == [i \in DOMAIN kept |-> Footprint(st[i])]
             G == [k \in DOMAIN out |-> Footprint(out[k])]
  <1>1. IsList(kept) /\ \A i \in DOMAIN kept : IsRecord(kept[i])
    BY KeptIs
  <1>2. /\ in \in SUBSET (DOMAIN kept)
        /\ \A i \in DOMAIN kept : F[i] = Footprint(st[i]) /\ F[i] \in Nat
        /\ IsFiniteSet(Grains(F, in)) /\ Cardinality(Grains(F, in)) <= EffectiveBudget(req)
    BY InIs
  <1>3. IsList(out)
    BY <1>2, OutIs
  <1>4. PICK h \in [DOMAIN out -> in] :
          /\ \A k, l \in DOMAIN out : h[k] = h[l] => k = l
          /\ \A k \in DOMAIN out : out[k] = Committed(kept, in, s, h[k])
    BY <1>2, OutIs
  <1> HIDE DEF kept, in, out
  <1>5. \A i \in in : /\ IsRecord(Committed(kept, in, s, i))
                      /\ Footprint(Committed(kept, in, s, i)) <= Footprint(st[i])
    BY <1>1, <1>2, StagedIs
  <1> HIDE DEF st
  <1>6. ASSUME NEW k \in DOMAIN out
        PROVE  /\ Footprint(out[k]) \in Nat /\ G[k] = Footprint(out[k]) /\ F[h[k]] \in Nat /\ G[k] <= F[h[k]]
    <2>1. h[k] \in in /\ h[k] \in DOMAIN kept
      BY <1>2, <1>4
    <2>2. IsRecord(out[k]) /\ Footprint(out[k]) <= Footprint(st[h[k]])
      BY <1>4, <1>5, <2>1
    <2>3. Footprint(out[k]) \in Nat
      BY <2>2, RecordCounts
    <2>4. F[h[k]] = Footprint(st[h[k]]) /\ F[h[k]] \in Nat
      BY <1>2, <2>1
    <2> HIDE DEF F
    <2> QED
      BY <2>2, <2>3, <2>4
  <1> HIDE DEF F
  <1>7. Spent(out) = Cardinality(Grains(G, DOMAIN out))
    BY <1>3, <1>6, SpentIs
  <1> HIDE DEF G
  <1>8. \A k \in DOMAIN out : G[k] \in Nat /\ F[h[k]] \in Nat /\ G[k] <= F[h[k]]
    BY <1>6
  <1>9. Cardinality(Grains(G, DOMAIN out)) <= Cardinality(Grains(F, in))
    BY <1>2, <1>4, <1>8, GrainsBelow
  <1>10. IsList(out) /\ \A k \in DOMAIN out : G[k] \in Nat
    BY <1>3, <1>8
  <1>11. Cardinality(Grains(F, in)) \in Nat
    BY <1>2, FS_CardinalityType
  <1>12. IsFiniteSet(Grains(G, DOMAIN out))
    BY <1>2, <1>4, <1>8, GrainsBelow
  <1>13. Cardinality(Grains(G, DOMAIN out)) \in Nat
    BY <1>12, FS_CardinalityType
  <1> QED
    BY <1>2, <1>7, <1>9, <1>11, <1>13 DEF out

\* A member of exactly one of three sets is counted once.
LEMMA CountedOnce ==
    ASSUME NEW A, NEW B, NEW C, NEW x,
           x \in A \/ x \in B \/ x \in C,
           ~(x \in A /\ x \in B) /\ ~(x \in A /\ x \in C) /\ ~(x \in B /\ x \in C)
    PROVE  Cardinality({z \in {<<1, A>>, <<2, B>>, <<3, C>>} : x \in z[2]}) = 1
  <1> DEFINE Z == {z \in {<<1, A>>, <<2, B>>, <<3, C>>} : x \in z[2]}
  <1>1. CASE x \in A
    <2>1. Z = {<<1, A>>}
      BY <1>1
    <2> QED
      BY <2>1, FS_Singleton
  <1>2. CASE x \in B
    <2>1. Z = {<<2, B>>}
      BY <1>2
    <2> QED
      BY <2>1, FS_Singleton
  <1>3. CASE x \in C
    <2>1. Z = {<<3, C>>}
      BY <1>3
    <2> QED
      BY <2>1, FS_Singleton
  <1> QED
    BY <1>1, <1>2, <1>3

\* The ids of a committed turn: those of its list, those left out for want of
\* budget and those superseded or deduplicated.
IncludedIn(rs, s, req) == {OutOf(rs, s, req)[k].id : k \in DOMAIN OutOf(rs, s, req)}
OmittedIn(rs, s, req) == {KeptOf(rs)[i].id : i \in DOMAIN KeptOf(rs) \ InOf(rs, s, req)}
PrunedIn(rs) == {rs[i].id : i \in DOMAIN rs} \ {KeptOf(rs)[i].id : i \in DOMAIN KeptOf(rs)}

\* Which of the three a record's id is in says what became of the record.
LEMMA IdsOfTurn ==
    ASSUME NEW rs, IsList(rs), \A i \in DOMAIN rs : IsRecord(rs[i]), NEW s, s.next \in Nat,
           NEW req, EffectiveBudget(req) \in Nat,
           \A i, j \in DOMAIN rs : rs[i].id = rs[j].id => i = j, NEW i \in DOMAIN rs
    PROVE  /\ rs[i].id \in IncludedIn(rs, s, req) <=> \E m \in InOf(rs, s, req) : Deduped(rs)[m] = i
           /\ rs[i].id \in OmittedIn(rs, s, req)
                <=> \E m \in DOMAIN KeptOf(rs) \ InOf(rs, s, req) : Deduped(rs)[m] = i
           /\ rs[i].id \in PrunedIn(rs) <=> ~\E m \in DOMAIN KeptOf(rs) : Deduped(rs)[m] = i
           /\ InOf(rs, s, req) \subseteq DOMAIN KeptOf(rs)
           /\ \A m, n \in DOMAIN KeptOf(rs) : Deduped(rs)[m] = Deduped(rs)[n] => m = n
           /\ \A m \in DOMAIN KeptOf(rs) : KeptOf(rs)[m] = rs[Deduped(rs)[m]]
  <1> DEFINE kept == KeptOf(rs)
             at == Deduped(rs)
             in == InOf(rs, s, req)
             out == OutOf(rs, s, req)
  <1>1. /\ IsList(kept)
        /\ \A m \in DOMAIN kept : at[m] \in DOMAIN rs /\ kept[m] = rs[at[m]] /\ IsRecord(kept[m])
        /\ \A m, n \in DOMAIN kept : at[m] = at[n] => m = n
    BY KeptIs
  <1>2. in \in SUBSET (DOMAIN kept)
    BY InIs
  <1>3. PICK h \in [DOMAIN out -> in] :
          /\ \A m \in in : \E k \in DOMAIN out : h[k] = m
          /\ \A k \in DOMAIN out : out[k] = Committed(kept, in, s, h[k])
    BY <1>2, OutIs
  <1>4. IncludedIn(rs, s, req) = {out[k].id : k \in DOMAIN out}
    BY DEF IncludedIn
  <1>5. OmittedIn(rs, s, req) = {kept[m].id : m \in DOMAIN kept \ in}
    BY DEF OmittedIn
  <1>6. PrunedIn(rs) = {rs[j].id : j \in DOMAIN rs} \ {kept[m].id : m \in DOMAIN kept}
    BY DEF PrunedIn
  <1> HIDE DEF kept, at, in, out
  <1>7. \A m \in in : Committed(kept, in, s, m).id = kept[m].id
    <2>1. AreRecords(kept)
      BY <1>1 DEF AreRecords
    <2> QED
      BY <1>2, <2>1, CommittedIs
  <1>8. IncludedIn(rs, s, req) = {kept[m].id : m \in in}
    <2>1. ASSUME NEW k \in DOMAIN out
          PROVE  h[k] \in in /\ out[k].id = kept[h[k]].id
      <3>1. h[k] \in in
        BY <1>3
      <3> QED
        BY <1>3, <1>7, <3>1
    <2>2. ASSUME NEW m \in in
          PROVE  \E k \in DOMAIN out : out[k].id = kept[m].id
      <3>1. PICK k \in DOMAIN out : h[k] = m
        BY <1>3
      <3> QED
        BY <2>1, <3>1
    <2>3. {out[k].id : k \in DOMAIN out} \subseteq {kept[m].id : m \in in}
      BY <2>1
    <2>4. {kept[m].id : m \in in} \subseteq {out[k].id : k \in DOMAIN out}
      BY <2>2
    <2> QED
      BY <1>4, <2>3, <2>4
  <1>9. \A m \in DOMAIN kept : kept[m].id = rs[i].id <=> at[m] = i
    BY <1>1
  <1>10. rs[i].id \in IncludedIn(rs, s, req) <=> \E m \in in : at[m] = i
    BY <1>2, <1>8, <1>9
  <1>11. rs[i].id \in OmittedIn(rs, s, req) <=> \E m \in DOMAIN kept \ in : at[m] = i
    BY <1>5, <1>9
  <1>12. rs[i].id \in PrunedIn(rs) <=> ~\E m \in DOMAIN kept : at[m] = i
    BY <1>6, <1>9
  <1> QED
    BY <1>1, <1>2, <1>10, <1>11, <1>12 DEF kept, at, in

\* Each record of the turn has exactly one of the three fates.
LEMMA FatesAre ==
    ASSUME NEW rs, IsList(rs), \A i \in DOMAIN rs : IsRecord(rs[i]), NEW s, s.next \in Nat,
           NEW req, EffectiveBudget(req) \in Nat,
           \A i, j \in DOMAIN rs : rs[i].id = rs[j].id => i = j, NEW i \in DOMAIN rs
    PROVE  Cardinality({z \in {<<1, IncludedIn(rs, s, req)>>, <<2, OmittedIn(rs, s, req)>>, <<3, PrunedIn(rs)>>} :
                          rs[i].id \in z[2]}) = 1
  <1> DEFINE A == IncludedIn(rs, s, req)
             B == OmittedIn(rs, s, req)
             C == PrunedIn(rs)
             kept == KeptOf(rs)
             at == Deduped(rs)
             in == InOf(rs, s, req)
             x == rs[i].id
  <1>1. /\ x \in A <=> \E m \in in : at[m] = i
        /\ x \in B <=> \E m \in DOMAIN kept \ in : at[m] = i
        /\ x \in C <=> ~\E m \in DOMAIN kept : at[m] = i
        /\ in \subseteq DOMAIN kept
        /\ \A m, n \in DOMAIN kept : at[m] = at[n] => m = n
    BY IdsOfTurn
  <1> HIDE DEF A, B, C, kept, at, in, x
  <1>2. x \in A \/ x \in B \/ x \in C
    BY <1>1
  <1>3. ~(x \in A /\ x \in B) /\ ~(x \in A /\ x \in C) /\ ~(x \in B /\ x \in C)
    BY <1>1
  <1>4. Cardinality({z \in {<<1, A>>, <<2, B>>, <<3, C>>} : x \in z[2]}) = 1
    BY <1>2, <1>3, CountedOnce
  <1> QED
    BY <1>4 DEF A, B, C, x

\* What is left out is larger than what is let in below it, as far as neither
\* is replaced by a reference.
LEMMA LeftOutIs ==
    ASSUME NEW rs, IsList(rs), \A i \in DOMAIN rs : IsRecord(rs[i]), NEW s, s.next \in Nat,
           NEW req, EffectiveBudget(req) \in Nat,
           \A i, j \in DOMAIN rs : rs[i].id = rs[j].id => i = j,
           NEW i \in DOMAIN rs, NEW j \in DOMAIN rs,
           rs[i].id \in OmittedIn(rs, s, req), rs[j].id \in IncludedIn(rs, s, req),
           EffectivePriority(rs[i]) > EffectivePriority(rs[j])
    PROVE  Footprint(rs[i]) > Footprint(rs[j]) \/ Externalizes(rs[i]) \/ Externalizes(rs[j])
  <1> DEFINE kept == KeptOf(rs)
             at == Deduped(rs)
             in == InOf(rs, s, req)
             st == Staged(kept, s)
             F == [m \in DOMAIN kept |-> Footprint(st[m])]
  <1>1. rs[i].id \in OmittedIn(rs, s, req) <=> \E m \in DOMAIN kept \ in : at[m] = i
    BY IdsOfTurn
  <1>2. rs[j].id \in IncludedIn(rs, s, req) <=> \E m \in in : at[m] = j
    BY IdsOfTurn
  <1>3. in \subseteq DOMAIN kept /\ \A m \in DOMAIN kept : kept[m] = rs[at[m]]
    BY IdsOfTurn
  <1>4. IsList(kept) /\ \A m \in DOMAIN kept : IsRecord(kept[m])
    BY KeptIs
  <1>5. /\ \A m \in DOMAIN kept : F[m] = Footprint(st[m])
        /\ \A m \in DOMAIN kept \ in, n \in in :
             EffectivePriority(kept[m]) > EffectivePriority(kept[n]) => F[m] > F[n]
    BY InIs
  <1> HIDE DEF kept, at, in
  <1>6. \A m \in DOMAIN kept : ~Externalizes(kept[m]) => st[m] = kept[m]
    BY <1>4, StagedIs
  <1> HIDE DEF st, F
  <1>7. PICK m \in DOMAIN kept \ in : at[m] = i
    BY <1>1
  <1>8. PICK n \in in : at[n] = j
    BY <1>2
  <1>9. kept[m] = rs[i] /\ kept[n] = rs[j] /\ n \in DOMAIN kept
    BY <1>3, <1>7, <1>8
  <1>10. F[m] > F[n]
    BY <1>5, <1>9
  <1>11. F[m] = Footprint(st[m]) /\ F[n] = Footprint(st[n])
    BY <1>5, <1>9
  <1>12. ~Externalizes(rs[i]) => Footprint(st[m]) = Footprint(rs[i])
    BY <1>6, <1>9
  <1>13. ~Externalizes(rs[j]) => Footprint(st[n]) = Footprint(rs[j])
    BY <1>6, <1>9
  <1> QED
    BY <1>10, <1>11, <1>12, <1>13

\* A trusted record that is pruned was superseded by a trusted one, or has a
\* trusted twin in the turn.
LEMMA PrunedIs ==
    ASSUME NEW rs, IsList(rs), \A i \in DOMAIN rs : IsRecord(rs[i]),
           NEW i \in DOMAIN rs, ~rs[i].untrusted, rs[i].id \in PrunedIn(rs)
    PROVE  \E j \in DOMAIN rs :
             /\ ~rs[j].untrusted
             /\ rs[i].id \in rs[j].supersedes \/ (j # i /\ Twins(rs[i], rs[j]))
  <1>1. CASE i \notin Surviving(rs)
    <2>1. rs[i].id \in Superseded(rs)
      BY <1>1 DEF Surviving
    <2> QED
      BY <2>1 DEF Superseded
  <1>2. CASE i \in Surviving(rs)
    <2>1. \A j \in DOMAIN rs : rs[j].at \in Nat
      BY DEF IsRecord
    <2>2. PICK k \in DOMAIN Deduped(rs) : Twins(rs[i], rs[Deduped(rs)[k]]) /\ ~rs[Deduped(rs)[k]].untrusted
      BY <1>2, <2>1, DedupedIs
    <2>3. k \in DOMAIN KeptOf(rs) /\ KeptOf(rs)[k] = rs[Deduped(rs)[k]] /\ Deduped(rs)[k] \in DOMAIN rs
      BY KeptIs, <2>2
    <2>4. rs[i].id \notin {KeptOf(rs)[m].id : m \in DOMAIN KeptOf(rs)}
      BY DEF PrunedIn
    <2>5. Deduped(rs)[k] # i
      BY <2>3, <2>4
    <2> QED
      BY <2>2, <2>3, <2>5
  <1> QED
    BY <1>1, <1>2

\* The references of a turn are those of its own records: in range, and the
\* store holds nothing else under them.
OwnReferences(t, s) ==
    \A i \in DOMAIN t.out, j \in DOMAIN t.rs :
      (t.rs[j].id = t.out[i].id /\ t.out[i].body.kind = "artifact" /\ t.rs[j].body.kind = "inline") =>
        /\ t.out[i].body.ref \in 1..s.next
        /\ \A e \in Range(s.entries) : e.ref = t.out[i].body.ref => e.content = t.rs[j].body.content

\* They are when the turn is committed.
LEMMA CommittedOwn ==
    ASSUME NEW rs, IsList(rs), \A i \in DOMAIN rs : IsRecord(rs[i]), NEW s, StoreSound(s),
           NEW req, EffectiveBudget(req) \in Nat, NEW g,
           \A i, j \in DOMAIN rs : rs[i].id = rs[j].id => i = j,
           NEW t, t.rs = rs, t.out = OutOf(rs, s, req)
    PROVE  OwnReferences(t, CommittedStore(KeptOf(rs), InOf(rs, s, req), s, g))
  <1> DEFINE kept == KeptOf(rs)
             at == Deduped(rs)
             in == InOf(rs, s, req)
             out == OutOf(rs, s, req)
             c == CommittedStore(kept, in, s, g)
             P == Pending(kept, in)
  <1>1. s.next \in Nat /\ \A e \in Range(s.entries) : e.ref \in 1..s.next
    BY DEF StoreSound
  <1>2. /\ IsList(kept) /\ \A m \in DOMAIN kept : IsRecord(kept[m])
    BY KeptIs
  <1>3. \A m \in DOMAIN kept : at[m] \in DOMAIN rs /\ kept[m] = rs[at[m]]
    BY KeptIs
  <1>4. in \in SUBSET (DOMAIN kept)
    BY <1>1, InIs
  <1>5. PICK h \in [DOMAIN out -> in] : \A k \in DOMAIN out : out[k] = Committed(kept, in, s, h[k])
    BY <1>4, OutIs
  <1> HIDE DEF kept, at, in, out
  <1>6. ASSUME NEW m \in in
        PROVE  /\ Committed(kept, in, s, m).id = kept[m].id
               /\ ~Externalizes(kept[m]) => Committed(kept, in, s, m) = kept[m]
               /\ Externalizes(kept[m]) => Committed(kept, in, s, m).body = Reference(s.next + RankIn(P, m))
    <2>1. AreRecords(kept)
      BY <1>2 DEF AreRecords
    <2>2. s.next \in Nat
      BY <1>1
    <2>3. Committed(kept, in, s, m).id = kept[m].id
      BY ONLY <1>4, <2>1, <2>2, CommittedIs
    <2>4. ~Externalizes(kept[m]) => Committed(kept, in, s, m) = kept[m]
      BY DEF Committed
    <2>5. ASSUME Externalizes(kept[m])
          PROVE  Committed(kept, in, s, m).body = Reference(s.next + RankIn(Pending(kept, in), m))
      BY <1>4, <2>1, <2>5, <2>2, CommittedIs
    <2> QED
      BY <2>3, <2>4, <2>5
  <1>7. /\ \A m \in P : s.next + RankIn(P, m) \in 1..c.next /\ RankIn(P, m) \in Nat \ {0}
        /\ \A m, n \in P : RankIn(P, m) = RankIn(P, n) => m = n
        /\ \A e \in Range(c.entries) :
             e \in Range(s.entries) \/ \E m \in P : e.ref = s.next + RankIn(P, m) /\ e.content = kept[m].body.content
    BY <1>2, <1>4, CommittedStoreIs
  <1>8. \A m \in in : Externalizes(kept[m]) <=> m \in P
    BY DEF Pending
  <1> HIDE DEF c, P
  <1>9. ASSUME NEW k \in DOMAIN out, NEW j \in DOMAIN rs,
               rs[j].id = out[k].id, out[k].body.kind = "artifact", rs[j].body.kind = "inline"
        PROVE  /\ out[k].body.ref \in 1..c.next
               /\ \A e \in Range(c.entries) : e.ref = out[k].body.ref => e.content = rs[j].body.content
    <2> DEFINE m == h[k]
    <2>1. m \in in /\ m \in DOMAIN kept /\ out[k] = Committed(kept, in, s, m)
      BY <1>4, <1>5
    <2> HIDE DEF m
    <2>2. out[k].id = kept[m].id
      BY <1>6, <2>1
    <2>3. rs[j] = kept[m]
      BY <1>3, <1>9, <2>1, <2>2
    <2>4. Externalizes(kept[m])
      BY <1>6, <1>9, <2>1, <2>3
    <2>5. m \in P
      BY <1>8, <2>1, <2>4
    <2>6. out[k].body = Reference(s.next + RankIn(P, m))
      BY <1>6, <2>1, <2>4
    <2>7. out[k].body.ref = s.next + RankIn(P, m)
      BY <2>6 DEF Reference
    <2>8. ASSUME NEW e \in Range(c.entries), e.ref = out[k].body.ref
          PROVE  e.content = rs[j].body.content
      <3>1. RankIn(P, m) \in Nat \ {0}
        BY <1>7, <2>5
      <3>2. CASE e \in Range(s.entries)
        <4>1. e.ref \in 1..s.next
          BY <1>1, <3>2
        <4> QED
          BY <1>1, <2>7, <2>8, <3>1, <4>1
      <3>3. CASE \E n \in P : e.ref = s.next + RankIn(P, n) /\ e.content = kept[n].body.content
        <4>1. PICK n \in P : e.ref = s.next + RankIn(P, n) /\ e.content = kept[n].body.content
          BY <3>3
        <4>2. RankIn(P, n) \in Nat \ {0}
          BY <1>7
        <4>3. RankIn(P, n) = RankIn(P, m)
          BY <1>1, <2>7, <2>8, <3>1, <4>1, <4>2
        <4>4. n = m
          BY <1>7, <2>5, <4>3
        <4> QED
          BY <2>3, <4>1, <4>4
      <3> QED
        BY <1>7, <3>2, <3>3
    <2> QED
      BY <1>7, <2>5, <2>7, <2>8
  <1>10. OwnReferences(t, c)
    BY <1>9 DEF OwnReferences, out
  <1> QED
    BY <1>10 DEF c, kept, in

\* An assembled turn says what was observed.
LEMMA AssembledTrue ==
    ASSUME NEW rs, AreRecords(rs), NEW s, StoreSound(s), NEW req, EffectiveBudget(req) \in Nat,
           NEW result, result = Assemble(rs, s, req),
           NEW t, t.rs = rs, t.req = req, t.error = result.error, t.stored = (result.store # s),
           t.out = result.out, t.omitted = result.omitted, t.pruned = result.pruned
    PROVE  /\ StoreSound(result.store) /\ TrustedKept(t) /\ TurnFits(t)
           /\ t.error # "ok" => ~t.stored
           /\ OwnReferences(t, result.store)
  <1> DEFINE kept == KeptOf(rs)
             in == InOf(rs, s, req)
             c == CommittedStore(kept, in, s, req.generation)
  <1>1. IsList(rs) /\ \A i \in DOMAIN rs : IsRecord(rs[i])
    BY DEF AreRecords
  <1>2. s.next \in Nat
    BY DEF StoreSound
  <1>3. CASE \E e \in ContextErrors : result = AssembleError(e, s)
    <2>1. PICK e \in ContextErrors : result = AssembleError(e, s)
      BY <1>3
    <2>2. /\ result.error = e /\ result.store = s /\ result.out = <<>>
          /\ result.pruned = {}
      BY <2>1 DEF AssembleError
    <2>3. e # "ok"
      BY DEF ContextErrors
    <2>4. DOMAIN t.out = {}
      BY <2>2
    <2>5. TrustedKept(t)
      BY <2>2 DEF TrustedKept
    <2>6. TurnFits(t)
      BY <2>2, <2>3 DEF TurnFits
    <2>7. OwnReferences(t, s)
      BY <2>4 DEF OwnReferences
    <2> QED
      BY <2>2, <2>5, <2>6, <2>7
  <1>4. CASE /\ InputVerdict(rs, req.generation) = "ok"
             /\ result = [error |-> "ok", store |-> c, out |-> OutOf(rs, s, req),
                          omitted |-> {kept[i].id : i \in DOMAIN kept \ in},
                          pruned |-> {rs[i].id : i \in DOMAIN rs} \ {kept[i].id : i \in DOMAIN kept}]
    <2>1. /\ t.error = "ok" /\ result.store = c /\ t.out = OutOf(rs, s, req)
          /\ t.omitted = OmittedIn(rs, s, req) /\ t.pruned = PrunedIn(rs)
      BY <1>4 DEF OmittedIn, PrunedIn
    <2>2. {t.out[i].id : i \in DOMAIN t.out} = IncludedIn(rs, s, req)
      BY <2>1 DEF IncludedIn
    <2>3. /\ \A i, j \in DOMAIN rs : rs[i].id = rs[j].id => i = j
          /\ \A i \in DOMAIN rs : rs[i].generation = req.generation
      BY <1>1, <1>4, InputIs
    <2>4. IsList(kept) /\ in \in SUBSET (DOMAIN kept)
      <3> DEFINE F == [i \in DOMAIN kept |-> Footprint(Staged(kept, s)[i])]
      <3>1. IsList(kept)
        BY <1>1, KeptIs
      <3>2. in \in SUBSET (DOMAIN kept)
        BY <1>1, <1>2, InIs
      <3> QED
        BY <3>1, <3>2
    <2>5. StoreSound(c)
      BY <2>4, CommittedStoreIs
    <2>6. TrustedKept(t)
      <3>1. ASSUME NEW i \in DOMAIN rs, ~rs[i].untrusted, rs[i].id \in PrunedIn(rs)
            PROVE  \E j \in DOMAIN rs : /\ ~rs[j].untrusted
                                        /\ rs[i].id \in rs[j].supersedes \/ (j # i /\ Twins(rs[i], rs[j]))
        BY <1>1, <3>1, PrunedIs
      <3> QED
        BY <2>1, <3>1 DEF TrustedKept
    <2>7. OwnReferences(t, c)
      BY <1>1, <2>1, <2>3, CommittedOwn
    <2>8. TurnFits(t)
      <3> DEFINE A == IncludedIn(rs, s, req)
                 B == OmittedIn(rs, s, req)
                 C == PrunedIn(rs)
      <3>1. Spent(t.out) <= EffectiveBudget(t.req)
        BY <1>1, <1>2, <2>1, SpendsWithin
      <3>2. ASSUME NEW i \in DOMAIN rs
            PROVE  Cardinality({z \in {<<1, A>>, <<2, B>>, <<3, C>>} : rs[i].id \in z[2]}) = 1
        BY <1>1, <1>2, <2>3, FatesAre
      <3>3. ASSUME NEW i \in DOMAIN rs, NEW j \in DOMAIN rs, rs[i].id \in B, rs[j].id \in A,
                   EffectivePriority(rs[i]) > EffectivePriority(rs[j])
            PROVE  Footprint(rs[i]) > Footprint(rs[j]) \/ Externalizes(rs[i]) \/ Externalizes(rs[j])
        BY <1>1, <1>2, <2>3, <3>3, LeftOutIs
      <3> HIDE DEF A, B, C
      <3> DEFINE inc == {t.out[i].id : i \in DOMAIN t.out}
      <3>4. inc = A /\ t.omitted = B /\ t.pruned = C
        BY <2>1, <2>2 DEF A, B, C
      <3> HIDE DEF inc
      <3>5. ASSUME NEW i \in DOMAIN t.rs
            PROVE  /\ t.rs[i].generation = t.req.generation
                   /\ Cardinality({z \in {<<1, inc>>, <<2, t.omitted>>, <<3, t.pruned>>} : t.rs[i].id \in z[2]}) = 1
        BY <2>3, <3>2, <3>4
      <3>6. ASSUME NEW i \in DOMAIN t.rs, NEW j \in DOMAIN t.rs,
                   t.rs[i].id \in t.omitted, t.rs[j].id \in inc,
                   EffectivePriority(t.rs[i]) > EffectivePriority(t.rs[j])
            PROVE  Footprint(t.rs[i]) > Footprint(t.rs[j]) \/ Externalizes(t.rs[i]) \/ Externalizes(t.rs[j])
        BY <3>3, <3>4, <3>6
      <3> QED
        BY <2>1, <3>1, <3>5, <3>6, Zenon DEF TurnFits, inc
    <2> QED
      BY <2>1, <2>5, <2>6, <2>7, <2>8
  <1> QED
    BY <1>1, <1>3, <1>4, AssembleIs

\* The inductive invariant.  A turn's references stay its own because the
\* store gives every reference out once (StoreSound).
AssemblyInv ==
    /\ StoreSound(store) /\ AreRecords(inbox)
    /\ \A t \in turn : /\ TrustedKept(t) /\ TurnFits(t)
                       /\ t.error # "ok" => ~t.stored
                       /\ OwnReferences(t, store)

\* A list grows at its end.
LEMMA AppendIs ==
    ASSUME NEW s, IsList(s), NEW x
    PROVE  /\ IsList(Append(s, x)) /\ DOMAIN Append(s, x) = 1..(Len(s) + 1) /\ Len(s) \in Nat
           /\ Append(s, x)[Len(s) + 1] = x /\ \A i \in 1..Len(s) : Append(s, x)[i] = s[i]
  <1> DEFINE T == Range(s) \cup {x}
             a == Append(s, x)
  <1>1. s \in Seq(Range(s)) /\ Len(s) \in Nat
    BY DEF IsList
  <1>2. s \in Seq(T) /\ x \in T
    BY <1>1
  <1> HIDE DEF T
  <1>3. /\ a \in Seq(T) /\ Len(a) = Len(s) + 1
        /\ a[Len(s) + 1] = x /\ \A i \in 1..Len(s) : a[i] = s[i]
    BY <1>2
  <1> HIDE DEF a
  <1>4. a = [i \in 1..Len(a) |-> a[i]] /\ Len(a) \in Nat
    BY <1>3
  <1>5. IsList(a) /\ DOMAIN a = 1..Len(a)
    BY <1>4, ListIs
  <1> QED
    BY <1>1, <1>3, <1>5 DEF a

\* Records added at the end of a list of records.
LEMMA OneMore ==
    ASSUME NEW rs, AreRecords(rs), NEW r, IsRecord(r)
    PROVE  AreRecords(Append(rs, r))
  <1> DEFINE a == Append(rs, r)
             n == Len(rs)
  <1>1. IsList(rs) /\ \A i \in DOMAIN rs : IsRecord(rs[i])
    BY DEF AreRecords
  <1>2. /\ IsList(a) /\ DOMAIN a = 1..(n + 1) /\ n \in Nat
        /\ a[n + 1] = r /\ \A i \in 1..n : a[i] = rs[i]
    BY <1>1, AppendIs
  <1>3. DOMAIN rs = 1..n
    BY <1>1, ListHas
  <1> HIDE DEF a, n
  <1>4. ASSUME NEW i \in DOMAIN a
        PROVE  IsRecord(a[i])
    <2>1. i \in 1..n \/ i = n + 1
      BY <1>2
    <2> QED
      BY <1>1, <1>2, <1>3, <2>1
  <1>5. AreRecords(a)
    BY <1>2, <1>4 DEF AreRecords
  <1> QED
    BY <1>5 DEF a

\* The same for a list of them.
LEMMA MoreRecords ==
    ASSUME NEW rs, AreRecords(rs), NEW qs, AreRecords(qs)
    PROVE  AreRecords(rs \o qs)
  <1> DEFINE T == Range(rs) \cup Range(qs)
             a == rs \o qs
             n == Len(rs)
             m == Len(qs)
  <1>1. IsList(rs) /\ IsList(qs) /\ (\A i \in DOMAIN rs : IsRecord(rs[i])) /\ \A i \in DOMAIN qs : IsRecord(qs[i])
    BY DEF AreRecords
  <1>2. DOMAIN rs = 1..n /\ n \in Nat /\ DOMAIN qs = 1..m /\ m \in Nat
    BY <1>1, ListHas
  <1>3. rs \in Seq(T) /\ qs \in Seq(T)
    <2>1. rs \in Seq(Range(rs)) /\ qs \in Seq(Range(qs))
      BY <1>1 DEF IsList
    <2> QED
      BY <2>1
  <1> HIDE DEF T
  <1>4. /\ a \in Seq(T) /\ Len(a) = n + m
        /\ \A k \in 1..(n + m) : a[k] = IF k <= n THEN rs[k] ELSE qs[k - n]
    BY <1>3, ConcatIs
  <1> HIDE DEF a, n, m
  <1>5. a = [k \in 1..(n + m) |-> a[k]] /\ n + m \in Nat
    BY <1>2, <1>4
  <1>6. IsList(a) /\ DOMAIN a = 1..(n + m)
    BY <1>5, ListIs
  <1>7. ASSUME NEW k \in DOMAIN a
        PROVE  IsRecord(a[k])
    <2>1. CASE k <= n
      <3>1. k \in DOMAIN rs /\ a[k] = rs[k]
        BY <1>2, <1>4, <1>6, <2>1
      <3> QED
        BY <1>1, <3>1
    <2>2. CASE ~(k <= n)
      <3>1. k - n \in DOMAIN qs /\ a[k] = qs[k - n]
        BY <1>2, <1>4, <1>6, <2>2
      <3> QED
        BY <1>1, <3>1
    <2> QED
      BY <2>1, <2>2
  <1>8. AreRecords(a)
    BY <1>6, <1>7 DEF AreRecords
  <1> QED
    BY <1>8 DEF a

\* What a collector makes is a record.
LEMMA RecordOfIs ==
    ASSUME NEW id, NEW provider, NEW q, NEW g, NEW priority \in Nat, NEW untrusted \in BOOLEAN, NEW summary,
           NEW sumLen \in Nat, NEW body, q.at \in Nat,
           body.kind \in {"inline", "artifact"}, body.size \in Nat, body.ref \in Nat
    PROVE  IsRecord(RecordOf(id, provider, q, g, priority, untrusted, summary, sumLen, body))
  <1> DEFINE r == RecordOf(id, provider, q, g, priority, untrusted, summary, sumLen, body)
             owner == q.owner
             when == q.at
  <1>1. r = [id |-> id, provider |-> provider, owner |-> owner, generation |-> g, at |-> when,
             priority |-> priority, summary |-> summary, sumLen |-> sumLen, body |-> body,
             supersedes |-> {}, untrusted |-> untrusted]
    BY DEF RecordOf
  <1> HIDE DEF r, owner
  <1>2. /\ r.id = id /\ r.provider = provider /\ r.owner = owner /\ r.generation = g /\ r.at = when
        /\ r.priority = priority /\ r.summary = summary /\ r.sumLen = sumLen /\ r.body = body
        /\ r.supersedes = {} /\ r.untrusted = untrusted
    BY <1>1
  <1>3. r = [id |-> r.id, provider |-> r.provider, owner |-> r.owner, generation |-> r.generation,
             at |-> r.at, priority |-> r.priority, summary |-> r.summary, sumLen |-> r.sumLen,
             body |-> r.body, supersedes |-> r.supersedes, untrusted |-> r.untrusted]
    BY <1>1, <1>2
  <1>4. IsRecord(r)
    BY <1>2, <1>3 DEF IsRecord
  <1> QED
    BY <1>4 DEF r

\* The two kinds of body.
LEMMA BodiesAre ==
    ASSUME NEW content, NEW n \in Nat
    PROVE  /\ InlineBody(content, n).kind = "inline" /\ InlineBody(content, n).size = n /\ InlineBody(content, n).ref = 0
           /\ Reference(n).kind = "artifact" /\ Reference(n).size = 0 /\ Reference(n).ref = n
  BY DEF InlineBody, Reference

\* A store that moved on: what it still holds of what it held, and new
\* references for the rest.
LEMMA OwnStands ==
    ASSUME NEW t, NEW s, StoreSound(s), OwnReferences(t, s), NEW z, z.next \in Nat, s.next <= z.next,
           \A e \in Range(z.entries) : e \in Range(s.entries) \/ e.ref > s.next
    PROVE  OwnReferences(t, z)
  <1>1. s.next \in Nat
    BY DEF StoreSound
  <1> SUFFICES ASSUME NEW i \in DOMAIN t.out, NEW j \in DOMAIN t.rs, t.rs[j].id = t.out[i].id,
                      t.out[i].body.kind = "artifact", t.rs[j].body.kind = "inline"
               PROVE  /\ t.out[i].body.ref \in 1..z.next
                      /\ \A e \in Range(z.entries) : e.ref = t.out[i].body.ref => e.content = t.rs[j].body.content
    BY DEF OwnReferences
  <1>2. /\ t.out[i].body.ref \in 1..s.next
        /\ \A e \in Range(s.entries) : e.ref = t.out[i].body.ref => e.content = t.rs[j].body.content
    BY DEF OwnReferences
  <1>3. t.out[i].body.ref \in 1..z.next
    BY <1>1, <1>2
  <1>4. ASSUME NEW e \in Range(z.entries), e.ref = t.out[i].body.ref
        PROVE  e.content = t.rs[j].body.content
    <2>1. ~(e.ref > s.next)
      BY <1>1, <1>2, <1>4
    <2>2. e \in Range(s.entries)
      BY <2>1
    <2> QED
      BY <1>2, <1>4, <2>2
  <1> QED
    BY <1>3, <1>4

\* A body stored on its own gets the next reference.
LEMMA StoredIs ==
    ASSUME NEW s, StoreSound(s), NEW body, NEW g
    PROVE  LET z == Stored(s, body, g)
           IN  /\ StoreSound(z) /\ z.next = s.next + 1
               /\ \A e \in Range(z.entries) : e \in Range(s.entries) \/ e.ref > s.next
  <1> DEFINE z == Stored(s, body, g)
             x == s.entries
             y == s.deleted
             n == s.next
             v == n + 1
             new == [ref |-> v, content |-> body.content, size |-> body.size, generation |-> g]
             u == Append(x, new)
  <1>1. s = [entries |-> x, next |-> n, deleted |-> y] /\ n \in Nat /\ IsList(x)
        /\ \A e \in Range(x) : e.ref \in 1..n
    BY DEF StoreSound
  <1>2. z = [s EXCEPT !.next = v, !.entries = u]
    BY <1>1 DEF Stored
  <1>3. new.ref = v
    OBVIOUS
  <1> HIDE DEF new, z
  <1>4. /\ IsList(u) /\ DOMAIN u = 1..(Len(x) + 1) /\ Len(x) \in Nat
        /\ u[Len(x) + 1] = new /\ \A i \in 1..Len(x) : u[i] = x[i]
    BY <1>1, AppendIs
  <1>5. DOMAIN x = 1..Len(x)
    BY <1>1, ListHas
  <1>6. v \in Nat /\ v > n /\ v \in 1..v /\ \A k \in 1..n : k \in 1..v
    BY <1>1
  <1> HIDE DEF u, x, y, v, n
  <1>7. z = [entries |-> u, next |-> v, deleted |-> y]
    <2> DEFINE w == [s EXCEPT !.next = v]
    <2>1. w = [entries |-> x, next |-> v, deleted |-> y]
      BY <1>1, SMT
    <2>2. [s EXCEPT !.next = v, !.entries = u] = [w EXCEPT !.entries = u]
      BY <1>1, SMT
    <2> HIDE DEF w
    <2>3. [w EXCEPT !.entries = u] = [entries |-> u, next |-> v, deleted |-> y]
      BY <2>1, SMT
    <2> QED
      BY <1>2, <2>2, <2>3
  <1>8. z.entries = u /\ z.next = v /\ z.deleted = y
    BY <1>7
  <1>9. ASSUME NEW e \in Range(u)
        PROVE  e \in Range(x) \/ e = new
    <2>1. PICK i \in 1..(Len(x) + 1) : e = u[i]
      BY <1>4 DEF Range
    <2>2. i \in 1..Len(x) \/ i = Len(x) + 1
      BY <1>4, <2>1
    <2> QED
      BY <1>4, <1>5, <2>1, <2>2 DEF Range
  <1>10. \A e \in Range(u) : e.ref \in 1..v /\ (e \in Range(x) \/ e.ref > n)
    BY <1>1, <1>3, <1>6, <1>9
  <1>11. StoreSound(z)
    BY <1>4, <1>6, <1>7, <1>8, <1>10 DEF StoreSound
  <1> QED
    BY <1>8, <1>10, <1>11 DEF z, x, n, v

\* An entry that goes takes nothing with it.
LEMMA InvalidatedIs ==
    ASSUME NEW s, StoreSound(s), NEW ref, EntryOf(s, ref) # {}
    PROVE  LET z == Invalidated(s, ref)
           IN  /\ StoreSound(z) /\ z.next = s.next
               /\ \A e \in Range(z.entries) : e \in Range(s.entries)
  <1> DEFINE z == Invalidated(s, ref)
             x == s.entries
             y == s.deleted
             n == s.next
             i == Min(EntryOf(s, ref))
             u == RemoveAt(x, i)
             w == IF Cardinality(y) < MaxDeleted THEN y \cup {ref} ELSE y
  <1>1. s = [entries |-> x, next |-> n, deleted |-> y] /\ n \in Nat /\ IsList(x)
        /\ \A e \in Range(x) : e.ref \in 1..n
    BY DEF StoreSound
  <1>2. Len(x) \in Nat /\ DOMAIN x = 1..Len(x)
    BY <1>1, ListHas
  <1>3. i \in 1..Len(x)
    <2>1. EntryOf(s, ref) \in SUBSET Nat /\ EntryOf(s, ref) \subseteq 1..Len(x)
      BY <1>2 DEF EntryOf
    <2>2. i \in EntryOf(s, ref)
      BY <2>1, LeastIs
    <2> QED
      BY <2>1, <2>2
  <1>4. z = [s EXCEPT !.entries = u, !.deleted = w]
    BY <1>1 DEF Invalidated
  <1>5. x \in Seq(Range(x))
    BY <1>1 DEF IsList
  <1> HIDE DEF z, i, w
  <1>6. /\ u \in Seq(Range(x)) /\ Len(u) = Len(x) - 1
        /\ \A k \in 1..(Len(x) - 1) : u[k] = x[IF k < i THEN k ELSE k + 1]
    BY <1>3, <1>5, RemoveAtIs
  <1> HIDE DEF u, x, y, n
  <1>7. Len(u) \in Nat /\ u = [k \in 1..Len(u) |-> u[k]] /\ \A k \in 1..Len(u) : u[k] \in Range(x)
    BY <1>6
  <1>8. IsList(u) /\ DOMAIN u = 1..Len(u)
    BY <1>7, ListIs
  <1>9. \A e \in Range(u) : e \in Range(x)
    BY <1>7, <1>8 DEF Range
  <1>10. z = [entries |-> u, next |-> n, deleted |-> w]
    <2> DEFINE a == [s EXCEPT !.entries = u]
    <2>1. a = [entries |-> u, next |-> n, deleted |-> y]
      BY <1>1, SMT
    <2>2. [s EXCEPT !.entries = u, !.deleted = w] = [a EXCEPT !.deleted = w]
      BY <1>1, SMT
    <2> HIDE DEF a
    <2>3. [a EXCEPT !.deleted = w] = [entries |-> u, next |-> n, deleted |-> w]
      BY <2>1, SMT
    <2> QED
      BY <1>4, <2>2, <2>3
  <1>11. z.entries = u /\ z.next = n /\ z.deleted = w
    BY <1>10
  <1>12. StoreSound(z)
    BY <1>1, <1>8, <1>9, <1>10, <1>11 DEF StoreSound
  <1> QED
    BY <1>9, <1>11, <1>12 DEF z, x, n

\* Collecting changes no turn, and the store, if at all, at its end.
LEMMA CollectedKeeps ==
    ASSUME AssemblyInv, turn' = turn, AreRecords(inbox'), StoreSound(store'), store.next <= store'.next,
           \A e \in Range(store'.entries) : e \in Range(store.entries) \/ e.ref > store.next
    PROVE  AssemblyInv'
  <1>1. StoreSound(store) /\ store'.next \in Nat
    BY DEF AssemblyInv, StoreSound
  <1>2. ASSUME NEW t \in turn
        PROVE  /\ TrustedKept(t) /\ TurnFits(t) /\ (t.error # "ok" => ~t.stored)
               /\ OwnReferences(t, store')
    <2>1. TrustedKept(t) /\ TurnFits(t) /\ (t.error # "ok" => ~t.stored) /\ OwnReferences(t, store)
      BY DEF AssemblyInv
    <2>2. OwnReferences(t, store')
      BY <1>1, <2>1, OwnStands
    <2> QED
      BY <2>1, <2>2
  <1> QED
    BY <1>2 DEF AssemblyInv

\* The same when the store stands.
LEMMA StoreUnmoved ==
    ASSUME AssemblyInv, store' = store
    PROVE  /\ StoreSound(store') /\ store.next <= store'.next
           /\ \A e \in Range(store'.entries) : e \in Range(store.entries) \/ e.ref > store.next
  <1>1. StoreSound(store)
    BY DEF AssemblyInv
  <1>2. store.next \in Nat
    BY <1>1 DEF StoreSound
  <1> QED
    BY <1>1, <1>2

\* The steps, one by one.
LEMMA IssueRefreshKeeps == AssemblyInv /\ (\E g \in 1..MaxGeneration : IssueRefresh(g)) => AssemblyInv'
  <1> SUFFICES ASSUME AssemblyInv, NEW g \in 1..MaxGeneration, IssueRefresh(g)
               PROVE  AssemblyInv'
    OBVIOUS
  <1>1. turn' = turn /\ store' = store /\ inbox' = inbox
    BY DEF IssueRefresh
  <1>2. AreRecords(inbox')
    BY <1>1 DEF AssemblyInv
  <1> QED
    BY <1>1, <1>2, StoreUnmoved, CollectedKeeps

\* An observation stays a record whatever its generation.
LEMMA CollectKeeps ==
    AssemblyInv /\ (\E r \in Observations, g \in Issued : Collect([r EXCEPT !.generation = g])) => AssemblyInv'
  <1> SUFFICES ASSUME AssemblyInv, NEW r \in Observations, NEW g \in Issued, Collect([r EXCEPT !.generation = g])
               PROVE  AssemblyInv'
    OBVIOUS
  <1> DEFINE w == [r EXCEPT !.generation = g]
  <1>1. turn' = turn /\ store' = store /\ inbox' = Append(inbox, w)
    BY DEF Collect
  <1>2. IsRecord(r)
    BY AssemblyAssumption
  <1>3. IsRecord(w)
    <2>1. r = [id |-> r.id, provider |-> r.provider, owner |-> r.owner, generation |-> r.generation,
               at |-> r.at, priority |-> r.priority, summary |-> r.summary, sumLen |-> r.sumLen,
               body |-> r.body, supersedes |-> r.supersedes, untrusted |-> r.untrusted]
      BY <1>2 DEF IsRecord
    <2>2. w = [id |-> r.id, provider |-> r.provider, owner |-> r.owner, generation |-> g,
               at |-> r.at, priority |-> r.priority, summary |-> r.summary, sumLen |-> r.sumLen,
               body |-> r.body, supersedes |-> r.supersedes, untrusted |-> r.untrusted]
      BY <2>1, SMT
    <2> HIDE DEF w
    <2>3. /\ w.id = r.id /\ w.provider = r.provider /\ w.owner = r.owner /\ w.generation = g
          /\ w.at = r.at /\ w.priority = r.priority /\ w.summary = r.summary /\ w.sumLen = r.sumLen
          /\ w.body = r.body /\ w.supersedes = r.supersedes /\ w.untrusted = r.untrusted
      BY <2>2
    <2> QED
      BY <1>2, <2>2, <2>3 DEF IsRecord
  <1> HIDE DEF w
  <1>4. AreRecords(inbox')
    BY <1>1, <1>3, OneMore DEF AssemblyInv
  <1> QED
    BY <1>1, <1>4, StoreUnmoved, CollectedKeeps

\* A summary has a length.
LEMMA SummaryLenIs == ASSUME NEW q \in Snapshots PROVE SummaryLen(q.json) \in Nat
  <1>1. q.json.label \in Nat /\ q.json.revision \in Nat /\ MaxLabel \in Nat /\ MaxRevision \in Nat
    BY AssemblyAssumption
  <1>2. Min({q.json.label, MaxLabel}) \in Nat
    <2>1. {q.json.label, MaxLabel} \in SUBSET Nat /\ {q.json.label, MaxLabel} # {}
      BY <1>1
    <2> QED
      BY <2>1, LeastIs
  <1>3. Min({q.json.revision, MaxRevision}) \in Nat
    <2>1. {q.json.revision, MaxRevision} \in SUBSET Nat /\ {q.json.revision, MaxRevision} # {}
      BY <1>1
    <2> QED
      BY <2>1, LeastIs
  <1> QED
    BY <1>2, <1>3 DEF SummaryLen

\* A large snapshot is stored under a reference no turn has yet.
LEMMA IngestSnapshotKeeps ==
    AssemblyInv /\ (\E q \in Snapshots, g \in Issued : IngestSnapshot(q, g)) => AssemblyInv'
  <1> SUFFICES ASSUME AssemblyInv, NEW q \in Snapshots, NEW g \in Issued, IngestSnapshot(q, g)
               PROVE  AssemblyInv'
    OBVIOUS
  <1> DEFINE large == q.size > MaxBody
             body == IF large THEN Reference(store.next + 1) ELSE InlineBody(q.content, q.size)
             b == [content |-> q.content, size |-> q.size]
             r == RecordOf(q.id, "project", q, g, q.priority, TRUE, q.content, SummaryLen(q.json), body)
  <1>1. turn' = turn /\ inbox' = Append(inbox, r) /\ store' = IF large THEN Stored(store, b, g) ELSE store
    BY DEF IngestSnapshot
  <1>2. q.at \in Nat /\ q.priority \in Nat /\ q.size \in Nat
    BY AssemblyAssumption
  <1>3. StoreSound(store) /\ store.next \in Nat /\ AreRecords(inbox)
    BY DEF AssemblyInv, StoreSound
  <1>4. body.kind \in {"inline", "artifact"} /\ body.size \in Nat /\ body.ref \in Nat
    <2>1. store.next + 1 \in Nat
      BY <1>3
    <2>2. Reference(store.next + 1).kind = "artifact" /\ Reference(store.next + 1).size = 0
          /\ Reference(store.next + 1).ref = store.next + 1
      BY <2>1, BodiesAre
    <2>3. /\ InlineBody(q.content, q.size).kind = "inline" /\ InlineBody(q.content, q.size).size = q.size
          /\ InlineBody(q.content, q.size).ref = 0
      BY <1>2, BodiesAre
    <2> HIDE DEF large
    <2> QED
      BY <1>2, <2>1, <2>2, <2>3
  <1> HIDE DEF body
  <1>5. IsRecord(r)
    BY <1>2, <1>4, SummaryLenIs, RecordOfIs
  <1> HIDE DEF r, b, large
  <1>6. AreRecords(inbox')
    BY <1>1, <1>3, <1>5, OneMore
  <1>7. CASE large
    <2>1. store' = Stored(store, b, g)
      BY <1>1, <1>7
    <2>2. /\ StoreSound(store') /\ store'.next = store.next + 1
          /\ \A e \in Range(store'.entries) : e \in Range(store.entries) \/ e.ref > store.next
      BY <1>3, <2>1, StoredIs
    <2>3. store.next <= store'.next
      BY <1>3, <2>2
    <2> QED
      BY <1>1, <1>6, <2>2, <2>3, CollectedKeeps
  <1>8. CASE ~large
    <2>1. store' = store
      BY <1>1, <1>8
    <2> QED
      BY <1>1, <1>6, <2>1, StoreUnmoved, CollectedKeeps
  <1> QED
    BY <1>7, <1>8

\* The project layer and the deltas are records.
LEMMA IngestCompiledTurnKeeps ==
    AssemblyInv /\ (\E q \in CompiledTurns, g \in Issued : IngestCompiledTurn(q, g)) => AssemblyInv'
  <1> SUFFICES ASSUME AssemblyInv, NEW q \in CompiledTurns, NEW g \in Issued, IngestCompiledTurn(q, g)
               PROVE  AssemblyInv'
    OBVIOUS
  <1> DEFINE first == RecordOf(q.id, "project", q, g, q.priority, TRUE, q.digest, q.size, InlineBody(q.digest, q.size))
             Delta(i) == RecordOf(q.stem + i, "diagnostics", q, g, q.deltaPriority, FALSE,
                                  q.deltas[i].text, q.deltas[i].size, InlineBody(q.deltas[i].text, q.deltas[i].size))
             rest == [i \in DOMAIN q.deltas |-> Delta(i)]
             n == Len(q.deltas)
  <1>1. turn' = turn /\ store' = store /\ inbox' = inbox \o (<<first>> \o rest)
    BY DEF IngestCompiledTurn, CompiledRecords
  <1>2. /\ q.at \in Nat /\ q.priority \in Nat /\ q.deltaPriority \in Nat /\ q.size \in Nat
        /\ q.deltas \in Seq(Range(q.deltas)) /\ \A i \in DOMAIN q.deltas : q.deltas[i].size \in Nat
    BY AssemblyAssumption
  <1>3. n \in Nat /\ DOMAIN q.deltas = 1..n
    BY <1>2
  <1>4. IsRecord(first)
    <2> DEFINE body == InlineBody(q.digest, q.size)
    <2>1. body.kind \in {"inline", "artifact"} /\ body.size \in Nat /\ body.ref \in Nat
      BY <1>2, BodiesAre
    <2> HIDE DEF body
    <2>2. IsRecord(RecordOf(q.id, "project", q, g, q.priority, TRUE, q.digest, q.size, body))
      BY <1>2, <2>1, RecordOfIs
    <2> QED
      BY <2>2 DEF body
  <1>5. ASSUME NEW i \in 1..n
        PROVE  IsRecord(Delta(i))
    <2> DEFINE d == q.deltas[i]
    <2>1. d.size \in Nat
      BY <1>2, <1>3
    <2> HIDE DEF d
    <2> DEFINE body == InlineBody(d.text, d.size)
    <2>2. body.kind \in {"inline", "artifact"} /\ body.size \in Nat /\ body.ref \in Nat
      BY <2>1, BodiesAre
    <2> HIDE DEF body
    <2>3. IsRecord(RecordOf(q.stem + i, "diagnostics", q, g, q.deltaPriority, FALSE, d.text, d.size, body))
      BY <1>2, <2>1, <2>2, RecordOfIs
    <2> QED
      BY <2>3 DEF d, body
  <1> HIDE DEF n, first, Delta
  <1>6. AreRecords(<<first>>)
    <2> DEFINE o == <<first>>
    <2>1. DOMAIN o = 1..1 /\ o[1] = first /\ o = [i \in 1..1 |-> o[i]]
      OBVIOUS
    <2> HIDE DEF o
    <2>2. IsList(o) /\ DOMAIN o = 1..1
      BY <2>1, ListIs
    <2>3. \A i \in DOMAIN o : IsRecord(o[i])
      BY <1>4, <2>1
    <2>4. AreRecords(o)
      BY <2>2, <2>3 DEF AreRecords
    <2> QED
      BY <2>4 DEF o
  <1>7. AreRecords(rest)
    <2>1. rest = [i \in 1..n |-> rest[i]]
      BY <1>3
    <2>2. \A i \in 1..n : rest[i] = Delta(i)
      BY <1>3
    <2> HIDE DEF rest
    <2>3. IsList(rest) /\ DOMAIN rest = 1..n
      BY <1>3, <2>1, ListIs
    <2> QED
      BY <1>5, <2>2, <2>3 DEF AreRecords
  <1> HIDE DEF rest
  <1>8. AreRecords(<<first>> \o rest)
    BY <1>6, <1>7, MoreRecords
  <1>9. AreRecords(inbox')
    BY <1>1, <1>8, MoreRecords DEF AssemblyInv
  <1> QED
    BY <1>1, <1>9, StoreUnmoved, CollectedKeeps

\* The last turn is replaced by one that is true of the new store.
LEMMA AssembleTurnKeeps ==
    AssemblyInv /\ (\E g \in ledger.highest, b \in Budgets : AssembleTurn(g, b)) => AssemblyInv'
  <1> SUFFICES ASSUME AssemblyInv, NEW g \in ledger.highest, NEW b \in Budgets, AssembleTurn(g, b)
               PROVE  AssemblyInv'
    OBVIOUS
  <1> DEFINE req == [bytes |-> b.bytes, tokens |-> b.tokens, generation |-> g]
             result == Assemble(inbox, store, req)
             t == [rs |-> inbox, req |-> req, error |-> result.error, stored |-> result.store # store,
                   out |-> result.out, omitted |-> result.omitted, pruned |-> result.pruned]
  <1>1. turn' = {t} /\ store' = result.store /\ inbox' = <<>>
    BY DEF AssembleTurn
  <1>2. AreRecords(inbox) /\ StoreSound(store)
    BY DEF AssemblyInv
  <1>3. EffectiveBudget(req) \in Nat
    <2>1. b.bytes \subseteq Nat /\ b.tokens \subseteq Nat
      BY AssemblyAssumption
    <2>2. req.bytes = b.bytes /\ req.tokens = b.tokens
      OBVIOUS
    <2> HIDE DEF req
    <2> QED
      BY <2>1, <2>2, BudgetIs
  <1> HIDE DEF req
  <1>4. /\ t.rs = inbox /\ t.req = req /\ t.error = result.error /\ t.stored = (result.store # store)
        /\ t.out = result.out /\ t.omitted = result.omitted /\ t.pruned = result.pruned
    OBVIOUS
  <1> HIDE DEF t
  <1>5. /\ StoreSound(result.store) /\ TrustedKept(t) /\ TurnFits(t) /\ (t.error # "ok" => ~t.stored)
        /\ OwnReferences(t, result.store)
    BY <1>2, <1>3, <1>4, AssembledTrue
  <1>6. AreRecords(<<>>)
    <2>1. IsList(<<>>)
      BY DEF IsList
    <2> QED
      BY <2>1 DEF AreRecords
  <1> HIDE DEF result
  <1> QED
    BY <1>1, <1>5, <1>6 DEF AssemblyInv

\* A reference that went bad resolves to nothing else.
LEMMA InvalidateRefKeeps == AssemblyInv /\ (\E ref \in 1..store.next : InvalidateRef(ref)) => AssemblyInv'
  <1> SUFFICES ASSUME AssemblyInv, NEW ref \in 1..store.next, InvalidateRef(ref)
               PROVE  AssemblyInv'
    OBVIOUS
  <1>1. EntryOf(store, ref) # {} /\ store' = Invalidated(store, ref) /\ inbox' = inbox /\ turn' = turn
    BY DEF InvalidateRef
  <1>2. AreRecords(inbox') /\ StoreSound(store) /\ store.next \in Nat
    BY <1>1 DEF AssemblyInv, StoreSound
  <1>3. /\ StoreSound(store') /\ store'.next = store.next
        /\ \A e \in Range(store'.entries) : e \in Range(store.entries)
    BY <1>1, <1>2, InvalidatedIs
  <1>4. store.next <= store'.next
    BY <1>2, <1>3
  <1> QED
    BY <1>1, <1>2, <1>3, <1>4, CollectedKeeps

LEMMA AssemblyStarts == AssemblyInit => AssemblyInv
  <1> SUFFICES ASSUME AssemblyInit
               PROVE  AssemblyInv
    OBVIOUS
  <1>1. inbox = <<>> /\ turn = {} /\ store = [entries |-> <<>>, next |-> 0, deleted |-> {}]
    BY DEF AssemblyInit, EmptyStore
  <1>2. IsList(<<>>)
    BY DEF IsList
  <1>3. Range(<<>>) = {}
    BY DEF Range
  <1>4. store.entries = <<>> /\ store.next = 0 /\ store.deleted = {}
    BY <1>1
  <1>5. StoreSound(store)
    BY <1>1, <1>2, <1>3, <1>4 DEF StoreSound
  <1>6. AreRecords(inbox)
    BY <1>1, <1>2 DEF AreRecords
  <1> QED
    BY <1>1, <1>5, <1>6 DEF AssemblyInv

LEMMA AssemblySteps == AssemblyInv /\ [AssemblyNext]_assemblyVars => AssemblyInv'
  <1>1. ASSUME AssemblyInv, UNCHANGED assemblyVars
        PROVE  AssemblyInv'
    BY <1>1 DEF AssemblyInv, assemblyVars
  <1> QED
    BY <1>1, IssueRefreshKeeps, CollectKeeps, IngestSnapshotKeeps, IngestCompiledTurnKeeps,
       AssembleTurnKeeps, InvalidateRefKeeps DEF AssemblyNext

LEMMA AssemblyImplies == AssemblyInv => AssemblyTrue
  <1> SUFFICES ASSUME AssemblyInv, NEW t \in turn
               PROVE  ReferencesTrue(t) /\ TrustedKept(t) /\ TurnFits(t)
    BY DEF AssemblyTrue
  <1>1. TrustedKept(t) /\ TurnFits(t) /\ (t.error # "ok" => ~t.stored) /\ OwnReferences(t, store)
    BY DEF AssemblyInv
  <1>2. StoreSound(store)
    BY DEF AssemblyInv
  <1>3. ASSUME NEW i \in DOMAIN t.out, NEW j \in DOMAIN t.rs, t.rs[j].id = t.out[i].id,
               t.out[i].body.kind = "artifact", t.rs[j].body.kind = "inline",
               Resolve(store, t.out[i].body.ref, t.out[i].generation).error = "ok"
        PROVE  Resolve(store, t.out[i].body.ref, t.out[i].generation).content = t.rs[j].body.content
    <2> DEFINE ref == t.out[i].body.ref
               E == EntryOf(store, ref)
               a == Absence(store, ref, t.out[i].generation)
               x == store.entries[Min(E)]
               got == Resolve(store, ref, t.out[i].generation)
    <2>1. got = CASE a = "Available" -> [error |-> "ok", content |-> x.content]
                  [] a = "Expired" -> [error |-> "ArtifactExpired"]
                  [] a = "Deleted" -> [error |-> "ArtifactDeleted"]
                  [] OTHER -> [error |-> "ArtifactUnavailable"]
      BY DEF Resolve
    <2>2. a = "Available" => E # {}
      BY DEF Absence
    <2>3. got.error = "ok"
      BY <1>3
    <2>4. IsList(store.entries)
      BY <1>2 DEF StoreSound
    <2>5. DOMAIN store.entries = 1..Len(store.entries) /\ Len(store.entries) \in Nat
      BY <2>4, ListHas
    <2>6. E \in SUBSET Nat /\ \A k \in E : k \in DOMAIN store.entries /\ store.entries[k].ref = ref
      BY <2>5 DEF EntryOf
    <2> HIDE DEF a, got, E
    <2>7. a = "Available" /\ got.content = x.content
      <3> DEFINE c == x.content
      <3> HIDE DEF x, c
      <3>1. got = CASE a = "Available" -> [error |-> "ok", content |-> c]
                    [] a = "Expired" -> [error |-> "ArtifactExpired"]
                    [] a = "Deleted" -> [error |-> "ArtifactDeleted"]
                    [] OTHER -> [error |-> "ArtifactUnavailable"]
        BY <2>1 DEF c
      <3>2. a = "Available"
        BY <2>3, <3>1
      <3>3. got = [error |-> "ok", content |-> c]
        BY <3>1, <3>2
      <3> QED
        BY <3>2, <3>3 DEF c
    <2>8. Min(E) \in E
      BY <2>2, <2>6, <2>7, LeastIs
    <2>9. x \in Range(store.entries) /\ x.ref = ref
      BY <2>6, <2>8 DEF Range
    <2>10. x.content = t.rs[j].body.content
      BY <1>1, <1>3, <2>9 DEF OwnReferences
    <2> QED
      BY <2>7, <2>10 DEF got
  <1>4. ReferencesTrue(t)
    BY <1>1, <1>3 DEF ReferencesTrue
  <1> QED
    BY <1>1, <1>4

\* Whatever is observed, collected, stored, invalidated and assembled in
\* whatever order, the last assembled turn's references resolve to their own
\* record's bytes or to an absence, no untrusted text removed a trusted
\* record, and the turn fits its budget with every record accounted for once
\* (assemble, ArtifactStore).
THEOREM AssemblyIsTrue == AssemblySpec => []AssemblyTrue
  <1>1. AssemblyInit => AssemblyInv
    BY AssemblyStarts
  <1>2. AssemblyInv /\ [AssemblyNext]_assemblyVars => AssemblyInv'
    BY AssemblySteps
  <1>3. AssemblyInv => AssemblyTrue
    BY AssemblyImplies
  <1> QED
    BY <1>1, <1>2, <1>3, PTL DEF AssemblySpec

-----------------------------------------------------------------------------
\* Sorting: every item has a place of its own, and the places are those of the list.
LEMMA PlacesRise ==
    ASSUME NEW n \in Nat, NEW key \in [1..n -> Int], NEW i \in 1..n, NEW j \in 1..n
    PROVE  /\ PlaceOf(key, i) \in 1..n
           /\ SortedBefore(key, i, j) => PlaceOf(key, i) < PlaceOf(key, j)
  <1> DEFINE T(x) == {y \in 1..n : SortedBefore(key, y, x)}
  <1>1. IsFiniteSet(1..n) /\ Cardinality(1..n) = n
    BY FS_Interval
  <1>2. ASSUME NEW x \in 1..n
        PROVE  /\ T(x) \in SUBSET (1..n) /\ x \notin T(x)
               /\ IsFiniteSet(T(x)) /\ Cardinality(T(x)) \in Nat /\ PlaceOf(key, x) = 1 + Cardinality(T(x))
    <2>1. T(x) \in SUBSET (1..n)
      OBVIOUS
    <2>2. x \notin T(x)
      BY DEF SortedBefore
    <2>3. IsFiniteSet(T(x))
      BY <1>1, <2>1, FS_Subset
    <2>4. Cardinality(T(x)) \in Nat
      BY <2>3, FS_CardinalityType
    <2>5. PlaceOf(key, x) = 1 + Cardinality(T(x))
      BY DEF PlaceOf
    <2> QED
      BY <2>1, <2>2, <2>3, <2>4, <2>5
  <1>3. Cardinality(T(i)) < n
    <2>1. T(i) \in SUBSET (1..n) /\ T(i) # 1..n /\ Cardinality(T(i)) \in Nat
      BY <1>2
    <2> HIDE DEF T
    <2>2. Cardinality(T(i)) <= Cardinality(1..n) /\ Cardinality(T(i)) # Cardinality(1..n)
      BY <1>1, <2>1, FS_Subset
    <2> QED
      BY <1>1, <2>1, <2>2
  <1>4. ASSUME SortedBefore(key, i, j)
        PROVE  Cardinality(T(i)) < Cardinality(T(j))
    <2>1. ASSUME NEW y \in T(i)
          PROVE  y \in T(j)
      <3>1. y \in 1..n /\ SortedBefore(key, y, i)
        OBVIOUS
      <3>2. key[y] \in Int /\ key[i] \in Int /\ key[j] \in Int
        BY <3>1
      <3>3. SortedBefore(key, y, j)
        BY <1>4, <3>1, <3>2 DEF SortedBefore
      <3> QED
        BY <3>1, <3>3
    <2>2. i \in T(j) /\ i \notin T(i)
      BY <1>2, <1>4
    <2>3. /\ IsFiniteSet(T(j)) /\ Cardinality(T(j)) \in Nat /\ Cardinality(T(i)) \in Nat
      BY <1>2
    <2> HIDE DEF T
    <2>4. T(i) \in SUBSET T(j) /\ T(j) # T(i)
      BY <2>1, <2>2
    <2>5. Cardinality(T(i)) <= Cardinality(T(j)) /\ Cardinality(T(j)) # Cardinality(T(i))
      BY <2>3, <2>4, FS_Subset
    <2> QED
      BY <2>3, <2>5
  <1>5. /\ PlaceOf(key, i) = 1 + Cardinality(T(i)) /\ PlaceOf(key, j) = 1 + Cardinality(T(j))
        /\ Cardinality(T(i)) \in Nat /\ Cardinality(T(j)) \in Nat
    BY <1>2
  <1> HIDE DEF T
  <1>6. PlaceOf(key, i) \in 1..n
    BY <1>3, <1>5
  <1>7. SortedBefore(key, i, j) => PlaceOf(key, i) < PlaceOf(key, j)
    BY <1>4, <1>5
  <1> QED
    BY <1>6, <1>7

LEMMA PlacesAre ==
    ASSUME NEW n \in Nat, NEW key \in [1..n -> Int]
    PROVE  /\ \A i \in 1..n : PlaceOf(key, i) \in 1..n
           /\ \A i, j \in 1..n : PlaceOf(key, i) = PlaceOf(key, j) => i = j
           /\ \A k \in 1..n : \E i \in 1..n : PlaceOf(key, i) = k
  <1> DEFINE f == [i \in 1..n |-> PlaceOf(key, i)]
  <1>1. ASSUME NEW i \in 1..n
        PROVE  PlaceOf(key, i) \in 1..n
    BY PlacesRise
  <1>2. ASSUME NEW i \in 1..n, NEW j \in 1..n, PlaceOf(key, i) = PlaceOf(key, j)
        PROVE  i = j
    <2>1. /\ SortedBefore(key, i, j) => PlaceOf(key, i) < PlaceOf(key, j)
          /\ SortedBefore(key, j, i) => PlaceOf(key, j) < PlaceOf(key, i)
      BY PlacesRise
    <2>2. PlaceOf(key, i) \in 1..n /\ PlaceOf(key, j) \in 1..n
      BY <1>1
    <2>3. key[i] \in Int /\ key[j] \in Int
      OBVIOUS
    <2>4. i = j \/ SortedBefore(key, i, j) \/ SortedBefore(key, j, i)
      BY <2>3 DEF SortedBefore
    <2> QED
      BY <1>2, <2>1, <2>2, <2>4
  <1>3. f \in Injection(1..n, 1..n)
    BY <1>1, <1>2 DEF Injection, IsInjective
  <1>4. IsFiniteSet(1..n)
    BY FS_Interval
  <1>5. f \in Surjection(1..n, 1..n)
    BY <1>3, <1>4, FS_Injection
  <1>6. \A k \in 1..n : \E i \in 1..n : PlaceOf(key, i) = k
    BY <1>5 DEF Surjection
  <1> QED
    BY <1>1, <1>2, <1>6

LEMMA SortedIs ==
    ASSUME NEW n \in Nat, NEW key \in [1..n -> Int], NEW s, DOMAIN s = 1..n
    PROVE  /\ DOMAIN SortedBy(s, key) = 1..n
           /\ SortedBy(s, key) = [k \in 1..n |-> SortedBy(s, key)[k]]
           /\ \A i \in 1..n : SortedBy(s, key)[PlaceOf(key, i)] = s[i]
  <1> DEFINE place == [i \in 1..n |-> PlaceOf(key, i)]
             at(k) == CHOOSE i \in 1..n : place[i] = k
  <1>1. SortedBy(s, key) = [k \in 1..n |-> s[at(k)]]
    BY DEF SortedBy
  <1>2. ASSUME NEW i \in 1..n
        PROVE  SortedBy(s, key)[PlaceOf(key, i)] = s[i]
    <2>1. PlaceOf(key, i) \in 1..n
      BY PlacesAre
    <2>2. at(PlaceOf(key, i)) \in 1..n /\ place[at(PlaceOf(key, i))] = PlaceOf(key, i)
      <3>1. place[i] = PlaceOf(key, i)
        OBVIOUS
      <3> HIDE DEF place
      <3> QED
        BY <3>1
    <2>3. at(PlaceOf(key, i)) = i
      BY <2>2, PlacesAre
    <2> HIDE DEF at
    <2> QED
      BY <1>1, <2>1, <2>3
  <1> QED
    BY <1>1, <1>2

\* Where no two keys are the same, the order before the sort does not show after it.
LEMMA SortForgets ==
    ASSUME NEW n \in Nat, NEW key \in [1..n -> Int], \A i, j \in 1..n : key[i] = key[j] => i = j,
           NEW f \in Bijection(1..n, 1..n), NEW s, DOMAIN s = 1..n
    PROVE  SortedBy([i \in 1..n |-> s[f[i]]], [i \in 1..n |-> key[f[i]]]) = SortedBy(s, key)
  <1> DEFINE t == [i \in 1..n |-> s[f[i]]]
             moved == [i \in 1..n |-> key[f[i]]]
             a == SortedBy(t, moved)
             b == SortedBy(s, key)
  <1>1. /\ f \in [1..n -> 1..n]
        /\ \A i, j \in 1..n : f[i] = f[j] => i = j
        /\ \A w \in 1..n : \E v \in 1..n : f[v] = w
    BY DEF Bijection, Injection, Surjection, IsInjective
  <1>2. moved \in [1..n -> Int]
    BY <1>1
  <1>3. ASSUME NEW i \in 1..n
        PROVE  PlaceOf(moved, i) = PlaceOf(key, f[i])
    <2> DEFINE S == {j \in 1..n : SortedBefore(moved, j, i)}
               T == {j \in 1..n : SortedBefore(key, j, f[i])}
               g == [j \in S |-> f[j]]
    <2>1. ASSUME NEW j \in 1..n
          PROVE  j \in S <=> f[j] \in T
      <3>1. /\ moved[j] = key[f[j]] /\ moved[i] = key[f[i]] /\ f[j] \in 1..n /\ f[i] \in 1..n
            /\ key[f[j]] \in Int /\ key[f[i]] \in Int
        BY <1>1
      <3> HIDE DEF moved
      <3>2. key[f[j]] = key[f[i]] => f[j] = f[i] /\ j = i
        BY <1>1, <3>1
      <3>3. SortedBefore(moved, j, i) <=> key[f[j]] < key[f[i]]
        BY <3>1, <3>2 DEF SortedBefore
      <3>4. SortedBefore(key, f[j], f[i]) <=> key[f[j]] < key[f[i]]
        BY <3>1, <3>2 DEF SortedBefore
      <3> QED
        BY <3>1, <3>3, <3>4
    <2>2. S \in SUBSET (1..n) /\ T \in SUBSET (1..n)
      OBVIOUS
    <2>3. IsFiniteSet(S)
      <3>1. IsFiniteSet(1..n)
        BY FS_Interval
      <3> QED
        BY <2>2, <3>1, FS_Subset
    <2>4. PlaceOf(moved, i) = 1 + Cardinality(S)
      BY DEF PlaceOf
    <2>5. PlaceOf(key, f[i]) = 1 + Cardinality(T)
      BY DEF PlaceOf
    <2> HIDE DEF S, T
    <2>6. g \in [S -> T]
      BY <1>1, <2>1, <2>2
    <2>7. \A x, y \in S : g[x] = g[y] => x = y
      BY <1>1, <2>2
    <2>8. \A w \in T : \E v \in S : g[v] = w
      BY <1>1, <2>1, <2>2
    <2>9. g \in Bijection(S, T)
      BY <2>6, <2>7, <2>8 DEF Bijection, Injection, Surjection, IsInjective
    <2>10. Cardinality(T) = Cardinality(S)
      BY <2>3, <2>9, FS_Bijection DEF ExistsBijection
    <2> QED
      BY <2>4, <2>5, <2>10
  <1>4. /\ DOMAIN a = 1..n /\ a = [k \in 1..n |-> a[k]]
        /\ \A i \in 1..n : a[PlaceOf(moved, i)] = t[i]
    <2>1. DOMAIN t = 1..n
      OBVIOUS
    <2> HIDE DEF t, moved
    <2> QED
      BY <1>2, <2>1, SortedIs
  <1>5. /\ DOMAIN b = 1..n /\ b = [k \in 1..n |-> b[k]]
        /\ \A i \in 1..n : b[PlaceOf(key, i)] = s[i]
    BY SortedIs
  <1>6. \A k \in 1..n : \E i \in 1..n : PlaceOf(moved, i) = k
    BY <1>2, PlacesAre
  <1>7. \A i \in 1..n : t[i] = s[f[i]]
    OBVIOUS
  <1> HIDE DEF t, moved, a, b
  <1>8. ASSUME NEW k \in 1..n
        PROVE  a[k] = b[k]
    <2>1. PICK i \in 1..n : PlaceOf(moved, i) = k
      BY <1>6
    <2>2. f[i] \in 1..n /\ PlaceOf(key, f[i]) = k
      BY <1>1, <1>3, <2>1
    <2>3. a[PlaceOf(moved, i)] = t[i] /\ t[i] = s[f[i]]
      BY <1>4, <1>7
    <2>4. b[PlaceOf(key, f[i])] = s[f[i]]
      BY <1>5, <2>2
    <2> QED
      BY <2>1, <2>2, <2>3, <2>4
  <1>9. a = b
    BY <1>4, <1>5, <1>8
  <1> QED
    BY <1>9 DEF a, b, t, moved

-----------------------------------------------------------------------------
\* The layered prompt.  What is kept: the list of layers, and of a prompt the
\* layers it is the assembly of; a call that passed did so against that prompt.
OfLayers(ls) == IsSequence(ls) /\ \A i \in DOMAIN ls : ls[i].layer \in Range(StableOrder)

PromptInv ==
    /\ OfLayers(layers)
    /\ \A p, q \in prompt : p = q
    /\ \A p \in prompt : OfLayers(p.of) /\ p.made = Assembled(p.of, version) /\ p.made.error = "ok"
    /\ asked.verdict = "ok" =>
         \A p \in prompt : \E granted \in BOOLEAN : CheckDispatch(p.made, asked.tool, granted) = "ok"

LEMMA SequenceOf ==
    ASSUME NEW T, NEW s \in Seq(T)
    PROVE  IsSequence(s)
  <1>1. \A i \in 1..Len(s) : s[i] \in Range(s)
    BY DEF Range
  <1> QED
    BY <1>1 DEF IsSequence

LEMMA FiveLayers ==
    /\ DOMAIN StableOrder = 1..5 /\ Len(StableOrder) = 5
    /\ \A l \in Range(StableOrder) : Rank(l) \in 1..5 /\ StableOrder[Rank(l)] = l
  <1>1. DOMAIN StableOrder = 1..5 /\ Len(StableOrder) = 5
    BY DEF StableOrder
  <1>2. ASSUME NEW l \in Range(StableOrder)
        PROVE  Rank(l) \in 1..5 /\ StableOrder[Rank(l)] = l
    <2>1. \E i \in DOMAIN StableOrder : StableOrder[i] = l
      BY DEF Range
    <2>2. Rank(l) \in DOMAIN StableOrder /\ StableOrder[Rank(l)] = l
      BY <2>1 DEF Rank
    <2> QED
      BY <1>1, <2>2
  <1> QED
    BY <1>1, <1>2

Distinct(ls) == \A i, j \in DOMAIN ls : i # j => ls[i].layer # ls[j].layer

LEMMA SnapshotOk ==
    ASSUME NEW ls, IsSequence(ls), NEW v
    PROVE  PromptSnapshotVerdict(ls, v) = "ok" <=>
             /\ v # "" /\ ~(Len(ls) > Len(StableOrder)) /\ Distinct(ls)
             /\ \A i \in DOMAIN ls : LayerVerdict(ls[i]) = "ok"
  <1> DEFINE bad == {i \in DOMAIN ls : LayerVerdict(ls[i]) # "ok"}
  <1>1. bad \in SUBSET Nat
    BY DEF IsSequence
  <1>2. ASSUME bad # {}
        PROVE  LayerVerdict(ls[Min(bad)]) # "ok"
    <2>1. Min(bad) \in bad
      BY <1>1, <1>2, LeastIsIn
    <2> QED
      BY <2>1
  <1>3. bad = {} <=> \A i \in DOMAIN ls : LayerVerdict(ls[i]) = "ok"
    OBVIOUS
  <1>4. PromptSnapshotVerdict(ls, v) =
          IF v = "" THEN "InvalidCoreVersion"
          ELSE IF Len(ls) > Len(StableOrder) THEN "TooManyLayers"
          ELSE IF ~Distinct(ls) THEN "DuplicateLayer"
          ELSE IF bad # {} THEN LayerVerdict(ls[Min(bad)]) ELSE "ok"
    BY DEF PromptSnapshotVerdict, Distinct
  <1> HIDE DEF bad
  <1> QED
    BY <1>2, <1>3, <1>4

LEMMA AssembledIs ==
    ASSUME NEW ls, NEW v, Assembled(ls, v).error = "ok"
    PROVE  LET size == CanonicalSize(Sections(Ordered(ls)), Effective(ls)) IN
           /\ PromptSnapshotVerdict(ls, v) = "ok"
           /\ Assembled(ls, v) = [error |-> "ok", effective |-> Effective(ls), size |-> size,
                                  canonical |-> Canonical(v, Sections(Ordered(ls)), Effective(ls))]
           /\ size \in 0..MaxCanonical /\ \A b \in Effective(ls).budget : ~(size > b)
  BY DEF Assembled, PromptError

\* Sorting the layers does not change what stands in a section.
LEMMA OrderedIs ==
    ASSUME NEW ls, OfLayers(ls), Distinct(ls)
    PROVE  /\ Len(ls) \in Nat /\ DOMAIN ls = 1..Len(ls) /\ Ranks(ls) \in [1..Len(ls) -> Int]
           /\ \A i, j \in 1..Len(ls) : Ranks(ls)[i] = Ranks(ls)[j] => i = j
           /\ DOMAIN Ordered(ls) = 1..Len(ls)
           /\ \A i \in 1..Len(ls) : /\ PlaceOf(Ranks(ls), i) \in 1..Len(ls)
                                    /\ Ordered(ls)[PlaceOf(Ranks(ls), i)] = ls[i]
           /\ \A k \in 1..Len(ls) : \E i \in 1..Len(ls) : PlaceOf(Ranks(ls), i) = k
  <1> DEFINE n == Len(ls)
             key == Ranks(ls)
  <1>1. n \in Nat /\ DOMAIN ls = 1..n
    BY DEF OfLayers, IsSequence
  <1>2. \A i \in 1..n : key[i] = Rank(ls[i].layer) /\ ls[i].layer \in Range(StableOrder)
    BY <1>1 DEF Ranks, OfLayers
  <1>3. \A i \in 1..n : key[i] \in Int /\ StableOrder[key[i]] = ls[i].layer
    BY <1>2, FiveLayers
  <1>4. key \in [1..n -> Int]
    BY <1>1, <1>3 DEF Ranks
  <1>5. \A i, j \in 1..n : key[i] = key[j] => i = j
    BY <1>1, <1>3 DEF Distinct
  <1> HIDE DEF n, key
  <1>6. /\ DOMAIN SortedBy(ls, key) = 1..n
        /\ \A i \in 1..n : SortedBy(ls, key)[PlaceOf(key, i)] = ls[i]
    BY <1>1, <1>4, SortedIs
  <1>7. /\ \A i \in 1..n : PlaceOf(key, i) \in 1..n
        /\ \A k \in 1..n : \E i \in 1..n : PlaceOf(key, i) = k
    BY <1>1, <1>4, PlacesAre
  <1>8. Ordered(ls) = SortedBy(ls, key)
    BY DEF Ordered, key
  <1> QED
    BY <1>1, <1>4, <1>5, <1>6, <1>7, <1>8 DEF n, key

LEMMA SectionsSorted ==
    ASSUME NEW ls, OfLayers(ls), Distinct(ls)
    PROVE  Sections(Ordered(ls)) = Sections(ls)
  <1> DEFINE n == Len(ls)
             P(i) == PlaceOf(Ranks(ls), i)
             O == Ordered(ls)
             mine(k) == {i \in 1..n : ls[i].layer = StableOrder[k]}
             sorted(k) == {i \in 1..n : O[i].layer = StableOrder[k]}
  <1>1. /\ n \in Nat /\ DOMAIN ls = 1..n /\ DOMAIN O = 1..n
        /\ \A i \in 1..n : P(i) \in 1..n /\ O[P(i)] = ls[i]
        /\ \A k \in 1..n : \E i \in 1..n : P(i) = k
    BY OrderedIs
  <1> HIDE DEF n, P, O
  <1>2. ASSUME NEW k \in DOMAIN StableOrder
        PROVE  /\ sorted(k) = {} <=> mine(k) = {}
               /\ mine(k) # {} => O[Min(sorted(k))].text = ls[Min(mine(k))].text
    <2>1. mine(k) \in SUBSET Nat /\ sorted(k) \in SUBSET Nat
      BY <1>1
    <2>2. ASSUME NEW i \in mine(k)
          PROVE  P(i) \in sorted(k)
      BY <1>1
    <2>3. ASSUME NEW j \in sorted(k)
          PROVE  \E i \in mine(k) : P(i) = j /\ O[j] = ls[i]
      <3>1. j \in 1..n /\ O[j].layer = StableOrder[k]
        OBVIOUS
      <3>2. PICK i \in 1..n : P(i) = j
        BY <1>1, <3>1
      <3>3. O[j] = ls[i]
        BY <1>1, <3>2
      <3> QED
        BY <3>1, <3>2, <3>3
    <2>4. \A i, j \in mine(k) : i = j
      BY <1>1 DEF Distinct
    <2> HIDE DEF mine, sorted
    <2>5. sorted(k) = {} <=> mine(k) = {}
      BY <2>2, <2>3
    <2>6. ASSUME mine(k) # {}
          PROVE  O[Min(sorted(k))].text = ls[Min(mine(k))].text
      <3>1. Min(mine(k)) \in mine(k) /\ Min(sorted(k)) \in sorted(k)
        BY <2>1, <2>5, <2>6, LeastIsIn
      <3>2. PICK i \in mine(k) : O[Min(sorted(k))] = ls[i]
        BY <2>3, <3>1
      <3>3. i = Min(mine(k))
        BY <2>4, <3>1, <3>2
      <3> QED
        BY <3>2, <3>3
    <2> QED
      BY <2>5, <2>6
  <1>3. Sections(O) = [k \in DOMAIN StableOrder |->
                         IF sorted(k) = {} THEN EmptyText ELSE O[Min(sorted(k))].text]
    BY <1>1 DEF Sections
  <1>4. Sections(ls) = [k \in DOMAIN StableOrder |->
                          IF mine(k) = {} THEN EmptyText ELSE ls[Min(mine(k))].text]
    BY <1>1 DEF Sections
  <1> HIDE DEF mine, sorted
  <1>5. Sections(O) = Sections(ls)
    BY <1>2, <1>3, <1>4
  <1> QED
    BY <1>5 DEF O

-----------------------------------------------------------------------------
LEMMA ShuffleIs ==
    ASSUME NEW s, IsSequence(s), NEW f \in Shuffles(DOMAIN s)
    PROVE  f \in Bijection(DOMAIN s, DOMAIN s)
  <1> DEFINE D == DOMAIN s
  <1>1. f \in [D -> D] /\ Range(f) = D
    BY DEF Shuffles
  <1>2. f \in Surjection(D, D)
    BY <1>1 DEF Surjection, Range
  <1>3. IsFiniteSet(D)
    <2>1. D = 1..Len(s) /\ Len(s) \in Nat
      BY DEF IsSequence
    <2> QED
      BY <2>1, FS_Interval
  <1> HIDE DEF D
  <1>4. f \in Injection(D, D)
    BY <1>2, <1>3, FS_Surjection
  <1> QED
    BY <1>2, <1>4 DEF Bijection, D

\* The layers given in another order are the same layers.
LEMMA ReorderedIs ==
    ASSUME NEW ls, IsSequence(ls), NEW f \in Bijection(DOMAIN ls, DOMAIN ls)
    PROVE  LET other == [i \in DOMAIN ls |-> ls[f[i]]] IN
           /\ Len(ls) \in Nat /\ DOMAIN ls = 1..Len(ls) /\ f \in [1..Len(ls) -> 1..Len(ls)]
           /\ \A i, j \in 1..Len(ls) : f[i] = f[j] => i = j
           /\ \A w \in 1..Len(ls) : \E i \in 1..Len(ls) : f[i] = w
           /\ IsSequence(other) /\ DOMAIN other = DOMAIN ls /\ Len(other) = Len(ls)
           /\ \A i \in 1..Len(ls) : other[i] = ls[f[i]]
           /\ Range(other) = Range(ls)
  <1> DEFINE other == [i \in DOMAIN ls |-> ls[f[i]]]
  <1>1. Len(ls) \in Nat /\ DOMAIN ls = 1..Len(ls) /\ \A i \in 1..Len(ls) : ls[i] \in Range(ls)
    BY DEF IsSequence
  <1>2. /\ f \in [1..Len(ls) -> 1..Len(ls)]
        /\ \A i, j \in 1..Len(ls) : f[i] = f[j] => i = j
        /\ \A w \in 1..Len(ls) : \E i \in 1..Len(ls) : f[i] = w
    BY <1>1 DEF Bijection, Injection, Surjection, IsInjective
  <1>3. DOMAIN other = 1..Len(ls) /\ \A i \in 1..Len(ls) : other[i] = ls[f[i]]
    BY <1>1
  <1>4. other \in [1..Len(ls) -> Range(ls)]
    BY <1>1, <1>2
  <1>5. other \in Seq(Range(ls)) /\ Len(other) = Len(ls)
    BY <1>1, <1>4
  <1> HIDE DEF other
  <1>6. IsSequence(other)
    BY <1>5, SequenceOf
  <1>7. Range(other) = Range(ls)
    <2>1. ASSUME NEW x \in Range(ls)
          PROVE  x \in Range(other)
      <3>1. PICK w \in 1..Len(ls) : x = ls[w]
        BY <1>1 DEF Range
      <3>2. PICK i \in 1..Len(ls) : f[i] = w
        BY <1>2
      <3>3. x = other[i] /\ i \in DOMAIN other
        BY <1>3, <3>1, <3>2
      <3> QED
        BY <3>3 DEF Range
    <2>2. ASSUME NEW x \in Range(other)
          PROVE  x \in Range(ls)
      <3>1. PICK i \in 1..Len(ls) : x = other[i]
        BY <1>3 DEF Range
      <3> QED
        BY <1>1, <1>2, <1>3, <3>1
    <2> QED
      BY <2>1, <2>2
  <1> QED
    BY <1>1, <1>2, <1>3, <1>5, <1>6, <1>7 DEF other

LEMMA AssembledAlike ==
    ASSUME NEW ls, OfLayers(ls), NEW v, NEW other \in Reordered(ls)
    PROVE  SameOrRefused(Assembled(ls, v), Assembled(other, v))
  <1> DEFINE n == Len(ls)
  <1>1. PICK f \in Bijection(DOMAIN ls, DOMAIN ls) : other = [i \in DOMAIN ls |-> ls[f[i]]]
    BY ShuffleIs DEF Reordered, OfLayers
  <1>2. /\ n \in Nat /\ DOMAIN ls = 1..n /\ f \in [1..n -> 1..n]
        /\ \A i, j \in 1..n : f[i] = f[j] => i = j
        /\ \A w \in 1..n : \E i \in 1..n : f[i] = w
        /\ IsSequence(other) /\ DOMAIN other = 1..n /\ Len(other) = n
        /\ \A i \in 1..n : other[i] = ls[f[i]]
        /\ Range(other) = Range(ls)
    BY <1>1, ReorderedIs DEF OfLayers
  <1> HIDE DEF n
  <1>3. Distinct(ls) <=> Distinct(other)
    <2>1. ASSUME Distinct(ls), NEW i \in DOMAIN other, NEW j \in DOMAIN other, i # j
          PROVE  other[i].layer # other[j].layer
      <3>1. f[i] \in DOMAIN ls /\ f[j] \in DOMAIN ls /\ f[i] # f[j]
        BY <1>2, <2>1
      <3>2. other[i] = ls[f[i]] /\ other[j] = ls[f[j]]
        BY <1>2
      <3>3. ls[f[i]].layer # ls[f[j]].layer
        BY <2>1, <3>1 DEF Distinct
      <3> QED
        BY <3>2, <3>3
    <2>2. ASSUME Distinct(other), NEW i \in DOMAIN ls, NEW j \in DOMAIN ls, i # j
          PROVE  ls[i].layer # ls[j].layer
      <3>1. PICK a \in 1..n : f[a] = i
        BY <1>2
      <3>2. PICK b \in 1..n : f[b] = j
        BY <1>2
      <3>3. a # b /\ other[a] = ls[i] /\ other[b] = ls[j]
        BY <1>2, <2>2, <3>1, <3>2
      <3>4. other[a].layer # other[b].layer
        BY <1>2, <2>2, <3>3 DEF Distinct
      <3> QED
        BY <3>3, <3>4
    <2> QED
      BY <2>1, <2>2 DEF Distinct
  <1>4. (\A i \in DOMAIN ls : LayerVerdict(ls[i]) = "ok") <=> (\A i \in DOMAIN other : LayerVerdict(other[i]) = "ok")
    <2>1. ASSUME \A i \in DOMAIN other : LayerVerdict(other[i]) = "ok", NEW i \in DOMAIN ls
          PROVE  LayerVerdict(ls[i]) = "ok"
      <3>1. PICK a \in 1..n : f[a] = i
        BY <1>2
      <3> QED
        BY <1>2, <2>1, <3>1
    <2>2. ASSUME \A i \in DOMAIN ls : LayerVerdict(ls[i]) = "ok", NEW i \in DOMAIN other
          PROVE  LayerVerdict(other[i]) = "ok"
      BY <1>2, <2>2
    <2> QED
      BY <2>1, <2>2
  <1>5. PromptSnapshotVerdict(ls, v) = "ok" <=> PromptSnapshotVerdict(other, v) = "ok"
    <2>1. IsSequence(ls)
      BY DEF OfLayers
    <2> QED
      BY <1>2, <1>3, <1>4, <2>1, SnapshotOk DEF n
  <1>6. CASE PromptSnapshotVerdict(ls, v) # "ok"
    BY <1>5, <1>6 DEF Assembled, PromptError, SameOrRefused
  <1>7. CASE PromptSnapshotVerdict(ls, v) = "ok"
    <2> DEFINE key == Ranks(ls)
    <2>1. Distinct(ls)
      BY <1>7, SnapshotOk DEF OfLayers
    <2>2. key \in [1..n -> Int] /\ \A i, j \in 1..n : key[i] = key[j] => i = j
      BY <2>1, OrderedIs DEF n
    <2>3. Ranks(other) = [i \in 1..n |-> key[f[i]]]
      <3>1. \A i \in 1..n : key[f[i]] = Rank(ls[f[i]].layer)
        BY <1>2 DEF Ranks
      <3>2. Ranks(other) = [i \in 1..n |-> Rank(other[i].layer)]
        BY <1>2 DEF Ranks
      <3> QED
        BY <1>2, <3>1, <3>2
    <2>4. other = [i \in 1..n |-> ls[f[i]]] /\ f \in Bijection(1..n, 1..n)
      BY <1>1, <1>2
    <2> HIDE DEF key
    <2>5. SortedBy([i \in 1..n |-> ls[f[i]]], [i \in 1..n |-> key[f[i]]]) = SortedBy(ls, key)
      <3>1. n \in Nat /\ DOMAIN ls = 1..n
        BY <1>2
      <3>2. f \in Bijection(1..n, 1..n)
        BY <2>4
      <3> QED
        BY <2>2, <3>1, <3>2, SortForgets, Zenon
    <2>6. Ordered(other) = Ordered(ls)
      BY <2>3, <2>4, <2>5 DEF Ordered, key
    <2>7. Effective(other) = Effective(ls)
      BY <1>2, <2>6 DEF Effective
    <2>8. Assembled(other, v) = Assembled(ls, v)
      BY <1>5, <1>7, <2>6, <2>7 DEF Assembled
    <2> QED
      BY <2>8 DEF SameOrRefused
  <1> QED
    BY <1>6, <1>7

LEMMA ProjectAlike ==
    ASSUME NEW files \in ProjectSets, NEW other \in Reordered(files)
    PROVE  SameOrRefused(ProjectLayer(files), ProjectLayer(other))
  <1> DEFINE n == Len(files)
             parsed == [i \in DOMAIN files |-> ParseSource(files[i].source)]
             again == [i \in DOMAIN other |-> ParseSource(other[i].source)]
             Bad(fs) == {i \in DOMAIN fs : ~AdmitPath(fs[i].path) \/ ParseSource(fs[i].source).error # "ok"}
             Unique(fs) == ~\E i, j \in DOMAIN fs : i # j /\ fs[i].order = fs[j].order
             Final(merged) == IF merged.error # "ok" THEN [error |-> "UnresolvableConflict"]
                              ELSE [error |-> LayerVerdict(LayerFrom("project", merged)),
                                    layer |-> LayerFrom("project", merged)]
  <1>1. IsSequence(files) /\ \A i \in DOMAIN files : files[i].order \in Int
    BY PromptAssumption
  <1>2. PICK f \in Bijection(DOMAIN files, DOMAIN files) : other = [i \in DOMAIN files |-> files[f[i]]]
    BY <1>1, ShuffleIs DEF Reordered
  <1>3. /\ n \in Nat /\ DOMAIN files = 1..n /\ f \in [1..n -> 1..n]
        /\ \A i, j \in 1..n : f[i] = f[j] => i = j
        /\ \A w \in 1..n : \E i \in 1..n : f[i] = w
        /\ IsSequence(other) /\ DOMAIN other = 1..n /\ Len(other) = n
        /\ \A i \in 1..n : other[i] = files[f[i]]
    BY <1>1, <1>2, ReorderedIs
  <1> HIDE DEF n
  <1>4. ASSUME NEW fs, IsSequence(fs), Bad(fs) # {}
        PROVE  /\ Min(Bad(fs)) \in DOMAIN fs
               /\ AdmitPath(fs[Min(Bad(fs))].path) => ParseSource(fs[Min(Bad(fs))].source).error # "ok"
    <2>1. Bad(fs) \in SUBSET Nat
      BY <1>4 DEF IsSequence
    <2>2. Min(Bad(fs)) \in Bad(fs)
      BY <1>4, <2>1, LeastIsIn
    <2> QED
      BY <2>2
  <1>5. Bad(files) = {} <=> Bad(other) = {}
    <2>1. ASSUME NEW i \in 1..n
          PROVE  i \in Bad(other) <=> f[i] \in Bad(files)
      BY <1>3
    <2>2. Bad(files) \in SUBSET (1..n) /\ Bad(other) \in SUBSET (1..n)
      BY <1>3
    <2> HIDE DEF Bad
    <2>3. ASSUME NEW w \in Bad(files)
          PROVE  Bad(other) # {}
      <3>1. PICK i \in 1..n : f[i] = w
        BY <1>3, <2>2
      <3> QED
        BY <2>1, <3>1
    <2>4. ASSUME NEW i \in Bad(other)
          PROVE  Bad(files) # {}
      BY <2>1, <2>2
    <2> QED
      BY <2>3, <2>4
  <1>6. Unique(files) <=> Unique(other)
    <2>1. ASSUME Unique(files), NEW i \in DOMAIN other, NEW j \in DOMAIN other, i # j
          PROVE  other[i].order # other[j].order
      <3>1. f[i] \in DOMAIN files /\ f[j] \in DOMAIN files /\ f[i] # f[j]
        BY <1>3, <2>1
      <3>2. other[i] = files[f[i]] /\ other[j] = files[f[j]]
        BY <1>3
      <3>3. files[f[i]].order # files[f[j]].order
        BY <2>1, <3>1
      <3> QED
        BY <3>2, <3>3
    <2>2. ASSUME Unique(other), NEW i \in DOMAIN files, NEW j \in DOMAIN files, i # j
          PROVE  files[i].order # files[j].order
      <3>1. PICK a \in 1..n : f[a] = i
        BY <1>3
      <3>2. PICK b \in 1..n : f[b] = j
        BY <1>3
      <3>3. a # b /\ other[a] = files[i] /\ other[b] = files[j]
        BY <1>3, <2>2, <3>1, <3>2
      <3>4. a \in DOMAIN other /\ b \in DOMAIN other
        BY <1>3
      <3>5. other[a].order # other[b].order
        BY <2>2, <3>3, <3>4
      <3> QED
        BY <3>3, <3>5
    <2> QED
      BY <2>1, <2>2
  <1>7. ASSUME Unique(files)
        PROVE  SortedBy(again, Paths(other)) = SortedBy(parsed, Paths(files))
    <2> DEFINE key == Paths(files)
    <2>1. key = [i \in 1..n |-> files[i].order]
      BY <1>3 DEF Paths
    <2>2. key \in [1..n -> Int]
      BY <1>1, <1>3, <2>1
    <2>3. \A i, j \in 1..n : key[i] = key[j] => i = j
      <3>1. \A i, j \in 1..n : files[i].order = files[j].order => i = j
        BY <1>3, <1>7
      <3> HIDE DEF key
      <3> QED
        BY <2>1, <3>1
    <2>4. Paths(other) = [i \in 1..n |-> key[f[i]]]
      <3>1. Paths(other) = [i \in 1..n |-> other[i].order]
        BY <1>3 DEF Paths
      <3>2. \A i \in 1..n : other[i].order = key[f[i]]
        <4>1. ASSUME NEW i \in 1..n
              PROVE  other[i].order = key[f[i]]
          <5>1. f[i] \in 1..n /\ other[i] = files[f[i]]
            BY <1>3
          <5> HIDE DEF key
          <5> QED
            BY <2>1, <5>1
        <4> QED
          BY <4>1
      <3> HIDE DEF key
      <3> QED
        BY <3>1, <3>2
    <2>5. DOMAIN parsed = 1..n /\ \A i \in 1..n : parsed[i] = ParseSource(files[i].source)
      BY <1>3
    <2>6. again = [i \in 1..n |-> parsed[f[i]]]
      <3>1. again = [i \in 1..n |-> ParseSource(other[i].source)]
        BY <1>3
      <3>2. \A i \in 1..n : ParseSource(other[i].source) = parsed[f[i]]
        BY <1>3, <2>5
      <3> HIDE DEF parsed, again
      <3> QED
        BY <3>1, <3>2
    <2>7. f \in Bijection(1..n, 1..n)
      BY <1>3
    <2> HIDE DEF key, parsed, again
    <2>8. SortedBy([i \in 1..n |-> parsed[f[i]]], [i \in 1..n |-> key[f[i]]]) = SortedBy(parsed, key)
      <3>1. n \in Nat /\ DOMAIN parsed = 1..n
        BY <1>3, <2>5
      <3> QED
        BY <2>2, <2>3, <2>7, <3>1, SortForgets, Zenon
    <2> QED
      BY <2>4, <2>6, <2>8 DEF key
  <1>8. ASSUME NEW fs, DOMAIN fs = 1..n, Len(fs) = n, IsSequence(fs)
        PROVE  ProjectLayer(fs) =
                 IF n > MaxFiles THEN [error |-> "TooManyProjectFiles"]
                 ELSE IF Bad(fs) # {}
                 THEN [error |-> IF AdmitPath(fs[Min(Bad(fs))].path)
                                 THEN ParseSource(fs[Min(Bad(fs))].source).error ELSE "InvalidProjectPath"]
                 ELSE IF ~Unique(fs) THEN [error |-> "MalformedProject"]
                 ELSE Final(Merged(SortedBy([i \in DOMAIN fs |-> ParseSource(fs[i].source)], Paths(fs))))
    <2> DEFINE ps == [i \in DOMAIN fs |-> ParseSource(fs[i].source)]
               bad == {i \in DOMAIN fs : ~AdmitPath(fs[i].path) \/ ps[i].error # "ok"}
    <2>1. \A i \in DOMAIN fs : ps[i] = ParseSource(fs[i].source)
      OBVIOUS
    <2>2. bad = Bad(fs)
      BY <2>1
    <2>3. bad # {} => Min(bad) \in DOMAIN fs /\ ps[Min(bad)] = ParseSource(fs[Min(bad)].source)
      BY <1>4, <1>8, <2>1, <2>2
    <2>4. ProjectLayer(fs) =
            IF Len(fs) > MaxFiles THEN [error |-> "TooManyProjectFiles"]
            ELSE IF bad # {}
            THEN [error |-> IF AdmitPath(fs[Min(bad)].path) THEN ps[Min(bad)].error ELSE "InvalidProjectPath"]
            ELSE IF ~Unique(fs) THEN [error |-> "MalformedProject"]
            ELSE Final(Merged(SortedBy(ps, Paths(fs))))
      BY DEF ProjectLayer
    <2> HIDE DEF bad, Bad, Unique, Final
    <2> QED
      BY <1>8, <2>2, <2>3, <2>4
  <1>9. Unique(files) => Final(Merged(SortedBy(again, Paths(other)))) = Final(Merged(SortedBy(parsed, Paths(files))))
    BY <1>7
  <1> HIDE DEF Bad, Unique, Final
  <1>10. CASE n > MaxFiles \/ Bad(files) # {} \/ ~Unique(files)
    <2>1. ASSUME NEW fs, DOMAIN fs = 1..n, Len(fs) = n, IsSequence(fs), n > MaxFiles \/ Bad(fs) # {} \/ ~Unique(fs)
          PROVE  ProjectLayer(fs).error # "ok"
      <3>1. CASE n > MaxFiles
        BY <1>8, <2>1, <3>1
      <3>2. CASE ~(n > MaxFiles) /\ Bad(fs) # {}
        <4>1. AdmitPath(fs[Min(Bad(fs))].path) => ParseSource(fs[Min(Bad(fs))].source).error # "ok"
          BY <1>4, <2>1, <3>2
        <4>2. ProjectLayer(fs) = [error |-> IF AdmitPath(fs[Min(Bad(fs))].path)
                                            THEN ParseSource(fs[Min(Bad(fs))].source).error ELSE "InvalidProjectPath"]
          BY <1>8, <2>1, <3>2
        <4> QED
          BY <4>1, <4>2
      <3>3. CASE ~(n > MaxFiles) /\ Bad(fs) = {} /\ ~Unique(fs)
        <4>1. ProjectLayer(fs) = [error |-> "MalformedProject"]
          BY <1>8, <2>1, <3>3
        <4> QED
          BY <4>1
      <3> QED
        BY <2>1, <3>1, <3>2, <3>3
    <2>2. DOMAIN files = 1..n /\ Len(files) = n /\ IsSequence(files)
      BY <1>1, <1>3 DEF n
    <2>3. ProjectLayer(files).error # "ok" /\ ProjectLayer(other).error # "ok"
      BY <1>3, <1>5, <1>6, <1>10, <2>1, <2>2
    <2> QED
      BY <2>3 DEF SameOrRefused
  <1>11. CASE ~(n > MaxFiles) /\ Bad(files) = {} /\ Unique(files)
    <2>1. ProjectLayer(files) = Final(Merged(SortedBy(parsed, Paths(files))))
      BY <1>1, <1>3, <1>8, <1>11 DEF n
    <2>2. ProjectLayer(other) = Final(Merged(SortedBy(again, Paths(other))))
      BY <1>3, <1>5, <1>6, <1>8, <1>11
    <2>3. ProjectLayer(files) = ProjectLayer(other)
      BY <1>9, <1>11, <2>1, <2>2
    <2> QED
      BY <2>3 DEF SameOrRefused
  <1> QED
    BY <1>10, <1>11

-----------------------------------------------------------------------------
\* What a layer denies, does not list or has no room for is not in the prompt.
LEMMA NarrowIs ==
    ASSUME NEW ls, OfLayers(ls), NEW v, Assembled(ls, v).error = "ok", NEW i \in DOMAIN ls
    PROVE  /\ \A tool, granted : CheckDispatch(Assembled(ls, v), tool, granted) = "ok" =>
                /\ tool \notin ls[i].denied
                /\ \A list \in ls[i].allowed : tool \in list
           /\ \A b \in ls[i].budget : Assembled(ls, v).size <= b
  <1> DEFINE made == Assembled(ls, v)
             size == CanonicalSize(Sections(Ordered(ls)), Effective(ls))
             budgets == UNION {input.budget : input \in Range(ls)}
             lists == UNION {input.allowed : input \in Range(ls)}
  <1>1. /\ PromptSnapshotVerdict(ls, v) = "ok" /\ made.effective = Effective(ls) /\ made.size = size
        /\ size \in 0..MaxCanonical /\ \A b \in Effective(ls).budget : ~(size > b)
    BY AssembledIs
  <1>2. \A j \in DOMAIN ls : ls[j] \in Range(ls)
    BY DEF Range
  <1>3. ASSUME NEW tool, NEW granted, CheckDispatch(made, tool, granted) = "ok"
        PROVE  /\ tool \notin ls[i].denied
               /\ \A list \in ls[i].allowed : tool \in list
    <2> HIDE DEF made
    <2>1. tool \notin Effective(ls).denied /\ \A list \in Effective(ls).allowed : tool \in list
      BY <1>1, <1>3 DEF CheckDispatch
    <2>2. Effective(ls).denied = UNION {input.denied : input \in Range(ls)} /\ Effective(ls).allowed = Intersected(lists)
      BY DEF Effective
    <2>3. tool \notin ls[i].denied
      BY <1>2, <2>1, <2>2
    <2>4. ASSUME NEW list \in ls[i].allowed
          PROVE  tool \in list
      <3>1. list \in lists
        BY <1>2
      <3> HIDE DEF lists
      <3>2. Intersected(lists) = {{x \in UNION lists : \A l \in lists : x \in l}}
        BY <3>1 DEF Intersected
      <3> QED
        BY <2>1, <2>2, <3>1, <3>2
    <2> QED
      BY <2>3, <2>4
  <1>4. ASSUME NEW b \in ls[i].budget
        PROVE  made.size <= b
    <2>1. \A j \in DOMAIN ls : LayerVerdict(ls[j]) = "ok"
      BY <1>1, SnapshotOk DEF OfLayers
    <2>2. ASSUME NEW x \in budgets
          PROVE  x \in Nat
      <3>1. PICK j \in DOMAIN ls : x \in ls[j].budget
        BY DEF Range
      <3>2. LayerVerdict(ls[j]) = "ok"
        BY <2>1
      <3>3. x \in 1..MaxCeiling
        BY <3>1, <3>2 DEF LayerVerdict
      <3> QED
        BY <3>3, PromptAssumption
    <2>3. b \in budgets
      BY <1>2
    <2>4. Effective(ls).budget = {Min(budgets)}
      BY <2>3 DEF Effective
    <2> HIDE DEF budgets
    <2>5. budgets \in SUBSET Nat /\ budgets # {}
      BY <2>2, <2>3
    <2>6. Min(budgets) \in budgets /\ Min(budgets) <= b
      BY <2>3, <2>5, LeastIs
    <2>7. ~(size > Min(budgets)) /\ size \in Nat
      BY <1>1, <2>4, PromptAssumption
    <2>8. Min(budgets) \in Nat /\ b \in Nat
      BY <2>3, <2>5, <2>6
    <2> HIDE DEF size, made
    <2> QED
      BY <1>1, <2>6, <2>7, <2>8
  <1> QED
    BY <1>3, <1>4

LEMMA PromptIsTrue == PromptInv => PromptTrue
  <1> SUFFICES ASSUME PromptInv
               PROVE  PromptTrue
    OBVIOUS
  <1>1. LayersNarrow
    <2> SUFFICES ASSUME NEW p \in prompt, NEW i \in DOMAIN p.of
                 PROVE  /\ asked.verdict = "ok" => /\ asked.tool \notin p.of[i].denied
                                                   /\ \A list \in p.of[i].allowed : asked.tool \in list
                        /\ \A b \in p.of[i].budget : p.made.size <= b
      BY DEF LayersNarrow
    <2>1. OfLayers(p.of) /\ p.made = Assembled(p.of, version) /\ Assembled(p.of, version).error = "ok"
      BY DEF PromptInv
    <2>2. /\ \A tool, granted : CheckDispatch(p.made, tool, granted) = "ok" =>
               /\ tool \notin p.of[i].denied
               /\ \A list \in p.of[i].allowed : tool \in list
          /\ \A b \in p.of[i].budget : p.made.size <= b
      BY <2>1, NarrowIs
    <2>3. asked.verdict = "ok" => \E granted \in BOOLEAN : CheckDispatch(p.made, asked.tool, granted) = "ok"
      BY DEF PromptInv
    <2> QED
      BY <2>2, <2>3
  <1>2. OrderFree
    <2>1. \A other \in Reordered(layers) : SameOrRefused(Assembled(layers, version), Assembled(other, version))
      BY AssembledAlike DEF PromptInv
    <2>2. \A files \in ProjectSets : \A other \in Reordered(files) : SameOrRefused(ProjectLayer(files), ProjectLayer(other))
      BY ProjectAlike
    <2> QED
      BY <2>1, <2>2 DEF OrderFree
  <1> QED
    BY <1>1, <1>2 DEF PromptTrue

\* A layer joins the list or replaces the one of its name.
LEMMA WithIs ==
    ASSUME NEW ls, OfLayers(ls), NEW input, input.layer \in Range(StableOrder),
           NEW next \in With(ls, input) \cup {Append(ls, input)}
    PROVE  OfLayers(next)
  <1> DEFINE T == {x \in Range(ls) \cup {input} : x.layer \in Range(StableOrder)}
  <1>1. ls \in Seq(T) /\ input \in T
    <2>1. \A i \in 1..Len(ls) : ls[i] \in T
      BY DEF OfLayers, IsSequence
    <2> QED
      BY <2>1 DEF OfLayers, IsSequence
  <1>2. \A x \in T : x.layer \in Range(StableOrder)
    OBVIOUS
  <1> HIDE DEF T
  <1>3. next \in Seq(T)
    <2>1. Append(ls, input) \in Seq(T) /\ <<input>> \o ls \in Seq(T)
      BY <1>1
    <2>2. ASSUME NEW i \in DOMAIN ls
          PROVE  [ls EXCEPT ![i] = input] \in Seq(T)
      BY <1>1
    <2>3. ASSUME \E i \in DOMAIN ls : ls[i].layer = input.layer
          PROVE  (CHOOSE i \in DOMAIN ls : ls[i].layer = input.layer) \in DOMAIN ls
      BY <2>3
    <2> QED
      BY <2>1, <2>2, <2>3 DEF With
  <1>4. IsSequence(next)
    BY <1>3, SequenceOf
  <1>5. \A i \in DOMAIN next : next[i] \in T
    BY <1>3
  <1> QED
    BY <1>2, <1>4, <1>5 DEF OfLayers

LEMMA ReadLayers ==
    /\ \A files \in ProjectSets : ProjectLayer(files).error = "ok" => ProjectLayer(files).layer.layer \in Range(StableOrder)
    /\ \A doc \in SkillDocs : SkillsLayer(doc).error = "ok" => SkillsLayer(doc).layer.layer \in Range(StableOrder)
  <1>1. "project" \in Range(StableOrder) /\ "skills-profile" \in Range(StableOrder)
    <2>1. /\ StableOrder[3] = "project" /\ StableOrder[4] = "skills-profile"
          /\ 3 \in DOMAIN StableOrder /\ 4 \in DOMAIN StableOrder
      BY DEF StableOrder
    <2> QED
      BY <2>1 DEF Range
  <1>2. \A l, parts : LayerFrom(l, parts).layer = l
    BY DEF LayerFrom
  <1>3. ASSUME NEW files \in ProjectSets, ProjectLayer(files).error = "ok"
        PROVE  ProjectLayer(files).layer.layer = "project"
    <2> DEFINE parsed == [i \in DOMAIN files |-> ParseSource(files[i].source)]
               merged == Merged(SortedBy(parsed, Paths(files)))
               bad == {i \in DOMAIN files : ~AdmitPath(files[i].path) \/ parsed[i].error # "ok"}
               layer == LayerFrom("project", merged)
    <2>1. bad \in SUBSET Nat
      BY PromptAssumption DEF IsSequence
    <2>2. ASSUME bad # {}
          PROVE  AdmitPath(files[Min(bad)].path) => parsed[Min(bad)].error # "ok"
      <3>1. Min(bad) \in bad
        BY <2>1, <2>2, LeastIsIn
      <3> QED
        BY <3>1
    <2>3. ProjectLayer(files) =
            IF Len(files) > MaxFiles THEN [error |-> "TooManyProjectFiles"]
            ELSE IF bad # {} THEN [error |-> IF AdmitPath(files[Min(bad)].path) THEN parsed[Min(bad)].error
                                             ELSE "InvalidProjectPath"]
            ELSE IF \E i, j \in DOMAIN files : i # j /\ files[i].order = files[j].order
            THEN [error |-> "MalformedProject"]
            ELSE IF merged.error # "ok" THEN [error |-> "UnresolvableConflict"]
            ELSE [error |-> LayerVerdict(layer), layer |-> layer]
      BY DEF ProjectLayer
    <2> HIDE DEF parsed, merged, bad, layer
    <2>4. ProjectLayer(files).layer = layer
      BY <1>3, <2>2, <2>3
    <2> QED
      BY <1>2, <2>4 DEF layer
  <1>4. ASSUME NEW doc \in SkillDocs, SkillsLayer(doc).error = "ok"
        PROVE  SkillsLayer(doc).layer.layer = "skills-profile"
    <2> DEFINE parsed == [i \in DOMAIN doc.entries |-> ParseSource(doc.entries[i].source)]
               merged == Merged(SortedBy(parsed, [i \in DOMAIN parsed |-> Max(doc.entries[i].name)]))
               bad == {i \in DOMAIN doc.entries : EntryFault(doc.entries[i]) # "ok"}
               layer == LayerFrom("skills-profile", merged)
    <2>1. bad \in SUBSET Nat
      BY PromptAssumption DEF IsSequence
    <2>2. ASSUME bad # {}
          PROVE  EntryFault(doc.entries[Min(bad)]) # "ok"
      <3>1. Min(bad) \in bad
        BY <2>1, <2>2, LeastIsIn
      <3> QED
        BY <3>1
    <2>3. SkillsLayer(doc) =
            IF doc.version = {} THEN [error |-> "MalformedSkill"]
            ELSE IF doc.version # {1} THEN [error |-> "UnsupportedSkillVersion"]
            ELSE IF bad # {} THEN [error |-> EntryFault(doc.entries[Min(bad)])]
            ELSE IF Len(doc.entries) > MaxSkills THEN [error |-> "TooManySkills"]
            ELSE IF \E i, j \in DOMAIN doc.entries : i # j /\ doc.entries[i].name = doc.entries[j].name
            THEN [error |-> "DuplicateSkill"]
            ELSE IF merged.error # "ok" THEN [error |-> "UnresolvableConflict"]
            ELSE [error |-> LayerVerdict(layer), layer |-> layer]
      BY DEF SkillsLayer
    <2> HIDE DEF parsed, merged, bad, layer
    <2>4. SkillsLayer(doc).layer = layer
      BY <1>4, <2>2, <2>3
    <2> QED
      BY <1>2, <2>4 DEF layer
  <1> QED
    BY <1>1, <1>3, <1>4

LEMMA PromptStarts == PromptInit => PromptInv
  <1> SUFFICES ASSUME PromptInit
               PROVE  PromptInv
    OBVIOUS
  <1>1. layers = <<>> /\ prompt = {} /\ asked.verdict = "none"
    BY DEF PromptInit, NoCheck
  <1>2. OfLayers(layers)
    <2>1. layers \in Seq({})
      BY <1>1
    <2>2. DOMAIN layers = {}
      BY <1>1
    <2> QED
      BY <2>1, <2>2, SequenceOf DEF OfLayers
  <1> QED
    BY <1>1, <1>2 DEF PromptInv

LEMMA PromptSteps == PromptInv /\ [PromptNext]_promptVars => PromptInv'
  <1> SUFFICES ASSUME PromptInv, [PromptNext]_promptVars
               PROVE  PromptInv'
    OBVIOUS
  <1>1. ASSUME NEW input, input.layer \in Range(StableOrder), layers' \in With(layers, input) \cup {Append(layers, input)},
               asked' = NoCheck, UNCHANGED <<version, prompt>>
        PROVE  PromptInv'
    <2>1. OfLayers(layers)'
      <3>1. OfLayers(layers)
        BY DEF PromptInv
      <3>2. OfLayers(layers')
        BY <1>1, <3>1, WithIs
      <3> QED
        BY <3>2 DEF OfLayers
    <2>2. asked'.verdict # "ok"
      BY <1>1 DEF NoCheck
    <2> QED
      BY <1>1, <2>1, <2>2 DEF PromptInv
  <1>2. ASSUME NEW input \in LayerInputs, Offer(input)
        PROVE  PromptInv'
    <2>1. input.layer \in Range(StableOrder)
      BY PromptAssumption
    <2> QED
      BY <1>1, <1>2, <2>1 DEF Offer
  <1>3. ASSUME NEW files \in ProjectSets, LoadProject(files)
        PROVE  PromptInv'
    <2>1. ProjectLayer(files).layer.layer \in Range(StableOrder)
      BY <1>3, ReadLayers DEF LoadProject
    <2> QED
      BY <1>1, <1>3, <2>1 DEF LoadProject
  <1>4. ASSUME NEW doc \in SkillDocs, LoadSkills(doc)
        PROVE  PromptInv'
    <2>1. SkillsLayer(doc).layer.layer \in Range(StableOrder)
      BY <1>4, ReadLayers DEF LoadSkills
    <2> QED
      BY <1>1, <1>4, <2>1 DEF LoadSkills
  <1>5. ASSUME AssemblePrompt
        PROVE  PromptInv'
    <2>1. /\ prompt' = {[made |-> Assembled(layers, version), of |-> layers]}
          /\ layers' = layers /\ version' = version /\ asked'.verdict # "ok"
          /\ Assembled(layers, version).error = "ok"
      BY <1>5 DEF AssemblePrompt, NoCheck
    <2>2. OfLayers(layers)
      BY DEF PromptInv
    <2>3. \A p \in prompt' : p.made = Assembled(layers, version) /\ p.of = layers
      BY <2>1
    <2>4. \A p \in prompt' : OfLayers(p.of) /\ p.made = Assembled(p.of, version') /\ p.made.error = "ok"
      BY <2>1, <2>2, <2>3
    <2>5. OfLayers(layers)' /\ \A p, q \in prompt' : p = q
      BY <2>1, <2>2 DEF OfLayers
    <2> QED
      BY <2>1, <2>4, <2>5 DEF PromptInv
  <1>6. ASSUME NEW tool \in Tools, NEW granted \in BOOLEAN, Dispatch(tool, granted)
        PROVE  PromptInv'
    <2>1. PICK p \in prompt : /\ asked' = [tool |-> tool, verdict |-> CheckDispatch(p.made, tool, granted)]
                              /\ UNCHANGED <<layers, version, prompt>>
      BY <1>6 DEF Dispatch
    <2>2. asked'.verdict = "ok" => \A q \in prompt : CheckDispatch(q.made, asked'.tool, granted) = "ok"
      BY <2>1 DEF PromptInv
    <2>3. OfLayers(layers)'
      BY <2>1 DEF OfLayers, PromptInv
    <2> QED
      BY <2>1, <2>2, <2>3 DEF PromptInv
  <1>7. ASSUME UNCHANGED promptVars
        PROVE  PromptInv'
    BY <1>7 DEF promptVars, PromptInv, OfLayers
  <1> QED
    BY <1>2, <1>3, <1>4, <1>5, <1>6, <1>7 DEF PromptNext

\* A tool that a call may use is denied by no layer of its prompt and is on the
\* list of each that has one, the prompt fits the ceiling of every layer, and
\* neither the order of the layers nor that of the project files shows in it.
THEOREM PromptsAreTrue == PromptSpec => []PromptTrue
  BY PromptStarts, PromptSteps, PromptIsTrue, PTL DEF PromptSpec

-----------------------------------------------------------------------------
\* The prefix the key covers: the version and the sections but the last.
LEMMA PrefixIs ==
    ASSUME NEW T, NEW sections \in Seq(T), Len(sections) = 5, NEW v, NEW effective
    PROVE  StablePrefix(Canonical(v, sections, effective)) =
             [k \in 1..5 |-> IF k = 1 THEN v ELSE sections[k - 1]]
  <1> DEFINE U == T \cup {v, effective}
             c == <<v>> \o sections \o <<effective>>
  <1>1. sections \in Seq(U) /\ <<v>> \in Seq(U) /\ <<effective>> \in Seq(U)
    OBVIOUS
  <1>2. c \in Seq(U) /\ Len(c) = 7 /\ \A k \in 1..5 : c[k] = IF k = 1 THEN v ELSE sections[k - 1]
    <2> DEFINE d == <<v>> \o sections
    <2>0. Len(<<v>>) = 1 /\ <<v>>[1] = v /\ Len(<<effective>>) = 1
      OBVIOUS
    <2>1. /\ d \in Seq(U) /\ Len(d) = 6
          /\ \A k \in 1..6 : d[k] = IF k <= 1 THEN <<v>>[k] ELSE sections[k - 1]
      <3>1. /\ d \in Seq(U) /\ Len(d) = Len(<<v>>) + Len(sections)
            /\ \A k \in 1..(Len(<<v>>) + Len(sections)) :
                 d[k] = IF k <= Len(<<v>>) THEN <<v>>[k] ELSE sections[k - Len(<<v>>)]
        BY <1>1, ConcatIs
      <3> HIDE DEF d
      <3> QED
        BY <2>0, <3>1
    <2> HIDE DEF d
    <2>2. /\ d \o <<effective>> \in Seq(U) /\ Len(d \o <<effective>>) = 7
          /\ \A k \in 1..6 : (d \o <<effective>>)[k] = d[k]
      <3>1. /\ d \o <<effective>> \in Seq(U) /\ Len(d \o <<effective>>) = Len(d) + Len(<<effective>>)
            /\ \A k \in 1..(Len(d) + Len(<<effective>>)) :
                 (d \o <<effective>>)[k] = IF k <= Len(d) THEN d[k] ELSE <<effective>>[k - Len(d)]
        BY <1>1, <2>1, ConcatIs
      <3> QED
        BY <2>0, <2>1, <3>1
    <2>3. c = d \o <<effective>>
      BY DEF d
    <2> HIDE DEF c
    <2>4. ASSUME NEW k \in 1..5
          PROVE  c[k] = IF k = 1 THEN v ELSE sections[k - 1]
      <3>1. k \in 1..6 /\ (k = 1 \/ ~(k <= 1))
        OBVIOUS
      <3>2. c[k] = d[k]
        BY <2>2, <2>3, <3>1
      <3>3. d[k] = IF k <= 1 THEN <<v>>[k] ELSE sections[k - 1]
        BY <2>1, <3>1
      <3>4. c[k] = IF k <= 1 THEN <<v>>[k] ELSE sections[k - 1]
        BY <3>2, <3>3
      <3> QED
        BY <2>0, <3>1, <3>4
    <2> QED
      BY <2>2, <2>3, <2>4
  <1>4. Canonical(v, sections, effective) = c
    BY DEF Canonical
  <1> HIDE DEF c
  <1>5. SubSeq(c, 1, 5) = [k \in 1..5 |-> c[k]]
    BY <1>2
  <1> QED
    BY <1>2, <1>4, <1>5, FiveLayers DEF StablePrefix

LEMMA KeyIs ==
    ASSUME NEW ls, OfLayers(ls), NEW ms, OfLayers(ms), NEW v,
           Assembled(ls, v).error = "ok", Assembled(ms, v).error = "ok"
    PROVE  CacheKey(1, 1, "turn", Assembled(ls, v).canonical) = CacheKey(1, 1, "turn", Assembled(ms, v).canonical)
             <=> SubSeq(Sections(ls), 1, 4) = SubSeq(Sections(ms), 1, 4)
  <1> DEFINE Prefix(xs) == StablePrefix(Assembled(xs, v).canonical)
  <1>1. ASSUME NEW xs, OfLayers(xs), Assembled(xs, v).error = "ok"
        PROVE  /\ Prefix(xs) = [k \in 1..5 |-> IF k = 1 THEN v ELSE Sections(xs)[k - 1]]
               /\ SubSeq(Sections(xs), 1, 4) = [k \in 1..4 |-> Sections(xs)[k]]
    <2> DEFINE secs == Sections(xs)
               T == {secs[k] : k \in 1..5}
    <2>1. DOMAIN secs = 1..5 /\ secs = [k \in 1..5 |-> secs[k]]
      BY FiveLayers DEF Sections
    <2>2. secs \in Seq(T) /\ Len(secs) = 5
      <3> HIDE DEF secs
      <3>1. secs \in [1..5 -> T]
        BY <2>1
      <3> HIDE DEF T
      <3> QED
        BY <2>1, <3>1
    <2>3. Distinct(xs)
      BY <1>1, AssembledIs, SnapshotOk DEF OfLayers
    <2>4. Assembled(xs, v).canonical = Canonical(v, secs, Effective(xs))
      <3>1. Assembled(xs, v).canonical = Canonical(v, Sections(Ordered(xs)), Effective(xs))
        BY <1>1, AssembledIs
      <3> QED
        BY <1>1, <2>3, <3>1, SectionsSorted
    <2> HIDE DEF secs, T
    <2>5. StablePrefix(Canonical(v, secs, Effective(xs))) = [k \in 1..5 |-> IF k = 1 THEN v ELSE secs[k - 1]]
      BY <2>2, PrefixIs
    <2>6. SubSeq(secs, 1, 4) = [k \in 1..4 |-> secs[k]]
      BY <2>2
    <2> QED
      BY <2>4, <2>5, <2>6 DEF secs
  <1> DEFINE a == Sections(ls)
             b == Sections(ms)
             A == [k \in 1..5 |-> IF k = 1 THEN v ELSE a[k - 1]]
             B == [k \in 1..5 |-> IF k = 1 THEN v ELSE b[k - 1]]
  <1>2. Prefix(ls) = A /\ Prefix(ms) = B
    BY <1>1
  <1>3. SubSeq(a, 1, 4) = [k \in 1..4 |-> a[k]] /\ SubSeq(b, 1, 4) = [k \in 1..4 |-> b[k]]
    BY <1>1
  <1>4. CacheKey(1, 1, "turn", Assembled(ls, v).canonical) = CacheKey(1, 1, "turn", Assembled(ms, v).canonical)
          <=> Prefix(ls) = Prefix(ms)
    BY DEF CacheKey
  <1> HIDE DEF Prefix, a, b
  <1>5. ASSUME A = B
        PROVE  [k \in 1..4 |-> a[k]] = [k \in 1..4 |-> b[k]]
    <2>1. ASSUME NEW k \in 1..4
          PROVE  a[k] = b[k]
      <3>1. A[k + 1] = B[k + 1]
        BY <1>5
      <3>2. A[k + 1] = a[k] /\ B[k + 1] = b[k]
        OBVIOUS
      <3> QED
        BY <3>1, <3>2
    <2> QED
      BY <2>1
  <1>6. ASSUME [k \in 1..4 |-> a[k]] = [k \in 1..4 |-> b[k]]
        PROVE  A = B
    <2> DEFINE p == [k \in 1..4 |-> a[k]]
               q == [k \in 1..4 |-> b[k]]
    <2>1. ASSUME NEW k \in 1..4
          PROVE  a[k] = b[k]
      <3>1. p[k] = q[k] /\ p[k] = a[k] /\ q[k] = b[k]
        BY <1>6
      <3> QED
        BY <3>1
    <2>2. ASSUME NEW k \in 1..5
          PROVE  (IF k = 1 THEN v ELSE a[k - 1]) = (IF k = 1 THEN v ELSE b[k - 1])
      <3>1. CASE k = 1
        BY <3>1
      <3>2. CASE k # 1
        <4>1. k - 1 \in 1..4
          BY <3>2
        <4> QED
          BY <2>1, <3>2, <4>1
      <3> QED
        BY <3>1, <3>2
    <2> QED
      BY <2>2
  <1> HIDE DEF A, B
  <1> QED
    BY <1>2, <1>3, <1>4, <1>5, <1>6 DEF a, b

\* From one turn to the next the cache key moves exactly when the text of a
\* stable layer does.
THEOREM TurnsKeepTheKey == PromptSpec => TurnKeepsKey
  <1>1. PromptInv /\ PromptInv' /\ [PromptNext]_promptVars =>
          [\A p \in prompt, q \in prompt' :
             LET texts(ls) == SubSeq(Sections(ls), 1, 4) IN
             CacheKey(1, 1, "turn", p.made.canonical) = CacheKey(1, 1, "turn", q.made.canonical)
               <=> texts(p.of) = texts(q.of)]_promptVars
    <2> SUFFICES ASSUME PromptInv, PromptInv', PromptNext, NEW p \in prompt, NEW q \in prompt'
                 PROVE  CacheKey(1, 1, "turn", p.made.canonical) = CacheKey(1, 1, "turn", q.made.canonical)
                          <=> SubSeq(Sections(p.of), 1, 4) = SubSeq(Sections(q.of), 1, 4)
      OBVIOUS
    <2>1. version' = version
      BY DEF PromptNext, Offer, LoadProject, LoadSkills, AssemblePrompt, Dispatch
    <2>2. OfLayers(p.of) /\ p.made = Assembled(p.of, version) /\ p.made.error = "ok"
      BY DEF PromptInv
    <2>3. OfLayers(q.of) /\ q.made = Assembled(q.of, version) /\ q.made.error = "ok"
      BY <2>1 DEF PromptInv
    <2> QED
      BY <2>2, <2>3, KeyIs
  <1> QED
    BY <1>1, PromptStarts, PromptSteps, PTL DEF PromptSpec, TurnKeepsKey
=============================================================================
