----------------------------- MODULE AgentTurn -----------------------------
(***************************************************************************)
(* The single-agent turn loop (bitty-ai-runtime: agent.rs, with the        *)
(* session handle of session.rs, the Tool Bus of tool.rs and the reconcile *)
(* protocol of reconcile.rs).                                              *)
(*                                                                         *)
(* The runtime is synchronous, but the session is a shared handle: while   *)
(* the loop sits in a callback (provider, stream sink, tool executor,      *)
(* reconciler) the host may cancel the session, rotate its generation,     *)
(* elevate it, or change consent and policy.  So one step of the model is  *)
(* "a callback returns, and the code runs on to its next callback", and    *)
(* host steps interleave while pc names a callback.                        *)
(***************************************************************************)
EXTENDS Naturals, Sequences, FiniteSets

CONSTANTS
    Tools,                  \* names a model may request
    Registered,             \* names in the ToolRegistry
    ReadOnly,               \* registered tools with read_only = true
    NoPrompt,               \* Agent::prompt = None
    AllowSets,              \* allow-sets the host installs (None admits Tools)
    Prompts,                \* what an installed prompt admits, or NoPrompt
    MaxRounds,              \* AgentConfig::max_rounds
    ConfiguredCalls,        \* AgentConfig::max_tool_calls_per_turn
    HardCalls,              \* MAX_TOOL_CALLS_PER_TURN
    MaxExecutions,          \* MAX_EXECUTIONS_PER_AGENT
    MaxUnknownRetries,      \* AgentConfig::max_unknown_retries
    MaxReconcileAttempts,   \* MAX_RECONCILE_ATTEMPTS
    MaxTurnCost,            \* AgentConfig::max_turn_cost
    RoundCosts,             \* estimate_cost of one provider round
    MaxBatch,               \* bound: tool calls in one provider turn
    MaxTurns,               \* bound: run_turn calls
    MaxGeneration           \* bound: session generation

ASSUME ToolAssumption ==
    /\ Registered \subseteq Tools
    /\ ReadOnly \subseteq Registered
    /\ AllowSets \subseteq SUBSET Tools
    /\ \A p \in Prompts : p = NoPrompt \/ p \subseteq Tools

ASSUME LimitAssumption ==
    /\ MaxRounds \in Nat
    /\ ConfiguredCalls \in Nat
    /\ HardCalls \in Nat
    /\ MaxExecutions \in Nat
    /\ MaxUnknownRetries \in Nat
    /\ MaxReconcileAttempts \in Nat
    /\ MaxTurnCost \in Nat
    /\ RoundCosts \subseteq Nat
    /\ MaxBatch \in Nat
    /\ MaxTurns \in Nat
    /\ MaxGeneration \in Nat

VARIABLES
    (* AgentSession *)
    state, level, generation,
    (* Agent and ToolBus *)
    pc,                     \* the callback the code is in, or "idle"
    round, batch, callsThisTurn, turnCost,
    current,                \* the call being executed, and its handle
    executions,             \* ExecutionRecords of this turn
    pending,                \* pending_unknown
    target, attempt,        \* reconcile_unknown: handle, queries made
    nextId,                 \* NEXT_ID of IdIssuer
    outcome,                \* ExecOutcome of the last turn
    turns,
    (* the host *)
    authorized, consented, allowed, prompt

sessionVars == <<state, level, generation>>
turnVars == <<round, batch, callsThisTurn, turnCost, current>>
hostVars == <<authorized, consented, allowed, prompt>>
reconcileVars == <<target, attempt>>
vars == <<state, level, generation, pc, round, batch, callsThisTurn, turnCost,
          current, executions, pending, target, attempt, nextId, outcome,
          turns, authorized, consented, allowed, prompt>>

-----------------------------------------------------------------------------
SessionStates == {"Active", "Completed", "Failed", "Canceled"}
Levels == {"Inspect", "Own"}
Terminal == {"Success", "Failed", "Denied", "Refused"}
Statuses == Terminal \cup {"Unknown"}
Callbacks == {"provider", "text", "exec", "card", "reconcile"}
Record == [id : Nat, status : Statuses, rejected : BOOLEAN]
Outcomes == {"none", "Completed", "Failed", "CostCeiling", "Canceled", "Unknown"}

Handles(records) == {r.id : r \in records}
Unknowns(records) == {r \in records : r.status = "Unknown"}
OpenEffects == Handles(Unknowns(executions)) \cup Handles(pending)

IsCancelled == state = "Canceled"
Min2(a, b) == IF a < b THEN a ELSE b
EffectiveCalls == Min2(ConfiguredCalls, HardCalls)
EffectiveRetries == Min2(MaxUnknownRetries, MaxReconcileAttempts)

Batches == UNION {[1 .. n -> Tools] : n \in 0 .. MaxBatch}

Init ==
    /\ state = "Active" /\ level = "Inspect" /\ generation = 1
    /\ pc = "idle"
    /\ round = 0 /\ batch = <<>> /\ callsThisTurn = 0 /\ turnCost = 0
    /\ current = 0
    /\ executions = {} /\ pending = {}
    /\ target = 0 /\ attempt = 0
    /\ nextId = 1
    /\ outcome = "none"
    /\ turns = 0
    /\ authorized \in SUBSET Registered
    /\ consented = {}
    /\ allowed = Tools
    /\ prompt = NoPrompt

-----------------------------------------------------------------------------
(* Session handle.  finish and cancel only act on an Active session.       *)

Finish(final) == state' = IF state = "Active" THEN final ELSE state

Cancel ==
    /\ state = "Active"
    /\ state' = "Canceled"
    /\ UNCHANGED <<level, generation>>

RotateGeneration ==
    /\ state = "Active"
    /\ generation < MaxGeneration
    /\ generation' = generation + 1
    /\ level' = "Inspect"
    /\ UNCHANGED state

(* elevate with a grant hook that agrees.                                  *)
Elevate ==
    /\ state = "Active"
    /\ level = "Inspect"
    /\ level' = "Own"
    /\ UNCHANGED <<state, generation>>

(* What the host does through its own handles, at any callback.            *)
Host ==
    \/ /\ Cancel \/ RotateGeneration \/ Elevate
       /\ UNCHANGED <<authorized, consented>>
    \/ /\ \E t \in Registered : authorized' = (authorized \ {t})
       /\ UNCHANGED <<sessionVars, consented>>
    \/ /\ \E t \in Registered : consented' \in {consented \cup {t}, consented \ {t}}
       /\ UNCHANGED <<sessionVars, authorized>>

HostStep ==
    /\ Host
    /\ UNCHANGED <<pc, turnVars, executions, pending, reconcileVars, nextId,
                   outcome, turns, allowed, prompt>>

(* set_allowed_tools and set_prompt need the agent itself: between turns.  *)
Configure ==
    /\ pc = "idle"
    /\ \/ allowed' \in AllowSets /\ UNCHANGED prompt
       \/ prompt' \in Prompts /\ UNCHANGED allowed
    /\ UNCHANGED <<sessionVars, pc, turnVars, executions, pending,
                   reconcileVars, nextId, outcome, turns, authorized,
                   consented>>

-----------------------------------------------------------------------------
(* The ends of a turn.  `execs` is the execution vector the turn ends with. *)

(* round, the batch and the call at hand are locals of run_turn.           *)
ResetLocals == round' = 0 /\ batch' = <<>> /\ current' = 0

EndTurn(kind, execs) ==
    /\ pc' = "idle"
    /\ outcome' = kind
    /\ executions' = execs
    /\ ResetLocals
    /\ UNCHANGED <<callsThisTurn, nextId, pending>>

Fail(execs) ==
    /\ Finish("Failed")
    /\ EndTurn("Failed", execs)

(* Mutant: a cancel is reported as reconciled without looking.             *)
ReconcileCancelBlind(execs) ==
    /\ UNCHANGED state
    /\ EndTurn("Canceled", execs)

ReconcileCancel(execs) ==
    /\ UNCHANGED state
    /\ EndTurn(IF Unknowns(execs) # {} THEN "Unknown" ELSE "Canceled", execs)

(* Mutant: the synthetic record takes a handle without issuing it.         *)
EndTurnWithBorrowedHandle(kind, execs, status) ==
    /\ pc' = "idle"
    /\ outcome' = kind
    /\ executions' = execs \cup
            {[id |-> nextId, status |-> status, rejected |-> FALSE]}
    /\ ResetLocals
    /\ UNCHANGED <<callsThisTurn, pending, nextId>>

(* The turn ends with one more record, under a fresh handle: a refusal, or *)
(* a provider effect whose acknowledgement was lost.                       *)
EndTurnWithRecord(kind, execs, status) ==
    /\ pc' = "idle"
    /\ outcome' = kind
    /\ executions' = execs \cup
            {[id |-> nextId, status |-> status, rejected |-> FALSE]}
    /\ nextId' = nextId + 1
    /\ ResetLocals
    /\ UNCHANGED <<callsThisTurn, pending>>

-----------------------------------------------------------------------------
(* The Tool Bus gates.                                                     *)

AuthBase == level

NarrowingOmits(tool) == tool \notin allowed

PromptDenies(tool) ==
    /\ prompt # NoPrompt
    /\ \/ tool \notin prompt
       \/ tool \notin Registered

AuthorizeCall(base, tool) ==
    /\ tool \in Registered
    /\ base = "Inspect" => tool \in ReadOnly
    /\ tool \in authorized

CheckConsent(tool) == tool \in consented

(* Mutant: the budget is applied per batch, not per turn.                  *)
PrecheckPerBatch(calls) ==
    /\ \A i \in DOMAIN calls : ~NarrowingOmits(calls[i])
    /\ \A i \in DOMAIN calls : AuthorizeCall(AuthBase, calls[i])
    /\ Len(calls) <= EffectiveCalls

(* precheck_narrowed: the whole batch, against the calls already made.     *)
Precheck(calls) ==
    /\ \A i \in DOMAIN calls : ~NarrowingOmits(calls[i])
    /\ \A i \in DOMAIN calls : AuthorizeCall(AuthBase, calls[i])
    /\ Len(calls) + callsThisTurn <= EffectiveCalls

(* Mutant: the dispatch trusts the authorization of the precheck.          *)
DispatchAdmitsPrechecked(tool) ==
    /\ ~NarrowingOmits(tool)
    /\ CheckConsent(tool)
    /\ callsThisTurn < HardCalls

(* dispatch_narrowed up to the executor.                                   *)
DispatchAdmits(tool) ==
    /\ ~NarrowingOmits(tool)
    /\ AuthorizeCall(AuthBase, tool)
    /\ CheckConsent(tool)
    /\ callsThisTurn < HardCalls

-----------------------------------------------------------------------------
(* From one callback to the next.  The operands are what the step already  *)
(* changed: `execs` the executions so far, `calls` what is left of the     *)
(* batch.                                                                  *)

(* Top of the round loop.                                                  *)
StartRound(roundsDone, execs) ==
    \/ /\ IsCancelled
       /\ ReconcileCancel(execs)
    \/ /\ ~IsCancelled
       /\ roundsDone >= MaxRounds
       /\ Fail(execs)
    \/ /\ ~IsCancelled
       /\ roundsDone < MaxRounds
       /\ pc' = "provider"
       /\ round' = roundsDone + 1
       /\ executions' = execs
       /\ batch' = <<>>
       /\ UNCHANGED <<state, callsThisTurn, current, nextId, outcome, pending>>

(* The per-call loop of run_turn, for the next call of the batch.          *)
DispatchNext(calls, execs) ==
    \/ /\ calls = <<>>
       /\ StartRound(round, execs)
    \/ /\ calls # <<>>
       /\ IsCancelled
       /\ ReconcileCancel(execs)
    \/ /\ calls # <<>>
       /\ ~IsCancelled
       /\ \/ /\ Cardinality(execs) >= MaxExecutions
             /\ Fail(execs)
          \/ /\ Cardinality(execs) < MaxExecutions
             /\ ~DispatchAdmits(Head(calls))
             /\ Finish("Failed")
             /\ EndTurnWithRecord("Failed", execs, "Refused")
          \/ /\ Cardinality(execs) < MaxExecutions
             /\ DispatchAdmits(Head(calls))
             /\ pc' = "exec"
             /\ current' = nextId
             /\ nextId' = nextId + 1
             /\ batch' = calls
             /\ executions' = execs
             /\ UNCHANGED <<state, round, callsThisTurn, outcome, pending>>

-----------------------------------------------------------------------------
(* run_turn: lifecycle and admission gates, then the carry of unresolved   *)
(* effects into the pending set, then the first round.                     *)

RefuseTurn ==
    /\ state # "Active"
    /\ outcome' = IF IsCancelled THEN "Canceled" ELSE "Failed"
    /\ UNCHANGED <<state, pc, turnVars, executions, pending, nextId>>

(* provider timeout out of range, or context assembly refused.             *)
AdmissionFails ==
    /\ state = "Active"
    /\ Fail(executions)
    /\ UNCHANGED turnCost

(* Mutant: a new turn forgets the uncertain effects of the last one.       *)
CarriedNothing == {}

(* Mutant: carried records get a status outside the status set.            *)
CarriedRelabelled ==
    {[r EXCEPT !.status = "Carried"] : r \in Unknowns(executions)}

Carried == Unknowns(executions)
Refreshed == {p \in pending : p.id \notin Handles(Carried)}

CarryFits ==
    Cardinality(Refreshed \cup Carried) <= MaxExecutions

(* The carry stops at the cap: what fitted stays, the turn fails.          *)
CarryOverflows ==
    /\ state = "Active"
    /\ ~CarryFits
    /\ \E fitted \in SUBSET Carried :
          /\ Cardinality(Refreshed \cup fitted) = MaxExecutions
          /\ pending' = Refreshed \cup fitted
    /\ Finish("Failed")
    /\ pc' = "idle"
    /\ outcome' = "Failed"
    /\ UNCHANGED <<turnVars, executions, nextId>>

BeginTurn ==
    /\ state = "Active"
    /\ CarryFits
    /\ pending' = Refreshed \cup Carried
    /\ executions' = {}
    /\ callsThisTurn' = 0
    /\ turnCost' = 0
    /\ batch' = <<>>
    /\ UNCHANGED <<nextId, current>>
    /\ \/ /\ MaxRounds > 0
          /\ pc' = "provider" /\ round' = 1
          /\ UNCHANGED <<state, outcome>>
       \/ /\ MaxRounds = 0
          /\ Finish("Failed")
          /\ pc' = "idle" /\ round' = 0 /\ outcome' = "Failed"

RunTurn ==
    /\ pc = "idle"
    /\ turns < MaxTurns
    /\ turns' = turns + 1
    /\ RefuseTurn \/ AdmissionFails \/ CarryOverflows \/ BeginTurn
    /\ UNCHANGED <<level, generation, reconcileVars, hostVars>>

-----------------------------------------------------------------------------
(* provider.complete returns.                                              *)

ProviderFrame ==
    UNCHANGED <<level, generation, reconcileVars, turns, hostVars>>

ProviderError ==
    /\ pc = "provider"
    /\ Fail(executions)
    /\ UNCHANGED turnCost /\ ProviderFrame

(* provider_unknown: a synthetic record, no failed session, no retry.      *)
ProviderUnknown ==
    /\ pc = "provider"
    /\ \/ /\ Cardinality(executions) >= MaxExecutions
          /\ Fail(executions)
       \/ /\ Cardinality(executions) < MaxExecutions
          /\ EndTurnWithRecord("Unknown", executions, "Unknown")
          /\ UNCHANGED state
    /\ UNCHANGED turnCost /\ ProviderFrame

(* The batch gates, once the assistant text is out: narrowing, prompt,     *)
(* then the bus precheck, all before the first dispatch.                   *)
AdmitBatch(calls) ==
    \/ /\ calls = <<>>
       /\ Finish("Completed")
       /\ EndTurn("Completed", executions)
    \/ /\ calls # <<>>
       /\ \E i \in DOMAIN calls : NarrowingOmits(calls[i]) \/ PromptDenies(calls[i])
       /\ \/ /\ Cardinality(executions) >= MaxExecutions
             /\ Fail(executions)
          \/ /\ Cardinality(executions) < MaxExecutions
             /\ Finish("Failed")
             /\ EndTurnWithRecord("Failed", executions, "Refused")
    \/ /\ calls # <<>>
       /\ \A i \in DOMAIN calls : ~NarrowingOmits(calls[i]) /\ ~PromptDenies(calls[i])
       /\ \/ /\ ~Precheck(calls)
             /\ Fail(executions)
          \/ /\ Precheck(calls)
             /\ DispatchNext(calls, executions)

(* The cost fuse stops the turn before any text or dispatch of the round   *)
(* and leaves the session Active.  Empty text goes straight to the gates.  *)
ProviderTurn ==
    /\ pc = "provider"
    /\ \E calls \in Batches, cost \in RoundCosts, hasText \in BOOLEAN :
          /\ turnCost' = turnCost + cost
          /\ \/ /\ turnCost' > MaxTurnCost
                /\ EndTurn("CostCeiling", executions)
                /\ UNCHANGED state
             \/ /\ turnCost' <= MaxTurnCost
                /\ IsCancelled
                /\ ReconcileCancel(executions)
             \/ /\ turnCost' <= MaxTurnCost
                /\ ~IsCancelled
                /\ hasText
                /\ pc' = "text"
                /\ batch' = calls
                /\ UNCHANGED <<state, round, callsThisTurn, current, executions,
                               pending, nextId, outcome>>
             \/ /\ turnCost' <= MaxTurnCost
                /\ ~IsCancelled
                /\ ~hasText
                /\ AdmitBatch(calls)
    /\ ProviderFrame

-----------------------------------------------------------------------------
(* The sink returns from the last text fragment (emit_fragments re-reads   *)
(* the cancel flag after every chunk; a refused chunk fails the turn even  *)
(* when the same callback cancelled it).                                   *)
TextReturns ==
    /\ pc = "text"
    /\ \/ Fail(executions)
       \/ /\ IsCancelled
          /\ ReconcileCancel(executions)
       \/ /\ ~IsCancelled
          /\ AdmitBatch(batch)
    /\ UNCHANGED turnCost /\ ProviderFrame

(* The executor returns.  Every return is recorded under the call's handle *)
(* before anything else can end the turn.                                  *)
CurrentRecord(status, rejected) ==
    [id |-> current, status |-> status, rejected |-> rejected]

ExecReturns ==
    /\ pc = "exec"
    /\ callsThisTurn' = callsThisTurn + 1
    /\ \E status \in Statuses \ {"Refused"}, rejected \in BOOLEAN :
         LET execs == executions \cup {CurrentRecord(status, rejected)}
         IN  /\ rejected => status = "Success"
             /\ executions' = execs
             /\ \/ (* result over bound, payload not externalised, or an    *)
                   (* error outside the executor contract                   *)
                   /\ status \in {"Success", "Failed"}
                   /\ Finish("Failed")
                   /\ pc' = "idle" /\ outcome' = "Failed"
                   /\ ResetLocals
                \/ /\ ~rejected
                   /\ IsCancelled
                   /\ pc' = "idle"
                   /\ outcome' = IF Unknowns(execs) # {} THEN "Unknown" ELSE "Canceled"
                   /\ ResetLocals
                   /\ UNCHANGED state
                \/ /\ ~rejected
                   /\ ~IsCancelled
                   /\ pc' = "card"
                   /\ UNCHANGED <<state, outcome, round, batch, current>>
    /\ UNCHANGED <<turnCost, nextId, pending>>
    /\ ProviderFrame

(* The sink returns from the tool card of the call just recorded.          *)
CurrentStatus(status) ==
    \E r \in executions : r.id = current /\ r.status = status

CardReturns ==
    /\ pc = "card"
    /\ \/ Fail(executions)
       \/ /\ IsCancelled
          /\ ReconcileCancel(executions)
       \/ /\ ~IsCancelled
          /\ CurrentStatus("Unknown")
          /\ EndTurn("Unknown", executions)
          /\ UNCHANGED state
       \/ /\ ~IsCancelled
          /\ CurrentStatus("Denied")
          /\ Fail(executions)
       \/ /\ ~IsCancelled
          /\ CurrentStatus("Success") \/ CurrentStatus("Failed")
          /\ DispatchNext(Tail(batch), executions)
    /\ UNCHANGED turnCost /\ ProviderFrame

-----------------------------------------------------------------------------
(* reconcile_unknown: status queries only, never a dispatch.               *)

ReconcileFrame ==
    UNCHANGED <<level, generation, turnVars, nextId, outcome, turns, hostVars>>

Escalate ==
    /\ Finish("Failed")
    /\ pc' = "idle" /\ target' = 0 /\ attempt' = 0
    /\ UNCHANGED <<executions, pending>>

ReconcileUnknown(id) ==
    /\ pc = "idle"
    /\ id \in OpenEffects
    /\ \/ /\ EffectiveRetries = 0
          /\ Escalate
       \/ /\ EffectiveRetries > 0
          /\ pc' = "reconcile" /\ target' = id /\ attempt' = 0
          /\ UNCHANGED <<state, executions, pending>>
    /\ ReconcileFrame

(* A terminal answer settles the effect in both views.                     *)
Resolve(status) ==
    /\ pending' = {p \in pending : p.id # target}
    /\ executions' = {IF r.id = target THEN [r EXCEPT !.status = status] ELSE r :
                        r \in executions}
    /\ pc' = "idle" /\ target' = 0 /\ attempt' = 0
    /\ UNCHANGED state

(* Mutant: an answer that still says Unknown restarts the budget.          *)
ReconcileRestarts ==
    /\ pc = "reconcile"
    /\ \/ \E status \in Terminal : Resolve(status)
       \/ /\ attempt + 1 < EffectiveRetries
          /\ attempt' = attempt + 1
          /\ UNCHANGED <<state, pc, executions, pending, target>>
       \/ /\ attempt' = 0
          /\ UNCHANGED <<state, pc, executions, pending, target>>
    /\ ReconcileFrame

(* Pending, or Resolved(Unknown), spends one query of the budget.          *)
ReconcileReturns ==
    /\ pc = "reconcile"
    /\ \/ \E status \in Terminal : Resolve(status)
       \/ /\ attempt + 1 < EffectiveRetries
          /\ attempt' = attempt + 1
          /\ UNCHANGED <<state, pc, executions, pending, target>>
       \/ /\ attempt + 1 >= EffectiveRetries
          /\ Escalate
    /\ ReconcileFrame

AbandonPending(id) ==
    /\ pc = "idle"
    /\ id \in Handles(pending)
    /\ pending' = {p \in pending : p.id # id}
    /\ UNCHANGED <<state, pc, executions, reconcileVars>>
    /\ ReconcileFrame

-----------------------------------------------------------------------------
AgentReturns ==
    \/ ProviderError \/ ProviderUnknown \/ ProviderTurn
    \/ TextReturns \/ ExecReturns \/ CardReturns
    \/ ReconcileReturns

Next ==
    \/ HostStep \/ Configure
    \/ RunTurn
    \/ AgentReturns
    \/ \E id \in OpenEffects : ReconcileUnknown(id) \/ AbandonPending(id)

(* Every callback of the host returns: providers and tools run under a     *)
(* deadline of their own, and the loop itself never waits.                 *)
Spec == Init /\ [][Next]_vars /\ WF_vars(AgentReturns)

-----------------------------------------------------------------------------
TypeOK ==
    /\ state \in SessionStates
    /\ level \in Levels
    /\ generation \in Nat
    /\ pc \in Callbacks \cup {"idle"}
    /\ round \in Nat
    /\ batch \in Seq(Tools)
    /\ callsThisTurn \in Nat
    /\ turnCost \in Nat
    /\ current \in Nat
    /\ executions \in SUBSET Record
    /\ pending \in SUBSET Record
    /\ target \in Nat
    /\ attempt \in Nat
    /\ nextId \in Nat
    /\ outcome \in Outcomes
    /\ turns \in Nat
    /\ authorized \subseteq Registered
    /\ consented \subseteq Registered
    /\ allowed \subseteq Tools
    /\ prompt = NoPrompt \/ prompt \subseteq Tools

(* run_turn's doc: effects whose outcome is uncertain stay open until they *)
(* are settled, whatever turns, cancels and failures come in between.      *)
Ledger == INSTANCE EffectLedger WITH
            turn <- turns,
            next <- nextId,
            inflight <- IF pc = "exec" THEN {current} ELSE {},
            open <- OpenEffects

LedgerSpec == Ledger!Spec

(* A handle names one effect: the same handle is never both pending and    *)
(* attributed to the running turn as something settled, and no handle is   *)
(* issued twice.  reconcile_unknown and abandon_pending look entries up by *)
(* handle alone and rely on it; and the vectors they look through stay     *)
(* within MAX_EXECUTIONS_PER_AGENT however many turns leave effects open.  *)
HandlesUnique ==
    /\ \A r, s \in executions \cup pending : r.id = s.id => r = s
    /\ \A r \in executions \cup pending : r.id < nextId
    /\ pc = "exec" => current \notin Handles(executions \cup pending)
    /\ Cardinality(executions) <= MaxExecutions /\ Cardinality(pending) <= MaxExecutions

(* FS-AI1 and TB-6: whatever batches the provider sends and however many   *)
(* rounds the turn takes, the executor is contacted at most                *)
(* min(configured, hard) times in one turn.                                *)
CallBudget ==
    callsThisTurn + (IF pc = "exec" THEN 1 ELSE 0) <= EffectiveCalls

(* S-1, PP-6 and AI-0227: at the moment the executor is contacted, the     *)
(* session is Active and the tool is allowed by the tier, the hook, the    *)
(* consent ledger and the narrowing of that moment, not of the moment the  *)
(* batch was admitted.                                                     *)
ContactAuthorized ==
    [][(pc' = "exec" /\ pc # "exec") =>
          /\ state = "Active"
          /\ LET tool == Head(batch')
             IN  /\ level = "Inspect" => tool \in ReadOnly
                 /\ tool \in authorized \cap consented \cap allowed
                 /\ prompt # NoPrompt => tool \in prompt]_vars

(* The outcome a turn returns agrees with the session and with the effects *)
(* it left: Completed and Canceled are never claimed over an uncertain     *)
(* effect, and a claimed Unknown has something to reconcile.               *)
TurnEnds == pc \in Callbacks \ {"reconcile"} /\ pc' = "idle"

OutcomeTruthful ==
    [][TurnEnds =>
          /\ outcome' = "Completed" =>
                state' = "Completed" /\ Unknowns(executions') = {}
          /\ outcome' = "Canceled" =>
                state' = "Canceled" /\ Unknowns(executions') = {}
          /\ outcome' = "Unknown" =>
                state' \in {"Active", "Canceled"} /\ Unknowns(executions') # {}
          /\ outcome' = "Failed" => state' \in {"Failed", "Canceled"}
          /\ outcome' = "CostCeiling" => state' = state]_vars

(* Every turn, and every reconcile schedule, comes to an end.              *)
TurnTerminates == (pc # "idle") ~> (pc = "idle")

=============================================================================
