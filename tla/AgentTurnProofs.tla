--------------------------- MODULE AgentTurnProofs ---------------------------
(***************************************************************************)
(* Proofs about the turn loop of module AgentTurn, for every choice of     *)
(* tools, limits, prompts and allow-sets.                                  *)
(***************************************************************************)
EXTENDS AgentTurn, FiniteSetTheorems, TLAPS

(* A batch of tool calls is a sequence of tools.                           *)
LEMMA BatchIsSequence ==
    ASSUME NEW calls \in Batches
    PROVE  calls \in Seq(Tools)
  <1>1. PICK n \in 0 .. MaxBatch : calls \in [1 .. n -> Tools]
    BY DEF Batches
  <1>2. n \in Nat
    BY <1>1, LimitAssumption
  <1> QED
    BY <1>1, <1>2

(* The part of the state that the shared ends of a turn and the dispatch   *)
(* loop determine is well typed after any of them.                         *)
LoopTypes ==
    /\ state \in SessionStates
    /\ pc \in Callbacks \cup {"idle"}
    /\ round \in Nat
    /\ batch \in Seq(Tools)
    /\ callsThisTurn \in Nat
    /\ current \in Nat
    /\ executions \in SUBSET Record
    /\ pending \in SUBSET Record
    /\ nextId \in Nat
    /\ outcome \in Outcomes

LEMMA EndTurnTypes ==
    ASSUME TypeOK, NEW kind \in Outcomes, NEW execs \in SUBSET Record,
           state' \in SessionStates, EndTurn(kind, execs)
    PROVE  LoopTypes'
  BY DEF TypeOK, LoopTypes, EndTurn, ResetLocals

LEMMA EndTurnWithRecordTypes ==
    ASSUME TypeOK, NEW kind \in Outcomes, NEW execs \in SUBSET Record,
           NEW status \in Statuses,
           state' \in SessionStates, EndTurnWithRecord(kind, execs, status)
    PROVE  LoopTypes'
  <1>1. [id |-> nextId, status |-> status, rejected |-> FALSE] \in Record
    BY DEF TypeOK, Record
  <1>2. executions' \in SUBSET Record
    BY <1>1 DEF EndTurnWithRecord
  <1> QED
    BY <1>2 DEF TypeOK, LoopTypes, EndTurnWithRecord, ResetLocals

LEMMA FinishTypes ==
    ASSUME TypeOK, NEW final \in SessionStates, Finish(final)
    PROVE  state' \in SessionStates
  BY DEF TypeOK, Finish

LEMMA FailTypes ==
    ASSUME TypeOK, NEW execs \in SUBSET Record, Fail(execs)
    PROVE  LoopTypes'
  BY EndTurnTypes, FinishTypes DEF Fail, Outcomes, SessionStates

LEMMA ReconcileCancelTypes ==
    ASSUME TypeOK, NEW execs \in SUBSET Record, ReconcileCancel(execs)
    PROVE  LoopTypes'
  <1>1. state' \in SessionStates
    BY DEF ReconcileCancel, TypeOK
  <1>2. PICK kind \in Outcomes : EndTurn(kind, execs)
    BY DEF ReconcileCancel, Outcomes
  <1> QED
    BY <1>1, <1>2, EndTurnTypes

LEMMA StartRoundTypes ==
    ASSUME TypeOK, NEW roundsDone \in Nat, NEW execs \in SUBSET Record,
           StartRound(roundsDone, execs)
    PROVE  LoopTypes'
  <1>1. CASE ReconcileCancel(execs)
    BY <1>1, ReconcileCancelTypes
  <1>2. CASE Fail(execs)
    BY <1>2, FailTypes
  <1>3. CASE /\ pc' = "provider"
             /\ round' = roundsDone + 1
             /\ executions' = execs
             /\ batch' = <<>>
             /\ UNCHANGED <<state, callsThisTurn, current, nextId, outcome, pending>>
    BY <1>3 DEF TypeOK, LoopTypes, Callbacks
  <1> QED
    BY <1>1, <1>2, <1>3 DEF StartRound

LEMMA DispatchNextTypes ==
    ASSUME TypeOK, NEW calls \in Seq(Tools), NEW execs \in SUBSET Record,
           DispatchNext(calls, execs)
    PROVE  LoopTypes'
  <1>0. round \in Nat
    BY DEF TypeOK
  <1>1. CASE StartRound(round, execs)
    BY <1>0, <1>1, StartRoundTypes
  <1>2. CASE ReconcileCancel(execs)
    BY <1>2, ReconcileCancelTypes
  <1>3. CASE Fail(execs)
    BY <1>3, FailTypes
  <1>4. CASE Finish("Failed") /\ EndTurnWithRecord("Failed", execs, "Refused")
    BY <1>4, FinishTypes, EndTurnWithRecordTypes
       DEF Outcomes, SessionStates, Statuses, Terminal
  <1>5. CASE /\ pc' = "exec"
             /\ current' = nextId
             /\ nextId' = nextId + 1
             /\ batch' = calls
             /\ executions' = execs
             /\ UNCHANGED <<state, round, callsThisTurn, outcome, pending>>
    BY <1>5 DEF TypeOK, LoopTypes, Callbacks
  <1> QED
    BY <1>1, <1>2, <1>3, <1>4, <1>5 DEF DispatchNext

LEMMA AdmitBatchTypes ==
    ASSUME TypeOK, NEW calls \in Seq(Tools), AdmitBatch(calls)
    PROVE  LoopTypes'
  <1>0. executions \in SUBSET Record
    BY DEF TypeOK
  <1>1. CASE Finish("Completed") /\ EndTurn("Completed", executions)
    BY <1>0, <1>1, FinishTypes, EndTurnTypes DEF Outcomes, SessionStates
  <1>2. CASE Fail(executions)
    BY <1>0, <1>2, FailTypes
  <1>3. CASE Finish("Failed") /\ EndTurnWithRecord("Failed", executions, "Refused")
    BY <1>0, <1>3, FinishTypes, EndTurnWithRecordTypes
       DEF Outcomes, SessionStates, Statuses, Terminal
  <1>4. CASE DispatchNext(calls, executions)
    BY <1>0, <1>4, DispatchNextTypes
  <1> QED
    BY <1>1, <1>2, <1>3, <1>4 DEF AdmitBatch

(* What LoopTypes leaves out of TypeOK.                                    *)
OtherTypes ==
    /\ level \in Levels
    /\ generation \in Nat
    /\ turnCost \in Nat
    /\ target \in Nat
    /\ attempt \in Nat
    /\ turns \in Nat
    /\ authorized \subseteq Registered
    /\ consented \subseteq Registered
    /\ allowed \subseteq Tools
    /\ prompt = NoPrompt \/ prompt \subseteq Tools

LEMMA TypeSplit == TypeOK <=> LoopTypes /\ OtherTypes
  BY DEF TypeOK, LoopTypes, OtherTypes

LEMMA TypeInit == Init => TypeOK
  BY ToolAssumption
     DEF Init, TypeOK, SessionStates, Levels, Outcomes, Callbacks

LEMMA RunTurnTypes ==
    ASSUME TypeOK, RunTurn
    PROVE  TypeOK'
  <1>1. OtherTypes'
    <2>1. turnCost' \in Nat
      BY DEF RunTurn, RefuseTurn, turnVars, AdmissionFails, CarryOverflows, BeginTurn, TypeOK
    <2> QED
      BY <2>1 DEF RunTurn, TypeOK, OtherTypes, hostVars, reconcileVars
  <1> SUFFICES LoopTypes'
    BY <1>1, TypeSplit DEF TypeOK, LoopTypes, OtherTypes
  <1>2. CASE RefuseTurn
    BY <1>2 DEF RefuseTurn, TypeOK, LoopTypes, turnVars, Outcomes
  <1>3. CASE AdmissionFails
    BY <1>3, FailTypes DEF AdmissionFails, TypeOK
  <1>4. Carried \in SUBSET Record /\ Refreshed \in SUBSET Record
    BY DEF TypeOK, Carried, Refreshed, Unknowns
  <1>5. CASE CarryOverflows
    BY <1>4, <1>5, FinishTypes
       DEF CarryOverflows, LoopTypes, TypeOK, turnVars, Outcomes, SessionStates
  <1>6. CASE BeginTurn
    BY <1>4, <1>6, FinishTypes
       DEF BeginTurn, LoopTypes, TypeOK, Outcomes, SessionStates, Callbacks
  <1> QED
    BY <1>2, <1>3, <1>5, <1>6 DEF RunTurn

LEMMA ProviderTurnTypes ==
    ASSUME TypeOK, ProviderTurn
    PROVE  TypeOK'
  <1>1. PICK calls \in Batches, cost \in RoundCosts, hasText \in BOOLEAN :
          /\ turnCost' = turnCost + cost
          /\ \/ EndTurn("CostCeiling", executions) /\ UNCHANGED state
             \/ ReconcileCancel(executions)
             \/ /\ pc' = "text"
                /\ batch' = calls
                /\ UNCHANGED <<state, round, callsThisTurn, current, executions,
                               pending, nextId, outcome>>
             \/ AdmitBatch(calls)
    BY DEF ProviderTurn
  <1>2. calls \in Seq(Tools)
    BY BatchIsSequence
  <1>3. turnCost' \in Nat
    BY <1>1, LimitAssumption DEF TypeOK
  <1>4. OtherTypes'
    BY <1>3 DEF ProviderTurn, ProviderFrame, TypeOK, OtherTypes, hostVars, reconcileVars
  <1> SUFFICES LoopTypes'
    BY <1>4, TypeSplit DEF TypeOK, LoopTypes, OtherTypes
  <1>5. executions \in SUBSET Record /\ state \in SessionStates
    BY DEF TypeOK
  <1>6. CASE EndTurn("CostCeiling", executions) /\ UNCHANGED state
    BY <1>5, <1>6, EndTurnTypes DEF Outcomes
  <1>7. CASE ReconcileCancel(executions)
    BY <1>5, <1>7, ReconcileCancelTypes
  <1>8. CASE /\ pc' = "text"
             /\ batch' = calls
             /\ UNCHANGED <<state, round, callsThisTurn, current, executions,
                            pending, nextId, outcome>>
    BY <1>2, <1>8 DEF TypeOK, LoopTypes, Callbacks
  <1>9. CASE AdmitBatch(calls)
    BY <1>2, <1>9, AdmitBatchTypes
  <1> QED
    BY <1>1, <1>6, <1>7, <1>8, <1>9

LEMMA ExecReturnsTypes ==
    ASSUME TypeOK, ExecReturns
    PROVE  TypeOK'
  <1>1. PICK status \in Statuses \ {"Refused"}, rejected \in BOOLEAN :
          executions' = executions \cup {CurrentRecord(status, rejected)}
    BY DEF ExecReturns
  <1>2. CurrentRecord(status, rejected) \in Record
    BY DEF CurrentRecord, Record, TypeOK
  <1>3. executions' \in SUBSET Record
    BY <1>1, <1>2 DEF TypeOK
  <1>4. state' \in SessionStates
    BY FinishTypes DEF ExecReturns, SessionStates, TypeOK
  <1>5. /\ pc' \in Callbacks \cup {"idle"}
        /\ outcome' \in Outcomes
        /\ round' \in Nat /\ batch' \in Seq(Tools) /\ current' \in Nat
    <2>1. \/ pc' = "idle" /\ ResetLocals
          \/ pc' = "card" /\ UNCHANGED <<outcome, round, batch, current>>
      BY DEF ExecReturns
    <2>2. \/ outcome' = "Failed" \/ outcome' = "Unknown"
          \/ outcome' = "Canceled" \/ outcome' = outcome
      BY Zenon DEF ExecReturns
    <2>3. outcome' \in Outcomes
      BY <2>2 DEF Outcomes, TypeOK
    <2>4. CASE pc' = "idle" /\ ResetLocals
      BY <2>3, <2>4 DEF ResetLocals
    <2>5. CASE pc' = "card" /\ UNCHANGED <<outcome, round, batch, current>>
      BY <2>3, <2>5 DEF Callbacks, TypeOK
    <2> QED
      BY <2>1, <2>4, <2>5
  <1>6. callsThisTurn' \in Nat
    BY DEF ExecReturns, TypeOK
  <1>7. UNCHANGED <<turnCost, nextId, pending, level, generation, target,
                    attempt, turns, authorized, consented, allowed, prompt>>
    BY DEF ExecReturns, ProviderFrame, hostVars, reconcileVars
  <1> QED
    BY <1>3, <1>4, <1>5, <1>6, <1>7 DEF TypeOK


LEMMA ReturnFrameTypes ==
    ASSUME TypeOK, UNCHANGED turnCost, ProviderFrame, LoopTypes'
    PROVE  TypeOK'
  BY DEF TypeOK, LoopTypes, ProviderFrame, hostVars, reconcileVars

LEMMA TextReturnsTypes ==
    ASSUME TypeOK, TextReturns
    PROVE  TypeOK'
  <1>1. executions \in SUBSET Record /\ batch \in Seq(Tools)
    BY DEF TypeOK
  <1>2. LoopTypes'
    BY <1>1, FailTypes, ReconcileCancelTypes, AdmitBatchTypes DEF TextReturns
  <1> QED
    BY <1>2, ReturnFrameTypes DEF TextReturns

LEMMA ProviderFailureTypes ==
    ASSUME TypeOK, ProviderError \/ ProviderUnknown
    PROVE  TypeOK'
  <1>1. executions \in SUBSET Record /\ state \in SessionStates
    BY DEF TypeOK
  <1>2. CASE Fail(executions)
    BY <1>1, <1>2, FailTypes, ReturnFrameTypes DEF ProviderError, ProviderUnknown
  <1>3. CASE EndTurnWithRecord("Unknown", executions, "Unknown") /\ UNCHANGED state
    BY <1>1, <1>3, EndTurnWithRecordTypes, ReturnFrameTypes
       DEF ProviderError, ProviderUnknown, Outcomes, Statuses
  <1> QED
    BY <1>2, <1>3 DEF ProviderError, ProviderUnknown

LEMMA CardReturnsTypes ==
    ASSUME TypeOK, CardReturns, batch # <<>>
    PROVE  TypeOK'
  <1>1. executions \in SUBSET Record /\ state \in SessionStates
    BY DEF TypeOK
  <1>2. CASE Fail(executions)
    BY <1>1, <1>2, FailTypes, ReturnFrameTypes DEF CardReturns
  <1>3. CASE ReconcileCancel(executions)
    BY <1>1, <1>3, ReconcileCancelTypes, ReturnFrameTypes DEF CardReturns
  <1>4. CASE EndTurn("Unknown", executions) /\ UNCHANGED state
    BY <1>1, <1>4, EndTurnTypes, ReturnFrameTypes DEF CardReturns, Outcomes
  <1>5. CASE DispatchNext(Tail(batch), executions)
    <2>1. Tail(batch) \in Seq(Tools)
      BY DEF TypeOK
    <2> QED
      BY <1>1, <1>5, <2>1, DispatchNextTypes, ReturnFrameTypes DEF CardReturns
  <1> QED
    BY <1>2, <1>3, <1>4, <1>5 DEF CardReturns


LEMMA ReconcileTypes ==
    ASSUME TypeOK, NEW id,
           ReconcileUnknown(id) \/ AbandonPending(id) \/ ReconcileReturns
    PROVE  TypeOK'
  <1>1. ReconcileUnknown(id) => id \in Nat
    BY DEF ReconcileUnknown, TypeOK, OpenEffects, Handles, Unknowns, Record
  <1>2. UNCHANGED <<level, generation, round, batch, callsThisTurn, turnCost,
                    current, nextId, outcome, turns, authorized, consented,
                    allowed, prompt>>
    BY DEF ReconcileUnknown, AbandonPending, ReconcileReturns, ReconcileFrame,
           turnVars, hostVars
  <1>3. CASE Escalate
    BY <1>2, <1>3, FinishTypes DEF Escalate, TypeOK, SessionStates
  <1>4. CASE /\ ReconcileUnknown(id)
             /\ pc' = "reconcile" /\ target' = id /\ attempt' = 0
             /\ UNCHANGED <<state, executions, pending>>
    BY <1>1, <1>2, <1>4 DEF TypeOK, Callbacks
  <1>5. CASE AbandonPending(id)
    BY <1>2, <1>5 DEF AbandonPending, TypeOK, reconcileVars
  <1>6. ASSUME NEW status \in Terminal, Resolve(status)
        PROVE  TypeOK'
    <2>1. executions' \in SUBSET Record
      <3>1. ASSUME NEW r \in executions
            PROVE  (IF r.id = target THEN [r EXCEPT !.status = status] ELSE r) \in Record
        BY <1>6 DEF TypeOK, Record, Statuses
      <3> QED
        BY <1>6, <3>1 DEF Resolve
    <2> QED
      BY <1>2, <1>6, <2>1 DEF Resolve, TypeOK
  <1>7. CASE attempt' = attempt + 1 /\ UNCHANGED <<state, pc, executions, pending, target>>
    BY <1>2, <1>7 DEF TypeOK
  <1> QED
    BY <1>3, <1>4, <1>5, <1>6, <1>7 DEF ReconcileUnknown, ReconcileReturns

LEMMA HostTypes ==
    ASSUME TypeOK, HostStep \/ Configure
    PROVE  TypeOK'
  <1>1. CASE HostStep
    <2>1. UNCHANGED <<pc, round, batch, callsThisTurn, turnCost, current,
                      executions, pending, target, attempt, nextId, outcome,
                      turns, allowed, prompt>>
      BY <1>1 DEF HostStep, turnVars, reconcileVars
    <2>2. state' \in SessionStates /\ level' \in Levels /\ generation' \in Nat
      BY <1>1 DEF HostStep, Host, Cancel, RotateGeneration, Elevate, sessionVars,
                  TypeOK, SessionStates, Levels
    <2>3. authorized' \subseteq Registered /\ consented' \subseteq Registered
      BY <1>1 DEF HostStep, Host, TypeOK
    <2> QED
      BY <2>1, <2>2, <2>3 DEF TypeOK
  <1>2. CASE Configure
    BY <1>2, ToolAssumption
       DEF Configure, TypeOK, sessionVars, turnVars, reconcileVars
  <1> QED
    BY <1>1, <1>2

-----------------------------------------------------------------------------
(* What a batch in hand is known to be.  The narrowing and the prompt are  *)
(* checked once per batch, but cannot change before the turn ends; the     *)
(* budget is checked once per batch, for all of its calls.                 *)
Admissible(tool) == ~NarrowingOmits(tool) /\ ~PromptDenies(tool)

BatchInv ==
    /\ callsThisTurn <= EffectiveCalls
    /\ pc \in {"exec", "card"} =>
          /\ batch # <<>>
          /\ \A i \in DOMAIN batch : Admissible(batch[i])
          /\ callsThisTurn + Len(batch) <=
                EffectiveCalls + (IF pc = "exec" THEN 0 ELSE 1)

(* Any end of a turn, and the start of a round, leaves no batch in hand.   *)
LEMMA NoBatchInHand ==
    ASSUME BatchInv, UNCHANGED callsThisTurn,
           pc' \notin {"exec", "card"}
    PROVE  BatchInv'
  BY DEF BatchInv

LEMMA LimitType == EffectiveCalls \in Nat
  BY LimitAssumption DEF EffectiveCalls, Min2

LEMMA DispatchNextBatch ==
    ASSUME TypeOK, BatchInv, NEW calls \in Seq(Tools), NEW execs,
           UNCHANGED <<allowed, prompt>>,
           \A i \in DOMAIN calls : Admissible(calls[i]),
           callsThisTurn + Len(calls) <= EffectiveCalls,
           DispatchNext(calls, execs)
    PROVE  BatchInv'
  <1>1. CASE StartRound(round, execs) \/ ReconcileCancel(execs) \/ Fail(execs)
             \/ EndTurnWithRecord("Failed", execs, "Refused")
    <2>1. UNCHANGED callsThisTurn /\ pc' \in {"idle", "provider"}
      BY <1>1 DEF StartRound, ReconcileCancel, Fail, EndTurnWithRecord, EndTurn
    <2> QED
      BY <2>1, NoBatchInHand
  <1>2. CASE /\ calls # <<>> /\ pc' = "exec" /\ batch' = calls
             /\ UNCHANGED callsThisTurn
    BY <1>2, LimitType
       DEF BatchInv, Admissible, NarrowingOmits, PromptDenies, TypeOK, EffectiveCalls
  <1> QED
    BY <1>1, <1>2 DEF DispatchNext

LEMMA AdmitBatchBatch ==
    ASSUME TypeOK, BatchInv, NEW calls \in Seq(Tools),
           UNCHANGED <<allowed, prompt>>, AdmitBatch(calls)
    PROVE  BatchInv'
  <1>1. CASE EndTurn("Completed", executions) \/ Fail(executions)
             \/ EndTurnWithRecord("Failed", executions, "Refused")
    <2>1. UNCHANGED callsThisTurn /\ pc' = "idle"
      BY <1>1 DEF Fail, EndTurnWithRecord, EndTurn
    <2> QED
      BY <2>1, NoBatchInHand
  <1>2. CASE /\ \A i \in DOMAIN calls : Admissible(calls[i])
             /\ Precheck(calls)
             /\ DispatchNext(calls, executions)
    <2>1. callsThisTurn + Len(calls) <= EffectiveCalls
      BY <1>2, LimitType DEF Precheck, TypeOK
    <2> QED
      BY <1>2, <2>1, DispatchNextBatch
  <1> QED
    BY <1>1, <1>2 DEF AdmitBatch, Admissible

LEMMA BatchStep ==
    ASSUME TypeOK, BatchInv, [Next]_vars
    PROVE  BatchInv'
  <1>1. CASE HostStep \/ Configure \/ UNCHANGED vars
    <2>1. UNCHANGED <<pc, batch, callsThisTurn>>
      BY <1>1 DEF HostStep, Configure, vars, turnVars
    <2>2. CASE Configure
      BY <2>1, <2>2 DEF Configure, BatchInv
    <2>3. CASE UNCHANGED <<allowed, prompt>>
      BY <2>1, <2>3 DEF BatchInv, Admissible, NarrowingOmits, PromptDenies
    <2> QED
      BY <1>1, <2>2, <2>3 DEF HostStep, vars
  <1>2. CASE RunTurn
    <2>1. pc' \notin {"exec", "card"}
      BY <1>2 DEF RunTurn, RefuseTurn, AdmissionFails, Fail, EndTurn,
                  CarryOverflows, BeginTurn
    <2>2. callsThisTurn' = callsThisTurn \/ callsThisTurn' = 0
      BY <1>2 DEF RunTurn, RefuseTurn, AdmissionFails, Fail, EndTurn,
                  CarryOverflows, BeginTurn, turnVars
    <2> QED
      BY <2>1, <2>2, LimitType DEF BatchInv
  <1>3. CASE ProviderError \/ ProviderUnknown
    <2>1. UNCHANGED callsThisTurn /\ pc' = "idle"
      BY <1>3 DEF ProviderError, ProviderUnknown, Fail, EndTurn, EndTurnWithRecord
    <2> QED
      BY <2>1, NoBatchInHand
  <1>4. CASE ProviderTurn
    <2>1. UNCHANGED <<allowed, prompt>>
      BY <1>4 DEF ProviderTurn, ProviderFrame, hostVars
    <2>2. PICK calls \in Batches :
             \/ UNCHANGED callsThisTurn /\ pc' \in {"idle", "text"}
             \/ AdmitBatch(calls)
      BY <1>4 DEF ProviderTurn, EndTurn, ReconcileCancel
    <2> QED
      BY <2>1, <2>2, BatchIsSequence, AdmitBatchBatch, NoBatchInHand
  <1>5. CASE TextReturns
    <2>1. UNCHANGED <<allowed, prompt>> /\ batch \in Seq(Tools)
      BY <1>5 DEF TextReturns, ProviderFrame, hostVars, TypeOK
    <2>2. \/ UNCHANGED callsThisTurn /\ pc' = "idle"
          \/ AdmitBatch(batch)
      BY <1>5 DEF TextReturns, Fail, EndTurn, ReconcileCancel
    <2> QED
      BY <2>1, <2>2, AdmitBatchBatch, NoBatchInHand
  <1>6. CASE ExecReturns
    <2>1. /\ pc = "exec" /\ UNCHANGED <<allowed, prompt>>
          /\ callsThisTurn' = callsThisTurn + 1
      BY <1>6 DEF ExecReturns, ProviderFrame, hostVars
    <2>2. \/ pc' = "idle" /\ ResetLocals
          \/ pc' = "card" /\ UNCHANGED <<outcome, round, batch, current>>
      BY <1>6 DEF ExecReturns
    <2>3. Len(batch) \in Nat /\ Len(batch) > 0
      BY <2>1 DEF BatchInv, TypeOK
    <2>4. callsThisTurn' <= EffectiveCalls
      BY <2>1, <2>3, LimitType DEF BatchInv, TypeOK
    <2> QED
      BY <2>1, <2>2, <2>3, <2>4, LimitType
         DEF BatchInv, TypeOK, Admissible, NarrowingOmits, PromptDenies
  <1>7. CASE CardReturns
    <2>1. pc = "card" /\ UNCHANGED <<allowed, prompt>>
      BY <1>7 DEF CardReturns, ProviderFrame, hostVars
    <2>2. batch # <<>> /\ batch \in Seq(Tools)
      BY <2>1 DEF BatchInv, TypeOK
    <2>3. /\ Tail(batch) \in Seq(Tools)
          /\ Len(Tail(batch)) = Len(batch) - 1
          /\ \A i \in DOMAIN Tail(batch) : i + 1 \in DOMAIN batch
                                           /\ Tail(batch)[i] = batch[i + 1]
      BY <2>2
    <2>4. callsThisTurn + Len(Tail(batch)) <= EffectiveCalls
      BY <2>1, <2>2, <2>3, LimitType DEF BatchInv, TypeOK
    <2>5. \A i \in DOMAIN Tail(batch) : Admissible(Tail(batch)[i])
      BY <2>1, <2>3 DEF BatchInv
    <2>6. \/ UNCHANGED callsThisTurn /\ pc' = "idle"
          \/ DispatchNext(Tail(batch), executions)
      BY <1>7 DEF CardReturns, Fail, EndTurn, ReconcileCancel
    <2> QED
      BY <2>1, <2>3, <2>4, <2>5, <2>6, DispatchNextBatch, NoBatchInHand
  <1>8. CASE ReconcileReturns \/ \E id \in OpenEffects : ReconcileUnknown(id) \/ AbandonPending(id)
    <2>1. UNCHANGED callsThisTurn /\ pc' \in {"idle", "reconcile"}
      BY <1>8 DEF ReconcileReturns, ReconcileUnknown, AbandonPending, Escalate,
                  Resolve, ReconcileFrame, turnVars
    <2> QED
      BY <2>1, NoBatchInHand
  <1> QED
    BY <1>1, <1>2, <1>3, <1>4, <1>5, <1>6, <1>7, <1>8 DEF Next, AgentReturns

(* While a turn runs, its session is Active or was cancelled under it.     *)
InTurn == pc \in Callbacks \ {"reconcile"}
LiveInv == InTurn => state \in {"Active", "Canceled"}

(* A step of the dispatch loop stops at a callback only with the session   *)
(* it started with, or ends the turn.                                      *)
LEMMA DispatchNextLive ==
    ASSUME NEW calls, NEW execs, DispatchNext(calls, execs)
    PROVE  pc' = "idle" \/ UNCHANGED state
  BY DEF DispatchNext, StartRound, ReconcileCancel, Fail, EndTurn, EndTurnWithRecord

LEMMA AdmitBatchLive ==
    ASSUME NEW calls, AdmitBatch(calls)
    PROVE  pc' = "idle" \/ UNCHANGED state
  BY DispatchNextLive DEF AdmitBatch, Fail, EndTurn, EndTurnWithRecord

LEMMA LiveStep ==
    ASSUME TypeOK, LiveInv, [Next]_vars
    PROVE  LiveInv'
  <1>1. CASE HostStep
    BY <1>1 DEF HostStep, Host, Cancel, RotateGeneration, Elevate, LiveInv,
                InTurn, sessionVars
  <1>2. CASE Configure \/ UNCHANGED vars
    BY <1>2 DEF Configure, LiveInv, InTurn, sessionVars, vars
  <1>3. CASE RunTurn
    BY <1>3 DEF RunTurn, RefuseTurn, AdmissionFails, Fail, EndTurn,
                CarryOverflows, BeginTurn, LiveInv, InTurn, Callbacks
  <1>4. CASE ProviderError \/ ProviderUnknown
    BY <1>4 DEF ProviderError, ProviderUnknown, Fail, EndTurn, EndTurnWithRecord,
                LiveInv, InTurn, Callbacks
  <1>5. CASE ProviderTurn \/ TextReturns \/ ExecReturns \/ CardReturns
    <2>1. InTurn
      BY <1>5 DEF ProviderTurn, TextReturns, ExecReturns, CardReturns, InTurn, Callbacks
    <2>2. pc' = "idle" \/ UNCHANGED state
      <3>1. CASE ProviderTurn
        BY <3>1, AdmitBatchLive DEF ProviderTurn, EndTurn, ReconcileCancel
      <3>2. CASE TextReturns
        BY <3>2, AdmitBatchLive DEF TextReturns, Fail, EndTurn, ReconcileCancel
      <3>3. CASE ExecReturns
        BY <3>3 DEF ExecReturns
      <3>4. CASE CardReturns
        BY <3>4, DispatchNextLive DEF CardReturns, Fail, EndTurn, ReconcileCancel
      <3> QED
        BY <1>5, <3>1, <3>2, <3>3, <3>4
    <2> QED
      BY <2>1, <2>2 DEF LiveInv, InTurn, Callbacks
  <1>6. CASE ReconcileReturns \/ \E id \in OpenEffects : ReconcileUnknown(id) \/ AbandonPending(id)
    BY <1>6 DEF ReconcileReturns, ReconcileUnknown, AbandonPending, Escalate,
                Resolve, LiveInv, InTurn, Callbacks
  <1> QED
    BY <1>1, <1>2, <1>3, <1>4, <1>5, <1>6 DEF Next, AgentReturns

LEMMA TypeStep ==
    ASSUME TypeOK, BatchInv, [Next]_vars
    PROVE  TypeOK'
  <1>1. CASE UNCHANGED vars
    BY <1>1 DEF TypeOK, vars
  <1>2. CASE CardReturns
    BY <1>2, CardReturnsTypes DEF CardReturns, BatchInv
  <1>3. CASE \E id \in OpenEffects : ReconcileUnknown(id) \/ AbandonPending(id)
    BY <1>3, ReconcileTypes
  <1>4. CASE ReconcileReturns
    BY <1>4, ReconcileTypes
  <1> QED
    BY <1>1, <1>2, <1>3, <1>4, HostTypes, RunTurnTypes, ProviderFailureTypes,
       ProviderTurnTypes, TextReturnsTypes, ExecReturnsTypes
       DEF Next, AgentReturns

(* The inductive invariant: TypeOK alone is not inductive, since the rest  *)
(* of a batch is only a sequence of tools when the batch is not empty.     *)
THEOREM BatchesStayAdmitted == Spec => [](TypeOK /\ BatchInv /\ LiveInv)
  <1>1. Init => TypeOK /\ BatchInv /\ LiveInv
    BY TypeInit, LimitType DEF Init, BatchInv, LiveInv
  <1>2. (TypeOK /\ BatchInv /\ LiveInv) /\ [Next]_vars
           => (TypeOK /\ BatchInv /\ LiveInv)'
    BY TypeStep, BatchStep, LiveStep
  <1> QED
    BY <1>1, <1>2, PTL DEF Spec

(* Type correctness of the turn loop: agent.rs, session.rs and tool.rs     *)
(* keep every field in its range, whatever the callbacks and the host do.  *)
THEOREM TypeCorrect == Spec => []TypeOK
  BY BatchesStayAdmitted, PTL

(* FS-AI1, TB-6: the executor is contacted at most min(configured, hard)   *)
(* times in one turn.                                                      *)
THEOREM CallsWithinBudget == Spec => []CallBudget
  <1>1. TypeOK /\ BatchInv => CallBudget
    <2> SUFFICES ASSUME TypeOK, BatchInv PROVE CallBudget
      OBVIOUS
    <2>1. CASE pc = "exec"
      <3>1. Len(batch) \in Nat /\ Len(batch) > 0
        BY <2>1 DEF BatchInv, TypeOK
      <3> QED
        BY <2>1, <3>1, LimitType DEF CallBudget, BatchInv, TypeOK
    <2>2. CASE pc # "exec"
      BY <2>2, LimitType DEF CallBudget, BatchInv, TypeOK
    <2> QED
      BY <2>1, <2>2
  <1> QED
    BY <1>1, BatchesStayAdmitted, PTL

(* S-1, PP-6, AI-0227: every contact of an executor is authorized by the   *)
(* session, the tier, the policy, the consent and the narrowing of that    *)
(* moment, and by the prompt of the turn, for any interleaving of host     *)
(* steps with the callbacks.                                               *)
THEOREM ContactsAreAuthorized == Spec => ContactAuthorized
  <1> DEFINE Contact ==
        (pc' = "exec" /\ pc # "exec") =>
          /\ state = "Active"
          /\ LET tool == Head(batch')
             IN  /\ level = "Inspect" => tool \in ReadOnly
                 /\ tool \in authorized \cap consented \cap allowed
                 /\ prompt # NoPrompt => tool \in prompt
  <1>1. ASSUME TypeOK, BatchInv, LiveInv, Next
        PROVE  Contact
    <2> SUFFICES ASSUME pc' = "exec", pc # "exec"
                 PROVE  /\ state = "Active"
                        /\ level = "Inspect" => Head(batch') \in ReadOnly
                        /\ Head(batch') \in authorized \cap consented \cap allowed
                        /\ prompt # NoPrompt => Head(batch') \in prompt
      OBVIOUS
    <2>1. ASSUME NEW calls \in Seq(Tools),
                 \A i \in DOMAIN calls : Admissible(calls[i]),
                 NEW execs, DispatchNext(calls, execs), InTurn
          PROVE  /\ state = "Active"
                 /\ level = "Inspect" => Head(batch') \in ReadOnly
                 /\ Head(batch') \in authorized \cap consented \cap allowed
                 /\ prompt # NoPrompt => Head(batch') \in prompt
      <3>1. /\ calls # <<>> /\ ~IsCancelled
            /\ DispatchAdmits(Head(calls)) /\ batch' = calls
        BY <2>1 DEF DispatchNext, StartRound, ReconcileCancel, Fail, EndTurn,
                    EndTurnWithRecord
      <3>2. Admissible(Head(calls))
        BY <2>1, <3>1
      <3>3. state = "Active"
        BY <1>1, <2>1, <3>1 DEF LiveInv, IsCancelled
      <3> QED
        BY <3>1, <3>2, <3>3
           DEF DispatchAdmits, AuthorizeCall, AuthBase, CheckConsent,
               Admissible, NarrowingOmits, PromptDenies
    <2>2. ASSUME NEW calls \in Seq(Tools), AdmitBatch(calls), InTurn
          PROVE  /\ \A i \in DOMAIN calls : Admissible(calls[i])
                 /\ DispatchNext(calls, executions)
      BY <2>2 DEF AdmitBatch, Admissible, Fail, EndTurn, EndTurnWithRecord
    <2>3. CASE ProviderTurn
      <3>1. PICK calls \in Batches : AdmitBatch(calls)
        BY <2>3 DEF ProviderTurn, EndTurn, ReconcileCancel
      <3> QED
        BY <2>1, <2>2, <2>3, <3>1, BatchIsSequence DEF ProviderTurn, InTurn, Callbacks
    <2>4. CASE TextReturns
      <3>1. AdmitBatch(batch) /\ batch \in Seq(Tools)
        BY <1>1, <2>4 DEF TextReturns, Fail, EndTurn, ReconcileCancel, TypeOK
      <3> QED
        BY <2>1, <2>2, <2>4, <3>1 DEF TextReturns, InTurn, Callbacks
    <2>5. CASE CardReturns
      <3>1. DispatchNext(Tail(batch), executions) /\ pc = "card"
        BY <2>5 DEF CardReturns, Fail, EndTurn, ReconcileCancel
      <3>2. batch # <<>> /\ batch \in Seq(Tools)
        BY <1>1, <3>1 DEF BatchInv, TypeOK
      <3>3. /\ Tail(batch) \in Seq(Tools)
            /\ \A i \in DOMAIN Tail(batch) : i + 1 \in DOMAIN batch
                                             /\ Tail(batch)[i] = batch[i + 1]
        BY <3>2
      <3> QED
        BY <1>1, <2>1, <3>1, <3>3 DEF BatchInv, InTurn, Callbacks
    <2>6. ProviderTurn \/ TextReturns \/ CardReturns
      <3>1. ASSUME HostStep \/ Configure \/ RunTurn PROVE FALSE
        BY <3>1 DEF HostStep, Configure, RunTurn, RefuseTurn, AdmissionFails,
                    Fail, EndTurn, CarryOverflows, BeginTurn
      <3>2. ASSUME ProviderError \/ ProviderUnknown \/ ExecReturns PROVE FALSE
        BY <3>2 DEF ProviderError, ProviderUnknown, Fail, EndTurn,
                    EndTurnWithRecord, ExecReturns
      <3>3. ASSUME NEW id, ReconcileReturns \/ ReconcileUnknown(id) \/ AbandonPending(id)
            PROVE  FALSE
        BY <3>3 DEF ReconcileReturns, ReconcileUnknown, AbandonPending, Escalate, Resolve
      <3> QED
        BY <1>1, <3>1, <3>2, <3>3 DEF Next, AgentReturns
    <2> QED
      BY <2>3, <2>4, <2>5, <2>6
  <1> QED
    BY <1>1, BatchesStayAdmitted, PTL DEF Spec, ContactAuthorized

-----------------------------------------------------------------------------
(* The turn loop implements the ledger of uncertain effects.               *)

LEMMA SameRecords ==
    ASSUME pc # "exec", pc' # "exec",
           UNCHANGED <<executions, pending, nextId, turns>>
    PROVE  UNCHANGED Ledger!ledgerVars
  BY DEF Ledger!ledgerVars, OpenEffects, Handles, Unknowns

LEMMA FreshRecordLedger ==
    ASSUME TypeOK, pc # "exec", NEW kind, NEW status \in {"Refused", "Unknown"},
           EndTurnWithRecord(kind, executions, status), UNCHANGED turns
    PROVE  Ledger!Next
  <1>1. /\ pc' = "idle" /\ nextId' = nextId + 1 /\ pending' = pending
        /\ executions' = executions \cup
              {[id |-> nextId, status |-> status, rejected |-> FALSE]}
    BY DEF EndTurnWithRecord
  <1>2. CASE status = "Refused"
    <2>1. Unknowns(executions') = Unknowns(executions)
      BY <1>1, <1>2 DEF Unknowns
    <2>2. OpenEffects' = OpenEffects
      BY <1>1, <2>1 DEF OpenEffects
    <2> QED
      BY <1>1, <2>2 DEF Ledger!Next, Ledger!Refuse
  <1>3. CASE status = "Unknown"
    <2> DEFINE fresh == [id |-> nextId, status |-> status, rejected |-> FALSE]
    <2>1. Unknowns(executions') = Unknowns(executions) \cup {fresh}
      BY <1>1, <1>3 DEF Unknowns
    <2>2. Handles(Unknowns(executions')) = Handles(Unknowns(executions)) \cup {nextId}
      <3>1. fresh.id = nextId
        OBVIOUS
      <3> HIDE DEF fresh
      <3> QED
        BY <2>1, <3>1 DEF Handles
    <2>3. OpenEffects' = OpenEffects \cup {nextId}
      BY <1>1, <2>2 DEF OpenEffects
    <2> QED
      BY <1>1, <2>3 DEF Ledger!Next, Ledger!LoseFresh
  <1> QED
    BY <1>2, <1>3

LEMMA DispatchNextLedger ==
    ASSUME TypeOK, pc # "exec", NEW calls, DispatchNext(calls, executions),
           UNCHANGED turns
    PROVE  [Ledger!Next]_(Ledger!ledgerVars)
  <1>1. CASE StartRound(round, executions) \/ ReconcileCancel(executions)
             \/ Fail(executions)
    BY <1>1, SameRecords DEF StartRound, ReconcileCancel, Fail, EndTurn
  <1>2. CASE EndTurnWithRecord("Failed", executions, "Refused")
    BY <1>2, FreshRecordLedger
  <1>3. CASE /\ pc' = "exec" /\ current' = nextId /\ nextId' = nextId + 1
             /\ UNCHANGED <<executions, pending>>
    BY <1>3 DEF Ledger!Next, Ledger!Start, OpenEffects, Handles, Unknowns
  <1> QED
    BY <1>1, <1>2, <1>3 DEF DispatchNext

LEMMA AdmitBatchLedger ==
    ASSUME TypeOK, pc # "exec", NEW calls, AdmitBatch(calls), UNCHANGED turns
    PROVE  [Ledger!Next]_(Ledger!ledgerVars)
  <1>1. CASE EndTurn("Completed", executions) \/ Fail(executions)
    BY <1>1, SameRecords DEF Fail, EndTurn
  <1>2. CASE EndTurnWithRecord("Failed", executions, "Refused")
    BY <1>2, FreshRecordLedger
  <1>3. CASE DispatchNext(calls, executions)
    BY <1>3, DispatchNextLedger
  <1> QED
    BY <1>1, <1>2, <1>3 DEF AdmitBatch

(* A new turn moves the open effects into the pending set.                 *)
LEMMA RunTurnLedger ==
    ASSUME TypeOK, RunTurn
    PROVE  Ledger!Next
  <1>1. pc = "idle" /\ pc' # "exec" /\ turns' = turns + 1 /\ UNCHANGED nextId
    BY DEF RunTurn, RefuseTurn, AdmissionFails, Fail, EndTurn, CarryOverflows, BeginTurn
  <1>2. CASE RefuseTurn \/ AdmissionFails
    <2>1. OpenEffects' = OpenEffects
      BY <1>2 DEF RefuseTurn, AdmissionFails, Fail, EndTurn, OpenEffects, Handles, Unknowns
    <2> QED
      BY <1>1, <2>1 DEF Ledger!Next, Ledger!NewTurn
  <1>3. Handles(Refreshed) \cup Handles(Carried) = OpenEffects
    BY DEF Refreshed, Carried, Handles, Unknowns, OpenEffects
  <1>4. CASE CarryOverflows
    <2>1. PICK fitted \in SUBSET Carried : pending' = Refreshed \cup fitted
      BY <1>4 DEF CarryOverflows
    <2>2. executions' = executions
      BY <1>4 DEF CarryOverflows
    <2>3. OpenEffects' = Handles(Carried) \cup Handles(Refreshed \cup fitted)
      BY <2>1, <2>2 DEF OpenEffects, Carried, Unknowns, Handles
    <2>4. Handles(Carried) \cup Handles(Refreshed \cup fitted)
             = Handles(Refreshed) \cup Handles(Carried)
      BY <2>1 DEF Handles
    <2> QED
      BY <1>1, <1>3, <2>3, <2>4 DEF Ledger!Next, Ledger!NewTurn
  <1>5. CASE BeginTurn
    <2>1. executions' = {} /\ pending' = Refreshed \cup Carried
      BY <1>5 DEF BeginTurn
    <2>2. OpenEffects' = Handles(Refreshed) \cup Handles(Carried)
      BY <2>1 DEF OpenEffects, Handles, Unknowns
    <2> QED
      BY <1>1, <1>3, <2>2 DEF Ledger!Next, Ledger!NewTurn
  <1> QED
    BY <1>2, <1>4, <1>5 DEF RunTurn

LEMMA ExecReturnsLedger ==
    ASSUME TypeOK, ExecReturns
    PROVE  Ledger!Next
  <1>1. pc = "exec" /\ pc' # "exec" /\ UNCHANGED <<nextId, pending, turns>>
    BY DEF ExecReturns, ProviderFrame
  <1>2. PICK status \in Statuses \ {"Refused"}, rejected \in BOOLEAN :
          executions' = executions \cup {CurrentRecord(status, rejected)}
    BY DEF ExecReturns
  <1>3. /\ CurrentRecord(status, rejected).id = current
        /\ CurrentRecord(status, rejected).status = status
    BY DEF CurrentRecord
  <1>4. CASE status = "Unknown"
    <2>1. Handles(Unknowns(executions')) = Handles(Unknowns(executions)) \cup {current}
      BY <1>2, <1>3, <1>4 DEF Unknowns, Handles
    <2>2. OpenEffects' = OpenEffects \cup {current}
      BY <1>1, <2>1 DEF OpenEffects
    <2> QED
      BY <1>1, <2>2 DEF Ledger!Next, Ledger!Lose
  <1>5. CASE status # "Unknown"
    <2>1. Unknowns(executions') = Unknowns(executions)
      BY <1>2, <1>3, <1>5 DEF Unknowns
    <2>2. OpenEffects' = OpenEffects
      BY <1>1, <2>1 DEF OpenEffects
    <2> QED
      BY <1>1, <2>2 DEF Ledger!Next, Ledger!Acknowledge
  <1> QED
    BY <1>4, <1>5

(* A terminal answer removes exactly the effect that was asked about.      *)
LEMMA ResolveLedger ==
    ASSUME TypeOK, pc = "reconcile", NEW status \in Terminal, Resolve(status),
           UNCHANGED <<nextId, turns>>
    PROVE  [Ledger!Next]_(Ledger!ledgerVars)
  <1>1. /\ pending' = {p \in pending : p.id # target}
        /\ executions' = {IF r.id = target THEN [r EXCEPT !.status = status] ELSE r :
                            r \in executions}
        /\ pc' = "idle"
    BY DEF Resolve
  <1>2. status # "Unknown"
    BY DEF Terminal
  <1>3. Handles(Unknowns(executions')) = Handles(Unknowns(executions)) \ {target}
    <2>1. ASSUME NEW h \in Handles(Unknowns(executions'))
          PROVE  h \in Handles(Unknowns(executions)) \ {target}
      <3>1. PICK s \in executions' : s.status = "Unknown" /\ s.id = h
        BY <2>1 DEF Handles, Unknowns
      <3>2. PICK r \in executions :
              s = IF r.id = target THEN [r EXCEPT !.status = status] ELSE r
        BY <1>1, <3>1
      <3>3. r \in Record
        BY DEF TypeOK
      <3>4. r.id # target
        BY <1>2, <3>1, <3>2, <3>3 DEF Record
      <3> QED
        BY <3>1, <3>2, <3>4 DEF Handles, Unknowns
    <2>2. ASSUME NEW h \in Handles(Unknowns(executions)) \ {target}
          PROVE  h \in Handles(Unknowns(executions'))
      <3>1. PICK r \in executions : r.status = "Unknown" /\ r.id = h
        BY <2>2 DEF Handles, Unknowns
      <3>2. r \in executions'
        BY <1>1, <2>2, <3>1
      <3> QED
        BY <3>1, <3>2 DEF Handles, Unknowns
    <2> QED
      BY <2>1, <2>2
  <1>4. Handles(pending') = Handles(pending) \ {target}
    BY <1>1 DEF Handles
  <1>5. OpenEffects' = OpenEffects \ {target}
    BY <1>3, <1>4 DEF OpenEffects
  <1>6. CASE target \in OpenEffects
    BY <1>1, <1>5, <1>6 DEF Ledger!Next, Ledger!Settle
  <1>7. CASE target \notin OpenEffects
    BY <1>1, <1>5, <1>7 DEF Ledger!ledgerVars
  <1> QED
    BY <1>6, <1>7

LEMMA AbandonLedger ==
    ASSUME TypeOK, NEW id, AbandonPending(id)
    PROVE  [Ledger!Next]_(Ledger!ledgerVars)
  <1>1. /\ pc = "idle" /\ pc' = "idle" /\ UNCHANGED <<executions, nextId, turns>>
        /\ pending' = {p \in pending : p.id # id}
        /\ id \in Handles(pending)
    BY DEF AbandonPending, ReconcileFrame
  <1>2. Handles(pending') = Handles(pending) \ {id}
    BY <1>1 DEF Handles
  <1>3. OpenEffects' = Handles(Unknowns(executions)) \cup (Handles(pending) \ {id})
    BY <1>1, <1>2 DEF OpenEffects, Handles, Unknowns
  <1>4. CASE id \in Handles(Unknowns(executions))
    BY <1>1, <1>3, <1>4 DEF OpenEffects, Ledger!ledgerVars
  <1>5. CASE id \notin Handles(Unknowns(executions))
    <2>1. OpenEffects' = OpenEffects \ {id} /\ id \in OpenEffects
      BY <1>1, <1>3, <1>5 DEF OpenEffects
    <2> QED
      BY <1>1, <2>1 DEF Ledger!Next, Ledger!Settle
  <1> QED
    BY <1>4, <1>5

LEMMA LedgerStep ==
    ASSUME TypeOK, [Next]_vars
    PROVE  [Ledger!Next]_(Ledger!ledgerVars)
  <1>1. CASE HostStep \/ Configure \/ UNCHANGED vars
    <2>1. UNCHANGED <<pc, current, executions, pending, nextId, turns>>
      BY <1>1 DEF HostStep, Configure, turnVars, vars
    <2> QED
      BY <2>1 DEF Ledger!ledgerVars, OpenEffects, Handles, Unknowns
  <1>2. CASE RunTurn
    BY <1>2, RunTurnLedger
  <1>3. CASE ProviderError \/ ProviderUnknown
    <2>1. CASE Fail(executions)
      BY <1>3, <2>1, SameRecords DEF ProviderError, ProviderUnknown, Fail, EndTurn, ProviderFrame
    <2>2. CASE EndTurnWithRecord("Unknown", executions, "Unknown")
      BY <1>3, <2>2, FreshRecordLedger DEF ProviderError, ProviderUnknown, ProviderFrame
    <2> QED
      BY <1>3, <2>1, <2>2 DEF ProviderError, ProviderUnknown
  <1>4. CASE ProviderTurn
    <2>1. PICK calls \in Batches :
             \/ pc' \in {"idle", "text"} /\ UNCHANGED <<executions, pending, nextId>>
             \/ AdmitBatch(calls)
      BY <1>4 DEF ProviderTurn, EndTurn, ReconcileCancel
    <2>2. pc = "provider" /\ UNCHANGED turns
      BY <1>4 DEF ProviderTurn, ProviderFrame
    <2> QED
      BY <2>1, <2>2, SameRecords, AdmitBatchLedger
  <1>5. CASE TextReturns
    <2>1. pc = "text" /\ UNCHANGED turns /\ (\/ pc' = "idle" /\ UNCHANGED <<executions, pending, nextId>>
                         \/ AdmitBatch(batch))
      BY <1>5 DEF TextReturns, ProviderFrame, Fail, EndTurn, ReconcileCancel
    <2> QED
      BY <2>1, SameRecords, AdmitBatchLedger
  <1>6. CASE ExecReturns
    BY <1>6, ExecReturnsLedger
  <1>7. CASE CardReturns
    <2>1. pc = "card" /\ UNCHANGED turns /\ (\/ pc' = "idle" /\ UNCHANGED <<executions, pending, nextId>>
                         \/ DispatchNext(Tail(batch), executions))
      BY <1>7 DEF CardReturns, ProviderFrame, Fail, EndTurn, ReconcileCancel
    <2> QED
      BY <2>1, SameRecords, DispatchNextLedger
  <1>8. CASE ReconcileReturns
    <2>1. pc = "reconcile" /\ UNCHANGED <<nextId, turns>>
      BY <1>8 DEF ReconcileReturns, ReconcileFrame
    <2>2. ASSUME NEW status \in Terminal, Resolve(status)
          PROVE  [Ledger!Next]_(Ledger!ledgerVars)
      BY <2>1, <2>2, ResolveLedger
    <2>3. CASE pc' # "exec" /\ UNCHANGED <<executions, pending>>
      BY <2>1, <2>3, SameRecords
    <2> QED
      BY <1>8, <2>1, <2>2, <2>3 DEF ReconcileReturns, Escalate
  <1>9. ASSUME NEW id, ReconcileUnknown(id)
        PROVE  [Ledger!Next]_(Ledger!ledgerVars)
    BY <1>9, SameRecords DEF ReconcileUnknown, Escalate, ReconcileFrame
  <1>10. ASSUME NEW id, AbandonPending(id)
         PROVE  [Ledger!Next]_(Ledger!ledgerVars)
    BY <1>10, AbandonLedger
  <1> QED
    BY <1>1, <1>2, <1>3, <1>4, <1>5, <1>6, <1>7, <1>8, <1>9, <1>10
       DEF Next, AgentReturns

(* MP-7, AI-RUN-001: the turn loop implements EffectLedger: an uncertain   *)
(* effect is open until a reconciler answers or the host abandons it,      *)
(* whatever turns, cancels, failures and carries come in between.          *)
THEOREM ImplementsLedger == Spec => LedgerSpec
  <1>1. Init => Ledger!Init
    BY DEF Init, Ledger!Init, OpenEffects, Handles, Unknowns
  <1>2. TypeOK /\ [Next]_vars => [Ledger!Next]_(Ledger!ledgerVars)
    BY LedgerStep
  <1> QED
    BY <1>1, <1>2, TypeCorrect, PTL DEF Spec, LedgerSpec, Ledger!Spec

-----------------------------------------------------------------------------
(* Handles.  A handle is issued once, by the counter, so that what is on   *)
(* record and what is running stay apart; the vectors are finite and every *)
(* record is admitted below the cap.                                       *)

HandleInv ==
    /\ \A r, s \in executions \cup pending : r.id = s.id => r = s
    /\ \A r \in executions \cup pending : r.id < nextId
    /\ pc = "exec" => /\ current \notin Handles(executions \cup pending)
                      /\ current < nextId
                      /\ Cardinality(executions) < MaxExecutions
    /\ IsFiniteSet(executions) /\ Cardinality(executions) <= MaxExecutions
    /\ IsFiniteSet(pending) /\ Cardinality(pending) <= MaxExecutions

(* A step that issues no handle and keeps the records.                     *)
LEMMA SameRecordsHandles ==
    ASSUME HandleInv, pc' # "exec", UNCHANGED <<executions, pending, nextId>>
    PROVE  HandleInv'
  BY DEF HandleInv

(* One more record, under a handle that no record has.                     *)
LEMMA AddRecordHandles ==
    ASSUME TypeOK, HandleInv, pc' # "exec", nextId' \in Nat, nextId' >= nextId,
           NEW r \in Record, r.id < nextId', r.id \notin Handles(executions \cup pending),
           Cardinality(executions) < MaxExecutions,
           executions' = executions \cup {r}, pending' = pending
    PROVE  HandleInv'
  <1>1. IsFiniteSet(executions') /\ Cardinality(executions') <= MaxExecutions
    <2>1. /\ Cardinality(executions) \in Nat
          /\ IsFiniteSet(executions')
          /\ \/ Cardinality(executions') = Cardinality(executions)
             \/ Cardinality(executions') = Cardinality(executions) + 1
      BY FS_AddElement, FS_CardinalityType DEF HandleInv
    <2> QED
      BY <2>1, LimitAssumption
  <1>2. \A s \in executions \cup pending : s.id < nextId' /\ s.id # r.id
    BY DEF HandleInv, Handles, TypeOK, Record
  <1>3. \A s, t \in (executions \cup pending)' : s.id = t.id => s = t
    BY <1>2 DEF HandleInv
  <1> QED
    BY <1>1, <1>2, <1>3 DEF HandleInv

(* A refusal, or a lost acknowledgement, under a fresh handle.             *)
LEMMA FreshRecordHandles ==
    ASSUME TypeOK, HandleInv, NEW kind, NEW status \in Statuses,
           EndTurnWithRecord(kind, executions, status),
           Cardinality(executions) < MaxExecutions
    PROVE  HandleInv'
  <1> DEFINE fresh == [id |-> nextId, status |-> status, rejected |-> FALSE]
  <1>1. /\ pc' = "idle" /\ nextId' = nextId + 1 /\ pending' = pending
        /\ executions' = executions \cup {fresh}
    BY DEF EndTurnWithRecord
  <1>2. fresh \in Record /\ fresh.id = nextId /\ nextId \in Nat
    BY DEF Record, TypeOK
  <1>3. nextId \notin Handles(executions \cup pending)
    BY <1>2 DEF HandleInv, Handles
  <1>4. nextId' \in Nat /\ nextId' >= nextId /\ fresh.id < nextId' /\ pc' # "exec"
    BY <1>1, <1>2
  <1> HIDE DEF fresh
  <1> QED
    BY <1>1, <1>2, <1>3, <1>4, AddRecordHandles

LEMMA DispatchNextHandles ==
    ASSUME TypeOK, HandleInv, NEW calls, DispatchNext(calls, executions)
    PROVE  HandleInv'
  <1>1. CASE StartRound(round, executions) \/ ReconcileCancel(executions) \/ Fail(executions)
    BY <1>1, SameRecordsHandles DEF StartRound, ReconcileCancel, Fail, EndTurn
  <1>2. CASE /\ Cardinality(executions) < MaxExecutions
             /\ EndTurnWithRecord("Failed", executions, "Refused")
    BY <1>2, FreshRecordHandles DEF Statuses, Terminal
  <1>3. CASE /\ Cardinality(executions) < MaxExecutions
             /\ pc' = "exec" /\ current' = nextId /\ nextId' = nextId + 1
             /\ UNCHANGED <<executions, pending>>
    <2>1. nextId \in Nat /\ \A r \in executions \cup pending : r.id \in Nat
      BY DEF TypeOK, Record
    <2>2. current' \notin Handles(executions \cup pending)
      BY <1>3, <2>1 DEF HandleInv, Handles
    <2> QED
      BY <1>3, <2>1, <2>2 DEF HandleInv
  <1> QED
    BY <1>1, <1>2, <1>3 DEF DispatchNext

LEMMA AdmitBatchHandles ==
    ASSUME TypeOK, HandleInv, NEW calls, AdmitBatch(calls)
    PROVE  HandleInv'
  <1>1. CASE EndTurn("Completed", executions) \/ Fail(executions)
    BY <1>1, SameRecordsHandles DEF Fail, EndTurn
  <1>2. CASE /\ Cardinality(executions) < MaxExecutions
             /\ EndTurnWithRecord("Failed", executions, "Refused")
    BY <1>2, FreshRecordHandles DEF Statuses, Terminal
  <1>3. CASE DispatchNext(calls, executions)
    BY <1>3, DispatchNextHandles
  <1> QED
    BY <1>1, <1>2, <1>3 DEF AdmitBatch

(* The carry of run_turn moves records between the vectors, within the cap. *)
LEMMA RunTurnHandles ==
    ASSUME TypeOK, HandleInv, RunTurn
    PROVE  HandleInv'
  <1>1. pc = "idle" /\ pc' # "exec" /\ UNCHANGED nextId
    BY DEF RunTurn, RefuseTurn, AdmissionFails, Fail, EndTurn, CarryOverflows, BeginTurn
  <1>2. CASE RefuseTurn \/ AdmissionFails
    BY <1>1, <1>2, SameRecordsHandles DEF RefuseTurn, AdmissionFails, Fail, EndTurn
  <1>3. CASE CarryOverflows \/ BeginTurn
    <2>1. /\ pending' \subseteq executions \cup pending
          /\ executions' \subseteq executions
          /\ Cardinality(pending') <= MaxExecutions
      <3>1. Refreshed \subseteq pending /\ Carried \subseteq executions
        BY DEF Refreshed, Carried, Unknowns
      <3>2. CASE CarryOverflows
        BY <3>1, <3>2, LimitAssumption DEF CarryOverflows, turnVars
      <3>3. CASE BeginTurn
        BY <3>1, <3>3 DEF BeginTurn, CarryFits
      <3> QED
        BY <1>3, <3>2, <3>3
    <2>2. IsFiniteSet(executions \cup pending)
      BY FS_Union DEF HandleInv
    <2>3. IsFiniteSet(pending')
      BY <2>1, <2>2, FS_Subset
    <2>4. IsFiniteSet(executions') /\ Cardinality(executions') <= MaxExecutions
      <3>1. CASE CarryOverflows
        BY <3>1 DEF CarryOverflows, HandleInv
      <3>2. CASE BeginTurn
        BY <3>2, FS_EmptySet, LimitAssumption DEF BeginTurn
      <3> QED
        BY <1>3, <3>1, <3>2
    <2> QED
      BY <1>1, <2>1, <2>3, <2>4 DEF HandleInv
  <1> QED
    BY <1>2, <1>3 DEF RunTurn

(* The call's record takes the handle issued at the dispatch.              *)
LEMMA ExecReturnsHandles ==
    ASSUME TypeOK, HandleInv, ExecReturns
    PROVE  HandleInv'
  <1>1. PICK status \in Statuses, rejected \in BOOLEAN :
          executions' = executions \cup {CurrentRecord(status, rejected)}
    BY DEF ExecReturns
  <1>2. pc = "exec" /\ pc' # "exec" /\ UNCHANGED <<pending, nextId>>
    BY DEF ExecReturns
  <1>3. /\ CurrentRecord(status, rejected) \in Record
        /\ CurrentRecord(status, rejected).id = current
    BY DEF CurrentRecord, Record, TypeOK
  <1>4. /\ current \notin Handles(executions \cup pending) /\ current < nextId
        /\ Cardinality(executions) < MaxExecutions /\ nextId \in Nat
    BY <1>2 DEF HandleInv, TypeOK
  <1> QED
    BY <1>1, <1>2, <1>3, <1>4, AddRecordHandles

(* A terminal answer relabels the record of one handle and drops its       *)
(* pending entry.                                                          *)
LEMMA ResolveHandles ==
    ASSUME TypeOK, HandleInv, NEW status \in Terminal, Resolve(status), UNCHANGED nextId
    PROVE  HandleInv'
  <1> DEFINE Relabelled(r) == IF r.id = target THEN [r EXCEPT !.status = status] ELSE r
             f == [r \in executions |-> Relabelled(r)]
  <1>1. /\ pc' = "idle" /\ pending' = {p \in pending : p.id # target}
        /\ executions' = {Relabelled(r) : r \in executions}
    BY DEF Resolve
  <1>2. \A r \in executions : Relabelled(r).id = r.id /\ (r.id # target => Relabelled(r) = r)
    BY DEF TypeOK, Record
  <1>3. IsFiniteSet(executions') /\ Cardinality(executions') <= MaxExecutions
    <2>1. f \in Surjection(executions, executions')
      BY <1>1 DEF Surjection
    <2>2. /\ IsFiniteSet(executions') /\ Cardinality(executions') <= Cardinality(executions)
          /\ Cardinality(executions) <= MaxExecutions
      BY <2>1, FS_Surjection DEF HandleInv
    <2>3. Cardinality(executions') \in Nat /\ Cardinality(executions) \in Nat
      BY <2>2, FS_CardinalityType DEF HandleInv
    <2> QED
      BY <2>2, <2>3, LimitAssumption
  <1>4. IsFiniteSet(pending') /\ Cardinality(pending') <= MaxExecutions
    <2>1. /\ IsFiniteSet(pending') /\ Cardinality(pending') <= Cardinality(pending)
          /\ Cardinality(pending) <= MaxExecutions
      BY <1>1, FS_Subset DEF HandleInv
    <2>2. Cardinality(pending') \in Nat /\ Cardinality(pending) \in Nat
      BY <2>1, FS_CardinalityType DEF HandleInv
    <2> QED
      BY <2>1, <2>2, LimitAssumption
  <1> HIDE DEF Relabelled
  <1>5. \A r, s \in (executions \cup pending)' : r.id = s.id => r = s
    BY <1>1, <1>2 DEF HandleInv
  <1>6. \A r \in (executions \cup pending)' : r.id < nextId'
    BY <1>1, <1>2 DEF HandleInv
  <1> QED
    BY <1>1, <1>3, <1>4, <1>5, <1>6 DEF HandleInv

(* abandon_pending drops one entry.                                        *)
LEMMA AbandonHandles ==
    ASSUME HandleInv, NEW id, AbandonPending(id)
    PROVE  HandleInv'
  <1>1. /\ pc = "idle" /\ UNCHANGED <<pc, executions, nextId>>
        /\ pending' \subseteq pending
    BY DEF AbandonPending, ReconcileFrame
  <1>2. /\ IsFiniteSet(pending') /\ Cardinality(pending') <= Cardinality(pending)
        /\ Cardinality(pending) <= MaxExecutions
    BY <1>1, FS_Subset DEF HandleInv
  <1>3. Cardinality(pending') \in Nat /\ Cardinality(pending) \in Nat
    BY <1>2, FS_CardinalityType DEF HandleInv
  <1>4. Cardinality(pending') <= MaxExecutions
    BY <1>2, <1>3, LimitAssumption
  <1> QED
    BY <1>1, <1>2, <1>4 DEF HandleInv

LEMMA HandleStep ==
    ASSUME TypeOK, HandleInv, [Next]_vars
    PROVE  HandleInv'
  <1>1. CASE HostStep \/ Configure
    BY <1>1 DEF HostStep, Configure, turnVars, HandleInv
  <1>2. CASE RunTurn
    BY <1>2, RunTurnHandles
  <1>3. CASE ProviderError
    BY <1>3, SameRecordsHandles DEF ProviderError, Fail, EndTurn
  <1>4. CASE ProviderUnknown
    <2>1. CASE Fail(executions)
      BY <2>1, SameRecordsHandles DEF Fail, EndTurn
    <2>2. CASE /\ Cardinality(executions) < MaxExecutions
               /\ EndTurnWithRecord("Unknown", executions, "Unknown")
      BY <2>2, FreshRecordHandles DEF Statuses
    <2> QED
      BY <1>4, <2>1, <2>2 DEF ProviderUnknown
  <1>5. CASE ProviderTurn
    <2>1. CASE EndTurn("CostCeiling", executions) \/ ReconcileCancel(executions)
      BY <2>1, SameRecordsHandles DEF ReconcileCancel, EndTurn
    <2>2. CASE pc' = "text" /\ UNCHANGED <<executions, pending, nextId>>
      BY <2>2, SameRecordsHandles
    <2>3. CASE \E calls \in Batches : AdmitBatch(calls)
      BY <2>3, AdmitBatchHandles
    <2> QED
      BY <1>5, <2>1, <2>2, <2>3 DEF ProviderTurn
  <1>6. CASE TextReturns
    <2>1. CASE Fail(executions) \/ ReconcileCancel(executions)
      BY <2>1, SameRecordsHandles DEF ReconcileCancel, Fail, EndTurn
    <2>2. CASE AdmitBatch(batch)
      BY <2>2, AdmitBatchHandles
    <2> QED
      BY <1>6, <2>1, <2>2 DEF TextReturns
  <1>7. CASE ExecReturns
    BY <1>7, ExecReturnsHandles
  <1>8. CASE CardReturns
    <2>1. CASE Fail(executions) \/ ReconcileCancel(executions) \/ EndTurn("Unknown", executions)
      BY <2>1, SameRecordsHandles DEF ReconcileCancel, Fail, EndTurn
    <2>2. CASE DispatchNext(Tail(batch), executions)
      BY <2>2, DispatchNextHandles
    <2> QED
      BY <1>8, <2>1, <2>2 DEF CardReturns
  <1>9. CASE ReconcileReturns
    <2>1. nextId' = nextId
      BY <1>9 DEF ReconcileReturns, ReconcileFrame
    <2>2. CASE \E status \in Terminal : Resolve(status)
      BY <2>1, <2>2, ResolveHandles
    <2>3. CASE UNCHANGED <<executions, pending>> /\ pc' # "exec"
      BY <2>1, <2>3, SameRecordsHandles
    <2> QED
      BY <1>9, <2>2, <2>3 DEF ReconcileReturns, Escalate
  <1>10. ASSUME NEW id, ReconcileUnknown(id)
         PROVE  HandleInv'
    BY <1>10, SameRecordsHandles DEF ReconcileUnknown, Escalate, ReconcileFrame
  <1>11. ASSUME NEW id, AbandonPending(id)
         PROVE  HandleInv'
    BY <1>11, AbandonHandles
  <1>12. CASE UNCHANGED vars
    BY <1>12 DEF vars, HandleInv
  <1> QED
    BY <1>1, <1>2, <1>3, <1>4, <1>5, <1>6, <1>7, <1>8, <1>9, <1>10, <1>11, <1>12
       DEF Next, AgentReturns

(* A handle names one effect for good: reconcile_unknown and abandon_pending *)
(* look records up by handle alone, and neither vector outgrows its cap,     *)
(* whatever the provider, the tools and the host do over any number of turns. *)
THEOREM HandlesStayUnique == Spec => []HandlesUnique
  <1>1. Init => HandleInv
    BY FS_EmptySet, LimitAssumption DEF Init, HandleInv
  <1>2. HandleInv => HandlesUnique
    BY DEF HandleInv, HandlesUnique
  <1> QED
    BY <1>1, <1>2, HandleStep, TypeCorrect, PTL DEF Spec

-----------------------------------------------------------------------------
(* The outcome of a turn.  A turn goes on only over settled effects: while *)
(* the loop is in a callback no record of the turn is uncertain, except    *)
(* the one whose tool card is being shown.                                 *)

CertainInv ==
    /\ pc \in {"provider", "text", "exec"} => Unknowns(executions) = {}
    /\ pc = "card" => \A r \in Unknowns(executions) : r.id = current

(* What OutcomeTruthful says of the step that ends a turn.                 *)
Truthful ==
    /\ outcome' = "Completed" => state' = "Completed" /\ Unknowns(executions') = {}
    /\ outcome' = "Canceled" => state' = "Canceled" /\ Unknowns(executions') = {}
    /\ outcome' = "Unknown" => state' \in {"Active", "Canceled"} /\ Unknowns(executions') # {}
    /\ outcome' = "Failed" => state' \in {"Failed", "Canceled"}
    /\ outcome' = "CostCeiling" => state' = state

Honest == CertainInv' /\ (pc' = "idle" => Truthful)

LEMMA FailHonest ==
    ASSUME state \in {"Active", "Canceled"},
           Finish("Failed"), pc' = "idle", outcome' = "Failed"
    PROVE  Honest
  BY DEF Honest, Truthful, CertainInv, Finish

LEMMA CancelHonest ==
    ASSUME IsCancelled, ReconcileCancel(executions)
    PROVE  Honest
  BY DEF Honest, Truthful, CertainInv, IsCancelled, ReconcileCancel, EndTurn

LEMMA DispatchNextHonest ==
    ASSUME state \in {"Active", "Canceled"}, Unknowns(executions) = {},
           NEW calls, DispatchNext(calls, executions)
    PROVE  Honest
  <1>1. CASE IsCancelled /\ ReconcileCancel(executions)
    BY <1>1, CancelHonest
  <1>2. CASE Fail(executions)
    BY <1>2, FailHonest DEF Fail, EndTurn
  <1>3. CASE Finish("Failed") /\ EndTurnWithRecord("Failed", executions, "Refused")
    BY <1>3, FailHonest DEF EndTurnWithRecord
  <1>4. CASE pc' \in {"provider", "exec"} /\ executions' = executions
    BY <1>4 DEF Honest, CertainInv
  <1> QED
    BY <1>1, <1>2, <1>3, <1>4 DEF DispatchNext, StartRound

LEMMA AdmitBatchHonest ==
    ASSUME state = "Active", Unknowns(executions) = {}, NEW calls, AdmitBatch(calls)
    PROVE  Honest
  <1>1. CASE Finish("Completed") /\ EndTurn("Completed", executions)
    BY <1>1 DEF Honest, Truthful, CertainInv, Finish, EndTurn
  <1>2. CASE Fail(executions)
    BY <1>2, FailHonest DEF Fail, EndTurn
  <1>3. CASE Finish("Failed") /\ EndTurnWithRecord("Failed", executions, "Refused")
    BY <1>3, FailHonest DEF EndTurnWithRecord
  <1>4. CASE DispatchNext(calls, executions)
    BY <1>4, DispatchNextHonest
  <1> QED
    BY <1>1, <1>2, <1>3, <1>4 DEF AdmitBatch

LEMMA ExecReturnsHonest ==
    ASSUME TypeOK, LiveInv, CertainInv, ExecReturns
    PROVE  Honest
  <1>0. state \in {"Active", "Canceled"} /\ Unknowns(executions) = {}
    BY DEF LiveInv, InTurn, Callbacks, CertainInv, ExecReturns
  <1>1. PICK status \in Statuses, rejected \in BOOLEAN :
          /\ executions' = executions \cup {CurrentRecord(status, rejected)}
          /\ \/ /\ Finish("Failed")
                /\ pc' = "idle" /\ outcome' = "Failed"
             \/ /\ IsCancelled /\ pc' = "idle" /\ UNCHANGED state
                /\ outcome' = IF Unknowns(executions') # {} THEN "Unknown" ELSE "Canceled"
             \/ pc' = "card" /\ UNCHANGED current
    BY DEF ExecReturns
  <1>2. CASE Finish("Failed") /\ pc' = "idle" /\ outcome' = "Failed"
    BY <1>0, <1>2, FailHonest
  <1>3. CASE /\ IsCancelled /\ pc' = "idle" /\ UNCHANGED state
             /\ outcome' = IF Unknowns(executions') # {} THEN "Unknown" ELSE "Canceled"
    BY <1>3 DEF Honest, Truthful, CertainInv, IsCancelled
  <1>4. CASE pc' = "card" /\ UNCHANGED current
    <2>1. \A r \in Unknowns(executions') : r.id = current
      BY <1>0, <1>1 DEF Unknowns, CurrentRecord
    <2> QED
      BY <1>4, <2>1 DEF Honest, CertainInv
  <1> QED
    BY <1>1, <1>2, <1>3, <1>4

LEMMA CardReturnsHonest ==
    ASSUME LiveInv, HandleInv, CertainInv, CardReturns
    PROVE  Honest
  <1>0. state \in {"Active", "Canceled"}
    BY DEF LiveInv, InTurn, Callbacks, CardReturns
  <1>1. CASE Fail(executions)
    BY <1>0, <1>1, FailHonest DEF Fail, EndTurn
  <1>2. CASE IsCancelled /\ ReconcileCancel(executions)
    BY <1>2, CancelHonest
  <1>3. CASE CurrentStatus("Unknown") /\ EndTurn("Unknown", executions) /\ UNCHANGED state
    BY <1>0, <1>3 DEF Honest, Truthful, CertainInv, EndTurn, CurrentStatus, Unknowns
  <1>4. CASE (CurrentStatus("Success") \/ CurrentStatus("Failed"))
             /\ DispatchNext(Tail(batch), executions)
    <2>1. Unknowns(executions) = {}
      BY <1>4 DEF CertainInv, CardReturns, HandleInv, CurrentStatus, Unknowns
    <2> QED
      BY <1>0, <1>4, <2>1, DispatchNextHonest
  <1> QED
    BY <1>1, <1>2, <1>3, <1>4 DEF CardReturns

LEMMA HonestStep ==
    ASSUME TypeOK, LiveInv, HandleInv, CertainInv, [Next]_vars
    PROVE  CertainInv' /\ (TurnEnds => Truthful)
  <1>0. pc \in {"provider", "text"} => state \in {"Active", "Canceled"} /\ Unknowns(executions) = {}
    BY DEF LiveInv, InTurn, Callbacks, CertainInv
  <1>1. CASE HostStep \/ Configure
    BY <1>1 DEF HostStep, Configure, turnVars, CertainInv, TurnEnds, Callbacks
  <1>2. CASE RunTurn
    <2>1. ~TurnEnds
      BY <1>2 DEF RunTurn, TurnEnds, Callbacks
    <2>2. pc' = "idle" \/ (executions' = {} /\ pc' = "provider")
      <3>1. CASE RefuseTurn \/ AdmissionFails \/ CarryOverflows
        BY <1>2, <3>1 DEF RunTurn, RefuseTurn, AdmissionFails, Fail, EndTurn, CarryOverflows
      <3>2. CASE BeginTurn
        BY <3>2 DEF BeginTurn
      <3> QED
        BY <1>2, <3>1, <3>2 DEF RunTurn
    <2> QED
      BY <2>1, <2>2 DEF CertainInv, Unknowns
  <1>3. CASE ProviderError
    BY <1>0, <1>3, FailHonest DEF ProviderError, Fail, EndTurn, Honest, TurnEnds
  <1>4. CASE ProviderUnknown
    <2>1. CASE Fail(executions)
      BY <1>0, <1>4, <2>1, FailHonest DEF ProviderUnknown, Fail, EndTurn, Honest, TurnEnds
    <2>2. CASE EndTurnWithRecord("Unknown", executions, "Unknown") /\ UNCHANGED state
      <3> DEFINE lost == [id |-> nextId, status |-> "Unknown", rejected |-> FALSE]
      <3>1. pc' = "idle" /\ outcome' = "Unknown" /\ lost \in executions'
        BY <2>2 DEF EndTurnWithRecord
      <3>2. lost \in Unknowns(executions')
        BY <3>1 DEF Unknowns
      <3>3. state' \in {"Active", "Canceled"}
        BY <1>0, <1>4, <2>2 DEF ProviderUnknown
      <3> QED
        BY <3>1, <3>2, <3>3 DEF CertainInv, Truthful
    <2> QED
      BY <1>4, <2>1, <2>2 DEF ProviderUnknown
  <1>5. CASE ProviderTurn
    <2>1. CASE EndTurn("CostCeiling", executions) /\ UNCHANGED state
      BY <2>1 DEF EndTurn, CertainInv, Truthful
    <2>2. CASE IsCancelled /\ ReconcileCancel(executions)
      BY <2>2, CancelHonest DEF Honest, TurnEnds
    <2>3. CASE pc' = "text" /\ UNCHANGED executions
      BY <1>0, <1>5, <2>3 DEF ProviderTurn, CertainInv, TurnEnds
    <2>4. ASSUME NEW calls, ~IsCancelled, AdmitBatch(calls)
          PROVE  CertainInv' /\ (TurnEnds => Truthful)
      BY <1>0, <1>5, <2>4, AdmitBatchHonest DEF ProviderTurn, IsCancelled, Honest, TurnEnds
    <2> QED
      BY <1>5, <2>1, <2>2, <2>3, <2>4 DEF ProviderTurn
  <1>6. CASE TextReturns
    <2>1. CASE Fail(executions)
      BY <1>0, <1>6, <2>1, FailHonest DEF TextReturns, Fail, EndTurn, Honest, TurnEnds
    <2>2. CASE IsCancelled /\ ReconcileCancel(executions)
      BY <2>2, CancelHonest DEF Honest, TurnEnds
    <2>3. CASE ~IsCancelled /\ AdmitBatch(batch)
      BY <1>0, <1>6, <2>3, AdmitBatchHonest DEF TextReturns, IsCancelled, Honest, TurnEnds
    <2> QED
      BY <1>6, <2>1, <2>2, <2>3 DEF TextReturns
  <1>7. CASE ExecReturns
    BY <1>7, ExecReturnsHonest DEF Honest, TurnEnds
  <1>8. CASE CardReturns
    BY <1>8, CardReturnsHonest DEF Honest, TurnEnds
  <1>9. CASE ReconcileReturns
    BY <1>9 DEF ReconcileReturns, Resolve, Escalate, CertainInv, TurnEnds
  <1>10. ASSUME NEW id, ReconcileUnknown(id) \/ AbandonPending(id)
         PROVE  CertainInv' /\ (TurnEnds => Truthful)
    BY <1>10 DEF ReconcileUnknown, AbandonPending, Escalate, CertainInv, TurnEnds, Callbacks
  <1>11. CASE UNCHANGED vars
    BY <1>11 DEF vars, CertainInv, TurnEnds, Callbacks
  <1> QED
    BY <1>1, <1>2, <1>3, <1>4, <1>5, <1>6, <1>7, <1>8, <1>9, <1>10, <1>11 DEF Next, AgentReturns

(* Completed and Canceled are never claimed over an uncertain effect, a     *)
(* claimed Unknown leaves one to reconcile, and the outcome agrees with the *)
(* state of the session, whatever the host did while the turn ran.          *)
THEOREM OutcomesAreTruthful == Spec => OutcomeTruthful
  <1>1. Init => HandleInv /\ CertainInv
    BY FS_EmptySet, LimitAssumption DEF Init, HandleInv, CertainInv
  <1>2. TypeOK /\ HandleInv /\ [Next]_vars => HandleInv'
    BY HandleStep
  <1>3. TypeOK /\ LiveInv /\ HandleInv /\ CertainInv /\ [Next]_vars
          => CertainInv' /\ [TurnEnds => Truthful]_vars
    BY HonestStep
  <1>4. [TurnEnds => Truthful]_vars =>
          [TurnEnds =>
             /\ outcome' = "Completed" => state' = "Completed" /\ Unknowns(executions') = {}
             /\ outcome' = "Canceled" => state' = "Canceled" /\ Unknowns(executions') = {}
             /\ outcome' = "Unknown" => state' \in {"Active", "Canceled"} /\ Unknowns(executions') # {}
             /\ outcome' = "Failed" => state' \in {"Failed", "Canceled"}
             /\ outcome' = "CostCeiling" => state' = state]_vars
    BY DEF Truthful
  <1> QED
    BY <1>1, <1>2, <1>3, <1>4, BatchesStayAdmitted, PTL DEF Spec, OutcomeTruthful

=============================================================================
