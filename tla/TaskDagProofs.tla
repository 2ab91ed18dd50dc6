--------------------------- MODULE TaskDagProofs ---------------------------
(***************************************************************************)
(* TaskDag for every set of tasks and workers and every bound.             *)
(***************************************************************************)
EXTENDS TaskDag, FiniteSetTheorems, NaturalsInduction, WellFoundedInduction, TLAPS

\* The fence, inductively: no token is newer than its task, and the token of
\* the running generation belongs to the assigned worker.
TokensFenced ==
  \A tok \in issued :
    /\ tok.gen <= gen[tok.task]
    /\ (status[tok.task] = "running" /\ tok.gen = gen[tok.task]) =>
         tok.worker = agent[tok.task]

IInv == /\ TypeOK
        /\ Acyclic
        /\ StartsAfterPrereqs
        /\ NoLostWakeup
        /\ TokensFenced
        /\ FinishAttributed

-----------------------------------------------------------------------------
(* Every closed set that holds the seeds contains what the walk reaches: the *)
(* breadth-first searches of find_path and the cascades leave no such set.   *)
LEMMA ClosureLeast ==
  ASSUME NEW seeds, NEW E, NEW S \in SUBSET Tasks,
         seeds \subseteq S,
         \A e \in E : e[1] \in S => e[2] \in S
  PROVE  Closure(seeds, E) \subseteq S
BY DEF Closure

(* find_path answering no leaves a closed set that separates the two tasks. *)
LEMMA NoPathSeparates ==
  ASSUME NEW from \in Tasks, NEW to \in Tasks, ~ FindPath(from, to)
  PROVE  \E S \in SUBSET Tasks : /\ from \in S /\ to \notin S
                                 /\ \A e \in edges : e[1] \in S => e[2] \in S
BY DEF FindPath, Closure

(* Adding edges from outside a closed set R into it makes no cycle.         *)
LEMMA EdgesIntoClosedSet ==
  ASSUME TypeOK, Acyclic, NEW R \in SUBSET Tasks, NEW new,
         \A e \in edges : e[1] \in R => e[2] \in R,
         \A e \in new : e = <<e[1], e[2]>> /\ e[1] \notin R /\ e[2] \in R,
         edges' = edges \cup new
  PROVE  Acyclic'
<1> SUFFICES ASSUME NEW S \in SUBSET Tasks, S # {}
             PROVE  \E t \in S : \A p \in S : <<p, t>> \notin edges'
  BY DEF Acyclic, Prereqs
<1>1. \A T \in SUBSET Tasks : T # {} => \E t \in T : \A p \in T : <<p, t>> \notin edges
  BY DEF Acyclic, Prereqs
<1>2. CASE S \subseteq R
  <2>1. PICK t \in S : \A p \in S : <<p, t>> \notin edges
    BY <1>1
  <2>2. ASSUME NEW p \in S, <<p, t>> \in new
        PROVE  FALSE
    <3>1. <<p, t>>[1] \notin R
      BY <2>2
    <3> QED BY <3>1, <1>2
  <2> QED BY <2>1, <2>2
<1>3. CASE ~ (S \subseteq R)
  <2>1. PICK t \in S \ R : \A p \in S \ R : <<p, t>> \notin edges
    <3>1. S \ R \in SUBSET Tasks /\ S \ R # {}
      BY <1>3
    <3> QED BY <3>1, <1>1
  <2>2. ASSUME NEW p \in S, <<p, t>> \in edges
        PROVE  FALSE
    <3>1. p \in R
      BY <2>1, <2>2
    <3>2. <<p, t>>[1] \in R => <<p, t>>[2] \in R
      BY <2>2
    <3> QED BY <3>1, <3>2, <2>1
  <2>3. ASSUME NEW p \in S, <<p, t>> \in new
        PROVE  FALSE
    <3>1. <<p, t>>[2] \in R
      BY <2>3
    <3> QED BY <3>1, <2>1
  <2> QED BY <2>1, <2>2, <2>3
<1> QED BY <1>2, <1>3

(* The cascade of a task that did not succeed blocks pending tasks only.    *)
LEMMA CascadePending ==
  ASSUME TypeOK, StartsAfterPrereqs, NEW t \in Tasks, status[t] # "succeeded"
  PROVE  \A d \in Cascade(t) : status[d] = "pending"
<1> DEFINE waiting == {d \in Tasks : status[d] \in Waiting}
           S == {d \in Tasks : status[d] = "pending"}
           E == {e \in edges : e[2] \in waiting}
<1>1. Dependents(t) \cap waiting \subseteq S
  <2> SUFFICES ASSUME NEW d \in Tasks, <<t, d>> \in edges, status[d] \in Waiting
               PROVE  status[d] = "pending"
    BY DEF Dependents
  <2>1. t \in Prereqs(d)
    BY DEF Prereqs
  <2> QED BY <2>1 DEF StartsAfterPrereqs, Waiting
<1>2. \A e \in E : e[1] \in S => e[2] \in S
  <2> SUFFICES ASSUME NEW e \in edges, e[2] \in Tasks, status[e[2]] \in Waiting,
                      e[1] \in Tasks, status[e[1]] = "pending"
               PROVE  status[e[2]] = "pending"
    OBVIOUS
  <2>1. e = <<e[1], e[2]>>
    BY DEF TypeOK, Known
  <2>2. e[1] \in Prereqs(e[2])
    BY <2>1 DEF Prereqs
  <2> QED BY <2>2 DEF StartsAfterPrereqs, Waiting
<1>3. S \in SUBSET Tasks
  OBVIOUS
<1>4. Closure(Dependents(t) \cap waiting, E) \subseteq S
  <2> HIDE DEF waiting, S, E
  <2> QED BY <1>1, <1>2, <1>3, ClosureLeast
<1> QED BY <1>4 DEF Cascade

(* complete_task demotes pending tasks only.                                *)
LEMMA DemotedPending ==
  ASSUME NEW t \in Tasks
  PROVE  \A d \in Demoted(t) : status[d] = "pending"
<1> DEFINE S == {d \in Dependents(t) : status[d] = "pending"}
           hit == {d \in S : \E p \in Prereqs(d) : status[p] \in Dead}
           E == {e \in edges : e[1] \in S /\ e[2] \in S /\ e[1] < e[2]}
<1>1. S \in SUBSET Tasks
  BY DEF Dependents
<1>2. hit \subseteq S /\ \A e \in E : e[1] \in S => e[2] \in S
  OBVIOUS
<1>3. Closure(hit, E) \subseteq S
  <2> HIDE DEF S, hit, E
  <2> QED BY <1>1, <1>2, ClosureLeast
<1> QED BY <1>3 DEF Demoted

(* What Evaluate says of the prerequisites it read.                         *)
LEMMA EvaluateSays ==
  ASSUME NEW ps
  PROVE  /\ Evaluate(ps) \in {"blocked", "pending", "ready"}
         /\ Evaluate(ps) = "ready" <=> \A p \in ps : status[p] = "succeeded"
BY DEF Evaluate, Dead
-----------------------------------------------------------------------------
(* The next lemmas: each verb preserves the inductive invariant.            *)

(* create_task: the new task has no edge yet, so {t} is closed.             *)
LEMMA CreatePreserves ==
  ASSUME IInv, NEW t \in Tasks, NEW deps \in SUBSET (Tasks \ {t}), CreateTask(t, deps)
  PROVE  IInv'
<1> USE DEF IInv
<1>1. \A x \in Tasks : <<x, t>> \notin edges /\ <<t, x>> \notin edges
  BY DEF TypeOK, CreateTask, Known
<1>2. /\ Evaluate(deps) \in {"blocked", "pending", "ready"}
      /\ Evaluate(deps) = "ready" <=> \A p \in deps : status[p] = "succeeded"
  BY EvaluateSays
<1>3. status' = [status EXCEPT ![t] = Evaluate(deps)] /\ edges' = edges \cup (deps \X {t})
  BY DEF CreateTask
<1>4. TypeOK'
  <2>1. status' \in [Tasks -> Statuses]
    BY <1>2, <1>3 DEF TypeOK, Statuses, Dead, Waiting
  <2>2. Known' = Known \cup {t}
    BY <1>2, <1>3 DEF Known, TypeOK
  <2>3. edges' \subseteq Known' \X Known'
    BY <2>2, <1>3 DEF TypeOK, CreateTask
  <2> QED BY <2>1, <2>3 DEF TypeOK, CreateTask
<1>5. Acyclic'
  <2> DEFINE R == {t}
             new == deps \X {t}
  <2>1. \A e \in edges : e[1] \in R => e[2] \in R
    <3> SUFFICES ASSUME NEW e \in edges, e[1] = t
                 PROVE  FALSE
      OBVIOUS
    <3>1. e = <<e[1], e[2]>> /\ e[1] \in Tasks /\ e[2] \in Tasks
      BY DEF TypeOK, Known
    <3> QED BY <3>1, <1>1
  <2>2. \A e \in new : e = <<e[1], e[2]>> /\ e[1] \notin R /\ e[2] \in R
    OBVIOUS
  <2>3. R \in SUBSET Tasks /\ edges' = edges \cup new
    BY <1>3
  <2> HIDE DEF R, new
  <2> QED BY <2>1, <2>2, <2>3, EdgesIntoClosedSet
<1>6. StartsAfterPrereqs'
  <2> SUFFICES ASSUME NEW x \in Tasks, status'[x] \in {"ready", "running", "succeeded", "failed"},
                      NEW p \in Tasks, <<p, x>> \in edges'
               PROVE  status'[p] = "succeeded"
    BY DEF StartsAfterPrereqs, Prereqs
  <2>1. CASE x = t
    BY <2>1, <1>1, <1>2, <1>3 DEF TypeOK
  <2>2. CASE x # t
    BY <2>2, <1>1, <1>3 DEF StartsAfterPrereqs, Prereqs, TypeOK
  <2> QED BY <2>1, <2>2
<1>7. NoLostWakeup'
  <2> SUFFICES ASSUME NEW x \in Tasks, status'[x] \in {"pending", "blocked"}
               PROVE  \E p \in Tasks : <<p, x>> \in edges' /\ status'[p] # "succeeded"
    BY DEF NoLostWakeup, Prereqs
  <2>1. CASE x = t
    <3>1. PICK p \in deps : status[p] # "succeeded"
      BY <2>1, <1>2, <1>3 DEF TypeOK
    <3>2. <<p, x>> \in edges' /\ p # t
      BY <2>1, <1>3
    <3> QED BY <3>1, <3>2, <1>3 DEF TypeOK
  <2>2. CASE x # t
    <3>1. PICK p \in Tasks : <<p, x>> \in edges /\ status[p] # "succeeded"
      BY <2>2, <1>3 DEF NoLostWakeup, Prereqs, TypeOK
    <3>2. p # t
      BY <3>1, <1>1
    <3> QED BY <3>1, <3>2, <1>3 DEF TypeOK
  <2> QED BY <2>1, <2>2
<1>8. TokensFenced'
  BY <1>2, <1>3 DEF TokensFenced, CreateTask, TypeOK, Tokens
<1>9. FinishAttributed'
  BY <1>2, <1>3 DEF FinishAttributed, CreateTask, TypeOK
<1> QED BY <1>4, <1>5, <1>6, <1>7, <1>8, <1>9

(* add_dependency: the set its cycle check leaves separates p from t.       *)
LEMMA AddPreserves ==
  ASSUME IInv, NEW p \in Tasks, NEW t \in Tasks, AddDependency(p, t)
  PROVE  IInv'
<1> USE DEF IInv
<1>1. /\ Evaluate({p}) \in {"blocked", "pending", "ready"}
      /\ Evaluate({p}) = "ready" <=> status[p] = "succeeded"
  <2>1. Evaluate({p}) = "ready" <=> \A q \in {p} : status[q] = "succeeded"
    BY EvaluateSays
  <2> QED BY <2>1, EvaluateSays
<1>2. /\ edges' = edges \cup {<<p, t>>}
      /\ p # t /\ {p, t} \subseteq Known
      /\ status[t] \in {"pending", "blocked", "ready"}
      /\ status' = IF status[t] = "ready" THEN [status EXCEPT ![t] = Evaluate({p})] ELSE status
  BY DEF AddDependency, Known, TypeOK, Statuses, Terminal, Waiting, Dead
<1>3. /\ \A x \in Tasks \ {t} : status'[x] = status[x]
      /\ status' \in [Tasks -> Statuses]
      /\ status'[t] \in {"pending", "blocked", "ready"}
      /\ status'[t] = "ready" => status[t] = "ready" /\ status[p] = "succeeded"
  BY <1>1, <1>2 DEF TypeOK, Statuses, Waiting, Dead
<1>4. TypeOK'
  <2>1. Known' = Known
    BY <1>2, <1>3 DEF Known
  <2> QED BY <2>1, <1>2, <1>3 DEF TypeOK, AddDependency
<1>5. Acyclic'
  <2>1. PICK R \in SUBSET Tasks : /\ t \in R /\ p \notin R
                                  /\ \A e \in edges : e[1] \in R => e[2] \in R
    BY NoPathSeparates DEF AddDependency
  <2> DEFINE new == {<<p, t>>}
  <2>2. \A e \in new : e = <<e[1], e[2]>> /\ e[1] \notin R /\ e[2] \in R
    BY <2>1
  <2>3. edges' = edges \cup new
    BY <1>2
  <2> HIDE DEF new
  <2> QED BY <2>1, <2>2, <2>3, EdgesIntoClosedSet
<1>6. StartsAfterPrereqs'
  <2> SUFFICES ASSUME NEW x \in Tasks, status'[x] \in {"ready", "running", "succeeded", "failed"},
                      NEW q \in Tasks, <<q, x>> \in edges'
               PROVE  status'[q] = "succeeded"
    BY DEF StartsAfterPrereqs, Prereqs
  <2>1. status[x] \in {"ready", "running", "succeeded", "failed"}
    BY <1>3
  <2>2. status[q] = "succeeded"
    <3>1. CASE <<q, x>> \in edges
      BY <3>1, <2>1 DEF StartsAfterPrereqs, Prereqs
    <3>2. CASE q = p /\ x = t
      BY <3>2, <1>3
    <3> QED BY <3>1, <3>2, <1>2
  <2> QED BY <2>2, <1>2, <1>3
<1>7. NoLostWakeup'
  <2> SUFFICES ASSUME NEW x \in Tasks, status'[x] \in {"pending", "blocked"}
               PROVE  \E q \in Tasks : <<q, x>> \in edges' /\ status'[q] # "succeeded"
    BY DEF NoLostWakeup, Prereqs
  <2>1. CASE status[x] \in {"pending", "blocked"}
    <3>1. PICK q \in Tasks : <<q, x>> \in edges /\ status[q] # "succeeded"
      BY <2>1 DEF NoLostWakeup, Prereqs
    <3>2. status'[q] # "succeeded"
      BY <3>1, <1>3
    <3> QED BY <3>1, <3>2, <1>2
  <2>2. CASE status[x] \notin {"pending", "blocked"}
    <3>1. x = t /\ status[t] = "ready" /\ status'[t] = Evaluate({p})
      BY <2>2, <1>2, <1>3 DEF TypeOK
    <3>2. status[p] # "succeeded"
      BY <3>1, <1>1
    <3>3. status'[p] # "succeeded" /\ <<p, t>> \in edges'
      BY <3>2, <1>2, <1>3
    <3> QED BY <3>1, <3>3
  <2> QED BY <2>1, <2>2
<1>8. TokensFenced'
  BY <1>2, <1>3 DEF TokensFenced, AddDependency, TypeOK, Tokens
<1>9. FinishAttributed'
  BY <1>2, <1>3 DEF FinishAttributed, AddDependency
<1> QED BY <1>4, <1>5, <1>6, <1>7, <1>8, <1>9

(* assign_task: the new generation is above every token held so far.        *)
LEMMA AssignPreserves ==
  ASSUME IInv, NEW t \in Tasks, NEW w \in Workers, AssignTask(t, w)
  PROVE  IInv'
<1> USE DEF IInv
<1>1. /\ status[t] = "ready" /\ status' = [status EXCEPT ![t] = "running"]
      /\ edges' = edges
  BY DEF AssignTask
<1>2. TypeOK'
  <2>1. Known' = Known
    BY <1>1 DEF Known, TypeOK
  <2>2. gen' \in [Tasks -> Gens] /\ agent' \in [Tasks -> Workers \cup {NoAgent}]
    BY TaskDagAssumption DEF TypeOK, AssignTask, Gens
  <2>3. issued' \subseteq Tokens
    BY TaskDagAssumption DEF TypeOK, AssignTask, Gens, Tokens
  <2>4. status' \in [Tasks -> Statuses]
    BY <1>1 DEF TypeOK, Statuses
  <2> QED BY <2>1, <2>2, <2>3, <2>4, <1>1 DEF TypeOK, AssignTask
<1>3. Acyclic'
  BY <1>1 DEF Acyclic, Prereqs
<1>4. StartsAfterPrereqs'
  BY <1>1 DEF StartsAfterPrereqs, Prereqs, TypeOK
<1>5. NoLostWakeup'
  BY <1>1 DEF NoLostWakeup, Prereqs, TypeOK
<1>6. TokensFenced'
  <2> SUFFICES ASSUME NEW tok \in issued'
               PROVE  /\ tok.gen <= gen'[tok.task]
                      /\ (status'[tok.task] = "running" /\ tok.gen = gen'[tok.task]) =>
                           tok.worker = agent'[tok.task]
    BY DEF TokensFenced
  <2>1. /\ gen' = [gen EXCEPT ![t] = gen[t] + 1] /\ agent' = [agent EXCEPT ![t] = w]
        /\ gen \in [Tasks -> Nat] /\ agent \in [Tasks -> Workers \cup {NoAgent}]
    BY TaskDagAssumption DEF AssignTask, TypeOK, Gens
  <2>2. CASE tok \in issued
    <3>1. tok.task \in Tasks /\ tok.gen \in Nat
      BY <2>2, TaskDagAssumption DEF TypeOK, Tokens, Gens
    <3> QED BY <3>1, <2>1, <2>2, <1>1 DEF TokensFenced, TypeOK
  <2>3. CASE tok = [task |-> t, gen |-> gen[t] + 1, worker |-> w]
    BY <2>1, <2>3
  <2> QED BY <2>2, <2>3 DEF AssignTask
<1>7. FinishAttributed'
  BY <1>1 DEF FinishAttributed, AssignTask, TypeOK
<1> QED BY <1>2, <1>3, <1>4, <1>5, <1>6, <1>7
(* complete_task: what it wakes has no other unfinished prerequisite.       *)
LEMMA CompletePreserves ==
  ASSUME IInv, NEW tok \in issued, CompleteTask(tok)
  PROVE  IInv'
<1> USE DEF IInv
<1> DEFINE t == tok.task
<1>1. /\ t \in Tasks /\ tok.worker \in Workers /\ edges' = edges /\ status[t] = "running"
      /\ tok.worker = agent[t]
      /\ gen' = gen /\ agent' = agent /\ issued' = issued
      /\ closer' = [closer EXCEPT ![t] = tok.worker]
  BY DEF CompleteTask, Accepts, Close, TypeOK, Tokens, TokensFenced
<1>2. /\ \A d \in Released(t) : /\ d \in Tasks /\ <<t, d>> \in edges
                                /\ status[d] \in {"pending", "blocked"}
      /\ \A d \in Demoted(t) : status[d] = "pending"
  BY <1>1, DemotedPending DEF Released, Dependents
<1>3. status' = [[d \in Tasks |-> IF d \in Released(t) THEN "ready"
                                  ELSE IF d \in Demoted(t) THEN "blocked"
                                  ELSE status[d]] EXCEPT ![t] = "succeeded"]
  BY DEF CompleteTask, Close
<1>4. /\ status' \in [Tasks -> Statuses]
      /\ status'[t] = "succeeded"
      /\ \A d \in Released(t) : status'[d] = "ready"
      /\ \A d \in Tasks \ {t} : d \notin Released(t) =>
           status'[d] = status[d] \/ (status[d] = "pending" /\ status'[d] = "blocked")
  BY <1>1, <1>2, <1>3 DEF TypeOK, Statuses, Dead, Waiting, Terminal
<1>5. TypeOK'
  <2>1. Known' = Known
    BY <1>1, <1>2, <1>4 DEF Known
  <2> QED BY <2>1, <1>1, <1>4 DEF TypeOK
<1> HIDE DEF t
<1>6. Acyclic'
  BY <1>1 DEF Acyclic, Prereqs
<1>7. \A p \in Tasks : status[p] = "succeeded" => status'[p] = "succeeded"
  BY <1>1, <1>2, <1>4
<1>8. StartsAfterPrereqs'
  <2> SUFFICES ASSUME NEW x \in Tasks, status'[x] \in {"ready", "running", "succeeded", "failed"},
                      NEW p \in Tasks, <<p, x>> \in edges
               PROVE  status'[p] = "succeeded"
    BY <1>1 DEF StartsAfterPrereqs, Prereqs
  <2>1. CASE x \in Released(t)
    <3>1. p # t => status[p] = "succeeded"
      BY <2>1 DEF Released, Prereqs
    <3> QED BY <3>1, <1>4, <1>7
  <2>2. CASE x \notin Released(t)
    <3>1. status[x] \in {"ready", "running", "succeeded", "failed"}
      BY <2>2, <1>1, <1>4
    <3>2. status[p] = "succeeded"
      BY <3>1 DEF StartsAfterPrereqs, Prereqs
    <3> QED BY <3>2, <1>7
  <2> QED BY <2>1, <2>2
<1>9. NoLostWakeup'
  <2> SUFFICES ASSUME NEW x \in Tasks, status'[x] \in {"pending", "blocked"}
               PROVE  \E p \in Tasks : <<p, x>> \in edges /\ status'[p] # "succeeded"
    BY <1>1 DEF NoLostWakeup, Prereqs
  <2>1. x # t /\ x \notin Released(t) /\ status[x] \in {"pending", "blocked"}
    BY <1>4
  <2>2. PICK p \in Tasks \ {t} : <<p, x>> \in edges /\ status[p] # "succeeded"
    <3>1. CASE x \in Dependents(t)
      BY <3>1, <2>1 DEF Released, Prereqs
    <3>2. CASE x \notin Dependents(t)
      BY <3>2, <2>1 DEF NoLostWakeup, Prereqs, Dependents
    <3> QED BY <3>1, <3>2
  <2>3. status'[p] # "succeeded"
    BY <2>2, <1>2, <1>4
  <2> QED BY <2>2, <2>3
<1>10. TokensFenced'
  <2> SUFFICES ASSUME NEW k \in issued
               PROVE  /\ k.gen <= gen[k.task]
                      /\ (status'[k.task] = "running" /\ k.gen = gen[k.task]) =>
                           k.worker = agent[k.task]
    BY <1>1 DEF TokensFenced
  <2>1. k.task \in Tasks
    BY DEF TypeOK, Tokens
  <2>2. status'[k.task] = "running" => status[k.task] = "running"
    BY <2>1, <1>4
  <2> QED BY <2>2 DEF TokensFenced
<1>11. FinishAttributed'
  <2> SUFFICES ASSUME NEW x \in Tasks, status'[x] \in {"succeeded", "failed"}
               PROVE  closer'[x] = agent[x]
    BY <1>1 DEF FinishAttributed
  <2>1. CASE x = t
    BY <2>1, <1>1 DEF TypeOK
  <2>2. CASE x # t
    <3>1. status[x] \in {"succeeded", "failed"}
      BY <2>2, <1>4
    <3> QED BY <3>1, <2>2, <1>1 DEF FinishAttributed, TypeOK
  <2> QED BY <2>1, <2>2
<1> QED BY <1>5, <1>6, <1>8, <1>9, <1>10, <1>11

(* fail_task and cancel_task end a task that did not succeed and block      *)
(* pending tasks behind it: nothing that started depends on it.             *)
LEMMA StopPreserves ==
  ASSUME IInv, NEW t \in Tasks, NEW outcome \in {"failed", "cancelled"},
         status[t] \notin {"absent"} \cup Terminal,
         outcome = "failed" => status[t] = "running",
         status' = [Blocking(t) EXCEPT ![t] = outcome], edges' = edges
  PROVE  /\ status' \in [Tasks -> Statuses] /\ Known' = Known
         /\ \A x \in Tasks \ {t} :
              status'[x] = status[x] \/ (status[x] = "pending" /\ status'[x] = "blocked")
         /\ status'[t] = outcome
         /\ Acyclic' /\ StartsAfterPrereqs' /\ NoLostWakeup'
<1> USE DEF IInv
<1>1. status[t] # "succeeded"
  BY DEF Terminal
<1>2. \A d \in Cascade(t) : status[d] = "pending"
  BY <1>1, CascadePending
<1>3. /\ status' \in [Tasks -> Statuses]
      /\ status'[t] = outcome
      /\ \A x \in Tasks \ {t} :
           status'[x] = status[x] \/ (status[x] = "pending" /\ status'[x] = "blocked")
  BY <1>2 DEF Blocking, TypeOK, Statuses, Dead, Waiting, Terminal
<1>4. Known' = Known
  BY <1>3 DEF Known
<1>5. Acyclic'
  BY DEF Acyclic, Prereqs
<1>6. StartsAfterPrereqs'
  <2> SUFFICES ASSUME NEW x \in Tasks, status'[x] \in {"ready", "running", "succeeded", "failed"},
                      NEW p \in Tasks, <<p, x>> \in edges
               PROVE  status'[p] = "succeeded"
    BY DEF StartsAfterPrereqs, Prereqs
  <2>1. status[x] \in {"ready", "running", "succeeded", "failed"}
    BY <1>3
  <2>2. status[p] = "succeeded"
    BY <2>1 DEF StartsAfterPrereqs, Prereqs
  <2> QED BY <2>2, <1>1, <1>3
<1>7. NoLostWakeup'
  <2> SUFFICES ASSUME NEW x \in Tasks, status'[x] \in {"pending", "blocked"}
               PROVE  \E p \in Tasks : <<p, x>> \in edges /\ status'[p] # "succeeded"
    BY DEF NoLostWakeup, Prereqs
  <2>1. status[x] \in {"pending", "blocked"}
    BY <1>3
  <2>2. PICK p \in Tasks : <<p, x>> \in edges /\ status[p] # "succeeded"
    BY <2>1 DEF NoLostWakeup, Prereqs
  <2>3. status'[p] # "succeeded"
    BY <2>2, <1>3
  <2> QED BY <2>2, <2>3
<1> QED BY <1>3, <1>4, <1>5, <1>6, <1>7

(* fail_task.                                                               *)
LEMMA FailPreserves ==
  ASSUME IInv, NEW tok \in issued, FailTask(tok)
  PROVE  IInv'
<1> USE DEF IInv
<1> DEFINE t == tok.task
<1>1. /\ t \in Tasks /\ tok.worker \in Workers /\ status[t] = "running"
      /\ tok.worker = agent[t]
      /\ edges' = edges /\ gen' = gen /\ agent' = agent /\ issued' = issued
      /\ closer' = [closer EXCEPT ![t] = tok.worker]
      /\ status' = [Blocking(t) EXCEPT ![t] = "failed"]
  BY DEF FailTask, Accepts, Close, TypeOK, Tokens, TokensFenced
<1> HIDE DEF t
<1>2. /\ status' \in [Tasks -> Statuses] /\ Known' = Known
      /\ \A x \in Tasks \ {t} :
           status'[x] = status[x] \/ (status[x] = "pending" /\ status'[x] = "blocked")
      /\ status'[t] = "failed"
      /\ Acyclic' /\ StartsAfterPrereqs' /\ NoLostWakeup'
  <2>1. status[t] \notin {"absent"} \cup Terminal
    BY <1>1 DEF Terminal
  <2> QED BY <1>1, <2>1, StopPreserves
<1>3. TypeOK'
  BY <1>1, <1>2 DEF TypeOK
<1>4. TokensFenced'
  <2> SUFFICES ASSUME NEW k \in issued
               PROVE  /\ k.gen <= gen[k.task]
                      /\ (status'[k.task] = "running" /\ k.gen = gen[k.task]) =>
                           k.worker = agent[k.task]
    BY <1>1 DEF TokensFenced
  <2>1. k.task \in Tasks
    BY DEF TypeOK, Tokens
  <2>2. status'[k.task] = "running" => status[k.task] = "running"
    BY <2>1, <1>2
  <2> QED BY <2>2 DEF TokensFenced
<1>5. FinishAttributed'
  <2> SUFFICES ASSUME NEW x \in Tasks, status'[x] \in {"succeeded", "failed"}
               PROVE  closer'[x] = agent[x]
    BY <1>1 DEF FinishAttributed
  <2>1. CASE x = t
    BY <2>1, <1>1 DEF TypeOK
  <2>2. CASE x # t
    <3>1. status[x] \in {"succeeded", "failed"}
      BY <2>2, <1>2
    <3> QED BY <3>1, <2>2, <1>1 DEF FinishAttributed, TypeOK
  <2> QED BY <2>1, <2>2
<1> QED BY <1>2, <1>3, <1>4, <1>5

(* The generation of one task goes up and it is not running: cancel, retry. *)
LEMMA BumpFences ==
  ASSUME IInv, NEW t \in Tasks, gen[t] < MaxGen,
         gen' = [gen EXCEPT ![t] = gen[t] + 1], issued' = issued,
         status'[t] # "running",
         \A x \in Tasks \ {t} : /\ status'[x] = "running" => status[x] = "running"
                                /\ agent'[x] = agent[x]
  PROVE  gen' \in [Tasks -> Gens] /\ TokensFenced'
<1>1. gen \in [Tasks -> Nat] /\ gen' \in [Tasks -> Gens]
  BY TaskDagAssumption DEF IInv, TypeOK, Gens
<1>2. TokensFenced'
  <2> SUFFICES ASSUME NEW k \in issued
               PROVE  /\ k.gen <= gen'[k.task]
                      /\ (status'[k.task] = "running" /\ k.gen = gen'[k.task]) =>
                           k.worker = agent'[k.task]
    BY DEF TokensFenced
  <2>1. k.task \in Tasks /\ k.gen \in Nat
    BY TaskDagAssumption DEF IInv, TypeOK, Tokens, Gens
  <2>2. k.gen <= gen[k.task]
    BY DEF IInv, TokensFenced
  <2>3. CASE k.task = t
    BY <2>1, <2>2, <2>3, <1>1
  <2>4. CASE k.task # t
    BY <2>1, <2>2, <2>4, <1>1 DEF IInv, TokensFenced
  <2> QED BY <2>3, <2>4
<1> QED BY <1>1, <1>2

(* cancel_task.                                                             *)
LEMMA CancelPreserves ==
  ASSUME IInv, NEW t \in Tasks, CancelTask(t)
  PROVE  IInv'
<1> USE DEF IInv
<1>1. /\ status[t] \notin {"absent"} \cup Terminal /\ gen[t] < MaxGen
      /\ status' = [Blocking(t) EXCEPT ![t] = "cancelled"]
      /\ gen' = [gen EXCEPT ![t] = gen[t] + 1]
      /\ edges' = edges /\ agent' = agent /\ issued' = issued /\ closer' = closer
  BY DEF CancelTask
<1>2. /\ status' \in [Tasks -> Statuses] /\ Known' = Known
      /\ \A x \in Tasks \ {t} :
           status'[x] = status[x] \/ (status[x] = "pending" /\ status'[x] = "blocked")
      /\ status'[t] = "cancelled"
      /\ Acyclic' /\ StartsAfterPrereqs' /\ NoLostWakeup'
  BY <1>1, StopPreserves
<1>3. gen' \in [Tasks -> Gens] /\ TokensFenced'
  BY <1>1, <1>2, BumpFences
<1>4. TypeOK'
  BY <1>1, <1>2, <1>3 DEF TypeOK
<1>5. FinishAttributed'
  BY <1>1, <1>2 DEF FinishAttributed
<1> QED BY <1>2, <1>3, <1>4, <1>5

(* retry_task: the retried task did not succeed, so nothing started on it.  *)
LEMMA RetryPreserves ==
  ASSUME IInv, NEW t \in Tasks, RetryTask(t)
  PROVE  IInv'
<1> USE DEF IInv
<1>1. /\ status[t] \in {"failed", "cancelled"} /\ gen[t] < MaxGen
      /\ status' = [status EXCEPT ![t] = Evaluate(Prereqs(t))]
      /\ gen' = [gen EXCEPT ![t] = gen[t] + 1]
      /\ agent' = [agent EXCEPT ![t] = NoAgent]
      /\ edges' = edges /\ issued' = issued /\ closer' = closer
  BY DEF RetryTask
<1>2. /\ Evaluate(Prereqs(t)) \in {"blocked", "pending", "ready"}
      /\ Evaluate(Prereqs(t)) = "ready" <=> \A p \in Prereqs(t) : status[p] = "succeeded"
  BY EvaluateSays
<1>3. /\ status' \in [Tasks -> Statuses]
      /\ status'[t] = Evaluate(Prereqs(t))
      /\ \A x \in Tasks \ {t} : status'[x] = status[x]
      /\ agent' \in [Tasks -> Workers \cup {NoAgent}]
      /\ \A x \in Tasks \ {t} : agent'[x] = agent[x]
  BY <1>1, <1>2 DEF TypeOK, Statuses, Dead, Waiting
<1>4. gen' \in [Tasks -> Gens] /\ TokensFenced'
  BY <1>1, <1>2, <1>3, BumpFences
<1>5. TypeOK'
  <2>1. Known' = Known
    BY <1>1, <1>2, <1>3 DEF Known
  <2> QED BY <2>1, <1>1, <1>3, <1>4 DEF TypeOK
<1>6. Acyclic'
  BY <1>1 DEF Acyclic, Prereqs
<1>7. StartsAfterPrereqs'
  <2> SUFFICES ASSUME NEW x \in Tasks, status'[x] \in {"ready", "running", "succeeded", "failed"},
                      NEW p \in Tasks, <<p, x>> \in edges
               PROVE  status'[p] = "succeeded"
    BY <1>1 DEF StartsAfterPrereqs, Prereqs
  <2>1. status[p] = "succeeded"
    <3>1. CASE x = t
      BY <3>1, <1>2, <1>3 DEF Prereqs
    <3>2. CASE x # t
      BY <3>2, <1>3 DEF StartsAfterPrereqs, Prereqs
    <3> QED BY <3>1, <3>2
  <2> QED BY <2>1, <1>1, <1>3
<1>8. NoLostWakeup'
  <2> SUFFICES ASSUME NEW x \in Tasks, status'[x] \in {"pending", "blocked"}
               PROVE  \E p \in Tasks : <<p, x>> \in edges /\ status'[p] # "succeeded"
    BY <1>1 DEF NoLostWakeup, Prereqs
  <2>1. PICK p \in Tasks : <<p, x>> \in edges /\ status[p] # "succeeded"
    <3>1. CASE x = t
      BY <3>1, <1>2, <1>3 DEF Prereqs
    <3>2. CASE x # t
      BY <3>2, <1>3 DEF NoLostWakeup, Prereqs
    <3> QED BY <3>1, <3>2
  <2>2. status'[p] # "succeeded"
    BY <2>1, <1>2, <1>3
  <2> QED BY <2>1, <2>2
<1>9. FinishAttributed'
  BY <1>1, <1>2, <1>3 DEF FinishAttributed
<1> QED BY <1>4, <1>5, <1>6, <1>7, <1>8, <1>9

-----------------------------------------------------------------------------
(* The inductive invariant holds of every behaviour of the engine.          *)
THEOREM Inductive == Spec => []IInv
<1>1. Init => IInv
  <2> SUFFICES ASSUME Init
               PROVE  IInv
    OBVIOUS
  <2>1. TypeOK
    BY TaskDagAssumption DEF Init, TypeOK, Statuses, Gens, Known
  <2>2. Acyclic
    BY DEF Init, Acyclic, Prereqs
  <2> QED BY <2>1, <2>2
        DEF Init, IInv, StartsAfterPrereqs, NoLostWakeup, TokensFenced, FinishAttributed
<1>2. IInv /\ [Next]_vars => IInv'
  <2> SUFFICES ASSUME IInv, [Next]_vars
               PROVE  IInv'
    OBVIOUS
  <2>1. ASSUME NEW t \in Tasks, NEW deps \in SUBSET (Tasks \ {t}), CreateTask(t, deps)
        PROVE  IInv'
    BY <2>1, CreatePreserves
  <2>2. ASSUME NEW t \in Tasks, NEW p \in Tasks, AddDependency(p, t)
        PROVE  IInv'
    BY <2>2, AddPreserves
  <2>3. ASSUME NEW t \in Tasks, NEW w \in Workers, AssignTask(t, w)
        PROVE  IInv'
    BY <2>3, AssignPreserves
  <2>4. ASSUME NEW t \in Tasks, CancelTask(t)
        PROVE  IInv'
    BY <2>4, CancelPreserves
  <2>5. ASSUME NEW t \in Tasks, RetryTask(t)
        PROVE  IInv'
    BY <2>5, RetryPreserves
  <2>6. ASSUME NEW tok \in issued, CompleteTask(tok)
        PROVE  IInv'
    BY <2>6, CompletePreserves
  <2>7. ASSUME NEW tok \in issued, FailTask(tok)
        PROVE  IInv'
    BY <2>7, FailPreserves
  <2>8. CASE UNCHANGED vars
    <3>1. /\ status' = status /\ gen' = gen /\ agent' = agent
          /\ edges' = edges /\ issued' = issued /\ closer' = closer
      BY <2>8 DEF vars
    <3>2. TypeOK' /\ FinishAttributed' /\ TokensFenced'
      BY <3>1 DEF IInv, TypeOK, Known, TokensFenced, FinishAttributed
    <3>3. Acyclic' /\ StartsAfterPrereqs' /\ NoLostWakeup'
      BY <3>1 DEF IInv, Acyclic, Prereqs, StartsAfterPrereqs, NoLostWakeup
    <3> QED BY <3>2, <3>3 DEF IInv
  <2> QED BY <2>1, <2>2, <2>3, <2>4, <2>5, <2>6, <2>7, <2>8 DEF Next
<1> QED BY <1>1, <1>2, PTL DEF Spec

(* No task is offered, run or finished before its prerequisites succeeded,  *)
(* for every graph, every number of workers and every interleaving.         *)
THEOREM TasksStartInOrder == Spec => []StartsAfterPrereqs
<1>1. IInv => StartsAfterPrereqs
  BY DEF IInv
<1> QED BY <1>1, Inductive, PTL

(* A minimal unfinished task waits for nobody, so it is not asleep.         *)
THEOREM TasksNeverWedge == Spec => []NeverWedged
<1>1. IInv => NeverWedged
  <2> SUFFICES ASSUME IInv, NEW x \in Known, status[x] # "succeeded"
               PROVE  \E t \in Known : status[t] \in {"ready", "running", "failed", "cancelled"}
    BY DEF NeverWedged
  <2> DEFINE S == {t \in Known : status[t] # "succeeded"}
  <2>1. S \in SUBSET Tasks /\ S # {}
    BY DEF Known
  <2>2. PICK t \in S : Prereqs(t) \cap S = {}
    BY <2>1 DEF IInv, Acyclic
  <2>3. t \in Tasks /\ t \in Known /\ status[t] # "succeeded" /\ status[t] # "absent"
    BY DEF Known
  <2>4. \A p \in Prereqs(t) : p \in Known
    BY DEF Prereqs, IInv, TypeOK
  <2>5. status[t] \notin {"pending", "blocked"}
    BY <2>2, <2>3, <2>4 DEF IInv, NoLostWakeup
  <2>6. status[t] \in Statuses
    BY <2>3 DEF IInv, TypeOK
  <2> QED BY <2>3, <2>5, <2>6 DEF Statuses, Waiting, Terminal, Dead
<1> QED BY <1>1, Inductive, PTL

(* A finished task names the worker whose report finished it.               *)
THEOREM FinishesAreFenced == Spec => []FinishAttributed
<1>1. IInv => FinishAttributed
  BY DEF IInv
<1> QED BY <1>1, Inductive, PTL

-----------------------------------------------------------------------------
(***************************************************************************)
(* The order.  Known is finite, however many ids there are, since a step   *)
(* creates one task at most; so a ready set has a first, each pop is one,  *)
(* and a graph without cycles is popped to its end.                        *)
(***************************************************************************)
LEMMA LeastNatural ==
  ASSUME NEW S \in SUBSET Nat, S # {}
  PROVE  \E n \in S : \A x \in S : n <= x
<1>1. PICK n \in S : \A x \in S : <<x, n>> \notin OpToRel(<, Nat)
  BY NatLessThanWellFounded, WFMin, Zenon
<1>2. ASSUME NEW x \in S, x < n
      PROVE  FALSE
  <2>1. <<x, n>> \in OpToRel(<, Nat)
    BY <1>2 DEF OpToRel
  <2> QED BY <2>1, <1>1
<1> QED BY <1>2

(* Priority and id order any ready set: one of it goes first.               *)
LEMMA FirstIsReady ==
  ASSUME NEW ready \in SUBSET Tasks, IsFiniteSet(ready), ready # {}
  PROVE  First(ready) \in ready
<1> DEFINE HasFirst(T) == \E t \in T : \A u \in T \ {t} : Before(t, u)
           Bad == {T \in SUBSET ready : T # {} /\ ~HasFirst(T)}
           Sizes == {Cardinality(T) : T \in Bad}
<1>1. Bad = {}
  <2> SUFFICES ASSUME Bad # {}
               PROVE  FALSE
    OBVIOUS
  <2>1. Sizes \in SUBSET Nat /\ Sizes # {}
    <3>1. \A T \in Bad : Cardinality(T) \in Nat
      BY FS_Subset, FS_CardinalityType
    <3> HIDE DEF Bad
    <3> QED BY <3>1
  <2>2. PICK n \in Sizes : \A x \in Sizes : n <= x
    <3> HIDE DEF Sizes
    <3> QED BY <2>1, LeastNatural
  <2>3. PICK T \in Bad : Cardinality(T) = n
    BY <2>2
  <2>4. PICK x \in T : TRUE
    BY <2>3
  <2> DEFINE U == T \ {x}
  <2>5. IsFiniteSet(T) /\ Cardinality(T) \in Nat /\ T \subseteq Tasks
    BY <2>3, FS_Subset, FS_CardinalityType
  <2>6. Cardinality(U) = n - 1 /\ n \in Nat /\ U \in SUBSET ready
    BY <2>3, <2>4, <2>5, FS_RemoveElement
  <2>7. U \notin Bad
    <3>1. \A V \in Bad : n <= Cardinality(V)
      BY <2>2
    <3> HIDE DEF Bad, U
    <3> QED BY <2>6, <3>1
  <2>8. U # {}
    <3>1. U = {} => \A u \in T \ {x} : Before(x, u)
      OBVIOUS
    <3> QED BY <2>3, <2>4, <3>1
  <2>9. PICK t \in U : \A u \in U \ {t} : Before(t, u)
    BY <2>6, <2>7, <2>8
  <2>10. Before(t, x) \/ Before(x, t)
    BY <2>4, <2>5, <2>9, TaskDagAssumption DEF Before
  <2>11. CASE Before(t, x)
    BY <2>3, <2>4, <2>9, <2>11
  <2>12. CASE Before(x, t)
    <3>1. ASSUME NEW u \in T \ {x}
          PROVE  Before(x, u)
      <4>1. u = t \/ Before(t, u)
        BY <2>9
      <4>2. {x, t, u} \subseteq Tasks
        BY <2>4, <2>5, <2>9
      <4> QED BY <2>12, <4>1, <4>2, TaskDagAssumption DEF Before
    <3> QED BY <2>3, <2>4, <3>1
  <2> QED BY <2>10, <2>11, <2>12
<1>2. HasFirst(ready)
  BY <1>1
<1> QED BY <1>2 DEF First

(* The recursive definition of the pops defines them.                       *)
LEMMA PoppedDefined ==
  ASSUME Cardinality(Known) \in Nat
  PROVE  \A n \in 0 .. Cardinality(Known) : popped[n] = IF n = 0 THEN <<>> ELSE Pop(popped[n - 1])
<1> DEFINE Sat(f, m) == f = [n \in 0 .. m |-> IF n = 0 THEN <<>> ELSE Pop(f[n - 1])]
           Bad == {m \in Nat : ~ \E f : Sat(f, m)}
<1>1. Bad = {}
  <2> SUFFICES ASSUME Bad # {}
               PROVE  FALSE
    OBVIOUS
  <2>1. PICK m \in Bad : \A x \in Bad : m <= x
    <3>1. Bad \in SUBSET Nat
      OBVIOUS
    <3> HIDE DEF Bad
    <3> QED BY <3>1, LeastNatural
  <2>2. m # 0
    <3> DEFINE f == [n \in 0 .. 0 |-> <<>>]
    <3>1. Sat(f, 0)
      OBVIOUS
    <3> QED BY <2>1, <3>1
  <2>3. m - 1 \in Nat /\ m - 1 \notin Bad
    BY <2>1, <2>2
  <2>4. PICK f : Sat(f, m - 1)
    BY <2>3
  <2> DEFINE g == [n \in 0 .. m |-> IF n = m THEN Pop(f[m - 1]) ELSE f[n]]
  <2>5. ASSUME NEW n \in 0 .. m
        PROVE  g[n] = IF n = 0 THEN <<>> ELSE Pop(g[n - 1])
    <3>1. CASE n = m
      BY <2>2, <2>3, <3>1
    <3>2. CASE n # m
      <4>1. n \in 0 .. (m - 1) /\ g[n] = f[n] /\ (n # 0 => g[n - 1] = f[n - 1])
        BY <2>3, <3>2
      <4>2. f[n] = IF n = 0 THEN <<>> ELSE Pop(f[n - 1])
        BY <2>4, <4>1
      <4> QED BY <4>1, <4>2
    <3> QED BY <3>1, <3>2
  <2>6. Sat(g, m)
    BY <2>5
  <2> QED BY <2>1, <2>6
<1>2. \E f : Sat(f, Cardinality(Known))
  BY <1>1
<1>3. Sat(popped, Cardinality(Known))
  BY <1>2 DEF popped
<1> QED BY <1>3

(* After n pops: n different known tasks, each after its prerequisites.     *)
Ordered(s, n) ==
  /\ s \in [1 .. n -> Known]
  /\ \A i, j \in 1 .. n : s[i] = s[j] => i = j
  /\ \A j \in 1 .. n : \A p \in Prereqs(s[j]) : \E i \in 1 .. n : i < j /\ s[i] = p

(* A pop short of the end finds a task that is ready: of the tasks not yet  *)
(* popped one waits for none of the others.                                 *)
LEMMA PopOrders ==
  ASSUME TypeOK, Acyclic, IsFiniteSet(Known), NEW n \in Nat, n < Cardinality(Known), NEW s, Ordered(s, n)
  PROVE  Ordered(Pop(s), n + 1)
<1> DEFINE done == {s[i] : i \in DOMAIN s}
           ready == Poppable(done)
           g == [i \in 1 .. n + 1 |-> IF i \in DOMAIN s THEN s[i] ELSE First(ready)]
<1>1. /\ s \in [1 .. n -> Known] /\ DOMAIN s = 1 .. n
      /\ \A i, j \in 1 .. n : s[i] = s[j] => i = j
      /\ \A j \in 1 .. n : \A p \in Prereqs(s[j]) : \E i \in 1 .. n : i < j /\ s[i] = p
  BY DEF Ordered
<1>2. Cardinality(DOMAIN s) = n /\ IsFiniteSet(DOMAIN s)
  BY <1>1, FS_Interval
<1>3. Known \ done # {}
  <2> SUFFICES ASSUME Known \subseteq done
               PROVE  FALSE
    OBVIOUS
  <2>1. done = Known
    BY <1>1
  <2>2. s \in Surjection(DOMAIN s, Known)
    BY <1>1, <2>1 DEF Surjection
  <2>3. Cardinality(Known) <= Cardinality(DOMAIN s)
    BY <1>2, <2>2, FS_Surjection
  <2>4. Cardinality(Known) \in Nat
    BY FS_CardinalityType
  <2> QED BY <1>2, <2>3, <2>4
<1>4. PICK t \in Known \ done : Prereqs(t) \cap (Known \ done) = {}
  <2>1. Known \ done \in SUBSET Tasks
    BY DEF Known
  <2> QED BY <1>3, <2>1 DEF Acyclic
<1>5. Prereqs(t) \subseteq Known
  BY DEF Prereqs, TypeOK
<1>6. ready \in SUBSET Known /\ ready # {}
  BY <1>4, <1>5 DEF Poppable
<1>7. IsFiniteSet(ready) /\ ready \in SUBSET Tasks
  BY <1>6, FS_Subset DEF Known
<1>8. First(ready) \in ready
  <2> HIDE DEF ready
  <2> QED BY <1>6, <1>7, FirstIsReady
<1>9. First(ready) \in Known /\ First(ready) \notin done /\ Prereqs(First(ready)) \subseteq done
  BY <1>8 DEF Poppable
<1>10. Pop(s) = g
  BY <1>2, <1>6 DEF Pop
<1>11. \A i \in 1 .. n : g[i] = s[i]
  BY <1>1
<1>12. g[n + 1] = First(ready)
  BY <1>1
<1> HIDE DEF ready
<1>13. g \in [1 .. n + 1 -> Known]
  BY <1>1, <1>9
<1> HIDE DEF g
<1>14. ASSUME NEW i \in 1 .. n + 1, NEW j \in 1 .. n + 1, g[i] = g[j]
       PROVE  i = j
  <2>1. \A k \in 1 .. n : g[k] \in done
    BY <1>1, <1>11
  <2>2. \A k \in 1 .. n + 1 : k \in 1 .. n \/ k = n + 1
    OBVIOUS
  <2>3. g[n + 1] \notin done
    BY <1>9, <1>12
  <2> HIDE DEF done
  <2> QED BY <1>1, <1>11, <1>14, <2>1, <2>2, <2>3
<1>15. ASSUME NEW j \in 1 .. n + 1, NEW p \in Prereqs(g[j])
       PROVE  \E i \in 1 .. n + 1 : i < j /\ g[i] = p
  <2>1. CASE j \in 1 .. n
    <3>1. PICK i \in 1 .. n : i < j /\ s[i] = p
      BY <1>1, <1>11, <1>15, <2>1
    <3> QED BY <1>11, <3>1
  <2>2. CASE j = n + 1
    <3>1. p \in done
      BY <1>9, <1>12, <1>15, <2>2
    <3>2. PICK i \in 1 .. n : s[i] = p
      BY <1>1, <3>1
    <3>3. i \in 1 .. n + 1 /\ i < j /\ g[i] = p
      BY <1>11, <2>2, <3>2
    <3> QED BY <3>3
  <2> QED BY <2>1, <2>2
<1> QED BY <1>10, <1>13, <1>14, <1>15 DEF Ordered

LEMMA PoppedOrdered ==
  ASSUME TypeOK, Acyclic, IsFiniteSet(Known)
  PROVE  Ordered(popped[Cardinality(Known)], Cardinality(Known))
<1> DEFINE N == Cardinality(Known)
           Bad == {n \in 0 .. N : ~Ordered(popped[n], n)}
<1>1. N \in Nat
  BY FS_CardinalityType
<1>2. \A n \in 0 .. N : popped[n] = IF n = 0 THEN <<>> ELSE Pop(popped[n - 1])
  BY <1>1, PoppedDefined
<1> HIDE DEF N
<1>3. Bad = {}
  <2> SUFFICES ASSUME Bad # {}
               PROVE  FALSE
    OBVIOUS
  <2>1. PICK n \in Bad : \A x \in Bad : n <= x
    <3>1. Bad \in SUBSET Nat
      BY <1>1
    <3> HIDE DEF Bad
    <3> QED BY <3>1, LeastNatural
  <2>2. n # 0
    <3>1. popped[0] = <<>>
      BY <1>1, <1>2
    <3>2. Ordered(<<>>, 0)
      BY DEF Ordered
    <3> QED BY <2>1, <3>1, <3>2
  <2>3. n - 1 \in 0 .. N /\ n - 1 \notin Bad /\ n \in 0 .. N
    BY <1>1, <2>1, <2>2
  <2>4. Ordered(popped[n - 1], n - 1)
    BY <2>3
  <2>5. n - 1 \in Nat /\ n - 1 < Cardinality(Known) /\ (n - 1) + 1 = n
    BY <1>1, <2>2, <2>3 DEF N
  <2>6. Ordered(Pop(popped[n - 1]), (n - 1) + 1)
    BY <2>4, <2>5, PopOrders
  <2>7. popped[n] = Pop(popped[n - 1])
    BY <1>2, <2>2, <2>3
  <2> QED BY <2>1, <2>5, <2>6, <2>7
<1>4. N \in 0 .. N
  BY <1>1
<1> QED BY <1>3, <1>4 DEF N

(* A step creates one task at most.                                         *)
LEMMA KnownGrows ==
  ASSUME IInv, [Next]_vars
  PROVE  \E t \in Tasks \cup {0} : Known' \subseteq Known \cup {t}
<1> USE DEF IInv
<1>1. ASSUME NEW t \in Tasks, NEW deps, CreateTask(t, deps)
      PROVE  Known' \subseteq Known \cup {t}
  BY <1>1 DEF CreateTask, Known, TypeOK
<1>2. ASSUME NEW t \in Tasks, NEW p, AddDependency(p, t)
      PROVE  Known' \subseteq Known
  BY <1>2 DEF AddDependency, Known, TypeOK
<1>3. ASSUME NEW t \in Tasks, NEW w, AssignTask(t, w)
      PROVE  Known' \subseteq Known
  BY <1>3 DEF AssignTask, Known, TypeOK
<1>4. ASSUME NEW t \in Tasks, CancelTask(t)
      PROVE  Known' \subseteq Known
  <2>1. edges' = edges /\ status[t] \notin {"absent"} \cup Terminal
        /\ status' = [Blocking(t) EXCEPT ![t] = "cancelled"]
    BY <1>4 DEF CancelTask
  <2> QED BY <2>1, StopPreserves
<1>5. ASSUME NEW t \in Tasks, RetryTask(t)
      PROVE  Known' \subseteq Known
  BY <1>5 DEF RetryTask, Known, TypeOK
<1>6. ASSUME NEW tok \in issued, CompleteTask(tok)
      PROVE  Known' \subseteq Known
  <2>1. /\ tok.task \in Tasks /\ status[tok.task] = "running"
    BY <1>6 DEF CompleteTask, Accepts, TypeOK, Tokens
  <2>2. /\ \A d \in Released(tok.task) : status[d] \in {"pending", "blocked"}
        /\ \A d \in Demoted(tok.task) : status[d] = "pending"
    BY <2>1, DemotedPending DEF Released
  <2>3. status' = [[d \in Tasks |-> IF d \in Released(tok.task) THEN "ready"
                                    ELSE IF d \in Demoted(tok.task) THEN "blocked"
                                    ELSE status[d]] EXCEPT ![tok.task] = "succeeded"]
    BY <1>6 DEF CompleteTask, Close
  <2> QED BY <2>1, <2>2, <2>3 DEF Known
<1>7. ASSUME NEW tok \in issued, FailTask(tok)
      PROVE  Known' \subseteq Known
  <2>1. /\ tok.task \in Tasks /\ status[tok.task] = "running" /\ edges' = edges
        /\ status' = [Blocking(tok.task) EXCEPT ![tok.task] = "failed"]
    BY <1>7 DEF FailTask, Accepts, Close, TypeOK, Tokens
  <2>2. status[tok.task] \notin {"absent"} \cup Terminal
    BY <2>1 DEF Terminal
  <2> QED BY <2>1, <2>2, StopPreserves
<1>8. CASE UNCHANGED vars
  BY <1>8 DEF vars, Known
<1> QED BY <1>1, <1>2, <1>3, <1>4, <1>5, <1>6, <1>7, <1>8 DEF Next

(* topological_sort never fails, orders every task exactly once, and puts   *)
(* each after all its prerequisites, for every graph that the verbs can     *)
(* build and whatever the priorities say (task_dag.rs, topological_sort).   *)
THEOREM SortIsTopological == Spec => []TopologicalOrder
<1>1. Init => IsFiniteSet(Known)
  <2> SUFFICES ASSUME Init
               PROVE  IsFiniteSet(Known)
    OBVIOUS
  <2>1. Known = {}
    BY DEF Init, Known
  <2> QED BY <2>1, FS_EmptySet
<1>2. IInv /\ IsFiniteSet(Known) /\ [Next]_vars => IsFiniteSet(Known)'
  <2> SUFFICES ASSUME IInv, IsFiniteSet(Known), [Next]_vars
               PROVE  IsFiniteSet(Known')
    OBVIOUS
  <2>1. PICK t \in Tasks \cup {0} : Known' \subseteq Known \cup {t}
    BY KnownGrows
  <2>2. IsFiniteSet(Known \cup {t})
    BY FS_AddElement
  <2> QED BY <2>1, <2>2, FS_Subset
<1>3. IInv /\ IsFiniteSet(Known) => TopologicalOrder
  <2> SUFFICES ASSUME IInv, IsFiniteSet(Known)
               PROVE  TopologicalOrder
    OBVIOUS
  <2> DEFINE s == TopologicalSort
             N == Cardinality(Known)
  <2>1. N \in Nat
    BY FS_CardinalityType
  <2>2. Ordered(s, N)
    BY PoppedOrdered DEF TopologicalSort, IInv
  <2> HIDE DEF s, N
  <2>3. /\ s \in [1 .. N -> Known] /\ DOMAIN s = 1 .. N
        /\ \A i, j \in 1 .. N : s[i] = s[j] => i = j
        /\ \A j \in 1 .. N : \A p \in Prereqs(s[j]) : \E i \in 1 .. N : i < j /\ s[i] = p
    BY <2>2 DEF Ordered
  <2>4. Cardinality(DOMAIN s) = N /\ IsFiniteSet(DOMAIN s)
    BY <2>1, <2>3, FS_Interval
  <2>5. s \in Injection(DOMAIN s, Known)
    BY <2>3 DEF Injection, IsInjective
  <2>6. s \in Surjection(DOMAIN s, Known)
    BY <2>4, <2>5, FS_Injection DEF N
  <2>7. {s[i] : i \in DOMAIN s} = Known
    BY <2>3, <2>6 DEF Surjection
  <2>8. ASSUME NEW i \in DOMAIN s, NEW j \in DOMAIN s, <<s[i], s[j]>> \in edges
        PROVE  i < j
    <3>1. s[i] \in Prereqs(s[j])
      BY <2>3, <2>8 DEF Prereqs, Known
    <3>2. PICK k \in 1 .. N : k < j /\ s[k] = s[i]
      BY <2>3, <3>1
    <3> QED BY <2>3, <3>2
  <2> QED BY <2>4, <2>7, <2>8 DEF TopologicalOrder, s, N
<1> QED BY <1>1, <1>2, <1>3, Inductive, PTL DEF Spec
=============================================================================
