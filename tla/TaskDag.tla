------------------------------ MODULE TaskDag ------------------------------
(***************************************************************************)
(* The task engine (slice/task_dag.rs) behind the kernel's task verbs      *)
(* (slice/wheel_kernel.rs): a dependency graph of tasks, their statuses    *)
(* and the generation number that fences the workers of old attempts.      *)
(*                                                                         *)
(* Every verb takes `&mut self` and the connection lock, so each is one    *)
(* step.  What interleaves is the work: a worker keeps the generation      *)
(* `assign_task` handed it and may report with it at any later time,       *)
(* however often the task was cancelled, retried and reassigned meanwhile. *)
(***************************************************************************)
EXTENDS Integers, FiniteSets

CONSTANTS
  Tasks,      \* task ids, ordered as the SQL orders them
  Workers,    \* agent ids
  Priority,   \* each task's priority, fixed when it is created
  MaxDeps,    \* MAX_DEPENDENCIES_PER_TASK
  MaxGen      \* bound: generations of a task

ASSUME TaskDagAssumption ==
  /\ Tasks \subseteq Nat
  /\ Priority \in [Tasks -> Int]
  /\ MaxDeps \in Nat
  /\ MaxGen \in Nat

VARIABLES
  status,   \* tasks.status, "absent" before the row exists
  gen,      \* tasks.generation
  agent,    \* tasks.assigned_agent
  edges,    \* table task_dependencies: <<prerequisite, dependent>>
  issued,   \* observer: the tokens workers hold, [task, gen, worker]
  closer    \* observer: whose report ended the task's last finished attempt

vars == <<status, gen, agent, edges, issued, closer>>

NoAgent == "nobody"
Gens == 0 .. MaxGen
Tokens == [task : Tasks, gen : Gens, worker : Workers]

Terminal == {"succeeded", "failed", "cancelled"}
Dead == {"failed", "cancelled", "blocked"}
Waiting == {"pending", "ready"}
Statuses == {"absent", "running"} \cup Waiting \cup Terminal \cup Dead

Known == {t \in Tasks : status[t] # "absent"}
Prereqs(t) == {p \in Tasks : <<p, t>> \in edges}
Dependents(t) == {d \in Tasks : <<t, d>> \in edges}

\* What a walk along the edges E from the seeds reaches: the least set that
\* holds the seeds and is closed under E.
Closure(seeds, E) ==
  {x \in Tasks : \A S \in SUBSET Tasks :
     (seeds \subseteq S /\ \A e \in E : e[1] \in S => e[2] \in S) => x \in S}

\* The status a task gets from those of its prerequisites.
Evaluate(prereqs) ==
  IF \E p \in prereqs : status[p] \in Dead THEN "blocked"
  ELSE IF \E p \in prereqs : status[p] # "succeeded" THEN "pending"
  ELSE "ready"

(***************************************************************************)
(* create_task: refuses a known id, itself or an unknown task as a         *)
(* prerequisite, and too long a list.                                      *)
(***************************************************************************)
CreateTask(t, deps) ==
  /\ status[t] = "absent"
  /\ deps \subseteq Known
  /\ Cardinality(deps) <= MaxDeps
  /\ status' = [status EXCEPT ![t] = Evaluate(deps)]
  /\ edges' = edges \cup (deps \X {t})
  /\ UNCHANGED <<gen, agent, issued, closer>>

\* Mutant: only a direct edge back is taken for a cycle.
FindPathDirect(from, to) == <<from, to>> \in edges

\* find_path: is `to` reachable from `from`?
FindPath(from, to) == to \in Closure({from}, edges)

(***************************************************************************)
(* add_dependency.  Only a ready dependent is evaluated again, against the *)
(* one new prerequisite; an existing edge is accepted without effect.      *)
(***************************************************************************)
AddDependency(p, t) ==
  /\ p # t /\ {p, t} \subseteq Known
  /\ <<p, t>> \notin edges
  /\ status[t] # "running" /\ status[t] \notin Terminal
  /\ ~ FindPath(t, p)
  /\ edges' = edges \cup {<<p, t>>}
  /\ status' = IF status[t] = "ready"
                 THEN [status EXCEPT ![t] = Evaluate({p})]
                 ELSE status
  /\ UNCHANGED <<gen, agent, issued, closer>>

\* assign_task: the worker is handed the new generation as its token.
AssignTask(t, w) ==
  /\ status[t] = "ready"
  /\ gen[t] < MaxGen
  /\ status' = [status EXCEPT ![t] = "running"]
  /\ gen' = [gen EXCEPT ![t] = @ + 1]
  /\ agent' = [agent EXCEPT ![t] = w]
  /\ issued' = issued \cup {[task |-> t, gen |-> gen[t] + 1, worker |-> w]}
  /\ UNCHANGED <<edges, closer>>

\* Mutant: any token of the task ends its running attempt.
AcceptsAny(tok) == status[tok.task] = "running"

\* The fence complete_task and fail_task share.
Accepts(tok) == /\ status[tok.task] = "running"
                /\ gen[tok.task] = tok.gen

(***************************************************************************)
(* complete_task re-evaluates the direct dependents in id order, reading   *)
(* what it wrote for the earlier ones: a dependent it blocks also blocks a *)
(* later one that depends on it.                                           *)
(***************************************************************************)
\* Mutant: one finished prerequisite is enough.
ReleasedByAny(t) ==
  {d \in Dependents(t) : status[d] \in {"pending", "blocked"}}

\* Mutant: a blocked dependent is not looked at again.
ReleasedPending(t) ==
  {d \in Dependents(t) : /\ status[d] = "pending"
                         /\ \A p \in Prereqs(d) \ {t} : status[p] = "succeeded"}

\* Dependents of t that have no other unfinished prerequisite.
Released(t) ==
  {d \in Dependents(t) : /\ status[d] \in {"pending", "blocked"}
                         /\ \A p \in Prereqs(d) \ {t} : status[p] = "succeeded"}

Demoted(t) ==
  LET pending == {d \in Dependents(t) : status[d] = "pending"}
      hit == {d \in pending : \E p \in Prereqs(d) : status[p] \in Dead}
  IN  Closure(hit, {e \in edges : e[1] \in pending /\ e[2] \in pending /\ e[1] < e[2]})

Close(tok, outcome, s) ==
  /\ status' = [s EXCEPT ![tok.task] = outcome]
  /\ closer' = [closer EXCEPT ![tok.task] = tok.worker]
  /\ UNCHANGED <<gen, agent, edges, issued>>

CompleteTask(tok) ==
  /\ Accepts(tok)
  /\ Close(tok, "succeeded",
           [d \in Tasks |-> IF d \in Released(tok.task) THEN "ready"
                            ELSE IF d \in Demoted(tok.task) THEN "blocked"
                            ELSE status[d]])

(***************************************************************************)
(* cascade_block_downstream: the walk goes on only from tasks it blocks.   *)
(***************************************************************************)
Cascade(t) ==
  LET waiting == {d \in Tasks : status[d] \in Waiting}
  IN  Closure(Dependents(t) \cap waiting, {e \in edges : e[2] \in waiting})

Blocking(t) == [d \in Tasks |-> IF d \in Cascade(t) THEN "blocked" ELSE status[d]]

FailTask(tok) ==
  /\ Accepts(tok)
  /\ Close(tok, "failed", Blocking(tok.task))

\* cancel_task: the bumped generation fences the worker still running it.
CancelTask(t) ==
  /\ status[t] \notin {"absent"} \cup Terminal
  /\ gen[t] < MaxGen
  /\ status' = [Blocking(t) EXCEPT ![t] = "cancelled"]
  /\ gen' = [gen EXCEPT ![t] = @ + 1]
  /\ UNCHANGED <<agent, edges, issued, closer>>

\* retry_task: only the task itself is evaluated again, not its dependents.
RetryTask(t) ==
  /\ status[t] \in {"failed", "cancelled"}
  /\ gen[t] < MaxGen
  /\ status' = [status EXCEPT ![t] = Evaluate(Prereqs(t))]
  /\ gen' = [gen EXCEPT ![t] = @ + 1]
  /\ agent' = [agent EXCEPT ![t] = NoAgent]
  /\ UNCHANGED <<edges, issued, closer>>

Init ==
  /\ status = [t \in Tasks |-> "absent"]
  /\ gen = [t \in Tasks |-> 0]
  /\ agent = [t \in Tasks |-> NoAgent]
  /\ edges = {}
  /\ issued = {}
  /\ closer = [t \in Tasks |-> NoAgent]

Next ==
  \/ \E t \in Tasks : \/ \E deps \in SUBSET (Tasks \ {t}) : CreateTask(t, deps)
                      \/ \E p \in Tasks : AddDependency(p, t)
                      \/ \E w \in Workers : AssignTask(t, w)
                      \/ CancelTask(t)
                      \/ RetryTask(t)
  \/ \E tok \in issued : CompleteTask(tok) \/ FailTask(tok)

Spec == Init /\ [][Next]_vars

-----------------------------------------------------------------------------
(***************************************************************************)
(* topological_sort (Kahn): the order after n pops; a task is in the ready *)
(* set once every prerequisite of it has been popped.                      *)
(***************************************************************************)
Before(a, b) == Priority[a] > Priority[b] \/ (Priority[a] = Priority[b] /\ a < b)

Poppable(done) == {t \in Known \ done : Prereqs(t) \subseteq done}

First(ready) == CHOOSE t \in ready : \A u \in ready \ {t} : Before(t, u)

Pop(prev) ==
  LET ready == Poppable({prev[i] : i \in DOMAIN prev})
  IN  IF ready = {} THEN prev
      ELSE [i \in 1 .. Cardinality(DOMAIN prev) + 1 |->
              IF i \in DOMAIN prev THEN prev[i] ELSE First(ready)]

popped[n \in 0 .. Cardinality(Known)] == IF n = 0 THEN <<>> ELSE Pop(popped[n - 1])

TopologicalSort == popped[Cardinality(Known)]

-----------------------------------------------------------------------------
(* Each variable has its type; edges join known tasks only. *)
TypeOK ==
  /\ status \in [Tasks -> Statuses]
  /\ gen \in [Tasks -> Gens]
  /\ agent \in [Tasks -> Workers \cup {NoAgent}]
  /\ edges \subseteq Known \X Known
  /\ issued \subseteq Tokens
  /\ closer \in [Tasks -> Workers \cup {NoAgent}]

(* The cycle check of add_dependency is enough: no sequence of verbs makes  *)
(* a cycle, that is, every set of tasks has one with no prerequisite in it. *)
Acyclic ==
  \A S \in SUBSET Tasks : S # {} => \E t \in S : Prereqs(t) \cap S = {}

(* topological_sort never fails, orders every task exactly once, and puts   *)
(* each after all its prerequisites, whatever the priorities say.           *)
TopologicalOrder ==
  LET s == TopologicalSort
  IN  /\ {s[i] : i \in DOMAIN s} = Known
      /\ Cardinality(DOMAIN s) = Cardinality(Known)
      /\ \A i, j \in DOMAIN s : <<s[i], s[j]>> \in edges => i < j

(* A task offered to workers, being worked on or finished has every         *)
(* prerequisite succeeded: neither a late edge, a retry nor a partial       *)
(* completion lets a task start early.                                      *)
StartsAfterPrereqs ==
  \A t \in Tasks : status[t] \in {"ready", "running", "succeeded", "failed"} =>
    \A p \in Prereqs(t) : status[p] = "succeeded"

(* No wake-up is lost: a pending or blocked task still waits for somebody.  *)
NoLostWakeup ==
  \A t \in Tasks : status[t] \in {"pending", "blocked"} =>
    \E p \in Prereqs(t) : status[p] # "succeeded"

(* The graph never wedges: while a task is unfinished, some task can be     *)
(* worked on, or failed or was cancelled and can be retried.                *)
NeverWedged ==
  (\E t \in Known : status[t] # "succeeded") =>
    \E t \in Known : status[t] \in {"ready", "running", "failed", "cancelled"}

(* The worker a finished task names is the one whose report finished it:    *)
(* the report of an earlier attempt, fenced by its generation, ends nothing *)
(* that was reassigned.                                                     *)
FinishAttributed ==
  \A t \in Tasks : status[t] \in {"succeeded", "failed"} => closer[t] = agent[t]

=============================================================================
