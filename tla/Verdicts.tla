------------------------------ MODULE Verdicts ------------------------------
(***************************************************************************)
(* Ordered checks with early returns, the shape of every gate in the code: *)
(* a sequence of pairs <<fails, refusal>>, the first failing one deciding. *)
(***************************************************************************)
EXTENDS Integers, Sequences, FiniteSetsExt

Failing(checks) == {i \in DOMAIN checks : checks[i][1]}

Verdict(checks) ==
    IF Failing(checks) = {} THEN "ok" ELSE checks[Min(Failing(checks))][2]
=============================================================================
