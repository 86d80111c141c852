-------------------------- MODULE MCResponseEngine --------------------------
(***************************************************************************)
(* Small instances of ResponseEngine: one alert the safety verifier may    *)
(* allow and the fast path may take, and one low-severity alert from the   *)
(* management address.  The rankings hold a blocking action behind a       *)
(* monitoring one, a network block, and a restore.                         *)
(***************************************************************************)
EXTENDS ResponseEngineClaims, TLC

CONSTANTS a1, a2, s1

Symmetric == Permutations(Requests) \cup Permutations(Approvers)

\* What execute() makes of a request of /respond (Executor).
E == INSTANCE Executor
MCBody == [k \in E!Keys |-> IF k \in {"user", "process_name", "block_duration"} THEN "absent" ELSE "text"]
MCSafe == E!FromRequest(MCBody) /\ E!Safe(MCBody)

MCAlert ==
  (a1 :> [severity |-> "high", source |-> s1, mgmt |-> FALSE,
          confident |-> TRUE, safe |-> MCSafe, novel |-> FALSE]) @@
  (a2 :> [severity |-> "medium", source |-> s1, mgmt |-> TRUE,
          confident |-> TRUE, safe |-> MCSafe, novel |-> FALSE])

MCRankings      == {<<2, 10, 13>>, <<13, 0, 2>>, <<33>>}
MCModifications == {{12, 99}}

\* What the language model may say (Playbook): prose, an index that is no
\* action, a text in place of the list, a null, and answers on which the
\* generator or the service fails.
P == INSTANCE Playbook
Said(shape, value, named, actions) ==
  [arrives |-> TRUE, shape |-> shape, value |-> value, named |-> named, actions |-> actions]
MCAnswers ==
  {Said("prose", "object", "list", {10}), Said("embedded", "list", "list", {99}),
   Said("json", "object", "text", {}), Said("fenced", "object", "nothing", {}),
   Said("fenced", "list", "list", {10}), Said("json", "object", "number", {})}
MCLlmPlaybooks  == {P!Named(TRUE, a, 0) : a \in {x \in MCAnswers : ~P!ApproveFails(TRUE, x)}}

\* One alert submitted again and again: one ranking, no choice for the human.
\* Of medium severity, so neither the rate window nor retraining is involved.
MCOneAlert       == [a \in AlertIds |-> [MCAlert[a] EXCEPT !.severity = "medium"]]
MCOneRanking     == {<<2, 0, 3>>}
MCNoModification == {{}}
MCNoPlaybook     == {}
=============================================================================
