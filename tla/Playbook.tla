------------------------------- MODULE Playbook -------------------------------
(***************************************************************************)
(* PlaybookGenerator.generate of Layer 3 (playbook_generator.py), as far   *)
(* as the service acts on it: whether it raises, and the actions that the  *)
(* report names to /approve.                                               *)
(***************************************************************************)
EXTENDS Integers

\* What the language model says.  Its text is JSON as it is, JSON in fences,
\* an object among other words, or prose; the value of the JSON is an object
\* or something else; and the object's executable_actions are missing or null,
\* a list, a list with an element that cannot be a key, a number but 0, or a
\* text.
Answers ==
  [arrives : BOOLEAN, shape : {"json", "fenced", "embedded", "prose"},
   value : {"object", "list", "scalar"},
   named : {"nothing", "list", "nested", "number", "text"}, actions : SUBSET Int]

\* No action of the registry has this index.
NoAction == -1

\* _probe_ollama is asked once, when the service starts: a model that was away
\* then is never called, and one that goes away later fails each call.
\* _call_ollama_with_timeout gives None for a timeout as for an error.
UsesTemplate(available, answer) == ~available \/ ~answer.arrives

\* _parse_response: what looks for an object among words finds nothing else,
\* and what finds nothing is an empty object.
ParsedValue(answer) ==
  IF answer.shape \in {"json", "fenced"} THEN answer.value ELSE "object"
ParsedNamed(answer) == IF answer.shape = "prose" THEN "nothing" ELSE answer.named

\* generate raises on a value that has no get().
Raises(available, answer) ==
  ~UsesTemplate(available, answer) /\ ParsedValue(answer) # "object"

\* /approve, after generate: what is named is iterated over and looked up.
Unusable(available, answer) ==
  /\ ~UsesTemplate(available, answer)
  /\ ParsedNamed(answer) \in {"nested", "number"}

ApproveFails(available, answer) ==
  Raises(available, answer) \/ Unusable(available, answer)

\* The actions a report names, for the model of the service; _fallback_report
\* names the primary action, and a text is no list of actions but not empty.
Named(available, answer, primary) ==
  IF UsesTemplate(available, answer) THEN {primary}
  ELSE IF ParsedNamed(answer) = "list" THEN answer.actions
  ELSE IF ParsedNamed(answer) = "text" THEN {NoAction} ELSE {}
=============================================================================
