------------------------------ MODULE Immunity ------------------------------
(***************************************************************************)
(* The Layer 4 server (layer4_immunity/server.py): a classifier that one   *)
(* event loop serves and that background threads retrain.                  *)
(*                                                                         *)
(* Handlers run on the event loop and leave it only while they await the   *)
(* LLM that parses a raw log.  predict_one takes the model's lock with a   *)
(* blocking call, so a handler that waits for the lock keeps the whole     *)
(* loop: `loop' says which one.  A retraining thread runs freely; the      *)
(* is_retraining flag is read by /retrain and written by the threads, the  *)
(* counter is a read and a write.                                          *)
(*                                                                         *)
(* Definitions marked "Seeded fault" are the next definition with a        *)
(* plausible bug; nothing uses them.                                       *)
(***************************************************************************)
EXTENDS Integers, SequencesExt

CONSTANTS Trainers,  \* the retraining threads that may ever be started
          Handlers,  \* the prediction requests that may be active at once
          Logs,      \* raw logs, or the samples of /predict
          Easy,      \* the logs that need no LLM (fast_precheck, /predict)
          Nobody,    \* neither a trainer nor a handler
          NoLog,
          CacheMax   \* _LLM_CACHE_MAX

ASSUME EasyAssumption   == Easy \subseteq Logs
ASSUME NobodyAssumption == Nobody \notin Trainers \cup Handlers /\ Trainers \cap Handlers = {}
ASSUME CacheAssumption  == CacheMax \in Nat \ {0}
ASSUME FiniteAssumption == IsFiniteSet(Trainers)

VARIABLES
  flag,     \* is_retraining
  job,      \* where a retraining thread is
  read,     \* the retrain_count a thread has read for its increment
  count,    \* retrain_count
  trained,  \* the threads whose training came to its end
  lock,     \* who holds the model's lock
  mode,     \* the mode of the model's layers: dropout and batch norm in "train"
  handler,  \* where a prediction request is
  asked,    \* the raw log a handler is to parse
  loop,     \* the handler that blocks the event loop
  cache     \* the keys of _llm_parse_cache, oldest first

vars == <<flag, job, read, count, trained, lock, mode, handler, asked, loop, cache>>
trainerVars == <<job, read, count, trained>>
handlerVars == <<handler, asked, loop, cache>>

\* The thread has entered its try block, whose finally clears the flag.
Active == {"loading", "training", "counting", "adding", "ending"}

\* Every variable keeps its type, and the parse cache its limit, although two
\* handlers may have missed it for the same log (parse_log_for_features).
TypeOK ==
  /\ flag \in BOOLEAN
  /\ job \in [Trainers -> {"new", "spawned", "ended"} \cup Active]
  /\ read \in [Trainers -> Nat]
  /\ count \in 0..Cardinality(Trainers)
  /\ trained \subseteq Trainers
  /\ lock \in Trainers \cup Handlers \cup {Nobody}
  /\ mode \in {"eval", "train"}
  /\ handler \in [Handlers -> {"idle", "parsing", "waiting", "scoring"}]
  /\ asked \in [Handlers -> Logs \cup {NoLog}]
  /\ loop \in Handlers \cup {Nobody}
  /\ cache \in Seq(Logs) /\ Len(cache) <= CacheMax /\ IsInjective(cache)

Init ==
  /\ flag = FALSE
  /\ job = [t \in Trainers |-> "new"]
  /\ read = [t \in Trainers |-> 0]
  /\ count = 0
  /\ trained = {}
  /\ lock = Nobody
  /\ mode = "eval"
  /\ handler = [h \in Handlers |-> "idle"]
  /\ asked = [h \in Handlers |-> NoLog]
  /\ loop = Nobody
  /\ cache = <<>>
-----------------------------------------------------------------------------
\* Seeded fault: the oldest entry goes only when the cache is over its limit.
CachedLate(log) ==
  LET kept == IF Len(cache) > CacheMax THEN Tail(cache) ELSE cache
  IN IF Contains(kept, log) THEN kept ELSE Append(kept, log)

(***************************************************************************)
(* Storing a parse result in a dict that keeps insertion order: a full     *)
(* cache drops its oldest entry first, also when the key is in it.         *)
(***************************************************************************)
Cached(log) ==
  LET kept == IF Len(cache) >= CacheMax THEN Tail(cache) ELSE cache
  IN IF Contains(kept, log) THEN kept ELSE Append(kept, log)

\* The handler goes on to predict_one, and the loop with it.
Predict(h) == handler' = [handler EXCEPT ![h] = "waiting"] /\ loop' = h

\* POST /predict, or /predict_raw for a log that the cache or the precheck answers.
AskAtOnce(h, log) ==
  /\ loop = Nobody /\ handler[h] = "idle"
  /\ Contains(cache, log) \/ log \in Easy
  /\ cache' \in {cache, IF Contains(cache, log) THEN cache ELSE Cached(log)}
  /\ Predict(h)
  /\ UNCHANGED <<flag, trainerVars, lock, mode, asked>>

\* POST /predict_raw for a log the LLM has to parse.
AskParser(h, log) ==
  /\ loop = Nobody /\ handler[h] = "idle"
  /\ log \notin Easy
  /\ handler' = [handler EXCEPT ![h] = "parsing"]
  /\ asked' = [asked EXCEPT ![h] = log]
  /\ UNCHANGED <<flag, trainerVars, lock, mode, loop, cache>>

\* The LLM's answer is cached, unless the caller said use_cache=false.
Parsed(h) ==
  /\ loop = Nobody /\ handler[h] = "parsing"
  /\ cache' \in {cache, Cached(asked[h])}
  /\ asked' = [asked EXCEPT ![h] = NoLog]
  /\ Predict(h)
  /\ UNCHANGED <<flag, trainerVars, lock, mode>>

\* The LLM fails or times out: HTTP 500, and nothing is cached.
ParseFails(h) ==
  /\ loop = Nobody /\ handler[h] = "parsing"
  /\ handler' = [handler EXCEPT ![h] = "idle"]
  /\ asked' = [asked EXCEPT ![h] = NoLog]
  /\ UNCHANGED <<flag, trainerVars, lock, mode, loop, cache>>

\* Seeded fault: the model is taken as the last training left it.
ScoreAsIs(h) ==
  /\ handler[h] = "waiting" /\ lock = Nobody
  /\ lock' = h
  /\ handler' = [handler EXCEPT ![h] = "scoring"]
  /\ UNCHANGED <<flag, trainerVars, mode, asked, loop, cache>>

Score(h) ==
  /\ handler[h] = "waiting" /\ lock = Nobody
  /\ lock' = h
  /\ mode' = "eval"
  /\ handler' = [handler EXCEPT ![h] = "scoring"]
  /\ UNCHANGED <<flag, trainerVars, asked, loop, cache>>

Answer(h) ==
  /\ handler[h] = "scoring"
  /\ lock' = Nobody
  /\ loop' = Nobody
  /\ handler' = [handler EXCEPT ![h] = "idle"]
  /\ UNCHANGED <<flag, trainerVars, mode, asked, cache>>
-----------------------------------------------------------------------------
(***************************************************************************)
(* POST /retrain.  The flag is checked on the loop and set by the thread,  *)
(* so several threads may be started before the first one sets it.         *)
(***************************************************************************)
Retrain(t) ==
  /\ loop = Nobody /\ ~flag
  /\ job[t] = "new"
  /\ job' = [job EXCEPT ![t] = "spawned"]
  /\ UNCHANGED <<flag, read, count, trained, lock, mode, handlerVars>>

Begin(t) ==
  /\ job[t] = "spawned"
  /\ flag' = TRUE
  /\ job' = [job EXCEPT ![t] = "loading"]
  /\ UNCHANGED <<read, count, trained, lock, mode, handlerVars>>

\* The rehearsal data cannot be read or does not fit the new samples.
LoadFails(t) ==
  /\ job[t] = "loading"
  /\ job' = [job EXCEPT ![t] = "ending"]
  /\ UNCHANGED <<flag, read, count, trained, lock, mode, handlerVars>>

\* Seeded fault: the layers are switched to training before the lock is taken.
TrainUnlocked(t) ==
  /\ job[t] = "loading"
  /\ mode' = "train"
  /\ job' = [job EXCEPT ![t] = "training"]
  /\ lock' = IF lock = Nobody THEN t ELSE lock
  /\ UNCHANGED <<flag, read, count, trained, handlerVars>>

Train(t) ==
  /\ job[t] = "loading" /\ lock = Nobody
  /\ lock' = t
  /\ mode' = "train"
  /\ job' = [job EXCEPT ![t] = "training"]
  /\ UNCHANGED <<flag, read, count, trained, handlerVars>>

\* Seeded fault: the lock is released by hand, after the epochs.
TrainFailsHolding(t) ==
  /\ job[t] = "training"
  /\ job' = [job EXCEPT ![t] = "ending"]
  /\ UNCHANGED <<flag, read, count, trained, lock, mode, handlerVars>>

\* An epoch raises (a label that is no class): the layers stay in training mode.
TrainFails(t) ==
  /\ job[t] = "training"
  /\ lock' = Nobody
  /\ job' = [job EXCEPT ![t] = "ending"]
  /\ UNCHANGED <<flag, read, count, trained, mode, handlerVars>>

Trained(t) ==
  /\ job[t] = "training"
  /\ lock' = Nobody
  /\ mode' = "eval"
  /\ trained' = trained \cup {t}
  /\ job' = [job EXCEPT ![t] = "counting"]
  /\ UNCHANGED <<flag, read, count, handlerVars>>

\* self.retrain_count += 1, outside the lock: a read and a write.
ReadCount(t) ==
  /\ job[t] = "counting"
  /\ read' = [read EXCEPT ![t] = count]
  /\ job' = [job EXCEPT ![t] = "adding"]
  /\ UNCHANGED <<flag, count, trained, lock, mode, handlerVars>>

\* Seeded fault: an increment for every sample of the training.
AddTwice(t) ==
  /\ job[t] = "adding"
  /\ count' = read[t] + 2
  /\ job' = [job EXCEPT ![t] = "ending"]
  /\ UNCHANGED <<flag, read, trained, lock, mode, handlerVars>>

AddCount(t) ==
  /\ job[t] = "adding"
  /\ count' = read[t] + 1
  /\ job' = [job EXCEPT ![t] = "ending"]
  /\ UNCHANGED <<flag, read, trained, lock, mode, handlerVars>>

\* Seeded fault: the flag is cleared after a training only, not in a finally.
FinishTrained(t) ==
  /\ job[t] = "ending"
  /\ flag' = (flag /\ t \notin trained)
  /\ job' = [job EXCEPT ![t] = "ended"]
  /\ UNCHANGED <<read, count, trained, lock, mode, handlerVars>>

\* The finally clause.
Finish(t) ==
  /\ job[t] = "ending"
  /\ flag' = FALSE
  /\ job' = [job EXCEPT ![t] = "ended"]
  /\ UNCHANGED <<read, count, trained, lock, mode, handlerVars>>
-----------------------------------------------------------------------------
Ask(h)         == \E log \in Logs : AskAtOnce(h, log) \/ AskParser(h, log)
ParserEnds(h)  == Parsed(h) \/ ParseFails(h)
Thread(t)      == \/ Begin(t) \/ LoadFails(t) \/ Train(t) \/ TrainFails(t) \/ Trained(t)
                  \/ ReadCount(t) \/ AddCount(t) \/ Finish(t)

Next == \/ \E h \in Handlers : Ask(h) \/ ParserEnds(h) \/ Score(h) \/ Answer(h)
        \/ \E t \in Trainers : Retrain(t) \/ Thread(t)

Spec == Init /\ [][Next]_vars

(***************************************************************************)
(* The operating system runs every thread and a training ends.  An LLM     *)
(* call ends by its 30 s timeout, and the loop's ready queue is first in,  *)
(* first out, so its handler is resumed although others keep coming:       *)
(* strong fairness.  So is the lock for a training thread, which a stream  *)
(* of predictions takes and frees again and again.  Nobody is obliged to   *)
(* call /retrain or /predict.                                              *)
(***************************************************************************)
FairSpec == /\ Spec
            /\ \A h \in Handlers : SF_vars(ParserEnds(h)) /\ WF_vars(Score(h)) /\ WF_vars(Answer(h))
            /\ \A t \in Trainers : WF_vars(Thread(t)) /\ SF_vars(Train(t))
-----------------------------------------------------------------------------
(***************************************************************************)
(* A prediction is computed with the layers in evaluation mode and while   *)
(* no training moves the weights, also after a training that failed half   *)
(* way, and with several trainings under way.                              *)
(***************************************************************************)
ScoresAreClean ==
  \A h \in Handlers : handler[h] = "scoring" =>
    mode = "eval" /\ \A t \in Trainers : job[t] # "training"

(***************************************************************************)
(* The flag never outlives the trainings: once no thread is active a new   *)
(* one is accepted, however the earlier ones ended.                        *)
(***************************************************************************)
FlagIsReset == flag => \E t \in Trainers : job[t] \in Active

(***************************************************************************)
(* retrain_count may lose increments, but never counts a training that did *)
(* not come to its end, and does not miss all of them.                     *)
(***************************************************************************)
CountIsBounded ==
  /\ \E T \in SUBSET trained : Cardinality(T) = count
  /\ (\E t \in trained : job[t] = "ended") => count > 0

(***************************************************************************)
(* What makes the three inductive.  The lock is held by whoever scores or  *)
(* trains; a parsing handler knows its log; a thread's training has come   *)
(* to its end exactly from "counting" on, unless it failed, and every      *)
(* count anybody has read is that of trainings already added.              *)
(***************************************************************************)
LockIsHeld ==
  /\ \A h \in Handlers : handler[h] = "scoring" => lock = h /\ mode = "eval"
  /\ \A t \in Trainers : job[t] = "training" => lock = t

LogIsKnown == \A h \in Handlers : handler[h] = "parsing" => asked[h] \in Logs

Untrained == {"new", "spawned", "loading", "training"}
Added     == {t \in trained : job[t] \in {"ending", "ended"}}
Counts(n) == \E T \in SUBSET Added : Cardinality(T) = n

CountIsKept ==
  /\ \A t \in Trainers : /\ job[t] \in Untrained => t \notin trained
                         /\ job[t] \in {"counting", "adding"} => t \in trained
                         /\ job[t] = "adding" => Counts(read[t])
  /\ Counts(count)
  /\ Added # {} => count > 0

\* The inductive invariant: no prediction is computed on a model in training,
\* and flag and counter are true to the threads (predict_one, retrain_background).
IInv == TypeOK /\ LockIsHeld /\ LogIsKnown /\ FlagIsReset /\ CountIsKept

\* A caller of /predict gets an answer although trainings hold the lock.
PredictionsAnswered == \A h \in Handlers : handler[h] # "idle" ~> handler[h] = "idle"

\* The service does not refuse trainings forever.
TrainingAcceptedAgain == flag ~> ~flag

(***************************************************************************)
(* "Does NOT block predictions while running", says retrain_background.    *)
(***************************************************************************)
PredictionsNotBlocked == loop # Nobody => lock \notin Trainers
=============================================================================
