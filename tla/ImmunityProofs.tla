---------------------------- MODULE ImmunityProofs ----------------------------
(***************************************************************************)
(* Theorems about Immunity, for all sets of threads, handlers and logs,    *)
(* and every size of the parse cache.  Each part of the invariant has its  *)
(* lemma, with one step for the actions that can disturb it.               *)
(***************************************************************************)
EXTENDS Immunity, FiniteSetTheorems, TLAPS

LEMMA InitIInv == Init => IInv
<1> SUFFICES ASSUME Init PROVE IInv
  OBVIOUS
<1>1. Cardinality(Trainers) \in Nat
  BY FiniteAssumption, FS_CardinalityType
<1>2. cache \in Seq(Logs) /\ Len(cache) = 0 /\ IsInjective(cache)
  BY DEF Init, IsInjective
<1>3. TypeOK
  <2>1. flag \in BOOLEAN
    BY DEF Init
  <2>2. count \in 0..Cardinality(Trainers) /\ Len(cache) <= CacheMax
    BY <1>1, <1>2, CacheAssumption DEF Init
  <2>3. /\ job \in [Trainers -> {"new", "spawned", "ended"} \cup Active]
        /\ read \in [Trainers -> Nat] /\ trained \subseteq Trainers
        /\ handler \in [Handlers -> {"idle", "parsing", "waiting", "scoring"}]
        /\ asked \in [Handlers -> Logs \cup {NoLog}]
        /\ lock = Nobody /\ loop = Nobody /\ mode = "eval"
    BY DEF Init
  <2> QED BY <1>2, <2>1, <2>2, <2>3 DEF TypeOK
<1>4. Cardinality({}) = 0 /\ {} \in SUBSET Added
  BY FS_EmptySet
<1>5. Counts(count) /\ Added = {}
  BY <1>4 DEF Init, Counts, Added
<1>6. CountIsKept
  BY <1>5 DEF Init, CountIsKept, Untrained
<1>7. LockIsHeld /\ LogIsKnown /\ FlagIsReset
  BY DEF Init, LockIsHeld, LogIsKnown, FlagIsReset
<1> QED BY <1>3, <1>6, <1>7 DEF IInv

-----------------------------------------------------------------------------
\* Storing a log keeps the cache within its limit and without repetitions.
LEMMA CachedFits ==
  ASSUME TypeOK, NEW log \in Logs
  PROVE  LET c == Cached(log)
         IN c \in Seq(Logs) /\ Len(c) <= CacheMax /\ IsInjective(c)
<1> DEFINE kept == IF Len(cache) >= CacheMax THEN Tail(cache) ELSE cache
<1>1. cache \in Seq(Logs) /\ Len(cache) <= CacheMax /\ IsInjective(cache)
  BY DEF TypeOK
<1>2. kept \in Seq(Logs) /\ Len(kept) < CacheMax /\ IsInjective(kept)
  <2>1. CASE Len(cache) >= CacheMax
    <3>1. Len(cache) >= 1 /\ cache # <<>>
      BY <1>1, <2>1, CacheAssumption
    <3>2. /\ Tail(cache) \in Seq(Logs) /\ Len(Tail(cache)) = Len(cache) - 1
          /\ \A i \in 1..(Len(cache) - 1) : Tail(cache)[i] = cache[i + 1]
      BY <1>1, <3>1
    <3>3. ASSUME NEW i \in DOMAIN Tail(cache), NEW j \in DOMAIN Tail(cache),
                 Tail(cache)[i] = Tail(cache)[j]
          PROVE  i = j
      <4>1. i \in 1..(Len(cache) - 1) /\ j \in 1..(Len(cache) - 1)
        BY <3>2
      <4>2. cache[i + 1] = cache[j + 1] /\ i + 1 \in DOMAIN cache /\ j + 1 \in DOMAIN cache
        BY <1>1, <3>2, <3>3, <4>1
      <4>3. i + 1 = j + 1
        BY <1>1, <4>2 DEF IsInjective
      <4> QED BY <4>1, <4>3
    <3>4. IsInjective(Tail(cache))
      BY <3>3 DEF IsInjective
    <3> QED BY <1>1, <2>1, <3>2, <3>4, CacheAssumption
  <2>2. CASE ~(Len(cache) >= CacheMax)
    BY <1>1, <2>2, CacheAssumption
  <2> QED BY <2>1, <2>2
<1> HIDE DEF kept
<1>3. CASE Contains(kept, log)
  BY <1>2, <1>3, CacheAssumption DEF Cached, kept
<1>4. CASE ~Contains(kept, log)
  <2> DEFINE c == Append(kept, log)
  <2>1. /\ c \in Seq(Logs) /\ Len(c) = Len(kept) + 1 /\ c[Len(kept) + 1] = log
        /\ \A i \in 1..Len(kept) : c[i] = kept[i]
    BY <1>2
  <2>2. \A i \in 1..Len(kept) : kept[i] # log
    BY <1>4 DEF Contains
  <2>3. ASSUME NEW i \in DOMAIN c, NEW j \in DOMAIN c, c[i] = c[j] PROVE i = j
    <3>1. i \in 1..(Len(kept) + 1) /\ j \in 1..(Len(kept) + 1) /\ Len(kept) \in Nat
      BY <2>1, <1>2
    <3>2. CASE i \in 1..Len(kept) /\ j \in 1..Len(kept)
      <4>1. kept[i] = kept[j] /\ i \in DOMAIN kept /\ j \in DOMAIN kept
        BY <1>2, <2>1, <2>3, <3>2
      <4> QED BY <1>2, <4>1 DEF IsInjective
    <3>3. CASE ~(i \in 1..Len(kept) /\ j \in 1..Len(kept))
      BY <2>1, <2>2, <2>3, <3>1, <3>3
    <3> QED BY <3>2, <3>3
  <2>4. IsInjective(c)
    BY <2>3 DEF IsInjective
  <2>5. Cached(log) = c
    BY <1>4 DEF Cached, kept
  <2>6. Len(c) <= CacheMax
    BY <1>2, <2>1, CacheAssumption
  <2> QED BY <2>1, <2>4, <2>5, <2>6
<1> QED BY <1>3, <1>4

\* A set of added trainings is a set of trainers, so its size is a number.
LEMMA CountsAreNumbers ==
  ASSUME TypeOK, NEW n, Counts(n)
  PROVE  n \in 0..Cardinality(Trainers)
<1>1. PICK T \in SUBSET Added : Cardinality(T) = n
  BY DEF Counts
<1>2. T \subseteq Trainers
  BY DEF Added, TypeOK
<1>3. Cardinality(T) \in Nat /\ Cardinality(T) <= Cardinality(Trainers)
  BY <1>2, FiniteAssumption, FS_Subset, FS_CardinalityType
<1>4. Cardinality(Trainers) \in Nat
  BY FiniteAssumption, FS_CardinalityType
<1> QED BY <1>1, <1>3, <1>4

\* One more training added is one more to count.
LEMMA AddedCounts ==
  ASSUME TypeOK, NEW t \in Trainers, NEW n, Counts(n), t \notin Added,
         Added' = Added \cup {t}
  PROVE  (\E T \in SUBSET Added' : Cardinality(T) = n + 1)
<1>1. PICK T \in SUBSET Added : Cardinality(T) = n
  BY DEF Counts
<1>2. T \subseteq Trainers /\ t \notin T
  BY <1>1 DEF Added, TypeOK
<1>3. IsFiniteSet(T)
  BY <1>2, FiniteAssumption, FS_Subset
<1>4. Cardinality(T \cup {t}) = n + 1
  BY <1>1, <1>2, <1>3, FS_AddElement
<1>5. T \cup {t} \in SUBSET Added'
  BY <1>1
<1> QED BY <1>4, <1>5

-----------------------------------------------------------------------------
\* What the handlers' steps leave alone.
LEMMA HandlersKeepThreads ==
  ASSUME IInv, UNCHANGED <<flag, trainerVars>>
  PROVE  FlagIsReset' /\ CountIsKept'
<1>1. UNCHANGED <<flag, job, read, count, trained>>
  BY DEF trainerVars
<1>2. FlagIsReset'
  BY <1>1 DEF IInv, FlagIsReset
<1>3. Added' = Added
  BY <1>1 DEF Added
<1> QED BY <1>1, <1>2, <1>3 DEF IInv, CountIsKept, Counts, Untrained

\* A handler that goes on keeps what is true of the others.
LEMMA HandlerMoves ==
  ASSUME IInv, NEW h \in Handlers, NEW next \in {"idle", "parsing", "waiting", "scoring"},
         handler' = [handler EXCEPT ![h] = next], UNCHANGED <<flag, trainerVars>>,
         cache' \in Seq(Logs), Len(cache') <= CacheMax, IsInjective(cache'),
         loop' \in Handlers \cup {Nobody}, mode' \in {"eval", "train"},
         lock' \in Trainers \cup Handlers \cup {Nobody},
         asked' \in [Handlers -> Logs \cup {NoLog}]
  PROVE  TypeOK'
<1>1. UNCHANGED <<flag, job, read, count, trained>>
  BY DEF trainerVars
<1>2. handler' \in [Handlers -> {"idle", "parsing", "waiting", "scoring"}]
  BY DEF IInv, TypeOK
<1> QED BY <1>1, <1>2 DEF IInv, TypeOK

\* A thread that goes on keeps what is true of the handlers.
LEMMA ThreadMoves ==
  ASSUME IInv, NEW t \in Trainers,
         NEW next \in {"spawned", "ended"} \cup Active,
         job' = [job EXCEPT ![t] = next], UNCHANGED handlerVars,
         flag' \in BOOLEAN, read' \in [Trainers -> Nat], CountIsKept', trained' \subseteq Trainers,
         lock' \in Trainers \cup Handlers \cup {Nobody}, mode' \in {"eval", "train"}
  PROVE  TypeOK' /\ LogIsKnown'
<1>1. UNCHANGED <<handler, asked, loop, cache>>
  BY DEF handlerVars
<1>2. job' \in [Trainers -> {"new", "spawned", "ended"} \cup Active]
  BY DEF IInv, TypeOK
<1>3. count' \in 0..Cardinality(Trainers)
  <2>1. PICK T \in SUBSET Added' : Cardinality(T) = count'
    BY DEF CountIsKept, Counts
  <2>2. T \subseteq Trainers
    BY <2>1 DEF Added
  <2>3. Cardinality(T) \in Nat /\ Cardinality(T) <= Cardinality(Trainers)
    BY <2>2, FiniteAssumption, FS_Subset, FS_CardinalityType
  <2>4. Cardinality(Trainers) \in Nat
    BY FiniteAssumption, FS_CardinalityType
  <2> QED BY <2>1, <2>3, <2>4
<1>4. LogIsKnown'
  BY <1>1 DEF IInv, LogIsKnown
<1> QED BY <1>1, <1>2, <1>3, <1>4 DEF IInv, TypeOK

\* A thread whose training did not come to its end, and one that ends, change
\* no count.
LEMMA CountsAside ==
  ASSUME IInv, NEW t \in Trainers, NEW next, job' = [job EXCEPT ![t] = next],
         UNCHANGED <<read, count, trained>>,
         \/ job[t] \in Untrained /\ next \in Untrained \cup {"ending"}
         \/ job[t] = "ending" /\ next = "ended"
  PROVE  CountIsKept'
<1>1. job \in [Trainers -> {"new", "spawned", "ended"} \cup Active]
  BY DEF IInv, TypeOK
<1>2. /\ \A u \in Trainers : /\ job[u] \in Untrained => u \notin trained
                             /\ job[u] \in {"counting", "adding"} => u \in trained
                             /\ job[u] = "adding" => Counts(read[u])
      /\ Counts(count)
      /\ Added # {} => count > 0
  BY DEF IInv, CountIsKept
<1>d. \A u \in Trainers : /\ job[u] \in Untrained => u \notin trained
                          /\ job[u] \in {"counting", "adding"} => u \in trained
  BY <1>2
<1>3. /\ job'[t] = next
      /\ \A u \in Trainers : u # t => job'[u] = job[u]
  BY <1>1
<1>a. trained' = trained /\ read' = read /\ count' = count
  OBVIOUS
<1>b. \/ t \notin trained /\ job'[t] \in Untrained \cup {"ending"}
      \/ job[t] = "ending" /\ job'[t] = "ended"
  BY <1>d, <1>3
<1>c. \A u \in trained : u \in Trainers
  BY DEF IInv, TypeOK
<1>4. Added' = Added
  <2>1. ASSUME NEW u \in trained
        PROVE  job'[u] \in {"ending", "ended"} <=> job[u] \in {"ending", "ended"}
    <3>1. CASE u = t BY <1>b, <3>1
    <3>2. CASE u # t BY <1>3, <1>c, <3>2
    <3> QED BY <3>1, <3>2
  <2> QED BY <1>a, <2>1 DEF Added
<1>5. \A n : Counts(n)' <=> Counts(n)
  BY <1>4 DEF Counts
<1>6. ASSUME NEW u \in Trainers
      PROVE  /\ job'[u] \in Untrained => u \notin trained'
             /\ job'[u] \in {"counting", "adding"} => u \in trained'
             /\ job'[u] = "adding" => job[u] = "adding"
  <2>1. CASE u = t
    BY <1>a, <1>b, <2>1 DEF Untrained
  <2>2. CASE u # t
    <3>1. job'[u] = job[u] BY <1>3, <2>2
    <3> QED BY <1>d, <1>a, <3>1
  <2> QED BY <2>1, <2>2
<1>7. \A u \in Trainers : job'[u] = "adding" => Counts(read[u])'
  BY <1>2, <1>5, <1>6
<1> QED BY <1>2, <1>4, <1>5, <1>6, <1>7 DEF CountIsKept, Untrained

-----------------------------------------------------------------------------
\* A handler's step keeps the invariant.
LEMMA HandlerStep ==
  ASSUME IInv, NEW h \in Handlers,
         Ask(h) \/ ParserEnds(h) \/ Score(h) \/ Answer(h)
  PROVE  IInv'
<1>1. /\ TypeOK /\ LockIsHeld /\ LogIsKnown
      /\ handler \in [Handlers -> {"idle", "parsing", "waiting", "scoring"}]
      /\ job \in [Trainers -> {"new", "spawned", "ended"} \cup Active]
      /\ asked \in [Handlers -> Logs \cup {NoLog}]
      /\ loop \in Handlers \cup {Nobody} /\ mode \in {"eval", "train"}
      /\ lock \in Trainers \cup Handlers \cup {Nobody}
      /\ cache \in Seq(Logs) /\ Len(cache) <= CacheMax /\ IsInjective(cache)
  BY DEF IInv, TypeOK
<1>2. ASSUME NEW log \in Logs, AskAtOnce(h, log) PROVE IInv'
  <2>1. cache' \in Seq(Logs) /\ Len(cache') <= CacheMax /\ IsInjective(cache')
    BY <1>1, <1>2, CachedFits DEF AskAtOnce
  <2>2. TypeOK'
    BY <1>1, <1>2, <2>1, HandlerMoves DEF AskAtOnce, Predict
  <2>3. LockIsHeld' /\ LogIsKnown'
    BY <1>1, <1>2 DEF AskAtOnce, Predict, LockIsHeld, LogIsKnown, trainerVars
  <2> QED BY <1>2, <2>2, <2>3, HandlersKeepThreads DEF AskAtOnce, IInv
<1>3. ASSUME NEW log \in Logs, AskParser(h, log) PROVE IInv'
  <2>1. asked' \in [Handlers -> Logs \cup {NoLog}]
    BY <1>1, <1>3 DEF AskParser
  <2>2. TypeOK'
    BY <1>1, <1>3, <2>1, HandlerMoves DEF AskParser
  <2>3. LockIsHeld' /\ LogIsKnown'
    BY <1>1, <1>3 DEF AskParser, LockIsHeld, LogIsKnown, trainerVars
  <2> QED BY <1>3, <2>2, <2>3, HandlersKeepThreads DEF AskParser, IInv
<1>4. CASE Parsed(h)
  <2>1. asked[h] \in Logs
    BY <1>1, <1>4 DEF Parsed, LogIsKnown
  <2>2. cache' \in Seq(Logs) /\ Len(cache') <= CacheMax /\ IsInjective(cache')
    BY <1>1, <1>4, <2>1, CachedFits DEF Parsed
  <2>3. asked' \in [Handlers -> Logs \cup {NoLog}]
    BY <1>1, <1>4 DEF Parsed
  <2>4. TypeOK'
    BY <1>1, <1>4, <2>2, <2>3, HandlerMoves DEF Parsed, Predict
  <2>5. LockIsHeld' /\ LogIsKnown'
    BY <1>1, <1>4 DEF Parsed, Predict, LockIsHeld, LogIsKnown, trainerVars
  <2> QED BY <1>4, <2>4, <2>5, HandlersKeepThreads DEF Parsed, IInv
<1>5. CASE ParseFails(h)
  <2>1. asked' \in [Handlers -> Logs \cup {NoLog}]
    BY <1>1, <1>5 DEF ParseFails
  <2>2. TypeOK'
    BY <1>1, <1>5, <2>1, HandlerMoves DEF ParseFails
  <2>3. LockIsHeld' /\ LogIsKnown'
    BY <1>1, <1>5 DEF ParseFails, LockIsHeld, LogIsKnown, trainerVars
  <2> QED BY <1>5, <2>2, <2>3, HandlersKeepThreads DEF ParseFails, IInv
<1>6. CASE Score(h)
  <2>1. TypeOK'
    BY <1>1, <1>6, HandlerMoves DEF Score
  <2>2. \A g \in Handlers : handler[g] # "scoring"
    BY <1>1, <1>6, NobodyAssumption DEF Score, LockIsHeld
  <2>3. \A t \in Trainers : job[t] # "training"
    BY <1>1, <1>6, NobodyAssumption DEF Score, LockIsHeld
  <2>4. LockIsHeld' /\ LogIsKnown'
    BY <1>1, <1>6, <2>2, <2>3 DEF Score, LockIsHeld, LogIsKnown, trainerVars
  <2> QED BY <1>6, <2>1, <2>4, HandlersKeepThreads DEF Score, IInv
<1>7. CASE Answer(h)
  <2>1. TypeOK'
    BY <1>1, <1>7, HandlerMoves DEF Answer
  <2>2. \A g \in Handlers : handler[g] = "scoring" => g = h
    BY <1>1, <1>7 DEF Answer, LockIsHeld
  <2>3. \A t \in Trainers : job[t] # "training"
    BY <1>1, <1>7, NobodyAssumption DEF Answer, LockIsHeld
  <2>4. LockIsHeld' /\ LogIsKnown'
    BY <1>1, <1>7, <2>2, <2>3 DEF Answer, LockIsHeld, LogIsKnown, trainerVars
  <2> QED BY <1>7, <2>1, <2>4, HandlersKeepThreads DEF Answer, IInv
<1> QED BY <1>2, <1>3, <1>4, <1>5, <1>6, <1>7 DEF Ask, ParserEnds

-----------------------------------------------------------------------------
\* A thread's step keeps the invariant.
LEMMA ThreadStep ==
  ASSUME IInv, NEW t \in Trainers, Retrain(t) \/ Thread(t)
  PROVE  IInv'
<1>1. /\ TypeOK /\ LockIsHeld /\ FlagIsReset
      /\ job \in [Trainers -> {"new", "spawned", "ended"} \cup Active]
      /\ read \in [Trainers -> Nat] /\ trained \subseteq Trainers /\ flag \in BOOLEAN
      /\ lock \in Trainers \cup Handlers \cup {Nobody} /\ mode \in {"eval", "train"}
  BY DEF IInv, TypeOK
<1>2. \A h \in Handlers : h # t /\ h # Nobody
  BY NobodyAssumption
<1>3. CASE Retrain(t)
  <2>1. CountIsKept'
    BY <1>3, CountsAside DEF Retrain, Untrained
  <2>2. TypeOK' /\ LogIsKnown'
    BY <1>1, <1>3, <2>1, ThreadMoves DEF Retrain
  <2>3. LockIsHeld' /\ FlagIsReset'
    BY <1>1, <1>3 DEF Retrain, LockIsHeld, FlagIsReset, handlerVars
  <2> QED BY <2>1, <2>2, <2>3 DEF IInv
<1>4. CASE Begin(t)
  <2>1. CountIsKept'
    BY <1>4, CountsAside DEF Begin, Untrained
  <2>2. TypeOK' /\ LogIsKnown'
    BY <1>1, <1>4, <2>1, ThreadMoves DEF Begin, Active
  <2>3. LockIsHeld' /\ FlagIsReset'
    BY <1>1, <1>4 DEF Begin, LockIsHeld, FlagIsReset, handlerVars, Active
  <2> QED BY <2>1, <2>2, <2>3 DEF IInv
<1>5. CASE LoadFails(t)
  <2>1. CountIsKept'
    BY <1>5, CountsAside DEF LoadFails, Untrained
  <2>2. TypeOK' /\ LogIsKnown'
    BY <1>1, <1>5, <2>1, ThreadMoves DEF LoadFails, Active
  <2>3. LockIsHeld' /\ FlagIsReset'
    BY <1>1, <1>5 DEF LoadFails, LockIsHeld, FlagIsReset, handlerVars, Active
  <2> QED BY <2>1, <2>2, <2>3 DEF IInv
<1>6. CASE Train(t)
  <2>1. CountIsKept'
    BY <1>6, CountsAside DEF Train, Untrained
  <2>2. TypeOK' /\ LogIsKnown'
    BY <1>1, <1>6, <2>1, ThreadMoves DEF Train, Active
  <2>3. /\ \A h \in Handlers : handler[h] # "scoring"
        /\ \A u \in Trainers : job[u] # "training"
    BY <1>1, <1>6, NobodyAssumption DEF Train, LockIsHeld
  <2>4. LockIsHeld' /\ FlagIsReset'
    BY <1>1, <1>6, <2>3 DEF Train, LockIsHeld, FlagIsReset, handlerVars, Active
  <2> QED BY <2>1, <2>2, <2>4 DEF IInv
<1>7. CASE TrainFails(t)
  <2>1. CountIsKept'
    BY <1>7, CountsAside DEF TrainFails, Untrained
  <2>2. TypeOK' /\ LogIsKnown'
    BY <1>1, <1>7, <2>1, ThreadMoves DEF TrainFails, Active
  <2>3. lock = t /\ \A u \in Trainers : job[u] = "training" => u = t
    BY <1>1, <1>7 DEF TrainFails, LockIsHeld
  <2>4. \A h \in Handlers : handler[h] # "scoring"
    BY <1>1, <1>2, <2>3 DEF LockIsHeld
  <2>5. LockIsHeld' /\ FlagIsReset'
    BY <1>1, <1>7, <2>3, <2>4 DEF TrainFails, LockIsHeld, FlagIsReset, handlerVars, Active
  <2> QED BY <2>1, <2>2, <2>5 DEF IInv
<1>8. CASE Trained(t)
  <2>1. /\ \A u \in Trainers : /\ job[u] \in Untrained => u \notin trained
                               /\ job[u] \in {"counting", "adding"} => u \in trained
                               /\ job[u] = "adding" => Counts(read[u])
        /\ Counts(count) /\ (Added # {} => count > 0)
    BY DEF IInv, CountIsKept
  <2>2. /\ job'[t] = "counting" /\ trained' = trained \cup {t} /\ read' = read /\ count' = count
        /\ \A u \in Trainers : u # t => job'[u] = job[u]
    BY <1>1, <1>8 DEF Trained
  <2>3. Added' = Added
    <3>1. t \notin Added
      BY <1>8 DEF Trained, Added
    <3>2. t \notin Added'
      BY <2>2 DEF Added
    <3>3. ASSUME NEW u, u # t PROVE u \in Added' <=> u \in Added
      BY <1>1, <2>2, <3>3 DEF Added
    <3> QED BY <3>1, <3>2, <3>3
  <2>4. \A n : Counts(n)' <=> Counts(n)
    BY <2>3 DEF Counts
  <2>5. ASSUME NEW u \in Trainers
        PROVE  /\ job'[u] \in Untrained => u \notin trained'
               /\ job'[u] \in {"counting", "adding"} => u \in trained'
               /\ job'[u] = "adding" => Counts(read[u])'
    <3>1. CASE u = t BY <2>2, <3>1 DEF Untrained
    <3>2. CASE u # t BY <2>1, <2>2, <2>4, <3>2
    <3> QED BY <3>1, <3>2
  <2>6. CountIsKept'
    BY <2>1, <2>2, <2>3, <2>4, <2>5 DEF CountIsKept, Untrained
  <2>7. TypeOK' /\ LogIsKnown'
    BY <1>1, <1>8, <2>6, ThreadMoves DEF Trained, Active
  <2>8. lock = t /\ \A u \in Trainers : job[u] = "training" => u = t
    BY <1>1, <1>8 DEF Trained, LockIsHeld
  <2>9. \A h \in Handlers : handler[h] # "scoring"
    BY <1>1, <1>2, <2>8 DEF LockIsHeld
  <2>10. LockIsHeld' /\ FlagIsReset'
    BY <1>1, <1>8, <2>8, <2>9 DEF Trained, LockIsHeld, FlagIsReset, handlerVars, Active
  <2> QED BY <2>6, <2>7, <2>10 DEF IInv
<1>9. CASE ReadCount(t)
  <2>1. /\ \A u \in Trainers : /\ job[u] \in Untrained => u \notin trained
                               /\ job[u] \in {"counting", "adding"} => u \in trained
                               /\ job[u] = "adding" => Counts(read[u])
        /\ Counts(count) /\ (Added # {} => count > 0)
    BY DEF IInv, CountIsKept
  <2>2. /\ job[t] = "counting" /\ job'[t] = "adding" /\ trained' = trained /\ count' = count
        /\ read'[t] = count
        /\ \A u \in Trainers : u # t => job'[u] = job[u] /\ read'[u] = read[u]
    BY <1>1, <1>9 DEF ReadCount
  <2>3. Added' = Added
    BY <1>1, <2>2 DEF Added
  <2>4. \A n : Counts(n)' <=> Counts(n)
    BY <2>3 DEF Counts
  <2>5. ASSUME NEW u \in Trainers
        PROVE  /\ job'[u] \in Untrained => u \notin trained'
               /\ job'[u] \in {"counting", "adding"} => u \in trained'
               /\ job'[u] = "adding" => Counts(read[u])'
    <3>1. CASE u = t BY <2>1, <2>2, <2>4, <3>1 DEF Untrained
    <3>2. CASE u # t BY <2>1, <2>2, <2>4, <3>2
    <3> QED BY <3>1, <3>2
  <2>6. CountIsKept'
    BY <2>1, <2>2, <2>3, <2>4, <2>5 DEF CountIsKept, Untrained
  <2>7. count \in Nat
    BY <1>1, <2>1, CountsAreNumbers
  <2>8. read' \in [Trainers -> Nat]
    BY <1>1, <1>9, <2>7 DEF ReadCount
  <2>9. TypeOK' /\ LogIsKnown'
    BY <1>1, <1>9, <2>6, <2>8, ThreadMoves DEF ReadCount, Active
  <2>10. LockIsHeld' /\ FlagIsReset'
    BY <1>1, <1>9 DEF ReadCount, LockIsHeld, FlagIsReset, handlerVars, Active
  <2> QED BY <2>6, <2>9, <2>10 DEF IInv
<1>10. CASE AddCount(t)
  <2>1. /\ \A u \in Trainers : /\ job[u] \in Untrained => u \notin trained
                               /\ job[u] \in {"counting", "adding"} => u \in trained
                               /\ job[u] = "adding" => Counts(read[u])
        /\ Counts(count)
    BY DEF IInv, CountIsKept
  <2>2. /\ job[t] = "adding" /\ job'[t] = "ending" /\ trained' = trained /\ read' = read
        /\ count' = read[t] + 1
        /\ \A u \in Trainers : u # t => job'[u] = job[u]
    BY <1>1, <1>10 DEF AddCount
  <2>3. t \in trained /\ t \notin Added /\ Counts(read[t])
    BY <2>1, <2>2 DEF Added
  <2>4. Added' = Added \cup {t}
    <3>1. ASSUME NEW u, u # t PROVE u \in Added' <=> u \in Added
      BY <1>1, <2>2, <3>1 DEF Added
    <3>2. t \in Added'
      BY <2>2, <2>3 DEF Added
    <3> QED BY <3>1, <3>2
  <2>5. Counts(count)'
    BY <1>1, <2>2, <2>3, <2>4, AddedCounts DEF Counts
  <2>6. \A n : Counts(n) => Counts(n)'
    BY <2>4 DEF Counts
  <2>7. ASSUME NEW u \in Trainers
        PROVE  /\ job'[u] \in Untrained => u \notin trained'
               /\ job'[u] \in {"counting", "adding"} => u \in trained'
               /\ job'[u] = "adding" => Counts(read[u])'
    <3>1. CASE u = t BY <2>2, <3>1 DEF Untrained
    <3>2. CASE u # t BY <2>1, <2>2, <2>6, <3>2
    <3> QED BY <3>1, <3>2
  <2>8. count' > 0
    <3>1. read[t] \in Nat BY <1>1
    <3> QED BY <2>2, <3>1
  <2>9. CountIsKept'
    BY <2>5, <2>7, <2>8 DEF CountIsKept, Untrained
  <2>10. TypeOK' /\ LogIsKnown'
    BY <1>1, <1>10, <2>9, ThreadMoves DEF AddCount, Active
  <2>11. LockIsHeld' /\ FlagIsReset'
    BY <1>1, <1>10 DEF AddCount, LockIsHeld, FlagIsReset, handlerVars, Active
  <2> QED BY <2>9, <2>10, <2>11 DEF IInv
<1>11. CASE Finish(t)
  <2>1. CountIsKept'
    BY <1>11, CountsAside DEF Finish
  <2>2. TypeOK' /\ LogIsKnown'
    BY <1>1, <1>11, <2>1, ThreadMoves DEF Finish
  <2>3. LockIsHeld' /\ FlagIsReset'
    BY <1>1, <1>11 DEF Finish, LockIsHeld, FlagIsReset, handlerVars
  <2> QED BY <2>1, <2>2, <2>3 DEF IInv
<1> QED BY <1>3, <1>4, <1>5, <1>6, <1>7, <1>8, <1>9, <1>10, <1>11 DEF Thread

LEMMA StepIInv == IInv /\ [Next]_vars => IInv'
<1> SUFFICES ASSUME IInv, [Next]_vars PROVE IInv'
  OBVIOUS
<1>1. ASSUME NEW h \in Handlers, Ask(h) \/ ParserEnds(h) \/ Score(h) \/ Answer(h)
      PROVE  IInv'
  BY <1>1, HandlerStep
<1>2. ASSUME NEW t \in Trainers, Retrain(t) \/ Thread(t) PROVE IInv'
  BY <1>2, ThreadStep
<1>3. CASE UNCHANGED vars
  BY <1>3 DEF vars, trainerVars, handlerVars, IInv, TypeOK, LockIsHeld, LogIsKnown, FlagIsReset,
     CountIsKept, Counts, Added, Untrained
<1> QED BY <1>1, <1>2, <1>3 DEF Next

-----------------------------------------------------------------------------
(***************************************************************************)
(* The service's invariant holds however many threads and handlers there   *)
(* are: types, the limit of the parse cache, and the three below.          *)
(***************************************************************************)
THEOREM InductiveInvariant == Spec => []IInv
<1> QED BY InitIInv, StepIInv, PTL DEF Spec

(***************************************************************************)
(* No prediction is computed in training mode or on weights that move,     *)
(* whatever trainings overlap or fail (predict_one, retrain_background).   *)
(***************************************************************************)
THEOREM PredictionsAreClean == Spec => []ScoresAreClean
<1>1. IInv => ScoresAreClean
  <2> SUFFICES ASSUME IInv, NEW h \in Handlers, handler[h] = "scoring"
               PROVE  mode = "eval" /\ \A t \in Trainers : job[t] # "training"
    BY DEF ScoresAreClean
  <2>1. lock = h /\ mode = "eval"
    BY DEF IInv, LockIsHeld
  <2>2. \A t \in Trainers : t # h
    BY NobodyAssumption
  <2> QED BY <2>1, <2>2 DEF IInv, LockIsHeld
<1> QED BY <1>1, InductiveInvariant, PTL

(***************************************************************************)
(* is_retraining is never left set when no thread is left to clear it, so  *)
(* /retrain does not refuse for good (the finally of retrain_background).  *)
(***************************************************************************)
THEOREM FlagNeverSticks == Spec => []FlagIsReset
<1>1. IInv => FlagIsReset
  BY DEF IInv
<1> QED BY <1>1, InductiveInvariant, PTL

(***************************************************************************)
(* The unlocked increments lose trainings but never invent one, and never  *)
(* lose all of them (retrain_count += 1 in retrain_background).            *)
(***************************************************************************)
THEOREM CountNeverExceeds == Spec => []CountIsBounded
<1>1. IInv => CountIsBounded
  <2> SUFFICES ASSUME IInv PROVE CountIsBounded
    OBVIOUS
  <2>1. PICK T \in SUBSET Added : Cardinality(T) = count
    BY DEF IInv, CountIsKept, Counts
  <2>2. T \in SUBSET trained
    BY DEF Added
  <2>3. ASSUME NEW t \in trained, job[t] = "ended" PROVE count > 0
    <3>1. t \in Added
      BY <2>3 DEF Added
    <3> QED BY <3>1 DEF IInv, CountIsKept
  <2> QED BY <2>1, <2>2, <2>3 DEF CountIsBounded
<1> QED BY <1>1, InductiveInvariant, PTL
=============================================================================
