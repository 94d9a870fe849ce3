---------------------------- MODULE RemoteCache ----------------------------
(***************************************************************************)
(* Measurements through the shared cache of a query's plans: DBExecutor.   *)
(* execute_and_measure (mcts/modules/db_executor.py) over RemotePlanCache  *)
(* (mcts/modules/remote_plan_cache.py) and the statements of               *)
(* RemoteCacheManager (remote_cache_manager.py) on {db}_cache.query_cache. *)
(*                                                                         *)
(* Several processes measure the same query: each probes the baseline      *)
(* (optimizer/llm_optimizer.py) and then searches under limits taken from  *)
(* it (mcts/search.py).  Each statement is atomic, nothing holds a         *)
(* transaction across two.  A plan takes the same time whenever it is      *)
(* executed, times are whole.  Plan texts are left out.                    *)
(***************************************************************************)
EXTENDS Integers, Sequences, FiniteSets, SequencesExt

CONSTANTS
    Measurer,        \* processes that measure the query
    HintSet,         \* sets of hints they measure it under
    DefaultHints,    \* the empty one, of the baseline
    CachePlan,       \* the plan of each
    PlanTime,        \* how long each plan executes
    NoPlan,          \* a digest that could not be computed
    CacheTimeout,    \* remote_cache_timeout_seconds
    Capped,          \* measurers with cap_cache_timeout_by_baseline
    Amplifier,       \* timeout_amplifier
    MaxMeasurements, \* bound: measurements of a process
    MaxCacheFaults   \* bound: failed statements

ASSUME CacheAssumption ==
    /\ IsFiniteSet(Measurer)
    /\ DefaultHints \in HintSet
    /\ PlanTime \in [{CachePlan[h] : h \in HintSet} -> Nat \ {0}]
    /\ NoPlan \notin DOMAIN PlanTime
    /\ {CacheTimeout, Amplifier} \subseteq Nat \ {0}
    /\ Capped \subseteq Measurer
    /\ {MaxMeasurements, MaxCacheFaults} \subseteq Nat

VARIABLES
    cacheRows,   \* query_cache, a sequence of rows by id
    doing,       \* where each measurer is
    measured,    \* measurements it made
    searching,   \* has its search begun?
    cap,         \* _cache_timeout_seconds of its RemotePlanCache
    limit,       \* the reporting timeout it passes
    asked,       \* the hints of its request
    digest,      \* the plan of its request
    seen,        \* the row get_by_digest returned
    hintsRead,   \* id and hint sets update_hints_by_digest read
    rerun,       \* force_update: its store replaces the row
    outcome,     \* what its execution returned
    answer,      \* the last DBExecutionResult
    met,         \* were two measurers ever inside a measurement?
    cacheFaults

limits == <<searching, cap, limit>>

cacheVars == <<cacheRows, doing, measured, searching, cap, limit, asked, digest, seen,
               hintsRead, rerun, outcome, answer, met, cacheFaults>>

NoRow == [plan |-> NoPlan, elapsed |-> 0, isTimeout |-> FALSE, cap |-> 0,
          hints |-> {}, created |-> 0]
NoAnswer == [status |-> "none", elapsed |-> 0]
NoHints == [id |-> 0, hints |-> {}]

CacheInit ==
    /\ cacheRows = <<>>
    /\ doing = [w \in Measurer |-> "idle"]
    /\ measured = [w \in Measurer |-> 0]
    /\ searching = [w \in Measurer |-> FALSE]
    /\ cap = [w \in Measurer |-> CacheTimeout]
    /\ limit = [w \in Measurer |-> CacheTimeout]
    /\ asked = [w \in Measurer |-> DefaultHints]
    /\ digest = [w \in Measurer |-> NoPlan]
    /\ seen = [w \in Measurer |-> NoRow]
    /\ hintsRead = [w \in Measurer |-> NoHints]
    /\ rerun = [w \in Measurer |-> FALSE]
    /\ outcome = [w \in Measurer |-> NoAnswer]
    /\ answer = [w \in Measurer |-> NoAnswer]
    /\ met = FALSE
    /\ cacheFaults = 0

Goto(w, place) == doing' = [doing EXCEPT ![w] = place]

CacheFault == cacheFaults < MaxCacheFaults /\ cacheFaults' = cacheFaults + 1

\* What the caller is told of an execution time or a timeout, under its own
\* reporting timeout.
Reported(w, t) ==
    IF t >= limit[w] THEN [status |-> "timeout", elapsed |-> limit[w]]
                         ELSE [status |-> "ok", elapsed |-> t]

TimedOut(w) == [status |-> "timeout", elapsed |-> limit[w]]

-----------------------------------------------------------------------------
\* execute_and_measure: EXPLAIN, and make_key's digest of the query.  Where
\* either fails the measurement goes on without the cache.  The baseline comes
\* first; without a time of it there is no search.
BeginMeasure(w, h) ==
    /\ doing[w] = "idle"
    /\ measured[w] < MaxMeasurements
    /\ searching[w] \/ (measured[w] = 0 /\ h = DefaultHints)
    /\ measured' = [measured EXCEPT ![w] = @ + 1]
    /\ asked' = [asked EXCEPT ![w] = h]
    /\ digest' = [digest EXCEPT ![w] = CachePlan[h]]
    /\ met' = (met \/ \E v \in Measurer \ {w} : doing[v] # "idle")
    /\ \/ Goto(w, "lookup") /\ UNCHANGED cacheFaults
       \/ Goto(w, "plain") /\ CacheFault
    /\ rerun' = [rerun EXCEPT ![w] = FALSE]
    /\ answer' = [answer EXCEPT ![w] = NoAnswer]
    /\ UNCHANGED <<cacheRows, limits, seen, hintsRead, outcome>>

\* MCTSSearch.__init__: the reporting timeout follows the baseline, whose time
\* may be that of a timeout, and so does the cache's cap (cap_timeout), if it is
\* to.  The timeout's 0.01 is one: it lies just above a multiple.
StartSearch(w) ==
    /\ doing[w] = "idle"
    /\ ~searching[w]
    /\ answer[w].status \in {"ok", "timeout"}
    /\ searching' = [searching EXCEPT ![w] = TRUE]
    /\ limit' = [limit EXCEPT ![w] = answer[w].elapsed * Amplifier + 1]
    /\ cap' = [cap EXCEPT ![w] = IF w \in Capped /\ answer[w].elapsed < @
                                   THEN answer[w].elapsed ELSE @]
    /\ answer' = [answer EXCEPT ![w] = NoAnswer]
    /\ UNCHANGED <<cacheRows, doing, measured, asked, digest, seen, hintsRead, rerun,
                   outcome, met, cacheFaults>>

RowsOf(p) == {i \in DOMAIN cacheRows : cacheRows[i].plan = p}

\* Mutant: a row is found only under hints that led to it.
FoundForHints(w) == {i \in RowsOf(digest[w]) : asked[w] \in cacheRows[i].hints}

\* The rows its SELECT finds.
Found(w) == RowsOf(digest[w])

\* get_by_digest: a latest row of the plan, a miss if there is none or the
\* statement fails.
GetByDigest(w) ==
    /\ doing[w] = "lookup"
    /\ \/ /\ Found(w) = {}
          /\ Goto(w, "execute")
          /\ UNCHANGED <<seen, cacheFaults>>
       \/ \E i \in Found(w) :
          /\ \A j \in Found(w) : cacheRows[j].created <= cacheRows[i].created
          /\ seen' = [seen EXCEPT ![w] = cacheRows[i]]
          /\ Goto(w, "readHints")
          /\ UNCHANGED cacheFaults
       \/ CacheFault /\ Goto(w, "execute") /\ UNCHANGED seen
    /\ UNCHANGED <<cacheRows, measured, limits, asked, digest, hintsRead, rerun, outcome,
                   answer, met>>

\* update_hints_by_digest, its SELECT: some row of the plan.
ReadHints(w) ==
    /\ doing[w] = "readHints"
    /\ \/ /\ UNCHANGED cacheFaults
          /\ \E i \in RowsOf(digest[w]) :
                IF asked[w] \in cacheRows[i].hints
                  THEN Goto(w, "decide") /\ UNCHANGED hintsRead
                  ELSE /\ hintsRead' = [hintsRead EXCEPT ![w] =
                                          [id |-> i, hints |-> cacheRows[i].hints]]
                       /\ Goto(w, "writeHints")
       \/ CacheFault /\ Goto(w, "decide") /\ UNCHANGED hintsRead
    /\ UNCHANGED <<cacheRows, measured, limits, asked, digest, seen, rerun, outcome, answer, met>>

\* Its UPDATE writes the list as it was read, with the new set.
WriteHints(w) ==
    /\ doing[w] = "writeHints"
    /\ Goto(w, "decide")
    /\ \/ /\ cacheRows' = [cacheRows EXCEPT ![hintsRead[w].id].hints =
                             hintsRead[w].hints \cup {asked[w]}]
          /\ UNCHANGED cacheFaults
       \/ CacheFault /\ UNCHANGED cacheRows
    /\ hintsRead' = [hintsRead EXCEPT ![w] = NoHints]
    /\ UNCHANGED <<measured, limits, asked, digest, seen, rerun, outcome, answer, met>>

Answer(w, a) ==
    /\ answer' = [answer EXCEPT ![w] = a]
    /\ Goto(w, "idle")

\* A cached timeout under a shorter cap says too little: execute again.
NeverTooShort(row, w) == FALSE
TooShort(row, w) == row.isTimeout /\ row.cap < cap[w]

\* RemotePlanCache.lookup, the decision.
Decide(w) ==
    /\ doing[w] = "decide"
    /\ LET row == seen[w]
       IN  IF TooShort(row, w)
             THEN /\ rerun' = [rerun EXCEPT ![w] = TRUE]
                  /\ Goto(w, "execute")
                  /\ UNCHANGED answer
             ELSE /\ Answer(w, IF row.isTimeout
                               THEN [status |-> "timeout",
                                     elapsed |-> IF row.cap < limit[w] THEN row.cap
                                                 ELSE limit[w]]
                               ELSE Reported(w, row.elapsed))
                  /\ UNCHANGED rerun
    /\ seen' = [seen EXCEPT ![w] = NoRow]
    /\ UNCHANGED <<cacheRows, measured, limits, asked, digest, hintsRead, outcome, met, cacheFaults>>

\* _execute_plain: the reporting timeout is the cap.
ExecutePlain(w) ==
    /\ doing[w] = "plain"
    /\ \/ Answer(w, Reported(w, PlanTime[digest[w]])) /\ UNCHANGED cacheFaults
       \/ CacheFault /\ Answer(w, [status |-> "error", elapsed |-> 0])
    /\ UNCHANGED <<cacheRows, measured, limits, asked, digest, seen, hintsRead, rerun, outcome, met>>

\* _run_explain_analyze under the cache's cap: at the cap it times out, or
\* partial rows come back with a time that reaches the cap.
Execute(w) ==
    /\ doing[w] = "execute"
    /\ LET t == PlanTime[digest[w]]
       IN  \/ /\ outcome' = [outcome EXCEPT ![w] =
                    IF t < cap[w] THEN [status |-> "ok", elapsed |-> t]
                                  ELSE [status |-> "timeout", elapsed |-> cap[w]]]
              /\ Goto(w, "store")
              /\ UNCHANGED <<answer, cacheFaults>>
           \/ /\ t >= cap[w]
              /\ outcome' = [outcome EXCEPT ![w] = [status |-> "ok", elapsed |-> cap[w]]]
              /\ Goto(w, "store")
              /\ UNCHANGED <<answer, cacheFaults>>
           \/ /\ CacheFault
              /\ Answer(w, [status |-> "error", elapsed |-> 0])
              /\ UNCHANGED outcome
    /\ UNCHANGED <<cacheRows, measured, limits, asked, digest, seen, hintsRead, rerun, met>>

\* The columns store() writes; partial rows at the cap count as a timeout.
Result(w) ==
    [elapsed |-> outcome[w].elapsed, cap |-> cap[w],
     isTimeout |-> outcome[w].status = "timeout" \/ outcome[w].elapsed >= cap[w]]

\* RemoteCacheManager.set; created_at has the resolution of a second.
InsertRow(w, r) ==
    \E created \in {Len(cacheRows), Len(cacheRows) + 1} :
        cacheRows' = Append(cacheRows,
            [plan |-> digest[w], elapsed |-> r.elapsed, isTimeout |-> r.isTimeout,
             cap |-> r.cap, hints |-> {asked[w]}, created |-> created])

\* update_result_by_digest: every row of the plan; the hints stay.
UpdateRows(w, r) ==
    cacheRows' = [i \in DOMAIN cacheRows |->
                    IF cacheRows[i].plan = digest[w]
                      THEN [cacheRows[i] EXCEPT !.elapsed = r.elapsed,
                                !.cap = r.cap, !.isTimeout = r.isTimeout]
                      ELSE cacheRows[i]]

SaveAsNew(w) == InsertRow(w, Result(w))

\* RemotePlanCache.store.
Save(w) == IF rerun[w] THEN UpdateRows(w, Result(w)) ELSE InsertRow(w, Result(w))

\* store() and the answer.
Store(w) ==
    /\ doing[w] = "store"
    /\ \/ /\ Save(w)
          /\ UNCHANGED cacheFaults
       \/ CacheFault /\ UNCHANGED cacheRows
    /\ Answer(w, IF outcome[w].status = "timeout" THEN TimedOut(w)
                 ELSE Reported(w, outcome[w].elapsed))
    /\ outcome' = [outcome EXCEPT ![w] = NoAnswer]
    /\ UNCHANGED <<measured, limits, asked, digest, seen, hintsRead, rerun, met>>

CacheNext ==
    \E w \in Measurer :
        \/ \E h \in HintSet : BeginMeasure(w, h)
        \/ StartSearch(w)
        \/ GetByDigest(w) \/ ReadHints(w) \/ WriteHints(w) \/ Decide(w)
        \/ ExecutePlain(w) \/ Execute(w) \/ Store(w)

CacheSpec == CacheInit /\ [][CacheNext]_cacheVars

-----------------------------------------------------------------------------
CacheTypeOK ==
    /\ \A i \in DOMAIN cacheRows : cacheRows[i].plan \in DOMAIN PlanTime
    /\ doing \in [Measurer -> {"idle", "lookup", "readHints", "writeHints", "decide",
                               "plain", "execute", "store"}]
    /\ measured \in [Measurer -> 0 .. MaxMeasurements]
    /\ \A w \in Measurer : cap[w] \in 1 .. CacheTimeout /\ limit[w] > 0
    /\ \A w \in Measurer : doing[w] = "writeHints" => hintsRead[w].id \in DOMAIN cacheRows
    /\ cacheFaults \in 0 .. MaxCacheFaults

\* Whoever wrote it, in whatever order inserts, updates of several rows and
\* reruns under other caps came, a row tells the truth of its plan: its time,
\* or that it takes at least timeout_time (RemotePlanCache.store).
RowsTrue ==
    \A i \in DOMAIN cacheRows :
        LET row == cacheRows[i]
        IN  IF row.isTimeout THEN PlanTime[row.plan] >= row.cap
                             ELSE PlanTime[row.plan] = row.elapsed

\* A caller is told the time of its plan, its cap if the plan was cut off
\* there, or a timeout, only if the plan takes at least its own timeout or cap,
\* although the row it was served may stem from a caller with other ones
\* (RemotePlanCache.lookup, rules 1 to 4).
AnswersSound ==
    \A w \in Measurer :
        LET t == PlanTime[digest[w]]
        IN  /\ answer[w].status = "ok" =>
                   /\ answer[w].elapsed < limit[w]
                   /\ answer[w].elapsed = t \/ (answer[w].elapsed = cap[w] /\ cap[w] <= t)
            /\ answer[w].status = "timeout" => t >= cap[w] \/ t >= limit[w]

\* What the shared cache says of a plan is true, in its rows and in its answers.
CacheTruthful == RowsTrue /\ AnswersSound

\* As long as measurements do not overlap and no statement fails, a plan has
\* one row and it holds every set of hints that led to the plan ("A single
\* (query_digest, plan_digest) pair corresponds to one entry holding all hint
\* sets", remote_cache_manager.py).
OneEntryPerPlan ==
    ~met /\ cacheFaults = 0 =>
        /\ \A p \in DOMAIN PlanTime : Cardinality(RowsOf(p)) <= 1
        /\ \A w \in Measurer :
              answer[w].status # "none" =>
                  \E i \in RowsOf(digest[w]) : asked[w] \in cacheRows[i].hints

\* Measurements that overlap may each find no row and insert one, and a failed
\* lookup is a miss.  What they leave behind is bounded: a plan never has more
\* rows than there are processes and failed statements, however long the
\* processes go on to measure, for whoever finds a row inserts none, not even
\* when it executes again (RemotePlanCache.lookup and store).
DuplicatesBounded ==
    \A p \in DOMAIN PlanTime :
        Cardinality(RowsOf(p)) <= Cardinality(Measurer) + cacheFaults

\* What the shared table holds of a plan: one entry with all its hints where nothing
\* overlapped or failed, and otherwise no more than overlaps and failures explain.
EntriesAccounted == OneEntryPerPlan /\ DuplicatesBounded

=============================================================================
