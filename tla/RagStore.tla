------------------------------ MODULE RagStore ------------------------------
(***************************************************************************)
(* The store of hint sets that improved a query (mcts/rag): searches load  *)
(* it, retrieve references for their query and may write their own         *)
(* improvements back (MCTSSearch._setup_rag, _maybe_write_back); it is     *)
(* built from result files by mcts_scripts/rag_build/build_store.py.       *)
(*                                                                         *)
(* A store is a set of rows, each a vector and the position of its         *)
(* configuration, and a sequence of configurations, kept in two files      *)
(* besides the manifest.  Nothing depends on the order of rows, and no two *)
(* are equal.  A vector is the configuration it was computed from and its  *)
(* schematic type; similarities are a constant.                            *)
(***************************************************************************)
EXTENDS Integers, Sequences, FiniteSets, SequencesExt

CONSTANTS
    Searcher,        \* processes that search
    Config,          \* hint sets a search found (QConfig)
    QueryOf,         \* the query of each
    RuntimeOf,       \* its runtime
    BaselineTimeOf,  \* the baseline of a query
    SchematicType,
    Similarity,      \* weighted similarity of a query and a configuration
    MinSimilarity,   \* rag_min_similarity
    TopK,            \* rag_top_k
    PerTypeK,        \* per_type_k
    MaxPerQuery,     \* max_per_query
    MaxSearches,     \* bound: searches
    MaxDeaths        \* bound: processes that die or fail in a save

ASSUME RagAssumption ==
    /\ BaselineTimeOf \in [{QueryOf[c] : c \in Config} -> Nat \ {0}]
    /\ RuntimeOf \in [Config -> Nat \ {0}]
    /\ {TopK, PerTypeK, MaxPerQuery} \subseteq Nat \ {0}
    /\ IsFiniteSet(Config) /\ IsFiniteSet(SchematicType) /\ SchematicType # {}
    /\ Similarity \in [{QueryOf[c] : c \in Config} -> [Config -> Int]]
    /\ {MaxSearches, MaxDeaths} \subseteq Nat

VARIABLES
    files,     \* the rows and configurations on disk; is there a manifest?
    memory,    \* the store each searcher loaded
    activity,  \* what it does next
    subject,   \* the query it searches
    refs,      \* the configurations it retrieved
    stored,    \* configurations a completed write-back stored
    writing,   \* searchers with a store in memory they may save
    mixed,     \* did writers overlap, or a build replace a store?
    searches,
    deaths

ragVars == <<files, memory, activity, subject, refs, stored, writing, mixed,
             searches, deaths>>

Empty == [rows |-> {}, configs |-> <<>>]

NoFiles == [rows |-> {}, configs |-> <<>>, complete |-> FALSE]

EndSearch(s) ==
    /\ activity' = [activity EXCEPT ![s] = "idle"]
    /\ memory' = [memory EXCEPT ![s] = Empty]
    /\ writing' = writing \ {s}

Query == {QueryOf[c] : c \in Config}

Builder == "builder"

RagInit ==
    /\ files = NoFiles
    /\ memory = [s \in Searcher \cup {Builder} |-> Empty]
    /\ activity = [s \in Searcher \cup {Builder} |-> "idle"]
    /\ subject = [s \in Searcher |-> CHOOSE q \in Query : TRUE]
    /\ refs = [s \in Searcher |-> {}]
    /\ stored = {}
    /\ writing = {}
    /\ mixed = FALSE
    /\ searches = 0
    /\ deaths = 0

Activity(s, a) == activity' = [activity EXCEPT ![s] = a]

\* _qconfig_for_row: can the row's position be resolved?
Resolves(store, row) == row.pos \in DOMAIN store.configs

-----------------------------------------------------------------------------
(* Loading and retrieval.                                                  *)

BeginSearch(s, q) ==
    /\ activity[s] = "idle"
    /\ searches < MaxSearches
    /\ searches' = searches + 1
    /\ subject' = [subject EXCEPT ![s] = q]
    /\ refs' = [refs EXCEPT ![s] = {}]
    /\ writing' = writing \cup {s}
    /\ mixed' = (mixed \/ writing # {})
    /\ Activity(s, "loadRows")
    /\ UNCHANGED <<files, memory, stored, deaths>>

\* RAGStore.load reads the files one after another, if all three exist; the
\* manifest, written last, only gives the dimension.
LoadRows(s) ==
    /\ activity[s] = "loadRows"
    /\ IF files.complete
         THEN /\ memory' = [memory EXCEPT ![s].rows = files.rows]
              /\ Activity(s, "loadConfigs")
         ELSE /\ Activity(s, "found")
              /\ UNCHANGED memory
    /\ UNCHANGED <<files, subject, refs, stored, writing, mixed, searches, deaths>>

LoadConfigs(s) ==
    /\ activity[s] = "loadConfigs"
    /\ memory' = [memory EXCEPT ![s].configs = files.configs]
    /\ Activity(s, "retrieve")
    /\ UNCHANGED <<files, subject, refs, stored, writing, mixed, searches, deaths>>

\* The k first of a set under an order, ties broken at will.
FirstOf(k, S, Before(_, _)) ==
    CHOOSE T \in SUBSET S :
        /\ Cardinality(T) = IF Cardinality(S) < k THEN Cardinality(S) ELSE k
        /\ \A t \in T, u \in S \ T : ~Before(u, t)

\* RAGStore.search within a schematic type: it fails if a row it found has no
\* configuration.
SearchType(store, q, type) ==
    LET found == FirstOf(PerTypeK, {r \in store.rows : r.type = type}, LAMBDA r, o :
                    Similarity[q][r.vector] > Similarity[q][o.vector])
    IN  IF \A r \in found : Resolves(store, r)
          THEN {[config |-> store.configs[r.pos],
                 similarity |-> Similarity[q][r.vector]] : r \in found}
          ELSE {}

\* _is_better_ref, improvement first: within a query the faster one.
BetterRef(a, b) ==
    \/ RuntimeOf[a.config] < RuntimeOf[b.config]
    \/ RuntimeOf[a.config] = RuntimeOf[b.config] /\ a.similarity > b.similarity

\* Retriever.retrieve: per query its best configuration, of those the TopK
\* most similar.
Retrieved(store, q) ==
    LET hits == {h \in UNION {SearchType(store, q, t) : t \in SchematicType} :
                    h.similarity >= MinSimilarity /\ QueryOf[h.config] # q}
        best == {h \in hits : \A o \in hits :
                    QueryOf[o.config] = QueryOf[h.config] => ~BetterRef(o, h)}
    IN  FirstOf(TopK, best, LAMBDA a, b : a.similarity > b.similarity)

Retrieve(s) ==
    /\ activity[s] = "retrieve"
    /\ refs' = [refs EXCEPT ![s] = Retrieved(memory[s], subject[s])]
    /\ Activity(s, "found")
    /\ UNCHANGED <<files, memory, subject, stored, writing, mixed, searches, deaths>>

-----------------------------------------------------------------------------
(* Write-back and build.                                                   *)

\* _is_trustworthy: the fastest MaxPerQuery of those faster than the baseline.
Trusted(found) ==
    LET faster == {c \in found : RuntimeOf[c] < BaselineTimeOf[QueryOf[c]]}
    IN  FirstOf(MaxPerQuery, faster, LAMBDA c, d : RuntimeOf[c] < RuntimeOf[d])

\* RAGStore.add: a configuration once, a row per schematic type.
Added(store, configs) ==
    LET all == store.configs \o SetToSeq(configs \ ToSet(store.configs))
        Pos(c) == CHOOSE i \in DOMAIN all : all[i] = c
    IN  [rows |-> store.rows \cup {[vector |-> c, type |-> t, pos |-> Pos(c)] :
                                     c \in configs, t \in SchematicType},
         configs |-> all]

\* Positions counted from the start instead of after the loaded ones.
UpsertAtStart(store, configs) ==
    [Added(store, configs) EXCEPT !.configs = SetToSeq(configs) \o store.configs]

\* upsert fails on a row that does not resolve.
AllResolve(store) == \A r \in store.rows : Resolves(store, r)

\* upsert leaves out what the store has.
Upserted(store, configs) ==
    Added(store, {c \in configs : \A r \in store.rows : store.configs[r.pos] # c})

OnDisk == [rows |-> files.rows, configs |-> files.configs]

\* The store to write back to: one that was missing or empty is loaded again.
Loaded(s) ==
    IF memory[s].rows # {} THEN memory[s]
    ELSE IF files.complete THEN OnDisk ELSE Empty

\* _maybe_write_back after the search found configurations for its query.
WriteBack(s, found) ==
    /\ activity[s] = "found"
    /\ \A c \in found : QueryOf[c] = subject[s]
    /\ LET kept == Trusted(found)
       IN  IF kept = {} \/ ~AllResolve(Loaded(s))
             THEN EndSearch(s)
             ELSE /\ memory' = [memory EXCEPT ![s] = Upserted(Loaded(s), kept)]
                  /\ Activity(s, "saveRows")
                  /\ UNCHANGED writing
    /\ UNCHANGED <<files, subject, refs, stored, mixed, searches, deaths>>

\* build_store.py: a store from nothing, out of the result files.
Build(found) ==
    /\ activity[Builder] = "idle"
    /\ searches < MaxSearches
    /\ searches' = searches + 1
    /\ memory' = [memory EXCEPT ![Builder] = Added(Empty,
            UNION {Trusted({c \in found : QueryOf[c] = q}) : q \in Query})]
    /\ writing' = writing \cup {Builder}
    /\ mixed' = (mixed \/ writing # {} \/ files # NoFiles)
    /\ Activity(Builder, "saveRows")
    /\ UNCHANGED <<files, subject, refs, stored, deaths>>

\* RAGStore.save: each file is written aside and renamed into place.
SaveRows(s) ==
    /\ activity[s] = "saveRows"
    /\ files' = [files EXCEPT !.rows = memory[s].rows]
    /\ Activity(s, "saveConfigs")
    /\ UNCHANGED <<memory, subject, refs, stored, writing, mixed, searches, deaths>>

SaveConfigs(s) ==
    /\ activity[s] = "saveConfigs"
    /\ files' = [files EXCEPT !.configs = memory[s].configs]
    /\ Activity(s, "saveManifest")
    /\ UNCHANGED <<memory, subject, refs, stored, writing, mixed, searches, deaths>>

SaveManifest(s) ==
    /\ activity[s] = "saveManifest"
    /\ files' = [files EXCEPT !.complete = TRUE]
    /\ stored' = stored \cup ToSet(memory[s].configs)
    /\ EndSearch(s)
    /\ UNCHANGED <<subject, refs, mixed, searches, deaths>>

\* The process dies, or a step of its save fails.
Dies(s) ==
    /\ activity[s] # "idle"
    /\ deaths < MaxDeaths
    /\ deaths' = deaths + 1
    /\ EndSearch(s)
    /\ UNCHANGED <<files, subject, refs, stored, mixed, searches>>

RagNext ==
    \/ \E s \in Searcher :
        \/ \E q \in Query : BeginSearch(s, q)
        \/ LoadRows(s) \/ LoadConfigs(s) \/ Retrieve(s)
        \/ \E found \in SUBSET Config : WriteBack(s, found)
    \/ \E found \in SUBSET Config : Build(found)
    \/ \E s \in Searcher \cup {Builder} : SaveRows(s) \/ SaveConfigs(s) \/ SaveManifest(s) \/ Dies(s)

RagSpec == RagInit /\ [][RagNext]_ragVars

-----------------------------------------------------------------------------
RagTypeOK ==
    /\ ToSet(files.configs) \subseteq Config
    /\ activity \in [Searcher \cup {Builder} ->
                        {"idle", "loadRows", "loadConfigs", "retrieve", "found",
                         "saveRows", "saveConfigs", "saveManifest"}]
    /\ writing \subseteq Searcher \cup {Builder}
    /\ \A s \in Searcher : Cardinality(refs[s]) <= TopK
    /\ searches \in 0 .. MaxSearches

\* Without overlapping writers a vector never leads to another query's hints:
\* also after deaths between the files of a save, in files and in every store
\* loaded meanwhile, a row resolves to its own configuration or to none; and
\* nothing a write-back stored is lost (RAGStore.save, load and upsert).
RowsResolveRight ==
    ~mixed =>
        /\ \A store \in {d \in {OnDisk} : files.complete} \cup {memory[s] : s \in Searcher} :
              \A r \in store.rows :
                  Resolves(store, r) => store.configs[r.pos] = r.vector
        /\ stored \subseteq {r.vector : r \in {o \in files.rows : Resolves(files, o)}}
=============================================================================
