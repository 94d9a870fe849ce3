---------------------------- MODULE Batch_proofs ----------------------------
(***************************************************************************)
(* Theorems about what many searches leave behind: the results and batches *)
(* of BatchRunner, for any queries, instances, workers, rounds and killed  *)
(* processes (BatchInv), the store of hint sets of RagStore, for any       *)
(* configurations and searchers (RagInv), and the training samples of      *)
(* Posterior, for any tree, passes and deaths (SampleInv).                 *)
(***************************************************************************)
EXTENDS BatchRunner, RagStore, Posterior, TLAPS, FiniteSetTheorems, SequenceTheorems,
        WellFoundedInduction

-----------------------------------------------------------------------------
(* Finite sets and the least of some naturals.                             *)

\* SetToSeq lists a finite set: all of it, each member once.
LEMMA SetListed ==
    ASSUME NEW S, IsFiniteSet(S)
    PROVE  LET s == SetToSeq(S) IN
           /\ s \in Seq(S) /\ Len(s) = Cardinality(S)
           /\ \A m, n \in 1 .. Len(s) : s[m] = s[n] => m = n
           /\ \A e \in S : \E n \in 1 .. Len(s) : s[n] = e
  <1> DEFINE N == Cardinality(S)
             s == SetToSeq(S)
  <1>1. N \in Nat /\ ExistsBijection(1 .. N, S)
    BY FS_CardinalityType
  <1>2. PICK f : f \in Bijection(1 .. N, S)
    BY <1>1 DEF ExistsBijection
  <1>3. f \in [1 .. N -> S] /\ IsInjective(f)
    BY <1>2 DEF Bijection, Injection
  <1>4. s \in [1 .. N -> S] /\ IsInjective(s)
    BY <1>3 DEF SetToSeq
  <1>5. s \in Injection(1 .. N, S)
    BY <1>4 DEF Injection
  <1>6. IsFiniteSet(1 .. N) /\ Cardinality(1 .. N) = N
    BY <1>1, FS_Interval
  <1>7. s \in Surjection(1 .. N, S)
    BY <1>5, <1>6, FS_Injection
  <1>8. s \in Seq(S) /\ Len(s) = N
    BY <1>1, <1>4
  <1> HIDE DEF s
  <1>9. /\ \A m, n \in 1 .. Len(s) : s[m] = s[n] => m = n
        /\ \A e \in S : \E n \in 1 .. Len(s) : s[n] = e
    BY <1>4, <1>7, <1>8 DEF IsInjective, Surjection
  <1> QED  BY <1>8, <1>9 DEF s

\* Some naturals have a least.
LEMMA NatMin ==
    ASSUME NEW T \in SUBSET Nat, T # {}
    PROVE  \E m \in T : \A n \in T : m <= n
  <1> DEFINE R == OpToRel(<, Nat)
  <1>1. IsWellFoundedOn(R, Nat)
    BY NatLessThanWellFounded
  <1>2. \A x, y \in Nat : x < y => <<x, y>> \in R
    BY DEF OpToRel
  <1> HIDE DEF R
  <1>3. PICK m \in T : \A n \in T : ~ (<<n, m>> \in R)
    BY <1>1, WFMin
  <1>4. \A n \in T : ~(n < m)
    BY <1>2, <1>3
  <1> QED  BY <1>4

-----------------------------------------------------------------------------
(* The pool.                                                               *)

QueryResult == [query : BenchQuery, success : BOOLEAN]

Results == resultQueue \cup gathered \cup UNION {unsent[w] : w \in BenchWorker}

Answered(q) == \E r \in Results : r.query = q

Queued(q) == \E i \in Instance : \E n \in DOMAIN taskQueue[i] : taskQueue[i][n] = q

Collecting == {"collect", "check"}

PoolTypeInv ==
    /\ taskQueue \in [Instance -> Seq(BenchQuery \cup {Sentinel})]
    /\ job \in [BenchWorker -> BenchQuery \cup {"free"} \cup Gone]
    /\ unsent \in [BenchWorker -> SUBSET QueryResult]
    /\ resultQueue \subseteq QueryResult /\ gathered \subseteq QueryResult
    /\ processDeaths \in Nat

\* The queries of an instance, each once, then sentinels.
QueueOf(i, queue) ==
    /\ \A n \in DOMAIN queue : queue[n] # Sentinel => InstanceOf[queue[n]] = i
    /\ \A m, n \in DOMAIN queue : m < n /\ queue[m] = Sentinel => queue[n] = Sentinel
    /\ \A m, n \in DOMAIN queue : queue[m] = queue[n] /\ queue[m] # Sentinel => m = n

QueueInv == \A i \in Instance : QueueOf(i, taskQueue[i])

\* A query waits, runs or has its one result.
OnceInv ==
    /\ \A w \in BenchWorker : \A q \in BenchQuery : job[w] = q =>
           /\ InstanceOf[q] = WorksFor[w]
           /\ ~Queued(q) /\ ~Answered(q)
           /\ \A v \in BenchWorker : job[v] = q => v = w
    /\ \A r \in Results : ~Queued(r.query)
    /\ \A r, s \in Results : r.query = s.query => r = s
    /\ \A w \in BenchWorker : \A r \in unsent[w] : InstanceOf[r.query] = WorksFor[w]

\* Only a dead worker loses a query.
LostInv ==
    \A q \in BenchQuery :
        \/ Queued(q) \/ Answered(q)
        \/ \E w \in BenchWorker : job[w] = q
        \/ \E w \in WorkersOf(InstanceOf[q]) : job[w] = "dead"

\* Before the shutdown a worker leaves a queue without queries.
LeftInv ==
    /\ driver \in Collecting \cup {"shutdown"} => ~shutdown
    /\ \A w \in BenchWorker : job[w] = "left" /\ ~shutdown =>
           \A n \in DOMAIN taskQueue[WorksFor[w]] : taskQueue[WorksFor[w]][n] = Sentinel
    /\ driver \in Collecting /\ processDeaths = 0 => \A w \in BenchWorker : job[w] # "dead"

EndInv ==
    /\ driver \in Collecting => collection = "none"
    /\ collection = "complete" => \A q \in BenchQuery : \E r \in gathered : r.query = q
    /\ collection = "exited" => \A w \in BenchWorker : Exited(w)
    /\ collection = "exited" /\ processDeaths = 0 => \A q \in BenchQuery : Answered(q)

PoolInv == PoolTypeInv /\ QueueInv /\ OnceInv /\ LostInv /\ LeftInv /\ EndInv

LEMMA TailOfQueue ==
    ASSUME NEW S, NEW s \in Seq(S), s # <<>>
    PROVE  /\ Tail(s) \in Seq(S) /\ 1 \in DOMAIN s /\ Head(s) = s[1]
           /\ \A n \in DOMAIN Tail(s) :
                 n \in Nat /\ n + 1 \in DOMAIN s /\ Tail(s)[n] = s[n + 1]
           /\ \A n \in DOMAIN s \ {1} : n - 1 \in DOMAIN Tail(s) /\ Tail(s)[n - 1] = s[n]
  <1>1. /\ Len(s) \in Nat /\ DOMAIN s = 1 .. Len(s)
        /\ Tail(s) \in Seq(S) /\ Len(Tail(s)) = Len(s) - 1 /\ Len(s) # 0
        /\ \A n \in 1 .. Len(Tail(s)) : Tail(s)[n] = s[n + 1]
    BY LenProperties, EmptySeq, HeadTailProperties
  <1>2. DOMAIN Tail(s) = 1 .. Len(s) - 1
    BY <1>1, LenProperties
  <1> QED  BY <1>1, <1>2

\* One result per query: as many results as queries with a result, and as
\* many as queries only if all have one.
LEMMA OneEach ==
    ASSUME BatchAssumption, NEW S \in SUBSET QueryResult,
           \A r, s \in S : r.query = s.query => r = s
    PROVE  /\ Cardinality({r.query : r \in S}) = Cardinality(S)
           /\ Cardinality(S) = Cardinality(BenchQuery) =>
                 \A q \in BenchQuery : \E r \in S : r.query = q
  <1> DEFINE f == [r \in S |-> r.query]
             T == {r.query : r \in S}
  <1>1. f \in Injection(S, BenchQuery) /\ f \in Injection(S, T) /\ f \in Surjection(S, T)
    BY DEF Injection, IsInjective, Surjection, QueryResult
  <1>2. IsFiniteSet(BenchQuery)
    BY DEF BatchAssumption
  <1>3. IsFiniteSet(S)
    BY <1>1, <1>2, FS_Injection
  <1>4. Cardinality(T) = Cardinality(S)
    BY <1>1, <1>3, FS_Surjection
  <1>5. Cardinality(S) = Cardinality(BenchQuery) => f \in Surjection(S, BenchQuery)
    BY <1>1, <1>2, FS_Injection
  <1>6. f \in Surjection(S, BenchQuery) =>
           \A q \in BenchQuery : \E r \in S : r.query = q
    BY DEF Surjection
  <1> QED  BY <1>4, <1>5, <1>6

\* Workers and queries are what they are.
LEMMA Names ==
    ASSUME BatchAssumption
    PROVE  /\ \A w \in BenchWorker : WorksFor[w] \in Instance
           /\ \A q \in BenchQuery : InstanceOf[q] \in Instance
           /\ \A q \in BenchQuery : q \notin {Sentinel, "free", "left", "dead"}
  BY DEF BatchAssumption, Gone

LEMMA ResultsMembers ==
    /\ \A r : r \in Results <=> \/ r \in resultQueue \/ r \in gathered
                                \/ \E w \in BenchWorker : r \in unsent[w]
    /\ \A r : r \in Results' <=> \/ r \in resultQueue' \/ r \in gathered'
                                 \/ \E w \in BenchWorker : r \in unsent'[w]
  BY DEF Results

LEMMA TakeKeepsPool ==
    ASSUME BatchAssumption, PoolInv, NEW w \in BenchWorker, Take(w)
    PROVE  PoolInv'
  <1> DEFINE i == WorksFor[w]
             queue == taskQueue[i]
  <1>1. /\ UNCHANGED <<unsent, resultQueue, gathered, shutdown, driver, collection,
                       processDeaths>>
        /\ job[w] = "free" /\ i \in Instance /\ queue \in Seq(BenchQuery \cup {Sentinel})
        /\ Results' = Results
    BY Names DEF Take, PoolInv, PoolTypeInv, Results
  <1>2. CASE shutdown /\ job' = [job EXCEPT ![w] = "left"] /\ UNCHANGED taskQueue
    <2>1. PoolTypeInv' /\ QueueInv'
      BY <1>1, <1>2 DEF PoolInv, PoolTypeInv, QueueInv, Gone
    <2>2. /\ job'[w] = "left" /\ \A v \in BenchWorker \ {w} : job'[v] = job[v]
          /\ \A q : Queued(q)' <=> Queued(q)
          /\ \A q : Answered(q)' <=> Answered(q)
      BY <1>1, <1>2 DEF PoolInv, PoolTypeInv, Queued, Answered
    <2>3. /\ \A q \in BenchQuery : \A v \in BenchWorker : job'[v] = q <=> job[v] = q
          /\ \A v \in BenchWorker : job[v] = "dead" => job'[v] = "dead"
      BY <1>1, <2>2, Names
    <2>4. OnceInv' /\ LostInv'
      <3>1. OnceInv'
        <4>1. unsent' = unsent
          BY <1>1
        <4>2. ASSUME NEW v \in BenchWorker, NEW q \in BenchQuery, job'[v] = q
              PROVE  /\ InstanceOf[q] = WorksFor[v]
                     /\ ~Queued(q)' /\ ~Answered(q)'
                     /\ \A u \in BenchWorker : job'[u] = q => u = v
          BY <2>2, <2>3, <4>2 DEF PoolInv, OnceInv
        <4>3. \A r \in Results' : ~Queued(r.query)'
          BY <1>1, <2>2 DEF PoolInv, OnceInv
        <4> QED  BY <1>1, <4>1, <4>2, <4>3 DEF PoolInv, OnceInv
      <3>2. LostInv'
        BY <1>1, <2>2, <2>3 DEF PoolInv, LostInv, WorkersOf
      <3> QED  BY <3>1, <3>2
    <2>5. LeftInv' /\ EndInv'
      BY <1>1, <1>2, <2>2 DEF PoolInv, LeftInv, EndInv, Exited, Gone
    <2> QED  BY <2>1, <2>4, <2>5 DEF PoolInv
  <1>3. CASE /\ ~shutdown /\ queue # <<>>
             /\ job' = [job EXCEPT ![w] = IF Head(queue) = Sentinel THEN "left"
                                           ELSE Head(queue)]
             /\ taskQueue' = [taskQueue EXCEPT ![i] = Tail(queue)]
    <2> DEFINE head == Head(queue)
               tail == Tail(queue)
    <2>1. /\ tail \in Seq(BenchQuery \cup {Sentinel})
          /\ 1 \in DOMAIN queue /\ head = queue[1] /\ head \in BenchQuery \cup {Sentinel}
          /\ \A n \in DOMAIN tail : n \in Nat /\ n + 1 \in DOMAIN queue /\ tail[n] = queue[n + 1]
          /\ \A n \in DOMAIN queue \ {1} : n - 1 \in DOMAIN tail /\ tail[n - 1] = queue[n]
      BY <1>1, <1>3, TailOfQueue, HeadTailProperties
    <2>2. QueueOf(i, queue)
      BY <1>1 DEF PoolInv, QueueInv
    <2>3. QueueOf(i, tail)
      <3>1. \A n \in DOMAIN tail : tail[n] # Sentinel => InstanceOf[tail[n]] = i
        BY <2>1, <2>2 DEF QueueOf
      <3>2. ASSUME NEW m \in DOMAIN tail, NEW n \in DOMAIN tail
            PROVE  /\ m < n /\ tail[m] = Sentinel => tail[n] = Sentinel
                   /\ tail[m] = tail[n] /\ tail[m] # Sentinel => m = n
        <4>1. /\ m + 1 \in DOMAIN queue /\ n + 1 \in DOMAIN queue /\ m \in Nat /\ n \in Nat
              /\ tail[m] = queue[m + 1] /\ tail[n] = queue[n + 1]
          BY <2>1
        <4>2. /\ m + 1 < n + 1 /\ queue[m + 1] = Sentinel => queue[n + 1] = Sentinel
              /\ queue[m + 1] = queue[n + 1] /\ queue[m + 1] # Sentinel => m + 1 = n + 1
          <5> HIDE DEF queue, tail
          <5> QED  BY <2>2, <4>1 DEF QueueOf
        <4> HIDE DEF queue, tail
        <4> QED  BY <4>1, <4>2
      <3> QED  BY <3>1, <3>2 DEF QueueOf
    <2>4. /\ taskQueue'[i] = tail
          /\ \A j \in Instance \ {i} : taskQueue'[j] = taskQueue[j]
      BY <1>1, <1>3 DEF PoolInv, PoolTypeInv
    <2>5. QueueInv'
      BY <2>3, <2>4 DEF PoolInv, QueueInv
    <2>6. /\ job'[w] = IF head = Sentinel THEN "left" ELSE head
          /\ \A v \in BenchWorker \ {w} : job'[v] = job[v]
      BY <1>1, <1>3 DEF PoolInv, PoolTypeInv
    <2>7. PoolTypeInv'
      <3>1. taskQueue' \in [Instance -> Seq(BenchQuery \cup {Sentinel})]
        BY <1>3, <2>1 DEF PoolInv, PoolTypeInv
      <3>2. job' \in [BenchWorker -> BenchQuery \cup {"free"} \cup Gone]
        BY <1>3, <2>1 DEF PoolInv, PoolTypeInv, Gone
      <3> QED  BY <1>1, <3>1, <3>2 DEF PoolInv, PoolTypeInv
    <2> HIDE DEF head, tail
    <2>8. ASSUME NEW q \in BenchQuery
          PROVE  Queued(q)' <=> Queued(q) /\ q # head
      <3>1. ASSUME Queued(q)' PROVE Queued(q) /\ q # head
        <4>1. PICK j \in Instance : \E n \in DOMAIN taskQueue'[j] : taskQueue'[j][n] = q
          BY <3>1 DEF Queued
        <4>2. CASE j = i
          <5>1. PICK n \in DOMAIN tail : tail[n] = q
            BY <2>4, <4>1, <4>2
          <5>2. n + 1 \in DOMAIN queue /\ queue[n + 1] = q /\ n \in Nat
            BY <2>1, <5>1
          <5>3. q # Sentinel
            BY Names
          <5>4. n \in 1 .. Len(tail) /\ 1 \in DOMAIN queue /\ head = queue[1]
            BY <2>1, <5>1
          <5>5. q # head
            <6> HIDE DEF queue
            <6>1. queue[1] = queue[n + 1] /\ queue[1] # Sentinel => 1 = n + 1
              BY <2>2, <5>2, <5>4 DEF QueueOf
            <6> QED  BY <5>2, <5>3, <5>4, <6>1
          <5> QED  BY <1>1, <5>2, <5>5 DEF Queued
        <4>3. CASE j # i
          <5>1. PICK n \in DOMAIN taskQueue[j] : taskQueue[j][n] = q
            BY <2>4, <4>1, <4>3
          <5>2. InstanceOf[q] = j
            BY <5>1, Names DEF PoolInv, QueueInv, QueueOf
          <5>3. q # head
            BY <2>1, <2>2, <4>3, <5>2, Names DEF QueueOf
          <5> QED  BY <5>1, <5>3 DEF Queued
        <4> QED  BY <4>2, <4>3
      <3>2. ASSUME Queued(q), q # head PROVE Queued(q)'
        <4>1. PICK j \in Instance : \E n \in DOMAIN taskQueue[j] : taskQueue[j][n] = q
          BY <3>2 DEF Queued
        <4>2. CASE j = i
          <5>1. PICK n \in DOMAIN queue : queue[n] = q
            BY <4>1, <4>2
          <5>2. n # 1
            BY <2>1, <3>2, <5>1
          <5>3. n - 1 \in DOMAIN tail /\ tail[n - 1] = q
            BY <2>1, <5>1, <5>2
          <5> QED  BY <1>1, <2>4, <5>3 DEF Queued
        <4>3. CASE j # i
          BY <2>4, <4>1, <4>3 DEF Queued
        <4> QED  BY <4>2, <4>3
      <3> QED  BY <3>1, <3>2
    <2>9. /\ \A q : Answered(q)' <=> Answered(q)
          /\ head \in BenchQuery => Queued(head) /\ InstanceOf[head] = i
      <3>1. head \in BenchQuery => InstanceOf[head] = i
        BY <2>1, <2>2, Names DEF QueueOf
      <3> QED  BY <1>1, <2>1, <3>1 DEF Queued, Answered
    <2>10. OnceInv'
      <3>1. \A r \in Results : r.query \in BenchQuery
        <4>1. \A r \in Results : r \in QueryResult
          BY ResultsMembers DEF PoolInv, PoolTypeInv
        <4> QED  BY <4>1 DEF QueryResult
      <3>2. \A r \in Results' : ~Queued(r.query)'
        BY <1>1, <2>8, <3>1 DEF PoolInv, OnceInv
      <3>3. ASSUME NEW v \in BenchWorker, NEW q \in BenchQuery, job'[v] = q
            PROVE  /\ InstanceOf[q] = WorksFor[v]
                   /\ ~Queued(q)' /\ ~Answered(q)'
                   /\ \A u \in BenchWorker : job'[u] = q => u = v
        <4>1. CASE v = w
          <5>1. q = head /\ Queued(q)
            BY <2>6, <2>9, <3>3, <4>1, Names
          <5>2. ~Answered(q) /\ \A u \in BenchWorker : job[u] # q
            BY <5>1 DEF PoolInv, OnceInv, Answered
          <5> QED  BY <2>6, <2>8, <2>9, <4>1, <5>1, <5>2
        <4>2. CASE v # w
          <5>1. /\ job[v] = q /\ ~Queued(q) /\ ~Answered(q) /\ InstanceOf[q] = WorksFor[v]
                /\ \A u \in BenchWorker : job[u] = q => u = v
            BY <2>6, <3>3, <4>2 DEF PoolInv, OnceInv
          <5>2. job'[w] # q
            BY <2>6, <2>9, <5>1, Names
          <5> QED  BY <2>6, <2>8, <2>9, <5>1, <5>2
        <4> QED  BY <4>1, <4>2
      <3> QED  BY <1>1, <3>2, <3>3 DEF PoolInv, OnceInv
    <2>11. LostInv'
      <3>1. ASSUME NEW q \in BenchQuery
            PROVE  \/ Queued(q)' \/ Answered(q)'
                   \/ \E v \in BenchWorker : job'[v] = q
                   \/ \E v \in WorkersOf(InstanceOf[q]) : job'[v] = "dead"
        <4>1. CASE q = head
          <5>1. job'[w] = q
            BY <2>6, <4>1, Names
          <5> QED  BY <5>1
        <4>2. CASE q # head
          <5>1. /\ \A v \in BenchWorker : job[v] = q => job'[v] = q
                /\ \A v \in BenchWorker : job[v] = "dead" => job'[v] = "dead"
            BY <1>1, <2>6, Names
          <5> QED  BY <2>8, <2>9, <4>2, <5>1 DEF PoolInv, LostInv, WorkersOf
        <4> QED  BY <4>1, <4>2
      <3> QED  BY <3>1 DEF LostInv, WorkersOf
    <2>12. LeftInv'
      <3>1. ASSUME NEW v \in BenchWorker, job'[v] = "left"
            PROVE  \A n \in DOMAIN taskQueue'[WorksFor[v]] :
                      taskQueue'[WorksFor[v]][n] = Sentinel
        <4>1. CASE WorksFor[v] = i
          <5>1. \A n \in DOMAIN queue \ {1} : queue[n] = Sentinel
            <6>1. CASE v = w
              <7>1. head = Sentinel
                BY <2>1, <2>6, <3>1, <6>1, Names
              <7>2. \A n \in DOMAIN queue \ {1} : 1 < n
                <8>1. DOMAIN queue = 1 .. Len(queue) /\ Len(queue) \in Nat
                  BY <1>1, LenProperties
                <8> HIDE DEF queue
                <8> QED  BY ONLY <8>1
              <7>3. \A m, n \in DOMAIN queue :
                       m < n /\ queue[m] = Sentinel => queue[n] = Sentinel
                BY <2>2 DEF QueueOf
              <7> HIDE DEF queue
              <7> QED  BY <2>1, <7>1, <7>2, <7>3
            <6>2. CASE v # w
              BY <1>3, <2>6, <3>1, <4>1, <6>2 DEF PoolInv, LeftInv
            <6> QED  BY <6>1, <6>2
          <5>2. \A n \in DOMAIN tail : n + 1 \in DOMAIN queue \ {1} /\ tail[n] = queue[n + 1]
            BY <2>1
          <5> QED  BY <2>4, <4>1, <5>1, <5>2
        <4>2. CASE WorksFor[v] # i
          BY <1>3, <2>4, <2>6, <3>1, <4>2, Names DEF PoolInv, LeftInv
        <4> QED  BY <4>1, <4>2
      <3>2. job'[w] # "dead"
        BY <2>1, <2>6, Names
      <3> QED  BY <1>1, <2>6, <3>1, <3>2 DEF PoolInv, LeftInv
    <2>13. EndInv'
      <3>1. collection # "exited"
        BY <1>1 DEF PoolInv, EndInv, Exited, Gone
      <3> QED  BY <1>1, <3>1 DEF PoolInv, EndInv
    <2> QED  BY <2>5, <2>7, <2>10, <2>11, <2>12, <2>13 DEF PoolInv
  <1> QED  BY <1>2, <1>3 DEF Take

LEMMA ReportKeepsPool ==
    ASSUME BatchAssumption, PoolInv, NEW w \in BenchWorker, Report(w)
    PROVE  PoolInv'
  <1> DEFINE q == job[w]
  <1>1. PICK success \in BOOLEAN :
           unsent' = [unsent EXCEPT ![w] = @ \cup {[query |-> q, success |-> success]}]
    BY DEF Report
  <1> DEFINE new == [query |-> q, success |-> success]
  <1>2. /\ q \in BenchQuery /\ job' = [job EXCEPT ![w] = "free"]
        /\ UNCHANGED <<taskQueue, resultQueue, gathered, shutdown, driver, collection,
                       processDeaths>>
    BY DEF Report
  <1>3. /\ new \in QueryResult /\ new.query = q
        /\ job'[w] = "free" /\ \A v \in BenchWorker \ {w} : job'[v] = job[v]
        /\ unsent'[w] = unsent[w] \cup {new}
        /\ \A v \in BenchWorker \ {w} : unsent'[v] = unsent[v]
    BY <1>1, <1>2 DEF QueryResult, PoolInv, PoolTypeInv
  <1>4. PoolTypeInv'
    BY <1>1, <1>2, <1>3 DEF PoolInv, PoolTypeInv
  <1> HIDE DEF new
  <1>5. \A r : r \in Results' <=> r \in Results \/ r = new
    BY <1>2, <1>3, ResultsMembers DEF Results
  <1>6. /\ \A p : Queued(p)' <=> Queued(p)
        /\ \A p : Answered(p)' <=> Answered(p) \/ p = q
    <2>1. \A p : Queued(p)' <=> Queued(p)
      BY <1>2 DEF Queued
    <2>2. \A p : Answered(p)' <=> Answered(p) \/ p = q
      BY <1>3, <1>5 DEF Answered
    <2> QED  BY <2>1, <2>2
  <1>7. /\ InstanceOf[q] = WorksFor[w] /\ ~Queued(q) /\ ~Answered(q)
        /\ \A v \in BenchWorker : job[v] = q => v = w
    BY <1>2 DEF PoolInv, OnceInv
  <1> HIDE DEF q
  <1>8. OnceInv'
    <2>1. ASSUME NEW v \in BenchWorker, NEW p \in BenchQuery, job'[v] = p
          PROVE  /\ InstanceOf[p] = WorksFor[v]
                 /\ ~Queued(p)' /\ ~Answered(p)'
                 /\ \A u \in BenchWorker : job'[u] = p => u = v
      <3>1. v # w /\ job[v] = p /\ p # q
        BY <1>3, <1>7, <2>1, Names
      <3>2. /\ InstanceOf[p] = WorksFor[v] /\ ~Queued(p) /\ ~Answered(p)
            /\ \A u \in BenchWorker : job[u] = p => u = v
        BY <3>1 DEF PoolInv, OnceInv
      <3> QED  BY <1>3, <1>6, <3>1, <3>2, Names
    <2>2. \A r \in Results' : ~Queued(r.query)'
      BY <1>3, <1>5, <1>6, <1>7 DEF PoolInv, OnceInv
    <2>3. \A r, s \in Results' : r.query = s.query => r = s
      BY <1>3, <1>5, <1>7 DEF PoolInv, OnceInv, Answered
    <2>4. \A v \in BenchWorker : \A r \in unsent'[v] : InstanceOf[r.query] = WorksFor[v]
      BY <1>3, <1>7 DEF PoolInv, OnceInv
    <2> QED  BY <2>1, <2>2, <2>3, <2>4 DEF OnceInv
  <1>9. LostInv'
    <2>1. ASSUME NEW p \in BenchQuery, p # q
          PROVE  \/ Queued(p)' \/ Answered(p)'
                 \/ \E v \in BenchWorker : job'[v] = p
                 \/ \E v \in WorkersOf(InstanceOf[p]) : job'[v] = "dead"
      <3>1. job[w] = q /\ q # "dead"
        BY <1>2, Names DEF q
      <3> QED  BY <1>3, <1>6, <2>1, <3>1 DEF PoolInv, LostInv, WorkersOf
    <2> QED  BY <1>6, <2>1 DEF LostInv, WorkersOf
  <1>10. LeftInv'
    BY <1>2, <1>3 DEF PoolInv, LeftInv
  <1>11. EndInv'
    <2>1. job[w] = q /\ q \notin Gone
      BY <1>2, Names DEF q, Gone
    <2>2. collection # "exited"
      BY <2>1 DEF PoolInv, EndInv, Exited
    <2> QED  BY <1>2, <2>2 DEF PoolInv, EndInv
  <1> QED  BY <1>4, <1>2, <1>8, <1>9, <1>10, <1>11 DEF PoolInv, QueueInv

\* A step that moves results keeps what the pool knows of its queries.
LEMMA MovedResults ==
    ASSUME PoolInv, PoolTypeInv', Results' = Results, UNCHANGED <<taskQueue, job, shutdown>>,
           \A w \in BenchWorker : unsent'[w] \subseteq unsent[w],
           driver' \in Collecting \cup {"shutdown"} => driver \in Collecting \cup {"shutdown"},
           driver' \in Collecting => driver \in Collecting,
           processDeaths' = processDeaths, EndInv'
    PROVE  PoolInv'
  <1>1. /\ \A q : Queued(q)' <=> Queued(q)
        /\ \A q : Answered(q)' <=> Answered(q)
    BY DEF Queued, Answered
  <1>2. QueueInv' /\ LostInv' /\ LeftInv'
    BY <1>1 DEF PoolInv, QueueInv, LostInv, LeftInv, WorkersOf
  <1>3. OnceInv'
    BY <1>1 DEF PoolInv, OnceInv
  <1> QED  BY <1>2, <1>3 DEF PoolInv

LEMMA SendKeepsPool ==
    ASSUME BatchAssumption, PoolInv, NEW w \in BenchWorker, Send(w)
    PROVE  PoolInv'
  <1>1. /\ resultQueue' = resultQueue \cup unsent[w]
        /\ unsent'[w] = {} /\ \A v \in BenchWorker \ {w} : unsent'[v] = unsent[v]
        /\ UNCHANGED <<taskQueue, job, gathered, shutdown, driver, collection, processDeaths>>
    BY DEF Send, PoolInv, PoolTypeInv
  <1>2. PoolTypeInv'
    BY DEF PoolInv, PoolTypeInv, Send
  <1>3. Results' = Results
    BY <1>1, ResultsMembers
  <1>4. EndInv'
    BY <1>1, <1>3 DEF PoolInv, EndInv, Answered, Exited
  <1> QED  BY <1>1, <1>2, <1>3, <1>4, MovedResults

LEMMA GatherKeepsPool ==
    ASSUME BatchAssumption, PoolInv, Gather
    PROVE  PoolInv'
  <1>1. PICK result \in resultQueue :
           /\ resultQueue' = resultQueue \ {result}
           /\ gathered' = gathered \cup {result}
    BY DEF Gather
  <1>2. /\ UNCHANGED <<taskQueue, job, unsent, shutdown, processDeaths>>
        /\ driver = "collect" /\ collection = "none"
        /\ \/ UNCHANGED <<driver, collection>>
           \/ /\ driver' = "shutdown" /\ collection' = "complete"
              /\ Cardinality(gathered') = Cardinality(BenchQuery)
    BY DEF Gather, EndCollection, PoolInv, EndInv, Collecting
  <1>3. PoolTypeInv'
    BY <1>1, <1>2 DEF PoolInv, PoolTypeInv
  <1>4. Results' = Results
    BY <1>1, <1>2, ResultsMembers
  <1>5. EndInv'
    <2>1. CASE UNCHANGED <<driver, collection>>
      BY <1>2, <2>1 DEF EndInv
    <2>2. CASE /\ driver' = "shutdown" /\ collection' = "complete"
               /\ Cardinality(gathered') = Cardinality(BenchQuery)
      <3>1. gathered' \subseteq Results /\ gathered' \subseteq QueryResult
        BY <1>3, <1>4, ResultsMembers DEF PoolTypeInv
      <3>2. \A r, s \in gathered' : r.query = s.query => r = s
        BY <3>1 DEF PoolInv, OnceInv
      <3>3. \A q \in BenchQuery : \E r \in gathered' : r.query = q
        BY <2>2, <3>1, <3>2, OneEach
      <3> QED  BY <2>2, <3>3 DEF EndInv, Collecting
    <2> QED  BY <1>2, <2>1, <2>2
  <1> QED  BY <1>2, <1>3, <1>4, <1>5, MovedResults DEF Collecting

\* Without a death every worker has left, so its queue has no query.
LEMMA CheckWorkersKeepsPool ==
    ASSUME BatchAssumption, PoolInv, CheckWorkers
    PROVE  PoolInv'
  <1>1. /\ UNCHANGED <<taskQueue, job, unsent, resultQueue, gathered, shutdown, processDeaths>>
        /\ driver = "check" /\ collection = "none" /\ Results' = Results
        /\ \/ driver' = "collect" /\ UNCHANGED collection
           \/ /\ driver' = "shutdown" /\ collection' = "exited"
              /\ \A w \in BenchWorker : Exited(w)
    BY DEF CheckWorkers, EndCollection, poolVars, PoolInv, EndInv, Collecting, Results
  <1>2. PoolTypeInv'
    BY <1>1 DEF PoolInv, PoolTypeInv
  <1>3. EndInv'
    <2>1. CASE driver' = "collect" /\ UNCHANGED collection
      BY <1>1, <2>1 DEF EndInv
    <2>2. CASE /\ driver' = "shutdown" /\ collection' = "exited"
               /\ \A w \in BenchWorker : Exited(w)
      <3>1. ASSUME processDeaths = 0, NEW q \in BenchQuery
            PROVE  Answered(q)
        <4>1. \A w \in BenchWorker : job[w] = "left" /\ job[w] # q
          BY <1>1, <2>2, <3>1, Names DEF PoolInv, LeftInv, Collecting, Exited, Gone
        <4>2. PICK w \in BenchWorker : WorksFor[w] = InstanceOf[q]
          BY Names DEF BatchAssumption
        <4>3. ~Queued(q)
          <5>1. ASSUME NEW i \in Instance, NEW n \in DOMAIN taskQueue[i], taskQueue[i][n] = q
                PROVE  FALSE
            <6>1. InstanceOf[q] = i /\ q # Sentinel
              BY <5>1, Names DEF PoolInv, QueueInv, QueueOf
            <6>2. taskQueue[i][n] = Sentinel
              BY <1>1, <4>1, <4>2, <6>1 DEF PoolInv, LeftInv, Collecting
            <6> QED  BY <5>1, <6>1, <6>2
          <5> QED  BY <5>1 DEF Queued
        <4>4. \A v \in WorkersOf(InstanceOf[q]) : job[v] # "dead"
          BY <4>1 DEF WorkersOf
        <4> QED  BY <4>1, <4>3, <4>4 DEF PoolInv, LostInv
      <3>2. processDeaths = 0 => \A q \in BenchQuery : Answered(q)'
        BY <1>1, <3>1 DEF Answered
      <3> QED  BY <1>1, <2>2, <3>2 DEF EndInv, Exited, Collecting
    <2> QED  BY <1>1, <2>1, <2>2
  <1> QED  BY <1>1, <1>2, <1>3, MovedResults DEF Collecting

\* Workers that die take with them the queries of their own instance.
LEMMA DeathsKeepPool ==
    ASSUME BatchAssumption, PoolInv, PoolTypeInv', NEW dying \in SUBSET BenchWorker,
           \A w \in dying : job'[w] = "dead" /\ unsent'[w] = {} /\ ~Exited(w),
           \A w \in BenchWorker \ dying : job'[w] = job[w] /\ unsent'[w] = unsent[w],
           UNCHANGED <<taskQueue, resultQueue, gathered, shutdown, collection>>,
           UNCHANGED driver \/ driver' \notin Collecting \cup {"shutdown"},
           processDeaths' \in {processDeaths, processDeaths + 1},
           driver' \in Collecting => processDeaths' # 0 \/ dying = {}
    PROVE  PoolInv'
  <1>1. /\ \A q : Queued(q)' <=> Queued(q)
        /\ \A r \in Results' : r \in Results
        /\ \A r \in Results : r \in Results' \/ \E w \in dying : r \in unsent[w]
    BY ResultsMembers DEF Queued
  <1>2. \A q : Answered(q)' => Answered(q)
    BY <1>1 DEF Answered
  <1>3. OnceInv'
    <2>1. ASSUME NEW v \in BenchWorker, NEW q \in BenchQuery, job'[v] = q
          PROVE  /\ InstanceOf[q] = WorksFor[v]
                 /\ ~Queued(q)' /\ ~Answered(q)'
                 /\ \A u \in BenchWorker : job'[u] = q => u = v
      <3>1. \A u \in BenchWorker : job'[u] = q => job[u] = q
        BY Names
      <3> QED  BY <1>1, <1>2, <2>1, <3>1 DEF PoolInv, OnceInv
    <2> QED  BY <1>1, <2>1 DEF PoolInv, OnceInv
  <1>4. LostInv'
    <2>1. ASSUME NEW q \in BenchQuery
          PROVE  \/ Queued(q)' \/ Answered(q)'
                 \/ \E w \in BenchWorker : job'[w] = q
                 \/ \E w \in WorkersOf(InstanceOf[q]) : job'[w] = "dead"
      <3>1. CASE Queued(q)
        BY <1>1, <3>1
      <3>2. CASE Answered(q)
        <4>1. PICK r \in Results : r.query = q
          BY <3>2 DEF Answered
        <4>2. CASE r \in Results'
          BY <4>1, <4>2 DEF Answered
        <4>3. CASE \E w \in dying : r \in unsent[w]
          BY <4>1, <4>3 DEF PoolInv, OnceInv, WorkersOf
        <4> QED  BY <1>1, <4>2, <4>3
      <3>3. CASE \E w \in BenchWorker : job[w] = q
        <4>1. PICK w \in BenchWorker : job[w] = q
          BY <3>3
        <4>2. InstanceOf[q] = WorksFor[w]
          BY <4>1 DEF PoolInv, OnceInv
        <4> QED  BY <4>1, <4>2 DEF WorkersOf
      <3>4. CASE \E w \in WorkersOf(InstanceOf[q]) : job[w] = "dead"
        BY <3>4 DEF WorkersOf
      <3> QED  BY <3>1, <3>2, <3>3, <3>4 DEF PoolInv, LostInv
    <2> QED  BY <2>1 DEF LostInv, WorkersOf
  <1>5. LeftInv'
    <2>1. processDeaths' = 0 => processDeaths = 0
      BY DEF PoolInv, PoolTypeInv
    <2>2. \A w \in BenchWorker : job'[w] = "left" => job[w] = "left"
      OBVIOUS
    <2>3. driver' \in Collecting /\ processDeaths' = 0 =>
             \A w \in BenchWorker : job'[w] # "dead"
      BY <2>1 DEF PoolInv, LeftInv, Collecting
    <2> QED  BY <2>2, <2>3 DEF PoolInv, LeftInv, Collecting
  <1>6. EndInv'
    <2>1. CASE collection = "exited"
      <3>1. dying = {}
        BY <2>1 DEF PoolInv, EndInv
      <3>2. Results' = Results /\ \A w \in BenchWorker : Exited(w)' <=> Exited(w)
        BY <1>1, <3>1 DEF Exited
      <3>3. processDeaths' = 0 => processDeaths = 0
        BY DEF PoolInv, PoolTypeInv
      <3> QED  BY <2>1, <3>2, <3>3 DEF PoolInv, EndInv, Answered, Collecting
    <2>2. CASE collection # "exited"
      BY <2>2 DEF PoolInv, EndInv, Collecting
    <2> QED  BY <2>1, <2>2
  <1> QED  BY <1>3, <1>4, <1>5, <1>6 DEF PoolInv, QueueInv

LEMMA WorkerDiesKeepsPool ==
    ASSUME BatchAssumption, PoolInv, NEW w \in BenchWorker, WorkerDies(w)
    PROVE  PoolInv'
  <1>1. /\ job'[w] = "dead" /\ unsent'[w] = {} /\ ~Exited(w)
        /\ \A v \in BenchWorker \ {w} : job'[v] = job[v] /\ unsent'[v] = unsent[v]
        /\ processDeaths' = processDeaths + 1 /\ processDeaths' # 0
        /\ UNCHANGED <<taskQueue, resultQueue, gathered, shutdown, driver, collection>>
    BY DEF WorkerDies, PoolInv, PoolTypeInv
  <1>2. PoolTypeInv'
    <2>1. job' \in [BenchWorker -> BenchQuery \cup {"free"} \cup Gone]
      BY DEF WorkerDies, PoolInv, PoolTypeInv, Gone
    <2>2. unsent' \in [BenchWorker -> SUBSET QueryResult]
      BY DEF WorkerDies, PoolInv, PoolTypeInv
    <2> QED  BY <1>1, <2>1, <2>2 DEF PoolInv, PoolTypeInv
  <1> DEFINE dying == {w}
  <1>3. /\ dying \in SUBSET BenchWorker
        /\ \A v \in dying : job'[v] = "dead" /\ unsent'[v] = {} /\ ~Exited(v)
        /\ \A v \in BenchWorker \ dying : job'[v] = job[v] /\ unsent'[v] = unsent[v]
    BY <1>1
  <1> HIDE DEF dying
  <1> QED  BY <1>1, <1>2, <1>3, DeathsKeepPool

LEMMA JoinWorkersKeepsPool ==
    ASSUME BatchAssumption, PoolInv, JoinWorkers
    PROVE  PoolInv'
  <1> DEFINE dying == {w \in BenchWorker : ~Exited(w)}
  <1>1. /\ \A w \in dying : job'[w] = "dead" /\ unsent'[w] = {} /\ ~Exited(w)
        /\ \A w \in BenchWorker \ dying : job'[w] = job[w] /\ unsent'[w] = unsent[w]
        /\ UNCHANGED <<taskQueue, resultQueue, gathered, shutdown, collection, processDeaths>>
        /\ driver' \in {"ready", "over"}
    BY DEF JoinWorkers, Exited
  <1>2. PoolTypeInv'
    BY <1>1 DEF JoinWorkers, PoolInv, PoolTypeInv, Gone
  <1> HIDE DEF dying
  <1>3. dying \subseteq BenchWorker
    BY DEF dying
  <1> QED  BY <1>1, <1>2, <1>3, DeathsKeepPool DEF Collecting

\* Steps of the main process that touch no worker and no result.
LEMMA DriverKeepsPool ==
    ASSUME PoolInv, UNCHANGED <<taskQueue, job, unsent, resultQueue, gathered, processDeaths>>,
           \/ UNCHANGED <<driver, collection, shutdown>>
           \/ /\ driver \in Collecting /\ UNCHANGED shutdown
              /\ \/ driver' \in Collecting /\ UNCHANGED collection
                 \/ driver' = "shutdown" /\ collection' = "interrupted"
           \/ driver' = "join" /\ shutdown' = TRUE /\ UNCHANGED collection
           \/ /\ driver' \notin Collecting \cup {"shutdown"}
              /\ UNCHANGED <<collection, shutdown>>
    PROVE  PoolInv'
  <1>1. /\ Results' = Results
        /\ \A q : Queued(q)' <=> Queued(q)
        /\ \A q : Answered(q)' <=> Answered(q)
        /\ \A w : Exited(w)' <=> Exited(w)
    BY DEF Results, Queued, Answered, Exited
  <1>2. PoolTypeInv' /\ QueueInv' /\ OnceInv' /\ LostInv'
    BY <1>1 DEF PoolInv, PoolTypeInv, QueueInv, OnceInv, LostInv, WorkersOf
  <1>3. LeftInv'
    BY DEF PoolInv, LeftInv, Collecting
  <1>4. EndInv'
    BY <1>1 DEF PoolInv, EndInv, Collecting
  <1> QED  BY <1>2, <1>3, <1>4 DEF PoolInv

LEMMA StepKeepsPool ==
    ASSUME BatchAssumption, PoolInv, [BatchNext]_batchVars
    PROVE  PoolInv'
  <1>1. ASSUME NEW w \in BenchWorker, Take(w) \/ Report(w) \/ Send(w) \/ WorkerDies(w)
        PROVE  PoolInv'
    BY <1>1, TakeKeepsPool, ReportKeepsPool, SendKeepsPool, WorkerDiesKeepsPool
  <1>2. CASE Gather \/ CheckWorkers \/ JoinWorkers
    BY <1>2, GatherKeepsPool, CheckWorkersKeepsPool, JoinWorkersKeepsPool
  <1>3. CASE GetTimesOut \/ Interrupt \/ SetShutdown
    BY <1>3, DriverKeepsPool
       DEF GetTimesOut, Interrupt, SetShutdown, EndCollection, poolVars, Collecting
  <1>4. ASSUME NEW i \in Instance, Validate(i)
        PROVE  PoolInv'
    BY <1>4, DriverKeepsPool DEF Validate, poolVars
  <1>5. CASE DrainReady \/ OpenRound \/ CloseBarrier \/ CollectDone
    <2>1. /\ UNCHANGED <<taskQueue, job, unsent, resultQueue, gathered, processDeaths,
                         collection, shutdown>>
          /\ UNCHANGED driver \/ driver' \in {"ready", "between", "barrier", "finalize", "over"}
      BY <1>5 DEF DrainReady, OpenRound, CloseBarrier, CollectDone, poolVars
    <2> QED  BY <2>1, DriverKeepsPool DEF Collecting
  <1>6. ASSUME NEW i \in Instance, ValidatorKilled(i)
        PROVE  PoolInv'
    <2>1. /\ UNCHANGED <<taskQueue, job, unsent, resultQueue, gathered, driver, collection,
                         shutdown>>
          /\ processDeaths' = processDeaths + 1
      BY <1>6 DEF ValidatorKilled, poolVars
    <2>2. PoolTypeInv' /\ processDeaths' # 0
      BY <2>1 DEF PoolInv, PoolTypeInv
    <2> QED  BY <2>1, <2>2, DeathsKeepPool
  <1>7. CASE UNCHANGED batchVars
    BY <1>7, DriverKeepsPool DEF batchVars, poolVars
  <1> QED  BY <1>1, <1>2, <1>3, <1>4, <1>5, <1>6, <1>7 DEF BatchNext

-----------------------------------------------------------------------------
(* The validation.                                                         *)

Early == {"collect", "check", "shutdown", "join"}

\* Whose reply the coordinator waits for.
Awaited == CASE driver = "ready" -> ToValidate \ reported
             [] driver = "barrier" -> live \ (reported \cup failed)
             [] driver = "finalize" -> live \ reported
             [] OTHER -> {}

Answering(i) == \E m \in replies : m.instance = i

\* Ready for a command, or killed while it was.
Up(i) == validator[i] \in {"waiting", "killed"}

ValidationTypeInv ==
    /\ validator \in [Instance -> {"none", "starting", "waiting", "gone", "killed"}]
    /\ command \in [Instance -> {"none", "run", "finalize"}]
    /\ replies \subseteq [instance : Instance, phase : {"ready", "rollout", "done"}]
    /\ round \in Nat /\ roundsRun \in [Instance -> Nat]
    /\ {live, reported, failed} \subseteq SUBSET Instance

\* Before the validation there is nothing of it.
EarlyInv ==
    driver \in Early =>
        /\ \A i \in Instance :
              validator[i] = "none" /\ command[i] = "none" /\ roundsRun[i] = 0
        /\ replies = {} /\ round = 0 /\ live = {} /\ reported = {} /\ failed = {}

\* Replies come from instances that are waited for, one from each.
ReplyInv ==
    \A m \in replies :
        /\ m.instance \in Awaited
        /\ \A n \in replies : n.instance = m.instance => n = m
        /\ IF m.phase = "done" THEN validator[m.instance] = "gone" ELSE Up(m.instance)
        /\ driver = "ready" => m.phase \in {"ready", "done"}
        /\ driver = "barrier" => m.phase \in {"rollout", "done"}

\* A worker that still has to act is waited for.
BusyInv ==
    \A i \in Instance :
        /\ validator[i] = "starting" =>
               driver = "ready" /\ command[i] = "none" /\ i \in Awaited /\ ~Answering(i)
        /\ validator[i] = "waiting" /\ command[i] # "none" =>
               driver # "ready" /\ i \in Awaited /\ ~Answering(i)

\* Who is waited for answers, or was killed.
AwaitInv ==
    \A i \in Awaited :
        \/ validator[i] \in {"starting", "killed"} \/ Answering(i)
        \/ validator[i] = "waiting" /\ command[i] # "none"

RoundInv ==
    /\ driver = "ready" =>
           /\ round = 0 /\ live \subseteq reported /\ reported \subseteq ToValidate
           /\ \A i \in Instance : roundsRun[i] = 0
           /\ \A i \in live : Up(i)
    /\ driver = "between" =>
           /\ round > 0 => reported = live
           /\ \A i \in live : roundsRun[i] = round /\ Up(i)
    /\ driver = "barrier" =>
           /\ reported \subseteq live /\ failed \subseteq live /\ reported \cap failed = {}
           /\ \A i \in reported : roundsRun[i] = round + 1 /\ Up(i)
           /\ \A m \in replies : m.phase = "rollout" => roundsRun[m.instance] = round + 1
           /\ \A i \in Awaited : Answering(i) \/ (roundsRun[i] = round /\ Up(i))
    /\ driver = "finalize" => reported \subseteq live

ValidationInv ==
    /\ ValidationTypeInv /\ EarlyInv /\ IsFiniteSet(live)
    /\ ReplyInv /\ BusyInv /\ AwaitInv /\ RoundInv

LEMMA AwaitedByStage ==
    /\ driver = "ready" => Awaited = ToValidate \ reported
    /\ driver = "barrier" => Awaited = live \ (reported \cup failed)
    /\ driver = "finalize" => Awaited = live \ reported
    /\ driver \notin {"ready", "barrier", "finalize"} => Awaited = {}
    /\ driver' = "ready" => Awaited' = ToValidate' \ reported'
    /\ driver' = "barrier" => Awaited' = live' \ (reported' \cup failed')
    /\ driver' = "finalize" => Awaited' = live' \ reported'
    /\ driver' \notin {"ready", "barrier", "finalize"} => Awaited' = {}
  BY DEF Awaited

LEMMA ToValidateFinite ==
    ASSUME BatchAssumption, PoolTypeInv
    PROVE  ToValidate \subseteq Instance /\ IsFiniteSet(ToValidate)
  <1> DEFINE f == [q \in BenchQuery |-> InstanceOf[q]]
             all == {InstanceOf[q] : q \in BenchQuery}
  <1>1. f \in Surjection(BenchQuery, all)
    BY DEF Surjection
  <1>2. IsFiniteSet(BenchQuery)
    BY DEF BatchAssumption
  <1>3. IsFiniteSet(all)
    BY <1>1, <1>2, FS_Surjection
  <1>4. ToValidate \subseteq all /\ all \subseteq Instance
    BY Names DEF ToValidate, PoolTypeInv, QueryResult
  <1> HIDE DEF all
  <1> QED  BY <1>3, <1>4, FS_Subset

LEMMA AwaitedAreInstances ==
    ASSUME BatchAssumption, PoolTypeInv, ValidationTypeInv
    PROVE  Awaited \subseteq Instance
  BY AwaitedByStage, ToValidateFinite DEF ValidationTypeInv

\* A step of the pool before the validation, or beside it.
LEMMA PoolStepKeepsValidation ==
    ASSUME ValidationInv, UNCHANGED validationVars,
           UNCHANGED <<driver, gathered>> \/ (driver \in Early /\ driver' \in Early \cup {"over"})
    PROVE  ValidationInv'
  <1>1. UNCHANGED <<validator, command, replies, round, live, reported, failed, roundsRun>>
    BY DEF validationVars
  <1>2. CASE UNCHANGED <<driver, gathered>>
    <2>1. Awaited' = Awaited /\ ToValidate' = ToValidate
      BY <1>1, <1>2 DEF Awaited, ToValidate
    <2>2. \A i : Answering(i)' <=> Answering(i)
      BY <1>1 DEF Answering
    <2>3. ValidationTypeInv' /\ EarlyInv' /\ IsFiniteSet(live)'
      BY <1>1, <1>2 DEF ValidationInv, ValidationTypeInv, EarlyInv
    <2>4. ReplyInv'
      BY <1>1, <1>2, <2>1 DEF ValidationInv, ReplyInv, Up
    <2>5. BusyInv' /\ AwaitInv'
      BY <1>1, <1>2, <2>1, <2>2 DEF ValidationInv, BusyInv, AwaitInv
    <2>6. RoundInv'
      BY <1>1, <1>2, <2>1, <2>2 DEF ValidationInv, RoundInv, Up
    <2> QED  BY <2>3, <2>4, <2>5, <2>6 DEF ValidationInv
  <1>3. CASE driver \in Early /\ driver' \in Early \cup {"over"}
    <2>1. /\ \A i \in Instance : validator[i] = "none" /\ command[i] = "none"
          /\ replies' = {} /\ Awaited' = {}
      BY <1>1, <1>3, AwaitedByStage DEF ValidationInv, EarlyInv, Early
    <2>2. ValidationTypeInv' /\ EarlyInv' /\ IsFiniteSet(live)'
      BY <1>1, <1>3 DEF ValidationInv, ValidationTypeInv, EarlyInv
    <2>3. ReplyInv' /\ BusyInv' /\ AwaitInv'
      BY <1>1, <2>1 DEF ReplyInv, BusyInv, AwaitInv
    <2>4. RoundInv'
      BY <1>3 DEF RoundInv, Early
    <2> QED  BY <2>2, <2>3, <2>4 DEF ValidationInv
  <1> QED  BY <1>2, <1>3

LEMMA JoinWorkersKeepsValidation ==
    ASSUME BatchAssumption, PoolInv, ValidationInv, JoinWorkers
    PROVE  ValidationInv'
  <1>1. CASE driver' = "over" /\ UNCHANGED validator
    <2>1. UNCHANGED validationVars /\ driver \in Early
      BY <1>1 DEF JoinWorkers, validationVars, Early
    <2> QED  BY <1>1, <2>1, PoolStepKeepsValidation
  <1>2. CASE /\ driver' = "ready"
             /\ validator' = [i \in Instance |-> IF i \in ToValidate THEN "starting" ELSE "none"]
    <2>1. /\ UNCHANGED <<gathered, command, replies, round, live, reported, failed, roundsRun>>
          /\ driver \in Early /\ ToValidate' = ToValidate
      BY DEF JoinWorkers, Early, ToValidate
    <2>2. /\ \A i \in Instance : command[i] = "none" /\ roundsRun[i] = 0
          /\ replies' = {} /\ round' = 0 /\ live' = {} /\ reported' = {}
      BY <2>1 DEF ValidationInv, EarlyInv
    <2>3. Awaited' = ToValidate /\ ToValidate \subseteq Instance
      BY <1>2, <2>1, <2>2, AwaitedByStage, ToValidateFinite DEF PoolInv
    <2>4. ValidationTypeInv' /\ EarlyInv' /\ IsFiniteSet(live)'
      BY <1>2, <2>1 DEF ValidationInv, ValidationTypeInv, EarlyInv, Early
    <2>5. ReplyInv' /\ BusyInv' /\ AwaitInv'
      BY <1>2, <2>1, <2>2, <2>3 DEF ReplyInv, BusyInv, AwaitInv, Answering
    <2>6. RoundInv'
      BY <1>2, <2>1, <2>2 DEF RoundInv
    <2> QED  BY <2>4, <2>5, <2>6 DEF ValidationInv
  <1> QED  BY <1>1, <1>2 DEF JoinWorkers

\* A worker that is waited for replies: its only reply.
LEMMA ReplyKeepsValidation ==
    ASSUME BatchAssumption, PoolTypeInv, ValidationInv,
           NEW i \in Instance, i \in Awaited, ~Answering(i),
           NEW phase \in {"ready", "rollout", "done"}, Reply(i, phase),
           UNCHANGED <<driver, gathered, round, live, reported, failed>>,
           \A j \in Instance \ {i} :
               /\ validator'[j] = validator[j] /\ command'[j] = command[j]
               /\ roundsRun'[j] = roundsRun[j],
           ValidationTypeInv',
           validator'[i] = (IF phase = "done" THEN "gone" ELSE "waiting"),
           command'[i] = "none",
           driver = "ready" => phase # "rollout" /\ roundsRun'[i] = roundsRun[i],
           driver = "barrier" => /\ phase # "ready"
                                 /\ phase = "rollout" => roundsRun'[i] = roundsRun[i] + 1
    PROVE  ValidationInv'
  <1> DEFINE new == [instance |-> i, phase |-> phase]
  <1>1. replies' = replies \cup {new} /\ new.instance = i /\ new.phase = phase
    BY DEF Reply
  <1>2. Awaited' = Awaited /\ ToValidate' = ToValidate
    BY DEF Awaited, ToValidate
  <1> HIDE DEF new
  <1>3. \A j : Answering(j)' <=> Answering(j) \/ j = i
    BY <1>1 DEF Answering
  <1>4. driver \in {"ready", "barrier", "finalize"}
    BY AwaitedByStage
  <1>5. \A m \in replies : m.instance \in Instance /\ m.instance # i
    <2>1. \A m \in replies : m.instance \in Instance
      BY DEF ValidationInv, ValidationTypeInv
    <2> QED  BY <2>1 DEF Answering
  <1>6. EarlyInv' /\ IsFiniteSet(live)'
    BY <1>4 DEF ValidationInv, EarlyInv, Early
  <1>7. ReplyInv'
    <2>1. ASSUME NEW m \in replies
          PROVE  /\ m.instance \in Awaited' /\ m.instance # i
                 /\ \A n \in replies : n.instance = m.instance => n = m
                 /\ IF m.phase = "done" THEN validator'[m.instance] = "gone"
                    ELSE validator'[m.instance] \in {"waiting", "killed"}
                 /\ driver' = "ready" => m.phase \in {"ready", "done"}
                 /\ driver' = "barrier" => m.phase \in {"rollout", "done"}
      BY <1>2, <1>5 DEF ValidationInv, ReplyInv, Up
    <2>2. /\ IF new.phase = "done" THEN validator'[i] = "gone"
             ELSE validator'[i] \in {"waiting", "killed"}
          /\ driver' = "ready" => new.phase \in {"ready", "done"}
          /\ driver' = "barrier" => new.phase \in {"rollout", "done"}
      BY <1>1
    <2> QED  BY <1>1, <1>2, <2>1, <2>2 DEF ReplyInv, Up
  <1>8. BusyInv'
    BY <1>2, <1>3 DEF ValidationInv, BusyInv
  <1>9. AwaitInv'
    <2>1. ASSUME NEW j \in Awaited', j # i
          PROVE  \/ validator'[j] \in {"starting", "killed"} \/ Answering(j)'
                 \/ validator'[j] = "waiting" /\ command'[j] # "none"
      <3>1. j \in Instance
        BY <1>2, <2>1, AwaitedAreInstances DEF ValidationInv
      <3> QED  BY <1>2, <1>3, <2>1, <3>1 DEF ValidationInv, AwaitInv
    <2> QED  BY <1>3, <2>1 DEF AwaitInv
  <1>10. RoundInv'
    <2>1. CASE driver = "ready"
      <3>1. i \notin reported /\ live \subseteq reported /\ live \subseteq Instance
        BY <2>1, AwaitedByStage DEF ValidationInv, RoundInv, ValidationTypeInv
      <3>2. \A j \in live : Up(j)'
        BY <2>1, <3>1 DEF ValidationInv, RoundInv, Up
      <3>3. \A j \in Instance : roundsRun'[j] = 0
        BY <2>1 DEF ValidationInv, RoundInv
      <3> QED  BY <1>2, <2>1, <3>2, <3>3 DEF ValidationInv, RoundInv
    <2>2. CASE driver = "barrier"
      <3>1. /\ i \notin reported /\ reported \subseteq Instance /\ Awaited \subseteq Instance
            /\ Awaited' = Awaited
        BY <1>2, <2>2, AwaitedByStage DEF ValidationInv, ValidationTypeInv
      <3>2. roundsRun[i] = round
        BY <2>2 DEF ValidationInv, RoundInv
      <3>3. \A j \in reported : roundsRun'[j] = round + 1 /\ Up(j)'
        BY <2>2, <3>1 DEF ValidationInv, RoundInv, Up
      <3>4. \A m \in replies' : m.phase = "rollout" => roundsRun'[m.instance] = round + 1
        BY <1>1, <1>5, <2>2, <3>2 DEF ValidationInv, RoundInv
      <3>5. \A j \in Awaited' : Answering(j)' \/ (roundsRun'[j] = round /\ Up(j)')
        BY <1>3, <2>2, <3>1 DEF ValidationInv, RoundInv, Up
      <3> QED  BY <2>2, <3>3, <3>4, <3>5 DEF ValidationInv, RoundInv
    <2>3. CASE driver = "finalize"
      BY <2>3 DEF ValidationInv, RoundInv
    <2> QED  BY <1>4, <2>1, <2>2, <2>3
  <1> QED  BY <1>6, <1>7, <1>8, <1>9, <1>10 DEF ValidationInv

LEMMA ValidateKeepsValidation ==
    ASSUME BatchAssumption, PoolTypeInv, ValidationInv, NEW i \in Instance, Validate(i)
    PROVE  ValidationInv'
  <1>1. UNCHANGED <<gathered, driver, round, live, reported, failed>>
    BY DEF Validate, poolVars
  <1>2. ASSUME NEW phase \in {"ready", "rollout", "done"}, Reply(i, phase),
               validator'[i] = (IF phase = "done" THEN "gone" ELSE "waiting"),
               validator' \in [Instance -> {"none", "starting", "waiting", "gone", "killed"}],
               command' \in [Instance -> {"none", "run", "finalize"}],
               roundsRun' \in [Instance -> Nat]
        PROVE  ValidationTypeInv'
    BY <1>1, <1>2 DEF ValidationInv, ValidationTypeInv, Reply
  <1>3. CASE /\ validator[i] = "starting"
             /\ \/ validator' = [validator EXCEPT ![i] = "waiting"] /\ Reply(i, "ready")
                \/ validator' = [validator EXCEPT ![i] = "gone"] /\ Reply(i, "done")
             /\ UNCHANGED <<command, roundsRun>>
    <2>1. driver = "ready" /\ i \in Awaited /\ ~Answering(i)
      BY <1>3 DEF ValidationInv, BusyInv
    <2>2. PICK phase \in {"ready", "done"} :
             /\ Reply(i, phase)
             /\ validator' = [validator EXCEPT ![i] = IF phase = "done" THEN "gone" ELSE "waiting"]
      BY <1>3
    <2>3. /\ validator'[i] = (IF phase = "done" THEN "gone" ELSE "waiting")
          /\ validator' \in [Instance -> {"none", "starting", "waiting", "gone", "killed"}]
          /\ \A j \in Instance \ {i} : validator'[j] = validator[j]
      BY <2>2 DEF ValidationInv, ValidationTypeInv
    <2>4. command'[i] = "none"
      BY <1>3 DEF ValidationInv, BusyInv
    <2>5. ValidationTypeInv'
      BY <1>2, <1>3, <2>2, <2>3 DEF ValidationInv, ValidationTypeInv
    <2> QED  BY <1>1, <1>3, <2>1, <2>2, <2>3, <2>4, <2>5, ReplyKeepsValidation
  <1>4. CASE /\ validator[i] = "waiting" /\ command[i] # "none"
             /\ command' = [command EXCEPT ![i] = "none"]
             /\ \/ /\ command[i] = "run" /\ Reply(i, "rollout")
                   /\ roundsRun' = [roundsRun EXCEPT ![i] = @ + 1]
                   /\ UNCHANGED validator
                \/ /\ Reply(i, "done") /\ UNCHANGED roundsRun
                   /\ validator' = [validator EXCEPT ![i] = "gone"]
    <2>1. driver # "ready" /\ i \in Awaited /\ ~Answering(i)
      BY <1>4 DEF ValidationInv, BusyInv
    <2>2. /\ command'[i] = "none" /\ command' \in [Instance -> {"none", "run", "finalize"}]
          /\ \A j \in Instance \ {i} : command'[j] = command[j]
      BY <1>4 DEF ValidationInv, ValidationTypeInv
    <2>3. PICK phase \in {"rollout", "done"} :
             /\ Reply(i, phase)
             /\ validator' = IF phase = "done" THEN [validator EXCEPT ![i] = "gone"]
                             ELSE validator
             /\ roundsRun' = IF phase = "done" THEN roundsRun
                             ELSE [roundsRun EXCEPT ![i] = @ + 1]
      BY <1>4
    <2>4. /\ validator'[i] = (IF phase = "done" THEN "gone" ELSE "waiting")
          /\ validator' \in [Instance -> {"none", "starting", "waiting", "gone", "killed"}]
          /\ \A j \in Instance \ {i} : validator'[j] = validator[j]
      BY <1>4, <2>3 DEF ValidationInv, ValidationTypeInv
    <2>5. /\ phase = "rollout" => roundsRun'[i] = roundsRun[i] + 1
          /\ roundsRun' \in [Instance -> Nat]
          /\ \A j \in Instance \ {i} : roundsRun'[j] = roundsRun[j]
      BY <2>3 DEF ValidationInv, ValidationTypeInv
    <2>6. ValidationTypeInv'
      BY <1>2, <2>2, <2>3, <2>4, <2>5
    <2> QED  BY <1>1, <2>1, <2>2, <2>3, <2>4, <2>5, <2>6, ReplyKeepsValidation
  <1> QED  BY <1>3, <1>4 DEF Validate

LEMMA ValidatorKilledKeepsValidation ==
    ASSUME BatchAssumption, PoolTypeInv, ValidationInv, NEW i \in Instance, ValidatorKilled(i)
    PROVE  ValidationInv'
  <1>1. /\ UNCHANGED <<driver, gathered, command, replies, round, live, reported, failed,
                       roundsRun>>
        /\ validator[i] \in {"starting", "waiting"} /\ validator'[i] = "killed"
        /\ \A j \in Instance \ {i} : validator'[j] = validator[j]
    BY DEF ValidatorKilled, poolVars, ValidationInv, ValidationTypeInv
  <1>2. /\ Awaited' = Awaited /\ Awaited \subseteq Instance /\ ToValidate' = ToValidate
        /\ \A j : Answering(j)' <=> Answering(j)
    BY <1>1, AwaitedAreInstances DEF Awaited, ToValidate, Answering, ValidationInv
  <1>3. ValidationTypeInv' /\ EarlyInv' /\ IsFiniteSet(live)'
    <2>1. ValidationTypeInv'
      BY <1>1 DEF ValidatorKilled, ValidationInv, ValidationTypeInv
    <2> QED  BY <1>1, <2>1 DEF ValidationInv, EarlyInv
  <1>4. \A j \in Instance :
           /\ Up(j) => validator'[j] \in {"waiting", "killed"}
           /\ validator[j] = "gone" => validator'[j] = "gone"
    BY <1>1 DEF Up
  <1>5. ReplyInv'
    <2>1. \A m \in replies : m.instance \in Instance
      BY DEF ValidationInv, ValidationTypeInv
    <2> SUFFICES ASSUME NEW m \in replies
                 PROVE  /\ m.instance \in Awaited
                        /\ \A n \in replies : n.instance = m.instance => n = m
                        /\ IF m.phase = "done" THEN validator'[m.instance] = "gone"
                           ELSE validator'[m.instance] \in {"waiting", "killed"}
                        /\ driver = "ready" => m.phase \in {"ready", "done"}
                        /\ driver = "barrier" => m.phase \in {"rollout", "done"}
      BY <1>1, <1>2 DEF ReplyInv, Up
    <2> USE DEF ValidationInv, ReplyInv
    <2>2. /\ m.instance \in Awaited
          /\ \A n \in replies : n.instance = m.instance => n = m
      OBVIOUS
    <2>3. IF m.phase = "done" THEN validator'[m.instance] = "gone"
          ELSE validator'[m.instance] \in {"waiting", "killed"}
      <3>1. IF m.phase = "done" THEN validator[m.instance] = "gone" ELSE Up(m.instance)
        OBVIOUS
      <3> HIDE DEF ValidationInv, ReplyInv
      <3>2. m.instance \in Instance
        BY <2>1
      <3> QED  BY <1>4, <3>1, <3>2
    <2>4. /\ driver = "ready" => m.phase \in {"ready", "done"}
          /\ driver = "barrier" => m.phase \in {"rollout", "done"}
      OBVIOUS
    <2> QED  BY <2>2, <2>3, <2>4
  <1>6. BusyInv' /\ AwaitInv'
    BY <1>1, <1>2 DEF ValidationInv, BusyInv, AwaitInv
  <1>7. RoundInv'
    <2>1. live \subseteq Instance /\ reported \subseteq Instance
      BY DEF ValidationInv, ValidationTypeInv
    <2> USE DEF ValidationInv, RoundInv, Up
    <2>2. CASE driver = "ready"
      BY <1>1, <1>2, <1>4, <2>1, <2>2
    <2>3. CASE driver = "between"
      BY <1>1, <1>4, <2>1, <2>3
    <2>4. CASE driver = "barrier"
      BY <1>1, <1>2, <1>4, <2>1, <2>4
    <2>5. CASE driver = "finalize"
      BY <1>1, <2>5
    <2> QED  BY <1>1, <2>2, <2>3, <2>4, <2>5
  <1> QED  BY <1>3, <1>5, <1>6, <1>7 DEF ValidationInv

\* The coordinator takes the reply of one instance it waits for; the others
\* are waited for as before, if anyone is.
LEMMA ReceivedInvs ==
    ASSUME ValidationInv, NEW message \in replies, Receive(message),
           UNCHANGED <<validator, command, roundsRun>>,
           Awaited' = Awaited \ {message.instance},
           Awaited' # {} => driver' = driver
    PROVE  /\ ReplyInv' /\ BusyInv' /\ AwaitInv'
           /\ \A j : Answering(j)' <=> Answering(j) /\ j # message.instance
  <1> DEFINE i == message.instance
  <1>1. /\ replies' = replies \ {message}
        /\ \A m \in replies' : m \in replies /\ m.instance # i
        /\ i \in Awaited /\ Answering(i)
    BY DEF Receive, ValidationInv, ReplyInv, Answering
  <1>2. \A j : Answering(j)' <=> Answering(j) /\ j # i
    BY <1>1 DEF Answering
  <1>3. ReplyInv'
    <2>1. ASSUME NEW m \in replies'
          PROVE  /\ m.instance \in Awaited' /\ driver' = driver
                 /\ m \in replies /\ \A n \in replies' : n \in replies
      BY <1>1, <2>1 DEF ValidationInv, ReplyInv
    <2> QED  BY <2>1 DEF ValidationInv, ReplyInv, Up
  <1>4. BusyInv'
    BY <1>1, <1>2 DEF ValidationInv, BusyInv
  <1>5. AwaitInv'
    BY <1>2 DEF ValidationInv, AwaitInv
  <1> QED  BY <1>2, <1>3, <1>4, <1>5

LEMMA DrainReadyKeepsValidation ==
    ASSUME BatchAssumption, PoolInv, ValidationInv, DrainReady
    PROVE  ValidationInv'
  <1>1. PICK message \in replies :
           /\ Receive(message)
           /\ reported' = reported \cup {message.instance}
           /\ live' = IF message.phase = "ready" THEN live \cup {message.instance} ELSE live
    BY DEF DrainReady, Receive
  <1> DEFINE i == message.instance
  <1>2. /\ UNCHANGED <<gathered, validator, command, round, failed, roundsRun>>
        /\ driver = "ready" /\ ToValidate' = ToValidate
        /\ driver' = IF reported' = ToValidate THEN "between" ELSE "ready"
    BY DEF DrainReady, poolVars, ToValidate
  <1>3. /\ i \in Instance /\ i \in ToValidate \ reported
        /\ message.phase = "ready" => Up(i)
    BY <1>2, AwaitedByStage DEF ValidationInv, ValidationTypeInv, ReplyInv
  <1>4. /\ round = 0 /\ live \subseteq reported /\ reported \subseteq ToValidate
        /\ \A j \in Instance : roundsRun[j] = 0
        /\ \A j \in live : Up(j)
    BY <1>2 DEF ValidationInv, RoundInv
  <1>5. /\ Awaited' = Awaited \ {i} /\ (Awaited' # {} => driver' = driver)
    BY <1>1, <1>2, <1>3, <1>4, AwaitedByStage
  <1>6. ReplyInv' /\ BusyInv' /\ AwaitInv'
    BY <1>1, <1>2, <1>5, ReceivedInvs
  <1> HIDE DEF i
  <1>7. ValidationTypeInv'
    BY <1>1, <1>2, <1>3 DEF ValidationInv, ValidationTypeInv, Receive, i
  <1>8. EarlyInv' /\ IsFiniteSet(live)'
    <2>1. IsFiniteSet(live \cup {i})
      BY FS_AddElement DEF ValidationInv
    <2> QED  BY <1>1, <1>2, <2>1 DEF ValidationInv, EarlyInv, Early, i
  <1>9. RoundInv'
    <2>1. live' \subseteq reported' /\ live' \subseteq Instance
      BY <1>1, <1>3, <1>4 DEF i, ValidationInv, ValidationTypeInv
    <2>2. \A j \in live' : Up(j)'
      BY <1>1, <1>2, <1>3, <1>4 DEF Up, i
    <2>3. reported' \subseteq ToValidate
      BY <1>1, <1>3, <1>4 DEF i
    <2>4. \A j \in Instance : roundsRun'[j] = 0 /\ round' = 0
      BY <1>2, <1>4
    <2> QED  BY <1>2, <1>4, <2>1, <2>2, <2>3, <2>4 DEF RoundInv
  <1> QED  BY <1>6, <1>7, <1>8, <1>9 DEF ValidationInv

LEMMA OpenRoundKeepsValidation ==
    ASSUME ValidationInv, OpenRound
    PROVE  ValidationInv'
  <1>1. /\ UNCHANGED <<gathered, validator, replies, round, live, roundsRun>>
        /\ driver = "between" /\ reported' = {} /\ failed' = {}
        /\ driver' \in {"barrier", "finalize", "over"}
        /\ driver' = "over" => live = {}
        /\ \E what \in {"run", "finalize"} :
              command' = [i \in Instance |-> IF i \in live THEN what ELSE command[i]]
    BY DEF OpenRound, poolVars, Command
  <1>2. /\ replies = {} /\ Awaited = {} /\ Awaited' = live
        /\ \A i \in live : roundsRun[i] = round /\ Up(i)
        /\ live \subseteq Instance
    <2>1. Awaited = {} /\ Awaited' = live
      BY <1>1, AwaitedByStage
    <2> QED  BY <1>1, <2>1 DEF ValidationInv, ReplyInv, RoundInv, ValidationTypeInv
  <1>3. /\ \A i \in live : command'[i] # "none"
        /\ \A i \in Instance \ live : command'[i] = command[i]
        /\ command' \in [Instance -> {"none", "run", "finalize"}]
    <2>1. PICK what \in {"run", "finalize"} :
             command' = [i \in Instance |-> IF i \in live THEN what ELSE command[i]]
      BY <1>1
    <2>2. command \in [Instance -> {"none", "run", "finalize"}]
      BY DEF ValidationInv, ValidationTypeInv
    <2> QED  BY <1>2, <2>1, <2>2
  <1>4. ValidationTypeInv' /\ EarlyInv' /\ IsFiniteSet(live)'
    BY <1>1, <1>3 DEF ValidationInv, ValidationTypeInv, EarlyInv, Early
  <1>5. ReplyInv'
    BY <1>1, <1>2 DEF ReplyInv
  <1>6. ~\E i : Answering(i)'
    BY <1>1, <1>2 DEF Answering
  <1>7. BusyInv' /\ AwaitInv'
    BY <1>1, <1>2, <1>3, <1>6 DEF ValidationInv, BusyInv, AwaitInv, Up
  <1>8. RoundInv'
    BY <1>1, <1>2 DEF RoundInv, Up
  <1> QED  BY <1>4, <1>5, <1>7, <1>8 DEF ValidationInv

\* The barrier closes on the last reply that is awaited, and on no earlier one.
LEMMA CloseBarrierKeepsValidation ==
    ASSUME ValidationInv, CloseBarrier
    PROVE  ValidationInv'
  <1>1. PICK message \in replies :
           /\ Receive(message)
           /\ IF message.phase = "rollout"
              THEN reported' = reported \cup {message.instance} /\ UNCHANGED failed
              ELSE failed' = failed \cup {message.instance} /\ UNCHANGED reported
    BY DEF CloseBarrier, Receive
  <1> DEFINE i == message.instance
  <1>2. /\ UNCHANGED <<gathered, validator, command, roundsRun>>
        /\ driver = "barrier"
        /\ \/ /\ Cardinality(reported') + Cardinality(failed') < Cardinality(live)
              /\ UNCHANGED <<driver, live, round>>
           \/ /\ ~(Cardinality(reported') + Cardinality(failed') < Cardinality(live))
              /\ driver' = "between" /\ live' = live \ failed' /\ round' = round + 1
    BY DEF CloseBarrier, poolVars, Survivors
  <1>3. /\ i \in Instance /\ i \in live \ (reported \cup failed)
        /\ message.phase # "done" => message.phase = "rollout" /\ Up(i)
    BY <1>2, AwaitedByStage DEF ValidationInv, ValidationTypeInv, ReplyInv
  <1>4. /\ reported \subseteq live /\ failed \subseteq live /\ reported \cap failed = {}
        /\ \A j \in reported : roundsRun[j] = round + 1 /\ Up(j)
        /\ \A m \in replies : m.phase = "rollout" => roundsRun[m.instance] = round + 1
        /\ \A j \in Awaited : Answering(j) \/ (roundsRun[j] = round /\ Up(j))
        /\ round \in Nat /\ live \subseteq Instance /\ IsFiniteSet(live)
    BY <1>2 DEF ValidationInv, RoundInv, ValidationTypeInv
  <1> HIDE DEF i
  <1>5. /\ reported' \subseteq live /\ failed' \subseteq live /\ reported' \cap failed' = {}
        /\ reported' \cup failed' = reported \cup failed \cup {i}
    BY <1>1, <1>3, <1>4 DEF i
  <1>6. \A j \in reported' : roundsRun'[j] = round + 1 /\ Up(j)'
    BY <1>1, <1>2, <1>3, <1>4 DEF i, Up
  <1>7. Cardinality(reported' \cup failed') = Cardinality(reported') + Cardinality(failed')
    <2>1. IsFiniteSet(reported') /\ IsFiniteSet(failed')
      BY <1>4, <1>5, FS_Subset
    <2>2. /\ Cardinality(reported') \in Nat /\ Cardinality(failed') \in Nat
          /\ Cardinality(reported' \cap failed') = 0
      BY <1>5, <2>1, FS_CardinalityType, FS_EmptySet
    <2>3. Cardinality(reported' \cup failed') = Cardinality(reported') + Cardinality(failed')
                                                   - Cardinality(reported' \cap failed')
      BY <2>1, FS_Union
    <2> QED  BY <2>2, <2>3
  <1>8. CASE /\ Cardinality(reported') + Cardinality(failed') < Cardinality(live)
             /\ UNCHANGED <<driver, live, round>>
    <2>1. Awaited' = Awaited \ {i} /\ driver' = driver
      BY <1>2, <1>5, <1>8, AwaitedByStage
    <2>2. /\ ReplyInv' /\ BusyInv' /\ AwaitInv'
          /\ \A j : Answering(j)' <=> Answering(j) /\ j # i
      BY <1>1, <1>2, <2>1, ReceivedInvs DEF i
    <2>3. RoundInv'
      <3>1. \A j \in Awaited' : Answering(j)' \/ (roundsRun'[j] = round /\ Up(j)')
        BY <1>2, <1>4, <2>1, <2>2 DEF Up
      <3>2. \A m \in replies' : m.phase = "rollout" => roundsRun'[m.instance] = round + 1
        BY <1>1, <1>2, <1>4 DEF Receive
      <3> QED  BY <1>2, <1>5, <1>6, <1>8, <3>1, <3>2 DEF RoundInv
    <2>4. ValidationTypeInv' /\ EarlyInv' /\ IsFiniteSet(live)'
      <3>1. ValidationTypeInv'
        BY <1>1, <1>2, <1>4, <1>5, <1>8 DEF ValidationInv, ValidationTypeInv, Receive
      <3> QED  BY <1>2, <1>4, <1>8, <3>1 DEF EarlyInv, Early
    <2> QED  BY <2>2, <2>3, <2>4 DEF ValidationInv
  <1>9. CASE /\ ~(Cardinality(reported') + Cardinality(failed') < Cardinality(live))
             /\ driver' = "between" /\ live' = live \ failed' /\ round' = round + 1
    <2>1. reported' \cup failed' = live
      <3>1. /\ Cardinality(reported' \cup failed') <= Cardinality(live)
            /\ Cardinality(reported' \cup failed') = Cardinality(live)
                  => reported' \cup failed' = live
            /\ IsFiniteSet(reported' \cup failed')
        BY <1>4, <1>5, FS_Subset
      <3>2. Cardinality(reported' \cup failed') \in Nat /\ Cardinality(live) \in Nat
        BY <1>4, <3>1, FS_CardinalityType
      <3> QED  BY <1>7, <1>9, <3>1, <3>2
    <2>2. Awaited \subseteq {i} /\ Awaited' = {}
      BY <1>2, <1>5, <1>9, <2>1, AwaitedByStage
    <2>3. ReplyInv' /\ BusyInv' /\ AwaitInv'
      <3>1. Awaited' = Awaited \ {i}
        BY <2>2
      <3> QED  BY <1>1, <1>2, <2>2, <3>1, ReceivedInvs DEF i
    <2>4. live' = reported'
      BY <1>5, <1>9, <2>1
    <2>5. RoundInv'
      BY <1>6, <1>9, <2>4 DEF RoundInv
    <2>6. ValidationTypeInv' /\ EarlyInv' /\ IsFiniteSet(live)'
      <3>1. IsFiniteSet(live')
        BY <1>4, <1>9, FS_Subset
      <3>2. ValidationTypeInv'
        BY <1>1, <1>2, <1>4, <1>5, <1>9 DEF ValidationInv, ValidationTypeInv, Receive
      <3> QED  BY <1>9, <3>1, <3>2 DEF EarlyInv, Early
    <2> QED  BY <2>3, <2>5, <2>6 DEF ValidationInv
  <1> QED  BY <1>2, <1>8, <1>9

LEMMA CollectDoneKeepsValidation ==
    ASSUME ValidationInv, CollectDone
    PROVE  ValidationInv'
  <1>1. PICK message \in replies :
           Receive(message) /\ reported' = reported \cup {message.instance}
    BY DEF CollectDone, Receive
  <1>2. /\ UNCHANGED <<gathered, validator, command, round, live, failed, roundsRun>>
        /\ driver = "finalize"
        /\ driver' = IF reported' = live THEN "over" ELSE "finalize"
    BY DEF CollectDone, poolVars
  <1>3. message.instance \in live \ reported /\ reported \subseteq live
    BY <1>2, AwaitedByStage DEF ValidationInv, ReplyInv, RoundInv
  <1>4. Awaited' = Awaited \ {message.instance} /\ (Awaited' # {} => driver' = driver)
    BY <1>1, <1>2, <1>3, AwaitedByStage
  <1>5. ReplyInv' /\ BusyInv' /\ AwaitInv'
    BY <1>1, <1>2, <1>4, ReceivedInvs
  <1>6. ValidationTypeInv' /\ EarlyInv' /\ IsFiniteSet(live)'
    <2>1. ValidationTypeInv'
      BY <1>1, <1>2, <1>3 DEF ValidationInv, ValidationTypeInv, Receive
    <2> QED  BY <1>2, <2>1 DEF ValidationInv, EarlyInv, Early
  <1>7. RoundInv'
    BY <1>1, <1>2, <1>3 DEF RoundInv
  <1> QED  BY <1>5, <1>6, <1>7 DEF ValidationInv

LEMMA StepKeepsValidation ==
    ASSUME BatchAssumption, PoolInv, ValidationInv, [BatchNext]_batchVars
    PROVE  ValidationInv'
  <1>1. ASSUME NEW w \in BenchWorker, Take(w) \/ Report(w) \/ Send(w) \/ WorkerDies(w)
        PROVE  ValidationInv'
    BY <1>1, PoolStepKeepsValidation DEF Take, Report, Send, WorkerDies
  <1>2. CASE Gather \/ GetTimesOut \/ CheckWorkers \/ Interrupt \/ SetShutdown
    BY <1>2, PoolStepKeepsValidation
       DEF Gather, GetTimesOut, CheckWorkers, Interrupt, SetShutdown, EndCollection, Early
  <1>3. CASE JoinWorkers
    BY <1>3, JoinWorkersKeepsValidation
  <1>4. ASSUME NEW i \in Instance, Validate(i) \/ ValidatorKilled(i)
        PROVE  ValidationInv'
    BY <1>4, ValidateKeepsValidation, ValidatorKilledKeepsValidation DEF PoolInv
  <1>5. CASE DrainReady \/ OpenRound \/ CloseBarrier \/ CollectDone
    BY <1>5, DrainReadyKeepsValidation, OpenRoundKeepsValidation,
       CloseBarrierKeepsValidation, CollectDoneKeepsValidation
  <1>6. CASE UNCHANGED batchVars
    BY <1>6, PoolStepKeepsValidation DEF batchVars, poolVars
  <1> QED  BY <1>1, <1>2, <1>3, <1>4, <1>5, <1>6 DEF BatchNext
-----------------------------------------------------------------------------
(* The beginning, and every step.                                          *)

\* What start_instance_workers puts into a queue.
LEMMA FirstQueue ==
    ASSUME BatchAssumption, NEW i \in Instance
    PROVE  /\ TaskQueueOf(i) \in Seq(BenchQuery \cup {Sentinel})
           /\ QueueOf(i, TaskQueueOf(i))
           /\ \A q \in BenchQuery :
                 InstanceOf[q] = i => \E n \in DOMAIN TaskQueueOf(i) : TaskQueueOf(i)[n] = q
  <1> DEFINE S == {q \in BenchQuery : InstanceOf[q] = i}
             s == SetToSeq(S)
             c == Cardinality(WorkersOf(i))
             t == [n \in 1 .. c |-> Sentinel]
             queue == TaskQueueOf(i)
             All == BenchQuery \cup {Sentinel}
  <1>1. IsFiniteSet(S) /\ c \in Nat
    <2>1. S \in SUBSET BenchQuery /\ WorkersOf(i) \in SUBSET BenchWorker
      BY DEF WorkersOf
    <2>2. IsFiniteSet(BenchQuery) /\ IsFiniteSet(BenchWorker)
      BY DEF BatchAssumption
    <2> HIDE DEF S
    <2>3. IsFiniteSet(S) /\ IsFiniteSet(WorkersOf(i))
      BY <2>1, <2>2, FS_Subset
    <2> QED  BY <2>3, FS_CardinalityType
  <1>2. /\ s \in Seq(S) /\ Len(s) \in Nat
        /\ \A m, n \in 1 .. Len(s) : s[m] = s[n] => m = n
        /\ \A e \in S : \E n \in 1 .. Len(s) : s[n] = e
    <2> HIDE DEF S
    <2>1. s \in Seq(S)
      BY <1>1, SetListed
    <2> QED  BY <1>1, <2>1, SetListed, LenProperties
  <1>3. queue = s \o t
    BY DEF TaskQueueOf
  <1> HIDE DEF c
  <1>4. t \in Seq(All) /\ Len(t) = c
    BY <1>1
  <1> HIDE DEF s, t, queue
  <1>5. s \in Seq(All) /\ \A n \in 1 .. Len(s) : s[n] \in S
    BY <1>2, LenProperties
  <1>6. /\ queue \in Seq(All) /\ Len(queue) = Len(s) + c
        /\ \A n \in 1 .. Len(s) + c :
              queue[n] = IF n <= Len(s) THEN s[n] ELSE t[n - Len(s)]
    <2> HIDE DEF All, S
    <2> s \in Seq(All) /\ t \in Seq(All)
      BY <1>4, <1>5
    <2>1. /\ s \o t \in Seq(All) /\ Len(s \o t) = Len(s) + Len(t)
          /\ \A n \in 1 .. Len(s) + Len(t) :
                (s \o t)[n] = IF n <= Len(s) THEN s[n] ELSE t[n - Len(s)]
      BY ConcatProperties
    <2> QED  BY <1>3, <1>4, <2>1
  <1>7. DOMAIN queue = 1 .. Len(s) + c
    BY <1>6, LenProperties
  <1>8. \A n \in 1 .. Len(s) + c :
           /\ n <= Len(s) => n \in 1 .. Len(s) /\ queue[n] = s[n]
           /\ n > Len(s) => queue[n] = Sentinel
    BY <1>1, <1>2, <1>6 DEF t
  <1>9. \A n \in 1 .. Len(s) : s[n] \in BenchQuery /\ s[n] # Sentinel /\ InstanceOf[s[n]] = i
    BY <1>5, Names
  <1>10. \A n \in 1 .. Len(s) : n \in 1 .. Len(s) + c /\ n <= Len(s)
    BY <1>1, <1>2
  <1>11. QueueOf(i, queue)
    <2>1. \A n \in DOMAIN queue : queue[n] # Sentinel =>
             n \in 1 .. Len(s) /\ queue[n] = s[n]
      BY <1>1, <1>2, <1>7, <1>8
    <2>2. \A n \in DOMAIN queue : queue[n] = Sentinel => ~(n <= Len(s))
      BY <1>7, <1>8, <1>9
    <2>3. \A n \in DOMAIN queue : queue[n] # Sentinel => InstanceOf[queue[n]] = i
      BY <1>9, <2>1
    <2>4. \A m, n \in DOMAIN queue : m < n /\ queue[m] = Sentinel => queue[n] = Sentinel
      BY <1>1, <1>2, <1>7, <1>8, <2>2
    <2>5. \A m, n \in DOMAIN queue : queue[m] = queue[n] /\ queue[m] # Sentinel => m = n
      BY <1>2, <2>1
    <2> QED  BY <2>3, <2>4, <2>5 DEF QueueOf
  <1>12. ASSUME NEW q \in BenchQuery, InstanceOf[q] = i
         PROVE  \E n \in DOMAIN queue : queue[n] = q
    <2>1. PICK n \in 1 .. Len(s) : s[n] = q
      BY <1>2, <1>12
    <2> QED  BY <1>7, <1>8, <1>10, <2>1
  <1> QED  BY <1>6, <1>11, <1>12 DEF queue

LEMMA InitInvariants ==
    ASSUME BatchAssumption, BatchInit
    PROVE  PoolInv /\ ValidationInv
  <1>1. Results = {}
    BY DEF BatchInit, Results
  <1>2. PoolTypeInv
    <2>1. \A i \in Instance : taskQueue[i] \in Seq(BenchQuery \cup {Sentinel})
      BY FirstQueue DEF BatchInit
    <2>2. taskQueue \in [Instance -> Seq(BenchQuery \cup {Sentinel})]
      BY <2>1 DEF BatchInit
    <2> QED  BY <2>2 DEF BatchInit, PoolTypeInv
  <1>3. QueueInv
    BY FirstQueue DEF BatchInit, QueueInv
  <1>4. \A q \in BenchQuery : Queued(q)
    BY FirstQueue, Names DEF BatchInit, Queued
  <1>5. OnceInv /\ LostInv
    BY <1>1, <1>4, Names DEF BatchInit, OnceInv, LostInv
  <1>6. LeftInv /\ EndInv
    BY DEF BatchInit, LeftInv, EndInv, Collecting
  <1>7. ValidationInv
    <2>1. Awaited = {} /\ driver \in Early /\ replies = {} /\ live = {}
      BY AwaitedByStage DEF BatchInit, Early
    <2>2. ValidationTypeInv /\ EarlyInv
      BY DEF BatchInit, ValidationTypeInv, EarlyInv
    <2>3. ReplyInv /\ BusyInv /\ AwaitInv /\ RoundInv
      BY <2>1 DEF BatchInit, ReplyInv, BusyInv, AwaitInv, RoundInv, Early
    <2>4. IsFiniteSet(live)
      BY <2>1, FS_EmptySet
    <2> QED  BY <2>2, <2>3, <2>4 DEF ValidationInv
  <1> QED  BY <1>2, <1>3, <1>5, <1>6, <1>7 DEF PoolInv

\* Every query waits, runs, has its one result or was taken along by a dead
\* worker, and every validation worker is at the rollout, and answers the
\* command, that the coordinator thinks it is at.
THEOREM BatchInvariant == BatchSpec => [](PoolInv /\ ValidationInv)
  <1>1. BatchInit => PoolInv /\ ValidationInv
    BY BatchAssumption, InitInvariants
  <1>2. PoolInv /\ ValidationInv /\ [BatchNext]_batchVars => (PoolInv /\ ValidationInv)'
    BY BatchAssumption, StepKeepsPool, StepKeepsValidation
  <1> QED  BY <1>1, <1>2, PTL DEF BatchSpec

LEMMA ResultsAreAccounted ==
    ASSUME BatchAssumption, PoolInv
    PROVE  ResultsAccounted
  <1> DEFINE answered == {r.query : r \in Results}
             lost == {q \in BenchQuery \ answered :
                         /\ \A i \in Instance : ~Contains(taskQueue[i], q)
                         /\ \A w \in BenchWorker : job[w] # q}
  <1>1. Results \in SUBSET QueryResult /\ gathered \in SUBSET QueryResult
    BY DEF PoolInv, PoolTypeInv, Results
  <1>2. Cardinality(answered) = Cardinality(Results)
    BY <1>1, OneEach DEF PoolInv, OnceInv
  <1>3. ASSUME NEW q \in lost
        PROVE  \E w \in WorkersOf(InstanceOf[q]) : job[w] = "dead"
    <2>1. ~Answered(q)
      BY <1>3 DEF Answered
    <2>2. ~Queued(q)
      <3>1. \A i \in Instance : DOMAIN taskQueue[i] = 1 .. Len(taskQueue[i])
        BY LenProperties DEF PoolInv, PoolTypeInv
      <3> QED  BY <1>3, <3>1 DEF Queued, Contains
    <2> QED  BY <1>3, <2>1, <2>2 DEF PoolInv, LostInv
  <1>4. collection = "complete" => {r.query : r \in gathered} = BenchQuery
    BY <1>1 DEF PoolInv, EndInv, QueryResult
  <1>5. collection = "exited" /\ processDeaths = 0 => answered = BenchQuery
    BY <1>1 DEF PoolInv, EndInv, QueryResult, Answered
  <1> QED  BY <1>2, <1>3, <1>4, <1>5 DEF ResultsAccounted, Results

LEMMA RoundsAreAligned ==
    ASSUME ValidationInv
    PROVE  RoundsAligned
  <1>1. live \subseteq Instance
    BY DEF ValidationInv, ValidationTypeInv
  <1>2. /\ driver = "between" /\ round > 0 => reported = live
        /\ \A i \in live : driver = "between" => roundsRun[i] = round
    BY <1>1 DEF ValidationInv, RoundInv
  <1>3. \A i \in Awaited :
           \/ validator[i] \in {"starting", "killed"}
           \/ validator[i] = "waiting" /\ command[i] # "none"
           \/ \E message \in replies : message.instance = i
    BY DEF ValidationInv, AwaitInv, Answering
  <1> QED  BY <1>2, <1>3 DEF RoundsAligned, Awaited

\* The stages of the main process, and who the summary adds up.
DriverInv ==
    /\ driver \in {"collect", "check", "shutdown", "join", "ready", "between", "barrier",
                   "finalize", "over"}
    /\ collection \in {"none", "complete", "exited", "interrupted"}
    /\ live \subseteq baselined /\ baselined \subseteq Instance

\* However many workers are killed, the results are of queries, and the instances
\* still alive are among those whose baselines the summary adds up.
THEOREM BatchTypeCorrect == BatchSpec => []BatchTypeOK
  <1>1. BatchInit => DriverInv
    BY DEF BatchInit, DriverInv
  <1>2. DriverInv /\ ValidationInv' /\ [BatchNext]_batchVars => DriverInv'
    <2> SUFFICES ASSUME DriverInv, ValidationInv', [BatchNext]_batchVars
                 PROVE  DriverInv'
      OBVIOUS
    <2>1. live' \subseteq Instance
      BY DEF ValidationInv, ValidationTypeInv
    <2>2. ASSUME NEW w \in BenchWorker, Take(w) \/ Report(w) \/ Send(w) \/ WorkerDies(w)
          PROVE  DriverInv'
      BY <2>2 DEF Take, Report, Send, WorkerDies, validationVars, DriverInv
    <2>3. ASSUME Gather \/ GetTimesOut \/ CheckWorkers \/ Interrupt \/ SetShutdown
          PROVE  DriverInv'
      BY <2>3 DEF Gather, GetTimesOut, CheckWorkers, Interrupt, SetShutdown,
                  EndCollection, validationVars, DriverInv
    <2>4. ASSUME JoinWorkers \/ OpenRound \/ CollectDone
                   \/ \E i \in Instance : Validate(i) \/ ValidatorKilled(i)
          PROVE  DriverInv'
      BY <2>4 DEF JoinWorkers, OpenRound, CollectDone, Validate, ValidatorKilled, DriverInv
    <2>5. CASE DrainReady
      BY <2>1, <2>5 DEF DrainReady, DriverInv
    <2>6. CASE CloseBarrier
      BY <2>6 DEF CloseBarrier, Survivors, DriverInv
    <2>7. CASE UNCHANGED batchVars
      BY <2>7 DEF batchVars, validationVars, DriverInv
    <2> QED  BY <2>2, <2>3, <2>4, <2>5, <2>6, <2>7 DEF BatchNext
  <1>3. PoolInv /\ ValidationInv /\ DriverInv => BatchTypeOK
    <2> SUFFICES ASSUME PoolTypeInv, ValidationTypeInv, DriverInv
                 PROVE  BatchTypeOK
      BY DEF PoolInv, ValidationInv
    <2>1. \A w \in BenchWorker : unsent[w] \subseteq QueryResult
      BY DEF PoolTypeInv
    <2>2. Results \subseteq QueryResult
      BY <2>1 DEF PoolTypeInv, Results
    <2>3. resultQueue \cup gathered \cup UNION {unsent[w] : w \in BenchWorker}
             \subseteq [query : BenchQuery, success : BOOLEAN]
      BY <2>2 DEF Results, QueryResult
    <2>4. /\ job \in [BenchWorker -> BenchQuery \cup {"free"} \cup Gone]
          /\ validator \in [Instance -> {"none", "starting", "waiting", "gone", "killed"}]
      BY DEF PoolTypeInv, ValidationTypeInv
    <2> QED  BY <2>3, <2>4 DEF DriverInv, BatchTypeOK
  <1> QED  BY <1>1, <1>2, <1>3, BatchInvariant, PTL DEF BatchSpec

\* No result of a batch is lost without a dead worker, an undisturbed
\* collection has them all, and the coordinator of the validation waits only
\* for workers that will answer and adds up the same rollouts of each
\* (collect_results, _run_validation_by_instance).
THEOREM BatchIsAccounted == BatchSpec => []BatchAccounted
  <1>1. PoolInv /\ ValidationInv => BatchAccounted
    BY BatchAssumption, ResultsAreAccounted, RoundsAreAligned DEF BatchAccounted
  <1> QED  BY <1>1, BatchInvariant, PTL

-----------------------------------------------------------------------------
(* The store of hint sets (RagStore).                                      *)

VectorRow == [vector : Config, type : SchematicType, pos : Nat]
RowStore == [rows : SUBSET VectorRow, configs : Seq(Config)]
Process == Searcher \cup {Builder}

Saving == {"saveRows", "saveConfigs", "saveManifest"}

RagTypeInv ==
    /\ files \in [rows : SUBSET VectorRow, configs : Seq(Config), complete : BOOLEAN]
    /\ memory \in [Process -> RowStore]
    /\ activity \in [Process -> {"idle", "loadRows", "loadConfigs", "retrieve", "found"}
                                    \cup Saving]
    /\ writing \subseteq Process
    /\ mixed \in BOOLEAN

\* A searcher that is not idle may write; without overlaps there is one.
AloneInv ==
    /\ \A s \in Process : activity[s] # "idle" => s \in writing
    /\ ~mixed => \A s, t \in writing : s = t

\* The rows that resolve are right, and every configuration has one.
Aligned(store) == \A r \in store.rows : Resolves(store, r) => store.configs[r.pos] = r.vector

Covered(store) ==
    \A n \in DOMAIN store.configs : \E r \in store.rows :
        Resolves(store, r) /\ store.configs[r.pos] = store.configs[n]

Writable(store) == Aligned(store) /\ Covered(store) /\ AllResolve(store)

\* The configurations of one are the first of the other's.
Continues(configs, older) ==
    \A n \in DOMAIN older : n \in DOMAIN configs /\ configs[n] = older[n]

\* What the one writer has in memory, and what it has saved so far.
StageOf(s) ==
    LET a == activity[s]  m == memory[s] IN
    /\ a \in {"idle", "loadRows"} => m = Empty
    /\ a = "loadConfigs" => files.complete /\ m = [rows |-> files.rows, configs |-> <<>>]
    /\ a = "retrieve" => files.complete /\ m = OnDisk
    /\ a = "found" => \/ m = Empty
                      \/ files.complete /\ m = OnDisk
    /\ a \in Saving => Writable(m)
    /\ a = "saveRows" /\ files.complete => files.rows \subseteq m.rows
    /\ a \in {"saveRows", "saveConfigs"} /\ files.complete =>
           Continues(m.configs, files.configs)
    /\ a \in {"saveConfigs", "saveManifest"} => files.rows = m.rows
    /\ a = "saveManifest" => files.configs = m.configs

StageInv == ~mixed => \A s \in Process : StageOf(s)

\* What is on disk, complete or not, is right, and a store that was saved
\* stays in it.
DiskInv ==
    ~mixed =>
        /\ files.complete => Aligned(OnDisk) /\ Covered(OnDisk)
        /\ \A c \in stored : files.complete /\ \E n \in DOMAIN files.configs : files.configs[n] = c

RagInv == RagTypeInv /\ AloneInv /\ StageInv /\ DiskInv

\* R is a strict order of S, and T are the k first of S under it.
StrictOrder(R, S) ==
    /\ \A u \in S : <<u, u>> \notin R
    /\ \A u, v, w \in S : <<u, v>> \in R /\ <<v, w>> \in R => <<u, w>> \in R

AreFirst(T, k, S, R) ==
    /\ Cardinality(T) = IF Cardinality(S) < k THEN Cardinality(S) ELSE k
    /\ \A t \in T, u \in S \ T : <<u, t>> \notin R

\* Of a finite set under a strict order there are always the k first.
LEMMA FirstExist ==
    ASSUME NEW S, IsFiniteSet(S), NEW R, StrictOrder(R, S), NEW k \in Nat
    PROVE  \E T \in SUBSET S : AreFirst(T, k, S, R)
  <1>1. /\ IsFiniteSet(S) /\ Cardinality(S) \in Nat
        /\ \A T \in SUBSET S : IsFiniteSet(T) /\ Cardinality(T) \in Nat
    BY FS_Subset, FS_CardinalityType
  <1>2. CASE Cardinality(S) < k
    BY <1>2 DEF AreFirst
  <1>3. CASE ~(Cardinality(S) < k)
    <2> DEFINE First(T) == \A t \in T, u \in S \ T : <<u, t>> \notin R
               F == {T \in SUBSET S : Cardinality(T) <= k /\ First(T)}
               M == {k - Cardinality(T) : T \in F}
    <2>1. {} \in F
      BY <1>1, FS_EmptySet
    <2>2. M \in SUBSET Nat /\ M # {}
      BY <1>1, <2>1
    <2>3. PICK T \in F : \A U \in F : Cardinality(U) <= Cardinality(T)
      <3>1. PICK m \in M : \A n \in M : m <= n
        <4> HIDE DEF M
        <4> QED  BY <2>2, NatMin
      <3>2. PICK T \in F : m = k - Cardinality(T)
        BY <3>1
      <3>3. ASSUME NEW U \in F
            PROVE  Cardinality(U) <= Cardinality(T)
        <4>1. k - Cardinality(U) \in M
          OBVIOUS
        <4>2. m <= k - Cardinality(U)
          BY <3>1, <4>1
        <4> QED  BY <1>1, <3>2, <4>2
      <3> QED  BY <3>3
    <2>4. ASSUME Cardinality(T) # k
          PROVE  FALSE
      <3>1. S \ T # {}
        BY <1>1, <1>3, <2>4
      <3> DEFINE Ahead(u) == {v \in S : <<v, u>> \in R}
                 N == {Cardinality(Ahead(u)) : u \in S \ T}
      <3>2. \A u \in S : Cardinality(Ahead(u)) \in Nat
        BY <1>1
      <3> HIDE DEF Ahead
      <3>3. N \in SUBSET Nat /\ N # {}
        BY <3>1, <3>2
      <3>4. PICK u \in S \ T : \A v \in S \ T : Cardinality(Ahead(u)) <= Cardinality(Ahead(v))
        <4>1. PICK m \in N : \A n \in N : m <= n
          <5> HIDE DEF N
          <5> QED  BY <3>3, NatMin
        <4> QED  BY <4>1
      <3>5. ASSUME NEW v \in S \ T
            PROVE  <<v, u>> \notin R
        <4>1. SUFFICES ASSUME <<v, u>> \in R
                       PROVE  FALSE
          OBVIOUS
        <4>2. /\ Ahead(v) \in SUBSET Ahead(u)
              /\ v \in Ahead(u) /\ v \notin Ahead(v)
          BY <4>1 DEF Ahead, StrictOrder
        <4>3. IsFiniteSet(Ahead(u)) /\ Cardinality(Ahead(u)) \in Nat
          BY <1>1 DEF Ahead
        <4>4. /\ Cardinality(Ahead(v)) <= Cardinality(Ahead(u))
              /\ Cardinality(Ahead(v)) # Cardinality(Ahead(u))
          BY <4>2, <4>3, FS_Subset
        <4>5. Cardinality(Ahead(v)) \in Nat
          BY <1>1 DEF Ahead
        <4> QED  BY <3>4, <4>3, <4>4, <4>5
      <3> HIDE DEF N
      <3> DEFINE U == T \cup {u}
      <3>6. U \in SUBSET S /\ Cardinality(U) = Cardinality(T) + 1
        BY <1>1, FS_AddElement
      <3>7. First(U)
        BY <3>5
      <3>8. Cardinality(U) <= k
        BY <1>1, <2>4, <3>6
      <3> HIDE DEF U
      <3>9. U \in F
        BY <3>6, <3>7, <3>8
      <3>10. Cardinality(U) <= Cardinality(T)
        BY <2>3, <3>9
      <3> QED  BY <1>1, <3>6, <3>10
    <2> QED  BY <1>3, <2>3, <2>4 DEF AreFirst
  <1> QED  BY <1>2, <1>3

LEMMA TrustedFound ==
    ASSUME RagAssumption, NEW found \in SUBSET Config
    PROVE  Trusted(found) \subseteq found
  <1> DEFINE faster == {c \in found : RuntimeOf[c] < BaselineTimeOf[QueryOf[c]]}
  <1>1. faster \in SUBSET Config /\ IsFiniteSet(faster) /\ MaxPerQuery \in Nat
    BY FS_Subset DEF RagAssumption
  <1>2. \E T \in SUBSET faster :
              /\ Cardinality(T) = IF Cardinality(faster) < MaxPerQuery
                                     THEN Cardinality(faster) ELSE MaxPerQuery
              /\ \A t \in T, u \in faster \ T : ~(RuntimeOf[u] < RuntimeOf[t])
    <2> DEFINE R == {p \in Config \X Config : RuntimeOf[p[1]] < RuntimeOf[p[2]]}
    <2> HIDE DEF faster
    <2>1. \A u \in Config : RuntimeOf[u] \in Nat
      BY DEF RagAssumption
    <2>2. \A u, v \in Config : <<u, v>> \in R <=> RuntimeOf[u] < RuntimeOf[v]
      OBVIOUS
    <2> HIDE DEF R
    <2>3. StrictOrder(R, faster)
      BY <1>1, <2>1, <2>2 DEF StrictOrder
    <2>4. PICK T \in SUBSET faster : AreFirst(T, MaxPerQuery, faster, R)
      BY <1>1, <2>3, FirstExist
    <2> QED  BY <1>1, <2>2, <2>4 DEF AreFirst
  <1>3. Trusted(found) \in SUBSET faster
    BY <1>2 DEF Trusted, FirstOf
  <1> QED  BY <1>3

\* add keeps what the store has, and every row it adds resolves.
LEMMA AddedStore ==
    ASSUME RagAssumption, NEW store \in RowStore, NEW K \in SUBSET Config
    PROVE  /\ Added(store, K) \in RowStore
           /\ Writable(store) => Writable(Added(store, K))
           /\ store.rows \subseteq Added(store, K).rows
           /\ Continues(Added(store, K).configs, store.configs)
  <1> DEFINE S == K \ ToSet(store.configs)
             new == SetToSeq(S)
             all == store.configs \o new
             Pos(c) == CHOOSE i \in DOMAIN all : all[i] = c
             more == {[vector |-> c, type |-> t, pos |-> Pos(c)] : c \in K, t \in SchematicType}
             store2 == [rows |-> store.rows \cup more, configs |-> all]
  <1>1. Added(store, K) = store2
    BY DEF Added
  <1>2. /\ new \in Seq(Config)
        /\ \A n \in 1 .. Len(new) : new[n] \in S
        /\ \A c \in S : \E n \in 1 .. Len(new) : new[n] = c
    <2> HIDE DEF S
    <2>1. S \in SUBSET Config /\ IsFiniteSet(S)
      BY FS_Subset DEF S, RagAssumption
    <2>2. new \in Seq(S) /\ \A c \in S : \E n \in 1 .. Len(new) : new[n] = c
      BY <2>1, SetListed
    <2> HIDE DEF new
    <2>3. Len(new) \in Nat /\ \A n \in 1 .. Len(new) : new[n] \in S
      BY <2>2, LenProperties
    <2>4. new \in Seq(Config)
      BY <2>1, <2>2
    <2> QED  BY <2>2, <2>3, <2>4
  <1> HIDE DEF new
  <1>3. /\ store.rows \in SUBSET VectorRow /\ store.configs \in Seq(Config)
        /\ Len(store.configs) \in Nat /\ DOMAIN store.configs = 1 .. Len(store.configs)
        /\ Len(new) \in Nat /\ DOMAIN new = 1 .. Len(new)
        /\ \A n \in 1 .. Len(store.configs) : store.configs[n] \in Config
    <2>1. store.rows \in SUBSET VectorRow /\ store.configs \in Seq(Config)
      BY DEF RowStore
    <2> QED  BY <1>2, <2>1, LenProperties
  <1>4. /\ all \in Seq(Config) /\ Len(all) = Len(store.configs) + Len(new)
        /\ DOMAIN all = 1 .. Len(all)
        /\ \A n \in 1 .. Len(store.configs) : all[n] = store.configs[n]
        /\ \A n \in 1 .. Len(new) : all[Len(store.configs) + n] = new[n]
    BY <1>2, <1>3, ConcatProperties, LenProperties
  <1> HIDE DEF all
  <1>5. \A c \in K : \E n \in DOMAIN all : all[n] = c
    <2> TAKE c \in K
    <2>1. CASE c \in ToSet(store.configs)
      <3>1. PICK n \in DOMAIN store.configs : store.configs[n] = c
        BY <2>1 DEF ToSet
      <3>2. n \in 1 .. Len(store.configs)
        BY ONLY <1>3, <3>1
      <3>3. n \in DOMAIN all
        BY ONLY <1>3, <1>4, <3>2
      <3> QED  BY ONLY <1>4, <3>1, <3>2, <3>3
    <2>2. CASE c \in S
      <3>1. PICK n \in 1 .. Len(new) : new[n] = c
        BY <1>2, <2>2
      <3>2. Len(store.configs) + n \in DOMAIN all
        BY <1>3, <1>4
      <3> QED  BY <1>4, <3>1, <3>2
    <2> QED  BY <2>1, <2>2
  <1>6. \A c \in K : Pos(c) \in DOMAIN all /\ all[Pos(c)] = c
    BY <1>5
  <1> HIDE DEF Pos
  <1>7. Continues(all, store.configs)
    <2>1. ASSUME NEW n \in DOMAIN store.configs
          PROVE  n \in DOMAIN all /\ all[n] = store.configs[n]
      <3>1. n \in 1 .. Len(store.configs)
        BY ONLY <1>3
      <3>2. n \in 1 .. Len(all)
        BY ONLY <1>3, <1>4, <3>1
      <3>3. DOMAIN all = 1 .. Len(all)
        BY ONLY <1>4
      <3>4. all[n] = store.configs[n]
        BY ONLY <1>4, <3>1
      <3> QED  BY ONLY <3>2, <3>3, <3>4
    <2> QED  BY ONLY <2>1 DEF Continues
  <1>8. more \in SUBSET VectorRow /\ \A r \in more : r.pos \in DOMAIN all /\ all[r.pos] = r.vector
    BY <1>4, <1>6 DEF VectorRow
  <1>9. store2 \in RowStore
    BY <1>3, <1>4, <1>8 DEF RowStore
  <1>10. ASSUME Writable(store)
         PROVE  Writable(store2)
    <2>1. \A r \in store.rows : r.pos \in DOMAIN all /\ all[r.pos] = r.vector
      <3> TAKE r \in store.rows
      <3>1. r.pos \in DOMAIN store.configs /\ store.configs[r.pos] = r.vector
        BY <1>10 DEF Writable, AllResolve, Aligned, Resolves
      <3> QED  BY <1>7, <3>1 DEF Continues
    <2>2. \A n \in DOMAIN all :
             \E r \in store.rows \cup more : r.pos \in DOMAIN all /\ all[r.pos] = all[n]
      <3> TAKE n \in DOMAIN all
      <3>1. CASE n \in DOMAIN store.configs
        <4>1. PICK r \in store.rows :
                 r.pos \in DOMAIN store.configs /\ store.configs[r.pos] = store.configs[n]
          BY <1>10, <3>1 DEF Writable, Covered, Resolves
        <4>2. r.pos \in DOMAIN all /\ all[r.pos] = all[n]
          BY <1>7, <3>1, <4>1 DEF Continues
        <4> QED  BY <4>2
      <3>2. CASE n \notin DOMAIN store.configs
        <4>1. n - Len(store.configs) \in 1 .. Len(new)
          BY <1>3, <1>4, <3>2
        <4>2. all[n] = new[n - Len(store.configs)]
          BY <1>3, <1>4, <4>1
        <4>3. all[n] \in K
          BY <1>2, <4>1, <4>2
        <4>4. PICK t \in SchematicType : TRUE
          BY DEF RagAssumption
        <4>5. [vector |-> all[n], type |-> t, pos |-> Pos(all[n])] \in more
          BY <4>3
        <4> QED  BY <1>6, <4>3, <4>5
      <3> QED  BY <3>1, <3>2
    <2> HIDE DEF more
    <2> QED  BY <1>8, <2>1, <2>2 DEF Writable, AllResolve, Aligned, Covered, Resolves
  <1> QED  BY <1>1, <1>7, <1>9, <1>10

LEMMA EmptyStore ==
    /\ Empty \in RowStore /\ Writable(Empty) /\ \A configs : Continues(configs, <<>>)
  BY DEF Empty, RowStore, Writable, AllResolve, Aligned, Covered, Resolves, Continues

\* The only writer is the only one that is not idle.
LEMMA OthersIdle ==
    ASSUME RagInv, ~mixed, NEW s \in Process, activity[s] # "idle", NEW t \in Process \ {s}
    PROVE  activity[t] = "idle" /\ memory[t] = Empty
  <1>1. activity[t] = "idle"
    BY DEF RagInv, AloneInv
  <1> QED  BY <1>1 DEF RagInv, StageInv, StageOf

LEMMA IdleStage ==
    ASSUME NEW t, activity[t] \in {"idle", "loadRows"}, memory[t] = Empty
    PROVE  StageOf(t)
  BY DEF StageOf, Saving

LEMMA IdleStagePrime ==
    ASSUME NEW t, activity'[t] \in {"idle", "loadRows"}, memory'[t] = Empty
    PROVE  StageOf(t)'
  BY DEF StageOf, Saving

\* A step of the only writer leaves the others as they are.
LEMMA WriterStages ==
    ASSUME RagInv, NEW s \in Process, activity[s] # "idle", mixed' = mixed,
           \A t \in Process \ {s} : activity'[t] = activity[t] /\ memory'[t] = memory[t],
           ~mixed => StageOf(s)'
    PROVE  StageInv'
  <1> SUFFICES ASSUME ~mixed, NEW t \in Process, t # s
               PROVE  StageOf(t)'
    BY DEF StageInv
  <1>1. activity'[t] = "idle" /\ memory'[t] = Empty
    BY OthersIdle
  <1> QED  BY <1>1, IdleStagePrime

LEMMA BeginSearchKeeps ==
    ASSUME RagInv, NEW s \in Searcher, NEW q, BeginSearch(s, q)
    PROVE  RagInv'
  <1>1. /\ activity[s] = "idle" /\ activity' = [activity EXCEPT ![s] = "loadRows"]
        /\ writing' = writing \cup {s} /\ mixed' = (mixed \/ writing # {})
        /\ UNCHANGED <<files, memory, stored>>
        /\ s \in Process
    BY DEF BeginSearch, Activity, Process
  <1>2. RagTypeInv'
    BY <1>1 DEF RagInv, RagTypeInv
  <1>3. AloneInv'
    BY <1>1 DEF RagInv, RagTypeInv, AloneInv
  <1>4. StageInv'
    <2> SUFFICES ASSUME ~mixed', NEW t \in Process
                 PROVE  StageOf(t)'
      BY DEF StageInv
    <2>1. ~mixed /\ writing = {} /\ activity[t] = "idle"
      BY <1>1 DEF RagInv, AloneInv, RagTypeInv
    <2>2. memory[t] = Empty
      BY <2>1 DEF RagInv, StageInv, StageOf
    <2>3. activity'[t] \in {"idle", "loadRows"} /\ memory'[t] = Empty
      BY <1>1, <2>1, <2>2 DEF RagInv, RagTypeInv
    <2> QED  BY <2>3, IdleStagePrime
  <1>5. DiskInv'
    BY <1>1 DEF RagInv, RagTypeInv, DiskInv, OnDisk
  <1> QED  BY <1>2, <1>3, <1>4, <1>5 DEF RagInv

LEMMA LoadRowsKeeps ==
    ASSUME RagInv, NEW s \in Searcher, LoadRows(s)
    PROVE  RagInv'
  <1>1. /\ activity[s] = "loadRows" /\ s \in Process
        /\ UNCHANGED <<files, stored, writing, mixed>>
    BY DEF LoadRows, Process
  <1>2. DiskInv'
    BY <1>1 DEF RagInv, DiskInv, OnDisk
  <1>3. CASE /\ files.complete /\ activity' = [activity EXCEPT ![s] = "loadConfigs"]
             /\ memory' = [memory EXCEPT ![s].rows = files.rows]
    <2>1. RagTypeInv'
      BY <1>1, <1>3 DEF RagInv, RagTypeInv, RowStore
    <2>2. AloneInv'
      BY <1>1, <1>3 DEF RagInv, RagTypeInv, AloneInv
    <2>3. ~mixed => StageOf(s)'
      <3> SUFFICES ASSUME ~mixed
                   PROVE  StageOf(s)'
        OBVIOUS
      <3>1. memory[s] = Empty
        BY <1>1 DEF RagInv, StageInv, StageOf
      <3>2. memory'[s] = [rows |-> files.rows, configs |-> <<>>]
        BY <1>1, <1>3, <3>1 DEF RagInv, RagTypeInv, Empty
      <3>3. activity'[s] = "loadConfigs"
        BY <1>1, <1>3 DEF RagInv, RagTypeInv
      <3> QED  BY <1>1, <1>3, <3>2, <3>3 DEF StageOf, Saving
    <2>4. StageInv'
      BY <1>1, <1>3, <2>3, WriterStages DEF RagInv, RagTypeInv
    <2> QED  BY <1>2, <2>1, <2>2, <2>4 DEF RagInv
  <1>4. CASE activity' = [activity EXCEPT ![s] = "found"] /\ UNCHANGED memory
    <2>1. RagTypeInv'
      BY <1>1, <1>4 DEF RagInv, RagTypeInv
    <2>2. AloneInv'
      BY <1>1, <1>4 DEF RagInv, RagTypeInv, AloneInv
    <2>3. ~mixed => StageOf(s)'
      <3> SUFFICES ASSUME ~mixed
                   PROVE  StageOf(s)'
        OBVIOUS
      <3>1. memory'[s] = Empty
        BY <1>1, <1>4 DEF RagInv, StageInv, StageOf
      <3>2. activity'[s] = "found"
        BY <1>1, <1>4 DEF RagInv, RagTypeInv
      <3> QED  BY <3>1, <3>2 DEF StageOf, Saving
    <2>4. StageInv'
      BY <1>1, <1>4, <2>3, WriterStages DEF RagInv, RagTypeInv
    <2> QED  BY <1>2, <2>1, <2>2, <2>4 DEF RagInv
  <1> QED  BY <1>3, <1>4 DEF LoadRows, Activity

LEMMA LoadConfigsKeeps ==
    ASSUME RagInv, NEW s \in Searcher, LoadConfigs(s)
    PROVE  RagInv'
  <1>1. /\ activity[s] = "loadConfigs" /\ s \in Process
        /\ activity' = [activity EXCEPT ![s] = "retrieve"]
        /\ memory' = [memory EXCEPT ![s].configs = files.configs]
        /\ UNCHANGED <<files, stored, writing, mixed>>
    BY DEF LoadConfigs, Activity, Process
  <1>2. RagTypeInv'
    BY <1>1 DEF RagInv, RagTypeInv, RowStore
  <1>3. AloneInv'
    BY <1>1 DEF RagInv, RagTypeInv, AloneInv
  <1>4. ~mixed => StageOf(s)'
    <2> SUFFICES ASSUME ~mixed
                 PROVE  StageOf(s)'
      OBVIOUS
    <2>1. files.complete /\ memory[s] = [rows |-> files.rows, configs |-> <<>>]
      BY <1>1 DEF RagInv, StageInv, StageOf
    <2>2. memory'[s] = [rows |-> files.rows, configs |-> files.configs]
      BY <1>1, <2>1 DEF RagInv, RagTypeInv
    <2>3. activity'[s] = "retrieve"
      BY <1>1 DEF RagInv, RagTypeInv
    <2> QED  BY <1>1, <2>1, <2>2, <2>3 DEF StageOf, Saving, OnDisk
  <1>5. StageInv'
    BY <1>1, <1>4, WriterStages DEF RagInv, RagTypeInv
  <1>6. DiskInv'
    BY <1>1 DEF RagInv, DiskInv, OnDisk
  <1> QED  BY <1>2, <1>3, <1>5, <1>6 DEF RagInv

LEMMA RetrieveKeeps ==
    ASSUME RagInv, NEW s \in Searcher, Retrieve(s)
    PROVE  RagInv'
  <1>1. /\ activity[s] = "retrieve" /\ s \in Process
        /\ activity' = [activity EXCEPT ![s] = "found"]
        /\ UNCHANGED <<files, memory, stored, writing, mixed>>
    BY DEF Retrieve, Activity, Process
  <1>2. RagTypeInv' /\ AloneInv'
    BY <1>1 DEF RagInv, RagTypeInv, AloneInv
  <1>3. activity'[s] = "found"
    BY <1>1 DEF RagInv, RagTypeInv
  <1>4. ~mixed => StageOf(s)'
    BY <1>1, <1>3 DEF RagInv, StageInv, StageOf, Saving, OnDisk
  <1>5. StageInv'
    BY <1>1, <1>4, WriterStages DEF RagInv, RagTypeInv
  <1>6. DiskInv'
    BY <1>1 DEF RagInv, DiskInv, OnDisk
  <1> QED  BY <1>2, <1>5, <1>6 DEF RagInv

\* A search that ends leaves nothing behind in memory.
LEMMA EndSearchKeeps ==
    ASSUME RagInv, NEW s \in Process, activity[s] # "idle", EndSearch(s), mixed' = mixed,
           files' \in [rows : SUBSET VectorRow, configs : Seq(Config), complete : BOOLEAN],
           DiskInv'
    PROVE  RagInv'
  <1>1. /\ activity' = [activity EXCEPT ![s] = "idle"] /\ writing' = writing \ {s}
        /\ memory' = [memory EXCEPT ![s] = Empty]
    BY DEF EndSearch
  <1>2. RagTypeInv'
    BY <1>1, EmptyStore DEF RagInv, RagTypeInv
  <1>3. AloneInv'
    BY <1>1 DEF RagInv, RagTypeInv, AloneInv
  <1>4. activity'[s] = "idle" /\ memory'[s] = Empty
    BY <1>1 DEF RagInv, RagTypeInv
  <1>5. StageOf(s)'
    BY <1>4, IdleStagePrime
  <1>6. StageInv'
    BY <1>1, <1>5, WriterStages DEF RagInv, RagTypeInv
  <1> QED  BY <1>2, <1>3, <1>6 DEF RagInv

\* A search that found something loads what is on disk, if it is complete.
LEMMA LoadedStore ==
    ASSUME RagInv, ~mixed, NEW s \in Process, activity[s] = "found"
    PROVE  Loaded(s) = IF files.complete THEN OnDisk ELSE Empty
  <1>1. memory[s] = Empty \/ (files.complete /\ memory[s] = OnDisk)
    BY DEF RagInv, StageInv, StageOf
  <1>2. Empty.rows = {}
    BY DEF Empty
  <1> QED  BY <1>1, <1>2 DEF Loaded

LEMMA LoadedType ==
    ASSUME RagInv, NEW s \in Process
    PROVE  Loaded(s) \in RowStore /\ OnDisk \in RowStore
  BY EmptyStore DEF RagInv, RagTypeInv, Loaded, OnDisk, RowStore

LEMMA WriteBackKeeps ==
    ASSUME RagAssumption, RagInv, NEW s \in Searcher, NEW found \in SUBSET Config,
           WriteBack(s, found)
    PROVE  RagInv'
  <1> DEFINE kept == Trusted(found)
             store == Loaded(s)
             new == {c \in kept : \A r \in store.rows : store.configs[r.pos] # c}
  <1>1. /\ activity[s] = "found" /\ s \in Process
        /\ UNCHANGED <<files, stored, mixed>>
    BY DEF WriteBack, Process
  <1>2. DiskInv'
    BY <1>1 DEF RagInv, DiskInv, OnDisk
  <1>3. CASE EndSearch(s)
    BY <1>1, <1>2, <1>3, EndSearchKeeps DEF RagInv, RagTypeInv
  <1>4. CASE /\ AllResolve(store) /\ UNCHANGED writing
             /\ activity' = [activity EXCEPT ![s] = "saveRows"]
             /\ memory' = [memory EXCEPT ![s] = Upserted(store, kept)]
    <2>1. /\ Upserted(store, kept) = Added(store, new)
          /\ new \in SUBSET Config /\ store \in RowStore
      BY <1>1, TrustedFound, LoadedType DEF Upserted
    <2> HIDE DEF kept, new, store
    <2>2. activity'[s] = "saveRows" /\ memory'[s] = Added(store, new)
      BY <1>1, <1>4, <2>1 DEF RagInv, RagTypeInv
    <2>3. AloneInv'
      BY <1>1, <1>4 DEF RagInv, RagTypeInv, AloneInv
    <2>4. ~mixed => StageOf(s)'
      <3> SUFFICES ASSUME ~mixed
                   PROVE  StageOf(s)'
        OBVIOUS
      <3>1. store = IF files.complete THEN OnDisk ELSE Empty
        BY <1>1, LoadedStore DEF store
      <3>2. Writable(store)
        BY <1>4, <3>1, EmptyStore DEF Writable, RagInv, DiskInv
      <3>3. /\ Writable(Added(store, new))
            /\ store.rows \subseteq Added(store, new).rows
            /\ Continues(Added(store, new).configs, store.configs)
        BY <2>1, <3>2, AddedStore
      <3>4. files.complete => store.rows = files.rows /\ store.configs = files.configs
        BY <3>1 DEF OnDisk
      <3> QED  BY <1>1, <2>2, <3>3, <3>4 DEF StageOf, Saving
    <2>5. StageInv'
      BY <1>1, <1>4, <2>4, WriterStages DEF RagInv, RagTypeInv
    <2>6. RagTypeInv'
      BY <1>1, <1>4, <2>1, AddedStore DEF RagInv, RagTypeInv, Saving
    <2> QED  BY <1>2, <2>3, <2>5, <2>6 DEF RagInv
  <1> QED  BY <1>3, <1>4 DEF WriteBack, Activity

LEMMA BuildKeeps ==
    ASSUME RagAssumption, RagInv, NEW found \in SUBSET Config, Build(found)
    PROVE  RagInv'
  <1> DEFINE K == UNION {Trusted({c \in found : QueryOf[c] = q}) : q \in Query}
             store == Added(Empty, K)
             s == Builder
  <1>1. /\ activity[s] = "idle" /\ activity' = [activity EXCEPT ![s] = "saveRows"]
        /\ memory' = [memory EXCEPT ![s] = store]
        /\ writing' = writing \cup {s}
        /\ mixed' = (mixed \/ writing # {} \/ files # NoFiles)
        /\ UNCHANGED <<files, stored>>
        /\ s \in Process
    BY DEF Build, Activity, Process
  <1>2. K \in SUBSET Config
    <2>1. ASSUME NEW q \in Query
          PROVE  Trusted({c \in found : QueryOf[c] = q}) \subseteq Config
      <3> DEFINE F == {c \in found : QueryOf[c] = q}
      <3>1. F \in SUBSET Config
        OBVIOUS
      <3> HIDE DEF F
      <3>2. Trusted(F) \subseteq Config
        BY <3>1, TrustedFound
      <3> QED  BY <3>2 DEF F
    <2> DEFINE Part(q) == Trusted({c \in found : QueryOf[c] = q})
    <2>2. \A q \in Query : Part(q) \subseteq Config
      BY <2>1
    <2> HIDE DEF Part
    <2>3. UNION {Part(q) : q \in Query} \subseteq Config
      BY <2>2
    <2> QED  BY <2>3 DEF Part
  <1> HIDE DEF K
  <1>3. store \in RowStore /\ Writable(store)
    BY <1>2, EmptyStore, AddedStore
  <1> HIDE DEF store, s
  <1>4. activity'[s] = "saveRows" /\ memory'[s] = store
    BY <1>1 DEF RagInv, RagTypeInv
  <1>5. RagTypeInv'
    BY <1>1, <1>3 DEF RagInv, RagTypeInv, Saving
  <1>6. AloneInv'
    BY <1>1 DEF RagInv, RagTypeInv, AloneInv
  <1>7. StageInv'
    <2> SUFFICES ASSUME ~mixed', NEW t \in Process
                 PROVE  StageOf(t)'
      BY DEF StageInv
    <2>1. ~mixed /\ writing = {} /\ files = NoFiles
      BY <1>1 DEF RagInv, RagTypeInv
    <2>2. CASE t = s
      <3>1. ~files'.complete
        BY <1>1, <2>1 DEF NoFiles
      <3> QED  BY <1>3, <1>4, <2>2, <3>1 DEF StageOf, Saving
    <2>3. CASE t # s
      <3>1. activity[t] = "idle"
        BY <2>1 DEF RagInv, AloneInv
      <3>2. memory[t] = Empty
        BY <2>1, <3>1 DEF RagInv, StageInv, StageOf
      <3>3. activity'[t] = "idle" /\ memory'[t] = Empty
        BY <1>1, <2>3, <3>1, <3>2 DEF RagInv, RagTypeInv
      <3> QED  BY <3>3, IdleStagePrime
    <2> QED  BY <2>2, <2>3
  <1>8. DiskInv'
    BY <1>1 DEF RagInv, RagTypeInv, DiskInv, OnDisk
  <1> QED  BY <1>5, <1>6, <1>7, <1>8 DEF RagInv

LEMMA SaveRowsKeeps ==
    ASSUME RagInv, NEW s \in Process, SaveRows(s)
    PROVE  RagInv'
  <1>1. /\ activity[s] = "saveRows" /\ activity' = [activity EXCEPT ![s] = "saveConfigs"]
        /\ files' = [files EXCEPT !.rows = memory[s].rows]
        /\ UNCHANGED <<memory, stored, writing, mixed>>
    BY DEF SaveRows, Activity
  <1>2. /\ activity'[s] = "saveConfigs"
        /\ files'.rows = memory[s].rows /\ files'.configs = files.configs
        /\ files'.complete = files.complete
        /\ files' \in [rows : SUBSET VectorRow, configs : Seq(Config), complete : BOOLEAN]
    BY <1>1 DEF RagInv, RagTypeInv, RowStore
  <1>3. RagTypeInv' /\ AloneInv'
    BY <1>1, <1>2 DEF RagInv, RagTypeInv, AloneInv, Saving
  <1>4. ~mixed => StageOf(s)'
    <2> SUFFICES ASSUME ~mixed
                 PROVE  StageOf(s)'
      OBVIOUS
    <2>1. /\ Writable(memory[s])
          /\ files.complete => Continues(memory[s].configs, files.configs)
      BY <1>1 DEF RagInv, StageInv, StageOf, Saving
    <2> QED  BY <1>1, <1>2, <2>1 DEF StageOf, Saving
  <1>5. StageInv'
    BY <1>1, <1>4, WriterStages DEF RagInv, RagTypeInv
  <1>6. DiskInv'
    <2> SUFFICES ASSUME ~mixed
                 PROVE  /\ files.complete => Aligned(OnDisk') /\ Covered(OnDisk')
                        /\ \A c \in stored : /\ files.complete
                              /\ \E n \in DOMAIN files.configs : files.configs[n] = c
      BY <1>1, <1>2 DEF DiskInv
    <2>1. ASSUME files.complete
          PROVE  Aligned(OnDisk') /\ Covered(OnDisk')
      <3>1. /\ Writable(memory[s]) /\ Continues(memory[s].configs, files.configs)
            /\ files.rows \subseteq memory[s].rows
            /\ Covered(OnDisk)
        BY <1>1, <2>1 DEF RagInv, StageInv, StageOf, Saving, DiskInv
      <3>2. OnDisk'.rows = memory[s].rows /\ OnDisk'.configs = files.configs
        BY <1>2 DEF OnDisk
      <3>3. OnDisk.rows = files.rows /\ OnDisk.configs = files.configs
        BY DEF OnDisk
      <3>4. Aligned(OnDisk')
        BY <3>1, <3>2 DEF Writable, Aligned, Resolves, Continues
      <3>5. Covered(OnDisk')
        BY <3>1, <3>2, <3>3 DEF Covered, Resolves
      <3> QED  BY <3>4, <3>5
    <2> QED  BY <2>1 DEF RagInv, DiskInv
  <1> QED  BY <1>3, <1>5, <1>6 DEF RagInv

LEMMA SaveConfigsKeeps ==
    ASSUME RagInv, NEW s \in Process, SaveConfigs(s)
    PROVE  RagInv'
  <1>1. /\ activity[s] = "saveConfigs" /\ activity' = [activity EXCEPT ![s] = "saveManifest"]
        /\ files' = [files EXCEPT !.configs = memory[s].configs]
        /\ UNCHANGED <<memory, stored, writing, mixed>>
    BY DEF SaveConfigs, Activity
  <1>2. /\ activity'[s] = "saveManifest"
        /\ files'.rows = files.rows /\ files'.configs = memory[s].configs
        /\ files'.complete = files.complete
        /\ files' \in [rows : SUBSET VectorRow, configs : Seq(Config), complete : BOOLEAN]
    BY <1>1 DEF RagInv, RagTypeInv, RowStore
  <1>3. RagTypeInv' /\ AloneInv'
    BY <1>1, <1>2 DEF RagInv, RagTypeInv, AloneInv, Saving
  <1>4. ~mixed => /\ Writable(memory[s]) /\ files.rows = memory[s].rows
                  /\ files.complete => Continues(memory[s].configs, files.configs)
    BY <1>1 DEF RagInv, StageInv, StageOf, Saving
  <1>5. ~mixed => StageOf(s)'
    BY <1>1, <1>2, <1>4 DEF StageOf, Saving
  <1>6. StageInv'
    BY <1>1, <1>5, WriterStages DEF RagInv, RagTypeInv
  <1>7. ASSUME ~mixed
        PROVE  /\ Aligned(OnDisk') /\ Covered(OnDisk')
               /\ \A c \in stored : /\ files.complete
                     /\ \E n \in DOMAIN memory[s].configs : memory[s].configs[n] = c
    <2>1. OnDisk'.rows = memory[s].rows /\ OnDisk'.configs = memory[s].configs
      BY <1>2, <1>4, <1>7 DEF OnDisk
    <2>2. Aligned(OnDisk') /\ Covered(OnDisk')
      BY <1>4, <1>7, <2>1 DEF Writable, Aligned, Covered, Resolves
    <2>3. \A c \in stored : files.complete
                            /\ \E n \in DOMAIN files.configs : files.configs[n] = c
      BY <1>7 DEF RagInv, DiskInv
    <2> QED  BY <1>4, <1>7, <2>2, <2>3 DEF Continues
  <1>8. DiskInv'
    BY <1>1, <1>2, <1>7 DEF DiskInv
  <1> QED  BY <1>3, <1>6, <1>8 DEF RagInv

LEMMA SaveManifestKeeps ==
    ASSUME RagInv, NEW s \in Process, SaveManifest(s)
    PROVE  RagInv'
  <1>1. /\ activity[s] = "saveManifest" /\ EndSearch(s) /\ mixed' = mixed
        /\ files' = [files EXCEPT !.complete = TRUE]
        /\ stored' = stored \cup ToSet(memory[s].configs)
    BY DEF SaveManifest
  <1>2. /\ files'.rows = files.rows /\ files'.configs = files.configs /\ files'.complete
        /\ files' \in [rows : SUBSET VectorRow, configs : Seq(Config), complete : BOOLEAN]
    BY <1>1 DEF RagInv, RagTypeInv
  <1>3. ASSUME ~mixed
        PROVE  /\ Aligned(OnDisk') /\ Covered(OnDisk')
               /\ \A c \in stored' : \E n \in DOMAIN files.configs : files.configs[n] = c
    <2>1. /\ Writable(memory[s])
          /\ files.rows = memory[s].rows /\ files.configs = memory[s].configs
      BY <1>1, <1>3 DEF RagInv, StageInv, StageOf, Saving
    <2>2. OnDisk'.rows = memory[s].rows /\ OnDisk'.configs = memory[s].configs
      BY <1>2, <2>1 DEF OnDisk
    <2>3. Aligned(OnDisk') /\ Covered(OnDisk')
      BY <2>1, <2>2 DEF Writable, Aligned, Covered, Resolves
    <2>4. \A c \in ToSet(memory[s].configs) :
             \E n \in DOMAIN files.configs : files.configs[n] = c
      BY <2>1 DEF ToSet
    <2>5. \A c \in stored : \E n \in DOMAIN files.configs : files.configs[n] = c
      BY <1>3 DEF RagInv, DiskInv
    <2> QED  BY <1>1, <2>3, <2>4, <2>5
  <1>4. DiskInv'
    BY <1>1, <1>2, <1>3 DEF DiskInv
  <1> QED  BY <1>1, <1>2, <1>4, EndSearchKeeps

LEMMA DiesKeeps ==
    ASSUME RagInv, NEW s \in Process, Dies(s)
    PROVE  RagInv'
  <1>1. /\ activity[s] # "idle" /\ EndSearch(s) /\ UNCHANGED <<files, stored, mixed>>
    BY DEF Dies
  <1>2. DiskInv'
    BY <1>1 DEF RagInv, DiskInv, OnDisk
  <1> QED  BY <1>1, <1>2, EndSearchKeeps DEF RagInv, RagTypeInv

\* The store is right in every reachable state: what is on disk, what the
\* one writer loaded and what it has saved of it.
THEOREM StoreInvariant == ASSUME RagAssumption PROVE RagSpec => []RagInv
  <1>1. RagInit => RagInv
    <2> SUFFICES ASSUME RagInit
                 PROVE  RagInv
      OBVIOUS
    <2>1. /\ files = NoFiles /\ stored = {} /\ writing = {} /\ mixed = FALSE
          /\ memory = [s \in Process |-> Empty]
          /\ activity = [s \in Process |-> "idle"]
      BY DEF RagInit, Process
    <2>2. RagTypeInv
      <3>1. files \in [rows : SUBSET VectorRow, configs : Seq(Config), complete : BOOLEAN]
        BY <2>1 DEF NoFiles
      <3>2. memory \in [Process -> RowStore]
        BY <2>1, EmptyStore
      <3> QED  BY <2>1, <3>1, <3>2 DEF RagTypeInv
    <2>3. AloneInv
      BY <2>1 DEF AloneInv
    <2>4. StageInv
      BY <2>1, IdleStage DEF StageInv
    <2>5. DiskInv
      BY <2>1 DEF DiskInv, NoFiles
    <2> QED  BY <2>2, <2>3, <2>4, <2>5 DEF RagInv
  <1>2. RagInv /\ [RagNext]_ragVars => RagInv'
    <2> SUFFICES ASSUME RagInv, [RagNext]_ragVars
                 PROVE  RagInv'
      OBVIOUS
    <2>1. ASSUME NEW s \in Searcher, NEW q \in Query, BeginSearch(s, q)
          PROVE  RagInv'
      BY <2>1, BeginSearchKeeps
    <2>2. ASSUME NEW s \in Searcher, LoadRows(s)
          PROVE  RagInv'
      BY <2>2, LoadRowsKeeps
    <2>3. ASSUME NEW s \in Searcher, LoadConfigs(s)
          PROVE  RagInv'
      BY <2>3, LoadConfigsKeeps
    <2>4. ASSUME NEW s \in Searcher, Retrieve(s)
          PROVE  RagInv'
      BY <2>4, RetrieveKeeps
    <2>5. ASSUME NEW s \in Searcher, NEW found \in SUBSET Config, WriteBack(s, found)
          PROVE  RagInv'
      BY <2>5, WriteBackKeeps
    <2>6. ASSUME NEW found \in SUBSET Config, Build(found)
          PROVE  RagInv'
      BY <2>6, BuildKeeps
    <2>7. ASSUME NEW s \in Process, SaveRows(s)
          PROVE  RagInv'
      BY <2>7, SaveRowsKeeps
    <2>8. ASSUME NEW s \in Process, SaveConfigs(s)
          PROVE  RagInv'
      BY <2>8, SaveConfigsKeeps
    <2>9. ASSUME NEW s \in Process, SaveManifest(s)
          PROVE  RagInv'
      BY <2>9, SaveManifestKeeps
    <2>10. ASSUME NEW s \in Process, Dies(s)
           PROVE  RagInv'
      BY <2>10, DiesKeeps
    <2>11. ASSUME UNCHANGED ragVars
           PROVE  RagInv'
      <3>1. UNCHANGED <<files, memory, activity, stored, writing, mixed>>
        BY <2>11 DEF ragVars
      <3>2. RagTypeInv' /\ AloneInv' /\ DiskInv'
        BY <3>1 DEF RagInv, RagTypeInv, AloneInv, DiskInv, OnDisk
      <3>3. \A s \in Process : StageOf(s)' <=> StageOf(s)
        BY <3>1 DEF StageOf, OnDisk
      <3> QED  BY <3>1, <3>2, <3>3 DEF RagInv, StageInv
    <2> QED  BY <2>1, <2>2, <2>3, <2>4, <2>5, <2>6, <2>7, <2>8, <2>9, <2>10, <2>11
             DEF RagNext, Process
  <1> QED  BY <1>1, <1>2, PTL DEF RagSpec

\* Rows never lead to another query's hints and nothing written back is lost,
\* whatever dies in a save, as long as writers do not overlap (RAGStore).
THEOREM StoreIsRight == ASSUME RagAssumption PROVE RagSpec => []RowsResolveRight
  <1>1. RagInv => RowsResolveRight
    <2> SUFFICES ASSUME RagInv, ~mixed
                 PROVE  /\ files.complete => Aligned(OnDisk)
                        /\ \A s \in Searcher : Aligned(memory[s])
                        /\ \A c \in stored : \E r \in files.rows :
                              Resolves(files, r) /\ r.vector = c
      BY DEF RowsResolveRight, Aligned
    <2>1. files.complete => Aligned(OnDisk) /\ Covered(OnDisk)
      BY DEF RagInv, DiskInv
    <2>2. ASSUME NEW s \in Searcher
          PROVE  Aligned(memory[s])
      <3>1. s \in Process /\ StageOf(s)
        BY DEF Process, RagInv, StageInv
      <3>2. Aligned(Empty) /\ Aligned([rows |-> files.rows, configs |-> <<>>])
        BY DEF Aligned, Resolves, Empty
      <3>3. activity[s] \in {"idle", "loadRows", "loadConfigs", "retrieve", "found"} \cup Saving
        BY <3>1 DEF RagInv, RagTypeInv
      <3> QED  BY <2>1, <3>1, <3>2, <3>3 DEF StageOf, Writable
    <2>3. ASSUME NEW c \in stored
          PROVE  \E r \in files.rows : Resolves(files, r) /\ r.vector = c
      <3>1. PICK n \in DOMAIN files.configs : files.complete /\ files.configs[n] = c
        BY <2>3 DEF RagInv, DiskInv
      <3>2. PICK r \in files.rows :
               r.pos \in DOMAIN files.configs /\ files.configs[r.pos] = files.configs[n]
        BY <2>1, <3>1 DEF Covered, Resolves, OnDisk
      <3>3. files.configs[r.pos] = r.vector
        BY <2>1, <3>1, <3>2 DEF Aligned, Resolves, OnDisk
      <3> QED  BY <3>1, <3>2, <3>3 DEF Resolves
    <2> QED  BY <2>1, <2>2, <2>3
  <1> QED  BY <1>1, StoreInvariant, PTL

\* A function maps a finite set to a finite set.
LEMMA ImageFinite ==
    ASSUME NEW S, IsFiniteSet(S), NEW f, DOMAIN f = S, NEW T \in SUBSET {f[x] : x \in S}
    PROVE  IsFiniteSet(T)
  <1> DEFINE image == {f[x] : x \in S}
             g == [x \in S |-> f[x]]
  <1>1. g \in Surjection(S, image)
    BY DEF Surjection
  <1>2. IsFiniteSet(image)
    BY <1>1, FS_Surjection
  <1> QED  BY <1>2, FS_Subset

\* What was retrieved is a configuration with its similarity.
Hit == [config : Config, similarity : Int]

\* A schematic type yields configurations of the store.
LEMMA SearchFinds ==
    ASSUME RagAssumption, NEW store \in RowStore, IsFiniteSet(store.rows), NEW q \in Query,
           NEW type
    PROVE  SearchType(store, q, type) \subseteq
              {[config |-> p[1], similarity |-> Similarity[q][p[2]]] : p \in Config \X Config}
  <1> DEFINE rows == {r \in store.rows : r.type = type}
             R == {p \in VectorRow \X VectorRow :
                      Similarity[q][p[1].vector] > Similarity[q][p[2].vector]}
             found == FirstOf(PerTypeK, rows, LAMBDA r, o :
                          Similarity[q][r.vector] > Similarity[q][o.vector])
  <1>1. /\ store.rows \in SUBSET VectorRow /\ store.configs \in Seq(Config)
        /\ PerTypeK \in Nat /\ rows \in SUBSET store.rows
    <2>1. store.rows \in SUBSET VectorRow /\ store.configs \in Seq(Config)
      BY DEF RowStore
    <2>2. PerTypeK \in Nat
      BY DEF RagAssumption
    <2>3. rows \in SUBSET store.rows
      OBVIOUS
    <2> QED  BY <2>1, <2>2, <2>3
  <1>2. \A r \in VectorRow : Similarity[q][r.vector] \in Int
    BY DEF RagAssumption, VectorRow, Query
  <1>3. \A r, o \in VectorRow :
           <<r, o>> \in R <=> Similarity[q][r.vector] > Similarity[q][o.vector]
    OBVIOUS
  <1> HIDE DEF R, rows
  <1>4. StrictOrder(R, rows) /\ IsFiniteSet(rows)
    <2>1. rows \in SUBSET VectorRow
      BY <1>1
    <2>2. StrictOrder(R, rows)
      BY <1>2, <1>3, <2>1 DEF StrictOrder
    <2>3. IsFiniteSet(rows)
      BY <1>1, FS_Subset
    <2> QED  BY <2>2, <2>3
  <1>5. PICK T \in SUBSET rows : AreFirst(T, PerTypeK, rows, R)
    BY <1>1, <1>4, FirstExist
  <1>6. found \in SUBSET rows
    BY <1>1, <1>3, <1>5 DEF FirstOf, AreFirst
  <1> HIDE DEF found
  <1>7. ASSUME NEW r \in found, Resolves(store, r)
        PROVE  store.configs[r.pos] \in Config /\ r.vector \in Config
    BY <1>1, <1>6, <1>7 DEF Resolves, VectorRow
  <1>8. SearchType(store, q, type) =
           IF \A r \in found : Resolves(store, r)
             THEN {[config |-> store.configs[r.pos],
                    similarity |-> Similarity[q][r.vector]] : r \in found}
             ELSE {}
    BY DEF SearchType, found, rows
  <1> SUFFICES ASSUME NEW h \in SearchType(store, q, type)
               PROVE  h \in {[config |-> p[1], similarity |-> Similarity[q][p[2]]] :
                                p \in Config \X Config}
    OBVIOUS
  <1>9. PICK r \in found : /\ Resolves(store, r)
                           /\ h = [config |-> store.configs[r.pos],
                                   similarity |-> Similarity[q][r.vector]]
    BY <1>8
  <1> DEFINE c == store.configs[r.pos]
             v == r.vector
  <1>10. c \in Config /\ v \in Config /\ h = [config |-> c, similarity |-> Similarity[q][v]]
    BY <1>7, <1>9
  <1> HIDE DEF c, v
  <1>11. <<c, v>> \in Config \X Config /\ <<c, v>>[1] = c /\ <<c, v>>[2] = v
    BY <1>10
  <1> QED  BY <1>10, <1>11

\* No search is given more references than it asked for.
LEMMA RetrievedFew ==
    ASSUME RagAssumption, NEW store \in RowStore, IsFiniteSet(store.rows), NEW q \in Query
    PROVE  Cardinality(Retrieved(store, q)) <= TopK
  <1> DEFINE f == [p \in Config \X Config |->
                      [config |-> p[1], similarity |-> Similarity[q][p[2]]]]
             all == UNION {SearchType(store, q, t) : t \in SchematicType}
             hits == {h \in all : h.similarity >= MinSimilarity /\ QueryOf[h.config] # q}
             best == {h \in hits : \A o \in hits :
                          QueryOf[o.config] = QueryOf[h.config] => ~BetterRef(o, h)}
             R == {p \in Hit \X Hit : p[1].similarity > p[2].similarity}
             first == FirstOf(TopK, best, LAMBDA a, b : a.similarity > b.similarity)
  <1>1. \A p \in Config \X Config : f[p] \in Hit
    BY DEF RagAssumption, Query, Hit
  <1>2. all \subseteq {f[p] : p \in Config \X Config}
    BY SearchFinds
  <1>3. best \in SUBSET all
    OBVIOUS
  <1>4. IsFiniteSet(Config \X Config)
    BY FS_Product DEF RagAssumption
  <1>5. Retrieved(store, q) = first
    BY DEF Retrieved
  <1>6. DOMAIN f = Config \X Config
    OBVIOUS
  <1> HIDE DEF f, all, best
  <1>7. best \in SUBSET Hit
    BY <1>1, <1>2, <1>3
  <1>8. IsFiniteSet(best)
    <2>1. best \in SUBSET {f[p] : p \in Config \X Config}
      BY <1>2, <1>3
    <2> QED  BY <1>4, <1>6, <2>1, ImageFinite
  <1>9. \A a, b \in Hit : <<a, b>> \in R <=> a.similarity > b.similarity
    OBVIOUS
  <1>10. \A a \in Hit : a.similarity \in Int
    BY DEF Hit
  <1> HIDE DEF R
  <1>11. StrictOrder(R, best)
    BY <1>7, <1>9, <1>10 DEF StrictOrder
  <1>12. TopK \in Nat
    BY DEF RagAssumption
  <1>13. PICK T \in SUBSET best : AreFirst(T, TopK, best, R)
    BY <1>8, <1>11, <1>12, FirstExist
  <1>14. Cardinality(first) = IF Cardinality(best) < TopK THEN Cardinality(best) ELSE TopK
    BY <1>7, <1>9, <1>13 DEF FirstOf, AreFirst
  <1>15. Cardinality(best) \in Nat
    BY <1>8, FS_CardinalityType
  <1> HIDE DEF first
  <1> QED  BY <1>5, <1>12, <1>14, <1>15

\* A store in memory or on disk is finite, a search has a query, and no more
\* begins than the bound allows.
LimitInv ==
    /\ IsFiniteSet(files.rows)
    /\ \A p \in Process : IsFiniteSet(memory[p].rows)
    /\ DOMAIN subject = Searcher /\ DOMAIN refs = Searcher
    /\ \A s \in Searcher : activity[s] \in {"loadRows", "loadConfigs", "retrieve"} =>
           subject[s] \in Query
    /\ \A s \in Searcher : Cardinality(refs[s]) <= TopK
    /\ searches \in 0 .. MaxSearches

\* Adding configurations keeps a store finite.
LEMMA AddedFinite ==
    ASSUME RagAssumption, NEW store \in RowStore, IsFiniteSet(store.rows),
           NEW K \in SUBSET Config
    PROVE  IsFiniteSet(Added(store, K).rows)
  <1> DEFINE all == store.configs \o SetToSeq(K \ ToSet(store.configs))
             Pos(c) == CHOOSE i \in DOMAIN all : all[i] = c
             f == [p \in K \X SchematicType |-> [vector |-> p[1], type |-> p[2], pos |-> Pos(p[1])]]
             more == {[vector |-> c, type |-> t, pos |-> Pos(c)] : c \in K, t \in SchematicType}
  <1>1. Added(store, K) = [rows |-> store.rows \cup more, configs |-> all]
    BY DEF Added
  <1> HIDE DEF Pos, all
  <1>2. more \in SUBSET {f[p] : p \in K \X SchematicType} /\ DOMAIN f = K \X SchematicType
    <2>1. ASSUME NEW c \in K, NEW t \in SchematicType
          PROVE  /\ <<c, t>> \in K \X SchematicType
                 /\ f[<<c, t>>] = [vector |-> c, type |-> t, pos |-> Pos(c)]
      OBVIOUS
    <2>2. DOMAIN f = K \X SchematicType
      OBVIOUS
    <2> HIDE DEF f
    <2>3. \A m \in more : \E c \in K, t \in SchematicType : m = f[<<c, t>>]
      BY <2>1
    <2> HIDE DEF more
    <2>4. \A m \in more : \E p \in K \X SchematicType : m = f[p]
      BY <2>1, <2>3
    <2> QED  BY <2>2, <2>4
  <1>3. IsFiniteSet(K) /\ IsFiniteSet(SchematicType)
    BY FS_Subset DEF RagAssumption
  <1>4. IsFiniteSet(K \X SchematicType)
    BY <1>3, FS_Product
  <1> HIDE DEF f, more
  <1>5. IsFiniteSet(more)
    BY <1>2, <1>4, ImageFinite
  <1>6. IsFiniteSet(store.rows \cup more)
    BY <1>5, FS_Union
  <1> QED  BY <1>1, <1>6

\* Whoever searches, saves, builds or dies: the store on disk holds configurations
\* of searches, and a search is given no more references than it asked for.
THEOREM RagTypeCorrect == ASSUME RagAssumption PROVE RagSpec => []RagTypeOK
  <1>1. RagInit => LimitInv
    <2> SUFFICES ASSUME RagInit
                 PROVE  LimitInv
      OBVIOUS
    <2>1. \A s \in Searcher : Cardinality(refs[s]) <= TopK
      BY FS_EmptySet DEF RagInit, RagAssumption
    <2>2. \A p \in Process : memory[p] = Empty /\ activity[p] = "idle"
      BY DEF RagInit, Process
    <2>3. \A s \in Searcher : s \in Process
      BY DEF Process
    <2>4. IsFiniteSet(files.rows) /\ \A p \in Process : IsFiniteSet(memory[p].rows)
      <3>1. files.rows = {} /\ Empty.rows = {}
        BY DEF RagInit, NoFiles, Empty
      <3> QED  BY <2>2, <3>1, FS_EmptySet
    <2>5. DOMAIN subject = Searcher /\ DOMAIN refs = Searcher /\ searches = 0
      BY DEF RagInit
    <2> QED  BY <2>1, <2>2, <2>3, <2>4, <2>5 DEF LimitInv, RagAssumption
  <1>2. RagInv /\ LimitInv /\ [RagNext]_ragVars => LimitInv'
    <2> SUFFICES ASSUME RagInv, LimitInv, [RagNext]_ragVars
                 PROVE  LimitInv'
      OBVIOUS
    <2>1. /\ files \in [rows : SUBSET VectorRow, configs : Seq(Config), complete : BOOLEAN]
          /\ memory \in [Process -> RowStore]
          /\ DOMAIN activity = Process
          /\ Searcher \subseteq Process /\ Builder \in Process
          /\ MaxSearches \in Nat
      BY DEF RagInv, RagTypeInv, Process, RagAssumption
    <2>2. ASSUME NEW s \in Searcher, NEW q \in Query, BeginSearch(s, q)
          PROVE  LimitInv'
      <3>1. refs' = [refs EXCEPT ![s] = {}] /\ 0 <= TopK
        BY <2>2 DEF BeginSearch, RagAssumption
      <3>2. \A t \in Searcher : Cardinality(refs'[t]) <= TopK
        BY <3>1, FS_EmptySet DEF LimitInv
      <3> QED  BY <2>1, <2>2, <3>1, <3>2 DEF BeginSearch, Activity, LimitInv, Query
    <2>3. ASSUME NEW s \in Searcher, LoadRows(s)
          PROVE  LimitInv'
      <3>1. /\ activity[s] = "loadRows" /\ UNCHANGED <<files, subject, refs, searches>>
            /\ activity' = [activity EXCEPT ![s] = IF files.complete THEN "loadConfigs" ELSE "found"]
            /\ memory' = IF files.complete THEN [memory EXCEPT ![s].rows = files.rows] ELSE memory
        BY <2>3 DEF LoadRows, Activity
      <3>2. \A p \in Process : memory'[p].rows \in {memory[p].rows, files.rows}
        BY <2>1, <3>1 DEF RowStore
      <3>3. \A p \in Process : IsFiniteSet(memory'[p].rows)
        BY <3>2 DEF LimitInv
      <3> QED  BY <2>1, <3>1, <3>3 DEF LimitInv, Query
    <2>4. ASSUME NEW s \in Searcher, LoadConfigs(s)
          PROVE  LimitInv'
      BY <2>1, <2>4 DEF LoadConfigs, Activity, LimitInv, Query
    <2>5. ASSUME NEW s \in Searcher, Retrieve(s)
          PROVE  LimitInv'
      <3>1. /\ refs' = [refs EXCEPT ![s] = Retrieved(memory[s], subject[s])]
            /\ activity[s] = "retrieve" /\ activity' = [activity EXCEPT ![s] = "found"]
            /\ UNCHANGED <<files, memory, subject, searches>>
        BY <2>5 DEF Retrieve, Activity
      <3>2. Cardinality(Retrieved(memory[s], subject[s])) <= TopK
        BY <2>1, <3>1, RetrievedFew DEF LimitInv
      <3> QED  BY <2>1, <3>1, <3>2 DEF LimitInv, Query
    <2>6. ASSUME NEW s \in Searcher, NEW found \in SUBSET Config, WriteBack(s, found)
          PROVE  LimitInv'
      <3>1. activity[s] = "found" /\ UNCHANGED <<files, subject, refs, searches>>
        BY <2>6 DEF WriteBack
      <3>2. CASE EndSearch(s)
        BY <2>1, <3>1, <3>2, FS_EmptySet DEF EndSearch, LimitInv, Query, Empty
      <3>3. CASE /\ activity' = [activity EXCEPT ![s] = "saveRows"]
                 /\ memory' = [memory EXCEPT ![s] = Upserted(Loaded(s), Trusted(found))]
        <4> DEFINE K == {c \in Trusted(found) :
                            \A r \in Loaded(s).rows : Loaded(s).configs[r.pos] # c}
        <4>1. K \in SUBSET Config /\ Loaded(s) \in RowStore
          BY <2>1, TrustedFound, LoadedType
        <4>2. IsFiniteSet(Loaded(s).rows)
          BY <2>1, FS_EmptySet DEF LimitInv, Loaded, OnDisk, Empty
        <4>3. Upserted(Loaded(s), Trusted(found)) = Added(Loaded(s), K)
          BY DEF Upserted
        <4> HIDE DEF K
        <4>4. IsFiniteSet(Upserted(Loaded(s), Trusted(found)).rows)
          BY <4>1, <4>2, <4>3, AddedFinite
        <4> QED  BY <2>1, <3>1, <3>3, <4>4 DEF LimitInv, Query
      <3> QED  BY <2>6, <3>2, <3>3 DEF WriteBack, Activity
    <2>7. ASSUME NEW found \in SUBSET Config, Build(found)
          PROVE  LimitInv'
      <3> DEFINE Part(q) == Trusted({c \in found : QueryOf[c] = q})
                 K == UNION {Part(q) : q \in Query}
      <3>1. /\ memory' = [memory EXCEPT ![Builder] = Added(Empty, K)]
            /\ activity' = [activity EXCEPT ![Builder] = "saveRows"]
            /\ searches < MaxSearches /\ searches' = searches + 1
            /\ UNCHANGED <<files, subject, refs>>
        BY <2>7 DEF Build, Activity
      <3>2. \A q \in Query : Part(q) \subseteq Config
        <4> TAKE q \in Query
        <4> DEFINE F == {c \in found : QueryOf[c] = q}
        <4>1. F \in SUBSET Config
          OBVIOUS
        <4> HIDE DEF F
        <4>2. Trusted(F) \subseteq Config
          BY <4>1, TrustedFound
        <4> QED  BY <4>2 DEF F
      <3> HIDE DEF Part
      <3>3. K \in SUBSET Config /\ Empty \in RowStore /\ IsFiniteSet(Empty.rows)
        BY <3>2, EmptyStore, FS_EmptySet DEF Empty
      <3> HIDE DEF K
      <3>4. IsFiniteSet(Added(Empty, K).rows)
        BY <3>3, AddedFinite
      <3> QED  BY <2>1, <3>1, <3>4 DEF LimitInv, Query
    <2>8. ASSUME NEW s \in Process, SaveRows(s)
          PROVE  LimitInv'
      BY <2>1, <2>8 DEF SaveRows, Activity, LimitInv, Query
    <2>9. ASSUME NEW s \in Process, SaveConfigs(s)
          PROVE  LimitInv'
      BY <2>1, <2>9 DEF SaveConfigs, Activity, LimitInv, Query
    <2>10. ASSUME NEW s \in Process, SaveManifest(s)
           PROVE  LimitInv'
      BY <2>1, <2>10, FS_EmptySet DEF SaveManifest, EndSearch, LimitInv, Query, Empty
    <2>11. ASSUME NEW s \in Process, Dies(s)
           PROVE  LimitInv'
      BY <2>1, <2>11, FS_EmptySet DEF Dies, EndSearch, LimitInv, Query, Empty
    <2>12. ASSUME UNCHANGED ragVars
           PROVE  LimitInv'
      BY <2>12 DEF ragVars, LimitInv, Query
    <2> QED  BY <2>2, <2>3, <2>4, <2>5, <2>6, <2>7, <2>8, <2>9, <2>10, <2>11, <2>12
             DEF RagNext, Process
  <1>3. RagInv /\ LimitInv => RagTypeOK
    <2> SUFFICES ASSUME RagInv, LimitInv
                 PROVE  RagTypeOK
      OBVIOUS
    <2>1. files.configs \in Seq(Config)
      BY DEF RagInv, RagTypeInv
    <2>2. ToSet(files.configs) \subseteq Config
      BY <2>1 DEF ToSet
    <2> QED  BY <2>2 DEF RagInv, RagTypeInv, LimitInv, RagTypeOK, Process, Saving
  <1> QED  BY <1>1, <1>2, <1>3, StoreInvariant, PTL DEF RagSpec

-----------------------------------------------------------------------------
(* The training samples (Posterior).                                       *)

SampleTypeInv ==
    /\ sftLines \in [Tags -> Nat]
    /\ compared \subseteq [key : Tags, kept : BOOLEAN]
    /\ sftTorn \in BOOLEAN /\ cmpTorn \in BOOLEAN
    /\ passDeaths \in Nat
    /\ pen \in {<<>>} \cup (Tags \X {"sft", "cmp"} \X BOOLEAN)

\* Whose next append is to the SFT file, or to the comparison file.
Appends(t, file) == pen # <<>> /\ pen[1] = t /\ pen[2] = file

\* A run takes up samples of its stage; a judged one may be done already if it
\* is a direct sample too.
PassInv ==
    /\ passStage = "idle" =>
          directLeft = {} /\ judgeLeft = {} /\ calling = {} /\ pen = <<>>
    /\ passStage = "direct" =>
          /\ calling = {}
          /\ directLeft \subseteq DirectSamples \ DoneKeys
          /\ \A t \in Tags : Appends(t, "sft") => t \in DirectSamples \ (DoneKeys \cup directLeft)
          /\ \A t \in Tags : Appends(t, "cmp") => t \in DirectSamples \ directLeft
    /\ passStage = "judge" =>
          /\ directLeft = {}
          /\ \A t \in Tags : Appends(t, "sft") =>
                /\ t \in JudgeSamples \ (judgeLeft \cup calling)
                /\ t \in DoneKeys => t \in DirectSamples
          /\ \A t \in Tags : Appends(t, "cmp") => t \notin judgeLeft \cup calling
    /\ passStage \in {"idle", "direct", "judge"}
    /\ judgeLeft \cap calling = {}
    /\ judgeLeft \cup calling \subseteq JudgeSamples
    /\ (judgeLeft \cup calling) \cap DoneKeys \subseteq DirectSamples

\* Samples with a line but no comparison, now or after the next append: each
\* may be written again.
Owed == {t \in Tags : sftLines[t] # 0 /\ t \notin DoneKeys /\ ~Appends(t, "cmp")}

Both == DirectSamples \cap JudgeSamples

\* Samples of both kinds that may still be written twice without a death.
TwiceLeft == {t \in Both :
                 t \notin DoneKeys \/ t \in judgeLeft \cup calling \/ Appends(t, "sft")}

\* Samples recorded as kept that have no line, or will be after the next append.
LostKept == {t \in Tags : sftLines[t] = 0 /\ \/ [key |-> t, kept |-> TRUE] \in compared
                                             \/ pen = <<t, "cmp", TRUE>>}

\* A torn file swallows the next line.
SftDebt == IF sftTorn THEN 1 ELSE 0
CmpDebt == IF cmpTorn THEN 1 ELSE 0

\* What deaths have cost, or will: at most two repeated lines and a lost one each.
CostInv ==
    /\ IsFiniteSet(Repeated)
    /\ Cardinality(Repeated) + Cardinality(Owed) + CmpDebt + Cardinality(TwiceLeft)
          <= 2 * passDeaths + Cardinality(Both)
    /\ Cardinality(LostKept) + SftDebt <= passDeaths

SampleInv == SampleTypeInv /\ PassInv /\ CostInv

\* Neither kind of sample changes while the tree does not.
LEMMA SamplesStay ==
    ASSUME sftNodes' = sftNodes
    PROVE  DirectSamples' = DirectSamples /\ JudgeSamples' = JudgeSamples
  <1>1. SubtreeMin' = SubtreeMin
    BY DEF SubtreeMin
  <1>2. A4Samples' = A4Samples
    BY <1>1 DEF A4Samples, Above
  <1>3. NoChange' = NoChange
    BY DEF NoChange
  <1>4. JudgeSamples' = JudgeSamples
    BY DEF JudgeSamples, PassesNodeFilter, Above
  <1> QED  BY <1>2, <1>3, <1>4 DEF DirectSamples

LEMMA DirectTags == ASSUME PosteriorAssumption PROVE DirectSamples \subseteq Tags
  <1>1. A4Samples \subseteq Tags /\ NoChange \in SUBSET Nat /\ NoChange \subseteq Tags
    BY DEF A4Samples, NoChange, Tags, PosteriorAssumption
  <1>2. ASSUME NoChange # {}
        PROVE  Min(NoChange) \in Tags
    <2>1. \E m \in NoChange : \A n \in NoChange : m <= n
      <3> DEFINE S == NoChange
      <3> HIDE DEF S
      <3>1. S \in SUBSET Nat /\ S # {}
        BY <1>1, <1>2 DEF S
      <3>2. \E m \in S : \A n \in S : m <= n
        BY <3>1, NatMin
      <3> QED  BY <3>2 DEF S
    <2>2. Min(NoChange) \in NoChange
      BY <2>1 DEF Min
    <2> QED  BY <1>1, <2>2
  <1> QED  BY <1>1, <1>2 DEF DirectSamples

LEMMA TagSets ==
    ASSUME PosteriorAssumption, NEW S \in SUBSET Tags
    PROVE  IsFiniteSet(S) /\ Cardinality(S) \in Nat
  <1>1. IsFiniteSet(Tags)
    BY FS_Interval DEF PosteriorAssumption, Tags
  <1> QED  BY <1>1, FS_Subset, FS_CardinalityType

LEMMA Fewer ==
    ASSUME NEW T, IsFiniteSet(T), NEW S \in SUBSET T
    PROVE  IsFiniteSet(S) /\ Cardinality(S) \in Nat /\ Cardinality(T) \in Nat
           /\ Cardinality(S) <= Cardinality(T)
  BY FS_Subset, FS_CardinalityType

LEMMA OneMore ==
    ASSUME NEW T, IsFiniteSet(T), NEW x, NEW S \in SUBSET (T \cup {x})
    PROVE  IsFiniteSet(S) /\ Cardinality(S) \in Nat /\ Cardinality(T) \in Nat
           /\ Cardinality(S) <= Cardinality(T) + 1
  <1> DEFINE U == T \cup {x}
  <1>1. IsFiniteSet(U) /\ Cardinality(U) <= Cardinality(T) + 1 /\ Cardinality(T) \in Nat
    BY FS_AddElement, FS_CardinalityType
  <1>2. Cardinality(S) <= Cardinality(U) /\ IsFiniteSet(S)
        /\ Cardinality(U) \in Nat /\ Cardinality(S) \in Nat
    <2> HIDE DEF U
    <2>1. S \in SUBSET U
      BY DEF U
    <2> QED  BY <1>1, <2>1, Fewer
  <1> QED  BY <1>1, <1>2

LEMMA OneLess ==
    ASSUME NEW T, IsFiniteSet(T), NEW x \in T, NEW S \in SUBSET (T \ {x})
    PROVE  IsFiniteSet(S) /\ Cardinality(S) \in Nat /\ Cardinality(T) \in Nat
           /\ Cardinality(S) + 1 <= Cardinality(T)
  <1> DEFINE U == T \ {x}
  <1>1. IsFiniteSet(U) /\ Cardinality(U) = Cardinality(T) - 1 /\ Cardinality(T) \in Nat
    BY FS_RemoveElement, FS_CardinalityType
  <1>2. Cardinality(S) <= Cardinality(U) /\ IsFiniteSet(S)
        /\ Cardinality(U) \in Nat /\ Cardinality(S) \in Nat
    <2> HIDE DEF U
    <2>1. S \in SUBSET U
      BY DEF U
    <2> QED  BY <1>1, <2>1, Fewer
  <1> QED  BY <1>1, <1>2

\* The sets of samples the costs count are sets of samples.
LEMMA CostSets ==
    /\ Owed \in SUBSET Tags /\ TwiceLeft \in SUBSET Tags /\ LostKept \in SUBSET Tags
    /\ Both \in SUBSET Tags
    /\ Owed' \in SUBSET Tags /\ TwiceLeft' \in SUBSET Tags /\ LostKept' \in SUBSET Tags
  <1>1. JudgeSamples \subseteq Tags /\ JudgeSamples' \subseteq Tags
    BY DEF JudgeSamples
  <1>2. TwiceLeft \subseteq JudgeSamples /\ TwiceLeft' \subseteq JudgeSamples'
    BY DEF TwiceLeft, Both
  <1> QED  BY <1>1, <1>2 DEF Owed, LostKept, Both

\* A step that appends nothing and takes up no sample anew costs nothing.
LEMMA QuietCost ==
    ASSUME PosteriorAssumption, SampleInv,
           UNCHANGED <<sftNodes, sftLines, sftTorn, cmpTorn, passDeaths>>,
           Owed' \subseteq Owed, TwiceLeft' \subseteq TwiceLeft, LostKept' \subseteq LostKept
    PROVE  CostInv'
  <1>1. Repeated' = Repeated
    BY DEF Repeated
  <1>2. /\ Cardinality(Owed') <= Cardinality(Owed)
        /\ Cardinality(TwiceLeft') <= Cardinality(TwiceLeft)
        /\ Cardinality(LostKept') <= Cardinality(LostKept)
        /\ {Cardinality(Owed'), Cardinality(Owed), Cardinality(TwiceLeft'),
            Cardinality(TwiceLeft), Cardinality(LostKept'), Cardinality(LostKept),
            Cardinality(Both)} \subseteq Nat
    BY CostSets, TagSets, Fewer
  <1>3. Cardinality(Repeated) \in Nat
    BY FS_CardinalityType DEF SampleInv, CostInv
  <1>4. /\ CmpDebt' = CmpDebt /\ CmpDebt \in Nat
        /\ SftDebt' = SftDebt /\ SftDebt \in Nat
    BY DEF SftDebt, CmpDebt
  <1>5. Both' = Both
    BY SamplesStay DEF Both
  <1>6. passDeaths' = passDeaths /\ passDeaths \in Nat
    BY DEF SampleInv, SampleTypeInv
  <1> QED  BY <1>1, <1>2, <1>3, <1>4, <1>5, <1>6 DEF SampleInv, CostInv

LEMMA Writer ==
    ASSUME SampleTypeInv, pen # <<>>
    PROVE  /\ pen[1] \in Tags /\ pen[2] \in {"sft", "cmp"} /\ pen[3] \in BOOLEAN
           /\ pen = <<pen[1], pen[2], pen[3]>>
           /\ Appends(pen[1], pen[2])
           /\ \A t \in Tags : \A f : Appends(t, f) => t = pen[1] /\ f = pen[2]
  BY DEF SampleTypeInv, Appends

LEMMA NoWriter == \A t, f : (pen = <<>> => ~Appends(t, f)) /\ (pen' = <<>> => ~Appends(t, f)')
  BY DEF Appends

LEMMA NextWriter ==
    ASSUME NEW t, NEW f, NEW k, pen' = <<t, f, k>>
    PROVE  \A u, g : Appends(u, g)' <=> u = t /\ g = f
  BY DEF Appends

LEMMA StartPassKeeps ==
    ASSUME PosteriorAssumption, SampleInv, StartPass
    PROVE  SampleInv'
  <1>1. /\ passStage = "idle"
        /\ UNCHANGED <<sftNodes, calling, pen, sftLines, compared, sftTorn, cmpTorn, passDeaths>>
        /\ DoneKeys' = DoneKeys
        /\ directLeft = {} /\ judgeLeft = {} /\ calling = {} /\ pen = <<>>
    BY DEF StartPass, DoneKeys, SampleInv, PassInv
  <1>2. DirectSamples' = DirectSamples /\ JudgeSamples' = JudgeSamples
    BY <1>1, SamplesStay
  <1>3. SampleTypeInv'
    BY <1>1 DEF SampleInv, SampleTypeInv
  <1>4. \A t, f : ~Appends(t, f) /\ ~Appends(t, f)'
    BY <1>1, NoWriter
  <1>5. judgeLeft' \subseteq JudgeSamples \ DoneKeys
    BY <1>1 DEF StartPass, Pending
  <1>6. PassInv'
    BY <1>1, <1>2, <1>4, <1>5 DEF StartPass, Pending, PassInv
  <1>7. Owed' \subseteq Owed
    BY <1>1, <1>4 DEF Owed
  <1>8. TwiceLeft' \subseteq TwiceLeft
    BY <1>1, <1>2, <1>4, <1>5 DEF TwiceLeft, Both
  <1>9. LostKept' \subseteq LostKept
    BY <1>1 DEF LostKept
  <1>10. CostInv'
    BY <1>1, <1>7, <1>8, <1>9, QuietCost DEF SampleInv
  <1> QED  BY <1>3, <1>6, <1>10 DEF SampleInv

LEMMA EmitDirectKeeps ==
    ASSUME PosteriorAssumption, SampleInv, EmitDirect
    PROVE  SampleInv'
  <1>1. /\ passStage = "direct" /\ pen = <<>>
        /\ UNCHANGED <<sftNodes, judgeLeft, calling, sftLines, compared, sftTorn, cmpTorn,
                       passDeaths>>
        /\ DoneKeys' = DoneKeys /\ calling = {}
        /\ directLeft \subseteq DirectSamples \ DoneKeys
        /\ judgeLeft \subseteq JudgeSamples
    BY DEF EmitDirect, DoneKeys, SampleInv, PassInv
  <1>2. DirectSamples' = DirectSamples /\ JudgeSamples' = JudgeSamples
    BY <1>1, SamplesStay
  <1>3. \A t, f : ~Appends(t, f)
    BY <1>1, NoWriter
  <1>4. ASSUME NEW t \in directLeft, directLeft' = directLeft \ {t}, pen' = <<t, "sft", TRUE>>,
               passStage' = passStage
        PROVE  SampleInv'
    <2>1. t \in DirectSamples \ DoneKeys /\ t \in Tags
      BY <1>1, <1>4, DirectTags
    <2>2. \A u, f : Appends(u, f)' <=> u = t /\ f = "sft"
      BY <1>4, NextWriter
    <2>3. SampleTypeInv'
      BY <1>1, <1>4, <2>1 DEF SampleInv, SampleTypeInv
    <2>4. PassInv'
      BY <1>1, <1>2, <1>4, <2>1, <2>2 DEF SampleInv, PassInv
    <2>5. Owed' \subseteq Owed
      BY <1>1, <1>3, <2>2 DEF Owed
    <2>6. TwiceLeft' \subseteq TwiceLeft
      BY <1>1, <1>2, <2>1, <2>2 DEF TwiceLeft, Both
    <2>7. LostKept' \subseteq LostKept
      BY <1>1, <1>4 DEF LostKept
    <2>8. CostInv'
      BY <1>1, <2>5, <2>6, <2>7, QuietCost DEF SampleInv
    <2> QED  BY <2>3, <2>4, <2>8 DEF SampleInv
  <1>5. ASSUME directLeft = {}, passStage' = "judge", UNCHANGED <<directLeft, pen>>
        PROVE  SampleInv'
    <2>1. \A t, f : ~Appends(t, f)'
      BY <1>1, <1>5, NoWriter
    <2>2. SampleTypeInv'
      BY <1>1, <1>5 DEF SampleInv, SampleTypeInv
    <2>3. PassInv'
      BY <1>1, <1>2, <1>5, <2>1 DEF SampleInv, PassInv
    <2>4. Owed' \subseteq Owed /\ TwiceLeft' \subseteq TwiceLeft /\ LostKept' \subseteq LostKept
      BY <1>1, <1>2, <1>3, <1>5, <2>1 DEF Owed, TwiceLeft, Both, LostKept
    <2>5. CostInv'
      BY <1>1, <2>4, QuietCost DEF SampleInv
    <2> QED  BY <2>2, <2>3, <2>5 DEF SampleInv
  <1> QED  BY <1>4, <1>5 DEF EmitDirect

LEMMA CallJudgeKeeps ==
    ASSUME PosteriorAssumption, SampleInv, NEW t \in Tags, CallJudge(t)
    PROVE  SampleInv'
  <1>1. /\ passStage = "judge" /\ t \in judgeLeft
        /\ judgeLeft' = judgeLeft \ {t} /\ calling' = calling \cup {t}
        /\ UNCHANGED <<sftNodes, passStage, directLeft, pen, sftLines, compared, sftTorn,
                       cmpTorn, passDeaths>>
        /\ DoneKeys' = DoneKeys
        /\ judgeLeft' \cup calling' = judgeLeft \cup calling
    BY DEF CallJudge, DoneKeys
  <1>2. DirectSamples' = DirectSamples /\ JudgeSamples' = JudgeSamples
    BY <1>1, SamplesStay
  <1>3. \A u, f : Appends(u, f)' <=> Appends(u, f)
    BY <1>1 DEF Appends
  <1>4. SampleTypeInv'
    BY <1>1 DEF SampleInv, SampleTypeInv
  <1>5. PassInv'
    BY <1>1, <1>2, <1>3 DEF SampleInv, PassInv
  <1>6. Owed' \subseteq Owed /\ TwiceLeft' \subseteq TwiceLeft /\ LostKept' \subseteq LostKept
    BY <1>1, <1>2, <1>3 DEF Owed, TwiceLeft, Both, LostKept
  <1>7. CostInv'
    BY <1>1, <1>6, QuietCost DEF SampleInv
  <1> QED  BY <1>4, <1>5, <1>7 DEF SampleInv

LEMMA JudgedKeeps ==
    ASSUME PosteriorAssumption, SampleInv, NEW t \in Tags, Judged(t)
    PROVE  SampleInv'
  <1>1. /\ t \in calling /\ calling' = calling \ {t}
        /\ UNCHANGED <<sftNodes, passStage, directLeft, judgeLeft, sftLines, compared,
                       sftTorn, cmpTorn, passDeaths>>
        /\ DoneKeys' = DoneKeys /\ passStage = "judge" /\ t \notin judgeLeft
        /\ t \in JudgeSamples /\ (t \in DoneKeys => t \in DirectSamples)
    BY DEF Judged, DoneKeys, SampleInv, PassInv
  <1>2. DirectSamples' = DirectSamples /\ JudgeSamples' = JudgeSamples
    BY <1>1, SamplesStay
  <1>3. ASSUME pen' = pen
        PROVE  SampleInv'
    <2>1. \A u, f : Appends(u, f)' <=> Appends(u, f)
      BY <1>3 DEF Appends
    <2>2. SampleTypeInv'
      BY <1>1, <1>3 DEF SampleInv, SampleTypeInv
    <2>3. PassInv'
      BY <1>1, <1>2, <2>1 DEF SampleInv, PassInv
    <2>4. Owed' \subseteq Owed /\ TwiceLeft' \subseteq TwiceLeft /\ LostKept' \subseteq LostKept
      BY <1>1, <1>2, <1>3, <2>1 DEF Owed, TwiceLeft, Both, LostKept
    <2>5. CostInv'
      BY <1>1, <2>4, QuietCost DEF SampleInv
    <2> QED  BY <2>2, <2>3, <2>5 DEF SampleInv
  <1>4. ASSUME pen = <<>>, NEW f \in {"sft", "cmp"}, NEW k \in BOOLEAN, pen' = <<t, f, k>>,
               f = "cmp" => ~k
        PROVE  SampleInv'
    <2>1. /\ \A u, g : Appends(u, g)' <=> u = t /\ g = f
          /\ \A u, g : ~Appends(u, g)
      BY <1>4, NextWriter, NoWriter
    <2>2. SampleTypeInv'
      BY <1>1, <1>4 DEF SampleInv, SampleTypeInv
    <2>3. PassInv'
      BY <1>1, <1>2, <2>1 DEF SampleInv, PassInv
    <2>4. Owed' \subseteq Owed
      BY <1>1, <2>1 DEF Owed
    <2>5. TwiceLeft' \subseteq TwiceLeft
      BY <1>1, <1>2, <2>1 DEF TwiceLeft, Both
    <2>6. \A u : pen' # <<u, "cmp", TRUE>>
      BY <1>4
    <2>7. LostKept' \subseteq LostKept
      BY <1>1, <2>6 DEF LostKept
    <2>8. CostInv'
      BY <1>1, <2>4, <2>5, <2>7, QuietCost DEF SampleInv
    <2> QED  BY <2>2, <2>3, <2>8 DEF SampleInv
  <1> QED  BY <1>3, <1>4 DEF Judged

LEMMA EndPassKeeps ==
    ASSUME PosteriorAssumption, SampleInv, EndPass
    PROVE  SampleInv'
  <1>1. /\ passStage = "judge" /\ judgeLeft = {} /\ calling = {} /\ pen = <<>>
        /\ directLeft = {} /\ passStage' = "idle"
        /\ UNCHANGED <<sftNodes, directLeft, judgeLeft, calling, pen, sftLines, compared,
                       sftTorn, cmpTorn, passDeaths>>
        /\ DoneKeys' = DoneKeys
    BY DEF EndPass, DoneKeys, SampleInv, PassInv
  <1>2. DirectSamples' = DirectSamples /\ JudgeSamples' = JudgeSamples
    BY <1>1, SamplesStay
  <1>3. \A u, f : ~Appends(u, f)' /\ ~Appends(u, f)
    BY <1>1, NoWriter
  <1>4. SampleTypeInv' /\ PassInv'
    BY <1>1, <1>2, <1>3 DEF SampleInv, SampleTypeInv, PassInv
  <1>5. Owed' \subseteq Owed /\ TwiceLeft' \subseteq TwiceLeft /\ LostKept' \subseteq LostKept
    BY <1>1, <1>2, <1>3 DEF Owed, TwiceLeft, Both, LostKept
  <1>6. CostInv'
    BY <1>1, <1>5, QuietCost DEF SampleInv
  <1> QED  BY <1>4, <1>6 DEF SampleInv

\* An SFT line: a first line costs nothing, a second one was owed or allowed.
LEMMA WriteSftKeeps ==
    ASSUME PosteriorAssumption, SampleInv, WriteSft
    PROVE  SampleInv'
  <1> DEFINE t == pen[1]
  <1>1. /\ pen # <<>> /\ pen[2] = "sft" /\ pen' = <<t, "cmp", TRUE>> /\ sftTorn' = FALSE
        /\ sftLines' = IF sftTorn THEN sftLines ELSE [sftLines EXCEPT ![t] = @ + 1]
        /\ UNCHANGED <<sftNodes, passStage, directLeft, judgeLeft, calling, compared,
                       cmpTorn, passDeaths>>
        /\ DoneKeys' = DoneKeys
    BY DEF WriteSft, DoneKeys
  <1>2. DirectSamples' = DirectSamples /\ JudgeSamples' = JudgeSamples
    BY <1>1, SamplesStay
  <1>3. t \in Tags /\ Appends(t, "sft") /\ \A u \in Tags : \A f : Appends(u, f) => u = t /\ f = "sft"
    BY <1>1, Writer DEF SampleInv
  <1>4. \A u, g : Appends(u, g)' <=> u = t /\ g = "cmp"
    BY <1>1, NextWriter
  <1> HIDE DEF t
  <1>5. SampleTypeInv'
    <2>1. sftLines \in [Tags -> Nat] /\ sftLines[t] + 1 \in Nat
      BY <1>3 DEF SampleInv, SampleTypeInv
    <2>2. sftLines' \in [Tags -> Nat]
      BY <1>1, <2>1
    <2>3. pen' \in Tags \X {"sft", "cmp"} \X BOOLEAN
      BY <1>1, <1>3
    <2> QED  BY <1>1, <2>2, <2>3 DEF SampleInv, SampleTypeInv
  <1>6. PassInv'
    BY <1>1, <1>2, <1>3, <1>4 DEF SampleInv, PassInv
  <1>7. Owed' \subseteq Owed \ {t}
    BY <1>1, <1>3, <1>4 DEF Owed, SampleInv, SampleTypeInv
  <1>8. TwiceLeft' \subseteq TwiceLeft
    BY <1>1, <1>2, <1>4 DEF TwiceLeft, Both
  <1>9. ASSUME t \in DoneKeys
        PROVE  TwiceLeft' \subseteq TwiceLeft \ {t} /\ t \in TwiceLeft
    <2>1. t \in Both /\ t \notin judgeLeft \cup calling
      <3>1. passStage = "judge"
        BY <1>1, <1>3, <1>9 DEF SampleInv, PassInv
      <3> QED  BY <1>3, <1>9, <3>1 DEF SampleInv, PassInv, Both
    <2>2. t \in TwiceLeft
      BY <1>3, <2>1 DEF TwiceLeft
    <2>3. t \notin TwiceLeft'
      BY <1>1, <1>4, <1>9, <2>1 DEF TwiceLeft
    <2> QED  BY <1>8, <2>2, <2>3
  <1>10. sftTorn => LostKept' \subseteq LostKept \cup {t}
    BY <1>1 DEF LostKept
  <1>11. ~sftTorn => LostKept' \subseteq LostKept
    <2> SUFFICES ASSUME ~sftTorn, NEW u \in LostKept'
                 PROVE  u \in LostKept
      OBVIOUS
    <2>1. /\ u \in Tags /\ sftLines'[u] = 0
          /\ [key |-> u, kept |-> TRUE] \in compared' \/ pen' = <<u, "cmp", TRUE>>
      BY DEF LostKept
    <2>2. u # t /\ sftLines[u] = 0
      BY <1>1, <1>3, <2>1 DEF SampleInv, SampleTypeInv
    <2>3. [key |-> u, kept |-> TRUE] \in compared
      BY <1>1, <2>1, <2>2
    <2> QED  BY <2>1, <2>2, <2>3 DEF LostKept
  <1>12. /\ sftTorn \/ sftLines[t] = 0 => Repeated' \subseteq Repeated
         /\ ~sftTorn => Repeated' \subseteq Repeated \cup {<<t, sftLines[t] + 1>>}
    <2>1. sftTorn => Repeated' = Repeated
      BY <1>1 DEF Repeated
    <2>2. ASSUME ~sftTorn
          PROVE  /\ sftLines[t] = 0 => Repeated' \subseteq Repeated
                 /\ Repeated' \subseteq Repeated \cup {<<t, sftLines[t] + 1>>}
      <3>1. \A u \in Tags : sftLines'[u] = IF u = t THEN sftLines[u] + 1 ELSE sftLines[u]
        BY <1>1, <1>3, <2>2 DEF SampleInv, SampleTypeInv
      <3>2. /\ \A u \in Tags : 2 .. sftLines'[u] \subseteq
                  (2 .. sftLines[u]) \cup (IF u = t THEN {sftLines[t] + 1} ELSE {})
            /\ sftLines[t] = 0 => 2 .. sftLines'[t] = {}
        BY <1>3, <3>1 DEF SampleInv, SampleTypeInv
      <3> QED  BY <3>1, <3>2 DEF Repeated
    <2> QED  BY <2>1, <2>2
  <1>13. sftLines[t] # 0 /\ t \notin DoneKeys => t \in Owed
    BY <1>3 DEF Owed
  <1>14. CostInv'
    <2> DEFINE Free == sftTorn \/ sftLines[t] = 0
    <2>1. IsFiniteSet(Repeated) /\ Cardinality(Repeated) \in Nat
      BY FS_CardinalityType DEF SampleInv, CostInv
    <2>2. /\ IsFiniteSet(Repeated') /\ Cardinality(Repeated') \in Nat
          /\ Cardinality(Repeated') <= Cardinality(Repeated) + 1
          /\ Free => Cardinality(Repeated') <= Cardinality(Repeated)
      <3>1. CASE Free
        BY <1>12, <2>1, <3>1, Fewer
      <3>2. CASE ~Free
        BY <1>12, <2>1, <3>2, OneMore
      <3> QED  BY <2>1, <3>1, <3>2
    <2>3. /\ {Cardinality(Owed'), Cardinality(Owed), Cardinality(TwiceLeft'),
              Cardinality(TwiceLeft), Cardinality(LostKept'), Cardinality(LostKept),
              Cardinality(Both)} \subseteq Nat
          /\ IsFiniteSet(Owed) /\ IsFiniteSet(TwiceLeft) /\ IsFiniteSet(LostKept)
      BY CostSets, TagSets
    <2>4. /\ Cardinality(Owed') <= Cardinality(Owed)
          /\ t \in Owed => Cardinality(Owed') + 1 <= Cardinality(Owed)
      BY <1>7, <2>3, Fewer, OneLess
    <2>5. /\ Cardinality(TwiceLeft') <= Cardinality(TwiceLeft)
          /\ t \in DoneKeys => Cardinality(TwiceLeft') + 1 <= Cardinality(TwiceLeft)
      BY <1>8, <1>9, <2>3, Fewer, OneLess
    <2>6. Cardinality(LostKept') <= Cardinality(LostKept) + SftDebt
      <3>1. CASE sftTorn
        BY <1>10, <2>3, <3>1, OneMore DEF SftDebt, CmpDebt
      <3>2. CASE ~sftTorn
        BY <1>11, <2>3, <3>2, Fewer DEF SftDebt, CmpDebt
      <3> QED  BY <3>1, <3>2
    <2>7. /\ CmpDebt' = CmpDebt /\ CmpDebt \in Nat
          /\ SftDebt' = 0 /\ SftDebt \in Nat
      BY <1>1 DEF SftDebt, CmpDebt
    <2>8. Free \/ t \in Owed \/ t \in DoneKeys
      BY <1>13
    <2>9. Both' = Both
      BY <1>2 DEF Both
    <2>10. Cardinality(Repeated') + Cardinality(Owed') + Cardinality(TwiceLeft')
              <= Cardinality(Repeated) + Cardinality(Owed) + Cardinality(TwiceLeft)
      <3> HIDE DEF Free
      <3> QED  BY <2>1, <2>2, <2>3, <2>4, <2>5, <2>8
    <2>11. passDeaths' = passDeaths /\ passDeaths \in Nat
      BY <1>1 DEF SampleInv, SampleTypeInv
    <2> HIDE DEF Free
    <2>12. /\ Cardinality(Repeated) + Cardinality(Owed) + CmpDebt + Cardinality(TwiceLeft)
                <= 2 * passDeaths + Cardinality(Both)
           /\ Cardinality(LostKept) + SftDebt <= passDeaths
      BY DEF SampleInv, CostInv
    <2>13. Cardinality(LostKept') + SftDebt' <= passDeaths'
      BY <2>3, <2>6, <2>7, <2>11, <2>12
    <2>14. Cardinality(Repeated') + Cardinality(Owed') + CmpDebt' + Cardinality(TwiceLeft')
              <= 2 * passDeaths' + Cardinality(Both')
      BY <2>1, <2>2, <2>3, <2>7, <2>9, <2>10, <2>11, <2>12
    <2> QED  BY <2>2, <2>13, <2>14 DEF CostInv
  <1> QED  BY <1>5, <1>6, <1>14 DEF SampleInv

\* A comparison row, or none if it is glued to a torn one: then the sample is owed.
LEMMA WriteComparisonKeeps ==
    ASSUME PosteriorAssumption, SampleInv, WriteComparison
    PROVE  SampleInv'
  <1> DEFINE t == pen[1]
             row == [key |-> t, kept |-> pen[3]]
  <1>1. /\ pen # <<>> /\ pen[2] = "cmp" /\ pen' = <<>> /\ cmpTorn' = FALSE
        /\ compared' = IF cmpTorn THEN compared ELSE compared \cup {row}
        /\ UNCHANGED <<sftNodes, passStage, directLeft, judgeLeft, calling, sftLines,
                       sftTorn, passDeaths>>
    BY DEF WriteComparison
  <1>2. DirectSamples' = DirectSamples /\ JudgeSamples' = JudgeSamples
    BY <1>1, SamplesStay
  <1>3. /\ t \in Tags /\ Appends(t, "cmp") /\ pen[3] \in BOOLEAN /\ pen = <<t, "cmp", pen[3]>>
        /\ \A u \in Tags : \A f : Appends(u, f) => u = t /\ f = "cmp"
    BY <1>1, Writer DEF SampleInv
  <1>4. \A u, f : ~Appends(u, f)'
    BY <1>1, NoWriter
  <1>5. DoneKeys' = IF cmpTorn THEN DoneKeys ELSE DoneKeys \cup {t}
    <2> DEFINE Keys(S) == {r.key : r \in S}
    <2>1. row.key = t
      OBVIOUS
    <2> HIDE DEF row, t
    <2>2. Keys(compared \cup {row}) = Keys(compared) \cup {row.key}
      OBVIOUS
    <2>3. CASE cmpTorn
      BY <1>1, <2>3 DEF DoneKeys
    <2>4. CASE ~cmpTorn
      <3>1. compared' = compared \cup {row}
        BY <1>1, <2>4
      <3> QED  BY <2>1, <2>2, <2>4, <3>1 DEF DoneKeys
    <2> QED  BY <2>3, <2>4
  <1>6. row \in [key : Tags, kept : BOOLEAN]
    BY <1>3
  <1>7. row = [key |-> t, kept |-> TRUE] => pen = <<t, "cmp", TRUE>>
    <2> HAVE row = [key |-> t, kept |-> TRUE]
    <2>1. pen[3] = TRUE
      OBVIOUS
    <2> QED  BY <1>3, <2>1
  <1>8. \A u \in Tags : row = [key |-> u, kept |-> TRUE] => u = t
    OBVIOUS
  <1> HIDE DEF t, row
  <1>9. SampleTypeInv'
    BY <1>1, <1>6 DEF SampleInv, SampleTypeInv
  <1>10. PassInv'
    BY <1>1, <1>2, <1>3, <1>4, <1>5 DEF SampleInv, PassInv
  <1>11. /\ cmpTorn => Owed' \subseteq Owed \cup {t}
         /\ ~cmpTorn => Owed' \subseteq Owed
    BY <1>1, <1>3, <1>4, <1>5 DEF Owed
  <1>12. TwiceLeft' \subseteq TwiceLeft
    BY <1>1, <1>2, <1>4, <1>5 DEF TwiceLeft, Both
  <1>13. LostKept' \subseteq LostKept
    <2> SUFFICES ASSUME NEW u \in Tags, sftLines[u] = 0,
                        [key |-> u, kept |-> TRUE] \in compared'
                 PROVE  [key |-> u, kept |-> TRUE] \in compared \/ pen = <<u, "cmp", TRUE>>
      <3>1. pen' # <<pen, "cmp", TRUE>> /\ \A u : pen' # <<u, "cmp", TRUE>>
        BY <1>1
      <3> QED  BY <1>1, <3>1 DEF LostKept
    <2> QED  BY <1>1, <1>7, <1>8
  <1>14. Repeated' = Repeated
    BY <1>1 DEF Repeated
  <1>15. CostInv'
    <2>1. IsFiniteSet(Repeated) /\ Cardinality(Repeated) \in Nat
      BY FS_CardinalityType DEF SampleInv, CostInv
    <2>2. /\ {Cardinality(Owed'), Cardinality(Owed), Cardinality(TwiceLeft'),
              Cardinality(TwiceLeft), Cardinality(LostKept'), Cardinality(LostKept),
              Cardinality(Both)} \subseteq Nat
          /\ IsFiniteSet(Owed) /\ IsFiniteSet(TwiceLeft) /\ IsFiniteSet(LostKept)
      BY CostSets, TagSets
    <2>3. Cardinality(Owed') <= Cardinality(Owed) + CmpDebt
      <3>1. CASE cmpTorn
        BY <1>11, <2>2, <3>1, OneMore DEF SftDebt, CmpDebt
      <3>2. CASE ~cmpTorn
        BY <1>11, <2>2, <3>2, Fewer DEF SftDebt, CmpDebt
      <3> QED  BY <3>1, <3>2
    <2>4. /\ Cardinality(TwiceLeft') <= Cardinality(TwiceLeft)
          /\ Cardinality(LostKept') <= Cardinality(LostKept)
      BY <1>12, <1>13, <2>2, Fewer
    <2>5. /\ CmpDebt' = 0 /\ CmpDebt \in Nat
          /\ SftDebt' = SftDebt /\ SftDebt \in Nat
          /\ Both' = Both
      BY <1>1, <1>2 DEF Both, SftDebt, CmpDebt
    <2>6. passDeaths' = passDeaths /\ passDeaths \in Nat
      BY <1>1 DEF SampleInv, SampleTypeInv
    <2>7. /\ Cardinality(Repeated) + Cardinality(Owed) + CmpDebt + Cardinality(TwiceLeft)
                <= 2 * passDeaths + Cardinality(Both)
          /\ Cardinality(LostKept) + SftDebt <= passDeaths
      BY DEF SampleInv, CostInv
    <2>8. /\ Cardinality(Repeated) + Cardinality(Owed') + CmpDebt' + Cardinality(TwiceLeft')
                <= 2 * passDeaths + Cardinality(Both)
          /\ Cardinality(LostKept') + SftDebt' <= passDeaths
      BY <2>1, <2>2, <2>3, <2>4, <2>5, <2>6, <2>7
    <2> QED  BY <1>14, <2>1, <2>5, <2>6, <2>8 DEF CostInv
  <1> QED  BY <1>9, <1>10, <1>15 DEF SampleInv

\* A death leaves at most one sample owed and tears at most one file.
LEMMA PassDiesKeeps ==
    ASSUME PosteriorAssumption, SampleInv, PassDies
    PROVE  SampleInv'
  <1> DEFINE t == pen[1]
  <1>1. /\ passDeaths' = passDeaths + 1 /\ passStage' = "idle"
        /\ sftTorn' \in {sftTorn, sftTorn \/ (pen # <<>> /\ pen[2] = "sft")}
        /\ cmpTorn' \in {cmpTorn, cmpTorn \/ (pen # <<>> /\ pen[2] = "cmp")}
        /\ directLeft' = {} /\ judgeLeft' = {} /\ calling' = {} /\ pen' = <<>>
        /\ UNCHANGED <<sftNodes, sftLines, compared>>
        /\ DoneKeys' = DoneKeys
    BY DEF PassDies, DoneKeys
  <1>2. DirectSamples' = DirectSamples /\ JudgeSamples' = JudgeSamples
    BY <1>1, SamplesStay
  <1>3. /\ \A u \in Tags : \A f : Appends(u, f) => u = t /\ f = pen[2]
        /\ \A u, f : ~Appends(u, f)'
    BY <1>1, Writer, NoWriter DEF SampleInv
  <1> HIDE DEF t
  <1>4. SampleTypeInv'
    <2>1. sftTorn' \in BOOLEAN /\ cmpTorn' \in BOOLEAN
      BY <1>1 DEF SampleInv, SampleTypeInv
    <2>2. passDeaths' \in Nat
      BY <1>1 DEF SampleInv, SampleTypeInv
    <2> QED  BY <1>1, <2>1, <2>2 DEF SampleInv, SampleTypeInv
  <1>5. PassInv'
    BY <1>1, <1>2, <1>3 DEF SampleInv, PassInv
  <1>6. Owed' \subseteq Owed \cup {t}
    BY <1>1, <1>3 DEF Owed
  <1>7. TwiceLeft' \subseteq TwiceLeft
    BY <1>1, <1>2, <1>3 DEF TwiceLeft, Both
  <1>8. LostKept' \subseteq LostKept
    <2>1. \A u : pen' # <<u, "cmp", TRUE>>
      BY <1>1
    <2> QED  BY <1>1, <2>1 DEF LostKept
  <1>9. Repeated' = Repeated
    BY <1>1 DEF Repeated
  <1>10. CostInv'
    <2>1. IsFiniteSet(Repeated) /\ Cardinality(Repeated) \in Nat
      BY FS_CardinalityType DEF SampleInv, CostInv
    <2>2. /\ {Cardinality(Owed'), Cardinality(Owed), Cardinality(TwiceLeft'),
              Cardinality(TwiceLeft), Cardinality(LostKept'), Cardinality(LostKept),
              Cardinality(Both)} \subseteq Nat
          /\ IsFiniteSet(Owed) /\ IsFiniteSet(TwiceLeft) /\ IsFiniteSet(LostKept)
      BY CostSets, TagSets
    <2>3. Cardinality(Owed') <= Cardinality(Owed) + 1
      BY <1>6, <2>2, OneMore
    <2>4. /\ Cardinality(TwiceLeft') <= Cardinality(TwiceLeft)
          /\ Cardinality(LostKept') <= Cardinality(LostKept)
      BY <1>7, <1>8, <2>2, Fewer
    <2>5. /\ CmpDebt' \in {0, 1} /\ CmpDebt \in {0, 1}
          /\ CmpDebt' <= CmpDebt + 1
          /\ SftDebt' \in {0, 1} /\ SftDebt \in {0, 1}
          /\ SftDebt' <= SftDebt + 1
          /\ Both' = Both
      BY <1>2 DEF Both, SftDebt, CmpDebt
    <2>6. passDeaths' = passDeaths + 1 /\ passDeaths \in Nat
      BY <1>1 DEF SampleInv, SampleTypeInv
    <2>7. /\ Cardinality(Repeated) + Cardinality(Owed) + CmpDebt + Cardinality(TwiceLeft)
                <= 2 * passDeaths + Cardinality(Both)
          /\ Cardinality(LostKept) + SftDebt <= passDeaths
      BY DEF SampleInv, CostInv
    <2>8. /\ Cardinality(Repeated) + Cardinality(Owed') + CmpDebt' + Cardinality(TwiceLeft')
                <= 2 * (passDeaths + 1) + Cardinality(Both)
          /\ Cardinality(LostKept') + SftDebt' <= passDeaths + 1
      BY <2>1, <2>2, <2>3, <2>4, <2>5, <2>6, <2>7
    <2> QED  BY <1>9, <2>1, <2>5, <2>6, <2>8 DEF CostInv
  <1> QED  BY <1>4, <1>5, <1>10 DEF SampleInv

\* Every repeated line and every lost sample is charged to a death.
THEOREM SampleInvariant == ASSUME PosteriorAssumption PROVE PosteriorSpec => []SampleInv
  <1>1. PosteriorInit => SampleInv
    <2> SUFFICES ASSUME PosteriorInit
                 PROVE  SampleInv
      OBVIOUS
    <2>1. \A t, f : ~Appends(t, f)
      BY NoWriter DEF PosteriorInit
    <2>2. SampleTypeInv
      BY DEF PosteriorInit, SampleTypeInv
    <2>3. PassInv
      BY <2>1 DEF PosteriorInit, PassInv
    <2>4. CostInv
      <3>1. Owed = {}
        BY DEF Owed, PosteriorInit
      <3>2. Repeated = {}
        <4>1. \A t \in Tags : 2 .. sftLines[t] = {}
          BY DEF PosteriorInit
        <4> QED  BY <4>1 DEF Repeated
      <3>3. LostKept = {}
        <4>1. \A t : pen # <<t, "cmp", TRUE>>
          BY DEF PosteriorInit
        <4> QED  BY <4>1 DEF LostKept, PosteriorInit
      <3>4. TwiceLeft \in SUBSET Both
        BY DEF TwiceLeft, Both
      <3>5. /\ Cardinality(TwiceLeft) <= Cardinality(Both)
            /\ Cardinality(TwiceLeft) \in Nat
            /\ Cardinality(Both) \in Nat
        BY <3>4, CostSets, TagSets, Fewer
      <3>6. CmpDebt = 0 /\ SftDebt = 0 /\ passDeaths = 0
        BY DEF PosteriorInit, SftDebt, CmpDebt
      <3> QED  BY <3>1, <3>2, <3>3, <3>5, <3>6, FS_EmptySet DEF CostInv
    <2> QED  BY <2>2, <2>3, <2>4 DEF SampleInv
  <1>2. SampleInv /\ [PosteriorNext]_posteriorVars => SampleInv'
    <2> SUFFICES ASSUME SampleInv, [PosteriorNext]_posteriorVars
                 PROVE  SampleInv'
      OBVIOUS
    <2>1. ASSUME UNCHANGED posteriorVars
          PROVE  SampleInv'
      <3>1. UNCHANGED <<sftNodes, passStage, directLeft, judgeLeft, calling, pen, sftLines,
                        compared, sftTorn, cmpTorn, passDeaths>>
        BY <2>1 DEF posteriorVars
      <3>2. DirectSamples' = DirectSamples /\ JudgeSamples' = JudgeSamples
        BY <3>1, SamplesStay
      <3>3. DoneKeys' = DoneKeys /\ \A u, f : Appends(u, f)' <=> Appends(u, f)
        BY <3>1 DEF DoneKeys, Appends
      <3>4. SampleTypeInv' /\ PassInv'
        BY <3>1, <3>2, <3>3 DEF SampleInv, SampleTypeInv, PassInv
      <3>5. Owed' \subseteq Owed /\ TwiceLeft' \subseteq TwiceLeft /\ LostKept' \subseteq LostKept
        BY <3>1, <3>2, <3>3 DEF Owed, TwiceLeft, Both, LostKept
      <3>6. CostInv'
        BY <3>1, <3>5, QuietCost DEF SampleInv
      <3> QED  BY <3>4, <3>6 DEF SampleInv
    <2>2. ASSUME NEW t \in Tags, CallJudge(t) \/ Judged(t)
          PROVE  SampleInv'
      BY <2>2, CallJudgeKeeps, JudgedKeeps
    <2> QED  BY <2>1, <2>2, StartPassKeeps, EmitDirectKeeps, WriteSftKeeps,
                WriteComparisonKeeps, EndPassKeeps, PassDiesKeeps DEF PosteriorNext
  <1> QED  BY <1>1, <1>2, PTL DEF PosteriorSpec

\* A death costs at most one sample and two repeated ones, however often the
\* script is killed and started again (run_posterior_correction.py).
THEOREM SamplesAreAccounted ==
    ASSUME PosteriorAssumption PROVE PosteriorSpec => []SamplesAccounted
  <1>1. SampleInv => SamplesAccounted
    <2> SUFFICES ASSUME SampleInv
                 PROVE  SamplesAccounted
      OBVIOUS
    <2> DEFINE Kept == {t \in Tags : [key |-> t, kept |-> TRUE] \in compared
                                       /\ sftLines[t] = 0}
    <2>1. Kept \in SUBSET LostKept
      BY DEF LostKept
    <2>2. Cardinality(Kept) <= Cardinality(LostKept) /\ Cardinality(Kept) \in Nat
      <3> HIDE DEF Kept
      <3> QED  BY <2>1, CostSets, TagSets, Fewer
    <2>3. /\ {Cardinality(Owed), Cardinality(TwiceLeft), Cardinality(LostKept),
              Cardinality(Both), Cardinality(Repeated),
              passDeaths, CmpDebt, SftDebt} \subseteq Nat
      BY CostSets, TagSets, FS_CardinalityType DEF SampleInv, SampleTypeInv, CostInv, SftDebt, CmpDebt
    <2>4. /\ Cardinality(Repeated) + Cardinality(Owed) + CmpDebt + Cardinality(TwiceLeft)
                <= 2 * passDeaths + Cardinality(Both)
          /\ Cardinality(LostKept) + SftDebt <= passDeaths
      BY DEF SampleInv, CostInv
    <2>5. /\ Cardinality(Repeated)
                <= 2 * passDeaths + Cardinality(Both)
          /\ Cardinality(Kept) <= passDeaths
      <3> HIDE DEF Kept
      <3> QED  BY <2>2, <2>3, <2>4
    <2> QED  BY <2>5 DEF SamplesAccounted, Both
  <1> QED  BY <1>1, SampleInvariant, PTL

\* The bounds of the runs, which say what a run and a death cost, are kept.
BoundsInv ==
    /\ sftNodes \in [Tags -> TreeNode]
    /\ pass \in 0 .. MaxPasses
    /\ passDeaths \in 0 .. MaxPosteriorDeaths

\* Whatever is killed and started again, each sample of a run is of a tag, and is
\* waited for by the pool or by a call, never by both.
THEOREM PosteriorTypeCorrect ==
    ASSUME PosteriorAssumption PROVE PosteriorSpec => []PosteriorTypeOK
  <1>1. PosteriorInit => BoundsInv
    BY DEF PosteriorInit, BoundsInv, PosteriorAssumption
  <1>2. BoundsInv /\ [PosteriorNext]_posteriorVars => BoundsInv'
    <2> SUFFICES ASSUME BoundsInv, [PosteriorNext]_posteriorVars
                 PROVE  BoundsInv'
      OBVIOUS
    <2>1. UNCHANGED sftNodes
      BY DEF PosteriorNext, posteriorVars, StartPass, EmitDirect, WriteSft,
             WriteComparison, EndPass, PassDies, CallJudge, Judged
    <2>2. \/ pass < MaxPasses /\ pass' = pass + 1
          \/ UNCHANGED pass
      BY DEF PosteriorNext, posteriorVars, StartPass, EmitDirect, WriteSft,
             WriteComparison, EndPass, PassDies, CallJudge, Judged
    <2>3. \/ passDeaths < MaxPosteriorDeaths /\ passDeaths' = passDeaths + 1
          \/ UNCHANGED passDeaths
      BY DEF PosteriorNext, posteriorVars, StartPass, EmitDirect, WriteSft,
             WriteComparison, EndPass, PassDies, CallJudge, Judged
    <2>4. Tags' = Tags /\ TreeNode' = TreeNode
      BY DEF Tags, TreeNode
    <2> QED  BY <2>1, <2>2, <2>3, <2>4 DEF BoundsInv, PosteriorAssumption
  <1>3. SampleInv /\ BoundsInv => PosteriorTypeOK
    <2> SUFFICES ASSUME SampleInv, BoundsInv
                 PROVE  PosteriorTypeOK
      OBVIOUS
    <2>1. directLeft \subseteq DirectSamples /\ judgeLeft \cup calling \subseteq JudgeSamples
      BY DEF SampleInv, PassInv
    <2>2. JudgeSamples \subseteq Tags
      BY DEF JudgeSamples
    <2>3. directLeft \cup judgeLeft \cup calling \subseteq Tags
      BY <2>1, <2>2, DirectTags
    <2> QED  BY <2>3 DEF SampleInv, SampleTypeInv, PassInv, BoundsInv, PosteriorTypeOK
  <1> QED  BY <1>1, <1>2, <1>3, SampleInvariant, PTL DEF PosteriorSpec
=============================================================================
