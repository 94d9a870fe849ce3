--------------------------- MODULE Access_proofs ----------------------------
(***************************************************************************)
(* Theorems about how the program reaches the services it depends on, for  *)
(* any number of endpoints, callers, databases, processes, plans, calls    *)
(* and faults: LlmClient (rounds over the endpoints are paid by failures), *)
(* DbAccess (executions of a statement are accounted for, and it runs in   *)
(* its context) and RemoteCache (the shared cache tells the truth, and has *)
(* one entry per plan as long as nothing failed).                          *)
(***************************************************************************)
EXTENDS LlmClient, DbAccess, RemoteCache, TLAPS, FiniteSetTheorems, SequenceTheorems

-----------------------------------------------------------------------------
(* LlmClient *)
-----------------------------------------------------------------------------
(* The inductive invariant, in parts. *)

Completion == {"none", "ok", "http_error", "rate_limit_exceeded"}

ClientTypes ==
    /\ cooling \in [Endpoint -> 0 .. Cooldown]
    /\ at \in [Caller -> {"choose", "call", "mark", "test", "sleep", "done"}]
    /\ endpoint \in [Caller -> Endpoint \cup {NoEndpoint}]
    /\ rounds \in [Caller -> 0 .. MaxRetries + 1]
    /\ wait \in [Caller -> 0 .. FailedWait]
    /\ lasted \in [Caller -> 0 .. CallTimeout]
    /\ completion \in [Caller -> Completion]
    /\ failures \in [Caller -> 0 .. MaxFailures]

\* Only a sleeper waits, only one that gave up has used up its rounds, and who
\* calls or marks has an endpoint.
CallerInv ==
    \A c \in Caller :
        /\ at[c] # "sleep" => wait[c] = 0
        /\ at[c] # "done" => rounds[c] <= MaxRetries
        /\ at[c] \in {"call", "mark"} => endpoint[c] \in Endpoint
        /\ at[c] = "done" <=> completion[c] # "none"

\* Failures whose endpoint is not in cooldown yet.
Marking == {c \in Caller : at[c] = "mark"}

\* An endpoint cools longer than c will sleep.
Outlasts(c) == \E e \in Endpoint : cooling[e] > wait[c]

Credit(c) == failures[c] - Cardinality(Marking)

\* Every round is paid by a failure that was marked; an endpoint still cooling
\* when c wakes was marked after its last round, so that failure is unspent.
CreditInv ==
    FailedWait >= Cooldown =>
        \A c \in Caller : failures[c] < MaxFailures =>
            /\ rounds[c] <= Credit(c)
            /\ at[c] # "done" /\ Outlasts(c) => rounds[c] + 1 <= Credit(c)

ClientInv == ClientTypes /\ CallerInv /\ CreditInv

-----------------------------------------------------------------------------
(* How the actions move the failures that are not marked. *)

LEMMA MarkingFinite ==
    ASSUME ClientAssumption
    PROVE  IsFiniteSet(Marking) /\ Cardinality(Marking) \in Nat
<1>1. Marking \in SUBSET Caller /\ IsFiniteSet(Caller)
    BY DEF Marking, ClientAssumption
<1>2. IsFiniteSet(Marking)
    BY <1>1, FS_Subset
<1> QED
    BY <1>2, FS_CardinalityType

\* A step of c to a place that is not "mark" leaves the others where they are.
LEMMA MarkingSame ==
    ASSUME ClientTypes, NEW c \in Caller, at[c] # "mark",
           NEW place, place # "mark", at' = [at EXCEPT ![c] = place]
    PROVE  Marking' = Marking
BY DEF Marking, ClientTypes

LEMMA MarkingGrows ==
    ASSUME ClientAssumption, ClientTypes, NEW c \in Caller, at[c] # "mark",
           at' = [at EXCEPT ![c] = "mark"]
    PROVE  Cardinality(Marking') = Cardinality(Marking) + 1
<1>1. Marking' = Marking \cup {c} /\ c \notin Marking
    BY DEF Marking, ClientTypes
<1> QED
    BY <1>1, MarkingFinite, FS_AddElement

LEMMA MarkingShrinks ==
    ASSUME ClientAssumption, ClientTypes, NEW c \in Caller, at[c] = "mark",
           at' = [at EXCEPT ![c] = "test"]
    PROVE  Cardinality(Marking') = Cardinality(Marking) - 1
<1>1. Marking' = Marking \ {c} /\ c \in Marking
    BY DEF Marking, ClientTypes
<1> QED
    BY <1>1, MarkingFinite, FS_RemoveElement

-----------------------------------------------------------------------------
(* A round that no endpoint is available for. *)

\* NextRound, from "choose" or "test": the endpoint that cools is the failure
\* that pays, and the sleep outlasts every cooldown.
LEMMA NextRoundPreserves ==
    ASSUME ClientAssumption, ClientInv, NEW c \in Caller, at[c] \in {"choose", "test"},
           Available = {}, NextRound(c),
           endpoint' = endpoint, UNCHANGED <<cooling, lasted, failures>>
    PROVE  ClientInv'
<1> USE DEF ClientInv
<1>1. PICK e \in Endpoint : cooling[e] > 0
    BY DEF Available, ClientAssumption, ClientTypes
<1>2. wait[c] = 0 /\ rounds[c] <= MaxRetries /\ at[c] # "done"
    BY DEF CallerInv
<1>3. Outlasts(c)
    BY <1>1, <1>2 DEF Outlasts
<1>4. /\ rounds' = [rounds EXCEPT ![c] = @ + 1]
      /\ \/ /\ rounds[c] + 1 > MaxRetries
            /\ at' = [at EXCEPT ![c] = "done"] /\ wait' = wait
            /\ completion' = [completion EXCEPT ![c] = "rate_limit_exceeded"]
         \/ /\ rounds[c] + 1 <= MaxRetries
            /\ at' = [at EXCEPT ![c] = "sleep"]
            /\ wait' = [wait EXCEPT ![c] = FailedWait]
            /\ completion' = completion
    BY DEF NextRound, Return, ClientTypes, ClientAssumption
<1>5. Marking' = Marking
    BY <1>4, MarkingSame
<1>6. ClientTypes'
    BY <1>2, <1>4 DEF ClientTypes, ClientAssumption, Completion
<1>7. CallerInv'
    BY <1>2, <1>4 DEF CallerInv, ClientTypes, Completion, ClientAssumption
<1>8. CreditInv'
    <2> SUFFICES ASSUME FailedWait >= Cooldown,
                        NEW d \in Caller, failures[d] < MaxFailures
                 PROVE  /\ rounds'[d] <= Credit(d)'
                        /\ at'[d] # "done" /\ Outlasts(d)' => rounds'[d] + 1 <= Credit(d)'
        BY DEF CreditInv
    <2>1. Credit(d)' = Credit(d) /\ Credit(d) \in Int
        BY <1>5, MarkingFinite DEF Credit, ClientTypes
    <2>2. CASE d = c
        <3>1. rounds'[d] = rounds[d] + 1 /\ rounds[d] + 1 <= Credit(d)
            BY <1>2, <1>3, <1>4, <2>2 DEF CreditInv, ClientTypes
        <3>2. at'[d] # "done" => ~Outlasts(d)'
            BY <1>4, <2>2 DEF Outlasts, ClientTypes, ClientAssumption
        <3> QED
            BY <3>1, <3>2, <2>1
    <2>3. CASE d # c
        <3>1. rounds'[d] = rounds[d] /\ at'[d] = at[d] /\ wait'[d] = wait[d]
            BY <1>4, <2>3 DEF ClientTypes
        <3> QED
            BY <3>1, <2>1 DEF CreditInv, Outlasts
    <2> QED
        BY <2>2, <2>3
<1> QED
    BY <1>6, <1>7, <1>8

\* A step of c that changes neither rounds, waits, cooldowns nor failures, and
\* does not leave "done" or "mark".
LEMMA PlainStep ==
    ASSUME ClientAssumption, ClientInv, NEW c \in Caller,
           at[c] \notin {"mark", "done"},
           NEW place, place # "mark", at' = [at EXCEPT ![c] = place],
           UNCHANGED <<cooling, rounds, wait, failures>>
    PROVE  CreditInv'
<1> USE DEF ClientInv
<1>1. Marking' = Marking
    BY MarkingSame
<1> SUFFICES ASSUME FailedWait >= Cooldown, NEW d \in Caller, failures[d] < MaxFailures
             PROVE  /\ rounds[d] <= Credit(d)'
                    /\ at'[d] # "done" /\ Outlasts(d)' => rounds[d] + 1 <= Credit(d)'
    BY DEF CreditInv
<1>2. Credit(d)' = Credit(d) /\ (Outlasts(d)' <=> Outlasts(d))
    BY <1>1 DEF Credit, Outlasts
<1>3. at'[d] # "done" => at[d] # "done"
    BY DEF ClientTypes
<1> QED
    BY <1>2, <1>3 DEF CreditInv

-----------------------------------------------------------------------------
(* Every action preserves the invariant. *)

LEMMA InitClientInv ==
    ASSUME ClientAssumption, ClientInit
    PROVE  ClientInv
<1>1. ClientTypes
    BY DEF ClientInit, ClientTypes, ClientAssumption, Completion
<1>2. CallerInv
    BY DEF ClientInit, CallerInv, ClientAssumption
<1>3. Marking = {}
    BY DEF ClientInit, Marking
<1>4. Cardinality(Marking) = 0
    BY <1>3, FS_EmptySet
<1>5. CreditInv
    BY <1>4 DEF ClientInit, CreditInv, Credit, Outlasts
<1> QED
    BY <1>1, <1>2, <1>5 DEF ClientInv

LEMMA CompletePreserves ==
    ASSUME ClientAssumption, ClientInv, NEW c \in Caller, Complete(c)
    PROVE  ClientInv'
<1> USE DEF ClientInv
<1>1. CASE Choose(c)
    <2>1. CASE Available = {} /\ NextRound(c) /\ UNCHANGED endpoint
        BY <1>1, <2>1, NextRoundPreserves DEF Choose
    <2>2. ASSUME NEW e \in Available, endpoint' = [endpoint EXCEPT ![c] = e],
                 at' = [at EXCEPT ![c] = "call"], UNCHANGED <<rounds, wait, completion>>
          PROVE  ClientInv'
        <3>1. at[c] = "choose" /\ UNCHANGED <<cooling, lasted, failures>> /\ e \in Endpoint
            BY <1>1 DEF Choose, Available
        <3>2. ClientTypes'
            BY <2>2, <3>1 DEF ClientTypes
        <3>3. CallerInv'
            BY <2>2, <3>1 DEF CallerInv, ClientTypes
        <3>4. CreditInv'
            BY <2>2, <3>1, PlainStep
        <3> QED
            BY <3>2, <3>3, <3>4
    <2> QED
        BY <1>1, <2>1, <2>2 DEF Choose
<1>2. CASE CallReturns(c)
    <2>1. PICK status \in {"ok", "http_error"} : Return(c, status)
        BY <1>2 DEF CallReturns
    <2>2. /\ at[c] = "call" /\ at' = [at EXCEPT ![c] = "done"]
          /\ completion' = [completion EXCEPT ![c] = status]
          /\ lasted' = [lasted EXCEPT ![c] = 0]
          /\ UNCHANGED <<cooling, endpoint, rounds, wait, failures>>
        BY <1>2, <2>1 DEF CallReturns, Return
    <2>3. ClientTypes'
        BY <2>2 DEF ClientTypes, Completion, ClientAssumption
    <2>4. CallerInv'
        BY <2>2 DEF CallerInv, ClientTypes
    <2>5. CreditInv'
        BY <2>2, PlainStep
    <2> QED
        BY <2>3, <2>4, <2>5
<1>3. CASE CallFails(c)
    <2>1. /\ at[c] = "call" /\ at' = [at EXCEPT ![c] = "mark"]
          /\ lasted' = [lasted EXCEPT ![c] = 0]
          /\ UNCHANGED <<cooling, endpoint, rounds, wait, completion>>
        BY <1>3 DEF CallFails
    <2>2. \A d \in Caller :
              /\ failures'[d] \in 0 .. MaxFailures
              /\ failures'[d] < MaxFailures =>
                    failures[d] < MaxFailures /\ failures'[d] = failures[d] + 1
        BY <1>3 DEF CallFails, ClientTypes, ClientAssumption
    <2>3. ClientTypes'
        <3>1. failures' \in [Caller -> 0 .. MaxFailures]
            BY <1>3, <2>2 DEF CallFails
        <3>2. lasted' \in [Caller -> 0 .. CallTimeout]
            BY <2>1 DEF ClientTypes, ClientAssumption
        <3>3. at' \in [Caller -> {"choose", "call", "mark", "test", "sleep", "done"}]
            BY <2>1 DEF ClientTypes
        <3> QED
            BY <2>1, <3>1, <3>2, <3>3 DEF ClientTypes
    <2>4. CallerInv'
        BY <2>1 DEF CallerInv, ClientTypes
    <2>5. CreditInv'
        <3>1. Cardinality(Marking') = Cardinality(Marking) + 1
            BY <2>1, MarkingGrows
        <3> SUFFICES ASSUME FailedWait >= Cooldown,
                            NEW d \in Caller, failures'[d] < MaxFailures
                     PROVE  /\ rounds[d] <= Credit(d)'
                            /\ at'[d] # "done" /\ Outlasts(d)' => rounds[d] + 1 <= Credit(d)'
            BY <2>1 DEF CreditInv
        <3>2. Credit(d)' = Credit(d) /\ failures[d] < MaxFailures
            BY <2>2, <3>1, MarkingFinite DEF Credit, ClientTypes
        <3>3. (at'[d] # "done" => at[d] # "done") /\ (Outlasts(d)' => Outlasts(d))
            BY <2>1 DEF ClientTypes, Outlasts
        <3> QED
            BY <3>2, <3>3 DEF CreditInv
    <2> QED
        BY <2>3, <2>4, <2>5
<1>4. CASE MarkCooldown(c)
    <2>1. /\ at[c] = "mark" /\ at' = [at EXCEPT ![c] = "test"]
          /\ cooling' = [cooling EXCEPT ![endpoint[c]] = Cooldown]
          /\ UNCHANGED <<endpoint, rounds, wait, lasted, completion, failures>>
        BY <1>4 DEF MarkCooldown, CooldownTime
    <2>2. ClientTypes'
        <3>1. cooling' \in [Endpoint -> 0 .. Cooldown]
            <4>1. Cooldown \in 0 .. Cooldown
                BY DEF ClientAssumption
            <4> QED
                BY <2>1, <4>1 DEF ClientTypes
        <3>2. at' \in [Caller -> {"choose", "call", "mark", "test", "sleep", "done"}]
            BY <2>1 DEF ClientTypes
        <3> QED
            BY <2>1, <3>1, <3>2 DEF ClientTypes
    <2>3. CallerInv'
        BY <2>1 DEF CallerInv, ClientTypes
    <2>4. CreditInv'
        <3>1. Cardinality(Marking') = Cardinality(Marking) - 1
            BY <2>1, MarkingShrinks
        <3> SUFFICES ASSUME FailedWait >= Cooldown,
                            NEW d \in Caller, failures[d] < MaxFailures
                     PROVE  rounds[d] <= Credit(d)' /\ rounds[d] + 1 <= Credit(d)'
            BY <2>1 DEF CreditInv
        <3>2. Credit(d)' = Credit(d) + 1 /\ Credit(d) \in Int /\ rounds[d] <= Credit(d)
            BY <2>1, <3>1, MarkingFinite DEF Credit, ClientTypes, CreditInv
        <3> QED
            BY <3>2 DEF ClientTypes
    <2> QED
        BY <2>2, <2>3, <2>4
<1>5. CASE TestPool(c)
    <2>1. CASE Available = {}
        BY <1>5, <2>1, NextRoundPreserves DEF TestPool
    <2>2. CASE Available # {}
        <3>1. /\ at[c] = "test" /\ at' = [at EXCEPT ![c] = "choose"]
              /\ UNCHANGED <<cooling, endpoint, rounds, wait, lasted, completion, failures>>
            BY <1>5, <2>2 DEF TestPool
        <3>2. ClientTypes'
            BY <3>1 DEF ClientTypes
        <3>3. CallerInv'
            BY <3>1 DEF CallerInv, ClientTypes
        <3>4. CreditInv'
            BY <3>1, PlainStep
        <3> QED
            BY <3>2, <3>3, <3>4
    <2> QED
        BY <2>1, <2>2
<1>6. CASE Wake(c)
    <2>1. /\ at[c] = "sleep" /\ wait[c] = 0 /\ at' = [at EXCEPT ![c] = "choose"]
          /\ UNCHANGED <<cooling, endpoint, rounds, wait, lasted, completion, failures>>
        BY <1>6 DEF Wake
    <2>2. ClientTypes'
        BY <2>1 DEF ClientTypes
    <2>3. CallerInv'
        BY <2>1 DEF CallerInv, ClientTypes
    <2>4. CreditInv'
        BY <2>1, PlainStep
    <2> QED
        BY <2>2, <2>3, <2>4
<1> QED
    BY <1>1, <1>2, <1>3, <1>4, <1>5, <1>6 DEF Complete

\* Cooldowns and sleeps run down together, so none outlasts another anew.
LEMMA TickPreserves ==
    ASSUME ClientAssumption, ClientInv, Tick
    PROVE  ClientInv'
<1> USE DEF ClientInv
<1>1. /\ UNCHANGED <<at, endpoint, rounds, completion, failures>>
      /\ \A e \in Endpoint : cooling'[e] = IF cooling[e] = 0 THEN 0 ELSE cooling[e] - 1
      /\ \A c \in Caller : wait'[c] = IF wait[c] = 0 THEN 0 ELSE wait[c] - 1
    BY DEF Tick
<1>2. ClientTypes'
    <2>1. cooling' \in [Endpoint -> 0 .. Cooldown]
        BY DEF Tick, ClientTypes, ClientAssumption
    <2>2. wait' \in [Caller -> 0 .. FailedWait]
        BY DEF Tick, ClientTypes, ClientAssumption
    <2>3. lasted' \in [Caller -> 0 .. CallTimeout]
        BY DEF Tick, ClientTypes, ClientAssumption
    <2> QED
        BY <1>1, <2>1, <2>2, <2>3 DEF ClientTypes
<1>3. CallerInv'
    BY <1>1 DEF CallerInv, ClientTypes
<1>4. Marking' = Marking
    BY <1>1 DEF Marking
<1>5. ASSUME NEW c \in Caller, at[c] # "done", Outlasts(c)'
      PROVE  Outlasts(c)
    <2>1. PICK e \in Endpoint : cooling'[e] > wait'[c]
        BY <1>5 DEF Outlasts
    <2>2. cooling[e] \in Nat /\ wait[c] \in Nat
        BY DEF ClientTypes, ClientAssumption
    <2>3. cooling[e] > wait[c]
        BY <1>1, <2>1, <2>2
    <2> QED
        BY <2>3 DEF Outlasts
<1>6. CreditInv'
    BY <1>1, <1>4, <1>5 DEF CreditInv, Credit
<1> QED
    BY <1>2, <1>3, <1>6

\* One step of the client.
LEMMA NextClientInv ==
    ASSUME ClientAssumption, ClientInv, [ClientNext]_clientVars
    PROVE  ClientInv'
<1>1. CASE Tick
    BY <1>1, TickPreserves
<1>2. ASSUME NEW c \in Caller, Complete(c) PROVE ClientInv'
    BY <1>2, CompletePreserves
<1>3. CASE UNCHANGED clientVars
    BY <1>3 DEF clientVars, ClientInv, ClientTypes, CallerInv, CreditInv, Credit, Marking, Outlasts
<1> QED
    BY <1>1, <1>2, <1>3 DEF ClientNext

-----------------------------------------------------------------------------
\* The types, the places of the callers and the credit of rounds hold in every
\* state of LLMClient.complete's callers (mcts/modules/llm_client.py).
THEOREM ClientInvariant == ASSUME ClientAssumption PROVE ClientSpec => []ClientInv
<1>1. ClientInit => ClientInv
    BY InitClientInv
<1>2. ClientInv /\ [ClientNext]_clientVars => ClientInv'
    BY NextClientInv
<1> QED
    BY <1>1, <1>2, PTL DEF ClientSpec

\* The variables of the client keep their types, rounds stay within the retries,
\* and a caller is done exactly when it has a completion.
THEOREM ClientTypeCorrect == ASSUME ClientAssumption PROVE ClientSpec => []ClientTypeOK
<1>1. ClientInv => ClientTypeOK
    BY DEF ClientInv, ClientTypes, CallerInv, ClientTypeOK, ClientAssumption
<1> QED
    BY <1>1, ClientInvariant, PTL

\* However many threads share the pool and whatever their steps' order, a
\* request never counts more retry rounds than calls failed since it began, if
\* the wait between rounds is at least a cooldown (LLMClient.complete).
THEOREM RoundsArePaid == ASSUME ClientAssumption PROVE ClientSpec => []RoundsAreFailures
<1>1. ClientInv => RoundsAreFailures
    <2> SUFFICES ASSUME ClientInv, FailedWait >= Cooldown, NEW c \in Caller
                 PROVE  rounds[c] <= IF failures[c] < MaxFailures
                                     THEN failures[c] ELSE rounds[c]
        BY DEF RoundsAreFailures
    <2>1. Credit(c) <= failures[c] /\ Credit(c) \in Int
        BY MarkingFinite DEF ClientInv, ClientTypes, Credit
    <2>2. failures[c] < MaxFailures => rounds[c] <= Credit(c)
        BY DEF ClientInv, CreditInv
    <2> QED
        BY <2>1, <2>2 DEF ClientInv, ClientTypes
<1> QED
    BY <1>1, ClientInvariant, PTL

-----------------------------------------------------------------------------
(* DbAccess *)
Ends == {"ok", "no_plan", "interrupted", "error", "lost", "other"}

Call == [kind : CallKind, target : Database,
         at : {"idle", "connect", "limit", "run", "restore", "conclude"},
         attempt : 0 .. 2, end : Ends]

DbTypes ==
    /\ sessions \in Seq(Session)
    /\ link \in 0 .. Len(sessions)
    /\ base \in Database
    /\ call \in Call
    /\ applied \in Nat
    /\ lostReplies \in Nat
    /\ verdict \in {"none", "ok", "no_plan", "error"}
    /\ strayed \in BOOLEAN
    /\ callsMade \in 0 .. MaxCalls
    /\ call.at \in {"limit", "run", "restore"} => link # 0
    /\ call.at # "idle" => call.attempt \in 1 .. 2
    /\ call.at \in {"limit", "restore"} => call.kind \in Limited

\* Each execution so far was answered or lost its reply, at most one of them
\* per attempt.
ExecutionInv ==
    call.kind \in {"execute", "timed"} =>
        /\ call.at \in {"connect", "limit", "run"} =>
               applied = lostReplies /\ applied < call.attempt
        /\ call.at \in {"restore", "conclude"} =>
               /\ call.end = "ok" => applied = lostReplies + 1
               /\ call.end # "ok" => applied = lostReplies
               /\ applied <= call.attempt
               /\ call.end # "no_plan"
        /\ call.at = "idle" =>
               /\ verdict = "ok" => applied = lostReplies + 1
               /\ verdict # "ok" => applied = lostReplies
               /\ applied <= 2

\* The session in use is under a limit only while a limited statement runs,
\* and it is prepared and in the database chosen, unless it strayed or is
\* about to be found out.
SessionInv ==
    link # 0 =>
        /\ call.at # "restore" =>
              (sessions[link].limited <=> call.at = "run" /\ call.kind \in Limited)
        /\ \/ strayed
           \/ sessions[link].prepared /\ sessions[link].base = base
           \/ call.at = "conclude" /\ ~sessions[link].prepared

DbInv == DbTypes /\ ExecutionInv /\ SessionInv

-----------------------------------------------------------------------------
(* Sessions.                                                               *)

\* A session takes the place of the one in use.
LEMMA Replaced ==
    ASSUME sessions \in Seq(Session), link \in 1 .. Len(sessions), NEW s \in Session,
           sessions' = [sessions EXCEPT ![link] = s]
    PROVE  sessions' \in Seq(Session) /\ Len(sessions') = Len(sessions) /\ sessions'[link] = s
  BY ExceptSeq, LenProperties

\* A session is opened.
LEMMA Opened ==
    ASSUME sessions \in Seq(Session), NEW s \in Session, sessions' = Append(sessions, s)
    PROVE  /\ sessions' \in Seq(Session) /\ Len(sessions') = Len(sessions) + 1
           /\ Len(sessions) \in Nat
           /\ sessions'[Len(sessions) + 1] = s
  BY AppendProperties, LenProperties

LEMMA CurrentSession ==
    ASSUME DbTypes, link # 0
    PROVE  link \in 1 .. Len(sessions) /\ sessions[link] \in Session
  BY ElementOfSeq, LenProperties DEF DbTypes

-----------------------------------------------------------------------------
LEMMA InitDbInv == ASSUME DbAssumption PROVE DbInit => DbInv
  <1> SUFFICES ASSUME DbInit PROVE DbInv
    OBVIOUS
  <1>1. sessions \in Seq(Session) /\ Len(sessions) = 0
    BY EmptySeq DEF DbInit
  <1>2. call \in Call /\ call.at = "idle"
    BY DEF DbInit, Call, CallKind, Ends, DbAssumption
  <1>3. DbTypes
    <2>1. strayed \in BOOLEAN /\ verdict \in {"none", "ok", "no_plan", "error"}
      BY DEF DbInit
    <2>2. /\ link \in 0 .. Len(sessions) /\ callsMade \in 0 .. MaxCalls
          /\ applied \in Nat /\ lostReplies \in Nat
      BY <1>1 DEF DbInit, DbAssumption
    <2>3. base \in Database
      BY DEF DbInit, DbAssumption
    <2> QED  BY <1>1, <1>2, <2>1, <2>2, <2>3 DEF DbTypes
  <1>4. ExecutionInv /\ SessionInv
    BY DEF ExecutionInv, SessionInv, DbInit
  <1> QED  BY <1>3, <1>4 DEF DbInv

LEMMA BeginCallKeeps ==
    ASSUME DbInv, DbAssumption, NEW kind \in CallKind, NEW target \in Database,
           BeginCall(kind, target)
    PROVE  DbInv'
  <1>1. DbTypes /\ SessionInv /\ UNCHANGED <<sessions, link, base, strayed, linkFaults>>
    BY DEF DbInv, BeginCall
  <1>2. CASE kind = "use" /\ target = base
    <2>1. /\ verdict' = "ok" /\ call' = [call EXCEPT !.kind = "use", !.target = base]
          /\ call.at = "idle" /\ callsMade' = callsMade + 1 /\ callsMade < MaxCalls
          /\ applied' = 0 /\ lostReplies' = 0
      BY <1>2 DEF BeginCall
    <2>2. call' \in Call /\ call'.at = "idle" /\ call'.kind = "use"
      BY <1>1, <2>1 DEF DbTypes, Call, CallKind
    <2>3. DbTypes'
      BY <1>1, <2>1, <2>2 DEF DbTypes, DbAssumption
    <2>4. ExecutionInv' /\ SessionInv'
      BY <1>1, <2>1, <2>2 DEF ExecutionInv, SessionInv
    <2> QED  BY <2>3, <2>4 DEF DbInv
  <1>3. CASE ~(kind = "use" /\ target = base)
    <2>1. /\ verdict' = "none"
          /\ call' = [kind |-> kind, target |-> target, at |-> "connect", attempt |-> 1,
                      end |-> "ok"]
          /\ call.at = "idle" /\ callsMade' = callsMade + 1 /\ callsMade < MaxCalls
          /\ applied' = 0 /\ lostReplies' = 0
      BY <1>3 DEF BeginCall
    <2>2. DbTypes'
      BY <1>1, <2>1 DEF DbTypes, Call, Ends, DbAssumption
    <2>3. ExecutionInv' /\ SessionInv'
      BY <1>1, <2>1 DEF ExecutionInv, SessionInv
    <2> QED  BY <2>2, <2>3 DEF DbInv
  <1> QED  BY <1>2, <1>3

LEMMA ConnectKeeps ==
    ASSUME DbInv, DbAssumption, ConnectIfLoss
    PROVE  DbInv'
  <1>1. /\ DbTypes /\ ExecutionInv /\ SessionInv /\ call.at = "connect"
        /\ UNCHANGED <<base, applied, lostReplies, strayed, callsMade>>
    BY DEF DbInv, ConnectIfLoss
  <1>2. CASE link # 0 /\ UNCHANGED <<sessions, link, linkFaults, verdict>> /\ Place(AfterConnect)
    <2>1. call' \in Call /\ call' = [call EXCEPT !.at = AfterConnect]
      BY <1>1, <1>2 DEF Place, AfterConnect, DbTypes, Call
    <2> QED
      BY <1>1, <1>2, <2>1 DEF DbInv, DbTypes, ExecutionInv, SessionInv, AfterConnect, Call
  <1>3. CASE /\ link = 0 /\ sessions' = Append(sessions, Prepared)
             /\ link' = Len(sessions) + 1 /\ Place(AfterConnect)
             /\ UNCHANGED <<linkFaults, verdict>>
    <2>1. call' \in Call /\ call' = [call EXCEPT !.at = AfterConnect]
      BY <1>1, <1>3 DEF Place, AfterConnect, DbTypes, Call
    <2>2. Prepared \in Session
      BY <1>1 DEF DbTypes, Prepared, Session
    <2>3. /\ sessions' \in Seq(Session) /\ link' \in 0 .. Len(sessions') /\ link' # 0
          /\ sessions'[link'] = Prepared
      BY <1>1, <1>3, <2>2, Opened DEF DbTypes
    <2>4. /\ call'.at \in {"limit", "run"}
          /\ call'.at = "run" => call.kind \notin Limited
          /\ call'.at = "limit" => call.kind \in Limited
          /\ call'.kind = call.kind /\ call'.attempt = call.attempt
      BY <1>1, <2>1 DEF AfterConnect, DbTypes, Call
    <2>5. DbTypes'
      BY <1>1, <1>3, <2>1, <2>3, <2>4 DEF DbTypes
    <2>6. ExecutionInv'
      BY <1>1, <2>4 DEF ExecutionInv
    <2>7. SessionInv'
      <3>1. ~Prepared.limited /\ Prepared.prepared /\ Prepared.base = base
        BY DEF Prepared
      <3>2. sessions'[link'].prepared /\ sessions'[link'].base = base'
        BY <1>1, <2>3, <3>1
      <3>3. ~sessions'[link'].limited /\ ~(call'.at = "run" /\ call'.kind \in Limited)
        BY <2>3, <2>4, <3>1
      <3> QED  BY <3>2, <3>3 DEF SessionInv
    <2> QED  BY <2>5, <2>6, <2>7 DEF DbInv
  <1>4. CASE link = 0 /\ verdict' = "error" /\ Place("idle") /\ UNCHANGED <<sessions, link>>
    <2>1. call' \in Call /\ call' = [call EXCEPT !.at = "idle"]
      BY <1>1, <1>4 DEF Place, DbTypes, Call
    <2> QED
      BY <1>1, <1>4, <2>1 DEF DbInv, DbTypes, ExecutionInv, SessionInv, Call
  <1> QED  BY <1>2, <1>3, <1>4 DEF ConnectIfLoss

\* How the statement ends leaves the call where it is restored or concluded.
LEMMA EndedCall ==
    ASSUME call \in Call, NEW how \in Ends, Ended(how)
    PROVE  /\ call' \in Call
           /\ call'.kind = call.kind /\ call'.attempt = call.attempt /\ call'.end = how
           /\ call'.at = IF call.kind \in Limited THEN "restore" ELSE "conclude"
  BY DEF Ended, Call

LEMMA RefusedKeeps ==
    ASSUME DbInv, Refused
    PROVE  DbInv'
  <1>1. /\ DbTypes /\ ExecutionInv /\ SessionInv /\ call.at \in {"limit", "run"}
        /\ UNCHANGED <<sessions, link, base, applied, lostReplies, verdict, strayed, callsMade>>
    BY DEF DbInv, Refused
  <1>2. /\ call' \in Call
        /\ call'.kind = call.kind /\ call'.attempt = call.attempt /\ call'.end = "lost"
        /\ call'.at = IF call.kind \in Limited THEN "restore" ELSE "conclude"
    BY <1>1, EndedCall DEF Refused, DbTypes, Ends
  <1> QED  BY <1>1, <1>2 DEF DbInv, DbTypes, ExecutionInv, SessionInv, Call

\* The end of a statement, whatever became of the session in use, as long as
\* it stays prepared and gets a limit only with a limited call.
LEMMA EndKeeps ==
    ASSUME DbInv, call.at \in {"limit", "run"}, NEW how \in Ends, Ended(how),
           NEW s \in Session, sessions' = [sessions EXCEPT ![link] = s],
           s.limited = sessions[link].limited, s.prepared = sessions[link].prepared,
           base' \in Database,
           (s.base = sessions[link].base /\ base' = base) \/ s.base = base',
           applied' \in Nat, lostReplies' \in Nat,
           call.kind \in {"execute", "timed"} =>
               /\ how = "ok" => applied' = lostReplies' + 1
               /\ how # "ok" => applied' = lostReplies'
               /\ applied' <= applied + 1 /\ how # "no_plan",
           UNCHANGED <<link, verdict, strayed, callsMade>>
    PROVE  DbInv'
  <1>1. DbTypes /\ ExecutionInv /\ SessionInv /\ link # 0
    BY DEF DbInv, DbTypes
  <1>2. /\ call' \in Call
        /\ call'.kind = call.kind /\ call'.attempt = call.attempt /\ call'.end = how
        /\ call'.at = IF call.kind \in Limited THEN "restore" ELSE "conclude"
    BY <1>1, EndedCall DEF DbTypes
  <1>3. /\ sessions' \in Seq(Session) /\ Len(sessions') = Len(sessions)
        /\ sessions'[link] = s
    BY <1>1, CurrentSession, Replaced DEF DbTypes
  <1>4. DbTypes'
    BY <1>1, <1>2, <1>3 DEF DbTypes
  <1>5. ExecutionInv'
    <2>1. call.kind \in {"execute", "timed"} => applied < call.attempt
      BY <1>1 DEF ExecutionInv
    <2>2. /\ call.attempt \in 1 .. 2 /\ applied \in Nat
          /\ call'.at \in {"restore", "conclude"}
      BY <1>1, <1>2 DEF DbTypes
    <2>3. ASSUME call.kind \in {"execute", "timed"}
          PROVE  /\ call'.end = "ok" => applied' = lostReplies' + 1
                 /\ call'.end # "ok" => applied' = lostReplies'
                 /\ applied' <= call'.attempt
                 /\ call'.end # "no_plan"
      <3>1. applied' <= call'.attempt
        <4>1. applied' <= applied + 1
          BY <2>3
        <4>2. applied < call.attempt
          BY <2>1, <2>3
        <4>3. call'.attempt = call.attempt
          BY <1>2
        <4> HIDE <2>3
        <4> QED  BY <2>2, <4>1, <4>2, <4>3
      <3> QED  BY <1>2, <2>3, <3>1
    <2>4. call'.at \notin {"connect", "limit", "run", "idle"}
      BY <2>2
    <2> QED  BY <1>2, <2>3, <2>4 DEF ExecutionInv
  <1>6. SessionInv'
    BY <1>1, <1>2, <1>3 DEF SessionInv
  <1> QED  BY <1>4, <1>5, <1>6 DEF DbInv

\* A statement that ends without a trace on the session.
LEMMA PlainEndKeeps ==
    ASSUME DbInv, call.at \in {"limit", "run"}, NEW how \in Ends, Ended(how),
           applied' \in Nat, lostReplies' \in Nat,
           call.kind \in {"execute", "timed"} =>
               /\ how = "ok" => applied' = lostReplies' + 1
               /\ how # "ok" => applied' = lostReplies'
               /\ applied' <= applied + 1 /\ how # "no_plan",
           UNCHANGED <<sessions, base, link, verdict, strayed, callsMade>>
    PROVE  DbInv'
  <1>1. link # 0 /\ sessions[link] \in Session /\ base' \in Database
    BY CurrentSession DEF DbInv, DbTypes
  <1>2. sessions' = [sessions EXCEPT ![link] = sessions[link]]
    <2>1. sessions \in Seq(Session) /\ link \in 1 .. Len(sessions)
      BY <1>1, CurrentSession DEF DbInv, DbTypes
    <2> QED  BY <2>1
  <1> QED  BY <1>1, <1>2, EndKeeps

\* The connection is lost, a reply with it or none.
LEMMA LosesKeeps ==
    ASSUME DbInv, call.at \in {"limit", "run"}, Loses,
           \/ UNCHANGED <<applied, lostReplies>>
           \/ applied' = applied + 1 /\ lostReplies' = lostReplies + 1,
           UNCHANGED <<base, link, verdict, strayed, callsMade>>
    PROVE  DbInv'
  <1> DEFINE s == [sessions[link] EXCEPT !.open = FALSE]
  <1>1. /\ DbTypes /\ ExecutionInv /\ link # 0 /\ sessions[link] \in Session
        /\ base \in Database
    BY CurrentSession DEF DbInv, DbTypes
  <1>2. /\ s \in Session
        /\ s.limited = sessions[link].limited /\ s.prepared = sessions[link].prepared
        /\ s.base = sessions[link].base
    BY <1>1 DEF Session
  <1>3. sessions' = [sessions EXCEPT ![link] = s]
    BY DEF Loses, Disconnected, SetSession
  <1>4. PICK how \in {"lost", "other"} : Ended(how)
    BY DEF Loses
  <1>5. applied' \in Nat /\ lostReplies' \in Nat
    BY <1>1 DEF DbTypes
  <1>6. call.kind \in {"execute", "timed"} =>
            applied' = lostReplies' /\ applied' <= applied + 1
    BY <1>1 DEF DbTypes, ExecutionInv
  <1> HIDE DEF s
  <1>7. how \in Ends /\ how \notin {"ok", "no_plan"}
    BY DEF Ends
  <1> QED  BY <1>1, <1>2, <1>3, <1>4, <1>5, <1>6, <1>7, EndKeeps

LEMMA SetLimitKeeps ==
    ASSUME DbInv, SetLimit
    PROVE  DbInv'
  <1>1. /\ DbTypes /\ ExecutionInv /\ SessionInv /\ call.at = "limit" /\ link # 0
        /\ UNCHANGED <<link, base, applied, lostReplies, verdict, strayed, callsMade>>
    BY DEF DbInv, SetLimit, DbTypes
  <1>2. CASE SetSession([sessions[link] EXCEPT !.limited = TRUE]) /\ Place("run")
    <2> DEFINE s == [sessions[link] EXCEPT !.limited = TRUE]
    <2>1. s \in Session /\ s.limited = TRUE /\ s.prepared = sessions[link].prepared
             /\ s.base = sessions[link].base
      BY <1>1, CurrentSession DEF Session
    <2>2. sessions' = [sessions EXCEPT ![link] = s]
      BY <1>2 DEF SetSession
    <2> HIDE DEF s
    <2>3. /\ sessions' \in Seq(Session) /\ Len(sessions') = Len(sessions)
          /\ sessions'[link] = s
      BY <1>1, <2>1, <2>2, CurrentSession, Replaced DEF DbTypes
    <2>4. /\ call' \in Call /\ call'.kind = call.kind /\ call'.attempt = call.attempt
          /\ call'.at = "run"
      BY <1>1, <1>2 DEF Place, DbTypes, Call
    <2>5. DbTypes' /\ ExecutionInv'
      BY <1>1, <2>3, <2>4 DEF DbTypes, ExecutionInv
    <2>6. SessionInv'
      <3>1. call.kind \in Limited
        BY <1>1 DEF DbTypes
      <3>2. sessions'[link'].limited <=> call'.at = "run" /\ call'.kind \in Limited
        BY <1>1, <2>1, <2>3, <2>4, <3>1
      <3> QED  BY <1>1, <2>1, <2>3, <2>4, <3>2 DEF SessionInv
    <2> QED  BY <2>5, <2>6 DEF DbInv
  <1>3. CASE Ended("error") /\ UNCHANGED sessions
    <2>1. "error" \in Ends
      BY DEF Ends
    <2>2. applied' \in Nat /\ lostReplies' \in Nat
      BY <1>1 DEF DbTypes
    <2>3. call.kind \in {"execute", "timed"} =>
              applied' = lostReplies' /\ applied' <= applied + 1
      BY <1>1 DEF DbTypes, ExecutionInv
    <2> QED  BY <1>1, <1>3, <2>1, <2>2, <2>3, PlainEndKeeps
  <1>4. CASE Loses
    BY <1>1, <1>4, LosesKeeps
  <1> QED  BY <1>2, <1>3, <1>4 DEF SetLimit

LEMMA RunStatementKeeps ==
    ASSUME DbInv, RunStatement
    PROVE  DbInv'
  <1>1. /\ DbTypes /\ ExecutionInv /\ call.at = "run" /\ link # 0
        /\ sessions[link] \in Session /\ call.target \in Database
        /\ applied' = applied + 1
        /\ UNCHANGED <<link, lostReplies, verdict, strayed, callsMade>>
    BY CurrentSession DEF DbInv, RunStatement, DbTypes, Call
  <1>2. /\ applied' \in Nat /\ lostReplies' \in Nat
        /\ call.kind \in {"execute", "timed"} => applied' = lostReplies' + 1
    BY <1>1 DEF DbTypes, ExecutionInv
  <1>3. {"ok", "no_plan", "interrupted"} \subseteq Ends /\ base \in Database
    BY <1>1 DEF Ends, DbTypes
  <1>4. CASE /\ call.kind = "use" /\ base' = call.target /\ Ended("ok")
             /\ SetSession([sessions[link] EXCEPT !.base = call.target])
    <2> DEFINE s == [sessions[link] EXCEPT !.base = call.target]
    <2>1. /\ s \in Session /\ s.base = base'
          /\ s.limited = sessions[link].limited /\ s.prepared = sessions[link].prepared
      BY <1>1, <1>4 DEF Session
    <2>2. sessions' = [sessions EXCEPT ![link] = s]
      BY <1>4 DEF SetSession
    <2> HIDE DEF s
    <2> QED  BY <1>1, <1>2, <1>3, <1>4, <2>1, <2>2, EndKeeps
  <1>5. CASE /\ call.kind = "planid" /\ Ended("ok") /\ UNCHANGED base
             /\ SetSession([sessions[link] EXCEPT !.planid = TRUE])
    <2> DEFINE s == [sessions[link] EXCEPT !.planid = TRUE]
    <2>1. /\ s \in Session /\ s.base = sessions[link].base
          /\ s.limited = sessions[link].limited /\ s.prepared = sessions[link].prepared
      BY <1>1 DEF Session
    <2>2. sessions' = [sessions EXCEPT ![link] = s]
      BY <1>5 DEF SetSession
    <2> HIDE DEF s
    <2> QED  BY <1>1, <1>2, <1>3, <1>5, <2>1, <2>2, EndKeeps
  <1>6. CASE /\ call.kind \in {"explain", "profile"} /\ UNCHANGED <<sessions, base>>
             /\ \E how \in {"ok", "no_plan", "interrupted"} : Ended(how)
    BY <1>1, <1>2, <1>3, <1>6, PlainEndKeeps
  <1>7. CASE /\ call.kind \in {"execute", "timed"} /\ UNCHANGED <<sessions, base>>
             /\ Ended("ok")
    <2>1. applied' <= applied + 1
      BY <1>1 DEF DbTypes
    <2> QED  BY <1>1, <1>2, <1>3, <1>7, <2>1, PlainEndKeeps
  <1> QED  BY <1>4, <1>5, <1>6, <1>7 DEF RunStatement

LEMMA StatementFailsKeeps ==
    ASSUME DbInv, StatementFails
    PROVE  DbInv'
  <1>1. /\ DbTypes /\ ExecutionInv /\ call.at = "run"
        /\ UNCHANGED <<link, base, verdict, strayed, callsMade>>
    BY DEF DbInv, StatementFails
  <1>2. CASE Ended("error") /\ UNCHANGED <<sessions, applied, lostReplies>>
    <2>1. "error" \in Ends
      BY DEF Ends
    <2>2. /\ applied' \in Nat /\ lostReplies' \in Nat
          /\ call.kind \in {"execute", "timed"} =>
                applied' = lostReplies' /\ applied' <= applied + 1
      BY <1>1, <1>2 DEF DbTypes, ExecutionInv
    <2> QED  BY <1>1, <1>2, <2>1, <2>2, PlainEndKeeps
  <1>3. CASE Loses /\ UNCHANGED <<applied, lostReplies>>
    BY <1>1, <1>3, LosesKeeps
  <1>4. CASE Loses /\ applied' = applied + 1 /\ lostReplies' = lostReplies + 1
    BY <1>1, <1>4, LosesKeeps
  <1> QED  BY <1>2, <1>3, <1>4 DEF StatementFails

\* The limit is restored, in whatever session, or the session is given up.
LEMMA RestoredKeeps ==
    ASSUME DbInv, call.at = "restore", Place("conclude"),
           sessions' \in Seq(Session), link' \in 0 .. Len(sessions'),
           link' # 0 =>
               /\ ~sessions'[link'].limited
               /\ \/ ~sessions'[link'].prepared
                  \/ /\ sessions'[link'].base = sessions[link].base
                     /\ sessions'[link'].prepared = sessions[link].prepared,
           UNCHANGED <<base, applied, lostReplies, verdict, strayed, callsMade>>
    PROVE  DbInv'
  <1>1. DbTypes /\ ExecutionInv /\ SessionInv /\ link # 0
    BY DEF DbInv, DbTypes
  <1>2. /\ call' \in Call /\ call'.kind = call.kind /\ call'.attempt = call.attempt
        /\ call'.end = call.end /\ call'.at = "conclude"
    BY <1>1 DEF Place, DbTypes, Call
  <1>3. DbTypes' /\ ExecutionInv'
    BY <1>1, <1>2 DEF DbTypes, ExecutionInv
  <1>4. SessionInv'
    <2> SUFFICES ASSUME link' # 0 PROVE SessionInv'
      BY DEF SessionInv
    <2>1. strayed \/ (sessions[link].prepared /\ sessions[link].base = base)
      BY <1>1 DEF SessionInv
    <2>2. \/ strayed'
          \/ sessions'[link'].prepared /\ sessions'[link'].base = base'
          \/ ~sessions'[link'].prepared
      BY <2>1
    <2> QED  BY <1>2, <2>2 DEF SessionInv
  <1> QED  BY <1>3, <1>4 DEF DbInv

LEMMA RestoreKeeps ==
    ASSUME DbInv, Restore \/ RestoreFails
    PROVE  DbInv'
  <1>1. /\ DbTypes /\ call.at = "restore" /\ link # 0 /\ Place("conclude")
        /\ UNCHANGED <<base, applied, lostReplies, verdict, strayed, callsMade>>
    BY DEF DbInv, DbTypes, Restore, RestoreFails, FailRestore
  <1>2. /\ link \in 1 .. Len(sessions) /\ sessions[link] \in Session
        /\ sessions \in Seq(Session)
    BY <1>1, CurrentSession DEF DbTypes
  <1>3. CASE SetSession([sessions[link] EXCEPT !.limited = FALSE]) /\ UNCHANGED link
    <2> DEFINE s == [sessions[link] EXCEPT !.limited = FALSE]
    <2>1. /\ s \in Session /\ ~s.limited /\ s.base = sessions[link].base
          /\ s.prepared = sessions[link].prepared
      BY <1>2 DEF Session
    <2>2. sessions' = [sessions EXCEPT ![link] = s]
      BY <1>3 DEF SetSession
    <2> HIDE DEF s
    <2>3. /\ sessions' \in Seq(Session) /\ Len(sessions') = Len(sessions)
          /\ sessions'[link] = s
      BY <1>2, <2>1, <2>2, Replaced
    <2> QED  BY <1>1, <1>2, <1>3, <2>1, <2>3, RestoredKeeps
  <1>4. CASE sessions' = Append(sessions, Bare) /\ link' = Len(sessions) + 1
    <2>1. Bare \in Session /\ ~Bare.limited /\ ~Bare.prepared
      BY DEF Bare, Session
    <2>2. /\ sessions' \in Seq(Session) /\ link' \in 0 .. Len(sessions')
          /\ sessions'[link'] = Bare
      BY <1>2, <1>4, <2>1, Opened
    <2> QED  BY <1>1, <2>1, <2>2, RestoredKeeps
  <1>5. CASE link' = 0 /\ UNCHANGED sessions
    BY <1>1, <1>2, <1>5, RestoredKeeps, LenProperties
  <1> QED  BY <1>3, <1>4, <1>5 DEF Restore, RestoreFails, FailRestore

LEMMA ConcludeKeeps ==
    ASSUME DbInv, Conclude
    PROVE  DbInv'
  <1>1. /\ DbTypes /\ ExecutionInv /\ SessionInv /\ call.at = "conclude"
        /\ link' = IF call.end = "lost" THEN 0 ELSE link
        /\ strayed' = (strayed \/ (link' # 0 /\ ~sessions[link'].prepared))
        /\ UNCHANGED <<sessions, base, applied, lostReplies, callsMade>>
    BY DEF DbInv, Conclude
  <1>2. /\ call \in Call /\ call.attempt \in 1 .. 2 /\ applied \in Nat /\ lostReplies \in Nat
        /\ link' \in 0 .. Len(sessions)
    BY <1>1, LenProperties DEF DbTypes
  <1>3. strayed' \in BOOLEAN
    BY <1>1
  <1>4. CASE call.end = "lost" /\ call.attempt < Attempts
    <2>1. call' = [call EXCEPT !.at = "connect", !.attempt = @ + 1] /\ verdict' = verdict
      BY <1>4 DEF Conclude
    <2>2. /\ call' \in Call /\ call'.kind = call.kind /\ call'.at = "connect"
          /\ call'.attempt = call.attempt + 1 /\ call'.attempt \in 1 .. 2
      <3>1. call.attempt + 1 \in 1 .. 2 /\ call.attempt + 1 \in 0 .. 2
        BY <1>2, <1>4 DEF Attempts
      <3> QED  BY <1>2, <2>1, <3>1 DEF Call
    <2>3. DbTypes'
      BY <1>1, <1>2, <1>3, <2>1, <2>2 DEF DbTypes
    <2>4. ExecutionInv'
      BY <1>1, <1>2, <1>4, <2>2 DEF ExecutionInv
    <2>5. link' = 0
      BY <1>1, <1>4
    <2> QED  BY <2>3, <2>4, <2>5 DEF DbInv, SessionInv
  <1>5. CASE ~(call.end = "lost" /\ call.attempt < Attempts)
    <2>1. call' = [call EXCEPT !.at = "idle"] /\ verdict' = Verdict(call.end)
      BY <1>5 DEF Conclude, Place
    <2>2. call' \in Call /\ call'.kind = call.kind /\ call'.at = "idle"
      BY <1>2, <2>1 DEF Call
    <2>3. /\ verdict' \in {"ok", "no_plan", "error"}
          /\ call.end # "no_plan" => (verdict' = "ok" <=> call.end = "ok")
      BY <2>1 DEF Verdict
    <2>4. DbTypes'
      BY <1>1, <1>2, <1>3, <2>2, <2>3 DEF DbTypes
    <2>5. ExecutionInv'
      BY <1>1, <1>2, <2>2, <2>3 DEF ExecutionInv
    <2>6. SessionInv'
      <3> SUFFICES ASSUME link' # 0 PROVE SessionInv'
        BY DEF SessionInv
      <3>1. link' = link /\ link # 0 /\ ~sessions[link].limited
        BY <1>1 DEF SessionInv
      <3>2. strayed' \/ (sessions[link].prepared /\ sessions[link].base = base)
        BY <1>1, <3>1 DEF SessionInv
      <3> QED  BY <1>1, <2>2, <3>1, <3>2 DEF SessionInv
    <2> QED  BY <2>4, <2>5, <2>6 DEF DbInv
  <1> QED  BY <1>4, <1>5

-----------------------------------------------------------------------------
\* The invariant of a session: types, executions, the state of the session.
THEOREM DbInvariant == DbSpec => []DbInv
  <1>1. DbInit => DbInv
    BY InitDbInv, DbAssumption
  <1>2. ASSUME DbInv, [DbNext]_dbVars PROVE DbInv'
    <2>1. CASE UNCHANGED dbVars
      BY <2>1, <1>2 DEF dbVars, DbInv, DbTypes, ExecutionInv, SessionInv
    <2>2. CASE DbNext
      BY <2>2, <1>2, DbAssumption, BeginCallKeeps, ConnectKeeps, RefusedKeeps,
         SetLimitKeeps, RunStatementKeeps, StatementFailsKeeps, RestoreKeeps,
         ConcludeKeeps DEF DbNext
    <2> QED  BY <1>2, <2>1, <2>2
  <1> QED  BY <1>1, <1>2, PTL DEF DbSpec

\* Sessions, calls and counters have their types.
THEOREM DbTypeCorrect == DbSpec => []DbTypeOK
  <1>1. DbInv => DbTypeOK
    BY DEF DbInv, DbTypes, DbTypeOK, Call, Attempts
  <1> QED  BY <1>1, DbInvariant, PTL

\* The caller can tell from losses and verdict how often its statement was
\* executed, and that it was at most twice (DBController.execute,
\* retry_on_connection_loss).
THEOREM ExecutionsAccounted == DbSpec => []StatementAccounted
  <1>1. DbInv => StatementAccounted
    <2> SUFFICES ASSUME DbInv, call.kind \in {"execute", "timed"}, call.at = "idle"
                 PROVE  /\ applied = lostReplies + (IF verdict = "ok" THEN 1 ELSE 0)
                        /\ applied <= 2
      BY DEF StatementAccounted
    <2>1. /\ verdict = "ok" => applied = lostReplies + 1
          /\ verdict # "ok" => applied = lostReplies
          /\ applied <= 2 /\ lostReplies \in Nat
      BY DEF DbInv, ExecutionInv, DbTypes
    <2>2. CASE verdict = "ok"
      BY <2>1, <2>2
    <2>3. CASE verdict # "ok"
      BY <2>1, <2>3
    <2> QED  BY <2>2, <2>3
  <1> QED  BY <1>1, DbInvariant, PTL

\* A statement runs in its database, prepared and under its own limit, across
\* reconnects, failed restores and retries (_connect_if_loss, execute).
THEOREM ContextKept == DbSpec => []StatementInContext
  <1>1. DbInv => StatementInContext
    <2> SUFFICES ASSUME DbInv, call.at = "run"
                 PROVE  StatementInContext
      BY DEF StatementInContext
    <2>1. link # 0 /\ sessions[link].limited \in BOOLEAN
      BY CurrentSession DEF DbInv, DbTypes, Session
    <2>2. /\ sessions[link].limited <=> call.kind \in Limited
          /\ strayed \/ (sessions[link].prepared /\ sessions[link].base = base)
      BY <2>1 DEF DbInv, SessionInv
    <2>3. (call.kind \in Limited) \in BOOLEAN
      OBVIOUS
    <2>4. sessions[link].limited = (call.kind \in Limited)
      BY <2>1, <2>2, <2>3
    <2> QED  BY <2>2, <2>4 DEF StatementInContext
  <1> QED  BY <1>1, DbInvariant, PTL

-----------------------------------------------------------------------------
(* RemoteCache *)
-----------------------------------------------------------------------------
(* The inductive invariant: what a measurer knows is true. *)

KnownPlan == DOMAIN PlanTime
Hints == HintSet
CacheRow == [plan : KnownPlan, elapsed : Nat, isTimeout : BOOLEAN, cap : Nat,
             hints : SUBSET Hints, created : Nat]
HintsRow == [id : Nat, hints : SUBSET Hints]
Status == {"none", "ok", "timeout", "error"}
CacheReply == [status : Status, elapsed : Nat]

CachePlace == {"idle", "lookup", "readHints", "writeHints", "decide",
          "plain", "execute", "store"}

CacheTypes ==
    /\ cacheRows \in Seq(CacheRow)
    /\ doing \in [Measurer -> CachePlace]
    /\ measured \in [Measurer -> 0 .. MaxMeasurements]
    /\ searching \in [Measurer -> BOOLEAN]
    /\ cap \in [Measurer -> 1 .. CacheTimeout]
    /\ limit \in [Measurer -> Nat \ {0}]
    /\ asked \in [Measurer -> Hints]
    /\ digest \in [Measurer -> KnownPlan \cup {NoPlan}]
    /\ seen \in [Measurer -> CacheRow \cup {NoRow}]
    /\ hintsRead \in [Measurer -> HintsRow]
    /\ rerun \in [Measurer -> BOOLEAN]
    /\ outcome \in [Measurer -> CacheReply]
    /\ answer \in [Measurer -> CacheReply]
    /\ cacheFaults \in 0 .. MaxCacheFaults

USE DEF limits

TrueRow(row) ==
    IF row.isTimeout THEN PlanTime[row.plan] >= row.cap ELSE PlanTime[row.plan] = row.elapsed

\* What an execution under a cap can say of a plan's time.
Observed(w, o) ==
    LET t == PlanTime[digest[w]]
    IN  \/ o.status = "ok" /\ o.elapsed = t /\ t < cap[w]
        \/ o.status \in {"ok", "timeout"} /\ o.elapsed = cap[w] /\ cap[w] <= t

\* What a caller may be told.
Sound(w, a) ==
    LET t == PlanTime[digest[w]]
    IN  /\ a.status = "ok" => /\ a.elapsed < limit[w]
                              /\ a.elapsed = t \/ (a.elapsed = cap[w] /\ cap[w] <= t)
        /\ a.status = "timeout" => t >= cap[w] \/ t >= limit[w]
        /\ a.status \in {"ok", "timeout"} => a.elapsed > 0

\* What a measurer knows at each place of its measurement is true.
KnowsTruth(w) ==
    /\ doing[w] # "idle" => digest[w] \in KnownPlan
    /\ doing[w] \in {"readHints", "writeHints", "decide"} =>
           seen[w] \in CacheRow /\ TrueRow(seen[w]) /\ seen[w].plan = digest[w]
    /\ doing[w] = "writeHints" => hintsRead[w].id \in DOMAIN cacheRows
    /\ doing[w] = "store" => Observed(w, outcome[w])
    /\ answer[w].status # "none" => digest[w] \in KnownPlan /\ Sound(w, answer[w])

CacheInv ==
    /\ CacheTypes
    /\ \A i \in DOMAIN cacheRows : TrueRow(cacheRows[i])
    /\ \A w \in Measurer : KnowsTruth(w)

-----------------------------------------------------------------------------
(* Times and caps.                                                         *)

LEMMA Numbers ==
    ASSUME CacheAssumption, CacheTypes, NEW w \in Measurer
    PROVE  /\ cap[w] \in Nat \ {0} /\ limit[w] \in Nat \ {0}
           /\ \A p \in KnownPlan : PlanTime[p] \in Nat \ {0}
  BY DEF CacheAssumption, CacheTypes, KnownPlan

LEMMA Updated ==
    ASSUME NEW S, NEW f \in [Measurer -> S], NEW w \in Measurer, NEW x \in S
    PROVE  [f EXCEPT ![w] = x] \in [Measurer -> S]
  OBVIOUS

LEMMA RowsAreRows ==
    ASSUME CacheTypes, NEW i \in DOMAIN cacheRows
    PROVE  i \in Nat /\ cacheRows[i] \in CacheRow
  BY ElementOfSeq, LenProperties DEF CacheTypes

\* A row keeps its truth when its hints change.
LEMMA HintsDoNotMatter ==
    ASSUME NEW row \in CacheRow, NEW hints \in SUBSET Hints, TrueRow(row)
    PROVE  [row EXCEPT !.hints = hints] \in CacheRow /\ TrueRow([row EXCEPT !.hints = hints])
  BY DEF CacheRow, TrueRow

\* The answer to a caller, from a time or its own timeout.
LEMMA ReportedIsSound ==
    ASSUME CacheAssumption, CacheTypes, NEW w \in Measurer, digest[w] \in KnownPlan,
           NEW t \in Nat,
           t = PlanTime[digest[w]] \/ (t = cap[w] /\ cap[w] <= PlanTime[digest[w]])
    PROVE  Reported(w, t) \in CacheReply /\ Sound(w, Reported(w, t))
  <1>1. /\ limit[w] \in Nat \ {0} /\ cap[w] \in Nat \ {0}
        /\ PlanTime[digest[w]] \in Nat \ {0}
    BY Numbers
  <1>2. CASE t >= limit[w]
    <2>1. Reported(w, t) = [status |-> "timeout", elapsed |-> limit[w]]
      BY <1>2 DEF Reported
    <2> QED  BY <1>1, <1>2, <2>1 DEF CacheReply, Status, Sound
  <1>3. CASE ~(t >= limit[w])
    <2>1. Reported(w, t) = [status |-> "ok", elapsed |-> t]
      BY <1>3 DEF Reported
    <2> QED  BY <1>1, <1>3, <2>1 DEF CacheReply, Status, Sound
  <1> QED  BY <1>2, <1>3

\* What store() writes is true.
LEMMA ResultIsTrue ==
    ASSUME CacheAssumption, CacheTypes, NEW w \in Measurer, digest[w] \in KnownPlan,
           Observed(w, outcome[w])
    PROVE  /\ Result(w).elapsed \in Nat /\ Result(w).cap \in Nat
           /\ Result(w).isTimeout \in BOOLEAN
           /\ IF Result(w).isTimeout THEN PlanTime[digest[w]] >= Result(w).cap
              ELSE PlanTime[digest[w]] = Result(w).elapsed
  <1> DEFINE late == outcome[w].status = "timeout" \/ outcome[w].elapsed >= cap[w]
  <1>1. /\ cap[w] \in Nat /\ PlanTime[digest[w]] \in Nat /\ outcome[w].elapsed \in Nat
    BY Numbers DEF CacheTypes, CacheReply
  <1>2. late \in BOOLEAN
    OBVIOUS
  <1>3. IF late THEN PlanTime[digest[w]] >= cap[w]
        ELSE PlanTime[digest[w]] = outcome[w].elapsed
    BY <1>1 DEF Observed
  <1>4. Result(w) = [elapsed |-> outcome[w].elapsed, cap |-> cap[w], isTimeout |-> late]
    BY DEF Result
  <1> HIDE DEF late
  <1> QED  BY <1>1, <1>2, <1>3, <1>4

\* The other measurers know what they knew.
LEMMA OthersKnow ==
    ASSUME CacheInv, CacheTypes', NEW w \in Measurer, NEW v \in Measurer, v # w,
           doing'[v] = doing[v], digest'[v] = digest[v], seen'[v] = seen[v],
           hintsRead'[v] = hintsRead[v], outcome'[v] = outcome[v], answer'[v] = answer[v],
           cap'[v] = cap[v], limit'[v] = limit[v],
           DOMAIN cacheRows \subseteq DOMAIN cacheRows'
    PROVE  KnowsTruth(v)'
  BY DEF CacheInv, KnowsTruth, Observed, Sound

-----------------------------------------------------------------------------
LEMMA InitCache == ASSUME CacheAssumption PROVE CacheInit => CacheInv
  <1> SUFFICES ASSUME CacheInit PROVE CacheInv
    OBVIOUS
  <1>1. /\ NoHints \in HintsRow
        /\ NoAnswer \in CacheReply /\ NoAnswer.status = "none"
    BY DEF NoHints, NoAnswer, CacheReply, Status, HintsRow
  <1>2. CacheTypes
    BY <1>1, EmptySeq DEF CacheTypes, CacheInit, Hints, CacheAssumption, CachePlace
  <1>3. DOMAIN cacheRows = {}
    BY DEF CacheInit
  <1>4. \A w \in Measurer : KnowsTruth(w)
    BY <1>1 DEF CacheInit, KnowsTruth
  <1> QED  BY <1>2, <1>3, <1>4 DEF CacheInv

\* One step of w: its own knowledge and the rows are what is to be shown.
LEMMA StepKeepsCache ==
    ASSUME CacheInv, CacheTypes', NEW w \in Measurer,
           \A v \in Measurer \ {w} :
               /\ doing'[v] = doing[v] /\ digest'[v] = digest[v] /\ seen'[v] = seen[v]
               /\ hintsRead'[v] = hintsRead[v] /\ outcome'[v] = outcome[v]
               /\ answer'[v] = answer[v] /\ cap'[v] = cap[v] /\ limit'[v] = limit[v],
           DOMAIN cacheRows \subseteq DOMAIN cacheRows',
           \A i \in DOMAIN cacheRows' : TrueRow(cacheRows'[i]),
           KnowsTruth(w)'
    PROVE  CacheInv'
  <1>1. ASSUME NEW v \in Measurer PROVE KnowsTruth(v)'
    BY <1>1, OthersKnow
  <1>2. (\A i \in DOMAIN cacheRows : TrueRow(cacheRows[i]))'
    BY DEF TrueRow
  <1> QED  BY <1>1, <1>2 DEF CacheInv

LEMMA BeginMeasureKeeps ==
    ASSUME CacheAssumption, CacheInv, NEW w \in Measurer, NEW h \in HintSet, BeginMeasure(w, h)
    PROVE  CacheInv'
  <1>1. /\ CacheTypes /\ CachePlan[h] \in KnownPlan /\ h \in Hints
        /\ {MaxMeasurements, MaxCacheFaults} \subseteq Nat
    BY DEF CacheInv, CacheAssumption, KnownPlan, Hints
  <1>2. NoAnswer \in CacheReply /\ NoAnswer.status = "none"
    BY DEF NoAnswer, CacheReply, Status
  <1>3. CacheTypes'
    <2>1. doing' \in [Measurer -> CachePlace]
      BY <1>1 DEF BeginMeasure, CacheTypes, Goto, CachePlace
    <2>2. measured' \in [Measurer -> 0 .. MaxMeasurements]
      BY <1>1 DEF BeginMeasure, CacheTypes
    <2>3. cacheFaults' \in 0 .. MaxCacheFaults
      BY <1>1 DEF BeginMeasure, CacheTypes, CacheFault
    <2>4. asked' \in [Measurer -> Hints] /\ digest' \in [Measurer -> KnownPlan \cup {NoPlan}]
      BY <1>1 DEF BeginMeasure, CacheTypes
    <2>5. rerun' \in [Measurer -> BOOLEAN] /\ answer' \in [Measurer -> CacheReply]
      BY <1>1, <1>2 DEF BeginMeasure, CacheTypes
    <2> QED  BY <1>1, <2>1, <2>2, <2>3, <2>4, <2>5 DEF BeginMeasure, CacheTypes
  <1>4. KnowsTruth(w)'
    BY <1>1, <1>2 DEF BeginMeasure, CacheTypes, KnowsTruth, Goto
  <1> QED  BY <1>1, <1>3, <1>4, StepKeepsCache DEF BeginMeasure, CacheTypes, Goto, CacheInv

\* The search takes its limits from the baseline and forgets the answer.
LEMMA StartSearchKeeps ==
    ASSUME CacheAssumption, CacheInv, NEW w \in Measurer, StartSearch(w)
    PROVE  CacheInv'
  <1> DEFINE time == answer[w].elapsed
  <1>1. /\ CacheTypes /\ KnowsTruth(w) /\ doing[w] = "idle"
        /\ answer[w].status \in {"ok", "timeout"} /\ {CacheTimeout, Amplifier} \subseteq Nat \ {0}
    BY DEF CacheInv, CacheAssumption, StartSearch
  <1>2. time \in Nat \ {0}
    BY <1>1 DEF CacheTypes, CacheReply, KnowsTruth, Sound
  <1> HIDE DEF time
  <1>3. NoAnswer \in CacheReply /\ NoAnswer.status = "none"
    BY DEF NoAnswer, CacheReply, Status
  <1>4. /\ limit' = [limit EXCEPT ![w] = time * Amplifier + 1]
        /\ cap' = [cap EXCEPT ![w] = IF w \in Capped /\ time < @ THEN time ELSE @]
        /\ searching' = [searching EXCEPT ![w] = TRUE]
        /\ answer' = [answer EXCEPT ![w] = NoAnswer]
        /\ UNCHANGED <<cacheRows, doing, measured, asked, digest, seen, hintsRead, rerun,
                       outcome, cacheFaults>>
    BY DEF StartSearch, time
  <1>5. CacheTypes'
    <2>1. time * Amplifier + 1 \in Nat \ {0}
      BY <1>1, <1>2
    <2>2. limit' \in [Measurer -> Nat \ {0}]
      BY <1>1, <1>4, <2>1 DEF CacheTypes
    <2>3. cap' \in [Measurer -> 1 .. CacheTimeout]
      BY <1>1, <1>2, <1>4 DEF CacheTypes
    <2>4. searching' \in [Measurer -> BOOLEAN] /\ answer' \in [Measurer -> CacheReply]
      BY <1>1, <1>3, <1>4 DEF CacheTypes
    <2> QED  BY <1>1, <1>4, <2>2, <2>3, <2>4 DEF CacheTypes
  <1>6. KnowsTruth(w)'
    BY <1>1, <1>3, <1>4 DEF CacheTypes, KnowsTruth
  <1>7. /\ \A v \in Measurer \ {w} :
             answer'[v] = answer[v] /\ cap'[v] = cap[v] /\ limit'[v] = limit[v]
        /\ \A i \in DOMAIN cacheRows' : TrueRow(cacheRows'[i])
    BY <1>1, <1>4 DEF CacheTypes, CacheInv
  <1> QED  BY <1>4, <1>5, <1>6, <1>7, StepKeepsCache

LEMMA GetByDigestKeeps ==
    ASSUME CacheAssumption, CacheInv, NEW w \in Measurer, GetByDigest(w)
    PROVE  CacheInv'
  <1>1. CacheTypes /\ MaxCacheFaults \in Nat /\ KnowsTruth(w)
    BY DEF CacheInv, CacheAssumption
  <1>2. \A i \in RowsOf(digest[w]) :
           cacheRows[i] \in CacheRow /\ TrueRow(cacheRows[i]) /\ cacheRows[i].plan = digest[w]
    BY <1>1, ElementOfSeq DEF CacheInv, CacheTypes, RowsOf
  <1>3. CacheTypes'
    <2>1. seen' \in [Measurer -> CacheRow \cup {NoRow}]
      <3>1. seen' = seen \/ \E i \in RowsOf(digest[w]) : seen' = [seen EXCEPT ![w] = cacheRows[i]]
        BY DEF GetByDigest, Found
      <3>2. seen \in [Measurer -> CacheRow \cup {NoRow}]
        BY <1>1 DEF CacheTypes
      <3> QED  BY <1>2, <3>1, <3>2, Updated
    <2>2. \E place \in CachePlace : doing' = [doing EXCEPT ![w] = place]
      BY DEF GetByDigest, Found, Goto, CachePlace
    <2>3. doing' \in [Measurer -> CachePlace]
      BY <1>1, <2>2 DEF CacheTypes
    <2>4. cacheFaults' \in 0 .. MaxCacheFaults
      BY <1>1 DEF GetByDigest, Found, CacheTypes, CacheFault
    <2> QED  BY <1>1, <2>1, <2>3, <2>4 DEF GetByDigest, Found, CacheTypes
  <1>4. KnowsTruth(w)'
    <2>1. doing[w] = "lookup" /\ digest[w] \in KnownPlan
      BY <1>1 DEF GetByDigest, Found, KnowsTruth
    <2>2. UNCHANGED <<cacheRows, limits, digest, outcome, answer>>
      BY DEF GetByDigest, Found
    <2>3. CASE doing'[w] = "execute"
      BY <1>1, <2>1, <2>2, <2>3 DEF KnowsTruth, Sound
    <2>4. CASE doing'[w] = "readHints"
      <3>1. PICK i \in RowsOf(digest[w]) : seen' = [seen EXCEPT ![w] = cacheRows[i]]
        BY <1>1, <2>4 DEF GetByDigest, Found, Goto, CacheTypes
      <3>2. seen'[w] = cacheRows[i]
        BY <1>1, <3>1 DEF CacheTypes
      <3> QED  BY <1>1, <1>2, <2>1, <2>2, <2>4, <3>2 DEF KnowsTruth, Sound, TrueRow
    <2>5. doing'[w] \in {"execute", "readHints"}
      BY <1>1 DEF GetByDigest, Found, Goto, CacheTypes
    <2> QED  BY <2>3, <2>4, <2>5
  <1> QED  BY <1>1, <1>3, <1>4, StepKeepsCache DEF GetByDigest, Found, CacheTypes, Goto, CacheInv, CacheFault

LEMMA ReadHintsKeeps ==
    ASSUME CacheAssumption, CacheInv, NEW w \in Measurer, ReadHints(w)
    PROVE  CacheInv'
  <1>1. CacheTypes /\ MaxCacheFaults \in Nat /\ KnowsTruth(w)
    BY DEF CacheInv, CacheAssumption
  <1>2. \A i \in RowsOf(digest[w]) :
           [id |-> i, hints |-> cacheRows[i].hints] \in HintsRow
    <2>1. \A i \in RowsOf(digest[w]) : i \in Nat /\ cacheRows[i] \in CacheRow
      BY <1>1, RowsAreRows DEF RowsOf
    <2> QED  BY <2>1 DEF CacheRow, HintsRow
  <1>3. CacheTypes'
    <2>1. hintsRead' \in [Measurer -> HintsRow]
      <3>1. \/ hintsRead' = hintsRead
            \/ \E i \in RowsOf(digest[w]) : hintsRead' =
                  [hintsRead EXCEPT ![w] = [id |-> i, hints |-> cacheRows[i].hints]]
        BY DEF ReadHints
      <3>2. hintsRead \in [Measurer -> HintsRow]
        BY <1>1 DEF CacheTypes
      <3> QED  BY <1>2, <3>1, <3>2, Updated
    <2>2. \E place \in CachePlace : doing' = [doing EXCEPT ![w] = place]
      BY DEF ReadHints, Goto, CachePlace
    <2>3. doing' \in [Measurer -> CachePlace]
      BY <1>1, <2>2 DEF CacheTypes
    <2>4. cacheFaults' \in 0 .. MaxCacheFaults
      BY <1>1 DEF ReadHints, CacheTypes, CacheFault
    <2> QED  BY <1>1, <2>1, <2>3, <2>4 DEF ReadHints, CacheTypes
  <1>4. KnowsTruth(w)'
    <2>1. doing[w] = "readHints" /\ doing'[w] \in {"decide", "writeHints"}
      BY <1>1 DEF ReadHints, CacheTypes, Goto, CacheFault
    <2>2. doing'[w] = "writeHints" => hintsRead'[w].id \in DOMAIN cacheRows
      BY <1>1 DEF ReadHints, CacheTypes, Goto, CacheFault, RowsOf
    <2>3. UNCHANGED <<cacheRows, limits, digest, seen, outcome, answer>>
      BY DEF ReadHints
    <2> QED  BY <1>1, <2>1, <2>2, <2>3 DEF KnowsTruth, TrueRow, Sound
  <1> QED  BY <1>1, <1>3, <1>4, StepKeepsCache DEF ReadHints, CacheTypes, Goto, CacheInv, CacheFault

LEMMA WriteHintsKeeps ==
    ASSUME CacheAssumption, CacheInv, NEW w \in Measurer, WriteHints(w)
    PROVE  CacheInv'
  <1> DEFINE id == hintsRead[w].id
             new == hintsRead[w].hints \cup {asked[w]}
             row == [cacheRows[id] EXCEPT !.hints = new]
  <1>1. /\ CacheTypes /\ MaxCacheFaults \in Nat /\ KnowsTruth(w) /\ doing[w] = "writeHints"
    BY DEF CacheInv, CacheAssumption, WriteHints
  <1>2. /\ id \in DOMAIN cacheRows /\ new \in SUBSET Hints
        /\ cacheRows[id] \in CacheRow /\ TrueRow(cacheRows[id])
    BY <1>1, ElementOfSeq DEF KnowsTruth, CacheTypes, CacheInv, HintsRow
  <1>3. row \in CacheRow /\ TrueRow(row)
    BY <1>2, HintsDoNotMatter
  <1>4. cacheRows' = [cacheRows EXCEPT ![id] = row] \/ cacheRows' = cacheRows
    BY DEF WriteHints
  <1> HIDE DEF id, new, row
  <1>5. /\ cacheRows' \in Seq(CacheRow) /\ DOMAIN cacheRows' = DOMAIN cacheRows
        /\ \A i \in DOMAIN cacheRows' : TrueRow(cacheRows'[i])
    <2>1. CASE cacheRows' = cacheRows
      BY <1>1, <2>1 DEF CacheTypes, CacheInv
    <2>2. CASE cacheRows' = [cacheRows EXCEPT ![id] = row]
      BY <1>1, <1>2, <1>3, <2>2, ExceptSeq DEF CacheTypes, CacheInv
    <2> QED  BY <1>4, <2>1, <2>2
  <1>6. NoHints \in HintsRow
    BY DEF NoHints, HintsRow
  <1>7. CacheTypes'
    <2>1. hintsRead' \in [Measurer -> HintsRow]
      BY <1>1, <1>6, Updated DEF WriteHints, CacheTypes
    <2>2. doing' \in [Measurer -> CachePlace] /\ cacheFaults' \in 0 .. MaxCacheFaults
      BY <1>1 DEF WriteHints, CacheTypes, Goto, CacheFault, CachePlace
    <2> QED  BY <1>1, <1>5, <2>1, <2>2 DEF WriteHints, CacheTypes
  <1>8. KnowsTruth(w)'
    <2>1. doing'[w] = "decide" /\ UNCHANGED <<limits, digest, seen, outcome, answer>>
      BY <1>1 DEF WriteHints, CacheTypes, Goto
    <2> QED  BY <1>1, <2>1 DEF KnowsTruth, TrueRow, Sound
  <1> QED  BY <1>1, <1>5, <1>7, <1>8, StepKeepsCache DEF WriteHints, CacheTypes, Goto, CacheFault

\* The common part of the steps that end a measurement with an answer.
LEMMA AnswerTypes ==
    ASSUME CacheTypes, NEW w \in Measurer, NEW a \in CacheReply, Answer(w, a)
    PROVE  /\ doing' \in [Measurer -> CachePlace] /\ answer' \in [Measurer -> CacheReply]
           /\ doing'[w] = "idle" /\ answer'[w] = a
           /\ \A v \in Measurer \ {w} : doing'[v] = doing[v] /\ answer'[v] = answer[v]
  BY DEF Answer, Goto, CacheTypes, CachePlace

LEMMA DecideKeeps ==
    ASSUME CacheAssumption, CacheInv, NEW w \in Measurer, Decide(w)
    PROVE  CacheInv'
  <1> DEFINE row == seen[w]
             late == [status |-> "timeout",
                      elapsed |-> IF row.cap < limit[w] THEN row.cap ELSE limit[w]]
             served == IF row.isTimeout THEN late ELSE Reported(w, row.elapsed)
  <1>1. /\ CacheTypes /\ KnowsTruth(w) /\ doing[w] = "decide"
    BY DEF CacheInv, Decide
  <1>2. row \in CacheRow /\ TrueRow(row) /\ row.plan = digest[w] /\ digest[w] \in KnownPlan
    BY <1>1 DEF KnowsTruth
  <1>3. /\ row.cap \in Nat /\ row.elapsed \in Nat /\ row.isTimeout \in BOOLEAN
        /\ {cap[w], limit[w], PlanTime[digest[w]]} \subseteq Nat \ {0}
    BY <1>1, <1>2, Numbers DEF CacheRow
  <1>4. /\ UNCHANGED <<cacheRows, measured, limits, asked, digest, hintsRead, outcome, cacheFaults>>
        /\ seen' = [seen EXCEPT ![w] = NoRow]
    BY DEF Decide
  <1>5. seen' \in [Measurer -> CacheRow \cup {NoRow}]
    BY <1>1, <1>4 DEF CacheTypes
  <1>6. CASE TooShort(row, w)
    <2>1. /\ rerun' = [rerun EXCEPT ![w] = TRUE] /\ UNCHANGED answer
          /\ doing' = [doing EXCEPT ![w] = "execute"]
      BY <1>6 DEF Decide, Goto
    <2>2. CacheTypes'
      BY <1>1, <1>4, <1>5, <2>1 DEF CacheTypes, CachePlace
    <2>3. KnowsTruth(w)'
      BY <1>1, <1>4, <2>1 DEF KnowsTruth, CacheTypes, Sound
    <2> QED  BY <1>1, <1>4, <2>1, <2>2, <2>3, StepKeepsCache DEF CacheTypes, CacheInv
  <1>7. CASE ~TooShort(row, w)
    <2>1. Answer(w, served) /\ UNCHANGED rerun
      BY <1>7 DEF Decide
    <2>2. served \in CacheReply /\ Sound(w, served)
      <3>1. CASE row.isTimeout
        <4>1. PlanTime[digest[w]] >= row.cap /\ row.cap >= cap[w]
          BY <1>2, <1>3, <1>7, <3>1 DEF TrueRow, TooShort
        <4>2. late.elapsed \in Nat \ {0}
          BY <1>3, <4>1
        <4>3. late \in CacheReply
          BY <4>2 DEF CacheReply, Status
        <4>4. Sound(w, late)
          BY <1>3, <4>1, <4>2 DEF Sound
        <4> QED  BY <3>1, <4>3, <4>4
      <3>2. CASE ~row.isTimeout
        <4>1. row.elapsed = PlanTime[digest[w]]
          BY <1>2, <3>2 DEF TrueRow
        <4> QED  BY <1>1, <1>2, <1>3, <3>2, <4>1, ReportedIsSound
      <3> QED  BY <3>1, <3>2
    <2> HIDE DEF served
    <2>3. /\ doing' \in [Measurer -> CachePlace] /\ answer' \in [Measurer -> CacheReply]
          /\ doing'[w] = "idle" /\ answer'[w] = served
          /\ \A v \in Measurer \ {w} : doing'[v] = doing[v] /\ answer'[v] = answer[v]
      BY <1>1, <2>1, <2>2, AnswerTypes
    <2>4. CacheTypes'
      BY <1>1, <1>4, <1>5, <2>1, <2>3 DEF CacheTypes
    <2>5. KnowsTruth(w)'
      BY <1>2, <1>4, <2>2, <2>3 DEF KnowsTruth, Sound
    <2> QED  BY <1>1, <1>4, <2>3, <2>4, <2>5, StepKeepsCache DEF CacheTypes, CacheInv
  <1> QED  BY <1>6, <1>7

\* A step that ends a measurement with a sound answer and no row.
LEMMA AnswerKeeps ==
    ASSUME CacheInv, NEW w \in Measurer, NEW a \in CacheReply, Answer(w, a),
           digest[w] \in KnownPlan, Sound(w, a), cacheFaults' \in 0 .. MaxCacheFaults,
           UNCHANGED <<cacheRows, measured, limits, asked, digest, seen, hintsRead, rerun, outcome>>
    PROVE  CacheInv'
  <1>1. CacheTypes
    BY DEF CacheInv
  <1>2. /\ doing' \in [Measurer -> CachePlace] /\ answer' \in [Measurer -> CacheReply]
        /\ doing'[w] = "idle" /\ answer'[w] = a
        /\ \A v \in Measurer \ {w} : doing'[v] = doing[v] /\ answer'[v] = answer[v]
    BY <1>1, AnswerTypes
  <1>3. CacheTypes'
    BY <1>1, <1>2 DEF CacheTypes
  <1>4. KnowsTruth(w)'
    BY <1>2 DEF KnowsTruth, Sound
  <1> QED  BY <1>1, <1>2, <1>3, <1>4, StepKeepsCache DEF CacheInv

LEMMA ErrorIsSound ==
    ASSUME NEW w \in Measurer
    PROVE  /\ [status |-> "error", elapsed |-> 0] \in CacheReply
           /\ Sound(w, [status |-> "error", elapsed |-> 0])
  BY DEF CacheReply, Status, Sound

LEMMA ExecutePlainKeeps ==
    ASSUME CacheAssumption, CacheInv, NEW w \in Measurer, ExecutePlain(w)
    PROVE  CacheInv'
  <1>1. CacheTypes /\ MaxCacheFaults \in Nat /\ digest[w] \in KnownPlan
    BY DEF CacheInv, CacheAssumption, KnowsTruth, ExecutePlain
  <1>2. UNCHANGED <<cacheRows, measured, limits, asked, digest, seen, hintsRead, rerun, outcome>>
    BY DEF ExecutePlain
  <1>3. cacheFaults' \in 0 .. MaxCacheFaults
    BY <1>1 DEF ExecutePlain, CacheTypes, CacheFault
  <1>4. /\ Reported(w, PlanTime[digest[w]]) \in CacheReply
        /\ Sound(w, Reported(w, PlanTime[digest[w]]))
    BY <1>1, Numbers, ReportedIsSound
  <1>5. \/ Answer(w, Reported(w, PlanTime[digest[w]]))
        \/ Answer(w, [status |-> "error", elapsed |-> 0])
    BY DEF ExecutePlain
  <1> QED  BY <1>1, <1>2, <1>3, <1>4, <1>5, AnswerKeeps, ErrorIsSound

LEMMA ExecuteKeeps ==
    ASSUME CacheAssumption, CacheInv, NEW w \in Measurer, Execute(w)
    PROVE  CacheInv'
  <1> DEFINE t == PlanTime[digest[w]]
             finished == [status |-> "ok", elapsed |-> t]
             cut == [status |-> "timeout", elapsed |-> cap[w]]
             partial == [status |-> "ok", elapsed |-> cap[w]]
  <1>1. CacheTypes /\ MaxCacheFaults \in Nat /\ digest[w] \in KnownPlan /\ KnowsTruth(w)
    BY DEF CacheInv, CacheAssumption, KnowsTruth, Execute
  <1>2. t \in Nat /\ cap[w] \in Nat
    BY <1>1, Numbers
  <1>3. UNCHANGED <<cacheRows, measured, limits, asked, digest, seen, hintsRead, rerun>>
    BY DEF Execute
  <1>4. cacheFaults' \in 0 .. MaxCacheFaults
    BY <1>1 DEF Execute, CacheTypes, CacheFault
  <1>5. /\ {finished, cut, partial} \subseteq CacheReply
        /\ t < cap[w] => Observed(w, finished)
        /\ cap[w] <= t => Observed(w, cut) /\ Observed(w, partial)
    BY <1>2 DEF CacheReply, Status, Observed
  <1>6. CASE Answer(w, [status |-> "error", elapsed |-> 0]) /\ UNCHANGED outcome
    BY <1>1, <1>3, <1>4, <1>6, AnswerKeeps, ErrorIsSound
  <1>7. ASSUME NEW o \in CacheReply, Observed(w, o),
               outcome' = [outcome EXCEPT ![w] = o], Goto(w, "store"), UNCHANGED answer
        PROVE  CacheInv'
    <2>3. outcome' \in [Measurer -> CacheReply] /\ outcome'[w] = o
      BY <1>1, <1>7 DEF CacheTypes
    <2>4. doing' \in [Measurer -> CachePlace] /\ doing'[w] = "store"
      BY <1>1, <1>7 DEF Goto, CacheTypes, CachePlace
    <2>5. CacheTypes'
      BY <1>1, <1>3, <1>4, <1>7, <2>3, <2>4 DEF CacheTypes
    <2>6. KnowsTruth(w)'
      BY <1>1, <1>3, <1>7, <2>3, <2>4 DEF KnowsTruth, Observed, Sound
    <2> QED  BY <1>1, <1>3, <1>7, <2>5, <2>6, StepKeepsCache DEF CacheTypes, Goto, CacheInv
  <1>8. CASE /\ outcome' = [outcome EXCEPT ![w] = IF t < cap[w] THEN finished ELSE cut]
             /\ Goto(w, "store") /\ UNCHANGED answer
    <2> HIDE DEF finished, cut, partial
    <2>1. CASE t < cap[w]
      BY <1>5, <1>7, <1>8, <2>1
    <2>2. CASE ~(t < cap[w])
      <3>1. cap[w] <= t
        BY <1>2, <2>2
      <3> HIDE DEF t
      <3> QED  BY <1>5, <1>7, <1>8, <2>2, <3>1
    <2> QED  BY <2>1, <2>2
  <1>9. CASE /\ t >= cap[w] /\ outcome' = [outcome EXCEPT ![w] = partial]
             /\ Goto(w, "store") /\ UNCHANGED answer
    BY <1>2, <1>5, <1>7, <1>9
  <1> QED  BY <1>6, <1>8, <1>9 DEF Execute

\* What store() writes: rows that are true stay or become true.
LEMMA SaveKeepsTruth ==
    ASSUME CacheAssumption, CacheInv, NEW w \in Measurer, digest[w] \in KnownPlan,
           Observed(w, outcome[w]), Save(w)
    PROVE  /\ cacheRows' \in Seq(CacheRow)
           /\ DOMAIN cacheRows \subseteq DOMAIN cacheRows'
           /\ \A i \in DOMAIN cacheRows' : TrueRow(cacheRows'[i])
  <1> DEFINE r == Result(w)
  <1>1. /\ r.elapsed \in Nat /\ r.cap \in Nat /\ r.isTimeout \in BOOLEAN
        /\ IF r.isTimeout THEN PlanTime[digest[w]] >= r.cap
           ELSE PlanTime[digest[w]] = r.elapsed
    BY ResultIsTrue DEF CacheInv
  <1>2. /\ CacheTypes /\ cacheRows \in Seq(CacheRow) /\ asked[w] \in Hints
        /\ \A i \in DOMAIN cacheRows : TrueRow(cacheRows[i]) /\ cacheRows[i] \in CacheRow
    BY RowsAreRows DEF CacheInv, CacheTypes
  <1> HIDE DEF r
  <1>3. CASE rerun[w]
    <2> DEFINE new(i) == [cacheRows[i] EXCEPT !.elapsed = r.elapsed, !.cap = r.cap,
                                              !.isTimeout = r.isTimeout]
    <2>1. cacheRows' = [i \in DOMAIN cacheRows |->
                          IF cacheRows[i].plan = digest[w] THEN new(i) ELSE cacheRows[i]]
      BY <1>3 DEF Save, UpdateRows, r
    <2>2. ASSUME NEW i \in DOMAIN cacheRows, cacheRows[i].plan = digest[w]
          PROVE  new(i) \in CacheRow /\ TrueRow(new(i))
      BY <1>1, <1>2, <2>2 DEF CacheRow, TrueRow
    <2> HIDE DEF new
    <2>3. /\ DOMAIN cacheRows' = DOMAIN cacheRows
          /\ \A i \in DOMAIN cacheRows : cacheRows'[i] \in CacheRow /\ TrueRow(cacheRows'[i])
      BY <1>2, <2>1, <2>2
    <2>4. DOMAIN cacheRows = 1 .. Len(cacheRows) /\ Len(cacheRows) \in Nat
      BY <1>2, LenProperties
    <2>5. cacheRows' \in Seq(CacheRow)
      BY <2>1, <2>3, <2>4, IsASeq
    <2> QED  BY <2>3, <2>5
  <1>4. CASE ~rerun[w]
    <2>1. PICK created \in {Len(cacheRows), Len(cacheRows) + 1} :
             cacheRows' = Append(cacheRows,
               [plan |-> digest[w], elapsed |-> r.elapsed, isTimeout |-> r.isTimeout,
                cap |-> r.cap, hints |-> {asked[w]}, created |-> created])
      BY <1>4 DEF Save, InsertRow, r
    <2> DEFINE new == [plan |-> digest[w], elapsed |-> r.elapsed,
                       isTimeout |-> r.isTimeout, cap |-> r.cap,
                       hints |-> {asked[w]}, created |-> created]
    <2>2. created \in Nat
      BY <1>2, <2>1, LenProperties
    <2>3. new \in CacheRow
      BY <1>1, <1>2, <2>2 DEF CacheRow
    <2>4. TrueRow(new)
      BY <1>1 DEF TrueRow
    <2>5. cacheRows' = Append(cacheRows, new)
      BY <2>1
    <2> HIDE DEF new
    <2>6. /\ cacheRows' \in Seq(CacheRow) /\ Len(cacheRows') = Len(cacheRows) + 1
          /\ cacheRows'[Len(cacheRows) + 1] = new
          /\ \A i \in 1 .. Len(cacheRows) : cacheRows'[i] = cacheRows[i]
      BY <1>2, <2>3, <2>5, AppendProperties
    <2>7. /\ DOMAIN cacheRows = 1 .. Len(cacheRows) /\ Len(cacheRows) \in Nat
          /\ DOMAIN cacheRows' = 1 .. Len(cacheRows')
      BY <1>2, <2>6, LenProperties
    <2>8. ASSUME NEW i \in DOMAIN cacheRows' PROVE TrueRow(cacheRows'[i])
      <3>1. CASE i = Len(cacheRows) + 1
        BY <2>4, <2>6, <3>1
      <3>2. CASE i # Len(cacheRows) + 1
        <4>1. i \in DOMAIN cacheRows /\ cacheRows'[i] = cacheRows[i]
          BY <2>6, <2>7, <3>2
        <4> QED  BY <1>2, <4>1
      <3> QED  BY <3>1, <3>2
    <2>9. DOMAIN cacheRows \subseteq DOMAIN cacheRows'
      BY <2>6, <2>7
    <2> QED  BY <2>6, <2>8, <2>9
  <1> QED  BY <1>3, <1>4

LEMMA StoreKeeps ==
    ASSUME CacheAssumption, CacheInv, NEW w \in Measurer, Store(w)
    PROVE  CacheInv'
  <1> DEFINE told == IF outcome[w].status = "timeout" THEN TimedOut(w)
                     ELSE Reported(w, outcome[w].elapsed)
  <1>1. /\ CacheTypes /\ MaxCacheFaults \in Nat /\ digest[w] \in KnownPlan
        /\ Observed(w, outcome[w]) /\ outcome[w] \in CacheReply /\ KnowsTruth(w)
    BY DEF CacheInv, CacheAssumption, KnowsTruth, Store, CacheTypes
  <1>2. /\ UNCHANGED <<measured, limits, asked, digest, seen, hintsRead, rerun>>
        /\ outcome' = [outcome EXCEPT ![w] = NoAnswer] /\ Answer(w, told)
    BY DEF Store
  <1>3. /\ {cap[w], limit[w], PlanTime[digest[w]]} \subseteq Nat \ {0}
        /\ outcome[w].elapsed \in Nat
    BY <1>1, Numbers DEF CacheReply
  <1>4. told \in CacheReply /\ Sound(w, told)
    <2>1. CASE outcome[w].status = "timeout"
      <3>1. told = [status |-> "timeout", elapsed |-> limit[w]] /\ cap[w] <= PlanTime[digest[w]]
        BY <1>1, <1>3, <2>1 DEF TimedOut, Observed
      <3> HIDE DEF told
      <3> QED  BY <1>3, <3>1 DEF CacheReply, Status, Sound
    <2>2. CASE outcome[w].status # "timeout"
      BY <1>1, <1>3, <2>2, ReportedIsSound DEF Observed
    <2> QED  BY <2>1, <2>2
  <1> HIDE DEF told
  <1>5. /\ doing' \in [Measurer -> CachePlace] /\ answer' \in [Measurer -> CacheReply]
        /\ doing'[w] = "idle" /\ answer'[w] = told
        /\ \A v \in Measurer \ {w} : doing'[v] = doing[v] /\ answer'[v] = answer[v]
    BY <1>1, <1>2, <1>4, AnswerTypes
  <1>6. /\ cacheRows' \in Seq(CacheRow)
        /\ DOMAIN cacheRows \subseteq DOMAIN cacheRows'
        /\ \A i \in DOMAIN cacheRows' : TrueRow(cacheRows'[i])
    <2>1. CASE Save(w)
      BY <1>1, <2>1, SaveKeepsTruth
    <2>2. CASE UNCHANGED cacheRows
      BY <1>1, <2>2 DEF CacheInv, CacheTypes
    <2> QED  BY <2>1, <2>2 DEF Store
  <1>7. outcome' \in [Measurer -> CacheReply]
    <2>1. NoAnswer \in CacheReply
      BY DEF NoAnswer, CacheReply, Status
    <2> QED  BY <1>1, <1>2, <2>1 DEF CacheTypes
  <1>8. cacheFaults' \in 0 .. MaxCacheFaults
    BY <1>1 DEF Store, CacheTypes, CacheFault
  <1>9. CacheTypes'
    BY <1>1, <1>2, <1>5, <1>6, <1>7, <1>8 DEF CacheTypes
  <1>10. KnowsTruth(w)'
    BY <1>1, <1>2, <1>4, <1>5 DEF KnowsTruth, Sound
  <1> QED  BY <1>1, <1>2, <1>5, <1>6, <1>9, <1>10, StepKeepsCache DEF CacheTypes

-----------------------------------------------------------------------------
(* One entry per plan.                                                     *)

Calm == ~met /\ cacheFaults = 0

\* A row of the plan of w's request holds the hints of the request.
Entered(w) == \E i \in RowsOf(digest[w]) : asked[w] \in cacheRows[i].hints

OneRow == \A i, j \in DOMAIN cacheRows : cacheRows[i].plan = cacheRows[j].plan => i = j

Alone == \A v, w \in Measurer : doing[v] # "idle" /\ doing[w] # "idle" => v = w

\* What a measurer that nobody disturbs knows of the rows of its plan.
KnowsEntry(w) ==
    /\ doing[w] # "plain"
    /\ doing[w] = "lookup" => ~rerun[w]
    /\ doing[w] = "writeHints" =>
           /\ hintsRead[w].id \in RowsOf(digest[w])
           /\ hintsRead[w].hints = cacheRows[hintsRead[w].id].hints
    /\ doing[w] = "decide" \/ answer[w].status # "none" => Entered(w)
    /\ doing[w] \in {"execute", "store"} =>
           IF rerun[w] THEN Entered(w) ELSE RowsOf(digest[w]) = {}

EntryInv == Calm => OneRow /\ Alone /\ \A w \in Measurer : KnowsEntry(w)

\* No row goes, changes its plan or loses a set of hints.
RowsKept ==
    \A i \in DOMAIN cacheRows :
        /\ i \in DOMAIN cacheRows' /\ cacheRows'[i].plan = cacheRows[i].plan
        /\ cacheRows[i].hints \subseteq cacheRows'[i].hints

LEMMA NewHints ==
    ASSUME NEW row \in CacheRow, NEW hints
    PROVE  /\ [row EXCEPT !.hints = hints].plan = row.plan
           /\ [row EXCEPT !.hints = hints].hints = hints
  BY DEF CacheRow

LEMMA NoFault ==
    ASSUME CacheTypes, CacheAssumption, cacheFaults' = 0
    PROVE  ~CacheFault
  BY DEF CacheTypes, CacheAssumption, CacheFault

LEMMA EnteredStays ==
    ASSUME NEW w \in Measurer, RowsKept, Entered(w), digest'[w] = digest[w],
           asked'[w] = asked[w]
    PROVE  Entered(w)'
  BY DEF RowsKept, Entered, RowsOf

\* A step of w while nobody else measures.
LEMMA StepKeepsEntry ==
    ASSUME EntryInv, Calm, NEW w \in Measurer,
           \A v \in Measurer \ {w} :
               /\ doing[v] = "idle" /\ doing'[v] = "idle" /\ answer'[v] = answer[v]
               /\ digest'[v] = digest[v] /\ asked'[v] = asked[v],
           RowsKept, OneRow', KnowsEntry(w)'
    PROVE  EntryInv'
  <1>1. ASSUME NEW v \in Measurer, v # w
        PROVE  KnowsEntry(v)'
    <2>1. KnowsEntry(v) /\ doing'[v] = "idle"
      BY <1>1 DEF EntryInv
    <2>2. answer'[v].status # "none" => Entered(v)'
      BY <1>1, <2>1, EnteredStays DEF KnowsEntry
    <2> QED  BY <2>1, <2>2 DEF KnowsEntry
  <1>2. Alone'
    BY DEF Alone
  <1> QED  BY <1>1, <1>2 DEF EntryInv

\* Undisturbed after a step means undisturbed before it.
LEMMA WasCalm ==
    ASSUME CacheInv, CacheAssumption, EntryInv, Calm', NEW w \in Measurer,
           UNCHANGED met, UNCHANGED cacheFaults \/ CacheFault, doing[w] # "idle"
    PROVE  /\ Calm /\ ~CacheFault /\ KnowsEntry(w) /\ OneRow
           /\ \A v \in Measurer \ {w} : doing[v] = "idle"
  <1>1. ~CacheFault /\ Calm
    BY NoFault DEF CacheInv, Calm
  <1> QED  BY <1>1 DEF EntryInv, Alone

LEMMA BeginMeasureKeepsEntry ==
    ASSUME CacheAssumption, CacheInv, EntryInv, Calm',
           NEW w \in Measurer, NEW h \in HintSet, BeginMeasure(w, h)
    PROVE  EntryInv'
  <1>1. CacheTypes /\ ~CacheFault /\ Calm
    BY NoFault DEF CacheInv, Calm, BeginMeasure
  <1>2. /\ \A v \in Measurer \ {w} : doing[v] = "idle"
        /\ doing'[w] = "lookup" /\ rerun'[w] = FALSE /\ answer'[w] = NoAnswer
        /\ UNCHANGED cacheRows
    BY <1>1 DEF BeginMeasure, Goto, CacheTypes, Calm
  <1>3. \A v \in Measurer \ {w} :
            /\ doing'[v] = doing[v] /\ answer'[v] = answer[v]
            /\ digest'[v] = digest[v] /\ asked'[v] = asked[v]
    BY <1>1 DEF BeginMeasure, Goto, CacheTypes
  <1>4. KnowsEntry(w)'
    BY <1>2 DEF KnowsEntry, NoAnswer
  <1>5. RowsKept /\ OneRow'
    BY <1>1, <1>2 DEF RowsKept, EntryInv, OneRow
  <1> QED  BY <1>1, <1>2, <1>3, <1>4, <1>5, StepKeepsEntry

LEMMA StartSearchKeepsEntry ==
    ASSUME CacheAssumption, CacheInv, EntryInv, Calm', NEW w \in Measurer, StartSearch(w)
    PROVE  EntryInv'
  <1>1. /\ Calm /\ CacheTypes
        /\ answer'[w] = NoAnswer /\ \A v \in Measurer \ {w} : answer'[v] = answer[v]
        /\ UNCHANGED <<cacheRows, doing, asked, digest, hintsRead, rerun>>
    BY DEF CacheInv, CacheTypes, Calm, StartSearch
  <1>2. /\ UNCHANGED <<OneRow, Alone>>
        /\ \A v \in Measurer : Entered(v)' <=> Entered(v)
    BY <1>1 DEF OneRow, Alone, Entered, RowsOf
  <1>3. \A v \in Measurer : KnowsEntry(v)'
    BY <1>1, <1>2 DEF EntryInv, KnowsEntry, NoAnswer, RowsOf
  <1> QED  BY <1>1, <1>2, <1>3 DEF EntryInv

LEMMA GetByDigestKeepsEntry ==
    ASSUME CacheAssumption, CacheInv, EntryInv, Calm', NEW w \in Measurer, GetByDigest(w)
    PROVE  EntryInv'
  <1>1. /\ Calm /\ ~CacheFault /\ KnowsEntry(w) /\ OneRow /\ doing[w] = "lookup"
        /\ \A v \in Measurer \ {w} : doing[v] = "idle"
    BY WasCalm DEF GetByDigest, Found
  <1>2. /\ UNCHANGED <<cacheRows, asked, digest, rerun, answer>>
        /\ \A v \in Measurer \ {w} : doing'[v] = doing[v]
        /\ \/ doing'[w] = "execute" /\ RowsOf(digest[w]) = {}
           \/ doing'[w] = "readHints"
    BY <1>1 DEF GetByDigest, Found, Goto, CacheInv, CacheTypes
  <1>3. KnowsEntry(w)'
    BY <1>1, <1>2 DEF KnowsEntry, Entered, RowsOf
  <1>4. RowsKept /\ OneRow'
    BY <1>1, <1>2 DEF RowsKept, OneRow
  <1> QED  BY <1>1, <1>2, <1>3, <1>4, StepKeepsEntry

LEMMA ReadHintsKeepsEntry ==
    ASSUME CacheAssumption, CacheInv, EntryInv, Calm', NEW w \in Measurer, ReadHints(w)
    PROVE  EntryInv'
  <1>1. /\ Calm /\ ~CacheFault /\ KnowsEntry(w) /\ OneRow /\ doing[w] = "readHints"
        /\ \A v \in Measurer \ {w} : doing[v] = "idle"
    BY WasCalm DEF ReadHints
  <1>2. /\ UNCHANGED <<cacheRows, asked, digest, rerun, answer>>
        /\ \A v \in Measurer \ {w} : doing'[v] = doing[v]
    BY <1>1 DEF ReadHints, Goto, CacheInv, CacheTypes
  <1>3. KnowsEntry(w)'
    <2>1. PICK i \in RowsOf(digest[w]) :
             IF asked[w] \in cacheRows[i].hints
               THEN Goto(w, "decide") /\ UNCHANGED hintsRead
               ELSE /\ hintsRead' = [hintsRead EXCEPT ![w] =
                                       [id |-> i, hints |-> cacheRows[i].hints]]
                    /\ Goto(w, "writeHints")
      BY <1>1 DEF ReadHints
    <2>2. CASE asked[w] \in cacheRows[i].hints
      <3>1. doing'[w] = "decide" /\ Entered(w)
        BY <2>1, <2>2 DEF Goto, CacheInv, CacheTypes, Entered
      <3> QED  BY <1>2, <3>1 DEF KnowsEntry, Entered, RowsOf
    <2>3. CASE asked[w] \notin cacheRows[i].hints
      <3>1. /\ doing'[w] = "writeHints"
            /\ hintsRead'[w] = [id |-> i, hints |-> cacheRows[i].hints]
        BY <2>1, <2>3 DEF Goto, CacheInv, CacheTypes
      <3>2. answer[w].status # "none" => Entered(w)
        BY <1>1 DEF KnowsEntry
      <3> QED  BY <1>2, <2>1, <3>1, <3>2 DEF KnowsEntry, Entered, RowsOf
    <2> QED  BY <2>2, <2>3
  <1>4. RowsKept /\ OneRow'
    BY <1>1, <1>2 DEF RowsKept, OneRow
  <1> QED  BY <1>1, <1>2, <1>3, <1>4, StepKeepsEntry

\* Alone, w writes back the hints the row still has, and its own.
LEMMA WriteHintsKeepsEntry ==
    ASSUME CacheAssumption, CacheInv, EntryInv, Calm', NEW w \in Measurer, WriteHints(w)
    PROVE  EntryInv'
  <1> DEFINE id == hintsRead[w].id
             new == cacheRows[id].hints \cup {asked[w]}
  <1>1. /\ Calm /\ ~CacheFault /\ KnowsEntry(w) /\ OneRow /\ doing[w] = "writeHints"
        /\ \A v \in Measurer \ {w} : doing[v] = "idle"
    BY WasCalm DEF WriteHints
  <1>2. /\ UNCHANGED <<asked, digest, rerun, answer>>
        /\ doing'[w] = "decide"
        /\ \A v \in Measurer \ {w} : doing'[v] = doing[v]
    BY <1>1 DEF WriteHints, Goto, CacheInv, CacheTypes
  <1>3. id \in RowsOf(digest[w]) /\ cacheRows' = [cacheRows EXCEPT ![id].hints = new]
    BY <1>1 DEF WriteHints, KnowsEntry
  <1>4. /\ id \in DOMAIN cacheRows /\ DOMAIN cacheRows' = DOMAIN cacheRows
        /\ \A i \in DOMAIN cacheRows \ {id} : cacheRows'[i] = cacheRows[i]
        /\ cacheRows'[id] = [cacheRows[id] EXCEPT !.hints = new]
    BY <1>3 DEF RowsOf
  <1>5. cacheRows'[id].plan = cacheRows[id].plan /\ cacheRows'[id].hints = new
    <2>1. cacheRows[id] \in CacheRow
      BY <1>4, RowsAreRows DEF CacheInv
    <2> QED  BY <1>4, <2>1, NewHints
  <1>6. RowsKept /\ OneRow'
    <2>1. ASSUME NEW i \in DOMAIN cacheRows
          PROVE  /\ cacheRows'[i].plan = cacheRows[i].plan
                 /\ cacheRows[i].hints \subseteq cacheRows'[i].hints
      <3>1. CASE i = id
        BY <1>5, <3>1
      <3>2. CASE i # id
        BY <1>4, <3>2
      <3> QED  BY <3>1, <3>2
    <2>2. DOMAIN cacheRows' = DOMAIN cacheRows
      BY <1>4
    <2> QED  BY <1>1, <2>1, <2>2 DEF RowsKept, OneRow
  <1>7. KnowsEntry(w)'
    <2>1. Entered(w)'
      BY <1>2, <1>3, <1>4, <1>5 DEF Entered, RowsOf
    <2> QED  BY <1>2, <2>1 DEF KnowsEntry
  <1> QED  BY <1>1, <1>2, <1>6, <1>7, StepKeepsEntry

LEMMA DecideKeepsEntry ==
    ASSUME CacheAssumption, CacheInv, EntryInv, Calm', NEW w \in Measurer, Decide(w)
    PROVE  EntryInv'
  <1>1. /\ Calm /\ ~CacheFault /\ KnowsEntry(w) /\ OneRow /\ doing[w] = "decide"
        /\ \A v \in Measurer \ {w} : doing[v] = "idle"
    BY WasCalm DEF Decide
  <1>2. /\ UNCHANGED <<cacheRows, asked, digest>>
        /\ doing'[w] = "idle" \/ (doing'[w] = "execute" /\ rerun'[w] = TRUE)
        /\ \A v \in Measurer \ {w} : doing'[v] = doing[v] /\ answer'[v] = answer[v]
    BY <1>1 DEF Decide, Answer, Goto, CacheInv, CacheTypes
  <1>3. Entered(w)'
    BY <1>1, <1>2 DEF KnowsEntry, Entered, RowsOf
  <1>4. KnowsEntry(w)'
    BY <1>2, <1>3 DEF KnowsEntry
  <1>5. RowsKept /\ OneRow'
    BY <1>1, <1>2 DEF RowsKept, OneRow
  <1> QED  BY <1>1, <1>2, <1>4, <1>5, StepKeepsEntry

LEMMA ExecuteKeepsEntry ==
    ASSUME CacheAssumption, CacheInv, EntryInv, Calm', NEW w \in Measurer,
           Execute(w) \/ ExecutePlain(w)
    PROVE  EntryInv'
  <1>1. /\ Calm /\ ~CacheFault /\ KnowsEntry(w) /\ OneRow
        /\ doing[w] \in {"execute", "plain"}
        /\ \A v \in Measurer \ {w} : doing[v] = "idle"
    <2>1. doing[w] \in {"execute", "plain"}
      BY DEF Execute, ExecutePlain
    <2>2. UNCHANGED met /\ (UNCHANGED cacheFaults \/ CacheFault)
      BY DEF Execute, ExecutePlain
    <2> QED  BY <2>1, <2>2, WasCalm
  <1>2. Execute(w) /\ doing[w] = "execute"
    BY <1>1 DEF KnowsEntry, ExecutePlain
  <1>3. /\ UNCHANGED <<cacheRows, asked, digest, rerun, answer>>
        /\ doing'[w] = "store"
        /\ \A v \in Measurer \ {w} : doing'[v] = doing[v]
    BY <1>1, <1>2 DEF Execute, Goto, CacheInv, CacheTypes
  <1>4. KnowsEntry(w)'
    BY <1>1, <1>2, <1>3 DEF KnowsEntry, Entered, RowsOf
  <1>5. RowsKept /\ OneRow'
    BY <1>1, <1>3 DEF RowsKept, OneRow
  <1> QED  BY <1>1, <1>3, <1>4, <1>5, StepKeepsEntry

\* Alone, w inserts a row only for a plan that has none.
LEMMA StoreKeepsEntry ==
    ASSUME CacheAssumption, CacheInv, EntryInv, Calm', NEW w \in Measurer, Store(w)
    PROVE  EntryInv'
  <1>1. /\ Calm /\ ~CacheFault /\ KnowsEntry(w) /\ OneRow /\ doing[w] = "store"
        /\ \A v \in Measurer \ {w} : doing[v] = "idle"
    BY WasCalm DEF Store
  <1>2. /\ UNCHANGED <<asked, digest, rerun>> /\ Save(w)
        /\ doing'[w] = "idle"
        /\ \A v \in Measurer \ {w} : doing'[v] = doing[v] /\ answer'[v] = answer[v]
    BY <1>1 DEF Store, Answer, Goto, CacheInv, CacheTypes
  <1>3. RowsKept /\ OneRow' /\ Entered(w)'
    <2>1. CASE rerun[w]
      <3>1. Entered(w) /\ UpdateRows(w, Result(w))
        BY <1>1, <1>2, <2>1 DEF KnowsEntry, Save
      <3>2. /\ DOMAIN cacheRows' = DOMAIN cacheRows
            /\ \A i \in DOMAIN cacheRows :
                  \/ cacheRows'[i] = cacheRows[i]
                  \/ cacheRows'[i] = [cacheRows[i] EXCEPT !.elapsed = Result(w).elapsed,
                                        !.cap = Result(w).cap,
                                        !.isTimeout = Result(w).isTimeout]
        BY <3>1 DEF UpdateRows
      <3>3. ASSUME NEW i \in DOMAIN cacheRows
            PROVE  /\ cacheRows'[i].plan = cacheRows[i].plan
                   /\ cacheRows'[i].hints = cacheRows[i].hints
        <4>1. cacheRows[i] \in CacheRow
          BY RowsAreRows DEF CacheInv
        <4> QED  BY <3>2, <4>1 DEF CacheRow
      <3>4. RowsKept /\ OneRow'
        BY <1>1, <3>2, <3>3 DEF RowsKept, OneRow
      <3> QED  BY <1>2, <3>1, <3>4, EnteredStays
    <2>2. CASE ~rerun[w]
      <3> DEFINE next == Len(cacheRows) + 1
      <3>1. RowsOf(digest[w]) = {} /\ InsertRow(w, Result(w))
        BY <1>1, <1>2, <2>2 DEF KnowsEntry, Save
      <3>2. PICK new : /\ cacheRows' = Append(cacheRows, new)
                       /\ new.plan = digest[w] /\ new.hints = {asked[w]}
        BY <3>1 DEF InsertRow
      <3>3. /\ DOMAIN cacheRows = 1 .. Len(cacheRows) /\ Len(cacheRows) \in Nat
            /\ DOMAIN cacheRows' = 1 .. next
            /\ cacheRows'[next] = new
            /\ \A i \in DOMAIN cacheRows : cacheRows'[i] = cacheRows[i]
        <4>1. cacheRows \in Seq(CacheRow) /\ cacheRows \in Seq(CacheRow \cup {new})
          BY SeqMonotonic DEF CacheInv, CacheTypes
        <4> QED  BY <3>2, <4>1, AppendProperties, LenProperties
      <3>4. \A i \in DOMAIN cacheRows : cacheRows[i].plan # digest[w]
        BY <3>1 DEF RowsOf
      <3>5. DOMAIN cacheRows' = DOMAIN cacheRows \cup {next} /\ next \notin DOMAIN cacheRows
        BY <3>3
      <3> HIDE DEF next
      <3>6. RowsKept
        BY <3>3, <3>5 DEF RowsKept
      <3>7. OneRow'
        BY <1>1, <3>2, <3>3, <3>4, <3>5 DEF OneRow
      <3>8. Entered(w)'
        BY <1>2, <3>2, <3>3, <3>5 DEF Entered, RowsOf
      <3> QED  BY <3>6, <3>7, <3>8
    <2> QED  BY <2>1, <2>2
  <1>4. KnowsEntry(w)'
    BY <1>2, <1>3 DEF KnowsEntry
  <1>5. \A v \in Measurer \ {w} : digest'[v] = digest[v] /\ asked'[v] = asked[v]
    BY <1>2
  <1> QED  BY <1>1, <1>2, <1>3, <1>4, <1>5, StepKeepsEntry

LEMMA StepKeepsEntries ==
    ASSUME CacheAssumption, CacheInv, EntryInv, [CacheNext]_cacheVars
    PROVE  EntryInv'
  <1> SUFFICES ASSUME Calm' PROVE EntryInv'
    BY DEF EntryInv
  <1>1. CASE UNCHANGED cacheVars
    BY <1>1 DEF cacheVars, EntryInv, Calm, OneRow, Alone, KnowsEntry, Entered, RowsOf
  <1>2. ASSUME NEW w \in Measurer, NEW h \in HintSet, BeginMeasure(w, h) PROVE EntryInv'
    BY <1>2, BeginMeasureKeepsEntry
  <1>4. ASSUME NEW w \in Measurer, StartSearch(w) PROVE EntryInv'
    BY <1>4, StartSearchKeepsEntry
  <1>3. ASSUME NEW w \in Measurer,
               \/ GetByDigest(w) \/ ReadHints(w) \/ WriteHints(w) \/ Decide(w)
               \/ ExecutePlain(w) \/ Execute(w) \/ Store(w)
        PROVE  EntryInv'
    BY <1>3, GetByDigestKeepsEntry, ReadHintsKeepsEntry, WriteHintsKeepsEntry,
       DecideKeepsEntry, ExecuteKeepsEntry, StoreKeepsEntry
  <1> QED  BY <1>1, <1>2, <1>3, <1>4 DEF CacheNext

-----------------------------------------------------------------------------
(* Rows of a plan.                                                         *)

\* Who is about to insert a row of the plan.
Inserting(p) == {w \in Measurer : /\ doing[w] \in {"execute", "store"}
                                  /\ ~rerun[w] /\ digest[w] = p}

\* Together they are bounded: a process that finds no row is one of so many,
\* one that does not see the rows there are has met a failure.
FewRows(p) ==
    Cardinality(RowsOf(p)) + Cardinality(Inserting(p)) <= Cardinality(Measurer) + cacheFaults

FewRowsInv == \A p \in KnownPlan : FewRows(p)

LEMMA RowsAreFinite ==
    ASSUME CacheAssumption, CacheTypes, NEW p
    PROVE  /\ IsFiniteSet(RowsOf(p)) /\ Cardinality(RowsOf(p)) \in Nat
           /\ IsFiniteSet(Inserting(p)) /\ Cardinality(Inserting(p)) \in Nat
           /\ Cardinality(Inserting(p)) <= Cardinality(Measurer)
           /\ Cardinality(Measurer) \in Nat /\ cacheFaults \in Nat
  <1>1. IsFiniteSet(1 .. Len(cacheRows)) /\ DOMAIN cacheRows = 1 .. Len(cacheRows)
    BY FS_Interval, LenProperties DEF CacheTypes
  <1>2. RowsOf(p) \subseteq 1 .. Len(cacheRows)
    BY <1>1 DEF RowsOf
  <1>3. Inserting(p) \subseteq Measurer /\ IsFiniteSet(Measurer)
    BY DEF Inserting, CacheAssumption
  <1>4. cacheFaults \in Nat
    BY DEF CacheTypes, CacheAssumption
  <1> QED  BY <1>1, <1>2, <1>3, <1>4, FS_Subset, FS_CardinalityType

\* A step that inserts no row of the plan and lets nobody come to insert one.
LEMMA NobodyComes ==
    ASSUME CacheAssumption, CacheTypes, NEW p, FewRows(p),
           RowsOf(p)' = RowsOf(p), Inserting(p)' \subseteq Inserting(p),
           cacheFaults' \in Nat, cacheFaults' >= cacheFaults
    PROVE  FewRows(p)'
  <1> DEFINE after == Inserting(p)'
  <1>1. /\ Cardinality(RowsOf(p)) \in Nat /\ Cardinality(Inserting(p)) \in Nat
        /\ IsFiniteSet(Inserting(p)) /\ Cardinality(Measurer) \in Nat /\ cacheFaults \in Nat
    BY RowsAreFinite
  <1>2. after \subseteq Inserting(p)
    OBVIOUS
  <1> HIDE DEF after
  <1>3. Cardinality(after) \in Nat /\ Cardinality(after) <= Cardinality(Inserting(p))
    BY <1>1, <1>2, FS_Subset, FS_CardinalityType
  <1>4. Cardinality(RowsOf(p)') = Cardinality(RowsOf(p))
    BY Zenon
  <1>5. Cardinality(Inserting(p)') = Cardinality(after)
    BY DEF after
  <1> QED  BY <1>1, <1>3, <1>4, <1>5 DEF FewRows

\* A miss: there is no row of the plan, or the lookup failed.
LEMMA OneComes ==
    ASSUME CacheAssumption, CacheTypes, CacheTypes', NEW p, NEW w \in Measurer, FewRows(p),
           RowsOf(p)' = RowsOf(p), Inserting(p)' = Inserting(p) \cup {w},
           \/ RowsOf(p) = {} /\ cacheFaults' = cacheFaults
           \/ cacheFaults' = cacheFaults + 1
    PROVE  FewRows(p)'
  <1>1. /\ Cardinality(RowsOf(p)) \in Nat /\ Cardinality(Inserting(p)) \in Nat
        /\ IsFiniteSet(Inserting(p)) /\ Cardinality(Measurer) \in Nat /\ cacheFaults \in Nat
    BY RowsAreFinite
  <1>2. /\ Cardinality(Inserting(p) \cup {w}) \in Nat
        /\ Cardinality(Inserting(p) \cup {w}) <= Cardinality(Inserting(p)) + 1
    <2>1. Cardinality(Inserting(p) \cup {w}) = IF w \in Inserting(p) THEN Cardinality(Inserting(p))
                                               ELSE Cardinality(Inserting(p)) + 1
      BY <1>1, FS_AddElement, Zenon
    <2> QED  BY <1>1, <2>1
  <1>3. Cardinality(Inserting(p) \cup {w}) <= Cardinality(Measurer)
    <2>1. Inserting(p) \cup {w} \subseteq Measurer /\ IsFiniteSet(Measurer)
      BY DEF Inserting, CacheAssumption
    <2> QED  BY <2>1, FS_Subset
  <1>4. /\ Cardinality(RowsOf(p)') = Cardinality(RowsOf(p))
        /\ Cardinality(Inserting(p)') = Cardinality(Inserting(p) \cup {w})
    BY Zenon
  <1>5. RowsOf(p) = {} => Cardinality(RowsOf(p)) = 0
    BY FS_EmptySet, Zenon
  <1> QED  BY <1>1, <1>2, <1>3, <1>4, <1>5 DEF FewRows

\* An insert: one of them less, one row more.
LEMMA OneInserts ==
    ASSUME CacheAssumption, CacheTypes, NEW p, NEW w \in Inserting(p), NEW i, FewRows(p),
           RowsOf(p)' = RowsOf(p) \cup {i}, Inserting(p)' = Inserting(p) \ {w},
           cacheFaults' = cacheFaults
    PROVE  FewRows(p)'
  <1>1. /\ Cardinality(RowsOf(p)) \in Nat /\ Cardinality(Inserting(p)) \in Nat
        /\ IsFiniteSet(Inserting(p)) /\ IsFiniteSet(RowsOf(p))
        /\ Cardinality(Measurer) \in Nat /\ cacheFaults \in Nat
    BY RowsAreFinite
  <1>2. Cardinality(Inserting(p) \ {w}) = Cardinality(Inserting(p)) - 1
    <2>1. Cardinality(Inserting(p) \ {w}) = IF w \in Inserting(p) THEN Cardinality(Inserting(p)) - 1
                                            ELSE Cardinality(Inserting(p))
      BY <1>1, FS_RemoveElement, Zenon
    <2> QED  BY <2>1
  <1>3. /\ Cardinality(RowsOf(p) \cup {i}) \in Nat
        /\ Cardinality(RowsOf(p) \cup {i}) <= Cardinality(RowsOf(p)) + 1
    <2>1. Cardinality(RowsOf(p) \cup {i}) = IF i \in RowsOf(p) THEN Cardinality(RowsOf(p))
                                            ELSE Cardinality(RowsOf(p)) + 1
      BY <1>1, FS_AddElement, Zenon
    <2> QED  BY <1>1, <2>1
  <1>4. /\ Cardinality(RowsOf(p)') = Cardinality(RowsOf(p) \cup {i})
        /\ Cardinality(Inserting(p)') = Cardinality(Inserting(p) \ {w})
    BY Zenon
  <1> QED  BY <1>1, <1>2, <1>3, <1>4 DEF FewRows

\* Rows keep their plan when hints are written.
LEMMA WriteHintsKeepsRows ==
    ASSUME CacheInv, NEW w \in Measurer, WriteHints(w), NEW p
    PROVE  RowsOf(p)' = RowsOf(p)
  <1>1. /\ DOMAIN cacheRows' = DOMAIN cacheRows
        /\ \A i \in DOMAIN cacheRows : cacheRows'[i].plan = cacheRows[i].plan
    <2>1. CASE UNCHANGED cacheRows
      BY <2>1
    <2>2. CASE cacheRows' = [cacheRows EXCEPT ![hintsRead[w].id].hints =
                               hintsRead[w].hints \cup {asked[w]}]
      <3>1. \A i \in DOMAIN cacheRows : cacheRows[i] \in CacheRow
        BY RowsAreRows DEF CacheInv
      <3> QED  BY <2>2, <3>1 DEF CacheRow
    <2> QED  BY <2>1, <2>2 DEF WriteHints
  <1> QED  BY <1>1 DEF RowsOf

LEMMA StepKeepsFewRows ==
    ASSUME CacheAssumption, CacheInv, CacheInv', FewRowsInv, [CacheNext]_cacheVars
    PROVE  FewRowsInv'
  <1> SUFFICES ASSUME NEW p \in KnownPlan PROVE FewRows(p)'
    BY DEF FewRowsInv, KnownPlan
  <1>1. /\ CacheTypes /\ CacheTypes' /\ FewRows(p) /\ MaxCacheFaults \in Nat
        /\ cacheFaults \in Nat /\ cacheFaults' \in Nat
    BY DEF CacheInv, CacheTypes, FewRowsInv, CacheAssumption
  <1>2. CASE UNCHANGED cacheVars
    BY <1>1, <1>2, NobodyComes DEF cacheVars, RowsOf, Inserting
  <1>3. ASSUME NEW w \in Measurer, NEW h \in HintSet, BeginMeasure(w, h) PROVE FewRows(p)'
    <2>1. UNCHANGED cacheRows /\ doing'[w] \in {"lookup", "plain"} /\ cacheFaults' >= cacheFaults
          /\ \A v \in Measurer \ {w} :
                doing'[v] = doing[v] /\ rerun'[v] = rerun[v] /\ digest'[v] = digest[v]
      BY <1>1, <1>3 DEF BeginMeasure, Goto, CacheFault, CacheTypes
    <2>2. RowsOf(p)' = RowsOf(p) /\ Inserting(p)' \subseteq Inserting(p)
      BY <2>1 DEF RowsOf, Inserting
    <2> QED  BY <1>1, <2>1, <2>2, NobodyComes
  <1>4. ASSUME NEW w \in Measurer, StartSearch(w) PROVE FewRows(p)'
    <2>1. UNCHANGED <<cacheRows, doing, rerun, digest, cacheFaults>>
      BY <1>4 DEF StartSearch
    <2>2. RowsOf(p)' = RowsOf(p) /\ Inserting(p)' \subseteq Inserting(p)
      BY <2>1 DEF RowsOf, Inserting
    <2> QED  BY <1>1, <2>1, <2>2, NobodyComes
  <1>5. ASSUME NEW w \in Measurer, ReadHints(w) \/ WriteHints(w) \/ Decide(w) PROVE FewRows(p)'
    <2>1. /\ UNCHANGED digest /\ cacheFaults' >= cacheFaults
          /\ \A v \in Measurer \ {w} : doing'[v] = doing[v] /\ rerun'[v] = rerun[v]
          /\ doing'[w] \in {"execute", "store"} => rerun'[w]
      <3>1. CASE ReadHints(w)
        BY <1>1, <3>1 DEF ReadHints, Goto, CacheFault, CacheTypes
      <3>2. CASE WriteHints(w)
        BY <1>1, <3>2 DEF WriteHints, Goto, CacheFault, CacheTypes
      <3>3. CASE Decide(w)
        <4>1. CASE TooShort(seen[w], w)
          BY <1>1, <3>3, <4>1 DEF Decide, Goto, CacheTypes
        <4>2. CASE ~TooShort(seen[w], w)
          BY <1>1, <3>3, <4>2 DEF Decide, Answer, Goto, CacheTypes
        <4> QED  BY <4>1, <4>2
      <3> QED  BY <1>5, <3>1, <3>2, <3>3
    <2>2. Inserting(p)' \subseteq Inserting(p)
      BY <2>1 DEF Inserting
    <2>3. RowsOf(p)' = RowsOf(p)
      <3>1. CASE UNCHANGED cacheRows
        BY <3>1 DEF RowsOf
      <3>2. CASE WriteHints(w)
        BY <3>2, WriteHintsKeepsRows
      <3> QED  BY <1>5, <3>1, <3>2 DEF ReadHints, Decide
    <2> QED  BY <1>1, <2>1, <2>2, <2>3, NobodyComes
  <1>6. ASSUME NEW w \in Measurer, ExecutePlain(w) \/ Execute(w) PROVE FewRows(p)'
    <2>1. /\ UNCHANGED <<cacheRows, rerun, digest>> /\ cacheFaults' >= cacheFaults
          /\ \A v \in Measurer \ {w} : doing'[v] = doing[v]
          /\ doing'[w] \in {"execute", "store"} => doing[w] = "execute"
      BY <1>1, <1>6 DEF ExecutePlain, Execute, Answer, Goto, CacheFault, CacheTypes
    <2>2. RowsOf(p)' = RowsOf(p) /\ Inserting(p)' \subseteq Inserting(p)
      BY <2>1 DEF RowsOf, Inserting
    <2> QED  BY <1>1, <2>1, <2>2, NobodyComes
  <1>7. ASSUME NEW w \in Measurer, GetByDigest(w) PROVE FewRows(p)'
    <2>1. /\ UNCHANGED <<cacheRows, rerun, digest>>
          /\ doing[w] = "lookup"
          /\ \A v \in Measurer \ {w} : doing'[v] = doing[v]
          /\ \/ doing'[w] = "readHints" /\ cacheFaults' = cacheFaults
             \/ doing'[w] = "execute" /\ RowsOf(digest[w]) = {} /\ cacheFaults' = cacheFaults
             \/ doing'[w] = "execute" /\ cacheFaults' = cacheFaults + 1
      BY <1>1, <1>7 DEF GetByDigest, Found, Goto, CacheFault, CacheTypes
    <2>2. RowsOf(p)' = RowsOf(p)
      BY <2>1 DEF RowsOf
    <2>3. CASE doing'[w] = "execute" /\ ~rerun[w] /\ digest[w] = p
      <3>1. Inserting(p)' = Inserting(p) \cup {w}
        BY <2>1, <2>3 DEF Inserting
      <3>2. \/ RowsOf(p) = {} /\ cacheFaults' = cacheFaults
            \/ cacheFaults' = cacheFaults + 1
        BY <2>1, <2>3
      <3> QED  BY <1>1, <2>2, <3>1, <3>2, OneComes
    <2>4. CASE ~(doing'[w] = "execute" /\ ~rerun[w] /\ digest[w] = p)
      <3>1. Inserting(p)' \subseteq Inserting(p) /\ cacheFaults' >= cacheFaults
        BY <1>1, <2>1, <2>4 DEF Inserting
      <3> QED  BY <1>1, <2>2, <3>1, NobodyComes
    <2> QED  BY <2>3, <2>4
  <1>8. ASSUME NEW w \in Measurer, Store(w) PROVE FewRows(p)'
    <2>1. /\ UNCHANGED <<rerun, digest>> /\ doing[w] = "store" /\ doing'[w] = "idle"
          /\ \A v \in Measurer \ {w} : doing'[v] = doing[v]
          /\ cacheFaults' >= cacheFaults
      BY <1>1, <1>8 DEF Store, Answer, Goto, CacheFault, CacheTypes
    <2>2. Inserting(p)' = Inserting(p) \ {w}
      BY <2>1 DEF Inserting
    <2>3. ASSUME RowsOf(p)' = RowsOf(p) PROVE FewRows(p)'
      BY <1>1, <2>1, <2>2, <2>3, NobodyComes
    <2>4. CASE UNCHANGED cacheRows
      BY <2>3, <2>4 DEF RowsOf
    <2>5. CASE Save(w) /\ rerun[w]
      <3>1. /\ DOMAIN cacheRows' = DOMAIN cacheRows
            /\ \A i \in DOMAIN cacheRows : cacheRows'[i].plan = cacheRows[i].plan
        <4>1. \A i \in DOMAIN cacheRows : cacheRows[i] \in CacheRow
          BY <1>1, RowsAreRows
        <4>2. cacheRows' = [i \in DOMAIN cacheRows |->
                              IF cacheRows[i].plan = digest[w]
                                THEN [cacheRows[i] EXCEPT !.elapsed = Result(w).elapsed,
                                        !.cap = Result(w).cap, !.isTimeout = Result(w).isTimeout]
                                ELSE cacheRows[i]]
          BY <2>5 DEF Save, UpdateRows
        <4> QED  BY <4>1, <4>2 DEF CacheRow
      <3> QED  BY <2>3, <3>1 DEF RowsOf
    <2>6. CASE Save(w) /\ ~rerun[w] /\ cacheFaults' = cacheFaults
      <3>1. PICK row : row.plan = digest[w] /\ cacheRows' = Append(cacheRows, row)
        BY <2>6 DEF Save, InsertRow
      <3>2. /\ DOMAIN cacheRows = 1 .. Len(cacheRows) /\ Len(cacheRows) \in Nat
            /\ DOMAIN cacheRows' = 1 .. Len(cacheRows) + 1
            /\ cacheRows'[Len(cacheRows) + 1] = row
            /\ \A i \in 1 .. Len(cacheRows) : cacheRows'[i] = cacheRows[i]
        BY <1>1, <3>1 DEF CacheTypes
      <3>3. CASE digest[w] = p
        <4>1. RowsOf(p)' = RowsOf(p) \cup {Len(cacheRows) + 1}
          BY <3>1, <3>2, <3>3 DEF RowsOf
        <4>2. w \in Inserting(p)
          BY <2>1, <2>6, <3>3 DEF Inserting
        <4> QED  BY <1>1, <2>2, <2>6, <4>1, <4>2, OneInserts
      <3>4. CASE digest[w] # p
        <4>1. RowsOf(p)' = RowsOf(p)
          BY <3>1, <3>2, <3>4 DEF RowsOf
        <4> QED  BY <2>3, <4>1
      <3> QED  BY <3>3, <3>4
    <2> QED  BY <1>8, <2>4, <2>5, <2>6 DEF Store
  <1> QED  BY <1>2, <1>3, <1>4, <1>5, <1>6, <1>7, <1>8 DEF CacheNext

-----------------------------------------------------------------------------
\* CacheInv: types, rows that are true, and at each place of a measurement what
\* the process holds is true of its plan.  It needs no order of the steps.
THEOREM CacheInvariant == ASSUME CacheAssumption PROVE CacheSpec => []CacheInv
  <1>1. CacheInit => CacheInv
    BY InitCache
  <1>2. CacheInv /\ [CacheNext]_cacheVars => CacheInv'
    <2> SUFFICES ASSUME CacheInv, [CacheNext]_cacheVars PROVE CacheInv'
      OBVIOUS
    <2>1. CASE UNCHANGED cacheVars
      <3>1. CacheTypes'
        BY <2>1 DEF cacheVars, CacheInv, CacheTypes
      <3>2. \A w \in Measurer : KnowsTruth(w)'
        BY <2>1 DEF cacheVars, CacheInv, KnowsTruth, Observed, Sound, TrueRow
      <3>3. (\A i \in DOMAIN cacheRows : TrueRow(cacheRows[i]))'
        BY <2>1 DEF cacheVars, CacheInv, TrueRow
      <3> QED  BY <3>1, <3>2, <3>3 DEF CacheInv
    <2>2. ASSUME NEW w \in Measurer, NEW h \in HintSet, BeginMeasure(w, h) PROVE CacheInv'
      BY <2>2, BeginMeasureKeeps
    <2>4. ASSUME NEW w \in Measurer, StartSearch(w) PROVE CacheInv'
      BY <2>4, StartSearchKeeps
    <2>3. ASSUME NEW w \in Measurer,
                 \/ GetByDigest(w) \/ ReadHints(w) \/ WriteHints(w) \/ Decide(w)
                 \/ ExecutePlain(w) \/ Execute(w) \/ Store(w)
          PROVE  CacheInv'
      BY <2>3, GetByDigestKeeps, ReadHintsKeeps, WriteHintsKeeps, DecideKeeps,
         ExecutePlainKeeps, ExecuteKeeps, StoreKeeps
    <2> QED  BY <2>1, <2>2, <2>3, <2>4 DEF CacheNext
  <1> QED  BY <1>1, <1>2, PTL DEF CacheSpec

\* However many processes look up, insert and update, the rows are of known plans,
\* and the row whose hints are about to be written is still there.
THEOREM CacheTypeCorrect == ASSUME CacheAssumption PROVE CacheSpec => []CacheTypeOK
  <1>1. CacheInv => CacheTypeOK
    <2> SUFFICES ASSUME CacheInv PROVE CacheTypeOK
      OBVIOUS
    <2>1. \A i \in DOMAIN cacheRows : cacheRows[i].plan \in DOMAIN PlanTime
      <3>1. \A i \in DOMAIN cacheRows : cacheRows[i] \in CacheRow
        BY RowsAreRows DEF CacheInv
      <3> QED  BY <3>1 DEF CacheRow, KnownPlan
    <2>2. \A w \in Measurer :
             doing[w] = "writeHints" => hintsRead[w].id \in DOMAIN cacheRows
      BY DEF CacheInv, KnowsTruth
    <2>3. /\ doing \in [Measurer -> CachePlace]
          /\ measured \in [Measurer -> 0 .. MaxMeasurements]
          /\ \A w \in Measurer : cap[w] \in 1 .. CacheTimeout /\ limit[w] > 0
          /\ cacheFaults \in 0 .. MaxCacheFaults
      BY DEF CacheInv, CacheTypes
    <2> QED  BY <2>1, <2>2, <2>3 DEF CacheTypeOK, CachePlace
  <1> QED  BY <1>1, CacheInvariant, PTL

\* However many processes measure, insert, update several rows and rerun under
\* other caps, and whatever fails, the shared cache tells the truth of a plan,
\* in its rows and in the answers to every caller.
THEOREM CacheTellsTruth == ASSUME CacheAssumption PROVE CacheSpec => []CacheTruthful
  <1>1. CacheInv => CacheTruthful
    <2> SUFFICES ASSUME CacheInv PROVE CacheTruthful
      OBVIOUS
    <2>1. RowsTrue
      BY DEF RowsTrue, CacheInv, TrueRow
    <2>2. AnswersSound
      BY DEF AnswersSound, CacheInv, KnowsTruth, Sound
    <2> QED  BY <2>1, <2>2 DEF CacheTruthful
  <1> QED  BY <1>1, CacheInvariant, PTL

\* Measurements that neither overlap nor meet a failed statement leave one
\* row per plan, with every set of hints that led to the plan
\* (remote_cache_manager.py: lookup, hint update and store agree).
THEOREM PlanHasOneEntry == ASSUME CacheAssumption PROVE CacheSpec => []OneEntryPerPlan
  <1>1. CacheInit => EntryInv
    <2> SUFFICES ASSUME CacheInit PROVE EntryInv
      OBVIOUS
    <2>1. DOMAIN cacheRows = {} /\ \A w \in Measurer : doing[w] = "idle" /\ answer[w] = NoAnswer
      BY DEF CacheInit
    <2> QED  BY <2>1 DEF EntryInv, OneRow, Alone, KnowsEntry, NoAnswer
  <1>2. CacheInv /\ EntryInv /\ [CacheNext]_cacheVars => EntryInv'
    BY StepKeepsEntries
  <1>3. EntryInv => OneEntryPerPlan
    <2> SUFFICES ASSUME EntryInv, Calm PROVE OneEntryPerPlan
      BY DEF OneEntryPerPlan, Calm
    <2>1. ASSUME NEW p \in DOMAIN PlanTime
          PROVE  Cardinality(RowsOf(p)) <= 1
      <3>1. CASE RowsOf(p) = {}
        BY <3>1, FS_EmptySet
      <3>2. CASE RowsOf(p) # {}
        <4>1. PICK i \in RowsOf(p) : TRUE
          BY <3>2
        <4>2. RowsOf(p) = {i}
          BY <4>1 DEF RowsOf, EntryInv, OneRow
        <4>3. Cardinality(RowsOf(p)) = 1
          BY <4>2, FS_Singleton
        <4> QED  BY <4>3
      <3> QED  BY <3>1, <3>2
    <2>2. \A w \in Measurer : answer[w].status # "none" => Entered(w)
      BY DEF EntryInv, KnowsEntry
    <2> QED  BY <2>1, <2>2 DEF OneEntryPerPlan, Entered
  <1> QED  BY <1>1, <1>2, <1>3, CacheInvariant, PTL DEF CacheSpec

\* However many processes measure, however their lookups and inserts interleave
\* and however long they go on, a plan never has more rows than there are
\* processes and failed statements (RemotePlanCache.lookup and store).
THEOREM DuplicatesAreBounded == ASSUME CacheAssumption PROVE CacheSpec => []DuplicatesBounded
  <1>1. CacheAssumption /\ CacheInit => FewRowsInv
    <2> SUFFICES ASSUME CacheInit, NEW p \in KnownPlan PROVE FewRows(p)
      BY DEF FewRowsInv
    <2>1. RowsOf(p) = {} /\ Inserting(p) = {}
      BY DEF CacheInit, RowsOf, Inserting
    <2>2. Cardinality(RowsOf(p)) = 0 /\ Cardinality(Inserting(p)) = 0
      BY <2>1, FS_EmptySet, Zenon
    <2>3. Cardinality(Measurer) \in Nat /\ cacheFaults = 0
      BY FS_CardinalityType DEF CacheAssumption, CacheInit
    <2> QED  BY <2>2, <2>3 DEF FewRows
  <1>2. CacheInv /\ CacheInv' /\ FewRowsInv /\ [CacheNext]_cacheVars => FewRowsInv'
    BY StepKeepsFewRows
  <1>3. CacheInv /\ FewRowsInv => DuplicatesBounded
    <2> SUFFICES ASSUME CacheInv, FewRowsInv, NEW p \in KnownPlan
                 PROVE  Cardinality(RowsOf(p)) <= Cardinality(Measurer) + cacheFaults
      BY DEF DuplicatesBounded, KnownPlan
    <2> QED  BY RowsAreFinite DEF CacheInv, FewRowsInv, FewRows
  <1> QED  BY <1>1, <1>2, <1>3, CacheInvariant, PTL DEF CacheSpec

\* The shared table holds one row per plan, with all hints that led to it, where
\* measurements did not overlap and nothing failed, and never more rows of a plan than
\* processes and failures (RemotePlanCache.lookup and store).
THEOREM EntriesAreAccounted == ASSUME CacheAssumption PROVE CacheSpec => []EntriesAccounted
  BY PlanHasOneEntry, DuplicatesAreBounded, PTL DEF EntriesAccounted

=============================================================================
