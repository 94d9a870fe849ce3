----------------------------- MODULE LlmClient -----------------------------
(***************************************************************************)
(* Completions over a pool of endpoints (mcts/modules/llm_client.py): the  *)
(* threads of a search call LLMClient.complete at the same time and share  *)
(* the APIPool, whose operations are atomic under its lock.                *)
(*                                                                         *)
(* Time is relative: an endpoint has a remaining cooldown, a sleeper a     *)
(* remaining wait, a call its duration so far, and Tick passes time for    *)
(* all.  Prompts and texts are left out.                                   *)
(***************************************************************************)
EXTENDS Integers, FiniteSets

CONSTANTS
    Endpoint,
    Caller,        \* threads that call complete
    NoEndpoint,
    Cooldown,      \* api_cooldown_seconds
    FailedWait,    \* api_all_failed_wait_seconds
    CallTimeout,   \* of the HTTP request
    Prompt,        \* TRUE: the client's own steps take no time
    MaxRetries,    \* tpm_rate_limit_max_retries
    MaxFailures    \* bound of the count of failures, for the state space

ASSUME ClientAssumption ==
    /\ NoEndpoint \notin Endpoint
    /\ Endpoint # {}
    /\ IsFiniteSet(Caller)
    /\ Prompt \in BOOLEAN
    /\ {Cooldown, FailedWait, CallTimeout, MaxRetries, MaxFailures} \subseteq Nat

VARIABLES
    cooling,   \* remaining cooldown of each endpoint, 0 if it is available
    at,        \* where each caller is in complete()
    endpoint,  \* the one it calls
    rounds,    \* all_cooldown_count
    wait,      \* what is left of its sleep
    lasted,    \* duration of its call
    completion,\* status of the completion it returned
    failures   \* calls of any caller that failed since this one began

clientVars == <<cooling, at, endpoint, rounds, wait, lasted, completion, failures>>

ClientInit ==
    /\ cooling = [e \in Endpoint |-> 0]
    /\ at = [c \in Caller |-> "choose"]
    /\ endpoint = [c \in Caller |-> NoEndpoint]
    /\ rounds = [c \in Caller |-> 0]
    /\ wait = [c \in Caller |-> 0]
    /\ lasted = [c \in Caller |-> 0]
    /\ completion = [c \in Caller |-> "none"]
    /\ failures = [c \in Caller |-> 0]

\* APIPool.get_available: the endpoints out of cooldown.
Available == {e \in Endpoint : cooling[e] = 0}

Return(c, status) ==
    /\ at' = [at EXCEPT ![c] = "done"]
    /\ completion' = [completion EXCEPT ![c] = status]

\* Every endpoint is in cooldown: one more round, after a sleep.
NextRound(c) ==
    /\ rounds' = [rounds EXCEPT ![c] = @ + 1]
    /\ IF rounds[c] + 1 > MaxRetries
         THEN Return(c, "rate_limit_exceeded") /\ UNCHANGED wait
         ELSE /\ at' = [at EXCEPT ![c] = "sleep"]
              /\ wait' = [wait EXCEPT ![c] = FailedWait]
              /\ UNCHANGED completion

\* The head of the loop of complete().
Choose(c) ==
    /\ at[c] = "choose"
    /\ \/ /\ Available = {}
          /\ NextRound(c)
          /\ UNCHANGED endpoint
       \/ \E e \in Available :
             /\ endpoint' = [endpoint EXCEPT ![c] = e]
             /\ at' = [at EXCEPT ![c] = "call"]
             /\ UNCHANGED <<rounds, wait, completion>>
    /\ UNCHANGED <<cooling, lasted, failures>>

\* _call_endpoint: an answer or an HTTP error is returned at once.
CallReturns(c) ==
    /\ at[c] = "call"
    /\ \E status \in {"ok", "http_error"} : Return(c, status)
    /\ lasted' = [lasted EXCEPT ![c] = 0]
    /\ UNCHANGED <<cooling, endpoint, rounds, wait, failures>>

\* A rate limit, a timeout or a network error rotates the endpoint.
CallFails(c) ==
    /\ at[c] = "call"
    /\ at' = [at EXCEPT ![c] = "mark"]
    /\ lasted' = [lasted EXCEPT ![c] = 0]
    /\ failures' = [d \in Caller |->
                      IF failures[d] < MaxFailures THEN failures[d] + 1
                      ELSE MaxFailures]
    /\ UNCHANGED <<cooling, endpoint, rounds, wait, completion>>

\* As a mutant: a cooldown that outlasts the rounds of the callers.
CooldownPastWait == Cooldown + 2 * FailedWait

CooldownTime == Cooldown

\* APIPool.mark_cooldown.
MarkCooldown(c) ==
    /\ at[c] = "mark"
    /\ cooling' = [cooling EXCEPT ![endpoint[c]] = CooldownTime]
    /\ at' = [at EXCEPT ![c] = "test"]
    /\ UNCHANGED <<endpoint, rounds, wait, lasted, completion, failures>>

\* APIPool.all_in_cooldown, after the lock was free in between.
TestPool(c) ==
    /\ at[c] = "test"
    /\ IF Available = {}
         THEN NextRound(c)
         ELSE /\ at' = [at EXCEPT ![c] = "choose"]
              /\ UNCHANGED <<rounds, wait, completion>>
    /\ UNCHANGED <<cooling, endpoint, lasted, failures>>

Wake(c) ==
    /\ at[c] = "sleep"
    /\ wait[c] = 0
    /\ at' = [at EXCEPT ![c] = "choose"]
    /\ UNCHANGED <<cooling, endpoint, rounds, wait, lasted, completion, failures>>

\* Time passes, but no call outlasts its timeout.
Tick ==
    /\ \E c \in Caller : at[c] # "done"
    /\ \A c \in Caller : at[c] = "call" => lasted[c] < CallTimeout
    /\ \A c \in Caller : at[c] = "sleep" => wait[c] > 0
    /\ Prompt => \A c \in Caller : at[c] \in {"call", "sleep", "done"}
    /\ cooling' = [e \in Endpoint |-> IF cooling[e] = 0 THEN 0 ELSE cooling[e] - 1]
    /\ wait' = [c \in Caller |-> IF wait[c] = 0 THEN 0 ELSE wait[c] - 1]
    /\ lasted' = [c \in Caller |-> IF at[c] = "call" THEN lasted[c] + 1 ELSE 0]
    /\ UNCHANGED <<at, endpoint, rounds, completion, failures>>

Complete(c) ==
    Choose(c) \/ CallReturns(c) \/ CallFails(c) \/ MarkCooldown(c)
      \/ TestPool(c) \/ Wake(c)

ClientNext == Tick \/ \E c \in Caller : Complete(c)

ClientSpec == ClientInit /\ [][ClientNext]_clientVars

\* Threads are scheduled, clocks run, and an HTTP request ends by its timeout.
ClientFairSpec ==
    ClientSpec /\ WF_clientVars(Tick) /\ \A c \in Caller : WF_clientVars(Complete(c))

-----------------------------------------------------------------------------
ClientTypeOK ==
    /\ cooling \in [Endpoint -> Nat]
    /\ at \in [Caller -> {"choose", "call", "mark", "test", "sleep", "done"}]
    /\ endpoint \in [Caller -> Endpoint \cup {NoEndpoint}]
    /\ rounds \in [Caller -> 0 .. MaxRetries + 1]
    /\ wait \in [Caller -> 0 .. FailedWait]
    /\ lasted \in [Caller -> 0 .. CallTimeout]
    /\ \A c \in Caller : at[c] = "done" <=> completion[c] # "none"

\* No round of retries is spent in vain: as the sleep is at least a cooldown
\* long, an endpoint found in cooldown after it failed again meanwhile, in
\* this caller or another one (LLMClient.complete).
RoundsAreFailures ==
    FailedWait >= Cooldown =>
        \A c \in Caller :
            rounds[c] <= IF failures[c] < MaxFailures THEN failures[c] ELSE rounds[c]

\* A request ends: it gives up after MaxRetries rounds
\* ("All endpoints exhausted after max retries", mcts/types.py).
CompletionEnds == \A c \in Caller : <>(at[c] = "done")
=============================================================================
