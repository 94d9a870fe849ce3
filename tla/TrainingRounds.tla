---------------------------- MODULE TrainingRounds ----------------------------
(***************************************************************************)
(* What resuming promises of the tasks of a node (TrainingExecutor.execute *)
(* with allow_resume, ExecutionHistoryController.get_interrupted_chain).   *)
(* Tasks end one after another.  A task takes up the newest ones that were *)
(* interrupted, without a gap, or none; what it repeats of their results   *)
(* is due to a failure; and it is complete only if each template of its    *)
(* workload had a result, its own or one it took up.  TrainingTask         *)
(* implements it.                                                          *)
(***************************************************************************)
EXTENDS Naturals, Sequences

CONSTANTS
    Template,  \* SQL templates
    Limit      \* most templates a task takes on, 0 for no limit

VARIABLES
    ledger,    \* the tasks that ended, oldest first
    disturbed  \* whether something has failed

Outcome == {"completed", "interrupted", "failed"}

Ended == [outcome : Outcome, wanted : SUBSET Template, results : SUBSET Template,
          resumed : SUBSET Nat]

\* The newest tasks, as far back as all of them were interrupted.
Open ==
    {i \in 1..Len(ledger) : \A j \in i..Len(ledger) : ledger[j].outcome = "interrupted"}

ResultsOf(s) == UNION {ledger[i].results : i \in s}

Init ==
    /\ ledger = <<>>
    /\ disturbed = FALSE

EndTask(t) ==
    /\ t.resumed \subseteq Open
    /\ \A i \in t.resumed : i..Len(ledger) \subseteq t.resumed
    /\ t.results \subseteq t.wanted
    /\ disturbed \/ t.results \cap ResultsOf(t.resumed) = {}
    /\ t.outcome = "completed" /\ Limit = 0
          => t.wanted \subseteq t.results \cup ResultsOf(t.resumed)
    /\ ledger' = Append(ledger, t)
    /\ UNCHANGED disturbed

Disturb ==
    /\ disturbed' = TRUE
    /\ UNCHANGED ledger

Next ==
    \/ Disturb
    \/ \E o \in Outcome, w, r \in SUBSET Template, s \in SUBSET Open :
          EndTask([outcome |-> o, wanted |-> w, results |-> r, resumed |-> s])

Spec == Init /\ [][Next]_<<ledger, disturbed>>
=============================================================================
