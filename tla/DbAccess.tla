------------------------------ MODULE DbAccess ------------------------------
(***************************************************************************)
(* Statements through a DBController (db_controller.py) by one thread:     *)
(* sessions are opened on demand and prepared, the USE of a database and a *)
(* statement's time limit are state of the session, and a statement whose  *)
(* connection was lost is executed again, once.                            *)
(*                                                                         *)
(* A disconnect invalidates the SQLAlchemy connection: its next statement  *)
(* is refused (PendingRollbackError), and after a rollback it reconnects   *)
(* by itself, to a session nobody prepared.  All instances are configured  *)
(* with allow_reconnect.  Pooling of closed sessions is left out.          *)
(***************************************************************************)
EXTENDS Integers, Sequences, FiniteSets

CONSTANTS
    Database,
    HomeDatabase,   \* the database given to the constructor
    MaxCalls,       \* bound: calls of the thread
    MaxLinkFaults   \* bound: failures of statements and connections

ASSUME DbAssumption ==
    /\ HomeDatabase \in Database
    /\ MaxCalls \in Nat
    /\ MaxLinkFaults \in Nat

VARIABLES
    sessions,     \* the server's sessions, a sequence
    link,         \* thd_local.conn: a session, 0 for None
    base,         \* thd_local.db
    call,         \* the call in progress or the last one
    applied,      \* executions of its statement by the server
    lostReplies,  \* those whose reply was lost
    verdict,      \* what the caller was told
    strayed,      \* did a call end on a session nobody prepared?
    callsMade,
    linkFaults

dbVars == <<sessions, link, base, call, applied, lostReplies, verdict, strayed,
            callsMade, linkFaults>>

\* The calls: use_db, execute, execute with timeout_seconds, a profiled
\* evaluation, and the pair of db_utils.get_plan_id_only.
CallKind == {"use", "execute", "timed", "profile", "planid", "explain"}

Limited == {"timed", "profile"}

Session == [open : BOOLEAN, prepared : BOOLEAN, base : Database \cup {""},
            limited : BOOLEAN, planid : BOOLEAN]

\* _connect_if_loss: USE, session settings, in a training environment the
\* plan interventions are switched off.
Prepared == [open |-> TRUE, prepared |-> TRUE, base |-> base, limited |-> FALSE,
             planid |-> FALSE]

\* What SQLAlchemy reconnects to.
Bare == [open |-> TRUE, prepared |-> FALSE, base |-> "", limited |-> FALSE,
         planid |-> FALSE]

DbInit ==
    /\ sessions = <<>>
    /\ link = 0
    /\ base = HomeDatabase
    /\ call = [kind |-> "use", target |-> HomeDatabase, at |-> "idle", attempt |-> 0,
               end |-> "ok"]
    /\ applied = 0
    /\ lostReplies = 0
    /\ verdict = "ok"
    /\ strayed = FALSE
    /\ callsMade = 0
    /\ linkFaults = 0

LinkFault == linkFaults < MaxLinkFaults /\ linkFaults' = linkFaults + 1

\* get_plan_id_only executes its EXPLAIN after the SET of the plan id.
BeginCall(kind, target) ==
    /\ call.at = "idle"
    /\ callsMade < MaxCalls
    /\ kind = "explain" => call.kind = "planid" /\ verdict = "ok"
    /\ kind # "use" => target = base
    /\ callsMade' = callsMade + 1
    /\ applied' = 0
    /\ lostReplies' = 0
    /\ IF kind = "use" /\ target = base
         THEN /\ verdict' = "ok"
              /\ call' = [call EXCEPT !.kind = "use", !.target = base]
         ELSE /\ verdict' = "none"
              /\ call' = [kind |-> kind, target |-> target, at |-> "connect",
                          attempt |-> 1, end |-> "ok"]
    /\ UNCHANGED <<sessions, link, base, strayed, linkFaults>>

Place(place) == call' = [call EXCEPT !.at = place]

AfterConnect == IF call.kind \in Limited THEN "limit" ELSE "run"

\* A failure to connect or to prepare the session is not retried.
ConnectIfLoss ==
    /\ call.at = "connect"
    /\ \/ link # 0 /\ UNCHANGED <<sessions, link, linkFaults, verdict>> /\ Place(AfterConnect)
       \/ /\ link = 0
          /\ sessions' = Append(sessions, Prepared)
          /\ link' = Len(sessions) + 1
          /\ Place(AfterConnect)
          /\ UNCHANGED <<linkFaults, verdict>>
       \/ /\ link = 0
          /\ LinkFault
          /\ verdict' = "error"
          /\ Place("idle")
          /\ UNCHANGED <<sessions, link>>
    /\ UNCHANGED <<base, applied, lostReplies, strayed, callsMade>>

\* The statement is over: how it ended decides what retry_on_connection_loss
\* does, after the limit is restored where there is one.
Ended(how) ==
    call' = [call EXCEPT !.end = how,
                         !.at = IF call.kind \in Limited THEN "restore" ELSE "conclude"]

SetSession(s) == sessions' = [sessions EXCEPT ![link] = s]

Disconnected == SetSession([sessions[link] EXCEPT !.open = FALSE])

\* The connection is lost with an error the wrapper knows (2006, 2013), or
\* one it does not know.
Loses ==
    /\ LinkFault
    /\ Disconnected
    /\ Ended("lost") \/ Ended("other")

\* A connection that was invalidated refuses every statement.
Refused ==
    /\ call.at \in {"limit", "run"}
    /\ ~sessions[link].open
    /\ Ended("lost")
    /\ UNCHANGED <<sessions, link, base, applied, lostReplies, verdict, strayed,
                   callsMade, linkFaults>>

\* SET SESSION max_execution_time, after reading the one in force.
SetLimit ==
    /\ call.at = "limit"
    /\ sessions[link].open
    /\ \/ /\ SetSession([sessions[link] EXCEPT !.limited = TRUE])
          /\ Place("run")
          /\ UNCHANGED linkFaults
       \/ LinkFault /\ Ended("error") /\ UNCHANGED sessions
       \/ Loses
    /\ UNCHANGED <<link, base, applied, lostReplies, verdict, strayed, callsMade>>

\* The statement is executed and answered.
RunStatement ==
    /\ call.at = "run"
    /\ sessions[link].open
    /\ applied' = applied + 1
    /\ \/ /\ call.kind = "use"
          /\ SetSession([sessions[link] EXCEPT !.base = call.target])
          /\ base' = call.target
          /\ Ended("ok")
       \/ /\ call.kind = "planid"
          /\ SetSession([sessions[link] EXCEPT !.planid = TRUE])
          /\ Ended("ok")
          /\ UNCHANGED base
       \/ /\ call.kind = "explain"
          /\ Ended(IF sessions[link].planid THEN "ok" ELSE "no_plan")
          /\ UNCHANGED <<sessions, base>>
       \/ /\ call.kind \in {"execute", "timed"}
          /\ Ended("ok")
          /\ UNCHANGED <<sessions, base>>
       \/ /\ call.kind = "profile"
          /\ Ended("ok") \/ Ended("interrupted")
          /\ UNCHANGED <<sessions, base>>
    /\ UNCHANGED <<link, lostReplies, verdict, strayed, callsMade, linkFaults>>

\* The statement fails, or the connection is lost before or after the server
\* executed it.
StatementFails ==
    /\ call.at = "run"
    /\ sessions[link].open
    /\ \/ /\ LinkFault
          /\ Ended("error")
          /\ UNCHANGED <<sessions, applied, lostReplies>>
       \/ Loses /\ UNCHANGED <<applied, lostReplies>>
       \/ Loses /\ applied' = applied + 1 /\ lostReplies' = lostReplies + 1
    /\ UNCHANGED <<link, base, verdict, strayed, callsMade>>

\* The finally clause.  An invalidated connection is rolled back and restored
\* on the session SQLAlchemy reconnects to.
Restore ==
    /\ call.at = "restore"
    /\ IF sessions[link].open
         THEN /\ SetSession([sessions[link] EXCEPT !.limited = FALSE])
              /\ UNCHANGED link
         ELSE /\ sessions' = Append(sessions, Bare)
              /\ link' = Len(sessions) + 1
    /\ Place("conclude")
    /\ UNCHANGED <<base, applied, lostReplies, verdict, strayed, callsMade, linkFaults>>

\* A failed restore that leaves the connection in use.
FailRestoreKeeping ==
    /\ Place("conclude")
    /\ UNCHANGED link

\* One that is raised in place of the result.
FailRestoreRaising ==
    /\ call' = [call EXCEPT !.at = "conclude", !.end = "error"]
    /\ link' = 0

\* The connection is dropped without being closed; the result stands.
FailRestore ==
    /\ Place("conclude")
    /\ link' = 0

RestoreFails ==
    /\ call.at = "restore"
    /\ LinkFault
    /\ FailRestore
    /\ UNCHANGED <<sessions, base, applied, lostReplies, verdict, strayed, callsMade>>

Verdict(end) == IF end \in {"ok", "no_plan"} THEN end ELSE "error"

Attempts == 2

\* retry_on_connection_loss: only a lost connection is retried, on another
\* session.
Conclude ==
    /\ call.at = "conclude"
    /\ IF call.end = "lost" /\ call.attempt < Attempts
         THEN /\ call' = [call EXCEPT !.at = "connect", !.attempt = @ + 1]
              /\ UNCHANGED verdict
         ELSE /\ Place("idle")
              /\ verdict' = Verdict(call.end)
    /\ link' = IF call.end = "lost" THEN 0 ELSE link
    /\ strayed' = (strayed \/ (link' # 0 /\ ~sessions[link'].prepared))
    /\ UNCHANGED <<sessions, base, applied, lostReplies, callsMade, linkFaults>>

DbNext ==
    \/ \E kind \in CallKind, target \in Database : BeginCall(kind, target)
    \/ ConnectIfLoss \/ Refused \/ SetLimit \/ RunStatement \/ StatementFails
    \/ Restore \/ RestoreFails \/ Conclude

DbSpec == DbInit /\ [][DbNext]_dbVars

-----------------------------------------------------------------------------
DbTypeOK ==
    /\ sessions \in Seq(Session)
    /\ link \in 0 .. Len(sessions)
    /\ base \in Database
    /\ call.kind \in CallKind
    /\ call.at \in {"idle", "connect", "limit", "run", "restore", "conclude"}
    /\ call.attempt \in 0 .. Attempts
    /\ call.at \in {"limit", "run"} => link # 0
    /\ callsMade \in 0 .. MaxCalls

\* A statement the server executed was answered with success or its reply was
\* lost: with every retry the caller can tell from the losses how often an
\* INSERT may have been applied, never more than twice; a failure to restore
\* the limit does not turn an execution into an error (execute).
StatementAccounted ==
    call.kind \in {"execute", "timed"} /\ call.at = "idle" =>
        /\ applied = lostReplies + (IF verdict = "ok" THEN 1 ELSE 0)
        /\ applied <= 2

\* A statement runs in the database last chosen, on a prepared session and
\* under its own limit, across reconnects, failed restores and retries; the
\* exception are calls after a disconnect retry_on_connection_loss does not
\* know, which SQLAlchemy repairs with a session nobody prepared (execute).
StatementInContext ==
    call.at = "run" /\ sessions[link].open =>
        /\ sessions[link].limited = (call.kind \in Limited)
        /\ strayed \/ (sessions[link].prepared /\ sessions[link].base = base)
=============================================================================
