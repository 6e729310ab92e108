------------------------------ MODULE AdminOrm ------------------------------
(***************************************************************************)
(* AdminWriteContext::record_action of admin-orm/src/lib.rs, run by any    *)
(* number of concurrent callers against one PostgreSQL database.           *)
(*                                                                         *)
(* A call is a client that sends one statement at a time over a pooled     *)
(* connection and awaits its result: BEGIN, INSERT .. ON CONFLICT DO       *)
(* NOTHING, then either the outbox INSERT or the SELECT that recognises a  *)
(* replay, then COMMIT or ROLLBACK.  Everything between two awaits is one  *)
(* step.  The server end of the connection is a session that executes the  *)
(* statement it was sent whether or not the client still waits for it, so  *)
(* a COMMIT can take effect after its caller was given an error.           *)
(*                                                                         *)
(* The two tables and the transaction rules (READ COMMITTED, the default   *)
(* that SeaORM's begin() leaves in place; the unique index behind          *)
(* ON CONFLICT (idempotency_key) that makes a second inserter wait for the *)
(* first) are PostgreSQL's and are marked external in the project map.     *)
(***************************************************************************)
EXTENDS Naturals, FiniteSets

CONSTANTS
    Calls,          \* invocations of record_action, and the UUIDs they draw
    Keys,           \* values of idempotency_key
    Commands,       \* values of the other five columns of the request
    MaxConnections, \* MAX_CONNECTIONS, the size of the pool
    None            \* no request, no row, no answer, no identifier

VARIABLES
    \* the callers' side
    pc,         \* the statement a call awaits, "idle" before it, "done" after
    input,      \* the AdminAction a call was given
    opId,       \* the local operation_id of a call
    reply,      \* what the call returned
    \* the database's side, one session per call
    sess,       \* "none" until BEGIN, "open", then "committed" or "aborted"
    stmt,       \* the statement the session has yet to execute
    result,     \* what the session sent back last and the call has not read
    found,      \* the operation_id column of that result
    rows,       \* sessions that hold an uncommitted request row
    written,    \* per session: uncommitted outbox events
    \* committed tables
    requests,   \* admin_action_requests, by idempotency_key
    outbox      \* admin_action_outbox: number of events per operation_id

callVars == <<pc, input, opId, reply>>
sessVars == <<sess, stmt, result, found, rows, written>>
tableVars == <<requests, outbox>>
vars == <<pc, input, opId, reply, sess, stmt, result, found, rows, written,
          requests, outbox>>

\* The columns that identify a command besides its idempotency key.
Columns == {"actor_subject", "actor_session_id", "resource", "action", "reason"}

Requests == [key : Keys, command : Commands]
Rows == [op : Calls, command : Commands]
Answers == [kind : {"Ok"}, op : Calls]
             \cup [kind : {"IdempotencyConflict", "Database", "Decode"}, op : {None}]

\* The pool has at least one connection, a command is a value for each column,
\* and None is none of the values it stands beside.
ASSUME PoolAssumption == MaxConnections \in Nat \ {0}
ASSUME CommandAssumption == \A m \in Commands : m = [f \in Columns |-> m[f]]
ASSUME NoneAssumption == None \notin Calls \cup Requests \cup Rows \cup Answers

Awaiting == {"begin", "insert", "select", "outbox", "commit", "rollback"}
Statements == {"none", "insert", "select", "outbox", "commit", "rollback"}
Results == {"none", "row", "empty", "ok"}

TypeOK ==
    /\ pc \in [Calls -> Awaiting \cup {"idle", "done"}]
    /\ input \in [Calls -> Requests \cup {None}]
    /\ opId \in [Calls -> Calls \cup {None}]
    /\ reply \in [Calls -> Answers \cup {None}]
    /\ sess \in [Calls -> {"none", "open", "committed", "aborted"}]
    /\ stmt \in [Calls -> Statements]
    /\ result \in [Calls -> Results]
    /\ found \in [Calls -> Calls \cup {None}]
    /\ rows \subseteq Calls
    /\ written \in [Calls -> Nat]
    /\ requests \in [Keys -> Rows \cup {None}]
    /\ outbox \in [Calls -> Nat]

Init ==
    /\ pc = [c \in Calls |-> "idle"]
    /\ input = [c \in Calls |-> None]
    /\ opId = [c \in Calls |-> None]
    /\ reply = [c \in Calls |-> None]
    /\ sess = [c \in Calls |-> "none"]
    /\ stmt = [c \in Calls |-> "none"]
    /\ result = [c \in Calls |-> "none"]
    /\ found = [c \in Calls |-> None]
    /\ rows = {}
    /\ written = [c \in Calls |-> 0]
    /\ requests = [k \in Keys |-> None]
    /\ outbox = [c \in Calls |-> 0]

-----------------------------------------------------------------------------
(* Steps of a call.                                                        *)

Ok(op) == [kind |-> "Ok", op |-> op]
Err(kind) == [kind |-> kind, op |-> None]

\* The call reads its pending result and awaits the next statement.
Send(c, s) ==
    /\ pc' = [pc EXCEPT ![c] = s]
    /\ stmt' = [stmt EXCEPT ![c] = s]
    /\ result' = [result EXCEPT ![c] = "none"]

\* The call returns.  A transaction it leaves open is dropped with it.
Return(c, r) ==
    /\ pc' = [pc EXCEPT ![c] = "done"]
    /\ reply' = [reply EXCEPT ![c] = r]

\* record_action is entered: a fresh UUID is drawn, a connection is requested.
RecordAction(c, k, m) ==
    /\ pc[c] = "idle"
    /\ pc' = [pc EXCEPT ![c] = "begin"]
    /\ input' = [input EXCEPT ![c] = [key |-> k, command |-> m]]
    /\ opId' = [opId EXCEPT ![c] = c]
    /\ UNCHANGED <<reply, sessVars, tableVars>>

InUse == {c \in Calls : sess[c] = "open"}

\* A connection is free: the transaction begins and the INSERT is sent.
Begin(c) ==
    /\ pc[c] = "begin"
    /\ Cardinality(InUse) < MaxConnections
    /\ sess' = [sess EXCEPT ![c] = "open"]
    /\ Send(c, "insert")
    /\ UNCHANGED <<input, opId, reply, found, rows, written, tableVars>>

\* Mutant: the outbox event is forgotten.
InsertedUnannounced(c) ==
    /\ pc[c] = "insert" /\ result[c] = "row"
    /\ opId' = [opId EXCEPT ![c] = found[c]]
    /\ Send(c, "commit")
    /\ UNCHANGED <<input, reply, sess, found, rows, written, tableVars>>

\* The INSERT returned its row: the outbox event is next.
Inserted(c) ==
    /\ pc[c] = "insert" /\ result[c] = "row"
    /\ opId' = [opId EXCEPT ![c] = found[c]]
    /\ Send(c, "outbox")
    /\ UNCHANGED <<input, reply, sess, found, rows, written, tableVars>>

\* Mutant: a taken key is reported as a conflict without looking at its command.
NotInsertedIsConflict(c) ==
    /\ pc[c] = "insert" /\ result[c] = "empty"
    /\ Send(c, "rollback")
    /\ UNCHANGED <<input, opId, reply, sess, found, rows, written, tableVars>>

\* Mutant: a taken key is tried again until it is free.
NotInsertedTriesAgain(c) ==
    /\ pc[c] = "insert" /\ result[c] = "empty"
    /\ Send(c, "insert")
    /\ UNCHANGED <<input, opId, reply, sess, found, rows, written, tableVars>>

\* The INSERT returned nothing: the key is taken, by this command or another?
NotInserted(c) ==
    /\ pc[c] = "insert" /\ result[c] = "empty"
    /\ Send(c, "select")
    /\ UNCHANGED <<input, opId, reply, sess, found, rows, written, tableVars>>

\* Mutant: a replay is announced once more.
ReplayedAnnounces(c) ==
    /\ pc[c] = "select" /\ result[c] = "row"
    /\ opId' = [opId EXCEPT ![c] = found[c]]
    /\ Send(c, "outbox")
    /\ UNCHANGED <<input, reply, sess, found, rows, written, tableVars>>

\* A row with the same key and the same command: a replay, nothing to announce.
Replayed(c) ==
    /\ pc[c] = "select" /\ result[c] = "row"
    /\ opId' = [opId EXCEPT ![c] = found[c]]
    /\ Send(c, "commit")
    /\ UNCHANGED <<input, reply, sess, found, rows, written, tableVars>>

\* No such row: the key belongs to another command.
Mismatch(c) ==
    /\ pc[c] = "select" /\ result[c] = "empty"
    /\ Send(c, "rollback")
    /\ UNCHANGED <<input, opId, reply, sess, found, rows, written, tableVars>>

\* Mutant: the caller is answered while the COMMIT is on its way.
AnnouncedAnswersEarly(c) ==
    /\ pc[c] = "outbox" /\ result[c] = "ok"
    /\ Return(c, Ok(opId[c]))
    /\ stmt' = [stmt EXCEPT ![c] = "commit"]
    /\ result' = [result EXCEPT ![c] = "none"]
    /\ UNCHANGED <<input, opId, sess, found, rows, written, tableVars>>

\* The outbox event is written: commit both.
Announced(c) ==
    /\ pc[c] = "outbox" /\ result[c] = "ok"
    /\ Send(c, "commit")
    /\ UNCHANGED <<input, opId, reply, sess, found, rows, written, tableVars>>

CommitAcknowledged(c) ==
    /\ pc[c] = "commit" /\ result[c] = "ok"
    /\ Return(c, Ok(opId[c]))
    /\ UNCHANGED <<input, opId, sessVars, tableVars>>

RollbackAcknowledged(c) ==
    /\ pc[c] = "rollback" /\ result[c] = "ok"
    /\ Return(c, Err("IdempotencyConflict"))
    /\ UNCHANGED <<input, opId, sessVars, tableVars>>

\* Any await can fail: no connection within ACQUIRE_TIMEOUT, a lost or refused
\* connection, a statement error.  What was sent may still be executed.  (A caller
\* that drops the future takes the same step, with nobody to read the answer.)
DatabaseError(c) ==
    /\ pc[c] \in Awaiting
    /\ Return(c, Err("Database"))
    /\ UNCHANGED <<input, opId, sessVars, tableVars>>

\* Mutant: the identifier is decoded after the COMMIT it decides about.
DecodeAfterCommit(c) ==
    /\ pc[c] = "commit" /\ result[c] = "ok"
    /\ Return(c, Err("Decode"))
    /\ UNCHANGED <<input, opId, sessVars, tableVars>>

\* Mutant: a row that cannot be decoded passes for a success.
DecodeErrorIgnored(c) ==
    /\ pc[c] \in {"insert", "select"} /\ result[c] = "row"
    /\ Return(c, Ok(None))
    /\ UNCHANGED <<input, opId, sessVars, tableVars>>

\* operation_id_from_row rejects the row it was given.  Its two errors, Decode and
\* InvalidOperationId, are told as one.
DecodeError(c) ==
    /\ pc[c] \in {"insert", "select"} /\ result[c] = "row"
    /\ Return(c, Err("Decode"))
    /\ UNCHANGED <<input, opId, sessVars, tableVars>>

-----------------------------------------------------------------------------
(* Steps of a session: PostgreSQL, as record_action uses it.               *)

Key(c) == input[c].key

\* The session finished its statement and sent back r with operation_id op.
Executed(c, r, op) ==
    /\ stmt' = [stmt EXCEPT ![c] = "none"]
    /\ result' = [result EXCEPT ![c] = r]
    /\ found' = [found EXCEPT ![c] = op]

\* Another open transaction has inserted this key and not ended yet.
Blocked(c) == \E d \in rows : d # c /\ Key(d) = Key(c)

\* Mutant: ON CONFLICT (idempotency_key) DO UPDATE.
ExecUpsert(c) ==
    /\ sess[c] = "open" /\ stmt[c] = "insert"
    /\ ~Blocked(c)
    /\ rows' = rows \cup {c}
    /\ Executed(c, "row", opId[c])
    /\ UNCHANGED <<callVars, sess, written, tableVars>>

\* INSERT .. ON CONFLICT (idempotency_key) DO NOTHING RETURNING operation_id
ExecInsert(c) ==
    /\ sess[c] = "open" /\ stmt[c] = "insert"
    /\ ~Blocked(c)
    /\ \/ /\ requests[Key(c)] = None
          /\ rows' = rows \cup {c}
          /\ Executed(c, "row", opId[c])
       \/ /\ requests[Key(c)] # None
          /\ Executed(c, "empty", None)
          /\ UNCHANGED rows
    /\ UNCHANGED <<callVars, sess, written, tableVars>>

\* Mutant: one column is left out of the comparison.
SameCommandButReason(row, m) ==
    \A f \in Columns \ {"reason"} : row.command[f] = m[f]

\* The WHERE clause of the SELECT: every column of the command is compared.
SameCommand(row, m) == \A f \in Columns : row.command[f] = m[f]

\* SELECT operation_id .. WHERE idempotency_key = $1 AND actor_subject = $2 ..
\* READ COMMITTED: the statement sees what is committed when it runs.
ExecSelect(c) ==
    /\ sess[c] = "open" /\ stmt[c] = "select"
    /\ LET row == requests[Key(c)] IN
        \/ /\ row # None /\ SameCommand(row, input[c].command)
           /\ Executed(c, "row", row.op)
        \/ /\ row = None \/ ~SameCommand(row, input[c].command)
           /\ Executed(c, "empty", None)
    /\ UNCHANGED <<callVars, sess, rows, written, tableVars>>

\* INSERT INTO admin_action_outbox (operation_id, event_kind)
ExecOutbox(c) ==
    /\ sess[c] = "open" /\ stmt[c] = "outbox"
    /\ written' = [written EXCEPT ![c] = @ + 1]
    /\ Executed(c, "ok", None)
    /\ UNCHANGED <<callVars, sess, rows, tableVars>>

\* COMMIT publishes the session's row and events at once.
ExecCommit(c) ==
    /\ sess[c] = "open" /\ stmt[c] = "commit"
    /\ sess' = [sess EXCEPT ![c] = "committed"]
    /\ requests' = IF c \in rows
                   THEN [requests EXCEPT ![Key(c)] =
                            [op |-> c, command |-> input[c].command]]
                   ELSE requests
    /\ outbox' = [outbox EXCEPT ![opId[c]] = @ + written[c]]
    /\ rows' = rows \ {c}
    /\ written' = [written EXCEPT ![c] = 0]
    /\ Executed(c, "ok", None)
    /\ UNCHANGED callVars

\* The session ends without a trace of its writes.
Discard(c) ==
    /\ sess' = [sess EXCEPT ![c] = "aborted"]
    /\ rows' = rows \ {c}
    /\ written' = [written EXCEPT ![c] = 0]

ExecRollback(c) ==
    /\ sess[c] = "open" /\ stmt[c] = "rollback"
    /\ Discard(c)
    /\ Executed(c, "ok", None)
    /\ UNCHANGED <<callVars, tableVars>>

\* The transaction handle was dropped by an early return: SeaORM rolls back.
DropRollback(c) ==
    /\ sess[c] = "open" /\ pc[c] = "done"
    /\ Discard(c)
    /\ stmt' = [stmt EXCEPT ![c] = "none"]
    /\ UNCHANGED <<callVars, result, found, tableVars>>

\* The connection or the backend dies under a call that still waits.
ConnectionLost(c) ==
    /\ sess[c] = "open" /\ pc[c] # "done"
    /\ Discard(c)
    /\ stmt' = [stmt EXCEPT ![c] = "none"]
    /\ result' = [result EXCEPT ![c] = "none"]
    /\ UNCHANGED <<callVars, found, tableVars>>

-----------------------------------------------------------------------------
CallStep(c) ==
    \/ Begin(c)
    \/ Inserted(c) \/ NotInserted(c)
    \/ Replayed(c) \/ Mismatch(c)
    \/ Announced(c)
    \/ CommitAcknowledged(c) \/ RollbackAcknowledged(c)

SessionStep(c) ==
    \/ ExecInsert(c) \/ ExecSelect(c) \/ ExecOutbox(c)
    \/ ExecCommit(c) \/ ExecRollback(c)

Failure(c) == DatabaseError(c) \/ DecodeError(c) \/ ConnectionLost(c)

Next ==
    \E c \in Calls :
        \/ \E k \in Keys, m \in Commands : RecordAction(c, k, m)
        \/ CallStep(c)
        \/ SessionStep(c)
        \/ Failure(c)
        \/ DropRollback(c)

Spec == Init /\ [][Next]_vars

(***************************************************************************)
(* Fairness.  The runtime polls a ready future, PostgreSQL executes a      *)
(* statement that is not blocked, a dropped transaction is rolled back,    *)
(* and a call whose connection is gone gets its error.  Nothing obliges a  *)
(* failure to happen or a new call to be made.                             *)
(***************************************************************************)
NoticesLoss(c) == sess[c] = "aborted" /\ result[c] = "none" /\ DatabaseError(c)

Fairness ==
    \A c \in Calls :
        /\ WF_vars(CallStep(c))
        /\ WF_vars(SessionStep(c))
        /\ WF_vars(DropRollback(c))
        /\ WF_vars(NoticesLoss(c))

FairSpec == Spec /\ Fairness

-----------------------------------------------------------------------------
(* Properties.                                                             *)

\* The operation drawn by call c is in the committed request table.
Recorded(c) == \E k \in Keys : requests[k] # None /\ requests[k].op = c

Told(c, kind) == reply[c] # None /\ reply[c].kind = kind

\* Accepted operations and their audit outbox event commit together: whatever
\* fails and whoever races, a recorded operation has exactly one outbox event
\* and an operation that is not recorded has none.
OneEventPerRequest ==
    \A c \in Calls : outbox[c] = IF Recorded(c) THEN 1 ELSE 0

\* record_action answers Ok(op) only when the caller's key is committed to op
\* and to the caller's complete command; so all callers that are told Ok for
\* one key are told the same operation, whoever inserted it.
OkIsRecorded ==
    \A c \in Calls :
        Told(c, "Ok") =>
            requests[Key(c)] = [op |-> reply[c].op, command |-> input[c].command]

\* IdempotencyConflict is never a false alarm of a race: the key is committed
\* to a command that differs from the caller's.
ConflictIsReal ==
    \A c \in Calls :
        Told(c, "IdempotencyConflict") =>
            /\ requests[Key(c)] # None
            /\ requests[Key(c)].command # input[c].command

\* Only Err(Database) is ambiguous: a caller told anything else but its own
\* identifier can rely on the identifier it drew never being recorded, even by
\* a statement still in flight when record_action returned.
OnlyDatabaseErrorIsAmbiguous ==
    \A c \in Calls :
        /\ reply[c] # None /\ reply[c].kind # "Database"
        /\ reply[c] # Ok(c)
        => ~Recorded(c)

\* The unique index is enough for the two-statement protocol: no two open
\* transactions hold a request row for one key, and none holds a row for a key
\* that is committed already.
KeyHeldOnce ==
    /\ \A c, d \in rows : c # d => Key(c) # Key(d)
    /\ \A c \in rows : requests[Key(c)] = None

\* A key, once bound, is never rebound: neither a replay nor a conflicting call
\* nor a late COMMIT changes a committed request.
BindingsArePermanent ==
    [][\A k \in Keys : requests[k] # None => requests'[k] = requests[k]]_requests

\* Every call returns, although it may wait for a pooled connection and, inside
\* the INSERT, for another caller's transaction to end.
EveryCallReturns == \A c \in Calls : (pc[c] # "idle") ~> (pc[c] = "done")

\* No early return leaks a pooled connection or the key it has locked.
TransactionsEnd == \A c \in Calls : (sess[c] = "open") ~> (sess[c] # "open")

-----------------------------------------------------------------------------
(* The inductive invariant the proofs of Admin_proofs.tla rest on.         *)

\* The caller's key is committed to exactly its command, under opId.
BoundToMe(c) ==
    requests[Key(c)] = [op |-> opId[c], command |-> input[c].command]

\* The caller's key is committed to some other command.
BoundToOther(c) ==
    /\ requests[Key(c)] # None
    /\ requests[Key(c)].command # input[c].command

\* How the phase of a call, its session and its pending statement fit together.
PhasesAgree ==
    \A c \in Calls :
        /\ (pc[c] = "idle") <=> (input[c] = None)
        /\ (pc[c] = "done") <=> (reply[c] # None)
        /\ pc[c] # "idle" => opId[c] # None
        /\ pc[c] \in {"idle", "begin"} => sess[c] = "none"
        /\ sess[c] = "none" => stmt[c] = "none" /\ result[c] = "none"
        /\ stmt[c] # "none" => /\ sess[c] = "open" /\ result[c] = "none"
                               /\ pc[c] \in {stmt[c], "done"}
        /\ pc[c] \in {"insert", "select", "outbox"} /\ result[c] # "none" =>
                sess[c] = "open"
        /\ result[c] = "row" => found[c] # None
        /\ pc[c] = "rollback" /\ result[c] = "ok" => sess[c] = "aborted"

\* What an open transaction holds when each statement reaches it, and what it
\* has learned when the call reads each result.
WritesOf(c) ==
    /\ pc[c] = "begin" => opId[c] = c
    /\ sess[c] = "none" => written[c] = 0
    /\ c \in rows => sess[c] = "open" /\ opId[c] = c
    /\ stmt[c] = "insert" => c \notin rows /\ written[c] = 0 /\ opId[c] = c
    /\ stmt[c] = "select" => c \notin rows /\ written[c] = 0
    /\ stmt[c] = "outbox" => c \in rows /\ written[c] = 0
    /\ stmt[c] = "commit" => \/ c \in rows /\ written[c] = 1
                             \/ c \notin rows /\ written[c] = 0 /\ BoundToMe(c)
    /\ pc[c] = "insert" /\ result[c] = "row" =>
            c \in rows /\ written[c] = 0 /\ found[c] = c
    /\ pc[c] = "insert" /\ result[c] = "empty" => c \notin rows /\ written[c] = 0
    /\ pc[c] = "select" => c \notin rows /\ written[c] = 0
    /\ pc[c] = "outbox" /\ result[c] = "ok" => c \in rows /\ written[c] = 1

WritesFollowProtocol == \A c \in Calls : WritesOf(c)

\* What the call knows of the committed table; none of it can become stale.
KnowledgeOf(c) ==
    /\ stmt[c] = "select" => requests[Key(c)] # None
    /\ pc[c] = "insert" /\ result[c] = "empty" => requests[Key(c)] # None
    /\ pc[c] = "select" /\ result[c] = "row" =>
            requests[Key(c)] = [op |-> found[c], command |-> input[c].command]
    /\ pc[c] = "select" /\ result[c] = "empty" => BoundToOther(c)
    /\ pc[c] = "rollback" => BoundToOther(c)
    /\ pc[c] = "commit" /\ result[c] = "ok" => sess[c] = "committed" /\ BoundToMe(c)

KnowledgeIsStable == \A c \in Calls : KnowledgeOf(c)

\* A committed row is the work of a committed session, under its own key.
RowsHaveOwners ==
    \A k \in Keys :
        requests[k] # None =>
            LET c == requests[k].op IN
                /\ sess[c] = "committed"
                /\ input[c] = [key |-> k, command |-> requests[k].command]

\* A definite error leaves nothing behind that could still commit.
DefiniteErrorsAreFinal ==
    \A c \in Calls :
        Told(c, "Decode") \/ Told(c, "IdempotencyConflict") =>
            stmt[c] = "none" /\ sess[c] \in {"open", "aborted"}

IInv ==
    /\ TypeOK
    /\ PhasesAgree
    /\ WritesFollowProtocol
    /\ KnowledgeIsStable
    /\ RowsHaveOwners
    /\ DefiniteErrorsAreFinal
    /\ KeyHeldOnce
    /\ OneEventPerRequest
    /\ OkIsRecorded
    /\ ConflictIsReal

-----------------------------------------------------------------------------
\* record_action, with all its failures, is the atomic ledger of AdminLedger.
Ledger == INSTANCE AdminLedger WITH
    asked <- input, ledger <- requests, events <- outbox, answer <- reply

ImplementsLedger == Ledger!LedgerSpec
=============================================================================
