---------------------------- MODULE AdminLedger ----------------------------
(***************************************************************************)
(* What AdminWriteContext::record_action promises its callers, with no     *)
(* transaction, connection or statement in sight:                          *)
(*                                                                         *)
(*   - a ledger binds an idempotency key once, to one operation identifier *)
(*     and one complete command, together with that operation's single     *)
(*     outbox event;                                                       *)
(*   - a caller is told Ok(op) only when its key is bound to op and to     *)
(*     exactly its command, and told IdempotencyConflict only when its key *)
(*     is bound to another command;                                        *)
(*   - any other answer promises nothing: the binding may exist already,   *)
(*     may appear later or may never appear.                               *)
(*                                                                         *)
(* AdminOrm.tla is shown to implement this specification.                  *)
(***************************************************************************)
EXTENDS Naturals

CONSTANTS
    Calls,      \* invocations of record_action; each draws one fresh UUID,
                \* so a call also stands for the operation identifier it draws
    Keys,       \* idempotency keys
    Commands,   \* the rest of an AdminAction
    None        \* no request, no row, no answer, no identifier

VARIABLES
    asked,      \* per call: the AdminAction it was given, or None
    ledger,     \* per key: the committed request row, or None
    events,     \* per operation: number of committed outbox events
    answer      \* per call: what the caller was told, or None

ledgerVars == <<asked, ledger, events, answer>>

Ok(op) == [kind |-> "Ok", op |-> op]
Err(kind) == [kind |-> kind, op |-> None]

\* The answers that leave the fate of the command open.
Uninformative == {Err("Database"), Err("Decode")}

LedgerInit ==
    /\ asked = [c \in Calls |-> None]
    /\ ledger = [k \in Keys |-> None]
    /\ events = [c \in Calls |-> 0]
    /\ answer = [c \in Calls |-> None]

\* A caller asks for a command to be recorded.
Ask(c, k, m) ==
    /\ asked[c] = None
    /\ asked' = [asked EXCEPT ![c] = [key |-> k, command |-> m]]
    /\ UNCHANGED <<ledger, events, answer>>

\* The binding and its event appear together, once per key, under the
\* identifier drawn by the call that asked for it.
Bind(c) ==
    /\ asked[c] # None
    /\ ledger[asked[c].key] = None
    /\ events[c] = 0
    /\ ledger' = [ledger EXCEPT ![asked[c].key] =
                     [op |-> c, command |-> asked[c].command]]
    /\ events' = [events EXCEPT ![c] = 1]
    /\ UNCHANGED <<asked, answer>>

AnswerOk(c) ==
    /\ asked[c] # None
    /\ answer[c] = None
    /\ LET row == ledger[asked[c].key] IN
        /\ row # None
        /\ row.command = asked[c].command
        /\ answer' = [answer EXCEPT ![c] = Ok(row.op)]
    /\ UNCHANGED <<asked, ledger, events>>

AnswerConflict(c) ==
    /\ asked[c] # None
    /\ answer[c] = None
    /\ LET row == ledger[asked[c].key] IN
        /\ row # None
        /\ row.command # asked[c].command
    /\ answer' = [answer EXCEPT ![c] = Err("IdempotencyConflict")]
    /\ UNCHANGED <<asked, ledger, events>>

AnswerFailed(c) ==
    /\ asked[c] # None
    /\ answer[c] = None
    /\ \E a \in Uninformative : answer' = [answer EXCEPT ![c] = a]
    /\ UNCHANGED <<asked, ledger, events>>

LedgerNext ==
    \E c \in Calls :
        \/ \E k \in Keys, m \in Commands : Ask(c, k, m)
        \/ Bind(c)
        \/ AnswerOk(c)
        \/ AnswerConflict(c)
        \/ AnswerFailed(c)

LedgerSpec == LedgerInit /\ [][LedgerNext]_ledgerVars
=============================================================================
