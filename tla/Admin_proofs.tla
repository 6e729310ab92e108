---------------------------- MODULE Admin_proofs ----------------------------
(***************************************************************************)
(* For any set of calls, keys and commands and any pool size,              *)
(* record_action keeps the invariant IInv, hence the properties of its     *)
(* callers, and implements the ledger of AdminLedger; at the end of the    *)
(* module, what the probes of connect are worth (AdminConnect).            *)
(*                                                                         *)
(* One lemma per action shows that the action preserves IInv, with one     *)
(* step per part of IInv; the theorems follow the lemmas.                  *)
(***************************************************************************)
EXTENDS AdminOrm, AdminConnect, TLAPS

\* The five column comparisons of the SELECT identify a command.
LEMMA CommandsAreTheirColumns ==
    \A m1, m2 \in Commands : (\A f \in Columns : m1[f] = m2[f]) => m1 = m2
<1> TAKE m1, m2 \in Commands
<1> HAVE \A f \in Columns : m1[f] = m2[f]
<1>1. m1 = [f \in Columns |-> m1[f]] /\ m2 = [f \in Columns |-> m2[f]]
  BY CommandAssumption
<1>2. [f \in Columns |-> m1[f]] = [f \in Columns |-> m2[f]]
  OBVIOUS
<1> QED BY <1>1, <1>2

\* Nothing has been asked, written or answered initially.
LEMMA InitEstablishesIInv == Init => IInv
<1> SUFFICES ASSUME Init PROVE IInv
  OBVIOUS
<1> USE NoneAssumption DEF Init
<1>1. TypeOK
  BY DEF TypeOK, Awaiting, Statements, Results
<1>2. PhasesAgree
  BY DEF PhasesAgree
<1>3. WritesFollowProtocol /\ KnowledgeIsStable
  BY DEF WritesFollowProtocol, WritesOf, KnowledgeIsStable, KnowledgeOf
<1>4. RowsHaveOwners /\ KeyHeldOnce /\ OneEventPerRequest
  BY DEF RowsHaveOwners, KeyHeldOnce, OneEventPerRequest, Recorded
<1>5. DefiniteErrorsAreFinal /\ OkIsRecorded /\ ConflictIsReal
  BY DEF DefiniteErrorsAreFinal, OkIsRecorded, ConflictIsReal, Told
<1> QED
  BY <1>1, <1>2, <1>3, <1>4, <1>5 DEF IInv

-----------------------------------------------------------------------------
(* Steps of a call.                                                        *)

\* Entering record_action touches neither a session nor a table.
LEMMA RecordActionPreserves ==
    ASSUME IInv, NEW c \in Calls, NEW k \in Keys, NEW m \in Commands,
           RecordAction(c, k, m)
    PROVE  IInv'
<1> USE NoneAssumption DEF IInv, TypeOK, Key, Requests, Rows, RecordAction,
      sessVars, tableVars
<1>1. TypeOK'
  BY DEF PhasesAgree, Awaiting, Statements, Results, Answers
<1>2. PhasesAgree' /\ DefiniteErrorsAreFinal'
  BY DEF PhasesAgree, DefiniteErrorsAreFinal, WritesFollowProtocol, WritesOf,
     Awaiting, Answers, Told
<1>3. WritesFollowProtocol'
  <2> SUFFICES ASSUME NEW d \in Calls PROVE WritesOf(d)'
    BY DEF WritesFollowProtocol
  <2>1. CASE d = c
    BY <2>1 DEF WritesFollowProtocol, WritesOf, PhasesAgree
  <2>2. CASE d # c
    BY <2>2 DEF WritesFollowProtocol, WritesOf, PhasesAgree, BoundToMe
  <2> QED BY <2>1, <2>2
<1>4. KnowledgeIsStable'
  BY DEF KnowledgeIsStable, KnowledgeOf, PhasesAgree, WritesFollowProtocol,
     WritesOf, KeyHeldOnce, BoundToMe, BoundToOther
<1>5. RowsHaveOwners' /\ KeyHeldOnce'
  BY DEF RowsHaveOwners, KeyHeldOnce, PhasesAgree, WritesFollowProtocol,
     WritesOf
<1>6. OneEventPerRequest'
  BY DEF OneEventPerRequest, Recorded, PhasesAgree, WritesFollowProtocol,
     WritesOf, RowsHaveOwners
<1>7. OkIsRecorded' /\ ConflictIsReal'
  BY DEF OkIsRecorded, ConflictIsReal, Told, PhasesAgree, KeyHeldOnce, Answers
<1> QED BY <1>1, <1>2, <1>3, <1>4, <1>5, <1>6, <1>7

\* A new session starts with nothing written and the INSERT to execute.
LEMMA BeginPreserves ==
    ASSUME IInv, NEW c \in Calls, Begin(c)
    PROVE  IInv'
<1> USE NoneAssumption DEF IInv, TypeOK, Key, Requests, Rows, Begin, Send,
      tableVars
<1>1. TypeOK'
  BY DEF PhasesAgree, Awaiting, Statements, Results, Answers
<1>2. PhasesAgree' /\ DefiniteErrorsAreFinal'
  BY DEF PhasesAgree, DefiniteErrorsAreFinal, WritesFollowProtocol, WritesOf,
     Awaiting, Answers, Told
<1>3. WritesFollowProtocol'
  BY DEF WritesFollowProtocol, WritesOf, PhasesAgree, BoundToMe, KeyHeldOnce
<1>4. KnowledgeIsStable'
  BY DEF KnowledgeIsStable, KnowledgeOf, PhasesAgree, WritesFollowProtocol,
     WritesOf, KeyHeldOnce, BoundToMe, BoundToOther
<1>5. RowsHaveOwners' /\ KeyHeldOnce'
  BY DEF RowsHaveOwners, KeyHeldOnce, PhasesAgree, WritesFollowProtocol,
     WritesOf
<1>6. OneEventPerRequest'
  BY DEF OneEventPerRequest, Recorded, PhasesAgree, WritesFollowProtocol,
     WritesOf, RowsHaveOwners
<1>7. OkIsRecorded' /\ ConflictIsReal'
  BY DEF OkIsRecorded, ConflictIsReal, Told, PhasesAgree, KeyHeldOnce, Answers
<1> QED BY <1>1, <1>2, <1>3, <1>4, <1>5, <1>6, <1>7

\* The row the call read is its own uncommitted one.
LEMMA InsertedPreserves ==
    ASSUME IInv, NEW c \in Calls, Inserted(c)
    PROVE  IInv'
<1> USE NoneAssumption DEF IInv, TypeOK, Key, Requests, Rows, Inserted, Send,
      tableVars
<1>1. TypeOK'
  BY DEF PhasesAgree, Awaiting, Statements, Results, Answers
<1>2. PhasesAgree' /\ DefiniteErrorsAreFinal'
  BY DEF PhasesAgree, DefiniteErrorsAreFinal, WritesFollowProtocol, WritesOf,
     Awaiting, Answers, Told
<1>3. WritesFollowProtocol'
  BY DEF WritesFollowProtocol, WritesOf, PhasesAgree, BoundToMe, KeyHeldOnce
<1>4. KnowledgeIsStable'
  BY DEF KnowledgeIsStable, KnowledgeOf, PhasesAgree, WritesFollowProtocol,
     WritesOf, KeyHeldOnce, BoundToMe, BoundToOther
<1>5. RowsHaveOwners' /\ KeyHeldOnce'
  BY DEF RowsHaveOwners, KeyHeldOnce, PhasesAgree, WritesFollowProtocol,
     WritesOf
<1>6. OneEventPerRequest'
  BY DEF OneEventPerRequest, Recorded, PhasesAgree, WritesFollowProtocol,
     WritesOf, RowsHaveOwners
<1>7. OkIsRecorded' /\ ConflictIsReal'
  BY DEF OkIsRecorded, ConflictIsReal, Told, PhasesAgree, KeyHeldOnce, Answers
<1> QED BY <1>1, <1>2, <1>3, <1>4, <1>5, <1>6, <1>7

\* The key is committed already, and stays so until the SELECT runs.
LEMMA NotInsertedPreserves ==
    ASSUME IInv, NEW c \in Calls, NotInserted(c)
    PROVE  IInv'
<1> USE NoneAssumption DEF IInv, TypeOK, Key, Requests, Rows, NotInserted, Send,
      tableVars
<1>1. TypeOK'
  BY DEF PhasesAgree, Awaiting, Statements, Results, Answers
<1>2. PhasesAgree' /\ DefiniteErrorsAreFinal'
  BY DEF PhasesAgree, DefiniteErrorsAreFinal, WritesFollowProtocol, WritesOf,
     Awaiting, Answers, Told
<1>3. WritesFollowProtocol'
  BY DEF WritesFollowProtocol, WritesOf, PhasesAgree, BoundToMe, KeyHeldOnce
<1>4. KnowledgeIsStable'
  BY DEF KnowledgeIsStable, KnowledgeOf, PhasesAgree, WritesFollowProtocol,
     WritesOf, KeyHeldOnce, BoundToMe, BoundToOther
<1>5. RowsHaveOwners' /\ KeyHeldOnce'
  BY DEF RowsHaveOwners, KeyHeldOnce, PhasesAgree, WritesFollowProtocol,
     WritesOf
<1>6. OneEventPerRequest'
  BY DEF OneEventPerRequest, Recorded, PhasesAgree, WritesFollowProtocol,
     WritesOf, RowsHaveOwners
<1>7. OkIsRecorded' /\ ConflictIsReal'
  BY DEF OkIsRecorded, ConflictIsReal, Told, PhasesAgree, KeyHeldOnce, Answers
<1> QED BY <1>1, <1>2, <1>3, <1>4, <1>5, <1>6, <1>7

\* The row read is the committed one: the call now carries its identifier.
LEMMA ReplayedPreserves ==
    ASSUME IInv, NEW c \in Calls, Replayed(c)
    PROVE  IInv'
<1> USE NoneAssumption DEF IInv, TypeOK, Key, Requests, Rows, Replayed, Send,
      tableVars
<1>1. TypeOK'
  BY DEF PhasesAgree, Awaiting, Statements, Results, Answers
<1>2. PhasesAgree' /\ DefiniteErrorsAreFinal'
  BY DEF PhasesAgree, DefiniteErrorsAreFinal, WritesFollowProtocol, WritesOf,
     Awaiting, Answers, Told
<1>3. WritesFollowProtocol'
  <2> SUFFICES ASSUME NEW d \in Calls PROVE WritesOf(d)'
    BY DEF WritesFollowProtocol
  <2>1. BoundToMe(c)'
    BY DEF KnowledgeIsStable, KnowledgeOf, BoundToMe
  <2>2. CASE d = c
    BY <2>1, <2>2 DEF WritesFollowProtocol, WritesOf, PhasesAgree
  <2>3. CASE d # c
    BY <2>3 DEF WritesFollowProtocol, WritesOf, PhasesAgree, BoundToMe
  <2> QED BY <2>2, <2>3
<1>4. KnowledgeIsStable'
  BY DEF KnowledgeIsStable, KnowledgeOf, PhasesAgree, WritesFollowProtocol,
     WritesOf, KeyHeldOnce, BoundToMe, BoundToOther
<1>5. RowsHaveOwners' /\ KeyHeldOnce'
  BY DEF RowsHaveOwners, KeyHeldOnce, PhasesAgree, WritesFollowProtocol,
     WritesOf
<1>6. OneEventPerRequest'
  BY DEF OneEventPerRequest, Recorded, PhasesAgree, WritesFollowProtocol,
     WritesOf, RowsHaveOwners
<1>7. OkIsRecorded' /\ ConflictIsReal'
  BY DEF OkIsRecorded, ConflictIsReal, Told, PhasesAgree, KeyHeldOnce, Answers
<1> QED BY <1>1, <1>2, <1>3, <1>4, <1>5, <1>6, <1>7

\* The key is committed to another command.
LEMMA MismatchPreserves ==
    ASSUME IInv, NEW c \in Calls, Mismatch(c)
    PROVE  IInv'
<1> USE NoneAssumption DEF IInv, TypeOK, Key, Requests, Rows, Mismatch, Send,
      tableVars
<1>1. TypeOK'
  BY DEF PhasesAgree, Awaiting, Statements, Results, Answers
<1>2. PhasesAgree' /\ DefiniteErrorsAreFinal'
  BY DEF PhasesAgree, DefiniteErrorsAreFinal, WritesFollowProtocol, WritesOf,
     Awaiting, Answers, Told
<1>3. WritesFollowProtocol'
  BY DEF WritesFollowProtocol, WritesOf, PhasesAgree, BoundToMe, KeyHeldOnce
<1>4. KnowledgeIsStable'
  BY DEF KnowledgeIsStable, KnowledgeOf, PhasesAgree, WritesFollowProtocol,
     WritesOf, KeyHeldOnce, BoundToMe, BoundToOther
<1>5. RowsHaveOwners' /\ KeyHeldOnce'
  BY DEF RowsHaveOwners, KeyHeldOnce, PhasesAgree, WritesFollowProtocol,
     WritesOf
<1>6. OneEventPerRequest'
  BY DEF OneEventPerRequest, Recorded, PhasesAgree, WritesFollowProtocol,
     WritesOf, RowsHaveOwners
<1>7. OkIsRecorded' /\ ConflictIsReal'
  BY DEF OkIsRecorded, ConflictIsReal, Told, PhasesAgree, KeyHeldOnce, Answers
<1> QED BY <1>1, <1>2, <1>3, <1>4, <1>5, <1>6, <1>7

\* Row and event are both pending when COMMIT is sent.
LEMMA AnnouncedPreserves ==
    ASSUME IInv, NEW c \in Calls, Announced(c)
    PROVE  IInv'
<1> USE NoneAssumption DEF IInv, TypeOK, Key, Requests, Rows, Announced, Send,
      tableVars
<1>1. TypeOK'
  BY DEF PhasesAgree, Awaiting, Statements, Results, Answers
<1>2. PhasesAgree' /\ DefiniteErrorsAreFinal'
  BY DEF PhasesAgree, DefiniteErrorsAreFinal, WritesFollowProtocol, WritesOf,
     Awaiting, Answers, Told
<1>3. WritesFollowProtocol'
  BY DEF WritesFollowProtocol, WritesOf, PhasesAgree, BoundToMe, KeyHeldOnce
<1>4. KnowledgeIsStable'
  BY DEF KnowledgeIsStable, KnowledgeOf, PhasesAgree, WritesFollowProtocol,
     WritesOf, KeyHeldOnce, BoundToMe, BoundToOther
<1>5. RowsHaveOwners' /\ KeyHeldOnce'
  BY DEF RowsHaveOwners, KeyHeldOnce, PhasesAgree, WritesFollowProtocol,
     WritesOf
<1>6. OneEventPerRequest'
  BY DEF OneEventPerRequest, Recorded, PhasesAgree, WritesFollowProtocol,
     WritesOf, RowsHaveOwners
<1>7. OkIsRecorded' /\ ConflictIsReal'
  BY DEF OkIsRecorded, ConflictIsReal, Told, PhasesAgree, KeyHeldOnce, Answers
<1> QED BY <1>1, <1>2, <1>3, <1>4, <1>5, <1>6, <1>7

\* COMMIT was executed, so the key is bound to what Ok returns.
LEMMA CommitAcknowledgedPreserves ==
    ASSUME IInv, NEW c \in Calls, CommitAcknowledged(c)
    PROVE  IInv'
<1> USE NoneAssumption DEF IInv, TypeOK, Key, Requests, Rows,
      CommitAcknowledged, Return, Ok, sessVars, tableVars
<1>1. TypeOK'
  BY DEF PhasesAgree, Awaiting, Statements, Results, Answers
<1>2. PhasesAgree' /\ DefiniteErrorsAreFinal'
  BY DEF PhasesAgree, DefiniteErrorsAreFinal, WritesFollowProtocol, WritesOf,
     Awaiting, Answers, Told
<1>3. WritesFollowProtocol'
  BY DEF WritesFollowProtocol, WritesOf, PhasesAgree, BoundToMe, KeyHeldOnce
<1>4. KnowledgeIsStable'
  BY DEF KnowledgeIsStable, KnowledgeOf, PhasesAgree, WritesFollowProtocol,
     WritesOf, KeyHeldOnce, BoundToMe, BoundToOther
<1>5. RowsHaveOwners' /\ KeyHeldOnce'
  BY DEF RowsHaveOwners, KeyHeldOnce, PhasesAgree, WritesFollowProtocol,
     WritesOf
<1>6. OneEventPerRequest'
  BY DEF OneEventPerRequest, Recorded, PhasesAgree, WritesFollowProtocol,
     WritesOf, RowsHaveOwners
<1>7. OkIsRecorded'
  <2>1. BoundToMe(c)
    BY DEF KnowledgeIsStable, KnowledgeOf
  <2> QED
    BY <2>1 DEF OkIsRecorded, BoundToMe, Told
<1>8. ConflictIsReal'
  BY DEF ConflictIsReal, Told, PhasesAgree, KeyHeldOnce, Answers
<1> QED BY <1>1, <1>2, <1>3, <1>4, <1>5, <1>6, <1>7, <1>8

\* The conflicting binding seen by the SELECT is still there.
LEMMA RollbackAcknowledgedPreserves ==
    ASSUME IInv, NEW c \in Calls, RollbackAcknowledged(c)
    PROVE  IInv'
<1> USE NoneAssumption DEF IInv, TypeOK, Key, Requests, Rows,
      RollbackAcknowledged, Return, Err, sessVars, tableVars
<1>1. TypeOK'
  BY DEF PhasesAgree, Awaiting, Statements, Results, Answers
<1>2. PhasesAgree' /\ DefiniteErrorsAreFinal'
  BY DEF PhasesAgree, DefiniteErrorsAreFinal, WritesFollowProtocol, WritesOf,
     Awaiting, Answers, Told
<1>3. WritesFollowProtocol'
  BY DEF WritesFollowProtocol, WritesOf, PhasesAgree, BoundToMe, KeyHeldOnce
<1>4. KnowledgeIsStable'
  BY DEF KnowledgeIsStable, KnowledgeOf, PhasesAgree, WritesFollowProtocol,
     WritesOf, KeyHeldOnce, BoundToMe, BoundToOther
<1>5. RowsHaveOwners' /\ KeyHeldOnce'
  BY DEF RowsHaveOwners, KeyHeldOnce, PhasesAgree, WritesFollowProtocol,
     WritesOf
<1>6. OneEventPerRequest'
  BY DEF OneEventPerRequest, Recorded, PhasesAgree, WritesFollowProtocol,
     WritesOf, RowsHaveOwners
<1>7. OkIsRecorded'
  BY DEF OkIsRecorded, Told, PhasesAgree, KeyHeldOnce, Answers
<1>8. ConflictIsReal'
  <2>1. BoundToOther(c)
    BY DEF KnowledgeIsStable, KnowledgeOf
  <2> QED
    BY <2>1 DEF ConflictIsReal, BoundToOther, Told
<1> QED BY <1>1, <1>2, <1>3, <1>4, <1>5, <1>6, <1>7, <1>8

\* The call returns; its session keeps whatever it was sent.
LEMMA DatabaseErrorPreserves ==
    ASSUME IInv, NEW c \in Calls, DatabaseError(c)
    PROVE  IInv'
<1> USE NoneAssumption DEF IInv, TypeOK, Key, Requests, Rows, DatabaseError,
      Return, Err, sessVars, tableVars
<1>1. TypeOK'
  BY DEF PhasesAgree, Awaiting, Statements, Results, Answers
<1>2. PhasesAgree' /\ DefiniteErrorsAreFinal'
  BY DEF PhasesAgree, DefiniteErrorsAreFinal, WritesFollowProtocol, WritesOf,
     Awaiting, Answers, Told
<1>3. WritesFollowProtocol'
  BY DEF WritesFollowProtocol, WritesOf, PhasesAgree, BoundToMe, KeyHeldOnce
<1>4. KnowledgeIsStable'
  BY DEF KnowledgeIsStable, KnowledgeOf, PhasesAgree, WritesFollowProtocol,
     WritesOf, KeyHeldOnce, BoundToMe, BoundToOther
<1>5. RowsHaveOwners' /\ KeyHeldOnce'
  BY DEF RowsHaveOwners, KeyHeldOnce, PhasesAgree, WritesFollowProtocol,
     WritesOf
<1>6. OneEventPerRequest'
  BY DEF OneEventPerRequest, Recorded, PhasesAgree, WritesFollowProtocol,
     WritesOf, RowsHaveOwners
<1>7. OkIsRecorded' /\ ConflictIsReal'
  BY DEF OkIsRecorded, ConflictIsReal, Told, PhasesAgree, KeyHeldOnce, Answers
<1> QED BY <1>1, <1>2, <1>3, <1>4, <1>5, <1>6, <1>7

\* The call returns with nothing in flight that could commit.
LEMMA DecodeErrorPreserves ==
    ASSUME IInv, NEW c \in Calls, DecodeError(c)
    PROVE  IInv'
<1> USE NoneAssumption DEF IInv, TypeOK, Key, Requests, Rows, DecodeError,
      Return, Err, sessVars, tableVars
<1>1. TypeOK'
  BY DEF PhasesAgree, Awaiting, Statements, Results, Answers
<1>2. PhasesAgree' /\ DefiniteErrorsAreFinal'
  BY DEF PhasesAgree, DefiniteErrorsAreFinal, WritesFollowProtocol, WritesOf,
     Awaiting, Answers, Told
<1>3. WritesFollowProtocol'
  BY DEF WritesFollowProtocol, WritesOf, PhasesAgree, BoundToMe, KeyHeldOnce
<1>4. KnowledgeIsStable'
  BY DEF KnowledgeIsStable, KnowledgeOf, PhasesAgree, WritesFollowProtocol,
     WritesOf, KeyHeldOnce, BoundToMe, BoundToOther
<1>5. RowsHaveOwners' /\ KeyHeldOnce'
  BY DEF RowsHaveOwners, KeyHeldOnce, PhasesAgree, WritesFollowProtocol,
     WritesOf
<1>6. OneEventPerRequest'
  BY DEF OneEventPerRequest, Recorded, PhasesAgree, WritesFollowProtocol,
     WritesOf, RowsHaveOwners
<1>7. OkIsRecorded' /\ ConflictIsReal'
  BY DEF OkIsRecorded, ConflictIsReal, Told, PhasesAgree, KeyHeldOnce, Answers
<1> QED BY <1>1, <1>2, <1>3, <1>4, <1>5, <1>6, <1>7

-----------------------------------------------------------------------------
(* Steps of a session.                                                     *)

\* The row is inserted only when the key is neither committed nor held.
LEMMA ExecInsertPreserves ==
    ASSUME IInv, NEW c \in Calls, ExecInsert(c)
    PROVE  IInv'
<1> USE NoneAssumption DEF IInv, TypeOK, Key, Requests, Rows, ExecInsert,
      Executed, Blocked, callVars, tableVars
<1>1. TypeOK'
  BY DEF PhasesAgree, Awaiting, Statements, Results, Answers
<1>2. PhasesAgree' /\ DefiniteErrorsAreFinal'
  BY DEF PhasesAgree, DefiniteErrorsAreFinal, WritesFollowProtocol, WritesOf,
     Awaiting, Answers, Told
<1>3. WritesFollowProtocol'
  BY DEF WritesFollowProtocol, WritesOf, PhasesAgree, BoundToMe, KeyHeldOnce
<1>4. KnowledgeIsStable'
  BY DEF KnowledgeIsStable, KnowledgeOf, PhasesAgree, WritesFollowProtocol,
     WritesOf, KeyHeldOnce, BoundToMe, BoundToOther
<1>5. RowsHaveOwners' /\ KeyHeldOnce'
  BY DEF RowsHaveOwners, KeyHeldOnce, PhasesAgree, WritesFollowProtocol,
     WritesOf
<1>6. OneEventPerRequest'
  BY DEF OneEventPerRequest, Recorded, PhasesAgree, WritesFollowProtocol,
     WritesOf, RowsHaveOwners
<1>7. OkIsRecorded' /\ ConflictIsReal'
  BY DEF OkIsRecorded, ConflictIsReal, Told, PhasesAgree, KeyHeldOnce, Answers
<1> QED BY <1>1, <1>2, <1>3, <1>4, <1>5, <1>6, <1>7

\* The SELECT compares all columns, so what it finds is the command itself.
LEMMA ExecSelectPreserves ==
    ASSUME IInv, NEW c \in Calls, ExecSelect(c)
    PROVE  IInv'
<1> USE NoneAssumption DEF IInv, TypeOK, Key, Requests, Rows, ExecSelect,
      Executed, callVars, tableVars
<1>1. TypeOK'
  <2>1. input[c] \in Requests
    BY DEF PhasesAgree
  <2>2. found' \in [Calls -> Calls \cup {None}]
    BY <2>1
  <2> QED
    BY <2>2 DEF Statements, Results
<1>2. PhasesAgree' /\ DefiniteErrorsAreFinal'
  BY DEF PhasesAgree, DefiniteErrorsAreFinal, WritesFollowProtocol, WritesOf,
     Awaiting, Answers, Told
<1>3. WritesFollowProtocol'
  BY DEF WritesFollowProtocol, WritesOf, PhasesAgree, BoundToMe, KeyHeldOnce
<1>4. KnowledgeIsStable'
  <2> SUFFICES ASSUME NEW d \in Calls PROVE KnowledgeOf(d)'
    BY DEF KnowledgeIsStable
  <2>1. CASE d # c
    BY <2>1 DEF KnowledgeIsStable, KnowledgeOf, BoundToMe, BoundToOther
  <2>2. requests[Key(c)] \in Rows /\ input[c].command \in Commands
    <3>1. input[c] \in Requests
      BY DEF PhasesAgree
    <3>2. requests[Key(c)] # None
      BY DEF KnowledgeIsStable, KnowledgeOf
    <3> QED
      BY <3>1, <3>2
  <2>3. CASE d = c /\ result'[c] = "row"
    <3>1. requests[Key(c)] = [op |-> found'[c], command |-> input[c].command]
      BY <2>2, <2>3, CommandsAreTheirColumns DEF SameCommand
    <3> QED
      BY <2>3, <3>1 DEF KnowledgeOf, PhasesAgree
  <2>4. CASE d = c /\ result'[c] = "empty"
    <3>1. /\ requests[Key(c)] # None
          /\ ~SameCommand(requests[Key(c)], input[c].command)
      BY <2>2, <2>4
    <3>2. BoundToOther(c)'
      BY <3>1 DEF SameCommand, BoundToOther
    <3> QED
      BY <2>4, <3>2 DEF KnowledgeOf, PhasesAgree
  <2> QED BY <2>1, <2>3, <2>4
<1>5. RowsHaveOwners' /\ KeyHeldOnce'
  BY DEF RowsHaveOwners, KeyHeldOnce, PhasesAgree, WritesFollowProtocol,
     WritesOf
<1>6. OneEventPerRequest'
  BY DEF OneEventPerRequest, Recorded, PhasesAgree, WritesFollowProtocol,
     WritesOf, RowsHaveOwners
<1>7. OkIsRecorded' /\ ConflictIsReal'
  BY DEF OkIsRecorded, ConflictIsReal, Told, PhasesAgree, KeyHeldOnce, Answers
<1> QED BY <1>1, <1>2, <1>3, <1>4, <1>5, <1>6, <1>7

\* The one event of the transaction is written beside its row.
LEMMA ExecOutboxPreserves ==
    ASSUME IInv, NEW c \in Calls, ExecOutbox(c)
    PROVE  IInv'
<1> USE NoneAssumption DEF IInv, TypeOK, Key, Requests, Rows, ExecOutbox,
      Executed, callVars, tableVars
<1>1. TypeOK'
  BY DEF PhasesAgree, Awaiting, Statements, Results, Answers
<1>2. PhasesAgree' /\ DefiniteErrorsAreFinal'
  BY DEF PhasesAgree, DefiniteErrorsAreFinal, WritesFollowProtocol, WritesOf,
     Awaiting, Answers, Told
<1>3. WritesFollowProtocol'
  BY DEF WritesFollowProtocol, WritesOf, PhasesAgree, BoundToMe, KeyHeldOnce
<1>4. KnowledgeIsStable'
  BY DEF KnowledgeIsStable, KnowledgeOf, PhasesAgree, WritesFollowProtocol,
     WritesOf, KeyHeldOnce, BoundToMe, BoundToOther
<1>5. RowsHaveOwners' /\ KeyHeldOnce'
  BY DEF RowsHaveOwners, KeyHeldOnce, PhasesAgree, WritesFollowProtocol,
     WritesOf
<1>6. OneEventPerRequest'
  BY DEF OneEventPerRequest, Recorded, PhasesAgree, WritesFollowProtocol,
     WritesOf, RowsHaveOwners
<1>7. OkIsRecorded' /\ ConflictIsReal'
  BY DEF OkIsRecorded, ConflictIsReal, Told, PhasesAgree, KeyHeldOnce, Answers
<1> QED BY <1>1, <1>2, <1>3, <1>4, <1>5, <1>6, <1>7

\* Row and event become visible together; no other knowledge is disturbed.
LEMMA ExecCommitPreserves ==
    ASSUME IInv, NEW c \in Calls, ExecCommit(c)
    PROVE  IInv'
<1> USE NoneAssumption DEF IInv, TypeOK, Key, Requests, Rows, ExecCommit,
      Executed, callVars
<1>1. TypeOK'
  BY DEF PhasesAgree, Awaiting, Statements, Results, Answers
<1>2. PhasesAgree' /\ DefiniteErrorsAreFinal'
  BY DEF PhasesAgree, DefiniteErrorsAreFinal, WritesFollowProtocol, WritesOf,
     Awaiting, Answers, Told
<1>3. WritesFollowProtocol'
  BY DEF WritesFollowProtocol, WritesOf, PhasesAgree, BoundToMe, KeyHeldOnce
<1>4. KnowledgeIsStable'
  BY DEF KnowledgeIsStable, KnowledgeOf, PhasesAgree, WritesFollowProtocol,
     WritesOf, KeyHeldOnce, BoundToMe, BoundToOther
<1>5. RowsHaveOwners' /\ KeyHeldOnce'
  BY DEF RowsHaveOwners, KeyHeldOnce, PhasesAgree, WritesFollowProtocol,
     WritesOf
<1>6. OneEventPerRequest'
  <2>1. CASE c \in rows
    <3>1. /\ requests[Key(c)] = None /\ Key(c) \in Keys
          /\ opId[c] = c /\ written[c] = 1
          /\ [op |-> c, command |-> input[c].command] \in Rows
      BY <2>1 DEF PhasesAgree, WritesFollowProtocol, WritesOf, KeyHeldOnce
    <3>2. ~Recorded(c) /\ outbox[c] = 0
      BY DEF RowsHaveOwners, Recorded, OneEventPerRequest
    <3>3. Recorded(c)'
      BY <2>1, <3>1 DEF Recorded
    <3>4. \A d \in Calls : d # c => (Recorded(d)' <=> Recorded(d))
      BY <2>1, <3>1 DEF Recorded
    <3>5. outbox' = [outbox EXCEPT ![c] = 1]
      BY <3>1, <3>2
    <3> QED
      BY <3>2, <3>3, <3>4, <3>5 DEF OneEventPerRequest
  <2>2. CASE c \notin rows
    <3>1. requests' = requests /\ written[c] = 0 /\ opId[c] \in Calls
      BY <2>2 DEF PhasesAgree, WritesFollowProtocol, WritesOf
    <3>2. outbox' = outbox
      BY <3>1
    <3> QED
      BY <3>1, <3>2 DEF OneEventPerRequest, Recorded
  <2> QED BY <2>1, <2>2
<1>7. OkIsRecorded' /\ ConflictIsReal'
  BY DEF OkIsRecorded, ConflictIsReal, Told, PhasesAgree, KeyHeldOnce, Answers
<1> QED BY <1>1, <1>2, <1>3, <1>4, <1>5, <1>6, <1>7

\* The conflicting call wrote nothing.
LEMMA ExecRollbackPreserves ==
    ASSUME IInv, NEW c \in Calls, ExecRollback(c)
    PROVE  IInv'
<1> USE NoneAssumption DEF IInv, TypeOK, Key, Requests, Rows, ExecRollback,
      Executed, Discard, callVars, tableVars
<1>1. TypeOK'
  BY DEF PhasesAgree, Awaiting, Statements, Results, Answers
<1>2. PhasesAgree' /\ DefiniteErrorsAreFinal'
  BY DEF PhasesAgree, DefiniteErrorsAreFinal, WritesFollowProtocol, WritesOf,
     Awaiting, Answers, Told
<1>3. WritesFollowProtocol'
  BY DEF WritesFollowProtocol, WritesOf, PhasesAgree, BoundToMe, KeyHeldOnce
<1>4. KnowledgeIsStable'
  <2> SUFFICES ASSUME NEW d \in Calls PROVE KnowledgeOf(d)'
    BY DEF KnowledgeIsStable
  <2>1. CASE d = c
    <3>1. stmt[c] = "rollback" /\ pc[c] \in {"rollback", "done"}
      BY DEF PhasesAgree
    <3>2. stmt'[c] = "none" /\ result'[c] = "ok"
      OBVIOUS
    <3>3. pc'[c] = pc[c] /\ input' = input /\ opId' = opId /\ requests' = requests
      OBVIOUS
    <3>4. pc[c] = "rollback" => BoundToOther(c)
      BY DEF KnowledgeIsStable, KnowledgeOf
    <3> QED
      BY <2>1, <3>1, <3>2, <3>3, <3>4 DEF KnowledgeOf, BoundToOther
  <2>2. CASE d # c
    BY <2>2 DEF KnowledgeIsStable, KnowledgeOf, BoundToMe, BoundToOther
  <2> QED BY <2>1, <2>2
<1>5. RowsHaveOwners' /\ KeyHeldOnce'
  BY DEF RowsHaveOwners, KeyHeldOnce, PhasesAgree, WritesFollowProtocol,
     WritesOf
<1>6. OneEventPerRequest'
  BY DEF OneEventPerRequest, Recorded, PhasesAgree, WritesFollowProtocol,
     WritesOf, RowsHaveOwners
<1>7. OkIsRecorded' /\ ConflictIsReal'
  BY DEF OkIsRecorded, ConflictIsReal, Told, PhasesAgree, KeyHeldOnce, Answers
<1> QED BY <1>1, <1>2, <1>3, <1>4, <1>5, <1>6, <1>7

\* A dropped transaction leaves no trace.
LEMMA DropRollbackPreserves ==
    ASSUME IInv, NEW c \in Calls, DropRollback(c)
    PROVE  IInv'
<1> USE NoneAssumption DEF IInv, TypeOK, Key, Requests, Rows, DropRollback,
      Discard, callVars, tableVars
<1>1. TypeOK'
  BY DEF PhasesAgree, Awaiting, Statements, Results, Answers
<1>2. PhasesAgree' /\ DefiniteErrorsAreFinal'
  BY DEF PhasesAgree, DefiniteErrorsAreFinal, WritesFollowProtocol, WritesOf,
     Awaiting, Answers, Told
<1>3. WritesFollowProtocol'
  BY DEF WritesFollowProtocol, WritesOf, PhasesAgree, BoundToMe, KeyHeldOnce
<1>4. KnowledgeIsStable'
  BY DEF KnowledgeIsStable, KnowledgeOf, PhasesAgree, WritesFollowProtocol,
     WritesOf, KeyHeldOnce, BoundToMe, BoundToOther
<1>5. RowsHaveOwners' /\ KeyHeldOnce'
  BY DEF RowsHaveOwners, KeyHeldOnce, PhasesAgree, WritesFollowProtocol,
     WritesOf
<1>6. OneEventPerRequest'
  BY DEF OneEventPerRequest, Recorded, PhasesAgree, WritesFollowProtocol,
     WritesOf, RowsHaveOwners
<1>7. OkIsRecorded' /\ ConflictIsReal'
  BY DEF OkIsRecorded, ConflictIsReal, Told, PhasesAgree, KeyHeldOnce, Answers
<1> QED BY <1>1, <1>2, <1>3, <1>4, <1>5, <1>6, <1>7

\* A lost session leaves no trace.
LEMMA ConnectionLostPreserves ==
    ASSUME IInv, NEW c \in Calls, ConnectionLost(c)
    PROVE  IInv'
<1> USE NoneAssumption DEF IInv, TypeOK, Key, Requests, Rows, ConnectionLost,
      Discard, callVars, tableVars
<1>1. TypeOK'
  BY DEF PhasesAgree, Awaiting, Statements, Results, Answers
<1>2. PhasesAgree' /\ DefiniteErrorsAreFinal'
  BY DEF PhasesAgree, DefiniteErrorsAreFinal, WritesFollowProtocol, WritesOf,
     Awaiting, Answers, Told
<1>3. WritesFollowProtocol'
  BY DEF WritesFollowProtocol, WritesOf, PhasesAgree, BoundToMe, KeyHeldOnce
<1>4. KnowledgeIsStable'
  BY DEF KnowledgeIsStable, KnowledgeOf, PhasesAgree, WritesFollowProtocol,
     WritesOf, KeyHeldOnce, BoundToMe, BoundToOther
<1>5. RowsHaveOwners' /\ KeyHeldOnce'
  BY DEF RowsHaveOwners, KeyHeldOnce, PhasesAgree, WritesFollowProtocol,
     WritesOf
<1>6. OneEventPerRequest'
  BY DEF OneEventPerRequest, Recorded, PhasesAgree, WritesFollowProtocol,
     WritesOf, RowsHaveOwners
<1>7. OkIsRecorded' /\ ConflictIsReal'
  BY DEF OkIsRecorded, ConflictIsReal, Told, PhasesAgree, KeyHeldOnce, Answers
<1> QED BY <1>1, <1>2, <1>3, <1>4, <1>5, <1>6, <1>7
\* A step that changes nothing preserves the invariant.
LEMMA StutteringPreserves == ASSUME IInv, UNCHANGED vars PROVE IInv'
<1> USE DEF IInv, vars
<1>1. TypeOK' /\ PhasesAgree' /\ RowsHaveOwners' /\ DefiniteErrorsAreFinal'
  BY DEF TypeOK, PhasesAgree, RowsHaveOwners, DefiniteErrorsAreFinal, Told
<1>2. WritesFollowProtocol' /\ KnowledgeIsStable'
  BY DEF WritesFollowProtocol, WritesOf, KnowledgeIsStable, KnowledgeOf,
         BoundToMe, BoundToOther, Key
<1>3. KeyHeldOnce' /\ OneEventPerRequest' /\ OkIsRecorded' /\ ConflictIsReal'
  BY DEF KeyHeldOnce, OneEventPerRequest, OkIsRecorded, ConflictIsReal,
         Recorded, Told, Key
<1> QED BY <1>1, <1>2, <1>3

-----------------------------------------------------------------------------
(* Theorems.                                                               *)

\* Every step of record_action and of the database preserves the invariant.
THEOREM StepsPreserveIInv == IInv /\ [Next]_vars => IInv'
<1> SUFFICES ASSUME IInv, [Next]_vars PROVE IInv'
  OBVIOUS
<1>1. CASE UNCHANGED vars
  BY <1>1, StutteringPreserves
<1>2. CASE Next
  <2>1. PICK c \in Calls :
          \/ \E k \in Keys, m \in Commands : RecordAction(c, k, m)
          \/ CallStep(c) \/ SessionStep(c) \/ Failure(c) \/ DropRollback(c)
    BY <1>2 DEF Next
  <2>2. CASE \E k \in Keys, m \in Commands : RecordAction(c, k, m)
    BY <2>2, RecordActionPreserves
  <2>3. CASE CallStep(c)
    BY <2>3, BeginPreserves, InsertedPreserves, NotInsertedPreserves,
       ReplayedPreserves, MismatchPreserves, AnnouncedPreserves,
       CommitAcknowledgedPreserves, RollbackAcknowledgedPreserves DEF CallStep
  <2>4. CASE SessionStep(c)
    BY <2>4, ExecInsertPreserves, ExecSelectPreserves, ExecOutboxPreserves,
       ExecCommitPreserves, ExecRollbackPreserves DEF SessionStep
  <2>5. CASE Failure(c) \/ DropRollback(c)
    BY <2>5, DatabaseErrorPreserves, DecodeErrorPreserves,
       ConnectionLostPreserves, DropRollbackPreserves DEF Failure
  <2> QED
    BY <2>1, <2>2, <2>3, <2>4, <2>5
<1> QED BY <1>1, <1>2

\* The inductive invariant holds in every reachable state.
THEOREM Invariance == Spec => []IInv
<1> QED
  BY InitEstablishesIInv, StepsPreserveIInv, PTL DEF Spec

\* Type correctness of the callers' state, the sessions and the tables.
THEOREM TypeCorrect == Spec => []TypeOK
<1>1. IInv => TypeOK
  BY DEF IInv
<1> QED BY <1>1, Invariance, PTL

\* A request row and its single outbox event commit together, always.
THEOREM OutboxIsExact == Spec => []OneEventPerRequest
<1>1. IInv => OneEventPerRequest
  BY DEF IInv
<1> QED BY <1>1, Invariance, PTL

\* Ok(op) is only ever said of the committed binding of the caller's key.
THEOREM OkIsTrue == Spec => []OkIsRecorded
<1>1. IInv => OkIsRecorded
  BY DEF IInv
<1> QED BY <1>1, Invariance, PTL

\* IdempotencyConflict is only ever said of a key bound to another command.
THEOREM ConflictIsTrue == Spec => []ConflictIsReal
<1>1. IInv => ConflictIsReal
  BY DEF IInv
<1> QED BY <1>1, Invariance, PTL

\* No definite answer is overtaken by a late commit of the caller's own row.
THEOREM AmbiguityIsConfined == Spec => []OnlyDatabaseErrorIsAmbiguous
<1>1. ASSUME IInv, NEW c \in Calls, Recorded(c),
             reply[c] # None, reply[c].kind # "Database"
      PROVE  reply[c] = Ok(c)
  <2>1. PICK k \in Keys : requests[k] # None /\ requests[k].op = c
    BY <1>1 DEF Recorded
  <2>2. /\ sess[c] = "committed"
        /\ input[c] = [key |-> k, command |-> requests[k].command]
    BY <1>1, <2>1 DEF IInv, RowsHaveOwners
  <2>3. reply[c].kind \in {"Ok", "IdempotencyConflict", "Decode"}
    BY <1>1 DEF IInv, TypeOK, Answers
  <2>4. reply[c].kind = "Ok" /\ reply[c] \in [kind : {"Ok"}, op : Calls]
    BY <1>1, <2>2, <2>3 DEF IInv, TypeOK, Answers, DefiniteErrorsAreFinal, Told
  <2>5. requests[k] = [op |-> reply[c].op, command |-> input[c].command]
    BY <1>1, <2>2, <2>4 DEF IInv, OkIsRecorded, Told, Key
  <2> QED
    BY <2>1, <2>4, <2>5 DEF Ok
<1>2. IInv => OnlyDatabaseErrorIsAmbiguous
  BY <1>1 DEF OnlyDatabaseErrorIsAmbiguous
<1> QED BY <1>2, Invariance, PTL

\* Two open transactions never hold one key, nor one that is committed.
THEOREM KeysAreExclusive == Spec => []KeyHeldOnce
<1>1. IInv => KeyHeldOnce
  BY DEF IInv
<1> QED BY <1>1, Invariance, PTL

\* Only a COMMIT writes the request table, and only under a key not bound yet.
LEMMA StepsKeepBindings ==
    ASSUME IInv, [Next]_vars
    PROVE  \/ UNCHANGED requests
           \/ \E c \in rows :
                /\ ExecCommit(c) /\ input[c] \in Requests
                /\ requests[Key(c)] = None
                /\ requests' = [requests EXCEPT ![Key(c)] =
                                   [op |-> c, command |-> input[c].command]]
<1>1. ASSUME NEW c \in Calls, ExecCommit(c), c \in rows
      PROVE  /\ input[c] \in Requests /\ requests[Key(c)] = None
             /\ requests' = [requests EXCEPT ![Key(c)] =
                                [op |-> c, command |-> input[c].command]]
  BY <1>1 DEF IInv, TypeOK, PhasesAgree, KeyHeldOnce, ExecCommit,
              WritesFollowProtocol, WritesOf
<1>2. ASSUME NEW c \in Calls, ExecCommit(c), c \notin rows
      PROVE  UNCHANGED requests
  BY <1>2 DEF ExecCommit
<1>3. CASE \E c \in Calls : ExecCommit(c)
  BY <1>1, <1>2, <1>3
<1>4. CASE ~\E c \in Calls : ExecCommit(c)
  BY <1>4
     DEF Next, vars, CallStep, SessionStep, Failure, RecordAction, Begin,
         Inserted, NotInserted, Replayed, Mismatch, Announced,
         CommitAcknowledged, RollbackAcknowledged, DatabaseError, DecodeError,
         ExecInsert, ExecSelect, ExecOutbox, ExecRollback, DropRollback,
         ConnectionLost, tableVars
<1> QED BY <1>3, <1>4

\* A committed binding is never changed by any later step.
THEOREM BindingsNeverChange == Spec => BindingsArePermanent
<1>1. ASSUME IInv, [Next]_vars
      PROVE  [\A k \in Keys : requests[k] # None
                               => requests'[k] = requests[k]]_requests
  BY <1>1, StepsKeepBindings DEF IInv, TypeOK, Key
<1> QED
  BY <1>1, Invariance, PTL DEF Spec, BindingsArePermanent

\* Every step of record_action and the database is a ledger step or no step.
LEMMA StepsSimulateLedger ==
    ASSUME IInv, [Next]_vars
    PROVE  [Ledger!LedgerNext]_(Ledger!ledgerVars)
<1> USE NoneAssumption DEF Ledger!ledgerVars
<1>1. ASSUME NEW c \in Calls, NEW k \in Keys, NEW m \in Commands,
             RecordAction(c, k, m)
      PROVE  Ledger!Ask(c, k, m)
  BY <1>1 DEF IInv, PhasesAgree, RecordAction, tableVars, Ledger!Ask
<1>2. ASSUME NEW c \in Calls, CommitAcknowledged(c)
      PROVE  Ledger!AnswerOk(c)
  <2>1. BoundToMe(c)
    BY <1>2 DEF IInv, KnowledgeIsStable, KnowledgeOf, CommitAcknowledged
  <2>2. input[c] \in Requests /\ reply[c] = None /\ opId[c] \in Calls
    BY <1>2 DEF IInv, TypeOK, PhasesAgree, CommitAcknowledged
  <2>3. requests[Key(c)] \in Rows
    BY <2>1, <2>2 DEF BoundToMe, Rows, Requests
  <2> QED
    BY <1>2, <2>1, <2>2, <2>3
       DEF BoundToMe, Key, CommitAcknowledged, Return, Ok, tableVars,
           Ledger!AnswerOk, Ledger!Ok
<1>3. ASSUME NEW c \in Calls, RollbackAcknowledged(c)
      PROVE  Ledger!AnswerConflict(c)
  <2>1. BoundToOther(c) /\ input[c] # None /\ reply[c] = None
    BY <1>3 DEF IInv, PhasesAgree, KnowledgeIsStable, KnowledgeOf,
                RollbackAcknowledged
  <2> QED
    BY <1>3, <2>1
       DEF BoundToOther, Key, RollbackAcknowledged, Return, Err, tableVars,
           Ledger!AnswerConflict, Ledger!Err
<1>4. ASSUME NEW c \in Calls, DatabaseError(c) \/ DecodeError(c)
      PROVE  Ledger!AnswerFailed(c)
  BY <1>4
     DEF IInv, PhasesAgree, Awaiting, DatabaseError, DecodeError, Return, Err,
         tableVars, Ledger!AnswerFailed, Ledger!Uninformative, Ledger!Err
<1>5. ASSUME NEW c \in Calls, ExecCommit(c), c \in rows
      PROVE  Ledger!Bind(c)
  <2>1. /\ requests[Key(c)] = None /\ input[c] # None
        /\ opId[c] = c /\ written[c] = 1
    BY <1>5 DEF IInv, PhasesAgree, KeyHeldOnce, WritesFollowProtocol, WritesOf,
                ExecCommit
  <2>2. outbox[c] = 0
    BY <1>5 DEF IInv, RowsHaveOwners, OneEventPerRequest, Recorded, ExecCommit
  <2> QED
    BY <1>5, <2>1, <2>2
       DEF IInv, TypeOK, Key, ExecCommit, callVars, Ledger!Bind
<1>6. ASSUME NEW c \in Calls, ExecCommit(c), c \notin rows
      PROVE  UNCHANGED Ledger!ledgerVars
  <2>1. written[c] = 0 /\ opId[c] \in Calls
    BY <1>6 DEF IInv, TypeOK, PhasesAgree, WritesFollowProtocol, WritesOf,
                ExecCommit
  <2> QED
    BY <1>6, <2>1 DEF IInv, TypeOK, ExecCommit, callVars
<1>7. ASSUME NEW c \in Calls,
             \/ Begin(c) \/ Inserted(c) \/ NotInserted(c) \/ Replayed(c)
             \/ Mismatch(c) \/ Announced(c) \/ ExecInsert(c) \/ ExecSelect(c)
             \/ ExecOutbox(c) \/ ExecRollback(c) \/ DropRollback(c)
             \/ ConnectionLost(c)
      PROVE  UNCHANGED Ledger!ledgerVars
  BY <1>7
     DEF Begin, Inserted, NotInserted, Replayed, Mismatch, Announced,
         ExecInsert, ExecSelect, ExecOutbox, ExecRollback, DropRollback,
         ConnectionLost, callVars, tableVars
<1>8. CASE UNCHANGED vars
  BY <1>8 DEF vars
<1>9. CASE Next
  BY <1>1, <1>2, <1>3, <1>4, <1>5, <1>6, <1>7, <1>9
     DEF Next, CallStep, SessionStep, Failure, Ledger!LedgerNext
<1> QED BY <1>8, <1>9

\* record_action implements the atomic ledger: its callers cannot tell it from
\* one that binds a key, its command and its event in a single step.
THEOREM Refinement == Spec => ImplementsLedger
<1>1. Init => Ledger!LedgerInit
  BY DEF Init, Ledger!LedgerInit
<1> QED
  BY <1>1, Invariance, StepsSimulateLedger, PTL
     DEF Spec, ImplementsLedger, Ledger!LedgerSpec
-----------------------------------------------------------------------------
(* Connecting: what the probes are worth, for any number of contexts, any  *)
(* pool size and any configuration (AdminConnect).                         *)

\* A login keeps the pools typed and adds a session with the present default.
LEMMA LoginIsTyped ==
    ASSUME ConnectTypeOK, NEW x \in Contexts, Login(x)
    PROVE  /\ pool' \in [Contexts -> [Modes -> 0..MaxSessions]]
           /\ \A y \in Contexts, m \in Modes :
                pool'[y][m] > 0 => pool[y][m] > 0 \/ (y = x /\ m = credential.default)
           /\ \A y \in Contexts : y # x => pool'[y] = pool[y]
<1>1. /\ pool \in [Contexts -> [Modes -> 0..MaxSessions]]
      /\ credential.default \in Modes
  BY DEF ConnectTypeOK, Credentials
<1>2. pool[x][credential.default] + 1 \in 0..MaxSessions
  <2>1. pool[x]["on"] \in 0..MaxSessions /\ pool[x]["off"] \in 0..MaxSessions
    BY <1>1 DEF Modes
  <2>2. pool[x]["on"] + pool[x]["off"] < MaxSessions
    BY DEF Login, Size
  <2>3. CASE credential.default = "on"
    BY <2>1, <2>2, <2>3, ConnectAssumption
  <2>4. CASE credential.default = "off"
    BY <2>1, <2>2, <2>4, ConnectAssumption
  <2> QED BY <1>1, <2>3, <2>4 DEF Modes
<1>3. pool' = [pool EXCEPT ![x][credential.default] = pool[x][credential.default] + 1]
  BY DEF Login
<1> QED BY <1>1, <1>2, <1>3

\* A refused context loses its pool and nobody else's.
LEMMA FailIsTyped ==
    ASSUME ConnectTypeOK, NEW x \in Contexts, NEW e \in Errors, Fail(x, e)
    PROVE  /\ pool' \in [Contexts -> [Modes -> 0..MaxSessions]]
           /\ phase' \in [Contexts -> {"new", "role", "mode", "open"} \cup Errors]
           /\ pool'[x] = Empty /\ phase'[x] = e
           /\ \A m \in Modes : ~(pool'[x][m] > 0)
           /\ \A y \in Contexts : y # x => pool'[y] = pool[y] /\ phase'[y] = phase[y]
<1>1. Empty \in [Modes -> 0..MaxSessions] /\ \A m \in Modes : Empty[m] = 0
  BY ConnectAssumption DEF Empty
<1> QED BY <1>1 DEF ConnectTypeOK, Fail

\* connect, its two checks, the pool, ALTER ROLE and a promotion all keep the
\* invariant.
LEMMA ConnectStep ==
    ASSUME ConnectInv, [ConnectNext]_connectVars
    PROVE  ConnectInv'
<1> USE DEF ConnectInv
<1>1. ASSUME NEW x \in Contexts, NEW config \in Configs, Connect(x, config)
      PROVE  ConnectInv'
  <2>1. unchanged' \in [Contexts -> BOOLEAN] /\ pool[x] = Empty
    BY <1>1 DEF Connect, ConnectTypeOK, LoginsAgree
  <2>2. ASSUME NEW e \in Errors, Fail(x, e)
        PROVE  ConnectInv'
    <3>1. ConnectTypeOK'
      BY <1>1, <2>1, <2>2, FailIsTyped DEF Connect, ConnectTypeOK
    <3> QED
      BY <1>1, <2>2, <3>1, FailIsTyped DEF Connect, ConnectTypeOK, LoginsAgree, Errors, ReadOnly
  <2>3. ASSUME Login(x), phase' = [phase EXCEPT ![x] = "role"]
        PROVE  ConnectInv'
    <3>1. ConnectTypeOK'
      BY <1>1, <2>1, <2>3, LoginIsTyped DEF Connect, ConnectTypeOK
    <3>2. \A m \in Modes : ~(pool[x][m] > 0)
      BY <2>1 DEF Empty
    <3> QED
      BY <1>1, <2>3, <3>1, <3>2, LoginIsTyped DEF Connect, ConnectTypeOK, LoginsAgree, ReadOnly
  <2> QED BY <1>1, <2>2, <2>3 DEF Connect, Errors
<1>2. ASSUME NEW x \in Contexts, validate_runtime_role(x)
      PROVE  ConnectInv'
  <2>1. CASE Fail(x, "UnsafeRuntimeRole")
    <3>1. "UnsafeRuntimeRole" \in Errors  BY DEF Errors
    <3>2. ConnectTypeOK'
      BY <1>2, <2>1, <3>1, FailIsTyped DEF validate_runtime_role, ConnectTypeOK
    <3> QED
      BY <1>2, <2>1, <3>1, <3>2, FailIsTyped DEF validate_runtime_role, ConnectTypeOK, LoginsAgree, ReadOnly
  <2>2. CASE phase' = [phase EXCEPT ![x] = "mode"] /\ UNCHANGED pool
    BY <1>2, <2>2 DEF validate_runtime_role, ConnectTypeOK, LoginsAgree, ReadOnly
  <2> QED BY <1>2, <2>1, <2>2 DEF validate_runtime_role
<1>3. ASSUME NEW x \in Contexts, transaction_read_only(x)
      PROVE  ConnectInv'
  <2>1. PICK m \in Modes :
          /\ pool[x][m] > 0
          /\ IF Accepts(x, ReadOnly(m))
             THEN phase' = [phase EXCEPT ![x] = "open"] /\ UNCHANGED pool
             ELSE Fail(x, IF x \in Readers THEN "ReadCredentialWritable"
                          ELSE "WriteCredentialReadOnly")
    BY <1>3 DEF transaction_read_only
  <2>2. ASSUME NEW e \in Errors, Fail(x, e)
        PROVE  ConnectInv'
    <3>1. ConnectTypeOK'
      BY <1>3, <2>2, FailIsTyped DEF transaction_read_only, ConnectTypeOK
    <3> QED
      BY <1>3, <2>2, <3>1, FailIsTyped DEF transaction_read_only, ConnectTypeOK, LoginsAgree, Errors, ReadOnly
  <2>3. ASSUME Accepts(x, ReadOnly(m)), phase' = [phase EXCEPT ![x] = "open"], UNCHANGED pool
        PROVE  ConnectInv'
    <3>1. ConnectTypeOK'
      BY <1>3, <2>3 DEF transaction_read_only, ConnectTypeOK
    <3>2. UNCHANGED <<credential, standby, unchanged>>
      BY <1>3 DEF transaction_read_only
    <3>3. ReadOnly(m) <=> x \in Readers
      BY <2>3 DEF Accepts
    <3>4. unchanged[x] => (ReadOnly(credential.default) <=> x \in Readers)
      BY <2>1, <3>3 DEF LoginsAgree
    <3>5. LoginsAgree'
      <4> SUFFICES ASSUME NEW y \in Contexts
                   PROVE  /\ phase'[y] = "new" => pool'[y] = Empty
                          /\ unchanged'[y] => \A n \in Modes :
                                pool'[y][n] > 0 => n = credential'.default
                          /\ unchanged'[y] /\ phase'[y] = "open" =>
                                (ReadOnly(credential.default)' <=> y \in Readers)
        BY DEF LoginsAgree, Empty
      <4>1. CASE y = x
        BY <2>3, <3>2, <3>4, <4>1 DEF ConnectTypeOK, LoginsAgree, ReadOnly
      <4>2. CASE y # x
        BY <2>3, <3>2, <4>2 DEF ConnectTypeOK, LoginsAgree, ReadOnly
      <4> QED BY <4>1, <4>2
    <3> QED BY <3>1, <3>5
  <2> QED BY <2>1, <2>2, <2>3 DEF Errors
<1>4. ASSUME NEW x \in Contexts, QueryFails(x)
      PROVE  ConnectInv'
  <2>1. PICK e \in Errors : Fail(x, e)
    BY <1>4 DEF QueryFails, Errors
  <2>2. ConnectTypeOK'
    BY <1>4, <2>1, FailIsTyped DEF QueryFails, ConnectTypeOK
  <2> QED
    BY <1>4, <2>1, <2>2, FailIsTyped DEF QueryFails, ConnectTypeOK, LoginsAgree, Errors, ReadOnly
<1>5. ASSUME NEW x \in Contexts, Grow(x)
      PROVE  ConnectInv'
  <2>1. ConnectTypeOK'
    BY <1>5, LoginIsTyped DEF Grow, ConnectTypeOK
  <2> QED
    BY <1>5, <2>1, LoginIsTyped DEF Grow, ConnectTypeOK, LoginsAgree, ReadOnly
<1>6. ASSUME NEW x \in Contexts, Shrink(x)
      PROVE  ConnectInv'
  <2>1. PICK m \in Modes :
          pool[x][m] > 0 /\ pool' = [pool EXCEPT ![x][m] = pool[x][m] - 1]
    BY <1>6 DEF Shrink
  <2>2. /\ pool' \in [Contexts -> [Modes -> 0..MaxSessions]]
        /\ \A y \in Contexts, n \in Modes : pool'[y][n] > 0 => pool[y][n] > 0
        /\ \A y \in Contexts : y # x => pool'[y] = pool[y]
    BY <2>1, ConnectAssumption DEF ConnectTypeOK
  <2>3. phase[x] # "new"
    BY <2>1 DEF LoginsAgree, Empty
  <2>4. ConnectTypeOK'
    BY <1>6, <2>2 DEF Shrink, ConnectTypeOK
  <2> QED
    BY <1>6, <2>2, <2>3, <2>4 DEF Shrink, ConnectTypeOK, LoginsAgree, ReadOnly
<1>7. ASSUME NEW new \in Credentials, AlterRole(new)
      PROVE  ConnectInv'
  <2>1. ConnectTypeOK'
    BY <1>7 DEF AlterRole, ConnectTypeOK
  <2> QED
    BY <1>7, <2>1 DEF AlterRole, ConnectTypeOK, LoginsAgree, ReadOnly
<1>8. ASSUME Promote
      PROVE  ConnectInv'
  <2>1. ConnectTypeOK'
    BY <1>8 DEF Promote, ConnectTypeOK
  <2> QED
    BY <1>8, <2>1 DEF Promote, ConnectTypeOK, LoginsAgree
<1>9. CASE UNCHANGED connectVars
  BY <1>9 DEF connectVars, ConnectTypeOK, LoginsAgree, ReadOnly
<1> QED BY <1>1, <1>2, <1>3, <1>4, <1>5, <1>6, <1>7, <1>8, <1>9 DEF ConnectNext

\* The logins of a pool agree, and a context that connect hands out was probed
\* on one of them, for as long as role and server stay as they were.
THEOREM ConnectInvariance == ConnectSpec => []ConnectInv
<1>1. ConnectInit => ConnectInv
  <2>1. Empty \in [Modes -> 0..MaxSessions]
    BY ConnectAssumption DEF Empty
  <2> QED BY <2>1 DEF ConnectInit, ConnectInv, ConnectTypeOK, LoginsAgree
<1>2. ConnectInv /\ [ConnectNext]_connectVars => ConnectInv'
  BY ConnectStep
<1> QED BY <1>1, <1>2, PTL DEF ConnectSpec

\* Every reachable state is well typed; no pool exceeds MAX_CONNECTIONS.
THEOREM ConnectTypeCorrect == ConnectSpec => []ConnectTypeOK
<1>1. ConnectInv => ConnectTypeOK  BY DEF ConnectInv
<1> QED BY <1>1, ConnectInvariance, PTL

\* The mode of the one session connect probed is the mode of all of them.
THEOREM ProbeIsEnough == ConnectSpec => []ProbeSpeaksForPool
<1>1. ConnectInv => ProbeSpeaksForPool
  BY DEF ConnectInv, LoginsAgree, ProbeSpeaksForPool
<1> QED BY <1>1, ConnectInvariance, PTL

\* Under one unchanging role a reader and a writer are never open together.
THEOREM KeptApart == ConnectSpec => []ReadersAndWritersApart
<1>1. ConnectInv => ReadersAndWritersApart
  BY ConnectAssumption DEF ConnectInv, LoginsAgree, ReadersAndWritersApart
<1> QED BY <1>1, ConnectInvariance, PTL
=============================================================================
