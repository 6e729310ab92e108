-------------------------- MODULE RequireSendRule --------------------------
(***************************************************************************)
(* .ores-lint/eslint/plugin.mjs: the rule ores/require-send.  ESLint calls *)
(* a handler of the rule for every node of the syntax tree, a node before  *)
(* its children; the rule keeps one map of pending variables for every     *)
(* open function, and the names it knows to be loggers, factories or       *)
(* classes.  Here a statement is the sequence of handler calls it causes,  *)
(* and a handler call takes the state of the rule to its next state.       *)
(***************************************************************************)
EXTENDS SendProgram

(***************************************************************************)
(* Expressions: a name, `new C()', or a call: callee.m1(..).m2(..) where   *)
(* the methods may be none (`use(e)') and `args' are the plain names among *)
(* the arguments of the outermost call.                                    *)
(***************************************************************************)
Expr(kind, root, methods, args) == [kind |-> kind, root |-> root, methods |-> methods, args |-> args]
CallOf(chain) == Expr("call", chain.root, chain.methods, {})
NameOf(v) == Expr("name", <<v>>, << >>, {})
Nothing == Expr("none", << >>, << >>, {})

\* function getQualifiedName(node): << >> for what has no name.
getQualifiedName(e) == IF e.kind = "name" THEN e.root ELSE << >>

\* function collectCallChain(node, methods): its root; the methods are those of the call.
collectCallChain(e) == IF e.kind \in {"call", "name"} THEN e.root ELSE << >>

\* function inspectChain(node, ...)
inspectChain(e, loggers) ==
    LET levelIndex == LevelIndex(e.methods)
        reached == levelIndex <= Len(e.methods)
    IN  [root |-> collectCallChain(e),
         delivered |-> reached /\ TerminalAfter(e.methods, levelIndex),
         isEvent |-> collectCallChain(e) \in loggers /\ reached]
Undelivered(e, st) == LET c == inspectChain(e, st.loggers) IN c.isEvent /\ ~ c.delivered

(***************************************************************************)
(* The state of the rule and its helpers.                                  *)
(***************************************************************************)
LOGGER_EXPORTS == {"logger"}
FACTORY_EXPORTS == {"createLogger"}
CLASS_EXPORTS == {"NodeLogger"}

RuleStart == [next |-> 1, scopes |-> << >>, loggers |-> {<<"log">>, <<"logger">>, <<"ddlog">>},
              factories |-> {}, classes |-> {}, reports |-> << >>]

enterScope(st) == [st EXCEPT !.scopes = Append(@, << >>)]

ReportNode(st, line) == [st EXCEPT !.reports = Append(@, line)]

\* Mutant of exitScope: what was pending in the scope is forgotten.
exitScopeSilent(st) == [st EXCEPT !.scopes = Front(@)]
\* Mutant of exitScope: the scope is read but stays on the stack.
exitScopePeeks(st) == FoldLeft(LAMBDA s, e : ReportNode(s, e.line), st, Last(st.scopes))

exitScope(st) ==
    FoldLeft(LAMBDA s, e : ReportNode(s, e.line), [st EXCEPT !.scopes = Front(@)], Last(st.scopes))

HasPending(map, name) == \E k \in DOMAIN map : map[k].name = name

markPending(st, name, line) ==
    LET map == Last(st.scopes)
        entry == [name |-> name, line |-> line]
        set == IF HasPending(map, name)
               THEN [k \in DOMAIN map |-> IF map[k].name = name THEN entry ELSE map[k]]
               ELSE Append(map, entry)
    IN  [st EXCEPT !.scopes[Len(st.scopes)] = set]

isPending(st, name) == \E k \in DOMAIN st.scopes : HasPending(st.scopes[k], name)

\* Mutant of clearPending: the outermost function that has the name loses it.
clearOutermost(st, name) ==
    LET having == {k \in DOMAIN st.scopes : HasPending(st.scopes[k], name)}
    IN  IF having = {} THEN st
        ELSE [st EXCEPT !.scopes[Min(having)] = SelectSeq(@, LAMBDA e : e.name # name)]

clearPending(st, name) ==
    LET having == {k \in DOMAIN st.scopes : HasPending(st.scopes[k], name)}
    IN  IF having = {} THEN st
        ELSE [st EXCEPT !.scopes[Max(having)] = SelectSeq(@, LAMBDA e : e.name # name)]

\* const isLoggerProducer
isLoggerProducer(st, e) ==
    \/ getQualifiedName(e) \in st.loggers
    \/ e.kind = "new" /\ e.root \in st.classes
    \/ e.kind = "call" /\ e.methods = << >> /\ e.root \in st.factories
    \/ e.kind = "call" /\ e.methods = <<"anew">> /\ e.root \in st.loggers

\* const consumeTerminalUse
consumeTerminalUse(st, e) ==
    LET sent == IF \E m \in Range(e.methods) : m \in TERMINAL
                THEN clearPending(st, collectCallChain(e)) ELSE st
    IN  IF e.kind = "call"
        THEN FoldSet(LAMBDA v, s : clearPending(s, <<v>>), sent, e.args) ELSE sent

(***************************************************************************)
(* The handlers.                                                           *)
(***************************************************************************)
Learn(st, name, e) == IF isLoggerProducer(st, e) THEN [st EXCEPT !.loggers = @ \cup {name}] ELSE st

\* Mutant of ImportDeclaration: the module is not looked at.
ImportAnyModule(st, v, module, what) ==
    [st EXCEPT !.loggers = @ \cup (IF what \in LOGGER_EXPORTS \cup {"default"} THEN {<<v>>} ELSE {})]
\* Mutant of ImportDeclaration: a namespace import is passed over.
ImportNoNamespace(st, v, module, what) ==
    LET Local(exports) == IF what \in exports THEN {<<v>>} ELSE {}
    IN  IF module # Loggers THEN st
        ELSE [st EXCEPT !.loggers = @ \cup Local(LOGGER_EXPORTS \cup {"default"}),
                        !.factories = @ \cup Local(FACTORY_EXPORTS), !.classes = @ \cup Local(CLASS_EXPORTS)]

ImportDeclaration(st, v, module, what) ==
    LET Local(exports) == IF what \in exports THEN {<<v>>}
                          ELSE IF what = "*" THEN {<<v, x>> : x \in exports} ELSE {}
    IN  IF module # Loggers THEN st
        ELSE [st EXCEPT !.loggers = @ \cup Local(LOGGER_EXPORTS) \cup (IF what = "default" THEN {<<v>>} ELSE {}),
                        !.factories = @ \cup Local(FACTORY_EXPORTS),
                        !.classes = @ \cup Local(CLASS_EXPORTS)]

VariableDeclarator(st, name, e, line) ==
    LET known == Learn(st, name, e)
    IN  IF Undelivered(e, known) THEN markPending(known, name, line) ELSE known

AssignmentExpression(st, name, e, line) ==
    LET known == Learn(st, name, e)
    IN  IF Undelivered(e, known) THEN markPending(known, name, line)
        ELSE consumeTerminalUse(known, e)

ReturnStatement(st, e) ==
    IF isPending(st, getQualifiedName(e)) THEN clearPending(st, getQualifiedName(e))
    ELSE IF Undelivered(e, st) THEN st ELSE consumeTerminalUse(st, e)

CallExpression(st, e) == consumeTerminalUse(st, e)

ArrowFunctionExpression(st, body) ==
    LET st2 == enterScope(st)
    IN  IF isPending(st2, getQualifiedName(body)) THEN clearPending(st2, getQualifiedName(body)) ELSE st2

ExpressionStatement(st, e, line) ==
    IF Undelivered(e, st) THEN ReportNode(st, line) ELSE consumeTerminalUse(st, e)

(***************************************************************************)
(* ESLint's traversal (external): the handler calls of one statement.      *)
(***************************************************************************)
Visit(handler, name, e) == [handler |-> handler, name |-> name, e |-> e]

\* A chain of calls nests: the outermost call is visited first.
Calls(e) ==
    IF e.kind # "call" THEN << >>
    ELSE IF e.methods = << >> THEN <<Visit("CallExpression", << >>, e)>>
    ELSE [k \in DOMAIN e.methods |->
            Visit("CallExpression", << >>,
                  Expr("call", e.root, SubSeq(e.methods, 1, Len(e.methods) - k + 1), {}))]

MadeBy(s) == CASE s.op = "loggerCall" -> Expr("call", s.chain.root, << >>, {})
               [] s.op = "loggerNew" -> Expr("new", s.chain.root, << >>, {})
               [] s.op = "loggerAnew" -> Expr("call", s.chain.root, <<"anew">>, {})
               [] s.op = "loggerAlias" -> Expr("name", s.chain.root, << >>, {})

Statement(e) == <<Visit("ExpressionStatement", << >>, e)>>

Visits(p, l) ==
    LET s == p[l]
        made == CallOf(s.chain)
        Uses(f) == Expr("call", <<f>>, << >>, {s.v})
        send == Expr("call", <<s.v>>, <<"send">>, {})
    IN  CASE s.op = "function" -> <<Visit("enter", << >>, Nothing)>>
          [] s.op = "close" ->
                \* The line closed is the innermost open one before it.
                IF p[Block(p, l)].op = "function" THEN <<Visit("exit", << >>, Nothing)>> ELSE << >>
          [] s.op \in {"block", "labelled"} -> << >>
          [] s.op = "declare" -> <<Visit("VariableDeclarator", <<s.v>>, made)>> \o Calls(made)
          [] s.op = "assign" -> Statement(Nothing) \o <<Visit("AssignmentExpression", <<s.v>>, made)>> \o Calls(made)
          [] s.op = "expr" -> Statement(made) \o Calls(made)
          [] s.op \in {"return", "tail"} -> <<Visit("ReturnStatement", << >>, made)>> \o Calls(made)
          [] s.op = "passChain" -> LET use == Expr("call", <<"use">>, << >>, {})
                                   IN  Statement(use) \o Calls(use) \o Calls(made)
          [] s.op = "send" -> Statement(send) \o Calls(send)
          [] s.op = "sendCall" -> Statement(Uses("send")) \o Calls(Uses("send"))
          [] s.op = "pass" -> Statement(Uses("use")) \o Calls(Uses("use"))
          [] s.op = "returnVar" -> <<Visit("ReturnStatement", << >>, NameOf(s.v))>>
          [] s.op = "arrow" -> Statement(Nothing)
                                 \o <<Visit("ArrowFunctionExpression", << >>, NameOf(s.v)), Visit("exit", << >>, Nothing)>>
          [] s.op \in LoggerOps -> <<Visit("VariableDeclarator", <<s.v>>, MadeBy(s))>> \o Calls(MadeBy(s))
          [] s.op = "import" -> <<Visit("ImportDeclaration", <<s.v>>, Expr("import", s.chain.root, << >>, {}))>>

\* The whole file: Program() enters a scope before the first statement and leaves it after the last.
Traversal(p) ==
    <<Visit("enter", << >>, Nothing) @@ [line |-> 0]>>
      \o FlattenSeq([l \in DOMAIN p |-> [k \in DOMAIN Visits(p, l) |-> Visits(p, l)[k] @@ [line |-> l]]])
      \o <<Visit("exit", << >>, Nothing) @@ [line |-> 0]>>

\* One handler call.
RunHandler(st, x) ==
    LET after == CASE x.handler = "enter" -> enterScope(st)
                   [] x.handler = "exit" -> exitScope(st)
                   [] x.handler = "ArrowFunctionExpression" -> ArrowFunctionExpression(st, x.e)
                   [] x.handler = "ImportDeclaration" -> ImportDeclaration(st, x.name[1], x.e.root[1], x.e.root[2])
                   [] x.handler = "VariableDeclarator" -> VariableDeclarator(st, x.name, x.e, x.line)
                   [] x.handler = "AssignmentExpression" -> AssignmentExpression(st, x.name, x.e, x.line)
                   [] x.handler = "ReturnStatement" -> ReturnStatement(st, x.e)
                   [] x.handler = "CallExpression" -> CallExpression(st, x.e)
                   [] x.handler = "ExpressionStatement" -> ExpressionStatement(st, x.e, x.line)
    IN  [after EXCEPT !.next = @ + 1]
=============================================================================
