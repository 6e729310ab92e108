---------------------------- MODULE RequireSend ----------------------------
(***************************************************************************)
(* .ores-lint/require-send.mjs: the scanner for Rust, Dart and Gleam.  It  *)
(* reads tokens from left to right, keeps one map of pending variables for *)
(* every open brace, and reports a line when a chain without send() is     *)
(* neither kept in a variable nor handed over, or when the brace closes    *)
(* that a kept one was pending in.  Positions count from 1; a map is the   *)
(* sequence of its entries in the order of their insertion.                *)
(***************************************************************************)
EXTENDS SendProgram

Type(tokens, i) == IF i \in DOMAIN tokens THEN tokens[i].type ELSE "end"
Value(tokens, i) == IF i \in DOMAIN tokens THEN tokens[i].value ELSE ""

(***************************************************************************)
(* Suppression comments.                                                   *)
(***************************************************************************)
LinesNoted(p, notes) == {l \in DOMAIN p : p[l].note \in notes}

\* function collectSuppressions(source)
collectSuppressions(p) ==
    [file |-> LinesNoted(p, {"ores-file"}) # {},
     lines |-> LinesNoted(p, {"ores-line", "eslint-line"}),
     next |-> LinesNoted(p, {"ores-next", "eslint-next"})]

\* Mutant of isDisabled: a comment for the next line silences its own line.
isDisabledOwnLine(s, line) == s.file \/ line \in s.lines \/ line - 1 \in s.lines \/ line \in s.next

\* function isDisabled(suppressions, line)
isDisabled(s, line) == s.file \/ line \in s.lines \/ line - 1 \in s.lines \/ line - 1 \in s.next

(***************************************************************************)
(* Walks over the tokens.                                                  *)
(***************************************************************************)
Balance(tokens, start, i, open, close) ==
    Cardinality({k \in start .. i : tokens[k].type \in open})
      - Cardinality({k \in start .. i : tokens[k].type \in close})
Closing(tokens, start, open, close) ==
    {i \in start .. Len(tokens) : /\ tokens[i].type \in close
                                  /\ Cardinality({k \in start .. i : tokens[k].type \in open})
                                       = Cardinality({k \in start .. i : tokens[k].type \in close})}

\* function skipBalanced(tokens, start, open, close)
skipBalanced(tokens, start) == Min(Closing(tokens, start, {"lparen"}, {"rparen"}) \cup {Len(tokens)})

\* function qualifiedName(tokens, index): the names joined by dots that end at index.
qualifiedStart(tokens, index) ==
    Min({k \in 1 .. index : /\ (index - k) % 2 = 0
                            /\ \A j \in k .. index :
                                  tokens[j].type = IF (index - j) % 2 = 0 THEN "ident" ELSE "dot"} \cup {index})
qualifiedName(tokens, index) ==
    IF Type(tokens, index) # "ident" THEN << >>
    ELSE LET start == qualifiedStart(tokens, index)
         IN  [k \in 1 .. ((index - start) \div 2 + 1) |-> tokens[start + 2 * (k - 1)].value]

Opening == {"lparen", "lbracket", "lbrace"}
Shutting == {"rparen", "rbracket", "rbrace"}

\* function countTopLevelArgs(tokens, lparenIndex)
countTopLevelArgs(tokens, lparen) ==
    LET end == Min(Closing(tokens, lparen, Opening, Shutting) \cup {Len(tokens)})
        Top(i) == Balance(tokens, lparen, i, Opening, Shutting) = 1
        commas == {i \in lparen .. end : tokens[i].type = "comma" /\ Top(i)}
        seen == \E i \in lparen .. end :
                   tokens[i].type \notin Opening \cup Shutting \cup {"comma"} /\ Top(i)
    IN  IF Type(tokens, lparen) = "lparen" /\ seen THEN Cardinality(commas) + 1 ELSE 0

\* Where a call that starts after the name at i ends: its closing parenthesis, or i.
CallEnd(tokens, i) == IF Type(tokens, i + 1) = "lparen" THEN skipBalanced(tokens, i + 1) ELSE i

\* function walkMethodChain(tokens, start), from the root name that starts there.
walkMethodChain(tokens, start) ==
    LET Follows(i) == Type(tokens, i + 1) = "dot" /\ Type(tokens, i + 2) = "ident"
        Plainly(i) == /\ Follows(i) /\ Type(tokens, i + 3) # "lparen"
                      /\ Value(tokens, i + 2) \notin LEVEL \cup TERMINAL
        root[i \in 1 .. Len(tokens)] == IF Plainly(i) THEN root[i + 2] ELSE i
        rest[i \in 1 .. Len(tokens)] ==
            IF Follows(i)
            THEN LET more == rest[CallEnd(tokens, i + 2)]
                 IN  [methods |-> <<Value(tokens, i + 2)>> \o more.methods, end |-> more.end]
            ELSE [methods |-> << >>, end |-> i]
    IN  [root |-> qualifiedName(tokens, root[start]),
         firstArgCount |-> IF Type(tokens, root[start] + 3) = "lparen"
                           THEN countTopLevelArgs(tokens, root[start] + 3) ELSE 0]
        @@ rest[root[start]]

\* function walkGleamPipe(tokens, start): no methods when it returns null.
walkGleamPipe(tokens, start) ==
    LET name[i \in 1 .. Len(tokens)] ==
            IF Type(tokens, i + 1) = "dot" /\ Type(tokens, i + 2) = "ident" THEN name[i + 2] ELSE i
        rest[i \in 1 .. Len(tokens)] ==
            IF Type(tokens, i + 1) = "pipe" /\ Type(tokens, i + 2) = "ident"
            THEN LET step == name[i + 2]
                     more == rest[CallEnd(tokens, step)]
                 IN  [methods |-> <<Value(tokens, step)>> \o more.methods, end |-> more.end]
            ELSE [methods |-> << >>, end |-> i]
        callee == name[start]
        after == rest[CallEnd(tokens, callee)]
    IN  IF Type(tokens, callee + 1) = "lparen"
        THEN [methods |-> <<Value(tokens, callee)>> \o after.methods, end |-> after.end]
        ELSE IF Value(tokens, callee) \in TERMINAL /\ Type(tokens, qualifiedStart(tokens, start) - 1) = "pipe"
             THEN [methods |-> <<Value(tokens, callee)>>, end |-> callee]
             ELSE [methods |-> << >>, end |-> callee]

\* function precedingAssignment(tokens, start): << >> when there is none.
precedingAssignment(tokens, start) ==
    IF Type(tokens, start - 1) = "eq" /\ Type(tokens, start - 2) = "ident"
    THEN <<Value(tokens, start - 2)>> ELSE << >>

\* function isReturnish(tokens, start)
isReturnish(tokens, start) ==
    \/ Type(tokens, start - 1) = "arrow"
    \/ Type(tokens, start - 1) = "ident" /\ Value(tokens, start - 1) = "return"

\* function nextNonChainIsSemi(tokens, end)
nextNonChainIsSemi(tokens, end) == Type(tokens, end + 1) = "semi"

\* function looksLikeLogger(name): the last of the dotted names tells.
\* Of the names that only end in "logger" or "_log" the programs have none.
looksLikeLogger(name) ==
    name # << >> /\ Last(name) \in {"log", "logger", "ddlog", "telemetry", "audit", "self", "this"}

(***************************************************************************)
(* analyzeSource: the maps of pending variables and the findings.          *)
(***************************************************************************)
HasName(map, name) == \E k \in DOMAIN map : map[k].name = name

\* const mark: Map.set keeps the place of a name it already holds.
mark(stack, name, line) ==
    LET map == Last(stack)
        entry == [name |-> name, line |-> line]
        set == IF HasName(map, name)
               THEN [k \in DOMAIN map |-> IF map[k].name = name THEN entry ELSE map[k]]
               ELSE Append(map, entry)
    IN  IF name = << >> THEN stack ELSE Front(stack) \o <<set>>

\* Mutant of clear: only the innermost map is searched.
clearInnermost(stack, name) ==
    [stack EXCEPT ![Len(stack)] = SelectSeq(@, LAMBDA e : e.name # name)]

\* const clear: the innermost map that has the name loses it.
clear(stack, name) ==
    LET having == {k \in DOMAIN stack : HasName(stack[k], name)}
    IN  IF having = {} THEN stack
        ELSE [stack EXCEPT ![Max(having)] = SelectSeq(@, LAMBDA e : e.name # name)]

\* const report
report(suppressions, findings, line) ==
    IF isDisabled(suppressions, line) THEN findings ELSE Append(findings, line)

\* Mutant of flushScope: the entries of a closed map are dropped.
flushNothing(suppressions, findings, map) == findings

\* const flushScope
flushScope(suppressions, findings, map) ==
    FoldLeft(LAMBDA found, e : report(suppressions, found, e.line), findings, map)

\* `name.send(...)' and `send(name)'.
ClearTerminal(tokens, i, stack) ==
    LET method == IF Type(tokens, i - 1) = "dot" /\ Type(tokens, i - 2) = "ident"
                  THEN clear(stack, qualifiedName(tokens, i - 2)) ELSE stack
    IN  IF Type(tokens, i + 1) = "lparen" /\ Type(tokens, i + 2) = "ident"
        THEN clear(method, <<Value(tokens, i + 2)>>) ELSE method

\* The state of the loop over the tokens.
ScanStart == [i |-> 1, scopeStack |-> <<<< >>>>, findings |-> << >>]

\* What becomes of a chain that never reaches a terminal method: kept, handed over or reported.
Settle(tokens, suppressions, st, start, end, handed) ==
    LET name == precedingAssignment(tokens, start)
        line == tokens[start].line
    IN  IF name # << >> THEN [st EXCEPT !.scopeStack = mark(@, name, line), !.i = end + 1]
        ELSE IF handed \/ isReturnish(tokens, start) \/ Type(tokens, start - 1) \in {"lparen", "comma"}
             THEN [st EXCEPT !.i = end + 1]
             ELSE [st EXCEPT !.findings = report(suppressions, @, line), !.i = end + 1]

Past(st, end) == [st EXCEPT !.i = end + 1]

\* The branch for Gleam: `info(...) |> ... |> send'.
GleamCall(tokens, suppressions, st) ==
    LET i == st.i
        start == qualifiedStart(tokens, i)
        pipe == walkGleamPipe(tokens, start)
        skip == \/ Value(tokens, i) \notin LEVEL
                \/ Type(tokens, i - 1) = "ident" /\ Value(tokens, i - 1) = "fn"
                \/ Type(tokens, i + 1) # "lparen" /\ Type(tokens, start - 1) # "pipe"
    IN  IF skip THEN Past(st, i)
        ELSE IF ~ \E m \in Range(pipe.methods) : m \in LEVEL THEN Past(st, i)
        ELSE IF \E m \in Range(pipe.methods) : m \in TERMINAL THEN Past(st, pipe.end)
        ELSE Settle(tokens, suppressions, st, start, pipe.end, Type(tokens, pipe.end + 1) = "rbrace")

\* Mutant of MethodChain: a Rust tail expression is not told from a statement.
MethodChainNoTail(tokens, language, suppressions, st) ==
    LET i == st.i
        start == qualifiedStart(tokens, i - 2)
        chain == walkMethodChain(tokens, start)
    IN  IF ~ (Value(tokens, i) \in LEVEL /\ Type(tokens, i - 1) = "dot" /\ Type(tokens, i + 1) = "lparen") THEN Past(st, i)
        ELSE IF Type(tokens, i - 2) # "ident" \/ ~ looksLikeLogger(chain.root) THEN Past(st, i)
        ELSE IF \E m \in Range(chain.methods) : m \in TERMINAL THEN Past(st, chain.end)
        ELSE IF Len(chain.methods) = 1 /\ chain.firstArgCount >= 3 THEN Past(st, chain.end)
        ELSE Settle(tokens, suppressions, st, start, chain.end, FALSE)

\* The branch for Rust and Dart: `root.info(...)...'.
MethodChain(tokens, language, suppressions, st) ==
    LET i == st.i
        start == qualifiedStart(tokens, i - 2)
        chain == walkMethodChain(tokens, start)
    IN  IF ~ (Value(tokens, i) \in LEVEL /\ Type(tokens, i - 1) = "dot" /\ Type(tokens, i + 1) = "lparen") THEN Past(st, i)
        ELSE IF Type(tokens, i - 2) # "ident" \/ ~ looksLikeLogger(chain.root) THEN Past(st, i)
        ELSE IF ~ \E m \in Range(chain.methods) : m \in LEVEL THEN Past(st, i)
        ELSE IF \E m \in Range(chain.methods) : m \in TERMINAL THEN Past(st, chain.end)
        ELSE IF Len(chain.methods) = 1 /\ chain.firstArgCount >= 3 THEN Past(st, chain.end)
        ELSE Settle(tokens, suppressions, st, start, chain.end,
                    language = "rust" /\ ~ nextNonChainIsSemi(tokens, chain.end))

\* One turn of the loop of analyzeSource, on the token at st.i.
ScanToken(tokens, language, suppressions, st) ==
    LET type == tokens[st.i].type
        opened == [st EXCEPT !.scopeStack = Append(@, << >>), !.i = @ + 1]
        closed == [st EXCEPT !.findings = flushScope(suppressions, @, Last(st.scopeStack)),
                             !.scopeStack = Front(@), !.i = @ + 1]
        used == IF type = "ident" /\ tokens[st.i].value \in TERMINAL
                THEN [st EXCEPT !.scopeStack = ClearTerminal(tokens, st.i, @)] ELSE st
    IN  CASE type = "lbrace" -> opened
          [] type = "rbrace" -> IF Len(st.scopeStack) > 1 THEN closed ELSE Past(st, st.i)
          [] type = "ident" -> IF language = "gleam" THEN GleamCall(tokens, suppressions, used)
                               ELSE MethodChain(tokens, language, suppressions, used)
          [] OTHER -> Past(st, st.i)

\* The loop after the last token: the innermost map left is reported and popped.
ScanRest(suppressions, st) ==
    [st EXCEPT !.findings = flushScope(suppressions, @, Last(st.scopeStack)), !.scopeStack = Front(@)]
=============================================================================
