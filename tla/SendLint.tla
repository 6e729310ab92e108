------------------------------ MODULE SendLint ------------------------------
(***************************************************************************)
(* One file, written line by line and then linted: by the token scanner of *)
(* require-send.mjs, as a Rust, Dart or Gleam file, and by the ESLint rule *)
(* ores/require-send, as its TypeScript counterpart.  Each linter runs to  *)
(* its end; the findings are compared with the events that really are      *)
(* lost (SendProgram!Lost).                                                *)
(***************************************************************************)
EXTENDS RequireSend, RequireSendRule

\* Kits: name -> what files are written from, in which languages, up to which length, and which
\* of the two linters read them.
CONSTANT Kits

ASSUME SendLintAssumption ==
    \A k \in DOMAIN Kits :
        /\ Kits[k].languages \subseteq {"rust", "dart", "gleam"}
        /\ Kits[k].linters \subseteq {"scanner", "rule"}
        /\ Kits[k].maxStatements \in Nat

VARIABLES
    kit,            \* the kit in use
    language,       \* what the file is written in
    program,        \* the file
    phase,          \* "write", "scan", "visit" or "done"
    tokens,         \* const tokens and const suppressions of analyzeSource
    suppressions,
    scan,           \* its loop: position, scopeStack, findings
    visits,         \* the handler calls ESLint makes
    rule            \* the rule: next visit, scopes, known names, reports

vars == <<kit, language, program, phase, tokens, suppressions, scan, visits, rule>>

Linters == Kits[kit].linters

Init ==
    /\ kit \in DOMAIN Kits /\ language \in Kits[kit].languages
    /\ program = << >>
    /\ phase = "write"
    /\ tokens = << >> /\ suppressions = collectSuppressions(<< >>) /\ scan = ScanStart
    /\ visits = << >> /\ rule = RuleStart

\* The author adds a line.
Write(s) ==
    /\ phase = "write" /\ Len(program) < Kits[kit].maxStatements
    /\ Accepts(program, s) /\ Speaks(language, program, s)
    /\ program' = Append(program, s)
    /\ UNCHANGED <<kit, language, phase, tokens, suppressions, scan, visits, rule>>

\* The file is saved: the scanner collects the comments and cuts the file into tokens.
StartScan ==
    /\ phase = "write" /\ Complete(program) /\ program # << >> /\ "scanner" \in Linters
    /\ phase' = "scan"
    /\ suppressions' = collectSuppressions(program)
    /\ tokens' = tokenize(program, language)
    /\ UNCHANGED <<kit, language, program, scan, visits, rule>>

\* analyzeSource: one turn of the loop over the tokens.
Scan ==
    /\ phase = "scan" /\ scan.i <= Len(tokens)
    /\ scan' = ScanToken(tokens, language, suppressions, scan)
    /\ UNCHANGED <<kit, language, program, phase, tokens, suppressions, visits, rule>>

\* analyzeSource: one turn of the loop that empties the stack.
Rest ==
    /\ phase = "scan" /\ scan.i > Len(tokens) /\ scan.scopeStack # << >>
    /\ scan' = ScanRest(suppressions, scan)
    /\ UNCHANGED <<kit, language, program, phase, tokens, suppressions, visits, rule>>

Scanned == phase = "scan" /\ scan.i > Len(tokens) /\ scan.scopeStack = << >>

\* ESLint parses the TypeScript counterpart of the file.
StartVisit ==
    /\ "rule" \in Linters
    /\ IF "scanner" \in Linters THEN Scanned
       ELSE phase = "write" /\ Complete(program) /\ program # << >>
    /\ phase' = "visit"
    /\ visits' = Traversal(program)
    /\ UNCHANGED <<kit, language, program, tokens, suppressions, scan, rule>>

\* ESLint calls the rule's next handler.
VisitNode ==
    /\ phase = "visit" /\ rule.next <= Len(visits)
    /\ rule' = RunHandler(rule, visits[rule.next])
    /\ UNCHANGED <<kit, language, program, phase, tokens, suppressions, scan, visits>>

Visited == phase = "visit" /\ rule.next > Len(visits)

\* The findings are printed.
Finish ==
    /\ IF "rule" \in Linters THEN Visited ELSE Scanned
    /\ phase' = "done"
    /\ UNCHANGED <<kit, language, program, tokens, suppressions, scan, visits, rule>>

Next == \/ \E s \in Kits[kit].menu : Write(s)
        \/ StartScan \/ Scan \/ Rest \/ StartVisit \/ VisitNode \/ Finish

Spec == Init /\ [][Next]_vars
-----------------------------------------------------------------------------
Found == ToSet(scan.findings)
Reported == ToSet(rule.reports)
ScannerDone == phase = "done" /\ "scanner" \in Linters
RuleDone == phase = "done" /\ "rule" \in Linters

\* Another line binds a variable of the name that the event of line l is kept under.
SharesName(p, l) == \E k \in DOMAIN p \ {l} : Binds(p, k) /\ p[k].v = p[l].v

\* A later line binds another variable of that name.
Shadowed(p, l) == \E k \in DOMAIN p : /\ k > l /\ Binds(p, k) /\ p[k].v = p[l].v
                                      /\ DeclOf(p, k, p[k].v) # DeclOf(p, l, p[l].v)

\* The event is kept by an assignment inside a block or a function, and delivered after its end.
LeavesBlock(p, l) == \A k \in UsedOn(p, l, UseOps) : Block(p, l) \notin Enclosing(p, k) \cup {0}
LeavesFunction(p, l) == \A k \in UsedOn(p, l, UseOps) : Function(p, l) \notin Enclosing(p, k) \cup {0}

\* Comments that name the line: at its own end, or at the end of the line before.
CommentedOut(p, l) == \/ \E k \in DOMAIN p : p[k].note = "ores-file"
                      \/ \E k \in {l - 1, l} \cap DOMAIN p : p[k].note \in {"ores-line", "eslint-line"}
                      \/ l - 1 \in DOMAIN p /\ p[l - 1].note \in {"ores-next", "eslint-next"}

\* The scanner overlooks a lost event only where another line binds the same name, or where
\* the level method is not the first of its chain; otherwise a comment must ask for silence.
\* (The maps of analyzeSource are keyed by bare names: mark, clear and flushScope, :305-312.)
ScannerMisses ==
    ScannerDone => \A l \in Lost(program) \ Found :
        CommentedOut(program, l) \/ SharesName(program, l) \/ program[l].chain.methods[1] \notin LEVEL

\* The scanner blames a delivered event only where the variable itself was handed over, was
\* assigned in a block that ended first or was piped into send, or where a label hid a brace; and it never blames a line that a comment silences.
ScannerAlarms ==
    ScannerDone => \A l \in Found :
        /\ ~ CommentedOut(program, l)
        /\ \/ l \in Lost(program)
           \/ Builds(program, l) /\ Binds(program, l) /\
                 \/ HandedOver(program, l)
                 \/ LeavesBlock(program, l)
                 \/ language = "gleam" /\ \E k \in UsedOn(program, l, UseOps) : program[k].op = "send"
                 \/ \E k \in DOMAIN program : program[k].op = "labelled"

\* The scanner's findings are the lost events up to those exceptions, each reported once, and no map
\* is left open at the end of the file (analyzeSource, :297-401).
ScannerExact ==
    /\ ScannerMisses /\ ScannerAlarms
    /\ ScannerDone => IsInjective(scan.findings) /\ scan.scopeStack = << >>

\* The rule overlooks a lost event only where another line binds the same name.
RuleMisses ==
    RuleDone => \A l \in Lost(program) \ Reported : SharesName(program, l)

\* The root of line l's chain has the name of a logger that another function declares.
NamedLikeLogger(p, l) ==
    \E k \in DOMAIN p : /\ p[k].op \in LoggerOps /\ p[k].v = p[l].chain.root[1]
                        /\ k # DeclOf(p, l, p[k].v)

\* The rule blames a delivered event only where it was assigned in a function that ended first,
\* or where a later variable has its name; and what builds no event only where its root has the name of a logger
\* that another function declares (knownLoggers has no scopes, :131).
RuleAlarms ==
    RuleDone => \A l \in Reported \ Lost(program) :
        \/ ~ Builds(program, l) /\ NamedLikeLogger(program, l)
        \/ Binds(program, l) /\ (LeavesFunction(program, l) \/ Shadowed(program, l))

\* The rule's reports are the lost events up to those exceptions, each reported once, and no scope
\* is left open at the end of the file (plugin.mjs, create, :127-289).
RuleExact ==
    /\ RuleMisses /\ RuleAlarms
    /\ RuleDone => IsInjective(rule.reports) /\ rule.scopes = << >>

\* "a logging chain that reaches a level method must end in a terminal call" (plugin.mjs:8): a
\* chain that does not, in a file where no variable is bound twice in one function, is reported.
RuleCatchesLost ==
    RuleDone => \A l \in Lost(program) \ Reported :
        \E k \in DOMAIN program \ {l} : /\ Binds(program, k) /\ program[k].v = program[l].v
                                         /\ Function(program, k) = Function(program, l)
=============================================================================
