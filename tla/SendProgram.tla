---------------------------- MODULE SendProgram ----------------------------
(***************************************************************************)
(* The programs the two require-send linters read, and what is true of     *)
(* them.  A program is a sequence of statements, one per source line; a    *)
(* statement opens or closes a block or a function, builds a log event     *)
(* with a chain of calls, or uses a variable that holds one.  The module   *)
(* says which programs a compiler accepts, which tokens and which syntax   *)
(* tree visits a statement becomes, and which events are never delivered.  *)
(*                                                                         *)
(* The logging library is not part of this repository: what its methods do *)
(* is taken from how the linters speak of it.  Text inside strings and     *)
(* arguments is not distinguished.                                         *)
(***************************************************************************)
EXTENDS Integers, Sequences, FiniteSets, TLC, SequencesExt, FiniteSetsExt

\* const LEVEL and const TERMINAL.
LEVEL == {"trace", "debug", "info", "log", "warn", "error", "fatal"}
TERMINAL == {"send", "send_with_store"}

(***************************************************************************)
(* Statements.  `op' is the form, `v' the variable it declares, assigns or *)
(* uses, `chain' the call chain it holds and `note' the linter comment at  *)
(* the end of its line.                                                    *)
(***************************************************************************)
NoChain == [root |-> << >>, methods |-> << >>, args |-> 0]
Chain(root, methods) == [root |-> root, methods |-> methods, args |-> 1]
EmitChain(root, method) == [root |-> root, methods |-> <<method>>, args |-> 3]

Plain(op) == [op |-> op, v |-> "", chain |-> NoChain, note |-> "none"]
On(op, v) == [Plain(op) EXCEPT !.v = v]
Build(op, v, chain) == [On(op, v) EXCEPT !.chain = chain]
Noted(s, note) == [s EXCEPT !.note = note]

\* The logging library, and what an import takes from it: its default export, all of it, or a name.
Loggers == "@oresoftware/next-loggers"
Import(v, module, what) == Build("import", v, Chain(<<module, what>>, << >>))

Openers == {"block", "labelled", "function"}
BuildOps == {"declare", "assign", "expr", "return", "tail", "passChain"}
LoggerOps == {"loggerCall", "loggerNew", "loggerAnew", "loggerAlias"}
DeclareOps == {"declare", "import"} \cup LoggerOps
BindOps == DeclareOps \cup {"assign"}
UseOps == {"send", "sendCall", "pass", "returnVar", "arrow"}
HandOffOps == {"pass", "returnVar", "arrow"}
LastOps == {"return", "returnVar", "tail"}

\* The line that opened the innermost block still open after line l; 0 is the file.
DepthAt(p, l) == Cardinality({k \in 1 .. l : p[k].op \in Openers})
                   - Cardinality({k \in 1 .. l : p[k].op = "close"})
Enclosing(p, l) ==
    {k \in 1 .. (l - 1) : /\ p[k].op \in Openers
                          /\ \A j \in k .. (l - 1) : DepthAt(p, j) >= DepthAt(p, k)}
Block(p, l) == Max(Enclosing(p, l) \cup {0})
Function(p, l) == Max({k \in Enclosing(p, l) : p[k].op = "function"} \cup {0})

\* The declaration that a use of v on line l refers to; 0 when there is none.
DeclOf(p, l, v) ==
    Max({d \in 1 .. l : /\ p[d].op \in DeclareOps /\ p[d].v = v
                        /\ Block(p, d) \in Enclosing(p, l) \cup {0}} \cup {0})

\* The compiler accepts s as the next line of p.
Accepts(p, s) ==
    LET q == Append(p, s)
        l == Len(q)
    IN  /\ (p # << >> /\ Last(p).op \in LastOps) => s.op = "close"
        /\ s.op = "close" => DepthAt(p, Len(p)) > 0
        /\ s.op \in LastOps => Function(q, l) # 0 /\ Block(q, l) = Function(q, l)
        /\ s.op \in UseOps \cup {"assign"} => DeclOf(q, l, s.v) # 0
        /\ s.op \in LoggerOps \cup {"import"} =>
              \A k \in DOMAIN p : p[k].op \in DeclareOps /\ p[k].v = s.v => Block(p, k) # Block(q, l)
        /\ s.op = "import" => Block(q, l) = 0

\* s is a statement of the language.  The last expression of a block is its value in Gleam, and
\* labels start with a quote in Rust.
Speaks(language, p, s) ==
    /\ language = "rust" => s.op # "arrow"
    /\ language = "dart" => s.op \notin {"tail", "labelled"}
    /\ language = "gleam" =>
          /\ s.op \notin {"return", "returnVar", "arrow", "assign", "labelled"}
          /\ s.chain.root \in {<< >>, <<"logger">>} /\ s.chain.args <= 1
          /\ s.op = "close" => Last(p).op # "expr"

\* A whole file: every block is closed and no tail expression is left hanging.
Complete(p) == DepthAt(p, Len(p)) = 0

(***************************************************************************)
(* What is true of a program.  Every function runs once, where it is       *)
(* written.  A chain of a logger that reaches a level method builds an     *)
(* event, unless it goes on to a terminal method or is the convenience     *)
(* form of three arguments, which sends by itself.                         *)
(***************************************************************************)
Ambient == {<<"logger">>, <<"self", "logger">>}
Imported(p, l, v, what) ==
    LET d == DeclOf(p, l, v) IN d # 0 /\ p[d].op = "import" /\ p[d].chain.root = <<Loggers, what>>
Exports(p, l, name, what) == \/ Len(name) = 1 /\ Imported(p, l, name[1], what)
                             \/ Len(name) = 2 /\ Imported(p, l, name[1], "*") /\ name[2] = what

\* The name is a logger on line l: the ambient one, one the library exports, or one made from those.
IsLogger(p, l, name) ==
    LET made[d \in DOMAIN p] ==
            LET from == p[d].chain.root
            IN  CASE p[d].op = "loggerCall" -> Exports(p, d, from, "createLogger")
                  [] p[d].op = "loggerNew" -> Exports(p, d, from, "NodeLogger")
                  [] p[d].op \in {"loggerAnew", "loggerAlias"} ->
                        LET f == DeclOf(p, d - 1, from[1])
                        IN  IF f = 0 THEN from \in Ambient ELSE made[f] \/ Exports(p, d, from, "logger")
                  [] OTHER -> p[d].op = "import" /\ p[d].chain.root = <<Loggers, "default">>
        d == DeclOf(p, l, name[1])
    IN  IF d = 0 THEN name \in Ambient ELSE made[d] \/ Exports(p, l, name, "logger")

LevelIndex(methods) == Min({k \in DOMAIN methods : methods[k] \in LEVEL} \cup {Len(methods) + 1})
TerminalAfter(methods, k) == \E j \in (k + 1) .. Len(methods) : methods[j] \in TERMINAL
Builds(p, l) ==
    LET c == p[l].chain
    IN  /\ p[l].op \in BuildOps
        /\ LevelIndex(c.methods) <= Len(c.methods)
        /\ ~ TerminalAfter(c.methods, LevelIndex(c.methods))
        /\ ~ (Len(c.methods) = 1 /\ c.args >= 3)
        /\ IsLogger(p, l, c.root)

Binds(p, l) == p[l].op \in {"declare", "assign"}
\* The event of line l is still what its variable holds on line k.
Holds(p, l, k) ==
    LET d == DeclOf(p, l, p[l].v)
    IN  /\ DeclOf(p, k, p[l].v) = d
        /\ \A j \in (l + 1) .. (k - 1) : ~ (Binds(p, j) /\ DeclOf(p, j, p[j].v) = d /\ p[j].v = p[l].v)
UsedOn(p, l, ops) ==
    {k \in (l + 1) .. Len(p) : p[k].op \in ops /\ p[k].v = p[l].v /\ Holds(p, l, k)}

HandedOver(p, l) == \/ p[l].op \in {"return", "tail", "passChain"}
                    \/ Binds(p, l) /\ UsedOn(p, l, HandOffOps) # {}
Delivered(p, l) == Binds(p, l) /\ UsedOn(p, l, {"send", "sendCall"}) # {}

\* The lines whose event nobody sends and nobody else is given.
Lost(p) == {l \in DOMAIN p : Builds(p, l) /\ ~ Delivered(p, l) /\ ~ HandedOver(p, l)}

(***************************************************************************)
(* The text of a statement, as the tokens require-send.mjs cuts it into.   *)
(* A quote opens a string that ends at the next quote or at the end of the *)
(* line, so that of a Rust block with a label ('outer: loop {) one string  *)
(* token is left, its brace included.  Comments leave no token.            *)
(***************************************************************************)
Tok(type, value) == [type |-> type, value |-> value]
Id(name) == Tok("ident", name)
Sym(type) == Tok(type, "")
Dotted(names) == FlattenSeq([k \in DOMAIN names |->
                     IF k = 1 THEN <<Id(names[k])>> ELSE <<Sym("dot"), Id(names[k])>>])
Args(n) == <<Sym("lparen")>> \o FlattenSeq([k \in 1 .. n |->
               IF k = 1 THEN <<Sym("string")>> ELSE <<Sym("comma"), Sym("string")>>]) \o <<Sym("rparen")>>

\* root.info(..).tag(..) in Rust and Dart; root.info(..) |> tag(..) in Gleam.
ChainText(c, language) ==
    IF language = "gleam"
    THEN FlattenSeq([k \in DOMAIN c.methods |->
             (IF k = 1 THEN Dotted(c.root) \o <<Sym("dot")>> ELSE <<Sym("pipe")>>) \o <<Id(c.methods[k])>> \o Args(c.args)])
    ELSE Dotted(c.root) \o FlattenSeq([k \in DOMAIN c.methods |->
             <<Sym("dot"), Id(c.methods[k])>> \o Args(IF k = 1 THEN c.args ELSE 1)])

Text(s, language) ==
    LET end == IF language = "gleam" THEN << >> ELSE <<Sym("semi")>>
        chain == ChainText(s.chain, language)
    IN  CASE s.op = "block"     -> <<Sym("lbrace")>>
          [] s.op = "labelled"  -> <<Sym("string")>>
          [] s.op = "function"  -> <<Id("fn"), Id("run")>> \o Args(0) \o <<Sym("lbrace")>>
          [] s.op = "close"     -> <<Sym("rbrace")>>
          [] s.op = "declare"   -> <<Id("let"), Id(s.v), Sym("eq")>> \o chain \o end
          [] s.op = "assign"    -> <<Id(s.v), Sym("eq")>> \o chain \o end
          [] s.op = "expr"      -> chain \o end
          [] s.op = "return"    -> <<Id("return")>> \o chain \o end
          [] s.op = "tail"      -> chain
          [] s.op = "passChain" -> <<Id("use"), Sym("lparen")>> \o chain \o <<Sym("rparen")>> \o end
          [] s.op = "send"      -> (IF language = "gleam"
                                    THEN <<Id(s.v), Sym("pipe"), Id("send")>>
                                    ELSE <<Id(s.v), Sym("dot"), Id("send")>> \o Args(0)) \o end
          [] s.op = "sendCall"  -> <<Id("send"), Sym("lparen"), Id(s.v), Sym("rparen")>> \o end
          [] s.op = "pass"      -> <<Id("use"), Sym("lparen"), Id(s.v), Sym("rparen")>> \o end
          [] s.op = "returnVar" -> <<Id("return"), Id(s.v)>> \o end
          [] s.op = "arrow"     -> <<Sym("lparen"), Sym("rparen"), Sym("arrow"), Id(s.v)>> \o end
          [] s.op \in LoggerOps -> <<Id("let"), Id(s.v), Sym("eq")>> \o Dotted(s.chain.root) \o end
          [] s.op = "import"    -> <<Id("import"), Id(s.v)>> \o end

\* function tokenize(source)
tokenize(p, language) ==
    FlattenSeq([l \in DOMAIN p |->
        [k \in DOMAIN Text(p[l], language) |-> Text(p[l], language)[k] @@ [line |-> l]]])
=============================================================================
