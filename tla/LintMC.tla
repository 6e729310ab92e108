------------------------------- MODULE LintMC -------------------------------
(***************************************************************************)
(* The linters for TLC: a file that is written and linted (SendLint), or a *)
(* list of messages that is reported (LintReport).  The two share nothing, *)
(* so one state graph holds both: the part that is not chosen stays in its *)
(* initial state.                                                          *)
(***************************************************************************)
EXTENDS SendLint, LintReport

Log(methods) == Chain(<<"logger">>, methods)
Declare(methods) == Build("declare", "e", Log(methods))
Bare(methods) == Build("expr", "", Log(methods))

\* Blocks, functions and one variable.
Structure == {Plain("block"), Plain("labelled"), Plain("function"), Plain("close"),
              Declare(<<"info">>), Build("assign", "e", Log(<<"warn">>)), On("send", "e"),
              On("sendCall", "e"), On("returnVar", "e")}
\* Comments.
Comments == {Noted(Bare(<<"info">>), n) : n \in {"ores-line", "ores-next", "ores-file"}}
              \cup {Noted(On("pass", "e"), n) : n \in {"eslint-line", "eslint-next"}}
              \cup {Bare(<<"info">>), Declare(<<"info">>), On("send", "e")}
\* Forms of chains, hand-overs and comments.
Forms == Comments \cup {Plain("function"), Plain("close"),
          Declare(<<"info">>), Declare(<<"info", "tag">>), Declare(<<"info", "send">>),
          Declare(<<"tag", "info">>), Build("declare", "e", EmitChain(<<"logger">>, "log")),
          Bare(<<"info">>), Bare(<<"info", "send">>), Build("expr", "", Chain(<<"self", "logger">>, <<"error">>)),
          Build("expr", "", Chain(<<"client">>, <<"info">>)),
          Build("return", "", Log(<<"info">>)), Build("tail", "", Log(<<"info">>)),
          Build("passChain", "", Log(<<"info">>)), On("send", "e"), On("pass", "e"), On("arrow", "e")}
\* What the rule learns of loggers.
Library == {Plain("function"), Plain("close"), Import("make", Loggers, "createLogger"), Import("Node", Loggers, "NodeLogger"),
            Import("ns", Loggers, "*"), Import("svc", Loggers, "default"), Import("svc", "elsewhere", "default"),
            Build("loggerCall", "svc", Chain(<<"make">>, << >>)), Build("loggerNew", "svc", Chain(<<"Node">>, << >>)),
            Build("loggerCall", "svc", Chain(<<"ns", "createLogger">>, << >>)),
            Build("loggerAnew", "svc", Chain(<<"logger">>, << >>)), Build("loggerAlias", "svc", Chain(<<"logger">>, << >>)),
            Build("expr", "", Chain(<<"svc">>, <<"info">>)), Build("expr", "", Chain(<<"ns", "logger">>, <<"tag", "info">>)),
            Build("declare", "e", Chain(<<"svc">>, <<"info">>)), On("send", "e"), On("pass", "e")}

MCKits ==
    [structure |-> [menu |-> Structure, languages |-> {"rust"}, linters |-> {"scanner", "rule"}, maxStatements |-> 6],
     forms |-> [menu |-> Forms, languages |-> {"rust", "dart", "gleam"}, linters |-> {"scanner"}, maxStatements |-> 3],
     library |-> [menu |-> Library, languages |-> {"dart"}, linters |-> {"rule"}, maxStatements |-> 4]]

VARIABLE part

MCInit ==
    /\ part \in {"lint", "report"}
    /\ Init /\ ReportInit
    /\ part = "report" => kit = "structure"
    /\ part = "lint" => setting = "number"

MCNext ==
    /\ UNCHANGED part
    /\ \/ part = "lint" /\ Next /\ UNCHANGED reportVars
       \/ part = "report" /\ ReportNext /\ UNCHANGED vars

MCSpec == MCInit /\ [][MCNext]_<<part, vars, reportVars>>
=============================================================================
