----------------------------- MODULE LintReport -----------------------------
(***************************************************************************)
(* The capped reports of ores-lint: oresFormatter of eslint/formatter.mjs, *)
(* which counts ESLint's messages by rule one message at a time, and       *)
(* formatReport of require-send.mjs, which lists the scanner's findings.   *)
(* Both show at most MAX locations of a rule and then a count of the rest. *)
(* The same messages go to both, so that their sections for require-send   *)
(* can be compared.  Locations are the numbers of the messages.            *)
(***************************************************************************)
EXTENDS Integers, Sequences, FiniteSets

CONSTANTS
    OtherRules,     \* rules without a label of their own
    Settings,       \* ORES_LINT_MAX_EXAMPLES: "unset", "number", or a "word" that is no number
    Number,         \* its value, when it is a number
    MaxFiles,       \* bound: files with messages
    MaxMessages     \* bound: messages

\* const LABELS: the house rules; a message without a rule is a parsing error.
LABELS == {"semi", "ores/semi", "ores/require-send"}
Rules == LABELS \cup OtherRules
NoRule == "none"
ASSUME ReportAssumption == Number \in Int /\ OtherRules \cap (LABELS \cup {NoRule}) = {}

\* MAX is at least 1 otherwise.
NaN == -1

VARIABLES
    setting,        \* the setting of this run
    messages,       \* what the linter found: [file, rule, severity], in order
    next,           \* the formatter's place in them
    byRule,         \* its entries in order of insertion: [rule, count, examples]
    files, errors, warnings, parseErrors,
    printed         \* the printed sections, << >> before
reportVars == <<setting, messages, next, byRule, files, errors, warnings, parseErrors, printed>>

\* Math.max(1, Number(... || 5)): not a number when the setting is none.
MAX == IF setting = "unset" THEN 5 ELSE IF setting = "word" THEN NaN
       ELSE IF Number > 1 THEN Number ELSE 1
\* Comparing with NaN is always false.
Below(n) == MAX # NaN /\ n < MAX
Above(n) == MAX # NaN /\ n > MAX
\* Array.slice(0, MAX), where NaN counts as 0.
Slice(s) == IF MAX = NaN THEN << >> ELSE SubSeq(s, 1, IF Len(s) < MAX THEN Len(s) ELSE MAX)

Section(rule, total, shown, more) == [rule |-> rule, total |-> total, shown |-> shown, more |-> more]

ReportInit ==
    /\ setting \in Settings
    /\ messages = << >> /\ next = 0
    /\ byRule = << >> /\ files = 0 /\ errors = 0 /\ warnings = 0 /\ parseErrors = << >>
    /\ printed = << >>

\* The linter adds a message, to the last file or to a new one.
Emit(rule, severity, newFile) ==
    LET last == IF messages = << >> THEN 0 ELSE messages[Len(messages)].file
    IN  /\ next = 0 /\ Len(messages) < MaxMessages
        /\ last = 0 => newFile
        /\ newFile => last < MaxFiles
        /\ messages' = Append(messages, [file |-> IF newFile THEN last + 1 ELSE last,
                                         rule |-> rule, severity |-> severity])
        /\ UNCHANGED <<setting, next, byRule, files, errors, warnings, parseErrors, printed>>

\* oresFormatter(results) is called.
Begin == next = 0 /\ next' = 1
         /\ UNCHANGED <<setting, messages, byRule, files, errors, warnings, parseErrors, printed>>

EntryOf(rule) == CHOOSE k \in DOMAIN byRule : byRule[k].rule = rule
HasEntry(rule) == \E k \in DOMAIN byRule : byRule[k].rule = rule

\* Mutant of AddTo: a location is kept while there are at most MAX of them.
AddToOneMore(entry, location) ==
    [entry EXCEPT !.count = @ + 1,
                  !.examples = IF MAX # NaN /\ Len(@) <= MAX THEN Append(@, location) ELSE @]

\* entry.count++, and a location while there is room.
AddTo(entry, location) ==
    [entry EXCEPT !.count = @ + 1, !.examples = IF Below(Len(@)) THEN Append(@, location) ELSE @]

\* The body of the two loops: one message is counted.
Count ==
    LET m == messages[next]
        isNew == next = 1 \/ messages[next - 1].file # m.file
        entry == IF HasEntry(m.rule) THEN byRule[EntryOf(m.rule)]
                 ELSE [rule |-> m.rule, count |-> 0, examples |-> << >>]
    IN  /\ next \in DOMAIN messages
        /\ files' = files + (IF isNew THEN 1 ELSE 0)
        /\ errors' = errors + (IF m.severity = 2 THEN 1 ELSE 0)
        /\ warnings' = warnings + (IF m.severity = 2 THEN 0 ELSE 1)
        /\ IF m.rule = NoRule
           THEN parseErrors' = Append(parseErrors, next) /\ UNCHANGED byRule
           ELSE /\ byRule' = IF HasEntry(m.rule) THEN [byRule EXCEPT ![EntryOf(m.rule)] = AddTo(entry, next)]
                             ELSE Append(byRule, AddTo(entry, next))
                /\ UNCHANGED parseErrors
        /\ next' = next + 1
        /\ UNCHANGED <<setting, messages, printed>>

\* The elements of S in the order R.
InOrder(S, R) == [k \in 1..Cardinality(S) |-> CHOOSE x \in S : Cardinality({y \in S : <<y, x>> \in R}) = k - 1]

\* Mutant of Before: the most frequent rule comes first, whichever it is.
BeforeByCount ==
    {p \in (DOMAIN byRule) \X (DOMAIN byRule) :
        \/ byRule[p[1]].count > byRule[p[2]].count
        \/ byRule[p[1]].count = byRule[p[2]].count /\ p[1] < p[2]}

\* The order of the sections: house rules first, then by frequency; sort() is stable.
Before ==
    LET House(k) == IF byRule[k].rule \in LABELS THEN 0 ELSE 1
        Precedes(a, b) ==
            \/ House(a) < House(b)
            \/ House(a) = House(b) /\ byRule[a].count > byRule[b].count
            \/ House(a) = House(b) /\ byRule[a].count = byRule[b].count /\ a < b
    IN  {p \in (DOMAIN byRule) \X (DOMAIN byRule) : Precedes(p[1], p[2])}

Remaining(n) == IF Above(n) THEN n - MAX ELSE 0
Sections ==
    LET ordered == InOrder(DOMAIN byRule, Before)
    IN  [k \in DOMAIN ordered |->
            LET e == byRule[ordered[k]] IN Section(e.rule, e.count, e.examples, Remaining(e.count))]
        \o (IF parseErrors = << >> THEN << >>
            ELSE <<Section(NoRule, Len(parseErrors), Slice(parseErrors), Remaining(Len(parseErrors)))>>)

\* The report is put together.
PutTogether ==
    /\ next > Len(messages) /\ printed = << >> /\ messages # << >>
    /\ printed' = Sections
    /\ UNCHANGED <<setting, messages, next, byRule, files, errors, warnings, parseErrors>>

ReportNext ==
    \/ \E rule \in Rules \cup {NoRule}, severity \in 1 .. 2, newFile \in BOOLEAN : Emit(rule, severity, newFile)
    \/ Begin \/ Count \/ PutTogether
ReportSpec == ReportInit /\ [][ReportNext]_reportVars

\* Mutant of formatReport: the rest is counted from all that is shown plus one.
formatReportShort(all) == Section("ores/require-send", Len(all), Slice(all), Remaining(Len(all) + 1))

\* formatReport(results) of require-send.mjs, given the locations.
formatReport(all) == Section("ores/require-send", Len(all), Slice(all), Remaining(Len(all)))
-----------------------------------------------------------------------------
\* The messages of a rule, and their locations in order.
MessagesOf(rule) == {k \in DOMAIN messages : messages[k].rule = rule}
LocationsOf(rule) == InOrder(MessagesOf(rule), {p \in (DOMAIN messages) \X (DOMAIN messages) : p[1] < p[2]})

\* Every message belongs to one section, a section shows the first MAX of its messages and counts
\* the rest, and the headline counts all (formatter.mjs:4-5); a setting that is no number shows no
\* location and no rest, only totals (formatter.mjs:10).
Accounted ==
    printed # << >> =>
        /\ errors + warnings = Len(messages)
        /\ \A k \in DOMAIN messages : \E j \in DOMAIN printed : printed[j].rule = messages[k].rule
        /\ \A j, k \in DOMAIN printed : printed[j].rule = printed[k].rule => j = k
        /\ \A j \in DOMAIN printed :
              /\ printed[j].total = Cardinality(MessagesOf(printed[j].rule))
              /\ Len(printed[j].shown) + printed[j].more = IF MAX = NaN THEN 0 ELSE printed[j].total
              /\ ~ Above(Len(printed[j].shown))
              /\ \A i \in DOMAIN printed[j].shown : printed[j].shown[i] = LocationsOf(printed[j].rule)[i]

\* House rules come first, then the other rules by falling frequency; what could not be parsed
\* comes last (formatter.mjs:51).
Ordered ==
    \A j, k \in DOMAIN printed : j < k =>
        /\ printed[j].rule # NoRule
        /\ printed[k].rule \in LABELS => printed[j].rule \in LABELS
        /\ {printed[j].rule, printed[k].rule} \subseteq LABELS \/ {printed[j].rule, printed[k].rule} \subseteq OtherRules
              => printed[j].total >= printed[k].total

\* "Prints the same capped report format" (require-send.mjs:16): the scanner's section is the one
\* the formatter prints for the same findings.
SameReport ==
    \A k \in DOMAIN printed : printed[k].rule = "ores/require-send" => printed[k] = formatReport(LocationsOf("ores/require-send"))

\* The printed report accounts for every message, is in order, and is the one the scanner prints.
ReportExact == Accounted /\ Ordered /\ SameReport
=============================================================================
