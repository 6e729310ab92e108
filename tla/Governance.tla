----------------------------- MODULE Governance -----------------------------
(***************************************************************************)
(* governance/check.mjs.  Maintainers edit the directories, manifests and  *)
(* contracts of the repository, one file at a time; the check reads them   *)
(* all and passes or stops at its first complaint.  A check that passes is *)
(* to mean that no change has landed in one lane only.                     *)
(*                                                                         *)
(* The policy values of the contract-admission manifest and of the         *)
(* dependency contract (fixed strings and flags) are one value each: as    *)
(* the repository has them, or not.                                        *)
(***************************************************************************)
EXTENDS Naturals, Sequences, FiniteSets, SequencesExt, FiniteSetsExt

CONSTANTS
    Languages,      \* names of runtime languages
    Packages,       \* names of packages to depend on
    Requirements,   \* versions to require of a package
    Styles,         \* ways to write a line of the manifest: "basic" strings and quoted keys, or "other"
    MaxChanges      \* bound: edits made

\* A directory of the repository that a package target can name.
Lang(l) == <<"langs", l>>
Tool(l) == <<"languages", l>>
Postgres == <<"database", "postgres">>
AdminOrm == <<"admin-orm">>
Whole == <<".">>

\* A line of .zpkg.toml under [dependencies] or [targets.name].
DependencyLine(p, r, style) == [section |-> <<"dependencies">>, key |-> p, value |-> r, style |-> style]
TargetLine(name, dir, style) == [section |-> <<"targets", name>>, key |-> "dir", value |-> dir, style |-> style]

VARIABLES
    runtime,        \* entries of langs/: name -> "directory" or "file" (or a symbolic link)
    lanes,          \* the tooling, ORM and database directories that are there
    zpkg,           \* the lines of .zpkg.toml
    contract,       \* contracts/dependencies.json: its entries in order, and its policy
    admission,      \* contract-admission/contract-ir-consumer.json: "as agreed" or "drifted"
    participants,   \* requiredParticipants of conformance/manifest.v1.json
    changes,        \* edits made
    outcome         \* what the check last printed about the present files; "" when they changed
governanceVars == <<runtime, lanes, zpkg, contract, admission, participants, changes, outcome>>

RequiredDirs == {<<"langs", "typescript">>, AdminOrm, Postgres}

GovernanceInit ==
    \E ls \in {{"typescript"}, Languages} :
        /\ runtime = [l \in ls |-> "directory"]
        /\ lanes = RequiredDirs \ {<<"langs", "typescript">>}
        /\ zpkg = <<TargetLine("repository", Whole, "basic"), TargetLine("postgres", Postgres, "basic")>>
                     \o SetToSeq({TargetLine(l, Lang(l), "basic") : l \in ls})
        /\ contract = [entries |-> << >>, safe |-> TRUE]
        /\ admission = "as agreed"
        /\ participants = {}
        /\ changes = 0 /\ outcome = ""

(***************************************************************************)
(* Edits.                                                                  *)
(***************************************************************************)
Change == changes < MaxChanges /\ changes' = changes + 1 /\ outcome' = ""

AddLanguage(l, kind) ==
    /\ Change /\ l \notin DOMAIN runtime
    /\ runtime' = [k \in DOMAIN runtime \cup {l} |-> IF k = l THEN kind ELSE runtime[k]]
    /\ UNCHANGED <<lanes, zpkg, contract, admission, participants>>
DropLanguage(l) ==
    /\ Change /\ l \in DOMAIN runtime
    /\ runtime' = [k \in DOMAIN runtime \ {l} |-> runtime[k]]
    /\ UNCHANGED <<lanes, zpkg, contract, admission, participants>>
DropLane(d) ==
    /\ Change /\ d \in lanes /\ lanes' = lanes \ {d}
    /\ UNCHANGED <<runtime, zpkg, contract, admission, participants>>
AddLine(line) ==
    /\ Change /\ zpkg' = Append(zpkg, line)
    /\ UNCHANGED <<runtime, lanes, contract, admission, participants>>
DropLine(k) ==
    /\ Change /\ zpkg' = RemoveAt(zpkg, k)
    /\ UNCHANGED <<runtime, lanes, contract, admission, participants>>
AddEntry(p, r) ==
    /\ Change /\ contract' = [contract EXCEPT !.entries = Append(@, [package |-> p, requirement |-> r])]
    /\ UNCHANGED <<runtime, lanes, zpkg, admission, participants>>
LoosenPolicy ==
    /\ Change /\ \/ contract' = [contract EXCEPT !.safe = FALSE] /\ UNCHANGED admission
                 \/ admission' = "drifted" /\ UNCHANGED contract
    /\ UNCHANGED <<runtime, lanes, zpkg, participants>>
RequireParticipant(l) ==
    /\ Change /\ participants' = participants \cup {l}
    /\ UNCHANGED <<runtime, lanes, zpkg, contract, admission>>

(***************************************************************************)
(* The check.                                                              *)
(***************************************************************************)
\* Only lines of basic strings are recognised (the patterns of parseZpkg); others are passed over.
Recognised(section) == {k \in DOMAIN zpkg : zpkg[k].style = "basic" /\ zpkg[k].section[1] = section}
DuplicateTarget == \E j, k \in Recognised("targets") : j # k /\ zpkg[j].section = zpkg[k].section

\* function parseZpkg(source): its targets, and its dependencies, where a later line wins.
Targets == {[name |-> zpkg[k].section[2], dir |-> zpkg[k].value] : k \in Recognised("targets")}
LinesOf(p) == {k \in Recognised("dependencies") : zpkg[k].key = p}
Dependencies ==
    [p \in {zpkg[k].key : k \in Recognised("dependencies")} |-> zpkg[Max(LinesOf(p))].value]

\* runtimeTargetDirs (a list: two targets may name one directory) and expectedRuntimeDirs.
\* Mutant of RuntimeTargets: every target counts as a runtime's.
RuntimeTargetsAll == Targets
RuntimeTargets == {t \in Targets : t.dir[1] = "langs"}
RuntimeTargetDirs == {t.dir : t \in RuntimeTargets}
ExpectedRuntimeDirs == {Lang(l) : l \in DOMAIN runtime}

\* realDirectory and the entries of langs/.
Layout == /\ \A l \in DOMAIN runtime : runtime[l] = "directory"
          /\ DOMAIN runtime # {}
          /\ "typescript" \in DOMAIN runtime /\ {AdminOrm, Postgres} \subseteq lanes

\* Mutant of RuntimeAligned: only missing targets are looked for.
RuntimeAlignedOneWay == ExpectedRuntimeDirs \subseteq RuntimeTargetDirs
RuntimeAligned == /\ ExpectedRuntimeDirs = RuntimeTargetDirs
                  /\ Cardinality(RuntimeTargets) = Cardinality(RuntimeTargetDirs)

OtherTargets == /\ [name |-> "postgres", dir |-> Postgres] \in Targets
                /\ \A t \in Targets : t.dir # AdminOrm /\ t.dir[1] # "languages"

ContractEntries == ToSet(contract.entries)
DuplicateEntry == \E j, k \in DOMAIN contract.entries :
                     j # k /\ contract.entries[j].package = contract.entries[k].package

\* Mutant of DependenciesAligned: packages are compared, not what is required of them.
DependenciesAlignedNames == DOMAIN Dependencies = {e.package : e \in ContractEntries}
DependenciesAligned ==
    ContractEntries = {[package |-> p, requirement |-> Dependencies[p]] : p \in DOMAIN Dependencies}

\* The body of the check, in its order: the first complaint is the verdict.
GovernanceComplaint ==
    IF ~ Layout THEN "layout"
    ELSE IF DuplicateTarget THEN "duplicate package target"
    ELSE IF ~ RuntimeAligned THEN "runtime/Zed drift"
    ELSE IF ~ OtherTargets THEN "target"
    ELSE IF ~ contract.safe THEN "policy"
    ELSE IF DuplicateEntry THEN "duplicate dependency contract entry"
    ELSE IF ~ DependenciesAligned THEN "dependency contract/Zed drift"
    ELSE IF admission # "as agreed" THEN "contract admission"
    ELSE IF ~ participants \subseteq DOMAIN runtime THEN "unknown participant"
    ELSE "passed"

\* node governance/check.mjs
CheckGovernance ==
    /\ outcome = "" /\ outcome' = GovernanceComplaint
    /\ UNCHANGED <<runtime, lanes, zpkg, contract, admission, participants, changes>>

TargetDirs == {Lang(l) : l \in Languages} \cup {Tool("typescript"), AdminOrm, Postgres}
GovernanceNext ==
    \/ \E l \in Languages : \/ \E kind \in {"directory", "file"} : AddLanguage(l, kind)
                            \/ DropLanguage(l) \/ RequireParticipant(l)
    \/ \E d \in {AdminOrm, Postgres} : DropLane(d)
    \/ \E p \in Packages, r \in Requirements :
          AddEntry(p, r) \/ \E s \in Styles : AddLine(DependencyLine(p, r, s))
    \/ \E name \in Languages \cup {"postgres"}, d \in TargetDirs : AddLine(TargetLine(name, d, "basic"))
    \/ \E k \in DOMAIN zpkg : DropLine(k)
    \/ LoosenPolicy \/ CheckGovernance
GovernanceSpec == GovernanceInit /\ [][GovernanceNext]_governanceVars
-----------------------------------------------------------------------------
\* The dependencies written as "name" = "requirement".
Declared == {[package |-> line.key, requirement |-> line.value] :
                line \in {x \in ToSet(zpkg) : x.section = <<"dependencies">> /\ x.style = "basic"}}
DirsDeclared == {line.value : line \in {x \in ToSet(zpkg) : x.section[1] = "targets"}}

\* The repository that passed: every language is a directory with exactly one target, and the
\* conformance participants are among them; the ORM and the tooling are not published; the
\* policies are as agreed.  (Names and directories are compared by four separate statements of
\* the check, over lists, sets and maps.)
Aligned ==
    outcome = "passed" =>
        /\ {d \in DirsDeclared : d[1] = "langs"} = {Lang(l) : l \in DOMAIN runtime}
        /\ \A l \in DOMAIN runtime :
              Cardinality({k \in DOMAIN zpkg : zpkg[k].section[1] = "targets" /\ zpkg[k].value = Lang(l)}) = 1
        /\ participants \subseteq {l \in DOMAIN runtime : runtime[l] = "directory"}
        /\ AdminOrm \notin DirsDeclared /\ \A d \in DirsDeclared : d[1] # "languages"
        /\ contract.safe /\ admission = "as agreed"

\* Where no package is written down twice, what passed declares the dependencies of the contract
\* and no others, at the same versions: "dependency entries ... must be reconciled explicitly
\* instead of landing in only one lane" (governance/README.md:15).  A line in another form of
\* TOML is the one thing that lands in one lane only: parseZpkg passes over it (check.mjs:43-46).
DependenciesReconciled ==
    outcome = "passed" /\ (\A d, e \in Declared : d.package = e.package => d = e)
        => Declared = ToSet(contract.entries)

\* A language that is added, given its target and nothing else passes: the check does not ask
\* for more than the lanes' agreement.
HonestPasses ==
    (/\ Layout /\ contract = [entries |-> << >>, safe |-> TRUE] /\ admission = "as agreed" /\ participants = {}
     /\ \E ls \in SUBSET Languages :
           /\ DOMAIN runtime = ls
           /\ IsInjective(zpkg)
           /\ ToSet(zpkg) = {TargetLine("repository", Whole, "basic"), TargetLine("postgres", Postgres, "basic")}
                               \cup {TargetLine(l, Lang(l), "basic") : l \in ls})
        => outcome \in {"", "passed"}

\* What the check lets pass has landed in every lane.
PassMeansReconciled == Aligned /\ DependenciesReconciled
=============================================================================
