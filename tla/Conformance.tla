---------------------------- MODULE Conformance ----------------------------
(***************************************************************************)
(* conformance/check.mjs: promotion evidence is bound to the bytes of the  *)
(* contracts, of the behavior cases and of the conformance specification.  *)
(* Maintainers edit files, the participants' test runs (which are not in   *)
(* this repository) read them, take their time and then write their        *)
(* evidence, and the check reads everything there is at that moment.       *)
(*                                                                         *)
(* dg(files) hashes the paths and the bytes of the files, sorted by path:  *)
(* it is the function from path to content.                                *)
(***************************************************************************)
EXTENDS Naturals, Sequences, SequencesExt, FiniteSets

CONSTANTS
    Participants,   \* names of runtimes
    Paths,          \* names of files, under contracts/ and under conformance/cases
    Contents,       \* what a contract says
    CaseIds,        \* ids of behavior cases
    MaxEdits        \* bound: edits of the repository

Behavior(id, v) == [kind |-> "behavior", id |-> id, version |-> v]
Bootstrap == [kind |-> "bootstrap", id |-> "", version |-> 1]
Malformed == [kind |-> "malformed", id |-> "", version |-> 0]

VARIABLES
    contracts,  \* the files under contracts/: path -> content
    cases,      \* the files under conformance/cases: path -> case
    manifest,   \* conformance/manifest.v1.json: coverage, required participants in order
    schema,     \* the version of conformance/case.schema.json
    running,    \* participant -> the files its unfinished run has read
    judged,     \* history: participant -> the files its last finished run had read, and its status
    evidence,   \* the files under artifacts/conformance/evidence: participant -> evidence
    edits, verdict
vars == <<contracts, cases, manifest, schema, running, judged, evidence, edits, verdict>>

NoFiles == [p \in {} |-> {}]
Put(f, k, v) == [x \in DOMAIN f \cup {k} |-> IF x = k THEN v ELSE f[x]]

Init == /\ \E c \in Contents : contracts = [p \in Paths |-> c]
        /\ \E p \in Paths : cases = [x \in {p} |-> Bootstrap]
        /\ manifest = [status |-> "scaffold-only", behavioralCasesRequired |-> FALSE, requiredParticipants |-> << >>]
        /\ schema = 1 /\ running = [p \in Participants |-> {}]
        /\ judged = NoFiles /\ evidence = NoFiles
        /\ edits = 0 /\ verdict = ""

(***************************************************************************)
(* What the check reads.                                                   *)
(***************************************************************************)
Files(t, kind) == {p \in DOMAIN t.cases : t.cases[p].kind = kind}
Tree == [contracts |-> contracts, cases |-> cases, manifest |-> manifest, schema |-> schema]

\* Mutant of corpusSha256: the cases' ids, not their bytes.
corpusIds(t) == [p \in Files(t, "behavior") |-> t.cases[p].id]
corpusSha256(t) == [p \in Files(t, "behavior") |-> t.cases[p]]
contractsSha256(t) == t.contracts
conformanceSpecSha256(t) == <<t.manifest, t.schema>>
Digests(t) ==
    [contractsSha256 |-> contractsSha256(t), corpusSha256 |-> corpusSha256(t),
     conformanceSpecSha256 |-> conformanceSpecSha256(t), behaviorCaseCount |-> Cardinality(Files(t, "behavior"))]

DuplicateIds == \E p, q \in Files(Tree, "behavior") : p # q /\ cases[p].id = cases[q].id
Required == ToSet(manifest.requiredParticipants)

\* Mutant of EvidenceHolds: every file of the corpus is counted.
EvidenceHoldsAllFiles ==
    \A p \in Required : /\ p \in DOMAIN evidence
                        /\ evidence[p].status = "pass" /\ evidence[p].digests = Digests(Tree)
                        /\ evidence[p].digests.behaviorCaseCount = Cardinality(DOMAIN cases)
EvidenceHolds ==
    \A p \in Required : /\ p \in DOMAIN evidence
                        /\ evidence[p].status = "pass" /\ evidence[p].digests = Digests(Tree)

\* The body of the check, in its order.
Complaint ==
    IF (manifest.status = "behavioral") # manifest.behavioralCasesRequired THEN "coverage"
    ELSE IF DOMAIN contracts = {} THEN "contract roots are empty"
    ELSE IF Files(Tree, "malformed") # {} THEN "malformed behavior case"
    ELSE IF Cardinality(Files(Tree, "bootstrap")) > 1 THEN "only one bootstrap"
    ELSE IF DuplicateIds THEN "duplicate behavior case"
    ELSE IF ~ IsInjective(manifest.requiredParticipants) THEN "duplicate participant"
    ELSE IF manifest.status = "scaffold-only" THEN "passed"
    ELSE IF Files(Tree, "behavior") = {} \/ Required = {} THEN "behavioral coverage requires cases and participants"
    ELSE IF ~ EvidenceHolds THEN "missing, failed, or stale evidence"
    ELSE "passed"

Check == /\ verdict = "" /\ verdict' = Complaint
         /\ UNCHANGED <<contracts, cases, manifest, schema, running, judged, evidence, edits>>

(***************************************************************************)
(* The others.                                                             *)
(***************************************************************************)
Edit == edits < MaxEdits /\ edits' = edits + 1 /\ verdict' = "" /\ UNCHANGED <<running, judged, evidence>>

EditContract(p, c) == /\ Edit /\ contracts' = Put(contracts, p, c) /\ contracts' # contracts
                      /\ UNCHANGED <<cases, manifest, schema>>
DropContract(p) == /\ Edit /\ p \in DOMAIN contracts
                   /\ contracts' = [x \in DOMAIN contracts \ {p} |-> contracts[x]]
                   /\ UNCHANGED <<cases, manifest, schema>>
EditCase(p, c) == /\ Edit /\ cases' = Put(cases, p, c) /\ cases' # cases
                  /\ UNCHANGED <<contracts, manifest, schema>>
EditManifest(status, required, ps) ==
    /\ Edit /\ manifest' = [status |-> status, behavioralCasesRequired |-> required, requiredParticipants |-> ps]
    /\ manifest' # manifest /\ UNCHANGED <<contracts, cases, schema>>
EditSchema == Edit /\ schema = 1 /\ schema' = 2 /\ UNCHANGED <<contracts, cases, manifest>>

\* A participant's test run reads the files, and later writes what it found about them.
StartRun(p) == /\ manifest.status = "behavioral" /\ running[p] = {}
               /\ running' = [running EXCEPT ![p] = {Tree}]
               /\ UNCHANGED <<contracts, cases, manifest, schema, judged, evidence, edits, verdict>>
EndRun(p, status) ==
    /\ running[p] # {} /\ running' = [running EXCEPT ![p] = {}]
    /\ \E t \in running[p] : /\ evidence' = Put(evidence, p, [status |-> status, digests |-> Digests(t)])
                            /\ judged' = Put(judged, p, [status |-> status, files |-> t])
    /\ verdict' = ""
    /\ UNCHANGED <<contracts, cases, manifest, schema, edits>>

Lists == {<<p>> : p \in Participants} \cup {<<p, q>> : p, q \in Participants}
Next ==
    \/ \E p \in Paths, c \in Contents : EditContract(p, c)
    \/ \E p \in Paths : DropContract(p)
    \/ \E p \in Paths, id \in CaseIds, v \in {1, 2} : EditCase(p, Behavior(id, v))
    \/ \E p \in Paths, c \in {Bootstrap, Malformed} : EditCase(p, c)
    \/ \E status \in {"scaffold-only", "behavioral"}, r \in BOOLEAN, ps \in Lists : EditManifest(status, r, ps)
    \/ EditSchema \/ Check
    \/ \E p \in Participants : StartRun(p) \/ \E status \in {"pass", "fail"} : EndRun(p, status)
Spec == Init /\ [][Next]_vars
-----------------------------------------------------------------------------
\* What a run is about: the contracts, the behavior cases, the manifest and the case schema.
Relevant(t) == <<t.contracts, [p \in Files(t, "behavior") |-> t.cases[p]], t.manifest, t.schema>>
Judged(p) == /\ p \in DOMAIN judged /\ judged[p].status = "pass"
             /\ Relevant(judged[p].files) = Relevant(Tree)

\* When behavioral coverage passes, the last run of every required participant passed, and it had
\* read the contracts, cases, manifest and case schema that are there now: "Missing, failed, or
\* stale evidence from a required participant fails closed" (conformance/README.md:10).
PassMeansConformant ==
    verdict = "passed" /\ manifest.status = "behavioral" => \A p \in Required : Judged(p)

\* Evidence of the present files does not expire: once every required participant has passed on
\* them, the check does not call the evidence missing or stale.
FreshEvidenceCounts ==
    (\A p \in Required : Judged(p)) => verdict # "missing, failed, or stale evidence"
=============================================================================
