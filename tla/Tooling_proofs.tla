--------------------------- MODULE Tooling_proofs ---------------------------
(***************************************************************************)
(* The repository's own tools.  For any participants, files and cases and  *)
(* any number of edits: what the conformance check passes, the required    *)
(* participants have passed.  For any tree and lists: what the governance  *)
(* check passes is reconciled, and honest work passes.  For any messages,  *)
(* rules and settings: the linters' capped report is exact.                *)
(***************************************************************************)
EXTENDS Conformance, Governance, LintReport,
        FiniteSetTheorems, SequenceTheorems, WellFoundedInduction, TLAPS

\* The evidence on disk is what the last run of its participant wrote about the files it read.
Bound == /\ DOMAIN evidence = DOMAIN judged
         /\ \A p \in DOMAIN judged : /\ evidence[p].status = judged[p].status
                                     /\ evidence[p].digests = Digests(judged[p].files)

\* A verdict that is still there is about the files and the evidence that are there.
VerdictCurrent == verdict # "" => verdict = Complaint

IInv == Bound /\ VerdictCurrent

\* Two trees with one set of digests are the same in all that a run is about.
LEMMA DigestsFaithful ==
    ASSUME NEW t, NEW u, Digests(t) = Digests(u)
    PROVE  Relevant(t) = Relevant(u)
<1>1. contractsSha256(t) = contractsSha256(u)
  BY DEF Digests
<1>2. corpusSha256(t) = corpusSha256(u)
  BY DEF Digests
<1>3. conformanceSpecSha256(t) = conformanceSpecSha256(u)
  BY DEF Digests
<1>4. t.contracts = u.contracts /\ t.manifest = u.manifest /\ t.schema = u.schema
  BY <1>1, <1>3 DEF contractsSha256, conformanceSpecSha256
<1>5. [p \in Files(t, "behavior") |-> t.cases[p]] = [p \in Files(u, "behavior") |-> u.cases[p]]
  BY <1>2 DEF corpusSha256
<1> QED BY <1>4, <1>5 DEF Relevant

LEMMA InitInv == Init => IInv
<1> SUFFICES ASSUME Init PROVE IInv
  OBVIOUS
<1>1. judged = NoFiles /\ evidence = NoFiles /\ verdict = ""
  BY Zenon DEF Init
<1>2. DOMAIN judged = {}
  BY <1>1 DEF NoFiles
<1> QED BY <1>1, <1>2 DEF IInv, Bound, VerdictCurrent

\* The end of a run writes its evidence and its history together.
LEMMA EndRunInv ==
    ASSUME IInv, NEW p, NEW status, EndRun(p, status)
    PROVE  IInv'
<1>1. PICK t \in running[p] : /\ evidence' = Put(evidence, p, [status |-> status, digests |-> Digests(t)])
                              /\ judged' = Put(judged, p, [status |-> status, files |-> t])
  BY DEF EndRun
<1> DEFINE e == [status |-> status, digests |-> Digests(t)]
           j == [status |-> status, files |-> t]
<1>a. e.status = j.status /\ e.digests = Digests(j.files)
  OBVIOUS
<1>b. /\ evidence' = [x \in DOMAIN evidence \cup {p} |-> IF x = p THEN e ELSE evidence[x]]
      /\ judged' = [x \in DOMAIN judged \cup {p} |-> IF x = p THEN j ELSE judged[x]]
  BY <1>1, Zenon DEF Put
<1> HIDE DEF e, j
<1>2. DOMAIN evidence' = DOMAIN judged'
  BY <1>b DEF IInv, Bound
<1>3. ASSUME NEW q \in DOMAIN judged'
      PROVE  evidence'[q].status = judged'[q].status /\ evidence'[q].digests = Digests(judged'[q].files)
  <2>1. CASE q = p
    <3>1. evidence'[q] = e /\ judged'[q] = j
      BY <1>b, <2>1
    <3> QED BY <3>1, <1>a
  <2>2. CASE q # p
    <3>1. q \in DOMAIN judged /\ q \in DOMAIN evidence
      BY <1>b, <1>3, <2>2 DEF IInv, Bound
    <3>2. evidence'[q] = evidence[q] /\ judged'[q] = judged[q]
      BY <1>b, <2>2, <3>1
    <3> QED BY <3>1, <3>2 DEF IInv, Bound
  <2> QED BY <2>1, <2>2
<1>4. Bound'
  BY <1>2, <1>3 DEF Bound, Digests, contractsSha256, corpusSha256, conformanceSpecSha256, Files
<1>5. VerdictCurrent'
  BY DEF EndRun, VerdictCurrent
<1> QED BY <1>4, <1>5 DEF IInv

\* Steps that leave evidence and history alone keep Bound.
LEMMA BoundKept ==
    ASSUME Bound, UNCHANGED <<judged, evidence>>
    PROVE  Bound'
BY DEF Bound, Digests, contractsSha256, corpusSha256, conformanceSpecSha256, Files

\* A verdict is kept only by steps that change nothing the check reads.
LEMMA ComplaintKept ==
    ASSUME UNCHANGED <<contracts, cases, manifest, schema, evidence>>
    PROVE  Complaint' = Complaint
BY DEF Complaint, Files, Tree, DuplicateIds, Required, EvidenceHolds, Digests, contractsSha256, corpusSha256,
       conformanceSpecSha256

LEMMA NextInv == IInv /\ [Next]_vars => IInv'
<1> SUFFICES ASSUME IInv, [Next]_vars PROVE IInv'
  OBVIOUS
<1>1. ASSUME Edit PROVE IInv'
  <2>1. verdict' = "" /\ UNCHANGED <<judged, evidence>>
    BY <1>1 DEF Edit
  <2> QED BY <2>1, BoundKept DEF IInv, VerdictCurrent
<1>2. ASSUME NEW p \in Paths, NEW c \in Contents, EditContract(p, c) PROVE IInv'
  BY <1>1, <1>2 DEF EditContract
<1>3. ASSUME NEW p \in Paths, DropContract(p) PROVE IInv'
  BY <1>1, <1>3 DEF DropContract
<1>4. ASSUME NEW p \in Paths, NEW c, EditCase(p, c) PROVE IInv'
  BY <1>1, <1>4 DEF EditCase
<1>5. ASSUME NEW status, NEW r, NEW ps, EditManifest(status, r, ps) PROVE IInv'
  BY <1>1, <1>5 DEF EditManifest
<1>6. CASE EditSchema
  BY <1>1, <1>6 DEF EditSchema
<1>7. CASE Check
  <2>1. verdict' = Complaint /\ UNCHANGED <<contracts, cases, manifest, schema, judged, evidence>>
    BY <1>7 DEF Check
  <2>2. Complaint' = Complaint
    BY <2>1, ComplaintKept
  <2> QED BY <2>1, <2>2, BoundKept DEF IInv, VerdictCurrent
<1>8. ASSUME NEW p \in Participants, StartRun(p) PROVE IInv'
  <2>1. UNCHANGED <<contracts, cases, manifest, schema, judged, evidence, verdict>>
    BY <1>8 DEF StartRun
  <2>2. Complaint' = Complaint
    BY <2>1, ComplaintKept
  <2> QED BY <2>1, <2>2, BoundKept DEF IInv, VerdictCurrent
<1>9. ASSUME NEW p \in Participants, NEW status, EndRun(p, status) PROVE IInv'
  BY <1>9, EndRunInv
<1>10. CASE UNCHANGED vars
  <2>1. UNCHANGED <<contracts, cases, manifest, schema, judged, evidence, verdict>>
    BY <1>10 DEF vars
  <2>2. Complaint' = Complaint
    BY <2>1, ComplaintKept
  <2> QED BY <2>1, <2>2, BoundKept DEF IInv, VerdictCurrent
<1> QED BY <1>2, <1>3, <1>4, <1>5, <1>6, <1>7, <1>8, <1>9, <1>10 DEF Next

\* When behavioral coverage passes, the last run of every required participant passed on the
\* files that are there now: for any number of participants, files, edits and overlapping runs
\* (conformance/check.mjs:5, README.md rule 4).
THEOREM PassMeansConformantTheorem == Spec => []PassMeansConformant
<1>1. ASSUME IInv PROVE PassMeansConformant
  <2>1. SUFFICES ASSUME verdict = "passed", manifest.status = "behavioral", NEW p \in Required
                 PROVE  Judged(p)
    BY DEF PassMeansConformant
  <2>2. Complaint = "passed" /\ manifest.status # "scaffold-only"
    BY <1>1, <2>1 DEF IInv, VerdictCurrent
  <2>3. EvidenceHolds
    BY <2>2 DEF Complaint
  <2>4. p \in DOMAIN evidence /\ evidence[p].status = "pass" /\ evidence[p].digests = Digests(Tree)
    BY <2>1, <2>3 DEF EvidenceHolds
  <2>5. p \in DOMAIN judged /\ judged[p].status = "pass" /\ Digests(judged[p].files) = Digests(Tree)
    BY <1>1, <2>4 DEF IInv, Bound
  <2> QED BY <2>5, DigestsFaithful DEF Judged
<1> QED BY <1>1, InitInv, NextInv, PTL DEF Spec

\* ... and two trees that are the same in all of that have one set of digests.
LEMMA DigestsComplete ==
    ASSUME NEW t, NEW u, Relevant(t) = Relevant(u)
    PROVE  Digests(t) = Digests(u)
<1>1. t.contracts = u.contracts /\ t.manifest = u.manifest /\ t.schema = u.schema
  BY DEF Relevant
<1>2. corpusSha256(t) = corpusSha256(u)
  BY DEF Relevant, corpusSha256
<1>3. DOMAIN corpusSha256(t) = Files(t, "behavior") /\ DOMAIN corpusSha256(u) = Files(u, "behavior")
  BY DEF corpusSha256
<1>4. Files(t, "behavior") = Files(u, "behavior")
  BY <1>2, <1>3
<1> QED BY <1>1, <1>2, <1>4 DEF Digests, contractsSha256, conformanceSpecSha256

\* Evidence of the present files never counts as missing or stale, however many edits and runs
\* came before it (conformance/check.mjs:5).
THEOREM FreshEvidenceCountsTheorem == Spec => []FreshEvidenceCounts
<1>1. ASSUME IInv PROVE FreshEvidenceCounts
  <2>1. SUFFICES ASSUME \A p \in Required : Judged(p), verdict = "missing, failed, or stale evidence"
                 PROVE  FALSE
    BY DEF FreshEvidenceCounts
  <2>2. EvidenceHolds
    <3>1. SUFFICES ASSUME NEW p \in Required
                   PROVE  p \in DOMAIN evidence /\ evidence[p].status = "pass" /\ evidence[p].digests = Digests(Tree)
      BY DEF EvidenceHolds
    <3>2. p \in DOMAIN judged /\ judged[p].status = "pass" /\ Relevant(judged[p].files) = Relevant(Tree)
      BY <2>1 DEF Judged
    <3>3. Digests(judged[p].files) = Digests(Tree)
      BY <3>2, DigestsComplete
    <3> QED BY <1>1, <3>2, <3>3 DEF IInv, Bound
  <2>3. Complaint = "missing, failed, or stale evidence"
    BY <1>1, <2>1 DEF IInv, VerdictCurrent
  <2> QED BY <2>2, <2>3 DEF Complaint
<1> QED BY <1>1, InitInv, NextInv, PTL DEF Spec
-----------------------------------------------------------------------------
(* What a pass of governance/check.mjs means (Governance), for any         *)
(* languages, packages, versions and number of edits.  The check keeps its *)
(* verdict only while nothing is edited, and the lines of the manifest     *)
(* keep their forms; the rest is what the check compares.                  *)

\* The lines an edit can write.
TargetNames == Languages \cup {"typescript", "postgres", "repository"}
TargetValues == TargetDirs \cup {Lang("typescript"), Whole}
LineSections == {<<"dependencies">>} \cup {<<"targets", n>> : n \in TargetNames}
Lines == {x \in [section : LineSections, key : Packages \cup {"dir"},
                 value : Requirements \cup TargetValues, style : Styles \cup {"basic"}] :
              x.section # <<"dependencies">> => x.key = "dir" /\ x.style = "basic"}

\* The inductive invariant.
GovVerdictCurrent == outcome \in {"", GovernanceComplaint}
GovInv == zpkg \in Seq(Lines) /\ GovVerdictCurrent
-----------------------------------------------------------------------------
(* The lines of the manifest.                                              *)

LEMMA LineForms ==
    ASSUME NEW x \in Lines
    PROVE  \/ x.section = <<"dependencies">> /\ x.section[1] = "dependencies"
           \/ /\ x.section = <<"targets", x.section[2]>> /\ x.section[1] = "targets"
              /\ x.section # <<"dependencies">> /\ x.style = "basic"
              /\ x = TargetLine(x.section[2], x.value, "basic")
<1>1. CASE x.section = <<"dependencies">>
  BY <1>1
<1>2. CASE \E n \in TargetNames : x.section = <<"targets", n>>
  BY <1>2 DEF Lines, TargetLine
<1> QED BY <1>1, <1>2 DEF Lines, LineSections

LEMMA DependencyLineType ==
    ASSUME NEW p \in Packages, NEW r \in Requirements, NEW s \in Styles
    PROVE  DependencyLine(p, r, s) \in Lines
BY DEF DependencyLine, Lines, LineSections

LEMMA TargetLineType ==
    ASSUME NEW n \in TargetNames, NEW d \in TargetValues
    PROVE  TargetLine(n, d, "basic") \in Lines
BY DEF TargetLine, Lines, LineSections

LEMMA SetToSeqType ==
    ASSUME NEW S, IsFiniteSet(S), NEW T, S \subseteq T
    PROVE  SetToSeq(S) \in Seq(T)
<1> DEFINE n == Cardinality(S)
<1>1. n \in Nat /\ \E f \in [1 .. n -> S] : IsInjective(f)
  BY FS_CardinalityType DEF ExistsBijection, Bijection, Injection, IsInjective
<1>2. SetToSeq(S) \in [1 .. n -> S]
  BY <1>1 DEF SetToSeq
<1> HIDE DEF n
<1> QED BY <1>1, <1>2

LEMMA GovInitInv == ASSUME IsFiniteSet(Languages) PROVE GovernanceInit => GovInv
<1> SUFFICES ASSUME GovernanceInit PROVE GovInv
  OBVIOUS
<1>1. PICK ls \in {{"typescript"}, Languages} :
         zpkg = <<TargetLine("repository", Whole, "basic"), TargetLine("postgres", Postgres, "basic")>>
                  \o SetToSeq({TargetLine(l, Lang(l), "basic") : l \in ls})
  BY DEF GovernanceInit
<1> DEFINE S == {TargetLine(l, Lang(l), "basic") : l \in ls}
           f == [l \in ls |-> TargetLine(l, Lang(l), "basic")]
<1>2. IsFiniteSet(S)
  <2>1. IsFiniteSet(ls)
    BY FS_Singleton
  <2>2. f \in Surjection(ls, S)
    BY DEF Surjection
  <2> QED BY <2>1, <2>2, FS_Surjection
<1>3. S \subseteq Lines
  BY TargetLineType DEF TargetNames, TargetValues, TargetDirs
<1>4. /\ TargetLine("repository", Whole, "basic") \in Lines
      /\ TargetLine("postgres", Postgres, "basic") \in Lines
  BY TargetLineType DEF TargetNames, TargetValues, TargetDirs
<1>5. SetToSeq(S) \in Seq(Lines)
  BY <1>2, <1>3, SetToSeqType
<1> HIDE DEF S
<1>6. zpkg \in Seq(Lines)
  BY <1>1, <1>4, <1>5 DEF S
<1>7. outcome = ""
  BY DEF GovernanceInit
<1> QED BY <1>6, <1>7 DEF GovInv, GovVerdictCurrent

\* The check is a function of the files.
LEMMA GovComplaintKept ==
    ASSUME UNCHANGED <<runtime, lanes, zpkg, contract, admission, participants>>
    PROVE  GovernanceComplaint' = GovernanceComplaint
<1>1. \A section : Recognised(section)' = Recognised(section)
  BY DEF Recognised
<1>2. Targets' = Targets /\ DuplicateTarget' = DuplicateTarget
  BY <1>1 DEF Targets, DuplicateTarget
<1>3. \A p : LinesOf(p)' = LinesOf(p)
  BY <1>1 DEF LinesOf
<1>4. Dependencies' = Dependencies
  BY <1>1, <1>3 DEF Dependencies
<1>5. RuntimeAligned' = RuntimeAligned /\ OtherTargets' = OtherTargets
  BY <1>2 DEF RuntimeAligned, RuntimeTargets, RuntimeTargetDirs, ExpectedRuntimeDirs, OtherTargets
<1>6. DependenciesAligned' = DependenciesAligned /\ DuplicateEntry' = DuplicateEntry
  BY <1>4 DEF DependenciesAligned, ContractEntries, DuplicateEntry
<1>7. Layout' = Layout
  BY DEF Layout
<1> QED BY <1>2, <1>5, <1>6, <1>7 DEF GovernanceComplaint

LEMMA RemoveAtType ==
    ASSUME NEW S, NEW s \in Seq(S), NEW k \in DOMAIN s
    PROVE  RemoveAt(s, k) \in Seq(S)
<1>1. SubSeq(s, 1, k - 1) \in Seq(S)
  BY SubSeqProperties
<1>2. SubSeq(s, k + 1, Len(s)) \in Seq(S)
  BY SubSeqProperties
<1> QED BY <1>1, <1>2 DEF RemoveAt

LEMMA AddLineInv ==
    ASSUME GovInv, NEW x \in Lines, AddLine(x)
    PROVE  GovInv'
<1>1. Append(zpkg, x) \in Seq(Lines)
  BY DEF GovInv
<1>2. outcome' = "" /\ zpkg' = Append(zpkg, x)
  BY DEF AddLine, Change
<1> QED BY <1>1, <1>2 DEF GovInv, GovVerdictCurrent

LEMMA GovNextInv == GovInv /\ [GovernanceNext]_governanceVars => GovInv'
<1> SUFFICES ASSUME GovInv, [GovernanceNext]_governanceVars PROVE GovInv'
  OBVIOUS
<1> USE DEF GovInv, GovVerdictCurrent
<1>1. ASSUME NEW l \in Languages, NEW kind, AddLanguage(l, kind) PROVE GovInv'
  BY <1>1 DEF AddLanguage, Change
<1>2. ASSUME NEW l \in Languages, DropLanguage(l) PROVE GovInv'
  BY <1>2 DEF DropLanguage, Change
<1>3. ASSUME NEW l \in Languages, RequireParticipant(l) PROVE GovInv'
  BY <1>3 DEF RequireParticipant, Change
<1>4. ASSUME NEW d, DropLane(d) PROVE GovInv'
  BY <1>4 DEF DropLane, Change
<1>5. ASSUME NEW p \in Packages, NEW r \in Requirements, AddEntry(p, r) PROVE GovInv'
  BY <1>5 DEF AddEntry, Change
<1>6. ASSUME NEW p \in Packages, NEW r \in Requirements, NEW s \in Styles,
             AddLine(DependencyLine(p, r, s))
      PROVE  GovInv'
  BY <1>6, DependencyLineType, AddLineInv
<1>7. ASSUME NEW name \in Languages \cup {"postgres"}, NEW d \in TargetDirs,
             AddLine(TargetLine(name, d, "basic"))
      PROVE  GovInv'
  BY <1>7, TargetLineType, AddLineInv DEF TargetNames, TargetValues
<1>8. ASSUME NEW k \in DOMAIN zpkg, DropLine(k) PROVE GovInv'
  BY <1>8, RemoveAtType DEF DropLine, Change
<1>9. CASE LoosenPolicy
  BY <1>9 DEF LoosenPolicy, Change
<1>10. CASE CheckGovernance
  BY <1>10, GovComplaintKept DEF CheckGovernance
<1>11. CASE UNCHANGED governanceVars
  BY <1>11, GovComplaintKept DEF governanceVars
<1> QED BY <1>1, <1>2, <1>3, <1>4, <1>5, <1>6, <1>7, <1>8, <1>9, <1>10, <1>11 DEF GovernanceNext

\* A verdict is about the present files, and every line of the manifest has one of the two forms.
THEOREM GovernanceInvariance == ASSUME IsFiniteSet(Languages) PROVE GovernanceSpec => []GovInv
BY GovInitInv, GovNextInv, PTL DEF GovernanceSpec
-----------------------------------------------------------------------------
(* Targets: the lines that name one are told apart by their names, so the  *)
(* comparison of two sizes excludes two lines for one directory.           *)

LEMMA LinesDomain ==
    ASSUME GovInv
    PROVE  /\ DOMAIN zpkg = 1 .. Len(zpkg) /\ Len(zpkg) \in Nat
           /\ \A k \in DOMAIN zpkg : zpkg[k] \in Lines
BY DEF GovInv

LEMMA TargetsDeclared ==
    ASSUME GovInv
    PROVE  /\ Recognised("targets") = {k \in DOMAIN zpkg : zpkg[k].section[1] = "targets"}
           /\ DirsDeclared = {zpkg[k].value : k \in Recognised("targets")}
           /\ DirsDeclared = {t.dir : t \in Targets}
<1>1. Recognised("targets") = {k \in DOMAIN zpkg : zpkg[k].section[1] = "targets"}
  BY LinesDomain, LineForms DEF Recognised
<1>2. DirsDeclared = {zpkg[k].value : k \in Recognised("targets")}
  BY <1>1 DEF DirsDeclared, ToSet
<1> DEFINE target(k) == [name |-> zpkg[k].section[2], dir |-> zpkg[k].value]
<1>3. \A k : target(k).dir = zpkg[k].value
  OBVIOUS
<1>4. Targets = {target(k) : k \in Recognised("targets")}
  BY DEF Targets
<1> HIDE DEF target
<1>5. DirsDeclared = {t.dir : t \in Targets}
  BY <1>2, <1>3, <1>4
<1> QED BY <1>1, <1>2, <1>5

LEMMA TargetsFinite == ASSUME GovInv PROVE IsFiniteSet(RuntimeTargets)
<1> DEFINE R == Recognised("targets")
           g == [k \in R |-> [name |-> zpkg[k].section[2], dir |-> zpkg[k].value]]
<1>1. IsFiniteSet(DOMAIN zpkg)
  BY LinesDomain, FS_Interval
<1>2. IsFiniteSet(R)
  BY <1>1, FS_Subset DEF Recognised
<1>3. g \in Surjection(R, Targets)
  BY DEF Surjection, Targets
<1>4. IsFiniteSet(Targets)
  BY <1>2, <1>3, FS_Surjection
<1> QED BY <1>4, FS_Subset DEF RuntimeTargets

LEMMA OneLineEach ==
    ASSUME GovInv, ~ DuplicateTarget, RuntimeAligned, NEW l \in DOMAIN runtime
    PROVE  Cardinality({k \in DOMAIN zpkg :
                            zpkg[k].section[1] = "targets" /\ zpkg[k].value = Lang(l)}) = 1
<1> DEFINE R == Recognised("targets")
           K == {k \in DOMAIN zpkg : zpkg[k].section[1] = "targets" /\ zpkg[k].value = Lang(l)}
           target(k) == [name |-> zpkg[k].section[2], dir |-> zpkg[k].value]
           f == [t \in RuntimeTargets |-> t.dir]
<1>1. K = {k \in R : zpkg[k].value = Lang(l)}
  BY TargetsDeclared
<1>2. IsFiniteSet(RuntimeTargets)
  BY TargetsFinite
<1>3. f \in Injection(RuntimeTargets, RuntimeTargetDirs)
  <2>1. f \in Surjection(RuntimeTargets, RuntimeTargetDirs)
    BY DEF Surjection, RuntimeTargetDirs
  <2> QED BY <2>1, <1>2, FS_SurjSameCardinalityImpliesInj DEF RuntimeAligned
<1>4. \A k \in K : target(k) \in RuntimeTargets /\ f[target(k)] = Lang(l)
  <2> SUFFICES ASSUME NEW k \in K PROVE target(k) \in RuntimeTargets /\ f[target(k)] = Lang(l)
    OBVIOUS
  <2>1. target(k) \in Targets /\ target(k).dir = Lang(l)
    BY <1>1 DEF Targets
  <2>2. target(k) \in RuntimeTargets
    BY <2>1 DEF RuntimeTargets, Lang
  <2> QED BY <2>1, <2>2
<1>5. \A j, k \in K : j = k
  <2> SUFFICES ASSUME NEW j \in K, NEW k \in K PROVE j = k
    OBVIOUS
  <2>1. target(j) = target(k)
    <3>1. \A t, u \in RuntimeTargets : f[t] = f[u] => t = u
      BY <1>3, Zenon DEF Injection, IsInjective
    <3>2. /\ target(j) \in RuntimeTargets /\ f[target(j)] = Lang(l)
          /\ target(k) \in RuntimeTargets /\ f[target(k)] = Lang(l)
      BY <1>4
    <3> HIDE DEF f, target, K
    <3> QED BY <3>1, <3>2
  <2>2. zpkg[j].section[2] = zpkg[k].section[2]
    BY <2>1
  <2>3. /\ zpkg[j].section = <<"targets", zpkg[j].section[2]>>
        /\ zpkg[k].section = <<"targets", zpkg[k].section[2]>>
    BY LinesDomain, LineForms
  <2> QED BY <1>1, <2>2, <2>3 DEF DuplicateTarget
<1>6. \E k \in K : TRUE
  <2>1. Lang(l) \in RuntimeTargetDirs
    BY DEF RuntimeAligned, ExpectedRuntimeDirs
  <2>2. PICK t \in Targets : t.dir = Lang(l)
    BY <2>1 DEF RuntimeTargetDirs, RuntimeTargets
  <2> QED BY <1>1, <2>2 DEF Targets
<1>7. \E k : K = {k}
  BY <1>5, <1>6
<1> QED BY <1>7, FS_Singleton

LEMMA PassMeansAligned == GovInv => Aligned
<1> SUFFICES ASSUME GovInv, outcome = "passed" PROVE
        /\ {d \in DirsDeclared : d[1] = "langs"} = {Lang(l) : l \in DOMAIN runtime}
        /\ \A l \in DOMAIN runtime :
              Cardinality({k \in DOMAIN zpkg : zpkg[k].section[1] = "targets" /\ zpkg[k].value = Lang(l)}) = 1
        /\ participants \subseteq {l \in DOMAIN runtime : runtime[l] = "directory"}
        /\ AdminOrm \notin DirsDeclared /\ \A d \in DirsDeclared : d[1] # "languages"
        /\ contract.safe /\ admission = "as agreed"
  BY DEF Aligned
<1>1. /\ Layout /\ ~ DuplicateTarget /\ RuntimeAligned /\ OtherTargets /\ contract.safe
      /\ admission = "as agreed" /\ participants \subseteq DOMAIN runtime
  BY DEF GovInv, GovVerdictCurrent, GovernanceComplaint
<1>2. {d \in DirsDeclared : d[1] = "langs"} = RuntimeTargetDirs
  BY TargetsDeclared DEF RuntimeTargetDirs, RuntimeTargets
<1>3. AdminOrm \notin DirsDeclared /\ \A d \in DirsDeclared : d[1] # "languages"
  BY <1>1, TargetsDeclared DEF OtherTargets
<1> QED BY <1>1, <1>2, <1>3, OneLineEach DEF RuntimeAligned, ExpectedRuntimeDirs, Layout
-----------------------------------------------------------------------------
(* Dependencies: a later line wins, so the map of parseZpkg speaks for all *)
(* lines exactly where no package is written down with two versions.       *)

LEMMA MaxOfPositions ==
    ASSUME NEW n \in Nat, NEW S \in SUBSET (1 .. n), S # {}
    PROVE  Max(S) \in S
<1> DEFINE T == {n - k : k \in S}
<1>1. \A k \in S : k \in Int /\ k <= n /\ n - k \in Nat
  <2>1. \A k \in 1 .. n : k \in Int /\ k <= n /\ n - k \in Nat
    OBVIOUS
  <2> QED BY <2>1
<1>2. T \subseteq Nat /\ T # {}
  BY <1>1
<1>3. PICK x \in T : \A y \in T : ~ (<<y, x>> \in OpToRel(<, Nat))
  BY <1>2, NatLessThanWellFounded, WFMin
<1>4. \A y \in T : ~ (y < x)
  BY <1>2, <1>3 DEF OpToRel
<1>5. PICK k \in S : x = n - k
  OBVIOUS
<1>6. ASSUME NEW j \in S PROVE k >= j
  <2>1. ~ (n - j < n - k)
    BY <1>4, <1>5
  <2> QED BY <2>1, <1>1
<1> QED BY <1>6 DEF Max

LEMMA LastLine ==
    ASSUME GovInv, NEW p \in DOMAIN Dependencies
    PROVE  \E k \in Recognised("dependencies") :
              zpkg[k].key = p /\ Dependencies[p] = zpkg[k].value
<1>1. LinesOf(p) # {} /\ LinesOf(p) \in SUBSET (1 .. Len(zpkg)) /\ Len(zpkg) \in Nat
  BY LinesDomain DEF LinesOf, Dependencies, Recognised
<1>2. Max(LinesOf(p)) \in LinesOf(p)
  BY <1>1, MaxOfPositions
<1> QED BY <1>2 DEF LinesOf, Dependencies

LEMMA DeclaredLines ==
    ASSUME GovInv
    PROVE  Declared = {[package |-> zpkg[k].key, requirement |-> zpkg[k].value] :
                          k \in Recognised("dependencies")}
<1> DEFINE D == {x \in ToSet(zpkg) : x.section = <<"dependencies">> /\ x.style = "basic"}
<1>1. D = {zpkg[k] : k \in Recognised("dependencies")}
  BY LinesDomain, LineForms DEF ToSet, Recognised
<1>2. Declared = {[package |-> x.key, requirement |-> x.value] : x \in D}
  BY DEF Declared
<1> HIDE DEF D
<1> QED BY <1>1, <1>2

LEMMA PassMeansDependenciesReconciled == GovInv => DependenciesReconciled
<1> DEFINE entry(p, r) == [package |-> p, requirement |-> r]
<1> SUFFICES ASSUME GovInv, outcome = "passed",
                    \A d, e \in Declared : d.package = e.package => d = e
             PROVE  Declared = ToSet(contract.entries)
  BY DEF DependenciesReconciled
<1>1. DependenciesAligned
  BY DEF GovInv, GovVerdictCurrent, GovernanceComplaint
<1>2. ToSet(contract.entries) = {entry(p, Dependencies[p]) : p \in DOMAIN Dependencies}
  BY <1>1 DEF DependenciesAligned, ContractEntries
<1>3. Declared = {entry(zpkg[k].key, zpkg[k].value) : k \in Recognised("dependencies")}
  BY DeclaredLines
<1>4. \A p, r : entry(p, r).package = p /\ entry(p, r).requirement = r
  OBVIOUS
<1> HIDE DEF entry
<1>5. ASSUME NEW p \in DOMAIN Dependencies PROVE entry(p, Dependencies[p]) \in Declared
  BY <1>3, LastLine
<1>6. ASSUME NEW k \in Recognised("dependencies")
      PROVE  entry(zpkg[k].key, zpkg[k].value) \in ToSet(contract.entries)
  <2>1. zpkg[k].key \in DOMAIN Dependencies
    BY DEF Dependencies
  <2>2. entry(zpkg[k].key, Dependencies[zpkg[k].key]) = entry(zpkg[k].key, zpkg[k].value)
    BY <1>3, <1>4, <1>5, <2>1
  <2> QED BY <1>2, <2>1, <2>2
<1> QED BY <1>2, <1>3, <1>5, <1>6

\* A pass means that the change has landed in every lane: each language is a directory with exactly
\* one package target and the conformance participants are among them, the ORM and the tooling are
\* not published, the policies are as agreed (check.mjs:58-107), and the contract lists the declared
\* dependencies at the declared versions.
THEOREM PassIsReconciled == ASSUME IsFiniteSet(Languages) PROVE GovernanceSpec => []PassMeansReconciled
<1>1. GovInv => PassMeansReconciled
  BY PassMeansAligned, PassMeansDependenciesReconciled DEF PassMeansReconciled
<1> QED BY <1>1, GovernanceInvariance, PTL
-----------------------------------------------------------------------------
(* An honest repository passes.                                            *)

\* No language has the name of another package target.
OwnNames == {"postgres", "repository"} \cap Languages = {}

\* The lines of a repository with the languages ls and no dependencies.
HonestLines(ls) ==
    {TargetLine("repository", Whole, "basic"), TargetLine("postgres", Postgres, "basic")}
        \cup {TargetLine(l, Lang(l), "basic") : l \in ls}

LEMMA HonestForms ==
    ASSUME NEW ls, NEW x \in HonestLines(ls)
    PROVE  /\ x.section[1] = "targets" /\ x.style = "basic"
           /\ \/ x.section[2] = "repository" /\ x.value = Whole
              \/ x.section[2] = "postgres" /\ x.value = Postgres
              \/ x.section[2] \in ls /\ x.value = Lang(x.section[2])
           /\ x = TargetLine(x.section[2], x.value, "basic")
<1>1. CASE x = TargetLine("repository", Whole, "basic")
  BY <1>1 DEF TargetLine
<1>2. CASE x = TargetLine("postgres", Postgres, "basic")
  BY <1>2 DEF TargetLine
<1>3. CASE \E l \in ls : x = TargetLine(l, Lang(l), "basic")
  BY <1>3 DEF TargetLine
<1> QED BY <1>1, <1>2, <1>3 DEF HonestLines

LEMMA DirsDiffer ==
    ASSUME NEW l
    PROVE  /\ Lang(l)[1] = "langs" /\ Whole[1] = "." /\ Postgres[1] = "database"
           /\ Lang(l) # AdminOrm /\ Whole # AdminOrm /\ Postgres # AdminOrm
           /\ \A m : Lang(l) = Lang(m) => l = m
BY DEF Lang, Whole, Postgres, AdminOrm

Target(n, d) == [name |-> n, dir |-> d]
HonestTargets(ls) ==
    {Target("repository", Whole), Target("postgres", Postgres)} \cup {Target(l, Lang(l)) : l \in ls}

LEMMA TargetFields == ASSUME NEW n, NEW d PROVE Target(n, d).name = n /\ Target(n, d).dir = d
BY DEF Target

LEMMA HonestManifest ==
    ASSUME OwnNames, NEW ls \in SUBSET Languages, IsInjective(zpkg), ToSet(zpkg) = HonestLines(ls)
    PROVE  /\ ~ DuplicateTarget /\ Targets = HonestTargets(ls)
           /\ Recognised("dependencies") = {}
<1>1. \A k \in DOMAIN zpkg : zpkg[k] \in HonestLines(ls)
  BY DEF ToSet
<1>2. Recognised("targets") = DOMAIN zpkg /\ Recognised("dependencies") = {}
  BY <1>1, HonestForms DEF Recognised
<1>3. ~ DuplicateTarget
  <2> SUFFICES ASSUME NEW j \in DOMAIN zpkg, NEW k \in DOMAIN zpkg, zpkg[j].section = zpkg[k].section
               PROVE  j = k
    BY <1>2 DEF DuplicateTarget
  <2>1. zpkg[j] \in HonestLines(ls) /\ zpkg[k] \in HonestLines(ls)
    BY <1>1
  <2> DEFINE n == zpkg[j].section[2]
  <2>2. zpkg[k].section[2] = n
    OBVIOUS
  <2>3. /\ \/ n = "repository" /\ zpkg[j].value = Whole
           \/ n = "postgres" /\ zpkg[j].value = Postgres
           \/ n \in ls /\ zpkg[j].value = Lang(n)
        /\ \/ n = "repository" /\ zpkg[k].value = Whole
           \/ n = "postgres" /\ zpkg[k].value = Postgres
           \/ n \in ls /\ zpkg[k].value = Lang(n)
    BY <2>1, <2>2, HonestForms
  <2>4. "repository" \notin ls /\ "postgres" \notin ls
    BY DEF OwnNames
  <2>5. zpkg[j].value = zpkg[k].value
    BY <2>3, <2>4
  <2>6. zpkg[j] = zpkg[k]
    BY <2>1, <2>2, <2>5, HonestForms
  <2> QED BY <2>6 DEF IsInjective
<1>4. Targets = HonestTargets(ls)
  <2>1. Targets = {Target(zpkg[k].section[2], zpkg[k].value) : k \in DOMAIN zpkg}
    BY <1>2 DEF Targets, Target
  <2>2. Targets = {Target(x.section[2], x.value) : x \in HonestLines(ls)}
    BY <2>1 DEF ToSet
  <2>3. \A n, d : TargetLine(n, d, "basic").section[2] = n /\ TargetLine(n, d, "basic").value = d
    BY DEF TargetLine
  <2>4. \A x \in HonestLines(ls) : Target(x.section[2], x.value) \in HonestTargets(ls)
    BY HonestForms DEF HonestTargets
  <2>5. ASSUME NEW t \in HonestTargets(ls)
        PROVE  \E x \in HonestLines(ls) : t = Target(x.section[2], x.value)
    <3>1. PICK n, d : t = Target(n, d) /\ TargetLine(n, d, "basic") \in HonestLines(ls)
      BY DEF HonestTargets, HonestLines
    <3> QED BY <2>3, <3>1
  <2> QED BY <2>2, <2>4, <2>5
<1> QED BY <1>2, <1>3, <1>4

LEMMA HonestAlignment ==
    ASSUME GovInv, NEW ls, DOMAIN runtime = ls, Targets = HonestTargets(ls)
    PROVE  RuntimeAligned /\ OtherTargets
<1>1. RuntimeTargets = {Target(l, Lang(l)) : l \in ls}
  <2>1. \A l : Target(l, Lang(l)).dir[1] = "langs"
    BY TargetFields, DirsDiffer
  <2>2. Target("repository", Whole).dir[1] # "langs" /\ Target("postgres", Postgres).dir[1] # "langs"
    BY TargetFields, DirsDiffer
  <2> QED BY <2>1, <2>2 DEF RuntimeTargets, HonestTargets
<1>2. RuntimeTargetDirs = ExpectedRuntimeDirs
  BY <1>1, TargetFields DEF RuntimeTargetDirs, ExpectedRuntimeDirs
<1>3. Cardinality(RuntimeTargets) = Cardinality(RuntimeTargetDirs)
  <2> DEFINE f == [t \in RuntimeTargets |-> t.dir]
  <2>1. f \in Surjection(RuntimeTargets, RuntimeTargetDirs)
    BY DEF Surjection, RuntimeTargetDirs
  <2>2. \A s, t \in RuntimeTargets : s.dir = t.dir => s = t
    BY <1>1, TargetFields, DirsDiffer
  <2>3. f \in Injection(RuntimeTargets, RuntimeTargetDirs)
    BY <2>1, <2>2 DEF Injection, IsInjective, Surjection
  <2> QED BY <2>1, <2>3, TargetsFinite, FS_Surjection
<1>4. OtherTargets
  <2>1. [name |-> "postgres", dir |-> Postgres] \in Targets
    BY DEF HonestTargets, Target
  <2>2. ASSUME NEW t \in Targets PROVE t.dir # AdminOrm /\ t.dir[1] # "languages"
    <3>1. t.dir \in {Whole, Postgres} \/ \E l \in ls : t.dir = Lang(l)
      BY TargetFields DEF HonestTargets
    <3> QED BY <3>1, DirsDiffer
  <2> QED BY <2>1, <2>2 DEF OtherTargets
<1> QED BY <1>2, <1>3, <1>4 DEF RuntimeAligned

LEMMA HonestDependencies ==
    ASSUME contract.entries = << >>, Recognised("dependencies") = {}
    PROVE  ~ DuplicateEntry /\ DependenciesAligned
<1>1. DOMAIN contract.entries = {}
  OBVIOUS
<1>2. DOMAIN Dependencies = {}
  BY DEF Dependencies
<1> QED BY <1>1, <1>2 DEF DuplicateEntry, DependenciesAligned, ContractEntries, ToSet

LEMMA HonestPass ==
    ASSUME OwnNames, NEW ls \in SUBSET Languages, DOMAIN runtime = ls, Layout,
           contract.entries = << >>, contract.safe, admission = "as agreed",
           participants = {}, IsInjective(zpkg), ToSet(zpkg) = HonestLines(ls), GovInv
    PROVE  GovernanceComplaint = "passed"
<1>1. /\ ~ DuplicateTarget /\ Targets = HonestTargets(ls)
      /\ Recognised("dependencies") = {}
  BY HonestManifest
<1>2. RuntimeAligned /\ OtherTargets
  BY <1>1, HonestAlignment
<1>3. ~ DuplicateEntry /\ DependenciesAligned
  BY <1>1, HonestDependencies
<1> QED BY <1>1, <1>2, <1>3 DEF GovernanceComplaint

\* The check asks for no more than that the lanes agree: a repository whose languages have one
\* target each, with no dependencies, is never refused.
THEOREM HonestIsPassed ==
    ASSUME IsFiniteSet(Languages), OwnNames PROVE GovernanceSpec => []HonestPasses
<1>1. GovInv => HonestPasses
  <2>1. contract = [entries |-> << >>, safe |-> TRUE] => contract.entries = << >> /\ contract.safe
    OBVIOUS
  <2> SUFFICES ASSUME GovInv, Layout, contract = [entries |-> << >>, safe |-> TRUE],
                      admission = "as agreed", participants = {}, IsInjective(zpkg),
                      NEW ls \in SUBSET Languages, DOMAIN runtime = ls, ToSet(zpkg) = HonestLines(ls)
               PROVE  outcome \in {"", "passed"}
    BY DEF HonestPasses, HonestLines
  <2> QED BY <2>1, HonestPass DEF GovInv, GovVerdictCurrent
<1> QED BY <1>1, GovernanceInvariance, PTL
-----------------------------------------------------------------------------
(* The two reports (LintReport), for any messages, rules and settings: the *)
(* entries are exact for the messages counted so far, and the sections are *)
(* the entries in their order.                                             *)

Messages == [file : Nat, rule : Rules \cup {NoRule}, severity : 1 .. 2]
Entries == [rule : Rules, count : Nat, examples : Seq(Nat)]

LessOn(n) == {p \in (1 .. n) \X (1 .. n) : p[1] < p[2]}

\* The places of a rule among the first n messages, and the first max of a list.
Found(ms, n, r) == {k \in 1 .. n : ms[k].rule = r}
Located(ms, n, r) == InOrder(Found(ms, n, r), LessOn(Len(ms)))
Shown(max, s) == IF max = NaN THEN << >> ELSE SubSeq(s, 1, IF Len(s) < max THEN Len(s) ELSE max)

EntrySound(max, ms, n, e) ==
    /\ e \in Entries
    /\ e.count = Cardinality(Found(ms, n, e.rule))
    /\ e.examples = Shown(max, Located(ms, n, e.rule))

EntriesSound(max, ms, n, es) ==
    /\ es \in Seq(Entries)
    /\ \A k \in DOMAIN es : EntrySound(max, ms, n, es[k])
    /\ \A j, k \in DOMAIN es : es[j].rule = es[k].rule => j = k
    /\ \A i \in 1 .. n : ms[i].rule = NoRule \/ \E k \in DOMAIN es : es[k].rule = ms[i].rule

\* The messages counted so far.
Done == IF next = 0 THEN 0 ELSE next - 1

\* The inductive invariant.
ReportInv ==
    /\ messages \in Seq(Messages) /\ next \in 0 .. Len(messages) + 1
    /\ errors \in Nat /\ warnings \in Nat /\ errors + warnings = Done
    /\ EntriesSound(MAX, messages, Done, byRule)
    /\ parseErrors = Located(messages, Done, NoRule)
    /\ next = 0 => byRule = << >>
    /\ printed # << >> => next = Len(messages) + 1 /\ printed = Sections
-----------------------------------------------------------------------------
(* Orders.                                                                 *)

Earlier(S, R, x) == {y \in S : <<y, x>> \in R}

\* InOrder lists every element once, each after those that come before it.
LEMMA OrderFacts ==
    ASSUME NEW S, IsFiniteSet(S), NEW R,
           \A x \in S : <<x, x>> \notin R,
           \A x, y, z \in S : <<x, y>> \in R /\ <<y, z>> \in R => <<x, z>> \in R,
           \A x, y \in S : x # y => <<x, y>> \in R \/ <<y, x>> \in R
    PROVE  /\ Cardinality(S) \in Nat
           /\ InOrder(S, R) \in [1 .. Cardinality(S) -> S]
           /\ \A x \in S : \E k \in 1 .. Cardinality(S) : InOrder(S, R)[k] = x
           /\ \A j, k \in 1 .. Cardinality(S) : j < k => <<InOrder(S, R)[j], InOrder(S, R)[k]>> \in R
           /\ \A j, k \in 1 .. Cardinality(S) : InOrder(S, R)[j] = InOrder(S, R)[k] => j = k
           /\ \A k \in 1 .. Cardinality(S) : \A x \in S :
                 Cardinality(Earlier(S, R, x)) = k - 1 => InOrder(S, R)[k] = x
<1> DEFINE n == Cardinality(S)
           Pred(x) == Earlier(S, R, x)
           p == InOrder(S, R)
<1>1. n \in Nat
  BY FS_CardinalityType
<1>a. \A x, y \in S : y \in Pred(x) <=> <<y, x>> \in R
  BY DEF Earlier
<1>b. \A x \in S : Pred(x) \in SUBSET S
  BY DEF Earlier
<1>2. p = [k \in 1 .. n |-> CHOOSE x \in S : Cardinality(Pred(x)) = k - 1]
  BY DEF InOrder, Earlier
<1> HIDE DEF p
<1>3. \A x \in S : IsFiniteSet(Pred(x)) /\ Cardinality(Pred(x)) \in Nat
  <2> HIDE DEF Pred
  <2> QED BY <1>b, FS_Subset, FS_CardinalityType
<1>4. ASSUME NEW x \in S PROVE Cardinality(Pred(x)) \in 0 .. (n - 1)
  <2>1. IsFiniteSet(S \ {x}) /\ Cardinality(S \ {x}) = n - 1
    BY FS_RemoveElement
  <2>2. Pred(x) \in SUBSET (S \ {x})
    BY DEF Earlier
  <2>3. Cardinality(Pred(x)) <= Cardinality(S \ {x})
    <3> HIDE DEF Pred
    <3> QED BY <2>1, <2>2, FS_Subset
  <2> HIDE DEF Pred, n
  <2> QED BY <1>1, <1>3, <2>1, <2>3
<1>5. ASSUME NEW x \in S, NEW y \in S, <<x, y>> \in R
      PROVE  Cardinality(Pred(x)) < Cardinality(Pred(y))
  <2>1. Pred(x) \in SUBSET Pred(y)
    BY <1>5 DEF Earlier
  <2>2. x \in Pred(y) /\ x \notin Pred(x)
    BY <1>5, <1>a
  <2>3. /\ Cardinality(Pred(x)) <= Cardinality(Pred(y))
        /\ Cardinality(Pred(y)) = Cardinality(Pred(x)) => Pred(y) = Pred(x)
    BY <1>3, <2>1, FS_Subset
  <2>4. Pred(y) # Pred(x)
    BY <2>2
  <2> HIDE DEF Pred
  <2> QED BY <1>3, <2>3, <2>4
<1>6. \A x, y \in S : Cardinality(Pred(x)) = Cardinality(Pred(y)) => x = y
  <2> SUFFICES ASSUME NEW x \in S, NEW y \in S, x # y
               PROVE  Cardinality(Pred(x)) # Cardinality(Pred(y))
    OBVIOUS
  <2>1. Cardinality(Pred(x)) \in Nat /\ Cardinality(Pred(y)) \in Nat
    BY <1>3
  <2>2. \/ Cardinality(Pred(x)) < Cardinality(Pred(y))
        \/ Cardinality(Pred(y)) < Cardinality(Pred(x))
    BY <1>5
  <2> HIDE DEF Pred
  <2> QED BY <2>1, <2>2
<1> DEFINE f == [x \in S |-> Cardinality(Pred(x))]
<1>7. f \in Injection(S, 0 .. (n - 1))
  <2> HIDE DEF Pred, n
  <2>1. f \in [S -> 0 .. (n - 1)]
    BY <1>4
  <2>2. \A x, y \in S : f[x] = f[y] => x = y
    BY <1>6
  <2> HIDE DEF f
  <2> QED BY <2>1, <2>2 DEF Injection, IsInjective
<1>8. IsFiniteSet(0 .. (n - 1)) /\ Cardinality(0 .. (n - 1)) = n
  <2> HIDE DEF n
  <2> QED BY <1>1, FS_Interval
<1>9. f \in Surjection(S, 0 .. (n - 1))
  BY <1>7, <1>8, FS_Injection
<1>10. ASSUME NEW k \in 1 .. n PROVE \E x \in S : Cardinality(Pred(x)) = k - 1
  <2>1. k - 1 \in 0 .. (n - 1)
    BY <1>1
  <2>2. \E x \in S : f[x] = k - 1
    BY <1>9, <2>1 DEF Surjection
  <2> QED BY <2>2
<1> HIDE DEF Pred, f, n
<1>11. \A k \in 1 .. n : p[k] \in S /\ Cardinality(Pred(p[k])) = k - 1
  BY <1>2, <1>10
<1>12. p \in [1 .. n -> S]
  BY <1>2, <1>11
<1>13. \A k \in 1 .. n : \A x \in S : Cardinality(Pred(x)) = k - 1 => p[k] = x
  BY <1>6, <1>11
<1>14. ASSUME NEW x \in S PROVE \E k \in 1 .. n : p[k] = x
  <2> DEFINE c == Cardinality(Pred(x))
  <2>1. c \in 0 .. (n - 1)
    BY <1>4
  <2> HIDE DEF c
  <2>2. c + 1 \in 1 .. n /\ c = (c + 1) - 1
    BY <1>1, <2>1
  <2>3. p[c + 1] = x
    BY <1>13, <2>2 DEF c
  <2> QED BY <2>2, <2>3
<1>15. ASSUME NEW j \in 1 .. n, NEW k \in 1 .. n, p[j] = p[k] PROVE j = k
  <2>1. j - 1 = k - 1
    BY <1>11, <1>15
  <2> QED BY <2>1
<1>16. ASSUME NEW j \in 1 .. n, NEW k \in 1 .. n, j < k PROVE <<p[j], p[k]>> \in R
  <2>1. p[j] \in S /\ p[k] \in S /\ p[j] # p[k]
    BY <1>11, <1>15, <1>16
  <2>2. <<p[k], p[j]>> \notin R
    <3> SUFFICES ASSUME <<p[k], p[j]>> \in R PROVE FALSE
      OBVIOUS
    <3>1. k - 1 < j - 1
      BY <1>5, <1>11, <2>1
    <3> QED BY <1>16, <3>1
  <2> QED BY <2>1, <2>2
<1> QED BY <1>1, <1>12, <1>13, <1>14, <1>15, <1>16 DEF n, p, Pred

\* There is one increasing list of the elements of a set of places, and InOrder finds it.
LEMMA OrderUnique ==
    ASSUME NEW n \in Nat, NEW S \in SUBSET (1 .. n), NEW m \in Nat, NEW f \in [1 .. m -> S],
           \A x \in S : \E k \in 1 .. m : f[k] = x,
           \A j, k \in 1 .. m : j < k => f[j] < f[k]
    PROVE  Cardinality(S) = m /\ InOrder(S, LessOn(n)) = f
<1> DEFINE R == LessOn(n)
           p == InOrder(S, R)
<1>1. IsFiniteSet(S)
  <2>1. IsFiniteSet(1 .. n)
    BY FS_Interval
  <2> QED BY <2>1, FS_Subset
<1>2. \A x, y \in S : <<x, y>> \in R <=> x < y
  BY DEF LessOn
<1>3. \A x \in S : x \in Nat
  OBVIOUS
<1> HIDE DEF R
<1>4. /\ \A x \in S : <<x, x>> \notin R
      /\ \A x, y, z \in S : <<x, y>> \in R /\ <<y, z>> \in R => <<x, z>> \in R
      /\ \A x, y \in S : x # y => <<x, y>> \in R \/ <<y, x>> \in R
  BY <1>2, <1>3
<1> HIDE DEF p
<1>5. /\ p \in [1 .. Cardinality(S) -> S]
      /\ \A k \in 1 .. Cardinality(S) : \A x \in S :
            Cardinality(Earlier(S, R, x)) = k - 1 => p[k] = x
  <2>1. p = InOrder(S, R)
    BY DEF p
  <2>2. InOrder(S, R) \in [1 .. Cardinality(S) -> S]
    BY <1>1, <1>4, OrderFacts
  <2>3. \A k \in 1 .. Cardinality(S) : \A x \in S : Cardinality(Earlier(S, R, x)) = k - 1 => InOrder(S, R)[k] = x
    BY <1>1, <1>4, OrderFacts
  <2> QED BY <2>1, <2>2, <2>3
<1>6. \A j, k \in 1 .. m : f[j] = f[k] => j = k
  <2> SUFFICES ASSUME NEW j \in 1 .. m, NEW k \in 1 .. m, j # k PROVE f[j] # f[k]
    OBVIOUS
  <2>1. f[j] \in Nat /\ f[k] \in Nat
    BY <1>3
  <2>2. j < k \/ k < j
    OBVIOUS
  <2>3. f[j] < f[k] \/ f[k] < f[j]
    BY <2>2
  <2> QED BY <2>1, <2>3
<1>7. Cardinality(S) = m
  <2>1. f \in Bijection(1 .. m, S)
    BY <1>6 DEF Bijection, Injection, Surjection, IsInjective
  <2>2. IsFiniteSet(1 .. m) /\ Cardinality(1 .. m) = m
    BY FS_Interval
  <2>3. Cardinality(1 .. m) = Cardinality(S)
    BY <2>1, <2>2, FS_Bijection DEF ExistsBijection
  <2> QED BY <2>2, <2>3
<1>8. ASSUME NEW k \in 1 .. m PROVE p[k] = f[k]
  <2> DEFINE P == Earlier(S, R, f[k])
             g == [j \in 1 .. (k - 1) |-> f[j]]
  <2>1. ASSUME NEW j \in 1 .. m PROVE f[j] \in P <=> j < k
    <3>1. f[j] \in S /\ f[k] \in S
      OBVIOUS
    <3>2. f[j] \in P <=> f[j] < f[k]
      BY <1>2, <3>1 DEF Earlier
    <3>3. j < k => f[j] < f[k]
      OBVIOUS
    <3>4. k < j => f[k] < f[j]
      OBVIOUS
    <3>5. f[j] \in Nat /\ f[k] \in Nat
      BY <1>3, <3>1
    <3>6. j < k \/ k < j \/ j = k
      OBVIOUS
    <3> HIDE DEF P
    <3> QED BY <3>2, <3>3, <3>4, <3>5, <3>6
  <2>2. \A y \in P : \E j \in 1 .. (k - 1) : f[j] = y
    <3> SUFFICES ASSUME NEW y \in P PROVE \E j \in 1 .. (k - 1) : f[j] = y
      OBVIOUS
    <3>1. PICK j \in 1 .. m : f[j] = y
      BY DEF Earlier
    <3> HIDE DEF P
    <3>2. j < k
      BY <2>1, <3>1
    <3> QED BY <3>1, <3>2
  <2>a. \A y \in P : y \in S
    BY DEF Earlier
  <2> HIDE DEF P
  <2>3. g \in [1 .. (k - 1) -> P]
    BY <2>1
  <2>4. \A i, j \in 1 .. (k - 1) : g[i] = g[j] => i = j
    BY <1>6
  <2>5. \A y \in P : \E j \in 1 .. (k - 1) : g[j] = y
    BY <2>2
  <2> HIDE DEF g
  <2>6. g \in Bijection(1 .. (k - 1), P)
    BY <2>3, <2>4, <2>5 DEF Bijection, Injection, Surjection, IsInjective
  <2>7. IsFiniteSet(1 .. (k - 1)) /\ Cardinality(1 .. (k - 1)) = k - 1
    <3>1. 1 \in Int /\ k - 1 \in Int
      OBVIOUS
    <3>2. /\ IsFiniteSet(1 .. (k - 1))
          /\ Cardinality(1 .. (k - 1)) = IF 1 > k - 1 THEN 0 ELSE (k - 1) - 1 + 1
      BY <3>1, FS_Interval
    <3> QED BY <3>2
  <2>8. Cardinality(P) = k - 1
    BY <2>6, <2>7, FS_Bijection DEF ExistsBijection
  <2> QED BY <1>5, <1>7, <2>8 DEF P
<1>9. p \in [1 .. m -> S]
  BY <1>5, <1>7
<1>10. p = f
  BY <1>8, <1>9
<1> QED BY <1>7, <1>10 DEF p, R

\* The places found are listed in the order of the messages.
LEMMA LocatedFacts ==
    ASSUME NEW ms, NEW r, Len(ms) \in Nat, NEW n \in 0 .. Len(ms)
    PROVE  /\ IsFiniteSet(Found(ms, n, r)) /\ Cardinality(Found(ms, n, r)) \in Nat
           /\ Located(ms, n, r) \in [1 .. Cardinality(Found(ms, n, r)) -> Found(ms, n, r)]
           /\ \A x \in Found(ms, n, r) : \E k \in 1 .. Cardinality(Found(ms, n, r)) : Located(ms, n, r)[k] = x
           /\ \A j, k \in 1 .. Cardinality(Found(ms, n, r)) : j < k => Located(ms, n, r)[j] < Located(ms, n, r)[k]
           /\ Located(ms, n, r) \in Seq(1 .. n) /\ Len(Located(ms, n, r)) = Cardinality(Found(ms, n, r))
<1> DEFINE S == Found(ms, n, r)
           R == LessOn(Len(ms))
           p == InOrder(S, R)
<1>1. S \in SUBSET (1 .. n)
  BY DEF Found
<1>2. IsFiniteSet(S)
  <2>1. IsFiniteSet(1 .. n)
    BY FS_Interval
  <2> HIDE DEF S
  <2> QED BY <1>1, <2>1, FS_Subset
<1>3. \A x \in S : x \in 1 .. Len(ms)
  BY <1>1
<1>4. \A x, y \in S : <<x, y>> \in R <=> x < y
  BY <1>3 DEF LessOn
<1>5. \A x \in S : x \in Nat
  BY <1>3
<1> HIDE DEF R, S
<1>6. /\ \A x \in S : <<x, x>> \notin R
      /\ \A x, y, z \in S : <<x, y>> \in R /\ <<y, z>> \in R => <<x, z>> \in R
      /\ \A x, y \in S : x # y => <<x, y>> \in R \/ <<y, x>> \in R
  BY <1>4, <1>5
<1>7. /\ Cardinality(S) \in Nat
      /\ p \in [1 .. Cardinality(S) -> S]
      /\ \A x \in S : \E k \in 1 .. Cardinality(S) : p[k] = x
      /\ \A j, k \in 1 .. Cardinality(S) : j < k => <<p[j], p[k]>> \in R
  BY <1>2, <1>6, OrderFacts
<1> HIDE DEF p
<1>8. \A j, k \in 1 .. Cardinality(S) : j < k => p[j] < p[k]
  BY <1>4, <1>7
<1>9. p \in Seq(1 .. n) /\ Len(p) = Cardinality(S)
  <2>1. p \in [1 .. Cardinality(S) -> 1 .. n]
    BY <1>1, <1>7
  <2> DEFINE c == Cardinality(S)
  <2> HIDE DEF c
  <2>2. p \in [1 .. c -> 1 .. n] /\ c \in Nat
    BY <1>7, <2>1 DEF c
  <2>3. p \in Seq(1 .. n) /\ Len(p) = c
    BY <2>2
  <2> QED BY <2>3 DEF c
<1>10. p = Located(ms, n, r)
  BY DEF p, S, R, Located
<1> QED BY <1>2, <1>7, <1>8, <1>9, <1>10 DEF S

\* The next message is the last place of its own rule and no place of another one.
LEMMA LocatedNext ==
    ASSUME NEW ms, NEW r, Len(ms) \in Nat, NEW n \in 0 .. (Len(ms) - 1)
    PROVE  /\ ms[n + 1].rule = r =>
                 /\ Located(ms, n + 1, r) = Append(Located(ms, n, r), n + 1)
                 /\ Cardinality(Found(ms, n + 1, r)) = Cardinality(Found(ms, n, r)) + 1
           /\ ms[n + 1].rule # r =>
                 /\ Located(ms, n + 1, r) = Located(ms, n, r)
                 /\ Cardinality(Found(ms, n + 1, r)) = Cardinality(Found(ms, n, r))
<1>1. CASE ms[n + 1].rule # r
  <2>1. Found(ms, n + 1, r) = Found(ms, n, r)
    BY <1>1 DEF Found
  <2> QED BY <1>1, <2>1 DEF Located
<1>2. CASE ms[n + 1].rule = r
  <2> DEFINE S == Found(ms, n, r)
             T == Found(ms, n + 1, r)
             p == Located(ms, n, r)
             c == Cardinality(S)
             q == Append(p, n + 1)
  <2>1. T = S \cup {n + 1} /\ S \in SUBSET (1 .. n) /\ T \in SUBSET (1 .. Len(ms))
    BY <1>2 DEF Found
  <2>2. /\ c \in Nat /\ p \in [1 .. c -> S] /\ p \in Seq(1 .. n) /\ Len(p) = c
        /\ \A x \in S : \E k \in 1 .. c : p[k] = x
        /\ \A j, k \in 1 .. c : j < k => p[j] < p[k]
    <3>1. n \in 0 .. Len(ms)
      OBVIOUS
    <3>2. c \in Nat
      BY <3>1, LocatedFacts
    <3>3. p \in [1 .. c -> S]
      BY <3>1, LocatedFacts
    <3>4. p \in Seq(1 .. n) /\ Len(p) = c
      BY <3>1, LocatedFacts
    <3>5. \A x \in S : \E k \in 1 .. c : p[k] = x
      BY <3>1, LocatedFacts, SMTT(30)
    <3>6. \A j, k \in 1 .. c : j < k => p[j] < p[k]
      BY <3>1, LocatedFacts
    <3> QED BY <3>2, <3>3, <3>4, <3>5, <3>6
  <2> HIDE DEF S, T, p, c
  <2>3. q = [k \in 1 .. c + 1 |-> IF k = c + 1 THEN n + 1 ELSE p[k]]
    <3>1. DOMAIN p = 1 .. c
      BY <2>2
    <3>2. p \in Seq(Nat) /\ n + 1 \in Nat
      BY <2>2
    <3>3. q \in Seq(Nat) /\ Len(q) = c + 1
      BY <2>2, <3>2
    <3>4. \A k \in 1 .. c + 1 : q[k] = IF k = c + 1 THEN n + 1 ELSE p[k]
      BY <2>2, <3>2
    <3> HIDE DEF q
    <3> QED BY <2>2, <3>3, <3>4
  <2> HIDE DEF q
  <2>4. q \in [1 .. c + 1 -> T]
    <3>1. \A k \in 1 .. c + 1 : (IF k = c + 1 THEN n + 1 ELSE p[k]) \in T
      <4> TAKE k \in 1 .. c + 1
      <4>1. CASE k = c + 1
        BY <2>1, <4>1
      <4>2. CASE k # c + 1
        <5>1. k \in 1 .. c
          BY <2>2, <4>2
        <5> QED BY <2>1, <2>2, <4>2, <5>1
      <4> QED BY <4>1, <4>2
    <3> QED BY <2>3, <3>1
  <2>5. \A x \in T : \E k \in 1 .. c + 1 : q[k] = x
    <3> TAKE x \in T
    <3>1. CASE x = n + 1
      <4>1. c + 1 \in 1 .. c + 1 /\ q[c + 1] = x
        BY <2>2, <2>3, <3>1
      <4> QED BY <4>1
    <3>2. CASE x \in S
      <4>1. PICK k \in 1 .. c : p[k] = x
        BY <2>2, <3>2
      <4>2. k \in 1 .. c + 1 /\ q[k] = x
        BY <2>2, <2>3, <4>1
      <4> QED BY <4>2
    <3> QED BY <2>1, <3>1, <3>2
  <2>6. ASSUME NEW j \in 1 .. c + 1, NEW k \in 1 .. c + 1, j < k PROVE q[j] < q[k]
    <3>1. j \in 1 .. c /\ q[j] = p[j] /\ p[j] \in 1 .. n
      BY <2>1, <2>2, <2>3, <2>6
    <3>2. CASE k = c + 1
      <4>1. q[k] = n + 1
        BY <2>2, <2>3, <3>2
      <4> QED BY <3>1, <4>1
    <3>3. CASE k # c + 1
      <4>1. k \in 1 .. c /\ q[k] = p[k]
        BY <2>2, <2>3, <3>3
      <4> QED BY <2>2, <2>6, <3>1, <4>1
    <3> QED BY <3>2, <3>3
  <2>7. c + 1 \in Nat
    BY <2>2
  <2>8. Cardinality(T) = c + 1 /\ InOrder(T, LessOn(Len(ms))) = q
    BY <2>1, <2>4, <2>5, <2>6, <2>7, OrderUnique
  <2> QED BY <1>2, <2>8 DEF S, T, p, c, q, Located
<1> QED BY <1>1, <1>2

\* Nothing is found before the first message.
LEMMA LocatedNone ==
    ASSUME NEW ms, NEW r, Len(ms) \in Nat
    PROVE  Found(ms, 0, r) = {} /\ Cardinality(Found(ms, 0, r)) = 0 /\ Located(ms, 0, r) = << >>
<1>1. Found(ms, 0, r) = {}
  BY DEF Found
<1>2. Cardinality({}) = 0
  BY FS_EmptySet
<1>3. 0 \in 0 .. Len(ms)
  OBVIOUS
<1>4. Located(ms, 0, r) \in Seq(1 .. 0)
  BY <1>3, LocatedFacts
<1>5. Len(Located(ms, 0, r)) = Cardinality(Found(ms, 0, r))
  BY <1>3, LocatedFacts
<1> QED BY <1>1, <1>2, <1>4, <1>5
-----------------------------------------------------------------------------
(* The first max locations of a list, where max is a number above 0 or NaN. *)

Limits == {max \in Int : max = NaN \/ max >= 1}

LEMMA ShownFacts ==
    ASSUME NEW max \in Limits, NEW s \in Seq(Nat)
    PROVE  /\ Shown(max, s) \in Seq(Nat)
           /\ Len(Shown(max, s)) = IF max = NaN THEN 0 ELSE IF Len(s) < max THEN Len(s) ELSE max
           /\ \A i \in DOMAIN Shown(max, s) : i \in DOMAIN s /\ Shown(max, s)[i] = s[i]
<1>1. CASE max = NaN
  BY <1>1 DEF Shown
<1>2. CASE max # NaN
  <2> DEFINE k == IF Len(s) < max THEN Len(s) ELSE max
  <2>1. k \in 0 .. Len(s) /\ Shown(max, s) = SubSeq(s, 1, k)
    BY <1>2 DEF Shown, Limits
  <2> HIDE DEF k
  <2>2. SubSeq(s, 1, k) \in Seq(Nat) /\ Len(SubSeq(s, 1, k)) = k
    BY <2>1
  <2>3. \A i \in 1 .. k : i \in DOMAIN s /\ SubSeq(s, 1, k)[i] = s[i]
    BY <2>1
  <2> QED BY <1>2, <2>1, <2>2, <2>3 DEF k
<1> QED BY <1>1, <1>2

\* A location is kept while there is room, as in AddTo.
LEMMA ShownNext ==
    ASSUME NEW max \in Limits, NEW s \in Seq(Nat), NEW x \in Nat
    PROVE  Shown(max, Append(s, x)) = IF max # NaN /\ Len(Shown(max, s)) < max
                                      THEN Append(Shown(max, s), x) ELSE Shown(max, s)
<1> DEFINE t == Append(s, x)
<1>1. t \in Seq(Nat) /\ Len(t) = Len(s) + 1 /\ \A i \in 1 .. Len(s) : t[i] = s[i]
  OBVIOUS
<1>a. t[Len(s) + 1] = x
  OBVIOUS
<1> HIDE DEF t
<1>2. CASE max = NaN
  BY <1>2 DEF Shown
<1>3. CASE max # NaN /\ Len(s) < max
  <2>1. Shown(max, s) = s
    <3>1. Shown(max, s) = SubSeq(s, 1, Len(s))
      BY <1>3 DEF Shown
    <3> QED BY <3>1
  <2>2. Shown(max, t) = t
    <3>1. Shown(max, t) = SubSeq(t, 1, Len(t))
      BY <1>1, <1>3 DEF Shown, Limits
    <3> QED BY <1>1, <3>1
  <2> QED BY <1>3, <2>1, <2>2 DEF t
<1>4. CASE max # NaN /\ ~ (Len(s) < max)
  <2>1. max \in 1 .. Len(s)
    BY <1>4 DEF Limits
  <2>2. Shown(max, s) = SubSeq(s, 1, max)
    BY <1>4 DEF Shown
  <2>3. Shown(max, t) = SubSeq(t, 1, max)
    <3>1. ~ (Len(t) < max)
      BY <1>1, <2>1
    <3> QED BY <1>4, <3>1 DEF Shown
  <2>4. SubSeq(t, 1, max) = SubSeq(s, 1, max)
    <3>1. SubSeq(t, 1, max) = [i \in 1 .. max |-> t[i]]
      BY <1>1, <2>1
    <3>2. SubSeq(s, 1, max) = [i \in 1 .. max |-> s[i]]
      BY <2>1
    <3>3. \A i \in 1 .. max : t[i] = s[i]
      BY <1>1, <2>1
    <3> QED BY <3>1, <3>2, <3>3
  <2>5. Len(Shown(max, s)) = max
    BY <2>1, <2>2
  <2>6. ~ (Len(Shown(max, s)) < max)
    BY <2>1, <2>5
  <2> QED BY <2>2, <2>3, <2>4, <2>6 DEF t
<1> QED BY <1>2, <1>3, <1>4
-----------------------------------------------------------------------------
(* Counting one message.                                                   *)

Kept(max, e, x) ==
    [e EXCEPT !.count = @ + 1, !.examples = IF max # NaN /\ Len(@) < max THEN Append(@, x) ELSE @]

\* An entry without messages, as a rule has when it is first met.
LEMMA NewEntrySound ==
    ASSUME NEW max \in Limits, NEW ms \in Seq(Messages), NEW n \in 0 .. Len(ms), NEW r \in Rules,
           \A i \in 1 .. n : ms[i].rule # r
    PROVE  EntrySound(max, ms, n, [rule |-> r, count |-> 0, examples |-> << >>])
<1>1. Len(ms) \in Nat
  OBVIOUS
<1>2. Found(ms, n, r) = {}
  BY DEF Found
<1>3. Cardinality({}) = 0
  BY FS_EmptySet
<1>4. Located(ms, n, r) \in Seq(1 .. n)
  BY <1>1, LocatedFacts
<1>5. Len(Located(ms, n, r)) = Cardinality(Found(ms, n, r))
  BY <1>1, LocatedFacts
<1>6. Located(ms, n, r) = << >>
  BY <1>2, <1>3, <1>4, <1>5
<1>7. << >> \in Seq(Nat) /\ Len(<< >>) = 0
  OBVIOUS
<1>8. Shown(max, << >>) = << >>
  <2>1. PICK s \in Seq(Nat) : s = << >>
    BY <1>7
  <2>2. Shown(max, s) \in Seq(Nat)
    BY ShownFacts
  <2>3. Len(Shown(max, s)) = IF max = NaN THEN 0 ELSE IF Len(s) < max THEN Len(s) ELSE max
    BY ShownFacts
  <2>4. Len(Shown(max, s)) = 0
    BY <1>7, <2>1, <2>3 DEF Limits
  <2> QED BY <2>1, <2>2, <2>4
<1> QED BY <1>2, <1>3, <1>6, <1>7, <1>8 DEF EntrySound, Entries

\* The entry of the message's rule counts it, and the other entries stay exact.
LEMMA EntryNext ==
    ASSUME NEW max \in Limits, NEW ms \in Seq(Messages), NEW n \in 0 .. (Len(ms) - 1), NEW e,
           EntrySound(max, ms, n, e)
    PROVE  /\ ms[n + 1].rule = e.rule => EntrySound(max, ms, n + 1, Kept(max, e, n + 1))
           /\ ms[n + 1].rule = e.rule => Kept(max, e, n + 1).rule = e.rule
           /\ ms[n + 1].rule # e.rule => EntrySound(max, ms, n + 1, e)
<1> DEFINE r == e.rule
           g == Located(ms, n, r)
           h == Located(ms, n + 1, r)
           a == Cardinality(Found(ms, n, r))
           b == Cardinality(Found(ms, n + 1, r))
<1>1. Len(ms) \in Nat
  OBVIOUS
<1>2. e \in Entries /\ e.count = a /\ e.examples = Shown(max, g)
  BY DEF EntrySound
<1>3. ms[n + 1].rule = r => h = Append(g, n + 1) /\ b = a + 1
  BY <1>1, LocatedNext
<1>4. ms[n + 1].rule # r => h = g /\ b = a
  BY <1>1, LocatedNext
<1>5. g \in Seq(Nat)
  <2>1. n \in 0 .. Len(ms)
    OBVIOUS
  <2>2. g \in Seq(1 .. n)
    BY <1>1, <2>1, LocatedFacts
  <2> HIDE DEF g
  <2> QED BY <2>2
<1>6. ASSUME ms[n + 1].rule = r
      PROVE  EntrySound(max, ms, n + 1, Kept(max, e, n + 1)) /\ Kept(max, e, n + 1).rule = r
  <2> DEFINE k == Kept(max, e, n + 1)
  <2>1. Shown(max, h) = IF max # NaN /\ Len(Shown(max, g)) < max THEN Append(Shown(max, g), n + 1) ELSE Shown(max, g)
    <3>1. n + 1 \in Nat
      OBVIOUS
    <3> HIDE DEF g, h
    <3> QED BY <1>3, <1>5, <1>6, <3>1, ShownNext
  <2>2. k.rule = r /\ k.count = a + 1 /\ k.examples = Shown(max, h) /\ k \in Entries
    <3> HIDE DEF g, h, a
    <3>1. k.rule = r /\ k.count = e.count + 1
      BY <1>2 DEF Kept, Entries
    <3>2. k.examples = IF max # NaN /\ Len(e.examples) < max THEN Append(e.examples, n + 1) ELSE e.examples
      BY <1>2 DEF Kept, Entries
    <3>3. k \in Entries
      <4> DEFINE x == IF max # NaN /\ Len(e.examples) < max THEN Append(e.examples, n + 1) ELSE e.examples
      <4>1. e.examples \in Seq(Nat) /\ n + 1 \in Nat /\ e.count + 1 \in Nat
        BY <1>2 DEF Entries
      <4>2. x \in Seq(Nat)
        BY <4>1
      <4>3. k = [rule |-> e.rule, count |-> e.count + 1, examples |-> x]
        <5>1. e = [rule |-> e.rule, count |-> e.count, examples |-> e.examples]
          BY <1>2 DEF Entries
        <5>2. DOMAIN k = {"rule", "count", "examples"}
          BY <5>1 DEF Kept
        <5>3. k.examples = x
          BY <3>2
        <5>4. k = [f \in DOMAIN e |-> k[f]]
          BY DEF Kept
        <5> HIDE DEF k, x
        <5>5. DOMAIN e = {"rule", "count", "examples"}
          BY <5>1
        <5> QED BY <3>1, <5>3, <5>4, <5>5
      <4> HIDE DEF x, k
      <4>4. e.rule \in Rules
        BY <1>2 DEF Entries
      <4> QED BY <4>1, <4>2, <4>3, <4>4 DEF Entries
    <3> QED BY <1>2, <2>1, <3>1, <3>2, <3>3
  <2> HIDE DEF k, g, h, a
  <2>3. k.count = Cardinality(Found(ms, n + 1, k.rule)) /\ k.examples = Shown(max, Located(ms, n + 1, k.rule))
    BY <1>3, <1>6, <2>2 DEF h
  <2> QED BY <2>2, <2>3 DEF EntrySound, k
<1>7. ASSUME ms[n + 1].rule # r
      PROVE  EntrySound(max, ms, n + 1, e)
  BY <1>2, <1>4, <1>7 DEF EntrySound
<1> QED BY <1>6, <1>7

\* A message of a rule that has an entry.
LEMMA EntriesKept ==
    ASSUME NEW max \in Limits, NEW ms \in Seq(Messages), NEW n \in 0 .. (Len(ms) - 1), NEW es,
           EntriesSound(max, ms, n, es), NEW j \in DOMAIN es, es[j].rule = ms[n + 1].rule
    PROVE  EntriesSound(max, ms, n + 1, [es EXCEPT ![j] = Kept(max, es[j], n + 1)])
<1> DEFINE kept == Kept(max, es[j], n + 1)
           es1 == [es EXCEPT ![j] = kept]
<1>1. /\ es \in Seq(Entries)
      /\ \A k \in DOMAIN es : EntrySound(max, ms, n, es[k])
      /\ \A i, k \in DOMAIN es : es[i].rule = es[k].rule => i = k
      /\ \A i \in 1 .. n : ms[i].rule = NoRule \/ \E k \in DOMAIN es : es[k].rule = ms[i].rule
  BY DEF EntriesSound
<1>2. EntrySound(max, ms, n + 1, kept) /\ kept.rule = es[j].rule
  <2>1. EntrySound(max, ms, n, es[j]) /\ ms[n + 1].rule = es[j].rule
    BY <1>1
  <2> QED BY <2>1, EntryNext
<1> HIDE DEF kept
<1>3. kept \in Entries
  BY <1>2 DEF EntrySound
<1>4. es1 \in Seq(Entries) /\ DOMAIN es1 = DOMAIN es
  BY <1>1, <1>3
<1>5. es1[j] = kept /\ \A k \in DOMAIN es : k # j => es1[k] = es[k]
  BY <1>1
<1> HIDE DEF es1
<1>6. \A k \in DOMAIN es : es1[k].rule = es[k].rule
  BY <1>2, <1>5
<1>7. \A k \in DOMAIN es1 : EntrySound(max, ms, n + 1, es1[k])
  <2> SUFFICES ASSUME NEW k \in DOMAIN es PROVE EntrySound(max, ms, n + 1, es1[k])
    BY <1>4
  <2>1. CASE k = j
    BY <1>2, <1>5, <2>1
  <2>2. CASE k # j
    <3>1. ms[n + 1].rule # es[k].rule
      BY <1>1, <2>2
    <3>2. EntrySound(max, ms, n, es[k])
      BY <1>1
    <3> QED BY <1>5, <2>2, <3>1, <3>2, EntryNext
  <2> QED BY <2>1, <2>2
<1>8. \A i, k \in DOMAIN es1 : es1[i].rule = es1[k].rule => i = k
  BY <1>1, <1>4, <1>6
<1>9. \A i \in 1 .. n + 1 : ms[i].rule = NoRule \/ \E k \in DOMAIN es1 : es1[k].rule = ms[i].rule
  <2> SUFFICES ASSUME NEW i \in 1 .. n + 1 PROVE ms[i].rule = NoRule \/ \E k \in DOMAIN es : es[k].rule = ms[i].rule
    BY <1>4, <1>6
  <2>1. i \in 1 .. n \/ i = n + 1
    OBVIOUS
  <2> QED BY <1>1, <2>1
<1> QED BY <1>4, <1>7, <1>8, <1>9 DEF EntriesSound, es1, kept

\* A message of a rule met for the first time.
LEMMA EntriesAdded ==
    ASSUME NEW max \in Limits, NEW ms \in Seq(Messages), NEW n \in 0 .. (Len(ms) - 1), NEW es,
           EntriesSound(max, ms, n, es), ms[n + 1].rule # NoRule,
           \A k \in DOMAIN es : es[k].rule # ms[n + 1].rule
    PROVE  EntriesSound(max, ms, n + 1,
               Append(es, Kept(max, [rule |-> ms[n + 1].rule, count |-> 0, examples |-> << >>], n + 1)))
<1> DEFINE r == ms[n + 1].rule
           new == [rule |-> r, count |-> 0, examples |-> << >>]
           kept == Kept(max, new, n + 1)
           es1 == Append(es, kept)
<1>1. /\ es \in Seq(Entries)
      /\ \A k \in DOMAIN es : EntrySound(max, ms, n, es[k])
      /\ \A i, k \in DOMAIN es : es[i].rule = es[k].rule => i = k
      /\ \A i \in 1 .. n : ms[i].rule = NoRule \/ \E k \in DOMAIN es : es[k].rule = ms[i].rule
  BY DEF EntriesSound
<1>2. r \in Rules
  <2>1. ms[n + 1] \in Messages
    OBVIOUS
  <2> QED BY <2>1 DEF Messages
<1>3. \A i \in 1 .. n : ms[i].rule # r
  BY <1>1
<1>4. EntrySound(max, ms, n, new) /\ new.rule = r
  <2>1. n \in 0 .. Len(ms)
    OBVIOUS
  <2> HIDE DEF r
  <2> QED BY <1>2, <1>3, <2>1, NewEntrySound
<1> HIDE DEF new
<1>5. EntrySound(max, ms, n + 1, kept) /\ kept.rule = r
  BY <1>4, EntryNext
<1> HIDE DEF kept
<1>6. kept \in Entries
  BY <1>5 DEF EntrySound
<1>7. /\ es1 \in Seq(Entries) /\ Len(es1) = Len(es) + 1 /\ Len(es) \in Nat
      /\ DOMAIN es1 = 1 .. (Len(es) + 1) /\ DOMAIN es = 1 .. Len(es)
  BY <1>1, <1>6
<1>8. es1[Len(es) + 1] = kept /\ \A k \in DOMAIN es : es1[k] = es[k]
  BY <1>1, <1>6
<1> HIDE DEF es1, r
<1>9. \A k \in DOMAIN es1 : k = Len(es) + 1 \/ k \in DOMAIN es
  BY <1>7
<1>10. \A k \in DOMAIN es1 : EntrySound(max, ms, n + 1, es1[k])
  <2> SUFFICES ASSUME NEW k \in DOMAIN es1 PROVE EntrySound(max, ms, n + 1, es1[k])
    OBVIOUS
  <2>1. CASE k = Len(es) + 1
    BY <1>5, <1>8, <2>1
  <2>2. CASE k \in DOMAIN es
    <3>1. ms[n + 1].rule # es[k].rule
      BY <2>2
    <3>2. EntrySound(max, ms, n, es[k])
      BY <1>1, <2>2
    <3> QED BY <1>8, <2>2, <3>1, <3>2, EntryNext
  <2> QED BY <1>9, <2>1, <2>2
<1>11. \A k \in DOMAIN es : es[k].rule # kept.rule
  BY <1>5 DEF r
<1>12. \A i, k \in DOMAIN es1 : es1[i].rule = es1[k].rule => i = k
  BY <1>1, <1>8, <1>9, <1>11
<1>13. \A i \in 1 .. n + 1 : ms[i].rule = NoRule \/ \E k \in DOMAIN es1 : es1[k].rule = ms[i].rule
  <2> SUFFICES ASSUME NEW i \in 1 .. n + 1 PROVE ms[i].rule = NoRule \/ \E k \in DOMAIN es1 : es1[k].rule = ms[i].rule
    OBVIOUS
  <2>1. CASE i = n + 1
    <3>1. Len(es) + 1 \in DOMAIN es1
      BY <1>7
    <3>2. es1[Len(es) + 1].rule = ms[i].rule
      BY <1>5, <1>8, <2>1 DEF r
    <3> QED BY <3>1, <3>2
  <2>2. CASE i \in 1 .. n
    <3>1. DOMAIN es \subseteq DOMAIN es1
      BY <1>7
    <3> QED BY <1>1, <1>8, <2>2, <3>1
  <2>3. i = n + 1 \/ i \in 1 .. n
    OBVIOUS
  <2> QED BY <2>1, <2>2, <2>3
<1> QED BY <1>7, <1>10, <1>12, <1>13 DEF EntriesSound, es1, kept, new, r

\* A message that could not be parsed.
LEMMA EntriesSame ==
    ASSUME NEW max \in Limits, NEW ms \in Seq(Messages), NEW n \in 0 .. (Len(ms) - 1), NEW es,
           EntriesSound(max, ms, n, es), ms[n + 1].rule = NoRule
    PROVE  EntriesSound(max, ms, n + 1, es)
<1>1. /\ es \in Seq(Entries)
      /\ \A k \in DOMAIN es : EntrySound(max, ms, n, es[k])
      /\ \A i, k \in DOMAIN es : es[i].rule = es[k].rule => i = k
      /\ \A i \in 1 .. n : ms[i].rule = NoRule \/ \E k \in DOMAIN es : es[k].rule = ms[i].rule
  BY DEF EntriesSound
<1>2. \A k \in DOMAIN es : EntrySound(max, ms, n + 1, es[k])
  <2> SUFFICES ASSUME NEW k \in DOMAIN es PROVE EntrySound(max, ms, n + 1, es[k])
    OBVIOUS
  <2>1. es[k] \in Entries /\ EntrySound(max, ms, n, es[k])
    BY <1>1
  <2>2. ms[n + 1].rule # es[k].rule
    BY <2>1, ReportAssumption DEF Entries, Rules, LABELS, NoRule
  <2> QED BY <2>1, <2>2, EntryNext
<1>3. \A i \in 1 .. n + 1 : i \in 1 .. n \/ i = n + 1
  OBVIOUS
<1> QED BY <1>1, <1>2, <1>3 DEF EntriesSound

\* The entries of no message at all.
LEMMA EntriesNone ==
    ASSUME NEW max, NEW ms
    PROVE  EntriesSound(max, ms, 0, << >>)
BY DEF EntriesSound
-----------------------------------------------------------------------------
(* The invariant.                                                          *)

LEMMA LimitIsOne == MAX \in Limits
BY ReportAssumption DEF MAX, Limits, NaN

LEMMA ReportInit_Inv == ReportInit => ReportInv
<1> SUFFICES ASSUME ReportInit PROVE ReportInv
  OBVIOUS
<1>1. /\ messages = << >> /\ next = 0 /\ byRule = << >> /\ errors = 0 /\ warnings = 0
      /\ parseErrors = << >> /\ printed = << >>
  BY DEF ReportInit
<1>2. messages \in Seq(Messages) /\ Len(messages) = 0 /\ Done = 0
  BY <1>1 DEF Done
<1>3. EntriesSound(MAX, messages, Done, byRule)
  BY <1>1, <1>2, EntriesNone
<1>4. parseErrors = Located(messages, Done, NoRule)
  BY <1>1, <1>2, LocatedNone
<1> QED BY <1>1, <1>2, <1>3, <1>4 DEF ReportInv

\* No message is counted while the linter adds them.
LEMMA EmitInv ==
    ASSUME ReportInv, NEW rule \in Rules \cup {NoRule}, NEW severity \in 1 .. 2, NEW newFile \in BOOLEAN,
           Emit(rule, severity, newFile)
    PROVE  ReportInv'
<1> DEFINE last == IF messages = << >> THEN 0 ELSE messages[Len(messages)].file
           m == [file |-> IF newFile THEN last + 1 ELSE last, rule |-> rule, severity |-> severity]
<1>1. /\ next = 0 /\ messages' = Append(messages, m) /\ next' = next /\ byRule' = byRule
      /\ errors' = errors /\ warnings' = warnings /\ parseErrors' = parseErrors /\ printed' = printed
  BY DEF Emit
<1>2. /\ messages \in Seq(Messages) /\ errors \in Nat /\ warnings \in Nat /\ errors + warnings = Done
      /\ byRule = << >> /\ parseErrors = Located(messages, Done, NoRule)
      /\ printed # << >> => next = Len(messages) + 1
  BY <1>1 DEF ReportInv
<1>3. last \in Nat
  <2>1. CASE messages = << >>
    BY <2>1
  <2>2. CASE messages # << >>
    <3>1. messages[Len(messages)] \in Messages
      BY <1>2, <2>2
    <3> QED BY <2>2, <3>1 DEF Messages
  <2> QED BY <2>1, <2>2
<1> HIDE DEF last
<1>4. m \in Messages
  BY <1>3 DEF Messages
<1> HIDE DEF m
<1>5. messages' \in Seq(Messages) /\ Len(messages') \in Nat /\ Len(messages) \in Nat
  BY <1>1, <1>2, <1>4
<1>6. Done = 0 /\ Done' = 0
  BY <1>1 DEF Done
<1>7. printed = << >>
  BY <1>1, <1>2, <1>5
<1>8. EntriesSound(MAX', messages', Done', byRule')
  BY <1>1, <1>2, <1>6, EntriesNone
<1>9. parseErrors' = Located(messages', Done', NoRule)
  <2>1. Located(messages, 0, NoRule) = << >>
    BY <1>5, LocatedNone
  <2>2. Located(messages', 0, NoRule) = << >>
    BY <1>5, LocatedNone
  <2> QED BY <1>1, <1>2, <1>6, <2>1, <2>2
<1> QED BY <1>1, <1>2, <1>5, <1>6, <1>7, <1>8, <1>9 DEF ReportInv

\* Counting one message of the loop.
LEMMA CountInv ==
    ASSUME ReportInv, Count
    PROVE  ReportInv'
<1> DEFINE n == next - 1
           m == messages[next]
           entry == IF HasEntry(m.rule) THEN byRule[EntryOf(m.rule)]
                    ELSE [rule |-> m.rule, count |-> 0, examples |-> << >>]
<1>1. /\ next \in DOMAIN messages
      /\ errors' = errors + (IF m.severity = 2 THEN 1 ELSE 0)
      /\ warnings' = warnings + (IF m.severity = 2 THEN 0 ELSE 1)
      /\ next' = next + 1 /\ setting' = setting /\ messages' = messages /\ printed' = printed
  BY DEF Count
<1>2. IF m.rule = NoRule
      THEN parseErrors' = Append(parseErrors, next) /\ byRule' = byRule
      ELSE /\ byRule' = IF HasEntry(m.rule) THEN [byRule EXCEPT ![EntryOf(m.rule)] = AddTo(entry, next)]
                        ELSE Append(byRule, AddTo(entry, next))
           /\ parseErrors' = parseErrors
  BY DEF Count
<1>3. /\ messages \in Seq(Messages) /\ errors \in Nat /\ warnings \in Nat /\ errors + warnings = Done
      /\ EntriesSound(MAX, messages, Done, byRule)
      /\ parseErrors = Located(messages, Done, NoRule)
      /\ printed # << >> => next = Len(messages) + 1
  BY DEF ReportInv
<1>4. Len(messages) \in Nat /\ DOMAIN messages = 1 .. Len(messages)
  BY <1>3
<1>5. n \in 0 .. (Len(messages) - 1) /\ next = n + 1 /\ next \in Nat
  BY <1>1, <1>4
<1>6. Done = n /\ Done' = n + 1
  BY <1>1, <1>5 DEF Done
<1>7. printed = << >>
  BY <1>1, <1>3, <1>4
<1>8. MAX' = MAX /\ MAX \in Limits
  BY <1>1, LimitIsOne DEF MAX
<1>9. \A e : AddTo(e, next) = Kept(MAX, e, n + 1)
  BY <1>5 DEF AddTo, Kept, Below
<1>10. m = messages[n + 1]
  BY <1>5
<1> HIDE DEF n, m
<1>11. EntriesSound(MAX, messages, n + 1, byRule')
  <2>1. EntriesSound(MAX, messages, n, byRule)
    BY <1>3, <1>6
  <2>2. CASE m.rule = NoRule
    <3>1. messages[n + 1].rule = NoRule
      BY <1>10, <2>2
    <3> QED BY <1>2, <1>3, <1>5, <1>8, <2>1, <2>2, <3>1, EntriesSame
  <2>3. CASE m.rule # NoRule /\ HasEntry(m.rule)
    <3> DEFINE j == EntryOf(m.rule)
    <3>1. j \in DOMAIN byRule /\ byRule[j].rule = m.rule
      BY <2>3 DEF HasEntry, EntryOf
    <3> HIDE DEF j
    <3>2. byRule' = [byRule EXCEPT ![j] = Kept(MAX, byRule[j], n + 1)]
      <4>1. byRule' = [byRule EXCEPT ![j] = AddTo(byRule[j], next)]
        BY <1>2, <2>3 DEF j
      <4> QED BY <1>9, <4>1
    <3>3. byRule[j].rule = messages[n + 1].rule
      BY <1>10, <3>1
    <3>4. EntriesSound(MAX, messages, n + 1, [byRule EXCEPT ![j] = Kept(MAX, byRule[j], n + 1)])
      BY <1>3, <1>5, <1>8, <2>1, <3>1, <3>3, EntriesKept
    <3> QED BY <3>2, <3>4
  <2>4. CASE m.rule # NoRule /\ ~ HasEntry(m.rule)
    <3>1. messages[n + 1].rule # NoRule /\ \A k \in DOMAIN byRule : byRule[k].rule # messages[n + 1].rule
      BY <1>10, <2>4 DEF HasEntry
    <3>2. byRule' = Append(byRule, Kept(MAX, [rule |-> messages[n + 1].rule, count |-> 0, examples |-> << >>], n + 1))
      <4>1. byRule' = Append(byRule, AddTo([rule |-> messages[n + 1].rule, count |-> 0, examples |-> << >>], next))
        BY <1>2, <1>10, <2>4
      <4> QED BY <1>9, <4>1
    <3>3. EntriesSound(MAX, messages, n + 1,
              Append(byRule, Kept(MAX, [rule |-> messages[n + 1].rule, count |-> 0, examples |-> << >>], n + 1)))
      BY <1>3, <1>5, <1>8, <2>1, <3>1, EntriesAdded
    <3> QED BY <3>2, <3>3
  <2> QED BY <2>2, <2>3, <2>4
<1>12. parseErrors' = Located(messages, n + 1, NoRule)
  <2>1. /\ messages[n + 1].rule = NoRule => Located(messages, n + 1, NoRule) = Append(Located(messages, n, NoRule), n + 1)
        /\ messages[n + 1].rule # NoRule => Located(messages, n + 1, NoRule) = Located(messages, n, NoRule)
    BY <1>4, <1>5, LocatedNext
  <2>2. parseErrors = Located(messages, n, NoRule)
    BY <1>3, <1>6
  <2> QED BY <1>2, <1>5, <1>10, <2>1, <2>2
<1>13. errors' \in Nat /\ warnings' \in Nat /\ errors' + warnings' = n + 1
  BY <1>1, <1>3, <1>5, <1>6
<1>14. EntriesSound(MAX', messages', Done', byRule') /\ parseErrors' = Located(messages', Done', NoRule)
  BY <1>1, <1>6, <1>8, <1>11, <1>12
<1>15. next' \in 0 .. Len(messages') + 1 /\ next' # 0
  BY <1>1, <1>4, <1>5
<1> QED BY <1>1, <1>3, <1>6, <1>7, <1>13, <1>14, <1>15 DEF ReportInv

LEMMA ReportNext_Inv == ReportInv /\ [ReportNext]_reportVars => ReportInv'
<1> SUFFICES ASSUME ReportInv, [ReportNext]_reportVars PROVE ReportInv'
  OBVIOUS
<1>1. ASSUME NEW rule \in Rules \cup {NoRule}, NEW severity \in 1 .. 2, NEW newFile \in BOOLEAN, Emit(rule, severity, newFile)
      PROVE  ReportInv'
  BY <1>1, EmitInv
<1>2. CASE Begin
  <2>1. /\ next = 0 /\ next' = 1
        /\ setting' = setting /\ messages' = messages /\ byRule' = byRule /\ errors' = errors
        /\ warnings' = warnings /\ parseErrors' = parseErrors /\ printed' = printed
    BY <1>2 DEF Begin
  <2>2. Done' = Done /\ MAX' = MAX
    BY <2>1 DEF Done, MAX
  <2>3. messages \in Seq(Messages) /\ (printed # << >> => next = Len(messages) + 1)
    BY DEF ReportInv
  <2>4. Len(messages) \in Nat
    BY <2>3
  <2>5. printed = << >>
    BY <2>1, <2>3, <2>4
  <2>6. /\ messages \in Seq(Messages) /\ errors \in Nat /\ warnings \in Nat /\ errors + warnings = Done
        /\ EntriesSound(MAX, messages, Done, byRule)
        /\ parseErrors = Located(messages, Done, NoRule)
    BY DEF ReportInv
  <2>7. next' \in 0 .. Len(messages') + 1 /\ next' # 0
    BY <2>1, <2>4
  <2>8. EntriesSound(MAX', messages', Done', byRule') /\ parseErrors' = Located(messages', Done', NoRule)
    BY <2>1, <2>2, <2>6
  <2> QED BY <2>1, <2>2, <2>5, <2>6, <2>7, <2>8 DEF ReportInv
<1>3. CASE Count
  BY <1>3, CountInv
<1>4. CASE PutTogether
  <2>1. /\ next > Len(messages) /\ printed' = Sections
        /\ setting' = setting /\ messages' = messages /\ next' = next /\ byRule' = byRule
        /\ errors' = errors /\ warnings' = warnings /\ parseErrors' = parseErrors
    BY <1>4 DEF PutTogether
  <2>2. Sections' = Sections
    BY <2>1, ZenonT(30) DEF Sections, Before, Remaining, Above, Slice, MAX
  <2>3. Done' = Done /\ MAX' = MAX
    BY <2>1 DEF Done, MAX
  <2>4. /\ messages \in Seq(Messages) /\ next \in 0 .. Len(messages) + 1
        /\ errors \in Nat /\ warnings \in Nat /\ errors + warnings = Done
        /\ EntriesSound(MAX, messages, Done, byRule)
        /\ parseErrors = Located(messages, Done, NoRule)
        /\ next = 0 => byRule = << >>
    BY DEF ReportInv
  <2>5. next = Len(messages) + 1
    BY <2>1, <2>4
  <2>6. EntriesSound(MAX', messages', Done', byRule') /\ parseErrors' = Located(messages', Done', NoRule)
    BY <2>1, <2>3, <2>4
  <2>7. printed' = Sections' /\ next' = Len(messages') + 1
    BY <2>1, <2>2, <2>5
  <2> QED BY <2>1, <2>3, <2>4, <2>6, <2>7 DEF ReportInv
<1>5. CASE UNCHANGED reportVars
  <2>1. /\ setting' = setting /\ messages' = messages /\ next' = next /\ byRule' = byRule /\ printed' = printed
        /\ errors' = errors /\ warnings' = warnings /\ parseErrors' = parseErrors
    BY <1>5 DEF reportVars
  <2>2. Sections' = Sections /\ Done' = Done /\ MAX' = MAX
    BY <2>1, ZenonT(30) DEF Sections, Before, Remaining, Above, Slice, MAX, Done
  <2>3. EntriesSound(MAX', messages', Done', byRule') /\ parseErrors' = Located(messages', Done', NoRule)
    BY <2>1, <2>2 DEF ReportInv
  <2> QED BY <2>1, <2>2, <2>3 DEF ReportInv
<1> QED BY <1>1, <1>2, <1>3, <1>4, <1>5 DEF ReportNext

\* For any messages, rules and setting, at every step: the entries count the messages so far.
THEOREM ReportInvariance == ReportSpec => []ReportInv
<1> QED BY ReportInit_Inv, ReportNext_Inv, PTL DEF ReportSpec
-----------------------------------------------------------------------------
(* The printed report.                                                     *)

\* What the report says of a rule.
SectionOf(rule) ==
    LET found == Located(messages, Len(messages), rule)
    IN  Section(rule, Len(found), Slice(found), Remaining(Len(found)))

\* The sections are in a strict total order.
LEMMA BeforeFacts ==
    ASSUME byRule \in Seq(Entries)
    PROVE  /\ \A a, b \in DOMAIN byRule : <<a, b>> \in Before =>
                 /\ byRule[b].rule \in LABELS => byRule[a].rule \in LABELS
                 /\ (byRule[a].rule \in LABELS <=> byRule[b].rule \in LABELS) => byRule[a].count >= byRule[b].count
           /\ \A x \in DOMAIN byRule : <<x, x>> \notin Before
           /\ \A x, y, z \in DOMAIN byRule : <<x, y>> \in Before /\ <<y, z>> \in Before => <<x, z>> \in Before
           /\ \A x, y \in DOMAIN byRule : x # y => <<x, y>> \in Before \/ <<y, x>> \in Before
<1> DEFINE House(k) == IF byRule[k].rule \in LABELS THEN 0 ELSE 1
           N(k) == byRule[k].count
<1>1. \A a, b \in DOMAIN byRule : <<a, b>> \in Before <=>
          \/ House(a) < House(b)
          \/ House(a) = House(b) /\ N(a) > N(b)
          \/ House(a) = House(b) /\ N(a) = N(b) /\ a < b
  BY DEF Before
<1>2. \A a \in DOMAIN byRule : a \in Nat /\ House(a) \in {0, 1} /\ N(a) \in Nat
  <2> SUFFICES ASSUME NEW a \in DOMAIN byRule PROVE a \in Nat /\ House(a) \in {0, 1} /\ N(a) \in Nat
    OBVIOUS
  <2>1. a \in Nat
    OBVIOUS
  <2>2. byRule[a] \in Entries
    OBVIOUS
  <2>3. N(a) \in Nat
    BY <2>2 DEF Entries
  <2>4. House(a) \in {0, 1}
    OBVIOUS
  <2> QED BY <2>1, <2>3, <2>4
<1>3. \A a \in DOMAIN byRule : byRule[a].rule \in LABELS <=> House(a) = 0
  OBVIOUS
<1> HIDE DEF House, N
<1>4. \A a, b \in DOMAIN byRule : <<a, b>> \in Before =>
          /\ House(b) = 0 => House(a) = 0
          /\ House(a) = House(b) => N(a) >= N(b)
  BY <1>1, <1>2
<1>5. \A x \in DOMAIN byRule : <<x, x>> \notin Before
  BY <1>1, <1>2
<1>6. \A x, y, z \in DOMAIN byRule : <<x, y>> \in Before /\ <<y, z>> \in Before => <<x, z>> \in Before
  BY <1>1, <1>2, SMTT(30)
<1>7. \A x, y \in DOMAIN byRule : x # y => <<x, y>> \in Before \/ <<y, x>> \in Before
  BY <1>1, <1>2
<1>8. \A a, b \in DOMAIN byRule : <<a, b>> \in Before =>
          /\ byRule[b].rule \in LABELS => byRule[a].rule \in LABELS
          /\ (byRule[a].rule \in LABELS <=> byRule[b].rule \in LABELS) => byRule[a].count >= byRule[b].count
  BY <1>2, <1>3, <1>4 DEF N
<1> QED BY <1>5, <1>6, <1>7, <1>8

\* The sections are those of the rules met, in that order, and then of what was not parsed.
LEMMA SectionsFacts ==
    ASSUME ReportInv, printed # << >>
    PROVE  LET n == Len(byRule)
               ordered == InOrder(DOMAIN byRule, Before)
           IN  /\ n \in Nat /\ ordered \in [1 .. n -> DOMAIN byRule]
               /\ \A x \in DOMAIN byRule : \E k \in 1 .. n : ordered[k] = x
               /\ \A j, k \in 1 .. n : j < k => <<ordered[j], ordered[k]>> \in Before
               /\ \A j, k \in 1 .. n : ordered[j] = ordered[k] => j = k
               /\ DOMAIN printed = 1 .. (IF parseErrors = << >> THEN n ELSE n + 1)
               /\ \A k \in 1 .. n : printed[k] = SectionOf(byRule[ordered[k]].rule)
               /\ parseErrors # << >> => printed[n + 1] = SectionOf(NoRule)
<1> DEFINE n == Len(byRule)
           ordered == InOrder(DOMAIN byRule, Before)
           E(k) == byRule[ordered[k]]
           Sec(k) == Section(E(k).rule, E(k).count, E(k).examples, Remaining(E(k).count))
           parsing == Section(NoRule, Len(parseErrors), Slice(parseErrors), Remaining(Len(parseErrors)))
           S == {Sec(k) : k \in 1 .. n} \cup {parsing}
           body == [k \in 1 .. n |-> Sec(k)]
           tail == IF parseErrors = << >> THEN << >> ELSE <<parsing>>
<1>1. /\ messages \in Seq(Messages) /\ next = Len(messages) + 1 /\ printed = Sections
      /\ EntriesSound(MAX, messages, Done, byRule) /\ parseErrors = Located(messages, Done, NoRule)
  BY DEF ReportInv
<1>2. Done = Len(messages) /\ Len(messages) \in Nat
  BY <1>1 DEF Done
<1>3. byRule \in Seq(Entries) /\ n \in Nat /\ DOMAIN byRule = 1 .. n
  BY <1>1 DEF EntriesSound
<1>4. IsFiniteSet(DOMAIN byRule) /\ Cardinality(DOMAIN byRule) = n
  <2> HIDE DEF n
  <2>1. IsFiniteSet(1 .. n) /\ Cardinality(1 .. n) = n
    BY <1>3, FS_Interval
  <2> QED BY <1>3, <2>1
<1>5. /\ \A x \in DOMAIN byRule : <<x, x>> \notin Before
      /\ \A x, y, z \in DOMAIN byRule : <<x, y>> \in Before /\ <<y, z>> \in Before => <<x, z>> \in Before
      /\ \A x, y \in DOMAIN byRule : x # y => <<x, y>> \in Before \/ <<y, x>> \in Before
  BY <1>3, BeforeFacts
<1> HIDE DEF n
<1>6. ordered \in [1 .. n -> DOMAIN byRule]
  BY <1>4, <1>5, OrderFacts
<1>7. \A x \in DOMAIN byRule : \E k \in 1 .. n : ordered[k] = x
  BY <1>4, <1>5, OrderFacts
<1>8. \A j, k \in 1 .. n : j < k => <<ordered[j], ordered[k]>> \in Before
  BY <1>4, <1>5, OrderFacts
<1>9. \A j, k \in 1 .. n : ordered[j] = ordered[k] => j = k
  BY <1>4, <1>5, OrderFacts
<1>10. Sections = body \o tail
  <2>1. DOMAIN ordered = 1 .. n
    BY <1>6
  <2> HIDE DEF ordered
  <2>2. Sections = [k \in DOMAIN ordered |-> Sec(k)] \o tail
    BY DEF Sections, ordered
  <2> QED BY <2>1, <2>2
<1> HIDE DEF ordered
<1>11. /\ body \in Seq(S) /\ Len(body) = n /\ \A k \in 1 .. n : body[k] = Sec(k)
  <2>1. \A k \in 1 .. n : Sec(k) \in S
    OBVIOUS
  <2> HIDE DEF Sec, S
  <2> QED BY <1>3, <2>1
<1>12. /\ tail \in Seq(S) /\ Len(tail) = (IF parseErrors = << >> THEN 0 ELSE 1)
       /\ parseErrors # << >> => tail[1] = parsing
  <2>1. parsing \in S
    OBVIOUS
  <2> HIDE DEF parsing, S
  <2> QED BY <2>1
<1> HIDE DEF body, tail, S, Sec, parsing
<1>13. DOMAIN printed = 1 .. (IF parseErrors = << >> THEN n ELSE n + 1)
  <2>1. body \o tail \in Seq(S) /\ Len(body \o tail) = Len(body) + Len(tail)
    BY <1>11, <1>12, ConcatProperties
  <2>2. Len(body \o tail) = IF parseErrors = << >> THEN n ELSE n + 1
    BY <1>3, <1>11, <1>12, <2>1
  <2>3. DOMAIN (body \o tail) = 1 .. Len(body \o tail)
    BY <2>1
  <2> QED BY <1>1, <1>10, <2>2, <2>3
<1>14. ASSUME NEW k \in 1 .. n PROVE printed[k] = SectionOf(byRule[ordered[k]].rule)
  <2>1. (body \o tail)[k] = body[k]
    BY <1>3, <1>11, <1>12
  <2>2. printed[k] = Sec(k)
    BY <1>1, <1>10, <1>11, <2>1
  <2> DEFINE r == byRule[ordered[k]].rule
             g == Located(messages, Len(messages), r)
  <2>3. EntrySound(MAX, messages, Len(messages), byRule[ordered[k]])
    BY <1>1, <1>2, <1>6 DEF EntriesSound
  <2>4. byRule[ordered[k]].examples = Slice(g)
    BY <2>3 DEF EntrySound, Shown, Slice
  <2>5. byRule[ordered[k]].count = Len(g)
    <3>1. byRule[ordered[k]].count = Cardinality(Found(messages, Len(messages), r))
      BY <2>3 DEF EntrySound
    <3>2. Len(messages) \in 0 .. Len(messages)
      BY <1>2
    <3> HIDE DEF r
    <3>3. Len(g) = Cardinality(Found(messages, Len(messages), r))
      BY <1>2, <3>2, LocatedFacts
    <3> QED BY <3>1, <3>3 DEF r
  <2> QED BY <2>2, <2>4, <2>5 DEF SectionOf, Sec
<1>15. ASSUME parseErrors # << >> PROVE printed[n + 1] = SectionOf(NoRule)
  <2>1. (body \o tail)[n + 1] = tail[1]
    <3>1. n + 1 > Len(body) /\ n + 1 <= Len(body) + Len(tail) /\ (n + 1) - Len(body) = 1
      BY <1>3, <1>11, <1>12, <1>15
    <3>2. n + 1 \in 1 .. Len(body) + Len(tail)
      BY <1>3, <3>1
    <3> QED BY <1>11, <1>12, <3>1, <3>2, ConcatProperties
  <2>2. printed[n + 1] = parsing
    BY <1>1, <1>10, <1>12, <1>15, <2>1
  <2> QED BY <1>1, <1>2, <2>2 DEF SectionOf, parsing
<1> QED BY <1>3, <1>6, <1>7, <1>8, <1>9, <1>13, <1>14, <1>15 DEF n, ordered

\* Every message is counted once, and a section shows its first locations and counts the rest.
LEMMA AccountedHolds == ReportInv => Accounted
<1> SUFFICES ASSUME ReportInv, printed # << >> PROVE Accounted
  BY DEF Accounted
<1> DEFINE n == Len(byRule)
           ordered == InOrder(DOMAIN byRule, Before)
           L == Len(messages)
<1>1. /\ n \in Nat /\ ordered \in [1 .. n -> DOMAIN byRule]
      /\ \A x \in DOMAIN byRule : \E k \in 1 .. n : ordered[k] = x
      /\ \A j, k \in 1 .. n : ordered[j] = ordered[k] => j = k
      /\ DOMAIN printed = 1 .. (IF parseErrors = << >> THEN n ELSE n + 1)
      /\ \A k \in 1 .. n : printed[k] = SectionOf(byRule[ordered[k]].rule)
      /\ parseErrors # << >> => printed[n + 1] = SectionOf(NoRule)
  BY SectionsFacts
<1> HIDE DEF n, ordered
<1>2. /\ messages \in Seq(Messages) /\ next = L + 1 /\ errors + warnings = Done
      /\ EntriesSound(MAX, messages, Done, byRule) /\ parseErrors = Located(messages, Done, NoRule)
  BY DEF ReportInv
<1>3. L \in Nat /\ DOMAIN messages = 1 .. L /\ Done = L
  BY <1>2 DEF Done
<1> HIDE DEF L
<1>4. byRule \in Seq(Entries) /\ \A j, k \in DOMAIN byRule : byRule[j].rule = byRule[k].rule => j = k
  BY <1>2 DEF EntriesSound
<1>5. \A k \in DOMAIN byRule : byRule[k].rule # NoRule
  <2> SUFFICES ASSUME NEW k \in DOMAIN byRule PROVE byRule[k].rule # NoRule
    OBVIOUS
  <2>1. byRule[k] \in Entries
    BY <1>4
  <2> QED BY <2>1, ReportAssumption DEF Entries, Rules, LABELS, NoRule
<1>6. \A r : SectionOf(r).rule = r
  BY DEF SectionOf, Section
<1>7. \A k \in 1 .. n : printed[k].rule = byRule[ordered[k]].rule
  BY <1>1, <1>6
<1>8. parseErrors # << >> => printed[n + 1].rule = NoRule
  BY <1>1, <1>6
<1>9. \A j \in DOMAIN printed : j \in 1 .. n \/ (j = n + 1 /\ parseErrors # << >>)
  BY <1>1
<1>10. \A j \in 1 .. n : j \in DOMAIN printed
  BY <1>1
<1>11. \A j \in DOMAIN printed : printed[j] = SectionOf(printed[j].rule)
  BY <1>1, <1>6, <1>9
<1>12. errors + warnings = Len(messages)
  BY <1>2, <1>3 DEF L
<1>13. ASSUME NEW k \in DOMAIN messages
       PROVE  \E j \in DOMAIN printed : printed[j].rule = messages[k].rule
  <2>1. CASE messages[k].rule = NoRule
    <3>1. k \in Found(messages, L, NoRule)
      BY <1>3, <2>1 DEF Found
    <3>2. L \in 0 .. Len(messages) /\ Len(messages) \in Nat
      BY <1>3 DEF L
    <3>3. \A x \in Found(messages, L, NoRule) :
             \E i \in 1 .. Cardinality(Found(messages, L, NoRule)) : Located(messages, L, NoRule)[i] = x
      BY <3>2, LocatedFacts
    <3>4. Len(Located(messages, L, NoRule)) = Cardinality(Found(messages, L, NoRule))
      BY <3>2, LocatedFacts
    <3>5. parseErrors # << >>
      BY <1>2, <1>3, <3>1, <3>3, <3>4
    <3>6. n + 1 \in DOMAIN printed
      BY <1>1, <3>5
    <3> QED BY <1>8, <2>1, <3>5, <3>6
  <2>2. CASE messages[k].rule # NoRule
    <3>1. PICK e \in DOMAIN byRule : byRule[e].rule = messages[k].rule
      BY <1>2, <1>3, <2>2 DEF EntriesSound
    <3>2. PICK i \in 1 .. n : ordered[i] = e
      BY <1>1
    <3> QED BY <1>7, <1>10, <3>1, <3>2
  <2> QED BY <2>1, <2>2
<1>14. ASSUME NEW j \in DOMAIN printed, NEW k \in DOMAIN printed, printed[j].rule = printed[k].rule
       PROVE  j = k
  <2>1. CASE j \in 1 .. n /\ k \in 1 .. n
    <3>1. ordered[j] \in DOMAIN byRule /\ ordered[k] \in DOMAIN byRule
      BY <1>1, <2>1
    <3>2. ordered[j] = ordered[k]
      BY <1>4, <1>7, <1>14, <2>1, <3>1
    <3> QED BY <1>1, <2>1, <3>2
  <2>2. ASSUME NEW i \in 1 .. n PROVE printed[i].rule # NoRule
    <3>1. ordered[i] \in DOMAIN byRule
      BY <1>1
    <3> QED BY <1>5, <1>7, <3>1
  <2> QED BY <1>8, <1>9, <1>14, <2>1, <2>2
<1>15. ASSUME NEW j \in DOMAIN printed
       PROVE  /\ printed[j].total = Cardinality(MessagesOf(printed[j].rule))
              /\ Len(printed[j].shown) + printed[j].more = IF MAX = NaN THEN 0 ELSE printed[j].total
              /\ ~ Above(Len(printed[j].shown))
              /\ \A i \in DOMAIN printed[j].shown : printed[j].shown[i] = LocationsOf(printed[j].rule)[i]
  <2> DEFINE r == printed[j].rule
             g == Located(messages, Len(messages), r)
  <2>1. MessagesOf(r) = Found(messages, Len(messages), r)
    BY <1>3 DEF MessagesOf, Found, L
  <2>2. LocationsOf(r) = g
    BY <1>3, <2>1 DEF LocationsOf, Located, LessOn, L
  <2>3. printed[j].total = Len(g) /\ printed[j].shown = Slice(g) /\ printed[j].more = Remaining(Len(g))
    BY <1>11 DEF SectionOf, Section
  <2> HIDE DEF r
  <2>4. Len(messages) \in 0 .. Len(messages) /\ Len(messages) \in Nat
    BY <1>3 DEF L
  <2>5. Len(g) = Cardinality(Found(messages, Len(messages), r))
    BY <2>4, LocatedFacts
  <2>6. g \in Seq(1 .. Len(messages))
    BY <2>4, LocatedFacts
  <2> HIDE DEF g
  <2>7. g \in Seq(Nat)
    BY <2>4, <2>6
  <2>8. Slice(g) = Shown(MAX, g)
    BY DEF Slice, Shown
  <2>9. MAX \in Limits
    BY LimitIsOne
  <2>10. Len(Slice(g)) = IF MAX = NaN THEN 0 ELSE IF Len(g) < MAX THEN Len(g) ELSE MAX
    BY <2>7, <2>8, <2>9, ShownFacts
  <2>11. \A i \in DOMAIN Slice(g) : Slice(g)[i] = g[i]
    BY <2>7, <2>8, <2>9, ShownFacts
  <2>12. Len(g) \in Nat
    BY <2>7
  <2> DEFINE s == Slice(g)
             c == Len(g)
  <2> HIDE DEF s, c
  <2>13. Len(s) + Remaining(c) = (IF MAX = NaN THEN 0 ELSE c) /\ ~ Above(Len(s))
    <3> DEFINE max == MAX
               d == Len(s)
    <3>1. max \in Int /\ (max = NaN \/ max >= 1) /\ NaN = -1
      BY <2>9 DEF Limits, NaN
    <3>2. d = (IF max = NaN THEN 0 ELSE IF c < max THEN c ELSE max) /\ c \in Nat
      BY <2>10, <2>12 DEF s, c
    <3>3. Remaining(c) = IF max # NaN /\ c > max THEN c - max ELSE 0
      BY DEF Remaining, Above
    <3>4. Above(d) <=> max # NaN /\ d > max
      BY DEF Above
    <3> HIDE DEF max, d
    <3>5. d + Remaining(c) = (IF max = NaN THEN 0 ELSE c) /\ ~ Above(d)
      BY <3>1, <3>2, <3>3, <3>4
    <3> QED BY <3>5 DEF max, d
  <2>14. printed[j].shown = s /\ printed[j].total = c /\ printed[j].more = Remaining(c)
    BY <2>3 DEF s, c
  <2>15. \A i \in DOMAIN printed[j].shown : printed[j].shown[i] = LocationsOf(r)[i]
    BY <2>2, <2>3, <2>11
  <2>16. printed[j].total = Cardinality(MessagesOf(r))
    BY <2>1, <2>3, <2>5
  <2> QED BY <2>13, <2>14, <2>15, <2>16 DEF r
<1>16. /\ \A k \in DOMAIN messages : \E j \in DOMAIN printed : printed[j].rule = messages[k].rule
       /\ \A j, k \in DOMAIN printed : printed[j].rule = printed[k].rule => j = k
  BY <1>13, <1>14
<1>17. \A j \in DOMAIN printed :
          /\ printed[j].total = Cardinality(MessagesOf(printed[j].rule))
          /\ Len(printed[j].shown) + printed[j].more = IF MAX = NaN THEN 0 ELSE printed[j].total
          /\ ~ Above(Len(printed[j].shown))
          /\ \A i \in DOMAIN printed[j].shown : printed[j].shown[i] = LocationsOf(printed[j].rule)[i]
  BY <1>15
<1> QED BY <1>12, <1>16, <1>17, Zenon DEF Accounted

\* House rules first, then by falling frequency, what was not parsed last.
LEMMA OrderedHolds == ReportInv => Ordered
<1> SUFFICES ASSUME ReportInv, NEW j \in DOMAIN printed, NEW k \in DOMAIN printed, j < k
             PROVE  /\ printed[j].rule # NoRule
                    /\ printed[k].rule \in LABELS => printed[j].rule \in LABELS
                    /\ {printed[j].rule, printed[k].rule} \subseteq LABELS \/ {printed[j].rule, printed[k].rule} \subseteq OtherRules
                          => printed[j].total >= printed[k].total
  BY DEF Ordered
<1>1. printed # << >>
  OBVIOUS
<1> DEFINE n == Len(byRule)
           ordered == InOrder(DOMAIN byRule, Before)
<1>2. /\ n \in Nat /\ ordered \in [1 .. n -> DOMAIN byRule]
      /\ \A i, l \in 1 .. n : i < l => <<ordered[i], ordered[l]>> \in Before
      /\ DOMAIN printed = 1 .. (IF parseErrors = << >> THEN n ELSE n + 1)
      /\ \A i \in 1 .. n : printed[i] = SectionOf(byRule[ordered[i]].rule)
      /\ parseErrors # << >> => printed[n + 1] = SectionOf(NoRule)
  BY <1>1, SectionsFacts
<1> HIDE DEF n, ordered
<1>3. /\ messages \in Seq(Messages) /\ next = Len(messages) + 1 /\ EntriesSound(MAX, messages, Done, byRule)
  BY <1>1 DEF ReportInv
<1>4. Done = Len(messages) /\ Len(messages) \in Nat
  BY <1>3 DEF Done
<1>5. byRule \in Seq(Entries)
  BY <1>3 DEF EntriesSound
<1>6. \A r : SectionOf(r).rule = r /\ SectionOf(r).total = Len(Located(messages, Len(messages), r))
  BY DEF SectionOf, Section
<1>7. \A x \in DOMAIN byRule : /\ byRule[x].rule \in Rules /\ byRule[x].count \in Nat
                               /\ SectionOf(byRule[x].rule).total = byRule[x].count
  <2> SUFFICES ASSUME NEW x \in DOMAIN byRule
               PROVE  /\ byRule[x].rule \in Rules /\ byRule[x].count \in Nat
                      /\ SectionOf(byRule[x].rule).total = byRule[x].count
    OBVIOUS
  <2> DEFINE r == byRule[x].rule
  <2>1. byRule[x] \in Entries /\ byRule[x].count = Cardinality(Found(messages, Len(messages), r))
    BY <1>3, <1>4 DEF EntriesSound, EntrySound
  <2>2. Len(messages) \in 0 .. Len(messages)
    BY <1>4
  <2>3. r \in Rules /\ byRule[x].count \in Nat
    BY <2>1 DEF Entries
  <2> HIDE DEF r
  <2>4. Len(Located(messages, Len(messages), r)) = Cardinality(Found(messages, Len(messages), r))
    BY <1>4, <2>2, LocatedFacts
  <2> QED BY <1>6, <2>1, <2>3, <2>4 DEF r
<1>8. NoRule \notin Rules /\ NoRule \notin LABELS /\ LABELS \cap OtherRules = {} /\ Rules = LABELS \cup OtherRules
  BY ReportAssumption DEF Rules, LABELS, NoRule
<1>9. j \in 1 .. n /\ (k \in 1 .. n \/ (k = n + 1 /\ parseErrors # << >>))
  BY <1>2
<1> DEFINE a == ordered[j]
<1>10. a \in DOMAIN byRule /\ printed[j].rule = byRule[a].rule /\ printed[j].total = byRule[a].count
  BY <1>2, <1>6, <1>7, <1>9
<1> HIDE DEF a
<1>11. CASE k \in 1 .. n
  <2> DEFINE b == ordered[k]
  <2>1. b \in DOMAIN byRule /\ printed[k].rule = byRule[b].rule /\ printed[k].total = byRule[b].count
    BY <1>2, <1>6, <1>7, <1>11
  <2>2. <<a, b>> \in Before
    BY <1>2, <1>9, <1>11 DEF a
  <2> HIDE DEF b
  <2>3. /\ byRule[b].rule \in LABELS => byRule[a].rule \in LABELS
        /\ (byRule[a].rule \in LABELS <=> byRule[b].rule \in LABELS) => byRule[a].count >= byRule[b].count
    BY <1>5, <1>10, <2>1, <2>2, BeforeFacts
  <2>4. byRule[a].rule \in Rules /\ byRule[b].rule \in Rules
    BY <1>7, <1>10, <2>1
  <2> QED BY <1>8, <1>10, <2>1, <2>3, <2>4
<1>12. CASE k = n + 1 /\ parseErrors # << >>
  <2>1. printed[k].rule = NoRule
    BY <1>2, <1>6, <1>12
  <2>2. byRule[a].rule \in Rules
    BY <1>7, <1>10
  <2>3. ~ ({printed[j].rule, printed[k].rule} \subseteq LABELS) /\ ~ ({printed[j].rule, printed[k].rule} \subseteq OtherRules)
    BY <1>8, <2>1
  <2> QED BY <1>8, <1>10, <2>1, <2>2, <2>3
<1> QED BY <1>9, <1>11, <1>12

\* The scanner's own section is the formatter's.
LEMMA SameReportHolds == ReportInv => SameReport
<1> SUFFICES ASSUME ReportInv, NEW k \in DOMAIN printed, printed[k].rule = "ores/require-send"
             PROVE  printed[k] = formatReport(LocationsOf("ores/require-send"))
  BY DEF SameReport
<1>1. printed # << >>
  OBVIOUS
<1> DEFINE n == Len(byRule)
           ordered == InOrder(DOMAIN byRule, Before)
           r == "ores/require-send"
<1>2. /\ n \in Nat /\ DOMAIN printed = 1 .. (IF parseErrors = << >> THEN n ELSE n + 1)
      /\ \A i \in 1 .. n : printed[i] = SectionOf(byRule[ordered[i]].rule)
      /\ parseErrors # << >> => printed[n + 1] = SectionOf(NoRule)
  BY <1>1, SectionsFacts
<1> HIDE DEF n, ordered
<1>3. \A x : SectionOf(x).rule = x
  BY DEF SectionOf, Section
<1>4. k \in 1 .. n \/ (k = n + 1 /\ parseErrors # << >>)
  BY <1>2
<1>5. printed[k] = SectionOf(r)
  BY <1>2, <1>3, <1>4
<1>6. messages \in Seq(Messages)
  BY DEF ReportInv
<1>7. LocationsOf(r) = Located(messages, Len(messages), r)
  <2>1. DOMAIN messages = 1 .. Len(messages)
    BY <1>6
  <2> QED BY <2>1 DEF LocationsOf, Located, MessagesOf, Found, LessOn
<1> QED BY <1>5, <1>7 DEF SectionOf, formatReport

\* For any messages, rules and settings: the printed report accounts for every message, in order,
\* and is the one the scanner prints for its own findings.
THEOREM ReportIsExact == ReportSpec => []ReportExact
<1>1. ReportInv => ReportExact
  BY AccountedHolds, OrderedHolds, SameReportHolds DEF ReportExact
<1> QED BY <1>1, ReportInvariance, PTL
=============================================================================
