-------------------------- MODULE RateLimit_proofs --------------------------
(***************************************************************************)
(* For any contract object, however it drifted, any policy IDs and any     *)
(* label maps: what admission lets through is of the fixed vocabulary; and *)
(* under the published contract it takes every label map of the Rust types *)
(***************************************************************************)
EXTENDS RateLimit, FiniteSetTheorems, TLAPS

Verdict == admitRateLimitMetricAttributes(contract, last.metric, last.labels, policyIds)

\* While an answer stands, nothing it was computed from has changed.
AnswerCurrent ==
    last # Nothing => /\ last.verdict = Verdict
                      /\ \A key \in DOMAIN last.labels : IsValue(last.labels[key])

RustOrigin == last.by = "rust" => last.metric \in MetricNames /\ last.labels \in FromRust(last.metric)
AsLoaded == drift \in Nat /\ (drift = 0 => contract = Published)
IInv == AnswerCurrent /\ RustOrigin /\ AsLoaded
-----------------------------------------------------------------------------
\* The checks an admitted map has passed, in any order.
LEMMA AdmittedPassed ==
    ASSUME NEW c, NEW m, NEW labels, NEW ids,
           admitRateLimitMetricAttributes(c, m, labels, ids) = "admitted"
    PROVE  /\ trustedV1Contract(c)
           /\ \A key \in DOMAIN labels : LabelAdmitted(c, m, key, labels[key], ids)
           /\ m = "decisions" => ToSet(c.requiredDecision) \subseteq DOMAIN labels
BY Zenon DEF admitRateLimitMetricAttributes

LEMMA ValueIsText ==
    ASSUME NEW v, IsValue(v), v.type = "string"
    PROVE  v = Text(v.text)
BY DEF IsValue, Text

\* The enumeration a suffix names is one of the contract's.
LEMMA EnumOfSuffix ==
    ASSUME NEW x \in DOMAIN ENUM_BY_SUFFIX
    PROVE  ENUM_BY_SUFFIX[x] \in EnumNames
BY DEF ENUM_BY_SUFFIX, EnumNames, EXPECTED_ENUMS

LEMMA LabelsDiffer == Label("policy_id") # Label("observed_only")
BY DEF Label

\* A value the loop lets through is in the vocabulary of v1, whatever enumerations the contract object had.
LEMMA LabelInVocabulary ==
    ASSUME NEW c, NEW m, NEW key, NEW v, NEW ids, SameEnums(c), IsValue(v), LabelAdmitted(c, m, key, v, ids)
    PROVE  v \in Vocabulary(key, ids)
<1>1. CASE key = Label("policy_id")
  <2>1. PICK id \in ToSet(ids) : id.text = v.text
    BY <1>1, Zenon DEF LabelAdmitted
  <2>2. v = Text(id.text)
    BY <1>1, <2>1, ValueIsText, Zenon DEF LabelAdmitted
  <2>3. Vocabulary(key, ids) = {Text(i.text) : i \in ToSet(ids)}
    BY <1>1, LabelsDiffer DEF Vocabulary
  <2> QED BY <2>1, <2>2, <2>3
<1>2. CASE key = Label("observed_only")
  <2>1. v.type = "boolean" /\ v.text \in {"true", "false"}
    BY <1>2, LabelsDiffer, Zenon DEF LabelAdmitted, IsValue
  <2>2. v \in {Flag("true"), Flag("false")}
    BY <2>1 DEF IsValue, Flag
  <2>3. Vocabulary(key, ids) = {Flag("true"), Flag("false")}
    BY <1>2, LabelsDiffer DEF Vocabulary
  <2> QED BY <2>2, <2>3
<1>3. CASE key \notin {Label("policy_id"), Label("observed_only")}
  <2> DEFINE name == ENUM_BY_SUFFIX[Suffix(key)]
  <2>1. Suffix(key) \in DOMAIN ENUM_BY_SUFFIX /\ v.type = "string" /\ v.text \in ToSet(c.enums[name])
    BY <1>3, Zenon DEF LabelAdmitted
  <2>2. c.enums[name] = EXPECTED_ENUMS[name]
    BY <2>1, EnumOfSuffix, Zenon DEF SameEnums
  <2>3. v = Text(v.text) /\ v.text \in ToSet(EXPECTED_ENUMS[name])
    BY <2>1, <2>2, ValueIsText, Zenon
  <2>4. Vocabulary(key, ids) = {Text(x) : x \in ToSet(EXPECTED_ENUMS[name])}
    BY <1>3 DEF Vocabulary
  <2> QED BY <2>3, <2>4
<1> QED BY <1>1, <1>2, <1>3

LEMMA NamesInVocabulary ==
    ASSUME NEW c, NEW m \in MetricNames, NEW key, NEW v, NEW ids, MetricsWithin(c), LabelAdmitted(c, m, key, v, ids)
    PROVE  key \in ALLOWED_ATTRIBUTE_NAMES
BY Zenon DEF MetricsWithin, LabelAdmitted
-----------------------------------------------------------------------------
\* Lists and their elements.
LEMMA ConcatLength ==
    ASSUME NEW S, NEW s \in Seq(S), NEW t \in Seq(S)
    PROVE  s \o t \in Seq(S) /\ Len(s \o t) = Len(s) + Len(t)
OBVIOUS

LEMMA ToSetConcat ==
    ASSUME NEW S, NEW s \in Seq(S), NEW t \in Seq(S)
    PROVE  ToSet(s \o t) = ToSet(s) \cup ToSet(t)
<1>1. \A k \in DOMAIN s : (s \o t)[k] = s[k] /\ k \in DOMAIN (s \o t)
  OBVIOUS
<1>2. \A k \in DOMAIN t : (s \o t)[Len(s) + k] = t[k] /\ Len(s) + k \in DOMAIN (s \o t)
  OBVIOUS
<1>3. \A k \in DOMAIN (s \o t) : \/ k \in DOMAIN s /\ (s \o t)[k] = s[k]
                                 \/ k - Len(s) \in DOMAIN t /\ (s \o t)[k] = t[k - Len(s)]
  OBVIOUS
<1>4. ToSet(s \o t) \subseteq ToSet(s) \cup ToSet(t)
  BY <1>3, Zenon DEF ToSet
<1>5. ToSet(s) \subseteq ToSet(s \o t)
  BY <1>1, Zenon DEF ToSet
<1>6. ToSet(t) \subseteq ToSet(s \o t)
  BY <1>2, Zenon DEF ToSet
<1> QED BY <1>4, <1>5, <1>6, Zenon

LEMMA ToSetBounded ==
    ASSUME NEW S, NEW s \in Seq(S)
    PROVE  Cardinality(ToSet(s)) \in Nat /\ Cardinality(ToSet(s)) <= Len(s)
<1>1. s \in Surjection(1 .. Len(s), ToSet(s))
  BY DEF Surjection, ToSet
<1>2. IsFiniteSet(1 .. Len(s))
  BY FS_Interval
<1>3. IsFiniteSet(ToSet(s))
  BY <1>1, <1>2, FS_Surjection
<1> QED BY <1>1, <1>3, FS_SurjCardinalityBound, FS_CardinalityType DEF ExistsSurjection
-----------------------------------------------------------------------------
(* The published contract and the labels of the Rust types.                *)

LEMMA PublishedLists ==
    /\ REQUIRED_DECISION \in Seq(ALLOWED_ATTRIBUTE_NAMES)
    /\ \A m \in MetricNames : /\ Published.metrics[m] \in Seq(ALLOWED_ATTRIBUTE_NAMES)
                              /\ Len(Published.metrics[m]) <= 9
<1> DEFINE L(x) == Label(x)
<1>1. \A k \in DOMAIN REQUIRED_DECISION : REQUIRED_DECISION[k] \in ToSet(REQUIRED_DECISION)
  BY DEF ToSet
<1>2. /\ DOMAIN REQUIRED_DECISION = 1 .. 6
      /\ REQUIRED_DECISION[1] = Label("policy_id") /\ REQUIRED_DECISION[2] = Label("layer")
      /\ REQUIRED_DECISION[3] = Label("algorithm") /\ REQUIRED_DECISION[4] = Label("outcome")
      /\ REQUIRED_DECISION[5] = Label("source") /\ REQUIRED_DECISION[6] = Label("principal_kind")
  BY DEF REQUIRED_DECISION
<1>3. {Label("policy_id"), Label("layer"), Label("algorithm"), Label("outcome"), Label("source"),
       Label("principal_kind"), Label("failure_mode"), Label("retry_bucket"), Label("observed_only")}
         \subseteq ALLOWED_ATTRIBUTE_NAMES
  BY <1>1, <1>2 DEF ALLOWED_ATTRIBUTE_NAMES
<1> DEFINE A == ALLOWED_ATTRIBUTE_NAMES
<1> HIDE DEF A
<1>4. <<Label("policy_id"), Label("layer"), Label("algorithm"), Label("outcome"), Label("source"),
        Label("principal_kind")>> \in Seq(A)
  BY <1>3 DEF A
<1>5. <<Label("failure_mode"), Label("retry_bucket"), Label("observed_only")>> \in Seq(A)
  BY <1>3 DEF A
<1>6. /\ <<Label("layer"), Label("source"), Label("failure_mode")>> \in Seq(A)
      /\ <<Label("source")>> \in Seq(A)
  BY <1>3 DEF A
<1>7. <<Label("policy_id"), Label("layer"), Label("algorithm"), Label("source"), Label("retry_bucket")>> \in Seq(A)
  BY <1>3 DEF A
<1>8. Published.metrics =
        [decisions |-> REQUIRED_DECISION \o <<Label("failure_mode"), Label("retry_bucket"), Label("observed_only")>>,
         backendErrors |-> <<Label("layer"), Label("source"), Label("failure_mode")>>,
         cacheEntries |-> <<Label("source")>>,
         retryAfter |-> <<Label("policy_id"), Label("layer"), Label("algorithm"), Label("source"),
                          Label("retry_bucket")>>]
  BY DEF Published
<1>9. Len(REQUIRED_DECISION) = 6 /\ REQUIRED_DECISION \in Seq(A)
  BY <1>4 DEF REQUIRED_DECISION
<1>10. /\ Published.metrics["decisions"] \in Seq(A)
       /\ Len(Published.metrics["decisions"]) <= 9
  <2> DEFINE r == REQUIRED_DECISION
             t == <<Label("failure_mode"), Label("retry_bucket"), Label("observed_only")>>
  <2>1. r \in Seq(A) /\ t \in Seq(A) /\ Len(r) = 6 /\ Len(t) = 3
    BY <1>9, <1>5
  <2>2. Published.metrics["decisions"] = r \o t
    BY <1>8
  <2> HIDE DEF r, t, A
  <2>3. r \o t \in Seq(A) /\ Len(r \o t) = Len(r) + Len(t)
    BY <2>1, ConcatLength
  <2> QED BY <2>1, <2>2, <2>3
<1> QED BY <1>6, <1>7, <1>8, <1>9, <1>10 DEF MetricNames, A

LEMMA PublishedMetrics == DOMAIN Published.metrics = MetricNames
BY DEF Published, MetricNames

LEMMA PublishedWithin == \A m \in MetricNames : ToSet(Published.metrics[m]) \subseteq ALLOWED_ATTRIBUTE_NAMES
<1>1. \A s \in Seq(ALLOWED_ATTRIBUTE_NAMES) : ToSet(s) \subseteq ALLOWED_ATTRIBUTE_NAMES
  BY DEF ToSet
<1> QED BY <1>1, PublishedLists, Zenon

LEMMA PublishedTrusted == trustedV1Contract(Published)
<1>1. SameRequired(Published)
  BY DEF Published, SameRequired
<1>2. SameEnums(Published)
  BY DEF Published, SameEnums, EnumNames
<1>4. MetricsWithin(Published)
  BY PublishedWithin, PublishedMetrics, Zenon DEF MetricsWithin
<1>5. Forbidden \subseteq Published.forbiddenAttributes /\ TraceOnly \subseteq Published.traceOrLogOnly
  BY DEF Published
<1> QED BY <1>1, <1>2, <1>4, <1>5, Zenon DEF trustedV1Contract

\* The metric of decisions allows the labels a decision must have.
LEMMA PublishedRequires == ToSet(REQUIRED_DECISION) \subseteq ToSet(Published.metrics["decisions"])
<1> DEFINE t == <<Label("failure_mode"), Label("retry_bucket"), Label("observed_only")>>
           S == ToSet(REQUIRED_DECISION) \cup ToSet(t)
<1>1. REQUIRED_DECISION \in Seq(S)
  BY DEF REQUIRED_DECISION, ToSet
<1>2. t \in Seq(S)
  BY DEF ToSet
<1>3. Published.metrics["decisions"] = REQUIRED_DECISION \o t
  BY DEF Published
<1> HIDE DEF t, S
<1> QED BY <1>1, <1>2, <1>3, ToSetConcat

LEMMA AllowedIsBounded ==
    ASSUME NEW m \in MetricNames
    PROVE  Cardinality(ToSet(Published.metrics[m])) \in 0 .. 9
<1>1. /\ Published.metrics[m] \in Seq(ALLOWED_ATTRIBUTE_NAMES)
      /\ Len(Published.metrics[m]) <= 9 /\ Len(Published.metrics[m]) \in Nat
  BY PublishedLists
<1> DEFINE n == Cardinality(ToSet(Published.metrics[m]))
<1>2. n \in Nat /\ n <= Len(Published.metrics[m])
  BY <1>1, ToSetBounded
<1> HIDE DEF n
<1>3. n \in 0 .. 9
  BY <1>1, <1>2
<1> QED BY <1>3 DEF n

\* The nine names, one by one.
LEMMA AllowedNames ==
    ALLOWED_ATTRIBUTE_NAMES =
        {Label("policy_id"), Label("layer"), Label("algorithm"), Label("outcome"), Label("source"),
         Label("principal_kind"), Label("failure_mode"), Label("retry_bucket"), Label("observed_only")}
<1>1. /\ DOMAIN REQUIRED_DECISION = 1 .. 6
      /\ REQUIRED_DECISION[1] = Label("policy_id") /\ REQUIRED_DECISION[2] = Label("layer")
      /\ REQUIRED_DECISION[3] = Label("algorithm") /\ REQUIRED_DECISION[4] = Label("outcome")
      /\ REQUIRED_DECISION[5] = Label("source") /\ REQUIRED_DECISION[6] = Label("principal_kind")
  BY DEF REQUIRED_DECISION
<1>2. \A k \in 1 .. 6 : k \in {1, 2, 3, 4, 5, 6}
  OBVIOUS
<1>3. ToSet(REQUIRED_DECISION) = {Label("policy_id"), Label("layer"), Label("algorithm"), Label("outcome"),
                                  Label("source"), Label("principal_kind")}
  BY <1>1, <1>2 DEF ToSet
<1> QED BY <1>3 DEF ALLOWED_ATTRIBUTE_NAMES

LEMMA SuffixOfLabel == \A x : Suffix(Label(x)) = x
BY DEF Suffix, Label

\* No name of the vocabulary is forbidden, and none is for traces only.
LEMMA AllowedIsPlain ==
    ASSUME NEW key \in ALLOWED_ATTRIBUTE_NAMES
    PROVE  key \notin Published.forbiddenAttributes \cup Published.traceOrLogOnly
<1>1. \E x : key = Label(x) /\ x # "principal_fingerprint"
  BY AllowedNames
<1>2. \A x : Label(x) \notin Forbidden
  BY DEF Forbidden, Label, Bare
<1>3. \A x : x # "principal_fingerprint" => Label(x) \notin TraceOnly
  BY DEF TraceOnly, Label, Bare
<1> QED BY <1>1, <1>2, <1>3 DEF Published

\* What an exporter writes under each name is what the contract has for it.
FieldFits(key, v, id, observed) ==
    \/ key = Label("policy_id") /\ v = Text(id.text)
    \/ key = Label("observed_only") /\ v = Flag(observed)
    \/ /\ key \notin {Label("policy_id"), Label("observed_only")}
       /\ Suffix(key) \in DOMAIN ENUM_BY_SUFFIX
       /\ \E x \in ToSet(EXPECTED_ENUMS[ENUM_BY_SUFFIX[Suffix(key)]]) : v = Text(x)

LEMMA RetryBuckets ==
    ASSUME NEW ms
    PROVE  RetryBucket(ms) \in {"none", "lt_1s", "1s_10s", "10s_60s", "1m_5m", "gt_5m"}
BY SMT DEF RetryBucket

\* Values of the enumerations that the fields take.
LEMMA FieldValues ==
    /\ {"edge", "data_store"} \subseteq ToSet(EXPECTED_ENUMS.layer)
    /\ "token_bucket" \in ToSet(EXPECTED_ENUMS.algorithm)
    /\ {"allow", "degraded_allow"} \subseteq ToSet(EXPECTED_ENUMS.outcome)
    /\ "redis_authoritative" \in ToSet(EXPECTED_ENUMS.source)
    /\ "tenant" \in ToSet(EXPECTED_ENUMS.principalKind)
    /\ "fail_open" \in ToSet(EXPECTED_ENUMS.failureMode)
    /\ {"none", "lt_1s", "1s_10s", "10s_60s", "1m_5m", "gt_5m"} \subseteq ToSet(EXPECTED_ENUMS.retryBucket)
<1> DEFINE At(s, k) == s[k] \in ToSet(s)
<1>1. \A s, k : k \in DOMAIN s => At(s, k)
  BY DEF ToSet
<1>2. /\ DOMAIN EXPECTED_ENUMS.layer = 1 .. 5 /\ DOMAIN EXPECTED_ENUMS.algorithm = 1 .. 4
      /\ DOMAIN EXPECTED_ENUMS.outcome = 1 .. 5 /\ DOMAIN EXPECTED_ENUMS.source = 1 .. 9
      /\ DOMAIN EXPECTED_ENUMS.principalKind = 1 .. 5 /\ DOMAIN EXPECTED_ENUMS.failureMode = 1 .. 4
      /\ DOMAIN EXPECTED_ENUMS.retryBucket = 1 .. 6
  BY DEF EXPECTED_ENUMS
<1>3. /\ EXPECTED_ENUMS.layer[1] = "edge" /\ EXPECTED_ENUMS.layer[5] = "data_store"
      /\ EXPECTED_ENUMS.algorithm[1] = "token_bucket"
      /\ EXPECTED_ENUMS.outcome[1] = "allow" /\ EXPECTED_ENUMS.outcome[5] = "degraded_allow"
  BY DEF EXPECTED_ENUMS
<1>4. /\ EXPECTED_ENUMS.source[7] = "redis_authoritative" /\ EXPECTED_ENUMS.principalKind[4] = "tenant"
      /\ EXPECTED_ENUMS.failureMode[1] = "fail_open"
  BY DEF EXPECTED_ENUMS
<1>5. /\ EXPECTED_ENUMS.retryBucket[1] = "none" /\ EXPECTED_ENUMS.retryBucket[2] = "lt_1s"
      /\ EXPECTED_ENUMS.retryBucket[3] = "1s_10s" /\ EXPECTED_ENUMS.retryBucket[4] = "10s_60s"
      /\ EXPECTED_ENUMS.retryBucket[5] = "1m_5m" /\ EXPECTED_ENUMS.retryBucket[6] = "gt_5m"
  BY DEF EXPECTED_ENUMS
<1>6. {"edge", "data_store"} \subseteq ToSet(EXPECTED_ENUMS.layer)
  BY <1>1, <1>2, <1>3
<1>7. "token_bucket" \in ToSet(EXPECTED_ENUMS.algorithm) /\ {"allow", "degraded_allow"} \subseteq ToSet(EXPECTED_ENUMS.outcome)
  BY <1>1, <1>2, <1>3
<1>8. /\ "redis_authoritative" \in ToSet(EXPECTED_ENUMS.source)
      /\ "tenant" \in ToSet(EXPECTED_ENUMS.principalKind)
      /\ "fail_open" \in ToSet(EXPECTED_ENUMS.failureMode)
  BY <1>1, <1>2, <1>4
<1>9. {"none", "lt_1s", "1s_10s", "10s_60s", "1m_5m", "gt_5m"} \subseteq ToSet(EXPECTED_ENUMS.retryBucket)
  BY <1>1, <1>2, <1>5
<1> QED BY <1>6, <1>7, <1>8, <1>9

LEMMA FieldsFit ==
    ASSUME NEW id, NEW layer \in {"edge", "data_store"}, NEW outcome \in {"allow", "degraded_allow"},
           NEW ms, NEW observed, NEW key \in ALLOWED_ATTRIBUTE_NAMES, NEW v,
           v = RustFields(id, layer, outcome, "fail_open", ms, observed)[Suffix(key)]
    PROVE  FieldFits(key, v, id, observed)
<1> DEFINE F == RustFields(id, layer, outcome, "fail_open", ms, observed)
<1>1. /\ F["policy_id"] = Text(id.text) /\ F["layer"] = Text(layer) /\ F["algorithm"] = Text("token_bucket")
      /\ F["outcome"] = Text(outcome) /\ F["source"] = Text("redis_authoritative")
      /\ F["principal_kind"] = Text("tenant") /\ F["failure_mode"] = Text("fail_open")
      /\ F["retry_bucket"] = Text(RetryBucket(ms)) /\ F["observed_only"] = Flag(observed)
  BY DEF RustFields
<1> HIDE DEF F
<1>2. \A x : key = Label(x) => Suffix(key) = x /\ v = F[x]
  BY SuffixOfLabel DEF F
<1>3. \A x : x \notin {"policy_id", "observed_only"} => Label(x) \notin {Label("policy_id"), Label("observed_only")}
  BY DEF Label
<1>4. ASSUME NEW x \in DOMAIN ENUM_BY_SUFFIX, NEW y \in ToSet(EXPECTED_ENUMS[ENUM_BY_SUFFIX[x]]),
             x \notin {"policy_id", "observed_only"}, key = Label(x), F[x] = Text(y)
      PROVE  FieldFits(key, v, id, observed)
  BY <1>2, <1>3, <1>4 DEF FieldFits
<1>5. /\ DOMAIN ENUM_BY_SUFFIX = {"layer", "algorithm", "outcome", "source", "principal_kind", "failure_mode",
                                 "retry_bucket"}
      /\ ENUM_BY_SUFFIX["layer"] = "layer" /\ ENUM_BY_SUFFIX["algorithm"] = "algorithm"
      /\ ENUM_BY_SUFFIX["outcome"] = "outcome" /\ ENUM_BY_SUFFIX["source"] = "source"
      /\ ENUM_BY_SUFFIX["principal_kind"] = "principalKind" /\ ENUM_BY_SUFFIX["failure_mode"] = "failureMode"
      /\ ENUM_BY_SUFFIX["retry_bucket"] = "retryBucket"
  BY DEF ENUM_BY_SUFFIX
<1>6. CASE key = Label("policy_id")
  BY <1>1, <1>2, <1>6 DEF FieldFits
<1>7. CASE key = Label("observed_only")
  BY <1>1, <1>2, <1>7 DEF FieldFits
<1>8. CASE key = Label("layer")
  BY <1>1, <1>4, <1>5, <1>8, FieldValues
<1>9. CASE key = Label("algorithm")
  BY <1>1, <1>4, <1>5, <1>9, FieldValues
<1>10. CASE key = Label("outcome")
  BY <1>1, <1>4, <1>5, <1>10, FieldValues
<1>11. CASE key = Label("source")
  BY <1>1, <1>4, <1>5, <1>11, FieldValues
<1>12. CASE key = Label("principal_kind")
  BY <1>1, <1>4, <1>5, <1>12, FieldValues
<1>13. CASE key = Label("failure_mode")
  BY <1>1, <1>4, <1>5, <1>13, FieldValues
<1>14. CASE key = Label("retry_bucket")
  BY <1>1, <1>4, <1>5, <1>14, FieldValues, RetryBuckets
<1> QED BY <1>6, <1>7, <1>8, <1>9, <1>10, <1>11, <1>12, <1>13, <1>14, AllowedNames

LEMMA FittingAdmitted ==
    ASSUME NEW m, NEW ids, NEW id \in ToSet(ids), NEW observed \in {"true", "false"}, NEW key, NEW v,
           key \in ToSet(Published.metrics[m]),
           key \notin Published.forbiddenAttributes \cup Published.traceOrLogOnly,
           FieldFits(key, v, id, observed)
    PROVE  IsValue(v) /\ LabelAdmitted(Published, m, key, v, ids)
<1>1. CASE key = Label("policy_id") /\ v = Text(id.text)
  <2>1. v.type = "string" /\ v.text = id.text /\ IsValue(v)
    BY <1>1 DEF Text, IsValue
  <2> QED BY <1>1, <2>1 DEF LabelAdmitted
<1>2. CASE key = Label("observed_only") /\ v = Flag(observed)
  <2>1. v.type = "boolean" /\ IsValue(v)
    BY <1>2 DEF Flag, IsValue
  <2> QED BY <1>2, <2>1, LabelsDiffer DEF LabelAdmitted
<1>3. CASE /\ key \notin {Label("policy_id"), Label("observed_only")}
           /\ Suffix(key) \in DOMAIN ENUM_BY_SUFFIX
           /\ \E x \in ToSet(EXPECTED_ENUMS[ENUM_BY_SUFFIX[Suffix(key)]]) : v = Text(x)
  <2>1. v.type = "string" /\ IsValue(v) /\ v.text \in ToSet(EXPECTED_ENUMS[ENUM_BY_SUFFIX[Suffix(key)]])
    BY <1>3 DEF Text, IsValue
  <2>2. Published.enums = EXPECTED_ENUMS
    BY DEF Published
  <2> QED BY <1>3, <2>1, <2>2 DEF LabelAdmitted
<1> QED BY <1>1, <1>2, <1>3 DEF FieldFits

\* A label map of the Rust types has the labels of its metric, each written from its field.
LEMMA RustLabelsOf ==
    ASSUME NEW m \in MetricNames, NEW f \in FromRust(m)
    PROVE  /\ DOMAIN f = ToSet(Published.metrics[m])
           /\ \A key \in DOMAIN f : IsValue(f[key])
           /\ \A key \in DOMAIN f : LabelAdmitted(Published, m, key, f[key], policyIds)
<1>1. PICK id \in Ids, layer \in {"edge", "data_store"}, outcome \in {"allow", "degraded_allow"},
           ms \in {{}, {999}, {300000}, {300001}}, observed \in {"true", "false"} :
           f = Restricted(RustLabels(id, layer, outcome, "fail_open", ms, observed), m)
  BY DEF FromRust
<1> DEFINE R == RustLabels(id, layer, outcome, "fail_open", ms, observed)
           A == ALLOWED_ATTRIBUTE_NAMES
           M == ToSet(Published.metrics[m])
<1>2. M \subseteq A
  BY PublishedWithin
<1>3. DOMAIN R = A
  BY DEF RustLabels
<1>4. DOMAIN f = M /\ \A key \in M : f[key] = R[key]
  <2> HIDE DEF R, A, M
  <2>1. f = [k \in DOMAIN R \ (DOMAIN R \ M) |-> R[k]]
    BY <1>1 DEF Restricted, Without, R, M
  <2>2. DOMAIN R \ (DOMAIN R \ M) = M
    BY <1>2, <1>3
  <2> QED BY <2>1, <2>2
<1> DEFINE field == RustFields(id, layer, outcome, "fail_open", ms, observed)
<1>5. \A key \in A : R[key] = field[Suffix(key)]
  BY DEF RustLabels
<1> HIDE DEF R, A, M, field
<1>6. \A key \in M : /\ key \in A /\ f[key] = field[Suffix(key)]
                     /\ IsValue(field[Suffix(key)])
                     /\ LabelAdmitted(Published, m, key, field[Suffix(key)], policyIds)
  <2> SUFFICES ASSUME NEW key \in M
               PROVE  /\ IsValue(field[Suffix(key)])
                      /\ LabelAdmitted(Published, m, key, field[Suffix(key)], policyIds)
    BY <1>2, <1>4, <1>5
  <2>1. key \in A
    BY <1>2
  <2>2. key \notin Published.forbiddenAttributes \cup Published.traceOrLogOnly
    BY <2>1, AllowedIsPlain DEF A
  <2>3. FieldFits(key, field[Suffix(key)], id, observed)
    BY <2>1, FieldsFit DEF A, field
  <2>4. id \in ToSet(policyIds)
    BY DEF Ids, ToSet
  <2> QED BY <2>2, <2>3, <2>4, FittingAdmitted DEF M
<1> QED BY <1>4, <1>6 DEF M
-----------------------------------------------------------------------------
(* The maps a caller hands over are maps of values.                        *)

Values(f) == \A key \in DOMAIN f : IsValue(f[key])

LEMMA WithoutValues ==
    ASSUME NEW f, Values(f), NEW S
    PROVE  Values(Without(f, S))
<1>1. \A k \in DOMAIN Without(f, S) : k \in DOMAIN f /\ Without(f, S)[k] = f[k]
  BY DEF Without
<1> QED BY <1>1 DEF Values

LEMMA LiteralValues ==
    /\ \A x : IsValue(Text(x))
    /\ \A x \in {"true", "false"} : IsValue(Flag(x))
BY DEF IsValue, Text, Flag

LEMMA SpoiledValues ==
    ASSUME NEW f, Values(f), NEW g \in Spoiled(f)
    PROVE  Values(g)
<1>1. CASE \E k \in DOMAIN f : g = Without(f, {k})
  BY <1>1, WithoutValues
<1>2. ASSUME NEW x \in DOMAIN f \cup StrayLabels, NEW v \in StrayValues \cup {Flag("true"), Text("edge")},
             g = With(f, x, v)
      PROVE  Values(g)
  <2>1. IsValue(v)
    BY RateLimitAssumption, LiteralValues
  <2>2. \A k \in DOMAIN g : g[k] = v \/ (k \in DOMAIN f /\ g[k] = f[k])
    BY <1>2 DEF With
  <2> QED BY <2>1, <2>2 DEF Values
<1>3. \/ \E k \in DOMAIN f : g = Without(f, {k})
      \/ \E x \in DOMAIN f \cup StrayLabels, v \in StrayValues \cup {Flag("true"), Text("edge")} : g = With(f, x, v)
  BY DEF Spoiled
<1> QED BY <1>1, <1>2, <1>3

LEMMA TypicalValues ==
    ASSUME NEW id, NEW m
    PROVE  Values(Restricted(Typical(id), m))
<1> DEFINE R == Typical(id)
<1>1. /\ DOMAIN R = ALLOWED_ATTRIBUTE_NAMES
      /\ \A key \in ALLOWED_ATTRIBUTE_NAMES :
            R[key] = RustFields(id, "edge", "allow", "fail_open", {999}, "true")[Suffix(key)]
  BY DEF Typical, RustLabels
<1> HIDE DEF R
<1>2. \A key \in ALLOWED_ATTRIBUTE_NAMES : FieldFits(key, R[key], id, "true")
  BY <1>1, FieldsFit
<1>3. Values(R)
  BY <1>1, <1>2, LiteralValues DEF Values, FieldFits
<1> QED BY <1>3, WithoutValues DEF Restricted, R
-----------------------------------------------------------------------------
LEMMA NothingIs == Nothing.by = "" /\ Nothing.verdict = "none"
BY DEF Nothing

LEMMA InitInv == Init => IInv
<1>1. 0 \in Nat /\ Nothing.by # "rust"
  BY NothingIs
<1> QED BY <1>1, Zenon DEF Init, IInv, AnswerCurrent, RustOrigin, AsLoaded

\* What one request leaves behind.
LEMMA AdmitInv ==
    ASSUME IInv, NEW by, NEW m, NEW labels, Admit(by, m, labels), Values(labels),
           by = "rust" => m \in MetricNames /\ labels \in FromRust(m)
    PROVE  IInv'
<1>1. /\ last' = [by |-> by, metric |-> m, labels |-> labels,
                  verdict |-> admitRateLimitMetricAttributes(contract, m, labels, policyIds)]
      /\ contract' = contract /\ drift' = drift /\ policyIds' = policyIds
  BY DEF Admit
<1>2. /\ last'.by = by /\ last'.metric = m /\ last'.labels = labels
      /\ last'.verdict = admitRateLimitMetricAttributes(contract, m, labels, policyIds)
  BY <1>1
<1>3. AnswerCurrent'
  BY <1>1, <1>2 DEF AnswerCurrent, Verdict, Values
<1>4. RustOrigin'
  <2>1. FromRust(m)' = FromRust(m)
    BY <1>1 DEF FromRust, Ids
  <2> QED BY <1>2, <2>1 DEF RustOrigin
<1>5. AsLoaded'
  BY <1>1 DEF IInv, AsLoaded
<1> QED BY <1>3, <1>4, <1>5 DEF IInv

\* A request is one admission of a map of values.
LEMMA RequestShape ==
    ASSUME Request
    PROVE  \E by, m, f : /\ Admit(by, m, f) /\ Values(f)
                         /\ by = "rust" => m \in MetricNames /\ f \in FromRust(m)
<1>1. ASSUME NEW m \in MetricNames, NEW f \in FromRust(m), Admit("rust", m, f)
      PROVE  Values(f)
  BY RustLabelsOf DEF Values
<1>2. ASSUME NEW m \in MetricNames, NEW id \in Ids, NEW f \in Spoiled(Restricted(Typical(id), m))
      PROVE  Values(f)
  BY TypicalValues, SpoiledValues
<1>3. ASSUME NEW id \in Ids, NEW names \in NewMetricLabels,
             NEW g \in LET f == [k \in ToSet(names) |-> IF k = Label("policy_id") THEN Text(id.text) ELSE Text("edge")]
                       IN  {f} \cup Spoiled(f)
      PROVE  Values(g)
  <2> DEFINE f == [k \in ToSet(names) |-> IF k = Label("policy_id") THEN Text(id.text) ELSE Text("edge")]
  <2>1. Values(f)
    BY LiteralValues DEF Values
  <2>2. g = f \/ g \in Spoiled(f)
    BY <1>3
  <2> HIDE DEF f
  <2> QED BY <2>1, <2>2, SpoiledValues
<1>4. "other" # "rust"
  OBVIOUS
<1>5. CASE \E m \in MetricNames : \E f \in FromRust(m) : Admit("rust", m, f)
  BY <1>5, <1>1
<1>6. CASE \E m \in MetricNames, id \in Ids : \E f \in Spoiled(Restricted(Typical(id), m)) : Admit("other", m, f)
  BY <1>6, <1>2, <1>4
<1>7. ASSUME NEW id \in Ids, NEW names \in NewMetricLabels,
             NEW g \in LET f == [k \in ToSet(names) |-> IF k = Label("policy_id") THEN Text(id.text) ELSE Text("edge")]
                       IN  {f} \cup Spoiled(f),
             Admit("other", "other", g)
      PROVE  \E by, m, f : /\ Admit(by, m, f) /\ Values(f)
                           /\ by = "rust" => m \in MetricNames /\ f \in FromRust(m)
  <2>1. Values(g)
    BY <1>3, Zenon
  <2> QED BY <1>7, <2>1, <1>4, Zenon
<1> QED BY <1>5, <1>6, <1>7, Zenon DEF Request

\* Whoever changes the contract object or the configuration does so while no answer stands.
LEMMA QuietInv ==
    ASSUME IInv, last = Nothing, Drift \/ Load \/ Configure
    PROVE  IInv'
<1>1. last' = Nothing
  BY DEF Drift, Load, Configure
<1>2. AnswerCurrent' /\ RustOrigin'
  BY <1>1 DEF AnswerCurrent, RustOrigin, Nothing
<1>3. AsLoaded'
  BY DEF IInv, AsLoaded, Drift, Load, Configure
<1> QED BY <1>2, <1>3 DEF IInv

LEMMA NextInv == IInv /\ [Next]_vars => IInv'
<1> SUFFICES ASSUME IInv, [Next]_vars PROVE IInv'
  OBVIOUS
<1>1. CASE last = Nothing /\ (Drift \/ Load \/ Configure)
  BY <1>1, QuietInv
<1>2. CASE Request
  BY <1>2, RequestShape, AdmitInv
<1>3. CASE Use
  <2>1. last' = Nothing /\ UNCHANGED <<contract, drift>>
    BY <1>3 DEF Use
  <2> QED BY <2>1 DEF IInv, AnswerCurrent, RustOrigin, AsLoaded, Nothing
<1>4. CASE UNCHANGED vars
  <2>1. UNCHANGED <<contract, drift, policyIds, last>>
    BY <1>4 DEF vars
  <2>2. FromRust(last.metric)' = FromRust(last.metric) /\ Verdict' = Verdict
    BY <2>1 DEF FromRust, Ids, Verdict
  <2> QED BY <2>1, <2>2 DEF IInv, AnswerCurrent, RustOrigin, AsLoaded
<1> QED BY <1>1, <1>2, <1>3, <1>4 DEF Next

LEMMA Invariance == Spec => []IInv
<1>1. Init => IInv
  BY InitInv
<1>2. IInv /\ [Next]_vars => IInv'
  BY NextInv
<1> QED BY <1>1, <1>2, PTL DEF Spec
-----------------------------------------------------------------------------
\* Whatever became of the contract object, what was admitted is of the fixed finite vocabulary
\* (scripts/admit-rate-limit-metric.mjs:36): for any drift, any configuration, any labels.
THEOREM VocabularyIsFixed == Spec => []FixedVocabulary
<1>1. ASSUME IInv PROVE FixedVocabulary
  <2>1. SUFFICES ASSUME last.verdict = "admitted"
                 PROVE  /\ last.metric \in MetricNames => DOMAIN last.labels \subseteq ALLOWED_ATTRIBUTE_NAMES
                        /\ \A key \in DOMAIN last.labels : last.labels[key] \in Vocabulary(key, policyIds)
    BY DEF FixedVocabulary
  <2>2. /\ Verdict = "admitted"
        /\ \A key \in DOMAIN last.labels : IsValue(last.labels[key])
    BY <1>1, <2>1, NothingIs DEF IInv, AnswerCurrent
  <2>3. /\ trustedV1Contract(contract)
        /\ \A key \in DOMAIN last.labels :
              LabelAdmitted(contract, last.metric, key, last.labels[key], policyIds)
    BY <2>2, AdmittedPassed DEF Verdict
  <2>4. SameEnums(contract) /\ MetricsWithin(contract)
    BY <2>3, Zenon DEF trustedV1Contract
  <2> QED BY <2>2, <2>3, <2>4, LabelInVocabulary, NamesInVocabulary
<1> QED BY <1>1, Invariance, PTL

\* Whatever became of the contract object, an admitted decision has its six labels
\* (scripts/admit-rate-limit-metric.mjs:83).
THEOREM DecisionsAreComplete == Spec => []DecisionsComplete
<1>1. ASSUME IInv PROVE DecisionsComplete
  <2>1. SUFFICES ASSUME last.verdict = "admitted", last.metric = "decisions"
                 PROVE  ToSet(REQUIRED_DECISION) \subseteq DOMAIN last.labels
    BY DEF DecisionsComplete
  <2>2. Verdict = "admitted"
    BY <1>1, <2>1, NothingIs DEF IInv, AnswerCurrent
  <2>3. trustedV1Contract(contract) /\ ToSet(contract.requiredDecision) \subseteq DOMAIN last.labels
    BY <2>1, <2>2, AdmittedPassed DEF Verdict
  <2>4. SameRequired(contract)
    BY <2>3, Zenon DEF trustedV1Contract
  <2> QED BY <2>3, <2>4 DEF SameRequired
<1> QED BY <1>1, Invariance, PTL

\* Under the published contract every label map of the Rust types is admitted, with any list of
\* policy IDs that the admission takes (langs/rust/src/rate_limit.rs, contracts/rate-limit-telemetry-v1.json).
THEOREM RustIsAdmitted == Spec => []RustLabelsAdmitted
<1>1. ASSUME NEW m \in MetricNames, NEW f \in FromRust(m), PolicyVocabulary(Published, policyIds)
      PROVE  admitRateLimitMetricAttributes(Published, m, f, policyIds) = "admitted"
  <2>1. Published.schema = "v1" /\ Published.requiredDecision = REQUIRED_DECISION
    BY DEF Published
  <2>2. m \in DOMAIN Published.metrics
    BY PublishedMetrics
  <2>3. /\ DOMAIN f = ToSet(Published.metrics[m])
        /\ \A key \in DOMAIN f : LabelAdmitted(Published, m, key, f[key], policyIds)
    BY RustLabelsOf
  <2>4. WithinCount(Published, m, f)
    <3>1. Cardinality(ToSet(Published.metrics[m])) \in 0 .. 9
      BY AllowedIsBounded
    <3> QED BY <2>3, <3>1 DEF WithinCount
  <2>5. m = "decisions" => ToSet(REQUIRED_DECISION) \subseteq DOMAIN f
    BY <2>3, PublishedRequires
  <2> HIDE DEF Published
  <2> QED BY <1>1, <2>1, <2>2, <2>3, <2>4, <2>5, PublishedTrusted, Zenon DEF admitRateLimitMetricAttributes
<1>2. ASSUME IInv PROVE RustLabelsAdmitted
  <2>1. SUFFICES ASSUME last.by = "rust", drift = 0, PolicyVocabulary(Published, policyIds)
                 PROVE  last.verdict = "admitted"
    BY DEF RustLabelsAdmitted
  <2>2. /\ last.metric \in MetricNames /\ last.labels \in FromRust(last.metric) /\ contract = Published
        /\ last # Nothing => last.verdict = Verdict
    BY <1>2, <2>1 DEF IInv, RustOrigin, AsLoaded, AnswerCurrent
  <2>3. last # Nothing
    BY <2>1, NothingIs
  <2> QED BY <1>1, <2>1, <2>2, <2>3 DEF Verdict
<1> QED BY <1>2, Invariance, PTL
=============================================================================
