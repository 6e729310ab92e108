------------------------------ MODULE RateLimit ------------------------------
(***************************************************************************)
(* scripts/admit-rate-limit-metric.mjs: which label maps may be put on a   *)
(* rate-limit metric.  A service holds the telemetry contract as an object *)
(* (contracts/rate-limit-telemetry-v1.json when it was loaded, anything    *)
(* after it drifted), a configuration of policy IDs, and asks for the      *)
(* admission of one label map after another, some of them built by         *)
(* langs/rust/src/rate_limit.rs.                                           *)
(*                                                                         *)
(* A value is a record of its type and its text, a policy ID a value with  *)
(* its form and its length in bytes.  Which of the checks refused a map is *)
(* kept; the wording is not.                                               *)
(***************************************************************************)
EXTENDS Naturals, Sequences, SequencesExt, FiniteSets

CONSTANTS
    Configurations, \* the lists of policy IDs a service may be configured with
    StrayLabels,    \* label names outside the vocabulary
    StrayValues,    \* values outside the vocabulary
    NewMetricLabels,\* lists of labels that a drifted contract's fifth metric may allow
    MaxDrift        \* bound: how many changes the contract object takes

\* Texts and policy IDs.  A canonical ID is of lower-case letters, digits, ".", "_" and "-"; a
\* portable one may also have capitals and ":"; a free one has anything.
Text(s) == [type |-> "string", text |-> s]
Flag(s) == [type |-> "boolean", text |-> s]
PolicyId(s, form, bytes) == [type |-> "string", text |-> s, form |-> form, bytes |-> bytes]

\* A value has a type and a text, and there are two booleans.
IsValue(v) == /\ v = [type |-> v.type, text |-> v.text]
              /\ v.type = "boolean" => v.text \in {"true", "false"}

ASSUME RateLimitAssumption == \A v \in StrayValues : IsValue(v)

EXPECTED_ENUMS ==
    [layer         |-> <<"edge", "load_balancer", "service", "authentication", "data_store">>,
     algorithm     |-> <<"token_bucket", "fixed_window", "sliding_window", "concurrency">>,
     outcome       |-> <<"allow", "deny", "observe_only_overage", "bypass", "degraded_allow">>,
     source        |-> <<"cloudflare_binding", "cloudflare_deny_cache", "ingress_nginx", "envoy_local",
                         "traefik_local", "local_memory", "redis_authoritative", "redis_deny_cache", "data_store">>,
     principalKind |-> <<"anonymous_ip", "authenticated_subject", "service_identity", "tenant", "composite">>,
     failureMode   |-> <<"fail_open", "fail_closed", "local_fallback", "not_applicable">>,
     retryBucket   |-> <<"none", "lt_1s", "1s_10s", "10s_60s", "1m_5m", "gt_5m">>]
EnumNames == DOMAIN EXPECTED_ENUMS

\* Label names.  A label of the contract is written without its prefix "ores.rate_limit.";
\* Bare(x) is the label whose whole name is x.
Bare(x) == <<x>>
Label(x) == <<"ores.rate_limit", x>>
REQUIRED_DECISION == <<Label("policy_id"), Label("layer"), Label("algorithm"), Label("outcome"),
                       Label("source"), Label("principal_kind")>>
ALLOWED_ATTRIBUTE_NAMES ==
    ToSet(REQUIRED_DECISION) \cup {Label("failure_mode"), Label("retry_bucket"), Label("observed_only")}

\* ENUM_BY_SUFFIX[key.replace(/^ores\.rate_limit\./, "")], {} where there is none: a name without
\* the prefix is its own suffix.
Suffix(key) == key[Len(key)]
ENUM_BY_SUFFIX == [layer |-> "layer", algorithm |-> "algorithm", outcome |-> "outcome", source |-> "source",
                   principal_kind |-> "principalKind", failure_mode |-> "failureMode", retry_bucket |-> "retryBucket"]

Forbidden == {Bare(x) : x \in {"authorization", "cookie", "email", "ip", "client_ip", "user_id", "tenant_id",
                 "session_id", "subject", "token", "principal", "principal_digest", "rate_limit_key",
                 "redis_key", "cache_key"}}
TraceOnly == {Label("principal_fingerprint"), Bare("trace_id"), Bare("http.request_id")}
MetricNames == {"decisions", "backendErrors", "cacheEntries", "retryAfter"}

\* contracts/rate-limit-telemetry-v1.json
Published ==
    [schema |-> "v1",
     cardinality |-> [policyIdIsStaticConfiguration |-> "true", dynamicRouteLabelsAllowed |-> "false",
                      principalFingerprintAllowedInMetrics |-> "false", policyIdMaxUtf8Bytes |-> 128],
     forbiddenAttributes |-> Forbidden, traceOrLogOnly |-> TraceOnly,
     requiredDecision |-> REQUIRED_DECISION, enums |-> EXPECTED_ENUMS,
     metrics |-> [decisions |-> REQUIRED_DECISION \o
                         <<Label("failure_mode"), Label("retry_bucket"), Label("observed_only")>>,
                  backendErrors |-> <<Label("layer"), Label("source"), Label("failure_mode")>>,
                  cacheEntries |-> <<Label("source")>>,
                  retryAfter |-> <<Label("policy_id"), Label("layer"), Label("algorithm"), Label("source"),
                                   Label("retry_bucket")>>]]

(***************************************************************************)
(* admitRateLimitMetricAttributes.                                         *)
(***************************************************************************)
\* Mutant of SameRequired: the lists are compared by length.
SameRequiredLength(c) == Len(c.requiredDecision) = Len(REQUIRED_DECISION)
SameRequired(c) == /\ Len(c.requiredDecision) = Len(REQUIRED_DECISION)
                   /\ ToSet(REQUIRED_DECISION) \subseteq ToSet(c.requiredDecision)

\* Mutant of SameEnums: a list that begins with the expected values will do.
SameEnumsPrefix(c) ==
    \A name \in EnumNames : /\ name \in DOMAIN c.enums
                            /\ IsPrefix(EXPECTED_ENUMS[name], c.enums[name])
SameEnums(c) ==
    \A name \in EnumNames : /\ name \in DOMAIN c.enums
                            /\ c.enums[name] = EXPECTED_ENUMS[name]

MetricsWithin(c) ==
    \A name \in MetricNames : /\ name \in DOMAIN c.metrics
                              /\ ToSet(c.metrics[name]) \subseteq ALLOWED_ATTRIBUTE_NAMES

\* function trustedV1Contract(contract)
trustedV1Contract(c) ==
    /\ c.cardinality = Published.cardinality
    /\ Forbidden \subseteq c.forbiddenAttributes
    /\ TraceOnly \subseteq c.traceOrLogOnly
    /\ SameRequired(c) /\ SameEnums(c) /\ MetricsWithin(c)

\* The vocabulary of policy IDs: a list of 1 to 64 different canonical IDs of at most 128 bytes.
PolicyVocabulary(c, policyIds) ==
    /\ Len(policyIds) \in 1 .. 64
    /\ \A id \in ToSet(policyIds) : id.form = "canonical" /\ id.bytes <= c.cardinality.policyIdMaxUtf8Bytes
    /\ Cardinality({id.text : id \in ToSet(policyIds)}) = Len(policyIds)

\* One turn of the loop over the labels.
LabelAdmitted(c, m, key, value, policyIds) ==
    /\ key \in ToSet(c.metrics[m]) /\ key \notin c.forbiddenAttributes \cup c.traceOrLogOnly
    /\ IF key = Label("policy_id") THEN value.type = "string" /\ \E id \in ToSet(policyIds) : id.text = value.text
       ELSE IF key = Label("observed_only") THEN value.type = "boolean"
       ELSE /\ Suffix(key) \in DOMAIN ENUM_BY_SUFFIX /\ value.type = "string"
            /\ value.text \in ToSet(c.enums[ENUM_BY_SUFFIX[Suffix(key)]])

\* Mutant of WithinCount: off by one.
WithinCountStrictly(c, m, labels) == Cardinality(DOMAIN labels) < Cardinality(ToSet(c.metrics[m]))
WithinCount(c, m, labels) ==
    /\ Cardinality(DOMAIN labels) <= Cardinality(ToSet(c.metrics[m]))
    /\ Cardinality(DOMAIN labels) <= 12

\* The verdict on the label map of a plain object: the first check that fails, or "admitted".
admitRateLimitMetricAttributes(c, m, labels, policyIds) ==
    IF c.schema # "v1" THEN "authority"
    ELSE IF ~ trustedV1Contract(c) THEN "constraints"
    ELSE IF ~ PolicyVocabulary(c, policyIds) THEN "policy IDs"
    ELSE IF m \notin DOMAIN c.metrics THEN "unknown metric"
    ELSE IF ~ WithinCount(c, m, labels) THEN "label count"
    ELSE IF \E key \in DOMAIN labels : ~ LabelAdmitted(c, m, key, labels[key], policyIds) THEN "label"
    ELSE IF m = "decisions" /\ ~ ToSet(c.requiredDecision) \subseteq DOMAIN labels THEN "required label"
    ELSE "admitted"

(***************************************************************************)
(* langs/rust/src/rate_limit.rs.                                           *)
(***************************************************************************)
\* RetryBucket::from_millis; {} stands for None, {t} for Some(t).
RetryBucket(ms) ==
    IF ms = {} THEN "none"
    ELSE LET t == CHOOSE t \in ms : TRUE
         IN  IF t < 1000 THEN "lt_1s" ELSE IF t < 10000 THEN "1s_10s" ELSE IF t < 60000 THEN "10s_60s"
             ELSE IF t <= 300000 THEN "1m_5m" ELSE "gt_5m"

\* PolicyId::new
PolicyIdNew(id) == id.bytes \in 1 .. 128 /\ id.form \in {"canonical", "portable"}

\* RateLimitMetricLabels, as an exporter writes it: one label a field.
RustFields(id, layer, outcome, mode, ms, observed) ==
    [policy_id |-> Text(id.text), layer |-> Text(layer), algorithm |-> Text("token_bucket"),
     outcome |-> Text(outcome), source |-> Text("redis_authoritative"), principal_kind |-> Text("tenant"),
     failure_mode |-> Text(mode), retry_bucket |-> Text(RetryBucket(ms)), observed_only |-> Flag(observed)]
RustLabels(id, layer, outcome, mode, ms, observed) ==
    [key \in ALLOWED_ATTRIBUTE_NAMES |-> RustFields(id, layer, outcome, mode, ms, observed)[Suffix(key)]]

(***************************************************************************)
(* A service.                                                              *)
(***************************************************************************)
VARIABLES
    contract,   \* the contract object in memory
    drift,      \* how many changes it took since it was loaded
    policyIds,  \* the configured policy IDs
    last        \* the last request for admission, who built its labels, and the verdict
vars == <<contract, drift, policyIds, last>>

Nothing == [by |-> "", metric |-> "", labels |-> << >>, verdict |-> "none"]

Init == /\ contract = Published /\ drift = 0
        /\ policyIds \in Configurations
        /\ last = Nothing

\* The object changes under the service: one of its parts at a time.
Drifted ==
    {[contract EXCEPT !.schema = "v2"],
     [contract EXCEPT !.cardinality.policyIdMaxUtf8Bytes = 9000],
     [contract EXCEPT !.requiredDecision = [k \in DOMAIN @ |-> Label("policy_id")]],
     [contract EXCEPT !.requiredDecision = Reverse(@)],
     [contract EXCEPT !.requiredDecision = << >>]}
    \cup {[contract EXCEPT !.forbiddenAttributes = @ \ {x}] : x \in {Bare("email")}}
    \cup {[contract EXCEPT !.forbiddenAttributes = @ \cup {x}] : x \in {Label("layer")}}
    \cup {[contract EXCEPT !.traceOrLogOnly = @ \ {x}] : x \in {Bare("trace_id")}}
    \cup {[contract EXCEPT !.enums[name] = Append(@, v.text)] : name \in {"outcome"}, v \in StrayValues}
    \cup {[contract EXCEPT !.enums[name] = Reverse(@)] : name \in {"layer"}}
    \cup {[contract EXCEPT !.metrics[m] = Append(@, x)] :
            m \in MetricNames, x \in StrayLabels \cup {Label("policy_id"), Label("observed_only")}}
    \cup {[contract EXCEPT !.metrics[m] = Tail(@)] : m \in {"decisions", "backendErrors"}}
    \cup {[contract EXCEPT !.metrics = [m \in DOMAIN @ \cup {"other"} |->
                                           IF m = "other" THEN labels ELSE @[m]]] : labels \in NewMetricLabels}
Drift == /\ drift < MaxDrift /\ drift' = drift + 1
         /\ contract' \in Drifted
         /\ UNCHANGED <<policyIds, last>>

\* contracts/rate-limit-telemetry-v1.json is loaded again.
Load == /\ drift > 0 /\ drift' = 0 /\ contract' = Published
        /\ UNCHANGED <<policyIds, last>>

Configure == /\ policyIds' \in Configurations
             /\ UNCHANGED <<contract, drift, last>>

Admit(by, m, labels) ==
    /\ last' = [by |-> by, metric |-> m, labels |-> labels,
                verdict |-> admitRateLimitMetricAttributes(contract, m, labels, policyIds)]
    /\ UNCHANGED <<contract, drift, policyIds>>

\* The service uses what was admitted; the next request does not depend on this one.
Use == last # Nothing /\ last' = Nothing /\ UNCHANGED <<contract, drift, policyIds>>

\* The maps a caller hands over: one from the Rust types, with the labels of the metric, and that
\* map with a label missing, with a stray one, or with another value under one label.
Without(f, S) == [k \in DOMAIN f \ S |-> f[k]]
Restricted(f, m) == Without(f, DOMAIN f \ ToSet(Published.metrics[m]))
Ids == {policyIds[k] : k \in DOMAIN policyIds \cap {1, Len(policyIds)}}
FromRust(m) ==
    {Restricted(RustLabels(id, layer, outcome, "fail_open", ms, observed), m) :
        id \in {i \in Ids : PolicyIdNew(i)}, layer \in {"edge", "data_store"},
        outcome \in {"allow", "degraded_allow"}, ms \in {{}, {999}, {300000}, {300001}},
        observed \in {"true", "false"}}
Typical(id) == RustLabels(id, "edge", "allow", "fail_open", {999}, "true")
With(f, x, v) == [k \in DOMAIN f \cup {x} |-> IF k = x THEN v ELSE f[k]]
Spoiled(f) ==
    {Without(f, {k}) : k \in DOMAIN f}
        \cup {With(f, x, v) : x \in DOMAIN f \cup StrayLabels, v \in StrayValues \cup {Flag("true"), Text("edge")}}
Request ==
    \/ \E m \in MetricNames : \E f \in FromRust(m) : Admit("rust", m, f)
    \/ \E m \in MetricNames, id \in Ids : \E f \in Spoiled(Restricted(Typical(id), m)) : Admit("other", m, f)
    \/ \E id \in Ids, names \in NewMetricLabels :
          LET f == [k \in ToSet(names) |-> IF k = Label("policy_id") THEN Text(id.text) ELSE Text("edge")]
          IN  \E g \in {f} \cup Spoiled(f) : Admit("other", "other", g)
Next == \/ last = Nothing /\ (Drift \/ Load \/ Configure \/ Request)
        \/ Use
Spec == Init /\ [][Next]_vars
-----------------------------------------------------------------------------
\* The values a label of this name may have when these policy IDs are configured.
Vocabulary(key, ids) ==
    CASE key = Label("policy_id") -> {Text(id.text) : id \in ToSet(ids)}
      [] key = Label("observed_only") -> {Flag("true"), Flag("false")}
      [] OTHER -> {Text(x) : x \in ToSet(EXPECTED_ENUMS[ENUM_BY_SUFFIX[Suffix(key)]])}

\* Whatever became of the contract object, labels that were admitted have values of the fixed
\* finite vocabulary, and for a metric of v1 they are of the nine names: "A mutable or spoofed
\* "authority" object must not relax our fixed, finite attribute vocabulary"
\* (scripts/admit-rate-limit-metric.mjs:36).  The names of a metric that v1 does not have are not
\* looked at (:77-82): there a bare `layer' is taken for ores.rate_limit.layer.
FixedVocabulary ==
    last.verdict = "admitted" =>
        /\ last.metric \in MetricNames => DOMAIN last.labels \subseteq ALLOWED_ATTRIBUTE_NAMES
        /\ \A key \in DOMAIN last.labels : last.labels[key] \in Vocabulary(key, policyIds)

\* Whatever became of the contract object, a decision that was admitted has its six labels.
DecisionsComplete ==
    last.verdict = "admitted" /\ last.metric = "decisions" =>
        ToSet(REQUIRED_DECISION) \subseteq DOMAIN last.labels

\* Under the contract as published and a list of policy IDs that the admission takes, the labels
\* of the Rust types are admitted for every metric: the two sides hold the vocabulary separately.
RustLabelsAdmitted ==
    last.by = "rust" /\ drift = 0 /\ PolicyVocabulary(Published, policyIds) => last.verdict = "admitted"
=============================================================================
