---------------------------- MODULE SchemaLists ----------------------------
(***************************************************************************)
(* Lists as the two schema compilers use them.  Identifiers are integers:  *)
(* the order of the numbers is the order of the strings, and a negative    *)
(* one fails its pattern.  A sort key is a list of integers that compares  *)
(* as the string it stands for, item by item.                              *)
(***************************************************************************)
EXTENDS Integers, Sequences, FiniteSets, SequencesExt

CONSTANTS HashBase, HashBuckets     \* generated names: a base, a kind and few hash values

IsName(x) == x >= 0

Map(f(_), s) == [i \in DOMAIN s |-> f(s[i])]

\* The diagnostics of every item of a list, in the list's order.
Each(s, f(_)) == FlattenSeq(Map(f, s))

Repeats(s) == Cardinality(ToSet(s)) # Len(s)

Less(s, t) ==
    \E i \in 1..(Len(s) + 1) :
        /\ i <= Len(t)
        /\ \A j \in 1..(i - 1) : s[j] = t[j]
        /\ IF i <= Len(s) THEN s[i] < t[i] ELSE TRUE

\* A stable sort.
sortBy(s, Key(_)) ==
    LET before(i, j) == \/ Less(Key(s[i]), Key(s[j]))
                        \/ Key(s[i]) = Key(s[j]) /\ i < j
        rank(j) == Cardinality({i \in DOMAIN s : before(i, j)})
    IN  [r \in DOMAIN s |-> s[CHOOSE j \in DOMAIN s : rank(j) = r - 1]]

\* The list with two neighbours exchanged, every way.
Neighbours(s) ==
    {[s EXCEPT ![i] = s[i + 1], ![i + 1] = s[i]] : i \in 1..(Len(s) - 1)}
-----------------------------------------------------------------------------
(* What an author may make of a list with the items of S.                  *)

Replacements(s, S) == {ReplaceAt(s, i, x) : i \in DOMAIN s, x \in S}

Growth(s, S) == {Append(s, x) : x \in S} \cup (IF s = <<>> THEN {} ELSE {Front(s)})
=============================================================================
