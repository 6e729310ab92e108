------------------------ MODULE SchemaRelease_proofs ------------------------
(***************************************************************************)
(* For every document an author can write, of any number of models and any *)
(* names: what compileSchema lets through can be run and does what the     *)
(* document says.  The parts are about lists (concatenating and sorting),  *)
(* the passes of validate.js, the list of statements of emit.js, and the   *)
(* database after a number of statements.                                  *)
(***************************************************************************)
EXTENDS SchemaRelease, FiniteSetTheorems, SequenceTheorems, WellFoundedInduction, TLAPS

(* Lists.                                                                  *)

\* An item of a concatenation is one of the first list or of the second.
LEMMA ConcatParts ==
    ASSUME NEW T, NEW s \in Seq(T), NEW t \in Seq(T)
    PROVE  /\ s \o t \in Seq(T) /\ Len(s) \in Nat /\ Len(t) \in Nat
           /\ Len(s \o t) = Len(s) + Len(t) /\ DOMAIN (s \o t) = 1..(Len(s) + Len(t))
           /\ \A k \in 1..Len(s) : k \in DOMAIN (s \o t) /\ (s \o t)[k] = s[k]
           /\ \A a \in 1..Len(t) : Len(s) + a \in DOMAIN (s \o t) /\ (s \o t)[Len(s) + a] = t[a]
           /\ \A k \in DOMAIN (s \o t) : k \in 1..Len(s) \/ \E a \in 1..Len(t) : k = Len(s) + a
<1> DEFINE m == Len(s)
           n == Len(t)
<1>1. /\ s \o t \in Seq(T) /\ m \in Nat /\ n \in Nat /\ Len(s \o t) = m + n
      /\ \A k \in 1..(m + n) : (s \o t)[k] = IF k <= m THEN s[k] ELSE t[k - m]
  BY ConcatProperties
<1>2. DOMAIN (s \o t) = 1..(m + n)
  BY <1>1, LenProperties
<1> HIDE DEF m, n
<1>3. ASSUME NEW k \in 1..m PROVE k \in 1..(m + n) /\ (s \o t)[k] = s[k]
  <2>1. k \in 1..(m + n) /\ k <= m
    BY <1>1
  <2> QED BY <1>1, <2>1
<1>4. ASSUME NEW a \in 1..n PROVE m + a \in 1..(m + n) /\ (s \o t)[m + a] = t[a]
  <2>1. m + a \in 1..(m + n) /\ ~ (m + a <= m) /\ (m + a) - m = a
    BY <1>1
  <2> QED BY <1>1, <2>1
<1>5. ASSUME NEW k \in 1..(m + n) PROVE k \in 1..m \/ \E a \in 1..n : k = m + a
  <2>1. CASE k <= m
    BY <1>1, <2>1
  <2>2. CASE k > m
    <3>1. k - m \in 1..n /\ k = m + (k - m)
      BY <1>1, <2>2
    <3> QED BY <3>1
  <2> QED BY <1>1, <2>1, <2>2
<1> QED BY <1>1, <1>2, <1>3, <1>4, <1>5 DEF m, n

LEMMA SetInduction ==
    ASSUME NEW S, 0 \in S, \A k \in Nat : k \in S => k + 1 \in S
    PROVE  \A k \in Nat : k \in S
<1> DEFINE T == {k \in Nat : k \notin S}
<1> SUFFICES ASSUME T # {} PROVE FALSE
  OBVIOUS
<1>1. PICK x \in T : \A y \in T : ~ (<<y, x>> \in OpToRel(<, Nat))
  BY NatLessThanWellFounded, WFMin
<1>2. \A y \in T : ~ (y < x)
  BY <1>1 DEF OpToRel
<1>3. x \in Nat /\ x # 0
  OBVIOUS
<1>4. x - 1 \in Nat /\ x - 1 \notin T
  BY <1>2, <1>3
<1> QED BY <1>3, <1>4

\* A recursive function over the positions of a list of lists exists.
LEMMA PrefixesExist ==
    ASSUME NEW T, NEW ss \in Seq(Seq(T))
    PROVE  \E f : /\ f \in [1..Len(ss) -> Seq(T)]
                  /\ \A i \in 1..Len(ss) : f[i] = IF i = 1 THEN ss[i] ELSE f[i - 1] \o ss[i]
<1> DEFINE n == Len(ss)
           Grows(f, m) ==
             /\ f \in [1..m -> Seq(T)]
             /\ \A i \in 1..m : f[i] = IF i = 1 THEN ss[i] ELSE f[i - 1] \o ss[i]
           S == {m \in Nat : m <= n => \E f : Grows(f, m)}
<1>1. 0 \in S
  <2>1. Grows([i \in 1..0 |-> <<>>], 0)
    OBVIOUS
  <2> QED BY <2>1
<1>2. ASSUME NEW m \in Nat, m \in S PROVE m + 1 \in S
  <2> HIDE DEF Grows
  <2>1. SUFFICES ASSUME m + 1 <= n PROVE \E f : Grows(f, m + 1)
    OBVIOUS
  <2>2. PICK f : Grows(f, m)
    BY <1>2, <2>1
  <2> USE DEF Grows
  <2> DEFINE x == IF m = 0 THEN ss[1] ELSE f[m] \o ss[m + 1]
             g == [i \in 1..(m + 1) |-> IF i <= m THEN f[i] ELSE x]
  <2>3. ss[m + 1] \in Seq(T) /\ (m # 0 => f[m] \in Seq(T))
    BY <2>1, <2>2
  <2>4. x \in Seq(T)
    BY <2>3
  <2>5. g \in [1..(m + 1) -> Seq(T)]
    BY <2>2, <2>4
  <2>6. ASSUME NEW i \in 1..(m + 1)
        PROVE  g[i] = IF i = 1 THEN ss[i] ELSE g[i - 1] \o ss[i]
    <3>1. CASE i <= m
      <4>1. i \in 1..m /\ g[i] = f[i] /\ (i # 1 => i - 1 \in 1..m /\ g[i - 1] = f[i - 1])
        BY <3>1
      <4> QED BY <2>2, <4>1
    <3>2. CASE i = m + 1
      <4>1. g[i] = x /\ (i # 1 => m # 0 /\ i - 1 = m /\ g[i - 1] = f[m])
        BY <3>2
      <4>2. i = 1 => m = 0
        BY <3>2
      <4> QED BY <3>2, <4>1, <4>2
    <3> QED BY <3>1, <3>2
  <2> QED BY <2>5, <2>6
<1> HIDE DEF S
<1>3. n \in S /\ n \in Nat
  <2>1. n \in Nat
    OBVIOUS
  <2> HIDE DEF n
  <2> QED BY <1>1, <1>2, <2>1, SetInduction
<1>4. PICK f : Grows(f, n)
  BY <1>3 DEF S
<1> QED BY <1>4

LEMMA FlattenDef ==
    ASSUME NEW T, NEW ss \in Seq(Seq(T)), Len(ss) # 0
    PROVE  \E f : /\ f = [i \in 1..Len(ss) |-> IF i = 1 THEN ss[i] ELSE f[i - 1] \o ss[i]]
                  /\ FlattenSeq(ss) = f[Len(ss)]
<1> DEFINE n == Len(ss)
           F == CHOOSE f : f = [i \in 1..Len(ss) |-> IF i = 1 THEN ss[i] ELSE f[i - 1] \o ss[i]]
<1>1. n \in Nat /\ n > 0
  OBVIOUS
<1>2. \E f : f = [i \in 1..Len(ss) |-> IF i = 1 THEN ss[i] ELSE f[i - 1] \o ss[i]]
  <2>1. PICK f : /\ f \in [1..Len(ss) -> Seq(T)]
                 /\ \A i \in 1..Len(ss) : f[i] = IF i = 1 THEN ss[i] ELSE f[i - 1] \o ss[i]
    BY PrefixesExist
  <2> QED BY <2>1
<1>3. F = [i \in 1..Len(ss) |-> IF i = 1 THEN ss[i] ELSE F[i - 1] \o ss[i]]
  BY <1>2
<1>4. FlattenSeq(ss) = F[Len(ss)]
  BY Zenon DEF FlattenSeq
<1> QED BY <1>3, <1>4

\* Where the lists begin in their concatenation.
Offsets(ss) == {off \in [1..(Len(ss) + 1) -> Nat] :
                  /\ off[1] = 0
                  /\ \A i \in 1..Len(ss) : off[i + 1] = off[i] + Len(ss[i])}

\* Each item of each list is at its place in the concatenation, and nothing else is there.
LEMMA FlattenFacts ==
    ASSUME NEW T, NEW ss \in Seq(Seq(T))
    PROVE  /\ FlattenSeq(ss) \in Seq(T)
           /\ \E off \in Offsets(ss) :
                /\ \A i \in DOMAIN ss : \A a \in DOMAIN ss[i] :
                      /\ off[i] + a \in DOMAIN FlattenSeq(ss)
                      /\ FlattenSeq(ss)[off[i] + a] = ss[i][a]
                /\ \A k \in DOMAIN FlattenSeq(ss) :
                      \E i \in DOMAIN ss : \E a \in DOMAIN ss[i] : k = off[i] + a
<1> DEFINE n == Len(ss)
<1>1. n \in Nat /\ DOMAIN ss = 1..n /\ \A i \in 1..n : ss[i] \in Seq(T) /\ DOMAIN ss[i] = 1..Len(ss[i]) /\ Len(ss[i]) \in Nat
  OBVIOUS
<1>2. CASE n = 0
  <2>1. FlattenSeq(ss) = <<>>
    BY <1>2 DEF FlattenSeq
  <2>2. [i \in 1..1 |-> 0] \in Offsets(ss)
    BY <1>1, <1>2 DEF Offsets
  <2> QED BY <1>1, <1>2, <2>1, <2>2
<1>3. CASE n # 0
  <2>1. PICK f : /\ f = [i \in 1..n |-> IF i = 1 THEN ss[i] ELSE f[i - 1] \o ss[i]]
                 /\ FlattenSeq(ss) = f[n]
    BY <1>3, FlattenDef
  <2>2. \A i \in 1..n : f[i] = IF i = 1 THEN ss[i] ELSE f[i - 1] \o ss[i]
    BY <2>1
  <2> DEFINE off == [i \in 1..(n + 1) |-> IF i = 1 THEN 0 ELSE Len(f[i - 1])]
             Holds(m) ==
               /\ f[m] \in Seq(T)
               /\ \A i \in 1..m : \A a \in 1..Len(ss[i]) :
                     off[i] \in Nat /\ off[i] + a <= Len(f[m]) /\ f[m][off[i] + a] = ss[i][a]
               /\ \A k \in 1..Len(f[m]) : \E i \in 1..m : \E a \in 1..Len(ss[i]) : k = off[i] + a
               /\ m > 1 => Len(f[m]) = off[m] + Len(ss[m]) /\ off[m] \in Nat
             S == {m \in Nat : m + 1 <= n => Holds(m + 1)}
  <2>3. 0 \in S
    <3>1. 1 \in 1..n /\ f[1] = ss[1] /\ off[1] = 0 /\ f[1] \in Seq(T)
      BY <1>1, <1>3, <2>2
    <3>2. \A i \in 1..1 : i = 1
      OBVIOUS
    <3> HIDE DEF off
    <3>5. Len(ss[1]) \in Nat /\ \A a \in 1..Len(ss[1]) : 0 + a = a /\ a <= Len(ss[1])
      BY <1>1, <3>1
    <3>6. \A i \in 1..1 : \A a \in 1..Len(ss[i]) :
             off[i] \in Nat /\ off[i] + a <= Len(f[1]) /\ f[1][off[i] + a] = ss[i][a]
      BY <3>1, <3>2, <3>5
    <3>7. \A k \in 1..Len(f[1]) : \E i \in 1..1 : \E a \in 1..Len(ss[i]) : k = off[i] + a
      BY <3>1, <3>2, <3>5
    <3>8. ~ (1 > 1)
      OBVIOUS
    <3>3. Holds(1)
      BY <3>1, <3>6, <3>7, <3>8
    <3> HIDE DEF Holds
    <3>4. Holds(0 + 1)
      BY <3>3
    <3> QED BY <3>4
  <2>4. ASSUME NEW m \in Nat, m \in S PROVE m + 1 \in S
    <3> DEFINE p == m + 1
               q == m + 2
    <3> HIDE DEF Holds
    <3>1. SUFFICES ASSUME q <= n PROVE Holds(q)
      OBVIOUS
    <3>a. Holds(p)
      BY <2>4, <3>1, <1>1
    <3>b. p \in 1..n /\ q \in 1..n /\ q - 1 = p /\ q = p + 1 /\ q > 1 /\ p \in Nat /\ p >= 1
      BY <3>1, <1>1
    <3> HIDE DEF p, q
    <3> USE DEF Holds
    <3>2. Holds(p) /\ p \in 1..n /\ q \in 1..n /\ q - 1 = p /\ q = p + 1 /\ q > 1 /\ p \in Nat /\ p >= 1
      BY <3>a, <3>b
    <3>3. f[q] = f[p] \o ss[q] /\ off[q] = Len(f[p])
      <4>1. q # 1 /\ q \in 1..(n + 1)
        BY <3>b, <1>1
      <4>2. f[q] = f[q - 1] \o ss[q]
        BY <2>2, <3>b, <4>1
      <4>3. off[q] = Len(f[q - 1])
        BY <4>1
      <4> HIDE DEF off, Holds
      <4> QED BY <3>b, <4>2, <4>3
    <3>4. f[p] \in Seq(T) /\ ss[q] \in Seq(T) /\ Len(f[p]) \in Nat
      BY <1>1, <3>2
    <3> DEFINE u == f[p]
               v == ss[q]
    <3>u. u \in Seq(T) /\ v \in Seq(T) /\ f[q] = u \o v /\ off[q] = Len(u)
      BY <3>3, <3>4
    <3> HIDE DEF u, v
    <3>5. /\ f[q] \in Seq(T) /\ Len(u) \in Nat /\ Len(v) \in Nat /\ Len(f[q]) = Len(u) + Len(v)
          /\ \A k \in 1..Len(u) : f[q][k] = u[k]
          /\ \A a \in 1..Len(v) : Len(u) + a <= Len(f[q]) /\ f[q][Len(u) + a] = v[a]
          /\ \A k \in 1..Len(f[q]) : k \in 1..Len(u) \/ \E a \in 1..Len(v) : k = Len(u) + a
      <4>1. /\ f[q] \in Seq(T) /\ Len(u) \in Nat /\ Len(v) \in Nat /\ Len(f[q]) = Len(u) + Len(v)
            /\ DOMAIN f[q] = 1..(Len(u) + Len(v))
        BY <3>u, ConcatParts
      <4>2. /\ \A k \in 1..Len(u) : f[q][k] = u[k]
            /\ \A a \in 1..Len(v) : Len(u) + a \in DOMAIN f[q] /\ f[q][Len(u) + a] = v[a]
            /\ \A k \in DOMAIN f[q] : k \in 1..Len(u) \/ \E a \in 1..Len(v) : k = Len(u) + a
        BY <3>u, ConcatParts
      <4>3. DOMAIN f[q] = 1..Len(f[q])
        BY <4>1
      <4>4. \A a \in 1..Len(v) : Len(u) + a <= Len(f[q])
        <5> SUFFICES ASSUME NEW a \in 1..Len(v) PROVE Len(u) + a <= Len(u) + Len(v)
          BY <4>1
        <5> QED BY <4>1
      <4> QED BY <4>1, <4>2, <4>3, <4>4
    <3> HIDE DEF off, Holds
    <3>v. /\ \A i \in 1..p : \A a \in 1..Len(ss[i]) :
                off[i] \in Nat /\ off[i] + a <= Len(u) /\ u[off[i] + a] = ss[i][a]
          /\ \A k \in 1..Len(u) : \E i \in 1..p : \E a \in 1..Len(ss[i]) : k = off[i] + a
      BY <3>a DEF Holds, u
    <3>6. ASSUME NEW i \in 1..q, NEW a \in 1..Len(ss[i])
          PROVE  off[i] \in Nat /\ off[i] + a <= Len(f[q]) /\ f[q][off[i] + a] = ss[i][a]
      <4>1. CASE i = q
        <5>1. a \in 1..Len(v) /\ ss[i] = v /\ off[i] = Len(u)
          BY <3>u, <4>1 DEF v
        <5> QED BY <3>5, <5>1
      <4>2. CASE i \in 1..p
        <5>1. off[i] \in Nat /\ off[i] + a <= Len(u) /\ u[off[i] + a] = ss[i][a] /\ a \in Nat /\ a >= 1
          BY <3>v, <4>2
        <5>2. off[i] + a \in 1..Len(u)
          BY <3>5, <5>1
        <5>3. f[q][off[i] + a] = u[off[i] + a] /\ Len(u) <= Len(f[q])
          BY <3>5, <5>2
        <5> QED BY <3>5, <5>1, <5>3
      <4> QED BY <3>2, <4>1, <4>2
    <3>7. ASSUME NEW k \in 1..Len(f[q])
          PROVE  \E i \in 1..q : \E a \in 1..Len(ss[i]) : k = off[i] + a
      <4>1. CASE k \in 1..Len(u)
        <5>1. PICK i \in 1..p : \E a \in 1..Len(ss[i]) : k = off[i] + a
          BY <3>v, <4>1
        <5> QED BY <3>2, <5>1
      <4>2. CASE \E a \in 1..Len(v) : k = Len(u) + a
        <5>1. q \in 1..q /\ \E a \in 1..Len(ss[q]) : k = off[q] + a
          BY <3>2, <3>u, <4>2 DEF v
        <5> QED BY <5>1
      <4> QED BY <3>5, <4>1, <4>2
    <3>8. q > 1 => Len(f[q]) = off[q] + Len(ss[q]) /\ off[q] \in Nat
      BY <3>u, <3>5 DEF v
    <3> QED BY <3>5, <3>6, <3>7, <3>8 DEF Holds
  <2>5. ASSUME NEW m \in 1..n PROVE Holds(m)
    <3> HIDE DEF S, Holds
    <3>1. \A k \in Nat : k \in S
      BY <2>3, <2>4, SetInduction
    <3>2. m - 1 \in Nat /\ (m - 1) + 1 = m /\ m <= n
      BY <1>1
    <3>3. m - 1 \in S
      BY <3>1, <3>2
    <3> QED BY <3>2, <3>3 DEF S
  <2>6. off \in Offsets(ss)
    <3>1. ASSUME NEW i \in 1..(n + 1) PROVE off[i] \in Nat
      <4>1. CASE i = 1
        BY <4>1
      <4>2. CASE i # 1
        <5>1. i - 1 \in 1..n /\ off[i] = Len(f[i - 1])
          BY <1>1, <4>2
        <5>2. f[i - 1] \in Seq(T)
          BY <2>5, <5>1
        <5> QED BY <5>1, <5>2
      <4> QED BY <4>1, <4>2
    <3>2. ASSUME NEW i \in 1..n PROVE off[i + 1] = off[i] + Len(ss[i])
      <4>1. off[i + 1] = Len(f[i])
        BY <1>1
      <4>2. CASE i = 1
        BY <2>2, <4>1, <4>2, <1>1
      <4>3. CASE i # 1
        <5> HIDE DEF off
        <5> QED BY <2>5, <4>1, <4>3, <1>1
      <4> QED BY <4>2, <4>3
    <3>3. off[1] = 0
      BY <1>1
    <3> QED BY <3>1, <3>2, <3>3 DEF Offsets
  <2> HIDE DEF off
  <2>a. n \in 1..n
    BY <1>1, <1>3
  <2>7. Holds(n)
    BY <2>a, <2>5
  <2>8. f[n] \in Seq(T) /\ DOMAIN f[n] = 1..Len(f[n]) /\ Len(f[n]) \in Nat
    BY <2>7
  <2>9. ASSUME NEW i \in 1..n, NEW a \in 1..Len(ss[i])
        PROVE  off[i] + a \in 1..Len(f[n]) /\ f[n][off[i] + a] = ss[i][a]
    <3>1. off[i] \in Nat /\ off[i] + a <= Len(f[n]) /\ f[n][off[i] + a] = ss[i][a]
      BY <2>7
    <3>2. a \in Nat /\ a >= 1
      BY <1>1
    <3> HIDE DEF Holds
    <3> QED BY <2>8, <3>1, <3>2
  <2>10. \A k \in 1..Len(f[n]) : \E i \in 1..n : \E a \in 1..Len(ss[i]) : k = off[i] + a
    BY <2>7
  <2> HIDE DEF Holds, S
  <2>11. FlattenSeq(ss) \in Seq(T) /\ DOMAIN FlattenSeq(ss) = 1..Len(f[n])
    BY <2>1, <2>8
  <2>12. \A i \in DOMAIN ss : \A a \in DOMAIN ss[i] :
            off[i] + a \in DOMAIN FlattenSeq(ss) /\ FlattenSeq(ss)[off[i] + a] = ss[i][a]
    <3> SUFFICES ASSUME NEW i \in DOMAIN ss, NEW a \in DOMAIN ss[i]
                 PROVE  off[i] + a \in DOMAIN FlattenSeq(ss) /\ FlattenSeq(ss)[off[i] + a] = ss[i][a]
      OBVIOUS
    <3>1. i \in 1..n /\ a \in 1..Len(ss[i])
      BY <1>1
    <3>2. off[i] + a \in 1..Len(f[n]) /\ f[n][off[i] + a] = ss[i][a]
      BY <2>9, <3>1
    <3> QED BY <2>1, <2>11, <3>2
  <2>13. \A k \in DOMAIN FlattenSeq(ss) : \E i \in DOMAIN ss : \E a \in DOMAIN ss[i] : k = off[i] + a
    BY <1>1, <2>10, <2>11
  <2> QED BY <2>6, <2>11, <2>12, <2>13
<1> QED BY <1>2, <1>3

\* The lists, item by item, without their places.
LEMMA FlattenItems ==
    ASSUME NEW T, NEW ss \in Seq(Seq(T))
    PROVE  /\ FlattenSeq(ss) \in Seq(T)
           /\ \A i \in DOMAIN ss : \A a \in DOMAIN ss[i] :
                 \E k \in DOMAIN FlattenSeq(ss) : FlattenSeq(ss)[k] = ss[i][a]
           /\ \A k \in DOMAIN FlattenSeq(ss) :
                 \E i \in DOMAIN ss : \E a \in DOMAIN ss[i] : FlattenSeq(ss)[k] = ss[i][a]
<1> DEFINE fl == FlattenSeq(ss)
<1>1. PICK off \in Offsets(ss) :
         /\ \A i \in DOMAIN ss : \A a \in DOMAIN ss[i] :
               off[i] + a \in DOMAIN fl /\ fl[off[i] + a] = ss[i][a]
         /\ \A k \in DOMAIN fl : \E i \in DOMAIN ss : \E a \in DOMAIN ss[i] : k = off[i] + a
  BY FlattenFacts
<1>2. fl \in Seq(T)
  BY FlattenFacts
<1> HIDE DEF fl
<1>3. \A i \in DOMAIN ss : \A a \in DOMAIN ss[i] : \E k \in DOMAIN fl : fl[k] = ss[i][a]
  BY <1>1
<1>4. \A k \in DOMAIN fl : \E i \in DOMAIN ss : \E a \in DOMAIN ss[i] : fl[k] = ss[i][a]
  BY <1>1
<1> QED BY <1>2, <1>3, <1>4 DEF fl

\* A concatenation is empty only of empty lists.
LEMMA FlattenEmpty ==
    ASSUME NEW T, NEW ss \in Seq(Seq(T)), FlattenSeq(ss) = <<>>
    PROVE  \A i \in DOMAIN ss : ss[i] = <<>>
<1> SUFFICES ASSUME NEW i \in DOMAIN ss, ss[i] # <<>> PROVE FALSE
  OBVIOUS
<1>1. ss[i] \in Seq(T) /\ 1 \in DOMAIN ss[i]
  OBVIOUS
<1>2. \E k \in DOMAIN FlattenSeq(ss) : FlattenSeq(ss)[k] = ss[i][1]
  BY <1>1, FlattenItems
<1> QED BY <1>2

\* The same for lists of lists that have a list for every position of another list.
LEMMA MappedLists ==
    ASSUME NEW T, NEW S, NEW s \in Seq(S), NEW f, f = [i \in DOMAIN s |-> f[i]],
           \A i \in DOMAIN s : f[i] \in T
    PROVE  f \in Seq(T) /\ DOMAIN f = DOMAIN s /\ Len(f) = Len(s)
<1> DEFINE n == Len(s)
<1>1. n \in Nat /\ DOMAIN s = 1..n
  OBVIOUS
<1> HIDE DEF n
<1>2. f \in [1..n -> T]
  BY <1>1
<1> QED BY <1>1, <1>2 DEF n

LEMMA MaxOfPositions ==
    ASSUME NEW n \in Nat, NEW S \in SUBSET (1..n), S # {}
    PROVE  Max(S) \in S /\ \A j \in S : Max(S) >= j
<1> DEFINE T == {n - k : k \in S}
<1>1. \A k \in S : k \in Int /\ k <= n /\ n - k \in Nat
  <2>1. \A k \in 1..n : k \in Int /\ k <= n /\ n - k \in Nat
    OBVIOUS
  <2> QED BY <2>1
<1>2. T \subseteq Nat /\ T # {}
  BY <1>1
<1>3. PICK x \in T : \A y \in T : ~ (<<y, x>> \in OpToRel(<, Nat))
  BY <1>2, NatLessThanWellFounded, WFMin
<1>4. \A y \in T : ~ (y < x)
  BY <1>2, <1>3 DEF OpToRel
<1>5. PICK k \in S : x = n - k
  OBVIOUS
<1>6. ASSUME NEW j \in S PROVE k >= j
  <2>1. ~ (n - j < n - k)
    BY <1>4, <1>5
  <2> QED BY <2>1, <1>1
<1> DEFINE Greatest(x0) == x0 \in S /\ \A j \in S : x0 >= j
<1>7. \E x0 : Greatest(x0)
  BY <1>6
<1>8. Max(S) = CHOOSE x0 : Greatest(x0)
  BY Zenon DEF Max
<1> HIDE DEF Greatest
<1>9. Greatest(Max(S))
  BY <1>7, <1>8
<1> QED BY <1>9 DEF Greatest

\* A list that repeats nothing is an injection.
LEMMA NoRepeats ==
    ASSUME NEW T, NEW s \in Seq(T), ~ Repeats(s)
    PROVE  \A i, j \in DOMAIN s : s[i] = s[j] => i = j
<1> DEFINE n == Len(s)
<1>1. n \in Nat /\ DOMAIN s = 1..n /\ s \in [1..n -> T]
  OBVIOUS
<1>2. IsFiniteSet(1..n) /\ Cardinality(1..n) = n
  BY <1>1, FS_Interval
<1>3. s \in Surjection(1..n, ToSet(s))
  BY <1>1 DEF Surjection, ToSet
<1>4. Cardinality(ToSet(s)) = Cardinality(1..n)
  BY <1>2 DEF Repeats
<1>5. s \in Injection(1..n, ToSet(s))
  BY <1>2, <1>3, <1>4, FS_SurjSameCardinalityImpliesInj
<1> QED BY <1>1, <1>5 DEF Injection, IsInjective
-----------------------------------------------------------------------------
(* Sorting.                                                                *)

LEMMA Unrepeated ==
    ASSUME NEW T, NEW s \in Seq(T), \A i, j \in DOMAIN s : s[i] = s[j] => i = j
    PROVE  ~ Repeats(s)
<1> DEFINE n == Len(s)
<1>1. n \in Nat /\ DOMAIN s = 1..n /\ s = [i \in 1..n |-> s[i]]
  OBVIOUS
<1>2. IsFiniteSet(1..n) /\ Cardinality(1..n) = n
  <2> HIDE DEF n
  <2>1. n \in Int /\ 1 \in Int /\ n >= 0
    BY <1>1
  <2>2. IsFiniteSet(1..n) /\ Cardinality(1..n) = IF 1 > n THEN 0 ELSE n - 1 + 1
    BY ONLY <2>1, FS_Interval
  <2> QED BY <2>1, <2>2
<1>3. s \in Bijection(1..n, ToSet(s))
  <2> DEFINE U == ToSet(s)
  <2>1. (\A i \in 1..n : s[i] \in U) /\ \A x \in U : \E i \in 1..n : s[i] = x
    BY <1>1 DEF ToSet
  <2> HIDE DEF U, n
  <2>2. s \in [1..n -> U] /\ (\A x \in U : \E i \in 1..n : s[i] = x) /\ \A i, j \in 1..n : s[i] = s[j] => i = j
    BY <1>1, <2>1
  <2>3. s \in Bijection(1..n, U)
    BY <2>2 DEF Bijection, Injection, Surjection, IsInjective
  <2> QED BY <2>3 DEF U
<1>4. Cardinality(ToSet(s)) = Cardinality(1..n)
  <2>1. ExistsBijection(1..n, ToSet(s))
    BY <1>3 DEF ExistsBijection
  <2> QED BY <1>2, <2>1, FS_Bijection
<1> QED BY <1>2, <1>4 DEF Repeats

LEMMA LessIrreflexive == ASSUME NEW s \in Seq(Int) PROVE ~ Less(s, s)
<1>1. \A i \in DOMAIN s : ~ (s[i] < s[i])
  OBVIOUS
<1>2. Len(s) \in Nat /\ DOMAIN s = 1..Len(s)
  OBVIOUS
<1> QED BY <1>1, <1>2 DEF Less

LEMMA LessTransitive ==
    ASSUME NEW s \in Seq(Int), NEW t \in Seq(Int), NEW u \in Seq(Int), Less(s, t), Less(t, u)
    PROVE  Less(s, u)
<1> DEFINE l == Len(s)
           m == Len(t)
           n == Len(u)
           At(x, y, k, i) == /\ \A j \in 1..(i - 1) : x[j] = y[j]
                             /\ i <= k => x[i] < y[i]
<1>1. /\ l \in Nat /\ m \in Nat /\ n \in Nat
      /\ \A i \in 1..l : s[i] \in Int
      /\ \A i \in 1..m : t[i] \in Int
      /\ \A i \in 1..n : u[i] \in Int
  OBVIOUS
<1>2. PICK i \in 1..(l + 1) : i <= m /\ At(s, t, l, i)
  BY DEF Less
<1>3. PICK j \in 1..(m + 1) : j <= n /\ At(t, u, m, j)
  BY DEF Less
<1>4. SUFFICES \E k \in 1..(l + 1) : k <= n /\ At(s, u, l, k)
  BY DEF Less
<1> HIDE DEF l, m, n
<1>5. CASE i < j
  <2>1. i <= n /\ t[i] = u[i] /\ \A k \in 1..(i - 1) : k \in 1..(j - 1)
    BY <1>1, <1>2, <1>3, <1>5
  <2> QED BY <1>2, <1>3, <2>1
<1>6. CASE i = j
  <2>1. i <= n /\ t[i] < u[i]
    BY <1>1, <1>2, <1>3, <1>6
  <2>2. i <= l => s[i] < u[i]
    <3>1. i <= l => s[i] \in Int /\ t[i] \in Int /\ u[i] \in Int /\ s[i] < t[i]
      BY <1>1, <1>2, <2>1
    <3> QED BY <2>1, <3>1
  <2> QED BY <1>2, <1>3, <1>6, <2>1, <2>2
<1>7. CASE j < i
  <2>1. j <= l /\ j <= m /\ s[j] = t[j] /\ t[j] < u[j] /\ \A k \in 1..(j - 1) : k \in 1..(i - 1)
    BY <1>1, <1>2, <1>3, <1>7
  <2>2. j \in 1..(l + 1)
    BY <1>1, <2>1
  <2> QED BY <1>2, <1>3, <2>1, <2>2
<1> QED BY <1>1, <1>2, <1>3, <1>5, <1>6, <1>7

LEMMA LessTotal ==
    ASSUME NEW s \in Seq(Int), NEW t \in Seq(Int), s # t
    PROVE  Less(s, t) \/ Less(t, s)
<1> DEFINE m == Len(s)
           n == Len(t)
           D == {i \in Nat : i >= 1 /\ (i > m \/ i > n \/ s[i] # t[i])}
<1>1. /\ m \in Nat /\ n \in Nat
      /\ \A i \in 1..m : s[i] \in Int
      /\ \A i \in 1..n : t[i] \in Int
  OBVIOUS
<1>2. m + 1 \in D
  BY <1>1
<1>3. PICK i \in D : \A j \in D : ~ (<<j, i>> \in OpToRel(<, Nat))
  BY <1>2, NatLessThanWellFounded, WFMin
<1>4. \A j \in D : ~ (j < i)
  BY <1>3 DEF OpToRel
<1>5. \A j \in 1..(i - 1) : j <= m /\ j <= n /\ s[j] = t[j]
  BY <1>1, <1>4
<1>6. ~ (i > m /\ i > n)
  <2> SUFFICES ASSUME i > m, i > n PROVE FALSE
    OBVIOUS
  <2>1. m = n
    <3>1. i - 1 <= m /\ i - 1 <= n
      BY <1>1, <1>5
    <3> QED BY <1>1, <3>1
  <2>2. \A j \in 1..m : s[j] = t[j]
    BY <1>1, <1>5
  <2> QED BY <2>1, <2>2, SeqEqual
<1>7. i <= m + 1 /\ i <= n + 1 /\ i \in Nat /\ i >= 1
  <2>1. i # 1 => i - 1 <= m /\ i - 1 <= n
    BY <1>1, <1>5
  <2> QED BY <1>1, <2>1
<1>8. CASE i > m
  <2>1. i \in 1..(m + 1) /\ i <= n
    BY <1>1, <1>6, <1>7, <1>8
  <2>2. Less(s, t)
    BY <1>1, <1>5, <1>8, <2>1 DEF Less
  <2> QED BY <2>2
<1>9. CASE i > n
  <2>1. i \in 1..(n + 1) /\ i <= m
    BY <1>1, <1>6, <1>7, <1>9
  <2>2. Less(t, s)
    BY <1>1, <1>5, <1>9, <2>1 DEF Less
  <2> QED BY <2>2
<1>10. CASE i <= m /\ i <= n
  <2>1. s[i] \in Int /\ t[i] \in Int /\ s[i] # t[i] /\ i \in 1..(m + 1) /\ i \in 1..(n + 1)
    BY <1>1, <1>7, <1>10
  <2>2. s[i] < t[i] \/ t[i] < s[i]
    BY <2>1
  <2>3. s[i] < t[i] => Less(s, t)
    BY <1>5, <1>10, <2>1 DEF Less
  <2>4. t[i] < s[i] => Less(t, s)
    BY <1>5, <1>10, <2>1 DEF Less
  <2> QED BY <2>2, <2>3, <2>4
<1> QED BY <1>1, <1>7, <1>8, <1>9, <1>10

\* How many items of a list come before the j-th, by their keys and, where these are equal, by
\* their places.
RankOf(K, j) == Cardinality({i \in DOMAIN K : Less(K[i], K[j]) \/ (K[i] = K[j] /\ i < j)})

Permutation(p, D) ==
    /\ p \in [D -> D]
    /\ \A r, q \in D : p[r] = p[q] => r = q
    /\ \A j \in D : \E r \in D : p[r] = j

LEMMA Ranks ==
    ASSUME NEW n \in Nat, NEW K \in [1..n -> Seq(Int)]
    PROVE  /\ \A j \in 1..n : RankOf(K, j) \in 0..(n - 1)
           /\ \A i, j \in 1..n : RankOf(K, i) = RankOf(K, j) => i = j
           /\ \A r \in 1..n : \E j \in 1..n : RankOf(K, j) = r - 1
<1> DEFINE Before(i, j) == Less(K[i], K[j]) \/ (K[i] = K[j] /\ i < j)
           Pred(j) == {i \in 1..n : Before(i, j)}
<1>1. \A j \in 1..n : RankOf(K, j) = Cardinality(Pred(j))
  BY DEF RankOf
<1>2. IsFiniteSet(1..n) /\ Cardinality(1..n) = n
  BY FS_Interval
<1>3. ASSUME NEW j \in 1..n PROVE ~ Before(j, j)
  BY LessIrreflexive
<1>4. ASSUME NEW i \in 1..n, NEW j \in 1..n, NEW k \in 1..n, Before(i, j), Before(j, k)
      PROVE  Before(i, k)
  <2>1. K[i] \in Seq(Int) /\ K[j] \in Seq(Int) /\ K[k] \in Seq(Int)
    OBVIOUS
  <2>2. CASE K[i] = K[j] /\ i < j
    BY <1>4, <2>2
  <2>3. CASE K[j] = K[k] /\ j < k
    BY <1>4, <2>3
  <2>4. CASE Less(K[i], K[j]) /\ Less(K[j], K[k])
    <3> DEFINE x == K[i]
               y == K[j]
               z == K[k]
    <3>1. x \in Seq(Int) /\ y \in Seq(Int) /\ z \in Seq(Int) /\ Less(x, y) /\ Less(y, z)
      BY <2>1, <2>4
    <3> HIDE DEF x, y, z
    <3>2. Less(x, z)
      BY <3>1, LessTransitive
    <3> QED BY <3>2 DEF x, z
  <2> QED BY <1>4, <2>2, <2>3, <2>4
<1>5. ASSUME NEW i \in 1..n, NEW j \in 1..n, i # j PROVE Before(i, j) \/ Before(j, i)
  <2>1. CASE K[i] = K[j]
    BY <1>5, <2>1
  <2>2. CASE K[i] # K[j]
    <3> DEFINE x == K[i]
               y == K[j]
    <3>1. x \in Seq(Int) /\ y \in Seq(Int) /\ x # y
      BY <2>2
    <3> HIDE DEF x, y
    <3>2. Less(x, y) \/ Less(y, x)
      BY <3>1, LessTotal
    <3> QED BY <3>2 DEF x, y
  <2> QED BY <2>1, <2>2
<1> HIDE DEF Before
<1>6. \A j \in 1..n : IsFiniteSet(Pred(j)) /\ Cardinality(Pred(j)) \in Nat
  BY <1>2, FS_Subset, FS_CardinalityType
<1>7. ASSUME NEW j \in 1..n PROVE Cardinality(Pred(j)) \in 0..(n - 1)
  <2>1. IsFiniteSet((1..n) \ {j}) /\ Cardinality((1..n) \ {j}) = n - 1
    BY <1>2, FS_RemoveElement
  <2>2. Pred(j) \in SUBSET ((1..n) \ {j})
    BY <1>3
  <2>3. Cardinality(Pred(j)) <= n - 1
    BY <2>1, <2>2, FS_Subset
  <2> HIDE DEF Pred
  <2> QED BY <1>6, <2>3
<1>8. ASSUME NEW i \in 1..n, NEW j \in 1..n, Before(i, j)
      PROVE  Cardinality(Pred(i)) < Cardinality(Pred(j))
  <2>1. Pred(i) \in SUBSET Pred(j)
    BY <1>4, <1>8
  <2>2. i \in Pred(j) /\ i \notin Pred(i)
    BY <1>3, <1>8
  <2>3. /\ Cardinality(Pred(i)) <= Cardinality(Pred(j))
        /\ Cardinality(Pred(j)) = Cardinality(Pred(i)) => Pred(j) = Pred(i)
    BY <1>6, <2>1, FS_Subset
  <2>4. Pred(j) # Pred(i)
    BY <2>2
  <2> HIDE DEF Pred
  <2> QED BY <1>6, <2>3, <2>4
<1>9. \A i, j \in 1..n : Cardinality(Pred(i)) = Cardinality(Pred(j)) => i = j
  <2> SUFFICES ASSUME NEW i \in 1..n, NEW j \in 1..n, i # j
               PROVE  Cardinality(Pred(i)) # Cardinality(Pred(j))
    OBVIOUS
  <2>1. Cardinality(Pred(i)) \in Nat /\ Cardinality(Pred(j)) \in Nat
    BY <1>6
  <2>2. \/ Cardinality(Pred(i)) < Cardinality(Pred(j))
        \/ Cardinality(Pred(j)) < Cardinality(Pred(i))
    BY <1>5, <1>8
  <2> HIDE DEF Pred
  <2> QED BY <2>1, <2>2
<1> DEFINE f == [j \in 1..n |-> Cardinality(Pred(j))]
<1>10. f \in Injection(1..n, 0..(n - 1))
  BY <1>7, <1>9 DEF Injection, IsInjective
<1>11. IsFiniteSet(0..(n - 1)) /\ Cardinality(0..(n - 1)) = n
  BY FS_Interval
<1>12. f \in Surjection(1..n, 0..(n - 1))
  BY <1>2, <1>10, <1>11, FS_Injection
<1>13. \A r \in 1..n : \E j \in 1..n : Cardinality(Pred(j)) = r - 1
  <2> SUFFICES ASSUME NEW r \in 1..n PROVE \E j \in 1..n : Cardinality(Pred(j)) = r - 1
    OBVIOUS
  <2>1. r - 1 \in 0..(n - 1)
    OBVIOUS
  <2>2. \E j \in 1..n : f[j] = r - 1
    BY <1>12, <2>1 DEF Surjection
  <2> QED BY <2>2
<1> HIDE DEF Pred
<1> QED BY <1>1, <1>7, <1>9, <1>13

\* A choice of the item of every rank is a permutation of the places.
LEMMA RanksPermute ==
    ASSUME NEW n \in Nat, NEW K \in [1..n -> Seq(Int)], NEW p \in [1..n -> 1..n],
           \A r \in 1..n : RankOf(K, p[r]) = r - 1
    PROVE  Permutation(p, 1..n)
<1>1. /\ \A j \in 1..n : RankOf(K, j) \in 0..(n - 1)
      /\ \A i, j \in 1..n : RankOf(K, i) = RankOf(K, j) => i = j
  BY Ranks
<1>2. \A r, q \in 1..n : p[r] = p[q] => r = q
  <2> SUFFICES ASSUME NEW r \in 1..n, NEW q \in 1..n, p[r] = p[q] PROVE r = q
    OBVIOUS
  <2>1. r - 1 = q - 1
    OBVIOUS
  <2> QED BY <2>1
<1>3. ASSUME NEW j \in 1..n PROVE \E r \in 1..n : p[r] = j
  <2> DEFINE c == RankOf(K, j)
             r == c + 1
  <2>0. c \in 0..(n - 1)
    BY <1>1
  <2>1. r \in 1..n /\ RankOf(K, j) = r - 1
    <3>1. c = RankOf(K, j)
      OBVIOUS
    <3> HIDE DEF c
    <3>2. r \in 1..n /\ c = r - 1
      BY <2>0
    <3> QED BY <3>1, <3>2
  <2> HIDE DEF r
  <2>2. RankOf(K, p[r]) = RankOf(K, j) /\ p[r] \in 1..n
    BY <2>1
  <2>3. p[r] = j
    BY <1>1, <2>2
  <2> QED BY <2>1, <2>3
<1> QED BY <1>1, <1>2, <1>3 DEF Permutation

\* s sorted is t: the items of s, each once, in another order.
Rearranged(s, t) == \E p : Permutation(p, DOMAIN s) /\ t = [r \in DOMAIN s |-> s[p[r]]]

\* t is s sorted: at every place the item of that rank by the keys K.
RankSorted(K, s, t) ==
    \E p : /\ p \in [DOMAIN s -> DOMAIN s] /\ (\A r \in DOMAIN s : RankOf(K, p[r]) = r - 1)
          /\ t = [r \in DOMAIN s |-> s[p[r]]]

LEMMA SortedIsRearranged ==
    ASSUME NEW T, NEW s \in Seq(T), NEW K \in [DOMAIN s -> Seq(Int)], NEW t, RankSorted(K, s, t)
    PROVE  Rearranged(s, t)
<1> DEFINE n == Len(s)
<1>1. n \in Nat /\ DOMAIN s = 1..n
  OBVIOUS
<1>2. PICK p : /\ p \in [DOMAIN s -> DOMAIN s] /\ (\A r \in DOMAIN s : RankOf(K, p[r]) = r - 1)
               /\ t = [r \in DOMAIN s |-> s[p[r]]]
  BY DEF RankSorted
<1> HIDE DEF n
<1>3. Permutation(p, 1..n)
  BY <1>1, <1>2, RanksPermute
<1> QED BY <1>1, <1>2, <1>3 DEF Rearranged

LEMMA SortedByName ==
    ASSUME NEW T, NEW s \in Seq(T), \A i \in DOMAIN s : s[i].name \in Int
    PROVE  /\ RankSorted([i \in DOMAIN s |-> <<s[i].name>>], s, ByName(s))
           /\ Rearranged(s, ByName(s))
<1> DEFINE n == Len(s)
           K == [i \in DOMAIN s |-> <<s[i].name>>]
           p == [r \in DOMAIN s |-> CHOOSE j \in DOMAIN s :
                   Cardinality({i \in DOMAIN s :
                      \/ Less(<<s[i].name>>, <<s[j].name>>)
                      \/ <<s[i].name>> = <<s[j].name>> /\ i < j}) = r - 1]
<1>1. n \in Nat /\ DOMAIN s = 1..n /\ K \in [1..n -> Seq(Int)]
  OBVIOUS
<1>2. \A j \in 1..n : RankOf(K, j) = Cardinality({i \in DOMAIN s :
                      \/ Less(<<s[i].name>>, <<s[j].name>>)
                      \/ <<s[i].name>> = <<s[j].name>> /\ i < j})
  BY <1>1 DEF RankOf
<1>3. ByName(s) = [r \in DOMAIN s |-> s[p[r]]]
  BY DEF ByName, sortBy
<1>4. \A r \in 1..n : \E j \in 1..n : RankOf(K, j) = r - 1
  BY <1>1, Ranks
<1>5. \A r \in 1..n : p[r] \in 1..n /\ RankOf(K, p[r]) = r - 1
  BY <1>1, <1>2, <1>4
<1>6. p \in [1..n -> 1..n]
  BY <1>1, <1>5
<1> HIDE DEF p, K
<1>7. RankSorted(K, s, ByName(s))
  BY <1>1, <1>3, <1>5, <1>6 DEF RankSorted
<1>8. Rearranged(s, ByName(s))
  BY <1>1, <1>7, SortedIsRearranged
<1> QED BY <1>7, <1>8 DEF K
-----------------------------------------------------------------------------
(* An edit makes a document of a document.                                 *)

LEMMA GrowthType ==
    ASSUME NEW T, NEW s \in Seq(T), NEW S \in SUBSET T, NEW t \in Growth(s, S)
    PROVE  t \in Seq(T)
<1>1. CASE \E x \in S : t = Append(s, x)
  BY <1>1
<1>2. CASE t = Front(s)
  <2>1. \A i \in 1..(Len(s) - 1) : s[i] \in T
    OBVIOUS
  <2> QED BY <1>2, <2>1, SubSeqProperties DEF Front
<1> QED BY <1>1, <1>2 DEF Growth

LEMMA FrontType == ASSUME NEW T, NEW s \in Seq(T) PROVE Front(s) \in Seq(T)
<1>1. \A i \in 1..(Len(s) - 1) : s[i] \in T
  OBVIOUS
<1> QED BY <1>1, SubSeqProperties DEF Front

LEMMA ReplacementType ==
    ASSUME NEW T, NEW s \in Seq(T), NEW S \in SUBSET T, NEW t \in Replacements(s, S)
    PROVE  t \in Seq(T)
BY DEF Replacements, ReplaceAt

LEMMA FieldEditType ==
    ASSUME NEW f \in Fields, NEW g \in FieldEdits(f)
    PROVE  g \in Fields
<1>1. CASE \E n \in SomeNames : g = [f EXCEPT !.name = n]
  BY <1>1, AuthorAssumption DEF Fields
<1>2. CASE \E t \in Types : g = [f EXCEPT !.type = t]
  BY <1>2 DEF Fields
<1>3. CASE \E b \in Booleans : g = [f EXCEPT !.required = b] \/ g = [f EXCEPT !.nullable = b]
  BY <1>3 DEF Fields
<1>4. CASE \E n \in {0, MaxLength, MaxLength + 1} :
              g = [f EXCEPT !.minLength = n] \/ g = [f EXCEPT !.maxLength = n]
  BY <1>4, AuthorAssumption DEF Fields
<1>5. CASE g = [f EXCEPT !.shape = "UNKNOWN_PROPERTY"]
  BY <1>5 DEF Fields, Shapes
<1> QED BY <1>1, <1>2, <1>3, <1>4, <1>5, Zenon DEF FieldEdits, Types, Booleans

LEMMA StorageEditType ==
    ASSUME NEW s \in Storages, NEW t \in StorageEdits(s)
    PROVE  t \in Storages
<1>1. CASE \E n \in SomeSchemas : t = [s EXCEPT !.schema = n]
  BY <1>1, AuthorAssumption DEF Storages
<1>2. CASE \E n \in SomeTables : t = [s EXCEPT !.table = n]
  BY <1>2, AuthorAssumption DEF Storages
<1>3. CASE \E i \in DOMAIN s.columns, n \in SomeColumns : t = [s EXCEPT !.columns[i].name = n]
  <2>1. PICK i \in DOMAIN s.columns, n \in SomeColumns : t = [s EXCEPT !.columns[i].name = n]
    BY <1>3
  <2>2. s.columns \in Seq(Columns) /\ [s.columns[i] EXCEPT !.name = n] \in Columns
    <3>1. s.columns \in Seq(Columns) /\ n \in Int
      BY AuthorAssumption DEF Storages
    <3>2. s.columns[i] \in Columns
      BY <3>1
    <3> QED BY <3>1, <3>2 DEF Columns
  <2>3. [s.columns EXCEPT ![i].name = n] \in Seq(Columns)
    BY <2>2
  <2> QED BY <2>1, <2>3 DEF Storages
<1>4. CASE \E i \in DOMAIN s.columns, n \in SomeNames : t = [s EXCEPT !.columns[i].field = n]
  <2>1. PICK i \in DOMAIN s.columns, n \in SomeNames : t = [s EXCEPT !.columns[i].field = n]
    BY <1>4
  <2>2. s.columns \in Seq(Columns) /\ [s.columns[i] EXCEPT !.field = n] \in Columns
    <3>1. s.columns \in Seq(Columns) /\ n \in Int
      BY AuthorAssumption DEF Storages
    <3>2. s.columns[i] \in Columns
      BY <3>1
    <3> QED BY <3>1, <3>2 DEF Columns
  <2>3. [s.columns EXCEPT ![i].field = n] \in Seq(Columns)
    BY <2>2
  <2> QED BY <2>1, <2>3 DEF Storages
<1>5. CASE t = [s EXCEPT !.columns = Front(@)]
  <2>1. Front(s.columns) \in Seq(Columns)
    BY FrontType DEF Storages
  <2> QED BY <1>5, <2>1 DEF Storages
<1>6. CASE \E k \in SomeKeys : t = [s EXCEPT !.primaryKey = k]
  BY <1>6, AuthorAssumption DEF Storages
<1>7. CASE \E u \in Growth(s.uniqueKeys, SomeKeys) \cup Replacements(s.uniqueKeys, SomeKeys) :
              t = [s EXCEPT !.uniqueKeys = u]
  <2>1. PICK u \in Growth(s.uniqueKeys, SomeKeys) \cup Replacements(s.uniqueKeys, SomeKeys) :
              t = [s EXCEPT !.uniqueKeys = u]
    BY <1>7
  <2>2. s.uniqueKeys \in Seq(Seq(Int)) /\ SomeKeys \in SUBSET Seq(Int)
    BY AuthorAssumption DEF Storages
  <2>3. u \in Seq(Seq(Int))
    BY <2>2, GrowthType, ReplacementType
  <2> QED BY <2>1, <2>3 DEF Storages
<1>8. CASE \E u \in Growth(s.foreignKeys, SomeForeign) \cup Replacements(s.foreignKeys, SomeForeign) :
              t = [s EXCEPT !.foreignKeys = u]
  <2>1. PICK u \in Growth(s.foreignKeys, SomeForeign) \cup Replacements(s.foreignKeys, SomeForeign) :
              t = [s EXCEPT !.foreignKeys = u]
    BY <1>8
  <2>2. s.foreignKeys \in Seq(Foreigns) /\ SomeForeign \in SUBSET Foreigns
    BY AuthorAssumption DEF Storages
  <2>3. u \in Seq(Foreigns)
    BY <2>2, GrowthType, ReplacementType
  <2> QED BY <2>1, <2>3 DEF Storages
<1>9. CASE t = [s EXCEPT !.shape = "MISSING_PROPERTY"]
  BY <1>9 DEF Storages, Shapes
<1> QED BY <1>1, <1>2, <1>3, <1>4, <1>5, <1>6, <1>7, <1>8, <1>9 DEF StorageEdits

LEMMA ModelEditType ==
    ASSUME NEW m \in Models, NEW n \in ModelEdits(m)
    PROVE  n \in Models
<1>1. CASE \E k \in SomeNames : n = [m EXCEPT !.name = k]
  BY <1>1, AuthorAssumption DEF Models
<1>2. CASE \E i \in DOMAIN m.fields, f \in UNION {FieldEdits(g) : g \in ToSet(m.fields)} :
              n = [m EXCEPT !.fields[i] = f]
  <2>1. PICK i \in DOMAIN m.fields, f \in UNION {FieldEdits(g) : g \in ToSet(m.fields)} :
              n = [m EXCEPT !.fields[i] = f]
    BY <1>2
  <2>2. PICK g \in ToSet(m.fields) : f \in FieldEdits(g)
    OBVIOUS
  <2>3. g \in Fields
    BY DEF ToSet, Models
  <2>4. f \in Fields
    BY <2>2, <2>3, FieldEditType
  <2>5. [m.fields EXCEPT ![i] = f] \in Seq(Fields)
    BY <2>4 DEF Models
  <2> QED BY <2>1, <2>5 DEF Models
<1>3. CASE n = [m EXCEPT !.stored = ~@]
  BY <1>3 DEF Models
<1>4. CASE \E s \in StorageEdits(m.storage) : n = [m EXCEPT !.storage = s]
  BY <1>4, StorageEditType DEF Models
<1>5. CASE n = [m EXCEPT !.shape = "INVALID_SHAPE"]
  BY <1>5 DEF Models, Shapes
<1> QED BY <1>1, <1>2, <1>3, <1>4, <1>5 DEF ModelEdits

LEMMA DocumentEditType ==
    ASSUME NEW d \in Documents, NEW e \in DocumentEdits(d)
    PROVE  e \in Documents
<1>0. d.models \in Seq(Models) /\ ToSet(d.models) \in SUBSET Models
  BY DEF Documents, ToSet
<1>1. CASE \E i \in DOMAIN d.models, m \in UNION {ModelEdits(n) : n \in ToSet(d.models)} :
              e = [d EXCEPT !.models[i] = m]
  <2>1. PICK i \in DOMAIN d.models, m \in UNION {ModelEdits(n) : n \in ToSet(d.models)} :
              e = [d EXCEPT !.models[i] = m]
    BY <1>1
  <2>2. PICK n \in ToSet(d.models) : m \in ModelEdits(n)
    OBVIOUS
  <2>3. m \in Models
    BY <1>0, <2>2, ModelEditType
  <2>4. [d.models EXCEPT ![i] = m] \in Seq(Models)
    BY <1>0, <2>3
  <2> QED BY <2>1, <2>4 DEF Documents
<1>2. CASE \E ms \in Growth(d.models, ToSet(d.models)) : e = [d EXCEPT !.models = ms]
  BY <1>0, <1>2, GrowthType DEF Documents
<1>3. CASE e \in {[d EXCEPT !.version = "other"], [d EXCEPT !.shape = "MISSING_PROPERTY"]}
  BY <1>3 DEF Documents, Shapes
<1> QED BY <1>1, <1>2, <1>3 DEF DocumentEdits
-----------------------------------------------------------------------------
(* The passes of validate.js.  An accepted document has no diagnostic, so  *)
(* each condition that would have made one is false.                       *)

Codes ==
    Shapes \cup
    {"CONTRADICTORY_LENGTH", "DUPLICATE_COLUMN", "DUPLICATE_FIELD", "DUPLICATE_FOREIGN_KEY",
     "DUPLICATE_KEY", "DUPLICATE_KEY_FIELD", "DUPLICATE_MODEL", "DUPLICATE_TABLE",
     "FOREIGN_KEY_TYPE_MISMATCH", "INCOMPLETE_MAPPING", "INVALID_ARRAY", "INVALID_BOOLEAN",
     "INVALID_FOREIGN_KEY", "INVALID_IDENTIFIER", "INVALID_LENGTH", "INVALID_SET_NULL",
     "LOSSY_PRESENCE", "NON_UNIQUE_REFERENCE", "NULLABLE_PRIMARY_KEY", "RESERVED_COLUMN",
     "RESERVED_SCHEMA", "SQL_NAME_COLLISION", "UNKNOWN_KEY_FIELD", "UNKNOWN_REFERENCE",
     "UNSUPPORTED_DELETE_ACTION", "UNSUPPORTED_TYPE", "UNSUPPORTED_VERSION"}
Reports == Seq(Codes)

LEMMA Silent ==
    /\ \A c \in BOOLEAN : \A code \in Codes : When(c, code) \in Reports /\ (When(c, code) = <<>> <=> ~ c)
    /\ <<>> \in Reports
    /\ \A s, t \in Reports : s \o t \in Reports /\ (s \o t = <<>> <=> s = <<>> /\ t = <<>>)
<1>1. ASSUME NEW c \in BOOLEAN, NEW code \in Codes
      PROVE  When(c, code) \in Reports /\ (When(c, code) = <<>> <=> ~ c)
  BY DEF When, Reports
<1>2. ASSUME NEW s \in Reports, NEW t \in Reports
      PROVE  s \o t \in Reports /\ (s \o t = <<>> <=> s = <<>> /\ t = <<>>)
  BY ConcatProperties, ConcatEqualIffEmpty DEF Reports
<1> QED BY <1>1, <1>2 DEF Reports

\* A list of reports, one for each item of a list.
LEMMA SilentEach ==
    ASSUME NEW S, NEW s \in Seq(S), NEW f, f = [i \in DOMAIN s |-> f[i]],
           \A i \in DOMAIN s : f[i] \in Reports
    PROVE  /\ FlattenSeq(f) \in Reports
           /\ FlattenSeq(f) = <<>> <=> \A i \in DOMAIN s : f[i] = <<>>
<1>1. f \in Seq(Reports) /\ DOMAIN f = DOMAIN s
  BY MappedLists
<1> DEFINE w == FlattenSeq(f)
<1>2. /\ w \in Reports
      /\ \A k \in DOMAIN w : \E i \in DOMAIN f : \E a \in DOMAIN f[i] : w[k] = f[i][a]
  BY <1>1, FlattenItems DEF Reports
<1>3. w = <<>> => \A i \in DOMAIN s : f[i] = <<>>
  BY <1>1, FlattenEmpty DEF Reports
<1> HIDE DEF w
<1>4. ASSUME \A i \in DOMAIN s : f[i] = <<>> PROVE w = <<>>
  <2>1. \A i \in DOMAIN f : DOMAIN f[i] = {}
    BY <1>1, <1>4
  <2>2. DOMAIN w = {}
    BY <1>2, <2>1
  <2> QED BY <1>2, <2>2 DEF Reports
<1> QED BY <1>2, <1>3, <1>4 DEF w

\* A foreign key of the model that relates the same is written before the k-th.
Again(m, k) ==
    LET key == m.storage.foreignKeys[k]
    IN  \E j \in 1..(k - 1) :
           LET other == m.storage.foreignKeys[j]
           IN  other.fields = key.fields /\ other.model = key.model /\ other.refFields = key.refFields

LEMMA ForeignKeyReport ==
    ASSUME NEW d, NEW m, NEW k
    PROVE  LET key == m.storage.foreignKeys[k]
               target == ModelOf(d, key.model)
           IN  /\ foreignKey(d, m, k) \in Reports
               /\ foreignKey(d, m, k) = <<>> <=>
                    /\ ~ Again(m, k)
                    /\ ~ UnknownReference(d, key) /\ ~ UnresolvedFields(m, key, target)
                    /\ ~ NonUniqueReference(key, target) /\ ~ TypeMismatch(m, key, target)
                    /\ ~ InvalidSetNull(m, key)
<1> DEFINE key == m.storage.foreignKeys[k]
           target == ModelOf(d, key.model)
           a == When(Again(m, k), "DUPLICATE_FOREIGN_KEY")
           b == When(NonUniqueReference(key, target), "NON_UNIQUE_REFERENCE")
           c == When(TypeMismatch(m, key, target), "FOREIGN_KEY_TYPE_MISMATCH")
           e == When(InvalidSetNull(m, key), "INVALID_SET_NULL")
           rest == IF UnknownReference(d, key) THEN <<"UNKNOWN_REFERENCE">>
                   ELSE IF UnresolvedFields(m, key, target) THEN <<"INVALID_FOREIGN_KEY">>
                   ELSE b \o c \o e
<1>1. foreignKey(d, m, k) = a \o rest
  BY DEF foreignKey, Again
<1>2. a \in Reports /\ (a = <<>> <=> ~ Again(m, k))
  <2>1. Again(m, k) \in BOOLEAN /\ "DUPLICATE_FOREIGN_KEY" \in Codes
    BY DEF Again, Codes
  <2> QED BY <2>1, Silent
<1>3. /\ b \in Reports /\ (b = <<>> <=> ~ NonUniqueReference(key, target))
      /\ c \in Reports /\ (c = <<>> <=> ~ TypeMismatch(m, key, target))
      /\ e \in Reports /\ (e = <<>> <=> ~ InvalidSetNull(m, key))
  <2>1. /\ NonUniqueReference(key, target) \in BOOLEAN /\ TypeMismatch(m, key, target) \in BOOLEAN
        /\ InvalidSetNull(m, key) \in BOOLEAN
    BY DEF NonUniqueReference, TypeMismatch, InvalidSetNull
  <2>2. {"NON_UNIQUE_REFERENCE", "FOREIGN_KEY_TYPE_MISMATCH", "INVALID_SET_NULL"} \subseteq Codes
    BY DEF Codes
  <2> QED BY <2>1, <2>2, Silent
<1>4. <<"UNKNOWN_REFERENCE">> \in Reports /\ <<"INVALID_FOREIGN_KEY">> \in Reports
  BY DEF Reports, Codes
<1>5. <<"UNKNOWN_REFERENCE">> # <<>> /\ <<"INVALID_FOREIGN_KEY">> # <<>>
  OBVIOUS
<1> HIDE DEF a, b, c, e, target, key
<1>6. b \o c \o e \in Reports /\ (b \o c \o e = <<>> <=> b = <<>> /\ c = <<>> /\ e = <<>>)
  BY <1>3, Silent
<1>7. rest \in Reports
  BY <1>4, <1>6
<1>8. rest = <<>> <=> /\ ~ UnknownReference(d, key) /\ ~ UnresolvedFields(m, key, target)
                      /\ b = <<>> /\ c = <<>> /\ e = <<>>
  BY <1>5, <1>6
<1> HIDE DEF rest
<1> QED BY <1>1, <1>2, <1>3, <1>7, <1>8, Silent DEF key, target

\* What the second pass has found of a stored model without a report.
Sound(d, i) ==
    LET m == d.models[i]
        sql == m.storage
    IN  /\ ~ Repeats(Map(LAMBDA f : f.name, m.fields))
        /\ m.stored =>
             /\ sql.schema \notin SystemSchemas
             /\ ~ DuplicateTable(d, i) /\ ~ DuplicateColumn(sql)
             /\ Names(sql.columns) \cap SystemColumns = {}
             /\ ~ IncompleteMapping(m) /\ ~ LossyPresence(m) /\ ~ DuplicateKey(sql)
             /\ \A k \in DOMAIN KeysOf(sql) : ToSet(KeysOf(sql)[k]) \subseteq FieldNames(m)
             /\ ~ NullablePrimaryKey(m)
             /\ \A k \in DOMAIN sql.foreignKeys : foreignKey(d, m, k) = <<>>

LEMMA KeysType ==
    ASSUME NEW s \in Storages
    PROVE  /\ KeysOf(s) \in Seq(Seq(Int)) /\ Len(KeysOf(s)) = Len(s.uniqueKeys) + 1
           /\ KeysOf(s)[1] = s.primaryKey
           /\ \A k \in DOMAIN s.uniqueKeys : KeysOf(s)[k + 1] = s.uniqueKeys[k]
<1> DEFINE u == s.uniqueKeys
           p == <<s.primaryKey>>
<1>1. u \in Seq(Seq(Int)) /\ p \in Seq(Seq(Int)) /\ Len(p) = 1 /\ p[1] = s.primaryKey
  BY DEF Storages
<1> HIDE DEF u, p
<1>2. /\ p \o u \in Seq(Seq(Int)) /\ Len(u) \in Nat /\ Len(p \o u) = Len(p) + Len(u)
      /\ \A k \in 1..Len(p) : (p \o u)[k] = p[k]
      /\ \A a \in 1..Len(u) : (p \o u)[Len(p) + a] = u[a]
  <2> DEFINE T == Seq(Int)
  <2>1. u \in Seq(T) /\ p \in Seq(T)
    BY <1>1
  <2> HIDE DEF T
  <2>2. p \o u \in Seq(T) /\ Len(u) \in Nat /\ Len(p \o u) = Len(p) + Len(u)
    BY <2>1, ConcatParts
  <2>3. /\ \A k \in 1..Len(p) : k \in DOMAIN (p \o u) /\ (p \o u)[k] = p[k]
        /\ \A a \in 1..Len(u) : Len(p) + a \in DOMAIN (p \o u) /\ (p \o u)[Len(p) + a] = u[a]
    BY <2>1, ConcatParts
  <2> QED BY <2>2, <2>3 DEF T
<1>3. KeysOf(s) = p \o u
  BY DEF KeysOf, p, u
<1> DEFINE w == p \o u
<1>4. w \in Seq(Seq(Int)) /\ Len(w) = Len(u) + 1 /\ w[1] = p[1]
  BY <1>1, <1>2
<1>5. ASSUME NEW k \in DOMAIN u PROVE w[k + 1] = u[k]
  <2>1. k \in 1..Len(u) /\ k \in Nat
    BY <1>1
  <2>2. w[1 + k] = u[k] /\ 1 + k = k + 1
    BY <1>1, <1>2, <2>1
  <2> HIDE DEF w
  <2> QED BY <2>2
<1> HIDE DEF w
<1> QED BY <1>1, <1>3, <1>4, <1>5 DEF u, p, w

LEMMA RelationalReport ==
    ASSUME NEW d \in Documents, NEW i \in DOMAIN d.models
    PROVE  relational(d, i) \in Reports /\ (relational(d, i) = <<>> <=> Sound(d, i))
<1> DEFINE m == d.models[i]
           sql == m.storage
           a0 == When(Repeats(Map(LAMBDA f : f.name, m.fields)), "DUPLICATE_FIELD")
           a1 == When(sql.schema \in SystemSchemas, "RESERVED_SCHEMA")
           a2 == When(DuplicateTable(d, i), "DUPLICATE_TABLE")
           a3 == When(DuplicateColumn(sql), "DUPLICATE_COLUMN")
           a4 == When(Names(sql.columns) \cap SystemColumns # {}, "RESERVED_COLUMN")
           a5 == When(IncompleteMapping(m), "INCOMPLETE_MAPPING")
           a6 == When(LossyPresence(m), "LOSSY_PRESENCE")
           a7 == When(DuplicateKey(sql), "DUPLICATE_KEY")
           f8 == [k \in DOMAIN KeysOf(sql) |->
                    When(~ (ToSet(KeysOf(sql)[k]) \subseteq FieldNames(m)), "UNKNOWN_KEY_FIELD")]
           a9 == When(NullablePrimaryKey(m), "NULLABLE_PRIMARY_KEY")
           f10 == [k \in DOMAIN sql.foreignKeys |-> foreignKey(d, m, k)]
<1>1. m \in Models /\ sql \in Storages
  <2>1. d.models \in Seq(Models)
    BY DEF Documents
  <2>2. m \in Models
    BY <2>1
  <2> HIDE DEF m
  <2> QED BY <2>2 DEF Models
<1>2. relational(d, i) =
        a0 \o (IF ~ m.stored THEN <<>>
               ELSE a1 \o a2 \o a3 \o a4 \o a5 \o a6 \o a7 \o FlattenSeq(f8) \o a9 \o FlattenSeq(f10))
  BY DEF relational, Each, Map
<1>c. \A c \in BOOLEAN : \A code \in Codes : When(c, code) \in Reports /\ (When(c, code) = <<>> <=> ~ c)
  BY Silent
<1>b. /\ {"DUPLICATE_FIELD", "RESERVED_SCHEMA", "DUPLICATE_TABLE"} \subseteq Codes
      /\ {"DUPLICATE_COLUMN", "RESERVED_COLUMN"} \subseteq Codes
  BY DEF Codes
<1>3. /\ a0 \in Reports /\ (a0 = <<>> <=> ~ Repeats(Map(LAMBDA f : f.name, m.fields)))
      /\ a1 \in Reports /\ (a1 = <<>> <=> sql.schema \notin SystemSchemas)
      /\ a2 \in Reports /\ (a2 = <<>> <=> ~ DuplicateTable(d, i))
      /\ a3 \in Reports /\ (a3 = <<>> <=> ~ DuplicateColumn(sql))
      /\ a4 \in Reports /\ (a4 = <<>> <=> Names(sql.columns) \cap SystemColumns = {})
  <2>0. a0 \in Reports /\ (a0 = <<>> <=> ~ Repeats(Map(LAMBDA f : f.name, m.fields)))
    <3>1. Repeats(Map(LAMBDA f : f.name, m.fields)) \in BOOLEAN
      BY DEF Repeats
    <3> QED BY <3>1, <1>b, <1>c
  <2>1. a1 \in Reports /\ (a1 = <<>> <=> sql.schema \notin SystemSchemas)
    <3>1. (sql.schema \in SystemSchemas) \in BOOLEAN
      OBVIOUS
    <3> QED BY <3>1, <1>b, <1>c
  <2>2. a2 \in Reports /\ (a2 = <<>> <=> ~ DuplicateTable(d, i))
    <3>1. DuplicateTable(d, i) \in BOOLEAN
      BY DEF DuplicateTable
    <3> QED BY <3>1, <1>b, <1>c
  <2>3. a3 \in Reports /\ (a3 = <<>> <=> ~ DuplicateColumn(sql))
    <3>1. DuplicateColumn(sql) \in BOOLEAN
      BY DEF DuplicateColumn, Repeats
    <3> QED BY <3>1, <1>b, <1>c
  <2>4. a4 \in Reports /\ (a4 = <<>> <=> Names(sql.columns) \cap SystemColumns = {})
    <3> DEFINE reserved == Names(sql.columns) \cap SystemColumns # {}
    <3>1. reserved \in BOOLEAN
      OBVIOUS
    <3> HIDE DEF reserved
    <3>2. When(reserved, "RESERVED_COLUMN") \in Reports /\ (When(reserved, "RESERVED_COLUMN") = <<>> <=> ~ reserved)
      BY <3>1, <1>b, <1>c
    <3> QED BY <3>2 DEF reserved
  <2> QED BY <2>0, <2>1, <2>2, <2>3, <2>4
<1>4. /\ a5 \in Reports /\ (a5 = <<>> <=> ~ IncompleteMapping(m))
      /\ a6 \in Reports /\ (a6 = <<>> <=> ~ LossyPresence(m))
      /\ a7 \in Reports /\ (a7 = <<>> <=> ~ DuplicateKey(sql))
      /\ a9 \in Reports /\ (a9 = <<>> <=> ~ NullablePrimaryKey(m))
  <2>1. /\ IncompleteMapping(m) \in BOOLEAN /\ LossyPresence(m) \in BOOLEAN
        /\ DuplicateKey(sql) \in BOOLEAN /\ NullablePrimaryKey(m) \in BOOLEAN
    BY DEF IncompleteMapping, LossyPresence, DuplicateKey, Repeats, NullablePrimaryKey
  <2>2. /\ {"INCOMPLETE_MAPPING", "LOSSY_PRESENCE"} \subseteq Codes
        /\ {"DUPLICATE_KEY", "NULLABLE_PRIMARY_KEY"} \subseteq Codes
    BY DEF Codes
  <2> QED BY <2>1, <2>2, Silent
<1>5. /\ FlattenSeq(f8) \in Reports
      /\ FlattenSeq(f8) = <<>> <=>
           \A k \in DOMAIN KeysOf(sql) : ToSet(KeysOf(sql)[k]) \subseteq FieldNames(m)
  <2>1. \A k \in DOMAIN KeysOf(sql) :
           f8[k] \in Reports /\ (f8[k] = <<>> <=> ToSet(KeysOf(sql)[k]) \subseteq FieldNames(m))
    BY Silent DEF Codes
  <2>2. KeysOf(sql) \in Seq(Seq(Int)) /\ f8 = [k \in DOMAIN KeysOf(sql) |-> f8[k]]
    BY <1>1, KeysType
  <2> HIDE DEF f8
  <2> QED BY <2>1, <2>2, SilentEach
<1>6. /\ FlattenSeq(f10) \in Reports
      /\ FlattenSeq(f10) = <<>> <=> \A k \in DOMAIN sql.foreignKeys : foreignKey(d, m, k) = <<>>
  <2>1. \A k \in DOMAIN sql.foreignKeys : f10[k] = foreignKey(d, m, k) /\ f10[k] \in Reports
    BY ForeignKeyReport
  <2>2. sql.foreignKeys \in Seq(Foreigns) /\ f10 = [k \in DOMAIN sql.foreignKeys |-> f10[k]]
    BY <1>1 DEF Storages
  <2> HIDE DEF f10
  <2> QED BY <2>1, <2>2, SilentEach
<1> DEFINE a8 == FlattenSeq(f8)
           a10 == FlattenSeq(f10)
           b2 == a1 \o a2
           b3 == b2 \o a3
           b4 == b3 \o a4
           b5 == b4 \o a5
           b6 == b5 \o a6
           b7 == b6 \o a7
           b8 == b7 \o a8
           b9 == b8 \o a9
           b10 == b9 \o a10
<1>7. a8 \in Reports /\ a10 \in Reports
  BY <1>5, <1>6
<1>8. relational(d, i) = a0 \o (IF ~ m.stored THEN <<>> ELSE b10)
  BY <1>2
<1>9. m.stored \in BOOLEAN
  BY <1>1 DEF Models
<1> HIDE DEF a0, a1, a2, a3, a4, a5, a6, a7, a8, a9, a10, b2, b3, b4, b5, b6, b7, b8, b9, b10, f8, f10, m, sql
<1>10. \A s, t \in Reports : s \o t \in Reports /\ (s \o t = <<>> <=> s = <<>> /\ t = <<>>)
  BY Silent
<1>11. b4 \in Reports /\ (b4 = <<>> <=> a1 = <<>> /\ a2 = <<>> /\ a3 = <<>> /\ a4 = <<>>)
  <2>1. b2 \in Reports /\ (b2 = <<>> <=> a1 = <<>> /\ a2 = <<>>)
    BY <1>3, <1>10 DEF b2
  <2>2. b3 \in Reports /\ (b3 = <<>> <=> b2 = <<>> /\ a3 = <<>>)
    BY <1>3, <1>10, <2>1 DEF b3
  <2>3. b4 \in Reports /\ (b4 = <<>> <=> b3 = <<>> /\ a4 = <<>>)
    BY <1>3, <1>10, <2>2 DEF b4
  <2> QED BY <2>1, <2>2, <2>3
<1>12. b7 \in Reports /\ (b7 = <<>> <=> b4 = <<>> /\ a5 = <<>> /\ a6 = <<>> /\ a7 = <<>>)
  <2>1. b5 \in Reports /\ (b5 = <<>> <=> b4 = <<>> /\ a5 = <<>>)
    BY <1>4, <1>10, <1>11 DEF b5
  <2>2. b6 \in Reports /\ (b6 = <<>> <=> b5 = <<>> /\ a6 = <<>>)
    BY <1>4, <1>10, <2>1 DEF b6
  <2>3. b7 \in Reports /\ (b7 = <<>> <=> b6 = <<>> /\ a7 = <<>>)
    BY <1>4, <1>10, <2>2 DEF b7
  <2> QED BY <2>1, <2>2, <2>3
<1>13. b10 \in Reports /\ (b10 = <<>> <=> b7 = <<>> /\ a8 = <<>> /\ a9 = <<>> /\ a10 = <<>>)
  <2>1. b8 \in Reports /\ (b8 = <<>> <=> b7 = <<>> /\ a8 = <<>>)
    BY <1>7, <1>10, <1>12 DEF b8
  <2>2. b9 \in Reports /\ (b9 = <<>> <=> b8 = <<>> /\ a9 = <<>>)
    BY <1>4, <1>10, <2>1 DEF b9
  <2>3. b10 \in Reports /\ (b10 = <<>> <=> b9 = <<>> /\ a10 = <<>>)
    BY <1>7, <1>10, <2>2 DEF b10
  <2> QED BY <2>1, <2>2, <2>3
<1>14. /\ relational(d, i) \in Reports
       /\ relational(d, i) = <<>> <=> a0 = <<>> /\ (m.stored => b10 = <<>>)
  BY <1>3, <1>8, <1>9, <1>10, <1>13, Silent
<1>15. b10 = <<>> <=>
         /\ sql.schema \notin SystemSchemas
         /\ ~ DuplicateTable(d, i) /\ ~ DuplicateColumn(sql)
         /\ Names(sql.columns) \cap SystemColumns = {}
         /\ ~ IncompleteMapping(m) /\ ~ LossyPresence(m) /\ ~ DuplicateKey(sql)
         /\ \A k \in DOMAIN KeysOf(sql) : ToSet(KeysOf(sql)[k]) \subseteq FieldNames(m)
         /\ ~ NullablePrimaryKey(m)
         /\ \A k \in DOMAIN sql.foreignKeys : foreignKey(d, m, k) = <<>>
  BY <1>3, <1>4, <1>5, <1>6, <1>11, <1>12, <1>13 DEF a8, a10
<1> QED BY <1>3, <1>14, <1>15 DEF Sound, m, sql

LEMMA StoredItems ==
    ASSUME NEW d \in Documents
    PROVE  /\ Stored(d) \in Seq(Models)
           /\ \A i \in DOMAIN d.models : d.models[i] \in Models
           /\ \A m \in ToSet(Stored(d)) : \E i \in DOMAIN d.models : d.models[i] = m /\ m.stored
           /\ \A i \in DOMAIN d.models : d.models[i].stored => d.models[i] \in ToSet(Stored(d))
<1> DEFINE s == d.models
           f == [i \in DOMAIN s |-> IF s[i].stored THEN <<s[i]>> ELSE <<>>]
<1>1. s \in Seq(Models) /\ \A i \in DOMAIN s : s[i] \in Models /\ s[i].stored \in BOOLEAN
  <2>1. s \in Seq(Models)
    BY DEF Documents
  <2>2. \A i \in DOMAIN s : s[i] \in Models
    BY <2>1
  <2>3. \A m \in Models : m.stored \in BOOLEAN
    BY DEF Models
  <2> HIDE DEF s
  <2> QED BY <2>1, <2>2, <2>3
<1>2. Stored(d) = FlattenSeq(f)
  BY DEF Stored, Each, Map
<1>3. \A i \in DOMAIN s : f[i] \in Seq(Models)
  BY <1>1
<1>4. f \in Seq(Seq(Models)) /\ DOMAIN f = DOMAIN s
  <2>1. f = [i \in DOMAIN s |-> f[i]]
    OBVIOUS
  <2> HIDE DEF f, s
  <2> QED BY <1>1, <1>3, <2>1, MappedLists
<1>5. /\ FlattenSeq(f) \in Seq(Models)
      /\ \A i \in DOMAIN f : \A a \in DOMAIN f[i] :
            \E k \in DOMAIN FlattenSeq(f) : FlattenSeq(f)[k] = f[i][a]
      /\ \A k \in DOMAIN FlattenSeq(f) :
            \E i \in DOMAIN f : \E a \in DOMAIN f[i] : FlattenSeq(f)[k] = f[i][a]
  <2> HIDE DEF f
  <2> QED BY <1>4, FlattenItems
<1> DEFINE fl == FlattenSeq(f)
<1> HIDE DEF fl
<1>6. ASSUME NEW k \in DOMAIN fl PROVE \E i \in DOMAIN s : s[i] = fl[k] /\ s[i].stored
  <2>1. PICK i \in DOMAIN f : \E a \in DOMAIN f[i] : fl[k] = f[i][a]
    BY <1>5 DEF fl
  <2>2. i \in DOMAIN s
    BY <1>4
  <2>3. CASE s[i].stored
    BY <1>1, <2>1, <2>2, <2>3
  <2>4. CASE ~ s[i].stored
    BY <1>1, <2>1, <2>2, <2>4
  <2> QED BY <2>3, <2>4
<1>7. ASSUME NEW i \in DOMAIN s, s[i].stored PROVE \E k \in DOMAIN fl : fl[k] = s[i]
  <2>1. i \in DOMAIN f /\ 1 \in DOMAIN f[i] /\ f[i][1] = s[i]
    BY <1>4, <1>7
  <2> HIDE DEF f
  <2>2. \E k \in DOMAIN FlattenSeq(f) : FlattenSeq(f)[k] = f[i][1]
    BY <1>5, <2>1
  <2> QED BY <2>1, <2>2 DEF fl
<1>8. Stored(d) = fl /\ fl \in Seq(Models)
  BY <1>2, <1>5 DEF fl
<1>9. \A m \in ToSet(fl) : \E i \in DOMAIN s : s[i] = m /\ m.stored
  <2> HIDE DEF s
  <2> QED BY <1>6 DEF ToSet
<1>10. \A i \in DOMAIN s : s[i].stored => s[i] \in ToSet(fl)
  <2> HIDE DEF s
  <2> QED BY <1>7 DEF ToSet
<1> QED BY <1>1, <1>8, <1>9, <1>10

\* What an accepted document has been found to be, and that this is all.
LEMMA AcceptedIff ==
    ASSUME NEW d \in Documents
    PROVE  validate(d) = <<>> <=>
             /\ documentShape(d) = <<>> /\ ~ NameCollision(d)
             /\ ~ Repeats(Map(LAMBDA m : m.name, d.models))
             /\ \A i \in DOMAIN d.models : Sound(d, i)
<1> DEFINE repeated == Repeats(Map(LAMBDA m : m.name, d.models))
           f == [i \in DOMAIN d.models |-> relational(d, i)]
           a == When(repeated, "DUPLICATE_MODEL")
<1>1. validate(d) = <<>> <=>
        documentShape(d) = <<>> /\ relationalPass(d) = <<>> /\ ~ NameCollision(d)
  <2> DEFINE shape == documentShape(d)
             relations == relationalPass(d)
             last == When(NameCollision(d), "SQL_NAME_COLLISION")
  <2>1. validate(d) = CASE shape # <<>> -> shape
                        [] shape = <<>> /\ relations # <<>> -> relations
                        [] OTHER -> last
    BY DEF validate
  <2>2. last = <<>> <=> ~ NameCollision(d)
    <3>1. NameCollision(d) \in BOOLEAN
      BY DEF NameCollision, Repeats
    <3>2. "SQL_NAME_COLLISION" \in Codes
      BY DEF Codes
    <3> QED BY <3>1, <3>2, Silent
  <2> HIDE DEF shape, relations, last
  <2>3. validate(d) = <<>> <=> shape = <<>> /\ relations = <<>> /\ last = <<>>
    BY <2>1
  <2> QED BY <2>2, <2>3 DEF shape, relations
<1>2. a \in Reports /\ (a = <<>> <=> ~ repeated)
  <2>1. repeated \in BOOLEAN
    BY DEF Repeats
  <2>2. "DUPLICATE_MODEL" \in Codes
    BY DEF Codes
  <2> HIDE DEF repeated
  <2> QED BY <2>1, <2>2, Silent
<1>3. \A i \in DOMAIN d.models : f[i] \in Reports /\ (f[i] = <<>> <=> Sound(d, i))
  BY RelationalReport
<1>4. d.models \in Seq(Models) /\ f = [i \in DOMAIN d.models |-> f[i]]
  BY DEF Documents
<1>5. relationalPass(d) = a \o FlattenSeq(f)
  BY DEF relationalPass
<1> HIDE DEF f, a, repeated
<1>6. FlattenSeq(f) \in Reports /\ (FlattenSeq(f) = <<>> <=> \A i \in DOMAIN d.models : f[i] = <<>>)
  BY <1>3, <1>4, SilentEach
<1>7. relationalPass(d) = <<>> <=> ~ repeated /\ \A i \in DOMAIN d.models : Sound(d, i)
  <2>1. relationalPass(d) = <<>> <=> a = <<>> /\ FlattenSeq(f) = <<>>
    BY <1>2, <1>5, <1>6, Silent
  <2> QED BY <1>2, <1>3, <1>6, <2>1
<1> QED BY <1>1, <1>7 DEF repeated

LEMMA Accepted ==
    ASSUME NEW d \in Documents, validate(d) = <<>>
    PROVE  /\ documentShape(d) = <<>> /\ ~ NameCollision(d)
           /\ ~ Repeats(Map(LAMBDA m : m.name, d.models))
           /\ \A i \in DOMAIN d.models : Sound(d, i)
BY AcceptedIff

\* A Map of field names to fields, when no name repeats.
LEMMA FieldFacts ==
    ASSUME NEW m \in Models, ~ Repeats(Map(LAMBDA f : f.name, m.fields)), NEW n \in FieldNames(m)
    PROVE  /\ FieldOf(m, n) \in ToSet(m.fields) /\ FieldOf(m, n).name = n
           /\ \A f \in ToSet(m.fields) : f.name = n => f = FieldOf(m, n)
<1> DEFINE s == m.fields
           I == {i \in 1..Len(s) : s[i].name = n}
           names == [i \in DOMAIN s |-> s[i].name]
<1>1. s \in Seq(Fields) /\ Len(s) \in Nat /\ DOMAIN s = 1..Len(s)
  BY DEF Models
<1>2. I # {}
  BY <1>1 DEF FieldNames, ToSet
<1>3. FieldOf(m, n) = s[Max(I)]
  BY <1>2 DEF FieldOf, SelectLastInSeq
<1>4. Max(I) \in I
  BY <1>1, <1>2, MaxOfPositions
<1>5. \A i, j \in DOMAIN s : s[i].name = s[j].name => i = j
  <2>1. names \in Seq(Int) /\ DOMAIN names = DOMAIN s
    <3>1. \A f \in Fields : f.name \in Int
      BY DEF Fields
    <3>2. \A i \in DOMAIN s : s[i].name \in Int
      BY <1>1, <3>1
    <3> HIDE DEF s
    <3> QED BY <1>1, <3>2
  <2>2. ~ Repeats(names)
    BY DEF Map
  <2>3. \A i, j \in DOMAIN names : names[i] = names[j] => i = j
    <3> HIDE DEF names
    <3> QED BY <2>1, <2>2, NoRepeats
  <2> QED BY <2>1, <2>3
<1> QED BY <1>1, <1>3, <1>4, <1>5 DEF ToSet

\* The columns of a storage that repeats none: one for each of its fields, one for each name.
LEMMA ColumnFacts ==
    ASSUME NEW sql \in Storages, ~ DuplicateColumn(sql)
    PROVE  /\ \A i, j \in DOMAIN sql.columns :
                 \/ sql.columns[i].field = sql.columns[j].field
                 \/ sql.columns[i].name = sql.columns[j].name
                 => i = j
           /\ \A c \in ToSet(sql.columns) : ColumnName(sql, c.field) = c.name
<1> DEFINE s == sql.columns
           fields == [i \in DOMAIN s |-> s[i].field]
           names == [i \in DOMAIN s |-> s[i].name]
<1>1. s \in Seq(Columns) /\ Len(s) \in Nat /\ DOMAIN s = 1..Len(s)
  BY DEF Storages
<1>2. fields \in Seq(Int) /\ DOMAIN fields = DOMAIN s /\ names \in Seq(Int) /\ DOMAIN names = DOMAIN s
  <2>1. \A c \in Columns : c.field \in Int /\ c.name \in Int
    BY DEF Columns
  <2>2. \A i \in DOMAIN s : s[i].field \in Int /\ s[i].name \in Int
    BY <1>1, <2>1
  <2> HIDE DEF s
  <2> QED BY <1>1, <2>2
<1>3. ~ Repeats(fields) /\ ~ Repeats(names)
  BY DEF DuplicateColumn, Map
<1>4. /\ \A i, j \in DOMAIN s : fields[i] = fields[j] => i = j
      /\ \A i, j \in DOMAIN s : names[i] = names[j] => i = j
  <2> HIDE DEF fields, names
  <2>1. \A i, j \in DOMAIN fields : fields[i] = fields[j] => i = j
    BY <1>2, <1>3, NoRepeats
  <2>2. \A i, j \in DOMAIN names : names[i] = names[j] => i = j
    BY <1>2, <1>3, NoRepeats
  <2> QED BY <1>2, <2>1, <2>2
<1>5. \A i, j \in DOMAIN s : s[i].field = s[j].field \/ s[i].name = s[j].name => i = j
  BY <1>4
<1>6. ASSUME NEW c \in ToSet(s) PROVE ColumnName(sql, c.field) = c.name
  <2> DEFINE I == {i \in 1..Len(s) : s[i].field = c.field}
  <2>1. I # {} /\ I \in SUBSET (1..Len(s))
    BY <1>1 DEF ToSet
  <2>2. ColumnName(sql, c.field) = s[Max(I)].name
    BY <2>1 DEF ColumnName, SelectLastInSeq
  <2>3. Max(I) \in I
    <3> HIDE DEF I
    <3> QED BY <1>1, <2>1, MaxOfPositions
  <2>4. s[Max(I)] = c
    BY <1>1, <1>5, <2>3 DEF ToSet
  <2> QED BY <2>2, <2>4
<1> QED BY <1>5, <1>6
\* What the first pass has found of a storage, and of a document, without a report.
NeverNegative(s) == \A i \in DOMAIN s : s[i] >= 0

FieldListSound(s) == SeqUnique(s) /\ Len(s) >= 1 /\ NeverNegative(s)

StorageShape(sql) ==
    /\ FieldListSound(sql.primaryKey)
    /\ \A k \in DOMAIN sql.uniqueKeys : FieldListSound(sql.uniqueKeys[k])
    /\ \A k \in DOMAIN sql.foreignKeys :
          /\ FieldListSound(sql.foreignKeys[k].fields) /\ FieldListSound(sql.foreignKeys[k].refFields)
          /\ sql.foreignKeys[k].onDelete \in DeleteActions

LEMMA NameReport == ASSUME NEW x PROVE name(x) \in Reports /\ (name(x) = <<>> <=> IsName(x))
<1>1. "INVALID_IDENTIFIER" \in Codes
  BY DEF Codes
<1>2. <<>> \in Reports /\ <<"INVALID_IDENTIFIER">> \in Reports
  BY <1>1 DEF Reports
<1> QED BY <1>2 DEF name, When

LEMMA FieldListReport ==
    ASSUME NEW s \in Seq(Int)
    PROVE  fieldList(s) \in Reports /\ (fieldList(s) = <<>> => FieldListSound(s))
<1> DEFINE f == [i \in DOMAIN s |-> name(s[i])]
           b == When(~ SeqUnique(s), "DUPLICATE_KEY_FIELD")
<1>1. FlattenSeq(f) \in Reports /\ (FlattenSeq(f) = <<>> => NeverNegative(s))
  <2>1. /\ f = [i \in DOMAIN s |-> f[i]]
        /\ \A i \in DOMAIN s : f[i] \in Reports /\ (f[i] = <<>> => s[i] >= 0)
    BY NameReport DEF IsName
  <2> HIDE DEF f
  <2>2. FlattenSeq(f) \in Reports /\ (FlattenSeq(f) = <<>> => \A i \in DOMAIN s : f[i] = <<>>)
    BY <2>1, SilentEach
  <2> QED BY <2>1, <2>2 DEF NeverNegative
<1>2. b \in Reports /\ (b = <<>> => SeqUnique(s))
  <2>1. SeqUnique(s) \in BOOLEAN
    BY DEF SeqUnique, IsInjective
  <2>2. "DUPLICATE_KEY_FIELD" \in Codes
    BY DEF Codes
  <2> QED BY <2>1, <2>2, Silent
<1>3. <<"INVALID_ARRAY">> \in Reports /\ <<"INVALID_ARRAY">> # <<>>
  BY DEF Reports, Codes
<1>4. fieldList(s) = IF ~ (Len(s) >= 1 /\ Len(s) <= MaxFields) THEN <<"INVALID_ARRAY">> ELSE FlattenSeq(f) \o b
  BY DEF fieldList, array, Each, Map
<1> HIDE DEF f, b
<1>5. FlattenSeq(f) \o b \in Reports /\ (FlattenSeq(f) \o b = <<>> => FlattenSeq(f) = <<>> /\ b = <<>>)
  BY <1>1, <1>2, Silent
<1> QED BY <1>1, <1>2, <1>3, <1>4, <1>5 DEF FieldListSound

LEMMA ShapeReport == ASSUME NEW c \in Shapes PROVE <<c>> \in Reports /\ <<c>> # <<>>
BY DEF Reports, Codes

LEMMA ColumnShapeReport == ASSUME NEW c \in Columns PROVE columnShape(c) \in Reports
<1>1. name(c.field) \o name(c.name) \in Reports
  BY NameReport, Silent
<1>2. <<c.shape>> \in Reports
  BY ShapeReport DEF Columns
<1> QED BY <1>1, <1>2 DEF columnShape

LEMMA ForeignShapeReport ==
    ASSUME NEW key \in Foreigns
    PROVE  /\ foreignShape(key) \in Reports
           /\ foreignShape(key) = <<>> =>
                /\ FieldListSound(key.fields) /\ FieldListSound(key.refFields)
                /\ key.onDelete \in DeleteActions
<1> DEFINE a == fieldList(key.fields)
           b1 == name(key.model)
           b2 == fieldList(key.refFields)
           b == IF key.refShape # "ok" THEN <<key.refShape>> ELSE b1 \o b2
           c == When(key.onDelete \notin DeleteActions, "UNSUPPORTED_DELETE_ACTION")
<1>1. /\ key.shape \in Shapes /\ key.refShape \in Shapes
      /\ key.fields \in Seq(Int) /\ key.refFields \in Seq(Int)
  BY DEF Foreigns
<1>2. a \in Reports /\ (a = <<>> => FieldListSound(key.fields))
  BY <1>1, FieldListReport
<1>3. b1 \in Reports /\ b2 \in Reports /\ (b2 = <<>> => FieldListSound(key.refFields))
  BY <1>1, FieldListReport, NameReport
<1>4. c \in Reports /\ (c = <<>> => key.onDelete \in DeleteActions)
  <2>1. (key.onDelete \notin DeleteActions) \in BOOLEAN
    OBVIOUS
  <2>2. "UNSUPPORTED_DELETE_ACTION" \in Codes
    BY DEF Codes
  <2> QED BY <2>1, <2>2, Silent
<1>5. /\ <<key.shape>> \in Reports /\ <<key.shape>> # <<>>
      /\ <<key.refShape>> \in Reports /\ <<key.refShape>> # <<>>
  BY <1>1, ShapeReport
<1>6. foreignShape(key) = IF key.shape # "ok" THEN <<key.shape>> ELSE a \o b \o c
  BY DEF foreignShape
<1> HIDE DEF a, b1, b2, c
<1>7. b \in Reports /\ (b = <<>> => b2 = <<>>)
  <2>1. b1 \o b2 \in Reports /\ (b1 \o b2 = <<>> => b2 = <<>>)
    BY <1>3, Silent
  <2> QED BY <1>5, <2>1
<1> HIDE DEF b
<1>8. a \o b \in Reports /\ (a \o b = <<>> => a = <<>> /\ b = <<>>)
  BY <1>2, <1>7, Silent
<1> DEFINE w == a \o b
<1> HIDE DEF w
<1>9. w \o c \in Reports /\ (w \o c = <<>> => w = <<>> /\ c = <<>>)
  BY <1>4, <1>8, Silent DEF w
<1> QED BY <1>2, <1>3, <1>4, <1>5, <1>6, <1>7, <1>8, <1>9 DEF w

LEMMA StorageReport ==
    ASSUME NEW sql \in Storages
    PROVE  storage(sql) \in Reports /\ (storage(sql) = <<>> => StorageShape(sql))
<1> DEFINE fc == [i \in DOMAIN sql.columns |-> columnShape(sql.columns[i])]
           fu == [i \in DOMAIN sql.uniqueKeys |-> fieldList(sql.uniqueKeys[i])]
           ff == [i \in DOMAIN sql.foreignKeys |-> foreignShape(sql.foreignKeys[i])]
           c1 == name(sql.schema)
           c2 == name(sql.table)
           c3 == bounded(sql.columns, 1, MaxFields, columnShape)
           c4 == fieldList(sql.primaryKey)
           c5 == bounded(sql.uniqueKeys, 0, MaxKeys, fieldList)
           c6 == bounded(sql.foreignKeys, 0, MaxKeys, foreignShape)
<1>1. /\ sql.shape \in Shapes /\ sql.columns \in Seq(Columns) /\ sql.primaryKey \in Seq(Int)
      /\ sql.uniqueKeys \in Seq(Seq(Int)) /\ sql.foreignKeys \in Seq(Foreigns)
  BY DEF Storages
<1>2. <<"INVALID_ARRAY">> \in Reports /\ <<"INVALID_ARRAY">> # <<>>
  BY DEF Reports, Codes
<1>3. c1 \in Reports /\ c2 \in Reports
  BY NameReport
<1>4. c3 \in Reports
  <2>1. fc = [i \in DOMAIN sql.columns |-> fc[i]] /\ \A i \in DOMAIN sql.columns : fc[i] \in Reports
    <3>1. \A i \in DOMAIN sql.columns : sql.columns[i] \in Columns
      BY <1>1
    <3> QED BY <3>1, ColumnShapeReport
  <2>2. FlattenSeq(fc) \in Reports
    <3> HIDE DEF fc
    <3> QED BY <1>1, <2>1, SilentEach
  <2>3. c3 = FlattenSeq(fc) \/ c3 = <<"INVALID_ARRAY">>
    BY DEF bounded, Each, Map
  <2> QED BY <1>2, <2>2, <2>3
<1>5. c4 \in Reports /\ (c4 = <<>> => FieldListSound(sql.primaryKey))
  BY <1>1, FieldListReport
<1>6. c5 \in Reports /\ (c5 = <<>> => \A k \in DOMAIN sql.uniqueKeys : FieldListSound(sql.uniqueKeys[k]))
  <2>1. /\ fu = [i \in DOMAIN sql.uniqueKeys |-> fu[i]]
        /\ \A i \in DOMAIN sql.uniqueKeys : fu[i] \in Reports /\ (fu[i] = <<>> => FieldListSound(sql.uniqueKeys[i]))
    <3>1. \A i \in DOMAIN sql.uniqueKeys : sql.uniqueKeys[i] \in Seq(Int)
      BY <1>1
    <3> QED BY <3>1, FieldListReport
  <2>2. FlattenSeq(fu) \in Reports /\ (FlattenSeq(fu) = <<>> => \A i \in DOMAIN sql.uniqueKeys : fu[i] = <<>>)
    <3> HIDE DEF fu
    <3> QED BY <1>1, <2>1, SilentEach
  <2>3. c5 = FlattenSeq(fu) \/ c5 = <<"INVALID_ARRAY">>
    BY DEF bounded, Each, Map
  <2> HIDE DEF fu, c5
  <2> QED BY <1>2, <2>1, <2>2, <2>3
<1>7. /\ c6 \in Reports
      /\ c6 = <<>> => \A k \in DOMAIN sql.foreignKeys :
            /\ FieldListSound(sql.foreignKeys[k].fields) /\ FieldListSound(sql.foreignKeys[k].refFields)
            /\ sql.foreignKeys[k].onDelete \in DeleteActions
  <2>1. /\ ff = [i \in DOMAIN sql.foreignKeys |-> ff[i]]
        /\ \A k \in DOMAIN sql.foreignKeys :
              /\ ff[k] \in Reports
              /\ ff[k] = <<>> =>
                    /\ FieldListSound(sql.foreignKeys[k].fields)
                    /\ FieldListSound(sql.foreignKeys[k].refFields)
                    /\ sql.foreignKeys[k].onDelete \in DeleteActions
    <3>1. \A i \in DOMAIN sql.foreignKeys : sql.foreignKeys[i] \in Foreigns
      BY <1>1
    <3> QED BY <3>1, ForeignShapeReport
  <2>2. FlattenSeq(ff) \in Reports /\ (FlattenSeq(ff) = <<>> => \A i \in DOMAIN sql.foreignKeys : ff[i] = <<>>)
    <3> HIDE DEF ff
    <3> QED BY <1>1, <2>1, SilentEach
  <2>3. c6 = FlattenSeq(ff) \/ c6 = <<"INVALID_ARRAY">>
    BY DEF bounded, Each, Map
  <2> HIDE DEF ff, c6
  <2> QED BY <1>2, <2>1, <2>2, <2>3
<1>8. storage(sql) = IF sql.shape # "ok" THEN <<sql.shape>> ELSE c1 \o c2 \o c3 \o c4 \o c5 \o c6
  BY DEF storage
<1>9. <<sql.shape>> \in Reports /\ <<sql.shape>> # <<>>
  BY <1>1, ShapeReport
<1> DEFINE w2 == c1 \o c2
           w3 == w2 \o c3
           w4 == w3 \o c4
           w5 == w4 \o c5
           w6 == w5 \o c6
<1> HIDE DEF c1, c2, c3, c4, c5, c6
<1>10. w6 \in Reports /\ (w6 = <<>> => c4 = <<>> /\ c5 = <<>> /\ c6 = <<>>)
  <2>1. w3 \in Reports
    BY <1>3, <1>4, Silent
  <2> HIDE DEF w3
  <2>2. w4 \in Reports /\ (w4 = <<>> => c4 = <<>>)
    BY <1>5, <2>1, Silent
  <2> HIDE DEF w4
  <2>3. w5 \in Reports /\ (w5 = <<>> => w4 = <<>> /\ c5 = <<>>)
    BY <1>6, <2>2, Silent
  <2> HIDE DEF w5
  <2>4. w6 \in Reports /\ (w6 = <<>> => w5 = <<>> /\ c6 = <<>>)
    BY <1>7, <2>3, Silent
  <2> QED BY <2>2, <2>3, <2>4
<1>11. storage(sql) = IF sql.shape # "ok" THEN <<sql.shape>> ELSE w6
  BY <1>8
<1> HIDE DEF w6
<1> QED BY <1>5, <1>6, <1>7, <1>9, <1>10, <1>11 DEF StorageShape

LEMMA FieldShapeReport == ASSUME NEW f \in Fields PROVE fieldShape(f) \in Reports
<1> DEFINE c1 == name(f.name)
           c2 == When(f.type \notin SCALARS, "UNSUPPORTED_TYPE")
           c3 == When(f.required \notin Flags, "INVALID_BOOLEAN")
           c4 == When(f.nullable \notin Flags, "INVALID_BOOLEAN")
           c5 == lengthShape(f, f.minLength)
           c6 == lengthShape(f, f.maxLength)
           c7 == When(/\ f.minLength # NoLength /\ f.maxLength # NoLength
                      /\ f.minLength > f.maxLength, "CONTRADICTORY_LENGTH")
<1>1. /\ <<"UNSUPPORTED_TYPE">> \in Reports /\ <<"INVALID_BOOLEAN">> \in Reports
      /\ <<"INVALID_LENGTH">> \in Reports /\ <<"CONTRADICTORY_LENGTH">> \in Reports /\ <<>> \in Reports
  <2>1. /\ "UNSUPPORTED_TYPE" \in Codes /\ "INVALID_BOOLEAN" \in Codes
        /\ "INVALID_LENGTH" \in Codes /\ "CONTRADICTORY_LENGTH" \in Codes
    BY DEF Codes
  <2> QED BY <2>1 DEF Reports
<1>2. c1 \in Reports
  BY NameReport
<1>3. c2 \in Reports /\ c3 \in Reports /\ c4 \in Reports
  BY <1>1 DEF When
<1>4. c5 \in Reports /\ c6 \in Reports /\ c7 \in Reports
  BY <1>1 DEF When, lengthShape
<1>5. <<f.shape>> \in Reports
  BY ShapeReport DEF Fields
<1>6. fieldShape(f) = IF f.shape # "ok" THEN <<f.shape>> ELSE c1 \o c2 \o c3 \o c4 \o c5 \o c6 \o c7
  BY DEF fieldShape
<1> HIDE DEF c1, c2, c3, c4, c5, c6, c7
<1>7. c1 \o c2 \o c3 \o c4 \o c5 \o c6 \o c7 \in Reports
  BY <1>2, <1>3, <1>4, Silent
<1> QED BY <1>5, <1>6, <1>7

LEMMA ModelShapeReport ==
    ASSUME NEW m \in Models
    PROVE  modelShape(m) \in Reports /\ (modelShape(m) = <<>> /\ m.stored => StorageShape(m.storage))
<1> DEFINE ff == [i \in DOMAIN m.fields |-> fieldShape(m.fields[i])]
           c1 == name(m.name)
           c2 == bounded(m.fields, 1, MaxFields, fieldShape)
           c3 == IF m.stored THEN storage(m.storage) ELSE <<>>
<1>1. m.shape \in Shapes /\ m.fields \in Seq(Fields) /\ m.stored \in BOOLEAN /\ m.storage \in Storages
  BY DEF Models
<1>2. c1 \in Reports /\ <<m.shape>> \in Reports /\ <<m.shape>> # <<>>
  BY <1>1, NameReport, ShapeReport
<1>3. c2 \in Reports
  <2>1. ff = [i \in DOMAIN m.fields |-> ff[i]] /\ \A i \in DOMAIN m.fields : ff[i] \in Reports
    <3>1. \A i \in DOMAIN m.fields : m.fields[i] \in Fields
      BY <1>1
    <3> QED BY <3>1, FieldShapeReport
  <2>2. FlattenSeq(ff) \in Reports
    <3> HIDE DEF ff
    <3> QED BY <1>1, <2>1, SilentEach
  <2>3. c2 = FlattenSeq(ff) \/ c2 = <<"INVALID_ARRAY">>
    BY DEF bounded, Each, Map
  <2>4. <<"INVALID_ARRAY">> \in Reports
    BY DEF Reports, Codes
  <2> QED BY <2>2, <2>3, <2>4
<1>4. c3 \in Reports /\ (c3 = <<>> /\ m.stored => StorageShape(m.storage))
  BY <1>1, StorageReport, Silent
<1>5. modelShape(m) = IF m.shape # "ok" THEN <<m.shape>> ELSE c1 \o c2 \o c3
  BY DEF modelShape
<1> HIDE DEF c1, c2, c3
<1>6. c1 \o c2 \o c3 \in Reports /\ (c1 \o c2 \o c3 = <<>> => c3 = <<>>)
  BY <1>2, <1>3, <1>4, Silent
<1> QED BY <1>2, <1>4, <1>5, <1>6

LEMMA DocumentShapeReport ==
    ASSUME NEW d \in Documents, documentShape(d) = <<>>
    PROVE  \A i \in DOMAIN d.models : d.models[i].stored => StorageShape(d.models[i].storage)
<1> DEFINE fm == [i \in DOMAIN d.models |-> modelShape(d.models[i])]
           c1 == When(d.version # "ores.schema-ir.v1", "UNSUPPORTED_VERSION")
           c2 == bounded(d.models, 1, MaxModels, modelShape)
<1>1. d.shape \in Shapes /\ d.models \in Seq(Models)
  BY DEF Documents
<1>2. c1 \in Reports
  <2>1. (d.version # "ores.schema-ir.v1") \in BOOLEAN /\ "UNSUPPORTED_VERSION" \in Codes
    BY DEF Codes
  <2> QED BY <2>1, Silent
<1>3. <<d.shape>> # <<>> /\ <<"INVALID_ARRAY">> # <<>> /\ <<"INVALID_ARRAY">> \in Reports
  BY DEF Reports, Codes
<1>4. /\ fm = [i \in DOMAIN d.models |-> fm[i]]
      /\ \A i \in DOMAIN d.models :
            fm[i] \in Reports /\ (fm[i] = <<>> /\ d.models[i].stored => StorageShape(d.models[i].storage))
  <2>1. \A i \in DOMAIN d.models : d.models[i] \in Models
    BY <1>1
  <2> QED BY <2>1, ModelShapeReport
<1>5. FlattenSeq(fm) \in Reports /\ (FlattenSeq(fm) = <<>> => \A i \in DOMAIN d.models : fm[i] = <<>>)
  <2> HIDE DEF fm
  <2> QED BY <1>1, <1>4, SilentEach
<1>6. c2 = FlattenSeq(fm) \/ c2 = <<"INVALID_ARRAY">>
  BY DEF bounded, Each, Map
<1>7. documentShape(d) = IF d.shape # "ok" THEN <<d.shape>> ELSE c1 \o c2
  BY DEF documentShape
<1> HIDE DEF c1, c2, fm
<1>8. c1 \o c2 = <<>>
  BY <1>3, <1>7
<1>9. c2 = <<>>
  BY <1>2, <1>3, <1>5, <1>6, <1>8, Silent
<1> QED BY <1>3, <1>4, <1>5, <1>6, <1>9

\* A list and its rearrangement have the same items.
LEMMA RearrangedItems ==
    ASSUME NEW T, NEW s \in Seq(T), NEW t, Rearranged(s, t)
    PROVE  /\ t \in Seq(T) /\ DOMAIN t = DOMAIN s /\ Len(t) = Len(s)
           /\ \A r \in DOMAIN t : \E i \in DOMAIN s : t[r] = s[i]
           /\ \A i \in DOMAIN s : \E r \in DOMAIN t : t[r] = s[i]
           /\ (\A i, j \in DOMAIN s : s[i] = s[j] => i = j)
              => \A i, j \in DOMAIN t : t[i] = t[j] => i = j
<1>1. PICK p : Permutation(p, DOMAIN s) /\ t = [r \in DOMAIN s |-> s[p[r]]]
  BY DEF Rearranged
<1>2. /\ \A r \in DOMAIN s : p[r] \in DOMAIN s /\ t[r] = s[p[r]]
      /\ \A r, q \in DOMAIN s : p[r] = p[q] => r = q
      /\ \A j \in DOMAIN s : \E r \in DOMAIN s : p[r] = j
      /\ DOMAIN t = DOMAIN s
  BY <1>1 DEF Permutation
<1>3. \A i \in DOMAIN s : s[i] \in T
  OBVIOUS
<1>4. t = [r \in DOMAIN s |-> t[r]] /\ \A r \in DOMAIN s : t[r] \in T
  BY <1>1, <1>2, <1>3
<1>5. t \in Seq(T) /\ Len(t) = Len(s)
  BY <1>4, MappedLists
<1>6. ASSUME NEW i \in DOMAIN s PROVE \E r \in DOMAIN t : t[r] = s[i]
  <2>1. PICK r \in DOMAIN s : p[r] = i
    BY <1>2
  <2>2. t[r] = s[i] /\ r \in DOMAIN t
    BY <1>2, <2>1
  <2> QED BY <2>2
<1>7. ASSUME \A i, j \in DOMAIN s : s[i] = s[j] => i = j, NEW i \in DOMAIN t, NEW j \in DOMAIN t, t[i] = t[j]
      PROVE  i = j
  <2>1. p[i] \in DOMAIN s /\ p[j] \in DOMAIN s /\ s[p[i]] = s[p[j]]
    BY <1>2, <1>7
  <2>2. p[i] = p[j]
    BY <1>7, <2>1
  <2> QED BY <1>2, <2>2
<1> QED BY <1>2, <1>5, <1>6, <1>7

\* A list of keys is sorted by the keys themselves.
LEMMA SortedKeysFact ==
    ASSUME NEW u \in Seq(Seq(Int))
    PROVE  /\ RankSorted([i \in DOMAIN u |-> u[i]], u, sortBy(u, LAMBDA k : k))
           /\ Rearranged(u, sortBy(u, LAMBDA k : k))
<1> DEFINE s == u
           n == Len(s)
           K == [i \in DOMAIN s |-> s[i]]
           p == [r \in DOMAIN s |-> CHOOSE j \in DOMAIN s :
                   Cardinality({i \in DOMAIN s :
                      \/ Less(s[i], s[j])
                      \/ s[i] = s[j] /\ i < j}) = r - 1]
<1>1. n \in Nat /\ DOMAIN s = 1..n /\ K \in [1..n -> Seq(Int)]
  OBVIOUS
<1>2. \A j \in 1..n : RankOf(K, j) = Cardinality({i \in DOMAIN s :
                      \/ Less(s[i], s[j])
                      \/ s[i] = s[j] /\ i < j})
  <2> HIDE DEF s
  <2> QED BY <1>1 DEF RankOf
<1>3. sortBy(u, LAMBDA k : k) = [r \in DOMAIN s |-> s[p[r]]]
  BY DEF sortBy
<1> HIDE DEF s
<1>4. \A r \in 1..n : \E j \in 1..n : RankOf(K, j) = r - 1
  BY <1>1, Ranks
<1>5. \A r \in 1..n : p[r] \in 1..n /\ RankOf(K, p[r]) = r - 1
  BY <1>1, <1>2, <1>4
<1>6. p \in [1..n -> 1..n]
  BY <1>1, <1>5
<1> HIDE DEF p, K
<1>7. RankSorted(K, s, sortBy(u, LAMBDA k : k))
  BY <1>1, <1>3, <1>5, <1>6 DEF RankSorted
<1>8. Rearranged(s, sortBy(u, LAMBDA k : k))
  BY <1>1, <1>7, SortedIsRearranged DEF s
<1> QED BY <1>7, <1>8 DEF K, s

\* Schemas are sorted by name.
LEMMA SortedSchemas ==
    ASSUME NEW u \in Seq(Int)
    PROVE  /\ RankSorted([i \in DOMAIN u |-> <<u[i]>>], u, sortBy(u, LAMBDA x : <<x>>))
           /\ Rearranged(u, sortBy(u, LAMBDA x : <<x>>))
<1> DEFINE s == u
           n == Len(s)
           K == [i \in DOMAIN s |-> <<s[i]>>]
           p == [r \in DOMAIN s |-> CHOOSE j \in DOMAIN s :
                   Cardinality({i \in DOMAIN s :
                      \/ Less(<<s[i]>>, <<s[j]>>)
                      \/ <<s[i]>> = <<s[j]>> /\ i < j}) = r - 1]
<1>1. n \in Nat /\ DOMAIN s = 1..n /\ K \in [1..n -> Seq(Int)]
  OBVIOUS
<1>2. \A j \in 1..n : RankOf(K, j) = Cardinality({i \in DOMAIN s :
                      \/ Less(<<s[i]>>, <<s[j]>>)
                      \/ <<s[i]>> = <<s[j]>> /\ i < j})
  <2> HIDE DEF s
  <2> QED BY <1>1 DEF RankOf
<1>3. sortBy(u, LAMBDA x : <<x>>) = [r \in DOMAIN s |-> s[p[r]]]
  BY DEF sortBy
<1> HIDE DEF s
<1>4. \A r \in 1..n : \E j \in 1..n : RankOf(K, j) = r - 1
  BY <1>1, Ranks
<1>5. \A r \in 1..n : p[r] \in 1..n /\ RankOf(K, p[r]) = r - 1
  BY <1>1, <1>2, <1>4
<1>6. p \in [1..n -> 1..n]
  BY <1>1, <1>5
<1> HIDE DEF p, K
<1>7. RankSorted(K, s, sortBy(u, LAMBDA x : <<x>>))
  BY <1>1, <1>3, <1>5, <1>6 DEF RankSorted
<1>8. Rearranged(s, sortBy(u, LAMBDA x : <<x>>))
  BY <1>1, <1>7, SortedIsRearranged DEF s
<1> QED BY <1>7, <1>8 DEF K, s

\* Models are sorted by schema and table.
LEMMA SortedModels ==
    ASSUME NEW u \in Seq(Models)
    PROVE  /\ RankSorted([i \in DOMAIN u |-> <<u[i].storage.schema, u[i].storage.table>>], u, sortBy(u, LAMBDA m : <<m.storage.schema, m.storage.table>>))
           /\ Rearranged(u, sortBy(u, LAMBDA m : <<m.storage.schema, m.storage.table>>))
<1> DEFINE s == u
           n == Len(s)
           K == [i \in DOMAIN s |-> <<s[i].storage.schema, s[i].storage.table>>]
           p == [r \in DOMAIN s |-> CHOOSE j \in DOMAIN s :
                   Cardinality({i \in DOMAIN s :
                      \/ Less(<<s[i].storage.schema, s[i].storage.table>>, <<s[j].storage.schema, s[j].storage.table>>)
                      \/ <<s[i].storage.schema, s[i].storage.table>> = <<s[j].storage.schema, s[j].storage.table>> /\ i < j}) = r - 1]
<1>1. n \in Nat /\ DOMAIN s = 1..n /\ K \in [1..n -> Seq(Int)]
  <2>1. n \in Nat /\ DOMAIN s = 1..n /\ \A i \in 1..n : s[i] \in Models
    OBVIOUS
  <2>2. \A m \in Models : m.storage.schema \in Int /\ m.storage.table \in Int
    BY DEF Models, Storages
  <2> HIDE DEF s
  <2>3. \A i \in 1..n : <<s[i].storage.schema, s[i].storage.table>> \in Seq(Int)
    BY <2>1, <2>2
  <2> QED BY <2>1, <2>3
<1>2. \A j \in 1..n : RankOf(K, j) = Cardinality({i \in DOMAIN s :
                      \/ Less(<<s[i].storage.schema, s[i].storage.table>>, <<s[j].storage.schema, s[j].storage.table>>)
                      \/ <<s[i].storage.schema, s[i].storage.table>> = <<s[j].storage.schema, s[j].storage.table>> /\ i < j})
  <2> HIDE DEF s
  <2> QED BY <1>1 DEF RankOf
<1>3. sortBy(u, LAMBDA m : <<m.storage.schema, m.storage.table>>) = [r \in DOMAIN s |-> s[p[r]]]
  BY DEF sortBy
<1> HIDE DEF s
<1>4. \A r \in 1..n : \E j \in 1..n : RankOf(K, j) = r - 1
  BY <1>1, Ranks
<1>5. \A r \in 1..n : p[r] \in 1..n /\ RankOf(K, p[r]) = r - 1
  BY <1>1, <1>2, <1>4
<1>6. p \in [1..n -> 1..n]
  BY <1>1, <1>5
<1> HIDE DEF p, K
<1>7. RankSorted(K, s, sortBy(u, LAMBDA m : <<m.storage.schema, m.storage.table>>))
  BY <1>1, <1>3, <1>5, <1>6 DEF RankSorted
<1>8. Rearranged(s, sortBy(u, LAMBDA m : <<m.storage.schema, m.storage.table>>))
  BY <1>1, <1>7, SortedIsRearranged DEF s
<1> QED BY <1>7, <1>8 DEF K, s

\* Foreign keys are sorted by what they relate and, where that is equal, by what a delete does.
Rank(key) == key.fields \o <<-1, key.model>> \o key.refFields \o <<-1, ActionRank(key.onDelete)>>

LEMMA RankType ==
    ASSUME NEW key \in Foreigns, key.onDelete \in DeleteActions
    PROVE  Rank(key) \in Seq(Int)
<1>1. ActionRank(key.onDelete) \in Int
  BY DEF ActionRank, DeleteActions
<1>2. key.fields \in Seq(Int) /\ key.refFields \in Seq(Int) /\ key.model \in Int
  BY DEF Foreigns
<1>3. <<-1, key.model>> \in Seq(Int) /\ <<-1, ActionRank(key.onDelete)>> \in Seq(Int)
  BY <1>1, <1>2
<1> QED BY <1>2, <1>3 DEF Rank

LEMMA SortedForeign ==
    ASSUME NEW u \in Seq(Foreigns), \A i \in DOMAIN u : u[i].onDelete \in DeleteActions
    PROVE  /\ RankSorted([i \in DOMAIN u |-> Rank(u[i])], u, sortBy(u, Rank))
           /\ Rearranged(u, sortBy(u, Rank))
<1> DEFINE s == u
           n == Len(s)
           K == [i \in DOMAIN s |-> Rank(s[i])]
           p == [r \in DOMAIN s |-> CHOOSE j \in DOMAIN s :
                   Cardinality({i \in DOMAIN s :
                      \/ Less(Rank(s[i]), Rank(s[j]))
                      \/ Rank(s[i]) = Rank(s[j]) /\ i < j}) = r - 1]
<1>1. n \in Nat /\ DOMAIN s = 1..n /\ K \in [1..n -> Seq(Int)]
  <2>1. n \in Nat /\ DOMAIN s = 1..n /\ \A i \in 1..n : s[i] \in Foreigns /\ s[i].onDelete \in DeleteActions
    OBVIOUS
  <2> HIDE DEF s
  <2>2. \A i \in 1..n : Rank(s[i]) \in Seq(Int)
    BY <2>1, RankType
  <2> QED BY <2>1, <2>2
<1>2. \A j \in 1..n : RankOf(K, j) = Cardinality({i \in DOMAIN s :
                      \/ Less(Rank(s[i]), Rank(s[j]))
                      \/ Rank(s[i]) = Rank(s[j]) /\ i < j})
  <2> HIDE DEF s
  <2> QED BY <1>1 DEF RankOf
<1>3. sortBy(u, Rank) = [r \in DOMAIN s |-> s[p[r]]]
  BY DEF sortBy
<1> HIDE DEF s
<1>4. \A r \in 1..n : \E j \in 1..n : RankOf(K, j) = r - 1
  BY <1>1, Ranks
<1>5. \A r \in 1..n : p[r] \in 1..n /\ RankOf(K, p[r]) = r - 1
  BY <1>1, <1>2, <1>4
<1>6. p \in [1..n -> 1..n]
  BY <1>1, <1>5
<1> HIDE DEF p, K
<1>7. RankSorted(K, s, sortBy(u, Rank))
  BY <1>1, <1>3, <1>5, <1>6 DEF RankSorted
<1>8. Rearranged(s, sortBy(u, Rank))
  BY <1>1, <1>7, SortedIsRearranged DEF s
<1> QED BY <1>7, <1>8 DEF K, s

-----------------------------------------------------------------------------
(* Lists with the same items in another order.                             *)

LEMMA RearrangedSet ==
    ASSUME NEW T, NEW s \in Seq(T), NEW t, Rearranged(s, t)
    PROVE  ToSet(t) = ToSet(s)
<1>1. /\ \A r \in DOMAIN t : \E i \in DOMAIN s : t[r] = s[i]
      /\ \A i \in DOMAIN s : \E r \in DOMAIN t : t[r] = s[i]
  BY RearrangedItems
<1>2. ASSUME NEW x \in ToSet(t) PROVE x \in ToSet(s)
  <2>1. PICK r \in DOMAIN t : x = t[r]
    BY DEF ToSet
  <2>2. PICK i \in DOMAIN s : t[r] = s[i]
    BY <1>1
  <2> QED BY <2>1, <2>2 DEF ToSet
<1>3. ASSUME NEW x \in ToSet(s) PROVE x \in ToSet(t)
  <2>1. PICK i \in DOMAIN s : x = s[i]
    BY DEF ToSet
  <2>2. PICK r \in DOMAIN t : t[r] = s[i]
    BY <1>1
  <2> QED BY <2>1, <2>2 DEF ToSet
<1> QED BY <1>2, <1>3

LEMMA RearrangedBack ==
    ASSUME NEW T, NEW s \in Seq(T), NEW t, Rearranged(s, t)
    PROVE  Rearranged(t, s)
<1>1. PICK p : Permutation(p, DOMAIN s) /\ t = [r \in DOMAIN s |-> s[p[r]]]
  BY DEF Rearranged
<1> DEFINE q == [j \in DOMAIN s |-> CHOOSE r \in DOMAIN s : p[r] = j]
<1>2. \A j \in DOMAIN s : q[j] \in DOMAIN s /\ p[q[j]] = j
  BY <1>1 DEF Permutation
<1>3. \A r \in DOMAIN s : q[p[r]] = r /\ p[r] \in DOMAIN s
  BY <1>1, <1>2 DEF Permutation
<1>4. q \in [DOMAIN s -> DOMAIN s] /\ DOMAIN t = DOMAIN s
  BY <1>1, <1>2
<1> HIDE DEF q
<1>5. Permutation(q, DOMAIN t)
  <2>1. \A j, k \in DOMAIN s : q[j] = q[k] => j = k
    BY <1>2
  <2>2. \A r \in DOMAIN s : \E j \in DOMAIN s : q[j] = r
    BY <1>3
  <2> QED BY <1>4, <2>1, <2>2 DEF Permutation
<1>6. s = [r \in DOMAIN t |-> t[q[r]]]
  <2>1. \A j \in DOMAIN s : t[q[j]] = s[j]
    BY <1>1, <1>2
  <2>2. s = [j \in DOMAIN s |-> s[j]]
    OBVIOUS
  <2> QED BY <1>4, <2>1, <2>2
<1> QED BY <1>5, <1>6 DEF Rearranged

LEMMA RearrangedSame ==
    ASSUME NEW T, NEW s \in Seq(T)
    PROVE  Rearranged(s, s)
<1> DEFINE p == [r \in DOMAIN s |-> r]
<1>1. Permutation(p, DOMAIN s)
  BY DEF Permutation
<1>2. s = [r \in DOMAIN s |-> s[p[r]]]
  OBVIOUS
<1> QED BY <1>1, <1>2 DEF Rearranged

\* Exchanging two neighbours rearranges a list.
LEMMA NeighboursRearranged ==
    ASSUME NEW T, NEW s \in Seq(T), NEW t \in Neighbours(s)
    PROVE  Rearranged(s, t) /\ t \in Seq(T)
<1>1. PICK i \in 1..(Len(s) - 1) : t = [s EXCEPT ![i] = s[i + 1], ![i + 1] = s[i]]
  BY DEF Neighbours
<1> DEFINE n == Len(s)
           p == [r \in DOMAIN s |-> IF r = i THEN i + 1 ELSE IF r = i + 1 THEN i ELSE r]
<1>2. n \in Nat /\ DOMAIN s = 1..n /\ i \in 1..n /\ i + 1 \in 1..n
  BY <1>1
<1>3. Permutation(p, DOMAIN s)
  <2> HIDE DEF n
  <2>1. p \in [DOMAIN s -> DOMAIN s] /\ \A r, q \in DOMAIN s : p[r] = p[q] => r = q
    BY <1>2
  <2>2. \A j \in DOMAIN s : p[p[j]] = j
    BY <1>2
  <2> HIDE DEF p
  <2>3. \A j \in DOMAIN s : \E r \in DOMAIN s : p[r] = j
    BY <2>1, <2>2
  <2> QED BY <2>1, <2>3 DEF Permutation
<1>4. t = [r \in DOMAIN s |-> s[p[r]]]
  <2>1. DOMAIN t = DOMAIN s /\ \A r \in DOMAIN s : t[r] = s[p[r]]
    BY <1>1, <1>2
  <2>2. t = [r \in DOMAIN s |-> t[r]]
    BY <1>1
  <2> QED BY <2>1, <2>2
<1>5. Rearranged(s, t)
  BY <1>3, <1>4 DEF Rearranged
<1> QED BY <1>5, RearrangedItems

\* v is made of t as w of s, item by item.
MadeAlike(s, w, t, v) == \A i \in DOMAIN s : \A r \in DOMAIN t : t[r] = s[i] => v[r] = w[i]

\* What is made of a list item by item is rearranged with it.
LEMMA MappedRearranged ==
    ASSUME NEW T, NEW s \in Seq(T), NEW t, Rearranged(s, t),
           NEW w, w = [i \in DOMAIN s |-> w[i]], NEW v, v = [i \in DOMAIN t |-> v[i]],
           MadeAlike(s, w, t, v)
    PROVE  Rearranged(w, v)
<1>1. PICK p : Permutation(p, DOMAIN s) /\ t = [r \in DOMAIN s |-> s[p[r]]]
  BY DEF Rearranged
<1>2. DOMAIN t = DOMAIN s /\ DOMAIN w = DOMAIN s /\ DOMAIN v = DOMAIN s
  BY <1>1
<1>3. \A r \in DOMAIN s : p[r] \in DOMAIN s /\ t[r] = s[p[r]]
  BY <1>1 DEF Permutation
<1>4. \A r \in DOMAIN s : v[r] = w[p[r]]
  BY <1>2, <1>3 DEF MadeAlike
<1>5. v = [r \in DOMAIN w |-> w[p[r]]]
  BY <1>2, <1>4
<1> QED BY <1>1, <1>2, <1>5 DEF Rearranged

LEMMA RearrangedRepeats ==
    ASSUME NEW T, NEW s \in Seq(T), NEW t, Rearranged(s, t)
    PROVE  Repeats(t) = Repeats(s)
<1>1. ToSet(t) = ToSet(s) /\ Len(t) = Len(s)
  BY RearrangedSet, RearrangedItems
<1> QED BY <1>1 DEF Repeats

Different(K, D) == \A i, j \in D : K[i] = K[j] => i = j

\* The keys K2 are the keys K, taken in the order q.
Follow(K2, K, q, D) == \A i \in D : K2[i] = K[q[i]]

\* With different keys the rank of an item does not depend on its place.
LEMMA RanksFollow ==
    ASSUME NEW n \in Nat, NEW K, DOMAIN K = 1..n, Different(K, 1..n), NEW q, Permutation(q, 1..n),
           NEW K2, DOMAIN K2 = 1..n, Follow(K2, K, q, 1..n),
           NEW j \in 1..n
    PROVE  RankOf(K2, j) = RankOf(K, q[j])
<1> DEFINE A == {i \in 1..n : Less(K2[i], K2[j])}
           B == {i \in 1..n : Less(K[i], K[q[j]])}
           f == [i \in A |-> q[i]]
<1>1. /\ \A i \in 1..n : q[i] \in 1..n
      /\ \A r, u \in 1..n : q[r] = q[u] => r = u
      /\ \A i \in 1..n : \E r \in 1..n : q[r] = i
      /\ \A i, r \in 1..n : K[i] = K[r] => i = r
      /\ \A i \in 1..n : K2[i] = K[q[i]]
  BY DEF Permutation, Different, Follow
<1>2. RankOf(K2, j) = Cardinality(A)
  <2>1. ASSUME NEW i \in 1..n, K2[i] = K2[j] PROVE i = j
    <3>1. K2[i] = K[q[i]] /\ K2[j] = K[q[j]] /\ q[i] \in 1..n /\ q[j] \in 1..n
      BY <1>1
    <3>2. K[q[i]] = K[q[j]]
      BY <2>1, <3>1
    <3>3. q[i] = q[j]
      BY <3>1, <3>2, Zenon DEF Different
    <3> QED BY <1>1, <3>3
  <2>2. \A i \in 1..n : ~ (K2[i] = K2[j] /\ i < j)
    BY <2>1
  <2> QED BY <2>2 DEF RankOf
<1>3. RankOf(K, q[j]) = Cardinality(B)
  <2>1. \A i \in 1..n : ~ (K[i] = K[q[j]] /\ i < q[j])
    BY <1>1
  <2> QED BY <2>1 DEF RankOf
<1>4. f \in Bijection(A, B)
  <2>1. \A i \in A : q[i] \in B
    BY <1>1
  <2>2. \A x \in B : \E i \in A : q[i] = x
    BY <1>1
  <2>3. \A i, k \in A : q[i] = q[k] => i = k
    BY <1>1
  <2> HIDE DEF A, B
  <2>4. f \in [A -> B] /\ (\A x \in B : \E i \in A : f[i] = x) /\ \A i, k \in A : f[i] = f[k] => i = k
    BY <2>1, <2>2, <2>3
  <2> HIDE DEF f
  <2> QED BY <2>4 DEF Bijection, Injection, Surjection, IsInjective
<1>5. IsFiniteSet(A)
  <2>1. IsFiniteSet(1..n)
    BY FS_Interval
  <2> QED BY <2>1, FS_Subset
<1>6. ExistsBijection(A, B)
  BY <1>4 DEF ExistsBijection
<1> HIDE DEF A, B
<1>7. Cardinality(A) = Cardinality(B)
  BY <1>5, <1>6, FS_Bijection
<1> QED BY <1>2, <1>3, <1>7

\* Keys to sort s by, no two of them the same.
Keyed(K, s) == K \in [DOMAIN s -> Seq(Int)] /\ Different(K, DOMAIN s)

\* Sorting by different keys forgets the order.
LEMMA SortedUnique ==
    ASSUME NEW T, NEW s \in Seq(T), NEW K, Keyed(K, s), NEW s2, Rearranged(s, s2),
           NEW K2, K2 = [i \in DOMAIN s2 |-> K2[i]], MadeAlike(s, K, s2, K2),
           NEW t, RankSorted(K, s, t), NEW t2, RankSorted(K2, s2, t2)
    PROVE  t2 = t
<1> DEFINE n == Len(s)
           U == Seq(Int)
<1>1. n \in Nat /\ DOMAIN s = 1..n /\ K \in [1..n -> U] /\ Different(K, DOMAIN s)
  BY DEF Keyed
<1>2. PICK q : Permutation(q, DOMAIN s) /\ s2 = [r \in DOMAIN s |-> s[q[r]]]
  BY DEF Rearranged
<1> HIDE DEF n, U
<1>3. DOMAIN s2 = DOMAIN s /\ \A r \in DOMAIN s : q[r] \in DOMAIN s /\ s2[r] = s[q[r]]
  BY <1>2 DEF Permutation
<1>4. \A r \in DOMAIN s : K2[r] = K[q[r]]
  BY <1>3 DEF MadeAlike
<1>5. Permutation(q, 1..n) /\ Different(K, 1..n) /\ Follow(K2, K, q, 1..n)
  BY <1>1, <1>2, <1>4 DEF Follow
<1>6. K2 \in [1..n -> U]
  <2>1. ASSUME NEW r \in DOMAIN s PROVE K2[r] \in U
    BY <1>1, <1>3, <1>4
  <2>2. K2 = [r \in DOMAIN s |-> K2[r]]
    BY <1>3
  <2> QED BY <1>1, <2>1, <2>2
<1>7. ASSUME NEW j \in 1..n PROVE RankOf(K2, j) = RankOf(K, q[j])
  <2>1. DOMAIN K = 1..n /\ DOMAIN K2 = 1..n
    BY <1>1, <1>6
  <2> QED BY <1>1, <1>5, <2>1, RanksFollow
<1>8. \A i, j \in 1..n : RankOf(K, i) = RankOf(K, j) => i = j
  BY <1>1, Ranks DEF U
<1>9. PICK p : /\ p \in [DOMAIN s -> DOMAIN s] /\ (\A r \in DOMAIN s : RankOf(K, p[r]) = r - 1)
               /\ t = [r \in DOMAIN s |-> s[p[r]]]
  BY DEF RankSorted
<1>10. PICK p2 : /\ p2 \in [DOMAIN s2 -> DOMAIN s2]
                 /\ (\A r \in DOMAIN s2 : RankOf(K2, p2[r]) = r - 1)
                 /\ t2 = [r \in DOMAIN s2 |-> s2[p2[r]]]
  BY DEF RankSorted
<1>11. ASSUME NEW r \in DOMAIN s PROVE t2[r] = t[r]
  <2>1. p2[r] \in 1..n /\ RankOf(K2, p2[r]) = r - 1 /\ p[r] \in 1..n /\ RankOf(K, p[r]) = r - 1
    BY <1>1, <1>3, <1>9, <1>10
  <2>2. q[p2[r]] \in 1..n /\ RankOf(K, q[p2[r]]) = r - 1
    BY <1>1, <1>3, <1>7, <2>1
  <2>3. q[p2[r]] = p[r]
    BY <1>8, <2>1, <2>2
  <2>4. t2[r] = s2[p2[r]] /\ t[r] = s[p[r]]
    BY <1>3, <1>9, <1>10
  <2> QED BY <1>1, <1>3, <2>1, <2>3, <2>4
<1>12. t = [r \in DOMAIN s |-> t[r]] /\ t2 = [r \in DOMAIN s |-> t2[r]]
  BY <1>3, <1>9, <1>10
<1> QED BY <1>11, <1>12

LEMMA RepeatsAlike ==
    ASSUME NEW n \in Nat, NEW w, w = [i \in 1..n |-> w[i]], NEW v, v = [i \in 1..n |-> v[i]],
           ToSet(v) = ToSet(w)
    PROVE  Repeats(v) = Repeats(w)
<1>1. /\ DOMAIN w = 1..n /\ \A i \in 1..n : w[i] \in ToSet(w)
      /\ DOMAIN v = 1..n /\ \A i \in 1..n : v[i] \in ToSet(w)
  BY DEF ToSet
<1>2. w \in [1..n -> ToSet(w)] /\ v \in [1..n -> ToSet(w)]
  BY <1>1
<1>3. Len(w) = n /\ Len(v) = n
  BY <1>2
<1> QED BY <1>3 DEF Repeats

LEMMA MappedAlike ==
    ASSUME NEW n \in Nat, NEW s, DOMAIN s = 1..n, NEW t, DOMAIN t = 1..n, ToSet(t) = ToSet(s),
           NEW w, w = [i \in 1..n |-> w[i]], NEW v, v = [i \in 1..n |-> v[i]], MadeAlike(s, w, t, v)
    PROVE  Repeats(v) = Repeats(w)
<1>1. DOMAIN w = 1..n /\ DOMAIN v = 1..n
  OBVIOUS
<1>2. \A i \in 1..n : \A r \in 1..n : t[r] = s[i] => v[r] = w[i]
  BY DEF MadeAlike
<1>3. ASSUME NEW y \in ToSet(w) PROVE y \in ToSet(v)
  <2>1. PICK i \in 1..n : y = w[i]
    BY <1>1 DEF ToSet
  <2>2. s[i] \in ToSet(t)
    BY DEF ToSet
  <2>3. PICK r \in 1..n : t[r] = s[i]
    BY <2>2 DEF ToSet
  <2>4. y = v[r]
    BY <1>2, <2>1, <2>3
  <2> QED BY <1>1, <2>4 DEF ToSet
<1>4. ASSUME NEW y \in ToSet(v) PROVE y \in ToSet(w)
  <2>1. PICK r \in 1..n : y = v[r]
    BY <1>1 DEF ToSet
  <2>2. t[r] \in ToSet(s)
    BY DEF ToSet
  <2>3. PICK i \in 1..n : t[r] = s[i]
    BY <2>2 DEF ToSet
  <2>4. y = w[i]
    BY <1>2, <2>1, <2>3
  <2> QED BY <1>1, <2>4 DEF ToSet
<1>5. ToSet(v) = ToSet(w)
  BY <1>3, <1>4
<1> QED BY <1>5, RepeatsAlike

LEMMA InversePermutation ==
    ASSUME NEW D, NEW p, Permutation(p, D)
    PROVE  \E q : Permutation(q, D) /\ \A j \in D : p[q[j]] = j
<1> DEFINE q == [j \in D |-> CHOOSE r \in D : p[r] = j]
<1>1. \A j \in D : q[j] \in D /\ p[q[j]] = j
  BY DEF Permutation
<1>2. q = [j \in D |-> q[j]]
  OBVIOUS
<1> HIDE DEF q
<1>3. \A r \in D : p[r] \in D /\ q[p[r]] = r
  BY <1>1 DEF Permutation
<1>4. q \in [D -> D]
  BY <1>1, <1>2
<1>5. Permutation(q, D)
  BY <1>1, <1>3, <1>4 DEF Permutation
<1> QED BY <1>1, <1>5

LEMMA SameTuplesSorted ==
    ASSUME NEW s \in Seq(Seq(Int)), NEW t \in Seq(Seq(Int)), Rearranged(s, t),
           \A i, j \in DOMAIN s : s[i] = s[j] => i = j
    PROVE  sortBy(t, LAMBDA k : k) = sortBy(s, LAMBDA k : k)
<1> DEFINE K == [i \in DOMAIN s |-> s[i]]
           L == [i \in DOMAIN t |-> t[i]]
           u == sortBy(s, LAMBDA k : k)
           v == sortBy(t, LAMBDA k : k)
<1>1. RankSorted(K, s, u)
  BY SortedKeysFact
<1>2. RankSorted(L, t, v)
  BY SortedKeysFact
<1>3. Keyed(K, s)
  BY DEF Keyed, Different
<1>4. L = [i \in DOMAIN t |-> L[i]] /\ MadeAlike(s, K, t, L)
  BY DEF MadeAlike
<1> DEFINE Shorts == Seq(Int)
<1>5. s \in Seq(Shorts) /\ Rearranged(s, t)
  OBVIOUS
<1> HIDE DEF K, L, u, v, Shorts
<1>6. v = u
  BY ONLY <1>1, <1>2, <1>3, <1>4, <1>5, SortedUnique
<1> QED BY <1>6 DEF u, v

JsonList(a, x, c, u) == a \o <<-1, x>> \o c \o <<-1, u>>

\* Where the parts of such a list are.
JsonLaid(L, a, x, c) ==
    /\ Len(L) = Len(a) + 2 + Len(c) + 2 /\ L[Len(a) + 1] = -1 /\ L[Len(a) + 2] = x
    /\ \A i \in 1..Len(a) : L[i] = a[i]
    /\ \A i \in 1..Len(c) : L[Len(a) + 2 + i] = c[i]

LEMMA JsonParts ==
    ASSUME NEW a \in Seq(Int), NEW c \in Seq(Int), NEW x \in Int, NEW u \in Int
    PROVE  JsonLaid(JsonList(a, x, c, u), a, x, c)
<1> DEFINE m == Len(a)
           n == Len(c)
           v == a \o <<-1, x>>
           w == v \o c
           L == w \o <<-1, u>>
<1>1. m \in Nat /\ n \in Nat
  OBVIOUS
<1>2. /\ v \in Seq(Int) /\ Len(v) = m + 2 /\ v[m + 1] = -1 /\ v[m + 2] = x
      /\ \A i \in 1..m : v[i] = a[i]
  OBVIOUS
<1> HIDE DEF v
<1>3. /\ w \in Seq(Int) /\ Len(w) = m + 2 + n
      /\ \A i \in 1..(m + 2) : w[i] = v[i]
      /\ \A i \in 1..n : w[m + 2 + i] = c[i]
  <2>1. /\ v \o c \in Seq(Int) /\ Len(v \o c) = Len(v) + Len(c)
        /\ \A k \in 1..Len(v) : (v \o c)[k] = v[k]
        /\ \A k \in 1..Len(c) : (v \o c)[Len(v) + k] = c[k]
    <3> DEFINE Z == Int
    <3>1. v \in Seq(Z) /\ c \in Seq(Z)
      BY <1>2
    <3> HIDE DEF Z
    <3>2. /\ v \o c \in Seq(Z) /\ Len(v \o c) = Len(v) + Len(c)
          /\ \A k \in 1..Len(v) : (v \o c)[k] = v[k]
          /\ \A k \in 1..Len(c) : (v \o c)[Len(v) + k] = c[k]
      BY ONLY <3>1, ConcatParts
    <3> QED BY <3>2 DEF Z
  <2> QED BY <1>2, <2>1
<1> HIDE DEF w
<1>4. Len(L) = m + 2 + n + 2 /\ \A i \in 1..(m + 2 + n) : L[i] = w[i]
  <2> DEFINE e == <<-1, u>>
             Z == Int
  <2>0. Len(e) = 2
    OBVIOUS
  <2>1. w \in Seq(Z) /\ e \in Seq(Z)
    BY <1>3
  <2> HIDE DEF e, Z
  <2>2. /\ w \o e \in Seq(Z) /\ Len(w \o e) = Len(w) + Len(e)
        /\ \A k \in 1..Len(w) : (w \o e)[k] = w[k]
        /\ \A k \in 1..Len(e) : (w \o e)[Len(w) + k] = e[k]
    BY ONLY <2>1, ConcatParts
  <2>3. Len(w \o e) = m + 2 + n + 2 /\ \A k \in 1..(m + 2 + n) : (w \o e)[k] = w[k]
    BY <1>1, <1>3, <2>0, <2>2
  <2> QED BY <2>3 DEF e
<1>5. JsonList(a, x, c, u) = L
  BY DEF JsonList, v, w
<1> HIDE DEF L, m, n
<1>6. L[m + 1] = -1 /\ L[m + 2] = x /\ \A i \in 1..m : L[i] = a[i]
  <2>1. /\ m + 1 \in 1..(m + 2) /\ m + 2 \in 1..(m + 2) /\ 1..m \subseteq 1..(m + 2)
        /\ 1..(m + 2) \subseteq 1..(m + 2 + n)
    BY <1>1
  <2> QED BY <1>2, <1>3, <1>4, <2>1
<1>7. \A i \in 1..n : L[m + 2 + i] = c[i]
  <2>1. \A i \in 1..n : m + 2 + i \in 1..(m + 2 + n)
    BY <1>1
  <2> QED BY <1>3, <1>4, <2>1
<1> QED BY <1>4, <1>5, <1>6, <1>7 DEF JsonLaid, m, n

\* What the JSON of a foreign key holds before its separators can be read off it.
LEMMA Separated ==
    ASSUME NEW a \in Seq(Int), NEW b \in Seq(Int), NEW c \in Seq(Int), NEW d \in Seq(Int),
           NEW x \in Int, NEW y \in Int, NEW u \in Int, NEW v \in Int,
           NeverNegative(a), NeverNegative(b), JsonList(a, x, c, u) = JsonList(b, y, d, v)
    PROVE  a = b /\ x = y /\ c = d
<1> DEFINE m == Len(a)
           n == Len(b)
           k == Len(c)
           l == Len(d)
           L == JsonList(a, x, c, u)
           R == JsonList(b, y, d, v)
<1>1. m \in Nat /\ n \in Nat /\ k \in Nat /\ l \in Nat
  OBVIOUS
<1>2. /\ Len(L) = m + 2 + k + 2 /\ L[m + 1] = -1 /\ L[m + 2] = x
      /\ \A i \in 1..m : L[i] = a[i]
      /\ \A i \in 1..k : L[m + 2 + i] = c[i]
  <2>1. JsonLaid(L, a, x, c)
    BY JsonParts
  <2> HIDE DEF L, R
  <2> QED BY <2>1 DEF JsonLaid
<1>3. /\ Len(R) = n + 2 + l + 2 /\ R[n + 1] = -1 /\ R[n + 2] = y
      /\ \A i \in 1..n : R[i] = b[i]
      /\ \A i \in 1..l : R[n + 2 + i] = d[i]
  <2>1. JsonLaid(R, b, y, d)
    BY JsonParts
  <2> HIDE DEF L, R
  <2> QED BY <2>1 DEF JsonLaid
<1>4. L = R
  OBVIOUS
<1>5. \A i \in 1..m : a[i] >= 0
  BY DEF NeverNegative
<1>6. \A i \in 1..n : b[i] >= 0
  BY DEF NeverNegative
<1>7. a = [i \in 1..m |-> a[i]] /\ b = [i \in 1..n |-> b[i]] /\ c = [i \in 1..k |-> c[i]] /\ d = [i \in 1..l |-> d[i]]
  OBVIOUS
<1> HIDE DEF m, n, k, l, L, R
<1>8. ~ (m < n)
  <2> SUFFICES ASSUME m < n PROVE FALSE
    OBVIOUS
  <2>1. m + 1 \in 1..n
    BY <1>1
  <2>2. R[m + 1] = b[m + 1] /\ b[m + 1] >= 0
    BY <1>3, <1>6, <2>1
  <2> QED BY <1>2, <1>4, <2>2
<1>9. ~ (n < m)
  <2> SUFFICES ASSUME n < m PROVE FALSE
    OBVIOUS
  <2>1. n + 1 \in 1..m
    BY <1>1
  <2>2. L[n + 1] = a[n + 1] /\ a[n + 1] >= 0
    BY <1>2, <1>5, <2>1
  <2> QED BY <1>3, <1>4, <2>2
<1>10. m = n
  BY <1>1, <1>8, <1>9
<1>11. k = l
  BY <1>1, <1>2, <1>3, <1>4, <1>10
<1>12. \A i \in 1..m : a[i] = b[i]
  BY <1>2, <1>3, <1>4, <1>10
<1>13. \A i \in 1..k : c[i] = d[i]
  BY <1>2, <1>3, <1>4, <1>10, <1>11
<1>14. x = y
  BY <1>2, <1>3, <1>4, <1>10
<1> QED BY <1>7, <1>10, <1>11, <1>12, <1>13, <1>14

-----------------------------------------------------------------------------
(* The list of statements of emit.js: schemas, then tables, then foreign   *)
(* keys.                                                                   *)

LEMMA SetToSeqFacts ==
    ASSUME NEW S, IsFiniteSet(S), NEW T, S \subseteq T
    PROVE  /\ SetToSeq(S) \in Seq(T)
           /\ \A i, j \in DOMAIN SetToSeq(S) : SetToSeq(S)[i] = SetToSeq(S)[j] => i = j
           /\ \A x : x \in S <=> \E i \in DOMAIN SetToSeq(S) : SetToSeq(S)[i] = x
<1> DEFINE n == Cardinality(S)
           q == SetToSeq(S)
<1>1. n \in Nat /\ \E f \in [1..n -> S] : IsInjective(f)
  BY FS_CardinalityType DEF ExistsBijection, Bijection, Injection, IsInjective
<1>2. q \in [1..n -> S] /\ IsInjective(q)
  BY <1>1 DEF SetToSeq
<1> HIDE DEF q
<1>3. IsFiniteSet(1..n) /\ Cardinality(1..n) = n
  BY <1>1, FS_Interval
<1>4. q \in Injection(1..n, S)
  BY <1>2 DEF Injection
<1>5. q \in Surjection(1..n, S)
  BY <1>3, <1>4, FS_Injection
<1> HIDE DEF n
<1>6. q \in Seq(T) /\ DOMAIN q = 1..n
  BY <1>1, <1>2
<1>7. \A i, j \in DOMAIN q : q[i] = q[j] => i = j
  BY <1>2 DEF IsInjective
<1>8. \A x : x \in S <=> \E i \in DOMAIN q : q[i] = x
  BY <1>2, <1>5, <1>6 DEF Surjection
<1> QED BY <1>6, <1>7, <1>8 DEF q

ForeignStatement(d, m, key) ==
    LET target == ModelOf(d, key.model).storage
    IN  AddForeignKey(m.storage.schema, m.storage.table, ForeignName(d, m.storage, key),
                      columns(m.storage, key.fields), target.schema, target.table,
                      columns(target, key.refFields), key.onDelete)

\* Where the statements of d are in E: one for each of the schemas, then one for each of the
\* models, then, from place off[i] on, one for each of the foreign keys of the i-th model.
Layout(d, E, schemas, models, keys, off) ==
    LET a == Len(schemas)
        b == Len(schemas) + Len(models)
    IN  /\ Rearranged(Stored(d), models)
        /\ schemas \in Seq(Int) /\ \A i, j \in DOMAIN schemas : schemas[i] = schemas[j] => i = j
        /\ ToSet(schemas) = {m.storage.schema : m \in ToSet(models)} \ {PublicSchema}
        /\ \A i \in DOMAIN models : Rearranged(models[i].storage.foreignKeys, keys[i])
        /\ off \in [DOMAIN models -> Nat]
        /\ Len(E) \in Nat /\ DOMAIN E = 1..Len(E)
        /\ \A i \in DOMAIN schemas : i \in DOMAIN E /\ E[i] = CreateSchema(schemas[i])
        /\ \A i \in DOMAIN models : a + i \in DOMAIN E /\ E[a + i] = TableStatement(models[i])
        /\ \A i \in DOMAIN models : \A j \in DOMAIN keys[i] :
              /\ b + off[i] + j \in DOMAIN E
              /\ E[b + off[i] + j] = ForeignStatement(d, models[i], keys[i][j])
        /\ \A k \in DOMAIN E :
              \/ k \in DOMAIN schemas
              \/ \E i \in DOMAIN models : k = a + i
              \/ \E i \in DOMAIN models : \E j \in DOMAIN keys[i] : k = b + off[i] + j

\* Three lists one after the other, the third of them a concatenation.
ThreePlaces(E, A, B, ss, off) ==
    LET n == Len(A)
        b == Len(A) + Len(B)
    IN  /\ off \in Offsets(ss)
        /\ Len(E) \in Nat /\ DOMAIN E = 1..Len(E)
        /\ \A i \in DOMAIN A : i \in DOMAIN E /\ E[i] = A[i]
        /\ \A i \in DOMAIN B : n + i \in DOMAIN E /\ E[n + i] = B[i]
        /\ \A i \in DOMAIN ss : \A j \in DOMAIN ss[i] :
              b + off[i] + j \in DOMAIN E /\ E[b + off[i] + j] = ss[i][j]
        /\ \A k \in DOMAIN E :
              \/ k \in DOMAIN A
              \/ \E i \in DOMAIN B : k = n + i
              \/ \E i \in DOMAIN ss : \E j \in DOMAIN ss[i] : k = b + off[i] + j

LEMMA ThreeParts ==
    ASSUME NEW T, NEW A \in Seq(T), NEW B \in Seq(T), NEW ss \in Seq(Seq(T))
    PROVE  \E off : ThreePlaces(A \o B \o FlattenSeq(ss), A, B, ss, off)
<1> DEFINE C == FlattenSeq(ss)
           AB == A \o B
           E == AB \o C
           a == Len(A)
           b == Len(A) + Len(B)
<1>1. PICK off \in Offsets(ss) :
         /\ \A i \in DOMAIN ss : \A j \in DOMAIN ss[i] :
               off[i] + j \in DOMAIN C /\ C[off[i] + j] = ss[i][j]
         /\ \A k \in DOMAIN C : \E i \in DOMAIN ss : \E j \in DOMAIN ss[i] : k = off[i] + j
  BY FlattenFacts
<1>2. C \in Seq(T)
  BY FlattenFacts
<1> HIDE DEF C
<1>3. DOMAIN A = 1..Len(A) /\ DOMAIN B = 1..Len(B) /\ DOMAIN C = 1..Len(C) /\ Len(A) \in Nat /\ Len(B) \in Nat
  BY <1>2
<1>4. /\ AB \in Seq(T) /\ Len(AB) = b /\ DOMAIN AB = 1..b
      /\ \A k \in 1..Len(A) : k \in DOMAIN AB /\ AB[k] = A[k]
      /\ \A i \in 1..Len(B) : a + i \in DOMAIN AB /\ AB[a + i] = B[i]
      /\ \A k \in DOMAIN AB : k \in 1..Len(A) \/ \E i \in 1..Len(B) : k = a + i
  <2>1. AB \in Seq(T) /\ Len(AB) = b /\ DOMAIN AB = 1..b
    BY ConcatParts
  <2>2. /\ \A k \in 1..Len(A) : k \in DOMAIN AB /\ AB[k] = A[k]
        /\ \A i \in 1..Len(B) : a + i \in DOMAIN AB /\ AB[a + i] = B[i]
        /\ \A k \in DOMAIN AB : k \in 1..Len(A) \/ \E i \in 1..Len(B) : k = a + i
    BY ConcatParts
  <2> QED BY <2>1, <2>2
<1> HIDE DEF AB
<1>5. /\ E \in Seq(T)
      /\ \A k \in 1..Len(AB) : k \in DOMAIN E /\ E[k] = AB[k]
      /\ \A i \in 1..Len(C) : Len(AB) + i \in DOMAIN E /\ E[Len(AB) + i] = C[i]
      /\ \A k \in DOMAIN E : k \in 1..Len(AB) \/ \E i \in 1..Len(C) : k = Len(AB) + i
  <2>1. E \in Seq(T)
    BY <1>2, <1>4, ConcatParts
  <2>0. AB \in Seq(T)
    BY <1>4
  <2>2. \A k \in 1..Len(AB) : k \in DOMAIN E /\ E[k] = AB[k]
    BY <1>2, <2>0, ConcatParts
  <2>3. \A i \in 1..Len(C) : Len(AB) + i \in DOMAIN E /\ E[Len(AB) + i] = C[i]
    BY <1>2, <2>0, ConcatParts
  <2>4. \A k \in DOMAIN E : k \in 1..Len(AB) \/ \E i \in 1..Len(C) : k = Len(AB) + i
    BY <1>2, <2>0, ConcatParts
  <2> QED BY <2>1, <2>2, <2>3, <2>4
<1> HIDE DEF E
<1>6. Len(E) \in Nat /\ DOMAIN E = 1..Len(E)
  BY <1>5
<1>7. \A i \in DOMAIN A : i \in DOMAIN E /\ E[i] = A[i]
  BY <1>3, <1>4, <1>5
<1>8. \A i \in DOMAIN B : a + i \in DOMAIN E /\ E[a + i] = B[i]
  BY <1>3, <1>4, <1>5
<1>9. \A i \in DOMAIN ss : \A j \in DOMAIN ss[i] : off[i] \in Nat /\ j \in Nat
  BY DEF Offsets
<1> DEFINE place(i, j) == off[i] + j
<1>10. ASSUME NEW i \in DOMAIN ss, NEW j \in DOMAIN ss[i]
       PROVE  b + off[i] + j \in DOMAIN E /\ E[b + off[i] + j] = ss[i][j]
  <2>1. off[i] + j \in 1..Len(C) /\ C[off[i] + j] = ss[i][j]
    BY <1>1, <1>3
  <2>2. b + (off[i] + j) \in DOMAIN E /\ E[b + (off[i] + j)] = ss[i][j]
    BY <1>4, <1>5, <2>1
  <2> DEFINE u == off[i]
  <2>4. u \in Nat /\ j \in Nat /\ b \in Nat
    BY <1>3, <1>9
  <2>3. b + (u + j) = b + u + j
    <3> HIDE DEF b, u
    <3> QED BY <2>4
  <2> HIDE DEF b
  <2> QED BY <2>2, <2>3 DEF u
<1>11. ASSUME NEW k \in DOMAIN E
       PROVE  \/ k \in DOMAIN A
              \/ \E i \in DOMAIN B : k = a + i
              \/ \E i \in DOMAIN ss : \E j \in DOMAIN ss[i] : k = b + off[i] + j
  <2>1. CASE k \in 1..Len(AB)
    BY <1>3, <1>4, <2>1
  <2>2. CASE \E c \in 1..Len(C) : k = Len(AB) + c
    <3>1. PICK c \in 1..Len(C) : k = b + c
      BY <1>4, <2>2
    <3>2. PICK i \in DOMAIN ss : \E j \in DOMAIN ss[i] : c = off[i] + j
      BY <1>1, <1>3
    <3>3. PICK j \in DOMAIN ss[i] : c = off[i] + j
      BY <3>2
    <3>4. k = b + off[i] + j
      BY <1>3, <1>9, <3>1, <3>3
    <3> QED BY <3>4
  <2> QED BY <1>5, <2>1, <2>2
<1>12. ThreePlaces(E, A, B, ss, off)
  BY <1>1, <1>6, <1>7, <1>8, <1>10, <1>11 DEF ThreePlaces
<1> QED BY <1>12 DEF E, AB, C

\* The statements of a document whose shape is right are laid out as lists of its parts.
LEMMA Emitted ==
    ASSUME NEW d \in Documents, documentShape(d) = <<>>
    PROVE  \E schemas, models, keys, off : Layout(d, emitPostgres(d), schemas, models, keys, off)
<1> DEFINE models == sortBy(Stored(d), LAMBDA m : <<m.storage.schema, m.storage.table>>)
           S == {m.storage.schema : m \in ToSet(models)} \ {PublicSchema}
           q == SetToSeq(S)
           schemas == sortBy(q, LAMBDA x : <<x>>)
           keysOf(m) == sortBy(m.storage.foreignKeys, Rank)
           keys == [i \in DOMAIN models |-> keysOf(models[i])]
           A == [i \in DOMAIN schemas |-> CreateSchema(schemas[i])]
           B == [i \in DOMAIN models |-> TableStatement(models[i])]
           ss == [i \in DOMAIN models |-> ForeignStatements(d, models[i])]
           E == emitPostgres(d)
           T == {CreateSchema(x) : x \in Int} \cup {TableStatement(m) : m \in Models}
                  \cup {ForeignStatement(d, x[1], x[2]) : x \in Models \X Foreigns}
<1>1. E = A \o B \o FlattenSeq(ss)
  BY DEF emitPostgres, Map, Each
<1>2. Rearranged(Stored(d), models)
  BY StoredItems, SortedModels
<1>3. /\ models \in Seq(Models)
      /\ \A i \in DOMAIN models : models[i] \in Models /\ StorageShape(models[i].storage)
  <2> HIDE DEF models
  <2>1. /\ Stored(d) \in Seq(Models)
        /\ \A m \in ToSet(Stored(d)) : \E i \in DOMAIN d.models : d.models[i] = m /\ m.stored
    BY StoredItems
  <2>2. models \in Seq(Models) /\ \A r \in DOMAIN models : \E i \in DOMAIN Stored(d) : models[r] = Stored(d)[i]
    BY <1>2, <2>1, RearrangedItems
  <2>3. \A r \in DOMAIN models : models[r] \in ToSet(Stored(d))
    BY <2>2 DEF ToSet
  <2>4. \A m \in ToSet(Stored(d)) : StorageShape(m.storage)
    BY <2>1, DocumentShapeReport
  <2> QED BY <2>2, <2>3, <2>4
<1> HIDE DEF models
<1>4. S \subseteq Int /\ IsFiniteSet(S)
  <2> DEFINE f == [i \in DOMAIN models |-> models[i].storage.schema]
             R == {m.storage.schema : m \in ToSet(models)}
  <2>1. IsFiniteSet(DOMAIN models)
    BY <1>3, FS_Interval
  <2>2. f \in Surjection(DOMAIN models, R)
    BY DEF Surjection, ToSet
  <2>3. IsFiniteSet(R)
    BY <2>1, <2>2, FS_Surjection
  <2>4. IsFiniteSet(S)
    BY <2>3, FS_Subset
  <2>5. \A m \in ToSet(models) : m.storage.schema \in Int
    <3>1. \A m \in Models : m.storage.schema \in Int
      BY DEF Models, Storages
    <3> QED BY <1>3, <3>1 DEF ToSet
  <2> QED BY <2>4, <2>5
<1> HIDE DEF S
<1>5. /\ q \in Seq(Int) /\ \A i, j \in DOMAIN q : q[i] = q[j] => i = j
      /\ \A x : x \in S <=> \E i \in DOMAIN q : q[i] = x
  BY <1>4, SetToSeqFacts
<1> HIDE DEF q
<1>6. /\ schemas \in Seq(Int) /\ \A i, j \in DOMAIN schemas : schemas[i] = schemas[j] => i = j
      /\ ToSet(schemas) = S
  <2>1. Rearranged(q, schemas)
    BY <1>5, SortedSchemas
  <2> HIDE DEF schemas
  <2>2. /\ schemas \in Seq(Int)
        /\ \A r \in DOMAIN schemas : \E i \in DOMAIN q : schemas[r] = q[i]
        /\ \A i \in DOMAIN q : \E r \in DOMAIN schemas : schemas[r] = q[i]
    BY <1>5, <2>1, RearrangedItems
  <2>4. \A i, j \in DOMAIN schemas : schemas[i] = schemas[j] => i = j
    BY <1>5, <2>1, RearrangedItems
  <2>3. \A x : x \in S <=> \E r \in DOMAIN schemas : schemas[r] = x
    <3>1. ASSUME NEW x \in S PROVE \E r \in DOMAIN schemas : schemas[r] = x
      <4>1. PICK i \in DOMAIN q : q[i] = x
        BY <1>5
      <4> QED BY <2>2, <4>1
    <3>2. ASSUME NEW r \in DOMAIN schemas PROVE schemas[r] \in S
      <4>1. PICK i \in DOMAIN q : schemas[r] = q[i]
        BY <2>2
      <4> QED BY <1>5, <4>1
    <3> QED BY <3>1, <3>2
  <2> QED BY <1>5, <2>2, <2>3, <2>4 DEF ToSet
<1> HIDE DEF schemas
<1>7. ASSUME NEW m \in Models, StorageShape(m.storage)
      PROVE  /\ Rearranged(m.storage.foreignKeys, keysOf(m)) /\ keysOf(m) \in Seq(Foreigns)
             /\ ForeignStatements(d, m) = [j \in DOMAIN keysOf(m) |-> ForeignStatement(d, m, keysOf(m)[j])]
  <2>1. m.storage.foreignKeys \in Seq(Foreigns)
    BY DEF Models, Storages
  <2>2. \A i \in DOMAIN m.storage.foreignKeys : m.storage.foreignKeys[i].onDelete \in DeleteActions
    BY <1>7 DEF StorageShape
  <2>3. Rearranged(m.storage.foreignKeys, keysOf(m))
    <3> DEFINE u == m.storage.foreignKeys
    <3>1. u \in Seq(Foreigns) /\ \A i \in DOMAIN u : u[i].onDelete \in DeleteActions
      BY <2>1, <2>2
    <3> HIDE DEF u
    <3>2. Rearranged(u, sortBy(u, Rank))
      BY <3>1, SortedForeign
    <3> QED BY <3>2 DEF u
  <2>4. keysOf(m) \in Seq(Foreigns)
    <3> HIDE DEF keysOf
    <3> QED BY <2>1, <2>3, RearrangedItems
  <2>5. ForeignStatements(d, m) = [j \in DOMAIN keysOf(m) |-> ForeignStatement(d, m, keysOf(m)[j])]
    BY DEF ForeignStatements, ForeignStatement, sortBy, Map, Rank
  <2> QED BY <2>3, <2>4, <2>5
<1> HIDE DEF keysOf
<1>8. A \in Seq(T) /\ DOMAIN A = DOMAIN schemas /\ Len(A) = Len(schemas)
  <2>1. A = [i \in DOMAIN schemas |-> A[i]] /\ \A i \in DOMAIN schemas : A[i] \in T
    <3>1. \A i \in DOMAIN schemas : schemas[i] \in Int
      BY <1>6
    <3> QED BY <3>1
  <2> HIDE DEF A, T
  <2> QED BY <1>6, <2>1, MappedLists
<1>9. B \in Seq(T) /\ DOMAIN B = DOMAIN models /\ Len(B) = Len(models)
  <2>1. B = [i \in DOMAIN models |-> B[i]] /\ \A i \in DOMAIN models : B[i] \in T
    BY <1>3
  <2> HIDE DEF B, T
  <2> QED BY <1>3, <2>1, MappedLists
<1>10. ASSUME NEW m \in Models, StorageShape(m.storage)
       PROVE  /\ ForeignStatements(d, m) \in Seq(T)
              /\ DOMAIN ForeignStatements(d, m) = DOMAIN keysOf(m)
              /\ \A j \in DOMAIN keysOf(m) : ForeignStatements(d, m)[j] = ForeignStatement(d, m, keysOf(m)[j])
  <2> DEFINE g == ForeignStatements(d, m)
             u == keysOf(m)
  <2>1. u \in Seq(Foreigns) /\ g = [j \in DOMAIN u |-> ForeignStatement(d, m, u[j])]
    BY <1>7, <1>10
  <2> HIDE DEF g, u
  <2>2. \A key \in Foreigns : ForeignStatement(d, m, key) \in T
    <3> SUFFICES ASSUME NEW key \in Foreigns
                 PROVE  \E x \in Models \X Foreigns : ForeignStatement(d, m, key) = ForeignStatement(d, x[1], x[2])
      OBVIOUS
    <3>1. <<m, key>> \in Models \X Foreigns /\ <<m, key>>[1] = m /\ <<m, key>>[2] = key
      OBVIOUS
    <3> QED BY <3>1
  <2>3. g = [j \in DOMAIN u |-> g[j]] /\ \A j \in DOMAIN u : g[j] \in T /\ g[j] = ForeignStatement(d, m, u[j])
    <3>1. \A j \in DOMAIN u : u[j] \in Foreigns
      BY <2>1
    <3> HIDE DEF T
    <3> QED BY <2>1, <2>2, <3>1
  <2> HIDE DEF T
  <2>4. g \in Seq(T) /\ DOMAIN g = DOMAIN u
    BY <2>1, <2>3, MappedLists
  <2> QED BY <2>3, <2>4 DEF g, u
<1>11. ss \in Seq(Seq(T)) /\ DOMAIN ss = DOMAIN models
  <2>1. ss = [i \in DOMAIN models |-> ss[i]] /\ \A i \in DOMAIN models : ss[i] \in Seq(T)
    <3> HIDE DEF T
    <3> QED BY <1>3, <1>10
  <2> HIDE DEF ss, T
  <2> QED BY <1>3, <2>1, MappedLists
<1> HIDE DEF A, B, E, T
<1>12. \A i \in DOMAIN models :
          /\ keys[i] = keysOf(models[i]) /\ Rearranged(models[i].storage.foreignKeys, keys[i])
          /\ DOMAIN ss[i] = DOMAIN keys[i]
          /\ \A j \in DOMAIN keys[i] : ss[i][j] = ForeignStatement(d, models[i], keys[i][j])
  BY <1>3, <1>7, <1>10
<1>13. /\ \A i \in DOMAIN schemas : A[i] = CreateSchema(schemas[i])
       /\ \A i \in DOMAIN models : B[i] = TableStatement(models[i])
  BY DEF A, B
<1> HIDE DEF ss, keys
<1> DEFINE a == Len(A)
           b == Len(A) + Len(B)
<1>14. PICK off \in Offsets(ss) :
         /\ Len(E) \in Nat /\ DOMAIN E = 1..Len(E)
         /\ \A i \in DOMAIN A : i \in DOMAIN E /\ E[i] = A[i]
         /\ \A i \in DOMAIN B : a + i \in DOMAIN E /\ E[a + i] = B[i]
         /\ \A i \in DOMAIN ss : \A j \in DOMAIN ss[i] :
               b + off[i] + j \in DOMAIN E /\ E[b + off[i] + j] = ss[i][j]
         /\ \A k \in DOMAIN E :
               \/ k \in DOMAIN A
               \/ \E i \in DOMAIN B : k = a + i
               \/ \E i \in DOMAIN ss : \E j \in DOMAIN ss[i] : k = b + off[i] + j
  <2>1. PICK off : ThreePlaces(A \o B \o FlattenSeq(ss), A, B, ss, off)
    BY <1>8, <1>9, <1>11, ThreeParts
  <2>2. ThreePlaces(E, A, B, ss, off)
    BY <1>1, <2>1
  <2> QED BY <2>2 DEF ThreePlaces
<1> DEFINE at == [i \in DOMAIN models |-> off[i]]
<1>15. at \in [DOMAIN models -> Nat] /\ \A i \in DOMAIN models : at[i] = off[i]
  <2>1. \A i \in DOMAIN ss : off[i] \in Nat
    BY <1>11, <1>14 DEF Offsets
  <2> QED BY <1>11, <2>1
<1> HIDE DEF at
<1>a. a = Len(schemas) /\ b = Len(schemas) + Len(models)
  BY <1>8, <1>9
<1> HIDE DEF a, b
<1>16. /\ Len(E) \in Nat /\ DOMAIN E = 1..Len(E)
       /\ \A i \in DOMAIN schemas : i \in DOMAIN E /\ E[i] = CreateSchema(schemas[i])
       /\ \A i \in DOMAIN models : a + i \in DOMAIN E /\ E[a + i] = TableStatement(models[i])
  BY <1>8, <1>9, <1>13, <1>14 DEF a
<1>17. \A i \in DOMAIN models : \A j \in DOMAIN keys[i] :
          /\ b + at[i] + j \in DOMAIN E
          /\ E[b + at[i] + j] = ForeignStatement(d, models[i], keys[i][j])
  <2> SUFFICES ASSUME NEW i \in DOMAIN models, NEW j \in DOMAIN keys[i]
               PROVE  /\ b + at[i] + j \in DOMAIN E
                      /\ E[b + at[i] + j] = ForeignStatement(d, models[i], keys[i][j])
    OBVIOUS
  <2>1. i \in DOMAIN ss /\ j \in DOMAIN ss[i] /\ at[i] = off[i]
    BY <1>11, <1>12, <1>15
  <2>2. b + off[i] + j \in DOMAIN E /\ E[b + off[i] + j] = ss[i][j]
    BY <1>14, <2>1 DEF b
  <2> QED BY <1>12, <2>1, <2>2
<1>18. \A k \in DOMAIN E :
          \/ k \in DOMAIN schemas
          \/ \E i \in DOMAIN models : k = a + i
          \/ \E i \in DOMAIN models : \E j \in DOMAIN keys[i] : k = b + at[i] + j
  <2> SUFFICES ASSUME NEW k \in DOMAIN E
               PROVE  \/ k \in DOMAIN schemas
                      \/ \E i \in DOMAIN models : k = a + i
                      \/ \E i \in DOMAIN models : \E j \in DOMAIN keys[i] : k = b + at[i] + j
    OBVIOUS
  <2>1. \/ k \in DOMAIN A
        \/ \E i \in DOMAIN B : k = a + i
        \/ \E i \in DOMAIN ss : \E j \in DOMAIN ss[i] : k = b + off[i] + j
    BY <1>14 DEF a, b
  <2>2. ASSUME NEW i \in DOMAIN ss, NEW j \in DOMAIN ss[i], k = b + off[i] + j
        PROVE  \E x \in DOMAIN models : \E y \in DOMAIN keys[x] : k = b + at[x] + y
    <3>1. i \in DOMAIN models /\ j \in DOMAIN keys[i] /\ k = b + at[i] + j
      BY <1>11, <1>12, <1>15, <2>2
    <3> QED BY <3>1
  <2> QED BY <1>8, <1>9, <2>1, <2>2
<1>19. Layout(d, E, schemas, models, keys, at)
  BY <1>2, <1>6, <1>12, <1>15, <1>a, <1>16, <1>17, <1>18 DEF Layout, S
<1> QED BY <1>19 DEF E

\* A list with an item put before it.
LEMMA Before ==
    ASSUME NEW T, NEW x \in T, NEW s \in Seq(T)
    PROVE  /\ <<x>> \o s \in Seq(T) /\ Len(s) \in Nat /\ DOMAIN (<<x>> \o s) = 1..(Len(s) + 1)
           /\ Len(<<x>> \o s) = Len(s) + 1
           /\ (<<x>> \o s)[1] = x
           /\ \A k \in DOMAIN (<<x>> \o s) : k = 1 \/ (k - 1 \in DOMAIN s /\ (<<x>> \o s)[k] = s[k - 1])
<1> DEFINE w == <<x>> \o s
           n == Len(s)
<1>1. n \in Nat /\ DOMAIN s = 1..n /\ <<x>> \in Seq(T) /\ Len(<<x>>) = 1 /\ <<x>>[1] = x
  OBVIOUS
<1>2. /\ w \in Seq(T) /\ Len(w) = Len(<<x>>) + n
      /\ \A k \in 1..(Len(<<x>>) + n) : w[k] = IF k <= Len(<<x>>) THEN <<x>>[k] ELSE s[k - Len(<<x>>)]
  BY <1>1, ConcatProperties
<1>3. w \in Seq(T) /\ Len(w) = n + 1 /\ \A k \in 1..(n + 1) : w[k] = IF k <= 1 THEN <<x>>[k] ELSE s[k - 1]
  BY <1>1, <1>2
<1>4. DOMAIN w = 1..(n + 1)
  BY <1>1, <1>3
<1> HIDE DEF w, n
<1>5. w[1] = x
  <2>1. 1 \in 1..(n + 1)
    BY <1>1
  <2> QED BY <1>1, <1>3, <2>1
<1>6. ASSUME NEW k \in 1..(n + 1), k # 1 PROVE k - 1 \in DOMAIN s /\ w[k] = s[k - 1]
  BY <1>1, <1>3, <1>6
<1> QED BY <1>1, <1>3, <1>4, <1>5, <1>6 DEF w, n

\* The key clauses of a table are its keys: the primary key, then the unique keys, sorted.
Clauses(sql, keys, g) ==
    /\ Permutation(g, DOMAIN KeysOf(sql)) /\ g[1] = 1
    /\ Len(keys) \in Nat /\ DOMAIN keys = 1..Len(keys) /\ DOMAIN keys = DOMAIN KeysOf(sql)
    /\ \A a \in DOMAIN keys : /\ keys[a].name = IndexNames(sql)[g[a]]
                              /\ keys[a].columns = columns(sql, KeysOf(sql)[g[a]])

IndexKinds(k) == IF k = 1 THEN "pk" ELSE "uk"

LEMMA IndexNamesType ==
    ASSUME NEW sql \in Storages
    PROVE  /\ DOMAIN IndexNames(sql) = DOMAIN KeysOf(sql)
           /\ \A k \in DOMAIN KeysOf(sql) :
                 IndexNames(sql)[k] = constraintName(sql, IndexKinds(k), KeysOf(sql)[k])
           /\ KeysOf(sql) \in Seq(Seq(Int)) /\ 1 \in DOMAIN KeysOf(sql)
           /\ \E N : IndexNames(sql) \in Seq(N)
<1> DEFINE u == sql.uniqueKeys
           pk == sql.primaryKey
           N == {constraintName(sql, "pk", k) : k \in Seq(Int)}
                  \cup {constraintName(sql, "uk", k) : k \in Seq(Int)}
           x == constraintName(sql, "pk", pk)
           s == [i \in DOMAIN u |-> constraintName(sql, "uk", u[i])]
<1>1. u \in Seq(Seq(Int)) /\ pk \in Seq(Int)
  BY DEF Storages
<1>2. KeysOf(sql) = <<pk>> \o u /\ IndexNames(sql) = <<x>> \o s
  BY DEF KeysOf, IndexNames, Map
<1> HIDE DEF u, pk
<1>3. x \in N /\ s = [i \in DOMAIN u |-> s[i]] /\ \A i \in DOMAIN u : s[i] \in N
  <2>1. \A i \in DOMAIN u : u[i] \in Seq(Int)
    BY <1>1
  <2> QED BY <1>1, <2>1
<1>4. \A i \in DOMAIN u : s[i] = constraintName(sql, "uk", u[i])
  OBVIOUS
<1>x. x = constraintName(sql, "pk", pk)
  OBVIOUS
<1> HIDE DEF x, s, N
<1>5. s \in Seq(N) /\ DOMAIN s = DOMAIN u /\ Len(s) = Len(u)
  BY <1>1, <1>3, MappedLists
<1> DEFINE K == <<pk>> \o u
           I == <<x>> \o s
<1>6. /\ K \in Seq(Seq(Int)) /\ Len(u) \in Nat /\ DOMAIN K = 1..(Len(u) + 1) /\ K[1] = pk
      /\ \A k \in DOMAIN K : k = 1 \/ (k - 1 \in DOMAIN u /\ K[k] = u[k - 1])
  <2> DEFINE T == Seq(Int)
  <2>1. u \in Seq(T) /\ pk \in T
    BY <1>1
  <2> HIDE DEF T
  <2>2. /\ K \in Seq(T) /\ Len(u) \in Nat /\ DOMAIN K = 1..(Len(u) + 1) /\ K[1] = pk
        /\ \A k \in DOMAIN K : k = 1 \/ (k - 1 \in DOMAIN u /\ K[k] = u[k - 1])
    BY <2>1, Before
  <2> QED BY <2>2 DEF T
<1>7. /\ I \in Seq(N) /\ DOMAIN I = 1..(Len(s) + 1) /\ I[1] = x
      /\ \A k \in DOMAIN I : k = 1 \/ (k - 1 \in DOMAIN s /\ I[k] = s[k - 1])
  BY <1>3, <1>5, Before
<1> HIDE DEF K, I
<1>8. \A k \in DOMAIN K : I[k] = constraintName(sql, IndexKinds(k), K[k])
  BY <1>x, <1>4, <1>5, <1>6, <1>7 DEF IndexKinds
<1>9. KeysOf(sql) = K /\ IndexNames(sql) = I
  BY <1>2 DEF K, I
<1>10. 1 \in DOMAIN K
  BY <1>6
<1> QED BY <1>5, <1>6, <1>7, <1>8, <1>9, <1>10

LEMMA ClausesExist ==
    ASSUME NEW m \in Models
    PROVE  \E g : Clauses(m.storage, TableStatement(m).keys, g)
<1> DEFINE sql == m.storage
           u == sql.uniqueKeys
           n == Len(u)
           K == KeysOf(sql)
           t == SortedKeys(sql)
           pk == KeyClause(sql, "pk", sql.primaryKey)
           s == [i \in DOMAIN t |-> KeyClause(sql, "uk", t[i])]
           C == {KeyClause(sql, "pk", k) : k \in Seq(Int)} \cup {KeyClause(sql, "uk", k) : k \in Seq(Int)}
           W == <<pk>> \o s
<1>1. sql \in Storages
  BY DEF Models
<1> HIDE DEF sql
<1>2. u \in Seq(Seq(Int)) /\ sql.primaryKey \in Seq(Int) /\ n \in Nat /\ DOMAIN u = 1..n
  BY <1>1 DEF Storages
<1>3. TableStatement(m).keys = W
  BY DEF TableStatement, CreateTable, Map, sql
<1>4. Rearranged(u, t)
  BY <1>2, SortedKeysFact DEF SortedKeys
<1>5. t \in Seq(Seq(Int)) /\ DOMAIN t = DOMAIN u /\ Len(t) = n
  <2> HIDE DEF t, u
  <2> QED BY <1>2, <1>4, RearrangedItems
<1>6. PICK p : Permutation(p, DOMAIN u) /\ t = [r \in DOMAIN u |-> u[p[r]]]
  BY <1>4 DEF Rearranged
<1> HIDE DEF t, u
<1>7. s \in Seq(C) /\ DOMAIN s = DOMAIN t /\ Len(s) = n /\ pk \in C
  <2>1. s = [i \in DOMAIN t |-> s[i]] /\ \A i \in DOMAIN t : s[i] \in C
    <3>1. \A i \in DOMAIN t : t[i] \in Seq(Int)
      BY <1>5
    <3> QED BY <3>1
  <2>2. pk \in C
    BY <1>2
  <2> HIDE DEF s, C
  <2> QED BY <1>5, <2>1, <2>2, MappedLists
<1>8. \A i \in DOMAIN t : s[i] = KeyClause(sql, "uk", t[i])
  OBVIOUS
<1>p. pk = KeyClause(sql, "pk", sql.primaryKey)
  OBVIOUS
<1> HIDE DEF s, C, pk, n
<1>9. /\ W \in Seq(C) /\ Len(W) = n + 1 /\ DOMAIN W = 1..(n + 1) /\ W[1] = pk
      /\ \A k \in DOMAIN W : k = 1 \/ (k - 1 \in DOMAIN s /\ W[k] = s[k - 1])
  BY <1>7, Before
<1>10. /\ DOMAIN K = 1..(n + 1) /\ K[1] = sql.primaryKey
       /\ \A k \in 1..n : k + 1 \in DOMAIN K /\ K[k + 1] = u[k]
  <2>1. /\ K \in Seq(Seq(Int)) /\ Len(K) = n + 1 /\ K[1] = sql.primaryKey
        /\ \A k \in DOMAIN u : K[k + 1] = u[k]
    BY <1>1, KeysType DEF n, u
  <2> HIDE DEF K
  <2>2. DOMAIN K = 1..(n + 1)
    BY <2>1
  <2>3. \A k \in 1..n : k + 1 \in 1..(n + 1) /\ k \in DOMAIN u
    BY <1>2
  <2> QED BY <2>1, <2>2, <2>3
<1>11. \A k \in DOMAIN K : IndexNames(sql)[k] = constraintName(sql, IndexKinds(k), K[k])
  BY <1>1, IndexNamesType
<1> HIDE DEF W, K
<1> DEFINE g == [a \in 1..(n + 1) |-> IF a = 1 THEN 1 ELSE p[a - 1] + 1]
<1>12. /\ \A r \in 1..n : p[r] \in 1..n /\ t[r] = u[p[r]]
       /\ \A r, q \in 1..n : p[r] = p[q] => r = q
       /\ \A j \in 1..n : \E r \in 1..n : p[r] = j
  BY <1>2, <1>6 DEF Permutation
<1>13. Permutation(g, 1..(n + 1)) /\ g[1] = 1
  <2>1. \A a \in 1..(n + 1) : a = 1 \/ (a - 1 \in 1..n /\ a # 1)
    BY <1>2
  <2>2. g \in [1..(n + 1) -> 1..(n + 1)] /\ g[1] = 1
    <3>1. ASSUME NEW a \in 1..(n + 1)
          PROVE  (IF a = 1 THEN 1 ELSE p[a - 1] + 1) \in 1..(n + 1)
      <4>1. a # 1 => p[a - 1] \in 1..n
        BY <1>12, <2>1
      <4> QED BY <1>2, <4>1
    <3>2. 1 \in 1..(n + 1)
      BY <1>2
    <3> QED BY <3>1, <3>2
  <2>3. ASSUME NEW a \in 1..(n + 1), NEW b \in 1..(n + 1), g[a] = g[b] PROVE a = b
    <3>1. CASE a = 1 /\ b = 1
      BY <3>1
    <3>2. CASE a # 1 /\ b = 1
      <4>1. a - 1 \in 1..n /\ p[a - 1] + 1 = 1 /\ p[a - 1] \in 1..n
        BY <1>12, <2>1, <2>3, <3>2
      <4> QED BY <4>1
    <3>3. CASE a = 1 /\ b # 1
      <4>1. b - 1 \in 1..n /\ p[b - 1] + 1 = 1 /\ p[b - 1] \in 1..n
        BY <1>12, <2>1, <2>3, <3>3
      <4> QED BY <4>1
    <3>4. CASE a # 1 /\ b # 1
      <4>1. a - 1 \in 1..n /\ b - 1 \in 1..n /\ p[a - 1] + 1 = p[b - 1] + 1
        BY <2>1, <2>3, <3>4
      <4>2. p[a - 1] \in 1..n /\ p[b - 1] \in 1..n
        BY <1>12, <4>1
      <4>3. p[a - 1] = p[b - 1]
        BY <4>1, <4>2
      <4>4. a - 1 = b - 1
        BY <1>12, <4>1, <4>3
      <4> QED BY <4>4
    <3> QED BY <3>1, <3>2, <3>3, <3>4
  <2>4. ASSUME NEW j \in 1..(n + 1) PROVE \E r \in 1..(n + 1) : g[r] = j
    <3>1. CASE j = 1
      BY <2>2, <3>1
    <3>2. CASE j # 1
      <4>1. PICK r \in 1..n : p[r] = j - 1
        BY <1>12, <2>1, <3>2
      <4>2. r + 1 \in 1..(n + 1) /\ r + 1 # 1 /\ (r + 1) - 1 = r /\ (j - 1) + 1 = j
        BY <1>2
      <4>3. g[r + 1] = j
        BY <4>1, <4>2
      <4> QED BY <4>2, <4>3
    <3> QED BY <3>1, <3>2
  <2> HIDE DEF g
  <2> QED BY <2>2, <2>3, <2>4 DEF Permutation
<1>14. ASSUME NEW a \in 1..(n + 1)
       PROVE  /\ W[a].name = IndexNames(sql)[g[a]]
              /\ W[a].columns = columns(sql, K[g[a]])
  <2>1. CASE a = 1
    <3>1. g[a] = 1 /\ W[a] = KeyClause(sql, "pk", K[1]) /\ 1 \in DOMAIN K
      BY <1>p, <1>2, <1>9, <1>10, <2>1
    <3>2. IndexNames(sql)[1] = constraintName(sql, "pk", K[1])
      BY <1>11, <3>1 DEF IndexKinds
    <3> QED BY <3>1, <3>2 DEF KeyClause
  <2>2. CASE a # 1
    <3>1. a - 1 \in 1..n /\ g[a] = p[a - 1] + 1
      BY <1>2, <2>2
    <3>2. W[a] = KeyClause(sql, "uk", t[a - 1]) /\ t[a - 1] = u[p[a - 1]] /\ p[a - 1] \in 1..n
      BY <1>2, <1>5, <1>8, <1>9, <1>12, <2>2, <3>1
    <3>3. K[p[a - 1] + 1] = u[p[a - 1]] /\ p[a - 1] + 1 \in DOMAIN K /\ p[a - 1] + 1 # 1
      BY <1>10, <3>2
    <3>4. IndexNames(sql)[p[a - 1] + 1] = constraintName(sql, "uk", K[p[a - 1] + 1])
      BY <1>11, <3>3 DEF IndexKinds
    <3> QED BY <3>1, <3>2, <3>3, <3>4 DEF KeyClause
  <2> QED BY <2>1, <2>2
<1> HIDE DEF g
<1>15. Clauses(sql, W, g)
  <2>1. Len(W) \in Nat /\ DOMAIN W = 1..Len(W) /\ DOMAIN W = DOMAIN K
    BY <1>2, <1>9, <1>10
  <2> QED BY <1>9, <1>10, <1>13, <1>14, <2>1 DEF Clauses, K
<1> QED BY <1>3, <1>15 DEF sql
-----------------------------------------------------------------------------
(* The table of a stored model of an accepted document.                    *)

SoundModel(m) ==
    LET sql == m.storage
    IN  /\ m \in Models /\ sql \in Storages /\ StorageShape(sql)
        /\ ~ Repeats(Map(LAMBDA f : f.name, m.fields))
        /\ ~ DuplicateColumn(sql) /\ Names(sql.columns) \cap SystemColumns = {}
        /\ ~ IncompleteMapping(m)
        /\ \A k \in DOMAIN KeysOf(sql) : ToSet(KeysOf(sql)[k]) \subseteq FieldNames(m)
        /\ ~ NullablePrimaryKey(m)

\* What a column of the document is in the statement.
ColumnEntry(m, c) ==
    LET f == FieldOf(m, c.field)
    IN  [name |-> c.name, type |-> f.type, nullable |-> f.nullable = "true",
         minLength |-> f.minLength, maxLength |-> f.maxLength]

LEMMA ColumnStatement ==
    ASSUME NEW m, SoundModel(m)
    PROVE  LET st == TableStatement(m)
               sql == m.storage
           IN  /\ st.op = "table" /\ st.schema = sql.schema /\ st.table = sql.table
               /\ \A c \in ToSet(sql.columns) : ColumnEntry(m, c) \in ToSet(st.columns)
               /\ \A x \in ToSet(st.columns) : \E c \in ToSet(sql.columns) : x = ColumnEntry(m, c)
               /\ SeqUnique([k \in DOMAIN st.columns |-> st.columns[k].name])
               /\ Names(st.columns) = Names(sql.columns)
<1> DEFINE sql == m.storage
           s == sql.columns
           t == ByName(s)
           st == TableStatement(m)
           C == st.columns
<1>1. sql \in Storages /\ ~ DuplicateColumn(sql)
  BY DEF SoundModel
<1>2. st.op = "table" /\ st.schema = sql.schema /\ st.table = sql.table
  BY DEF TableStatement, CreateTable
<1>3. C = [r \in DOMAIN t |-> ColumnEntry(m, t[r])]
  BY DEF TableStatement, CreateTable, Map, ColumnEntry
<1>4. s \in Seq(Columns) /\ \A i, j \in DOMAIN s : s[i].name = s[j].name => i = j
  BY <1>1, ColumnFacts DEF Storages
<1>5. \A i \in DOMAIN s : s[i].name \in Int
  <2>1. \A c \in Columns : c.name \in Int
    BY DEF Columns
  <2> HIDE DEF s
  <2> QED BY <1>4, <2>1
<1> HIDE DEF s, C
<1>6. Rearranged(s, t)
  BY <1>4, <1>5, SortedByName
<1>7. PICK p : Permutation(p, DOMAIN s) /\ t = [r \in DOMAIN s |-> s[p[r]]]
  BY <1>6 DEF Rearranged
<1> HIDE DEF t
<1>8. /\ DOMAIN C = DOMAIN s
      /\ \A r \in DOMAIN s : p[r] \in DOMAIN s /\ C[r] = ColumnEntry(m, s[p[r]])
      /\ \A r, q \in DOMAIN s : p[r] = p[q] => r = q
      /\ \A j \in DOMAIN s : \E r \in DOMAIN s : p[r] = j
  BY <1>3, <1>7 DEF Permutation
<1>9. ASSUME NEW c \in ToSet(s) PROVE ColumnEntry(m, c) \in ToSet(C)
  <2>1. PICK j \in DOMAIN s : c = s[j]
    BY DEF ToSet
  <2>2. PICK r \in DOMAIN s : p[r] = j
    BY <1>8
  <2>3. C[r] = ColumnEntry(m, c) /\ r \in DOMAIN C
    BY <1>8, <2>1, <2>2
  <2> QED BY <2>3 DEF ToSet
<1>10. ASSUME NEW x \in ToSet(C) PROVE \E c \in ToSet(s) : x = ColumnEntry(m, c)
  <2>1. PICK r \in DOMAIN C : x = C[r]
    BY DEF ToSet
  <2>2. p[r] \in DOMAIN s /\ x = ColumnEntry(m, s[p[r]])
    BY <1>8, <2>1
  <2>3. s[p[r]] \in ToSet(s)
    BY <2>2 DEF ToSet
  <2> QED BY <2>2, <2>3
<1>11. \A c : ColumnEntry(m, c).name = c.name
  BY DEF ColumnEntry
<1>12. ASSUME NEW i \in DOMAIN C, NEW j \in DOMAIN C, C[i].name = C[j].name PROVE i = j
  <2>0. /\ p[i] \in DOMAIN s /\ C[i] = ColumnEntry(m, s[p[i]]) /\ i \in DOMAIN s
        /\ p[j] \in DOMAIN s /\ C[j] = ColumnEntry(m, s[p[j]]) /\ j \in DOMAIN s
    BY <1>8
  <2>1. p[i] \in DOMAIN s /\ p[j] \in DOMAIN s /\ s[p[i]].name = s[p[j]].name
    BY <2>0, <1>11, <1>12
  <2>2. p[i] = p[j]
    BY <1>4, <2>1
  <2> QED BY <1>8, <1>12, <2>2
<1>13. SeqUnique([k \in DOMAIN C |-> C[k].name])
  BY <1>12 DEF SeqUnique, IsInjective
<1>14. Names(C) = Names(s)
  <2>1. \A n : (\E x \in ToSet(C) : n = x.name) <=> \E c \in ToSet(s) : n = c.name
    BY <1>9, <1>10, <1>11
  <2> QED BY <2>1 DEF Names
<1> QED BY <1>2, <1>9, <1>10, <1>13, <1>14 DEF s, C

\* A field of the model has one column, and only it has that name.
LEMMA FieldColumn ==
    ASSUME NEW m, SoundModel(m), NEW n \in FieldNames(m)
    PROVE  \E c \in ToSet(m.storage.columns) :
             c.field = n /\ c.name = ColumnName(m.storage, n) /\ FieldOf(m, n) \in ToSet(m.fields)
<1>1. m \in Models /\ m.storage \in Storages /\ ~ DuplicateColumn(m.storage) /\ ~ IncompleteMapping(m)
  BY DEF SoundModel
<1>2. PICK c \in ToSet(m.storage.columns) : c.field = n
  BY <1>1 DEF IncompleteMapping
<1>3. ColumnName(m.storage, c.field) = c.name
  BY <1>1, ColumnFacts
<1>4. FieldOf(m, n) \in ToSet(m.fields)
  BY <1>1, FieldFacts DEF SoundModel
<1> QED BY <1>2, <1>3, <1>4

LEMMA ColumnsApart ==
    ASSUME NEW m, SoundModel(m), NEW a \in FieldNames(m), NEW b \in FieldNames(m),
           ColumnName(m.storage, a) = ColumnName(m.storage, b)
    PROVE  a = b
<1>1. m.storage \in Storages /\ ~ DuplicateColumn(m.storage)
  BY DEF SoundModel
<1>2. PICK c \in ToSet(m.storage.columns) : c.field = a /\ c.name = ColumnName(m.storage, a)
  BY FieldColumn
<1>3. PICK e \in ToSet(m.storage.columns) : e.field = b /\ e.name = ColumnName(m.storage, b)
  BY FieldColumn
<1>4. \A i, j \in DOMAIN m.storage.columns :
         m.storage.columns[i].name = m.storage.columns[j].name => i = j
  BY <1>1, ColumnFacts
<1>5. c = e
  BY <1>2, <1>3, <1>4 DEF ToSet
<1> QED BY <1>2, <1>3, <1>5

\* The columns of a key.
LEMMA KeyColumns ==
    ASSUME NEW m, SoundModel(m), NEW key \in Seq(Int), ToSet(key) \subseteq FieldNames(m)
    PROVE  /\ DOMAIN columns(m.storage, key) = DOMAIN key /\ Len(columns(m.storage, key)) = Len(key)
           /\ \A i \in DOMAIN key : /\ key[i] \in FieldNames(m)
                                    /\ columns(m.storage, key)[i] = ColumnName(m.storage, key[i])
           /\ ToSet(columns(m.storage, key)) \subseteq Names(m.storage.columns)
           /\ SeqUnique(key) => SeqUnique(columns(m.storage, key))
<1> DEFINE w == columns(m.storage, key)
           T == {ColumnName(m.storage, n) : n \in Int}
<1>1. w = [i \in DOMAIN key |-> ColumnName(m.storage, key[i])]
  BY DEF columns, Map
<1> HIDE DEF w
<1>2. \A i \in DOMAIN key : key[i] \in Int
  OBVIOUS
<1>3. w = [i \in DOMAIN key |-> w[i]] /\ \A i \in DOMAIN key : w[i] \in T /\ w[i] = ColumnName(m.storage, key[i])
  BY <1>1, <1>2
<1> HIDE DEF T
<1>4. DOMAIN w = DOMAIN key /\ Len(w) = Len(key)
  BY <1>3, MappedLists
<1>5. \A i \in DOMAIN key : key[i] \in FieldNames(m)
  BY DEF ToSet
<1>6. \A i \in DOMAIN key : w[i] \in Names(m.storage.columns)
  <2> SUFFICES ASSUME NEW i \in DOMAIN key PROVE w[i] \in Names(m.storage.columns)
    OBVIOUS
  <2>1. PICK c \in ToSet(m.storage.columns) : c.field = key[i] /\ c.name = ColumnName(m.storage, key[i])
    BY <1>5, FieldColumn
  <2> QED BY <1>3, <2>1 DEF Names
<1>7. ASSUME SeqUnique(key), NEW i \in DOMAIN key, NEW j \in DOMAIN key, w[i] = w[j] PROVE i = j
  <2>1. ColumnName(m.storage, key[i]) = ColumnName(m.storage, key[j])
    BY <1>3, <1>7
  <2>2. key[i] = key[j]
    BY <1>5, <2>1, ColumnsApart
  <2> QED BY <1>7, <2>2 DEF SeqUnique, IsInjective
<1>8. SeqUnique(key) => SeqUnique(w)
  BY <1>4, <1>7 DEF SeqUnique, IsInjective
<1>9. ToSet(w) \subseteq Names(m.storage.columns)
  BY <1>4, <1>6 DEF ToSet
<1> QED BY <1>3, <1>4, <1>5, <1>8, <1>9 DEF w

\* The columns of a table once it is created: those of a primary key do not accept NULL.
RowColumns(st) ==
    {[c EXCEPT !.nullable = @ /\ c.name \notin ToSet(st.keys[1].columns)] : c \in ToSet(st.columns)}

LEMMA RowLookup ==
    ASSUME NEW m, SoundModel(m), NEW t, t.columns = RowColumns(TableStatement(m)),
           NEW n \in FieldNames(m)
    PROVE  LET c == ColumnOf(t, ColumnName(m.storage, n))
               f == FieldOf(m, n)
           IN  /\ ColumnName(m.storage, n) \in {x.name : x \in t.columns}
               /\ c \in t.columns /\ c.name = ColumnName(m.storage, n)
               /\ \A x \in t.columns : x.name = c.name => x = c
               /\ c.type = f.type /\ c.minLength = f.minLength /\ c.maxLength = f.maxLength
               /\ c.nullable <=> /\ f.nullable = "true"
                                 /\ n \notin ToSet(m.storage.primaryKey)
<1> DEFINE sql == m.storage
           st == TableStatement(m)
           name1 == ColumnName(sql, n)
           pk == ToSet(st.keys[1].columns)
           entry(c) == [ColumnEntry(m, c) EXCEPT !.nullable = @ /\ ColumnEntry(m, c).name \notin pk]
<1>1. m \in Models /\ sql \in Storages /\ ~ DuplicateColumn(sql)
  BY DEF SoundModel
<1>2. PICK g : Clauses(sql, st.keys, g)
  BY <1>1, ClausesExist
<1>3. st.keys[1].columns = columns(sql, sql.primaryKey)
  <2>1. KeysOf(sql)[1] = sql.primaryKey
    BY <1>1, KeysType
  <2>2. 1 \in DOMAIN KeysOf(sql)
    BY <1>1, IndexNamesType
  <2> QED BY <1>2, <2>1, <2>2 DEF Clauses
<1>4. sql.primaryKey \in Seq(Int) /\ ToSet(sql.primaryKey) \subseteq FieldNames(m)
  <2>1. KeysOf(sql)[1] = sql.primaryKey /\ 1 \in DOMAIN KeysOf(sql)
    BY <1>1, KeysType, IndexNamesType
  <2>2. ToSet(KeysOf(sql)[1]) \subseteq FieldNames(m)
    BY <2>1 DEF SoundModel
  <2> QED BY <1>1, <2>1, <2>2 DEF Storages
<1>5. name1 \in pk <=> n \in ToSet(sql.primaryKey)
  <2> DEFINE key == sql.primaryKey
             w == columns(sql, key)
  <2>1. DOMAIN w = DOMAIN key /\ \A i \in DOMAIN key : key[i] \in FieldNames(m) /\ w[i] = ColumnName(sql, key[i])
    BY <1>4, KeyColumns
  <2>2. \A i \in DOMAIN key : ColumnName(sql, key[i]) = name1 <=> key[i] = n
    BY <2>1, ColumnsApart
  <2>3. name1 \in ToSet(w) <=> \E i \in DOMAIN key : key[i] = n
    BY <2>1, <2>2 DEF ToSet
  <2> QED BY <1>3, <2>3 DEF ToSet
<1>6. PICK c \in ToSet(sql.columns) : c.field = n /\ c.name = name1
  BY FieldColumn
<1>7. \A x : x \in t.columns <=> \E e \in ToSet(sql.columns) : x = entry(e)
  <2>1. /\ \A e \in ToSet(sql.columns) : ColumnEntry(m, e) \in ToSet(st.columns)
        /\ \A x \in ToSet(st.columns) : \E e \in ToSet(sql.columns) : x = ColumnEntry(m, e)
    BY ColumnStatement
  <2>2. \A x : x \in t.columns <=> \E y \in ToSet(st.columns) : x = [y EXCEPT !.nullable = @ /\ y.name \notin pk]
    BY DEF RowColumns
  <2> HIDE DEF st, pk
  <2> QED BY <2>1, <2>2
<1> HIDE DEF pk, st
<1>8. /\ entry(c).name = name1 /\ entry(c).type = FieldOf(m, n).type
      /\ entry(c).minLength = FieldOf(m, n).minLength /\ entry(c).maxLength = FieldOf(m, n).maxLength
      /\ entry(c).nullable = (FieldOf(m, n).nullable = "true" /\ name1 \notin pk)
  BY <1>6 DEF ColumnEntry
<1>9. ASSUME NEW e \in ToSet(sql.columns), entry(e).name = name1 PROVE e = c
  <2>1. e.name = c.name
    BY <1>6, <1>9 DEF ColumnEntry
  <2>2. \A i, j \in DOMAIN sql.columns : sql.columns[i].name = sql.columns[j].name => i = j
    BY <1>1, ColumnFacts
  <2> QED BY <1>6, <2>1, <2>2 DEF ToSet
<1> DEFINE x == entry(c)
<1>10. x \in t.columns /\ \A y \in t.columns : y.name = name1 => y = x
  <2> HIDE DEF entry
  <2>1. x \in t.columns
    BY <1>6, <1>7
  <2>2. ASSUME NEW y \in t.columns, y.name = name1 PROVE y = x
    <3>1. PICK e \in ToSet(sql.columns) : y = entry(e)
      BY <1>7
    <3>2. e = c
      BY <1>9, <2>2, <3>1
    <3> QED BY <3>1, <3>2
  <2> QED BY <2>1, <2>2
<1> HIDE DEF x, entry
<1>11. x.name = name1
  BY <1>8 DEF x
<1>12. ColumnOf(t, name1) = x
  BY <1>10, <1>11 DEF ColumnOf
<1>13. name1 \in {y.name : y \in t.columns}
  BY <1>10, <1>11
<1>14. x \in t.columns /\ x.name = name1 /\ \A y \in t.columns : y.name = x.name => y = x
  BY <1>10, <1>11
<1> QED BY <1>5, <1>8, <1>12, <1>13, <1>14 DEF x
-----------------------------------------------------------------------------
(* The names validate.js has compared: of tables, indexes and foreign keys.*)

\* The lists of a concatenation do not overlap.
LEMMA OffsetsApart ==
    ASSUME NEW T, NEW ss \in Seq(Seq(T)), NEW off \in Offsets(ss),
           NEW i \in DOMAIN ss, NEW a \in DOMAIN ss[i], NEW j \in DOMAIN ss, NEW b \in DOMAIN ss[j],
           off[i] + a = off[j] + b
    PROVE  i = j /\ a = b
<1> DEFINE n == Len(ss)
           S == {k \in Nat : k <= n =>
                   \A x \in 1..n : x < k => off[x] + Len(ss[x]) <= off[k]}
<1>1. n \in Nat /\ DOMAIN ss = 1..n /\ \A x \in 1..n : Len(ss[x]) \in Nat /\ DOMAIN ss[x] = 1..Len(ss[x])
  OBVIOUS
<1> HIDE DEF n
<1>2. /\ \A x \in 1..(n + 1) : off[x] \in Nat
      /\ \A x \in 1..n : off[x + 1] = off[x] + Len(ss[x])
  BY DEF Offsets, n
<1>3. 0 \in S
  BY <1>1
<1>4. ASSUME NEW k \in Nat, k \in S PROVE k + 1 \in S
  <2> SUFFICES ASSUME k + 1 <= n, NEW x \in 1..n, x < k + 1
               PROVE  off[x] + Len(ss[x]) <= off[k + 1]
    OBVIOUS
  <2>0. k \in 1..n /\ k \in 1..(n + 1) /\ x \in 1..(n + 1) /\ x \in Nat
    BY <1>1
  <2>1. off[k + 1] = off[k] + Len(ss[k]) /\ off[k] \in Nat /\ Len(ss[k]) \in Nat
    BY <1>1, <1>2, <2>0
  <2>2. CASE x = k
    BY <2>1, <2>2
  <2>3. CASE x < k
    <3>1. off[x] \in Nat /\ Len(ss[x]) \in Nat
      BY <1>1, <1>2, <2>0
    <3>2. off[x] + Len(ss[x]) <= off[k]
      BY <1>1, <1>4, <2>0, <2>3
    <3> DEFINE p == off[x]
               q == Len(ss[x])
               u == off[k]
               v == Len(ss[k])
               w == off[k + 1]
    <3>3. p \in Nat /\ q \in Nat /\ u \in Nat /\ v \in Nat /\ w = u + v /\ p + q <= u
      BY <2>1, <3>1, <3>2
    <3> HIDE DEF S, p, q, u, v, w
    <3>4. p + q <= w
      BY <3>3
    <3> QED BY <3>4 DEF p, q, w
  <2>4. x = k \/ x < k
    BY <2>0
  <2> HIDE DEF S, n
  <2> QED BY <2>2, <2>3, <2>4
<1>5. \A x, y \in 1..n : x < y => off[x] + Len(ss[x]) <= off[y]
  <2> HIDE DEF S
  <2>1. \A k \in Nat : k \in S
    BY <1>3, <1>4, SetInduction
  <2>2. ASSUME NEW x \in 1..n, NEW y \in 1..n, x < y PROVE off[x] + Len(ss[x]) <= off[y]
    <3>1. y \in Nat /\ y <= n
      BY <1>1
    <3>2. y <= n => \A z \in 1..n : z < y => off[z] + Len(ss[z]) <= off[y]
      <4>1. y \in S
        BY <2>1, <3>1
      <4> QED BY <4>1 DEF S
    <3> QED BY <2>2, <3>1, <3>2
  <2> QED BY <2>2
<1>6. a \in Nat /\ b \in Nat /\ 1 <= a /\ a <= Len(ss[i]) /\ 1 <= b /\ b <= Len(ss[j])
      /\ Len(ss[i]) \in Nat /\ Len(ss[j]) \in Nat /\ i \in Nat /\ j \in Nat
  BY <1>1
<1>i. i \in 1..n /\ j \in 1..n
  BY <1>1
<1>m. i \in 1..(n + 1) /\ j \in 1..(n + 1)
  BY <1>1, <1>i
<1>7. off[i] \in Nat /\ off[j] \in Nat
  BY <1>2, <1>m
<1> DEFINE p == off[i]
           q == Len(ss[i])
           u == off[j]
           v == Len(ss[j])
<1>n. /\ p \in Nat /\ q \in Nat /\ u \in Nat /\ v \in Nat /\ a \in Nat /\ b \in Nat
      /\ 1 <= a /\ a <= q /\ 1 <= b /\ b <= v /\ p + a = u + b
  BY <1>6, <1>7
<1> HIDE DEF S
<1>8. ~ (i < j)
  <2> SUFFICES ASSUME i < j PROVE FALSE
    OBVIOUS
  <2>1. p + q <= u
    BY <1>5, <1>i
  <2> HIDE DEF p, q, u, v
  <2> QED BY <2>1, <1>n
<1>9. ~ (j < i)
  <2> SUFFICES ASSUME j < i PROVE FALSE
    OBVIOUS
  <2>1. u + v <= p
    BY <1>5, <1>i
  <2> HIDE DEF p, q, u, v
  <2> QED BY <2>1, <1>n
<1>10. i = j
  BY <1>6, <1>8, <1>9
<1>11. a = b
  <2>1. p = u
    BY <1>10
  <2> HIDE DEF p, q, u, v
  <2> QED BY <2>1, <1>n
<1> QED BY <1>10, <1>11

RelationsApart(d) ==
    LET SL == Stored(d)
    IN  \A x, y \in DOMAIN SL :
          LET s == SL[x].storage
              t == SL[y].storage
          IN  /\ s.schema = t.schema /\ s.table = t.table => x = y
              /\ \A a \in DOMAIN IndexNames(s) :
                    /\ ~ (s.schema = t.schema /\ IndexNames(s)[a] = t.table)
                    /\ \A b \in DOMAIN IndexNames(t) :
                          s.schema = t.schema /\ IndexNames(s)[a] = IndexNames(t)[b] => x = y /\ a = b

LEMMA RelationNames ==
    ASSUME NEW d \in Documents
    PROVE  ~ Repeats(DeclaredRelations(d) \o IndexRelations(d)) <=> RelationsApart(d)
<1> DEFINE SL == Stored(d)
           D == [x \in DOMAIN SL |-> <<SL[x].storage.schema, SL[x].storage.table>>]
           index(m) == [a \in DOMAIN IndexNames(m.storage) |-> <<m.storage.schema, IndexNames(m.storage)[a]>>]
           ss == [x \in DOMAIN SL |-> index(SL[x])]
           T == {D[x] : x \in DOMAIN SL}
                \cup UNION {{<<SL[x].storage.schema, IndexNames(SL[x].storage)[a]>> :
                               a \in DOMAIN IndexNames(SL[x].storage)} : x \in DOMAIN SL}
<1>1. SL \in Seq(Models)
  BY StoredItems
<1>3. DeclaredRelations(d) = D /\ IndexRelations(d) = FlattenSeq(ss)
  BY DEF DeclaredRelations, IndexRelations, Map, Each
<1> HIDE DEF SL
<1>4. D \in Seq(T) /\ DOMAIN D = DOMAIN SL
  <2>1. D = [x \in DOMAIN SL |-> D[x]] /\ \A x \in DOMAIN SL : D[x] \in T
    OBVIOUS
  <2> HIDE DEF D, T
  <2> QED BY <1>1, <2>1, MappedLists
<1>5. ASSUME NEW x \in DOMAIN SL
      PROVE  index(SL[x]) \in Seq(T) /\ DOMAIN index(SL[x]) = DOMAIN IndexNames(SL[x].storage)
  <2> DEFINE w == IndexNames(SL[x].storage)
             g == index(SL[x])
  <2>1. SL[x].storage \in Storages
    <3>1. SL[x] \in Models
      BY <1>1
    <3> QED BY <3>1 DEF Models
  <2>2. PICK N : w \in Seq(N)
    BY <2>1, IndexNamesType
  <2>3. g = [a \in DOMAIN w |-> g[a]] /\ \A a \in DOMAIN w : g[a] \in T
    OBVIOUS
  <2> HIDE DEF w, g, T
  <2>4. g \in Seq(T) /\ DOMAIN g = DOMAIN w
    BY <2>2, <2>3, MappedLists
  <2> QED BY <2>4 DEF g, w
<1>6. \A m : \A a \in DOMAIN IndexNames(m.storage) : index(m)[a] = <<m.storage.schema, IndexNames(m.storage)[a]>>
  OBVIOUS
<1>7. \A x \in DOMAIN SL : D[x] = <<SL[x].storage.schema, SL[x].storage.table>>
  OBVIOUS
<1> HIDE DEF D, T, index
<1>8. ss \in Seq(Seq(T)) /\ DOMAIN ss = DOMAIN SL
  <2>1. ss = [x \in DOMAIN SL |-> ss[x]] /\ \A x \in DOMAIN SL : ss[x] \in Seq(T)
    BY <1>5
  <2> HIDE DEF ss
  <2> QED BY <1>1, <2>1, MappedLists
<1>9. \A x \in DOMAIN SL : ss[x] = index(SL[x])
  OBVIOUS
<1> HIDE DEF ss
<1> DEFINE I == FlattenSeq(ss)
           n == Len(D)
           W == D \o I
<1>10. PICK off \in Offsets(ss) :
          /\ \A x \in DOMAIN ss : \A a \in DOMAIN ss[x] : off[x] + a \in DOMAIN I /\ I[off[x] + a] = ss[x][a]
          /\ \A c \in DOMAIN I : \E x \in DOMAIN ss : \E a \in DOMAIN ss[x] : c = off[x] + a
  BY <1>8, FlattenFacts
<1>11. I \in Seq(T)
  BY <1>8, FlattenFacts
<1> HIDE DEF I
<1>12. /\ W \in Seq(T)
       /\ \A k \in 1..n : k \in DOMAIN W /\ W[k] = D[k]
       /\ \A c \in 1..Len(I) : n + c \in DOMAIN W /\ W[n + c] = I[c]
       /\ \A k \in DOMAIN W : k \in 1..n \/ \E c \in 1..Len(I) : k = n + c
  <2>1. W \in Seq(T)
    BY <1>4, <1>11, ConcatParts
  <2>2. \A k \in 1..n : k \in DOMAIN W /\ W[k] = D[k]
    BY <1>4, <1>11, ConcatParts
  <2>3. \A c \in 1..Len(I) : n + c \in DOMAIN W /\ W[n + c] = I[c]
    BY <1>4, <1>11, ConcatParts
  <2>4. \A k \in DOMAIN W : k \in 1..n \/ \E c \in 1..Len(I) : k = n + c
    BY <1>4, <1>11, ConcatParts
  <2> QED BY <2>1, <2>2, <2>3, <2>4
<1>2. DeclaredRelations(d) \o IndexRelations(d) = W
  BY <1>3 DEF I
<1>13. ~ Repeats(W) <=> \A k, l \in DOMAIN W : W[k] = W[l] => k = l
  <2> HIDE DEF W
  <2>1. ~ Repeats(W) => \A k, l \in DOMAIN W : W[k] = W[l] => k = l
    BY <1>12, NoRepeats
  <2>2. (\A k, l \in DOMAIN W : W[k] = W[l] => k = l) => ~ Repeats(W)
    BY <1>12, Unrepeated
  <2> QED BY <2>1, <2>2
<1> HIDE DEF W
<1>14. n \in Nat /\ DOMAIN D = 1..n /\ DOMAIN I = 1..Len(I) /\ Len(I) \in Nat
  BY <1>4, <1>11
<1> HIDE DEF n
<1>15. ASSUME ~ Repeats(W), NEW x \in DOMAIN SL, NEW y \in DOMAIN SL,
              SL[x].storage.schema = SL[y].storage.schema, SL[x].storage.table = SL[y].storage.table
       PROVE  x = y
  <2>1. D[x] = D[y]
    BY <1>7, <1>15
  <2>2. x \in 1..n /\ y \in 1..n
    BY <1>4, <1>14
  <2>3. W[x] = D[x] /\ x \in DOMAIN W /\ W[y] = D[y] /\ y \in DOMAIN W
    BY <1>12, <2>2
  <2> QED BY <1>13, <1>15, <2>1, <2>3
<1>16. ASSUME NEW x \in DOMAIN SL, NEW a \in DOMAIN IndexNames(SL[x].storage)
       PROVE  /\ x \in DOMAIN ss /\ a \in DOMAIN ss[x] /\ off[x] + a \in 1..Len(I)
              /\ n + (off[x] + a) \in DOMAIN W
              /\ W[n + (off[x] + a)] = <<SL[x].storage.schema, IndexNames(SL[x].storage)[a]>>
  <2>1. x \in DOMAIN ss /\ a \in DOMAIN ss[x] /\ ss[x][a] = <<SL[x].storage.schema, IndexNames(SL[x].storage)[a]>>
    BY <1>5, <1>6, <1>8, <1>9
  <2>2. off[x] + a \in 1..Len(I) /\ I[off[x] + a] = ss[x][a]
    BY <1>10, <1>14, <2>1
  <2> QED BY <1>12, <2>1, <2>2
<1>17. ASSUME ~ Repeats(W), NEW x \in DOMAIN SL, NEW y \in DOMAIN SL, NEW a \in DOMAIN IndexNames(SL[x].storage),
              SL[x].storage.schema = SL[y].storage.schema, IndexNames(SL[x].storage)[a] = SL[y].storage.table
       PROVE  FALSE
  <2>a. y \in 1..n /\ y \in DOMAIN W /\ W[y] = <<SL[y].storage.schema, SL[y].storage.table>>
    BY <1>4, <1>7, <1>12, <1>14
  <2>b. W[n + (off[x] + a)] = <<SL[x].storage.schema, IndexNames(SL[x].storage)[a]>>
    BY <1>16
  <2>1. W[n + (off[x] + a)] = W[y] /\ y \in DOMAIN W /\ y \in 1..n
    BY <1>17, <2>a, <2>b
  <2>2. n + (off[x] + a) = y
    BY <1>13, <1>16, <1>17, <2>1
  <2>3. off[x] + a \in Nat /\ off[x] + a >= 1
    BY <1>14, <1>16
  <2> QED BY <1>14, <2>1, <2>2, <2>3
<1>18. ASSUME ~ Repeats(W), NEW x \in DOMAIN SL, NEW a \in DOMAIN IndexNames(SL[x].storage),
              NEW y \in DOMAIN SL, NEW b \in DOMAIN IndexNames(SL[y].storage),
              SL[x].storage.schema = SL[y].storage.schema,
              IndexNames(SL[x].storage)[a] = IndexNames(SL[y].storage)[b]
       PROVE  x = y /\ a = b
  <2>1. n + (off[x] + a) = n + (off[y] + b)
    BY <1>13, <1>16, <1>18
  <2>2. off[x] + a = off[y] + b
    <3>1. off[x] + a \in Nat /\ off[y] + b \in Nat
      BY <1>14, <1>16
    <3> QED BY <1>14, <2>1, <3>1
  <2>3. x \in DOMAIN ss /\ a \in DOMAIN ss[x] /\ y \in DOMAIN ss /\ b \in DOMAIN ss[y]
    BY <1>16
  <2> QED BY <1>8, <2>2, <2>3, OffsetsApart
<1>19. ~ Repeats(W) => RelationsApart(d)
  BY <1>15, <1>17, <1>18 DEF RelationsApart, SL
<1>20. ASSUME NEW k \in DOMAIN W
       PROVE  \/ k \in DOMAIN SL /\ W[k] = <<SL[k].storage.schema, SL[k].storage.table>>
              \/ \E x \in DOMAIN SL : \E a \in DOMAIN IndexNames(SL[x].storage) :
                    /\ k = n + (off[x] + a)
                    /\ W[k] = <<SL[x].storage.schema, IndexNames(SL[x].storage)[a]>>
  <2>1. CASE k \in 1..n
    BY <1>4, <1>7, <1>12, <1>14, <2>1
  <2>2. CASE k \notin 1..n
    <3>1. PICK c \in 1..Len(I) : k = n + c
      BY <1>12, <2>2
    <3>2. PICK x \in DOMAIN ss : \E a \in DOMAIN ss[x] : c = off[x] + a
      BY <1>10, <1>14, <3>1
    <3>3. PICK a \in DOMAIN ss[x] : c = off[x] + a
      BY <3>2
    <3>4. x \in DOMAIN SL /\ a \in DOMAIN IndexNames(SL[x].storage)
      BY <1>5, <1>8, <1>9, <3>2, <3>3
    <3>5. W[n + (off[x] + a)] = <<SL[x].storage.schema, IndexNames(SL[x].storage)[a]>>
      BY <1>16, <3>4
    <3> QED BY <3>1, <3>3, <3>4, <3>5
  <2> QED BY <2>1, <2>2
<1>21. ASSUME RelationsApart(d), NEW k \in DOMAIN W, NEW l \in DOMAIN W, W[k] = W[l] PROVE k = l
  <2>1. ASSUME NEW x \in DOMAIN SL, NEW y \in DOMAIN SL
        PROVE  LET s == SL[x].storage
                   t == SL[y].storage
               IN  /\ s.schema = t.schema /\ s.table = t.table => x = y
                   /\ \A a \in DOMAIN IndexNames(s) :
                         /\ ~ (s.schema = t.schema /\ IndexNames(s)[a] = t.table)
                         /\ \A b \in DOMAIN IndexNames(t) :
                               s.schema = t.schema /\ IndexNames(s)[a] = IndexNames(t)[b] => x = y /\ a = b
    BY <1>21 DEF RelationsApart, SL
  <2>2. CASE /\ k \in DOMAIN SL /\ W[k] = <<SL[k].storage.schema, SL[k].storage.table>>
             /\ l \in DOMAIN SL /\ W[l] = <<SL[l].storage.schema, SL[l].storage.table>>
    <3>1. <<SL[k].storage.schema, SL[k].storage.table>> = <<SL[l].storage.schema, SL[l].storage.table>>
      BY <1>21, <2>2, Zenon
    <3>2. SL[k].storage.schema = SL[l].storage.schema /\ SL[k].storage.table = SL[l].storage.table
      BY <3>1
    <3> QED BY <2>1, <2>2, <3>2
  <2>3. ASSUME NEW u \in DOMAIN SL, NEW x \in DOMAIN SL, NEW a \in DOMAIN IndexNames(SL[x].storage),
               <<SL[u].storage.schema, SL[u].storage.table>> = <<SL[x].storage.schema, IndexNames(SL[x].storage)[a]>>
        PROVE  FALSE
    BY <2>1, <2>3
  <2>4. ASSUME NEW x \in DOMAIN SL, NEW a \in DOMAIN IndexNames(SL[x].storage), k = n + (off[x] + a),
               W[k] = <<SL[x].storage.schema, IndexNames(SL[x].storage)[a]>>,
               NEW y \in DOMAIN SL, NEW b \in DOMAIN IndexNames(SL[y].storage), l = n + (off[y] + b),
               W[l] = <<SL[y].storage.schema, IndexNames(SL[y].storage)[b]>>
        PROVE  k = l
    <3>1. x = y /\ a = b
      BY <1>21, <2>1, <2>4
    <3> QED BY <2>4, <3>1
  <2> DEFINE AtTable(i) == i \in DOMAIN SL /\ W[i] = <<SL[i].storage.schema, SL[i].storage.table>>
             AtIndex(i, x, a) == /\ i = n + (off[x] + a)
                                 /\ W[i] = <<SL[x].storage.schema, IndexNames(SL[x].storage)[a]>>
             Indexed(i) == \E x \in DOMAIN SL : \E a \in DOMAIN IndexNames(SL[x].storage) : AtIndex(i, x, a)
  <2>5. (AtTable(k) \/ Indexed(k)) /\ (AtTable(l) \/ Indexed(l))
    BY <1>20
  <2>6. CASE AtTable(k) /\ AtTable(l)
    BY <2>2, <2>6
  <2>7. CASE AtTable(k) /\ Indexed(l)
    BY <1>21, <2>3, <2>7
  <2>8. CASE Indexed(k) /\ AtTable(l)
    BY <1>21, <2>3, <2>8
  <2>9. CASE Indexed(k) /\ Indexed(l)
    BY <2>4, <2>9
  <2> HIDE DEF AtTable, Indexed
  <2> QED BY <2>5, <2>6, <2>7, <2>8, <2>9
<1>22. RelationsApart(d) => ~ Repeats(W)
  BY <1>13, <1>21
<1> QED BY <1>2, <1>19, <1>22

\* No two constraints of a table have the same name.
ConstraintsApart(d, sql) ==
    LET fk == sql.foreignKeys
    IN  \A i \in DOMAIN fk :
          /\ \A j \in DOMAIN fk : ForeignName(d, sql, fk[i]) = ForeignName(d, sql, fk[j]) => i = j
          /\ \A a \in DOMAIN IndexNames(sql) : ForeignName(d, sql, fk[i]) # IndexNames(sql)[a]

LEMMA ConstraintNames ==
    ASSUME NEW d \in Documents, ~ NameCollision(d), NEW m \in ToSet(Stored(d))
    PROVE  ConstraintsApart(d, m.storage)
<1> DEFINE sql == m.storage
           fk == sql.foreignKeys
           u == IndexNames(sql)
           v == [i \in DOMAIN fk |-> ForeignName(d, sql, fk[i])]
           w == u \o v
<1>1. sql \in Storages /\ fk \in Seq(Foreigns)
  <2>1. m \in Models
    <3>1. Stored(d) \in Seq(Models)
      BY StoredItems
    <3> QED BY <3>1 DEF ToSet
  <2> QED BY <2>1 DEF Models, Storages
<1>2. ~ Repeats(w)
  BY DEF NameCollision, ForeignNames, Map
<1>3. PICK N : u \in Seq(N)
  BY <1>1, IndexNamesType
<1> DEFINE T == N \cup {v[i] : i \in DOMAIN fk}
<1>4. \A i \in DOMAIN fk : v[i] = ForeignName(d, sql, fk[i]) /\ v[i] \in T
  OBVIOUS
<1>5. v \in Seq(T) /\ DOMAIN v = DOMAIN fk
  <2>1. v = [i \in DOMAIN fk |-> v[i]]
    OBVIOUS
  <2> HIDE DEF v, T
  <2> QED BY <1>1, <1>4, <2>1, MappedLists
<1> HIDE DEF u, v
<1>6. u \in Seq(T)
  <2>1. \A k \in DOMAIN u : u[k] \in T
    BY <1>3
  <2>2. u = [k \in DOMAIN u |-> u[k]]
    BY <1>3
  <2> HIDE DEF T
  <2> QED BY <1>3, <2>1, <2>2, MappedLists
<1> HIDE DEF T
<1> DEFINE n == Len(u)
<1>7. /\ w \in Seq(T)
      /\ \A k \in 1..n : k \in DOMAIN w /\ w[k] = u[k]
      /\ \A c \in 1..Len(v) : n + c \in DOMAIN w /\ w[n + c] = v[c]
  <2>1. w \in Seq(T)
    BY <1>5, <1>6, ConcatParts
  <2>2. \A k \in 1..n : k \in DOMAIN w /\ w[k] = u[k]
    BY <1>5, <1>6, ConcatParts
  <2>3. \A c \in 1..Len(v) : n + c \in DOMAIN w /\ w[n + c] = v[c]
    BY <1>5, <1>6, ConcatParts
  <2> QED BY <2>1, <2>2, <2>3
<1> HIDE DEF w
<1>8. \A k, l \in DOMAIN w : w[k] = w[l] => k = l
  BY <1>2, <1>7, NoRepeats
<1>9. n \in Nat /\ DOMAIN u = 1..n /\ DOMAIN v = 1..Len(v) /\ Len(v) \in Nat
  BY <1>5, <1>6
<1> HIDE DEF n
<1>10. ASSUME NEW i \in DOMAIN fk, NEW j \in DOMAIN fk, v[i] = v[j] PROVE i = j
  <2>1. i \in 1..Len(v) /\ j \in 1..Len(v) /\ i \in Nat /\ j \in Nat
    BY <1>5, <1>9
  <2>2. n + i = n + j
    BY <1>7, <1>8, <1>10, <2>1
  <2> QED BY <1>9, <2>1, <2>2
<1>11. ASSUME NEW i \in DOMAIN fk, NEW a \in DOMAIN u, v[i] = u[a] PROVE FALSE
  <2>1. i \in 1..Len(v) /\ a \in 1..n /\ i \in Nat /\ a \in Nat /\ i >= 1 /\ a <= n
    BY <1>5, <1>9
  <2>2. n + i = a
    BY <1>7, <1>8, <1>11, <2>1
  <2> QED BY <1>9, <2>1, <2>2
<1> QED BY <1>4, <1>10, <1>11 DEF ConstraintsApart, u
-----------------------------------------------------------------------------
(* Running the statements.  Statement by statement, what is needed of the  *)
(* earlier ones is there, and what they have made does not stand in the    *)
(* way.                                                                    *)

Relations(m) == ToSet(NewRelations(TableStatement(m)))

\* The k-th statement makes a schema that is not there yet, ...
SchemaInOrder(d, E, k) ==
    /\ E[k].op = "schema" /\ E[k].schema # PublicSchema
    /\ \A l \in DOMAIN E : l < k /\ E[l].op = "schema" => E[l].schema # E[k].schema

\* ... or a table, in a schema that is there, of names that are not taken, ...
TableInOrder(d, E, k) ==
    \E m \in ToSet(Stored(d)) :
       /\ E[k] = TableStatement(m)
       /\ \/ m.storage.schema = PublicSchema
          \/ \E l \in DOMAIN E : l < k /\ E[l].op = "schema" /\ E[l].schema = m.storage.schema
       /\ \A l \in DOMAIN E : l < k /\ E[l].op = "table" =>
             \E n \in ToSet(Stored(d)) :
                /\ E[l] = TableStatement(n)
                /\ m.storage.schema = n.storage.schema => Relations(m) \cap Relations(n) = {}

\* ... or a foreign key, when all tables are there and its name is not taken.
ForeignInOrder(d, E, k) ==
    \E m \in ToSet(Stored(d)) : \E key \in ToSet(m.storage.foreignKeys) :
       /\ E[k] = ForeignStatement(d, m, key)
       /\ \A n \in ToSet(Stored(d)) : \E l \in DOMAIN E : l < k /\ E[l] = TableStatement(n)
       /\ \A l \in DOMAIN E :
             /\ l < k /\ E[l].op = "foreign"
             /\ E[l].schema = m.storage.schema /\ E[l].table = m.storage.table
             => E[l].name # E[k].name

Orderly(d, E) ==
    /\ Len(E) \in Nat /\ DOMAIN E = 1..Len(E)
    /\ \A k \in DOMAIN E : SchemaInOrder(d, E, k) \/ TableInOrder(d, E, k) \/ ForeignInOrder(d, E, k)
    /\ \A n \in ToSet(Stored(d)) : \E l \in DOMAIN E : E[l] = TableStatement(n)

RowKeys(st) == {ToSet(k.columns) : k \in ToSet(st.keys)}

\* The database after the statements of E before the s-th.
SchemasMade(E, s, D) ==
    \A n : n \in D.schemas <=> \/ n = PublicSchema
                               \/ \E l \in DOMAIN E : l < s /\ E[l].op = "schema" /\ E[l].schema = n

RelationsMade(E, s, D) ==
    \A r \in D.relations :
       \E l \in DOMAIN E : /\ l < s /\ E[l].op = "table"
                           /\ r[1] = E[l].schema /\ r[2] \in ToSet(NewRelations(E[l]))

TableMade(d, E, s, t) ==
    \E m \in ToSet(Stored(d)) :
       /\ t.schema = m.storage.schema /\ t.table = m.storage.table
       /\ t.columns = RowColumns(TableStatement(m)) /\ t.keys = RowKeys(TableStatement(m))
       /\ \A c \in t.constraints :
             \/ \E a \in DOMAIN IndexNames(m.storage) : c = IndexNames(m.storage)[a]
             \/ \E l \in DOMAIN E : /\ l < s /\ E[l].op = "foreign" /\ E[l].name = c
                                    /\ E[l].schema = t.schema /\ E[l].table = t.table

TablesMade(d, E, s, D) ==
    /\ \A t \in D.tables : TableMade(d, E, s, t)
    /\ \A l \in DOMAIN E : l < s /\ E[l].op = "table" => HasTable(D, E[l].schema, E[l].table)

ForeignMade(d, D) ==
    \A fk \in D.foreign :
       \E m \in ToSet(Stored(d)) : \E key \in ToSet(m.storage.foreignKeys) :
          fk = ForeignStatement(d, m, key) /\ HasTable(D, m.storage.schema, m.storage.table)

DatabaseSound(d, E, s, D) ==
    /\ D = [schemas |-> D.schemas, relations |-> D.relations, tables |-> D.tables, foreign |-> D.foreign]
    /\ SchemasMade(E, s, D) /\ RelationsMade(E, s, D)
    /\ TablesMade(d, E, s, D) /\ ForeignMade(d, D)

ReleaseInv ==
    /\ doc \in Documents
    /\ phase \in {"editing", "applying", "applied", "rejected"}
    /\ phase \in {"editing", "rejected"} => step = 1 /\ db = Fresh
    /\ phase \in {"applying", "applied"} =>
          /\ validate(doc) = <<>> /\ result = compileSchema(doc)
          /\ step \in 1..(Len(emitPostgres(doc)) + 1)
          /\ DatabaseSound(doc, emitPostgres(doc), step, db)
    /\ phase = "applied" => step = Len(emitPostgres(doc)) + 1
    /\ phase = "rejected" => result = compileSchema(doc)

LEMMA AcceptedModels ==
    ASSUME NEW d \in Documents, validate(d) = <<>>
    PROVE  \A m \in ToSet(Stored(d)) :
             /\ SoundModel(m)
             /\ \A k \in DOMAIN m.storage.foreignKeys : foreignKey(d, m, k) = <<>>
<1> SUFFICES ASSUME NEW m \in ToSet(Stored(d))
             PROVE  /\ SoundModel(m)
                    /\ \A k \in DOMAIN m.storage.foreignKeys : foreignKey(d, m, k) = <<>>
  OBVIOUS
<1>1. PICK i \in DOMAIN d.models : d.models[i] = m /\ m.stored
  BY StoredItems
<1>2. m \in Models /\ m.storage \in Storages
  <2>1. m \in Models
    BY <1>1, StoredItems
  <2> QED BY <2>1 DEF Models
<1>3. Sound(d, i) /\ StorageShape(m.storage)
  BY <1>1, Accepted, DocumentShapeReport
<1> QED BY <1>1, <1>2, <1>3 DEF Sound, SoundModel

LEMMA ModelFacts ==
    ASSUME NEW d \in Documents, NEW n \in ModelNames(d)
    PROVE  \E i \in DOMAIN d.models : ModelOf(d, n) = d.models[i] /\ d.models[i].name = n
<1> DEFINE s == d.models
           I == {i \in 1..Len(s) : s[i].name = n}
<1>1. s \in Seq(Models) /\ Len(s) \in Nat /\ DOMAIN s = 1..Len(s)
  BY DEF Documents
<1>2. I # {}
  BY <1>1 DEF ModelNames, ToSet
<1>3. ModelOf(d, n) = s[Max(I)]
  BY <1>2 DEF ModelOf, SelectLastInSeq
<1>4. Max(I) \in I
  BY <1>1, <1>2, MaxOfPositions
<1> QED BY <1>1, <1>3, <1>4

\* A foreign key without a report refers to fields of its model and to a key of another.
LEMMA ForeignFacts ==
    ASSUME NEW d \in Documents, validate(d) = <<>>,
           NEW m \in ToSet(Stored(d)), NEW key \in ToSet(m.storage.foreignKeys)
    PROVE  LET target == ModelOf(d, key.model)
           IN  /\ target \in ToSet(Stored(d)) /\ key \in Foreigns
               /\ Len(key.fields) = Len(key.refFields)
               /\ ToSet(key.fields) \subseteq FieldNames(m)
               /\ ToSet(key.refFields) \subseteq FieldNames(target)
               /\ key.refFields \in ToSet(KeysOf(target.storage))
               /\ FieldListSound(key.refFields)
               /\ \A i \in DOMAIN key.fields :
                     FieldOf(m, key.fields[i]).type = FieldOf(target, key.refFields[i]).type
               /\ key.onDelete = "setNull" => \A n \in ToSet(key.fields) : FieldOf(m, n).nullable = "true"
<1> DEFINE target == ModelOf(d, key.model)
<1>1. SoundModel(m) /\ \A k \in DOMAIN m.storage.foreignKeys : foreignKey(d, m, k) = <<>>
  BY AcceptedModels
<1>2. PICK k \in DOMAIN m.storage.foreignKeys : key = m.storage.foreignKeys[k]
  BY DEF ToSet
<1>3. key \in Foreigns /\ FieldListSound(key.refFields)
  <2>1. m.storage.foreignKeys \in Seq(Foreigns)
    BY <1>1 DEF SoundModel, Storages
  <2> QED BY <1>1, <1>2, <2>1 DEF SoundModel, StorageShape
<1>4. /\ ~ UnknownReference(d, key) /\ ~ UnresolvedFields(m, key, target)
      /\ ~ NonUniqueReference(key, target) /\ ~ TypeMismatch(m, key, target)
      /\ ~ InvalidSetNull(m, key)
  BY <1>1, <1>2, ForeignKeyReport
<1>5. key.model \in ModelNames(d) /\ target.stored
  BY <1>4 DEF UnknownReference
<1>6. PICK i \in DOMAIN d.models : target = d.models[i]
  BY <1>5, ModelFacts
<1> HIDE DEF target
<1>7. target \in ToSet(Stored(d))
  BY <1>5, <1>6, StoredItems
<1>8. /\ Len(key.fields) = Len(key.refFields)
      /\ ToSet(key.fields) \subseteq FieldNames(m)
      /\ ToSet(key.refFields) \subseteq FieldNames(target)
  BY <1>4 DEF UnresolvedFields
<1>9. /\ key.refFields \in ToSet(KeysOf(target.storage))
      /\ \A i1 \in DOMAIN key.fields :
            FieldOf(m, key.fields[i1]).type = FieldOf(target, key.refFields[i1]).type
  BY <1>4 DEF NonUniqueReference, TypeMismatch
<1>10. key.onDelete = "setNull" => \A n \in ToSet(key.fields) : FieldOf(m, n).nullable = "true"
  BY <1>4 DEF InvalidSetNull
<1> QED BY <1>3, <1>7, <1>8, <1>9, <1>10 DEF target

\* The relations a CREATE TABLE makes: the table and the index of each key.
LEMMA NewRelationsFacts ==
    ASSUME NEW m, SoundModel(m)
    PROVE  LET sql == m.storage
               w == NewRelations(TableStatement(m))
           IN  \E g : /\ Permutation(g, DOMAIN IndexNames(sql))
                      /\ DOMAIN w = 1..Len(w) /\ Len(w) \in Nat /\ 1 \in DOMAIN w /\ w[1] = sql.table
                      /\ \A k \in DOMAIN w : k = 1 \/ /\ k - 1 \in DOMAIN IndexNames(sql)
                                                      /\ w[k] = IndexNames(sql)[g[k - 1]]
<1> DEFINE sql == m.storage
           st == TableStatement(m)
           keys == st.keys
           v == [k \in DOMAIN keys |-> keys[k].name]
           w == <<st.table>> \o v
<1>1. m \in Models /\ sql \in Storages
  BY DEF SoundModel
<1>2. PICK g : Clauses(sql, keys, g)
  BY <1>1, ClausesExist
<1>3. st.table = sql.table
  BY DEF TableStatement, CreateTable
<1>4. NewRelations(st) = w
  BY DEF NewRelations
<1> HIDE DEF st, keys
<1>5. /\ DOMAIN IndexNames(sql) = DOMAIN KeysOf(sql) /\ KeysOf(sql) \in Seq(Seq(Int))
      /\ DOMAIN keys = DOMAIN KeysOf(sql)
      /\ Permutation(g, DOMAIN IndexNames(sql))
      /\ \A a \in DOMAIN keys : keys[a].name = IndexNames(sql)[g[a]]
  BY <1>1, <1>2, IndexNamesType DEF Clauses
<1> DEFINE N == {sql.table} \cup {v[k] : k \in DOMAIN keys}
<1>6. v = [k \in DOMAIN KeysOf(sql) |-> v[k]] /\ \A k \in DOMAIN keys : v[k] \in N /\ v[k] = IndexNames(sql)[g[k]]
  BY <1>5
<1>7. sql.table \in N
  OBVIOUS
<1> HIDE DEF v, N, sql
<1>8. v \in Seq(N) /\ DOMAIN v = DOMAIN KeysOf(sql)
  BY <1>5, <1>6, MappedLists
<1>9. /\ w \in Seq(N) /\ Len(v) \in Nat /\ DOMAIN w = 1..(Len(v) + 1) /\ Len(w) = Len(v) + 1 /\ w[1] = sql.table
      /\ \A k \in DOMAIN w : k = 1 \/ (k - 1 \in DOMAIN v /\ w[k] = v[k - 1])
  BY <1>3, <1>7, <1>8, Before
<1> HIDE DEF w
<1>10. DOMAIN w = 1..Len(w) /\ Len(w) \in Nat /\ 1 \in DOMAIN w
  BY <1>9
<1>11. \A k \in DOMAIN w : k = 1 \/ (k - 1 \in DOMAIN IndexNames(sql) /\ w[k] = IndexNames(sql)[g[k - 1]])
  BY <1>5, <1>6, <1>8, <1>9
<1> QED BY <1>4, <1>5, <1>9, <1>10, <1>11 DEF sql, st

LEMMA TablesApart ==
    ASSUME NEW d \in Documents, validate(d) = <<>>
    PROVE  /\ \A x, y \in DOMAIN Stored(d) :
                 x # y /\ Stored(d)[x].storage.schema = Stored(d)[y].storage.schema
                 => Relations(Stored(d)[x]) \cap Relations(Stored(d)[y]) = {}
           /\ \A m \in ToSet(Stored(d)) : SeqUnique(NewRelations(TableStatement(m)))
           /\ \A m, n \in ToSet(Stored(d)) :
                 m.storage.schema = n.storage.schema /\ m.storage.table = n.storage.table => m = n
<1> DEFINE SL == Stored(d)
<1>1. RelationsApart(d)
  BY Accepted, RelationNames DEF NameCollision
<1>2. \A x \in DOMAIN SL : SoundModel(SL[x])
  BY AcceptedModels DEF ToSet
<1> HIDE DEF SL
<1>3. ASSUME NEW x \in DOMAIN SL, NEW y \in DOMAIN SL
      PROVE  LET s == SL[x].storage
                 t == SL[y].storage
             IN  /\ s.schema = t.schema /\ s.table = t.table => x = y
                 /\ \A a \in DOMAIN IndexNames(s) :
                      /\ ~ (s.schema = t.schema /\ IndexNames(s)[a] = t.table)
                      /\ \A b \in DOMAIN IndexNames(t) :
                            s.schema = t.schema /\ IndexNames(s)[a] = IndexNames(t)[b] => x = y /\ a = b
  BY <1>1 DEF RelationsApart, SL
<1>4. ASSUME NEW x \in DOMAIN SL
      PROVE  LET u == IndexNames(SL[x].storage)
                 w == NewRelations(TableStatement(SL[x]))
             IN  \A k \in DOMAIN w : w[k] = SL[x].storage.table \/ \E a \in DOMAIN u : w[k] = u[a]
  <2> DEFINE u == IndexNames(SL[x].storage)
             w == NewRelations(TableStatement(SL[x]))
  <2>1. PICK g : /\ Permutation(g, DOMAIN u) /\ w[1] = SL[x].storage.table
                 /\ \A k \in DOMAIN w : k = 1 \/ (k - 1 \in DOMAIN u /\ w[k] = u[g[k - 1]])
    BY <1>2, NewRelationsFacts
  <2>2. \A a \in DOMAIN u : g[a] \in DOMAIN u
    BY <2>1 DEF Permutation
  <2> HIDE DEF u, w
  <2>3. \A k \in DOMAIN w : w[k] = SL[x].storage.table \/ \E a \in DOMAIN u : w[k] = u[a]
    BY <2>1, <2>2
  <2> QED BY <2>3 DEF u, w
<1>5. ASSUME NEW x \in DOMAIN SL, NEW y \in DOMAIN SL, x # y,
             SL[x].storage.schema = SL[y].storage.schema
      PROVE  Relations(SL[x]) \cap Relations(SL[y]) = {}
  <2> DEFINE u == IndexNames(SL[x].storage)
             v == IndexNames(SL[y].storage)
  <2> SUFFICES ASSUME NEW r \in Relations(SL[x]), r \in Relations(SL[y]) PROVE FALSE
    OBVIOUS
  <2>1. r = SL[x].storage.table \/ \E a \in DOMAIN u : r = u[a]
    BY <1>4 DEF Relations, ToSet
  <2>2. r = SL[y].storage.table \/ \E b \in DOMAIN v : r = v[b]
    BY <1>4 DEF Relations, ToSet
  <2> DEFINE s == SL[x].storage
             t == SL[y].storage
  <2>s. s.schema = t.schema /\ x # y
    BY <1>5
  <2>f. /\ s.schema = t.schema /\ s.table = t.table => x = y
        /\ \A a \in DOMAIN u :
              /\ ~ (s.schema = t.schema /\ u[a] = t.table)
              /\ \A b \in DOMAIN v : s.schema = t.schema /\ u[a] = v[b] => x = y /\ a = b
    BY <1>3
  <2>0. /\ ~ (SL[x].storage.table = SL[y].storage.table)
        /\ \A a \in DOMAIN u : /\ u[a] # SL[y].storage.table
                               /\ \A b \in DOMAIN v : u[a] # v[b]
    <3> HIDE DEF u, v
    <3>1. ~ (s.table = t.table)
      BY <2>s, <2>f
    <3>2. \A a \in DOMAIN u : u[a] # t.table
      BY <2>s, <2>f
    <3>3. \A a \in DOMAIN u : \A b \in DOMAIN v : u[a] # v[b]
      BY <2>s, <2>f
    <3> QED BY <3>1, <3>2, <3>3
  <2>x. \A b \in DOMAIN v : v[b] # SL[x].storage.table
    <3>1. SL[y].storage.schema = SL[x].storage.schema
      BY <1>5
    <3> QED BY <1>3, <3>1
  <2> HIDE DEF u, v
  <2> QED BY <2>0, <2>1, <2>2, <2>x
<1>6. ASSUME NEW x \in DOMAIN SL PROVE SeqUnique(NewRelations(TableStatement(SL[x])))
  <2> DEFINE sql == SL[x].storage
             u == IndexNames(sql)
             w == NewRelations(TableStatement(SL[x]))
  <2>1. PICK g : /\ Permutation(g, DOMAIN u)
                 /\ DOMAIN w = 1..Len(w) /\ Len(w) \in Nat /\ w[1] = sql.table
                 /\ \A k \in DOMAIN w : k = 1 \/ (k - 1 \in DOMAIN u /\ w[k] = u[g[k - 1]])
    BY <1>2, NewRelationsFacts
  <2>2. \A a \in DOMAIN u : u[a] # sql.table /\ \A b \in DOMAIN u : u[a] = u[b] => a = b
    BY <1>3
  <2>3. /\ \A a \in DOMAIN u : g[a] \in DOMAIN u
        /\ \A a, b \in DOMAIN u : g[a] = g[b] => a = b
    BY <2>1 DEF Permutation
  <2> HIDE DEF u, w, sql
  <2>4. ASSUME NEW k \in DOMAIN w, NEW l \in DOMAIN w, w[k] = w[l] PROVE k = l
    <3>1. CASE k = 1 /\ l = 1
      BY <3>1
    <3>2. CASE k # 1 /\ l = 1
      BY <2>1, <2>2, <2>3, <2>4, <3>2
    <3>3. CASE k = 1 /\ l # 1
      BY <2>1, <2>2, <2>3, <2>4, <3>3
    <3>4. CASE k # 1 /\ l # 1
      <4>1. /\ k - 1 \in DOMAIN u /\ l - 1 \in DOMAIN u /\ g[k - 1] \in DOMAIN u /\ g[l - 1] \in DOMAIN u
            /\ u[g[k - 1]] = u[g[l - 1]]
        BY <2>1, <2>3, <2>4, <3>4
      <4>2. k - 1 = l - 1
        BY <2>2, <2>3, <4>1
      <4>3. k \in Nat /\ l \in Nat
        BY <2>1
      <4> QED BY <4>2, <4>3
    <3> QED BY <3>1, <3>2, <3>3, <3>4
  <2> QED BY <2>4 DEF SeqUnique, IsInjective, w
<1>7. \A m \in ToSet(SL) : SeqUnique(NewRelations(TableStatement(m)))
  BY <1>6 DEF ToSet
<1>8. \A m, n \in ToSet(SL) : m.storage.schema = n.storage.schema /\ m.storage.table = n.storage.table => m = n
  BY <1>3 DEF ToSet
<1> QED BY <1>5, <1>7, <1>8 DEF SL

\* The statements that are emitted for an accepted document are in such an order.
LEMMA OrderlyHolds ==
    ASSUME NEW d \in Documents, validate(d) = <<>>
    PROVE  Orderly(d, emitPostgres(d))
<1> DEFINE SL == Stored(d)
           E == emitPostgres(d)
<1>1. PICK schemas, models, keys, off : Layout(d, E, schemas, models, keys, off)
  BY Accepted, Emitted
<1> DEFINE a == Len(schemas)
           b == a + Len(models)
<1>2. PICK p : Permutation(p, DOMAIN SL) /\ models = [r \in DOMAIN SL |-> SL[p[r]]]
  BY <1>1 DEF Layout, Rearranged
<1> HIDE DEF E
<1>3. /\ SL \in Seq(Models)
      /\ \A x, y \in DOMAIN SL : x # y /\ SL[x].storage.schema = SL[y].storage.schema
                                 => Relations(SL[x]) \cap Relations(SL[y]) = {}
      /\ \A m \in ToSet(SL) : SoundModel(m) /\ ConstraintsApart(d, m.storage)
  BY StoredItems, TablesApart, AcceptedModels, Accepted, ConstraintNames
<1> HIDE DEF SL
<1>4. /\ models \in Seq(Models) /\ DOMAIN models = DOMAIN SL /\ Len(models) \in Nat /\ DOMAIN models = 1..Len(models)
      /\ \A i \in DOMAIN SL : \E r \in DOMAIN models : models[r] = SL[i]
  <2>1. Rearranged(SL, models)
    BY <1>2 DEF Rearranged
  <2>2. models \in Seq(Models) /\ DOMAIN models = DOMAIN SL
    BY <1>3, <2>1, RearrangedItems
  <2>3. \A i \in DOMAIN SL : \E r \in DOMAIN models : models[r] = SL[i]
    BY <1>3, <2>1, RearrangedItems
  <2> QED BY <2>2, <2>3
<1>5. \A x \in DOMAIN models : p[x] \in DOMAIN SL /\ models[x] = SL[p[x]] /\ models[x] \in ToSet(SL)
  BY <1>2, <1>4 DEF Permutation, ToSet
<1>6. \A x, y \in DOMAIN models : x # y /\ models[x].storage.schema = models[y].storage.schema
                                  => Relations(models[x]) \cap Relations(models[y]) = {}
  <2>1. \A x, y \in DOMAIN models : p[x] = p[y] => x = y
    BY <1>2, <1>4 DEF Permutation
  <2> QED BY <1>3, <1>5, <2>1
<1>7. \A m \in ToSet(SL) : m.storage.table \in Relations(m)
  <2> SUFFICES ASSUME NEW m \in ToSet(SL) PROVE m.storage.table \in Relations(m)
    OBVIOUS
  <2> DEFINE w == NewRelations(TableStatement(m))
  <2>1. 1 \in DOMAIN w /\ w[1] = m.storage.table
    BY <1>3, NewRelationsFacts
  <2> QED BY <2>1 DEF Relations, ToSet
<1>8. /\ schemas \in Seq(Int) /\ \A i, j \in DOMAIN schemas : schemas[i] = schemas[j] => i = j
      /\ ToSet(schemas) = {m.storage.schema : m \in ToSet(models)} \ {PublicSchema}
      /\ off \in [DOMAIN models -> Nat]
      /\ Len(E) \in Nat /\ DOMAIN E = 1..Len(E)
      /\ \A i \in DOMAIN schemas : i \in DOMAIN E /\ E[i] = CreateSchema(schemas[i])
      /\ \A i \in DOMAIN models : a + i \in DOMAIN E /\ E[a + i] = TableStatement(models[i])
      /\ \A i \in DOMAIN models : \A j \in DOMAIN keys[i] :
            /\ b + off[i] + j \in DOMAIN E
            /\ E[b + off[i] + j] = ForeignStatement(d, models[i], keys[i][j])
      /\ \A k \in DOMAIN E :
            \/ k \in DOMAIN schemas
            \/ \E i \in DOMAIN models : k = a + i
            \/ \E i \in DOMAIN models : \E j \in DOMAIN keys[i] : k = b + off[i] + j
  BY <1>1 DEF Layout
<1>9. \A i \in DOMAIN models : /\ Rearranged(models[i].storage.foreignKeys, keys[i])
                               /\ models[i].storage.foreignKeys \in Seq(Foreigns)
  <2>1. \A m \in ToSet(SL) : m.storage.foreignKeys \in Seq(Foreigns)
    BY <1>3 DEF SoundModel, Storages
  <2> QED BY <1>1, <1>5, <2>1 DEF Layout
<1>10. /\ a \in Nat /\ DOMAIN schemas = 1..a /\ b \in Nat
       /\ \A i \in DOMAIN models : i \in Nat /\ 1 <= i /\ a + i <= b /\ off[i] \in Nat
  <2>1. a \in Nat /\ DOMAIN schemas = 1..a
    BY <1>8
  <2> DEFINE n == Len(models)
  <2>2. n \in Nat /\ DOMAIN models = 1..n /\ b = a + n
    BY <1>4
  <2>3. \A i \in DOMAIN models : off[i] \in Nat
    BY <1>8
  <2> HIDE DEF a, b, n
  <2>4. b \in Nat /\ \A i \in DOMAIN models : i \in Nat /\ 1 <= i /\ a + i <= b
    BY <2>1, <2>2
  <2> QED BY <2>1, <2>3, <2>4
<1>11. \A i \in DOMAIN models : \A j \in DOMAIN keys[i] : j \in Nat /\ 1 <= j
  <2> SUFFICES ASSUME NEW i \in DOMAIN models, NEW j \in DOMAIN keys[i] PROVE j \in Nat /\ 1 <= j
    OBVIOUS
  <2>1. keys[i] \in Seq(Foreigns)
    BY <1>9, RearrangedItems
  <2> QED BY <2>1
<1> HIDE DEF a, b
<1> DEFINE Schema(k) == k \in DOMAIN schemas /\ E[k] = CreateSchema(schemas[k])
           Table(k, i) == i \in DOMAIN models /\ k = a + i /\ E[k] = TableStatement(models[i])
           Key(k, i, j) == /\ i \in DOMAIN models /\ j \in DOMAIN keys[i] /\ k = b + off[i] + j
                           /\ E[k] = ForeignStatement(d, models[i], keys[i][j])
<1>12. \A k \in DOMAIN E : Schema(k) \/ (\E i : Table(k, i)) \/ \E i, j : Key(k, i, j)
  BY <1>8
<1>13. /\ \A k : Schema(k) => E[k].op = "schema" /\ E[k].schema = schemas[k]
       /\ \A k, i : Table(k, i) => E[k].op = "table"
       /\ \A k, i, j : Key(k, i, j) =>
             /\ E[k].op = "foreign" /\ E[k].schema = models[i].storage.schema
             /\ E[k].table = models[i].storage.table
             /\ E[k].name = ForeignName(d, models[i].storage, keys[i][j])
  <2>1. \A k : Schema(k) => E[k].op = "schema" /\ E[k].schema = schemas[k]
    BY DEF CreateSchema
  <2>2. \A m : TableStatement(m).op = "table"
    BY DEF TableStatement, CreateTable
  <2>3. \A m, key : LET st == ForeignStatement(d, m, key)
                    IN  /\ st.op = "foreign" /\ st.schema = m.storage.schema /\ st.table = m.storage.table
                        /\ st.name = ForeignName(d, m.storage, key)
    BY DEF ForeignStatement, AddForeignKey
  <2> QED BY <2>1, <2>2, <2>3
<1>14. ASSUME NEW k \in DOMAIN E, Schema(k) PROVE SchemaInOrder(d, E, k)
  <2>1. schemas[k] # PublicSchema
    BY <1>8, <1>14 DEF ToSet
  <2>2. ASSUME NEW l \in DOMAIN E, l < k, E[l].op = "schema" PROVE E[l].schema # E[k].schema
    <3>1. Schema(l)
      BY <1>12, <1>13, <2>2
    <3>2. k \in Nat /\ l \in Nat
      BY <1>8
    <3> QED BY <1>8, <1>13, <1>14, <2>2, <3>1, <3>2
  <2> QED BY <1>13, <1>14, <2>1, <2>2 DEF SchemaInOrder
<1>15. ASSUME NEW k \in DOMAIN E, NEW i, Table(k, i) PROVE TableInOrder(d, E, k)
  <2> DEFINE m == models[i]
  <2>1. m \in ToSet(SL) /\ E[k] = TableStatement(m) /\ k = a + i /\ i \in DOMAIN models
    BY <1>5, <1>15
  <2> HIDE DEF Schema, Table, Key
  <2>2. \/ m.storage.schema = PublicSchema
        \/ \E l \in DOMAIN E : l < k /\ E[l].op = "schema" /\ E[l].schema = m.storage.schema
    <3>1. CASE m.storage.schema # PublicSchema
      <4>1. m \in ToSet(models)
        BY <2>1 DEF ToSet
      <4>x. m.storage.schema \in ToSet(schemas)
        BY <1>8, <3>1, <4>1
      <4>2. PICK l \in DOMAIN schemas : schemas[l] = m.storage.schema
        BY <4>x DEF ToSet
      <4>3. Schema(l) /\ l \in DOMAIN E
        BY <1>8, <4>2 DEF Schema
      <4>4. l < k
        BY <1>10, <2>1, <4>2
      <4> QED BY <1>13, <4>2, <4>3, <4>4
    <3> QED BY <3>1
  <2>3. ASSUME NEW l \in DOMAIN E, l < k, E[l].op = "table"
        PROVE  \E n \in ToSet(SL) : /\ E[l] = TableStatement(n)
                                    /\ m.storage.schema = n.storage.schema => Relations(m) \cap Relations(n) = {}
    <3>1. PICK y : Table(l, y)
      BY <1>12, <1>13, <2>3
    <3>2. y \in DOMAIN models /\ l = a + y /\ E[l] = TableStatement(models[y])
      BY <3>1 DEF Table
    <3>3. y # i
      BY <1>10, <2>1, <2>3, <3>2
    <3> QED BY <1>5, <1>6, <2>1, <3>2, <3>3
  <2> QED BY <2>1, <2>2, <2>3 DEF TableInOrder, SL
<1>16. ASSUME NEW n \in ToSet(SL) PROVE \E x \in DOMAIN models : a + x \in DOMAIN E /\ E[a + x] = TableStatement(n)
  <2>1. PICK x \in DOMAIN models : models[x] = n
    BY <1>4 DEF ToSet
  <2> QED BY <1>8, <2>1
<1>17. ASSUME NEW k \in DOMAIN E, NEW i, NEW j, Key(k, i, j) PROVE ForeignInOrder(d, E, k)
  <2> DEFINE m == models[i]
             key == keys[i][j]
             fk == m.storage.foreignKeys
  <2>1. m \in ToSet(SL) /\ i \in DOMAIN models /\ j \in DOMAIN keys[i] /\ k = b + off[i] + j
    BY <1>5, <1>17
  <2>2. PICK q : Permutation(q, DOMAIN fk) /\ keys[i] = [r \in DOMAIN fk |-> fk[q[r]]]
    BY <1>9, <2>1 DEF Rearranged
  <2>3. \A r \in DOMAIN keys[i] : q[r] \in DOMAIN fk /\ keys[i][r] = fk[q[r]]
    BY <2>2 DEF Permutation
  <2>4. \A r, s \in DOMAIN keys[i] : q[r] = q[s] => r = s
    BY <2>2 DEF Permutation
  <2>5. key \in ToSet(fk)
    BY <2>1, <2>3 DEF ToSet
  <2>6. E[k] = ForeignStatement(d, m, key)
    BY <1>17
  <2> HIDE DEF Schema, Table, Key
  <2>7. ASSUME NEW n \in ToSet(SL) PROVE \E l \in DOMAIN E : l < k /\ E[l] = TableStatement(n)
    <3>1. PICK x \in DOMAIN models : a + x \in DOMAIN E /\ E[a + x] = TableStatement(n)
      BY <1>16
    <3>2. a + x < k
      <4> DEFINE o == off[i]
      <4>1. o \in Nat /\ j \in Nat /\ 1 <= j /\ x \in Nat /\ a + x <= b /\ k = b + o + j
        BY <1>10, <1>11, <2>1
      <4> HIDE DEF o
      <4> QED BY <1>10, <4>1
    <3> QED BY <3>1, <3>2
  <2>8. ASSUME NEW l \in DOMAIN E, l < k, E[l].op = "foreign",
               E[l].schema = m.storage.schema, E[l].table = m.storage.table
        PROVE  E[l].name # E[k].name
    <3>1. PICK x, y : Key(l, x, y)
      BY <1>12, <1>13, <2>8
    <3>2. x \in DOMAIN models /\ y \in DOMAIN keys[x] /\ l = b + off[x] + y
      BY <3>1 DEF Key
    <3>3. models[x].storage.schema = m.storage.schema /\ models[x].storage.table = m.storage.table
      BY <1>13, <2>8, <3>1
    <3>4. x = i
      <4>1. m.storage.table \in Relations(m) /\ models[x].storage.table \in Relations(models[x])
        BY <1>5, <1>7, <2>1, <3>2
      <4> QED BY <1>6, <2>1, <3>2, <3>3, <4>1
    <3>5. y # j
      <4>1. y = j => l = k
        BY <2>1, <3>2, <3>4
      <4>2. l # k
        BY <1>8, <2>8
      <4> QED BY <4>1, <4>2
    <3>6. q[y] # q[j] /\ q[y] \in DOMAIN fk /\ q[j] \in DOMAIN fk
      BY <2>1, <2>3, <2>4, <3>2, <3>4, <3>5
    <3>7. ForeignName(d, m.storage, fk[q[y]]) # ForeignName(d, m.storage, fk[q[j]])
      BY <1>3, <2>1, <3>6 DEF ConstraintsApart
    <3>8. E[l].name = ForeignName(d, m.storage, keys[i][y])
      BY <1>13, <3>1, <3>4
    <3>9. E[k].name = ForeignName(d, m.storage, keys[i][j])
      BY <1>13, <1>17
    <3> QED BY <2>1, <2>3, <3>2, <3>4, <3>7, <3>8, <3>9
  <2> QED BY <2>1, <2>5, <2>6, <2>7, <2>8 DEF ForeignInOrder, SL
<1>18. \A k \in DOMAIN E : SchemaInOrder(d, E, k) \/ TableInOrder(d, E, k) \/ ForeignInOrder(d, E, k)
  BY <1>12, <1>14, <1>15, <1>17
<1>19. \A n \in ToSet(SL) : \E l \in DOMAIN E : E[l] = TableStatement(n)
  BY <1>16
<1> QED BY <1>8, <1>18, <1>19 DEF Orderly, SL, E
-----------------------------------------------------------------------------
(* One statement: it can be run, and the database is as described after it.*)

\* The table of a model is found by its name.
LEMMA TableFound ==
    ASSUME NEW d \in Documents, validate(d) = <<>>, NEW E, NEW s, NEW D, TablesMade(d, E, s, D),
           NEW m \in ToSet(Stored(d)), HasTable(D, m.storage.schema, m.storage.table)
    PROVE  LET t == TableOf(D, m.storage.schema, m.storage.table)
           IN  /\ t \in D.tables /\ t.schema = m.storage.schema /\ t.table = m.storage.table
               /\ t.columns = RowColumns(TableStatement(m)) /\ t.keys = RowKeys(TableStatement(m))
               /\ \A c \in t.constraints :
                     \/ \E a \in DOMAIN IndexNames(m.storage) : c = IndexNames(m.storage)[a]
                     \/ \E l \in DOMAIN E : /\ l < s /\ E[l].op = "foreign" /\ E[l].name = c
                                            /\ E[l].schema = t.schema /\ E[l].table = t.table
<1> DEFINE t == TableOf(D, m.storage.schema, m.storage.table)
<1>1. t \in D.tables /\ t.schema = m.storage.schema /\ t.table = m.storage.table
  BY DEF TableOf, HasTable
<1> HIDE DEF t
<1>2. PICK n \in ToSet(Stored(d)) :
        /\ t.schema = n.storage.schema /\ t.table = n.storage.table
        /\ t.columns = RowColumns(TableStatement(n)) /\ t.keys = RowKeys(TableStatement(n))
        /\ \A c \in t.constraints :
              \/ \E a \in DOMAIN IndexNames(n.storage) : c = IndexNames(n.storage)[a]
              \/ \E l \in DOMAIN E : /\ l < s /\ E[l].op = "foreign" /\ E[l].name = c
                                     /\ E[l].schema = t.schema /\ E[l].table = t.table
  BY <1>1 DEF TablesMade, TableMade
<1>3. n = m
  <2>1. n.storage.schema = m.storage.schema /\ n.storage.table = m.storage.table
    BY <1>1, <1>2
  <2> QED BY <2>1, TablesApart
<1> QED BY <1>1, <1>2, <1>3 DEF t

\* What was there before the s-th statement is there before the next one.
LEMMA Later ==
    ASSUME NEW d, NEW E, DOMAIN E = 1..Len(E), Len(E) \in Nat, NEW s \in DOMAIN E, NEW t, TableMade(d, E, s, t)
    PROVE  TableMade(d, E, s + 1, t)
<1>1. \A l \in DOMAIN E : l < s => l < s + 1
  OBVIOUS
<1> QED BY <1>1 DEF TableMade

LEMMA Positions ==
    ASSUME NEW E, DOMAIN E = 1..Len(E), Len(E) \in Nat, NEW s \in DOMAIN E
    PROVE  /\ s < s + 1 /\ \A l \in DOMAIN E : l < s + 1 <=> l < s \/ l = s
OBVIOUS

LEMMA SchemaStep ==
    ASSUME NEW d \in Documents, validate(d) = <<>>, NEW E, Orderly(d, E), NEW s \in DOMAIN E,
           NEW D, DatabaseSound(d, E, s, D), SchemaInOrder(d, E, s)
    PROVE  CanExecute(D, E[s]) /\ DatabaseSound(d, E, s + 1, Execute(D, E[s]))
<1> DEFINE st == E[s]
           D2 == [schemas |-> D.schemas \cup {st.schema}, relations |-> D.relations,
                  tables |-> D.tables, foreign |-> D.foreign]
<1>1. /\ D = [schemas |-> D.schemas, relations |-> D.relations, tables |-> D.tables, foreign |-> D.foreign]
      /\ SchemasMade(E, s, D) /\ RelationsMade(E, s, D) /\ TablesMade(d, E, s, D) /\ ForeignMade(d, D)
  BY DEF DatabaseSound
<1>2. st.op = "schema" /\ st.schema # PublicSchema
      /\ \A l \in DOMAIN E : l < s /\ E[l].op = "schema" => E[l].schema # st.schema
  BY DEF SchemaInOrder
<1>3. DOMAIN E = 1..Len(E) /\ Len(E) \in Nat
  BY DEF Orderly
<1>4. s < s + 1 /\ \A l \in DOMAIN E : l < s + 1 <=> l < s \/ l = s
  BY <1>3, Positions
<1> HIDE DEF st
<1>5. CanExecute(D, st)
  <2>1. st.schema \notin D.schemas
    BY <1>1, <1>2 DEF SchemasMade
  <2> QED BY <1>2, <2>1 DEF CanExecute, CanCreateSchema
<1>6. Execute(D, st) = D2
  <2>1. Execute(D, st) = [D EXCEPT !.schemas = @ \cup {st.schema}]
    BY <1>2 DEF Execute, DoCreateSchema
  <2> QED BY <1>1, <2>1
<1>7. SchemasMade(E, s + 1, D2)
  BY <1>1, <1>2, <1>4 DEF SchemasMade, st
<1>8. RelationsMade(E, s + 1, D2)
  BY <1>1, <1>4 DEF RelationsMade
<1>9. TablesMade(d, E, s + 1, D2)
  <2>1. \A t \in D.tables : TableMade(d, E, s + 1, t)
    BY <1>1, <1>3, Later DEF TablesMade
  <2>2. \A l \in DOMAIN E : l < s + 1 /\ E[l].op = "table" => HasTable(D, E[l].schema, E[l].table)
    BY <1>1, <1>2, <1>4 DEF TablesMade, st
  <2> QED BY <2>1, <2>2 DEF TablesMade, HasTable
<1>10. ForeignMade(d, D2)
  BY <1>1 DEF ForeignMade, HasTable
<1> QED BY <1>5, <1>6, <1>7, <1>8, <1>9, <1>10 DEF DatabaseSound, st

\* The keys of a table are lists of its columns without repetition.
LEMMA KeysSound ==
    ASSUME NEW m, SoundModel(m)
    PROVE  \A k \in DOMAIN KeysOf(m.storage) :
             LET key == KeysOf(m.storage)[k]
             IN  /\ key \in Seq(Int) /\ ToSet(key) \subseteq FieldNames(m)
                 /\ SeqUnique(columns(m.storage, key))
                 /\ ToSet(columns(m.storage, key)) \subseteq Names(TableStatement(m).columns)
<1> DEFINE sql == m.storage
           K == KeysOf(sql)
           u == sql.uniqueKeys
<1>1. sql \in Storages /\ StorageShape(sql) /\ \A k \in DOMAIN K : ToSet(K[k]) \subseteq FieldNames(m)
  BY DEF SoundModel
<1>2. /\ K \in Seq(Seq(Int)) /\ Len(K) = Len(u) + 1 /\ K[1] = sql.primaryKey
      /\ \A k \in DOMAIN u : K[k + 1] = u[k]
  BY <1>1, KeysType
<1>3. u \in Seq(Seq(Int))
  BY <1>1 DEF Storages
<1> HIDE DEF K
<1>4. ASSUME NEW k \in DOMAIN K PROVE SeqUnique(K[k]) /\ K[k] \in Seq(Int)
  <2>1. K[k] \in Seq(Int)
    <3> DEFINE T == Seq(Int)
    <3>1. K \in Seq(T)
      BY <1>2
    <3> HIDE DEF T
    <3>2. K[k] \in T
      BY <3>1
    <3> QED BY <3>2 DEF T
  <2>2. CASE k = 1
    BY <1>1, <1>2, <2>1, <2>2 DEF StorageShape, FieldListSound
  <2>3. CASE k # 1
    <3> DEFINE n == Len(u)
    <3>1. n \in Nat /\ DOMAIN u = 1..n /\ DOMAIN K = 1..(n + 1)
      BY <1>2, <1>3
    <3> HIDE DEF n, u
    <3>2. k - 1 \in DOMAIN u /\ (k - 1) + 1 = k
      BY <2>3, <3>1
    <3>3. K[k] = u[k - 1]
      <4> DEFINE x == k - 1
      <4>1. x \in DOMAIN u /\ x + 1 = k
        BY <3>2
      <4> HIDE DEF x
      <4>2. K[x + 1] = u[x]
        BY <1>2, <4>1
      <4> QED BY <4>1, <4>2 DEF x
    <3>4. SeqUnique(u[k - 1])
      BY <1>1, <3>2 DEF u, StorageShape, FieldListSound
    <3> QED BY <2>1, <3>3, <3>4
  <2> QED BY <2>2, <2>3
<1>5. Names(TableStatement(m).columns) = Names(sql.columns)
  BY ColumnStatement
<1>6. ASSUME NEW k \in DOMAIN K
      PROVE  /\ SeqUnique(columns(sql, K[k]))
             /\ ToSet(columns(sql, K[k])) \subseteq Names(sql.columns)
  <2>1. K[k] \in Seq(Int) /\ ToSet(K[k]) \subseteq FieldNames(m) /\ SeqUnique(K[k])
    BY <1>1, <1>4
  <2> QED BY <2>1, KeyColumns
<1> QED BY <1>1, <1>4, <1>5, <1>6 DEF K

LEMMA TableCreatable ==
    ASSUME NEW d \in Documents, validate(d) = <<>>, NEW E, NEW s \in DOMAIN E,
           NEW D, DatabaseSound(d, E, s, D), TableInOrder(d, E, s)
    PROVE  CanCreateTable(D, E[s])
<1> DEFINE st == E[s]
<1>1. SchemasMade(E, s, D) /\ RelationsMade(E, s, D)
  BY DEF DatabaseSound
<1>2. PICK m \in ToSet(Stored(d)) :
        /\ st = TableStatement(m)
        /\ \/ m.storage.schema = PublicSchema
           \/ \E l \in DOMAIN E : l < s /\ E[l].op = "schema" /\ E[l].schema = m.storage.schema
        /\ \A l \in DOMAIN E : l < s /\ E[l].op = "table" =>
              \E n \in ToSet(Stored(d)) :
                 /\ E[l] = TableStatement(n)
                 /\ m.storage.schema = n.storage.schema => Relations(m) \cap Relations(n) = {}
  BY DEF TableInOrder
<1> DEFINE sql == m.storage
<1>3. SoundModel(m) /\ SeqUnique(NewRelations(st))
  BY <1>2, AcceptedModels, TablesApart
<1>4. /\ st.op = "table" /\ st.schema = sql.schema /\ st.table = sql.table
      /\ SeqUnique([k \in DOMAIN st.columns |-> st.columns[k].name])
      /\ Names(st.columns) = Names(sql.columns)
  BY <1>2, <1>3, ColumnStatement
<1>5. \A n : TableStatement(n).schema = n.storage.schema
  BY DEF TableStatement, CreateTable
<1> HIDE DEF st
<1>6. st.schema \in D.schemas
  BY <1>1, <1>2, <1>4 DEF SchemasMade
<1>7. ASSUME NEW n \in ToSet(NewRelations(st)), <<st.schema, n>> \in D.relations PROVE FALSE
  <2> DEFINE r == <<st.schema, n>>
  <2>1. PICK l \in DOMAIN E : /\ l < s /\ E[l].op = "table"
                              /\ r[1] = E[l].schema /\ r[2] \in ToSet(NewRelations(E[l]))
    BY <1>1, <1>7 DEF RelationsMade
  <2>2. st.schema = E[l].schema /\ n \in ToSet(NewRelations(E[l]))
    BY <2>1
  <2>3. PICK x \in ToSet(Stored(d)) :
          /\ E[l] = TableStatement(x)
          /\ m.storage.schema = x.storage.schema => Relations(m) \cap Relations(x) = {}
    BY <1>2, <2>1
  <2>4. n \in Relations(m) /\ n \in Relations(x)
    BY <1>2, <1>7, <2>2, <2>3 DEF Relations
  <2> QED BY <1>4, <1>5, <2>2, <2>3, <2>4
<1>8. Names(st.columns) \cap SystemColumns = {}
  BY <1>3, <1>4 DEF SoundModel
<1>9. ASSUME NEW k \in ToSet(st.keys)
      PROVE  SeqUnique(k.columns) /\ ToSet(k.columns) \subseteq Names(st.columns)
  <2>1. PICK g : Clauses(sql, st.keys, g)
    BY <1>2, <1>3, ClausesExist DEF SoundModel
  <2>2. PICK a \in DOMAIN st.keys : k = st.keys[a]
    BY DEF ToSet
  <2>3. g[a] \in DOMAIN KeysOf(sql) /\ k.columns = columns(sql, KeysOf(sql)[g[a]])
    BY <2>1, <2>2 DEF Clauses, Permutation
  <2> DEFINE x == g[a]
  <2>4. x \in DOMAIN KeysOf(sql) /\ k.columns = columns(sql, KeysOf(sql)[x])
    BY <2>3
  <2> HIDE DEF x
  <2>5. /\ SeqUnique(columns(sql, KeysOf(sql)[x]))
        /\ ToSet(columns(sql, KeysOf(sql)[x])) \subseteq Names(TableStatement(m).columns)
    BY <1>3, <2>4, KeysSound
  <2> QED BY <1>2, <2>4, <2>5
<1> QED BY <1>3, <1>4, <1>6, <1>7, <1>8, <1>9 DEF CanCreateTable, st

LEMMA TableStep ==
    ASSUME NEW d \in Documents, validate(d) = <<>>, NEW E, Orderly(d, E), NEW s \in DOMAIN E,
           NEW D, DatabaseSound(d, E, s, D), TableInOrder(d, E, s)
    PROVE  CanExecute(D, E[s]) /\ DatabaseSound(d, E, s + 1, Execute(D, E[s]))
<1> DEFINE st == E[s]
           row == [schema |-> st.schema, table |-> st.table, columns |-> RowColumns(st),
                   keys |-> RowKeys(st), constraints |-> {k.name : k \in ToSet(st.keys)}]
           made == {<<st.schema, n>> : n \in ToSet(NewRelations(st))}
           D2 == [schemas |-> D.schemas, relations |-> D.relations \cup made,
                  tables |-> D.tables \cup {row}, foreign |-> D.foreign]
<1>1. /\ D = [schemas |-> D.schemas, relations |-> D.relations, tables |-> D.tables, foreign |-> D.foreign]
      /\ SchemasMade(E, s, D) /\ RelationsMade(E, s, D) /\ TablesMade(d, E, s, D) /\ ForeignMade(d, D)
  BY DEF DatabaseSound
<1>2. PICK m \in ToSet(Stored(d)) : st = TableStatement(m)
  BY DEF TableInOrder
<1>3. SoundModel(m) /\ st.op = "table" /\ st.schema = m.storage.schema /\ st.table = m.storage.table
  <2>1. SoundModel(m)
    BY AcceptedModels
  <2> QED BY <1>2, <2>1, ColumnStatement
<1>4. DOMAIN E = 1..Len(E) /\ Len(E) \in Nat
  BY DEF Orderly
<1>5. s < s + 1 /\ \A l \in DOMAIN E : l < s + 1 <=> l < s \/ l = s
  BY <1>4, Positions
<1>6. CanExecute(D, st)
  BY <1>3, TableCreatable DEF CanExecute
<1>7. Execute(D, st) = D2
  <2>1. Execute(D, st) = DoCreateTable(D, st)
    BY <1>3 DEF Execute
  <2>2. DoCreateTable(D, st) = [D EXCEPT !.tables = @ \cup {row}, !.relations = @ \cup made]
    BY DEF DoCreateTable, RowColumns, RowKeys
  <2> HIDE DEF row, made, st
  <2> QED BY <1>1, <2>1, <2>2
<1>8. row.schema = st.schema /\ row.table = st.table /\ row.columns = RowColumns(st) /\ row.keys = RowKeys(st)
      /\ row.constraints = {k.name : k \in ToSet(st.keys)}
  OBVIOUS
<1> HIDE DEF row
<1>9. SchemasMade(E, s + 1, D2)
  BY <1>1, <1>3, <1>5 DEF SchemasMade
<1>10. RelationsMade(E, s + 1, D2)
  <2> SUFFICES ASSUME NEW r \in D.relations \cup made
               PROVE  \E l \in DOMAIN E : /\ l < s + 1 /\ E[l].op = "table"
                                          /\ r[1] = E[l].schema /\ r[2] \in ToSet(NewRelations(E[l]))
    BY DEF RelationsMade
  <2>1. CASE r \in D.relations
    BY <1>1, <1>5, <2>1 DEF RelationsMade
  <2>2. CASE r \in made
    <3>1. PICK n \in ToSet(NewRelations(st)) : r = <<st.schema, n>>
      BY <2>2
    <3>2. r[1] = st.schema /\ r[2] \in ToSet(NewRelations(st))
      BY <3>1
    <3> QED BY <1>3, <1>5, <3>2
  <2> QED BY <2>1, <2>2
<1>11. TableMade(d, E, s + 1, row)
  <2>1. PICK g : Clauses(m.storage, st.keys, g)
    BY <1>2, <1>3, ClausesExist DEF SoundModel
  <2>2. ASSUME NEW c \in row.constraints
        PROVE  \E a \in DOMAIN IndexNames(m.storage) : c = IndexNames(m.storage)[a]
    <3>1. PICK k \in ToSet(st.keys) : c = k.name
      BY <1>8, <2>2
    <3>2. PICK a \in DOMAIN st.keys : k = st.keys[a]
      BY DEF ToSet
    <3>3. g[a] \in DOMAIN KeysOf(m.storage) /\ c = IndexNames(m.storage)[g[a]]
      BY <2>1, <3>1, <3>2 DEF Clauses, Permutation
    <3>4. DOMAIN IndexNames(m.storage) = DOMAIN KeysOf(m.storage)
      BY <1>3, IndexNamesType DEF SoundModel
    <3> QED BY <3>3, <3>4
  <2> QED BY <1>2, <1>3, <1>8, <2>2 DEF TableMade
<1>12. TablesMade(d, E, s + 1, D2)
  <2>1. \A t \in D.tables : TableMade(d, E, s + 1, t)
    BY <1>1, <1>4, Later DEF TablesMade
  <2>2. ASSUME NEW l \in DOMAIN E, l < s + 1, E[l].op = "table" PROVE HasTable(D2, E[l].schema, E[l].table)
    <3>1. CASE l = s
      BY <1>8, <3>1 DEF HasTable
    <3>2. CASE l < s
      BY <1>1, <2>2, <3>2 DEF TablesMade, HasTable
    <3> QED BY <1>5, <2>2, <3>1, <3>2
  <2> QED BY <1>11, <2>1, <2>2 DEF TablesMade
<1>13. ForeignMade(d, D2)
  BY <1>1 DEF ForeignMade, HasTable
<1> QED BY <1>6, <1>7, <1>9, <1>10, <1>12, <1>13 DEF DatabaseSound

\* The target of a foreign key has its key, and both sides have the types of the fields.
LEMMA ForeignKeyAddable ==
    ASSUME NEW d \in Documents, validate(d) = <<>>, NEW E, Orderly(d, E), NEW s \in DOMAIN E,
           NEW D, DatabaseSound(d, E, s, D), ForeignInOrder(d, E, s)
    PROVE  CanAddForeignKey(D, E[s])
<1> DEFINE st == E[s]
<1>1. TablesMade(d, E, s, D)
  BY DEF DatabaseSound
<1>a. PICK m \in ToSet(Stored(d)) : \E key \in ToSet(m.storage.foreignKeys) :
        /\ st = ForeignStatement(d, m, key)
        /\ \A n \in ToSet(Stored(d)) : \E l \in DOMAIN E : l < s /\ E[l] = TableStatement(n)
        /\ \A l \in DOMAIN E :
              /\ l < s /\ E[l].op = "foreign"
              /\ E[l].schema = m.storage.schema /\ E[l].table = m.storage.table
              => E[l].name # st.name
  BY DEF ForeignInOrder
<1>2. PICK key \in ToSet(m.storage.foreignKeys) :
        /\ st = ForeignStatement(d, m, key)
        /\ \A n \in ToSet(Stored(d)) : \E l \in DOMAIN E : l < s /\ E[l] = TableStatement(n)
        /\ \A l \in DOMAIN E :
              /\ l < s /\ E[l].op = "foreign"
              /\ E[l].schema = m.storage.schema /\ E[l].table = m.storage.table
              => E[l].name # st.name
  BY <1>a
<1> DEFINE target == ModelOf(d, key.model)
           sql == m.storage
           ref == target.storage
           here == TableOf(D, sql.schema, sql.table)
           there == TableOf(D, ref.schema, ref.table)
<1>3. /\ st.schema = sql.schema /\ st.table = sql.table /\ st.name = ForeignName(d, sql, key)
      /\ st.refSchema = ref.schema /\ st.refTable = ref.table
      /\ st.columns = columns(sql, key.fields) /\ st.refColumns = columns(ref, key.refFields)
  BY <1>2 DEF ForeignStatement, AddForeignKey
<1>4. /\ target \in ToSet(Stored(d)) /\ key \in Foreigns
      /\ Len(key.fields) = Len(key.refFields)
      /\ ToSet(key.fields) \subseteq FieldNames(m)
      /\ ToSet(key.refFields) \subseteq FieldNames(target)
      /\ key.refFields \in ToSet(KeysOf(ref))
      /\ FieldListSound(key.refFields)
      /\ \A i \in DOMAIN key.fields :
            FieldOf(m, key.fields[i]).type = FieldOf(target, key.refFields[i]).type
  BY ForeignFacts
<1> HIDE DEF st, target
<1>5. SoundModel(m) /\ SoundModel(target)
  BY <1>4, AcceptedModels
<1>6. ASSUME NEW n \in ToSet(Stored(d)) PROVE HasTable(D, n.storage.schema, n.storage.table)
  <2>1. PICK l \in DOMAIN E : l < s /\ E[l] = TableStatement(n)
    BY <1>2
  <2>x. \A x : LET t == TableStatement(x)
               IN  t.op = "table" /\ t.schema = x.storage.schema /\ t.table = x.storage.table
    BY DEF TableStatement, CreateTable
  <2>2. E[l].op = "table" /\ E[l].schema = n.storage.schema /\ E[l].table = n.storage.table
    BY <2>1, <2>x
  <2> QED BY <1>1, <2>1, <2>2 DEF TablesMade
<1>7. /\ here.schema = sql.schema /\ here.table = sql.table
      /\ here.columns = RowColumns(TableStatement(m))
      /\ \A c \in here.constraints :
            \/ \E a \in DOMAIN IndexNames(sql) : c = IndexNames(sql)[a]
            \/ \E l \in DOMAIN E : /\ l < s /\ E[l].op = "foreign" /\ E[l].name = c
                                   /\ E[l].schema = here.schema /\ E[l].table = here.table
  <2>1. HasTable(D, sql.schema, sql.table)
    BY <1>6
  <2> QED BY <1>1, <2>1, TableFound
<1>8. there.columns = RowColumns(TableStatement(target)) /\ there.keys = RowKeys(TableStatement(target))
  <2>1. HasTable(D, ref.schema, ref.table)
    BY <1>4, <1>6
  <2> QED BY <1>1, <1>4, <2>1, TableFound
<1> HIDE DEF here, there
<1>9. st.name \notin here.constraints
  <2> SUFFICES ASSUME st.name \in here.constraints PROVE FALSE
    OBVIOUS
  <2>1. CASE \E a \in DOMAIN IndexNames(sql) : st.name = IndexNames(sql)[a]
    <3>1. ConstraintsApart(d, sql)
      BY Accepted, ConstraintNames
    <3>2. PICK i \in DOMAIN sql.foreignKeys : key = sql.foreignKeys[i]
      BY DEF ToSet
    <3> QED BY <1>3, <2>1, <3>1, <3>2 DEF ConstraintsApart
  <2>2. CASE \E l \in DOMAIN E : /\ l < s /\ E[l].op = "foreign" /\ E[l].name = st.name
                                 /\ E[l].schema = here.schema /\ E[l].table = here.table
    BY <1>2, <1>7, <2>2
  <2> QED BY <1>7, <2>1, <2>2
<1> DEFINE F == key.fields
           R == key.refFields
<1>10. F \in Seq(Int) /\ R \in Seq(Int) /\ Len(F) = Len(R)
  BY <1>4 DEF Foreigns
<1>11. /\ DOMAIN st.columns = DOMAIN F /\ Len(st.columns) = Len(F)
       /\ \A i \in DOMAIN F : F[i] \in FieldNames(m) /\ st.columns[i] = ColumnName(sql, F[i])
  BY <1>3, <1>4, <1>5, <1>10, KeyColumns
<1>12. /\ DOMAIN st.refColumns = DOMAIN R /\ Len(st.refColumns) = Len(R)
       /\ \A i \in DOMAIN R : R[i] \in FieldNames(target) /\ st.refColumns[i] = ColumnName(ref, R[i])
       /\ SeqUnique(R) => SeqUnique(st.refColumns)
  BY <1>3, <1>4, <1>5, <1>10, KeyColumns
<1>13. \A i \in DOMAIN F : FieldOf(m, F[i]).type = FieldOf(target, R[i]).type
  BY <1>4
<1>14. SeqUnique(st.refColumns)
  BY <1>4, <1>12 DEF FieldListSound
<1>15. ToSet(st.refColumns) \in there.keys
  <2> DEFINE ts == TableStatement(target)
             K == KeysOf(ref)
  <2>1. PICK g : Clauses(ref, ts.keys, g)
    BY <1>5, ClausesExist DEF SoundModel
  <2>2. PICK x \in DOMAIN K : K[x] = R
    BY <1>4 DEF ToSet
  <2>3. PICK a \in DOMAIN K : g[a] = x
    BY <2>1, <2>2 DEF Clauses, Permutation
  <2>4. a \in DOMAIN ts.keys /\ ts.keys[a].columns = columns(ref, R)
    BY <2>1, <2>2, <2>3 DEF Clauses
  <2> HIDE DEF ts
  <2>5. ToSet(columns(ref, R)) \in RowKeys(ts)
    <3>1. ts.keys[a] \in ToSet(ts.keys)
      BY <2>4 DEF ToSet
    <3> QED BY <2>4, <3>1 DEF RowKeys
  <2> QED BY <1>3, <1>8, <2>5 DEF ts
<1>16. ASSUME NEW n \in FieldNames(m)
       PROVE  /\ ColumnName(sql, n) \in {x.name : x \in here.columns}
              /\ ColumnOf(here, ColumnName(sql, n)).type = FieldOf(m, n).type
  BY <1>5, <1>7, RowLookup
<1>17. ASSUME NEW n \in FieldNames(target)
       PROVE  /\ ColumnName(ref, n) \in {x.name : x \in there.columns}
              /\ ColumnOf(there, ColumnName(ref, n)).type = FieldOf(target, n).type
  BY <1>5, <1>8, RowLookup
<1> HIDE DEF F, R
<1>18. DOMAIN F = DOMAIN R
  BY <1>10
<1>19. HasColumns(here, st.columns)
  BY <1>11, <1>16 DEF HasColumns, ToSet
<1>20. HasColumns(there, st.refColumns)
  BY <1>12, <1>17 DEF HasColumns, ToSet
<1>21. \A i \in DOMAIN st.columns : ColumnOf(here, st.columns[i]).type = ColumnOf(there, st.refColumns[i]).type
  BY <1>11, <1>12, <1>13, <1>16, <1>17, <1>18
<1>22. HasTable(D, sql.schema, sql.table) /\ HasTable(D, ref.schema, ref.table)
  BY <1>4, <1>6
<1>23. Len(st.columns) = Len(st.refColumns)
  BY <1>10, <1>11, <1>12
<1> HIDE DEF sql, ref
<1>24. TableOf(D, st.schema, st.table) = here /\ TableOf(D, st.refSchema, st.refTable) = there
  BY <1>3 DEF here, there
<1> QED BY <1>3, <1>9, <1>14, <1>15, <1>19, <1>20, <1>21, <1>22, <1>23, <1>24 DEF CanAddForeignKey, st

LEMMA ForeignStep ==
    ASSUME NEW d \in Documents, validate(d) = <<>>, NEW E, Orderly(d, E), NEW s \in DOMAIN E,
           NEW D, DatabaseSound(d, E, s, D), ForeignInOrder(d, E, s)
    PROVE  CanExecute(D, E[s]) /\ DatabaseSound(d, E, s + 1, Execute(D, E[s]))
<1> DEFINE st == E[s]
           here == TableOf(D, st.schema, st.table)
           named == [here EXCEPT !.constraints = @ \cup {st.name}]
           D2 == [schemas |-> D.schemas, relations |-> D.relations,
                  tables |-> (D.tables \ {here}) \cup {named}, foreign |-> D.foreign \cup {st}]
<1>1. /\ D = [schemas |-> D.schemas, relations |-> D.relations, tables |-> D.tables, foreign |-> D.foreign]
      /\ SchemasMade(E, s, D) /\ RelationsMade(E, s, D) /\ TablesMade(d, E, s, D) /\ ForeignMade(d, D)
  BY DEF DatabaseSound
<1>a. PICK m \in ToSet(Stored(d)) : \E key \in ToSet(m.storage.foreignKeys) : st = ForeignStatement(d, m, key)
  BY DEF ForeignInOrder
<1>2. PICK key \in ToSet(m.storage.foreignKeys) : st = ForeignStatement(d, m, key)
  BY <1>a
<1>3. st.op = "foreign" /\ st.schema = m.storage.schema /\ st.table = m.storage.table
  BY <1>2 DEF ForeignStatement, AddForeignKey
<1>4. DOMAIN E = 1..Len(E) /\ Len(E) \in Nat
  BY DEF Orderly
<1>5. s < s + 1 /\ \A l \in DOMAIN E : l < s + 1 <=> l < s \/ l = s
  BY <1>4, Positions
<1>6. CanAddForeignKey(D, st)
  BY ForeignKeyAddable
<1>7. CanExecute(D, st) /\ HasTable(D, st.schema, st.table)
  BY <1>3, <1>6 DEF CanExecute, CanAddForeignKey
<1>8. Execute(D, st) = D2
  <2>1. Execute(D, st) = DoAddForeignKey(D, st)
    BY <1>3 DEF Execute
  <2>2. DoAddForeignKey(D, st) = [D EXCEPT !.tables = (@ \ {here}) \cup {named}, !.foreign = @ \cup {st}]
    BY DEF DoAddForeignKey
  <2> HIDE DEF here, named, st
  <2> QED BY <1>1, <2>1, <2>2
<1>9. here \in D.tables /\ here.schema = st.schema /\ here.table = st.table
  BY <1>7 DEF HasTable, TableOf
<1> HIDE DEF here
<1>10. /\ named.schema = here.schema /\ named.table = here.table /\ named.columns = here.columns
       /\ named.keys = here.keys /\ \A c \in named.constraints : c \in here.constraints \/ c = st.name
  OBVIOUS
<1> HIDE DEF named
<1>11. \A schema, table : HasTable(D, schema, table) => HasTable(D2, schema, table)
  BY <1>9, <1>10 DEF HasTable
<1>12. SchemasMade(E, s + 1, D2)
  BY <1>1, <1>3, <1>5 DEF SchemasMade
<1>13. RelationsMade(E, s + 1, D2)
  BY <1>1, <1>5 DEF RelationsMade
<1>14. TableMade(d, E, s + 1, named)
  <2>1. PICK n \in ToSet(Stored(d)) :
          /\ here.schema = n.storage.schema /\ here.table = n.storage.table
          /\ here.columns = RowColumns(TableStatement(n)) /\ here.keys = RowKeys(TableStatement(n))
          /\ \A c \in here.constraints :
                \/ \E a \in DOMAIN IndexNames(n.storage) : c = IndexNames(n.storage)[a]
                \/ \E l \in DOMAIN E : /\ l < s /\ E[l].op = "foreign" /\ E[l].name = c
                                       /\ E[l].schema = here.schema /\ E[l].table = here.table
    BY <1>1, <1>9 DEF TablesMade, TableMade
  <2>2. ASSUME NEW c \in named.constraints
        PROVE  \/ \E a \in DOMAIN IndexNames(n.storage) : c = IndexNames(n.storage)[a]
               \/ \E l \in DOMAIN E : /\ l < s + 1 /\ E[l].op = "foreign" /\ E[l].name = c
                                      /\ E[l].schema = here.schema /\ E[l].table = here.table
    <3>1. CASE c = st.name
      BY <1>3, <1>5, <1>9, <3>1
    <3>2. CASE c \in here.constraints
      BY <1>5, <2>1, <3>2
    <3> QED BY <1>10, <2>2, <3>1, <3>2
  <2> QED BY <1>10, <2>1, <2>2 DEF TableMade
<1>15. TablesMade(d, E, s + 1, D2)
  <2>1. \A t \in D.tables : TableMade(d, E, s + 1, t)
    BY <1>1, <1>4, Later DEF TablesMade
  <2>2. \A l \in DOMAIN E : l < s + 1 /\ E[l].op = "table" => HasTable(D2, E[l].schema, E[l].table)
    BY <1>1, <1>3, <1>5, <1>11 DEF TablesMade
  <2> HIDE DEF st
  <2> QED BY <1>14, <2>1, <2>2 DEF TablesMade
<1>16. ForeignMade(d, D2)
  <2>1. HasTable(D2, m.storage.schema, m.storage.table)
    BY <1>3, <1>7, <1>11
  <2> HIDE DEF st
  <2>2. \A fk \in D.foreign :
           \E x \in ToSet(Stored(d)) : \E k \in ToSet(x.storage.foreignKeys) :
              fk = ForeignStatement(d, x, k) /\ HasTable(D2, x.storage.schema, x.storage.table)
    BY <1>1, <1>11 DEF ForeignMade
  <2>3. \A fk \in D2.foreign : fk = st \/ fk \in D.foreign
    OBVIOUS
  <2> HIDE DEF D2
  <2> QED BY <1>2, <2>1, <2>2, <2>3 DEF ForeignMade
<1> QED BY <1>7, <1>8, <1>12, <1>13, <1>15, <1>16 DEF DatabaseSound
-----------------------------------------------------------------------------
(* The life of a document.                                                 *)

LEMMA Verdict ==
    ASSUME NEW d
    PROVE  /\ compileSchema(d).ok \in BOOLEAN /\ (compileSchema(d).ok <=> validate(d) = <<>>)
           /\ validate(d) = <<>> => /\ compileSchema(d).postgres = emitPostgres(d)
                                    /\ compileSchema(d).jsonSchema = emitJsonSchema(d)
                                    /\ compileSchema(d).typescript = emitTypescript(d)
<1> DEFINE v == validate(d)
<1>1. CASE v # <<>>
  <2>1. compileSchema(d) = [ok |-> FALSE, diagnostics |-> SubSeq(v, 1, Min({Len(v), MaxDiagnostics}))]
    BY <1>1 DEF compileSchema
  <2> HIDE DEF v
  <2> QED BY <1>1, <2>1 DEF v
<1>2. CASE v = <<>>
  <2>1. compileSchema(d) = [ok |-> TRUE, jsonSchema |-> emitJsonSchema(d),
                            typescript |-> emitTypescript(d), postgres |-> emitPostgres(d)]
    BY <1>2 DEF compileSchema
  <2> HIDE DEF v
  <2> QED BY <1>2, <2>1 DEF v
<1> QED BY <1>1, <1>2

LEMMA EmptySound ==
    ASSUME NEW d, NEW E, DOMAIN E = 1..Len(E), Len(E) \in Nat
    PROVE  DatabaseSound(d, E, 1, Fresh)
<1>1. Fresh = [schemas |-> {PublicSchema}, relations |-> {}, tables |-> {}, foreign |-> {}]
  BY DEF Fresh, EmptyDatabase
<1>2. \A l \in DOMAIN E : ~ (l < 1)
  OBVIOUS
<1> QED BY <1>1, <1>2 DEF DatabaseSound, SchemasMade, RelationsMade, TablesMade, ForeignMade

LEMMA StepSound ==
    ASSUME NEW d \in Documents, validate(d) = <<>>, NEW s \in DOMAIN emitPostgres(d),
           NEW D, DatabaseSound(d, emitPostgres(d), s, D)
    PROVE  /\ CanExecute(D, emitPostgres(d)[s])
           /\ DatabaseSound(d, emitPostgres(d), s + 1, Execute(D, emitPostgres(d)[s]))
<1> DEFINE E == emitPostgres(d)
<1>1. Orderly(d, E)
  BY OrderlyHolds
<1> HIDE DEF E
<1>2. SchemaInOrder(d, E, s) \/ TableInOrder(d, E, s) \/ ForeignInOrder(d, E, s)
  BY <1>1 DEF Orderly, E
<1>3. s \in DOMAIN E /\ DatabaseSound(d, E, s, D)
  BY DEF E
<1>4. CanExecute(D, E[s]) /\ DatabaseSound(d, E, s + 1, Execute(D, E[s]))
  <2>1. CASE SchemaInOrder(d, E, s)
    BY <1>1, <1>3, <2>1, SchemaStep
  <2>2. CASE TableInOrder(d, E, s)
    BY <1>1, <1>3, <2>2, TableStep
  <2>3. CASE ForeignInOrder(d, E, s)
    BY <1>1, <1>3, <2>3, ForeignStep
  <2> QED BY <1>2, <2>1, <2>2, <2>3
<1> QED BY <1>4 DEF E

LEMMA ReleaseStep ==
    ASSUME ReleaseInv, [Next]_vars
    PROVE  ReleaseInv'
<1> DEFINE E == emitPostgres(doc)
<1>1. /\ doc \in Documents
      /\ phase \in {"editing", "applying", "applied", "rejected"}
      /\ phase \in {"editing", "rejected"} => step = 1 /\ db = Fresh
      /\ phase \in {"applying", "applied"} =>
            /\ validate(doc) = <<>> /\ result = compileSchema(doc)
            /\ step \in 1..(Len(E) + 1)
            /\ DatabaseSound(doc, E, step, db)
      /\ phase = "applied" => step = Len(E) + 1
  BY DEF ReleaseInv
<1>2. validate(doc) = <<>> => Len(E) \in Nat /\ DOMAIN E = 1..Len(E)
  <2>1. validate(doc) = <<>> => Orderly(doc, E)
    BY <1>1, OrderlyHolds
  <2> HIDE DEF E
  <2> QED BY <2>1 DEF Orderly
<1>3. CASE Edit
  <2>1. doc' \in Documents
    BY <1>1, <1>3, DocumentEditType DEF Edit
  <2> QED BY <1>1, <1>3, <2>1 DEF Edit, ReleaseInv, Fresh
<1>4. CASE Compile
  <2>1. phase = "editing" /\ result' = compileSchema(doc) /\ doc' = doc /\ step' = 1 /\ db' = Fresh
        /\ phase' = IF compileSchema(doc).ok THEN "applying" ELSE "rejected"
    BY <1>1, <1>4 DEF Compile
  <2>2. CASE validate(doc) = <<>>
    <3>1. phase' = "applying"
      BY <2>1, <2>2, Verdict
    <3>2. DatabaseSound(doc, E, 1, Fresh) /\ 1 \in 1..(Len(E) + 1)
      BY <1>2, <2>2, EmptySound
    <3> QED BY <1>1, <2>1, <2>2, <3>1, <3>2 DEF ReleaseInv
  <2>3. CASE validate(doc) # <<>>
    <3>1. phase' = "rejected"
      BY <2>1, <2>3, Verdict
    <3> QED BY <1>1, <2>1, <3>1 DEF ReleaseInv, Fresh
  <2> QED BY <2>2, <2>3
<1>5. CASE RunStatement
  <2>1. phase = "applying" /\ step <= Len(result.postgres) /\ doc' = doc /\ result' = result
    BY <1>5 DEF RunStatement
  <2>2. /\ validate(doc) = <<>> /\ result = compileSchema(doc) /\ result.postgres = E
        /\ step \in 1..(Len(E) + 1) /\ DatabaseSound(doc, E, step, db)
    BY <1>1, <2>1, Verdict
  <2>3. Len(E) \in Nat /\ step \in DOMAIN E
    BY <1>2, <2>1, <2>2
  <2>4. CanExecute(db, E[step]) /\ DatabaseSound(doc, E, step + 1, Execute(db, E[step]))
    BY <1>1, <2>2, <2>3, StepSound
  <2>5. db' = Execute(db, E[step]) /\ step' = step + 1 /\ phase' = phase
    BY <1>5, <2>2, <2>4 DEF RunStatement
  <2>6. step' \in 1..(Len(E) + 1)
    BY <1>2, <2>2, <2>3, <2>5
  <2> QED BY <1>1, <2>1, <2>2, <2>4, <2>5, <2>6 DEF ReleaseInv
<1>6. CASE Finish
  <2>1. phase = "applying" /\ step > Len(result.postgres) /\ phase' = "applied" /\ doc' = doc /\ result' = result
        /\ step' = step /\ db' = db
    BY <1>6 DEF Finish
  <2>2. /\ validate(doc) = <<>> /\ result = compileSchema(doc) /\ result.postgres = E
        /\ step \in 1..(Len(E) + 1) /\ DatabaseSound(doc, E, step, db)
    BY <1>1, <2>1, Verdict
  <2>3. step = Len(E) + 1
    BY <1>2, <2>1, <2>2
  <2> QED BY <1>1, <2>1, <2>2, <2>3 DEF ReleaseInv
<1>7. CASE Revise
  BY <1>1, <1>7 DEF Revise, ReleaseInv, Fresh
<1>8. CASE UNCHANGED vars
  BY <1>1, <1>8 DEF vars, ReleaseInv, Fresh
<1> QED BY <1>3, <1>4, <1>5, <1>6, <1>7, <1>8 DEF Next

\* What the author has is always a document, and while its statements are run the database is
\* what the statements before the next one make of an empty one: the inductive invariant.
THEOREM ReleaseInvariance == Spec => []ReleaseInv
<1>1. Init => ReleaseInv
  BY AuthorAssumption DEF Init, ReleaseInv
<1>2. ReleaseInv /\ [Next]_vars => ReleaseInv'
  BY ReleaseStep
<1> QED BY <1>1, <1>2, PTL DEF Spec

\* The statements of an accepted document run to the end on an empty database, for any document,
\* any limits and any hash of the names (validate.js:199-300, emit.js:99).
THEOREM StatementsExecute == Spec => []SqlExecutes
<1>1. ReleaseInv => SqlExecutes
  BY DEF ReleaseInv, SqlExecutes
<1> QED BY <1>1, ReleaseInvariance, PTL

\* A row can always be deleted under ON DELETE SET NULL: the columns of such a key accept NULL in
\* the finished database, and none of them is in a primary key (validate.js, INVALID_SET_NULL).
THEOREM RowsCanBeDeleted == Spec => []SetNullCannotFail
<1>1. ASSUME ReleaseInv PROVE SetNullCannotFail
  <2> SUFFICES ASSUME phase = "applied", NEW fk \in db.foreign, fk.onDelete = "setNull",
                      NEW x \in ToSet(fk.columns)
               PROVE  ColumnOf(TableOf(db, fk.schema, fk.table), x).nullable
    BY DEF SetNullCannotFail, SetNullPossible
  <2>1. /\ doc \in Documents /\ validate(doc) = <<>>
        /\ TablesMade(doc, emitPostgres(doc), step, db) /\ ForeignMade(doc, db)
    BY <1>1 DEF ReleaseInv, DatabaseSound
  <2>2. PICK m \in ToSet(Stored(doc)) : \E key \in ToSet(m.storage.foreignKeys) :
          fk = ForeignStatement(doc, m, key) /\ HasTable(db, m.storage.schema, m.storage.table)
    BY <2>1 DEF ForeignMade
  <2>3. PICK key \in ToSet(m.storage.foreignKeys) :
          fk = ForeignStatement(doc, m, key) /\ HasTable(db, m.storage.schema, m.storage.table)
    BY <2>2
  <2> DEFINE t == TableOf(db, m.storage.schema, m.storage.table)
  <2>4. /\ fk.schema = m.storage.schema /\ fk.table = m.storage.table
        /\ fk.columns = columns(m.storage, key.fields) /\ fk.onDelete = key.onDelete
    BY <2>3 DEF ForeignStatement, AddForeignKey
  <2>5. t.columns = RowColumns(TableStatement(m))
    BY <2>1, <2>3, TableFound
  <2>6. /\ key \in Foreigns /\ ToSet(key.fields) \subseteq FieldNames(m)
        /\ key.onDelete = "setNull" => \A n \in ToSet(key.fields) : FieldOf(m, n).nullable = "true"
    BY <2>1, ForeignFacts
  <2>7. SoundModel(m)
    BY <2>1, AcceptedModels
  <2> HIDE DEF t
  <2>8. key.fields \in Seq(Int)
    BY <2>6 DEF Foreigns
  <2>9. PICK i \in DOMAIN fk.columns : x = fk.columns[i]
    BY DEF ToSet
  <2>10. i \in DOMAIN key.fields /\ x = ColumnName(m.storage, key.fields[i])
    BY <2>4, <2>6, <2>7, <2>8, <2>9, KeyColumns
  <2> DEFINE n == key.fields[i]
  <2>11. n \in ToSet(key.fields) /\ n \in FieldNames(m) /\ FieldOf(m, n).nullable = "true"
    BY <2>4, <2>6, <2>10 DEF ToSet
  <2>12. x = ColumnName(m.storage, n)
    BY <2>10
  <2> HIDE DEF n
  <2>13. n \notin ToSet(m.storage.primaryKey)
    BY <2>7, <2>11 DEF SoundModel, NullablePrimaryKey
  <2>14. ColumnOf(t, ColumnName(m.storage, n)).nullable <=> FieldOf(m, n).nullable = "true"
                                                            /\ n \notin ToSet(m.storage.primaryKey)
    BY <2>5, <2>7, <2>11, RowLookup
  <2> QED BY <2>4, <2>11, <2>12, <2>13, <2>14 DEF t
<1>2. ReleaseInv => SetNullCannotFail
  BY <1>1
<1> QED BY <1>2, ReleaseInvariance, PTL
-----------------------------------------------------------------------------
(* The three artifacts of a model.                                         *)

JsonModel(m) ==
    [name |-> m.name, properties |-> Map(propertySchema, ByName(m.fields)),
     required |-> {f.name : f \in {g \in ToSet(m.fields) : g.required = "true"}}]

TsField(f) == [name |-> f.name, optional |-> f.required # "true", type |-> TsType(f.type),
               orNull |-> f.nullable = "true"]

TsModel(m) == [name |-> m.name, fields |-> Map(TsField, ByName(m.fields))]

LEMMA NamedPart ==
    ASSUME NEW q, Len(q) \in Nat, DOMAIN q = 1..Len(q),
           \A i, j \in DOMAIN q : q[i].name = q[j].name => i = j, NEW r \in DOMAIN q
    PROVE  Named(q, q[r].name) = q[r]
<1> DEFINE I == {i \in 1..Len(q) : q[i].name = q[r].name}
<1>1. I = {r}
  OBVIOUS
<1>2. Named(q, q[r].name) = q[Min(I)]
  BY <1>1 DEF Named, SelectInSeq
<1>3. Min({r}) = r
  <2>1. r \in Nat
    OBVIOUS
  <2>2. r \in {r} /\ \A y \in {r} : r <= y
    BY <2>1
  <2> QED BY <2>2 DEF Min
<1> QED BY <1>1, <1>2, <1>3

\* A list with a part for each item of s, in the order of their names, and of the same names.
PartsOf(q, s) ==
    /\ q = [r \in DOMAIN ByName(s) |-> q[r]]
    /\ \A r \in DOMAIN ByName(s) : q[r].name = ByName(s)[r].name

\* The part that was made of an item is found by the name of the item.
LEMMA SortedParts ==
    ASSUME NEW T, NEW s \in Seq(T), \A i \in DOMAIN s : s[i].name \in Int,
           \A i, j \in DOMAIN s : s[i].name = s[j].name => i = j,
           NEW q, PartsOf(q, s), NEW i \in DOMAIN s
    PROVE  /\ Len(q) = Len(s)
           /\ \E r \in DOMAIN ByName(s) : ByName(s)[r] = s[i] /\ Named(q, s[i].name) = q[r]
<1> DEFINE t == ByName(s)
           N == {q[r] : r \in DOMAIN t}
<1>1. Rearranged(s, t)
  BY SortedByName
<1> HIDE DEF t
<1>2. PICK p : Permutation(p, DOMAIN s) /\ t = [r \in DOMAIN s |-> s[p[r]]]
  BY <1>1 DEF Rearranged
<1>3. t \in Seq(T) /\ DOMAIN t = DOMAIN s /\ Len(t) = Len(s)
  BY <1>1, RearrangedItems
<1>4. /\ \A r \in DOMAIN s : p[r] \in DOMAIN s /\ t[r] = s[p[r]]
      /\ \A r, u \in DOMAIN s : p[r] = p[u] => r = u
      /\ \A j \in DOMAIN s : \E r \in DOMAIN s : p[r] = j
  BY <1>2 DEF Permutation
<1>a. \A r \in DOMAIN t : r \in DOMAIN s /\ p[r] \in DOMAIN s /\ t[r] = s[p[r]]
  BY <1>3, <1>4
<1>5. ASSUME NEW r \in DOMAIN t, NEW u \in DOMAIN t, t[r].name = t[u].name PROVE r = u
  <2>1. p[r] \in DOMAIN s /\ p[u] \in DOMAIN s /\ s[p[r]].name = s[p[u]].name
    BY <1>a, <1>5
  <2>2. p[r] = p[u]
    BY <2>1
  <2> QED BY <1>4, <1>a, <2>2
<1>6. q \in Seq(N) /\ DOMAIN q = DOMAIN t /\ Len(q) = Len(t)
  <2>1. q = [r \in DOMAIN t |-> q[r]] /\ \A r \in DOMAIN t : q[r] \in N
    BY DEF t, PartsOf
  <2> HIDE DEF N
  <2> QED BY <1>3, <2>1, MappedLists
<1> HIDE DEF N
<1>7. PICK r \in DOMAIN t : t[r] = s[i]
  <2>1. PICK r \in DOMAIN s : p[r] = i
    BY <1>4
  <2>2. r \in DOMAIN t /\ t[r] = s[i]
    BY <1>3, <1>4, <2>1
  <2> QED BY <2>2
<1>8. \A u \in DOMAIN t : q[u].name = t[u].name
  BY DEF t, PartsOf
<1>b. \A u, v \in DOMAIN q : q[u].name = q[v].name => u = v
  BY <1>5, <1>6, <1>8
<1>9. Len(q) \in Nat /\ DOMAIN q = 1..Len(q) /\ r \in DOMAIN q
  BY <1>6, <1>7
<1>10. Named(q, q[r].name) = q[r]
  BY <1>9, <1>b, NamedPart
<1> QED BY <1>3, <1>6, <1>7, <1>8, <1>10 DEF t

\* Names of a list of records that repeats none.
LEMMA NamesApart ==
    ASSUME NEW T, \A x \in T : x.name \in Int, NEW s \in Seq(T), ~ Repeats(Map(LAMBDA x : x.name, s))
    PROVE  /\ \A i \in DOMAIN s : s[i].name \in Int
           /\ \A i, j \in DOMAIN s : s[i].name = s[j].name => i = j
<1> DEFINE names == [i \in DOMAIN s |-> s[i].name]
<1>1. \A i \in DOMAIN s : s[i].name \in Int
  OBVIOUS
<1>2. names \in Seq(Int) /\ DOMAIN names = DOMAIN s
  <2>1. names = [i \in DOMAIN s |-> names[i]] /\ \A i \in DOMAIN s : names[i] \in Int
    BY <1>1
  <2> HIDE DEF names
  <2> QED BY <2>1, MappedLists
<1>3. ~ Repeats(names)
  BY DEF Map
<1>4. \A i \in DOMAIN s : names[i] = s[i].name
  OBVIOUS
<1> HIDE DEF names
<1>5. \A i, j \in DOMAIN names : names[i] = names[j] => i = j
  BY <1>2, <1>3, NoRepeats
<1> QED BY <1>1, <1>2, <1>4, <1>5

\* The artifacts of a document have a part for each of its models.
LEMMA ModelParts ==
    ASSUME NEW d \in Documents, validate(d) = <<>>, NEW m \in ToSet(Stored(d))
    PROVE  /\ Named(emitJsonSchema(d), m.name) = JsonModel(m)
           /\ Named(emitTypescript(d), m.name) = TsModel(m)
<1> DEFINE s == d.models
           t == ByName(s)
           J == emitJsonSchema(d)
           S == emitTypescript(d)
<1>1. s \in Seq(Models)
  BY DEF Documents
<1>2. \A x \in Models : x.name \in Int
  BY DEF Models
<1>3. ~ Repeats(Map(LAMBDA x : x.name, s))
  BY Accepted
<1>4. PICK i \in DOMAIN s : s[i] = m
  BY StoredItems
<1>5. J = [r \in DOMAIN t |-> JsonModel(t[r])]
  BY DEF emitJsonSchema, Map, JsonModel
<1>6. S = [r \in DOMAIN t |-> TsModel(t[r])]
  BY DEF emitTypescript, Map, TsModel, TsField
<1>7. \A x : JsonModel(x).name = x.name /\ TsModel(x).name = x.name
  BY DEF JsonModel, TsModel
<1> HIDE DEF s, J, S
<1>8. /\ \A k \in DOMAIN s : s[k].name \in Int
      /\ \A k, l \in DOMAIN s : s[k].name = s[l].name => k = l
  <2>1. \A k \in DOMAIN s : s[k].name \in Int
    BY <1>1, <1>2, <1>3, NamesApart
  <2>2. \A k, l \in DOMAIN s : s[k].name = s[l].name => k = l
    BY <1>1, <1>2, <1>3, NamesApart
  <2> QED BY <2>1, <2>2
<1>9. Named(J, m.name) = JsonModel(m)
  <2>1. PartsOf(J, s)
    BY <1>5, <1>7 DEF PartsOf
  <2>2. \E r \in DOMAIN ByName(s) : ByName(s)[r] = s[i] /\ Named(J, s[i].name) = J[r]
    BY <1>1, <1>8, <2>1, SortedParts
  <2> QED BY <1>4, <1>5, <2>2
<1>10. Named(S, m.name) = TsModel(m)
  <2>1. PartsOf(S, s)
    BY <1>6, <1>7 DEF PartsOf
  <2>2. \E r \in DOMAIN ByName(s) : ByName(s)[r] = s[i] /\ Named(S, s[i].name) = S[r]
    BY <1>1, <1>8, <2>1, SortedParts
  <2> QED BY <1>4, <1>6, <2>2
<1> QED BY <1>9, <1>10 DEF J, S

\* A part of a model has a part for each of its fields.
LEMMA FieldParts ==
    ASSUME NEW m, SoundModel(m), NEW n \in FieldNames(m)
    PROVE  /\ Len(JsonModel(m).properties) = Len(m.fields)
           /\ Named(JsonModel(m).properties, n) = propertySchema(FieldOf(m, n))
           /\ Named(TsModel(m).fields, n) = TsField(FieldOf(m, n))
<1> DEFINE s == m.fields
           t == ByName(s)
           J == JsonModel(m).properties
           S == TsModel(m).fields
           f == FieldOf(m, n)
<1>1. m \in Models /\ ~ Repeats(Map(LAMBDA x : x.name, s))
  BY DEF SoundModel
<1>2. s \in Seq(Fields) /\ \A x \in Fields : x.name \in Int
  BY <1>1 DEF Models, Fields
<1>3. f \in ToSet(s) /\ f.name = n
  BY <1>1, FieldFacts
<1>4. J = [r \in DOMAIN t |-> propertySchema(t[r])] /\ S = [r \in DOMAIN t |-> TsField(t[r])]
  BY DEF JsonModel, TsModel, Map
<1>5. \A x : propertySchema(x).name = x.name /\ TsField(x).name = x.name
  BY DEF propertySchema, TsField
<1> HIDE DEF s, J, S, f
<1>6. PICK i \in DOMAIN s : s[i] = f
  BY <1>3 DEF ToSet
<1>7. \A k \in DOMAIN s : s[k].name \in Int
  BY <1>1, <1>2, NamesApart
<1>8. \A k, l \in DOMAIN s : s[k].name = s[l].name => k = l
  BY <1>1, <1>2, NamesApart
<1>9. Len(J) = Len(s) /\ Named(J, n) = propertySchema(f)
  <2>1. PartsOf(J, s)
    BY <1>4, <1>5 DEF PartsOf
  <2>2. Len(J) = Len(s) /\ \E r \in DOMAIN ByName(s) : ByName(s)[r] = s[i] /\ Named(J, s[i].name) = J[r]
    BY <1>2, <1>7, <1>8, <2>1, SortedParts
  <2> QED BY <1>3, <1>4, <1>6, <2>2
<1>10. Named(S, n) = TsField(f)
  <2>1. PartsOf(S, s)
    BY <1>4, <1>5 DEF PartsOf
  <2>2. \E r \in DOMAIN ByName(s) : ByName(s)[r] = s[i] /\ Named(S, s[i].name) = S[r]
    BY <1>2, <1>7, <1>8, <2>1, SortedParts
  <2> QED BY <1>3, <1>4, <1>6, <2>2
<1> QED BY <1>9, <1>10 DEF J, S, s, f

\* A table has as many columns as the model has fields.
LEMMA ColumnCount ==
    ASSUME NEW m, SoundModel(m), NEW t, t.columns = RowColumns(TableStatement(m))
    PROVE  Cardinality(t.columns) = Len(m.fields)
<1> DEFINE s == m.fields
           sql == m.storage
           col(i) == ColumnOf(t, ColumnName(sql, s[i].name))
           h == [i \in DOMAIN s |-> col(i)]
<1>1. m \in Models /\ sql \in Storages /\ ~ DuplicateColumn(sql) /\ ~ IncompleteMapping(m)
      /\ ~ Repeats(Map(LAMBDA x : x.name, s))
  BY DEF SoundModel
<1>2. s \in Seq(Fields) /\ \A x \in Fields : x.name \in Int
  BY <1>1 DEF Models, Fields
<1>3. \A i \in DOMAIN s : s[i].name \in FieldNames(m)
  BY DEF FieldNames, ToSet
<1>4. \A i, j \in DOMAIN s : s[i].name = s[j].name => i = j
  <2> HIDE DEF s
  <2> QED BY <1>1, <1>2, NamesApart
<1>5. ASSUME NEW i \in DOMAIN s
      PROVE  /\ col(i) \in t.columns /\ col(i).name = ColumnName(sql, s[i].name)
             /\ \A x \in t.columns : x.name = col(i).name => x = col(i)
  BY <1>3, RowLookup
<1> HIDE DEF col
<1>6. h \in [DOMAIN s -> t.columns]
  BY <1>5
<1>7. \A i, j \in DOMAIN s : h[i] = h[j] => i = j
  <2> SUFFICES ASSUME NEW i \in DOMAIN s, NEW j \in DOMAIN s, h[i] = h[j] PROVE i = j
    OBVIOUS
  <2>1. ColumnName(sql, s[i].name) = ColumnName(sql, s[j].name)
    BY <1>5
  <2>2. s[i].name = s[j].name
    BY <1>3, <2>1, ColumnsApart
  <2> QED BY <1>4, <2>2
<1>8. ASSUME NEW x \in t.columns PROVE \E i \in DOMAIN s : h[i] = x
  <2>1. PICK c \in ToSet(TableStatement(m).columns) :
          x = [c EXCEPT !.nullable = @ /\ c.name \notin ToSet(TableStatement(m).keys[1].columns)]
    BY DEF RowColumns
  <2>2. PICK e \in ToSet(sql.columns) : c = ColumnEntry(m, e)
    BY ColumnStatement
  <2>3. x.name = e.name
    BY <2>1, <2>2 DEF ColumnEntry
  <2>4. e.field \in FieldNames(m) /\ ColumnName(sql, e.field) = e.name
    BY <1>1, ColumnFacts DEF IncompleteMapping
  <2>5. PICK i \in DOMAIN s : s[i].name = e.field
    BY <2>4 DEF FieldNames, ToSet
  <2>6. x = col(i)
    BY <1>5, <2>3, <2>4, <2>5
  <2> QED BY <2>6
<1>9. h \in Bijection(DOMAIN s, t.columns)
  <2> HIDE DEF h
  <2> QED BY <1>6, <1>7, <1>8 DEF Bijection, Injection, Surjection, IsInjective
<1>10. IsFiniteSet(DOMAIN s) /\ Cardinality(DOMAIN s) = Len(s)
  <2> DEFINE n == Len(s)
  <2>1. n \in Nat /\ DOMAIN s = 1..n
    BY <1>2
  <2> HIDE DEF n, s
  <2>2. IsFiniteSet(1..n) /\ Cardinality(1..n) = IF 1 > n THEN 0 ELSE n - 1 + 1
    BY <2>1, FS_Interval
  <2>3. Cardinality(1..n) = n
    BY <2>1, <2>2
  <2> QED BY <2>1, <2>2, <2>3 DEF n
<1>11. ExistsBijection(DOMAIN s, t.columns)
  BY <1>9 DEF ExistsBijection
<1> QED BY <1>10, <1>11, FS_Bijection

\* The column, the property and the TypeScript field of one field of a model.
LEMMA FieldAgrees ==
    ASSUME NEW m, SoundModel(m), ~ LossyPresence(m), NEW t, t.columns = RowColumns(TableStatement(m)),
           NEW c \in ToSet(m.storage.columns)
    PROVE  /\ SameValues(ColumnOf(t, c.name), Named(JsonModel(m).properties, c.field),
                         Named(TsModel(m).fields, c.field))
           /\ c.field \in JsonModel(m).required
<1> DEFINE n == c.field
           f == FieldOf(m, n)
           column == ColumnOf(t, c.name)
<1>1. m \in Models /\ m.storage \in Storages /\ ~ DuplicateColumn(m.storage) /\ ~ IncompleteMapping(m)
      /\ ~ NullablePrimaryKey(m) /\ ~ Repeats(Map(LAMBDA x : x.name, m.fields))
  BY DEF SoundModel
<1>2. n \in FieldNames(m) /\ ColumnName(m.storage, n) = c.name
  BY <1>1, ColumnFacts DEF IncompleteMapping
<1> HIDE DEF n
<1>3. f \in ToSet(m.fields) /\ f.name = n
  BY <1>1, <1>2, FieldFacts
<1>4. f.required = "true"
  BY <1>3 DEF LossyPresence
<1>5. n \in ToSet(m.storage.primaryKey) => f.nullable # "true"
  BY <1>1, <1>2 DEF NullablePrimaryKey
<1>6. /\ column.type = f.type /\ column.minLength = f.minLength /\ column.maxLength = f.maxLength
      /\ column.nullable <=> f.nullable = "true" /\ n \notin ToSet(m.storage.primaryKey)
  BY <1>2, RowLookup
<1>7. /\ Named(JsonModel(m).properties, n) = propertySchema(f)
      /\ Named(TsModel(m).fields, n) = TsField(f)
  BY <1>2, FieldParts
<1> HIDE DEF f, column
<1>8. column.nullable <=> f.nullable = "true"
  BY <1>5, <1>6
<1>9. JsonType(f.type) # "null"
  BY DEF JsonType
<1>10. /\ propertySchema(f).types = {JsonType(f.type)} \cup (IF f.nullable = "true" THEN {"null"} ELSE {})
       /\ propertySchema(f).minLength = f.minLength /\ propertySchema(f).maxLength = f.maxLength
  BY DEF propertySchema
<1>11. TsField(f).orNull = (f.nullable = "true") /\ TsField(f).optional = (f.required # "true")
  BY DEF TsField
<1> DEFINE p == propertySchema(f)
           g == TsField(f)
<1> HIDE DEF p, g
<1>12. /\ column.nullable <=> "null" \in p.types
       /\ JsonType(column.type) \in p.types
  BY <1>6, <1>8, <1>9, <1>10 DEF p
<1>13. (column.nullable <=> g.orNull) /\ ~ g.optional
  BY <1>4, <1>8, <1>11 DEF g
<1>14. column.maxLength = p.maxLength /\ column.minLength = p.minLength
  BY <1>6, <1>10 DEF p
<1>15. SameValues(column, p, g)
  BY <1>12, <1>13, <1>14 DEF SameValues
<1>16. n \in JsonModel(m).required
  BY <1>3, <1>4 DEF JsonModel
<1> QED BY <1>7, <1>15, <1>16 DEF p, g, column, n

\* The finished database enforces what the JSON Schema and the TypeScript declarations promise:
\* for every stored model a table, for every field a column of its type, NULL in all three or in
\* none, nothing optional, the same lengths (emit.js:28-120, validate.js:199-269).
THEOREM ArtifactsAlwaysAgree == Spec => []ArtifactsAgree
<1>1. ASSUME ReleaseInv PROVE ArtifactsAgree
  <2> SUFFICES ASSUME phase = "applied", NEW m \in ToSet(Stored(doc))
               PROVE  LET json == Named(result.jsonSchema, m.name)
                          ts == Named(result.typescript, m.name)
                          t == TableOf(db, m.storage.schema, m.storage.table)
                      IN  /\ HasTable(db, m.storage.schema, m.storage.table)
                          /\ Cardinality(t.columns) = Len(json.properties)
                          /\ \A c \in ToSet(m.storage.columns) :
                                /\ SameValues(ColumnOf(t, c.name), Named(json.properties, c.field),
                                              Named(ts.fields, c.field))
                                /\ c.field \in json.required
    BY DEF ArtifactsAgree
  <2> DEFINE E == emitPostgres(doc)
             t == TableOf(db, m.storage.schema, m.storage.table)
  <2>1. /\ doc \in Documents /\ validate(doc) = <<>> /\ result = compileSchema(doc)
        /\ step = Len(E) + 1 /\ TablesMade(doc, E, step, db)
    BY <1>1 DEF ReleaseInv, DatabaseSound
  <2>2. Orderly(doc, E)
    BY <2>1, OrderlyHolds
  <2> HIDE DEF E
  <2>3. PICK l \in DOMAIN E : E[l] = TableStatement(m) /\ l < step
    <3>1. PICK l \in DOMAIN E : E[l] = TableStatement(m)
      BY <2>2 DEF Orderly
    <3>2. l < step
      BY <2>1, <2>2 DEF Orderly
    <3> QED BY <3>1, <3>2
  <2>4. SoundModel(m)
    BY <2>1, AcceptedModels
  <2>5. HasTable(db, m.storage.schema, m.storage.table)
    BY <2>1, <2>3, <2>4, ColumnStatement DEF TablesMade
  <2>6. t.columns = RowColumns(TableStatement(m))
    BY <2>1, <2>5, TableFound
  <2>7. /\ Named(result.jsonSchema, m.name) = JsonModel(m)
        /\ Named(result.typescript, m.name) = TsModel(m)
    <3>1. result.jsonSchema = emitJsonSchema(doc) /\ result.typescript = emitTypescript(doc)
      BY <2>1, Verdict
    <3> QED BY <2>1, <3>1, ModelParts
  <2>8. ~ LossyPresence(m)
    <3>1. PICK i \in DOMAIN doc.models : doc.models[i] = m /\ m.stored
      BY <2>1, StoredItems
    <3> QED BY <2>1, <3>1, Accepted DEF Sound
  <2> HIDE DEF t
  <2>9. Cardinality(t.columns) = Len(JsonModel(m).properties)
    <3>1. \E n : n \in FieldNames(m)
      <4>1. m.storage.primaryKey \in Seq(Int) /\ Len(m.storage.primaryKey) >= 1
        BY <2>4 DEF SoundModel, Storages, StorageShape, FieldListSound
      <4>2. 1 \in DOMAIN m.storage.primaryKey
        BY <4>1
      <4>3. KeysOf(m.storage)[1] = m.storage.primaryKey /\ 1 \in DOMAIN KeysOf(m.storage)
        BY <2>4, KeysType, IndexNamesType DEF SoundModel
      <4>4. m.storage.primaryKey[1] \in FieldNames(m)
        BY <2>4, <4>2, <4>3 DEF SoundModel, ToSet
      <4> QED BY <4>4
    <3>2. Len(JsonModel(m).properties) = Len(m.fields)
      BY <2>4, <3>1, FieldParts
    <3> QED BY <2>4, <2>6, <3>2, ColumnCount
  <2>10. \A c \in ToSet(m.storage.columns) :
            /\ SameValues(ColumnOf(t, c.name), Named(JsonModel(m).properties, c.field),
                          Named(TsModel(m).fields, c.field))
            /\ c.field \in JsonModel(m).required
    BY <2>4, <2>6, <2>8, FieldAgrees
  <2> QED BY <2>5, <2>7, <2>9, <2>10 DEF t
<1>2. ReleaseInv => ArtifactsAgree
  BY <1>1
<1> QED BY <1>2, ReleaseInvariance, PTL
-----------------------------------------------------------------------------
(* Documents that differ in the order of their declarations.               *)

SameStorage(sql, other) ==
    /\ other.shape = sql.shape /\ other.schema = sql.schema /\ other.table = sql.table
    /\ other.primaryKey = sql.primaryKey
    /\ Rearranged(sql.columns, other.columns)
    /\ Rearranged(sql.uniqueKeys, other.uniqueKeys)
    /\ Rearranged(sql.foreignKeys, other.foreignKeys)

SameModel(m, x) ==
    /\ x.shape = m.shape /\ x.name = m.name /\ x.stored = m.stored
    /\ Rearranged(m.fields, x.fields) /\ SameStorage(m.storage, x.storage)

SameModels(s, t) ==
    /\ DOMAIN t = DOMAIN s
    /\ \E q : Permutation(q, DOMAIN s) /\ \A r \in DOMAIN s : SameModel(s[q[r]], t[r])

SameDeclarations(d, y) ==
    y.shape = d.shape /\ y.version = d.version /\ SameModels(d.models, y.models)

\* A list that is bounded and whose items are silent is so in any order.
LEMMA BoundedMoves ==
    ASSUME NEW T, NEW s \in Seq(T), NEW t, Rearranged(s, t),
           NEW f, f = [i \in DOMAIN s |-> f[i]], \A i \in DOMAIN s : f[i] \in Reports,
           NEW g, g = [i \in DOMAIN t |-> g[i]], MadeAlike(s, f, t, g), NEW min, NEW max
    PROVE  LET a == IF array(s, min, max) THEN FlattenSeq(f) ELSE <<"INVALID_ARRAY">>
               b == IF array(t, min, max) THEN FlattenSeq(g) ELSE <<"INVALID_ARRAY">>
           IN  a \in Reports /\ b \in Reports /\ (a = <<>> => b = <<>>)
<1>1. /\ t \in Seq(T) /\ DOMAIN t = DOMAIN s /\ Len(t) = Len(s)
      /\ \A r \in DOMAIN t : \E i \in DOMAIN s : t[r] = s[i]
  BY RearrangedItems
<1>2. \A r \in DOMAIN t : \E i \in DOMAIN s : g[r] = f[i]
  BY <1>1 DEF MadeAlike
<1>3. \A r \in DOMAIN t : g[r] \in Reports
  BY <1>2
<1>4. FlattenSeq(f) \in Reports /\ (FlattenSeq(f) = <<>> <=> \A i \in DOMAIN s : f[i] = <<>>)
  BY SilentEach
<1>5. FlattenSeq(g) \in Reports /\ (FlattenSeq(g) = <<>> <=> \A r \in DOMAIN t : g[r] = <<>>)
  <2>1. t \in Seq(T) /\ g = [i \in DOMAIN t |-> g[i]]
    BY <1>1
  <2> QED BY ONLY <1>3, <2>1, SilentEach
<1>6. FlattenSeq(f) = <<>> => FlattenSeq(g) = <<>>
  BY <1>2, <1>4, <1>5
<1>7. <<"INVALID_ARRAY">> \in Reports /\ <<"INVALID_ARRAY">> # <<>>
  BY DEF Reports, Codes
<1>8. array(t, min, max) <=> array(s, min, max)
  BY <1>1 DEF array
<1> QED BY <1>4, <1>5, <1>6, <1>7, <1>8

\* Six reports of a storage, three of a model.
LEMMA SixSilent ==
    ASSUME NEW a \in Reports, NEW b \in Reports, NEW c \in Reports, NEW d \in Reports,
           NEW e \in Reports, NEW f \in Reports
    PROVE  /\ a \o b \o c \o d \o e \o f \in Reports
           /\ a \o b \o c \o d \o e \o f = <<>> <=>
                a = <<>> /\ b = <<>> /\ c = <<>> /\ d = <<>> /\ e = <<>> /\ f = <<>>
<1> DEFINE x == a \o b \o c
<1>1. \A s, t \in Reports : s \o t \in Reports /\ (s \o t = <<>> <=> s = <<>> /\ t = <<>>)
  BY Silent
<1>2. x \in Reports /\ (x = <<>> <=> a = <<>> /\ b = <<>> /\ c = <<>>)
  BY <1>1
<1> HIDE DEF x
<1> DEFINE y == x \o d \o e
<1>3. y \in Reports /\ (y = <<>> <=> x = <<>> /\ d = <<>> /\ e = <<>>)
  BY <1>1, <1>2
<1> HIDE DEF y
<1>4. y \o f \in Reports /\ (y \o f = <<>> <=> y = <<>> /\ f = <<>>)
  BY <1>1, <1>3
<1> QED BY <1>2, <1>3, <1>4 DEF x, y

LEMMA StorageMoves ==
    ASSUME NEW s \in Storages, NEW t \in Storages, SameStorage(s, t), storage(s) = <<>>
    PROVE  storage(t) = <<>>
<1> DEFINE Shorts == Seq(Int)
           c(v) == bounded(v, 1, MaxFields, columnShape)
           u(v) == bounded(v, 0, MaxKeys, fieldList)
           k(v) == bounded(v, 0, MaxKeys, foreignShape)
           a == name(s.schema)
           b == name(s.table)
           p == fieldList(s.primaryKey)
<1>1. /\ s.shape \in Shapes /\ s.columns \in Seq(Columns) /\ s.primaryKey \in Shorts
      /\ s.uniqueKeys \in Seq(Shorts) /\ s.foreignKeys \in Seq(Foreigns)
  BY DEF Storages
<1>2. /\ t.shape = s.shape /\ t.schema = s.schema /\ t.table = s.table
      /\ t.primaryKey = s.primaryKey
      /\ Rearranged(s.columns, t.columns) /\ Rearranged(s.uniqueKeys, t.uniqueKeys)
      /\ Rearranged(s.foreignKeys, t.foreignKeys)
  BY DEF SameStorage
<1>3. c(s.columns) \in Reports /\ c(t.columns) \in Reports /\ (c(s.columns) = <<>> => c(t.columns) = <<>>)
  <2> DEFINE v == s.columns
             w == t.columns
             f == [i \in DOMAIN v |-> columnShape(v[i])]
             g == [i \in DOMAIN w |-> columnShape(w[i])]
             x == IF array(v, 1, MaxFields) THEN FlattenSeq(f) ELSE <<"INVALID_ARRAY">>
             z == IF array(w, 1, MaxFields) THEN FlattenSeq(g) ELSE <<"INVALID_ARRAY">>
  <2>1. v \in Seq(Columns) /\ Rearranged(v, w)
    BY <1>1, <1>2
  <2>2. c(s.columns) = x /\ c(t.columns) = z
    BY DEF bounded, Each, Map
  <2> HIDE DEF v, w
  <2>3. \A i \in DOMAIN v : f[i] \in Reports
    <3>1. \A i \in DOMAIN v : v[i] \in Columns
      BY <2>1
    <3> QED BY <3>1, ColumnShapeReport
  <2>4. f = [i \in DOMAIN v |-> f[i]] /\ g = [i \in DOMAIN w |-> g[i]] /\ MadeAlike(v, f, w, g)
    BY DEF MadeAlike
  <2> HIDE DEF f, g
  <2>5. x \in Reports /\ z \in Reports /\ (x = <<>> => z = <<>>)
    BY <2>1, <2>3, <2>4, BoundedMoves
  <2> HIDE DEF x, z, c
  <2> QED BY <2>2, <2>5
<1>4. u(s.uniqueKeys) \in Reports /\ u(t.uniqueKeys) \in Reports /\ (u(s.uniqueKeys) = <<>> => u(t.uniqueKeys) = <<>>)
  <2> DEFINE v == s.uniqueKeys
             w == t.uniqueKeys
             f == [i \in DOMAIN v |-> fieldList(v[i])]
             g == [i \in DOMAIN w |-> fieldList(w[i])]
             x == IF array(v, 0, MaxKeys) THEN FlattenSeq(f) ELSE <<"INVALID_ARRAY">>
             z == IF array(w, 0, MaxKeys) THEN FlattenSeq(g) ELSE <<"INVALID_ARRAY">>
  <2>1. v \in Seq(Shorts) /\ Rearranged(v, w)
    BY <1>1, <1>2
  <2>2. u(s.uniqueKeys) = x /\ u(t.uniqueKeys) = z
    BY DEF bounded, Each, Map
  <2> HIDE DEF v, w
  <2>3. \A i \in DOMAIN v : f[i] \in Reports
    <3>1. \A i \in DOMAIN v : v[i] \in Shorts
      BY <2>1
    <3> QED BY <3>1, FieldListReport
  <2>4. f = [i \in DOMAIN v |-> f[i]] /\ g = [i \in DOMAIN w |-> g[i]] /\ MadeAlike(v, f, w, g)
    BY DEF MadeAlike
  <2> HIDE DEF f, g, Shorts
  <2>5. x \in Reports /\ z \in Reports /\ (x = <<>> => z = <<>>)
    BY <2>1, <2>3, <2>4, BoundedMoves
  <2> HIDE DEF x, z, u
  <2> QED BY <2>2, <2>5
<1>5. k(s.foreignKeys) \in Reports /\ k(t.foreignKeys) \in Reports /\ (k(s.foreignKeys) = <<>> => k(t.foreignKeys) = <<>>)
  <2> DEFINE v == s.foreignKeys
             w == t.foreignKeys
             f == [i \in DOMAIN v |-> foreignShape(v[i])]
             g == [i \in DOMAIN w |-> foreignShape(w[i])]
             x == IF array(v, 0, MaxKeys) THEN FlattenSeq(f) ELSE <<"INVALID_ARRAY">>
             z == IF array(w, 0, MaxKeys) THEN FlattenSeq(g) ELSE <<"INVALID_ARRAY">>
  <2>1. v \in Seq(Foreigns) /\ Rearranged(v, w)
    BY <1>1, <1>2
  <2>2. k(s.foreignKeys) = x /\ k(t.foreignKeys) = z
    BY DEF bounded, Each, Map
  <2> HIDE DEF v, w
  <2>3. \A i \in DOMAIN v : f[i] \in Reports
    <3>1. \A i \in DOMAIN v : v[i] \in Foreigns
      BY <2>1
    <3> QED BY <3>1, ForeignShapeReport
  <2>4. f = [i \in DOMAIN v |-> f[i]] /\ g = [i \in DOMAIN w |-> g[i]] /\ MadeAlike(v, f, w, g)
    BY DEF MadeAlike
  <2> HIDE DEF f, g
  <2>5. x \in Reports /\ z \in Reports /\ (x = <<>> => z = <<>>)
    BY <2>1, <2>3, <2>4, BoundedMoves
  <2> HIDE DEF x, z, k
  <2> QED BY <2>2, <2>5
<1>6. a \in Reports /\ b \in Reports /\ p \in Reports
  BY <1>1, NameReport, FieldListReport
<1>7. <<s.shape>> # <<>>
  OBVIOUS
<1>8. /\ storage(s) = IF s.shape # "ok" THEN <<s.shape>>
                      ELSE a \o b \o c(s.columns) \o p \o u(s.uniqueKeys) \o k(s.foreignKeys)
      /\ storage(t) = IF s.shape # "ok" THEN <<s.shape>>
                      ELSE a \o b \o c(t.columns) \o p \o u(t.uniqueKeys) \o k(t.foreignKeys)
  BY <1>2 DEF storage
<1> HIDE DEF a, b, c, u, k, p
<1>9. a \o b \o c(s.columns) \o p \o u(s.uniqueKeys) \o k(s.foreignKeys) = <<>>
  BY <1>7, <1>8
<1>10. a = <<>> /\ b = <<>> /\ c(t.columns) = <<>> /\ p = <<>> /\ u(t.uniqueKeys) = <<>> /\ k(t.foreignKeys) = <<>>
  BY <1>3, <1>4, <1>5, <1>6, <1>9, SixSilent
<1>11. a \o b \o c(t.columns) \o p \o u(t.uniqueKeys) \o k(t.foreignKeys) = <<>>
  BY <1>3, <1>4, <1>5, <1>6, <1>10, SixSilent
<1> QED BY <1>7, <1>8, <1>11

LEMMA ModelShapeMoves ==
    ASSUME NEW m \in Models, NEW x \in Models, SameModel(m, x), modelShape(m) = <<>>
    PROVE  modelShape(x) = <<>>
<1> DEFINE a == name(m.name)
           c(v) == bounded(v, 1, MaxFields, fieldShape)
           e(y) == IF m.stored THEN storage(y.storage) ELSE <<>>
<1>1. m.fields \in Seq(Fields) /\ m.stored \in BOOLEAN /\ m.storage \in Storages /\ x.storage \in Storages
  BY DEF Models
<1>2. /\ x.shape = m.shape /\ x.name = m.name /\ x.stored = m.stored
      /\ Rearranged(m.fields, x.fields) /\ SameStorage(m.storage, x.storage)
  BY DEF SameModel
<1>3. c(m.fields) \in Reports /\ c(x.fields) \in Reports /\ (c(m.fields) = <<>> => c(x.fields) = <<>>)
  <2> DEFINE v == m.fields
             w == x.fields
             f == [i \in DOMAIN v |-> fieldShape(v[i])]
             g == [i \in DOMAIN w |-> fieldShape(w[i])]
             h == IF array(v, 1, MaxFields) THEN FlattenSeq(f) ELSE <<"INVALID_ARRAY">>
             z == IF array(w, 1, MaxFields) THEN FlattenSeq(g) ELSE <<"INVALID_ARRAY">>
  <2>1. v \in Seq(Fields) /\ Rearranged(v, w)
    BY <1>1, <1>2
  <2>2. c(m.fields) = h /\ c(x.fields) = z
    BY DEF bounded, Each, Map
  <2> HIDE DEF v, w
  <2>3. \A i \in DOMAIN v : f[i] \in Reports
    <3>1. \A i \in DOMAIN v : v[i] \in Fields
      BY <2>1
    <3> QED BY <3>1, FieldShapeReport
  <2>4. f = [i \in DOMAIN v |-> f[i]] /\ g = [i \in DOMAIN w |-> g[i]] /\ MadeAlike(v, f, w, g)
    BY DEF MadeAlike
  <2> HIDE DEF f, g
  <2>5. h \in Reports /\ z \in Reports /\ (h = <<>> => z = <<>>)
    BY <2>1, <2>3, <2>4, BoundedMoves
  <2> HIDE DEF h, z, c
  <2> QED BY <2>2, <2>5
<1>4. e(m) \in Reports /\ e(x) \in Reports /\ (e(m) = <<>> => e(x) = <<>>)
  BY <1>1, <1>2, StorageReport, StorageMoves, Silent
<1>5. a \in Reports /\ <<m.shape>> # <<>>
  BY NameReport
<1>6. /\ modelShape(m) = IF m.shape # "ok" THEN <<m.shape>> ELSE a \o c(m.fields) \o e(m)
      /\ modelShape(x) = IF m.shape # "ok" THEN <<m.shape>> ELSE a \o c(x.fields) \o e(x)
  BY <1>2 DEF modelShape
<1> HIDE DEF a, c, e
<1>7. \A s, t \in Reports : s \o t \in Reports /\ (s \o t = <<>> <=> s = <<>> /\ t = <<>>)
  BY Silent
<1>8. a \o c(m.fields) \o e(m) = <<>>
  BY <1>5, <1>6
<1>9. a = <<>> /\ c(x.fields) = <<>> /\ e(x) = <<>>
  BY <1>3, <1>4, <1>5, <1>7, <1>8
<1>10. a \o c(x.fields) \o e(x) = <<>>
  BY <1>3, <1>4, <1>5, <1>7, <1>9
<1> QED BY <1>5, <1>6, <1>10

LEMMA DocumentShapeMoves ==
    ASSUME NEW d \in Documents, NEW y \in Documents, SameDeclarations(d, y), documentShape(d) = <<>>
    PROVE  documentShape(y) = <<>>
<1> DEFINE s == d.models
           t == y.models
           f == [i \in DOMAIN s |-> modelShape(s[i])]
           g == [i \in DOMAIN t |-> modelShape(t[i])]
           a == When(d.version # "ores.schema-ir.v1", "UNSUPPORTED_VERSION")
           b(v) == bounded(v, 1, MaxModels, modelShape)
<1>1. s \in Seq(Models) /\ t \in Seq(Models) /\ DOMAIN t = DOMAIN s /\ y.shape = d.shape /\ y.version = d.version
  BY DEF Documents, SameDeclarations, SameModels
<1>2. PICK q : Permutation(q, DOMAIN s) /\ \A r \in DOMAIN s : SameModel(s[q[r]], t[r])
  BY DEF SameDeclarations, SameModels
<1>3. /\ documentShape(d) = IF d.shape # "ok" THEN <<d.shape>> ELSE a \o b(s)
      /\ documentShape(y) = IF d.shape # "ok" THEN <<d.shape>> ELSE a \o b(t)
  BY <1>1 DEF documentShape
<1>4. /\ b(s) = IF array(s, 1, MaxModels) THEN FlattenSeq(f) ELSE <<"INVALID_ARRAY">>
      /\ b(t) = IF array(t, 1, MaxModels) THEN FlattenSeq(g) ELSE <<"INVALID_ARRAY">>
  BY DEF bounded, Each, Map
<1>5. Len(t) = Len(s) /\ <<d.shape>> # <<>>
  BY <1>1
<1> HIDE DEF s, t, b
<1>6. \A i \in DOMAIN s : s[i] \in Models /\ t[i] \in Models
  BY <1>1
<1>7. (\A i \in DOMAIN s : f[i] \in Reports) /\ (\A i \in DOMAIN t : g[i] \in Reports)
  BY <1>1, <1>6, ModelShapeReport
<1>8. /\ FlattenSeq(f) \in Reports /\ (FlattenSeq(f) = <<>> <=> \A i \in DOMAIN s : f[i] = <<>>)
      /\ FlattenSeq(g) \in Reports /\ (FlattenSeq(g) = <<>> <=> \A i \in DOMAIN t : g[i] = <<>>)
  <2>1. f = [i \in DOMAIN s |-> f[i]] /\ g = [i \in DOMAIN t |-> g[i]]
    OBVIOUS
  <2> HIDE DEF f, g
  <2> QED BY <1>1, <1>7, <2>1, SilentEach
<1>9. a \in Reports /\ <<"INVALID_ARRAY">> \in Reports /\ <<"INVALID_ARRAY">> # <<>>
  <2>1. (d.version # "ores.schema-ir.v1") \in BOOLEAN /\ "UNSUPPORTED_VERSION" \in Codes /\ "INVALID_ARRAY" \in Codes
    BY DEF Codes
  <2>2. a \in Reports
    BY <2>1, Silent
  <2> QED BY <2>1, <2>2 DEF Reports
<1> HIDE DEF a
<1>10. b(s) \in Reports /\ b(t) \in Reports
  BY <1>4, <1>8, <1>9
<1>11. a = <<>> /\ b(s) = <<>>
  BY <1>3, <1>5, <1>9, <1>10, Silent
<1>12. array(s, 1, MaxModels) /\ \A i \in DOMAIN s : f[i] = <<>>
  BY <1>4, <1>8, <1>9, <1>11
<1>13. \A r \in DOMAIN t : g[r] = <<>>
  <2> SUFFICES ASSUME NEW r \in DOMAIN t PROVE g[r] = <<>>
    OBVIOUS
  <2>1. q[r] \in DOMAIN s /\ r \in DOMAIN s
    BY <1>1, <1>2 DEF Permutation
  <2>2. modelShape(s[q[r]]) = <<>> /\ SameModel(s[q[r]], t[r]) /\ s[q[r]] \in Models /\ t[r] \in Models
    BY <1>2, <1>6, <1>12, <2>1
  <2>3. modelShape(t[r]) = <<>>
    BY <2>2, ModelShapeMoves
  <2> QED BY <2>3
<1>14. b(t) = <<>>
  BY <1>4, <1>5, <1>8, <1>12, <1>13 DEF array
<1> QED BY <1>3, <1>5, <1>9, <1>10, <1>11, <1>14, Silent
-----------------------------------------------------------------------------
(* The second pass forgets the order.                                      *)

LEMMA SameLists ==
    ASSUME NEW m \in Models, NEW x \in Models, SameModel(m, x)
    PROVE  /\ m.storage \in Storages /\ x.storage \in Storages
           /\ ToSet(x.fields) = ToSet(m.fields) /\ Len(x.fields) = Len(m.fields)
           /\ ToSet(x.storage.columns) = ToSet(m.storage.columns)
           /\ Len(x.storage.columns) = Len(m.storage.columns)
           /\ ToSet(x.storage.uniqueKeys) = ToSet(m.storage.uniqueKeys)
           /\ ToSet(x.storage.foreignKeys) = ToSet(m.storage.foreignKeys)
           /\ FieldNames(x) = FieldNames(m)
<1> DEFINE Shorts == Seq(Int)
<1>1. m.storage \in Storages /\ x.storage \in Storages /\ m.fields \in Seq(Fields)
  BY DEF Models
<1>2. /\ m.storage.columns \in Seq(Columns) /\ m.storage.uniqueKeys \in Seq(Shorts)
      /\ m.storage.foreignKeys \in Seq(Foreigns)
  BY <1>1 DEF Storages
<1>3. /\ Rearranged(m.fields, x.fields) /\ Rearranged(m.storage.columns, x.storage.columns)
      /\ Rearranged(m.storage.uniqueKeys, x.storage.uniqueKeys)
      /\ Rearranged(m.storage.foreignKeys, x.storage.foreignKeys)
  BY DEF SameModel, SameStorage
<1> HIDE DEF Shorts
<1>4. ToSet(x.fields) = ToSet(m.fields) /\ Len(x.fields) = Len(m.fields)
  BY <1>1, <1>3, RearrangedSet, RearrangedItems
<1>5. /\ ToSet(x.storage.columns) = ToSet(m.storage.columns)
      /\ Len(x.storage.columns) = Len(m.storage.columns)
  BY <1>2, <1>3, RearrangedSet, RearrangedItems
<1>6. ToSet(x.storage.uniqueKeys) = ToSet(m.storage.uniqueKeys)
  BY <1>2, <1>3, RearrangedSet
<1>7. ToSet(x.storage.foreignKeys) = ToSet(m.storage.foreignKeys)
  BY <1>2, <1>3, RearrangedSet
<1> QED BY <1>1, <1>4, <1>5, <1>6, <1>7 DEF FieldNames

\* What repeats in a list repeats in any order.
LEMMA SameRepeats ==
    ASSUME NEW T, NEW s \in Seq(T), NEW t, Rearranged(s, t),
           NEW w, w = [i \in DOMAIN s |-> w[i]], NEW v, v = [i \in DOMAIN t |-> v[i]], MadeAlike(s, w, t, v)
    PROVE  Repeats(v) = Repeats(w)
<1> DEFINE n == Len(s)
<1>1. n \in Nat /\ DOMAIN s = 1..n /\ DOMAIN t = 1..n /\ ToSet(t) = ToSet(s)
  BY RearrangedSet, RearrangedItems
<1> HIDE DEF n
<1>2. w = [i \in 1..n |-> w[i]] /\ v = [i \in 1..n |-> v[i]]
  BY <1>1
<1> QED BY <1>1, <1>2, MappedAlike

LEMMA ModelFieldsRepeat ==
    ASSUME NEW m \in Models, NEW x \in Models, SameModel(m, x)
    PROVE  Repeats(Map(LAMBDA f : f.name, x.fields)) = Repeats(Map(LAMBDA f : f.name, m.fields))
<1> DEFINE s == m.fields
           t == x.fields
           w == [i \in DOMAIN s |-> s[i].name]
           v == [i \in DOMAIN t |-> t[i].name]
<1>1. s \in Seq(Fields) /\ Rearranged(s, t)
  BY DEF Models, SameModel
<1>2. Map(LAMBDA f : f.name, s) = w /\ Map(LAMBDA f : f.name, t) = v
  BY DEF Map
<1> HIDE DEF s, t
<1>3. w = [i \in DOMAIN s |-> w[i]] /\ v = [i \in DOMAIN t |-> v[i]] /\ MadeAlike(s, w, t, v)
  BY DEF MadeAlike
<1> HIDE DEF w, v
<1>4. Repeats(v) = Repeats(w)
  BY <1>1, <1>3, SameRepeats
<1> QED BY <1>2, <1>4 DEF s, t

\* A name means the same field in both.
LEMMA SameField ==
    ASSUME NEW m \in Models, NEW x \in Models, SameModel(m, x),
           ~ Repeats(Map(LAMBDA f : f.name, m.fields)), NEW n \in FieldNames(m)
    PROVE  FieldOf(x, n) = FieldOf(m, n)
<1>1. ~ Repeats(Map(LAMBDA f : f.name, x.fields))
  BY ModelFieldsRepeat
<1>2. n \in FieldNames(x) /\ ToSet(x.fields) = ToSet(m.fields)
  BY SameLists
<1>3. FieldOf(x, n) \in ToSet(x.fields) /\ FieldOf(x, n).name = n
  BY <1>1, <1>2, FieldFacts
<1>4. \A f \in ToSet(m.fields) : f.name = n => f = FieldOf(m, n)
  BY FieldFacts
<1> QED BY <1>2, <1>3, <1>4

\* The primary key stays in front, the unique keys change places.
LEMMA KeysRearranged ==
    ASSUME NEW s \in Storages, NEW t \in Storages, SameStorage(s, t)
    PROVE  \E g : /\ Permutation(g, DOMAIN KeysOf(s)) /\ g[1] = 1
                  /\ KeysOf(t) = [k \in DOMAIN KeysOf(s) |-> KeysOf(s)[g[k]]]
<1> DEFINE Shorts == Seq(Int)
           u == s.uniqueKeys
           v == t.uniqueKeys
           K == KeysOf(s)
           L == KeysOf(t)
           n == Len(u)
<1>1. K \in Seq(Shorts) /\ Len(K) = n + 1 /\ K[1] = s.primaryKey /\ \A k \in DOMAIN u : K[k + 1] = u[k]
  BY KeysType
<1>2. L \in Seq(Shorts) /\ Len(L) = Len(v) + 1 /\ L[1] = t.primaryKey /\ \A k \in DOMAIN v : L[k + 1] = v[k]
  BY KeysType
<1>3. u \in Seq(Shorts) /\ Rearranged(u, v) /\ t.primaryKey = s.primaryKey
  BY DEF Storages, SameStorage
<1> HIDE DEF Shorts, u, v, K, L
<1>4. n \in Nat /\ DOMAIN u = 1..n /\ DOMAIN v = 1..n /\ Len(v) = n
  BY <1>3, RearrangedItems
<1>5. DOMAIN K = 1..(n + 1) /\ DOMAIN L = 1..(n + 1) /\ L = [k \in 1..(n + 1) |-> L[k]]
  BY <1>1, <1>2, <1>4
<1> HIDE DEF n
<1>6. PICK p : Permutation(p, DOMAIN u) /\ v = [r \in DOMAIN u |-> u[p[r]]]
  BY <1>3 DEF Rearranged
<1> DEFINE g == [k \in 1..(n + 1) |-> IF k = 1 THEN 1 ELSE p[k - 1] + 1]
<1>7. /\ \A k \in 1..n : p[k] \in 1..n
      /\ \A k, l \in 1..n : p[k] = p[l] => k = l
      /\ \A j \in 1..n : \E k \in 1..n : p[k] = j
  BY <1>4, <1>6 DEF Permutation
<1>8. ASSUME NEW k \in 1..(n + 1), k # 1
      PROVE  k - 1 \in 1..n /\ p[k - 1] \in 1..n /\ g[k] = p[k - 1] + 1 /\ g[k] \in 1..(n + 1) /\ g[k] # 1
  <2>1. k - 1 \in 1..n
    BY <1>4, <1>8
  <2>2. p[k - 1] \in 1..n
    BY <1>7, <2>1
  <2> QED BY <1>4, <1>8, <2>1, <2>2
<1>9. g[1] = 1 /\ 1 \in 1..(n + 1)
  BY <1>4
<1>10. g \in [1..(n + 1) -> 1..(n + 1)]
  BY <1>8, <1>9
<1>11. ASSUME NEW k \in 1..(n + 1), NEW l \in 1..(n + 1), g[k] = g[l] PROVE k = l
  <2>1. CASE k = 1 \/ l = 1
    BY <1>8, <1>9, <1>11, <2>1
  <2>2. CASE k # 1 /\ l # 1
    <3>1. p[k - 1] = p[l - 1]
      BY <1>4, <1>8, <1>11, <2>2
    <3>2. k - 1 = l - 1
      BY <1>7, <1>8, <2>2, <3>1
    <3> QED BY <3>2
  <2> QED BY <2>1, <2>2
<1>12. ASSUME NEW j \in 1..(n + 1) PROVE \E k \in 1..(n + 1) : g[k] = j
  <2>1. CASE j = 1
    BY <1>9, <2>1
  <2>2. CASE j # 1
    <3>1. j - 1 \in 1..n
      BY <1>4, <2>2
    <3>2. PICK k \in 1..n : p[k] = j - 1
      BY <1>7, <3>1
    <3>3. k + 1 \in 1..(n + 1) /\ k + 1 # 1 /\ (k + 1) - 1 = k
      BY <1>4, <3>2
    <3>4. g[k + 1] = p[k] + 1
      BY <1>8, <3>3
    <3> QED BY <3>2, <3>3, <3>4
  <2> QED BY <2>1, <2>2
<1>13. ASSUME NEW k \in 1..(n + 1) PROVE L[k] = K[g[k]]
  <2>1. CASE k = 1
    BY <1>1, <1>2, <1>3, <1>9, <2>1
  <2>2. CASE k # 1
    <3>1. k - 1 \in 1..n /\ p[k - 1] \in 1..n /\ g[k] = p[k - 1] + 1 /\ k = (k - 1) + 1
      BY <1>8, <2>2
    <3>2. L[k] = v[k - 1]
      BY <1>2, <1>4, <3>1
    <3>3. v[k - 1] = u[p[k - 1]]
      BY <1>4, <1>6, <3>1
    <3>4. K[g[k]] = u[p[k - 1]]
      BY <1>1, <1>4, <3>1
    <3> QED BY <3>2, <3>3, <3>4
  <2> QED BY <2>1, <2>2
<1> HIDE DEF g
<1>14. Permutation(g, DOMAIN K)
  BY <1>5, <1>10, <1>11, <1>12 DEF Permutation
<1>15. L = [k \in DOMAIN K |-> K[g[k]]]
  BY <1>5, <1>13
<1> QED BY <1>9, <1>14, <1>15 DEF K, L
\* What the second pass asks of a model and of its keys, whatever the other models are.
Alone(m) ==
    LET sql == m.storage
    IN  /\ ~ Repeats(Map(LAMBDA f : f.name, m.fields))
        /\ m.stored =>
             /\ sql.schema \notin SystemSchemas
             /\ ~ DuplicateColumn(sql) /\ Names(sql.columns) \cap SystemColumns = {}
             /\ ~ IncompleteMapping(m) /\ ~ LossyPresence(m) /\ ~ DuplicateKey(sql)
             /\ \A k \in ToSet(KeysOf(sql)) : ToSet(k) \subseteq FieldNames(m)
             /\ ~ NullablePrimaryKey(m)
             /\ \A k \in DOMAIN sql.foreignKeys : ~ Again(m, k)

LEMMA KeySetsMove ==
    ASSUME NEW s \in Storages, NEW t \in Storages, SameStorage(s, t)
    PROVE  /\ ToSet(KeysOf(t)) = ToSet(KeysOf(s)) /\ DuplicateKey(t) = DuplicateKey(s)
<1> DEFINE Shorts == Seq(Int)
           K == KeysOf(s)
           L == KeysOf(t)
           w == [i \in DOMAIN K |-> ToSet(K[i])]
           v == [i \in DOMAIN L |-> ToSet(L[i])]
<1>1. K \in Seq(Shorts)
  BY KeysType
<1>2. Rearranged(K, L)
  BY KeysRearranged DEF Rearranged
<1>3. DuplicateKey(s) = Repeats(w) /\ DuplicateKey(t) = Repeats(v)
  BY DEF DuplicateKey, Map
<1> HIDE DEF Shorts, K, L
<1>4. w = [i \in DOMAIN K |-> w[i]] /\ v = [i \in DOMAIN L |-> v[i]] /\ MadeAlike(K, w, L, v)
  BY DEF MadeAlike
<1> HIDE DEF w, v
<1>5. Repeats(v) = Repeats(w)
  BY <1>1, <1>2, <1>4, SameRepeats
<1>6. ToSet(L) = ToSet(K)
  BY <1>1, <1>2, RearrangedSet
<1> QED BY <1>3, <1>5, <1>6 DEF K, L

LEMMA ColumnsMove ==
    ASSUME NEW s \in Storages, NEW t \in Storages, SameStorage(s, t)
    PROVE  DuplicateColumn(t) = DuplicateColumn(s)
<1> DEFINE a == s.columns
           b == t.columns
           w == [i \in DOMAIN a |-> a[i].field]
           v == [i \in DOMAIN b |-> b[i].field]
           w2 == [i \in DOMAIN a |-> a[i].name]
           v2 == [i \in DOMAIN b |-> b[i].name]
<1>1. a \in Seq(Columns) /\ Rearranged(a, b)
  BY DEF Storages, SameStorage
<1>2. DuplicateColumn(s) = (Repeats(w) \/ Repeats(w2)) /\ DuplicateColumn(t) = (Repeats(v) \/ Repeats(v2))
  BY DEF DuplicateColumn, Map
<1> HIDE DEF a, b
<1>3. w = [i \in DOMAIN a |-> w[i]] /\ v = [i \in DOMAIN b |-> v[i]] /\ MadeAlike(a, w, b, v)
  BY DEF MadeAlike
<1>4. w2 = [i \in DOMAIN a |-> w2[i]] /\ v2 = [i \in DOMAIN b |-> v2[i]] /\ MadeAlike(a, w2, b, v2)
  BY DEF MadeAlike
<1> HIDE DEF w, v, w2, v2
<1>5. Repeats(v) = Repeats(w)
  BY <1>1, <1>3, SameRepeats
<1>6. Repeats(v2) = Repeats(w2)
  BY <1>1, <1>4, SameRepeats
<1> QED BY <1>2, <1>5, <1>6

\* No two foreign keys of the model relate the same.
Relating(fks) ==
    \A i, j \in DOMAIN fks : /\ fks[i].fields = fks[j].fields /\ fks[i].model = fks[j].model
                             /\ fks[i].refFields = fks[j].refFields
                             => i = j

LEMMA AgainRelating ==
    ASSUME NEW m \in Models
    PROVE  Relating(m.storage.foreignKeys) <=> \A k \in DOMAIN m.storage.foreignKeys : ~ Again(m, k)
<1> DEFINE u == m.storage.foreignKeys
<1>1. u \in Seq(Foreigns)
  BY DEF Models, Storages
<1>2. Len(u) \in Nat /\ DOMAIN u = 1..Len(u)
  BY <1>1
<1>3. Relating(u) => \A k \in DOMAIN u : ~ Again(m, k)
  BY <1>2 DEF Relating, Again
<1>4. ASSUME \A k \in DOMAIN u : ~ Again(m, k), NEW i \in DOMAIN u, NEW j \in DOMAIN u,
             u[i].fields = u[j].fields, u[i].model = u[j].model, u[i].refFields = u[j].refFields
      PROVE  i = j
  <2>1. ~ (i < j)
    <3> SUFFICES ASSUME i < j PROVE FALSE
      OBVIOUS
    <3>1. i \in 1..(j - 1)
      BY <1>2
    <3>2. Again(m, j)
      BY <1>4, <3>1 DEF Again
    <3> QED BY <1>4, <3>2
  <2>2. ~ (j < i)
    <3> SUFFICES ASSUME j < i PROVE FALSE
      OBVIOUS
    <3>1. j \in 1..(i - 1)
      BY <1>2
    <3>2. Again(m, i)
      BY <1>4, <3>1 DEF Again
    <3> QED BY <1>4, <3>2
  <2> QED BY <1>2, <2>1, <2>2
<1>5. (\A k \in DOMAIN u : ~ Again(m, k)) => Relating(u)
  BY <1>4 DEF Relating
<1> QED BY <1>3, <1>5

LEMMA RelatingMoves ==
    ASSUME NEW s \in Seq(Foreigns), NEW t, Rearranged(s, t), Relating(s)
    PROVE  Relating(t)
<1>1. PICK p : Permutation(p, DOMAIN s) /\ t = [r \in DOMAIN s |-> s[p[r]]]
  BY DEF Rearranged
<1>2. /\ DOMAIN t = DOMAIN s /\ \A r \in DOMAIN s : p[r] \in DOMAIN s /\ t[r] = s[p[r]]
      /\ \A r, u \in DOMAIN s : p[r] = p[u] => r = u
  BY <1>1 DEF Permutation
<1>3. ASSUME NEW i \in DOMAIN t, NEW j \in DOMAIN t,
             t[i].fields = t[j].fields, t[i].model = t[j].model, t[i].refFields = t[j].refFields
      PROVE  i = j
  <2>1. p[i] \in DOMAIN s /\ p[j] \in DOMAIN s /\ t[i] = s[p[i]] /\ t[j] = s[p[j]]
    BY <1>2
  <2>2. p[i] = p[j]
    BY <1>3, <2>1 DEF Relating
  <2> QED BY <1>2, <2>2
<1> QED BY <1>3 DEF Relating

LEMMA AloneMoves ==
    ASSUME NEW m \in Models, NEW x \in Models, SameModel(m, x), Alone(m)
    PROVE  Alone(x)
<1> DEFINE s == m.storage
           t == x.storage
<1>1. x.stored = m.stored /\ SameStorage(s, t) /\ t.schema = s.schema /\ t.primaryKey = s.primaryKey
  BY DEF SameModel, SameStorage
<1>2. /\ s \in Storages /\ t \in Storages /\ ToSet(x.fields) = ToSet(m.fields)
      /\ ToSet(t.columns) = ToSet(s.columns) /\ FieldNames(x) = FieldNames(m)
  BY SameLists
<1>3. ~ Repeats(Map(LAMBDA f : f.name, m.fields)) /\ ~ Repeats(Map(LAMBDA f : f.name, x.fields))
  BY ModelFieldsRepeat DEF Alone
<1>4. ToSet(KeysOf(t)) = ToSet(KeysOf(s)) /\ DuplicateKey(t) = DuplicateKey(s) /\ DuplicateColumn(t) = DuplicateColumn(s)
  BY <1>1, <1>2, KeySetsMove, ColumnsMove
<1>5. SUFFICES ASSUME m.stored
               PROVE  /\ t.schema \notin SystemSchemas
                      /\ ~ DuplicateColumn(t) /\ Names(t.columns) \cap SystemColumns = {}
                      /\ ~ IncompleteMapping(x) /\ ~ LossyPresence(x) /\ ~ DuplicateKey(t)
                      /\ \A k \in ToSet(KeysOf(t)) : ToSet(k) \subseteq FieldNames(x)
                      /\ ~ NullablePrimaryKey(x)
                      /\ \A k \in DOMAIN t.foreignKeys : ~ Again(x, k)
  BY <1>1, <1>3 DEF Alone
<1>6. /\ s.schema \notin SystemSchemas
      /\ ~ DuplicateColumn(s) /\ Names(s.columns) \cap SystemColumns = {}
      /\ ~ IncompleteMapping(m) /\ ~ LossyPresence(m) /\ ~ DuplicateKey(s)
      /\ \A k \in ToSet(KeysOf(s)) : ToSet(k) \subseteq FieldNames(m)
      /\ ~ NullablePrimaryKey(m)
      /\ \A k \in DOMAIN s.foreignKeys : ~ Again(m, k)
  BY <1>5 DEF Alone
<1>7. Names(t.columns) \cap SystemColumns = {}
  BY <1>2, <1>6 DEF Names
<1>8. ~ IncompleteMapping(x) /\ ~ LossyPresence(x)
  BY <1>2, <1>6 DEF IncompleteMapping, LossyPresence
<1>9. ~ NullablePrimaryKey(x)
  <2>1. \A n \in FieldNames(m) : FieldOf(x, n) = FieldOf(m, n)
    BY <1>3, SameField
  <2> QED BY <1>1, <1>2, <1>6, <2>1 DEF NullablePrimaryKey
<1>10. \A k \in DOMAIN t.foreignKeys : ~ Again(x, k)
  <2>1. s.foreignKeys \in Seq(Foreigns) /\ Rearranged(s.foreignKeys, t.foreignKeys)
    BY <1>1, <1>2 DEF Storages, SameStorage
  <2>2. Relating(s.foreignKeys)
    BY <1>6, AgainRelating
  <2>3. Relating(t.foreignKeys)
    BY <2>1, <2>2, RelatingMoves
  <2> QED BY <2>3, AgainRelating
<1> QED BY <1>1, <1>2, <1>4, <1>6, <1>7, <1>8, <1>9, <1>10
Distinct(s) == \A i, j \in DOMAIN s : s[i].name = s[j].name => i = j

LEMMA ModelsDistinct ==
    ASSUME NEW d \in Documents
    PROVE  ~ Repeats(Map(LAMBDA m : m.name, d.models)) => Distinct(d.models)
<1> DEFINE s == d.models
           w == [i \in DOMAIN s |-> s[i].name]
<1>1. s \in Seq(Models)
  BY DEF Documents
<1>2. \A i \in DOMAIN s : s[i].name \in Int
  <2>1. \A m \in Models : m.name \in Int
    BY DEF Models
  <2> QED BY <1>1, <2>1
<1>3. Map(LAMBDA m : m.name, s) = w
  BY DEF Map
<1> HIDE DEF s
<1>4. w = [i \in DOMAIN s |-> w[i]] /\ \A i \in DOMAIN s : w[i] = s[i].name /\ w[i] \in Int
  BY <1>2
<1> HIDE DEF w
<1>5. w \in Seq(Int) /\ DOMAIN w = DOMAIN s
  BY <1>1, <1>4, MappedLists
<1>6. ~ Repeats(w) => Distinct(s)
  BY <1>4, <1>5, NoRepeats DEF Distinct
<1> QED BY <1>3, <1>6 DEF s

LEMMA ModelNamed ==
    ASSUME NEW d \in Documents, Distinct(d.models), NEW i \in DOMAIN d.models
    PROVE  d.models[i].name \in ModelNames(d) /\ ModelOf(d, d.models[i].name) = d.models[i]
<1>1. d.models[i].name \in ModelNames(d)
  BY DEF ModelNames, ToSet
<1>2. PICK j \in DOMAIN d.models : /\ ModelOf(d, d.models[i].name) = d.models[j]
                                   /\ d.models[j].name = d.models[i].name
  BY <1>1, ModelFacts
<1>3. j = i
  BY <1>2 DEF Distinct
<1> QED BY <1>1, <1>2, <1>3

\* A name means the same model in both documents.
LEMMA ModelsMatch ==
    ASSUME NEW d \in Documents, NEW y \in Documents, SameDeclarations(d, y), Distinct(d.models)
    PROVE  /\ Distinct(y.models) /\ ModelNames(y) = ModelNames(d)
           /\ \A n \in ModelNames(d) : SameModel(ModelOf(d, n), ModelOf(y, n))
<1> DEFINE s == d.models
           t == y.models
<1>1. DOMAIN t = DOMAIN s
  BY DEF SameDeclarations, SameModels
<1>2. PICK q : Permutation(q, DOMAIN s) /\ \A r \in DOMAIN s : SameModel(s[q[r]], t[r])
  BY DEF SameDeclarations, SameModels
<1>3. /\ \A r \in DOMAIN s : q[r] \in DOMAIN s
      /\ \A r, u \in DOMAIN s : q[r] = q[u] => r = u
      /\ \A i \in DOMAIN s : \E r \in DOMAIN s : q[r] = i
  BY <1>2 DEF Permutation
<1>4. \A r \in DOMAIN s : t[r].name = s[q[r]].name
  BY <1>2 DEF SameModel
<1>5. Distinct(t)
  <2> SUFFICES ASSUME NEW i \in DOMAIN t, NEW j \in DOMAIN t, t[i].name = t[j].name PROVE i = j
    BY DEF Distinct
  <2>1. s[q[i]].name = s[q[j]].name /\ q[i] \in DOMAIN s /\ q[j] \in DOMAIN s
    BY <1>1, <1>3, <1>4
  <2>2. q[i] = q[j]
    BY <2>1 DEF Distinct
  <2> QED BY <1>1, <1>3, <2>2
<1>6. ASSUME NEW n \in ModelNames(d)
      PROVE  n \in ModelNames(y) /\ SameModel(ModelOf(d, n), ModelOf(y, n))
  <2>1. PICK i \in DOMAIN s : ModelOf(d, n) = s[i] /\ s[i].name = n
    BY ModelFacts
  <2>2. PICK r \in DOMAIN s : q[r] = i
    BY <1>3
  <2>3. t[r].name = n /\ r \in DOMAIN t
    BY <1>1, <1>4, <2>1, <2>2
  <2>4. t[r].name \in ModelNames(y) /\ ModelOf(y, t[r].name) = t[r]
    BY <1>5, <2>3, ModelNamed
  <2>5. SameModel(s[i], t[r])
    BY <1>2, <2>2
  <2> QED BY <2>1, <2>3, <2>4, <2>5
<1>7. ASSUME NEW n \in ModelNames(y) PROVE n \in ModelNames(d)
  <2>1. PICK r \in DOMAIN t : t[r].name = n
    BY ModelFacts
  <2>2. q[r] \in DOMAIN s /\ s[q[r]].name = n
    BY <1>1, <1>3, <1>4, <2>1
  <2> QED BY <2>2 DEF ModelNames, ToSet
<1> QED BY <1>5, <1>6, <1>7

\* A foreign key that refers to something in d refers to the same in y.
LEMMA ReferenceMoves ==
    ASSUME NEW d \in Documents, NEW y \in Documents, SameDeclarations(d, y), Distinct(d.models),
           \A i \in DOMAIN d.models : Alone(d.models[i]),
           NEW m \in Models, NEW x \in Models, SameModel(m, x), Alone(m),
           NEW k, ~ UnknownReference(d, k), ~ UnresolvedFields(m, k, ModelOf(d, k.model)),
           ~ NonUniqueReference(k, ModelOf(d, k.model)), ~ TypeMismatch(m, k, ModelOf(d, k.model)),
           ~ InvalidSetNull(m, k), k \in Foreigns
    PROVE  /\ ~ UnknownReference(y, k) /\ ~ UnresolvedFields(x, k, ModelOf(y, k.model))
           /\ ~ NonUniqueReference(k, ModelOf(y, k.model)) /\ ~ TypeMismatch(x, k, ModelOf(y, k.model))
           /\ ~ InvalidSetNull(x, k)
<1> DEFINE a == ModelOf(d, k.model)
           b == ModelOf(y, k.model)
<1>1. k.model \in ModelNames(d) /\ a.stored
  BY DEF UnknownReference
<1>2. k.model \in ModelNames(y) /\ SameModel(a, b)
  BY <1>1, ModelsMatch
<1>3. a \in Models /\ b \in Models /\ Alone(a)
  <2>1. PICK i \in DOMAIN d.models : a = d.models[i]
    BY <1>1, ModelFacts
  <2>2. PICK j \in DOMAIN y.models : b = y.models[j]
    BY <1>2, ModelFacts
  <2>3. d.models \in Seq(Models) /\ y.models \in Seq(Models)
    BY DEF Documents
  <2> QED BY <2>1, <2>2, <2>3
<1> HIDE DEF a, b
<1>4. b.stored = a.stored /\ SameStorage(a.storage, b.storage)
  BY <1>2 DEF SameModel
<1>5. ~ UnknownReference(y, k)
  BY <1>1, <1>2, <1>4 DEF UnknownReference, b
<1>6. FieldNames(x) = FieldNames(m) /\ FieldNames(b) = FieldNames(a) /\ a.storage \in Storages /\ b.storage \in Storages
  BY <1>2, <1>3, SameLists
<1>7. /\ \A n \in FieldNames(m) : FieldOf(x, n) = FieldOf(m, n)
      /\ \A n \in FieldNames(a) : FieldOf(b, n) = FieldOf(a, n)
  <2>1. ~ Repeats(Map(LAMBDA f : f.name, m.fields)) /\ ~ Repeats(Map(LAMBDA f : f.name, a.fields))
    BY <1>3 DEF Alone
  <2>2. \A n \in FieldNames(m) : FieldOf(x, n) = FieldOf(m, n)
    BY <2>1, SameField
  <2>3. \A n \in FieldNames(a) : FieldOf(b, n) = FieldOf(a, n)
    BY <1>2, <1>3, <2>1, SameField
  <2> QED BY <2>2, <2>3
<1>8. ~ UnresolvedFields(m, k, a) /\ ~ NonUniqueReference(k, a) /\ ~ TypeMismatch(m, k, a)
  BY DEF a
<1>9. ~ UnresolvedFields(x, k, b)
  BY <1>6, <1>8 DEF UnresolvedFields
<1>10. ~ NonUniqueReference(k, b)
  <2>1. ToSet(KeysOf(b.storage)) = ToSet(KeysOf(a.storage))
    BY <1>4, <1>6, KeySetsMove
  <2> QED BY <1>8, <2>1 DEF NonUniqueReference
<1>11. /\ Len(k.fields) = Len(k.refFields) /\ ToSet(k.fields) \subseteq FieldNames(m)
       /\ ToSet(k.refFields) \subseteq FieldNames(a)
  BY <1>8 DEF UnresolvedFields
<1>12. ASSUME NEW i \in DOMAIN k.fields
       PROVE  k.fields[i] \in FieldNames(m) /\ k.refFields[i] \in FieldNames(a)
  <2>1. k.fields \in Seq(Int) /\ k.refFields \in Seq(Int)
    BY DEF Foreigns
  <2>2. i \in DOMAIN k.refFields
    BY <1>11, <2>1
  <2> QED BY <1>11, <2>2 DEF ToSet
<1>13. ~ TypeMismatch(x, k, b)
  <2>1. \A i \in DOMAIN k.fields : FieldOf(m, k.fields[i]).type = FieldOf(a, k.refFields[i]).type
    BY <1>8 DEF TypeMismatch
  <2>2. \A i \in DOMAIN k.fields : FieldOf(x, k.fields[i]).type = FieldOf(b, k.refFields[i]).type
    BY <1>7, <1>12, <2>1
  <2> QED BY <2>2 DEF TypeMismatch
<1>14. ~ InvalidSetNull(x, k)
  BY <1>7, <1>11 DEF InvalidSetNull
<1> QED BY <1>5, <1>9, <1>10, <1>13, <1>14 DEF b
RefersSoundly(d, m, k) ==
    LET target == ModelOf(d, k.model)
    IN  /\ ~ UnknownReference(d, k) /\ ~ UnresolvedFields(m, k, target)
        /\ ~ NonUniqueReference(k, target) /\ ~ TypeMismatch(m, k, target)
        /\ ~ InvalidSetNull(m, k)

TablesOnce(s) ==
    \A i, j \in DOMAIN s :
       /\ s[i].stored /\ s[j].stored /\ s[i].storage.schema = s[j].storage.schema
       /\ s[i].storage.table = s[j].storage.table
       => i = j

\* The second pass without the places: each model alone, the tables, the references.
SecondPass(d) ==
    /\ \A i \in DOMAIN d.models : Alone(d.models[i])
    /\ TablesOnce(d.models)
    /\ \A i \in DOMAIN d.models : d.models[i].stored =>
          \A k \in ToSet(d.models[i].storage.foreignKeys) : RefersSoundly(d, d.models[i], k)

LEMMA SecondPassIff ==
    ASSUME NEW d \in Documents
    PROVE  (\A i \in DOMAIN d.models : Sound(d, i)) <=> SecondPass(d)
<1> DEFINE s == d.models
           Keys(i) == \A k \in DOMAIN s[i].storage.foreignKeys :
                         ~ Again(s[i], k) /\ RefersSoundly(d, s[i], s[i].storage.foreignKeys[k])
<1>1. Len(s) \in Nat /\ DOMAIN s = 1..Len(s)
  BY DEF Documents
<1>2. TablesOnce(s) <=> \A i \in DOMAIN s : s[i].stored => ~ DuplicateTable(d, i)
  <2>1. TablesOnce(s) => \A i \in DOMAIN s : s[i].stored => ~ DuplicateTable(d, i)
    BY <1>1 DEF TablesOnce, DuplicateTable
  <2>2. ASSUME \A i \in DOMAIN s : s[i].stored => ~ DuplicateTable(d, i),
               NEW i \in DOMAIN s, NEW j \in DOMAIN s, s[i].stored, s[j].stored,
               s[i].storage.schema = s[j].storage.schema, s[i].storage.table = s[j].storage.table
        PROVE  i = j
    <3>1. ~ (i < j)
      BY <1>1, <2>2 DEF DuplicateTable
    <3>2. ~ (j < i)
      BY <1>1, <2>2 DEF DuplicateTable
    <3> QED BY <1>1, <3>1, <3>2
  <2> QED BY <2>1, <2>2 DEF TablesOnce
<1>3. ASSUME NEW i \in DOMAIN s
      PROVE  (\A k \in DOMAIN s[i].storage.foreignKeys : foreignKey(d, s[i], k) = <<>>) <=> Keys(i)
  BY ForeignKeyReport DEF RefersSoundly
<1>4. ASSUME NEW i \in DOMAIN s
      PROVE  Keys(i) <=> /\ \A k \in DOMAIN s[i].storage.foreignKeys : ~ Again(s[i], k)
                         /\ \A k \in ToSet(s[i].storage.foreignKeys) : RefersSoundly(d, s[i], k)
  BY DEF ToSet
<1>5. ASSUME NEW i \in DOMAIN s
      PROVE  Sound(d, i) <=> /\ Alone(s[i]) /\ (s[i].stored => ~ DuplicateTable(d, i))
                             /\ s[i].stored => \A k \in ToSet(s[i].storage.foreignKeys) : RefersSoundly(d, s[i], k)
  <2>1. (\A k \in DOMAIN KeysOf(s[i].storage) : ToSet(KeysOf(s[i].storage)[k]) \subseteq FieldNames(s[i]))
        <=> \A k \in ToSet(KeysOf(s[i].storage)) : ToSet(k) \subseteq FieldNames(s[i])
    BY DEF ToSet
  <2> HIDE DEF Keys
  <2> QED BY <1>3, <1>4, <2>1 DEF Sound, Alone
<1> HIDE DEF Keys
<1> QED BY <1>2, <1>5 DEF SecondPass

LEMMA SecondPassMoves ==
    ASSUME NEW d \in Documents, NEW y \in Documents, SameDeclarations(d, y), Distinct(d.models),
           SecondPass(d)
    PROVE  SecondPass(y)
<1> DEFINE s == d.models
           t == y.models
<1>1. DOMAIN t = DOMAIN s /\ (\A i \in DOMAIN s : s[i] \in Models) /\ (\A r \in DOMAIN t : t[r] \in Models)
  BY DEF SameDeclarations, SameModels, Documents
<1>2. PICK q : Permutation(q, DOMAIN s) /\ \A r \in DOMAIN s : SameModel(s[q[r]], t[r])
  BY DEF SameDeclarations, SameModels
<1>3. /\ \A r \in DOMAIN s : q[r] \in DOMAIN s
      /\ \A r, u \in DOMAIN s : q[r] = q[u] => r = u
  BY <1>2 DEF Permutation
<1>4. \A i \in DOMAIN s : Alone(s[i])
  BY DEF SecondPass
<1>5. ASSUME NEW r \in DOMAIN t
      PROVE  /\ q[r] \in DOMAIN s /\ t[r] \in Models /\ s[q[r]] \in Models /\ SameModel(s[q[r]], t[r])
             /\ t[r].stored = s[q[r]].stored /\ t[r].storage.schema = s[q[r]].storage.schema
             /\ t[r].storage.table = s[q[r]].storage.table /\ Alone(t[r])
             /\ ToSet(t[r].storage.foreignKeys) = ToSet(s[q[r]].storage.foreignKeys)
  <2>1. q[r] \in DOMAIN s /\ t[r] \in Models /\ s[q[r]] \in Models /\ SameModel(s[q[r]], t[r])
    BY <1>1, <1>2, <1>3
  <2>2. Alone(t[r])
    BY <1>4, <2>1, AloneMoves
  <2>3. ToSet(t[r].storage.foreignKeys) = ToSet(s[q[r]].storage.foreignKeys)
    BY <2>1, SameLists
  <2> QED BY <2>1, <2>2, <2>3 DEF SameModel, SameStorage
<1>6. TablesOnce(t)
  <2> SUFFICES ASSUME NEW i \in DOMAIN t, NEW j \in DOMAIN t, t[i].stored, t[j].stored,
                      t[i].storage.schema = t[j].storage.schema, t[i].storage.table = t[j].storage.table
               PROVE  i = j
    BY DEF TablesOnce
  <2>1. TablesOnce(s)
    BY DEF SecondPass
  <2>2. q[i] = q[j]
    BY <1>5, <2>1 DEF TablesOnce
  <2> QED BY <1>1, <1>3, <2>2
<1>7. ASSUME NEW r \in DOMAIN t, t[r].stored, NEW k \in ToSet(t[r].storage.foreignKeys)
      PROVE  RefersSoundly(y, t[r], k)
  <2> DEFINE m == s[q[r]]
             x == t[r]
  <2>1. m \in Models /\ x \in Models /\ SameModel(m, x) /\ Alone(m) /\ k \in ToSet(m.storage.foreignKeys)
    BY <1>4, <1>5, <1>7
  <2>2. RefersSoundly(d, m, k)
    BY <1>5, <1>7 DEF SecondPass
  <2> HIDE DEF m, x
  <2>3. m.storage.foreignKeys \in Seq(Foreigns)
    BY <2>1 DEF Models, Storages
  <2>4. k \in Foreigns
    BY <2>1, <2>3 DEF ToSet
  <2>5. /\ ~ UnknownReference(d, k) /\ ~ UnresolvedFields(m, k, ModelOf(d, k.model))
        /\ ~ NonUniqueReference(k, ModelOf(d, k.model)) /\ ~ TypeMismatch(m, k, ModelOf(d, k.model))
        /\ ~ InvalidSetNull(m, k)
    BY <2>2 DEF RefersSoundly
  <2>6. /\ ~ UnknownReference(y, k) /\ ~ UnresolvedFields(x, k, ModelOf(y, k.model))
        /\ ~ NonUniqueReference(k, ModelOf(y, k.model)) /\ ~ TypeMismatch(x, k, ModelOf(y, k.model))
        /\ ~ InvalidSetNull(x, k)
    BY <1>4, <2>1, <2>4, <2>5, ReferenceMoves
  <2>7. RefersSoundly(y, x, k)
    BY <2>6 DEF RefersSoundly
  <2> QED BY <2>7 DEF x
<1> QED BY <1>5, <1>6, <1>7 DEF SecondPass

LEMMA NamesMove ==
    ASSUME NEW d \in Documents, Distinct(d.models)
    PROVE  ~ Repeats(Map(LAMBDA m : m.name, d.models))
<1> DEFINE s == d.models
           w == [i \in DOMAIN s |-> s[i].name]
<1>1. s \in Seq(Models)
  BY DEF Documents
<1>2. \A i \in DOMAIN s : s[i].name \in Int
  <2>1. \A m \in Models : m.name \in Int
    BY DEF Models
  <2> QED BY <1>1, <2>1
<1>3. Map(LAMBDA m : m.name, s) = w
  BY DEF Map
<1> HIDE DEF s
<1>4. w = [i \in DOMAIN s |-> w[i]] /\ \A i \in DOMAIN s : w[i] = s[i].name /\ w[i] \in Int
  BY <1>2
<1> HIDE DEF w
<1>5. w \in Seq(Int) /\ DOMAIN w = DOMAIN s
  BY <1>1, <1>4, MappedLists
<1>6. \A i, j \in DOMAIN w : w[i] = w[j] => i = j
  BY <1>4, <1>5 DEF Distinct, s
<1>7. ~ Repeats(w)
  BY <1>5, <1>6, Unrepeated
<1> QED BY <1>3, <1>7 DEF s
-----------------------------------------------------------------------------
(* The stored models, and the third pass, forget the order.                *)

LEMMA StoredDistinct ==
    ASSUME NEW d \in Documents, Distinct(d.models)
    PROVE  Distinct(Stored(d))
<1> DEFINE s == d.models
           f == [i \in DOMAIN s |-> IF s[i].stored THEN <<s[i]>> ELSE <<>>]
           fl == FlattenSeq(f)
<1>1. s \in Seq(Models)
  BY DEF Documents
<1>2. Stored(d) = fl
  BY DEF Stored, Each, Map
<1>3. ASSUME NEW i \in DOMAIN s
      PROVE  /\ f[i] \in Seq(Models) /\ \A a \in DOMAIN f[i] : a = 1 /\ f[i][a] = s[i]
  <2>1. s[i] \in Models
    BY <1>1
  <2>2. CASE s[i].stored
    BY <2>1, <2>2
  <2>3. CASE ~ s[i].stored
    BY <2>1, <2>3
  <2> QED BY <2>2, <2>3
<1>4. f \in Seq(Seq(Models)) /\ DOMAIN f = DOMAIN s
  <2>1. f = [i \in DOMAIN s |-> f[i]]
    OBVIOUS
  <2> HIDE DEF f, s
  <2> QED BY <1>1, <1>3, <2>1, MappedLists
<1> HIDE DEF f
<1>5. PICK off \in Offsets(f) :
         /\ \A i \in DOMAIN f : \A a \in DOMAIN f[i] :
               off[i] + a \in DOMAIN FlattenSeq(f) /\ FlattenSeq(f)[off[i] + a] = f[i][a]
         /\ \A k \in DOMAIN FlattenSeq(f) : \E i \in DOMAIN f : \E a \in DOMAIN f[i] : k = off[i] + a
  <2> DEFINE T == Models
             ss == f
  <2>1. ss \in Seq(Seq(T))
    BY <1>4
  <2> HIDE DEF T, ss
  <2>2. /\ FlattenSeq(ss) \in Seq(T)
        /\ \E off \in Offsets(ss) :
             /\ \A i \in DOMAIN ss : \A a \in DOMAIN ss[i] :
                   /\ off[i] + a \in DOMAIN FlattenSeq(ss)
                   /\ FlattenSeq(ss)[off[i] + a] = ss[i][a]
             /\ \A k \in DOMAIN FlattenSeq(ss) :
                   \E i \in DOMAIN ss : \E a \in DOMAIN ss[i] : k = off[i] + a
    BY <2>1, FlattenFacts
  <2> QED BY <2>2 DEF ss
<1> HIDE DEF fl
<1>6. ASSUME NEW k \in DOMAIN fl
      PROVE  \E i \in DOMAIN s : k = off[i] + 1 /\ fl[k] = s[i]
  <2>1. PICK i \in DOMAIN f : \E a \in DOMAIN f[i] : k = off[i] + a
    BY <1>5 DEF fl
  <2>2. PICK a \in DOMAIN f[i] : k = off[i] + a
    BY <2>1
  <2>3. FlattenSeq(f)[off[i] + a] = f[i][a]
    BY <1>5
  <2>4. a = 1 /\ f[i][a] = s[i] /\ i \in DOMAIN s
    BY <1>3, <1>4
  <2> QED BY <2>2, <2>3, <2>4 DEF fl
<1>7. ASSUME NEW k \in DOMAIN fl, NEW l \in DOMAIN fl, fl[k].name = fl[l].name PROVE k = l
  <2>1. PICK i \in DOMAIN s : k = off[i] + 1 /\ fl[k] = s[i]
    BY <1>6
  <2>2. PICK j \in DOMAIN s : l = off[j] + 1 /\ fl[l] = s[j]
    BY <1>6
  <2>3. i = j
    BY <1>7, <2>1, <2>2 DEF Distinct
  <2> QED BY <2>1, <2>2, <2>3
<1> QED BY <1>2, <1>7 DEF Distinct

LEMMA SameLengths ==
    ASSUME NEW a \in Nat, NEW b \in Nat, NEW p \in [1..a -> 1..b], NEW q \in [1..b -> 1..a],
           \A i \in 1..a : q[p[i]] = i, \A j \in 1..b : p[q[j]] = j
    PROVE  a = b
<1>1. IsFiniteSet(1..a) /\ Cardinality(1..a) = a
  <2>1. a \in Int /\ 1 \in Int /\ a >= 0
    OBVIOUS
  <2>2. IsFiniteSet(1..a) /\ Cardinality(1..a) = IF 1 > a THEN 0 ELSE a - 1 + 1
    BY ONLY <2>1, FS_Interval
  <2> QED BY <2>1, <2>2
<1>2. IsFiniteSet(1..b) /\ Cardinality(1..b) = b
  <2>1. b \in Int /\ 1 \in Int /\ b >= 0
    OBVIOUS
  <2>2. IsFiniteSet(1..b) /\ Cardinality(1..b) = IF 1 > b THEN 0 ELSE b - 1 + 1
    BY ONLY <2>1, FS_Interval
  <2> QED BY <2>1, <2>2
<1>3. p \in Bijection(1..a, 1..b)
  <2> DEFINE A == 1..a
             B == 1..b
  <2>1. p \in [A -> B] /\ (\A j \in B : \E i \in A : p[i] = j) /\ \A i, k \in A : p[i] = p[k] => i = k
    OBVIOUS
  <2> HIDE DEF A, B
  <2>2. p \in Bijection(A, B)
    BY <2>1 DEF Bijection, Injection, Surjection, IsInjective
  <2> QED BY <2>2 DEF A, B
<1>4. ExistsBijection(1..a, 1..b)
  BY <1>3 DEF ExistsBijection
<1>5. Cardinality(1..a) = Cardinality(1..b)
  BY <1>1, <1>4, FS_Bijection
<1> QED BY <1>1, <1>2, <1>5

\* Two lists with different names, that hold the same models.
LEMMA MatchByName ==
    ASSUME NEW s \in Seq(Models), NEW t \in Seq(Models), Distinct(s), Distinct(t),
           \A i \in DOMAIN s : \E r \in DOMAIN t : t[r].name = s[i].name,
           \A r \in DOMAIN t : \E i \in DOMAIN s : SameModel(s[i], t[r])
    PROVE  SameModels(s, t)
<1> DEFINE a == Len(t)
           b == Len(s)
           p == [r \in 1..a |-> CHOOSE i \in DOMAIN s : SameModel(s[i], t[r])]
           q == [i \in 1..b |-> CHOOSE r \in DOMAIN t : t[r].name = s[i].name]
<1>1. a \in Nat /\ b \in Nat /\ DOMAIN t = 1..a /\ DOMAIN s = 1..b
  OBVIOUS
<1>2. \A r \in 1..a : p[r] \in 1..b /\ SameModel(s[p[r]], t[r])
  BY <1>1
<1>3. \A i \in 1..b : q[i] \in 1..a /\ t[q[i]].name = s[i].name
  BY <1>1
<1>4. p \in [1..a -> 1..b] /\ q \in [1..b -> 1..a]
  BY <1>2, <1>3
<1> HIDE DEF a, b, p, q
<1>5. \A r \in 1..a : s[p[r]].name = t[r].name
  BY <1>2 DEF SameModel
<1>6. ASSUME NEW r \in 1..a PROVE q[p[r]] = r
  <2>1. q[p[r]] \in DOMAIN t /\ r \in DOMAIN t /\ t[q[p[r]]].name = t[r].name
    BY <1>1, <1>2, <1>3, <1>5
  <2> QED BY <2>1 DEF Distinct
<1>7. ASSUME NEW i \in 1..b PROVE p[q[i]] = i
  <2>1. p[q[i]] \in DOMAIN s /\ i \in DOMAIN s /\ s[p[q[i]]].name = s[i].name
    BY <1>1, <1>2, <1>3, <1>5
  <2> QED BY <2>1 DEF Distinct
<1>8. a = b
  BY ONLY <1>1, <1>4, <1>6, <1>7, SameLengths
<1>9. Permutation(p, DOMAIN s)
  <2>1. p \in [1..b -> 1..b] /\ (\A r, u \in 1..b : p[r] = p[u] => r = u) /\ \A i \in 1..b : \E r \in 1..b : p[r] = i
    BY <1>3, <1>4, <1>6, <1>7, <1>8
  <2> QED BY <1>1, <2>1 DEF Permutation
<1> QED BY <1>1, <1>2, <1>8, <1>9 DEF SameModels

\* The stored models and their places.
LEMMA StoredPlaces ==
    ASSUME NEW d \in Documents
    PROVE  /\ \A i \in DOMAIN Stored(d) :
                 \E j \in DOMAIN d.models : d.models[j] = Stored(d)[i] /\ Stored(d)[i].stored
           /\ \A j \in DOMAIN d.models :
                 d.models[j].stored => \E i \in DOMAIN Stored(d) : Stored(d)[i] = d.models[j]
<1> DEFINE S == Stored(d)
           s == d.models
<1>1. /\ \A m \in ToSet(S) : \E i \in DOMAIN s : s[i] = m /\ m.stored
      /\ \A i \in DOMAIN s : s[i].stored => s[i] \in ToSet(S)
  BY StoredItems
<1> HIDE DEF S, s
<1>2. ToSet(S) = {S[i] : i \in DOMAIN S}
  BY DEF ToSet
<1>3. /\ \A i \in DOMAIN S : \E j \in DOMAIN s : s[j] = S[i] /\ S[i].stored
      /\ \A j \in DOMAIN s : s[j].stored => \E i \in DOMAIN S : S[i] = s[j]
  BY <1>1, <1>2
<1> QED BY <1>3 DEF S, s

LEMMA StoredMatch ==
    ASSUME NEW d \in Documents, NEW y \in Documents, SameDeclarations(d, y), Distinct(d.models)
    PROVE  SameModels(Stored(d), Stored(y))
<1> DEFINE s == d.models
           t == y.models
           S == Stored(d)
           U == Stored(y)
<1>1. DOMAIN t = DOMAIN s /\ Distinct(t)
  BY ModelsMatch DEF SameDeclarations, SameModels
<1>2. PICK q : Permutation(q, DOMAIN s) /\ \A r \in DOMAIN s : SameModel(s[q[r]], t[r])
  BY DEF SameDeclarations, SameModels
<1>3. (\A r \in DOMAIN s : q[r] \in DOMAIN s) /\ \A i \in DOMAIN s : \E r \in DOMAIN s : q[r] = i
  BY <1>2 DEF Permutation
<1>4. \A r \in DOMAIN s : t[r].name = s[q[r]].name /\ t[r].stored = s[q[r]].stored
  BY <1>2 DEF SameModel
<1>5. S \in Seq(Models) /\ U \in Seq(Models) /\ Distinct(S) /\ Distinct(U)
  BY <1>1, StoredItems, StoredDistinct
<1>6. /\ \A i \in DOMAIN S : \E j \in DOMAIN s : s[j] = S[i] /\ S[i].stored
      /\ \A j \in DOMAIN s : s[j].stored => \E i \in DOMAIN S : S[i] = s[j]
  BY StoredPlaces
<1>7. /\ \A r \in DOMAIN U : \E j \in DOMAIN t : t[j] = U[r] /\ U[r].stored
      /\ \A j \in DOMAIN t : t[j].stored => \E r \in DOMAIN U : U[r] = t[j]
  BY StoredPlaces
<1> HIDE DEF s, t, S, U
<1>8. ASSUME NEW i \in DOMAIN S PROVE \E r \in DOMAIN U : U[r].name = S[i].name
  <2>1. PICK j \in DOMAIN s : s[j] = S[i] /\ S[i].stored
    BY <1>6
  <2>2. PICK k \in DOMAIN s : q[k] = j
    BY <1>3
  <2>3. k \in DOMAIN t /\ t[k].stored /\ t[k].name = S[i].name
    BY <1>1, <1>4, <2>1, <2>2
  <2> QED BY <1>7, <2>3
<1>9. ASSUME NEW r \in DOMAIN U PROVE \E i \in DOMAIN S : SameModel(S[i], U[r])
  <2>1. PICK j \in DOMAIN t : t[j] = U[r] /\ U[r].stored
    BY <1>7
  <2>2. q[j] \in DOMAIN s /\ s[q[j]].stored /\ SameModel(s[q[j]], t[j])
    BY <1>1, <1>2, <1>3, <1>4, <2>1
  <2>3. PICK i \in DOMAIN S : S[i] = s[q[j]]
    BY <1>6, <2>2
  <2> QED BY <2>1, <2>2, <2>3
<1> QED BY <1>5, <1>8, <1>9, MatchByName DEF S, U
\* The names of the indexes of a table change places with its keys.
IndexesFollow(s, t, g) ==
    /\ Permutation(g, DOMAIN IndexNames(s)) /\ DOMAIN IndexNames(t) = DOMAIN IndexNames(s)
    /\ \A k \in DOMAIN IndexNames(s) : IndexNames(t)[k] = IndexNames(s)[g[k]]

LEMMA IndexesMove ==
    ASSUME NEW s \in Storages, NEW t \in Storages, SameStorage(s, t)
    PROVE  \E g : IndexesFollow(s, t, g)
<1>1. t.schema = s.schema /\ t.table = s.table
  BY DEF SameStorage
<1>2. \A kind, id : constraintName(t, kind, id) = constraintName(s, kind, id)
  BY <1>1 DEF constraintName
<1>3. PICK g : /\ Permutation(g, DOMAIN KeysOf(s)) /\ g[1] = 1
               /\ KeysOf(t) = [k \in DOMAIN KeysOf(s) |-> KeysOf(s)[g[k]]]
  BY KeysRearranged
<1>4. DOMAIN KeysOf(t) = DOMAIN KeysOf(s) /\ \A k \in DOMAIN KeysOf(s) : KeysOf(t)[k] = KeysOf(s)[g[k]]
  BY <1>3
<1>5. /\ DOMAIN IndexNames(s) = DOMAIN KeysOf(s) /\ 1 \in DOMAIN KeysOf(s)
      /\ \A k \in DOMAIN KeysOf(s) : IndexNames(s)[k] = constraintName(s, IndexKinds(k), KeysOf(s)[k])
  BY IndexNamesType
<1>6. /\ DOMAIN IndexNames(t) = DOMAIN KeysOf(t)
      /\ \A k \in DOMAIN KeysOf(t) : IndexNames(t)[k] = constraintName(t, IndexKinds(k), KeysOf(t)[k])
  BY IndexNamesType
<1>7. ASSUME NEW k \in DOMAIN KeysOf(s)
      PROVE  IndexNames(t)[k] = IndexNames(s)[g[k]]
  <2>1. g[k] \in DOMAIN KeysOf(s) /\ (k = 1 <=> g[k] = 1)
    BY <1>3, <1>5 DEF Permutation
  <2>2. IndexKinds(g[k]) = IndexKinds(k)
    BY <2>1 DEF IndexKinds
  <2>3. IndexNames(t)[k] = constraintName(s, IndexKinds(k), KeysOf(t)[k])
    BY <1>2, <1>4, <1>6
  <2>4. IndexNames(s)[g[k]] = constraintName(s, IndexKinds(g[k]), KeysOf(s)[g[k]])
    BY <1>5, <2>1
  <2> QED BY <1>4, <2>2, <2>3, <2>4
<1>8. DOMAIN IndexNames(t) = DOMAIN IndexNames(s)
  BY <1>4, <1>5, <1>6
<1>9. Permutation(g, DOMAIN IndexNames(s))
  BY <1>3, <1>5
<1> QED BY <1>5, <1>7, <1>8, <1>9 DEF IndexesFollow

LEMMA RepeatsMove ==
    ASSUME NEW N, NEW a \in Seq(N), NEW b \in Seq(N), NEW x, NEW y, Rearranged(a, x), Rearranged(b, y)
    PROVE  Repeats(x \o y) = Repeats(a \o b)
<1>1. /\ x \in Seq(N) /\ Len(x) = Len(a)
      /\ \A r \in DOMAIN x : \E i \in DOMAIN a : x[r] = a[i]
      /\ \A i \in DOMAIN a : \E r \in DOMAIN x : x[r] = a[i]
  BY RearrangedItems
<1>2. /\ y \in Seq(N) /\ Len(y) = Len(b)
      /\ \A r \in DOMAIN y : \E i \in DOMAIN b : y[r] = b[i]
      /\ \A i \in DOMAIN b : \E r \in DOMAIN y : y[r] = b[i]
  BY RearrangedItems
<1> DEFINE w == a \o b
           v == x \o y
           n == Len(a) + Len(b)
<1>3. /\ w \in Seq(N) /\ Len(a) \in Nat /\ Len(b) \in Nat /\ DOMAIN w = 1..n
      /\ \A k \in 1..Len(a) : k \in DOMAIN w /\ w[k] = a[k]
      /\ \A k \in 1..Len(b) : Len(a) + k \in DOMAIN w /\ w[Len(a) + k] = b[k]
      /\ \A k \in DOMAIN w : k \in 1..Len(a) \/ \E i \in 1..Len(b) : k = Len(a) + i
  BY ConcatParts
<1>4. /\ v \in Seq(N) /\ DOMAIN v = 1..(Len(x) + Len(y))
      /\ \A k \in 1..Len(x) : k \in DOMAIN v /\ v[k] = x[k]
      /\ \A k \in 1..Len(y) : Len(x) + k \in DOMAIN v /\ v[Len(x) + k] = y[k]
      /\ \A k \in DOMAIN v : k \in 1..Len(x) \/ \E i \in 1..Len(y) : k = Len(x) + i
  <2>1. x \in Seq(N) /\ y \in Seq(N)
    BY <1>1, <1>2
  <2> QED BY ONLY <2>1, ConcatParts
<1> HIDE DEF w, v
<1>5. DOMAIN a = 1..Len(a) /\ DOMAIN b = 1..Len(b) /\ DOMAIN x = 1..Len(x) /\ DOMAIN y = 1..Len(y)
  BY <1>1, <1>2
<1>6. \A k \in DOMAIN w : \E l \in DOMAIN v : v[l] = w[k]
  <2> TAKE k \in DOMAIN w
  <2>1. CASE k \in 1..Len(a)
    <3>1. PICK r \in DOMAIN x : x[r] = a[k]
      BY <1>1, <1>5, <2>1
    <3> QED BY <1>3, <1>4, <1>5, <2>1, <3>1
  <2>2. CASE \E i \in 1..Len(b) : k = Len(a) + i
    <3>1. PICK i \in 1..Len(b) : k = Len(a) + i
      BY <2>2
    <3>2. PICK r \in DOMAIN y : y[r] = b[i]
      BY <1>2, <1>5, <3>1
    <3>3. Len(x) + r \in DOMAIN v /\ v[Len(x) + r] = y[r] /\ w[k] = b[i]
      BY <1>3, <1>4, <1>5, <3>1, <3>2
    <3> QED BY <3>2, <3>3
  <2> QED BY <1>3, <2>1, <2>2
<1>7. \A k \in DOMAIN v : \E l \in DOMAIN w : w[l] = v[k]
  <2> TAKE k \in DOMAIN v
  <2>1. CASE k \in 1..Len(x)
    <3>1. PICK r \in DOMAIN a : a[r] = x[k]
      BY <1>1, <1>5, <2>1
    <3> QED BY <1>3, <1>4, <1>5, <2>1, <3>1
  <2>2. CASE \E i \in 1..Len(y) : k = Len(x) + i
    <3>1. PICK i \in 1..Len(y) : k = Len(x) + i
      BY <2>2
    <3>2. PICK r \in DOMAIN b : b[r] = y[i]
      BY <1>2, <1>5, <3>1
    <3>3. Len(a) + r \in DOMAIN w /\ w[Len(a) + r] = b[r] /\ v[k] = y[i]
      BY <1>3, <1>4, <1>5, <3>1, <3>2
    <3> QED BY <3>2, <3>3
  <2> QED BY <1>4, <2>1, <2>2
<1>8. ToSet(v) = ToSet(w)
  BY <1>6, <1>7 DEF ToSet
<1>9. n \in Nat /\ DOMAIN v = 1..n
  BY <1>1, <1>2, <1>3, <1>4
<1>10. w = [k \in 1..n |-> w[k]] /\ v = [k \in 1..n |-> v[k]]
  BY <1>3, <1>4, <1>9
<1> HIDE DEF n
<1>11. Repeats(v) = Repeats(w)
  BY <1>8, <1>9, <1>10, RepeatsAlike
<1> QED BY <1>11 DEF w, v

LEMMA ForeignNameMoves ==
    ASSUME NEW d \in Documents, NEW y \in Documents, SameDeclarations(d, y), Distinct(d.models),
           NEW s \in Storages, NEW t \in Storages, SameStorage(s, t), NEW k, ~ UnknownReference(d, k)
    PROVE  ForeignName(y, t, k) = ForeignName(d, s, k)
<1>1. t.schema = s.schema /\ t.table = s.table
  BY DEF SameStorage
<1>2. \A id : constraintName(t, "fk", id) = constraintName(s, "fk", id)
  BY <1>1 DEF constraintName
<1>3. SameModel(ModelOf(d, k.model), ModelOf(y, k.model))
  BY ModelsMatch DEF UnknownReference
<1>4. foreignIdentity(k, ModelOf(y, k.model).storage) = foreignIdentity(k, ModelOf(d, k.model).storage)
  BY <1>3 DEF SameModel, SameStorage, foreignIdentity
<1> QED BY <1>2, <1>4 DEF ForeignName
LEMMA RelationsMove ==
    ASSUME NEW d \in Documents, NEW y \in Documents, SameModels(Stored(d), Stored(y)), RelationsApart(d)
    PROVE  RelationsApart(y)
<1> DEFINE S == Stored(d)
           U == Stored(y)
<1>1. S \in Seq(Models) /\ U \in Seq(Models)
  BY StoredItems
<1>2. PICK q : Permutation(q, DOMAIN S) /\ \A r \in DOMAIN S : SameModel(S[q[r]], U[r])
  BY DEF SameModels
<1>3. DOMAIN U = DOMAIN S
  BY DEF SameModels
<1>4. (\A r \in DOMAIN S : q[r] \in DOMAIN S) /\ \A r, i \in DOMAIN S : q[r] = q[i] => r = i
  BY <1>2 DEF Permutation
<1> HIDE DEF S, U
<1>5. ASSUME NEW r \in DOMAIN U
      PROVE  /\ SameStorage(S[q[r]].storage, U[r].storage)
             /\ U[r].storage.schema = S[q[r]].storage.schema /\ U[r].storage.table = S[q[r]].storage.table
             /\ S[q[r]].storage \in Storages /\ U[r].storage \in Storages
  <2>1. SameModel(S[q[r]], U[r]) /\ S[q[r]] \in Models /\ U[r] \in Models
    BY <1>1, <1>2, <1>3, <1>4
  <2> QED BY <2>1 DEF SameModel, SameStorage, Models
<1>6. ASSUME NEW r \in DOMAIN U
      PROVE  \E g : IndexesFollow(S[q[r]].storage, U[r].storage, g)
  BY <1>5, IndexesMove
<1>7. ASSUME NEW i \in DOMAIN U, NEW j \in DOMAIN U
      PROVE  LET s == U[i].storage
                 t == U[j].storage
             IN  /\ s.schema = t.schema /\ s.table = t.table => i = j
                 /\ \A a \in DOMAIN IndexNames(s) :
                       /\ ~ (s.schema = t.schema /\ IndexNames(s)[a] = t.table)
                       /\ \A b \in DOMAIN IndexNames(t) :
                             s.schema = t.schema /\ IndexNames(s)[a] = IndexNames(t)[b] => i = j /\ a = b
  <2> DEFINE s == U[i].storage
             t == U[j].storage
             s0 == S[q[i]].storage
             t0 == S[q[j]].storage
  <2>1. s.schema = s0.schema /\ s.table = s0.table /\ t.schema = t0.schema /\ t.table = t0.table
    BY <1>5
  <2>2. /\ s0.schema = t0.schema /\ s0.table = t0.table => q[i] = q[j]
        /\ \A a \in DOMAIN IndexNames(s0) :
              /\ ~ (s0.schema = t0.schema /\ IndexNames(s0)[a] = t0.table)
              /\ \A b \in DOMAIN IndexNames(t0) :
                    s0.schema = t0.schema /\ IndexNames(s0)[a] = IndexNames(t0)[b] => q[i] = q[j] /\ a = b
    BY <1>3, <1>4 DEF RelationsApart, S
  <2>3. PICK g : IndexesFollow(s0, s, g)
    BY <1>6
  <2>4. PICK h : IndexesFollow(t0, t, h)
    BY <1>6
  <2>5. q[i] = q[j] => i = j /\ s = t /\ s0 = t0
    BY <1>3, <1>4
  <2> HIDE DEF s, t, s0, t0
  <2>6. ASSUME NEW a \in DOMAIN IndexNames(s)
        PROVE  g[a] \in DOMAIN IndexNames(s0) /\ IndexNames(s)[a] = IndexNames(s0)[g[a]]
    BY <2>3 DEF IndexesFollow, Permutation
  <2>7. ASSUME NEW b \in DOMAIN IndexNames(t)
        PROVE  h[b] \in DOMAIN IndexNames(t0) /\ IndexNames(t)[b] = IndexNames(t0)[h[b]]
    BY <2>4 DEF IndexesFollow, Permutation
  <2>8. ASSUME NEW a \in DOMAIN IndexNames(s), NEW b \in DOMAIN IndexNames(t),
               s.schema = t.schema, IndexNames(s)[a] = IndexNames(t)[b]
        PROVE  i = j /\ a = b
    <3>1. q[i] = q[j] /\ g[a] = h[b]
      BY <2>1, <2>2, <2>6, <2>7, <2>8
    <3>2. i = j /\ s = t /\ s0 = t0
      BY <2>5, <3>1
    <3>3. IndexNames(s)[b] = IndexNames(s0)[g[b]] /\ g[b] \in DOMAIN IndexNames(s0) /\ b \in DOMAIN IndexNames(s)
      BY <2>6, <3>2
    <3>4. g[a] = g[b]
      BY <2>1, <2>2, <2>6, <2>8, <3>2, <3>3
    <3>5. a = b
      BY <2>3, <3>3, <3>4 DEF IndexesFollow, Permutation
    <3> QED BY <3>2, <3>5
  <2>9. s.schema = t.schema /\ s.table = t.table => i = j
    BY <2>1, <2>2, <2>5
  <2>10. \A a \in DOMAIN IndexNames(s) : ~ (s.schema = t.schema /\ IndexNames(s)[a] = t.table)
    BY <2>1, <2>2, <2>6
  <2> QED BY <2>8, <2>9, <2>10 DEF s, t
<1> QED BY <1>7 DEF RelationsApart, U

\* The names of indexes and foreign keys of one table.
TableNames(d, sql) == IndexNames(sql) \o ForeignNames(d, sql)

LEMMA TableNamesMove ==
    ASSUME NEW d \in Documents, NEW y \in Documents, SameDeclarations(d, y), Distinct(d.models),
           NEW s \in Storages, NEW t \in Storages, SameStorage(s, t),
           \A k \in ToSet(s.foreignKeys) : ~ UnknownReference(d, k)
    PROVE  Repeats(TableNames(y, t)) = Repeats(TableNames(d, s))
<1> DEFINE fs == s.foreignKeys
           ft == t.foreignKeys
           w == [i \in DOMAIN fs |-> ForeignName(d, s, fs[i])]
           v == [i \in DOMAIN ft |-> ForeignName(y, t, ft[i])]
<1>1. fs \in Seq(Foreigns) /\ Rearranged(fs, ft)
  BY DEF Storages, SameStorage
<1>2. ForeignNames(d, s) = w /\ ForeignNames(y, t) = v
  BY DEF ForeignNames, Map
<1>3. MadeAlike(fs, w, ft, v)
  <2>1. \A k \in ToSet(fs) : ForeignName(y, t, k) = ForeignName(d, s, k)
    BY ForeignNameMoves
  <2> QED BY <2>1 DEF MadeAlike, ToSet
<1>4. w = [i \in DOMAIN fs |-> w[i]] /\ v = [i \in DOMAIN ft |-> v[i]]
  OBVIOUS
<1> HIDE DEF w, v, fs, ft
<1>5. Rearranged(w, v)
  BY <1>1, <1>3, <1>4, MappedRearranged
<1>6. \E N : IndexNames(s) \in Seq(N)
  BY IndexNamesType
<1>7. PICK N : IndexNames(s) \in Seq(N)
  BY <1>6
<1> DEFINE A == IndexNames(s)
           X == IndexNames(t)
           P == N \cup {w[i] : i \in DOMAIN w}
<1>8. A \in Seq(P)
  <2>1. \A i \in 1..Len(A) : A[i] \in P
    BY <1>7
  <2>2. Len(A) \in Nat /\ A = [i \in 1..Len(A) |-> A[i]]
    BY <1>7
  <2> HIDE DEF A, P
  <2> QED BY <2>1, <2>2
<1>9. w \in Seq(P)
  <2>1. \A i \in DOMAIN fs : w[i] \in P
    BY <1>4
  <2> HIDE DEF P
  <2> QED BY <1>1, <1>4, <2>1, MappedLists
<1>10. Rearranged(A, X)
  <2>1. PICK g : IndexesFollow(s, t, g)
    BY IndexesMove
  <2>2. Permutation(g, DOMAIN A) /\ DOMAIN X = DOMAIN A /\ \A k \in DOMAIN A : X[k] = A[g[k]]
    BY <2>1 DEF IndexesFollow
  <2>3. X = [k \in DOMAIN X |-> X[k]]
    <3>1. \E M : X \in Seq(M)
      BY IndexNamesType
    <3>2. PICK M : X \in Seq(M)
      BY <3>1
    <3> HIDE DEF X
    <3> QED BY <3>2
  <2> HIDE DEF A, X
  <2>4. X = [k \in DOMAIN A |-> A[g[k]]]
    BY <2>2, <2>3
  <2> QED BY <2>2, <2>4 DEF Rearranged
<1> HIDE DEF A, X, P
<1>11. Repeats(X \o v) = Repeats(A \o w)
  BY <1>5, <1>8, <1>9, <1>10, RepeatsMove
<1> QED BY <1>2, <1>11 DEF A, X, TableNames

LEMMA CollisionsMove ==
    ASSUME NEW d \in Documents, NEW y \in Documents, SameDeclarations(d, y), Distinct(d.models),
           SecondPass(d), ~ NameCollision(d)
    PROVE  ~ NameCollision(y)
<1> DEFINE S == Stored(d)
           U == Stored(y)
<1>1. SameModels(S, U)
  BY StoredMatch
<1>2. S \in Seq(Models) /\ U \in Seq(Models)
  BY StoredItems
<1>3. ~ Repeats(DeclaredRelations(y) \o IndexRelations(y))
  <2>1. RelationsApart(d)
    BY RelationNames DEF NameCollision
  <2>2. RelationsApart(y)
    BY <1>1, <2>1, RelationsMove
  <2> QED BY <2>2, RelationNames
<1>4. ASSUME NEW m \in ToSet(U) PROVE ~ Repeats(TableNames(y, m.storage))
  <2>1. PICK r \in DOMAIN U : U[r] = m
    BY DEF ToSet
  <2>2. PICK q : Permutation(q, DOMAIN S) /\ \A i \in DOMAIN S : SameModel(S[q[i]], U[i])
    BY <1>1 DEF SameModels
  <2>3. r \in DOMAIN S
    BY <1>1 DEF SameModels
  <2>4. q[r] \in DOMAIN S
    BY <2>2, <2>3 DEF Permutation
  <2> DEFINE n == S[q[r]]
  <2>5. n \in ToSet(S) /\ SameModel(n, m) /\ n \in Models /\ m \in Models
    BY <1>2, <2>1, <2>2, <2>3, <2>4 DEF ToSet
  <2> HIDE DEF n
  <2>6. PICK i \in DOMAIN d.models : d.models[i] = n /\ n.stored
    BY <2>5, StoredItems
  <2>7. \A k \in ToSet(n.storage.foreignKeys) : ~ UnknownReference(d, k)
    BY <2>6 DEF SecondPass, RefersSoundly
  <2>8. SameStorage(n.storage, m.storage) /\ n.storage \in Storages /\ m.storage \in Storages
    BY <2>5 DEF SameModel, Models
  <2>9. Repeats(TableNames(y, m.storage)) = Repeats(TableNames(d, n.storage))
    BY <2>7, <2>8, TableNamesMove
  <2>10. ~ Repeats(TableNames(d, n.storage))
    BY <2>5 DEF NameCollision, TableNames
  <2> QED BY <2>9, <2>10
<1> QED BY <1>3, <1>4 DEF NameCollision, TableNames

\* What is accepted is accepted in any order.
LEMMA AcceptanceMoves ==
    ASSUME NEW d \in Documents, NEW y \in Documents, SameDeclarations(d, y), validate(d) = <<>>
    PROVE  validate(y) = <<>>
<1>1. /\ documentShape(d) = <<>> /\ ~ NameCollision(d) /\ ~ Repeats(Map(LAMBDA m : m.name, d.models))
      /\ \A i \in DOMAIN d.models : Sound(d, i)
  BY Accepted
<1>2. SecondPass(d) /\ Distinct(d.models)
  BY <1>1, SecondPassIff, ModelsDistinct
<1>3. documentShape(y) = <<>>
  BY <1>1, DocumentShapeMoves
<1>4. SecondPass(y) /\ Distinct(y.models)
  BY <1>2, SecondPassMoves, ModelsMatch
<1>5. \A i \in DOMAIN y.models : Sound(y, i)
  BY <1>4, SecondPassIff
<1>6. ~ Repeats(Map(LAMBDA m : m.name, y.models))
  BY <1>4, NamesMove
<1>7. ~ NameCollision(y)
  BY <1>1, <1>2, CollisionsMove
<1> QED BY <1>3, <1>5, <1>6, <1>7, AcceptedIff
-----------------------------------------------------------------------------
(* emit.js forgets the order.                                              *)

ModelsAlike(u, v) == DOMAIN v = DOMAIN u /\ \A r \in DOMAIN u : SameModel(u[r], v[r])

\* The same models have the same keys.
KeyedAlike(s, K, t, L) == \A i \in DOMAIN s : \A r \in DOMAIN t : SameModel(s[i], t[r]) => L[r] = K[i]

\* Sorted by different keys, the same models are at the same places.
LEMMA SortedAlike ==
    ASSUME NEW s \in Seq(Models), NEW t \in Seq(Models), SameModels(s, t),
           NEW K, Keyed(K, s), NEW L, L = [i \in DOMAIN t |-> L[i]], KeyedAlike(s, K, t, L),
           NEW u, RankSorted(K, s, u), NEW v, RankSorted(L, t, v)
    PROVE  ModelsAlike(u, v)
<1> DEFINE n == Len(s)
<1>1. n \in Nat /\ DOMAIN s = 1..n /\ DOMAIN t = 1..n
  BY DEF SameModels
<1>2. PICK q : Permutation(q, DOMAIN s) /\ \A r \in DOMAIN s : SameModel(s[q[r]], t[r])
  BY DEF SameModels
<1> HIDE DEF n
<1>3. DOMAIN K = 1..n /\ DOMAIN L = 1..n /\ K \in [1..n -> Seq(Int)] /\ Different(K, 1..n)
  BY <1>1 DEF Keyed
<1>4. \A r \in 1..n : q[r] \in 1..n
  BY <1>1, <1>2 DEF Permutation
<1>5. Follow(L, K, q, 1..n)
  BY <1>1, <1>2, <1>4 DEF Follow, KeyedAlike
<1>6. PICK p : /\ p \in [DOMAIN s -> DOMAIN s] /\ (\A r \in DOMAIN s : RankOf(K, p[r]) = r - 1)
               /\ u = [r \in DOMAIN s |-> s[p[r]]]
  BY DEF RankSorted
<1>7. PICK b : /\ b \in [DOMAIN t -> DOMAIN t] /\ (\A r \in DOMAIN t : RankOf(L, b[r]) = r - 1)
               /\ v = [r \in DOMAIN t |-> t[b[r]]]
  BY DEF RankSorted
<1>8. Permutation(q, 1..n)
  BY <1>1, <1>2
<1>9. \A j \in 1..n : RankOf(L, j) = RankOf(K, q[j])
  BY <1>1, <1>3, <1>5, <1>8, RanksFollow
<1>10. \A i, j \in 1..n : RankOf(K, i) = RankOf(K, j) => i = j
  BY <1>1, <1>3, Ranks
<1>11. ASSUME NEW r \in 1..n PROVE SameModel(u[r], v[r])
  <2>1. p[r] \in 1..n /\ b[r] \in 1..n /\ RankOf(K, p[r]) = r - 1 /\ RankOf(L, b[r]) = r - 1
    BY <1>1, <1>6, <1>7
  <2>2. q[b[r]] = p[r]
    BY <1>4, <1>9, <1>10, <2>1
  <2>3. SameModel(s[q[b[r]]], t[b[r]])
    BY <1>1, <1>2, <2>1
  <2>4. u[r] = s[p[r]] /\ v[r] = t[b[r]]
    BY <1>1, <1>6, <1>7
  <2> QED BY <2>2, <2>3, <2>4
<1>12. DOMAIN u = 1..n /\ DOMAIN v = 1..n
  BY <1>1, <1>6, <1>7
<1> QED BY <1>11, <1>12 DEF ModelsAlike

LEMMA ModelsByNameAlike ==
    ASSUME NEW s \in Seq(Models), NEW t \in Seq(Models), SameModels(s, t), Distinct(s)
    PROVE  ModelsAlike(ByName(s), ByName(t))
<1> DEFINE K == [i \in DOMAIN s |-> <<s[i].name>>]
           L == [i \in DOMAIN t |-> <<t[i].name>>]
<1>1. (\A i \in DOMAIN s : s[i].name \in Int) /\ (\A i \in DOMAIN t : t[i].name \in Int)
  <2>1. \A f \in Models : f.name \in Int
    BY DEF Models
  <2> QED BY <2>1
<1>2. RankSorted(K, s, ByName(s)) /\ RankSorted(L, t, ByName(t))
  BY <1>1, SortedByName
<1>3. Keyed(K, s)
  BY <1>1 DEF Keyed, Different, Distinct
<1>4. L = [i \in DOMAIN t |-> L[i]] /\ KeyedAlike(s, K, t, L)
  BY DEF KeyedAlike, SameModel
<1> HIDE DEF K, L
<1> QED BY <1>2, <1>3, <1>4, SortedAlike

\* Models by schema and table, which no two of them share.
LEMMA ModelsByTableAlike ==
    ASSUME NEW s \in Seq(Models), NEW t \in Seq(Models), SameModels(s, t),
           \A i, j \in DOMAIN s : /\ s[i].storage.schema = s[j].storage.schema
                                  /\ s[i].storage.table = s[j].storage.table
                                  => i = j
    PROVE  ModelsAlike(sortBy(s, LAMBDA m : <<m.storage.schema, m.storage.table>>),
                       sortBy(t, LAMBDA m : <<m.storage.schema, m.storage.table>>))
<1> DEFINE K == [i \in DOMAIN s |-> <<s[i].storage.schema, s[i].storage.table>>]
           L == [i \in DOMAIN t |-> <<t[i].storage.schema, t[i].storage.table>>]
           u == sortBy(s, LAMBDA m : <<m.storage.schema, m.storage.table>>)
           v == sortBy(t, LAMBDA m : <<m.storage.schema, m.storage.table>>)
<1>1. \A m \in Models : m.storage.schema \in Int /\ m.storage.table \in Int
  BY DEF Models, Storages
<1>2. RankSorted(K, s, u)
  BY SortedModels
<1>3. RankSorted(L, t, v)
  BY SortedModels
<1>4. Keyed(K, s)
  <2>1. \A i \in DOMAIN s : s[i].storage.schema \in Int /\ s[i].storage.table \in Int
    BY <1>1
  <2>2. K \in [DOMAIN s -> Seq(Int)]
    BY <2>1
  <2>3. ASSUME NEW i \in DOMAIN s, NEW j \in DOMAIN s, K[i] = K[j] PROVE i = j
    <3>1. <<s[i].storage.schema, s[i].storage.table>> = <<s[j].storage.schema, s[j].storage.table>>
      BY <2>3
    <3>2. s[i].storage.schema = s[j].storage.schema /\ s[i].storage.table = s[j].storage.table
      BY <3>1
    <3> QED BY <3>2
  <2> QED BY <2>2, <2>3 DEF Keyed, Different
<1>5. L = [i \in DOMAIN t |-> L[i]] /\ KeyedAlike(s, K, t, L)
  BY DEF KeyedAlike, SameModel, SameStorage
<1> HIDE DEF K, L, u, v
<1>6. ModelsAlike(u, v)
  BY <1>2, <1>3, <1>4, <1>5, SortedAlike
<1> QED BY <1>6 DEF u, v

\* The fields of a model, sorted.
LEMMA FieldsSortedAlike ==
    ASSUME NEW m \in Models, NEW x \in Models, SameModel(m, x),
           ~ Repeats(Map(LAMBDA f : f.name, m.fields))
    PROVE  ByName(x.fields) = ByName(m.fields)
<1> DEFINE s == m.fields
           t == x.fields
           K == [i \in DOMAIN s |-> <<s[i].name>>]
           L == [i \in DOMAIN t |-> <<t[i].name>>]
<1>1. s \in Seq(Fields) /\ t \in Seq(Fields) /\ Rearranged(s, t)
  BY DEF Models, SameModel
<1>2. \A f \in Fields : f.name \in Int
  BY DEF Fields
<1>3. \A i, j \in DOMAIN s : s[i].name = s[j].name => i = j
  BY <1>1, <1>2, NamesApart
<1> HIDE DEF s, t
<1>4. (\A i \in DOMAIN s : s[i].name \in Int) /\ (\A i \in DOMAIN t : t[i].name \in Int)
  BY <1>1, <1>2
<1>5. RankSorted(K, s, ByName(s)) /\ RankSorted(L, t, ByName(t))
  BY <1>1, <1>4, SortedByName
<1>6. Keyed(K, s)
  BY <1>3, <1>4 DEF Keyed, Different
<1>7. L = [i \in DOMAIN t |-> L[i]] /\ MadeAlike(s, K, t, L)
  BY DEF MadeAlike
<1> HIDE DEF K, L
<1>8. ByName(t) = ByName(s)
  BY <1>1, <1>5, <1>6, <1>7, SortedUnique
<1> QED BY <1>8 DEF s, t

\* A model in another order has the same JSON Schema and the same TypeScript.
LEMMA ModelPartsAlike ==
    ASSUME NEW m \in Models, NEW x \in Models, SameModel(m, x),
           ~ Repeats(Map(LAMBDA f : f.name, m.fields))
    PROVE  JsonModel(x) = JsonModel(m) /\ TsModel(x) = TsModel(m)
<1>1. ByName(x.fields) = ByName(m.fields)
  BY FieldsSortedAlike
<1>2. ToSet(x.fields) = ToSet(m.fields)
  BY SameLists
<1>3. x.name = m.name
  BY DEF SameModel
<1> QED BY <1>1, <1>2, <1>3 DEF JsonModel, TsModel

LEMMA DocumentPartsAlike ==
    ASSUME NEW d \in Documents, NEW y \in Documents, SameDeclarations(d, y), Distinct(d.models),
           \A i \in DOMAIN d.models : ~ Repeats(Map(LAMBDA f : f.name, d.models[i].fields))
    PROVE  emitJsonSchema(y) = emitJsonSchema(d) /\ emitTypescript(y) = emitTypescript(d)
<1> DEFINE s == d.models
           t == y.models
           u == ByName(s)
           v == ByName(t)
<1>1. s \in Seq(Models) /\ t \in Seq(Models) /\ SameModels(s, t)
  BY DEF Documents, SameDeclarations
<1>2. /\ emitJsonSchema(d) = [r \in DOMAIN u |-> JsonModel(u[r])]
      /\ emitJsonSchema(y) = [r \in DOMAIN v |-> JsonModel(v[r])]
  BY DEF emitJsonSchema, Map, JsonModel
<1>3. /\ emitTypescript(d) = [r \in DOMAIN u |-> TsModel(u[r])]
      /\ emitTypescript(y) = [r \in DOMAIN v |-> TsModel(v[r])]
  BY DEF emitTypescript, Map, TsModel, TsField
<1>4. ModelsAlike(u, v)
  BY <1>1, ModelsByNameAlike
<1>5. /\ \A r \in DOMAIN u : u[r] \in Models /\ \E i \in DOMAIN s : u[r] = s[i]
      /\ \A r \in DOMAIN v : v[r] \in Models
  <2>1. (\A i \in DOMAIN s : s[i].name \in Int) /\ (\A i \in DOMAIN t : t[i].name \in Int)
    <3>1. \A f \in Models : f.name \in Int
      BY DEF Models
    <3> QED BY <1>1, <3>1
  <2> HIDE DEF s, t
  <2>2. Rearranged(s, u) /\ Rearranged(t, v)
    BY <1>1, <2>1, SortedByName
  <2> HIDE DEF u, v
  <2>3. u \in Seq(Models) /\ v \in Seq(Models) /\ \A r \in DOMAIN u : \E i \in DOMAIN s : u[r] = s[i]
    BY <1>1, <2>2, RearrangedItems
  <2> QED BY <2>3
<1> HIDE DEF u, v
<1>6. ASSUME NEW r \in DOMAIN u PROVE JsonModel(v[r]) = JsonModel(u[r]) /\ TsModel(v[r]) = TsModel(u[r])
  <2>1. SameModel(u[r], v[r]) /\ u[r] \in Models /\ v[r] \in Models
    BY <1>4, <1>5 DEF ModelsAlike
  <2>2. ~ Repeats(Map(LAMBDA f : f.name, u[r].fields))
    BY <1>5
  <2> QED BY <2>1, <2>2, ModelPartsAlike
<1>7. DOMAIN v = DOMAIN u
  BY <1>4 DEF ModelsAlike
<1> QED BY <1>2, <1>3, <1>6, <1>7
\* What the checks have found of a stored model, its keys and foreign keys.
FullModel(m) ==
    /\ SoundModel(m) /\ ~ DuplicateKey(m.storage) /\ Relating(m.storage.foreignKeys)

LEMMA FullModels ==
    ASSUME NEW d \in Documents, validate(d) = <<>>
    PROVE  /\ \A m \in ToSet(Stored(d)) : FullModel(m)
           /\ SecondPass(d) /\ Distinct(d.models)
           /\ \A i \in DOMAIN d.models : ~ Repeats(Map(LAMBDA f : f.name, d.models[i].fields))
<1>1. /\ ~ Repeats(Map(LAMBDA m : m.name, d.models)) /\ \A i \in DOMAIN d.models : Sound(d, i)
  BY Accepted
<1>2. SecondPass(d) /\ Distinct(d.models)
  BY <1>1, SecondPassIff, ModelsDistinct
<1>3. \A i \in DOMAIN d.models : Alone(d.models[i])
  BY <1>2 DEF SecondPass
<1>4. \A i \in DOMAIN d.models : ~ Repeats(Map(LAMBDA f : f.name, d.models[i].fields))
  BY <1>3 DEF Alone
<1>5. ASSUME NEW m \in ToSet(Stored(d)) PROVE FullModel(m)
  <2>1. SoundModel(m)
    BY AcceptedModels
  <2>2. PICK i \in DOMAIN d.models : d.models[i] = m /\ m.stored
    BY StoredItems
  <2>3. ~ DuplicateKey(m.storage) /\ \A k \in DOMAIN m.storage.foreignKeys : ~ Again(m, k)
    BY <1>3, <2>2 DEF Alone
  <2>4. Relating(m.storage.foreignKeys)
    BY <2>1, <2>3, AgainRelating DEF SoundModel
  <2> QED BY <2>1, <2>3, <2>4 DEF FullModel
<1> QED BY <1>2, <1>4, <1>5

LEMMA ColumnsSortedAlike ==
    ASSUME NEW s \in Storages, NEW t \in Storages, SameStorage(s, t), ~ DuplicateColumn(s)
    PROVE  ByName(t.columns) = ByName(s.columns)
<1> DEFINE a == s.columns
           b == t.columns
           K == [i \in DOMAIN a |-> <<a[i].name>>]
           L == [i \in DOMAIN b |-> <<b[i].name>>]
<1>1. a \in Seq(Columns) /\ b \in Seq(Columns) /\ Rearranged(a, b)
  BY DEF Storages, SameStorage
<1>2. \A f \in Columns : f.name \in Int
  BY DEF Columns
<1>3. \A i, j \in DOMAIN a : a[i].name = a[j].name => i = j
  BY ColumnFacts
<1> HIDE DEF a, b
<1>4. (\A i \in DOMAIN a : a[i].name \in Int) /\ (\A i \in DOMAIN b : b[i].name \in Int)
  BY <1>1, <1>2
<1>5. RankSorted(K, a, ByName(a)) /\ RankSorted(L, b, ByName(b))
  BY <1>1, <1>4, SortedByName
<1>6. Keyed(K, a)
  BY <1>3, <1>4 DEF Keyed, Different
<1>7. L = [i \in DOMAIN b |-> L[i]] /\ MadeAlike(a, K, b, L)
  BY DEF MadeAlike
<1> HIDE DEF K, L
<1>8. ByName(b) = ByName(a)
  BY <1>1, <1>5, <1>6, <1>7, SortedUnique
<1> QED BY <1>8 DEF a, b

LEMMA KeysSortedAlike ==
    ASSUME NEW s \in Storages, NEW t \in Storages, SameStorage(s, t), ~ DuplicateKey(s)
    PROVE  SortedKeys(t) = SortedKeys(s)
<1> DEFINE u == s.uniqueKeys
           v == t.uniqueKeys
           K == KeysOf(s)
           Shorts == Seq(Int)
           w == [i \in DOMAIN K |-> ToSet(K[i])]
<1>1. u \in Seq(Shorts) /\ v \in Seq(Shorts) /\ Rearranged(u, v)
  BY DEF Storages, SameStorage
<1>2. K \in Seq(Shorts) /\ Len(K) = Len(u) + 1 /\ \A k \in DOMAIN u : K[k + 1] = u[k]
  BY KeysType
<1>3. ~ Repeats(w)
  BY DEF DuplicateKey, Map
<1> HIDE DEF K, u, v
<1>4. \A i, j \in DOMAIN w : w[i] = w[j] => i = j
  <2> DEFINE T == {w[i] : i \in DOMAIN K}
  <2>1. w = [i \in DOMAIN K |-> w[i]] /\ \A i \in DOMAIN K : w[i] \in T
    OBVIOUS
  <2> HIDE DEF w, T, Shorts
  <2>2. w \in Seq(T)
    BY <1>2, <2>1, MappedLists
  <2> QED BY <1>3, <2>2, NoRepeats
<1>5. ASSUME NEW i \in DOMAIN u, NEW j \in DOMAIN u, u[i] = u[j] PROVE i = j
  <2>1. i + 1 \in DOMAIN K /\ j + 1 \in DOMAIN K /\ i \in Nat /\ j \in Nat
    <3> HIDE DEF Shorts
    <3> QED BY <1>1, <1>2
  <2>2. w[i + 1] = w[j + 1]
    BY <1>2, <1>5, <2>1
  <2>3. i + 1 = j + 1
    BY <1>4, <2>1, <2>2
  <2> QED BY <2>1, <2>3
<1>6. sortBy(v, LAMBDA k : k) = sortBy(u, LAMBDA k : k)
  <2> HIDE DEF w
  <2> QED BY <1>1, <1>5, SameTuplesSorted
<1> QED BY <1>6 DEF SortedKeys, u, v

\* A field has the same column.
LEMMA ColumnNameAlike ==
    ASSUME NEW m, FullModel(m), NEW x, FullModel(x), SameModel(m, x), NEW n \in FieldNames(m)
    PROVE  ColumnName(x.storage, n) = ColumnName(m.storage, n)
<1> DEFINE s == m.storage
           t == x.storage
<1>1. m \in Models /\ x \in Models /\ SoundModel(m) /\ SoundModel(x) /\ t \in Storages /\ ~ DuplicateColumn(t)
  BY DEF FullModel, SoundModel
<1>2. ToSet(t.columns) = ToSet(s.columns)
  BY <1>1, SameLists
<1>3. PICK c \in ToSet(s.columns) : c.field = n /\ c.name = ColumnName(s, n)
  BY <1>1, FieldColumn
<1>4. \A e \in ToSet(t.columns) : ColumnName(t, e.field) = e.name
  BY <1>1, ColumnFacts
<1> QED BY <1>2, <1>3, <1>4

\* The columns of a list of fields are the same.
LEMMA KeyColumnsAlike ==
    ASSUME NEW m, FullModel(m), NEW x, FullModel(x), SameModel(m, x),
           NEW key \in Seq(Int), ToSet(key) \subseteq FieldNames(m)
    PROVE  columns(x.storage, key) = columns(m.storage, key)
<1>1. \A i \in DOMAIN key : ColumnName(x.storage, key[i]) = ColumnName(m.storage, key[i])
  BY ColumnNameAlike DEF ToSet
<1> QED BY <1>1 DEF columns, Map

LEMMA KeyClauseAlike ==
    ASSUME NEW m, FullModel(m), NEW x, FullModel(x), SameModel(m, x), NEW kind,
           NEW key \in Seq(Int), ToSet(key) \subseteq FieldNames(m)
    PROVE  KeyClause(x.storage, kind, key) = KeyClause(m.storage, kind, key)
<1>1. columns(x.storage, key) = columns(m.storage, key)
  BY KeyColumnsAlike
<1>2. constraintName(x.storage, kind, key) = constraintName(m.storage, kind, key)
  BY DEF SameModel, SameStorage, constraintName
<1> QED BY <1>1, <1>2 DEF KeyClause

LEMMA TableStatementAlike ==
    ASSUME NEW m, FullModel(m), NEW x, FullModel(x), SameModel(m, x)
    PROVE  TableStatement(x) = TableStatement(m)
<1> DEFINE s == m.storage
           t == x.storage
           C == ByName(s.columns)
           U == SortedKeys(s)
<1>1. /\ m \in Models /\ x \in Models /\ s \in Storages /\ t \in Storages
      /\ ~ DuplicateColumn(s) /\ ~ DuplicateKey(s) /\ ~ IncompleteMapping(m)
      /\ ~ Repeats(Map(LAMBDA f : f.name, m.fields))
      /\ \A k \in DOMAIN KeysOf(s) : ToSet(KeysOf(s)[k]) \subseteq FieldNames(m)
  BY DEF FullModel, SoundModel
<1>2. SameStorage(s, t) /\ t.schema = s.schema /\ t.table = s.table /\ t.primaryKey = s.primaryKey
  BY DEF SameModel, SameStorage
<1>3. ByName(t.columns) = C /\ SortedKeys(t) = U
  BY <1>1, <1>2, ColumnsSortedAlike, KeysSortedAlike
<1>4. ASSUME NEW i \in DOMAIN C PROVE ColumnEntry(x, C[i]) = ColumnEntry(m, C[i])
  <2>1. C[i].field \in FieldNames(m)
    <3> DEFINE a == s.columns
    <3>1. a \in Seq(Columns)
      BY <1>1 DEF Storages
    <3>2. \A k \in DOMAIN a : a[k].name \in Int
      <4>1. \A c \in Columns : c.name \in Int
        BY DEF Columns
      <4> HIDE DEF a
      <4> QED BY <3>1, <4>1
    <3> HIDE DEF a
    <3>3. Rearranged(a, ByName(a))
      BY <3>1, <3>2, SortedByName
    <3>4. \E k \in DOMAIN a : ByName(a)[i] = a[k]
      BY <3>1, <3>3, RearrangedItems DEF a
    <3>5. C[i] \in ToSet(s.columns)
      BY <3>4 DEF ToSet, a
    <3> QED BY <1>1, <3>5 DEF IncompleteMapping
  <2>2. FieldOf(x, C[i].field) = FieldOf(m, C[i].field)
    BY <1>1, <2>1, SameField
  <2> QED BY <2>2 DEF ColumnEntry
<1>5. ToSet(s.primaryKey) \subseteq FieldNames(m) /\ s.primaryKey \in Seq(Int)
  <2>1. 1 \in DOMAIN KeysOf(s) /\ KeysOf(s)[1] = s.primaryKey
    BY <1>1, KeysType, IndexNamesType
  <2>2. s.primaryKey \in Seq(Int)
    BY <1>1 DEF Storages
  <2> QED BY <1>1, <2>1, <2>2
<1>6. ASSUME NEW i \in DOMAIN U PROVE ToSet(U[i]) \subseteq FieldNames(m) /\ U[i] \in Seq(Int)
  <2> DEFINE u == s.uniqueKeys
             Shorts == Seq(Int)
  <2>1. u \in Seq(Shorts)
    BY <1>1 DEF Storages
  <2>2. Rearranged(u, U)
    BY <2>1, SortedKeysFact DEF SortedKeys
  <2>3. /\ KeysOf(s) \in Seq(Shorts) /\ Len(KeysOf(s)) = Len(u) + 1
        /\ \A k \in DOMAIN u : KeysOf(s)[k + 1] = u[k]
    BY <1>1, KeysType
  <2> HIDE DEF u, Shorts
  <2>4. PICK k \in DOMAIN u : U[i] = u[k]
    <3> HIDE DEF U
    <3> QED BY <2>1, <2>2, RearrangedItems
  <2>5. k + 1 \in DOMAIN KeysOf(s) /\ U[i] = KeysOf(s)[k + 1] /\ u[k] \in Shorts
    <3> HIDE DEF U
    <3> QED BY <2>1, <2>3, <2>4
  <2> QED BY <1>1, <2>4, <2>5 DEF Shorts
<1> DEFINE K(z) == <<KeyClause(z.storage, "pk", s.primaryKey)>>
                     \o [i \in DOMAIN U |-> KeyClause(z.storage, "uk", U[i])]
           E(z) == [i \in DOMAIN C |-> ColumnEntry(z, C[i])]
<1>7. TableStatement(m) = CreateTable(s.schema, s.table, E(m), K(m))
  BY DEF TableStatement, Map, ColumnEntry
<1>8. TableStatement(x) = CreateTable(s.schema, s.table, E(x), K(x))
  BY <1>2, <1>3 DEF TableStatement, Map, ColumnEntry
<1> HIDE DEF C, U
<1>9. E(x) = E(m)
  BY <1>4
<1>10. K(x) = K(m)
  <2>1. KeyClause(t, "pk", s.primaryKey) = KeyClause(s, "pk", s.primaryKey)
    <3> DEFINE key == s.primaryKey
    <3>1. key \in Seq(Int) /\ ToSet(key) \subseteq FieldNames(m)
      BY <1>5
    <3> HIDE DEF key, K, E
    <3>2. KeyClause(x.storage, "pk", key) = KeyClause(m.storage, "pk", key)
      BY <3>1, KeyClauseAlike
    <3> QED BY <3>2 DEF key
  <2>2. \A i \in DOMAIN U : KeyClause(t, "uk", U[i]) = KeyClause(s, "uk", U[i])
    BY <1>6, KeyClauseAlike
  <2> QED BY <2>1, <2>2
<1> QED BY <1>7, <1>8, <1>9, <1>10
LEMMA ForeignSortedAlike ==
    ASSUME NEW s \in Storages, NEW t \in Storages, SameStorage(s, t),
           Relating(s.foreignKeys), StorageShape(s), StorageShape(t)
    PROVE  sortBy(t.foreignKeys, Rank) = sortBy(s.foreignKeys, Rank)
<1> DEFINE u == s.foreignKeys
           v == t.foreignKeys
           K == [i \in DOMAIN u |-> Rank(u[i])]
           L == [i \in DOMAIN v |-> Rank(v[i])]
<1>1. u \in Seq(Foreigns) /\ v \in Seq(Foreigns) /\ Rearranged(u, v)
  BY DEF Storages, SameStorage
<1>2. /\ \A i \in DOMAIN u : u[i].onDelete \in DeleteActions /\ NeverNegative(u[i].fields)
      /\ \A i \in DOMAIN v : v[i].onDelete \in DeleteActions
  BY DEF StorageShape, FieldListSound
<1>3. Relating(u)
  OBVIOUS
<1> HIDE DEF u, v
<1>4. RankSorted(K, u, sortBy(u, Rank))
  BY <1>1, <1>2, SortedForeign
<1>5. RankSorted(L, v, sortBy(v, Rank))
  BY <1>1, <1>2, SortedForeign
<1>6. ASSUME NEW i \in DOMAIN u
      PROVE  /\ K[i] \in Seq(Int) /\ u[i].fields \in Seq(Int) /\ u[i].refFields \in Seq(Int) /\ u[i].model \in Int
             /\ ActionRank(u[i].onDelete) \in Int
             /\ K[i] = JsonList(u[i].fields, u[i].model, u[i].refFields, ActionRank(u[i].onDelete))
  <2>1. u[i] \in Foreigns /\ u[i].onDelete \in DeleteActions
    BY <1>1, <1>2
  <2>2. K[i] \in Seq(Int)
    BY <2>1, RankType
  <2>3. u[i].fields \in Seq(Int) /\ u[i].refFields \in Seq(Int) /\ u[i].model \in Int
    BY <2>1 DEF Foreigns
  <2>4. ActionRank(u[i].onDelete) \in Int
    BY <2>1 DEF ActionRank, DeleteActions
  <2>5. K[i] = JsonList(u[i].fields, u[i].model, u[i].refFields, ActionRank(u[i].onDelete))
    BY DEF Rank, JsonList
  <2> QED BY <2>2, <2>3, <2>4, <2>5
<1> HIDE DEF K
<1>7. ASSUME NEW i \in DOMAIN u, NEW j \in DOMAIN u, K[i] = K[j] PROVE i = j
  <2>1. NeverNegative(u[i].fields) /\ NeverNegative(u[j].fields)
    BY <1>2
  <2>2. JsonList(u[i].fields, u[i].model, u[i].refFields, ActionRank(u[i].onDelete))
          = JsonList(u[j].fields, u[j].model, u[j].refFields, ActionRank(u[j].onDelete))
    BY <1>6, <1>7
  <2>3. u[i].fields = u[j].fields /\ u[i].model = u[j].model /\ u[i].refFields = u[j].refFields
    BY <1>6, <2>1, <2>2, Separated
  <2> QED BY <1>3, <2>3 DEF Relating
<1>8. Keyed(K, u)
  <2>1. DOMAIN K = DOMAIN u /\ K = [i \in DOMAIN u |-> K[i]]
    BY DEF K
  <2> DEFINE Shorts == Seq(Int)
  <2>2. \A i \in DOMAIN u : K[i] \in Shorts
    BY <1>6
  <2> HIDE DEF Shorts
  <2>3. K \in [DOMAIN u -> Shorts]
    BY <2>1, <2>2
  <2> QED BY <1>7, <2>3 DEF Keyed, Different, Shorts
<1>9. L = [i \in DOMAIN v |-> L[i]] /\ MadeAlike(u, K, v, L)
  BY DEF MadeAlike, K
<1> HIDE DEF L
<1> DEFINE a == sortBy(u, Rank)
           b == sortBy(v, Rank)
<1>10. RankSorted(K, u, a) /\ RankSorted(L, v, b)
  BY <1>4, <1>5 DEF K, L
<1> HIDE DEF a, b
<1>11. b = a
  BY <1>1, <1>8, <1>9, <1>10, SortedUnique
<1> QED BY <1>11 DEF a, b, u, v

\* The statement of a foreign key is the same, whatever else changes places.
LEMMA ForeignStatementAlike ==
    ASSUME NEW d \in Documents, NEW y \in Documents, SameDeclarations(d, y),
           validate(d) = <<>>, validate(y) = <<>>,
           NEW m \in ToSet(Stored(d)), NEW x \in ToSet(Stored(y)), SameModel(m, x),
           NEW key \in ToSet(m.storage.foreignKeys)
    PROVE  ForeignStatement(y, x, key) = ForeignStatement(d, m, key)
<1> DEFINE a == ModelOf(d, key.model)
           b == ModelOf(y, key.model)
<1>1. FullModel(m) /\ FullModel(x) /\ SecondPass(d) /\ Distinct(d.models)
  BY FullModels
<1>2. m \in Models /\ x \in Models /\ SameStorage(m.storage, x.storage)
  BY <1>1 DEF FullModel, SoundModel, SameModel
<1>3. m.storage \in Storages /\ x.storage \in Storages /\ key \in ToSet(x.storage.foreignKeys)
  BY <1>2, SameLists
<1>4. /\ a \in ToSet(Stored(d)) /\ key \in Foreigns
      /\ ToSet(key.fields) \subseteq FieldNames(m) /\ ToSet(key.refFields) \subseteq FieldNames(a)
  BY ForeignFacts
<1>5. b \in ToSet(Stored(y))
  BY <1>3, ForeignFacts
<1>6. ~ UnknownReference(d, key)
  <2>1. PICK i \in DOMAIN d.models : d.models[i] = m /\ m.stored
    BY StoredItems
  <2> QED BY <1>1, <2>1 DEF SecondPass, RefersSoundly
<1>7. SameModel(a, b)
  BY <1>1, <1>6, ModelsMatch DEF UnknownReference
<1>8. FullModel(a) /\ FullModel(b)
  BY <1>4, <1>5, FullModels
<1>9. ForeignName(y, x.storage, key) = ForeignName(d, m.storage, key)
  BY <1>1, <1>2, <1>3, <1>6, ForeignNameMoves
<1>10. key.fields \in Seq(Int) /\ key.refFields \in Seq(Int)
  BY <1>4 DEF Foreigns
<1>11. columns(x.storage, key.fields) = columns(m.storage, key.fields)
  BY <1>1, <1>4, <1>10, KeyColumnsAlike
<1>12. columns(b.storage, key.refFields) = columns(a.storage, key.refFields)
  BY <1>4, <1>7, <1>8, <1>10, KeyColumnsAlike
<1>13. x.storage.schema = m.storage.schema /\ x.storage.table = m.storage.table
  BY <1>2 DEF SameStorage
<1>14. b.storage.schema = a.storage.schema /\ b.storage.table = a.storage.table
  BY <1>7 DEF SameModel, SameStorage
<1> QED BY <1>9, <1>11, <1>12, <1>13, <1>14 DEF ForeignStatement

LEMMA ForeignStatementsAlike ==
    ASSUME NEW d \in Documents, NEW y \in Documents, SameDeclarations(d, y),
           validate(d) = <<>>, validate(y) = <<>>,
           NEW m \in ToSet(Stored(d)), NEW x \in ToSet(Stored(y)), SameModel(m, x)
    PROVE  ForeignStatements(y, x) = ForeignStatements(d, m)
<1> DEFINE s == m.storage
           t == x.storage
           u == sortBy(s.foreignKeys, Rank)
           v == sortBy(t.foreignKeys, Rank)
<1>1. FullModel(m) /\ FullModel(x)
  BY FullModels
<1>2. /\ s \in Storages /\ t \in Storages /\ SameStorage(s, t) /\ Relating(s.foreignKeys)
      /\ StorageShape(s) /\ StorageShape(t)
  BY <1>1 DEF FullModel, SoundModel, SameModel
<1>3. v = u
  BY <1>2, ForeignSortedAlike
<1>4. ForeignStatements(d, m) = [j \in DOMAIN u |-> ForeignStatement(d, m, u[j])]
  BY DEF ForeignStatements, ForeignStatement, sortBy, Map, Rank
<1>5. ForeignStatements(y, x) = [j \in DOMAIN v |-> ForeignStatement(y, x, v[j])]
  BY DEF ForeignStatements, ForeignStatement, sortBy, Map, Rank
<1>6. ASSUME NEW j \in DOMAIN u PROVE u[j] \in ToSet(s.foreignKeys)
  <2> DEFINE a == s.foreignKeys
  <2>1. a \in Seq(Foreigns) /\ \A i \in DOMAIN a : a[i].onDelete \in DeleteActions
    BY <1>2 DEF Storages, StorageShape
  <2> HIDE DEF a
  <2>2. Rearranged(a, sortBy(a, Rank))
    BY <2>1, SortedForeign
  <2> DEFINE b == sortBy(a, Rank)
  <2>3. j \in DOMAIN b /\ u[j] = b[j]
    BY DEF a
  <2> HIDE DEF b, u
  <2>4. \E i \in DOMAIN a : b[j] = a[i]
    BY <2>1, <2>2, <2>3, RearrangedItems DEF b
  <2> QED BY <2>3, <2>4 DEF ToSet, a
<1> HIDE DEF u, v
<1>7. \A j \in DOMAIN u : ForeignStatement(y, x, u[j]) = ForeignStatement(d, m, u[j])
  BY <1>6, ForeignStatementAlike
<1> QED BY <1>3, <1>4, <1>5, <1>7

LEMMA StatementsAlike ==
    ASSUME NEW d \in Documents, NEW y \in Documents, SameDeclarations(d, y),
           validate(d) = <<>>, validate(y) = <<>>
    PROVE  emitPostgres(y) = emitPostgres(d)
<1> DEFINE S == Stored(d)
           U == Stored(y)
           u == sortBy(S, LAMBDA m : <<m.storage.schema, m.storage.table>>)
           v == sortBy(U, LAMBDA m : <<m.storage.schema, m.storage.table>>)
           A(w) == {m.storage.schema : m \in ToSet(w)} \ {PublicSchema}
           Q(R) == Map(CreateSchema, sortBy(SetToSeq(R), LAMBDA x : <<x>>))
           B(w) == [i \in DOMAIN w |-> TableStatement(w[i])]
           C(z, w) == [i \in DOMAIN w |-> ForeignStatements(z, w[i])]
<1>1. S \in Seq(Models) /\ U \in Seq(Models) /\ Distinct(d.models)
  BY StoredItems, FullModels
<1>2. SameModels(S, U)
  BY <1>1, StoredMatch
<1>3. \A i, j \in DOMAIN S : /\ S[i].storage.schema = S[j].storage.schema
                             /\ S[i].storage.table = S[j].storage.table
                             => i = j
  <2>1. ~ NameCollision(d)
    BY Accepted
  <2>2. RelationsApart(d)
    BY <2>1, RelationNames DEF NameCollision
  <2> QED BY <2>2 DEF RelationsApart
<1>4. emitPostgres(d) = Q(A(u)) \o B(u) \o FlattenSeq(C(d, u))
  BY DEF emitPostgres, Map, Each
<1>5. emitPostgres(y) = Q(A(v)) \o B(v) \o FlattenSeq(C(y, v))
  BY DEF emitPostgres, Map, Each
<1> HIDE DEF S, U
<1>6. ModelsAlike(u, v)
  BY <1>1, <1>2, <1>3, ModelsByTableAlike
<1>7. Rearranged(S, u) /\ Rearranged(U, v)
  <2>1. Rearranged(S, u)
    BY <1>1, SortedModels
  <2>2. Rearranged(U, v)
    BY <1>1, SortedModels
  <2> QED BY <2>1, <2>2
<1> HIDE DEF u, v
<1>8. /\ \A r \in DOMAIN u : u[r] \in ToSet(S)
      /\ \A r \in DOMAIN v : v[r] \in ToSet(U)
  BY <1>1, <1>7, RearrangedItems DEF ToSet
<1>9. ASSUME NEW r \in DOMAIN u
      PROVE  /\ v[r].storage.schema = u[r].storage.schema
             /\ TableStatement(v[r]) = TableStatement(u[r])
             /\ ForeignStatements(y, v[r]) = ForeignStatements(d, u[r])
  <2>1. SameModel(u[r], v[r]) /\ u[r] \in ToSet(Stored(d)) /\ v[r] \in ToSet(Stored(y))
    BY <1>6, <1>8 DEF ModelsAlike, S, U
  <2>2. FullModel(u[r]) /\ FullModel(v[r])
    BY <2>1, FullModels
  <2>3. TableStatement(v[r]) = TableStatement(u[r])
    BY <2>1, <2>2, TableStatementAlike
  <2>4. ForeignStatements(y, v[r]) = ForeignStatements(d, u[r])
    BY <2>1, ForeignStatementsAlike
  <2> QED BY <2>1, <2>3, <2>4 DEF SameModel, SameStorage
<1>10. DOMAIN v = DOMAIN u
  BY <1>6 DEF ModelsAlike
<1>11. A(v) = A(u)
  <2>1. {m.storage.schema : m \in ToSet(v)} = {m.storage.schema : m \in ToSet(u)}
    BY <1>9, <1>10 DEF ToSet
  <2> QED BY <2>1
<1>12. B(v) = B(u)
  BY <1>9, <1>10
<1>13. C(y, v) = C(d, u)
  BY <1>9, <1>10
<1> HIDE DEF A, B, C, Q
<1>14. Q(A(v)) = Q(A(u)) /\ FlattenSeq(C(y, v)) = FlattenSeq(C(d, u))
  BY <1>11, <1>13
<1> QED BY <1>4, <1>5, <1>12, <1>14

\* An accepted document compiles to the same artifacts in any order.
LEMMA CompilesAlike ==
    ASSUME NEW d \in Documents, NEW y \in Documents, SameDeclarations(d, y), validate(d) = <<>>
    PROVE  validate(y) = <<>> /\ compileSchema(y) = compileSchema(d)
<1>1. validate(y) = <<>>
  BY AcceptanceMoves
<1>2. emitPostgres(y) = emitPostgres(d)
  BY <1>1, StatementsAlike
<1>3. emitJsonSchema(y) = emitJsonSchema(d) /\ emitTypescript(y) = emitTypescript(d)
  BY FullModels, DocumentPartsAlike
<1> QED BY <1>1, <1>2, <1>3 DEF compileSchema
-----------------------------------------------------------------------------
(* Reorderings of a document.                                              *)

LEMMA StorageItself ==
    ASSUME NEW s \in Storages
    PROVE  SameStorage(s, s)
<1> DEFINE Shorts == Seq(Int)
<1>1. s.columns \in Seq(Columns) /\ s.uniqueKeys \in Seq(Shorts) /\ s.foreignKeys \in Seq(Foreigns)
  BY DEF Storages
<1> HIDE DEF Shorts
<1>2. /\ Rearranged(s.columns, s.columns) /\ Rearranged(s.uniqueKeys, s.uniqueKeys)
      /\ Rearranged(s.foreignKeys, s.foreignKeys)
  BY <1>1, RearrangedSame
<1> QED BY <1>2 DEF SameStorage

LEMMA ModelItself ==
    ASSUME NEW m \in Models
    PROVE  SameModel(m, m)
<1>1. m.fields \in Seq(Fields) /\ m.storage \in Storages
  BY DEF Models
<1>2. Rearranged(m.fields, m.fields) /\ SameStorage(m.storage, m.storage)
  BY <1>1, RearrangedSame, StorageItself
<1> QED BY <1>2 DEF SameModel

LEMMA ModelBack ==
    ASSUME NEW m \in Models, NEW x, SameModel(m, x)
    PROVE  SameModel(x, m)
<1> DEFINE Shorts == Seq(Int)
           s == m.storage
           t == x.storage
<1>1. /\ m.fields \in Seq(Fields) /\ s.columns \in Seq(Columns) /\ s.uniqueKeys \in Seq(Shorts)
      /\ s.foreignKeys \in Seq(Foreigns)
  BY DEF Models, Storages
<1>2. /\ Rearranged(m.fields, x.fields) /\ Rearranged(s.columns, t.columns)
      /\ Rearranged(s.uniqueKeys, t.uniqueKeys) /\ Rearranged(s.foreignKeys, t.foreignKeys)
  BY DEF SameModel, SameStorage
<1> HIDE DEF Shorts
<1>3. /\ Rearranged(x.fields, m.fields) /\ Rearranged(t.columns, s.columns)
      /\ Rearranged(t.uniqueKeys, s.uniqueKeys) /\ Rearranged(t.foreignKeys, s.foreignKeys)
  BY <1>1, <1>2, RearrangedBack
<1> QED BY <1>3 DEF SameModel, SameStorage

LEMMA DeclarationsBack ==
    ASSUME NEW d \in Documents, NEW y, SameDeclarations(d, y)
    PROVE  SameDeclarations(y, d)
<1> DEFINE s == d.models
           t == y.models
<1>1. s \in Seq(Models) /\ DOMAIN t = DOMAIN s /\ y.shape = d.shape /\ y.version = d.version
  BY DEF Documents, SameDeclarations, SameModels
<1>2. PICK q : Permutation(q, DOMAIN s) /\ \A r \in DOMAIN s : SameModel(s[q[r]], t[r])
  BY DEF SameDeclarations, SameModels
<1> HIDE DEF s, t
<1>3. PICK p : Permutation(p, DOMAIN s) /\ \A j \in DOMAIN s : q[p[j]] = j
  BY <1>2, InversePermutation
<1>4. ASSUME NEW j \in DOMAIN s PROVE SameModel(t[p[j]], s[j])
  <2>1. p[j] \in DOMAIN s /\ q[p[j]] = j
    BY <1>3 DEF Permutation
  <2>2. SameModel(s[j], t[p[j]])
    BY <1>2, <2>1
  <2>3. s[j] \in Models
    BY <1>1
  <2> QED BY <2>2, <2>3, ModelBack
<1> QED BY <1>1, <1>3, <1>4 DEF SameDeclarations, SameModels, s, t

LEMMA OneModel ==
    ASSUME NEW d \in Documents, NEW i \in DOMAIN d.models, NEW x \in Models, SameModel(d.models[i], x)
    PROVE  LET g == [d EXCEPT !.models = [d.models EXCEPT ![i] = x]]
           IN  g \in Documents /\ SameDeclarations(d, g)
<1> DEFINE s == d.models
           t == [s EXCEPT ![i] = x]
           g == [d EXCEPT !.models = t]
           p == [r \in DOMAIN s |-> r]
<1>1. s \in Seq(Models)
  BY DEF Documents
<1>2. t \in Seq(Models) /\ DOMAIN t = DOMAIN s /\ \A r \in DOMAIN s : t[r] = IF r = i THEN x ELSE s[r]
  BY <1>1
<1> HIDE DEF t
<1>3. g \in Documents /\ g.models = t /\ g.shape = d.shape /\ g.version = d.version
  <2> DEFINE T == Seq(Models)
  <2>1. t \in T /\ Documents = [shape : Shapes, version : {"ores.schema-ir.v1", "other"}, models : T]
    BY <1>2 DEF Documents
  <2> HIDE DEF T
  <2> QED BY <2>1
<1>4. Permutation(p, DOMAIN s) /\ \A r \in DOMAIN s : p[r] = r
  BY DEF Permutation
<1> HIDE DEF p, g
<1>5. ASSUME NEW r \in DOMAIN s PROVE SameModel(s[p[r]], t[r])
  <2>1. s[r] \in Models
    BY <1>1
  <2>2. CASE r = i
    BY <1>2, <1>4, <2>2
  <2>3. CASE r # i
    BY <1>2, <1>4, <2>1, <2>3, ModelItself
  <2> QED BY <2>2, <2>3
<1>6. SameDeclarations(d, g)
  BY <1>2, <1>3, <1>4, <1>5 DEF SameDeclarations, SameModels
<1> QED BY <1>3, <1>6 DEF g, t

LEMMA TwoModels ==
    ASSUME NEW d \in Documents, NEW t \in Neighbours(d.models)
    PROVE  LET g == [d EXCEPT !.models = t]
           IN  g \in Documents /\ SameDeclarations(d, g)
<1> DEFINE s == d.models
           g == [d EXCEPT !.models = t]
<1>1. s \in Seq(Models)
  BY DEF Documents
<1>2. t \in Seq(Models) /\ Rearranged(s, t) /\ DOMAIN t = DOMAIN s
  <2>1. t \in Seq(Models) /\ Rearranged(s, t)
    BY <1>1, NeighboursRearranged
  <2> QED BY <1>1, <2>1, RearrangedItems
<1>3. g \in Documents /\ g.models = t /\ g.shape = d.shape /\ g.version = d.version
  <2> DEFINE T == Seq(Models)
  <2>1. t \in T /\ Documents = [shape : Shapes, version : {"ores.schema-ir.v1", "other"}, models : T]
    BY <1>2 DEF Documents
  <2> HIDE DEF T
  <2> QED BY <2>1
<1> HIDE DEF g
<1>4. PICK q : Permutation(q, DOMAIN s) /\ t = [r \in DOMAIN s |-> s[q[r]]]
  BY <1>2 DEF Rearranged
<1>5. ASSUME NEW r \in DOMAIN s PROVE SameModel(s[q[r]], t[r])
  <2>1. q[r] \in DOMAIN s /\ t[r] = s[q[r]]
    BY <1>4 DEF Permutation
  <2>2. s[q[r]] \in Models
    BY <1>1, <2>1
  <2> QED BY <2>1, <2>2, ModelItself
<1>6. SameDeclarations(d, g)
  BY <1>2, <1>3, <1>4, <1>5 DEF SameDeclarations, SameModels
<1> QED BY <1>3, <1>6 DEF g

LEMMA ReorderedStorage ==
    ASSUME NEW s \in Storages
    PROVE  /\ \A u \in Neighbours(s.columns) :
                 [s EXCEPT !.columns = u] \in Storages /\ SameStorage(s, [s EXCEPT !.columns = u])
           /\ \A u \in Neighbours(s.uniqueKeys) :
                 [s EXCEPT !.uniqueKeys = u] \in Storages /\ SameStorage(s, [s EXCEPT !.uniqueKeys = u])
           /\ \A u \in Neighbours(s.foreignKeys) :
                 [s EXCEPT !.foreignKeys = u] \in Storages /\ SameStorage(s, [s EXCEPT !.foreignKeys = u])
<1> DEFINE Shorts == Seq(Int)
           KeyTuples == Seq(Shorts)
           ColumnSeqs == Seq(Columns)
           ForeignSeqs == Seq(Foreigns)
<1>1. Storages = [shape : Shapes, schema : Int, table : Int, columns : ColumnSeqs,
                  primaryKey : Shorts, uniqueKeys : KeyTuples, foreignKeys : ForeignSeqs]
  BY DEF Storages
<1>2. /\ Rearranged(s.columns, s.columns) /\ Rearranged(s.uniqueKeys, s.uniqueKeys)
      /\ Rearranged(s.foreignKeys, s.foreignKeys)
  BY StorageItself DEF SameStorage
<1>3. \A u \in Neighbours(s.columns) : u \in ColumnSeqs /\ Rearranged(s.columns, u)
  BY NeighboursRearranged DEF Storages
<1>4. \A u \in Neighbours(s.uniqueKeys) : u \in KeyTuples /\ Rearranged(s.uniqueKeys, u)
  <2>1. s.uniqueKeys \in Seq(Shorts)
    BY DEF Storages
  <2> HIDE DEF Shorts
  <2> QED BY <2>1, NeighboursRearranged
<1>5. \A u \in Neighbours(s.foreignKeys) : u \in ForeignSeqs /\ Rearranged(s.foreignKeys, u)
  BY NeighboursRearranged DEF Storages
<1> HIDE DEF Shorts, KeyTuples, ColumnSeqs, ForeignSeqs
<1>6. ASSUME NEW u \in Neighbours(s.columns)
      PROVE  [s EXCEPT !.columns = u] \in Storages /\ SameStorage(s, [s EXCEPT !.columns = u])
  <2>1. u \in ColumnSeqs /\ Rearranged(s.columns, u)
    BY <1>3
  <2> QED BY <1>1, <1>2, <2>1 DEF SameStorage
<1>7. ASSUME NEW u \in Neighbours(s.uniqueKeys)
      PROVE  [s EXCEPT !.uniqueKeys = u] \in Storages /\ SameStorage(s, [s EXCEPT !.uniqueKeys = u])
  <2>1. u \in KeyTuples /\ Rearranged(s.uniqueKeys, u)
    BY <1>4
  <2> QED BY <1>1, <1>2, <2>1 DEF SameStorage
<1>8. ASSUME NEW u \in Neighbours(s.foreignKeys)
      PROVE  [s EXCEPT !.foreignKeys = u] \in Storages /\ SameStorage(s, [s EXCEPT !.foreignKeys = u])
  <2>1. u \in ForeignSeqs /\ Rearranged(s.foreignKeys, u)
    BY <1>5
  <2> QED BY <1>1, <1>2, <2>1 DEF SameStorage
<1> QED BY <1>6, <1>7, <1>8

\* A model with its fields or its storage in another order.
LEMMA ReorderedModel ==
    ASSUME NEW m \in Models
    PROVE  /\ \A u \in Neighbours(m.fields) :
                 [m EXCEPT !.fields = u] \in Models /\ SameModel(m, [m EXCEPT !.fields = u])
           /\ \A t \in Storages : SameStorage(m.storage, t) =>
                 [m EXCEPT !.storage = t] \in Models /\ SameModel(m, [m EXCEPT !.storage = t])
<1> DEFINE FieldSeqs == Seq(Fields)
<1>1. Models = [shape : Shapes, name : Int, fields : FieldSeqs, stored : BOOLEAN, storage : Storages]
  BY DEF Models
<1>2. Rearranged(m.fields, m.fields) /\ SameStorage(m.storage, m.storage)
  BY ModelItself DEF SameModel
<1>3. \A u \in Neighbours(m.fields) : u \in FieldSeqs /\ Rearranged(m.fields, u)
  BY NeighboursRearranged DEF Models
<1> HIDE DEF FieldSeqs
<1>4. ASSUME NEW u \in Neighbours(m.fields)
      PROVE  [m EXCEPT !.fields = u] \in Models /\ SameModel(m, [m EXCEPT !.fields = u])
  <2>1. u \in FieldSeqs /\ Rearranged(m.fields, u)
    BY <1>3
  <2> QED BY <1>1, <1>2, <2>1 DEF SameModel
<1>5. ASSUME NEW t \in Storages, SameStorage(m.storage, t)
      PROVE  [m EXCEPT !.storage = t] \in Models /\ SameModel(m, [m EXCEPT !.storage = t])
  BY <1>1, <1>2, <1>5 DEF SameModel
<1> QED BY <1>4, <1>5
\* A document with two declarations exchanged is the same but for the order.
LEMMA ReorderedDocument ==
    ASSUME NEW d \in Documents, NEW g \in Reorderings(d)
    PROVE  g \in Documents /\ SameDeclarations(d, g)
<1> DEFINE s == d.models
<1>1. CASE \E t \in Neighbours(s) : g = [d EXCEPT !.models = t]
  BY <1>1, TwoModels
<1>2. ASSUME NEW i \in DOMAIN s, NEW x \in Models, SameModel(s[i], x),
             g = [d EXCEPT !.models = [s EXCEPT ![i] = x]]
      PROVE  g \in Documents /\ SameDeclarations(d, g)
  BY <1>2, OneModel
<1>3. \A i \in DOMAIN s : s[i] \in Models
  BY DEF Documents
<1>4. CASE \E i \in DOMAIN s : \E u \in Neighbours(s[i].fields) : g = [d EXCEPT !.models[i].fields = u]
  <2>1. PICK i \in DOMAIN s : \E u \in Neighbours(s[i].fields) : g = [d EXCEPT !.models[i].fields = u]
    BY <1>4
  <2>2. PICK u \in Neighbours(s[i].fields) : g = [d EXCEPT !.models[i].fields = u]
    BY <2>1
  <2> DEFINE x == [s[i] EXCEPT !.fields = u]
  <2>3. x \in Models /\ SameModel(s[i], x)
    BY <1>3, ReorderedModel
  <2>4. g = [d EXCEPT !.models = [s EXCEPT ![i] = x]]
    BY <2>2
  <2> HIDE DEF x
  <2> QED BY <1>2, <2>3, <2>4
<1>5. ASSUME NEW i \in DOMAIN s, NEW t \in Storages, SameStorage(s[i].storage, t),
             g = [d EXCEPT !.models = [s EXCEPT ![i] = [s[i] EXCEPT !.storage = t]]]
      PROVE  g \in Documents /\ SameDeclarations(d, g)
  <2> DEFINE x == [s[i] EXCEPT !.storage = t]
  <2>1. x \in Models /\ SameModel(s[i], x)
    BY <1>3, <1>5, ReorderedModel
  <2>2. g = [d EXCEPT !.models = [s EXCEPT ![i] = x]]
    BY <1>5
  <2> HIDE DEF x
  <2> QED BY <1>2, <2>1, <2>2
<1>6. \A i \in DOMAIN s : s[i].storage \in Storages
  BY <1>3 DEF Models
<1>7. CASE \E i \in DOMAIN s : \E u \in Neighbours(s[i].storage.columns) :
             g = [d EXCEPT !.models[i].storage.columns = u]
  <2>1. PICK i \in DOMAIN s : \E u \in Neighbours(s[i].storage.columns) :
               g = [d EXCEPT !.models[i].storage.columns = u]
    BY <1>7
  <2>2. PICK u \in Neighbours(s[i].storage.columns) : g = [d EXCEPT !.models[i].storage.columns = u]
    BY <2>1
  <2> DEFINE t == [s[i].storage EXCEPT !.columns = u]
  <2>3. t \in Storages /\ SameStorage(s[i].storage, t)
    BY <1>6, ReorderedStorage
  <2>4. g = [d EXCEPT !.models = [s EXCEPT ![i] = [s[i] EXCEPT !.storage = t]]]
    BY <2>2
  <2> HIDE DEF t
  <2> QED BY <1>5, <2>3, <2>4
<1>8. CASE \E i \in DOMAIN s : \E u \in Neighbours(s[i].storage.uniqueKeys) :
             g = [d EXCEPT !.models[i].storage.uniqueKeys = u]
  <2>1. PICK i \in DOMAIN s : \E u \in Neighbours(s[i].storage.uniqueKeys) :
               g = [d EXCEPT !.models[i].storage.uniqueKeys = u]
    BY <1>8
  <2>2. PICK u \in Neighbours(s[i].storage.uniqueKeys) : g = [d EXCEPT !.models[i].storage.uniqueKeys = u]
    BY <2>1
  <2> DEFINE t == [s[i].storage EXCEPT !.uniqueKeys = u]
  <2>3. t \in Storages /\ SameStorage(s[i].storage, t)
    BY <1>6, ReorderedStorage
  <2>4. g = [d EXCEPT !.models = [s EXCEPT ![i] = [s[i] EXCEPT !.storage = t]]]
    BY <2>2
  <2> HIDE DEF t
  <2> QED BY <1>5, <2>3, <2>4
<1>9. CASE \E i \in DOMAIN s : \E u \in Neighbours(s[i].storage.foreignKeys) :
             g = [d EXCEPT !.models[i].storage.foreignKeys = u]
  <2>1. PICK i \in DOMAIN s : \E u \in Neighbours(s[i].storage.foreignKeys) :
               g = [d EXCEPT !.models[i].storage.foreignKeys = u]
    BY <1>9
  <2>2. PICK u \in Neighbours(s[i].storage.foreignKeys) : g = [d EXCEPT !.models[i].storage.foreignKeys = u]
    BY <2>1
  <2> DEFINE t == [s[i].storage EXCEPT !.foreignKeys = u]
  <2>3. t \in Storages /\ SameStorage(s[i].storage, t)
    BY <1>6, ReorderedStorage
  <2>4. g = [d EXCEPT !.models = [s EXCEPT ![i] = [s[i] EXCEPT !.storage = t]]]
    BY <2>2
  <2> HIDE DEF t
  <2> QED BY <1>5, <2>3, <2>4
<1> QED BY <1>1, <1>4, <1>7, <1>8, <1>9 DEF Reorderings

\* The order of the declarations of a document decides nothing.
LEMMA OrderDecidesNothing ==
    ASSUME ReleaseInv
    PROVE  OrderIndependent
<1> SUFFICES ASSUME phase \in {"rejected", "applied"}, NEW g \in Reorderings(doc)
             PROVE  /\ compileSchema(g).ok = result.ok
                    /\ result.ok => compileSchema(g) = result
  BY DEF OrderIndependent
<1>1. doc \in Documents /\ result = compileSchema(doc)
  BY DEF ReleaseInv
<1>2. g \in Documents /\ SameDeclarations(doc, g) /\ SameDeclarations(g, doc)
  BY <1>1, ReorderedDocument, DeclarationsBack
<1>3. /\ compileSchema(g).ok \in BOOLEAN /\ (compileSchema(g).ok <=> validate(g) = <<>>)
      /\ compileSchema(doc).ok \in BOOLEAN /\ (compileSchema(doc).ok <=> validate(doc) = <<>>)
  BY Verdict
<1>4. validate(doc) = <<>> => validate(g) = <<>> /\ compileSchema(g) = compileSchema(doc)
  BY <1>1, <1>2, CompilesAlike
<1>5. validate(g) = <<>> => validate(doc) = <<>>
  BY <1>1, <1>2, CompilesAlike
<1> QED BY <1>1, <1>3, <1>4, <1>5

\* Exchanging two declarations of a document changes neither the verdict nor an artifact, for any
\* document and any number of models, fields, columns and keys (emit.js:28-120 sorts every list by
\* different keys, validate.js:199-300 reads every list as a set).
THEOREM OrderDoesNotMatter == Spec => []OrderIndependent
<1>1. ReleaseInv => OrderIndependent
  BY OrderDecidesNothing
<1> QED BY <1>1, ReleaseInvariance, PTL
-----------------------------------------------------------------------------
(* Counting.                                                               *)

LEMMA CountedBy ==
    ASSUME NEW n \in Nat, NEW S, NEW f \in [1..n -> S], \A i, j \in 1..n : f[i] = f[j] => i = j,
           \A x \in S : \E i \in 1..n : f[i] = x
    PROVE  Cardinality(S) = n
<1> DEFINE D == 1..n
<1>1. IsFiniteSet(D) /\ Cardinality(D) = n
  <2>1. n \in Int /\ 1 \in Int /\ n >= 0
    OBVIOUS
  <2>2. IsFiniteSet(1..n) /\ Cardinality(1..n) = IF 1 > n THEN 0 ELSE n - 1 + 1
    BY ONLY <2>1, FS_Interval
  <2> QED BY <2>1, <2>2
<1> HIDE DEF D
<1>2. f \in Bijection(D, S)
  BY DEF D, Bijection, Injection, Surjection, IsInjective
<1>3. ExistsBijection(D, S)
  BY <1>2 DEF ExistsBijection
<1> QED BY <1>1, <1>3, FS_Bijection

\* The places of the items of the lists number S, when L are the lengths of the lists.
PlacesOf(L, i) == {i} \X (1..L[i])
PlacesIn(L, S) == UNION {PlacesOf(L, i) : i \in S}

LEMMA PlacesCount ==
    ASSUME NEW n \in Nat, NEW L \in [1..n -> Nat], NEW i \in 1..n
    PROVE  IsFiniteSet(PlacesOf(L, i)) /\ Cardinality(PlacesOf(L, i)) = L[i]
<1> DEFINE k == L[i]
           D == 1..k
           S == {i} \X D
<1>1. k \in Nat
  OBVIOUS
<1>2. IsFiniteSet(D) /\ Cardinality(D) = k
  <2>1. k \in Int /\ 1 \in Int /\ k >= 0
    BY <1>1
  <2> HIDE DEF k
  <2>2. IsFiniteSet(1..k) /\ Cardinality(1..k) = IF 1 > k THEN 0 ELSE k - 1 + 1
    BY ONLY <2>1, FS_Interval
  <2> QED BY <2>1, <2>2
<1> DEFINE f == [j \in D |-> <<i, j>>]
<1>3. f \in [D -> S] /\ (\A x, y \in D : f[x] = f[y] => x = y) /\ \A x \in S : \E j \in D : f[j] = x
  OBVIOUS
<1> HIDE DEF k, f, S
<1>4. Cardinality(S) = k
  BY <1>1, <1>3, CountedBy
<1>5. IsFiniteSet(S)
  <2>1. f \in Surjection(D, S)
    BY <1>3 DEF Surjection
  <2> QED BY <1>2, <2>1, FS_Surjection
<1> QED BY <1>4, <1>5 DEF PlacesOf, S, k

LEMMA PlacesFinite ==
    ASSUME NEW n \in Nat, NEW L \in [1..n -> Nat], NEW S \in SUBSET (1..n)
    PROVE  IsFiniteSet(PlacesIn(L, S))
<1> DEFINE f == [i \in S |-> PlacesOf(L, i)]
           R == {PlacesOf(L, i) : i \in S}
<1>1. IsFiniteSet(S)
  <2>1. IsFiniteSet(1..n)
    BY FS_Interval
  <2> QED BY <2>1, FS_Subset
<1>2. f \in Surjection(S, R)
  BY DEF Surjection
<1>3. IsFiniteSet(R)
  <2> HIDE DEF f, R
  <2> QED BY <1>1, <1>2, FS_Surjection
<1>4. \A T \in R : IsFiniteSet(T)
  BY PlacesCount
<1> HIDE DEF R
<1>5. IsFiniteSet(UNION R)
  BY <1>3, <1>4, FS_UNION
<1> QED BY <1>5 DEF PlacesIn, R

LEMMA PlacesGrow ==
    ASSUME NEW n \in Nat, NEW L \in [1..n -> Nat], NEW S \in SUBSET (1..n), NEW i \in S
    PROVE  Cardinality(PlacesIn(L, S)) = Cardinality(PlacesIn(L, S \ {i})) + L[i]
<1> DEFINE A == PlacesIn(L, S \ {i})
           B == PlacesOf(L, i)
<1>1. PlacesIn(L, S) = A \cup B
  BY DEF PlacesIn
<1>2. A \cap B = {}
  BY DEF PlacesIn, PlacesOf
<1>3. IsFiniteSet(A)
  BY PlacesFinite
<1>4. IsFiniteSet(B) /\ Cardinality(B) = L[i] /\ L[i] \in Nat
  BY PlacesCount
<1> HIDE DEF A, B
<1>5. Cardinality(A \cup B) = Cardinality(A) + Cardinality(B) - Cardinality(A \cap B)
  BY <1>3, <1>4, FS_Union
<1>6. Cardinality(A) \in Nat /\ Cardinality({}) = 0
  BY <1>3, FS_CardinalityType, FS_EmptySet
<1>7. Cardinality(A \cup B) = Cardinality(A) + L[i]
  <2>1. Cardinality(A \cap B) = 0
    BY <1>2, <1>6
  <2> DEFINE a == Cardinality(A)
             b == L[i]
             c == Cardinality(A \cup B)
  <2>2. a \in Nat /\ b \in Nat /\ c = a + b - 0
    BY <1>4, <1>5, <1>6, <2>1
  <2> HIDE DEF a, b, c
  <2>3. c = a + b
    BY <2>2
  <2> QED BY <2>3 DEF a, b, c
<1> QED BY <1>1, <1>7 DEF A

\* The fold of NothingLost counts the foreign keys.
LEMMA FoldCounts ==
    ASSUME NEW s \in Seq(Models), NEW L, L = [i \in DOMAIN s |-> Len(s[i].storage.foreignKeys)]
    PROVE  FoldLeft(LAMBDA n, m : n + Len(m.storage.foreignKeys), 0, s) = Cardinality(PlacesIn(L, DOMAIN s))
<1> DEFINE n == Len(s)
           D == 1..n
           Rule(f) == f = [S \in SUBSET DOMAIN s |->
                             IF S = {} THEN 0 ELSE f[S \ {Max(S)}] + Len(s[Max(S)].storage.foreignKeys)]
           F == CHOOSE f : Rule(f)
           fold == FoldLeft(LAMBDA k, m : k + Len(m.storage.foreignKeys), 0, s)
<1>1. n \in Nat /\ DOMAIN s = D
  OBVIOUS
<1>2. L \in [D -> Nat]
  <2>1. \A m \in Models : Len(m.storage.foreignKeys) \in Nat
    BY DEF Models, Storages
  <2>2. \A i \in DOMAIN s : s[i] \in Models
    OBVIOUS
  <2> QED BY <1>1, <2>1, <2>2
<1>3. fold = F[DOMAIN s]
  BY Zenon DEF FoldLeft, MapThenFoldSet
<1> HIDE DEF fold, F
<1>4. \E f : Rule(f)
  <2> DEFINE f == [S \in SUBSET DOMAIN s |-> Cardinality(PlacesIn(L, S))]
  <2>1. ASSUME NEW S \in SUBSET DOMAIN s
        PROVE  f[S] = IF S = {} THEN 0 ELSE f[S \ {Max(S)}] + Len(s[Max(S)].storage.foreignKeys)
    <3>1. CASE S = {}
      <4>1. PlacesIn(L, {}) = {}
        BY DEF PlacesIn
      <4>2. Cardinality({}) = 0
        BY FS_EmptySet
      <4> QED BY <3>1, <4>1, <4>2
    <3>2. CASE S # {}
      <4>1. Max(S) \in S
        BY <1>1, <3>2, MaxOfPositions
      <4> DEFINE x == Max(S)
      <4> HIDE DEF x
      <4>2. Cardinality(PlacesIn(L, S)) = Cardinality(PlacesIn(L, S \ {x})) + L[x]
        BY <1>1, <1>2, <4>1, PlacesGrow DEF x
      <4>3. L[x] = Len(s[x].storage.foreignKeys) /\ S \ {x} \in SUBSET DOMAIN s
        BY <4>1 DEF x
      <4> QED BY <3>2, <4>2, <4>3 DEF x
    <3> QED BY <3>1, <3>2
  <2>2. Rule(f)
    <3> DEFINE G == [S \in SUBSET DOMAIN s |-> IF S = {} THEN 0 ELSE f[S \ {Max(S)}] + Len(s[Max(S)].storage.foreignKeys)]
    <3>1. \A S \in SUBSET DOMAIN s : f[S] = G[S]
      BY <2>1
    <3>2. f = [S \in SUBSET DOMAIN s |-> f[S]] /\ G = [S \in SUBSET DOMAIN s |-> G[S]]
      OBVIOUS
    <3>3. f = G
      <4> HIDE DEF f, G
      <4> QED BY <3>1, <3>2
    <3> HIDE DEF f
    <3> QED BY <3>3
  <2> QED BY <2>2
<1>5. Rule(F)
  BY <1>4 DEF F
<1>6. \A S \in SUBSET DOMAIN s : F[S] = IF S = {} THEN 0 ELSE F[S \ {Max(S)}] + Len(s[Max(S)].storage.foreignKeys)
  BY <1>5
<1> HIDE DEF Rule, n
<1> DEFINE I == {k \in Nat : k <= n => F[1..k] = Cardinality(PlacesIn(L, 1..k))}
<1>7. 0 \in I
  <2>1. 1..0 = {} /\ PlacesIn(L, {}) = {}
    BY DEF PlacesIn
  <2>2. Cardinality({}) = 0
    BY FS_EmptySet
  <2>3. F[{}] = 0
    BY <1>6
  <2> QED BY <2>1, <2>2, <2>3
<1>8. ASSUME NEW k \in Nat, k \in I PROVE k + 1 \in I
  <2> SUFFICES ASSUME k + 1 <= n PROVE F[1..(k + 1)] = Cardinality(PlacesIn(L, 1..(k + 1)))
    OBVIOUS
  <2> DEFINE S == 1..(k + 1)
  <2>1. S \in SUBSET D /\ S # {} /\ k + 1 \in S /\ S \ {k + 1} = 1..k
    BY <1>1
  <2>2. Max(S) = k + 1
    <3>1. Max(S) \in S
      BY <1>1, <2>1, MaxOfPositions
    <3>2. \A x \in S : Max(S) >= x
      BY <1>1, <2>1, MaxOfPositions
    <3>3. Max(S) >= k + 1 /\ Max(S) \in 1..(k + 1)
      BY <2>1, <3>1, <3>2
    <3> HIDE DEF S
    <3> QED BY <3>3
  <2> HIDE DEF S
  <2>3. F[S] = F[1..k] + Len(s[k + 1].storage.foreignKeys)
    BY <1>1, <1>6, <2>1, <2>2
  <2>4. F[1..k] = Cardinality(PlacesIn(L, 1..k))
    BY <1>1, <1>8
  <2>5. Cardinality(PlacesIn(L, S)) = Cardinality(PlacesIn(L, 1..k)) + L[k + 1]
    <3>1. n \in Nat /\ S \in SUBSET (1..n) /\ L \in [1..n -> Nat]
      BY <1>1, <1>2, <2>1 DEF n
    <3>2. Cardinality(PlacesIn(L, S)) = Cardinality(PlacesIn(L, S \ {k + 1})) + L[k + 1]
      BY <2>1, <3>1, PlacesGrow
    <3> QED BY <2>1, <3>2
  <2>6. L[k + 1] = Len(s[k + 1].storage.foreignKeys)
    BY <1>1, <2>1
  <2> QED BY <2>3, <2>4, <2>5, <2>6 DEF S
<1>9. n \in I
  <2> HIDE DEF I
  <2> QED BY <1>1, <1>7, <1>8, SetInduction
<1>10. F[1..n] = Cardinality(PlacesIn(L, 1..n))
  BY <1>1, <1>9
<1>11. 1..n = DOMAIN s
  BY <1>1 DEF n
<1> HIDE DEF D
<1>12. fold = Cardinality(PlacesIn(L, DOMAIN s))
  BY <1>3, <1>10, <1>11
<1> QED BY <1>12 DEF fold
\* No two rows of the catalog are of the same table, and each has its name among the relations.
RowsApart(D) ==
    /\ \A t \in D.tables : <<t.schema, t.table>> \in D.relations
    /\ \A t, u \in D.tables : t.schema = u.schema /\ t.table = u.table => t = u
\* Every foreign key that was added is still there.
ForeignKept(E, s, D) == \A l \in DOMAIN E : l < s /\ E[l].op = "foreign" => E[l] \in D.foreign
Counted(E, s, D) == RowsApart(D) /\ ForeignKept(E, s, D)
DatabaseForm(D) ==
    D = [schemas |-> D.schemas, relations |-> D.relations, tables |-> D.tables, foreign |-> D.foreign]

LEMMA SchemaCounted ==
    ASSUME NEW E, DOMAIN E = 1..Len(E), Len(E) \in Nat, NEW s \in DOMAIN E, NEW D, DatabaseForm(D),
           E[s].op = "schema", Counted(E, s, D)
    PROVE  Counted(E, s + 1, Execute(D, E[s]))
<1> DEFINE st == E[s]
           D2 == [schemas |-> D.schemas \cup {st.schema}, relations |-> D.relations,
                  tables |-> D.tables, foreign |-> D.foreign]
<1>1. s < s + 1 /\ \A l \in DOMAIN E : l < s + 1 <=> l < s \/ l = s
  BY Positions
<1>2. Execute(D, st) = D2
  <2>1. Execute(D, st) = [D EXCEPT !.schemas = @ \cup {st.schema}]
    BY DEF Execute, DoCreateSchema
  <2> HIDE DEF st
  <2> QED BY <2>1 DEF DatabaseForm
<1>3. RowsApart(D2)
  BY DEF Counted, RowsApart
<1>4. ForeignKept(E, s + 1, D2)
  BY <1>1 DEF Counted, ForeignKept
<1> QED BY <1>2, <1>3, <1>4 DEF Counted

LEMMA TableCounted ==
    ASSUME NEW E, DOMAIN E = 1..Len(E), Len(E) \in Nat, NEW s \in DOMAIN E, NEW D, DatabaseForm(D),
           E[s].op = "table", Counted(E, s, D), CanCreateTable(D, E[s]),
           E[s].table \in ToSet(NewRelations(E[s]))
    PROVE  Counted(E, s + 1, Execute(D, E[s]))
<1> DEFINE st == E[s]
           row == [schema |-> st.schema, table |-> st.table, columns |-> RowColumns(st),
                   keys |-> RowKeys(st), constraints |-> {k.name : k \in ToSet(st.keys)}]
           made == {<<st.schema, n>> : n \in ToSet(NewRelations(st))}
           D2 == [schemas |-> D.schemas, relations |-> D.relations \cup made,
                  tables |-> D.tables \cup {row}, foreign |-> D.foreign]
<1>1. s < s + 1 /\ \A l \in DOMAIN E : l < s + 1 <=> l < s \/ l = s
  BY Positions
<1>2. Execute(D, st) = D2
  <2>1. Execute(D, st) = DoCreateTable(D, st)
    BY DEF Execute
  <2>2. DoCreateTable(D, st) = [D EXCEPT !.tables = @ \cup {row}, !.relations = @ \cup made]
    BY DEF DoCreateTable, RowColumns, RowKeys
  <2> HIDE DEF row, made, st
  <2> QED BY <2>1, <2>2 DEF DatabaseForm
<1>3. row.schema = st.schema /\ row.table = st.table
  OBVIOUS
<1>4. <<st.schema, st.table>> \in made
  OBVIOUS
<1>5. <<st.schema, st.table>> \notin D.relations
  BY DEF CanCreateTable
<1>6. RowsApart(D) /\ ForeignKept(E, s, D)
  BY DEF Counted
<1> HIDE DEF row, made, st
<1>7. RowsApart(D2)
  <2>1. ASSUME NEW t \in D2.tables PROVE <<t.schema, t.table>> \in D2.relations
    BY <1>3, <1>4, <1>6 DEF RowsApart
  <2>2. ASSUME NEW t \in D2.tables, NEW u \in D2.tables, t.schema = u.schema, t.table = u.table PROVE t = u
    BY <1>3, <1>5, <1>6, <2>2 DEF RowsApart
  <2> HIDE DEF D2
  <2> QED BY <2>1, <2>2 DEF RowsApart
<1>8. ForeignKept(E, s + 1, D2)
  BY <1>1, <1>6 DEF ForeignKept, st
<1> QED BY <1>2, <1>7, <1>8 DEF Counted, st

LEMMA ForeignCounted ==
    ASSUME NEW E, DOMAIN E = 1..Len(E), Len(E) \in Nat, NEW s \in DOMAIN E, NEW D, DatabaseForm(D),
           E[s].op = "foreign", Counted(E, s, D), CanAddForeignKey(D, E[s])
    PROVE  Counted(E, s + 1, Execute(D, E[s]))
<1> DEFINE st == E[s]
           here == TableOf(D, st.schema, st.table)
           named == [here EXCEPT !.constraints = @ \cup {st.name}]
           D2 == [schemas |-> D.schemas, relations |-> D.relations,
                  tables |-> (D.tables \ {here}) \cup {named}, foreign |-> D.foreign \cup {st}]
<1>1. s < s + 1 /\ \A l \in DOMAIN E : l < s + 1 <=> l < s \/ l = s
  BY Positions
<1>2. Execute(D, st) = D2
  <2>1. Execute(D, st) = DoAddForeignKey(D, st)
    BY DEF Execute
  <2>2. DoAddForeignKey(D, st) = [D EXCEPT !.tables = (@ \ {here}) \cup {named}, !.foreign = @ \cup {st}]
    BY DEF DoAddForeignKey
  <2> HIDE DEF here, named, st
  <2> QED BY <2>1, <2>2 DEF DatabaseForm
<1>3. here \in D.tables /\ here.schema = st.schema /\ here.table = st.table
  BY DEF CanAddForeignKey, HasTable, TableOf
<1> HIDE DEF here
<1>4. named.schema = here.schema /\ named.table = here.table
  OBVIOUS
<1>5. RowsApart(D) /\ ForeignKept(E, s, D)
  BY DEF Counted
<1> HIDE DEF named, st
<1>6. RowsApart(D2)
  <2>1. ASSUME NEW t \in D2.tables PROVE <<t.schema, t.table>> \in D2.relations
    BY <1>3, <1>4, <1>5 DEF RowsApart
  <2>2. ASSUME NEW t \in D2.tables, NEW u \in D2.tables, t.schema = u.schema, t.table = u.table PROVE t = u
    BY <1>3, <1>4, <1>5, <2>2 DEF RowsApart
  <2> HIDE DEF D2
  <2> QED BY <2>1, <2>2 DEF RowsApart
<1>7. ForeignKept(E, s + 1, D2)
  BY <1>1, <1>5 DEF ForeignKept, st
<1> QED BY <1>2, <1>6, <1>7 DEF Counted, st

\* Every statement of an accepted document leaves the rows apart and keeps the foreign keys.
LEMMA StepCounted ==
    ASSUME NEW d \in Documents, validate(d) = <<>>, NEW s \in DOMAIN emitPostgres(d),
           NEW D, DatabaseSound(d, emitPostgres(d), s, D), Counted(emitPostgres(d), s, D)
    PROVE  Counted(emitPostgres(d), s + 1, Execute(D, emitPostgres(d)[s]))
<1> DEFINE E == emitPostgres(d)
<1>1. Orderly(d, E) /\ CanExecute(D, E[s]) /\ DatabaseForm(D)
  BY OrderlyHolds, StepSound DEF DatabaseSound, DatabaseForm
<1>2. s \in DOMAIN E /\ Counted(E, s, D)
  OBVIOUS
<1> HIDE DEF E
<1>3. DOMAIN E = 1..Len(E) /\ Len(E) \in Nat
      /\ (SchemaInOrder(d, E, s) \/ TableInOrder(d, E, s) \/ ForeignInOrder(d, E, s))
  BY <1>1, <1>2 DEF Orderly
<1>4. Counted(E, s + 1, Execute(D, E[s]))
  <2>1. CASE SchemaInOrder(d, E, s)
    <3>1. E[s].op = "schema"
      BY <2>1 DEF SchemaInOrder
    <3> QED BY <1>1, <1>2, <1>3, <3>1, SchemaCounted
  <2>2. CASE TableInOrder(d, E, s)
    <3>1. PICK m \in ToSet(Stored(d)) : E[s] = TableStatement(m)
      BY <2>2 DEF TableInOrder
    <3>2. SoundModel(m)
      BY AcceptedModels
    <3>3. E[s].op = "table" /\ E[s].table = m.storage.table
      BY <3>1, <3>2, ColumnStatement
    <3>4. E[s].table \in ToSet(NewRelations(E[s]))
      <4> DEFINE w == NewRelations(TableStatement(m))
      <4>1. 1 \in DOMAIN w /\ w[1] = m.storage.table
        BY <3>2, NewRelationsFacts
      <4> HIDE DEF w
      <4>2. m.storage.table \in ToSet(w)
        BY <4>1 DEF ToSet
      <4> QED BY <3>1, <3>3, <4>2 DEF w
    <3>5. CanCreateTable(D, E[s])
      BY <1>1, <3>3 DEF CanExecute
    <3> QED BY <1>1, <1>2, <1>3, <3>3, <3>4, <3>5, TableCounted
  <2>3. CASE ForeignInOrder(d, E, s)
    <3>1. PICK m \in ToSet(Stored(d)) : \E key \in ToSet(m.storage.foreignKeys) : E[s] = ForeignStatement(d, m, key)
      BY <2>3 DEF ForeignInOrder
    <3>2. E[s].op = "foreign"
      BY <3>1 DEF ForeignStatement, AddForeignKey
    <3>3. CanAddForeignKey(D, E[s])
      BY <1>1, <3>2 DEF CanExecute
    <3> QED BY <1>1, <1>2, <1>3, <3>2, <3>3, ForeignCounted
  <2> QED BY <1>3, <2>1, <2>2, <2>3
<1> QED BY <1>4 DEF E
-----------------------------------------------------------------------------
(* Nothing declared is lost: the tables, the keys and the foreign keys.    *)

\* When all statements have run every stored model has its table.
LEMMA AllTables ==
    ASSUME NEW d \in Documents, validate(d) = <<>>, NEW E, Orderly(d, E), NEW D,
           TablesMade(d, E, Len(E) + 1, D), NEW m \in ToSet(Stored(d))
    PROVE  HasTable(D, m.storage.schema, m.storage.table)
<1>1. PICK l \in DOMAIN E : E[l] = TableStatement(m)
  BY DEF Orderly
<1>2. l < Len(E) + 1
  BY DEF Orderly
<1>3. SoundModel(m)
  BY AcceptedModels
<1>4. E[l].op = "table" /\ E[l].schema = m.storage.schema /\ E[l].table = m.storage.table
  BY <1>1, <1>3, ColumnStatement
<1> QED BY <1>1, <1>2, <1>4 DEF TablesMade

LEMMA TablesCount ==
    ASSUME NEW d \in Documents, validate(d) = <<>>, NEW E, Orderly(d, E), NEW D,
           TablesMade(d, E, Len(E) + 1, D), RowsApart(D)
    PROVE  Cardinality(D.tables) = Len(Stored(d))
<1> DEFINE SL == Stored(d)
           n == Len(SL)
           row(m) == TableOf(D, m.storage.schema, m.storage.table)
           f == [i \in 1..n |-> row(SL[i])]
<1>1. n \in Nat /\ DOMAIN SL = 1..n /\ \A i \in 1..n : SL[i] \in ToSet(SL)
  <2>1. SL \in Seq(Models)
    BY StoredItems
  <2> QED BY <2>1 DEF ToSet
<1>2. ASSUME NEW m \in ToSet(SL)
      PROVE  row(m) \in D.tables /\ row(m).schema = m.storage.schema /\ row(m).table = m.storage.table
  <2>1. HasTable(D, m.storage.schema, m.storage.table)
    BY AllTables
  <2> QED BY <2>1, TableFound
<1>3. \A x, y \in DOMAIN SL : SL[x].storage.schema = SL[y].storage.schema
                              /\ SL[x].storage.table = SL[y].storage.table => x = y
  <2>1. RelationsApart(d)
    BY Accepted, RelationNames DEF NameCollision
  <2> QED BY <2>1 DEF RelationsApart
<1>4. ASSUME NEW t \in D.tables PROVE \E m \in ToSet(SL) : row(m) = t
  <2>1. PICK m \in ToSet(SL) : t.schema = m.storage.schema /\ t.table = m.storage.table
    BY DEF TablesMade, TableMade
  <2>2. row(m) \in D.tables /\ row(m).schema = t.schema /\ row(m).table = t.table
    BY <1>2, <2>1
  <2> HIDE DEF row
  <2>3. row(m) = t
    BY <2>2 DEF RowsApart
  <2> QED BY <2>3
<1>5. \A t \in D.tables : \E i \in 1..n : SL[i] \in ToSet(SL) /\ row(SL[i]) = t
  BY <1>1, <1>4 DEF ToSet
<1> HIDE DEF SL, n, row
<1>6. f \in [1..n -> D.tables]
  BY <1>1, <1>2
<1>7. \A i, j \in 1..n : f[i] = f[j] => i = j
  BY <1>1, <1>2, <1>3
<1>8. \A t \in D.tables : \E i \in 1..n : f[i] = t
  BY <1>5
<1> HIDE DEF f
<1>9. Cardinality(D.tables) = n
  BY <1>1, <1>6, <1>7, <1>8, CountedBy
<1> QED BY <1>9 DEF n, SL

\* No two keys of a table are over the same fields.
LEMMA KeysApart ==
    ASSUME NEW s \in Storages, ~ DuplicateKey(s)
    PROVE  \A i, j \in DOMAIN KeysOf(s) : ToSet(KeysOf(s)[i]) = ToSet(KeysOf(s)[j]) => i = j
<1> DEFINE K == KeysOf(s)
           Shorts == Seq(Int)
           w == [i \in DOMAIN K |-> ToSet(K[i])]
           T == {w[i] : i \in DOMAIN K}
<1>1. K \in Seq(Shorts)
  BY KeysType
<1>2. ~ Repeats(w)
  BY DEF DuplicateKey, Map
<1> HIDE DEF K
<1>3. w = [i \in DOMAIN K |-> w[i]] /\ \A i \in DOMAIN K : w[i] \in T
  OBVIOUS
<1>4. \A i \in DOMAIN K : w[i] = ToSet(K[i])
  OBVIOUS
<1> HIDE DEF w, T, Shorts
<1>5. w \in Seq(T) /\ DOMAIN w = DOMAIN K
  BY <1>1, <1>3, MappedLists
<1>6. \A i, j \in DOMAIN w : w[i] = w[j] => i = j
  BY <1>2, <1>5, NoRepeats
<1> QED BY <1>4, <1>5, <1>6 DEF K

\* The fields of a key can be told from its columns.
LEMMA FieldsFromColumns ==
    ASSUME NEW m, SoundModel(m), NEW p \in Seq(Int), ToSet(p) \subseteq FieldNames(m),
           NEW q \in Seq(Int), ToSet(q) \subseteq FieldNames(m),
           ToSet(columns(m.storage, p)) \subseteq ToSet(columns(m.storage, q))
    PROVE  ToSet(p) \subseteq ToSet(q)
<1> DEFINE u == columns(m.storage, p)
           v == columns(m.storage, q)
<1>1. /\ DOMAIN u = DOMAIN p
      /\ \A i \in DOMAIN p : p[i] \in FieldNames(m) /\ u[i] = ColumnName(m.storage, p[i])
  BY KeyColumns
<1>2. /\ DOMAIN v = DOMAIN q
      /\ \A i \in DOMAIN q : q[i] \in FieldNames(m) /\ v[i] = ColumnName(m.storage, q[i])
  BY KeyColumns
<1> HIDE DEF u, v
<1>3. ASSUME NEW i \in DOMAIN p PROVE p[i] \in ToSet(q)
  <2>1. PICK j \in DOMAIN v : v[j] = u[i]
    <3>1. u[i] \in ToSet(v)
      BY <1>1 DEF u, v, ToSet
    <3> QED BY <3>1 DEF ToSet
  <2>2. ColumnName(m.storage, q[j]) = ColumnName(m.storage, p[i])
    BY <1>1, <1>2, <2>1
  <2>3. q[j] = p[i]
    BY <1>1, <1>2, <2>1, <2>2, ColumnsApart
  <2> QED BY <1>2, <2>1, <2>3 DEF ToSet
<1> QED BY <1>3 DEF ToSet

LEMMA KeysCount ==
    ASSUME NEW m, FullModel(m)
    PROVE  Cardinality(RowKeys(TableStatement(m))) = 1 + Len(m.storage.uniqueKeys)
<1> DEFINE sql == m.storage
           st == TableStatement(m)
           K == KeysOf(sql)
           Shorts == Seq(Int)
           n == Len(K)
           R == RowKeys(st)
           f == [a \in 1..n |-> ToSet(st.keys[a].columns)]
<1>1. SoundModel(m) /\ m \in Models /\ sql \in Storages /\ ~ DuplicateKey(sql)
      /\ \A k \in DOMAIN K : ToSet(K[k]) \subseteq FieldNames(m)
  BY DEF FullModel, SoundModel
<1>2. K \in Seq(Shorts) /\ n = Len(sql.uniqueKeys) + 1 /\ Len(sql.uniqueKeys) \in Nat
  <2>1. Len(sql.uniqueKeys) \in Nat
    <3>1. sql.uniqueKeys \in Seq(Shorts)
      BY <1>1 DEF Storages
    <3> HIDE DEF Shorts
    <3> QED BY <3>1
  <2> QED BY <1>1, <2>1, KeysType
<1>3. PICK g : Clauses(sql, st.keys, g)
  BY <1>1, ClausesExist
<1>4. \A i, j \in DOMAIN K : ToSet(K[i]) = ToSet(K[j]) => i = j
  BY <1>1, KeysApart
<1> HIDE DEF K, st
<1>5. /\ Permutation(g, DOMAIN K) /\ DOMAIN st.keys = DOMAIN K
      /\ \A a \in DOMAIN K : st.keys[a].columns = columns(sql, K[g[a]])
  BY <1>3 DEF Clauses, K
<1>6. n \in Nat /\ DOMAIN K = 1..n /\ \A k \in DOMAIN K : K[k] \in Shorts
  <2> HIDE DEF Shorts
  <2> QED BY <1>2
<1> HIDE DEF n
<1>7. \A a \in 1..n : f[a] \in R
  <2>1. \A a \in DOMAIN st.keys : st.keys[a] \in ToSet(st.keys)
    BY DEF ToSet
  <2> QED BY <1>5, <1>6, <2>1 DEF RowKeys
<1>8. \A x \in R : \E a \in 1..n : f[a] = x
  <2> SUFFICES ASSUME NEW x \in R PROVE \E a \in 1..n : f[a] = x
    OBVIOUS
  <2>1. PICK k \in ToSet(st.keys) : x = ToSet(k.columns)
    BY DEF RowKeys
  <2>2. PICK a \in DOMAIN st.keys : k = st.keys[a]
    BY DEF ToSet
  <2> QED BY <1>5, <1>6, <2>1, <2>2
<1>9. ASSUME NEW a \in 1..n, NEW b \in 1..n, f[a] = f[b] PROVE a = b
  <2> DEFINE p == K[g[a]]
             q == K[g[b]]
  <2>1. g[a] \in DOMAIN K /\ g[b] \in DOMAIN K /\ (g[a] = g[b] => a = b)
    BY <1>5, <1>6 DEF Permutation
  <2>2. p \in Shorts /\ q \in Shorts /\ ToSet(p) \subseteq FieldNames(m) /\ ToSet(q) \subseteq FieldNames(m)
    BY <1>1, <1>6, <2>1 DEF K
  <2>3. ToSet(columns(sql, p)) = ToSet(columns(sql, q))
    BY <1>5, <1>6, <1>9
  <2>4. ToSet(p) = ToSet(q) => g[a] = g[b]
    BY <1>4, <2>1
  <2> HIDE DEF p, q
  <2>5. ToSet(p) \subseteq ToSet(q) /\ ToSet(q) \subseteq ToSet(p)
    BY <1>1, <2>2, <2>3, FieldsFromColumns
  <2> QED BY <2>1, <2>4, <2>5
<1>10. f \in [1..n -> R]
  BY <1>7
<1> HIDE DEF f, R
<1>11. Cardinality(R) = n
  BY <1>6, <1>8, <1>9, <1>10, CountedBy
<1> QED BY <1>2, <1>11 DEF R, st
\* Every declared foreign key has its statement.
LEMMA ForeignEmitted ==
    ASSUME NEW d \in Documents, validate(d) = <<>>,
           NEW m \in ToSet(Stored(d)), NEW key \in ToSet(m.storage.foreignKeys)
    PROVE  \E l \in DOMAIN emitPostgres(d) : emitPostgres(d)[l] = ForeignStatement(d, m, key)
<1> DEFINE E == emitPostgres(d)
           SL == Stored(d)
<1>1. documentShape(d) = <<>>
  BY Accepted
<1>2. PICK schemas, models, keys, off : Layout(d, E, schemas, models, keys, off)
  BY <1>1, Emitted
<1> HIDE DEF E
<1>3. /\ Rearranged(SL, models)
      /\ \A i \in DOMAIN models : Rearranged(models[i].storage.foreignKeys, keys[i])
      /\ \A i \in DOMAIN models : \A j \in DOMAIN keys[i] :
            \E l \in DOMAIN E : E[l] = ForeignStatement(d, models[i], keys[i][j])
  BY <1>2 DEF Layout
<1>4. SL \in Seq(Models)
  BY StoredItems
<1>5. PICK r \in DOMAIN models : models[r] = m
  <2>1. PICK i \in DOMAIN SL : SL[i] = m
    BY DEF ToSet
  <2> HIDE DEF SL
  <2>2. \E r \in DOMAIN models : models[r] = SL[i]
    BY <1>3, <1>4, <2>1, RearrangedItems
  <2> QED BY <2>1, <2>2
<1>6. m \in Models /\ m.storage.foreignKeys \in Seq(Foreigns)
  <2>1. m \in Models
    BY StoredItems DEF ToSet
  <2> QED BY <2>1 DEF Models, Storages
<1> DEFINE fks == m.storage.foreignKeys
           moved == keys[r]
<1>7. PICK j \in DOMAIN fks : fks[j] = key
  BY DEF ToSet
<1>8. fks \in Seq(Foreigns) /\ Rearranged(fks, moved)
  BY <1>3, <1>5, <1>6
<1>9. \A c \in DOMAIN moved : \E l \in DOMAIN E : E[l] = ForeignStatement(d, m, moved[c])
  BY <1>3, <1>5
<1> HIDE DEF fks, moved
<1>10. \E c \in DOMAIN moved : moved[c] = fks[j]
  BY <1>7, <1>8, RearrangedItems
<1> QED BY <1>7, <1>9, <1>10 DEF E

\* A statement for every declared foreign key, and no two of them the same.
LEMMA ForeignApart ==
    ASSUME NEW d \in Documents, validate(d) = <<>>,
           NEW x \in DOMAIN Stored(d), NEW i \in DOMAIN Stored(d)[x].storage.foreignKeys,
           NEW y \in DOMAIN Stored(d), NEW j \in DOMAIN Stored(d)[y].storage.foreignKeys,
           ForeignStatement(d, Stored(d)[x], Stored(d)[x].storage.foreignKeys[i])
             = ForeignStatement(d, Stored(d)[y], Stored(d)[y].storage.foreignKeys[j])
    PROVE  x = y /\ i = j
<1> DEFINE SL == Stored(d)
           a == ForeignStatement(d, SL[x], SL[x].storage.foreignKeys[i])
           b == ForeignStatement(d, SL[y], SL[y].storage.foreignKeys[j])
<1>1. /\ a.schema = SL[x].storage.schema /\ a.table = SL[x].storage.table
      /\ a.name = ForeignName(d, SL[x].storage, SL[x].storage.foreignKeys[i])
      /\ b.schema = SL[y].storage.schema /\ b.table = SL[y].storage.table
      /\ b.name = ForeignName(d, SL[y].storage, SL[y].storage.foreignKeys[j])
  BY DEF ForeignStatement, AddForeignKey
<1>2. a = b
  OBVIOUS
<1> HIDE DEF a, b
<1>3. x = y
  <2>1. RelationsApart(d)
    BY Accepted, RelationNames DEF NameCollision
  <2> QED BY <1>1, <1>2, <2>1 DEF RelationsApart
<1>4. ConstraintsApart(d, SL[x].storage)
  <2>1. SL[x] \in ToSet(SL)
    BY DEF ToSet
  <2> QED BY <2>1, Accepted, ConstraintNames
<1> QED BY <1>1, <1>2, <1>3, <1>4 DEF ConstraintsApart

LEMMA ForeignCount ==
    ASSUME NEW d \in Documents, validate(d) = <<>>, NEW D,
           ForeignMade(d, D), ForeignKept(emitPostgres(d), Len(emitPostgres(d)) + 1, D),
           NEW L, L = [i \in DOMAIN Stored(d) |-> Len(Stored(d)[i].storage.foreignKeys)]
    PROVE  Cardinality(D.foreign) = Cardinality(PlacesIn(L, DOMAIN Stored(d)))
<1> DEFINE E == emitPostgres(d)
           SL == Stored(d)
           n == Len(SL)
           fks(i) == SL[i].storage.foreignKeys
           st(i, j) == ForeignStatement(d, SL[i], fks(i)[j])
           P == PlacesIn(L, 1..n)
           f == [p \in P |-> st(p[1], p[2])]
           Apart(x, i, y, j) == st(x, i) = st(y, j) => x = y /\ i = j
<1>1. n \in Nat /\ DOMAIN SL = 1..n /\ SL \in Seq(Models)
  <2>1. SL \in Seq(Models)
    BY StoredItems
  <2> QED BY <2>1
<1>2. \A i \in 1..n : /\ SL[i] \in ToSet(SL) /\ L[i] = Len(fks(i)) /\ Len(fks(i)) \in Nat
                      /\ DOMAIN fks(i) = 1..L[i]
  <2>1. \A m \in Models : Len(m.storage.foreignKeys) \in Nat
                          /\ DOMAIN m.storage.foreignKeys = 1..Len(m.storage.foreignKeys)
    BY DEF Models, Storages
  <2>2. \A i \in 1..n : SL[i] \in Models /\ SL[i] \in ToSet(SL)
    <3> HIDE DEF SL
    <3> QED BY <1>1 DEF ToSet
  <2>3. \A i \in 1..n : L[i] = Len(fks(i))
    BY <1>1
  <2> QED BY <2>1, <2>2, <2>3
<1>3. L \in [1..n -> Nat]
  BY <1>1, <1>2
<1>4. ASSUME NEW i \in 1..n, NEW j \in 1..L[i] PROVE st(i, j) \in D.foreign
  <2>1. SL[i] \in ToSet(SL) /\ fks(i)[j] \in ToSet(fks(i))
    BY <1>2 DEF ToSet
  <2>2. PICK l \in DOMAIN E : E[l] = st(i, j)
    BY <2>1, ForeignEmitted
  <2>3. E[l].op = "foreign"
    BY <2>2 DEF ForeignStatement, AddForeignKey
  <2>4. l < Len(E) + 1
    <3>1. Orderly(d, E)
      BY OrderlyHolds
    <3> HIDE DEF E
    <3> QED BY <2>2, <3>1 DEF Orderly
  <2> HIDE DEF E, st
  <2>5. E[l] \in D.foreign
    BY <2>2, <2>3, <2>4 DEF ForeignKept, E
  <2> QED BY <2>2, <2>5
<1>5. ASSUME NEW k \in D.foreign PROVE \E i \in 1..n : \E j \in 1..L[i] : st(i, j) = k
  <2>1. PICK m \in ToSet(SL) : \E key \in ToSet(m.storage.foreignKeys) : k = ForeignStatement(d, m, key)
    BY DEF ForeignMade
  <2>2. PICK key \in ToSet(m.storage.foreignKeys) : k = ForeignStatement(d, m, key)
    BY <2>1
  <2>3. PICK i \in DOMAIN SL : SL[i] = m
    BY DEF ToSet
  <2>4. PICK j \in DOMAIN fks(i) : fks(i)[j] = key
    BY <2>3 DEF ToSet
  <2> QED BY <1>1, <1>2, <2>2, <2>3, <2>4
<1>6. ASSUME NEW x \in 1..n, NEW i \in 1..L[x], NEW y \in 1..n, NEW j \in 1..L[y]
      PROVE  Apart(x, i, y, j)
  <2>1. x \in DOMAIN SL /\ y \in DOMAIN SL /\ i \in DOMAIN fks(x) /\ j \in DOMAIN fks(y)
    BY <1>1, <1>2
  <2> QED BY <2>1, ForeignApart
<1> HIDE DEF E, n, st, SL, fks, Apart
<1>7. \A p \in P : \E i \in 1..n : \E j \in 1..L[i] : p = <<i, j>>
  BY DEF PlacesIn, PlacesOf
<1>8. ASSUME NEW i \in 1..n, NEW j \in 1..L[i] PROVE <<i, j>> \in P
  <2>1. <<i, j>> \in PlacesOf(L, i)
    BY DEF PlacesOf
  <2> QED BY <2>1 DEF PlacesIn
<1> HIDE DEF P
<1>9. \A p \in P : f[p] \in D.foreign
  <2> SUFFICES ASSUME NEW p \in P PROVE f[p] \in D.foreign
    OBVIOUS
  <2>1. PICK i \in 1..n : \E j \in 1..L[i] : p = <<i, j>>
    BY <1>7
  <2>2. PICK j \in 1..L[i] : p = <<i, j>>
    BY <2>1
  <2>3. f[p] = st(i, j)
    BY <2>2
  <2> QED BY <1>4, <2>3
<1>10. ASSUME NEW p \in P, NEW q \in P, f[p] = f[q] PROVE p = q
  <2>1. PICK x \in 1..n : \E i \in 1..L[x] : p = <<x, i>>
    BY <1>7
  <2>2. PICK i \in 1..L[x] : p = <<x, i>>
    BY <2>1
  <2>3. PICK y \in 1..n : \E j \in 1..L[y] : q = <<y, j>>
    BY <1>7
  <2>4. PICK j \in 1..L[y] : q = <<y, j>>
    BY <2>3
  <2>5. st(x, i) = st(y, j)
    BY <1>10, <2>2, <2>4
  <2>6. Apart(x, i, y, j)
    BY <1>6
  <2>7. x = y /\ i = j
    BY <2>5, <2>6 DEF Apart
  <2> QED BY <2>2, <2>4, <2>7
<1>11. ASSUME NEW k \in D.foreign PROVE \E p \in P : f[p] = k
  <2>1. PICK i \in 1..n : \E j \in 1..L[i] : st(i, j) = k
    BY <1>5
  <2>2. PICK j \in 1..L[i] : st(i, j) = k
    BY <2>1
  <2>3. <<i, j>> \in P
    BY <1>8
  <2>4. f[<<i, j>>] = st(i, j)
    BY <2>3
  <2> QED BY <2>2, <2>3, <2>4
<1>12. IsFiniteSet(P)
  BY <1>1, <1>3, PlacesFinite DEF P
<1>13. f \in [P -> D.foreign]
  BY <1>9
<1> HIDE DEF f
<1>14. f \in Bijection(P, D.foreign)
  BY <1>10, <1>11, <1>13 DEF Bijection, Injection, Surjection, IsInjective
<1>15. ExistsBijection(P, D.foreign)
  BY <1>14 DEF ExistsBijection
<1>16. Cardinality(D.foreign) = Cardinality(P)
  BY <1>12, <1>15, FS_Bijection
<1> QED BY <1>1, <1>16 DEF P, SL
LEMMA NothingIsLost ==
    ASSUME NEW d \in Documents, validate(d) = <<>>, NEW D,
           DatabaseSound(d, emitPostgres(d), Len(emitPostgres(d)) + 1, D),
           Counted(emitPostgres(d), Len(emitPostgres(d)) + 1, D)
    PROVE  /\ Cardinality(D.tables) = Len(Stored(d))
           /\ Cardinality(D.foreign) = FoldLeft(LAMBDA n, m : n + Len(m.storage.foreignKeys), 0, Stored(d))
           /\ \A m \in ToSet(Stored(d)) :
                 Cardinality(TableOf(D, m.storage.schema, m.storage.table).keys)
                     = 1 + Len(m.storage.uniqueKeys)
<1> DEFINE E == emitPostgres(d)
           SL == Stored(d)
           L == [i \in DOMAIN SL |-> Len(SL[i].storage.foreignKeys)]
<1>1. /\ TablesMade(d, E, Len(E) + 1, D) /\ ForeignMade(d, D)
      /\ RowsApart(D) /\ ForeignKept(E, Len(E) + 1, D)
  BY DEF DatabaseSound, Counted
<1>2. Orderly(d, E)
  BY OrderlyHolds
<1>3. Cardinality(D.foreign) = Cardinality(PlacesIn(L, DOMAIN SL))
  BY <1>1, ForeignCount
<1>4. SL \in Seq(Models)
  BY StoredItems
<1>5. ASSUME NEW m \in ToSet(SL)
      PROVE  Cardinality(TableOf(D, m.storage.schema, m.storage.table).keys) = 1 + Len(m.storage.uniqueKeys)
  <2> HIDE DEF E
  <2>1. HasTable(D, m.storage.schema, m.storage.table)
    BY <1>1, <1>2, AllTables
  <2>2. TableOf(D, m.storage.schema, m.storage.table).keys = RowKeys(TableStatement(m))
    BY <1>1, <2>1, TableFound
  <2>3. FullModel(m)
    BY FullModels
  <2> QED BY <2>2, <2>3, KeysCount
<1> HIDE DEF E
<1>6. Cardinality(D.tables) = Len(SL)
  BY <1>1, <1>2, TablesCount
<1>7. FoldLeft(LAMBDA n, m : n + Len(m.storage.foreignKeys), 0, SL) = Cardinality(PlacesIn(L, DOMAIN SL))
  <2>1. L = [i \in DOMAIN SL |-> Len(SL[i].storage.foreignKeys)]
    OBVIOUS
  <2> HIDE DEF L, SL
  <2> QED BY <1>4, <2>1, FoldCounts
<1> QED BY <1>3, <1>5, <1>6, <1>7

\* While the statements run, no two rows are of the same table and no foreign key is dropped.
CountInv == phase \in {"applying", "applied"} => Counted(emitPostgres(doc), step, db)

LEMMA EmptyCounted ==
    ASSUME NEW E, DOMAIN E = 1..Len(E), Len(E) \in Nat
    PROVE  Counted(E, 1, Fresh)
<1>1. Fresh.tables = {}
  BY DEF Fresh, EmptyDatabase
<1>2. \A l \in DOMAIN E : ~ (l < 1)
  OBVIOUS
<1> QED BY <1>1, <1>2 DEF Counted, RowsApart, ForeignKept

LEMMA CountStep ==
    ASSUME ReleaseInv, CountInv, [Next]_vars
    PROVE  CountInv'
<1> DEFINE E == emitPostgres(doc)
<1>1. /\ doc \in Documents
      /\ phase \in {"editing", "rejected"} => step = 1 /\ db = Fresh
      /\ phase \in {"applying", "applied"} =>
            /\ validate(doc) = <<>> /\ result = compileSchema(doc)
            /\ step \in 1..(Len(E) + 1)
            /\ DatabaseSound(doc, E, step, db)
  BY DEF ReleaseInv
<1>2. validate(doc) = <<>> => Len(E) \in Nat /\ DOMAIN E = 1..Len(E)
  <2>1. validate(doc) = <<>> => Orderly(doc, E)
    BY <1>1, OrderlyHolds
  <2> HIDE DEF E
  <2> QED BY <2>1 DEF Orderly
<1>3. CASE Edit
  BY <1>3 DEF Edit, CountInv
<1>4. CASE Compile
  <2>1. phase = "editing" /\ doc' = doc /\ step' = 1 /\ db' = Fresh
        /\ phase' = IF compileSchema(doc).ok THEN "applying" ELSE "rejected"
    BY <1>1, <1>4 DEF Compile
  <2>2. CASE validate(doc) = <<>>
    <3>1. Counted(E, 1, Fresh)
      BY <1>2, <2>2, EmptyCounted
    <3> QED BY <2>1, <3>1 DEF CountInv
  <2>3. CASE validate(doc) # <<>>
    <3>1. phase' = "rejected"
      BY <2>1, <2>3, Verdict
    <3> QED BY <3>1 DEF CountInv
  <2> QED BY <2>2, <2>3
<1>5. CASE RunStatement
  <2>1. phase = "applying" /\ step <= Len(result.postgres) /\ doc' = doc
    BY <1>5 DEF RunStatement
  <2>2. /\ validate(doc) = <<>> /\ result.postgres = E
        /\ step \in 1..(Len(E) + 1) /\ DatabaseSound(doc, E, step, db)
    BY <1>1, <2>1, Verdict
  <2>3. step \in DOMAIN E /\ Counted(E, step, db)
    BY <1>2, <2>1, <2>2 DEF CountInv
  <2>4. CanExecute(db, E[step]) /\ Counted(E, step + 1, Execute(db, E[step]))
    BY <1>1, <2>2, <2>3, StepSound, StepCounted
  <2>5. db' = Execute(db, E[step]) /\ step' = step + 1
    BY <1>5, <2>2, <2>4 DEF RunStatement
  <2> QED BY <2>1, <2>4, <2>5 DEF CountInv
<1>6. CASE Finish
  BY <1>6 DEF Finish, CountInv
<1>7. CASE Revise
  BY <1>7 DEF Revise, CountInv
<1>8. CASE UNCHANGED vars
  BY <1>8 DEF vars, CountInv
<1> QED BY <1>3, <1>4, <1>5, <1>6, <1>7, <1>8 DEF Next

\* No two rows of the catalog are of the same table and no statement drops a foreign key: the
\* second inductive invariant, on top of the first.
THEOREM CountInvariance == Spec => []CountInv
<1>1. Init => CountInv
  BY DEF Init, CountInv
<1>2. ReleaseInv /\ CountInv /\ [Next]_vars => CountInv'
  BY CountStep
<1> QED BY <1>1, <1>2, ReleaseInvariance, PTL DEF Spec

\* Nothing that is declared is lost, and where it was declared decides nothing: the finished
\* database has a table for each stored model, a key for each key and a foreign key for each
\* relationship of the document (validate.js:199-300, DUPLICATE_TABLE, DUPLICATE_KEY,
\* DUPLICATE_FOREIGN_KEY), and every order of the declarations gives the same three artifacts.
THEOREM DeclarationsAreKept == Spec => []DeclarationsKept
<1>1. ASSUME ReleaseInv, CountInv PROVE NothingLost
  <2> SUFFICES ASSUME phase = "applied"
               PROVE  /\ Cardinality(db.tables) = Len(Stored(doc))
                      /\ Cardinality(db.foreign)
                           = FoldLeft(LAMBDA n, m : n + Len(m.storage.foreignKeys), 0, Stored(doc))
                      /\ \A m \in ToSet(Stored(doc)) :
                            Cardinality(TableOf(db, m.storage.schema, m.storage.table).keys)
                                = 1 + Len(m.storage.uniqueKeys)
    BY Zenon DEF NothingLost
  <2>1. /\ doc \in Documents /\ validate(doc) = <<>> /\ step = Len(emitPostgres(doc)) + 1
        /\ DatabaseSound(doc, emitPostgres(doc), step, db) /\ Counted(emitPostgres(doc), step, db)
    BY <1>1 DEF ReleaseInv, CountInv
  <2> QED BY <2>1, NothingIsLost
<1>2. ReleaseInv /\ CountInv => NothingLost
  BY <1>1
<1> QED BY <1>2, ReleaseInvariance, CountInvariance, OrderDoesNotMatter, PTL DEF DeclarationsKept
=============================================================================
