------------------------- MODULE JsonBoundary_proofs -------------------------
(***************************************************************************)
(* The walk over a schema document, for every heap and every limit: it     *)
(* stays within its limits, and the set of ancestors is exactly the set of *)
(* open values, so that only a value inside itself is taken for a cycle.   *)
(***************************************************************************)
EXTENDS JsonBoundary, FiniteSetTheorems, WellFoundedInduction, TLAPS

\* WorkBounded is not inductive: while the walk goes on it has not passed the limit yet.
Within == verdict = "walking" => nodes <= MaxNodes

\* Before the walk begins nothing is open.
Started == nodes = 0 => stack = << >>

\* A list of open values with the same nodes: what the properties below need of `open`.
Opens(s, values) == /\ values = {s[i].node : i \in DOMAIN s}
                    /\ \A i, j \in DOMAIN s : s[i].node = s[j].node => i = j
Opened(open) == open \in Seq(Frame) /\ Len(open) <= MaxDepth + 1 /\ Opens(open, ancestors)

IInv == TypeOK /\ Started /\ Within /\ WorkBounded /\ AncestorsAreOpen

\* What visit() has established of a value that is entered or copied (validate.js:23-33).
LEMMA VisitFacts ==
    ASSUME NEW n, NEW depth, NEW count
    PROVE  /\ visit(n, depth, count) \in {"open", "leaf", "limit", "notJson"}
           /\ visit(n, depth, count) \in {"open", "leaf"} => ~ (depth > MaxDepth \/ count > MaxNodes)
           /\ visit(n, depth, count) = "open" => n \notin ancestors
<1>1. CASE walker = "snapshotJson"
  <2>1. visit(n, depth, count) = snapshotVisit(heap[n], n, depth, count)
    BY <1>1 DEF visit
  <2> QED BY <2>1 DEF snapshotVisit
<1>2. CASE walker # "snapshotJson"
  <2>1. visit(n, depth, count) = jsonVisit(heap[n], n, depth, count)
    BY <1>2 DEF visit
  <2> QED BY <2>1 DEF jsonVisit
<1> QED BY <1>1, <1>2

\* One more open value keeps the open values distinct.
LEMMA AppendOpened ==
    ASSUME NEW open, Opened(open), NEW n \in Node, n \notin ancestors, NEW s,
           s = Append(open, [node |-> n, next |-> 1])
    PROVE  s \in Seq(Frame) /\ Len(s) = Len(open) + 1 /\ Opens(s, ancestors \cup {n})
<1> DEFINE f == [node |-> n, next |-> 1]
<1>1. f \in Frame
  BY DEF Frame
<1>2. open \in Seq(Frame)
  BY DEF Opened
<1>3. s \in Seq(Frame) /\ Len(s) = Len(open) + 1
  BY <1>1, <1>2
<1>4. Len(open) \in Nat /\ DOMAIN open = 1 .. Len(open) /\ DOMAIN s = 1 .. (Len(open) + 1)
  BY <1>2, <1>3
<1>5. s[Len(open) + 1] = f /\ \A i \in 1 .. Len(open) : s[i] = open[i]
  BY <1>2, <1>1
<1>6. f.node = n
  OBVIOUS
<1>7. \A i \in 1 .. Len(open) : open[i].node \in ancestors
  BY <1>4 DEF Opened, Opens
<1>8. ASSUME NEW i \in DOMAIN s, NEW j \in DOMAIN s, s[i].node = s[j].node
      PROVE  i = j
  <2>1. CASE i \in 1 .. Len(open) /\ j \in 1 .. Len(open)
    BY <2>1, <1>4, <1>5, <1>8 DEF Opened, Opens
  <2>2. CASE i = Len(open) + 1 /\ j = Len(open) + 1
    BY <2>2
  <2>3. CASE i \in 1 .. Len(open) /\ j = Len(open) + 1
    BY <2>3, <1>5, <1>6, <1>7, <1>8
  <2>4. CASE i = Len(open) + 1 /\ j \in 1 .. Len(open)
    BY <2>4, <1>5, <1>6, <1>7, <1>8
  <2> QED BY <2>1, <2>2, <2>3, <2>4, <1>4
<1>9. ancestors \cup {n} = {s[i].node : i \in DOMAIN s}
  <2>1. ancestors = {open[i].node : i \in 1 .. Len(open)}
    BY <1>4 DEF Opened, Opens
  <2>2. ASSUME NEW x \in ancestors \cup {n} PROVE \E i \in DOMAIN s : x = s[i].node
    <3>1. CASE x = n
      BY <3>1, <1>4, <1>5, <1>6
    <3>2. CASE x \in ancestors
      <4>1. PICK i \in 1 .. Len(open) : x = open[i].node
        BY <3>2, <2>1
      <4> QED BY <4>1, <1>4, <1>5
    <3> QED BY <3>1, <3>2
  <2>3. ASSUME NEW i \in DOMAIN s PROVE s[i].node \in ancestors \cup {n}
    <3>1. CASE i \in 1 .. Len(open)
      BY <3>1, <1>5, <1>7
    <3>2. CASE i = Len(open) + 1
      BY <3>2, <1>5, <1>6
    <3> QED BY <3>1, <3>2, <1>4
  <2> QED BY <2>2, <2>3
<1> QED BY <1>3, <1>8, <1>9 DEF Opens

\* Entering a value below `open` keeps the invariant.
LEMMA EnterInv ==
    ASSUME TypeOK, verdict = "walking", nodes <= MaxNodes, Len(stack) <= MaxDepth + 1, AncestorsAreOpen,
           NEW n \in Node, NEW open, Opened(open), Enter(n, open)
    PROVE  IInv'
<1> DEFINE outcome == visit(n, Len(open), nodes + 1)
<1>1. heap' = heap /\ walker' = walker /\ nodes' = nodes + 1
  BY DEF Enter
<1>2. nodes \in Nat /\ MaxNodes \in Nat /\ MaxDepth \in Nat /\ Len(open) \in Nat
  BY JsonLimits DEF TypeOK, Opened
<1>3. nodes' \in Nat /\ nodes' <= MaxNodes + 1
  BY <1>1, <1>2
<1>4. heap' \in Heaps /\ walker' \in Walkers /\ Started'
  BY <1>1, <1>2 DEF TypeOK, Started
<1>5. outcome \in {"open", "leaf", "limit", "notJson"}
  BY VisitFacts
<1>6. CASE outcome = "open"
  <2>1. stack' = Append(open, [node |-> n, next |-> 1]) /\ ancestors' = ancestors \cup {n} /\ verdict' = "walking"
    BY <1>6 DEF Enter
  <2>2. n \notin ancestors /\ Len(open) <= MaxDepth /\ nodes + 1 <= MaxNodes
    BY <1>6, <1>2, VisitFacts
  <2>3. stack' \in Seq(Frame) /\ Len(stack') = Len(open) + 1 /\ Opens(stack', ancestors')
    <3> DEFINE s == Append(open, [node |-> n, next |-> 1])
    <3>1. stack' = s /\ ancestors' = ancestors \cup {n}
      BY <2>1
    <3>2. s \in Seq(Frame) /\ Len(s) = Len(open) + 1 /\ Opens(s, ancestors \cup {n})
      BY <2>2, AppendOpened
    <3> HIDE DEF s
    <3> QED BY <3>1, <3>2
  <2>4. TypeOK'
    BY <2>1, <2>3, <1>3, <1>4 DEF TypeOK, Verdicts
  <2>5. Within' /\ WorkBounded'
    BY <2>2, <2>3, <1>1, <1>2, <1>3 DEF Within, WorkBounded
  <2>6. AncestorsAreOpen'
    BY <2>3 DEF AncestorsAreOpen, Opens
  <2> QED BY <2>4, <2>5, <2>6, <1>4 DEF IInv
<1>7. CASE outcome = "leaf"
  <2>1. stack' = open /\ ancestors' = ancestors /\ verdict' \in {"accepted", "walking"}
    BY <1>7 DEF Enter
  <2>2. nodes + 1 <= MaxNodes
    BY <1>7, <1>2, VisitFacts
  <2>3. TypeOK'
    BY <2>1, <1>3, <1>4 DEF TypeOK, Verdicts, Opened
  <2>4. Within' /\ WorkBounded' /\ AncestorsAreOpen'
    BY <2>1, <2>2, <1>1, <1>2, <1>3 DEF Within, WorkBounded, AncestorsAreOpen, Opened, Opens
  <2> QED BY <2>3, <2>4, <1>4 DEF IInv
<1>8. CASE outcome \in {"limit", "notJson"}
  <2>1. stack' = stack /\ ancestors' = ancestors /\ verdict' \in {"limit", "notJson"}
    BY <1>8 DEF Enter
  <2>2. TypeOK'
    BY <2>1, <1>3, <1>4 DEF TypeOK, Verdicts
  <2>3. Within' /\ WorkBounded' /\ AncestorsAreOpen'
    BY <2>1, <1>3 DEF Within, WorkBounded, AncestorsAreOpen
  <2> QED BY <2>2, <2>3, <1>4 DEF IInv
<1> QED BY <1>5, <1>6, <1>7, <1>8

\* Moving the innermost open value on to its next property leaves the same values open.
LEMMA AdvanceOpened ==
    ASSUME IInv, stack # << >>
    PROVE  Opened([stack EXCEPT ![Len(stack)].next = @ + 1])
<1> DEFINE open == [stack EXCEPT ![Len(stack)].next = @ + 1]
<1>1. stack \in Seq(Frame) /\ Len(stack) \in Nat /\ Len(stack) > 0 /\ DOMAIN stack = 1 .. Len(stack)
  BY DEF IInv, TypeOK
<1>2. DOMAIN open = DOMAIN stack
  OBVIOUS
<1>3. \A i \in DOMAIN stack : stack[i] \in Frame
  BY <1>1
<1>4. \A i \in DOMAIN stack : open[i] \in Frame /\ open[i].node = stack[i].node
  <2>1. TAKE i \in DOMAIN stack
  <2>2. stack[i] \in Frame
    BY <1>3
  <2>3. CASE i = Len(stack)
    <3>1. open[i] = [stack[i] EXCEPT !.next = stack[i].next + 1]
      BY <2>3, <1>1
    <3> QED BY <3>1, <2>2 DEF Frame
  <2>4. CASE i # Len(stack)
    BY <2>4, <2>2, <1>1
  <2> QED BY <2>3, <2>4
<1>5. open \in Seq(Frame) /\ Len(open) = Len(stack)
  BY <1>1, <1>2, <1>4
<1>6. ancestors = {open[i].node : i \in DOMAIN open}
  BY <1>2, <1>4 DEF IInv, AncestorsAreOpen
<1>7. \A i, j \in DOMAIN open : open[i].node = open[j].node => i = j
  BY <1>2, <1>4 DEF IInv, AncestorsAreOpen
<1> QED BY <1>5, <1>6, <1>7 DEF Opened, Opens, IInv, WorkBounded

LEMMA Shorter ==
    ASSUME NEW L \in Nat, L > 0
    PROVE  /\ L \in 1 .. L
           /\ \A i \in 1 .. (L - 1) : i \in 1 .. L /\ i # L
           /\ \A i \in 1 .. L : i # L => i \in 1 .. (L - 1)
OBVIOUS

\* Leaving the innermost open value takes it, and only it, out of the ancestors.
LEMMA ReturnInv == ASSUME IInv, Return PROVE IInv'
<1> DEFINE m == Len(stack) - 1
<1>0. Len(stack) \in Nat /\ Len(stack) > 0 /\ m \in Nat /\ m + 1 = Len(stack)
  BY DEF IInv, TypeOK, Return
<1>1. stack \in Seq(Frame) /\ Len(stack) \in Nat /\ Len(stack) > 0 /\ DOMAIN stack = 1 .. Len(stack)
  BY DEF IInv, TypeOK, Return
<1>2. m \in Nat /\ stack' = SubSeq(stack, 1, m)
  BY <1>1 DEF Return
<1>3. stack' \in Seq(Frame) /\ Len(stack') = m /\ DOMAIN stack' = 1 .. m /\ \A i \in 1 .. m : stack'[i] = stack[i]
  BY <1>1, <1>2
<1>4. ancestors' = ancestors \ {stack[Len(stack)].node}
  BY DEF Return, Top
<1>5. ancestors = {stack[i].node : i \in 1 .. Len(stack)}
  BY <1>1 DEF IInv, AncestorsAreOpen
<1>6. \A i, j \in 1 .. Len(stack) : stack[i].node = stack[j].node => i = j
  BY <1>1 DEF IInv, AncestorsAreOpen
<1>7. ancestors' = {stack'[i].node : i \in 1 .. m}
  <2>1. ASSUME NEW x \in ancestors' PROVE \E i \in 1 .. m : x = stack'[i].node
    <3>1. PICK i \in 1 .. Len(stack) : x = stack[i].node
      BY <1>4, <1>5
    <3>2. i # Len(stack)
      BY <3>1, <1>4
    <3>3. i \in 1 .. m
      BY <3>1, <3>2, <1>0, Shorter
    <3> QED BY <3>1, <3>3, <1>3
  <2>2. ASSUME NEW i \in 1 .. m PROVE stack'[i].node \in ancestors'
    <3>1. i \in 1 .. Len(stack) /\ i # Len(stack) /\ Len(stack) \in 1 .. Len(stack)
      BY <1>0, Shorter
    <3>2. stack[i].node \in ancestors /\ stack[i].node # stack[Len(stack)].node
      BY <3>1, <1>5, <1>6
    <3> QED BY <3>2, <1>3, <1>4
  <2> QED BY <2>1, <2>2
<1>8. AncestorsAreOpen'
  <2>1. \A i, j \in DOMAIN stack' : stack'[i].node = stack'[j].node => i = j
    BY <1>1, <1>3, <1>6
  <2> QED BY <2>1, <1>3, <1>7 DEF AncestorsAreOpen
<1>9. heap' = heap /\ walker' = walker /\ nodes' = nodes /\ verdict' \in {"notJson", "accepted", "walking"}
  BY DEF Return
<1>10. TypeOK'
  BY <1>3, <1>4, <1>9 DEF IInv, TypeOK, Verdicts
<1>11. Within' /\ WorkBounded'
  BY <1>1, <1>3, <1>9, JsonLimits DEF IInv, Within, WorkBounded, Return
<1>12. Started'
  BY <1>9 DEF IInv, Started, Return
<1> QED BY <1>8, <1>10, <1>11, <1>12 DEF IInv

\* The next property of the innermost open value is a value of the heap.  `next` starts at 1.
LEMMA PropertyNode ==
    ASSUME IInv, stack # << >>, Top.next <= Len(heap[Top.node].kids)
    PROVE  heap[Top.node].kids[Top.next] \in Node
<1>1. Len(stack) \in DOMAIN stack /\ stack \in Seq(Frame)
  BY DEF IInv, TypeOK
<1>2. Top \in Frame
  BY <1>1 DEF Top
<1>3. Top.node \in Node /\ Top.next \in Nat \ {0}
  BY <1>2 DEF Frame
<1>4. heap \in [Node -> Value]
  BY HeapsAssumption DEF IInv, TypeOK
<1>5. heap[Top.node].kids \in Seq(Node)
  BY <1>3, <1>4 DEF Value
<1> QED BY <1>3, <1>5

LEMMA InitInv == WalkInit => IInv
<1> SUFFICES ASSUME WalkInit PROVE IInv
  OBVIOUS
<1>1. TypeOK
  BY DEF WalkInit, TypeOK, Verdicts
<1>2. Within /\ WorkBounded /\ Started
  BY JsonLimits DEF WalkInit, Within, WorkBounded, Started
<1>3. AncestorsAreOpen
  BY DEF WalkInit, AncestorsAreOpen
<1> QED BY <1>1, <1>2, <1>3 DEF IInv

LEMMA NextInv == IInv /\ [WalkNext]_walkVars => IInv'
<1> SUFFICES ASSUME IInv, [WalkNext]_walkVars PROVE IInv'
  OBVIOUS
<1>1. CASE Begin
  <2>1. verdict = "walking" /\ Enter(Root, << >>) /\ Root \in Node
    BY <1>1, JsonLimits DEF Begin
  <2>2. stack = << >>
    BY <1>1 DEF Begin, IInv, Started
  <2>3. nodes <= MaxNodes /\ Len(stack) <= MaxDepth + 1 /\ TypeOK /\ AncestorsAreOpen
    BY <2>1 DEF IInv, Within, WorkBounded
  <2>4. ancestors = {}
    BY <2>2, <2>3 DEF AncestorsAreOpen
  <2>5. Opened(<< >>)
    BY <2>4, JsonLimits DEF Opened, Opens
  <2> QED BY <2>1, <2>3, <2>5, EnterInv
<1>2. CASE Property
  <2> DEFINE open == [stack EXCEPT ![Len(stack)].next = @ + 1]
  <2>1. verdict = "walking" /\ stack # << >> /\ Top.next <= Len(heap[Top.node].kids)
    BY <1>2 DEF Property
  <2>2. CASE Accessor
    <3>1. verdict' = "notJson" /\ UNCHANGED <<heap, walker, stack, ancestors, nodes>>
      BY <1>2, <2>2 DEF Property
    <3> QED BY <3>1 DEF IInv, TypeOK, Started, Within, WorkBounded, AncestorsAreOpen, Verdicts
  <2>3. CASE ~ Accessor
    <3>1. Enter(heap[Top.node].kids[Top.next], open)
      BY <1>2, <2>3, Zenon DEF Property
    <3>2. heap[Top.node].kids[Top.next] \in Node
      BY <2>1, PropertyNode
    <3>3. Opened(open)
      BY <2>1, AdvanceOpened
    <3>4. nodes <= MaxNodes /\ Len(stack) <= MaxDepth + 1 /\ TypeOK /\ AncestorsAreOpen
      BY <2>1 DEF IInv, Within, WorkBounded
    <3> HIDE DEF open
    <3> QED BY <3>1, <3>2, <3>3, <3>4, <2>1, EnterInv
  <2> QED BY <2>2, <2>3
<1>3. CASE Return
  BY <1>3, ReturnInv
<1>4. CASE UNCHANGED walkVars
  BY <1>4 DEF walkVars, IInv, TypeOK, Started, Within, WorkBounded, AncestorsAreOpen
<1> QED BY <1>1, <1>2, <1>3, <1>4 DEF WalkNext

\* The walk's state is well formed throughout (snapshotJson, jsonValue).
THEOREM TypeCorrect == WalkSpec => []TypeOK
<1>1. IInv => TypeOK
  BY DEF IInv
<1> QED BY <1>1, InitInv, NextInv, PTL DEF WalkSpec

\* However the values of the input are shared, the walk stops one value after its limit and is
\* never deeper than its limit, for all limits and all inputs (validate.js:23).
THEOREM WalkBounded == WalkSpec => []WorkBounded
<1>1. IInv => WorkBounded
  BY DEF IInv
<1> QED BY <1>1, InitInv, NextInv, PTL DEF WalkSpec

\* For every input, the ancestors are the open values, each open once: a value is called a cycle
\* only inside itself, and a shared one never is (validate.js:54-58).
THEOREM AncestorsExact == WalkSpec => []AncestorsAreOpen
<1>1. IInv => AncestorsAreOpen
  BY DEF IInv
<1> QED BY <1>1, InitInv, NextInv, PTL DEF WalkSpec
-----------------------------------------------------------------------------
(* The verdict.  A walk has seen the places before the one it has come to  *)
(* in the order of the properties, each of them once.                      *)

Below(n) == heap[n].kids
Move == [node : Node, via : Nat]
AllWays == {w \in Seq(Move) \ {<<>>} : Leads(heap, w)}
End(w) == w[Len(w)].node

\* The way w goes as far as the i-th open value, and there through an earlier property.
Along(w, s, i) == /\ i <= Len(w) /\ w[i].node = s[i].node
                  /\ \A k \in 1..(i - 1) : w[k].node = s[k].node /\ w[k].via = s[k].next - 1
Bound(s, i) == IF i = Len(s) THEN s[i].next ELSE s[i].next - 1
Passed(w, s) == \E i \in 1..Len(s) : Along(w, s, i) /\ w[i].via < Bound(s, i)
Seen(s) == {w \in AllWays : Passed(w, s)}

\* The open values lead from the root down, each through the property before its next one.
Chain(s) ==
    s # <<>> =>
        /\ s[1].node = Root
        /\ \A i \in 1..(Len(s) - 1) : /\ s[i].next - 1 \in DOMAIN Below(s[i].node)
                                     /\ s[i + 1].node = Below(s[i].node)[s[i].next - 1]

\* What has been established of an open value so far.
Entered(f) ==
    LET v == heap[f.node]
    IN  /\ v.kind \in {"object", "array"} /\ (v.kind = "array" => Len(v.kids) <= MaxArray)
        /\ f.next <= Len(v.kids) + 1
        /\ v.accessor = 0 \/ v.accessor >= f.next
        /\ walker = "snapshotJson" => Plain(v)

Counted == IsFiniteSet(Seen(stack)) /\ Cardinality(Seen(stack)) = nodes
Judged == \A w \in Seen(stack) :
              /\ Len(w) <= MaxDepth + 1
              /\ End(w) \in ancestors \/ Plain(heap[End(w)])
Exact == verdict = "walking" =>
             Chain(stack) /\ (\A i \in DOMAIN stack : Entered(stack[i])) /\ Counted /\ Judged

LEMMA ValueFacts ==
    ASSUME TypeOK, NEW n \in Node
    PROVE  /\ heap[n] \in Value /\ Below(n) \in Seq(Node)
           /\ Len(Below(n)) \in Nat /\ DOMAIN Below(n) = 1..Len(Below(n))
<1>1. heap[n] \in Value
  BY HeapsAssumption DEF TypeOK
<1>2. heap[n].kids \in Seq(Node)
  BY <1>1 DEF Value
<1> QED BY <1>1, <1>2 DEF Below

LEMMA WayFacts ==
    ASSUME NEW w \in AllWays
    PROVE  /\ w \in Seq(Move) /\ Len(w) \in Nat /\ Len(w) > 0 /\ DOMAIN w = 1..Len(w)
           /\ w[1].node = Root /\ w[Len(w)].via = 0
           /\ \A i \in 1..Len(w) : w[i] \in Move /\ w[i].node \in Node /\ w[i].via \in Nat
           /\ \A i \in 1..(Len(w) - 1) : /\ w[i].via \in DOMAIN Below(w[i].node)
                                         /\ w[i + 1].node = Below(w[i].node)[w[i].via]
<1>1. w \in Seq(Move) /\ w # <<>> /\ Leads(heap, w)
  BY DEF AllWays
<1>2. Len(w) \in Nat /\ Len(w) > 0 /\ DOMAIN w = 1..Len(w) /\ \A i \in 1..Len(w) : w[i] \in Move
  BY <1>1
<1>3. \A m \in Move : m.node \in Node /\ m.via \in Nat
  BY DEF Move
<1> QED BY <1>1, <1>2, <1>3 DEF Leads, Below

\* A way is at its end exactly where it goes through no property.
LEMMA WayEnds ==
    ASSUME TypeOK, NEW w \in AllWays, NEW i \in 1..Len(w)
    PROVE  /\ w[i].via \in 0..Len(Below(w[i].node))
           /\ w[i].via = 0 <=> i = Len(w)
<1>1. CASE i = Len(w)
  BY <1>1, WayFacts, ValueFacts
<1>2. CASE i # Len(w)
  <2>1. i \in 1..(Len(w) - 1)
    BY <1>2, WayFacts
  <2>2. w[i].via \in 1..Len(Below(w[i].node))
    BY <2>1, WayFacts, ValueFacts
  <2> QED BY <1>2, <2>2, WayFacts, ValueFacts
<1> QED BY <1>1, <1>2

LEMMA MoveType == ASSUME NEW n \in Node, NEW i \in Nat PROVE [node |-> n, via |-> i] \in Move
BY DEF Move

LEMMA SameMove == ASSUME NEW a \in Move, NEW b \in Move, a.node = b.node, a.via = b.via PROVE a = b
BY DEF Move

LEMMA SameWay ==
    ASSUME NEW v \in AllWays, NEW w \in AllWays, Len(v) = Len(w),
           \A k \in 1..Len(v) : v[k].node = w[k].node /\ v[k].via = w[k].via
    PROVE  v = w
<1>1. \A k \in 1..Len(v) : v[k] = w[k]
  BY WayFacts, SameMove
<1> QED BY <1>1, WayFacts

\* What makes a sequence of moves a way.
LEMMA IsWay ==
    ASSUME NEW m \in Nat, m > 0, NEW w \in [1..m -> Move], w[1].node = Root, w[m].via = 0,
           \A i \in 1..(m - 1) : /\ w[i].via \in DOMAIN Below(w[i].node)
                                 /\ w[i + 1].node = Below(w[i].node)[w[i].via]
    PROVE  w \in AllWays /\ Len(w) = m
<1>1. w \in Seq(Move) /\ Len(w) = m /\ w # <<>>
  OBVIOUS
<1> QED BY <1>1 DEF AllWays, Leads, Below

\* A way goes on through any property of the value it has come to.
Longer(w, i) ==
    [k \in 1..(Len(w) + 1) |->
        IF k < Len(w) THEN w[k]
        ELSE IF k = Len(w) THEN [node |-> End(w), via |-> i]
        ELSE [node |-> Below(End(w))[i], via |-> 0]]

LEMMA LongerFacts ==
    ASSUME TypeOK, NEW w \in AllWays, NEW i \in DOMAIN Below(End(w)), NEW x, x = Longer(w, i)
    PROVE  /\ x \in AllWays /\ Len(x) = Len(w) + 1 /\ End(x) = Below(End(w))[i]
           /\ \A k \in 1..(Len(w) - 1) : x[k] = w[k]
           /\ x[Len(w)].node = End(w) /\ x[Len(w)].via = i
<1> DEFINE m == Len(w)
           a == [node |-> End(w), via |-> i]
           b == [node |-> Below(End(w))[i], via |-> 0]
<1>1. m \in Nat /\ m > 0 /\ End(w) \in Node
  BY WayFacts DEF End
<1>2. i \in Nat /\ Below(End(w))[i] \in Node
  BY <1>1, ValueFacts
<1>3. a \in Move /\ b \in Move /\ a.node = End(w) /\ a.via = i /\ b.node = Below(End(w))[i] /\ b.via = 0
  BY <1>1, <1>2, MoveType
<1>4. \A k \in 1..m : w[k] \in Move
  BY WayFacts
<1>5. x = [k \in 1..(m + 1) |-> IF k < m THEN w[k] ELSE IF k = m THEN a ELSE b]
  BY DEF Longer
<1> HIDE DEF a, b
<1>6. /\ x \in [1..(m + 1) -> Move] /\ x[m] = a /\ x[m + 1] = b
      /\ \A k \in 1..(m - 1) : x[k] = w[k]
  BY <1>1, <1>3, <1>4, <1>5
<1>7. x[1].node = Root
  <2>1. CASE m = 1
    <3>1. End(w) = w[1].node /\ x[1] = a
      BY <2>1, <1>6 DEF End
    <3>2. w[1].node = Root
      BY WayFacts
    <3>3. a.node = End(w)
      BY <1>3
    <3> QED BY <3>1, <3>2, <3>3
  <2>2. CASE m # 1
    <3>1. 1 \in 1..(m - 1)
      <4> HIDE DEF m
      <4> QED BY <2>2, <1>1
    <3>2. x[1] = w[1] /\ w[1].node = Root
      BY <3>1, <1>6, WayFacts
    <3> QED BY <3>2
  <2> QED BY <2>1, <2>2
<1>8. ASSUME NEW k \in 1..m
      PROVE  x[k].via \in DOMAIN Below(x[k].node) /\ x[k + 1].node = Below(x[k].node)[x[k].via]
  <2>1. CASE k = m
    BY <2>1, <1>3, <1>6
  <2>2. CASE k = m - 1
    <3>1. k \in 1..(m - 1) /\ k + 1 = m /\ x[k] = w[k] /\ x[k + 1] = a
      BY <2>2, <1>1, <1>6
    <3> QED BY <3>1, <1>3, WayFacts DEF End
  <2>3. CASE k < m - 1
    <3>1. k \in 1..(m - 1) /\ k + 1 \in 1..(m - 1)
      BY <2>3, <1>1
    <3> QED BY <3>1, <1>6, WayFacts
  <2> QED BY <2>1, <2>2, <2>3, <1>1
<1>9. x \in AllWays /\ Len(x) = m + 1
  <2>1. m + 1 \in Nat /\ m + 1 > 0 /\ (m + 1) - 1 = m
    BY <1>1
  <2> QED BY <2>1, <1>3, <1>6, <1>7, <1>8, IsWay
<1> QED BY <1>3, <1>6, <1>9 DEF End

\* A way can end at any value it goes through.
Cut(w, d) == [k \in 1..d |-> IF k = d THEN [node |-> w[d].node, via |-> 0] ELSE w[k]]

LEMMA CutFacts ==
    ASSUME NEW w \in AllWays, NEW d \in 1..Len(w), NEW x, x = Cut(w, d)
    PROVE  x \in AllWays /\ Len(x) = d /\ End(x) = w[d].node
<1> DEFINE b == [node |-> w[d].node, via |-> 0]
<1>1. Len(w) \in Nat /\ d \in Nat /\ d > 0
  BY WayFacts
<1>2. b \in Move /\ b.node = w[d].node /\ b.via = 0
  BY WayFacts, MoveType
<1>3. x = [k \in 1..d |-> IF k = d THEN b ELSE w[k]]
  BY DEF Cut
<1> HIDE DEF b
<1>4. x \in [1..d -> Move] /\ x[d] = b /\ \A k \in 1..(d - 1) : x[k] = w[k]
  BY <1>1, <1>2, <1>3, WayFacts
<1>5. \A k \in 1..d : x[k].node = w[k].node
  BY <1>1, <1>2, <1>4
<1>6. \A k \in 1..(d - 1) : k \in 1..(Len(w) - 1) /\ k + 1 \in 1..d /\ k \in 1..d
  BY <1>1
<1>7. x[1].node = Root
  BY <1>1, <1>5, WayFacts
<1>8. ASSUME NEW k \in 1..(d - 1)
      PROVE  x[k].via \in DOMAIN Below(x[k].node) /\ x[k + 1].node = Below(x[k].node)[x[k].via]
  BY <1>4, <1>5, <1>6, WayFacts
<1> QED BY <1>1, <1>2, <1>4, <1>7, <1>8, IsWay DEF End

LEMMA LastType == ASSUME NEW w \in AllWays PROVE End(w) \in Node
BY WayFacts DEF End

LEMMA WaysAre == ASSUME TypeOK PROVE Ways(heap) = {w \in AllWays : Len(w) <= MaxDepth + 1}
<1>1. ASSUME NEW w \in Ways(heap) PROVE w \in AllWays /\ Len(w) <= MaxDepth + 1
  <2>1. Moves(heap) \subseteq Move
    <3>1. ASSUME NEW n \in Node PROVE [node : {n}, via : 0..Len(heap[n].kids)] \subseteq Move
      BY DEF Move
    <3> QED BY <3>1 DEF Moves
  <2>2. PICK m \in 0..(MaxDepth + 1) : w \in [1..m -> Moves(heap)]
    BY DEF Ways, SeqOf
  <2>3. w # <<>> /\ Leads(heap, w) /\ m \in Nat
    BY <2>2 DEF Ways
  <2>4. w \in Seq(Move) /\ Len(w) = m
    BY <2>1, <2>2, <2>3
  <2> QED BY <2>2, <2>3, <2>4 DEF AllWays
<1>2. ASSUME NEW w \in AllWays, Len(w) <= MaxDepth + 1 PROVE w \in Ways(heap)
  <2>1. ASSUME NEW i \in 1..Len(w) PROVE w[i] \in Moves(heap)
    <3> DEFINE n == w[i].node
    <3>1. n \in Node /\ w[i] \in Move /\ w[i].via \in 0..Len(heap[n].kids)
      BY WayFacts, WayEnds DEF Below
    <3>2. w[i] \in [node : {n}, via : 0..Len(heap[n].kids)]
      BY <3>1 DEF Move
    <3> QED BY <3>1, <3>2 DEF Moves
  <2>2. w \in [1..Len(w) -> Moves(heap)] /\ Len(w) \in 0..(MaxDepth + 1)
    BY <1>2, <2>1, WayFacts, JsonLimits
  <2> QED BY <2>2 DEF Ways, SeqOf, AllWays
<1> QED BY <1>1, <1>2

\* No way of a tree that fits is longer than the limit, or comes to a value that is not plain.
LEMMA FitFacts ==
    ASSUME TypeOK, Fits(heap), NEW w \in AllWays
    PROVE  Len(w) <= MaxDepth + 1 /\ Plain(heap[End(w)])
<1> DEFINE D == MaxDepth + 1
<1>1. \A x \in AllWays : Len(x) <= D =>
          Plain(heap[End(x)]) /\ (Len(x) = D => Below(End(x)) = <<>>)
  BY WaysAre DEF Fits, End, Below
<1>2. D \in Nat /\ D > 0 /\ Len(w) \in Nat
  BY JsonLimits, WayFacts
<1>3. ASSUME Len(w) > D PROVE FALSE
  <2>1. D \in 1..Len(w) /\ D \in 1..(Len(w) - 1)
    BY <1>2, <1>3
  <2>2. PICK x \in AllWays : Len(x) = D /\ End(x) = w[D].node
    BY <2>1, CutFacts
  <2>3. Below(w[D].node) = <<>>
    BY <1>1, <1>2, <2>2
  <2>4. w[D].via \in DOMAIN Below(w[D].node)
    BY <2>1, WayFacts
  <2> QED BY <2>3, <2>4
<1> QED BY <1>1, <1>2, <1>3

\* Among numbers up to a bound there is a largest.
LEMMA Largest ==
    ASSUME NEW n \in Nat, NEW S \in SUBSET (0..n), S # {}
    PROVE  \E k \in S : \A j \in S : j <= k
<1> DEFINE T == {n - k : k \in S}
<1>1. \A k \in S : k \in Int /\ k <= n /\ n - k \in Nat
  <2>1. \A k \in 0..n : k \in Int /\ k <= n /\ n - k \in Nat
    OBVIOUS
  <2> QED BY <2>1
<1>2. T \subseteq Nat /\ T # {}
  BY <1>1
<1>3. PICK x \in T : \A y \in T : ~ (<<y, x>> \in OpToRel(<, Nat))
  BY <1>2, NatLessThanWellFounded, WFMin
<1>4. \A y \in T : ~ (y < x)
  BY <1>2, <1>3 DEF OpToRel
<1>5. PICK k \in S : x = n - k
  OBVIOUS
<1>6. ASSUME NEW j \in S PROVE j <= k
  <2>1. ~ (n - j < n - k)
    BY <1>4, <1>5
  <2> QED BY <2>1, <1>1
<1> QED BY <1>6

LEMMA StackFacts ==
    ASSUME TypeOK, stack # <<>>
    PROVE  /\ Len(stack) \in Nat /\ Len(stack) > 0 /\ DOMAIN stack = 1..Len(stack)
           /\ Top = stack[Len(stack)]
           /\ \A i \in 1..Len(stack) : /\ stack[i] \in Frame /\ stack[i].node \in Node
                                       /\ stack[i].next \in Nat /\ stack[i].next > 0
                                       /\ stack[i].next - 1 \in Nat
<1>1. stack \in Seq(Frame)
  BY DEF TypeOK
<1>2. \A f \in Frame : f.node \in Node /\ f.next \in Nat /\ f.next > 0 /\ f.next - 1 \in Nat
  BY DEF Frame
<1> QED BY <1>1, <1>2 DEF Top

\* Every open value has its place.
Place(i) ==
    [k \in 1..i |-> [node |-> stack[k].node, via |-> IF k = i THEN 0 ELSE stack[k].next - 1]]

LEMMA PlaceFacts ==
    ASSUME TypeOK, stack # <<>>, Chain(stack), NEW i \in 1..Len(stack), NEW x, x = Place(i)
    PROVE  /\ x \in AllWays /\ Len(x) = i /\ End(x) = stack[i].node
           /\ \A k \in 1..i : x[k].node = stack[k].node
           /\ \A k \in 1..(i - 1) : x[k].via = stack[k].next - 1
<1>1. i \in Nat /\ i > 0 /\ \A k \in 1..i : k \in 1..Len(stack)
  BY StackFacts
<1>2. ASSUME NEW k \in 1..i
      PROVE  /\ x[k] \in Move /\ x[k].node = stack[k].node
             /\ k = i => x[k].via = 0
             /\ k # i => x[k].via = stack[k].next - 1
  <2> DEFINE v == IF k = i THEN 0 ELSE stack[k].next - 1
  <2>1. v \in Nat /\ stack[k].node \in Node
    BY <1>1, StackFacts
  <2>2. x[k] = [node |-> stack[k].node, via |-> v]
    BY DEF Place
  <2>3. (k = i => v = 0) /\ (k # i => v = stack[k].next - 1)
    OBVIOUS
  <2> HIDE DEF v
  <2>4. x[k] \in Move /\ x[k].node = stack[k].node /\ x[k].via = v
    BY <2>1, <2>2, MoveType
  <2> QED BY <2>3, <2>4
<1>3. x \in [1..i -> Move]
  <2>1. DOMAIN x = 1..i /\ x = [k \in 1..i |-> x[k]]
    BY DEF Place
  <2> QED BY <2>1, <1>2
<1>4. x[1].node = Root /\ x[i].via = 0
  BY <1>1, <1>2 DEF Chain
<1>5. ASSUME NEW k \in 1..(i - 1)
      PROVE  x[k].via \in DOMAIN Below(x[k].node) /\ x[k + 1].node = Below(x[k].node)[x[k].via]
  <2>1. k \in 1..i /\ k + 1 \in 1..i /\ k # i /\ k \in 1..(Len(stack) - 1)
    BY <1>1, StackFacts
  <2> QED BY <2>1, <1>2 DEF Chain
<1>6. x \in AllWays /\ Len(x) = i
  BY <1>1, <1>3, <1>4, <1>5, IsWay
<1>7. \A k \in 1..(i - 1) : k \in 1..i /\ k # i
  BY <1>1
<1> QED BY <1>1, <1>2, <1>6, <1>7 DEF End

\* A value that contains itself unfolds for ever: the longest way to one of the values of the
\* cycle would go on to the next.
LEMMA CycleDoesNotFit ==
    ASSUME TypeOK, stack # <<>>, Chain(stack), Top.next \in DOMAIN Below(Top.node),
           NEW j \in 1..Len(stack), Below(Top.node)[Top.next] = stack[j].node
    PROVE  ~ Fits(heap)
<1> SUFFICES ASSUME Fits(heap) PROVE FALSE
  OBVIOUS
<1> DEFINE L == Len(stack)
           C == {stack[k].node : k \in j..L}
           Sizes == {Len(w) : w \in {v \in AllWays : End(v) \in C}}
<1>1. L \in Nat /\ L > 0 /\ j \in Nat /\ j > 0 /\ j <= L /\ Top = stack[L]
  BY StackFacts
<1>2. \A w \in AllWays : Len(w) \in 0..(MaxDepth + 1)
  BY FitFacts, WayFacts, JsonLimits
<1>3. PICK p \in AllWays : End(p) = stack[j].node
  BY PlaceFacts
<1>4. stack[j].node \in C
  BY <1>1
<1>5. Sizes # {} /\ Sizes \in SUBSET (0..(MaxDepth + 1)) /\ MaxDepth + 1 \in Nat
  <2> HIDE DEF C
  <2>1. Len(p) \in Sizes
    BY <1>3, <1>4
  <2>2. \A s \in Sizes : s \in 0..(MaxDepth + 1)
    BY <1>2
  <2> QED BY <2>1, <2>2, JsonLimits
<1>6. PICK m \in Sizes : \A s \in Sizes : s <= m
  BY <1>5, Largest
<1>7. PICK w \in AllWays : End(w) \in C /\ Len(w) = m
  BY <1>6
<1>8. PICK k \in j..L : End(w) = stack[k].node
  BY <1>7
<1>9. \E i \in DOMAIN Below(End(w)) : Below(End(w))[i] \in C
  <2>1. CASE k = L
    BY <2>1, <1>1, <1>4, <1>8
  <2>2. CASE k # L
    <3>1. k \in 1..(L - 1) /\ k + 1 \in j..L
      BY <2>2, <1>1
    <3>2. stack[k + 1].node \in C
      BY <3>1
    <3> HIDE DEF C
    <3> QED BY <3>1, <3>2, <1>8 DEF Chain
  <2> QED BY <2>1, <2>2
<1> HIDE DEF C
<1>10. PICK i \in DOMAIN Below(End(w)) : Below(End(w))[i] \in C
  BY <1>9
<1>11. PICK x \in AllWays : Len(x) = m + 1 /\ End(x) \in C
  BY <1>7, <1>10, LongerFacts
<1>12. m + 1 \in Sizes
  BY <1>11
<1>13. m \in Nat
  BY <1>7, WayFacts
<1> QED BY <1>6, <1>12, <1>13

\* A way through the next property goes on, to the next value.
LEMMA GoesOn ==
    ASSUME TypeOK, stack # <<>>, NEW L, L = Len(stack), Top.next > 0,
           NEW w \in AllWays, Along(w, stack, L), w[L].via = Top.next
    PROVE  L + 1 \in 1..Len(w) /\ w[L + 1].node = Below(Top.node)[Top.next]
<1>1. L \in Nat /\ L > 0 /\ Top = stack[L] /\ Top.next \in Nat
  BY StackFacts
<1>2. L \in 1..Len(w) /\ w[L].node = Top.node /\ Len(w) \in Nat
  BY <1>1, WayFacts DEF Along
<1>3. L # Len(w)
  BY <1>1, <1>2, WayEnds
<1>4. L \in 1..(Len(w) - 1)
  BY <1>2, <1>3
<1>5. w[L + 1].node = Below(w[L].node)[w[L].via]
  BY <1>4, WayFacts
<1> QED BY <1>2, <1>4, <1>5

NextWay == Longer(Place(Len(stack)), Top.next)

\* The place of the next value: the only way that goes through the next property and ends there.
LEMMA NewWay ==
    ASSUME TypeOK, stack # <<>>, Chain(stack), Top.next \in DOMAIN Below(Top.node),
           NEW L, L = Len(stack), NEW x, x = NextWay
    PROVE  /\ x \in AllWays /\ x \notin Seen(stack)
           /\ Len(x) = L + 1 /\ End(x) = Below(Top.node)[Top.next]
           /\ \A w \in AllWays :
                 w = x <=> Along(w, stack, L) /\ w[L].via = Top.next /\ w[L + 1].via = 0
<1> DEFINE n == Below(Top.node)[Top.next]
<1>1. /\ L \in Nat /\ L > 0 /\ Top = stack[L] /\ Top.next \in Nat /\ Top.next > 0
      /\ \A k \in 1..L : stack[k].next \in Nat /\ stack[k].next - 1 \in Nat
  BY StackFacts
<1>2. ASSUME NEW w \in AllWays, Along(w, stack, L), w[L].via = Top.next
      PROVE  L + 1 \in 1..Len(w) /\ w[L + 1].node = n
  BY <1>1, <1>2, GoesOn
<1> DEFINE p == Place(L)
<1>3. /\ p \in AllWays /\ Len(p) = L /\ End(p) = Top.node
      /\ \A k \in 1..L : p[k].node = stack[k].node
      /\ \A k \in 1..(L - 1) : p[k].via = stack[k].next - 1
  <2>1. L \in 1..Len(stack)
    BY <1>1
  <2> QED BY <2>1, <1>1, PlaceFacts
<1>4. /\ x \in AllWays /\ Len(x) = L + 1 /\ End(x) = n
      /\ \A k \in 1..(L - 1) : x[k] = p[k]
      /\ x[L].node = Top.node /\ x[L].via = Top.next
  <2>1. x = Longer(p, Top.next)
    BY DEF NextWay
  <2> HIDE DEF p
  <2> QED BY <2>1, <1>3, LongerFacts
<1> HIDE DEF p
<1>5. x[L + 1].node = n /\ x[L + 1].via = 0
  <2>1. x[Len(x)].via = 0
    BY <1>4, WayFacts
  <2> QED BY <2>1, <1>4 DEF End
<1>6. /\ \A k \in 1..(L - 1) : x[k].node = stack[k].node /\ x[k].via = stack[k].next - 1
      /\ x[L].node = stack[L].node
  <2>1. \A k \in 1..(L - 1) : k \in 1..L
    BY <1>1
  <2> QED BY <2>1, <1>1, <1>3, <1>4
<1>7. Along(x, stack, L)
  BY <1>1, <1>4, <1>6 DEF Along
<1>8. x \notin Seen(stack)
  <2> SUFFICES ASSUME NEW i \in 1..L, x[i].via < Bound(stack, i) PROVE FALSE
    BY DEF Seen, Passed
  <2>1. CASE i = L
    <3>1. Bound(stack, i) = Top.next
      BY <2>1, <1>1 DEF Bound
    <3>2. x[i].via = Top.next
      BY <2>1, <1>4
    <3> QED BY <3>1, <3>2, <1>1
  <2>2. CASE i # L
    <3>1. i \in 1..(L - 1)
      BY <2>2, <1>1
    <3>2. i # Len(stack)
      BY <2>2
    <3>3. Bound(stack, i) = stack[i].next - 1 /\ x[i].via = stack[i].next - 1
      BY <3>1, <3>2, <1>6 DEF Bound
    <3>4. stack[i].next - 1 \in Nat
      BY <1>1
    <3> QED BY <3>3, <3>4
  <2> QED BY <2>1, <2>2
<1>9. ASSUME NEW w \in AllWays, Along(w, stack, L), w[L].via = Top.next, w[L + 1].via = 0
      PROVE  w = x
  <2>1. L + 1 \in 1..Len(w) /\ w[L + 1].node = n
    BY <1>2, <1>9
  <2>2. Len(w) = L + 1
    BY <2>1, <1>9, WayEnds
  <2>3. ASSUME NEW k \in 1..Len(w) PROVE w[k].node = x[k].node /\ w[k].via = x[k].via
    <3>1. CASE k = L + 1
      BY <3>1, <2>1, <1>5, <1>9
    <3>2. CASE k = L
      BY <3>2, <1>1, <1>4, <1>9 DEF Along
    <3>3. CASE k # L /\ k # L + 1
      <4>1. k \in 1..(L - 1)
        BY <3>3, <2>2, <1>1
      <4> QED BY <4>1, <1>6, <1>9 DEF Along
    <3> QED BY <3>1, <3>2, <3>3
  <2> QED BY <2>2, <2>3, <1>4, SameWay
<1> QED BY <1>2, <1>4, <1>5, <1>7, <1>8, <1>9

\* Going into the next value adds its place to what has been seen, and nothing else.
LEMMA SeenDeeper ==
    ASSUME TypeOK, stack # <<>>, Chain(stack), Top.next \in DOMAIN Below(Top.node),
           NEW x, x = NextWay, NEW L, L = Len(stack), NEW s, Len(s) = L + 1,
           \A k \in 1..L : s[k].node = stack[k].node,
           \A k \in 1..(L - 1) : s[k].next = stack[k].next,
           s[L].next = Top.next + 1,
           s[L + 1].node = Below(Top.node)[Top.next], s[L + 1].next = 1
    PROVE  Seen(s) = Seen(stack) \cup {x}
<1> DEFINE Through(w) == Along(w, stack, L) /\ w[L].via = Top.next
<1>1. /\ L \in Nat /\ L > 0 /\ Top = stack[L] /\ Top.next \in Nat /\ Top.next > 0
      /\ \A k \in 1..(L - 1) : k \in 1..L /\ stack[k].next \in Nat
  <2>1. L \in Nat /\ L > 0 /\ Top = stack[L] /\ Top.next \in Nat /\ Top.next > 0
    BY StackFacts
  <2>2. \A k \in 1..(L - 1) : k \in 1..L
    BY <2>1
  <2> QED BY <2>1, <2>2, StackFacts
<1>2. ASSUME NEW w \in AllWays, NEW i \in 1..L PROVE Along(w, s, i) <=> Along(w, stack, i)
  <2>1. \A k \in 1..(i - 1) : k \in 1..(L - 1) /\ k \in 1..L
    BY <1>1
  <2> QED BY <2>1 DEF Along
<1>3. \A i \in 1..L : Bound(s, i) = Bound(stack, i)
  <2> TAKE i \in 1..L
  <2>1. CASE i = L
    <3>1. Bound(stack, i) = Top.next
      BY <2>1, <1>1 DEF Bound
    <3>2. Bound(s, i) = s[L].next - 1
      BY <2>1, <1>1 DEF Bound
    <3>3. s[L].next - 1 = Top.next
      BY <1>1
    <3> QED BY <3>1, <3>2, <3>3
  <2>2. CASE i # L
    <3>1. i \in 1..(L - 1) /\ i # L + 1
      BY <2>2, <1>1
    <3>2. Bound(s, i) = s[i].next - 1 /\ Bound(stack, i) = stack[i].next - 1
      BY <3>1, <2>2 DEF Bound
    <3>3. s[i].next = stack[i].next
      BY <3>1
    <3> QED BY <3>2, <3>3
  <2> QED BY <2>1, <2>2
<1>4. Bound(s, L + 1) = 1
  BY DEF Bound
<1>5. ASSUME NEW w \in AllWays
      PROVE  Along(w, s, L + 1) /\ w[L + 1].via < 1 <=> Through(w) /\ w[L + 1].via = 0
  <2>1. \A k \in 1..L : k = L \/ k \in 1..(L - 1)
    BY <1>1
  <2>2. (L + 1) - 1 = L
    BY <1>1
  <2>3. ASSUME Along(w, s, L + 1), w[L + 1].via < 1
        PROVE  Through(w) /\ w[L + 1].via = 0
    <3>1. L + 1 \in 1..Len(w) /\ Len(w) \in Nat
      BY <2>3, <1>1, WayFacts DEF Along
    <3>2. w[L + 1].via \in Nat
      BY <3>1, WayFacts
    <3>3. \A k \in 1..L : w[k].node = s[k].node /\ w[k].via = s[k].next - 1
      BY <2>2, <2>3 DEF Along
    <3>4. w[L].node = stack[L].node /\ w[L].via = Top.next
      <4>1. L \in 1..L
        BY <1>1
      <4>2. w[L].node = s[L].node /\ w[L].via = s[L].next - 1
        BY <3>3, <4>1
      <4>3. s[L].next - 1 = Top.next
        BY <1>1
      <4> QED BY <4>1, <4>2, <4>3
    <3>5. \A k \in 1..(L - 1) : w[k].node = stack[k].node /\ w[k].via = stack[k].next - 1
      BY <3>3, <1>1
    <3> QED BY <3>1, <3>2, <3>4, <3>5, <2>3, <1>1 DEF Along
  <2>4. ASSUME Through(w), w[L + 1].via = 0
        PROVE  Along(w, s, L + 1) /\ w[L + 1].via < 1
    <3>1. L + 1 \in 1..Len(w) /\ w[L + 1].node = s[L + 1].node /\ Len(w) \in Nat
      BY <2>4, <1>1, GoesOn, WayFacts
    <3>2. w[L].node = s[L].node /\ w[L].via = s[L].next - 1
      BY <2>4, <1>1 DEF Along
    <3>3. \A k \in 1..(L - 1) : w[k].node = s[k].node /\ w[k].via = s[k].next - 1
      BY <2>4, <1>1 DEF Along
    <3>4. \A k \in 1..L : w[k].node = s[k].node /\ w[k].via = s[k].next - 1
      BY <3>2, <3>3, <2>1
    <3> QED BY <3>1, <3>4, <2>2, <2>4 DEF Along
  <2> QED BY <2>3, <2>4
<1>6. ASSUME NEW w \in AllWays
      PROVE  Passed(w, s) <=> Passed(w, stack) \/ (Through(w) /\ w[L + 1].via = 0)
  <2>1. \A i : i \in 1..(L + 1) <=> i \in 1..L \/ i = L + 1
    BY <1>1
  <2> HIDE DEF Through
  <2>2. Passed(w, s) <=> \/ \E i \in 1..L : Along(w, s, i) /\ w[i].via < Bound(s, i)
                         \/ Along(w, s, L + 1) /\ w[L + 1].via < Bound(s, L + 1)
    BY <2>1 DEF Passed
  <2>3. Passed(w, stack) <=> \E i \in 1..L : Along(w, s, i) /\ w[i].via < Bound(s, i)
    BY <1>2, <1>3 DEF Passed
  <2> QED BY <2>2, <2>3, <1>4, <1>5
<1>7. /\ x \in AllWays
      /\ \A w \in AllWays :
            w = x <=> Along(w, stack, L) /\ w[L].via = Top.next /\ w[L + 1].via = 0
  BY NewWay
<1>8. \A w \in AllWays : Passed(w, s) <=> Passed(w, stack) \/ w = x
  BY <1>6, <1>7
<1> QED BY <1>7, <1>8 DEF Seen

\* Passing a leaf adds its place to what has been seen, and nothing else.
LEMMA SeenLeaf ==
    ASSUME TypeOK, stack # <<>>, Chain(stack), Top.next \in DOMAIN Below(Top.node),
           Below(Below(Top.node)[Top.next]) = <<>>,
           NEW x, x = NextWay, NEW L, L = Len(stack), NEW s, Len(s) = L,
           \A k \in 1..L : s[k].node = stack[k].node,
           \A k \in 1..(L - 1) : s[k].next = stack[k].next,
           s[L].next = Top.next + 1
    PROVE  Seen(s) = Seen(stack) \cup {x}
<1> DEFINE Through(w) == Along(w, stack, L) /\ w[L].via = Top.next
<1>1. /\ L \in Nat /\ L > 0 /\ Top = stack[L] /\ Top.next \in Nat /\ Top.next > 0
      /\ \A k \in 1..(L - 1) : k \in 1..L /\ stack[k].next \in Nat
  <2>1. L \in Nat /\ L > 0 /\ Top = stack[L] /\ Top.next \in Nat /\ Top.next > 0
    BY StackFacts
  <2>2. \A k \in 1..(L - 1) : k \in 1..L
    BY <2>1
  <2> QED BY <2>1, <2>2, StackFacts
<1>2. ASSUME NEW w \in AllWays, NEW i \in 1..L PROVE Along(w, s, i) <=> Along(w, stack, i)
  <2>1. \A k \in 1..(i - 1) : k \in 1..(L - 1) /\ k \in 1..L
    BY <1>1
  <2> QED BY <2>1 DEF Along
<1>3. \A i \in 1..(L - 1) : i \in 1..L /\ i # L /\ Bound(s, i) = Bound(stack, i)
  BY <1>1 DEF Bound
<1>4. Bound(s, L) = Top.next + 1 /\ Bound(stack, L) = Top.next
  BY <1>1 DEF Bound
<1>5. ASSUME NEW w \in AllWays, Along(w, stack, L)
      PROVE  w[L].via < Top.next + 1 <=> w[L].via < Top.next \/ w[L].via = Top.next
  <2>1. L \in 1..Len(w)
    BY <1>1, <1>5, WayFacts DEF Along
  <2>2. w[L].via \in Nat
    BY <2>1, WayFacts
  <2> QED BY <2>2, <1>1
<1>6. ASSUME NEW w \in AllWays PROVE Passed(w, s) <=> Passed(w, stack) \/ Through(w)
  <2>1. \A i : i \in 1..L <=> i \in 1..(L - 1) \/ i = L
    BY <1>1
  <2>2. Passed(w, s) <=> \/ \E i \in 1..(L - 1) : Along(w, stack, i) /\ w[i].via < Bound(stack, i)
                         \/ Along(w, stack, L) /\ w[L].via < Top.next + 1
    BY <2>1, <1>2, <1>3, <1>4 DEF Passed
  <2>3. Passed(w, stack) <=> \/ \E i \in 1..(L - 1) : Along(w, stack, i) /\ w[i].via < Bound(stack, i)
                             \/ Along(w, stack, L) /\ w[L].via < Top.next
    BY <2>1, <1>4 DEF Passed
  <2> QED BY <2>2, <2>3, <1>5
<1>7. ASSUME NEW w \in AllWays, Through(w) PROVE w[L + 1].via = 0
  <2>1. L + 1 \in 1..Len(w) /\ w[L + 1].node = Below(Top.node)[Top.next]
    BY <1>7, <1>1, GoesOn
  <2>2. Len(Below(w[L + 1].node)) = 0
    BY <2>1
  <2>3. w[L + 1].via \in 0..Len(Below(w[L + 1].node))
    BY <2>1, WayEnds
  <2> QED BY <2>2, <2>3
<1>8. /\ x \in AllWays
      /\ \A w \in AllWays :
            w = x <=> Along(w, stack, L) /\ w[L].via = Top.next /\ w[L + 1].via = 0
  BY NewWay
<1>9. \A w \in AllWays : Passed(w, s) <=> Passed(w, stack) \/ w = x
  BY <1>6, <1>7, <1>8
<1> QED BY <1>8, <1>9 DEF Seen

\* Leaving a value adds nothing: all ways that go on from it have been seen.
LEMMA SeenReturn ==
    ASSUME TypeOK, Chain(stack), NEW L, L = Len(stack), L > 1, Top.next > Len(Below(Top.node)),
           NEW s, Len(s) = L - 1, \A k \in 1..(L - 1) : s[k] = stack[k]
    PROVE  Seen(s) = Seen(stack)
<1>0. stack # <<>>
  OBVIOUS
<1>1. /\ L \in Nat /\ L - 1 \in Nat /\ Top = stack[L] /\ Top.next \in Nat /\ Top.node \in Node
      /\ L - 1 \in 1..L /\ (L - 1) + 1 = L /\ L - 1 \in 1..(L - 1)
      /\ \A k \in 1..L : stack[k].next \in Nat
  BY <1>0, StackFacts
<1> DEFINE M == L - 1
<1>2. ASSUME NEW w \in AllWays, NEW i \in 1..M PROVE Along(w, s, i) <=> Along(w, stack, i)
  <2>1. \A k \in 1..(i - 1) : k \in 1..(L - 1)
    BY <1>1
  <2> QED BY <2>1 DEF Along
<1>3. \A i \in 1..(M - 1) : Bound(s, i) = Bound(stack, i)
  <2> TAKE i \in 1..(M - 1)
  <2>1. i \in 1..(L - 1) /\ i # L - 1 /\ i # L
    BY <1>1
  <2> QED BY <2>1 DEF Bound
<1>4. /\ Bound(s, M) = stack[M].next
      /\ Bound(stack, M) = stack[M].next - 1 /\ Bound(stack, L) = Top.next
  BY <1>1 DEF Bound
<1>5. ASSUME NEW w \in AllWays
      PROVE  Along(w, stack, M) /\ w[M].via = stack[M].next - 1
                 <=> Along(w, stack, L) /\ w[L].via < Top.next
  <2>1. \A k : k \in 1..(L - 1) <=> k \in 1..(M - 1) \/ k = M
    BY <1>1
  <2>2. ASSUME Along(w, stack, M), w[M].via = stack[M].next - 1
        PROVE  Along(w, stack, L) /\ w[L].via < Top.next
    <3>1. M \in 1..Len(w) /\ w[M].node = stack[M].node /\ Len(w) \in Nat
      BY <2>2, <1>1, WayFacts DEF Along
    <3>2. stack[M].next - 1 \in DOMAIN Below(stack[M].node)
      BY <1>0, <1>1 DEF Chain
    <3>3. stack[M].next - 1 > 0
      BY <1>0, <1>1, <3>2, StackFacts, ValueFacts
    <3>4. M # Len(w)
      BY <3>1, <3>3, <2>2, WayEnds
    <3>5. M \in 1..(Len(w) - 1) /\ L \in 1..Len(w)
      BY <3>1, <3>4, <1>1
    <3>6. w[L].node = Top.node
      <4>1. w[M + 1].node = Below(stack[M].node)[stack[M].next - 1]
        BY <3>1, <3>5, <2>2, WayFacts
      <4>2. stack[M + 1].node = Below(stack[M].node)[stack[M].next - 1]
        BY <1>0, <1>1 DEF Chain
      <4> QED BY <4>1, <4>2, <1>1
    <3>7. Along(w, stack, L)
      BY <2>1, <2>2, <3>1, <3>5, <3>6, <1>1 DEF Along
    <3>8. w[L].via \in 0..Len(Below(Top.node)) /\ Len(Below(Top.node)) \in Nat
      BY <3>5, <3>6, <1>1, WayEnds, ValueFacts
    <3> QED BY <3>7, <3>8, <1>1
  <2>3. ASSUME Along(w, stack, L) PROVE Along(w, stack, M) /\ w[M].via = stack[M].next - 1
    <3>1. M <= Len(w) /\ w[M].node = stack[M].node /\ w[M].via = stack[M].next - 1
      BY <2>3, <1>1, WayFacts DEF Along
    <3> QED BY <3>1, <2>1, <2>3 DEF Along
  <2> QED BY <2>2, <2>3
<1>6. ASSUME NEW w \in AllWays, Along(w, stack, M)
      PROVE  w[M].via < stack[M].next <=>
                 w[M].via < stack[M].next - 1 \/ w[M].via = stack[M].next - 1
  <2>1. M \in 1..Len(w)
    BY <1>1, <1>6, WayFacts DEF Along
  <2>2. w[M].via \in Nat
    BY <2>1, WayFacts
  <2> QED BY <2>2, <1>1
<1>7. ASSUME NEW w \in AllWays PROVE Passed(w, s) <=> Passed(w, stack)
  <2> DEFINE Before == \E i \in 1..(M - 1) : Along(w, stack, i) /\ w[i].via < Bound(stack, i)
  <2>1. \A i : i \in 1..M <=> i \in 1..(M - 1) \/ i = M
    BY <1>1
  <2>2. \A i : i \in 1..L <=> i \in 1..(M - 1) \/ i = M \/ i = L
    BY <1>1
  <2>3. Passed(w, s) <=> Before \/ (Along(w, stack, M) /\ w[M].via < stack[M].next)
    BY <2>1, <1>2, <1>3, <1>4 DEF Passed
  <2>4. Passed(w, stack) <=> \/ Before
                             \/ Along(w, stack, M) /\ w[M].via < stack[M].next - 1
                             \/ Along(w, stack, L) /\ w[L].via < Top.next
    BY <2>2, <1>4 DEF Passed
  <2> HIDE DEF Before
  <2> QED BY <2>3, <2>4, <1>5, <1>6
<1> QED BY <1>7 DEF Seen

\* When the root is done, every way has been seen.
LEMMA SeenAll ==
    ASSUME TypeOK, Chain(stack), Len(stack) = 1, Top.next > Len(Below(Top.node))
    PROVE  Seen(stack) = AllWays
<1>0. stack # <<>>
  <2> SUFFICES ASSUME stack = <<>> PROVE FALSE
    OBVIOUS
  <2>1. Len(stack) = 0
    OBVIOUS
  <2> QED BY <2>1
<1>1. Top = stack[1] /\ Top.node = Root /\ Top.next \in Nat /\ Top.node \in Node
  BY <1>0, StackFacts DEF Chain
<1>2. ASSUME NEW w \in AllWays PROVE Passed(w, stack)
  <2>1. 1 \in 1..Len(w) /\ w[1].node = Root /\ Len(w) \in Nat
    BY WayFacts
  <2>2. w[1].via \in 0..Len(Below(Root)) /\ Len(Below(Root)) \in Nat
    BY <2>1, <1>1, WayEnds, ValueFacts
  <2>3. Along(w, stack, 1) /\ w[1].via < Bound(stack, 1)
    BY <2>1, <2>2, <1>1 DEF Along, Bound
  <2> QED BY <2>3 DEF Passed
<1> QED BY <1>2 DEF Seen
-----------------------------------------------------------------------------
(* What a step adds to what has been seen.                                 *)

\* A tree all of whose ways have been judged, and are not too many, fits.
LEMMA FitsWhen ==
    ASSUME TypeOK, IsFiniteSet(AllWays), Cardinality(AllWays) <= MaxNodes,
           \A w \in AllWays : Len(w) <= MaxDepth + 1 /\ Plain(heap[End(w)])
    PROVE  Fits(heap)
<1>1. Ways(heap) = AllWays
  BY WaysAre
<1>2. ASSUME NEW w \in AllWays, Len(w) = MaxDepth + 1 PROVE Below(End(w)) = <<>>
  <2> SUFFICES ASSUME Below(End(w)) # <<>> PROVE FALSE
    OBVIOUS
  <2>1. 1 \in DOMAIN Below(End(w))
    BY LastType, ValueFacts
  <2>2. PICK x \in AllWays : Len(x) = Len(w) + 1
    BY <2>1, LongerFacts
  <2> QED BY <1>2, <2>2, JsonLimits
<1> QED BY <1>1, <1>2 DEF Fits, End, Below

\* One more way than may be: the tree does not fit.
LEMMA TooManyWays ==
    ASSUME TypeOK, Counted, nodes + 1 > MaxNodes, NEW x \in AllWays, x \notin Seen(stack)
    PROVE  ~ Fits(heap)
<1> SUFFICES ASSUME Fits(heap) PROVE FALSE
  OBVIOUS
<1>1. Ways(heap) = AllWays
  BY WaysAre, FitFacts
<1>2. IsFiniteSet(AllWays) /\ Cardinality(AllWays) <= MaxNodes
  BY <1>1 DEF Fits
<1>3. Seen(stack) \cup {x} \subseteq AllWays
  BY DEF Seen
<1>4. Cardinality(Seen(stack) \cup {x}) = nodes + 1
  BY FS_AddElement DEF Counted
<1>5. Cardinality(Seen(stack) \cup {x}) <= Cardinality(AllWays)
  BY <1>2, <1>3, FS_Subset
<1>6. nodes \in Nat /\ MaxNodes \in Nat /\ Cardinality(AllWays) \in Nat
  BY <1>2, FS_CardinalityType, JsonLimits DEF TypeOK
<1> QED BY <1>2, <1>4, <1>5, <1>6

\* The cases of visit(), one value at a time.
LEMMA VisitMeans ==
    ASSUME TypeOK, NEW n \in Node, NEW depth, NEW count, NEW outcome,
           outcome = visit(n, depth, count), NEW v, v = heap[n]
    PROVE  /\ outcome = "leaf" => v.kind = "leaf"
           /\ outcome = "open" =>
                  /\ v.kind \in {"object", "array"} /\ (v.kind = "array" => Len(v.kids) <= MaxArray)
                  /\ walker = "snapshotJson" => v.accessor = 0 /\ ~ v.sparse
           /\ outcome \in {"limit", "notJson"} =>
                  depth > MaxDepth \/ count > MaxNodes \/ n \in ancestors \/ ~ Plain(v)
<1>1. /\ v.kind \in ValueKinds /\ (v.sparse => v.kind = "array")
      /\ Len(v.kids) \in Nat /\ MaxArray \in Nat
  <2>1. v \in Value /\ Len(v.kids) \in Nat
    BY ValueFacts DEF Below
  <2> QED BY <2>1, JsonLimits DEF Value
<1>2. CASE walker = "snapshotJson"
  <2>1. outcome = snapshotVisit(v, n, depth, count)
    BY <1>2 DEF visit
  <2> QED BY <2>1, <1>1, <1>2 DEF snapshotVisit, Plain, ValueKinds
<1>3. CASE walker # "snapshotJson"
  <2>1. outcome = jsonVisit(v, n, depth, count)
    BY <1>3 DEF visit
  <2> QED BY <2>1, <1>1, <1>3 DEF jsonVisit, Plain, ValueKinds
<1> QED BY <1>2, <1>3

LEMMA Primes ==
    ASSUME heap' = heap, walker' = walker
    PROVE  /\ Seen(stack)' = Seen(stack') /\ (Chain(stack)' <=> Chain(stack'))
           /\ Fits(heap)' <=> Fits(heap)
           /\ (\A i \in DOMAIN stack : Entered(stack[i]))' <=> \A i \in DOMAIN stack' : Entered(stack'[i])
<1>1. AllWays' = AllWays
  BY DEF AllWays, Leads
<1>2. Seen(stack)' = Seen(stack')
  BY <1>1 DEF Seen, Passed, Along, Bound
<1>3. Chain(stack)' <=> Chain(stack')
  BY DEF Chain, Below
<1>4. Fits(heap)' <=> Fits(heap)
  BY DEF Fits, Ways, Leads, Moves
<1>5. (\A i \in DOMAIN stack : Entered(stack[i]))' <=> \A i \in DOMAIN stack' : Entered(stack'[i])
  BY DEF Entered
<1> QED BY <1>2, <1>3, <1>4, <1>5

\* Once there is a verdict nothing is left to be maintained.
LEMMA Decided ==
    ASSUME verdict' \in {"accepted", "limit", "notJson"}, heap' = heap, walker' = walker,
           verdict' = "accepted" <=> Fits(heap)
    PROVE  Exact' /\ VerdictExact'
<1>1. Exact'
  BY DEF Exact
<1>2. Fits(heap)' <=> Fits(heap)
  BY Primes
<1> QED BY <1>1, <1>2 DEF VerdictExact

\* While there is none, one more value has been seen.
LEMMA Undecided ==
    ASSUME TypeOK, Exact, verdict = "walking", verdict' = "walking", heap' = heap, walker' = walker,
           nodes' = nodes + 1, ancestors \subseteq ancestors', Chain(stack'),
           \A i \in DOMAIN stack' : Entered(stack'[i]),
           NEW x, x \notin Seen(stack), Seen(stack') = Seen(stack) \cup {x},
           Len(x) <= MaxDepth + 1, End(x) \in ancestors' \/ Plain(heap[End(x)])
    PROVE  Exact' /\ VerdictExact'
<1>1. Counted /\ Judged
  BY DEF Exact
<1>2. Seen(stack)' = Seen(stack) \cup {x}
  BY Primes
<1>3. Counted'
  <2>1. IsFiniteSet(Seen(stack) \cup {x}) /\ Cardinality(Seen(stack) \cup {x}) = nodes + 1
    BY <1>1, FS_AddElement DEF Counted
  <2> QED BY <2>1, <1>2 DEF Counted
<1>4. Judged'
  <2> SUFFICES ASSUME NEW w \in Seen(stack) \cup {x}
               PROVE  Len(w) <= MaxDepth + 1 /\ (End(w) \in ancestors' \/ Plain(heap[End(w)]))
    BY <1>2 DEF Judged, Plain, End
  <2> QED BY <1>1 DEF Judged
<1>5. Chain(stack)' /\ (\A i \in DOMAIN stack : Entered(stack[i]))'
  BY Primes
<1> QED BY <1>3, <1>4, <1>5 DEF Exact, VerdictExact

\* Entering the value n, whose place is x.
LEMMA EnterExact ==
    ASSUME TypeOK, Exact, verdict = "walking", NEW n \in Node, NEW open \in Seq(Frame),
           Len(open) = Len(stack), Enter(n, open), Chain(open),
           \A i \in DOMAIN open : Entered(open[i]),
           NEW x \in AllWays, x \notin Seen(stack), Len(x) = Len(open) + 1, End(x) = n,
           NEW deeper, deeper = Append(open, [node |-> n, next |-> 1]), Chain(deeper),
           Seen(deeper) = Seen(stack) \cup {x},
           heap[n].kind = "leaf" /\ open # <<>> => Seen(open) = Seen(stack) \cup {x},
           heap[n].kind = "leaf" /\ open = <<>> => AllWays = {x},
           n \in ancestors => ~ Fits(heap)
    PROVE  Exact' /\ VerdictExact'
<1> DEFINE outcome == visit(n, Len(open), nodes + 1)
<1>1. heap' = heap /\ walker' = walker /\ nodes' = nodes + 1
  BY DEF Enter
<1>2. nodes \in Nat /\ MaxNodes \in Nat /\ MaxDepth \in Nat /\ Len(open) \in Nat /\ Len(x) \in Nat
  BY JsonLimits, WayFacts DEF TypeOK
<1>3. /\ outcome = "leaf" => heap[n].kind = "leaf"
      /\ outcome = "open" =>
             /\ heap[n].kind \in {"object", "array"}
             /\ heap[n].kind = "array" => Len(heap[n].kids) <= MaxArray
             /\ walker = "snapshotJson" => heap[n].accessor = 0 /\ ~ heap[n].sparse
      /\ outcome \in {"limit", "notJson"} =>
             Len(open) > MaxDepth \/ nodes + 1 > MaxNodes \/ n \in ancestors \/ ~ Plain(heap[n])
  BY VisitMeans
<1>4. outcome \in {"open", "leaf"} => Len(x) <= MaxDepth + 1 /\ nodes + 1 <= MaxNodes
  BY <1>2, VisitFacts
<1>5. CASE outcome = "open"
  <2>1. stack' = deeper /\ ancestors' = ancestors \cup {n} /\ verdict' = "walking"
    BY <1>5 DEF Enter
  <2>2. ASSUME NEW i \in DOMAIN deeper PROVE Entered(deeper[i])
    <3> DEFINE f == [node |-> n, next |-> 1]
    <3>1. f \in Frame /\ f.node = n /\ f.next = 1
      BY DEF Frame
    <3>2. Entered(f)
      <4>1. heap[n].accessor \in Nat /\ Len(heap[n].kids) \in Nat
        BY ValueFacts DEF Value, Below
      <4>2. 1 <= Len(heap[n].kids) + 1 /\ (heap[n].accessor = 0 \/ heap[n].accessor >= 1)
        BY <4>1
      <4>3. walker = "snapshotJson" => Plain(heap[n])
        BY <1>3, <1>5 DEF Plain
      <4> HIDE DEF f
      <4> QED BY <1>3, <1>5, <3>1, <4>2, <4>3 DEF Entered
    <3> HIDE DEF f
    <3>3. (i \in DOMAIN open /\ deeper[i] = open[i]) \/ deeper[i] = f
      <4>1. deeper = Append(open, f)
        BY DEF f
      <4> QED BY <3>1, <4>1
    <3> QED BY <3>2, <3>3
  <2>3. Len(x) <= MaxDepth + 1 /\ End(x) \in ancestors' /\ ancestors \subseteq ancestors'
    BY <1>4, <1>5, <2>1
  <2> QED BY <1>1, <2>1, <2>2, <2>3, Undecided
<1>6. CASE outcome = "leaf" /\ open # <<>>
  <2>1. stack' = open /\ ancestors' = ancestors /\ verdict' = "walking"
    BY <1>6 DEF Enter
  <2>2. Seen(open) = Seen(stack) \cup {x} /\ Len(x) <= MaxDepth + 1 /\ Plain(heap[End(x)])
    BY <1>3, <1>4, <1>6 DEF Plain
  <2> QED BY <1>1, <2>1, <2>2, Undecided
<1>7. CASE outcome = "leaf" /\ open = <<>>
  <2>1. verdict' = "accepted"
    BY <1>7 DEF Enter
  <2>2. AllWays = {x} /\ Plain(heap[n]) /\ Len(x) <= MaxDepth + 1 /\ nodes + 1 <= MaxNodes
    BY <1>3, <1>4, <1>7 DEF Plain
  <2>3. IsFiniteSet(AllWays) /\ Cardinality(AllWays) = 1
    BY <2>2, FS_Singleton
  <2>4. Fits(heap)
    BY <1>2, <2>2, <2>3, FitsWhen
  <2> QED BY <1>1, <2>1, <2>4, Decided
<1>8. CASE outcome \in {"limit", "notJson"}
  <2>1. verdict' \in {"limit", "notJson"}
    BY <1>8 DEF Enter
  <2>2. CASE Len(open) > MaxDepth \/ ~ Plain(heap[n])
    BY <2>2, <1>2, FitFacts, Decided, <2>1, <1>1
  <2>3. CASE nodes + 1 > MaxNodes
    <3>1. ~ Fits(heap)
      BY <2>3, TooManyWays DEF Exact
    <3> QED BY <3>1, <2>1, <1>1, Decided
  <2>4. CASE n \in ancestors
    BY <2>4, <2>1, <1>1, Decided
  <2> QED BY <2>2, <2>3, <2>4, <1>3, <1>8
<1> QED BY <1>5, <1>6, <1>7, <1>8, VisitFacts

LEMMA BeginExact == ASSUME IInv, Exact, Begin PROVE Exact' /\ VerdictExact'
<1> DEFINE e == [node |-> Root, via |-> 0]
           f == [node |-> Root, next |-> 1]
           x == [k \in 1..1 |-> e]
           deeper == Append(<<>>, f)
<1>1. verdict = "walking" /\ Enter(Root, <<>>) /\ Root \in Node /\ TypeOK /\ stack = <<>>
  BY JsonLimits DEF Begin, IInv, Started
<1>2. e \in Move /\ e.node = Root /\ e.via = 0 /\ f \in Frame /\ f.node = Root /\ f.next = 1
  BY <1>1, MoveType DEF Frame
<1> HIDE DEF e, f
<1>3. x \in AllWays /\ Len(x) = 1 /\ x[1] = e
  <2>1. x \in [1..1 -> Move] /\ x[1] = e
    BY <1>2
  <2> HIDE DEF x
  <2>2. PICK m \in Nat : m = 1
    OBVIOUS
  <2>3. m > 0 /\ x \in [1..m -> Move] /\ x[1].node = Root /\ x[m].via = 0 /\ \A i \in 1..(m - 1) : FALSE
    BY <2>1, <2>2, <1>2
  <2>4. x \in AllWays /\ Len(x) = m
    BY <2>3, IsWay
  <2> QED BY <2>1, <2>2, <2>4
<1> HIDE DEF x
<1>4. End(x) = Root /\ x[1].node = Root /\ x[1].via = 0
  BY <1>2, <1>3 DEF End
<1>5. Seen(stack) = {} /\ ancestors = {}
  BY <1>1 DEF Seen, Passed, IInv, AncestorsAreOpen
<1>6. Len(deeper) = 1 /\ deeper[1] = f
  OBVIOUS
<1>7. ASSUME NEW w \in AllWays, w[1].via < 1 PROVE w = x
  <2>1. 1 \in 1..Len(w) /\ w[1].via \in Nat /\ w[1].node = Root
    BY WayFacts
  <2>2. w[1].via = 0
    BY <2>1, <1>7
  <2>3. Len(w) = 1
    BY <1>1, <2>1, <2>2, WayEnds
  <2>4. \A k \in 1..Len(w) : w[k].node = x[k].node /\ w[k].via = x[k].via
    BY <2>1, <2>2, <2>3, <1>4
  <2> QED BY <2>3, <2>4, <1>3, SameWay
<1>8. Seen(deeper) = Seen(stack) \cup {x}
  <2>1. ASSUME NEW w \in AllWays PROVE Passed(w, deeper) <=> w[1].via < 1
    <3>1. 1 <= Len(w) /\ w[1].node = Root
      BY WayFacts
    <3>2. Along(w, deeper, 1) /\ Bound(deeper, 1) = 1
      BY <3>1, <1>2, <1>6 DEF Along, Bound
    <3> QED BY <3>2, <1>6 DEF Passed
  <2>2. x[1].via < 1
    BY <1>4
  <2> HIDE DEF deeper
  <2> QED BY <2>1, <2>2, <1>3, <1>5, <1>7 DEF Seen
<1>9. heap[Root].kind = "leaf" => AllWays = {x}
  <2> SUFFICES ASSUME heap[Root].kind = "leaf", NEW w \in AllWays PROVE w[1].via < 1
    BY <1>3, <1>7
  <2>1. heap[Root].kids = <<>>
    BY <1>1, ValueFacts DEF Value
  <2>2. Len(Below(Root)) = 0
    BY <2>1 DEF Below
  <2>3. 1 \in 1..Len(w) /\ w[1].node = Root
    BY WayFacts
  <2>4. w[1].via \in 0..Len(Below(Root))
    BY <2>3, <1>1, WayEnds
  <2> QED BY <2>2, <2>4
<1>10. Chain(<<>>) /\ Chain(deeper)
  BY <1>2, <1>6 DEF Chain
<1>11. <<>> \in Seq(Frame) /\ Len(<<>>) = Len(stack) /\ Len(x) = Len(<<>>) + 1 /\ x \notin Seen(stack)
  BY <1>1, <1>3, <1>5
<1>12. \A i \in DOMAIN <<>> : Entered(<<>>[i])
  OBVIOUS
<1>13. Root \notin ancestors
  BY <1>5
<1>14. deeper = Append(<<>>, [node |-> Root, next |-> 1])
  BY DEF f
<1> HIDE DEF deeper
<1> QED BY <1>1, <1>3, <1>4, <1>8, <1>9, <1>10, <1>11, <1>12, <1>13, <1>14, EnterExact

LEMMA PropertyExact == ASSUME IInv, Exact, Property PROVE Exact' /\ VerdictExact'
<1> DEFINE L == Len(stack)
           n == Below(Top.node)[Top.next]
           open == [stack EXCEPT ![Len(stack)].next = @ + 1]
           f == [node |-> n, next |-> 1]
           deeper == Append(open, f)
<1>1. /\ verdict = "walking" /\ stack # <<>> /\ Top.next <= Len(Below(Top.node)) /\ TypeOK
      /\ Chain(stack) /\ (\A i \in DOMAIN stack : Entered(stack[i])) /\ Counted /\ Judged
  BY DEF Property, IInv, Exact, Below
<1>2. /\ L \in Nat /\ L > 0 /\ DOMAIN stack = 1..L /\ L \in 1..L /\ Top = stack[L]
      /\ Top.node \in Node /\ Top.next \in Nat /\ Top.next > 0
  BY <1>1, StackFacts
<1>3. Top.next \in DOMAIN Below(Top.node) /\ n \in Node
  BY <1>1, <1>2, ValueFacts
<1>4. CASE Accessor
  <2>1. verdict' = "notJson" /\ heap' = heap /\ walker' = walker
    BY <1>4 DEF Property
  <2>2. ~ Plain(heap[Top.node])
    <3>1. heap[Top.node].accessor = Top.next /\ heap[Top.node].kind \in {"object", "array"}
      BY <1>1, <1>2, <1>4 DEF Accessor, Entered
    <3> QED BY <3>1, <1>2 DEF Plain
  <2>3. ~ Fits(heap)
    BY <2>2, <1>1, <1>2, PlaceFacts, FitFacts
  <2> QED BY <2>1, <2>3, Decided
<1>5. CASE ~ Accessor
  <2>1. Enter(n, open)
    BY <1>5, Zenon DEF Property, Below
  <2>2. Opened(open)
    BY <1>1, AdvanceOpened
  <2>3. /\ open \in Seq(Frame) /\ Len(open) = L /\ DOMAIN open = 1..L
        /\ \A k \in 1..(L - 1) : open[k] = stack[k]
        /\ open[L].node = Top.node /\ open[L].next = Top.next + 1
    <3>1. open \in Seq(Frame) /\ Len(open) = L /\ DOMAIN open = 1..L
      BY <2>2, <1>2 DEF Opened
    <3>2. \A k \in 1..(L - 1) : open[k] = stack[k]
      BY <1>2
    <3>3. open[L] = [stack[L] EXCEPT !.next = stack[L].next + 1]
      BY <1>2
    <3>4. stack[L] \in Frame
      BY <1>1, <1>2, StackFacts
    <3> QED BY <3>1, <3>2, <3>3, <3>4, <1>2 DEF Frame
  <2> HIDE DEF open
  <2>4. f \in Frame /\ f.node = n /\ f.next = 1
    BY <1>3 DEF Frame
  <2> HIDE DEF f
  <2>5. /\ Len(deeper) = L + 1 /\ deeper[L + 1] = f
        /\ \A k \in 1..L : deeper[k] = open[k]
    BY <2>3, <2>4
  <2>6. deeper = Append(open, [node |-> n, next |-> 1])
    BY DEF f
  <2> HIDE DEF deeper
  <2>7. \A k \in 1..L : open[k].node = stack[k].node
    <3> TAKE k \in 1..L
    <3>1. CASE k = L
      BY <3>1, <2>3, <1>2
    <3>2. CASE k # L
      <4>1. k \in 1..(L - 1)
        <5> HIDE DEF L
        <5> QED BY <3>2, <1>2
      <4> QED BY <4>1, <2>3
    <3> QED BY <3>1, <3>2
  <2>8. /\ \A k \in 1..L : deeper[k].node = stack[k].node
        /\ \A k \in 1..(L - 1) : k \in 1..L /\ deeper[k].next = stack[k].next /\ open[k].next = stack[k].next
        /\ deeper[L].next = Top.next + 1
        /\ deeper[L + 1].node = n /\ deeper[L + 1].next = 1
    <3>1. \A k \in 1..(L - 1) : k \in 1..L
      BY <1>2
    <3> QED BY <3>1, <2>3, <2>4, <2>5, <2>7, <1>2
  <2> DEFINE x == NextWay
  <2>9. x \in AllWays /\ x \notin Seen(stack) /\ Len(x) = L + 1 /\ End(x) = n
    BY <1>1, <1>3, NewWay
  <2> HIDE DEF n
  <2>10. Seen(deeper) = Seen(stack) \cup {x}
    BY <2>5, <2>8, <1>1, <1>3, SeenDeeper DEF n
  <2>11. ASSUME heap[n].kind = "leaf" PROVE Seen(open) = Seen(stack) \cup {x}
    <3>1. Below(n) = <<>>
      BY <2>11, <1>1, <1>3, ValueFacts DEF Value, Below
    <3> QED BY <3>1, <2>3, <2>7, <2>8, <1>1, <1>3, SeenLeaf DEF n
  <2>12. Chain(open)
    <3>1. open # <<>> => open[1].node = Root
      BY <2>7, <1>1, <1>2 DEF Chain
    <3>2. ASSUME NEW k \in 1..(L - 1)
          PROVE  /\ open[k].next - 1 \in DOMAIN Below(open[k].node)
                 /\ open[k + 1].node = Below(open[k].node)[open[k].next - 1]
      <4>1. k \in 1..L /\ k + 1 \in 1..L
        BY <1>2
      <4>2. open[k].next = stack[k].next /\ open[k].node = stack[k].node /\ open[k + 1].node = stack[k + 1].node
        BY <4>1, <2>7, <2>8
      <4> QED BY <4>2, <1>1 DEF Chain
    <3> QED BY <3>1, <3>2, <2>3 DEF Chain
  <2>13. Chain(deeper)
    <3>1. deeper # <<>> => deeper[1].node = Root
      BY <2>8, <1>1, <1>2 DEF Chain
    <3>2. ASSUME NEW k \in 1..L
          PROVE  /\ deeper[k].next - 1 \in DOMAIN Below(deeper[k].node)
                 /\ deeper[k + 1].node = Below(deeper[k].node)[deeper[k].next - 1]
      <4>1. CASE k = L
        <5>1. deeper[k].next - 1 = Top.next /\ deeper[k].node = Top.node /\ deeper[k + 1].node = n
          BY <4>1, <2>8, <1>2
        <5> QED BY <5>1, <1>3 DEF n
      <4>2. CASE k # L
        <5>1. k \in 1..(L - 1) /\ k \in 1..L /\ k + 1 \in 1..L
          <6> HIDE DEF L
          <6> QED BY <4>2, <1>2
        <5>2. deeper[k].next = stack[k].next /\ deeper[k].node = stack[k].node /\ deeper[k + 1].node = stack[k + 1].node
          BY <5>1, <2>8
        <5> QED BY <5>1, <5>2, <1>1 DEF Chain
      <4> QED BY <4>1, <4>2
    <3>3. Len(deeper) - 1 = L
      BY <2>5, <1>2
    <3> QED BY <3>1, <3>2, <3>3 DEF Chain
  <2>14. ASSUME NEW i \in DOMAIN open PROVE Entered(open[i])
    <3>1. CASE i = L
      <4>1. Entered(Top)
        BY <1>1, <1>2
      <4>2. /\ heap[Top.node].accessor \in Nat
            /\ walker = "jsonValue" => heap[Top.node].accessor # Top.next
            /\ walker = "snapshotJson" => heap[Top.node].accessor = 0
        BY <4>1, <1>1, <1>2, <1>5, ValueFacts DEF Accessor, Value, Entered, Plain
      <4>3. heap[Top.node].accessor = 0 \/ heap[Top.node].accessor >= Top.next + 1
        BY <4>1, <4>2, <1>1, <1>2 DEF Entered, TypeOK, Walkers
      <4>4. Top.next + 1 <= Len(heap[Top.node].kids) + 1
        BY <1>1, <1>2, ValueFacts DEF Below
      <4> QED BY <3>1, <4>1, <4>3, <4>4, <2>3 DEF Entered
    <3>2. CASE i # L
      <4>1. i \in 1..(L - 1) /\ i \in DOMAIN stack
        BY <3>2, <2>3, <1>2
      <4> QED BY <4>1, <2>3, <1>1
    <3> QED BY <3>1, <3>2
  <2>15. n \in ancestors => ~ Fits(heap)
    <3> SUFFICES ASSUME n \in ancestors PROVE ~ Fits(heap)
      OBVIOUS
    <3>1. PICK j \in 1..L : n = stack[j].node
      BY <1>2 DEF IInv, AncestorsAreOpen
    <3> QED BY <3>1, <1>1, <1>3, CycleDoesNotFit DEF n
  <2>16. open # <<>> /\ Len(open) = Len(stack) /\ Len(x) = Len(open) + 1
    BY <2>3, <2>9, <1>2
  <2> HIDE DEF x
  <2> QED BY <1>1, <1>3, <2>1, <2>3, <2>6, <2>9, <2>10, <2>11, <2>12, <2>13, <2>14, <2>15, <2>16, EnterExact
<1> QED BY <1>4, <1>5

\* A value whose properties have all been passed is plain, unless it turns out to be sparse.
LEMMA DonePlain ==
    ASSUME TypeOK, stack # <<>>, Entered(Top), Top.next > Len(Below(Top.node))
    PROVE  /\ walker = "jsonValue" /\ heap[Top.node].sparse => ~ Plain(heap[Top.node])
           /\ ~ (walker = "jsonValue" /\ heap[Top.node].sparse) => Plain(heap[Top.node])
<1> DEFINE v == heap[Top.node]
<1>1. Top.node \in Node /\ Top.next \in Nat
  BY StackFacts
<1>2. /\ v.accessor \in Nat /\ v.accessor <= Len(v.kids) /\ v.sparse \in BOOLEAN
      /\ (v.sparse => v.kind = "array") /\ Len(v.kids) \in Nat /\ Top.next > Len(v.kids)
  BY <1>1, ValueFacts DEF Value, Below
<1>3. v.accessor = 0
  BY <1>1, <1>2 DEF Entered
<1>4. walker \in {"snapshotJson", "jsonValue"}
  BY DEF TypeOK, Walkers
<1> QED BY <1>2, <1>3, <1>4 DEF Entered, Plain

LEMMA ReturnExact == ASSUME IInv, Exact, Return PROVE Exact' /\ VerdictExact'
<1> DEFINE L == Len(stack)
<1>1. /\ verdict = "walking" /\ stack # <<>> /\ Top.next > Len(Below(Top.node)) /\ TypeOK
      /\ Chain(stack) /\ (\A i \in DOMAIN stack : Entered(stack[i])) /\ Counted /\ Judged
      /\ heap' = heap /\ walker' = walker /\ nodes' = nodes /\ ancestors' = ancestors \ {Top.node}
  BY DEF Return, IInv, Exact, Below
<1>2. /\ L \in Nat /\ L > 0 /\ DOMAIN stack = 1..L /\ L \in 1..L /\ Top = stack[L] /\ Top.node \in Node
  BY <1>1, StackFacts
<1>3. Entered(Top)
  BY <1>1, <1>2
<1>4. CASE walker = "jsonValue" /\ heap[Top.node].sparse
  <2>1. verdict' = "notJson"
    BY <1>4 DEF Return
  <2>2. ~ Plain(heap[Top.node])
    BY <1>1, <1>3, <1>4, DonePlain
  <2>3. ~ Fits(heap)
    BY <2>2, <1>1, <1>2, PlaceFacts, FitFacts
  <2> QED BY <2>1, <2>3, <1>1, Decided
<1>5. CASE ~ (walker = "jsonValue" /\ heap[Top.node].sparse)
  <2>1. Plain(heap[Top.node])
    BY <1>1, <1>3, <1>5, DonePlain
  <2>2. CASE L = 1
    <3>1. verdict' = "accepted"
      BY <1>5, <2>2 DEF Return
    <3>2. Seen(stack) = AllWays
      BY <1>1, <2>2, SeenAll
    <3>3. ancestors = {Top.node}
      <4>1. \A i \in DOMAIN stack : i = 1
        BY <1>2, <2>2
      <4> QED BY <4>1, <1>2, <2>2 DEF IInv, AncestorsAreOpen
    <3>4. \A w \in AllWays : Len(w) <= MaxDepth + 1 /\ Plain(heap[End(w)])
      BY <3>2, <3>3, <2>1, <1>1 DEF Judged
    <3>5. IsFiniteSet(AllWays) /\ Cardinality(AllWays) <= MaxNodes
      BY <3>2, <1>1 DEF Counted, IInv, Within
    <3>6. Fits(heap)
      BY <3>4, <3>5, <1>1, FitsWhen
    <3> QED BY <3>1, <3>6, <1>1, Decided
  <2>3. CASE L # 1
    <3>1. verdict' = "walking" /\ stack' = SubSeq(stack, 1, L - 1)
      BY <1>5, <2>3 DEF Return
    <3>2. /\ L > 1 /\ Len(stack') = L - 1 /\ DOMAIN stack' = 1..(L - 1)
          /\ \A k \in 1..(L - 1) : stack'[k] = stack[k] /\ k \in DOMAIN stack
      <4>1. stack \in Seq(Frame)
        BY <1>1 DEF TypeOK
      <4> QED BY <4>1, <3>1, <1>2, <2>3
    <3>3. Seen(stack') = Seen(stack)
      BY <3>2, <1>1, SeenReturn
    <3>4. Chain(stack')
      <4>1. stack'[1] = stack[1]
        BY <3>2, <1>2
      <4>2. \A k \in 1..((L - 1) - 1) : k \in 1..(L - 1) /\ k + 1 \in 1..(L - 1)
        BY <1>2
      <4> QED BY <4>1, <4>2, <3>2, <1>1 DEF Chain
    <3>5. \A i \in DOMAIN stack' : Entered(stack'[i])
      BY <3>2, <1>1
    <3>6. Seen(stack)' = Seen(stack)
      BY <3>3, <1>1, Primes
    <3>7. Counted'
      BY <3>6, <1>1 DEF Counted
    <3>8. Judged'
      <4> SUFFICES ASSUME NEW w \in Seen(stack)
                   PROVE  Len(w) <= MaxDepth + 1 /\ (End(w) \in ancestors' \/ Plain(heap[End(w)]))
        BY <3>6, <1>1 DEF Judged, Plain, End
      <4> QED BY <2>1, <1>1 DEF Judged
    <3> QED BY <3>1, <3>4, <3>5, <3>7, <3>8, <1>1, Primes DEF Exact, VerdictExact
  <2> QED BY <2>2, <2>3
<1> QED BY <1>4, <1>5

LEMMA InitExact == WalkInit => Exact /\ VerdictExact
<1> SUFFICES ASSUME WalkInit PROVE Exact /\ VerdictExact
  OBVIOUS
<1>1. stack = <<>> /\ nodes = 0 /\ verdict = "walking"
  BY DEF WalkInit
<1>2. Seen(stack) = {}
  BY <1>1 DEF Seen, Passed
<1>3. Counted /\ Judged
  BY <1>1, <1>2, FS_EmptySet DEF Counted, Judged
<1> QED BY <1>1, <1>3 DEF Exact, VerdictExact, Chain

LEMMA NextExact == IInv /\ Exact /\ VerdictExact /\ [WalkNext]_walkVars => Exact' /\ VerdictExact'
<1> SUFFICES ASSUME IInv, Exact, VerdictExact, [WalkNext]_walkVars PROVE Exact' /\ VerdictExact'
  OBVIOUS
<1>1. CASE UNCHANGED walkVars
  <2>1. UNCHANGED <<heap, walker, stack, ancestors, nodes, verdict>>
    BY <1>1 DEF walkVars
  <2>2. Seen(stack)' = Seen(stack) /\ (Chain(stack)' <=> Chain(stack)) /\ (Fits(heap)' <=> Fits(heap))
        /\ ((\A i \in DOMAIN stack : Entered(stack[i]))' <=> \A i \in DOMAIN stack : Entered(stack[i]))
    BY <2>1, Primes
  <2>3. (Counted' <=> Counted) /\ (Judged' <=> Judged)
    BY <2>1, <2>2 DEF Counted, Judged, Plain, End
  <2> QED BY <2>1, <2>2, <2>3 DEF Exact, VerdictExact
<1> QED BY <1>1, BeginExact, PropertyExact, ReturnExact DEF WalkNext

\* A verdict is exact for every input and all limits: what either walk accepts unfolds to a tree of
\* JSON values within the three limits, and whatever unfolds to one is accepted (validate.js:21-61,
\* schema-ir/validate.js:26-46).
THEOREM VerdictIsExact == WalkSpec => []VerdictExact
<1>1. WalkInit => IInv /\ Exact /\ VerdictExact
  BY InitInv, InitExact
<1>2. IInv /\ Exact /\ VerdictExact /\ [WalkNext]_walkVars => (IInv /\ Exact /\ VerdictExact)'
  BY NextInv, NextExact
<1> QED BY <1>1, <1>2, PTL DEF WalkSpec
=============================================================================
