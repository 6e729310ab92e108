---------------------------- MODULE JsonBoundary ----------------------------
(***************************************************************************)
(* The walk both schema compilers make over their input before they look   *)
(* at it: snapshotJson of the compiler v1, which copies what it visits,    *)
(* and jsonValue of the pilot, which only checks.  The input is a heap of  *)
(* JavaScript values: values may be shared and may contain themselves.     *)
(*                                                                         *)
(* A value of kind "leaf" is null, a string, a boolean or a finite number; *)
(* "exotic" is a function, a symbol, NaN or an object with a foreign       *)
(* prototype.  An object or array may have an accessor in place of one     *)
(* property, and an array may have holes.                                  *)
(***************************************************************************)
EXTENDS Naturals, Sequences, FiniteSets, FiniteSetsExt, SequencesExt

CONSTANTS
    Node, Root,         \* the values of the heap; the input
    Heaps,              \* the heaps that are walked
    MaxDepth,           \* 16 levels; 20 in the pilot
    MaxNodes,           \* 200000 values; 100000 in the pilot
    MaxArray            \* 16384 items; 10000 in the pilot

ASSUME JsonLimits == /\ MaxDepth \in Nat /\ MaxNodes \in Nat /\ MaxArray \in Nat
                     /\ Root \in Node

ValueKinds == {"leaf", "object", "array", "exotic"}

\* One value: accessor is the position of a property that is a getter, 0 for none.
Value == {v \in [kind : ValueKinds, kids : Seq(Node), accessor : Nat, sparse : BOOLEAN] :
              /\ v.kind \in {"leaf", "exotic"} => v.kids = <<>>
              /\ v.accessor <= Len(v.kids)
              /\ v.sparse => v.kind = "array"}

ASSUME HeapsAssumption == Heaps \subseteq [Node -> Value]

Walkers == {"snapshotJson", "jsonValue"}

VARIABLES
    heap,               \* the input
    walker,             \* which of the two functions walks it
    stack,              \* open objects: the value and its next property
    ancestors,          \* the WeakSet (or the Set handed down) of open values
    nodes,              \* values visited so far
    verdict             \* "walking", "accepted", "limit" or "notJson"

walkVars == <<heap, walker, stack, ancestors, nodes, verdict>>

Frame == [node : Node, next : Nat \ {0}]
Verdicts == {"walking", "accepted", "limit", "notJson"}

-----------------------------------------------------------------------------
\* snapshotJson, visit(): what becomes of a value met at this depth as the
\* count-th one.  All properties are looked at before the first is entered.
snapshotVisit(v, n, depth, count) ==
    IF depth > MaxDepth \/ count > MaxNodes THEN "limit"
    ELSE IF v.kind = "leaf" THEN "leaf"
    ELSE IF v.kind = "exotic" \/ n \in ancestors THEN "notJson"
    ELSE IF v.kind = "array" /\ Len(v.kids) > MaxArray THEN "limit"
    ELSE IF v.accessor # 0 \/ v.sparse THEN "notJson"
    ELSE "open"

\* jsonValue: an accessor is noticed when its turn comes, holes at the end.
jsonVisit(v, n, depth, count) ==
    IF depth > MaxDepth \/ count > MaxNodes THEN "limit"
    ELSE IF v.kind = "leaf" THEN "leaf"
    ELSE IF v.kind = "exotic" \/ n \in ancestors THEN "notJson"
    ELSE IF v.kind = "array" /\ Len(v.kids) > MaxArray THEN "limit"
    ELSE "open"

\* Mutant: values are not counted.
visitUncounted(n, depth, count) ==
    IF walker = "snapshotJson" THEN snapshotVisit(heap[n], n, depth, 0)
                               ELSE jsonVisit(heap[n], n, depth, 0)

visit(n, depth, count) ==
    IF walker = "snapshotJson" THEN snapshotVisit(heap[n], n, depth, count)
                               ELSE jsonVisit(heap[n], n, depth, count)

\* Enter the value n below the open values of `open`.
Enter(n, open) ==
    LET outcome == visit(n, Len(open), nodes + 1)
    IN  /\ nodes' = nodes + 1
        /\ CASE outcome = "open" ->
                  /\ stack' = Append(open, [node |-> n, next |-> 1])
                  /\ ancestors' = ancestors \cup {n}
                  /\ verdict' = "walking"
             [] outcome = "leaf" ->
                  /\ stack' = open
                  /\ verdict' = IF open = <<>> THEN "accepted" ELSE "walking"
                  /\ UNCHANGED ancestors
             [] outcome \in {"limit", "notJson"} ->
                  verdict' = outcome /\ UNCHANGED <<stack, ancestors>>
        /\ UNCHANGED <<heap, walker>>

Begin ==
    /\ verdict = "walking" /\ nodes = 0
    /\ Enter(Root, <<>>)

Top == stack[Len(stack)]

AccessorIgnored == FALSE                \* mutant: a getter is read like a value

Accessor == walker = "jsonValue" /\ heap[Top.node].accessor = Top.next

\* Go on with the next property of the innermost open value.
Property ==
    /\ verdict = "walking" /\ stack # <<>>
    /\ Top.next <= Len(heap[Top.node].kids)
    /\ IF Accessor
       THEN verdict' = "notJson" /\ UNCHANGED <<heap, walker, stack, ancestors, nodes>>
       ELSE Enter(heap[Top.node].kids[Top.next],
                  [stack EXCEPT ![Len(stack)].next = @ + 1])

\* Mutant: a value stays an ancestor after it was left.
ReturnKeepsAncestor ==
    /\ verdict = "walking" /\ stack # <<>>
    /\ Top.next > Len(heap[Top.node].kids)
    /\ stack' = SubSeq(stack, 1, Len(stack) - 1)
    /\ verdict' = IF walker = "jsonValue" /\ heap[Top.node].sparse THEN "notJson"
                  ELSE IF Len(stack) = 1 THEN "accepted" ELSE "walking"
    /\ UNCHANGED <<heap, walker, nodes, ancestors>>

\* Mutant: the end of the outermost value is not noticed.
ReturnOffByOne ==
    /\ verdict = "walking" /\ stack # <<>>
    /\ Top.next > Len(heap[Top.node].kids)
    /\ stack' = SubSeq(stack, 1, Len(stack) - 1)
    /\ ancestors' = ancestors \ {Top.node}
    /\ verdict' = IF walker = "jsonValue" /\ heap[Top.node].sparse THEN "notJson"
                  ELSE IF Len(stack) = 0 THEN "accepted" ELSE "walking"
    /\ UNCHANGED <<heap, walker, nodes>>

\* The innermost open value is done: ancestors.delete, or the caller's Set.
Return ==
    /\ verdict = "walking" /\ stack # <<>>
    /\ Top.next > Len(heap[Top.node].kids)
    /\ stack' = SubSeq(stack, 1, Len(stack) - 1)
    /\ ancestors' = ancestors \ {Top.node}
    /\ verdict' = IF walker = "jsonValue" /\ heap[Top.node].sparse THEN "notJson"
                  ELSE IF Len(stack) = 1 THEN "accepted" ELSE "walking"
    /\ UNCHANGED <<heap, walker, nodes>>

WalkInit ==
    /\ heap \in Heaps /\ walker \in Walkers
    /\ stack = <<>> /\ ancestors = {} /\ nodes = 0 /\ verdict = "walking"

WalkNext == Begin \/ Property \/ Return

WalkSpec == WalkInit /\ [][WalkNext]_walkVars

\* The walk is one synchronous call: it is never abandoned.
FairWalk == WalkSpec /\ WF_walkVars(WalkNext)

-----------------------------------------------------------------------------
TypeOK ==
    /\ heap \in Heaps /\ walker \in Walkers
    /\ stack \in Seq(Frame) /\ ancestors \subseteq Node
    /\ nodes \in Nat /\ verdict \in Verdicts

\* However often values are shared, the walk stops one value after the limit
\* and is never deeper than the limit (validate.js:23, schema-ir
\* validate.js:28): an input of a few lines cannot make it run for long.
WorkBounded == nodes <= MaxNodes + 1 /\ Len(stack) <= MaxDepth + 1

\* The ancestors are the open values and no others, each open once: a value
\* met again beside itself is shared, a value met again inside itself is a
\* cycle (validate.js:54-58, schema-ir validate.js:34-35).
AncestorsAreOpen ==
    /\ ancestors = {stack[i].node : i \in DOMAIN stack}
    /\ \A i, j \in DOMAIN stack : stack[i].node = stack[j].node => i = j

Plain(v) ==
    \/ v.kind = "leaf"
    \/ v.kind = "object" /\ v.accessor = 0
    \/ /\ v.kind = "array" /\ v.accessor = 0
       /\ ~v.sparse /\ Len(v.kids) <= MaxArray

\* A place in the tree h unfolds to is the way to it: the values from the root down, each with
\* the property the way goes through, the last one with none (0).
Moves(h) == UNION {[node : {n}, via : 0..Len(h[n].kids)] : n \in Node}
Leads(h, way) ==
    /\ way[1].node = Root /\ way[Len(way)].via = 0
    /\ \A i \in 1..(Len(way) - 1) :
          /\ way[i].via \in DOMAIN h[way[i].node].kids
          /\ way[i + 1].node = h[way[i].node].kids[way[i].via]
Ways(h) == {way \in SeqOf(Moves(h), MaxDepth + 1) \ {<<>>} : Leads(h, way)}

\* The tree h unfolds to: JSON values only, none below the deepest level, and not too many.
Fits(h) ==
    LET ways == Ways(h)
    IN  /\ \A way \in ways : LET v == h[way[Len(way)].node]
                             IN  Plain(v) /\ (Len(way) = MaxDepth + 1 => v.kids = <<>>)
        /\ IsFiniteSet(ways) /\ Cardinality(ways) <= MaxNodes

\* Both walks accept exactly the inputs that unfold to a finite tree of JSON
\* values within the three limits; shared values count as often as they occur.
VerdictExact == verdict # "walking" => (verdict = "accepted" <=> Fits(heap))

\* Every walk ends, also over a value that contains itself.
Terminates == <>(verdict # "walking")
=============================================================================
