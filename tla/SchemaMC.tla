------------------------------ MODULE SchemaMC ------------------------------
(***************************************************************************)
(* The schema compilers for TLC: a value that is walked (JsonBoundary), a  *)
(* document of the compiler v1 (SchemaRelease) or one of the pilot         *)
(* (SchemaIrRelease).  The three share nothing, so one state graph holds   *)
(* them all: the parts that are not chosen stay in a state of their own.   *)
(***************************************************************************)
EXTENDS JsonBoundary, SchemaRelease, SchemaIrRelease

(* Values and heaps.                                                       *)
MC_Node == 1..3
Kids == UNION {[1..k -> MC_Node] : k \in 0..3}
Leaf == [kind |-> "leaf", kids |-> <<>>, accessor |-> 0, sparse |-> FALSE]
Plainly(k, kids) == [kind |-> k, kids |-> kids, accessor |-> 0, sparse |-> FALSE]
Values ==
    {Plainly("object", kids) : kids \in Kids}
    \cup {Plainly("array", <<1, 2, 3>>), Plainly("array", <<3, 3>>), Leaf,
          Plainly("exotic", <<>>),
          [Plainly("array", <<3>>) EXCEPT !.sparse = TRUE]}
    \cup {[Plainly("object", <<2, 3>>) EXCEPT !.accessor = i] : i \in 1..2}
Third == {Leaf, Plainly("object", <<>>), Plainly("object", <<2>>), Plainly("object", <<1>>)}

\* Every graph of two objects with up to three properties, and a third value.
MC_Heaps == {<<a, b, c>> : a \in Values, b \in Values, c \in Third}

-----------------------------------------------------------------------------
(* Documents of the compiler v1.  -1 is an absent length.                  *)
Field(n, type, nullable) ==
    [shape |-> "ok", name |-> n, type |-> type, required |-> "true",
     nullable |-> nullable, minLength |-> -1, maxLength |-> -1]

Column(f, n) == [shape |-> "ok", field |-> f, name |-> n]

Foreign(fields, model, refFields, onDelete) ==
    [shape |-> "ok", fields |-> fields, refShape |-> "ok", model |-> model,
     refFields |-> refFields, onDelete |-> onDelete]

Model(n, fields, schema, table, columnNames, pk, uks, fks) ==
    [shape |-> "ok", name |-> n, fields |-> fields, stored |-> TRUE,
     storage |-> [shape |-> "ok", schema |-> schema, table |-> table,
                  columns |-> [i \in DOMAIN fields |->
                                  Column(fields[i].name, columnNames[i])],
                  primaryKey |-> pk, uniqueKeys |-> uks, foreignKeys |-> fks]]

Document(models) ==
    [shape |-> "ok", version |-> "ores.schema-ir.v1", models |-> models]

\* Two tables that refer to each other, in two schemas.
Cycle == Document(<<
    Model(2, <<Field(2, "uuid", "true"), Field(1, "uuid", "false")>>, 1, 2,
          <<2, 1>>, <<1>>, <<<<2>>>>, <<Foreign(<<2>>, 1, <<1>>, "setNull")>>),
    Model(1, <<Field(1, "uuid", "false"), Field(2, "uuid", "false")>>, 0, 1,
          <<1, 2>>, <<1>>, <<>>, <<Foreign(<<2>>, 2, <<1>>, "restrict")>>)>>)

\* A composite key, and a table that refers to itself.
Composite == Document(<<
    Model(1, <<Field(1, "uuid", "false"), Field(2, "uuid", "true")>>, 0, 1,
          <<1, 2>>, <<1>>, <<<<1, 2>>>>,
          <<Foreign(<<2>>, 1, <<1>>, "cascade"),
            Foreign(<<2, 1>>, 1, <<1, 2>>, "restrict")>>)>>)

ModelSeeds == {Cycle, Composite}
ModelKeys == {<<>>, <<1>>, <<2>>, <<1, 2>>, <<2, 1>>, <<1, 1>>}
ModelForeigns ==
    {Foreign(<<2>>, 1, <<1>>, a) : a \in {"setNull", "noAction"}}
    \cup {Foreign(<<1, 2>>, m, <<1, 2>>, "setNull") : m \in {1, 2}}
    \cup {Foreign(<<1>>, 1, <<2>>, "restrict"),
          [Foreign(<<1>>, 2, <<2>>, "restrict") EXCEPT !.refShape = "INVALID_SHAPE"]}
DocumentNames == {-1, 1, 2, 3}

-----------------------------------------------------------------------------
(* Documents of the pilot.  -12 is an absent bound.                        *)
IrField(n, column, type, required, nullable) ==
    [shape |-> "ok", name |-> n, column |-> column, type |-> type,
     required |-> required, nullable |-> nullable, minLength |-> -12,
     maxLength |-> -12, minimum |-> -12, maximum |-> -12]

IrForeign(fields, target, refFields, onDelete) ==
    [shape |-> "ok", refShape |-> "ok", fields |-> fields, entity |-> target,
     refFields |-> refFields, onDelete |-> onDelete]

Entity(n, table, fields, pk, uks, indexes, fks) ==
    [shape |-> "ok", name |-> n, table |-> table, fields |-> fields,
     primaryKey |-> pk, uniqueKeys |-> uks, indexes |-> indexes, foreignKeys |-> fks]

IrDocument(es) ==
    [shape |-> "ok", version |-> "ores.schema-ir.v1", schema |-> 0, entities |-> es]

IrCycle == IrDocument(<<
    Entity(2, 2, <<IrField(2, 2, "int32", TRUE, TRUE), IrField(1, 1, "int32", TRUE, FALSE)>>,
           <<1>>, <<>>, <<<<2>>>>, <<IrForeign(<<2>>, 1, <<1>>, "setNull")>>),
    Entity(1, 1, <<IrField(1, 1, "int32", TRUE, FALSE), IrField(2, 2, "string", FALSE, FALSE)>>,
           <<1>>, <<<<2>>>>, <<>>, <<IrForeign(<<1>>, 2, <<1>>, "absent")>>)>>)

\* Two foreign keys, written in the order the compiler will not keep.
Unsorted == IrDocument(<<
    Entity(1, 1, <<IrField(1, 1, "int32", TRUE, FALSE), IrField(2, 2, "int32", TRUE, TRUE)>>,
           <<1>>, <<<<1, 2>>>>, <<<<2, 1>>, <<2>>>>,
           <<IrForeign(<<2>>, 1, <<1>>, "cascade"), IrForeign(<<1>>, 1, <<1>>, "absent")>>)>>)

Least == -2
PilotSeeds == {IrCycle, Unsorted}
PilotNames == {-1, 1, 2, 8, 11}
PilotTuples == {<<1>>, <<2>>, <<1, 2>>, <<2, 1>>, <<1, 1>>, <<3>>}
PilotBounds == {-3, 0, 2, 3}
PilotForeigns ==
    {IrForeign(<<1, 2>>, 1, <<1, 2>>, a) : a \in {"setNull", "absent"}}
    \cup {IrForeign(<<2>>, 2, <<1>>, "restrict"), IrForeign(<<2>>, 1, <<2>>, "cascade"),
          IrForeign(<<1>>, 1, <<1>>, "later"),
          [IrForeign(<<1>>, 2, <<2>>, "absent") EXCEPT !.refShape = "INVALID_TYPE"]}

VARIABLE part

-----------------------------------------------------------------------------
\* The walk over a single leaf, when it is done.
Walked == /\ heap = <<Leaf, Leaf, Leaf>> /\ walker = "jsonValue"
          /\ stack = <<>> /\ ancestors = {} /\ nodes = 1 /\ verdict = "accepted"

MCInit ==
    /\ part \in {"boundary", "compiler", "pilot"}
    /\ IF part = "boundary" THEN WalkInit ELSE Walked
    /\ Init /\ (part # "compiler" => doc = Cycle)
    /\ IrInit /\ (part # "pilot" => irDoc = IrCycle)

Walk == part = "boundary" /\ WalkNext /\ UNCHANGED <<part, vars, irVars>>

MCNext ==
    \/ Walk
    \/ part = "compiler" /\ Next /\ UNCHANGED <<part, walkVars, irVars>>
    \/ part = "pilot" /\ IrNext /\ UNCHANGED <<part, walkVars, vars>>

MCSpec ==
    /\ MCInit /\ [][MCNext]_<<part, walkVars, vars, irVars>>
    /\ WF_walkVars(Walk)
=============================================================================
