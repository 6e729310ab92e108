-------------------------- MODULE SchemaIrRelease --------------------------
(***************************************************************************)
(* A schema IR document in its author's hands: edited, compiled by         *)
(* compileSchemaIr (SchemaIr), and its SQL run on a database that has the  *)
(* document's schema and nothing else ("Schema provisioning ... remain     *)
(* external", index.js:63).                                                *)
(***************************************************************************)
EXTENDS SchemaIr

CONSTANTS
    IrSeeds, MaxIrEdits,    \* where the author starts, and how far they go
    SomeEntityNames, SomeEntityTables, SomeEntityColumns, SomeBounds, SomeTuples, SomeEntityForeign

-----------------------------------------------------------------------------
(* What a document can be.  Names, tables and columns are numbers and      *)
(* lists are lists, whatever else is wrong with it.                        *)

IrShapes == {"ok", "INVALID_TYPE", "MISSING_PROPERTY", "UNKNOWN_PROPERTY"}

IrFields == [shape : IrShapes \cup {"PRESENCE"}, name : Int, column : Int,
             type : TYPES \cup {"decimal"}, required : BOOLEAN, nullable : BOOLEAN,
             minLength : Int, maxLength : Int, minimum : Int, maximum : Int]
IrForeigns == [shape : IrShapes, refShape : IrShapes, fields : Seq(Int), entity : Int,
               refFields : Seq(Int), onDelete : DELETE_ACTIONS \cup {Absent, "later"}]
IrEntities == [shape : IrShapes, name : Int, table : Int, fields : Seq(IrFields),
               primaryKey : Seq(Int), uniqueKeys : Seq(Seq(Int)), indexes : Seq(Seq(Int)),
               foreignKeys : Seq(IrForeigns)]
IrDocuments == [shape : IrShapes, version : {"ores.schema-ir.v1", "other"}, schema : Int,
                entities : Seq(IrEntities)]

\* The author starts from documents and writes what a document can hold; a
\* hash is one of finitely many.
ASSUME IrAuthorAssumption ==
    /\ IrSeeds \subseteq IrDocuments /\ SystemSchemas \subseteq Int
    /\ SomeEntityNames \subseteq Int /\ SomeEntityTables \subseteq Int
    /\ SomeEntityColumns \subseteq Int /\ SomeBounds \subseteq Int
    /\ SomeTuples \subseteq Seq(Int) /\ SomeEntityForeign \subseteq IrForeigns
    /\ MinInt \in Int /\ MaxInt \in Int /\ MaxTextLength \in Int
    /\ HashBase \in Int /\ HashBuckets \in Nat \ {0}

VARIABLES irDoc, irEdits, irPhase, irResult, irStep, irDb

irVars == <<irDoc, irEdits, irPhase, irResult, irStep, irDb>>

NotCompiled == [ok |-> FALSE]
Provisioned(d) == EmptyDatabase({d.schema})

-----------------------------------------------------------------------------
EntityFieldEdits(f) ==
    {[f EXCEPT !.name = n] : n \in SomeEntityNames}
    \cup {[f EXCEPT !.column = n] : n \in SomeEntityColumns}
    \cup {[f EXCEPT !.type = t] : t \in TYPES \cup {"decimal"}}
    \cup {[f EXCEPT !.required = ~@], [f EXCEPT !.nullable = ~@],
          [f EXCEPT !.shape = "INVALID_TYPE"], [f EXCEPT !.shape = "PRESENCE"]}
    \cup {[f EXCEPT !.minLength = b] : b \in SomeBounds}
    \cup {[f EXCEPT !.maxLength = b] : b \in SomeBounds}
    \cup {[f EXCEPT !.minimum = b] : b \in SomeBounds}
    \cup {[f EXCEPT !.maximum = b] : b \in SomeBounds}

EntityEdits(e) ==
    {[e EXCEPT !.name = n] : n \in SomeEntityNames}
    \cup {[e EXCEPT !.table = n] : n \in SomeEntityTables}
    \cup {[e EXCEPT !.fields = s] : s \in
              Replacements(e.fields, UNION {EntityFieldEdits(f) : f \in ToSet(e.fields)})}
    \cup {[e EXCEPT !.primaryKey = k] : k \in SomeTuples}
    \cup {[e EXCEPT !.uniqueKeys = s] : s \in Growth(e.uniqueKeys, SomeTuples)}
    \cup {[e EXCEPT !.indexes = s] : s \in Growth(e.indexes, SomeTuples)}
    \cup {[e EXCEPT !.foreignKeys = s] : s \in
              Growth(e.foreignKeys, SomeEntityForeign)
              \cup Replacements(e.foreignKeys, SomeEntityForeign)}
    \cup {[e EXCEPT !.shape = "MISSING_PROPERTY"]}

IrEdits(d) ==
    {[d EXCEPT !.entities = s] : s \in
         Growth(d.entities, ToSet(d.entities))
         \cup Replacements(d.entities, UNION {EntityEdits(e) : e \in ToSet(d.entities)})}
    \cup {[d EXCEPT !.version = "other"], [d EXCEPT !.shape = "UNKNOWN_PROPERTY"]}
    \cup {[d EXCEPT !.schema = n] : n \in SystemSchemas}

IrEdit ==
    /\ irPhase = "editing" /\ irEdits < MaxIrEdits
    /\ irDoc' \in IrEdits(irDoc)
    /\ irEdits' = irEdits + 1
    /\ irDb' = Provisioned(irDoc')
    /\ UNCHANGED <<irPhase, irResult, irStep>>

IrCompile ==
    /\ irPhase = "editing"
    /\ irResult' = compileSchemaIr(irDoc)
    /\ irPhase' = IF irResult'.ok THEN "applying" ELSE "rejected"
    /\ UNCHANGED <<irDoc, irEdits, irStep, irDb>>

IrRunStatement ==
    /\ irPhase = "applying" /\ irStep <= Len(irResult.sql)
    /\ LET st == irResult.sql[irStep]
       IN  IF CanExecute(irDb, st)
           THEN irDb' = Execute(irDb, st) /\ irStep' = irStep + 1 /\ UNCHANGED irPhase
           ELSE irPhase' = "failed" /\ UNCHANGED <<irDb, irStep>>
    /\ UNCHANGED <<irDoc, irEdits, irResult>>

IrFinish ==
    /\ irPhase = "applying" /\ irStep > Len(irResult.sql)
    /\ irPhase' = "applied"
    /\ UNCHANGED <<irDoc, irEdits, irResult, irStep, irDb>>

IrRevise ==
    /\ irPhase \in {"applied", "rejected", "failed"}
    /\ irPhase' = "editing" /\ irResult' = NotCompiled /\ irStep' = 1 /\ irDb' = Provisioned(irDoc)
    /\ UNCHANGED <<irDoc, irEdits>>

IrInit ==
    /\ irDoc \in IrSeeds /\ irEdits = 0 /\ irPhase = "editing"
    /\ irResult = NotCompiled /\ irStep = 1 /\ irDb = Provisioned(irDoc)

IrNext == IrEdit \/ IrCompile \/ IrRunStatement \/ IrFinish \/ IrRevise

IrSpec == IrInit /\ [][IrNext]_irVars

-----------------------------------------------------------------------------
\* Only what the compiler says it does not check can stop the statements of
\* an accepted document: two foreign keys of one table whose generated names
\* are the same (index.js:20 "Foreign-key names are not relations and are
\* not checked").  No other name clashes, no target is missing.
OnlyForeignNamesClash ==
    irPhase = "failed" =>
        \E e \in ToSet(irResult.ir.entities) :
            Repeats(Map(LAMBDA fk : EntityForeignName(e, fk), e.foreignKeys))

FieldsOf(types, e) == types[SelectInSeq(types, LAMBDA t : t.name = e.name)].fields

Same(s, n) == s[SelectInSeq(s, LAMBDA x : x.name = n)]

\* All six descriptions of a field admit null in the same cases, and the
\* five that know absence agree on it; a missing value is never stored as
\* null in a primary key (index.js:36-118, INVALID_PRIMARY_KEY).
ShapesAgree ==
    irPhase = "applied" =>
        \A e \in ToSet(irDoc.entities) : \A f \in ToSet(e.fields) :
            LET json == Same(irResult.jsonSchemas, e.name)
                cue == Same(irResult.cue, e.name)
                types == {Same(FieldsOf(t, e), f.name) :
                             t \in {irResult.typescript, irResult.rust, irResult.dart}}
                column == ColumnOf(TableOf(irDb, irDoc.schema, e.table), f.column)
                null == Same(json.properties, f.name).nullable
                optional == f.name \notin json.required
            IN  /\ column.nullable = null
                /\ Same(cue.fields, f.name).nullable = null
                /\ (f.name \in cue.optional) = optional
                /\ \A t \in types : t.nullable = null /\ t.optional = optional
                /\ f.name \in ToSet(e.primaryKey) => ~null /\ ~optional

\* The values of an integer the JSON Schema admits are the values the column
\* admits, and there is one; the same for the lengths of a string.
RangesAgree ==
    irPhase = "applied" =>
        \A e \in ToSet(irDoc.entities) : \A f \in ToSet(e.fields) :
            LET json == Same(Same(irResult.jsonSchemas, e.name).properties, f.name)
                column == ColumnOf(TableOf(irDb, irDoc.schema, e.table), f.column)
                stored == {v \in MinInt..MaxInt :
                             /\ v >= Or(column.minimum, MinInt)
                             /\ v <= Or(column.maximum, MaxInt)}
            IN  /\ f.type = "int32" =>
                     /\ stored # {}
                     /\ stored = json.range.min..json.range.max
                /\ f.type = "string" =>
                     /\ json.lengths = [min |-> column.minLength, max |-> column.maxLength]
                     /\ Or(column.minLength, 0) <= Or(column.maxLength, MaxTextLength)

\* Every artifact has a file of its own, also where file names do not
\* distinguish upper and lower case (validate.js:138, index.js:129).
FilesDistinct ==
    irResult.ok =>
        Cardinality({Lower(s.name) : s \in ToSet(irResult.jsonSchemas)})
            = Len(irDoc.entities)

IrReorderings(d) ==
    {[d EXCEPT !.entities = s] : s \in Neighbours(d.entities)}
    \cup UNION {LET e == d.entities[i] IN
                {[d EXCEPT !.entities[i].fields = s] : s \in Neighbours(e.fields)}
                \cup {[d EXCEPT !.entities[i].uniqueKeys = s] :
                         s \in Neighbours(e.uniqueKeys)}
                \cup {[d EXCEPT !.entities[i].indexes = s] : s \in Neighbours(e.indexes)}
                \cup {[d EXCEPT !.entities[i].foreignKeys = s] :
                         s \in Neighbours(e.foreignKeys)}
                : i \in DOMAIN d.entities}

\* "Entity and field ordering is normalized" (docs/schema-ir.md:32): a
\* document with two declarations exchanged has the same verdict and, file
\* by file, the same output.
IrOrderIndependent ==
    irPhase \in {"rejected", "applied"} =>
        \A d \in IrReorderings(irDoc) :
            LET other == compileSchemaIr(d)
            IN  other.ok = irResult.ok /\ (irResult.ok => other = irResult)

\* PostgreSQL executes every statement of compileSchemaIr but where two
\* generated foreign-key names are equal, its six descriptions of a field agree
\* on null, absence, integers and lengths, no two share a file, whatever the
\* file system, and the order of the document's declarations decides nothing.
PilotArtifactsSound ==
    /\ OnlyForeignNamesClash /\ ShapesAgree /\ RangesAgree /\ FilesDistinct
    /\ IrOrderIndependent
=============================================================================
