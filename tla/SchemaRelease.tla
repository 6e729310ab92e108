--------------------------- MODULE SchemaRelease ---------------------------
(***************************************************************************)
(* One life of a schema document: the author changes it a piece at a time, *)
(* compiles it whenever they like (SchemaCompiler), and the statements of  *)
(* an accepted document are run on an empty database (PgCatalog).          *)
(***************************************************************************)
EXTENDS SchemaCompiler

CONSTANTS
    Seeds,              \* the documents the author may start from
    MaxEdits,           \* edits made to one document
    SomeNames,          \* names of models and fields; -1 is malformed
    SomeSchemas, SomeTables, SomeColumns,
    SomeKeys,           \* field lists
    SomeForeign         \* foreign keys

-----------------------------------------------------------------------------
(* What a document can be.  Names, schemas, tables and columns are numbers *)
(* (SchemaLists) and lists are lists, whatever else is wrong with it.      *)

Shapes == {"ok", "UNKNOWN_PROPERTY", "MISSING_PROPERTY", "INVALID_SHAPE"}
Types == SCALARS \cup {"decimal"}
Booleans == Flags \cup {"invalid"}
Actions == DeleteActions \cup {"noAction"}

Columns == [shape : Shapes, field : Int, name : Int]
Foreigns == [shape : Shapes, fields : Seq(Int), refShape : Shapes, model : Int,
             refFields : Seq(Int), onDelete : Actions]
Fields == [shape : Shapes, name : Int, type : Types, required : Booleans, nullable : Booleans,
           minLength : Int, maxLength : Int]
Storages == [shape : Shapes, schema : Int, table : Int, columns : Seq(Columns),
             primaryKey : Seq(Int), uniqueKeys : Seq(Seq(Int)), foreignKeys : Seq(Foreigns)]
Models == [shape : Shapes, name : Int, fields : Seq(Fields), stored : BOOLEAN, storage : Storages]
Documents == [shape : Shapes, version : {"ores.schema-ir.v1", "other"}, models : Seq(Models)]

\* The author starts from documents and writes what a document can hold.
ASSUME AuthorAssumption ==
    /\ Seeds \subseteq Documents /\ MaxLength \in Int
    /\ SomeNames \subseteq Int /\ SomeSchemas \subseteq Int /\ SomeTables \subseteq Int
    /\ SomeColumns \subseteq Int /\ SomeKeys \subseteq Seq(Int) /\ SomeForeign \subseteq Foreigns

VARIABLES
    doc,                \* the document in the author's editor
    edits,              \* how often it was changed
    phase,              \* "editing", "applying", "applied", "rejected", "failed"
    result,             \* what compileSchema returned, Nothing before
    step,               \* the next statement to run
    db                  \* the database the statements run on

vars == <<doc, edits, phase, result, step, db>>

Nothing == [ok |-> FALSE, diagnostics |-> <<>>]
Fresh == EmptyDatabase({PublicSchema})

-----------------------------------------------------------------------------
(* The author.  One edit changes one thing anywhere in the document.       *)

FieldEdits(f) ==
    {[f EXCEPT !.name = n] : n \in SomeNames}
    \cup {[f EXCEPT !.type = t] : t \in SCALARS \cup {"decimal"}}
    \cup {[f EXCEPT !.required = b] : b \in Flags \cup {"invalid"}}
    \cup {[f EXCEPT !.nullable = b] : b \in Flags}
    \cup {[f EXCEPT !.minLength = n] : n \in {0, MaxLength}}
    \cup {[f EXCEPT !.maxLength = n] : n \in {0, MaxLength + 1}}
    \cup {[f EXCEPT !.shape = "UNKNOWN_PROPERTY"]}

StorageEdits(sql) ==
    {[sql EXCEPT !.schema = n] : n \in SomeSchemas}
    \cup {[sql EXCEPT !.table = n] : n \in SomeTables}
    \cup {[sql EXCEPT !.columns[i].name = n] :
              i \in DOMAIN sql.columns, n \in SomeColumns}
    \cup {[sql EXCEPT !.columns[i].field = n] :
              i \in DOMAIN sql.columns, n \in SomeNames}
    \cup {[sql EXCEPT !.columns = Front(@)]}
    \cup {[sql EXCEPT !.primaryKey = k] : k \in SomeKeys}
    \cup {[sql EXCEPT !.uniqueKeys = u] :
              u \in Growth(sql.uniqueKeys, SomeKeys)
                    \cup Replacements(sql.uniqueKeys, SomeKeys)}
    \cup {[sql EXCEPT !.foreignKeys = u] :
              u \in Growth(sql.foreignKeys, SomeForeign)
                    \cup Replacements(sql.foreignKeys, SomeForeign)}
    \cup {[sql EXCEPT !.shape = "MISSING_PROPERTY"]}

ModelEdits(m) ==
    {[m EXCEPT !.name = n] : n \in SomeNames}
    \cup {[m EXCEPT !.fields[i] = f] : i \in DOMAIN m.fields,
              f \in UNION {FieldEdits(g) : g \in ToSet(m.fields)}}
    \cup {[m EXCEPT !.stored = ~@]}
    \cup (IF m.stored THEN {[m EXCEPT !.storage = s] : s \in StorageEdits(m.storage)}
                      ELSE {})
    \cup {[m EXCEPT !.shape = "INVALID_SHAPE"]}

DocumentEdits(d) ==
    {[d EXCEPT !.models[i] = m] : i \in DOMAIN d.models,
         m \in UNION {ModelEdits(n) : n \in ToSet(d.models)}}
    \cup {[d EXCEPT !.models = ms] : ms \in Growth(d.models, ToSet(d.models))}
    \cup {[d EXCEPT !.version = "other"], [d EXCEPT !.shape = "MISSING_PROPERTY"]}

Edit ==
    /\ phase = "editing" /\ edits < MaxEdits
    /\ doc' \in DocumentEdits(doc)
    /\ edits' = edits + 1
    /\ UNCHANGED <<phase, result, step, db>>

-----------------------------------------------------------------------------
Compile ==
    /\ phase = "editing"
    /\ result' = compileSchema(doc)
    /\ phase' = IF result'.ok THEN "applying" ELSE "rejected"
    /\ UNCHANGED <<doc, edits, step, db>>

RunStatement ==
    /\ phase = "applying" /\ step <= Len(result.postgres)
    /\ LET st == result.postgres[step]
       IN  IF CanExecute(db, st)
           THEN /\ db' = Execute(db, st) /\ step' = step + 1
                /\ UNCHANGED phase
           ELSE phase' = "failed" /\ UNCHANGED <<db, step>>
    /\ UNCHANGED <<doc, edits, result>>

Finish ==
    /\ phase = "applying" /\ step > Len(result.postgres)
    /\ phase' = "applied"
    /\ UNCHANGED <<doc, edits, result, step, db>>

\* The disposable database is dropped and the author goes on.
Revise ==
    /\ phase \in {"applied", "rejected"}
    /\ phase' = "editing" /\ result' = Nothing /\ step' = 1 /\ db' = Fresh
    /\ UNCHANGED <<doc, edits>>

Init ==
    /\ doc \in Seeds /\ edits = 0 /\ phase = "editing"
    /\ result = Nothing /\ step = 1 /\ db = Fresh

Next == Edit \/ Compile \/ RunStatement \/ Finish \/ Revise

Spec == Init /\ [][Next]_vars

-----------------------------------------------------------------------------
\* The statements of an accepted document run to the end on an empty
\* database: names do not clash, targets and candidate keys exist, types
\* match, whatever the order, the cycles and the hash of the names
\* (validate.js:199-300, emit.js:99 "without ordering-dependent failures").
SqlExecutes == phase # "failed"

\* The part of an artifact with this name.
Named(parts, n) == parts[SelectInSeq(parts, LAMBDA x : x.name = n)]

\* A column, a property of the JSON Schema and a field of the TypeScript type
\* describe the same values.
SameValues(column, property, field) ==
    /\ column.nullable <=> "null" \in property.types
    /\ column.nullable <=> field.orNull
    /\ JsonType(column.type) \in property.types
    /\ ~field.optional
    /\ column.maxLength = property.maxLength /\ column.minLength = property.minLength

\* The database that results enforces what the other two artifacts promise:
\* every field of a stored model has a column of its type, a value may be
\* null in all three or in none, and no field is optional in one of them.
ArtifactsAgree ==
    phase = "applied" =>
        \A m \in ToSet(Stored(doc)) :
            LET json == Named(result.jsonSchema, m.name)
                ts == Named(result.typescript, m.name)
                t == TableOf(db, m.storage.schema, m.storage.table)
            IN  /\ HasTable(db, m.storage.schema, m.storage.table)
                /\ Cardinality(t.columns) = Len(json.properties)
                /\ \A c \in ToSet(m.storage.columns) :
                      /\ SameValues(ColumnOf(t, c.name), Named(json.properties, c.field),
                                    Named(ts.fields, c.field))
                      /\ c.field \in json.required

\* A row can always be deleted under ON DELETE SET NULL: every referencing
\* column accepts NULL in the finished database (INVALID_SET_NULL).
SetNullCannotFail ==
    phase = "applied" => \A fk \in db.foreign : SetNullPossible(db, fk)

\* Nothing declared is lost on the way: one table per stored model, one
\* foreign key per declared relationship and no two keys of a table over the
\* same columns (DUPLICATE_TABLE, DUPLICATE_FOREIGN_KEY, DUPLICATE_KEY).
NothingLost ==
    phase = "applied" =>
        LET stored == Stored(doc)
        IN  /\ Cardinality(db.tables) = Len(stored)
            /\ Cardinality(db.foreign)
                 = FoldLeft(LAMBDA n, m : n + Len(m.storage.foreignKeys), 0, stored)
            /\ \A m \in ToSet(stored) :
                  Cardinality(TableOf(db, m.storage.schema, m.storage.table).keys)
                      = 1 + Len(m.storage.uniqueKeys)

\* The document with two neighbours of one list exchanged.
Reorderings(d) ==
    {[d EXCEPT !.models = s] : s \in Neighbours(d.models)}
    \cup UNION {
        {[d EXCEPT !.models[i].fields = s] : s \in Neighbours(d.models[i].fields)}
        \cup (IF ~d.models[i].stored THEN {} ELSE
              LET sql == d.models[i].storage IN
              {[d EXCEPT !.models[i].storage.columns = s] :
                   s \in Neighbours(sql.columns)}
              \cup {[d EXCEPT !.models[i].storage.uniqueKeys = s] :
                        s \in Neighbours(sql.uniqueKeys)}
              \cup {[d EXCEPT !.models[i].storage.foreignKeys = s] :
                        s \in Neighbours(sql.foreignKeys)})
        : i \in DOMAIN d.models}

\* "Reordering declarations ... produces byte-identical artifacts"
\* (docs/schema-compiler-v1.md): exchanging two declarations changes neither
\* the verdict nor any of the three artifacts.
OrderIndependent ==
    phase \in {"rejected", "applied"} =>
        \A d \in Reorderings(doc) :
            LET other == compileSchema(d)
            IN  other.ok = result.ok /\ (result.ok => other = result)

\* Every declaration of a document that compileSchema accepts is in its SQL, and where it was
\* written in the document changes no artifact.
DeclarationsKept == NothingLost /\ OrderIndependent
=============================================================================
