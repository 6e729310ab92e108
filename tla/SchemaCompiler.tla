--------------------------- MODULE SchemaCompiler ---------------------------
(***************************************************************************)
(* The schema compiler v1 (langs/typescript/src/schema-compiler): an       *)
(* author edits a document, compileSchema validates it and emits a JSON    *)
(* Schema, TypeScript declarations and PostgreSQL statements, and somebody *)
(* runs the statements, one by one, on an empty database (PgCatalog).      *)
(*                                                                         *)
(* A record of the input has a "shape": "ok", or the diagnostic that       *)
(* record() gives it.  The walk over the raw JSON value is the module      *)
(* JsonBoundary.                                                           *)
(***************************************************************************)
EXTENDS SchemaLists, PgCatalog

CONSTANTS
    MaxModels, MaxFields, MaxKeys,  \* array limits: 64, 128, 64
    MaxLength,                      \* the largest string length: 1048576
    MaxDiagnostics,                 \* diagnostics are cut off: 100
    PublicSchema                    \* public

SCALARS == {"string", "boolean", "int32", "uuid"}
DeleteActions == {"restrict", "cascade", "setNull"}
Flags == {"true", "false"}          \* JSON booleans; anything else is invalid
NoLength == -1                      \* minLength or maxLength is absent

When(condition, code) == IF condition THEN <<code>> ELSE <<>>

-----------------------------------------------------------------------------
(* naming.js.  FNV-1a of the schema, the table, the kind and the identity, *)
(* with the kind in front.  Only a few hash values exist here, so that     *)
(* names collide, with each other and with the names of tables.            *)

Kinds == <<"pk", "uk", "fk">>

Digest(s) == FoldLeft(LAMBDA acc, x : 2 * acc + x + 1, 7, s)

constraintName(sql, kind, identity) ==
    LET base == CHOOSE k \in DOMAIN Kinds : Kinds[k] = kind
    IN  HashBase + base * HashBuckets
            + (Digest(<<sql.schema, sql.table>> \o identity) % HashBuckets)

foreignIdentity(key, target) ==
    key.fields \o <<target.schema, target.table>> \o key.refFields

-----------------------------------------------------------------------------
(* validate.js, first pass: shapes, arrays, identifiers and scalars.       *)

array(item, min, max) == Len(item) >= min /\ Len(item) <= max

name(item) == When(~IsName(item), "INVALID_IDENTIFIER")

fieldList(item) ==
    IF ~array(item, 1, MaxFields)
    THEN <<"INVALID_ARRAY">>
    ELSE Each(item, name) \o When(~SeqUnique(item), "DUPLICATE_KEY_FIELD")

columnShape(column) ==
    IF column.shape # "ok" THEN <<column.shape>>
    ELSE name(column.field) \o name(column.name)

foreignShape(key) ==
    IF key.shape # "ok" THEN <<key.shape>>
    ELSE fieldList(key.fields)
         \o (IF key.refShape # "ok" THEN <<key.refShape>>
             ELSE name(key.model) \o fieldList(key.refFields))
         \o When(key.onDelete \notin DeleteActions, "UNSUPPORTED_DELETE_ACTION")

bounded(list, min, max, f(_)) ==
    IF array(list, min, max) THEN Each(list, f) ELSE <<"INVALID_ARRAY">>

storage(sql) ==
    IF sql.shape # "ok" THEN <<sql.shape>>
    ELSE name(sql.schema) \o name(sql.table)
         \o bounded(sql.columns, 1, MaxFields, columnShape)
         \o fieldList(sql.primaryKey)
         \o bounded(sql.uniqueKeys, 0, MaxKeys, fieldList)
         \o bounded(sql.foreignKeys, 0, MaxKeys, foreignShape)

lengthShape(field, length) ==
    When(/\ length # NoLength
         /\ field.type # "string" \/ length < 0 \/ length > MaxLength,
         "INVALID_LENGTH")

fieldShape(field) ==
    IF field.shape # "ok" THEN <<field.shape>>
    ELSE name(field.name)
         \o When(field.type \notin SCALARS, "UNSUPPORTED_TYPE")
         \o When(field.required \notin Flags, "INVALID_BOOLEAN")
         \o When(field.nullable \notin Flags, "INVALID_BOOLEAN")
         \o lengthShape(field, field.minLength)
         \o lengthShape(field, field.maxLength)
         \o When(/\ field.minLength # NoLength /\ field.maxLength # NoLength
                 /\ field.minLength > field.maxLength, "CONTRADICTORY_LENGTH")

modelShape(model) ==
    IF model.shape # "ok" THEN <<model.shape>>
    ELSE name(model.name)
         \o bounded(model.fields, 1, MaxFields, fieldShape)
         \o (IF model.stored THEN storage(model.storage) ELSE <<>>)

documentShape(value) ==
    IF value.shape # "ok" THEN <<value.shape>>
    ELSE When(value.version # "ores.schema-ir.v1", "UNSUPPORTED_VERSION")
         \o bounded(value.models, 1, MaxModels, modelShape)

-----------------------------------------------------------------------------
(* validate.js, second pass: the checks that relate parts of the document. *)
(* A JavaScript Map built from a list keeps the last of equal keys.        *)

Stored(value) == Each(value.models, LAMBDA m : IF m.stored THEN <<m>> ELSE <<>>)

FieldNames(model) == {f.name : f \in ToSet(model.fields)}

FieldOf(model, n) ==
    model.fields[SelectLastInSeq(model.fields, LAMBDA f : f.name = n)]

ModelNames(value) == {m.name : m \in ToSet(value.models)}

ModelOf(value, n) ==
    value.models[SelectLastInSeq(value.models, LAMBDA m : m.name = n)]

KeysOf(sql) == <<sql.primaryKey>> \o sql.uniqueKeys

UnknownReference(value, key) ==
    \/ key.model \notin ModelNames(value)
    \/ ~ModelOf(value, key.model).stored

UnresolvedFields(model, key, target) ==
    \/ Len(key.fields) # Len(key.refFields)
    \/ ~(ToSet(key.fields) \subseteq FieldNames(model))
    \/ ~(ToSet(key.refFields) \subseteq FieldNames(target))

NonUniqueReference(key, target) ==
    key.refFields \notin ToSet(KeysOf(target.storage))

TypeMismatch(model, key, target) ==
    \E i \in DOMAIN key.fields :
        FieldOf(model, key.fields[i]).type # FieldOf(target, key.refFields[i]).type

\* Mutant: one nullable field is enough.
InvalidSetNullAll(model, key) ==
    /\ key.onDelete = "setNull"
    /\ \A n \in ToSet(key.fields) : FieldOf(model, n).nullable # "true"

InvalidSetNull(model, key) ==
    /\ key.onDelete = "setNull"
    /\ \E n \in ToSet(key.fields) : FieldOf(model, n).nullable # "true"

foreignKey(value, model, i) ==
    LET key == model.storage.foreignKeys[i]
        target == ModelOf(value, key.model)
        again == \E j \in 1..(i - 1) :
                    LET other == model.storage.foreignKeys[j]
                    IN  /\ other.fields = key.fields /\ other.model = key.model
                        /\ other.refFields = key.refFields
    IN  When(again, "DUPLICATE_FOREIGN_KEY")
        \o (IF UnknownReference(value, key) THEN <<"UNKNOWN_REFERENCE">>
            ELSE IF UnresolvedFields(model, key, target)
            THEN <<"INVALID_FOREIGN_KEY">>
            ELSE When(NonUniqueReference(key, target), "NON_UNIQUE_REFERENCE")
                 \o When(TypeMismatch(model, key, target),
                         "FOREIGN_KEY_TYPE_MISMATCH")
                 \o When(InvalidSetNull(model, key), "INVALID_SET_NULL"))

DuplicateTable(value, i) ==
    \E j \in 1..(i - 1) :
        /\ value.models[j].stored
        /\ value.models[j].storage.schema = value.models[i].storage.schema
        /\ value.models[j].storage.table = value.models[i].storage.table

DuplicateColumn(sql) ==
    \/ Repeats(Map(LAMBDA c : c.field, sql.columns))
    \/ Repeats(Map(LAMBDA c : c.name, sql.columns))

IncompleteMapping(model) ==
    {c.field : c \in ToSet(model.storage.columns)} # FieldNames(model)

LossyPresence(model) == \E f \in ToSet(model.fields) : f.required # "true"

\* Mutant: keys are compared as written, not as sets of fields.
DuplicateKeyAsWritten(sql) == Repeats(KeysOf(sql))

DuplicateKey(sql) == Repeats(Map(ToSet, KeysOf(sql)))

\* Mutant: only the first field of a composite key is looked at.
NullablePrimaryKeyHead(model) ==
    LET n == Head(model.storage.primaryKey)
    IN  n \in FieldNames(model) /\ FieldOf(model, n).nullable = "true"

NullablePrimaryKey(model) ==
    \E n \in ToSet(model.storage.primaryKey) :
        n \in FieldNames(model) /\ FieldOf(model, n).nullable = "true"

relational(value, i) ==
    LET model == value.models[i]
        sql == model.storage
    IN  When(Repeats(Map(LAMBDA f : f.name, model.fields)), "DUPLICATE_FIELD")
        \o (IF ~model.stored THEN <<>>
            ELSE When(sql.schema \in SystemSchemas, "RESERVED_SCHEMA")
            \o When(DuplicateTable(value, i), "DUPLICATE_TABLE")
            \o When(DuplicateColumn(sql), "DUPLICATE_COLUMN")
            \o When(Names(sql.columns) \cap SystemColumns # {}, "RESERVED_COLUMN")
            \o When(IncompleteMapping(model), "INCOMPLETE_MAPPING")
            \o When(LossyPresence(model), "LOSSY_PRESENCE")
            \o When(DuplicateKey(sql), "DUPLICATE_KEY")
            \o Each(KeysOf(sql), LAMBDA k :
                   When(~(ToSet(k) \subseteq FieldNames(model)),
                        "UNKNOWN_KEY_FIELD"))
            \o When(NullablePrimaryKey(model), "NULLABLE_PRIMARY_KEY")
            \o FlattenSeq([k \in DOMAIN sql.foreignKeys |->
                              foreignKey(value, model, k)]))

relationalPass(value) ==
    When(Repeats(Map(LAMBDA m : m.name, value.models)), "DUPLICATE_MODEL")
    \o FlattenSeq([i \in DOMAIN value.models |-> relational(value, i)])

-----------------------------------------------------------------------------
(* validate.js, third pass, only for a document without a diagnostic: no   *)
(* generated name may repeat.  Index names live among the relations.       *)

IndexNames(sql) ==
    <<constraintName(sql, "pk", sql.primaryKey)>>
    \o Map(LAMBDA k : constraintName(sql, "uk", k), sql.uniqueKeys)

ForeignName(value, sql, key) ==
    constraintName(sql, "fk",
                   foreignIdentity(key, ModelOf(value, key.model).storage))

ForeignNames(value, sql) ==
    Map(LAMBDA k : ForeignName(value, sql, k), sql.foreignKeys)

DeclaredRelations(value) ==
    Map(LAMBDA m : <<m.storage.schema, m.storage.table>>, Stored(value))

IndexRelations(value) ==
    Each(Stored(value),
         LAMBDA m : Map(LAMBDA n : <<m.storage.schema, n>>, IndexNames(m.storage)))

\* Mutant: an index is compared with the other indexes, not with the tables.
NameCollisionIndexesOnly(value) ==
    \/ \E m \in ToSet(Stored(value)) :
          Repeats(IndexNames(m.storage) \o ForeignNames(value, m.storage))
    \/ Repeats(IndexRelations(value))

\* The code adds one SQL_NAME_COLLISION per repeated name; one stands for all.
NameCollision(value) ==
    \/ \E m \in ToSet(Stored(value)) :
          Repeats(IndexNames(m.storage) \o ForeignNames(value, m.storage))
    \/ Repeats(DeclaredRelations(value) \o IndexRelations(value))

validate(value) ==
    LET shape == documentShape(value)
        relations == relationalPass(value)
    IN  CASE shape # <<>> -> shape
          [] shape = <<>> /\ relations # <<>> -> relations
          [] OTHER -> When(NameCollision(value), "SQL_NAME_COLLISION")

-----------------------------------------------------------------------------
(* emit.js                                                                 *)

ActionRank(action) == CASE action = "cascade" -> 0 [] action = "restrict" -> 1
                        [] action = "setNull" -> 2

ByName(s) == sortBy(s, LAMBDA x : <<x.name>>)

JsonType(type) == CASE type = "int32" -> "integer" [] type = "boolean" -> "boolean"
                    [] OTHER -> "string"

propertySchema(field) ==
    [name |-> field.name,
     types |-> {JsonType(field.type)} \cup (IF field.nullable = "true" THEN {"null"} ELSE {}),
     uuid |-> field.type = "uuid", int32 |-> field.type = "int32",
     minLength |-> field.minLength, maxLength |-> field.maxLength]

emitJsonSchema(value) ==
    Map(LAMBDA m : [name |-> m.name,
                    properties |-> Map(propertySchema, ByName(m.fields)),
                    required |-> {f.name : f \in {g \in ToSet(m.fields) :
                                                  g.required = "true"}}],
        ByName(value.models))

TsType(type) == CASE type = "int32" -> "number" [] type = "boolean" -> "boolean"
                  [] OTHER -> "string"

emitTypescript(value) ==
    Map(LAMBDA m : [name |-> m.name,
                    fields |-> Map(LAMBDA f : [name |-> f.name,
                                               optional |-> f.required # "true",
                                               type |-> TsType(f.type),
                                               orNull |-> f.nullable = "true"],
                                   ByName(m.fields))],
        ByName(value.models))

ColumnName(sql, field) ==
    sql.columns[SelectLastInSeq(sql.columns, LAMBDA c : c.field = field)].name

columns(sql, fields) == Map(LAMBDA f : ColumnName(sql, f), fields)

KeyClause(sql, kind, key) ==
    [name |-> constraintName(sql, kind, key), columns |-> columns(sql, key)]

KeysInFileOrder(sql) == sql.uniqueKeys             \* mutant: keys are not sorted

SortedKeys(sql) == sortBy(sql.uniqueKeys, LAMBDA k : k)

TableStatement(model) ==
    LET sql == model.storage
        column(c) == LET f == FieldOf(model, c.field)
                     IN  [name |-> c.name, type |-> f.type,
                          nullable |-> f.nullable = "true",
                          minLength |-> f.minLength, maxLength |-> f.maxLength]
    IN  CreateTable(sql.schema, sql.table,
                    Map(column, ByName(sql.columns)),
                    <<KeyClause(sql, "pk", sql.primaryKey)>>
                    \o Map(LAMBDA k : KeyClause(sql, "uk", k), SortedKeys(sql)))

ForeignStatements(value, model) ==
    LET sql == model.storage
        rank(key) == key.fields \o <<-1, key.model>> \o key.refFields
                         \o <<-1, ActionRank(key.onDelete)>>
        statement(key) ==
            LET target == ModelOf(value, key.model).storage
            IN  AddForeignKey(sql.schema, sql.table, ForeignName(value, sql, key),
                              columns(sql, key.fields), target.schema,
                              target.table, columns(target, key.refFields),
                              key.onDelete)
    IN  Map(statement, sortBy(sql.foreignKeys, rank))

emitPostgres(value) ==
    LET stored == sortBy(Stored(value),
                         LAMBDA m : <<m.storage.schema, m.storage.table>>)
        schemas == sortBy(SetToSeq({m.storage.schema : m \in ToSet(stored)}
                                       \ {PublicSchema}), LAMBDA s : <<s>>)
    IN  Map(CreateSchema, schemas)
        \o Map(TableStatement, stored)
        \o Each(stored, LAMBDA m : ForeignStatements(value, m))

(* index.js: all three artifacts, or diagnostics and no artifact.          *)
compileSchema(value) ==
    LET diagnostics == validate(value)
    IN  IF diagnostics # <<>>
        THEN [ok |-> FALSE,
              diagnostics |-> SubSeq(diagnostics, 1, Min({Len(diagnostics), MaxDiagnostics}))]
        ELSE [ok |-> TRUE, jsonSchema |-> emitJsonSchema(value),
              typescript |-> emitTypescript(value),
              postgres |-> emitPostgres(value)]
=============================================================================
