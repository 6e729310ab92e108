------------------------------ MODULE SchemaIr ------------------------------
(***************************************************************************)
(* The schema IR pilot (langs/typescript/src/schema-ir): normalizeSchemaIr *)
(* stops at the first failure and otherwise returns a sorted copy, from    *)
(* which compileSchemaIr emits SQL, four languages' types and JSON Schema. *)
(*                                                                         *)
(* Two names with the same Lower differ in case only.  A failure is a code *)
(* and the JSON Pointer it is reported at: <<>>, <<entity>> or             *)
(* <<entity, foreign key>>.                                                *)
(***************************************************************************)
EXTENDS SchemaLists, PgCatalog

CONSTANTS
    MaxEntities, MaxEntityFields, MaxEntityKeys, MaxTuple,  \* 64, 256, 64, 16
    MaxTextLength, MinInt, MaxInt,              \* string lengths 0..1000000; the int32s
    ReservedFields, ReservedModels

TYPES == {"string", "uuid", "int32", "boolean"}
DELETE_ACTIONS == {"noAction", "restrict", "cascade", "setNull"}
Absent == "absent"                  \* no onDelete in the input
NoBound == MinInt - 10              \* an optional bound that is not there

Lower(n) == n % 10

fail(condition, code, at) ==
    IF condition THEN <<[code |-> code, at |-> at]>> ELSE <<>>

\* What is thrown first is what is reported: later checks run on sound data.
Then(first, rest) == IF first # <<>> THEN first ELSE rest

Or(bound, default) == IF bound = NoBound THEN default ELSE bound

-----------------------------------------------------------------------------
(* validate.js: fields and key tuples                                      *)

list(value, min, max, at) ==
    fail(Len(value) < min \/ Len(value) > max, "INVALID_ARRAY", at)

identifier(value, reserved, at) ==
    fail(~IsName(value) \/ value \in reserved, "INVALID_IDENTIFIER", at)

optionalBound(value, bound, type, min, max, at) ==
    IF bound = NoBound THEN <<>>
    ELSE fail(value.type # type, "INVALID_CONSTRAINT", at)
         \o fail(bound < min \/ bound > max, "INVALID_RANGE", at)

\* Mutant: only the lengths are compared.
EmptyRangeLengths(f) == Or(f.minLength, 0) > Or(f.maxLength, MaxTextLength)

EmptyRange(f) ==
    \/ Or(f.minLength, 0) > Or(f.maxLength, MaxTextLength)
    \/ Or(f.minimum, MinInt) > Or(f.maximum, MaxInt)

\* The shape of a field is what record() makes of it, or PRESENCE: an object
\* whose required or nullable is no boolean.
field(f, at) ==
    IF f.shape \notin {"ok", "PRESENCE"} THEN fail(TRUE, f.shape, at)
    ELSE identifier(f.name, ReservedFields, at)
         \o identifier(f.column, SystemColumns, at)
         \o fail(f.type \notin TYPES, "UNSUPPORTED_TYPE", at)
         \o fail(f.shape = "PRESENCE", "INVALID_TYPE", at)
         \o optionalBound(f, f.minLength, "string", 0, MaxTextLength, at)
         \o optionalBound(f, f.maxLength, "string", 0, MaxTextLength, at)
         \o optionalBound(f, f.minimum, "int32", MinInt, MaxInt, at)
         \o optionalBound(f, f.maximum, "int32", MinInt, MaxInt, at)
         \o fail(EmptyRange(f), "INVALID_RANGE", at)

EntityFields(e) == {f.name : f \in ToSet(e.fields)}

EntityField(e, n) == e.fields[SelectLastInSeq(e.fields, LAMBDA f : f.name = n)]

tuple(key, known, at) ==
    list(key, 1, MaxTuple, at)
    \o fail(~(ToSet(key) \subseteq known), "INVALID_REFERENCE", at)
    \o fail(Repeats(key), "DUPLICATE", at)

-----------------------------------------------------------------------------
(* validate.js: one entity                                                 *)

entityForeignKey(fk, known, at) ==
    IF fk.shape # "ok" THEN fail(TRUE, fk.shape, at)
    ELSE IF fk.refShape # "ok" THEN fail(TRUE, fk.refShape, at)
    ELSE identifier(fk.entity, ReservedModels, at)
         \o list(fk.refFields, 1, MaxTuple, at)
         \o Each(fk.refFields, LAMBDA n : identifier(n, ReservedFields, at))
         \o fail(Repeats(fk.refFields), "DUPLICATE", at)
         \o fail(fk.onDelete \notin DELETE_ACTIONS \cup {Absent},
                 "UNKNOWN_PROPERTY", at)
         \o tuple(fk.fields, known, at)
         \o fail(Len(fk.fields) # Len(fk.refFields), "INVALID_REFERENCE", at)

\* Mutant: only the first field of a composite key is looked at.
InvalidPrimaryKeyHead(e) ==
    EntityField(e, Head(e.primaryKey)).nullable \/ ~EntityField(e, Head(e.primaryKey)).required

InvalidPrimaryKey(e) ==
    \E n \in ToSet(e.primaryKey) :
        EntityField(e, n).nullable \/ ~EntityField(e, n).required

entityFailures(e, i) ==
    LET at == <<i>>
        known == EntityFields(e)
    IN  IF e.shape # "ok" THEN fail(TRUE, e.shape, at)
        ELSE Then(identifier(e.name, ReservedModels, at) \o identifier(e.table, {}, at)
                  \o list(e.fields, 1, MaxEntityFields, at)
                  \o Each(e.fields, LAMBDA f : field(f, at))
                  \o fail(Repeats(Map(LAMBDA f : f.name, e.fields)), "DUPLICATE", at)
                  \o fail(Repeats(Map(LAMBDA f : f.column, e.fields)), "DUPLICATE", at)
                  \o tuple(e.primaryKey, known, at),
             Then(fail(InvalidPrimaryKey(e), "INVALID_PRIMARY_KEY", at)
                  \o list(e.uniqueKeys, 0, MaxEntityKeys, at)
                  \o Each(e.uniqueKeys, LAMBDA k : tuple(k, known, at))
                  \o list(e.indexes, 0, MaxEntityKeys, at)
                  \o Each(e.indexes, LAMBDA k : tuple(k, known, at))
                  \o fail(Repeats(Map(ToSet, <<e.primaryKey>> \o e.uniqueKeys)),
                          "DUPLICATE", at)
                  \o fail(Repeats(e.indexes), "DUPLICATE", at)
                  \o list(e.foreignKeys, 0, MaxEntityKeys, at)
                  \o FlattenSeq([j \in DOMAIN e.foreignKeys |->
                        entityForeignKey(e.foreignKeys[j], known, <<i, j>>)])
                  \o fail(Repeats(Map(LAMBDA fk : <<fk.fields, fk.entity, fk.refFields>>,
                                      e.foreignKeys)), "DUPLICATE", at),
             <<>>))

-----------------------------------------------------------------------------
(* What entity() returns: its lists are sorted from here on.               *)

DeleteRank(action) ==
    CASE action = "cascade" -> 0 [] action = "noAction" -> 1
      [] action = "restrict" -> 2 [] action = "setNull" -> 3

\* JSON.stringify of a foreign key, as a key to sort by and as a detail to hash.
ForeignJson(fk) == fk.fields \o <<-1, fk.entity>> \o fk.refFields
                       \o <<-1, DeleteRank(fk.onDelete)>>

ForeignRankFields(fk) == fk.fields      \* mutant: the target does not count

ForeignRank(fk) == ForeignJson(fk)

withDelete(fk) == [fk EXCEPT !.onDelete = IF @ = Absent THEN "noAction" ELSE @]

entity(e) ==
    [e EXCEPT !.fields = sortBy(@, LAMBDA f : <<f.name>>),
              !.uniqueKeys = sortBy(@, LAMBDA k : k),
              !.indexes = sortBy(@, LAMBDA k : k),
              !.foreignKeys = sortBy(Map(withDelete, @), ForeignRank)]

-----------------------------------------------------------------------------
(* validate.js: the whole document                                         *)

EntityOf(es, n) == es[SelectLastInSeq(es, LAMBDA e : e.name = n)]

\* One foreign key of an entity, with the entities already normalised.
BadReference(es, e, fk) ==
    LET target == EntityOf(es, fk.entity)
    IN  \/ fk.entity \notin {t.name : t \in ToSet(es)}
        \/ ~(ToSet(fk.refFields) \subseteq EntityFields(target))
        \/ fk.refFields \notin ToSet(<<target.primaryKey>> \o target.uniqueKeys)
        \/ \E k \in DOMAIN fk.fields :
              EntityField(e, fk.fields[k]).type # EntityField(target, fk.refFields[k]).type
        \/ /\ fk.onDelete = "setNull"
           /\ \E n \in ToSet(fk.fields) : ~EntityField(e, n).nullable

\* The index j counts the foreign keys after entity() sorted them.
referenceFailures(es) ==
    FlattenSeq([i \in DOMAIN es |->
        FlattenSeq([j \in DOMAIN es[i].foreignKeys |->
            fail(BadReference(es, es[i], es[i].foreignKeys[j]),
                 "INVALID_REFERENCE", <<i, j>>)])])

\* Mutant: names that differ in case only are let through.
DuplicateEntitiesExact(es) ==
    Repeats(Map(LAMBDA e : e.name, es)) \/ Repeats(Map(LAMBDA e : e.table, es))

DuplicateEntities(es) ==
    \/ Repeats(Map(LAMBDA e : Lower(e.name), es))
    \/ Repeats(Map(LAMBDA e : e.table, es))

normalizedEntities(input) == Map(entity, input.entities)

normalizeFailures(input) ==
    IF input.shape # "ok" THEN fail(TRUE, input.shape, <<>>)
    ELSE Then(fail(input.version # "ores.schema-ir.v1", "UNSUPPORTED_VERSION", <<>>)
              \o identifier(input.schema, SystemSchemas, <<>>)
              \o list(input.entities, 1, MaxEntities, <<>>)
              \o FlattenSeq([i \in DOMAIN input.entities |->
                                entityFailures(input.entities[i], i)]),
         Then(fail(DuplicateEntities(input.entities), "DUPLICATE", <<>>),
              referenceFailures(normalizedEntities(input))))

normalizeSchemaIr(input) ==
    [schema |-> input.schema,
     entities |-> sortBy(normalizedEntities(input), LAMBDA e : <<e.name>>)]

-----------------------------------------------------------------------------
(* index.js: PostgreSQL.  generatedName is a prefix of SHA-256 of the      *)
(* table and the detail; few hash values exist here, so that names collide *)

KindIndex(kind) == CHOOSE k \in 1..4 : <<"pk", "uq", "idx", "fk">>[k] = kind

generatedName(kind, table, detail) ==
    HashBase + KindIndex(kind) * HashBuckets
        + (FoldLeft(LAMBDA acc, x : 2 * acc + x + 1, 7, <<table>> \o detail)
               % HashBuckets)

generatedRelationNames(ir) ==
    Each(ir.entities, LAMBDA e :
        <<generatedName("pk", e.table, e.primaryKey)>>
        \o Map(LAMBDA k : generatedName("uq", e.table, k), e.uniqueKeys))
    \o Each(ir.entities, LAMBDA e :
        Map(LAMBDA k : generatedName("idx", e.table, k), e.indexes))

\* Mutant: the generated names are compared with each other only.
RelationCollisionGenerated(ir) == Repeats(generatedRelationNames(ir))

RelationCollision(ir) ==
    Repeats(Map(LAMBDA e : e.table, ir.entities) \o generatedRelationNames(ir))

ColumnsOf(e, names) == Map(LAMBDA n : EntityField(e, n).column, names)

columnDeclaration(f) ==
    [name |-> f.column, type |-> f.type, nullable |-> f.nullable,
     minLength |-> f.minLength, maxLength |-> f.maxLength,
     minimum |-> f.minimum, maximum |-> f.maximum]

EntityKey(e, kind, key) ==
    [name |-> generatedName(kind, e.table, key), columns |-> ColumnsOf(e, key)]

EntityForeignName(e, fk) == generatedName("fk", e.table, ForeignJson(fk))

emitSql(ir) ==
    LET table(e) ==
            CreateTable(ir.schema, e.table, Map(columnDeclaration, e.fields),
                        <<EntityKey(e, "pk", e.primaryKey)>>
                        \o Map(LAMBDA k : EntityKey(e, "uq", k), e.uniqueKeys))
        reference(e, fk) ==
            LET target == EntityOf(ir.entities, fk.entity)
            IN  AddForeignKey(ir.schema, e.table, EntityForeignName(e, fk),
                              ColumnsOf(e, fk.fields), ir.schema, target.table,
                              ColumnsOf(target, fk.refFields), fk.onDelete)
        index(e, k) == CreateIndex(ir.schema, e.table,
                                   generatedName("idx", e.table, k), ColumnsOf(e, k))
    IN  Map(table, ir.entities)
        \o Each(ir.entities, LAMBDA e : Map(LAMBDA fk : reference(e, fk), e.foreignKeys))
        \o Each(ir.entities, LAMBDA e : Map(LAMBDA k : index(e, k), e.indexes))

-----------------------------------------------------------------------------
(* index.js: the types.  A declaration says which values a field admits:   *)
(* may it be missing, may it be null, and the range of its value.          *)

Range32(f) == [min |-> Or(f.minimum, MinInt), max |-> Or(f.maximum, MaxInt)]

Lengths(f) == [min |-> f.minLength, max |-> f.maxLength]

fieldSchema(f) ==
    [name |-> f.name, nullable |-> f.nullable,
     type |-> CASE f.type = "int32" -> "integer" [] f.type = "boolean" -> "boolean"
                [] OTHER -> "string",
     uuid |-> f.type = "uuid", lengths |-> Lengths(f),
     range |-> IF f.type = "int32" THEN Range32(f) ELSE [min |-> 0, max |-> 0]]

emitEntitySchema(e) ==
    [name |-> e.name, properties |-> Map(fieldSchema, e.fields),
     required |-> {f.name : f \in {g \in ToSet(e.fields) : g.required}}]

Declared(f, type) ==
    [name |-> f.name, type |-> type, optional |-> ~f.required, nullable |-> f.nullable]

TypesOf(ir, scalar(_)) ==
    Map(LAMBDA e : [name |-> e.name,
                    fields |-> Map(LAMBDA f : Declared(f, scalar(f.type)), e.fields)],
        ir.entities)

emitTypeScript(ir) ==
    TypesOf(ir, LAMBDA t : CASE t = "int32" -> "number" [] t = "boolean" -> "boolean"
                             [] OTHER -> "string")

emitRust(ir) ==
    TypesOf(ir, LAMBDA t : CASE t = "int32" -> "i32" [] t = "boolean" -> "bool"
                             [] OTHER -> "String")

emitDart(ir) ==
    TypesOf(ir, LAMBDA t : CASE t = "int32" -> "int" [] t = "boolean" -> "bool"
                             [] OTHER -> "String")

emitCue(ir) ==
    Map(LAMBDA e : [name |-> e.name,
                    fields |-> Map(LAMBDA f : fieldSchema(f), e.fields),
                    optional |-> {f.name : f \in {g \in ToSet(e.fields) : ~g.required}}],
        ir.entities)

\* index.js: every output, or one diagnostic.  The file names of the JSON
\* Schemas are the names of the entities; the other paths are fixed.
compileSchemaIr(input) ==
    LET failures == normalizeFailures(input)
        ir == normalizeSchemaIr(input)
    IN  IF failures # <<>> THEN [ok |-> FALSE, error |-> Head(failures)]
        ELSE IF RelationCollision(ir)
        THEN [ok |-> FALSE, error |-> [code |-> "NAME_COLLISION", at |-> <<>>]]
        ELSE [ok |-> TRUE, ir |-> ir, sql |-> emitSql(ir),
              typescript |-> emitTypeScript(ir), rust |-> emitRust(ir),
              dart |-> emitDart(ir), cue |-> emitCue(ir),
              jsonSchemas |-> Map(emitEntitySchema, ir.entities)]
=============================================================================
