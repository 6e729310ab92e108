----------------------- MODULE SchemaIrRelease_proofs -----------------------
(***************************************************************************)
(* The pilot, for every document an author can write: what compileSchemaIr *)
(* lets through can be run, but where two generated foreign-key names are  *)
(* equal, and its descriptions of a field agree.  The facts about lists    *)
(* and sorting are those of SchemaRelease_proofs.                          *)
(***************************************************************************)
EXTENDS SchemaRelease_proofs, SchemaIrRelease

(* What the statements are, and the database after some of them.           *)

EntityTable(ir, e) ==
    CreateTable(ir.schema, e.table, Map(columnDeclaration, e.fields),
                <<EntityKey(e, "pk", e.primaryKey)>>
                \o Map(LAMBDA k : EntityKey(e, "uq", k), e.uniqueKeys))

EntityReference(ir, e, fk) ==
    LET target == EntityOf(ir.entities, fk.entity)
    IN  AddForeignKey(ir.schema, e.table, EntityForeignName(e, fk), ColumnsOf(e, fk.fields),
                      ir.schema, target.table, ColumnsOf(target, fk.refFields), fk.onDelete)

EntityIndex(ir, e, k) ==
    CreateIndex(ir.schema, e.table, generatedName("idx", e.table, k), ColumnsOf(e, k))

EntityRelations(ir, e) == ToSet(NewRelations(EntityTable(ir, e)))

\* Two foreign keys of one entity have the same generated name.
NamesClash(ir) ==
    \E e \in ToSet(ir.entities) :
        Repeats(Map(LAMBDA fk : EntityForeignName(e, fk), e.foreignKeys))

\* The k-th statement makes a table after none but tables with other names, ...
TableReady(ir, E, k) ==
    \E e \in ToSet(ir.entities) :
       /\ E[k] = EntityTable(ir, e)
       /\ \A l \in DOMAIN E : l < k =>
             \E x \in ToSet(ir.entities) :
                E[l] = EntityTable(ir, x) /\ EntityRelations(ir, e) \cap EntityRelations(ir, x) = {}

TablesBefore(ir, E, k) ==
    \A x \in ToSet(ir.entities) : \E l \in DOMAIN E : l < k /\ E[l] = EntityTable(ir, x)

\* ... or a foreign key after all tables, of a name that is not taken, ...
ForeignReady(ir, E, k) ==
    \E e \in ToSet(ir.entities) : \E fk \in ToSet(e.foreignKeys) :
       /\ E[k] = EntityReference(ir, e, fk) /\ TablesBefore(ir, E, k)
       /\ \/ NamesClash(ir)
          \/ \A l \in DOMAIN E :
                l < k /\ E[l].op = "foreign" /\ E[l].table = e.table => E[l].name # E[k].name

\* ... or an index after all tables, of a name that is not taken.
IndexReady(ir, E, k) ==
    \E e \in ToSet(ir.entities) : \E key \in ToSet(e.indexes) :
       /\ E[k] = EntityIndex(ir, e, key) /\ TablesBefore(ir, E, k)
       /\ \A l \in DOMAIN E : l < k =>
             /\ E[l].op = "table" => E[k].name \notin ToSet(NewRelations(E[l]))
             /\ E[l].op = "index" => E[k].name # E[l].name

IrOrderly(ir, E) ==
    /\ Len(E) \in Nat /\ DOMAIN E = 1..Len(E)
    /\ \A k \in DOMAIN E : TableReady(ir, E, k) \/ ForeignReady(ir, E, k) \/ IndexReady(ir, E, k)
    /\ \A x \in ToSet(ir.entities) : \E l \in DOMAIN E : E[l] = EntityTable(ir, x)

\* The database after the statements of E before the s-th.
IrRelationsMade(E, s, D) ==
    \A r \in D.relations :
       \E l \in DOMAIN E :
          /\ l < s
          /\ \/ E[l].op = "table" /\ r[2] \in ToSet(NewRelations(E[l]))
             \/ E[l].op = "index" /\ r[2] = E[l].name

EntityMade(ir, E, s, t) ==
    \E e \in ToSet(ir.entities) :
       /\ t.schema = ir.schema /\ t.table = e.table
       /\ t.columns = RowColumns(EntityTable(ir, e)) /\ t.keys = RowKeys(EntityTable(ir, e))
       /\ \A c \in t.constraints :
             \/ \E k \in ToSet(EntityTable(ir, e).keys) : c = k.name
             \/ \E l \in DOMAIN E : /\ l < s /\ E[l].op = "foreign"
                                    /\ E[l].name = c /\ E[l].table = e.table

EntitiesMade(ir, E, s, D) ==
    /\ \A t \in D.tables : EntityMade(ir, E, s, t)
    /\ \A l \in DOMAIN E : l < s /\ E[l].op = "table" => HasTable(D, ir.schema, E[l].table)

IrDatabaseSound(ir, E, s, D) ==
    /\ D = [schemas |-> D.schemas, relations |-> D.relations, tables |-> D.tables, foreign |-> D.foreign]
    /\ D.schemas = {ir.schema}
    /\ IrRelationsMade(E, s, D) /\ EntitiesMade(ir, E, s, D)

IrInv ==
    /\ irDoc \in IrDocuments
    /\ irPhase \in {"editing", "applying", "applied", "rejected", "failed"}
    /\ irPhase \in {"editing", "rejected"} => irStep = 1 /\ irDb = Provisioned(irDoc)
    /\ irPhase = "editing" => irResult = NotCompiled
    /\ irPhase # "editing" => irResult = compileSchemaIr(irDoc)
    /\ irPhase = "rejected" => ~ irResult.ok
    /\ irPhase \in {"applying", "applied", "failed"} =>
          /\ irResult.ok /\ irStep \in 1..(Len(irResult.sql) + 1)
          /\ IrDatabaseSound(irResult.ir, irResult.sql, irStep, irDb)
    /\ irPhase = "applied" => irStep = Len(irResult.sql) + 1
    /\ irPhase = "failed" => NamesClash(irResult.ir)
-----------------------------------------------------------------------------
(* An edit makes a document of a document.                                 *)

LEMMA EntityFieldEditType ==
    ASSUME NEW f \in IrFields, NEW g \in EntityFieldEdits(f)
    PROVE  g \in IrFields
<1>1. CASE \E n \in SomeEntityNames : g = [f EXCEPT !.name = n]
  BY <1>1, IrAuthorAssumption DEF IrFields
<1>2. CASE \E n \in SomeEntityColumns : g = [f EXCEPT !.column = n]
  BY <1>2, IrAuthorAssumption DEF IrFields
<1>3. CASE \E t \in TYPES \cup {"decimal"} : g = [f EXCEPT !.type = t]
  BY <1>3 DEF IrFields
<1>4. CASE \/ g = [f EXCEPT !.required = ~@] \/ g = [f EXCEPT !.nullable = ~@]
           \/ g = [f EXCEPT !.shape = "INVALID_TYPE"] \/ g = [f EXCEPT !.shape = "PRESENCE"]
  BY <1>4 DEF IrFields, IrShapes
<1>5. CASE \E b \in SomeBounds :
              \/ g = [f EXCEPT !.minLength = b] \/ g = [f EXCEPT !.maxLength = b]
              \/ g = [f EXCEPT !.minimum = b] \/ g = [f EXCEPT !.maximum = b]
  BY <1>5, IrAuthorAssumption DEF IrFields
<1> QED BY <1>1, <1>2, <1>3, <1>4, <1>5, Zenon DEF EntityFieldEdits

LEMMA EntityEditType ==
    ASSUME NEW e \in IrEntities, NEW g \in EntityEdits(e)
    PROVE  g \in IrEntities
<1> DEFINE KeyLists == Seq(Int)
           edited == UNION {EntityFieldEdits(f) : f \in ToSet(e.fields)}
<1>1. /\ e.fields \in Seq(IrFields) /\ e.uniqueKeys \in Seq(KeyLists) /\ e.indexes \in Seq(KeyLists)
      /\ e.foreignKeys \in Seq(IrForeigns)
  BY DEF IrEntities
<1>2. edited \subseteq IrFields
  <2>1. ToSet(e.fields) \subseteq IrFields
    BY <1>1 DEF ToSet
  <2> QED BY <2>1, EntityFieldEditType
<1>3. SomeTuples \subseteq KeyLists /\ SomeEntityForeign \subseteq IrForeigns
  BY IrAuthorAssumption
<1> HIDE DEF KeyLists, edited
<1>4. ASSUME NEW s, g = [e EXCEPT !.fields = s], s \in Replacements(e.fields, edited) PROVE g \in IrEntities
  <2>1. s \in Seq(IrFields)
    BY <1>1, <1>2, <1>4, ReplacementType
  <2> QED BY <1>4, <2>1 DEF IrEntities
<1>5. ASSUME NEW s, s \in Growth(e.uniqueKeys, SomeTuples), g = [e EXCEPT !.uniqueKeys = s]
      PROVE  g \in IrEntities
  <2>1. s \in Seq(KeyLists)
    BY <1>1, <1>3, <1>5, GrowthType
  <2> QED BY <1>5, <2>1 DEF IrEntities, KeyLists
<1>6. ASSUME NEW s, s \in Growth(e.indexes, SomeTuples), g = [e EXCEPT !.indexes = s]
      PROVE  g \in IrEntities
  <2>1. s \in Seq(KeyLists)
    BY <1>1, <1>3, <1>6, GrowthType
  <2> QED BY <1>6, <2>1 DEF IrEntities, KeyLists
<1>7. ASSUME NEW s, g = [e EXCEPT !.foreignKeys = s],
             \/ s \in Growth(e.foreignKeys, SomeEntityForeign)
             \/ s \in Replacements(e.foreignKeys, SomeEntityForeign)
      PROVE  g \in IrEntities
  <2>1. s \in Seq(IrForeigns)
    BY <1>1, <1>3, <1>7, GrowthType, ReplacementType
  <2> QED BY <1>7, <2>1 DEF IrEntities
<1>8. CASE \/ \E n \in SomeEntityNames : g = [e EXCEPT !.name = n]
           \/ \E n \in SomeEntityTables : g = [e EXCEPT !.table = n]
  BY <1>8, IrAuthorAssumption DEF IrEntities
<1>9. CASE \E k \in SomeTuples : g = [e EXCEPT !.primaryKey = k]
  BY <1>9, IrAuthorAssumption DEF IrEntities
<1>10. CASE g = [e EXCEPT !.shape = "MISSING_PROPERTY"]
  BY <1>10 DEF IrEntities, IrShapes
<1> QED BY <1>4, <1>5, <1>6, <1>7, <1>8, <1>9, <1>10, Zenon DEF EntityEdits, edited

LEMMA IrEditType ==
    ASSUME NEW d \in IrDocuments, NEW g \in IrEdits(d)
    PROVE  g \in IrDocuments
<1> DEFINE edited == UNION {EntityEdits(e) : e \in ToSet(d.entities)}
<1>1. d.entities \in Seq(IrEntities) /\ ToSet(d.entities) \subseteq IrEntities
  BY DEF IrDocuments, ToSet
<1>2. edited \subseteq IrEntities
  BY <1>1, EntityEditType
<1> HIDE DEF edited
<1>3. ASSUME NEW s, g = [d EXCEPT !.entities = s],
             s \in Growth(d.entities, ToSet(d.entities)) \/ s \in Replacements(d.entities, edited)
      PROVE  g \in IrDocuments
  <2>1. s \in Seq(IrEntities)
    BY <1>1, <1>2, <1>3, GrowthType, ReplacementType
  <2> QED BY <1>3, <2>1 DEF IrDocuments
<1>4. CASE g = [d EXCEPT !.version = "other"] \/ g = [d EXCEPT !.shape = "UNKNOWN_PROPERTY"]
  BY <1>4 DEF IrDocuments, IrShapes
<1>5. CASE \E n \in SystemSchemas : g = [d EXCEPT !.schema = n]
  BY <1>5, IrAuthorAssumption DEF IrDocuments
<1> QED BY <1>3, <1>4, <1>5, Zenon DEF IrEdits, edited
-----------------------------------------------------------------------------
(* What validate.js reports.                                               *)

IrCodes ==
    IrShapes \cup {"INVALID_ARRAY", "INVALID_IDENTIFIER", "INVALID_CONSTRAINT", "INVALID_RANGE",
                  "INVALID_REFERENCE", "DUPLICATE", "UNSUPPORTED_TYPE", "UNSUPPORTED_VERSION",
                  "INVALID_PRIMARY_KEY"}

IrReports == Seq([code : IrCodes, at : Seq(Int)])

LEMMA FailReport ==
    ASSUME NEW c \in BOOLEAN, NEW code \in IrCodes, NEW at \in Seq(Int)
    PROVE  fail(c, code, at) \in IrReports /\ (fail(c, code, at) = <<>> <=> ~ c)
<1> DEFINE T == [code : IrCodes, at : Seq(Int)]
           r == [code |-> code, at |-> at]
<1>1. r \in T /\ IrReports = Seq(T)
  BY DEF IrReports
<1> HIDE DEF T, r
<1>2. <<r>> \in Seq(T) /\ <<>> \in Seq(T) /\ <<r>> # <<>>
  BY <1>1
<1>3. fail(c, code, at) = IF c THEN <<r>> ELSE <<>>
  BY DEF fail, r
<1> QED BY <1>1, <1>2, <1>3

LEMMA IrSilent ==
    /\ <<>> \in IrReports
    /\ \A s, t \in IrReports : s \o t \in IrReports /\ (s \o t = <<>> <=> s = <<>> /\ t = <<>>)
    /\ \A s, t \in IrReports : Then(s, t) \in IrReports /\ (Then(s, t) = <<>> <=> s = <<>> /\ t = <<>>)
<1>1. ASSUME NEW s \in IrReports, NEW t \in IrReports
      PROVE  s \o t \in IrReports /\ (s \o t = <<>> <=> s = <<>> /\ t = <<>>)
  BY ConcatProperties, ConcatEqualIffEmpty DEF IrReports
<1>2. ASSUME NEW s \in IrReports, NEW t \in IrReports
      PROVE  Then(s, t) \in IrReports /\ (Then(s, t) = <<>> <=> s = <<>> /\ t = <<>>)
  BY DEF Then
<1>3. <<>> \in IrReports
  <2> DEFINE T == [code : IrCodes, at : Seq(Int)]
  <2>1. IrReports = Seq(T)
    BY DEF IrReports
  <2> HIDE DEF T
  <2> QED BY <2>1
<1> QED BY <1>1, <1>2, <1>3

LEMMA IrSilentEach ==
    ASSUME NEW S, NEW s \in Seq(S), NEW f, f = [i \in DOMAIN s |-> f[i]],
           \A i \in DOMAIN s : f[i] \in IrReports
    PROVE  /\ FlattenSeq(f) \in IrReports
           /\ FlattenSeq(f) = <<>> => \A i \in DOMAIN s : f[i] = <<>>
<1>1. f \in Seq(IrReports) /\ DOMAIN f = DOMAIN s
  BY MappedLists
<1> DEFINE T == [code : IrCodes, at : Seq(Int)]
<1>2. f \in Seq(Seq(T))
  BY <1>1 DEF IrReports
<1> HIDE DEF T
<1>3. FlattenSeq(f) \in Seq(T)
  BY <1>2, FlattenItems
<1>4. FlattenSeq(f) = <<>> => \A i \in DOMAIN s : f[i] = <<>>
  BY <1>1, <1>2, FlattenEmpty
<1> QED BY <1>3, <1>4 DEF IrReports, T
\* An optional bound is not there, or it fits the type of its field.
BoundSound(f, bound, type, min, max) ==
    bound = NoBound \/ (f.type = type /\ min <= bound /\ bound <= max)

FieldSound(f) ==
    /\ f \in IrFields /\ f.column \notin SystemColumns /\ f.type \in TYPES /\ ~ EmptyRange(f)
    /\ BoundSound(f, f.minLength, "string", 0, MaxTextLength)
    /\ BoundSound(f, f.maxLength, "string", 0, MaxTextLength)
    /\ BoundSound(f, f.minimum, "int32", MinInt, MaxInt)
    /\ BoundSound(f, f.maximum, "int32", MinInt, MaxInt)

KeySound(known, key) == Len(key) >= 1 /\ ToSet(key) \subseteq known /\ SeqUnique(key)

ForeignSound(known, actions, fk) ==
    /\ ToSet(fk.fields) \subseteq known /\ fk.onDelete \in actions
    /\ Len(fk.fields) = Len(fk.refFields) /\ SeqUnique(fk.refFields)

EntitySound(e, actions) ==
    /\ e \in IrEntities
    /\ \A i \in DOMAIN e.fields : FieldSound(e.fields[i])
    /\ \A i, j \in DOMAIN e.fields :
          e.fields[i].name = e.fields[j].name \/ e.fields[i].column = e.fields[j].column => i = j
    /\ KeySound(EntityFields(e), e.primaryKey)
    /\ \A i \in DOMAIN e.fields :
          e.fields[i].name \in ToSet(e.primaryKey) => ~ e.fields[i].nullable /\ e.fields[i].required
    /\ \A k \in DOMAIN e.uniqueKeys : KeySound(EntityFields(e), e.uniqueKeys[k])
    /\ \A k \in DOMAIN e.indexes : KeySound(EntityFields(e), e.indexes[k])
    /\ \A k \in DOMAIN e.foreignKeys : ForeignSound(EntityFields(e), actions, e.foreignKeys[k])

LEMMA ListReport ==
    ASSUME NEW s, NEW min, NEW max, NEW at \in Seq(Int)
    PROVE  list(s, min, max, at) \in IrReports /\ (list(s, min, max, at) = <<>> => ~ (Len(s) < min))
<1> DEFINE wrong == Len(s) < min \/ Len(s) > max
<1>1. wrong \in BOOLEAN /\ (~ wrong => ~ (Len(s) < min))
  OBVIOUS
<1>2. list(s, min, max, at) = fail(wrong, "INVALID_ARRAY", at)
  BY DEF list
<1> HIDE DEF wrong
<1> QED BY <1>1, <1>2, FailReport DEF IrCodes

LEMMA IdentifierReport ==
    ASSUME NEW x, NEW reserved, NEW at \in Seq(Int)
    PROVE  /\ identifier(x, reserved, at) \in IrReports
           /\ identifier(x, reserved, at) = <<>> => x \notin reserved
<1> DEFINE wrong == ~ IsName(x) \/ x \in reserved
<1>1. wrong \in BOOLEAN /\ (~ wrong => x \notin reserved)
  OBVIOUS
<1>2. identifier(x, reserved, at) = fail(wrong, "INVALID_IDENTIFIER", at)
  BY DEF identifier
<1> HIDE DEF wrong
<1> QED BY <1>1, <1>2, FailReport DEF IrCodes

LEMMA RepeatsReport ==
    ASSUME NEW s, NEW at \in Seq(Int)
    PROVE  /\ fail(Repeats(s), "DUPLICATE", at) \in IrReports
           /\ fail(Repeats(s), "DUPLICATE", at) = <<>> => ~ Repeats(s)
<1>1. Repeats(s) \in BOOLEAN
  BY DEF Repeats
<1> QED BY <1>1, FailReport DEF IrCodes

LEMMA BoundReport ==
    ASSUME NEW f \in IrFields, NEW bound \in Int, NEW type, NEW min \in Int, NEW max \in Int,
           NEW at \in Seq(Int)
    PROVE  /\ optionalBound(f, bound, type, min, max, at) \in IrReports
           /\ optionalBound(f, bound, type, min, max, at) = <<>> => BoundSound(f, bound, type, min, max)
<1> DEFINE a == fail(f.type # type, "INVALID_CONSTRAINT", at)
           outside == bound < min \/ bound > max
           b == fail(outside, "INVALID_RANGE", at)
<1>1. optionalBound(f, bound, type, min, max, at) = IF bound = NoBound THEN <<>> ELSE a \o b
  BY DEF optionalBound
<1>2. a \in IrReports /\ (a = <<>> => f.type = type)
  <2>1. (f.type # type) \in BOOLEAN
    OBVIOUS
  <2> QED BY <2>1, FailReport DEF IrCodes
<1>3. outside \in BOOLEAN /\ (~ outside => min <= bound /\ bound <= max)
  OBVIOUS
<1> HIDE DEF outside
<1>4. b \in IrReports /\ (b = <<>> => min <= bound /\ bound <= max)
  BY <1>3, FailReport DEF IrCodes
<1> HIDE DEF a, b
<1> QED BY <1>1, <1>2, <1>4, IrSilent DEF BoundSound

LEMMA FieldReport ==
    ASSUME NEW f \in IrFields, NEW at \in Seq(Int)
    PROVE  field(f, at) \in IrReports /\ (field(f, at) = <<>> => FieldSound(f))
<1> DEFINE shaped == f.shape \in {"ok", "PRESENCE"}
           a0 == fail(TRUE, f.shape, at)
           a1 == identifier(f.name, ReservedFields, at)
           a2 == identifier(f.column, SystemColumns, at)
           a3 == fail(f.type \notin TYPES, "UNSUPPORTED_TYPE", at)
           a4 == fail(f.shape = "PRESENCE", "INVALID_TYPE", at)
           a5 == optionalBound(f, f.minLength, "string", 0, MaxTextLength, at)
           a6 == optionalBound(f, f.maxLength, "string", 0, MaxTextLength, at)
           a7 == optionalBound(f, f.minimum, "int32", MinInt, MaxInt, at)
           a8 == optionalBound(f, f.maximum, "int32", MinInt, MaxInt, at)
           a9 == fail(EmptyRange(f), "INVALID_RANGE", at)
           b4 == a1 \o a2 \o a3 \o a4
           b9 == b4 \o a5 \o a6 \o a7 \o a8 \o a9
<1>1. field(f, at) = IF ~ shaped THEN a0 ELSE b9
  BY DEF field
<1>2. /\ (~ shaped => f.shape \in IrCodes) /\ f.minLength \in Int /\ f.maxLength \in Int
      /\ f.minimum \in Int /\ f.maximum \in Int
  BY DEF IrFields, IrCodes, IrShapes
<1>3. MinInt \in Int /\ MaxInt \in Int /\ MaxTextLength \in Int /\ 0 \in Int
  BY IrAuthorAssumption
<1>4. ~ shaped => a0 \in IrReports /\ a0 # <<>>
  <2> HIDE DEF shaped
  <2> QED BY <1>2, FailReport
<1>5. a1 \in IrReports /\ a2 \in IrReports /\ (a2 = <<>> => f.column \notin SystemColumns)
  BY IdentifierReport
<1>6. a3 \in IrReports /\ (a3 = <<>> => f.type \in TYPES) /\ a4 \in IrReports
  <2> DEFINE unknown == f.type \notin TYPES
             absent == f.shape = "PRESENCE"
  <2>1. unknown \in BOOLEAN /\ absent \in BOOLEAN /\ (~ unknown => f.type \in TYPES)
    OBVIOUS
  <2> HIDE DEF unknown, absent
  <2>2. fail(unknown, "UNSUPPORTED_TYPE", at) \in IrReports
    BY <2>1, FailReport DEF IrCodes
  <2>3. fail(unknown, "UNSUPPORTED_TYPE", at) = <<>> => f.type \in TYPES
    BY <2>1, FailReport DEF IrCodes
  <2>4. fail(absent, "INVALID_TYPE", at) \in IrReports
    BY <2>1, FailReport DEF IrCodes, IrShapes
  <2> QED BY <2>2, <2>3, <2>4 DEF unknown, absent
<1>7. a5 \in IrReports /\ (a5 = <<>> => BoundSound(f, f.minLength, "string", 0, MaxTextLength))
  BY <1>2, <1>3, BoundReport
<1>8. a6 \in IrReports /\ (a6 = <<>> => BoundSound(f, f.maxLength, "string", 0, MaxTextLength))
  BY <1>2, <1>3, BoundReport
<1>9. a7 \in IrReports /\ (a7 = <<>> => BoundSound(f, f.minimum, "int32", MinInt, MaxInt))
  BY <1>2, <1>3, BoundReport
<1>10. a8 \in IrReports /\ (a8 = <<>> => BoundSound(f, f.maximum, "int32", MinInt, MaxInt))
  BY <1>2, <1>3, BoundReport
<1>11. a9 \in IrReports /\ (a9 = <<>> => ~ EmptyRange(f))
  <2>1. EmptyRange(f) \in BOOLEAN
    BY DEF EmptyRange
  <2> QED BY <2>1, FailReport DEF IrCodes
<1> HIDE DEF shaped, a0, a1, a2, a3, a4, a5, a6, a7, a8, a9
<1>12. \A s, t \in IrReports : s \o t \in IrReports /\ (s \o t = <<>> <=> s = <<>> /\ t = <<>>)
  BY IrSilent
<1>13. b4 \in IrReports /\ (b4 = <<>> => a2 = <<>> /\ a3 = <<>>)
  BY <1>5, <1>6, <1>12
<1> HIDE DEF b4
<1> DEFINE b6 == b4 \o a5 \o a6
           b8 == b6 \o a7 \o a8
<1>14. b6 \in IrReports /\ (b6 = <<>> => b4 = <<>> /\ a5 = <<>> /\ a6 = <<>>)
  BY <1>7, <1>8, <1>12, <1>13
<1> HIDE DEF b6
<1>15. b8 \in IrReports /\ (b8 = <<>> => b6 = <<>> /\ a7 = <<>> /\ a8 = <<>>)
  BY <1>9, <1>10, <1>12, <1>14
<1>16. b9 = b8 \o a9
  BY DEF b8, b6
<1> HIDE DEF b8, b9
<1>17. b9 \in IrReports /\ (b9 = <<>> => b8 = <<>> /\ a9 = <<>>)
  BY <1>11, <1>12, <1>15, <1>16
<1>18. field(f, at) \in IrReports /\ (field(f, at) = <<>> => b9 = <<>>)
  BY <1>1, <1>4, <1>17
<1> QED BY <1>5, <1>6, <1>7, <1>8, <1>9, <1>10, <1>11, <1>13, <1>14, <1>15, <1>17, <1>18 DEF FieldSound

LEMMA TupleReport ==
    ASSUME NEW key \in Seq(Int), NEW known, NEW at \in Seq(Int)
    PROVE  tuple(key, known, at) \in IrReports /\ (tuple(key, known, at) = <<>> => KeySound(known, key))
<1> DEFINE a1 == list(key, 1, MaxTuple, at)
           a2 == fail(~(ToSet(key) \subseteq known), "INVALID_REFERENCE", at)
           a3 == fail(Repeats(key), "DUPLICATE", at)
<1>1. tuple(key, known, at) = a1 \o a2 \o a3
  BY DEF tuple
<1>2. a1 \in IrReports /\ (a1 = <<>> => Len(key) >= 1)
  <2>1. Len(key) \in Nat
    OBVIOUS
  <2> QED BY <2>1, ListReport
<1>3. a2 \in IrReports /\ (a2 = <<>> => ToSet(key) \subseteq known)
  <2> DEFINE inside == ToSet(key) \subseteq known
  <2>1. inside \in BOOLEAN /\ (~ inside) \in BOOLEAN
    OBVIOUS
  <2> HIDE DEF inside
  <2>2. fail(~ inside, "INVALID_REFERENCE", at) \in IrReports
    BY <2>1, FailReport DEF IrCodes
  <2>3. fail(~ inside, "INVALID_REFERENCE", at) = <<>> => inside
    BY <2>1, FailReport DEF IrCodes
  <2> QED BY <2>2, <2>3 DEF inside
<1>4. a3 \in IrReports /\ (a3 = <<>> => SeqUnique(key))
  <2>1. ~ Repeats(key) => SeqUnique(key)
    BY NoRepeats DEF SeqUnique, IsInjective
  <2> QED BY <2>1, RepeatsReport
<1> HIDE DEF a1, a2, a3
<1>5. \A s, t \in IrReports : s \o t \in IrReports /\ (s \o t = <<>> <=> s = <<>> /\ t = <<>>)
  BY IrSilent
<1>6. a1 \o a2 \o a3 \in IrReports /\ (a1 \o a2 \o a3 = <<>> => a1 = <<>> /\ a2 = <<>> /\ a3 = <<>>)
  BY <1>2, <1>3, <1>4, <1>5
<1> QED BY <1>1, <1>2, <1>3, <1>4, <1>6 DEF KeySound
LEMMA ForeignReport ==
    ASSUME NEW fk \in IrForeigns, NEW known, NEW at \in Seq(Int)
    PROVE  /\ entityForeignKey(fk, known, at) \in IrReports
           /\ entityForeignKey(fk, known, at) = <<>> =>
                ForeignSound(known, DELETE_ACTIONS \cup {Absent}, fk)
<1> DEFINE a1 == identifier(fk.entity, ReservedModels, at)
           a2 == list(fk.refFields, 1, MaxTuple, at)
           f3 == [k \in DOMAIN fk.refFields |-> identifier(fk.refFields[k], ReservedFields, at)]
           a3 == FlattenSeq(f3)
           a4 == fail(Repeats(fk.refFields), "DUPLICATE", at)
           other == fk.onDelete \notin DELETE_ACTIONS \cup {Absent}
           a5 == fail(other, "UNKNOWN_PROPERTY", at)
           a6 == tuple(fk.fields, known, at)
           apart == Len(fk.fields) # Len(fk.refFields)
           a7 == fail(apart, "INVALID_REFERENCE", at)
           b4 == a1 \o a2 \o a3 \o a4
           b7 == b4 \o a5 \o a6 \o a7
           shape1 == fail(TRUE, fk.shape, at)
           shape2 == fail(TRUE, fk.refShape, at)
<1>1. entityForeignKey(fk, known, at) =
        IF fk.shape # "ok" THEN shape1 ELSE IF fk.refShape # "ok" THEN shape2 ELSE b7
  BY DEF entityForeignKey, Each, Map
<1>2. /\ fk.fields \in Seq(Int) /\ fk.refFields \in Seq(Int)
      /\ fk.shape \in IrCodes /\ fk.refShape \in IrCodes
  BY DEF IrForeigns, IrCodes
<1>3. shape1 \in IrReports /\ shape1 # <<>> /\ shape2 \in IrReports /\ shape2 # <<>>
  BY <1>2, FailReport
<1>4. a1 \in IrReports /\ a2 \in IrReports
  BY IdentifierReport, ListReport
<1>5. a3 \in IrReports
  <2>1. \A k \in DOMAIN fk.refFields : f3[k] \in IrReports
    BY IdentifierReport
  <2>2. f3 = [k \in DOMAIN fk.refFields |-> f3[k]]
    OBVIOUS
  <2> HIDE DEF f3
  <2> QED BY <1>2, <2>1, <2>2, IrSilentEach
<1>6. a4 \in IrReports /\ (a4 = <<>> => SeqUnique(fk.refFields))
  <2>1. ~ Repeats(fk.refFields) => SeqUnique(fk.refFields)
    BY <1>2, NoRepeats DEF SeqUnique, IsInjective
  <2> QED BY <2>1, RepeatsReport
<1>7. other \in BOOLEAN /\ apart \in BOOLEAN
  OBVIOUS
<1>8. ~ other => fk.onDelete \in DELETE_ACTIONS \cup {Absent}
  OBVIOUS
<1>9. ~ apart => Len(fk.fields) = Len(fk.refFields)
  OBVIOUS
<1> HIDE DEF other, apart
<1>10. a5 \in IrReports /\ (a5 = <<>> => ~ other) /\ a7 \in IrReports /\ (a7 = <<>> => ~ apart)
  BY <1>7, FailReport DEF IrCodes, IrShapes
<1>11. a6 \in IrReports /\ (a6 = <<>> => KeySound(known, fk.fields))
  BY <1>2, TupleReport
<1> HIDE DEF a1, a2, a3, a4, a5, a6, a7, shape1, shape2
<1>12. \A s, t \in IrReports : s \o t \in IrReports /\ (s \o t = <<>> <=> s = <<>> /\ t = <<>>)
  BY IrSilent
<1>13. b4 \in IrReports /\ (b4 = <<>> => a4 = <<>>)
  BY <1>4, <1>5, <1>6, <1>12
<1> HIDE DEF b4
<1>14. b7 \in IrReports /\ (b7 = <<>> => b4 = <<>> /\ a5 = <<>> /\ a6 = <<>> /\ a7 = <<>>)
  BY <1>10, <1>11, <1>12, <1>13
<1> HIDE DEF b7
<1>15. /\ entityForeignKey(fk, known, at) \in IrReports
       /\ entityForeignKey(fk, known, at) = <<>> => b7 = <<>>
  BY <1>1, <1>3, <1>14
<1> QED BY <1>6, <1>8, <1>9, <1>10, <1>11, <1>13, <1>14, <1>15 DEF ForeignSound, KeySound

\* A name finds the field, and the entity, that has it.
LEMMA FieldNamed ==
    ASSUME NEW e, e.fields \in Seq(IrFields), NEW i \in DOMAIN e.fields,
           \A k, l \in DOMAIN e.fields : e.fields[k].name = e.fields[l].name => k = l
    PROVE  EntityField(e, e.fields[i].name) = e.fields[i]
<1> DEFINE s == e.fields
           I == {k \in 1..Len(s) : s[k].name = s[i].name}
<1>1. Len(s) \in Nat /\ DOMAIN s = 1..Len(s)
  OBVIOUS
<1>2. I = {i} /\ i \in Nat
  BY <1>1
<1>3. EntityField(e, s[i].name) = s[Max(I)]
  BY <1>2 DEF EntityField, SelectLastInSeq
<1>4. Max({i}) = i
  <2>1. i \in {i} /\ \A y \in {i} : i >= y
    BY <1>2
  <2> QED BY <2>1 DEF Max
<1> QED BY <1>2, <1>3, <1>4

LEMMA EntityNamed ==
    ASSUME NEW T, NEW s \in Seq(T), NEW i \in DOMAIN s, \A k, l \in DOMAIN s : s[k].name = s[l].name => k = l
    PROVE  EntityOf(s, s[i].name) = s[i]
<1> DEFINE I == {k \in 1..Len(s) : s[k].name = s[i].name}
<1>1. Len(s) \in Nat /\ DOMAIN s = 1..Len(s)
  OBVIOUS
<1>2. I = {i} /\ i \in Nat
  BY <1>1
<1>3. EntityOf(s, s[i].name) = s[Max(I)]
  BY <1>2 DEF EntityOf, SelectLastInSeq
<1>4. Max({i}) = i
  <2>1. i \in {i} /\ \A y \in {i} : i >= y
    BY <1>2
  <2> QED BY <2>1 DEF Max
<1> QED BY <1>2, <1>3, <1>4

\* A list of key tuples without a report.
LEMMA TupleListReport ==
    ASSUME NEW keys \in Seq(Seq(Int)), NEW known, NEW at \in Seq(Int)
    PROVE  /\ Each(keys, LAMBDA k : tuple(k, known, at)) \in IrReports
           /\ Each(keys, LAMBDA k : tuple(k, known, at)) = <<>> =>
                \A k \in DOMAIN keys : KeySound(known, keys[k])
<1> DEFINE KeyLists == Seq(Int)
           f == [k \in DOMAIN keys |-> tuple(keys[k], known, at)]
<1>1. Each(keys, LAMBDA k : tuple(k, known, at)) = FlattenSeq(f)
  BY DEF Each, Map
<1>2. keys \in Seq(KeyLists)
  OBVIOUS
<1>3. \A key \in KeyLists : /\ tuple(key, known, at) \in IrReports
                            /\ tuple(key, known, at) = <<>> => KeySound(known, key)
  BY TupleReport
<1> HIDE DEF KeyLists
<1>4. \A k \in DOMAIN keys : f[k] \in IrReports /\ (f[k] = <<>> => KeySound(known, keys[k]))
  BY <1>2, <1>3
<1>5. f = [k \in DOMAIN keys |-> f[k]]
  OBVIOUS
<1> HIDE DEF f
<1>6. FlattenSeq(f) \in IrReports /\ (FlattenSeq(f) = <<>> => \A k \in DOMAIN keys : f[k] = <<>>)
  BY <1>2, <1>4, <1>5, IrSilentEach
<1> QED BY <1>1, <1>4, <1>6
LEMMA ColumnsDiffer ==
    ASSUME NEW s \in Seq(IrFields), ~ Repeats(Map(LAMBDA f : f.column, s))
    PROVE  \A i, j \in DOMAIN s : s[i].column = s[j].column => i = j
<1> DEFINE w == [i \in DOMAIN s |-> s[i].column]
<1>1. \A f \in IrFields : f.column \in Int
  BY DEF IrFields
<1>2. \A i \in DOMAIN s : w[i] = s[i].column /\ w[i] \in Int
  BY <1>1
<1>3. w = [i \in DOMAIN s |-> w[i]] /\ ~ Repeats(w)
  BY DEF Map
<1> HIDE DEF w
<1>4. w \in Seq(Int) /\ DOMAIN w = DOMAIN s
  BY <1>2, <1>3, MappedLists
<1>5. \A i, j \in DOMAIN w : w[i] = w[j] => i = j
  BY <1>3, <1>4, NoRepeats
<1> QED BY <1>2, <1>4, <1>5

\* The first half of entity(): its fields and its primary key.
LEMMA EntityFieldsReport ==
    ASSUME NEW e \in IrEntities, NEW at \in Seq(Int)
    PROVE  LET first == identifier(e.name, ReservedModels, at) \o identifier(e.table, {}, at)
                          \o list(e.fields, 1, MaxEntityFields, at)
                          \o Each(e.fields, LAMBDA f : field(f, at))
                          \o fail(Repeats(Map(LAMBDA f : f.name, e.fields)), "DUPLICATE", at)
                          \o fail(Repeats(Map(LAMBDA f : f.column, e.fields)), "DUPLICATE", at)
                          \o tuple(e.primaryKey, EntityFields(e), at)
           IN  /\ first \in IrReports
               /\ first = <<>> =>
                    /\ \A i \in DOMAIN e.fields : FieldSound(e.fields[i])
                    /\ \A i, j \in DOMAIN e.fields :
                          \/ e.fields[i].name = e.fields[j].name
                          \/ e.fields[i].column = e.fields[j].column
                          => i = j
                    /\ KeySound(EntityFields(e), e.primaryKey)
<1> DEFINE a1 == identifier(e.name, ReservedModels, at)
           a2 == identifier(e.table, {}, at)
           a3 == list(e.fields, 1, MaxEntityFields, at)
           f4 == [i \in DOMAIN e.fields |-> field(e.fields[i], at)]
           a4 == FlattenSeq(f4)
           a5 == fail(Repeats(Map(LAMBDA f : f.name, e.fields)), "DUPLICATE", at)
           a6 == fail(Repeats(Map(LAMBDA f : f.column, e.fields)), "DUPLICATE", at)
           a7 == tuple(e.primaryKey, EntityFields(e), at)
           b3 == a1 \o a2 \o a3
           b7 == b3 \o a4 \o a5 \o a6 \o a7
<1>1. a4 = Each(e.fields, LAMBDA f : field(f, at))
  BY DEF Each, Map
<1>2. e.fields \in Seq(IrFields) /\ e.primaryKey \in Seq(Int)
  BY DEF IrEntities
<1>3. a1 \in IrReports /\ a2 \in IrReports /\ a3 \in IrReports
  BY IdentifierReport, ListReport
<1>4. a4 \in IrReports /\ (a4 = <<>> => \A i \in DOMAIN e.fields : FieldSound(e.fields[i]))
  <2>1. \A i \in DOMAIN e.fields : e.fields[i] \in IrFields
    BY <1>2
  <2>2. \A i \in DOMAIN e.fields : f4[i] \in IrReports /\ (f4[i] = <<>> => FieldSound(e.fields[i]))
    BY <2>1, FieldReport
  <2>3. f4 = [i \in DOMAIN e.fields |-> f4[i]]
    OBVIOUS
  <2> HIDE DEF f4
  <2>4. FlattenSeq(f4) \in IrReports /\ (FlattenSeq(f4) = <<>> => \A i \in DOMAIN e.fields : f4[i] = <<>>)
    BY <1>2, <2>2, <2>3, IrSilentEach
  <2> QED BY <2>2, <2>4
<1>5. /\ a5 \in IrReports
      /\ a5 = <<>> => \A i, j \in DOMAIN e.fields : e.fields[i].name = e.fields[j].name => i = j
  <2>1. a5 \in IrReports /\ (a5 = <<>> => ~ Repeats(Map(LAMBDA f : f.name, e.fields)))
    BY RepeatsReport
  <2>2. \A f \in IrFields : f.name \in Int
    BY DEF IrFields
  <2>3. ASSUME ~ Repeats(Map(LAMBDA f : f.name, e.fields))
        PROVE  \A i, j \in DOMAIN e.fields : e.fields[i].name = e.fields[j].name => i = j
    BY <1>2, <2>2, <2>3, NamesApart
  <2> QED BY <2>1, <2>3
<1>6. /\ a6 \in IrReports
      /\ a6 = <<>> => \A i, j \in DOMAIN e.fields : e.fields[i].column = e.fields[j].column => i = j
  <2>1. a6 \in IrReports /\ (a6 = <<>> => ~ Repeats(Map(LAMBDA f : f.column, e.fields)))
    BY RepeatsReport
  <2>2. ASSUME ~ Repeats(Map(LAMBDA f : f.column, e.fields))
        PROVE  \A i, j \in DOMAIN e.fields : e.fields[i].column = e.fields[j].column => i = j
    BY <1>2, <2>2, ColumnsDiffer
  <2> QED BY <2>1, <2>2
<1>7. a7 \in IrReports /\ (a7 = <<>> => KeySound(EntityFields(e), e.primaryKey))
  BY <1>2, TupleReport
<1> HIDE DEF a1, a2, a3, a4, a5, a6, a7
<1>8. \A s, t \in IrReports : s \o t \in IrReports /\ (s \o t = <<>> <=> s = <<>> /\ t = <<>>)
  BY IrSilent
<1>9. b3 \in IrReports
  BY <1>3, <1>8
<1> HIDE DEF b3
<1>10. b7 \in IrReports /\ (b7 = <<>> => a4 = <<>> /\ a5 = <<>> /\ a6 = <<>> /\ a7 = <<>>)
  BY <1>4, <1>5, <1>6, <1>7, <1>8, <1>9
<1>11. b7 = <<>> => \A i, j \in DOMAIN e.fields :
                      \/ e.fields[i].name = e.fields[j].name
                      \/ e.fields[i].column = e.fields[j].column
                      => i = j
  BY <1>5, <1>6, <1>10
<1>12. b7 = a1 \o a2 \o a3 \o Each(e.fields, LAMBDA f : field(f, at)) \o a5 \o a6 \o a7
  BY <1>1 DEF b3
<1> HIDE DEF b7
<1>13. /\ b7 \in IrReports
       /\ b7 = <<>> =>
            /\ \A i \in DOMAIN e.fields : FieldSound(e.fields[i])
            /\ \A i, j \in DOMAIN e.fields :
                  e.fields[i].name = e.fields[j].name \/ e.fields[i].column = e.fields[j].column => i = j
            /\ KeySound(EntityFields(e), e.primaryKey)
  BY <1>4, <1>7, <1>10, <1>11
<1> QED BY <1>12, <1>13 DEF a1, a2, a3, a5, a6, a7

LEMMA EntityReport ==
    ASSUME NEW e \in IrEntities, NEW i \in Int
    PROVE  /\ entityFailures(e, i) \in IrReports
           /\ entityFailures(e, i) = <<>> => EntitySound(e, DELETE_ACTIONS \cup {Absent})
<1> DEFINE at == <<i>>
           known == EntityFields(e)
           actions == DELETE_ACTIONS \cup {Absent}
           first == identifier(e.name, ReservedModels, at) \o identifier(e.table, {}, at)
                      \o list(e.fields, 1, MaxEntityFields, at)
                      \o Each(e.fields, LAMBDA f : field(f, at))
                      \o fail(Repeats(Map(LAMBDA f : f.name, e.fields)), "DUPLICATE", at)
                      \o fail(Repeats(Map(LAMBDA f : f.column, e.fields)), "DUPLICATE", at)
                      \o tuple(e.primaryKey, known, at)
           a1 == fail(InvalidPrimaryKey(e), "INVALID_PRIMARY_KEY", at)
           a2 == list(e.uniqueKeys, 0, MaxEntityKeys, at)
           a3 == Each(e.uniqueKeys, LAMBDA k : tuple(k, known, at))
           a4 == list(e.indexes, 0, MaxEntityKeys, at)
           a5 == Each(e.indexes, LAMBDA k : tuple(k, known, at))
           a6 == fail(Repeats(Map(ToSet, <<e.primaryKey>> \o e.uniqueKeys)), "DUPLICATE", at)
           a7 == fail(Repeats(e.indexes), "DUPLICATE", at)
           a8 == list(e.foreignKeys, 0, MaxEntityKeys, at)
           f9 == [j \in DOMAIN e.foreignKeys |-> entityForeignKey(e.foreignKeys[j], known, <<i, j>>)]
           a9 == FlattenSeq(f9)
           a10 == fail(Repeats(Map(LAMBDA fk : <<fk.fields, fk.entity, fk.refFields>>,
                                   e.foreignKeys)), "DUPLICATE", at)
           b5 == a1 \o a2 \o a3 \o a4 \o a5
           b10 == b5 \o a6 \o a7 \o a8 \o a9 \o a10
           shape == fail(TRUE, e.shape, at)
<1>1. entityFailures(e, i) = IF e.shape # "ok" THEN shape ELSE Then(first, Then(b10, <<>>))
  BY DEF entityFailures
<1>2. /\ at \in Seq(Int) /\ e.uniqueKeys \in Seq(Seq(Int)) /\ e.indexes \in Seq(Seq(Int))
      /\ e.foreignKeys \in Seq(IrForeigns) /\ e.fields \in Seq(IrFields) /\ e.shape \in IrCodes
  BY DEF IrEntities, IrCodes
<1> HIDE DEF at
<1>3. shape \in IrReports /\ shape # <<>>
  BY <1>2, FailReport
<1>4. /\ first \in IrReports
      /\ first = <<>> =>
           /\ \A k \in DOMAIN e.fields : FieldSound(e.fields[k])
           /\ \A k, j \in DOMAIN e.fields :
                 e.fields[k].name = e.fields[j].name \/ e.fields[k].column = e.fields[j].column => k = j
           /\ KeySound(known, e.primaryKey)
  BY <1>2, EntityFieldsReport
<1>5. a1 \in IrReports /\ (a1 = <<>> => ~ InvalidPrimaryKey(e))
  <2>1. InvalidPrimaryKey(e) \in BOOLEAN
    BY DEF InvalidPrimaryKey
  <2> QED BY <1>2, <2>1, FailReport DEF IrCodes
<1>6. a2 \in IrReports /\ a4 \in IrReports /\ a8 \in IrReports
  BY <1>2, ListReport
<1>7. a3 \in IrReports /\ (a3 = <<>> => \A k \in DOMAIN e.uniqueKeys : KeySound(known, e.uniqueKeys[k]))
  BY <1>2, TupleListReport
<1>8. a5 \in IrReports /\ (a5 = <<>> => \A k \in DOMAIN e.indexes : KeySound(known, e.indexes[k]))
  BY <1>2, TupleListReport
<1>9. a6 \in IrReports /\ a7 \in IrReports /\ a10 \in IrReports
  BY <1>2, RepeatsReport
<1>10. a9 \in IrReports /\ (a9 = <<>> => \A k \in DOMAIN e.foreignKeys : ForeignSound(known, actions, e.foreignKeys[k]))
  <2>1. \A k \in DOMAIN e.foreignKeys : e.foreignKeys[k] \in IrForeigns /\ <<i, k>> \in Seq(Int)
    BY <1>2
  <2>2. \A k \in DOMAIN e.foreignKeys :
           f9[k] \in IrReports /\ (f9[k] = <<>> => ForeignSound(known, actions, e.foreignKeys[k]))
    BY <2>1, ForeignReport
  <2>3. f9 = [k \in DOMAIN e.foreignKeys |-> f9[k]]
    OBVIOUS
  <2> HIDE DEF f9
  <2>4. FlattenSeq(f9) \in IrReports /\ (FlattenSeq(f9) = <<>> => \A k \in DOMAIN e.foreignKeys : f9[k] = <<>>)
    BY <1>2, <2>2, <2>3, IrSilentEach
  <2> QED BY <2>2, <2>4
<1> HIDE DEF first, a1, a2, a3, a4, a5, a6, a7, a8, a9, a10, shape, known, actions
<1>11. \A s, t \in IrReports : s \o t \in IrReports /\ (s \o t = <<>> <=> s = <<>> /\ t = <<>>)
  BY IrSilent
<1>12. b5 \in IrReports /\ (b5 = <<>> => a1 = <<>> /\ a3 = <<>> /\ a5 = <<>>)
  BY <1>5, <1>6, <1>7, <1>8, <1>11
<1> HIDE DEF b5
<1>13. b10 \in IrReports /\ (b10 = <<>> => b5 = <<>> /\ a9 = <<>>)
  BY <1>6, <1>9, <1>10, <1>11, <1>12
<1> HIDE DEF b10
<1>14. /\ Then(b10, <<>>) \in IrReports /\ (Then(b10, <<>>) = <<>> => b10 = <<>>)
       /\ Then(first, Then(b10, <<>>)) \in IrReports
       /\ Then(first, Then(b10, <<>>)) = <<>> => first = <<>> /\ b10 = <<>>
  BY <1>4, <1>13, IrSilent
<1>15. /\ entityFailures(e, i) \in IrReports
       /\ entityFailures(e, i) = <<>> => first = <<>> /\ b10 = <<>>
  BY <1>1, <1>3, <1>14
<1>16. ASSUME first = <<>>, b10 = <<>> PROVE EntitySound(e, actions)
  <2>1. ASSUME NEW k \in DOMAIN e.fields, e.fields[k].name \in ToSet(e.primaryKey)
        PROVE  ~ e.fields[k].nullable /\ e.fields[k].required
    <3>1. ~ InvalidPrimaryKey(e)
      BY <1>5, <1>12, <1>13, <1>16
    <3>2. EntityField(e, e.fields[k].name) = e.fields[k]
      BY <1>2, <1>4, <1>16, FieldNamed
    <3> QED BY <2>1, <3>1, <3>2 DEF InvalidPrimaryKey
  <2> QED BY <1>4, <1>7, <1>8, <1>10, <1>12, <1>13, <1>16, <2>1 DEF EntitySound, known
<1> QED BY <1>15, <1>16 DEF actions
-----------------------------------------------------------------------------
(* What entity() makes of an entity without a report.                      *)

LEMMA ForeignRankType ==
    ASSUME NEW fk \in IrForeigns, fk.onDelete \in DELETE_ACTIONS
    PROVE  ForeignRank(fk) \in Seq(Int)
<1>1. DeleteRank(fk.onDelete) \in Int
  BY DEF DeleteRank, DELETE_ACTIONS
<1>2. fk.fields \in Seq(Int) /\ fk.refFields \in Seq(Int) /\ fk.entity \in Int
  BY DEF IrForeigns
<1>3. <<-1, fk.entity>> \in Seq(Int) /\ <<-1, DeleteRank(fk.onDelete)>> \in Seq(Int)
  BY <1>1, <1>2
<1> QED BY <1>2, <1>3 DEF ForeignRank, ForeignJson

LEMMA SortedIrForeign ==
    ASSUME NEW u \in Seq(IrForeigns), \A i \in DOMAIN u : u[i].onDelete \in DELETE_ACTIONS
    PROVE  /\ RankSorted([i \in DOMAIN u |-> ForeignRank(u[i])], u, sortBy(u, ForeignRank))
           /\ Rearranged(u, sortBy(u, ForeignRank))
<1> DEFINE s == u
           n == Len(s)
           K == [i \in DOMAIN s |-> ForeignRank(s[i])]
           p == [r \in DOMAIN s |-> CHOOSE j \in DOMAIN s :
                   Cardinality({i \in DOMAIN s :
                      \/ Less(ForeignRank(s[i]), ForeignRank(s[j]))
                      \/ ForeignRank(s[i]) = ForeignRank(s[j]) /\ i < j}) = r - 1]
<1>1. n \in Nat /\ DOMAIN s = 1..n /\ K \in [1..n -> Seq(Int)]
  <2>1. n \in Nat /\ DOMAIN s = 1..n /\ \A i \in 1..n : s[i] \in IrForeigns /\ s[i].onDelete \in DELETE_ACTIONS
    OBVIOUS
  <2> HIDE DEF s
  <2>2. \A i \in 1..n : ForeignRank(s[i]) \in Seq(Int)
    BY <2>1, ForeignRankType
  <2> QED BY <2>1, <2>2
<1>2. \A j \in 1..n : RankOf(K, j) = Cardinality({i \in DOMAIN s :
                      \/ Less(ForeignRank(s[i]), ForeignRank(s[j]))
                      \/ ForeignRank(s[i]) = ForeignRank(s[j]) /\ i < j})
  <2> HIDE DEF s
  <2> QED BY <1>1 DEF RankOf
<1>3. sortBy(u, ForeignRank) = [r \in DOMAIN s |-> s[p[r]]]
  BY DEF sortBy
<1> HIDE DEF s
<1>4. \A r \in 1..n : \E j \in 1..n : RankOf(K, j) = r - 1
  BY <1>1, Ranks
<1>5. \A r \in 1..n : p[r] \in 1..n /\ RankOf(K, p[r]) = r - 1
  BY <1>1, <1>2, <1>4
<1>6. p \in [1..n -> 1..n]
  BY <1>1, <1>5
<1> HIDE DEF p, K
<1>7. RankSorted(K, s, sortBy(u, ForeignRank))
  BY <1>1, <1>3, <1>5, <1>6 DEF RankSorted
<1>8. Rearranged(s, sortBy(u, ForeignRank))
  <2>1. s \in Seq(IrForeigns) /\ K \in [DOMAIN s -> Seq(Int)]
    BY <1>1 DEF s
  <2> QED BY <1>7, <2>1, SortedIsRearranged
<1> QED BY <1>7, <1>8 DEF K, s

LEMMA WithDelete ==
    ASSUME NEW fk \in IrForeigns, NEW known, ForeignSound(known, DELETE_ACTIONS \cup {Absent}, fk)
    PROVE  withDelete(fk) \in IrForeigns /\ ForeignSound(known, DELETE_ACTIONS, withDelete(fk))
<1>1. fk.onDelete = Absent \/ fk.onDelete \in DELETE_ACTIONS
  BY DEF ForeignSound
<1>2. /\ withDelete(fk) \in IrForeigns /\ withDelete(fk).onDelete \in DELETE_ACTIONS
      /\ withDelete(fk).fields = fk.fields /\ withDelete(fk).refFields = fk.refFields
  BY <1>1 DEF withDelete, IrForeigns, DELETE_ACTIONS, Absent
<1> QED BY <1>2 DEF ForeignSound

\* Sorting a list of sound key tuples leaves sound key tuples.
LEMMA KeysSorted ==
    ASSUME NEW keys \in Seq(Seq(Int)), NEW known, \A k \in DOMAIN keys : KeySound(known, keys[k])
    PROVE  LET t == sortBy(keys, LAMBDA k : k)
           IN  t \in Seq(Seq(Int)) /\ \A r \in DOMAIN t : KeySound(known, t[r])
<1> DEFINE KeyLists == Seq(Int)
           t == sortBy(keys, LAMBDA k : k)
<1>1. Rearranged(keys, t)
  BY SortedKeysFact
<1>2. keys \in Seq(KeyLists)
  OBVIOUS
<1> HIDE DEF KeyLists, t
<1>3. t \in Seq(KeyLists) /\ \A r \in DOMAIN t : \E i \in DOMAIN keys : t[r] = keys[i]
  BY <1>1, <1>2, RearrangedItems
<1>4. \A r \in DOMAIN t : KeySound(known, t[r])
  BY <1>3
<1> QED BY <1>3, <1>4 DEF KeyLists, t

LEMMA ForeignKeysSorted ==
    ASSUME NEW keys \in Seq(IrForeigns), NEW known,
           \A k \in DOMAIN keys : ForeignSound(known, DELETE_ACTIONS \cup {Absent}, keys[k])
    PROVE  LET t == sortBy(Map(withDelete, keys), ForeignRank)
           IN  t \in Seq(IrForeigns) /\ \A r \in DOMAIN t : ForeignSound(known, DELETE_ACTIONS, t[r])
<1> DEFINE w == Map(withDelete, keys)
           t == sortBy(w, ForeignRank)
<1>1. w = [k \in DOMAIN keys |-> withDelete(keys[k])]
  BY DEF Map
<1>2. \A k \in DOMAIN keys : keys[k] \in IrForeigns
  OBVIOUS
<1> HIDE DEF w
<1>3. w = [k \in DOMAIN keys |-> w[k]] /\ \A k \in DOMAIN keys : w[k] = withDelete(keys[k])
  BY <1>1
<1>4. \A k \in DOMAIN keys : w[k] \in IrForeigns /\ ForeignSound(known, DELETE_ACTIONS, w[k])
  BY <1>2, <1>3, WithDelete
<1>5. w \in Seq(IrForeigns) /\ DOMAIN w = DOMAIN keys
  BY <1>3, <1>4, MappedLists
<1>6. \A k \in DOMAIN w : w[k].onDelete \in DELETE_ACTIONS
  BY <1>4, <1>5 DEF ForeignSound
<1>7. Rearranged(w, t)
  BY <1>5, <1>6, SortedIrForeign
<1> HIDE DEF t
<1>8. t \in Seq(IrForeigns) /\ \A r \in DOMAIN t : \E k \in DOMAIN w : t[r] = w[k]
  BY <1>5, <1>7, RearrangedItems
<1>9. \A r \in DOMAIN t : ForeignSound(known, DELETE_ACTIONS, t[r])
  BY <1>4, <1>5, <1>8
<1> QED BY <1>8, <1>9 DEF t, w

LEMMA EntityNormal ==
    ASSUME NEW e, EntitySound(e, DELETE_ACTIONS \cup {Absent})
    PROVE  LET x == entity(e)
           IN  /\ EntitySound(x, DELETE_ACTIONS)
               /\ x.name = e.name /\ x.table = e.table /\ x.primaryKey = e.primaryKey
               /\ x.fields = ByName(e.fields) /\ ToSet(x.fields) = ToSet(e.fields)
<1> DEFINE x == entity(e)
           F == ByName(e.fields)
           U == sortBy(e.uniqueKeys, LAMBDA k : k)
           X == sortBy(e.indexes, LAMBDA k : k)
           K == sortBy(Map(withDelete, e.foreignKeys), ForeignRank)
           known == EntityFields(e)
<1>1. /\ e \in IrEntities /\ e.fields \in Seq(IrFields) /\ e.uniqueKeys \in Seq(Seq(Int))
      /\ e.indexes \in Seq(Seq(Int)) /\ e.foreignKeys \in Seq(IrForeigns)
  BY DEF EntitySound, IrEntities
<1>2. x = [e EXCEPT !.fields = F, !.uniqueKeys = U, !.indexes = X, !.foreignKeys = K]
  BY DEF entity, ByName
<1>3. Rearranged(e.fields, F)
  <2>1. \A f \in IrFields : f.name \in Int
    BY DEF IrFields
  <2>2. \A i \in DOMAIN e.fields : e.fields[i].name \in Int
    BY <1>1, <2>1
  <2> QED BY <1>1, <2>2, SortedByName
<1>4. U \in Seq(Seq(Int)) /\ \A k \in DOMAIN U : KeySound(known, U[k])
  BY <1>1, KeysSorted DEF EntitySound
<1>5. X \in Seq(Seq(Int)) /\ \A k \in DOMAIN X : KeySound(known, X[k])
  BY <1>1, KeysSorted DEF EntitySound
<1>6. K \in Seq(IrForeigns) /\ \A k \in DOMAIN K : ForeignSound(known, DELETE_ACTIONS, K[k])
  BY <1>1, ForeignKeysSorted DEF EntitySound
<1> HIDE DEF F, U, X, K, known, x
<1>7. PICK p : Permutation(p, DOMAIN e.fields) /\ F = [r \in DOMAIN e.fields |-> e.fields[p[r]]]
  BY <1>3 DEF Rearranged
<1>8. /\ F \in Seq(IrFields) /\ DOMAIN F = DOMAIN e.fields
      /\ \A r \in DOMAIN F : p[r] \in DOMAIN e.fields /\ F[r] = e.fields[p[r]]
      /\ \A r, q \in DOMAIN F : p[r] = p[q] => r = q
      /\ \A i \in DOMAIN e.fields : \E r \in DOMAIN F : F[r] = e.fields[i]
  <2>1. F \in Seq(IrFields) /\ DOMAIN F = DOMAIN e.fields /\ \A i \in DOMAIN e.fields : \E r \in DOMAIN F : F[r] = e.fields[i]
    BY <1>1, <1>3, RearrangedItems
  <2> QED BY <1>7, <2>1 DEF Permutation
<1>9. ToSet(F) = ToSet(e.fields)
  BY <1>1, <1>3, RearrangedSet
<1>10. /\ x \in IrEntities /\ x.name = e.name /\ x.table = e.table /\ x.primaryKey = e.primaryKey
       /\ x.fields = F /\ x.uniqueKeys = U /\ x.indexes = X /\ x.foreignKeys = K
  <2> DEFINE KeyLists == Seq(Seq(Int))
             Shorts == Seq(Int)
             FieldLists == Seq(IrFields)
             ForeignLists == Seq(IrForeigns)
  <2>1. /\ F \in FieldLists /\ U \in KeyLists /\ X \in KeyLists /\ K \in ForeignLists
        /\ IrEntities = [shape : IrShapes, name : Int, table : Int, fields : FieldLists,
                         primaryKey : Shorts, uniqueKeys : KeyLists, indexes : KeyLists,
                         foreignKeys : ForeignLists]
    BY <1>4, <1>5, <1>6, <1>8 DEF IrEntities
  <2> HIDE DEF KeyLists, Shorts, FieldLists, ForeignLists
  <2> QED BY <1>1, <1>2, <2>1
<1>11. EntityFields(x) = known
  BY <1>9, <1>10 DEF EntityFields, known
<1>12. \A r \in DOMAIN F :
          /\ FieldSound(F[r])
          /\ F[r].name \in ToSet(x.primaryKey) => ~ F[r].nullable /\ F[r].required
  <2>1. \A i \in DOMAIN e.fields :
           /\ FieldSound(e.fields[i])
           /\ e.fields[i].name \in ToSet(x.primaryKey) => ~ e.fields[i].nullable /\ e.fields[i].required
    BY <1>10 DEF EntitySound
  <2>2. \A r \in DOMAIN F : \E i \in DOMAIN e.fields : F[r] = e.fields[i]
    BY <1>8
  <2> QED BY <2>1, <2>2
<1>13. ASSUME NEW r \in DOMAIN F, NEW q \in DOMAIN F, F[r].name = F[q].name \/ F[r].column = F[q].column
       PROVE  r = q
  <2>1. /\ p[r] \in DOMAIN e.fields /\ p[q] \in DOMAIN e.fields
        /\ \/ e.fields[p[r]].name = e.fields[p[q]].name
           \/ e.fields[p[r]].column = e.fields[p[q]].column
    BY <1>8, <1>13
  <2>2. p[r] = p[q]
    BY <2>1 DEF EntitySound
  <2> QED BY <1>8, <2>2
<1>14. KeySound(known, x.primaryKey)
  BY <1>10 DEF EntitySound, known
<1>15. EntitySound(x, DELETE_ACTIONS)
  BY <1>4, <1>5, <1>6, <1>10, <1>11, <1>12, <1>13, <1>14 DEF EntitySound
<1> QED BY <1>9, <1>10, <1>15 DEF x, F
-----------------------------------------------------------------------------
(* What normalizeSchemaIr returns without a report.                        *)

\* A foreign key of e refers to a key of another entity, of the same types.
Refers(e, fk, target) ==
    /\ target.name = fk.entity
    /\ ToSet(fk.refFields) \subseteq EntityFields(target)
    /\ fk.refFields \in ToSet(<<target.primaryKey>> \o target.uniqueKeys)
    /\ \A k \in DOMAIN fk.fields :
          EntityField(e, fk.fields[k]).type = EntityField(target, fk.refFields[k]).type

EntitiesSound(es) ==
    /\ es \in Seq(IrEntities)
    /\ \A i \in DOMAIN es : EntitySound(es[i], DELETE_ACTIONS)
    /\ \A i, j \in DOMAIN es : es[i].name = es[j].name \/ es[i].table = es[j].table => i = j
    /\ \A i \in DOMAIN es : \A k \in DOMAIN es[i].foreignKeys :
          \E j \in DOMAIN es : Refers(es[i], es[i].foreignKeys[k], es[j])

LEMMA IntsApart ==
    ASSUME NEW T, NEW s \in Seq(T), NEW w, w = [i \in DOMAIN s |-> w[i]], \A i \in DOMAIN s : w[i] \in Int,
           ~ Repeats(w)
    PROVE  \A i, j \in DOMAIN s : w[i] = w[j] => i = j
<1>1. w \in Seq(Int) /\ DOMAIN w = DOMAIN s
  BY MappedLists
<1>2. \A i, j \in DOMAIN w : w[i] = w[j] => i = j
  BY <1>1, NoRepeats
<1> QED BY <1>1, <1>2

LEMMA ReportedFirst ==
    ASSUME NEW d, normalizeFailures(d) = <<>>
    PROVE  /\ fail(d.version # "ores.schema-ir.v1", "UNSUPPORTED_VERSION", <<>>)
                \o identifier(d.schema, SystemSchemas, <<>>) \o list(d.entities, 1, MaxEntities, <<>>)
                \o FlattenSeq([i \in DOMAIN d.entities |-> entityFailures(d.entities[i], i)]) = <<>>
           /\ ~ DuplicateEntities(d.entities)
           /\ referenceFailures(normalizedEntities(d)) = <<>>
<1> DEFINE shape == fail(TRUE, d.shape, <<>>)
           a == fail(d.version # "ores.schema-ir.v1", "UNSUPPORTED_VERSION", <<>>)
                \o identifier(d.schema, SystemSchemas, <<>>) \o list(d.entities, 1, MaxEntities, <<>>)
                \o FlattenSeq([i \in DOMAIN d.entities |-> entityFailures(d.entities[i], i)])
           b == fail(DuplicateEntities(d.entities), "DUPLICATE", <<>>)
           c == referenceFailures(normalizedEntities(d))
<1>1. normalizeFailures(d) = IF d.shape # "ok" THEN shape ELSE Then(a, Then(b, c))
  BY DEF normalizeFailures
<1>2. shape # <<>>
  BY DEF fail
<1>3. b = <<>> => ~ DuplicateEntities(d.entities)
  BY DEF fail
<1> HIDE DEF shape, a, b, c
<1>4. d.shape = "ok" /\ Then(a, Then(b, c)) = <<>>
  BY <1>1, <1>2
<1>5. a = <<>> /\ Then(b, c) = <<>>
  BY <1>4 DEF Then
<1>6. b = <<>> /\ c = <<>>
  BY <1>5 DEF Then
<1> QED BY <1>3, <1>4, <1>5, <1>6 DEF a, c

\* The entities of a document without a report: each is sound, and their names differ, also where
\* upper and lower case are the same.
LEMMA AcceptedEntities ==
    ASSUME NEW d \in IrDocuments, normalizeFailures(d) = <<>>
    PROVE  /\ d.entities \in Seq(IrEntities)
           /\ \A i \in DOMAIN d.entities : EntitySound(d.entities[i], DELETE_ACTIONS \cup {Absent})
           /\ \A i, j \in DOMAIN d.entities :
                 \/ Lower(d.entities[i].name) = Lower(d.entities[j].name)
                 \/ d.entities[i].name = d.entities[j].name \/ d.entities[i].table = d.entities[j].table
                 => i = j
<1> DEFINE s == d.entities
           a1 == fail(d.version # "ores.schema-ir.v1", "UNSUPPORTED_VERSION", <<>>)
           a2 == identifier(d.schema, SystemSchemas, <<>>)
           a3 == list(s, 1, MaxEntities, <<>>)
           f == [i \in DOMAIN s |-> entityFailures(s[i], i)]
           a4 == FlattenSeq(f)
           names == [i \in DOMAIN s |-> Lower(s[i].name)]
           tables == [i \in DOMAIN s |-> s[i].table]
<1>1. a1 \o a2 \o a3 \o a4 = <<>> /\ ~ DuplicateEntities(s)
  BY ReportedFirst
<1>2. s \in Seq(IrEntities) /\ Len(s) \in Nat /\ DOMAIN s = 1..Len(s)
  BY DEF IrDocuments
<1>3. <<>> \in Seq(Int)
  OBVIOUS
<1>4. a1 \in IrReports
  <2> DEFINE other == d.version # "ores.schema-ir.v1"
  <2>1. other \in BOOLEAN
    OBVIOUS
  <2> HIDE DEF other
  <2>2. fail(other, "UNSUPPORTED_VERSION", <<>>) \in IrReports
    BY <1>3, <2>1, FailReport DEF IrCodes
  <2> QED BY <2>2 DEF other
<1>5. a2 \in IrReports /\ a3 \in IrReports
  BY <1>3, IdentifierReport, ListReport
<1>6. \A i \in DOMAIN s : s[i] \in IrEntities /\ i \in Int
  BY <1>2
<1>7. \A i \in DOMAIN s : f[i] \in IrReports /\ (f[i] = <<>> => EntitySound(s[i], DELETE_ACTIONS \cup {Absent}))
  BY <1>6, EntityReport
<1>8. f = [i \in DOMAIN s |-> f[i]]
  OBVIOUS
<1>9. \A i \in DOMAIN s : names[i] = Lower(s[i].name) /\ tables[i] = s[i].table
  OBVIOUS
<1>10. names = [i \in DOMAIN s |-> names[i]] /\ tables = [i \in DOMAIN s |-> tables[i]]
  OBVIOUS
<1>11. ~ Repeats(names) /\ ~ Repeats(tables)
  BY <1>1 DEF DuplicateEntities, Map
<1> HIDE DEF s, a1, a2, a3, f, names, tables
<1>12. a4 \in IrReports /\ (a4 = <<>> => \A i \in DOMAIN s : f[i] = <<>>)
  BY <1>2, <1>7, <1>8, IrSilentEach
<1> HIDE DEF a4
<1>13. a4 = <<>>
  <2>1. \A u, t \in IrReports : u \o t \in IrReports /\ (u \o t = <<>> <=> u = <<>> /\ t = <<>>)
    BY IrSilent
  <2> QED BY <1>1, <1>4, <1>5, <1>12, <2>1
<1>14. \A i \in DOMAIN s : names[i] \in Int /\ tables[i] \in Int
  <2>1. \A e \in IrEntities : e.name \in Int /\ e.table \in Int
    BY DEF IrEntities
  <2>2. \A n \in Int : Lower(n) \in Int
    BY DEF Lower
  <2> QED BY <1>6, <1>9, <2>1, <2>2
<1>15. /\ \A i, j \in DOMAIN s : names[i] = names[j] => i = j
       /\ \A i, j \in DOMAIN s : tables[i] = tables[j] => i = j
  BY <1>2, <1>10, <1>11, <1>14, IntsApart
<1>16. \A i, j \in DOMAIN s :
          Lower(s[i].name) = Lower(s[j].name) \/ s[i].name = s[j].name \/ s[i].table = s[j].table => i = j
  BY <1>9, <1>15
<1> QED BY <1>2, <1>7, <1>12, <1>13, <1>16 DEF s
LEMMA NormalEntities ==
    ASSUME NEW d \in IrDocuments, normalizeFailures(d) = <<>>
    PROVE  LET es == normalizedEntities(d)
           IN  /\ EntitiesSound(es) /\ DOMAIN es = DOMAIN d.entities
               /\ \A i \in DOMAIN d.entities : es[i] = entity(d.entities[i])
<1> DEFINE s == d.entities
           es == normalizedEntities(d)
           h(i) == [k \in DOMAIN es[i].foreignKeys |->
                      fail(BadReference(es, es[i], es[i].foreignKeys[k]), "INVALID_REFERENCE", <<i, k>>)]
           g == [i \in DOMAIN es |-> FlattenSeq(h(i))]
<1>1. /\ s \in Seq(IrEntities)
      /\ \A i \in DOMAIN s : EntitySound(s[i], DELETE_ACTIONS \cup {Absent})
      /\ \A i, j \in DOMAIN s : s[i].name = s[j].name \/ s[i].table = s[j].table => i = j
  BY AcceptedEntities
<1>2. FlattenSeq(g) = <<>>
  BY ReportedFirst DEF referenceFailures
<1>3. es = [i \in DOMAIN s |-> entity(s[i])]
  BY DEF normalizedEntities, Map
<1>4. \A i \in DOMAIN s : \A k \in DOMAIN es[i].foreignKeys :
         h(i)[k] = fail(BadReference(es, es[i], es[i].foreignKeys[k]), "INVALID_REFERENCE", <<i, k>>)
  OBVIOUS
<1>5. \A i \in DOMAIN s : h(i) = [k \in DOMAIN es[i].foreignKeys |-> h(i)[k]]
  OBVIOUS
<1>6. g = [i \in DOMAIN es |-> g[i]] /\ \A i \in DOMAIN es : g[i] = FlattenSeq(h(i))
  OBVIOUS
<1> HIDE DEF s, es, h, g
<1>7. es = [i \in DOMAIN s |-> es[i]] /\ \A i \in DOMAIN s : es[i] = entity(s[i])
  BY <1>3
<1>8. \A i \in DOMAIN s : EntitySound(es[i], DELETE_ACTIONS) /\ es[i].name = s[i].name /\ es[i].table = s[i].table
  BY <1>1, <1>7, EntityNormal
<1>9. \A i \in DOMAIN s : es[i] \in IrEntities
  BY <1>8 DEF EntitySound
<1>10. es \in Seq(IrEntities) /\ DOMAIN es = DOMAIN s
  BY <1>1, <1>7, <1>9, MappedLists
<1>11. \A i, j \in DOMAIN es : es[i].name = es[j].name \/ es[i].table = es[j].table => i = j
  BY <1>1, <1>8, <1>10
<1>12. ASSUME NEW i \in DOMAIN s, NEW k \in DOMAIN es[i].foreignKeys
       PROVE  BadReference(es, es[i], es[i].foreignKeys[k]) \in BOOLEAN /\ <<i, k>> \in Seq(Int)
  <2>1. es[i].foreignKeys \in Seq(IrForeigns)
    BY <1>9 DEF IrEntities
  <2>2. i \in Int /\ k \in Int
    BY <1>1, <2>1
  <2> QED BY <2>2 DEF BadReference
<1>13. \A i \in DOMAIN s : FlattenSeq(h(i)) \in IrReports /\
          (FlattenSeq(h(i)) = <<>> => \A k \in DOMAIN es[i].foreignKeys : h(i)[k] = <<>>)
  <2> SUFFICES ASSUME NEW i \in DOMAIN s
               PROVE  FlattenSeq(h(i)) \in IrReports /\
                        (FlattenSeq(h(i)) = <<>> => \A k \in DOMAIN es[i].foreignKeys : h(i)[k] = <<>>)
    OBVIOUS
  <2>1. es[i].foreignKeys \in Seq(IrForeigns)
    BY <1>9 DEF IrEntities
  <2>2. "INVALID_REFERENCE" \in IrCodes
    BY DEF IrCodes
  <2>3. ASSUME NEW k \in DOMAIN es[i].foreignKeys PROVE h(i)[k] \in IrReports
    <3> DEFINE bad == BadReference(es, es[i], es[i].foreignKeys[k])
               at == <<i, k>>
    <3>1. bad \in BOOLEAN /\ at \in Seq(Int)
      BY <1>12
    <3>2. h(i)[k] = fail(bad, "INVALID_REFERENCE", at)
      BY <1>4
    <3> HIDE DEF bad, at
    <3> QED BY <2>2, <3>1, <3>2, FailReport
  <2> DEFINE u == es[i].foreignKeys
             w == h(i)
  <2>4. u \in Seq(IrForeigns) /\ w = [k \in DOMAIN u |-> w[k]] /\ \A k \in DOMAIN u : w[k] \in IrReports
    BY <1>5, <2>1, <2>3
  <2> HIDE DEF u, w
  <2>5. FlattenSeq(w) \in IrReports /\ (FlattenSeq(w) = <<>> => \A k \in DOMAIN u : w[k] = <<>>)
    BY <2>4, IrSilentEach
  <2> QED BY <2>5 DEF u, w
<1>14. \A i \in DOMAIN es : g[i] = <<>>
  <2>1. \A i \in DOMAIN es : g[i] \in IrReports
    BY <1>6, <1>10, <1>13
  <2> QED BY <1>2, <1>6, <1>10, <2>1, IrSilentEach
<1>15. ASSUME NEW i \in DOMAIN es, NEW k \in DOMAIN es[i].foreignKeys
       PROVE  \E j \in DOMAIN es : Refers(es[i], es[i].foreignKeys[k], es[j])
  <2> DEFINE fk == es[i].foreignKeys[k]
  <2>1. h(i)[k] = <<>>
    BY <1>6, <1>10, <1>13, <1>14
  <2>2. ~ BadReference(es, es[i], fk)
    <3> DEFINE bad == BadReference(es, es[i], fk)
    <3>1. h(i)[k] = fail(bad, "INVALID_REFERENCE", <<i, k>>)
      BY <1>4, <1>10
    <3> HIDE DEF bad
    <3>2. ~ bad
      BY <2>1, <3>1 DEF fail
    <3> QED BY <3>2 DEF bad
  <2> HIDE DEF fk
  <2>3. PICK j \in DOMAIN es : es[j].name = fk.entity
    BY <2>2 DEF BadReference, ToSet
  <2>4. EntityOf(es, fk.entity) = es[j]
    <3>1. EntityOf(es, es[j].name) = es[j]
      BY <1>10, <1>11, EntityNamed
    <3> QED BY <2>3, <3>1
  <2>5. Refers(es[i], fk, es[j])
    BY <2>2, <2>3, <2>4 DEF BadReference, Refers
  <2> QED BY <2>5 DEF fk
<1>16. EntitiesSound(es)
  BY <1>8, <1>10, <1>11, <1>15 DEF EntitiesSound
<1> QED BY <1>7, <1>10, <1>16 DEF es, s

\* Sorting sound entities by name leaves them sound.
LEMMA SortedEntities ==
    ASSUME NEW s, EntitiesSound(s)
    PROVE  LET es == ByName(s)
           IN  EntitiesSound(es) /\ ToSet(es) = ToSet(s) /\ DOMAIN es = DOMAIN s /\ Len(es) = Len(s)
<1> DEFINE es == ByName(s)
<1>1. s \in Seq(IrEntities)
  BY DEF EntitiesSound
<1>2. Rearranged(s, es)
  <2>1. \A e \in IrEntities : e.name \in Int
    BY DEF IrEntities
  <2>2. \A i \in DOMAIN s : s[i].name \in Int
    BY <1>1, <2>1
  <2> QED BY <1>1, <2>2, SortedByName
<1> HIDE DEF es
<1>3. PICK p : Permutation(p, DOMAIN s) /\ es = [r \in DOMAIN s |-> s[p[r]]]
  BY <1>2 DEF Rearranged
<1>4. /\ es \in Seq(IrEntities) /\ DOMAIN es = DOMAIN s /\ Len(es) = Len(s) /\ ToSet(es) = ToSet(s)
      /\ \A r \in DOMAIN es : \E i \in DOMAIN s : es[r] = s[i]
      /\ \A i \in DOMAIN s : \E r \in DOMAIN es : es[r] = s[i]
  BY <1>1, <1>2, RearrangedItems, RearrangedSet
<1>5. /\ \A r \in DOMAIN es : p[r] \in DOMAIN s /\ es[r] = s[p[r]]
      /\ \A r, q \in DOMAIN es : p[r] = p[q] => r = q
  BY <1>3, <1>4 DEF Permutation
<1>6. \A r \in DOMAIN es : EntitySound(es[r], DELETE_ACTIONS)
  BY <1>4 DEF EntitiesSound
<1>7. ASSUME NEW r \in DOMAIN es, NEW q \in DOMAIN es, es[r].name = es[q].name \/ es[r].table = es[q].table
      PROVE  r = q
  <2>1. /\ p[r] \in DOMAIN s /\ p[q] \in DOMAIN s
        /\ s[p[r]].name = s[p[q]].name \/ s[p[r]].table = s[p[q]].table
    BY <1>5, <1>7
  <2>2. p[r] = p[q]
    BY <2>1 DEF EntitiesSound
  <2> QED BY <1>5, <2>2
<1>8. ASSUME NEW r \in DOMAIN es, NEW k \in DOMAIN es[r].foreignKeys
      PROVE  \E q \in DOMAIN es : Refers(es[r], es[r].foreignKeys[k], es[q])
  <2>1. PICK i \in DOMAIN s : es[r] = s[i]
    BY <1>4
  <2>2. PICK j \in DOMAIN s : Refers(s[i], s[i].foreignKeys[k], s[j])
    BY <1>8, <2>1 DEF EntitiesSound
  <2>3. PICK q \in DOMAIN es : es[q] = s[j]
    BY <1>4
  <2> QED BY <2>1, <2>2, <2>3
<1> QED BY <1>4, <1>6, <1>7, <1>8 DEF EntitiesSound, es
-----------------------------------------------------------------------------
(* The generated names.                                                    *)

\* The hash of a list of numbers, part of it after part, and its recursive function.
Hashes(w, m, f) ==
    /\ f \in [SUBSET (1..m) -> Int]
    /\ \A S \in SUBSET (1..m) : f[S] = IF S = {} THEN 7 ELSE 2 * f[S \ {Max(S)}] + w[Max(S)] + 1

LEMMA LastPosition ==
    ASSUME NEW m \in Nat, NEW S \in SUBSET (1..(m + 1))
    PROVE  /\ m + 1 \notin S => S \in SUBSET (1..m)
           /\ S \ {m + 1} \in SUBSET (1..m)
           /\ m + 1 \in S => Max(S) = m + 1
<1>1. \A k \in 1..(m + 1) : k \in 1..m \/ k = m + 1
  OBVIOUS
<1>2. ASSUME m + 1 \in S PROVE Max(S) = m + 1
  <2>1. \A y \in S : m + 1 >= y /\ y \in Int
    OBVIOUS
  <2>2. Max(S) \in S /\ \A y \in S : Max(S) >= y
    BY <1>2, <2>1 DEF Max
  <2> DEFINE x == Max(S)
  <2>3. x \in Int /\ m + 1 >= x /\ x >= m + 1
    BY <1>2, <2>1, <2>2
  <2> HIDE DEF x
  <2>4. x = m + 1
    BY <2>3
  <2> QED BY <2>4 DEF x
<1> QED BY <1>1, <1>2

LEMMA HashesExist ==
    ASSUME NEW w \in Seq(Int)
    PROVE  \E f : Hashes(w, Len(w), f)
<1> DEFINE n == Len(w)
           K == {m \in Nat : m <= n => \E f : Hashes(w, m, f)}
<1>0. n \in Nat /\ DOMAIN w = 1..n
  OBVIOUS
<1> HIDE DEF n
<1>1. 0 \in K
  <2> DEFINE f == [S \in SUBSET (1..0) |-> 7]
  <2>1. \A S \in SUBSET (1..0) : S = {}
    OBVIOUS
  <2>2. Hashes(w, 0, f)
    BY <2>1 DEF Hashes
  <2> QED BY <2>2
<1>2. ASSUME NEW m \in Nat, m \in K PROVE m + 1 \in K
  <2> SUFFICES ASSUME m + 1 <= n PROVE \E f : Hashes(w, m + 1, f)
    OBVIOUS
  <2>1. PICK f : Hashes(w, m, f)
    BY <1>0, <1>2
  <2> DEFINE g == [S \in SUBSET (1..(m + 1)) |->
                      IF m + 1 \notin S THEN f[S] ELSE 2 * f[S \ {m + 1}] + w[m + 1] + 1]
  <2>2. w[m + 1] \in Int
    BY <1>0
  <2>3. \A S \in SUBSET (1..(m + 1)) :
           /\ m + 1 \notin S => S \in SUBSET (1..m)
           /\ S \ {m + 1} \in SUBSET (1..m)
           /\ m + 1 \in S => Max(S) = m + 1
    BY LastPosition
  <2>4. \A S \in SUBSET (1..(m + 1)) : g[S] \in Int
    <3>1. \A S \in SUBSET (1..m) : f[S] \in Int
      BY <2>1 DEF Hashes
    <3> SUFFICES ASSUME NEW S \in SUBSET (1..(m + 1)) PROVE g[S] \in Int
      OBVIOUS
    <3>2. CASE m + 1 \notin S
      BY <2>3, <3>1, <3>2
    <3>3. CASE m + 1 \in S
      <4>1. f[S \ {m + 1}] \in Int
        BY <2>3, <3>1
      <4> QED BY <2>2, <3>3, <4>1
    <3> QED BY <3>2, <3>3
  <2>5. ASSUME NEW S \in SUBSET (1..(m + 1))
        PROVE  g[S] = IF S = {} THEN 7 ELSE 2 * g[S \ {Max(S)}] + w[Max(S)] + 1
    <3>1. CASE m + 1 \in S
      <4>1. g[S] = 2 * f[S \ {m + 1}] + w[m + 1] + 1
        BY <3>1
      <4>2. g[S \ {m + 1}] = f[S \ {m + 1}]
        OBVIOUS
      <4> QED BY <2>3, <3>1, <4>1, <4>2
    <3>2. CASE m + 1 \notin S
      <4>1. S \in SUBSET (1..m) /\ g[S] = f[S]
        BY <2>3, <3>2
      <4>2. f[S] = IF S = {} THEN 7 ELSE 2 * f[S \ {Max(S)}] + w[Max(S)] + 1
        BY <2>1, <4>1 DEF Hashes
      <4>3. g[S \ {Max(S)}] = f[S \ {Max(S)}]
        BY <3>2
      <4> QED BY <4>1, <4>2, <4>3
    <3> QED BY <3>1, <3>2
  <2> HIDE DEF g
  <2>6. g \in [SUBSET (1..(m + 1)) -> Int]
    BY <2>4 DEF g
  <2>7. Hashes(w, m + 1, g)
    BY <2>5, <2>6 DEF Hashes
  <2> QED BY <2>7
<1> HIDE DEF K
<1>3. n \in K
  BY <1>0, <1>1, <1>2, SetInduction
<1> QED BY <1>0, <1>3 DEF K, n

LEMMA HashType ==
    ASSUME NEW w \in Seq(Int)
    PROVE  FoldLeft(LAMBDA acc, x : 2 * acc + x + 1, 7, w) \in Int
<1> DEFINE P == DOMAIN w
           F == CHOOSE f : f = [S \in SUBSET P |-> IF S = {} THEN 7 ELSE 2 * f[S \ {Max(S)}] + w[Max(S)] + 1]
<1>0. P = 1..Len(w)
  OBVIOUS
<1>1. PICK f : Hashes(w, Len(w), f)
  BY HashesExist
<1>2. f = [S \in SUBSET P |-> IF S = {} THEN 7 ELSE 2 * f[S \ {Max(S)}] + w[Max(S)] + 1]
  BY <1>0, <1>1 DEF Hashes
<1>3. F = [S \in SUBSET P |-> IF S = {} THEN 7 ELSE 2 * F[S \ {Max(S)}] + w[Max(S)] + 1]
  BY <1>2
<1>4. FoldLeft(LAMBDA acc, x : 2 * acc + x + 1, 7, w) = F[P]
  BY Zenon DEF FoldLeft, MapThenFoldSet
<1> HIDE DEF F
<1>5. \A S \in SUBSET P : F[S] = IF S = {} THEN 7 ELSE 2 * F[S \ {Max(S)}] + w[Max(S)] + 1
  BY <1>3
<1> DEFINE n == Len(w)
           K == {m \in Nat : m <= n => \A S \in SUBSET (1..m) : F[S] \in Int}
<1>6. n \in Nat /\ P = 1..n /\ \A k \in 1..n : w[k] \in Int
  OBVIOUS
<1> HIDE DEF P, n
<1>7. 0 \in K
  <2>1. \A S \in SUBSET (1..0) : S = {}
    OBVIOUS
  <2>2. {} \in SUBSET P
    OBVIOUS
  <2>3. F[{}] = 7
    BY <1>5, <2>2
  <2>4. ASSUME NEW S \in SUBSET (1..0) PROVE F[S] \in Int
    <3>1. S = {}
      BY <2>1
    <3>2. F[S] = 7
      BY <2>3, <3>1
    <3> QED BY <3>2
  <2> QED BY <2>4
<1>8. ASSUME NEW m \in Nat, m \in K PROVE m + 1 \in K
  <2> SUFFICES ASSUME m + 1 <= n, NEW S \in SUBSET (1..(m + 1)) PROVE F[S] \in Int
    OBVIOUS
  <2>1. \A R \in SUBSET (1..m) : F[R] \in Int
    BY <1>6, <1>8
  <2>2. CASE m + 1 \notin S
    BY <2>1, <2>2, LastPosition
  <2>3. CASE m + 1 \in S
    <3>1. Max(S) = m + 1 /\ S \ {m + 1} \in SUBSET (1..m)
      BY <2>3, LastPosition
    <3>2. S \in SUBSET P /\ S # {}
      BY <1>6, <2>3
    <3>3. F[S] = 2 * F[S \ {m + 1}] + w[m + 1] + 1
      BY <1>5, <3>1, <3>2
    <3>4. F[S \ {m + 1}] \in Int /\ w[m + 1] \in Int
      BY <1>6, <2>1, <3>1
    <3> QED BY <3>3, <3>4
  <2> QED BY <2>2, <2>3
<1> HIDE DEF K
<1>9. n \in K
  BY <1>6, <1>7, <1>8, SetInduction
<1>10. F[P] \in Int
  BY <1>6, <1>9 DEF K
<1> QED BY <1>4, <1>10
LEMMA KindIndexes ==
    KindIndex("pk") = 1 /\ KindIndex("uq") = 2 /\ KindIndex("idx") = 3 /\ KindIndex("fk") = 4
<1> DEFINE kinds == <<"pk", "uq", "idx", "fk">>
<1>1. /\ kinds[1] = "pk" /\ kinds[2] = "uq" /\ kinds[3] = "idx" /\ kinds[4] = "fk"
      /\ \A k \in 1..4 : k = 1 \/ k = 2 \/ k = 3 \/ k = 4
  OBVIOUS
<1>2. ASSUME NEW i \in 1..4, NEW kind, kinds[i] = kind, \A k \in 1..4 : kinds[k] = kind => k = i
      PROVE  KindIndex(kind) = i
  BY <1>2 DEF KindIndex
<1> HIDE DEF kinds
<1>3. \A k \in 1..4 : /\ kinds[k] = "pk" => k = 1
                      /\ kinds[k] = "uq" => k = 2
                      /\ kinds[k] = "idx" => k = 3
                      /\ kinds[k] = "fk" => k = 4
  BY <1>1
<1>4. 1 \in 1..4 /\ 2 \in 1..4 /\ 3 \in 1..4 /\ 4 \in 1..4
  OBVIOUS
<1> QED BY <1>1, <1>2, <1>3, <1>4

\* The names of one kind lie together.
LEMMA NameRange ==
    ASSUME NEW kind, KindIndex(kind) \in 1..4, NEW table \in Int, NEW detail \in Seq(Int)
    PROVE  \E x \in 0..(HashBuckets - 1) :
              generatedName(kind, table, detail) = HashBase + KindIndex(kind) * HashBuckets + x
<1> DEFINE h == FoldLeft(LAMBDA acc, x : 2 * acc + x + 1, 7, <<table>> \o detail)
           x == h % HashBuckets
<1>1. <<table>> \o detail \in Seq(Int)
  BY Before
<1>2. h \in Int
  BY <1>1, HashType
<1>3. generatedName(kind, table, detail) = HashBase + KindIndex(kind) * HashBuckets + x
  BY DEF generatedName
<1> HIDE DEF h
<1>4. x \in 0..(HashBuckets - 1)
  BY <1>2, IrAuthorAssumption
<1> QED BY <1>3, <1>4

\* No foreign key has the name of a key.
LEMMA ForeignNameApart ==
    ASSUME NEW table \in Int, NEW key \in Seq(Int), NEW detail \in Seq(Int), NEW kind \in {"pk", "uq"}
    PROVE  generatedName("fk", table, detail) # generatedName(kind, table, key)
<1>1. PICK x \in 0..(HashBuckets - 1) : generatedName("fk", table, detail) = HashBase + 4 * HashBuckets + x
  BY KindIndexes, NameRange
<1>2. PICK i \in {1, 2} : KindIndex(kind) = i /\ i \in 1..4
  BY KindIndexes
<1>3. PICK y \in 0..(HashBuckets - 1) : generatedName(kind, table, key) = HashBase + i * HashBuckets + y
  BY <1>2, NameRange
<1>4. HashBase \in Int /\ HashBuckets \in Nat /\ HashBuckets > 0
  BY IrAuthorAssumption
<1>5. CASE i = 1
  <2>1. HashBase + 4 * HashBuckets + x # HashBase + 1 * HashBuckets + y
    BY <1>4
  <2> QED BY <1>1, <1>3, <1>5, <2>1
<1>6. CASE i = 2
  <2>1. HashBase + 4 * HashBuckets + x # HashBase + 2 * HashBuckets + y
    BY <1>4
  <2> QED BY <1>1, <1>3, <1>6, <2>1
<1> QED BY <1>5, <1>6
-----------------------------------------------------------------------------
(* The names of relations that compileSchemaIr has compared.               *)

LEMMA ConcatApart ==
    ASSUME NEW T, NEW u \in Seq(T), NEW v \in Seq(T),
           \A k, l \in DOMAIN (u \o v) : (u \o v)[k] = (u \o v)[l] => k = l
    PROVE  /\ \A i, j \in DOMAIN u : u[i] = u[j] => i = j
           /\ \A i, j \in DOMAIN v : v[i] = v[j] => i = j
           /\ \A i \in DOMAIN u : \A j \in DOMAIN v : u[i] # v[j]
<1> DEFINE W == u \o v
           m == Len(u)
<1>1. /\ m \in Nat /\ Len(v) \in Nat
      /\ \A k \in 1..m : k \in DOMAIN W /\ W[k] = u[k]
      /\ \A a \in 1..Len(v) : m + a \in DOMAIN W /\ W[m + a] = v[a]
  BY ConcatParts
<1>2. DOMAIN u = 1..m /\ DOMAIN v = 1..Len(v)
  OBVIOUS
<1>3. \A k, l \in DOMAIN W : W[k] = W[l] => k = l
  OBVIOUS
<1> HIDE DEF W, m
<1>4. \A i, j \in DOMAIN u : u[i] = u[j] => i = j
  BY <1>1, <1>2, <1>3
<1>5. ASSUME NEW i \in DOMAIN v, NEW j \in DOMAIN v, v[i] = v[j] PROVE i = j
  <2>1. m + i = m + j
    BY <1>1, <1>2, <1>3, <1>5
  <2>2. i \in Nat /\ j \in Nat
    BY <1>1, <1>2
  <2> QED BY <1>1, <2>1, <2>2
<1>6. ASSUME NEW i \in DOMAIN u, NEW j \in DOMAIN v, u[i] = v[j] PROVE FALSE
  <2>1. i = m + j
    BY <1>1, <1>2, <1>3, <1>6
  <2> QED BY <1>1, <1>2, <2>1
<1> QED BY <1>4, <1>5, <1>6

LEMMA FlattenApart ==
    ASSUME NEW T, NEW ss \in Seq(Seq(T)),
           \A k, l \in DOMAIN FlattenSeq(ss) : FlattenSeq(ss)[k] = FlattenSeq(ss)[l] => k = l
    PROVE  \A i, j \in DOMAIN ss : \A a \in DOMAIN ss[i] : \A b \in DOMAIN ss[j] :
              ss[i][a] = ss[j][b] => i = j /\ a = b
<1> DEFINE fl == FlattenSeq(ss)
<1>1. PICK off \in Offsets(ss) :
         \A i \in DOMAIN ss : \A a \in DOMAIN ss[i] : off[i] + a \in DOMAIN fl /\ fl[off[i] + a] = ss[i][a]
  BY FlattenFacts
<1>2. \A k, l \in DOMAIN fl : fl[k] = fl[l] => k = l
  OBVIOUS
<1> HIDE DEF fl
<1> SUFFICES ASSUME NEW i \in DOMAIN ss, NEW j \in DOMAIN ss, NEW a \in DOMAIN ss[i], NEW b \in DOMAIN ss[j],
                    ss[i][a] = ss[j][b]
             PROVE  i = j /\ a = b
  OBVIOUS
<1>3. off[i] + a = off[j] + b
  BY <1>1, <1>2
<1> QED BY <1>3, OffsetsApart

KeyNames(e) == <<generatedName("pk", e.table, e.primaryKey)>>
                  \o Map(LAMBDA k : generatedName("uq", e.table, k), e.uniqueKeys)

IndexNamesOf(e) == Map(LAMBDA k : generatedName("idx", e.table, k), e.indexes)

NamesApartIn(es) ==
    \A x, y \in DOMAIN es :
       /\ \A a \in DOMAIN KeyNames(es[x]) :
             /\ KeyNames(es[x])[a] # es[y].table
             /\ \A b \in DOMAIN KeyNames(es[y]) : KeyNames(es[x])[a] = KeyNames(es[y])[b] => x = y /\ a = b
       /\ \A a \in DOMAIN IndexNamesOf(es[x]) :
             /\ IndexNamesOf(es[x])[a] # es[y].table
             /\ \A b \in DOMAIN KeyNames(es[y]) : IndexNamesOf(es[x])[a] # KeyNames(es[y])[b]
             /\ \A b \in DOMAIN IndexNamesOf(es[y]) :
                   IndexNamesOf(es[x])[a] = IndexNamesOf(es[y])[b] => x = y /\ a = b

LEMMA NameLists ==
    ASSUME NEW e \in IrEntities
    PROVE  /\ KeyNames(e) \in Seq(Int) /\ DOMAIN KeyNames(e) = 1..(Len(e.uniqueKeys) + 1)
           /\ KeyNames(e)[1] = generatedName("pk", e.table, e.primaryKey)
           /\ \A k \in DOMAIN KeyNames(e) :
                 \/ k = 1
                 \/ k - 1 \in DOMAIN e.uniqueKeys /\ KeyNames(e)[k] = generatedName("uq", e.table, e.uniqueKeys[k - 1])
           /\ IndexNamesOf(e) \in Seq(Int) /\ DOMAIN IndexNamesOf(e) = DOMAIN e.indexes
           /\ \A k \in DOMAIN e.indexes : IndexNamesOf(e)[k] = generatedName("idx", e.table, e.indexes[k])
<1> DEFINE T == Seq(Int)
           u == e.uniqueKeys
           v == e.indexes
           U == [k \in DOMAIN u |-> generatedName("uq", e.table, u[k])]
           V == [k \in DOMAIN v |-> generatedName("idx", e.table, v[k])]
           p == generatedName("pk", e.table, e.primaryKey)
<1>1. e.table \in Int /\ e.primaryKey \in T /\ u \in Seq(T) /\ v \in Seq(T)
  BY DEF IrEntities
<1>2. ASSUME NEW kind \in {"pk", "uq", "idx"}, NEW key \in T PROVE generatedName(kind, e.table, key) \in Int
  <2>1. PICK i \in 1..3 : KindIndex(kind) = i
    BY KindIndexes
  <2> DEFINE tb == e.table
  <2>a. tb \in Int /\ key \in Seq(Int) /\ KindIndex(kind) \in 1..4
    BY <1>1, <2>1
  <2> HIDE DEF tb
  <2>b. \E x \in 0..(HashBuckets - 1) : generatedName(kind, tb, key) = HashBase + KindIndex(kind) * HashBuckets + x
    BY <2>a, NameRange
  <2>2. PICK x \in 0..(HashBuckets - 1) : generatedName(kind, e.table, key) = HashBase + i * HashBuckets + x
    BY <2>1, <2>b DEF tb
  <2>3. HashBase + i * HashBuckets + x \in Int
    BY IrAuthorAssumption
  <2> QED BY <2>2, <2>3
<1>3. KeyNames(e) = <<p>> \o U /\ IndexNamesOf(e) = V
  BY DEF KeyNames, IndexNamesOf, Map
<1> HIDE DEF T
<1>4. /\ U = [k \in DOMAIN u |-> U[k]] /\ \A k \in DOMAIN u : U[k] = generatedName("uq", e.table, u[k]) /\ U[k] \in Int
      /\ V = [k \in DOMAIN v |-> V[k]] /\ \A k \in DOMAIN v : V[k] = generatedName("idx", e.table, v[k]) /\ V[k] \in Int
      /\ p \in Int
  <2>1. /\ \A k \in DOMAIN u : u[k] \in T
        /\ \A k \in DOMAIN v : v[k] \in T
    BY <1>1
  <2> QED BY <1>1, <1>2, <2>1
<1> HIDE DEF u, v, U, V, p
<1>5. U \in Seq(Int) /\ DOMAIN U = DOMAIN u /\ Len(U) = Len(u)
  BY <1>1, <1>4, MappedLists
<1>6. V \in Seq(Int) /\ DOMAIN V = DOMAIN v
  BY <1>1, <1>4, MappedLists
<1> DEFINE W == <<p>> \o U
<1>7. /\ W \in Seq(Int) /\ DOMAIN W = 1..(Len(U) + 1) /\ W[1] = p
      /\ \A k \in DOMAIN W : k = 1 \/ (k - 1 \in DOMAIN U /\ W[k] = U[k - 1])
  BY <1>4, <1>5, Before
<1> HIDE DEF W
<1>8. \A k \in DOMAIN W : k = 1 \/ (k - 1 \in DOMAIN u /\ W[k] = generatedName("uq", e.table, u[k - 1]))
  BY <1>4, <1>5, <1>7
<1>9. KeyNames(e) = W
  BY <1>3 DEF W
<1> QED BY <1>3, <1>4, <1>5, <1>6, <1>7, <1>8, <1>9 DEF u, v, p
LEMMA RelationNamesApart ==
    ASSUME NEW ir, ir.entities \in Seq(IrEntities), ~ RelationCollision(ir)
    PROVE  NamesApartIn(ir.entities)
<1> DEFINE es == ir.entities
           D == [x \in DOMAIN es |-> es[x].table]
           ss == [x \in DOMAIN es |-> KeyNames(es[x])]
           tt == [x \in DOMAIN es |-> IndexNamesOf(es[x])]
           N == Seq(Int)
           P == FlattenSeq(ss)
           Q == FlattenSeq(tt)
           G == P \o Q
           W == D \o G
<1>1. ~ Repeats(W)
  BY DEF RelationCollision, generatedRelationNames, Each, Map, KeyNames, IndexNamesOf
<1>2. \A x \in DOMAIN es : D[x] = es[x].table /\ ss[x] = KeyNames(es[x]) /\ tt[x] = IndexNamesOf(es[x])
  OBVIOUS
<1>3. D = [x \in DOMAIN es |-> D[x]] /\ ss = [x \in DOMAIN es |-> ss[x]] /\ tt = [x \in DOMAIN es |-> tt[x]]
  OBVIOUS
<1>4. es \in Seq(IrEntities)
  OBVIOUS
<1> HIDE DEF es, D, ss, tt, W
<1>5. \A x \in DOMAIN es : D[x] \in Int /\ ss[x] \in N /\ tt[x] \in N
  <2>1. \A e \in IrEntities : e.table \in Int
    BY DEF IrEntities
  <2>2. \A e \in IrEntities : KeyNames(e) \in N /\ IndexNamesOf(e) \in N
    BY NameLists
  <2>3. \A x \in DOMAIN es : es[x] \in IrEntities
    BY <1>4
  <2> QED BY <1>2, <2>1, <2>2, <2>3
<1> HIDE DEF N
<1>6. /\ D \in Seq(Int) /\ DOMAIN D = DOMAIN es
      /\ ss \in Seq(N) /\ DOMAIN ss = DOMAIN es
      /\ tt \in Seq(N) /\ DOMAIN tt = DOMAIN es
  BY <1>3, <1>4, <1>5, MappedLists
<1> USE DEF N
<1>7. ss \in Seq(Seq(Int)) /\ tt \in Seq(Seq(Int))
  BY <1>6
<1>8. P \in Seq(Int) /\ Q \in Seq(Int)
  BY <1>7, FlattenFacts
<1>p. /\ \A i \in DOMAIN ss : \A a \in DOMAIN ss[i] : \E k \in DOMAIN P : P[k] = ss[i][a]
      /\ \A i \in DOMAIN tt : \A a \in DOMAIN tt[i] : \E k \in DOMAIN Q : Q[k] = tt[i][a]
  BY <1>7, FlattenItems
<1>s. \/ ~ \A k, l \in DOMAIN P : P[k] = P[l] => k = l
      \/ \A i, j \in DOMAIN ss : \A a \in DOMAIN ss[i] : \A b \in DOMAIN ss[j] :
            ss[i][a] = ss[j][b] => i = j /\ a = b
  BY <1>7, FlattenApart
<1>t. \/ ~ \A k, l \in DOMAIN Q : Q[k] = Q[l] => k = l
      \/ \A i, j \in DOMAIN tt : \A a \in DOMAIN tt[i] : \A b \in DOMAIN tt[j] :
            tt[i][a] = tt[j][b] => i = j /\ a = b
  BY <1>7, FlattenApart
<1> HIDE DEF P, Q
<1>9. G \in Seq(Int) /\ W \in Seq(Int)
  BY <1>6, <1>8, ConcatProperties DEF W
<1>a. W = D \o G
  BY DEF W
<1> HIDE DEF G
<1>10. \A k, l \in DOMAIN W : W[k] = W[l] => k = l
  BY <1>1, <1>9, NoRepeats
<1>11. /\ \A i, j \in DOMAIN G : G[i] = G[j] => i = j
       /\ \A i \in DOMAIN D : \A j \in DOMAIN G : D[i] # G[j]
  BY <1>6, <1>9, <1>10, <1>a, ConcatApart
<1>b. G = P \o Q
  BY DEF G
<1>12. /\ \A i, j \in DOMAIN P : P[i] = P[j] => i = j
       /\ \A i, j \in DOMAIN Q : Q[i] = Q[j] => i = j
       /\ \A i \in DOMAIN P : \A j \in DOMAIN Q : P[i] # Q[j]
  BY <1>8, <1>11, <1>b, ConcatApart
<1>13. /\ \A i \in DOMAIN P : \A x \in DOMAIN D : P[i] # D[x]
       /\ \A j \in DOMAIN Q : \A x \in DOMAIN D : Q[j] # D[x]
  <2>1. /\ \A i \in 1..Len(P) : i \in DOMAIN G /\ G[i] = P[i]
        /\ \A j \in 1..Len(Q) : Len(P) + j \in DOMAIN G /\ G[Len(P) + j] = Q[j]
    BY <1>8, <1>b, ConcatParts
  <2>2. DOMAIN P = 1..Len(P) /\ DOMAIN Q = 1..Len(Q)
    BY <1>8
  <2> QED BY <1>11, <2>1, <2>2
<1>14. /\ \A i, j \in DOMAIN ss : \A a \in DOMAIN ss[i] : \A b \in DOMAIN ss[j] :
             ss[i][a] = ss[j][b] => i = j /\ a = b
       /\ \A i, j \in DOMAIN tt : \A a \in DOMAIN tt[i] : \A b \in DOMAIN tt[j] :
             tt[i][a] = tt[j][b] => i = j /\ a = b
  BY <1>12, <1>s, <1>t
<1>15. ASSUME NEW x \in DOMAIN es, NEW y \in DOMAIN es, NEW a \in DOMAIN ss[x]
       PROVE  ss[x][a] # es[y].table
  <2>1. PICK k \in DOMAIN P : P[k] = ss[x][a]
    BY <1>6, <1>p
  <2> QED BY <1>2, <1>6, <1>13, <2>1
<1>16. ASSUME NEW x \in DOMAIN es, NEW y \in DOMAIN es, NEW a \in DOMAIN tt[x]
       PROVE  tt[x][a] # es[y].table /\ \A b \in DOMAIN ss[y] : tt[x][a] # ss[y][b]
  <2>1. PICK k \in DOMAIN Q : Q[k] = tt[x][a]
    BY <1>6, <1>p
  <2>2. \A b \in DOMAIN ss[y] : \E l \in DOMAIN P : P[l] = ss[y][b]
    BY <1>6, <1>p
  <2>3. tt[x][a] # es[y].table
    BY <1>2, <1>6, <1>13, <2>1
  <2> QED BY <1>12, <2>1, <2>2, <2>3
<1>17. \A x, y \in DOMAIN es :
         /\ \A a \in DOMAIN ss[x] :
               /\ ss[x][a] # es[y].table
               /\ \A b \in DOMAIN ss[y] : ss[x][a] = ss[y][b] => x = y /\ a = b
         /\ \A a \in DOMAIN tt[x] :
               /\ tt[x][a] # es[y].table
               /\ \A b \in DOMAIN ss[y] : tt[x][a] # ss[y][b]
               /\ \A b \in DOMAIN tt[y] : tt[x][a] = tt[y][b] => x = y /\ a = b
  BY <1>6, <1>14, <1>15, <1>16
<1>18. NamesApartIn(es)
  <2> SUFFICES ASSUME NEW x \in DOMAIN es, NEW y \in DOMAIN es
      PROVE
         /\ \A a \in DOMAIN KeyNames(es[x]) :
               /\ KeyNames(es[x])[a] # es[y].table
               /\ \A b \in DOMAIN KeyNames(es[y]) : KeyNames(es[x])[a] = KeyNames(es[y])[b] => x = y /\ a = b
         /\ \A a \in DOMAIN IndexNamesOf(es[x]) :
               /\ IndexNamesOf(es[x])[a] # es[y].table
               /\ \A b \in DOMAIN KeyNames(es[y]) : IndexNamesOf(es[x])[a] # KeyNames(es[y])[b]
               /\ \A b \in DOMAIN IndexNamesOf(es[y]) :
                     IndexNamesOf(es[x])[a] = IndexNamesOf(es[y])[b] => x = y /\ a = b
    BY DEF NamesApartIn
  <2>1. /\ KeyNames(es[x]) = ss[x] /\ KeyNames(es[y]) = ss[y]
        /\ IndexNamesOf(es[x]) = tt[x] /\ IndexNamesOf(es[y]) = tt[y]
    BY <1>2
  <2>2. /\ \A a \in DOMAIN ss[x] :
              /\ ss[x][a] # es[y].table
              /\ \A b \in DOMAIN ss[y] : ss[x][a] = ss[y][b] => x = y /\ a = b
        /\ \A a \in DOMAIN tt[x] :
              /\ tt[x][a] # es[y].table
              /\ \A b \in DOMAIN ss[y] : tt[x][a] # ss[y][b]
              /\ \A b \in DOMAIN tt[y] : tt[x][a] = tt[y][b] => x = y /\ a = b
    BY <1>17, Zenon
  <2> QED BY <2>1, <2>2
<1> QED BY <1>18 DEF es
-----------------------------------------------------------------------------
(* The statement that creates the table of an entity.                      *)

EntityKeys(e) == <<EntityKey(e, "pk", e.primaryKey)>> \o Map(LAMBDA k : EntityKey(e, "uq", k), e.uniqueKeys)

LEMMA KeyLists ==
    ASSUME NEW e \in IrEntities
    PROVE  LET K == EntityKeys(e)
               u == e.uniqueKeys
           IN  /\ Len(u) \in Nat /\ DOMAIN u = 1..Len(u) /\ DOMAIN K = 1..(Len(u) + 1) /\ Len(K) = Len(u) + 1
               /\ K[1] = EntityKey(e, "pk", e.primaryKey)
               /\ \A k \in DOMAIN K : k = 1 \/ (k - 1 \in DOMAIN u /\ K[k] = EntityKey(e, "uq", u[k - 1]))
               /\ \A k \in DOMAIN u : k + 1 \in DOMAIN K /\ K[k + 1] = EntityKey(e, "uq", u[k])
               /\ DOMAIN K = DOMAIN KeyNames(e) /\ \A k \in DOMAIN K : K[k].name = KeyNames(e)[k]
<1> DEFINE T == Seq(Int)
           u == e.uniqueKeys
           U == [k \in DOMAIN u |-> EntityKey(e, "uq", u[k])]
           p == EntityKey(e, "pk", e.primaryKey)
           S == {p} \cup {U[k] : k \in DOMAIN u}
           K == <<p>> \o U
<1>1. u \in Seq(T)
  BY DEF IrEntities
<1>2. EntityKeys(e) = K
  BY DEF EntityKeys, Map
<1>3. /\ U = [k \in DOMAIN u |-> U[k]] /\ \A k \in DOMAIN u : U[k] = EntityKey(e, "uq", u[k]) /\ U[k] \in S
      /\ p \in S
  OBVIOUS
<1>4. /\ DOMAIN KeyNames(e) = 1..(Len(u) + 1) /\ KeyNames(e)[1] = generatedName("pk", e.table, e.primaryKey)
      /\ \A k \in DOMAIN KeyNames(e) :
            \/ k = 1
            \/ k - 1 \in DOMAIN u /\ KeyNames(e)[k] = generatedName("uq", e.table, u[k - 1])
  BY NameLists
<1>5. p.name = generatedName("pk", e.table, e.primaryKey)
      /\ \A k : EntityKey(e, "uq", k).name = generatedName("uq", e.table, k)
  BY DEF EntityKey
<1> HIDE DEF T, u, U, S, p
<1>6. U \in Seq(S) /\ DOMAIN U = DOMAIN u /\ Len(U) = Len(u)
  BY <1>1, <1>3, MappedLists
<1>7. Len(u) \in Nat /\ DOMAIN u = 1..Len(u)
  BY <1>1
<1>8. /\ DOMAIN K = 1..(Len(U) + 1) /\ Len(K) = Len(U) + 1 /\ K[1] = p
      /\ \A k \in DOMAIN K : k = 1 \/ (k - 1 \in DOMAIN U /\ K[k] = U[k - 1])
  BY <1>3, <1>6, Before
<1> HIDE DEF K
<1>9. \A k \in DOMAIN K : k = 1 \/ (k - 1 \in DOMAIN u /\ K[k] = EntityKey(e, "uq", u[k - 1]))
  BY <1>3, <1>6, <1>8
<1>10. ASSUME NEW k \in DOMAIN u PROVE k + 1 \in DOMAIN K /\ K[k + 1] = EntityKey(e, "uq", u[k])
  <2>1. k + 1 \in DOMAIN K /\ k + 1 # 1 /\ (k + 1) - 1 = k
    BY <1>6, <1>7, <1>8
  <2> DEFINE j == k + 1
  <2>2. K[j] = EntityKey(e, "uq", u[j - 1])
    BY <1>9, <2>1
  <2> QED BY <2>1, <2>2
<1>11. DOMAIN K = DOMAIN KeyNames(e)
  BY <1>4, <1>6, <1>8
<1>12. ASSUME NEW k \in DOMAIN K PROVE K[k].name = KeyNames(e)[k]
  <2>1. CASE k = 1
    BY <1>4, <1>5, <1>8, <2>1
  <2>2. CASE k # 1
    BY <1>4, <1>5, <1>9, <1>11, <2>2
  <2> QED BY <2>1, <2>2
<1> QED BY <1>2, <1>6, <1>7, <1>8, <1>9, <1>10, <1>11, <1>12 DEF u, p

LEMMA TableFacts ==
    ASSUME NEW ir, NEW e \in IrEntities
    PROVE  LET st == EntityTable(ir, e)
               w == NewRelations(st)
           IN  /\ st.op = "table" /\ st.schema = ir.schema /\ st.table = e.table
               /\ st.columns = Map(columnDeclaration, e.fields) /\ st.keys = EntityKeys(e)
               /\ Len(w) \in Nat /\ DOMAIN w = 1..Len(w) /\ 1 \in DOMAIN w /\ w[1] = e.table
               /\ \A k \in DOMAIN w : k = 1 \/ (k - 1 \in DOMAIN KeyNames(e) /\ w[k] = KeyNames(e)[k - 1])
<1> DEFINE st == EntityTable(ir, e)
           keys == EntityKeys(e)
           v == [k \in DOMAIN keys |-> keys[k].name]
           N == KeyNames(e)
           w == <<e.table>> \o N
<1>1. /\ st.op = "table" /\ st.schema = ir.schema /\ st.table = e.table
      /\ st.columns = Map(columnDeclaration, e.fields) /\ st.keys = keys
  BY DEF EntityTable, EntityKeys, CreateTable
<1>2. N \in Seq(Int) /\ e.table \in Int
  BY NameLists DEF IrEntities
<1>3. v = N
  <2>1. DOMAIN keys = DOMAIN N /\ \A k \in DOMAIN keys : keys[k].name = N[k]
    BY KeyLists
  <2> HIDE DEF keys, N
  <2> QED BY <1>2, <2>1
<1>4. NewRelations(st) = w
  BY <1>1, <1>3 DEF NewRelations
<1> HIDE DEF st, keys, N
<1>5. /\ w \in Seq(Int) /\ Len(N) \in Nat /\ DOMAIN w = 1..(Len(N) + 1) /\ Len(w) = Len(N) + 1 /\ w[1] = e.table
      /\ \A k \in DOMAIN w : k = 1 \/ (k - 1 \in DOMAIN N /\ w[k] = N[k - 1])
  BY <1>2, Before
<1> HIDE DEF w
<1>6. Len(w) \in Nat /\ DOMAIN w = 1..Len(w) /\ 1 \in DOMAIN w
  BY <1>5
<1> QED BY <1>1, <1>4, <1>5, <1>6 DEF st, keys, N

\* What the tables and indexes of a sound document are called never clashes.
LEMMA IrTablesApart ==
    ASSUME NEW ir, ir.entities \in Seq(IrEntities), NamesApartIn(ir.entities),
           \A i, j \in DOMAIN ir.entities : ir.entities[i].table = ir.entities[j].table => i = j
    PROVE  LET es == ir.entities
           IN  /\ \A x, y \in DOMAIN es :
                     x # y => EntityRelations(ir, es[x]) \cap EntityRelations(ir, es[y]) = {}
               /\ \A x \in DOMAIN es : SeqUnique(NewRelations(EntityTable(ir, es[x])))
               /\ \A x, y \in DOMAIN es : \A a \in DOMAIN IndexNamesOf(es[x]) :
                     IndexNamesOf(es[x])[a] \notin EntityRelations(ir, es[y])
<1> DEFINE es == ir.entities
           w(x) == NewRelations(EntityTable(ir, es[x]))
           N(x) == KeyNames(es[x])
           I(x) == IndexNamesOf(es[x])
<1>1. \A x, y \in DOMAIN es :
         /\ es[x].table = es[y].table => x = y
         /\ \A a \in DOMAIN N(x) :
               /\ N(x)[a] # es[y].table
               /\ \A b \in DOMAIN N(y) : N(x)[a] = N(y)[b] => x = y /\ a = b
         /\ \A a \in DOMAIN I(x) :
               /\ I(x)[a] # es[y].table
               /\ \A b \in DOMAIN N(y) : I(x)[a] # N(y)[b]
  BY DEF NamesApartIn
<1>2. ASSUME NEW x \in DOMAIN es
      PROVE  /\ Len(w(x)) \in Nat /\ DOMAIN w(x) = 1..Len(w(x)) /\ 1 \in DOMAIN w(x) /\ w(x)[1] = es[x].table
             /\ \A k \in DOMAIN w(x) : k = 1 \/ (k - 1 \in DOMAIN N(x) /\ w(x)[k] = N(x)[k - 1])
  <2>1. es[x] \in IrEntities
    OBVIOUS
  <2> QED BY <2>1, TableFacts
<1>3. \A x : EntityRelations(ir, es[x]) = {w(x)[k] : k \in DOMAIN w(x)}
  BY DEF EntityRelations, ToSet
<1> HIDE DEF es, w, N, I
<1>4. ASSUME NEW x \in DOMAIN es, NEW r \in EntityRelations(ir, es[x])
      PROVE  r = es[x].table \/ \E a \in DOMAIN N(x) : r = N(x)[a]
  <2>1. PICK k \in DOMAIN w(x) : r = w(x)[k]
    BY <1>3, <1>4
  <2> QED BY <1>2, <2>1
<1>5. ASSUME NEW x \in DOMAIN es, NEW y \in DOMAIN es, x # y
      PROVE  EntityRelations(ir, es[x]) \cap EntityRelations(ir, es[y]) = {}
  <2> SUFFICES ASSUME NEW r \in EntityRelations(ir, es[x]), r \in EntityRelations(ir, es[y]) PROVE FALSE
    OBVIOUS
  <2>1. r = es[x].table \/ \E a \in DOMAIN N(x) : r = N(x)[a]
    BY <1>4
  <2>2. r = es[y].table \/ \E b \in DOMAIN N(y) : r = N(y)[b]
    BY <1>4
  <2>3. es[x].table # es[y].table
    BY <1>1, <1>5
  <2>4. /\ \A a \in DOMAIN N(x) : N(x)[a] # es[y].table /\ \A b \in DOMAIN N(y) : N(x)[a] # N(y)[b]
        /\ \A b \in DOMAIN N(y) : N(y)[b] # es[x].table
    BY <1>1, <1>5
  <2> QED BY <2>1, <2>2, <2>3, <2>4
<1>6. ASSUME NEW x \in DOMAIN es PROVE SeqUnique(w(x))
  <2>1. \A a \in DOMAIN N(x) : N(x)[a] # es[x].table /\ \A b \in DOMAIN N(x) : N(x)[a] = N(x)[b] => a = b
    BY <1>1
  <2>2. ASSUME NEW k \in DOMAIN w(x), NEW l \in DOMAIN w(x), w(x)[k] = w(x)[l] PROVE k = l
    <3>1. k \in Nat /\ l \in Nat
      BY <1>2
    <3>2. CASE k = 1 /\ l = 1
      BY <3>2
    <3>3. CASE k # 1 /\ l = 1
      BY <1>2, <2>1, <2>2, <3>3
    <3>4. CASE k = 1 /\ l # 1
      BY <1>2, <2>1, <2>2, <3>4
    <3>5. CASE k # 1 /\ l # 1
      <4>1. k - 1 \in DOMAIN N(x) /\ l - 1 \in DOMAIN N(x) /\ N(x)[k - 1] = N(x)[l - 1]
        BY <1>2, <2>2, <3>5
      <4>2. k - 1 = l - 1
        BY <2>1, <4>1
      <4> QED BY <3>1, <4>2
    <3> QED BY <3>2, <3>3, <3>4, <3>5
  <2> QED BY <2>2 DEF SeqUnique, IsInjective
<1>7. ASSUME NEW x \in DOMAIN es, NEW y \in DOMAIN es, NEW a \in DOMAIN I(x), I(x)[a] \in EntityRelations(ir, es[y])
      PROVE  FALSE
  <2>1. I(x)[a] = es[y].table \/ \E b \in DOMAIN N(y) : I(x)[a] = N(y)[b]
    BY <1>4, <1>7
  <2> QED BY <1>1, <2>1
<1> QED BY <1>5, <1>6, <1>7 DEF es, w, I
-----------------------------------------------------------------------------
(* The statements: tables, then foreign keys, then indexes.                *)

IrLayout(ir, E, b, fo, xo) ==
    LET es == ir.entities
    IN  /\ Len(E) \in Nat /\ DOMAIN E = 1..Len(E) /\ b \in Nat /\ Len(es) <= b
        /\ fo \in [DOMAIN es -> Nat] /\ xo \in [DOMAIN es -> Nat]
        /\ \A x \in DOMAIN es : x \in DOMAIN E /\ E[x] = EntityTable(ir, es[x])
        /\ \A k \in DOMAIN E :
              \/ k \in DOMAIN es
              \/ \E x \in DOMAIN es : \E j \in DOMAIN es[x].foreignKeys :
                    k = Len(es) + fo[x] + j /\ E[k] = EntityReference(ir, es[x], es[x].foreignKeys[j])
              \/ \E x \in DOMAIN es : \E j \in DOMAIN es[x].indexes :
                    k = b + xo[x] + j /\ E[k] = EntityIndex(ir, es[x], es[x].indexes[j])

\* The items of a concatenation, the items of two concatenations after a list, and where they are.
Places(ss, fl, off) ==
    /\ off \in Offsets(ss)
    /\ \A i \in DOMAIN ss : \A a \in DOMAIN ss[i] : off[i] + a \in DOMAIN fl /\ fl[off[i] + a] = ss[i][a]
    /\ \A k \in DOMAIN fl : \E i \in DOMAIN ss : \E a \in DOMAIN ss[i] : k = off[i] + a

TwoPlaces(E, A, b, ss, tt, so, to) ==
  /\ so \in Offsets(ss) /\ to \in Offsets(tt)
  /\ Len(E) \in Nat /\ DOMAIN E = 1..Len(E)
  /\ \A i \in DOMAIN A : i \in DOMAIN E /\ E[i] = A[i]
  /\ \A k \in DOMAIN E :
       \/ k \in DOMAIN A
       \/ \E i \in DOMAIN ss : \E j \in DOMAIN ss[i] : k = Len(A) + so[i] + j /\ E[k] = ss[i][j]
       \/ \E i \in DOMAIN tt : \E j \in DOMAIN tt[i] : k = b + to[i] + j /\ E[k] = tt[i][j]

LEMMA PlacesExist ==
    ASSUME NEW T, NEW ss \in Seq(Seq(T))
    PROVE  FlattenSeq(ss) \in Seq(T) /\ \E off : Places(ss, FlattenSeq(ss), off)
<1>1. PICK off \in Offsets(ss) :
         /\ \A i \in DOMAIN ss : \A a \in DOMAIN ss[i] :
               off[i] + a \in DOMAIN FlattenSeq(ss) /\ FlattenSeq(ss)[off[i] + a] = ss[i][a]
         /\ \A k \in DOMAIN FlattenSeq(ss) : \E i \in DOMAIN ss : \E a \in DOMAIN ss[i] : k = off[i] + a
  BY FlattenFacts
<1>2. FlattenSeq(ss) \in Seq(T)
  BY FlattenFacts
<1>3. Places(ss, FlattenSeq(ss), off)
  BY <1>1 DEF Places
<1> QED BY <1>2, <1>3

\* A list, then two concatenations.
LEMMA ThreeLists ==
    ASSUME NEW T, NEW A \in Seq(T), NEW ss \in Seq(Seq(T)), NEW tt \in Seq(Seq(T))
    PROVE  \E c \in Nat : \E so, to :
              TwoPlaces(A \o FlattenSeq(ss) \o FlattenSeq(tt), A, Len(A) + c, ss, tt, so, to)
<1> DEFINE B == FlattenSeq(ss)
           E == A \o B \o FlattenSeq(tt)
           n == Len(A)
           b == Len(A) + Len(B)
<1>p. PICK off : Places(ss, B, off)
  BY PlacesExist
<1>2. B \in Seq(T)
  BY PlacesExist
<1> HIDE DEF B
<1>q. PICK at : ThreePlaces(E, A, B, tt, at)
  BY <1>2, ThreeParts
<1> HIDE DEF E
<1>1. /\ off \in Offsets(ss)
      /\ \A i \in DOMAIN ss : \A j \in DOMAIN ss[i] : off[i] + j \in DOMAIN B /\ B[off[i] + j] = ss[i][j]
      /\ \A k \in DOMAIN B : \E i \in DOMAIN ss : \E j \in DOMAIN ss[i] : k = off[i] + j
  BY <1>p DEF Places
<1>3. /\ at \in Offsets(tt) /\ Len(E) \in Nat /\ DOMAIN E = 1..Len(E)
      /\ \A i \in DOMAIN A : i \in DOMAIN E /\ E[i] = A[i]
      /\ \A i \in DOMAIN B : n + i \in DOMAIN E /\ E[n + i] = B[i]
      /\ \A i \in DOMAIN tt : \A j \in DOMAIN tt[i] :
            b + at[i] + j \in DOMAIN E /\ E[b + at[i] + j] = tt[i][j]
      /\ \A k \in DOMAIN E :
            \/ k \in DOMAIN A
            \/ \E i \in DOMAIN B : k = n + i
            \/ \E i \in DOMAIN tt : \E j \in DOMAIN tt[i] : k = b + at[i] + j
  BY <1>q DEF ThreePlaces
<1>4. n \in Nat /\ Len(B) \in Nat
  BY <1>2
<1>5. \A i \in DOMAIN ss : off[i] \in Nat /\ \A j \in DOMAIN ss[i] : j \in Nat
  BY <1>1 DEF Offsets
<1> HIDE DEF n, b
<1>6. ASSUME NEW k \in DOMAIN E, NEW c \in DOMAIN B, k = n + c
      PROVE  \E i \in DOMAIN ss : \E j \in DOMAIN ss[i] : k = n + off[i] + j /\ E[k] = ss[i][j]
  <2>1. PICK i \in DOMAIN ss : \E j \in DOMAIN ss[i] : c = off[i] + j
    BY <1>1
  <2>2. PICK j \in DOMAIN ss[i] : c = off[i] + j
    BY <2>1
  <2>3. E[k] = ss[i][j]
    BY <1>1, <1>3, <1>6, <2>2
  <2> DEFINE o == off[i]
  <2>4. o \in Nat /\ j \in Nat /\ k = n + (o + j)
    BY <1>5, <1>6, <2>2
  <2> HIDE DEF o
  <2>5. k = n + o + j
    BY <1>4, <2>4
  <2> QED BY <2>3, <2>5 DEF o
<1>7. ASSUME NEW k \in DOMAIN E
      PROVE  \/ k \in DOMAIN A
             \/ \E i \in DOMAIN ss : \E j \in DOMAIN ss[i] : k = n + off[i] + j /\ E[k] = ss[i][j]
             \/ \E i \in DOMAIN tt : \E j \in DOMAIN tt[i] : k = b + at[i] + j /\ E[k] = tt[i][j]
  <2>1. CASE \E c \in DOMAIN B : k = n + c
    BY <1>6, <2>1
  <2>2. CASE \E i \in DOMAIN tt : \E j \in DOMAIN tt[i] : k = b + at[i] + j
    BY <1>3, <2>2
  <2> QED BY <1>3, <2>1, <2>2
<1>8. TwoPlaces(E, A, b, ss, tt, off, at)
  BY <1>1, <1>3, <1>7 DEF TwoPlaces, n
<1> QED BY <1>4, <1>8 DEF E, B, b

LEMMA IrEmitted ==
    ASSUME NEW ir, ir.entities \in Seq(IrEntities)
    PROVE  \E b, fo, xo : IrLayout(ir, emitSql(ir), b, fo, xo)
<1> DEFINE es == ir.entities
           F(e) == [k \in DOMAIN e.foreignKeys |-> EntityReference(ir, e, e.foreignKeys[k])]
           X(e) == [k \in DOMAIN e.indexes |-> EntityIndex(ir, e, e.indexes[k])]
           S == {EntityTable(ir, e) : e \in IrEntities}
                \cup {EntityReference(ir, e, fk) : e \in IrEntities, fk \in IrForeigns}
                \cup {EntityIndex(ir, e, k) : e \in IrEntities, k \in Seq(Int)}
           A == [x \in DOMAIN es |-> EntityTable(ir, es[x])]
           ff == [x \in DOMAIN es |-> F(es[x])]
           xx == [x \in DOMAIN es |-> X(es[x])]
           E == A \o FlattenSeq(ff) \o FlattenSeq(xx)
           L == Seq(S)
<1>1. emitSql(ir) = E
  BY DEF emitSql, Map, Each, EntityTable, EntityReference, EntityIndex
<1>2. /\ A = [x \in DOMAIN es |-> A[x]] /\ ff = [x \in DOMAIN es |-> ff[x]] /\ xx = [x \in DOMAIN es |-> xx[x]]
      /\ \A x \in DOMAIN es : A[x] = EntityTable(ir, es[x]) /\ ff[x] = F(es[x]) /\ xx[x] = X(es[x])
  OBVIOUS
<1>3. /\ \A e : F(e) = [k \in DOMAIN e.foreignKeys |-> F(e)[k]] /\ X(e) = [k \in DOMAIN e.indexes |-> X(e)[k]]
      /\ \A e : /\ \A k \in DOMAIN e.foreignKeys : F(e)[k] = EntityReference(ir, e, e.foreignKeys[k])
                /\ \A k \in DOMAIN e.indexes : X(e)[k] = EntityIndex(ir, e, e.indexes[k])
  OBVIOUS
<1>4. /\ \A e \in IrEntities : EntityTable(ir, e) \in S
      /\ \A e \in IrEntities : \A fk \in IrForeigns : EntityReference(ir, e, fk) \in S
      /\ \A e \in IrEntities : \A k \in Seq(Int) : EntityIndex(ir, e, k) \in S
  OBVIOUS
<1>5. es \in Seq(IrEntities)
  OBVIOUS
<1> HIDE DEF es, F, X, S, A, ff, xx
<1>6. ASSUME NEW e \in IrEntities
      PROVE  /\ F(e) \in Seq(S) /\ DOMAIN F(e) = DOMAIN e.foreignKeys
             /\ X(e) \in Seq(S) /\ DOMAIN X(e) = DOMAIN e.indexes
  <2> DEFINE u == e.foreignKeys
             v == e.indexes
             f == F(e)
             g == X(e)
             KL == Seq(Int)
  <2>1. u \in Seq(IrForeigns) /\ v \in Seq(KL)
    BY DEF IrEntities
  <2>i. (\A k \in DOMAIN u : u[k] \in IrForeigns) /\ (\A k \in DOMAIN v : v[k] \in KL)
    <3> HIDE DEF KL
    <3> QED BY <2>1
  <2>2. /\ f = [k \in DOMAIN u |-> f[k]] /\ \A k \in DOMAIN u : f[k] \in S
        /\ g = [k \in DOMAIN v |-> g[k]] /\ \A k \in DOMAIN v : g[k] \in S
    <3>1. f = [k \in DOMAIN u |-> f[k]] /\ g = [k \in DOMAIN v |-> g[k]]
      BY <1>3
    <3>2. ASSUME NEW k \in DOMAIN u PROVE f[k] \in S
      <4>1. f[k] = EntityReference(ir, e, u[k])
        BY <1>3
      <4> QED BY <1>4, <2>i, <4>1
    <3>3. ASSUME NEW k \in DOMAIN v PROVE g[k] \in S
      <4>1. g[k] = EntityIndex(ir, e, v[k])
        BY <1>3
      <4> QED BY <1>4, <2>i, <4>1
    <3> QED BY <3>1, <3>2, <3>3
  <2> HIDE DEF u, v, f, g, KL
  <2>3. f \in Seq(S) /\ DOMAIN f = DOMAIN u /\ g \in Seq(S) /\ DOMAIN g = DOMAIN v
    BY <2>1, <2>2, MappedLists
  <2> QED BY <2>3 DEF f, g, u, v
<1>7. \A x \in DOMAIN es : es[x] \in IrEntities /\ A[x] \in S /\ ff[x] \in L /\ xx[x] \in L
  BY <1>2, <1>4, <1>5, <1>6
<1> HIDE DEF L
<1>8. /\ A \in Seq(S) /\ DOMAIN A = DOMAIN es /\ Len(A) = Len(es)
      /\ ff \in Seq(L) /\ DOMAIN ff = DOMAIN es /\ Len(ff) = Len(es)
      /\ xx \in Seq(L) /\ DOMAIN xx = DOMAIN es /\ Len(xx) = Len(es)
  BY <1>2, <1>5, <1>7, MappedLists
<1> USE DEF L
<1>9. ff \in Seq(Seq(S)) /\ xx \in Seq(Seq(S))
  BY <1>8
<1>10. PICK c \in Nat : \E fo, xo : TwoPlaces(E, A, Len(A) + c, ff, xx, fo, xo)
  BY <1>8, <1>9, ThreeLists
<1> HIDE DEF L, E
<1> DEFINE n == Len(es)
           b == n + c
<1>11. PICK fo, xo : TwoPlaces(E, A, b, ff, xx, fo, xo)
  BY <1>8, <1>10
<1>12. /\ fo \in Offsets(ff) /\ xo \in Offsets(xx)
       /\ Len(E) \in Nat /\ DOMAIN E = 1..Len(E)
       /\ \A i \in DOMAIN A : i \in DOMAIN E /\ E[i] = A[i]
       /\ \A k \in DOMAIN E :
             \/ k \in DOMAIN A
             \/ \E i \in DOMAIN ff : \E j \in DOMAIN ff[i] : k = n + fo[i] + j /\ E[k] = ff[i][j]
             \/ \E i \in DOMAIN xx : \E j \in DOMAIN xx[i] : k = b + xo[i] + j /\ E[k] = xx[i][j]
  <2>1. Len(A) = n
    BY <1>8
  <2> QED BY <1>11, <2>1 DEF TwoPlaces
<1>13. n \in Nat /\ c \in Nat /\ DOMAIN ff = 1..n /\ DOMAIN xx = 1..n /\ Len(ff) = n /\ Len(xx) = n
  BY <1>5, <1>8
<1> DEFINE f1 == [x \in DOMAIN es |-> fo[x]]
           x1 == [x \in DOMAIN es |-> xo[x]]
<1>14. /\ f1 \in [DOMAIN es -> Nat] /\ x1 \in [DOMAIN es -> Nat]
       /\ \A x \in DOMAIN es : f1[x] = fo[x] /\ x1[x] = xo[x] /\ fo[x] \in Nat /\ xo[x] \in Nat
  BY <1>8, <1>12, <1>13 DEF Offsets
<1>15. b \in Nat /\ n <= b
  BY <1>13
<1> HIDE DEF n, b, f1, x1
<1>16. ASSUME NEW k \in DOMAIN E, NEW x \in DOMAIN ff, NEW j \in DOMAIN ff[x],
              k = n + fo[x] + j, E[k] = ff[x][j]
       PROVE  /\ x \in DOMAIN es /\ j \in DOMAIN es[x].foreignKeys
              /\ k = n + f1[x] + j /\ E[k] = EntityReference(ir, es[x], es[x].foreignKeys[j])
  <2> DEFINE e == es[x]
  <2>1. x \in DOMAIN es /\ e \in IrEntities /\ ff[x] = F(e)
    BY <1>2, <1>7, <1>8
  <2> HIDE DEF e
  <2>2. j \in DOMAIN e.foreignKeys /\ F(e)[j] = EntityReference(ir, e, e.foreignKeys[j])
    BY <1>3, <1>6, <1>16, <2>1
  <2> QED BY <1>14, <1>16, <2>1, <2>2 DEF e
<1>17. ASSUME NEW k \in DOMAIN E, NEW x \in DOMAIN xx, NEW j \in DOMAIN xx[x],
              k = b + xo[x] + j, E[k] = xx[x][j]
       PROVE  /\ x \in DOMAIN es /\ j \in DOMAIN es[x].indexes
              /\ k = b + x1[x] + j /\ E[k] = EntityIndex(ir, es[x], es[x].indexes[j])
  <2> DEFINE e == es[x]
  <2>1. x \in DOMAIN es /\ e \in IrEntities /\ xx[x] = X(e)
    BY <1>2, <1>7, <1>8
  <2> HIDE DEF e
  <2>2. j \in DOMAIN e.indexes /\ X(e)[j] = EntityIndex(ir, e, e.indexes[j])
    BY <1>3, <1>6, <1>17, <2>1
  <2> QED BY <1>14, <1>17, <2>1, <2>2 DEF e
<1>18. \A x \in DOMAIN es : x \in DOMAIN E /\ E[x] = EntityTable(ir, es[x])
  BY <1>2, <1>8, <1>12
<1>19. \A k \in DOMAIN E :
          \/ k \in DOMAIN es
          \/ \E x \in DOMAIN es : \E j \in DOMAIN es[x].foreignKeys :
                k = n + f1[x] + j /\ E[k] = EntityReference(ir, es[x], es[x].foreignKeys[j])
          \/ \E x \in DOMAIN es : \E j \in DOMAIN es[x].indexes :
                k = b + x1[x] + j /\ E[k] = EntityIndex(ir, es[x], es[x].indexes[j])
  <2> SUFFICES ASSUME NEW k \in DOMAIN E, k \notin DOMAIN es
               PROVE  \/ \E x \in DOMAIN es : \E j \in DOMAIN es[x].foreignKeys :
                            k = n + f1[x] + j /\ E[k] = EntityReference(ir, es[x], es[x].foreignKeys[j])
                      \/ \E x \in DOMAIN es : \E j \in DOMAIN es[x].indexes :
                            k = b + x1[x] + j /\ E[k] = EntityIndex(ir, es[x], es[x].indexes[j])
    OBVIOUS
  <2>1. CASE \E x \in DOMAIN ff : \E j \in DOMAIN ff[x] : k = n + fo[x] + j /\ E[k] = ff[x][j]
    BY <1>16, <2>1
  <2>2. CASE \E x \in DOMAIN xx : \E j \in DOMAIN xx[x] : k = b + xo[x] + j /\ E[k] = xx[x][j]
    BY <1>17, <2>2
  <2> QED BY <1>8, <1>12, <2>1, <2>2
<1>20. IrLayout(ir, E, b, f1, x1)
  BY <1>12, <1>14, <1>15, <1>18, <1>19 DEF IrLayout, es, n
<1> QED BY <1>1, <1>20 DEF E
\* Foreign keys of one entity at different places have different names, unless names clash.
LEMMA ForeignNamesApart ==
    ASSUME NEW ir, NEW e \in ToSet(ir.entities), e \in IrEntities, ~ NamesClash(ir),
           NEW i \in DOMAIN e.foreignKeys, NEW j \in DOMAIN e.foreignKeys,
           EntityForeignName(e, e.foreignKeys[i]) = EntityForeignName(e, e.foreignKeys[j])
    PROVE  i = j
<1> DEFINE u == e.foreignKeys
           w == [k \in DOMAIN u |-> EntityForeignName(e, u[k])]
           T == {w[k] : k \in DOMAIN u}
<1>1. ~ Repeats(w)
  BY DEF NamesClash, Map
<1>2. u \in Seq(IrForeigns)
  BY DEF IrEntities
<1>3. w = [k \in DOMAIN u |-> w[k]] /\ (\A k \in DOMAIN u : w[k] \in T) /\ w[i] = w[j]
  OBVIOUS
<1> HIDE DEF w, T
<1>4. w \in Seq(T) /\ DOMAIN w = DOMAIN u
  BY <1>2, <1>3, MappedLists
<1> QED BY <1>1, <1>3, <1>4, NoRepeats

\* The statements of an accepted document are in such an order.
LEMMA IrOrderlyHolds ==
    ASSUME NEW ir, EntitiesSound(ir.entities), ~ RelationCollision(ir)
    PROVE  IrOrderly(ir, emitSql(ir))
<1> DEFINE es == ir.entities
           E == emitSql(ir)
           n == Len(es)
<1>1. es \in Seq(IrEntities) /\ (\A i, j \in DOMAIN es : es[i].table = es[j].table => i = j)
  BY DEF EntitiesSound
<1>2. PICK b, fo, xo : IrLayout(ir, E, b, fo, xo)
  BY <1>1, IrEmitted
<1> HIDE DEF E
<1>3. /\ Len(E) \in Nat /\ DOMAIN E = 1..Len(E) /\ b \in Nat /\ n <= b
      /\ fo \in [DOMAIN es -> Nat] /\ xo \in [DOMAIN es -> Nat]
      /\ \A x \in DOMAIN es : x \in DOMAIN E /\ E[x] = EntityTable(ir, es[x])
      /\ \A k \in DOMAIN E :
            \/ k \in DOMAIN es
            \/ \E x \in DOMAIN es : \E j \in DOMAIN es[x].foreignKeys :
                  k = n + fo[x] + j /\ E[k] = EntityReference(ir, es[x], es[x].foreignKeys[j])
            \/ \E x \in DOMAIN es : \E j \in DOMAIN es[x].indexes :
                  k = b + xo[x] + j /\ E[k] = EntityIndex(ir, es[x], es[x].indexes[j])
  BY <1>2 DEF IrLayout
<1>4. NamesApartIn(es)
  BY <1>1, RelationNamesApart
<1>5. /\ \A x, y \in DOMAIN es : x # y => EntityRelations(ir, es[x]) \cap EntityRelations(ir, es[y]) = {}
      /\ \A x, y \in DOMAIN es : \A a \in DOMAIN IndexNamesOf(es[x]) :
            IndexNamesOf(es[x])[a] \notin EntityRelations(ir, es[y])
  BY <1>1, <1>4, IrTablesApart
<1>i. \A x, y \in DOMAIN es : \A a \in DOMAIN IndexNamesOf(es[x]) : \A c \in DOMAIN IndexNamesOf(es[y]) :
         IndexNamesOf(es[x])[a] = IndexNamesOf(es[y])[c] => x = y /\ a = c
  <2> SUFFICES ASSUME NEW x \in DOMAIN es, NEW y \in DOMAIN es
               PROVE  \A a \in DOMAIN IndexNamesOf(es[x]) : \A c \in DOMAIN IndexNamesOf(es[y]) :
                         IndexNamesOf(es[x])[a] = IndexNamesOf(es[y])[c] => x = y /\ a = c
    OBVIOUS
  <2> HIDE DEF es
  <2> QED BY <1>4 DEF NamesApartIn
<1>6. n \in Nat /\ DOMAIN es = 1..n /\ \A x \in DOMAIN es : es[x] \in IrEntities /\ es[x] \in ToSet(es)
  <2> HIDE DEF es
  <2>1. n \in Nat /\ DOMAIN es = 1..n /\ \A x \in DOMAIN es : es[x] \in IrEntities
    BY <1>1
  <2>2. \A x \in DOMAIN es : es[x] \in ToSet(es)
    BY DEF ToSet
  <2> QED BY <2>1, <2>2
<1>7. ASSUME NEW x \in DOMAIN es
      PROVE  /\ \A j \in DOMAIN es[x].foreignKeys : j \in Nat /\ 1 <= j
             /\ \A j \in DOMAIN es[x].indexes : j \in Nat /\ 1 <= j
  <2> DEFINE T == Seq(Int)
             e == es[x]
  <2>1. e \in IrEntities
    BY <1>6
  <2>2. e.foreignKeys \in Seq(IrForeigns) /\ e.indexes \in Seq(T)
    BY <2>1 DEF IrEntities
  <2> HIDE DEF T, e
  <2>3. /\ \A j \in DOMAIN e.foreignKeys : j \in Nat /\ 1 <= j
        /\ \A j \in DOMAIN e.indexes : j \in Nat /\ 1 <= j
    BY <2>2
  <2> QED BY <2>3 DEF e
<1> HIDE DEF n
<1> DEFINE Key(k, x, j) == /\ x \in DOMAIN es /\ j \in DOMAIN es[x].foreignKeys /\ k = n + fo[x] + j
                           /\ E[k] = EntityReference(ir, es[x], es[x].foreignKeys[j])
           Index(k, x, j) == /\ x \in DOMAIN es /\ j \in DOMAIN es[x].indexes /\ k = b + xo[x] + j
                             /\ E[k] = EntityIndex(ir, es[x], es[x].indexes[j])
<1>8. \A k \in DOMAIN E : k \in DOMAIN es \/ (\E x, j : Key(k, x, j)) \/ \E x, j : Index(k, x, j)
  BY <1>3
<1>9. /\ \A x \in DOMAIN es : E[x].op = "table" /\ E[x].table = es[x].table
      /\ \A k, x, j : Key(k, x, j) =>
            /\ E[k].op = "foreign" /\ E[k].table = es[x].table
            /\ E[k].name = EntityForeignName(es[x], es[x].foreignKeys[j])
      /\ \A k, x, j : Index(k, x, j) => E[k].op = "index" /\ E[k].name = IndexNamesOf(es[x])[j]
  <2>1. \A e : EntityTable(ir, e).op = "table" /\ EntityTable(ir, e).table = e.table
    BY DEF EntityTable, CreateTable
  <2>2. \A e, fk : LET st == EntityReference(ir, e, fk)
                   IN  st.op = "foreign" /\ st.table = e.table /\ st.name = EntityForeignName(e, fk)
    BY DEF EntityReference, AddForeignKey
  <2>3. \A e, k : EntityIndex(ir, e, k).op = "index" /\ EntityIndex(ir, e, k).name = generatedName("idx", e.table, k)
    BY DEF EntityIndex, CreateIndex
  <2>4. \A e : \A j \in DOMAIN e.indexes : IndexNamesOf(e)[j] = generatedName("idx", e.table, e.indexes[j])
    BY DEF IndexNamesOf, Map
  <2> QED BY <1>3, <2>1, <2>2, <2>3, <2>4
<1>10. /\ \A k, x, j : Key(k, x, j) => k > n
       /\ \A k, x, j : Index(k, x, j) => k > n
  <2>1. ASSUME NEW x \in DOMAIN es, NEW j \in DOMAIN es[x].foreignKeys PROVE n + fo[x] + j > n
    <3> DEFINE o == fo[x]
    <3>1. o \in Nat /\ j \in Nat /\ 1 <= j
      BY <1>3, <1>7
    <3> HIDE DEF o
    <3>2. n + o + j > n
      BY <1>6, <3>1
    <3> QED BY <3>2 DEF o
  <2>2. ASSUME NEW x \in DOMAIN es, NEW j \in DOMAIN es[x].indexes PROVE b + xo[x] + j > n
    <3> DEFINE o == xo[x]
    <3>1. o \in Nat /\ j \in Nat /\ 1 <= j
      BY <1>3, <1>7
    <3> HIDE DEF o
    <3>2. b + o + j > n
      BY <1>3, <1>6, <3>1
    <3> QED BY <3>2 DEF o
  <2> QED BY <2>1, <2>2
<1>11. ASSUME NEW k \in DOMAIN E, k > n PROVE TablesBefore(ir, E, k)
  <2> SUFFICES ASSUME NEW e \in ToSet(es) PROVE \E l \in DOMAIN E : l < k /\ E[l] = EntityTable(ir, e)
    BY DEF TablesBefore
  <2>1. PICK x \in DOMAIN es : e = es[x]
    BY DEF ToSet
  <2>2. x <= n /\ x \in Int /\ k \in Int
    BY <1>3, <1>6
  <2> QED BY <1>3, <1>6, <1>11, <2>1, <2>2
<1>12. ASSUME NEW k \in DOMAIN es PROVE TableReady(ir, E, k)
  <2>1. ASSUME NEW l \in DOMAIN E, l < k
        PROVE  \E x \in ToSet(es) :
                  E[l] = EntityTable(ir, x) /\ EntityRelations(ir, es[k]) \cap EntityRelations(ir, x) = {}
    <3>1. l \in DOMAIN es /\ l # k
      BY <1>3, <1>6, <2>1
    <3> QED BY <1>3, <1>5, <1>6, <3>1
  <2> QED BY <1>3, <1>6, <2>1 DEF TableReady
<1>13. ASSUME NEW k \in DOMAIN E, NEW x, NEW j, Key(k, x, j) PROVE ForeignReady(ir, E, k)
  <2> DEFINE e == es[x]
             u == e.foreignKeys
  <2>1. e \in ToSet(es) /\ e \in IrEntities /\ u[j] \in ToSet(u) /\ E[k] = EntityReference(ir, e, u[j])
    BY <1>6, <1>13 DEF ToSet
  <2>2. TablesBefore(ir, E, k)
    BY <1>10, <1>11, <1>13
  <2>3. ASSUME ~ NamesClash(ir), NEW l \in DOMAIN E, l < k, E[l].op = "foreign", E[l].table = e.table
        PROVE  E[l].name # E[k].name
    <3>1. PICK y, i : Key(l, y, i)
      BY <1>8, <1>9, <2>3
    <3>2. y = x
      BY <1>1, <1>9, <1>13, <2>3, <3>1
    <3>3. i \in DOMAIN u /\ j \in DOMAIN u /\ i # j
      <4>1. i = j => l = k
        BY <1>13, <3>1, <3>2
      <4>2. l # k
        BY <1>3, <2>3
      <4> QED BY <1>13, <3>1, <3>2, <4>1, <4>2
    <3>4. E[l].name = EntityForeignName(e, u[i]) /\ E[k].name = EntityForeignName(e, u[j])
      BY <1>9, <1>13, <3>1, <3>2
    <3> HIDE DEF e, Key
    <3> QED BY <2>1, <2>3, <3>3, <3>4, ForeignNamesApart
  <2> HIDE DEF Key, Index
  <2> QED BY <2>1, <2>2, <2>3 DEF ForeignReady
<1>14. ASSUME NEW k \in DOMAIN E, NEW x, NEW j, Index(k, x, j) PROVE IndexReady(ir, E, k)
  <2> DEFINE e == es[x]
             u == e.indexes
             I == IndexNamesOf(e)
  <2>1. /\ e \in ToSet(es) /\ e \in IrEntities /\ u[j] \in ToSet(u) /\ E[k] = EntityIndex(ir, e, u[j])
        /\ j \in DOMAIN u /\ E[k].name = I[j]
    BY <1>6, <1>9, <1>14 DEF ToSet
  <2>2. j \in DOMAIN I
    BY <2>1, NameLists
  <2>3. TablesBefore(ir, E, k)
    BY <1>10, <1>11, <1>14
  <2>4. ASSUME NEW l \in DOMAIN E, E[l].op = "table" PROVE E[k].name \notin ToSet(NewRelations(E[l]))
    <3>1. l \in DOMAIN es
      BY <1>8, <1>9, <2>4
    <3>2. ToSet(NewRelations(E[l])) = EntityRelations(ir, es[l])
      BY <1>3, <3>1 DEF EntityRelations
    <3>3. I[j] \notin EntityRelations(ir, es[l])
      BY <1>5, <1>14, <2>2, <3>1
    <3> QED BY <2>1, <3>2, <3>3
  <2>5. ASSUME NEW l \in DOMAIN E, l < k, E[l].op = "index" PROVE E[k].name # E[l].name
    <3>1. PICK y, i : Index(l, y, i)
      BY <1>8, <1>9, <2>5
    <3>2. y \in DOMAIN es /\ i \in DOMAIN es[y].indexes /\ E[l].name = IndexNamesOf(es[y])[i]
      BY <1>9, <3>1
    <3>3. i \in DOMAIN IndexNamesOf(es[y])
      BY <1>6, <3>2, NameLists
    <3>4. SUFFICES ASSUME I[j] = IndexNamesOf(es[y])[i] PROVE FALSE
      BY <2>1, <3>2
    <3>5. x = y /\ j = i
      <4>1. /\ x \in DOMAIN es /\ y \in DOMAIN es /\ j \in DOMAIN IndexNamesOf(es[x])
            /\ IndexNamesOf(es[x])[j] = IndexNamesOf(es[y])[i]
        BY <1>14, <2>2, <3>2, <3>4
      <4> QED BY <1>i, <3>3, <4>1
    <3>6. l = k
      BY <1>14, <3>1, <3>5
    <3> QED BY <1>3, <2>5, <3>6
  <2> HIDE DEF Key, Index, e
  <2> QED BY <2>1, <2>3, <2>4, <2>5 DEF IndexReady
<1>15. \A k \in DOMAIN E : TableReady(ir, E, k) \/ ForeignReady(ir, E, k) \/ IndexReady(ir, E, k)
  BY <1>8, <1>12, <1>13, <1>14
<1>16. \A e \in ToSet(es) : \E l \in DOMAIN E : E[l] = EntityTable(ir, e)
  BY <1>3 DEF ToSet
<1> QED BY <1>3, <1>15, <1>16 DEF IrOrderly, E
-----------------------------------------------------------------------------
(* The columns of a sound entity.                                          *)

LEMMA FieldAt ==
    ASSUME NEW e, NEW actions, EntitySound(e, actions), NEW n \in EntityFields(e)
    PROVE  \E i \in DOMAIN e.fields : e.fields[i].name = n /\ EntityField(e, n) = e.fields[i]
<1>1. /\ e \in IrEntities
      /\ \A i, j \in DOMAIN e.fields : e.fields[i].name = e.fields[j].name => i = j
  BY DEF EntitySound
<1>2. e.fields \in Seq(IrFields)
  BY <1>1 DEF IrEntities
<1>3. PICK i \in DOMAIN e.fields : e.fields[i].name = n
  BY DEF EntityFields, ToSet
<1>4. EntityField(e, e.fields[i].name) = e.fields[i]
  BY <1>1, <1>2, FieldNamed
<1> QED BY <1>3, <1>4

LEMMA Declarations ==
    ASSUME NEW e, NEW actions, EntitySound(e, actions)
    PROVE  LET C == Map(columnDeclaration, e.fields)
           IN  /\ e.fields \in Seq(IrFields) /\ DOMAIN C = DOMAIN e.fields
               /\ \A i \in DOMAIN e.fields : C[i] = columnDeclaration(e.fields[i]) /\ C[i].name = e.fields[i].column
               /\ \A i, j \in DOMAIN e.fields : e.fields[i].column = e.fields[j].column => i = j
               /\ SeqUnique([c \in DOMAIN C |-> C[c].name])
               /\ \A i \in DOMAIN e.fields : e.fields[i].column \in Names(C)
               /\ Names(C) \cap SystemColumns = {}
<1> DEFINE C == Map(columnDeclaration, e.fields)
           s == e.fields
<1>1. e \in IrEntities
  BY DEF EntitySound
<1>2. \A i \in DOMAIN s : s[i].column \notin SystemColumns
  <2>1. \A i \in DOMAIN s : FieldSound(s[i])
    BY DEF EntitySound
  <2> QED BY <2>1 DEF FieldSound
<1>3. \A i, j \in DOMAIN s : s[i].column = s[j].column => i = j
  BY DEF EntitySound
<1>4. s \in Seq(IrFields)
  BY <1>1 DEF IrEntities
<1>5. DOMAIN C = DOMAIN s /\ \A i \in DOMAIN s : C[i] = columnDeclaration(s[i])
  BY DEF Map
<1>6. \A f : columnDeclaration(f).name = f.column
  BY DEF columnDeclaration
<1> HIDE DEF C, s
<1>7. \A i \in DOMAIN s : C[i].name = s[i].column
  BY <1>5, <1>6
<1>8. SeqUnique([c \in DOMAIN C |-> C[c].name])
  BY <1>3, <1>5, <1>7 DEF SeqUnique, IsInjective
<1>9. \A i \in DOMAIN s : s[i].column \in Names(C)
  BY <1>5, <1>7 DEF Names, ToSet
<1>10. Names(C) \cap SystemColumns = {}
  BY <1>2, <1>5, <1>7 DEF Names, ToSet
<1> QED BY <1>3, <1>4, <1>5, <1>7, <1>8, <1>9, <1>10 DEF C, s

\* The columns of a key.
LEMMA ColumnsOfKey ==
    ASSUME NEW e, NEW actions, EntitySound(e, actions), NEW key \in Seq(Int), ToSet(key) \subseteq EntityFields(e)
    PROVE  LET w == ColumnsOf(e, key)
           IN  /\ DOMAIN w = DOMAIN key /\ Len(w) = Len(key)
               /\ \A i \in DOMAIN key : key[i] \in EntityFields(e) /\ w[i] = EntityField(e, key[i]).column
               /\ ToSet(w) \subseteq Names(Map(columnDeclaration, e.fields))
               /\ SeqUnique(key) => SeqUnique(w)
<1> DEFINE w == ColumnsOf(e, key)
           C == Map(columnDeclaration, e.fields)
           T == {w[i] : i \in DOMAIN key}
<1>1. w = [i \in DOMAIN key |-> EntityField(e, key[i]).column]
  BY DEF ColumnsOf, Map
<1> HIDE DEF w
<1>2. \A i \in DOMAIN key : w[i] = EntityField(e, key[i]).column /\ w[i] \in T
  BY <1>1
<1>3. w = [i \in DOMAIN key |-> w[i]]
  BY <1>1
<1> HIDE DEF T
<1>4. DOMAIN w = DOMAIN key /\ Len(w) = Len(key)
  BY <1>2, <1>3, MappedLists
<1>5. \A i \in DOMAIN key : key[i] \in EntityFields(e)
  BY DEF ToSet
<1>6. /\ \A i \in DOMAIN e.fields : e.fields[i].column \in Names(C)
      /\ \A i, j \in DOMAIN e.fields : e.fields[i].column = e.fields[j].column => i = j
  BY Declarations
<1> HIDE DEF C
<1>7. ASSUME NEW i \in DOMAIN key PROVE w[i] \in Names(C)
  <2>1. PICK k \in DOMAIN e.fields : EntityField(e, key[i]) = e.fields[k]
    BY <1>5, FieldAt
  <2> QED BY <1>2, <1>6, <2>1
<1>8. ASSUME SeqUnique(key), NEW i \in DOMAIN key, NEW j \in DOMAIN key, w[i] = w[j] PROVE i = j
  <2>1. PICK k \in DOMAIN e.fields : e.fields[k].name = key[i] /\ EntityField(e, key[i]) = e.fields[k]
    BY <1>5, FieldAt
  <2>2. PICK l \in DOMAIN e.fields : e.fields[l].name = key[j] /\ EntityField(e, key[j]) = e.fields[l]
    BY <1>5, FieldAt
  <2>3. k = l
    BY <1>2, <1>6, <1>8, <2>1, <2>2
  <2> QED BY <1>8, <2>1, <2>2, <2>3 DEF SeqUnique, IsInjective
<1>9. SeqUnique(key) => SeqUnique(w)
  BY <1>4, <1>8 DEF SeqUnique, IsInjective
<1>10. ToSet(w) \subseteq Names(C)
  BY <1>4, <1>7 DEF ToSet
<1> QED BY <1>2, <1>4, <1>5, <1>9, <1>10 DEF w, C

\* The keys of the table are lists of its columns without repetition.
LEMMA EntityKeysSound ==
    ASSUME NEW e, NEW actions, EntitySound(e, actions)
    PROVE  /\ e.primaryKey \in Seq(Int) /\ KeySound(EntityFields(e), e.primaryKey)
           /\ EntityKeys(e)[1].columns = ColumnsOf(e, e.primaryKey)
           /\ \A k \in ToSet(EntityKeys(e)) :
                 SeqUnique(k.columns) /\ ToSet(k.columns) \subseteq Names(Map(columnDeclaration, e.fields))
           /\ \A key \in ToSet(<<e.primaryKey>> \o e.uniqueKeys) :
                 \E k \in ToSet(EntityKeys(e)) : k.columns = ColumnsOf(e, key)
<1> DEFINE T == Seq(Int)
           K == EntityKeys(e)
           u == e.uniqueKeys
           pk == e.primaryKey
           C == Map(columnDeclaration, e.fields)
<1>1. /\ e \in IrEntities /\ KeySound(EntityFields(e), pk)
      /\ \A k \in DOMAIN u : KeySound(EntityFields(e), u[k])
  BY DEF EntitySound
<1>2. pk \in T /\ u \in Seq(T)
  BY <1>1 DEF IrEntities
<1>3. /\ Len(u) \in Nat /\ DOMAIN u = 1..Len(u) /\ DOMAIN K = 1..(Len(u) + 1) /\ Len(K) = Len(u) + 1
      /\ K[1] = EntityKey(e, "pk", pk)
      /\ \A k \in DOMAIN K : k = 1 \/ (k - 1 \in DOMAIN u /\ K[k] = EntityKey(e, "uq", u[k - 1]))
      /\ \A k \in DOMAIN u : k + 1 \in DOMAIN K /\ K[k + 1] = EntityKey(e, "uq", u[k])
  BY <1>1, KeyLists
<1>4. \A kind, key : EntityKey(e, kind, key).columns = ColumnsOf(e, key)
  BY DEF EntityKey
<1> HIDE DEF K
<1>5. ASSUME NEW key \in T, KeySound(EntityFields(e), key)
      PROVE  SeqUnique(ColumnsOf(e, key)) /\ ToSet(ColumnsOf(e, key)) \subseteq Names(C)
  <2>1. key \in Seq(Int) /\ ToSet(key) \subseteq EntityFields(e) /\ SeqUnique(key)
    BY <1>5 DEF KeySound
  <2> QED BY <2>1, ColumnsOfKey
<1> HIDE DEF T, C, u, pk
<1>6. \A k \in DOMAIN u : u[k] \in T
  BY <1>2
<1>7. ASSUME NEW k \in DOMAIN K PROVE SeqUnique(K[k].columns) /\ ToSet(K[k].columns) \subseteq Names(C)
  <2>1. CASE k = 1
    <3>1. K[k].columns = ColumnsOf(e, pk)
      BY <1>3, <1>4, <2>1
    <3> QED BY <1>1, <1>2, <1>5, <3>1
  <2>2. CASE k # 1
    <3> DEFINE l == k - 1
    <3>1. l \in DOMAIN u /\ K[k] = EntityKey(e, "uq", u[l])
      BY <1>3, <2>2
    <3> HIDE DEF l
    <3>2. K[k].columns = ColumnsOf(e, u[l]) /\ KeySound(EntityFields(e), u[l]) /\ u[l] \in T
      BY <1>1, <1>4, <1>6, <3>1
    <3> QED BY <1>5, <3>2
  <2> QED BY <2>1, <2>2
<1>8. \A k \in ToSet(K) : SeqUnique(k.columns) /\ ToSet(k.columns) \subseteq Names(C)
  BY <1>7 DEF ToSet
<1> DEFINE W == <<pk>> \o u
<1>9. /\ DOMAIN W = 1..(Len(u) + 1) /\ W[1] = pk
      /\ \A k \in DOMAIN W : k = 1 \/ (k - 1 \in DOMAIN u /\ W[k] = u[k - 1])
  BY <1>2, Before
<1> HIDE DEF W
<1>10. ASSUME NEW k \in DOMAIN W PROVE \E x \in ToSet(K) : x.columns = ColumnsOf(e, W[k])
  <2>1. k \in DOMAIN K
    BY <1>3, <1>9
  <2>2. CASE k = 1
    <3>1. K[k].columns = ColumnsOf(e, W[k])
      BY <1>3, <1>4, <1>9, <2>2
    <3> QED BY <2>1, <3>1 DEF ToSet
  <2>3. CASE k # 1
    <3>1. K[k].columns = ColumnsOf(e, W[k])
      BY <1>3, <1>4, <1>9, <2>1, <2>3
    <3> QED BY <2>1, <3>1 DEF ToSet
  <2> QED BY <2>2, <2>3
<1>11. \A key \in ToSet(W) : \E x \in ToSet(K) : x.columns = ColumnsOf(e, key)
  BY <1>10 DEF ToSet
<1>12. K[1].columns = ColumnsOf(e, pk)
  BY <1>3, <1>4
<1> QED BY <1>1, <1>2, <1>8, <1>11, <1>12 DEF T, C, u, pk, W, K

\* The column of a field once the table is created.
LEMMA EntityColumn ==
    ASSUME NEW ir, NEW e, NEW actions, EntitySound(e, actions), NEW i \in DOMAIN e.fields,
           NEW t, t.columns = RowColumns(EntityTable(ir, e))
    PROVE  LET f == e.fields[i]
               c == ColumnOf(t, f.column)
           IN  /\ f.column \in {x.name : x \in t.columns}
               /\ c.type = f.type /\ c.minLength = f.minLength /\ c.maxLength = f.maxLength
               /\ c.minimum = f.minimum /\ c.maximum = f.maximum
               /\ c.nullable = (f.nullable /\ f.name \notin ToSet(e.primaryKey))
<1> DEFINE f == e.fields[i]
           st == EntityTable(ir, e)
           C == Map(columnDeclaration, e.fields)
           pk == ToSet(st.keys[1].columns)
           R(d) == [d EXCEPT !.nullable = @ /\ d.name \notin pk]
           x == R(columnDeclaration(f))
<1>1. e \in IrEntities
  BY DEF EntitySound
<1>2. st.columns = C /\ st.keys[1].columns = ColumnsOf(e, e.primaryKey)
  BY <1>1, TableFacts, EntityKeysSound
<1>3. /\ DOMAIN C = DOMAIN e.fields
      /\ \A k \in DOMAIN e.fields : C[k] = columnDeclaration(e.fields[k]) /\ C[k].name = e.fields[k].column
      /\ \A k, l \in DOMAIN e.fields : e.fields[k].column = e.fields[l].column => k = l
  BY Declarations
<1>4. t.columns = {R(d) : d \in ToSet(C)}
  BY <1>2 DEF RowColumns
<1>5. f.column \in pk <=> f.name \in ToSet(e.primaryKey)
  <2> DEFINE key == e.primaryKey
             w == ColumnsOf(e, key)
  <2>1. key \in Seq(Int) /\ ToSet(key) \subseteq EntityFields(e)
    BY EntityKeysSound DEF KeySound
  <2>2. DOMAIN w = DOMAIN key /\ \A k \in DOMAIN key : key[k] \in EntityFields(e) /\ w[k] = EntityField(e, key[k]).column
    BY <2>1, ColumnsOfKey
  <2>3. ASSUME NEW k \in DOMAIN key PROVE w[k] = f.column <=> key[k] = f.name
    <3>1. PICK l \in DOMAIN e.fields : e.fields[l].name = key[k] /\ EntityField(e, key[k]) = e.fields[l]
      BY <2>2, FieldAt
    <3>2. \A a, b \in DOMAIN e.fields : e.fields[a].name = e.fields[b].name => a = b
      BY DEF EntitySound
    <3>3. w[k] = e.fields[l].column
      BY <2>2, <3>1
    <3> QED BY <1>3, <3>1, <3>2, <3>3
  <2>4. f.column \in ToSet(w) <=> \E k \in DOMAIN key : w[k] = f.column
    BY <2>2 DEF ToSet
  <2>5. f.name \in ToSet(key) <=> \E k \in DOMAIN key : key[k] = f.name
    BY DEF ToSet
  <2> QED BY <1>2, <2>3, <2>4, <2>5
<1> HIDE DEF st, pk, C, R
<1>6. x \in t.columns
  <2>1. columnDeclaration(f) \in ToSet(C)
    BY <1>3 DEF ToSet
  <2> QED BY <1>4, <2>1
<1>7. /\ x.name = f.column /\ x.type = f.type /\ x.minLength = f.minLength /\ x.maxLength = f.maxLength
      /\ x.minimum = f.minimum /\ x.maximum = f.maximum /\ x.nullable = (f.nullable /\ f.column \notin pk)
  BY DEF columnDeclaration, R
<1>8. ASSUME NEW y \in t.columns, y.name = f.column PROVE y = x
  <2>1. PICK k \in DOMAIN e.fields : y = R(columnDeclaration(e.fields[k]))
    BY <1>3, <1>4 DEF ToSet
  <2>2. y.name = e.fields[k].column
    BY <2>1 DEF R, columnDeclaration
  <2>3. k = i
    BY <1>3, <1>8, <2>2
  <2> QED BY <2>1, <2>3
<1> HIDE DEF x
<1>9. ColumnOf(t, f.column) = x
  BY <1>6, <1>7, <1>8 DEF ColumnOf
<1>10. f.column \in {y.name : y \in t.columns}
  BY <1>6, <1>7
<1> QED BY <1>5, <1>7, <1>9, <1>10
-----------------------------------------------------------------------------
(* One statement: it can be run, and the database is as described after it.*)

LEMMA IrTableFound ==
    ASSUME NEW ir, EntitiesSound(ir.entities), NEW E, NEW s, NEW D, EntitiesMade(ir, E, s, D),
           NEW e \in ToSet(ir.entities), HasTable(D, ir.schema, e.table)
    PROVE  LET t == TableOf(D, ir.schema, e.table)
           IN  /\ t \in D.tables /\ t.schema = ir.schema /\ t.table = e.table
               /\ t.columns = RowColumns(EntityTable(ir, e)) /\ t.keys = RowKeys(EntityTable(ir, e))
               /\ \A c \in t.constraints :
                     \/ \E k \in ToSet(EntityTable(ir, e).keys) : c = k.name
                     \/ \E l \in DOMAIN E : /\ l < s /\ E[l].op = "foreign"
                                            /\ E[l].name = c /\ E[l].table = e.table
<1> DEFINE t == TableOf(D, ir.schema, e.table)
<1>1. t \in D.tables /\ t.schema = ir.schema /\ t.table = e.table
  BY DEF TableOf, HasTable
<1> HIDE DEF t
<1>2. PICK x \in ToSet(ir.entities) :
        /\ t.schema = ir.schema /\ t.table = x.table
        /\ t.columns = RowColumns(EntityTable(ir, x)) /\ t.keys = RowKeys(EntityTable(ir, x))
        /\ \A c \in t.constraints :
              \/ \E k \in ToSet(EntityTable(ir, x).keys) : c = k.name
              \/ \E l \in DOMAIN E : /\ l < s /\ E[l].op = "foreign"
                                     /\ E[l].name = c /\ E[l].table = x.table
  BY <1>1 DEF EntitiesMade, EntityMade
<1>3. x = e
  <2>1. \A i, j \in DOMAIN ir.entities : ir.entities[i].table = ir.entities[j].table => i = j
    BY DEF EntitiesSound
  <2>2. PICK i \in DOMAIN ir.entities : x = ir.entities[i]
    BY DEF ToSet
  <2>3. PICK j \in DOMAIN ir.entities : e = ir.entities[j]
    BY DEF ToSet
  <2>4. x.table = e.table
    BY <1>1, <1>2
  <2> QED BY <2>1, <2>2, <2>3, <2>4
<1> QED BY <1>1, <1>2, <1>3 DEF t

LEMMA IrLater ==
    ASSUME NEW ir, NEW E, DOMAIN E = 1..Len(E), Len(E) \in Nat, NEW s \in DOMAIN E, NEW t, EntityMade(ir, E, s, t)
    PROVE  EntityMade(ir, E, s + 1, t)
<1>1. \A l \in DOMAIN E : l < s => l < s + 1
  OBVIOUS
<1> QED BY <1>1 DEF EntityMade

\* The entities of a sound document.
LEMMA EntityIn ==
    ASSUME NEW ir, EntitiesSound(ir.entities), NEW e \in ToSet(ir.entities)
    PROVE  EntitySound(e, DELETE_ACTIONS) /\ e \in IrEntities
<1>1. PICK i \in DOMAIN ir.entities : e = ir.entities[i]
  BY DEF ToSet
<1>2. EntitySound(e, DELETE_ACTIONS)
  BY <1>1 DEF EntitiesSound
<1> QED BY <1>2 DEF EntitySound

LEMMA EntityTableCreatable ==
    ASSUME NEW ir, EntitiesSound(ir.entities), ~ RelationCollision(ir), NEW E, NEW s \in DOMAIN E,
           NEW D, IrDatabaseSound(ir, E, s, D), TableReady(ir, E, s)
    PROVE  CanCreateTable(D, E[s])
<1> DEFINE st == E[s]
           es == ir.entities
<1>1. D.schemas = {ir.schema} /\ IrRelationsMade(E, s, D)
  BY DEF IrDatabaseSound
<1>2. PICK e \in ToSet(es) :
        /\ st = EntityTable(ir, e)
        /\ \A l \in DOMAIN E : l < s =>
              \E x \in ToSet(es) : E[l] = EntityTable(ir, x) /\ EntityRelations(ir, e) \cap EntityRelations(ir, x) = {}
  BY DEF TableReady
<1>3. EntitySound(e, DELETE_ACTIONS) /\ e \in IrEntities
  BY <1>2, EntityIn
<1>4. /\ st.op = "table" /\ st.schema = ir.schema /\ st.table = e.table
      /\ st.columns = Map(columnDeclaration, e.fields) /\ st.keys = EntityKeys(e)
  BY <1>2, <1>3, TableFacts
<1>5. SeqUnique(NewRelations(st))
  <2>1. es \in Seq(IrEntities) /\ (\A i, j \in DOMAIN es : es[i].table = es[j].table => i = j)
    BY DEF EntitiesSound
  <2>2. NamesApartIn(es)
    BY <2>1, RelationNamesApart
  <2>3. \A x \in DOMAIN es : SeqUnique(NewRelations(EntityTable(ir, es[x])))
    BY <2>1, <2>2, IrTablesApart
  <2> QED BY <1>2, <2>3 DEF ToSet
<1>6. /\ SeqUnique([c \in DOMAIN st.columns |-> st.columns[c].name])
      /\ Names(st.columns) \cap SystemColumns = {}
  BY <1>3, <1>4, Declarations
<1>7. \A k \in ToSet(st.keys) : SeqUnique(k.columns) /\ ToSet(k.columns) \subseteq Names(st.columns)
  BY <1>3, <1>4, EntityKeysSound
<1>8. \A x : EntityTable(ir, x).op = "table"
  BY DEF EntityTable, CreateTable
<1>9. ToSet(NewRelations(st)) = EntityRelations(ir, e)
  BY <1>2 DEF EntityRelations
<1> HIDE DEF st
<1>10. ASSUME NEW n \in ToSet(NewRelations(st)), <<st.schema, n>> \in D.relations PROVE FALSE
  <2> DEFINE r == <<st.schema, n>>
  <2>1. PICK l \in DOMAIN E :
           /\ l < s
           /\ \/ E[l].op = "table" /\ r[2] \in ToSet(NewRelations(E[l]))
              \/ E[l].op = "index" /\ r[2] = E[l].name
    BY <1>1, <1>10 DEF IrRelationsMade
  <2>2. PICK x \in ToSet(es) : E[l] = EntityTable(ir, x) /\ EntityRelations(ir, e) \cap EntityRelations(ir, x) = {}
    BY <1>2, <2>1
  <2>3. n \in EntityRelations(ir, x)
    BY <1>8, <2>1, <2>2 DEF EntityRelations
  <2> QED BY <1>9, <1>10, <2>2, <2>3
<1>11. st.schema \in D.schemas
  BY <1>1, <1>4
<1> QED BY <1>5, <1>6, <1>7, <1>10, <1>11 DEF CanCreateTable, st

LEMMA IrTableStep ==
    ASSUME NEW ir, EntitiesSound(ir.entities), ~ RelationCollision(ir), NEW E, IrOrderly(ir, E), NEW s \in DOMAIN E,
           NEW D, IrDatabaseSound(ir, E, s, D), TableReady(ir, E, s)
    PROVE  CanExecute(D, E[s]) /\ IrDatabaseSound(ir, E, s + 1, Execute(D, E[s]))
<1> DEFINE st == E[s]
           row == [schema |-> st.schema, table |-> st.table, columns |-> RowColumns(st),
                   keys |-> RowKeys(st), constraints |-> {k.name : k \in ToSet(st.keys)}]
           made == {<<st.schema, n>> : n \in ToSet(NewRelations(st))}
           D2 == [schemas |-> D.schemas, relations |-> D.relations \cup made,
                  tables |-> D.tables \cup {row}, foreign |-> D.foreign]
<1>1. /\ D = [schemas |-> D.schemas, relations |-> D.relations, tables |-> D.tables, foreign |-> D.foreign]
      /\ D.schemas = {ir.schema} /\ IrRelationsMade(E, s, D) /\ EntitiesMade(ir, E, s, D)
  BY DEF IrDatabaseSound
<1>2. PICK e \in ToSet(ir.entities) : st = EntityTable(ir, e)
  BY DEF TableReady
<1>3. st.op = "table" /\ st.schema = ir.schema /\ st.table = e.table
  BY <1>2, EntityIn, TableFacts
<1>4. DOMAIN E = 1..Len(E) /\ Len(E) \in Nat
  BY DEF IrOrderly
<1>5. s < s + 1 /\ \A l \in DOMAIN E : l < s + 1 <=> l < s \/ l = s
  BY <1>4, Positions
<1>6. CanExecute(D, st)
  BY <1>3, EntityTableCreatable DEF CanExecute
<1>7. Execute(D, st) = D2
  <2>1. Execute(D, st) = DoCreateTable(D, st)
    BY <1>3 DEF Execute
  <2>2. DoCreateTable(D, st) = [D EXCEPT !.tables = @ \cup {row}, !.relations = @ \cup made]
    BY DEF DoCreateTable, RowColumns, RowKeys
  <2> HIDE DEF row, made, st
  <2> QED BY <1>1, <2>1, <2>2
<1>8. row.schema = st.schema /\ row.table = st.table /\ row.columns = RowColumns(st) /\ row.keys = RowKeys(st)
      /\ row.constraints = {k.name : k \in ToSet(st.keys)}
  OBVIOUS
<1> HIDE DEF row
<1>9. IrRelationsMade(E, s + 1, D2)
  <2> SUFFICES ASSUME NEW r \in D.relations \cup made
               PROVE  \E l \in DOMAIN E :
                         /\ l < s + 1
                         /\ \/ E[l].op = "table" /\ r[2] \in ToSet(NewRelations(E[l]))
                            \/ E[l].op = "index" /\ r[2] = E[l].name
    BY DEF IrRelationsMade
  <2>1. CASE r \in D.relations
    BY <1>1, <1>5, <2>1 DEF IrRelationsMade
  <2>2. CASE r \in made
    <3>1. PICK n \in ToSet(NewRelations(st)) : r = <<st.schema, n>>
      BY <2>2
    <3>2. r[2] \in ToSet(NewRelations(st))
      BY <3>1
    <3> QED BY <1>3, <1>5, <3>2
  <2> QED BY <2>1, <2>2
<1>10. EntityMade(ir, E, s + 1, row)
  BY <1>2, <1>3, <1>8 DEF EntityMade
<1>11. EntitiesMade(ir, E, s + 1, D2)
  <2>1. \A t \in D.tables : EntityMade(ir, E, s + 1, t)
    BY <1>1, <1>4, IrLater DEF EntitiesMade
  <2>2. ASSUME NEW l \in DOMAIN E, l < s + 1, E[l].op = "table" PROVE HasTable(D2, ir.schema, E[l].table)
    <3>1. CASE l = s
      BY <1>3, <1>8, <3>1 DEF HasTable
    <3>2. CASE l < s
      BY <1>1, <2>2, <3>2 DEF EntitiesMade, HasTable
    <3> QED BY <1>5, <2>2, <3>1, <3>2
  <2> QED BY <1>10, <2>1, <2>2 DEF EntitiesMade
<1> QED BY <1>1, <1>6, <1>7, <1>9, <1>11 DEF IrDatabaseSound
\* What a foreign key refers to.
LEMMA ReferenceFacts ==
    ASSUME NEW ir, EntitiesSound(ir.entities), NEW e \in ToSet(ir.entities), NEW fk \in ToSet(e.foreignKeys)
    PROVE  LET target == EntityOf(ir.entities, fk.entity)
           IN  /\ target \in ToSet(ir.entities) /\ Refers(e, fk, target)
               /\ fk \in IrForeigns /\ ForeignSound(EntityFields(e), DELETE_ACTIONS, fk)
<1> DEFINE es == ir.entities
           target == EntityOf(es, fk.entity)
<1>1. es \in Seq(IrEntities) /\ (\A i, j \in DOMAIN es : es[i].name = es[j].name => i = j)
  BY DEF EntitiesSound
<1>2. PICK i \in DOMAIN es : e = es[i]
  BY DEF ToSet
<1>3. PICK k \in DOMAIN e.foreignKeys : fk = e.foreignKeys[k]
  BY DEF ToSet
<1>4. PICK j \in DOMAIN es : Refers(e, fk, es[j])
  BY <1>2, <1>3 DEF EntitiesSound
<1>5. es[j].name = fk.entity
  BY <1>4 DEF Refers
<1>6. target = es[j]
  BY <1>1, <1>5, EntityNamed
<1>7. e \in IrEntities /\ EntitySound(e, DELETE_ACTIONS)
  BY EntityIn
<1>8. fk \in IrForeigns
  BY <1>3, <1>7 DEF IrEntities
<1>9. ForeignSound(EntityFields(e), DELETE_ACTIONS, fk)
  BY <1>3, <1>7 DEF EntitySound
<1> QED BY <1>4, <1>6, <1>8, <1>9 DEF ToSet

\* No key of the table has the name of a foreign key.
LEMMA KeyNamesApart ==
    ASSUME NEW ir, NEW e \in IrEntities, NEW fk \in IrForeigns, fk.onDelete \in DELETE_ACTIONS,
           NEW k \in ToSet(EntityKeys(e))
    PROVE  k.name # EntityForeignName(e, fk)
<1> DEFINE T == Seq(Int)
           K == EntityKeys(e)
           u == e.uniqueKeys
<1>1. e.table \in Int /\ e.primaryKey \in T /\ u \in Seq(T)
  BY DEF IrEntities
<1>2. ForeignJson(fk) \in T
  BY ForeignRankType DEF ForeignRank
<1>3. /\ K[1] = EntityKey(e, "pk", e.primaryKey)
      /\ \A x \in DOMAIN K : x = 1 \/ (x - 1 \in DOMAIN u /\ K[x] = EntityKey(e, "uq", u[x - 1]))
  BY KeyLists
<1>4. PICK x \in DOMAIN K : k = K[x]
  BY DEF ToSet
<1>5. ASSUME NEW kind \in {"pk", "uq"}, NEW key \in T, k = EntityKey(e, kind, key)
      PROVE  k.name # EntityForeignName(e, fk)
  <2>1. k.name = generatedName(kind, e.table, key)
    BY <1>5 DEF EntityKey
  <2> QED BY <1>1, <1>2, <2>1, ForeignNameApart DEF EntityForeignName
<1> HIDE DEF K, T, u
<1>6. CASE x = 1
  BY <1>1, <1>3, <1>4, <1>5, <1>6
<1>7. CASE x # 1
  <2> DEFINE y == x - 1
  <2>1. y \in DOMAIN u /\ k = EntityKey(e, "uq", u[y])
    BY <1>3, <1>4, <1>7
  <2> HIDE DEF y
  <2>2. u[y] \in T
    BY <1>1, <2>1
  <2> QED BY <1>5, <2>1, <2>2
<1> QED BY <1>6, <1>7

\* The target of a foreign key has its key, both sides have the types of the fields, and the name
\* is taken only where two foreign keys of the table have the same.
LEMMA EntityReferenceAddable ==
    ASSUME NEW ir, EntitiesSound(ir.entities), NEW E, NEW s \in DOMAIN E,
           NEW D, IrDatabaseSound(ir, E, s, D), ForeignReady(ir, E, s), ~ NamesClash(ir)
    PROVE  CanAddForeignKey(D, E[s])
<1> DEFINE st == E[s]
           es == ir.entities
<1>1. EntitiesMade(ir, E, s, D)
  BY DEF IrDatabaseSound
<1>2. PICK e \in ToSet(es) : \E fk \in ToSet(e.foreignKeys) :
        /\ st = EntityReference(ir, e, fk) /\ TablesBefore(ir, E, s)
        /\ \A l \in DOMAIN E : l < s /\ E[l].op = "foreign" /\ E[l].table = e.table => E[l].name # st.name
  BY DEF ForeignReady
<1>3. PICK fk \in ToSet(e.foreignKeys) :
        /\ st = EntityReference(ir, e, fk) /\ TablesBefore(ir, E, s)
        /\ \A l \in DOMAIN E : l < s /\ E[l].op = "foreign" /\ E[l].table = e.table => E[l].name # st.name
  BY <1>2
<1> DEFINE target == EntityOf(es, fk.entity)
           here == TableOf(D, ir.schema, e.table)
           there == TableOf(D, ir.schema, target.table)
           F == fk.fields
           R == fk.refFields
<1>4. /\ st.schema = ir.schema /\ st.table = e.table /\ st.name = EntityForeignName(e, fk)
      /\ st.refSchema = ir.schema /\ st.refTable = target.table
      /\ st.columns = ColumnsOf(e, F) /\ st.refColumns = ColumnsOf(target, R)
  BY <1>3 DEF EntityReference, AddForeignKey
<1>5. /\ target \in ToSet(es) /\ Refers(e, fk, target) /\ fk \in IrForeigns
      /\ ForeignSound(EntityFields(e), DELETE_ACTIONS, fk)
  BY ReferenceFacts
<1> HIDE DEF st, target
<1>6. /\ ToSet(R) \subseteq EntityFields(target) /\ R \in ToSet(<<target.primaryKey>> \o target.uniqueKeys)
      /\ \A i \in DOMAIN F : EntityField(e, F[i]).type = EntityField(target, R[i]).type
      /\ ToSet(F) \subseteq EntityFields(e) /\ fk.onDelete \in DELETE_ACTIONS /\ Len(F) = Len(R) /\ SeqUnique(R)
  BY <1>5 DEF Refers, ForeignSound
<1>7. /\ EntitySound(e, DELETE_ACTIONS) /\ EntitySound(target, DELETE_ACTIONS)
      /\ e \in IrEntities /\ target \in IrEntities
  BY <1>5, EntityIn
<1>8. ASSUME NEW x \in ToSet(es) PROVE HasTable(D, ir.schema, x.table)
  <2>1. PICK l \in DOMAIN E : l < s /\ E[l] = EntityTable(ir, x)
    BY <1>3 DEF TablesBefore
  <2>2. E[l].op = "table" /\ E[l].table = x.table
    BY <2>1 DEF EntityTable, CreateTable
  <2> QED BY <1>1, <2>1, <2>2 DEF EntitiesMade
<1>9. HasTable(D, ir.schema, e.table) /\ HasTable(D, ir.schema, target.table)
  BY <1>5, <1>8
<1>10. /\ here.columns = RowColumns(EntityTable(ir, e))
       /\ \A c \in here.constraints :
             \/ \E k \in ToSet(EntityTable(ir, e).keys) : c = k.name
             \/ \E l \in DOMAIN E : /\ l < s /\ E[l].op = "foreign"
                                    /\ E[l].name = c /\ E[l].table = e.table
  BY <1>1, <1>9, IrTableFound
<1>11. there.columns = RowColumns(EntityTable(ir, target)) /\ there.keys = RowKeys(EntityTable(ir, target))
  BY <1>1, <1>5, <1>9, IrTableFound
<1> HIDE DEF here, there
<1>12. st.name \notin here.constraints
  <2> SUFFICES ASSUME st.name \in here.constraints PROVE FALSE
    OBVIOUS
  <2>1. ToSet(EntityTable(ir, e).keys) = ToSet(EntityKeys(e))
    BY <1>7, TableFacts
  <2>2. \A k \in ToSet(EntityKeys(e)) : k.name # st.name
    BY <1>4, <1>5, <1>6, <1>7, KeyNamesApart
  <2> QED BY <1>3, <1>10, <2>1, <2>2
<1>13. F \in Seq(Int) /\ R \in Seq(Int) /\ DOMAIN F = DOMAIN R
  BY <1>5, <1>6 DEF IrForeigns
<1>14. /\ DOMAIN st.columns = DOMAIN F /\ Len(st.columns) = Len(F)
       /\ \A i \in DOMAIN F : F[i] \in EntityFields(e) /\ st.columns[i] = EntityField(e, F[i]).column
  BY <1>4, <1>6, <1>7, <1>13, ColumnsOfKey
<1>15. /\ DOMAIN st.refColumns = DOMAIN R /\ Len(st.refColumns) = Len(R)
       /\ \A i \in DOMAIN R : R[i] \in EntityFields(target) /\ st.refColumns[i] = EntityField(target, R[i]).column
       /\ SeqUnique(st.refColumns)
  BY <1>4, <1>6, <1>7, <1>13, ColumnsOfKey
<1>16. ToSet(st.refColumns) \in there.keys
  <2>1. PICK k \in ToSet(EntityKeys(target)) : k.columns = ColumnsOf(target, R)
    BY <1>6, <1>7, EntityKeysSound
  <2>2. EntityTable(ir, target).keys = EntityKeys(target)
    BY <1>7, TableFacts
  <2> QED BY <1>4, <1>11, <2>1, <2>2 DEF RowKeys
<1>17. ASSUME NEW x, EntitySound(x, DELETE_ACTIONS), NEW t, t.columns = RowColumns(EntityTable(ir, x)),
              NEW n \in EntityFields(x)
       PROVE  LET c == EntityField(x, n).column
              IN  c \in {y.name : y \in t.columns} /\ ColumnOf(t, c).type = EntityField(x, n).type
  <2>1. PICK i \in DOMAIN x.fields : EntityField(x, n) = x.fields[i]
    BY <1>17, FieldAt
  <2>2. x.fields[i].column \in {y.name : y \in t.columns} /\ ColumnOf(t, x.fields[i].column).type = x.fields[i].type
    BY <1>17, EntityColumn
  <2> QED BY <2>1, <2>2
<1>18. \A i \in DOMAIN F : /\ st.columns[i] \in {y.name : y \in here.columns}
                           /\ ColumnOf(here, st.columns[i]).type = EntityField(e, F[i]).type
  BY <1>7, <1>10, <1>14, <1>17
<1>19. \A i \in DOMAIN R : /\ st.refColumns[i] \in {y.name : y \in there.columns}
                           /\ ColumnOf(there, st.refColumns[i]).type = EntityField(target, R[i]).type
  BY <1>7, <1>11, <1>15, <1>17
<1> HIDE DEF F, R
<1>20. HasColumns(here, st.columns)
  BY <1>14, <1>18 DEF HasColumns, ToSet
<1>21. HasColumns(there, st.refColumns)
  BY <1>15, <1>19 DEF HasColumns, ToSet
<1>22. \A i \in DOMAIN st.columns : ColumnOf(here, st.columns[i]).type = ColumnOf(there, st.refColumns[i]).type
  BY <1>6, <1>13, <1>14, <1>18, <1>19
<1>23. Len(st.columns) = Len(st.refColumns)
  BY <1>6, <1>14, <1>15
<1>24. TableOf(D, st.schema, st.table) = here /\ TableOf(D, st.refSchema, st.refTable) = there
  BY <1>4 DEF here, there
<1> QED BY <1>4, <1>9, <1>12, <1>15, <1>16, <1>20, <1>21, <1>22, <1>23, <1>24 DEF CanAddForeignKey, st
LEMMA IrForeignStep ==
    ASSUME NEW ir, EntitiesSound(ir.entities), NEW E, IrOrderly(ir, E), NEW s \in DOMAIN E,
           NEW D, IrDatabaseSound(ir, E, s, D), ForeignReady(ir, E, s)
    PROVE  /\ CanExecute(D, E[s]) \/ NamesClash(ir)
           /\ CanExecute(D, E[s]) => IrDatabaseSound(ir, E, s + 1, Execute(D, E[s]))
<1> DEFINE st == E[s]
           here == TableOf(D, st.schema, st.table)
           named == [here EXCEPT !.constraints = @ \cup {st.name}]
           D2 == [schemas |-> D.schemas, relations |-> D.relations,
                  tables |-> (D.tables \ {here}) \cup {named}, foreign |-> D.foreign \cup {st}]
<1>1. /\ D = [schemas |-> D.schemas, relations |-> D.relations, tables |-> D.tables, foreign |-> D.foreign]
      /\ D.schemas = {ir.schema} /\ IrRelationsMade(E, s, D) /\ EntitiesMade(ir, E, s, D)
  BY DEF IrDatabaseSound
<1>2. st.op = "foreign" /\ st.schema = ir.schema
  BY DEF ForeignReady, EntityReference, AddForeignKey
<1>3. DOMAIN E = 1..Len(E) /\ Len(E) \in Nat
  BY DEF IrOrderly
<1>4. s < s + 1 /\ \A l \in DOMAIN E : l < s + 1 <=> l < s \/ l = s
  BY <1>3, Positions
<1>5. CanExecute(D, st) <=> CanAddForeignKey(D, st)
  BY <1>2 DEF CanExecute
<1>6. CanExecute(D, st) \/ NamesClash(ir)
  BY <1>5, EntityReferenceAddable
<1>7. SUFFICES ASSUME CanAddForeignKey(D, st) PROVE IrDatabaseSound(ir, E, s + 1, Execute(D, st))
  BY <1>5, <1>6
<1>8. Execute(D, st) = D2
  <2>1. Execute(D, st) = DoAddForeignKey(D, st)
    BY <1>2 DEF Execute
  <2>2. DoAddForeignKey(D, st) = [D EXCEPT !.tables = (@ \ {here}) \cup {named}, !.foreign = @ \cup {st}]
    BY DEF DoAddForeignKey
  <2> HIDE DEF here, named, st
  <2> QED BY <1>1, <2>1, <2>2
<1>9. here \in D.tables /\ here.schema = st.schema /\ here.table = st.table
  BY <1>7 DEF CanAddForeignKey, HasTable, TableOf
<1> HIDE DEF here
<1>10. /\ named.schema = here.schema /\ named.table = here.table /\ named.columns = here.columns
       /\ named.keys = here.keys /\ \A c \in named.constraints : c \in here.constraints \/ c = st.name
  OBVIOUS
<1> HIDE DEF named
<1>11. \A schema, table : HasTable(D, schema, table) => HasTable(D2, schema, table)
  BY <1>9, <1>10 DEF HasTable
<1>12. IrRelationsMade(E, s + 1, D2)
  BY <1>1, <1>4 DEF IrRelationsMade
<1>13. EntityMade(ir, E, s + 1, named)
  <2>1. PICK x \in ToSet(ir.entities) :
          /\ here.schema = ir.schema /\ here.table = x.table
          /\ here.columns = RowColumns(EntityTable(ir, x)) /\ here.keys = RowKeys(EntityTable(ir, x))
          /\ \A c \in here.constraints :
                \/ \E k \in ToSet(EntityTable(ir, x).keys) : c = k.name
                \/ \E l \in DOMAIN E : /\ l < s /\ E[l].op = "foreign"
                                       /\ E[l].name = c /\ E[l].table = x.table
    BY <1>1, <1>9 DEF EntitiesMade, EntityMade
  <2>2. ASSUME NEW c \in named.constraints
        PROVE  \/ \E k \in ToSet(EntityTable(ir, x).keys) : c = k.name
               \/ \E l \in DOMAIN E : /\ l < s + 1 /\ E[l].op = "foreign"
                                      /\ E[l].name = c /\ E[l].table = x.table
    <3>1. CASE c = st.name
      BY <1>2, <1>4, <1>9, <2>1, <3>1
    <3>2. CASE c \in here.constraints
      BY <1>4, <2>1, <3>2
    <3> QED BY <1>10, <2>2, <3>1, <3>2
  <2> QED BY <1>10, <2>1, <2>2 DEF EntityMade
<1>14. EntitiesMade(ir, E, s + 1, D2)
  <2>1. \A t \in D.tables : EntityMade(ir, E, s + 1, t)
    BY <1>1, <1>3, IrLater DEF EntitiesMade
  <2>2. \A l \in DOMAIN E : l < s + 1 /\ E[l].op = "table" => HasTable(D2, ir.schema, E[l].table)
    BY <1>1, <1>2, <1>4, <1>11 DEF EntitiesMade
  <2> HIDE DEF st
  <2> QED BY <1>13, <2>1, <2>2 DEF EntitiesMade
<1> QED BY <1>1, <1>8, <1>12, <1>14 DEF IrDatabaseSound

LEMMA IrIndexStep ==
    ASSUME NEW ir, EntitiesSound(ir.entities), NEW E, IrOrderly(ir, E), NEW s \in DOMAIN E,
           NEW D, IrDatabaseSound(ir, E, s, D), IndexReady(ir, E, s)
    PROVE  CanExecute(D, E[s]) /\ IrDatabaseSound(ir, E, s + 1, Execute(D, E[s]))
<1> DEFINE st == E[s]
           r == <<st.schema, st.name>>
           D2 == [schemas |-> D.schemas, relations |-> D.relations \cup {r},
                  tables |-> D.tables, foreign |-> D.foreign]
<1>1. /\ D = [schemas |-> D.schemas, relations |-> D.relations, tables |-> D.tables, foreign |-> D.foreign]
      /\ D.schemas = {ir.schema} /\ IrRelationsMade(E, s, D) /\ EntitiesMade(ir, E, s, D)
  BY DEF IrDatabaseSound
<1>2. PICK e \in ToSet(ir.entities) : \E key \in ToSet(e.indexes) :
        /\ st = EntityIndex(ir, e, key) /\ TablesBefore(ir, E, s)
        /\ \A l \in DOMAIN E : l < s =>
              /\ E[l].op = "table" => st.name \notin ToSet(NewRelations(E[l]))
              /\ E[l].op = "index" => st.name # E[l].name
  BY DEF IndexReady
<1>3. PICK key \in ToSet(e.indexes) :
        /\ st = EntityIndex(ir, e, key) /\ TablesBefore(ir, E, s)
        /\ \A l \in DOMAIN E : l < s =>
              /\ E[l].op = "table" => st.name \notin ToSet(NewRelations(E[l]))
              /\ E[l].op = "index" => st.name # E[l].name
  BY <1>2
<1>4. st.op = "index" /\ st.schema = ir.schema /\ st.table = e.table /\ st.columns = ColumnsOf(e, key)
  BY <1>3 DEF EntityIndex, CreateIndex
<1>5. DOMAIN E = 1..Len(E) /\ Len(E) \in Nat
  BY DEF IrOrderly
<1>6. s < s + 1 /\ \A l \in DOMAIN E : l < s + 1 <=> l < s \/ l = s
  BY <1>5, Positions
<1> HIDE DEF st
<1>7. r[1] = st.schema /\ r[2] = st.name
  OBVIOUS
<1> HIDE DEF r
<1>8. r \notin D.relations
  BY <1>1, <1>3, <1>7 DEF IrRelationsMade
<1>9. HasTable(D, ir.schema, e.table)
  <2>1. PICK l \in DOMAIN E : l < s /\ E[l] = EntityTable(ir, e)
    BY <1>3 DEF TablesBefore
  <2>2. E[l].op = "table" /\ E[l].table = e.table
    BY <2>1 DEF EntityTable, CreateTable
  <2> QED BY <1>1, <2>1, <2>2 DEF EntitiesMade
<1> DEFINE here == TableOf(D, ir.schema, e.table)
           C == Map(columnDeclaration, e.fields)
<1>10. here.columns = RowColumns(EntityTable(ir, e))
  BY <1>1, <1>9, IrTableFound
<1> HIDE DEF here
<1>11. EntitySound(e, DELETE_ACTIONS) /\ e \in IrEntities
  BY EntityIn
<1>12. key \in Seq(Int) /\ ToSet(key) \subseteq EntityFields(e)
  <2> DEFINE T == Seq(Int)
  <2>1. e.indexes \in Seq(T)
    BY <1>11 DEF IrEntities
  <2>2. PICK k \in DOMAIN e.indexes : key = e.indexes[k]
    BY DEF ToSet
  <2>3. key \in T
    <3> HIDE DEF T
    <3> QED BY <2>1, <2>2
  <2>4. KeySound(EntityFields(e), key)
    BY <1>11, <2>2 DEF EntitySound
  <2> QED BY <2>3, <2>4 DEF KeySound
<1>13. HasColumns(here, st.columns)
  <2> DEFINE w == ColumnsOf(e, key)
  <2>1. DOMAIN w = DOMAIN key /\ \A i \in DOMAIN key : key[i] \in EntityFields(e) /\ w[i] = EntityField(e, key[i]).column
    BY <1>11, <1>12, ColumnsOfKey
  <2> HIDE DEF w
  <2>2. ASSUME NEW i \in DOMAIN key PROVE w[i] \in {y.name : y \in here.columns}
    <3>1. PICK k \in DOMAIN e.fields : EntityField(e, key[i]) = e.fields[k]
      BY <1>11, <2>1, FieldAt
    <3>2. e.fields[k].column \in {y.name : y \in here.columns}
      BY <1>10, <1>11, EntityColumn
    <3> QED BY <2>1, <3>1, <3>2
  <2>3. ToSet(w) \subseteq {y.name : y \in here.columns}
    BY <2>1, <2>2 DEF ToSet
  <2> QED BY <1>4, <2>3 DEF HasColumns, w
<1>14. CanExecute(D, st)
  BY <1>4, <1>8, <1>9, <1>13 DEF CanExecute, CanCreateIndex, here, r
<1>15. Execute(D, st) = D2
  <2>1. Execute(D, st) = [D EXCEPT !.relations = @ \cup {r}]
    BY <1>4 DEF Execute, DoCreateIndex, r
  <2> QED BY <1>1, <2>1
<1>16. IrRelationsMade(E, s + 1, D2)
  <2> SUFFICES ASSUME NEW x \in D.relations \cup {r}
               PROVE  \E l \in DOMAIN E :
                         /\ l < s + 1
                         /\ \/ E[l].op = "table" /\ x[2] \in ToSet(NewRelations(E[l]))
                            \/ E[l].op = "index" /\ x[2] = E[l].name
    BY DEF IrRelationsMade
  <2>1. CASE x \in D.relations
    BY <1>1, <1>6, <2>1 DEF IrRelationsMade
  <2>2. CASE x = r
    BY <1>4, <1>6, <1>7, <2>2 DEF st
  <2> QED BY <2>1, <2>2
<1>17. EntitiesMade(ir, E, s + 1, D2)
  <2>1. \A t \in D.tables : EntityMade(ir, E, s + 1, t)
    BY <1>1, <1>5, IrLater DEF EntitiesMade
  <2>2. \A l \in DOMAIN E : l < s + 1 /\ E[l].op = "table" => HasTable(D2, ir.schema, E[l].table)
    BY <1>1, <1>4, <1>6 DEF EntitiesMade, HasTable, st
  <2> QED BY <2>1, <2>2 DEF EntitiesMade
<1> QED BY <1>1, <1>14, <1>15, <1>16, <1>17 DEF IrDatabaseSound, st

\* One statement of an accepted document.
LEMMA IrStepSound ==
    ASSUME NEW ir, EntitiesSound(ir.entities), ~ RelationCollision(ir), NEW s \in DOMAIN emitSql(ir),
           NEW D, IrDatabaseSound(ir, emitSql(ir), s, D)
    PROVE  /\ CanExecute(D, emitSql(ir)[s]) \/ NamesClash(ir)
           /\ CanExecute(D, emitSql(ir)[s]) => IrDatabaseSound(ir, emitSql(ir), s + 1, Execute(D, emitSql(ir)[s]))
<1> DEFINE E == emitSql(ir)
<1>1. IrOrderly(ir, E)
  BY IrOrderlyHolds
<1>2. s \in DOMAIN E /\ IrDatabaseSound(ir, E, s, D)
  OBVIOUS
<1> HIDE DEF E
<1>3. TableReady(ir, E, s) \/ ForeignReady(ir, E, s) \/ IndexReady(ir, E, s)
  BY <1>1, <1>2 DEF IrOrderly
<1>4. /\ CanExecute(D, E[s]) \/ NamesClash(ir)
      /\ CanExecute(D, E[s]) => IrDatabaseSound(ir, E, s + 1, Execute(D, E[s]))
  <2>1. CASE TableReady(ir, E, s)
    BY <1>1, <1>2, <2>1, IrTableStep
  <2>2. CASE ForeignReady(ir, E, s)
    BY <1>1, <1>2, <2>2, IrForeignStep
  <2>3. CASE IndexReady(ir, E, s)
    BY <1>1, <1>2, <2>3, IrIndexStep
  <2> QED BY <1>3, <2>1, <2>2, <2>3
<1> QED BY <1>4 DEF E
-----------------------------------------------------------------------------
(* The life of a document.                                                 *)

LEMMA IrVerdict ==
    ASSUME NEW d
    PROVE  LET c == compileSchemaIr(d)
               ir == normalizeSchemaIr(d)
           IN  /\ c.ok \in BOOLEAN
               /\ c.ok => /\ normalizeFailures(d) = <<>> /\ ~ RelationCollision(ir)
                          /\ c.ir = ir /\ c.sql = emitSql(ir) /\ c.typescript = emitTypeScript(ir)
                          /\ c.rust = emitRust(ir) /\ c.dart = emitDart(ir) /\ c.cue = emitCue(ir)
                          /\ c.jsonSchemas = Map(emitEntitySchema, ir.entities)
<1> DEFINE f == normalizeFailures(d)
           ir == normalizeSchemaIr(d)
           schemas == Map(emitEntitySchema, ir.entities)
<1>1. compileSchemaIr(d) =
        IF f # <<>> THEN [ok |-> FALSE, error |-> Head(f)]
        ELSE IF RelationCollision(ir) THEN [ok |-> FALSE, error |-> [code |-> "NAME_COLLISION", at |-> <<>>]]
        ELSE [ok |-> TRUE, ir |-> ir, sql |-> emitSql(ir), typescript |-> emitTypeScript(ir),
              rust |-> emitRust(ir), dart |-> emitDart(ir), cue |-> emitCue(ir), jsonSchemas |-> schemas]
  BY DEF compileSchemaIr
<1> HIDE DEF f, ir, schemas
<1>2. CASE f # <<>>
  <2>1. compileSchemaIr(d) = [ok |-> FALSE, error |-> Head(f)]
    BY <1>1, <1>2
  <2> QED BY <2>1
<1>3. CASE f = <<>> /\ RelationCollision(ir)
  <2>1. compileSchemaIr(d) = [ok |-> FALSE, error |-> [code |-> "NAME_COLLISION", at |-> <<>>]]
    BY <1>1, <1>3
  <2> QED BY <2>1
<1>4. CASE f = <<>> /\ ~ RelationCollision(ir)
  <2>1. compileSchemaIr(d) =
          [ok |-> TRUE, ir |-> ir, sql |-> emitSql(ir), typescript |-> emitTypeScript(ir),
           rust |-> emitRust(ir), dart |-> emitDart(ir), cue |-> emitCue(ir), jsonSchemas |-> schemas]
    BY <1>1, <1>4
  <2> DEFINE c == compileSchemaIr(d)
  <2>2. /\ c.ok = TRUE /\ c.ir = ir /\ c.sql = emitSql(ir) /\ c.typescript = emitTypeScript(ir)
        /\ c.rust = emitRust(ir) /\ c.dart = emitDart(ir) /\ c.cue = emitCue(ir) /\ c.jsonSchemas = schemas
    BY <2>1
  <2> HIDE DEF c
  <2> QED BY <1>4, <2>2 DEF c, f, ir, schemas
<1> QED BY <1>2, <1>3, <1>4

\* The entities from which an accepted document is compiled.
LEMMA IrAccepted ==
    ASSUME NEW d \in IrDocuments, normalizeFailures(d) = <<>>
    PROVE  LET es == normalizeSchemaIr(d).entities
           IN  /\ EntitiesSound(es) /\ normalizeSchemaIr(d).schema = d.schema
               /\ es = ByName(normalizedEntities(d)) /\ EntitiesSound(normalizedEntities(d))
               /\ ToSet(es) = {entity(e) : e \in ToSet(d.entities)}
<1> DEFINE s == normalizedEntities(d)
           es == normalizeSchemaIr(d).entities
<1>1. EntitiesSound(s) /\ DOMAIN s = DOMAIN d.entities /\ \A i \in DOMAIN d.entities : s[i] = entity(d.entities[i])
  BY NormalEntities
<1>2. es = ByName(s) /\ normalizeSchemaIr(d).schema = d.schema
  BY DEF normalizeSchemaIr, ByName
<1> HIDE DEF s, es
<1>3. EntitiesSound(es) /\ ToSet(es) = ToSet(s)
  BY <1>1, <1>2, SortedEntities
<1>4. ToSet(s) = {entity(e) : e \in ToSet(d.entities)}
  BY <1>1 DEF ToSet
<1> QED BY <1>1, <1>2, <1>3, <1>4 DEF s, es

LEMMA ProvisionedSound ==
    ASSUME NEW d, NEW ir, ir.schema = d.schema, NEW E, DOMAIN E = 1..Len(E), Len(E) \in Nat
    PROVE  IrDatabaseSound(ir, E, 1, Provisioned(d))
<1>1. Provisioned(d) = [schemas |-> {d.schema}, relations |-> {}, tables |-> {}, foreign |-> {}]
  BY DEF Provisioned, EmptyDatabase
<1>2. \A l \in DOMAIN E : ~ (l < 1)
  OBVIOUS
<1> QED BY <1>1, <1>2 DEF IrDatabaseSound, IrRelationsMade, EntitiesMade

LEMMA IrReleaseStep ==
    ASSUME IrInv, [IrNext]_irVars
    PROVE  IrInv'
<1> DEFINE c == compileSchemaIr(irDoc)
           ir == normalizeSchemaIr(irDoc)
           E == emitSql(ir)
<1>1. /\ irDoc \in IrDocuments
      /\ irPhase \in {"editing", "applying", "applied", "rejected", "failed"}
      /\ irPhase \in {"editing", "rejected"} => irStep = 1 /\ irDb = Provisioned(irDoc)
      /\ irPhase = "editing" => irResult = NotCompiled
      /\ irPhase # "editing" => irResult = c
      /\ irPhase = "rejected" => ~ irResult.ok
      /\ irPhase \in {"applying", "applied", "failed"} =>
            /\ irResult.ok /\ irStep \in 1..(Len(irResult.sql) + 1)
            /\ IrDatabaseSound(irResult.ir, irResult.sql, irStep, irDb)
      /\ irPhase = "applied" => irStep = Len(irResult.sql) + 1
      /\ irPhase = "failed" => NamesClash(irResult.ir)
  BY DEF IrInv
<1>2. c.ok \in BOOLEAN /\ (c.ok => normalizeFailures(irDoc) = <<>> /\ ~ RelationCollision(ir) /\ c.ir = ir /\ c.sql = E)
  BY IrVerdict
<1>3. c.ok => EntitiesSound(ir.entities) /\ ir.schema = irDoc.schema
  BY <1>1, <1>2, IrAccepted
<1>4. c.ok => Len(E) \in Nat /\ DOMAIN E = 1..Len(E)
  <2>1. c.ok => IrOrderly(ir, E)
    BY <1>2, <1>3, IrOrderlyHolds
  <2> HIDE DEF E, c
  <2> QED BY <2>1 DEF IrOrderly
<1> HIDE DEF ir, E
<1>5. CASE IrEdit
  <2>1. /\ irDoc' \in IrEdits(irDoc) /\ irDb' = Provisioned(irDoc') /\ irPhase = "editing"
        /\ irPhase' = irPhase /\ irResult' = irResult /\ irStep' = irStep
    BY <1>5 DEF IrEdit
  <2>2. irDoc' \in IrDocuments
    BY <1>1, <2>1, IrEditType
  <2> QED BY <1>1, <2>1, <2>2 DEF IrInv, Provisioned, NotCompiled
<1>6. CASE IrCompile
  <2>1. /\ irPhase = "editing" /\ irResult' = c /\ irPhase' = IF c.ok THEN "applying" ELSE "rejected"
        /\ irDoc' = irDoc /\ irStep' = 1 /\ irDb' = Provisioned(irDoc) /\ irStep = 1 /\ irDb = Provisioned(irDoc)
    BY <1>1, <1>6 DEF IrCompile
  <2>2. CASE c.ok
    <3>1. IrDatabaseSound(ir, E, 1, Provisioned(irDoc)) /\ 1 \in 1..(Len(E) + 1)
      BY <1>3, <1>4, <2>2, ProvisionedSound
    <3>2. irPhase' = "applying" /\ irResult'.ir = ir /\ irResult'.sql = E
      BY <1>2, <2>1, <2>2
    <3> QED BY <1>1, <2>1, <2>2, <3>1, <3>2 DEF IrInv
  <2>3. CASE ~ c.ok
    <3>1. irPhase' = "rejected"
      BY <2>1, <2>3
    <3> QED BY <1>1, <2>1, <2>3, <3>1 DEF IrInv, Provisioned
  <2> QED BY <2>2, <2>3
<1>7. CASE IrRunStatement
  <2>1. irPhase = "applying" /\ irStep <= Len(irResult.sql) /\ irDoc' = irDoc /\ irResult' = irResult
    BY <1>7 DEF IrRunStatement
  <2>2. /\ irResult = c /\ c.ok /\ c.ir = ir /\ c.sql = E
        /\ irStep \in 1..(Len(E) + 1) /\ IrDatabaseSound(ir, E, irStep, irDb)
    BY <1>1, <1>2, <2>1
  <2>3. Len(E) \in Nat /\ irStep \in DOMAIN E
    BY <1>4, <2>1, <2>2
  <2>4. /\ CanExecute(irDb, E[irStep]) \/ NamesClash(ir)
        /\ CanExecute(irDb, E[irStep]) => IrDatabaseSound(ir, E, irStep + 1, Execute(irDb, E[irStep]))
    BY <1>2, <1>3, <2>2, <2>3, IrStepSound DEF E
  <2>5. CASE CanExecute(irDb, E[irStep])
    <3>1. irDb' = Execute(irDb, E[irStep]) /\ irStep' = irStep + 1 /\ irPhase' = irPhase
      BY <1>7, <2>2, <2>5 DEF IrRunStatement
    <3>2. irStep' \in 1..(Len(E) + 1)
      BY <1>4, <2>2, <2>3, <3>1
    <3> QED BY <1>1, <2>1, <2>2, <2>4, <2>5, <3>1, <3>2 DEF IrInv
  <2>6. CASE ~ CanExecute(irDb, E[irStep])
    <3>1. irPhase' = "failed" /\ irDb' = irDb /\ irStep' = irStep
      BY <1>7, <2>2, <2>6 DEF IrRunStatement
    <3> QED BY <1>1, <2>1, <2>2, <2>4, <2>6, <3>1 DEF IrInv
  <2> QED BY <2>5, <2>6
<1>8. CASE IrFinish
  <2>1. /\ irPhase = "applying" /\ irStep > Len(irResult.sql) /\ irPhase' = "applied"
        /\ irDoc' = irDoc /\ irResult' = irResult /\ irStep' = irStep /\ irDb' = irDb
    BY <1>8 DEF IrFinish
  <2>2. /\ irResult = c /\ c.ok /\ c.ir = ir /\ c.sql = E
        /\ irStep \in 1..(Len(E) + 1) /\ IrDatabaseSound(ir, E, irStep, irDb)
    BY <1>1, <1>2, <2>1
  <2>3. irStep = Len(E) + 1
    BY <1>4, <2>1, <2>2
  <2> QED BY <1>1, <2>1, <2>2, <2>3 DEF IrInv
<1>9. CASE IrRevise
  BY <1>1, <1>9 DEF IrRevise, IrInv, Provisioned
<1>10. CASE UNCHANGED irVars
  BY <1>1, <1>10 DEF irVars, IrInv, Provisioned, NotCompiled
<1> QED BY <1>5, <1>6, <1>7, <1>8, <1>9, <1>10 DEF IrNext

\* What the author has is always a document; while its SQL is run the database is what the
\* statements before the next one make of one with the document's schema, and the SQL stops only
\* where two foreign keys of an entity have the same generated name: the inductive invariant
\* (schema-ir/validate.js, schema-ir/index.js:15-60).
THEOREM IrInvariance == IrSpec => []IrInv
<1>1. IrInit => IrInv
  BY IrAuthorAssumption DEF IrInit, IrInv
<1>2. IrInv /\ [IrNext]_irVars => IrInv'
  BY IrReleaseStep
<1> QED BY <1>1, <1>2, PTL DEF IrSpec
-----------------------------------------------------------------------------
(* The descriptions of one field.                                          *)

LEMMA MappedPart ==
    ASSUME NEW S, NEW s \in Seq(S), \A i, j \in DOMAIN s : s[i].name = s[j].name => i = j,
           NEW q, q = [i \in DOMAIN s |-> q[i]], \A i \in DOMAIN s : q[i].name = s[i].name, NEW r \in DOMAIN s
    PROVE  Same(q, s[r].name) = q[r]
<1> DEFINE T == {q[i] : i \in DOMAIN s}
<1>1. \A i \in DOMAIN s : q[i] \in T
  OBVIOUS
<1> HIDE DEF T
<1>2. q \in Seq(T) /\ DOMAIN q = DOMAIN s
  BY <1>1, MappedLists
<1>3. Len(q) \in Nat /\ DOMAIN q = 1..Len(q)
  BY <1>2
<1>4. \A i, j \in DOMAIN q : q[i].name = q[j].name => i = j
  BY <1>2
<1>5. Named(q, q[r].name) = q[r]
  BY <1>2, <1>3, <1>4, NamedPart
<1>6. Same(q, q[r].name) = Named(q, q[r].name)
  BY DEF Same, Named
<1> QED BY <1>5, <1>6

LEMMA SoundLists ==
    ASSUME NEW ir, EntitiesSound(ir.entities)
    PROVE  /\ ir.entities \in Seq(IrEntities)
           /\ \A i, j \in DOMAIN ir.entities : ir.entities[i].name = ir.entities[j].name => i = j
           /\ \A e \in ToSet(ir.entities) :
                 /\ e.fields \in Seq(IrFields)
                 /\ \A i, j \in DOMAIN e.fields : e.fields[i].name = e.fields[j].name => i = j
<1>1. /\ ir.entities \in Seq(IrEntities)
      /\ \A i, j \in DOMAIN ir.entities : ir.entities[i].name = ir.entities[j].name => i = j
  BY DEF EntitiesSound
<1>2. ASSUME NEW e \in ToSet(ir.entities)
      PROVE  /\ e.fields \in Seq(IrFields)
             /\ \A i, j \in DOMAIN e.fields : e.fields[i].name = e.fields[j].name => i = j
  <2>1. EntitySound(e, DELETE_ACTIONS) /\ e \in IrEntities
    BY EntityIn
  <2> QED BY <2>1 DEF EntitySound, IrEntities
<1> QED BY <1>1, <1>2

\* The types of one language: a declaration for every field of every entity.
Declares(es, t) ==
    /\ t = [k \in DOMAIN es |-> t[k]]
    /\ \A k \in DOMAIN es :
          /\ t[k].name = es[k].name
          /\ t[k].fields = [i \in DOMAIN es[k].fields |-> t[k].fields[i]]
          /\ \A i \in DOMAIN es[k].fields :
                LET f == es[k].fields[i]
                    y == t[k].fields[i]
                IN  y.name = f.name /\ y.nullable = f.nullable /\ y.optional = (~ f.required)

LEMMA DeclaredType ==
    ASSUME NEW ir, EntitiesSound(ir.entities), NEW t, Declares(ir.entities, t),
           NEW e \in ToSet(ir.entities), NEW i \in DOMAIN e.fields
    PROVE  LET f == e.fields[i]
               y == Same(FieldsOf(t, e), f.name)
           IN  y.nullable = f.nullable /\ y.optional = (~ f.required)
<1> DEFINE es == ir.entities
<1>1. /\ es \in Seq(IrEntities) /\ \A k, l \in DOMAIN es : es[k].name = es[l].name => k = l
      /\ e.fields \in Seq(IrFields) /\ \A k, l \in DOMAIN e.fields : e.fields[k].name = e.fields[l].name => k = l
  BY SoundLists
<1>2. PICK r \in DOMAIN es : e = es[r]
  BY DEF ToSet
<1> DEFINE w == t[r].fields
<1>3. t = [k \in DOMAIN es |-> t[k]] /\ \A k \in DOMAIN es : t[k].name = es[k].name
  BY DEF Declares
<1>4. /\ w = [k \in DOMAIN e.fields |-> w[k]]
      /\ \A k \in DOMAIN e.fields : /\ w[k].name = e.fields[k].name /\ w[k].nullable = e.fields[k].nullable
                                    /\ w[k].optional = (~ e.fields[k].required)
  BY <1>2 DEF Declares
<1> HIDE DEF es
<1>5. Same(t, es[r].name) = t[r]
  BY <1>1, <1>3, MappedPart
<1>6. FieldsOf(t, e) = Same(t, e.name).fields
  BY DEF FieldsOf, Same
<1> HIDE DEF w
<1>7. FieldsOf(t, e) = w
  BY <1>2, <1>5, <1>6 DEF w
<1>8. Same(w, e.fields[i].name) = w[i]
  <2> DEFINE s == e.fields
  <2>1. s \in Seq(IrFields) /\ i \in DOMAIN s /\ \A k, l \in DOMAIN s : s[k].name = s[l].name => k = l
    BY <1>1
  <2>2. w = [k \in DOMAIN s |-> w[k]] /\ \A k \in DOMAIN s : w[k].name = s[k].name
    BY <1>4
  <2> HIDE DEF s
  <2>3. Same(w, s[i].name) = w[i]
    BY <2>1, <2>2, MappedPart
  <2> QED BY <2>3 DEF s
<1> QED BY <1>4, <1>7, <1>8

LEMMA TypesDeclare ==
    ASSUME NEW ir
    PROVE  /\ Declares(ir.entities, emitTypeScript(ir)) /\ Declares(ir.entities, emitRust(ir))
           /\ Declares(ir.entities, emitDart(ir))
<1> DEFINE es == ir.entities
<1>1. Declares(es, emitTypeScript(ir))
  BY DEF Declares, emitTypeScript, TypesOf, Map, Declared
<1>2. Declares(es, emitRust(ir))
  BY DEF Declares, emitRust, TypesOf, Map, Declared
<1>3. Declares(es, emitDart(ir))
  BY DEF Declares, emitDart, TypesOf, Map, Declared
<1> QED BY <1>1, <1>2, <1>3
\* The JSON Schema, the CUE definition and the types of one field.
LEMMA FieldDescribed ==
    ASSUME NEW ir, EntitiesSound(ir.entities), NEW e \in ToSet(ir.entities), NEW i \in DOMAIN e.fields
    PROVE  LET f == e.fields[i]
               json == Same(Map(emitEntitySchema, ir.entities), e.name)
               cue == Same(emitCue(ir), e.name)
           IN  /\ Same(json.properties, f.name) = fieldSchema(f) /\ (f.name \in json.required) = f.required
               /\ Same(cue.fields, f.name) = fieldSchema(f) /\ (f.name \in cue.optional) = (~ f.required)
               /\ \A t \in {emitTypeScript(ir), emitRust(ir), emitDart(ir)} :
                     LET y == Same(FieldsOf(t, e), f.name)
                     IN  y.nullable = f.nullable /\ y.optional = (~ f.required)
<1> DEFINE es == ir.entities
           s == e.fields
           f == s[i]
           J == Map(emitEntitySchema, es)
           C == emitCue(ir)
           P == [k \in DOMAIN s |-> fieldSchema(s[k])]
<1>1. /\ es \in Seq(IrEntities) /\ \A k, l \in DOMAIN es : es[k].name = es[l].name => k = l
      /\ s \in Seq(IrFields) /\ \A k, l \in DOMAIN s : s[k].name = s[l].name => k = l
  BY SoundLists
<1>2. PICK r \in DOMAIN es : e = es[r]
  BY DEF ToSet
<1>3. J = [k \in DOMAIN es |-> J[k]] /\ \A k \in DOMAIN es : J[k] = emitEntitySchema(es[k])
  BY DEF Map
<1>4. \A k \in DOMAIN es : J[k].name = es[k].name
  <2>1. \A x : emitEntitySchema(x).name = x.name
    BY DEF emitEntitySchema
  <2> HIDE DEF es, J
  <2> QED BY <1>3, <2>1
<1>5. C = [k \in DOMAIN es |-> C[k]] /\ \A k \in DOMAIN es : C[k].name = es[k].name
  BY DEF emitCue, Map
<1>6. J[r].properties = P /\ J[r].required = {g.name : g \in {h \in ToSet(s) : h.required}}
  <2>1. emitEntitySchema(e).properties = P
    BY DEF emitEntitySchema, Map
  <2>2. emitEntitySchema(e).required = {g.name : g \in {h \in ToSet(s) : h.required}}
    BY DEF emitEntitySchema
  <2> HIDE DEF P, s, es, J
  <2>3. J[r] = emitEntitySchema(e)
    BY <1>2, <1>3
  <2> QED BY <2>1, <2>2, <2>3
<1>7. C[r].fields = P /\ C[r].optional = {g.name : g \in {h \in ToSet(s) : ~ h.required}}
  BY <1>2 DEF emitCue, Map
<1> HIDE DEF es, J, C
<1>8. Same(J, e.name) = J[r] /\ Same(C, e.name) = C[r]
  <2>1. Same(J, es[r].name) = J[r]
    BY <1>1, <1>3, <1>4, MappedPart
  <2>2. Same(C, es[r].name) = C[r]
    BY <1>1, <1>5, MappedPart
  <2> QED BY <1>2, <2>1, <2>2
<1>9. Same(P, f.name) = fieldSchema(f)
  <2>1. P = [k \in DOMAIN s |-> P[k]] /\ \A k \in DOMAIN s : P[k].name = s[k].name
    BY DEF fieldSchema
  <2>2. P[i] = fieldSchema(f) /\ i \in DOMAIN s
    OBVIOUS
  <2> HIDE DEF s, P
  <2>3. s \in Seq(IrFields) /\ \A k, l \in DOMAIN s : s[k].name = s[l].name => k = l
    BY <1>1
  <2>4. Same(P, s[i].name) = P[i]
    BY <2>1, <2>2, <2>3, MappedPart
  <2> QED BY <2>2, <2>4 DEF P, s
<1>10. \A x \in ToSet(s) : x.name = f.name => x = f
  BY <1>1 DEF ToSet
<1>11. f \in ToSet(s) /\ f.required \in BOOLEAN
  <2>1. f \in ToSet(s) /\ f \in IrFields
    BY <1>1 DEF ToSet
  <2> HIDE DEF f, s
  <2> QED BY <2>1 DEF IrFields
<1>12. /\ (f.name \in J[r].required) = f.required
       /\ (f.name \in C[r].optional) = (~ f.required)
  <2> HIDE DEF f, s
  <2>1. f.name \in J[r].required <=> f.required
    BY <1>6, <1>10, <1>11
  <2>2. f.name \in C[r].optional <=> ~ f.required
    BY <1>7, <1>10, <1>11
  <2> QED BY <1>11, <2>1, <2>2
<1>13. \A t \in {emitTypeScript(ir), emitRust(ir), emitDart(ir)} :
          LET y == Same(FieldsOf(t, e), f.name)
          IN  y.nullable = f.nullable /\ y.optional = (~ f.required)
  <2>1. \A t \in {emitTypeScript(ir), emitRust(ir), emitDart(ir)} : Declares(ir.entities, t)
    BY TypesDeclare
  <2> QED BY <2>1, DeclaredType
<1> QED BY <1>6, <1>7, <1>8, <1>9, <1>12, <1>13 DEF J, C, es
\* What each description says of a field once the statements of an accepted document have run.
LEMMA AppliedField ==
    ASSUME IrInv, irPhase = "applied", NEW e \in ToSet(irDoc.entities), NEW f \in ToSet(e.fields)
    PROVE  LET json == Same(irResult.jsonSchemas, e.name)
               cue == Same(irResult.cue, e.name)
               c == ColumnOf(TableOf(irDb, irDoc.schema, e.table), f.column)
           IN  /\ FieldSound(f) /\ (f.name \in ToSet(e.primaryKey) => ~ f.nullable /\ f.required)
               /\ c.nullable = f.nullable /\ c.minLength = f.minLength /\ c.maxLength = f.maxLength
               /\ c.minimum = f.minimum /\ c.maximum = f.maximum
               /\ Same(json.properties, f.name) = fieldSchema(f) /\ (f.name \in json.required) = f.required
               /\ Same(cue.fields, f.name) = fieldSchema(f) /\ (f.name \in cue.optional) = (~ f.required)
               /\ \A t \in {irResult.typescript, irResult.rust, irResult.dart} :
                     LET y == Same(FieldsOf(t, e), f.name)
                     IN  y.nullable = f.nullable /\ y.optional = (~ f.required)
<1> DEFINE d == irDoc
           c == compileSchemaIr(d)
           ir == normalizeSchemaIr(d)
           E == emitSql(ir)
           x == entity(e)
           t == TableOf(irDb, d.schema, e.table)
<1>1. /\ d \in IrDocuments /\ irResult = c /\ irResult.ok /\ irStep = Len(irResult.sql) + 1
      /\ IrDatabaseSound(irResult.ir, irResult.sql, irStep, irDb)
  BY DEF IrInv
<1>2. /\ normalizeFailures(d) = <<>> /\ ~ RelationCollision(ir)
      /\ irResult.ir = ir /\ irResult.sql = E /\ irResult.cue = emitCue(ir)
      /\ irResult.typescript = emitTypeScript(ir) /\ irResult.rust = emitRust(ir) /\ irResult.dart = emitDart(ir)
      /\ irResult.jsonSchemas = Map(emitEntitySchema, ir.entities)
  <2> HIDE DEF c, ir, E
  <2> QED BY <1>1, IrVerdict DEF c, ir, E
<1>3. EntitiesSound(ir.entities) /\ ir.schema = d.schema /\ ToSet(ir.entities) = {entity(y) : y \in ToSet(d.entities)}
  BY <1>1, <1>2, IrAccepted
<1>4. x \in ToSet(ir.entities)
  BY <1>3
<1>5. x.table = e.table /\ x.name = e.name /\ x.primaryKey = e.primaryKey /\ ToSet(x.fields) = ToSet(e.fields)
  <2>1. PICK k \in DOMAIN d.entities : e = d.entities[k]
    BY DEF ToSet
  <2>2. EntitySound(e, DELETE_ACTIONS \cup {Absent})
    BY <1>1, <1>2, <2>1, AcceptedEntities
  <2> QED BY <2>2, EntityNormal
<1>6. EntitySound(x, DELETE_ACTIONS)
  BY <1>3, <1>4, EntityIn
<1> HIDE DEF x
<1>7. PICK i \in DOMAIN x.fields : f = x.fields[i]
  BY <1>5 DEF ToSet
<1>8. FieldSound(f) /\ (f.name \in ToSet(e.primaryKey) => ~ f.nullable /\ f.required)
  BY <1>5, <1>6, <1>7 DEF EntitySound
<1>9. t.columns = RowColumns(EntityTable(ir, x))
  <2>1. IrOrderly(ir, E)
    BY <1>2, <1>3, IrOrderlyHolds
  <2> HIDE DEF c, ir, E, t, d
  <2>2. PICK l \in DOMAIN E : E[l] = EntityTable(ir, x)
    BY <1>4, <2>1 DEF IrOrderly
  <2>3. E[l].op = "table" /\ E[l].table = x.table
    BY <2>2 DEF EntityTable, CreateTable
  <2>4. Len(E) \in Nat /\ DOMAIN E = 1..Len(E)
    BY <2>1 DEF IrOrderly
  <2>5. EntitiesMade(ir, E, irStep, irDb)
    BY <1>1, <1>2 DEF IrDatabaseSound
  <2>6. l < irStep
    BY <1>1, <1>2, <2>2, <2>4
  <2>7. HasTable(irDb, ir.schema, x.table)
    BY <2>3, <2>5, <2>6 DEF EntitiesMade
  <2>8. TableOf(irDb, ir.schema, x.table).columns = RowColumns(EntityTable(ir, x))
    BY <1>3, <1>4, <2>5, <2>7, IrTableFound
  <2> QED BY <1>3, <1>5, <2>8 DEF t
<1> HIDE DEF t
<1>10. LET y == ColumnOf(t, f.column)
       IN  /\ y.minLength = f.minLength /\ y.maxLength = f.maxLength /\ y.minimum = f.minimum
           /\ y.maximum = f.maximum /\ y.nullable = (f.nullable /\ f.name \notin ToSet(x.primaryKey))
  BY <1>6, <1>7, <1>9, EntityColumn
<1>11. f.nullable \in BOOLEAN
  BY <1>8 DEF FieldSound, IrFields
<1>12. (f.nullable /\ f.name \notin ToSet(x.primaryKey)) = f.nullable
  BY <1>5, <1>8, <1>11
<1> DEFINE Described(u) ==
             LET json == Same(Map(emitEntitySchema, ir.entities), u)
                 cue == Same(emitCue(ir), u)
             IN  /\ Same(json.properties, f.name) = fieldSchema(f) /\ (f.name \in json.required) = f.required
                 /\ Same(cue.fields, f.name) = fieldSchema(f) /\ (f.name \in cue.optional) = (~ f.required)
<1>13. /\ Described(x.name)
       /\ \A y \in {emitTypeScript(ir), emitRust(ir), emitDart(ir)} :
             LET z == Same(FieldsOf(y, x), f.name)
             IN  z.nullable = f.nullable /\ z.optional = (~ f.required)
  <2> HIDE DEF ir
  <2> QED BY <1>3, <1>4, <1>7, FieldDescribed
<1>14. Described(e.name)
  <2> HIDE DEF Described
  <2> QED BY <1>5, <1>13
<1>15. \A y : FieldsOf(y, e) = FieldsOf(y, x)
  BY <1>5 DEF FieldsOf
<1>16. \A y \in {emitTypeScript(ir), emitRust(ir), emitDart(ir)} :
          LET z == Same(FieldsOf(y, e), f.name)
          IN  z.nullable = f.nullable /\ z.optional = (~ f.required)
  <2> HIDE DEF ir
  <2> QED BY <1>13, <1>15
<1> HIDE DEF c, ir, E
<1>17. \A y \in {irResult.typescript, irResult.rust, irResult.dart} :
          LET z == Same(FieldsOf(y, e), f.name)
          IN  z.nullable = f.nullable /\ z.optional = (~ f.required)
  BY <1>2, <1>16
<1>18. LET y == ColumnOf(t, f.column)
       IN  /\ y.nullable = f.nullable /\ y.minLength = f.minLength /\ y.maxLength = f.maxLength
           /\ y.minimum = f.minimum /\ y.maximum = f.maximum
  BY <1>10, <1>12
<1> QED BY <1>2, <1>8, <1>14, <1>17, <1>18 DEF t
LEMMA AppliedShapes ==
    ASSUME IrInv
    PROVE  ShapesAgree
<1> SUFFICES ASSUME irPhase = "applied", NEW e \in ToSet(irDoc.entities), NEW f \in ToSet(e.fields)
             PROVE  LET json == Same(irResult.jsonSchemas, e.name)
                        cue == Same(irResult.cue, e.name)
                        types == {Same(FieldsOf(t, e), f.name) :
                                     t \in {irResult.typescript, irResult.rust, irResult.dart}}
                        column == ColumnOf(TableOf(irDb, irDoc.schema, e.table), f.column)
                        null == Same(json.properties, f.name).nullable
                        optional == f.name \notin json.required
                    IN  /\ column.nullable = null
                        /\ Same(cue.fields, f.name).nullable = null
                        /\ (f.name \in cue.optional) = optional
                        /\ \A t \in types : t.nullable = null /\ t.optional = optional
                        /\ f.name \in ToSet(e.primaryKey) => ~null /\ ~optional
  BY DEF ShapesAgree
<1> DEFINE json == Same(irResult.jsonSchemas, e.name)
           cue == Same(irResult.cue, e.name)
           types == {Same(FieldsOf(t, e), f.name) : t \in {irResult.typescript, irResult.rust, irResult.dart}}
           column == ColumnOf(TableOf(irDb, irDoc.schema, e.table), f.column)
<1>1. /\ f.name \in ToSet(e.primaryKey) => ~ f.nullable /\ f.required
      /\ column.nullable = f.nullable /\ FieldSound(f)
      /\ Same(json.properties, f.name) = fieldSchema(f) /\ (f.name \in json.required) = f.required
      /\ Same(cue.fields, f.name) = fieldSchema(f) /\ (f.name \in cue.optional) = (~ f.required)
  BY AppliedField
<1>2. \A t \in {irResult.typescript, irResult.rust, irResult.dart} :
         LET y == Same(FieldsOf(t, e), f.name)
         IN  y.nullable = f.nullable /\ y.optional = (~ f.required)
  BY AppliedField
<1>3. \A y \in types : y.nullable = f.nullable /\ y.optional = (~ f.required)
  BY <1>2
<1>4. fieldSchema(f).nullable = f.nullable
  BY DEF fieldSchema
<1>5. f.required \in BOOLEAN
  BY <1>1 DEF FieldSound, IrFields
<1> HIDE DEF json, cue, types, column
<1>6. (f.name \notin json.required) = (~ f.required)
  BY <1>1
<1>7. /\ column.nullable = Same(json.properties, f.name).nullable
      /\ Same(cue.fields, f.name).nullable = Same(json.properties, f.name).nullable
  BY <1>1, <1>4
<1>8. /\ (f.name \in cue.optional) = (f.name \notin json.required)
      /\ \A y \in types : /\ y.nullable = Same(json.properties, f.name).nullable
                          /\ y.optional = (f.name \notin json.required)
  BY <1>1, <1>3, <1>4, <1>6
<1>9. f.name \in ToSet(e.primaryKey) => ~ Same(json.properties, f.name).nullable /\ ~ (f.name \notin json.required)
  BY <1>1, <1>4, <1>6
<1> QED BY <1>7, <1>8, <1>9 DEF json, cue, types, column

LEMMA AppliedRanges ==
    ASSUME IrInv
    PROVE  RangesAgree
<1> SUFFICES ASSUME irPhase = "applied", NEW e \in ToSet(irDoc.entities), NEW f \in ToSet(e.fields)
             PROVE  LET json == Same(Same(irResult.jsonSchemas, e.name).properties, f.name)
                        column == ColumnOf(TableOf(irDb, irDoc.schema, e.table), f.column)
                        stored == {v \in MinInt..MaxInt :
                                     /\ v >= Or(column.minimum, MinInt)
                                     /\ v <= Or(column.maximum, MaxInt)}
                    IN  /\ f.type = "int32" =>
                             /\ stored # {}
                             /\ stored = json.range.min..json.range.max
                        /\ f.type = "string" =>
                             /\ json.lengths = [min |-> column.minLength, max |-> column.maxLength]
                             /\ Or(column.minLength, 0) <= Or(column.maxLength, MaxTextLength)
  BY DEF RangesAgree
<1> DEFINE json == Same(Same(irResult.jsonSchemas, e.name).properties, f.name)
           column == ColumnOf(TableOf(irDb, irDoc.schema, e.table), f.column)
           lo == Or(f.minimum, MinInt)
           hi == Or(f.maximum, MaxInt)
           stored == {v \in MinInt..MaxInt : v >= lo /\ v <= hi}
<1>1. /\ FieldSound(f) /\ json = fieldSchema(f)
      /\ column.minLength = f.minLength /\ column.maxLength = f.maxLength
      /\ column.minimum = f.minimum /\ column.maximum = f.maximum
  BY AppliedField
<1> HIDE DEF json, column
<1>2. /\ f.minLength \in Int /\ f.maxLength \in Int /\ f.minimum \in Int /\ f.maximum \in Int
      /\ MinInt \in Int /\ MaxInt \in Int /\ MaxTextLength \in Int
  BY <1>1, IrAuthorAssumption DEF FieldSound, IrFields
<1>3. /\ Or(f.minLength, 0) \in Int /\ Or(f.maxLength, MaxTextLength) \in Int
      /\ lo \in Int /\ hi \in Int
  BY <1>2 DEF Or
<1>4. Or(f.minLength, 0) <= Or(f.maxLength, MaxTextLength) /\ lo <= hi
  <2> HIDE DEF lo, hi
  <2>1. ~ (Or(f.minLength, 0) > Or(f.maxLength, MaxTextLength)) /\ ~ (lo > hi)
    BY <1>1 DEF FieldSound, EmptyRange, lo, hi
  <2> QED BY <1>3, <2>1
<1>5. CASE f.type = "int32"
  <2>1. json.range = [min |-> lo, max |-> hi]
    BY <1>1, <1>5 DEF fieldSchema, Range32
  <2>2. /\ f.minimum = NoBound \/ (MinInt <= f.minimum /\ f.minimum <= MaxInt)
        /\ f.maximum = NoBound \/ (MinInt <= f.maximum /\ f.maximum <= MaxInt)
    BY <1>1 DEF FieldSound, BoundSound
  <2>3. MinInt <= lo /\ hi <= MaxInt
    BY <1>2, <2>2 DEF Or
  <2> HIDE DEF lo, hi
  <2>4. lo \in stored /\ stored = lo..hi
    BY <1>2, <1>3, <1>4, <2>3
  <2>5. json.range.min = lo /\ json.range.max = hi
    BY <2>1
  <2>6. stored # {} /\ stored = json.range.min..json.range.max
    BY <2>4, <2>5
  <2> QED BY <1>1, <1>5, <2>6 DEF json, column, lo, hi
<1>6. CASE f.type = "string"
  <2>1. json.lengths = [min |-> f.minLength, max |-> f.maxLength]
    BY <1>1 DEF fieldSchema, Lengths
  <2> QED BY <1>1, <1>4, <1>6, <2>1 DEF json, column
<1> QED BY <1>5, <1>6 DEF json, column

LEMMA CompiledFiles ==
    ASSUME IrInv
    PROVE  FilesDistinct
<1> SUFFICES ASSUME irResult.ok
             PROVE  Cardinality({Lower(s.name) : s \in ToSet(irResult.jsonSchemas)}) = Len(irDoc.entities)
  BY DEF FilesDistinct
<1> DEFINE d == irDoc
           c == compileSchemaIr(d)
           ir == normalizeSchemaIr(d)
           es == ir.entities
           given == d.entities
           files == {Lower(s.name) : s \in ToSet(irResult.jsonSchemas)}
           h == [i \in DOMAIN given |-> Lower(given[i].name)]
<1>1. d \in IrDocuments /\ irResult = c
  <2>1. irPhase # "editing"
    BY DEF IrInv, NotCompiled
  <2> QED BY <2>1 DEF IrInv
<1>2. normalizeFailures(d) = <<>> /\ irResult.jsonSchemas = Map(emitEntitySchema, es)
  <2> HIDE DEF c
  <2> QED BY <1>1, IrVerdict DEF c
<1>3. ToSet(es) = {entity(e) : e \in ToSet(given)}
  BY <1>1, <1>2, IrAccepted
<1>4. /\ given \in Seq(IrEntities)
      /\ \A i \in DOMAIN given : EntitySound(given[i], DELETE_ACTIONS \cup {Absent})
      /\ \A i, j \in DOMAIN given : Lower(given[i].name) = Lower(given[j].name) => i = j
  BY <1>1, <1>2, AcceptedEntities
<1>5. ToSet(given) = {given[i] : i \in DOMAIN given}
  BY DEF ToSet
<1>6. \A i \in DOMAIN given : entity(given[i]).name = given[i].name
  BY <1>4, EntityNormal
<1>7. \A x : emitEntitySchema(x).name = x.name
  BY DEF emitEntitySchema
<1>8. ToSet(irResult.jsonSchemas) = {emitEntitySchema(x) : x \in ToSet(es)}
  <2> DEFINE J == Map(emitEntitySchema, es)
  <2>1. DOMAIN J = DOMAIN es /\ \A i \in DOMAIN es : J[i] = emitEntitySchema(es[i])
    BY DEF Map
  <2> HIDE DEF J, es
  <2>2. ToSet(J) = {emitEntitySchema(x) : x \in ToSet(es)}
    BY <2>1 DEF ToSet
  <2> QED BY <1>2, <2>2 DEF J
<1> HIDE DEF es, given
<1>9. files = {Lower(given[i].name) : i \in DOMAIN given}
  <2>1. ToSet(es) = {entity(given[i]) : i \in DOMAIN given}
    BY <1>3, <1>5
  <2>2. ToSet(irResult.jsonSchemas) = {emitEntitySchema(entity(given[i])) : i \in DOMAIN given}
    BY <1>8, <2>1
  <2> DEFINE file(i) == emitEntitySchema(entity(given[i]))
  <2>3. \A i \in DOMAIN given : Lower(file(i).name) = Lower(given[i].name)
    BY <1>6, <1>7
  <2> HIDE DEF file
  <2>4. files = {Lower(file(i).name) : i \in DOMAIN given}
    BY <2>2 DEF file
  <2> QED BY <2>3, <2>4
<1>10. h \in Bijection(DOMAIN given, files)
  <2>1. h \in [DOMAIN given -> files] /\ \A i, j \in DOMAIN given : h[i] = h[j] => i = j
    BY <1>4, <1>9
  <2>2. \A y \in files : \E i \in DOMAIN given : h[i] = y
    BY <1>9
  <2> HIDE DEF h, files
  <2> QED BY <2>1, <2>2 DEF Bijection, Injection, Surjection, IsInjective
<1>11. IsFiniteSet(DOMAIN given) /\ Cardinality(DOMAIN given) = Len(given)
  <2> DEFINE n == Len(given)
  <2>1. n \in Nat /\ DOMAIN given = 1..n
    BY <1>4
  <2> HIDE DEF n
  <2>2. IsFiniteSet(1..n) /\ Cardinality(1..n) = IF 1 > n THEN 0 ELSE n - 1 + 1
    BY <2>1, FS_Interval
  <2>3. Cardinality(1..n) = n
    BY <2>1, <2>2
  <2> QED BY <2>1, <2>2, <2>3 DEF n
<1>12. ExistsBijection(DOMAIN given, files)
  BY <1>10 DEF ExistsBijection
<1>13. Cardinality(files) = Len(given)
  <2> HIDE DEF files
  <2> QED BY <1>11, <1>12, FS_Bijection
<1> QED BY <1>13 DEF given
-----------------------------------------------------------------------------
(* What is reported does not depend on where: the conditions themselves.   *)

NameClear(x, reserved) == IsName(x) /\ x \notin reserved

ListClear(s, min, max) == ~ (Len(s) < min \/ Len(s) > max)

BoundClear(f, bound, type, min, max) ==
    bound = NoBound \/ (f.type = type /\ ~ (bound < min \/ bound > max))

FieldClear(f) ==
    /\ f.shape = "ok" /\ NameClear(f.name, ReservedFields) /\ NameClear(f.column, SystemColumns)
    /\ f.type \in TYPES /\ ~ EmptyRange(f)
    /\ BoundClear(f, f.minLength, "string", 0, MaxTextLength)
    /\ BoundClear(f, f.maxLength, "string", 0, MaxTextLength)
    /\ BoundClear(f, f.minimum, "int32", MinInt, MaxInt)
    /\ BoundClear(f, f.maximum, "int32", MinInt, MaxInt)

KeyClear(known, key) == ListClear(key, 1, MaxTuple) /\ ToSet(key) \subseteq known /\ ~ Repeats(key)

LEMMA FailClear ==
    ASSUME NEW c \in BOOLEAN, NEW code, NEW at
    PROVE  fail(c, code, at) = <<>> <=> ~ c
BY DEF fail

LEMMA NameMoves ==
    ASSUME NEW x, NEW reserved, NEW at
    PROVE  identifier(x, reserved, at) = <<>> <=> NameClear(x, reserved)
<1> DEFINE wrong == ~ IsName(x) \/ x \in reserved
<1>1. wrong \in BOOLEAN /\ (~ wrong <=> NameClear(x, reserved))
  BY DEF NameClear
<1>2. identifier(x, reserved, at) = fail(wrong, "INVALID_IDENTIFIER", at)
  BY DEF identifier
<1> HIDE DEF wrong
<1> QED BY <1>1, <1>2, FailClear

LEMMA LengthMoves ==
    ASSUME NEW s, NEW min, NEW max, NEW at
    PROVE  list(s, min, max, at) = <<>> <=> ListClear(s, min, max)
<1> DEFINE wrong == Len(s) < min \/ Len(s) > max
<1>1. wrong \in BOOLEAN /\ (~ wrong <=> ListClear(s, min, max))
  BY DEF ListClear
<1>2. list(s, min, max, at) = fail(wrong, "INVALID_ARRAY", at)
  BY DEF list
<1> HIDE DEF wrong
<1> QED BY <1>1, <1>2, FailClear

LEMMA BoundMoves ==
    ASSUME NEW f \in IrFields, NEW bound \in Int, NEW type, NEW min \in Int, NEW max \in Int, NEW at \in Seq(Int)
    PROVE  optionalBound(f, bound, type, min, max, at) = <<>> <=> BoundClear(f, bound, type, min, max)
<1> DEFINE untyped == f.type # type
           outside == bound < min \/ bound > max
           a == fail(untyped, "INVALID_CONSTRAINT", at)
           b == fail(outside, "INVALID_RANGE", at)
<1>1. optionalBound(f, bound, type, min, max, at) = IF bound = NoBound THEN <<>> ELSE a \o b
  BY DEF optionalBound
<1>2. /\ untyped \in BOOLEAN /\ outside \in BOOLEAN
      /\ BoundClear(f, bound, type, min, max) <=> bound = NoBound \/ (~ untyped /\ ~ outside)
  BY DEF BoundClear
<1> HIDE DEF untyped, outside
<1>3. a \in IrReports /\ b \in IrReports /\ (a = <<>> <=> ~ untyped) /\ (b = <<>> <=> ~ outside)
  BY <1>2, FailReport DEF IrCodes
<1> HIDE DEF a, b
<1> QED BY <1>1, <1>2, <1>3, IrSilent

LEMMA FiveSilent ==
    ASSUME NEW a \in IrReports, NEW b \in IrReports, NEW c \in IrReports, NEW d \in IrReports,
           NEW e \in IrReports
    PROVE  /\ a \o b \o c \o d \o e \in IrReports
           /\ a \o b \o c \o d \o e = <<>> <=> a = <<>> /\ b = <<>> /\ c = <<>> /\ d = <<>> /\ e = <<>>
<1> DEFINE x == a \o b \o c
<1>1. \A s, t \in IrReports : s \o t \in IrReports /\ (s \o t = <<>> <=> s = <<>> /\ t = <<>>)
  BY IrSilent
<1>2. x \in IrReports /\ (x = <<>> <=> a = <<>> /\ b = <<>> /\ c = <<>>)
  BY <1>1
<1> HIDE DEF x
<1>3. x \o d \o e \in IrReports /\ (x \o d \o e = <<>> <=> x = <<>> /\ d = <<>> /\ e = <<>>)
  BY <1>1, <1>2
<1> QED BY <1>2, <1>3 DEF x

LEMMA SilentLists ==
    ASSUME NEW S, NEW s \in Seq(S), NEW f, f = [i \in DOMAIN s |-> f[i]],
           \A i \in DOMAIN s : f[i] \in IrReports
    PROVE  /\ FlattenSeq(f) \in IrReports
           /\ FlattenSeq(f) = <<>> <=> \A i \in DOMAIN s : f[i] = <<>>
<1>1. f \in Seq(IrReports) /\ DOMAIN f = DOMAIN s
  BY MappedLists
<1> DEFINE T == [code : IrCodes, at : Seq(Int)]
           w == FlattenSeq(f)
<1>2. f \in Seq(Seq(T))
  BY <1>1 DEF IrReports
<1> HIDE DEF T, w
<1>3. w \in Seq(T) /\ \A k \in DOMAIN w : \E i \in DOMAIN f : \E a \in DOMAIN f[i] : w[k] = f[i][a]
  BY <1>2, FlattenItems DEF w
<1>4. w = <<>> => \A i \in DOMAIN s : f[i] = <<>>
  BY <1>1, <1>2, FlattenEmpty DEF w
<1>5. ASSUME \A i \in DOMAIN s : f[i] = <<>> PROVE w = <<>>
  <2>1. \A i \in DOMAIN f : DOMAIN f[i] = {}
    BY <1>1, <1>5
  <2>2. DOMAIN w = {}
    BY <1>3, <2>1
  <2> QED BY <1>3, <2>2
<1>6. w \in IrReports
  BY <1>3 DEF IrReports, T
<1> QED BY <1>4, <1>5, <1>6 DEF w

LEMMA FieldMoves ==
    ASSUME NEW f \in IrFields, NEW at \in Seq(Int)
    PROVE  field(f, at) = <<>> <=> FieldClear(f)
<1> DEFINE shaped == f.shape \in {"ok", "PRESENCE"}
           untyped == f.type \notin TYPES
           half == f.shape = "PRESENCE"
           empty == EmptyRange(f)
           a0 == fail(TRUE, f.shape, at)
           a1 == identifier(f.name, ReservedFields, at)
           a2 == identifier(f.column, SystemColumns, at)
           a3 == fail(untyped, "UNSUPPORTED_TYPE", at)
           a4 == fail(half, "INVALID_TYPE", at)
           a5 == optionalBound(f, f.minLength, "string", 0, MaxTextLength, at)
           a6 == optionalBound(f, f.maxLength, "string", 0, MaxTextLength, at)
           a7 == optionalBound(f, f.minimum, "int32", MinInt, MaxInt, at)
           a8 == optionalBound(f, f.maximum, "int32", MinInt, MaxInt, at)
           a9 == fail(empty, "INVALID_RANGE", at)
           b5 == a1 \o a2 \o a3 \o a4 \o a5
           b9 == b5 \o a6 \o a7 \o a8 \o a9
<1>1. field(f, at) = IF ~ shaped THEN a0 ELSE b9
  BY DEF field
<1>2. /\ f.minLength \in Int /\ f.maxLength \in Int /\ f.minimum \in Int /\ f.maximum \in Int
      /\ MinInt \in Int /\ MaxInt \in Int /\ MaxTextLength \in Int /\ 0 \in Int
  BY IrAuthorAssumption DEF IrFields
<1>3. a0 # <<>>
  BY DEF fail
<1>4. /\ a1 \in IrReports /\ a2 \in IrReports
      /\ a1 = <<>> <=> NameClear(f.name, ReservedFields)
      /\ a2 = <<>> <=> NameClear(f.column, SystemColumns)
  BY IdentifierReport, NameMoves
<1>5. /\ untyped \in BOOLEAN /\ half \in BOOLEAN /\ empty \in BOOLEAN
      /\ shaped /\ ~ half <=> f.shape = "ok"
      /\ ~ untyped <=> f.type \in TYPES
      /\ ~ empty <=> ~ EmptyRange(f)
  BY DEF EmptyRange
<1>6. a5 \in IrReports /\ (a5 = <<>> <=> BoundClear(f, f.minLength, "string", 0, MaxTextLength))
  BY <1>2, BoundReport, BoundMoves
<1>7. a6 \in IrReports /\ (a6 = <<>> <=> BoundClear(f, f.maxLength, "string", 0, MaxTextLength))
  BY <1>2, BoundReport, BoundMoves
<1>8. a7 \in IrReports /\ (a7 = <<>> <=> BoundClear(f, f.minimum, "int32", MinInt, MaxInt))
  BY <1>2, BoundReport, BoundMoves
<1>9. a8 \in IrReports /\ (a8 = <<>> <=> BoundClear(f, f.maximum, "int32", MinInt, MaxInt))
  BY <1>2, BoundReport, BoundMoves
<1> HIDE DEF untyped, half, empty
<1>10. /\ a3 \in IrReports /\ (a3 = <<>> <=> ~ untyped) /\ a4 \in IrReports /\ (a4 = <<>> <=> ~ half)
       /\ a9 \in IrReports /\ (a9 = <<>> <=> ~ empty)
  BY <1>5, FailReport DEF IrCodes, IrShapes
<1> HIDE DEF shaped, a0, a1, a2, a3, a4, a5, a6, a7, a8, a9
<1>11. b5 \in IrReports /\ (b5 = <<>> <=> a1 = <<>> /\ a2 = <<>> /\ a3 = <<>> /\ a4 = <<>> /\ a5 = <<>>)
  BY <1>4, <1>6, <1>10, FiveSilent
<1> HIDE DEF b5
<1>12. b9 = <<>> <=> b5 = <<>> /\ a6 = <<>> /\ a7 = <<>> /\ a8 = <<>> /\ a9 = <<>>
  BY <1>7, <1>8, <1>9, <1>10, <1>11, FiveSilent
<1> HIDE DEF b9
<1>13. field(f, at) = <<>> <=> shaped /\ b9 = <<>>
  BY <1>1, <1>3
<1> QED BY <1>4, <1>5, <1>6, <1>7, <1>8, <1>9, <1>10, <1>11, <1>12, <1>13 DEF FieldClear

LEMMA TupleMoves ==
    ASSUME NEW key \in Seq(Int), NEW known, NEW at \in Seq(Int)
    PROVE  tuple(key, known, at) = <<>> <=> KeyClear(known, key)
<1> DEFINE unknown == ~ (ToSet(key) \subseteq known)
           again == Repeats(key)
           a1 == list(key, 1, MaxTuple, at)
           a2 == fail(unknown, "INVALID_REFERENCE", at)
           a3 == fail(again, "DUPLICATE", at)
<1>1. tuple(key, known, at) = a1 \o a2 \o a3
  BY DEF tuple
<1>2. a1 \in IrReports /\ (a1 = <<>> <=> ListClear(key, 1, MaxTuple))
  BY ListReport, LengthMoves
<1>3. /\ unknown \in BOOLEAN /\ again \in BOOLEAN
      /\ KeyClear(known, key) <=> ListClear(key, 1, MaxTuple) /\ ~ unknown /\ ~ again
  BY DEF KeyClear, Repeats
<1> HIDE DEF unknown, again
<1>4. a2 \in IrReports /\ (a2 = <<>> <=> ~ unknown) /\ a3 \in IrReports /\ (a3 = <<>> <=> ~ again)
  BY <1>3, FailReport DEF IrCodes
<1> HIDE DEF a1, a2, a3
<1>5. \A s, t \in IrReports : s \o t \in IrReports /\ (s \o t = <<>> <=> s = <<>> /\ t = <<>>)
  BY IrSilent
<1>6. a1 \o a2 \o a3 = <<>> <=> a1 = <<>> /\ a2 = <<>> /\ a3 = <<>>
  BY <1>2, <1>4, <1>5
<1> QED BY <1>1, <1>2, <1>3, <1>4, <1>6

LEMMA TuplesMove ==
    ASSUME NEW keys \in Seq(Seq(Int)), NEW known, NEW at \in Seq(Int)
    PROVE  /\ Each(keys, LAMBDA k : tuple(k, known, at)) \in IrReports
           /\ Each(keys, LAMBDA k : tuple(k, known, at)) = <<>> <=> \A k \in DOMAIN keys : KeyClear(known, keys[k])
<1> DEFINE Shorts == Seq(Int)
           f == [k \in DOMAIN keys |-> tuple(keys[k], known, at)]
<1>1. Each(keys, LAMBDA k : tuple(k, known, at)) = FlattenSeq(f)
  BY DEF Each, Map
<1>2. keys \in Seq(Shorts)
  OBVIOUS
<1>3. \A key \in Shorts : tuple(key, known, at) \in IrReports /\ (tuple(key, known, at) = <<>> <=> KeyClear(known, key))
  BY TupleReport, TupleMoves
<1> HIDE DEF Shorts
<1>4. \A k \in DOMAIN keys : f[k] \in IrReports /\ (f[k] = <<>> <=> KeyClear(known, keys[k]))
  BY <1>2, <1>3
<1>5. f = [k \in DOMAIN keys |-> f[k]]
  OBVIOUS
<1> HIDE DEF f
<1>6. FlattenSeq(f) \in IrReports /\ (FlattenSeq(f) = <<>> <=> \A k \in DOMAIN keys : f[k] = <<>>)
  BY <1>2, <1>4, <1>5, SilentLists
<1> QED BY <1>1, <1>4, <1>6
ForeignClear(known, fk) ==
    /\ fk.shape = "ok" /\ fk.refShape = "ok" /\ NameClear(fk.entity, ReservedModels)
    /\ ListClear(fk.refFields, 1, MaxTuple)
    /\ \A k \in DOMAIN fk.refFields : NameClear(fk.refFields[k], ReservedFields)
    /\ ~ Repeats(fk.refFields) /\ fk.onDelete \in DELETE_ACTIONS \cup {Absent}
    /\ KeyClear(known, fk.fields) /\ Len(fk.fields) = Len(fk.refFields)

LEMMA ForeignMoves ==
    ASSUME NEW fk \in IrForeigns, NEW known, NEW at \in Seq(Int)
    PROVE  entityForeignKey(fk, known, at) = <<>> <=> ForeignClear(known, fk)
<1> DEFINE a1 == identifier(fk.entity, ReservedModels, at)
           a2 == list(fk.refFields, 1, MaxTuple, at)
           f3 == [k \in DOMAIN fk.refFields |-> identifier(fk.refFields[k], ReservedFields, at)]
           a3 == FlattenSeq(f3)
           again == Repeats(fk.refFields)
           a4 == fail(again, "DUPLICATE", at)
           other == fk.onDelete \notin DELETE_ACTIONS \cup {Absent}
           a5 == fail(other, "UNKNOWN_PROPERTY", at)
           a6 == tuple(fk.fields, known, at)
           apart == Len(fk.fields) # Len(fk.refFields)
           a7 == fail(apart, "INVALID_REFERENCE", at)
           clear3 == \A k \in DOMAIN fk.refFields : NameClear(fk.refFields[k], ReservedFields)
           b5 == a1 \o a2 \o a3 \o a4 \o a5
           b7 == b5 \o a6 \o a7
           shape1 == fail(TRUE, fk.shape, at)
           shape2 == fail(TRUE, fk.refShape, at)
<1>1. entityForeignKey(fk, known, at) =
        IF fk.shape # "ok" THEN shape1 ELSE IF fk.refShape # "ok" THEN shape2 ELSE b7
  BY DEF entityForeignKey, Each, Map
<1>2. fk.fields \in Seq(Int) /\ fk.refFields \in Seq(Int)
  BY DEF IrForeigns
<1>3. shape1 # <<>> /\ shape2 # <<>>
  BY DEF fail
<1>4. /\ a1 \in IrReports /\ (a1 = <<>> <=> NameClear(fk.entity, ReservedModels))
      /\ a2 \in IrReports /\ (a2 = <<>> <=> ListClear(fk.refFields, 1, MaxTuple))
  BY IdentifierReport, NameMoves, ListReport, LengthMoves
<1>5. a3 \in IrReports /\ (a3 = <<>> <=> clear3)
  <2>1. \A k \in DOMAIN fk.refFields :
           f3[k] \in IrReports /\ (f3[k] = <<>> <=> NameClear(fk.refFields[k], ReservedFields))
    BY IdentifierReport, NameMoves
  <2>2. f3 = [k \in DOMAIN fk.refFields |-> f3[k]]
    OBVIOUS
  <2> HIDE DEF f3
  <2>3. FlattenSeq(f3) \in IrReports /\ (FlattenSeq(f3) = <<>> <=> \A k \in DOMAIN fk.refFields : f3[k] = <<>>)
    BY <1>2, <2>1, <2>2, SilentLists
  <2> QED BY <2>1, <2>3
<1>6. /\ again \in BOOLEAN /\ other \in BOOLEAN /\ apart \in BOOLEAN
      /\ ForeignClear(known, fk) <=>
           /\ fk.shape = "ok" /\ fk.refShape = "ok" /\ NameClear(fk.entity, ReservedModels)
           /\ ListClear(fk.refFields, 1, MaxTuple) /\ clear3 /\ ~ again /\ ~ other
           /\ KeyClear(known, fk.fields) /\ ~ apart
  BY DEF ForeignClear, Repeats
<1> HIDE DEF again, other, apart, clear3
<1>7. /\ a4 \in IrReports /\ (a4 = <<>> <=> ~ again) /\ a5 \in IrReports /\ (a5 = <<>> <=> ~ other)
      /\ a7 \in IrReports /\ (a7 = <<>> <=> ~ apart)
  BY <1>6, FailReport DEF IrCodes, IrShapes
<1>8. a6 \in IrReports /\ (a6 = <<>> <=> KeyClear(known, fk.fields))
  BY <1>2, TupleReport, TupleMoves
<1> HIDE DEF a1, a2, a3, a4, a5, a6, a7, shape1, shape2
<1>9. b5 \in IrReports /\ (b5 = <<>> <=> a1 = <<>> /\ a2 = <<>> /\ a3 = <<>> /\ a4 = <<>> /\ a5 = <<>>)
  BY <1>4, <1>5, <1>7, FiveSilent
<1> HIDE DEF b5
<1>10. b7 = <<>> <=> b5 = <<>> /\ a6 = <<>> /\ a7 = <<>>
  <2>1. \A s, t \in IrReports : s \o t \in IrReports /\ (s \o t = <<>> <=> s = <<>> /\ t = <<>>)
    BY IrSilent
  <2> QED BY <1>7, <1>8, <1>9, <2>1
<1> HIDE DEF b7
<1>11. entityForeignKey(fk, known, at) = <<>> <=> fk.shape = "ok" /\ fk.refShape = "ok" /\ b7 = <<>>
  BY <1>1, <1>3
<1> QED BY <1>4, <1>5, <1>6, <1>7, <1>8, <1>9, <1>10, <1>11

\* The two halves of entity().
FieldsClear(e) ==
    /\ NameClear(e.name, ReservedModels) /\ NameClear(e.table, {}) /\ ListClear(e.fields, 1, MaxEntityFields)
    /\ \A k \in DOMAIN e.fields : FieldClear(e.fields[k])
    /\ ~ Repeats(Map(LAMBDA f : f.name, e.fields)) /\ ~ Repeats(Map(LAMBDA f : f.column, e.fields))
    /\ KeyClear(EntityFields(e), e.primaryKey)

KeysClear(e) ==
    /\ ~ InvalidPrimaryKey(e)
    /\ ListClear(e.uniqueKeys, 0, MaxEntityKeys) /\ \A k \in DOMAIN e.uniqueKeys : KeyClear(EntityFields(e), e.uniqueKeys[k])
    /\ ListClear(e.indexes, 0, MaxEntityKeys) /\ \A k \in DOMAIN e.indexes : KeyClear(EntityFields(e), e.indexes[k])
    /\ ~ Repeats(Map(ToSet, <<e.primaryKey>> \o e.uniqueKeys)) /\ ~ Repeats(e.indexes)
    /\ ListClear(e.foreignKeys, 0, MaxEntityKeys)
    /\ \A k \in DOMAIN e.foreignKeys : ForeignClear(EntityFields(e), e.foreignKeys[k])
    /\ ~ Repeats(Map(LAMBDA fk : <<fk.fields, fk.entity, fk.refFields>>, e.foreignKeys))

LEMMA RepeatsMoves ==
    ASSUME NEW s, NEW at
    PROVE  fail(Repeats(s), "DUPLICATE", at) = <<>> <=> ~ Repeats(s)
<1>1. Repeats(s) \in BOOLEAN
  BY DEF Repeats
<1> QED BY <1>1, FailClear

LEMMA FieldsMove ==
    ASSUME NEW e \in IrEntities, NEW at \in Seq(Int)
    PROVE  LET first == identifier(e.name, ReservedModels, at) \o identifier(e.table, {}, at)
                          \o list(e.fields, 1, MaxEntityFields, at)
                          \o Each(e.fields, LAMBDA f : field(f, at))
                          \o fail(Repeats(Map(LAMBDA f : f.name, e.fields)), "DUPLICATE", at)
                          \o fail(Repeats(Map(LAMBDA f : f.column, e.fields)), "DUPLICATE", at)
                          \o tuple(e.primaryKey, EntityFields(e), at)
           IN  first \in IrReports /\ (first = <<>> <=> FieldsClear(e))
<1> DEFINE names == Map(LAMBDA f : f.name, e.fields)
           cols == Map(LAMBDA f : f.column, e.fields)
           a1 == identifier(e.name, ReservedModels, at)
           a2 == identifier(e.table, {}, at)
           a3 == list(e.fields, 1, MaxEntityFields, at)
           f4 == [i \in DOMAIN e.fields |-> field(e.fields[i], at)]
           a4 == FlattenSeq(f4)
           a5 == fail(Repeats(names), "DUPLICATE", at)
           a6 == fail(Repeats(cols), "DUPLICATE", at)
           a7 == tuple(e.primaryKey, EntityFields(e), at)
           clear4 == \A k \in DOMAIN e.fields : FieldClear(e.fields[k])
           b5 == a1 \o a2 \o a3 \o a4 \o a5
           b7 == b5 \o a6 \o a7
<1>1. a4 = Each(e.fields, LAMBDA f : field(f, at))
  BY DEF Each, Map
<1>2. e.fields \in Seq(IrFields) /\ e.primaryKey \in Seq(Int)
  BY DEF IrEntities
<1>3. /\ a1 \in IrReports /\ (a1 = <<>> <=> NameClear(e.name, ReservedModels))
      /\ a2 \in IrReports /\ (a2 = <<>> <=> NameClear(e.table, {}))
      /\ a3 \in IrReports /\ (a3 = <<>> <=> ListClear(e.fields, 1, MaxEntityFields))
  BY IdentifierReport, NameMoves, ListReport, LengthMoves
<1>4. a4 \in IrReports /\ (a4 = <<>> <=> clear4)
  <2>1. \A i \in DOMAIN e.fields : e.fields[i] \in IrFields
    BY <1>2
  <2>2. \A i \in DOMAIN e.fields : f4[i] \in IrReports /\ (f4[i] = <<>> <=> FieldClear(e.fields[i]))
    BY <2>1, FieldReport, FieldMoves
  <2>3. f4 = [i \in DOMAIN e.fields |-> f4[i]]
    OBVIOUS
  <2> HIDE DEF f4
  <2>4. FlattenSeq(f4) \in IrReports /\ (FlattenSeq(f4) = <<>> <=> \A i \in DOMAIN e.fields : f4[i] = <<>>)
    BY <1>2, <2>2, <2>3, SilentLists
  <2> QED BY <2>2, <2>4
<1>5. FieldsClear(e) <=>
        /\ NameClear(e.name, ReservedModels) /\ NameClear(e.table, {}) /\ ListClear(e.fields, 1, MaxEntityFields)
        /\ clear4 /\ ~ Repeats(names) /\ ~ Repeats(cols) /\ KeyClear(EntityFields(e), e.primaryKey)
  BY DEF FieldsClear
<1> HIDE DEF names, cols, clear4
<1>6. /\ a5 \in IrReports /\ (a5 = <<>> <=> ~ Repeats(names))
      /\ a6 \in IrReports /\ (a6 = <<>> <=> ~ Repeats(cols))
  BY RepeatsReport, RepeatsMoves
<1>7. a7 \in IrReports /\ (a7 = <<>> <=> KeyClear(EntityFields(e), e.primaryKey))
  BY <1>2, TupleReport, TupleMoves
<1> HIDE DEF a1, a2, a3, a4, a5, a6, a7
<1>8. b5 \in IrReports /\ (b5 = <<>> <=> a1 = <<>> /\ a2 = <<>> /\ a3 = <<>> /\ a4 = <<>> /\ a5 = <<>>)
  BY <1>3, <1>4, <1>6, FiveSilent
<1> HIDE DEF b5
<1>9. b7 \in IrReports /\ (b7 = <<>> <=> b5 = <<>> /\ a6 = <<>> /\ a7 = <<>>)
  <2>1. \A s, t \in IrReports : s \o t \in IrReports /\ (s \o t = <<>> <=> s = <<>> /\ t = <<>>)
    BY IrSilent
  <2> QED BY <1>6, <1>7, <1>8, <2>1
<1>10. b7 = a1 \o a2 \o a3 \o Each(e.fields, LAMBDA f : field(f, at)) \o a5 \o a6 \o a7
  BY <1>1 DEF b5
<1> HIDE DEF b7
<1>11. b7 \in IrReports /\ (b7 = <<>> <=> FieldsClear(e))
  BY <1>3, <1>4, <1>5, <1>6, <1>7, <1>8, <1>9
<1> QED BY <1>10, <1>11 DEF a1, a2, a3, a5, a6, a7, names, cols

LEMMA EntityMoves ==
    ASSUME NEW e \in IrEntities, NEW i \in Int
    PROVE  entityFailures(e, i) = <<>> <=> e.shape = "ok" /\ FieldsClear(e) /\ KeysClear(e)
<1> DEFINE at == <<i>>
           known == EntityFields(e)
           invalid == InvalidPrimaryKey(e)
           sets == Map(ToSet, <<e.primaryKey>> \o e.uniqueKeys)
           links == Map(LAMBDA fk : <<fk.fields, fk.entity, fk.refFields>>, e.foreignKeys)
           first == identifier(e.name, ReservedModels, at) \o identifier(e.table, {}, at)
                      \o list(e.fields, 1, MaxEntityFields, at)
                      \o Each(e.fields, LAMBDA f : field(f, at))
                      \o fail(Repeats(Map(LAMBDA f : f.name, e.fields)), "DUPLICATE", at)
                      \o fail(Repeats(Map(LAMBDA f : f.column, e.fields)), "DUPLICATE", at)
                      \o tuple(e.primaryKey, known, at)
           a1 == fail(invalid, "INVALID_PRIMARY_KEY", at)
           a2 == list(e.uniqueKeys, 0, MaxEntityKeys, at)
           a3 == Each(e.uniqueKeys, LAMBDA k : tuple(k, known, at))
           a4 == list(e.indexes, 0, MaxEntityKeys, at)
           a5 == Each(e.indexes, LAMBDA k : tuple(k, known, at))
           a6 == fail(Repeats(sets), "DUPLICATE", at)
           a7 == fail(Repeats(e.indexes), "DUPLICATE", at)
           a8 == list(e.foreignKeys, 0, MaxEntityKeys, at)
           f9 == [j \in DOMAIN e.foreignKeys |-> entityForeignKey(e.foreignKeys[j], known, <<i, j>>)]
           a9 == FlattenSeq(f9)
           a10 == fail(Repeats(links), "DUPLICATE", at)
           clear3 == \A k \in DOMAIN e.uniqueKeys : KeyClear(known, e.uniqueKeys[k])
           clear5 == \A k \in DOMAIN e.indexes : KeyClear(known, e.indexes[k])
           clear9 == \A k \in DOMAIN e.foreignKeys : ForeignClear(known, e.foreignKeys[k])
           b5 == a1 \o a2 \o a3 \o a4 \o a5
           b9 == b5 \o a6 \o a7 \o a8 \o a9
           b10 == b9 \o a10
           shape == fail(TRUE, e.shape, at)
<1>1. entityFailures(e, i) = IF e.shape # "ok" THEN shape ELSE Then(first, Then(b10, <<>>))
  BY DEF entityFailures
<1>2. /\ at \in Seq(Int) /\ e.uniqueKeys \in Seq(Seq(Int)) /\ e.indexes \in Seq(Seq(Int))
      /\ e.foreignKeys \in Seq(IrForeigns)
  BY DEF IrEntities
<1>3. shape # <<>>
  BY DEF fail
<1>4. /\ invalid \in BOOLEAN
      /\ KeysClear(e) <=>
           /\ ~ invalid /\ ListClear(e.uniqueKeys, 0, MaxEntityKeys) /\ clear3
           /\ ListClear(e.indexes, 0, MaxEntityKeys) /\ clear5 /\ ~ Repeats(sets) /\ ~ Repeats(e.indexes)
           /\ ListClear(e.foreignKeys, 0, MaxEntityKeys) /\ clear9 /\ ~ Repeats(links)
  BY DEF KeysClear, InvalidPrimaryKey
<1> HIDE DEF at
<1>5. first \in IrReports /\ (first = <<>> <=> FieldsClear(e))
  BY <1>2, FieldsMove
<1> HIDE DEF first, invalid, sets, links
<1>6. a1 \in IrReports /\ (a1 = <<>> <=> ~ invalid)
  BY <1>2, <1>4, FailReport DEF IrCodes
<1>7. /\ a2 \in IrReports /\ (a2 = <<>> <=> ListClear(e.uniqueKeys, 0, MaxEntityKeys))
      /\ a4 \in IrReports /\ (a4 = <<>> <=> ListClear(e.indexes, 0, MaxEntityKeys))
      /\ a8 \in IrReports /\ (a8 = <<>> <=> ListClear(e.foreignKeys, 0, MaxEntityKeys))
  BY <1>2, ListReport, LengthMoves
<1>8. a3 \in IrReports /\ (a3 = <<>> <=> clear3)
  BY <1>2, TuplesMove
<1>9. a5 \in IrReports /\ (a5 = <<>> <=> clear5)
  BY <1>2, TuplesMove
<1>10. /\ a6 \in IrReports /\ (a6 = <<>> <=> ~ Repeats(sets))
       /\ a7 \in IrReports /\ (a7 = <<>> <=> ~ Repeats(e.indexes))
       /\ a10 \in IrReports /\ (a10 = <<>> <=> ~ Repeats(links))
  BY <1>2, RepeatsReport, RepeatsMoves
<1>11. a9 \in IrReports /\ (a9 = <<>> <=> clear9)
  <2>1. \A k \in DOMAIN e.foreignKeys : e.foreignKeys[k] \in IrForeigns /\ <<i, k>> \in Seq(Int)
    BY <1>2
  <2>2. \A k \in DOMAIN e.foreignKeys :
           f9[k] \in IrReports /\ (f9[k] = <<>> <=> ForeignClear(known, e.foreignKeys[k]))
    BY <2>1, ForeignReport, ForeignMoves
  <2>3. f9 = [k \in DOMAIN e.foreignKeys |-> f9[k]]
    OBVIOUS
  <2> HIDE DEF f9
  <2>4. FlattenSeq(f9) \in IrReports /\ (FlattenSeq(f9) = <<>> <=> \A k \in DOMAIN e.foreignKeys : f9[k] = <<>>)
    BY <1>2, <2>2, <2>3, SilentLists
  <2> QED BY <2>2, <2>4
<1> HIDE DEF a1, a2, a3, a4, a5, a6, a7, a8, a9, a10, shape, known, clear3, clear5, clear9
<1>12. b5 \in IrReports /\ (b5 = <<>> <=> a1 = <<>> /\ a2 = <<>> /\ a3 = <<>> /\ a4 = <<>> /\ a5 = <<>>)
  BY <1>6, <1>7, <1>8, <1>9, FiveSilent
<1> HIDE DEF b5
<1>13. b9 \in IrReports /\ (b9 = <<>> <=> b5 = <<>> /\ a6 = <<>> /\ a7 = <<>> /\ a8 = <<>> /\ a9 = <<>>)
  BY <1>7, <1>10, <1>11, <1>12, FiveSilent
<1> HIDE DEF b9
<1>14. b10 \in IrReports /\ (b10 = <<>> <=> b9 = <<>> /\ a10 = <<>>)
  BY <1>10, <1>13, IrSilent
<1> HIDE DEF b10
<1>15. Then(first, Then(b10, <<>>)) = <<>> <=> first = <<>> /\ b10 = <<>>
  BY <1>5, <1>14, IrSilent
<1>16. entityFailures(e, i) = <<>> <=> e.shape = "ok" /\ first = <<>> /\ b10 = <<>>
  BY <1>1, <1>3, <1>15
<1>17. b10 = <<>> <=> KeysClear(e)
  BY <1>4, <1>6, <1>7, <1>8, <1>9, <1>10, <1>11, <1>12, <1>13, <1>14
<1> QED BY <1>5, <1>16, <1>17
-----------------------------------------------------------------------------
(* An entity with its lists in another order.                              *)

SameEntity(e, x) ==
    /\ x.shape = e.shape /\ x.name = e.name /\ x.table = e.table /\ x.primaryKey = e.primaryKey
    /\ Rearranged(e.fields, x.fields) /\ Rearranged(e.uniqueKeys, x.uniqueKeys)
    /\ Rearranged(e.indexes, x.indexes) /\ Rearranged(e.foreignKeys, x.foreignKeys)

EntityLists(e) ==
    /\ e.fields \in Seq(IrFields) /\ e.primaryKey \in Seq(Int) /\ e.uniqueKeys \in Seq(Seq(Int))
    /\ e.indexes \in Seq(Seq(Int)) /\ e.foreignKeys \in Seq(IrForeigns)

\* Whether a list repeats an item depends on its items and its length.
LEMMA OneMore ==
    ASSUME NEW T, NEW a \in T, NEW s \in Seq(T)
    PROVE  /\ <<a>> \o s \in Seq(T) /\ Len(<<a>> \o s) = Len(s) + 1 /\ Len(s) \in Nat
           /\ DOMAIN (<<a>> \o s) = 1..(Len(s) + 1) /\ (<<a>> \o s)[1] = a
           /\ \A k \in DOMAIN s : k + 1 \in 1..(Len(s) + 1) /\ (<<a>> \o s)[k + 1] = s[k]
           /\ ToSet(<<a>> \o s) = {a} \cup ToSet(s)
<1> DEFINE t == <<a>> \o s
           n == Len(s)
<1>1. /\ t \in Seq(T) /\ Len(t) = n + 1 /\ n \in Nat /\ DOMAIN t = 1..(n + 1) /\ t[1] = a
      /\ DOMAIN s = 1..n /\ \A k \in 1..n : t[k + 1] = s[k]
  OBVIOUS
<1> HIDE DEF t, n
<1>2. \A k \in 1..(n + 1) : k = 1 \/ (k - 1 \in 1..n /\ k = (k - 1) + 1)
  BY <1>1
<1>3. ASSUME NEW y \in ToSet(t) PROVE y \in {a} \cup ToSet(s)
  <2>1. PICK k \in 1..(n + 1) : y = t[k]
    BY <1>1 DEF ToSet
  <2>2. CASE k = 1
    BY <1>1, <2>1, <2>2
  <2>3. CASE k # 1
    <3>1. k - 1 \in 1..n /\ y = s[k - 1]
      BY <1>1, <1>2, <2>1, <2>3
    <3> QED BY <1>1, <3>1 DEF ToSet
  <2> QED BY <2>2, <2>3
<1>4. ASSUME NEW y \in {a} \cup ToSet(s) PROVE y \in ToSet(t)
  <2>1. CASE y = a
    <3>1. 1 \in 1..(n + 1)
      BY <1>1
    <3> QED BY <1>1, <2>1, <3>1 DEF ToSet
  <2>2. CASE y # a
    <3>1. PICK k \in 1..n : y = s[k]
      BY <1>1, <2>2 DEF ToSet
    <3>2. k + 1 \in 1..(n + 1) /\ y = t[k + 1]
      BY <1>1, <3>1
    <3> QED BY <1>1, <3>2 DEF ToSet
  <2> QED BY <2>1, <2>2
<1>5. ToSet(t) = {a} \cup ToSet(s)
  BY <1>3, <1>4
<1>6. \A k \in 1..n : k + 1 \in 1..(n + 1)
  BY <1>1
<1> QED BY <1>1, <1>5, <1>6 DEF t, n

LEMMA SameItems ==
    ASSUME NEW T, NEW s \in Seq(T), NEW t, Rearranged(s, t), NEW min, NEW max
    PROVE  /\ ToSet(t) = ToSet(s) /\ t \in Seq(T) /\ DOMAIN t = 1..Len(s) /\ DOMAIN s = 1..Len(s)
           /\ Len(s) \in Nat /\ (ListClear(t, min, max) <=> ListClear(s, min, max))
<1>1. ToSet(t) = ToSet(s) /\ t \in Seq(T) /\ DOMAIN t = DOMAIN s /\ Len(t) = Len(s)
  BY RearrangedSet, RearrangedItems
<1> QED BY <1>1 DEF ListClear

LEMMA SameFieldNames ==
    ASSUME NEW s \in Seq(IrFields), NEW t, Rearranged(s, t)
    PROVE  /\ Repeats(Map(LAMBDA f : f.name, t)) = Repeats(Map(LAMBDA f : f.name, s))
           /\ Repeats(Map(LAMBDA f : f.column, t)) = Repeats(Map(LAMBDA f : f.column, s))
<1> DEFINE n == Len(s)
<1>1. ToSet(t) = ToSet(s) /\ DOMAIN t = 1..n /\ DOMAIN s = 1..n /\ n \in Nat
  BY SameItems
<1> HIDE DEF n
<1>2. /\ Map(LAMBDA f : f.name, t) = [i \in 1..n |-> t[i].name]
      /\ Map(LAMBDA f : f.name, s) = [i \in 1..n |-> s[i].name]
      /\ Map(LAMBDA f : f.column, t) = [i \in 1..n |-> t[i].column]
      /\ Map(LAMBDA f : f.column, s) = [i \in 1..n |-> s[i].column]
  BY <1>1 DEF Map
<1>3. Repeats([i \in 1..n |-> t[i].name]) = Repeats([i \in 1..n |-> s[i].name])
  <2> DEFINE w == [i \in 1..n |-> s[i].name]
             v == [i \in 1..n |-> t[i].name]
  <2>1. w = [i \in 1..n |-> w[i]] /\ v = [i \in 1..n |-> v[i]] /\ MadeAlike(s, w, t, v)
    BY <1>1 DEF MadeAlike
  <2> HIDE DEF w, v
  <2>2. Repeats(v) = Repeats(w)
    BY <1>1, <2>1, MappedAlike
  <2> QED BY <2>2 DEF w, v
<1>4. Repeats([i \in 1..n |-> t[i].column]) = Repeats([i \in 1..n |-> s[i].column])
  <2> DEFINE w == [i \in 1..n |-> s[i].column]
             v == [i \in 1..n |-> t[i].column]
  <2>1. w = [i \in 1..n |-> w[i]] /\ v = [i \in 1..n |-> v[i]] /\ MadeAlike(s, w, t, v)
    BY <1>1 DEF MadeAlike
  <2> HIDE DEF w, v
  <2>2. Repeats(v) = Repeats(w)
    BY <1>1, <2>1, MappedAlike
  <2> QED BY <2>2 DEF w, v
<1> QED BY <1>2, <1>3, <1>4, Zenon

LEMMA SameFields ==
    ASSUME NEW e \in IrEntities, NEW x \in IrEntities, SameEntity(e, x), FieldsClear(e)
    PROVE  FieldsClear(x) /\ EntityFields(x) = EntityFields(e)
<1>1. e.fields \in Seq(IrFields) /\ Rearranged(e.fields, x.fields)
  BY DEF IrEntities, SameEntity
<1>2. /\ ToSet(x.fields) = ToSet(e.fields)
      /\ ListClear(x.fields, 1, MaxEntityFields) <=> ListClear(e.fields, 1, MaxEntityFields)
  BY <1>1, SameItems
<1>3. EntityFields(x) = EntityFields(e)
  BY <1>2 DEF EntityFields
<1>4. /\ Repeats(Map(LAMBDA f : f.name, x.fields)) = Repeats(Map(LAMBDA f : f.name, e.fields))
      /\ Repeats(Map(LAMBDA f : f.column, x.fields)) = Repeats(Map(LAMBDA f : f.column, e.fields))
  BY <1>1, SameFieldNames
<1>5. \A k \in DOMAIN x.fields : FieldClear(x.fields[k])
  <2>1. \A k \in DOMAIN e.fields : FieldClear(e.fields[k])
    BY DEF FieldsClear
  <2>2. \A k \in DOMAIN x.fields : \E i \in DOMAIN e.fields : x.fields[k] = e.fields[i]
    BY <1>1, RearrangedItems
  <2> QED BY <2>1, <2>2
<1>6. x.name = e.name /\ x.table = e.table /\ x.primaryKey = e.primaryKey
  BY DEF SameEntity
<1>7. FieldsClear(x)
  BY <1>2, <1>3, <1>4, <1>5, <1>6 DEF FieldsClear
<1> QED BY <1>3, <1>7

\* A name means the same field in both.
LEMMA SameNamed ==
    ASSUME NEW e \in IrEntities, NEW x \in IrEntities, SameEntity(e, x), FieldsClear(e)
    PROVE  /\ \A n \in EntityFields(e) : EntityField(x, n) = EntityField(e, n)
           /\ \A i, j \in DOMAIN e.fields : e.fields[i].name = e.fields[j].name => i = j
<1>1. e.fields \in Seq(IrFields) /\ x.fields \in Seq(IrFields) /\ Rearranged(e.fields, x.fields)
  BY DEF IrEntities, SameEntity
<1>2. \A f \in IrFields : f.name \in Int
  BY DEF IrFields
<1>3. \A i, j \in DOMAIN e.fields : e.fields[i].name = e.fields[j].name => i = j
  <2>1. ~ Repeats(Map(LAMBDA f : f.name, e.fields))
    BY DEF FieldsClear
  <2> QED BY <1>1, <1>2, <2>1, NamesApart
<1>4. \A i, j \in DOMAIN x.fields : x.fields[i].name = x.fields[j].name => i = j
  <2>1. ~ Repeats(Map(LAMBDA f : f.name, x.fields))
    BY SameFields DEF FieldsClear
  <2> QED BY <1>1, <1>2, <2>1, NamesApart
<1>5. ASSUME NEW n \in EntityFields(e) PROVE EntityField(x, n) = EntityField(e, n)
  <2>1. PICK i \in DOMAIN e.fields : n = e.fields[i].name
    BY DEF EntityFields, ToSet
  <2>2. PICK r \in DOMAIN x.fields : x.fields[r] = e.fields[i]
    BY <1>1, RearrangedItems
  <2>3. EntityField(e, e.fields[i].name) = e.fields[i]
    BY <1>1, <1>3, FieldNamed
  <2>4. EntityField(x, x.fields[r].name) = x.fields[r]
    BY <1>1, <1>4, FieldNamed
  <2> QED BY <2>1, <2>2, <2>3, <2>4
<1> QED BY <1>3, <1>5

LEMMA SameKeys ==
    ASSUME NEW e \in IrEntities, NEW x \in IrEntities, SameEntity(e, x), FieldsClear(e), KeysClear(e)
    PROVE  KeysClear(x)
<1>1. EntityLists(e) /\ EntityLists(x) /\ FieldsClear(x) /\ EntityFields(x) = EntityFields(e)
  BY SameFields DEF IrEntities, EntityLists
<1>2. x.primaryKey = e.primaryKey
  BY DEF SameEntity
<1>3. ~ InvalidPrimaryKey(x)
  <2>1. \A n \in ToSet(e.primaryKey) : EntityField(x, n) = EntityField(e, n)
    BY SameNamed DEF FieldsClear, KeyClear
  <2>2. ~ InvalidPrimaryKey(e)
    BY DEF KeysClear
  <2> QED BY <1>2, <2>1, <2>2 DEF InvalidPrimaryKey
<1>4. /\ ToSet(x.uniqueKeys) = ToSet(e.uniqueKeys) /\ ToSet(x.indexes) = ToSet(e.indexes)
      /\ ToSet(x.foreignKeys) = ToSet(e.foreignKeys)
      /\ ListClear(x.uniqueKeys, 0, MaxEntityKeys) /\ ListClear(x.indexes, 0, MaxEntityKeys)
      /\ ListClear(x.foreignKeys, 0, MaxEntityKeys)
      /\ Len(x.uniqueKeys) = Len(e.uniqueKeys) /\ Len(x.indexes) = Len(e.indexes)
      /\ Len(x.foreignKeys) = Len(e.foreignKeys)
  <2> DEFINE Shorts == Seq(Int)
  <2>1. e.uniqueKeys \in Seq(Shorts) /\ e.indexes \in Seq(Shorts) /\ e.foreignKeys \in Seq(IrForeigns)
    BY <1>1 DEF EntityLists
  <2> HIDE DEF Shorts
  <2>2. /\ Rearranged(e.uniqueKeys, x.uniqueKeys) /\ Rearranged(e.indexes, x.indexes)
        /\ Rearranged(e.foreignKeys, x.foreignKeys)
    BY DEF SameEntity
  <2>3. /\ ListClear(e.uniqueKeys, 0, MaxEntityKeys) /\ ListClear(e.indexes, 0, MaxEntityKeys)
        /\ ListClear(e.foreignKeys, 0, MaxEntityKeys)
    BY DEF KeysClear
  <2>4. ToSet(x.uniqueKeys) = ToSet(e.uniqueKeys) /\ ListClear(x.uniqueKeys, 0, MaxEntityKeys)
    BY <2>1, <2>2, <2>3, SameItems
  <2>5. ToSet(x.indexes) = ToSet(e.indexes) /\ ListClear(x.indexes, 0, MaxEntityKeys)
    BY <2>1, <2>2, <2>3, SameItems
  <2>6. ToSet(x.foreignKeys) = ToSet(e.foreignKeys) /\ ListClear(x.foreignKeys, 0, MaxEntityKeys)
    BY <2>1, <2>2, <2>3, SameItems
  <2>7. /\ Len(x.uniqueKeys) = Len(e.uniqueKeys) /\ Len(x.indexes) = Len(e.indexes)
        /\ Len(x.foreignKeys) = Len(e.foreignKeys)
    BY <2>1, <2>2, RearrangedItems
  <2> QED BY <2>4, <2>5, <2>6, <2>7
<1>5. /\ \A k \in DOMAIN x.uniqueKeys : KeyClear(EntityFields(x), x.uniqueKeys[k])
      /\ \A k \in DOMAIN x.indexes : KeyClear(EntityFields(x), x.indexes[k])
      /\ \A k \in DOMAIN x.foreignKeys : ForeignClear(EntityFields(x), x.foreignKeys[k])
  <2>1. /\ \A k \in ToSet(e.uniqueKeys) : KeyClear(EntityFields(e), k)
        /\ \A k \in ToSet(e.indexes) : KeyClear(EntityFields(e), k)
        /\ \A k \in ToSet(e.foreignKeys) : ForeignClear(EntityFields(e), k)
    BY DEF KeysClear, ToSet
  <2>2. /\ \A k \in DOMAIN x.uniqueKeys : x.uniqueKeys[k] \in ToSet(x.uniqueKeys)
        /\ \A k \in DOMAIN x.indexes : x.indexes[k] \in ToSet(x.indexes)
        /\ \A k \in DOMAIN x.foreignKeys : x.foreignKeys[k] \in ToSet(x.foreignKeys)
    BY DEF ToSet
  <2> QED BY <1>1, <1>4, <2>1, <2>2
<1>6. ~ Repeats(x.indexes)
  BY <1>4 DEF KeysClear, Repeats
<1>7. ~ Repeats(Map(ToSet, <<x.primaryKey>> \o x.uniqueKeys))
  <2> DEFINE Shorts == Seq(Int)
             s == <<e.primaryKey>> \o e.uniqueKeys
             t == <<x.primaryKey>> \o x.uniqueKeys
             n == Len(e.uniqueKeys) + 1
             w == [i \in 1..n |-> ToSet(s[i])]
             v == [i \in 1..n |-> ToSet(t[i])]
  <2>1. e.uniqueKeys \in Seq(Shorts) /\ x.uniqueKeys \in Seq(Shorts) /\ e.primaryKey \in Shorts
    BY <1>1 DEF EntityLists
  <2> HIDE DEF Shorts
  <2>2. n \in Nat /\ DOMAIN s = 1..n /\ ToSet(s) = {e.primaryKey} \cup ToSet(e.uniqueKeys)
    BY <2>1, OneMore
  <2>3. DOMAIN t = 1..n /\ ToSet(t) = {e.primaryKey} \cup ToSet(x.uniqueKeys)
    BY <1>2, <1>4, <2>1, OneMore
  <2>4. ToSet(t) = ToSet(s)
    BY <1>4, <2>2, <2>3
  <2>5. Map(ToSet, s) = w /\ Map(ToSet, t) = v
    BY <2>2, <2>3 DEF Map
  <2> HIDE DEF s, t, n
  <2>6. w = [i \in 1..n |-> w[i]] /\ v = [i \in 1..n |-> v[i]] /\ MadeAlike(s, w, t, v)
    BY <2>2, <2>3 DEF MadeAlike
  <2> HIDE DEF w, v
  <2>7. n \in Nat /\ DOMAIN s = 1..n /\ DOMAIN t = 1..n
    BY <2>2, <2>3
  <2>8. Repeats(v) = Repeats(w)
    BY <2>4, <2>6, <2>7, MappedAlike
  <2>9. ~ Repeats(Map(ToSet, s))
    BY DEF KeysClear, s
  <2> QED BY <2>5, <2>8, <2>9 DEF t
<1>8. ~ Repeats(Map(LAMBDA fk : <<fk.fields, fk.entity, fk.refFields>>, x.foreignKeys))
  <2> DEFINE s == e.foreignKeys
             t == x.foreignKeys
             n == Len(s)
             w == [i \in 1..n |-> <<s[i].fields, s[i].entity, s[i].refFields>>]
             v == [i \in 1..n |-> <<t[i].fields, t[i].entity, t[i].refFields>>]
  <2>1. s \in Seq(IrForeigns) /\ t \in Seq(IrForeigns) /\ Len(t) = n
    BY <1>1, <1>4 DEF EntityLists
  <2>2. n \in Nat /\ DOMAIN s = 1..n /\ DOMAIN t = 1..n
    BY <2>1
  <2>3. /\ Map(LAMBDA fk : <<fk.fields, fk.entity, fk.refFields>>, e.foreignKeys) = w
        /\ Map(LAMBDA fk : <<fk.fields, fk.entity, fk.refFields>>, x.foreignKeys) = v
    BY <2>2 DEF Map
  <2>4. ToSet(t) = ToSet(s)
    BY <1>4
  <2> HIDE DEF s, t, n
  <2>5. w = [i \in 1..n |-> w[i]] /\ v = [i \in 1..n |-> v[i]] /\ MadeAlike(s, w, t, v)
    BY <2>2 DEF MadeAlike
  <2> HIDE DEF w, v
  <2>6. Repeats(v) = Repeats(w)
    BY <2>2, <2>4, <2>5, MappedAlike
  <2>7. ~ Repeats(Map(LAMBDA fk : <<fk.fields, fk.entity, fk.refFields>>, e.foreignKeys))
    BY DEF KeysClear
  <2> QED BY <2>3, <2>6, <2>7
<1> QED BY <1>3, <1>4, <1>5, <1>6, <1>7, <1>8 DEF KeysClear
-----------------------------------------------------------------------------
(* entity() forgets the order.                                             *)

LEMMA SameFieldsSorted ==
    ASSUME NEW e \in IrEntities, NEW x \in IrEntities, SameEntity(e, x), FieldsClear(e)
    PROVE  ByName(x.fields) = ByName(e.fields)
<1> DEFINE s == e.fields
           t == x.fields
           K == [i \in DOMAIN s |-> <<s[i].name>>]
           L == [i \in DOMAIN t |-> <<t[i].name>>]
<1>1. s \in Seq(IrFields) /\ t \in Seq(IrFields) /\ Rearranged(s, t)
  BY DEF IrEntities, SameEntity
<1>2. (\A i \in DOMAIN s : s[i].name \in Int) /\ (\A i \in DOMAIN t : t[i].name \in Int)
  <2>1. \A f \in IrFields : f.name \in Int
    BY DEF IrFields
  <2> QED BY <1>1, <2>1
<1>3. \A i, j \in DOMAIN s : s[i].name = s[j].name => i = j
  BY SameNamed
<1> HIDE DEF s, t
<1>4. RankSorted(K, s, ByName(s)) /\ RankSorted(L, t, ByName(t))
  BY <1>1, <1>2, SortedByName
<1>5. Keyed(K, s)
  BY <1>2, <1>3 DEF Keyed, Different
<1>6. L = [i \in DOMAIN t |-> L[i]] /\ MadeAlike(s, K, t, L)
  BY DEF MadeAlike
<1> HIDE DEF K, L
<1>7. ByName(t) = ByName(s)
  BY <1>1, <1>4, <1>5, <1>6, SortedUnique
<1> QED BY <1>7 DEF s, t

\* Different foreign keys have different JSON.
LEMMA ForeignRanksDiffer ==
    ASSUME NEW e \in IrEntities, FieldsClear(e), KeysClear(e)
    PROVE  LET w == Map(withDelete, e.foreignKeys)
           IN  /\ w \in Seq(IrForeigns) /\ DOMAIN w = DOMAIN e.foreignKeys
               /\ \A i \in DOMAIN w : w[i] = withDelete(e.foreignKeys[i]) /\ w[i].onDelete \in DELETE_ACTIONS
               /\ Keyed([i \in DOMAIN w |-> ForeignRank(w[i])], w)
<1> DEFINE s == e.foreignKeys
           w == Map(withDelete, s)
           K == [i \in DOMAIN w |-> ForeignRank(w[i])]
           links == [i \in DOMAIN s |-> <<s[i].fields, s[i].entity, s[i].refFields>>]
<1>1. s \in Seq(IrForeigns) /\ e.fields \in Seq(IrFields)
  BY DEF IrEntities
<1>2. w = [i \in DOMAIN s |-> withDelete(s[i])]
  BY DEF Map
<1>3. \A i \in DOMAIN s : s[i] \in IrForeigns /\ ForeignClear(EntityFields(e), s[i])
  <2>1. \A i \in DOMAIN s : ForeignClear(EntityFields(e), s[i])
    BY DEF KeysClear
  <2> HIDE DEF s
  <2>2. \A i \in DOMAIN s : s[i] \in IrForeigns
    BY <1>1
  <2> QED BY <2>1, <2>2
<1>4. ~ Repeats(links) /\ DOMAIN links = DOMAIN s
  BY DEF KeysClear, Map
<1>5. \A i \in DOMAIN s : links[i] = <<s[i].fields, s[i].entity, s[i].refFields>>
  OBVIOUS
<1>6. links = [i \in DOMAIN s |-> links[i]]
  OBVIOUS
<1> HIDE DEF s, links
<1>7. \A i, j \in DOMAIN s : links[i] = links[j] => i = j
  <2> DEFINE A == ToSet(links)
  <2>1. \A i \in DOMAIN s : links[i] \in A
    BY <1>4 DEF ToSet
  <2> HIDE DEF A
  <2>2. links \in Seq(A)
    BY <1>1, <1>6, <2>1, MappedLists
  <2> QED BY <1>4, <2>2, NoRepeats
<1>8. \A n \in EntityFields(e) : n >= 0
  <2>1. \A k \in DOMAIN e.fields : e.fields[k].name >= 0
    BY DEF FieldsClear, FieldClear, NameClear, IsName
  <2> QED BY <2>1 DEF EntityFields, ToSet
<1>9. ASSUME NEW i \in DOMAIN s
      PROVE  /\ withDelete(s[i]) \in IrForeigns /\ withDelete(s[i]).onDelete \in DELETE_ACTIONS
             /\ withDelete(s[i]).fields = s[i].fields /\ withDelete(s[i]).entity = s[i].entity
             /\ withDelete(s[i]).refFields = s[i].refFields
             /\ NeverNegative(s[i].fields)
  <2>1. s[i] \in IrForeigns /\ (s[i].onDelete = Absent \/ s[i].onDelete \in DELETE_ACTIONS)
    BY <1>3 DEF ForeignClear
  <2>2. /\ withDelete(s[i]) \in IrForeigns /\ withDelete(s[i]).onDelete \in DELETE_ACTIONS
        /\ withDelete(s[i]).fields = s[i].fields /\ withDelete(s[i]).entity = s[i].entity
        /\ withDelete(s[i]).refFields = s[i].refFields
    BY <2>1 DEF withDelete, IrForeigns, DELETE_ACTIONS, Absent
  <2>3. ToSet(s[i].fields) \subseteq EntityFields(e)
    BY <1>3 DEF ForeignClear, KeyClear
  <2>4. NeverNegative(s[i].fields)
    BY <1>8, <2>3 DEF ToSet, NeverNegative
  <2> QED BY <2>2, <2>4
<1> HIDE DEF w
<1>10. w = [i \in DOMAIN s |-> w[i]] /\ \A i \in DOMAIN s : w[i] = withDelete(s[i])
  BY <1>2
<1>11. \A i \in DOMAIN s : w[i] \in IrForeigns /\ w[i].onDelete \in DELETE_ACTIONS
  BY <1>9, <1>10
<1>12. w \in Seq(IrForeigns) /\ DOMAIN w = DOMAIN s
  BY <1>1, <1>10, <1>11, MappedLists
<1>13. \A i \in DOMAIN w : ForeignRank(w[i]) \in Seq(Int)
  BY <1>11, <1>12, ForeignRankType
<1>14. ASSUME NEW i \in DOMAIN w, NEW j \in DOMAIN w, ForeignRank(w[i]) = ForeignRank(w[j])
       PROVE  i = j
  <2> DEFINE f == w[i]
             g == w[j]
             p == DeleteRank(f.onDelete)
             q == DeleteRank(g.onDelete)
  <2>1. /\ f \in IrForeigns /\ f.onDelete \in DELETE_ACTIONS /\ f.fields = s[i].fields
        /\ f.entity = s[i].entity /\ f.refFields = s[i].refFields
        /\ NeverNegative(f.fields)
    BY <1>9, <1>10, <1>12
  <2>2. /\ g \in IrForeigns /\ g.onDelete \in DELETE_ACTIONS /\ g.fields = s[j].fields
        /\ g.entity = s[j].entity /\ g.refFields = s[j].refFields
        /\ NeverNegative(g.fields)
    BY <1>9, <1>10, <1>12
  <2>3. JsonList(f.fields, f.entity, f.refFields, p) = JsonList(g.fields, g.entity, g.refFields, q)
    BY <1>14 DEF ForeignRank, ForeignJson, JsonList
  <2>4. p \in Int /\ q \in Int
    BY <2>1, <2>2 DEF DeleteRank, DELETE_ACTIONS
  <2> HIDE DEF f, g, p, q
  <2>5. /\ f.fields \in Seq(Int) /\ f.refFields \in Seq(Int) /\ f.entity \in Int
        /\ g.fields \in Seq(Int) /\ g.refFields \in Seq(Int) /\ g.entity \in Int
    BY <2>1, <2>2 DEF IrForeigns
  <2>6. f.fields = g.fields /\ f.entity = g.entity /\ f.refFields = g.refFields
    BY <2>1, <2>2, <2>3, <2>4, <2>5, Separated
  <2>7. links[i] = links[j]
    BY <1>5, <1>12, <2>1, <2>2, <2>6
  <2> QED BY <1>7, <1>12, <2>7
<1>15. Keyed(K, w)
  BY <1>13, <1>14 DEF Keyed, Different
<1> QED BY <1>10, <1>11, <1>12, <1>15 DEF w, s

LEMMA SameForeignSorted ==
    ASSUME NEW e \in IrEntities, NEW x \in IrEntities, SameEntity(e, x), FieldsClear(e), KeysClear(e)
    PROVE  sortBy(Map(withDelete, x.foreignKeys), ForeignRank) = sortBy(Map(withDelete, e.foreignKeys), ForeignRank)
<1> DEFINE w == Map(withDelete, e.foreignKeys)
           v == Map(withDelete, x.foreignKeys)
           K == [i \in DOMAIN w |-> ForeignRank(w[i])]
           L == [i \in DOMAIN v |-> ForeignRank(v[i])]
<1>1. FieldsClear(x) /\ KeysClear(x)
  BY SameFields, SameKeys
<1>2. /\ w \in Seq(IrForeigns) /\ DOMAIN w = DOMAIN e.foreignKeys
      /\ \A i \in DOMAIN w : w[i] = withDelete(e.foreignKeys[i]) /\ w[i].onDelete \in DELETE_ACTIONS
      /\ Keyed(K, w)
  BY ForeignRanksDiffer
<1>3. /\ v \in Seq(IrForeigns) /\ DOMAIN v = DOMAIN x.foreignKeys
      /\ \A i \in DOMAIN v : v[i] = withDelete(x.foreignKeys[i]) /\ v[i].onDelete \in DELETE_ACTIONS
  BY <1>1, ForeignRanksDiffer
<1>4. e.foreignKeys \in Seq(IrForeigns) /\ Rearranged(e.foreignKeys, x.foreignKeys)
  BY DEF IrEntities, SameEntity
<1> HIDE DEF w, v
<1>5. Rearranged(w, v)
  <2>1. w = [i \in DOMAIN e.foreignKeys |-> w[i]] /\ v = [i \in DOMAIN x.foreignKeys |-> v[i]]
    BY <1>2, <1>3
  <2>2. MadeAlike(e.foreignKeys, w, x.foreignKeys, v)
    BY <1>2, <1>3 DEF MadeAlike
  <2> QED BY <1>4, <2>1, <2>2, MappedRearranged
<1>6. RankSorted(K, w, sortBy(w, ForeignRank))
  BY <1>2, SortedIrForeign
<1>7. RankSorted(L, v, sortBy(v, ForeignRank))
  BY <1>3, SortedIrForeign
<1>8. L = [i \in DOMAIN v |-> L[i]] /\ MadeAlike(w, K, v, L)
  BY DEF MadeAlike
<1> HIDE DEF K, L
<1>9. sortBy(v, ForeignRank) = sortBy(w, ForeignRank)
  BY <1>2, <1>5, <1>6, <1>7, <1>8, SortedUnique
<1> QED BY <1>9 DEF w, v

\* An entity is its eight lists and names.
EntityRecord(y) ==
    y = [n \in {"shape", "name", "table", "fields", "primaryKey", "uniqueKeys", "indexes",
                "foreignKeys"} |-> y[n]]

LEMMA SameRecord ==
    ASSUME NEW y, NEW z, EntityRecord(y), EntityRecord(z),
           y.shape = z.shape, y.name = z.name, y.table = z.table, y.fields = z.fields,
           y.primaryKey = z.primaryKey, y.uniqueKeys = z.uniqueKeys, y.indexes = z.indexes,
           y.foreignKeys = z.foreignKeys
    PROVE  y = z
<1> DEFINE names == {"shape", "name", "table", "fields", "primaryKey", "uniqueKeys", "indexes",
                     "foreignKeys"}
<1>1. \A n \in names : y[n] = z[n]
  OBVIOUS
<1>2. y = [n \in names |-> y[n]] /\ z = [n \in names |-> z[n]]
  BY DEF EntityRecord
<1> HIDE DEF names
<1> QED BY <1>1, <1>2

LEMMA MadeEntity ==
    ASSUME NEW y \in IrEntities
    PROVE  /\ EntityRecord(entity(y))
           /\ entity(y).shape = y.shape /\ entity(y).name = y.name /\ entity(y).table = y.table
           /\ entity(y).fields = ByName(y.fields) /\ entity(y).primaryKey = y.primaryKey
           /\ entity(y).uniqueKeys = sortBy(y.uniqueKeys, LAMBDA k : k)
           /\ entity(y).indexes = sortBy(y.indexes, LAMBDA k : k)
           /\ entity(y).foreignKeys = sortBy(Map(withDelete, y.foreignKeys), ForeignRank)
<1> DEFINE names == {"shape", "name", "table", "fields", "primaryKey", "uniqueKeys", "indexes",
                     "foreignKeys"}
           F == ByName(y.fields)
           U == sortBy(y.uniqueKeys, LAMBDA k : k)
           X == sortBy(y.indexes, LAMBDA k : k)
           K == sortBy(Map(withDelete, y.foreignKeys), ForeignRank)
           Z == [y EXCEPT !.fields = F, !.uniqueKeys = U, !.indexes = X, !.foreignKeys = K]
<1>1. DOMAIN y = names
  <2> DEFINE Shorts == Seq(Int)
             KeyLists1 == Seq(Seq(Int))
             FieldLists == Seq(IrFields)
             ForeignLists == Seq(IrForeigns)
  <2>1. IrEntities = [shape : IrShapes, name : Int, table : Int, fields : FieldLists,
                      primaryKey : Shorts, uniqueKeys : KeyLists1, indexes : KeyLists1,
                      foreignKeys : ForeignLists]
    BY DEF IrEntities
  <2> HIDE DEF KeyLists1, FieldLists, ForeignLists, Shorts
  <2> QED BY <2>1
<1>2. entity(y) = Z
  BY DEF entity, ByName
<1> HIDE DEF F, U, X, K
<1>3. Z = [n \in names |-> Z[n]]
  BY <1>1
<1>4. /\ Z.shape = y.shape /\ Z.name = y.name /\ Z.table = y.table /\ Z.fields = F
      /\ Z.primaryKey = y.primaryKey /\ Z.uniqueKeys = U /\ Z.indexes = X /\ Z.foreignKeys = K
  BY <1>1
<1> HIDE DEF Z
<1> QED BY <1>2, <1>3, <1>4 DEF EntityRecord, F, U, X, K

LEMMA NormalSame ==
    ASSUME NEW e \in IrEntities, NEW x \in IrEntities, SameEntity(e, x), FieldsClear(e), KeysClear(e)
    PROVE  entity(x) = entity(e)
<1> DEFINE Shorts == Seq(Int)
<1>1. /\ e.uniqueKeys \in Seq(Seq(Int)) /\ x.uniqueKeys \in Seq(Seq(Int)) /\ e.primaryKey \in Seq(Int)
      /\ e.indexes \in Seq(Seq(Int)) /\ x.indexes \in Seq(Seq(Int))
      /\ Rearranged(e.uniqueKeys, x.uniqueKeys) /\ Rearranged(e.indexes, x.indexes)
      /\ x.shape = e.shape /\ x.name = e.name /\ x.table = e.table /\ x.primaryKey = e.primaryKey
  BY DEF IrEntities, SameEntity
<1>2. \A i, j \in DOMAIN e.indexes : e.indexes[i] = e.indexes[j] => i = j
  <2>1. ~ Repeats(e.indexes) /\ e.indexes \in Seq(Shorts)
    BY <1>1 DEF KeysClear
  <2> HIDE DEF Shorts
  <2> QED BY <2>1, NoRepeats
<1>3. ASSUME NEW i \in DOMAIN e.uniqueKeys, NEW j \in DOMAIN e.uniqueKeys, e.uniqueKeys[i] = e.uniqueKeys[j]
      PROVE  i = j
  <2> DEFINE s == <<e.primaryKey>> \o e.uniqueKeys
             w == [k \in DOMAIN s |-> ToSet(s[k])]
             n == Len(e.uniqueKeys)
             A == ToSet(w)
  <2>1. e.uniqueKeys \in Seq(Shorts) /\ e.primaryKey \in Shorts /\ i \in Int /\ j \in Int
    BY <1>1
  <2>2. ~ Repeats(w)
    BY DEF KeysClear, Map
  <2> HIDE DEF Shorts
  <2>3. /\ s \in Seq(Shorts) /\ i + 1 \in DOMAIN s /\ j + 1 \in DOMAIN s
        /\ s[i + 1] = e.uniqueKeys[i] /\ s[j + 1] = e.uniqueKeys[j]
    BY <2>1, OneMore
  <2> HIDE DEF s
  <2>4. w = [k \in DOMAIN s |-> w[k]] /\ \A k \in DOMAIN s : w[k] = ToSet(s[k])
    OBVIOUS
  <2> HIDE DEF w
  <2>5. \A k \in DOMAIN s : w[k] \in A
    BY <2>4 DEF ToSet
  <2> HIDE DEF A
  <2>6. w \in Seq(A) /\ DOMAIN w = DOMAIN s
    BY <2>3, <2>4, <2>5, MappedLists
  <2>7. \A k, l \in DOMAIN w : w[k] = w[l] => k = l
    BY <2>2, <2>6, NoRepeats
  <2>8. i + 1 = j + 1
    BY <1>3, <2>3, <2>4, <2>6, <2>7
  <2> QED BY <2>1, <2>8
<1>4. sortBy(x.uniqueKeys, LAMBDA k : k) = sortBy(e.uniqueKeys, LAMBDA k : k)
  BY <1>1, <1>3, SameTuplesSorted
<1>5. sortBy(x.indexes, LAMBDA k : k) = sortBy(e.indexes, LAMBDA k : k)
  BY <1>1, <1>2, SameTuplesSorted
<1>6. ByName(x.fields) = ByName(e.fields)
  BY SameFieldsSorted
<1>7. sortBy(Map(withDelete, x.foreignKeys), ForeignRank) =
          sortBy(Map(withDelete, e.foreignKeys), ForeignRank)
  BY SameForeignSorted
<1> DEFINE y == entity(e)
           z == entity(x)
<1>8. /\ EntityRecord(y) /\ EntityRecord(z) /\ z.shape = y.shape /\ z.name = y.name
      /\ z.table = y.table /\ z.primaryKey = y.primaryKey
  BY <1>1, MadeEntity
<1>9. z.fields = y.fields
  BY <1>6, MadeEntity
<1>10. z.uniqueKeys = y.uniqueKeys
  BY <1>4, MadeEntity
<1>11. z.indexes = y.indexes
  BY <1>5, MadeEntity
<1>12. z.foreignKeys = y.foreignKeys
  BY <1>7, MadeEntity
<1> HIDE DEF y, z
<1>13. z = y
  BY <1>8, <1>9, <1>10, <1>11, <1>12, SameRecord
<1> QED BY <1>13 DEF y, z
-----------------------------------------------------------------------------
(* A document with its entities, and their lists, in another order.        *)

RefsClear(es) ==
    \A i \in DOMAIN es : \A k \in DOMAIN es[i].foreignKeys :
        ~ BadReference(es, es[i], es[i].foreignKeys[k])

EntityClear(e) == e.shape = "ok" /\ FieldsClear(e) /\ KeysClear(e)

DocumentClear(d) ==
    /\ d.version = "ores.schema-ir.v1" /\ NameClear(d.schema, SystemSchemas)
    /\ ListClear(d.entities, 1, MaxEntities)
    /\ \A i \in DOMAIN d.entities : EntityClear(d.entities[i])

LEMMA RefsMove ==
    ASSUME NEW es \in Seq(IrEntities)
    PROVE  referenceFailures(es) = <<>> <=> RefsClear(es)
<1> DEFINE h(i) == [k \in DOMAIN es[i].foreignKeys |->
                      fail(BadReference(es, es[i], es[i].foreignKeys[k]), "INVALID_REFERENCE", <<i, k>>)]
           g == [i \in DOMAIN es |-> FlattenSeq(h(i))]
<1>1. referenceFailures(es) = FlattenSeq(g)
  BY DEF referenceFailures
<1>2. ASSUME NEW i \in DOMAIN es
      PROVE  /\ FlattenSeq(h(i)) \in IrReports
             /\ FlattenSeq(h(i)) = <<>> <=>
                  \A k \in DOMAIN es[i].foreignKeys : ~ BadReference(es, es[i], es[i].foreignKeys[k])
  <2> DEFINE u == es[i].foreignKeys
             w == h(i)
             bad(k) == BadReference(es, es[i], u[k])
  <2>1. u \in Seq(IrForeigns) /\ i \in Int /\ \A k \in DOMAIN u : k \in Int
    <3>1. \A e \in IrEntities : e.foreignKeys \in Seq(IrForeigns)
      BY DEF IrEntities
    <3>2. u \in Seq(IrForeigns) /\ i \in Int
      BY <3>1
    <3> HIDE DEF u
    <3> QED BY <3>2
  <2>2. w = [k \in DOMAIN u |-> w[k]] /\ \A k \in DOMAIN u : w[k] = fail(bad(k), "INVALID_REFERENCE", <<i, k>>)
    OBVIOUS
  <2>3. \A k : bad(k) \in BOOLEAN
    BY DEF BadReference
  <2>4. "INVALID_REFERENCE" \in IrCodes
    BY DEF IrCodes
  <2> HIDE DEF u, w, bad
  <2>5. ASSUME NEW k \in DOMAIN u PROVE w[k] \in IrReports /\ (w[k] = <<>> <=> ~ bad(k))
    <3>1. <<i, k>> \in Seq(Int)
      BY <2>1
    <3> DEFINE at == <<i, k>>
               b == bad(k)
    <3>2. at \in Seq(Int) /\ b \in BOOLEAN /\ w[k] = fail(b, "INVALID_REFERENCE", at)
      BY <2>2, <2>3, <3>1
    <3> HIDE DEF at, b
    <3>3. w[k] \in IrReports /\ (w[k] = <<>> <=> ~ b)
      BY <2>4, <3>2, FailReport
    <3> QED BY <3>3 DEF b
  <2>6. FlattenSeq(w) \in IrReports /\ (FlattenSeq(w) = <<>> <=> \A k \in DOMAIN u : w[k] = <<>>)
    BY <2>1, <2>2, <2>5, SilentLists
  <2>7. FlattenSeq(w) = <<>> <=> \A k \in DOMAIN u : ~ bad(k)
    BY <2>5, <2>6
  <2> QED BY <2>6, <2>7 DEF u, w, bad
<1>3. g = [i \in DOMAIN es |-> g[i]] /\ \A i \in DOMAIN es : g[i] = FlattenSeq(h(i))
  OBVIOUS
<1> HIDE DEF g, h
<1>4. \A i \in DOMAIN es : g[i] \in IrReports
  BY <1>2, <1>3
<1>5. FlattenSeq(g) = <<>> <=> \A i \in DOMAIN es : g[i] = <<>>
  BY <1>3, <1>4, SilentLists
<1> QED BY <1>1, <1>2, <1>3, <1>5 DEF RefsClear

LEMMA DocumentMoves ==
    ASSUME NEW d \in IrDocuments, normalizedEntities(d) \in Seq(IrEntities)
    PROVE  normalizeFailures(d) = <<>> <=>
             /\ d.shape = "ok" /\ DocumentClear(d) /\ ~ DuplicateEntities(d.entities)
             /\ RefsClear(normalizedEntities(d))
<1> DEFINE s == d.entities
           other == d.version # "ores.schema-ir.v1"
           twice == DuplicateEntities(s)
           f == [i \in DOMAIN s |-> entityFailures(s[i], i)]
           shape == fail(TRUE, d.shape, <<>>)
           a1 == fail(other, "UNSUPPORTED_VERSION", <<>>)
           a2 == identifier(d.schema, SystemSchemas, <<>>)
           a3 == list(s, 1, MaxEntities, <<>>)
           a4 == FlattenSeq(f)
           a == a1 \o a2 \o a3 \o a4
           b == fail(twice, "DUPLICATE", <<>>)
           c == referenceFailures(normalizedEntities(d))
           clear == \A i \in DOMAIN s : EntityClear(s[i])
<1>1. normalizeFailures(d) = IF d.shape # "ok" THEN shape ELSE Then(a, Then(b, c))
  BY DEF normalizeFailures
<1>2. shape # <<>>
  BY DEF fail
<1>3. <<>> \in Seq(Int) /\ s \in Seq(IrEntities) /\ other \in BOOLEAN /\ twice \in BOOLEAN
  BY DEF IrDocuments, DuplicateEntities
<1>4. /\ DocumentClear(d) <=> ~ other /\ NameClear(d.schema, SystemSchemas) /\ ListClear(s, 1, MaxEntities) /\ clear
  BY DEF DocumentClear
<1>5. c = <<>> <=> RefsClear(normalizedEntities(d))
  BY RefsMove
<1>6. f = [i \in DOMAIN s |-> f[i]] /\ \A i \in DOMAIN s : f[i] = entityFailures(s[i], i)
  OBVIOUS
<1> HIDE DEF s, f, shape, c, other, twice
<1>7. a1 \in IrReports /\ (a1 = <<>> <=> ~ other) /\ (b = <<>> <=> ~ twice)
  <2>1. "UNSUPPORTED_VERSION" \in IrCodes /\ "DUPLICATE" \in IrCodes
    BY DEF IrCodes
  <2> QED BY <1>3, <2>1, FailReport
<1>8. /\ a2 \in IrReports /\ (a2 = <<>> <=> NameClear(d.schema, SystemSchemas))
      /\ a3 \in IrReports /\ (a3 = <<>> <=> ListClear(s, 1, MaxEntities))
  BY <1>3, NameMoves, LengthMoves, IdentifierReport, ListReport
<1>9. ASSUME NEW i \in DOMAIN s PROVE f[i] \in IrReports /\ (f[i] = <<>> <=> EntityClear(s[i]))
  <2>1. s[i] \in IrEntities /\ i \in Int
    BY <1>3
  <2>2. entityFailures(s[i], i) \in IrReports
    BY <2>1, EntityReport
  <2>3. entityFailures(s[i], i) = <<>> <=> EntityClear(s[i])
    BY <2>1, EntityMoves DEF EntityClear
  <2> QED BY <1>6, <2>2, <2>3
<1>10. a4 \in IrReports /\ (a4 = <<>> <=> \A i \in DOMAIN s : f[i] = <<>>)
  BY <1>3, <1>6, <1>9, SilentLists
<1>11. a4 = <<>> <=> clear
  BY <1>9, <1>10
<1> HIDE DEF a1, a2, a3, a4, b, clear
<1>12. a = <<>> <=> a1 = <<>> /\ a2 = <<>> /\ a3 = <<>> /\ a4 = <<>>
  <2>1. \A u, t \in IrReports : u \o t \in IrReports /\ (u \o t = <<>> <=> u = <<>> /\ t = <<>>)
    BY IrSilent
  <2> QED BY <1>7, <1>8, <1>10, <2>1
<1> HIDE DEF a
<1>13. Then(a, Then(b, c)) = <<>> <=> a = <<>> /\ b = <<>> /\ c = <<>>
  BY DEF Then
<1> QED BY <1>1, <1>2, <1>4, <1>5, <1>7, <1>8, <1>11, <1>12, <1>13 DEF s, twice
SameIr(d, y) ==
    /\ y.shape = d.shape /\ y.version = d.version /\ y.schema = d.schema
    /\ DOMAIN y.entities = DOMAIN d.entities
    /\ \E q : Permutation(q, DOMAIN d.entities) /\
                \A r \in DOMAIN d.entities : SameEntity(d.entities[q[r]], y.entities[r])

\* What a reference means does not depend on where the entities are.
LEMMA SameReferences ==
    ASSUME NEW es, EntitiesSound(es), NEW ys, Rearranged(es, ys), RefsClear(es)
    PROVE  RefsClear(ys)
<1>1. /\ es \in Seq(IrEntities)
      /\ \A i, j \in DOMAIN es : es[i].name = es[j].name => i = j
  BY DEF EntitiesSound
<1>2. /\ ys \in Seq(IrEntities) /\ ToSet(ys) = ToSet(es)
      /\ \A r \in DOMAIN ys : \E i \in DOMAIN es : ys[r] = es[i]
      /\ \A i \in DOMAIN es : \E r \in DOMAIN ys : ys[r] = es[i]
  BY <1>1, RearrangedItems, RearrangedSet
<1>3. PICK q : Permutation(q, DOMAIN es) /\ ys = [r \in DOMAIN es |-> es[q[r]]]
  BY DEF Rearranged
<1>4. ASSUME NEW r \in DOMAIN ys, NEW k \in DOMAIN ys, ys[r].name = ys[k].name PROVE r = k
  <2>1. DOMAIN ys = DOMAIN es /\ \A j \in DOMAIN es : q[j] \in DOMAIN es /\ ys[j] = es[q[j]]
    BY <1>3 DEF Permutation
  <2>2. q[r] \in DOMAIN es /\ q[k] \in DOMAIN es /\ es[q[r]].name = es[q[k]].name
    BY <1>4, <2>1
  <2>3. q[r] = q[k]
    BY <1>1, <2>2
  <2> QED BY <1>3, <2>1, <2>3 DEF Permutation
<1>5. ASSUME NEW e, NEW fk, ~ BadReference(es, e, fk) PROVE ~ BadReference(ys, e, fk)
  <2>1. PICK i \in DOMAIN es : es[i].name = fk.entity
    BY <1>5 DEF BadReference, ToSet
  <2>2. PICK r \in DOMAIN ys : ys[r] = es[i]
    BY <1>2
  <2>3. EntityOf(es, es[i].name) = es[i]
    BY <1>1, EntityNamed
  <2>4. EntityOf(ys, ys[r].name) = ys[r]
    BY <1>2, <1>4, EntityNamed
  <2>5. EntityOf(ys, fk.entity) = EntityOf(es, fk.entity)
    BY <2>1, <2>2, <2>3, <2>4
  <2>6. {t.name : t \in ToSet(ys)} = {t.name : t \in ToSet(es)}
    BY <1>2
  <2> QED BY <1>5, <2>5, <2>6 DEF BadReference
<1>6. ASSUME NEW r \in DOMAIN ys, NEW k \in DOMAIN ys[r].foreignKeys
      PROVE  ~ BadReference(ys, ys[r], ys[r].foreignKeys[k])
  <2>1. PICK i \in DOMAIN es : ys[r] = es[i]
    BY <1>2
  <2>2. ~ BadReference(es, es[i], es[i].foreignKeys[k])
    BY <1>6, <2>1 DEF RefsClear
  <2> QED BY <1>5, <2>1, <2>2
<1> QED BY <1>6 DEF RefsClear

LEMMA SameTables ==
    ASSUME NEW s \in Seq(IrEntities), NEW t \in Seq(IrEntities), DOMAIN t = DOMAIN s,
           NEW q, Permutation(q, DOMAIN s), \A r \in DOMAIN s : SameEntity(s[q[r]], t[r])
    PROVE  DuplicateEntities(t) = DuplicateEntities(s)
<1> DEFINE w == [i \in DOMAIN s |-> Lower(s[i].name)]
           v == [i \in DOMAIN t |-> Lower(t[i].name)]
           w2 == [i \in DOMAIN s |-> s[i].table]
           v2 == [i \in DOMAIN t |-> t[i].table]
<1>1. \A r \in DOMAIN s : q[r] \in DOMAIN s /\ t[r].name = s[q[r]].name /\ t[r].table = s[q[r]].table
  BY DEF Permutation, SameEntity
<1>2. \A i \in DOMAIN s : s[i].name \in Int /\ s[i].table \in Int
  <2>1. \A e \in IrEntities : e.name \in Int /\ e.table \in Int
    BY DEF IrEntities
  <2> QED BY <2>1
<1>3. /\ w = [i \in DOMAIN s |-> w[i]] /\ \A i \in DOMAIN s : w[i] \in Int
      /\ w2 = [i \in DOMAIN s |-> w2[i]] /\ \A i \in DOMAIN s : w2[i] \in Int
  BY <1>2 DEF Lower
<1>4. v = [r \in DOMAIN w |-> w[q[r]]] /\ v2 = [r \in DOMAIN w2 |-> w2[q[r]]]
  BY <1>1
<1>5. DuplicateEntities(s) = (Repeats(w) \/ Repeats(w2)) /\ DuplicateEntities(t) = (Repeats(v) \/ Repeats(v2))
  BY DEF DuplicateEntities, Map
<1> HIDE DEF w, v, w2, v2
<1>6. w \in Seq(Int) /\ DOMAIN w = DOMAIN s /\ w2 \in Seq(Int) /\ DOMAIN w2 = DOMAIN s
  BY <1>3, MappedLists
<1>7. Rearranged(w, v) /\ Rearranged(w2, v2)
  BY <1>4, <1>6 DEF Rearranged
<1>8. Repeats(v) = Repeats(w) /\ Repeats(v2) = Repeats(w2)
  BY <1>6, <1>7, RearrangedRepeats
<1> QED BY <1>5, <1>8

\* Sorted by name, entities with different names forget their order.
LEMMA SameSorted ==
    ASSUME NEW es, EntitiesSound(es), NEW ys, Rearranged(es, ys)
    PROVE  ByName(ys) = ByName(es)
<1> DEFINE K == [i \in DOMAIN es |-> <<es[i].name>>]
           L == [i \in DOMAIN ys |-> <<ys[i].name>>]
<1>1. /\ es \in Seq(IrEntities)
      /\ \A i, j \in DOMAIN es : es[i].name = es[j].name => i = j
  BY DEF EntitiesSound
<1>2. ys \in Seq(IrEntities)
  BY <1>1, RearrangedItems
<1>3. (\A i \in DOMAIN es : es[i].name \in Int) /\ (\A i \in DOMAIN ys : ys[i].name \in Int)
  <2>1. \A e \in IrEntities : e.name \in Int
    BY DEF IrEntities
  <2> QED BY <1>1, <1>2, <2>1
<1>4. RankSorted(K, es, ByName(es)) /\ RankSorted(L, ys, ByName(ys))
  BY <1>1, <1>2, <1>3, SortedByName
<1>5. Keyed(K, es)
  BY <1>1, <1>3 DEF Keyed, Different
<1>6. L = [i \in DOMAIN ys |-> L[i]] /\ MadeAlike(es, K, ys, L)
  BY DEF MadeAlike
<1> HIDE DEF K, L
<1> QED BY <1>1, <1>4, <1>5, <1>6, SortedUnique

LEMMA SameDocument ==
    ASSUME NEW d \in IrDocuments, NEW y \in IrDocuments, SameIr(d, y), normalizeFailures(d) = <<>>
    PROVE  normalizeFailures(y) = <<>> /\ normalizeSchemaIr(y) = normalizeSchemaIr(d)
<1> DEFINE s == d.entities
           t == y.entities
           es == normalizedEntities(d)
           ys == normalizedEntities(y)
<1>1. s \in Seq(IrEntities) /\ t \in Seq(IrEntities) /\ DOMAIN t = DOMAIN s
  BY DEF IrDocuments, SameIr
<1>2. y.shape = d.shape /\ y.version = d.version /\ y.schema = d.schema
  BY DEF SameIr
<1>3. PICK q : Permutation(q, DOMAIN s) /\ \A r \in DOMAIN s : SameEntity(s[q[r]], t[r])
  BY DEF SameIr
<1>4. EntitiesSound(es) /\ DOMAIN es = DOMAIN s /\ \A i \in DOMAIN s : es[i] = entity(s[i])
  BY NormalEntities
<1>5. ys = [i \in DOMAIN t |-> entity(t[i])]
  BY DEF normalizedEntities, Map
<1>6. es \in Seq(IrEntities)
  BY <1>4 DEF EntitiesSound
<1>7. d.shape = "ok" /\ DocumentClear(d) /\ ~ DuplicateEntities(s) /\ RefsClear(es)
  BY <1>6, DocumentMoves
<1>8. /\ d.version = "ores.schema-ir.v1" /\ NameClear(d.schema, SystemSchemas) /\ ListClear(s, 1, MaxEntities)
      /\ \A i \in DOMAIN s : EntityClear(s[i])
  BY <1>7 DEF DocumentClear
<1> HIDE DEF s, t, es, ys
<1>9. ASSUME NEW r \in DOMAIN s
      PROVE  q[r] \in DOMAIN s /\ EntityClear(t[r]) /\ entity(t[r]) = es[q[r]]
  <2>1. q[r] \in DOMAIN s
    BY <1>3 DEF Permutation
  <2>2. s[q[r]] \in IrEntities /\ t[r] \in IrEntities /\ SameEntity(s[q[r]], t[r])
    BY <1>1, <1>3, <2>1
  <2>3. s[q[r]].shape = "ok" /\ FieldsClear(s[q[r]]) /\ KeysClear(s[q[r]])
    BY <1>8, <2>1 DEF EntityClear
  <2> DEFINE e == s[q[r]]
             x == t[r]
  <2>4. e \in IrEntities /\ x \in IrEntities /\ SameEntity(e, x) /\ FieldsClear(e) /\ KeysClear(e) /\ e.shape = "ok"
    BY <2>2, <2>3
  <2>5. es[q[r]] = entity(e)
    BY <1>4, <2>1
  <2> HIDE DEF e, x
  <2>6. FieldsClear(x) /\ KeysClear(x) /\ x.shape = "ok"
    BY <2>4, SameFields, SameKeys DEF SameEntity
  <2>7. entity(x) = entity(e)
    BY <2>4, NormalSame
  <2> QED BY <2>1, <2>5, <2>6, <2>7 DEF x, EntityClear
<1>10. ys = [r \in DOMAIN es |-> es[q[r]]]
  BY <1>1, <1>4, <1>5, <1>9
<1>11. Rearranged(es, ys)
  BY <1>3, <1>4, <1>10 DEF Rearranged
<1>12. ys \in Seq(IrEntities)
  BY <1>6, <1>11, RearrangedItems
<1>13. RefsClear(ys)
  BY <1>4, <1>7, <1>11, SameReferences
<1>14. ~ DuplicateEntities(t)
  BY <1>1, <1>3, <1>7, SameTables
<1>15. ListClear(t, 1, MaxEntities)
  <2>1. Len(t) = Len(s)
    BY <1>1
  <2> QED BY <1>8, <2>1 DEF ListClear
<1>16. DocumentClear(y)
  BY <1>1, <1>2, <1>8, <1>9, <1>15 DEF DocumentClear, t
<1>17. normalizeFailures(y) = <<>>
  BY <1>2, <1>7, <1>12, <1>13, <1>14, <1>16, DocumentMoves DEF t, ys
<1>18. ByName(ys) = ByName(es)
  BY <1>4, <1>11, SameSorted
<1>19. normalizeSchemaIr(y) = normalizeSchemaIr(d)
  BY <1>2, <1>18 DEF normalizeSchemaIr, ByName, es, ys
<1> QED BY <1>17, <1>19
LEMMA EntityItself ==
    ASSUME NEW e \in IrEntities
    PROVE  SameEntity(e, e) /\ EntityLists(e)
<1> DEFINE Shorts == Seq(Int)
<1>1. /\ e.fields \in Seq(IrFields) /\ e.uniqueKeys \in Seq(Shorts) /\ e.indexes \in Seq(Shorts)
      /\ e.foreignKeys \in Seq(IrForeigns) /\ EntityLists(e)
  BY DEF IrEntities, EntityLists
<1> HIDE DEF Shorts
<1> QED BY <1>1, RearrangedSame DEF SameEntity

LEMMA SameEntityBack ==
    ASSUME NEW e \in IrEntities, NEW x, SameEntity(e, x)
    PROVE  SameEntity(x, e)
<1> DEFINE Shorts == Seq(Int)
<1>1. /\ e.fields \in Seq(IrFields) /\ e.uniqueKeys \in Seq(Shorts) /\ e.indexes \in Seq(Shorts)
      /\ e.foreignKeys \in Seq(IrForeigns)
  BY DEF IrEntities
<1>2. /\ Rearranged(e.fields, x.fields) /\ Rearranged(e.uniqueKeys, x.uniqueKeys)
      /\ Rearranged(e.indexes, x.indexes) /\ Rearranged(e.foreignKeys, x.foreignKeys)
  BY DEF SameEntity
<1> HIDE DEF Shorts
<1>3. /\ Rearranged(x.fields, e.fields) /\ Rearranged(x.uniqueKeys, e.uniqueKeys)
      /\ Rearranged(x.indexes, e.indexes) /\ Rearranged(x.foreignKeys, e.foreignKeys)
  BY <1>1, <1>2, RearrangedBack
<1> QED BY <1>3 DEF SameEntity

LEMMA SameIrBack ==
    ASSUME NEW d \in IrDocuments, NEW y, SameIr(d, y)
    PROVE  SameIr(y, d)
<1> DEFINE s == d.entities
           t == y.entities
<1>1. /\ s \in Seq(IrEntities) /\ DOMAIN t = DOMAIN s
      /\ y.shape = d.shape /\ y.version = d.version /\ y.schema = d.schema
  BY DEF IrDocuments, SameIr
<1>2. PICK q : Permutation(q, DOMAIN s) /\ \A r \in DOMAIN s : SameEntity(s[q[r]], t[r])
  BY DEF SameIr
<1> HIDE DEF s, t
<1>3. PICK p : Permutation(p, DOMAIN s) /\ \A j \in DOMAIN s : q[p[j]] = j
  BY <1>2, InversePermutation
<1>4. ASSUME NEW j \in DOMAIN s PROVE SameEntity(t[p[j]], s[j])
  <2>1. p[j] \in DOMAIN s /\ q[p[j]] = j
    BY <1>3 DEF Permutation
  <2>2. SameEntity(s[j], t[p[j]])
    BY <1>2, <2>1
  <2>3. s[j] \in IrEntities
    BY <1>1
  <2> QED BY <2>2, <2>3, SameEntityBack
<1> QED BY <1>1, <1>3, <1>4 DEF SameIr, s, t

LEMMA OneEntity ==
    ASSUME NEW d \in IrDocuments, NEW i \in DOMAIN d.entities, NEW x \in IrEntities,
           SameEntity(d.entities[i], x)
    PROVE  LET g == [d EXCEPT !.entities = [d.entities EXCEPT ![i] = x]]
           IN  g \in IrDocuments /\ SameIr(d, g)
<1> DEFINE s == d.entities
           t == [s EXCEPT ![i] = x]
           g == [d EXCEPT !.entities = t]
           p == [r \in DOMAIN s |-> r]
<1>1. s \in Seq(IrEntities)
  BY DEF IrDocuments
<1>2. t \in Seq(IrEntities) /\ DOMAIN t = DOMAIN s /\ \A r \in DOMAIN s : t[r] = IF r = i THEN x ELSE s[r]
  BY <1>1
<1> HIDE DEF t
<1>3. g \in IrDocuments /\ g.entities = t /\ g.shape = d.shape /\ g.version = d.version /\ g.schema = d.schema
  <2> DEFINE T == Seq(IrEntities)
  <2>1. t \in T /\ IrDocuments = [shape : IrShapes, version : {"ores.schema-ir.v1", "other"}, schema : Int,
                                  entities : T]
    BY <1>2 DEF IrDocuments
  <2> HIDE DEF T
  <2> QED BY <2>1
<1>4. Permutation(p, DOMAIN s) /\ \A r \in DOMAIN s : p[r] = r
  BY DEF Permutation
<1> HIDE DEF p, g
<1>5. ASSUME NEW r \in DOMAIN s PROVE SameEntity(s[p[r]], t[r])
  <2>1. s[r] \in IrEntities
    BY <1>1
  <2>2. CASE r = i
    BY <1>2, <1>4, <2>2
  <2>3. CASE r # i
    BY <1>2, <1>4, <2>1, <2>3, EntityItself
  <2> QED BY <2>2, <2>3
<1>6. SameIr(d, g)
  BY <1>2, <1>3, <1>4, <1>5 DEF SameIr
<1> QED BY <1>3, <1>6 DEF g, t

LEMMA TwoEntities ==
    ASSUME NEW d \in IrDocuments, NEW t \in Neighbours(d.entities)
    PROVE  LET g == [d EXCEPT !.entities = t]
           IN  g \in IrDocuments /\ SameIr(d, g)
<1> DEFINE s == d.entities
           g == [d EXCEPT !.entities = t]
<1>1. s \in Seq(IrEntities)
  BY DEF IrDocuments
<1>2. t \in Seq(IrEntities) /\ Rearranged(s, t) /\ DOMAIN t = DOMAIN s
  <2>1. t \in Seq(IrEntities) /\ Rearranged(s, t)
    BY <1>1, NeighboursRearranged
  <2> QED BY <1>1, <2>1, RearrangedItems
<1>3. g \in IrDocuments /\ g.entities = t /\ g.shape = d.shape /\ g.version = d.version /\ g.schema = d.schema
  <2> DEFINE T == Seq(IrEntities)
  <2>1. t \in T /\ IrDocuments = [shape : IrShapes, version : {"ores.schema-ir.v1", "other"}, schema : Int,
                                  entities : T]
    BY <1>2 DEF IrDocuments
  <2> HIDE DEF T
  <2> QED BY <2>1
<1> HIDE DEF g
<1>4. PICK q : Permutation(q, DOMAIN s) /\ t = [r \in DOMAIN s |-> s[q[r]]]
  BY <1>2 DEF Rearranged
<1>5. ASSUME NEW r \in DOMAIN s PROVE SameEntity(s[q[r]], t[r])
  <2>1. q[r] \in DOMAIN s /\ t[r] = s[q[r]]
    BY <1>4 DEF Permutation
  <2>2. s[q[r]] \in IrEntities
    BY <1>1, <2>1
  <2> QED BY <2>1, <2>2, EntityItself
<1>6. SameIr(d, g)
  BY <1>2, <1>3, <1>4, <1>5 DEF SameIr
<1> QED BY <1>3, <1>6 DEF g
LEMMA ReorderedEntity ==
    ASSUME NEW e \in IrEntities
    PROVE  /\ \A u \in Neighbours(e.fields) :
                 [e EXCEPT !.fields = u] \in IrEntities /\ SameEntity(e, [e EXCEPT !.fields = u])
           /\ \A u \in Neighbours(e.uniqueKeys) :
                 [e EXCEPT !.uniqueKeys = u] \in IrEntities /\ SameEntity(e, [e EXCEPT !.uniqueKeys = u])
           /\ \A u \in Neighbours(e.indexes) :
                 [e EXCEPT !.indexes = u] \in IrEntities /\ SameEntity(e, [e EXCEPT !.indexes = u])
           /\ \A u \in Neighbours(e.foreignKeys) :
                 [e EXCEPT !.foreignKeys = u] \in IrEntities /\ SameEntity(e, [e EXCEPT !.foreignKeys = u])
<1> DEFINE Shorts == Seq(Int)
           KeyTuples == Seq(Shorts)
           FieldSeqs == Seq(IrFields)
           ForeignSeqs == Seq(IrForeigns)
<1>1. IrEntities = [shape : IrShapes, name : Int, table : Int, fields : FieldSeqs, primaryKey : Shorts,
                    uniqueKeys : KeyTuples, indexes : KeyTuples, foreignKeys : ForeignSeqs]
  BY DEF IrEntities
<1>2. /\ Rearranged(e.fields, e.fields) /\ Rearranged(e.uniqueKeys, e.uniqueKeys)
      /\ Rearranged(e.indexes, e.indexes) /\ Rearranged(e.foreignKeys, e.foreignKeys)
  BY EntityItself DEF SameEntity
<1>3. \A u \in Neighbours(e.fields) : u \in FieldSeqs /\ Rearranged(e.fields, u)
  BY NeighboursRearranged DEF IrEntities
<1>4. \A u \in Neighbours(e.uniqueKeys) : u \in KeyTuples /\ Rearranged(e.uniqueKeys, u)
  <2>1. e.uniqueKeys \in Seq(Shorts)
    BY DEF IrEntities
  <2> HIDE DEF Shorts
  <2> QED BY <2>1, NeighboursRearranged
<1>5. \A u \in Neighbours(e.indexes) : u \in KeyTuples /\ Rearranged(e.indexes, u)
  <2>1. e.indexes \in Seq(Shorts)
    BY DEF IrEntities
  <2> HIDE DEF Shorts
  <2> QED BY <2>1, NeighboursRearranged
<1>6. \A u \in Neighbours(e.foreignKeys) : u \in ForeignSeqs /\ Rearranged(e.foreignKeys, u)
  BY NeighboursRearranged DEF IrEntities
<1> HIDE DEF Shorts, KeyTuples, FieldSeqs, ForeignSeqs
<1>7. ASSUME NEW u \in Neighbours(e.fields)
      PROVE  [e EXCEPT !.fields = u] \in IrEntities /\ SameEntity(e, [e EXCEPT !.fields = u])
  <2>1. u \in FieldSeqs /\ Rearranged(e.fields, u)
    BY <1>3
  <2> QED BY <1>1, <1>2, <2>1 DEF SameEntity
<1>8. ASSUME NEW u \in Neighbours(e.uniqueKeys)
      PROVE  [e EXCEPT !.uniqueKeys = u] \in IrEntities /\ SameEntity(e, [e EXCEPT !.uniqueKeys = u])
  <2>1. u \in KeyTuples /\ Rearranged(e.uniqueKeys, u)
    BY <1>4
  <2> QED BY <1>1, <1>2, <2>1 DEF SameEntity
<1>9. ASSUME NEW u \in Neighbours(e.indexes)
      PROVE  [e EXCEPT !.indexes = u] \in IrEntities /\ SameEntity(e, [e EXCEPT !.indexes = u])
  <2>1. u \in KeyTuples /\ Rearranged(e.indexes, u)
    BY <1>5
  <2> QED BY <1>1, <1>2, <2>1 DEF SameEntity
<1>10. ASSUME NEW u \in Neighbours(e.foreignKeys)
       PROVE  [e EXCEPT !.foreignKeys = u] \in IrEntities /\ SameEntity(e, [e EXCEPT !.foreignKeys = u])
  <2>1. u \in ForeignSeqs /\ Rearranged(e.foreignKeys, u)
    BY <1>6
  <2> QED BY <1>1, <1>2, <2>1 DEF SameEntity
<1> QED BY <1>7, <1>8, <1>9, <1>10

\* A document with two declarations exchanged is the same but for the order.
LEMMA ReorderedIr ==
    ASSUME NEW d \in IrDocuments, NEW g \in IrReorderings(d)
    PROVE  g \in IrDocuments /\ SameIr(d, g)
<1> DEFINE s == d.entities
<1>1. CASE \E t \in Neighbours(s) : g = [d EXCEPT !.entities = t]
  BY <1>1, TwoEntities
<1>2. ASSUME NEW i \in DOMAIN s, NEW x \in IrEntities, SameEntity(s[i], x),
             g = [d EXCEPT !.entities = [s EXCEPT ![i] = x]]
      PROVE  g \in IrDocuments /\ SameIr(d, g)
  BY <1>2, OneEntity
<1>3. \A i \in DOMAIN s : s[i] \in IrEntities
  BY DEF IrDocuments
<1>4. CASE \E i \in DOMAIN s : \E u \in Neighbours(s[i].fields) : g = [d EXCEPT !.entities[i].fields = u]
  <2>1. PICK i \in DOMAIN s : \E u \in Neighbours(s[i].fields) : g = [d EXCEPT !.entities[i].fields = u]
    BY <1>4
  <2>2. PICK u \in Neighbours(s[i].fields) : g = [d EXCEPT !.entities[i].fields = u]
    BY <2>1
  <2> DEFINE x == [s[i] EXCEPT !.fields = u]
  <2>3. x \in IrEntities /\ SameEntity(s[i], x)
    BY <1>3, ReorderedEntity
  <2>4. g = [d EXCEPT !.entities = [s EXCEPT ![i] = x]]
    BY <2>2
  <2> HIDE DEF x
  <2> QED BY <1>2, <2>3, <2>4
<1>5. CASE \E i \in DOMAIN s : \E u \in Neighbours(s[i].uniqueKeys) : g = [d EXCEPT !.entities[i].uniqueKeys = u]
  <2>1. PICK i \in DOMAIN s : \E u \in Neighbours(s[i].uniqueKeys) : g = [d EXCEPT !.entities[i].uniqueKeys = u]
    BY <1>5
  <2>2. PICK u \in Neighbours(s[i].uniqueKeys) : g = [d EXCEPT !.entities[i].uniqueKeys = u]
    BY <2>1
  <2> DEFINE x == [s[i] EXCEPT !.uniqueKeys = u]
  <2>3. x \in IrEntities /\ SameEntity(s[i], x)
    BY <1>3, ReorderedEntity
  <2>4. g = [d EXCEPT !.entities = [s EXCEPT ![i] = x]]
    BY <2>2
  <2> HIDE DEF x
  <2> QED BY <1>2, <2>3, <2>4
<1>6. CASE \E i \in DOMAIN s : \E u \in Neighbours(s[i].indexes) : g = [d EXCEPT !.entities[i].indexes = u]
  <2>1. PICK i \in DOMAIN s : \E u \in Neighbours(s[i].indexes) : g = [d EXCEPT !.entities[i].indexes = u]
    BY <1>6
  <2>2. PICK u \in Neighbours(s[i].indexes) : g = [d EXCEPT !.entities[i].indexes = u]
    BY <2>1
  <2> DEFINE x == [s[i] EXCEPT !.indexes = u]
  <2>3. x \in IrEntities /\ SameEntity(s[i], x)
    BY <1>3, ReorderedEntity
  <2>4. g = [d EXCEPT !.entities = [s EXCEPT ![i] = x]]
    BY <2>2
  <2> HIDE DEF x
  <2> QED BY <1>2, <2>3, <2>4
<1>7. CASE \E i \in DOMAIN s : \E u \in Neighbours(s[i].foreignKeys) : g = [d EXCEPT !.entities[i].foreignKeys = u]
  <2>1. PICK i \in DOMAIN s : \E u \in Neighbours(s[i].foreignKeys) : g = [d EXCEPT !.entities[i].foreignKeys = u]
    BY <1>7
  <2>2. PICK u \in Neighbours(s[i].foreignKeys) : g = [d EXCEPT !.entities[i].foreignKeys = u]
    BY <2>1
  <2> DEFINE x == [s[i] EXCEPT !.foreignKeys = u]
  <2>3. x \in IrEntities /\ SameEntity(s[i], x)
    BY <1>3, ReorderedEntity
  <2>4. g = [d EXCEPT !.entities = [s EXCEPT ![i] = x]]
    BY <2>2
  <2> HIDE DEF x
  <2> QED BY <1>2, <2>3, <2>4
<1> QED BY <1>1, <1>4, <1>5, <1>6, <1>7 DEF IrReorderings

LEMMA SameVerdict ==
    ASSUME NEW d \in IrDocuments, NEW g \in IrDocuments, SameIr(d, g), compileSchemaIr(d).ok
    PROVE  compileSchemaIr(g) = compileSchemaIr(d)
<1> DEFINE c == compileSchemaIr(d)
<1>1. normalizeFailures(d) = <<>>
  <2> HIDE DEF c
  <2> QED BY IrVerdict DEF c
<1>2. normalizeFailures(g) = <<>> /\ normalizeSchemaIr(g) = normalizeSchemaIr(d)
  BY <1>1, SameDocument
<1> QED BY <1>1, <1>2 DEF compileSchemaIr

\* The order of the declarations of a document decides nothing.
LEMMA CompiledOrder ==
    ASSUME IrInv
    PROVE  IrOrderIndependent
<1> SUFFICES ASSUME irPhase \in {"rejected", "applied"}, NEW g \in IrReorderings(irDoc)
             PROVE  /\ compileSchemaIr(g).ok = irResult.ok
                    /\ irResult.ok => compileSchemaIr(g) = irResult
  BY DEF IrOrderIndependent
<1>1. irDoc \in IrDocuments /\ irResult = compileSchemaIr(irDoc)
  BY DEF IrInv
<1>2. g \in IrDocuments /\ SameIr(irDoc, g) /\ SameIr(g, irDoc)
  BY <1>1, ReorderedIr, SameIrBack
<1>3. compileSchemaIr(g).ok \in BOOLEAN /\ compileSchemaIr(irDoc).ok \in BOOLEAN
  BY IrVerdict
<1>4. compileSchemaIr(irDoc).ok => compileSchemaIr(g) = compileSchemaIr(irDoc)
  BY <1>1, <1>2, SameVerdict
<1>5. compileSchemaIr(g).ok => compileSchemaIr(irDoc) = compileSchemaIr(g)
  BY <1>1, <1>2, SameVerdict
<1> QED BY <1>1, <1>3, <1>4, <1>5

\* What the pilot's compiler accepts becomes six descriptions that agree, however the author got
\* there: its statements run to the end but where two generated foreign-key names of an entity are
\* the same, null, absence, integers and lengths are the same in the column, the JSON Schema, CUE
\* and the three types, no two entities share a file (schema-ir/index.js:15-131, validate.js), and
\* the order in which entities, fields, keys and indexes are written decides nothing
\* (docs/schema-ir.md:32).
THEOREM PilotIsSound == IrSpec => []PilotArtifactsSound
<1>1. IrInv => PilotArtifactsSound
  <2> SUFFICES ASSUME IrInv PROVE PilotArtifactsSound
    OBVIOUS
  <2>1. OnlyForeignNamesClash
    BY DEF IrInv, OnlyForeignNamesClash, NamesClash
  <2>2. ShapesAgree
    BY AppliedShapes
  <2>3. RangesAgree
    BY AppliedRanges
  <2>4. FilesDistinct
    BY CompiledFiles
  <2>5. IrOrderIndependent
    BY CompiledOrder
  <2> QED BY <2>1, <2>2, <2>3, <2>4, <2>5 DEF PilotArtifactsSound
<1> QED BY <1>1, IrInvariance, PTL
=============================================================================
