----------------------------- MODULE PgCatalog -----------------------------
(***************************************************************************)
(* What PostgreSQL does with the statements the two schema compilers emit. *)
(* The database is outside the repository; both compilers write SQL for an *)
(* empty one.  A statement is refused, or it changes the catalog: schemas, *)
(* the names of relations (tables and indexes share one namespace per      *)
(* schema), tables with their columns, keys and constraint names, and the  *)
(* foreign keys.                                                           *)
(***************************************************************************)
EXTENDS Naturals, Sequences, FiniteSets, SequencesExt

CONSTANTS
    SystemColumns,      \* tableoid, xmin, cmin, xmax, cmax, ctid
    SystemSchemas       \* pg_* and information_schema

EmptyDatabase(schemas) ==
    [schemas |-> schemas, relations |-> {}, tables |-> {}, foreign |-> {}]

SeqUnique(s) == IsInjective(s)

Names(columns) == {c.name : c \in ToSet(columns)}

TableOf(db, schema, table) ==
    CHOOSE t \in db.tables : t.schema = schema /\ t.table = table

HasTable(db, schema, table) ==
    \E t \in db.tables : t.schema = schema /\ t.table = table

ColumnOf(t, name) == CHOOSE c \in t.columns : c.name = name

HasColumns(t, names) == ToSet(names) \subseteq {c.name : c \in t.columns}

-----------------------------------------------------------------------------
(* CREATE SCHEMA s                                                         *)
CreateSchema(schema) == [op |-> "schema", schema |-> schema]

CanCreateSchema(db, st) == st.schema \notin db.schemas

DoCreateSchema(db, st) == [db EXCEPT !.schemas = @ \cup {st.schema}]

(* CREATE TABLE s.t (columns, PRIMARY KEY, UNIQUE ...): the first of the   *)
(* keys is the primary key.  Every key owns an index in the same schema.   *)
CreateTable(schema, table, columns, keys) ==
    [op |-> "table", schema |-> schema, table |-> table,
     columns |-> columns, keys |-> keys]

NewRelations(st) == <<st.table>> \o [k \in DOMAIN st.keys |-> st.keys[k].name]

CanCreateTable(db, st) ==
    /\ st.schema \in db.schemas
    /\ SeqUnique(NewRelations(st))
    /\ \A n \in ToSet(NewRelations(st)) : <<st.schema, n>> \notin db.relations
    /\ SeqUnique([c \in DOMAIN st.columns |-> st.columns[c].name])
    /\ Names(st.columns) \cap SystemColumns = {}
    /\ \A k \in ToSet(st.keys) : /\ SeqUnique(k.columns)
                                 /\ ToSet(k.columns) \subseteq Names(st.columns)

\* A primary key makes its columns NOT NULL, whatever the column says.
DoCreateTable(db, st) ==
    LET pk == ToSet(st.keys[1].columns)
        row == [schema |-> st.schema, table |-> st.table,
                columns |-> {[c EXCEPT !.nullable = @ /\ c.name \notin pk] :
                             c \in ToSet(st.columns)},
                keys |-> {ToSet(k.columns) : k \in ToSet(st.keys)},
                constraints |-> {k.name : k \in ToSet(st.keys)}]
    IN  [db EXCEPT !.tables = @ \cup {row},
                   !.relations = @ \cup {<<st.schema, n>> :
                                         n \in ToSet(NewRelations(st))}]

(* ALTER TABLE s.t ADD CONSTRAINT name FOREIGN KEY ... REFERENCES ...      *)
AddForeignKey(schema, table, name, columns, refSchema, refTable, refColumns, onDelete) ==
    [op |-> "foreign", schema |-> schema, table |-> table, name |-> name,
     columns |-> columns, refSchema |-> refSchema, refTable |-> refTable,
     refColumns |-> refColumns, onDelete |-> onDelete]

CanAddForeignKey(db, st) ==
    /\ HasTable(db, st.schema, st.table)
    /\ HasTable(db, st.refSchema, st.refTable)
    /\ LET here == TableOf(db, st.schema, st.table)
           there == TableOf(db, st.refSchema, st.refTable)
       IN  /\ st.name \notin here.constraints
           /\ Len(st.columns) = Len(st.refColumns)
           /\ HasColumns(here, st.columns)
           /\ HasColumns(there, st.refColumns)
           /\ SeqUnique(st.refColumns)
           /\ ToSet(st.refColumns) \in there.keys
           /\ \A i \in DOMAIN st.columns :
                 ColumnOf(here, st.columns[i]).type
                     = ColumnOf(there, st.refColumns[i]).type

DoAddForeignKey(db, st) ==
    LET here == TableOf(db, st.schema, st.table)
        named == [here EXCEPT !.constraints = @ \cup {st.name}]
    IN  [db EXCEPT !.tables = (@ \ {here}) \cup {named},
                   !.foreign = @ \cup {st}]

(* CREATE INDEX name ON s.t (columns)                                      *)
CreateIndex(schema, table, name, columns) ==
    [op |-> "index", schema |-> schema, table |-> table, name |-> name,
     columns |-> columns]

CanCreateIndex(db, st) ==
    /\ HasTable(db, st.schema, st.table)
    /\ <<st.schema, st.name>> \notin db.relations
    /\ HasColumns(TableOf(db, st.schema, st.table), st.columns)

DoCreateIndex(db, st) ==
    [db EXCEPT !.relations = @ \cup {<<st.schema, st.name>>}]

-----------------------------------------------------------------------------
CanExecute(db, st) ==
    \/ st.op = "schema" /\ CanCreateSchema(db, st)
    \/ st.op = "table" /\ CanCreateTable(db, st)
    \/ st.op = "foreign" /\ CanAddForeignKey(db, st)
    \/ st.op = "index" /\ CanCreateIndex(db, st)

Execute(db, st) ==
    CASE st.op = "schema" -> DoCreateSchema(db, st)
      [] st.op = "table" -> DoCreateTable(db, st)
      [] st.op = "foreign" -> DoAddForeignKey(db, st)
      [] st.op = "index" -> DoCreateIndex(db, st)

\* ON DELETE SET NULL of this foreign key can be carried out for every row.
SetNullPossible(db, fk) ==
    fk.onDelete = "setNull" =>
        \A name \in ToSet(fk.columns) :
            ColumnOf(TableOf(db, fk.schema, fk.table), name).nullable
============================================================================
