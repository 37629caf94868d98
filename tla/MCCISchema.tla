----------------------------- MODULE MCCISchema -----------------------------
(***************************************************************************)
(* CMCCISchema: the variables of the table var of an sqlite database, each  *)
(* with an ordinal number.  A row is a record of its name and its type      *)
(* (protobuf_id and unit); a table maps the var_id of each enabled row to   *)
(* the row, and is read in the order of var_id, its primary key.            *)
(*                                                                         *)
(* The hash of a schema is the sequence of lines it is made of: SHA-1 and   *)
(* base64 are taken to tell all such sequences apart, and names to hold no  *)
(* tab or newline.                                                          *)
(***************************************************************************)
EXTENDS LinearHash

CONSTANTS
    VarId,      \* values of var_id in the database
    VarRange,   \* MCCI_VARIABLE_T is narrower than those: it wraps at this value (2^16)
    Row,        \* rows a table can have
    TooLong     \* the rows whose line does not fit into 512 bytes

ASSUME SchemaAssumption ==
    /\ IsFiniteSet(VarId) /\ VarId \subseteq Nat
    /\ VarRange \in Nat \ {0}
    /\ TooLong \subseteq Row

Tables == UNION {[ids -> Row] : ids \in SUBSET VarId}

NarrowNot(id) == id     \* Mutant of Narrow.

Narrow(id) == id % VarRange

\* What the vectors hold where load assigns nothing.
NoName == "no name"

\* The statement of load returns these, in this order.
Rows(table) ==
    LET ids == Ascending(DOMAIN table)
    IN  [i \in DOMAIN ids |-> [id |-> ids[i], row |-> table[ids[i]]]]

LineUntyped(r) == <<Narrow(r.id), r.row.name>>    \* Mutant of Line.

Line(r) == <<Narrow(r.id), r.row.name, r.row.type>>

\* load_cardinality
LoadCardinality(table) == Cardinality(DOMAIN table)

\* A row after as many as were counted is assigned past the ends of m_variable and m_name,
\* if the loop gets there.
LoadOverruns(table, cardinality) ==
    /\ LoadCardinality(table) > cardinality
    /\ \A i \in 1..cardinality : Rows(table)[i].row \notin TooLong

\* The loop stops with an exception at a line that does not fit.
LoadThrows(table, cardinality) ==
    /\ \E id \in DOMAIN table : table[id] \in TooLong
    /\ ~LoadOverruns(table, cardinality)

\* It also throws if the results of the SHA-1 calls do not add up to three, and without
\* a row the one of the loop is read unassigned.
LoadMayThrow(table, cardinality) == LoadThrows(table, cardinality) \/ DOMAIN table = {}

OrdinalFromOne(i) == i      \* Mutant of Ordinal.

\* The loop counts from 0.
Ordinal(i) == i - 1

\* What load leaves, having counted cardinality rows before it reads the table.
\* variable and name are indexed from 0, as the vectors are.
Load(table, cardinality) ==
    LET rows == Rows(table)
        at(ord) == CHOOSE i \in DOMAIN rows : Ordinal(i) = ord
        assigned(ord) == \E i \in DOMAIN rows : Ordinal(i) = ord
        ords == 0..(cardinality - 1)
    IN  [ordinality |->
             FoldLeft(LAMBDA hash, i : Put(hash, Narrow(rows[i].id), Ordinal(i)),
                      Sized(NearestPrime(cardinality)), [i \in DOMAIN rows |-> i]),
         variable |-> [o \in ords |-> IF assigned(o) THEN Narrow(rows[at(o)].id) ELSE 0],
         name |-> [o \in ords |-> IF assigned(o) THEN rows[at(o)].row.name ELSE NoName],
         hashval |-> [i \in DOMAIN rows |-> Line(rows[i])]]

GetCardinality(schema) == Cardinality(DOMAIN schema.name)

\* The variables ordinality_of_variable does not throw for.
Known(schema) == Keys(schema.ordinality)
OrdinalityOfVariable(schema, v) == At(schema.ordinality, v)

\* The other lookups do not throw for the ordinal of a variable.
InRange(schema, v) == OrdinalityOfVariable(schema, v) \in DOMAIN schema.name
NameOfVariable(schema, v) == schema.name[OrdinalityOfVariable(schema, v)]
VariableOfOrdinal(schema, ord) == schema.variable[ord]
=============================================================================
