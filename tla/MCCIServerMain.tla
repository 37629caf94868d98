--------------------------- MODULE MCCIServerMain ---------------------------
(***************************************************************************)
(* main of MCCIServerMain.cpp: the databases are opened, the schema is      *)
(* loaded, the revision set constructed and signed with its hash, the       *)
(* server constructed, and the databases closed.  The loop of the server   *)
(* is not written; a process that got as far is "running".                  *)
(*                                                                         *)
(* Other programs may change the table var between any two statements, a    *)
(* statement may be refused at each step, and the process may end at any    *)
(* moment and be started again.                                             *)
(***************************************************************************)
EXTENDS MCCISchema

CONSTANTS
    MaxEdits,   \* bound on the changes of the table var
    MaxStarts   \* bound on the processes that are started

ASSUME MainAssumption == MaxEdits \in Nat /\ MaxStarts \in Nat \ {0}

VARIABLES
    table,          \* table var of schema_db, its enabled rows
    signatures,     \* table signature of rs_db: the signature of each signature_id
    pc,             \* what main does next, or how it ended
    schemaDb,       \* the two connections
    rsDb,
    counted,        \* result of load_cardinality
    schema,         \* the schema, once loaded
    prepared,       \* which statements of the revision set were prepared; NULL the others
    signatureId,    \* m_signature_id of the revision set, 0 for none
    edits,          \* changes of the table var so far
    starts,         \* processes so far
    changed,        \* history: the table was changed after its rows were counted
    loads,          \* history: the tables that were loaded, with their counts
    served          \* history: hash and signature_id of the servers that were constructed

process == <<pc, schemaDb, rsDb, counted, schema, prepared, signatureId>>
vars == <<table, signatures, process, edits, starts, changed, loads, served>>

NoSchema == [hashval |-> <<"none">>]

Init ==
    /\ table \in Tables
    /\ signatures = <<>>
    /\ pc = "open schema" /\ schemaDb = "none" /\ rsDb = "none"
    /\ counted = 0 /\ schema = NoSchema /\ prepared = {} /\ signatureId = 0
    /\ edits = 0 /\ starts = 1
    /\ changed = FALSE
    /\ loads = {} /\ served = {}

\* Another program inserts, deletes, enables, disables or changes a row.
Edit ==
    /\ edits < MaxEdits
    /\ edits' = edits + 1
    /\ table' \in Tables \ {table}
    /\ \E id \in VarId :
           [other \in DOMAIN table \ {id} |-> table[other]]
               = [other \in DOMAIN table' \ {id} |-> table'[other]]
    /\ changed' = (pc = "load")
    /\ UNCHANGED <<signatures, process, starts, loads, served>>

-----------------------------------------------------------------------------
(* The databases *)

\* m_insert, m_read and m_update of the revision set.
Statements == {"insert", "read", "update"}

\* sqlite3_close: nothing for NULL, and refused while there are prepared statements.
Closed(db, statements) == IF db = "none" \/ statements # {} THEN db ELSE "closed"

\* try_open_db; a connection that could not be opened is closed by cleanup, the others too.
OpenSchema ==
    /\ pc = "open schema"
    /\ \/ pc' = "open revisions" /\ schemaDb' = "open"
       \/ pc' = "exit 1" /\ schemaDb' = Closed("failed", {})
    /\ UNCHANGED <<table, signatures, rsDb, counted, schema, prepared, signatureId, edits,
                   starts, changed, loads, served>>

OpenRevisions ==
    /\ pc = "open revisions"
    /\ \/ pc' = "count" /\ rsDb' = "open" /\ UNCHANGED schemaDb
       \/ /\ pc' = "exit 1"
          /\ rsDb' = Closed("failed", {})
          /\ schemaDb' = Closed(schemaDb, {})
    /\ UNCHANGED <<table, signatures, counted, schema, prepared, signatureId, edits, starts,
                   changed, loads, served>>

-----------------------------------------------------------------------------
(* The try block, whose exceptions are caught: main returns 0 *)

\* A statement fails at some step whose result is looked at.
Caught ==
    /\ pc \in {"count", "load", "sign", "look up", "serve"}
    /\ pc' = "exit 0"
    /\ UNCHANGED <<table, signatures, schemaDb, rsDb, counted, schema, prepared, signatureId,
                   edits, starts, changed, loads, served>>

CountRows ==
    /\ pc = "count"
    /\ pc' = "load"
    /\ counted' = LoadCardinality(table)
    /\ changed' = FALSE
    /\ UNCHANGED <<table, signatures, schemaDb, rsDb, schema, prepared, signatureId, edits,
                   starts, loads, served>>

\* Without rows, update_success is never assigned, and what it holds decides whether load
\* throws after all.
LoadRows ==
    /\ pc = "load"
    /\ IF LoadOverruns(table, counted)
       THEN pc' = "undefined" /\ UNCHANGED <<schema, loads>>
       ELSE \/ /\ LoadMayThrow(table, counted)
               /\ pc' = "exit 0" /\ UNCHANGED <<schema, loads>>
            \/ /\ ~LoadThrows(table, counted)
               /\ pc' = "prepare"
               /\ schema' = Load(table, counted)
               /\ loads' = loads \cup {[table |-> table, counted |-> counted,
                                        changed |-> changed]}
    /\ UNCHANGED <<table, signatures, schemaDb, rsDb, counted, prepared, signatureId, edits,
                   starts, changed, served>>

\* load of the revision set prepares three statements and looks at no result: each may
\* have been refused, and is NULL then.
PrepareStatements ==
    /\ pc = "prepare"
    /\ pc' = "sign"
    /\ prepared' \in SUBSET Statements
    /\ UNCHANGED <<table, signatures, schemaDb, rsDb, counted, schema, signatureId, edits,
                   starts, changed, loads, served>>

\* The rows the statement of lookup_signature_id selects.
Selected(signature) == {id \in DOMAIN signatures : signatures[id] = signature}

\* lookup_signature_id takes the row that comes first, 0 if there is none.
LookupSignatureId(signature) ==
    IF Selected(signature) = {} THEN {0} ELSE Selected(signature)

\* get_signature: of the row with the set's signature_id, empty if there is none.
GetSignature ==
    IF signatureId \in DOMAIN signatures THEN signatures[signatureId] ELSE <<"empty">>

SignAnew ==     \* Mutant of SetSignature: signs without a look.
    /\ pc = "sign"
    /\ pc' = "look up"
    /\ signatures' = Append(signatures, schema.hashval)
    /\ UNCHANGED <<table, schemaDb, rsDb, counted, schema, prepared, signatureId, edits,
                   starts, changed, loads, served>>

\* set_signature of a set that has none: looked up, and inserted if it is not there,
\* to be looked up once more.
SetSignature ==
    /\ pc = "sign"
    /\ signatureId' \in LookupSignatureId(schema.hashval)
    /\ IF signatureId' # 0
       THEN pc' = "serve" /\ UNCHANGED signatures
       ELSE pc' = "look up" /\ signatures' = Append(signatures, schema.hashval)
    /\ UNCHANGED <<table, schemaDb, rsDb, counted, schema, prepared, edits, starts, changed,
                   loads, served>>

LookUpAgain ==
    /\ pc = "look up"
    /\ pc' = "serve"
    /\ signatureId' \in LookupSignatureId(schema.hashval)
    /\ UNCHANGED <<table, signatures, schemaDb, rsDb, counted, schema, prepared, edits,
                   starts, changed, loads, served>>

\* The server is constructed, which compares the signature with the hash, and cleanup
\* closes the databases: that of the revision set if none of its statements was prepared.
ConstructServer ==
    /\ pc = "serve"
    /\ IF GetSignature = schema.hashval
       THEN /\ pc' = "running"
            /\ schemaDb' = Closed(schemaDb, {})
            /\ rsDb' = Closed(rsDb, prepared)
            /\ served' = served \cup {[hashval |-> schema.hashval, id |-> signatureId]}
       ELSE pc' = "exit 0" /\ UNCHANGED <<schemaDb, rsDb, served>>
    /\ UNCHANGED <<table, signatures, counted, schema, prepared, signatureId, edits, starts,
                   changed, loads>>

\* The process ends, here or later, and another one is started on the same databases.
Restart ==
    /\ pc # "undefined"
    /\ starts < MaxStarts
    /\ starts' = starts + 1
    /\ pc' = "open schema" /\ schemaDb' = "none" /\ rsDb' = "none"
    /\ counted' = 0 /\ schema' = NoSchema /\ prepared' = {} /\ signatureId' = 0
    /\ changed' = FALSE
    /\ UNCHANGED <<table, signatures, edits, loads, served>>

Next ==
    \/ Edit
    \/ OpenSchema
    \/ OpenRevisions
    \/ Caught
    \/ CountRows
    \/ LoadRows
    \/ PrepareStatements
    \/ SetSignature
    \/ LookUpAgain
    \/ ConstructServer
    \/ Restart

Spec == Init /\ [][Next]_vars
-----------------------------------------------------------------------------
(* Properties *)

TypeOK ==
    /\ table \in Tables
    /\ pc \in {"open schema", "open revisions", "count", "load", "prepare", "sign",
               "look up", "serve", "running", "exit 0", "exit 1", "undefined"}
    /\ schemaDb \in {"none", "open", "closed"} /\ rsDb \in {"none", "open", "closed"}
    /\ counted \in 0..Cardinality(VarId)
    /\ prepared \subseteq Statements
    /\ signatureId \in 0..Len(signatures)
    /\ edits \in 0..MaxEdits /\ starts \in 1..MaxStarts
    /\ changed \in BOOLEAN
    /\ schema # NoSchema =>
           /\ schema.variable \in [0..(counted - 1) -> 0..(VarRange - 1)]
           /\ DOMAIN schema.name = 0..(counted - 1)

Ids(load) == DOMAIN load.table
Schema(load) == Load(load.table, load.counted)

\* "keeps track of the ordinal numbers of each variable ID" (MCCISchema.h:18): if nobody
\* changed the table between the two statements of load, and its ids are different as
\* MCCI_VARIABLE_T, the three lookups are about the enabled rows, invert each other, and
\* never reach outside of the vectors, whose size is that of the server's working set.
LookupsAgree ==
    \A load \in loads :
        LET s == Schema(load)
        IN  ~load.changed /\ (\A i, j \in Ids(load) : Narrow(i) = Narrow(j) => i = j) =>
                /\ Known(s) = {Narrow(id) : id \in Ids(load)}
                /\ \A id \in Ids(load) :
                       /\ InRange(s, Narrow(id))
                       /\ NameOfVariable(s, Narrow(id)) = load.table[id].name
                       /\ VariableOfOrdinal(s, OrdinalityOfVariable(s, Narrow(id)))
                              = Narrow(id)
                /\ \A ord \in 0..(GetCardinality(s) - 1) :
                       OrdinalityOfVariable(s, VariableOfOrdinal(s, ord)) = ord

\* "assurance that all clients on all nodes have the same understanding of the meaning
\* ... of variables and the encoding of their values" (MCCISchema.h:12): whenever two
\* schemas have the same hash, the same variables are known, under the same ordinal
\* numbers and names, for rows of the same type; also if the table was changed while one
\* of them was loaded, and if ids coincide as MCCI_VARIABLE_T.
SameHashSameMeaning ==
    \A l, m \in loads :
        LET s == Schema(l)
            t == Schema(m)
            types(load) == {<<Narrow(id), load.table[id].type>> : id \in Ids(load)}
        IN  s.hashval = t.hashval =>
                /\ Known(s) = Known(t)
                /\ \A v \in Known(s) :
                       /\ OrdinalityOfVariable(s, v) = OrdinalityOfVariable(t, v)
                       /\ NameOfVariable(s, v) = NameOfVariable(t, v)
                /\ types(l) = types(m)

\* "assurance that revisions of variables created on a node do not produce duplicates ...
\* including across database crashes or restarts" (MCCIRevisionSet.h:12), which are kept
\* for each signature_id: servers of one schema go on with the revisions of one
\* signature_id, wherever processes ended between the insertion of the signature and its
\* use, and servers of different schemas never share one.
OneHashOneId ==
    \A s, t \in served : s.hashval = t.hashval <=> s.id = t.id
=============================================================================
