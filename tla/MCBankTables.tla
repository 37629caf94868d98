---------------------------- MODULE MCBankTables ----------------------------
(* Instances of BankTables for TLC: keys 1 and 3 share a bucket of two, and the   *)
(* key sets (0, 1) and (1, 1) have hashes of their own in a bank with two keys.   *)
EXTENDS BankTables

const_KeySet == {<<0, 1>>, <<0, 3>>, <<1, 1>>}
const_Client == {0, 1}
const_Node == {<<<<0, 1>>, 0>>, <<<<0, 1>>, 1>>, <<<<0, 3>>, 0>>, <<<<1, 1>>, 0>>}

\* After a call of remove_by_key, which leaves a history in the counters, or a renewal to a
\* later timeout, up to two requests; after the renewal none with timeout 0.
FewLater ==
    /\ raises > 0 \/ served # {} => Cardinality(live) <= 2
    /\ raises > 0 => \A e \in live : heap.key[e] > 0
=============================================================================
