------------------------- MODULE MCFibonacciHeapDeep -------------------------
(***************************************************************************)
(* FibonacciHeap with deep trees.  Marks and cascading cuts need a child    *)
(* that has two children itself, so a tree of eight nodes: the heap of      *)
(* these runs first fills with Fill entries in order of key, and then takes *)
(* at most Takes entries out and makes at most Hurries of them more urgent. *)
(* Nodes are numbers, so that the order of the first keys is theirs.        *)
(***************************************************************************)
EXTENDS FibonacciHeap

CONSTANTS
    Fill,       \* entries inserted first, with keys 2, 3, ...
    Takes,      \* bound on the entries taken out
    Hurries     \* bound on the entries lowered to key 1

VARIABLES filled, takes, hurries

deepVars == <<vars, filled, takes, hurries>>

DeepInit == Init /\ filled = 0 /\ takes = 0 /\ hurries = 0

FillUp ==
    /\ filled < Fill
    /\ Insert(filled + 1, filled + 2)
    /\ filled' = filled + 1
    /\ UNCHANGED <<takes, hurries>>

\* Take an entry out: the first one, or one that a delivery fulfils.
TakeOut ==
    /\ filled = Fill
    /\ takes < Takes
    /\ takes' = takes + 1
    /\ RemoveMinimum \/ \E n \in Node : RemoveNode(n)
    /\ UNCHANGED <<filled, hurries>>

\* Make an entry the one that expires first.
Hurry ==
    /\ filled = Fill
    /\ hurries < Hurries
    /\ hurries' = hurries + 1
    /\ \E n \in Node : LowerKey(n, 1)
    /\ UNCHANGED <<filled, takes>>

DeepNext == FillUp \/ TakeOut \/ Hurry

DeepSpec == DeepInit /\ [][DeepNext]_deepVars
=============================================================================
