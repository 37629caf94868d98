------------------------------ MODULE Delivery ------------------------------
(***************************************************************************)
(* What the server promises its clients, without its banks, counters and    *)
(* working set: which requests are open and until when, whom a packet is     *)
(* sent to, and which requests it completes.  A request <<kind, <<key,        *)
(* client>>>> says what it asks for by its kind and key:                    *)
(*   "all"      every packet                                                *)
(*   "host"     packets of a node                                           *)
(*   "var"      packets of a variable                                       *)
(*   "hostvar"  packets of a variable of a node                             *)
(*   "remote"   one packet of another node                                  *)
(*   "varrev"   one packet of this node                                     *)
(*                                                                         *)
(* The actions have parameters for what may go wrong: others, requests that  *)
(* a packet is sent to although it does not answer them; kept, requests that  *)
(* stay open although it completes them; late, requests that stay open        *)
(* although they are over.  Here all of them are empty.                      *)
(***************************************************************************)
EXTENDS Integers

CONSTANTS
    Client,
    MyNode,     \* the address of this node
    Packet,     \* data packets: node, var and revision
    Var,
    Schema,     \* the variables this node may produce
    Time        \* timeouts of requests

VARIABLES
    open,       \* the open requests, each with its timeout
    revision,   \* the newest revision of each variable of this node
    now,
    sent        \* what was sent last: pairs of a client and a packet

vars == <<open, revision, now, sent>>

Init ==
    /\ open = [r \in {} |-> 0]
    /\ revision = [v \in Var |-> 0]
    /\ now = 0
    /\ sent = {}

Kind(r) == r[1]
Key(r) == r[2][1]
Asker(r) == r[2][2]

Answers(d, r) ==
    \/ Kind(r) = "all"
    \/ Kind(r) = "host" /\ Key(r) = d.node
    \/ Kind(r) = "var" /\ Key(r) = d.var
    \/ Kind(r) = "hostvar" /\ Key(r) = <<d.node, d.var>>
    \/ Kind(r) = "remote" /\ Key(r) = <<d.node, d.var, d.revision>>
    \/ Kind(r) = "varrev" /\ Key(r) = <<d.var, d.revision>> /\ d.node = MyNode

\* A packet completes the requests for exactly this packet.
CompletedKind(d) == IF d.node = MyNode THEN "varrev" ELSE "remote"
CompletedKey(d) ==
    IF d.node = MyNode THEN <<d.var, d.revision>> ELSE <<d.node, d.var, d.revision>>

Completes(d, r) == Kind(r) = CompletedKind(d) /\ Key(r) = CompletedKey(d)

Without(requests) == [r \in DOMAIN open \ requests |-> open[r]]

\* A client asks: requests of its own are opened, or get another timeout, and nobody
\* else's are touched.  It may be sent newest packets at once.
Ask(c, t) ==
    /\ UNCHANGED <<revision, now>>
    /\ sent' \subseteq
           {<<c, [node |-> MyNode, var |-> v, revision |-> revision[v]]>> : v \in Schema}
    /\ DOMAIN open \subseteq DOMAIN open'
    /\ \A r \in DOMAIN open' :
           (IF r \in DOMAIN open THEN open'[r] # open[r] ELSE TRUE)
               => Asker(r) = c /\ open'[r] = t

\* A packet is sent to whom it answers, and the requests for exactly this packet are done.
Send(d, others, kept) ==
    /\ UNCHANGED now
    /\ sent' = {<<Asker(r), d>> : r \in {r \in DOMAIN open : Answers(d, r)} \cup others}
    /\ open' = Without({r \in DOMAIN open : Completes(d, r)} \ kept)

\* This node produces a packet, of a variable of its schema or in vain.
Produced(v) == [node |-> MyNode, var |-> v, revision |-> revision[v] + 1]

Publish(v, kept) ==
    /\ revision' = [revision EXCEPT ![v] = @ + 1]
    /\ IF v \in Schema THEN Send(Produced(v), {}, kept)
       ELSE sent' = {} /\ UNCHANGED <<open, now>>

\* A packet arrives, of another node or of this node's past.
Relay(d, others, kept) ==
    /\ UNCHANGED revision
    /\ d.node = MyNode => d.revision <= revision[d.var]
    /\ Send(d, others, kept)

\* All that is over, and nothing else, goes.
Expire(late) ==
    /\ sent' = {}
    /\ open' = Without({r \in DOMAIN open : now > open[r]} \ late)
    /\ UNCHANGED <<revision, now>>

Tick ==
    /\ now' = now + 1
    /\ UNCHANGED <<open, revision, sent>>

\* A new process: the open requests are forgotten, the revisions are not.
Restart ==
    /\ open' = [r \in {} |-> 0]
    /\ sent' = {}
    /\ UNCHANGED <<revision, now>>

Next ==
    \/ \E c \in Client, t \in Time : Ask(c, t)
    \/ \E v \in Var : Publish(v, {})
    \/ Expire({})
    \/ Tick
    \/ Restart
    \/ \E d \in Packet : Relay(d, {}, {})

Spec == Init /\ [][Next]_vars
=============================================================================
