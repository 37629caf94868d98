----------------------------- MODULE MCCIServer -----------------------------
(***************************************************************************)
(* CMCCIServer: six banks of requests, the working set (the last packet    *)
(* produced for each variable), and the revision counters of the node's    *)
(* RevisionSet.  One action per public handler: process_request (split     *)
(* into its exits), process_production, process_data, enforce_timeouts,    *)
(* and the end and new start of the process.  The code is single threaded  *)
(* and its main loop is not written, so any handler may be called next.    *)
(*                                                                         *)
(* A handler that throws leaves what it changed; whoever calls it is not    *)
(* written either, so the server goes on or is restarted.                  *)
(*                                                                         *)
(* A handler may go adrift if it searches a heap of timeouts that is no     *)
(* longer in order (a bank that is not intact): FibonacciHeap and           *)
(* BankTables show what such a call can do, which no bank as it is seen     *)
(* here can tell.  A server that is adrift is not followed until a restart.  *)
(***************************************************************************)
EXTENDS RequestBankOps

CONSTANTS
    MyNode,         \* my_node_address
    RemoteNode,     \* addresses of other nodes
    HostAny,        \* MCCI_HOST_ANY
    Var,            \* variable identifiers used in packets, 0 included
    Schema,         \* the variables of the schema
    MaxLocal,       \* max_local_requests
    MaxRemote,      \* max_remote_requests
    Requests,       \* the request packets clients send
    MaxRevision,    \* bound on the revisions of data packets
    MaxTime         \* bound on the clock; timeouts are 0..MaxTime

ASSUME ServerAssumption ==
    /\ MyNode \in Nat \ {0} /\ HostAny \in Nat \ {0, MyNode}
    /\ RemoteNode \subseteq Nat \ {0, MyNode, HostAny} /\ IsFiniteSet(RemoteNode)
    /\ Var \subseteq Nat /\ 0 \in Var /\ IsFiniteSet(Var)
    /\ Schema \subseteq Var \ {0}
    /\ MaxLocal \in Counter /\ MaxRemote \in Counter
    /\ MaxRevision \in Counter /\ MaxRevision + 1 \in Counter
    /\ MaxTime \in Nat
    /\ Requests \subseteq [timeout : 0..MaxTime,
                           node : {0, MyNode, HostAny} \cup RemoteNode,
                           var : Var, revision : Counter, quantity : Int]

VARIABLES
    bank,       \* the six request banks, by name
    working,    \* m_working_set: revision of the packet held, 0 for NULL
    revision,   \* the revision counter of each variable
    now,        \* the clock
    sent,       \* what the last handler sent to clients: <<client, packet>>
    forwarded,  \* whether the last handler forwarded its request
    outcome,    \* how the last handler ended
    written,    \* history: clients whose counter in a bank remove_by_key has written
    asked,      \* history: the open specific requests that were forwarded
    faulted,    \* history: some handler threw or hung since the start
    ranAway     \* history: some range had no end since the start

state == <<bank, working, revision, now>>
answer == <<sent, forwarded, outcome>>
history == <<written, asked, faulted, ranAway>>
vars == <<state, answer, history>>

BankName == {"all", "host", "var", "hostvar", "remote", "varrev"}
TwoKeyBank == {"remote", "varrev"}      \* the ones remove_by_key is called on
Node == {MyNode} \cup RemoteNode
Time == 0..MaxTime
Packet == [node : Node, var : Var, revision : Counter]

KeysOf == [all     |-> {1},
           host    |-> Node,
           var     |-> Var,
           hostvar |-> Node \X Var,
           remote  |-> Node \X Var \X Counter,
           varrev  |-> Var \X Counter]

Running == outcome \notin {"hung", "adrift"}

-----------------------------------------------------------------------------
(* Helpers of the class *)

\* client_free_requests_local, client_free_requests_remote
FreeLocal(c) == Unsigned(MaxLocal - bank["varrev"].out[c])
FreeRemote(c) ==
    Unsigned(MaxRemote - (bank["host"].out[c] + bank["var"].out[c]
                          + bank["hostvar"].out[c] + bank["remote"].out[c]))

IsMyAddress(node) == node \in {0, MyNode}

IsRejectable(p) ==
    /\ 0 < p.revision
    /\ \/ p.node = 0 /\ p.var = 0
       \/ p.node = HostAny /\ 0 < p.var

\* add moves the node of a request that is there to another timeout.
Renews(b, key, c, t) == <<key, c>> \in Entries(b) /\ b.due[<<key, c>>] # t

\* The open requests of all banks, each with the name of its bank.
Requested == UNION {{name} \X Entries(bank[name]) : name \in BankName}

\* The history of forwarded requests, as far as they are still open.
StillAsked(pairs, banks) ==
    {a \in pairs : <<a[2], a[3]>> \in Entries(banks[a[1]])}

-----------------------------------------------------------------------------
(* process_request *)

\* What becomes of the banks is not told.
GoAdrift ==
    /\ outcome' = "adrift"
    /\ forwarded' = FALSE
    /\ UNCHANGED <<bank, written, asked>>

Faulting(how) == faulted' = (faulted \/ how \in {"threw", "hung", "adrift"})

\* add to a bank for one key; the request is then complete unless add throws.
Subscribe(name, key, c, t, forward) ==
    \/ /\ ~AddThrows(bank[name], key, c, t)
       /\ outcome' = "ok"
       /\ forwarded' = forward
       /\ bank' = [bank EXCEPT ![name] = AddAll(@, {key}, c, t)]
       /\ UNCHANGED <<asked, written>>
    \/ /\ AddThrows(bank[name], key, c, t)
       /\ outcome' = "threw"
       /\ forwarded' = FALSE
       /\ UNCHANGED <<bank, asked, written>>
    \/ /\ ~AddThrows(bank[name], key, c, t)
       /\ Renews(bank[name], key, c, t) /\ ~bank[name].intact
       /\ GoAdrift

\* The request ends without a trace.
Ignore(how) ==
    /\ outcome' = how
    /\ forwarded' = FALSE
    /\ UNCHANGED <<bank, asked, written>>

RejectRequest(c, p) ==
    /\ Running
    /\ IsRejectable(p)
    /\ Ignore("rejected")
    /\ sent' = {}
    /\ UNCHANGED <<working, revision, now, ranAway>>

\* "subscribing to ALL nodes": everything, or one variable on all nodes.
SubscribeAllNodes(c, p) ==
    /\ Running
    /\ ~IsRejectable(p)
    /\ p.node = HostAny
    /\ IF FreeRemote(c) = 0 THEN Ignore("dropped")
       ELSE IF p.var = 0 THEN Subscribe("all", 1, c, p.timeout, FALSE)
       ELSE Subscribe("var", p.var, c, p.timeout, FALSE)
    /\ sent' = {}
    /\ UNCHANGED <<working, revision, now, ranAway>>

\* Everything from one node.
SubscribeNode(c, p) ==
    /\ Running
    /\ p.node # HostAny
    /\ p.var = 0 /\ p.revision = 0
    /\ IF FreeRemote(c) = 0 THEN Ignore("dropped")
       ELSE Subscribe("host", IF p.node = 0 THEN MyNode ELSE p.node,
                      c, p.timeout, FALSE)
    /\ sent' = {}
    /\ UNCHANGED <<working, revision, now, ranAway>>

\* What is left for process_forwardable_request.
Forwardable(p) ==
    /\ ~IsRejectable(p)
    /\ p.node # HostAny
    /\ p.var # 0 \/ p.revision # 0

\* Any revision of a variable of a remote node: subscribe and forward.
SubscribeNodeVariable(c, p) ==
    /\ Running
    /\ Forwardable(p)
    /\ ~IsMyAddress(p.node) /\ p.revision = 0
    /\ IF FreeRemote(c) = 0 THEN Ignore("dropped")
       ELSE Subscribe("hostvar", <<p.node, p.var>>, c, p.timeout, TRUE)
    /\ sent' = {}
    /\ UNCHANGED <<working, revision, now, ranAway>>

Quantity(p) == IF p.quantity < 0 THEN -p.quantity ELSE p.quantity

LimitNone(c, p) == Quantity(p)      \* Mutant of Limit.

\* "max quantity allowed": the remote case compares with the local count.
Limit(c, p) ==
    IF FreeLocal(c) >= Quantity(p) THEN Quantity(p)
    ELSE IF IsMyAddress(p.node) THEN FreeLocal(c) ELSE FreeRemote(c)

\* Where to start counting, in unsigned arithmetic.
FirstRev(p, limit) ==
    IF 0 < p.revision
    THEN IF p.quantity > 0 THEN p.revision
         ELSE Unsigned(p.revision + Quantity(p) - limit)
    ELSE IF p.quantity > 0 THEN Unsigned(revision[p.var] - Quantity(p) + 1)
         ELSE Unsigned(revision[p.var] - limit + 1)
LastRev(first, limit) == Unsigned(first + limit - 1)

\* The values of r in for (r = firstrev; r <= lastrev; r++), a loop that does not end
\* when lastrev is the largest value, and the turn at which first r has a value.
Endless(last) == last = Modulus - 1
RevisionsOf(first, last) == IF Endless(last) THEN Counter ELSE first..last
Turn(first, r) == Unsigned(r - first)

RangeBank(p) == IF IsMyAddress(p.node) THEN "varrev" ELSE "remote"
\* Mutant of RangeKey: the fields of the local key swapped.
RangeKeySwapped(p, r) ==
    IF IsMyAddress(p.node) THEN <<r, p.var>> ELSE <<p.node, p.var, r>>

RangeKey(p, r) ==
    IF IsMyAddress(p.node) THEN <<p.var, r>> ELSE <<p.node, p.var, r>>

PastStrict(p, r) == IsMyAddress(p.node) /\ r < revision[p.var]   \* Mutant of Past.

\* A local revision of the past or present: looked up in the working set, which throws
\* for a variable the schema does not have.
Past(p, r) == IsMyAddress(p.node) /\ r <= revision[p.var]

\* Mutant of Held: whatever packet is held is taken for the one asked for.
HeldAny(p, r) ==
    /\ Past(p, r) /\ p.var \in Schema
    /\ working[p.var] # 0

Held(p, r) ==
    /\ Past(p, r) /\ p.var \in Schema
    /\ working[p.var] # 0 /\ r = working[p.var]

TurnThrows(c, p, r) ==
    \/ Past(p, r) /\ p.var \notin Schema
    \/ ~Held(p, r) /\ AddThrows(bank[RangeBank(p)], RangeKey(p, r), c, p.timeout)

\* The turns of the loop that move a node in a heap that is not in order, or no longer.
UnsureTurns(c, p, first, wanted) ==
    LET b == bank[RangeBank(p)]
        before(r) == {RangeKey(p, q) : q \in {q \in wanted : Turn(first, q) < Turn(first, r)}}
    IN  {r \in wanted : /\ Renews(b, RangeKey(p, r), c, p.timeout)
                        /\ ~AddAll(b, before(r), c, p.timeout).intact}

EntersRange(p) == Forwardable(p) /\ (IsMyAddress(p.node) \/ p.revision # 0)

\* Mutant of MustAsk: requests to other nodes are treated like local ones.
MustAskPast(p, wanted) == \E r \in wanted : Past(p, r)

\* do_forward: "all remote requests are forwarded", of the local ones those for the past.
MustAsk(p, wanted) == ~IsMyAddress(p.node) \/ \E r \in wanted : Past(p, r)

\* A range of revisions of one variable, from first on and no more than limit: each is
\* sent from the working set or subscribed to, until one throws.
AnswerRange(c, p, limit, first) ==
    LET last == LastRev(first, limit)
        revs == RevisionsOf(first, last)
        throwing == {r \in revs : TurnThrows(c, p, r)}
        done == {r \in revs : \A q \in throwing : Turn(first, r) < Turn(first, q)}
        held == {r \in done : Held(p, r)}
        wanted == done \ held
        keys == {RangeKey(p, r) : r \in wanted}
        name == RangeBank(p)
        answers(rs) == {<<c, [node |-> MyNode, var |-> p.var, revision |-> r]>> : r \in rs}
    IN  \/ /\ bank' = [bank EXCEPT ![name] = AddAll(@, keys, c, p.timeout)]
           /\ sent' = answers(held)
           /\ outcome' = IF throwing # {} THEN "threw"
                         ELSE IF Endless(last) THEN "hung" ELSE "ok"
           /\ forwarded' = (outcome' = "ok" /\ MustAsk(p, wanted))
           /\ asked' = IF forwarded' THEN asked \cup {<<name, key, c>> : key \in keys}
                       ELSE asked
           /\ ranAway' = (ranAway \/ Endless(last))
           /\ UNCHANGED written
        \/ /\ \E r \in UnsureTurns(c, p, first, wanted) :
                  sent' = answers({q \in held : Turn(first, q) < Turn(first, r)})
           /\ GoAdrift
           /\ UNCHANGED ranAway

RequestRange(c, p) ==
    /\ Running
    /\ EntersRange(p)
    /\ \E limit \in {Limit(c, p)} : \E first \in {FirstRev(p, limit)} :
           AnswerRange(c, p, limit, first)
    /\ UNCHANGED <<working, revision, now>>

ProcessRequest(c, p) ==
    /\ \/ RejectRequest(c, p)
       \/ SubscribeAllNodes(c, p)
       \/ SubscribeNode(c, p)
       \/ SubscribeNodeVariable(c, p)
       \/ RequestRange(c, p)
    /\ Faulting(outcome')

-----------------------------------------------------------------------------
(* process_data, enforce_fulfillment, process_production *)

\* Mutants of Hits: the banks of specific requests, or all others, are not looked at.
HitsBroad(d) ==
    Subscribers(bank["all"], 1)
      \cup Subscribers(bank["host"], d.node)
      \cup Subscribers(bank["var"], d.var)
      \cup Subscribers(bank["hostvar"], <<d.node, d.var>>)
HitsSpecific(d) ==
    Subscribers(bank["remote"], <<d.node, d.var, d.revision>>)
      \cup Subscribers(bank["varrev"], <<d.var, d.revision>>)

\* The clients in a bank for some key the packet matches.
Hits(d) ==
    Subscribers(bank["all"], 1)
      \cup Subscribers(bank["host"], d.node)
      \cup Subscribers(bank["var"], d.var)
      \cup Subscribers(bank["hostvar"], <<d.node, d.var>>)
      \cup Subscribers(bank["remote"], <<d.node, d.var, d.revision>>)
      \cup Subscribers(bank["varrev"], <<d.var, d.revision>>)

\* The bank and the key enforce_fulfillment removes.
FulfilledBank(d) == IF IsMyAddress(d.node) THEN "varrev" ELSE "remote"
FulfilledKey(d) ==
    IF IsMyAddress(d.node) THEN <<d.var, d.revision>>
    ELSE <<d.node, d.var, d.revision>>

\* process_data with its enforce_fulfillment.
Deliver(d) ==
    LET name == FulfilledBank(d)
        key == FulfilledKey(d)
        fulfils == Contains(bank[name], key)
    IN  /\ sent' = {<<c, d>> : c \in Hits(d)}
        /\ \/ /\ bank' = IF fulfils
                         THEN [bank EXCEPT ![name] = RemoveByKey(@, key, TRUE)]
                         ELSE bank
              /\ written' = IF fulfils
                            THEN [written EXCEPT ![name] = @ \cup Written(bank[name], key)]
                            ELSE written
              /\ outcome' = IF fulfils /\ RemoveByKeyThrows(bank[name])
                            THEN "threw" ELSE "ok"
              /\ asked' = StillAsked(asked, bank')
              /\ forwarded' = FALSE
           \/ fulfils /\ ~bank[name].intact /\ GoAdrift

\* A data packet from the network: of a remote node, or of this node's past from
\* whoever keeps it and was asked by a forwarded request.  Every node runs this program,
\* whose production refuses a variable that is not in the schema.
ProcessData(d) ==
    /\ Running
    /\ d.revision > 0
    /\ d.node = MyNode => d.revision <= revision[d.var]
    /\ Deliver(d)
    /\ Faulting(outcome')
    /\ UNCHANGED <<working, revision, now, ranAway>>

SetWorkingOnce(v, r) ==     \* Mutant of SetWorking: the slot is filled only once.
    working' = [working EXCEPT ![v] = IF @ = 0 THEN r ELSE @]

\* set_working_variable
SetWorking(v, r) == working' = [working EXCEPT ![v] = r]

\* The revision is taken first, so a variable that is not in the schema uses one up.
ProcessProduction(v) ==
    /\ Running
    /\ revision[v] < MaxRevision
    /\ revision' = [revision EXCEPT ![v] = @ + 1]
    /\ IF v \in Schema
       THEN /\ SetWorking(v, revision'[v])
            /\ Deliver([node |-> MyNode, var |-> v, revision |-> revision'[v]])
       ELSE /\ outcome' = "threw"
            /\ sent' = {} /\ forwarded' = FALSE
            /\ UNCHANGED <<bank, working, written, asked>>
    /\ Faulting(outcome')
    /\ UNCHANGED <<now, ranAway>>

-----------------------------------------------------------------------------
(* enforce_timeouts, time, restart *)

ExpiredEarly(b) == {e \in Entries(b) : now >= b.due[e]}    \* Mutant of Expired.

Expired(b) == {e \in Entries(b) : now > b.due[e]}

\* What the loops of enforce_timeouts may miss: with a heap that is not in order some of the
\* requests that are over, or all (m_count is wrong, and empty() says so).
Missable == {r \in Requested : ~bank[r[1]].intact /\ r[2] \in Expired(bank[r[1]])}

EnforceTimeouts ==
    /\ Running
    /\ \/ /\ \E missed \in SUBSET Missable :
                 bank' = [name \in BankName |->
                             LET b == bank[name]
                             IN  Expire(b, {e \in Expired(b) : <<name, e>> \notin missed})]
          /\ asked' = StillAsked(asked, bank')
          /\ outcome' = "ok" /\ forwarded' = FALSE
          /\ UNCHANGED written
       \/ /\ \E name \in BankName : ~bank[name].intact /\ Entries(bank[name]) # {}
          /\ GoAdrift
    /\ sent' = {}
    /\ Faulting(outcome')
    /\ UNCHANGED <<working, revision, now, ranAway>>

Tick ==
    /\ now <= MaxTime
    /\ now' = now + 1
    /\ UNCHANGED <<bank, working, revision, answer, history>>

\* A constructed server: empty banks and working set, revisions as they were kept.
Start ==
    /\ bank' = [name \in BankName |-> EmptyBank]
    /\ working' = [v \in Schema |-> 0]
    /\ sent' = {} /\ forwarded' = FALSE
    /\ written' = [name \in BankName |-> {}]
    /\ asked' = {}
    /\ faulted' = FALSE /\ ranAway' = FALSE

\* The process ends, at any point between two handlers or because it hangs, and a new
\* one loads the revisions (RevisionSet shows that it finds them).
Restart ==
    /\ outcome # "restarted"
    /\ outcome' = "restarted"
    /\ Start
    /\ UNCHANGED <<revision, now>>

Init ==
    /\ bank = [name \in BankName |-> EmptyBank]
    /\ working = [v \in Schema |-> 0]
    /\ revision = [v \in Var |-> 0]
    /\ now = 0
    /\ sent = {} /\ forwarded = FALSE
    /\ outcome = "restarted"
    /\ written = [name \in BankName |-> {}]
    /\ asked = {}
    /\ faulted = FALSE /\ ranAway = FALSE

Next ==
    \/ \E c \in Client, p \in Requests : ProcessRequest(c, p)
    \/ \E d \in [node : Node, var : Schema, revision : 1..MaxRevision] : ProcessData(d)
    \/ \E v \in Var : ProcessProduction(v)
    \/ EnforceTimeouts
    \/ Tick
    \/ Restart

Spec == Init /\ [][Next]_vars
-----------------------------------------------------------------------------
(* Properties *)

TypeOK ==
    /\ DOMAIN bank = BankName
    /\ \A name \in BankName : IsBank(bank[name], KeysOf[name], Time)
    /\ working \in [Schema -> Counter] /\ revision \in [Var -> Counter]
    /\ now \in 0..(MaxTime + 1)
    /\ sent \subseteq Client \X Packet
    /\ forwarded \in BOOLEAN /\ faulted \in BOOLEAN /\ ranAway \in BOOLEAN
    /\ outcome \in {"restarted", "ok", "rejected", "dropped", "threw", "hung",
                    "adrift"}
    /\ written \in [BankName -> SUBSET Client]

\* Every bank counts the open requests of every client (MCCIServer.cpp:561, 570 sum
\* these counters), except for clients whose counter a delivery has overwritten.
CountersTrack ==
    \A name \in BankName : \A c \in Client \ written[name] :
        bank[name].out[c] = Unsigned(Open(bank[name], c))

\* A client whose counter was not overwritten has at most max_local_requests open local
\* requests, whatever ranges it asked for and whatever expired or was renewed between,
\* unless a range without an end was among them.
LocalQuotaHeld ==
    ~ranAway => \A c \in Client \ written["varrev"] : Open(bank["varrev"], c) <= MaxLocal

\* What a request for the current value is answered with at once is the newest packet
\* of the variable: production keeps the working set and the counters together, and a
\* restart, which empties the working set, does not bring back an old packet.
WorkingIsLatest == \A v \in Schema : working[v] \in {0, revision[v]}

\* "if we don't have this value, must ask for it" (MCCIServer.cpp:319): as long as no
\* handler was cut short, every open request for one packet is for a revision that
\* this node is still to produce, or was forwarded.  Nobody waits for a packet that
\* nobody was asked for.
WaitingIsAskedFor ==
    ~faulted =>
        /\ \A e \in Entries(bank["varrev"]) :
              \/ e[1][2] > revision[e[1][1]]
              \/ <<"varrev", e[1], e[2]>> \in asked
        /\ \A e \in Entries(bank["remote"]) : <<"remote", e[1], e[2]>> \in asked

\* The packet a request in one of the two banks of specific requests waits for.
Awaits(name, key, d) ==
    \/ name = "varrev" /\ d.node = MyNode /\ key = <<d.var, d.revision>>
    \/ name = "remote" /\ d.node # MyNode /\ key = <<d.node, d.var, d.revision>>

\* A request leaves its bank only because its time is over, or because the packet it
\* waits for is being sent to its client in the same step.
NoSilentLoss ==
    [][outcome' # "restarted" =>
         \A name \in BankName : \A e \in Entries(bank[name]) \ Entries(bank'[name]) :
            \/ now > bank[name].due[e]
            \/ \E d \in Packet : <<e[2], d>> \in sent' /\ Awaits(name, e[1], d)]_vars

\* The requests a packet answers, by what their bank is for.
Matches(name, key, d) ==
    \/ name = "all"
    \/ name = "host" /\ key = d.node
    \/ name = "var" /\ key = d.var
    \/ name = "hostvar" /\ key = <<d.node, d.var>>
    \/ Awaits(name, key, d)

\* A produced packet is sent to every client with an open request that it answers, and
\* no request for exactly this packet stays open (unless the handler throws).
ProductionReachesAll ==
    [][\A v \in Schema : revision'[v] # revision[v] =>
         LET d == [node |-> MyNode, var |-> v, revision |-> revision'[v]]
         IN  /\ \A name \in BankName : \A e \in Entries(bank[name]) :
                   Matches(name, e[1], d) => <<e[2], d>> \in sent'
             /\ outcome' = "ok" =>
                   \A e \in Entries(bank'["varrev"]) : e[1] # <<v, d.revision>>]_vars

Service == INSTANCE Delivery
    WITH open <- [r \in Requested |-> bank[r[1]].due[r[2]]]

\* Where the server departs from Delivery, and from what its header says of it:
\*  - process_data also looks for the variable and revision of another node's packet among
\*    the requests for "a specific packet from this host" (MCCIServer.h:164);
\*  - enforce_fulfillment is to "remove all requests forz a specific packet that was
\*    delivered" (MCCIServer.h:100), and removes none if it throws, because of a timeout 0;
\*  - enforce_timeouts is to "remove all expired requests" (MCCIServer.h:97), some of which
\*    may stay in a bank that is not intact.
Misdirected(d) ==
    IF d.node = MyNode THEN {}
    ELSE {r \in Requested : r[1] = "varrev" /\ r[2][1] = <<d.var, d.revision>>}

Unfulfilled(d) ==
    IF outcome' = "threw" /\ RemoveByKeyThrows(bank[FulfilledBank(d)])
    THEN {r \in Requested : r[1] = FulfilledBank(d) /\ r[2][1] = FulfilledKey(d)}
    ELSE {}

Overdue == {r \in Requested : ~bank[r[1]].intact /\ r[2] \in Entries(bank'[r[1]])}

\* What a handler does to the clients: as Delivery says, or departing from it as named.
Serves ==
    \/ Service!Next
    \/ \E d \in Packet : Service!Relay(d, Misdirected(d), Unfulfilled(d))
    \/ \E v \in Schema : Service!Publish(v, Unfulfilled(Service!Produced(v)))
    \/ Service!Expire(Overdue)
    \/ outcome' = "adrift"

\* The server implements Delivery but for these departures, until it is adrift: besides the
\* misdirected ones a packet is sent to exactly the clients it answers; it completes the
\* requests for exactly this packet, all of them unless the handler throws; a request never
\* goes before it is over, and in an intact bank no later than enforce_timeouts is called;
\* no request is touched by another client's, and what is answered at once is the newest
\* packet; over renewals, handlers that throw, and restarts.
ImplementsDelivery == Service!Init /\ [][Serves]_(Service!vars)

\* "all requests are (or should be) OK after this" (MCCIServer.cpp:189): no request that
\* is not rejected is cut short by an exception.
RequestsAreOK ==
    [][\A c \in Client, p \in Requests : ProcessRequest(c, p) => outcome' # "threw"]_vars

=============================================================================
