------------------------- MODULE MCCIServer_proofs --------------------------
(***************************************************************************)
(* Proofs about the server, for every set of clients, nodes, variables     *)
(* and requests, every quota and every width of the counters: its types;   *)
(* what it promises its clients (the newest packet is held, no request is  *)
(* lost, what is produced reaches everybody who asked, nobody waits for    *)
(* what nobody was asked for, the local quota holds); and that every       *)
(* handler is an action of Delivery.                                       *)
(***************************************************************************)
EXTENDS MCCIServer, RequestBankOps_proofs

LEMMA Counters ==
    /\ Counter \subseteq Nat /\ 0 \in Counter
    /\ \A n \in Counter : n \in Int /\ 0 <= n /\ n < Modulus
    /\ IsFiniteSet(Counter)
    /\ 1..MaxRevision \subseteq Counter
<1>1. /\ Counter \subseteq Nat /\ 0 \in Counter /\ 1..MaxRevision \subseteq Counter
      /\ \A n \in Counter : n \in Int /\ 0 <= n /\ n < Modulus
  BY BankAssumption, ServerAssumption DEF Counter, ServerAssumption
<1>2. IsFiniteSet(Counter)
  <2>1. 0 \in Int /\ Modulus - 1 \in Int
    BY BankAssumption
  <2> QED
    BY <2>1, FS_Interval DEF Counter
<1> QED
  BY <1>1, <1>2

\* A request packet, field by field.
LEMMA RequestTyped ==
    ASSUME NEW p \in Requests
    PROVE  /\ p.timeout \in Time
           /\ p.node \in {0, MyNode, HostAny} \cup RemoteNode
           /\ p.var \in Var
           /\ p.revision \in Counter
           /\ p.quantity \in Int
BY ServerAssumption DEF ServerAssumption, Time

LEMMA KeysAre ==
    /\ KeysOf["all"] = {1}
    /\ KeysOf["host"] = Node
    /\ KeysOf["var"] = Var
    /\ KeysOf["hostvar"] = Node \X Var
    /\ KeysOf["remote"] = Node \X Var \X Counter
    /\ KeysOf["varrev"] = Var \X Counter
BY DEF KeysOf

LEMMA KeysFinite == \A name \in BankName : IsFiniteSet(KeysOf[name])
<1>1. IsFiniteSet({1})
  BY FS_Singleton
<1>2. IsFiniteSet(Node) /\ IsFiniteSet(Var) /\ IsFiniteSet(Counter)
  <2>1. IsFiniteSet({MyNode}) /\ IsFiniteSet(RemoteNode)
    BY FS_Singleton, ServerAssumption DEF ServerAssumption
  <2>2. IsFiniteSet(Node)
    BY <2>1, FS_Union DEF Node
  <2> QED
    BY <2>2, Counters, ServerAssumption DEF ServerAssumption
<1>3. IsFiniteSet(Node \X Var) /\ IsFiniteSet(Var \X Counter)
  BY <1>2, FS_Product
<1>4. IsFiniteSet(Node \X Var \X Counter)
  <2> DEFINE pairs == (Node \X Var) \X Counter
             f == [x \in pairs |-> <<x[1][1], x[1][2], x[2]>>]
  <2>1. IsFiniteSet(pairs)
    BY <1>2, <1>3, FS_Product
  <2>2. f \in [pairs -> Node \X Var \X Counter]
    OBVIOUS
  <2>3. ASSUME NEW t \in Node \X Var \X Counter
        PROVE  \E x \in pairs : f[x] = t
    <3>1. <<<<t[1], t[2]>>, t[3]>> \in pairs
      OBVIOUS
    <3> QED
      BY <3>1
  <2>4. f \in Surjection(pairs, Node \X Var \X Counter)
    BY <2>2, <2>3 DEF Surjection
  <2> QED
    BY <2>1, <2>4, FS_Surjection
<1> HIDE DEF KeysOf
<1> QED
  BY <1>1, <1>2, <1>3, <1>4, KeysAre, Zenon DEF BankName

-----------------------------------------------------------------------------
(* What a step does to the banks: nothing, or one of these *)

Banks ==
    /\ DOMAIN bank = BankName
    /\ \A name \in BankName : bank[name] \in BankType(KeysOf[name], Time)

Adds(name, keys, c, t) ==
    /\ bank' = [bank EXCEPT ![name] = AddAll(@, keys, c, t)]
    /\ written' = written

Removes(name, key) ==
    /\ bank' = [bank EXCEPT ![name] = RemoveByKey(@, key, TRUE)]
    /\ written' = [written EXCEPT ![name] = @ \cup Written(bank[name], key)]

Expires ==
    /\ DOMAIN bank' = BankName
    /\ \A name \in BankName : \E gone \in SUBSET Expired(bank[name]) :
          bank'[name] = Expire(bank[name], gone)
    /\ written' = written

Empties ==
    /\ bank' = [name \in BankName |-> EmptyBank]
    /\ written' = [name \in BankName |-> {}]

Effect ==
    \/ bank' = bank /\ written' = written
    \/ \E name \in BankName : \E keys \in SUBSET KeysOf[name], c \in Client, t \in Time :
          Adds(name, keys, c, t)
    \/ \E name \in BankName : \E key \in KeysOf[name] : Removes(name, key)
    \/ Expires
    \/ Empties

\* The types of what is not a bank.
RestTypeOK ==
    /\ working \in [Schema -> Counter] /\ revision \in [Var -> Counter]
    /\ now \in 0..(MaxTime + 1)
    /\ sent \subseteq Client \X Packet
    /\ forwarded \in BOOLEAN /\ faulted \in BOOLEAN /\ ranAway \in BOOLEAN
    /\ outcome \in {"restarted", "ok", "rejected", "dropped", "threw", "hung", "adrift"}
    /\ written \in [BankName -> SUBSET Client]

LEMMA TypeParts == TypeOK <=> Banks /\ RestTypeOK
BY BankTypeIsBank DEF TypeOK, Banks, RestTypeOK

\* Where the range of a request lies.
LEMMA RangeTyped ==
    ASSUME TypeOK, NEW c \in Client, NEW p \in Requests
    PROVE  /\ Quantity(p) \in Nat
           /\ FreeLocal(c) \in Counter /\ FreeRemote(c) \in Counter
           /\ Limit(c, p) \in Nat
           /\ FirstRev(p, Limit(c, p)) \in Counter
           /\ LastRev(FirstRev(p, Limit(c, p)), Limit(c, p)) \in Counter
           /\ RevisionsOf(FirstRev(p, Limit(c, p)),
                          LastRev(FirstRev(p, Limit(c, p)), Limit(c, p)))
                  \subseteq Counter
<1>1. Quantity(p) \in Nat
  BY RequestTyped DEF Quantity
<1>2. ASSUME NEW name \in BankName PROVE bank[name].out[c] \in Int
  <2>1. bank[name] \in BankType(KeysOf[name], Time)
    BY TypeParts DEF Banks
  <2>2. bank[name].out \in [Client -> Counter]
    BY <2>1 DEF BankType
  <2> QED
    BY <2>2, Counters
<1>3. MaxLocal \in Int /\ MaxRemote \in Int
  BY ServerAssumption, Counters DEF ServerAssumption
<1>4. FreeLocal(c) \in Counter /\ FreeRemote(c) \in Counter
  <2> DEFINE local == MaxLocal - bank["varrev"].out[c]
             remote == MaxRemote - (bank["host"].out[c] + bank["var"].out[c]
                          + bank["hostvar"].out[c] + bank["remote"].out[c])
  <2>1. local \in Int /\ remote \in Int
    BY <1>2, <1>3 DEF BankName
  <2>2. Unsigned(local) \in Counter /\ Unsigned(remote) \in Counter
    <3> HIDE DEF local, remote
    <3> QED
      BY <2>1, UnsignedType
  <2> QED
    BY <2>2 DEF FreeLocal, FreeRemote
<1>5. Limit(c, p) \in Nat
  BY <1>1, <1>4, Counters DEF Limit
<1> DEFINE limit == Limit(c, p)
           first == FirstRev(p, limit)
<1> HIDE DEF limit
<1>6. limit \in Nat
  BY <1>5 DEF limit
<1>7. p.revision \in Counter /\ p.revision \in Int /\ revision[p.var] \in Int
  <2>1. p.var \in Var /\ p.revision \in Counter
    BY RequestTyped
  <2>2. revision \in [Var -> Counter]
    BY DEF TypeOK
  <2> QED
    BY <2>1, <2>2, Counters
<1>8. first \in Counter
  <2>1. /\ p.revision + Quantity(p) - limit \in Int
        /\ revision[p.var] - Quantity(p) + 1 \in Int
        /\ revision[p.var] - limit + 1 \in Int
    BY <1>1, <1>6, <1>7
  <2> QED
    BY <1>7, <2>1, UnsignedType DEF FirstRev
<1> HIDE DEF first
<1>9. LastRev(first, limit) \in Counter
  <2>1. first + limit - 1 \in Int
    BY <1>6, <1>8, Counters
  <2> QED
    BY <2>1, UnsignedType DEF LastRev
<1>10. RevisionsOf(first, LastRev(first, limit)) \subseteq Counter
  BY <1>8, <1>9, BankAssumption DEF RevisionsOf, Counter
<1> QED
  BY <1>1, <1>4, <1>6, <1>8, <1>9, <1>10 DEF first, limit

-----------------------------------------------------------------------------
(* Handler by handler *)

\* A request ends without a trace, or without one that is told, is a subscription for
\* one key, or is a range.
Ignored ==
    /\ UNCHANGED <<bank, asked, ranAway>>
    /\ sent' = {} /\ forwarded' = FALSE
    /\ outcome' \in {"rejected", "dropped", "threw", "adrift"}

Subscribed(c, t) ==
    /\ \E name \in BankName \ TwoKeyBank : \E key \in KeysOf[name] :
          bank' = [bank EXCEPT ![name] = AddAll(@, {key}, c, t)]
    /\ UNCHANGED <<asked, ranAway>>
    /\ sent' = {} /\ forwarded' \in BOOLEAN /\ outcome' = "ok"

LEMMA SubscribeCases ==
    ASSUME NEW name \in BankName \ TwoKeyBank, NEW key \in KeysOf[name],
           NEW c, NEW t, NEW forward \in BOOLEAN,
           Subscribe(name, key, c, t, forward), sent' = {}, ranAway' = ranAway
    PROVE  Ignored \/ Subscribed(c, t)
<1>1. CASE GoAdrift
  BY <1>1 DEF GoAdrift, Ignored
<1>2. CASE outcome' = "threw" /\ forwarded' = FALSE /\ UNCHANGED <<bank, asked, written>>
  BY <1>2 DEF Ignored
<1>3. CASE /\ outcome' = "ok" /\ forwarded' = forward
           /\ bank' = [bank EXCEPT ![name] = AddAll(@, {key}, c, t)]
           /\ UNCHANGED <<asked, written>>
  BY <1>3 DEF Subscribed
<1> QED
  BY <1>1, <1>2, <1>3 DEF Subscribe

LEMMA RequestCases ==
    ASSUME NEW c \in Client, NEW p \in Requests, ProcessRequest(c, p)
    PROVE  /\ UNCHANGED <<working, revision, now, written>>
           /\ faulted' = (faulted \/ outcome' \in {"threw", "hung", "adrift"})
           /\ Ignored \/ Subscribed(c, p.timeout) \/ RequestRange(c, p)
<1>1. faulted' = (faulted \/ outcome' \in {"threw", "hung", "adrift"})
  BY DEF ProcessRequest, Faulting
<1>2. UNCHANGED <<working, revision, now, written>>
  BY DEF ProcessRequest, RejectRequest, SubscribeAllNodes, SubscribeNode,
         SubscribeNodeVariable, RequestRange, AnswerRange, Ignore, Subscribe, GoAdrift
<1>3. "all" \in BankName \ TwoKeyBank /\ "host" \in BankName \ TwoKeyBank
      /\ "var" \in BankName \ TwoKeyBank /\ "hostvar" \in BankName \ TwoKeyBank
  BY DEF BankName, TwoKeyBank
<1>4. /\ p.node \in {0, MyNode, HostAny} \cup RemoteNode
      /\ p.var \in Var
  BY RequestTyped
<1> SUFFICES Ignored \/ Subscribed(c, p.timeout) \/ RequestRange(c, p)
  BY <1>1, <1>2
<1>5. CASE RejectRequest(c, p)
  BY <1>5 DEF RejectRequest, Ignore, Ignored
<1>6. CASE SubscribeAllNodes(c, p)
  <2>1. sent' = {} /\ ranAway' = ranAway
    BY <1>6 DEF SubscribeAllNodes
  <2>2. CASE Ignore("dropped")
    BY <2>1, <2>2 DEF Ignore, Ignored
  <2>3. CASE Subscribe("all", 1, c, p.timeout, FALSE)
    BY <1>3, <2>1, <2>3, KeysAre, SubscribeCases
  <2>4. CASE Subscribe("var", p.var, c, p.timeout, FALSE)
    BY <1>3, <1>4, <2>1, <2>4, KeysAre, SubscribeCases
  <2> QED
    BY <1>6, <2>2, <2>3, <2>4 DEF SubscribeAllNodes
<1>7. CASE SubscribeNode(c, p)
  <2> DEFINE node == IF p.node = 0 THEN MyNode ELSE p.node
  <2>1. sent' = {} /\ ranAway' = ranAway /\ p.node # HostAny
    BY <1>7 DEF SubscribeNode
  <2>2. node \in KeysOf["host"]
    BY <1>4, <2>1, KeysAre DEF Node
  <2>3. CASE Ignore("dropped")
    BY <2>1, <2>3 DEF Ignore, Ignored
  <2>4. CASE Subscribe("host", node, c, p.timeout, FALSE)
    BY <1>3, <2>1, <2>2, <2>4, SubscribeCases
  <2> QED
    BY <1>7, <2>3, <2>4 DEF SubscribeNode
<1>8. CASE SubscribeNodeVariable(c, p)
  <2>1. /\ sent' = {} /\ ranAway' = ranAway
        /\ p.node # HostAny /\ p.node \notin {0, MyNode}
    BY <1>8 DEF SubscribeNodeVariable, Forwardable, IsMyAddress
  <2>2. <<p.node, p.var>> \in KeysOf["hostvar"]
    BY <1>4, <2>1, KeysAre DEF Node
  <2>3. CASE Ignore("dropped")
    BY <2>1, <2>3 DEF Ignore, Ignored
  <2>4. CASE Subscribe("hostvar", <<p.node, p.var>>, c, p.timeout, TRUE)
    BY <1>3, <2>1, <2>2, <2>4, SubscribeCases
  <2> QED
    BY <1>8, <2>3, <2>4 DEF SubscribeNodeVariable
<1> QED
  BY <1>5, <1>6, <1>7, <1>8 DEF ProcessRequest

\* The revisions a range asks for.
RangeOf(c, p) ==
    RevisionsOf(FirstRev(p, Limit(c, p)),
                LastRev(FirstRev(p, Limit(c, p)), Limit(c, p)))
NoEnd(c, p) == Endless(LastRev(FirstRev(p, Limit(c, p)), Limit(c, p)))

\* A range subscribes to some of its revisions and is sent others.
RangeTakes(c, p, wanted, held) ==
    /\ bank' = [bank EXCEPT ![RangeBank(p)] =
                   AddAll(@, {RangeKey(p, r) : r \in wanted}, c, p.timeout)]
    /\ sent' = {<<c, [node |-> MyNode, var |-> p.var, revision |-> r]>> : r \in held}
    /\ outcome' \in {"ok", "threw", "hung"}
    /\ forwarded' = (outcome' = "ok" /\ MustAsk(p, wanted))
    /\ asked' = IF forwarded'
                THEN asked \cup {<<RangeBank(p), key, c>> :
                                  key \in {RangeKey(p, r) : r \in wanted}}
                ELSE asked
    /\ ranAway' = (ranAway \/ NoEnd(c, p))

\* A range that goes adrift was sent some revisions before.
RangeDrifts(c, p, held) ==
    /\ UNCHANGED <<bank, asked, ranAway>>
    /\ sent' = {<<c, [node |-> MyNode, var |-> p.var, revision |-> r]>> : r \in held}
    /\ outcome' = "adrift" /\ forwarded' = FALSE

LEMMA RangeCases ==
    ASSUME NEW c \in Client, NEW p \in Requests, RequestRange(c, p)
    PROVE  \E wanted, held \in SUBSET RangeOf(c, p) :
              /\ \A r \in held : Held(p, r)
              /\ RangeTakes(c, p, wanted, held) \/ RangeDrifts(c, p, held)
<1> DEFINE first == FirstRev(p, Limit(c, p))
           revs == RangeOf(c, p)
           throwing == {r \in revs : TurnThrows(c, p, r)}
           done == {r \in revs : \A q \in throwing : Turn(first, r) < Turn(first, q)}
           held == {r \in done : Held(p, r)}
           wanted == done \ held
           answers(rs) == {<<c, [node |-> MyNode, var |-> p.var, revision |-> r]>> : r \in rs}
<1>1. /\ wanted \in SUBSET RangeOf(c, p) /\ held \in SUBSET RangeOf(c, p)
      /\ \A r \in held : Held(p, r)
  OBVIOUS
<1>2. \/ RangeTakes(c, p, wanted, held)
      \/ /\ \E r \in UnsureTurns(c, p, first, wanted) :
               sent' = answers({q \in held : Turn(first, q) < Turn(first, r)})
         /\ GoAdrift /\ UNCHANGED ranAway
  <2>1. AnswerRange(c, p, Limit(c, p), first)
    BY DEF RequestRange
  <2> QED
    BY <2>1 DEF AnswerRange, RangeTakes, RangeOf, NoEnd
<1>3. CASE RangeTakes(c, p, wanted, held)
  BY <1>1, <1>3
<1>4. ASSUME NEW r, sent' = answers({q \in held : Turn(first, q) < Turn(first, r)}),
             GoAdrift, UNCHANGED ranAway
      PROVE  \E some \in SUBSET held : RangeDrifts(c, p, some)
  <2> DEFINE some == {q \in held : Turn(first, q) < Turn(first, r)}
  <2>1. some \in SUBSET held
    OBVIOUS
  <2>2. RangeDrifts(c, p, some)
    BY <1>4 DEF RangeDrifts, GoAdrift
  <2> QED
    BY <2>1, <2>2
<1> HIDE DEF held, wanted, answers
<1> QED
  BY <1>1, <1>2, <1>3, <1>4

\* The key of a revision belongs to the bank of the request.
LEMMA RangeKeyTyped ==
    ASSUME NEW p \in Requests, EntersRange(p), NEW r \in Counter
    PROVE  /\ RangeBank(p) \in TwoKeyBank
           /\ RangeKey(p, r) \in KeysOf[RangeBank(p)]
<1>1. /\ p.node \in {0, MyNode, HostAny} \cup RemoteNode
      /\ p.var \in Var /\ p.node # HostAny
  BY RequestTyped DEF EntersRange, Forwardable
<1>2. CASE IsMyAddress(p.node)
  BY <1>1, <1>2, KeysAre DEF RangeBank, RangeKey, TwoKeyBank
<1>3. CASE ~IsMyAddress(p.node)
  <2>1. p.node \in Node
    BY <1>1, <1>3 DEF Node, IsMyAddress
  <2> QED
    BY <1>1, <1>3, <2>1, KeysAre DEF RangeBank, RangeKey, TwoKeyBank
<1> QED
  BY <1>2, <1>3

LEMMA DeliverCases ==
    ASSUME NEW d \in Packet, Deliver(d)
    PROVE  /\ FulfilledBank(d) \in TwoKeyBank
           /\ FulfilledKey(d) \in KeysOf[FulfilledBank(d)]
           /\ \/ /\ Contains(bank[FulfilledBank(d)], FulfilledKey(d))
                 /\ Removes(FulfilledBank(d), FulfilledKey(d))
                 /\ outcome' = IF RemoveByKeyThrows(bank[FulfilledBank(d)])
                               THEN "threw" ELSE "ok"
              \/ /\ ~Contains(bank[FulfilledBank(d)], FulfilledKey(d))
                 /\ bank' = bank /\ written' = written /\ outcome' = "ok"
              \/ bank' = bank /\ written' = written /\ outcome' = "adrift"
           /\ sent' = {<<c, d>> : c \in Hits(d)}
           /\ outcome' \in {"ok", "threw", "adrift"} /\ forwarded' = FALSE
           /\ outcome' # "adrift" => asked' = StillAsked(asked, bank')
<1>1. d.node \in Node /\ d.var \in Var /\ d.revision \in Counter
  BY DEF Packet
<1>2. /\ FulfilledBank(d) \in TwoKeyBank
      /\ FulfilledKey(d) \in KeysOf[FulfilledBank(d)]
  BY <1>1, KeysAre DEF FulfilledBank, FulfilledKey, TwoKeyBank
<1> QED
  BY <1>2 DEF Deliver, Removes, GoAdrift

-----------------------------------------------------------------------------
(* The banks: types and counters *)

\* The packet that a step of process_production delivers.
Produced(v) == [node |-> MyNode, var |-> v, revision |-> revision[v] + 1]

\* process_data, or process_production of a variable of the schema.
Delivers(d) == d \in Packet /\ Deliver(d)

\* Every step is a request, a delivery, or one of these.
Elsewhere ==
    \/ Expires /\ asked' = StillAsked(asked, bank') /\ sent' = {}
    \/ Empties /\ asked' = {} /\ sent' = {} /\ ranAway' = FALSE
          /\ faulted' = FALSE /\ outcome' = "restarted"
    \/ UNCHANGED <<bank, written, asked>> /\ sent' \in {{}, sent}

LEMMA ProductionCases ==
    ASSUME TypeOK, NEW v \in Var, ProcessProduction(v)
    PROVE  /\ revision' = [revision EXCEPT ![v] = @ + 1]
           /\ revision[v] + 1 \in Counter /\ Produced(v) \in Packet
           /\ faulted' = (faulted \/ outcome' \in {"threw", "hung", "adrift"})
           /\ UNCHANGED <<now, ranAway>>
           /\ \/ /\ v \in Schema
                 /\ working' = [working EXCEPT ![v] = revision[v] + 1]
                 /\ Delivers(Produced(v))
              \/ /\ v \notin Schema /\ outcome' = "threw"
                 /\ sent' = {} /\ forwarded' = FALSE
                 /\ UNCHANGED <<bank, working, written, asked>>
<1>1. /\ revision[v] < MaxRevision
      /\ revision' = [revision EXCEPT ![v] = @ + 1]
      /\ faulted' = (faulted \/ outcome' \in {"threw", "hung", "adrift"})
      /\ UNCHANGED <<now, ranAway>>
  BY DEF ProcessProduction, Faulting
<1>2. revision[v] \in Counter /\ revision'[v] = revision[v] + 1
  BY <1>1 DEF TypeOK
<1>3. revision[v] + 1 \in Counter
  <2>1. revision[v] \in Int /\ 0 <= revision[v] /\ MaxRevision \in Counter
    BY <1>2, Counters, ServerAssumption DEF ServerAssumption
  <2>2. MaxRevision \in Int /\ MaxRevision < Modulus /\ Modulus \in Int
    BY <2>1, Counters, BankAssumption
  <2> QED
    BY <1>1, <2>1, <2>2 DEF Counter
<1>4. Produced(v) \in Packet
  BY <1>3 DEF Produced, Packet, Node
<1>5. CASE v \in Schema
  <2>1. /\ SetWorking(v, revision'[v])
        /\ Deliver([node |-> MyNode, var |-> v, revision |-> revision'[v]])
    BY <1>5 DEF ProcessProduction
  <2>2. /\ working' = [working EXCEPT ![v] = revision[v] + 1]
        /\ Deliver(Produced(v))
    BY <1>2, <2>1 DEF SetWorking, Produced
  <2> QED
    BY <1>1, <1>3, <1>4, <1>5, <2>2 DEF Delivers
<1>6. CASE v \notin Schema
  <2>1. /\ outcome' = "threw" /\ sent' = {} /\ forwarded' = FALSE
        /\ UNCHANGED <<bank, working, written, asked>>
    BY <1>6 DEF ProcessProduction
  <2> QED
    BY <1>1, <1>3, <1>4, <1>6, <2>1
<1> QED
  BY <1>5, <1>6

LEMMA DataCases ==
    ASSUME NEW d \in [node : Node, var : Schema, revision : 1..MaxRevision],
           ProcessData(d)
    PROVE  /\ Delivers(d) /\ d.revision > 0
           /\ faulted' = (faulted \/ outcome' \in {"threw", "hung", "adrift"})
           /\ UNCHANGED <<working, revision, now, ranAway>>
<1>1. d \in Packet
  BY Counters, ServerAssumption DEF Packet, ServerAssumption
<1> QED
  BY <1>1 DEF ProcessData, Delivers, Faulting

\* enforce_timeouts takes out some of what is over, or nobody can tell.
LEMMA TimeoutCases ==
    ASSUME EnforceTimeouts
    PROVE  /\ UNCHANGED <<working, revision, now, written, ranAway>>
           /\ faulted' = (faulted \/ outcome' \in {"threw", "hung", "adrift"})
           /\ sent' = {} /\ forwarded' = FALSE /\ outcome' \in {"ok", "adrift"}
           /\ outcome' = "ok" => Expires /\ asked' = StillAsked(asked, bank')
           /\ outcome' = "adrift" => UNCHANGED <<bank, asked>>
<1>1. CASE GoAdrift
  BY <1>1 DEF EnforceTimeouts, GoAdrift, Faulting
<1>2. ASSUME NEW missed \in SUBSET Missable,
             bank' = [name \in BankName |->
                         LET b == bank[name]
                         IN  Expire(b, {e \in Expired(b) : <<name, e>> \notin missed})]
      PROVE  /\ DOMAIN bank' = BankName
             /\ \A name \in BankName : \E gone \in SUBSET Expired(bank[name]) :
                   bank'[name] = Expire(bank[name], gone)
  <2>1. ASSUME NEW name \in BankName
        PROVE  \E gone \in SUBSET Expired(bank[name]) :
                  bank'[name] = Expire(bank[name], gone)
    <3> DEFINE gone == {e \in Expired(bank[name]) : <<name, e>> \notin missed}
    <3>1. gone \in SUBSET Expired(bank[name])
      OBVIOUS
    <3>2. bank'[name] = Expire(bank[name], gone)
      BY <1>2
    <3> HIDE DEF gone
    <3> QED
      BY <3>1, <3>2
  <2> QED
    BY <1>2, <2>1
<1>3. CASE ~GoAdrift
  BY <1>2, <1>3 DEF EnforceTimeouts, Faulting, Expires
<1> QED
  BY <1>1, <1>3

LEMMA DeliverEffect ==
    ASSUME NEW d, Delivers(d)
    PROVE  Effect
<1>1. TwoKeyBank \subseteq BankName
  BY DEF TwoKeyBank, BankName
<1> QED
  BY <1>1, DeliverCases DEF Delivers, Effect

LEMMA RequestEffect ==
    ASSUME TypeOK, NEW c \in Client, NEW p \in Requests, ProcessRequest(c, p)
    PROVE  Effect
<1>1. written' = written /\ p.timeout \in Time
  BY RequestCases, RequestTyped
<1>2. CASE Ignored
  BY <1>1, <1>2 DEF Ignored, Effect
<1>3. CASE Subscribed(c, p.timeout)
  <2> PICK name \in BankName \ TwoKeyBank : \E key \in KeysOf[name] :
          bank' = [bank EXCEPT ![name] = AddAll(@, {key}, c, p.timeout)]
    BY <1>3 DEF Subscribed
  <2> PICK key \in KeysOf[name] :
          bank' = [bank EXCEPT ![name] = AddAll(@, {key}, c, p.timeout)]
    OBVIOUS
  <2>1. Adds(name, {key}, c, p.timeout)
    BY <1>1 DEF Adds
  <2> QED
    BY <1>1, <2>1 DEF Effect
<1>4. CASE RequestRange(c, p)
  <2> PICK wanted \in SUBSET RangeOf(c, p), held \in SUBSET RangeOf(c, p) :
          RangeTakes(c, p, wanted, held) \/ RangeDrifts(c, p, held)
    BY <1>4, RangeCases
  <2> DEFINE keys == {RangeKey(p, r) : r \in wanted}
  <2>1. RangeOf(c, p) \subseteq Counter
    BY RangeTyped DEF RangeOf
  <2>2. EntersRange(p)
    BY <1>4 DEF RequestRange
  <2>3. RangeBank(p) \in BankName
    BY DEF RangeBank, BankName
  <2>4. keys \in SUBSET KeysOf[RangeBank(p)]
    BY <2>1, <2>2, RangeKeyTyped
  <2>5. CASE RangeTakes(c, p, wanted, held)
    <3>1. Adds(RangeBank(p), keys, c, p.timeout)
      BY <1>1, <2>5 DEF Adds, RangeTakes
    <3> HIDE DEF keys
    <3> QED
      BY <1>1, <2>3, <2>4, <3>1 DEF Effect
  <2>6. CASE RangeDrifts(c, p, held)
    BY <1>1, <2>6 DEF RangeDrifts, Effect
  <2> QED
    BY <2>5, <2>6
<1> QED
  BY <1>2, <1>3, <1>4, RequestCases

LEMMA ElsewhereEffect == Elsewhere => Effect
BY DEF Elsewhere, Effect

LEMMA StepCases ==
    ASSUME TypeOK, [Next]_vars
    PROVE  \/ \E c \in Client, p \in Requests : ProcessRequest(c, p)
           \/ \E d : Delivers(d)
           \/ Elsewhere
<1>1. ASSUME NEW d \in [node : Node, var : Schema, revision : 1..MaxRevision],
             ProcessData(d)
      PROVE  Delivers(d)
  BY <1>1, DataCases
<1>2. ASSUME NEW v \in Var, ProcessProduction(v)
      PROVE  Delivers(Produced(v)) \/ Elsewhere
  BY <1>2, ProductionCases DEF Elsewhere
<1>3. CASE EnforceTimeouts
  BY <1>3, TimeoutCases DEF Elsewhere
<1>4. CASE Tick
  BY <1>4 DEF Tick, Elsewhere, answer, history
<1>5. CASE Restart
  BY <1>5 DEF Restart, Start, Elsewhere, Empties
<1>6. CASE UNCHANGED vars
  BY <1>6 DEF vars, state, answer, history, Elsewhere
<1> QED
  BY <1>1, <1>2, <1>3, <1>4, <1>5, <1>6 DEF Next

LEMMA StepEffect == TypeOK /\ [Next]_vars => Effect
BY StepCases, RequestEffect, DeliverEffect, ElsewhereEffect

\* Each effect keeps the types of the banks and the counters that it does not write.
LEMMA EffectKeeps ==
    ASSUME Banks, Effect, written \in [BankName -> SUBSET Client]
    PROVE  /\ Banks'
           /\ written' \in [BankName -> SUBSET Client]
           /\ CountersTrack => CountersTrack'
<1>t. \A name \in BankName :
          bank[name] \in BankType(KeysOf[name], Time) /\ IsFiniteSet(KeysOf[name])
  BY KeysFinite DEF Banks
<1>c. CountersTrack <=> \A name \in BankName : \A c \in Client \ written[name] :
                            Tracks(bank[name], c)
  BY DEF CountersTrack, Tracks
<1>d. CountersTrack' <=> \A name \in BankName : \A c \in Client \ written'[name] :
                             Tracks(bank'[name], c)
  BY DEF CountersTrack, Tracks
<1>1. CASE bank' = bank /\ written' = written
  BY <1>1, <1>c, <1>d DEF Banks
<1>2. ASSUME NEW name \in BankName, NEW keys \in SUBSET KeysOf[name],
             NEW c \in Client, NEW t \in Time, Adds(name, keys, c, t)
      PROVE  Banks' /\ written' = written /\ (CountersTrack => CountersTrack')
  <2>1. /\ AddAll(bank[name], keys, c, t) \in BankType(KeysOf[name], Time)
        /\ \A d \in Client :
              Tracks(bank[name], d) => Tracks(AddAll(bank[name], keys, c, t), d)
    BY <1>t, AddKeeps
  <2>2. bank'[name] = AddAll(bank[name], keys, c, t)
    BY <1>2 DEF Adds, Banks
  <2>3. /\ DOMAIN bank' = BankName /\ written' = written
        /\ \A n \in BankName \ {name} : bank'[n] = bank[n]
    BY <1>2 DEF Adds, Banks
  <2>4. Banks'
    BY <1>t, <2>1, <2>2, <2>3 DEF Banks
  <2>5. ASSUME CountersTrack PROVE CountersTrack'
    BY <2>5, <1>c, <1>d, <2>1, <2>2, <2>3
  <2> QED
    BY <2>3, <2>4, <2>5
<1>3. ASSUME NEW name \in BankName, NEW key \in KeysOf[name], Removes(name, key)
      PROVE  /\ Banks' /\ written' \in [BankName -> SUBSET Client]
             /\ CountersTrack => CountersTrack'
  <2>1. /\ RemoveByKey(bank[name], key, TRUE) \in BankType(KeysOf[name], Time)
        /\ \A d \in Client \ Written(bank[name], key) :
              Tracks(bank[name], d) => Tracks(RemoveByKey(bank[name], key, TRUE), d)
    BY <1>t, RemoveByKeyKeeps
  <2>2. bank'[name] = RemoveByKey(bank[name], key, TRUE)
    BY <1>3 DEF Removes, Banks
  <2>3. /\ DOMAIN bank' = BankName
        /\ \A n \in BankName \ {name} : bank'[n] = bank[n]
    BY <1>3 DEF Removes, Banks
  <2>4. Written(bank[name], key) \subseteq Client
    BY DEF Written, Subscribers
  <2>5. /\ written' \in [BankName -> SUBSET Client]
        /\ written'[name] = written[name] \cup Written(bank[name], key)
        /\ \A n \in BankName \ {name} : written'[n] = written[n]
    BY <1>3, <2>4 DEF Removes
  <2>6. Banks'
    BY <1>t, <2>1, <2>2, <2>3 DEF Banks
  <2>7. ASSUME CountersTrack PROVE CountersTrack'
    BY <2>7, <1>c, <1>d, <2>1, <2>2, <2>3, <2>5
  <2> QED
    BY <2>5, <2>6, <2>7
<1>4. CASE Expires
  <2>1. \A name \in BankName : Expired(bank[name]) \subseteq Entries(bank[name])
    BY DEF Expired
  <2>2. ASSUME NEW name \in BankName
        PROVE  /\ bank'[name] \in BankType(KeysOf[name], Time)
               /\ \A d \in Client : Tracks(bank[name], d) => Tracks(bank'[name], d)
    <3> PICK gone \in SUBSET Expired(bank[name]) : bank'[name] = Expire(bank[name], gone)
      BY <1>4 DEF Expires
    <3>1. gone \subseteq Entries(bank[name])
      BY <2>1
    <3> QED
      BY <1>t, <3>1, ExpireKeeps
  <2>3. DOMAIN bank' = BankName /\ written' = written
    BY <1>4 DEF Expires
  <2>4. Banks'
    BY <2>2, <2>3 DEF Banks
  <2>5. ASSUME CountersTrack PROVE CountersTrack'
    BY <2>5, <1>c, <1>d, <2>2, <2>3
  <2> QED
    BY <2>3, <2>4, <2>5
<1>5. CASE Empties
  <2>1. \A name \in BankName : bank'[name] = EmptyBank
    BY <1>5 DEF Empties
  <2>2. DOMAIN bank' = BankName /\ written' \in [BankName -> SUBSET Client]
    BY <1>5 DEF Empties
  <2>3. Banks'
    BY <2>1, <2>2, EmptyBankType, BankTypeIsBank DEF Banks
  <2>4. ASSUME NEW c \in Client PROVE Tracks(EmptyBank, c)
    <3>1. Open(EmptyBank, c) = 0
      <4>1. EntriesOf(EmptyBank, c) = {}
        BY DEF EntriesOf, Share, Entries, EmptyBank
      <4> QED
        BY <4>1, FS_EmptySet DEF Open
    <3>2. Unsigned(0) = 0
      BY BankAssumption DEF Unsigned
    <3> QED
      BY <3>1, <3>2 DEF Tracks, EmptyBank
  <2> QED
    BY <1>d, <2>1, <2>2, <2>3, <2>4
<1> QED
  BY <1>1, <1>2, <1>3, <1>4, <1>5 DEF Effect

-----------------------------------------------------------------------------
(* Types *)

LEMMA ServerInit == Init => TypeOK /\ CountersTrack
<1> SUFFICES ASSUME Init PROVE TypeOK /\ CountersTrack
  OBVIOUS
<1>1. \A name \in BankName : bank[name] = EmptyBank
  BY DEF Init
<1>2. \A name \in BankName : IsBank(bank[name], KeysOf[name], Time)
  BY <1>1, EmptyBankType
<1>3. TypeOK
  <2>1. DOMAIN bank = BankName /\ written \in [BankName -> SUBSET Client]
    BY DEF Init
  <2>2. working \in [Schema -> Counter] /\ revision \in [Var -> Counter]
    BY Counters DEF Init
  <2>3. now \in 0..(MaxTime + 1)
    BY ServerAssumption DEF Init, ServerAssumption
  <2>4. /\ sent \subseteq Client \X Packet
        /\ forwarded \in BOOLEAN /\ faulted \in BOOLEAN /\ ranAway \in BOOLEAN
        /\ outcome \in {"restarted", "ok", "rejected", "dropped", "threw", "hung", "adrift"}
    BY DEF Init
  <2> QED
    BY <1>2, <2>1, <2>2, <2>3, <2>4 DEF TypeOK
<1>4. \A c \in Client : EmptyBank.out[c] = Unsigned(Open(EmptyBank, c))
  <2> SUFFICES ASSUME NEW c \in Client PROVE EmptyBank.out[c] = Unsigned(Open(EmptyBank, c))
    OBVIOUS
  <2>1. EntriesOf(EmptyBank, c) = {}
    BY DEF EntriesOf, Share, Entries, EmptyBank
  <2>2. Open(EmptyBank, c) = 0
    BY <2>1, FS_EmptySet DEF Open
  <2>3. Unsigned(0) = 0
    BY BankAssumption DEF Unsigned
  <2> QED
    BY <2>2, <2>3 DEF EmptyBank
<1> QED
  BY <1>1, <1>3, <1>4 DEF CountersTrack

\* The types of what a handler answers with.
AnswerTyped ==
    /\ sent' \subseteq Client \X Packet
    /\ forwarded' \in BOOLEAN
    /\ outcome' \in {"restarted", "ok", "rejected", "dropped", "threw", "hung", "adrift"}

LEMMA RequestAnswer ==
    ASSUME TypeOK, NEW c \in Client, NEW p \in Requests, ProcessRequest(c, p)
    PROVE  AnswerTyped /\ ranAway' \in BOOLEAN
<1>1. CASE Ignored
  BY <1>1 DEF Ignored, AnswerTyped, TypeOK
<1>2. CASE Subscribed(c, p.timeout)
  BY <1>2 DEF Subscribed, AnswerTyped, TypeOK
<1>3. CASE RequestRange(c, p)
  <2> PICK wanted \in SUBSET RangeOf(c, p), held \in SUBSET RangeOf(c, p) :
          RangeTakes(c, p, wanted, held) \/ RangeDrifts(c, p, held)
    BY <1>3, RangeCases
  <2>1. held \subseteq Counter /\ p.var \in Var
    BY RangeTyped, RequestTyped DEF RangeOf
  <2>2. sent' \subseteq Client \X Packet
    BY <2>1 DEF RangeTakes, RangeDrifts, Packet, Node
  <2>3. ranAway' \in BOOLEAN /\ forwarded' \in BOOLEAN
    BY DEF RangeTakes, RangeDrifts, TypeOK
  <2> QED
    BY <2>2, <2>3 DEF RangeTakes, RangeDrifts, AnswerTyped
<1> QED
  BY <1>1, <1>2, <1>3, RequestCases

LEMMA DeliverAnswer ==
    ASSUME NEW d, Delivers(d)
    PROVE  AnswerTyped
<1>1. sent' = {<<c, d>> : c \in Hits(d)} /\ d \in Packet
      /\ outcome' \in {"ok", "threw", "adrift"} /\ forwarded' = FALSE
  BY DeliverCases DEF Delivers
<1>2. Hits(d) \subseteq Client
  BY DEF Hits, Subscribers
<1>3. sent' \subseteq Client \X Packet
  BY <1>1, <1>2
<1>4. forwarded' \in BOOLEAN
  BY <1>1
<1>5. outcome' \in {"restarted", "ok", "rejected", "dropped", "threw", "hung", "adrift"}
  BY <1>1
<1> QED
  BY <1>3, <1>4, <1>5 DEF AnswerTyped

LEMMA TypeStep == TypeOK /\ [Next]_vars => TypeOK'
<1> SUFFICES ASSUME TypeOK, [Next]_vars PROVE TypeOK'
  OBVIOUS
<1>1. Banks' /\ written' \in [BankName -> SUBSET Client]
  BY TypeParts, StepEffect, EffectKeeps DEF RestTypeOK
<1>2. (TypeOK <=> Banks /\ RestTypeOK)'
  <2>1. \A name \in BankName : IsBank(bank'[name], KeysOf[name], Time)
                              <=> bank'[name] \in BankType(KeysOf[name], Time)
    BY BankTypeIsBank
  <2> QED
    BY <2>1 DEF TypeOK, Banks, RestTypeOK
<1> SUFFICES RestTypeOK'
  BY <1>1, <1>2
<1>3. ASSUME AnswerTyped, faulted' \in BOOLEAN, ranAway' \in BOOLEAN,
             UNCHANGED <<working, revision, now>>
      PROVE  RestTypeOK'
  BY <1>1, <1>3 DEF AnswerTyped, TypeOK, RestTypeOK
<1>4. ASSUME NEW c \in Client, NEW p \in Requests, ProcessRequest(c, p)
      PROVE  RestTypeOK'
  BY <1>3, <1>4, RequestCases, RequestAnswer DEF TypeOK
<1>5. ASSUME NEW d \in [node : Node, var : Schema, revision : 1..MaxRevision],
             ProcessData(d)
      PROVE  RestTypeOK'
  BY <1>3, <1>5, DataCases, DeliverAnswer DEF TypeOK
<1>6. ASSUME NEW v \in Var, ProcessProduction(v)
      PROVE  RestTypeOK'
  <2>1. /\ revision' = [revision EXCEPT ![v] = revision[v] + 1]
        /\ revision[v] + 1 \in Counter
        /\ faulted' = (faulted \/ outcome' \in {"threw", "hung", "adrift"})
        /\ UNCHANGED <<now, ranAway>>
    BY <1>6, ProductionCases
  <2>2. revision' \in [Var -> Counter]
    BY <2>1 DEF TypeOK
  <2>3. working' \in [Schema -> Counter] /\ AnswerTyped
    <3>1. CASE v \in Schema /\ Delivers(Produced(v))
               /\ working' = [working EXCEPT ![v] = revision[v] + 1]
      BY <2>1, <3>1, DeliverAnswer DEF TypeOK
    <3>2. CASE outcome' = "threw" /\ sent' = {} /\ forwarded' = FALSE
               /\ working' = working
      BY <3>2 DEF TypeOK, AnswerTyped
    <3> QED
      BY <1>6, <3>1, <3>2, ProductionCases
  <2> QED
    BY <1>1, <2>1, <2>2, <2>3 DEF AnswerTyped, TypeOK, RestTypeOK
<1>7. CASE EnforceTimeouts
  BY <1>3, <1>7, TimeoutCases DEF AnswerTyped, TypeOK
<1>8. CASE Tick
  BY <1>1, <1>8, ServerAssumption
     DEF Tick, answer, history, TypeOK, RestTypeOK, ServerAssumption
<1>9. CASE Restart
  BY <1>1, <1>9, Counters, ServerAssumption
     DEF Restart, Start, TypeOK, RestTypeOK, ServerAssumption
<1>10. CASE UNCHANGED vars
  BY <1>10 DEF vars, state, answer, history, TypeOK, RestTypeOK
<1> QED
  BY <1>4, <1>5, <1>6, <1>7, <1>8, <1>9, <1>10 DEF Next

\* Every state of the server has its type.
THEOREM TypeCorrect == Spec => []TypeOK
BY ServerInit, TypeStep, PTL DEF Spec

\* The counters of every bank are the numbers of open requests, modulo the width, for all
\* clients that no delivery has served: the server computes its allowances from them.
THEOREM CountersAreExact == Spec => []CountersTrack
<1>1. TypeOK /\ CountersTrack /\ [Next]_vars => (TypeOK /\ CountersTrack)'
  BY TypeStep, TypeParts, StepEffect, EffectKeeps DEF RestTypeOK
<1> QED
  BY <1>1, ServerInit, PTL DEF Spec

-----------------------------------------------------------------------------
(* What the server promises its clients *)

LEMMA AddEntries ==
    ASSUME NEW b, NEW keys, NEW c, NEW t
    PROVE  Entries(AddAll(b, keys, c, t)) = Entries(b) \cup {<<key, c>> : key \in keys}
BY DEF AddAll, Entries

LEMMA ExpireEntries ==
    ASSUME NEW K, NEW T, NEW b \in BankType(K, T), NEW gone
    PROVE  Entries(Expire(b, gone)) = Entries(b) \ gone
BY DEF Expire, Entries, BankType

LEMMA RemoveEntries ==
    ASSUME NEW K, NEW T, NEW b \in BankType(K, T), NEW key
    PROVE  \A e : e \in Entries(RemoveByKey(b, key, TRUE)) <=>
                     e \in Entries(b) /\ (RemoveByKeyThrows(b) \/ e[1] # key)
<1>1. CASE RemoveByKeyThrows(b)
  BY <1>1 DEF RemoveByKey, Entries, BankType
<1>2. CASE ~RemoveByKeyThrows(b)
  BY <1>2 DEF RemoveByKey, Entries, BankType
<1> QED
  BY <1>1, <1>2

\* An open request is of a key of its bank and of a client.
LEMMA EntryTyped ==
    ASSUME TypeOK, NEW name \in BankName, NEW e \in Entries(bank[name])
    PROVE  /\ bank[name] \in BankType(KeysOf[name], Time)
           /\ e[1] \in KeysOf[name] /\ e[2] \in Client /\ e = <<e[1], e[2]>>
           /\ e[2] \in Subscribers(bank[name], e[1])
<1>1. bank[name] \in BankType(KeysOf[name], Time)
  BY TypeParts DEF Banks
<1>2. Entries(bank[name]) \subseteq KeysOf[name] \X Client
  BY <1>1, BankFields
<1>3. e[1] \in KeysOf[name] /\ e[2] \in Client /\ e = <<e[1], e[2]>>
  BY <1>2
<1> QED
  BY <1>1, <1>3 DEF Subscribers

\* Whoever is in a bank for a key that the packet matches is hit.
LEMMA SubscriberHit ==
    ASSUME NEW d \in Packet, NEW name \in BankName, NEW key \in KeysOf[name],
           NEW c \in Subscribers(bank[name], key), Matches(name, key, d)
    PROVE  c \in Hits(d)
<1>1. CASE name = "all"
  BY <1>1, KeysAre DEF Hits
<1>2. CASE name = "host" /\ key = d.node
  BY <1>2 DEF Hits
<1>3. CASE name = "var" /\ key = d.var
  BY <1>3 DEF Hits
<1>4. CASE name = "hostvar" /\ key = <<d.node, d.var>>
  BY <1>4 DEF Hits
<1>5. CASE Awaits(name, key, d)
  BY <1>5 DEF Awaits, Hits
<1> QED
  BY <1>1, <1>2, <1>3, <1>4, <1>5 DEF Matches

LEMMA MatchesHit ==
    ASSUME TypeOK, NEW d \in Packet, NEW name \in BankName,
           NEW e \in Entries(bank[name]), Matches(name, e[1], d)
    PROVE  e[2] \in Hits(d)
BY EntryTyped, SubscriberHit

\* Requests take nothing out of a bank.
LEMMA RequestsAdd ==
    ASSUME TypeOK, NEW c \in Client, NEW p \in Requests, ProcessRequest(c, p),
           NEW name \in BankName
    PROVE  Entries(bank[name]) \subseteq Entries(bank'[name])
<1>1. DOMAIN bank = BankName
  BY DEF TypeOK
<1>2. ASSUME NEW other \in BankName, NEW keys,
             bank' = [bank EXCEPT ![other] = AddAll(@, keys, c, p.timeout)]
      PROVE  Entries(bank[name]) \subseteq Entries(bank'[name])
  <2>1. CASE name = other
    <3>1. bank'[name] = AddAll(bank[name], keys, c, p.timeout)
      BY <1>1, <1>2, <2>1
    <3> QED
      BY <3>1, AddEntries
  <2>2. CASE name # other
    BY <1>1, <1>2, <2>2
  <2> QED
    BY <2>1, <2>2
<1>3. CASE Ignored
  BY <1>3 DEF Ignored
<1>4. CASE Subscribed(c, p.timeout)
  BY <1>2, <1>4 DEF Subscribed
<1>5. CASE RequestRange(c, p)
  <2>1. RangeBank(p) \in BankName
    BY DEF RangeBank, BankName
  <2> QED
    BY <1>2, <1>5, <2>1, RangeCases DEF RangeTakes, RangeDrifts
<1> QED
  BY <1>3, <1>4, <1>5, RequestCases

\* A delivery takes out requests for its packet, whose clients are sent it, and if it
\* does not throw it takes out all of them.
LEMMA DeliveryTakes ==
    ASSUME TypeOK, NEW d, Delivers(d)
    PROVE  /\ d \in Packet
           /\ \A name \in BankName : \A e \in Entries(bank[name]) \ Entries(bank'[name]) :
                 Awaits(name, e[1], d) /\ <<e[2], d>> \in sent'
           /\ \A name \in BankName : Entries(bank'[name]) \subseteq Entries(bank[name])
           /\ outcome' = "ok" =>
                 \A e \in Entries(bank'[FulfilledBank(d)]) : e[1] # FulfilledKey(d)
<1> DEFINE name == FulfilledBank(d)
           key == FulfilledKey(d)
<1>1. /\ d \in Packet /\ d.node \in Node
      /\ name \in BankName /\ name \in TwoKeyBank
      /\ DOMAIN bank = BankName
  BY DeliverCases DEF Delivers, Packet, BankName, TwoKeyBank, TypeOK
<1>2. bank[name] \in BankType(KeysOf[name], Time)
  BY <1>1, TypeParts DEF Banks
<1>3. sent' = {<<c, d>> : c \in Hits(d)}
  BY DeliverCases DEF Delivers
<1>4. Awaits(name, key, d)
  <2>1. d.node # 0
    BY <1>1, ServerAssumption DEF Node, ServerAssumption
  <2> QED
    BY <2>1 DEF FulfilledBank, FulfilledKey, Awaits, IsMyAddress
<1>5. CASE Contains(bank[name], key) /\ Removes(name, key)
  <2>1. bank'[name] = RemoveByKey(bank[name], key, TRUE)
    BY <1>1, <1>5 DEF Removes
  <2>2. \A n \in BankName \ {name} : bank'[n] = bank[n]
    BY <1>1, <1>5 DEF Removes
  <2>3. \A e : e \in Entries(bank'[name]) <=>
                 e \in Entries(bank[name]) /\ (RemoveByKeyThrows(bank[name]) \/ e[1] # key)
    <3> HIDE DEF name, key
    <3> QED
      BY <1>2, <2>1, RemoveEntries
  <2>4. ASSUME NEW n \in BankName, NEW e \in Entries(bank[n]), e \notin Entries(bank'[n])
        PROVE  Awaits(n, e[1], d) /\ <<e[2], d>> \in sent'
    <3>1. n = name
      BY <2>2, <2>4
    <3>2. e[1] = key
      BY <2>3, <2>4, <3>1
    <3>3. Matches(n, e[1], d)
      BY <1>4, <3>1, <3>2 DEF Matches
    <3>4. e[2] \in Hits(d)
      BY <1>1, <3>3, MatchesHit
    <3> QED
      BY <1>3, <1>4, <3>1, <3>2, <3>4
  <2>5. \A n \in BankName : Entries(bank'[n]) \subseteq Entries(bank[n])
    BY <2>2, <2>3
  <2>6. ASSUME outcome' = "ok" PROVE ~RemoveByKeyThrows(bank[name])
    BY <1>5, <2>6, DeliverCases DEF Delivers
  <2> QED
    BY <1>1, <2>3, <2>4, <2>5, <2>6
<1>6. CASE ~Contains(bank[name], key) /\ bank' = bank
  <2>1. ASSUME NEW e \in Entries(bank[name]) PROVE e[1] # key
    BY <1>1, <1>6, EntryTyped DEF Contains
  <2> QED
    BY <1>1, <1>6, <2>1
<1>7. CASE bank' = bank /\ outcome' = "adrift"
  BY <1>1, <1>7
<1> QED
  BY <1>5, <1>6, <1>7, DeliverCases DEF Delivers

-----------------------------------------------------------------------------
\* A request leaves its bank only because its time is over, or because the packet it
\* waits for is being sent to its client: enforce_fulfillment and enforce_timeouts take
\* out nothing else, and no request displaces another.
THEOREM NothingIsLost == Spec => NoSilentLoss
<1> DEFINE Kept(name) == \A e \in Entries(bank[name]) \ Entries(bank'[name]) :
              \/ now > bank[name].due[e]
              \/ \E d \in Packet : <<e[2], d>> \in sent' /\ Awaits(name, e[1], d)
           Step == outcome' # "restarted" => \A name \in BankName : Kept(name)
<1>1. TypeOK /\ [Next]_vars => [Step]_vars
  <2> SUFFICES ASSUME TypeOK, [Next]_vars, outcome' # "restarted",
                      NEW name \in BankName
               PROVE  Kept(name)
    OBVIOUS
  <2>1. ASSUME NEW c \in Client, NEW p \in Requests, ProcessRequest(c, p)
        PROVE  Kept(name)
    BY <2>1, RequestsAdd
  <2>2. ASSUME NEW d, Delivers(d) PROVE Kept(name)
    BY <2>2, DeliveryTakes
  <2>3. CASE Elsewhere
    <3>1. CASE Expires
      <4> PICK gone \in SUBSET Expired(bank[name]) : bank'[name] = Expire(bank[name], gone)
        BY <3>1 DEF Expires
      <4>2. bank[name] \in BankType(KeysOf[name], Time)
        BY TypeParts DEF Banks
      <4>3. Entries(bank'[name]) = Entries(bank[name]) \ gone
        BY <4>2, ExpireEntries
      <4> QED
        BY <4>3 DEF Expired
    <3>2. CASE bank' = bank
      BY <3>2
    <3> QED
      BY <2>3, <3>1, <3>2 DEF Elsewhere
  <2> QED
    BY <2>1, <2>2, <2>3, StepCases
<1> QED
  BY <1>1, TypeCorrect, PTL DEF Spec, NoSilentLoss

\* A produced packet is sent to every client with an open request that it answers, in
\* whichever bank, and no request for this packet stays open unless the handler throws.
THEOREM ProductionIsDelivered == Spec => ProductionReachesAll
<1> DEFINE New(v) == [node |-> MyNode, var |-> v, revision |-> revision'[v]]
           Reaches(v) ==
             /\ \A name \in BankName : \A e \in Entries(bank[name]) :
                   Matches(name, e[1], New(v)) => <<e[2], New(v)>> \in sent'
             /\ outcome' = "ok" =>
                   \A e \in Entries(bank'["varrev"]) : e[1] # <<v, New(v).revision>>
           Step == \A v \in Schema : revision'[v] # revision[v] => Reaches(v)
<1>1. TypeOK /\ [Next]_vars => [Step]_vars
  <2> SUFFICES ASSUME TypeOK, Next, NEW v \in Schema, revision'[v] # revision[v]
               PROVE  Reaches(v)
    OBVIOUS
  <2>1. ASSUME revision' = revision PROVE FALSE
    BY <2>1
  <2>2. ASSUME NEW w \in Var, ProcessProduction(w) PROVE Reaches(v)
    <3>1. revision' = [revision EXCEPT ![w] = revision[w] + 1]
      BY <2>2, ProductionCases
    <3>2. v = w
      BY <3>1 DEF TypeOK
    <3>3. revision'[v] = revision[v] + 1
      BY <3>1, <3>2 DEF TypeOK
    <3> DEFINE d == New(v)
    <3>4. d = Produced(v) /\ Delivers(d)
      BY <2>2, <3>2, <3>3, ProductionCases DEF Produced
    <3>5. /\ d \in Packet /\ sent' = {<<c, d>> : c \in Hits(d)}
      BY <3>4, DeliverCases DEF Delivers
    <3>6. /\ FulfilledBank(d) = "varrev"
          /\ FulfilledKey(d) = <<v, d.revision>>
      BY DEF FulfilledBank, FulfilledKey, IsMyAddress
    <3> HIDE DEF d
    <3>7. ASSUME NEW name \in BankName, NEW e \in Entries(bank[name]),
                 Matches(name, e[1], d)
          PROVE  <<e[2], d>> \in sent'
      BY <3>5, <3>7, MatchesHit
    <3>8. ASSUME outcome' = "ok", NEW e \in Entries(bank'["varrev"])
          PROVE  e[1] # <<v, d.revision>>
      BY <3>4, <3>6, <3>8, DeliveryTakes
    <3> QED
      BY <3>7, <3>8 DEF d
  <2>3. ASSUME NEW c \in Client, NEW p \in Requests, ProcessRequest(c, p) PROVE FALSE
    BY <2>1, <2>3, RequestCases
  <2>4. ASSUME NEW d \in [node : Node, var : Schema, revision : 1..MaxRevision],
               ProcessData(d)
        PROVE  FALSE
    BY <2>1, <2>4, DataCases
  <2>5. EnforceTimeouts \/ Tick \/ Restart => FALSE
    BY <2>1, TimeoutCases DEF Tick, Restart
  <2> QED
    BY <2>2, <2>3, <2>4, <2>5 DEF Next
<1> QED
  BY <1>1, TypeCorrect, PTL DEF Spec, ProductionReachesAll

\* The packet held for a variable is the newest one: process_production replaces it in
\* the step that takes the number, and a restart does not bring back an old one.
THEOREM NewestIsHeld == Spec => []WorkingIsLatest
<1>1. Init => WorkingIsLatest
  BY DEF Init, WorkingIsLatest
<1>2. TypeOK /\ WorkingIsLatest /\ [Next]_vars => WorkingIsLatest'
  <2> SUFFICES ASSUME TypeOK, WorkingIsLatest, [Next]_vars PROVE WorkingIsLatest'
    OBVIOUS
  <2>1. CASE working' = working /\ revision' = revision
    BY <2>1 DEF WorkingIsLatest
  <2>2. ASSUME NEW w \in Var, ProcessProduction(w) PROVE WorkingIsLatest'
    <3>1. /\ revision' = [revision EXCEPT ![w] = revision[w] + 1]
          /\ \/ w \in Schema /\ working' = [working EXCEPT ![w] = revision[w] + 1]
             \/ w \notin Schema /\ working' = working
      BY <2>2, ProductionCases
    <3> QED
      BY <3>1, ServerAssumption DEF WorkingIsLatest, TypeOK, ServerAssumption
  <2>3. CASE Restart
    BY <2>3 DEF Restart, Start, WorkingIsLatest
  <2>4. ASSUME NEW c \in Client, NEW p \in Requests, ProcessRequest(c, p)
        PROVE  WorkingIsLatest'
    BY <2>1, <2>4, RequestCases
  <2>5. ASSUME NEW d \in [node : Node, var : Schema, revision : 1..MaxRevision],
               ProcessData(d)
        PROVE  WorkingIsLatest'
    BY <2>1, <2>5, DataCases
  <2>6. EnforceTimeouts \/ Tick \/ UNCHANGED vars => WorkingIsLatest'
    BY <2>1, TimeoutCases DEF Tick, vars, state
  <2> QED
    BY <2>2, <2>3, <2>4, <2>5, <2>6 DEF Next
<1> QED
  BY <1>1, <1>2, TypeCorrect, PTL DEF Spec

-----------------------------------------------------------------------------
(* Nobody waits for what nobody was asked for *)

\* What makes the request e of the bank name one that may be answered.
Answerable(name, e) ==
    \/ name = "varrev" /\ e[1][2] > revision[e[1][1]]
    \/ <<name, e[1], e[2]>> \in asked

LEMMA WaitingForm ==
    WaitingIsAskedFor <=>
        (~faulted => \A name \in TwoKeyBank : \A e \in Entries(bank[name]) :
                        Answerable(name, e))
BY DEF WaitingIsAskedFor, Answerable, TwoKeyBank

\* The requests that stay open stay among those that were forwarded.
LEMMA StillAnswerable ==
    ASSUME TypeOK, TypeOK', UNCHANGED revision, asked' = StillAsked(asked, bank'),
           NEW name \in TwoKeyBank, NEW e \in Entries(bank'[name]), Answerable(name, e)
    PROVE  Answerable(name, e)'
<1>1. name \in BankName
  BY DEF TwoKeyBank, BankName
<1>2. e = <<e[1], e[2]>>
  <2>1. bank'[name] \in BankType(KeysOf[name], Time)
    BY <1>1, BankTypeIsBank DEF TypeOK
  <2>2. Entries(bank'[name]) \subseteq KeysOf[name] \X Client
    BY <2>1, BankFields
  <2> QED
    BY <2>2
<1> QED
  BY <1>2 DEF Answerable, StillAsked

\* A range that is not forwarded is one of revisions that are still to be produced.
LEMMA RangeAnswerable ==
    ASSUME TypeOK, NEW c \in Client, NEW p \in Requests, RequestRange(c, p),
           outcome' = "ok", UNCHANGED revision,
           \A name \in TwoKeyBank : \A e \in Entries(bank[name]) : Answerable(name, e),
           NEW name \in TwoKeyBank, NEW e \in Entries(bank'[name])
    PROVE  Answerable(name, e)'
<1> PICK wanted \in SUBSET RangeOf(c, p), held \in SUBSET RangeOf(c, p) :
        RangeTakes(c, p, wanted, held)
  BY RangeCases DEF RangeDrifts
<1> DEFINE keys == {RangeKey(p, r) : r \in wanted}
<1>1. /\ bank' = [bank EXCEPT ![RangeBank(p)] = AddAll(@, keys, c, p.timeout)]
      /\ forwarded' <=> MustAsk(p, wanted)
      /\ asked' = IF forwarded' THEN asked \cup {<<RangeBank(p), key, c>> : key \in keys}
                  ELSE asked
  BY DEF RangeTakes
<1>2. name \in BankName /\ RangeBank(p) \in BankName /\ DOMAIN bank = BankName
  BY DEF TwoKeyBank, BankName, RangeBank, TypeOK
<1>3. CASE e \in Entries(bank[name])
  BY <1>1, <1>3 DEF Answerable
<1>4. CASE e \notin Entries(bank[name])
  <2>1. name = RangeBank(p)
    BY <1>1, <1>2, <1>4
  <2>2. e \in {<<key, c>> : key \in keys}
    <3>1. bank'[name] = AddAll(bank[name], keys, c, p.timeout)
      BY <1>1, <1>2, <2>1
    <3> HIDE DEF keys
    <3>2. Entries(bank'[name]) = Entries(bank[name]) \cup {<<key, c>> : key \in keys}
      BY <3>1, AddEntries
    <3> QED
      BY <1>4, <3>2
  <2> PICK r \in wanted : e = <<RangeKey(p, r), c>>
    BY <2>2
  <2>3. RangeKey(p, r) \in keys
    OBVIOUS
  <2> HIDE DEF keys
  <2>4. CASE forwarded'
    BY <1>1, <2>1, <2>3, <2>4 DEF Answerable
  <2>5. CASE ~forwarded'
    <3>1. IsMyAddress(p.node) /\ ~Past(p, r)
      BY <1>1, <2>5 DEF MustAsk
    <3>2. ~(r <= revision[p.var])
      BY <3>1 DEF Past
    <3>3. r \in Int /\ revision[p.var] \in Int
      <4>1. r \in Counter /\ p.var \in Var
        BY RangeTyped, RequestTyped DEF RangeOf
      <4>2. revision \in [Var -> Counter]
        BY DEF TypeOK
      <4> QED
        BY <4>1, <4>2, Counters
    <3>4. name = "varrev" /\ e = <<<<p.var, r>>, c>>
      BY <2>1, <3>1 DEF RangeBank, RangeKey
    <3> QED
      BY <3>2, <3>3, <3>4 DEF Answerable
  <2> QED
    BY <2>4, <2>5
<1> QED
  BY <1>3, <1>4

LEMMA WaitingStep == TypeOK /\ WaitingIsAskedFor /\ [Next]_vars => WaitingIsAskedFor'
<1> SUFFICES ASSUME TypeOK, WaitingIsAskedFor, [Next]_vars, faulted' = FALSE,
                    NEW name \in TwoKeyBank, NEW e \in Entries(bank'[name])
             PROVE  Answerable(name, e)'
  <2>1. ASSUME TypeOK, [Next]_vars
        PROVE  faulted' \in BOOLEAN
    <3>1. TypeOK'
      BY <2>1, TypeStep
    <3> QED
      BY <3>1 DEF TypeOK
  <2>2. WaitingIsAskedFor' <=>
          (~faulted' => \A name \in TwoKeyBank : \A e \in Entries(bank'[name]) :
                          Answerable(name, e)')
    BY DEF WaitingIsAskedFor, Answerable, TwoKeyBank
  <2> QED
    BY <2>1, <2>2
<1>t. TypeOK'
  BY TypeStep
<1>n. name \in BankName /\ DOMAIN bank = BankName
  BY DEF TwoKeyBank, BankName, TypeOK
<1>w. ASSUME ~faulted
      PROVE  \A n \in TwoKeyBank : \A f \in Entries(bank[n]) : Answerable(n, f)
  BY <1>w, WaitingForm
<1>s. ASSUME ~faulted, UNCHANGED revision, asked' = StillAsked(asked, bank'),
             Entries(bank'[name]) \subseteq Entries(bank[name])
      PROVE  Answerable(name, e)'
  BY <1>s, <1>t, <1>w, StillAnswerable
<1>u. ASSUME ~faulted, UNCHANGED revision, asked' = asked,
             bank'[name] = bank[name]
      PROVE  Answerable(name, e)'
  BY <1>u, <1>w DEF Answerable
<1>1. ASSUME NEW c \in Client, NEW p \in Requests, ProcessRequest(c, p)
      PROVE  Answerable(name, e)'
  <2>1. revision' = revision /\ ~faulted /\ outcome' \notin {"threw", "hung", "adrift"}
    BY <1>1, RequestCases DEF TypeOK
  <2>2. CASE Ignored
    BY <1>u, <2>1, <2>2 DEF Ignored
  <2>3. CASE Subscribed(c, p.timeout)
    <3>1. bank'[name] = bank[name]
      BY <1>n, <2>3 DEF Subscribed
    <3> QED
      BY <1>u, <2>1, <2>3, <3>1 DEF Subscribed
  <2>4. CASE RequestRange(c, p)
    <3>1. outcome' = "ok"
      BY <2>1, <2>4, RangeCases DEF RangeTakes, RangeDrifts
    <3> QED
      BY <1>w, <2>1, <2>4, <3>1, RangeAnswerable
  <2> QED
    BY <1>1, <2>2, <2>3, <2>4, RequestCases
<1>2. ASSUME NEW d \in [node : Node, var : Schema, revision : 1..MaxRevision],
             ProcessData(d)
      PROVE  Answerable(name, e)'
  <2>1. Delivers(d) /\ revision' = revision /\ ~faulted /\ outcome' # "adrift"
    BY <1>2, DataCases DEF TypeOK
  <2>2. asked' = StillAsked(asked, bank')
    BY <2>1, DeliverCases DEF Delivers
  <2> QED
    BY <1>n, <1>s, <2>1, <2>2, DeliveryTakes
<1>3. ASSUME NEW v \in Var, ProcessProduction(v)
      PROVE  Answerable(name, e)'
  <2>1. /\ revision' = [revision EXCEPT ![v] = revision[v] + 1]
        /\ ~faulted /\ outcome' \notin {"threw", "adrift"}
        /\ Delivers(Produced(v)) /\ v \in Schema
    BY <1>3, ProductionCases DEF TypeOK
  <2>2. /\ asked' = StillAsked(asked, bank')
        /\ outcome' = "ok"
    BY <2>1, DeliverCases DEF Delivers
  <2>3. e \in Entries(bank[name])
    BY <1>n, <2>1, DeliveryTakes
  <2>4. Answerable(name, e)
    BY <1>w, <2>1, <2>3
  <2>5. e[1] \in KeysOf[name] /\ e = <<e[1], e[2]>>
    BY <1>n, <2>3, EntryTyped
  <2>6. CASE <<name, e[1], e[2]>> \in asked
    BY <2>2, <2>5, <2>6 DEF Answerable, StillAsked
  <2>7. CASE name = "varrev" /\ e[1][2] > revision[e[1][1]]
    <3>1. e[1] \in Var \X Counter
      BY <2>5, <2>7, KeysAre
    <3>2. e[1] # <<v, revision[v] + 1>>
      <4>1. /\ FulfilledBank(Produced(v)) = "varrev"
            /\ FulfilledKey(Produced(v)) = <<v, revision[v] + 1>>
        BY DEF FulfilledBank, FulfilledKey, Produced, IsMyAddress
      <4> QED
        BY <2>1, <2>2, <2>7, <4>1, DeliveryTakes
    <3>3. e[1][2] \in Int /\ revision[e[1][1]] \in Int /\ e[1] = <<e[1][1], e[1][2]>>
      <4>1. e[1][1] \in Var /\ e[1][2] \in Counter /\ e[1] = <<e[1][1], e[1][2]>>
        BY <3>1
      <4>2. revision \in [Var -> Counter]
        BY DEF TypeOK
      <4> QED
        BY <4>1, <4>2, Counters
    <3>4. e[1][2] > revision'[e[1][1]]
      <4>1. CASE e[1][1] = v
        <5>1. e[1][2] # revision[v] + 1
          BY <3>2, <3>3, <4>1
        <5>2. revision'[v] = revision[v] + 1
          BY <2>1 DEF TypeOK
        <5> QED
          BY <2>7, <3>3, <4>1, <5>1, <5>2
      <4>2. CASE e[1][1] # v
        BY <2>1, <2>7, <3>1, <4>2 DEF TypeOK
      <4> QED
        BY <4>1, <4>2
    <3> QED
      BY <2>7, <3>4 DEF Answerable
  <2> QED
    BY <2>4, <2>6, <2>7 DEF Answerable
<1>4. CASE EnforceTimeouts
  <2>1. /\ revision' = revision /\ ~faulted
        /\ asked' = StillAsked(asked, bank') /\ Expires
    BY <1>4, TimeoutCases DEF TypeOK
  <2> PICK gone \in SUBSET Expired(bank[name]) : bank'[name] = Expire(bank[name], gone)
    BY <1>n, <2>1 DEF Expires
  <2>2. bank[name] \in BankType(KeysOf[name], Time)
    BY <1>n, TypeParts DEF Banks
  <2>3. Entries(bank'[name]) = Entries(bank[name]) \ gone
    BY <2>2, ExpireEntries
  <2> QED
    BY <1>s, <2>1, <2>3
<1>5. CASE Tick
  BY <1>5, <1>u DEF Tick, history
<1>6. CASE Restart
  <2>1. bank'[name] = EmptyBank
    BY <1>6, <1>n DEF Restart, Start
  <2> QED
    BY <2>1 DEF Entries, EmptyBank
<1>7. CASE UNCHANGED vars
  BY <1>7, <1>u DEF vars, state, history
<1> QED
  BY <1>1, <1>2, <1>3, <1>4, <1>5, <1>6, <1>7 DEF Next

\* MCCIServer.cpp:319: as long as no handler was cut short, every open request for one
\* packet is for a revision that this node is still to produce, or was forwarded.
THEOREM WaitingIsJustified == Spec => []WaitingIsAskedFor
<1>1. Init => WaitingIsAskedFor
  <2> SUFFICES ASSUME Init PROVE WaitingIsAskedFor
    OBVIOUS
  <2>1. \A name \in TwoKeyBank : Entries(bank[name]) = {}
    BY DEF Init, TwoKeyBank, BankName, Entries, EmptyBank
  <2> QED
    BY <2>1, WaitingForm
<1> QED
  BY <1>1, WaitingStep, TypeCorrect, PTL DEF Spec

-----------------------------------------------------------------------------
(* The local quota *)

\* A range that ends has no more turns than its limit: when its first revision lies below
\* zero, so that unsigned arithmetic takes it to the top, either its last one wraps to
\* the bottom and there is no turn, or it has no end.
LEMMA RangeWidth ==
    ASSUME NEW first \in Counter, NEW limit \in Nat, limit < Modulus,
           ~Endless(LastRev(first, limit))
    PROVE  Cardinality(RevisionsOf(first, LastRev(first, limit))) <= limit
<1> DEFINE last == LastRev(first, limit)
           sum == first + limit - 1
<1>1. /\ Modulus \in Nat \ {0} /\ Modulus \in Int
      /\ first \in Int /\ 0 <= first /\ first < Modulus
  BY BankAssumption, Counters
<1>2. sum \in Int /\ -1 <= sum /\ sum < 2 * Modulus - 1
  BY <1>1
<1>3. last = sum % Modulus
  BY DEF LastRev, Unsigned
<1>4. RevisionsOf(first, last) = first..last /\ last # Modulus - 1
  BY DEF RevisionsOf, Endless
<1>5. last \in 0..(Modulus - 1) /\ last \in Int
  BY <1>1, <1>2, <1>3, ModDef
<1>6. Cardinality(first..last) = IF first > last THEN 0 ELSE last - first + 1
  <2> HIDE DEF last
  <2> QED
    BY <1>1, <1>5, FS_Interval
<1> HIDE DEF last, sum
<1>7. sum = Modulus * (sum \div Modulus) + last /\ sum \div Modulus \in Int
  BY <1>1, <1>2, <1>3, ModDef
<1>8. CASE sum < 0
  <2>1. /\ -1 \in Int /\ Modulus - 1 \in 0..(Modulus - 1)
        /\ sum = Modulus * (-1) + (Modulus - 1)
    BY <1>1, <1>2, <1>8
  <2>2. last = Modulus - 1
    <3>1. Modulus * (sum \div Modulus) + last = Modulus * (-1) + (Modulus - 1)
      BY <1>7, <2>1
    <3> HIDE DEF last
    <3> QED
      BY <1>1, <1>5, <1>7, <2>1, <3>1, ModUnique
  <2> QED
    BY <1>4, <2>2
<1>9. CASE 0 <= sum /\ sum < Modulus
  <2>1. last = sum
    BY <1>1, <1>2, <1>3, <1>9, ModSmall
  <2>2. last - first + 1 = limit
    BY <1>1, <2>1 DEF sum
  <2> QED
    BY <1>4, <1>6, <2>2 DEF last
<1>10. CASE Modulus <= sum
  <2>1. /\ 1 \in Int /\ sum - Modulus \in 0..(Modulus - 1)
        /\ sum = Modulus * 1 + (sum - Modulus)
    BY <1>1, <1>2, <1>10
  <2>2. last = sum - Modulus
    <3>1. Modulus * (sum \div Modulus) + last = Modulus * 1 + (sum - Modulus)
      BY <1>7, <2>1
    <3> QED
      BY <1>1, <1>5, <1>7, <2>1, <3>1, ModUnique
  <2>3. last < first
    BY <1>1, <2>2 DEF sum
  <2>4. Cardinality(first..last) = 0
    BY <1>1, <1>5, <1>6, <2>3
  <2> QED
    BY <1>4, <2>4 DEF last
<1> QED
  BY <1>1, <1>2, <1>8, <1>9, <1>10

\* What is left of the quota, when the counter is exact and the quota held.
LEMMA FreeIsLeft ==
    ASSUME NEW c \in Client, Open(bank["varrev"], c) \in Nat,
           bank["varrev"].out[c] = Unsigned(Open(bank["varrev"], c)),
           Open(bank["varrev"], c) <= MaxLocal
    PROVE  FreeLocal(c) = MaxLocal - Open(bank["varrev"], c)
<1> DEFINE n == Open(bank["varrev"], c)
<1>1. /\ Modulus \in Nat \ {0}
      /\ MaxLocal \in Int /\ MaxLocal < Modulus
      /\ n \in Nat /\ n <= MaxLocal /\ bank["varrev"].out[c] = Unsigned(n)
  BY BankAssumption, ServerAssumption, Counters DEF ServerAssumption
<1> HIDE DEF n
<1>2. n \in 0..(Modulus - 1) /\ MaxLocal - n \in 0..(Modulus - 1)
  BY <1>1
<1>3. Unsigned(n) = n /\ Unsigned(MaxLocal - n) = MaxLocal - n
  BY <1>1, <1>2, ModSmall DEF Unsigned
<1> QED
  BY <1>1, <1>3 DEF FreeLocal, n

\* A local range subscribes to no more revisions than its client has left.
LEMMA RangeFits ==
    ASSUME TypeOK, NEW c \in Client, NEW p \in Requests, IsMyAddress(p.node),
           ~NoEnd(c, p), NEW wanted \in SUBSET RangeOf(c, p)
    PROVE  /\ IsFiniteSet({<<RangeKey(p, r), c>> : r \in wanted})
           /\ Cardinality({<<RangeKey(p, r), c>> : r \in wanted}) <= FreeLocal(c)
<1> DEFINE limit == Limit(c, p)
           first == FirstRev(p, limit)
           new == {<<RangeKey(p, r), c>> : r \in wanted}
           f == [r \in wanted |-> <<RangeKey(p, r), c>>]
<1>1. /\ Quantity(p) \in Nat /\ FreeLocal(c) \in Counter
      /\ limit \in Nat /\ first \in Counter
      /\ RangeOf(c, p) \subseteq Counter
  BY RangeTyped DEF RangeOf
<1>2. FreeLocal(c) \in Int /\ FreeLocal(c) < Modulus /\ Modulus \in Int
  <2>1. \A n \in Counter : n \in Int /\ n < Modulus
    BY Counters
  <2>2. Modulus \in Int
    BY BankAssumption
  <2> QED
    BY <1>1, <2>1, <2>2
<1>3. limit <= FreeLocal(c)
  BY <1>1, <1>2 DEF Limit
<1>4. Cardinality(RangeOf(c, p)) <= limit
  <2>1. limit < Modulus
    BY <1>1, <1>2, <1>3
  <2>2. ~Endless(LastRev(first, limit))
    BY DEF NoEnd
  <2>3. Cardinality(RevisionsOf(first, LastRev(first, limit))) <= limit
    <3> HIDE DEF first, limit
    <3> QED
      BY <1>1, <2>1, <2>2, RangeWidth
  <2> QED
    BY <2>3 DEF RangeOf
<1>5. IsFiniteSet(RangeOf(c, p))
  BY <1>1, Counters, FS_Subset
<1>6. IsFiniteSet(wanted) /\ Cardinality(wanted) <= Cardinality(RangeOf(c, p))
  BY <1>5, FS_Subset
<1>7. f \in Surjection(wanted, new)
  <2>1. f \in [wanted -> new]
    OBVIOUS
  <2>2. \A t \in new : \E r \in wanted : f[r] = t
    OBVIOUS
  <2> QED
    BY <2>1, <2>2 DEF Surjection
<1>8. IsFiniteSet(new) /\ Cardinality(new) <= Cardinality(wanted)
  <2> HIDE DEF f, new
  <2> QED
    BY <1>6, <1>7, FS_Surjection
<1>9. /\ Cardinality(new) \in Nat /\ Cardinality(wanted) \in Nat
      /\ Cardinality(RangeOf(c, p)) \in Nat
  BY <1>5, <1>6, <1>8, FS_CardinalityType
<1> HIDE DEF new, limit
<1>10. Cardinality(new) <= FreeLocal(c)
  BY <1>1, <1>2, <1>3, <1>4, <1>6, <1>8, <1>9
<1> QED
  BY <1>8, <1>10 DEF new

\* The requests of a client in a bank that lost some and got none are not more.
LEMMA FewerOpen ==
    ASSUME NEW b, NEW n, NEW c \in Client, IsFiniteSet(EntriesOf(b, c)),
           Entries(n) \subseteq Entries(b)
    PROVE  Open(n, c) \in Nat /\ Open(b, c) \in Nat /\ Open(n, c) <= Open(b, c)
<1>1. EntriesOf(n, c) \in SUBSET EntriesOf(b, c)
  BY DEF EntriesOf, Share
<1> QED
  BY <1>1, FS_Subset, FS_CardinalityType DEF Open

QuotaInv == TypeOK /\ CountersTrack /\ LocalQuotaHeld

LEMMA LocalBankFinite ==
    ASSUME TypeOK, NEW c \in Client
    PROVE  /\ IsFiniteSet(EntriesOf(bank["varrev"], c))
           /\ Open(bank["varrev"], c) \in Nat
<1>1. "varrev" \in BankName
  BY DEF BankName
<1>2. bank["varrev"] \in BankType(KeysOf["varrev"], Time)
  BY <1>1, TypeParts DEF Banks
<1> QED
  BY <1>1, <1>2, KeysFinite, EntriesFinite

\* A range keeps the quota.
LEMMA RangeKeepsQuota ==
    ASSUME QuotaInv, ~ranAway', NEW c \in Client, NEW p \in Requests,
           RequestRange(c, p), NEW d \in Client \ written["varrev"]
    PROVE  Open(bank'["varrev"], d) <= MaxLocal
<1> PICK wanted \in SUBSET RangeOf(c, p), held \in SUBSET RangeOf(c, p) :
        RangeTakes(c, p, wanted, held) \/ RangeDrifts(c, p, held)
  BY RangeCases
<1> DEFINE new == {<<RangeKey(p, r), c>> : r \in wanted}
           b == bank["varrev"]
<1>1. TypeOK /\ DOMAIN bank = BankName /\ "varrev" \in BankName
  BY DEF QuotaInv, TypeOK, BankName
<1>d. CASE RangeDrifts(c, p, held)
  <2>1. ~ranAway /\ bank' = bank
    BY <1>1, <1>d DEF RangeDrifts
  <2> QED
    BY <2>1 DEF QuotaInv, LocalQuotaHeld
<1> SUFFICES ASSUME RangeTakes(c, p, wanted, held)
             PROVE  Open(bank'["varrev"], d) <= MaxLocal
  BY <1>d
<1>2. ~ranAway /\ ~NoEnd(c, p)
  BY <1>1 DEF RangeTakes
<1>3. Open(b, d) <= MaxLocal /\ Open(b, d) \in Nat /\ IsFiniteSet(EntriesOf(b, d))
  BY <1>1, <1>2, LocalBankFinite DEF QuotaInv, LocalQuotaHeld
<1>4. CASE ~IsMyAddress(p.node)
  <2>1. bank'["varrev"] = b
    BY <1>1, <1>4 DEF RangeTakes, RangeBank
  <2> QED
    BY <1>3, <2>1
<1>5. CASE IsMyAddress(p.node)
  <2> DEFINE keys == {RangeKey(p, r) : r \in wanted}
  <2>1. bank'["varrev"] = AddAll(b, keys, c, p.timeout)
    BY <1>1, <1>5 DEF RangeTakes, RangeBank
  <2>2. {<<key, c>> : key \in keys} = new
    OBVIOUS
  <2>3. Entries(bank'["varrev"]) = Entries(b) \cup new
    <3> HIDE DEF keys, b, new
    <3> QED
      BY <2>1, <2>2, AddEntries
  <2>4. \A e \in new : e[2] = c
    OBVIOUS
  <2>5. CASE d # c
    <3>1. EntriesOf(bank'["varrev"], d) = EntriesOf(b, d)
      <4> HIDE DEF new
      <4> QED
        BY <2>3, <2>4, <2>5 DEF EntriesOf, Share
    <3> QED
      BY <1>3, <3>1 DEF Open
  <2>6. CASE d = c
    <3>1. EntriesOf(bank'["varrev"], c) = EntriesOf(b, c) \cup new
      <4> HIDE DEF new
      <4> QED
        BY <2>3, <2>4 DEF EntriesOf, Share
    <3>2. IsFiniteSet(new) /\ Cardinality(new) <= FreeLocal(c)
      BY <1>1, <1>2, <1>5, RangeFits
    <3>3. FreeLocal(c) = MaxLocal - Open(b, c)
      <4>1. b.out[c] = Unsigned(Open(b, c))
        BY <1>1, <2>6 DEF QuotaInv, CountersTrack
      <4> QED
        BY <1>3, <2>6, <4>1, FreeIsLeft
    <3> HIDE DEF new, b
    <3>4. /\ Cardinality(EntriesOf(b, c) \cup new) =
                Cardinality(EntriesOf(b, c)) + Cardinality(new)
                  - Cardinality(EntriesOf(b, c) \cap new)
          /\ IsFiniteSet(EntriesOf(b, c) \cap new)
      <4>1. EntriesOf(b, c) \cap new \in SUBSET new
        OBVIOUS
      <4> QED
        BY <1>3, <2>6, <3>2, <4>1, FS_Union, FS_Subset
    <3>5. /\ Cardinality(EntriesOf(b, c) \cap new) \in Nat
          /\ Cardinality(new) \in Nat
      BY <3>2, <3>4, FS_CardinalityType
    <3>6. MaxLocal \in Int
      BY ServerAssumption, Counters DEF ServerAssumption
    <3>7. Open(bank'["varrev"], c) = Open(b, c) + Cardinality(new)
                                      - Cardinality(EntriesOf(b, c) \cap new)
      BY <3>1, <3>4 DEF Open
    <3> QED
      BY <1>3, <2>6, <3>2, <3>3, <3>5, <3>6, <3>7
  <2> QED
    BY <2>5, <2>6
<1> QED
  BY <1>4, <1>5

LEMMA QuotaStep == QuotaInv /\ [Next]_vars => LocalQuotaHeld'
<1> SUFFICES ASSUME QuotaInv, [Next]_vars, ~ranAway',
                    NEW d \in Client \ written'["varrev"]
             PROVE  Open(bank'["varrev"], d) <= MaxLocal
  BY DEF LocalQuotaHeld, Open, EntriesOf, Share, Entries
<1>1. TypeOK /\ DOMAIN bank = BankName /\ "varrev" \in BankName
      /\ IsFiniteSet(EntriesOf(bank["varrev"], d)) /\ MaxLocal \in Int /\ 0 <= MaxLocal
  BY LocalBankFinite, ServerAssumption, Counters
     DEF QuotaInv, TypeOK, BankName, ServerAssumption
<1>2. ASSUME ~ranAway, d \notin written["varrev"],
             Entries(bank'["varrev"]) \subseteq Entries(bank["varrev"])
      PROVE  Open(bank'["varrev"], d) <= MaxLocal
  <2>1. Open(bank["varrev"], d) <= MaxLocal
    BY <1>2 DEF QuotaInv, LocalQuotaHeld
  <2> QED
    BY <1>1, <1>2, <2>1, FewerOpen
<1>3. ASSUME NEW c \in Client, NEW p \in Requests, ProcessRequest(c, p)
      PROVE  Open(bank'["varrev"], d) <= MaxLocal
  <2>1. written' = written
    BY <1>3, RequestCases
  <2>2. CASE Ignored
    BY <1>2, <2>1, <2>2 DEF Ignored
  <2>3. CASE Subscribed(c, p.timeout)
    <3>1. bank'["varrev"] = bank["varrev"]
      BY <1>1, <2>3 DEF Subscribed, TwoKeyBank
    <3> QED
      BY <1>2, <2>1, <2>3, <3>1 DEF Subscribed
  <2>4. CASE RequestRange(c, p)
    BY <2>1, <2>4, RangeKeepsQuota
  <2> QED
    BY <1>3, <2>2, <2>3, <2>4, RequestCases
<1>4. ASSUME NEW q, Delivers(q), ranAway' = ranAway
      PROVE  Open(bank'["varrev"], d) <= MaxLocal
  <2>1. Entries(bank'["varrev"]) \subseteq Entries(bank["varrev"])
    BY <1>1, <1>4, DeliveryTakes
  <2>2. d \notin written["varrev"]
    <3>1. CASE written' = written
      BY <3>1
    <3>2. CASE Removes(FulfilledBank(q), FulfilledKey(q))
      BY <1>1, <3>2 DEF Removes, TypeOK
    <3> QED
      BY <1>4, <3>1, <3>2, DeliverCases DEF Delivers
  <2> QED
    BY <1>2, <1>4, <2>1, <2>2
<1>5. ASSUME NEW q \in [node : Node, var : Schema, revision : 1..MaxRevision],
             ProcessData(q)
      PROVE  Open(bank'["varrev"], d) <= MaxLocal
  BY <1>4, <1>5, DataCases
<1>6. ASSUME NEW v \in Var, ProcessProduction(v)
      PROVE  Open(bank'["varrev"], d) <= MaxLocal
  BY <1>1, <1>2, <1>4, <1>6, ProductionCases
<1>7. CASE EnforceTimeouts
  <2>1. written' = written /\ ranAway' = ranAway /\ (bank' = bank \/ Expires)
    BY <1>7, TimeoutCases
  <2>2. CASE Expires
    <3> PICK gone \in SUBSET Expired(bank["varrev"]) :
            bank'["varrev"] = Expire(bank["varrev"], gone)
      BY <1>1, <2>2 DEF Expires
    <3>1. bank["varrev"] \in BankType(KeysOf["varrev"], Time)
      BY <1>1, TypeParts DEF Banks
    <3>2. Entries(bank'["varrev"]) = Entries(bank["varrev"]) \ gone
      BY <3>1, ExpireEntries
    <3> QED
      BY <1>2, <2>1, <3>2
  <2>3. CASE bank' = bank
    BY <1>2, <2>1, <2>3
  <2> QED
    BY <2>1, <2>2, <2>3
<1>8. CASE Tick
  BY <1>2, <1>8 DEF Tick, history
<1>9. CASE Restart
  <2>1. bank'["varrev"] = EmptyBank
    BY <1>1, <1>9 DEF Restart, Start
  <2>2. EntriesOf(EmptyBank, d) = {}
    BY DEF EntriesOf, Share, Entries, EmptyBank
  <2> QED
    BY <1>1, <2>1, <2>2, FS_EmptySet DEF Open
<1>10. CASE UNCHANGED vars
  BY <1>2, <1>10 DEF vars, state, history
<1> QED
  BY <1>3, <1>5, <1>6, <1>7, <1>8, <1>9, <1>10 DEF Next

\* No client has more local requests open than max_local_requests, as long as every
\* range had an end and no delivery has overwritten its counter: renewals, expiry,
\* exceptions half-way and ranges below revision 0 do not get around the quota.
THEOREM QuotaIsHeld == Spec => []LocalQuotaHeld
<1>1. Init => LocalQuotaHeld
  <2> SUFFICES ASSUME Init, NEW c \in Client PROVE Open(bank["varrev"], c) <= MaxLocal
    BY DEF LocalQuotaHeld
  <2>1. bank["varrev"] = EmptyBank
    BY DEF Init, BankName
  <2>2. EntriesOf(EmptyBank, c) = {}
    BY DEF EntriesOf, Share, Entries, EmptyBank
  <2>3. MaxLocal \in Int /\ 0 <= MaxLocal
    BY ServerAssumption, Counters DEF ServerAssumption
  <2> QED
    BY <2>1, <2>2, <2>3, FS_EmptySet DEF Open
<1>2. TypeOK /\ CountersTrack /\ [Next]_vars => (TypeOK /\ CountersTrack)'
  BY TypeStep, TypeParts, StepEffect, EffectKeeps DEF RestTypeOK
<1>3. TypeOK /\ CountersTrack /\ LocalQuotaHeld /\ [Next]_vars => LocalQuotaHeld'
  BY QuotaStep DEF QuotaInv
<1> QED
  BY <1>1, <1>2, <1>3, ServerInit, PTL DEF Spec

-----------------------------------------------------------------------------
(* The server implements Delivery *)

\* What the server has for open of Delivery.
Opens == [r \in Requested |-> bank[r[1]].due[r[2]]]

\* A request is a bank and an entry of it.
LEMMA RequestedIs ==
    /\ \A name \in BankName : \A e \in Entries(bank[name]) : <<name, e>> \in Requested
    /\ \A r \in Requested : /\ r[1] \in BankName /\ r[2] \in Entries(bank[r[1]])
                            /\ r = <<r[1], r[2]>>
BY DEF Requested

LEMMA RequestedWillBe ==
    /\ \A name \in BankName : \A e \in Entries(bank'[name]) : <<name, e>> \in Requested'
    /\ \A r \in Requested' : /\ r[1] \in BankName /\ r[2] \in Entries(bank'[r[1]])
                             /\ r = <<r[1], r[2]>>
BY DEF Requested

-----------------------------------------------------------------------------
(* process_request is Ask *)

\* No request goes, and those that are new or change are c's, with timeout t.
Touches(c, t) ==
    /\ Requested \subseteq Requested'
    /\ \A r \in Requested' :
           r \notin Requested \/ bank'[r[1]].due[r[2]] # bank[r[1]].due[r[2]]
               => r[2][2] = c /\ bank'[r[1]].due[r[2]] = t

LEMMA AddTouches ==
    ASSUME TypeOK, NEW other \in BankName, NEW keys, NEW c, NEW t,
           bank' = [bank EXCEPT ![other] = AddAll(@, keys, c, t)]
    PROVE  Touches(c, t)
<1> DEFINE wanted == {<<key, c>> : key \in keys}
           b == bank[other]
<1>1. /\ bank'[other] = AddAll(b, keys, c, t)
      /\ \A name \in BankName \ {other} : bank'[name] = bank[name]
  BY DEF TypeOK
<1>2. AddAll(b, keys, c, t).due =
          [e \in Entries(b) \cup wanted |-> IF e \in wanted THEN t ELSE b.due[e]]
  BY DEF AddAll
<1>3. Entries(AddAll(b, keys, c, t)) = Entries(b) \cup wanted
  BY <1>2 DEF Entries
<1>4. Requested \subseteq Requested'
  <2> SUFFICES ASSUME NEW r \in Requested PROVE r \in Requested'
    OBVIOUS
  <2>1. r[1] \in BankName /\ r[2] \in Entries(bank[r[1]]) /\ r = <<r[1], r[2]>>
    BY RequestedIs
  <2>2. r[2] \in Entries(bank'[r[1]])
    BY <1>1, <1>3, <2>1
  <2>3. <<r[1], r[2]>> \in Requested'
    BY <2>1, <2>2, RequestedWillBe
  <2> QED
    BY <2>1, <2>3
<1>5. ASSUME NEW r \in Requested',
             r \notin Requested \/ bank'[r[1]].due[r[2]] # bank[r[1]].due[r[2]]
      PROVE  r[2][2] = c /\ bank'[r[1]].due[r[2]] = t
  <2>1. r[1] \in BankName /\ r[2] \in Entries(bank'[r[1]]) /\ r = <<r[1], r[2]>>
    BY RequestedWillBe
  <2>2. r[1] = other
    <3>1. ASSUME r[1] # other PROVE FALSE
      <4>1. bank'[r[1]] = bank[r[1]]
        BY <1>1, <2>1, <3>1
      <4>2. <<r[1], r[2]>> \in Requested
        BY <2>1, <4>1, RequestedIs
      <4> QED
        BY <1>5, <2>1, <4>1, <4>2
    <3> QED
      BY <3>1
  <2>3. r[2] \in Entries(b) \cup wanted
    BY <1>1, <1>3, <2>1, <2>2
  <2>4. bank'[other].due[r[2]] = IF r[2] \in wanted THEN t ELSE b.due[r[2]]
    BY <1>1, <1>2, <2>3
  <2>5. r[2] \in wanted
    <3>1. ASSUME r[2] \notin wanted PROVE FALSE
      <4>1. r[2] \in Entries(b) /\ bank'[other].due[r[2]] = b.due[r[2]]
        BY <2>3, <2>4, <3>1
      <4>2. <<other, r[2]>> \in Requested
        BY <4>1, RequestedIs
      <4> QED
        BY <1>5, <2>1, <2>2, <4>1, <4>2
    <3> QED
      BY <3>1
  <2> QED
    BY <2>2, <2>4, <2>5
<1> QED
  BY <1>4, <1>5 DEF Touches

\* A request that is answered at once is answered with the newest packet.
LEMMA HeldIsNewest ==
    ASSUME TypeOK, WorkingIsLatest, NEW c \in Client, NEW p \in Requests,
           RequestRange(c, p)
    PROVE  sent' \subseteq
             {<<c, [node |-> MyNode, var |-> v, revision |-> revision[v]]>> : v \in Schema}
<1>1. ASSUME NEW s \in sent'
      PROVE  \E r : Held(p, r) /\ s = <<c, [node |-> MyNode, var |-> p.var, revision |-> r]>>
  <2> PICK held \in SUBSET RangeOf(c, p) :
          /\ \A r \in held : Held(p, r)
          /\ sent' = {<<c, [node |-> MyNode, var |-> p.var, revision |-> r]>> : r \in held}
    BY RangeCases DEF RangeTakes, RangeDrifts
  <2> QED
    BY <1>1
<1>2. ASSUME NEW r, Held(p, r) PROVE p.var \in Schema /\ r = revision[p.var]
  BY <1>2 DEF Held, WorkingIsLatest
<1> QED
  BY <1>1, <1>2

LEMMA RequestAsks ==
    ASSUME TypeOK, WorkingIsLatest, NEW c \in Client, NEW p \in Requests,
           ProcessRequest(c, p)
    PROVE  Service!Ask(c, p.timeout)
<1>1. UNCHANGED <<revision, now>>
  BY RequestCases
<1>2. sent' \subseteq
        {<<c, [node |-> MyNode, var |-> v, revision |-> revision[v]]>> : v \in Schema}
  BY HeldIsNewest, RequestCases DEF Ignored, Subscribed
<1>3. Touches(c, p.timeout)
  <2>4. ASSUME bank' = bank PROVE Touches(c, p.timeout)
    BY <2>4 DEF Touches, Requested
  <2>1. CASE Ignored
    BY <2>1, <2>4 DEF Ignored
  <2>2. CASE Subscribed(c, p.timeout)
    BY <2>2, AddTouches DEF Subscribed
  <2>3. CASE RequestRange(c, p)
    <3>1. RangeBank(p) \in BankName
      BY DEF RangeBank, BankName
    <3> QED
      BY <2>3, <2>4, <3>1, RangeCases, AddTouches DEF RangeTakes, RangeDrifts
  <2> QED
    BY <2>1, <2>2, <2>3, RequestCases
<1>4. /\ DOMAIN Opens \subseteq DOMAIN Opens'
      /\ \A r \in DOMAIN Opens' :
           (IF r \in DOMAIN Opens THEN Opens'[r] # Opens[r] ELSE TRUE)
               => r[2][2] = c /\ Opens'[r] = p.timeout
  BY <1>3 DEF Touches, Opens
<1> QED
  BY <1>1, <1>2, <1>4 DEF Service!Ask, Service!Asker, Opens

-----------------------------------------------------------------------------
(* A delivery is Send *)

\* Whoever is hit has an open request that the packet answers, or is misdirected to.
LEMMA HitsAreAsked ==
    ASSUME TypeOK, NEW d \in Packet
    PROVE  {<<c, d>> : c \in Hits(d)} =
             {<<r[2][2], d>> : r \in {q \in Requested : Service!Answers(d, q)}
                                       \cup Misdirected(d)}
<1> DEFINE misled(q) == d.node # MyNode /\ q[1] = "varrev" /\ q[2][1] = <<d.var, d.revision>>
           reached(q) == Service!Answers(d, q) \/ misled(q)
<1>1. d.node \in Node /\ d.var \in Var /\ d.revision \in Counter
  BY DEF Packet
<1>2. ASSUME NEW c \in Hits(d)
      PROVE  \E q \in Requested : reached(q) /\ q[2][2] = c
  <2>1. ASSUME NEW name \in BankName, NEW key, c \in Subscribers(bank[name], key),
               reached(<<name, <<key, c>>>>)
        PROVE  \E q \in Requested : reached(q) /\ q[2][2] = c
    <3>1. <<key, c>> \in Entries(bank[name])
      BY <2>1 DEF Subscribers
    <3>2. <<name, <<key, c>>>> \in Requested
      BY <3>1, RequestedIs
    <3> HIDE DEF reached
    <3> QED
      BY <2>1, <3>2
  <2>2. /\ reached(<<"all", <<1, c>>>>)
        /\ reached(<<"host", <<d.node, c>>>>)
        /\ reached(<<"var", <<d.var, c>>>>)
        /\ reached(<<"hostvar", <<<<d.node, d.var>>, c>>>>)
        /\ reached(<<"remote", <<<<d.node, d.var, d.revision>>, c>>>>)
        /\ reached(<<"varrev", <<<<d.var, d.revision>>, c>>>>)
    BY DEF Service!Answers, Service!Kind, Service!Key
  <2>3. {"all", "host", "var", "hostvar", "remote", "varrev"} = BankName
    BY DEF BankName
  <2> HIDE DEF reached
  <2> QED
    BY <2>1, <2>2, <2>3 DEF Hits
<1>3. ASSUME NEW q \in Requested, reached(q)
      PROVE  q[2][2] \in Hits(d)
  <2>1. q[1] \in BankName /\ q[2] \in Entries(bank[q[1]])
    BY RequestedIs
  <2>2. q[2][1] \in KeysOf[q[1]] /\ q[2][2] \in Subscribers(bank[q[1]], q[2][1])
    BY <2>1, EntryTyped
  <2>3. CASE q[1] = "all"
    BY <2>2, <2>3, KeysAre DEF Hits
  <2>4. CASE q[1] # "all"
    BY <1>3, <2>2, <2>4
       DEF Hits, Service!Answers, Service!Kind, Service!Key
  <2> QED
    BY <2>3, <2>4
<1>4. {q \in Requested : reached(q)} = {q \in Requested : Service!Answers(d, q)}
                                          \cup Misdirected(d)
  BY DEF Misdirected
<1> HIDE DEF reached
<1>5. {<<c, d>> : c \in Hits(d)} = {<<r[2][2], d>> : r \in {q \in Requested : reached(q)}}
  BY <1>2, <1>3
<1> QED
  BY <1>4, <1>5

\* The abstract requests a packet completes are the entries of its key.
LEMMA CompletesIs ==
    ASSUME NEW d \in Packet, NEW r \in Requested
    PROVE  Service!Completes(d, r) <=> r[1] = FulfilledBank(d) /\ r[2][1] = FulfilledKey(d)
<1>1. d.node # 0
  BY ServerAssumption DEF Packet, Node, ServerAssumption
<1> QED
  BY <1>1 DEF Service!Completes, Service!CompletedKind, Service!CompletedKey,
              Service!Kind, Service!Key, FulfilledBank, FulfilledKey, IsMyAddress

\* Requests go, and the others keep their timeouts.
LEMMA OpensWithout ==
    ASSUME NEW gone,
           \A r : r \in Requested' <=> r \in Requested /\ r \notin gone,
           \A r \in Requested' : bank'[r[1]].due[r[2]] = bank[r[1]].due[r[2]]
    PROVE  Opens' = [r \in Requested \ gone |-> Opens[r]]
<1>1. Requested' = Requested \ gone
  OBVIOUS
<1>2. \A r \in Requested' : bank'[r[1]].due[r[2]] = Opens[r]
  BY <1>1 DEF Opens
<1> QED
  BY <1>1, <1>2 DEF Opens

LEMMA DeliverySends ==
    ASSUME TypeOK, NEW d, Delivers(d), now' = now, outcome' # "adrift"
    PROVE  Service!Send(d, Misdirected(d), Unfulfilled(d))
<1> DEFINE name == FulfilledBank(d)
           key == FulfilledKey(d)
           done == {r \in Requested : Service!Completes(d, r)}
<1>1. d \in Packet /\ name \in BankName /\ DOMAIN bank = BankName
  BY DeliverCases DEF Delivers, BankName, TwoKeyBank, TypeOK
<1>2. sent' = {<<r[2][2], d>> : r \in {q \in Requested : Service!Answers(d, q)}
                                        \cup Misdirected(d)}
  BY <1>1, DeliverCases, HitsAreAsked DEF Delivers
<1>3. \A r \in Requested : r \in done <=> r[1] = name /\ r[2][1] = key
  BY <1>1, CompletesIs
<1>k. Unfulfilled(d) = IF outcome' = "threw" /\ RemoveByKeyThrows(bank[name])
                       THEN done ELSE {}
  BY <1>3 DEF Unfulfilled
<1>4. Opens' = [r \in Requested \ (done \ Unfulfilled(d)) |-> Opens[r]]
  <2> HIDE DEF name, key, done
  <2>1. CASE ~Contains(bank[name], key) /\ bank' = bank /\ outcome' = "ok"
    <3>1. ASSUME NEW r \in done, r \in Requested PROVE FALSE
      <4>1. r[1] = name /\ r[2][1] = key
        BY <1>3, <3>1
      <4>2. r[2] \in Entries(bank[name])
        BY <3>1, <4>1, RequestedIs
      <4>3. r[2][2] \in Subscribers(bank[name], key)
        BY <1>1, <4>1, <4>2, EntryTyped
      <4> QED
        BY <2>1, <4>3 DEF Contains
    <3>2. Requested' = Requested
      BY <2>1 DEF Requested
    <3>3. Unfulfilled(d) = {}
      BY <1>k, <2>1
    <3>4. Opens' = [r \in Requested \ done |-> Opens[r]]
      BY <2>1, <3>1, <3>2, OpensWithout
    <3> QED
      BY <3>3, <3>4
  <2>2. CASE bank' = [bank EXCEPT ![name] = RemoveByKey(@, key, TRUE)]
             /\ RemoveByKeyThrows(bank[name]) /\ outcome' = "threw"
    <3>4. /\ bank'[name].due = bank[name].due
          /\ \A n \in BankName \ {name} : bank'[n] = bank[n]
      <4>1. bank[name] \in BankType(KeysOf[name], Time)
        BY <1>1, TypeParts DEF Banks
      <4>2. RemoveByKey(bank[name], key, TRUE).due = bank[name].due
        BY <2>2, <4>1 DEF RemoveByKey, BankType
      <4> QED
        BY <1>1, <2>2, <4>2
    <3>5. \A n \in BankName : bank'[n].due = bank[n].due
      BY <3>4
    <3>6. Requested' = Requested
      BY <3>5 DEF Requested, Entries
    <3>7. Opens' = [r \in Requested |-> Opens[r]]
      BY <3>5, <3>6, RequestedIs DEF Opens
    <3>8. Unfulfilled(d) = done
      BY <1>k, <2>2
    <3> QED
      BY <3>7, <3>8
  <2>3. CASE bank' = [bank EXCEPT ![name] = RemoveByKey(@, key, TRUE)]
             /\ ~RemoveByKeyThrows(bank[name])
    <3>1. bank'[name].due = [e \in {f \in Entries(bank[name]) : f[1] # key} |->
                               bank[name].due[e]]
      <4>1. bank'[name] = RemoveByKey(bank[name], key, TRUE)
        BY <1>1, <2>3
      <4>2. bank[name] \in BankType(KeysOf[name], Time)
        BY <1>1, TypeParts DEF Banks
      <4>3. RemoveByKey(bank[name], key, TRUE).due =
               [e \in {f \in Entries(bank[name]) : f[1] # key} |-> bank[name].due[e]]
        BY <2>3, <4>2 DEF RemoveByKey, BankType
      <4> QED
        BY <4>1, <4>3
    <3>2. \A n \in BankName \ {name} : bank'[n] = bank[n]
      BY <1>1, <2>3
    <3>3. Entries(bank'[name]) = {f \in Entries(bank[name]) : f[1] # key}
      BY <3>1 DEF Entries
    <3>4. ASSUME NEW r
          PROVE  r \in Requested' <=> r \in Requested /\ r \notin done
      <4>1. ASSUME r \in Requested' PROVE r \in Requested /\ r \notin done
        <5>1. r[1] \in BankName /\ r[2] \in Entries(bank'[r[1]]) /\ r = <<r[1], r[2]>>
          BY <4>1, RequestedWillBe
        <5>2. r[2] \in Entries(bank[r[1]]) /\ ~(r[1] = name /\ r[2][1] = key)
          BY <3>2, <3>3, <5>1
        <5>3. <<r[1], r[2]>> \in Requested
          BY <5>1, <5>2, RequestedIs
        <5> QED
          BY <1>3, <5>1, <5>2, <5>3
      <4>2. ASSUME r \in Requested, r \notin done PROVE r \in Requested'
        <5>1. r[1] \in BankName /\ r[2] \in Entries(bank[r[1]]) /\ r = <<r[1], r[2]>>
          BY <4>2, RequestedIs
        <5>2. ~(r[1] = name /\ r[2][1] = key)
          BY <1>3, <4>2
        <5>3. r[2] \in Entries(bank'[r[1]])
          BY <3>2, <3>3, <5>1, <5>2
        <5>4. <<r[1], r[2]>> \in Requested'
          BY <5>1, <5>3, RequestedWillBe
        <5> QED
          BY <5>1, <5>4
      <4> QED
        BY <4>1, <4>2
    <3>5. ASSUME NEW r \in Requested'
          PROVE  bank'[r[1]].due[r[2]] = bank[r[1]].due[r[2]]
      <4>1. r[1] \in BankName /\ r[2] \in Entries(bank'[r[1]])
        BY RequestedWillBe
      <4> QED
        BY <3>1, <3>2, <3>3, <4>1
    <3>6. Opens' = [r \in Requested \ done |-> Opens[r]]
      BY <3>4, <3>5, OpensWithout
    <3>7. Unfulfilled(d) = {}
      BY <1>k, <2>3
    <3> QED
      BY <3>6, <3>7
  <2> QED
    BY <2>1, <2>2, <2>3, DeliverCases DEF Delivers, Removes, name, key
<1> DEFINE others == Misdirected(d)
           kept == Unfulfilled(d)
<1>5. Opens' = [r \in Requested \ ({q \in Requested : Service!Completes(d, q)} \ kept)
                  |-> Opens[r]]
  BY <1>4
<1>6. sent' = {<<r[2][2], d>> : r \in {q \in Requested : Service!Answers(d, q)} \cup others}
  BY <1>2
<1> HIDE DEF others, kept
<1>7. Service!Send(d, others, kept)
  BY <1>5, <1>6 DEF Service!Send, Service!Without, Service!Asker, Opens
<1> QED
  BY <1>7 DEF others, kept

-----------------------------------------------------------------------------
(* The other handlers *)

LEMMA TimeoutsExpire ==
    ASSUME TypeOK, EnforceTimeouts, outcome' # "adrift"
    PROVE  Service!Expire(Overdue)
<1> DEFINE over == {r \in Requested : now > Opens[r]}
<1>p. PICK missed \in SUBSET Missable :
          bank' = [name \in BankName |->
                      Expire(bank[name], {e \in Expired(bank[name]) : <<name, e>> \notin missed})]
  BY DEF EnforceTimeouts, GoAdrift
<1> DEFINE Gone(name) == {e \in Expired(bank[name]) : <<name, e>> \notin missed}
<1>1. \A name \in BankName :
        /\ bank'[name] = Expire(bank[name], Gone(name))
        /\ bank[name] \in BankType(KeysOf[name], Time)
  BY <1>p, TypeParts DEF Banks
<1>2. \A name \in BankName :
        bank'[name].due = [e \in Entries(bank[name]) \ Gone(name) |-> bank[name].due[e]]
  BY <1>1 DEF Expire, BankType
<1>3. \A name \in BankName : Entries(bank'[name]) = Entries(bank[name]) \ Gone(name)
  BY <1>2 DEF Entries
<1>4. ASSUME NEW name \in BankName, NEW e \in Entries(bank[name])
      PROVE  e \in Gone(name) <=> <<name, e>> \in over \ Overdue
  <2>1. <<name, e>> \in Requested /\ (e \in Expired(bank[name]) <=> <<name, e>> \in over)
    BY RequestedIs DEF Expired, Opens
  <2>2. <<name, e>> \in Overdue <=> ~bank[name].intact /\ e \notin Gone(name)
    BY <1>3, <2>1 DEF Overdue
  <2>3. <<name, e>> \in missed => ~bank[name].intact
    BY DEF Missable
  <2> QED
    BY <2>1, <2>2, <2>3
<1> HIDE DEF Gone
<1>5. ASSUME NEW r
      PROVE  r \in Requested' <=> r \in Requested /\ r \notin over \ Overdue
  <2> HIDE DEF over
  <2>1. ASSUME r \in Requested' PROVE r \in Requested /\ r \notin over \ Overdue
    <3>1. r[1] \in BankName /\ r[2] \in Entries(bank'[r[1]]) /\ r = <<r[1], r[2]>>
      BY <2>1, RequestedWillBe
    <3>2. r[2] \in Entries(bank[r[1]]) /\ r[2] \notin Gone(r[1])
      BY <1>3, <3>1
    <3>3. <<r[1], r[2]>> \in Requested /\ <<r[1], r[2]>> \notin over \ Overdue
      BY <1>4, <3>1, <3>2, RequestedIs
    <3> QED
      BY <3>1, <3>3
  <2>2. ASSUME r \in Requested, r \notin over \ Overdue PROVE r \in Requested'
    <3>1. r[1] \in BankName /\ r[2] \in Entries(bank[r[1]]) /\ r = <<r[1], r[2]>>
      BY <2>2, RequestedIs
    <3>2. r[2] \in Entries(bank'[r[1]])
      BY <1>3, <1>4, <2>2, <3>1
    <3>3. <<r[1], r[2]>> \in Requested'
      BY <3>1, <3>2, RequestedWillBe
    <3> QED
      BY <3>1, <3>3
  <2> QED
    BY <2>1, <2>2
<1>6. ASSUME NEW name \in BankName, NEW e \in Entries(bank'[name])
      PROVE  bank'[name].due[e] = bank[name].due[e]
  <2>1. e \in Entries(bank[name]) \ Gone(name)
    BY <1>3
  <2>2. bank'[name].due[e]
          = [f \in Entries(bank[name]) \ Gone(name) |-> bank[name].due[f]][e]
    BY <1>2
  <2> QED
    BY <2>1, <2>2
<1> DEFINE late == Overdue
<1>7. Opens' = [r \in Requested \ (over \ late) |-> Opens[r]]
  <2> HIDE DEF over
  <2>1. ASSUME NEW r \in Requested'
        PROVE  bank'[r[1]].due[r[2]] = bank[r[1]].due[r[2]]
    <3>1. r[1] \in BankName /\ r[2] \in Entries(bank'[r[1]])
      BY RequestedWillBe
    <3> QED
      BY <1>6, <3>1
  <2> QED
    BY <1>5, <2>1, OpensWithout
<1>8. sent' = {} /\ UNCHANGED <<revision, now>>
  BY DEF EnforceTimeouts
<1> HIDE DEF late
<1>9. Service!Expire(late)
  BY <1>7, <1>8 DEF Service!Expire, Service!Without, Opens
<1> QED
  BY <1>9 DEF late

LEMMA SameOpens == bank' = bank => Opens' = Opens
BY DEF Opens, Requested

LEMMA ProductionPublishes ==
    ASSUME TypeOK, NEW v \in Var, ProcessProduction(v), outcome' # "adrift"
    PROVE  \/ Service!Publish(v, {})
           \/ v \in Schema /\ Service!Publish(v, Unfulfilled(Service!Produced(v)))
<1>1. revision' = [revision EXCEPT ![v] = @ + 1] /\ now' = now
  BY ProductionCases
<1>2. CASE v \in Schema /\ Delivers(Produced(v))
  <2>1. PICK d : d = Produced(v)
    OBVIOUS
  <2>2. Delivers(d)
    BY <1>2, <2>1
  <2>3. PICK kept : kept = Unfulfilled(d)
    OBVIOUS
  <2>4. Misdirected(d) = {}
    BY <2>1 DEF Misdirected, Produced
  <2>5. Service!Send(d, {}, kept)
    <3>1. Service!Send(d, Misdirected(d), Unfulfilled(d))
      BY <1>1, <2>2, DeliverySends
    <3> QED
      BY <2>3, <2>4, <3>1 DEF Service!Send
  <2>6. d = Service!Produced(v)
    BY <2>1 DEF Produced, Service!Produced
  <2>7. Service!Publish(v, kept)
    BY <1>1, <1>2, <2>5, <2>6 DEF Service!Publish
  <2>8. kept = Unfulfilled(Service!Produced(v))
    BY <2>3, <2>6
  <2> QED
    BY <1>2, <2>7, <2>8
<1>3. CASE v \notin Schema /\ sent' = {} /\ bank' = bank
  BY <1>1, <1>3, SameOpens DEF Service!Publish, Opens
<1> QED
  BY <1>2, <1>3, ProductionCases

LEMMA DataRelays ==
    ASSUME TypeOK, NEW d \in [node : Node, var : Schema, revision : 1..MaxRevision],
           ProcessData(d), outcome' # "adrift"
    PROVE  d \in Packet /\ Service!Relay(d, Misdirected(d), Unfulfilled(d))
<1>1. Delivers(d) /\ UNCHANGED <<revision, now>>
  BY DataCases
<1>2. d.node = MyNode => d.revision <= revision[d.var]
  BY DEF ProcessData
<1>3. Service!Send(d, Misdirected(d), Unfulfilled(d))
  BY <1>1, DeliverySends
<1> QED
  BY <1>1, <1>2, <1>3 DEF Service!Relay, Delivers

LEMMA RestartForgets ==
    ASSUME Restart
    PROVE  Service!Restart
<1>1. \A name \in BankName : Entries(bank'[name]) = {}
  BY DEF Restart, Start, Entries, EmptyBank
<1>2. Requested' = {}
  BY <1>1 DEF Requested
<1>3. Opens' = [r \in {} |-> 0]
  BY <1>2 DEF Opens
<1>4. sent' = {} /\ UNCHANGED <<revision, now>>
  BY DEF Restart, Start
<1> QED
  BY <1>3, <1>4 DEF Service!Restart, Opens

LEMMA StartsEmpty == Init => Service!Init
<1> SUFFICES ASSUME Init PROVE Service!Init
  OBVIOUS
<1>1. \A name \in BankName : Entries(bank[name]) = {}
  BY DEF Init, Entries, EmptyBank
<1>2. Requested = {}
  BY <1>1 DEF Requested
<1>3. [r \in Requested |-> bank[r[1]].due[r[2]]] = [r \in {} |-> 0]
  BY <1>2
<1> QED
  BY <1>3 DEF Init, Service!Init

LEMMA StepDelivers ==
    ASSUME TypeOK, WorkingIsLatest, [Next]_vars
    PROVE  [Serves]_(Service!vars)
<1> SUFFICES ASSUME outcome' # "adrift"
             PROVE  [Serves]_(Service!vars)
  BY DEF Serves
<1>1. ASSUME NEW c \in Client, NEW p \in Requests, ProcessRequest(c, p)
      PROVE  Serves
  <2>1. p.timeout \in Time /\ Service!Ask(c, p.timeout)
    BY <1>1, RequestAsks, RequestTyped
  <2> QED
    BY <2>1 DEF Serves, Service!Next
<1>2. ASSUME NEW d \in [node : Node, var : Schema, revision : 1..MaxRevision],
             ProcessData(d)
      PROVE  Serves
  BY <1>2, DataRelays DEF Serves
<1>3. ASSUME NEW v \in Var, ProcessProduction(v)
      PROVE  Serves
  BY <1>3, ProductionPublishes DEF Serves, Service!Next
<1>4. CASE EnforceTimeouts
  BY <1>4, TimeoutsExpire DEF Serves
<1>5. CASE Tick
  <2>1. Opens' = Opens
    BY <1>5, SameOpens DEF Tick
  <2> QED
    BY <1>5, <2>1 DEF Tick, answer, Serves, Service!Next, Service!Tick, Opens
<1>6. CASE Restart
  BY <1>6, RestartForgets DEF Serves, Service!Next
<1>7. CASE UNCHANGED vars
  <2>1. Opens' = Opens
    BY <1>7, SameOpens DEF vars, state
  <2> QED
    BY <1>7, <2>1 DEF vars, state, answer, Service!vars, Opens
<1> QED
  BY <1>1, <1>2, <1>3, <1>4, <1>5, <1>6, <1>7 DEF Next

-----------------------------------------------------------------------------
\* Until one goes adrift, every handler is a step of Delivery or one of three departures from
\* it: a packet of another node is also sent to who asked for its variable and revision of
\* this node; a packet whose fulfilment throws completes nothing; enforce_timeouts leaves
\* requests that are over, in a bank that is not intact.  Otherwise a packet is sent to
\* exactly the clients it answers and completes all requests for it, a request ends so or
\* when it is over, what is answered at once is the newest packet, and no client's requests
\* are touched by another's.
THEOREM DeliveryIsImplemented == Spec => ImplementsDelivery
<1>1. Spec => Service!Init
  BY StartsEmpty DEF Spec
<1>2. Spec => [](TypeOK /\ WorkingIsLatest)
  BY TypeCorrect, NewestIsHeld, PTL
<1>3. TypeOK /\ WorkingIsLatest /\ [Next]_vars => [Serves]_(Service!vars)
  BY StepDelivers
<1>4. Spec => [][Serves]_(Service!vars)
  BY <1>2, <1>3, PTL DEF Spec
<1> QED
  BY <1>1, <1>4 DEF ImplementsDelivery
=============================================================================
