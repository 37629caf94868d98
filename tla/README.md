# TLA+ specification of the MCCI server

MCCI routes packets of *variables* between programs.  A node runs one server.
Clients of the server send it *request* packets (what they want to receive, until
when) and *production* packets (new values of variables).  The server numbers what
is produced on its node, keeps the newest packet of every variable, and sends each
*data* packet to every client with a request that it matches.

This directory models the server's own logic (`src/mcci/MCCIServer/`) in TLA+,
model-checks it with TLC and proves part of it with TLAPS.  File names without a
directory below are in that directory of the source.

## The system: inventory

| Component | Source | State | Operations | What makes it correct |
|---|---|---|---|---|
| request server | `MCCIServer.{h,cpp}` | six banks of requests, working set | `process_request`, `process_production`, `process_data`, `enforce_timeouts` | who asked gets the packet; no request is lost; the allowances of each client hold |
| request bank | `MCCIRequestBank.h`, `MCCIRequestBanks.h` | hash of subscription maps, counter per client, heap of timeouts | `add`, `remove_minimum`, `remove_by_key`, lookups | hash, heap and counters stand for the same set of requests |
| timeout heap | `FibonacciHeap.h` | nodes with five links each, count, maximum degree | insert, minimum, remove, decrease and alter a key | a priority queue; no index outside `degree_roots` |
| revision set | `MCCIRevisionSet.{h,cpp}`, `sql/revisions.sql` | cache, prepared statements, sqlite table | `get_revision`, `inc_revision`, `set_signature` | no number twice, over crashes and restarts |
| packet types | `MCCITypes.h` | - | - | widths of the fields |
| hash table | `LinearHash.h` | array of maps | insert, remove, lookup, iteration, resize | a map from keys to values |
| schema | `MCCISchema.{h,cpp}` | known variables and their positions | load, lookups | a bijection of variables and positions; same hash on all nodes |
| networking | `MCCIServerNetworking.h` | none | three sends | an interface with a fake that prints |
| time | `MCCITime.h` | a settable clock | `now` | an interface; the real clock throws "NOT IMPLEMENTED YET" |
| main program | `MCCIServerMain.cpp` | - | opens databases, constructs | the loop is not written ("MAIN SERVER LOOP GOES HERE") |
| prototype, demo | `rhashtest/`, `interaction.cpp` | - | - | superseded or unrelated to the server |

How they interact: everything is one thread of direct calls.  The server owns the
six banks and calls them from its handlers; every bank owns one heap and one hash
(of hashes); the server asks the revision set for numbers and the schema for
positions in the working set; results leave through the networking interface.
A handler that fails throws a string, through every layer, and leaves what it has
changed so far.  What calls the handlers is not written.

The behaviours that are hard to test are therefore not races but
- long sequences of calls over shared structures (heap, counters, null maps),
- handlers that throw half-way, and calls that go on afterwards,
- requests that expire, are renewed and are fulfilled in any order,
- unsigned arithmetic of ranges and allowances,
- a process that ends between two writes, and a database that refuses one,
- a table of variables that another program changes while it is read.

`PROJECT.json` lists these hazards at their lines, with the properties that cover
them.

## The modules

| Module | Models | State |
|---|---|---|
| `TimeoutQueue` | what a bank expects of its heap: a set of entries with timeouts, with one action for each call |  `due`, `intact` |
| `FibonacciHeapOps` | `FibonacciHeap.h` pointer by pointer, as operators on a record of all fields | |
| `FibonacciHeap` | a heap and its public operations | `heap`, `live` (allocated nodes), `status`, `raises` |
| `LinearHash` | `LinearHash.h`: buckets, lookup, iteration, sizes | |
| `RequestBankOps` | the calls of a bank as operators on a set of requests | |
| `RequestBank` | a bank, of either class, and its calls as a machine | `twoKeys`, `bank`, `served`, `result` |
| `BankTables` | a bank as it is stored: `FibonacciHeap`, with its variables and actions, and a hash of maps, or of hashes of maps; the owner's loop over what is over | those of `FibonacciHeap`, `twoKeys`, `bank`, `out`, `until`, `served` |
| `Delivery` | what the server promises: open requests, who is sent what, what a packet completes | `open`, `revision`, `now`, `sent` |
| `MCCIServer` | the server composed of six banks, the working set and the counters | `bank`, `working`, `revision`, `now`, what was sent, histories |
| `RevisionSet` | the revision set, its table, the process around it | `cache`, `rows`, `pending`, `signature`, `answer`, `issued`, `faults` |
| `MCCISchema` | `CMCCISchema`: loading a table of variables, the lookups, what the hash stands for | |
| `MCCIServerMain` | `main` as a machine on two databases, with failures and other programs | `table`, `signatures`, `pc`, the connections, what is loaded |
| `MCFibonacciHeap`, `MCFibonacciHeapDeep`, `MCBankTables`, `MCMCCIServer`, `MCRevisionSet`, `MCMCCIServerMain` | the instances that TLC checks | |
| `FoldInduction` | what a loop over a sequence keeps, by induction on its turns; instantiated by the proofs about loops | |
| `FibonacciHeapOps_proofs` | proofs about the operators of the heap | |
| `BankTables_proofs` | proofs about the heap by itself and that it implements `TimeoutQueue`; about the hash and its iterators; about the stored bank and that it implements `RequestBank` | |
| `RequestBankOps_proofs`, `RequestBank_proofs` | proofs about the calls of a bank, and about one bank | |
| `MCCIServer_proofs` | proofs about the server: types and counters; what it promises; that it implements `Delivery` | |
| `RevisionSet_proofs` | proofs about the revision set, until a statement is refused and after | |
| `MCCIServerMain_proofs` | proofs about the start of the program and the schema it loads | |

How they compose.  Three layers stand for a bank; the refinements
written `<-` and `^` are checked by TLC and proved:

    Delivery     <-  MCCIServer      six banks, RequestBankOps
                       RequestBank   one bank, RequestBankOps
                         ^  ImplementsBank, up to the first renewal to a later time
                       BankTables    FibonacciHeap and LinearHash
    TimeoutQueue <-  FibonacciHeap   FibonacciHeapOps

`RequestBank` runs one bank and `MCCIServer` six, both with the operators of
`RequestBankOps`, so that a lemma about a call serves both.  `BankTables` runs the
same calls over the actions of `FibonacciHeap` and the operators of `LinearHash`; what
`RequestBankOps` takes for one set of requests is there two structures that have to
agree.  `MCCISchema` is loaded by `MCCIServerMain`, which ends where a server has
been constructed; `MCCIServer` starts there.  The server takes numbers from a counter
for each variable that a restart keeps; `RevisionSet` shows when its table does keep
it.

One action is one call of a public operation, with everything it calls.

**Heap.**  A node's fields are functions on addresses.  `RingInsert` and
`RingRemove` are the node's `insert` and `remove`, with the assignments of the code
in order; loops are folds over `1..HeapSize`, which no loop exceeds, and `LinkTurn`,
`MergeTurn`, `RebuildTurn`, `CutTurn` are one turn each.  `remove_minimum_h` is `FreeChildren` (phase 1),
`MergeStart`/`MergeRoot`/`LinkUp` (phase 2) and `Rebuild` (phase 3).  Deleted nodes
get the constructor's values.  Operations
go on after a key was raised (`alter_key` to a later key), with links, degrees and
counts as the code leaves them, for as long as `m_next`, `m_child` and `m_parent`
still reach every node (`Linked`); beyond that, and after an index past the end of
`degree_roots` (undefined behaviour), nothing can be said.  `status` tells how the last
operation ended: "internal" is the error of line 404, "broken" a loop over a ring that
does not close, or cuts that `remove_child` stops (`NoChild`).  A heap holds at most `HeapSize` nodes, fewer than the counters can
count (`HeapAssumption`), so that a node has room to be allocated; where `m_count` or
a degree wraps, it wraps because the code got it wrong.  `TimeoutQueue` has an
action for each call, and the refinement is call by call: `ImplementsQueue` says that what
`remove_minimum` does is a `RemoveMinimum` of the queue, which takes an entry of least
key, and what `remove(n)` does a `Remove(n)`.  It promises nothing after a raise: its
`intact` is FALSE.

**Bank.**  The hash, the maps and the heap together hold a set of pairs
`<<key, client>>`, each with a timeout: `due`.  That they agree is the class's
design; what can go apart is state of its own: `out` (the counters), `stale` (keys
whose map `remove_by_pq` of a two-key bank deleted and left in the hash), and
`intact` (whether the heap may still be relied on).  `HeapLimit` is the number of
entries up to which it may; it is 4 in all runs, because run `heap` checks every
sequence of operations on four entries, and run `heap_overrun` shows that nine are
too many.

**Bank as stored.**  A request is its own node address, so that the pointer in a map
and the node in the heap can be compared.  What a call does to the heap is an action
of `FibonacciHeap` (`Insert`, `LowerKey`, `RaiseKey`, `RemoveMinimum`), of which
`AddNew`, `Renew` and `RemoveOver` are conjunctions with what it does to the maps and
counters.  `RemoveByKey` takes out several nodes: `Removal` folds `RemovalTurn` over
the subscribers, each with its counter and its removal from the heap, and stops where
one throws; as in the code, the node that is deleted is the one at the root after the key
was lowered, whichever that is.  The owner's loop of `enforce_timeouts` is `BeginTimeouts`, a `RemoveOver`
for each turn, and `EndTimeouts`; no call comes between them, as in the code, which is
what `Ready` says.  A pointer to a node that is gone makes the status "dangling", and
`TablesAgree` says that none is ever followed.  Which of the two classes a bank is
does not change (`twoKeys`); a key set of `RequestBankOneKey` has 0 for its first key.

**Hash.**  A hash is a function from buckets to maps; with two keys its values are
hashes.  The iterator is a bucket and a key (`Begin`, `Advance`, `End`), and `Visits`
the keys that a loop over it meets, with `VisitTurn` for each; `Reached` is what the
two loops of the destructor of a bank meet.

**Server.**  `process_request` is split into its exits: `RejectRequest`,
`SubscribeAllNodes`, `SubscribeNode`, `SubscribeNodeVariable` and `RequestRange`, of
which `AnswerRange` is the part after limit and first revision are computed.
The loop of a range is a set of revisions with the order the code visits them
(`Turn`); what happens up to the first one that throws is kept, as in the code.
Identifiers, revisions and counters are numbers below `Modulus`, and every unsigned
expression of the code is reduced by it.  A loop whose bound is the largest value
never ends: the outcome is "hung".  `ProcessData` takes packets of other nodes, and
old packets of this one; `ProcessProduction` takes a number and delivers.  `Tick`
moves the clock, and `Restart` is a new process on the same database.  The
variables `written`, `asked`, `faulted` and `ranAway` are histories that only
properties read.

What a call does in a heap that is not in order depends on links and counts that a set of
requests does not have: it may miss requests that are over, or end anywhere.  After a
renewal to a later timeout (`intact` is FALSE) every call that searches the heap is
therefore still a step, with the outcome it should have, with some of what is over left in
the bank (`Missable`), or with the outcome "adrift": `add` if it renews again (`Renews`,
`UnsureTurns`), `enforce_fulfillment`, and `enforce_timeouts`.  A server that is adrift
takes no more calls until it is started again; what such calls do is the subject of
`FibonacciHeap` and `BankTables`, which follow the pointers.

**Revision set.**  `Checks` is `check_revision`; `Bound` is what the update
statement is bound to when it is executed, the old bindings if it was not reset
(sqlite refuses to bind a statement that is in use, and `inc_revision` throws
without resetting it).  `Restart` and `CrashAfterUpdate` end the process between
calls and inside one.  A refused statement is one of at most `MaxFaults`.

**Schema and start.**  `Load` is what `CMCCISchema::load` leaves, given the table it
reads and the number of rows it counted before; the two are separate steps of
`MCCIServerMain` (`CountRows`, `LoadRows`), and `Edit` may come between, for the
database belongs to other programs as well.  A hash value is the sequence of lines it
is computed from.  Without any row, whether `load` throws depends on a variable that was never
assigned, and both happen (`LoadMayThrow`).  `PrepareStatements` leaves any of the three
statements of the revision set unprepared, since the code looks at no result.
`SetSignature` and `LookUpAgain` are the two lookups of
`set_signature` with the insertion between; `Caught` is a statement that fails in the
try block, `Restart` a new process at any point.  `Closed` is `sqlite3_close`, which
refuses while there are prepared statements.

**Delivery.**  The abstract service knows requests by their kind and key, a clock, and
the newest revision of each variable, and neither banks, counters, the working set
nor exceptions.  A request may open or renew requests of its own client only (`Ask`);
a packet goes to exactly the clients it answers and completes exactly the requests for
it (`Send`); everything that is over expires and nothing else (`Expire`).  The actions
have parameters for what may go wrong, and all of them are empty in `Delivery`'s own
`Next`.  `ImplementsDelivery` says what the server puts there:
- `Misdirected`: a packet of another node is also sent to who waits for this node's
  packet of the same variable and revision;
- `Unfulfilled`: a timeout 0 in a bank makes the removal throw, and the requests that
  were answered stay open;
- `Overdue`: in a bank with a renewal to a later timeout, some of what is over may stay
  (run `bank_renewed`).

Every other step is one of `Delivery`, until the server is adrift.

Mutants, used to show that each property can be violated by a plausible mistake,
stand before the definitions they change and are marked as such.

## The runs

| Run | Bounds | Shows |
|---|---|---|
| `heap` | 4 nodes, timeouts 0..2, at most two keys raised, symmetric | types, `WellFormed`, `MergeStaysInside`, and that the heap implements `TimeoutQueue` call by call, for every sequence of operations; after a raise, that the least key is still found (`LeastFirst`), and that only a raise makes the count fail (`CountFailsOnlyRaised`) |
| `heap_deep` | 9 entries inserted in order, then 2 removals and 2 decreases in any order | `WellFormed` and `ImplementsQueue` with trees of eight nodes, marks and cascading cuts, which smaller heaps do not reach.  (An index past the end of `degree_roots` takes a third removal: run `heap_overrun`) |
| `bank` | both bank classes, 2 clients, 2 keys, timeouts 0..2 | counters are exact for the clients `remove_by_key` has not served; the null maps it leaves hide no request |
| `bank_tables` | both bank classes, 3 key sets, two of them in one bucket and two with one second key, 4 possible requests of which 3 at a time, timeouts 0..2, one renewal to a later timeout | heap and maps hold the same requests (`TablesAgree`), the destructor frees each map once (`MapsAreFreed`), every call is a step of `RequestBank` (`ImplementsBank`), and the owner's loop removes all that is over (`OverIsRemoved`, under fairness) |
| `revisions` | 2 variables, 2 schemas, 2 numbers, 1 refused statement, symmetric | until a statement is refused: no number twice, numbers are in the table before they are used, the cache repeats the table and is never behind.  Always: the table never goes back, and a row lags by at most the number of refused statements |
| `main` | 3 ids of which two coincide in 16 bits (here modulo 4), 4 kinds of rows, one edit, 2 processes | the lookups invert each other and stay inside the vectors (`LookupsAgree`); one hash, one meaning (`SameHashSameMeaning`); servers of one schema go on with one signature_id, and of different schemas with different ones (`OneHashOneId`) |
| `server` | four scenarios, see below | types, counters, the local quota, the newest packet in the working set, forwarding, no silent loss, produced packets reach everybody who asked, and that the server implements `Delivery` but for the departures above |

All kinds of requests at once are too many to enumerate, so a behaviour of `server` is
one of four scenarios: `local`, two clients, ranges of one local variable in both
directions, two revisions; `timed`, one client, timeouts 0..2 with renewals in both
directions; `renewed`, one client, subscriptions that are renewed in both directions and
expire, and rejected requests; `elsewhere`, one client, subscriptions of every kind, ranges of another
node, one local revision, packets of both nodes.  In each, production, arriving
packets, expiry, the clock and restarts mix with the requests.

**Bounds.**  `Modulus` is 6 in the runs of the server and 8 in those of the bank:
there is room for the revisions and the counters of the run, and wrapping happens.
Two clients make a key with several subscribers, which is where `remove_by_key` has
an order; two keys make a counter over several requests.  Timeout 0 is the one that
makes heap operations throw, and three timeouts allow a renewal in both directions.
The clock runs one past the last timeout, so that everything can expire.  Two
schemas and two variables are what it takes for old bindings of the update to hit a
row of another variable, or a restart to find rows of another schema.

In `bank_tables` two keys share a bucket, so that the iterator has to find the
second; one of the key sets has two subscribers; and with two keys there are two
hashes in the outer one, of which either can come and go.  After a
`remove_by_key`, which leaves its history in the counters, and after the renewal to a
later timeout, at most two requests are followed, in the latter case with timeouts
above 0 (`FewLater`); the removal itself is from a bank of up to three.  In `main`, two
ids that coincide make one variable of two rows, one of the rows has a line that is
too long, and one edit between counting and loading suffices for either too many or
too few rows.

The run of the server does not follow a state after a range without end (the process
hangs, or has subscribed to every revision), nor one after a production of an unknown
variable, which uses up a number and throws (`Followed`); the steps that lead there
are checked.  The theorems below have neither restriction.
Deadlock is not checked: a server without requests, time or revisions left by the
bounds has nothing to do.

Runs in which a statement of the source does not hold:

| Run | The statement | What happens |
|---|---|---|
| `bank_counter` | "the number of open requests per subscriber is tracked" (`MCCIRequestBank.h:22`) | `=- 1` (line 134) sets the counter to 2^32-1 |
| `heap_overrun` | "make room for a new degree" (`FibonacciHeap.h:412`) | a freed child has a greater degree than any root had; index past the end |
| `server_requests_ok` | "all requests are (or should be) OK after this" (`MCCIServer.cpp:189`) | a request for a packet that was delivered before throws |
| `bank_renewed` | "removed both by the key and by the passing of time" (`MCCIRequestBank.h:21`) | a request renewed to a later timeout is counted out of the heap and not in again (`FibonacciHeap.h:498`); what is over stays |
| `revisions_repeat` | "do not produce duplicates" (`MCCIRevisionSet.h:12`) | a refused insert or update, and a restart |

**Fairness.**  One condition is stated, in `BankTables`: whoever is in the loop of
`enforce_timeouts` goes on with it.  It is one thread in a loop without waiting, so
nothing else can happen first.  Under it the loop ends with nothing left that is over
(`OverIsRemoved`).  No fairness is assumed of the handlers: when they are called
depends on a main loop that is not written, and anything else would be a guess, so
the properties of the server are safety properties.

## Observations

The model follows the code in these places too, where a comment says something else
or a reader would expect something else; no run is about them:

- A range can wrap below revision 0 (`MCCIServer.cpp:286`).  If its last revision is
  then the largest number, `r <= lastrev` never fails: the loop subscribes to every
  revision and does not end.  `Endless` and the outcome "hung" say so; `LocalQuotaHeld`
  is about the time before (`ranAway`).
- The limit of a remote range is the remote allowance only if the *local* one is too
  small (`MCCIServer.cpp:269`; the comment at `:264` says "basically same calculation
  using local vs remote").  `Limit` does the same, so no remote quota is claimed.
- A packet of another node is also sent to clients that wait for this node's revision
  of the same variable and number (`MCCIServer.cpp:535`), although the requests found
  there are for "a specific packet from this host" (`MCCIServer.h:164`).  `Hits` does the
  same; to `ImplementsDelivery` it is a departure (`Misdirected`), which completes nothing.
- `enforce_fulfillment` is to "remove all requests forz a specific packet that was
  delivered" (`MCCIServer.h:100`).  While a timeout in the bank is 0, `remove` throws
  (`FibonacciHeap.h:573`) after the packet was sent, and all requests for it stay open, to
  be answered again: the departure `Unfulfilled`.
- A sequence number without a variable is rejected only if the node is 0 as well
  (`MCCIServer.cpp:168`).  `IsRejectable` does the same.
- If some timeout of a bank is 0, `alter_key` to a later time may take out that other
  request in place of its own: it lowers the key to 0 and then removes *a* minimum
  (`FibonacciHeap.h:500`).  `AlterKeyH` does the same.  `RequestBank` is about the time
  before such a renewal (`intact`); the server goes on, and may be adrift.
- A schema loaded while rows are inserted writes past its vectors (`MCCISchema.cpp:60`;
  `LoadOverruns`), and one loaded while rows are deleted has positions without a
  variable.  `LookupsAgree` says nothing of these.
- `main` ends with 0 after an exception and does not close the databases
  (`MCCIServerMain.cpp:89`), and closes them under the server it has constructed
  (`:87`).  `sqlite3_close` refuses that for the database of revisions as long as its
  connection has prepared statements.  But `CMCCIRevisionSet::load` does not look at the
  results of preparing them (`MCCIRevisionSet.cpp:158`): if all three were refused, the
  server is left with a closed connection.  `PrepareStatements` and `Closed` do the same,
  and nothing is claimed about the connection.
- Of a table without enabled rows, `load` reads `update_success` unassigned
  (`MCCISchema.cpp:75`): it throws or not (`LoadMayThrow`).

## The proofs

All for every value of the constants: any finite sets of clients, keys, nodes and
variables, any requests, quotas, timeouts, tables and refusals, any number of entries
of a heap, and any width of the unsigned numbers.

| Module | Theorem | States |
|---|---|---|
| `BankTables_proofs` | `TypeCorrect` | `TypeOK` of the heap, also after keys were raised |
| | `StaysWellFormed`, `CountFails` | `WellFormed`, `CountFailsOnlyRaised` |
| | `LeastFirstUntilRaised` | `LeastFirst`, until a key is raised |
| | `HeapIsQueue` | `ImplementsQueue`: the heap implements `TimeoutQueue`, call by call |
| | `TablesTypeCorrect`, `MapsFreed` | `TablesTypeOK`, `MapsAreFreed`, for both bank classes |
| | `BankIsImplemented` | `ImplementsBank`: the stored bank implements `RequestBank` |
| | `TablesAgreeUntilRaised`, `TablesAgreeWhileLeast` | `TablesAgree`, until a key is raised; and in every behaviour with `LeastFirst` |
| `RequestBank_proofs` | `TypeCorrect`, `CountersAreExact`, `StaleKeysAreEmpty` | `TypeOK`, `CounterTracks`, `StaleKeysHoldNothing`, for both bank classes |
| `RevisionSet_proofs` | `TypeCorrect` | `TypeOK` |
| | `RevisionsAreUnique`, `NumbersAreWrittenAhead`, `ReadingsAreCurrent`, `CacheRepeatsTable` | `UniqueUnlessRefused`, `WrittenAhead`, `NeverBehind`, `CacheIsRow` |
| | `LagIsBounded`, `RowsGrow` | `LagBounded`, `RowsNeverGoBack` |
| `MCCIServer_proofs` | `TypeCorrect`, `CountersAreExact` | `TypeOK`, `CountersTrack` |
| | `NothingIsLost`, `ProductionIsDelivered` | `NoSilentLoss`, `ProductionReachesAll` |
| | `NewestIsHeld`, `WaitingIsJustified`, `QuotaIsHeld` | `WorkingIsLatest`, `WaitingIsAskedFor`, `LocalQuotaHeld` |
| | `DeliveryIsImplemented` | `ImplementsDelivery`: a step of `Delivery`, or departing from it as named, until the server is adrift |
| `MCCIServerMain_proofs` | `TypeCorrect` | `TypeOK` |
| | `LookupsInvert`, `HashTellsMeaning` | `LookupsAgree`, `SameHashSameMeaning` |
| | `SignedOnceForAll` | `OneHashOneId` |

The assumptions are those on the constants (`HeapAssumption`, `RaisesAssumption`,
`BankAssumption`, `RequestBankAssumption`, `TablesAssumption`, `ServerAssumption`, `RevisionAssumption`,
`SchemaAssumption`, `MainAssumption`): the sets are finite, addresses are distinct,
quotas and revisions fit the width, and a heap has fewer nodes than the width can count.

*Loops.*  A loop of the code is a fold of its turn over a sequence.  `FoldInduction`
has the turn and what it keeps as constants that are operators, and proves once, from
the well-foundedness of the natural numbers, that what holds before the loop and is
kept by every turn holds after it (`LoopKeeps`).  A module with a loop instantiates it
with its own turn (`CutShapes`, `LinkShapes`, `MergeShapes`, ...), so that what is
left to prove of a loop is one turn.

*Heap.*  `RingInsert` and `RingRemove` are a few assignments to two functions, and what
they keep is a property of a set of nodes that no single pointer shows.  `IsRing`
says of a set of nodes that `m_next` and `m_previous` are inverse on it and that no
proper part of it is closed under `m_next`; `RingsJoin` and `RingsPart` are about the
two splices.  On it stand lists of siblings (`IsList`) and the trees of a heap
(`Shaped`): the families of all nodes are lists, no set of nodes is its own ancestry
(`Grounded`, which takes the place of a height), a node that is not in the heap is
alone, every degree counts the children, no key is less than the parent's, and
`m_root_with_min_key` is a root of least key.
- `TypeCorrect` needs none of this: whatever the pointers are, none is NULL where the
  code follows it.  That is why it also holds after a raise.
- `CutKeepsShape`: a cut moves one tree to the roots, and the loop ends before its
  bound, because the ancestors it has passed are all different.
- `FreedShape` (phase 1), `MergeRootsSort` (phase 2) and `RebuildShape` (phase 3) carry
  the trees through `remove_minimum_h`, in whose middle the ring of roots is not as it
  should be.  What the loops of phase 2 keep is `Sorting`: the slots of `degree_roots` hold
  different roots, each of the degree of its slot; the roots still to come follow the
  current pointer in an order that no link changes; a link makes one tree of two.
  The inner loop ends within its bound because each turn uses up a slot.  Either all
  roots end up in the slots, or an index was past the end (`SortedOrOverrun`).
- `WellFormed` then follows from `IInv`, which is inductive: until a key is raised or
  `degree_roots` is overrun, the heap is `Shaped`, counted, and has at most `HeapSize`
  nodes.  `AllReachable` and `TreesAreLinked` derive what `WellFormed` says of
  reachability.
- `HeapIsQueue` maps each call to the same call of `TimeoutQueue` (`QueueStep`): what is taken
  is least among the roots, and keys grow along the trees (`LeastOfAll`).  `remove`
  takes out the node it is called for, and not another, only because 0 is below all
  other keys, which the code tests before.

*Hash.*  A loop over the iterator of `LinearHash` meets every key once (`VisitsAre`):
`VisitKept` says after each turn which keys are behind the iterator, and that they are
those of the buckets before its own and the smaller ones of its own.  `Put` and `Erase`
change what is found under one key (`PutIs`, `EraseIs`), whatever the size of the hash.

*Stored bank.*  The invariant is `TInv`:
- the types, and at most `HeapSize` nodes;
- `TablesHold`: each key is in the bucket it belongs to, in the outer hash and in those
  inside, and is the key of a key set; every map has a client; and the pointer for a
  client is to the node of this request.  `AddedIs`,
  `RemovedIs` and `KeyRemovedIs` say of each change to the maps that it keeps this, and
  what is mapped afterwards.  It is true always, and `MapsAreFreed` follows from it;
- while a call can follow, every node of the heap is mapped.  This survives raised keys
  and a removal that throws half-way, because the map goes last;
- until a key is raised the heap is in order (`Good`) and nothing else is mapped.

The last part is needed for the others: `remove_by_key` reads a node from a map and
removes it from the heap, where it has to be; and whether its loop can stop half-way
depends on the heap.  `RemovalTurnSound` shows that with a heap in order only the first
turn can throw, and does just if some timeout is 0, because `remove` compares with the
least key, and lowers none of the keys that are left.  So either all subscribers go from
both structures, or a counter is written and nothing else happens: these are the two
outcomes `RequestBank` has for the call.  `TablesStepImplements` is the refinement step
by step (`AddNewImplements`, `RenewImplements`, `RemoveOverImplements`,
`RemoveByKeyImplements`).

After a raise the heap is in no order that the proofs describe.  `TablesAgreeWhileLeast`
shows how little of it the agreement needs: as long as the root has the least key,
`RemovalTurnLeast` repeats the argument about the loop, for nothing but the types and the
keys of the nodes (`RemoveTyped`), which `remove` leaves alone on any links.

*Bank.*  `CounterTracks` is inductive together with the type, but each step adds to
or subtracts from a counter a number of requests that is a cardinality, modulo the
width.  `RequestBankOps_proofs` first proves that reducing early or late makes no
difference, and then for each call (`AddKeeps`, `ExpireKeeps`, `RemoveByKeyKeeps`) that it
keeps the type and moves counter and cardinality alike.

*Server.*  `MCCIServer_proofs` first says what a handler does, case by case:
`RequestCases` (a request leaves no trace, subscribes for one key, or is a range),
`RangeCases`, `DeliverCases`, `DataCases`, `ProductionCases`; `Effect` collects what
can happen to the banks, and `EffectKeeps` applies the lemmas about the calls of a
bank.  The promises build on that:
- `NoSilentLoss` and `ProductionReachesAll` need only the types: `DeliveryTakes` shows
  that what a delivery takes out of a bank waits for its packet, and that its client
  is among those hit.
- `WaitingIsAskedFor` is inductive with the types, but only as a statement about each
  request (`Answerable`): production raises a revision and makes a request of the
  future one of the present, and the delivery in the same handler takes out just
  that one, unless it throws and ends the claim.
- `LocalQuotaHeld` needs `CountersTrack` as well: only because the counter is exact is
  the allowance the code computes from it what is left (`FreeIsLeft`).  `RangeWidth`
  shows that a range which ends has no more turns than its limit, whichever way its
  ends wrap, and `RangeFits` that it adds no more requests than that.

`DeliveryIsImplemented` shows that initial states map to initial states and every
step to a step of `Delivery`, a named departure from one, a step that goes adrift, or a
stutter, one lemma for each kind of step:
`RequestAsks` (what a request opens or renews is its client's, and what it is sent at
once is the newest packet), `DeliverySends` (the clients hit are those whose requests
the packet answers or is misdirected to, and what leaves the bank is what it completes,
or nothing),
`TimeoutsExpire`, `ProductionPublishes`, `DataRelays`, `RestartForgets`.  The invariant
it needs is no more than `TypeOK` and `WorkingIsLatest`, both proved before.

*Revision set.*  `NoDuplicates` is not inductive.  `IInv` adds, under the condition
that no statement was refused, `Sound`: every number handed out is covered by its
row, a cached number is the row's, and the update statement is ready.  `ChecksAgree`
shows that `check_revision` then yields the row's number, and `UpdateWrites` that the
update changes this row alone; the number handed out is one above the row, hence
above all before.  Once statements are refused, `LInv` takes over.  A lagging row is
harmless by itself; what could break the bound is an update executed with old
bindings, which costs another variable's update.  `Owed` says that a kept binding is
of this process, lies between its row and its cached number, and that as long as it
is kept every other variable is one refusal short of the bound: so executing it is
paid for.

*Start of the program.*  `OneHashOneId` speaks of servers that have been constructed, and
needs what holds on the way there: no signature is in the table twice (`SignedOnce`), one
that was inserted is found by the second lookup, also by a process that was started after
the insertion (`InsertedIsThere`), the signature_id is that of the loaded schema
(`SignedByHash`), and a row that a server was given stays (`ServedAreSigned`).
`SignaturesAreRows` gives the table the type that `Append` needs.

*Schema.*  What the three lookups say is a property of two loops of `load`, over the
rows of the table and over the entries of the hash.  `LookupsInvert` and
`HashTellsMeaning` are inductions over their turns, from a table whose enabled ids are
different in 16 bits, and whatever the table, respectively.

Model-checked only:
- `MergeStaysInside`.  It does not hold of every heap (run `heap_overrun`), so there is
  nothing to prove for all; the theorems about the heap say what holds until then.
- `LeastFirst` after a raise, where degrees, counts and previous pointers are wrong in
  ways that no invariant but the reachable states themselves describes.  Until then it
  is `LeastFirstUntilRaised`.
- `TablesAgree` after a raise rests on that: `TablesAgreeWhileLeast` proves it from
  `LeastFirst`, and the runs check both.
- `OverIsRemoved`, a liveness property, which the prover does not reach.

## Not modelled

Sockets and their interface, the clock, printing, the old prototype, the demonstration
and the test programs.  Of the revision set: a change of schema in a running process
(strictness switched off, "ONLY for debugging"), the copy constructor, which nobody
calls and which leaves the signature uninitialised, and loss of power, which the
source excludes.  Of the heap: `merge`, which nobody calls, and any use after its links
no longer reach every node.  Of the hash: the copy constructor, `clear` and
`max_collisions`.  Of the server: what a
handler does after it went adrift in a heap that is not in order, until the next start
(`BankTables` follows one bank there), the copy constructor, the lookups that only tests
call (`bank_contains_...`, `request_count`), client identifiers that were never
allocated, and the fields of the response.  Of the schema: SHA-1 and base64, taken to
tell all inputs apart.

## Plan

Done: the modules in the order `TimeoutQueue`, `FibonacciHeap`, `RequestBankOps`,
`RequestBank`, `MCCIServer`, `RevisionSet`, `LinearHash`, `BankTables`, `Delivery`,
`MCCISchema`, `MCCIServerMain`, and proofs about all of them.

Next:
1. `LeastFirst` after a raise: an invariant of the links that are left, which would make
   `TablesAgreeWhileLeast` unconditional.
2. `MCCIServer` over `RevisionSet`: production with refused statements, so that a
   client never sees two packets with one number until a statement is refused.
3. `set_signature` of a running revision set with strictness off, and the cache it
   leaves.
