---------------------------- MODULE MCMCCIServer ----------------------------
(***************************************************************************)
(* Instances of MCCIServer for TLC.  All kinds of requests at once are too  *)
(* many, so a behaviour is one of four scenarios: two clients and the       *)
(* local revisions of one variable; one client and timeouts; one client     *)
(* that renews its subscriptions; one client that also asks for packets of  *)
(* another node.                                                           *)
(***************************************************************************)
EXTENDS MCCIServer

\* Ranges of revisions of a local variable, forwards and backwards, to now and absolute.
LocalRequests ==
    [timeout : {1}, node : {MyNode}, var : {1}, revision : {0, 1},
     quantity : {-1, 2}]

\* Local ranges, with timeouts that make calls throw and renewals that
\* move a request to an earlier or a later time.
TimedRequests ==
    [timeout : {0, 1, 2}, node : {MyNode}, var : {1}, revision : {1}, quantity : {1, -2}]
      \cup [timeout : {1}, node : {MyNode}, var : {1}, revision : {1}, quantity : {0}]

\* Subscriptions that are renewed in the same way.
RenewedRequests ==
    [timeout : {1, 2}, node : {HostAny} \cup RemoteNode, var : {0, 1},
     revision : {0}, quantity : {1}]

\* Subscriptions to everything, a node, a variable, a variable of a node.
Subscriptions ==
    [timeout : {1}, node : {HostAny} \cup RemoteNode, var : {0, 1}, revision : {0},
     quantity : {1}]
      \cup [timeout : {1}, node : {0}, var : {0}, revision : {0}, quantity : {1}]

\* Ranges of revisions of another node.
RemoteRequests ==
    [timeout : {1}, node : RemoteNode, var : {1}, revision : {1}, quantity : {-2}]

\* The two malformed requests that are rejected.
Malformed ==
    [timeout : {1}, node : {0}, var : {0}, revision : {1}, quantity : {1}]
      \cup [timeout : {1}, node : {HostAny}, var : {1}, revision : {1}, quantity : {1}]

\* One revision of a local variable, which packets of another node resemble.
OneLocal == [timeout : {1}, node : {0}, var : {1}, revision : {1}, quantity : {1}]

ElsewhereRequests == Subscriptions \cup RemoteRequests \cup OneLocal

const_Requests ==
    LocalRequests \cup TimedRequests \cup RenewedRequests \cup Malformed
      \cup ElsewhereRequests

\* What a behaviour is restricted to: the clients and their requests, the nodes packets
\* come from, and how far revisions and the clock go.
Scenarios ==
    [local     |-> [clients |-> Client, requests |-> LocalRequests, nodes |-> {MyNode},
                    revisions |-> 2, clock |-> 2],
     timed     |-> [clients |-> {0}, requests |-> TimedRequests, nodes |-> {MyNode},
                    revisions |-> 2, clock |-> 3],
     renewed   |-> [clients |-> {0}, requests |-> RenewedRequests \cup Malformed,
                    nodes |-> {}, revisions |-> 0, clock |-> 2],
     elsewhere |-> [clients |-> {0}, requests |-> ElsewhereRequests, nodes |-> Node,
                    revisions |-> 1, clock |-> 2]]

VARIABLE scenario

ScenarioNext ==
    LET s == Scenarios[scenario]
    IN  /\ \/ \E c \in s.clients, p \in s.requests : ProcessRequest(c, p)
           \/ \E d \in [node : s.nodes, var : Schema, revision : 1..s.revisions] :
                  ProcessData(d)
           \/ \E v \in Var : revision[v] < s.revisions /\ ProcessProduction(v)
           \/ EnforceTimeouts
           \/ now < s.clock /\ Tick
           \/ Restart
        /\ UNCHANGED scenario

ScenarioInit == Init /\ scenario \in DOMAIN Scenarios
ScenarioSpec == ScenarioInit /\ [][ScenarioNext]_<<vars, scenario>>

LocalInit == Init /\ scenario = "local"
LocalSpec == LocalInit /\ [][ScenarioNext]_<<vars, scenario>>

\* A server that hangs, or has run through every revision, is not followed any further;
\* productions of a variable the schema does not have change nothing that the other
\* handlers see: they are tried, and not followed either.
Followed == ~ranAway /\ revision[0] = 0
=============================================================================
