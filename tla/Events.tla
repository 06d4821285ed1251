------------------------------- MODULE Events -------------------------------
(***************************************************************************)
(* Queries of running nodes: netstats, print, peerstatus.                  *)
(*                                                                         *)
(* With Broker, zeekctl peers with one node after the other, at the node's *)
(* address and the port on record, and then waits for the replies in the   *)
(* same order.  With WebSocket, one connection to the manager serves all:  *)
(* nodes are asked one at a time, and a reply that comes too late is read  *)
(* when the next node's is expected.                                       *)
(***************************************************************************)
EXTENDS Integers, Sequences

CONSTANTS
  Nodes,        \* names of nodes
  Host,         \* their hosts
  None

ASSUME EventsAssumption == None \notin Nodes

VARIABLES
  ports,        \* the ports on record
  listen,       \* the ports that running nodes listen on, 0 for others
  query,        \* the query: the nodes asked, the backend, and where it is at
  peers,        \* Broker: the nodes zeekctl has peered with
  pending,      \* requests that a node has and has not replied to
  inbox,        \* replies, in the order of arrival; numbers of requests
  results       \* the results so far

eVars == <<query, peers, pending, inbox, results>>
Backends == {"broker", "websocket"}
Asked == query.asked
Result(n, success, from) == [node |-> n, success |-> success, from |-> from]
Current == Asked[Len(results) + 1]
Arrived == {inbox[k] : k \in DOMAIN inbox}

(* Who answers at the address and port of n. *)
Listening(n) == {k \in Nodes : listen[k] # 0 /\ listen[k] = ports[n] /\ Host[k] = Host[n]}

\* An operating system lets one process listen on a port.
OnePerPort ==
  \A k, n \in Nodes : listen[k] # 0 /\ listen[k] = listen[n] /\ Host[k] = Host[n] => k = n

NoQuery == [at |-> "none", backend |-> "broker", asked |-> <<>>, alone |-> FALSE, server |-> FALSE]

Idle ==
  /\ query' = NoQuery /\ peers' = <<>> /\ pending' = {} /\ inbox' = <<>> /\ results' = <<>>

(* send_events_parallel(). *)
Begin(ns, backend, alone, server) ==
  /\ query' = [at |-> "connect", backend |-> backend, asked |-> ns, alone |-> alone, server |-> server]
  /\ peers' = <<>> /\ pending' = {} /\ inbox' = <<>> /\ results' = <<>>

At(backend, place) == query.at = place /\ query.backend = backend
GoTo(place) == query' = [query EXCEPT !.at = place]

(* A result, and the next node. *)
Answer(r, place) ==
  /\ results' = Append(results, r)
  /\ GoTo(IF Len(results) + 1 = Len(Asked) THEN "done" ELSE place)

(* A node replies, early or late. *)
Reply ==
  /\ query.at \notin {"none", "done", "raised"}
  /\ \E i \in pending : pending' = pending \ {i} /\ inbox' = Append(inbox, i)
  /\ UNCHANGED <<query, peers, results>>

(* All nodes fail if there are no bindings for Broker, or if the WebSocket has no
   connection or no acknowledgement. *)
Unavailable ==
  /\ query.at = "connect" /\ peers = <<>>
  /\ GoTo("done") /\ results' = [i \in DOMAIN Asked |-> Result(Asked[i], FALSE, None)]
  /\ UNCHANGED <<peers, pending, inbox>>

-----------------------------------------------------------------------------
(* Broker.                                                                 *)

(* _send_event_init(): if there is no connection in time, the subscriber is
   None, and resetting it raises an error. *)
PeerWith ==
  /\ At("broker", "connect") /\ Len(peers) < Len(Asked)
  /\ \/ \E k \in Listening(Asked[Len(peers) + 1]) :
          peers' = Append(peers, k) /\ pending' = pending \cup {Len(peers) + 1} /\ UNCHANGED query
     \/ GoTo("raised") /\ UNCHANGED <<peers, pending>>
  /\ UNCHANGED <<inbox, results>>

AllPeered ==
  /\ At("broker", "connect") /\ Len(peers) = Len(Asked)
  /\ GoTo(IF Asked = <<>> THEN "done" ELSE "wait")
  /\ UNCHANGED <<peers, pending, inbox, results>>

(* Mutant: there is no limit to the tries. *)
WaitForever ==
  /\ At("broker", "wait") /\ Len(results) + 1 \in Arrived
  /\ Answer(Result(Current, TRUE, peers[Len(results) + 1]), "wait")
  /\ UNCHANGED <<peers, pending, inbox>>

(* _send_event_wait(). *)
Wait ==
  /\ At("broker", "wait")
  /\ IF Len(results) + 1 \in Arrived
     THEN Answer(Result(Current, TRUE, peers[Len(results) + 1]), "wait")
     ELSE Answer(Result(Current, FALSE, None), "wait")
  /\ UNCHANGED <<peers, pending, inbox>>

-----------------------------------------------------------------------------
(* WebSocket.                                                              *)

Connect ==
  /\ At("websocket", "connect") /\ query.server
  /\ GoTo(IF Asked = <<>> THEN "done" ELSE "send")
  /\ UNCHANGED <<peers, pending, inbox, results>>

(* Mutant: all events are sent before any reply is read. *)
SendAll ==
  /\ At("websocket", "send")
  /\ GoTo("recv") /\ pending' = IF results = <<>> THEN DOMAIN Asked ELSE pending
  /\ UNCHANGED <<peers, inbox, results>>

(* The node may not get the event, and the connection may be closed. *)
Send ==
  /\ At("websocket", "send")
  /\ \/ GoTo("recv") /\ pending' = pending \cup {Len(results) + 1} /\ UNCHANGED results
     \/ GoTo("recv") /\ UNCHANGED <<pending, results>>
     \/ Answer(Result(Current, FALSE, None), "send") /\ UNCHANGED pending
  /\ UNCHANGED <<peers, inbox>>

(* Mutant: the sender of the reply is not looked at. *)
ReceiveAny ==
  /\ At("websocket", "recv") /\ inbox # <<>>
  /\ Answer(Result(Current, TRUE, Asked[Head(inbox)]), "send")
  /\ inbox' = Tail(inbox)
  /\ UNCHANGED <<peers, pending>>

(* The reply must be the addressed node's; it may lack the name if it is the
   only node. *)
Receive ==
  /\ At("websocket", "recv") /\ inbox # <<>>
  /\ LET from == Asked[Head(inbox)] IN
     Answer(Result(Current, from = Current \/ query.alone, from), "send")
  /\ inbox' = Tail(inbox)
  /\ UNCHANGED <<peers, pending>>

(* Mutant: the loop ends at the first node that does not reply. *)
TimeOutBreaks ==
  /\ At("websocket", "recv") /\ inbox = <<>>
  /\ GoTo("done")
  /\ UNCHANGED <<peers, pending, inbox, results>>

TimeOut ==
  /\ At("websocket", "recv") /\ inbox = <<>>
  /\ Answer(Result(Current, FALSE, None), "send")
  /\ UNCHANGED <<peers, pending, inbox>>

Client == Unavailable \/ PeerWith \/ AllPeered \/ Wait \/ Connect \/ Send \/ Receive \/ TimeOut

QueryNext == (Reply \/ Client) /\ UNCHANGED <<ports, listen>>

(* One query after the other; ports change in between. *)
QueryInit ==
  /\ query = NoQuery /\ peers = <<>> /\ pending = {} /\ inbox = <<>> /\ results = <<>>
  /\ OnePerPort

Between ==
  /\ query.at \in {"none", "done", "raised"} /\ OnePerPort'
  /\ \/ Idle
     \/ \E ns \in Seq(Nodes), backend \in Backends, alone, server \in BOOLEAN :
          /\ \A i, j \in DOMAIN ns : ns[i] = ns[j] => i = j
          /\ alone => Len(ns) <= 1
          /\ Begin(ns, backend, alone, server)

QuerySpec == QueryInit /\ [][QueryNext \/ Between]_<<eVars, ports, listen>>

-----------------------------------------------------------------------------
(* Properties.                                                             *)

(* A reply that is taken as a node's is that node's -- also if replies of nodes
   asked before come late; with Broker, only if the node listens on the port on
   record. *)
ReplyIsOwn ==
  \A i \in DOMAIN results :
    LET r == results[i] IN
    r.success => \/ r.from = r.node
                 \/ query.backend = "broker" /\ ports[r.node] # listen[r.node]

(* A query that ends with no error has one result for each node, in the order
   of the nodes, whatever replies were late or missing. *)
AnswersEachOnce ==
  /\ Len(results) <= Len(Asked)
  /\ \A i \in DOMAIN results : results[i].node = Asked[i]
  /\ query.at = "done" => Len(results) = Len(Asked)

(* If the wrong node is said to have replied, it is one asked before that had
   no success: one late reply is where a series of such errors begins. *)
BlameIsEarlier ==
  \A j \in DOMAIN results :
    results[j].from \in Nodes \ {results[j].node} /\ query.backend = "websocket" =>
      \E i \in 1 .. j - 1 : Asked[i] = results[j].from /\ ~results[i].success
=============================================================================
