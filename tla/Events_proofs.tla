---------------------------- MODULE Events_proofs ---------------------------
(***************************************************************************)
(* Proofs about Events, for any nodes, ports, and queries in a row.        *)
(***************************************************************************)
EXTENDS Events, SequenceTheorems, TLAPS

Places == {"none", "connect", "wait", "send", "recv", "done", "raised"}
QueryRecords ==
  [at : Places, backend : Backends, asked : Seq(Nodes), alone : BOOLEAN, server : BOOLEAN]
ResultRecords == [node : Nodes, success : BOOLEAN, from : Nodes \cup {None}]

TypeInv ==
  /\ query \in QueryRecords /\ peers \in Seq(Nodes) /\ pending \in SUBSET Nat
  /\ inbox \in Seq(Nat) /\ results \in Seq(ResultRecords)

(* How far a query is. *)
Progress ==
  /\ Len(results) <= Len(Asked)
  /\ \A i \in 1 .. Len(results) : results[i].node = Asked[i]
  /\ query.at \in {"none", "connect"} => results = <<>>
  /\ query.at \in {"wait", "send", "recv"} => Len(results) < Len(Asked)
  /\ query.at = "done" => Len(results) = Len(Asked)
  /\ \A i, j \in 1 .. Len(Asked) : Asked[i] = Asked[j] => i = j
  /\ query.alone => Len(Asked) <= 1

(* Peers are where the nodes should be. *)
PeerInv ==
  /\ Len(peers) <= Len(Asked)
  /\ \A i \in 1 .. Len(peers) : peers[i] \in Listening(Asked[i])
  /\ query.at = "wait" => Len(peers) = Len(Asked)
  /\ query.backend = "broker" => query.at \notin {"send", "recv"}
  /\ query.backend = "websocket" => query.at # "wait"

(* A reply that is on its way is of a node asked before, which has no success
   -- or of the one whose reply is expected. *)
Outstanding(i) ==
  /\ i \in 1 .. Len(Asked)
  /\ i <= Len(results) \/ (i = Len(results) + 1 /\ query.at = "recv")
  /\ i <= Len(results) => ~results[i].success

ReplyInv ==
  query.backend = "websocket" =>
    /\ \A i \in pending : Outstanding(i)
    /\ \A k \in 1 .. Len(inbox) : Outstanding(inbox[k]) /\ inbox[k] \notin pending
    /\ \A k, l \in 1 .. Len(inbox) : inbox[k] = inbox[l] => k = l

Sound(i) ==
  LET r == results[i] IN
  /\ r.success => IF query.backend = "broker" THEN r.from \in Listening(r.node) ELSE r.from = r.node
  /\ query.backend = "websocket" /\ r.from \in Nodes \ {r.node} =>
       \E j \in 1 .. i - 1 : Asked[j] = r.from /\ ~results[j].success

EventsInv ==
  /\ TypeInv /\ Progress /\ PeerInv /\ ReplyInv /\ OnePerPort
  /\ \A i \in 1 .. Len(results) : Sound(i)

-----------------------------------------------------------------------------
LEMMA AppendFacts ==
  ASSUME NEW S, NEW s \in Seq(S), NEW e \in S
  PROVE  /\ Append(s, e) \in Seq(S) /\ Len(Append(s, e)) = Len(s) + 1 /\ Len(s) \in Nat
         /\ \A i \in 1 .. Len(s) : Append(s, e)[i] = s[i]
         /\ Append(s, e)[Len(s) + 1] = e
  BY AppendProperties, LenProperties

LEMMA TailFacts ==
  ASSUME NEW S, NEW s \in Seq(S), s # <<>>
  PROVE  /\ Tail(s) \in Seq(S) /\ Len(Tail(s)) = Len(s) - 1 /\ Len(s) \in Nat \ {0}
         /\ \A i \in 1 .. Len(Tail(s)) : Tail(s)[i] = s[i + 1]
         /\ Head(s) \in S /\ Head(s) = s[1]
  OBVIOUS

LEMMA LenFacts ==
  ASSUME TypeInv
  PROVE  /\ Len(results) \in Nat /\ Len(Asked) \in Nat /\ Len(peers) \in Nat /\ Len(inbox) \in Nat
         /\ DOMAIN results = 1 .. Len(results) /\ DOMAIN Asked = 1 .. Len(Asked)
         /\ DOMAIN inbox = 1 .. Len(inbox)
         /\ \A i \in 1 .. Len(Asked) : Asked[i] \in Nodes
         /\ \A i \in 1 .. Len(peers) : peers[i] \in Nodes
         /\ \A i \in 1 .. Len(results) : results[i] \in ResultRecords
         /\ \A i \in 1 .. Len(inbox) : inbox[i] \in Nat
<1>1. Asked \in Seq(Nodes)
  BY DEF TypeInv, QueryRecords, Asked
<1> QED
  BY <1>1, LenProperties, ElementOfSeq DEF TypeInv

-----------------------------------------------------------------------------
(* A result with which zeekctl goes on to the next node. *)
LEMMA AnswerFacts ==
  ASSUME EventsInv, NEW success \in BOOLEAN, NEW from \in Nodes \cup {None},
         NEW place \in {"wait", "send"}, query.at \in {"wait", "send", "recv"},
         Answer(Result(Current, success, from), place)
  PROVE  /\ results' \in Seq(ResultRecords) /\ Len(results') = Len(results) + 1
         /\ \A i \in 1 .. Len(results) : results'[i] = results[i]
         /\ results'[Len(results) + 1] = Result(Asked[Len(results) + 1], success, from)
         /\ query' \in QueryRecords /\ Asked' = Asked
         /\ query'.backend = query.backend /\ query'.alone = query.alone
         /\ query'.at = IF Len(results) + 1 = Len(Asked) THEN "done" ELSE place
<1>0. TypeInv /\ Len(results) < Len(Asked)
  BY DEF EventsInv, Progress
<1>a. /\ Len(results) \in Nat /\ Len(Asked) \in Nat
      /\ \A i \in 1 .. Len(Asked) : Asked[i] \in Nodes
  BY <1>0, LenFacts
<1>1. Len(results) + 1 \in 1 .. Len(Asked) /\ Current \in Nodes
  BY <1>0, <1>a DEF Current
<1>2. Result(Current, success, from) \in ResultRecords
  BY <1>1 DEF Result, ResultRecords
<1>3. results' = Append(results, Result(Current, success, from)) /\ results \in Seq(ResultRecords)
  BY DEF Answer, EventsInv, TypeInv
<1>4. /\ results' \in Seq(ResultRecords) /\ Len(results') = Len(results) + 1
      /\ \A i \in 1 .. Len(results) : results'[i] = results[i]
      /\ results'[Len(results) + 1] = Result(Current, success, from)
  BY <1>2, <1>3, AppendFacts
<1>5. query \in QueryRecords /\ query' = [query EXCEPT !.at = IF Len(results) + 1 = Len(Asked) THEN "done" ELSE place]
  BY DEF Answer, GoTo, EventsInv, TypeInv
<1>6. /\ query' \in QueryRecords /\ query'.asked = query.asked
      /\ query'.backend = query.backend /\ query'.alone = query.alone
      /\ query'.at = IF Len(results) + 1 = Len(Asked) THEN "done" ELSE place
  BY <1>5 DEF QueryRecords, Places
<1> QED
  BY <1>4, <1>6 DEF Asked, Current

LEMMA AnswerProgress ==
  ASSUME EventsInv, NEW success \in BOOLEAN, NEW from \in Nodes \cup {None},
         NEW place \in {"wait", "send"}, query.at \in {"wait", "send", "recv"},
         Answer(Result(Current, success, from), place)
  PROVE  Progress'
<1>0. /\ Progress /\ TypeInv /\ Len(results) < Len(Asked)
  BY DEF EventsInv, Progress
<1>a. Len(results) \in Nat /\ Len(Asked) \in Nat
  BY <1>0, LenFacts
<1>b. /\ Len(results') = Len(results) + 1 /\ Asked' = Asked
      /\ query'.at = IF Len(results) + 1 = Len(Asked) THEN "done" ELSE place
      /\ query'.alone = query.alone
  BY AnswerFacts
<1>d. /\ \A i \in 1 .. Len(results) : results'[i] = results[i]
      /\ results'[Len(results) + 1] = Result(Asked[Len(results) + 1], success, from)
  BY AnswerFacts
<1>c. results'[Len(results) + 1].node = Asked[Len(results) + 1]
  BY <1>d DEF Result
<1>2. Len(results') <= Len(Asked')
  BY <1>0, <1>a, <1>b
<1>3. \A i \in 1 .. Len(results') : results'[i].node = Asked'[i]
  <2> SUFFICES ASSUME NEW i \in 1 .. Len(results') PROVE results'[i].node = Asked[i]
    BY <1>b
  <2>1. CASE i \in 1 .. Len(results)
    BY <2>1, <1>0, <1>d DEF Progress
  <2>2. CASE i = Len(results) + 1
    BY <2>2, <1>c
  <2> QED BY <2>1, <2>2, <1>a, <1>b
<1>4. query'.at \notin {"none", "connect"}
  BY <1>b
<1>5. query'.at \in {"wait", "send", "recv"} => Len(results') < Len(Asked')
  BY <1>0, <1>a, <1>b
<1>6. query'.at = "done" => Len(results') = Len(Asked')
  BY <1>b
<1>7. /\ \A i, j \in 1 .. Len(Asked') : Asked'[i] = Asked'[j] => i = j
      /\ query'.alone => Len(Asked') <= 1
  BY <1>0, <1>b DEF Progress
<1> QED BY <1>2, <1>3, <1>4, <1>5, <1>6, <1>7 DEF Progress

LEMMA AnswerSound ==
  ASSUME EventsInv, NEW success \in BOOLEAN, NEW from \in Nodes \cup {None},
         NEW place \in {"wait", "send"}, query.at \in {"wait", "send", "recv"},
         Answer(Result(Current, success, from), place), UNCHANGED <<ports, listen>>,
         success => IF query.backend = "broker" THEN from \in Listening(Current) ELSE from = Current,
         query.backend = "websocket" /\ from \in Nodes \ {Current} =>
           \E j \in 1 .. Len(results) : Asked[j] = from /\ ~results[j].success
  PROVE  \A i \in 1 .. Len(results') : Sound(i)'
<1>a. TypeInv /\ Len(results) \in Nat
  BY LenFacts DEF EventsInv
<1>b. /\ Len(results') = Len(results) + 1 /\ Asked' = Asked /\ query'.backend = query.backend
      /\ \A i \in 1 .. Len(results) : results'[i] = results[i]
      /\ results'[Len(results) + 1] = Result(Current, success, from)
  BY AnswerFacts DEF Current
<1>c. ports' = ports /\ listen' = listen
  OBVIOUS
<1> SUFFICES ASSUME NEW i \in 1 .. Len(results') PROVE Sound(i)'
  OBVIOUS
<1>1. CASE i \in 1 .. Len(results)
  <2>1. Sound(i)
    BY <1>1 DEF EventsInv
  <2>2. results'[i] = results[i] /\ \A j \in 1 .. i - 1 : results'[j] = results[j]
    BY <1>1, <1>a, <1>b
  <2>4. results'[i].success =>
          IF query'.backend = "broker" THEN results'[i].from \in Listening(results'[i].node)
                                       ELSE results'[i].from = results'[i].node
    BY <2>1, <2>2, <1>b DEF Sound
  <2>5. query'.backend = "websocket" /\ results'[i].from \in Nodes \ {results'[i].node} =>
          \E j \in 1 .. i - 1 : Asked'[j] = results'[i].from /\ ~results'[j].success
    BY <2>1, <2>2, <1>b DEF Sound
  <2> QED BY <2>4, <2>5, <1>c DEF Sound, Listening
<1>2. CASE i = Len(results) + 1
  <2>1. /\ results'[i].node = Current /\ results'[i].success = success /\ results'[i].from = from
    BY <1>2, <1>b DEF Result
  <2>3. 1 .. i - 1 = 1 .. Len(results)
    BY <1>2, <1>a
  <2>4. results'[i].success =>
          IF query'.backend = "broker" THEN results'[i].from \in Listening(results'[i].node)
                                       ELSE results'[i].from = results'[i].node
    BY <2>1, <1>b
  <2>5. query'.backend = "websocket" /\ results'[i].from \in Nodes \ {results'[i].node} =>
          \E j \in 1 .. i - 1 : Asked'[j] = results'[i].from /\ ~results'[j].success
    <3> HAVE query'.backend = "websocket" /\ results'[i].from \in Nodes \ {results'[i].node}
    <3>1. PICK j \in 1 .. Len(results) : Asked[j] = from /\ ~results[j].success
      BY <2>1, <1>b
    <3> QED BY <3>1, <2>1, <2>3, <1>b
  <2> QED BY <2>4, <2>5, <1>c DEF Sound, Listening
<1> QED BY <1>1, <1>2, <1>a, <1>b

-----------------------------------------------------------------------------
(* The steps.                                                              *)

LEMMA ReplyKeeps ==
  ASSUME EventsInv, Reply, UNCHANGED <<ports, listen>>
  PROVE  EventsInv'
<1>1. PICK i \in pending : pending' = pending \ {i} /\ inbox' = Append(inbox, i)
  BY DEF Reply
<1>2. query' = query /\ peers' = peers /\ results' = results /\ ports' = ports /\ listen' = listen
  BY DEF Reply
<1>3. TypeInv /\ i \in Nat /\ inbox \in Seq(Nat)
  BY <1>1 DEF EventsInv, TypeInv
<1>4. /\ inbox' \in Seq(Nat) /\ Len(inbox') = Len(inbox) + 1 /\ Len(inbox) \in Nat
      /\ \A k \in 1 .. Len(inbox) : inbox'[k] = inbox[k]
      /\ inbox'[Len(inbox) + 1] = i
  BY <1>1, <1>3, AppendFacts
<1>5. TypeInv'
  BY <1>1, <1>2, <1>3, <1>4 DEF TypeInv
<1>6. Progress' /\ PeerInv' /\ OnePerPort'
  BY <1>2 DEF EventsInv, Progress, PeerInv, OnePerPort, Asked, Listening
<1>7. ReplyInv'
  <2> SUFFICES ASSUME query.backend = "websocket" PROVE ReplyInv'
    BY <1>2 DEF ReplyInv
  <2>1. /\ \A j \in pending : Outstanding(j)
        /\ \A k \in 1 .. Len(inbox) : Outstanding(inbox[k]) /\ inbox[k] \notin pending
        /\ \A k, l \in 1 .. Len(inbox) : inbox[k] = inbox[l] => k = l
    BY DEF EventsInv, ReplyInv
  <2>2. ASSUME NEW j, Outstanding(j) PROVE Outstanding(j)'
    BY <2>2, <1>2 DEF Outstanding, Asked
  <2>3. \A k \in 1 .. Len(inbox') : k \in 1 .. Len(inbox) \/ k = Len(inbox) + 1
    BY <1>4
  <2>4. \A j \in pending' : Outstanding(j)'
    BY <2>1, <2>2, <1>1
  <2>5. ASSUME NEW k \in 1 .. Len(inbox') PROVE inbox'[k] \notin pending' /\ Outstanding(inbox'[k])
    <3>1. CASE k \in 1 .. Len(inbox)
      BY <3>1, <2>1, <1>1, <1>4
    <3>2. CASE k = Len(inbox) + 1
      BY <3>2, <2>1, <1>1, <1>4
    <3> QED BY <3>1, <3>2, <2>3
  <2>6. ASSUME NEW k \in 1 .. Len(inbox'), NEW l \in 1 .. Len(inbox'), inbox'[k] = inbox'[l] PROVE k = l
    <3>1. CASE k \in 1 .. Len(inbox) /\ l \in 1 .. Len(inbox)
      BY <3>1, <2>6, <2>1, <1>4
    <3>2. CASE k = Len(inbox) + 1 /\ l \in 1 .. Len(inbox)
      BY <3>2, <2>6, <2>1, <1>1, <1>4
    <3>3. CASE l = Len(inbox) + 1 /\ k \in 1 .. Len(inbox)
      BY <3>3, <2>6, <2>1, <1>1, <1>4
    <3> QED BY <3>1, <3>2, <3>3, <2>3
  <2>7. \A k \in 1 .. Len(inbox') : Outstanding(inbox[k])' /\ inbox'[k] \notin pending'
    BY <2>5, <1>2 DEF Outstanding, Asked
  <2> QED BY <2>4, <2>6, <2>7 DEF ReplyInv
<1>8. \A j \in 1 .. Len(results') : Sound(j)'
  BY <1>2 DEF EventsInv, Sound, Asked, Listening
<1> QED BY <1>5, <1>6, <1>7, <1>8 DEF EventsInv

(* Steps that have zeekctl go on, and leave the replies alone. *)
LEMMA GoToFacts ==
  ASSUME TypeInv, NEW place \in Places, GoTo(place)
  PROVE  /\ query' \in QueryRecords /\ query'.at = place /\ Asked' = Asked
         /\ query'.backend = query.backend /\ query'.alone = query.alone
  BY DEF TypeInv, GoTo, QueryRecords, Asked

LEMMA PeerWithKeeps ==
  ASSUME EventsInv, PeerWith, UNCHANGED <<ports, listen>>
  PROVE  EventsInv'
<1>1. /\ query.at = "connect" /\ query.backend = "broker" /\ Len(peers) < Len(Asked)
      /\ inbox' = inbox /\ results' = results /\ ports' = ports /\ listen' = listen
  BY DEF PeerWith, At
<1>2. /\ TypeInv /\ Len(peers) \in Nat /\ Len(Asked) \in Nat /\ results = <<>> /\ Len(results) = 0
      /\ peers \in Seq(Nodes) /\ pending \in SUBSET Nat
  BY <1>1, LenFacts DEF EventsInv, TypeInv, Progress
<1>3. CASE GoTo("raised") /\ UNCHANGED <<peers, pending>>
  <2>1. /\ query' \in QueryRecords /\ query'.at = "raised" /\ Asked' = Asked
        /\ query'.backend = query.backend /\ query'.alone = query.alone
    BY <1>2, <1>3, GoToFacts DEF Places
  <2>2. TypeInv'
    BY <1>1, <1>2, <1>3, <2>1 DEF TypeInv
  <2>3. Progress' /\ OnePerPort'
    BY <1>1, <2>1 DEF EventsInv, Progress, OnePerPort
  <2>4. PeerInv'
    BY <1>1, <1>3, <2>1 DEF EventsInv, PeerInv, Listening
  <2>5. ReplyInv' /\ \A j \in 1 .. Len(results') : Sound(j)'
    BY <1>1, <1>2, <2>1 DEF ReplyInv
  <2> QED BY <2>2, <2>3, <2>4, <2>5 DEF EventsInv
<1>4. CASE \E k \in Listening(Asked[Len(peers) + 1]) :
             peers' = Append(peers, k) /\ pending' = pending \cup {Len(peers) + 1} /\ UNCHANGED query
  <2>1. PICK k \in Listening(Asked[Len(peers) + 1]) :
          peers' = Append(peers, k) /\ pending' = pending \cup {Len(peers) + 1} /\ UNCHANGED query
    BY <1>4
  <2>2. k \in Nodes
    BY DEF Listening
  <2>3. /\ peers' \in Seq(Nodes) /\ Len(peers') = Len(peers) + 1
        /\ \A i \in 1 .. Len(peers) : peers'[i] = peers[i]
        /\ peers'[Len(peers) + 1] = k
    BY <1>2, <2>1, <2>2, AppendFacts
  <2>9. pending' \in SUBSET Nat /\ query' = query
    <3>1. Len(peers) + 1 \in Nat
      BY <1>2
    <3> QED BY <1>2, <2>1, <3>1
  <2>4. TypeInv'
    <3>1. query \in QueryRecords /\ inbox \in Seq(Nat) /\ results \in Seq(ResultRecords)
      BY <1>2 DEF TypeInv
    <3>2. inbox' \in Seq(Nat) /\ results' \in Seq(ResultRecords)
      BY <1>1, <3>1
    <3> QED BY <3>1, <3>2, <2>3, <2>9 DEF TypeInv
  <2>5. Progress' /\ OnePerPort'
    BY <1>1, <2>1 DEF EventsInv, Progress, OnePerPort, Asked
  <2>6. \A i \in 1 .. Len(peers') : peers'[i] \in Listening(Asked[i])
    <3> SUFFICES ASSUME NEW i \in 1 .. Len(peers') PROVE peers'[i] \in Listening(Asked[i])
      OBVIOUS
    <3>1. CASE i \in 1 .. Len(peers)
      BY <3>1, <2>3 DEF EventsInv, PeerInv
    <3>2. CASE i = Len(peers) + 1
      BY <3>2, <2>3
    <3> QED BY <3>1, <3>2, <2>3, <1>2
  <2>7. PeerInv'
    BY <1>1, <1>2, <2>1, <2>3, <2>6 DEF PeerInv, Listening, Asked
  <2>8. ReplyInv'
    BY <1>1, <2>1 DEF ReplyInv
  <2>10. \A j \in 1 .. Len(results') : Sound(j)'
    BY <1>1, <1>2
  <2> QED BY <2>4, <2>5, <2>7, <2>8, <2>10 DEF EventsInv
<1> QED BY <1>3, <1>4 DEF PeerWith

LEMMA AllPeeredKeeps ==
  ASSUME EventsInv, AllPeered, UNCHANGED <<ports, listen>>
  PROVE  EventsInv'
<1>1. /\ query.at = "connect" /\ query.backend = "broker" /\ Len(peers) = Len(Asked)
      /\ inbox' = inbox /\ results' = results /\ peers' = peers /\ pending' = pending
      /\ ports' = ports /\ listen' = listen
  BY DEF AllPeered, At
<1>2. TypeInv /\ results = <<>> /\ Len(Asked) \in Nat /\ Len(results) = 0 /\ Asked \in Seq(Nodes)
  BY <1>1, LenFacts DEF EventsInv, TypeInv, Progress, QueryRecords, Asked
<1>3. (Asked = <<>>) <=> Len(Asked) = 0
  BY <1>2
<1>4. /\ query' \in QueryRecords /\ Asked' = Asked
      /\ query'.at = IF Asked = <<>> THEN "done" ELSE "wait"
      /\ query'.backend = query.backend /\ query'.alone = query.alone
  BY <1>2, GoToFacts DEF Places, AllPeered
<1>5. TypeInv'
  BY <1>1, <1>2, <1>4 DEF TypeInv
<1>6. Progress' /\ OnePerPort'
  BY <1>1, <1>2, <1>3, <1>4 DEF EventsInv, Progress, OnePerPort
<1>7. PeerInv'
  BY <1>1, <1>4 DEF EventsInv, PeerInv, Listening
<1>8. ReplyInv' /\ \A j \in 1 .. Len(results') : Sound(j)'
  BY <1>1, <1>2, <1>4 DEF ReplyInv
<1> QED BY <1>5, <1>6, <1>7, <1>8 DEF EventsInv

(* All nodes fail: no result has a sender. *)
LEMMA UnavailableKeeps ==
  ASSUME EventsInv, Unavailable, UNCHANGED <<ports, listen>>
  PROVE  EventsInv'
<1>1. /\ query.at = "connect" /\ peers = <<>> /\ GoTo("done")
      /\ results' = [i \in DOMAIN Asked |-> Result(Asked[i], FALSE, None)]
      /\ inbox' = inbox /\ peers' = peers /\ pending' = pending /\ ports' = ports /\ listen' = listen
  BY DEF Unavailable
<1>2. /\ TypeInv /\ results = <<>> /\ Len(results) = 0 /\ Len(Asked) \in Nat /\ DOMAIN Asked = 1 .. Len(Asked)
      /\ \A i \in 1 .. Len(Asked) : Asked[i] \in Nodes
  BY <1>1, LenFacts DEF EventsInv, Progress
<1>3. /\ query' \in QueryRecords /\ query'.at = "done" /\ Asked' = Asked
      /\ query'.backend = query.backend /\ query'.alone = query.alone
  BY <1>1, <1>2, GoToFacts DEF Places
<1>4. \A i \in 1 .. Len(Asked) : Result(Asked[i], FALSE, None) \in ResultRecords
  BY <1>2 DEF Result, ResultRecords
<1>5. results' \in [1 .. Len(Asked) -> ResultRecords]
  BY <1>1, <1>2, <1>4
<1>6. results' \in Seq(ResultRecords) /\ Len(results') = Len(Asked)
  BY <1>5, <1>2
<1>7. \A i \in 1 .. Len(results') :
        results'[i].node = Asked[i] /\ results'[i].success = FALSE /\ results'[i].from = None
  BY <1>1, <1>2, <1>6 DEF Result
<1>8. TypeInv'
  BY <1>1, <1>2, <1>3, <1>6 DEF TypeInv
<1>9. Progress' /\ OnePerPort'
  <2>1. /\ \A i, j \in 1 .. Len(Asked) : Asked[i] = Asked[j] => i = j
        /\ query.alone => Len(Asked) <= 1
        /\ OnePerPort
    BY DEF EventsInv, Progress
  <2>2. /\ Len(results') <= Len(Asked')
        /\ \A i \in 1 .. Len(results') : results'[i].node = Asked'[i]
        /\ query'.at \notin {"none", "connect", "wait", "send", "recv"}
        /\ Len(results') = Len(Asked')
    BY <1>2, <1>3, <1>6, <1>7
  <2>3. Progress'
    BY <2>1, <2>2, <1>3 DEF Progress
  <2> QED BY <2>1, <2>3, <1>1 DEF OnePerPort
<1>10. PeerInv'
  BY <1>1, <1>3 DEF EventsInv, PeerInv, Listening
<1>11. ReplyInv'
  <2>1. ASSUME query.backend = "websocket" PROVE pending = {} /\ Len(inbox) = 0
    <3>1. \A i : ~Outstanding(i) \/ i \notin Nat
      BY <1>1, <1>2 DEF Outstanding
    <3>2. pending \in SUBSET Nat /\ Len(inbox) \in Nat /\ \A k \in 1 .. Len(inbox) : inbox[k] \in Nat
      BY <1>2, LenFacts DEF TypeInv
    <3>3. \A i \in pending : Outstanding(i)
      BY <2>1 DEF EventsInv, ReplyInv
    <3>4. \A k \in 1 .. Len(inbox) : Outstanding(inbox[k])
      BY <2>1 DEF EventsInv, ReplyInv
    <3> QED BY <3>1, <3>2, <3>3, <3>4
  <2> QED BY <2>1, <1>1, <1>3 DEF ReplyInv
<1>12. \A j \in 1 .. Len(results') : Sound(j)'
  BY <1>7, EventsAssumption DEF Sound
<1> QED BY <1>8, <1>9, <1>10, <1>11, <1>12 DEF EventsInv

LEMMA WaitKeeps ==
  ASSUME EventsInv, Wait, UNCHANGED <<ports, listen>>
  PROVE  EventsInv'
<1>1. /\ query.at = "wait" /\ query.backend = "broker" /\ TypeInv
      /\ inbox' = inbox /\ peers' = peers /\ pending' = pending /\ ports' = ports /\ listen' = listen
  BY DEF Wait, At, EventsInv
<1>2. /\ Len(results) \in Nat /\ Len(Asked) \in Nat /\ Len(peers) = Len(Asked)
      /\ Len(results) < Len(Asked)
      /\ \A i \in 1 .. Len(peers) : peers[i] \in Nodes /\ peers[i] \in Listening(Asked[i])
  BY <1>1, LenFacts DEF EventsInv, Progress, PeerInv
<1>3. PICK success \in BOOLEAN, from \in Nodes \cup {None} :
        /\ Answer(Result(Current, success, from), "wait")
        /\ success => from \in Listening(Current)
  <2>1. peers[Len(results) + 1] \in Nodes /\ peers[Len(results) + 1] \in Listening(Current)
    BY <1>2 DEF Current
  <2>2. CASE Answer(Result(Current, TRUE, peers[Len(results) + 1]), "wait")
    BY <2>1, <2>2
  <2>3. CASE Answer(Result(Current, FALSE, None), "wait")
    BY <2>3
  <2> QED BY <2>2, <2>3 DEF Wait
<1>4. /\ results' \in Seq(ResultRecords) /\ query' \in QueryRecords /\ Asked' = Asked
      /\ query'.backend = query.backend
      /\ query'.at \in {"done", "wait"}
  BY <1>1, <1>3, AnswerFacts
<1>5. TypeInv'
  BY <1>1, <1>4 DEF TypeInv
<1>6. Progress'
  BY <1>1, <1>3, AnswerProgress
<1>7. PeerInv' /\ OnePerPort' /\ ReplyInv'
  BY <1>1, <1>2, <1>4 DEF EventsInv, PeerInv, OnePerPort, ReplyInv, Listening
<1>8. \A j \in 1 .. Len(results') : Sound(j)'
  BY <1>1, <1>3, AnswerSound
<1> QED BY <1>5, <1>6, <1>7, <1>8 DEF EventsInv

LEMMA ConnectKeeps ==
  ASSUME EventsInv, Connect, UNCHANGED <<ports, listen>>
  PROVE  EventsInv'
<1>1. /\ query.at = "connect" /\ query.backend = "websocket" /\ TypeInv
      /\ GoTo(IF Asked = <<>> THEN "done" ELSE "send")
      /\ inbox' = inbox /\ peers' = peers /\ pending' = pending /\ results' = results
      /\ ports' = ports /\ listen' = listen
  BY DEF Connect, At, EventsInv
<1>2. results = <<>> /\ Len(Asked) \in Nat /\ Len(results) = 0 /\ Asked \in Seq(Nodes)
  BY <1>1, LenFacts DEF EventsInv, TypeInv, Progress, QueryRecords, Asked
<1>3. (Asked = <<>>) <=> Len(Asked) = 0
  BY <1>2
<1>4. /\ query' \in QueryRecords /\ Asked' = Asked
      /\ query'.at = IF Asked = <<>> THEN "done" ELSE "send"
      /\ query'.backend = query.backend /\ query'.alone = query.alone
  BY <1>1, GoToFacts DEF Places
<1>5. TypeInv'
  BY <1>1, <1>4 DEF TypeInv
<1>6. Progress' /\ OnePerPort'
  BY <1>1, <1>2, <1>3, <1>4 DEF EventsInv, Progress, OnePerPort
<1>7. PeerInv'
  BY <1>1, <1>4 DEF EventsInv, PeerInv, Listening
<1>8. ReplyInv'
  BY <1>1, <1>4 DEF EventsInv, ReplyInv, Outstanding
<1>9. \A j \in 1 .. Len(results') : Sound(j)'
  BY <1>1, <1>2
<1> QED BY <1>5, <1>6, <1>7, <1>8, <1>9 DEF EventsInv

(* A reply that is on its way still is after another answer. *)
LEMMA AnswerOutstanding ==
  ASSUME EventsInv, NEW success \in BOOLEAN, NEW from \in Nodes \cup {None},
         NEW place \in {"wait", "send"}, query.at \in {"wait", "send", "recv"},
         Answer(Result(Current, success, from), place),
         NEW i \in Nat, Outstanding(i), success => i # Len(results) + 1
  PROVE  Outstanding(i)'
<1>1. TypeInv /\ Len(results) \in Nat
  BY LenFacts DEF EventsInv
<1>2. /\ Len(results') = Len(results) + 1 /\ Asked' = Asked
      /\ \A k \in 1 .. Len(results) : results'[k] = results[k]
      /\ results'[Len(results) + 1] = Result(Asked[Len(results) + 1], success, from)
  BY AnswerFacts
<1>3. results'[Len(results) + 1].success = success
  BY <1>2 DEF Result
<1>4. i \in 1 .. Len(Asked) /\ i <= Len(results) + 1
  BY <1>1 DEF Outstanding
<1>5. CASE i <= Len(results)
  <2>1. i \in 1 .. Len(results) /\ ~results[i].success
    BY <1>4, <1>5, <1>1 DEF Outstanding
  <2>2. ~results'[i].success
    BY <2>1, <1>2
  <2> QED BY <2>1, <2>2, <1>1, <1>2, <1>4 DEF Outstanding
<1>6. CASE i = Len(results) + 1
  BY <1>6, <1>1, <1>2, <1>3, <1>4 DEF Outstanding
<1> QED BY <1>1, <1>4, <1>5, <1>6

(* No answer for a node, as the connection is closed or no reply came. *)
LEMMA NoAnswerKeeps ==
  ASSUME EventsInv, query.backend = "websocket", query.at \in {"send", "recv"},
         Answer(Result(Current, FALSE, None), "send"),
         UNCHANGED <<peers, pending, inbox, ports, listen>>
  PROVE  EventsInv'
<1>1. TypeInv /\ ReplyInv /\ PeerInv /\ OnePerPort
  BY DEF EventsInv
<1>2. /\ results' \in Seq(ResultRecords) /\ query' \in QueryRecords /\ Asked' = Asked
      /\ query'.backend = query.backend /\ query'.at \in {"done", "send"}
  BY AnswerFacts
<1>3. TypeInv'
  BY <1>1, <1>2 DEF TypeInv
<1>4. Progress'
  BY AnswerProgress
<1>5. PeerInv' /\ OnePerPort'
  BY <1>1, <1>2 DEF PeerInv, OnePerPort, Listening
<1>6. ReplyInv'
  <2>1. ASSUME NEW i \in Nat, Outstanding(i) PROVE Outstanding(i)'
    BY <2>1, AnswerOutstanding
  <2>2. pending \in SUBSET Nat /\ \A k \in 1 .. Len(inbox) : inbox[k] \in Nat
    BY <1>1, LenFacts DEF TypeInv
  <2>3. \A i \in pending : Outstanding(i)'
    BY <2>1, <2>2, <1>1 DEF ReplyInv
  <2>4. ASSUME NEW k \in 1 .. Len(inbox) PROVE Outstanding(inbox[k])'
    <3>1. Outstanding(inbox[k]) /\ inbox[k] \in Nat
      BY <2>2, <1>1 DEF ReplyInv
    <3>2. \A i \in Nat : i = inbox[k] => Outstanding(i)'
      BY <3>1, <2>1
    <3> QED BY <3>1, <3>2 DEF Outstanding, Asked
  <2> QED BY <2>3, <2>4, <1>1 DEF ReplyInv
<1>7. \A j \in 1 .. Len(results') : Sound(j)'
  BY AnswerSound, EventsAssumption
<1> QED BY <1>3, <1>4, <1>5, <1>6, <1>7 DEF EventsInv

LEMMA SendKeeps ==
  ASSUME EventsInv, Send, UNCHANGED <<ports, listen>>
  PROVE  EventsInv'
<1>1. /\ query.at = "send" /\ query.backend = "websocket"
      /\ inbox' = inbox /\ peers' = peers /\ ports' = ports /\ listen' = listen
      /\ TypeInv /\ Progress /\ PeerInv /\ ReplyInv /\ OnePerPort
  BY DEF Send, At, EventsInv
<1>2. Len(results) \in Nat /\ Len(Asked) \in Nat /\ pending \in SUBSET Nat
  BY <1>1, LenFacts DEF TypeInv
<1>3. CASE Answer(Result(Current, FALSE, None), "send") /\ UNCHANGED pending
  BY <1>1, <1>3, NoAnswerKeeps
<1>4. ASSUME GoTo("recv"), UNCHANGED results, pending' \in {pending, pending \cup {Len(results) + 1}}
      PROVE  EventsInv'
  <2>1. /\ query' \in QueryRecords /\ query'.at = "recv" /\ Asked' = Asked
        /\ query'.backend = query.backend /\ query'.alone = query.alone
    BY <1>1, <1>4, GoToFacts DEF Places
  <2>2. results' = results /\ pending' \in SUBSET Nat
    BY <1>2, <1>4
  <2>3. TypeInv'
    BY <1>1, <2>1, <2>2 DEF TypeInv
  <2>4. Progress'
    BY <1>1, <2>1, <2>2 DEF Progress
  <2>5. PeerInv' /\ OnePerPort'
    BY <1>1, <2>1 DEF PeerInv, OnePerPort, Listening
  <2>6. ReplyInv'
    <3>1. ASSUME NEW i, Outstanding(i) PROVE i <= Len(results) /\ Outstanding(i)'
      BY <3>1, <1>1, <2>1, <2>2 DEF Outstanding
    <3>2. Len(results) + 1 \in 1 .. Len(Asked) /\ ~(Len(results) + 1 <= Len(results))
      BY <1>1, <1>2 DEF Progress
    <3>3. \A i \in pending' : i \in pending \/ i = Len(results) + 1
      BY <1>4
    <3>4. ASSUME NEW i \in pending' PROVE Outstanding(i)'
      <4>1. CASE i \in pending
        BY <4>1, <3>1, <1>1 DEF ReplyInv
      <4>2. CASE i = Len(results) + 1
        BY <4>2, <3>2, <2>1, <2>2 DEF Outstanding
      <4> QED BY <4>1, <4>2, <3>3
    <3>5. ASSUME NEW k \in 1 .. Len(inbox) PROVE inbox[k] \notin pending' /\ inbox[k] <= Len(results)
      BY <3>1, <3>2, <3>3, <1>1 DEF ReplyInv
    <3>6. ASSUME NEW k \in 1 .. Len(inbox) PROVE Outstanding(inbox[k])'
      <4>1. Outstanding(inbox[k])
        BY <1>1 DEF ReplyInv
      <4> QED BY <4>1, <3>5, <1>1, <2>1, <2>2 DEF Outstanding
    <3>7. \A k, l \in 1 .. Len(inbox) : inbox[k] = inbox[l] => k = l
      BY <1>1 DEF ReplyInv
    <3> QED BY <3>4, <3>5, <3>6, <3>7, <1>1 DEF ReplyInv
  <2>7. \A j \in 1 .. Len(results') : Sound(j)'
    BY <1>1, <2>1, <2>2 DEF EventsInv, Sound, Listening
  <2> QED BY <2>3, <2>4, <2>5, <2>6, <2>7 DEF EventsInv
<1> QED BY <1>3, <1>4 DEF Send

(* The reply that is read is expected, or late. *)
LEMMA ReceiveKeeps ==
  ASSUME EventsInv, Receive, UNCHANGED <<ports, listen>>
  PROVE  EventsInv'
<1> DEFINE k == inbox[1]
           from == Asked[k]
           success == from = Current \/ query.alone
<1>1. /\ query.at = "recv" /\ query.backend = "websocket" /\ inbox # <<>> /\ inbox' = Tail(inbox)
      /\ peers' = peers /\ pending' = pending /\ ports' = ports /\ listen' = listen
      /\ TypeInv /\ Progress /\ PeerInv /\ ReplyInv /\ OnePerPort
  BY DEF Receive, At, EventsInv
<1>2. /\ Len(results) \in Nat /\ Len(Asked) \in Nat /\ pending \in SUBSET Nat /\ inbox \in Seq(Nat)
      /\ Len(results) < Len(Asked)
      /\ \A i \in 1 .. Len(Asked) : Asked[i] \in Nodes
      /\ \A i \in 1 .. Len(inbox) : inbox[i] \in Nat
  BY <1>1, LenFacts DEF TypeInv, Progress
<1>3. /\ Tail(inbox) \in Seq(Nat) /\ Len(Tail(inbox)) = Len(inbox) - 1 /\ Len(inbox) \in Nat \ {0}
      /\ \A i \in 1 .. Len(Tail(inbox)) : Tail(inbox)[i] = inbox[i + 1]
      /\ Head(inbox) = k
  BY <1>1, <1>2, TailFacts
<1>4. 1 \in 1 .. Len(inbox) /\ \A i \in 1 .. Len(Tail(inbox)) : i + 1 \in 1 .. Len(inbox) /\ i + 1 # 1
  BY <1>3
<1>5. Outstanding(k) /\ k \notin pending /\ k \in Nat
  BY <1>1, <1>2, <1>4 DEF ReplyInv
<1>6. k \in 1 .. Len(Asked) /\ k <= Len(results) + 1 /\ from \in Nodes
  BY <1>2, <1>5 DEF Outstanding
<1>7. Answer(Result(Current, success, from), "send")
  BY <1>3 DEF Receive
<1>8. success => k = Len(results) + 1 /\ from = Current
  <2>1. Len(results) + 1 \in 1 .. Len(Asked)
    BY <1>2
  <2>2. CASE from = Current
    BY <2>1, <2>2, <1>1, <1>6 DEF Progress, Current
  <2>3. CASE query.alone
    BY <2>1, <2>3, <1>1, <1>2, <1>6 DEF Progress, Current
  <2> QED BY <2>2, <2>3
<1>9. from # Current => k \in 1 .. Len(results) /\ ~results[k].success
  BY <1>2, <1>5, <1>6 DEF Outstanding, Current
<1>10. success \in BOOLEAN
  <2>1. query.alone \in BOOLEAN
    BY <1>1 DEF TypeInv, QueryRecords
  <2> QED BY <2>1
<1> HIDE DEF success, from
<1>11. /\ results' \in Seq(ResultRecords) /\ query' \in QueryRecords /\ Asked' = Asked
       /\ query'.backend = query.backend /\ query'.at \in {"done", "send"}
  BY <1>1, <1>6, <1>7, <1>10, AnswerFacts
<1>12. TypeInv'
  BY <1>1, <1>3, <1>11 DEF TypeInv
<1>13. Progress'
  BY <1>1, <1>6, <1>7, <1>10, AnswerProgress
<1>14. PeerInv' /\ OnePerPort'
  BY <1>1, <1>11 DEF PeerInv, OnePerPort, Listening
<1>15. ReplyInv'
  <2>1. ASSUME NEW i \in Nat, Outstanding(i), i # k PROVE Outstanding(i)'
    BY <2>1, <1>1, <1>6, <1>7, <1>8, <1>10, AnswerOutstanding
  <2>2. \A i \in pending : Outstanding(i)'
    BY <2>1, <1>1, <1>2, <1>5 DEF ReplyInv
  <2>3. ASSUME NEW j \in 1 .. Len(Tail(inbox))
        PROVE  /\ inbox'[j] = inbox[j + 1] /\ inbox[j + 1] \in Nat
               /\ inbox[j + 1] \notin pending /\ Outstanding(inbox[j + 1]) /\ inbox[j + 1] # k
    BY <1>1, <1>2, <1>3, <1>4 DEF ReplyInv
  <2>4. ASSUME NEW j \in 1 .. Len(inbox') PROVE Outstanding(inbox[j])' /\ inbox'[j] \notin pending'
    <3>1. /\ inbox'[j] = inbox[j + 1] /\ inbox[j + 1] \in Nat
          /\ inbox[j + 1] \notin pending /\ Outstanding(inbox[j + 1]) /\ inbox[j + 1] # k
      BY <1>1, <2>3
    <3>2. \A i \in Nat : i = inbox[j + 1] => Outstanding(i)'
      BY <3>1, <2>1
    <3> QED BY <3>1, <3>2, <1>1 DEF Outstanding, Asked
  <2>5. ASSUME NEW i \in 1 .. Len(inbox'), NEW j \in 1 .. Len(inbox'), inbox'[i] = inbox'[j] PROVE i = j
    <3>1. i + 1 \in 1 .. Len(inbox) /\ j + 1 \in 1 .. Len(inbox) /\ inbox[i + 1] = inbox[j + 1]
      BY <1>1, <1>4, <2>3, <2>5
    <3> QED BY <3>1, <1>1 DEF ReplyInv
  <2> QED BY <2>2, <2>4, <2>5, <1>1 DEF ReplyInv
<1>16. \A j \in 1 .. Len(results') : Sound(j)'
  <2>1. from \in Nodes \ {Current} => \E j \in 1 .. Len(results) : Asked[j] = from /\ ~results[j].success
    BY <1>9 DEF from
  <2> QED BY <2>1, <1>1, <1>6, <1>7, <1>8, <1>10, AnswerSound
<1> QED BY <1>12, <1>13, <1>14, <1>15, <1>16 DEF EventsInv

(* Before the first node is asked there is nothing to be wrong. *)
Fresh ==
  /\ query \in QueryRecords /\ query.at \in {"none", "connect"}
  /\ peers = <<>> /\ pending = {} /\ inbox = <<>> /\ results = <<>>
  /\ \A i, j \in 1 .. Len(Asked) : Asked[i] = Asked[j] => i = j
  /\ query.alone => Len(Asked) <= 1
  /\ OnePerPort

LEMMA FreshInv == Fresh => EventsInv
<1> SUFFICES ASSUME Fresh PROVE EventsInv
  OBVIOUS
<1>1. Len(peers) = 0 /\ Len(inbox) = 0 /\ Len(results) = 0
  BY DEF Fresh
<1>2. Asked \in Seq(Nodes) /\ Len(Asked) \in Nat
  BY DEF QueryRecords, Asked, Fresh
<1>3. TypeInv
  BY DEF TypeInv, Fresh
<1>4. Progress
  BY <1>1, <1>2 DEF Progress, Fresh
<1>5. PeerInv
  BY <1>1, <1>2 DEF PeerInv, Fresh
<1>6. ReplyInv
  BY <1>1 DEF ReplyInv, Fresh
<1> QED BY <1>1, <1>3, <1>4, <1>5, <1>6 DEF EventsInv, Fresh

LEMMA NoQueryFacts ==
  /\ NoQuery \in QueryRecords /\ NoQuery.at = "none" /\ Len(NoQuery.asked) = 0 /\ ~NoQuery.alone
  BY DEF NoQuery, QueryRecords, Places, Backends

LEMMA BetweenFresh ==
  ASSUME Between
  PROVE  Fresh'
<1>1. /\ query' \in QueryRecords /\ query'.at \in {"none", "connect"}
      /\ \A i, j \in 1 .. Len(Asked') : Asked'[i] = Asked'[j] => i = j
      /\ query'.alone => Len(Asked') <= 1
      /\ peers' = <<>> /\ pending' = {} /\ inbox' = <<>> /\ results' = <<>>
  <2>1. CASE Idle
    BY <2>1, NoQueryFacts DEF Idle, Asked
  <2>2. CASE \E ns \in Seq(Nodes), backend \in Backends, alone, server \in BOOLEAN :
               /\ \A i, j \in DOMAIN ns : ns[i] = ns[j] => i = j
               /\ alone => Len(ns) <= 1
               /\ Begin(ns, backend, alone, server)
    <3>1. PICK ns \in Seq(Nodes), backend \in Backends, alone \in BOOLEAN, server \in BOOLEAN :
            /\ \A i, j \in DOMAIN ns : ns[i] = ns[j] => i = j
            /\ alone => Len(ns) <= 1
            /\ Begin(ns, backend, alone, server)
      BY <2>2
    <3>2. /\ query' = [at |-> "connect", backend |-> backend, asked |-> ns, alone |-> alone, server |-> server]
          /\ peers' = <<>> /\ pending' = {} /\ inbox' = <<>> /\ results' = <<>>
      BY <3>1 DEF Begin
    <3>3. query' \in QueryRecords /\ query'.at = "connect" /\ Asked' = ns /\ query'.alone = alone
      BY <3>2 DEF QueryRecords, Places, Asked
    <3>4. DOMAIN ns = 1 .. Len(ns)
      OBVIOUS
    <3> QED BY <3>1, <3>2, <3>3, <3>4
  <2> QED BY <2>1, <2>2 DEF Between
<1>2. OnePerPort'
  BY DEF Between
<1> QED BY <1>1, <1>2 DEF Fresh, Asked

(* Whatever a query does, EventsInv is kept. *)
THEOREM EventsSafe == QuerySpec => []EventsInv
<1>1. QueryInit => EventsInv
  <2> SUFFICES ASSUME QueryInit PROVE EventsInv
    OBVIOUS
  <2>1. /\ query = NoQuery /\ peers = <<>> /\ pending = {} /\ inbox = <<>> /\ results = <<>>
        /\ OnePerPort
    BY DEF QueryInit
  <2>2. /\ query \in QueryRecords /\ query.at = "none"
        /\ \A i, j \in 1 .. Len(Asked) : Asked[i] = Asked[j] => i = j
        /\ query.alone => Len(Asked) <= 1
    BY <2>1, NoQueryFacts DEF Asked
  <2> QED BY <2>1, <2>2, FreshInv DEF Fresh
<1>2. EventsInv /\ [QueryNext \/ Between]_<<eVars, ports, listen>> => EventsInv'
  <2> SUFFICES ASSUME EventsInv, [QueryNext \/ Between]_<<eVars, ports, listen>> PROVE EventsInv'
    OBVIOUS
  <2>1. CASE Between
    <3>1. Fresh'
      BY <2>1, BetweenFresh
    <3> QED BY <3>1, FreshInv, PTL
  <2>2. CASE QueryNext
    <3>1. UNCHANGED <<ports, listen>>
      BY <2>2 DEF QueryNext
    <3>2. CASE Reply
      BY <3>1, <3>2, ReplyKeeps
    <3>3. CASE Unavailable
      BY <3>1, <3>3, UnavailableKeeps
    <3>4. CASE PeerWith
      BY <3>1, <3>4, PeerWithKeeps
    <3>5. CASE AllPeered
      BY <3>1, <3>5, AllPeeredKeeps
    <3>6. CASE Wait
      BY <3>1, <3>6, WaitKeeps
    <3>7. CASE Connect
      BY <3>1, <3>7, ConnectKeeps
    <3>8. CASE Send
      BY <3>1, <3>8, SendKeeps
    <3>9. CASE Receive
      BY <3>1, <3>9, ReceiveKeeps
    <3>10. CASE TimeOut
      <4>1. query.backend = "websocket" /\ query.at = "recv"
        BY <3>10 DEF TimeOut, At
      <4> QED BY <3>1, <3>10, <4>1, NoAnswerKeeps DEF TimeOut
    <3> QED BY <2>2, <3>2, <3>3, <3>4, <3>5, <3>6, <3>7, <3>8, <3>9, <3>10 DEF QueryNext, Client
  <2>3. CASE UNCHANGED <<eVars, ports, listen>>
    <3>1. /\ UNCHANGED <<query, peers, pending, inbox, results, ports, listen>>
          /\ UNCHANGED Asked /\ \A n : UNCHANGED Listening(n)
      BY <2>3 DEF eVars, Asked, Listening
    <3>2. TypeInv' /\ Progress' /\ OnePerPort'
      BY <3>1 DEF EventsInv, TypeInv, Progress, OnePerPort
    <3>3. PeerInv'
      BY <3>1 DEF EventsInv, PeerInv
    <3>4. ReplyInv'
      BY <3>1 DEF EventsInv, ReplyInv, Outstanding
    <3>5. \A i \in 1 .. Len(results') : Sound(i)'
      BY <3>1 DEF EventsInv, Sound
    <3> QED BY <3>2, <3>3, <3>4, <3>5 DEF EventsInv
  <2> QED BY <2>1, <2>2, <2>3
<1> QED BY <1>1, <1>2, PTL DEF QuerySpec

(* A reply that is taken as a node's is that node's, for every number of nodes
   and whatever replies are late: with WebSocket always, with Broker if the node
   listens on its port on record. *)
THEOREM ReplyIsOwnHolds == QuerySpec => []ReplyIsOwn
<1>1. EventsInv => ReplyIsOwn
  <2> SUFFICES ASSUME EventsInv, NEW i \in DOMAIN results, results[i].success,
                      results[i].from # results[i].node
               PROVE  query.backend = "broker" /\ ports[results[i].node] # listen[results[i].node]
    BY DEF ReplyIsOwn
  <2>1. i \in 1 .. Len(results) /\ results[i].node \in Nodes
    BY LenFacts DEF EventsInv, ResultRecords
  <2>2. Sound(i) /\ OnePerPort
    BY <2>1 DEF EventsInv
  <2>3. query.backend = "broker" /\ results[i].from \in Listening(results[i].node)
    BY <2>2 DEF Sound
  <2> QED BY <2>1, <2>2, <2>3 DEF Listening, OnePerPort
<1> QED BY <1>1, EventsSafe, PTL

(* A query that ends with no error has one result for each node, in order. *)
THEOREM AnswersEachOnceHolds == QuerySpec => []AnswersEachOnce
<1>1. EventsInv => AnswersEachOnce
  BY LenFacts DEF EventsInv, Progress, AnswersEachOnce
<1> QED BY <1>1, EventsSafe, PTL

(* The wrong sender is a node that was asked before and had no success. *)
THEOREM BlameIsEarlierHolds == QuerySpec => []BlameIsEarlier
<1>1. EventsInv => BlameIsEarlier
  BY LenFacts DEF EventsInv, Sound, BlameIsEarlier
<1> QED BY <1>1, EventsSafe, PTL
=============================================================================
