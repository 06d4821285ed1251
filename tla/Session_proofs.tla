---------------------------- MODULE Session_proofs ----------------------------
(***************************************************************************)
(* Proofs about Session, and about NodeStore and Plugins within it, for any *)
(* node.cfg files, plugins, commands and bounds.                           *)
(***************************************************************************)
EXTENDS Session, FiniteSetTheorems, SequenceTheorems, WellFoundedInduction, TLAPS

-----------------------------------------------------------------------------
(* Numbers, and the filters of plugins.                                    *)

LEMMA LeastNumber ==
  ASSUME NEW T \in SUBSET Nat, T # {}
  PROVE  \E n \in T : \A m \in T : n <= m
<1>1. PICK n \in T : \A m \in T : ~(<<m, n>> \in OpToRel(<, Nat))
  BY NatLessThanWellFounded, WFMin
<1>2. \A m \in T : ~(m < n)
  BY <1>1 DEF OpToRel
<1> QED BY <1>2

(* What is left is what no active plugin takes off the list. *)
LEMMA FilterIs ==
  ASSUME NEW cmd, NEW names, active \subseteq ToSet(Loaded)
  PROVE  Filter(cmd, names) = {n \in names : \A p \in active : n \notin DroppedBy(p, cmd)}
<1> DEFINE Steps == 0 .. Len(Loaded)
           Rest(f, i) == IF i = 0 THEN names
                         ELSE IF Loaded[i] \in active THEN f[i - 1] \ DroppedBy(Loaded[i], cmd)
                              ELSE f[i - 1]
           left == CHOOSE f : f = [i \in Steps |-> Rest(f, i)]
           goal == [i \in Steps |-> {n \in names : \A j \in 1 .. i :
                      Loaded[j] \in active => n \notin DroppedBy(Loaded[j], cmd)}]
<1>0. Loaded \in Seq(ToSet(Loaded)) /\ Len(Loaded) \in Nat
  BY PluginsAssumption
<1>1. goal = [i \in Steps |-> Rest(goal, i)]
  <2>1. ASSUME NEW i \in Steps PROVE goal[i] = Rest(goal, i)
    <3>1. CASE i = 0
      BY <3>1
    <3>2. CASE i # 0
      <4>1. i - 1 \in Steps /\ i \in 1 .. i
        BY <1>0, <3>2
      <4>2. \A j \in 1 .. i : j \in 1 .. i - 1 \/ j = i
        BY <1>0, <3>2
      <4>3. \A j \in 1 .. i - 1 : j \in 1 .. i
        BY <1>0, <3>2
      <4> QED BY <3>2, <4>1, <4>2, <4>3
    <3> QED BY <3>1, <3>2
  <2> QED BY <2>1
<1>2. left = [i \in Steps |-> Rest(left, i)]
  BY <1>1
<1>3. Filter(cmd, names) = left[Len(Loaded)]
  BY DEF Filter
<1> HIDE DEF left, goal
<1>4. ASSUME NEW i \in Steps PROVE left[i] = goal[i]
  <2> DEFINE T == {k \in Steps : left[k] # goal[k]}
  <2>1. SUFFICES ASSUME T # {} PROVE FALSE
    BY DEF T
  <2>2. PICK n \in T : \A k \in T : n <= k
    <3>1. T \in SUBSET Nat
      BY <1>0
    <3> HIDE DEF T
    <3> QED BY <2>1, <3>1, LeastNumber
  <2>3. left[n] = Rest(left, n) /\ goal[n] = Rest(goal, n)
    BY <1>1, <1>2, <2>2
  <2>4. n # 0
    BY <2>2, <2>3
  <2>5. n - 1 \in Steps /\ n - 1 \notin T
    BY <1>0, <2>2, <2>4
  <2> QED BY <2>2, <2>3, <2>4, <2>5
<1>5. goal[Len(Loaded)] = {n \in names : \A j \in 1 .. Len(Loaded) :
                             Loaded[j] \in active => n \notin DroppedBy(Loaded[j], cmd)}
  BY <1>0 DEF goal
<1>6. \A p \in active : \E j \in 1 .. Len(Loaded) : Loaded[j] = p
  BY DEF ToSet
<1> QED BY <1>0, <1>3, <1>4, <1>5, <1>6

-----------------------------------------------------------------------------
(* The invariant.                                                          *)

Types == ToSet(TypeOrder)

(* Nodes that can be told from each other. *)
Sound(ns) ==
  /\ ns \in Seq(ToSet(ns)) /\ ~Duplicate(ns)
  /\ \A i \in DOMAIN ns : ns[i].type \in Types /\ ns[i].name \in Nodes
  /\ \A t \in Types : {n.count : n \in OfType(ns, t)} = 1 .. CountOf(ns, t)
  /\ \A i, j \in DOMAIN ns : i # j /\ ns[i].type = ns[j].type => ns[i].count # ns[j].count

StoreInv ==
  /\ file \in NodeCfgs /\ cfg \in NodeCfgs /\ rest \in Seq(Sections)
  /\ Sound(building) /\ Sound(store)
  /\ active \subseteq ToSet(Loaded)

Composites == {"restart", "clean restart", "deploy"}

(* What may be left of a command that consists of others. *)
Rests(cmd) ==
  CASE cmd = "restart" -> {<<"stop", "start">>, <<"start">>, <<>>}
    [] cmd = "clean restart" ->
         {<<"stop", "cleanup", "check", "install", "start">>,
          <<"cleanup", "check", "install", "start">>, <<"check", "install", "start">>,
          <<"install", "start">>, <<"start">>, <<>>}
    [] cmd = "deploy" ->
         {<<"reload", "check", "install", "stop", "start">>,
          <<"check", "install", "stop", "start">>, <<"install", "stop", "start">>,
          <<"stop", "start">>, <<"start">>, <<>>}
    [] OTHER -> {<<"do">>, <<>>}

IsFrame(f) ==
  /\ f = [cmd |-> f.cmd, arg |-> f.arg, todo |-> f.todo, nodes |-> f.nodes]
  /\ f.cmd \in NodeCmds \cup PlainCmds /\ f.todo \in Rests(f.cmd)

(* f is the frame of the part that comes before what is left of g. *)
IsPart(f, g) ==
  /\ f.cmd \notin Composites /\ g.cmd \in Composites
  /\ \E r \in Rests(g.cmd) : r # <<>> /\ Head(r) = f.cmd /\ Tail(r) = g.todo
  /\ f.cmd # "check" => f.arg = g.arg

StackOf(st) ==
  \/ st = <<>>
  \/ \E f : st = <<f>> /\ IsFrame(f)
  \/ \E f, g : st = <<f, g>> /\ IsFrame(f) /\ IsFrame(g) /\ IsPart(f, g)

StackInv == StackOf(stack)

(* node.cfg is read by a process that starts, and by deploy. *)
PhaseInv ==
  /\ phase \in {"reading", "read", "valid", "error"}
  /\ raised => phase \in {"valid", "error"}
  /\ phase # "valid" /\ stack # <<>> =>
       /\ Len(stack) = 1 /\ Frame.cmd = "deploy"
       /\ Frame.todo = <<"check", "install", "stop", "start">>
       /\ phase = "error" => raised
  /\ query.at # "none" =>
       stack # <<>> /\ phase = "valid" /\ ~raised /\ Frame.todo = <<"do">> /\ Frame.cmd \in Queries

DueInv ==
  \/ due = {}
  \/ stack = <<>> /\ ~ok /\ due \subseteq Composites
  \/ \E f : stack = <<f>> /\ due \subseteq {f.cmd}
  \/ \E f, g : stack = <<f, g>> /\ due \subseteq {f.cmd, g.cmd}

Kept == Ids(store) \ DroppedFrom("stop")
Recorded == \A n \in Ids(store) : layout[n] = ports[n]
Stopped == \A n \in Kept : listen[n] = 0
Agreed == \A n \in Kept : listen[n] \in {0, ports[n]}

(* A command starts or stops no node that a plugin has dropped, and if it is
   called for all nodes then it stops those that none has. *)
FrameInv(f) ==
  /\ f.cmd \notin Composites => f.nodes \cap DroppedFrom(Hook(f.cmd)) = {}
  /\ f.cmd = "stop" /\ f.arg = "all" => Kept \subseteq f.nodes

(* deploy and restart --clean, when the parts before are over, or the last
   one of them is still to be "done". *)
DeployInv(g, done) ==
  /\ g.cmd = "deploy" =>
       /\ g.todo = <<"stop", "start">> /\ done => Recorded
       /\ g.todo = <<"start">> => Recorded /\ (done => Stopped)
  /\ g.cmd = "clean restart" =>
       /\ g.todo = <<"cleanup", "check", "install", "start">> /\ done => Stopped
       /\ g.todo \in {<<"check", "install", "start">>, <<"install", "start">>, <<"start">>} => Stopped
       /\ g.todo = <<"start">> /\ done => Recorded
  /\ g.cmd \in {"deploy", "clean restart"} /\ g.todo = <<>> => Recorded /\ Agreed

PartsInv ==
  /\ \A f : stack = <<f>> => FrameInv(f) /\ (f.arg = "all" => DeployInv(f, ok))
  /\ \A f, g : stack = <<f, g>> =>
       FrameInv(f) /\ (g.arg = "all" => DeployInv(g, ok /\ f.todo = <<>>))

SessInv == StoreInv /\ StackInv /\ PhaseInv /\ DueInv /\ PartsInv
-----------------------------------------------------------------------------
(* The nodes of node.cfg.                                                  *)

LEMMA RankFacts ==
  \A a, b \in Types : Rank[a] \in 1 .. 5 /\ (Rank[a] = Rank[b] => a = b)
<1>1. DOMAIN TypeOrder = 1 .. 5
  BY DEF TypeOrder
<1>2. \A a \in Types : \E i \in DOMAIN TypeOrder : TypeOrder[i] = a
  BY DEF Types, ToSet
<1>3. \A a \in Types : Rank[a] \in DOMAIN TypeOrder /\ TypeOrder[Rank[a]] = a
  BY <1>2 DEF Rank, Types
<1> QED BY <1>1, <1>3

LEMMA Numbers ==
  ASSUME NEW ns, Sound(ns)
  PROVE  /\ Len(ns) \in Nat /\ DOMAIN ns = 1 .. Len(ns) /\ IsFiniteSet(ToSet(ns))
         /\ \A n \in ToSet(ns) : \E i \in 1 .. Len(ns) : ns[i] = n
         /\ \A t : CountOf(ns, t) \in Nat
         /\ \A i \in 1 .. Len(ns) : ns[i].type \in Types /\ ns[i].count \in 1 .. CountOf(ns, ns[i].type)
<1>1. Len(ns) \in Nat /\ DOMAIN ns = 1 .. Len(ns) /\ ns \in [1 .. Len(ns) -> ToSet(ns)]
  BY DEF Sound
<1>2. IsFiniteSet(1 .. Len(ns))
  BY <1>1, FS_Interval
<1>3. ns \in Surjection(1 .. Len(ns), ToSet(ns))
  BY <1>1 DEF Surjection, ToSet
<1>4. IsFiniteSet(ToSet(ns))
  BY <1>2, <1>3, FS_Surjection
<1>5. ASSUME NEW t PROVE CountOf(ns, t) \in Nat
  <2>1. {i \in DOMAIN ns : ns[i].type = t} \in SUBSET (1 .. Len(ns))
    BY <1>1
  <2> QED BY <1>2, <2>1, FS_Subset, FS_CardinalityType DEF CountOf
<1>6. ASSUME NEW i \in 1 .. Len(ns)
      PROVE  ns[i].type \in Types /\ ns[i].count \in 1 .. CountOf(ns, ns[i].type)
  <2>1. ns[i].type \in Types /\ ns[i] \in OfType(ns, ns[i].type)
    BY <1>1 DEF Sound, OfType
  <2> QED BY <2>1 DEF Sound
<1> QED BY <1>1, <1>4, <1>5, <1>6 DEF ToSet

(* The copies of a section have the numbers after those that there are. *)
LEMMA CopiesFacts ==
  ASSUME NEW s \in Sections, ~SectionFails(s), Sound(building)
  PROVE  LET c == CountOf(building, s.type)
             p == NumProcs(s)
         IN  /\ p \in Nat \ {0} /\ c \in Nat /\ Len(Copies(s)) = p
             /\ Copies(s) \in Seq(ToSet(Copies(s)))
             /\ \A i \in 1 .. p :
                  /\ Copies(s)[i].type = s.type /\ Copies(s)[i].name \in Nodes
                  /\ Copies(s)[i].count = c + IF i = p THEN 1 ELSE i + 1
<1> DEFINE c == CountOf(building, s.type)
           p == NumProcs(s)
<1>1. p \in Nat \ {0}
  BY StoreAssumption DEF NumProcs, SectionFails
<1>2. c \in Nat
  BY Numbers
<1>3. Copies(s) = [i \in 1 .. p |-> Copy(s, IF i = p THEN 1 ELSE i + 1)]
  BY DEF Copies
<1>4. Len(Copies(s)) = p /\ Copies(s) \in Seq(ToSet(Copies(s)))
  BY <1>1, <1>3 DEF ToSet
<1>5. ASSUME NEW k \in 1 .. p
      PROVE  Copy(s, k).type = s.type /\ Copy(s, k).count = c + k /\ Copy(s, k).name \in Nodes
  <2>1. Copy(s, k).name \in NamesOf(s)
    BY DEF Copy, NamesOf
  <2> QED BY <2>1, SessionAssumption DEF Copy, AllNames
<1>6. ASSUME NEW i \in 1 .. p PROVE (IF i = p THEN 1 ELSE i + 1) \in 1 .. p
  BY <1>1
<1> QED BY <1>1, <1>2, <1>3, <1>4, <1>5, <1>6

LEMMA AddedNodes ==
  ASSUME NEW s \in Sections, ~SectionFails(s), Sound(building)
  PROVE  LET new == building \o Copies(s)
             l == Len(building)
             p == NumProcs(s)
         IN  /\ l \in Nat /\ DOMAIN building = 1 .. l /\ p \in Nat \ {0} /\ Len(Copies(s)) = p
             /\ new \in Seq(ToSet(building) \cup ToSet(Copies(s))) /\ Len(new) = l + p /\ DOMAIN new = 1 .. l + p
             /\ \A i \in 1 .. l : new[i] = building[i]
             /\ \A i \in l + 1 .. l + p : new[i] = Copies(s)[i - l]
<1> DEFINE new == building \o Copies(s)
           l == Len(building)
           p == NumProcs(s)
           S == ToSet(building) \cup ToSet(Copies(s))
           more == Copies(s)
<1>1. p \in Nat \ {0} /\ l \in Nat /\ DOMAIN building = 1 .. l /\ Len(more) = p
  BY CopiesFacts, Numbers
<1>2. building \in Seq(S) /\ more \in Seq(S)
  <2>1. building \in Seq(ToSet(building)) /\ Copies(s) \in Seq(ToSet(Copies(s)))
    BY CopiesFacts DEF Sound
  <2> QED BY <2>1, SeqMonotonic
<1>3. new = building \o more
  OBVIOUS
<1> HIDE DEF S, more
<1>4. building \o more \in Seq(S) /\ Len(building \o more) = l + p
  BY <1>1, <1>2, ConcatProperties
<1>5. \A i \in 1 .. l + p : new[i] = IF i <= l THEN building[i] ELSE more[i - l]
  BY <1>1, <1>2, <1>3, ConcatProperties
<1>6. DOMAIN new = 1 .. l + p
  BY <1>1, <1>3, <1>4
<1>7. /\ \A i \in 1 .. l : i \in 1 .. l + p /\ i <= l
      /\ \A i \in l + 1 .. l + p : i \in 1 .. l + p /\ ~(i <= l)
  BY <1>1
<1> QED BY <1>1, <1>3, <1>4, <1>5, <1>6, <1>7 DEF more, S

LEMMA CopiesSound ==
  ASSUME NEW s \in Sections, ~SectionFails(s), Sound(building),
         ~Duplicate(building \o Copies(s))
  PROVE  Sound(building \o Copies(s))
<1> DEFINE new == building \o Copies(s)
           l == Len(building)
           p == NumProcs(s)
           c == CountOf(building, s.type)
           K(i) == IF i = l + p THEN 1 ELSE i - l + 1
           S == ToSet(building) \cup ToSet(Copies(s))
<1>1. /\ p \in Nat \ {0} /\ c \in Nat /\ l \in Nat /\ DOMAIN building = 1 .. l
      /\ Len(Copies(s)) = p
  BY CopiesFacts, Numbers
<1>3. /\ new \in Seq(S) /\ Len(new) = l + p /\ DOMAIN new = 1 .. l + p
      /\ \A i \in 1 .. l : new[i] = building[i]
      /\ \A i \in l + 1 .. l + p : new[i] = Copies(s)[i - l]
  BY AddedNodes
<1>4. \A i \in l + 1 .. l + p :
        new[i].type = s.type /\ new[i].name \in Nodes /\ new[i].count = c + K(i)
  BY <1>1, <1>3, CopiesFacts
<1>5. \A i \in 1 .. l : /\ building[i].type \in Types /\ building[i].name \in Nodes
                        /\ building[i].count \in 1 .. CountOf(building, building[i].type)
  BY <1>1, Numbers DEF Sound
<1>6. s.type \in Types
  BY DEF SectionFails, Types
<1> HIDE DEF new, l, p, c
<1>7. new \in Seq(ToSet(new))
  BY <1>3 DEF ToSet
<1>8. \A i \in DOMAIN new : new[i].type \in Types /\ new[i].name \in Nodes
  BY <1>1, <1>3, <1>4, <1>5, <1>6
<1>9. ASSUME NEW i \in 1 .. l + p, NEW j \in 1 .. l + p, i # j, new[i].type = new[j].type
      PROVE  new[i].count # new[j].count
  <2>5. \A k \in 1 .. l : new[k].type = s.type => new[k].count \in 1 .. c
    BY <1>3, <1>5 DEF c
  <2>6. \A k \in l + 1 .. l + p : new[k].type = s.type /\ new[k].count = c + K(k) /\ K(k) \in 1 .. p
    BY <1>1, <1>4
  <2>1. CASE i \in 1 .. l /\ j \in 1 .. l
    BY <1>1, <1>3, <1>9, <2>1 DEF Sound
  <2>7. ASSUME NEW k \in 1 .. l, NEW m \in l + 1 .. l + p, new[k].type = new[m].type
        PROVE  new[k].count # new[m].count
    <3>1. new[k].count \in 1 .. c /\ new[m].count = c + K(m) /\ K(m) \in 1 .. p
      BY <2>5, <2>6, <2>7
    <3> HIDE DEF K
    <3> QED BY <1>1, <3>1
  <2>2. CASE i \in 1 .. l /\ j \in l + 1 .. l + p
    BY <1>9, <2>2, <2>7
  <2>3. CASE i \in l + 1 .. l + p /\ j \in 1 .. l
    BY <1>9, <2>3, <2>7
  <2>4. CASE i \in l + 1 .. l + p /\ j \in l + 1 .. l + p
    <3>1. K(i) # K(j)
      BY <1>1, <1>9, <2>4
    <3>2. new[i].count = c + K(i) /\ new[j].count = c + K(j) /\ K(i) \in 1 .. p /\ K(j) \in 1 .. p
      BY <2>4, <2>6
    <3> HIDE DEF K
    <3> QED BY <1>1, <3>1, <3>2
  <2> QED BY <1>1, <2>1, <2>2, <2>3, <2>4
<1>10. ASSUME NEW t \in Types PROVE {n.count : n \in OfType(new, t)} = 1 .. CountOf(new, t)
  <2> DEFINE old == {i \in 1 .. l : building[i].type = t}
             more == l + 1 .. l + p
  <2>1. CountOf(building, t) = Cardinality(old) /\ CountOf(building, t) \in Nat /\ IsFiniteSet(old)
    <3>1. IsFiniteSet(1 .. l) /\ old \in SUBSET (1 .. l)
      BY <1>1, FS_Interval
    <3> QED BY <1>1, <3>1, FS_Subset, Numbers DEF CountOf
  <2>2. {n.count : n \in OfType(building, t)} = 1 .. CountOf(building, t)
    BY DEF Sound
  <2>3. \A n : n \in OfType(new, t) <=> \E i \in 1 .. l + p : n = new[i] /\ new[i].type = t
    BY <1>3 DEF OfType, ToSet
  <2>4. \A n : n \in OfType(building, t) <=> \E i \in old : n = building[i]
    BY <1>1 DEF OfType, ToSet
  <2>5. CASE t # s.type
    <3>1. {i \in 1 .. l + p : new[i].type = t} = old
      BY <1>1, <1>3, <1>4, <2>5
    <3>2. CountOf(new, t) = CountOf(building, t)
      BY <1>3, <2>1, <3>1 DEF CountOf
    <3>3. ASSUME NEW n PROVE n \in OfType(new, t) <=> n \in OfType(building, t)
      <4>1. ASSUME NEW i \in 1 .. l + p, n = new[i], new[i].type = t
            PROVE  i \in old /\ n = building[i]
        BY <1>1, <1>3, <1>4, <2>5, <4>1
      <4>2. ASSUME NEW i \in old, n = building[i] PROVE i \in 1 .. l + p /\ n = new[i] /\ new[i].type = t
        BY <1>1, <1>3, <4>2
      <4> QED BY <2>3, <2>4, <4>1, <4>2
    <3>4. OfType(new, t) = OfType(building, t)
      BY <3>3 DEF OfType
    <3> QED BY <2>2, <3>2, <3>4
  <2>6. CASE t = s.type
    <3>1. {i \in 1 .. l + p : new[i].type = t} = old \cup more
      BY <1>1, <1>3, <1>4, <2>6
    <3>2. IsFiniteSet(more) /\ Cardinality(more) = p
      BY <1>1, FS_Interval
    <3>3. old \cap more = {} /\ Cardinality({}) = 0
      BY <1>1, FS_EmptySet
    <3>4. CountOf(new, t) = c + p
      <4>1. CountOf(new, t) = Cardinality(old \cup more)
        BY <1>3, <3>1 DEF CountOf
      <4>2. Cardinality(old) = c
        BY <2>1, <2>6 DEF c
      <4> HIDE DEF old, more
      <4>3. Cardinality(old \cup more) = Cardinality(old) + Cardinality(more) - Cardinality(old \cap more)
        BY <2>1, <3>2, FS_Union
      <4>4. Cardinality(old \cap more) = 0 /\ Cardinality(more) = p
        BY <3>2, <3>3
      <4>5. Cardinality(old \cup more) = c + p - 0
        BY <4>2, <4>3, <4>4
      <4> HIDE DEF c, p
      <4> QED BY <1>1, <4>1, <4>5
    <3>5. ASSUME NEW i \in 1 .. l + p, new[i].type = t PROVE new[i].count \in 1 .. c + p
      <4>1. CASE i <= l
        <5>1. i \in 1 .. l /\ new[i] = building[i] /\ building[i].type = s.type
          BY <1>1, <1>3, <2>6, <3>5, <4>1
        <5>2. building[i].count \in 1 .. c
          BY <1>5, <5>1 DEF c
        <5> QED BY <1>1, <5>1, <5>2
      <4>2. CASE ~(i <= l)
        <5>1. i \in l + 1 .. l + p
          BY <1>1, <4>2
        <5>2. new[i].count = c + K(i) /\ K(i) \in 1 .. p
          BY <1>1, <1>4, <5>1
        <5> QED BY <1>1, <5>2
      <4> QED BY <4>1, <4>2
    <3>6. ASSUME NEW k \in 1 .. c + p PROVE \E n \in OfType(new, t) : n.count = k
      <4>1. CASE k \in 1 .. c
        <5>1. PICK n \in OfType(building, t) : n.count = k
          BY <2>2, <2>6, <4>1 DEF c
        <5>2. PICK i \in old : n = building[i]
          BY <2>4, <5>1
        <5>3. n = new[i] /\ new[i].type = t /\ i \in 1 .. l + p
          BY <1>1, <1>3, <5>2
        <5> QED BY <2>3, <5>1, <5>3
      <4>2. CASE k \notin 1 .. c
        <5> DEFINE i == IF k = c + 1 THEN l + p ELSE l + k - c - 1
        <5>1. i \in more /\ K(i) = k - c
          BY <1>1, <4>2
        <5>2. new[i].count = k /\ new[i].type = t /\ i \in 1 .. l + p
          BY <1>1, <1>4, <2>6, <5>1
        <5> QED BY <2>3, <5>2
      <4> QED BY <4>1, <4>2
    <3>7. \A n \in OfType(new, t) : n.count \in 1 .. c + p
      BY <2>3, <3>5
    <3> QED BY <3>4, <3>6, <3>7
  <2> QED BY <2>5, <2>6
<1> QED BY <1>3, <1>7, <1>8, <1>9, <1>10 DEF Sound, new

-----------------------------------------------------------------------------
(* Sorted lists.                                                           *)

LEMMA BeforeOrder ==
  ASSUME NEW all, Sound(all), NEW a \in ToSet(all), NEW b \in ToSet(all), NEW d \in ToSet(all)
  PROVE  /\ ~Before(a, a)
         /\ Before(a, b) /\ Before(b, d) => Before(a, d)
         /\ a # b => Before(a, b) \/ Before(b, a)
<1>1. ASSUME NEW n \in ToSet(all)
      PROVE  n.type \in Types /\ Rank[n.type] \in Int /\ n.count \in Int
  <2>1. PICK i \in 1 .. Len(all) : all[i] = n
    BY Numbers
  <2>2. n.type \in Types /\ n.count \in 1 .. CountOf(all, n.type) /\ CountOf(all, n.type) \in Nat
    BY <2>1, Numbers
  <2> QED BY <2>2, RankFacts
<1>2. \A s, t \in Types : Rank[s] = Rank[t] => s = t
  BY RankFacts
<1>3. a # b /\ a.type = b.type => a.count # b.count
  <2>1. PICK i \in 1 .. Len(all) : all[i] = a
    BY Numbers
  <2>2. PICK j \in 1 .. Len(all) : all[j] = b
    BY Numbers
  <2> QED BY <2>1, <2>2, Numbers DEF Sound
<1>4. ~Before(a, a)
  BY <1>1 DEF Before
<1>5. Before(a, b) /\ Before(b, d) => Before(a, d)
  BY <1>1, <1>2 DEF Before
<1>6. a # b => Before(a, b) \/ Before(b, a)
  BY <1>1, <1>2, <1>3 DEF Before
<1> QED BY <1>4, <1>5, <1>6

(* A sorted list has each node of the set. *)
LEMMA SortedHas ==
  ASSUME NEW all, Sound(all), NEW ns \in SUBSET ToSet(all)
  PROVE  /\ Cardinality(ns) \in Nat /\ Len(Sorted(ns)) = Cardinality(ns)
         /\ Sorted(ns) \in Seq(ToSet(Sorted(ns)))
         /\ \A n \in ns : \E i \in 1 .. Cardinality(ns) : Sorted(ns)[i] = n
<1> DEFINE less(n) == {k \in ns : Before(k, n)}
           r(n) == Cardinality(less(n))
           l == Cardinality(ns)
<1>1. IsFiniteSet(ns) /\ l \in Nat
  BY Numbers, FS_Subset, FS_CardinalityType
<1>2. ASSUME NEW n \in ns PROVE IsFiniteSet(less(n)) /\ r(n) \in Nat /\ r(n) < l
  <2>1. less(n) \in SUBSET ns /\ n \notin less(n)
    BY BeforeOrder
  <2> HIDE DEF less
  <2>2. Cardinality(less(n)) <= Cardinality(ns) /\ IsFiniteSet(less(n))
        /\ (Cardinality(less(n)) = Cardinality(ns) => less(n) = ns)
    BY <1>1, <2>1, FS_Subset
  <2>3. r(n) \in Nat
    BY <2>2, FS_CardinalityType
  <2> QED BY <1>1, <2>1, <2>2, <2>3
<1>3. ASSUME NEW m \in ns, NEW n \in ns, Before(m, n) PROVE r(m) < r(n)
  <2>1. less(m) \in SUBSET less(n) /\ m \in less(n) /\ m \notin less(m)
    BY <1>3, BeforeOrder
  <2>2. IsFiniteSet(less(n)) /\ r(m) \in Nat /\ r(n) \in Nat
    BY <1>2
  <2> HIDE DEF less
  <2>3. r(m) <= r(n) /\ (r(m) = r(n) => less(m) = less(n))
    BY <2>1, <2>2, FS_Subset
  <2> QED BY <2>1, <2>2, <2>3
<1>4. ASSUME NEW m \in ns, NEW n \in ns, r(m) = r(n) PROVE m = n
  <2>1. m # n => Before(m, n) \/ Before(n, m)
    BY BeforeOrder
  <2>2. r(m) \in Nat /\ r(n) \in Nat
    BY <1>2
  <2> HIDE DEF r
  <2> QED BY <1>3, <1>4, <2>1, <2>2
<1>5. Sorted(ns) = [i \in 1 .. l |-> CHOOSE n \in ns : r(n) = i - 1]
  BY DEF Sorted
<1> HIDE DEF r, l
<1>6. ASSUME NEW n \in ns PROVE \E i \in 1 .. l : Sorted(ns)[i] = n
  <2>1. r(n) + 1 \in 1 .. l /\ (r(n) + 1) - 1 = r(n)
    <3>1. PICK k : k = r(n)
      OBVIOUS
    <3>2. k \in Nat /\ k < l
      BY <1>2, <3>1
    <3> HIDE DEF l
    <3> QED BY <1>1, <3>1, <3>2
  <2>2. Sorted(ns)[r(n) + 1] = CHOOSE m \in ns : r(m) = r(n)
    BY <1>5, <2>1
  <2>3. (CHOOSE m \in ns : r(m) = r(n)) = n
    BY <1>4
  <2> QED BY <2>1, <2>2, <2>3
<1>7. Len(Sorted(ns)) = l
  BY <1>1, <1>5
<1>8. Sorted(ns) \in Seq(ToSet(Sorted(ns)))
  <2> DEFINE q == Sorted(ns)
  <2>1. q = [i \in 1 .. l |-> q[i]]
    BY <1>5
  <2>2. \A i \in 1 .. l : q[i] \in ToSet(q)
    BY <2>1 DEF ToSet
  <2> HIDE DEF q
  <2>3. q \in [1 .. l -> ToSet(q)]
    BY <2>1, <2>2
  <2>4. q \in Seq(ToSet(q))
    BY <1>1, <2>3
  <2> QED BY <2>4 DEF q
<1> QED BY <1>1, <1>6, <1>7, <1>8 DEF l

LEMMA LayoutOrderHas ==
  ASSUME Sound(store)
  PROVE  \A n \in ToSet(store) : \E i \in DOMAIN LayoutOrder : LayoutOrder[i] = n
<1> DEFINE front == OfType(store, "standalone") \cup OfType(store, "manager")
           back == {n \in ToSet(store) : n.type \notin {"standalone", "manager"}}
           A == Sorted(front)
           B == Sorted(back)
           S == ToSet(A) \cup ToSet(B)
<1>1. front \in SUBSET ToSet(store) /\ back \in SUBSET ToSet(store)
  BY DEF OfType
<1>2. \A n \in ToSet(store) : n \in front \/ n \in back
  BY DEF OfType
<1> HIDE DEF front, back
<1>3. /\ A \in Seq(ToSet(A)) /\ Len(A) \in Nat
      /\ \A n \in front : \E i \in 1 .. Len(A) : A[i] = n
  BY <1>1, SortedHas
<1>4. /\ B \in Seq(ToSet(B)) /\ Len(B) \in Nat
      /\ \A n \in back : \E i \in 1 .. Len(B) : B[i] = n
  BY <1>1, SortedHas
<1>5. LayoutOrder = A \o B
  BY DEF LayoutOrder, front, back
<1> HIDE DEF A, B
<1>6. A \in Seq(S) /\ B \in Seq(S)
  BY <1>3, <1>4, SeqMonotonic
<1> HIDE DEF S
<1>7. /\ A \o B \in Seq(S) /\ Len(A \o B) = Len(A) + Len(B)
      /\ \A i \in 1 .. Len(A) + Len(B) : (A \o B)[i] = IF i <= Len(A) THEN A[i] ELSE B[i - Len(A)]
  BY <1>6, ConcatProperties
<1>8. DOMAIN (A \o B) = 1 .. Len(A) + Len(B)
  BY <1>7
<1>9. ASSUME NEW n \in front PROVE \E i \in 1 .. Len(A) + Len(B) : (A \o B)[i] = n
  <2>1. PICK i \in 1 .. Len(A) : A[i] = n
    BY <1>3
  <2>2. i \in 1 .. Len(A) + Len(B) /\ i <= Len(A)
    BY <1>3, <1>4
  <2> QED BY <1>7, <2>1, <2>2
<1>10. ASSUME NEW n \in back PROVE \E i \in 1 .. Len(A) + Len(B) : (A \o B)[i] = n
  <2>1. PICK i \in 1 .. Len(B) : B[i] = n
    BY <1>4
  <2>2. PICK j : j = i + Len(A)
    OBVIOUS
  <2>3. j \in 1 .. Len(A) + Len(B) /\ ~(j <= Len(A)) /\ j - Len(A) = i
    BY <1>3, <1>4, <2>2
  <2> QED BY <1>7, <2>1, <2>3
<1> QED BY <1>2, <1>5, <1>8, <1>9, <1>10

LEMMA SoundNodesDiffer ==
  ASSUME Sound(store)
  PROVE  NodesDiffer
<1> DEFINE port == Layout
           order == LayoutOrder
           at(a) == CHOOSE i \in DOMAIN order : order[i].name = a
<1>1. \A i, j \in DOMAIN store : i # j => LowerName(store[i].name) # LowerName(store[j].name)
  BY DEF Sound, Duplicate
<1>2. \A t \in ToSet(TypeOrder) : {n.count : n \in OfType(store, t)} = 1 .. CountOf(store, t)
  BY DEF Sound, Types
<1>3. \A a \in Ids(store) : \E i \in DOMAIN order : order[i].name = a
  BY LayoutOrderHas DEF Ids, ToSet
<1>4. DOMAIN order \subseteq Nat \ {0}
  <2> DEFINE front == OfType(store, "standalone") \cup OfType(store, "manager")
             back == {n \in ToSet(store) : n.type \notin {"standalone", "manager"}}
             A == Sorted(front)
             B == Sorted(back)
  <2>1. Len(A) \in Nat /\ Len(B) \in Nat
    <3>1. front \in SUBSET ToSet(store) /\ back \in SUBSET ToSet(store)
      BY DEF OfType
    <3> HIDE DEF front, back
    <3> QED BY <3>1, SortedHas
  <2>2. order = A \o B
    BY DEF LayoutOrder
  <2> HIDE DEF A, B
  <2>3. DOMAIN (A \o B) = 1 .. Len(A) + Len(B)
    OBVIOUS
  <2> QED BY <2>1, <2>2, <2>3
<1> DEFINE first == IF Standalone THEN 0 ELSE 1
<1>5. Layout = [name \in Ids(order) |-> first + at(name)]
  BY DEF Layout
<1> HIDE DEF order
<1>6. ASSUME NEW a \in Ids(store) PROVE at(a) \in DOMAIN order /\ order[at(a)].name = a
  BY <1>3
<1> HIDE DEF at
<1>7. \A a \in Ids(store) : a \in Ids(order)
  BY <1>6 DEF Ids
<1>8. \A a \in Ids(store) : Layout[a] = first + at(a) /\ at(a) \in Nat /\ at(a) > 0
  BY <1>4, <1>5, <1>6, <1>7
<1>9. ASSUME NEW a \in Ids(store), NEW b \in Ids(store) \ {a} PROVE Layout[a] # Layout[b]
  <2>1. at(a) # at(b)
    BY <1>6
  <2> QED BY <1>8, <2>1
<1>10. \A a \in Ids(store) : Standalone \/ Layout[a] > 1
  BY <1>8
<1> QED BY <1>1, <1>2, <1>9, <1>10 DEF NodesDiffer

-----------------------------------------------------------------------------
(* Only reading changes the nodes.                                         *)

LEMMA SoundEmpty == Sound(<<>>)
<1>1. \A t : {i \in DOMAIN <<>> : <<>>[i].type = t} = {} /\ Cardinality({}) = 0
  BY FS_EmptySet
<1>2. \A t : CountOf(<<>>, t) = 0
  BY <1>1 DEF CountOf
<1>3. \A t : OfType(<<>>, t) = {}
  BY DEF OfType, ToSet
<1>4. <<>> \in Seq(ToSet(<<>>)) /\ DOMAIN <<>> = {}
  OBVIOUS
<1> QED BY <1>2, <1>3, <1>4 DEF Sound, Duplicate

LEMMA StoreStart == Init => StoreInv
<1> SUFFICES ASSUME Init PROVE StoreInv
  OBVIOUS
<1>1. file \in NodeCfgs /\ cfg \in NodeCfgs /\ rest \in Seq(Sections)
  BY SessionAssumption, StoreAssumption DEF Init
<1> QED BY <1>1, SoundEmpty DEF Init, StoreInv

LEMMA StoreStep ==
  ASSUME StoreInv, [Next]_vars
  PROVE  StoreInv'
<1>1. CASE UNCHANGED <<file, sVars, active>>
  BY <1>1 DEF StoreInv, sVars
<1>2. CASE BeginReading /\ UNCHANGED <<file, active>>
  <2>1. file \in Seq(Sections)
    BY StoreAssumption DEF StoreInv
  <2>2. building' = <<>> /\ store' = store
    BY <1>2 DEF BeginReading
  <2>3. Sound(building') /\ Sound(store')
    BY <2>2, SoundEmpty DEF StoreInv
  <2> QED BY <1>2, <2>1, <2>3 DEF StoreInv, BeginReading
<1>3. CASE ReadSection /\ UNCHANGED <<file, active>>
  <2>1. CASE UNCHANGED <<rest, building>>
    BY <1>3, <2>1 DEF ReadSection, StoreInv
  <2>2. CASE ~UNCHANGED <<rest, building>>
    <3> DEFINE s == Head(rest)
    <3>1. /\ ~SectionFails(s) /\ ~Duplicate(building \o Copies(s))
          /\ rest' = Tail(rest) /\ building' = building \o Copies(s) /\ rest # <<>>
      BY <1>3, <2>2 DEF ReadSection
    <3>2. s \in Sections /\ Tail(rest) \in Seq(Sections)
      BY <3>1 DEF StoreInv
    <3> HIDE DEF s
    <3>3. Sound(building \o Copies(s))
      BY <3>1, <3>2, CopiesSound DEF StoreInv
    <3>4. Sound(building') /\ Sound(store')
      BY <1>3, <3>1, <3>3 DEF StoreInv, ReadSection
    <3> QED BY <1>3, <3>1, <3>2, <3>4 DEF ReadSection, StoreInv
  <2> QED BY <2>1, <2>2
<1>4. CASE CheckNodestore /\ UNCHANGED <<file, active>>
  <2>1. Sound(building') /\ Sound(store')
    BY <1>4 DEF StoreInv, CheckNodestore
  <2> QED BY <1>4, <2>1 DEF CheckNodestore, StoreInv
<1>5. CASE Initialised
  BY <1>5 DEF Initialised, InitPlugins, StoreInv
<1>6. CASE Edit
  <2>1. file' \in NodeCfgs
    BY <1>6, SessionAssumption DEF Edit
  <2> QED BY <1>6, <2>1 DEF Edit, StoreInv, sVars
<1>7. CASE Reload
  BY <1>1, <1>2, <1>7 DEF Reload
<1>8. CASE NewProcess
  BY <1>2, <1>8 DEF NewProcess
<1>9. CASE Read
  BY <1>3, <1>4, <1>9 DEF Read
<1>10. CASE Call \/ Nested \/ GiveUp \/ Post \/ Do \/ BeginQuery \/ Ask \/ EndQuery \/ NodeReplies
  BY <1>1, <1>10 DEF Call, Nested, GiveUp, Post, Do, BeginQuery, Ask, EndQuery, NodeReplies
<1>11. CASE UNCHANGED vars
  BY <1>1, <1>11 DEF vars
<1> QED BY <1>5, <1>6, <1>7, <1>8, <1>9, <1>10, <1>11 DEF Next, Work

(* In every reachable state the nodes of node.cfg can be told from each other. *)
THEOREM ClusterIsSound == Spec => []NodesDiffer
<1>1. StoreInv => NodesDiffer
  BY SoundNodesDiffer DEF StoreInv
<1> QED BY <1>1, StoreStart, StoreStep, PTL DEF Spec

-----------------------------------------------------------------------------
(* Frames.                                                                 *)

LEMMA Tuples ==
  /\ \A f : <<f>> # <<>> /\ Head(<<f>>) = f /\ Tail(<<f>>) = <<>> /\ <<f>> \o <<>> = <<f>> /\ Len(<<f>>) = 1
  /\ \A f, g : <<f, g>> # <<>> /\ Head(<<f, g>>) = f /\ Tail(<<f, g>>) = <<g>> /\ <<f>> \o <<g>> = <<f, g>>
  /\ \A f, g : <<f>> = <<g>> => f = g
  /\ \A f, g, h : <<f>> # <<g, h>>
  /\ \A f, g, h, k : <<f, g>> = <<h, k>> => f = h /\ g = k
<1>1. \A f : <<f>> # <<>> /\ Head(<<f>>) = f /\ Tail(<<f>>) = <<>> /\ <<f>> \o <<>> = <<f>> /\ Len(<<f>>) = 1
  OBVIOUS
<1>2. \A f, g : <<f, g>> # <<>> /\ Head(<<f, g>>) = f /\ Tail(<<f, g>>) = <<g>>
  OBVIOUS
<1>3. ASSUME NEW f, NEW g PROVE <<f>> \o <<g>> = <<f, g>>
  <2> DEFINE c == <<f>> \o <<g>>
             d == <<f, g>>
  <2>1. Len(c) = 2 /\ DOMAIN c = 1 .. 2 /\ c[1] = f /\ c[2] = g
    OBVIOUS
  <2>2. c \in Seq({f, g}) /\ d \in Seq({f, g}) /\ Len(d) = 2 /\ d[1] = f /\ d[2] = g
    BY <2>1, ConcatProperties
  <2> HIDE DEF c, d
  <2>3. \A i \in 1 .. 2 : c[i] = d[i]
    BY <2>1, <2>2
  <2>4. c = d
    BY <2>1, <2>2, <2>3, SeqEqual
  <2> QED BY <2>4 DEF c, d
<1>4. \A f, g, h, k : (<<f>> = <<g>> => f = g) /\ <<f>> # <<g, h>> /\ (<<f, g>> = <<h, k>> => f = h /\ g = k)
  OBVIOUS
<1> QED BY <1>1, <1>2, <1>3, <1>4

(* The parts of commands are no composites. *)
LEMMA RestFacts ==
  ASSUME NEW cmd, NEW r \in Rests(cmd)
  PROVE  /\ cmd \in Composites <=> Composite(cmd)
         /\ Body(cmd) \in Rests(cmd) /\ <<>> \in Rests(cmd)
         /\ cmd \in Composites /\ r # <<>> =>
              /\ Head(r) \in {"stop", "start", "cleanup", "check", "install", "reload"}
              /\ Tail(r) \in Rests(cmd) /\ r # <<"do">>
              /\ Head(r) = "reload" =>
                   cmd = "deploy" /\ Tail(r) = <<"check", "install", "stop", "start">>
         /\ cmd \notin Composites => r \in {<<"do">>, <<>>}
<1> DEFINE goal == /\ Head(r) \in {"stop", "start", "cleanup", "check", "install", "reload"}
                   /\ Tail(r) \in Rests(cmd) /\ r # <<"do">>
                   /\ Head(r) = "reload" =>
                        cmd = "deploy" /\ Tail(r) = <<"check", "install", "stop", "start">>
<1>1. cmd \in Composites <=> Composite(cmd)
  <2>1. <<"stop", "start">> # <<"do">> /\ <<"stop", "cleanup", "check", "install", "start">> # <<"do">>
        /\ <<"reload", "check", "install", "stop", "start">> # <<"do">>
    OBVIOUS
  <2> QED BY <2>1 DEF Composites, Composite, Body
<1>2. Body(cmd) \in Rests(cmd) /\ <<>> \in Rests(cmd)
  BY DEF Rests, Body
<1>3. cmd \notin Composites => r \in {<<"do">>, <<>>}
  BY DEF Rests, Composites
<1>4. ASSUME cmd \in Composites, r # <<>> PROVE goal
  <2>1. CASE r = <<"start">>
    BY <1>2, <2>1
  <2>2. CASE r = <<"stop", "start">>
    <3>1. Head(r) = "stop" /\ Tail(r) = <<"start">> /\ r # <<"do">>
      BY <2>2
    <3>2. cmd # "clean restart"
      BY <2>2 DEF Rests
    <3>3. <<"start">> \in Rests(cmd)
      BY <1>4, <3>2 DEF Rests, Composites
    <3> QED BY <3>1, <3>3
  <2>3. CASE r = <<"install", "start">>
    <3>1. Head(r) = "install" /\ Tail(r) = <<"start">> /\ r # <<"do">>
      BY <2>3
    <3>2. <<"start">> \in Rests(cmd)
      BY <1>4 DEF Rests, Composites
    <3> QED BY <3>1, <3>2
  <2>4. CASE r = <<"check", "install", "start">>
    <3>1. Head(r) = "check" /\ Tail(r) = <<"install", "start">> /\ r # <<"do">>
      BY <2>4
    <3>2. cmd = "clean restart"
      BY <1>4, <2>4 DEF Rests, Composites
    <3> QED BY <3>1, <3>2 DEF Rests
  <2>5. CASE r = <<"install", "stop", "start">>
    <3>1. Head(r) = "install" /\ Tail(r) = <<"stop", "start">> /\ r # <<"do">>
      BY <2>5
    <3>2. cmd = "deploy"
      BY <1>4, <2>5 DEF Rests, Composites
    <3> QED BY <3>1, <3>2 DEF Rests
  <2>6. CASE r = <<"check", "install", "stop", "start">>
    <3>1. Head(r) = "check" /\ Tail(r) = <<"install", "stop", "start">> /\ r # <<"do">>
      BY <2>6
    <3>2. cmd = "deploy"
      BY <1>4, <2>6 DEF Rests, Composites
    <3> QED BY <3>1, <3>2 DEF Rests
  <2>7. CASE r = <<"cleanup", "check", "install", "start">>
    <3>1. Head(r) = "cleanup" /\ Tail(r) = <<"check", "install", "start">> /\ r # <<"do">>
      BY <2>7
    <3>2. cmd = "clean restart"
      BY <1>4, <2>7 DEF Rests, Composites
    <3> QED BY <3>1, <3>2 DEF Rests
  <2>8. CASE r = <<"stop", "cleanup", "check", "install", "start">>
    <3>1. Head(r) = "stop" /\ Tail(r) = <<"cleanup", "check", "install", "start">> /\ r # <<"do">>
      BY <2>8
    <3>2. cmd = "clean restart"
      BY <1>4, <2>8 DEF Rests, Composites
    <3> QED BY <3>1, <3>2 DEF Rests
  <2>9. CASE r = <<"reload", "check", "install", "stop", "start">>
    <3>1. Head(r) = "reload" /\ Tail(r) = <<"check", "install", "stop", "start">> /\ r # <<"do">>
      BY <2>9
    <3>2. cmd = "deploy"
      BY <1>4, <2>9 DEF Rests, Composites
    <3> QED BY <3>1, <3>2 DEF Rests
  <2> QED BY <1>4, <2>1, <2>2, <2>3, <2>4, <2>5, <2>6, <2>7, <2>8, <2>9 DEF Rests, Composites
<1> QED BY <1>1, <1>2, <1>3, <1>4

LEMMA FrameLeft ==
  ASSUME NEW f, IsFrame(f), NEW r \in Rests(f.cmd)
  PROVE  LET g == [f EXCEPT !.todo = r]
         IN  IsFrame(g) /\ g.cmd = f.cmd /\ g.arg = f.arg /\ g.todo = r /\ g.nodes = f.nodes
<1> DEFINE g == [f EXCEPT !.todo = r]
<1>1. g = [cmd |-> f.cmd, arg |-> f.arg, todo |-> r, nodes |-> f.nodes]
  BY DEF IsFrame
<1> HIDE DEF g
<1>2. g.cmd = f.cmd /\ g.arg = f.arg /\ g.todo = r /\ g.nodes = f.nodes
  BY <1>1
<1>3. IsFrame(g)
  BY <1>1, <1>2 DEF IsFrame
<1> QED BY <1>2, <1>3 DEF g

(* stop is called for all nodes. *)
LEMMA SelectedAll ==
  ASSUME StoreInv
  PROVE  Ids(store) \subseteq Selected("stop", "all")
<1> DEFINE ns == ToSet(store)
<1>1. Named("all") = ns
  BY DEF Named
<1>2. NodeArgs(ns, "all") = Sorted(ns)
  <2>1. {n \in ns : \A k \in ns : Before(k, n) =>
           ("all" = "hosts" => k.host # n.host) /\ ("all" = "types" => k.type # n.type)} = ns
    OBVIOUS
  <2> QED BY <2>1 DEF NodeArgs
<1>3. Selected("stop", "all") = Ids(Sorted(ns))
  BY <1>1, <1>2 DEF Selected
<1>4. Sound(store) /\ ns \in SUBSET ToSet(store)
  BY DEF StoreInv
<1>5. /\ Len(Sorted(ns)) = Cardinality(ns) /\ Sorted(ns) \in Seq(ToSet(Sorted(ns)))
      /\ \A n \in ns : \E i \in 1 .. Cardinality(ns) : Sorted(ns)[i] = n
  BY <1>4, SortedHas
<1>6. DOMAIN Sorted(ns) = 1 .. Cardinality(ns)
  BY <1>5
<1> HIDE DEF ns
<1>7. \A n \in ns : n.name \in Ids(Sorted(ns))
  BY <1>5, <1>6 DEF Ids
<1>8. \A a \in Ids(store) : \E n \in ns : a = n.name
  BY DEF Ids, ns, ToSet
<1> QED BY <1>3, <1>7, <1>8

LEMMA NewFrame ==
  ASSUME StoreInv, NEW cmd \in NodeCmds \cup PlainCmds, NEW arg, NEW todo \in Rests(cmd),
         NEW selected, cmd = "stop" /\ arg = "all" => selected = Selected(cmd, arg)
  PROVE  LET f == [cmd |-> cmd, arg |-> arg, todo |-> todo, nodes |-> Filter(Hook(cmd), selected)]
         IN  IsFrame(f) /\ FrameInv(f)
<1> DEFINE f == [cmd |-> cmd, arg |-> arg, todo |-> todo, nodes |-> Filter(Hook(cmd), selected)]
<1>1. Filter(Hook(cmd), selected) = {n \in selected : \A p \in active : n \notin DroppedBy(p, Hook(cmd))}
  BY FilterIs DEF StoreInv
<1>2. f.nodes = {n \in selected : n \notin DroppedFrom(Hook(cmd))}
  BY <1>1 DEF DroppedFrom
<1>3. f.cmd = cmd /\ f.arg = arg /\ f.todo = todo
  OBVIOUS
<1>4. IsFrame(f)
  BY <1>3 DEF IsFrame
<1> HIDE DEF f
<1>5. f.nodes \cap DroppedFrom(Hook(f.cmd)) = {}
  BY <1>2, <1>3
<1>6. cmd = "stop" /\ arg = "all" => Kept \subseteq f.nodes
  BY <1>2, SelectedAll DEF Kept, Hook
<1> QED BY <1>3, <1>4, <1>5, <1>6 DEF FrameInv, f

(* What the pre hooks of a command lead to, unless there is no node. *)
Entered(cmd, arg, below) ==
  /\ due' = (IF below = <<>> THEN {} ELSE due) \cup {cmd} /\ UNCHANGED raised
  /\ \/ cmd = "deploy" /\ ~ok' /\ stack' = below
     \/ \E f : /\ stack' = <<f>> \o below /\ IsFrame(f) /\ FrameInv(f)
               /\ f.cmd = cmd /\ f.arg = arg /\ ~(ok' /\ f.todo = <<>>)
               /\ cmd \in Composites => f.todo = Body(cmd)

LEMMA EnterMoves ==
  ASSUME StoreInv, NEW cmd \in NodeCmds \cup PlainCmds, NEW arg, NEW below, Enter(cmd, arg, below)
  PROVE  Raise \/ Entered(cmd, arg, below)
<1> DEFINE allowed == cmd \in NodeCmds \/ Allowed(Hook(cmd))
           selected == IF cmd \in NodeCmds THEN Selected(cmd, arg) ELSE {}
           todo == IF allowed THEN Body(cmd) ELSE <<>>
           f == [cmd |-> cmd, arg |-> arg, todo |-> todo, nodes |-> Filter(Hook(cmd), selected)]
<1>1. /\ <<>> \in Rests(cmd) /\ Body(cmd) \in Rests(cmd) /\ Body(cmd) # <<>>
      /\ cmd \in Composites => cmd \in NodeCmds \/ cmd = "deploy"
  <2>1. <<>> \in Rests(cmd)
    BY DEF Rests
  <2>2. Body(cmd) \in Rests(cmd) /\ Body(cmd) # <<>>
    BY <2>1, RestFacts DEF Body
  <2> QED BY <2>1, <2>2 DEF Composites, NodeCmds
<1>2. cmd = "stop" => cmd \in NodeCmds
  BY DEF NodeCmds
<1>3. todo \in Rests(cmd)
  BY <1>1
<1>4. IsFrame(f) /\ FrameInv(f)
  <2> HIDE DEF todo, allowed
  <2>1. cmd = "stop" /\ arg = "all" => selected = Selected(cmd, arg)
    BY <1>2
  <2> HIDE DEF selected
  <2> QED BY <1>3, <2>1, NewFrame
<1>5. f.cmd = cmd /\ f.arg = arg /\ f.todo = todo
  OBVIOUS
<1>6. \/ Raise
      \/ /\ due' = (IF below = <<>> THEN {} ELSE due) \cup {cmd} /\ UNCHANGED raised /\ ok' = allowed
         /\ stack' = IF cmd = "deploy" /\ ~allowed THEN below ELSE <<f>> \o below
  BY DEF Enter
<1> HIDE DEF f
<1>7. todo = IF allowed THEN Body(cmd) ELSE <<>>
  OBVIOUS
<1>8. cmd \in NodeCmds => allowed
  OBVIOUS
<1> HIDE DEF todo, allowed
<1> QED BY <1>1, <1>4, <1>5, <1>6, <1>7, <1>8 DEF Entered

-----------------------------------------------------------------------------
(* Each action keeps the invariant.                                        *)

LEMMA StackShapes ==
  ASSUME StackInv, stack # <<>>
  PROVE  \/ \E f : stack = <<f>> /\ Frame = f /\ Tail(stack) = <<>> /\ IsFrame(f)
         \/ \E f, g : /\ stack = <<f, g>> /\ Frame = f /\ Tail(stack) = <<g>>
                      /\ IsFrame(f) /\ IsFrame(g) /\ IsPart(f, g)
<1>1. ASSUME NEW f, stack = <<f>>, IsFrame(f) PROVE Frame = f /\ Tail(stack) = <<>>
  BY <1>1 DEF Frame
<1>2. ASSUME NEW f, NEW g, stack = <<f, g>> PROVE Frame = f /\ Tail(stack) = <<g>>
  BY <1>2 DEF Frame
<1> QED BY <1>1, <1>2 DEF StackInv, StackOf

LEMMA FrameFacts ==
  ASSUME NEW f, IsFrame(f)
  PROVE  /\ f.cmd \in Composites <=> Composite(f.cmd)
         /\ f.cmd \notin Composites => f.todo \in {<<"do">>, <<>>}
         /\ f.todo # <<>> /\ Head(f.todo) = "reload" => f.cmd = "deploy"
         /\ f.todo = <<"do">> => f.cmd \notin Composites
  <1>1. f.todo \in Rests(f.cmd)
    BY DEF IsFrame
  <1>2. Head(<<"do">>) = "do" /\ <<"do">> # <<>>
    OBVIOUS
  <1> QED BY <1>1, <1>2, RestFacts

LEMMA SameKeeps ==
  ASSUME SessInv, UNCHANGED <<stack, ok, due, store, active, world>>
  PROVE  StackInv' /\ DueInv' /\ PartsInv'
<1>1. StackInv' /\ DueInv'
  BY DEF SessInv, StackInv, DueInv
<1>2. ASSUME NEW f PROVE FrameInv(f)' <=> FrameInv(f)
  BY DEF FrameInv, Kept, DroppedFrom, DroppedBy
<1>3. /\ Recorded' <=> Recorded
      /\ Stopped' <=> Stopped
      /\ Agreed' <=> Agreed
  BY DEF Recorded, Stopped, Agreed, Kept, DroppedFrom, DroppedBy, world
<1>4. ASSUME NEW g, NEW done PROVE DeployInv(g, done)' <=> DeployInv(g, done)
  BY <1>3 DEF DeployInv
<1>5. PartsInv'
  BY <1>2, <1>4 DEF SessInv, PartsInv
<1> QED BY <1>1, <1>5

LEMMA CallKeeps ==
  ASSUME SessInv, Call
  PROVE  StackInv' /\ PhaseInv' /\ DueInv' /\ PartsInv'
<1>1. /\ stack = <<>> /\ ~raised /\ phase = "valid"
      /\ UNCHANGED <<sVars, active, world, eVars>>
  BY DEF Call, OpenIdle
<1>2. PICK c \in Calls : Enter(c[1], c[2], <<>>)
  BY DEF Call
<1>3. c[1] \in NodeCmds \cup PlainCmds
  BY SessionAssumption
<1>4. query.at = "none" /\ query' = query /\ phase' = phase
  BY <1>1 DEF SessInv, PhaseInv, eVars, sVars
<1>5. PhaseInv'
  BY <1>1, <1>4 DEF PhaseInv
<1>6. CASE Raise
  <2>1. UNCHANGED <<stack, ok, due, store, active, world>>
    BY <1>1, <1>6 DEF Raise, sVars
  <2> QED BY <1>5, <2>1, SameKeeps
<1>7. CASE c[1] = "deploy" /\ ~ok' /\ stack' = <<>> /\ due' = {c[1]}
  <2>1. StackInv' /\ DueInv'
    BY <1>7 DEF StackInv, StackOf, DueInv, Composites
  <2>2. PartsInv'
    BY <1>7, Tuples DEF PartsInv
  <2> QED BY <1>5, <2>1, <2>2
<1>8. ASSUME NEW f, stack' = <<f>>, due' = {c[1]}, IsFrame(f), FrameInv(f), f.cmd = c[1],
             c[1] \in Composites => f.todo = Body(c[1])
      PROVE  StackInv' /\ DueInv' /\ PartsInv'
  <2>1. StackInv' /\ DueInv'
    BY <1>8 DEF StackInv, StackOf, DueInv
  <2>2. FrameInv(f)'
    BY <1>1, <1>8 DEF FrameInv, Kept, DroppedFrom, DroppedBy, sVars
  <2>3. DeployInv(f, ok)'
    <3>1. CASE f.cmd = "deploy"
      <4>1. f.todo = <<"reload", "check", "install", "stop", "start">>
        BY <1>8, <3>1 DEF Body, Composites
      <4>2. f.todo # <<"stop", "start">> /\ f.todo # <<"start">> /\ f.todo # <<>>
        BY <4>1
      <4> QED BY <3>1, <4>2 DEF DeployInv
    <3>2. CASE f.cmd = "clean restart"
      <4>1. f.todo = <<"stop", "cleanup", "check", "install", "start">>
        BY <1>8, <3>2 DEF Body, Composites
      <4>2. /\ f.todo # <<"cleanup", "check", "install", "start">> /\ f.todo # <<>>
            /\ f.todo \notin {<<"check", "install", "start">>, <<"install", "start">>, <<"start">>}
        BY <4>1
      <4> QED BY <3>2, <4>2 DEF DeployInv
    <3> QED BY <3>1, <3>2 DEF DeployInv
  <2>4. PartsInv'
    <3>1. \A g, h : stack' # <<g, h>>
      BY <1>8, Tuples
    <3>2. \A g : stack' = <<g>> => g = f
      BY <1>8, Tuples
    <3>3. ASSUME NEW g, stack' = <<g>> PROVE FrameInv(g)' /\ DeployInv(g, ok)'
      BY <2>2, <2>3, <3>2, <3>3
    <3> QED BY <3>1, <3>3 DEF PartsInv
  <2> QED BY <2>1, <2>4
<1>9. StoreInv /\ \A x : (IF <<>> = <<>> THEN {} ELSE due) \cup {x} = {x}
  BY DEF SessInv
<1>10. \A f : <<f>> \o <<>> = <<f>>
  BY Tuples
<1>11. \/ Raise
       \/ /\ due' = {c[1]}
          /\ \/ c[1] = "deploy" /\ ~ok' /\ stack' = <<>>
             \/ \E f : /\ stack' = <<f>> /\ IsFrame(f) /\ FrameInv(f) /\ f.cmd = c[1]
                       /\ c[1] \in Composites => f.todo = Body(c[1])
  <2> DEFINE cmd == c[1]
             arg == c[2]
             below == <<>>
  <2>1. Enter(cmd, arg, below) /\ cmd \in NodeCmds \cup PlainCmds /\ StoreInv
    BY <1>2, <1>3, <1>9
  <2> HIDE DEF cmd, arg, below
  <2>2. Raise \/ Entered(cmd, arg, below)
    BY <2>1, EnterMoves
  <2> QED BY <1>10, <2>2 DEF Entered, cmd, below
<1> QED BY <1>5, <1>6, <1>7, <1>8, <1>11

LEMMA NestedKeeps ==
  ASSUME SessInv, Nested
  PROVE  StackInv' /\ PhaseInv' /\ DueInv' /\ PartsInv'
<1>1. /\ stack # <<>> /\ ~raised /\ phase = "valid" /\ query.at = "none" /\ ok
      /\ Composite(Frame.cmd) /\ Frame.todo # <<>> /\ Head(Frame.todo) # "reload"
      /\ UNCHANGED <<sVars, active, world, eVars>>
  BY DEF Nested, Working
<1>2. PICK g : stack = <<g>> /\ Frame = g /\ Tail(stack) = <<>> /\ IsFrame(g)
  <2>1. \A f : IsFrame(f) => (f.cmd \in Composites <=> Composite(f.cmd))
    BY FrameFacts
  <2> QED BY <1>1, <2>1, StackShapes DEF SessInv, IsPart
<1> DEFINE cmd == Head(g.todo)
           arg == IF g.cmd = "deploy" /\ cmd = "check" THEN "types" ELSE g.arg
           q == [g EXCEPT !.todo = Tail(g.todo)]
           below == <<q>>
<1>3. g.cmd \in Composites /\ g.todo \in Rests(g.cmd) /\ g.todo # <<>>
  BY <1>1, <1>2, FrameFacts DEF IsFrame
<1>4. /\ cmd \in {"stop", "start", "cleanup", "check", "install"}
      /\ Tail(g.todo) \in Rests(g.cmd)
  BY <1>1, <1>2, <1>3, RestFacts
<1>5. IsFrame(q) /\ q.cmd = g.cmd /\ q.arg = g.arg /\ q.todo = Tail(g.todo) /\ q.nodes = g.nodes
  BY <1>2, <1>4, FrameLeft
<1>6. Enter(cmd, arg, below)
  <2>1. below \o <<>> = below
    BY Tuples
  <2> QED BY <1>2, <2>1 DEF Nested
<1>7. cmd \in NodeCmds \cup PlainCmds /\ cmd \notin Composites /\ cmd # "deploy"
  BY <1>4 DEF NodeCmds, PlainCmds, Composites
<1>8. PhaseInv'
  <2>1. query' = query /\ phase' = phase
    BY <1>1 DEF eVars, sVars
  <2> QED BY <1>1, <2>1 DEF PhaseInv
<1>9. Raise \/ Entered(cmd, arg, below)
  <2>1. StoreInv
    BY DEF SessInv
  <2> HIDE DEF cmd, arg, below
  <2> QED BY <1>6, <1>7, <2>1, EnterMoves
<1>10. CASE Raise
  <2>1. UNCHANGED <<stack, ok, due, store, active, world>>
    BY <1>1, <1>10 DEF Raise, sVars
  <2> QED BY <1>8, <2>1, SameKeeps
<1>11. CASE Entered(cmd, arg, below)
  <2> HIDE DEF cmd, arg, q
  <2>1. PICK f : /\ stack' = <<f>> \o below /\ IsFrame(f) /\ FrameInv(f)
                 /\ f.cmd = cmd /\ f.arg = arg /\ ~(ok' /\ f.todo = <<>>)
    BY <1>7, <1>11 DEF Entered
  <2>2. stack' = <<f, q>> /\ due' = due \cup {cmd}
    BY <1>11, <2>1, Tuples DEF Entered
  <2>3. IsPart(f, q)
    <3>1. Head(g.todo) = f.cmd /\ Tail(g.todo) = q.todo /\ q.cmd = g.cmd /\ g.todo \in Rests(q.cmd)
      BY <1>3, <1>5, <2>1 DEF cmd
    <3>2. f.cmd # "check" => f.arg = q.arg
      BY <1>5, <2>1 DEF arg
    <3> QED BY <1>3, <1>7, <2>1, <3>1, <3>2 DEF IsPart
  <2>4. StackInv'
    BY <1>5, <2>1, <2>2, <2>3 DEF StackInv, StackOf
  <2>5. DueInv'
    <3>1. due \subseteq {g.cmd}
      BY <1>2, Tuples DEF SessInv, DueInv
    <3>2. due' \subseteq {f.cmd, q.cmd}
      BY <1>5, <2>1, <2>2, <3>1
    <3> QED BY <2>2, <3>2 DEF DueInv
  <2>6. FrameInv(f)'
    BY <1>1, <2>1 DEF FrameInv, Kept, DroppedFrom, DroppedBy, sVars
  <2>7. ASSUME q.arg = "all" PROVE DeployInv(q, ok /\ f.todo = <<>>)'
    <3>1. DeployInv(g, ok)
      BY <1>2, <1>5, <2>7 DEF SessInv, PartsInv
    <3>2. /\ Recorded' <=> Recorded
          /\ Stopped' <=> Stopped
          /\ Agreed' <=> Agreed
      BY <1>1 DEF Recorded, Stopped, Agreed, Kept, DroppedFrom, DroppedBy, world, sVars
    <3>3. Stopped => Agreed
      BY DEF Stopped, Agreed
    <3>4. CASE g.cmd = "deploy"
      <4>1. CASE g.todo = <<"stop", "start">>
        <5>1. q.todo = <<"start">> /\ Recorded
          BY <1>1, <1>5, <3>1, <3>4, <4>1 DEF DeployInv
        <5>2. q.todo # <<>> /\ q.todo # <<"stop", "start">>
          BY <5>1
        <5>3. ~((ok /\ f.todo = <<>>)')
          BY <2>1
        <5> QED BY <1>5, <3>2, <3>4, <5>1, <5>2, <5>3 DEF DeployInv
      <4>2. CASE g.todo = <<"start">>
        <5>1. q.todo = <<>> /\ Recorded /\ Stopped
          BY <1>1, <1>5, <3>1, <3>4, <4>2 DEF DeployInv
        <5> QED BY <1>5, <2>1, <3>2, <3>3, <3>4, <5>1 DEF DeployInv
      <4>3. CASE g.todo = <<"install", "stop", "start">>
        <5>1. q.todo = <<"stop", "start">>
          BY <1>5, <4>3
        <5>2. q.todo # <<"start">> /\ q.todo # <<>>
          BY <5>1
        <5>3. ~((ok /\ f.todo = <<>>)')
          BY <2>1
        <5> QED BY <1>5, <3>4, <5>2, <5>3 DEF DeployInv
      <4>4. CASE g.todo = <<"check", "install", "stop", "start">>
        <5>1. q.todo = <<"install", "stop", "start">>
          BY <1>5, <4>4
        <5>2. q.todo # <<"start">> /\ q.todo # <<>> /\ q.todo # <<"stop", "start">>
          BY <5>1
        <5> QED BY <1>5, <3>4, <5>2 DEF DeployInv
      <4>5. CASE g.todo = <<"reload", "check", "install", "stop", "start">>
        BY <1>1, <1>2, <4>5
      <4> QED BY <1>3, <3>4, <4>1, <4>2, <4>3, <4>4, <4>5 DEF Rests
    <3>5. CASE g.cmd = "clean restart"
      <4>1. CASE g.todo = <<"stop", "cleanup", "check", "install", "start">>
        <5>1. q.todo = <<"cleanup", "check", "install", "start">>
          BY <1>5, <4>1
        <5>2. q.todo # <<>> /\ q.todo \notin {<<"check", "install", "start">>, <<"install", "start">>, <<"start">>}
          BY <5>1
        <5> QED BY <1>5, <2>1, <3>5, <5>2 DEF DeployInv
      <4>2. CASE g.todo = <<"cleanup", "check", "install", "start">>
        <5>1. q.todo = <<"check", "install", "start">> /\ Stopped
          <6>1. q.todo = <<"check", "install", "start">>
            BY <1>5, <4>2
          <6>2. Stopped
            BY <1>1, <3>1, <3>5, <4>2 DEF DeployInv
          <6> QED BY <6>1, <6>2
        <5>2. q.todo # <<>> /\ q.todo # <<"start">>
          BY <5>1
        <5> QED BY <1>5, <2>1, <3>2, <3>5, <5>1, <5>2 DEF DeployInv
      <4>3. CASE g.todo = <<"check", "install", "start">>
        <5>1. q.todo = <<"install", "start">> /\ Stopped
          <6>1. q.todo = <<"install", "start">>
            BY <1>5, <4>3
          <6>2. Stopped
            BY <1>1, <3>1, <3>5, <4>3 DEF DeployInv
          <6> QED BY <6>1, <6>2
        <5>2. q.todo # <<>> /\ q.todo # <<"start">>
          BY <5>1
        <5> QED BY <1>5, <2>1, <3>2, <3>5, <5>1, <5>2 DEF DeployInv
      <4>4. CASE g.todo = <<"install", "start">>
        <5>1. q.todo = <<"start">> /\ Stopped
          <6>1. q.todo = <<"start">>
            BY <1>5, <4>4
          <6>2. Stopped
            BY <1>1, <3>1, <3>5, <4>4 DEF DeployInv
          <6> QED BY <6>1, <6>2
        <5>2. q.todo # <<>>
          BY <5>1
        <5> QED BY <1>5, <2>1, <3>2, <3>5, <5>1, <5>2 DEF DeployInv
      <4>5. CASE g.todo = <<"start">>
        <5>1. q.todo = <<>> /\ Recorded /\ Stopped
          <6>1. q.todo = <<>>
            BY <1>5, <4>5
          <6>2. Recorded /\ Stopped
            BY <1>1, <3>1, <3>5, <4>5 DEF DeployInv
          <6> QED BY <6>1, <6>2
        <5> QED BY <1>5, <2>1, <3>2, <3>3, <3>5, <5>1 DEF DeployInv
      <4> QED BY <1>3, <3>5, <4>1, <4>2, <4>3, <4>4, <4>5 DEF Rests
    <3>6. CASE g.cmd \notin {"deploy", "clean restart"}
      BY <1>5, <3>6 DEF DeployInv
    <3> QED BY <3>4, <3>5, <3>6
  <2>8. PartsInv'
    <3>1. \A h : stack' # <<h>>
      BY <2>2, Tuples
    <3>2. \A h, k : stack' = <<h, k>> => h = f /\ k = q
      BY <2>2, Tuples
    <3>3. ASSUME NEW h, NEW k, stack' = <<h, k>>
          PROVE  FrameInv(h)' /\ (k.arg = "all" => DeployInv(k, ok /\ h.todo = <<>>)')
      BY <2>6, <2>7, <3>2, <3>3
    <3> QED BY <3>1, <3>3 DEF PartsInv
  <2> QED BY <1>8, <2>4, <2>5, <2>8
<1> QED BY <1>9, <1>10, <1>11

LEMMA CompositeFrame ==
  ASSUME NEW g, g.cmd \in Composites
  PROVE  FrameInv(g)
BY DEF FrameInv, Composites

LEMMA GiveUpKeeps ==
  ASSUME SessInv, GiveUp
  PROVE  StackInv' /\ PhaseInv' /\ DueInv' /\ PartsInv'
<1>1. /\ stack # <<>> /\ phase = "valid" /\ ~raised /\ query.at = "none" /\ ~ok /\ Composite(Frame.cmd)
      /\ stack' = Tail(stack) /\ UNCHANGED <<ok, raised, due, sVars, eVars>>
  BY DEF GiveUp, Working, Pop
<1>2. PICK g : stack = <<g>> /\ Frame = g /\ Tail(stack) = <<>> /\ IsFrame(g)
  <2>1. \A f : IsFrame(f) => (f.cmd \in Composites <=> Composite(f.cmd))
    BY FrameFacts
  <2> QED BY <1>1, <2>1, StackShapes DEF SessInv, IsPart
<1>3. g.cmd \in Composites
  BY <1>1, <1>2, FrameFacts
<1>4. stack' = <<>>
  BY <1>1, <1>2
<1>5. StackInv' /\ PartsInv'
  BY <1>4, Tuples DEF StackInv, StackOf, PartsInv
<1>6. PhaseInv'
  BY <1>1, <1>4 DEF PhaseInv, sVars, eVars
<1>7. DueInv'
  <2>1. due \subseteq {g.cmd}
    BY <1>2, Tuples DEF SessInv, DueInv
  <2> QED BY <1>1, <1>3, <1>4, <2>1 DEF DueInv
<1> QED BY <1>5, <1>6, <1>7

LEMMA PostKeeps ==
  ASSUME SessInv, Post
  PROVE  StackInv' /\ PhaseInv' /\ DueInv' /\ PartsInv'
<1>1. /\ stack # <<>> /\ phase = "valid" /\ ~raised /\ query.at = "none" /\ Frame.todo = <<>>
      /\ stack' = Tail(stack) /\ due' = due \ {Frame.cmd}
      /\ UNCHANGED <<ok, raised, sVars, active, world, eVars>>
  BY DEF Post, Working, Pop
<1>2. PhaseInv'
  BY <1>1 DEF PhaseInv, sVars, eVars
<1>3. CASE \E f : stack = <<f>> /\ Frame = f /\ Tail(stack) = <<>>
  <2>1. PICK f : stack = <<f>> /\ Frame = f /\ Tail(stack) = <<>>
    BY <1>3
  <2>2. due \subseteq {f.cmd}
    BY <2>1, Tuples DEF SessInv, DueInv
  <2>3. stack' = <<>> /\ due' = {}
    BY <1>1, <2>1, <2>2
  <2>4. StackInv' /\ DueInv' /\ PartsInv'
    BY <2>3, Tuples DEF StackInv, StackOf, DueInv, PartsInv
  <2> QED BY <1>2, <2>4
<1>4. CASE \E f, g : /\ stack = <<f, g>> /\ Frame = f /\ Tail(stack) = <<g>>
                     /\ IsFrame(f) /\ IsFrame(g) /\ IsPart(f, g)
  <2>1. PICK f, g : /\ stack = <<f, g>> /\ Frame = f /\ Tail(stack) = <<g>>
                    /\ IsFrame(f) /\ IsFrame(g) /\ IsPart(f, g)
    BY <1>4
  <2>2. stack' = <<g>>
    BY <1>1, <2>1
  <2>3. due \subseteq {f.cmd, g.cmd}
    BY <2>1, Tuples DEF SessInv, DueInv
  <2>4. due' \subseteq {g.cmd}
    BY <1>1, <2>1, <2>3
  <2>5. StackInv' /\ DueInv'
    BY <2>1, <2>2, <2>4 DEF StackInv, StackOf, DueInv
  <2>6. FrameInv(g)'
    BY <2>1 DEF FrameInv, Composites, IsPart
  <2>7. ASSUME g.arg = "all" PROVE DeployInv(g, ok)'
    <3>1. DeployInv(g, ok /\ f.todo = <<>>)
      BY <2>1, <2>7 DEF SessInv, PartsInv
    <3>2. ok' <=> (ok /\ f.todo = <<>>)
      BY <1>1, <2>1
    <3>3. /\ Recorded' <=> Recorded
          /\ Stopped' <=> Stopped
          /\ Agreed' <=> Agreed
      BY <1>1 DEF Recorded, Stopped, Agreed, Kept, DroppedFrom, DroppedBy, world, sVars
    <3> QED BY <3>1, <3>2, <3>3 DEF DeployInv
  <2>8. PartsInv'
    <3>1. \A h, k : stack' # <<h, k>>
      BY <2>2, Tuples
    <3>2. \A h : stack' = <<h>> => h = g
      BY <2>2, Tuples
    <3>3. ASSUME NEW h, stack' = <<h>>
          PROVE  FrameInv(h)' /\ (h.arg = "all" => DeployInv(h, ok)')
      BY <2>6, <2>7, <3>2, <3>3
    <3> QED BY <3>1, <3>3 DEF PartsInv
  <2> QED BY <1>2, <2>5, <2>8
<1> QED BY <1>1, <1>3, <1>4, StackShapes DEF SessInv

LEMMA ReloadKeeps ==
  ASSUME SessInv, Reload
  PROVE  StackInv' /\ PhaseInv' /\ DueInv' /\ PartsInv'
<1>1. /\ stack # <<>> /\ phase = "valid" /\ ~raised /\ query.at = "none"
      /\ Frame.todo # <<>> /\ Head(Frame.todo) = "reload"
      /\ stack' = <<[Frame EXCEPT !.todo = Tail(@)]>> \o Tail(stack)
      /\ UNCHANGED <<ok, raised, due, active, world, eVars>>
  BY DEF Reload, Working
<1>2. PICK g : stack = <<g>> /\ Frame = g /\ Tail(stack) = <<>> /\ IsFrame(g) /\ g.cmd = "deploy"
  <2>1. \A f : IsFrame(f) /\ f.todo # <<>> /\ Head(f.todo) = "reload" => f.cmd = "deploy"
    BY FrameFacts
  <2> QED BY <1>1, <2>1, StackShapes DEF SessInv, IsPart, Composites
<1> DEFINE q == [g EXCEPT !.todo = Tail(g.todo)]
<1>3. Tail(g.todo) \in Rests(g.cmd) /\ Tail(g.todo) = <<"check", "install", "stop", "start">>
  BY <1>1, <1>2, RestFacts DEF IsFrame, Composites
<1>4. IsFrame(q) /\ q.cmd = g.cmd /\ q.arg = g.arg /\ q.todo = Tail(g.todo) /\ q.nodes = g.nodes
  BY <1>2, <1>3, FrameLeft
<1>5. stack' = <<q>>
  BY <1>1, <1>2, Tuples
<1> HIDE DEF q
<1>6. StackInv'
  BY <1>4, <1>5 DEF StackInv, StackOf
<1>7. DueInv'
  <2>1. due \subseteq {g.cmd}
    BY <1>2, Tuples DEF SessInv, DueInv
  <2> QED BY <1>1, <1>4, <1>5, <2>1 DEF DueInv
<1>8. PhaseInv'
  <2>1. Len(stack') = 1 /\ Frame' = q /\ stack' # <<>>
    BY <1>5, Tuples DEF Frame
  <2>2. query' = query /\ (phase' = phase \/ phase' = "reading")
    BY DEF Reload, BeginReading, sVars, eVars
  <2> QED BY <1>1, <1>2, <1>3, <1>4, <2>1, <2>2 DEF PhaseInv
<1>9. PartsInv'
  <2>1. FrameInv(q)'
    BY <1>2, <1>4 DEF FrameInv, Composites
  <2>2. q.todo # <<"stop", "start">> /\ q.todo # <<"start">> /\ q.todo # <<>>
    BY <1>3, <1>4
  <2>3. DeployInv(q, ok)'
    BY <1>2, <1>4, <2>2 DEF DeployInv
  <2>4. \A h, k : stack' # <<h, k>>
    BY <1>5, Tuples
  <2>5. \A h : stack' = <<h>> => h = q
    BY <1>5, Tuples
  <2>6. ASSUME NEW h, stack' = <<h>>
        PROVE  FrameInv(h)' /\ (h.arg = "all" => DeployInv(h, ok)')
    BY <2>1, <2>3, <2>5, <2>6
  <2> QED BY <2>4, <2>6 DEF PartsInv
<1> QED BY <1>6, <1>7, <1>8, <1>9

(* Which part it is tells what is left. *)
LEMMA PartFacts ==
  ASSUME NEW f, NEW g, IsPart(f, g)
  PROVE  /\ f.cmd \in {"stop", "start", "cleanup", "check", "install", "reload"}
         /\ f.cmd = "start" => g.todo = <<>>
         /\ f.cmd = "stop" /\ g.cmd = "deploy" => g.todo = <<"start">>
         /\ f.cmd = "stop" /\ g.cmd = "clean restart" => g.todo = <<"cleanup", "check", "install", "start">>
         /\ f.cmd = "cleanup" => g.cmd = "clean restart" /\ g.todo = <<"check", "install", "start">>
         /\ f.cmd = "check" /\ g.cmd = "deploy" => g.todo = <<"install", "stop", "start">>
         /\ f.cmd = "check" /\ g.cmd = "clean restart" => g.todo = <<"install", "start">>
         /\ f.cmd = "install" /\ g.cmd = "deploy" => g.todo = <<"stop", "start">>
         /\ f.cmd = "install" /\ g.cmd = "clean restart" => g.todo = <<"start">>
         /\ f.cmd = "reload" => g.cmd = "deploy" /\ g.todo = <<"check", "install", "stop", "start">>
<1>1. PICK r \in Rests(g.cmd) : r # <<>> /\ Head(r) = f.cmd /\ Tail(r) = g.todo
  BY DEF IsPart
<1>2. g.cmd \in Composites
  BY DEF IsPart
<1>3. f.cmd \in {"stop", "start", "cleanup", "check", "install", "reload"}
  BY <1>1, <1>2, RestFacts
<1>4. CASE g.cmd = "deploy"
  <2>1. \/ r = <<"reload", "check", "install", "stop", "start">>
        \/ r = <<"check", "install", "stop", "start">>
        \/ r = <<"install", "stop", "start">>
        \/ r = <<"stop", "start">>
        \/ r = <<"start">>
    BY <1>1, <1>4 DEF Rests
  <2>2. \/ f.cmd = "reload" /\ g.todo = <<"check", "install", "stop", "start">>
        \/ f.cmd = "check" /\ g.todo = <<"install", "stop", "start">>
        \/ f.cmd = "install" /\ g.todo = <<"stop", "start">>
        \/ f.cmd = "stop" /\ g.todo = <<"start">>
        \/ f.cmd = "start" /\ g.todo = <<>>
    <3>1. ASSUME r = <<"reload", "check", "install", "stop", "start">> PROVE Head(r) = "reload" /\ Tail(r) = <<"check", "install", "stop", "start">>
      BY <3>1
    <3>2. ASSUME r = <<"check", "install", "stop", "start">> PROVE Head(r) = "check" /\ Tail(r) = <<"install", "stop", "start">>
      BY <3>2
    <3>3. ASSUME r = <<"install", "stop", "start">> PROVE Head(r) = "install" /\ Tail(r) = <<"stop", "start">>
      BY <3>3
    <3>4. ASSUME r = <<"stop", "start">> PROVE Head(r) = "stop" /\ Tail(r) = <<"start">>
      BY <3>4
    <3>5. ASSUME r = <<"start">> PROVE Head(r) = "start" /\ Tail(r) = <<>>
      BY <3>5
    <3> QED BY <1>1, <2>1, <3>1, <3>2, <3>3, <3>4, <3>5
  <2> QED BY <1>3, <1>4, <2>2
<1>5. CASE g.cmd = "clean restart"
  <2>1. \/ r = <<"stop", "cleanup", "check", "install", "start">>
        \/ r = <<"cleanup", "check", "install", "start">>
        \/ r = <<"check", "install", "start">>
        \/ r = <<"install", "start">>
        \/ r = <<"start">>
    BY <1>1, <1>5 DEF Rests
  <2>2. \/ f.cmd = "stop" /\ g.todo = <<"cleanup", "check", "install", "start">>
        \/ f.cmd = "cleanup" /\ g.todo = <<"check", "install", "start">>
        \/ f.cmd = "check" /\ g.todo = <<"install", "start">>
        \/ f.cmd = "install" /\ g.todo = <<"start">>
        \/ f.cmd = "start" /\ g.todo = <<>>
    <3>1. ASSUME r = <<"stop", "cleanup", "check", "install", "start">> PROVE Head(r) = "stop" /\ Tail(r) = <<"cleanup", "check", "install", "start">>
      BY <3>1
    <3>2. ASSUME r = <<"cleanup", "check", "install", "start">> PROVE Head(r) = "cleanup" /\ Tail(r) = <<"check", "install", "start">>
      BY <3>2
    <3>3. ASSUME r = <<"check", "install", "start">> PROVE Head(r) = "check" /\ Tail(r) = <<"install", "start">>
      BY <3>3
    <3>4. ASSUME r = <<"install", "start">> PROVE Head(r) = "install" /\ Tail(r) = <<"start">>
      BY <3>4
    <3>5. ASSUME r = <<"start">> PROVE Head(r) = "start" /\ Tail(r) = <<>>
      BY <3>5
    <3> QED BY <1>1, <2>1, <3>1, <3>2, <3>3, <3>4, <3>5
  <2> QED BY <1>3, <1>5, <2>2
<1>6. CASE g.cmd = "restart"
  <2>1. r = <<"stop", "start">> \/ r = <<"start">>
    BY <1>1, <1>6 DEF Rests
  <2>2. f.cmd = "stop" \/ (f.cmd = "start" /\ g.todo = <<>>)
    <3>1. ASSUME r = <<"stop", "start">> PROVE Head(r) = "stop" /\ Tail(r) = <<"start">>
      BY <3>1
    <3>2. ASSUME r = <<"start">> PROVE Head(r) = "start" /\ Tail(r) = <<>>
      BY <3>2
    <3> QED BY <1>1, <2>1, <3>1, <3>2
  <2> QED BY <1>3, <1>6, <2>2
<1> QED BY <1>2, <1>4, <1>5, <1>6 DEF Composites

(* A command that has done what it does. *)
LEMMA DoneKeeps ==
  ASSUME SessInv, stack # <<>>, Frame.todo = <<"do">>, UNCHANGED <<due, store, active>>,
         stack' = <<[Frame EXCEPT !.todo = <<>>]>> \o Tail(stack),
         \A g : IsPart(Frame, g) /\ g.arg = "all" /\ DeployInv(g, FALSE) /\ FrameInv(Frame)
                  => DeployInv(g, ok)'
  PROVE  StackInv' /\ DueInv' /\ PartsInv'
<1>0. PICK f : Frame = f
  OBVIOUS
<1> DEFINE q == [f EXCEPT !.todo = <<>>]
<1>1. IsFrame(f) /\ FrameInv(f) /\ f.cmd \notin Composites
  <2>1. IsFrame(f)
    BY <1>0, StackShapes DEF SessInv
  <2>2. FrameInv(f)
    BY <1>0, StackShapes DEF SessInv, PartsInv
  <2> QED BY <1>0, <2>1, <2>2, FrameFacts
<1>2. IsFrame(q) /\ q.cmd = f.cmd /\ q.arg = f.arg /\ q.todo = <<>> /\ q.nodes = f.nodes
  <2>1. <<>> \in Rests(f.cmd)
    BY DEF Rests
  <2> QED BY <1>1, <2>1, FrameLeft
<1> HIDE DEF q
<1>3. FrameInv(q)'
  BY <1>1, <1>2 DEF FrameInv, Kept, DroppedFrom, DroppedBy
<1>4. CASE stack = <<f>> /\ Tail(stack) = <<>>
  <2>1. stack' = <<q>>
    BY <1>0, <1>4, Tuples DEF q
  <2>2. due \subseteq {f.cmd}
    BY <1>4, Tuples DEF SessInv, DueInv
  <2>3. StackInv' /\ DueInv'
    BY <1>2, <2>1, <2>2 DEF StackInv, StackOf, DueInv
  <2>4. DeployInv(q, ok)'
    BY <1>1, <1>2 DEF DeployInv, Composites
  <2>5. PartsInv'
    <3>1. \A h, k : stack' # <<h, k>>
      BY <2>1, Tuples
    <3>2. \A h : stack' = <<h>> => h = q
      BY <2>1, Tuples
    <3>3. ASSUME NEW h, stack' = <<h>>
          PROVE  FrameInv(h)' /\ (h.arg = "all" => DeployInv(h, ok)')
      BY <1>3, <2>4, <3>2, <3>3
    <3> QED BY <3>1, <3>3 DEF PartsInv
  <2> QED BY <2>3, <2>5
<1>5. CASE \E g : stack = <<f, g>> /\ Tail(stack) = <<g>> /\ IsFrame(g) /\ IsPart(f, g)
  <2>1. PICK g : stack = <<f, g>> /\ Tail(stack) = <<g>> /\ IsFrame(g) /\ IsPart(f, g)
    BY <1>5
  <2>2. stack' = <<q, g>>
    BY <1>0, <2>1, Tuples DEF q
  <2>3. due \subseteq {f.cmd, g.cmd}
    BY <2>1, Tuples DEF SessInv, DueInv
  <2>4. IsPart(q, g)
    BY <1>2, <2>1 DEF IsPart
  <2>5. due' \subseteq {q.cmd, g.cmd}
    BY <1>2, <2>3
  <2>6. StackInv' /\ DueInv'
    BY <1>2, <2>1, <2>2, <2>4, <2>5 DEF StackInv, StackOf, DueInv
  <2>7. ASSUME g.arg = "all" PROVE DeployInv(g, ok)'
    <3>1. DeployInv(g, ok /\ f.todo = <<>>)
      BY <2>1, <2>7 DEF SessInv, PartsInv
    <3>2. (ok /\ f.todo = <<>>) = FALSE
      BY <1>0
    <3>3. DeployInv(g, FALSE)
      BY <3>1, <3>2, Zenon
    <3> QED BY <1>0, <1>1, <2>1, <2>7, <3>3
  <2>8. PartsInv'
    <3>1. \A h : stack' # <<h>>
      BY <2>2, Tuples
    <3>2. \A h, k : stack' = <<h, k>> => h = q /\ k = g
      BY <2>2, Tuples
    <3>3. g.arg = "all" => DeployInv(g, ok /\ q.todo = <<>>)'
      BY <1>2, <2>7 DEF DeployInv
    <3>4. ASSUME NEW h, NEW k, stack' = <<h, k>>
          PROVE  FrameInv(h)' /\ (k.arg = "all" => DeployInv(k, ok /\ h.todo = <<>>)')
      BY <1>3, <3>2, <3>3, <3>4
    <3> QED BY <3>1, <3>4 DEF PartsInv
  <2> QED BY <2>6, <2>8
<1> QED BY <1>0, <1>4, <1>5, StackShapes DEF SessInv

LEMMA IdsAreNodes ==
  ASSUME StoreInv
  PROVE  Ids(store) \subseteq Nodes
BY DEF StoreInv, Sound, Ids

LEMMA DoFacts ==
  ASSUME SessInv, Do
  PROVE  /\ stack # <<>> /\ Frame.todo = <<"do">> /\ UNCHANGED <<due, store, active, raised>>
         /\ stack' = <<[Frame EXCEPT !.todo = <<>>]>> \o Tail(stack)
         /\ PhaseInv'
<1>1. /\ stack # <<>> /\ ~raised /\ phase = "valid" /\ query.at = "none" /\ Frame.todo = <<"do">>
      /\ stack' = <<[Frame EXCEPT !.todo = <<>>]>> \o Tail(stack)
      /\ UNCHANGED <<raised, due, sVars, active, eVars>>
  <2>1. CASE Install
    BY <2>1 DEF Do, Install, Does, Ends, Working
  <2>2. CASE Check
    BY <2>2 DEF Do, Check, Does, Ends, Working
  <2>3. CASE Stop
    BY <2>3 DEF Do, Stop, Does, Ends, Working
  <2>4. CASE Start
    BY <2>4 DEF Do, Start, Does, Ends, Working
  <2>5. CASE Other
    BY <2>5 DEF Do, Other, Does, Ends, Working
  <2> QED BY <2>1, <2>2, <2>3, <2>4, <2>5 DEF Do
<1>2. PhaseInv'
  <2>1. query' = query /\ phase' = phase
    BY <1>1 DEF sVars, eVars
  <2> QED BY <1>1, <2>1 DEF PhaseInv
<1> QED BY <1>1, <1>2 DEF sVars

LEMMA InstallPart ==
  ASSUME SessInv, Do, Install, NEW g, IsPart(Frame, g), DeployInv(g, FALSE)
  PROVE  DeployInv(g, ok)'
<1>1. Frame.cmd = "install" /\ UNCHANGED <<store, active, listen>>
  BY DoFacts DEF Install, Does
<1>2. ok' => Recorded'
  <2>1. PICK done \in 0 .. 3 :
          /\ ports' = IF done > 0 THEN Layout @@ ports ELSE ports
          /\ layout' = IF done > 1 THEN [n \in Nodes |-> IF n \in Ids(store) THEN (Layout @@ ports)[n] ELSE 0]
                       ELSE layout
          /\ Ends(done = 3)
    BY DEF Install
  <2>2. ok' <=> done = 3
    BY <2>1 DEF Ends
  <2>3. ASSUME ok', NEW n \in Ids(store) PROVE layout'[n] = ports'[n]
    <3>1. n \in Nodes
      BY IdsAreNodes DEF SessInv
    <3>2. done > 0 /\ done > 1
      BY <2>2, <2>3
    <3> QED BY <2>1, <2>3, <3>1, <3>2
  <2>4. Ids(store)' = Ids(store)
    BY <1>1 DEF Ids
  <2> QED BY <2>3, <2>4 DEF Recorded
<1>3. Stopped' <=> Stopped
  BY <1>1 DEF Stopped, Kept, DroppedFrom, DroppedBy
<1>4. CASE g.cmd = "deploy"
  <2>1. g.todo = <<"stop", "start">>
    BY <1>1, <1>4, PartFacts
  <2>2. g.todo # <<"start">> /\ g.todo # <<>>
    BY <2>1
  <2> QED BY <1>2, <1>4, <2>2 DEF DeployInv
<1>5. CASE g.cmd = "clean restart"
  <2>1. g.todo = <<"start">>
    BY <1>1, <1>5, PartFacts
  <2>2. g.todo # <<>> /\ g.todo # <<"cleanup", "check", "install", "start">>
    BY <2>1
  <2>3. Stopped
    BY <1>5, <2>1 DEF DeployInv
  <2> QED BY <1>2, <1>3, <1>5, <2>2, <2>3 DEF DeployInv
<1> QED BY <1>4, <1>5 DEF DeployInv

LEMMA CheckPart ==
  ASSUME SessInv, Do, Check, NEW g, IsPart(Frame, g), DeployInv(g, FALSE)
  PROVE  DeployInv(g, ok)'
<1>1. Frame.cmd = "check" /\ UNCHANGED <<store, active, listen>>
  BY DoFacts DEF Check, Does
<1>2. Stopped' <=> Stopped
  BY <1>1 DEF Stopped, Kept, DroppedFrom, DroppedBy
<1>3. CASE g.cmd = "deploy"
  <2>1. g.todo = <<"install", "stop", "start">>
    BY <1>1, <1>3, PartFacts
  <2>2. g.todo # <<"start">> /\ g.todo # <<>> /\ g.todo # <<"stop", "start">>
    BY <2>1
  <2> QED BY <1>3, <2>2 DEF DeployInv
<1>4. CASE g.cmd = "clean restart"
  <2>1. g.todo = <<"install", "start">>
    BY <1>1, <1>4, PartFacts
  <2>2. g.todo # <<>> /\ g.todo # <<"start">> /\ g.todo # <<"cleanup", "check", "install", "start">>
    BY <2>1
  <2>3. Stopped
    BY <1>4, <2>1 DEF DeployInv
  <2> QED BY <1>2, <1>4, <2>2, <2>3 DEF DeployInv
<1> QED BY <1>3, <1>4 DEF DeployInv

LEMMA StopPart ==
  ASSUME SessInv, Do, Stop, NEW g, IsPart(Frame, g), DeployInv(g, FALSE), g.arg = "all", FrameInv(Frame)
  PROVE  DeployInv(g, ok)'
<1>1. Frame.cmd = "stop" /\ UNCHANGED <<store, active, layout, ports>>
  BY DoFacts DEF Stop, Does
<1>2. Kept \subseteq Frame.nodes
  <2>1. Frame.arg = "all"
    BY <1>1 DEF IsPart
  <2> QED BY <1>1, <2>1 DEF FrameInv
<1>3. ok' => Stopped'
  <2>1. PICK stays \in SUBSET {n \in Frame.nodes : listen[n] # 0} :
          /\ listen' = [n \in Nodes |-> IF n \in Frame.nodes \ stays THEN 0 ELSE listen[n]]
          /\ Ends(stays = {})
    BY DEF Stop
  <2>2. ok' <=> stays = {}
    BY <2>1 DEF Ends
  <2>3. Kept' = Kept /\ Kept \subseteq Nodes
    BY <1>1, IdsAreNodes DEF SessInv, Kept, DroppedFrom, DroppedBy
  <2>4. ASSUME ok', NEW n \in Kept PROVE listen'[n] = 0
    BY <1>2, <2>1, <2>2, <2>3, <2>4
  <2> QED BY <2>3, <2>4 DEF Stopped
<1>4. Recorded' <=> Recorded
  BY <1>1 DEF Recorded
<1>5. CASE g.cmd = "deploy"
  <2>1. g.todo = <<"start">>
    BY <1>1, <1>5, PartFacts
  <2>2. g.todo # <<>> /\ g.todo # <<"stop", "start">>
    BY <2>1
  <2>3. Recorded
    BY <1>5, <2>1 DEF DeployInv
  <2> QED BY <1>3, <1>4, <1>5, <2>2, <2>3 DEF DeployInv
<1>6. CASE g.cmd = "clean restart"
  <2>1. g.todo = <<"cleanup", "check", "install", "start">>
    BY <1>1, <1>6, PartFacts
  <2>2. /\ g.todo # <<>> /\ g.todo # <<"start">>
        /\ g.todo \notin {<<"check", "install", "start">>, <<"install", "start">>, <<"start">>}
    BY <2>1
  <2> QED BY <1>3, <1>6, <2>2 DEF DeployInv
<1> QED BY <1>5, <1>6 DEF DeployInv

LEMMA StartPart ==
  ASSUME SessInv, Do, Start, NEW g, IsPart(Frame, g), DeployInv(g, FALSE)
  PROVE  DeployInv(g, ok)'
<1>1. Frame.cmd = "start" /\ UNCHANGED <<store, active, layout, ports>>
  BY DoFacts DEF Start, Does
<1>2. Recorded' <=> Recorded
  BY <1>1 DEF Recorded
<1>3. ASSUME Recorded, Agreed PROVE Agreed'
  <2>1. PICK broken : listen' = [n \in Nodes |->
          IF n \in {k \in Frame.nodes : listen[k] = 0} \ broken /\ Free(n) THEN layout[n] ELSE listen[n]]
    BY DEF Start
  <2>2. Kept' = Kept /\ Kept \subseteq Nodes /\ Kept \subseteq Ids(store)
    BY <1>1, IdsAreNodes DEF SessInv, Kept, DroppedFrom, DroppedBy
  <2>3. ASSUME NEW n \in Kept PROVE listen'[n] \in {0, ports'[n]}
    <3>1. listen'[n] = layout[n] \/ listen'[n] = listen[n]
      BY <2>1, <2>2
    <3>2. layout[n] = ports[n] /\ listen[n] \in {0, ports[n]}
      BY <1>3, <2>2 DEF Recorded, Agreed
    <3> QED BY <1>1, <3>1, <3>2
  <2> QED BY <2>2, <2>3 DEF Agreed
<1>4. g.todo = <<>>
  BY <1>1, PartFacts
<1>5. <<>> # <<"stop", "start">> /\ <<>> # <<"start">> /\ <<>> # <<"cleanup", "check", "install", "start">>
      /\ <<>> \notin {<<"check", "install", "start">>, <<"install", "start">>, <<"start">>}
  OBVIOUS
<1>6. g.cmd \in {"deploy", "clean restart"} => Recorded /\ Agreed
  BY <1>4 DEF DeployInv
<1> QED BY <1>2, <1>3, <1>4, <1>5, <1>6 DEF DeployInv

LEMMA OtherPart ==
  ASSUME SessInv, Do, Other, NEW g, IsPart(Frame, g), DeployInv(g, FALSE)
  PROVE  DeployInv(g, ok)'
<1>1. Frame.cmd \in {"cleanup"} \cup Reports \cup PlainReports /\ UNCHANGED <<store, active, world>>
  BY DoFacts DEF Other, Does
<1>2. Frame.cmd = "cleanup"
  BY <1>1, PartFacts DEF Reports, PlainReports
<1>3. g.cmd = "clean restart" /\ g.todo = <<"check", "install", "start">>
  BY <1>2, PartFacts
<1>4. g.todo # <<>> /\ g.todo # <<"start">> /\ g.todo # <<"cleanup", "check", "install", "start">>
  <2>1. Len(g.todo) = 3
    <3>1. Len(<<"check", "install", "start">>) = 3
      OBVIOUS
    <3> QED BY <1>3, <3>1
  <2>2. Len(<<>>) = 0 /\ Len(<<"start">>) = 1 /\ Len(<<"cleanup", "check", "install", "start">>) = 4
    OBVIOUS
  <2> QED BY <2>1, <2>2, SMTT(20)
<1>5. Stopped
  BY <1>3 DEF DeployInv
<1>6. Stopped' <=> Stopped
  BY <1>1 DEF Stopped, Kept, DroppedFrom, DroppedBy, world
<1> QED BY <1>3, <1>4, <1>5, <1>6 DEF DeployInv

LEMMA DoKeeps ==
  ASSUME SessInv, Do
  PROVE  StackInv' /\ PhaseInv' /\ DueInv' /\ PartsInv'
<1>1. ASSUME NEW g, IsPart(Frame, g), g.arg = "all", DeployInv(g, FALSE), FrameInv(Frame)
      PROVE  DeployInv(g, ok)'
  BY <1>1, InstallPart, CheckPart, StopPart, StartPart, OtherPart DEF Do
<1> QED BY <1>1, DoFacts, DoneKeeps

LEMMA QueryKeeps ==
  ASSUME SessInv, BeginQuery \/ Ask \/ EndQuery \/ NodeReplies
  PROVE  StackInv' /\ PhaseInv' /\ DueInv' /\ PartsInv'
<1>1. CASE BeginQuery \/ Ask \/ NodeReplies
  <2>1. UNCHANGED <<sVars, active, control, world>>
    BY <1>1 DEF BeginQuery, Ask, NodeReplies
  <2>2. StackInv' /\ DueInv' /\ PartsInv'
    BY <2>1, SameKeeps DEF sVars, control
  <2>3. stack # <<>> /\ phase = "valid" /\ ~raised /\ Frame.todo = <<"do">> /\ Frame.cmd \in Queries
    <3>1. CASE BeginQuery
      BY <3>1 DEF BeginQuery, Does, Working
    <3>2. CASE Ask \/ NodeReplies
      <4>1. query.at # "none"
        BY <3>2 DEF Ask, NodeReplies, Reply, Client, Unavailable, PeerWith, AllPeered, Wait, Connect,
                    Send, Receive, TimeOut, At
      <4> QED BY <4>1 DEF SessInv, PhaseInv
    <3> QED BY <1>1, <3>1, <3>2
  <2>4. PhaseInv'
    BY <2>1, <2>3 DEF PhaseInv, sVars, control, Frame
  <2> QED BY <2>2, <2>4
<1>2. CASE EndQuery
  <2>1. query.at # "none" /\ UNCHANGED <<sVars, active, world>> /\ query' = NoQuery
    BY <1>2 DEF EndQuery, Idle
  <2>2. stack # <<>> /\ phase = "valid" /\ ~raised /\ Frame.todo = <<"do">> /\ Frame.cmd \in Queries
    BY <2>1 DEF SessInv, PhaseInv
  <2>3. PhaseInv'
    <3>1. query'.at = "none" /\ phase' = "valid"
      BY <2>1, <2>2 DEF NoQuery, sVars
    <3> QED BY <3>1 DEF PhaseInv
  <2>4. CASE Raise
    <3>1. UNCHANGED <<stack, ok, due, store, active, world>>
      BY <2>1, <2>4 DEF Raise, sVars
    <3> QED BY <2>3, <3>1, SameKeeps
  <2>5. CASE stack' = <<[Frame EXCEPT !.todo = <<>>]>> \o Tail(stack) /\ UNCHANGED due
    <3>1. \A g : ~IsPart(Frame, g)
      BY <2>2, PartFacts DEF Queries
    <3>2. UNCHANGED <<due, store, active>>
      BY <2>1, <2>5 DEF sVars
    <3> QED BY <2>2, <2>3, <2>5, <3>1, <3>2, DoneKeeps
  <2> QED BY <1>2, <2>4, <2>5 DEF EndQuery, Ends
<1> QED BY <1>1, <1>2

(* While node.cfg is read no command runs but deploy, before its parts. *)
LEMMA ReadingKeeps ==
  ASSUME SessInv, phase # "valid", UNCHANGED <<stack, due, ok>>
  PROVE  StackInv' /\ DueInv' /\ PartsInv'
<1>1. StackInv' /\ DueInv'
  BY DEF SessInv, StackInv, DueInv
<1>2. CASE stack = <<>>
  BY <1>1, <1>2, Tuples DEF PartsInv
<1>3. CASE stack # <<>>
  <2>1. Len(stack) = 1 /\ Frame.cmd = "deploy" /\ Frame.todo = <<"check", "install", "stop", "start">>
    BY <1>3 DEF SessInv, PhaseInv
  <2>2. Frame.todo # <<"stop", "start">> /\ Frame.todo # <<"start">> /\ Frame.todo # <<>>
    BY <2>1
  <2>3. \A f, g : stack' # <<f, g>>
    BY <2>1
  <2>4. \A f : stack' = <<f>> => Frame = f
    BY Tuples DEF Frame
  <2>5. ASSUME NEW f, stack' = <<f>> PROVE FrameInv(f)' /\ DeployInv(f, ok)'
    <3>1. f.cmd = "deploy" /\ f.todo # <<"stop", "start">> /\ f.todo # <<"start">> /\ f.todo # <<>>
      BY <2>1, <2>2, <2>4, <2>5
    <3> QED BY <3>1 DEF FrameInv, DeployInv, Composites
  <2> QED BY <1>1, <2>3, <2>5 DEF PartsInv
<1> QED BY <1>2, <1>3

LEMMA ReadKeeps ==
  ASSUME SessInv, Read
  PROVE  StackInv' /\ PhaseInv' /\ DueInv' /\ PartsInv'
<1>1. /\ phase = "reading" /\ ~raised /\ raised' = (phase' = "error" /\ stack # <<>>)
      /\ phase' \in {"reading", "error", "read"} /\ UNCHANGED <<stack, due, ok, query>>
  BY DEF Read, ReadSection, CheckNodestore, eVars
<1>2. StackInv' /\ DueInv' /\ PartsInv'
  <2>1. phase # "valid" /\ UNCHANGED <<stack, due, ok>>
    BY <1>1
  <2> QED BY <2>1, ReadingKeeps
<1>3. PhaseInv'
  BY <1>1 DEF SessInv, PhaseInv, Frame
<1> QED BY <1>2, <1>3

LEMMA ProcessKeeps ==
  ASSUME SessInv, Initialised \/ NewProcess \/ Edit
  PROVE  StackInv' /\ PhaseInv' /\ DueInv' /\ PartsInv'
<1>1. CASE Initialised
  <2>1. phase = "read" /\ phase' = "valid" /\ UNCHANGED <<stack, due, ok, raised, query>>
    BY <1>1 DEF Initialised, control, eVars
  <2>2. StackInv' /\ DueInv' /\ PartsInv'
    <3>1. phase # "valid" /\ UNCHANGED <<stack, due, ok>>
      BY <2>1
    <3> QED BY <3>1, ReadingKeeps
  <2>3. PhaseInv'
    BY <2>1 DEF SessInv, PhaseInv
  <2> QED BY <2>2, <2>3
<1>2. CASE NewProcess
  <2>1. stack' = <<>> /\ due' = {} /\ raised' = FALSE /\ phase' = "reading" /\ query' = query
    BY <1>2 DEF NewProcess, BeginReading, eVars
  <2>2. StackInv' /\ DueInv' /\ PartsInv'
    BY <2>1, Tuples DEF StackInv, StackOf, DueInv, PartsInv
  <2>3. query.at = "none"
    BY <1>2 DEF NewProcess, OpenIdle, SessInv, PhaseInv
  <2>4. PhaseInv'
    BY <2>1, <2>3 DEF PhaseInv
  <2> QED BY <2>2, <2>4
<1>3. CASE Edit
  <2>1. UNCHANGED <<stack, ok, due, store, active, world, raised, phase, query>>
    BY <1>3 DEF Edit, sVars, control, eVars
  <2>2. StackInv' /\ DueInv' /\ PartsInv'
    BY <2>1, SameKeeps
  <2>3. PhaseInv'
    BY <2>1 DEF SessInv, PhaseInv, Frame
  <2> QED BY <2>2, <2>3
<1> QED BY <1>1, <1>2, <1>3

-----------------------------------------------------------------------------
(* The invariant, and what follows from it.                                *)

LEMMA SessStart == Init => SessInv
<1> SUFFICES ASSUME Init PROVE SessInv
  OBVIOUS
<1>1. stack = <<>> /\ due = {} /\ phase = "reading" /\ raised = FALSE /\ query.at = "none"
  BY DEF Init, NoQuery
<1>2. StackInv /\ DueInv /\ PhaseInv /\ PartsInv
  BY <1>1, Tuples DEF StackInv, StackOf, DueInv, PhaseInv, PartsInv
<1> QED BY <1>2, StoreStart DEF SessInv

LEMMA SessStep ==
  ASSUME SessInv, [Next]_vars
  PROVE  SessInv'
<1>1. StoreInv'
  BY StoreStep DEF SessInv
<1>2. CASE UNCHANGED vars
  <2>1. UNCHANGED <<stack, ok, due, store, active, world, raised, phase, query>>
    BY <1>2 DEF vars, sVars, control, eVars
  <2>2. StackInv' /\ DueInv' /\ PartsInv'
    BY <2>1, SameKeeps
  <2>3. PhaseInv'
    BY <2>1 DEF SessInv, PhaseInv, Frame
  <2> QED BY <1>1, <2>2, <2>3 DEF SessInv
<1>3. CASE Next
  <2>1. StackInv' /\ PhaseInv' /\ DueInv' /\ PartsInv'
    BY <1>3, CallKeeps, NestedKeeps, GiveUpKeeps, PostKeeps, ReloadKeeps, DoKeeps, QueryKeeps,
       ReadKeeps, ProcessKeeps DEF Next, Work
  <2> QED BY <1>1, <2>1 DEF SessInv
<1> QED BY <1>2, <1>3

(* A plugin that was told that a command begins is told that it has ended,
   unless the command consists of others and one of those has failed. *)
THEOREM PostHooksRun == Spec => []PostUnlessFailed
<1>1. SessInv => PostUnlessFailed
  <2> SUFFICES ASSUME SessInv, stack = <<>>, due # {}
               PROVE  ~ok /\ due \subseteq {"restart", "clean restart", "deploy"}
    BY DEF PostUnlessFailed, OpenIdle
  <2> QED BY Tuples DEF SessInv, DueInv, Composites
<1> QED BY <1>1, SessStart, SessStep, PTL DEF Spec

(* A node that an active plugin has taken off the list of a command is neither
   started nor stopped by it, alone or as a part of restart or deploy. *)
THEOREM DroppedNodesRest == Spec => FilterHolds
<1>1. SessInv /\ [Next]_vars =>
        [\A n \in Nodes : listen'[n] # listen[n] => n \notin DroppedFrom(Frame.cmd)]_vars
  <2> SUFFICES ASSUME SessInv, Next, NEW n \in Nodes, listen'[n] # listen[n]
               PROVE  n \notin DroppedFrom(Frame.cmd)
    OBVIOUS
  <2>1. Do /\ (Stop \/ Start)
    BY DEF Next, Work, Call, Nested, GiveUp, Post, Reload, Do, Install, Check, Other, BeginQuery, Ask,
           EndQuery, NodeReplies, Read, Initialised, NewProcess, Edit, world
  <2>2. Frame.cmd \in {"stop", "start"} /\ stack # <<>>
    BY <2>1 DEF Stop, Start, Does, Working
  <2>3. n \in Frame.nodes
    BY <2>1 DEF Stop, Start
  <2>4. FrameInv(Frame)
    BY <2>2, StackShapes DEF SessInv, PartsInv
  <2> QED BY <2>2, <2>3, <2>4 DEF FrameInv, Hook, Composites
<1> QED BY <1>1, SessStart, SessStep, PTL DEF Spec, FilterHolds

(* After a deploy or restart --clean of all nodes that has succeeded, every node
   that runs listens on the port on record, if no plugin kept it from being
   stopped -- whatever has failed or was edited before. *)
THEOREM DeployedPortsAgree == Spec => DeployAgrees
<1>1. SessInv /\ [Next]_vars =>
        [Post /\ Tail(stack) = <<>> /\ ok /\ Frame.cmd \in {"deploy", "clean restart"} /\ Frame.arg = "all" =>
           \A n \in Ids(store) \ DroppedFrom("stop") : listen[n] \in {0, ports[n]}]_vars
  <2> SUFFICES ASSUME SessInv, Post, Tail(stack) = <<>>, ok, Frame.cmd \in {"deploy", "clean restart"},
                      Frame.arg = "all"
               PROVE  Agreed
    BY DEF Agreed, Kept
  <2>1. stack # <<>> /\ Frame.todo = <<>>
    BY DEF Post, Working
  <2>2. stack = <<Frame>>
    BY <2>1, StackShapes, Tuples DEF SessInv
  <2>3. DeployInv(Frame, ok)
    BY <2>2 DEF SessInv, PartsInv
  <2> QED BY <2>1, <2>3 DEF DeployInv
<1> QED BY <1>1, SessStart, SessStep, PTL DEF Spec, DeployAgrees

-----------------------------------------------------------------------------
(* The shares of a section's workers.                                      *)

LEMMA DivisionIsUnique ==
  ASSUME NEW d \in Nat \ {0}, NEW q \in Int, NEW r \in Int, NEW u \in Int, NEW v \in Int,
         d * q + r = d * u + v, 0 <= r, r < d, 0 <= v, v < d
  PROVE  r = v
<1>1. d * (q - u) = v - r
  OBVIOUS
<1>2. q - u >= 1 => d * (q - u) >= d
  OBVIOUS
<1>3. q - u <= -1 => d * (q - u) <= -d
  OBVIOUS
<1>4. q - u = 0 => d * (q - u) = 0
  OBVIOUS
<1> QED BY <1>1, <1>2, <1>3, <1>4

LEMMA Division ==
  ASSUME NEW a \in Nat, NEW d \in Nat \ {0}
  PROVE  a = d * (a \div d) + (a % d) /\ a \div d \in Nat /\ a % d \in 0 .. d - 1
<1>1. a = d * (a \div d) + (a % d) /\ a \div d \in Int /\ a % d \in 0 .. d - 1
  OBVIOUS
<1>2. a \div d < 0 => d * (a \div d) <= -d
  BY <1>1
<1> QED BY <1>1, <1>2

LEMMA Remainder ==
  ASSUME NEW a \in Nat, NEW d \in Nat \ {0}, NEW q \in Int, NEW r \in 0 .. d - 1, a = d * q + r
  PROVE  a % d = r
<1>1. a = d * (a \div d) + (a % d) /\ a \div d \in Int /\ a % d \in Int /\ 0 <= a % d /\ a % d < d
  BY Division
<1> DEFINE u == a \div d
           v == a % d
<1> HIDE DEF u, v
<1>2. d * q + r = d * u + v /\ u \in Int /\ v \in Int /\ 0 <= v /\ v < d
  BY <1>1 DEF u, v
<1>3. r = v
  BY <1>2, DivisionIsUnique
<1> QED BY <1>3 DEF v

(* The processes, of p that take d values in turn, that take the x-th. *)
Turns(p, d, x) == {k \in 1 .. p : ((k - 1) % d) + 1 = x}

(* Of the processes up to p, one value is taken by as many as another, plus one. *)
LEMMA ResiduesAreEven ==
  ASSUME NEW p \in Nat, NEW d \in Nat \ {0}, NEW i \in 1 .. d, NEW j \in 1 .. d
  PROVE  /\ IsFiniteSet(Turns(p, d, i)) /\ IsFiniteSet(Turns(p, d, j))
         /\ Cardinality(Turns(p, d, i)) \in Nat /\ Cardinality(Turns(p, d, j)) \in Nat
         /\ Cardinality(Turns(p, d, i)) <= Cardinality(Turns(p, d, j)) + 1
<1> DEFINE K(x) == {k \in 1 .. p : ((k - 1) % d) + 1 = x}
           Ki == K(i)
           Kj == K(j)
<1>1. IsFiniteSet(Ki) /\ IsFiniteSet(Kj) /\ Cardinality(Ki) \in Nat /\ Cardinality(Kj) \in Nat
  <2>1. IsFiniteSet(1 .. p) /\ Ki \in SUBSET (1 .. p) /\ Kj \in SUBSET (1 .. p)
    BY FS_Interval
  <2> HIDE DEF Ki, Kj
  <2> QED BY <2>1, FS_Subset, FS_CardinalityType
<1>2. ASSUME NEW k \in Ki PROVE \E q \in Nat : k - 1 = d * q + (i - 1) /\ k \in 1 .. p
  <2>1. k \in 1 .. p /\ k - 1 \in Nat /\ ((k - 1) % d) + 1 = i
    OBVIOUS
  <2>2. k - 1 = d * ((k - 1) \div d) + ((k - 1) % d) /\ (k - 1) \div d \in Nat /\ (k - 1) % d \in Int
    <3>1. PICK a \in Nat : a = k - 1
      BY <2>1
    <3>2. a = d * (a \div d) + (a % d) /\ a \div d \in Nat /\ a % d \in Int
      BY Division
    <3> QED BY <3>1, <3>2
  <2>3. (k - 1) % d = i - 1
    BY <2>1, <2>2
  <2> QED BY <2>1, <2>2, <2>3
<1>3. ASSUME NEW k \in 1 .. p, NEW q \in Int, k - 1 = d * q + (j - 1) PROVE k \in Kj
  <2>1. k - 1 \in Nat /\ j - 1 \in 0 .. d - 1
    OBVIOUS
  <2>2. (k - 1) % d = j - 1
    BY <1>3, <2>1, Remainder
  <2> QED BY <2>2
<1> HIDE DEF Ki, Kj
<1>4. CASE j <= i
  <2> DEFINE f == [k \in Ki |-> k - (i - j)]
  <2>1. ASSUME NEW k \in Ki PROVE f[k] \in Kj /\ k \in Int
    <3>1. PICK q \in Nat : k - 1 = d * q + (i - 1) /\ k \in 1 .. p
      BY <1>2
    <3>2. d * q >= 0
      OBVIOUS
    <3>3. k - (i - j) \in 1 .. p /\ (k - (i - j)) - 1 = d * q + (j - 1)
      BY <1>4, <3>1, <3>2
    <3> QED BY <1>3, <3>1, <3>3
  <2>2. f \in Injection(Ki, Kj)
    BY <2>1 DEF Injection, IsInjective
  <2>3. Cardinality(Ki) <= Cardinality(Kj)
    BY <1>1, <2>2, FS_Injection
  <2> QED BY <1>1, <2>3 DEF Ki, Kj, Turns
<1>5. CASE i < j
  <2> DEFINE others == Ki \ {i}
             f == [k \in others |-> k - d + (j - i)]
  <2>1. IsFiniteSet(others) /\ Cardinality(others) \in Nat /\ Cardinality(Ki) <= Cardinality(others) + 1
    <3>1. /\ IsFiniteSet(others)
          /\ Cardinality(others) = IF i \in Ki THEN Cardinality(Ki) - 1 ELSE Cardinality(Ki)
      BY <1>1, FS_RemoveElement
    <3>2. Cardinality(others) \in Nat
      BY <3>1, FS_CardinalityType
    <3> QED BY <1>1, <3>1, <3>2
  <2>2. ASSUME NEW k \in others PROVE f[k] \in Kj /\ k \in Int
    <3>1. PICK q \in Nat : k - 1 = d * q + (i - 1) /\ k \in 1 .. p /\ k # i
      BY <1>2
    <3>2. q # 0
      BY <3>1
    <3>3. d * q >= d /\ d * (q - 1) = d * q - d /\ q - 1 \in Int
      BY <3>2
    <3>4. PICK m \in Int : m = k - d + (j - i)
      BY <3>1
    <3>5. m \in 1 .. p /\ m - 1 = d * (q - 1) + (j - 1)
      BY <1>5, <3>1, <3>3, <3>4
    <3>6. m \in Kj
      BY <1>3, <3>3, <3>5
    <3> QED BY <3>1, <3>4, <3>6
  <2>3. f \in Injection(others, Kj)
    BY <2>2 DEF Injection, IsInjective
  <2>4. Cardinality(others) <= Cardinality(Kj)
    <3> HIDE DEF others
    <3> QED BY <1>1, <2>3, FS_Injection
  <2> QED BY <1>1, <2>1, <2>4 DEF Ki, Kj, Turns
<1> QED BY <1>1, <1>4, <1>5 DEF Ki, Kj

(* PF_RING: a run of processes of one interface of a host is numbered upwards. *)
LEMMA RingsDiffer ==
  ASSUME Sound(store)
  PROVE  LET rings == PfRing
             same(i, k) == /\ rings[k].node.host = rings[i].node.host
                           /\ rings[k].node.interface = rings[i].node.interface
         IN  \A i, j \in DOMAIN rings :
               i < j /\ (\A k \in i .. j : same(i, k)) => rings[i].instance # rings[j].instance
<1> DEFINE workers == {n \in OfType(store, "worker") : n.lb_method = "pf_ring"}
           ns == Sorted(workers)
           new(i) == \A j \in 1 .. i - 1 : ns[j].host # ns[i].host \/ ns[j].interface # ns[i].interface
           last(i) == CHOOSE j \in 1 .. i : new(j) /\ \A k \in j + 1 .. i : ~new(k)
           size == Cardinality(workers)
<1>1. DOMAIN ns = 1 .. size /\ size \in Nat
  <2>1. workers \in SUBSET ToSet(store)
    BY DEF OfType
  <2> HIDE DEF workers
  <2>2. size \in Nat /\ Len(ns) = size /\ ns \in Seq(ToSet(ns))
    BY <2>1, SortedHas
  <2> QED BY <2>2
<1>2. PfRing = [i \in DOMAIN ns |-> [node |-> ns[i], instance |-> i - last(i)]]
  BY DEF PfRing
<1> HIDE DEF ns, workers
<1>3. ASSUME NEW i \in 1 .. size
      PROVE  \E j \in 1 .. i : new(j) /\ \A k \in j + 1 .. i : ~new(k)
  <2> DEFINE T == {m \in 0 .. i - 1 : new(i - m)}
  <2>1. new(1)
    OBVIOUS
  <2>2. i - 1 \in T
    <3>1. i - (i - 1) = 1 /\ i - 1 \in 0 .. i - 1
      BY <1>1
    <3> QED BY <2>1, <3>1
  <2> HIDE DEF new
  <2>3. PICK m \in T : \A x \in T : m <= x
    <3>1. \A m \in T : m \in Nat
      BY <1>1
    <3> HIDE DEF T
    <3>2. T \in SUBSET Nat /\ T # {}
      BY <2>2, <3>1
    <3> QED BY <3>2, LeastNumber
  <2>4. i - m \in 1 .. i /\ new(i - m)
    BY <1>1, <2>3
  <2>5. ASSUME NEW k \in (i - m) + 1 .. i, new(k) PROVE FALSE
    <3>1. PICK x \in Int : x = i - k
      BY <1>1, <2>3
    <3>2. x \in 0 .. i - 1 /\ i - x = k /\ x < m
      BY <1>1, <2>3, <3>1
    <3>3. x \in T
      BY <2>5, <3>2
    <3> QED BY <2>3, <3>2, <3>3
  <2> QED BY <2>4, <2>5
<1>4. ASSUME NEW i \in 1 .. size
      PROVE  last(i) \in 1 .. i /\ new(last(i)) /\ \A k \in last(i) + 1 .. i : ~new(k)
  <2> HIDE DEF new
  <2> QED BY <1>3
<1>5. ASSUME NEW i \in 1 .. size, NEW j \in 1 .. size, i < j,
             \A k \in i .. j : ns[k].host = ns[i].host /\ ns[k].interface = ns[i].interface
      PROVE  i - last(i) # j - last(j)
  <2>1. \A k \in i + 1 .. j : ~new(k)
    <3>1. ASSUME NEW k \in i + 1 .. j PROVE ~new(k)
      <4>1. i \in 1 .. k - 1 /\ k \in i .. j
        BY <1>1
      <4> QED BY <1>5, <4>1
    <3> QED BY <3>1
  <2> HIDE DEF new
  <2>2. PICK a \in 1 .. i : a = last(i) /\ new(a) /\ \A k \in a + 1 .. i : ~new(k)
    <3> HIDE DEF last
    <3> QED BY <1>4
  <2>3. PICK b \in 1 .. j : b = last(j) /\ new(b) /\ \A k \in b + 1 .. j : ~new(k)
    <3> HIDE DEF last
    <3> QED BY <1>4
  <2>4. ~(b \in i + 1 .. j) /\ ~(b \in a + 1 .. i) /\ ~(a \in b + 1 .. j)
    BY <2>1, <2>2, <2>3, <1>5
  <2>5. a = b
    BY <1>1, <1>5, <2>4
  <2> HIDE DEF last
  <2> QED BY <1>1, <1>5, <2>2, <2>3, <2>5
<1> HIDE DEF last, new
<1> SUFFICES ASSUME NEW i \in DOMAIN PfRing, NEW j \in DOMAIN PfRing, i < j,
                    \A k \in i .. j : /\ PfRing[k].node.host = PfRing[i].node.host
                                      /\ PfRing[k].node.interface = PfRing[i].node.interface
             PROVE  PfRing[i].instance # PfRing[j].instance
  OBVIOUS
<1>6. i \in 1 .. size /\ j \in 1 .. size
  BY <1>1, <1>2
<1>7. \A k \in 1 .. size : PfRing[k].node = ns[k] /\ PfRing[k].instance = k - last(k)
  BY <1>1, <1>2
<1>8. \A k \in i .. j : k \in 1 .. size
  BY <1>1, <1>6
<1>9. \A k \in i .. j : ns[k].host = ns[i].host /\ ns[k].interface = ns[i].interface
  BY <1>6, <1>7, <1>8
<1>10. i - last(i) # j - last(j)
  BY <1>5, <1>6, <1>9
<1> QED BY <1>6, <1>7, <1>10

(* What the nodes of a section with load balancing have. *)
IsShare(n, s, k) ==
  n.name = Append(s.name, k) /\ n.interface = Interface(s, k) /\ n.pin_cpus = Pin(s, k)

Shared(ns, s) ==
  /\ ~SectionFails(s)
  /\ \A k, m \in 1 .. NumProcs(s) : Append(s.name, k) = Append(s.name, m) => k = m
  /\ \A k \in 1 .. NumProcs(s) : \E n \in ToSet(ns) : IsShare(n, s, k)
  /\ \A n \in ToSet(ns) : n.name \in NamesOf(s) => \E k \in 1 .. NumProcs(s) : IsShare(n, s, k)

(* The sections that have been read have got their nodes. *)
ReadInv ==
  /\ cfg \in Seq(Sections) /\ Len(rest) <= Len(cfg)
  /\ \A i \in 1 .. Len(rest) : rest[i] = cfg[Len(cfg) - Len(rest) + i]
  /\ \A i \in 1 .. Len(cfg) - Len(rest) : cfg[i].lb # <<>> => Shared(building, cfg[i])
  /\ phase = "read" => rest = <<>> /\ store = building

LEMMA BalancedNames ==
  ASSUME NEW s \in Sections, s.lb # <<>>, NEW a
  PROVE  a \in NamesOf(s) <=> \E k \in 1 .. NumProcs(s) : a = Append(s.name, k)
BY DEF NamesOf

LEMMA NewShares ==
  ASSUME NEW s \in Sections, ~SectionFails(s), Sound(building), ~Duplicate(building \o Copies(s))
  PROVE  /\ s.lb # <<>> => Shared(building \o Copies(s), s)
         /\ \A t \in Sections : t.lb # <<>> /\ Shared(building, t) => Shared(building \o Copies(s), t)
<1> DEFINE new == building \o Copies(s)
           l == Len(building)
           p == NumProcs(s)
           at(k) == IF k = 1 THEN l + p ELSE l + k - 1
<1>1. /\ l \in Nat /\ DOMAIN building = 1 .. l /\ p \in Nat \ {0} /\ DOMAIN new = 1 .. l + p
      /\ \A i \in 1 .. l : new[i] = building[i]
      /\ \A i \in l + 1 .. l + p : new[i] = Copies(s)[i - l]
  BY AddedNodes
<1>2. \A i \in 1 .. p : Copies(s)[i] = Copy(s, IF i = p THEN 1 ELSE i + 1)
  BY DEF Copies
<1> HIDE DEF new, l, p
<1>3. ASSUME NEW k \in 1 .. p PROVE at(k) \in l + 1 .. l + p /\ new[at(k)] = Copy(s, k)
  <2>1. PICK i \in Int : i = at(k) - l
    BY <1>1
  <2>2. i \in 1 .. p /\ at(k) \in l + 1 .. l + p /\ (IF i = p THEN 1 ELSE i + 1) = k
    BY <1>1, <2>1
  <2>3. new[at(k)] = Copies(s)[i]
    BY <1>1, <2>1, <2>2
  <2> QED BY <1>2, <2>2, <2>3
<1>4. ASSUME NEW i \in l + 1 .. l + p PROVE \E k \in 1 .. p : i = at(k)
  <2>1. CASE i = l + p
    BY <1>1, <2>1
  <2>2. CASE i # l + p
    <3>1. i - l + 1 \in 1 .. p /\ at(i - l + 1) = i
      BY <1>1, <2>2
    <3> QED BY <3>1
  <2> QED BY <2>1, <2>2
<1>5. ASSUME NEW i \in 1 .. l + p, NEW j \in 1 .. l + p, new[i].name = new[j].name PROVE i = j
  <2>1. LowerName(new[i].name) = LowerName(new[j].name)
    BY <1>5
  <2> QED BY <1>1, <2>1 DEF Duplicate, new
<1>6. \A n : n \in ToSet(new) <=> \E i \in 1 .. l + p : n = new[i]
  BY <1>1 DEF ToSet
<1>7. \A n : n \in ToSet(building) <=> \E i \in 1 .. l : n = building[i]
  BY <1>1 DEF ToSet
<1>8. \A i \in 1 .. l : i \in 1 .. l + p
  BY <1>1
<1>9. \A i \in l + 1 .. l + p : i \in 1 .. l + p /\ i \notin 1 .. l
  BY <1>1
<1>10. \A i \in 1 .. l + p : i \in 1 .. l \/ i \in l + 1 .. l + p
  BY <1>1
<1>11. ASSUME s.lb # <<>> PROVE Shared(new, s)
  <2>1. ASSUME NEW k \in 1 .. p PROVE IsShare(Copy(s, k), s, k)
    BY <1>11 DEF IsShare, Copy
  <2>2. ASSUME NEW k \in 1 .. p, NEW m \in 1 .. p, Append(s.name, k) = Append(s.name, m) PROVE k = m
    <3>1. at(k) \in 1 .. l + p /\ at(m) \in 1 .. l + p /\ new[at(k)].name = new[at(m)].name
      BY <1>3, <1>9, <2>1, <2>2 DEF IsShare
    <3>2. at(k) = at(m)
      BY <1>5, <3>1
    <3> QED BY <1>1, <3>2
  <2>3. ASSUME NEW k \in 1 .. p PROVE \E n \in ToSet(new) : IsShare(n, s, k)
    BY <1>3, <1>6, <1>9, <2>1
  <2>4. ASSUME NEW n \in ToSet(new), n.name \in NamesOf(s) PROVE \E k \in 1 .. p : IsShare(n, s, k)
    <3>1. PICK i \in 1 .. l + p : n = new[i]
      BY <1>6
    <3>2. PICK k \in 1 .. p : n.name = Append(s.name, k)
      BY <1>11, <2>4, BalancedNames DEF p
    <3>3. at(k) \in 1 .. l + p /\ new[at(k)].name = n.name /\ IsShare(new[at(k)], s, k)
      BY <1>3, <1>9, <2>1, <3>2 DEF IsShare
    <3>4. i = at(k)
      BY <1>5, <3>1, <3>3
    <3> QED BY <3>1, <3>3, <3>4
  <2> QED BY <2>2, <2>3, <2>4 DEF Shared, p
<1>12. ASSUME NEW t \in Sections, t.lb # <<>>, Shared(building, t) PROVE Shared(new, t)
  <2>1. \A k \in 1 .. NumProcs(t) : \E i \in 1 .. l : IsShare(new[i], t, k)
    BY <1>1, <1>7, <1>12 DEF Shared
  <2>2. \A k \in 1 .. NumProcs(t) : \E n \in ToSet(new) : IsShare(n, t, k)
    BY <1>6, <1>8, <2>1
  <2>3. ASSUME NEW n \in ToSet(new), n.name \in NamesOf(t)
        PROVE  \E k \in 1 .. NumProcs(t) : IsShare(n, t, k)
    <3>1. PICK i \in 1 .. l + p : n = new[i]
      BY <1>6
    <3>2. PICK k \in 1 .. NumProcs(t) : n.name = Append(t.name, k)
      BY <1>12, <2>3, BalancedNames
    <3>3. PICK j \in 1 .. l : IsShare(new[j], t, k)
      BY <2>1
    <3>4. i = j
      BY <1>5, <1>8, <3>1, <3>2, <3>3 DEF IsShare
    <3> QED BY <3>1, <3>3, <3>4
  <2> QED BY <1>12, <2>2, <2>3 DEF Shared
<1> QED BY <1>11, <1>12 DEF new

LEMMA ReadStart == Init => ReadInv
<1> SUFFICES ASSUME Init PROVE ReadInv
  OBVIOUS
<1>1. file \in Seq(Sections) /\ cfg = file /\ rest = file /\ phase # "read"
  BY SessionAssumption, StoreAssumption DEF Init
<1>2. Len(cfg) \in Nat /\ Len(cfg) - Len(rest) = 0 /\ \A i \in 1 .. Len(rest) : Len(cfg) - Len(rest) + i = i
  BY <1>1
<1> QED BY <1>1, <1>2 DEF ReadInv

LEMMA ReadStep ==
  ASSUME StoreInv, ReadInv, [Next]_vars
  PROVE  ReadInv'
<1>1. CASE UNCHANGED <<cfg, rest, building, store, phase>>
  BY <1>1 DEF ReadInv
<1>2. CASE BeginReading
  <2>1. file \in Seq(Sections) /\ cfg' = file /\ rest' = file /\ phase' # "read"
    BY <1>2, StoreAssumption DEF BeginReading, StoreInv
  <2>2. /\ Len(cfg') \in Nat /\ Len(cfg') - Len(rest') = 0
        /\ \A i \in 1 .. Len(rest') : Len(cfg') - Len(rest') + i = i
    BY <2>1
  <2> QED BY <2>1, <2>2 DEF ReadInv
<1>3. CASE ReadSection
  <2>1. CASE UNCHANGED <<rest, building>>
    BY <1>3, <2>1 DEF ReadSection, ReadInv
  <2>2. CASE ~UNCHANGED <<rest, building>>
    <3> DEFINE s == Head(rest)
               done == Len(cfg) - Len(rest)
    <3>1. /\ ~SectionFails(s) /\ ~Duplicate(building \o Copies(s)) /\ rest # <<>>
          /\ rest' = Tail(rest) /\ building' = building \o Copies(s) /\ phase' # "read" /\ cfg' = cfg
      BY <1>3, <2>2 DEF ReadSection
    <3>2. /\ s \in Sections /\ s = rest[1] /\ Len(rest) \in Nat \ {0} /\ Len(cfg) \in Nat
          /\ Len(rest') = Len(rest) - 1 /\ \A i \in 1 .. Len(rest) - 1 : rest'[i] = rest[i + 1]
      BY <3>1 DEF StoreInv, ReadInv
    <3>3. done \in Nat /\ s = cfg[done + 1] /\ Len(cfg') - Len(rest') = done + 1 /\ Len(rest') <= Len(cfg')
      BY <3>1, <3>2 DEF ReadInv
    <3>4. ASSUME NEW i \in 1 .. Len(rest') PROVE rest'[i] = cfg'[Len(cfg') - Len(rest') + i]
      <4>1. i + 1 \in 1 .. Len(rest) /\ i \in 1 .. Len(rest) - 1
        BY <3>2
      <4>2. rest[i + 1] = cfg[done + (i + 1)]
        BY <4>1 DEF ReadInv
      <4>3. done + (i + 1) = (done + 1) + i
        BY <3>2, <3>3
      <4> QED BY <3>1, <3>2, <3>3, <4>1, <4>2, <4>3
    <3> HIDE DEF s
    <3>5. /\ s.lb # <<>> => Shared(building', s)
          /\ \A t \in Sections : t.lb # <<>> /\ Shared(building, t) => Shared(building', t)
      BY <3>1, <3>2, NewShares DEF StoreInv
    <3>6. ASSUME NEW i \in 1 .. done + 1, cfg[i].lb # <<>> PROVE Shared(building', cfg[i])
      <4>1. CASE i = done + 1
        BY <3>3, <3>5, <3>6, <4>1
      <4>2. CASE i # done + 1
        <5>1. i \in 1 .. Len(cfg) - Len(rest) /\ i \in 1 .. Len(cfg)
          <6>1. PICK d \in Nat : d = done
            BY <3>3
          <6>2. i \in 1 .. d
            BY <4>2, <6>1
          <6>3. d <= Len(cfg) /\ d = Len(cfg) - Len(rest)
            BY <3>2, <6>1
          <6> QED BY <3>2, <6>2, <6>3
        <5>2. cfg[i] \in Sections /\ Shared(building, cfg[i])
          BY <3>6, <5>1 DEF ReadInv
        <5> QED BY <3>5, <3>6, <5>2
      <4> QED BY <4>1, <4>2
    <3>7. cfg' \in Seq(Sections)
      BY <3>1 DEF ReadInv
    <3> QED BY <3>1, <3>3, <3>4, <3>6, <3>7 DEF ReadInv
  <2> QED BY <2>1, <2>2
<1>4. CASE CheckNodestore
  BY <1>4 DEF CheckNodestore, ReadInv
<1>5. CASE Initialised
  BY <1>5 DEF Initialised, ReadInv
<1>6. CASE Reload \/ NewProcess
  BY <1>1, <1>2, <1>6 DEF Reload, NewProcess, sVars
<1>7. CASE Read
  BY <1>3, <1>4, <1>7 DEF Read
<1>8. CASE Call \/ Nested \/ GiveUp \/ Post \/ Do \/ BeginQuery \/ Ask \/ EndQuery \/ NodeReplies \/ Edit
  BY <1>1, <1>8 DEF Call, Nested, GiveUp, Post, Do, BeginQuery, Ask, EndQuery, NodeReplies, Edit, sVars
<1>9. CASE UNCHANGED vars
  BY <1>1, <1>9 DEF vars, sVars
<1> QED BY <1>5, <1>6, <1>7, <1>8, <1>9 DEF Next, Work

(* Each CPU is listed once. *)
DistinctCpus ==
  \A s \in Sections : \A i, j \in DOMAIN s.pin_cpus : s.pin_cpus[i] = s.pin_cpus[j] => i = j

LEMMA InterfacesAreUsed ==
  ASSUME NEW s \in Sections, s.lb # <<>>, s.lb_method = "interfaces", Shared(store, s)
  PROVE  {n.interface : n \in {m \in ToSet(store) : m.name \in NamesOf(s)}} = ToSet(s.lb_interfaces)
<1> DEFINE p == NumProcs(s)
           q == s.lb_interfaces
           ns == {m \in ToSet(store) : m.name \in NamesOf(s)}
<1>1. p \in Nat /\ Len(q) = p /\ DOMAIN q = 1 .. p
  <2>1. ~SectionFails(s)
    BY DEF Shared
  <2>2. s.lb \in Seq(Int) /\ q \in Seq(ToSet(q)) /\ Len(q) = p
    BY <2>1, StoreAssumption DEF SectionFails
  <2> QED BY <2>2
<1>2. \A k : Interface(s, k) = q[p + 1 - k]
  BY <1>1 DEF Interface
<1>3. ASSUME NEW n \in ns PROVE n.interface \in ToSet(q)
  <2>1. PICK k \in 1 .. p : IsShare(n, s, k)
    BY DEF Shared
  <2>2. n.interface = q[p + 1 - k] /\ p + 1 - k \in 1 .. p
    BY <1>1, <1>2, <2>1 DEF IsShare
  <2> QED BY <1>1, <2>2 DEF ToSet
<1>4. ASSUME NEW x \in ToSet(q) PROVE \E n \in ns : n.interface = x
  <2>1. PICK i \in 1 .. p : x = q[i]
    BY <1>1 DEF ToSet
  <2>2. PICK k \in 1 .. p : p + 1 - k = i
    <3>1. p + 1 - i \in 1 .. p /\ p + 1 - (p + 1 - i) = i
      BY <1>1
    <3> QED BY <3>1
  <2>3. PICK n \in ToSet(store) : IsShare(n, s, k)
    BY DEF Shared
  <2>4. n.name \in NamesOf(s)
    BY <2>3, BalancedNames DEF IsShare
  <2> QED BY <1>2, <2>1, <2>2, <2>3, <2>4 DEF IsShare
<1> QED BY <1>3, <1>4

LEMMA CpusAreEven ==
  ASSUME DistinctCpus, Sound(store), NEW s \in Sections, s.lb # <<>>, Shared(store, s),
         NEW c \in ToSet(s.pin_cpus), NEW d \in ToSet(s.pin_cpus)
  PROVE  LET ns == {m \in ToSet(store) : m.name \in NamesOf(s)}
         IN  Cardinality({n \in ns : n.pin_cpus = c}) <= Cardinality({n \in ns : n.pin_cpus = d}) + 1
<1> DEFINE p == NumProcs(s)
           cpus == s.pin_cpus
           size == Len(cpus)
           ns == {m \in ToSet(store) : m.name \in NamesOf(s)}
           A(x) == {n \in ns : n.pin_cpus = x}
           K(x) == Turns(p, size, x)
<1>1. p \in Nat /\ size \in Nat /\ DOMAIN cpus = 1 .. size
  <2>1. ~SectionFails(s) /\ s.lb \in Seq(Int) /\ cpus \in Seq(Int)
    BY StoreAssumption DEF Shared
  <2>2. s.lb[1] \in Int /\ s.lb[1] >= 1
    BY <2>1 DEF SectionFails
  <2> QED BY <2>1, <2>2 DEF NumProcs
<1>2. PICK i \in 1 .. size : cpus[i] = c
  BY <1>1 DEF ToSet
<1>3. PICK j \in 1 .. size : cpus[j] = d
  BY <1>1 DEF ToSet
<1>4. size \in Nat \ {0} /\ cpus # <<>>
  BY <1>1, <1>2
<1>5. ASSUME NEW k \in 1 .. p PROVE ((k - 1) % size) + 1 \in 1 .. size /\ Pin(s, k) = cpus[((k - 1) % size) + 1]
  <2>1. PICK a \in Nat : a = k - 1
    BY <1>1
  <2>2. a % size \in 0 .. size - 1
    BY <1>4, Division
  <2>3. PICK r \in 0 .. size - 1 : r = a % size
    BY <2>2
  <2>4. r + 1 \in 1 .. size
    <3>1. r \in Nat /\ r <= size - 1
      BY <1>4
    <3> HIDE DEF size
    <3> QED BY <1>4, <3>1
  <2>5. ((k - 1) % size) + 1 = r + 1
    BY <2>1, <2>3
  <2> QED BY <1>4, <2>4, <2>5 DEF Pin
<1>6. ASSUME NEW n \in ns, NEW m \in ns, n.name = m.name PROVE n = m
  <2>1. PICK a \in DOMAIN store : n = store[a]
    BY DEF ToSet
  <2>2. PICK b \in DOMAIN store : m = store[b]
    BY DEF ToSet
  <2>3. LowerName(store[a].name) = LowerName(store[b].name)
    BY <1>6, <2>1, <2>2
  <2> QED BY <2>1, <2>2, <2>3 DEF Sound, Duplicate
<1>7. ASSUME NEW n \in ns PROVE \E k \in 1 .. p : IsShare(n, s, k)
  BY DEF Shared
<1>8. ASSUME NEW k \in 1 .. p PROVE \E n \in ns : IsShare(n, s, k)
  <2>1. PICK n \in ToSet(store) : IsShare(n, s, k)
    BY DEF Shared
  <2> QED BY <2>1, BalancedNames DEF IsShare
<1>9. ASSUME NEW x \in 1 .. size PROVE IsFiniteSet(A(cpus[x])) /\ Cardinality(A(cpus[x])) \in Nat
  <2>1. A(cpus[x]) \in SUBSET ToSet(store) /\ IsFiniteSet(ToSet(store))
    BY Numbers
  <2> HIDE DEF A
  <2> QED BY <2>1, FS_Subset, FS_CardinalityType
<1> HIDE DEF ns
<1>10. Cardinality(A(c)) <= Cardinality(K(i))
  <2> DEFINE share == [n \in A(c) |-> CHOOSE k \in 1 .. p : IsShare(n, s, k)]
             Ac == A(c)
             Ki == K(i)
  <2>1. ASSUME NEW n \in Ac PROVE share[n] \in Ki /\ IsShare(n, s, share[n])
    <3>1. share[n] \in 1 .. p /\ IsShare(n, s, share[n])
      BY <1>7 DEF Turns
    <3>2. Pin(s, share[n]) = c
      BY <3>1 DEF IsShare
    <3> HIDE DEF share
    <3>3. PICK k \in 1 .. p : k = share[n]
      BY <3>1
    <3>4. PICK x \in 1 .. size : x = ((k - 1) % size) + 1 /\ Pin(s, k) = cpus[x]
      BY <1>5
    <3>5. cpus[x] = cpus[i]
      BY <1>2, <3>2, <3>3, <3>4
    <3>6. x = i
      BY <1>1, <3>5 DEF DistinctCpus
    <3> QED BY <3>1, <3>3, <3>4, <3>6 DEF Turns
  <2>2. share \in Injection(Ac, Ki)
    <3>1. share \in [Ac -> Ki]
      BY <2>1
    <3>2. ASSUME NEW n \in Ac, NEW m \in Ac, share[n] = share[m] PROVE n = m
      <4>1. IsShare(n, s, share[n]) /\ IsShare(m, s, share[n])
        BY <2>1, <3>2
      <4> QED BY <1>6, <4>1 DEF IsShare
    <3> HIDE DEF share
    <3> QED BY <3>1, <3>2 DEF Injection, IsInjective
  <2>3. IsFiniteSet(Ki)
    BY <1>1, <1>4, ResiduesAreEven
  <2> HIDE DEF Ac, Ki
  <2>4. Cardinality(Ac) <= Cardinality(Ki)
    BY <2>2, <2>3, FS_Injection
  <2> QED BY <2>4 DEF Ac, Ki
<1>11. Cardinality(K(j)) <= Cardinality(A(d))
  <2> DEFINE owner == [k \in K(j) |-> CHOOSE n \in ns : IsShare(n, s, k)]
             Ad == A(d)
             Kj == K(j)
  <2>1. ASSUME NEW k \in Kj PROVE owner[k] \in Ad /\ IsShare(owner[k], s, k)
    <3>0. k \in 1 .. p /\ ((k - 1) % size) + 1 = j
      BY DEF Turns
    <3>1. owner[k] \in ns /\ IsShare(owner[k], s, k)
      BY <1>8, <3>0
    <3>2. Pin(s, k) = d
      BY <1>3, <1>5, <3>0
    <3> HIDE DEF owner
    <3> QED BY <3>1, <3>2 DEF IsShare
  <2>2. owner \in Injection(Kj, Ad)
    <3>1. owner \in [Kj -> Ad]
      BY <2>1
    <3>2. ASSUME NEW k \in Kj, NEW m \in Kj, owner[k] = owner[m] PROVE k = m
      <4>1. Append(s.name, k) = Append(s.name, m)
        BY <2>1, <3>2 DEF IsShare
      <4> QED BY <4>1 DEF Shared
    <3> HIDE DEF owner
    <3> QED BY <3>1, <3>2 DEF Injection, IsInjective
  <2>3. IsFiniteSet(Ad)
    BY <1>3, <1>9
  <2> HIDE DEF Ad, Kj
  <2>4. Cardinality(Kj) <= Cardinality(Ad)
    BY <2>2, <2>3, FS_Injection
  <2> QED BY <2>4 DEF Ad, Kj
<1>12. /\ Cardinality(K(i)) <= Cardinality(K(j)) + 1
       /\ Cardinality(K(i)) \in Nat /\ Cardinality(K(j)) \in Nat
  BY <1>1, <1>4, ResiduesAreEven
<1>13. Cardinality(A(c)) \in Nat /\ Cardinality(A(d)) \in Nat
  BY <1>2, <1>3, <1>9
<1> HIDE DEF A, K
<1>14. Cardinality(A(c)) <= Cardinality(A(d)) + 1
  BY <1>10, <1>11, <1>12, <1>13
<1> QED BY <1>14 DEF A, ns

(* The workers of a section use each of its interfaces, and each CPU for as many
   processes as another, plus one, if none is listed twice; PF_RING's numbers
   differ within a run of processes of one interface. *)
THEOREM SharesAreEven ==
  ASSUME DistinctCpus
  PROVE  Spec => []EvenShares
<1>1. StoreInv /\ ReadInv => EvenShares
  <2> SUFFICES ASSUME StoreInv, ReadInv, phase = "read" PROVE EvenShares
    BY DEF EvenShares
  <2>1. Sound(store) /\ cfg \in Seq(Sections) /\ rest = <<>> /\ store = building
    BY DEF StoreInv, ReadInv
  <2>2. ASSUME NEW i \in DOMAIN cfg, cfg[i].lb # <<>>
        PROVE  cfg[i] \in Sections /\ Shared(store, cfg[i])
    <3>1. Len(cfg) - Len(rest) = Len(cfg) /\ i \in 1 .. Len(cfg)
      BY <2>1
    <3> QED BY <2>1, <2>2, <3>1 DEF ReadInv
  <2>3. ASSUME NEW i \in DOMAIN cfg
        PROVE  LET s == cfg[i]
                   ns == {n \in ToSet(store) : s.lb # <<>> /\ n.name \in NamesOf(s)}
               IN  ns # {} =>
                     /\ s.lb_method = "interfaces" => {n.interface : n \in ns} = ToSet(s.lb_interfaces)
                     /\ \A c, d \in ToSet(s.pin_cpus) :
                          Cardinality({n \in ns : n.pin_cpus = c}) <= Cardinality({n \in ns : n.pin_cpus = d}) + 1
    <3> DEFINE s == cfg[i]
               ns == {n \in ToSet(store) : s.lb # <<>> /\ n.name \in NamesOf(s)}
               all == {m \in ToSet(store) : m.name \in NamesOf(s)}
    <3>1. CASE s.lb = <<>>
      BY <3>1
    <3>2. CASE s.lb # <<>>
      <4>1. ns = all
        BY <3>2
      <4>2. s \in Sections /\ Shared(store, s)
        BY <2>2, <3>2
      <4> HIDE DEF s
      <4>3. s.lb_method = "interfaces" => {n.interface : n \in all} = ToSet(s.lb_interfaces)
        BY <3>2, <4>2, InterfacesAreUsed
      <4>4. \A c, d \in ToSet(s.pin_cpus) :
              Cardinality({n \in all : n.pin_cpus = c}) <= Cardinality({n \in all : n.pin_cpus = d}) + 1
        BY <2>1, <3>2, <4>2, CpusAreEven
      <4> HIDE DEF ns, all
      <4>5. ns # {} =>
              /\ s.lb_method = "interfaces" => {n.interface : n \in ns} = ToSet(s.lb_interfaces)
              /\ \A c, d \in ToSet(s.pin_cpus) :
                   Cardinality({n \in ns : n.pin_cpus = c}) <= Cardinality({n \in ns : n.pin_cpus = d}) + 1
        BY <4>1, <4>3, <4>4
      <4> QED BY <4>5 DEF ns, s
    <3> QED BY <3>1, <3>2
  <2> QED BY <2>1, <2>3, RingsDiffer DEF EvenShares
<1>2. Init => StoreInv /\ ReadInv
  BY StoreStart, ReadStart
<1>3. StoreInv /\ ReadInv /\ [Next]_vars => StoreInv' /\ ReadInv'
  BY StoreStep, ReadStep
<1> QED BY <1>1, <1>2, <1>3, PTL DEF Spec
===============================================================================
