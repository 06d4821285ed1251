------------------------------ MODULE NodeStore -----------------------------
(***************************************************************************)
(* The nodes of node.cfg: its sections are read one after the other, a     *)
(* worker with load balancing becomes several nodes, and the whole must be *)
(* a valid cluster.  What is derived from them: the sorted lists that all  *)
(* commands use, the ports of the layout, and PF_RING's instance numbers.  *)
(***************************************************************************)
EXTENDS Integers, Sequences, FiniteSets, SequencesExt, TLC

CONSTANTS
  NodeCfgs,     \* the node.cfg files: sequences of sections
  Lower,        \* the base names of sections, in lower case
  Addr,         \* the addresses of those hosts that have one
  LocalAddrs,   \* addresses of this machine, and
  LocalHost     \* those of them that are 127.0.0.1 or ::1

VARIABLES
  file,         \* node.cfg as it is on disk
  cfg,          \* the file that was read last
  rest,         \* its sections that are still to be read
  building,     \* the nodes of the others, in the order they were added
  store,        \* the nodes that are in use
  phase         \* "reading", "read", "valid" when plugins are initialised, or "error"

sVars == <<cfg, rest, building, store, phase>>

\* A name is a base and numbers: the copies of "w" are called "w-1", "w-2".
\* lb is <<>>, or <<number of processes>>; lb_method is "none" if not given.
TypeOrder == <<"standalone", "logger", "manager", "proxy", "worker">>
Rank == [type \in ToSet(TypeOrder) |-> CHOOSE i \in DOMAIN TypeOrder : TypeOrder[i] = type]
NoCpu == -1
Methods == {"af_packet", "pf_ring", "myricom", "custom", "interfaces"}

NumProcs(s) == IF s.lb = <<>> THEN 1 ELSE s.lb[1]
LowerName(name) == [name EXCEPT ![1] = Lower[@]]
Ids(ns) == {ns[i].name : i \in DOMAIN ns}
CountOf(ns, type) == Cardinality({i \in DOMAIN ns : ns[i].type = type})

\* all names that a file can give rise to
Sections == UNION {ToSet(f) : f \in NodeCfgs}

ASSUME StoreAssumption ==
  /\ NodeCfgs # {} /\ LocalHost \subseteq LocalAddrs
  /\ \A f \in NodeCfgs : f \in Seq(Sections)
  /\ \A s \in Sections :
       s.lb \in Seq(Int) /\ s.pin_cpus \in Seq(Int) /\ s.lb_interfaces \in Seq(ToSet(s.lb_interfaces))

NamesOf(s) == IF s.lb = <<>> THEN {s.name} ELSE {Append(s.name, k) : k \in 1 .. NumProcs(s)}
AllNames == UNION {NamesOf(s) : s \in Sections}

-----------------------------------------------------------------------------
(* _check_node().                                                          *)

SectionFails(s) ==
  \/ s.type \notin ToSet(TypeOrder) \/ s.host \notin DOMAIN Addr
  \/ s.lb # <<>> /\ (s.type # "worker" \/ s.lb[1] < 1 \/ s.lb_method \notin Methods)
  \/ s.lb = <<>> /\ s.lb_method # "none"
  \/ s.lb_method = "interfaces" /\ Len(s.lb_interfaces) # NumProcs(s)
  \/ \E i \in DOMAIN s.pin_cpus : s.pin_cpus[i] < 0

(* Mutant: all copies have the first CPU. *)
PinFirst(s, k) == IF s.pin_cpus = <<>> THEN NoCpu ELSE s.pin_cpus[1]

(* The list of CPUs is repeated if it is too short. *)
Pin(s, k) == IF s.pin_cpus = <<>> THEN NoCpu ELSE s.pin_cpus[((k - 1) % Len(s.pin_cpus)) + 1]

(* Interfaces are taken from the end of the list. *)
Interface(s, k) ==
  IF s.lb_method = "interfaces" THEN s.lb_interfaces[Len(s.lb_interfaces) + 1 - k] ELSE s.interface

(* The k-th of the nodes of a section. *)
Copy(s, k) ==
  [name |-> IF s.lb = <<>> THEN s.name ELSE Append(s.name, k), type |-> s.type, host |-> s.host,
   count |-> CountOf(building, s.type) + k, interface |-> Interface(s, k), pin_cpus |-> Pin(s, k),
   lb_method |-> s.lb_method]

(* The first one is added last. *)
Copies(s) == [i \in 1 .. NumProcs(s) |-> Copy(s, IF i = NumProcs(s) THEN 1 ELSE i + 1)]

(* Mutant: only equal names are duplicates. *)
DuplicateExact(ns) == \E i, j \in DOMAIN ns : i # j /\ ns[i].name = ns[j].name

(* add_node(): names that differ only by case are duplicates. *)
Duplicate(ns) == \E i, j \in DOMAIN ns : i # j /\ LowerName(ns[i].name) = LowerName(ns[j].name)

(* _read_nodes(); an error leaves the nodes of before in use. *)
BeginReading ==
  /\ cfg' = file /\ rest' = file /\ building' = <<>> /\ phase' = "reading"
  /\ UNCHANGED store

ReadSection ==
  /\ phase = "reading" /\ rest # <<>>
  /\ LET new == building \o Copies(Head(rest)) IN
     IF SectionFails(Head(rest)) \/ Duplicate(new)
     THEN phase' = "error" /\ UNCHANGED <<rest, building>>
     ELSE rest' = Tail(rest) /\ building' = new /\ UNCHANGED phase
  /\ UNCHANGED <<cfg, store>>

-----------------------------------------------------------------------------
(* _check_nodestore().                                                     *)

OfType(ns, type) == {n \in ToSet(ns) : n.type = type}

Invalid(ns) ==
  \/ ns = <<>> \/ CountOf(ns, "manager") > 1
  \/ \E n \in OfType(ns, "manager") \cup OfType(ns, "standalone") : Addr[n.host] \notin LocalAddrs
  \/ IF OfType(ns, "standalone") # {} THEN Len(ns) > 1
     ELSE OfType(ns, "manager") = {} \/ OfType(ns, "proxy") = {}
  \/ /\ \E n \in OfType(ns, "manager") : Addr[n.host] \in LocalHost
     /\ \E n \in ToSet(ns) : n.type # "manager" /\ Addr[n.host] \notin LocalHost

CheckNodestore ==
  /\ phase = "reading" /\ rest = <<>>
  /\ phase' = IF Invalid(building) THEN "error" ELSE "read"
  /\ store' = IF Invalid(building) THEN store ELSE building
  /\ UNCHANGED <<cfg, rest, building>>

-----------------------------------------------------------------------------
(* What is derived.                                                        *)

(* The option that initPostPlugins() sets. *)
Standalone == Len(store) = 1

(* sortnode(). *)
Before(a, b) == Rank[a.type] < Rank[b.type] \/ (a.type = b.type /\ a.count < b.count)
Sorted(ns) == [i \in 1 .. Cardinality(ns) |-> CHOOSE n \in ns : Cardinality({k \in ns : Before(k, n)}) = i - 1]

(* nodes(tag) of all nodes, of a group, or of a name. *)
Named(tag) == {n \in ToSet(store) : tag = "all" \/ n.type = tag \/ n.name = <<tag>>}

(* node_args(): with "hosts" one node for each host, with "types" for each type. *)
NodeArgs(ns, choose) ==
  Sorted({n \in ns : \A k \in ns :
    Before(k, n) => (choose = "hosts" => k.host # n.host) /\ (choose = "types" => k.type # n.type)})

(* make_layout(): the first port is that of the standalone node, or of "control",
   which is no node; the manager comes before the others. *)
LayoutOrder == Sorted(OfType(store, "standalone") \cup OfType(store, "manager"))
  \o Sorted({n \in ToSet(store) : n.type \notin {"standalone", "manager"}})

Layout ==
  LET order == LayoutOrder
      first == IF Standalone THEN 0 ELSE 1
  IN  [name \in Ids(order) |-> first + CHOOSE i \in DOMAIN order : order[i].name = name]

(* LBPFRing.init(): numbers for the nodes with an interface such as zc:eth0.
   The number goes back to the first with the first node of an interface of a
   host, and is else one more than that of the node before -- of any host. *)
PfRing ==
  LET ns == Sorted({n \in OfType(store, "worker") : n.lb_method = "pf_ring"})
      new(i) == \A j \in 1 .. i - 1 : ns[j].host # ns[i].host \/ ns[j].interface # ns[i].interface
  IN  [i \in DOMAIN ns |-> [node |-> ns[i], instance |->
         i - CHOOSE j \in 1 .. i : new(j) /\ \A k \in j + 1 .. i : ~new(k)]]

-----------------------------------------------------------------------------
(* Properties.                                                             *)

(* The nodes of a cluster can be told from each other: by their names, whatever
   the case; by type and number, so that every list of nodes has one order; and
   by port, which none shares with "control" either. *)
NodesDiffer ==
  phase = "read" =>
    /\ \A i, j \in DOMAIN store : i # j => LowerName(store[i].name) # LowerName(store[j].name)
    /\ \A t \in ToSet(TypeOrder) : {n.count : n \in OfType(store, t)} = 1 .. CountOf(store, t)
    /\ LET port == Layout IN
       \A a \in Ids(store) : (Standalone \/ port[a] > 1) /\ \A b \in Ids(store) \ {a} : port[a] # port[b]

(* The workers of a section share its interfaces and CPUs evenly: each
   interface is one node's, and each CPU as many nodes' as another, plus one.
   PF_RING's numbers differ for the processes of an interface of a host, if all
   these come after each other. *)
EvenShares ==
  phase = "read" =>
    /\ \A i \in DOMAIN cfg :
         LET s == cfg[i]
             ns == {n \in ToSet(store) : s.lb # <<>> /\ n.name \in NamesOf(s)}
         IN  ns # {} =>
               /\ s.lb_method = "interfaces" => {n.interface : n \in ns} = ToSet(s.lb_interfaces)
               /\ \A c, d \in ToSet(s.pin_cpus) :
                    Cardinality({n \in ns : n.pin_cpus = c}) <= Cardinality({n \in ns : n.pin_cpus = d}) + 1
    /\ LET rings == PfRing
           same(i, k) == rings[k].node.host = rings[i].node.host /\ rings[k].node.interface = rings[i].node.interface
       IN  \A i, j \in DOMAIN rings :
             i < j /\ (\A k \in i .. j : same(i, k)) => rings[i].instance # rings[j].instance
=============================================================================
