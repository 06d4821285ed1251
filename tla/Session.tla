------------------------------- MODULE Session ------------------------------
(***************************************************************************)
(* The commands of one zeekctl process after the other: hooks of plugins   *)
(* around a command, commands that consist of commands, and what they do   *)
(* to the ports -- on record, in the installed layout, and listened on.    *)
(*                                                                         *)
(* A command in progress is a stack of frames, one for each command that   *)
(* has called another.  The user may edit node.cfg at any time.            *)
(***************************************************************************)
EXTENDS NodeStore, Plugins, Events

CONSTANTS
  First, Edited, \* those of NodeCfgs at the beginning, and after an edit
  Calls,        \* the commands given, with the nodes: "all", a type, or a name
  MaxCommands, MaxEdits, MaxFaults   \* bounds

Queries == {"netstats", "print", "peerstatus"}
Reports == {"status", "top", "diag", "capstats", "df", "scripts"}
NodeCmds == {"start", "stop", "restart", "clean restart", "check", "cleanup"} \cup Queries \cup Reports
PlainReports == {"nodes", "config", "exec", "process"}
PlainCmds == {"install", "deploy"} \cup PlainReports

\* A node that moves to another host is the subject of Shell, and not of this module.
ASSUME SessionAssumption ==
  /\ First \cup Edited \subseteq NodeCfgs
  /\ \A c \in Calls : c[1] \in NodeCmds \/ (c[1] \in PlainCmds /\ c[2] = "all")
  /\ Nodes = AllNames /\ \A s \in Sections : \A n \in NamesOf(s) : Host[n] = s.host
  /\ \A s, t \in Sections : NamesOf(s) \cap NamesOf(t) # {} => s.host = t.host

VARIABLES
  stack,        \* the frames, the top first
  ok,           \* the outcome of the last command that returned
  raised,       \* an exception has ended the process
  due,          \* history: pre hooks called, post hooks not yet
  layout,       \* the ports in the installed layout
  commands, edits, faults

control == <<stack, ok, raised, due>>
world == <<layout, listen, ports>>
vars == <<file, sVars, active, control, world, eVars, commands, edits, faults>>

Init ==
  /\ file \in First /\ cfg = file /\ rest = file
  /\ building = <<>> /\ store = <<>> /\ phase = "reading" /\ active = {}
  /\ stack = <<>> /\ ok = TRUE /\ raised = FALSE /\ due = {}
  /\ ports = [n \in Nodes |-> 0] /\ layout = ports /\ listen = ports
  /\ query = NoQuery /\ peers = <<>> /\ pending = {} /\ inbox = <<>> /\ results = <<>>
  /\ commands = 0 /\ edits = 0 /\ faults = 0

Frame == Head(stack)
Pop == stack' = Tail(stack)
Working == stack # <<>> /\ ~raised /\ phase = "valid" /\ query.at = "none"
OpenIdle == stack = <<>> /\ ~raised /\ phase = "valid"
Raise == raised' = TRUE /\ UNCHANGED <<stack, ok, due>>

-----------------------------------------------------------------------------
(* Commands.                                                               *)

(* Mutant: the new layout is installed after the nodes were started. *)
BodyInstallLast(cmd) ==
  CASE cmd = "restart" -> <<"stop", "start">>
    [] cmd = "clean restart" -> <<"stop", "cleanup", "check", "install", "start">>
    [] cmd = "deploy" -> <<"reload", "check", "stop", "start", "install">>
    [] OTHER -> <<"do">>

(* What a command consists of. *)
Body(cmd) ==
  CASE cmd = "restart" -> <<"stop", "start">>
    [] cmd = "clean restart" -> <<"stop", "cleanup", "check", "install", "start">>
    [] cmd = "deploy" -> <<"reload", "check", "install", "stop", "start">>
    [] OTHER -> <<"do">>

Composite(cmd) == Body(cmd) # <<"do">>
Hook(cmd) == IF cmd = "clean restart" THEN "restart" ELSE cmd

(* The nodes for which a command is called: netstats takes the workers of a
   cluster, df one node of each host, and deploy checks one of each type. *)
Selected(cmd, arg) ==
  LET tag == IF cmd = "netstats" /\ arg = "all" /\ ~Standalone THEN "worker" ELSE arg IN
  Ids(NodeArgs(Named(IF tag = "types" THEN "all" ELSE tag),
               IF cmd = "df" THEN "hosts" ELSE IF tag = "types" THEN "types" ELSE "all"))

(* Mutant: a plain command that is refused returns at once. *)
EnterNoPost(cmd, arg, below) ==
  LET allowed == cmd \in NodeCmds \/ Allowed(Hook(cmd))
      selected == IF cmd \in NodeCmds THEN Selected(cmd, arg) ELSE {}
  IN /\ due' = (IF below = <<>> THEN {} ELSE due) \cup {cmd}
     /\ ok' = allowed /\ UNCHANGED raised
     /\ stack' = IF ~allowed THEN below
                 ELSE <<[cmd |-> cmd, arg |-> arg, todo |-> Body(cmd), nodes |-> Filter(Hook(cmd), selected)]>> \o below

(* The pre hooks of a command; deploy's post hooks are left out if it is refused. *)
Enter(cmd, arg, below) ==
  LET allowed == cmd \in NodeCmds \/ Allowed(Hook(cmd))
      selected == IF cmd \in NodeCmds THEN Selected(cmd, arg) ELSE {}
      frame == [cmd |-> cmd, arg |-> arg, todo |-> IF allowed THEN Body(cmd) ELSE <<>>,
                nodes |-> Filter(Hook(cmd), selected)]
  IN IF cmd \in NodeCmds /\ selected = {}
     THEN Raise
     ELSE /\ due' = (IF below = <<>> THEN {} ELSE due) \cup {cmd}
          /\ ok' = allowed /\ UNCHANGED raised
          /\ stack' = IF cmd = "deploy" /\ ~allowed THEN below ELSE <<frame>> \o below

Call ==
  /\ OpenIdle /\ commands < MaxCommands /\ commands' = commands + 1
  /\ \E c \in Calls : Enter(c[1], c[2], <<>>)
  /\ UNCHANGED <<file, sVars, active, world, eVars, edits, faults>>

Nested ==
  /\ Working /\ ok /\ Composite(Frame.cmd) /\ Frame.todo # <<>> /\ Head(Frame.todo) # "reload"
  /\ LET cmd == Head(Frame.todo)
         arg == IF Frame.cmd = "deploy" /\ cmd = "check" THEN "types" ELSE Frame.arg
     IN  Enter(cmd, arg, <<[Frame EXCEPT !.todo = Tail(@)]>> \o Tail(stack))
  /\ UNCHANGED <<file, sVars, active, world, eVars, commands, edits, faults>>

(* A part has failed: the rest is left out, and the post hooks with it. *)
GiveUp ==
  /\ Working /\ ~ok /\ Composite(Frame.cmd) /\ Frame.todo # <<>> /\ Pop
  /\ UNCHANGED <<ok, raised, due>>
  /\ UNCHANGED <<file, sVars, active, world, eVars, commands, edits, faults>>

Post ==
  /\ Working /\ Frame.todo = <<>> /\ Pop /\ due' = due \ {Frame.cmd}
  /\ UNCHANGED <<ok, raised>>
  /\ UNCHANGED <<file, sVars, active, world, eVars, commands, edits, faults>>

(* deploy reads the configuration again if it has changed. *)
Reload ==
  /\ Working /\ Frame.todo # <<>> /\ Head(Frame.todo) = "reload"
  /\ stack' = <<[Frame EXCEPT !.todo = Tail(@)]>> \o Tail(stack)
  /\ IF file # cfg THEN BeginReading ELSE UNCHANGED sVars
  /\ UNCHANGED <<ok, raised, due>>
  /\ UNCHANGED <<file, active, world, eVars, commands, edits, faults>>

-----------------------------------------------------------------------------
(* What the commands do.                                                   *)

Does(cmds) == Working /\ Frame.todo = <<"do">> /\ Frame.cmd \in cmds
Ends(success) == ok' = success /\ stack' = <<[Frame EXCEPT !.todo = <<>>]>> \o Tail(stack)

(* Some steps fail, up to the bound. *)
Fails(cond) == IF cond THEN faults < MaxFaults /\ faults' = faults + 1 ELSE UNCHANGED faults

(* make_layout() records the ports before it writes the file. *)
Install ==
  /\ Does({"install"})
  /\ LET new == Layout @@ ports IN \E done \in 0 .. 3 :
       /\ ports' = IF done > 0 THEN new ELSE ports
       /\ layout' = IF done > 1 THEN [n \in Nodes |-> IF n \in Ids(store) THEN new[n] ELSE 0] ELSE layout
       /\ Fails(done < 3) /\ Ends(done = 3)
  /\ UNCHANGED listen

(* Every node that is checked gets a layout of its own, of all nodes. *)
Check ==
  /\ Does({"check"})
  /\ ports' = IF Frame.nodes = {} THEN ports ELSE Layout @@ ports
  /\ \E success \in BOOLEAN : Fails(~success) /\ Ends(success)
  /\ UNCHANGED <<layout, listen>>

Stop ==
  /\ Does({"stop"})
  /\ \E stays \in SUBSET {n \in Frame.nodes : listen[n] # 0} :
       /\ listen' = [n \in Nodes |-> IF n \in Frame.nodes \ stays THEN 0 ELSE listen[n]]
       /\ Fails(stays # {}) /\ Ends(stays = {})
  /\ UNCHANGED <<layout, ports>>

(* A node comes up if the layout has it and its port is free. *)
Free(n) == layout[n] # 0 /\ \A k \in Nodes : Host[k] = Host[n] => listen[k] # layout[n]

Start ==
  /\ Does({"start"})
  /\ LET starts == {n \in Frame.nodes : listen[n] = 0} IN
     \E broken \in SUBSET {n \in starts : Free(n)} :
       /\ listen' = [n \in Nodes |-> IF n \in starts \ broken /\ Free(n) THEN layout[n] ELSE listen[n]]
       /\ Fails(broken # {}) /\ Ends(broken = {} /\ \A n \in starts : Free(n))
  /\ UNCHANGED <<layout, ports>>

(* Commands that change nothing this module has. *)
Other ==
  /\ Does({"cleanup"} \cup Reports \cup PlainReports)
  /\ \E success \in BOOLEAN : Fails(~success) /\ Ends(success)
  /\ UNCHANGED world

Do ==
  /\ Install \/ Check \/ Stop \/ Start \/ Other
  /\ UNCHANGED <<raised, due, file, sVars, active, eVars, commands, edits>>

(* Only running nodes are asked. *)
BeginQuery ==
  /\ Does(Queries)
  /\ LET runs == Sorted({n \in ToSet(store) : n.name \in Frame.nodes /\ listen[n.name] # 0})
         server == \E n \in OfType(store, "manager") \cup OfType(store, "standalone") : listen[n.name] # 0
     IN  \E backend \in Backends :
           Begin([i \in DOMAIN runs |-> runs[i].name], backend, Standalone, server)
  /\ UNCHANGED <<file, sVars, active, control, world, commands, edits, faults>>

Ask == Client /\ UNCHANGED <<file, sVars, active, control, world, commands, edits, faults>>
NodeReplies == Reply /\ UNCHANGED <<file, sVars, active, control, world, commands, edits, faults>>

(* If there are no results, the first node is said not to run -- and if the
   plugins have left no node, there is no first. *)
EndQuery ==
  /\ query.at \in {"done", "raised"} /\ ~raised
  /\ IF query.at = "raised" \/ Frame.nodes = {}
     THEN Raise
     ELSE Ends(results # <<>> /\ \A i \in DOMAIN results : results[i].success) /\ UNCHANGED <<raised, due>>
  /\ Idle
  /\ UNCHANGED <<file, sVars, active, world, commands, edits, faults>>

-----------------------------------------------------------------------------
(* Processes.                                                              *)

Read ==
  /\ ~raised /\ (ReadSection \/ CheckNodestore)
  /\ raised' = (phase' = "error" /\ stack # <<>>)
  /\ UNCHANGED <<file, active, stack, ok, due, world, eVars, commands, edits, faults>>

Initialised ==
  /\ phase = "read" /\ phase' = "valid" /\ InitPlugins
  /\ UNCHANGED <<file, cfg, rest, building, store, control, world, eVars, commands, edits, faults>>

(* A new process, after an error or to have the edited file. *)
NewProcess ==
  /\ (raised \/ phase = "error" \/ (OpenIdle /\ file # cfg))
  /\ BeginReading /\ stack' = <<>> /\ raised' = FALSE /\ due' = {} /\ ok' = TRUE
  /\ UNCHANGED <<file, active, world, eVars, commands, edits, faults>>

Edit ==
  /\ edits < MaxEdits /\ edits' = edits + 1 /\ file' \in Edited \ {file}
  /\ UNCHANGED <<sVars, active, control, world, eVars, commands, faults>>

Work == Nested \/ GiveUp \/ Post \/ Reload \/ Do \/ BeginQuery \/ Ask \/ EndQuery \/ Read \/ Initialised
Next == Call \/ Work \/ NodeReplies \/ NewProcess \/ Edit

\* zeekctl goes on with its work; nobody has to reply to it.
Spec == Init /\ [][Next]_vars /\ WF_vars(Work)

-----------------------------------------------------------------------------
(* Properties.                                                             *)

DroppedFrom(cmd) == UNION {DroppedBy(p, cmd) : p \in active}

(* A command never starts or stops a node that an active plugin has taken off
   the list: it runs on the intersection of what all plugins return. *)
FilterHolds ==
  [][\A n \in Nodes : listen'[n] # listen[n] => n \notin DroppedFrom(Frame.cmd)]_vars

(* Each plugin that was told that a command begins is told that it has ended,
   also if a plugin has refused it -- except for restart and deploy, if a
   command that they consist of has failed, and deploy, if it is refused. *)
PostUnlessFailed == OpenIdle /\ due # {} => ~ok /\ due \subseteq {"restart", "clean restart", "deploy"}

(* After a successful deploy, or restart --clean, all running nodes that no
   plugin has kept from being stopped listen on the ports on record, so that
   queries find them -- whatever failed and was edited before. *)
DeployAgrees ==
  [][Post /\ Tail(stack) = <<>> /\ ok /\ Frame.cmd \in {"deploy", "clean restart"} /\ Frame.arg = "all" =>
       \A n \in Ids(store) \ DroppedFrom("stop") : listen[n] \in {0, ports[n]}]_vars

(* Every command ends, or ends its process, whoever does not reply. *)
CommandEnds == []<>(stack = <<>> \/ raised)
=============================================================================
