------------------------------- MODULE Plugins ------------------------------
(***************************************************************************)
(* The plugin registry.  Plugins are asked before a command whether it may *)
(* run, and on which nodes, and are told afterwards.  An active plugin is  *)
(* one whose init() has returned True since node.cfg was read.             *)
(***************************************************************************)
EXTENDS Integers, Sequences, SequencesExt

CONSTANTS
  Loaded,       \* the plugins, in the order they were loaded
  Vetoes,       \* the commands a plugin returns False for, and
  Drops         \* for each command, the names of nodes it takes off the list

ASSUME PluginsAssumption ==
  /\ Loaded \in Seq(ToSet(Loaded))
  /\ DOMAIN Vetoes = ToSet(Loaded) /\ DOMAIN Drops = ToSet(Loaded)

VARIABLE active   \* the activated plugins

(* initPlugins(): init() may return False, or fail. *)
InitPlugins == active' \in SUBSET ToSet(Loaded)

DroppedBy(p, cmd) == IF cmd \in DOMAIN Drops[p] THEN Drops[p][cmd] ELSE {}

(* Mutant: every plugin is given the whole list. *)
FilterLast(cmd, names) ==
  LET left[i \in 0 .. Len(Loaded)] ==
        IF i = 0 THEN names
        ELSE IF Loaded[i] \in active THEN names \ DroppedBy(Loaded[i], cmd) ELSE left[i - 1]
  IN  left[Len(Loaded)]

(* cmdPreWithNodes(): each plugin gets what the one before has left. *)
Filter(cmd, names) ==
  LET left[i \in 0 .. Len(Loaded)] ==
        IF i = 0 THEN names
        ELSE IF Loaded[i] \in active THEN left[i - 1] \ DroppedBy(Loaded[i], cmd) ELSE left[i - 1]
  IN  left[Len(Loaded)]

(* cmdPre(): all are asked, and each may refuse. *)
Allowed(cmd) == \A p \in active : cmd \notin Vetoes[p]
=============================================================================
