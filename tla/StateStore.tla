----------------------------- MODULE StateStore -----------------------------
(***************************************************************************)
(* ZeekControl's dynamic state: the key/value table of state.py, and the   *)
(* copy of it that every zeekctl process keeps (config.py).  set_state()   *)
(* writes through, unless the process believes that the value is there     *)
(* already; a copy is only renewed as a whole, by read_state().            *)
(***************************************************************************)
EXTENDS Naturals

CONSTANTS
  Procs,      \* zeekctl processes
  Nodes,      \* node names, also those that a configuration does not have
  None        \* no value (NULL)

Files == {"zeekctl.cfg", "node.cfg"}
Items == Files \cup {"zeek"}            \* what an installation is made from

CronEnabled == <<"cronenabled">>
Chksum(f) == <<"chksum", f>>            \* configchksum, confignodechksum
Mark(i) == <<"installed", i>>           \* hash-zeekctlcfg, hash-nodecfg, zeekversion
Pid(n) == <<"pid", n>>
Host(n) == <<"host", n>>

NodeKeys(n) == {Pid(n), Host(n)}
Keys == {CronEnabled} \cup {Chksum(f) : f \in Files} \cup {Mark(i) : i \in Items}
        \cup UNION {NodeKeys(n) : n \in Nodes}

VARIABLES
  db,         \* the table in state.db
  cache       \* Configuration.state of each process

store == <<db, cache>>

(* Writes the keys of f one after the other, with nobody in between: the
   interleavings that matter are those of the callers' steps. *)
set_states(p, f) ==
  /\ cache' = [cache EXCEPT ![p] = [k \in Keys |-> IF k \in DOMAIN f THEN f[k] ELSE @[k]]]
  /\ db' = [k \in Keys |-> IF k \in DOMAIN f /\ cache[p][k] # f[k] THEN f[k] ELSE db[k]]

set_state(p, k, v) == set_states(p, [key \in {k} |-> v])

get_state(p, k) == cache[p][k]

read_state(p) == cache' = [cache EXCEPT ![p] = db] /\ UNCHANGED db
=============================================================================
