---------------------------- MODULE CommandCalls ----------------------------
(***************************************************************************)
(* What Executor.run_cmds() (execute.py) promises: of each call, every     *)
(* command gets one result, its own output or an error -- except that a    *)
(* host that the caller has stopped waiting for has one error in all.      *)
(***************************************************************************)
EXTENDS Integers, Sequences

CONSTANTS NHosts, MaxCmd,
          Late  \* hosts that the caller may stop waiting for

VARIABLES call,  \* the number of the current or last call
          cnt,   \* the number of its commands on each host
          togo,  \* the hosts without results
          got    \* the results of each host

vars == <<call, cnt, togo, got>>
Hosts == 1 .. NHosts

Own(c, i) == [job |-> c, i |-> i]
Failed == [job |-> 0, i |-> 0]

Init == /\ call = 0 /\ togo = {}
        /\ cnt = [h \in Hosts |-> 0]
        /\ got = [h \in Hosts |-> <<>>]

Call ==
  /\ togo = {}
  /\ call' = call + 1
  /\ cnt' \in [Hosts -> 0 .. MaxCmd]
  /\ togo' = {h \in Hosts : cnt'[h] > 0}
  /\ got' = [h \in Hosts |-> <<>>]

Results(h) ==
  {res \in [1 .. cnt[h] -> {Failed} \cup {Own(call, i) : i \in 1 .. cnt[h]}] :
     \A i \in 1 .. cnt[h] : res[i] \in {Failed, Own(call, i)}}

Answer(h) ==
  /\ h \in togo
  /\ togo' = togo \ {h}
  /\ \E res \in Results(h) \cup (IF h \in Late THEN {<<Failed>>} ELSE {}) :
       got' = [got EXCEPT ![h] = res]
  /\ UNCHANGED <<call, cnt>>

Next == Call \/ \E h \in Hosts : Answer(h)

Spec == Init /\ [][Next]_vars
=============================================================================
