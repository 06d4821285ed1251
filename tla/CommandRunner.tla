---------------------------- MODULE CommandRunner ----------------------------
(***************************************************************************)
(* ssh_runner.py under Executor.run_cmds(): the main thread hands the      *)
(* commands of a call to one handler thread per host and collects their    *)
(* results host by host; a handler checks its connection with a ping, runs *)
(* the commands in a RemoteShell and answers on the queue of the call.     *)
(* A handler that the main thread has stopped waiting for is told to end,  *)
(* and replaced by a new one when there are commands for the host again;   *)
(* <<h, g>> is the g-th handler of host h.                                 *)
(***************************************************************************)
EXTENDS RemoteShell, FiniteSets

CONSTANTS
  Late,      \* hosts that get_result() may stop waiting for
  IdlePings  \* may a handler have nothing to do for 30 seconds?

ASSUME RunnerAssumption == Late \subseteq Hosts /\ IdlePings \in BOOLEAN

VARIABLES
  call,      \* main thread: number of the current or last call
  cnt,       \* its number of commands for each host
  togo,      \* the hosts it has not collected results of
  got,       \* the results collected
  rq,        \* response queue of the call for each host: empty, or the results
  master,    \* masters[host]: its current handler; 0: none
  finished,  \* finish() was called
  queue,     \* handler: its queue q
  pc,        \* where it is
  cur,       \* the item it has taken from q
  job,       \* what its connection is used for: Ping or the call of cur
  alive,     \* the flag of this name
  outputs    \* the results read so far

main == <<call, cnt, togo, got, master, finished>>
handler == <<pc, cur, job, alive, outputs>>
vars == <<line, main, rq, queue, handler>>

Own(c, i) == [job |-> c, i |-> i]
Failed == [job |-> Ping, i |-> 0]   \* an Exception
Answers == [job : Jobs, i : 0 .. MaxCmd]
Failures(n) == [i \in 1 .. n |-> Failed]

Stop == [call |-> 0, n |-> 0]       \* STOP_RUNNING; as cur: an idle ping
Items == [call : 0 .. MaxCall, n : 0 .. MaxCmd]

PCs == {"off", "get", "ping", "ready", "collect", "exec", "ended"}

TypeOK ==
  /\ LineTypeOK
  /\ call \in 0 .. MaxCall /\ cnt \in [Hosts -> 0 .. MaxCmd]
  /\ togo \in SUBSET Hosts /\ finished \in BOOLEAN
  /\ got \in [Hosts -> Seq(Answers)] /\ rq \in [Hosts -> Seq(Answers)]
  /\ master \in [Hosts -> 0 .. MaxCall]
  /\ queue \in [Threads -> Seq(Items)] /\ pc \in [Threads -> PCs]
  /\ cur \in [Threads -> Items] /\ job \in [Threads -> Jobs]
  /\ alive \in [Threads -> BOOLEAN] /\ outputs \in [Threads -> Seq(Answers)]

Init ==
  /\ LineInit
  /\ call = 0 /\ togo = {} /\ finished = FALSE
  /\ cnt = [h \in Hosts |-> 0]
  /\ got = [h \in Hosts |-> <<>>] /\ rq = [h \in Hosts |-> <<>>]
  /\ master = [h \in Hosts |-> 0]
  /\ queue = [t \in Threads |-> <<>>] /\ pc = [t \in Threads |-> "off"]
  /\ cur = [t \in Threads |-> Stop] /\ job = [t \in Threads |-> Ping]
  /\ alive = [t \in Threads |-> FALSE] /\ outputs = [t \in Threads |-> <<>>]

-----------------------------------------------------------------------------
(* The main thread.                                                        *)

(* setup(): the handler of a host, a new thread if it has none.  A call
   makes at most one. *)
Handler(h) == <<h, IF master[h] = 0 THEN call + 1 ELSE master[h]>>

(* exec_multihost_commands() up to the collection of results: for each host
   with commands a handler, an empty response queue and an entry in its q. *)
Call(n) ==
  /\ togo = {} /\ ~finished /\ call < MaxCall
  /\ n \in [Hosts -> 0 .. MaxCmd] /\ \E h \in Hosts : n[h] > 0
  /\ LET hs == {h \in Hosts : n[h] > 0} IN
     /\ togo' = hs
     /\ master' = [h \in Hosts |-> IF h \in hs THEN Handler(h)[2] ELSE master[h]]
     /\ pc' = [t \in Threads |-> IF t[1] \in hs /\ t = Handler(t[1]) /\ pc[t] = "off"
                                 THEN "get" ELSE pc[t]]
     /\ queue' = [t \in Threads |->
                    IF t[1] \in hs /\ t = Handler(t[1])
                    THEN Append(queue[t], [call |-> call + 1, n |-> n[t[1]]]) ELSE queue[t]]
     /\ rq' = [h \in Hosts |-> IF h \in hs THEN <<>> ELSE rq[h]]
  /\ call' = call + 1 /\ cnt' = n
  /\ got' = [h \in Hosts |-> <<>>]
  /\ UNCHANGED <<line, finished, cur, job, alive, outputs>>

(* The hosts are collected one after the other. *)
Turn(h) == h \in togo /\ \A k \in togo : h <= k

GetResult(h) ==
  /\ Turn(h) /\ rq[h] # <<>>
  /\ got' = [got EXCEPT ![h] = rq[h]]
  /\ rq' = [rq EXCEPT ![h] = <<>>]
  /\ togo' = togo \ {h}
  /\ UNCHANGED <<line, call, cnt, master, finished, queue, handler>>

Tell(h) == queue' = [queue EXCEPT ![<<h, master[h]>>] = Append(@, Stop)]

(* Mutant: the other hosts are not asked for their results any more. *)
GiveUpAll(h) ==
  /\ Turn(h) /\ rq[h] = <<>> /\ h \in Late
  /\ Tell(h)
  /\ master' = [master EXCEPT ![h] = 0]
  /\ got' = [got EXCEPT ![h] = <<Failed>>]
  /\ togo' = {}
  /\ UNCHANGED <<line, call, cnt, rq, finished, handler>>

(* get_result() times out: the handler is told to end and forgotten, and the
   host has a single error ("FIXME: needs to be the right length"). *)
GiveUp(h) ==
  /\ Turn(h) /\ rq[h] = <<>> /\ h \in Late
  /\ Tell(h)
  /\ master' = [master EXCEPT ![h] = 0]
  /\ got' = [got EXCEPT ![h] = <<Failed>>]
  /\ togo' = togo \ {h}
  /\ UNCHANGED <<line, call, cnt, rq, finished, handler>>

(* shutdown_all(). *)
Finish ==
  /\ togo = {} /\ ~finished
  /\ finished' = TRUE
  /\ queue' = [t \in Threads |-> IF master[t[1]] = t[2] THEN Append(queue[t], Stop)
                                                       ELSE queue[t]]
  /\ master' = [h \in Hosts |-> 0]
  /\ UNCHANGED <<line, call, cnt, togo, got, rq, handler>>

(* host_status(), which check_hosts() of cron reads between two calls. *)
HostStatus(h) == alive[<<h, master[h]>>]

-----------------------------------------------------------------------------
(* A handler thread.                                                       *)

Take(t) ==
  /\ pc[t] = "get" /\ queue[t] # <<>>
  /\ queue' = [queue EXCEPT ![t] = Tail(@)]
  /\ cur' = [cur EXCEPT ![t] = Head(queue[t])]
  /\ \/ Head(queue[t]) # Stop /\ pc' = [pc EXCEPT ![t] = "ping"] /\ UNCHANGED line
     \/ Head(queue[t]) = Stop /\ pc' = [pc EXCEPT ![t] = "ended"] /\ Close(t)
  /\ UNCHANGED <<main, rq, job, alive, outputs>>

(* Nothing in q for 30 seconds. *)
Idle(t) ==
  /\ IdlePings
  /\ pc[t] = "get" /\ queue[t] = <<>>
  /\ pc' = [pc EXCEPT ![t] = "ping"]
  /\ UNCHANGED <<line, main, rq, queue, cur, job, alive, outputs>>

(* Mutant: one response queue per host for all calls. *)
RespondAlways(t, res) == rq' = [rq EXCEPT ![t[1]] = res]

(* rq.put(); nobody reads the queue of an earlier call any more. *)
Respond(t, res) ==
  rq' = IF cur[t].call = call THEN [rq EXCEPT ![t[1]] = res] ELSE rq

(* The end of an iteration. *)
Returns(t) ==
  /\ pc' = [pc EXCEPT ![t] = "get"]
  /\ cur' = [cur EXCEPT ![t] = Stop]
  /\ job' = [job EXCEPT ![t] = Ping]
  /\ outputs' = [outputs EXCEPT ![t] = <<>>]
  /\ UNCHANGED <<main, queue>>

(* Mutant: a failed ping is not answered. *)
FailsSilently(t) ==
  /\ alive' = [alive EXCEPT ![t] = FALSE]
  /\ Returns(t) /\ UNCHANGED rq

(* The host does not answer: all commands have failed; none if it was idle. *)
Fails(t) ==
  /\ alive' = [alive EXCEPT ![t] = FALSE]
  /\ IF cur[t] = Stop THEN UNCHANGED rq ELSE Respond(t, Failures(cur[t].n))
  /\ Returns(t)

(* Mutant: a connection on which something went wrong is used on. *)
StartPingReuses(t) ==
  /\ pc[t] = "ping"
  /\ \/ /\ link[t] # "dead"
        /\ WriteScript(t, FALSE, Ping)
        /\ job' = [job EXCEPT ![t] = Ping]
        /\ alive' = [alive EXCEPT ![t] = FALSE]
        /\ pc' = [pc EXCEPT ![t] = "ready"]
        /\ UNCHANGED <<main, rq, queue, cur, outputs>>
     \/ link[t] = "dead" /\ Fails(t) /\ UNCHANGED line

(* connect_and_ping(): a new connection unless the last ping succeeded; the
   flag is down until the ping is answered. *)
StartPing(t) ==
  /\ pc[t] = "ping"
  /\ \/ /\ ~alive[t] \/ link[t] # "dead"
        /\ WriteScript(t, ~alive[t], Ping)
        /\ job' = [job EXCEPT ![t] = Ping]
        /\ alive' = [alive EXCEPT ![t] = FALSE]
        /\ pc' = [pc EXCEPT ![t] = "ready"]
        /\ UNCHANGED <<main, rq, queue, cur, outputs>>
     \/ /\ alive[t] /\ link[t] = "dead"
        /\ Fails(t) /\ UNCHANGED line

(* exec_commands() of the commands, after the ping. *)
StartExec(t) ==
  /\ pc[t] = "exec"
  /\ \/ /\ link[t] # "dead"
        /\ WriteScript(t, FALSE, cur[t].call)
        /\ job' = [job EXCEPT ![t] = cur[t].call]
        /\ pc' = [pc EXCEPT ![t] = "ready"]
        /\ UNCHANGED <<main, rq, queue, cur, alive, outputs>>
     \/ link[t] = "dead" /\ Fails(t) /\ UNCHANGED line

Size(t) == IF job[t] = Ping THEN 1 ELSE cur[t].n

(* send_commands() after the muxer script: a line or a timeout -- whichever
   it is -- and the commands are written, unless the connection has broken. *)
SendCommands(t) ==
  /\ pc[t] = "ready"
  /\ out[t] # <<>> \/ Silent(t)
  /\ \/ /\ link[t] # "dead"
        /\ inp' = [inp EXCEPT ![t] = Append(@, Commands(job[t], Size(t)))]
        /\ outputs' = [outputs EXCEPT ![t] = Failures(Size(t))]
        /\ pc' = [pc EXCEPT ![t] = "collect"]
        /\ UNCHANGED <<main, rq, queue, cur, job, alive>>
     \/ /\ link[t] = "dead"
        /\ Fails(t) /\ UNCHANGED inp
  /\ out' = [out EXCEPT ![t] = IF @ = <<>> THEN @ ELSE Tail(@)]
  /\ UNCHANGED <<link, mux>>

(* collect_results(): a result. *)
CollectResult(t) ==
  /\ pc[t] = "collect" /\ out[t] # <<>> /\ Head(out[t]).kind = "result"
  /\ outputs' = [outputs EXCEPT ![t] =
                   [@ EXCEPT ![Head(out[t]).i] = Own(Head(out[t]).job, Head(out[t]).i)]]
  /\ out' = [out EXCEPT ![t] = Tail(@)]
  /\ UNCHANGED <<link, inp, mux, main, rq, queue, pc, cur, job, alive>>

(* A line that is no result, such as a late "ready", raises an exception. *)
CollectGarbage(t) ==
  /\ pc[t] = "collect" /\ out[t] # <<>> /\ Head(out[t]).kind = "ready"
  /\ out' = [out EXCEPT ![t] = Tail(@)]
  /\ Fails(t)
  /\ UNCHANGED <<link, inp, mux>>

(* The end of ping() and of iteration(). *)
Collected(t) ==
  \/ /\ job[t] = Ping /\ outputs[t][1] = Own(Ping, 1)
     /\ alive' = [alive EXCEPT ![t] = TRUE]
     /\ IF cur[t] = Stop THEN Returns(t)
        ELSE /\ pc' = [pc EXCEPT ![t] = "exec"]
             /\ outputs' = [outputs EXCEPT ![t] = <<>>]
             /\ UNCHANGED <<main, queue, cur, job>>
     /\ UNCHANGED rq
  \/ /\ job[t] = Ping /\ outputs[t][1] # Own(Ping, 1)
     /\ Fails(t)
  \/ /\ job[t] # Ping
     /\ Respond(t, outputs[t])
     /\ Returns(t) /\ UNCHANGED alive

CollectDone(t) ==
  /\ pc[t] = "collect" /\ out[t] # <<>> /\ Head(out[t]).kind = "done"
  /\ out' = [out EXCEPT ![t] = Tail(@)]
  /\ Collected(t)
  /\ UNCHANGED <<link, inp, mux>>

(* A timeout, or the end of the connection: what has no result has failed. *)
CollectTimeout(t) ==
  /\ pc[t] = "collect" /\ Silent(t)
  /\ Close(t)
  /\ Collected(t)

-----------------------------------------------------------------------------
Handles(t) ==
  \/ Take(t) \/ StartPing(t) \/ StartExec(t) \/ SendCommands(t)
  \/ CollectResult(t) \/ CollectGarbage(t) \/ CollectDone(t) \/ CollectTimeout(t)

Main(h) == GetResult(h) \/ GiveUp(h)

Shell(t) == Works(t) /\ UNCHANGED <<main, rq, queue, handler>>
Fault(t) == (MuxerAlarm(t) \/ Drop(t)) /\ UNCHANGED <<main, rq, queue, handler>>

Next ==
  \/ \E n \in [Hosts -> 0 .. MaxCmd] : Call(n)
  \/ \E h \in Hosts : Main(h)
  \/ Finish
  \/ \E t \in Threads : Handles(t) \/ Idle(t) \/ Shell(t) \/ Fault(t)

Spec == Init /\ [][Next]_vars

Fairness ==
  /\ \A h \in Hosts : WF_vars(GetResult(h))
  /\ \A t \in Threads : WF_vars(Handles(t)) /\ WF_vars(Shell(t))

FairSpec == Spec /\ Fairness

-----------------------------------------------------------------------------
(* Properties.                                                             *)

(* run_cmds(): a node gets the result of its own command of this call, or an
   error: never the late answer of an earlier call, of a ping, or of another
   node's command. *)
OwnResults ==
  \A h \in Hosts : \A i \in 1 .. Len(got[h]) : got[h][i] \in {Failed, Own(call, i)}

(* A connection that will be used again has nothing left on it: no unread
   line, no input and no muxer of what it was used for before. *)
CleanLine ==
  \A t \in Threads :
    (pc[t] = "get" /\ alive[t] /\ link[t] = "open") \/ (pc[t] = "exec" /\ link[t] = "open") =>
      inp[t] = <<>> /\ mux[t] = NoMuxer /\ out[t] = <<>>

Healthy == Hosts \ (Slow \cup Drops \cup Late)

(* A host that answers in time has all the results of its commands, and counts
   as up whenever cron may look, whatever happens to the others. *)
FaultContained ==
  togo = {} => \A h \in Healthy :
    /\ got[h] = [i \in 1 .. cnt[h] |-> Own(call, i)]
    /\ master[h] # 0 => HostStatus(h)

(* Every call returns, even if the main thread never gives a host up; and
   zeekctl can exit: the handler threads, of which it waits for all, end. *)
CallsAndThreadsEnd ==
  /\ togo # {} ~> togo = {}
  /\ finished ~> \A t \in Threads : pc[t] \in {"off", "ended"}

(* The abstract calls. *)
Calls == INSTANCE CommandCalls
CallsSpec == Calls!Spec
=============================================================================
