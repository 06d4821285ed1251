---------------------------- MODULE RemoteShell ----------------------------
(***************************************************************************)
(* The far end of an SSHMaster (ssh_runner.py): a shell behind a pipe, over *)
(* ssh or not, to which a handler thread writes the muxer script, and then *)
(* the commands the muxer is to run.  The muxer answers "ready", a line per *)
(* command in the order they end, and "done".                              *)
(*                                                                         *)
(* A job is what one run of the muxer is for: 0 for a ping, or the number  *)
(* of a call.  A line says which job and command it is about, although the *)
(* lines of the program only have the index of the command.                *)
(***************************************************************************)
EXTENDS Integers, Sequences

CONSTANTS
  NHosts,   \* the number of hosts
  MaxCall,  \* bound on the calls, and so on the handlers a host ever has
  MaxCmd,   \* bound on the commands of a call on one host
  Slow,     \* hosts where no line may arrive before a timeout
  Drops     \* hosts to which the connection may break

Hosts == 1 .. NHosts
Threads == Hosts \X (1 .. MaxCall)
Ping == 0
Jobs == Ping .. MaxCall

ASSUME ShellAssumption ==
  /\ NHosts \in Nat \ {0} /\ MaxCall \in Nat \ {0} /\ MaxCmd \in Nat \ {0}
  /\ Slow \subseteq Hosts /\ Drops \subseteq Hosts

VARIABLES
  link,  \* the ssh process of a thread: "none" (need_connect), "open" or "dead"
  inp,   \* what it was sent and the shell has not read
  mux,   \* the muxer that the shell is running
  out    \* lines that the thread has not read

line == <<link, inp, mux, out>>

Script(j) == [kind |-> "script", job |-> j, n |-> 0]
Commands(j, n) == [kind |-> "commands", job |-> j, n |-> n]
Inputs == [kind : {"script", "commands"}, job : Jobs, n : 0 .. MaxCmd]

Ready(j) == [kind |-> "ready", job |-> j, i |-> 0]
Output(j, i) == [kind |-> "result", job |-> j, i |-> i]
Done(j) == [kind |-> "done", job |-> j, i |-> 0]
Lines == [kind : {"ready", "result", "done"}, job : Jobs, i : 0 .. MaxCmd]

Muxer(at, j, todo) == [at |-> at, job |-> j, todo |-> todo]
NoMuxer == Muxer("off", Ping, {})
Muxers == [at : {"off", "reading", "running"}, job : Jobs, todo : SUBSET (1 .. MaxCmd)]

LineTypeOK ==
  /\ link \in [Threads -> {"none", "open", "dead"}]
  /\ inp \in [Threads -> Seq(Inputs)]
  /\ mux \in [Threads -> Muxers]
  /\ out \in [Threads -> Seq(Lines)]

LineInit ==
  /\ link = [t \in Threads |-> "none"]
  /\ inp = [t \in Threads |-> <<>>]
  /\ mux = [t \in Threads |-> NoMuxer]
  /\ out = [t \in Threads |-> <<>>]

Says(t, l) == out' = [out EXCEPT ![t] = Append(@, l)]

-----------------------------------------------------------------------------
(* The shell and the muxer.                                                *)

StartMuxer(t) ==
  /\ link[t] = "open" /\ mux[t].at = "off"
  /\ inp[t] # <<>> /\ Head(inp[t]).kind = "script"
  /\ inp' = [inp EXCEPT ![t] = Tail(@)]
  /\ mux' = [mux EXCEPT ![t] = Muxer("reading", Head(inp[t]).job, {})]
  /\ Says(t, Ready(Head(inp[t]).job))
  /\ UNCHANGED link

ReadCommands(t) ==
  /\ link[t] = "open" /\ mux[t].at = "reading"
  /\ inp[t] # <<>> /\ Head(inp[t]).kind = "commands"
  /\ inp' = [inp EXCEPT ![t] = Tail(@)]
  /\ mux' = [mux EXCEPT ![t] = Muxer("running", @.job, 1 .. Head(inp[t]).n)]
  /\ UNCHANGED <<link, out>>

(* The commands run in parallel. *)
CommandEnds(t, i) ==
  /\ link[t] = "open" /\ mux[t].at = "running" /\ i \in mux[t].todo
  /\ mux' = [mux EXCEPT ![t] = Muxer("running", @.job, @.todo \ {i})]
  /\ Says(t, Output(mux[t].job, i))
  /\ UNCHANGED <<link, inp>>

MuxerEnds(t) ==
  /\ link[t] = "open" /\ mux[t].at = "running" /\ mux[t].todo = {}
  /\ mux' = [mux EXCEPT ![t] = NoMuxer]
  /\ Says(t, Done(mux[t].job))
  /\ UNCHANGED <<link, inp>>

(* The alarm that the muxer sets for itself. *)
MuxerAlarm(t) ==
  /\ link[t] = "open" /\ mux[t].at = "running" /\ t[1] \in Slow
  /\ mux' = [mux EXCEPT ![t] = NoMuxer]
  /\ UNCHANGED <<link, inp, out>>

(* ssh ends; what has arrived can still be read. *)
Drop(t) ==
  /\ link[t] = "open" /\ t[1] \in Drops
  /\ link' = [link EXCEPT ![t] = "dead"]
  /\ inp' = [inp EXCEPT ![t] = <<>>]
  /\ mux' = [mux EXCEPT ![t] = NoMuxer]
  /\ UNCHANGED out

Works(t) ==
  \/ StartMuxer(t) \/ ReadCommands(t) \/ MuxerEnds(t)
  \/ \E i \in 1 .. MaxCmd : CommandEnds(t, i)

-----------------------------------------------------------------------------
(* The thread's end.                                                       *)

(* connect(), if needed, and the write of the muxer script. *)
WriteScript(t, fresh, j) ==
  LET new == fresh \/ link[t] = "none" IN
  /\ link' = [link EXCEPT ![t] = "open"]
  /\ inp' = [inp EXCEPT ![t] = IF new THEN <<Script(j)>> ELSE Append(@, Script(j))]
  /\ mux' = [mux EXCEPT ![t] = IF new THEN NoMuxer ELSE @]
  /\ out' = [out EXCEPT ![t] = IF new THEN <<>> ELSE @]

(* Nothing to read: select() times out, or reads the end of the file. *)
Silent(t) == out[t] = <<>> /\ (link[t] = "dead" \/ t[1] \in Slow)

(* Mutant: after a timeout the connection stays. *)
CloseNothing(t) == UNCHANGED line

(* close(): need_connect is set, the shell and the pipe are given up. *)
Close(t) ==
  /\ link' = [link EXCEPT ![t] = "none"]
  /\ inp' = [inp EXCEPT ![t] = <<>>]
  /\ mux' = [mux EXCEPT ![t] = NoMuxer]
  /\ out' = [out EXCEPT ![t] = <<>>]
=============================================================================
