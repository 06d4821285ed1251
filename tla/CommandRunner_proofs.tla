------------------------ MODULE CommandRunner_proofs ------------------------
(***************************************************************************)
(* Proofs about CommandRunner, for any hosts, bounds and faults.           *)
(***************************************************************************)
EXTENDS CommandRunner, SequenceTheorems, TLAPS

Clean(t) == inp[t] = <<>> /\ mux[t] = NoMuxer /\ out[t] = <<>>

(* What may be on the way to the shell while a thread waits for an answer. *)
Pipe(t) ==
  /\ pc[t] = "ready" =>
       /\ inp[t] = <<>> \/ inp[t] = <<Script(job[t])>>
       /\ mux[t].at = "reading" => inp[t] = <<>>
       /\ mux[t].at # "running"
  /\ pc[t] = "collect" =>
       /\ \/ inp[t] = <<>> \/ inp[t] = <<Commands(job[t], Size(t))>>
          \/ inp[t] = <<Script(job[t]), Commands(job[t], Size(t))>>
       /\ mux[t].at = "reading" =>
            inp[t] = <<>> \/ inp[t] = <<Commands(job[t], Size(t))>>
       /\ mux[t].at = "running" => inp[t] = <<>>

(* A line that may be read: of the job, and "done" is the last one. *)
Fits(t, k) ==
  /\ out[t][k].job = job[t]
  /\ out[t][k].kind = "result" => out[t][k].i \in 1 .. Size(t)
  /\ out[t][k].kind = "done" =>
       pc[t] = "collect" /\ k = Len(out[t]) /\ inp[t] = <<>> /\ mux[t].at = "off"

Talk(t) ==
  /\ mux[t].at = "off" => mux[t] = NoMuxer
  /\ (pc[t] \in {"off", "get", "ping"} /\ alive[t]) \/ pc[t] = "exec" =>
       (link[t] = "open" => Clean(t))
  /\ Pipe(t)
  /\ pc[t] \in {"ready", "collect"} =>
       /\ job[t] = Ping \/ job[t] = cur[t].call
       /\ mux[t].at # "off" => mux[t].job = job[t] /\ mux[t].todo \subseteq 1 .. Size(t)
       /\ \A k \in 1 .. Len(out[t]) : Fits(t, k)
  /\ pc[t] = "collect" =>
       /\ Len(outputs[t]) = Size(t)
       /\ \A i \in 1 .. Size(t) : outputs[t][i] \in {Failed, Own(job[t], i)}

(* An item of the current call has its number of commands. *)
Agrees(item, h, c, size) ==
  item.call <= c /\ (item.call = c /\ item # Stop => item.n = size[h])

Current(item, h) == Agrees(item, h, call, cnt)

Work(t) ==
  /\ Current(cur[t], t[1])
  /\ \A i \in 1 .. Len(queue[t]) : Current(queue[t][i], t[1])

(* The response that the main thread is going to take. *)
Mail(h) ==
  h \in togo /\ rq[h] # <<>> =>
    Len(rq[h]) = cnt[h] /\ \A i \in 1 .. cnt[h] : rq[h][i] \in {Failed, Own(call, i)}

RunnerInv ==
  /\ TypeOK
  /\ \A t \in Threads : Talk(t) /\ Work(t)
  /\ \A h \in Hosts : Mail(h)
  /\ OwnResults

-----------------------------------------------------------------------------
(* Sequences.                                                              *)

LEMMA TailFacts ==
  ASSUME NEW S, NEW s \in Seq(S), s # <<>>
  PROVE  /\ Tail(s) \in Seq(S) /\ Len(Tail(s)) = Len(s) - 1 /\ Len(s) \in Nat \ {0}
         /\ \A i \in 1 .. Len(Tail(s)) : Tail(s)[i] = s[i + 1]
         /\ Head(s) \in S /\ Head(s) = s[1]
  OBVIOUS

LEMMA ExceptFacts ==
  ASSUME NEW S, NEW s \in Seq(S), NEW k, NEW e \in S
  PROVE  /\ [s EXCEPT ![k] = e] \in Seq(S) /\ Len([s EXCEPT ![k] = e]) = Len(s)
         /\ \A i \in 1 .. Len(s) : [s EXCEPT ![k] = e][i] = IF i = k THEN e ELSE s[i]
<1> PICK n \in Nat : s \in [1 .. n -> S] /\ n = Len(s)
  OBVIOUS
<1> DEFINE r == [s EXCEPT ![k] = e]
<1>1. r \in [1 .. n -> S]
  OBVIOUS
<1>2. r \in Seq(S) /\ Len(r) = n
  BY <1>1
<1>3. \A i \in 1 .. n : r[i] = IF i = k THEN e ELSE s[i]
  OBVIOUS
<1> QED BY <1>2, <1>3

LEMMA FailuresFacts ==
  ASSUME NEW n \in 0 .. MaxCmd
  PROVE  /\ Failures(n) \in Seq(Answers) /\ Len(Failures(n)) = n
         /\ \A i \in 1 .. n : Failures(n)[i] = Failed
<1> USE ShellAssumption DEF Failures
<1>1. Failed \in Answers
  BY DEF Failed, Answers, Jobs, Ping
<1> QED BY <1>1

-----------------------------------------------------------------------------
(* Types.                                                                  *)

LEMMA ShellType ==
  ASSUME LineTypeOK, NEW t \in Threads
  PROVE  /\ Works(t) \/ MuxerAlarm(t) \/ Drop(t) => LineTypeOK'
         /\ \A fresh \in BOOLEAN, j \in Jobs : WriteScript(t, fresh, j) => LineTypeOK'
         /\ Close(t) => LineTypeOK'
<1> USE ShellAssumption DEF LineTypeOK
<1>0. NoMuxer \in Muxers
  BY DEF NoMuxer, Muxer, Muxers, Jobs, Ping
<1>1. StartMuxer(t) => LineTypeOK'
  <2> SUFFICES ASSUME StartMuxer(t) PROVE LineTypeOK'
    OBVIOUS
  <2>1. Head(inp[t]) \in Inputs /\ Tail(inp[t]) \in Seq(Inputs)
    BY TailFacts DEF StartMuxer
  <2>2. Ready(Head(inp[t]).job) \in Lines
    BY <2>1 DEF Ready, Lines, Inputs
  <2>3. Append(out[t], Ready(Head(inp[t]).job)) \in Seq(Lines)
    BY <2>2, AppendProperties
  <2>4. Muxer("reading", Head(inp[t]).job, {}) \in Muxers
    BY <2>1 DEF Muxer, Muxers, Inputs
  <2> QED BY <2>1, <2>3, <2>4 DEF StartMuxer, Says
<1>2. ReadCommands(t) => LineTypeOK'
  <2> SUFFICES ASSUME ReadCommands(t) PROVE LineTypeOK'
    OBVIOUS
  <2>1. Head(inp[t]) \in Inputs /\ Tail(inp[t]) \in Seq(Inputs)
    BY TailFacts DEF ReadCommands
  <2>2. Muxer("running", mux[t].job, 1 .. Head(inp[t]).n) \in Muxers
    BY <2>1 DEF Muxer, Muxers, Inputs
  <2> QED BY <2>1, <2>2 DEF ReadCommands
<1>3. ASSUME NEW i \in 1 .. MaxCmd, CommandEnds(t, i) PROVE LineTypeOK'
  <2>1. Output(mux[t].job, i) \in Lines
    BY DEF Output, Lines, Muxers
  <2>2. Append(out[t], Output(mux[t].job, i)) \in Seq(Lines)
    BY <2>1, AppendProperties
  <2>3. Muxer("running", mux[t].job, mux[t].todo \ {i}) \in Muxers
    BY DEF Muxer, Muxers
  <2> QED BY <1>3, <2>2, <2>3 DEF CommandEnds, Says
<1>4. MuxerEnds(t) => LineTypeOK'
  <2>1. Done(mux[t].job) \in Lines
    BY DEF Done, Lines, Muxers
  <2>2. Append(out[t], Done(mux[t].job)) \in Seq(Lines)
    BY <2>1, AppendProperties
  <2> QED BY <1>0, <2>2 DEF MuxerEnds, Says
<1>5. MuxerAlarm(t) \/ Drop(t) => LineTypeOK'
  <2>1. MuxerAlarm(t) => LineTypeOK'
    BY <1>0 DEF MuxerAlarm
  <2>2. Drop(t) => LineTypeOK'
    BY <1>0 DEF Drop
  <2> QED BY <2>1, <2>2
<1>6. ASSUME NEW fresh \in BOOLEAN, NEW j \in Jobs, WriteScript(t, fresh, j)
      PROVE  LineTypeOK'
  <2>1. Script(j) \in Inputs
    BY DEF Script, Inputs
  <2>2. <<Script(j)>> \in Seq(Inputs) /\ Append(inp[t], Script(j)) \in Seq(Inputs)
    BY <2>1, AppendProperties
  <2> QED BY <1>0, <1>6, <2>2 DEF WriteScript
<1>7. Close(t) => LineTypeOK'
  BY <1>0 DEF Close
<1> QED BY <1>1, <1>2, <1>3, <1>4, <1>5, <1>6, <1>7 DEF Works

(* The types of the main thread's variables, and of the handlers'. *)
MainOK ==
  /\ call \in 0 .. MaxCall /\ cnt \in [Hosts -> 0 .. MaxCmd]
  /\ togo \in SUBSET Hosts /\ finished \in BOOLEAN
  /\ got \in [Hosts -> Seq(Answers)] /\ master \in [Hosts -> 0 .. MaxCall]
PostOK == rq \in [Hosts -> Seq(Answers)] /\ queue \in [Threads -> Seq(Items)]
HandOK ==
  /\ pc \in [Threads -> PCs] /\ cur \in [Threads -> Items]
  /\ job \in [Threads -> Jobs] /\ alive \in [Threads -> BOOLEAN]
  /\ outputs \in [Threads -> Seq(Answers)]

Types == LineTypeOK /\ MainOK /\ PostOK /\ HandOK

LEMMA TypeParts == TypeOK <=> Types
  BY DEF TypeOK, Types, MainOK, PostOK, HandOK

LEMMA FailsType ==
  ASSUME Types, NEW t \in Threads, Fails(t)
  PROVE  MainOK' /\ PostOK' /\ HandOK'
<1> USE ShellAssumption DEF Types
<1>1. Stop \in Items /\ Ping \in Jobs /\ <<>> \in Seq(Answers)
  BY DEF Stop, Items, Jobs, Ping
<1>2. HandOK'
  BY <1>1 DEF Fails, Returns, HandOK, PCs
<1>3. MainOK'
  BY DEF Fails, Returns, MainOK, main
<1>4. cur[t].n \in 0 .. MaxCmd /\ t[1] \in Hosts
  BY DEF HandOK, Items, Threads
<1>5. PostOK'
  BY <1>4, FailuresFacts DEF Fails, Returns, Respond, PostOK
<1> QED BY <1>2, <1>3, <1>5

LEMMA CollectedType ==
  ASSUME Types, NEW t \in Threads, Collected(t)
  PROVE  MainOK' /\ PostOK' /\ HandOK'
<1> USE ShellAssumption DEF Types
<1>1. Stop \in Items /\ Ping \in Jobs /\ <<>> \in Seq(Answers) /\ t[1] \in Hosts
  BY DEF Stop, Items, Jobs, Ping, Threads
<1>2. CASE job[t] = Ping /\ outputs[t][1] # Own(Ping, 1) /\ Fails(t)
  BY <1>2, FailsType
<1>3. CASE /\ job[t] = Ping
           /\ alive' = [alive EXCEPT ![t] = TRUE]
           /\ IF cur[t] = Stop THEN Returns(t)
              ELSE /\ pc' = [pc EXCEPT ![t] = "exec"]
                   /\ outputs' = [outputs EXCEPT ![t] = <<>>]
                   /\ UNCHANGED <<main, queue, cur, job>>
           /\ UNCHANGED rq
  <2>1. HandOK'
    BY <1>1, <1>3 DEF Returns, HandOK, PCs
  <2> QED BY <1>3, <2>1 DEF Returns, MainOK, PostOK, main
<1>4. CASE Respond(t, outputs[t]) /\ Returns(t) /\ UNCHANGED alive
  <2>1. HandOK'
    BY <1>1, <1>4 DEF Returns, HandOK, PCs
  <2>2. PostOK'
    BY <1>1, <1>4 DEF Returns, Respond, HandOK, PostOK
  <2> QED BY <1>4, <2>1, <2>2 DEF Returns, MainOK, main
<1> QED BY <1>2, <1>3, <1>4 DEF Collected

LEMMA HandlerType ==
  ASSUME Types, NEW t \in Threads, Handles(t) \/ Idle(t)
  PROVE  Types'
<1> USE ShellAssumption DEF Types
<1>1. CASE Take(t)
  <2>1. Head(queue[t]) \in Items /\ Tail(queue[t]) \in Seq(Items)
    BY <1>1, TailFacts DEF Take, PostOK
  <2>2. HandOK' /\ PostOK'
    BY <1>1, <2>1 DEF Take, HandOK, PostOK, PCs
  <2>3. LineTypeOK'
    BY <1>1, ShellType DEF Take, line, LineTypeOK
  <2> QED BY <1>1, <2>2, <2>3 DEF Take, MainOK, main
<1>2. CASE Idle(t)
  BY <1>2 DEF Idle, HandOK, PostOK, MainOK, LineTypeOK, PCs, line, main
<1>3. CASE StartPing(t)
  <2>0. Ping \in Jobs /\ alive[t] \in BOOLEAN
    BY DEF Ping, Jobs, HandOK
  <2>1. CASE alive[t] /\ link[t] = "dead" /\ Fails(t) /\ UNCHANGED line
    BY <2>1, FailsType DEF line, LineTypeOK
  <2>2. CASE /\ WriteScript(t, ~alive[t], Ping)
             /\ job' = [job EXCEPT ![t] = Ping]
             /\ alive' = [alive EXCEPT ![t] = FALSE]
             /\ pc' = [pc EXCEPT ![t] = "ready"]
             /\ UNCHANGED <<main, rq, queue, cur, outputs>>
    <3>1. LineTypeOK'
      BY <2>0, <2>2, ShellType
    <3>2. HandOK'
      BY <2>0, <2>2 DEF HandOK, PCs
    <3> QED BY <2>2, <3>1, <3>2 DEF PostOK, MainOK, main
  <2> QED BY <1>3, <2>1, <2>2 DEF StartPing
<1>4. CASE StartExec(t)
  <2>0. cur[t].call \in Jobs
    BY DEF Ping, Jobs, HandOK, Items
  <2>1. CASE Fails(t) /\ UNCHANGED line
    BY <2>1, FailsType DEF line, LineTypeOK
  <2>2. CASE /\ WriteScript(t, FALSE, cur[t].call)
             /\ job' = [job EXCEPT ![t] = cur[t].call]
             /\ pc' = [pc EXCEPT ![t] = "ready"]
             /\ UNCHANGED <<main, rq, queue, cur, alive, outputs>>
    <3>1. LineTypeOK'
      BY <2>0, <2>2, ShellType
    <3>2. HandOK'
      BY <2>0, <2>2 DEF HandOK, PCs
    <3> QED BY <2>2, <3>1, <3>2 DEF PostOK, MainOK, main
  <2> QED BY <1>4, <2>1, <2>2 DEF StartExec
<1>5. CASE SendCommands(t)
  <2>0. out'[t] \in Seq(Lines) /\ out' = [out EXCEPT ![t] = out'[t]]
    <3>1. CASE out[t] = <<>>
      BY <1>5, <3>1 DEF SendCommands, LineTypeOK
    <3>2. CASE out[t] # <<>>
      BY <1>5, <3>2, TailFacts DEF SendCommands, LineTypeOK
    <3> QED BY <3>1, <3>2
  <2>1. CASE Fails(t) /\ UNCHANGED inp
    BY <1>5, <2>0, <2>1, FailsType DEF SendCommands, LineTypeOK
  <2>2. CASE /\ inp' = [inp EXCEPT ![t] = Append(@, Commands(job[t], Size(t)))]
             /\ outputs' = [outputs EXCEPT ![t] = Failures(Size(t))]
             /\ pc' = [pc EXCEPT ![t] = "collect"]
             /\ UNCHANGED <<main, rq, queue, cur, job, alive>>
    <3>1. Size(t) \in 0 .. MaxCmd
      BY DEF Size, HandOK, Items
    <3>2. Commands(job[t], Size(t)) \in Inputs
      BY <3>1 DEF Commands, Inputs, HandOK
    <3>3. Append(inp[t], Commands(job[t], Size(t))) \in Seq(Inputs)
      BY <3>2, AppendProperties DEF LineTypeOK
    <3>4. LineTypeOK'
      BY <1>5, <2>0, <2>2, <3>3 DEF SendCommands, LineTypeOK
    <3>5. HandOK'
      BY <2>2, <3>1, FailuresFacts DEF HandOK, PCs
    <3> QED BY <2>2, <3>4, <3>5 DEF PostOK, MainOK, main
  <2> QED BY <1>5, <2>1, <2>2 DEF SendCommands
<1>6. CASE CollectResult(t)
  <2>1. Head(out[t]) \in Lines /\ Tail(out[t]) \in Seq(Lines)
    BY <1>6, TailFacts DEF CollectResult, LineTypeOK
  <2>2. Own(Head(out[t]).job, Head(out[t]).i) \in Answers
    BY <2>1 DEF Own, Answers, Lines
  <2>3. [outputs[t] EXCEPT ![Head(out[t]).i] =
           Own(Head(out[t]).job, Head(out[t]).i)] \in Seq(Answers)
    <3>1. outputs[t] \in Seq(Answers)
      BY DEF HandOK
    <3> QED BY <2>2, <3>1, ExceptFacts, ZenonT(40)
  <2>4. HandOK'
    BY <1>6, <2>3 DEF CollectResult, HandOK
  <2>5. LineTypeOK'
    BY <1>6, <2>1 DEF CollectResult, LineTypeOK
  <2> QED BY <1>6, <2>4, <2>5 DEF CollectResult, PostOK, MainOK, main
<1>7. CASE CollectGarbage(t)
  <2>1. Tail(out[t]) \in Seq(Lines)
    BY <1>7, TailFacts DEF CollectGarbage, LineTypeOK
  <2> QED BY <1>7, <2>1, FailsType DEF CollectGarbage, LineTypeOK
<1>8. CASE CollectDone(t)
  <2>1. Tail(out[t]) \in Seq(Lines)
    BY <1>8, TailFacts DEF CollectDone, LineTypeOK
  <2> QED BY <1>8, <2>1, CollectedType DEF CollectDone, LineTypeOK
<1>9. CASE CollectTimeout(t)
  BY <1>9, ShellType, CollectedType DEF CollectTimeout
<1> QED
  BY <1>1, <1>2, <1>3, <1>4, <1>5, <1>6, <1>7, <1>8, <1>9 DEF Handles

LEMMA MainType ==
  ASSUME Types, (\E n \in [Hosts -> 0 .. MaxCmd] : Call(n)) \/ (\E h \in Hosts : Main(h)) \/ Finish
  PROVE  Types'
<1> USE ShellAssumption DEF Types
<1>0. Stop \in Items /\ Failed \in Answers /\ <<>> \in Seq(Answers)
  BY DEF Stop, Items, Failed, Answers, Jobs, Ping
<1>1. ASSUME NEW n \in [Hosts -> 0 .. MaxCmd], Call(n) PROVE Types'
  <2>1. \A h \in Hosts : Handler(h)[2] \in 0 .. MaxCall
    <3>1. call < MaxCall
      BY <1>1 DEF Call
    <3>2. call + 1 \in 0 .. MaxCall /\ master \in [Hosts -> 0 .. MaxCall]
      BY <3>1 DEF MainOK
    <3> QED BY <3>2 DEF Handler
  <2>2. MainOK'
    <3>1. /\ call < MaxCall /\ call' = call + 1 /\ cnt' = n /\ finished' = finished
          /\ togo' = {h \in Hosts : n[h] > 0} /\ got' = [h \in Hosts |-> <<>>]
          /\ master' = [h \in Hosts |-> IF h \in togo' THEN Handler(h)[2] ELSE master[h]]
      BY <1>1 DEF Call
    <3>2. call' \in 0 .. MaxCall
      BY <3>1 DEF MainOK
    <3>3. master' \in [Hosts -> 0 .. MaxCall]
      BY <2>1, <3>1 DEF MainOK
    <3> QED BY <1>0, <3>1, <3>2, <3>3 DEF MainOK
  <2>3. ASSUME NEW t \in Threads PROVE [call |-> call + 1, n |-> n[t[1]]] \in Items
    <3>1. t[1] \in Hosts
      BY DEF Threads
    <3>2. call + 1 \in 0 .. MaxCall /\ n[t[1]] \in 0 .. MaxCmd
      BY <1>1, <3>1 DEF Call, MainOK
    <3> QED BY <3>2 DEF Items
  <2>4. \A t \in Threads : Append(queue[t], [call |-> call + 1, n |-> n[t[1]]]) \in Seq(Items)
    BY <2>3, AppendProperties DEF PostOK
  <2>5. PostOK'
    BY <1>0, <1>1, <2>4 DEF Call, PostOK
  <2>6. HandOK'
    BY <1>1 DEF Call, HandOK, PCs
  <2> QED BY <1>1, <2>2, <2>5, <2>6 DEF Call, LineTypeOK, line
<1>2. ASSUME NEW h \in Hosts, Main(h) PROVE Types'
  <2>1. CASE GetResult(h)
    BY <1>0, <2>1 DEF GetResult, MainOK, PostOK, HandOK, handler, LineTypeOK, line
  <2>2. CASE GiveUp(h)
    <3>1. \A t \in Threads : Append(queue[t], Stop) \in Seq(Items)
      BY <1>0, AppendProperties DEF PostOK
    <3>2. PostOK'
      BY <2>2, <3>1 DEF GiveUp, Tell, PostOK
    <3>3. <<Failed>> \in Seq(Answers)
      BY <1>0
    <3>4. MainOK'
      BY <2>2, <3>3 DEF GiveUp, MainOK
    <3> QED BY <2>2, <3>2, <3>4 DEF GiveUp, HandOK, handler, LineTypeOK, line
  <2> QED BY <1>2, <2>1, <2>2 DEF Main
<1>3. CASE Finish
  <2>1. \A t \in Threads : Append(queue[t], Stop) \in Seq(Items)
    BY <1>0, AppendProperties DEF PostOK
  <2>2. PostOK'
    BY <1>3, <2>1 DEF Finish, PostOK
  <2> QED BY <1>3, <2>2 DEF Finish, MainOK, HandOK, handler, LineTypeOK, line
<1> QED BY <1>1, <1>2, <1>3

LEMMA TypeStep == TypeOK /\ [Next]_vars => TypeOK'
<1> SUFFICES ASSUME Types, [Next]_vars PROVE Types'
  BY TypeParts, PTL
<1>1. ASSUME NEW t \in Threads, Shell(t) \/ Fault(t) PROVE Types'
  BY <1>1, ShellType DEF Shell, Fault, Types, MainOK, PostOK, HandOK, main, handler
<1>2. CASE UNCHANGED vars
  BY <1>2 DEF vars, line, main, handler, Types, LineTypeOK, MainOK, PostOK, HandOK
<1> QED BY <1>1, <1>2, MainType, HandlerType DEF Next

LEMMA TypeInit == Init => TypeOK
<1> SUFFICES ASSUME Init PROVE Types
  BY TypeParts
<1> USE ShellAssumption DEF Init, Jobs, Ping
<1>1. LineTypeOK
  BY DEF LineInit, LineTypeOK, NoMuxer, Muxer, Muxers
<1>2. MainOK
  <2>1. <<>> \in Seq(Answers) /\ 0 \in 0 .. MaxCall /\ 0 \in 0 .. MaxCmd
    OBVIOUS
  <2> QED BY <2>1 DEF MainOK
<1>3. PostOK
  BY DEF PostOK
<1>4. HandOK
  BY DEF HandOK, PCs, Stop, Items
<1> QED BY <1>1, <1>2, <1>3, <1>4 DEF Types

(* Types, for all hosts and bounds. *)
THEOREM TypeCorrect == Spec => []TypeOK
  BY TypeInit, TypeStep, PTL DEF Spec

-----------------------------------------------------------------------------
(* What passes between a handler and its shell.                            *)

LEMMA AppendToOne ==
  ASSUME NEW S, NEW s \in Seq(S), NEW t \in Seq(S), NEW e \in S,
         Len(s) = 1, Len(t) = 2, t[1] = s[1], t[2] = e
  PROVE  Append(s, e) = t
<1>1. Append(s, e) \in Seq(S)
  OBVIOUS
<1>2. Len(Append(s, e)) = 2
  BY SMTT(20)
<1>3. \A i \in 1 .. Len(s) : Append(s, e)[i] = s[i]
  BY AppendProperties, SMTT(20)
<1>4. Append(s, e)[1] = s[1]
  BY <1>3
<1>5. Append(s, e)[2] = e
  <2>1. Append(s, e)[Len(s) + 1] = e
    BY AppendProperties
  <2>2. Len(s) + 1 = 2
    OBVIOUS
  <2> QED BY <2>1, <2>2, Zenon
<1>6. ASSUME NEW i \in 1 .. 2 PROVE Append(s, e)[i] = t[i]
  <2>1. i = 1 \/ i = 2
    OBVIOUS
  <2> QED BY <1>4, <1>5, <2>1, Zenon
<1> QED BY <1>1, <1>2, <1>6, SeqEqual

LEMMA TupleFacts ==
  ASSUME NEW a, NEW b
  PROVE  /\ Head(<<a>>) = a /\ Tail(<<a>>) = <<>> /\ <<a>> # <<>>
         /\ Head(<<a, b>>) = a /\ Tail(<<a, b>>) = <<b>> /\ <<a, b>> # <<>>
         /\ Append(<<>>, a) = <<a>> /\ Append(<<a>>, b) = <<a, b>>
<1>1. Head(<<a>>) = a /\ Tail(<<a>>) = <<>> /\ <<a>> # <<>>
  OBVIOUS
<1>2. Head(<<a, b>>) = a /\ <<a, b>> # <<>>
  OBVIOUS
<1>3. Tail(<<a, b>>) = <<b>>
  OBVIOUS
<1>4. Append(<<>>, a) = <<a>>
  OBVIOUS
<1>5. Append(<<a>>, b) = <<a, b>>
  <2>1. /\ <<a>> \in Seq({a, b}) /\ <<a, b>> \in Seq({a, b}) /\ b \in {a, b}
        /\ Len(<<a>>) = 1 /\ Len(<<a, b>>) = 2 /\ <<a>>[1] = <<a, b>>[1]
        /\ <<a, b>>[2] = b
    OBVIOUS
  <2> QED BY <2>1, AppendToOne
<1> QED BY <1>1, <1>2, <1>3, <1>4, <1>5

LEMMA TalkSame ==
  ASSUME NEW u \in Threads, Talk(u),
         link'[u] = link[u], inp'[u] = inp[u], mux'[u] = mux[u], out'[u] = out[u],
         pc'[u] = pc[u], job'[u] = job[u], cur'[u] = cur[u],
         outputs'[u] = outputs[u], alive'[u] = alive[u]
  PROVE  Talk(u)'
  BY DEF Talk, Pipe, Fits, Size, Clean

(* A step of one thread or its shell leaves the others alone. *)
LEMMA Apart ==
  ASSUME Types, NEW t \in Threads, Handles(t) \/ Idle(t) \/ Shell(t) \/ Fault(t),
         NEW u \in Threads, u # t
  PROVE  /\ link'[u] = link[u] /\ inp'[u] = inp[u] /\ mux'[u] = mux[u] /\ out'[u] = out[u]
         /\ pc'[u] = pc[u] /\ job'[u] = job[u] /\ cur'[u] = cur[u]
         /\ outputs'[u] = outputs[u] /\ alive'[u] = alive[u]
<1> USE DEF Types, LineTypeOK, HandOK
<1> DEFINE SameLine == /\ link'[u] = link[u] /\ inp'[u] = inp[u]
                       /\ mux'[u] = mux[u] /\ out'[u] = out[u]
           SameHand == /\ pc'[u] = pc[u] /\ job'[u] = job[u] /\ cur'[u] = cur[u]
                       /\ outputs'[u] = outputs[u] /\ alive'[u] = alive[u]
<1> SUFFICES SameLine /\ SameHand
  OBVIOUS
<1>1. Fails(t) => SameHand
  BY DEF Fails, Returns
<1>2. Collected(t) => SameHand
  BY <1>1 DEF Collected, Returns
<1>3. \A fresh, j : WriteScript(t, fresh, j) => SameLine
  BY DEF WriteScript
<1>4. Close(t) => SameLine
  BY DEF Close
<1>5. CASE Take(t)
  BY <1>4, <1>5 DEF Take, line
<1>6. CASE Idle(t)
  BY <1>6 DEF Idle, line
<1>7. CASE StartPing(t)
  BY <1>1, <1>3, <1>7 DEF StartPing, line
<1>8. CASE StartExec(t)
  BY <1>1, <1>3, <1>8 DEF StartExec, line
<1>9. CASE SendCommands(t)
  BY <1>1, <1>9 DEF SendCommands
<1>10. CASE CollectResult(t)
  BY <1>10 DEF CollectResult
<1>11. CASE CollectGarbage(t)
  BY <1>1, <1>11 DEF CollectGarbage
<1>12. CASE CollectDone(t)
  BY <1>2, <1>12 DEF CollectDone
<1>13. CASE CollectTimeout(t)
  BY <1>2, <1>4, <1>13 DEF CollectTimeout
<1>14. CASE Shell(t)
  BY <1>14 DEF Shell, Works, StartMuxer, ReadCommands, CommandEnds, MuxerEnds, Says, handler
<1>15. CASE Fault(t)
  BY <1>15 DEF Fault, MuxerAlarm, Drop, handler
<1> QED BY <1>5, <1>6, <1>7, <1>8, <1>9, <1>10, <1>11, <1>12, <1>13, <1>14, <1>15 DEF Handles

LEMMA Elsewhere ==
  ASSUME Types, NEW t \in Threads, Handles(t) \/ Idle(t) \/ Shell(t) \/ Fault(t),
         NEW u \in Threads, u # t, Talk(u)
  PROVE  Talk(u)'
BY Apart, TalkSame

LEMMA ShellTalks ==
  ASSUME Types, NEW t \in Threads, Shell(t) \/ Fault(t), Talk(t)
  PROVE  Talk(t)'
<1> USE DEF Types
<1>0. UNCHANGED <<pc, job, cur, outputs, alive>>
  BY DEF Shell, Fault, handler
<1>s. /\ inp[t] \in Seq(Inputs) /\ out[t] \in Seq(Lines) /\ mux[t] \in Muxers
      /\ out'[t] \in Seq(Lines)
  BY ShellType DEF Shell, Fault, LineTypeOK
<1>1. CASE StartMuxer(t)
  <2> DEFINE j == Head(inp[t]).job
  <2>1. /\ link[t] = "open" /\ mux[t].at = "off" /\ inp[t] # <<>> /\ link' = link
        /\ Head(inp[t]).kind = "script"
        /\ inp'[t] = Tail(inp[t]) /\ mux'[t] = Muxer("reading", j, {})
        /\ out'[t] = Append(out[t], Ready(j))
    BY <1>1 DEF StartMuxer, Says, LineTypeOK
  <2>2. mux'[t].at = "reading" /\ mux'[t].job = j /\ mux'[t].todo = {}
    BY <2>1 DEF Muxer
  <2>3. CASE pc[t] \notin {"ready", "collect"}
    BY <1>0, <2>1, <2>2, <2>3 DEF Talk, Pipe, Clean
  <2>4. CASE pc[t] = "ready"
    <3>1. inp[t] = <<Script(job[t])>>
      BY <2>1, <2>4 DEF Talk, Pipe
    <3>2. inp'[t] = <<>> /\ j = job[t]
      BY <2>1, <3>1, TupleFacts DEF Script
    <3>3. \A k \in 1 .. Len(out'[t]) : Fits(t, k)'
      <4>1. Ready(j) \in Lines
        BY <1>s, <2>1, TailFacts DEF Ready, Lines, Inputs
      <4>2. \A k \in 1 .. Len(out[t]) : Fits(t, k) /\ out[t][k].kind # "done"
        BY <2>4 DEF Talk, Fits
      <4> QED BY <1>0, <1>s, <2>1, <3>2, <4>1, <4>2, AppendProperties DEF Fits, Ready, Size
    <3> QED BY <1>0, <2>2, <2>4, <3>2, <3>3 DEF Talk, Pipe, Size
  <2>5. CASE pc[t] = "collect"
    <3>1. inp[t] = <<Script(job[t]), Commands(job[t], Size(t))>>
      BY <2>1, <2>5, TupleFacts DEF Talk, Pipe, Commands
    <3>2. inp'[t] = <<Commands(job[t], Size(t))>> /\ j = job[t]
      BY <2>1, <3>1, TupleFacts DEF Script
    <3>3. \A k \in 1 .. Len(out'[t]) : Fits(t, k)'
      <4>1. Ready(j) \in Lines
        BY <1>s, <2>1, TailFacts DEF Ready, Lines, Inputs
      <4>2. \A k \in 1 .. Len(out[t]) : Fits(t, k) /\ out[t][k].kind # "done"
        BY <2>1, <2>5 DEF Talk, Fits
      <4> QED BY <1>0, <1>s, <2>1, <3>2, <4>1, <4>2, AppendProperties DEF Fits, Ready, Size
    <3> QED BY <1>0, <2>2, <2>5, <3>2, <3>3 DEF Talk, Pipe, Size
  <2> QED BY <2>3, <2>4, <2>5
<1>2. CASE ReadCommands(t)
  <2> DEFINE n == Head(inp[t]).n
  <2>1. /\ link[t] = "open" /\ mux[t].at = "reading" /\ inp[t] # <<>> /\ link' = link
        /\ Head(inp[t]).kind = "commands" /\ out' = out
        /\ inp'[t] = Tail(inp[t]) /\ mux'[t] = Muxer("running", mux[t].job, 1 .. n)
    BY <1>2 DEF ReadCommands, LineTypeOK
  <2>2. mux'[t].at = "running" /\ mux'[t].job = mux[t].job /\ mux'[t].todo = 1 .. n
    BY <2>1 DEF Muxer
  <2>3. CASE pc[t] \notin {"ready", "collect"}
    BY <1>0, <2>1, <2>2, <2>3 DEF Talk, Pipe, Clean
  <2>4. pc[t] # "ready"
    BY <2>1 DEF Talk, Pipe
  <2>5. CASE pc[t] = "collect"
    <3>1. inp[t] = <<Commands(job[t], Size(t))>>
      BY <2>1, <2>5 DEF Talk, Pipe
    <3>2. inp'[t] = <<>> /\ n = Size(t)
      BY <2>1, <3>1, TupleFacts DEF Commands
    <3>3. \A k \in 1 .. Len(out'[t]) : Fits(t, k)'
      BY <1>0, <2>1, <2>5 DEF Talk, Fits, Size
    <3> QED BY <1>0, <2>1, <2>2, <2>5, <3>2, <3>3 DEF Talk, Pipe, Size
  <2> QED BY <2>3, <2>4, <2>5
<1>3. ASSUME NEW i \in 1 .. MaxCmd, CommandEnds(t, i) PROVE Talk(t)'
  <2>1. /\ link[t] = "open" /\ mux[t].at = "running" /\ UNCHANGED <<link, inp>>
        /\ i \in mux[t].todo /\ out'[t] = Append(out[t], Output(mux[t].job, i))
        /\ mux'[t] = Muxer("running", mux[t].job, mux[t].todo \ {i})
    BY <1>3 DEF CommandEnds, Says, LineTypeOK
  <2>2. /\ mux'[t].at = "running" /\ mux'[t].job = mux[t].job
        /\ mux'[t].todo \subseteq mux[t].todo
    BY <2>1 DEF Muxer
  <2>3. CASE pc[t] \notin {"ready", "collect"}
    <3>1. ~((pc[t] \in {"off", "get", "ping"} /\ alive[t]) \/ pc[t] = "exec")
      BY <2>1 DEF Talk, Clean, NoMuxer, Muxer
    <3> QED BY <1>0, <2>1, <2>2, <2>3, <3>1 DEF Talk, Pipe
  <2>4. pc[t] # "ready"
    BY <2>1 DEF Talk, Pipe
  <2>5. CASE pc[t] = "collect"
    <3>1. mux[t].job = job[t] /\ i \in 1 .. Size(t) /\ inp[t] = <<>>
      BY <2>1, <2>5 DEF Talk, Pipe
    <3>2. \A k \in 1 .. Len(out'[t]) : Fits(t, k)'
      <4>1. Output(mux[t].job, i) \in Lines
        BY <1>s DEF Output, Lines, Muxers
      <4>2. \A k \in 1 .. Len(out[t]) : Fits(t, k) /\ out[t][k].kind # "done"
        BY <2>1, <2>5 DEF Talk, Fits
      <4> QED BY <1>0, <1>s, <2>1, <3>1, <4>1, <4>2, AppendProperties DEF Fits, Output, Size
    <3> QED BY <1>0, <2>1, <2>2, <2>5, <3>1, <3>2 DEF Talk, Pipe, Size
  <2> QED BY <2>3, <2>4, <2>5
<1>4. CASE MuxerEnds(t)
  <2>1. /\ link[t] = "open" /\ mux[t].at = "running" /\ UNCHANGED <<link, inp>>
        /\ out'[t] = Append(out[t], Done(mux[t].job)) /\ mux'[t] = NoMuxer
    BY <1>4 DEF MuxerEnds, Says, LineTypeOK
  <2>2. mux'[t].at = "off"
    BY <2>1 DEF NoMuxer, Muxer
  <2>3. CASE pc[t] \notin {"ready", "collect"}
    <3>1. ~((pc[t] \in {"off", "get", "ping"} /\ alive[t]) \/ pc[t] = "exec")
      BY <2>1 DEF Talk, Clean, NoMuxer, Muxer
    <3> QED BY <1>0, <2>1, <2>2, <2>3, <3>1 DEF Talk, Pipe
  <2>4. pc[t] # "ready"
    BY <2>1 DEF Talk, Pipe
  <2>5. CASE pc[t] = "collect"
    <3>1. mux[t].job = job[t] /\ inp[t] = <<>>
      BY <2>1, <2>5 DEF Talk, Pipe
    <3>2. \A k \in 1 .. Len(out'[t]) : Fits(t, k)'
      <4>1. Done(mux[t].job) \in Lines
        BY <1>s, ShellAssumption DEF Done, Lines, Muxers
      <4>2. \A k \in 1 .. Len(out[t]) : Fits(t, k) /\ out[t][k].kind # "done"
        BY <2>1, <2>5 DEF Talk, Fits
      <4> QED BY <1>0, <1>s, <2>1, <2>2, <2>5, <3>1, <4>1, <4>2, AppendProperties
              DEF Fits, Done, Size
    <3> QED BY <1>0, <2>1, <2>2, <2>5, <3>1, <3>2 DEF Talk, Pipe, Size
  <2> QED BY <2>3, <2>4, <2>5
<1>5. CASE MuxerAlarm(t)
  <2>1. /\ link[t] = "open" /\ mux[t].at = "running" /\ UNCHANGED <<link, inp, out>>
        /\ mux'[t] = NoMuxer
    BY <1>5 DEF MuxerAlarm, LineTypeOK
  <2>2. mux'[t].at = "off"
    BY <2>1 DEF NoMuxer, Muxer
  <2>3. ~((pc[t] \in {"off", "get", "ping"} /\ alive[t]) \/ pc[t] = "exec")
    BY <2>1 DEF Talk, Clean, NoMuxer, Muxer
  <2> QED BY <1>0, <2>1, <2>2, <2>3 DEF Talk, Pipe, Fits, Size
<1>6. CASE Drop(t)
  <2>1. link'[t] = "dead" /\ inp'[t] = <<>> /\ mux'[t] = NoMuxer /\ UNCHANGED out
    BY <1>6 DEF Drop, LineTypeOK
  <2>2. mux'[t].at = "off"
    BY <2>1 DEF NoMuxer, Muxer
  <2> QED BY <1>0, <2>1, <2>2 DEF Talk, Pipe, Fits, Size
<1> QED BY <1>1, <1>2, <1>3, <1>4, <1>5, <1>6 DEF Shell, Fault, Works

LEMMA FailsTalks ==
  ASSUME Types, NEW t \in Threads, Fails(t), mux'[t].at = "off" => mux'[t] = NoMuxer
  PROVE  Talk(t)'
<1>1. pc'[t] = "get" /\ alive'[t] = FALSE
  BY DEF Fails, Returns, Types, HandOK
<1> QED BY <1>1 DEF Talk, Pipe

LEMMA CollectedTalks ==
  ASSUME Types, NEW t \in Threads, Collected(t),
         mux'[t].at = "off" => mux'[t] = NoMuxer, link'[t] = "open" => Clean(t)'
  PROVE  Talk(t)'
<1>1. pc'[t] \in {"get", "exec"}
  BY DEF Collected, Fails, Returns, Types, HandOK
<1> QED BY <1>1 DEF Talk, Pipe

LEMMA StartLine ==
  ASSUME Types, NEW t \in Threads, NEW fresh \in BOOLEAN, NEW j \in Jobs,
         WriteScript(t, fresh, j), fresh \/ link[t] = "none" \/ Clean(t)
  PROVE  link'[t] = "open" /\ inp'[t] = <<Script(j)>> /\ out'[t] = <<>> /\ mux'[t] = NoMuxer
BY TupleFacts DEF WriteScript, Types, LineTypeOK, Clean

LEMMA StartTalks ==
  ASSUME Types, NEW t \in Threads, NEW fresh \in BOOLEAN, NEW j \in Jobs,
         WriteScript(t, fresh, j), mux[t].at = "off" => mux[t] = NoMuxer,
         fresh \/ link[t] = "none" \/ Clean(t),
         pc'[t] = "ready", job'[t] = j, j = Ping \/ j = cur'[t].call
  PROVE  Talk(t)'
<1>1. /\ inp'[t] = <<Script(j)>> /\ out'[t] = <<>>
      /\ mux'[t] = NoMuxer
  BY StartLine
<1>2. mux'[t].at = "off"
  BY <1>1 DEF NoMuxer, Muxer
<1>3. \A k \in 1 .. Len(out'[t]) : Fits(t, k)'
  BY <1>1
<1> QED BY <1>1, <1>2, <1>3 DEF Talk, Pipe

LEMMA HandlerTalks ==
  ASSUME Types, NEW t \in Threads, Handles(t) \/ Idle(t), Talk(t)
  PROVE  Talk(t)'
<1> USE DEF Types
<1>0. /\ inp[t] \in Seq(Inputs) /\ out[t] \in Seq(Lines) /\ mux[t] \in Muxers
      /\ cur[t] \in Items /\ job[t] \in Jobs /\ outputs[t] \in Seq(Answers)
  BY DEF LineTypeOK, HandOK
<1>m. mux[t].at = "off" => mux[t] = NoMuxer
  BY DEF Talk
<1>1. CASE Take(t)
  <2>1. CASE pc'[t] = "ended"
    <3>1. mux'[t] = mux[t] \/ mux'[t] = NoMuxer
      BY <1>1 DEF Take, Close, LineTypeOK, line
    <3> QED BY <1>m, <2>1, <3>1 DEF Talk, Pipe
  <2>2. CASE pc'[t] = "ping" /\ UNCHANGED line
    BY <1>1, <2>2 DEF Take, Talk, Pipe, Clean, line, HandOK
  <2> QED BY <1>1, <2>1, <2>2 DEF Take, HandOK
<1>2. CASE Idle(t)
  BY <1>2 DEF Idle, Talk, Pipe, Clean, line, HandOK
<1>3. CASE StartPing(t)
  <2>1. CASE alive[t] /\ link[t] = "dead" /\ Fails(t) /\ UNCHANGED line
    BY <1>m, <2>1, FailsTalks DEF line
  <2>2. CASE /\ ~alive[t] \/ link[t] # "dead"
             /\ WriteScript(t, ~alive[t], Ping)
             /\ job' = [job EXCEPT ![t] = Ping]
             /\ pc' = [pc EXCEPT ![t] = "ready"]
    <3>1. pc'[t] = "ready" /\ job'[t] = Ping
      BY <2>2 DEF HandOK
    <3>3. Ping \in Jobs
      BY ShellAssumption DEF Jobs, Ping
    <3>4. (~alive[t]) \in BOOLEAN
      OBVIOUS
    <3>2. ~alive[t] \/ link[t] = "none" \/ Clean(t)
      BY <1>3, <2>2 DEF StartPing, Talk, LineTypeOK
    <3> QED BY <1>m, <2>2, <3>1, <3>2, <3>3, <3>4, StartTalks
  <2> QED BY <1>3, <2>1, <2>2 DEF StartPing
<1>4. CASE StartExec(t)
  <2>1. CASE Fails(t) /\ UNCHANGED line
    BY <1>m, <2>1, FailsTalks DEF line
  <2>2. CASE /\ link[t] # "dead"
             /\ WriteScript(t, FALSE, cur[t].call)
             /\ job' = [job EXCEPT ![t] = cur[t].call]
             /\ pc' = [pc EXCEPT ![t] = "ready"]
             /\ UNCHANGED <<main, rq, queue, cur, alive, outputs>>
    <3>1. pc'[t] = "ready" /\ job'[t] = cur[t].call /\ cur' = cur /\ cur[t].call \in Jobs
      BY <1>0, <2>2 DEF HandOK, Jobs, Items, Ping
    <3>2. link[t] = "none" \/ Clean(t)
      BY <1>4, <2>2 DEF StartExec, Talk, LineTypeOK
    <3> QED BY <1>m, <2>2, <3>1, <3>2, StartTalks
  <2> QED BY <1>4, <2>1, <2>2 DEF StartExec
<1>5. CASE SendCommands(t)
  <2>0. UNCHANGED <<link, mux>> /\ pc[t] = "ready"
    BY <1>5 DEF SendCommands
  <2>1. CASE Fails(t)
    BY <1>m, <2>0, <2>1, FailsTalks
  <2>2. CASE /\ inp' = [inp EXCEPT ![t] = Append(@, Commands(job[t], Size(t)))]
             /\ outputs' = [outputs EXCEPT ![t] = Failures(Size(t))]
             /\ pc' = [pc EXCEPT ![t] = "collect"]
             /\ UNCHANGED <<main, rq, queue, cur, job, alive>>
    <3>1. /\ inp'[t] = Append(inp[t], Commands(job[t], Size(t)))
          /\ outputs'[t] = Failures(Size(t)) /\ pc'[t] = "collect"
      BY <2>2 DEF LineTypeOK, HandOK
    <3>2. Size(t)' = Size(t) /\ Size(t) \in 0 .. MaxCmd
      BY <1>0, <2>2, ShellAssumption DEF Size, Items
    <3>3. \/ inp[t] = <<>> /\ inp'[t] = <<Commands(job[t], Size(t))>>
          \/ inp'[t] = <<Script(job[t]), Commands(job[t], Size(t))>> /\ mux[t].at = "off"
      <4>1. CASE inp[t] = <<>>
        BY <3>1, <4>1, TupleFacts
      <4>2. CASE inp[t] = <<Script(job[t])>>
        <5>1. mux[t].at = "off"
          BY <1>0, <2>0, <4>2, TupleFacts DEF Talk, Pipe, Muxers
        <5> QED BY <3>1, <4>2, <5>1, TupleFacts
      <4> QED BY <2>0, <4>1, <4>2 DEF Talk, Pipe
    <3>4. Pipe(t)'
      BY <1>0, <2>0, <2>2, <3>1, <3>2, <3>3 DEF Pipe, Talk, Muxers
    <3>5. \A k \in 1 .. Len(out[t]) : Fits(t, k) /\ out[t][k].kind # "done"
      BY <2>0 DEF Talk, Fits
    <3>6. \A k \in 1 .. Len(out'[t]) : Fits(t, k)'
      <4>1. CASE out[t] = <<>>
        BY <1>5, <4>1 DEF SendCommands, LineTypeOK
      <4>2. CASE out[t] # <<>>
        <5>1. out'[t] = Tail(out[t])
          BY <1>5, <4>2 DEF SendCommands, LineTypeOK
        <5> QED BY <1>0, <2>2, <3>2, <3>5, <4>2, <5>1, TailFacts DEF Fits
      <4> QED BY <4>1, <4>2
    <3>7. Len(outputs'[t]) = Size(t) /\ \A i \in 1 .. Size(t) : outputs'[t][i] = Failed
      BY <3>1, <3>2, FailuresFacts
    <3> QED BY <1>m, <2>0, <2>2, <3>1, <3>2, <3>4, <3>6, <3>7 DEF Talk
  <2> QED BY <1>5, <2>1, <2>2 DEF SendCommands
<1>6. CASE CollectResult(t)
  <2> DEFINE l == Head(out[t])
  <2>1. /\ pc[t] = "collect" /\ out[t] # <<>> /\ l.kind = "result"
        /\ UNCHANGED <<link, inp, mux, pc, cur, job, alive>> /\ out'[t] = Tail(out[t])
        /\ outputs'[t] = [outputs[t] EXCEPT ![l.i] = Own(l.job, l.i)]
    BY <1>6 DEF CollectResult, LineTypeOK, HandOK
  <2>2. Fits(t, 1) /\ l = out[t][1] /\ Len(out[t]) >= 1 /\ l \in Lines
    BY <1>0, <2>1, TailFacts DEF Talk
  <2>3. l.job = job[t] /\ l.i \in 1 .. Size(t)
    BY <2>1, <2>2 DEF Fits
  <2>4. Size(t)' = Size(t)
    BY <2>1 DEF Size
  <2>5. \A k \in 1 .. Len(out'[t]) : Fits(t, k)'
    BY <1>0, <2>1, <2>4, TailFacts DEF Talk, Fits
  <2>6. Own(l.job, l.i) \in Answers
    BY <2>2 DEF Own, Answers, Lines
  <2>7. /\ Len(outputs'[t]) = Len(outputs[t])
        /\ \A i \in 1 .. Len(outputs[t]) :
             outputs'[t][i] = IF i = l.i THEN Own(l.job, l.i) ELSE outputs[t][i]
    <3> DEFINE s == outputs[t]
               e == Own(l.job, l.i)
               k == l.i
    <3>1. s \in Seq(Answers) /\ e \in Answers /\ outputs'[t] = [s EXCEPT ![k] = e]
      BY <1>0, <2>1, <2>6
    <3> HIDE DEF s, e, k
    <3>2. /\ Len(outputs'[t]) = Len(s)
          /\ \A i \in 1 .. Len(s) : outputs'[t][i] = IF i = k THEN e ELSE s[i]
      BY <3>1, ExceptFacts
    <3> QED BY <3>2 DEF s, e, k
  <2>8. /\ Len(outputs'[t]) = Size(t)
        /\ \A i \in 1 .. Size(t) : outputs'[t][i] \in {Failed, Own(job[t], i)}
    BY <2>1, <2>3, <2>7 DEF Talk
  <2> QED BY <2>1, <2>4, <2>5, <2>8 DEF Talk, Pipe
<1>7. CASE CollectGarbage(t)
  BY <1>m, <1>7, FailsTalks DEF CollectGarbage
<1>8. CASE CollectDone(t)
  <2>1. /\ pc[t] = "collect" /\ out[t] # <<>> /\ Head(out[t]).kind = "done"
        /\ UNCHANGED <<link, inp, mux>> /\ out'[t] = Tail(out[t])
    BY <1>8 DEF CollectDone, LineTypeOK
  <2>2. Fits(t, 1) /\ Head(out[t]) = out[t][1]
    BY <1>0, <2>1, TailFacts DEF Talk
  <2>3. Len(out[t]) = 1 /\ inp[t] = <<>> /\ mux[t].at = "off"
    BY <2>1, <2>2 DEF Fits
  <2>4. out'[t] = <<>>
    <3>1. Tail(out[t]) \in Seq(Lines) /\ Len(Tail(out[t])) = 0
      BY <1>0, <2>1, <2>3, TailFacts
    <3> QED BY <2>1, <3>1, EmptySeq
  <2>5. Clean(t)'
    BY <1>m, <2>1, <2>3, <2>4 DEF Clean
  <2> QED BY <1>8, <1>m, <2>1, <2>5, CollectedTalks DEF CollectDone
<1>9. CASE CollectTimeout(t)
  <2>1. link'[t] = "none" /\ mux'[t] = NoMuxer
    BY <1>9 DEF CollectTimeout, Close, LineTypeOK
  <2> QED BY <1>9, <2>1, CollectedTalks DEF CollectTimeout
<1> QED
  BY <1>1, <1>2, <1>3, <1>4, <1>5, <1>6, <1>7, <1>8, <1>9 DEF Handles

LEMMA MainTalks ==
  ASSUME Types, NEW u \in Threads, Talk(u),
         (\E n \in [Hosts -> 0 .. MaxCmd] : Call(n)) \/ (\E h \in Hosts : Main(h)) \/ Finish
  PROVE  Talk(u)'
<1>1. UNCHANGED <<line, cur, job, alive, outputs>>
  BY DEF Call, Main, GetResult, GiveUp, Finish, handler
<1>2. pc'[u] = pc[u] \/ (pc[u] = "off" /\ pc'[u] = "get")
  BY DEF Types, HandOK, Call, Main, GetResult, GiveUp, Finish, handler
<1> QED BY <1>1, <1>2 DEF line, Talk, Pipe, Fits, Size, Clean

-----------------------------------------------------------------------------
(* Items, responses and results.                                           *)

LEMMA FailsMail ==
  ASSUME Types, NEW t \in Threads, Fails(t), Work(t), \A h \in Hosts : Mail(h)
  PROVE  (\A h \in Hosts : Mail(h)') /\ Agrees(cur'[t], t[1], call', cnt')
<1>0. t[1] \in Hosts /\ cur[t].n \in 0 .. MaxCmd /\ call \in 0 .. MaxCall
  BY DEF Threads, Types, HandOK, MainOK, Items
<1>1. UNCHANGED <<call, cnt, togo>> /\ cur'[t] = Stop
  BY DEF Fails, Returns, main, Types, HandOK
<1>2. Agrees(cur'[t], t[1], call', cnt')
  BY <1>0, <1>1 DEF Agrees, Stop
<1>3. CASE UNCHANGED rq
  BY <1>1, <1>2, <1>3 DEF Mail
<1>4. CASE cur[t] # Stop /\ cur[t].call = call /\ rq' = [rq EXCEPT ![t[1]] = Failures(cur[t].n)]
  <2>1. cur[t].n = cnt[t[1]]
    BY <1>4 DEF Work, Current, Agrees
  <2>2. /\ Len(Failures(cur[t].n)) = cnt[t[1]]
        /\ \A i \in 1 .. cnt[t[1]] : Failures(cur[t].n)[i] = Failed
    BY <1>0, <2>1, FailuresFacts
  <2> QED BY <1>0, <1>1, <1>2, <1>4, <2>2 DEF Mail, Types, PostOK
<1> QED BY <1>3, <1>4 DEF Fails, Respond

LEMMA CollectedMail ==
  ASSUME Types, NEW t \in Threads, Collected(t), pc[t] = "collect", Talk(t), Work(t),
         \A h \in Hosts : Mail(h)
  PROVE  (\A h \in Hosts : Mail(h)') /\ Agrees(cur'[t], t[1], call', cnt')
<1>0. /\ t[1] \in Hosts /\ call \in 0 .. MaxCall /\ job[t] \in Jobs
      /\ cnt \in [Hosts -> 0 .. MaxCmd]
  BY DEF Threads, Types, HandOK, MainOK
<1>1. CASE Fails(t)
  BY <1>1, FailsMail
<1>2. CASE UNCHANGED rq /\ Collected(t) /\ ~Fails(t)
  <2>1. UNCHANGED <<call, cnt, togo>> /\ (cur'[t] = Stop \/ cur'[t] = cur[t])
    BY <1>2 DEF Collected, Returns, main, Types, HandOK
  <2>2. Agrees(cur'[t], t[1], call', cnt')
    BY <1>0, <2>1 DEF Work, Current, Agrees, Stop
  <2> QED BY <1>2, <2>1, <2>2 DEF Mail
<1>3. CASE job[t] # Ping /\ Respond(t, outputs[t]) /\ Returns(t)
  <2>1. UNCHANGED <<call, cnt, togo>> /\ cur'[t] = Stop
    BY <1>3 DEF Returns, main, Types, HandOK
  <2>2. Agrees(cur'[t], t[1], call', cnt')
    BY <1>0, <2>1 DEF Agrees, Stop
  <2>3. CASE UNCHANGED rq
    BY <2>1, <2>2, <2>3 DEF Mail
  <2>4. CASE cur[t].call = call /\ rq' = [rq EXCEPT ![t[1]] = outputs[t]]
    <3>1. job[t] = call /\ cur[t] # Stop /\ Size(t) = cur[t].n
      BY <1>3, <2>4 DEF Talk, Stop, Ping, Size
    <3>2. cur[t].n = cnt[t[1]]
      BY <2>4, <3>1 DEF Work, Current, Agrees
    <3>3. /\ Len(outputs[t]) = cnt[t[1]]
          /\ \A i \in 1 .. cnt[t[1]] : outputs[t][i] \in {Failed, Own(call, i)}
      BY <3>1, <3>2 DEF Talk
    <3> QED BY <1>0, <2>1, <2>2, <2>4, <3>3 DEF Mail, Types, PostOK
  <2> QED BY <1>3, <2>3, <2>4 DEF Respond
<1> QED BY <1>1, <1>2, <1>3 DEF Collected

LEMMA HandlerWorks ==
  ASSUME Types, NEW t \in Threads, Handles(t) \/ Idle(t) \/ Shell(t) \/ Fault(t),
         \A u \in Threads : Talk(u) /\ Work(u), \A h \in Hosts : Mail(h), OwnResults
  PROVE  (\A u \in Threads : Work(u)') /\ (\A h \in Hosts : Mail(h)') /\ OwnResults'
<1>0. UNCHANGED main
  BY DEF Handles, Idle, Take, StartPing, StartExec, SendCommands, CollectResult,
         CollectGarbage, CollectDone, CollectTimeout, Collected, Fails, Returns,
         Shell, Fault
<1>1. OwnResults'
  BY <1>0 DEF OwnResults, main
<1>2. ASSUME UNCHANGED <<queue, cur, rq>>
      PROVE  (\A u \in Threads : Work(u)') /\ (\A h \in Hosts : Mail(h)')
  BY <1>0, <1>2 DEF Work, Current, Mail, main
<1>3. ASSUME UNCHANGED queue, \A u \in Threads : u # t => cur'[u] = cur[u],
             Agrees(cur'[t], t[1], call', cnt')
      PROVE  \A u \in Threads : Work(u)'
  BY <1>0, <1>3 DEF Work, Current, main
<1>4. ASSUME Fails(t)
      PROVE  (\A u \in Threads : Work(u)') /\ (\A h \in Hosts : Mail(h)')
  <2>1. UNCHANGED queue /\ \A u \in Threads : u # t => cur'[u] = cur[u]
    BY <1>4 DEF Fails, Returns, Types, HandOK
  <2> QED BY <1>3, <1>4, <2>1, FailsMail
<1>5. ASSUME Collected(t), pc[t] = "collect"
      PROVE  (\A u \in Threads : Work(u)') /\ (\A h \in Hosts : Mail(h)')
  <2>1. UNCHANGED queue /\ \A u \in Threads : u # t => cur'[u] = cur[u]
    BY <1>5 DEF Collected, Fails, Returns, Types, HandOK
  <2> QED BY <1>3, <1>5, <2>1, CollectedMail
<1>6. CASE Take(t)
  <2>1. queue[t] \in Seq(Items) /\ queue[t] # <<>>
    BY <1>6 DEF Take, Types, PostOK
  <2>2. /\ queue'[t] = Tail(queue[t]) /\ cur'[t] = queue[t][1] /\ UNCHANGED rq
        /\ \A u \in Threads : u # t => queue'[u] = queue[u] /\ cur'[u] = cur[u]
    BY <1>6, <2>1, TailFacts DEF Take, Types, PostOK, HandOK
  <2>3. \A i \in 1 .. Len(queue[t]) : Current(queue[t][i], t[1])
    BY DEF Work
  <2>4. Work(t)'
    BY <1>0, <2>1, <2>2, <2>3, TailFacts DEF Work, Current, main
  <2>5. \A u \in Threads : Work(u)'
    BY <1>0, <2>2, <2>4 DEF Work, Current, main
  <2> QED BY <1>0, <1>1, <2>2, <2>5 DEF Mail, main
<1>7. CASE StartPing(t) \/ StartExec(t)
  BY <1>1, <1>2, <1>4, <1>7 DEF StartPing, StartExec
<1>8. CASE SendCommands(t)
  BY <1>1, <1>2, <1>4, <1>8 DEF SendCommands
<1>9. CASE CollectResult(t) \/ Idle(t) \/ Shell(t) \/ Fault(t)
  BY <1>1, <1>2, <1>9 DEF CollectResult, Idle, Shell, Fault, handler
<1>10. CASE CollectGarbage(t) \/ CollectDone(t) \/ CollectTimeout(t)
  BY <1>1, <1>4, <1>5, <1>10 DEF CollectGarbage, CollectDone, CollectTimeout
<1> QED BY <1>6, <1>7, <1>8, <1>9, <1>10 DEF Handles

LEMMA MainWorks ==
  ASSUME Types, \A u \in Threads : Work(u), \A h \in Hosts : Mail(h), OwnResults,
         (\E n \in [Hosts -> 0 .. MaxCmd] : Call(n)) \/ (\E h \in Hosts : Main(h)) \/ Finish
  PROVE  (\A u \in Threads : Work(u)') /\ (\A h \in Hosts : Mail(h)') /\ OwnResults'
<1> USE DEF Types
<1>0. call \in 0 .. MaxCall /\ Stop.call = 0 /\ Stop \in Items
  BY ShellAssumption DEF MainOK, Stop, Items
<1>s. ASSUME UNCHANGED <<call, cnt, cur>>,
             \A u \in Threads : queue'[u] = queue[u] \/ queue'[u] = Append(queue[u], Stop)
      PROVE  \A u \in Threads : Work(u)'
  <2> SUFFICES ASSUME NEW u \in Threads PROVE Work(u)'
    OBVIOUS
  <2>1. CASE queue'[u] = queue[u]
    BY <1>s, <2>1 DEF Work, Current
  <2>2. CASE queue'[u] = Append(queue[u], Stop)
    <3>1. queue[u] \in Seq(Items)
      BY DEF PostOK
    <3>2. Agrees(Stop, u[1], call', cnt')
      BY <1>0, <1>s DEF Agrees
    <3> QED BY <1>0, <1>s, <2>2, <3>1, <3>2, AppendProperties DEF Work, Current
  <2> QED BY <1>s, <2>1, <2>2
<1>1. ASSUME NEW n \in [Hosts -> 0 .. MaxCmd], Call(n)
      PROVE  (\A u \in Threads : Work(u)') /\ (\A h \in Hosts : Mail(h)') /\ OwnResults'
  <2>1. call' = call + 1 /\ cnt' = n /\ UNCHANGED cur
    BY <1>1 DEF Call
  <2>2. \A h \in Hosts : h \in togo' => rq'[h] = <<>>
    BY <1>1 DEF Call
  <2>3. OwnResults'
    BY <1>1 DEF Call, OwnResults
  <2>4. ASSUME NEW u \in Threads PROVE Work(u)'
    <3> DEFINE item == [call |-> call + 1, n |-> n[u[1]]]
    <3>1. queue'[u] = queue[u] \/ queue'[u] = Append(queue[u], item)
      BY <1>1 DEF Call
    <3>2. /\ queue[u] \in Seq(Items) /\ cur[u] \in Items /\ u[1] \in Hosts
          /\ \A i \in 1 .. Len(queue[u]) : queue[u][i] \in Items
      BY DEF PostOK, HandOK, Threads
    <3>3. item \in Items
      <4>1. call + 1 \in 0 .. MaxCall
        BY <1>0, <1>1, ShellAssumption DEF Call
      <4>2. n[u[1]] \in 0 .. MaxCmd
        BY <1>1, <3>2
      <4> QED BY <4>1, <4>2 DEF Items
    <3>4. \A it \in Items : Current(it, u[1]) => Agrees(it, u[1], call', cnt')
      BY <1>0, <2>1 DEF Current, Agrees, Items
    <3>5. Agrees(item, u[1], call', cnt')
      BY <1>0, <2>1 DEF Agrees
    <3>6. Agrees(cur'[u], u[1], call', cnt')
      BY <2>1, <3>2, <3>4 DEF Work
    <3>7. CASE queue'[u] = queue[u]
      BY <3>2, <3>4, <3>6, <3>7 DEF Work, Current
    <3>8. CASE queue'[u] = Append(queue[u], item)
      <4> HIDE DEF item
      <4>1. Len(queue'[u]) = Len(queue[u]) + 1 /\ queue'[u][Len(queue[u]) + 1] = item
        BY <3>2, <3>3, <3>8, AppendProperties
      <4>2. \A i \in 1 .. Len(queue[u]) : queue'[u][i] = queue[u][i]
        BY <3>2, <3>3, <3>8, AppendProperties
      <4>3. \A i \in 1 .. Len(queue[u]) : Agrees(queue[u][i], u[1], call', cnt')
        BY <3>2, <3>4 DEF Work
      <4>4. \A i \in 1 .. Len(queue'[u]) : Agrees(queue'[u][i], u[1], call', cnt')
        BY <3>2, <3>5, <4>1, <4>2, <4>3
      <4> QED BY <3>6, <4>4 DEF Work, Current
    <3> QED BY <3>1, <3>7, <3>8
  <2> QED BY <2>2, <2>3, <2>4 DEF Mail
<1>2. ASSUME NEW h \in Hosts, GetResult(h)
      PROVE  (\A u \in Threads : Work(u)') /\ (\A k \in Hosts : Mail(k)') /\ OwnResults'
  <2>1. UNCHANGED <<call, cnt, queue, cur>> /\ h \in togo /\ togo' \subseteq togo
    BY <1>2 DEF GetResult, Turn, handler
  <2>2. /\ got'[h] = rq[h] /\ rq[h] # <<>> /\ rq'[h] = <<>>
        /\ \A k \in Hosts : k # h => got'[k] = got[k] /\ rq'[k] = rq[k]
    BY <1>2 DEF GetResult, MainOK, PostOK
  <2>3. Len(rq[h]) = cnt[h] /\ \A i \in 1 .. cnt[h] : rq[h][i] \in {Failed, Own(call, i)}
    BY <2>1, <2>2 DEF Mail
  <2>4. OwnResults'
    BY <2>1, <2>2, <2>3 DEF OwnResults
  <2>5. \A k \in Hosts : Mail(k)'
    BY <2>1, <2>2 DEF Mail
  <2> QED BY <1>s, <2>1, <2>4, <2>5
<1>3. ASSUME NEW h \in Hosts, GiveUp(h)
      PROVE  (\A u \in Threads : Work(u)') /\ (\A k \in Hosts : Mail(k)') /\ OwnResults'
  <2>1. UNCHANGED <<call, cnt, rq, cur>> /\ togo' \subseteq togo
    BY <1>3 DEF GiveUp, handler
  <2>2. \A u \in Threads : queue'[u] = queue[u] \/ queue'[u] = Append(queue[u], Stop)
    BY <1>3 DEF GiveUp, Tell, PostOK
  <2>3. got'[h] = <<Failed>> /\ \A k \in Hosts : k # h => got'[k] = got[k]
    BY <1>3 DEF GiveUp, MainOK
  <2>4. OwnResults'
    BY <2>1, <2>3 DEF OwnResults
  <2> QED BY <1>s, <2>1, <2>2, <2>4 DEF Mail
<1>4. CASE Finish
  <2>1. UNCHANGED <<call, cnt, rq, cur, togo, got>>
    BY <1>4 DEF Finish, handler
  <2>2. \A u \in Threads : queue'[u] = queue[u] \/ queue'[u] = Append(queue[u], Stop)
    BY <1>4 DEF Finish
  <2> QED BY <1>s, <2>1, <2>2 DEF Mail, OwnResults
<1> QED BY <1>1, <1>2, <1>3, <1>4 DEF Main

-----------------------------------------------------------------------------
(* The invariant, and what follows from it.                                *)

LEMMA InvInit == Init => RunnerInv
<1> SUFFICES ASSUME Init PROVE RunnerInv
  OBVIOUS
<1>1. TypeOK
  BY TypeInit
<1>2. ASSUME NEW t \in Threads PROVE Talk(t) /\ Work(t)
  <2>1. /\ pc[t] = "off" /\ ~alive[t] /\ mux[t] = NoMuxer
        /\ cur[t] = Stop /\ queue[t] = <<>> /\ call = 0
    BY DEF Init, LineInit
  <2> QED BY <2>1 DEF Talk, Pipe, Work, Current, Agrees, Stop
<1>3. \A h \in Hosts : Mail(h)
  BY DEF Init, Mail
<1>4. OwnResults
  BY DEF Init, OwnResults
<1> QED BY <1>1, <1>2, <1>3, <1>4 DEF RunnerInv

LEMMA InvStep == RunnerInv /\ [Next]_vars => RunnerInv'
<1> SUFFICES ASSUME RunnerInv, [Next]_vars PROVE RunnerInv'
  OBVIOUS
<1>1. Types /\ TypeOK'
  BY TypeParts, TypeStep DEF RunnerInv
<1>2. /\ \A t \in Threads : Talk(t) /\ Work(t)
      /\ \A t \in Threads : Talk(t)
      /\ \A t \in Threads : Work(t)
      /\ \A h \in Hosts : Mail(h)
      /\ OwnResults
  BY DEF RunnerInv
<1>3. CASE (\E n \in [Hosts -> 0 .. MaxCmd] : Call(n)) \/ (\E h \in Hosts : Main(h)) \/ Finish
  <2>1. \A t \in Threads : Talk(t)'
    BY <1>1, <1>2, <1>3, MainTalks
  <2> QED BY <1>1, <1>2, <1>3, <2>1, MainWorks DEF RunnerInv
<1>4. ASSUME NEW t \in Threads, Handles(t) \/ Idle(t) \/ Shell(t) \/ Fault(t)
      PROVE  RunnerInv'
  <2>1. Talk(t)'
    BY <1>1, <1>2, <1>4, HandlerTalks, ShellTalks
  <2>2. \A u \in Threads : u # t => Talk(u)'
    BY <1>1, <1>2, <1>4, Elsewhere
  <2>3. (\A u \in Threads : Work(u)') /\ (\A h \in Hosts : Mail(h)') /\ OwnResults'
    BY <1>1, <1>2, <1>4, HandlerWorks
  <2> QED BY <1>1, <2>1, <2>2, <2>3 DEF RunnerInv
<1>5. CASE UNCHANGED vars
  BY <1>1, <1>2, <1>5
     DEF RunnerInv, vars, line, main, handler, Talk, Clean, Pipe, Fits, Size, Work,
         Current, Agrees, Mail, OwnResults
<1> QED BY <1>3, <1>4, <1>5 DEF Next

LEMMA Invariant == Spec => []RunnerInv
  BY InvInit, InvStep, PTL DEF Spec

(* run_cmds() never gives a node the output of another node's command, of a
   ping or of an earlier call: for any number of hosts and commands, with any
   timeouts and broken connections. *)
THEOREM OwnAnswers == Spec => []OwnResults
<1>1. RunnerInv => OwnResults
  BY DEF RunnerInv
<1> QED BY <1>1, Invariant, PTL

(* A connection is only used again when nothing is left on it of its last use:
   what makes the numbers in the lines of the muxer enough to tell results
   apart. *)
THEOREM CleanLines == Spec => []CleanLine
<1>1. RunnerInv => CleanLine
  BY DEF RunnerInv, CleanLine, Talk, Clean
<1> QED BY <1>1, Invariant, PTL

(* The threads, queues and shells implement the calls of CommandCalls: handing
   out commands is a Call, taking the results of a host, or giving it up, an
   Answer, and no other step is visible to the caller. *)
THEOREM ImplementsCalls == Spec => CallsSpec
<1>1. Init => Calls!Init
  BY DEF Init, Calls!Init, Hosts, Calls!Hosts
<1>2. RunnerInv /\ [Next]_vars => [Calls!Next]_(Calls!vars)
  <2> SUFFICES ASSUME RunnerInv, [Next]_vars PROVE [Calls!Next]_(Calls!vars)
    OBVIOUS
  <2>0. Types
    BY TypeParts DEF RunnerInv
  <2>1. ASSUME NEW n \in [Hosts -> 0 .. MaxCmd], Call(n) PROVE Calls!Call
    BY <2>1 DEF Call, Calls!Call, Hosts, Calls!Hosts
  <2>2. ASSUME NEW h \in Hosts, GetResult(h) PROVE Calls!Answer(h)
    <3>1. /\ h \in togo /\ rq[h] # <<>> /\ rq[h] \in Seq(Answers)
          /\ togo' = togo \ {h} /\ got' = [got EXCEPT ![h] = rq[h]]
          /\ UNCHANGED <<call, cnt>>
      BY <2>0, <2>2 DEF GetResult, Turn, Types, PostOK
    <3>2. /\ Len(rq[h]) = cnt[h]
          /\ \A i \in 1 .. cnt[h] : rq[h][i] \in {Failed, Own(call, i)}
      BY <3>1 DEF RunnerInv, Mail
    <3>3. rq[h] = [i \in 1 .. cnt[h] |-> rq[h][i]]
      BY <3>1, <3>2
    <3>4. rq[h] \in Calls!Results(h)
      <4>1. Calls!Failed = Failed /\ \A i : Calls!Own(call, i) = Own(call, i)
        BY DEF Calls!Failed, Calls!Own, Failed, Own, Ping
      <4>2. \A i \in 1 .. cnt[h] : rq[h][i] \in {Calls!Failed, Calls!Own(call, i)}
        BY <3>2, <4>1
      <4> QED BY <3>3, <4>2 DEF Calls!Results
    <3> QED BY <3>1, <3>4 DEF Calls!Answer
  <2>3. ASSUME NEW h \in Hosts, GiveUp(h) PROVE Calls!Answer(h)
    <3>1. /\ h \in togo /\ h \in Late /\ togo' = togo \ {h}
          /\ got' = [got EXCEPT ![h] = <<Calls!Failed>>] /\ UNCHANGED <<call, cnt>>
      BY <2>3 DEF GiveUp, Turn, Failed, Calls!Failed, Ping
    <3> QED BY <3>1 DEF Calls!Answer
  <2>4. CASE Finish
    BY <2>4 DEF Finish, Calls!vars
  <2>5. ASSUME NEW t \in Threads, Handles(t) \/ Idle(t) \/ Shell(t) \/ Fault(t)
        PROVE  UNCHANGED Calls!vars
    <3>1. UNCHANGED main
      BY <2>5 DEF Handles, Idle, Take, StartPing, StartExec, SendCommands, CollectResult,
         CollectGarbage, CollectDone, CollectTimeout, Collected, Fails, Returns,
         Shell, Fault
    <3> QED BY <3>1 DEF main, Calls!vars
  <2>6. CASE UNCHANGED vars
    BY <2>6 DEF vars, main, Calls!vars
  <2> QED
    BY <2>1, <2>2, <2>3, <2>4, <2>5, <2>6
       DEF Next, Main, Calls!Next, Hosts, Calls!Hosts
<1> QED BY <1>1, <1>2, Invariant, PTL DEF Spec, CallsSpec, Calls!Spec

-----------------------------------------------------------------------------
(* A host that answers in time is served, whatever happens to the others.       *)

Request(h) == [call |-> call, n |-> cnt[h]]
Complete(h) == [i \in 1 .. cnt[h] |-> Own(call, i)]
Awaited(h) == h \in togo /\ rq[h] = <<>>

(* A thread that has not been started yet. *)
Unused(t) ==
  pc[t] = "off" /\ queue[t] = <<>> /\ cur[t] = Stop /\ ~alive[t] /\ link[t] = "none"

(* Nothing is read before it has arrived: the muxer gets its commands after it
   has said that it is ready, and each of them has a result, a line on the way,
   or is still to end. *)
Flow(t) ==
  /\ pc[t] = "ready" =>
       \/ mux[t].at = "off" /\ inp[t] = <<Script(job[t])>> /\ out[t] = <<>>
       \/ mux[t].at = "reading" /\ inp[t] = <<>> /\ out[t] = <<Ready(job[t])>>
  /\ pc[t] = "collect" =>
       \/ mux[t].at = "reading" /\ inp[t] = <<Commands(job[t], Size(t))>> /\ out[t] = <<>>
       \/ /\ mux[t].at # "reading" /\ inp[t] = <<>>
          /\ \A k \in 1 .. Len(out[t]) : out[t][k].kind # "ready"
          /\ \A i \in 1 .. Size(t) :
               \/ outputs[t][i] = Own(job[t], i) \/ i \in mux[t].todo
               \/ \E k \in 1 .. Len(out[t]) : out[t][k] = Output(job[t], i)

(* The current handler of a host: it has the request of the call, or is at it,
   exactly while the main thread waits for its results. *)
Serves(t) ==
  /\ pc[t] \notin {"off", "ended"} /\ link[t] # "dead" /\ Flow(t)
  /\ IF Awaited(t[1]) THEN \/ queue[t] = <<Request(t[1])>> /\ cur[t] = Stop
                           \/ queue[t] = <<>> /\ cur[t] = Request(t[1])
                      ELSE queue[t] = <<>> /\ cur[t] = Stop
  /\ pc[t] = "get" => cur[t] = Stop /\ (Awaited(t[1]) \/ alive[t])
  /\ cur[t] = Stop => pc[t] # "exec" /\ (~IdlePings => pc[t] = "get")
  /\ pc[t] = "exec" \/ (pc[t] \in {"ready", "collect"} /\ job[t] # Ping) => alive[t]

Served(h) ==
  /\ h \in togo => master[h] # 0 /\ cnt[h] > 0 /\ (rq[h] # <<>> => rq[h] = Complete(h))
  /\ h \notin togo => got[h] = Complete(h)
  /\ IF finished THEN togo = {} /\ master[h] = 0
     ELSE \A g \in 1 .. MaxCall :
            IF g = master[h] THEN Serves(<<h, g>>) ELSE Unused(<<h, g>>)

LEMMA QueueFacts ==
  ASSUME Types, NEW t \in Threads, Handles(t) \/ Idle(t) \/ Shell(t) \/ Fault(t)
  PROVE  /\ UNCHANGED main
         /\ \A u \in Threads : u # t => queue'[u] = queue[u]
         /\ \A k \in Hosts : k # t[1] => rq'[k] = rq[k]
<1>1. UNCHANGED main
  BY DEF Handles, Idle, Take, StartPing, StartExec, SendCommands, CollectResult,
         CollectGarbage, CollectDone, CollectTimeout, Collected, Fails, Returns,
         Shell, Fault
<1>2. Fails(t) => UNCHANGED queue /\ \A k \in Hosts : k # t[1] => rq'[k] = rq[k]
  BY DEF Fails, Returns, Respond, Types, PostOK
<1>3. Collected(t) => UNCHANGED queue /\ \A k \in Hosts : k # t[1] => rq'[k] = rq[k]
  BY <1>2 DEF Collected, Returns, Respond, Types, PostOK
<1>4. CASE Take(t)
  BY <1>1, <1>4 DEF Take, Types, PostOK
<1>5. CASE Idle(t) \/ Shell(t) \/ Fault(t) \/ CollectResult(t)
  BY <1>1, <1>5 DEF Idle, Shell, Fault, CollectResult
<1>6. CASE StartPing(t) \/ StartExec(t) \/ SendCommands(t) \/ CollectGarbage(t)
  BY <1>1, <1>2, <1>6 DEF StartPing, StartExec, SendCommands, CollectGarbage
<1>7. CASE CollectDone(t) \/ CollectTimeout(t)
  BY <1>1, <1>3, <1>7 DEF CollectDone, CollectTimeout
<1> QED BY <1>4, <1>5, <1>6, <1>7 DEF Handles

(* The shell of a host that does not fail. *)
LEMMA ShellFlows ==
  ASSUME Types, NEW t \in Threads, t[1] \in Healthy, Shell(t) \/ Fault(t), Talk(t), Flow(t)
  PROVE  Flow(t)' /\ link'[t] = link[t]
<1> USE DEF Types
<1>0. UNCHANGED <<pc, job, cur, outputs, alive>> /\ Size(t)' = Size(t)
  BY DEF Shell, Fault, handler, Size
<1>1. /\ inp[t] \in Seq(Inputs) /\ out[t] \in Seq(Lines) /\ mux[t] \in Muxers
  BY DEF LineTypeOK
<1>2. ~Fault(t)
  BY DEF Fault, MuxerAlarm, Drop, Healthy
<1>3. CASE pc[t] \notin {"ready", "collect"}
  <2>1. link' = link
    BY <1>2 DEF Shell, Works, StartMuxer, ReadCommands, CommandEnds, MuxerEnds
  <2> QED BY <1>0, <1>3, <2>1 DEF Flow
<1>4. CASE StartMuxer(t) /\ pc[t] \in {"ready", "collect"}
  <2>1. /\ mux[t].at = "off" /\ inp[t] # <<>> /\ link' = link
        /\ inp'[t] = Tail(inp[t]) /\ mux'[t] = Muxer("reading", Head(inp[t]).job, {})
        /\ out'[t] = Append(out[t], Ready(Head(inp[t]).job))
    BY <1>4 DEF StartMuxer, Says, LineTypeOK
  <2>2. pc[t] = "ready" /\ inp[t] = <<Script(job[t])>> /\ out[t] = <<>>
    BY <1>4, <2>1 DEF Flow
  <2>3. Head(inp[t]).job = job[t] /\ inp'[t] = <<>> /\ out'[t] = <<Ready(job[t])>>
    BY <2>1, <2>2, TupleFacts DEF Script
  <2>4. mux'[t].at = "reading"
    BY <2>1 DEF Muxer
  <2> QED BY <1>0, <2>1, <2>2, <2>3, <2>4 DEF Flow
<1>5. CASE ReadCommands(t) /\ pc[t] \in {"ready", "collect"}
  <2>1. /\ mux[t].at = "reading" /\ inp[t] # <<>> /\ link' = link /\ out' = out
        /\ inp'[t] = Tail(inp[t]) /\ mux'[t] = Muxer("running", mux[t].job, 1 .. Head(inp[t]).n)
    BY <1>5 DEF ReadCommands, LineTypeOK
  <2>2. pc[t] = "collect" /\ inp[t] = <<Commands(job[t], Size(t))>> /\ out[t] = <<>>
    BY <1>5, <2>1 DEF Flow
  <2>3. Head(inp[t]).n = Size(t) /\ inp'[t] = <<>>
    BY <2>1, <2>2, TupleFacts DEF Commands
  <2>4. mux'[t].at = "running" /\ mux'[t].todo = 1 .. Size(t)
    BY <2>1, <2>3 DEF Muxer
  <2>5. out'[t] = <<>> /\ pc'[t] = "collect" /\ Len(out'[t]) = 0
    BY <1>0, <2>1, <2>2
  <2>6. \A k \in 1 .. Len(out'[t]) : out'[t][k].kind # "ready"
    BY <2>5
  <2> QED BY <1>0, <2>1, <2>3, <2>4, <2>5, <2>6 DEF Flow
<1>6. ASSUME NEW i \in 1 .. MaxCmd, CommandEnds(t, i), pc[t] \in {"ready", "collect"}
      PROVE  Flow(t)' /\ link'[t] = link[t]
  <2>1. /\ mux[t].at = "running" /\ UNCHANGED <<link, inp>>
        /\ i \in mux[t].todo /\ out'[t] = Append(out[t], Output(mux[t].job, i))
        /\ mux'[t] = Muxer("running", mux[t].job, mux[t].todo \ {i})
    BY <1>6 DEF CommandEnds, Says, LineTypeOK
  <2>2. mux'[t].at = "running" /\ mux'[t].todo = mux[t].todo \ {i}
    BY <2>1 DEF Muxer
  <2>3. pc[t] = "collect" /\ inp[t] = <<>> /\ mux[t].job = job[t]
    BY <1>6, <2>1 DEF Flow, Talk
  <2>4. Output(job[t], i) \in Lines
    BY <1>1, <2>3 DEF Output, Lines, Muxers
  <2>5. /\ Len(out'[t]) = Len(out[t]) + 1 /\ Len(out[t]) \in Nat
        /\ out'[t][Len(out[t]) + 1] = Output(job[t], i)
        /\ \A k \in 1 .. Len(out[t]) : out'[t][k] = out[t][k]
    BY <1>1, <2>1, <2>3, <2>4, AppendProperties
  <2>6. \A k \in 1 .. Len(out'[t]) : out'[t][k].kind # "ready"
    BY <2>1, <2>3, <2>5 DEF Flow, Output
  <2>7. ASSUME NEW m \in 1 .. Size(t)
        PROVE  \/ outputs[t][m] = Own(job[t], m) \/ m \in mux'[t].todo
               \/ \E k \in 1 .. Len(out'[t]) : out'[t][k] = Output(job[t], m)
    <3>1. CASE m = i
      BY <2>5, <3>1
    <3>2. CASE outputs[t][m] = Own(job[t], m) \/ (m # i /\ m \in mux[t].todo)
      BY <2>2, <3>2
    <3>3. ASSUME NEW k \in 1 .. Len(out[t]), out[t][k] = Output(job[t], m)
          PROVE  \E j \in 1 .. Len(out'[t]) : out'[t][j] = Output(job[t], m)
      <4>1. k \in 1 .. Len(out'[t]) /\ out'[t][k] = Output(job[t], m)
        BY <2>5, <3>3
      <4> QED BY <4>1
    <3>4. \/ outputs[t][m] = Own(job[t], m) \/ m \in mux[t].todo
          \/ \E k \in 1 .. Len(out[t]) : out[t][k] = Output(job[t], m)
      BY <2>1, <2>3 DEF Flow
    <3> QED BY <3>1, <3>2, <3>3, <3>4
  <2> QED BY <1>0, <2>1, <2>2, <2>3, <2>6, <2>7 DEF Flow
<1>7. CASE MuxerEnds(t) /\ pc[t] \in {"ready", "collect"}
  <2>1. /\ mux[t].at = "running" /\ mux[t].todo = {} /\ UNCHANGED <<link, inp>>
        /\ out'[t] = Append(out[t], Done(mux[t].job)) /\ mux'[t] = NoMuxer
    BY <1>7 DEF MuxerEnds, Says, LineTypeOK
  <2>2. mux'[t].at = "off" /\ pc[t] = "collect" /\ inp[t] = <<>>
    BY <1>7, <2>1 DEF NoMuxer, Muxer, Flow
  <2>3. Done(mux[t].job) \in Lines
    BY <1>1, ShellAssumption DEF Done, Lines, Muxers
  <2>4. /\ Len(out'[t]) = Len(out[t]) + 1 /\ Len(out[t]) \in Nat
        /\ out'[t][Len(out[t]) + 1] = Done(mux[t].job)
        /\ \A k \in 1 .. Len(out[t]) : out'[t][k] = out[t][k]
    BY <1>1, <2>1, <2>3, AppendProperties
  <2>5. \A k \in 1 .. Len(out'[t]) : out'[t][k].kind # "ready"
    BY <2>1, <2>2, <2>4 DEF Flow, Done
  <2>6. \A m \in 1 .. Size(t) : \/ outputs[t][m] = Own(job[t], m)
                                \/ \E k \in 1 .. Len(out'[t]) : out'[t][k] = Output(job[t], m)
    BY <2>1, <2>2, <2>4 DEF Flow
  <2> QED BY <1>0, <2>1, <2>2, <2>5, <2>6 DEF Flow
<1> QED BY <1>2, <1>3, <1>4, <1>5, <1>6, <1>7 DEF Shell, Works

LEMMA RequestFacts ==
  ASSUME Types, NEW h \in Hosts, h \in togo => cnt[h] > 0
  PROVE  /\ Request(h).call = call /\ Request(h).n = cnt[h]
         /\ h \in togo => Request(h) # Stop /\ Complete(h) # <<>>
         /\ Len(Complete(h)) = cnt[h]
         /\ \A i \in 1 .. cnt[h] : Complete(h)[i] = Own(call, i)
<1>1. cnt[h] \in Nat
  BY ShellAssumption DEF Types, MainOK
<1>2. Len(Complete(h)) = cnt[h] /\ \A i \in 1 .. cnt[h] : Complete(h)[i] = Own(call, i)
  BY <1>1 DEF Complete
<1>3. Request(h).call = call /\ Request(h).n = cnt[h]
  BY DEF Request
<1>4. Stop.n = 0 /\ Len(<<>>) = 0
  BY DEF Stop
<1> QED BY <1>1, <1>2, <1>3, <1>4

(* All results have been read when the muxer has said that it is done. *)
LEMMA DoneIsComplete ==
  ASSUME Types, NEW t \in Threads, Talk(t), Flow(t),
         pc[t] = "collect", out[t] # <<>>, Head(out[t]).kind = "done"
  PROVE  \A i \in 1 .. Size(t) : outputs[t][i] = Own(job[t], i)
<1>1. out[t] \in Seq(Lines)
  BY DEF Types, LineTypeOK
<1>2. Fits(t, 1) /\ Head(out[t]) = out[t][1] /\ Len(out[t]) \in Nat \ {0}
  BY <1>1, TailFacts DEF Talk
<1>3. Len(out[t]) = 1 /\ mux[t].at = "off" /\ out[t][1].kind = "done"
  BY <1>2 DEF Fits
<1>4. mux[t].todo = {}
  BY <1>3 DEF Talk, NoMuxer, Muxer
<1>5. ASSUME NEW i \in 1 .. Size(t), NEW k \in 1 .. Len(out[t]), out[t][k] = Output(job[t], i)
      PROVE  FALSE
  <2>1. k = 1
    BY <1>3, <1>5
  <2> QED BY <1>3, <1>5, <2>1 DEF Output
<1>6. \A i \in 1 .. Size(t) : \/ outputs[t][i] = Own(job[t], i) \/ i \in mux[t].todo
                              \/ \E k \in 1 .. Len(out[t]) : out[t][k] = Output(job[t], i)
  BY <1>3 DEF Flow
<1> QED BY <1>4, <1>5, <1>6

(* A result is read: it is noted, and nothing else is lost. *)
LEMMA ResultFlows ==
  ASSUME Types, NEW t \in Threads, Talk(t), Flow(t), CollectResult(t)
  PROVE  Flow(t)'
<1> DEFINE l == Head(out[t])
<1>0. out[t] \in Seq(Lines) /\ outputs[t] \in Seq(Answers)
  BY DEF Types, LineTypeOK, HandOK
<1>1. /\ pc[t] = "collect" /\ out[t] # <<>> /\ l.kind = "result"
      /\ UNCHANGED <<inp, mux, pc, cur, job>> /\ out'[t] = Tail(out[t])
      /\ outputs'[t] = [outputs[t] EXCEPT ![l.i] = Own(l.job, l.i)]
  BY DEF CollectResult, Types, LineTypeOK, HandOK
<1>2. /\ Fits(t, 1) /\ l = out[t][1] /\ l \in Lines
      /\ Len(out[t]) \in Nat \ {0} /\ Len(out'[t]) = Len(out[t]) - 1
      /\ \A k \in 1 .. Len(out'[t]) : out'[t][k] = out[t][k + 1]
  BY <1>0, <1>1, TailFacts DEF Talk
<1>3. l.job = job[t] /\ l.i \in 1 .. Size(t)
  BY <1>1, <1>2 DEF Fits
<1>4. /\ mux[t].at # "reading" /\ inp[t] = <<>>
      /\ \A k \in 1 .. Len(out[t]) : out[t][k].kind # "ready"
      /\ \A i \in 1 .. Size(t) : \/ outputs[t][i] = Own(job[t], i) \/ i \in mux[t].todo
                                 \/ \E k \in 1 .. Len(out[t]) : out[t][k] = Output(job[t], i)
  BY <1>1 DEF Flow
<1>5. \A k \in 1 .. Len(out'[t]) : out'[t][k].kind # "ready"
  BY <1>2, <1>4
<1>6. \A i \in 1 .. Size(t) :
        outputs'[t][i] = IF i = l.i THEN Own(l.job, l.i) ELSE outputs[t][i]
  <2> DEFINE s == outputs[t]
             e == Own(l.job, l.i)
             k == l.i
  <2>1. e \in Answers
    BY <1>2 DEF Own, Answers, Lines
  <2>2. s \in Seq(Answers) /\ outputs'[t] = [s EXCEPT ![k] = e] /\ Len(s) = Size(t)
    BY <1>0, <1>1 DEF Talk
  <2> HIDE DEF s, e, k
  <2>3. \A i \in 1 .. Len(s) : outputs'[t][i] = IF i = k THEN e ELSE s[i]
    BY <2>1, <2>2, ExceptFacts
  <2> QED BY <2>2, <2>3 DEF s, e, k
<1>7. Size(t)' = Size(t)
  BY <1>1 DEF Size
<1>8. ASSUME NEW i \in 1 .. Size(t)
      PROVE  \/ outputs'[t][i] = Own(job[t], i) \/ i \in mux[t].todo
             \/ \E k \in 1 .. Len(out'[t]) : out'[t][k] = Output(job[t], i)
  <2>1. CASE outputs[t][i] = Own(job[t], i) \/ i = l.i
    BY <1>3, <1>6, <2>1
  <2>2. ASSUME NEW k \in 1 .. Len(out[t]), out[t][k] = Output(job[t], i), i # l.i
        PROVE  \E j \in 1 .. Len(out'[t]) : out'[t][j] = Output(job[t], i)
    <3>1. k # 1
      BY <1>2, <2>2 DEF Output
    <3>2. k - 1 \in 1 .. Len(out'[t]) /\ out'[t][k - 1] = out[t][k]
      BY <1>2, <3>1
    <3> QED BY <2>2, <3>2
  <2> QED BY <1>4, <2>1, <2>2
<1> QED BY <1>1, <1>4, <1>5, <1>7, <1>8 DEF Flow

(* The handler of a host that answers in time fails at nothing. *)
LEMMA HandlerServes ==
  ASSUME Types, NEW t \in Threads, t[1] \in Healthy, Handles(t) \/ Idle(t),
         Talk(t), Serves(t), t[1] \in togo => cnt[t[1]] > 0
  PROVE  /\ Serves(t)'
         /\ \/ rq'[t[1]] = rq[t[1]]
            \/ Awaited(t[1]) /\ rq'[t[1]] = Complete(t[1])
<1> DEFINE h == t[1]
<1>0. /\ h \in Hosts /\ h \notin Slow /\ ~Silent(t) /\ link[t] \in {"none", "open"}
      /\ inp[t] \in Seq(Inputs) /\ out[t] \in Seq(Lines) /\ UNCHANGED <<togo, call, cnt>>
      /\ queue[t] \in Seq(Items) /\ pc[t] \in PCs /\ cur[t] \in Items
  BY QueueFacts DEF Threads, Healthy, Silent, Serves, Types, LineTypeOK, PostOK, HandOK, main
<1>1. Awaited(h) => Request(h) # Stop /\ Complete(h) # <<>>
  BY <1>0, RequestFacts DEF Awaited
<1>2. ASSUME UNCHANGED rq PROVE Request(h)' = Request(h) /\ Awaited(h)' = Awaited(h)
  BY <1>0, <1>2 DEF Request, Awaited
<1>3. (alive[t] /\ pc[t] \in {"get", "ping"}) \/ pc[t] = "exec" => link[t] = "none" \/ Clean(t)
  BY <1>0 DEF Talk
<1>4. CASE Take(t)
  <2>1. /\ pc[t] = "get" /\ queue[t] # <<>> /\ UNCHANGED <<rq, job, alive>>
        /\ queue'[t] = Tail(queue[t]) /\ cur'[t] = Head(queue[t])
    BY <1>4 DEF Take, Types, PostOK, HandOK
  <2>2. Awaited(h) /\ queue[t] = <<Request(h)>>
    BY <2>1 DEF Serves
  <2>3. queue'[t] = <<>> /\ cur'[t] = Request(h) /\ cur'[t] # Stop
    BY <1>1, <2>1, <2>2, TupleFacts
  <2>4. pc'[t] = "ping" /\ UNCHANGED line
    BY <1>4, <2>1, <2>3 DEF Take, Types, HandOK
  <2> QED BY <1>2, <2>1, <2>2, <2>3, <2>4 DEF Serves, Flow, line
<1>5. CASE Idle(t)
  <2>1. /\ pc[t] = "get" /\ queue[t] = <<>> /\ IdlePings /\ pc'[t] = "ping"
        /\ UNCHANGED <<line, rq, queue, cur, job, alive>>
    BY <1>5 DEF Idle, Types, HandOK
  <2> QED BY <1>2, <2>1 DEF Serves, Flow, line
<1>6. CASE StartPing(t)
  <2>1. /\ pc[t] = "ping" /\ WriteScript(t, ~alive[t], Ping) /\ UNCHANGED <<rq, queue, cur>>
        /\ job'[t] = Ping /\ pc'[t] = "ready"
    BY <1>6 DEF StartPing, Serves, Types, HandOK
  <2>2. link'[t] = "open" /\ inp'[t] = <<Script(Ping)>> /\ out'[t] = <<>> /\ mux'[t] = NoMuxer
    <3>1. (~alive[t]) \in BOOLEAN /\ Ping \in Jobs
      BY ShellAssumption DEF Jobs, Ping
    <3>2. ~alive[t] \/ link[t] = "none" \/ Clean(t)
      BY <1>3, <2>1
    <3> QED BY <2>1, <3>1, <3>2, StartLine
  <2>3. mux'[t].at = "off"
    BY <2>2 DEF NoMuxer, Muxer
  <2> QED BY <1>2, <2>1, <2>2, <2>3 DEF Serves, Flow
<1>7. CASE StartExec(t)
  <2>1. /\ pc[t] = "exec" /\ WriteScript(t, FALSE, cur[t].call)
        /\ UNCHANGED <<rq, queue, cur, alive>>
        /\ job'[t] = cur[t].call /\ pc'[t] = "ready"
    BY <1>7 DEF StartExec, Serves, Types, HandOK
  <2>2. /\ link'[t] = "open" /\ inp'[t] = <<Script(cur[t].call)>>
        /\ out'[t] = <<>> /\ mux'[t] = NoMuxer
    BY <1>0, <1>3, <2>1, StartLine DEF Items, Jobs, Ping
  <2>3. mux'[t].at = "off"
    BY <2>2 DEF NoMuxer, Muxer
  <2> QED BY <1>2, <2>1, <2>2, <2>3 DEF Serves, Flow
<1>8. CASE SendCommands(t)
  <2>1. pc[t] = "ready" /\ out[t] # <<>>
    BY <1>0, <1>8 DEF SendCommands
  <2>2. mux[t].at = "reading" /\ inp[t] = <<>> /\ out[t] = <<Ready(job[t])>>
    BY <2>1 DEF Serves, Flow
  <2>3. /\ inp'[t] = Append(inp[t], Commands(job[t], Size(t))) /\ pc'[t] = "collect"
        /\ UNCHANGED <<link, mux, rq, queue, cur, job, alive>> /\ out'[t] = Tail(out[t])
    BY <1>8, <2>1 DEF SendCommands, Serves, Types, LineTypeOK, HandOK
  <2>4. inp'[t] = <<Commands(job[t], Size(t))>> /\ out'[t] = <<>> /\ Size(t)' = Size(t)
    BY <2>2, <2>3, TupleFacts DEF Size
  <2>5. Flow(t)'
    BY <2>2, <2>3, <2>4 DEF Flow
  <2> QED BY <1>2, <2>1, <2>3, <2>5 DEF Serves
<1>9. CASE CollectResult(t)
  <2>1. Flow(t)'
    BY <1>9, ResultFlows DEF Serves
  <2>2. UNCHANGED <<link, rq, queue, pc, cur, job, alive>> /\ pc[t] = "collect"
    BY <1>9 DEF CollectResult
  <2> QED BY <1>2, <2>1, <2>2 DEF Serves
<1>10. CASE CollectGarbage(t)
  <2>1. pc[t] = "collect" /\ out[t][1].kind = "ready" /\ Len(out[t]) \in Nat \ {0}
    BY <1>0, <1>10, TailFacts DEF CollectGarbage
  <2>2. \A k \in 1 .. Len(out[t]) : out[t][k].kind # "ready"
    BY <1>10, <2>1 DEF CollectGarbage, Serves, Flow
  <2> QED BY <2>1, <2>2
<1>11. CASE CollectDone(t)
  <2>1. /\ pc[t] = "collect" /\ Collected(t) /\ UNCHANGED <<link, inp, mux>>
        /\ \A i \in 1 .. Size(t) : outputs[t][i] = Own(job[t], i)
    BY <1>11, DoneIsComplete DEF CollectDone, Serves
  <2>2. CASE job[t] = Ping
    <3>1. outputs[t][1] = Own(Ping, 1)
      BY <2>1, <2>2 DEF Size
    <3>2. /\ alive' = [alive EXCEPT ![t] = TRUE] /\ UNCHANGED rq
          /\ IF cur[t] = Stop THEN Returns(t)
             ELSE pc' = [pc EXCEPT ![t] = "exec"] /\ UNCHANGED <<queue, cur>>
      BY <2>1, <2>2, <3>1 DEF Collected
    <3>3. /\ alive'[t] /\ queue' = queue /\ cur'[t] = cur[t]
          /\ IF cur[t] = Stop THEN pc'[t] = "get" ELSE pc'[t] = "exec"
      BY <3>2 DEF Returns, Types, HandOK
    <3> QED BY <1>2, <2>1, <3>2, <3>3 DEF Serves, Flow
  <2>3. CASE job[t] # Ping
    <3>1. Respond(t, outputs[t]) /\ Returns(t) /\ UNCHANGED alive
      BY <2>1, <2>3 DEF Collected
    <3>2. job[t] = cur[t].call /\ cur[t] # Stop
      BY <2>1, <2>3 DEF Talk, Stop, Ping
    <3>3. Awaited(h) /\ queue[t] = <<>> /\ cur[t] = Request(h) /\ alive[t]
      BY <2>1, <2>3, <3>2 DEF Serves
    <3>4. job[t] = call /\ Size(t) = cnt[h] /\ cur[t].call = call
      BY <1>0, <2>3, <3>2, <3>3, RequestFacts DEF Size, Awaited
    <3>5. rq'[h] = outputs[t]
      BY <1>0, <3>1, <3>4 DEF Respond, Types, PostOK
    <3>6. outputs[t] = Complete(h)
      <4>1. outputs[t] \in Seq(Answers) /\ Len(outputs[t]) = cnt[h]
        BY <2>1, <3>4 DEF Types, HandOK, Talk
      <4>2. outputs[t] = [i \in 1 .. cnt[h] |-> outputs[t][i]]
        BY <4>1
      <4> QED BY <2>1, <3>4, <4>2 DEF Complete
    <3>7. pc'[t] = "get" /\ cur'[t] = Stop /\ queue' = queue /\ ~Awaited(h)'
      BY <1>1, <3>1, <3>3, <3>5, <3>6 DEF Returns, Awaited, Types, HandOK
    <3> QED BY <2>1, <3>1, <3>3, <3>5, <3>6, <3>7 DEF Serves, Flow
  <2> QED BY <2>2, <2>3
<1>12. CASE CollectTimeout(t)
  BY <1>0, <1>12 DEF CollectTimeout
<1> QED
  BY <1>4, <1>5, <1>6, <1>7, <1>8, <1>9, <1>10, <1>11, <1>12 DEF Handles

LEMMA ServesSame ==
  ASSUME NEW u \in Threads, Serves(u),
         link'[u] = link[u], inp'[u] = inp[u], mux'[u] = mux[u], out'[u] = out[u],
         pc'[u] = pc[u], job'[u] = job[u], cur'[u] = cur[u],
         outputs'[u] = outputs[u], alive'[u] = alive[u], queue'[u] = queue[u],
         Awaited(u[1])' = Awaited(u[1]), Awaited(u[1]) => Request(u[1])' = Request(u[1])
  PROVE  Serves(u)'
<1>1. Flow(u)'
  BY DEF Serves, Flow, Size
<1> QED BY <1>1 DEF Serves

(* A thread that has not been started, or is not needed any more, does nothing. *)
LEMMA UnusedRests ==
  ASSUME Types, NEW u \in Threads, Unused(u)
  PROVE  ~(Handles(u) \/ Idle(u) \/ Shell(u) \/ Fault(u))
  BY DEF Unused, Handles, Idle, Shell, Fault, Take, StartPing, StartExec, SendCommands,
     CollectResult, CollectGarbage, CollectDone, CollectTimeout, Works, StartMuxer,
     ReadCommands, CommandEnds, MuxerEnds, MuxerAlarm, Drop

(* A step of any thread. *)
LEMMA ThreadServes ==
  ASSUME Types, NEW t \in Threads, Handles(t) \/ Idle(t) \/ Shell(t) \/ Fault(t), Talk(t),
         NEW h \in Healthy, Served(h)
  PROVE  Served(h)'
<1>1. /\ UNCHANGED <<call, cnt, togo, got, master, finished>> /\ h \in Hosts
      /\ \A u \in Threads : u # t => queue'[u] = queue[u]
      /\ \A k \in Hosts : k # t[1] => rq'[k] = rq[k]
  BY QueueFacts DEF main, Healthy
<1>2. Request(h)' = Request(h) /\ Complete(h)' = Complete(h)
  BY <1>1 DEF Request, Complete
<1>3. /\ h \in togo => master[h] # 0 /\ cnt[h] > 0
      /\ h \in togo /\ rq[h] # <<>> => rq[h] = Complete(h)
      /\ h \notin togo => got[h] = Complete(h)
      /\ IF finished THEN togo = {} /\ master[h] = 0
         ELSE \A g \in 1 .. MaxCall :
                IF g = master[h] THEN Serves(<<h, g>>) ELSE Unused(<<h, g>>)
  BY DEF Served
<1>4. CASE finished
  <2>1. \A i \in 1 .. cnt[h] : h \notin togo
    BY <1>3, <1>4
  <2> QED BY <1>1, <1>2, <1>3, <1>4 DEF Served
<1>5. ASSUME ~finished, rq'[h] = rq[h],
             \A g \in 1 .. MaxCall : <<h, g>> = t => g = master[h] /\ Serves(t)'
      PROVE  Served(h)'
  <2>1. Awaited(h)' = Awaited(h)
    BY <1>1, <1>5 DEF Awaited
  <2>2. ASSUME NEW g \in 1 .. MaxCall
        PROVE  IF g = master[h] THEN Serves(<<h, g>>)' ELSE Unused(<<h, g>>)'
    <3> DEFINE u == <<h, g>>
    <3>1. u \in Threads /\ u[1] = h
      BY <1>1 DEF Threads
    <3>2. CASE u = t
      BY <1>5, <3>2
    <3>3. CASE u # t
      <4>1. queue'[u] = queue[u]
        BY <1>1, <3>1, <3>3
      <4>2. /\ link'[u] = link[u] /\ inp'[u] = inp[u] /\ mux'[u] = mux[u]
            /\ out'[u] = out[u] /\ pc'[u] = pc[u] /\ job'[u] = job[u] /\ cur'[u] = cur[u]
            /\ outputs'[u] = outputs[u] /\ alive'[u] = alive[u]
        BY <3>1, <3>3, Apart
      <4>3. CASE g = master[h]
        <5>1. Serves(u)
          BY <1>3, <1>5, <4>3
        <5> HIDE DEF u
        <5>2. Serves(u)'
          BY <1>2, <2>1, <3>1, <4>1, <4>2, <5>1, ServesSame
        <5> QED BY <4>3, <5>2 DEF u
      <4>4. CASE g # master[h]
        <5>1. Unused(u)
          BY <1>3, <1>5, <4>4
        <5> HIDE DEF u
        <5>2. Unused(u)'
          BY <4>1, <4>2, <5>1 DEF Unused
        <5> QED BY <4>4, <5>2 DEF u
      <4> QED BY <4>3, <4>4
    <3> QED BY <3>2, <3>3
  <2>3. IF finished' THEN togo' = {} /\ master'[h] = 0
        ELSE \A g \in 1 .. MaxCall :
               IF g = master'[h] THEN Serves(<<h, g>>)' ELSE Unused(<<h, g>>)'
    BY <1>1, <1>5, <2>2
  <2> QED BY <1>1, <1>2, <1>3, <1>5, <2>3 DEF Served
<1>6. CASE ~finished /\ t[1] # h
  <2>1. rq'[h] = rq[h]
    BY <1>1, <1>6
  <2>2. \A g \in 1 .. MaxCall : <<h, g>> # t
    BY <1>6
  <2> QED BY <1>5, <1>6, <2>1, <2>2
<1>7. CASE ~finished /\ t[1] = h
  <2>1. PICK g \in 1 .. MaxCall : t = <<h, g>>
    BY <1>7 DEF Threads
  <2>2. g = master[h] /\ Serves(t)
    <3>1. ~Unused(t)
      BY UnusedRests
    <3> QED BY <1>3, <1>7, <2>1, <3>1
  <2>3. \A c \in 1 .. MaxCall : <<h, c>> = t => c = master[h]
    BY <2>1, <2>2
  <2>4. CASE Shell(t) \/ Fault(t)
    <3>1. rq' = rq /\ queue' = queue /\ UNCHANGED <<pc, job, cur, outputs, alive>>
      BY <2>4 DEF Shell, Fault, handler
    <3>2. Flow(t)' /\ link'[t] = link[t]
      BY <1>7, <2>2, <2>4, ShellFlows DEF Serves
    <3>3. Serves(t)'
      BY <1>1, <1>2, <1>7, <2>2, <3>1, <3>2 DEF Serves, Awaited
    <3> QED BY <1>5, <1>7, <2>3, <3>1, <3>3
  <2>5. CASE Handles(t) \/ Idle(t)
    <3>1. Serves(t)' /\ (rq'[h] = rq[h] \/ (Awaited(h) /\ rq'[h] = Complete(h)))
      BY <1>3, <1>7, <2>2, <2>5, HandlerServes
    <3>2. CASE rq'[h] = rq[h]
      BY <1>5, <1>7, <2>3, <3>1, <3>2
    <3>3. CASE Awaited(h) /\ rq'[h] = Complete(h)
      <4>1. ASSUME NEW c \in 1 .. MaxCall
            PROVE  IF c = master[h] THEN Serves(<<h, c>>)' ELSE Unused(<<h, c>>)'
        <5>1. CASE c = g
          BY <2>1, <2>2, <3>1, <5>1
        <5>2. CASE c # g
          <6> DEFINE u == <<h, c>>
          <6>1. u \in Threads /\ u # t /\ Unused(u)
            BY <1>1, <1>3, <1>7, <2>1, <2>2, <5>2 DEF Threads
          <6> HIDE DEF u
          <6>2. Unused(u)'
            BY <1>1, <6>1, Apart DEF Unused
          <6> QED BY <2>2, <5>2, <6>2 DEF u
        <5> QED BY <5>1, <5>2
      <4>2. h \in togo
        BY <3>3 DEF Awaited
      <4> QED BY <1>1, <1>2, <1>3, <1>7, <3>3, <4>1, <4>2 DEF Served
    <3> QED BY <3>1, <3>2, <3>3
  <2> QED BY <2>4, <2>5
<1> QED BY <1>4, <1>6, <1>7

(* A step of the main thread. *)
LEMMA MainServes ==
  ASSUME Types, NEW h \in Healthy, Served(h),
         (\E n \in [Hosts -> 0 .. MaxCmd] : Call(n)) \/ (\E k \in Hosts : Main(k)) \/ Finish
  PROVE  Served(h)'
<1>0. /\ h \in Hosts /\ h \notin Late /\ call \in 0 .. MaxCall /\ MaxCall \in Nat
      /\ master \in [Hosts -> 0 .. MaxCall] /\ togo \subseteq Hosts
      /\ rq \in [Hosts -> Seq(Answers)] /\ got \in [Hosts -> Seq(Answers)]
      /\ \A g \in 1 .. MaxCall : <<h, g>> \in Threads /\ <<h, g>>[1] = h
  BY ShellAssumption DEF Healthy, Threads, Types, MainOK, PostOK
<1>s. /\ h \in togo => master[h] # 0 /\ cnt[h] > 0
      /\ h \in togo /\ rq[h] # <<>> => rq[h] = Complete(h)
      /\ h \notin togo => got[h] = Complete(h)
      /\ IF finished THEN togo = {} /\ master[h] = 0
         ELSE \A g \in 1 .. MaxCall :
                IF g = master[h] THEN Serves(<<h, g>>) ELSE Unused(<<h, g>>)
  BY DEF Served
<1>1. ASSUME NEW n \in [Hosts -> 0 .. MaxCmd], Call(n) PROVE Served(h)'
  <2>1. /\ togo = {} /\ ~finished /\ finished' = finished /\ call < MaxCall
        /\ call' = call + 1 /\ cnt' = n /\ n[h] \in 0 .. MaxCmd /\ got'[h] = <<>>
        /\ UNCHANGED <<line, cur, job, alive, outputs>>
    BY <1>0, <1>1 DEF Call
  <2>2. ~Awaited(h) /\ MaxCmd \in Nat
    BY <2>1, ShellAssumption DEF Awaited
  <2>3. CASE n[h] = 0
    <3>1. /\ h \notin togo' /\ master'[h] = master[h]
          /\ \A t \in Threads : t[1] = h => pc'[t] = pc[t] /\ queue'[t] = queue[t]
      <4>1. h \notin togo' /\ togo' = {k \in Hosts : n[k] > 0}
        BY <1>0, <1>1, <2>3 DEF Call
      <4>2. master'[h] = master[h]
        BY <1>0, <1>1, <4>1 DEF Call
      <4>3. /\ pc' = [t \in Threads |-> IF t[1] \in togo' /\ t = Handler(t[1]) /\ pc[t] = "off"
                                        THEN "get" ELSE pc[t]]
            /\ queue' = [t \in Threads |->
                           IF t[1] \in togo' /\ t = Handler(t[1])
                           THEN Append(queue[t], [call |-> call + 1, n |-> n[t[1]]]) ELSE queue[t]]
        BY <1>1, Zenon DEF Call
      <4> QED BY <4>1, <4>2, <4>3
    <3>2. got'[h] = Complete(h)'
      BY <2>1, <2>3 DEF Complete
    <3>3. Awaited(h)' = Awaited(h)
      BY <2>2, <3>1 DEF Awaited
    <3>4. ASSUME NEW t \in Threads, t[1] = h
          PROVE  (Serves(t) => Serves(t)') /\ (Unused(t) => Unused(t)')
      <4>1. Serves(t) => Serves(t)'
        BY <2>1, <2>2, <3>1, <3>3, <3>4, ServesSame DEF line
      <4> QED BY <2>1, <3>1, <3>4, <4>1 DEF Unused, line
    <3>5. \A g \in 1 .. MaxCall :
            IF g = master'[h] THEN Serves(<<h, g>>)' ELSE Unused(<<h, g>>)'
      BY <1>0, <1>s, <2>1, <3>1, <3>4
    <3> QED BY <2>1, <3>1, <3>2, <3>5 DEF Served
  <2>4. CASE n[h] > 0
    <3> DEFINE item == [call |-> call + 1, n |-> n[h]]
    <3>1. h \in togo' /\ rq'[h] = <<>> /\ master'[h] = Handler(h)[2] /\ cnt'[h] > 0
      BY <1>0, <1>1, <2>1, <2>4 DEF Call
    <3>2. Awaited(h)' /\ Request(h)' = item
      BY <2>1, <3>1 DEF Awaited, Request
    <3>3. /\ Handler(h) = <<h, master'[h]>> /\ master'[h] \in 1 .. MaxCall
          /\ master'[h] = IF master[h] = 0 THEN call + 1 ELSE master[h]
      BY <1>0, <2>1, <3>1 DEF Handler
    <3>4. ASSUME NEW t \in Threads, t[1] = h, t # Handler(h)
          PROVE  pc'[t] = pc[t] /\ queue'[t] = queue[t]
      BY <1>1, <3>4 DEF Call, Types, PostOK, HandOK
    <3>5. ASSUME NEW t \in Threads, t = Handler(h)
          PROVE  /\ pc'[t] = (IF pc[t] = "off" THEN "get" ELSE pc[t])
                 /\ queue'[t] = Append(queue[t], item)
      <4>1. t[1] = h
        BY <3>3, <3>5
      <4> QED BY <1>0, <1>1, <2>4, <3>5, <4>1 DEF Call, Types, PostOK, HandOK
    <3>6. ASSUME NEW g \in 1 .. MaxCall, g = master'[h] PROVE Serves(<<h, g>>)'
      <4> DEFINE t == <<h, g>>
      <4>1. t \in Threads /\ t = Handler(h) /\ t[1] = h
        BY <1>0, <3>3, <3>6
      <4>2. \/ master[h] = 0 /\ Unused(t)
            \/ g = master[h] /\ Serves(t)
        BY <1>s, <2>1, <3>3, <3>6
      <4> HIDE DEF t
      <4>3. queue[t] = <<>> /\ cur[t] = Stop /\ link[t] # "dead" /\ pc[t] # "ended"
        BY <2>2, <4>1, <4>2 DEF Unused, Serves
      <4>4. /\ queue'[t] = <<item>> /\ cur'[t] = Stop /\ link'[t] # "dead"
            /\ pc'[t] = (IF pc[t] = "off" THEN "get" ELSE pc[t])
        BY <2>1, <3>5, <4>1, <4>3, TupleFacts DEF line
      <4>5. CASE Unused(t)
        <5>1. pc'[t] = "get"
          BY <4>4, <4>5 DEF Unused
        <5> QED BY <3>2, <4>1, <4>4, <5>1 DEF Serves, Flow, t
      <4>6. CASE Serves(t)
        <5>1. pc'[t] = pc[t] /\ pc[t] # "off"
          BY <4>4, <4>6 DEF Serves
        <5>2. Flow(t)'
          BY <2>1, <4>6, <5>1 DEF Serves, Flow, Size, line
        <5>3. Serves(t)'
          BY <2>1, <3>2, <4>1, <4>4, <4>6, <5>1, <5>2 DEF Serves, line
        <5> QED BY <5>3 DEF t
      <4> QED BY <4>2, <4>5, <4>6
    <3>7. ASSUME NEW g \in 1 .. MaxCall, g # master'[h] PROVE Unused(<<h, g>>)'
      <4> DEFINE t == <<h, g>>
      <4>1. t \in Threads /\ t # Handler(h) /\ t[1] = h
        BY <1>0, <3>3, <3>7
      <4>2. Unused(t)
        BY <1>s, <2>1, <3>3, <3>7
      <4> HIDE DEF t
      <4>3. Unused(t)'
        BY <2>1, <3>4, <4>1, <4>2 DEF Unused, line
      <4> QED BY <4>3 DEF t
    <3> QED BY <2>1, <3>1, <3>3, <3>6, <3>7 DEF Served
  <2> QED BY <2>1, <2>3, <2>4
<1>2. ASSUME NEW k \in Hosts, GetResult(k) PROVE Served(h)'
  <2>1. /\ k \in togo /\ rq[k] # <<>> /\ togo' = togo \ {k} /\ rq'[k] = <<>>
        /\ UNCHANGED <<line, call, cnt, master, finished, queue, pc, cur, job, alive, outputs>>
        /\ got'[k] = rq[k] /\ \A j \in Hosts : j # k => got'[j] = got[j] /\ rq'[j] = rq[j]
    BY <1>0, <1>2 DEF GetResult, Turn, handler
  <2>2. Request(h)' = Request(h) /\ Complete(h)' = Complete(h) /\ Awaited(h)' = Awaited(h)
    BY <1>0, <2>1 DEF Request, Complete, Awaited
  <2>3. ~finished
    BY <1>s, <2>1
  <2>4. ASSUME NEW g \in 1 .. MaxCall
        PROVE  IF g = master[h] THEN Serves(<<h, g>>)' ELSE Unused(<<h, g>>)'
    <3> DEFINE t == <<h, g>>
    <3>1. t \in Threads /\ t[1] = h
      BY <1>0
    <3>2. IF g = master[h] THEN Serves(t) ELSE Unused(t)
      BY <1>s, <2>3
    <3> HIDE DEF t
    <3>3. Unused(t) => Unused(t)'
      BY <2>1 DEF Unused, line
    <3>4. Serves(t) => Serves(t)'
      BY <2>1, <2>2, <3>1, ServesSame DEF line
    <3> QED BY <3>2, <3>3, <3>4 DEF t
  <2> QED BY <1>0, <1>s, <2>1, <2>2, <2>3, <2>4 DEF Served
<1>3. ASSUME NEW k \in Hosts, GiveUp(k) PROVE Served(h)'
  <2>1. /\ k \in togo /\ k # h /\ togo' = togo \ {k} /\ Tell(k)
        /\ UNCHANGED <<line, call, cnt, rq, finished, pc, cur, job, alive, outputs>>
        /\ got'[h] = got[h] /\ master'[h] = master[h]
    BY <1>0, <1>3 DEF GiveUp, Turn, handler
  <2>2. Request(h)' = Request(h) /\ Complete(h)' = Complete(h) /\ Awaited(h)' = Awaited(h)
    BY <1>0, <2>1 DEF Request, Complete, Awaited
  <2>3. ~finished
    BY <1>s, <2>1
  <2>4. ASSUME NEW g \in 1 .. MaxCall
        PROVE  IF g = master[h] THEN Serves(<<h, g>>)' ELSE Unused(<<h, g>>)'
    <3> DEFINE t == <<h, g>>
    <3>1. t \in Threads /\ t[1] = h /\ t # <<k, master[k]>>
      BY <1>0, <2>1
    <3>2. IF g = master[h] THEN Serves(t) ELSE Unused(t)
      BY <1>s, <2>3
    <3> HIDE DEF t
    <3>3. queue'[t] = queue[t]
      BY <2>1, <3>1 DEF Tell, Types, PostOK
    <3>4. Unused(t) => Unused(t)'
      BY <2>1, <3>3 DEF Unused, line
    <3>5. Serves(t) => Serves(t)'
      BY <2>1, <2>2, <3>1, <3>3, ServesSame DEF line
    <3> QED BY <3>2, <3>4, <3>5 DEF t
  <2> QED BY <1>0, <1>s, <2>1, <2>2, <2>3, <2>4 DEF Served
<1>4. CASE Finish
  <2>1. /\ togo = {} /\ finished' = TRUE /\ master'[h] = 0
        /\ UNCHANGED <<call, cnt, togo, got, rq>>
    BY <1>0, <1>4 DEF Finish
  <2>2. Complete(h)' = Complete(h)
    BY <2>1 DEF Complete
  <2> QED BY <1>s, <2>1, <2>2 DEF Served
<1> QED BY <1>1, <1>2, <1>3, <1>4 DEF Main

LEMMA ServedInit == Init => \A h \in Healthy : Served(h)
<1> SUFFICES ASSUME Init, NEW h \in Healthy PROVE Served(h)
  OBVIOUS
<1>1. h \in Hosts /\ togo = {} /\ ~finished /\ master[h] = 0 /\ cnt[h] = 0 /\ got[h] = <<>>
  BY DEF Init, Healthy
<1>2. Complete(h) = <<>>
  BY <1>1 DEF Complete
<1>3. \A g \in 1 .. MaxCall : g # 0 /\ Unused(<<h, g>>)
  BY <1>1 DEF Init, LineInit, Threads, Unused
<1> QED BY <1>1, <1>2, <1>3 DEF Served

LEMMA ServedStep ==
  RunnerInv /\ (\A h \in Healthy : Served(h)) /\ [Next]_vars => (\A h \in Healthy : Served(h))'
<1> SUFFICES ASSUME RunnerInv, \A h \in Healthy : Served(h), [Next]_vars,
                    NEW h \in Healthy
             PROVE  Served(h)'
  BY DEF Healthy, Hosts
<1>1. Types /\ (\A t \in Threads : Talk(t)) /\ Served(h)
  BY TypeParts DEF RunnerInv
<1>2. CASE (\E n \in [Hosts -> 0 .. MaxCmd] : Call(n)) \/ (\E k \in Hosts : Main(k)) \/ Finish
  BY <1>1, <1>2, MainServes
<1>3. ASSUME NEW t \in Threads, Handles(t) \/ Idle(t) \/ Shell(t) \/ Fault(t)
      PROVE  Served(h)'
  BY <1>1, <1>3, ThreadServes
<1>4. CASE UNCHANGED vars
  <2>1. UNCHANGED <<line, main, rq, queue, handler>>
    BY <1>4 DEF vars
  <2>2. Request(h)' = Request(h) /\ Complete(h)' = Complete(h) /\ Awaited(h)' = Awaited(h)
    BY <2>1 DEF Request, Complete, Awaited, main
  <2>3. ASSUME NEW g \in 1 .. MaxCall
        PROVE  /\ Serves(<<h, g>>) => Serves(<<h, g>>)'
               /\ Unused(<<h, g>>) => Unused(<<h, g>>)'
    <3> DEFINE t == <<h, g>>
    <3>1. t \in Threads /\ t[1] = h
      BY DEF Threads, Healthy
    <3> HIDE DEF t
    <3>2. Unused(t) => Unused(t)'
      BY <2>1 DEF Unused, line, handler
    <3>3. Serves(t) => Serves(t)'
      BY <2>1, <2>2, <3>1, ServesSame DEF line, handler
    <3> QED BY <3>2, <3>3 DEF t
  <2> QED BY <1>1, <2>1, <2>2, <2>3 DEF Served, main
<1> QED BY <1>2, <1>3, <1>4 DEF Next

LEMMA ServedHosts == Spec => [](\A h \in Healthy : Served(h))
<1>1. Init => RunnerInv /\ \A h \in Healthy : Served(h)
  BY InvInit, ServedInit
<1> QED BY <1>1, InvStep, ServedStep, PTL DEF Spec

(* A host whose connection does not break and that answers before the timeouts
   has every result of its commands when run_cmds() returns, whatever happens
   to the other hosts, in this call and in those before. *)
THEOREM ResultsContained ==
  Spec => [](togo = {} => \A h \in Healthy : got[h] = [i \in 1 .. cnt[h] |-> Own(call, i)])
<1>1. (\A h \in Healthy : Served(h)) =>
        (togo = {} => \A h \in Healthy : got[h] = [i \in 1 .. cnt[h] |-> Own(call, i)])
  BY DEF Served, Complete
<1> QED BY <1>1, ServedHosts, PTL

(* And it counts as up whenever check_hosts() may look, unless that is while
   the handler, with nothing to do for 30 seconds, pings the host again: the
   flag is down until the answer is there. *)
THEOREM FaultsContained ==
  ASSUME ~IdlePings
  PROVE  Spec => []FaultContained
<1>1. TypeOK /\ (\A h \in Healthy : Served(h)) => FaultContained
  <2> SUFFICES ASSUME TypeOK, \A k \in Healthy : Served(k), togo = {},
                      NEW h \in Healthy
               PROVE  /\ got[h] = [i \in 1 .. cnt[h] |-> Own(call, i)]
                      /\ master[h] # 0 => HostStatus(h)
    BY DEF FaultContained
  <2>1. got[h] = [i \in 1 .. cnt[h] |-> Own(call, i)]
    BY DEF Served, Complete
  <2>2. ASSUME master[h] # 0 PROVE alive[<<h, master[h]>>]
    <3>1. h \in Hosts /\ master[h] \in 1 .. MaxCall
      BY <2>2, ShellAssumption DEF TypeOK, Healthy
    <3>2. Serves(<<h, master[h]>>)
      BY <2>2, <3>1 DEF Served
    <3>3. ~Awaited(<<h, master[h]>>[1])
      BY DEF Awaited
    <3> QED BY <3>2, <3>3 DEF Serves
  <2> QED BY <2>1, <2>2 DEF HostStatus
<1> QED BY <1>1, ServedHosts, TypeCorrect, PTL
=============================================================================
