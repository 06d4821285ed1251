------------------------ MODULE Housekeeping_proofs ------------------------
(***************************************************************************)
(* Proofs about the parts of Housekeeping that are not LogArchive: the     *)
(* tasks of cron, for any hosts, changes, failures and kills, and          *)
(* zeekctl-config.sh, for any number of processes that write it.           *)
(***************************************************************************)
EXTENDS CronTasks, ConfigScript, SequenceTheorems, TLAPS


(* Some message of this run is about the topic and the host. *)
Buffered(t, h) == \E m \in buffer : m[1] = t /\ m[2] = h

(* The task that looks at the topic has still to come to the host. *)
Ahead(t, h) ==
  \/ t = "down" /\ at = "hosts" /\ h \in todo
  \/ t = "quiet" /\ (at \in {"hosts", "stats"} \/ (at = "packets" /\ h \in todo))
  \/ t = "full" /\ (at \in {"hosts", "stats", "packets"} \/ (at = "disk" /\ h \in todo))

(* Each change is in a message that was mailed or is buffered; only a run that
   is lost takes messages with it. *)
Balance(t, h) ==
  /\ mails[t][h] + (IF Buffered(t, h) THEN 1 ELSE 0) <= changes[t][h]
  /\ "run" \notin lost => mails[t][h] + (IF Buffered(t, h) THEN 1 ELSE 0) = changes[t][h]
  /\ Ahead(t, h) => ~Buffered(t, h)

MailInv ==
  /\ \A t \in Topics, h \in RemoteHosts : Balance(t, h)
  /\ at = "idle" => buffer = {}

Counted(n) == [r \in 1 .. n |-> r]

(* Each record is in one of the files; in both only until it is removed. *)
LogInv ==
  /\ \A r \in 1 .. records : r \in ToSet(spool) \cup ToSet(stats)
  /\ at = "unlink" => ToSet(spool) \subseteq ToSet(stats)
  /\ lost = {} => IF at = "unlink" THEN stats = Counted(records) ELSE stats \o spool = Counted(records)

-----------------------------------------------------------------------------
(* Types.                                                                  *)

LEMMA RecordTypes ==
  ASSUME CronTypeOK, NEW t \in Topics, NEW h \in RemoteHosts, NEW v \in BOOLEAN, NEW news,
         Record(t, h, v, news), Counts(t, h, v)
  PROVE  CronTypeOK'
<1> USE DEF CronTypeOK, Record, Counts, logs, bounds, Numbers
<1>1. seen' \in [Topics -> [RemoteHosts -> BOOLEAN \cup {Unknown}]]
  OBVIOUS
<1>2. changes' \in [Topics -> [RemoteHosts -> Nat]]
  OBVIOUS
<1>3. buffer' \subseteq Messages
  BY DEF Messages
<1> QED BY <1>1, <1>2, <1>3

LEMMA PrefixType ==
  ASSUME NEW S, NEW s \in Seq(S), NEW n \in 0 .. Len(s)
  PROVE  SubSeq(s, 1, n) \in Seq(S)
<1>1. Len(s) \in Nat /\ \A i \in 1 .. Len(s) : s[i] \in S
  OBVIOUS
<1>2. \A i \in 1 .. n : s[i] \in S
  BY <1>1
<1>3. n \in Int /\ 1 \in Int
  BY <1>1
<1> QED BY ONLY <1>2, <1>3, SubSeqProperties

LEMMA ConcatTypes ==
  ASSUME CronTypeOK
  PROVE  /\ stats \o spool \in Seq(1 .. MaxRecords)
         /\ \A n \in 0 .. Len(spool) : stats \o SubSeq(spool, 1, n) \in Seq(1 .. MaxRecords)
<1>1. spool \in Seq(1 .. MaxRecords) /\ stats \in Seq(1 .. MaxRecords) /\ Len(spool) \in Nat
  BY DEF CronTypeOK
<1>2. ASSUME NEW n \in 0 .. Len(spool) PROVE stats \o SubSeq(spool, 1, n) \in Seq(1 .. MaxRecords)
  <2>1. SubSeq(spool, 1, n) \in Seq(1 .. MaxRecords)
    BY <1>1, PrefixType
  <2> QED BY <1>1, <2>1, ConcatProperties
<1>3. stats \o spool \in Seq(1 .. MaxRecords)
  BY <1>1, ConcatProperties
<1> QED BY <1>2, <1>3

LEMMA TypeStep == CronTypeOK /\ [CronNext]_cVars => CronTypeOK'
<1> SUFFICES ASSUME CronTypeOK, [CronNext]_cVars PROVE CronTypeOK'
  OBVIOUS
<1> USE DEF Enter, logs, bounds
<1>0. \A t \in Topics, h \in RemoteHosts : world[t][h] \in BOOLEAN
  BY DEF CronTypeOK
<1>1. ASSUME NEW h \in RemoteHosts, CheckHosts(h) \/ CheckPackets(h) \/ CheckDiskSpace(h) PROVE CronTypeOK'
  BY <1>0, <1>1, RecordTypes DEF CheckHosts, CheckPackets, CheckDiskSpace, Topics
<1>2. ASSUME NEW h \in RemoteHosts, Skip(h) PROVE CronTypeOK'
  BY <1>2 DEF Skip, CronTypeOK
<1>3. ASSUME NEW task, NEW next \in {"stats", "disk", "append"}, NextTask(task, next) PROVE CronTypeOK'
  BY <1>3 DEF NextTask, CronTypeOK
<1>4. CASE LogStats
  <2>1. spool' \in Seq(1 .. MaxRecords) /\ records' \in 0 .. MaxRecords
    <3>1. CASE UNCHANGED <<records, spool>>
      BY <3>1 DEF CronTypeOK
    <3>2. CASE records # MaxRecords /\ records' = records + 1 /\ spool' = Append(spool, records + 1)
      <4>1. spool \in Seq(1 .. MaxRecords) /\ records + 1 \in 1 .. MaxRecords
        BY <3>2, CronAssumption DEF CronTypeOK
      <4> QED BY <4>1, <3>2, AppendProperties
    <3> QED BY <1>4, <3>1, <3>2 DEF LogStats
  <2> QED BY <1>4, <2>1, CronAssumption, SMTT(20) DEF LogStats, CronFault, CronTypeOK
<1>5. CASE AppendStats
  <2>1. stats' \in Seq(1 .. MaxRecords)
    <3>1. CASE stats' = stats \o spool
      BY <3>1, ConcatTypes
    <3>2. CASE UNCHANGED stats
      BY <3>2 DEF CronTypeOK
    <3>3. CASE \E n \in 0 .. Len(spool) : stats' = stats \o SubSeq(spool, 1, n)
      BY <3>3, ConcatTypes
    <3> QED BY <1>5, <3>1, <3>2, <3>3 DEF AppendStats
  <2>2. at' \in {"unlink", "mail"} /\ todo' = {}
    BY <1>5 DEF AppendStats
  <2>3. cfaults' \in 0 .. CronFaults
    BY <1>5, CronAssumption DEF AppendStats, CronFault, CronTypeOK
  <2>4. lost' \subseteq {"run", "copy"}
    BY <1>5 DEF AppendStats, CronTypeOK
  <2>5. UNCHANGED <<world, seen, told, buffer, changes, mails, wchanges, records, spool>>
    BY <1>5 DEF AppendStats, CronFault
  <2> QED BY <2>1, <2>2, <2>3, <2>4, <2>5 DEF CronTypeOK
<1>6. CASE UnlinkStats
  BY <1>6 DEF UnlinkStats, CronTypeOK
<1>7. CASE Mail
  <2>1. /\ told' = [t \in Topics |-> [h \in RemoteHosts |->
               IF \E m \in buffer : m[1] = t /\ m[2] = h
               THEN \E m \in buffer : m[1] = t /\ m[2] = h /\ m[3] ELSE told[t][h]]]
        /\ \A m \in buffer : m[3] \in BOOLEAN
    BY <1>7 DEF Mail, CronTypeOK, Messages
  <2>2. told' \in [Topics -> [RemoteHosts -> BOOLEAN \cup {Unknown}]]
    <3>1. ASSUME NEW t \in Topics, NEW h \in RemoteHosts
          PROVE  (IF \E m \in buffer : m[1] = t /\ m[2] = h
                  THEN \E m \in buffer : m[1] = t /\ m[2] = h /\ m[3] ELSE told[t][h]) \in BOOLEAN \cup {Unknown}
      <4>1. told[t][h] \in BOOLEAN \cup {Unknown}
        BY DEF CronTypeOK
      <4>2. (\E m \in buffer : m[1] = t /\ m[2] = h /\ m[3]) \in BOOLEAN
        OBVIOUS
      <4> QED BY <4>1, <4>2
    <3> QED BY <2>1, <3>1
  <2>3. mails' \in Numbers
    BY <1>7 DEF Mail, CronTypeOK, Numbers
  <2> QED BY <1>7, <2>2, <2>3 DEF Mail, CronTypeOK
<1>8. CASE Abort
  BY <1>8, CronAssumption DEF Abort, CronFault, CronTypeOK
<1>9. ASSUME NEW watch \in BOOLEAN, BeginRun(watch) PROVE CronTypeOK'
  BY <1>9 DEF BeginRun, CronTypeOK
<1>10. ASSUME NEW t \in Topics, NEW h \in RemoteHosts, Change(t, h) PROVE CronTypeOK'
  <2>1. world' \in [Topics -> [RemoteHosts -> BOOLEAN]]
    BY <1>10 DEF Change, CronTypeOK
  <2> QED BY <1>10, <2>1, CronAssumption DEF Change, CronTypeOK
<1>11. CASE UNCHANGED cVars
  BY <1>11 DEF cVars, CronTypeOK
<1> QED BY <1>1, <1>2, <1>3, <1>4, <1>5, <1>6, <1>7, <1>8, <1>9, <1>10, <1>11 DEF CronNext, CronStep

(* The variables keep their types for any hosts and bounds. *)
THEOREM TypeCorrect == CronSpec => []CronTypeOK
<1>1. CronInit => CronTypeOK
  BY CronAssumption DEF CronInit, CronTypeOK, Each, Numbers
<1> QED BY <1>1, TypeStep, PTL DEF CronSpec

-----------------------------------------------------------------------------
(* Messages.                                                               *)

(* A task that looks at a host buffers a message exactly if it counts a change. *)
LEMMA LookKeepsBalance ==
  ASSUME CronTypeOK, MailInv, NEW t \in Topics, NEW h \in RemoteHosts, NEW v \in BOOLEAN,
         NEW news \in BOOLEAN, at # "idle", Ahead(t, h), Record(t, h, v, news), Counts(t, h, v),
         \A u \in Topics, k \in RemoteHosts : Ahead(u, k)' => Ahead(u, k) /\ <<u, k>> # <<t, h>>,
         news <=> (v # seen[t][h] /\ (seen[t][h] # Unknown \/ (t # "down" /\ v)) /\ (t = "full" => v))
  PROVE  MailInv'
<1>1. mails' = mails /\ lost' = lost /\ at' = at
  BY DEF Record
<1>2. ASSUME NEW u \in Topics, NEW k \in RemoteHosts, <<u, k>> # <<t, h>> PROVE Balance(u, k)'
  <2>1. Buffered(u, k)' <=> Buffered(u, k)
    BY <1>2 DEF Record, Buffered
  <2>2. changes'[u][k] = changes[u][k]
    BY <1>2 DEF Counts, CronTypeOK, Numbers
  <2>3. Ahead(u, k)' => Ahead(u, k)
    OBVIOUS
  <2> QED BY <1>1, <2>1, <2>2, <2>3 DEF MailInv, Balance
<1>3. Balance(t, h)'
  <2>1. ~Buffered(t, h) /\ mails[t][h] <= changes[t][h] /\ ("run" \notin lost => mails[t][h] = changes[t][h])
    BY DEF MailInv, Balance, CronTypeOK, Numbers
  <2>2. Buffered(t, h)' <=> news
    <3>1. <<t, h, v>>[1] = t /\ <<t, h, v>>[2] = h
      OBVIOUS
    <3>2. CASE news
      <4>1. <<t, h, v>> \in buffer'
        BY <3>2 DEF Record
      <4> QED BY <3>1, <3>2, <4>1 DEF Buffered
    <3>3. CASE ~news
      <4>1. buffer' = buffer
        BY <3>3 DEF Record
      <4> QED BY <2>1, <3>3, <4>1 DEF Buffered
    <3> QED BY <3>2, <3>3
  <2>3. changes'[t][h] = IF news THEN changes[t][h] + 1 ELSE changes[t][h]
    BY DEF Counts, CronTypeOK, Numbers
  <2>4. mails[t][h] \in Nat /\ changes[t][h] \in Nat
    BY DEF CronTypeOK, Numbers
  <2> QED BY <1>1, <2>1, <2>2, <2>3, <2>4 DEF Balance
<1>4. \A u \in Topics, k \in RemoteHosts : Balance(u, k)'
  BY <1>2, <1>3
<1> QED BY <1>1, <1>4 DEF MailInv

(* A step that mails nothing and loses no run keeps the balance, unless a task is started again. *)
LEMMA QuietKeepsBalance ==
  ASSUME MailInv, UNCHANGED <<buffer, changes, mails>>, "run" \in lost <=> "run" \in lost',
         at' = "idle" => at = "idle",
         \A t \in Topics, h \in RemoteHosts : Ahead(t, h)' => Ahead(t, h)
  PROVE  MailInv'
<1>1. ASSUME NEW t \in Topics, NEW h \in RemoteHosts PROVE Balance(t, h)'
  <2>1. Buffered(t, h)' <=> Buffered(t, h)
    BY DEF Buffered
  <2>2. Balance(t, h)
    BY DEF MailInv
  <2> QED BY <2>1, <2>2 DEF Balance
<1> QED BY <1>1 DEF MailInv

LEMMA MailStep == CronTypeOK /\ MailInv /\ [CronNext]_cVars => MailInv'
<1> SUFFICES ASSUME CronTypeOK, MailInv, [CronNext]_cVars PROVE MailInv'
  OBVIOUS
<1> USE DEF Enter
<1>0. \A t \in Topics, h \in RemoteHosts : world[t][h] \in BOOLEAN /\ seen[t][h] \in BOOLEAN \cup {Unknown}
  BY DEF CronTypeOK
<1>1. ASSUME NEW h \in RemoteHosts, CheckHosts(h) PROVE MailInv'
  <2>1. "down" \in Topics /\ world["down"][h] \in BOOLEAN
    BY <1>0 DEF Topics
  <2>2. /\ at = "hosts" /\ h \in todo /\ Counts("down", h, world["down"][h])
        /\ Record("down", h, world["down"][h], seen["down"][h] \notin {Unknown, world["down"][h]})
    BY <1>1 DEF CheckHosts
  <2>3. at # "idle" /\ Ahead("down", h)
    BY <2>2 DEF Ahead
  <2>4. \A u \in Topics, k \in RemoteHosts : Ahead(u, k)' => Ahead(u, k) /\ <<u, k>> # <<"down", h>>
    BY <2>2 DEF Ahead, Record
  <2>5. (seen["down"][h] \notin {Unknown, world["down"][h]}) <=>
          (/\ world["down"][h] # seen["down"][h]
           /\ (seen["down"][h] # Unknown \/ ("down" # "down" /\ world["down"][h]))
           /\ ("down" = "full" => world["down"][h]))
    BY <1>0
  <2> QED BY <2>1, <2>2, <2>3, <2>4, <2>5, LookKeepsBalance
<1>2. ASSUME NEW h \in RemoteHosts, CheckPackets(h) PROVE MailInv'
  <2> DEFINE v == world["quiet"][h]
             old == seen["quiet"][h]
  <2>1. "quiet" \in Topics /\ v \in BOOLEAN /\ old \in BOOLEAN \cup {Unknown}
    BY <1>0 DEF Topics
  <2>2. /\ at = "packets" /\ h \in todo /\ Counts("quiet", h, v)
        /\ Record("quiet", h, v, v # old /\ (v \/ old = TRUE))
    BY <1>2 DEF CheckPackets
  <2>3. at # "idle" /\ Ahead("quiet", h)
    BY <2>2 DEF Ahead
  <2>4. \A u \in Topics, k \in RemoteHosts : Ahead(u, k)' => Ahead(u, k) /\ <<u, k>> # <<"quiet", h>>
    BY <2>2 DEF Ahead, Record
  <2>5. (v # old /\ (v \/ old = TRUE)) <=>
          (v # old /\ (old # Unknown \/ ("quiet" # "down" /\ v)) /\ ("quiet" = "full" => v))
    BY <2>1, CronAssumption
  <2>6. (v # old /\ (v \/ old = TRUE)) \in BOOLEAN
    OBVIOUS
  <2> HIDE DEF v, old
  <2> QED BY <2>1, <2>2, <2>3, <2>4, <2>5, <2>6, LookKeepsBalance DEF old
<1>3. ASSUME NEW h \in RemoteHosts, CheckDiskSpace(h) PROVE MailInv'
  <2> DEFINE v == world["full"][h]
             old == seen["full"][h]
  <2>1. "full" \in Topics /\ v \in BOOLEAN /\ old \in BOOLEAN \cup {Unknown}
    BY <1>0 DEF Topics
  <2>2. /\ at = "disk" /\ h \in todo /\ Counts("full", h, v)
        /\ Record("full", h, v, v /\ old # TRUE)
    BY <1>3 DEF CheckDiskSpace
  <2>3. at # "idle" /\ Ahead("full", h)
    BY <2>2 DEF Ahead
  <2>4. \A u \in Topics, k \in RemoteHosts : Ahead(u, k)' => Ahead(u, k) /\ <<u, k>> # <<"full", h>>
    BY <2>2 DEF Ahead, Record
  <2>5. (v /\ old # TRUE) <=>
          (v # old /\ (old # Unknown \/ ("full" # "down" /\ v)) /\ ("full" = "full" => v))
    BY <2>1, CronAssumption
  <2>6. (v /\ old # TRUE) \in BOOLEAN
    BY <2>1
  <2> HIDE DEF v, old
  <2> QED BY <2>1, <2>2, <2>3, <2>4, <2>5, <2>6, LookKeepsBalance DEF old
<1>4. ASSUME NEW h \in RemoteHosts, Skip(h) PROVE MailInv'
  BY <1>4, QuietKeepsBalance DEF Skip, Ahead
<1>5. CASE NextTask("hosts", "stats") \/ NextTask("packets", "disk") \/ NextTask("disk", "append")
  <2>1. UNCHANGED <<buffer, changes, mails, lost>> /\ at' # "idle"
    BY <1>5 DEF NextTask
  <2>2. \A t \in Topics, h \in RemoteHosts : Ahead(t, h)' => Ahead(t, h)
    BY <1>5 DEF NextTask, Ahead
  <2> QED BY <2>1, <2>2, QuietKeepsBalance
<1>6. CASE LogStats
  <2>1. UNCHANGED <<buffer, changes, mails, lost>> /\ at' # "idle"
    BY <1>6 DEF LogStats
  <2>2. \A t \in Topics, h \in RemoteHosts : Ahead(t, h)' => Ahead(t, h)
    BY <1>6 DEF LogStats, Ahead
  <2> QED BY <2>1, <2>2, QuietKeepsBalance
<1>7. CASE AppendStats \/ UnlinkStats
  <2>1. UNCHANGED <<buffer, changes, mails>> /\ at' \in {"unlink", "mail"}
    BY <1>7 DEF AppendStats, UnlinkStats
  <2>2. "run" \in lost <=> "run" \in lost'
    BY <1>7 DEF AppendStats, UnlinkStats
  <2>3. \A t \in Topics, h \in RemoteHosts : ~Ahead(t, h)'
    BY <2>1 DEF Ahead
  <2> QED BY <2>1, <2>2, <2>3, QuietKeepsBalance
<1>8. CASE Mail
  <2>1. buffer' = {} /\ changes' = changes /\ lost' = lost
    BY <1>8 DEF Mail
  <2>2. ASSUME NEW t \in Topics, NEW h \in RemoteHosts PROVE Balance(t, h)'
    <3>1. mails'[t][h] = mails[t][h] + IF Buffered(t, h) THEN 1 ELSE 0
      BY <1>8 DEF Mail, Buffered
    <3>2. ~Buffered(t, h)'
      BY <2>1 DEF Buffered
    <3>3. mails[t][h] \in Nat /\ changes[t][h] \in Nat /\ Balance(t, h)
      BY DEF CronTypeOK, Numbers, MailInv
    <3> QED BY <2>1, <3>1, <3>2, <3>3 DEF Balance
  <2> QED BY <2>1, <2>2 DEF MailInv
<1>9. ASSUME buffer' = {}, UNCHANGED <<changes, mails>>, "run" \in lost' \/ (lost' = lost /\ at = "idle")
      PROVE  MailInv'
  <2>1. ASSUME NEW t \in Topics, NEW h \in RemoteHosts PROVE Balance(t, h)'
    <3>1. ~Buffered(t, h)'
      BY <1>9 DEF Buffered
    <3>2. mails[t][h] \in Nat /\ changes[t][h] \in Nat /\ Balance(t, h)
      BY DEF CronTypeOK, Numbers, MailInv
    <3>3. at = "idle" => ~Buffered(t, h)
      BY DEF MailInv, Buffered
    <3> QED BY <1>9, <3>1, <3>2, <3>3 DEF Balance
  <2> QED BY <1>9, <2>1 DEF MailInv
<1>10. CASE Abort
  BY <1>9, <1>10 DEF Abort
<1>11. ASSUME NEW watch \in BOOLEAN, BeginRun(watch) PROVE MailInv'
  BY <1>9, <1>11 DEF BeginRun
<1>12. ASSUME NEW t \in Topics, NEW h \in RemoteHosts, Change(t, h) PROVE MailInv'
  BY <1>12, QuietKeepsBalance DEF Change, Ahead
<1>13. CASE UNCHANGED cVars
  BY <1>13, QuietKeepsBalance DEF cVars, Ahead
<1> QED BY <1>1, <1>2, <1>3, <1>4, <1>5, <1>6, <1>7, <1>8, <1>10, <1>11, <1>12, <1>13 DEF CronNext, CronStep

(* No change is mailed twice, and every change that a run has come upon is
   mailed when it is over, unless a run was killed or gave up: for any number of
   hosts, of changes and of runs (cron.py's check_hosts, log_stats and
   check_disk_space, and Controller.cron's mail). *)
THEOREM ReportedOnceHolds == CronSpec => []ReportedOnce
<1>1. CronInit => CronTypeOK /\ MailInv
  <2>1. CronInit => CronTypeOK
    BY CronAssumption DEF CronInit, CronTypeOK, Each, Numbers
  <2>2. ASSUME CronInit PROVE MailInv
    BY <2>2 DEF CronInit, MailInv, Balance, Buffered, Ahead, Each, Topics
  <2> QED BY <2>1, <2>2
<1>2. CronTypeOK /\ MailInv => ReportedOnce
  <2> SUFFICES ASSUME CronTypeOK, MailInv, NEW t \in Topics, NEW h \in RemoteHosts
      PROVE  /\ mails[t][h] <= changes[t][h]
             /\ at = "idle" /\ "run" \notin lost => mails[t][h] = changes[t][h]
    BY DEF ReportedOnce
  <2>1. mails[t][h] \in Nat /\ changes[t][h] \in Nat /\ Balance(t, h)
    BY DEF CronTypeOK, Numbers, MailInv
  <2>2. at = "idle" => ~Buffered(t, h)
    BY DEF MailInv, Buffered
  <2> QED BY <2>1, <2>2 DEF Balance
<1> QED BY <1>1, <1>2, TypeStep, MailStep, PTL DEF CronSpec
-----------------------------------------------------------------------------
(* Records.                                                                *)

LEMMA ConcatElements ==
  ASSUME NEW S, NEW s \in Seq(S), NEW u \in Seq(S)
  PROVE  ToSet(s) \cup ToSet(u) \subseteq ToSet(s \o u)
<1>1. Len(s) \in Nat /\ Len(u) \in Nat /\ DOMAIN s = 1 .. Len(s) /\ DOMAIN u = 1 .. Len(u)
  OBVIOUS
<1>2. ToSet(s) \subseteq ToSet(s \o u)
  <2>1. \A i \in 1 .. Len(s) : i \in 1 .. Len(s \o u) /\ (s \o u)[i] = s[i]
    BY <1>1, ConcatProperties
  <2>2. DOMAIN (s \o u) = 1 .. Len(s \o u)
    BY ConcatProperties
  <2> QED BY <1>1, <2>1, <2>2 DEF ToSet
<1>3. ToSet(u) \subseteq ToSet(s \o u)
  <2>1. \A i \in 1 .. Len(u) : i + Len(s) \in 1 .. Len(s \o u) /\ (s \o u)[i + Len(s)] = u[i]
    BY <1>1, ConcatProperties
  <2>2. DOMAIN (s \o u) = 1 .. Len(s \o u)
    BY ConcatProperties
  <2> QED BY <1>1, <2>1, <2>2 DEF ToSet
<1> QED BY <1>2, <1>3

LEMMA AppendElements ==
  ASSUME NEW S, NEW s \in Seq(S), NEW e \in S
  PROVE  e \in ToSet(Append(s, e)) /\ ToSet(s) \subseteq ToSet(Append(s, e))
<1>1. Len(s) \in Nat /\ DOMAIN s = 1 .. Len(s)
  OBVIOUS
<1>2. Append(s, e) \in Seq(S) /\ Len(Append(s, e)) = Len(s) + 1 /\ Append(s, e)[Len(s) + 1] = e
      /\ \A i \in 1 .. Len(s) : Append(s, e)[i] = s[i]
  BY AppendProperties
<1>3. DOMAIN Append(s, e) = 1 .. Len(s) + 1
  BY <1>2
<1>4. e \in ToSet(Append(s, e))
  BY <1>1, <1>2, <1>3 DEF ToSet
<1>5. ToSet(s) \subseteq ToSet(Append(s, e))
  BY <1>1, <1>2, <1>3 DEF ToSet
<1> QED BY <1>4, <1>5

(* Appending to the second of two sequences appends to both together. *)
LEMMA AppendToSecond ==
  ASSUME NEW S, NEW s \in Seq(S), NEW u \in Seq(S), NEW e \in S
  PROVE  s \o Append(u, e) = Append(s \o u, e)
<1>1. <<e>> \in Seq(S)
  OBVIOUS
<1>2. Append(u, e) = u \o <<e>> /\ s \o u \in Seq(S)
  BY AppendIsConcat, ConcatProperties
<1>3. Append(s \o u, e) = (s \o u) \o <<e>>
  BY <1>2, AppendIsConcat
<1> QED BY <1>1, <1>2, <1>3, ConcatAssociative

LEMMA CountedNext ==
  ASSUME NEW n \in Nat
  PROVE  /\ Counted(n) \in Seq(Nat) /\ Append(Counted(n), n + 1) = Counted(n + 1)
<1>1. Counted(n) \in Seq(Nat) /\ Len(Counted(n)) = n
  BY DEF Counted
<1>2. Counted(n + 1) \in Seq(Nat) /\ Len(Counted(n + 1)) = n + 1
  BY DEF Counted
<1>3. Append(Counted(n), n + 1) \in Seq(Nat) /\ Len(Append(Counted(n), n + 1)) = n + 1
      /\ \A i \in 1 .. n + 1 : Append(Counted(n), n + 1)[i] = i
  BY <1>1, AppendProperties DEF Counted
<1>4. \A i \in 1 .. n + 1 : Counted(n + 1)[i] = i
  BY DEF Counted
<1>5. Append(Counted(n), n + 1) = Counted(n + 1)
  BY <1>2, <1>3, <1>4, SeqEqual
<1> QED BY <1>1, <1>5

LEMMA LogStep == CronTypeOK /\ LogInv /\ [CronNext]_cVars => LogInv'
<1> SUFFICES ASSUME CronTypeOK, LogInv, [CronNext]_cVars PROVE LogInv'
  OBVIOUS
<1> USE DEF Enter
<1> DEFINE S == 1 .. MaxRecords
<1>0. spool \in Seq(S) /\ stats \in Seq(S) /\ records \in 0 .. MaxRecords /\ records \in Nat
  BY DEF CronTypeOK
<1>1. ASSUME UNCHANGED <<records, spool, stats, lost>>, (at = "unlink") <=> (at = "unlink")' PROVE LogInv'
  BY <1>1 DEF LogInv
<1>2. CASE LogStats
  <2>1. at # "unlink" /\ at' # "unlink" /\ lost' = lost /\ stats' = stats
    BY <1>2 DEF LogStats
  <2>2. CASE UNCHANGED <<records, spool>>
    BY <1>1, <2>1, <2>2
  <2>3. CASE records # MaxRecords /\ records' = records + 1 /\ spool' = Append(spool, records + 1)
    <3>1. records + 1 \in S
      BY <1>0, <2>3, CronAssumption
    <3>2. records + 1 \in ToSet(spool') /\ ToSet(spool) \subseteq ToSet(spool')
      BY <1>0, <2>3, <3>1, AppendElements
    <3>3. \A r \in 1 .. records' : r \in ToSet(spool') \cup ToSet(stats')
      BY <1>0, <2>1, <2>3, <3>2 DEF LogInv
    <3>4. stats \o Append(spool, records + 1) = Append(stats \o spool, records + 1)
      BY <1>0, <3>1, AppendToSecond
    <3>5. lost = {} => stats' \o spool' = Counted(records')
      BY <1>0, <2>1, <2>3, <3>4, CountedNext DEF LogInv
    <3> QED BY <2>1, <3>3, <3>5 DEF LogInv
  <2> QED BY <1>2, <2>2, <2>3 DEF LogStats
<1>3. CASE AppendStats
  <2>1. at = "append" /\ UNCHANGED <<records, spool>>
    BY <1>3 DEF AppendStats
  <2>2. CASE spool # <<>> /\ at' = "unlink" /\ stats' = stats \o spool /\ lost' = lost
    <3>1. ToSet(stats) \subseteq ToSet(stats') /\ ToSet(spool) \subseteq ToSet(stats')
      BY <1>0, <2>2, ConcatElements
    <3> QED BY <2>1, <2>2, <3>1 DEF LogInv
  <2>3. CASE at' = "mail" /\ UNCHANGED <<stats, lost>>
    BY <1>1, <2>1, <2>3
  <2>4. ASSUME at' = "mail", lost' = lost \cup {"copy"}, NEW n \in 0 .. Len(spool),
               stats' = stats \o SubSeq(spool, 1, n)
        PROVE  LogInv'
    <3>1. SubSeq(spool, 1, n) \in Seq(S)
      BY <1>0, PrefixType
    <3>2. ToSet(stats) \subseteq ToSet(stats')
      BY <1>0, <2>4, <3>1, ConcatElements
    <3> QED BY <2>1, <2>4, <3>2 DEF LogInv
  <2> QED BY <1>3, <2>2, <2>3, <2>4 DEF AppendStats
<1>4. CASE UnlinkStats
  <2>1. at = "unlink" /\ at' = "mail" /\ spool' = <<>> /\ UNCHANGED <<records, stats, lost>>
    BY <1>4 DEF UnlinkStats
  <2>2. stats \o <<>> = stats
    BY <1>0, ConcatEmptySeq
  <2>3. lost' = {} => stats' \o spool' = Counted(records')
    BY <2>1, <2>2 DEF LogInv
  <2>4. \A r \in 1 .. records' : r \in ToSet(spool') \cup ToSet(stats')
    BY <2>1 DEF LogInv
  <2> QED BY <2>1, <2>3, <2>4 DEF LogInv
<1>5. CASE Abort
  BY <1>5 DEF Abort, LogInv, logs
<1>6. ASSUME NEW h \in RemoteHosts, CheckHosts(h) \/ CheckPackets(h) \/ CheckDiskSpace(h) \/ Skip(h) PROVE LogInv'
  BY <1>1, <1>6 DEF CheckHosts, CheckPackets, CheckDiskSpace, Skip, Record, logs
<1>7. CASE NextTask("hosts", "stats") \/ NextTask("packets", "disk") \/ NextTask("disk", "append")
  BY <1>1, <1>7 DEF NextTask, logs
<1>8. CASE Mail
  BY <1>1, <1>8 DEF Mail, logs
<1>9. ASSUME NEW watch \in BOOLEAN, BeginRun(watch) PROVE LogInv'
  BY <1>1, <1>9 DEF BeginRun, logs
<1>10. ASSUME NEW t \in Topics, NEW h \in RemoteHosts, Change(t, h) PROVE LogInv'
  BY <1>1, <1>10 DEF Change, logs
<1>11. CASE UNCHANGED cVars
  BY <1>1, <1>11 DEF cVars, logs
<1> QED BY <1>2, <1>3, <1>4, <1>5, <1>6, <1>7, <1>8, <1>9, <1>10, <1>11 DEF CronNext, CronStep

(* No record of stats.log is ever lost, and without a failure each is kept once
   and in order, whichever step update_http_stats() is stopped in (cron.py). *)
THEOREM StatsKeptHolds == CronSpec => []StatsKept
<1>1. CronInit => CronTypeOK /\ LogInv
  <2>1. CronInit => CronTypeOK
    BY CronAssumption DEF CronInit, CronTypeOK, Each, Numbers
  <2>2. <<>> \o <<>> = Counted(0)
    BY ConcatEmptySeq DEF Counted
  <2> QED BY <2>1, <2>2 DEF CronInit, LogInv
<1>2. LogInv => StatsKept
  BY DEF LogInv, StatsKept, Counted
<1> QED BY <1>1, <1>2, TypeStep, LogStep, PTL DEF CronSpec

-----------------------------------------------------------------------------
(* zeekctl-config.sh.                                                      *)


(* A file that is incomplete is being written. *)
InWork(i) == i \in whole \/ \E p \in Starts : fd[p] = i

ScriptInv == ScriptTypeOK /\ InWork(cfg) /\ (tmp # NoFile => InWork(tmp))

LEMMA OpenKeeps ==
  ASSUME ScriptInv, NEW p \in Starts, OpenTmp(p)
  PROVE  ScriptInv'
<1> DEFINE file == IF tmp = NoFile THEN p ELSE tmp
<1>1. /\ fd[p] = "not started" /\ tmp' = file /\ whole' = whole \ {file}
      /\ fd' = [fd EXCEPT ![p] = file] /\ cfg' = cfg
  BY DEF OpenTmp
<1>2. file \in Inodes /\ fd[p] \notin Inodes /\ NoFile \notin Inodes
  BY <1>1, ScriptAssumption DEF ScriptInv, ScriptTypeOK, Inodes, States
<1> HIDE DEF file
<1>3. ScriptTypeOK'
  BY <1>1, <1>2 DEF ScriptInv, ScriptTypeOK
<1>4. fd'[p] = file /\ \A q \in Starts : fd[q] \in Inodes => fd'[q] = fd[q]
  BY <1>1, <1>2 DEF ScriptInv, ScriptTypeOK
<1>5. ASSUME NEW i \in Inodes, InWork(i)
      PROVE  i \in whole' \/ \E q \in Starts : fd'[q] = i
  BY <1>1, <1>4, <1>5 DEF InWork
<1>6. InWork(cfg)'
  BY <1>1, <1>5 DEF InWork, ScriptInv, ScriptTypeOK
<1>7. InWork(tmp)'
  BY <1>1, <1>4 DEF InWork
<1> QED BY <1>3, <1>6, <1>7 DEF ScriptInv

LEMMA WriteKeeps ==
  ASSUME ScriptInv, NEW p \in Starts, WriteTmp(p)
  PROVE  ScriptInv'
<1>1. /\ fd[p] \in Inodes /\ whole' = whole \cup {fd[p]} /\ cfg' = cfg /\ tmp' = tmp
      /\ fd' = [fd EXCEPT ![p] = "has written"]
  BY DEF WriteTmp
<1>2. ScriptTypeOK'
  BY <1>1 DEF ScriptInv, ScriptTypeOK, States
<1>3. ASSUME NEW i, InWork(i)
      PROVE  i \in whole' \/ \E q \in Starts : fd'[q] = i
  BY <1>1, <1>3 DEF InWork, ScriptInv, ScriptTypeOK
<1> QED BY <1>1, <1>2, <1>3 DEF ScriptInv, InWork

LEMMA RenameKeeps ==
  ASSUME ScriptInv, NEW p \in Starts, RenameTmp(p)
  PROVE  ScriptInv'
<1>1. /\ fd[p] = "has written" /\ fd' = [fd EXCEPT ![p] = "done"] /\ whole' = whole
      /\ \/ tmp = NoFile /\ cfg' = cfg /\ tmp' = tmp
         \/ tmp # NoFile /\ cfg' = tmp /\ tmp' = NoFile
  BY DEF RenameTmp
<1>2. ScriptTypeOK' /\ fd[p] \notin Inodes
  BY <1>1, ScriptAssumption DEF ScriptInv, ScriptTypeOK, States
<1>3. ASSUME NEW i \in Inodes, InWork(i)
      PROVE  i \in whole' \/ \E q \in Starts : fd'[q] = i
  BY <1>1, <1>2, <1>3 DEF InWork, ScriptInv, ScriptTypeOK
<1>4. cfg' \in Inodes /\ InWork(cfg)'
  BY <1>1, <1>2, <1>3 DEF ScriptInv, ScriptTypeOK, InWork
<1>5. tmp' = NoFile
  BY <1>1
<1> QED BY <1>2, <1>4, <1>5 DEF ScriptInv

(* An incomplete zeekctl-config.sh, or temporary file, is being written by
   some process that has it open, for any number of zeekctl processes. *)
THEOREM ScriptSafe == ScriptSpec => []ScriptInv
<1>1. ScriptInit => ScriptInv
  BY DEF ScriptInit, ScriptInv, ScriptTypeOK, InWork, Inodes, States
<1>2. ScriptInv /\ [ScriptNext]_script => ScriptInv'
  <2> SUFFICES ASSUME ScriptInv, [ScriptNext]_script PROVE ScriptInv'
    OBVIOUS
  <2>1. ASSUME NEW p \in Starts, make_zeekctl_config_sh(p) PROVE ScriptInv'
    BY <2>1, OpenKeeps, WriteKeeps, RenameKeeps DEF make_zeekctl_config_sh
  <2>2. CASE UNCHANGED script
    BY <2>2 DEF script, ScriptInv, ScriptTypeOK, InWork
  <2> QED BY <2>1, <2>2 DEF ScriptNext
<1> QED BY <1>1, <1>2, PTL DEF ScriptSpec

(* With nobody within make_zeekctl_config_sh() the file is complete, for any
   number of processes that start at the same time. *)
THEOREM ScriptWholeHolds == ScriptSpec => []ScriptWhole
<1>1. ScriptInv => ScriptWhole
  BY ScriptAssumption DEF ScriptInv, ScriptTypeOK, InWork, ScriptWhole, States
<1> QED BY <1>1, ScriptSafe, PTL
=============================================================================
