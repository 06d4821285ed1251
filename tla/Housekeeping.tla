---------------------------- MODULE Housekeeping ----------------------------
(***************************************************************************)
(* What is done with logs, statistics and the scripts' configuration: the  *)
(* archive of the logs of a host, the tasks of "zeekctl cron", and the     *)
(* writing of zeekctl-config.sh.  They share no state, and what they do to *)
(* each other (cron runs expire-crash, archive-log may find an incomplete  *)
(* zeekctl-config.sh) is an action of LogArchive; so one of them is looked *)
(* at in a behaviour, and the others rest.                                 *)
(***************************************************************************)
EXTENDS LogArchive, CronTasks, ConfigScript

VARIABLE part

vars == <<part, aVars, cVars, script>>

Init == ArchiveInit /\ CronInit /\ ScriptInit /\ part \in {"archive", "cron", "script"}

Next ==
  \/ part = "archive" /\ ArchiveNext /\ UNCHANGED <<part, cVars, script>>
  \/ part = "cron" /\ CronNext /\ UNCHANGED <<part, aVars, script>>
  \/ part = "script" /\ ScriptNext /\ UNCHANGED <<part, aVars, cVars>>

(* The scripts and a run of cron come to their end, and the crontab has
   "zeekctl cron".  Of a part that rests no action with fairness is enabled. *)
CronFairness == WF_cVars(CronStep) /\ SF_cVars(part = "cron" /\ BeginRun(TRUE))

Spec == Init /\ [][Next]_vars /\ ArchiveFairness /\ CronFairness
=============================================================================
