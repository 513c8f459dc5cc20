----------------------------- MODULE CommandLine -----------------------------
(***************************************************************************)
(* The commands refresh and serve (cli.py) and what the service answers    *)
(* (api/app.py).  Each command is a process with a RuntimeState of its     *)
(* own, on which it runs at most one live round of RefreshPipeline;        *)
(* between two processes only the snapshot file stays, and it is replaced  *)
(* as a whole (SnapshotStore).  Nothing changes the state of a service.    *)
(* earlier is a history variable, which no guard reads.                    *)
(***************************************************************************)
EXTENDS RefreshPipeline

CONSTANT NoFile   \* there is nothing at the path

ASSUME OnlyLiveAssumption == CallsMade \subseteq {Live, LiveNoGtfs}

VARIABLES
  command,   \* what the present process, or the last one, was started for
  stage,     \* where it is: "refreshing", "written", "serving" or "over"
  option,    \* --snapshot: "given" or "not given"
  file,      \* what is at the path
  exit,      \* its exit code, or why there is none
  earlier    \* history: the sources in the file when it was started

process == <<command, stage, option, exit, earlier>>
allvars == <<vars, process, file>>

CommandInit ==
  /\ Init
  /\ command = None /\ stage = "over" /\ option = "not given" /\ exit = None
  /\ file = NoFile /\ earlier = {}

-----------------------------------------------------------------------------
(* What is read from the state *)

Snapshot ==
  [transit         |-> transit_observations,
   traffic         |-> traffic_observations,
   disruptions     |-> disruptions,
   source_status   |-> source_status,
   source_errors   |-> source_errors,
   missing_sources |-> MissingSources,
   warnings        |-> SnapshotWarnings]

(* /api/v1/health and /api/v1/status; of a count remains whose it is. *)
HealthAnswer ==
  [status |-> HealthStatus, missing_sources |-> MissingSources, source_errors |-> source_errors]

StatusAnswer ==
  [status          |-> HealthStatus,
   source_status   |-> source_status,
   source_errors   |-> source_errors,
   missing_sources |-> MissingSources,
   counts          |-> {s \in Sources : Held[s] # NoData}]

-----------------------------------------------------------------------------
(* The commands *)

(* Mutant: the state outlives the process. *)
NewRuntimeState_Kept == UNCHANGED <<data, source_status, source_errors>>

NewRuntimeState ==
  /\ stops' = NoData /\ routes' = NoData /\ trips' = NoData
  /\ transit_observations' = NoData /\ traffic_detectors' = NoData
  /\ traffic_observations' = NoData /\ disruptions' = NoData
  /\ source_status' = [s \in Sources |-> Absent]
  /\ source_errors' = {}

Start(name, c) ==
  /\ stage = "over"
  /\ NewRuntimeState
  /\ call' = c /\ position' = 1 /\ hand' = NoData
  /\ phase' = IF c = None THEN "returned" ELSE "fetch"
  /\ succeeded' = {} /\ failed' = {}
  /\ command' = name /\ stage' = "refreshing" /\ exit' = None
  /\ earlier' = {s \in Sources : file # NoFile /\ file.source_status[s] # Absent}
  /\ UNCHANGED file

Refresh(c, given) == Start("refresh", c) /\ option' = given

(* With --live there is a round before the service, without it there is    *)
(* none.                                                                   *)
Serve(c) == Start("serve", c) /\ option' = "not given"

Round ==
  /\ stage = "refreshing"
  /\ Proceed
  /\ UNCHANGED <<process, file>>

RoundIsOver(name) == stage = "refreshing" /\ command = name /\ Idle

(* The snapshot is written, over the one of an earlier refresh if there is *)
(* one and whatever the round brought.                                     *)
WriteSnapshot ==
  /\ RoundIsOver("refresh") /\ option = "given"
  /\ file' = Snapshot
  /\ stage' = "written"
  /\ UNCHANGED <<vars, command, option, exit, earlier>>

(* The store raises, and an exception that leaves main is exit code 1, too.*)
WriteFails ==
  /\ RoundIsOver("refresh") /\ option = "given"
  /\ exit' = "1" /\ stage' = "over"
  /\ UNCHANGED <<vars, command, option, file, earlier>>

(* What was asked for is done: the exit code is that of the round. *)
RefreshIsDone ==
  \/ RoundIsOver("refresh") /\ option = "not given"
  \/ stage = "written"

(* Mutant: one source that answers makes a round a success. *)
EndRefresh_OneIsEnough ==
  /\ RefreshIsDone
  /\ exit' = IF succeeded = {} THEN "1" ELSE "0"
  /\ stage' = "over"
  /\ UNCHANGED <<vars, command, option, file, earlier>>

EndRefresh ==
  /\ RefreshIsDone
  /\ exit' = IF failed = {} THEN "0" ELSE "1"
  /\ stage' = "over"
  /\ UNCHANGED <<vars, command, option, file, earlier>>

Listen ==
  /\ RoundIsOver("serve")
  /\ stage' = "serving"
  /\ UNCHANGED <<vars, command, option, file, exit, earlier>>

StopServing ==
  /\ stage = "serving"
  /\ stage' = "over" /\ exit' = "0"
  /\ UNCHANGED <<vars, command, option, file, earlier>>

Kill ==
  /\ stage # "over"
  /\ stage' = "over" /\ exit' = "killed"
  /\ UNCHANGED <<vars, command, option, file, earlier>>

CommandNext ==
  \/ \E c \in CallsMade, given \in {"given", "not given"} : Refresh(c, given)
  \/ \E c \in CallsMade \cup {None} : Serve(c)
  \/ Round \/ WriteSnapshot \/ WriteFails \/ EndRefresh \/ Listen \/ StopServing \/ Kill

CommandSpec == CommandInit /\ [][CommandNext]_allvars

-----------------------------------------------------------------------------
(* Properties *)

CommandTypeOK ==
  /\ TypeOK
  /\ command \in {None, "refresh", "serve"}
  /\ stage \in {"refreshing", "written", "serving", "over"}
  /\ option \in {"given", "not given"}
  /\ exit \in {None, "0", "1", "killed"}
  /\ earlier \in SUBSET Sources

(* The round of every refresh goes for these; for the schedule, by option. *)
AlwaysAttempted == {Realtime, DetectorLocations, RoadDisruptions}

(* Exit code 0 of a refresh means that every source it went for answered   *)
(* with data, and that the file, if one was asked for, is the snapshot of  *)
(* that and names no error; no failed write and no earlier run's file.     *)
ExitZeroIsWhole ==
  stage = "over" /\ command = "refresh" /\ exit = "0" =>
    /\ \A s \in Attempts(call) : Held[s] # NoData
    /\ option = "given" => file = Snapshot /\ file.source_errors = {}

(* Any file, whatever runs, kills and failed writes came before, is of one *)
(* round: of each source gone for it has either a status, from this round, *)
(* or an error, and never data of an earlier run next to an error.         *)
FreshOrFailing ==
  file # NoFile =>
    /\ \A s \in AlwaysAttempted : file.source_status[s] = Absent <=> s \in file.source_errors
    /\ Static \in file.source_errors => file.source_status[Static] = Absent
    /\ file.transit = NoData <=> Realtime \in file.source_errors
    /\ file.disruptions = NoData <=> RoadDisruptions \in file.source_errors

(* What the file had when the command was started, and has no more. *)
Lost == {s \in earlier : file # NoFile /\ file.source_status[s] = Absent}

(* A refresh may write less than the file had, even nothing, over it.  It  *)
(* does not do so unseen: from the moment the file is there, what it has   *)
(* lost is named in it, and when the process ends the exit code is 1,      *)
(* unless the schedule was left out by option.  One killed between the two *)
(* has no exit code: the file alone tells, then.                           *)
LossIsReported ==
  \A s \in Lost :
    /\ s \in file.missing_sources \cup file.source_errors
    /\ stage = "over" => \/ exit \in {"1", "killed"}
                         \/ s = Static /\ call = LiveNoGtfs

(* No command loads the archive, which is a required source: no service of *)
(* the command line ever answers "ok" or counts traffic observations, and  *)
(* every file reports the archive missing.                                 *)
NeverComplete ==
  /\ HealthAnswer.status = "degraded" /\ TrafficArchive \in HealthAnswer.missing_sources
  /\ StatusAnswer.status = "degraded" /\ TrafficArchive \notin StatusAnswer.counts
  /\ file # NoFile => TrafficArchive \in file.missing_sources /\ file.traffic = NoData

=============================================================================
