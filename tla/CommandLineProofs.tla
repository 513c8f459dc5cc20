-------------------------- MODULE CommandLineProofs --------------------------
(***************************************************************************)
(* Theorems about CommandLine.  A round is one of RefreshPipeline, so its  *)
(* invariant Inv is kept by every step of a command; what is added is that *)
(* a state which begins empty holds the report of its one round and no     *)
(* more, and what the file was when it was written.                        *)
(***************************************************************************)
EXTENDS CommandLine, RefreshPipelineProofs

(* The state of a process is what its round has done so far. *)
RoundInv ==
  /\ source_errors = failed
  /\ \A s \in Sources : source_status[s] # Absent <=> s \in succeeded
  /\ source_status[TrafficArchive] = Absent

(* Where a process can be. *)
ProcessInv ==
  /\ CommandTypeOK
  /\ command = "refresh" => call # None /\ stage # "serving"
  /\ stage = "serving" => Idle
  /\ stage = "written" =>
       command = "refresh" /\ option = "given" /\ Idle /\ file = Snapshot
  /\ call = None => succeeded = {}
  /\ stage = "over" /\ command = "refresh" /\ exit = "0" =>
       /\ Idle /\ failed = {}
       /\ option = "given" => file = Snapshot

(* A round that is over has gone for all its sources. *)
LEMMA RoundOver ==
  ASSUME Inv, RoundInv, Idle, call # None
  PROVE  /\ call \in {Live, LiveNoGtfs}
         /\ succeeded \cup failed = Attempts(call)
         /\ succeeded \cap failed = {}
  <1>1. call \in {Live, LiveNoGtfs}
    BY OnlyLiveAssumption DEF Inv, TypeInv, TypeOK
  <1>2. Catches(call)
    BY <1>1 DEF Catches
  <1>3. phase = "returned" /\ position = Len(Operations[call]) + 1
    BY <1>2 DEF Inv, TypeInv, ControlInv, Idle
  <1>4. call \in Calls
    BY CallsAssumption DEF Inv, TypeInv, TypeOK
  <1>5. Operations[call] \in Seq(Sources) /\ Len(Operations[call]) \in Nat
    BY <1>4, OperationsFacts
  <1>6. Completed = Attempts(call)
    BY <1>3, <1>5 DEF Completed, Attempts
  <1> QED BY <1>1, <1>2, <1>6 DEF Inv, ReportInv

(* The sources of a round. *)
LEMMA AttemptsOfARound ==
  /\ Attempts(Live) = {Static, Realtime, DetectorLocations, RoadDisruptions}
  /\ Attempts(LiveNoGtfs) = {Realtime, DetectorLocations, RoadDisruptions}
  <1>1. 1..4 = {1, 2, 3, 4} /\ 1..3 = {1, 2, 3}
    OBVIOUS
  <1>2. DOMAIN Operations[Live] = 1..4 /\ DOMAIN Operations[LiveNoGtfs] = 1..3
    BY OperationsTable
  <1> QED BY <1>1, <1>2, OperationsTable DEF Attempts

LEMMA SourcesDiffer ==
  /\ Static # Realtime /\ Static # DetectorLocations /\ Static # RoadDisruptions
  /\ TrafficArchive \notin {Static, Realtime, DetectorLocations, RoadDisruptions}
  /\ Sources = {Static, Realtime, DetectorLocations, TrafficArchive, RoadDisruptions}
  BY DEF Sources, Static, Realtime, DetectorLocations, TrafficArchive, RoadDisruptions

-----------------------------------------------------------------------------
(* The steps of a round *)

LEMMA RoundStep ==
  ASSUME Inv, RoundInv, Proceed
  PROVE  Inv' /\ RoundInv'
  <1>1. [Next]_vars
    BY DEF Next
  <1>2. Inv'
    BY <1>1, TypeInvNext, DataInvNext, ReportInvNext DEF Inv
  <1>3. ~Idle
    BY DEF Proceed, Fails, FetchAnswers, FetchNotModified, FetchRaises, ContentMissing,
           ParseRaises, Stores, StoreStatic, StoreRealtime, StoreDetectorLocations,
           StoreDisruptions, StoreArchive, Loaded, Idle
  <1>4. TypeInv /\ call # None /\ call \in {Live, LiveNoGtfs}
    BY <1>3, OnlyLiveAssumption DEF Inv, TypeInv, TypeOK, ControlInv
  <1>5. Catches(call) /\ LoadArchive \notin CallsMade
    BY <1>4, OnlyLiveAssumption DEF Catches, Live, LiveNoGtfs, LoadArchive
  <1>6. CASE Stores
    <2>1. PICK s \in Sources, status \in FreshnessStatus : Loaded(s, status)
      BY <1>4, <1>6, StoreStep
    <2>2. /\ s = Current /\ NextOperation /\ UNCHANGED <<call, failed>>
          /\ source_errors' = source_errors \ {s}
          /\ source_status' = [source_status EXCEPT ![s] = status] /\ status # Absent
          /\ succeeded' = succeeded \cup {s}
      BY <1>5, <2>1 DEF Loaded, MarkLoaded, ClearSourceError, FreshnessStatus, Absent
    <2>3. s \notin failed
      BY <1>3, <1>4, <1>5, <2>2, CompletedGrows DEF Inv, ReportInv
    <2>4. source_status'[TrafficArchive] = Absent
      BY <1>4, <1>5, <1>6, OnlyTheArchiveCall DEF RoundInv
    <2> QED BY <1>2, <1>4, <2>2, <2>3, <2>4 DEF RoundInv, TypeInv, TypeOK
  <1>7. CASE Fails
    <2>1. UNCHANGED <<source_status, succeeded>>
          /\ source_errors' = source_errors \cup {Current} /\ failed' = failed \cup {Current}
      BY <1>5, <1>7 DEF Fails, FetchRaises, ContentMissing, ParseRaises, ExceptionLeaves,
           RecordSourceError
    <2> QED BY <1>2, <2>1 DEF RoundInv
  <1>8. CASE FetchAnswers \/ FetchNotModified
    BY <1>2, <1>8 DEF FetchAnswers, FetchNotModified, RoundInv
  <1> QED BY <1>6, <1>7, <1>8 DEF Proceed

(* A process begins with an empty state. *)
LEMMA StartStep ==
  ASSUME NEW name, NEW c \in CallsMade \cup {None}, Start(name, c)
  PROVE  Inv' /\ RoundInv'
  <1>1. c # None => c \in Calls /\ Len(Operations[c]) \in Nat \ {0} /\ c \in {Live, LiveNoGtfs}
    BY OperationsFacts, CallsAssumption, OnlyLiveAssumption
  <1>2. TypeInv'
    BY <1>1 DEF Start, NewRuntimeState, TypeInv, TypeOK, ControlInv, Idle, Datasets, Catches
  <1>3. DataInv'
    BY DEF Start, NewRuntimeState, DataInv, OneSchedule, StatusMatchesData,
           RoadStatusUnknown, Held, Sources
  <1>4. position' = 1
    BY DEF Start
  <1>5. Completed' = {}
    BY <1>4 DEF Completed
  <1>6. ReportInv'
    BY <1>5 DEF Start, NewRuntimeState, ReportInv
  <1>7. RoundInv'
    BY DEF Start, NewRuntimeState, RoundInv, Sources
  <1> QED BY <1>2, <1>3, <1>6, <1>7 DEF Inv

(* Every other step leaves the state as it is. *)
LEMMA StateUnchanged ==
  ASSUME Inv, RoundInv, UNCHANGED vars
  PROVE  Inv' /\ RoundInv' /\ Snapshot' = Snapshot /\ (Idle' <=> Idle)
  <1>1. Inv'
    BY TypeInvNext, DataInvNext, ReportInvNext DEF Inv
  <1>2. RoundInv' /\ (Idle' <=> Idle)
    BY DEF vars, control, RoundInv, Idle
  <1>3. Snapshot' = Snapshot
    BY DEF vars, control, data, schedule, Snapshot, MissingSources, SnapshotWarnings
  <1> QED BY <1>1, <1>2, <1>3

LEMMA StateInvNext ==
  Inv /\ RoundInv /\ [CommandNext]_allvars => Inv' /\ RoundInv'
  <1> SUFFICES ASSUME Inv, RoundInv, [CommandNext]_allvars
               PROVE  Inv' /\ RoundInv'
    OBVIOUS
  <1>1. CASE UNCHANGED vars
    BY <1>1, StateUnchanged
  <1>2. CASE Round
    BY <1>2, RoundStep DEF Round
  <1>3. ASSUME NEW c \in CallsMade, NEW given, Refresh(c, given)
        PROVE  Inv' /\ RoundInv'
    BY <1>3, StartStep DEF Refresh
  <1>4. ASSUME NEW c \in CallsMade \cup {None}, Serve(c)
        PROVE  Inv' /\ RoundInv'
    BY <1>4, StartStep DEF Serve
  <1> QED BY <1>1, <1>2, <1>3, <1>4
          DEF CommandNext, WriteSnapshot, WriteFails, EndRefresh, Listen, StopServing, Kill,
              allvars

LEMMA CommandInvInit ==
  CommandInit => Inv /\ RoundInv /\ ProcessInv /\ FreshOrFailing
  <1> SUFFICES ASSUME CommandInit
               PROVE  Inv /\ RoundInv /\ ProcessInv /\ FreshOrFailing
    OBVIOUS
  <1>1. Inv
    BY TypeInvInit, DataInvInit DEF Inv, Init, ReportInv, CommandInit
  <1>2. RoundInv
    BY DEF CommandInit, Init, RoundInv, Sources
  <1>3. ProcessInv
    BY <1>1 DEF CommandInit, Init, ProcessInv, CommandTypeOK, None, Inv, TypeInv
  <1>4. FreshOrFailing
    BY DEF CommandInit, FreshOrFailing
  <1> QED BY <1>1, <1>2, <1>3, <1>4

LEMMA ProcessInvNext ==
  Inv /\ RoundInv /\ ProcessInv /\ [CommandNext]_allvars => ProcessInv'
  <1> SUFFICES ASSUME Inv, RoundInv, ProcessInv, [CommandNext]_allvars
               PROVE  ProcessInv'
    OBVIOUS
  <1>1. TypeOK' /\ (UNCHANGED vars => Snapshot' = Snapshot /\ (Idle' <=> Idle))
    BY StateInvNext, StateUnchanged DEF Inv, TypeInv
  <1> USE DEF ProcessInv, CommandTypeOK
  <1>2. ASSUME NEW c \in CallsMade, NEW given \in {"given", "not given"}, Refresh(c, given)
        PROVE  ProcessInv'
    <2>1. c # None
      BY CallsAssumption, NoneIsNoCall
    <2>2. earlier' \in SUBSET Sources
      BY <1>2 DEF Refresh, Start
    <2> QED BY <1>1, <1>2, <2>1, <2>2 DEF Refresh, Start
  <1>3. ASSUME NEW c \in CallsMade \cup {None}, Serve(c)
        PROVE  ProcessInv'
    BY <1>1, <1>3 DEF Serve, Start
  <1>4. CASE Round
    <2>1. call' = call
      BY <1>4 DEF Round, Proceed, Fails, FetchAnswers, FetchNotModified, FetchRaises,
           ContentMissing, ParseRaises, ExceptionLeaves, Stores, StoreStatic, StoreRealtime,
           StoreDetectorLocations, StoreDisruptions, StoreArchive, Loaded
    <2>2. ~Idle
      BY <1>4 DEF Round, Proceed, Fails, FetchAnswers, FetchNotModified, FetchRaises,
           ContentMissing, ParseRaises, Stores, StoreStatic, StoreRealtime,
           StoreDetectorLocations, StoreDisruptions, StoreArchive, Loaded, Idle
    <2>3. call # None
      BY <2>2 DEF Inv, TypeInv, ControlInv
    <2> QED BY <1>1, <1>4, <2>1, <2>3 DEF Round, process
  <1>5. CASE EndRefresh
    <2>1. UNCHANGED <<call, failed>> /\ Idle
      BY <1>5 DEF EndRefresh, RefreshIsDone, RoundIsOver, vars, control
    <2> QED BY <1>1, <1>5, <2>1 DEF EndRefresh, RefreshIsDone, RoundIsOver
  <1>6. CASE WriteSnapshot
    <2> HIDE DEF Snapshot
    <2> QED BY <1>1, <1>6 DEF WriteSnapshot, RoundIsOver, vars, control
  <1>7. CASE WriteFails
    BY <1>1, <1>7 DEF WriteFails, RoundIsOver, vars, control
  <1>8. CASE Listen
    BY <1>1, <1>8 DEF Listen, RoundIsOver, vars, control
  <1>9. CASE StopServing
    BY <1>1, <1>9 DEF StopServing, vars, control
  <1>10. CASE Kill
    BY <1>1, <1>10 DEF Kill, vars, control
  <1>11. CASE UNCHANGED allvars
    BY <1>1, <1>11 DEF allvars, process, vars, control
  <1> QED BY <1>2, <1>3, <1>4, <1>5, <1>6, <1>7, <1>8, <1>9, <1>10, <1>11
          DEF CommandNext

-----------------------------------------------------------------------------
(* The file *)

(* What the file says when it is written. *)
LEMMA FileWritten ==
  ASSUME Inv, RoundInv, ProcessInv, WriteSnapshot
  PROVE  /\ file' = Snapshot
         /\ \A s \in AlwaysAttempted : Snapshot.source_status[s] = Absent <=> s \in Snapshot.source_errors
         /\ Static \in Snapshot.source_errors => Snapshot.source_status[Static] = Absent
         /\ Snapshot.transit = NoData <=> Realtime \in Snapshot.source_errors
         /\ Snapshot.disruptions = NoData <=> RoadDisruptions \in Snapshot.source_errors
         /\ TrafficArchive \in Snapshot.missing_sources /\ Snapshot.traffic = NoData
         /\ Snapshot.source_status[TrafficArchive] = Absent
         /\ \A s \in Sources : Snapshot.source_status[s] = Absent =>
               \/ s \in Snapshot.source_errors /\ s \in failed
               \/ s = Static /\ call = LiveNoGtfs /\ s \in Snapshot.missing_sources
               \/ s = TrafficArchive
  <1>1. Idle /\ call # None /\ file' = Snapshot
    BY DEF WriteSnapshot, RoundIsOver, ProcessInv
  <1>2. /\ call \in {Live, LiveNoGtfs}
        /\ succeeded \cup failed = Attempts(call) /\ succeeded \cap failed = {}
    BY <1>1, RoundOver
  <1>3. \A s \in Sources : s \in Attempts(call) => (source_status[s] = Absent <=> s \in source_errors)
    BY <1>2 DEF RoundInv
  <1>4. /\ AlwaysAttempted \subseteq Attempts(call) /\ AlwaysAttempted \subseteq Sources
        /\ Static \notin Attempts(call) => call = LiveNoGtfs
        /\ \A s \in Sources : s \in Attempts(call) \cup {Static, TrafficArchive}
    BY <1>2, AttemptsOfARound, SourcesDiffer DEF AlwaysAttempted
  <1>5. /\ Snapshot.transit = Held[Realtime] /\ Snapshot.disruptions = Held[RoadDisruptions]
        /\ Snapshot.traffic = Held[TrafficArchive]
        /\ Snapshot.source_status = source_status /\ Snapshot.source_errors = source_errors
        /\ Snapshot.missing_sources = MissingSources
    BY DEF Snapshot, Held, Sources, Static, Realtime, DetectorLocations, TrafficArchive,
           RoadDisruptions
  <1>6. \A s \in Sources : Held[s] = NoData <=> source_status[s] = Absent
    BY DEF Inv, DataInv, StatusMatchesData
  <1>7. \A s \in {Static, TrafficArchive} : source_status[s] = Absent => s \in MissingSources
    BY DEF MissingSources, RequiredSources
  <1>8. source_errors = failed
    BY DEF RoundInv
  <1>9. source_status[TrafficArchive] = Absent
    BY DEF RoundInv
  <1>10. \A s \in Sources : source_status[s] = Absent =>
            \/ s \in source_errors /\ s \in failed
            \/ s = Static /\ call = LiveNoGtfs /\ s \in MissingSources
            \/ s = TrafficArchive
    BY <1>3, <1>4, <1>7, <1>8
  <1>11. Realtime \in AlwaysAttempted /\ RoadDisruptions \in AlwaysAttempted
         /\ {TrafficArchive, Static, Realtime, RoadDisruptions} \subseteq Sources
    BY DEF AlwaysAttempted, Sources
  <1>12. /\ \A s \in AlwaysAttempted : source_status[s] = Absent <=> s \in source_errors
         /\ Static \in source_errors => source_status[Static] = Absent
    BY <1>3, <1>4, <1>11, <1>2 DEF RoundInv
  <1>13. /\ Held[Realtime] = NoData <=> Realtime \in source_errors
         /\ Held[RoadDisruptions] = NoData <=> RoadDisruptions \in source_errors
         /\ Held[TrafficArchive] = NoData
    BY <1>6, <1>9, <1>11, <1>12
  <1> HIDE DEF Snapshot
  <1> QED BY <1>1, <1>5, <1>7, <1>9, <1>10, <1>12, <1>13

(* What every file has reported and never had. *)
FileInv ==
  file # NoFile =>
    /\ TrafficArchive \in file.missing_sources /\ file.traffic = NoData
    /\ file.source_status[TrafficArchive] = Absent

(* The file changes in no other way. *)
LEMMA FileStep ==
  ASSUME [CommandNext]_allvars
  PROVE  file' = file \/ WriteSnapshot
  BY DEF CommandNext, Refresh, Serve, Start, Round, WriteFails, EndRefresh, Listen,
         StopServing, Kill, allvars

LEMMA FileInvNext ==
  Inv /\ RoundInv /\ ProcessInv /\ FileInv /\ FreshOrFailing /\ [CommandNext]_allvars
    => FileInv' /\ FreshOrFailing'
  <1> SUFFICES ASSUME Inv, RoundInv, ProcessInv, FileInv, FreshOrFailing,
                      [CommandNext]_allvars
               PROVE  FileInv' /\ FreshOrFailing'
    OBVIOUS
  <1>1. CASE file' = file
    BY <1>1 DEF FileInv, FreshOrFailing
  <1>2. CASE WriteSnapshot
    <2> HIDE DEF Snapshot
    <2> QED BY <1>2, FileWritten DEF FileInv, FreshOrFailing
  <1> QED BY <1>1, <1>2, FileStep

(* Nothing is lost before the file is written; what is lost then has       *)
(* failed in the round whose exit code is still to come.                   *)
LossInv ==
  /\ TrafficArchive \notin earlier
  /\ \A s \in Lost :
       /\ stage \in {"written", "over"}
       /\ s \in file.missing_sources \cup file.source_errors
       /\ \/ s = Static /\ call = LiveNoGtfs
          \/ s \in failed /\ (stage = "over" => exit \in {"1", "killed"})

LEMMA LossInvNext ==
  Inv /\ RoundInv /\ ProcessInv /\ FileInv /\ LossInv /\ [CommandNext]_allvars => LossInv'
  <1> SUFFICES ASSUME Inv, RoundInv, ProcessInv, FileInv, LossInv, [CommandNext]_allvars
               PROVE  LossInv'
    OBVIOUS
  <1>1. ASSUME NEW name, NEW c, Start(name, c)
        PROVE  LossInv'
    <2>1. file' = file
          /\ earlier' = {s \in Sources : file # NoFile /\ file.source_status[s] # Absent}
      BY <1>1 DEF Start
    <2>2. TrafficArchive \notin earlier' /\ Lost' = {}
      BY <2>1 DEF FileInv, Lost
    <2> QED BY <2>2 DEF LossInv
  <1>2. CASE Round
    <2>1. Lost = {} /\ UNCHANGED <<file, earlier>>
      BY <1>2 DEF Round, process, LossInv
    <2>2. Lost' = {}
      BY <2>1 DEF Lost
    <2> QED BY <2>1, <2>2 DEF LossInv
  <1>3. CASE WriteSnapshot
    <2>1. UNCHANGED <<earlier, call, failed>> /\ stage' = "written" /\ earlier \subseteq Sources
      BY <1>3 DEF WriteSnapshot, vars, control, ProcessInv, CommandTypeOK
    <2> HIDE DEF Snapshot
    <2>2. ASSUME NEW s \in Lost'
          PROVE  /\ s \in file'.missing_sources \cup file'.source_errors
                 /\ (s = Static /\ call = LiveNoGtfs) \/ s \in failed
      <3>1. s \in Sources /\ s # TrafficArchive /\ file' = Snapshot
            /\ Snapshot.source_status[s] = Absent
        BY <1>3, <2>1, FileWritten DEF Lost, LossInv
      <3> QED BY <1>3, <3>1, FileWritten
    <2> QED BY <2>1, <2>2 DEF LossInv
  <1>4. CASE WriteFails \/ Listen \/ StopServing
    <2>1. Lost = {} /\ UNCHANGED <<file, earlier>>
      BY <1>4 DEF WriteFails, Listen, StopServing, RoundIsOver, LossInv
    <2>2. Lost' = {}
      BY <2>1 DEF Lost
    <2> QED BY <2>1, <2>2 DEF LossInv
  <1>5. CASE EndRefresh \/ Kill
    <2>1. /\ UNCHANGED <<file, earlier, call, failed>> /\ stage' = "over"
          /\ exit' = "killed" \/ (failed # {} => exit' = "1")
      BY <1>5 DEF EndRefresh, Kill, vars, control
    <2>2. Lost' = Lost
      BY <2>1 DEF Lost
    <2> QED BY <2>1, <2>2 DEF LossInv
  <1>6. CASE UNCHANGED allvars
    BY <1>6 DEF allvars, process, vars, control, LossInv, Lost
  <1> QED BY <1>1, <1>2, <1>3, <1>4, <1>5, <1>6 DEF CommandNext, Refresh, Serve

CommandInv == Inv /\ RoundInv /\ ProcessInv /\ FileInv /\ FreshOrFailing /\ LossInv

LEMMA CommandInvInductive == CommandSpec => []CommandInv
  <1>1. CommandInit => CommandInv
    BY CommandInvInit DEF CommandInv, FileInv, CommandInit, LossInv, Lost
  <1>2. CommandInv /\ [CommandNext]_allvars => CommandInv'
    BY StateInvNext, ProcessInvNext, FileInvNext, LossInvNext DEF CommandInv
  <1> QED BY <1>1, <1>2, PTL DEF CommandSpec

-----------------------------------------------------------------------------
(* The theorems *)

(* Every variable of the commands keeps its type. *)
THEOREM CommandTypeCorrect == CommandSpec => []CommandTypeOK
  BY CommandInvInductive, PTL DEF CommandInv, ProcessInv

(* Exit code 0 means a complete round and a file that is its snapshot. *)
THEOREM ExitCorrect == CommandSpec => []ExitZeroIsWhole
  <1>1. CommandInv => ExitZeroIsWhole
    <2> SUFFICES ASSUME CommandInv, stage = "over", command = "refresh", exit = "0"
                 PROVE  /\ \A s \in Attempts(call) : Held[s] # NoData
                        /\ option = "given" => file = Snapshot /\ file.source_errors = {}
      BY DEF ExitZeroIsWhole
    <2>1. Idle /\ failed = {} /\ call # None /\ (option = "given" => file = Snapshot)
      BY DEF CommandInv, ProcessInv
    <2>2. succeeded = Attempts(call) /\ succeeded \subseteq Sources
      BY <2>1, RoundOver DEF CommandInv, Inv, TypeInv, TypeOK
    <2>3. \A s \in Attempts(call) : Held[s] # NoData
      BY <2>2 DEF CommandInv, RoundInv, Inv, DataInv, StatusMatchesData
    <2>4. Snapshot.source_errors = {}
      BY <2>1 DEF Snapshot, CommandInv, RoundInv
    <2> QED BY <2>1, <2>3, <2>4
  <1> QED BY <1>1, CommandInvInductive, PTL

(* A file never mixes runs, and hides no failure of its round. *)
THEOREM FileCorrect == CommandSpec => []FreshOrFailing
  BY CommandInvInductive, PTL DEF CommandInv

(* No command ever has complete data. *)
THEOREM IncompleteCorrect == CommandSpec => []NeverComplete
  <1>1. CommandInv => NeverComplete
    <2> SUFFICES ASSUME CommandInv PROVE NeverComplete
      OBVIOUS
    <2>1. source_status[TrafficArchive] = Absent /\ Held[TrafficArchive] = NoData
      BY DEF CommandInv, RoundInv, Inv, DataInv, StatusMatchesData, Sources
    <2>2. TrafficArchive \in MissingSources
      BY <2>1 DEF MissingSources, RequiredSources
    <2>3. HealthStatus = "degraded"
      BY <2>2 DEF HealthStatus
    <2> QED BY <2>1, <2>2, <2>3
            DEF NeverComplete, HealthAnswer, StatusAnswer, CommandInv, FileInv
  <1> QED BY <1>1, CommandInvInductive, PTL

(* What a file loses is named in it as long as it is there, and a process  *)
(* that ends by itself after it wrote such a file ends with exit code 1.   *)
THEOREM LossCorrect == CommandSpec => []LossIsReported
  <1>1. CommandInv => LossIsReported
    BY DEF CommandInv, LossInv, LossIsReported
  <1> QED BY <1>1, CommandInvInductive, PTL

(* What a service answers is its one round, or the emptiness it was        *)
(* started with: it counts what that round loaded, names the errors that   *)
(* round had, and of each source gone for it has the one or the other.     *)
AnswersAreTheRound ==
  stage = "serving" =>
    /\ StatusAnswer.counts = succeeded /\ StatusAnswer.source_errors = failed
    /\ succeeded \cap failed = {}
    /\ IF call = None
       THEN succeeded = {} /\ failed = {} /\ HealthAnswer.missing_sources = RequiredSources
       ELSE succeeded \cup failed = Attempts(call)

(* A service never shows what an earlier process, or nobody, has loaded.   *)
THEOREM ServiceCorrect == CommandSpec => []AnswersAreTheRound
  <1>1. CommandInv => AnswersAreTheRound
    <2> SUFFICES ASSUME CommandInv, stage = "serving" PROVE AnswersAreTheRound
      BY DEF AnswersAreTheRound
    <2>1. Idle /\ Inv /\ RoundInv /\ (call = None => succeeded = {})
      BY DEF CommandInv, ProcessInv
    <2>2. succeeded \in SUBSET Sources
      BY <2>1 DEF Inv, TypeInv, TypeOK
    <2>3. {s \in Sources : Held[s] # NoData} = succeeded
      BY <2>1, <2>2 DEF RoundInv, Inv, DataInv, StatusMatchesData
    <2>4. StatusAnswer.counts = succeeded /\ StatusAnswer.source_errors = failed
          /\ HealthAnswer.missing_sources = MissingSources
      BY <2>1, <2>3 DEF StatusAnswer, HealthAnswer, RoundInv
    <2>5. CASE call = None
      <3>1. succeeded = {} /\ failed = {}
        BY <2>1, <2>5 DEF Inv, ReportInv
      <3>2. MissingSources = RequiredSources
        BY <2>1, <3>1 DEF MissingSources, RequiredSources, Sources, RoundInv
      <3> QED BY <2>4, <2>5, <3>1, <3>2 DEF AnswersAreTheRound
    <2>6. CASE call # None
      BY <2>1, <2>4, <2>6, RoundOver DEF AnswersAreTheRound
    <2> QED BY <2>5, <2>6
  <1> QED BY <1>1, CommandInvInductive, PTL

(* Through commands, kills and restarts the ledger of the pipeline is      *)
(* kept: every step of a process is one of the ledger, and a process       *)
(* begins with an empty one, whatever the last one held.                   *)
THEOREM ProcessesKeepLedgers ==
  CommandSpec => [][\/ [Ledger!Next]_Ledger!vars
                    \/ stage = "over" /\ stage' = "refreshing" /\ (Ledger!Init)']_allvars
  <1>1. ASSUME CommandInv, [CommandNext]_allvars
        PROVE  \/ [Ledger!Next]_Ledger!vars
               \/ stage = "over" /\ stage' = "refreshing" /\ (Ledger!Init)'
    <2>1. CASE UNCHANGED vars
      <3>1. UNCHANGED Ledger!vars
        BY <2>1, HeldUnchanged DEF vars, Ledger!vars
      <3> QED BY <3>1
    <2>2. CASE Round
      <3>1. [Next]_vars /\ TypeInv
        BY <1>1, <2>2 DEF Round, Next, CommandInv, Inv
      <3> QED BY <3>1, LedgerStep
    <2>3. ASSUME NEW name, NEW c, Start(name, c)
          PROVE  stage = "over" /\ stage' = "refreshing" /\ (Ledger!Init)'
      <3>1. Held' = [s \in Sources |-> NoData] /\ source_errors' = {}
        <4>1. \A s \in Sources : Held'[s] = NoData
          BY <2>3 DEF Start, NewRuntimeState, Held, Sources
        <4>2. Held' \in [Sources -> {NoData}]
          BY <2>3 DEF Start, NewRuntimeState, Held, Sources, Static, Realtime,
                      DetectorLocations, TrafficArchive, RoadDisruptions
        <4>3. source_errors' = {}
          BY <2>3 DEF Start, NewRuntimeState
        <4> QED BY <4>1, <4>2, <4>3
      <3>2. stage = "over" /\ stage' = "refreshing"
        BY <2>3 DEF Start
      <3>3. (Ledger!Init)'
        BY <3>1, SameSources DEF Ledger!Init
      <3> QED BY <3>2, <3>3
    <2> QED BY <1>1, <2>1, <2>2, <2>3
            DEF CommandNext, Refresh, Serve, WriteSnapshot, WriteFails, EndRefresh, Listen,
                StopServing, Kill, allvars
  <1> QED BY <1>1, CommandInvInductive, PTL DEF CommandSpec

=============================================================================
