------------------------ MODULE RefreshPipelineProofs ------------------------
(***************************************************************************)
(* Theorems about RefreshPipeline, for every set of payloads and every set *)
(* of functions the caller may use.                                        *)
(***************************************************************************)
EXTENDS RefreshPipeline, TLAPS

(* The table of operations, row by row. *)
LEMMA OperationsTable ==
  /\ Operations[Live] = <<Static, Realtime, DetectorLocations, RoadDisruptions>>
  /\ Operations[LiveNoGtfs] = <<Realtime, DetectorLocations, RoadDisruptions>>
  /\ Operations[RoadWrapper] = <<DetectorLocations, RoadDisruptions>>
  /\ Operations[LoadArchive] = <<TrafficArchive>>
  /\ \A c \in Calls \ {Live, LiveNoGtfs, RoadWrapper, LoadArchive} :
        \E s \in Sources \ {TrafficArchive} : Operations[c] = <<s>>
  BY DEF Calls, Operations, Sources, Static, Realtime, DetectorLocations,
         TrafficArchive, RoadDisruptions, Live, LiveNoGtfs, RoadWrapper,
         LoadGtfs, LoadArchive

(* What the table of operations says: each is a non-empty list of sources  *)
(* without repetition, and only load_traffic_archive loads the archive.    *)
LEMMA OperationsFacts ==
  ASSUME NEW c \in Calls
  PROVE  /\ Operations[c] \in Seq(Sources)
         /\ Len(Operations[c]) \in Nat \ {0}
         /\ \A i, j \in 1..Len(Operations[c]) :
               Operations[c][i] = Operations[c][j] => i = j
         /\ \A i \in 1..Len(Operations[c]) :
               Operations[c][i] = TrafficArchive => c = LoadArchive
  <1> USE DEF Sources, Static, Realtime, DetectorLocations, TrafficArchive, RoadDisruptions
  <1>1. CASE c = Live
    <2>1. Operations[c] = <<Static, Realtime, DetectorLocations, RoadDisruptions>>
      BY OperationsTable, <1>1
    <2>2. Operations[c] \in Seq(Sources) /\ Len(Operations[c]) = 4
      BY <2>1
    <2>3. Operations[c][1] = Static /\ Operations[c][2] = Realtime
         /\ Operations[c][3] = DetectorLocations /\ Operations[c][4] = RoadDisruptions
      BY <2>1
    <2> QED BY <2>2, <2>3, <1>1
  <1>2. CASE c = LiveNoGtfs
    <2>1. Operations[c] = <<Realtime, DetectorLocations, RoadDisruptions>>
      BY OperationsTable, <1>2
    <2>2. Operations[c] \in Seq(Sources) /\ Len(Operations[c]) = 3
      BY <2>1
    <2>3. Operations[c][1] = Realtime /\ Operations[c][2] = DetectorLocations
         /\ Operations[c][3] = RoadDisruptions
      BY <2>1
    <2> QED BY <2>2, <2>3, <1>2
  <1>3. CASE c = RoadWrapper
    <2>1. Operations[c] = <<DetectorLocations, RoadDisruptions>>
      BY OperationsTable, <1>3
    <2>2. Operations[c] \in Seq(Sources) /\ Len(Operations[c]) = 2
      BY <2>1
    <2>3. Operations[c][1] = DetectorLocations /\ Operations[c][2] = RoadDisruptions
      BY <2>1
    <2> QED BY <2>2, <2>3, <1>3
  <1>4. CASE c = LoadArchive
    <2>1. Operations[c] = <<TrafficArchive>>
      BY OperationsTable, <1>4
    <2>2. Operations[c] \in Seq(Sources) /\ Len(Operations[c]) = 1
      BY <2>1
    <2>3. Operations[c][1] = TrafficArchive
      BY <2>1
    <2> QED BY <2>2, <2>3, <1>4
  <1>5. CASE c \notin {Live, LiveNoGtfs, RoadWrapper, LoadArchive}
    <2>1. PICK s \in Sources \ {TrafficArchive} : Operations[c] = <<s>>
      BY OperationsTable, <1>5
    <2>2. Operations[c] \in Seq(Sources) /\ Len(Operations[c]) = 1
      BY <2>1
    <2>3. Operations[c][1] = s
      BY <2>1
    <2> QED BY <2>2, <2>3
  <1> QED BY <1>1, <1>2, <1>3, <1>4, <1>5

-----------------------------------------------------------------------------
(* Where the control of a call can be: an operation runs at a position of  *)
(* the list of the function called; a call that ended without exception    *)
(* has run them all; only a function without the try ends by an exception. *)
ControlInv ==
  /\ ~Idle => call # None
  /\ phase # "returned" => position \in 1..Len(Operations[call])
  /\ phase = "returned" /\ call # None => position = Len(Operations[call]) + 1
  /\ phase = "raised" => call # None /\ ~Catches(call)

TypeInv == TypeOK /\ ControlInv

(* "none" is no function. *)
LEMMA NoneIsNoCall == None \notin Calls
  BY DEF None, Calls, Operations, Live, LiveNoGtfs, RoadWrapper, LoadGtfs, LoadArchive

LEMMA CurrentIsASource ==
  ASSUME TypeInv, ~Idle
  PROVE  Current \in Sources /\ call \in Calls
  BY OperationsFacts, CallsAssumption DEF TypeInv, TypeOK, ControlInv, Current, Idle

LEMMA TypeInvInit == Init => TypeInv
  BY NoneIsNoCall
     DEF Init, TypeInv, TypeOK, ControlInv, Datasets, Idle

LEMMA TypeInvNext == TypeInv /\ [Next]_vars => TypeInv'
  <1> SUFFICES ASSUME TypeInv, [Next]_vars
               PROVE  TypeInv'
    OBVIOUS
  <1> USE DEF TypeInv, TypeOK, ControlInv, Idle
  <1>1. ASSUME NEW c \in CallsMade, BeginCall(c)
        PROVE  TypeInv'
    <2>1. c \in Calls /\ Len(Operations[c]) \in Nat \ {0}
      BY OperationsFacts, CallsAssumption
    <2>2. c # None
      BY <2>1, NoneIsNoCall
    <2> QED BY <1>1, <2>1, <2>2 DEF BeginCall, Datasets, data, schedule, Live
  <1>2. ASSUME ExceptionLeaves, UNCHANGED data, ~Idle
        PROVE  TypeInv'
    <2>1. Current \in Sources /\ call \in Calls /\ Len(Operations[call]) \in Nat \ {0}
      BY <1>2, CurrentIsASource, OperationsFacts
    <2> QED BY <1>2, <2>1
            DEF ExceptionLeaves, NextOperation, RecordSourceError, data, schedule, Datasets,
                Catches
  <1>3. ASSUME FetchAnswers \/ FetchNotModified
        PROVE  TypeInv'
    BY <1>3 DEF FetchAnswers, FetchNotModified, data, schedule, Datasets, Catches
  <1>4. ASSUME Stores
        PROVE  TypeInv'
    <2>1. /\ phase = "parse" /\ hand \in Payloads /\ Current \in Sources
          /\ call \in Calls /\ Len(Operations[call]) \in Nat \ {0}
      BY <1>4, CurrentIsASource, OperationsFacts
         DEF Stores, StoreStatic, StoreRealtime, StoreDetectorLocations,
             StoreDisruptions, StoreArchive, Loaded, Datasets
    <2>2. ASSUME NEW s \in Sources, NEW status \in FreshnessStatus, Loaded(s, status)
          PROVE  /\ source_status' \in [Sources -> FreshnessStatus \cup {Absent}]
                 /\ source_errors' \in SUBSET Sources
                 /\ succeeded' \in SUBSET Sources /\ failed' \in SUBSET Sources
                 /\ call' \in CallsMade \cup {None}
                 /\ position' \in Nat \ {0}
                 /\ phase' \in {"fetch", "parse", "returned", "raised"}
                 /\ hand' \in Datasets
                 /\ ControlInv'
      BY <2>1, <2>2 DEF Loaded, MarkLoaded, ClearSourceError, NextOperation, Datasets, Catches
    <2>3. CASE StoreStatic
      <3>1. ControlInv' /\ TypeOK'
        BY <2>1, <2>2, <2>3
           DEF StoreStatic, Datasets, Sources, FreshnessStatus
      <3> QED BY <3>1
    <2>4. CASE StoreRealtime
      BY <2>1, <2>2, <2>4
         DEF StoreRealtime, Datasets, Sources, FreshnessStatus, schedule
    <2>5. CASE StoreDetectorLocations
      BY <2>1, <2>2, <2>5
         DEF StoreDetectorLocations, Datasets, Sources, FreshnessStatus, schedule
    <2>6. CASE StoreDisruptions
      BY <2>1, <2>2, <2>6
         DEF StoreDisruptions, Datasets, Sources, FreshnessStatus, schedule
    <2>7. CASE StoreArchive
      BY <2>1, <2>2, <2>7
         DEF StoreArchive, Datasets, Sources, FreshnessStatus, schedule
    <2> QED BY <1>4, <2>3, <2>4, <2>5, <2>6, <2>7 DEF Stores
  <1>5. ASSUME UNCHANGED vars
        PROVE  TypeInv'
    BY <1>5 DEF vars, data, schedule, control, Catches
  <1>6. ASSUME Fails
        PROVE  TypeInv'
    BY <1>2, <1>6 DEF Fails, FetchRaises, ContentMissing, ParseRaises
  <1> QED BY <1>1, <1>3, <1>4, <1>5, <1>6 DEF Next, Proceed

(* Every variable keeps its type. *)
THEOREM TypeCorrect == Spec => []TypeOK
  <1>1. Spec => []TypeInv
    BY TypeInvInit, TypeInvNext, PTL DEF Spec
  <1> QED BY <1>1, PTL DEF TypeInv

-----------------------------------------------------------------------------
(* Every store step, whatever the source: what it assigns. *)
LEMMA StoreStep ==
  ASSUME TypeInv, Stores
  PROVE  \E s \in Sources, status \in FreshnessStatus :
           /\ Loaded(s, status)
           /\ Held' = [Held EXCEPT ![s] = hand]
           /\ s \in {DetectorLocations, RoadDisruptions} => status = "unknown"
           /\ hand \in Payloads /\ hand # NoData
           /\ s = Static => stops' = hand /\ routes' = hand /\ trips' = hand
           /\ s # Static => UNCHANGED schedule
  <1> USE DEF Sources, Static, Realtime, DetectorLocations, TrafficArchive, RoadDisruptions,
              FreshnessStatus
  <1>1. hand \in Payloads /\ hand # NoData
    BY DEF Stores, StoreStatic, StoreRealtime, StoreDetectorLocations, StoreDisruptions,
           StoreArchive, Loaded, TypeInv, TypeOK, Datasets
  <1>2. CASE StoreStatic
    BY <1>1, <1>2 DEF StoreStatic, Held
  <1>3. CASE StoreRealtime
    BY <1>1, <1>3 DEF StoreRealtime, Held, schedule
  <1>4. CASE StoreDetectorLocations
    BY <1>1, <1>4 DEF StoreDetectorLocations, Held, schedule
  <1>5. CASE StoreDisruptions
    BY <1>1, <1>5 DEF StoreDisruptions, Held, schedule
  <1>6. CASE StoreArchive
    BY <1>1, <1>6 DEF StoreArchive, Held, schedule
  <1> QED BY <1>2, <1>3, <1>4, <1>5, <1>6 DEF Stores

(* The steps that are not stores leave the datasets and statuses alone. *)
LEMMA OtherStep ==
  ASSUME [Next]_vars, ~Stores
  PROVE  UNCHANGED <<data, source_status>>
  BY DEF Next, Proceed, Fails, BeginCall, FetchAnswers, FetchNotModified, FetchRaises,
         ContentMissing, ParseRaises, ExceptionLeaves, vars

LEMMA HeldType == TypeInv => Held \in [Sources -> Datasets]
  BY DEF TypeInv, TypeOK, Held, Sources, Static, Realtime, DetectorLocations,
         TrafficArchive, RoadDisruptions

LEMMA HeldUnchanged ==
  ASSUME UNCHANGED data
  PROVE  Held' = Held /\ UNCHANGED schedule
  BY DEF data, Held, schedule

-----------------------------------------------------------------------------
(* Datasets and statuses. *)

(* The road sources can have no other status than unknown. *)
RoadStatusUnknown ==
  \A s \in {DetectorLocations, RoadDisruptions} : source_status[s] \in {Absent, "unknown"}

DataInv == OneSchedule /\ StatusMatchesData /\ RoadStatusUnknown

LEMMA DataInvInit == Init => DataInv
  BY DEF Init, DataInv, OneSchedule, StatusMatchesData, RoadStatusUnknown, Held, Sources

LEMMA DataInvNext == TypeInv /\ DataInv /\ [Next]_vars => DataInv'
  <1> SUFFICES ASSUME TypeInv, DataInv, [Next]_vars
               PROVE  DataInv'
    OBVIOUS
  <1> USE DEF DataInv, OneSchedule, StatusMatchesData, RoadStatusUnknown
  <1>1. CASE Stores
    <2>1. PICK s \in Sources, status \in FreshnessStatus :
            /\ Loaded(s, status)
            /\ Held' = [Held EXCEPT ![s] = hand]
            /\ s \in {DetectorLocations, RoadDisruptions} => status = "unknown"
            /\ hand \in Payloads /\ hand # NoData
            /\ s = Static => stops' = hand /\ routes' = hand /\ trips' = hand
            /\ s # Static => UNCHANGED schedule
      BY <1>1, StoreStep
    <2>2. source_status' = [source_status EXCEPT ![s] = status]
      BY <2>1 DEF Loaded, MarkLoaded
    <2>3. /\ Held \in [Sources -> Datasets]
          /\ source_status \in [Sources -> FreshnessStatus \cup {Absent}]
      BY HeldType DEF TypeInv, TypeOK
    <2>4. OneSchedule'
      BY <2>1 DEF schedule
    <2>5. StatusMatchesData'
      BY <2>1, <2>2, <2>3 DEF FreshnessStatus, Absent
    <2>6. RoadStatusUnknown'
      BY <2>1, <2>2, <2>3
         DEF Sources, DetectorLocations, RoadDisruptions
    <2> QED BY <2>4, <2>5, <2>6
  <1>2. CASE ~Stores
    BY <1>2, OtherStep, HeldUnchanged DEF schedule
  <1> QED BY <1>1, <1>2

(* The schedule is one archive, and the keys of source_status tell exactly *)
(* which datasets the state holds.                                         *)
THEOREM DataCorrect == Spec => [](OneSchedule /\ StatusMatchesData)
  <1>1. Spec => [](TypeInv /\ DataInv)
    BY TypeInvInit, TypeInvNext, DataInvInit, DataInvNext, PTL DEF Spec
  <1> QED BY <1>1, PTL DEF DataInv

(* No refresh, however complete, leads to a snapshot without a warning. *)
THEOREM AlwaysAWarning == Spec => []SnapshotAlwaysWarns
  <1>1. Spec => [](TypeInv /\ DataInv)
    BY TypeInvInit, TypeInvNext, DataInvInit, DataInvNext, PTL DEF Spec
  <1>2. DataInv => SnapshotAlwaysWarns
    <2> SUFFICES ASSUME DataInv PROVE SnapshotAlwaysWarns
      OBVIOUS
    <2>1. CASE source_status[RoadDisruptions] = Absent
      <3>1. RoadDisruptions \in MissingSources
        BY <2>1 DEF MissingSources, RequiredSources
      <3>2. [missing |-> RoadDisruptions] \in SnapshotWarnings
        BY <3>1 DEF SnapshotWarnings
      <3> QED BY <3>2 DEF SnapshotAlwaysWarns
    <2>2. CASE source_status[RoadDisruptions] = "unknown"
      <3>1. RoadDisruptions \in {s \in Sources : source_status[s] \in NotFresh}
        BY <2>2 DEF Sources, NotFresh, FreshnessStatus
      <3>2. [stale |-> RoadDisruptions] \in SnapshotWarnings
        BY <3>1 DEF SnapshotWarnings
      <3> QED BY <3>2 DEF SnapshotAlwaysWarns
    <2> QED BY <2>1, <2>2 DEF DataInv, RoadStatusUnknown
  <1> QED BY <1>1, <1>2, PTL

-----------------------------------------------------------------------------
(* The report and the recorded errors. *)

ReportInv ==
  /\ call = None => failed = {}
  /\ call # None =>
    /\ succeeded \cap failed = {}
    /\ Catches(call) => succeeded \cup failed = Completed
    /\ ~Catches(call) => failed = {} /\ succeeded = {}
    /\ failed \subseteq source_errors
    /\ \A s \in Completed \ failed : s \notin source_errors /\ source_status[s] # Absent

(* An operation that ends adds its source, a new one, to the completed. *)
LEMMA CompletedGrows ==
  ASSUME TypeInv, ~Idle, NextOperation, UNCHANGED call
  PROVE  Completed' = Completed \cup {Current} /\ Current \notin Completed
  <1>1. /\ position \in 1..Len(Operations[call]) /\ Len(Operations[call]) \in Nat
        /\ \A i, j \in 1..Len(Operations[call]) :
              Operations[call][i] = Operations[call][j] => i = j
    BY CurrentIsASource, OperationsFacts DEF TypeInv, ControlInv, Idle
  <1>2. 1..position = 1..(position - 1) \cup {position}
    BY <1>1
  <1>3. Completed' = {Operations[call][i] : i \in 1..position}
    BY <1>1 DEF Completed, NextOperation
  <1>4. Completed' = Completed \cup {Current}
    BY <1>2, <1>3 DEF Completed, Current
  <1>5. \A i \in 1..(position - 1) : Operations[call][i] # Current
    <2> SUFFICES ASSUME NEW i \in 1..(position - 1), Operations[call][i] = Current
                 PROVE  FALSE
      OBVIOUS
    <2>1. i \in 1..Len(Operations[call]) /\ i # position
      BY <1>1
    <2> QED BY <1>1, <2>1 DEF Current
  <1> QED BY <1>4, <1>5 DEF Completed

LEMMA ReportInvNext == TypeInv /\ ReportInv /\ [Next]_vars => ReportInv'
  <1> SUFFICES ASSUME TypeInv, ReportInv, [Next]_vars
               PROVE  ReportInv'
    OBVIOUS
  <1> USE DEF ReportInv
  <1>1. ASSUME NEW c \in CallsMade, BeginCall(c)
        PROVE  ReportInv'
    <2>1. position' = 1
      BY <1>1 DEF BeginCall
    <2>2. Completed' = {}
      BY <2>1 DEF Completed
    <2> QED BY <1>1, <2>2 DEF BeginCall
  <1>2. ASSUME ExceptionLeaves, UNCHANGED data, ~Idle
        PROVE  ReportInv'
    <2>1. call # None /\ call' = call /\ UNCHANGED <<source_status, succeeded>>
      BY <1>2 DEF ExceptionLeaves, TypeInv, ControlInv
    <2>2. CASE Catches(call)
      <3>1. Completed' = Completed \cup {Current} /\ Current \notin Completed
        BY <1>2, <2>1, <2>2, CompletedGrows DEF ExceptionLeaves
      <3>2. source_errors' = source_errors \cup {Current} /\ failed' = failed \cup {Current}
        BY <1>2, <2>2 DEF ExceptionLeaves, RecordSourceError
      <3> QED BY <2>1, <2>2, <3>1, <3>2 DEF Catches
    <2>3. CASE ~Catches(call)
      BY <1>2, <2>1, <2>3 DEF ExceptionLeaves, Completed, Catches
    <2> QED BY <2>2, <2>3
  <1>3. CASE FetchAnswers \/ FetchNotModified
    BY <1>3 DEF FetchAnswers, FetchNotModified, Completed, Catches
  <1>4. CASE Stores
    <2>1. PICK s \in Sources, status \in FreshnessStatus : Loaded(s, status)
      BY <1>4, StoreStep
    <2>2. ~Idle /\ s = Current /\ NextOperation /\ call' = call /\ failed' = failed
      BY <2>1 DEF Loaded, Idle
    <2>3. call # None
      BY <2>2 DEF TypeInv, ControlInv
    <2>4. Completed' = Completed \cup {s} /\ s \notin Completed
      BY <2>2, CompletedGrows
    <2>5. source_errors' = source_errors \ {s}
      BY <2>1 DEF Loaded, MarkLoaded, ClearSourceError
    <2>6. source_status' = [source_status EXCEPT ![s] = status] /\ status # Absent
      BY <2>1 DEF Loaded, MarkLoaded, FreshnessStatus, Absent
    <2>7. succeeded' = IF Catches(call) THEN succeeded \cup {s} ELSE succeeded
      BY <2>1 DEF Loaded
    <2>8. source_status \in [Sources -> FreshnessStatus \cup {Absent}]
      BY DEF TypeInv, TypeOK
    <2>9. failed \subseteq Completed
      BY <2>3
    <2>10. \A r \in Completed' \ failed' :
              r \notin source_errors' /\ source_status'[r] # Absent
      BY <2>2, <2>3, <2>4, <2>5, <2>6, <2>8
    <2> QED BY <2>2, <2>3, <2>4, <2>5, <2>7, <2>9, <2>10 DEF Catches
  <1>5. CASE UNCHANGED vars
    BY <1>5 DEF vars, control, Completed, Catches
  <1>6. CASE Fails
    BY <1>2, <1>6 DEF Fails, FetchRaises, ContentMissing, ParseRaises, Idle
  <1> QED BY <1>1, <1>3, <1>4, <1>5, <1>6 DEF Next, Proceed

(* The three invariants together, and what follows from them. *)
Inv == TypeInv /\ DataInv /\ ReportInv

LEMMA InvInductive == Spec => []Inv
  <1>1. Init => ReportInv
    BY DEF Init, ReportInv
  <1> QED BY <1>1, TypeInvInit, TypeInvNext, DataInvInit, DataInvNext, ReportInvNext,
             PTL DEF Spec, Inv

(* A refresh round's report and the state agree, at every moment of it. *)
THEOREM ReportCorrect == Spec => []ReportMatchesState
  <1>1. Inv => ReportMatchesState
    <2> SUFFICES ASSUME Inv, call # None, Catches(call)
                 PROVE  ReportMatchesState
      BY DEF ReportMatchesState
    <2>1. ReportInv /\ StatusMatchesData /\ phase # "raised"
      BY DEF Inv, DataInv, TypeInv, ControlInv
    <2>2. \A s \in succeeded : s \in Completed \ failed /\ s \in Sources
      BY <2>1 DEF Inv, TypeInv, TypeOK, ReportInv
    <2> QED BY <2>1, <2>2 DEF ReportMatchesState, ReportInv, StatusMatchesData
  <1> QED BY <1>1, InvInductive, PTL

(* A call that returns and reports no failure has loaded what it went for. *)
THEOREM QuietReturnCorrect == Spec => []QuietReturnMeansLoaded
  <1>1. Inv => QuietReturnMeansLoaded
    <2> SUFFICES ASSUME Inv, phase = "returned", call # None, failed = {},
                        NEW s \in Attempts(call)
                 PROVE  Held[s] # NoData /\ s \notin source_errors
      BY DEF QuietReturnMeansLoaded
    <2>1. call \in Calls /\ Len(Operations[call]) \in Nat \ {0}
          /\ position = Len(Operations[call]) + 1 /\ Operations[call] \in Seq(Sources)
      BY OperationsFacts, CallsAssumption DEF Inv, TypeInv, TypeOK, ControlInv
    <2>2. s \in Completed /\ s \in Sources
      BY <2>1 DEF Attempts, Completed
    <2> QED BY <2>2 DEF Inv, ReportInv, DataInv, StatusMatchesData
  <1> QED BY <1>1, InvInductive, PTL

(* Health "ok" is only ever reported over complete data and a round without *)
(* failures.                                                                *)
THEOREM OkCorrect == Spec => []OkIsEarned
  <1>1. Inv => OkIsEarned
    BY DEF Inv, ReportInv, DataInv, StatusMatchesData, OkIsEarned, HealthStatus,
           MissingSources, RequiredSources, Sources
  <1> QED BY <1>1, InvInductive, PTL

(* Only refresh_live_sources records errors, of what it can attempt. *)
ErrorsAreOfLiveSources == source_errors \subseteq Attempts(Live)

LEMMA ErrorsOfLiveSourcesNext ==
  TypeInv /\ ErrorsAreOfLiveSources /\ [Next]_vars => ErrorsAreOfLiveSources'
  <1> SUFFICES ASSUME TypeInv, ErrorsAreOfLiveSources, [Next]_vars
               PROVE  ErrorsAreOfLiveSources'
    OBVIOUS
  <1>1. CASE Stores
    BY <1>1, StoreStep DEF Loaded, MarkLoaded, ClearSourceError, ErrorsAreOfLiveSources
  <1>2. CASE Fails /\ Catches(call)
    <2>1. Operations[LiveNoGtfs] = <<Realtime, DetectorLocations, RoadDisruptions>>
          /\ Operations[Live] = <<Static, Realtime, DetectorLocations, RoadDisruptions>>
      BY OperationsTable
    <2>2. ~Idle /\ call \in {Live, LiveNoGtfs}
      BY <1>2 DEF Fails, FetchRaises, ContentMissing, ParseRaises, Idle, Catches
    <2>3. position \in 1..Len(Operations[call])
      BY <2>2 DEF TypeInv, ControlInv, Idle
    <2>4. Attempts(Live) = {Static, Realtime, DetectorLocations, RoadDisruptions}
      <3>1. DOMAIN Operations[Live] = {1, 2, 3, 4}
        BY <2>1
      <3>2. Operations[Live][1] = Static /\ Operations[Live][2] = Realtime
            /\ Operations[Live][3] = DetectorLocations /\ Operations[Live][4] = RoadDisruptions
        BY <2>1
      <3> QED BY <3>1, <3>2 DEF Attempts
    <2>5. Current \in Attempts(Live)
      <3>1. CASE call = Live
        BY <2>1, <2>3, <3>1 DEF Attempts, Current
      <3>2. CASE call = LiveNoGtfs
        <4>1. Len(Operations[call]) = 3
          BY <2>1, <3>2
        <4>2. position \in {1, 2, 3}
          BY <2>3, <4>1
        <4> QED BY <2>1, <2>4, <3>2, <4>2 DEF Current
      <3> QED BY <2>2, <3>1, <3>2
    <2>6. source_errors' = source_errors \cup {Current}
      BY <1>2 DEF Fails, FetchRaises, ContentMissing, ParseRaises, ExceptionLeaves,
                  RecordSourceError
    <2> QED BY <2>5, <2>6 DEF ErrorsAreOfLiveSources
  <1>3. CASE ~Stores /\ ~(Fails /\ Catches(call))
    BY <1>3 DEF Next, Proceed, Fails, BeginCall, FetchAnswers, FetchNotModified, FetchRaises,
                ContentMissing, ParseRaises, ExceptionLeaves, vars, ErrorsAreOfLiveSources
  <1> QED BY <1>1, <1>2, <1>3

(* A full round of refresh_live_sources settles the errors: when it        *)
(* returns, the state's errors are exactly the failures it reports,        *)
(* whatever outage came before.  This is what OutageIsForgotten comes to   *)
(* in one round; that such rounds come is left to fairness.                *)
THEOREM FullRoundSettlesErrors ==
  Spec => [](phase = "returned" /\ call = Live => source_errors = failed)
  <1>1. Init => ErrorsAreOfLiveSources
    BY DEF Init, ErrorsAreOfLiveSources
  <1>2. Inv /\ ErrorsAreOfLiveSources =>
          (phase = "returned" /\ call = Live => source_errors = failed)
    <2> SUFFICES ASSUME Inv, ErrorsAreOfLiveSources, phase = "returned", call = Live
                 PROVE  source_errors = failed
      OBVIOUS
    <2>1. call # None /\ call \in Calls
      BY NoneIsNoCall, CallsAssumption DEF Inv, TypeInv, TypeOK, Live, None
    <2>2. position = Len(Operations[call]) + 1 /\ Len(Operations[call]) \in Nat
          /\ Operations[call] \in Seq(Sources)
      BY <2>1, OperationsFacts DEF Inv, TypeInv, ControlInv
    <2>3. Completed = Attempts(Live)
      BY <2>2 DEF Completed, Attempts
    <2>4. failed \subseteq source_errors /\ \A s \in Completed \ failed : s \notin source_errors
      BY <2>1 DEF Inv, ReportInv
    <2> QED BY <2>3, <2>4 DEF ErrorsAreOfLiveSources
  <1>3. Inv => TypeInv
    BY DEF Inv
  <1> QED BY <1>1, <1>2, <1>3, ErrorsOfLiveSourcesNext, InvInductive, PTL DEF Spec

-----------------------------------------------------------------------------
(* How long a call can be. *)

(* The steps a call under way has left, at most: two for each operation    *)
(* ahead, and what is left of the one it is at.                            *)
StepsLeft ==
  IF Idle THEN 0
  ELSE 2 * (Len(Operations[call]) - position) + (IF phase = "fetch" THEN 2 ELSE 1)

(* Every step of a call brings its end nearer, whatever fails: nothing is  *)
(* fetched again within a call and no operation is repeated.               *)
THEOREM CallsAreBounded == Spec => [][~Idle => StepsLeft \in Nat /\ StepsLeft' < StepsLeft]_vars
  <1>1. ASSUME TypeInv, Next, ~Idle
        PROVE  StepsLeft \in Nat /\ StepsLeft' < StepsLeft
    <2>1. /\ position \in 1..Len(Operations[call]) /\ Len(Operations[call]) \in Nat \ {0}
          /\ phase \in {"fetch", "parse"}
      BY <1>1, CurrentIsASource, OperationsFacts DEF TypeInv, TypeOK, ControlInv, Idle
    <2>2. call' = call
      BY <1>1 DEF Next, Proceed, Fails, Stores, BeginCall, FetchAnswers, FetchNotModified,
                  FetchRaises, ContentMissing, ParseRaises, ExceptionLeaves, StoreStatic,
                  StoreRealtime, StoreDetectorLocations, StoreDisruptions, StoreArchive, Loaded
    <2>3. \/ phase = "fetch" /\ phase' = "parse" /\ position' = position
          \/ NextOperation
          \/ phase' = "raised"
      BY <1>1 DEF Next, Proceed, Fails, Stores, BeginCall, FetchAnswers, FetchNotModified,
                  FetchRaises, ContentMissing, ParseRaises, ExceptionLeaves, StoreStatic,
                  StoreRealtime, StoreDetectorLocations, StoreDisruptions, StoreArchive, Loaded
    <2> DEFINE n == Len(Operations[call])
    <2>4. StepsLeft = 2 * (n - position) + (IF phase = "fetch" THEN 2 ELSE 1)
          /\ StepsLeft' = IF phase' \in {"returned", "raised"} THEN 0
                          ELSE 2 * (n - position') + (IF phase' = "fetch" THEN 2 ELSE 1)
      BY <1>1, <2>2 DEF StepsLeft, Idle
    <2>5. n \in Nat /\ position \in Nat /\ position <= n
      BY <2>1
    <2> HIDE DEF n
    <2>6. CASE phase = "fetch" /\ phase' = "parse" /\ position' = position
      BY <2>4, <2>5, <2>6
    <2>7. CASE NextOperation
      <3>1. position' = position + 1 /\ phase' = IF position = n THEN "returned" ELSE "fetch"
        BY <2>7 DEF NextOperation, n
      <3>2. StepsLeft \in Nat /\ StepsLeft > 0
        BY <2>4, <2>5
      <3>3. CASE position = n
        BY <2>4, <3>1, <3>2, <3>3
      <3>4. CASE position # n
        BY <2>4, <2>5, <3>1, <3>4
      <3> QED BY <3>3, <3>4
    <2>8. CASE phase' = "raised"
      BY <2>4, <2>5, <2>8
    <2> QED BY <2>3, <2>6, <2>7, <2>8
  <1>2. TypeInv /\ [Next]_vars =>
          [~Idle => StepsLeft \in Nat /\ StepsLeft' < StepsLeft]_vars
    BY <1>1
  <1> QED BY <1>2, TypeInvInit, TypeInvNext, PTL DEF Spec

-----------------------------------------------------------------------------
(* What a step may do. *)

(* The archive is loaded by load_traffic_archive and nothing else. *)
LEMMA OnlyTheArchiveCall ==
  ASSUME TypeInv, Stores, LoadArchive \notin CallsMade
  PROVE  source_status'[TrafficArchive] = source_status[TrafficArchive]
  <1>1. PICK s \in Sources, status \in FreshnessStatus : Loaded(s, status)
    BY StoreStep
  <1>2. s = Current /\ ~Idle /\ source_status' = [source_status EXCEPT ![s] = status]
    BY <1>1 DEF Loaded, MarkLoaded, Idle
  <1>3. call \in CallsMade /\ position \in 1..Len(Operations[call])
    BY <1>2 DEF TypeInv, TypeOK, ControlInv, Idle
  <1>4. s # TrafficArchive
    BY <1>2, <1>3, OperationsFacts, CallsAssumption DEF Current
  <1> QED BY <1>2, <1>4 DEF TypeInv, TypeOK

(* Without load_traffic_archive among the calls (the command line has no   *)
(* command for it) the service is degraded forever.                        *)
THEOREM NeverOkWithoutArchive == Spec => []DegradedWithoutArchive
  <1> DEFINE J == LoadArchive \notin CallsMade => source_status[TrafficArchive] = Absent
  <1>1. Init => J
    BY DEF Init, Sources
  <1>2. TypeInv /\ J /\ [Next]_vars => J'
    BY OnlyTheArchiveCall, OtherStep
  <1>3. J => DegradedWithoutArchive
    BY DEF DegradedWithoutArchive, HealthStatus, MissingSources, RequiredSources
  <1> QED BY <1>1, <1>2, <1>3, TypeInvInit, TypeInvNext, PTL DEF Spec

(* The registry is the same in both modules. *)
LEMMA SameSources == Ledger!Sources = Sources
  BY DEF Ledger!Sources, Ledger!Static, Ledger!Realtime, Ledger!DetectorLocations,
         Ledger!TrafficArchive, Ledger!RoadDisruptions, Sources, Static, Realtime,
         DetectorLocations, TrafficArchive, RoadDisruptions

(* The step of one operation, in the terms of the ledger. *)
LEMMA LedgerStep ==
  ASSUME TypeInv, [Next]_vars
  PROVE  [Ledger!Next]_Ledger!vars
  <1> USE DEF Ledger!Next, Ledger!vars, Ledger!Load, Ledger!RecordFailure
  <1>1. CASE Stores
    <2>1. PICK s \in Sources, status \in FreshnessStatus :
            /\ Loaded(s, status) /\ hand \in Payloads
            /\ Held' = [Held EXCEPT ![s] = hand]
      BY <1>1, StoreStep
    <2>2. Ledger!Load(s, hand)
      BY <2>1 DEF Loaded, MarkLoaded, ClearSourceError
    <2> QED BY <2>1, <2>2, SameSources
  <1>2. CASE Fails
    <2>1. ~Idle /\ Held' = Held
      BY <1>2, HeldUnchanged DEF Fails, FetchRaises, ContentMissing, ParseRaises, Idle
    <2>2. Current \in Sources
      BY <2>1, CurrentIsASource
    <2>3. CASE Catches(call)
      <3>1. Ledger!RecordFailure(Current)
        BY <1>2, <2>1, <2>3 DEF Fails, FetchRaises, ContentMissing, ParseRaises,
             ExceptionLeaves, RecordSourceError
      <3> QED BY <2>2, <3>1, SameSources
    <2>4. CASE ~Catches(call)
      BY <1>2, <2>1, <2>4 DEF Fails, FetchRaises, ContentMissing, ParseRaises,
           ExceptionLeaves
    <2> QED BY <2>3, <2>4
  <1>3. CASE ~Stores /\ ~Fails
    <2>1. UNCHANGED <<data, source_errors>>
      BY <1>3 DEF Next, Proceed, BeginCall, FetchAnswers, FetchNotModified, vars
    <2> QED BY <2>1, HeldUnchanged
  <1> QED BY <1>1, <1>2, <1>3

(* The pipeline implements the ledger: source by source, whole datasets,   *)
(* the last good one kept, an error until the source loads again.          *)
THEOREM ImplementsLedger == Spec => LedgerSpec
  <1>1. Init => Ledger!Init
    BY SameSources
       DEF Init, Ledger!Init, Held, Sources, Static, Realtime, DetectorLocations,
           TrafficArchive, RoadDisruptions
  <1> QED BY <1>1, LedgerStep, TypeInvInit, TypeInvNext, PTL DEF Spec, LedgerSpec, Ledger!Spec

(* Datasets change only to the content in hand of the running operation. *)
THEOREM NoSubstituteData == Spec => OnlyProviderDataIsShown
  <1>1. ASSUME TypeInv, [Next]_vars
        PROVE  [\A s \in Sources : Held'[s] # Held[s] =>
                  Held'[s] = hand /\ hand \in Payloads /\ s = Current]_vars
    <2>1. CASE Stores
      <3>1. PICK r \in Sources, status \in FreshnessStatus :
              /\ Loaded(r, status) /\ hand \in Payloads
              /\ Held' = [Held EXCEPT ![r] = hand]
        BY <1>1, <2>1, StoreStep
      <3>2. r = Current
        BY <3>1 DEF Loaded
      <3> QED BY <1>1, <3>1, <3>2, HeldType
    <2>2. CASE ~Stores
      BY <1>1, <2>2, OtherStep, HeldUnchanged
    <2> QED BY <2>1, <2>2
  <1> QED BY <1>1, TypeInvInit, TypeInvNext, PTL DEF Spec, OnlyProviderDataIsShown

(* An error is cleared only by the dataset of its own source. *)
THEOREM ErrorsStayUntilAnswered == Spec => ErrorClearedByItsOwnData
  <1>1. ASSUME TypeInv, [Next]_vars
        PROVE  [\A s \in source_errors \ source_errors' :
                  hand # NoData /\ Held'[s] = hand /\ s = Current]_vars
    <2>1. CASE Stores
      <3>1. PICK r \in Sources, status \in FreshnessStatus :
              /\ Loaded(r, status) /\ hand # NoData
              /\ Held' = [Held EXCEPT ![r] = hand]
        BY <1>1, <2>1, StoreStep
      <3>2. r = Current /\ source_errors' = source_errors \ {r}
        BY <3>1 DEF Loaded, MarkLoaded, ClearSourceError
      <3> QED BY <1>1, <3>1, <3>2, HeldType
    <2>2. CASE ~Stores
      <3>1. source_errors \subseteq source_errors'
        BY <1>1, <2>2 DEF Next, Proceed, Fails, BeginCall, FetchAnswers, FetchNotModified,
             FetchRaises, ContentMissing, ParseRaises, ExceptionLeaves, RecordSourceError, vars
      <3> QED BY <3>1
    <2> QED BY <2>1, <2>2
  <1> QED BY <1>1, TypeInvInit, TypeInvNext, PTL DEF Spec, ErrorClearedByItsOwnData

=============================================================================
