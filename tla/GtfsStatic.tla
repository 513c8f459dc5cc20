------------------------------ MODULE GtfsStatic ------------------------------
(***************************************************************************)
(* The reading of a GTFS schedule: parse_gtfs_zip                          *)
(* (ingestion/gtfs_static.py).  The archive is the tables with their rows, *)
(* a row the identifiers in it and what is wrong with its other fields.    *)
(* The tables are read one after the other, a dictionary or list is filled *)
(* from each, and the rows of the last two are checked against what is     *)
(* held by then.                                                           *)
(***************************************************************************)
EXTENDS Integers, Sequences, FiniteSets

CONSTANTS
  Stops, Routes, Services, Trips,   \* identifiers
  Archives,                         \* the archives a provider can serve
  NoTable                           \* a table the archive does not have

Required == {"stops", "routes", "trips", "stop_times"}
Tables == Required \cup {"calendar", "calendar_dates"}

(* The order in which the tables are read. *)
After == [open     |-> "stops",          stops          |-> "routes",
          routes   |-> "calendar",       calendar       |-> "calendar_dates",
          calendar_dates |-> "trips",    trips          |-> "stop_times",
          stop_times     |-> "done"]

(* What fails in a row: a column the references are in, or one read after  *)
(* the references are checked.                                             *)
Defects == {"none", "lacking", "malformed"}

StopRow     == [id : Stops, defect : Defects]
RouteRow    == [id : Routes, defect : Defects]
ServiceRow  == [id : Services, defect : Defects]
TripRow     == [id : Trips, route : Routes, service : Services, defect : Defects]
StopTimeRow == [trip : Trips, stop : Stops, arrival : Seq(Nat), departure : Seq(Nat),
                defect : Defects]

ASSUME ArchivesAssumption ==
  \A given \in Archives :
    /\ given["stops"]          \in Seq(StopRow) \cup {NoTable}
    /\ given["routes"]         \in Seq(RouteRow) \cup {NoTable}
    /\ given["calendar"]       \in Seq(ServiceRow) \cup {NoTable}
    /\ given["calendar_dates"] \in Seq(ServiceRow) \cup {NoTable}
    /\ given["trips"]          \in Seq(TripRow) \cup {NoTable}
    /\ given["stop_times"]     \in Seq(StopTimeRow) \cup {NoTable}

VARIABLES
  archive, strict,       \* the call's arguments
  stage,                 \* "open", the table being read, "done" or "raised"
  row_number,            \* the next row of the table
  stops, routes,         \* the keys of the dictionaries
  services,              \* of calendars and calendar_dates together
  trips,                 \* the dictionary, as the set of its values
  stop_times,
  rows_read, invalid_rows

arguments == <<archive, strict>>
dataset == <<stops, routes, services, trips, stop_times>>
vars == <<arguments, stage, row_number, dataset, rows_read, invalid_rows>>

Init ==
  /\ archive \in Archives /\ strict \in {"strict", "lenient"}
  /\ stage = "open" /\ row_number = 1
  /\ stops = {} /\ routes = {} /\ services = {} /\ trips = {} /\ stop_times = <<>>
  /\ rows_read = 0 /\ invalid_rows = 0

-----------------------------------------------------------------------------
(* One row *)

(* A time of the service day, as the numbers between its colons; the hours *)
(* may exceed a day.                                                       *)
TimeParses(parts) == Len(parts) = 3 /\ parts[2] < 60 /\ parts[3] < 60

(* No time is given, or one that parses. *)
OptionalTimeParses(parts) == parts = <<>> \/ TimeParses(parts)

Sound(table, row) ==
  /\ row.defect = "none"
  /\ table = "stop_times" =>
       OptionalTimeParses(row.arrival) /\ OptionalTimeParses(row.departure)

(* Mutant: an unknown stop passes where defects do. *)
UnknownReference_StopsIfStrict(table, row) ==
  /\ row.defect # "lacking"
  /\ \/ /\ table = "trips"
        /\ \/ row.route \notin routes
           \/ services # {} /\ row.service \notin services
     \/ /\ table = "stop_times"
        /\ \/ row.trip \notin {trip.id : trip \in trips}
           \/ strict = "strict" /\ row.stop \notin stops

(* The row refers to what is not held; services are not asked about when   *)
(* none is.                                                                *)
UnknownReference(table, row) ==
  /\ row.defect # "lacking"
  /\ \/ /\ table = "trips"
        /\ \/ row.route \notin routes
           \/ services # {} /\ row.service \notin services
     \/ /\ table = "stop_times"
        /\ \/ row.trip \notin {trip.id : trip \in trips}
           \/ row.stop \notin stops

-----------------------------------------------------------------------------
(* The call *)

Rows(table) == IF archive[table] = NoTable THEN <<>> ELSE archive[table]

(* Mutant: an archive without any calendar passes. *)
Refused_ByTablesAlone == \E table \in Required : archive[table] = NoTable

(* Known before the first row: a table is missing, or there is no calendar.*)
Refused ==
  \/ \E table \in Required : archive[table] = NoTable
  \/ Rows("calendar") = <<>> /\ Rows("calendar_dates") = <<>>

Open ==
  /\ stage = "open"
  /\ stage' = IF Refused THEN "raised" ELSE After[stage]
  /\ UNCHANGED <<arguments, row_number, dataset, rows_read, invalid_rows>>

Reading == stage \in Tables /\ row_number <= Len(Rows(stage))

Current == Rows(stage)[row_number]

(* GtfsIntegrityError leaves the call in both modes. *)
BreakReference ==
  /\ Reading /\ UnknownReference(stage, Current)
  /\ rows_read' = rows_read + 1
  /\ stage' = "raised"
  /\ UNCHANGED <<arguments, row_number, dataset, invalid_rows>>

(* Mutant: only the references are strict. *)
Invalid_NeverRaises ==
  /\ Reading /\ ~UnknownReference(stage, Current) /\ ~Sound(stage, Current)
  /\ rows_read' = rows_read + 1 /\ invalid_rows' = invalid_rows + 1
  /\ row_number' = row_number + 1
  /\ UNCHANGED <<arguments, stage, dataset>>

Invalid ==
  /\ Reading /\ ~UnknownReference(stage, Current) /\ ~Sound(stage, Current)
  /\ rows_read' = rows_read + 1 /\ invalid_rows' = invalid_rows + 1
  /\ IF strict = "strict"
     THEN stage' = "raised" /\ UNCHANGED row_number
     ELSE row_number' = row_number + 1 /\ UNCHANGED stage
  /\ UNCHANGED <<arguments, dataset>>

(* A sound row is taken; a later row replaces an earlier one of its key. *)
Take(table) ==
  /\ stage = table /\ Reading
  /\ ~UnknownReference(stage, Current) /\ Sound(stage, Current)
  /\ rows_read' = rows_read + 1
  /\ row_number' = row_number + 1
  /\ UNCHANGED <<arguments, stage, invalid_rows>>

TakeStop ==
  /\ Take("stops")
  /\ stops' = stops \cup {Current.id}
  /\ UNCHANGED <<routes, services, trips, stop_times>>

TakeRoute ==
  /\ Take("routes")
  /\ routes' = routes \cup {Current.id}
  /\ UNCHANGED <<stops, services, trips, stop_times>>

TakeService ==
  /\ Take("calendar") \/ Take("calendar_dates")
  /\ services' = services \cup {Current.id}
  /\ UNCHANGED <<stops, routes, trips, stop_times>>

(* Mutant: the first row of a trip stays. *)
TakeTrip_First ==
  /\ Take("trips")
  /\ trips' = IF \E trip \in trips : trip.id = Current.id THEN trips
              ELSE trips \cup {Current}
  /\ UNCHANGED <<stops, routes, services, stop_times>>

TakeTrip ==
  /\ Take("trips")
  /\ trips' = {trip \in trips : trip.id # Current.id} \cup {Current}
  /\ UNCHANGED <<stops, routes, services, stop_times>>

TakeStopTime ==
  /\ Take("stop_times")
  /\ stop_times' = Append(stop_times, Current)
  /\ UNCHANGED <<stops, routes, services, trips>>

EndTable ==
  /\ stage \in Tables /\ row_number = Len(Rows(stage)) + 1
  /\ stage' = After[stage] /\ row_number' = 1
  /\ UNCHANGED <<arguments, dataset, rows_read, invalid_rows>>

Next ==
  \/ Open \/ BreakReference \/ Invalid
  \/ TakeStop \/ TakeRoute \/ TakeService \/ TakeTrip \/ TakeStopTime
  \/ EndTable

Spec == Init /\ [][Next]_vars

-----------------------------------------------------------------------------
(* Properties *)

TypeOK ==
  /\ archive \in Archives /\ strict \in {"strict", "lenient"}
  /\ stage \in DOMAIN After \cup {"done", "raised"}
  /\ row_number \in Nat \ {0}
  /\ stage = "open" => row_number = 1
  /\ stage \in Tables => row_number <= Len(Rows(stage)) + 1
  /\ stops \subseteq Stops /\ routes \subseteq Routes /\ services \subseteq Services
  /\ trips \subseteq TripRow /\ stop_times \in Seq(StopTimeRow)
  /\ rows_read \in Nat /\ invalid_rows \in Nat

(* The schedule is closed at every moment: a trip's route is held, and its *)
(* service if any service is; the trip and stop of every stop time are.    *)
ClosedUnderReference ==
  /\ \A trip \in trips : /\ trip.route \in routes
                         /\ services # {} => trip.service \in services
  /\ \A i \in DOMAIN stop_times : /\ \E trip \in trips : trip.id = stop_times[i].trip
                                  /\ stop_times[i].stop \in stops

(* The strict mode, which the pipeline uses, knows the service of every    *)
(* trip, though the check is left out where no service is held: between    *)
(* them the refusal of an archive without calendars and that of defective  *)
(* rows keep this from happening.                                          *)
StrictKnowsServices ==
  strict = "strict" => \A trip \in trips : trip.service \in services

SoundRows(table) == {i \in DOMAIN Rows(table) : Sound(table, Rows(table)[i])}
SoundIds(table)  == {Rows(table)[i].id : i \in SoundRows(table)}
Checked(table)   == {i \in DOMAIN Rows(table) : Rows(table)[i].defect # "lacking"}

(* What an archive must be to be read to its end, without the loops: all   *)
(* tables there, in the strict mode no defective row, and no reference to  *)
(* what no sound row, wherever in its table, has.                          *)
Readable ==
  /\ ~Refused
  /\ strict = "strict" => \A table \in Tables : SoundRows(table) = DOMAIN Rows(table)
  /\ \A i \in Checked("trips") :
       LET row == Rows("trips")[i]
           valid_services == SoundIds("calendar") \cup SoundIds("calendar_dates")
       IN  row.route \in SoundIds("routes")
           /\ (valid_services # {} => row.service \in valid_services)
  /\ \A i \in Checked("stop_times") :
       LET row == Rows("stop_times")[i] IN
       row.trip \in SoundIds("trips") /\ row.stop \in SoundIds("stops")

(* The call returns for the readable archives and raises for the others:   *)
(* so one dropped row takes the whole schedule with it, in the lenient     *)
(* mode as well, as soon as a row refers to it.                            *)
ReturnsIfReadable ==
  /\ stage = "done" => Readable
  /\ stage = "raised" => ~Readable

(* The list has the given rows of the table, each once, in their order. *)
InFileOrder(list, table, indices) ==
  \E order \in [DOMAIN list -> indices] :
    /\ {order[k] : k \in DOMAIN list} = indices
    /\ \A k \in DOMAIN list : list[k] = Rows(table)[order[k]]
    /\ \A j, k \in DOMAIN list : j < k => order[j] < order[k]

(* What is returned is every sound row and nothing else: of trips of one   *)
(* identifier the last, of stop times all, in the order of the file and    *)
(* repeated where it repeats them; and the diagnostics count the rest, so  *)
(* that no row is dropped unseen.                                          *)
SoundRowsAreHeld ==
  stage = "done" =>
    /\ stops = SoundIds("stops") /\ routes = SoundIds("routes")
    /\ services = SoundIds("calendar") \cup SoundIds("calendar_dates")
    /\ trips = {Rows("trips")[i] : i \in
         {i \in SoundRows("trips") : \A j \in SoundRows("trips") :
            Rows("trips")[j].id = Rows("trips")[i].id => j <= i}}
    /\ InFileOrder(stop_times, "stop_times", SoundRows("stop_times"))
    /\ invalid_rows = Cardinality(UNION {{table} \X (DOMAIN Rows(table) \ SoundRows(table)) :
                                       table \in Tables})

=============================================================================
