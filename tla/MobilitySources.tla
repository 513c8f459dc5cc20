--------------------------- MODULE MobilitySources ---------------------------
(***************************************************************************)
(* The source registry of the Berlin Urban Mobility Twin                   *)
(* (ingestion/sources.py) and the vocabulary RuntimeState uses for it      *)
(* (api/state.py, domain/models.py).  Source identifiers are the code's.   *)
(***************************************************************************)

Static            == "vbb-gtfs-static"
Realtime          == "vbb-gtfs-rt"
DetectorLocations == "berlin-traffic-detector-locations"
TrafficArchive    == "berlin-traffic-detectors"
RoadDisruptions   == "berlin-road-disruptions"

Sources == {Static, Realtime, DetectorLocations, TrafficArchive, RoadDisruptions}

(* RuntimeState.required_sources: the detector locations are not required. *)
RequiredSources == {Static, Realtime, TrafficArchive, RoadDisruptions}

(* What the code assigns to source_status; FreshnessStatus.EXPIRED is      *)
(* declared by the domain model and assigned nowhere.                      *)
FreshnessStatus == {"fresh", "stale", "unknown"}
NotFresh == FreshnessStatus \ {"fresh"}

(* A key that source_status does not have. *)
Absent == "absent"

=============================================================================
