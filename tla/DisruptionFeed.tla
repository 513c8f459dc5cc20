---------------------------- MODULE DisruptionFeed ----------------------------
(***************************************************************************)
(* The reading of a document of road disruptions (parse_disruptions,       *)
(* ingestion/disruptions.py).  A feature is what is wrong with it, the     *)
(* bounds of its validity as written, in Berlin local time without offset, *)
(* and the instant its provider stored it.  What the bounds are read as is *)
(* a matter of the zone.                                                   *)
(***************************************************************************)
EXTENDS LocalTime, SnapshotView

(* Nothing; a field or bound that raises TypeError or ValueError, which    *)
(* rejects the feature; no object where one is expected, which raises      *)
(* AttributeError.                                                         *)
Shapes == {"sound", "malformed", "alien"}

Feature == [shape : Shapes, from : Nat \cup {NoTime}, to : Nat \cup {NoTime},
            stored : Nat \cup {NoTime}]

(* Mutant: of a reading that occurs twice, the second occurrence. *)
SourceLocal_Second(zone, written) ==
  IF written = NoTime THEN NoTime ELSE written - UtcOffset(zone, written, 1)

(* _parse_source_local: replace(tzinfo=...) leaves the fold at 0. *)
SourceLocal(zone, written) ==
  IF written = NoTime THEN NoTime ELSE written - UtcOffset(zone, written, 0)

(* Mutant: a validity of a single moment is rejected as well. *)
Rejected_SingleMoment(zone, feature) ==
  \/ feature.shape = "malformed"
  \/ /\ NoTime \notin {feature.from, feature.to}
     /\ SourceLocal(zone, feature.to) <= SourceLocal(zone, feature.from)

(* The feature does not become a record; the last condition is that of     *)
(* Disruption.validate_interval, on the converted bounds.                  *)
Rejected(zone, feature) ==
  \/ feature.shape = "malformed"
  \/ /\ NoTime \notin {feature.from, feature.to}
     /\ SourceLocal(zone, feature.to) < SourceLocal(zone, feature.from)

(* Mutant: only a missing end is worth a warning. *)
ParsedFeature_EndOnly(zone, feature) ==
  [valid_from     |-> SourceLocal(zone, feature.from),
   valid_until    |-> SourceLocal(zone, feature.to),
   observation_at |-> feature.stored,
   quality        |-> IF feature.to = NoTime THEN "warning" ELSE "info"]

(* The record of a feature; a missing bound is a quality warning. *)
ParsedFeature(zone, feature) ==
  [valid_from     |-> SourceLocal(zone, feature.from),
   valid_until    |-> SourceLocal(zone, feature.to),
   observation_at |-> feature.stored,
   quality        |-> IF NoTime \in {feature.from, feature.to} THEN "warning" ELSE "info"]

(* The exceptions that leave the parser. *)
Raises(zone, features, strict) ==
  \E feature \in features : \/ feature.shape = "alien"
                            \/ strict /\ Rejected(zone, feature)

ParsedDisruptions(zone, features) ==
  {ParsedFeature(zone, feature) : feature \in {f \in features : ~Rejected(zone, f)}}

=============================================================================
