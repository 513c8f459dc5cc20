-------------------------- MODULE MCPointInTimeState --------------------------
(* Feeds and archives of up to two records of two keys; a clock that is    *)
(* put back, and one that is put forward, by two ticks at the fourth.      *)
EXTENDS PointInTimeState

CONSTANTS k1, k2

MCKeys == {k1, k2}

MCCancellations == {k2}

MCUpdate(k, of) == [key |-> k, of |-> of]

(* The key without a stop is also that of an update that lacks its stop. *)
MCFeeds ==
  {<<>>, <<MCUpdate(k1, "stop")>>, <<MCUpdate(k1, "stop"), MCUpdate(k1, "stop")>>,
   <<MCUpdate(k1, "stop"), MCUpdate(k2, "trip")>>,
   <<MCUpdate(k2, "trip"), MCUpdate(k2, "stop")>>}

MCZones == {[transition |-> 4, before |-> 3, after |-> 1],
            [transition |-> 4, before |-> 1, after |-> 3]}

(* parse_traffic_csv rejects a second row of a detector and instant. *)
MCArchives ==
  LET row(k, t) == [key |-> k, observed_at |-> t,
                    quality |-> IF t = 3 THEN "warning" ELSE "info"] IN
  {<<row(k1, 0), row(k2, 2)>>, <<row(k1, 3), row(k1, 0)>>, <<row(k1, 0), row(k1, 3)>>}

MCFeature(shape, from, to, stored) ==
  [shape |-> shape, from |-> from, to |-> to, stored |-> stored]

(* A feature for every pair of readings around the transition. *)
MCFeatures ==
  {MCFeature("sound", f, u, NoTime) : f, u \in 3..8}
    \cup {MCFeature("malformed", 4, 5, NoTime)}

MCDisruptionLists ==
  {MCFeatures,
   {MCFeature("sound", 4, 6, 3), MCFeature("alien", 4, 6, NoTime)},
   {MCFeature("sound", NoTime, 6, 3), MCFeature("malformed", 6, 5, NoTime)},
   {MCFeature("sound", 4, NoTime, NoTime)}}

(* Single disruptions *)
MCStoredLists ==
  {{MCFeature("sound", f, u, o)} : f, u \in {NoTime, 5}, o \in {NoTime, 3}}

NoDisruptions == {{}}
NoArchives == {<<>>}
NoFeeds == {<<>>}

=============================================================================
