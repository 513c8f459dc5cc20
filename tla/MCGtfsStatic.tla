----------------------------- MODULE MCGtfsStatic -----------------------------
(* Archives of up to two rows a table, with defects in each of them. *)
EXTENDS GtfsStatic

CONSTANTS s1, s2, r1, r2, w1, w2, t1, t2

MCRow(id, defect) == [id |-> id, defect |-> defect]
MCTrip(id, route, service, defect) ==
  [id |-> id, route |-> route, service |-> service, defect |-> defect]
MCStopTime(trip, stop, arrival, departure, defect) ==
  [trip |-> trip, stop |-> stop, arrival |-> arrival, departure |-> departure,
   defect |-> defect]

(* An entity table: sound, with a duplicate, with a defective row. *)
MCEntities(a, b) ==
  {<<MCRow(a, "none"), MCRow(b, "none")>>, <<MCRow(a, "none"), MCRow(a, "none")>>,
   <<MCRow(a, "malformed"), MCRow(b, "none")>>}

MCCalendars == {<<MCRow(w1, "none")>>, <<MCRow(w1, "malformed")>>, <<>>}
MCDates == {<<MCRow(w2, "none")>>, <<MCRow(w2, "lacking")>>, NoTable}

MCTrips ==
  {<<MCTrip(t1, r1, w1, "none"), MCTrip(t1, r2, w1, "none")>>,
   <<MCTrip(t1, r1, w1, "none"), MCTrip(t2, r2, w2, "none")>>,
   <<MCTrip(t1, r1, w1, "malformed"), MCTrip(t2, r1, w1, "none")>>,
   <<MCTrip(t2, r2, w2, "lacking"), MCTrip(t1, r1, w1, "none")>>, <<>>, NoTable}

MCStopTimes ==
  {<<MCStopTime(t1, s1, <<25, 10, 0>>, <<>>, "none"),
     MCStopTime(t1, s2, <<>>, <<9, 59, 59>>, "none")>>,
   <<MCStopTime(t2, s2, <<9, 60, 0>>, <<>>, "none"),
     MCStopTime(t1, s1, <<9, 0, 0>>, <<9, 0>>, "none")>>,
   <<MCStopTime(t2, s1, <<>>, <<>>, "lacking"), MCStopTime(t2, s1, <<>>, <<>>, "none")>>,
   <<MCStopTime(t1, s2, <<>>, <<>>, "none"), MCStopTime(t1, s2, <<>>, <<>>, "none")>>,
   <<MCStopTime(t1, s1, <<>>, <<>>, "malformed")>>, <<>>, NoTable}

MCArchives ==
  {[stops |-> a, routes |-> b, calendar |-> c, calendar_dates |-> d, trips |-> e,
    stop_times |-> f] :
     a \in MCEntities(s1, s2), b \in MCEntities(r1, r2), c \in MCCalendars,
     d \in MCDates, e \in MCTrips, f \in MCStopTimes}

=============================================================================
