--------------------------- MODULE GtfsStaticProofs ---------------------------
(***************************************************************************)
(* Theorems about the reading of a GTFS schedule, for every archive.       *)
(***************************************************************************)
EXTENDS GtfsStatic, FiniteSetTheorems, TLAPS

(* The stages at which a table is behind the loop. *)
Behind ==
  [stops          |-> {"routes", "calendar", "calendar_dates", "trips", "stop_times", "done"},
   routes         |-> {"calendar", "calendar_dates", "trips", "stop_times", "done"},
   calendar       |-> {"calendar_dates", "trips", "stop_times", "done"},
   calendar_dates |-> {"trips", "stop_times", "done"},
   trips          |-> {"stop_times", "done"},
   stop_times     |-> {"done"}]

RowsRead(table) ==
  {i \in DOMAIN Rows(table) : \/ stage \in Behind[table]
                              \/ stage = table /\ i < row_number}

SoundRead(table) == {i \in RowsRead(table) : Sound(table, Rows(table)[i])}
HeldIds(table) == {Rows(table)[i].id : i \in SoundRead(table)}

(* What is held comes from the sound rows read so far. *)
HeldInv ==
  /\ stops = HeldIds("stops") /\ routes = HeldIds("routes")
  /\ services = HeldIds("calendar") \cup HeldIds("calendar_dates")
  /\ trips = {Rows("trips")[i] : i \in
       {i \in SoundRead("trips") : \A j \in SoundRead("trips") :
          Rows("trips")[j].id = Rows("trips")[i].id => j <= i}}
  /\ InFileOrder(stop_times, "stop_times", SoundRead("stop_times"))

(* No row read so far was a reason to raise. *)
NoCause ==
  /\ stage # "open" => ~Refused
  /\ strict = "strict" => \A table \in Tables : SoundRead(table) = RowsRead(table)
  /\ \A table \in Tables : \A i \in RowsRead(table) :
       ~UnknownReference(table, Rows(table)[i])

(* Every identifier of a sound trip is held, whichever row it is held from.*)
TripIdsInv == {trip.id : trip \in trips} = HeldIds("trips")

(* The rows counted as invalid. *)
InvalidRead == UNION {{table} \X (RowsRead(table) \ SoundRead(table)) : table \in Tables}
CountInv == IsFiniteSet(InvalidRead) /\ invalid_rows = Cardinality(InvalidRead)

LoopInv ==
  IF stage = "raised" THEN ~Readable ELSE HeldInv /\ TripIdsInv /\ CountInv /\ NoCause

-----------------------------------------------------------------------------
(* Types *)

LEMMA TableTypes ==
  ASSUME archive \in Archives, NEW table \in Tables
  PROVE  /\ Rows(table) \in Seq(IF table = "stops" THEN StopRow
                                ELSE IF table = "routes" THEN RouteRow
                                ELSE IF table \in {"calendar", "calendar_dates"} THEN ServiceRow
                                ELSE IF table = "trips" THEN TripRow ELSE StopTimeRow)
         /\ Len(Rows(table)) \in Nat /\ DOMAIN Rows(table) = 1..Len(Rows(table))
  <1>1. Rows(table) \in Seq(IF table = "stops" THEN StopRow
                            ELSE IF table = "routes" THEN RouteRow
                            ELSE IF table \in {"calendar", "calendar_dates"} THEN ServiceRow
                            ELSE IF table = "trips" THEN TripRow ELSE StopTimeRow)
    <2>1. CASE archive[table] = NoTable
      BY <2>1 DEF Rows
    <2>2. CASE archive[table] # NoTable
      BY <2>2, ArchivesAssumption DEF Rows, Tables, Required
    <2> QED BY <2>1, <2>2
  <1> QED BY <1>1

LEMMA SameRows ==
  ASSUME UNCHANGED arguments
  PROVE  (\A table : Rows(table)' = Rows(table)) /\ Refused' = Refused
  BY DEF arguments, Rows, Refused

LEMMA ReadingTypes ==
  ASSUME TypeOK, Reading
  PROVE  /\ stage \in Tables /\ row_number \in DOMAIN Rows(stage)
         /\ row_number \in Nat /\ row_number + 1 <= Len(Rows(stage)) + 1
  BY TableTypes DEF TypeOK, Reading

LEMMA TypeInit == Init => TypeOK
  BY DEF Init, TypeOK, After, Tables, Required

LEMMA TakeTyped ==
  ASSUME TypeOK, NEW table \in Tables, Take(table)
  PROVE  /\ stage = table /\ Reading /\ stage' = stage /\ row_number' = row_number + 1
         /\ row_number' \in Nat \ {0} /\ row_number' <= Len(Rows(stage)) + 1
         /\ archive' \in Archives /\ strict' \in {"strict", "lenient"}
         /\ UNCHANGED arguments /\ Rows(stage)' = Rows(stage)
         /\ rows_read' \in Nat /\ invalid_rows' \in Nat
  BY ReadingTypes, SameRows DEF TypeOK, Take, arguments

LEMMA TypeNext == TypeOK /\ [Next]_vars => TypeOK'
  <1> SUFFICES ASSUME TypeOK, [Next]_vars PROVE TypeOK'
    OBVIOUS
  <1>1. CASE Open
    <2>1. stage' \in {"raised", "stops"} /\ row_number' = 1 /\ "stops" \in Tables
      BY <1>1 DEF Open, TypeOK, After, Tables, Required
    <2>2. Len(Rows("stops")) \in Nat /\ Rows("stops")' = Rows("stops")
      BY <1>1, <2>1, TableTypes, SameRows DEF Open, TypeOK
    <2>3. stage' = "raised" \/ (stage' = "stops" /\ Len(Rows(stage)') \in Nat)
      BY <2>1, <2>2
    <2> QED BY <1>1, <2>1, <2>3 DEF TypeOK, Open, After, arguments, dataset, Tables, Required
  <1>2. CASE BreakReference
    BY <1>2 DEF TypeOK, BreakReference, arguments, dataset, Tables, Required
  <1>3. CASE Invalid
    BY <1>3, ReadingTypes, SameRows DEF TypeOK, Invalid, arguments, dataset, Tables, Required
  <1>4. CASE TakeStop
    <2>1. Current \in StopRow
      BY <1>4, TakeTyped, ReadingTypes, TableTypes DEF TakeStop, Current, Take, Tables, Required, TypeOK
    <2> QED BY <1>4, <2>1, TakeTyped DEF TakeStop, TypeOK, StopRow, Tables, Required
  <1>5. CASE TakeRoute
    <2>1. Current \in RouteRow
      BY <1>5, TakeTyped, ReadingTypes, TableTypes DEF TakeRoute, Current, Take, Tables, Required, TypeOK
    <2> QED BY <1>5, <2>1, TakeTyped DEF TakeRoute, TypeOK, RouteRow, Tables, Required
  <1>6. CASE TakeService
    <2>1. stage \in {"calendar", "calendar_dates"} /\ Take(stage)
      BY <1>6 DEF TakeService, Take
    <2>2. Current \in ServiceRow
      BY <2>1, TakeTyped, ReadingTypes, TableTypes DEF Current, Take, Tables, Required, TypeOK
    <2> QED BY <1>6, <2>1, <2>2, TakeTyped DEF TakeService, TypeOK, ServiceRow, Tables, Required
  <1>7. CASE TakeTrip
    <2>1. Current \in TripRow
      BY <1>7, TakeTyped, ReadingTypes, TableTypes DEF TakeTrip, Current, Take, Tables, Required, TypeOK
    <2> QED BY <1>7, <2>1, TakeTyped DEF TakeTrip, TypeOK, Tables, Required
  <1>8. CASE TakeStopTime
    <2>1. Current \in StopTimeRow
      BY <1>8, TakeTyped, ReadingTypes, TableTypes DEF TakeStopTime, Current, Take, Tables, Required, TypeOK
    <2>2. stop_times' \in Seq(StopTimeRow)
      BY <1>8, <2>1 DEF TakeStopTime, TypeOK
    <2> QED BY <1>8, <2>2, TakeTyped DEF TakeStopTime, TypeOK, Tables, Required
  <1>9. CASE EndTable
    BY <1>9, TableTypes, SameRows DEF TypeOK, EndTable, After, arguments, dataset, Tables, Required
  <1>10. CASE UNCHANGED vars
    BY <1>10, SameRows DEF TypeOK, vars, arguments, dataset
  <1> QED BY <1>1, <1>2, <1>3, <1>4, <1>5, <1>6, <1>7, <1>8, <1>9, <1>10 DEF Next

(* Every variable of the reading keeps its type, whatever the archive. *)
THEOREM TypeCorrect == Spec => []TypeOK
  BY TypeInit, TypeNext, PTL DEF Spec

-----------------------------------------------------------------------------
(* How far the loop is *)

LEMMA AdvanceReads ==
  ASSUME TypeOK, Reading, UNCHANGED <<arguments, stage>>, row_number' = row_number + 1,
         NEW table \in Tables
  PROVE  /\ RowsRead(table)' = IF table = stage THEN RowsRead(table) \cup {row_number}
                               ELSE RowsRead(table)
         /\ SoundRead(table)' = IF table = stage /\ Sound(stage, Current)
                                THEN SoundRead(table) \cup {row_number} ELSE SoundRead(table)
         /\ \A i \in RowsRead(stage) : i \in Nat /\ i < row_number
  <1>1. /\ row_number \in DOMAIN Rows(stage) /\ row_number \in Nat
        /\ DOMAIN Rows(stage) = 1..Len(Rows(stage)) /\ Len(Rows(stage)) \in Nat
    BY ReadingTypes, TableTypes DEF TypeOK
  <1>2. DOMAIN Rows(table) = 1..Len(Rows(table)) /\ Len(Rows(table)) \in Nat
    BY TableTypes DEF TypeOK
  <1>3. stage \in Tables /\ stage \notin Behind[stage]
    BY DEF Reading, Behind, Tables, Required
  <1>4. Rows(table)' = Rows(table)
    BY SameRows
  <1>5. RowsRead(table)' = IF table = stage THEN RowsRead(table) \cup {row_number}
                           ELSE RowsRead(table)
    BY <1>1, <1>2, <1>3, <1>4 DEF RowsRead
  <1>6. SoundRead(table)' = {i \in RowsRead(table)' : Sound(table, Rows(table)[i])}
    BY <1>4 DEF SoundRead
  <1>7. SoundRead(table)' = IF table = stage /\ Sound(stage, Current)
                            THEN SoundRead(table) \cup {row_number} ELSE SoundRead(table)
    BY <1>5, <1>6 DEF SoundRead, Current
  <1>8. \A i \in RowsRead(stage) : i \in Nat /\ i < row_number
    BY <1>1, <1>3 DEF RowsRead
  <1> QED BY <1>5, <1>7, <1>8

LEMMA TurnReads ==
  ASSUME TypeOK, UNCHANGED arguments, row_number' = 1,
         \/ stage = "open" /\ stage' = "stops"
         \/ /\ stage \in Tables /\ row_number = Len(Rows(stage)) + 1
            /\ stage' = After[stage],
         NEW table \in Tables
  PROVE  RowsRead(table)' = RowsRead(table) /\ SoundRead(table)' = SoundRead(table)
  <1>1. DOMAIN Rows(table) = 1..Len(Rows(table)) /\ Len(Rows(table)) \in Nat
    BY TableTypes DEF TypeOK
  <1>2. Rows(table)' = Rows(table)
    BY SameRows
  <1>3. \A i \in DOMAIN Rows(table) :
           (stage' \in Behind[table] \/ (stage' = table /\ i < 1))
             <=> (stage \in Behind[table] \/ (stage = table /\ i < row_number))
    <2> SUFFICES ASSUME NEW i \in DOMAIN Rows(table)
                 PROVE  stage' \in Behind[table]
                          <=> (stage \in Behind[table] \/ (stage = table /\ i < row_number))
      BY <1>1
    <2>1. CASE stage = "open"
      BY <2>1 DEF Behind, Tables, Required
    <2>2. CASE stage \in Tables
      <3>1. stage = table => i < row_number
        BY <1>1, <2>2 DEF Tables, Required
      <3>2. stage' \in Behind[table] <=> (stage \in Behind[table] \/ stage = table)
        BY <2>2 DEF Behind, After, Tables, Required
      <3> QED BY <3>1, <3>2
    <2> QED BY <2>1, <2>2
  <1>4. RowsRead(table)' = RowsRead(table)
    BY <1>2, <1>3 DEF RowsRead
  <1> QED BY <1>2, <1>4 DEF SoundRead

LEMMA StageReads ==
  ASSUME TypeOK
  PROVE  /\ stage \in {"open", "stops", "routes", "calendar", "calendar_dates"} =>
              RowsRead("trips") = {} /\ RowsRead("stop_times") = {}
         /\ stage = "trips" => RowsRead("stop_times") = {}
         /\ stage \in {"trips", "stop_times", "done"} =>
              \A table \in {"stops", "routes", "calendar", "calendar_dates"} :
                 SoundRead(table) = SoundRows(table)
         /\ stage \in {"stop_times", "done"} => SoundRead("trips") = SoundRows("trips")
         /\ stage = "done" => \A table \in Tables : RowsRead(table) = DOMAIN Rows(table)
                                                   /\ SoundRead(table) = SoundRows(table)
         /\ stage = "open" => \A table \in Tables : RowsRead(table) = {}
  BY DEF RowsRead, SoundRead, SoundRows, Behind, Tables, Required

LEMMA HeldIdsUnchanged ==
  ASSUME UNCHANGED arguments, NEW table, SoundRead(table)' = SoundRead(table)
  PROVE  HeldIds(table)' = HeldIds(table)
  BY SameRows DEF HeldIds

LEMMA HeldIdsGrow ==
  ASSUME UNCHANGED arguments, NEW table, NEW n,
         SoundRead(table)' = SoundRead(table) \cup {n}
  PROVE  HeldIds(table)' = HeldIds(table) \cup {Rows(table)[n].id}
  <1>1. Rows(table)' = Rows(table)
    BY SameRows
  <1> QED BY <1>1 DEF HeldIds

-----------------------------------------------------------------------------
(* The steps that go on *)

LEMMA TakeReads ==
  ASSUME TypeOK, NEW table \in Tables, Take(table)
  PROVE  /\ SoundRead(table)' = SoundRead(table) \cup {row_number}
         /\ HeldIds(table)' = HeldIds(table) \cup {Current.id}
         /\ RowsRead(table)' = RowsRead(table) \cup {row_number}
         /\ \A other \in Tables \ {table} :
              /\ SoundRead(other)' = SoundRead(other) /\ HeldIds(other)' = HeldIds(other)
              /\ RowsRead(other)' = RowsRead(other)
         /\ Current = Rows(table)[row_number]
         /\ \A i \in SoundRead(table) : i \in Nat /\ i < row_number
  <1>1. stage = table /\ Reading /\ UNCHANGED <<arguments, stage>> /\ row_number' = row_number + 1
        /\ Sound(stage, Current)
    BY DEF Take
  <1>2. Current = Rows(table)[row_number]
    BY <1>1 DEF Current
  <1>3. /\ SoundRead(table)' = SoundRead(table) \cup {row_number}
        /\ RowsRead(table)' = RowsRead(table) \cup {row_number}
        /\ \A i \in RowsRead(table) : i \in Nat /\ i < row_number
    BY <1>1, AdvanceReads
  <1>4. \A other \in Tables \ {table} :
           SoundRead(other)' = SoundRead(other) /\ RowsRead(other)' = RowsRead(other)
    BY <1>1, AdvanceReads
  <1>5. HeldIds(table)' = HeldIds(table) \cup {Current.id}
    BY <1>1, <1>2, <1>3, HeldIdsGrow
  <1>6. \A other \in Tables \ {table} : HeldIds(other)' = HeldIds(other)
    BY <1>1, <1>4, HeldIdsUnchanged
  <1> QED BY <1>2, <1>3, <1>4, <1>5, <1>6 DEF SoundRead

LEMMA TakeNoCause ==
  ASSUME TypeOK, NoCause, NEW table \in Tables, Take(table),
         \/ table \in {"stops", "routes", "calendar", "calendar_dates"}
         \/ table = "trips" /\ UNCHANGED <<routes, services>>
         \/ table = "stop_times" /\ UNCHANGED <<stops, routes, services, trips>>
  PROVE  NoCause'
  <1>1. stage = table /\ stage' = stage /\ stage # "open" /\ UNCHANGED arguments
        /\ ~UnknownReference(table, Current) /\ strict' = strict
    BY DEF Take, Tables, Required, arguments
  <1>2. Refused' = Refused /\ \A t : Rows(t)' = Rows(t)
    BY <1>1, SameRows
  <1>3. ASSUME strict = "strict", NEW t \in Tables PROVE SoundRead(t)' = RowsRead(t)'
    BY <1>3, TakeReads DEF NoCause
  <1>4. ASSUME NEW t \in Tables, NEW i \in RowsRead(t)'
        PROVE  ~UnknownReference(t, Rows(t)[i])'
    <2> DEFINE row == Rows(t)[i]
    <2>1. row' = row
      BY <1>2
    <2>2. CASE t \notin {"trips", "stop_times"}
      BY <2>2 DEF UnknownReference
    <2>3. CASE t \in {"trips", "stop_times"}
      <3>1. (i \in RowsRead(t) \/ (t = table /\ i = row_number))
        BY TakeReads
      <3>2. ~UnknownReference(t, row)
        BY <1>1, <3>1, TakeReads DEF NoCause
      <3>3. CASE t = table
        BY <2>1, <2>3, <3>2, <3>3 DEF UnknownReference
      <3>4. CASE t # table
        <4>1. RowsRead(t) # {}
          BY <3>1, <3>4
        <4>2. table \notin {"stops", "routes", "calendar", "calendar_dates"}
              /\ ~(table = "trips" /\ t = "stop_times")
          BY <1>1, <2>3, <4>1, StageReads
        <4>3. table = "stop_times" /\ t = "trips"
          BY <2>3, <3>4, <4>2 DEF Tables, Required
        <4> QED BY <2>1, <3>2, <4>3 DEF UnknownReference
      <3> QED BY <3>3, <3>4
    <2> QED BY <2>2, <2>3
  <1> QED BY <1>1, <1>2, <1>3, <1>4 DEF NoCause

(* A row behind all those listed goes to the end of the list. *)
LEMMA AppendInFileOrder ==
  ASSUME NEW list, NEW R, list \in Seq(R), NEW table, NEW indices, NEW n \in Nat,
         \A i \in indices : i \in Nat /\ i < n,
         InFileOrder(list, table, indices)
  PROVE  InFileOrder(Append(list, Rows(table)[n]), table, indices \cup {n})
  <1> DEFINE longer == Append(list, Rows(table)[n])
  <1>1. PICK order \in [DOMAIN list -> indices] :
          /\ {order[k] : k \in DOMAIN list} = indices
          /\ \A k \in DOMAIN list : list[k] = Rows(table)[order[k]]
          /\ \A j, k \in DOMAIN list : j < k => order[j] < order[k]
    BY DEF InFileOrder
  <1>2. /\ DOMAIN list = 1..Len(list) /\ Len(list) \in Nat
        /\ DOMAIN longer = 1..(Len(list) + 1)
        /\ \A k \in DOMAIN list : longer[k] = list[k]
        /\ longer[Len(list) + 1] = Rows(table)[n]
    <2>1. longer \in Seq(R \cup {Rows(table)[n]}) /\ list \in Seq(R \cup {Rows(table)[n]})
      OBVIOUS
    <2> QED BY <2>1
  <1> HIDE DEF longer
  <1> DEFINE further == [k \in DOMAIN longer |-> IF k \in DOMAIN list THEN order[k] ELSE n]
  <1>3. further \in [DOMAIN longer -> indices \cup {n}]
    BY <1>1, <1>2
  <1>4. /\ \A k \in DOMAIN list : further[k] = order[k] /\ order[k] \in indices
        /\ further[Len(list) + 1] = n
        /\ DOMAIN longer = DOMAIN list \cup {Len(list) + 1}
    BY <1>1, <1>2
  <1> HIDE DEF further
  <1>5. {further[k] : k \in DOMAIN longer} = indices \cup {n}
    BY <1>1, <1>4
  <1>6. \A k \in DOMAIN longer : longer[k] = Rows(table)[further[k]]
    BY <1>1, <1>2, <1>4
  <1>7. ASSUME NEW j \in DOMAIN longer, NEW k \in DOMAIN longer, j < k
        PROVE  further[j] < further[k]
    <2>1. j \in DOMAIN list
      BY <1>2, <1>7
    <2> QED BY <1>1, <1>4, <1>7, <2>1
  <1>8. InFileOrder(longer, table, indices \cup {n})
    BY <1>3, <1>5, <1>6, <1>7 DEF InFileOrder
  <1> QED BY <1>8 DEF longer

LEMMA TakeHeld ==
  ASSUME TypeOK, HeldInv, TakeStop \/ TakeRoute \/ TakeService \/ TakeTrip \/ TakeStopTime
  PROVE  HeldInv'
  <1> DEFINE last(S) == {i \in S : \A j \in S :
                           Rows("trips")[j].id = Rows("trips")[i].id => j <= i}
  <1>1. UNCHANGED arguments /\ \A t : Rows(t)' = Rows(t)
    BY SameRows DEF TakeStop, TakeRoute, TakeService, TakeTrip, TakeStopTime, Take
  <1> HIDE DEF last
  <1>2. HeldInv <=> /\ stops = HeldIds("stops") /\ routes = HeldIds("routes")
                    /\ services = HeldIds("calendar") \cup HeldIds("calendar_dates")
                    /\ trips = {Rows("trips")[i] : i \in last(SoundRead("trips"))}
                    /\ InFileOrder(stop_times, "stop_times", SoundRead("stop_times"))
    BY DEF HeldInv, last
  <1>3. HeldInv' <=> /\ stops' = HeldIds("stops")' /\ routes' = HeldIds("routes")'
                     /\ services' = HeldIds("calendar")' \cup HeldIds("calendar_dates")'
                     /\ trips' = {Rows("trips")[i] : i \in last(SoundRead("trips")')}
                     /\ InFileOrder(stop_times', "stop_times", SoundRead("stop_times")')
    BY <1>1 DEF HeldInv, last, InFileOrder
  <1>4. CASE TakeStop
    BY <1>2, <1>3, <1>4, TakeReads DEF TakeStop, Tables, Required
  <1>5. CASE TakeRoute
    BY <1>2, <1>3, <1>5, TakeReads DEF TakeRoute, Tables, Required
  <1>6. CASE TakeService
    <2>1. CASE Take("calendar")
      BY <1>2, <1>3, <1>6, <2>1, TakeReads DEF TakeService, Tables, Required
    <2>2. CASE Take("calendar_dates")
      BY <1>2, <1>3, <1>6, <2>2, TakeReads DEF TakeService, Tables, Required
    <2> QED BY <1>6, <2>1, <2>2 DEF TakeService
  <1>7. CASE TakeTrip
    <2> DEFINE S == SoundRead("trips")
               row(i) == Rows("trips")[i]
    <2>1. /\ SoundRead("trips")' = S \cup {row_number} /\ Current = row(row_number)
          /\ \A i \in S : i \in Nat /\ i < row_number
          /\ \A other \in Tables \ {"trips"} : SoundRead(other)' = SoundRead(other)
                                              /\ HeldIds(other)' = HeldIds(other)
      BY <1>7, TakeReads DEF TakeTrip, Tables, Required
    <2>2. row_number \in Nat
      BY DEF TypeOK
    <2>3. last(S \cup {row_number})
            = {i \in last(S) : row(i).id # Current.id} \cup {row_number}
      BY <2>1, <2>2 DEF last
    <2>4. trips' = {trip \in trips : trip.id # Current.id} \cup {Current}
          /\ UNCHANGED <<stops, routes, services, stop_times>>
      BY <1>7 DEF TakeTrip
    <2>5. trips = {row(i) : i \in last(S)}
      BY <1>2
    <2>6. trips' = {row(i) : i \in last(S \cup {row_number})}
      <3>1. Current = row(row_number)
        BY <2>1
      <3>2. trips' = {trip \in {row(i) : i \in last(S)} : trip.id # Current.id} \cup {Current}
        BY <2>4, <2>5
      <3> HIDE DEF S, row
      <3> QED BY <2>3, <3>1, <3>2
    <2> QED BY <1>2, <1>3, <2>1, <2>4, <2>6 DEF Tables, Required
  <1>8. CASE TakeStopTime
    <2>1. /\ SoundRead("stop_times")' = SoundRead("stop_times") \cup {row_number}
          /\ Current = Rows("stop_times")[row_number]
          /\ \A other \in Tables \ {"stop_times"} : SoundRead(other)' = SoundRead(other)
                                                   /\ HeldIds(other)' = HeldIds(other)
      BY <1>8, TakeReads DEF TakeStopTime, Tables, Required
    <2>2. stop_times' = Append(stop_times, Current) /\ UNCHANGED <<stops, routes, services, trips>>
      BY <1>8 DEF TakeStopTime
    <2>3. stop_times \in Seq(StopTimeRow)
      BY DEF TypeOK
    <2>4. InFileOrder(stop_times', "stop_times", SoundRead("stop_times") \cup {row_number})
      <3>1. row_number \in Nat /\ InFileOrder(stop_times, "stop_times", SoundRead("stop_times"))
        BY <1>2 DEF TypeOK
      <3>2. \A i \in SoundRead("stop_times") : i \in Nat /\ i < row_number
        BY <1>8, TakeReads DEF TakeStopTime, Tables, Required
      <3> QED BY <2>1, <2>2, <2>3, <3>1, <3>2, AppendInFileOrder
    <2> QED BY <1>2, <1>3, <2>1, <2>2, <2>4 DEF Tables, Required
  <1> QED BY <1>4, <1>5, <1>6, <1>7, <1>8

-----------------------------------------------------------------------------
(* The other conjuncts and steps of the loop *)

LEMMA SameInvalidRead ==
  ASSUME \A t \in Tables : RowsRead(t)' \ SoundRead(t)' = RowsRead(t) \ SoundRead(t),
         CountInv, UNCHANGED invalid_rows
  PROVE  CountInv'
  <1>1. InvalidRead' = InvalidRead
    BY DEF InvalidRead
  <1> QED BY <1>1 DEF CountInv

LEMMA TakeCounted ==
  ASSUME TypeOK, CountInv, NEW table \in Tables, Take(table)
  PROVE  CountInv'
  <1>1. UNCHANGED invalid_rows
    BY DEF Take
  <1>2. \A i \in RowsRead(table) : i \in Nat /\ i < row_number
    BY AdvanceReads DEF Take
  <1>3. row_number \in Nat
    BY DEF TypeOK
  <1>4. RowsRead(table)' \ SoundRead(table)' = RowsRead(table) \ SoundRead(table)
    BY <1>2, <1>3, TakeReads
  <1>5. \A t \in Tables : RowsRead(t)' \ SoundRead(t)' = RowsRead(t) \ SoundRead(t)
    BY <1>4, TakeReads
  <1> QED BY <1>1, <1>5, SameInvalidRead

LEMMA TakeTripIds ==
  ASSUME TypeOK, TripIdsInv, TakeStop \/ TakeRoute \/ TakeService \/ TakeTrip \/ TakeStopTime
  PROVE  TripIdsInv'
  <1>1. CASE TakeTrip
    <2>1. HeldIds("trips")' = HeldIds("trips") \cup {Current.id}
      BY <1>1, TakeReads DEF TakeTrip, Tables, Required
    <2>2. trips' = {trip \in trips : trip.id # Current.id} \cup {Current}
      BY <1>1 DEF TakeTrip
    <2>3. {trip.id : trip \in trips'} = {trip.id : trip \in trips} \cup {Current.id}
      BY <2>2
    <2> QED BY <2>1, <2>3 DEF TripIdsInv
  <1>2. CASE TakeStop \/ TakeRoute \/ TakeService \/ TakeStopTime
    <2>1. trips' = trips /\ \E table \in Tables \ {"trips"} : Take(table)
      BY <1>2 DEF TakeStop, TakeRoute, TakeService, TakeStopTime, Tables, Required
    <2>2. HeldIds("trips")' = HeldIds("trips")
      BY <2>1, TakeReads DEF Tables, Required
    <2> QED BY <2>1, <2>2 DEF TripIdsInv
  <1> QED BY <1>1, <1>2

LEMMA TakeContinues ==
  ASSUME TypeOK, HeldInv, TripIdsInv, CountInv, NoCause,
         TakeStop \/ TakeRoute \/ TakeService \/ TakeTrip \/ TakeStopTime
  PROVE  stage' # "raised" /\ HeldInv' /\ TripIdsInv' /\ CountInv' /\ NoCause'
  <1>1. PICK table \in Tables :
          /\ Take(table)
          /\ \/ table \in {"stops", "routes", "calendar", "calendar_dates"}
             \/ table = "trips" /\ UNCHANGED <<routes, services>>
             \/ table = "stop_times" /\ UNCHANGED <<stops, routes, services, trips>>
    BY DEF TakeStop, TakeRoute, TakeService, TakeTrip, TakeStopTime, Tables, Required
  <1>2. stage' # "raised"
    BY <1>1 DEF Take, Tables, Required
  <1>3. NoCause'
    BY <1>1, TakeNoCause
  <1>4. CountInv'
    BY <1>1, TakeCounted
  <1> QED BY <1>2, <1>3, <1>4, TakeHeld, TakeTripIds

(* What is held stays what it should be where no sound row is read. *)
LEMMA HeldStays ==
  ASSUME UNCHANGED <<arguments, dataset>>, HeldInv, TripIdsInv,
         \A t \in Tables : SoundRead(t)' = SoundRead(t)
  PROVE  HeldInv' /\ TripIdsInv'
  <1>1. \A t : Rows(t)' = Rows(t)
    BY SameRows
  <1>2. \A t \in Tables : HeldIds(t)' = HeldIds(t)
    BY HeldIdsUnchanged
  <1>3. UNCHANGED <<stops, routes, services, trips, stop_times>>
    BY DEF dataset
  <1>4. \A t \in Tables : SoundRead(t)' = SoundRead(t)
    OBVIOUS
  <1>5. /\ HeldIds("stops")' = HeldIds("stops") /\ HeldIds("routes")' = HeldIds("routes")
        /\ HeldIds("calendar")' = HeldIds("calendar") /\ HeldIds("trips")' = HeldIds("trips")
        /\ HeldIds("calendar_dates")' = HeldIds("calendar_dates")
        /\ SoundRead("trips")' = SoundRead("trips")
        /\ SoundRead("stop_times")' = SoundRead("stop_times")
    BY <1>2, <1>4 DEF Tables, Required
  <1>6. /\ Rows("trips")' = Rows("trips") /\ Rows("stop_times")' = Rows("stop_times")
    BY <1>1
  <1>7. TripIdsInv'
    BY <1>3, <1>5 DEF TripIdsInv
  <1> QED BY <1>3, <1>5, <1>6, <1>7 DEF HeldInv, InFileOrder

LEMMA InvalidContinues ==
  ASSUME TypeOK, HeldInv, TripIdsInv, CountInv, NoCause, Invalid, strict = "lenient"
  PROVE  stage' # "raised" /\ HeldInv' /\ TripIdsInv' /\ CountInv' /\ NoCause'
  <1>1. /\ Reading /\ UNCHANGED <<arguments, stage>> /\ row_number' = row_number + 1
        /\ ~UnknownReference(stage, Current) /\ ~Sound(stage, Current)
        /\ UNCHANGED dataset /\ invalid_rows' = invalid_rows + 1
    BY DEF Invalid
  <1>2. stage \in Tables /\ row_number \in Nat
    BY <1>1 DEF Reading, TypeOK
  <1>3. \A t \in Tables :
          /\ RowsRead(t)' = IF t = stage THEN RowsRead(t) \cup {row_number} ELSE RowsRead(t)
          /\ SoundRead(t)' = SoundRead(t)
    BY <1>1, AdvanceReads
  <1>4. HeldInv' /\ TripIdsInv'
    BY <1>1, <1>3, HeldStays
  <1>5. CountInv'
    <2>1. \A i \in RowsRead(stage) : i \in Nat /\ i < row_number
      BY <1>1, <1>2, AdvanceReads
    <2>2. row_number \notin RowsRead(stage) /\ row_number \notin SoundRead(stage)
      BY <1>2, <2>1 DEF SoundRead
    <2>3. <<stage, row_number>> \notin InvalidRead
      BY <2>2 DEF InvalidRead
    <2>4. InvalidRead' = InvalidRead \cup {<<stage, row_number>>}
      <3>1. ASSUME NEW t \in Tables
            PROVE  RowsRead(t)' \ SoundRead(t)' =
                     IF t = stage THEN (RowsRead(t) \ SoundRead(t)) \cup {row_number}
                     ELSE RowsRead(t) \ SoundRead(t)
        BY <1>3, <2>2
      <3> QED BY <1>2, <3>1 DEF InvalidRead
    <2> QED BY <1>1, <2>3, <2>4, FS_AddElement DEF CountInv
  <1>6. NoCause'
    <2>1. Refused' = Refused /\ \A t : Rows(t)' = Rows(t)
      BY <1>1, SameRows
    <2>2. strict' = "lenient"
      BY <1>1 DEF arguments
    <2>3. \A t, row : UnknownReference(t, row)' = UnknownReference(t, row)
      BY <1>1 DEF UnknownReference, dataset, arguments
    <2>4. Current = Rows(stage)[row_number]
      BY DEF Current
    <2>5. ASSUME NEW t \in Tables, NEW i \in RowsRead(t)'
          PROVE  ~UnknownReference(t, Rows(t)[i])'
      <3>1. ~UnknownReference(t, Rows(t)[i])
        BY <1>1, <1>3, <2>4 DEF NoCause
      <3> QED BY <2>1, <2>3, <3>1
    <2> QED BY <1>1, <2>1, <2>2, <2>5 DEF NoCause, Reading, Tables, Required
  <1> QED BY <1>1, <1>2, <1>4, <1>5, <1>6 DEF Tables, Required

LEMMA TurnContinues ==
  ASSUME TypeOK, HeldInv, TripIdsInv, CountInv, NoCause, (Open /\ ~Refused) \/ EndTable
  PROVE  stage' # "raised" /\ HeldInv' /\ TripIdsInv' /\ CountInv' /\ NoCause'
  <1>1. /\ UNCHANGED <<arguments, dataset, invalid_rows>> /\ row_number' = 1 /\ ~Refused
        /\ \/ stage = "open" /\ stage' = "stops"
           \/ /\ stage \in Tables /\ row_number = Len(Rows(stage)) + 1
              /\ stage' = After[stage]
    BY DEF Open, EndTable, After, TypeOK, NoCause, Tables, Required
  <1>2. stage' # "raised"
    BY <1>1 DEF After, Tables, Required
  <1>3. \A t \in Tables : RowsRead(t)' = RowsRead(t) /\ SoundRead(t)' = SoundRead(t)
    BY <1>1, TurnReads
  <1>4. HeldInv' /\ TripIdsInv'
    BY <1>1, <1>3, HeldStays
  <1>5. CountInv'
    BY <1>1, <1>3, SameInvalidRead
  <1>6. NoCause'
    <2>1. Refused' = Refused /\ (\A t : Rows(t)' = Rows(t)) /\ strict' = strict
      BY <1>1, SameRows DEF arguments
    <2>2. \A t, row : UnknownReference(t, row)' = UnknownReference(t, row)
      BY <1>1 DEF UnknownReference, dataset
    <2> QED BY <1>1, <1>3, <2>1, <2>2 DEF NoCause
  <1> QED BY <1>2, <1>4, <1>5, <1>6

-----------------------------------------------------------------------------
(* The steps that raise *)

LEMMA SameReadable ==
  ASSUME UNCHANGED arguments
  PROVE  Readable' = Readable
  <1>1. Refused' = Refused /\ (\A t : Rows(t)' = Rows(t)) /\ strict' = strict
    BY SameRows DEF arguments
  <1>2. \A t : /\ SoundRows(t)' = SoundRows(t) /\ SoundIds(t)' = SoundIds(t)
               /\ Checked(t)' = Checked(t)
    BY <1>1 DEF SoundRows, SoundIds, Checked
  <1> QED BY <1>1, <1>2 DEF Readable

LEMMA HeldIdsComplete ==
  ASSUME NEW table, SoundRead(table) = SoundRows(table)
  PROVE  HeldIds(table) = SoundIds(table)
  BY DEF HeldIds, SoundIds

(* At the tables with references, what they are looked up in is complete. *)
LEMMA LookedUpInAll ==
  ASSUME TypeOK, HeldInv, TripIdsInv
  PROVE  /\ stage \in {"trips", "stop_times", "done"} =>
              /\ stops = SoundIds("stops") /\ routes = SoundIds("routes")
              /\ services = SoundIds("calendar") \cup SoundIds("calendar_dates")
         /\ stage \in {"stop_times", "done"} =>
              {trip.id : trip \in trips} = SoundIds("trips")
  BY StageReads, HeldIdsComplete DEF HeldInv, TripIdsInv

LEMMA UnknownNotReadable ==
  ASSUME TypeOK, HeldInv, TripIdsInv, BreakReference
  PROVE  ~Readable
  <1>1. /\ Reading /\ UnknownReference(stage, Current)
        /\ Current = Rows(stage)[row_number] /\ row_number \in DOMAIN Rows(stage)
    BY ReadingTypes DEF BreakReference, Current
  <1>2. stage \in {"trips", "stop_times"} /\ row_number \in Checked(stage)
    BY <1>1 DEF UnknownReference, Checked
  <1>3. CASE stage = "trips"
    BY <1>1, <1>2, <1>3, LookedUpInAll DEF Readable, UnknownReference
  <1>4. CASE stage = "stop_times"
    BY <1>1, <1>2, <1>4, LookedUpInAll DEF Readable, UnknownReference
  <1> QED BY <1>2, <1>3, <1>4

LEMMA StrictNotReadable ==
  ASSUME TypeOK, Invalid, strict = "strict"
  PROVE  ~Readable
  <1>1. /\ stage \in Tables /\ row_number \in DOMAIN Rows(stage)
        /\ ~Sound(stage, Rows(stage)[row_number])
    BY ReadingTypes DEF Invalid, Current
  <1> QED BY <1>1 DEF Readable, SoundRows

LEMMA DoneReadable ==
  ASSUME TypeOK, HeldInv, TripIdsInv, NoCause, stage = "done"
  PROVE  Readable
  <1>1. /\ stops = SoundIds("stops") /\ routes = SoundIds("routes")
        /\ services = SoundIds("calendar") \cup SoundIds("calendar_dates")
        /\ {trip.id : trip \in trips} = SoundIds("trips")
    BY LookedUpInAll
  <1>2. \A table \in Tables : /\ RowsRead(table) = DOMAIN Rows(table)
                              /\ SoundRead(table) = SoundRows(table)
    BY StageReads
  <1>3. \A table \in {"trips", "stop_times"} : \A i \in Checked(table) :
           ~UnknownReference(table, Rows(table)[i])
    BY <1>2 DEF NoCause, Checked, Tables, Required
  <1>4. \A table \in {"trips", "stop_times"} : \A i \in Checked(table) :
           Rows(table)[i].defect # "lacking"
    BY DEF Checked
  <1>5. \A i \in Checked("trips") :
          LET row == Rows("trips")[i] IN
          row.route \in routes /\ (services # {} => row.service \in services)
    BY <1>3, <1>4 DEF UnknownReference
  <1>6. \A i \in Checked("stop_times") :
          LET row == Rows("stop_times")[i] IN
          row.trip \in {trip.id : trip \in trips} /\ row.stop \in stops
    BY <1>3, <1>4 DEF UnknownReference
  <1> QED BY <1>1, <1>2, <1>5, <1>6 DEF Readable, NoCause

-----------------------------------------------------------------------------
(* The loop *)

LEMMA LoopInit == Init => LoopInv
  <1> SUFFICES ASSUME Init PROVE LoopInv
    OBVIOUS
  <1>1. stage = "open" /\ TypeOK
    BY TypeInit DEF Init
  <1>2. \A t \in Tables : RowsRead(t) = {} /\ SoundRead(t) = {} /\ HeldIds(t) = {}
    BY <1>1, StageReads DEF SoundRead, HeldIds
  <1>3. HeldInv /\ TripIdsInv
    <2>1. InFileOrder(<<>>, "stop_times", {})
      <3> DEFINE none == [k \in DOMAIN <<>> |-> 0]
      <3>1. DOMAIN <<>> = {} /\ none \in [DOMAIN <<>> -> {}] /\ {none[k] : k \in DOMAIN <<>>} = {}
        OBVIOUS
      <3> HIDE DEF none
      <3> QED BY <3>1 DEF InFileOrder
    <2> QED BY <1>2, <2>1 DEF Init, HeldInv, TripIdsInv, Tables, Required
  <1>4. NoCause
    BY <1>1, <1>2 DEF NoCause
  <1>5. InvalidRead = {}
    BY <1>2 DEF InvalidRead
  <1>6. CountInv
    BY <1>5, FS_EmptySet DEF CountInv, Init
  <1> QED BY <1>1, <1>3, <1>4, <1>6 DEF LoopInv

LEMMA LoopNext == TypeOK /\ LoopInv /\ [Next]_vars => LoopInv'
  <1> SUFFICES ASSUME TypeOK, LoopInv, [Next]_vars PROVE LoopInv'
    OBVIOUS
  <1>1. CASE UNCHANGED vars
    <2>1. UNCHANGED <<arguments, dataset, stage, row_number, invalid_rows>>
      BY <1>1 DEF vars
    <2>2. \A t : Rows(t)' = Rows(t)
      BY <2>1, SameRows
    <2>3. \A t : RowsRead(t)' = RowsRead(t) /\ SoundRead(t)' = SoundRead(t)
      BY <2>1, <2>2 DEF RowsRead, SoundRead
    <2>4. \A t, row : UnknownReference(t, row)' = UnknownReference(t, row)
      BY <2>1 DEF UnknownReference, dataset
    <2>5. NoCause => NoCause'
      BY <2>1, <2>2, <2>3, <2>4, SameRows DEF NoCause, arguments
    <2> QED BY <2>1, <2>3, <2>5, SameReadable, HeldStays, SameInvalidRead DEF LoopInv
  <1>2. CASE Next
    <2>1. stage # "raised" /\ UNCHANGED arguments
      BY <1>2 DEF Next, Open, BreakReference, Invalid, TakeStop, TakeRoute, TakeService,
           TakeTrip, TakeStopTime, EndTable, Take, Reading, Tables, Required
    <2>2. HeldInv /\ TripIdsInv /\ CountInv /\ NoCause
      BY <2>1 DEF LoopInv
    <2>3. CASE Open
      <3>1. CASE Refused
        BY <2>1, <2>3, <3>1, SameReadable DEF Open, LoopInv, Readable
      <3>2. CASE ~Refused
        BY <2>2, <2>3, <3>2, TurnContinues DEF LoopInv
      <3> QED BY <3>1, <3>2
    <2>4. CASE BreakReference
      BY <2>1, <2>2, <2>4, UnknownNotReadable, SameReadable DEF BreakReference, LoopInv
    <2>5. CASE Invalid
      <3>1. CASE strict = "strict"
        BY <2>1, <2>5, <3>1, StrictNotReadable, SameReadable DEF Invalid, LoopInv
      <3>2. CASE strict = "lenient"
        BY <2>2, <2>5, <3>2, InvalidContinues DEF LoopInv
      <3> QED BY <3>1, <3>2 DEF TypeOK
    <2>6. CASE TakeStop \/ TakeRoute \/ TakeService \/ TakeTrip \/ TakeStopTime
      BY <2>2, <2>6, TakeContinues DEF LoopInv
    <2>7. CASE EndTable
      BY <2>2, <2>7, TurnContinues DEF LoopInv
    <2> QED BY <1>2, <2>3, <2>4, <2>5, <2>6, <2>7 DEF Next
  <1> QED BY <1>1, <1>2

LEMMA LoopInvariant == Spec => [](TypeOK /\ LoopInv)
  BY TypeInit, TypeNext, LoopInit, LoopNext, PTL DEF Spec

(* The loops return for exactly the archives that Readable describes       *)
(* without them.                                                           *)
THEOREM ReturnsCorrect == Spec => []ReturnsIfReadable
  <1>1. TypeOK /\ LoopInv => ReturnsIfReadable
    BY DoneReadable DEF LoopInv, ReturnsIfReadable
  <1> QED BY <1>1, LoopInvariant, PTL

(* What is returned is the sound rows, and the rest is counted. *)
THEOREM HeldCorrect == Spec => []SoundRowsAreHeld
  <1>1. TypeOK /\ LoopInv => SoundRowsAreHeld
    <2> SUFFICES ASSUME TypeOK, LoopInv, stage = "done" PROVE SoundRowsAreHeld
      BY DEF SoundRowsAreHeld
    <2>1. HeldInv /\ TripIdsInv /\ CountInv
      BY DEF LoopInv
    <2>2. \A table \in Tables : /\ RowsRead(table) = DOMAIN Rows(table)
                                /\ SoundRead(table) = SoundRows(table)
      BY StageReads
    <2>3. InvalidRead = UNION {{table} \X (DOMAIN Rows(table) \ SoundRows(table)) :
                                table \in Tables}
      BY <2>2 DEF InvalidRead
    <2>4. /\ stops = SoundIds("stops") /\ routes = SoundIds("routes")
          /\ services = SoundIds("calendar") \cup SoundIds("calendar_dates")
      BY <2>1, LookedUpInAll
    <2>5. SoundRead("trips") = SoundRows("trips")
          /\ SoundRead("stop_times") = SoundRows("stop_times")
      BY <2>2 DEF Tables, Required
    <2> QED BY <2>1, <2>3, <2>4, <2>5 DEF SoundRowsAreHeld, HeldInv, CountInv
  <1> QED BY <1>1, LoopInvariant, PTL

-----------------------------------------------------------------------------
(* The references of what is held, also where the call has raised *)

(* While the tables without references are read there is nothing to refer, *)
(* while the trips are read nothing refers to them.                        *)
LEMMA NothingRefers ==
  ASSUME TypeOK, HeldInv
  PROVE  /\ stage \in {"stops", "routes", "calendar", "calendar_dates"} => trips = {}
         /\ stage \in {"stops", "routes", "calendar", "calendar_dates", "trips"} =>
              DOMAIN stop_times = {}
  <1>1. ASSUME RowsRead("trips") = {} PROVE trips = {}
    <2>1. SoundRead("trips") = {}
      BY <1>1 DEF SoundRead
    <2> QED BY <2>1 DEF HeldInv
  <1>2. ASSUME RowsRead("stop_times") = {} PROVE DOMAIN stop_times = {}
    <2>1. SoundRead("stop_times") = {}
      BY <1>2 DEF SoundRead
    <2>2. PICK order \in [DOMAIN stop_times -> {}] : TRUE
      BY <2>1 DEF HeldInv, InFileOrder
    <2> QED BY <2>2
  <1> QED BY <1>1, <1>2, StageReads

(* The strict mode has a service before it reads the first trip. *)
LEMMA StrictHasServices ==
  ASSUME TypeOK, HeldInv, TripIdsInv, NoCause, stage = "trips", strict = "strict"
  PROVE  services # {}
  <1>1. PICK table \in {"calendar", "calendar_dates"} : Rows(table) # <<>>
    BY DEF NoCause, Refused
  <1>2. table \in Tables
    BY DEF Tables, Required
  <1>3. 1 \in DOMAIN Rows(table)
    <2>1. Rows(table) \in Seq(ServiceRow)
      BY <1>2, TableTypes DEF TypeOK
    <2> QED BY <1>1, <2>1
  <1>4. RowsRead(table) = DOMAIN Rows(table)
    BY DEF RowsRead, Behind
  <1>5. 1 \in SoundRead(table)
    BY <1>2, <1>3, <1>4 DEF NoCause
  <1>6. HeldIds(table) # {}
    BY <1>5 DEF HeldIds
  <1> QED BY <1>6 DEF HeldInv

LEMMA ReferencesNext ==
  ASSUME TypeOK, LoopInv, ClosedUnderReference, StrictKnowsServices, [Next]_vars
  PROVE  ClosedUnderReference' /\ StrictKnowsServices'
  <1>1. CASE UNCHANGED <<arguments, dataset>>
    BY <1>1 DEF ClosedUnderReference, StrictKnowsServices, arguments, dataset
  <1>2. CASE TakeStop \/ TakeRoute \/ TakeService \/ TakeTrip \/ TakeStopTime
    <2>1. stage # "raised" /\ strict' = strict
      BY <1>2 DEF TakeStop, TakeRoute, TakeService, TakeTrip, TakeStopTime, Take, arguments
    <2>2. HeldInv /\ TripIdsInv /\ NoCause
      BY <2>1 DEF LoopInv
    <2>3. CASE TakeStop \/ TakeRoute
      BY <2>1, <2>3 DEF TakeStop, TakeRoute, ClosedUnderReference, StrictKnowsServices
    <2>4. CASE TakeService
      <3>1. trips = {} /\ DOMAIN stop_times = {}
        BY <2>2, <2>4, NothingRefers DEF TakeService, Take
      <3>2. trips' = {} /\ DOMAIN stop_times' = {}
        BY <2>4, <3>1 DEF TakeService
      <3> QED BY <3>2 DEF ClosedUnderReference, StrictKnowsServices
    <2>5. CASE TakeTrip
      <3>1. /\ stage = "trips" /\ ~UnknownReference("trips", Current)
            /\ Current.defect = "none" /\ UNCHANGED <<stops, routes, services, stop_times>>
            /\ trips' \subseteq trips \cup {Current}
        BY <2>5 DEF TakeTrip, Take, Sound
      <3>2. Current.route \in routes /\ (services # {} => Current.service \in services)
        BY <3>1 DEF UnknownReference
      <3>3. DOMAIN stop_times' = {}
        BY <2>2, <3>1, NothingRefers
      <3>4. strict = "strict" => services # {}
        BY <2>2, <3>1, StrictHasServices
      <3> QED BY <2>1, <3>1, <3>2, <3>3, <3>4 DEF ClosedUnderReference, StrictKnowsServices
    <2>6. CASE TakeStopTime
      <3>1. /\ ~UnknownReference("stop_times", Current) /\ Current.defect = "none"
            /\ stop_times' = Append(stop_times, Current)
            /\ UNCHANGED <<stops, routes, services, trips>>
        BY <2>6 DEF TakeStopTime, Take, Sound
      <3>2. Current.trip \in {trip.id : trip \in trips} /\ Current.stop \in stops
        BY <3>1 DEF UnknownReference
      <3>3. stop_times \in Seq(StopTimeRow)
        BY DEF TypeOK
      <3>4. \A i \in DOMAIN stop_times' : \/ stop_times'[i] = Current
                                          \/ i \in DOMAIN stop_times
                                             /\ stop_times'[i] = stop_times[i]
        BY <3>1, <3>3
      <3>5. \A i \in DOMAIN stop_times' :
              /\ \E trip \in trips' : trip.id = stop_times'[i].trip
              /\ stop_times'[i].stop \in stops'
        BY <3>1, <3>2, <3>4 DEF ClosedUnderReference
      <3> QED BY <2>1, <3>1, <3>5 DEF ClosedUnderReference, StrictKnowsServices
    <2> QED BY <1>2, <2>3, <2>4, <2>5, <2>6
  <1> QED BY <1>1, <1>2 DEF Next, Open, BreakReference, Invalid, EndTable, vars

LEMMA ReferencesInvariant == Spec => [](ClosedUnderReference /\ StrictKnowsServices)
  <1>1. Init => ClosedUnderReference /\ StrictKnowsServices
    BY DEF Init, ClosedUnderReference, StrictKnowsServices
  <1>2. TypeOK /\ LoopInv /\ ClosedUnderReference /\ StrictKnowsServices /\ [Next]_vars
          => ClosedUnderReference' /\ StrictKnowsServices'
    BY ReferencesNext
  <1>3. Spec => [](TypeOK /\ LoopInv)
    BY LoopInvariant
  <1>4. Spec => Init /\ [][Next]_vars
    BY DEF Spec
  <1> QED BY <1>1, <1>2, <1>3, <1>4, PTL

(* For every archive and in both modes: nothing held refers to what is not *)
(* held, at no moment.                                                     *)
THEOREM ClosedCorrect == Spec => []ClosedUnderReference
  BY ReferencesInvariant, PTL

(* For every archive: the check left out where there is no service is not  *)
(* missed in the strict mode.                                              *)
THEOREM StrictCorrect == Spec => []StrictKnowsServices
  BY ReferencesInvariant, PTL

=============================================================================
