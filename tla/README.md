# A TLA+ model of the Berlin Urban Mobility Twin

The Berlin Urban Mobility Twin fetches public transport, traffic and disruption
data of Berlin, holds it in memory, and answers with *point-in-time snapshots*
that say what is known, how fresh it is and what is missing. The modules here
model it in TLA+. TLC checks them on small instances; TLAPS proves the results
that matter most for every value of the constants. `PROJECT.json` holds the
machine-readable side: which definition models which lines, the runs, the
theorems, the hazards and the findings.

Paths below are relative to `src/src/berlin_mobility_twin/` unless they begin
with `docs/`, `frontend/` or `README.md`, which are relative to `src/`.

## 1. The system

### Components, their state and their operations

| component | state | operations |
| --- | --- | --- |
| runtime state, `api/state.py` | the datasets held (stops, routes, trips, realtime and traffic observations, detectors, disruptions), `source_status` and `source_errors` per source | `missing_sources`, `health_status`, `snapshot(timestamp)` |
| refresh pipeline, `processing/pipeline.py` | none of its own; it changes the runtime state | `refresh_live_sources` (the round over all live sources, which catches each one's exception), the functions per source, `load_gtfs_static`, `load_traffic_archive` |
| HTTP client, `ingestion/http_client.py` | the connection | `fetch`: content, "not modified" without content, or an exception |
| parsers, `ingestion/{gtfs_static,gtfs_realtime,traffic,disruptions}.py` | none | payload to records, with quality warnings; strict (raise) or lenient (reject) |
| source registry, `ingestion/sources.py` | five constant entries | lookup |
| snapshot construction, `processing/snapshot.py` | none | latest observation per key not after a moment, disruptions valid at it, warnings |
| local time, `processing/temporal.py`; temporal quality, `processing/traffic_quality.py` | none | local to UTC across clock changes; order and gap warnings |
| snapshot store, `storage/json_store.py` | one file, and temporary files | `write` (temporary file, rename), `read` |
| analytics, `analytics/`; integration contracts, `integration/contracts.py` | none | summaries, anomaly baseline; export records |
| HTTP API, `api/app.py` | the runtime state, read only | one GET handler per resource |
| command line, `cli.py` | a new runtime state per command | `refresh` (round, snapshot, store), `serve` (round, then the API) |
| dashboard, `frontend/src/app.js` | the page | load: six requests, render or failure notice; reload button |

### How they interact

The command line makes a runtime state, has `refresh_live_sources` fill it once,
and writes a snapshot of it or serves it. Providers answer, fail, or answer
without content; each source is a fetch, a check of the content, a parse and a
store, and only a completed store touches its fields. The service never changes
the state while it runs, so the handlers need no locks; what moves under them is
the present. Other programs can call the pipeline's functions in any order on one
state, and several `refresh` processes and readers can share one snapshot file.
In the browser one load at a time reads six resources from a server that may
stop and start again in between.

### What is hard

* **Partial failure**: any source fails at its fetch, for want of content or at its
  parse, alone or in a round; the state must keep the earlier data and say so.
* **Derived truth**: missing sources, health and warnings are derived from
  `source_status` and `source_errors`, never from the data itself. The three must
  stay in agreement over any sequence of calls.
* **Time**: freshness is fixed at the retrieval, a feed header may be ahead of it,
  `int()` truncates, and a snapshot can be asked for any moment.
* **Crashes**: a write of the snapshot file can stop anywhere, with readers and
  other writers at work.
* **Requests**: the page reads six resources one by one from a server that may
  restart between them; answers come late, after their load was given up, or never.
* **Order**: observations come in any order with ties and duplicates; an archive's
  rows are unsorted, defective or repeated, and its local times can occur twice or never.
* **References**: a schedule is six tables that refer to each other, with repeated
  identifiers and rows that are dropped before others refer to them.

### What makes each part correct

* pipeline and state: one dataset and status per source, replaced whole, kept
  through failures; an error recorded until the source's own next success; a
  report that says what happened; a full round after which the errors are exactly
  its own; `ok` only when it is true; always a warning
  when something is not fresh;
* snapshot: exactly the latest known observation of each key, nothing of the
  future, a later moment never shows less;
* freshness: what is reported of a feed is true of the data held, and a feed one
  cannot see is not called fresh;
* archive: of the rows of one detector and instant the first sound one is kept, no
  row is lost, no instant is guessed, gaps and disorder are marked where they are, and
  the whole archive is refused for an infinite count or a bad interval, for nothing else;
* schedule: what is returned is closed under reference and holds every sound row,
  stop times in the order of the file, and the call raises exactly where that cannot be had;
* disruptions: a bound held is the instant a clock first reads it at, no sound
  interval is lost to the conversion, and the summary and the export of a snapshot
  say of it what the state says;
* command line: exit code 0 is a whole round and its file, a file is of one round,
  and what a new file loses is named in it and, unless the process is killed before it
  ends, in the exit code;
* store: a reader gets one whole snapshot or none, a file once there stays, a write that
  begins after a publication or is interrupted never brings the file behind it, and no
  writer or reader waits for another;
* dashboard: a page that says it has read the state shows one load throughout,
  `operational` never stands beside a failure, a failed load can be repeated.

## 2. The modules

| module | models | state and actions against the code |
| --- | --- | --- |
| `MobilitySources` | `ingestion/sources.py`, `api/state.py` | the five source identifiers, the required four, the status values |
| `SourceLedger` | abstract | per source a dataset and a "failing" mark; a dataset is taken in whole and unmarks its source; a failure only marks |
| `RefreshPipeline` | `processing/pipeline.py`, `api/state.py`, `http_client.fetch` | one variable per field of `RuntimeState`; a call in progress is its name, the position in its list of operations and a phase; an operation is a fetch step (content, no content, exception) and a parse step (store, or exception); the store is the function's whole tail: the fields, the status, `_clear_source_error`; in a round an exception is recorded and the next operation begins, in a function called alone it leaves the call |
| `RefreshPipelineProofs` | | theorems about it |
| `SnapshotView` | `processing/snapshot.py` | what a snapshot is to show, stated without loops |
| `SnapshotSelection` | the loops `_latest_transit`, `_latest_traffic` | the loop index and the dictionary; one action per branch |
| `SnapshotSelectionProofs` | | theorems about it |
| `DisruptionFeed` | `ingestion/disruptions.py` | operators: a feature is what is wrong with it, its bounds as written and its storage time; `Rejected`, `Raises` and `ParsedFeature` are the `except` clause, the exceptions that leave and the record |
| `PointInTimeState` | time in `pipeline.py`, `gtfs_realtime.py`, `api/state.py`; `analytics/state.py`, `integration/contracts.py` | the clock, its zone, the observations and disruptions with their instants, statuses and errors; the actions are the passing of time, the refreshes (whole), and a failing refresh; the snapshot for a moment, its summary and its export are operators; `document` is a history variable, the features last read |
| `PointInTimeStateProofs` | | theorems about it |
| `GtfsStatic` | `ingestion/gtfs_static.py` | the archive as rows of six tables, the table and the row read, the dictionaries filled; one action per outcome of a row (taken, one action per table; invalid; a broken reference), one for the end of a table, one for what is known before the first row |
| `GtfsStaticProofs` | | theorems about it |
| `CommandLine` | `cli.py`, `api/app.py` | extends `RefreshPipeline` with the process (what for, where it is, its exit code) and the snapshot file; starting a process makes a new state, a round is the pipeline's steps, then the file is written and, a step later, the exit code given, with a kill possible in between; `earlier` is a history variable, the sources the file had when the command was started; `HealthAnswer` and `StatusAnswer` are the handlers of the service |
| `CommandLineProofs` | | theorems about it, from the invariant of `RefreshPipelineProofs` |
| `LocalTime` | `processing/temporal.py` | the clock of a zone around one transition, either way; `Candidate` and `LocalToUtc` as in the code, the offset and the fold as in `zoneinfo`; an exception is the empty set |
| `TrafficArchive` | `parse_traffic_csv`, `annotate_temporal_quality`, as `load_traffic_archive` calls them | the lists of observations and rejections, the set `seen`, the dictionary `previous`, the issues; one action per outcome of a row, per observation compared, per detector whose gaps are found, and one for the marks |
| `TrafficArchiveProofs` | | theorems about both |
| `SnapshotFile` | abstract | one atomic file: absent or one whole snapshot, reads that see one moment of it |
| `SnapshotStore` | `storage/json_store.py` | one action per system call: create the temporary file, write twice, flush, close, rename; test, open, read, validate; a failure or kill at any step of a write; `mayFollow` is a history variable, the snapshots that may yet come after each published one |
| `SnapshotStoreProofs` | | theorems about it |
| `Dashboard` | `frontend/src/app.js` | the loads with the answers to their requests, the button and the parts of the page; the actions are the button, the two ends of `Promise.all` with all they draw, and those of servers and network |
| `DashboardProofs` | | theorems about it |

`MC*` modules give TLC its constants. Operators with a suffix after an
underscore, each under a comment *Mutant*, are wrong versions of the definition
they precede; no specification uses them. Each property has one that breaks it
(`PROJECT.json`, `mutants`): it shows that the property depends on the code.

`RefreshPipeline` and `PointInTimeState` implement `SourceLedger` (`LedgerSpec`), `SnapshotStore`
implements `SnapshotFile` (`FileSpec`), and the loop of `SnapshotSelection`
computes the view of `SnapshotView`, which `PointInTimeState` composes with the
pipeline's stores. `TrafficArchive` is the inside of the archive's parse step in
`RefreshPipeline`; what it accepts is what `PointInTimeState` calls an archive: one
observation for each detector and instant (`FirstSoundRowIsKept`). It reads its
timestamps with `LocalTime`. `GtfsStatic` and `DisruptionFeed` are the insides of the
parse steps of the schedule and of the disruptions; `PointInTimeState` composes the
latter with the state. `CommandLine` composes the pipeline with the process that runs
it and with the file as `SnapshotFile` abstracts it: replaced as a whole, or not.

## 3. The runs

Every bound is a constant of its module or a set of its configuration.

| run | question | bounds, and why they are enough | shows |
| --- | --- | --- | --- |
| `pipeline` | do data, statuses, errors and reports stay in agreement over any sequence of calls, does every call return, and is an outage forgotten? | all nine calls of the pipeline, any number of them; two payloads, so that new data can be told from old | the data is what the statuses say, errors stay until their own source is loaded, `ok` is earned, a snapshot always carries a warning; it implements `SourceLedger`; under fairness of the running call each call returns and after an outage the errors go away |
| `pipeline_provenance` | does a record name a source that is loaded? | the live calls, one payload | it does not (section 6) |
| `snapshot_selection` | does the loop compute the view? | lists of up to four observations, two keys, three instants, every moment: ties, duplicates, and two alternations of the keys | the loop invariant and the result |
| `store` | do readers get whole snapshots whatever fails? | two writers, one reader, three snapshots: a writer can fail and begin again while the other is at work, and a rename can fall into a read | readers get whole snapshots, a published file is final, an older one comes after it only by a write that overlapped its publication and was not interrupted; every read and write ends within a number of its own steps (`StepsAreBounded`), whatever the others do; the refinement of `SnapshotFile` |
| `time` | is what a snapshot says of time true? | eight ticks, two of them a second, so that `int()` cuts; tolerance and staleness of one second; feeds of up to two updates, also of one key from a cancelled trip and from a stop; archives of two rows; disruption documents with a feature for every pair of readings around a clock going back and one going forward, with malformed and alien features and missing bounds | freshness agrees with the feed, later moments know more, a feed that cannot be seen is `unknown` or ahead; bounds are read as written and no ordered interval with an occurring start is lost; the summary and the export of any moment say what the state says |
| `time_stale` | does stale information stay visible? | as above, without archives | it does not (section 6) |
| `time_disruptions` | is nothing of the future in a snapshot? | single disruptions, each instant given or missing | not of disruptions (section 6) |
| `disruption_folds` | is a local time that occurs twice or never decided by somebody? | the documents of `time`, without feeds and archives | it is not (section 6) |
| `schedule` | is the schedule closed, complete and refused when it must be? | two identifiers of each kind, tables of up to two rows: sound, repeated, malformed, lacking a column, dangling; empty and missing tables; both modes: a row can be dropped before another refers to it, and a row replaced after another was checked against it | it is; one dropped row takes the whole schedule with it as soon as another refers to it, in the lenient mode too |
| `command_line` | what do exit code, file and service say of the data? | any number of commands on one path, with and without each option; every source failing or not, every write failing or not, a kill at any step, also between the replacing of the file and the exit; one payload, since the questions are of whether there is data, not which | exit code 0 is a whole round, a file is of one round, a loss is named in the file, and in the exit code of a process that is not killed, and no command has complete data |
| `traffic_archive` | are the right rows kept, at the right instants, with the right marks? | up to three rows of twelve kinds: sound ones at four readings of two detectors, and one for each sort of defect, with keys that meet those of sound rows; three rows are a rejected, a kept and a duplicate one of a key, or three of a detector in every order; a clock going back and one going forward; every fold; no interval, an interval refused, one that the readings exceed and meet | the first sound row of a key is kept, timestamps read back, marks are of neighbours |
| `dashboard` | does the page keep one load apart from another? | three loads, the third over a failure and a success in either order; two servers, one of them healthy and the other with a state the map rejects; three of the six requests, those whose content decides something | a page that says it was read is of one load; a failure gives the button back |

The type invariants of the modules (`TypeOK`) are proved, for every value of the
constants, and not among the properties of the runs.

`snapshot_selection`, `traffic_archive`, `schedule` and `dashboard` switch off the
deadlock check: the loops end, and the loads are bounded. In the other passing runs no state is a
dead end: a call, a read or a refresh can begin in every state at rest.

## 4. Fairness

* `RefreshPipeline.FairSpec` has weak fairness of the steps of a call that has
  begun: the functions are sequential code, the HTTP client has a timeout
  (`http_client.py`, `timeout_seconds`), so each fetch answers or raises. Nothing
  obliges a caller to call, and nothing obliges a provider to succeed:
  `OutageIsForgotten` assumes in its statement that failures stop and that the
  refresh is called again and again.
* `SnapshotStore.FairSpec` has weak fairness of each process's own steps once it
  has begun a read or write. No process is obliged to begin, and none to fail.
* `Dashboard.FairSpec` has weak fairness of what follows the `await` of a load, as
  the browser runs the continuation of a settled promise. No request is obliged
  to be answered or to fail: `fetch` has no timeout here, and a load whose
  requests are never answered keeps the button for ever.
* The other runs check safety and assume no fairness.

## 5. Proofs

TLAPS checks the theorems below for every value of the constants, under the named
assumptions of the modules (`MaxWrites` a natural number, tick and tolerances
natural numbers, documents that are sequences of records, marks that are no numbers,
a command line whose calls are the live ones).

* **`RefreshPipelineProofs`** rests on the type invariant and on an inductive
  invariant with three parts: the datasets agree with the statuses
  (`StatusMatchesData` with `OneSchedule`), the content in hand belongs to the
  phase, and what the running call has completed is exactly its report and is
  reflected in the errors. The part about the hand is needed because a store
  happens two steps after the fetch that must have succeeded. From it follow
  `ReportMatchesState`, `QuietReturnMeansLoaded`, `OkIsEarned`,
  `DegradedWithoutArchive`, the two action properties and the refinement of
  `SourceLedger`. With the fact that only live sources ever have an error it gives
  `FullRoundSettlesErrors`: a full round that has returned leaves exactly its own
  failures recorded, whatever came before. `CallsAreBounded` counts the steps a
  call has left (`StepsLeft`) and shows that each step lowers the count.
* **`SnapshotSelectionProofs`**: the loop invariant `LatestOfThePrefix` is
  inductive with the types; at the end of the loop it says that what the
  dictionary holds is the view.
* **`SnapshotStoreProofs`**: the invariant says of files that the path and all
  temporary files are of snapshots taken, of writers that no two are busy with
  one file and that nothing a reader can see is under work, and of readers that
  what they have open is complete. `ReadersSeeWholeSnapshots`,
  `PublishedIsFinal` and the refinement of `SnapshotFile` follow.
  `OneWriterMovesForward` adds that a lone writer is always at the newest
  snapshot. With several writers that is not so, and `OverlapOnly` shows how far the
  file can go back: past a published snapshot only by a write that was under way when
  that was published and has not ended since. It needs an invariant over the history
  (`FollowInv`): every write under way is allowed to come after all later snapshots,
  which a write that ends must keep true for all others. `WaitFree` proves
  `StepsAreBounded` for any number of processes and writes: the steps a read or write has left are a natural number
  that its own steps lower and those of others leave alone.
* **`PointInTimeStateProofs`**: that a list has a latest observation is shown by
  taking least elements of sets of naturals, which gives `LaterMomentsKnowMore`
  for lists of any length, and that no snapshot shows a key twice (`OnePerKey`);
  `HiddenFeedIsUnknown` needs the arithmetic of the
  truncated division for any number of ticks per second, and an invariant
  (`HeldFeedOrigin`) that keeps what the retrieval established of every observation
  held. The same invariant gives `FreshWhenRetrieved`: a feed reported fresh was
  within threshold and tolerance, up to the second `int()` cuts off, when it was
  retrieved; so the finding *freshness does not age* is of ageing alone. The theorems on
  disruptions rest on an invariant that ties what is held to the document read last;
  `HeldBoundsAreRead` then is a fact about the first reading of a clock around any
  transition, and `SummaryCorrect` one about cardinalities of sets without warnings.
  `SilentFoldsDelimited` says of which documents the finding *a silent fold* is: those
  that give a feature kept a bound that does not have exactly one reading, and no others.
  `ImplementsLedger` maps each refresh to a step of `SourceLedger`: the records of a
  source and the freshness reported for it are replaced together or not at all.
* **`TrafficArchiveProofs`** first proves the algorithm of `local_to_utc` right for
  every zone around a transition: it returns only readings, never one of two without
  a fold (`LocalTimeReadsBack`), finds a reading that is the only one
  (`OnlyReadingIsFound`), and tells two apart by the fold (`FoldsTellReadingsApart`).
  The row loop rests on `RowsInv`: `seen` holds exactly the keys of the sound rows
  read, which makes "is a duplicate" mean "is not the first"; and no row read has an
  infinite count, so that a call that raises has met one or its interval
  (`RaisesForCause`). The annotation rests
  on `MarksInv`: `previous` has the last observation of each detector, and the
  issues are those of the observations compared and of the detectors done. That
  neighbours in a sorted order show exactly the gaps (`NeighboursShowGaps`) is
  proved for every order that sorts, so that it does not matter how ties are
  sorted or by what algorithm. Marks are assigned by key, and only because the loop
  keeps keys apart does each reach its own observation.
* **`GtfsStaticProofs`**: the loop invariant (`LoopInv`) says that what is held comes
  from the sound rows read so far, of a trip's identifier the last, of stop times each
  row once in the order of the file (`HeldInv`; the witness of that order grows by the
  row taken, `AppendInFileOrder`), that the
  rows counted as invalid are the others (`CountInv`), and that no row read was a reason
  to raise (`NoCause`); once the call has raised it says that the archive is not
  readable. `SoundRowsAreHeld` and `ReturnsIfReadable` are the invariant at the end.
  The closure under reference holds at every moment and needs that a trip is only ever
  replaced by one of its identifier.
* **`CommandLineProofs`**: each step of a command keeps the inductive invariant of the
  pipeline, because it is one of the pipeline's own or begins a new state. What is
  added is that such a state holds nothing but its round: the recorded errors are the
  report's failures and the sources with a status its successes (`RoundInv`). With
  it the file is known when it is written (`FileWritten`), and the theorems on exit code
  and file follow. `LossCorrect` needs to know of a loss that there is none before the
  file is written and that what is lost then has failed in the round whose exit code is
  still to come (`LossInv`); a kill between the two leaves the file, which names it.
  `ServiceCorrect` says of a service that its counts are of what its own round has
  loaded and its errors are what that round failed at. By `ProcessesKeepLedgers` every
  step within a process is one of the pipeline's ledger, and only a new process empties it.
* **`DashboardProofs`**: at most one load waits, it is the last one begun, and it
  waits exactly while the button is disabled (`OneLoad`). Without this a late
  load could draw over the page of a newer one; with it `ReadPageIsOneLoad` is
  inductive for any number of loads, servers and requests. It also shows that no
  later answer turns a load with a failed request into a page that was read
  (`FailureIsNoticed`).

Model-checked only: the liveness properties, since TLAPS has no rules for fairness
and ENABLED here. What they rest on besides fairness is proved:

| checked by TLC | proved core |
| --- | --- |
| `EveryCallReturns` | `CallsAreBounded`: a call never takes more steps than its operations allow |
| `OutageIsForgotten` | `FullRoundSettlesErrors`: one round without failures is enough |
| `EveryWriteEnds`, `EveryReadEnds` | `WaitFree`: a bound that nobody else's steps raise |
| `FailureGivesButtonBack` | `FailureIsNoticed`: a failure stays at hand until the load ends, and it ends in the notice and the enabled button |

The prover cannot instantiate theorems that take an operator, so induction over
data is replaced by least elements where it is needed; recursive operators are
kept out of the modules with proofs.

## 6. Where code and documents differ

Each of these is a run that must end in a counterexample.

* **A detector record names the archive** (`pipeline_provenance`).
  `_traffic_provenance` (`ingestion/traffic.py:84`) gives every record the
  identifier of the archived observations, the detector locations too. After a
  live refresh the records held name a source that `missing_sources` lists. The
  registry (`ingestion/sources.py:42`) keeps the two apart.
* **Freshness does not age** (`time_stale`). It is computed at the retrieval
  (`processing/pipeline.py:123`) and read from then on. A service that was started
  an hour ago calls its feed fresh, with no warning; `README.md:9` promises that
  stale information stays visible.
* **Disruptions from the future** (`time_disruptions`). `_active_disruptions`
  (`processing/snapshot.py:42`) looks at the validity and not at the time the
  record was stored. `docs/methodology.md:134` excludes what was observed after
  the requested moment.
* **A silent fold** (`disruption_folds`). `_parse_source_local`
  (`ingestion/disruptions.py:35`) attaches the zone to a local time and converts: in
  the hour that occurs twice it takes the first occurrence, and a time of the hour that
  does not occur is moved by an hour, without a rejection or a warning.
  `docs/architecture.md:58` has the second rejected and the first decided explicitly,
  as `local_to_utc` does for the archive. What the code does hold to is
  `HeldBoundsAreRead` and `OrderedIntervalsSurvive`.

## 7. What is not modelled

* Floating point: coordinates (`processing/spatial.py`), statistics. The speeds of
  an archive are whole numbers or infinite; NaN, which passes the comparisons of
  the row loop, is left out.
* Two transitions of one zone in one reading: they are months apart.
* Field formats: pydantic's validation, JSON and CSV text, protobuf decoding. In
  particular an archive that `csv` cannot split, or a timestamp at the end of the years
  a `datetime` has, whose conversion overflows, is no row of `TrafficArchive`; the code
  would raise there too.
* The network below `fetch`, and the ETag, which the pipeline never sends.
* Power loss: the store does not fsync and the model has process failures only.
* Concurrent refreshes of one runtime state: no program of the repository does
  that; the service refreshes once, before it serves.

* The commands `sources`, `export-schemas` and `inspect-traffic-csv`, the parsing of
  arguments and settings, and the handlers that return a list as it is held: they
  read no more than they print.
* The geometry and the metrics of exported records, the spatial concentration, the
  travel statistics and the baseline of `analytics/`: functions of their arguments,
  in floating point, that no other part of the program calls.
* Which entities of a realtime feed yield an update (it needs a trip update and a trip
  identifier), and delays and predictions: each is read from its own message alone. A
  feed is any list of updates, of stops, which may lack the stop, and of trips
  cancelled as a whole.
* The drawing of single markers on the page, and what a failed reload leaves of the
  layers of an earlier load: they stay, next to the notice (`frontend/src/app.js:165`).

## 8. Plan

Done: the pipeline with its state, the snapshot, the store, time, the traffic archive
with local time, the dashboard, the schedule, the disruptions, the summary and the
export of a snapshot, and the command line with the answers of the service.

What could be added, the most important first: which entities of a realtime feed
become observations, with the count of those that do not; the join of stops and
detectors into exported records; the leakage rule of the baseline; write-back of the
file system, to state what a power loss may leave of the snapshot file.
