# A TLA+ verification of track0matic

track0matic follows moving objects through the reports of many sensors.
Sensors insert *detection reports* (DRs: a position, a time, an id) into a
PostgreSQL table; the program reads them, associates them with *tracks*, starts
new tracks, forgets silent ones, stores each state in the database and draws it.
This directory models the program's own logic (`src/src`), checks it with TLC and
proves the central results with TLAPS.

## The system

Three threads of one process, and a database:

```
 timer thread            controller thread                      GUI thread
 RefreshEventProducer -> blockingQueue_ -> MainController        QtRenderer
                         ^                  | computeState          ^   |
                         |                  v                       |   |
                         |               DataManager  -- signals ---+   |
                         +---------- MapSnapshotRequested, Quit --------+

 DataManager::computeState
   ReportManager/DRCursor -> AlignmentProcessor -> CandidateSelector
     -> DataAssociator -> TrackManager (new tracks) -> FusionExecutor (Track)
     -> TrackManager (expiry) -> snapshot buffer -> track_snapshots table
```

| Component | State it keeps | Operations | What makes it correct |
|---|---|---|---|
| DataManager | pipeline, snapshot buffer, map cache | computeState, getMap, getSnapshot | no report lost or shared, the published state is exact, computeState returns |
| ReportManager, DRCursor | last row, cursor position, current page | getDRs | rows are handed over once and not passed over |
| AlignmentProcessor | reports not handed out yet | setDRsCollection, getNextAlignedGroup | groups partition the collection by time |
| DataAssociator | groups, association map, flag | setInput, compute, two getters | one report, one track |
| TrackManager | live tracks | initializeTracks, removeExpiredTracks | initialization partitions the leftovers, expiry is exact |
| Track | filter, position, velocity, refresh time | refresh, applyMeasurement, isTrackValid | refresh time is the newest measurement's |
| BlockingQueue | queue, mutex, condition variable | push, pop | an atomic FIFO queue without lost wakeups |
| Controller | working flag | main loop, one handler per message | every Quit ends the program in order |
| View | scene, window | showState, worldStateChange, slots | a scene shows one snapshot and its background |
| ConfigurationManager | two-level map of strings | load, look up, cast with default | complete settings suffice, and late look-ups hold no surprise |
| ResultComparator | none | rate a report for a track, rate a list | rates are normalized and monotonic in the distance, for any setting |
| Estimation filter | state, covariance | initialize, predict, correct, clone | estimates approach measurements, the covariance is optimal, copies are independent |
| TracksSnapshot | number, rows, transaction | addTrack, storeTracks | a snapshot is readable whole or not at all, and the program knows which |
| StaticBaseDriver | connection | getStreetNodes, getMap | the map is closed under streets' ends, a failed connection is an exception |
| Timers | io_service, workers, timers | startTimer, stopTimers | callables do not overlap, every timer keeps firing, stopTimers returns and nothing fires afterwards |

Components left out are listed with the reason in `PROJECT.json`: logging, the
`ThreadBuffer` nobody reads, the old view, the data generator, the build tool. What is hard here: three places write a track's refresh
time; the association map outlives its tracks; a paging cursor races inserts;
two queues of two threads feed each other; a process has to end while its threads
talk to each other; a snapshot is numbered in one transaction and stored, with
retries, in another; settings are looked up long after the start; and two pieces of undefined behaviour (a function without a
return, an iterator used at the end).

## Modules

| Module | Models | Correspondence |
|---|---|---|
| `DetectionReport` | `detectionreport.{h,cpp}` | a DR is its dr_id; `Less` is `std::less`, `AlignedGroup` what one aligned group is |
| `Track` | `track.cpp` | `refreshTime_`, the last nonzero elapsed time (`velocityDt_`), and as a ghost which reports the filter has seen |
| `TrackManager` | `trackmanager.cpp`, outside of `chooseFromRated` | `tracks_`; one iteration of `initializeTracks` per step |
| `DataAssociator` | `dataassociator.cpp` | one iteration of `compute()`'s loop per step: choice, removal from the group, entry in the map, refresh |
| `DataManager` | `datamanager.cpp` and all the above | `pc` is the place in `computeState`; one call or one loop iteration per action |
| `AlignmentProcessor` | `alignmentprocessor.cpp` | the sweep, one iteration per action |
| `TrackInitialization` | `getRatedPairs`, `chooseFromRated` and helpers | every loop iteration, including the read at `end()` |
| `MessageQueue` | the promise of `BlockingQueue` | `Push`, `Pop`, and that values are popped |
| `BlockingQueue` | `blockingqueue.hpp` | lock, wait, notification, each a step; implements `MessageQueue` |
| `Application` | `main.cpp`, `Controller/`, `View/` | three threads over `MessageQueue` and Qt's event queue |
| `ReportManager` | `reportmanager.cpp`, `DRCursor` of `dyndbdriver.cpp` | one row per step, inserts between any two |
| `Timers` | `timersmanager.cpp`, `eventtimer.cpp` | client thread, io_service and worker threads; one handler, one iteration of a loop per step |
| `Fractions` | floating point numbers | exact fractions in lowest terms, and matrices of them |
| `ResultComparator` | `resultcomparator.cpp` and its use in `dataassociator.cpp` | a distance is a natural number; infinity and NaN are explicit |
| `Settings` | `configurationmanager.{h,cpp}`, the parameters of `DataManager`'s constructor | `map_`; one look-up per step |
| `StaticMap` | `StaticBaseDriver.cpp`, `DBDataStructures.cpp`, `getMap` | `connection_`, `staticMap_`; one query per step |
| `SnapshotLog` | the promise of `TracksSnapshot` | snapshots appear whole or never, under numbers of their own |
| `TracksSnapshot` | `TracksSnapshot` and `Transactor` of `dyndbdriver.cpp`, pqxx and server external | one row, attempt or commit per step; implements `SnapshotLog` |
| `Process` | `main.cpp`, constructors, `computeState` and `showState` as seen by files and databases | `pc` is the place in the program; every step may fail as the code lets it |
| `KalmanFilter` | `estimationfilter.hpp` and the matrices of `datamanager.cpp` | one record per filter, one operator per method |
| `TrackEstimation` | `track.cpp`, `initializeTrack`, the cloned filters | one measurement per step |
| `DataManager_proofs`, `ReportManager_proofs`, `Process_proofs`, `TrackEstimation_proofs`, `Application_proofs` | theorems about the module of that name | |
| `Algorithms_proofs` | theorems about `AlignmentProcessor` and `TrackInitialization` | |
| `Common_proofs` | theorems about `BlockingQueue` and `Timers` | |
| `Fractions_proofs` | lemmas about fractions, sums and matrices of them | used by `Process_proofs` and `TrackEstimation_proofs` |
| `MC*` | small instances for TLC | |

`DataManager` composes by `EXTENDS` the modules whose variables it shares:
`DetectionReport` <- `Track` <- `TrackManager` <- `DataAssociator` <- `DataManager`.
Two components appear there by their result, and a module of their own shows that
the code computes that result: `AlignedGroup` (`AlignmentProcessor`,
`GroupsAreAligned`) and "any partition" (`TrackInitialization`,
`ResultIsPartition`). `Application` uses the queue through `MessageQueue`, which
`BlockingQueue` implements, and `computeState` as a step that returns or throws.
`Process` extends `Settings` (which extends `ResultComparator`), `StaticMap` and
`TracksSnapshot`, whose actions it puts in the order of the program and of its
failures; what `DataManager` takes as "stored, or the process is over" is there the
outcome of a retried transaction. `TrackEstimation` extends `KalmanFilter`.

### Abstractions

* In the pipeline, which reports pass a threshold is arbitrary; in
  `TrackInitialization` a rating is an arbitrary symmetric number. How a rating is
  computed is in `ResultComparator` alone. Features are never set by the program.
* Numbers are exact fractions in place of doubles: rounding is not modelled. The
  filter's matrices consist of two equal blocks, so `KalmanFilter` is one axis of it,
  in units in which the noise, 0.001, is 1. Since the measurement model includes the
  velocity, a measurement is compared with position *plus* velocity; the velocity a
  track computes is put into the measurement vector behind the elements the filter
  takes, and never reaches it.
* Written settings are words or fractions; what decides is whether a key is there and
  whether its value can be cast. Counts and times, which the code converts to unsigned
  integers, are not negative; rates may be. `lexical_cast` also takes "inf" and "nan"
  for doubles; no site writes them, so `RatingIsSound` is about finite settings.
* `ORDER BY` fixes the order of rows whose sensor time or upload time differ. Rows equal
  in both are tied, and each query orders them as it likes (`Pages`).
* An element of `DR` in `DataManager` is one *delivery*; a row fetched twice
  (`ReportManager`) is two elements with one sensor time.
* Time 0 is `ptime_t()`, which the code uses as "no time". Sensors start at 1. The
  clock given to `computeState` is assumed not to go back; sensors' times may be
  ahead of it.
* Random uuids never repeat. Ids of the sequence are unique.
* A failing query or transaction throws out of the controller thread, which ends
  the process (`DatabaseFails`, `VisitThrows`, `Process!Throw`). pqxx's `perform` is
  modelled from its documented behaviour: three attempts, but none after an
  unanswered COMMIT, which may still take effect later (an *orphan*).
* A restarted program starts with the same databases and possibly other files.
  Files do not change while it runs.
* The order in which a `std::set` of pointers is visited is arbitrary.
* Undefined behaviour: `getNextAlignedGroup` without a return gives the caller its
  local set, which the repository's own tests rely on; reading the tuple at `end()`
  (`CompareEnd`) either matches nothing or ends the process.
* Queued Qt signals are a FIFO sequence; the streets of the map are one signal.

## Runs

| Run | Instance | Shows |
|---|---|---|
| `data_manager` | 4 deliveries, one pair of the same second, one beyond TTL of the first; TTL 2, dt 1, clock up to 5; 200,237 states | the pipeline's six invariants and that `computeState` returns |
| `elapsed` | same | **violated**: the elapsed time of `track.h:93` is not the time since the last measurement |
| `zombie` | same | **violated**: fused associations include removed tracks |
| `alignment_processor` | 4 reports, two collections, up to 4 groups | the sweep returns exactly the aligned groups |
| `track_initialization` | all groups of up to 4 reports, ratings 0..2, threshold 1 | initialization is a partition around matching seeds and terminates |
| `blocking_queue` | 2 producers pushing twice, 2 consumers | mutual exclusion, no lost wakeup, implements `MessageQueue` |
| `application` | 2 ticks, 2 tracks, Quit chosen up to twice | scenes are not mixed, feedback is bounded, quitting is orderly |
| `report_manager` | 5 rows, two of them tied, packets of 2, inserted in every order; 58,938 states | paging under inserts |
| `timers` | 3 timers, 2 threads, started before, during and after firing | callables do not overlap, timers keep firing, stopTimers is final |
| `process` | 2 snapshots, 2 tracks, 2 streets, 3 attempts, 17 ways files and tables may be; 332,221 states | snapshots are whole under retries, doubt and restarts; ticks end; what settings can and cannot do |
| `static_connection` | same | **violated**: the map is read through a null connection |
| `track_estimation` | 2 tracks, 3 places, 2 reports to start from, 2 more applied and a third looked at; 15,400 states | tracks stay apart, corrections approach, the covariance is optimal |

The bounds are chosen so that each mechanism happens at least twice in a behaviour.
Four deliveries are enough for an existing track to claim, refuse, expire and
leave a stale entry while another group is processed, and for two members of one
new track beside a leftover. In `alignment_processor` report 4 lies exactly dt
after 2 and 3 and just too far from 1. Four reports are the least on which a set
grows beyond its seeds while another pair remains, and three ratings give ties and
values below, at and above the threshold. Two consumers, one more than the program
has, are the least that can steal a wakeup from one another. Two ticks let one
snapshot be drawn while the next is emitted. Five rows in packets of two give
full, partial and empty pages; rows 1, 2 and 5 share a second, and 2 and 5
are tied: where row 1 is before them, they lie on both sides of a border of pages, and
pages and cursors break inside a second with ids in either order; inserted after rows 3 and 4 of the next second they are late, and they
are the least for which a page goes back in time (`TimeNeverGoesBack` with three
late rows allowed instead of one is violated here). With three timers for two threads one
timer has no worker of its own: stopTimers does not cancel it, and it fires only
because others' workers take its handlers. Two snapshots let an orphan of the first
meet the second, in the same process or after a restart; two tracks are the least
that can be stored partly; two streets that meet let one be added between the two
queries while the other is read. The 17 sites of `process` are complete settings in
five forms (as in the repository, fractions, zeros, negative rates, words), settings that lack one
option each, an unknown mode, and each missing file or table. Reports are rated at
distances 0 to 3: at the track, within the maximum rate's reach, and beyond. In `track_estimation`
two tracks share the prototype and can be removed and created again; exact fractions
outgrow TLC's integers with the fourth correction, and by the third the filter's gain
is close to its limit.

The bounds are constants: `MaxTime`, `MaxRate`, `MaxCollections`, `MaxGroups`,
`MaxPushes`, `MaxTicks`, `MaxQuits`, `MaxSnapshots`, `MaxDistance`, `MaxGroup`, `MaxReports`, and the
finite sets `DR`, `TrackId`, `Place`, `Street` and `Site`. `Attempts` is pqxx's default.
`track_estimation` takes tracks as symmetric; it checks no liveness.
`CHECK_DEADLOCK` is off where a model stops by design: a process that ended or
has used up its bounded inputs, a function that returned.

Every property of a passing run has a *mutant*: a change a plausible bug would make
(the operators whose comment begins with "Mutant"), under which TLC finds the
property violated.

### Fairness

* `DataManager`: weak fairness of the steps of a `computeState` under way. It is a
  sequential function on a thread that is not suspended. Nothing obliges a tick to
  come. That `computeState` returns rests on there being finitely many reports: the
  drain of `compute()` has no bound of its own.
* `TrackInitialization`: weak fairness of the function's steps.
* `BlockingQueue`: a thread that is inside `push` or holds the mutex goes on (weak);
  a consumer that contends for the mutex gets it eventually (strong), and calls
  `pop` again, as the main loop does. Producers need never push, and spurious
  wakeups need not happen.
* `Application`: the controller thread and the GUI's event loop keep running. The
  timer and the user are free.
* `Process`: a tick under way goes on (weak), since it is sequential code; and the
  server decides a COMMIT or the connection's loss is noticed (weak), since the code
  sets no timeouts of its own. Ticks need not come, the program need not be started.
* `Timers`: threads run, callables return, and a call of stopTimers goes on (weak).
  A deadline that has passed is noticed only while some thread is inside `run()`;
  threads leave it for handlers over and over, so expiry needs strong fairness.

### Disagreements between the code and its documentation

1. `velocity` (`elapsed`): `DataAssociator::compute` refreshes a track with the
   newest report before `applyMeasurement` takes the difference, so for associated
   reports it is zero or negative. `ElapsedNeverPositive` holds and is proved:
   velocities can only be computed from negative times.
2. Stale associations (`zombie`): `associatedDRs_` is never cleared.
   `OneTrackPerReport` shows that the re-fused reports stay within their track.
3. The map (`static_connection`): `StaticBaseDriver::connect` swallows the exception
   its header promises; `getStreetNodes` then dereferences null.

Others, met while modelling and visible in the modules, have no run:

* Tied rows. The query orders by sensor time and upload time, which may both be equal
  (`upload_time` defaults to the time of the transaction, `insertDR` writes whole
  seconds, no constraint forbids it), and each page is a query of its own. Against
  `reportmanager.h:18`, "Each invokation gives another part of DRs", a row may then come
  twice and another, tied with it, not at all, in a table nobody writes to: of rows 1, 2
  and 5 of the instance, where 2 and 5 are tied, the pages may be 1, 2 and then 2 again.
  A row left out that has a lower id than the last row fetched is not found by later
  cursors either. `PresentRowsAreFetched` says what remains true: of each key as many
  rows are received as were there.
* The width of a group. `alignmentprocessor.h` has the differences "lower than dt" in
  lines 29 and 37-38, and "not higher than dt_" in line 49. The code compares with `<=`,
  the tests agree with it, and `GroupsAreAligned`, whose mutant is the other reading,
  follows the code: two reports of one group may be exactly dt apart.
* `alignmentprocessor.h:46-47` promises the exception `NoDRsAvailable`; nothing
  throws it, the end of a collection is an empty group (`CallGetNextAlignedGroup`),
  and `DataManager::compute` relies on that.
* `trackmanager.h:51-52` says the threshold decides whether two reports are of the
  same track; it holds between each member and two seeds, not between any two
  members (`ThresholdDecides` says exactly what holds).
* `dataassociator.h:26-27` and `:138` speak of reports rated *above* the threshold;
  `dataassociator.cpp:149` compares with `>=`. With the default threshold of 1.0 and
  rates of at most 1, only the latter can choose a report at all.
* Rows that are not tied come twice too, when their ids and times disagree in order
  (`reportmanager.h:18` again); `OnceInOrder` says when they do not. Nor do seconds
  always go on, although `reportmanager.h:19` has the reports ordered by time: each
  page is asked for by its offset in a table that grows, and two late rows inserted
  between two pages shift an earlier second into the next one. `TimeNeverGoesBack` says so exactly.

## Proofs

Eight modules hold theorems, for every value of the constants and every number of
steps: every invariant and every action property that a passing run checks is proved,
and what remains to TLC is liveness. They rest on the assumptions the modules name, which TLC evaluates on its
instances; none of the properties is inductive, and each proof is an invariant with
one lemma per action, from which the theorems follow by one temporal step. TLC
checked each invariant on the run's instance before it was proved.

| Module | Theorem | Property |
|---|---|---|
| `DataManager_proofs` | `TypeCorrect` | `[]TypeOK` |
| | `ReportsHaveOneTrack` | `[]OneTrackPerReport` |
| | `ReportsAreNotLost` | `[]NoReportLost` |
| | `RefreshCorrect` | `[]RefreshIsNewestMeasurement` |
| | `ElapsedIsNeverPositive` | `[]ElapsedNeverPositive` |
| | `SnapshotIsExact` | `[]SnapshotExact` |
| `ReportManager_proofs` | `FetchedOnceInOrder` | `[]OnceInOrder` |
| | `ReportsFollowTime` | `TimeNeverGoesBack` |
| | `NoKeyFallsShort` | `PresentRowsAreFetched` |
| `Algorithms_proofs` | `ReportsArePartitioned` | `[]NothingLostOrRepeated` |
| | `SweepComputesAlignedGroups` | `[]GroupsAreAligned` |
| | `ResultPartitionsTheGroup` | `[]ResultIsPartition` |
| | `TheThresholdDecides` | `[]ThresholdDecides` |
| `Common_proofs` | `TypeCorrect` | `[]TypeOK` |
| | `MutexExcludes` | `[]MutualExclusion` |
| | `WakeupsAreNotLost` | `[]NoLostWakeup` |
| | `ImplementsSafety` | `MQ!MQSafety`, the safety part of `ImplementsMessageQueue` |
| | `TimersTypeCorrect` | `[]TimersTypeOK` |
| | `NoOverlap` | `[]CallbacksDoNotOverlap` |
| | `StopIsFinal` | `[]NoCallbackAfterStop` |
| `Process_proofs` | `TypeCorrect` | `[]TypeOK` |
| | `RatingsAreSound` | `[]RatingIsSound` |
| | `OutcomesAreKnown` | `[]OutcomeIsKnown` |
| | `SnapshotsAreALog` | `ImplementsSnapshotLog` |
| | `SettingsSurpriseOnce` | `OnlyTheDatabaseStopsIt` |
| | `CompleteSettingsSuffice` | `[]HealthyProcessKeepsRunning` |
| `TrackEstimation_proofs` | `TracksAreApart` | `[]TracksStayApart` |
| | `MeasurementsAttract` | `[]CorrectionApproaches` |
| | `TheGainIsTheBest` | `[]CovarianceIsOptimal` |
| `Application_proofs` | `TypeCorrect` | `[]TypeOK` |
| | `OneSnapshotIsDrawn` | `[]SceneIsOneSnapshot` |
| | `ControllerEndsFirst` | `[]GuiOutlivesController` |
| | `FeedbackDoesNotGrow` | `[]FeedbackIsBounded` |

### DataManager

Assumptions: `DRAssumption`, `TTLAssumption`, `DtAssumption`. The invariant is
`IInv == TypeOK /\ OwnershipInv /\ PhaseInv /\ RefreshInv /\ ExpiryInv`:

* `OwnershipInv`: each track *owns* its measurements, the reports associated with
  it and those it was initialized from; no two tracks own a report, and no owned
  report is still in a group or waiting in the aligned collection. It needs the
  stale entries of removed tracks to be among those tracks' own measurements.
* `PhaseInv`: at each place of `computeState`, every delivered report is in a
  filter or in the one stage that still has to pass it on, and stages that are over
  are empty.
* `RefreshInv`: the refresh time is the highest time over measurements *and* the
  associations not fused yet: association moves the refresh time before fusion
  moves the reports, so `RefreshIsNewestMeasurement` holds between packets only.
* `ExpiryInv`: removed tracks are older than TTL with respect to every later
  present, in both modes, so that removal in one computeState is still right in a
  later one; in batch mode this needs that the present never goes back although the
  track that defined it may have gone.

### ReportManager

Each row has a *rank*, the number of selected rows that the query must put before it,
and a *reach*, the number that it may put no later (the row itself and those tied with
it included); a query gives the row a place from its rank to below its reach. Rows are
only added, so neither ever falls, and that is what the proof is about, for any rows, any
times, ties among them, and any size of a packet (`DRAssumption`; `StampAssumption`
demands numbers, not that they differ). The invariant, beside the types:

* `FromTable`, `NewCursor`, `Sorted`: a cursor starts from the row fetched last, and
  what it has at hand is not before that row in the order of the query.
* `PagesOfPresent`: among the rows present at the first query, those handed over or at
  hand rank below the pages still to come.
* `ReceivedRows`, `LowerInPlace`, `UpperFar`: the places of a cursor's pages, in the order
  of offsets. A row before d was received below the rank of d at the time, and a row
  after d, or nothing, only from the reach of d on; so between the last row before d and the
  first place that holds none of its key there is room for all rows tied with d that were
  present. When the page at an offset is empty that offset is beyond the reach of d, so
  all these places are taken, by rows of d's key: `PresentRowsAreFetched`
  (`DryCursor`), whatever is inserted in between. It counts rows by key; which of the
  tied rows come is not determined.
* A page that is asked for may begin before the row fetched last, and does so by at most
  as many rows as came late. One late row cannot bring back a second already left, since
  the row that is shifted over the edge of the page is the one fetched last itself, or one
  tied with it; two can, which is why `TimeNeverGoesBack` counts them.
* `PagesInOrder`, `NoneLeftBehind`: with rows in order nothing is tied or shifted, no row
  comes twice, and every row is fetched or will be selected by the next query.

### AlignmentProcessor and TrackInitialization

These two justify what `DataManager` takes in one step. `AlignedInv` says that the
group under construction holds reports within Dt of the first of all that were
there when it began, although the code looks only at the head of what is left; the
sweep stops at the first report that is too late, and the order of `std::less` is
by time, so none within Dt stays behind.

`chooseFromRated` needs six parts beyond the types:

* `TuplesInv`: the pairs left are of unclaimed reports, and of each matching pair
  that is gone one report was claimed. At the end no pair is left, which is why two
  matching reports are never both alone.
* `ClaimsInv`: `used` is the union of the sets made, and the set under construction
  is disjoint from them.
* `SetsInv`, `SweepInv`: a set has two seeds (`AreSeeds`), and what the sweep has
  still to look at is paired with its seed.
* `RemoveInv`: the pairs before the iterator have survived the comparison with every
  report of the set. When the iterator reaches the end, all of them have, so the
  removal is complete: the inner loop that goes on with the next pair after erasing
  one, and the read at `end()`, can neither erase too much nor leave a pair behind.
  This rests on `tuple_less` being a strict total order (`TupleOrder`,
  `TupleLessIsTransitive`) and on `AfterIsNext`.
* `DoneInv`: the two conclusions.

### BlockingQueue, Application and Timers

The queue's proof is for any finite sets of threads (`ThreadAssumption`).
`PlaceInv` says that the blocked consumers are exactly those that wait and that the
queue a consumer has tested under the mutex is not empty when it takes. That gives
mutual exclusion and, with the mapping of `queue_` to the abstract queue, each step
as an atomic push, an atomic pop or a stutter
(`ProducersPush`, `ConsumersPop`). `NoLostWakeup` is a counting
argument over finite sets: while somebody is blocked, each push that appends has a
notification to come, and each consumer that leaves takes a value with it.

`Application` assumes the messages it sends to be values of the queue and that
there is a consumer (`MessageAssumption`). `SceneIsOneSnapshot` needs that between
tracks of two snapshots, queued or drawn, there is a clearing of the scene
(`SceneInv`); `GuiOutlivesController` the order close, threadQuit, applicationQuit
(`QuitInv`). `FeedbackIsBounded` is not preserved by itself: a tick that is handled
turns into a clearing. What is preserved counts ticks not handled yet as well
(`FeedbackInv`).

In `Timers` a timer is in one place at a time, waiting, queued or in the hands of
one worker (`OnePlaceInv`), so its callable cannot overlap itself; after `stopTimers`
the io_service stays stopped, for workers that are added later too (`StopInv`).

### Process

* `StoreInv` is about the store alone. What an orphaned transaction may still add
  carries a number nothing else has or will have (`OrphansAreAlone`); the client's
  number is the greatest there is (`NewestIsOurs`); a transaction about to commit
  holds all the tracks; and the rows of the current snapshot are all there or all
  absent (`CommittedOrAbsent`). From it follow `OutcomeIsKnown` and, one action of
  the log or a stutter for each step, the refinement of `SnapshotLog`; the steps of the
  rest of the program leave the log alone (`Aside`).
* `LookedUpInv`: an option found once is found again, since `map_` changes at the
  start only, which makes `OnlyTheDatabaseStopsIt` hold.
* `HealthyInv`: with a complete set of settings every look-up succeeds and every cast
  has a default (`SettingsInv`), and the streets read so far have their ends among
  the vertexes asked for (`ClosedMapInv`).

* `TypesInv`: the numbers of snapshots and of attempts stay in their ranges
  (`BoundsAssumption`), and the parameters read are what their casts can give
  (`ParametersInv`), because what the program holds is what the site has written
  (`HeldInv`, `SiteAssumption`).
* `RatingIsSound` is a fact about the values of fractions once the parameters are known
  to be numbers: how two rates compare is how their cross products do, for any distance,
  and with a maximum rate of zero or below the rates are infinite, NaN or negative, each
  a case of its own (`NaNAssumption`: NaN is no fraction).

### Fractions and TrackEstimation

Fractions are kept in lowest terms by `Gcd`, a recursive function. `Fractions_proofs`
shows that this function exists and is the greatest common divisor without an induction
over an operator: a set of natural numbers that is not empty has a least element
(`LeastExists`), so were there an argument on which the function is wrong, there would be
a least one, and the step of Euclid's algorithm (`GcdStep`) excludes it. Sums over
sequences are treated likewise (`SumExists`, `SumIsUnique`). From then on a fraction is
known by any pair of integers of the right proportion (`NumbersAgree`, `NumberForm`), and the
matrices of one axis are written as four integers over one denominator (`Matrix`,
`Vector`, `Single`), whose products and sums are integer expressions.

The filter's invariant is `Expects(f, m, v, n, a, b, c, d)`: the predicted state is
`(m/n, v/n)`, its covariance `(a b; b c)/d`, and `Uncertain` says that `a`, `c`, `d` are
positive, `b` is not negative and `a c > b^2`. The number the gain divides by,
`a + 2 b + c + d`, is then positive, so the assertion in `correct` holds, and

* `StaysUncertain`: a correction shrinks the determinant but keeps it positive, since
  measurement noise is above 0, and a prediction adds process noise;
* `JosephIs`: the form of the covariance the code computes equals the shorter one
  that holds for the best gain only, as an identity of integers;
* `CorrectionIsBetween`: the expected measurement after a correction is a weighted mean
  of the one before and the measurement, with weights above 0. So corrections approach,
  and a track that has seen one place only stays exactly there (`MeanIsNumber`: so does
  the mean a new track starts from);
* `FiltersInv` says that the prototype is never touched; that every live track
  has the filter of its own name, which only its own steps change (`EstimatesInv`), keeps
  the tracks apart. `FilterAssumption`: the prototype is no track's filter.

Places and elapsed times are any sets of integers (`PlaceAssumption`); `MaxGroup` and
`MaxReports` are any numbers, and the invariant does not depend on them.

### Model-checked only

Liveness, which is beyond this prover: `ComputeStateReturns`, `Terminates`, that values
are popped (the rest of `ImplementsMessageQueue`), `QuitEndsProcess`, `BackgroundReturns`,
`StopTimersReturns`, `TimersFire`, `TickEnds`. The three violated properties are TLC's
counterexamples.

An earlier form of `TimeNeverGoesBack`, without the condition on late rows, held on the
run's instance for lack of late rows only; two dozen other choices of times, orders and
packets showed that before the present form was proved.

## Not modelled

Rounding of floating point numbers, metersOverSea (never estimated), `TimeoutWait`
(never instantiated), single-shot timers and timers of interval 0 (never created),
the `And` comparators, features, the filter's control input and setters, a static
driver that is not persistent (all never used), the logger, the objects
`SensorFactory` makes and nobody uses, coordinates of the map, window and menu
details. See `components` and `hazards` in `PROJECT.json`, where each
hazard names the properties that cover it or says why none does, or which of its
outcomes they accept: an exception that ends the process, the read at `end()` that may,
a function without a return under another build, a drain that reports keep going.

## Plan

Done: the core pipeline and its proofs; alignment; initialization; the queue and
its refinement; the application; the report manager; the timers; the process with
its settings, its map and the storing of snapshots, refining `SnapshotLog`; the
estimation of tracks.

The safety properties of all runs are proved.

What could follow:

1. The pipeline as a client of the two algorithms it takes in one step: that
   `AlignedGroup` and the partition are what their modules return is proved of those
   modules, but the composition is by reading the two statements together.
2. The liveness of the pipeline from a decreasing count of reports under way, when the
   prover can do it.
3. Rounding: how far `double` estimates and rates may be from the exact ones.
