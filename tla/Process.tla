------------------------------- MODULE Process -------------------------------
(***************************************************************************)
(* The life of the program from its start to its end, as far as files and  *)
(* databases decide it: main() reads the settings, DataManager connects to *)
(* two databases and reads parameters and sensors, the first message asks  *)
(* for the map, and every timer tick computes, stores and shows a state.   *)
(* All of it is one sequence of steps, in main and then in the controller  *)
(* thread; an exception anywhere in it is caught nowhere and ends the      *)
(* process.  Somebody starts it again, with other files perhaps.  The      *)
(* threads around the controller are in module Application, the pipeline   *)
(* that computes the tracks is in module DataManager.                      *)
(***************************************************************************)
EXTENDS Settings, StaticMap, TracksSnapshot

CONSTANTS
  MaxSnapshots,  (* bound: how many numbers of snapshots are drawn         *)
  MaxDistance    (* bound: how far from a track the rated reports are      *)

ASSUME BoundsAssumption == MaxSnapshots \in Nat /\ MaxDistance \in Nat

VARIABLES
  pc,       (* where the process is                                        *)
  tracks,   (* the tracks of the model                                     *)
  rated,    (* ghost: some report was rated since the start                *)
  drawn,    (* ghost: some track was drawn since the start                 *)
  failed,   (* ghost: a database failed, at the start or in this tick      *)
  raced     (* ghost: a street was added between the two queries of getMap *)

ghostVars == <<rated, drawn, failed, raced>>
vars == <<settingsVars, mapVars, storeVars, pc, tracks, ghostVars>>

Init ==
  /\ SettingsInit /\ StaticMapInit /\ TracksSnapshotInit
  /\ pc = "off" /\ tracks = {}
  /\ rated = FALSE /\ drawn = FALSE /\ failed = FALSE /\ raced = FALSE

Running == pc \notin {"off", "aborted"}

Start ==
  /\ ~ Running
  /\ site' \in Site
  /\ pc' = "load" /\ failed' = FALSE /\ raced' = FALSE
  /\ NewClient
  /\ UNCHANGED <<map_, parameters, mapVars, databaseVars, tracks, rated, drawn>>

(* The memory of the process goes with it.                                 *)
End(place) ==
  /\ pc' = place
  /\ ClearSettings /\ ClearStaticMap
  /\ tracks' = {} /\ rated' = FALSE /\ drawn' = FALSE
  /\ UNCHANGED <<site, streets, raced>>

(* An exception nobody catches, an assertion that fails.                   *)
Throw == End("aborted")

-----------------------------------------------------------------------------
(* main() and the constructors it calls                                    *)

LoadSettings ==
  /\ pc = "load" /\ CanBeLoaded
  /\ Load
  /\ pc' = "connect"
  /\ UNCHANGED <<site, parameters, mapVars, storeVars, tracks, ghostVars>>

LoadSettingsThrows ==
  /\ pc = "load" /\ ~ CanBeLoaded
  /\ Throw /\ UNCHANGED <<storeVars, failed>>

(* DynDBDriver's constructor                                               *)
ConnectDynDb ==
  /\ pc = "connect" /\ site.optionsXml
  /\ pc' = "connectStatic"
  /\ UNCHANGED <<settingsVars, mapVars, storeVars, tracks, ghostVars>>

LoadOptionsThrows ==
  /\ pc = "connect" /\ ~ site.optionsXml
  /\ Throw /\ UNCHANGED <<storeVars, failed>>

(* StaticBaseDriver's constructor, which does not throw                    *)
ConnectStaticDb ==
  /\ pc = "connectStatic"
  /\ \/ Connect /\ UNCHANGED failed
     \/ ConnectFails /\ failed' = TRUE
  /\ pc' = "construct"
  /\ UNCHANGED <<settingsVars, storeVars, tracks, rated, drawn, raced>>

(* DataManager's constructor: CandidateSelector reads the sensors when two *)
(* parameters have been read; the view then asks for the map.              *)
Construct ==
  /\ pc = "construct"
  /\ ReadParameter
  /\ pc' = CASE Len(parameters') = 2 -> "sensors"
             [] Len(parameters') = Len(ParameterOrder) -> "getMap"
             [] OTHER -> "construct"
  /\ UNCHANGED <<mapVars, storeVars, tracks, ghostVars>>

ConstructThrows ==
  /\ pc = "construct"
  /\ ~ IsInConfiguration(ParameterOrder[Len(parameters) + 1])
  /\ Throw /\ UNCHANGED <<storeVars, failed>>

GetSensors ==
  /\ pc = "sensors" /\ site.sensors
  /\ pc' = "construct"
  /\ UNCHANGED <<settingsVars, mapVars, storeVars, tracks, ghostVars>>

NoSensorsThrows ==
  /\ pc = "sensors" /\ ~ site.sensors
  /\ Throw /\ UNCHANGED <<storeVars, failed>>

-----------------------------------------------------------------------------
(* The first message: the map is read and kept.                            *)

(* getMap and then getStreetNodes call ensureDBConnection.                 *)
EnsureDBConnection ==
  /\ pc \in {"getMap", "getStreetNodes"}
  /\ \/ connection_ # Null /\ UNCHANGED <<mapVars, failed>>
     \/ connection_ = Null /\ Connect /\ UNCHANGED failed
     \/ connection_ = Null /\ ConnectFails /\ failed' = TRUE
  /\ pc' = IF pc = "getMap" THEN "getStreetNodes" ELSE "nodes"
  /\ UNCHANGED <<settingsVars, storeVars, tracks, rated, drawn, raced>>

(* getStreetNodes goes on to use the connection.                           *)
GetStreetNodes ==
  /\ pc = "nodes" /\ connection_ # Null
  /\ ReadNodes
  /\ pc' = "streets"
  /\ UNCHANGED <<settingsVars, storeVars, tracks, ghostVars>>

GetStreetNodesOfNull ==
  /\ pc = "nodes" /\ connection_ = Null
  /\ Throw /\ UNCHANGED storeVars /\ failed' = TRUE

GetStreets ==
  /\ pc = "streets"
  /\ ReadStreets
  /\ pc' = "idle"
  /\ UNCHANGED <<settingsVars, storeVars, tracks, ghostVars>>

EndDereferenced ==
  /\ pc = "streets" /\ IsDangling
  /\ Throw /\ UNCHANGED <<storeVars, failed>>

-----------------------------------------------------------------------------
(* A timer tick: computeState and showState                                *)

WorkModes == {Word("online"), Word("batch")}

IsWorkModeKnown == IsInConfiguration(WorkMode) /\ Value(WorkMode) \in WorkModes

VisitTimerTick ==
  /\ pc = "idle" /\ sequence < MaxSnapshots
  /\ IsWorkModeKnown /\ LookUp(WorkMode)
  /\ pc' = "compute" /\ failed' = FALSE
  /\ UNCHANGED <<site, parameters, mapVars, storeVars, tracks, rated, drawn, raced>>

VisitTimerTickThrows ==
  /\ pc = "idle" /\ sequence < MaxSnapshots
  /\ ~ IsWorkModeKnown
  /\ Throw /\ UNCHANGED storeVars /\ failed' = FALSE

(* computeTracks without a rating: no reports came, or one group of them   *)
(* when there were no tracks.  Tracks may expire.                          *)
ComputeTracksUnrated ==
  /\ pc = "compute"
  /\ tracks' \in IF tracks = {} THEN SUBSET TrackId ELSE SUBSET tracks
  /\ pc' = "number"
  /\ UNCHANGED <<settingsVars, mapVars, storeVars, ghostVars>>

(* computeTracks with some report rated for some track                     *)
ComputeTracksRated ==
  /\ pc = "compute"
  /\ LookUp(MaximumPositionRate)
  /\ tracks' \in SUBSET TrackId
  /\ rated' = TRUE
  /\ pc' = "number"
  /\ UNCHANGED <<site, parameters, mapVars, storeVars, drawn, failed, raced>>

RatingThrows ==
  /\ pc = "compute"
  /\ ~ IsInConfiguration(MaximumPositionRate)
  /\ Throw /\ UNCHANGED <<storeVars, failed>>

PutTracksSnapshotIntoDB ==
  /\ pc = "number"
  /\ GetNewTracksSnapshot(tracks)
  /\ pc' = "store"
  /\ UNCHANGED <<settingsVars, mapVars, tracks, ghostVars>>

(* perform, until it returns ...                                           *)
StoreTracks ==
  /\ pc = "store"
  /\ BeginTransaction \/ (\E t \in TrackId : InsertTrack(t)) \/ Commit \/ CommitReturns
  /\ pc' = IF outcome' = "stored" THEN "show" ELSE "store"
  /\ UNCHANGED <<settingsVars, mapVars, tracks, ghostVars>>

(* ... or throws: after the last attempt, or in doubt.                     *)
StoreTracksFails ==
  /\ pc = "store"
  /\ AttemptFails \/ LoseCommit
  /\ failed' = TRUE
  /\ IF outcome' = "pending"
     THEN UNCHANGED <<settingsVars, mapVars, pc, tracks, rated, drawn, raced>>
     ELSE Throw

ShowNothing ==
  /\ pc = "show" /\ tracks = {}
  /\ pc' = "idle"
  /\ UNCHANGED <<settingsVars, mapVars, storeVars, tracks, ghostVars>>

ShowState ==
  /\ pc = "show" /\ tracks # {}
  /\ LookUp(VarianceFactor)
  /\ drawn' = TRUE
  /\ pc' = "idle"
  /\ UNCHANGED <<site, parameters, mapVars, storeVars, tracks, rated, failed, raced>>

ShowStateThrows ==
  /\ pc = "show" /\ tracks # {}
  /\ ~ IsInConfiguration(VarianceFactor)
  /\ Throw /\ UNCHANGED <<storeVars, failed>>

-----------------------------------------------------------------------------
(* A query outside of perform fails: nothing is caught.                    *)
QueryFails ==
  /\ \/ pc \in {"connect", "sensors", "streets", "compute"} /\ UNCHANGED sequence
     \/ pc = "nodes" /\ connection_ # Null /\ UNCHANGED sequence
     \/ pc = "number" /\ LoseSnapshotId
  /\ Throw /\ failed' = TRUE
  /\ UNCHANGED <<track_snapshots, orphans, clientVars>>

(* Quit, a signal, the machine's end                                       *)
Stop ==
  /\ Running
  /\ Disconnect
  /\ End("off") /\ UNCHANGED failed

StreetIsAdded ==
  /\ AddStreet
  /\ raced' = (raced \/ pc = "streets")
  /\ UNCHANGED <<settingsVars, storeVars, pc, tracks, rated, drawn, failed>>

Server ==
  /\ ServerCommits \/ DecideOrphan
  /\ UNCHANGED <<settingsVars, mapVars, pc, tracks, ghostVars>>

-----------------------------------------------------------------------------
StartUp ==
  \/ LoadSettings \/ LoadSettingsThrows \/ ConnectDynDb \/ LoadOptionsThrows
  \/ ConnectStaticDb \/ Construct \/ ConstructThrows \/ GetSensors \/ NoSensorsThrows

GetMap ==
  \/ EnsureDBConnection \/ GetStreetNodes \/ GetStreetNodesOfNull
  \/ GetStreets \/ EndDereferenced

Tick ==
  \/ ComputeTracksUnrated \/ ComputeTracksRated \/ RatingThrows
  \/ PutTracksSnapshotIntoDB \/ StoreTracks \/ StoreTracksFails
  \/ ShowNothing \/ ShowState \/ ShowStateThrows

Next ==
  \/ Start \/ StartUp \/ GetMap \/ VisitTimerTick \/ VisitTimerTickThrows \/ Tick
  \/ QueryFails \/ Stop \/ StreetIsAdded \/ Server

Spec == Init /\ [][Next]_vars

(* A tick under way goes on, and the database answers a COMMIT or the loss *)
(* of the connection is noticed: the code has no timeouts.  Nothing        *)
(* obliges ticks to come or the process to be started.                     *)
FairSpec == Spec /\ WF_vars(Tick) /\ WF_vars(Server)

-----------------------------------------------------------------------------
TypeOK ==
  /\ site \in Site
  /\ \A m \in DOMAIN map_ : \A k \in DOMAIN map_[m] : <<m, k>> \in Option
  /\ Len(parameters) <= Len(ParameterOrder)
  /\ \A i \in DOMAIN parameters :
       parameters[i] \in Fraction /\ (ParameterOrder[i] \in Counts => parameters[i].num >= 0)
  /\ streets \subseteq Street /\ connection_ \in {Null, "open"}
  /\ vertexes \subseteq Ends(Street)
  /\ staticMap_ = NoMap \/ staticMap_.edges \subseteq Street
  /\ sequence \in 0 .. MaxSnapshots
  /\ track_snapshots \subseteq (1 .. MaxSnapshots) \X TrackId
  /\ \A o \in orphans : o.id \in 1 .. MaxSnapshots /\ o.tracks \subseteq TrackId
  /\ snapshotId_ \in 0 .. MaxSnapshots /\ tracks_ \subseteq TrackId
  /\ attempts \in 0 .. Attempts
  /\ transaction.state \in {"none", "open", "committing", "committed"}
  /\ transaction.inserted \subseteq TrackId
  /\ outcome \in {"none", "pending", "stored", "failed", "inDoubt"}
  /\ pc \in {"off", "load", "connect", "connectStatic", "construct", "sensors", "getMap",
             "getStreetNodes", "nodes", "streets", "idle", "compute", "number", "store", "show", "aborted"}
  /\ tracks \subseteq TrackId
  /\ rated \in BOOLEAN /\ drawn \in BOOLEAN /\ failed \in BOOLEAN /\ raced \in BOOLEAN

IsComplete(s) ==
  /\ s.settingsIni /\ s.optionsXml /\ s.sensors
  /\ DOMAIN s.options = Option /\ s.options[WorkMode] \in WorkModes

(* The settings are all that is needed: with every option written, in      *)
(* whatever form, known files and sensors, the process does not end by     *)
(* itself unless a database fails, and the map it keeps is closed unless   *)
(* the town was being rebuilt between the two queries that read it.        *)
HealthyProcessKeepsRunning ==
  IsComplete(site) /\ ~ failed /\ ~ raced =>
    /\ pc # "aborted"
    /\ staticMap_ # NoMap => Ends(staticMap_.edges) \subseteq staticMap_.vertexes

(* Options are looked up when they are first needed, some only when a      *)
(* report is rated or a track is drawn, and again each time.  A process    *)
(* that has done both once is past every such surprise: from then on only  *)
(* a failing database ends it.                                             *)
OnlyTheDatabaseStopsIt ==
  [][Running /\ rated /\ drawn /\ pc' = "aborted" => failed']_vars

(* ensureDBConnection ensures a connection ("throws an exception if        *)
(* failed", StaticBaseDriver.h:40): getMap goes on with one.               *)
ConnectionIsEnsured == pc = "nodes" => connection_ # Null

(* A tick comes to an end whatever the database does, by retries that run  *)
(* out: the queue behind it, Quit included, is read again or the process   *)
(* is over.                                                                *)
TickEnds == pc = "compute" ~> pc \in {"idle", "aborted", "off"}

(* The rating a tick makes with the threshold and the maximum rate it was  *)
(* given, whatever was written there.  The only group is always chosen,    *)
(* with matches or without, as module DataAssociator has it.  Where the    *)
(* maximum rate is positive and the threshold at most 1, rates lie between *)
(* 0 and 1, a report at the track's own place matches it, and a report     *)
(* matches when one farther away does.                                     *)
RatingIsSound ==
  LET M == CastedValue(MaximumPositionRate)
      threshold == parameters[4]
      Distance == 0 .. MaxDistance
      Rate(d, f) == DRRate(d, f, M)
      Match(d, f) == Matches(d, f, M, threshold)
      Rates(S) == SetToSeq({Rate(d, FALSE) : d \in {e \in S : Match(e, FALSE)}})
  IN  pc = "compute" /\ IsInConfiguration(MaximumPositionRate) =>
        /\ \A S \in SUBSET Distance : IsChosen(Rates(S))
        /\ Greater(M, Zero) /\ AtLeast(One, threshold) =>
             /\ \A d \in Distance, f \in BOOLEAN :
                  AtLeast(Rate(d, f), Zero) /\ AtLeast(One, Rate(d, f))
             /\ Match(0, FALSE)
             /\ \A d, e \in Distance, f \in BOOLEAN :
                  d <= e /\ Match(e, f) => Match(d, f)

=============================================================================
