------------------------------ MODULE StaticMap ------------------------------
(***************************************************************************)
(* The map of the town: StaticBaseDriver (src/src/3rdparty), which reads   *)
(* it from two tables with two queries, and DataManager::getMap, which     *)
(* keeps it.  A street is a pair of nodes; a node matters as the end of a  *)
(* street only.  The driver is persistent: DataManager constructs no other.*)
(***************************************************************************)
EXTENDS FiniteSets

CONSTANTS
  Street,     (* the streets that may be built, pairs of nodes             *)
  Null,       (* the driver's connection_ when connecting failed           *)
  NoMap       (* staticMap_ before the map was read                        *)

VARIABLES
  streets,      (* the table Streets; StreetNodes holds their ends         *)
  connection_,  (* the driver's: Null or "open"                            *)
  vertexes,     (* getMap's local: the nodes read                          *)
  staticMap_    (* DataManager's                                           *)

mapVars == <<streets, connection_, vertexes, staticMap_>>

Ends(S) == {s[1] : s \in S} \cup {s[2] : s \in S}

StaticMapInit ==
  /\ streets \in SUBSET Street
  /\ connection_ = Null /\ vertexes = {} /\ staticMap_ = NoMap

ClearStaticMap == connection_' = Null /\ vertexes' = {} /\ staticMap_' = NoMap

(* Somebody adds a street, and its nodes with it, in one transaction.      *)
AddStreet ==
  /\ \E s \in Street \ streets : streets' = streets \cup {s}
  /\ UNCHANGED <<connection_, vertexes, staticMap_>>

(* connect() catches every exception and leaves NULL.                      *)
Connect == connection_' = "open" /\ UNCHANGED <<streets, vertexes, staticMap_>>

ConnectFails == connection_' = Null /\ UNCHANGED <<streets, vertexes, staticMap_>>

(* getStreetNodes                                                          *)
ReadNodes ==
  /\ connection_ # Null
  /\ vertexes' = Ends(streets)
  /\ UNCHANGED <<streets, connection_, staticMap_>>

(* The rest of getMap; DataManager keeps the result.  Street's constructor *)
(* looks for both ends among the nodes read.  It dereferences end() for an *)
(* end it does not find: Process has that this may end the process; when   *)
(* it does not, the street has an end outside of the map.                  *)
ReadStreets ==
  /\ staticMap_' = [vertexes |-> vertexes, edges |-> streets]
  /\ vertexes' = {}
  /\ UNCHANGED <<streets, connection_>>

IsDangling == ~ (Ends(streets) \subseteq vertexes)

=============================================================================
