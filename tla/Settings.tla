------------------------------- MODULE Settings -------------------------------
(***************************************************************************)
(* The settings of the program: the file settings.ini, the                 *)
(* ConfigurationManager filled from it, and the parameters read out of it. *)
(*   src/src/Common/configurationmanager.{h,cpp}                           *)
(* An option is <<module, key>>: the code splits its name at the first dot.*)
(* A written value is a word or a fraction in lowest terms.                *)
(***************************************************************************)
EXTENDS ResultComparator

CONSTANT
  Site     (* what a process may find when it is started, see SiteAssumption *)

(* The options settings.ini may have; any other is refused by the parser.  *)
PacketSize == <<"Model", "ReportManager.PacketSize">>
TimeDelta == <<"Model", "AlignmentProcessor.TimeDelta">>
InitializationThreshold == <<"Model", "TrackManager.InitializationThreshold">>
Threshold == <<"Model", "DataAssociator.Threshold">>
TTL == <<"Model", "DataManager.TTL">>
MaximumPositionRate == <<"Model", "ResultComparator.MaximumPositionRate">>
WorkMode == <<"Controller", "WorkMode">>
VarianceFactor == <<"View", "Renderer.VarianceFactor">>

(* A value that is not a number.                                           *)
Word(w) == [word |-> w]

Option == {PacketSize, TimeDelta, InitializationThreshold, Threshold, TTL,
           MaximumPositionRate, WorkMode, VarianceFactor}

(* Those that end up in unsigned integers: the conversion of a negative    *)
(* number is not modelled, so none is written there.                       *)
Counts == {PacketSize, TimeDelta, TTL}

IsNumber(written) == written \in Fraction /\ written = Number(written.num, written.den)

IsWritten(option, written) ==
  \/ DOMAIN written = {"word"}
  \/ IsNumber(written) /\ (option \in Counts => written.num >= 0)

(* settings.ini can be opened and parsed, and sets some of the options;    *)
(* options.xml can be parsed; the table of sensors has rows.               *)
ASSUME SiteAssumption ==
  \A s \in Site :
    /\ s.settingsIni \in BOOLEAN /\ s.optionsXml \in BOOLEAN /\ s.sensors \in BOOLEAN
    /\ DOMAIN s.options \subseteq Option
    /\ \A o \in DOMAIN s.options : IsWritten(o, s.options[o])

VARIABLES
  site,        (* the files and the table of sensors as they are           *)
  map_,        (* ConfigurationManager's: map_[module][key]                *)
  parameters   (* the values DataManager's constructor has read so far     *)

settingsVars == <<site, map_, parameters>>

-----------------------------------------------------------------------------
(* Filling the ConfigurationManager                                        *)

(* Mutant: an entry for every key.                                         *)
EntriesPerKey(options) ==
  {[module |-> o[1], keys |-> [k \in {o[2]} |-> options[o]]] : o \in DOMAIN options}

(* parseKeyValueMapIntoConfiguration gathers the keys of each module ...   *)
Entries(options) ==
  {[module |-> o[1],
    keys |-> [k \in {p[2] : p \in {q \in DOMAIN options : q[1] = o[1]}}
               |-> options[<<o[1], k>>]]] : o \in DOMAIN options}

(* ... and adds them module by module; a module must not be there yet.     *)
ModuleAlreadyExists(entries) == \E e, f \in entries : e # f /\ e.module = f.module

Configuration(entries) ==
  [m \in {e.module : e \in entries} |-> (CHOOSE e \in entries : e.module = m).keys]

CanBeLoaded == site.settingsIni /\ ~ ModuleAlreadyExists(Entries(site.options))

Load == map_' = Configuration(Entries(site.options))

-----------------------------------------------------------------------------
(* Reading it                                                              *)

(* operator[] of the manager and of the module's configuration; without    *)
(* the module or the key they throw.                                       *)
IsInConfiguration(option) ==
  option[1] \in DOMAIN map_ /\ option[2] \in DOMAIN map_[option[1]]

Value(option) == map_[option[1]][option[2]]

(* Mutant: the value is moved out of the map, which keeps an empty one.    *)
LookUpMovesValue(option) ==
  /\ IsInConfiguration(option)
  /\ map_' = [map_ EXCEPT ![option[1]][option[2]] = Word("")]

LookUp(option) == IsInConfiguration(option) /\ UNCHANGED map_

(* boost::lexical_cast to double, and to unsigned for TimeDelta.           *)
IsCastable(option, written) ==
  "num" \in DOMAIN written /\ (option = TimeDelta => written.den = 1)

Default(option) ==
  CASE option = PacketSize -> Number(20, 1)
    [] option = TimeDelta -> Number(1, 1)
    [] option = InitializationThreshold -> Number(5000, 1)
    [] option = Threshold -> Number(3, 10)
    [] option = TTL -> Number(3, 1)
    [] option = MaximumPositionRate -> Number(5000, 1)

(* getCastedValue of an option that is there.                              *)
CastedValue(option) ==
  IF IsCastable(option, Value(option)) THEN Value(option) ELSE Default(option)

(* What DataManager's constructor makes of it: the two that count are      *)
(* converted from double to an unsigned integer.                           *)
Parameter(option) ==
  LET value == CastedValue(option) IN
  IF option \in {PacketSize, TTL} THEN Number(value.num \div value.den, 1) ELSE value

(* The order in which the constructor reads them.                          *)
ParameterOrder == <<PacketSize, TimeDelta, InitializationThreshold, Threshold, TTL>>

-----------------------------------------------------------------------------
SettingsInit ==
  /\ site \in Site
  /\ map_ = <<>> /\ parameters = <<>>

ClearSettings == map_' = <<>> /\ parameters' = <<>>

(* The next parameter of the constructor.                                  *)
ReadParameter ==
  LET option == ParameterOrder[Len(parameters) + 1] IN
  /\ LookUp(option)
  /\ parameters' = Append(parameters, Parameter(option))
  /\ UNCHANGED site

=============================================================================
