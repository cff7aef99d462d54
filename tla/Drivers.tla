-------------------------------- MODULE Drivers --------------------------------
(***************************************************************************)
(* The drivers that run alone, side by side: the initial states choose one,*)
(* its phases carry its name, and no driver has a step in another's phase, *)
(* so that one specification holds the behaviours of each of them.         *)
(* DynTable is extended, the others are instances.                         *)
(***************************************************************************)
EXTENDS DynTable

CONSTANTS
  Repetitions, Word,                                         \* of several drivers
  LinkConfigs, MaxKey, Recent, ListLimit, SampleEvery, Failures,
  Threads, Fields, OpsPerThread, WarmupOps, QuickOps, Defects,
  Sizes, RangeWidth, Lookups, AblationEngines,
  SeedRows, Capacity, Turns, Polls, Settled, Percent, ChurnEvery, ChurnRun, Sweeps,
  MixRows, Ops, Shapes, Draws,
  Reader, Width, Versions, Looks, Updates,
  Files, ChangedFiles, Generations, Symbols, Edges, Crashes,
  SpeedConfigs,
  CampaignConfigs, Widths, Stride, CampaignWord,
  LayerConfigs, Head16, ExclusiveOr(_, _)

LB == INSTANCE LinkBench WITH Configs <- LinkConfigs
CT == INSTANCE Contention
AB == INSTANCE Ablation WITH Engines <- AblationEngines
VC == INSTANCE Vacuum
MX == INSTANCE ConcurrentMix WITH Rows <- MixRows
PB == INSTANCE Publication
GN == INSTANCE Generations
SP == INSTANCE Speedtest WITH Configs <- SpeedConfigs
IB == INSTANCE IndexBackends WITH Configs <- CampaignConfigs, Word <- CampaignWord
ML == INSTANCE MicroLayers WITH Configs <- LayerConfigs

ASSUME DriversAssumption ==
  /\ LB!ConfigAssumption /\ CT!SizeAssumption /\ AB!AblationAssumption
  /\ VC!VacuumAssumption /\ MX!MixAssumption /\ PB!WidthAssumption /\ GN!GenerationAssumption
  /\ SP!SpeedtestAssumption /\ IB!CampaignAssumption /\ ML!LayersAssumption

AnyInit ==
  \/ Init
  \/ LB!Init \/ CT!Init \/ AB!Init \/ VC!Init \/ MX!Init
  \/ PB!Init \/ GN!Init \/ SP!Init \/ IB!Init \/ ML!Init

AnyNext ==
  \/ Next
  \/ LB!Next \/ CT!Next \/ AB!Next \/ VC!Next \/ MX!Next
  \/ PB!Next \/ GN!Next \/ SP!Next \/ IB!Next \/ ML!Next

AnySpec == AnyInit /\ [][AnyNext]_vars

-------------------------------------------------------------------------------
(* The properties, each of the driver it is about; TableSound and          *)
(* ImplementsDictionary are DynTable's own.                                *)

(* Whichever driver runs, its state has the types it should.               *)
DriverTypeOK ==
  \/ at \in LB!Phases /\ LB!TypeOK
  \/ at \in CT!Phases /\ CT!TypeOK
  \/ at = "dyntable" /\ TypeOK
  \/ at \in AB!Phases /\ AB!TypeOK
  \/ at \in VC!Phases /\ VC!TypeOK
  \/ at \in MX!Phases /\ MX!TypeOK
  \/ at \in PB!Phases /\ PB!TypeOK
  \/ at \in GN!Phases /\ GN!TypeOK
  \/ at \in SP!Phases /\ SP!TypeOK
  \/ at \in IB!Phases /\ IB!TypeOK
  \/ at \in ML!Phases /\ ML!TypeOK

(* LinkBench: the run names links and nodes as the load did.               *)
LinksAsGenerated == at \in LB!Phases => LB!LinksAsGenerated

(* The contention cells: a verdict is neither raised nor withheld wrongly. *)
VerdictSound == at \in CT!Phases => CT!VerdictSound

(* The vacuum suites: the page counts are of comparable arms.              *)
ArmsComparable == at \in VC!Phases => VC!ArmsComparable

(* The concurrent mix: only accepted index mutations and hits are counted. *)
MixIsReal == at \in MX!Phases => MX!MixIsReal

(* republish and accumulate: the map readers are sent to is whole.         *)
MapsStayWhole == at \in PB!Phases => PB!MapsStayWhole

(* The code-graph store: teardowns lose no flushed generation.             *)
StoreAnswers == at \in GN!Phases => GN!StoreAnswers

(* The index-backend campaign: no phase trips over an earlier one.         *)
CampaignCloses == at \in IB!Phases => IB!CampaignCloses

(* The programs whose records are compared do the same work: the engines of*)
(* the ablation, of the micro-layers and the two speedtest1 programs.      *)
RecordsComparable ==
  /\ at \in AB!Phases => AB!EnginesAgree
  /\ at \in ML!Phases => ML!LayersAgree
  /\ at \in SP!Phases => SP!ProgramsAgree

(* VacuumArm.fragmentation_pct: no more rows are deleted before an arm than*)
(* the percentage asked for.                                               *)
FragmentationAsAsked == at \in VC!Phases => VC!FragmentationAsAsked

================================================================================
