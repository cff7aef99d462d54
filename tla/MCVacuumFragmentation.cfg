CONSTANTS
  Client = {c1, c2}
  Keys = 2
  Calls = 2
  Column = {"a"}
  Name = {"a", "zz"}
  Value = {0, 1}
  None = None
  Repetitions = 2
  Word = 32
  LinkConfigs <- MCLinkConfigs
  MaxKey = 23
  Recent = 1
  ListLimit = 2
  SampleEvery = 2
  Failures = 1
  Threads = 3
  Fields = 2
  OpsPerThread = 1
  WarmupOps = 3
  QuickOps = 1
  Defects = {{}, {"unlocked"}, {"twice"}, {"refused"}, {"unlocked", "twice"}}
  Sizes = {0, 2, 4}
  RangeWidth = 2
  Lookups = 2
  AblationEngines = {"specialized", "dynamic", "vec_indexed", "vec_scan_json", "slotmap", "vec", "rwlock_hashmap", "dashmap"}
  SeedRows = {2, 4, 5}
  Capacity = 2
  Turns = 2
  Polls = 3
  Settled = 2
  Percent = {25, 60}
  ChurnEvery = 2
  ChurnRun = 3
  Sweeps = 2
  MixRows = 5
  Ops = 3
  Shapes <- MCShapes
  Draws = 3
  Reader = {r1, r2}
  Width = 2
  Versions = 3
  Looks = 2
  Updates = 3
  Files = {1, 2, 3}
  ChangedFiles = 1
  Generations = 2
  Symbols = 1
  Edges = 2
  Crashes = 2
  SpeedConfigs <- MCSpeedConfigs
  CampaignConfigs <- MCCampaignConfigs
  Widths <- MCWidths
  Stride = 7
  CampaignWord = 16
  LayerConfigs <- MCLayerConfigs
  Head16 = 2
  ExclusiveOr <- MCExclusiveOr
SPECIFICATION AnySpec
INVARIANTS
  FragmentationAsAsked
