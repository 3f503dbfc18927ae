SPECIFICATION BuildSpecification
CONSTANTS
  None = None
  MaxLength = 4
  NoName = None
  Phase0Extras <- AllExtras
  AltairExtras <- AllExtras
  Trees <- FileTrees
  Targets <- Forks
  Documents <- AllDocuments
  Preset <- PresetNames
  PresetFiles <- PresetDirectories
  Config <- ConfigNames
  ConfigRecords <- ScheduleNames
  Yaml <- YamlFile
  preset_name = "mainnet"
  UpperCaseNames <- Constants
  ignored_dependencies <- Ignored
INVARIANTS
  TypeOK LastDefinitionStands ClassesUnderTheirHeading PlainNeedsNoPreset
  NewestDefinitionStands WrittenModuleRuns
CHECK_DEADLOCK FALSE
