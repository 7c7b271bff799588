\* Lists: four rows in two scopes, pages of one or two rows.
\* Imports: two, of the same or of different seconds.
\* Instances: two hosts, two contents, three reports in flight.
\* Templates: two writers, two versions of a template, three of the config.
SPECIFICATION RestSpec
CONSTANTS
  Tables = {"app_infos", "apps", "clusters", "config_namespaces", "config_infos", "config_versions", "releases", "template_namespaces", "templates", "template_versions"}
  Scopes = {a, b}
  PageSizes = {0, 1, 2, NotANumber}
  MaxRows = 4
  Admin = Admin
  NotANumber = NotANumber
  NoFilter = NoFilter
  Imports = {i1, i2}
  Sites = {a}
  Types = {camera, store}
  OtherType = OtherType
  Names = {1, 2}
  MaxSecond = 2
  None = None
  Hosts = {h1, h2}
  Digests = {d1, d2}
  NoDigest = NoDigest
  NoInstance = NoInstance
  MaxReports = 3
  MaxEvents = 5
  Writers = {w1, w2}
  Namespaces = {a}
  EnvRef = EnvRef
  TemplateData <- TemplateContents
  ReplaceData <- Replacements
  MaxVersion = 2
  MaxConfig = 3
  Null = Null
INVARIANTS
  WalkMisses
  ImportsApart
  SyncShownReached
  
  
  ChangeSeenForward
CHECK_DEADLOCK FALSE
SYMMETRY Symmetry
