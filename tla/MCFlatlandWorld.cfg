SPECIFICATION Spec
CONSTANTS
  p1 = p1
  p2 = p2
  m1 = m1
  m2 = m2
  full = full
  twice = twice
  throws = throws
  off = off
  broken = broken
  unlisted = unlisted
  oddname = oddname
  oddkey = oddkey
  NoFile = NoFile
  Ptrs = {p1, p2}
  Names = {m1, m2}
  NoName = NoName
  Files = {full, twice, throws, off, oddkey, broken, unlisted, oddname}
  BadFiles = {broken, unlisted, oddname}
  UnlistedFiles = {unlisted}
  OddFiles = {oddname}
  PluginsOf <- MCPlugins
  BodyNames = {base}
  Excluded = {}
  SensorBody = base
  Layers = {ground}
  NoLoad = NoLoad
  MaxContacts = 1
SYMMETRY Symmetry
INVARIANTS
  NamesUnique
  NothingElseLeftBehind
  AllPluginsLoaded
  MarkersMatchModels
PROPERTIES
  ImplementsRegistry
