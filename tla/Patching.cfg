SPECIFICATION Spec
CONSTANTS
  ucrtbase = ucrtbase
  msvcp140 = msvcp140
  malloc = malloc
  Mtx_lock = Mtx_lock
  Cnd_wait = Cnd_wait
  exe = exe
  plugin = plugin
  quiet = quiet
  system = system
  Libraries = {ucrtbase, msvcp140}
  Functions = {malloc, Mtx_lock, Cnd_wait}
  Modules = {exe, plugin, quiet, system}
  Library <- MCLibrary
  Type <- MCType
  Imports <- MCImports
  Known = {system}
  Blacklist <- MCBlacklist
  Places = {p1, p2, p3}
  BugInsight = BugInsight
  Null = Null
SYMMETRY PlaceSymmetry
CHECK_DEADLOCK FALSE
INVARIANTS ReadyModulesAreMonitored MonitorsCallTheirFunction NothingLeadsToDeletedMonitors
PROPERTY OriginalsNeverChange
