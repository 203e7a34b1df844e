\* Safety of the supervisor: a service that is restarted, and a oneshot one its onrestart touches.
CONSTANTS
  adbd = adbd  logd = logd  core = core
  Services <- MCServices
  ServiceList <- MCServiceList
  Classes <- MCClasses
  ClassMembers <- MCClassMembers
  Oneshot = {logd}
  RcDisabled = {logd}
  Unstartable = {}
  OnRestart <- MCOnRestart
  Boot <- MCBoot
  Requests <- MCRequests
  Pids = {p1, p2, p3}
  NoPid = NoPid
  NoService = NoService
  ForkMayFail = FALSE
  RestartDelay = 1
  NotArmed = NotArmed
  MaxInbox = 1
  PipeCap = 1
  ReadMax = 1
SPECIFICATION Spec
SYMMETRY PidSymmetry
INVARIANTS TypeOK NoLostChild PidsAreOwned OneState PublishedState
PROPERTIES RespawnsOnlyWanted
