\* Liveness, and the timer over two services that are both restarted.
CONSTANTS
  adbd = adbd  logd = logd  core = core
  Services <- MCServices
  ServiceList <- MCServiceList
  Classes <- MCClasses
  ClassMembers <- MCClassMembers
  Oneshot = {}
  RcDisabled = {}
  Unstartable = {}
  OnRestart <- MCNoOnRestart
  Boot <- MCBoot
  Requests <- MCRestartRequests
  Pids = {p1, p2}
  NoPid = NoPid
  NoService = NoService
  ForkMayFail = FALSE
  RestartDelay = 2
  NotArmed = NotArmed
  MaxInbox = 1
  PipeCap = 1
  ReadMax = 1
SPECIFICATION FairSpec


INVARIANTS TimerCoversRestarts
PROPERTIES ChildrenAreReaped RestartsHappen
