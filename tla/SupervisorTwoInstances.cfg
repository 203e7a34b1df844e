\* A start of a service whose previous process is still exiting.
CONSTANTS
  adbd = adbd  logd = logd  core = core
  Services <- MCServices
  ServiceList <- MCServiceList
  Classes <- MCClasses
  ClassMembers <- MCClassMembers
  Oneshot = {}
  RcDisabled = {}
  Unstartable = {}
  OnRestart <- MCNoOnRestart
  Boot <- MCBoot
  Requests <- MCRestartRequests
  Pids = {p1, p2}
  NoPid = NoPid
  NoService = NoService
  ForkMayFail = FALSE
  RestartDelay = 2
  NotArmed = NotArmed
  MaxInbox = 1
  PipeCap = 1
  ReadMax = 1
SPECIFICATION Spec

INVARIANTS OneLiveInstance

