\* Three calls of two clients, one reboot at any moment and one
\* load_persist_props command, while every call on a file may fail.
CONSTANTS
  ca = ca  cb = cb
  persist = persist  ro = ro  ctl = ctl  net = net  netChange = netChange
  Clients = {ca, cb}
  Owner <- MCOwner
  Choices <- MCChoices
  Names = {persist, ro, ctl, net, netChange}
  Readonly = {ro}
  Net = {net, netChange}
  Persistent = {persist}
  Control = {ctl}
  NetChange = netChange
  Denied <- MCDenied
  Mortal = {2}
  Defaults = {persist, ro}
  Backlog = 8
  MaxReboots = 1
  MaxReloads = 1
  None = None
  Default = Default
  Early = Early
  Torn = Torn
SPECIFICATION Spec
INVARIANTS TypeOK FilesAreWhole FilesMirrorArea AcknowledgedIsDone CallsInOrder
PROPERTY EveryoneIsServed
