\* The same queue when a client sets a property twice in a row.
CONSTANTS
  boot = boot  serve = serve  enable = enable  onValue = onValue  onAny = onAny  chained = chained  last = last
  onUsb = onUsb  sys = sys  usb = usb
  Actions <- MCActions
  ActionList <- MCActionList
  Boot <- MCBoot
  Trigger <- MCTrigger
  Commands <- MCCommands
  Properties = {sys, usb}
  Values = {0, 1}
  Unset = Unset
  AnyValue = AnyValue
  HEAD = HEAD
  NULL = NULL
  NoAction = NoAction
  Requeue = TRUE
SPECIFICATION Spec

PROPERTIES DocumentedQueue
