\* Two streams, up to two chunks of data, and one fault at any moment:
\* the cable is pulled, or the server restarts.
CONSTANTS
  Host = Host  Device = Device
  MaxOpens = 2
  MaxReads <- MCMaxReads
  MaxFaults = 1
SPECIFICATION Spec
INVARIANTS TypeOK PeersAreKnown OneWriteAtATime DeliveredInOrder NothingCutOff NobodyWaitsInVain
PROPERTY NobodyStandsStill
CHECK_DEADLOCK FALSE
