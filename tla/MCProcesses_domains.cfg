CONSTANTS
  user = user
  blob = blob
  Avatar = Avatar
  Log = Log
  Signal = Signal
  Completed = Completed
  default = default
  all = all
  userQueue = userQueue
  blobQueue = blobQueue
  web = web
  beat = beat
  starter = starter
  starter2 = starter2
  signaller = signaller
  worker = worker
  one = one
  Handler = {Avatar, Log, Signal}
  Event = {Completed}
  Domain = {user, blob}
  Queue = {default, all, userQueue, blobQueue}
  Signalled = {Signal}
  Limited = {Avatar}
  DomainOf <- MCDomainOf
  EventOf <- MCEventOf
  OwnQueue <- MCOwnQueue
  DefaultQueue = default
  AllQueue = all
  All = All
  Wired = {user}
  NoQueue = NoQueue
  Layout <- MCDomainsLayout
  MaxAttempts = 3
  MaxFaults = 1
SPECIFICATION Spec
INVARIANT NoHandlerSkipped
CHECK_DEADLOCK FALSE
