CONSTANTS
  a = a
  b = b
  c = c
  h1 = h1
  h2 = h2
  Any = Any
  Hardware = Hardware
  Procs <- ABC
  Unborn <- NoProcs
  Mortal <- NoProcs
  Killable <- NoProcs
  Signalled <- NoProcs
  Drivers <- NoProcs
  IrqPids <- NoProcs
  Harts <- OneHart
  PmServers <- NoProcs
  Sources <- AllSrc
  PtrOutcomes <- PtrGood
  MaxSends <- TwoFromA
  MaxIrqs = 0
SPECIFICATION Spec
CHECK_DEADLOCK FALSE
INVARIANTS
  QueuesMatchStates NoMissedRendezvous SendHandedOver UnblockedIsRunnable DeliveredInOrder ReplyFromCallee
