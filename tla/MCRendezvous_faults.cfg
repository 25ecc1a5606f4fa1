CONSTANTS
  a = a
  b = b
  c = c
  h1 = h1
  h2 = h2
  Any = Any
  Hardware = Hardware
  Procs <- ABC
  Unborn <- JustC
  Mortal <- JustB
  Killable <- JustB
  Signalled <- JustC
  Drivers <- JustB
  IrqPids <- AB
  Harts <- OneHart
  PmServers <- JustB
  Sources <- HardAny
  PtrOutcomes <- PtrBoth
  MaxSends <- NoneFromC
  MaxIrqs = 1
SPECIFICATION Spec
CHECK_DEADLOCK FALSE
INVARIANTS
  NoMissedRendezvous
