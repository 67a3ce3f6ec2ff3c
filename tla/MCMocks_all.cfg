\* Every order of calls: the bus on two addresses, the bank with hooks two
\* deep, the serial port.
SPECIFICATION Spec
CONSTANTS
  Addresses = {72, 73}
  Registers = {0}
  Bytes = {0, 1}
  MaxScript = 2
  MaxLog = 2
  Size = 2
  Words = {0, 1, 2}
  MaxDepth = 2
  MaxCalls = 4
  PortBytes = {0, 65, 255}
  MaxTx = 2
  MaxRx = 3
  MaxAsked = 4
INVARIANTS
  BusTypeOK
  InOrder
  LogExplainsDevices
  BankTypeOK
  PortTypeOK
PROPERTIES
  ImplementsRegisterFile
  ImplementsStream
