SPECIFICATION FairViewerSpec
CONSTANT
  Magic = 7
  Version = 1
  KnownTypes <- MCTypes
  MaxPayload = 8
  HostPorts <- MCHostPorts
  UnsignedOf <- MCUnsigned
  DoubleOf <- MCDoubles
  Clients = {a, b}
  Pollers = {b}
  Links = {l1, l2}
  Invocations <- MCInvocations
  Snapshots <- MCSnapshots
  Malformed <- MCMalformed
  None = None
  TheViewer = b
  Tabs = {t}
  Greetings <- MCGreetings
  Messages <- MCMessages
  MaxRequest = 3
  Nobody = Nobody
CHECK_DEADLOCK FALSE
PROPERTY CommandsGetThrough
