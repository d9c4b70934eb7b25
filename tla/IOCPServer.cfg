CONSTANTS
  s0 = s0  s1 = s1  w0 = w0  w1 = w1
  NoSession = NoSession
  Session <- MCSession
  Worker <- MCWorker
  BUFSIZE <- MCBUFSIZE
  MaxBytes <- MCMaxBytes
SPECIFICATION Spec
INVARIANTS TypeOK OneHolder NoUseAfterDelete EchoIsAPrefix
PROPERTIES EverythingIsEchoed LeftAreDeleted
CHECK_DEADLOCK FALSE
