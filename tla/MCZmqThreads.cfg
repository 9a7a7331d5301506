CONSTANTS
  Sender = {t1, t2, t3}
  MaxCommands = 2
  Nobody = Nobody
  None = None
  PipeKinds <- FullOrSwapped
  max_wm_delta = 1024
  MaxMessages = 5
  MaxParts = 2
  Delimiter = Delimiter
  socket = socket
  listener = listener
  init = init
  session = session
  reaper = reaper
  io1 = io1
  io2 = io2
  Object = {socket, listener, init, session}
  Root = socket
  Thread = {reaper, io1, io2}
  Layouts <- TwoOrOne
  Socket = {log, s1, s2}
  Log = log
  max_sockets = 1
  Endpoint = {syslog}
  SysLog = syslog
  MaxConnects = 1
  MaxInterrupts = 1
  inbound_poll_rate = 3
  MaxHeld = 2
  Room = 1
  MaxSignals = 1
SPECIFICATION PartsSpec
CHECK_DEADLOCK FALSE
INVARIANTS MailboxSound TrafficSound LifetimesSound
PROPERTIES AllReceived PipeProgresses TreeGoes TermReturns StopHeard
