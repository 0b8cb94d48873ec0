SPECIFICATION Spec
CONSTANTS
  r1 = r1
  w1 = w1
  i1 = i1
  i2 = i2
  Runs = {r1}
  Workers = {w1}
  Instances = {i1}
  worker_id <- OneRunWorker
  target <- OneRunTarget
  Droppable = {}
  AckKinds = {"ack"}
  ConcurrentWorker = TRUE
  MaxCommands = 3
  MaxInbox = 2
CHECK_DEADLOCK FALSE
PROPERTIES
  TerminalIsFinal
