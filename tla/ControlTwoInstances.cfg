SPECIFICATION Spec
CONSTANTS
  r1 = r1
  w1 = w1
  i1 = i1
  i2 = i2
  Runs = {r1}
  Workers = {w1}
  Instances = {i1, i2}
  worker_id <- OneRunWorker
  target <- OneRunTarget
  Droppable = {i1, i2}
  AckKinds = {"receipt"}
  ConcurrentWorker = FALSE
  MaxCommands = 2
  MaxInbox = 1
CHECK_DEADLOCK FALSE
INVARIANTS
  OutcomesAreReal
