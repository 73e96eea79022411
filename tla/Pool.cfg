SPECIFICATION FairSpec
CONSTANTS
  Workers = {w1, w2, w3}
  MaxTasks = 3
INVARIANTS
  TypeOK
  TasksInOrder
  WorkConserving
PROPERTIES
  ImplementsTaskPool
  AllTasksRun
CHECK_DEADLOCK FALSE
