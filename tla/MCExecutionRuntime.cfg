SPECIFICATION FairSpec
CONSTANTS
  g1 = g1
  g2 = g2
  g3 = g3
  r1 = r1
  r2 = r2
  NoGroup = NoGroup
  Tasks <- MCTasks
  Groups <- MCGroups
  Resources <- MCResources
  Members <- MCMembers
  ResourceOf <- MCResourceOf
  Capacity <- MCCapacity
INVARIANTS
  AccountsExact
  GroupsWhole
  FatalDecides
PROPERTIES
  TasksKeepTheirFate
  DomainCloses
CHECK_DEADLOCK FALSE
