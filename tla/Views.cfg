SPECIFICATION Spec
CONSTANT Families <- Apps
INVARIANTS HydrationMatches ShownIsView NodesInOrder PlanFits
PROPERTY KeptRowsKeepTheirNodes
CHECK_DEADLOCK FALSE
