CONSTANTS
  MaxX = 2
  MaxY = 2
  Halo = 1
  Radius = 1
  Nowhere = Nowhere
  Scenes <- MCScenes
SPECIFICATION Spec
INVARIANTS RouteIsWalkable NoRouteMeansNone PlanIsRight
CHECK_DEADLOCK FALSE
