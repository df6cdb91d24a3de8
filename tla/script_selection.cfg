CONSTANTS
  Files <- MCFiles
  Plugins <- MCPlugins
  Attributes = {"a", "b"}
  StackDir = "stack"
  MaxLevel = 3
SPECIFICATION Spec
INVARIANTS TypeOK BestOfEachOrder InjectionFollowsTheLists StackFilesComeFirst MostSpecialPlugin
PROPERTY ResolveEnds
CHECK_DEADLOCK FALSE
