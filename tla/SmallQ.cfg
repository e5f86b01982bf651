\* 3-plexes with at least two vertices, of a path of four.
CONSTANT
  Tasks <- SmallQTasks
SPECIFICATION Spec
INVARIANT NothingMissing
