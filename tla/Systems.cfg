\* All graphs on three and four vertices, those on five and six that
\* EnumerateSystemsMC names.
CONSTANT
  Tasks <- MCTasks
SPECIFICATION Spec
INVARIANTS
  EachSolutionOnce
  NodesFormForest
  BucketsAgree
  KplexNodeSound
  NodesTravel
