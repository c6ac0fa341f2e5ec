SPECIFICATION Spec
CONSTANTS
    Workers = {w1, w2}
    Trees <- MCTrees
    WorkingDirs <- MCWorkingDirs
INVARIANT URLsServe
SYMMETRY Symmetry
