SPECIFICATION Spec
CONSTANTS
    Hosts <- MCHosts
    Names <- MCNames
    Loaders = {l1}
    Writers = {w1, w2}
    Capacity = 1
    MaxChanges = 2
SYMMETRY WriterSymmetry
INVARIANTS TypeOK CacheFollowsDisk ExactBeforeWildcard
