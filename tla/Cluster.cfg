SPECIFICATION ClusterSpec
SYMMETRY Symmetry
CONSTANTS
    Voters = {v1, v2}
    Failing = 0
    Candidates = {1, 2}
    Nobody = Nobody
    Scenes <- ClusterScenes
INVARIANTS
    WinnersShareNoEpoch OwnersAgree
CHECK_DEADLOCK FALSE
