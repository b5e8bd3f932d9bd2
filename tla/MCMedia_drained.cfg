SPECIFICATION FairSpec
CONSTANTS
    Product = {p1, p2}
    MaxImage = 2
    MaxVideo = 2
    Upload = {u1, u2}
    MAX_IMAGES_PER_PRODUCT = 2
    MaxCrashes = 1
INVARIANTS MediaKept OnePrimary
PROPERTIES VideoSettles
CHECK_DEADLOCK FALSE
