SPECIFICATION FairScanSpec
CONSTANTS
    d1 = d1
    d2 = d2
    a1 = a1
    k1 = k1
    s1 = s1
    Doc = {d1, d2}
    Asset = {a1}
    OtherKey = {k1}
    Scanner = {s1}
    AssetOf <- MCAssetOf
INVARIANTS
    ScanInv
PROPERTIES
    ScanSparesLiveFiles
    OrphansAreDeleted
