\* A rollout, or its rollback, with two pods at a time.
SPECIFICATION Spec
CONSTANTS
    Pods = {a, b}
    Parts = {"bootloader", "app"}
    Bytes = {"old", "new"}
    Deployments <- MCDeployments
    Nothing = Nothing
INVARIANTS TypeOK PinnedBuildExact ManifestDescribes FlashedWhole
PROPERTY CacheWriteOnce
