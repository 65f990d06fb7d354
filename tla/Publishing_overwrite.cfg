SPECIFICATION PubSpec
CONSTANTS
    FilePaths = {index}
    Texts = {t0, t1}
    StarterPath = index
    StarterText = t0
    Versions = {v1}
    PubOps = {o1, o2}
    MaxEdits = 1
PROPERTY ArtifactsAreImmutable
CHECK_DEADLOCK FALSE
