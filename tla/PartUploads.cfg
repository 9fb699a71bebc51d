CONSTANTS
    BlobSizes = {0, 3, 6, 7}
    MultipartPartSize = 2
    MaximumMultipartParts = 3
    PartConcurrency = 2
    PartAttempts = 3
SPECIFICATION Spec
INVARIANTS PartsFit ResolvedMeansHeld ProgressAddsUp
PROPERTIES QuietAfterReject UploadSettles
CHECK_DEADLOCK FALSE
