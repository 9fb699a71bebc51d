CONSTANTS
    NoUpload = NoUpload
    NoBody = NoBody
    NoContent = NoContent
    NoBlob = NoBlob
    NoKey = NoKey
    NoId = NoId
    big = big
    other = other
    twin = twin
    small = small
    empty = empty
    Digest <- MCDigest
    Content <- MCContent
    Id = {i1, i2}
    UploadId = {}
    Body = {big, other}
    Prefix = {"docs"}
    ReferencedPrefixes = {"docs"}
    BatchSize = 1
    Backend = "file"
    MultipartThreshold = 1
    Request = {r1}
    Sweeper = {s1}
SYMMETRY Symmetry
SPECIFICATION Spec
INVARIANT PublishedBytesIntact
PROPERTY PublishedImmutable
