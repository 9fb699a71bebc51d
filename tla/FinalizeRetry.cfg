CONSTANTS
    NoUpload = NoUpload
    NoBody = NoBody
    NoContent = NoContent
    NoBlob = NoBlob
    NoKey = NoKey
    NoId = NoId
    big = big
    other = other
    twin = twin
    small = small
    empty = empty
    Digest <- MCDigest
    Content <- MCContent
    Id = {i1}
    UploadId = {u1}
    Body = {big, other, twin, small, empty}
    Prefix = {"docs"}
    ReferencedPrefixes = {"docs"}
    BatchSize = 2
    Backend = "s3"
    MultipartThreshold = 1
    Request = {r1, r2}
    Sweeper = {}
SPECIFICATION RetrySpec
PROPERTIES ImplementsPublication ArrivedUploadsEnd
