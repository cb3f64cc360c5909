SPECIFICATION Spec
CONSTANTS
    Servers = {srv}
    Drafts <- MCDrafts
    SecretOf <- MCSecretOf
    Secrets = {s1, s2}
    Region = r1
    Service = s3
    AmzHeaders = {"x-amz-date", "x-amz-meta", "x-amz-content-sha256"}
    S3 = s3
    Second = 4
    DayLength = 2
    MaxInt = 15
    MaxClockSkew = 4
    MaxPresignAge = 8
    MaxStall = 1
    ClientSkew = 4
    MaxTime = 13
    MaxSigned = 1
    V4 = V4
    Missing = Missing
    Malformed = Malformed
    UnsignedPayload = UnsignedPayload
    Garbage = Garbage
    k1 = k1
    k2 = k2
    s1 = s1
    s2 = s2
    r1 = r1
    p1 = p1
    m1 = m1
    m2 = m2
    get = get
    none = none
INVARIANT TypeOK AcceptedWasSigned NoFalseMismatch
PROPERTY ReplayWindow
