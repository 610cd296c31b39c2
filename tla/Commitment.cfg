CONSTANTS
    Base = 11
    Width = 2
    DigestLen = 2
    Numbers = {0, 1, 11}
    Roots <- MCRoots
    Digests <- MCDigests
    Absent = Absent
SPECIFICATION Spec
INVARIANTS
    VerifiedIsGenuine
    GenuineVerifies
    DecodedIsComplete
