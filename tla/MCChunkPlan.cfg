\* Files of up to 10 bytes in chunks of up to 3; a count of 9 fits, 10 does not.
SPECIFICATION Spec
CONSTANTS
    WordBits = 4
    ByteBits = 2
    MaxCount = 9
    MaxChunk = 3
    MaxSize = 10
INVARIANTS Tiles MapMeansSet HeaderExact
PROPERTIES ResumeExact
