CONSTANTS
  ByteOrder = "big"
  MaxFlips = 1
  FlipBits = {0, 1, 3, 4, 7, 8, 11, 12, 15}
SPECIFICATION Spec
INVARIANT CrcMatchesReference
INVARIANT AcceptsExactlyGenuine
