SPECIFICATION Spec
CONSTANTS
  ByteBits = 3
  Count = 2
  MaxChannels = 3
  MANTISSA_BITS = 3
  EXPONENT_BITS = 2
  Mono24 = TRUE
CHECK_DEADLOCK FALSE
INVARIANT
  ChannelsAreAdjusted
