SPECIFICATION FramingSpec
CONSTANTS
    HeaderSize = 1
    FirstPayload = 2
    MaxPayload = 8
    Payloads = {0, 8}
    MaxSent = 2
INVARIANT
    AllowedSizesPass
CHECK_DEADLOCK FALSE
