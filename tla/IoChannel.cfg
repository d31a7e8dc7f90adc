SPECIFICATION IoSpec
CONSTANTS
    Requests = {q1, q2}
    Syncs = {y1}
INVARIANT
    ChannelsPutBack
CHECK_DEADLOCK FALSE
