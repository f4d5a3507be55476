SPECIFICATION ReplaySpec
CONSTANTS
    first = first
    second = second
    Envelopes = {first, second}
    Workers = {w1}
    SequenceOf <- MCSequenceOf
    MaxSequence = 1
    MaxPolls = 1
    MaxOutages = 0
    NoEnvelope = NoEnvelope
INVARIANT DroppedSequenceIsFree
CHECK_DEADLOCK FALSE
