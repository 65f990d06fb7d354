SPECIFICATION StoSpec
CONSTANTS
    ObjectKeys <- MCObjectKeys
    KeyPrefixes = {"report"}
    Under <- MCUnder
    Addressed <- MCAddressed
PROPERTY DeletesWhatWasConfirmed
CHECK_DEADLOCK FALSE
