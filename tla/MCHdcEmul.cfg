SPECIFICATION Spec
CONSTANTS
    RAW <- MCRaw
    SET_TEMP <- MCSetTemp
    SET_HUMIDITY <- MCSetHumidity
    MAX_SAMPLES = 12
INVARIANT
    HdcInv
PROPERTIES
    SetValueIsRead
    RandomValueInRange
