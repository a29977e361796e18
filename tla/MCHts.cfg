SPECIFICATION FairSpec
CONSTANT
    READINGS <- Readings
INVARIANT
    HtsInv
PROPERTIES
    SubscriberIsServed
    SilentForGood
