\* Two devices one after another, one label, a connection that holds three events.
SPECIFICATION FairSpec
CONSTANTS
    MaxSearch = 2
    Labels = {"blank", "named"}
    Blank = "blank"
    QueueSize = 3
    MaxWire = 2
    MaxTrouble = 1
    Nothing = Nothing
INVARIANTS TypeOK PageFollows FormOfDevice 
PROPERTIES TypingSurvives 
CHECK_DEADLOCK FALSE
