CONSTANTS
    c1 = c1
    c2 = c2
    c3 = c3
    Keys = {c1}
    NoKey = NoKey
    NoRecord = NoRecord
    StreamIDs = {0}
    Scripts <- UnansweredScripts
    Paced = {}
SPECIFICATION TimedSpec
PROPERTY StaleResponsesEvicted
