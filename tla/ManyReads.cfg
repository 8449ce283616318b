SPECIFICATION Spec
CONSTANTS
    Texts <- MCTexts
    KeyLists <- MCKeyLists
    OutLen = 2
INVARIANTS
    OneScanAnswersAsGets
PROPERTIES
    RestUntouched
