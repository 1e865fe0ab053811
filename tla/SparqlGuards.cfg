SPECIFICATION Spec
CONSTANTS
    MaxPieces = 4
    Piece = {"ws", "nl", "hash", "quote", "bs", "lt", "gt", "SELECT", "INSERT"}
    Text <- MCText
    Row = {0, 1, 2, 4}
    Limit <- MCLimit
    MaxRows <- MCMaxRows
    DefaultMaxRows = 3
INVARIANTS
    CutsIntoLexemes
    OnlyReads
    AnswersWithinBudget
PROPERTIES
    EndsUnlessStuck
