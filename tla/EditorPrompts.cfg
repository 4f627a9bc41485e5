SPECIFICATION EditorSpec
CONSTANTS
    Operable = {"rotP", "sw0"}
    Letters = 2
    Symbols = 3
    MaxTyped = 2
PROPERTY
    SavedWhereAsked
