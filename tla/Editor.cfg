SPECIFICATION EditorSpec
CONSTANTS
    Operable = {"rotP", "sw0", "sw1", "sw2"}
    Letters = 2
    Symbols = 3
    MaxTyped = 1
INVARIANT FieldsWellFilled
PROPERTIES
    WiFiPromptAnswered
    EnteredIsFinal
