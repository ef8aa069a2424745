SPECIFICATION SchemasSpec
CONSTANTS
    Forms <- MCForms
    MaxSent = 3
INVARIANT LayersAgree
INVARIANT CheckedIsUsed
INVARIANT SentBackAccepted
CHECK_DEADLOCK FALSE
