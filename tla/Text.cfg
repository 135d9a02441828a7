SPECIFICATION Spec
CONSTANTS
    Edits = {edit}
    Deletes = {delete}
    Commands = {command}
    Translations = {translation}
    None = None
CHECK_DEADLOCK FALSE
INVARIANTS
    DeletedStaysErased
