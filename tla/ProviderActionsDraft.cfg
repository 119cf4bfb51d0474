SPECIFICATION Spec
CONSTANTS
    Calls = {c1, c2}
    Contents = {e1}
INVARIANT OneDraft
CHECK_DEADLOCK FALSE
