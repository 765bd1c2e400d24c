SPECIFICATION Spec
CONSTANTS
    Attempts = 3
    Codes = {200, 202, 302, 404, 409, 503}
    Providers = {"openai", "anthropic"}
    Replies = {"grounded", "unfit", "misshapen", "null"}
    MaxCommands = 3
INVARIANTS
    TypeOK
    EffectsAccounted
    
PROPERTIES
    CommandsEnd
CHECK_DEADLOCK FALSE
