SPECIFICATION Spec
CONSTANTS
    Attempts = 3
    Codes = {200, 202, 404, 409, 503}
    Providers = {"openai", "anthropic"}
    Replies = {"grounded", "unfit", "misshapen", "null"}
    MaxCommands = 3
PROPERTIES
    StatusCodeDecides
CHECK_DEADLOCK FALSE
