\* The PATCH of a one-time boot override.
SPECIFICATION SettingsSpec
CONSTANTS
    Forms <- SystemOnly
    MaxItems = 1
INVARIANTS
    AnswerAsWritten
