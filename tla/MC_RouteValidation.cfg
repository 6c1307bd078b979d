\* Every rule of the bounded input space is submitted, stored and read back.
\* The life of one request ends once it is rejected or read back.
CONSTANTS
    Chars <- MCChars
    NameSamples <- MCNameSamples
    MaxLen = 2
    MaxWeight = 1
    SampleRules <- MCSampleRules
    None = None
SPECIFICATION Spec
INVARIANT TypeOK
INVARIANT ValidationMatchesSpec
INVARIANT RoundTrip
INVARIANT DefinitionRoundTrip
CHECK_DEADLOCK FALSE
