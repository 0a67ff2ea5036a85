SPECIFICATION Spec
CONSTANTS
    Parsed <- MCParsed
    Dotted <- MCDotted
    Md5 <- MCMd5
    Inputs <- UserInputs
INVARIANTS
    UserIDIsHash
