SPECIFICATION CarveSpec
CONSTANTS
    Tokens <- LineTokens
    MinSecretLength = 6
    Memory = 4
    Alphabets <- LineAlphabets
    MaxLength = 6
    Value <- DigitValue
    CardBINs <- Issuers
    MinCard = 3
    MaxCard = 4
    MaxCC = 1
    MinPhone = 3
    MaxPhone = 4
    MinKeyed = 2
    MaxGroup = 2
    MaxGroups = 2
    MaxArea = 1
    NanpGroup = 1
    NanpLine = 2
    MinID = 2
    MaxID = 3
    MinOTP = 1
    MaxOTP = 2
    MinSession = 2
INVARIANTS
    HiddenEitherWay
CHECK_DEADLOCK FALSE
