SPECIFICATION Spec
CONSTANTS
    NoMatch = NoMatch
    NoOrigin = NoOrigin
    OriginOf <- MCOriginOf
    PrivateUrls <- MCPrivateUrls
    Policies <- MCPolicies
    Calls <- MCCalls
    NotAUrl = NotAUrl
    NoPort = NoPort
    Urls <- MCUrls
    Names <- MCNames
    Wide <- MCWide
CHECK_DEADLOCK FALSE
INVARIANT LiftedOnlyByAnAnswer
INVARIANT AnswersHold
INVARIANT Precedence
INVARIANT TextIsReadAsMeant
