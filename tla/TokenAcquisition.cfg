SPECIFICATION Spec
CONSTANTS
    ann = ann
    bob = bob
    a1 = a1
    a2 = a2
    b1 = b1
    x = x
    y = y
    empty = empty
    Empty = empty
    NoUser = NoUser
    NoAssertion = NoAssertion
    NoCall = NoCall
    NoResult = NoResult
    Users = {ann, bob}
    Assertions = {a1, a2, b1}
    None = None
    MaxAsked = 2
    MaxFederated = 1
    Realms <- MCRealms
    Documents <- MCDocuments
    Issued <- MCIssued
    Capabilities <- MCCapabilities
    UserOf <- MCUserOf
    Wishes <- MCWishes
    Replies <- MCReplies
    Setups <- MCSetups
CHECK_DEADLOCK FALSE
INVARIANT ServedWhatWasAsked
 
PROPERTY KeysMatchReads
