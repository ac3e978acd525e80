SPECIFICATION Spec
CONSTANTS
    Callers = {c1, c2}
    Slots = {"user", "app"}
    Keys = {"file"}
    KeyOf <- OneKeyOf
    AccountsKey = "file"
    SignInKey = "file"
    MaxTokens = 2
    MaxRestarts = 1
INVARIANTS TypeOK NoLostUpdate StoredIsFound ForgottenStaysForgotten
PROPERTIES EveryCallReturns
