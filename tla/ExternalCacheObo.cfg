SPECIFICATION Spec
CONSTANTS
    Callers = {c1}
    Slots = {"user", "obo"}
    Keys = {"file"}
    KeyOf <- OneKeyOf
    AccountsKey = "file"
    SignInKey = "file"
    MaxTokens = 2
    MaxRestarts = 0
PROPERTIES ExportedCanBeLoaded
