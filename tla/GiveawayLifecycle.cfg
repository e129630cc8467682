SPECIFICATION Spec
CONSTANTS
    Rows = {1, 2}
    Rules = {"all", "liked"}
    Passing <- MCPassing
    Seeds = {1, 2}
    Needs = {1, 2}
    Requests = {r1, r2}
    Outcome <- MCOutcome
    None = None
INVARIANTS
    TypeOK
    DrawIsVerifiable
    LockHoldsItsCommitment
    SecretUntilDrawn
    RepliesStayTrue
PROPERTIES
    ImplementsContract
    DrawIsFinal
SYMMETRY Symmetry
