SPECIFICATION Spec
CONSTANTS
    Rows = {1}
    Rules = {"all"}
    Passing <- MCPassing
    Seeds = {1, 2}
    Needs = {1}
    Requests = {r1, r2}
    Outcome <- MCOutcome
    None = None
INVARIANT DrawUsesPublishedCommitment
