SPECIFICATION GovSpec
CONSTANTS
    Proposals = {1, 2}
    Decisions = {1, 2}
    Requests = {1, 2}
    Policies = {1, 2, 3}
    Handlers = {h}
    Executors = {e}
    MaxRows = 7
    auth = auth
    plain = plain
    env = env
    dot = dot
    Root = dot
    Paths <- MCPaths
    ProposalScopes <- MCProposalScopes
    ClientScopes <- MCClientScopes
    Effect <- MCEffect
    NoProposal = NoProposal
    NoDecision = NoDecision
    NoRequest = NoRequest
    NoPolicy = NoPolicy
    NoPath = NoPath
CONSTRAINT FewRows
CHECK_DEADLOCK FALSE
INVARIANTS
    VoidApprovalGrantsNothing
