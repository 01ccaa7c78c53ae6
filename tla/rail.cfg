SPECIFICATION Spec
CONSTANTS
    p1 = p1
    p2 = p2
    c1 = c1
    c2a = c2a
    c2b = c2b
    Proposals = {p1, p2}
    Coids = {c1, c2a, c2b}
    ProposalOf <- MCProposalOf
    Simulated = {p1}
    Sessions = {s1, s2}
    Contracts = 2
    TimeInForce = "gtc"
    IdMayBeOmitted = FALSE
    MaxAborts = 1
    NoProposal = none
INVARIANTS
    DecidedOnce
    EveryOrderRecorded
    
PROPERTIES
    ImplementsDecision
