\* A request and two reviewers with two proposals on one fact, its trash and its purge.
CONSTANTS
 Fact = {f1}
 Direct = {w1}
 Reviewer = {r1, r2}
 Proposal = {p1, p2}
 Writer <- MCWriter
 Value <- MCValue
 Expectable = {0, 1, 2}
 NoRow = NoRow
 NoCall = NoCall
 NoProposal = NoProposal
SPECIFICATION Spec
SYMMETRY MCSymmetry
INVARIANTS ProposalsTypeOK FactHistoryMatches FactAnswersAreTrue OnlyApprovedIsWritten ApprovedOnItsBase
\* Every request may be answered, and a fact left alone.
CHECK_DEADLOCK FALSE
