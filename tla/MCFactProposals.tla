-------------------------- MODULE MCFactProposals --------------------------
(* Instances of FactProposals for TLC.                                      *)
EXTENDS FactProposals, TLC

MCWriter   == Direct \cup Reviewer
MCValue    == Fact \cup Direct \cup Proposal
MCSymmetry == Permutations(Direct) \cup Permutations(Reviewer) \cup Permutations(Proposal)
=============================================================================
