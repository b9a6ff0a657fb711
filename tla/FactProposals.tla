---------------------------- MODULE FactProposals ----------------------------
(***************************************************************************)
(* Facts an agent has asked a human to accept: the table `fact_proposals`  *)
(* beside the fact store, and the reviewers whose approvals write facts    *)
(* through the same repository as the admin routes.                        *)
(*                                                                         *)
(* A proposal is inserted with the version it was based on, read one await *)
(* before; nothing looks at it before somebody reviews it, so a slow       *)
(* insert is a slow review and both are one step here.                     *)
(***************************************************************************)
EXTENDS Facts

CONSTANTS
  Reviewer,   \* approval requests; each is used once
  Proposal,   \* proposal ids, and the values they propose
  NoProposal

\* based = 0: based_on_version is NULL, there was no such fact to change.
ProposalRow == [fact : Fact, based : Nat, status : {"pending", "approved", "rejected"}]

ASSUME ProposalsAssumption ==
  /\ Writer = Direct \cup Reviewer /\ Value = Fact \cup Direct \cup Proposal
  /\ NoProposal \notin ProposalRow

\* A value tells who brought it: requests, reviewers, facts and proposals differ.
ASSUME NamesApart ==
  /\ Direct \cap Reviewer = {} /\ (Direct \cup Reviewer) \cap (Fact \cup Proposal) = {}
  /\ Fact \cap Proposal = {}

VARIABLE proposals

allVars == <<factVars, proposals>>

Init == FactsInit /\ proposals = [p \in Proposal |-> NoProposal]

Pending(p) == proposals[p] # NoProposal /\ proposals[p].status = "pending"
VersionKept(f) == IF Kept(f) THEN facts[f].version ELSE 0

Propose(p, f) ==
  /\ proposals[p] = NoProposal
  /\ proposals' = [proposals EXCEPT ![p] =
                     [fact |-> f, based |-> VersionKept(f), status |-> "pending"]]
  /\ UNCHANGED factVars

-----------------------------------------------------------------------------
\* approve, up to its last read: the version the proposal was based on, if it
\* was based on one, must be the one there is.  A fact in the trash is not
\* found (getByKey), so it counts as absent.
MutBaseIsCurrent(p) == TRUE
BaseIsCurrent(p) ==
  proposals[p].based = 0 \/ proposals[p].based = VersionKept(proposals[p].fact)

ApproveStart(r, p) ==
  /\ Pending(p) /\ BaseIsCurrent(p)
  /\ LET f == proposals[p].fact
         current == VersionKept(f)
     IN Begin(r, [op |-> IF current = 0 THEN "create" ELSE "update", fact |-> f,
                  expected |-> current, base |-> 0, value |-> p, status |-> "active"],
              "decide")
  /\ UNCHANGED <<facts, history, eligible, lapsed, proposals>>

\* recordDecision changes a pending proposal only; who comes second is refused.
\* The write follows, with the version that was read as its expectation.
Decide(r) ==
  /\ pc[r] = "decide"
  /\ LET p == call[r].value IN
     \/ ~Pending(p) /\ Goto(r, "refused") /\ UNCHANGED proposals
     \/ /\ Pending(p)
        /\ proposals' = [proposals EXCEPT ![p].status = "approved"]
        /\ Goto(r, IF call[r].op = "create" THEN "insert" ELSE "check")
  /\ UNCHANGED <<facts, history, call, eligible, lapsed>>

MutReject(p) ==
  /\ proposals[p] # NoProposal
  /\ proposals' = [proposals EXCEPT ![p].status = "rejected"]
  /\ UNCHANGED factVars

\* reject reads the proposal for access only; recordDecision decides.
Reject(p) ==
  /\ Pending(p)
  /\ proposals' = [proposals EXCEPT ![p].status = "rejected"]
  /\ UNCHANGED factVars

Next ==
  \/ FactsNext /\ UNCHANGED proposals
  \/ \E p \in Proposal, f \in Fact : Propose(p, f)
  \/ \E r \in Reviewer, p \in Proposal : ApproveStart(r, p)
  \/ \E r \in Reviewer : Decide(r)
  \/ \E p \in Proposal : Reject(p)

Spec == Init /\ [][Next]_allVars

-----------------------------------------------------------------------------
(* Properties.                                                              *)

\* The tables of facts are well formed, and so are the proposals.
ProposalsTypeOK ==
  /\ FactsTypeOK
  /\ proposals \in [Proposal -> ProposalRow \cup {NoProposal}]
  /\ \A r \in Reviewer : pc[r] # "idle" => /\ call[r].value \in Proposal
                                           /\ proposals[call[r].value] # NoProposal

\* "Nothing an agent proposes changes what the platform answers until a person
\* says so": a proposed value is in a fact, or in its history, only if its
\* proposal stands approved and is about that fact; an approval and a rejection
\* that race do not leave a rejected value behind (recordDecision).
OnlyApprovedIsWritten ==
  \A f \in Fact, p \in Proposal :
    (Exists(f) /\ facts[f].value = p) \/ (\E v \in history[f] : v.value = p) =>
       proposals[p].status = "approved" /\ proposals[p].fact = f

\* An approval answered ok, of a change to an existing fact, is the version
\* right after the one the agent saw: nobody's newer value is undone by it.
ApprovedOnItsBase ==
  \A r \in Reviewer : pc[r] = "ok" /\ call[r].fact \notin lapsed =>
    LET p == call[r].value IN
    proposals[p].based # 0 =>
      \E v \in history[call[r].fact] : v.version = proposals[p].based + 1 /\ v.value = p
=============================================================================
