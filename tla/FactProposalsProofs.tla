------------------------- MODULE FactProposalsProofs -------------------------
(***************************************************************************)
(* What the fact store and the approvals that write it keep true, for any  *)
(* facts, requests, reviewers and proposals, and any number of versions.   *)
(***************************************************************************)
EXTENDS FactProposals, TLAPS

\* What a call holds is what its caller came with: a reviewer, its proposal, and
\* for one based on a version, that version as the expectation of the write.
CallsKept ==
  /\ \A r \in Reviewer : pc[r] # "idle" =>
       /\ call[r].op \in {"create", "update"}
       /\ call[r].fact = proposals[call[r].value].fact
       /\ proposals[call[r].value].based # 0 =>
            call[r].expected = proposals[call[r].value].based
  /\ \A w \in Direct : pc[w] # "decide"
  /\ \A w \in Writer :
       /\ pc[w] = "insert" \/ (pc[w] = "decide" /\ call[w].op = "create") =>
            call[w].expected = 0
       /\ pc[w] = "commit" /\ call[w].expected # 0 => call[w].base = call[w].expected

\* A fact whose window has closed has been counted as lapsed.
LapsedSeen ==
  \A f \in Fact : Exists(f) /\ facts[f].trashed = "expired" => f \in lapsed

\* A version that a writer has read is not above the current one.
BasesBehind ==
  \A w \in Writer : pc[w] = "commit" /\ call[w].fact \notin lapsed =>
    Exists(call[w].fact) /\ call[w].base \in 1..facts[call[w].fact].version

\* The value v is nowhere: in no fact, no history, and no call but w's.
Nowhere(w, v) ==
  /\ \A f \in Fact : /\ Exists(f) => facts[f].value # v
                     /\ \A h \in history[f] : h.value # v
  /\ \A u \in Writer \ {w} : pc[u] # "idle" => call[u].value # v

\* What a request brings spreads only once the request is answered ok.
Unspread == \A w \in Direct : pc[w] # "ok" => Nowhere(w, w)

Settled(p, f) ==
  /\ proposals[p] # NoProposal
  /\ proposals[p].status = "approved" /\ proposals[p].fact = f

\* Whoever is past the decision and carries a proposed value has it approved.
CarriedApproved ==
  \A w \in Writer : pc[w] # "idle" /\ call[w].value \in Proposal =>
    pc[w] \in {"decide", "refused", "crashed"} \/ Settled(call[w].value, call[w].fact)

\* A fact, and its history, hold a proposed value only once it is approved for it.
StoredApproved ==
  \A f \in Fact :
    /\ Exists(f) /\ facts[f].value \in Proposal => Settled(facts[f].value, f)
    /\ \A v \in history[f] : v.value \in Proposal => Settled(v.value, f)

\* The first half of FactAnswersAreTrue.
OkIsRecorded ==
  \A w \in Writer : pc[w] = "ok" /\ call[w].expected # 0 /\ call[w].fact \notin lapsed =>
    \E v \in history[call[w].fact] :
       v.version = call[w].expected + 1 /\ v.value = call[w].value

-----------------------------------------------------------------------------
(* Rows, calls and the types.                                               *)

\* What the handlers make of a well-formed row is a well-formed row.
LEMMA FactRowChanges ==
  ASSUME NEW w \in FactRow
  PROVE  /\ [w EXCEPT !.before = w.status, !.status = "deprecated", !.trashed = "recent"]
              \in FactRow
         /\ [w EXCEPT !.status = RestoredStatus(w), !.before = "none", !.trashed = "no"]
              \in FactRow
         /\ [w EXCEPT !.trashed = "expired"] \in FactRow
         /\ \A n \in Nat \ {0}, v \in Value, s \in FactStatus :
              [w EXCEPT !.version = n, !.value = v, !.status = s] \in FactRow
BY DEF FactRow, FactStatus, RestoredStatus

\* A new fact is a well-formed row.
LEMMA NewFactIsRow == ASSUME NEW v \in Value PROVE NewFact(v) \in FactRow
BY DEF NewFact, FactRow, FactStatus

\* A caller that is not idle holds a well-formed call.
LEMMA CallFields ==
  ASSUME FactsTypeOK, NEW w \in Writer, pc[w] # "idle"
  PROVE  /\ call[w] \in Call /\ call[w].fact \in Fact /\ call[w].value \in Value
         /\ call[w].base \in Nat /\ call[w].expected \in Nat
         /\ call[w].status \in FactStatus
         /\ call[w].op \in {"create", "update", "amend", "deprecate", "rollback"}
<1>1. call[w] \in Call BY DEF FactsTypeOK
<1> QED BY <1>1 DEF Call

\* A fact that exists has a well-formed row.
LEMMA FactFields ==
  ASSUME FactsTypeOK, NEW f \in Fact, Exists(f)
  PROVE  /\ facts[f] \in FactRow /\ facts[f].version \in Nat \ {0}
         /\ facts[f].value \in Value /\ facts[f].status \in FactStatus
<1>1. facts[f] \in FactRow BY DEF FactsTypeOK, Exists
<1> QED BY <1>1 DEF FactRow

\* To begin a call: the caller was idle, and now holds it.
LEMMA BeginEffect ==
  ASSUME FactsTypeOK, NEW w \in Writer, NEW c \in Call,
         NEW l \in {"decide", "insert", "check"}, Begin(w, c, l)
  PROVE  /\ pc[w] = "idle" /\ pc'[w] = l /\ call'[w] = c
         /\ \A u \in Writer \ {w} : pc'[u] = pc[u] /\ call'[u] = call[u]
         /\ pc' \in [Writer -> {"idle"} \cup FactsWorking \cup FactsAnswered]
         /\ call' \in [Writer -> Call \cup {NoCall}]
         /\ \A u \in Writer : call'[u] = NoCall <=> pc'[u] = "idle"
BY FactsAssumption DEF Begin, Goto, FactsTypeOK, FactsWorking

\* What a direct request starts with: its own value, or one it finds.
LEMMA DirectStartEffect ==
  ASSUME FactsTypeOK, NEW w \in Direct, DirectStart(w)
  PROVE  \E f \in Fact, c \in Call, l \in {"insert", "check"} :
           /\ Begin(w, c, l) /\ c.fact = f
           /\ l = "insert" => c.expected = 0
           /\ \/ c.value = w
              \/ Exists(f) /\ c.value = facts[f].value
              \/ \E h \in history[f] : c.value = h.value
           /\ UNCHANGED <<facts, history, eligible, lapsed>>
<1> USE FactsAssumption
<1>0. w \in Writer /\ w \in Value OBVIOUS
<1> PICK f \in Fact : CreateStart(w, f) \/ UpdateStart(w, f) \/ DeprecateStart(w, f)
                      \/ RollbackStart(w, f)
  BY DEF DirectStart
<1>1. CASE CreateStart(w, f)
  <2> DEFINE c == [op |-> "create", fact |-> f, expected |-> 0, base |-> 0,
                   value |-> w, status |-> "active"]
  <2>1. c \in Call BY <1>0 DEF Call, FactStatus
  <2> QED BY <1>1, <2>1 DEF CreateStart
<1>2. CASE UpdateStart(w, f)
  <2>1. PICK e \in Expectable, s \in FactStatus, op \in {"update", "amend"},
              x \in {w, facts[f].value} :
             WriteStart(w, f, op, e, x, s)
    BY <1>2 DEF UpdateStart
  <2>2. Exists(f) BY <1>2 DEF UpdateStart, Active, Kept
  <2> DEFINE c == [op |-> op, fact |-> f, expected |-> e, base |-> 0,
                   value |-> x, status |-> s]
  <2>3. c \in Call /\ c.fact = f /\ c.value = x BY <1>0, <2>2, FactFields DEF Call
  <2>4. Begin(w, c, "check") /\ UNCHANGED <<facts, history, eligible, lapsed>>
    BY <2>1 DEF WriteStart
  <2> HIDE DEF c
  <2> QED BY <2>2, <2>3, <2>4
<1>3. CASE DeprecateStart(w, f)
  <2> DEFINE c == [op |-> "deprecate", fact |-> f, expected |-> 0, base |-> 0,
                   value |-> facts[f].value, status |-> "deprecated"]
  <2>1. Exists(f) BY <1>3 DEF DeprecateStart, Active, Kept
  <2>2. c \in Call BY <2>1, FactFields DEF Call, FactStatus
  <2> QED BY <1>3, <2>1, <2>2 DEF DeprecateStart, WriteStart
<1>4. CASE RollbackStart(w, f)
  <2>1. PICK h \in history[f] : WriteStart(w, f, "rollback", 0, h.value, "active")
    BY <1>4 DEF RollbackStart
  <2> DEFINE c == [op |-> "rollback", fact |-> f, expected |-> 0, base |-> 0,
                   value |-> h.value, status |-> "active"]
  <2>2. c \in Call BY DEF Call, FactStatus, FactsTypeOK, FactVersion
  <2> QED BY <2>1, <2>2 DEF WriteStart
<1> QED BY <1>1, <1>2, <1>3, <1>4

\* What a reviewer starts with: the proposal, and the version it read.
LEMMA ApproveStartEffect ==
  ASSUME FactsTypeOK, proposals \in [Proposal -> ProposalRow \cup {NoProposal}],
         NEW r \in Reviewer, NEW p \in Proposal, ApproveStart(r, p)
  PROVE  \E c \in Call :
           /\ Begin(r, c, "decide") /\ c.fact = proposals[p].fact /\ c.value = p
           /\ c.op \in {"create", "update"}
           /\ c.op = "create" => c.expected = 0
           /\ proposals[p].based # 0 => c.expected = proposals[p].based
           /\ proposals[p] # NoProposal
           /\ UNCHANGED <<facts, history, eligible, lapsed, proposals>>
<1> DEFINE f == proposals[p].fact
           current == VersionKept(f)
           c == [op |-> IF current = 0 THEN "create" ELSE "update", fact |-> f,
                 expected |-> current, base |-> 0, value |-> p, status |-> "active"]
<1>1. proposals[p] # NoProposal /\ proposals[p] \in ProposalRow
  BY DEF ApproveStart, Pending
<1>2. f \in Fact BY <1>1 DEF ProposalRow
<1>3. current \in Nat BY <1>2, FactFields DEF VersionKept, Kept
<1>4. c \in Call
  <2> HIDE DEF f, current
  <2> QED BY <1>2, <1>3, ProposalsAssumption DEF Call, FactStatus
<1>5. proposals[p].based # 0 => proposals[p].based = current
  BY DEF ApproveStart, BaseIsCurrent
<1>6. Begin(r, c, "decide") /\ UNCHANGED <<facts, history, eligible, lapsed, proposals>>
  BY DEF ApproveStart
<1>7. /\ c.fact = f /\ c.value = p /\ c.op \in {"create", "update"}
      /\ c.expected = current
      /\ c.op = "create" => current = 0
  <2> HIDE DEF f, current
  <2> QED OBVIOUS
<1> HIDE DEF c, current
<1> QED BY <1>1, <1>4, <1>5, <1>6, <1>7

\* Check answers, or goes on with the version it finds as the base of the write
\* and, for a deprecation, with the value it finds.
LEMMA CheckEffect ==
  ASSUME FactsTypeOK, NEW w \in Writer, Check(w)
  PROVE  \/ \E l \in {"failed", "stale"} : Goto(w, l) /\ UNCHANGED call
         \/ \E c \in Call :
              /\ call' = [call EXCEPT ![w] = c] /\ Goto(w, "commit")
              /\ Exists(call[w].fact)
              /\ c.op = call[w].op /\ c.fact = call[w].fact
              /\ c.expected = call[w].expected
              /\ c.base = facts[call[w].fact].version
              /\ c.expected # 0 => c.base = c.expected
              /\ \/ c.value = call[w].value
                 \/ call[w].op \in Keeping /\ c.value = facts[call[w].fact].value
<1> DEFINE f == call[w].fact
           v == IF call[w].op \in Keeping THEN facts[f].value ELSE call[w].value
           c == [call[w] EXCEPT !.base = facts[f].version, !.value = v]
<1>1. CASE \/ ~Active(f) /\ Goto(w, "failed") /\ UNCHANGED call
           \/ Active(f) /\ ~ExpectationHolds(call[w]) /\ Goto(w, "stale") /\ UNCHANGED call
  BY <1>1
<1>2. CASE /\ Active(f) /\ ExpectationHolds(call[w]) /\ Goto(w, "commit")
           /\ call' = [call EXCEPT ![w].base = facts[f].version,
                 ![w].value = IF call[w].op \in Keeping THEN facts[f].value ELSE @]
  <2>1. pc[w] # "idle" BY DEF Check
  <2>2. Exists(f) BY <1>2 DEF Active, Kept
  <2>3. facts[f].version \in Nat /\ v \in Value BY <2>1, <2>2, CallFields, FactFields
  <2>4. call[w] \in Call BY <2>1, CallFields
  <2>5. /\ c \in Call /\ c.op = call[w].op /\ c.fact = f /\ c.expected = call[w].expected
        /\ c.base = facts[f].version /\ c.value = v
    <3> DEFINE n == facts[f].version
    <3>1. n \in Nat BY <2>3
    <3> HIDE DEF v, n
    <3> DEFINE d == [call[w] EXCEPT !.base = n, !.value = v]
    <3>2. /\ d \in Call /\ d.op = call[w].op /\ d.fact = call[w].fact
          /\ d.expected = call[w].expected /\ d.base = n /\ d.value = v
      BY <2>3, <2>4, <3>1 DEF Call
    <3> QED BY <3>2 DEF n
  <2>6. call' = [call EXCEPT ![w] = c] BY <1>2, <2>4 DEF FactsTypeOK, Call
  <2>7. c.expected # 0 => c.base = c.expected BY <1>2, <2>5 DEF ExpectationHolds
  <2> HIDE DEF c
  <2> QED BY <1>2, <2>2, <2>5, <2>6, <2>7
<1> QED BY <1>1, <1>2 DEF Check

\* A commit fails, or adds the version after its base to the history and, if
\* there is a fact by then, makes it that version.
LEMMA CommitEffect ==
  ASSUME FactsTypeOK, NEW w \in Writer, Commit(w)
  PROVE  \/ Goto(w, "failed") /\ UNCHANGED <<facts, history>>
         \/ \E f \in Fact, n \in Nat \ {0}, x \in Value, s \in FactStatus :
              /\ f = call[w].fact /\ n = call[w].base + 1 /\ x = call[w].value
              /\ n \notin Recorded(f) /\ Goto(w, "ok")
              /\ history' = [history EXCEPT ![f] =
                               @ \cup {[version |-> n, value |-> x, status |-> s]}]
              /\ ~Exists(f) => facts' = facts
              /\ Exists(f) => \E row \in FactRow :
                   /\ facts' = [facts EXCEPT ![f] = row]
                   /\ row.version = n /\ row.value = x /\ row.trashed = facts[f].trashed
<1> DEFINE f == call[w].fact
           n == call[w].base + 1
           x == call[w].value
           s == call[w].status
           v == [version |-> n, value |-> x, status |-> s]
           row == [facts[f] EXCEPT !.version = n, !.value = x, !.status = s]
<1>1. pc[w] # "idle" BY DEF Commit
<1>2. f \in Fact /\ n \in Nat \ {0} /\ x \in Value /\ s \in FactStatus
  BY <1>1, CallFields
<1>3. CASE ~CanInsert(f, n) BY <1>3 DEF Commit
<1>4. CASE CanInsert(f, n)
  <2>1. /\ n \notin Recorded(f) /\ Goto(w, "ok")
        /\ history' = [history EXCEPT ![f] = @ \cup {v}]
        /\ ~Exists(f) => facts' = facts
    BY <1>4 DEF Commit, CanInsert
  <2>2. ASSUME Exists(f)
        PROVE  /\ row \in FactRow /\ row.version = n /\ row.value = x
               /\ row.trashed = facts[f].trashed
               /\ facts' = [facts EXCEPT ![f] = row]
    <3>1. facts' = [facts EXCEPT ![f].version = n, ![f].value = x, ![f].status = s]
      BY <1>4, <2>2 DEF Commit
    <3>2. facts[f] \in FactRow BY <1>2, <2>2, FactFields
    <3> HIDE DEF f, n, x, s
    <3>3. row \in FactRow BY <1>2, <3>2, FactRowChanges
    <3>4. row.version = n /\ row.value = x /\ row.trashed = facts[f].trashed
      BY <3>2 DEF FactRow
    <3>5. facts' = [facts EXCEPT ![f] = row] BY <1>2, <3>1, <3>2 DEF FactRow, FactsTypeOK
    <3> QED BY <3>3, <3>4, <3>5
  <2> HIDE DEF f, n, x, s, row
  <2>3. /\ n \notin Recorded(f) /\ Goto(w, "ok")
        /\ history' = [history EXCEPT ![f] =
                         @ \cup {[version |-> n, value |-> x, status |-> s]}]
        /\ ~Exists(f) => facts' = facts
        /\ Exists(f) => \E rw \in FactRow :
             /\ facts' = [facts EXCEPT ![f] = rw]
             /\ rw.version = n /\ rw.value = x /\ rw.trashed = facts[f].trashed
    BY <2>1, <2>2
  <2> QED BY <1>2, <2>3 DEF f, n, x
<1> QED BY <1>3, <1>4

\* An insert fails, or there is the fact, new, and its first version.
LEMMA InsertEffect ==
  ASSUME FactsTypeOK, NEW w \in Writer, Insert(w)
  PROVE  \/ Goto(w, "failed") /\ UNCHANGED <<facts, history>>
         \/ \E f \in Fact, x \in Value :
              /\ f = call[w].fact /\ x = call[w].value
              /\ ~Exists(f) /\ 1 \notin Recorded(f) /\ Goto(w, "ok")
              /\ facts' = [facts EXCEPT ![f] = NewFact(x)]
              /\ history' = [history EXCEPT ![f] =
                               @ \cup {[version |-> 1, value |-> x, status |-> "active"]}]
<1>1. pc[w] # "idle" BY DEF Insert
<1>2. PICK f \in Fact, x \in Value : f = call[w].fact /\ x = call[w].value
  BY <1>1, CallFields
<1>3. RecordOf(NewFact(x)) = [version |-> 1, value |-> x, status |-> "active"]
  BY DEF RecordOf, NewFact
<1> QED BY <1>2, <1>3 DEF Insert, CanInsert

-----------------------------------------------------------------------------
(* Types.                                                                   *)

TypesInv == ProposalsTypeOK /\ CallsKept

\* Where no fact, call or proposal changes, neither do the types.
LEMMA PcStep ==
  ASSUME TypesInv, NEW w \in Writer, NEW l \in FactsAnswered,
         pc[w] \in FactsWorking, Goto(w, l), UNCHANGED <<call, proposals>>
  PROVE  /\ pc' \in [Writer -> {"idle"} \cup FactsWorking \cup FactsAnswered]
         /\ \A u \in Writer : call'[u] = NoCall <=> pc'[u] = "idle"
         /\ \A r \in Reviewer : pc'[r] # "idle" => /\ call'[r].value \in Proposal
                                                /\ proposals'[call'[r].value] # NoProposal
         /\ CallsKept'
<1> USE ProposalsAssumption DEF FactsWorking, FactsAnswered
<1>1. pc[w] # "idle" /\ l # "idle" OBVIOUS
<1>2. pc' = [pc EXCEPT ![w] = l] BY DEF Goto
<1>3. /\ pc' \in [Writer -> {"idle"} \cup FactsWorking \cup FactsAnswered]
      /\ pc'[w] = l /\ \A u \in Writer \ {w} : pc'[u] = pc[u]
  BY <1>2 DEF TypesInv, ProposalsTypeOK, FactsTypeOK
<1>4. /\ \A u \in Writer : call'[u] = NoCall <=> pc'[u] = "idle"
      /\ \A r \in Reviewer : pc'[r] # "idle" => /\ call'[r].value \in Proposal
                                             /\ proposals'[call'[r].value] # NoProposal
  BY <1>1, <1>3 DEF TypesInv, ProposalsTypeOK, FactsTypeOK
<1>5. CallsKept' BY <1>1, <1>3 DEF TypesInv, CallsKept
<1> QED BY <1>3, <1>4, <1>5

\* To begin a call that carries what its caller came with keeps the types.
LEMMA BeginStep ==
  ASSUME TypesInv, NEW w \in Writer, NEW c \in Call,
         NEW l \in {"decide", "insert", "check"}, Begin(w, c, l),
         UNCHANGED <<facts, history, eligible, lapsed, proposals>>,
         l = "insert" \/ (l = "decide" /\ c.op = "create") => c.expected = 0,
         w \in Direct => l # "decide",
         w \in Reviewer =>
           /\ c.op \in {"create", "update"} /\ c.value \in Proposal
           /\ proposals[c.value] # NoProposal /\ c.fact = proposals[c.value].fact
           /\ proposals[c.value].based # 0 => c.expected = proposals[c.value].based
  PROVE  TypesInv'
<1>1. /\ pc[w] = "idle" /\ pc'[w] = l /\ call'[w] = c
      /\ \A u \in Writer \ {w} : pc'[u] = pc[u] /\ call'[u] = call[u]
      /\ pc' \in [Writer -> {"idle"} \cup FactsWorking \cup FactsAnswered]
      /\ call' \in [Writer -> Call \cup {NoCall}]
      /\ \A u \in Writer : call'[u] = NoCall <=> pc'[u] = "idle"
  BY BeginEffect DEF TypesInv, ProposalsTypeOK
<1> USE ProposalsAssumption DEF TypesInv
<1>2. FactsTypeOK' BY <1>1 DEF FactsTypeOK, ProposalsTypeOK
<1>3. ProposalsTypeOK' BY <1>1, <1>2 DEF ProposalsTypeOK
<1>4. CallsKept' BY <1>1 DEF CallsKept
<1> QED BY <1>3, <1>4

\* Initially everything is well formed.
LEMMA TypesInit == Init => TypesInv
<1> SUFFICES ASSUME Init PROVE TypesInv OBVIOUS
<1> USE FactsAssumption, ProposalsAssumption DEF Init, FactsInit
<1>1. PICK some \in SUBSET Fact :
        /\ facts = [f \in Fact |-> IF f \in some THEN NewFact(f) ELSE NoRow]
        /\ history = [f \in Fact |-> IF f \in some THEN {RecordOf(NewFact(f))} ELSE {}]
  OBVIOUS
<1>2. \A f \in Fact : NewFact(f) \in FactRow BY NewFactIsRow
<1>3. facts \in [Fact -> FactRow \cup {NoRow}] BY <1>1, <1>2
<1>4. \A f \in Fact : RecordOf(NewFact(f)) \in FactVersion
  BY DEF RecordOf, NewFact, FactVersion, FactStatus
<1>5. history \in [Fact -> SUBSET FactVersion] BY <1>1, <1>4
<1>6. FactsTypeOK BY <1>3, <1>5 DEF FactsTypeOK
<1>7. ProposalsTypeOK BY <1>6 DEF ProposalsTypeOK
<1>8. CallsKept BY DEF CallsKept
<1> QED BY <1>7, <1>8 DEF TypesInv

\* Every step keeps the rows, the calls and the proposals well formed.
LEMMA TypesNext == TypesInv /\ LapsedSeen /\ [Next]_allVars => TypesInv'
<1> SUFFICES ASSUME TypesInv, LapsedSeen, [Next]_allVars PROVE TypesInv' OBVIOUS
<1>0. FactsTypeOK /\ ProposalsTypeOK /\ CallsKept BY DEF TypesInv, ProposalsTypeOK
<1>a. FactsTypeOK' /\ UNCHANGED <<pc, call, proposals>> => TypesInv'
  BY <1>0 DEF TypesInv, ProposalsTypeOK, CallsKept
<1>1. ASSUME NEW w \in Direct, DirectStart(w), UNCHANGED proposals PROVE TypesInv'
  <2>1. w \in Writer /\ w \notin Reviewer BY ProposalsAssumption, NamesApart
  <2>2. PICK f \in Fact, c \in Call, l \in {"insert", "check"} :
           /\ Begin(w, c, l)
           /\ l = "insert" => c.expected = 0
           /\ UNCHANGED <<facts, history, eligible, lapsed>>
    BY <1>0, <1>1, DirectStartEffect
  <2> QED BY <1>1, <2>1, <2>2, BeginStep
<1>2. ASSUME NEW w \in Writer, Insert(w), UNCHANGED proposals PROVE TypesInv'
  <2>1. pc[w] \in FactsWorking /\ UNCHANGED <<call, eligible, lapsed>>
    BY <1>2 DEF Insert, FactsWorking
  <2>2. /\ \E l \in FactsAnswered : Goto(w, l)
        /\ facts' \in [Fact -> FactRow \cup {NoRow}]
        /\ history' \in [Fact -> SUBSET FactVersion]
    BY <1>0, <1>2, InsertEffect, NewFactIsRow
    DEF FactsTypeOK, FactsAnswered, FactVersion, FactStatus
  <2>3. PICK l \in FactsAnswered : Goto(w, l) BY <2>2
  <2> QED BY <1>0, <1>2, <2>1, <2>2, <2>3, PcStep DEF FactsTypeOK, ProposalsTypeOK, TypesInv
<1>3. ASSUME NEW w \in Writer, Check(w), UNCHANGED proposals PROVE TypesInv'
  <2>1. /\ pc[w] = "check" /\ UNCHANGED <<facts, history, eligible, lapsed>>
        /\ pc[w] \in FactsWorking
    BY <1>3 DEF Check, FactsWorking
  <2>2. ASSUME NEW l \in {"failed", "stale"}, Goto(w, l), UNCHANGED call PROVE TypesInv'
    BY <1>0, <1>3, <2>1, <2>2, PcStep DEF FactsTypeOK, ProposalsTypeOK, TypesInv, FactsAnswered
  <2>3. ASSUME NEW c \in Call, call' = [call EXCEPT ![w] = c], Goto(w, "commit"),
               c.op = call[w].op, c.fact = call[w].fact, c.expected = call[w].expected,
               c.expected # 0 => c.base = c.expected,
               c.value = call[w].value \/ call[w].op \in Keeping
        PROVE  TypesInv'
    <3>1. /\ pc'[w] = "commit" /\ call'[w] = c
          /\ \A u \in Writer \ {w} : pc'[u] = pc[u] /\ call'[u] = call[u]
          /\ pc' \in [Writer -> {"idle"} \cup FactsWorking \cup FactsAnswered]
          /\ call' \in [Writer -> Call \cup {NoCall}]
      BY <1>0, <2>3 DEF Goto, FactsTypeOK, FactsWorking
    <3>2. FactsTypeOK' BY <1>0, <2>1, <3>1, FactsAssumption DEF FactsTypeOK
    <3>3. w \in Reviewer => c.value = call[w].value BY <1>0, <2>1, <2>3 DEF CallsKept, Keeping
    <3> USE ProposalsAssumption
    <3>4. ProposalsTypeOK' BY <1>0, <1>3, <2>1, <3>1, <3>2, <3>3 DEF ProposalsTypeOK
    <3>5. CallsKept' BY <1>0, <1>3, <2>1, <2>3, <3>1, <3>3 DEF CallsKept
    <3> QED BY <3>4, <3>5 DEF TypesInv
  <2> QED BY <1>0, <1>3, <2>2, <2>3, CheckEffect
<1>4. ASSUME NEW w \in Writer, Commit(w), UNCHANGED proposals PROVE TypesInv'
  <2>1. pc[w] \in FactsWorking /\ UNCHANGED <<call, eligible, lapsed>>
    BY <1>4 DEF Commit, FactsWorking
  <2>2. /\ \E l \in FactsAnswered : Goto(w, l)
        /\ facts' \in [Fact -> FactRow \cup {NoRow}]
        /\ history' \in [Fact -> SUBSET FactVersion]
    <3>1. CASE Goto(w, "failed") /\ UNCHANGED <<facts, history>>
      BY <1>0, <3>1 DEF FactsTypeOK, FactsAnswered
    <3>2. CASE \E f \in Fact, n \in Nat \ {0}, x \in Value, s \in FactStatus :
                 /\ Goto(w, "ok")
                 /\ history' = [history EXCEPT ![f] =
                                  @ \cup {[version |-> n, value |-> x, status |-> s]}]
                 /\ ~Exists(f) => facts' = facts
                 /\ Exists(f) => \E row \in FactRow : facts' = [facts EXCEPT ![f] = row]
      <4> PICK f \in Fact, n \in Nat \ {0}, x \in Value, s \in FactStatus :
                 /\ Goto(w, "ok")
                 /\ history' = [history EXCEPT ![f] =
                                  @ \cup {[version |-> n, value |-> x, status |-> s]}]
                 /\ ~Exists(f) => facts' = facts
                 /\ Exists(f) => \E row \in FactRow : facts' = [facts EXCEPT ![f] = row]
        BY <3>2
      <4>1. [version |-> n, value |-> x, status |-> s] \in FactVersion
        BY DEF FactVersion
      <4>2. history' \in [Fact -> SUBSET FactVersion] BY <1>0, <4>1 DEF FactsTypeOK
      <4>3. facts' \in [Fact -> FactRow \cup {NoRow}] BY <1>0 DEF FactsTypeOK
      <4> QED BY <4>2, <4>3 DEF FactsAnswered
    <3> QED BY <1>0, <1>4, <3>1, <3>2, CommitEffect
  <2>3. PICK l \in FactsAnswered : Goto(w, l) BY <2>2
  <2> QED BY <1>0, <1>4, <2>1, <2>2, <2>3, PcStep DEF FactsTypeOK, ProposalsTypeOK, TypesInv
<1>5. ASSUME NEW w \in Writer, Crash(w), UNCHANGED proposals PROVE TypesInv'
  <2>1. /\ pc[w] \in FactsWorking /\ Goto(w, "crashed") /\ "crashed" \in FactsAnswered
        /\ UNCHANGED <<facts, history, call, eligible, lapsed>>
    BY <1>5 DEF Crash, InFlight, FactsAnswered
  <2> QED BY <1>0, <1>5, <2>1, PcStep DEF FactsTypeOK, ProposalsTypeOK, TypesInv
<1>6. ASSUME NEW f \in Fact, Trash(f) \/ Restore(f) \/ RetentionElapses(f),
             UNCHANGED proposals
      PROVE  TypesInv'
  <2>1. Exists(f) /\ facts[f] \in FactRow
    BY <1>0, <1>6, FactFields DEF Trash, Restore, RetentionElapses, Kept, InTrash
  <2>2. /\ \E row \in FactRow : facts' = [facts EXCEPT ![f] = row]
        /\ UNCHANGED <<history, pc, call, eligible>>
        /\ lapsed \subseteq lapsed' /\ lapsed' \subseteq Fact
    BY <1>0, <1>6, <2>1 DEF Trash, Restore, RetentionElapses, FactsTypeOK, FactRow,
                            FactStatus, RestoredStatus
  <2> QED BY <1>0, <1>a, <1>6, <2>2 DEF FactsTypeOK
<1>7. ASSUME NEW f \in Fact, PurgeFact(f) \/ PurgeSkip(f), UNCHANGED proposals
      PROVE  TypesInv'
  BY <1>0, <1>a, <1>7 DEF PurgeFact, PurgeSkip, FactsTypeOK
<1>8. ASSUME PurgeFind, UNCHANGED proposals PROVE TypesInv'
  BY <1>0, <1>a, <1>8 DEF PurgeFind, FactsTypeOK, Purgeable, LapsedSeen
<1>9. ASSUME NEW p \in Proposal, NEW f \in Fact, Propose(p, f) PROVE TypesInv'
  <2>1. VersionKept(f) \in Nat BY <1>0, FactFields DEF VersionKept, Kept
  <2>2. /\ proposals' \in [Proposal -> ProposalRow \cup {NoProposal}]
        /\ proposals'[p] # NoProposal /\ proposals[p] = NoProposal
        /\ \A q \in Proposal \ {p} : proposals'[q] = proposals[q]
        /\ UNCHANGED <<facts, history, pc, call, eligible, lapsed>>
    BY <1>0, <1>9, <2>1, ProposalsAssumption
    DEF Propose, ProposalRow, ProposalsTypeOK, factVars
  <2>3. \A r \in Reviewer : pc[r] # "idle" => call[r].value \in Proposal \ {p}
    BY <1>0, <2>2 DEF ProposalsTypeOK
  <2>4. ProposalsTypeOK' BY <1>0, <2>2, <2>3 DEF ProposalsTypeOK, FactsTypeOK
  <2>5. CallsKept' BY <1>0, <2>2, <2>3 DEF CallsKept
  <2> QED BY <2>4, <2>5 DEF TypesInv
<1>10. ASSUME NEW r \in Reviewer, NEW p \in Proposal, ApproveStart(r, p) PROVE TypesInv'
  <2>1. r \in Writer /\ r \notin Direct BY ProposalsAssumption, NamesApart
  <2>2. PICK c \in Call :
           /\ Begin(r, c, "decide") /\ c.fact = proposals[p].fact /\ c.value = p
           /\ c.op \in {"create", "update"}
           /\ c.op = "create" => c.expected = 0
           /\ proposals[p].based # 0 => c.expected = proposals[p].based
           /\ proposals[p] # NoProposal
           /\ UNCHANGED <<facts, history, eligible, lapsed, proposals>>
    BY <1>0, <1>10, ApproveStartEffect DEF ProposalsTypeOK
  <2> QED BY <2>1, <2>2, BeginStep
<1>11. ASSUME NEW p \in Proposal, NEW s \in {"approved", "rejected"}, Pending(p),
              proposals' = [proposals EXCEPT ![p].status = s]
       PROVE  /\ proposals' \in [Proposal -> ProposalRow \cup {NoProposal}]
              /\ \A q \in Proposal :
                   /\ proposals[q] # NoProposal => proposals'[q] # NoProposal
                   /\ proposals'[q].fact = proposals[q].fact
                   /\ proposals'[q].based = proposals[q].based
  <2>1. proposals[p] \in ProposalRow /\ proposals[p] # NoProposal
    BY <1>0, <1>11 DEF ProposalsTypeOK, Pending
  <2> QED BY <1>0, <1>11, <2>1, ProposalsAssumption DEF ProposalsTypeOK, ProposalRow
<1>12. ASSUME NEW r \in Reviewer, Decide(r) PROVE TypesInv'
  <2>1. /\ pc[r] = "decide" /\ r \in Writer /\ r \notin Direct
        /\ call[r].value \in Proposal /\ call[r].op \in {"create", "update"}
        /\ UNCHANGED <<facts, history, call, eligible, lapsed>>
    BY <1>0, <1>12, ProposalsAssumption, NamesApart DEF Decide, ProposalsTypeOK, CallsKept
  <2> DEFINE l == IF call[r].op = "create" THEN "insert" ELSE "check"
  <2>2. \/ Goto(r, "refused") /\ UNCHANGED proposals
        \/ /\ Goto(r, l) /\ Pending(call[r].value)
           /\ proposals' = [proposals EXCEPT ![call[r].value].status = "approved"]
    BY <1>12 DEF Decide
  <2>3. /\ proposals' \in [Proposal -> ProposalRow \cup {NoProposal}]
        /\ \A q \in Proposal :
             /\ proposals[q] # NoProposal => proposals'[q] # NoProposal
             /\ proposals'[q].fact = proposals[q].fact
             /\ proposals'[q].based = proposals[q].based
    BY <1>0, <1>11, <2>1, <2>2 DEF ProposalsTypeOK
  <2>4. \E m \in {"refused", l} :
          /\ pc'[r] = m /\ \A u \in Writer \ {r} : pc'[u] = pc[u]
          /\ pc' \in [Writer -> {"idle"} \cup FactsWorking \cup FactsAnswered]
    BY <1>0, <2>1, <2>2 DEF Goto, FactsTypeOK, FactsWorking, FactsAnswered
  <2>5. FactsTypeOK' BY <1>0, <2>1, <2>4 DEF FactsTypeOK
  <2>6. ProposalsTypeOK' BY <1>0, <2>1, <2>3, <2>4, <2>5, ProposalsAssumption DEF ProposalsTypeOK
  <2>7. CallsKept'
    BY <1>0, <2>1, <2>3, <2>4, ProposalsAssumption DEF CallsKept, ProposalsTypeOK
  <2> QED BY <2>6, <2>7 DEF TypesInv
<1>13. ASSUME NEW p \in Proposal, Reject(p) PROVE TypesInv'
  <2>1. /\ proposals' \in [Proposal -> ProposalRow \cup {NoProposal}]
        /\ \A q \in Proposal :
             /\ proposals[q] # NoProposal => proposals'[q] # NoProposal
             /\ proposals'[q].fact = proposals[q].fact
             /\ proposals'[q].based = proposals[q].based
        /\ UNCHANGED <<facts, history, pc, call, eligible, lapsed>>
    BY <1>11, <1>13 DEF Reject, factVars
  <2>2. ProposalsTypeOK' BY <1>0, <2>1 DEF ProposalsTypeOK, FactsTypeOK
  <2>3. CallsKept' BY <1>0, <2>1 DEF CallsKept, ProposalsTypeOK
  <2> QED BY <2>2, <2>3 DEF TypesInv
<1>14. CASE UNCHANGED allVars
  <2>1. UNCHANGED <<facts, history, pc, call, eligible, lapsed, proposals>>
    BY <1>14 DEF allVars, factVars
  <2>2. FactsTypeOK' BY <1>0, <2>1 DEF FactsTypeOK
  <2> QED BY <1>a, <2>1, <2>2
<1> QED BY <1>1, <1>2, <1>3, <1>4, <1>5, <1>6, <1>7, <1>8, <1>9, <1>10, <1>12, <1>13, <1>14
        DEF Next, FactsNext, WriterStep

\* Only the closing of a window makes a fact expired.
LEMMA LapsedNext == TypesInv /\ LapsedSeen /\ [Next]_allVars => LapsedSeen'
<1> SUFFICES ASSUME TypesInv, LapsedSeen, [Next]_allVars PROVE LapsedSeen' OBVIOUS
<1> USE FactsAssumption DEF LapsedSeen
<1>0. FactsTypeOK /\ facts \in [Fact -> FactRow \cup {NoRow}]
  BY DEF TypesInv, ProposalsTypeOK, FactsTypeOK
<1>1. CASE UNCHANGED <<facts, lapsed>> BY <1>1 DEF Exists
<1>2. ASSUME NEW w \in Writer, Insert(w) PROVE LapsedSeen'
  BY <1>0, <1>1, <1>2, InsertEffect DEF Insert, NewFact, Exists
<1>3. ASSUME NEW w \in Writer, Commit(w) PROVE LapsedSeen'
  <2>1. lapsed' = lapsed BY <1>3 DEF Commit
  <2>2. CASE UNCHANGED facts BY <1>1, <2>1, <2>2
  <2>3. ASSUME NEW f \in Fact, Exists(f), NEW row \in FactRow,
               facts' = [facts EXCEPT ![f] = row], row.trashed = facts[f].trashed
        PROVE  LapsedSeen'
    BY <1>0, <2>1, <2>3 DEF Exists
  <2> QED BY <1>0, <1>3, <2>2, <2>3, CommitEffect
<1>4. ASSUME NEW f \in Fact, Trash(f) \/ Restore(f) \/ RetentionElapses(f) PROVE LapsedSeen'
  <2>1. Exists(f) /\ facts[f] \in FactRow
    BY <1>0, <1>4, FactFields DEF Trash, Restore, RetentionElapses, Kept, InTrash
  <2> QED BY <1>0, <1>4, <2>1 DEF Trash, Restore, RetentionElapses, FactRow, Exists
<1>5. ASSUME NEW f \in Fact, PurgeFact(f) \/ PurgeSkip(f) PROVE LapsedSeen'
  BY <1>0, <1>5 DEF PurgeFact, PurgeSkip, Exists
<1>6. \/ UNCHANGED <<facts, lapsed>>
      \/ \E w \in Writer : Insert(w) \/ Commit(w)
      \/ \E f \in Fact : \/ Trash(f) \/ Restore(f) \/ RetentionElapses(f)
                        \/ PurgeFact(f) \/ PurgeSkip(f)
  BY <1>0, DirectStartEffect
  DEF Next, FactsNext, WriterStep, Check, Crash, PurgeFind, Propose, ApproveStart, Decide,
      Reject, allVars, factVars
<1> QED BY <1>1, <1>2, <1>3, <1>4, <1>5, <1>6

\* Initially no window has closed.
LEMMA LapsedInit == Init => LapsedSeen
BY DEF Init, FactsInit, LapsedSeen, Exists, NewFact

-----------------------------------------------------------------------------
(* Versions.                                                                *)

Matches(f) ==
  /\ Exists(f) => /\ Recorded(f) = 1..facts[f].version
                  /\ \E v \in history[f] : /\ v.version = facts[f].version
                                           /\ v.value = facts[f].value
  /\ \A v, u \in history[f] : v.version = u.version => v = u
  /\ ~Exists(f) => history[f] = {}

\* Initially every fact has its one version.
LEMMA VersionsInit == Init => FactHistoryMatches /\ BasesBehind
<1> SUFFICES ASSUME Init PROVE FactHistoryMatches /\ BasesBehind OBVIOUS
<1> USE FactsAssumption DEF Init, FactsInit
<1>1. PICK some \in SUBSET Fact :
        /\ facts = [f \in Fact |-> IF f \in some THEN NewFact(f) ELSE NoRow]
        /\ history = [f \in Fact |-> IF f \in some THEN {RecordOf(NewFact(f))} ELSE {}]
  OBVIOUS
<1>2. ASSUME NEW f \in Fact PROVE Matches(f)
  <2>1. CASE f \in some
    <3>1. facts[f] = NewFact(f) /\ history[f] = {RecordOf(NewFact(f))} BY <1>1, <2>1
    <3>2. /\ NewFact(f).version = 1 /\ NewFact(f).value = f
          /\ RecordOf(NewFact(f)).version = 1 /\ RecordOf(NewFact(f)).value = f
      BY DEF NewFact, RecordOf
    <3>3. NewFact(f) # NoRow BY NewFactIsRow
    <3> QED BY <3>1, <3>2, <3>3 DEF Matches, Recorded, Exists
  <2>2. CASE f \notin some BY <1>1, <2>2 DEF Matches, Exists
  <2> QED BY <2>1, <2>2
<1>3. FactHistoryMatches BY <1>2 DEF FactHistoryMatches, Matches
<1>4. BasesBehind BY DEF BasesBehind
<1> QED BY <1>3, <1>4

\* What neither the fact nor its history is part of leaves its versions alone.
LEMMA MatchesFrame ==
  ASSUME NEW f \in Fact, Matches(f), facts'[f] = facts[f], history'[f] = history[f]
  PROVE  Matches(f)'
BY DEF Matches, Exists, Recorded

\* A fact that is inserted, or a version that follows the current one, continues
\* the numbers.
LEMMA MatchesGrows ==
  ASSUME NEW f \in Fact, Matches(f), NEW n \in Nat \ {0}, NEW x, NEW s,
         facts'[f] # NoRow, facts'[f].version = n, facts'[f].value = x,
         history'[f] = history[f] \cup {[version |-> n, value |-> x, status |-> s]},
         \/ ~Exists(f) /\ n = 1
         \/ Exists(f) /\ facts[f].version \in Nat \ {0} /\ n = facts[f].version + 1
  PROVE  Matches(f)'
<1> DEFINE v == [version |-> n, value |-> x, status |-> s]
<1>1. Exists(f)' /\ v \in history'[f] /\ v.version = n /\ v.value = x BY DEF Exists
<1>2. Recorded(f)' = Recorded(f) \cup {n} BY <1>1 DEF Recorded
<1>3. Recorded(f) = 1..(n - 1)
  <2>1. CASE ~Exists(f) /\ n = 1 BY <2>1 DEF Matches, Recorded
  <2>2. CASE Exists(f) BY <2>2 DEF Matches
  <2> QED BY <2>1, <2>2
<1>4. Recorded(f)' = 1..n BY <1>2, <1>3
<1>5. \A u \in history[f] : u.version # n BY <1>3 DEF Recorded
<1>6. \A u, t \in history'[f] : u.version = t.version => u = t
  BY <1>1, <1>5 DEF Matches
<1> QED BY <1>1, <1>4, <1>6 DEF Matches

\* Nobody reaches the commit, nor changes what it carries there.
NoNewCommit ==
  \A u \in Writer : pc'[u] = "commit" => pc[u] = "commit" /\ call'[u] = call[u]

\* While no version is lost outside the purge, those behind stay behind.
LEMMA BasesFrame ==
  ASSUME FactsTypeOK, BasesBehind, NoNewCommit, lapsed \subseteq lapsed',
         \A f \in Fact \ lapsed' : Exists(f) =>
            /\ Exists(f)' /\ facts'[f].version \in Nat
            /\ facts[f].version <= facts'[f].version
  PROVE  BasesBehind'
<1> SUFFICES ASSUME NEW w \in Writer, pc'[w] = "commit", call'[w].fact \notin lapsed'
             PROVE  /\ Exists(call[w].fact)'
                    /\ call'[w].base \in 1..facts'[call'[w].fact].version
                    /\ call'[w] = call[w]
  BY DEF BasesBehind, Exists
<1>1. pc[w] = "commit" /\ call'[w] = call[w] BY DEF NoNewCommit
<1>2. PICK f \in Fact : f = call[w].fact /\ f \notin lapsed /\ f \notin lapsed'
  BY <1>1, CallFields
<1>3. Exists(f) /\ call[w].base \in 1..facts[f].version BY <1>1, <1>2 DEF BasesBehind
<1>4. facts[f].version \in Nat /\ facts'[f].version \in Nat /\ Exists(f)'
      /\ facts[f].version <= facts'[f].version
  BY <1>2, <1>3, FactFields
<1>5. call[w].base \in 1..facts'[f].version BY <1>3, <1>4
<1> QED BY <1>1, <1>2, <1>4, <1>5 DEF Exists

\* An answer given to a writer at work is no new commit.
LEMMA GotoNoCommit ==
  ASSUME FactsTypeOK, NEW w \in Writer, NEW l \in FactsAnswered \cup {"insert", "check"},
         Goto(w, l), UNCHANGED call
  PROVE  NoNewCommit
BY DEF FactsTypeOK, Goto, NoNewCommit, FactsAnswered

\* A call that begins is no new commit.
LEMMA BeginNoCommit ==
  ASSUME FactsTypeOK, NEW w \in Writer, NEW c \in Call,
         NEW l \in {"decide", "insert", "check"}, Begin(w, c, l)
  PROVE  NoNewCommit
BY BeginEffect DEF NoNewCommit

\* The steps that write no fact, and bring nobody to the commit.
LEMMA QuietSteps ==
  ASSUME FactsTypeOK, proposals \in [Proposal -> ProposalRow \cup {NoProposal}],
         \/ \E w \in Direct : DirectStart(w)
         \/ \E w \in Writer : Crash(w)
         \/ \E f \in Fact : PurgeSkip(f)
         \/ PurgeFind
         \/ \E p \in Proposal : (\E f \in Fact : Propose(p, f)) \/ Reject(p)
         \/ \E r \in Reviewer : Decide(r) \/ \E p \in Proposal : ApproveStart(r, p)
         \/ UNCHANGED allVars
  PROVE  UNCHANGED <<facts, history, lapsed>> /\ NoNewCommit
<1> USE FactsAssumption, ProposalsAssumption
<1>1. ASSUME NEW w \in Direct, DirectStart(w)
      PROVE  UNCHANGED <<facts, history, lapsed>> /\ NoNewCommit
  BY <1>1, DirectStartEffect, BeginNoCommit
<1>2. ASSUME NEW w \in Writer, Crash(w)
      PROVE  UNCHANGED <<facts, history, lapsed>> /\ NoNewCommit
  BY <1>2, GotoNoCommit DEF Crash, FactsAnswered
<1>3. ASSUME NEW r \in Reviewer, Decide(r)
      PROVE  UNCHANGED <<facts, history, lapsed>> /\ NoNewCommit
  <2>1. UNCHANGED <<facts, history, lapsed, call>>
        /\ \E l \in {"refused", "insert", "check"} : Goto(r, l)
    BY <1>3 DEF Decide
  <2> QED BY <2>1, GotoNoCommit DEF FactsAnswered
<1>4. ASSUME NEW r \in Reviewer, NEW p \in Proposal, ApproveStart(r, p)
      PROVE  UNCHANGED <<facts, history, lapsed>> /\ NoNewCommit
  BY <1>4, ApproveStartEffect, BeginNoCommit
<1>5. ASSUME \/ \E f \in Fact : PurgeSkip(f)
             \/ PurgeFind
             \/ \E p \in Proposal : (\E f \in Fact : Propose(p, f)) \/ Reject(p)
             \/ UNCHANGED allVars
      PROVE  UNCHANGED <<facts, history, lapsed>> /\ NoNewCommit
  BY <1>5 DEF PurgeSkip, PurgeFind, Propose, Reject, allVars, factVars, NoNewCommit
<1> QED BY <1>1, <1>2, <1>3, <1>4, <1>5

\* What the trash does to a fact: its row keeps version and value.
LEMMA TrashEffect ==
  ASSUME FactsTypeOK, NEW f \in Fact, Trash(f) \/ Restore(f) \/ RetentionElapses(f)
  PROVE  /\ Exists(f)
         /\ \E row \in FactRow : /\ facts' = [facts EXCEPT ![f] = row]
                                /\ row.version = facts[f].version
                                /\ row.value = facts[f].value
         /\ UNCHANGED <<history, pc, call>> /\ lapsed \subseteq lapsed'
<1>1. Exists(f) /\ facts[f] \in FactRow
  BY FactFields DEF Trash, Restore, RetentionElapses, Kept, InTrash
<1> DEFINE a == [facts[f] EXCEPT !.before = facts[f].status,
                                 !.status = "deprecated", !.trashed = "recent"]
           b == [facts[f] EXCEPT !.status = RestoredStatus(facts[f]),
                                 !.before = "none", !.trashed = "no"]
           c == [facts[f] EXCEPT !.trashed = "expired"]
<1>2. /\ a \in FactRow /\ a.version = facts[f].version /\ a.value = facts[f].value
      /\ b \in FactRow /\ b.version = facts[f].version /\ b.value = facts[f].value
      /\ c \in FactRow /\ c.version = facts[f].version /\ c.value = facts[f].value
  BY <1>1 DEF FactRow, FactStatus, RestoredStatus
<1>3. CASE Trash(f)
  <2>1. facts' = [facts EXCEPT ![f] = a] BY <1>1, <1>3 DEF Trash, FactsTypeOK, FactRow
  <2> HIDE DEF a
  <2> QED BY <1>1, <1>2, <1>3, <2>1 DEF Trash
<1>4. CASE Restore(f)
  <2>1. facts' = [facts EXCEPT ![f] = b] BY <1>1, <1>4 DEF Restore, FactsTypeOK, FactRow
  <2> HIDE DEF b
  <2> QED BY <1>1, <1>2, <1>4, <2>1 DEF Restore
<1>5. CASE RetentionElapses(f)
  <2>1. facts' = [facts EXCEPT ![f] = c]
    BY <1>1, <1>5 DEF RetentionElapses, FactsTypeOK, FactRow
  <2> HIDE DEF c
  <2> QED BY <1>1, <1>2, <1>5, <2>1 DEF RetentionElapses
<1> QED BY <1>3, <1>4, <1>5

\* Every step keeps the numbers and what writers have read of them.
LEMMA VersionsNext ==
  TypesInv /\ FactHistoryMatches /\ BasesBehind /\ [Next]_allVars
    => FactHistoryMatches' /\ BasesBehind'
<1> SUFFICES ASSUME TypesInv, FactHistoryMatches, BasesBehind, [Next]_allVars
             PROVE  FactHistoryMatches' /\ BasesBehind'
  OBVIOUS
<1>0. /\ FactsTypeOK /\ facts \in [Fact -> FactRow \cup {NoRow}]
      /\ history \in [Fact -> SUBSET FactVersion]
      /\ proposals \in [Proposal -> ProposalRow \cup {NoProposal}]
  BY DEF TypesInv, ProposalsTypeOK, FactsTypeOK
<1>a. \A f \in Fact \ lapsed : Matches(f) BY DEF FactHistoryMatches, Matches
<1>b. (\A f \in Fact \ lapsed' : Matches(f)') => FactHistoryMatches'
  BY DEF FactHistoryMatches, Matches
<1>c. \A f \in Fact : Exists(f) => facts[f].version \in Nat \ {0} /\ facts[f] \in FactRow
  BY <1>0, FactFields
<1>d. ASSUME UNCHANGED <<facts, history, lapsed>> PROVE FactHistoryMatches'
  BY <1>d DEF FactHistoryMatches, Exists, Recorded
<1>e. ASSUME UNCHANGED <<facts, history, lapsed>>, NoNewCommit
      PROVE  FactHistoryMatches' /\ BasesBehind'
  BY <1>0, <1>c, <1>d, <1>e, BasesFrame DEF Exists
<1>1. ASSUME NEW w \in Writer, Insert(w) PROVE FactHistoryMatches' /\ BasesBehind'
  <2>0. UNCHANGED <<call, lapsed>> BY <1>1 DEF Insert
  <2>1. CASE Goto(w, "failed") /\ UNCHANGED <<facts, history>>
    BY <1>0, <1>e, <2>0, <2>1, GotoNoCommit DEF FactsAnswered
  <2>2. CASE \E f \in Fact, x \in Value :
              /\ ~Exists(f) /\ Goto(w, "ok")
              /\ facts' = [facts EXCEPT ![f] = NewFact(x)]
              /\ history' = [history EXCEPT ![f] =
                               @ \cup {[version |-> 1, value |-> x, status |-> "active"]}]
    <3> PICK f \in Fact, x \in Value :
              /\ ~Exists(f) /\ Goto(w, "ok")
              /\ facts' = [facts EXCEPT ![f] = NewFact(x)]
              /\ history' = [history EXCEPT ![f] =
                               @ \cup {[version |-> 1, value |-> x, status |-> "active"]}]
      BY <2>2
    <3>1. NoNewCommit BY <1>0, <2>0, GotoNoCommit DEF FactsAnswered
    <3>2. facts'[f] = NewFact(x) /\ NewFact(x) # NoRow
      BY <1>0, NewFactIsRow, FactsAssumption
    <3>3. NewFact(x).version = 1 /\ NewFact(x).value = x BY DEF NewFact
    <3>4. \A g \in Fact \ {f} : facts'[g] = facts[g] /\ history'[g] = history[g]
      BY <1>0
    <3>5. \A g \in Fact \ lapsed' : Matches(g)'
      <4> SUFFICES ASSUME NEW g \in Fact \ lapsed' PROVE Matches(g)' OBVIOUS
      <4>1. Matches(g) BY <1>a, <2>0
      <4>2. CASE g = f
        <5>1. history'[f] = history[f] \cup
                              {[version |-> 1, value |-> x, status |-> "active"]}
          BY <1>0
        <5>2. /\ Matches(f) /\ 1 \in Nat \ {0} /\ ~Exists(f)
              /\ facts'[f] # NoRow /\ facts'[f].version = 1 /\ facts'[f].value = x
          BY <3>2, <3>3, <4>1, <4>2
        <5>3. Matches(f)' BY ONLY <5>1, <5>2, MatchesGrows
        <5> QED BY <4>2, <5>3 DEF Matches, Exists, Recorded
      <4>3. CASE g # f BY <3>4, <4>1, <4>3, MatchesFrame
      <4> QED BY <4>2, <4>3
    <3>6. BasesBehind' BY <1>0, <1>c, <2>0, <3>1, <3>4, BasesFrame DEF Exists
    <3> QED BY <1>b, <3>5, <3>6
  <2> QED BY <1>0, <1>1, <2>1, <2>2, InsertEffect
<1>2. ASSUME NEW w \in Writer, Commit(w) PROVE FactHistoryMatches' /\ BasesBehind'
  <2>0. UNCHANGED <<call, lapsed>> /\ pc[w] = "commit" BY <1>2 DEF Commit
  <2>1. CASE Goto(w, "failed") /\ UNCHANGED <<facts, history>>
    BY <1>0, <1>e, <2>0, <2>1, GotoNoCommit DEF FactsAnswered
  <2>2. ASSUME NEW f \in Fact, NEW n \in Nat \ {0}, NEW x \in Value, NEW s \in FactStatus,
               f = call[w].fact, n = call[w].base + 1, n \notin Recorded(f), Goto(w, "ok"),
               history' = [history EXCEPT ![f] =
                            @ \cup {[version |-> n, value |-> x, status |-> s]}],
               ~Exists(f) => facts' = facts,
               Exists(f) => \E row \in FactRow :
                    /\ facts' = [facts EXCEPT ![f] = row]
                    /\ row.version = n /\ row.value = x
        PROVE  FactHistoryMatches' /\ BasesBehind'
    <3>1. NoNewCommit BY <1>0, <2>0, <2>2, GotoNoCommit DEF FactsAnswered
    <3>2. \A g \in Fact \ {f} : facts'[g] = facts[g] /\ history'[g] = history[g]
      BY <1>0, <2>2
    <3>3. history'[f] = history[f] \cup {[version |-> n, value |-> x, status |-> s]}
      BY <1>0, <2>2
    <3>4. ASSUME f \notin lapsed
          PROVE  /\ Exists(f) /\ n = facts[f].version + 1 /\ facts'[f] # NoRow
                 /\ facts'[f].version = n /\ facts'[f].value = x
      <4>1. Exists(f) /\ call[w].base \in 1..facts[f].version
        BY <2>0, <2>2, <3>4 DEF BasesBehind
      <4>2. Recorded(f) = 1..facts[f].version BY <1>a, <3>4, <4>1 DEF Matches
      <4>3. facts[f].version \in Nat BY <1>c, <4>1
      <4>4. n = facts[f].version + 1 BY <2>2, <4>1, <4>2, <4>3
      <4>5. PICK row \in FactRow : /\ facts' = [facts EXCEPT ![f] = row]
                                 /\ row.version = n /\ row.value = x
        BY <2>2, <4>1
      <4>6. facts'[f] = row /\ row # NoRow BY <1>0, <4>5, FactsAssumption
      <4> QED BY <4>1, <4>4, <4>5, <4>6
    <3>5. \A g \in Fact \ lapsed' : Matches(g)'
      <4> SUFFICES ASSUME NEW g \in Fact \ lapsed' PROVE Matches(g)' OBVIOUS
      <4>1. Matches(g) BY <1>a, <2>0
      <4>2. CASE g = f
        <5>1. f \notin lapsed BY <2>0, <4>2
        <5>2. facts[f].version \in Nat \ {0} BY <1>c, <3>4, <5>1
        <5> QED BY <3>3, <3>4, <4>1, <4>2, <5>1, <5>2, MatchesGrows
      <4>3. CASE g # f BY <3>2, <4>1, <4>3, MatchesFrame
      <4> QED BY <4>2, <4>3
    <3>6. \A g \in Fact \ lapsed' : Exists(g) =>
            /\ Exists(g)' /\ facts'[g].version \in Nat
            /\ facts[g].version <= facts'[g].version
      <4> SUFFICES ASSUME NEW g \in Fact \ lapsed', Exists(g)
                   PROVE  /\ Exists(g)' /\ facts'[g].version \in Nat
                          /\ facts[g].version <= facts'[g].version
        OBVIOUS
      <4>1. facts[g].version \in Nat BY <1>c
      <4>2. CASE g = f BY <2>0, <3>4, <4>1, <4>2 DEF Exists
      <4>3. CASE g # f BY <3>2, <4>1, <4>3 DEF Exists
      <4> QED BY <4>2, <4>3
    <3>7. BasesBehind' BY <1>0, <2>0, <3>1, <3>6, BasesFrame
    <3> QED BY <1>b, <3>5, <3>7
  <2> QED BY <1>0, <1>2, <2>1, <2>2, CommitEffect
<1>3. ASSUME NEW w \in Writer, Check(w) PROVE FactHistoryMatches' /\ BasesBehind'
  <2>1. UNCHANGED <<facts, history, lapsed>> /\ pc[w] = "check" BY <1>3 DEF Check
  <2>2. CASE \E l \in {"failed", "stale"} : Goto(w, l) /\ UNCHANGED call
    BY <1>0, <1>e, <2>1, <2>2, GotoNoCommit DEF FactsAnswered
  <2>3. ASSUME NEW c \in Call, call' = [call EXCEPT ![w] = c], Goto(w, "commit"),
               Exists(call[w].fact), c.fact = call[w].fact,
               c.base = facts[call[w].fact].version
        PROVE  BasesBehind'
    <3>1. call'[w] = c /\ \A u \in Writer \ {w} : call'[u] = call[u] /\ pc'[u] = pc[u]
      BY <1>0, <2>3 DEF FactsTypeOK, Goto
    <3>2. PICK f \in Fact : f = call[w].fact BY <1>0, <2>1, CallFields
    <3>3. c.base \in 1..facts[f].version BY <1>c, <2>3, <3>2
    <3> QED BY <2>1, <2>3, <3>1, <3>2, <3>3 DEF BasesBehind, Exists
  <2> QED BY <1>0, <1>3, <1>d, <2>1, <2>2, <2>3, CheckEffect
<1>4. ASSUME NEW f \in Fact, Trash(f) \/ Restore(f) \/ RetentionElapses(f)
      PROVE  FactHistoryMatches' /\ BasesBehind'
  <2>1. /\ Exists(f) /\ UNCHANGED <<history, pc, call>> /\ lapsed \subseteq lapsed'
        /\ \E row \in FactRow : /\ facts' = [facts EXCEPT ![f] = row]
                               /\ row.version = facts[f].version
                               /\ row.value = facts[f].value
    BY <1>0, <1>4, TrashEffect
  <2>2. /\ \A g \in Fact \ {f} : facts'[g] = facts[g]
        /\ facts'[f] # NoRow /\ facts'[f].version = facts[f].version
        /\ facts'[f].value = facts[f].value
    BY <1>0, <2>1, FactsAssumption
  <2>3. \A g \in Fact \ lapsed' : Matches(g)'
    <3> SUFFICES ASSUME NEW g \in Fact \ lapsed' PROVE Matches(g)' OBVIOUS
    <3>1. Matches(g) BY <1>a, <2>1
    <3>2. CASE g = f BY <2>1, <2>2, <3>1, <3>2 DEF Matches, Exists, Recorded
    <3>3. CASE g # f BY <2>1, <2>2, <3>1, <3>3, MatchesFrame
    <3> QED BY <3>2, <3>3
  <2>4. BasesBehind' BY <1>0, <1>c, <2>1, <2>2, BasesFrame DEF Exists, NoNewCommit
  <2> QED BY <1>b, <2>3, <2>4
<1>5. ASSUME NEW f \in Fact, PurgeFact(f) PROVE FactHistoryMatches' /\ BasesBehind'
  <2>1. f \in lapsed /\ UNCHANGED <<pc, call, lapsed>> BY <1>0, <1>5 DEF PurgeFact, FactsTypeOK
  <2>2. \A g \in Fact \ {f} : facts'[g] = facts[g] /\ history'[g] = history[g]
    BY <1>0, <1>5 DEF PurgeFact
  <2>3. \A g \in Fact \ lapsed' : Matches(g)' BY <1>a, <2>1, <2>2, MatchesFrame
  <2>4. BasesBehind' BY <1>0, <1>c, <2>1, <2>2, BasesFrame DEF Exists, NoNewCommit
  <2> QED BY <1>b, <2>3, <2>4
<1>6. \/ UNCHANGED <<facts, history, lapsed>> /\ NoNewCommit
      \/ \E w \in Writer : Insert(w) \/ Commit(w) \/ Check(w)
      \/ \E f \in Fact : Trash(f) \/ Restore(f) \/ RetentionElapses(f) \/ PurgeFact(f)
  BY <1>0, QuietSteps DEF Next, FactsNext, WriterStep
<1> QED BY <1>e, <1>1, <1>2, <1>3, <1>4, <1>5, <1>6

-----------------------------------------------------------------------------
(* Where values come from.                                                  *)

StoredIn(f, x) ==
  (Exists(f) /\ facts[f].value = x) \/ (\E v \in history[f] : v.value = x)

\* A value a fact or its history gains is that of a write answered ok.
LEMMA StoredComesFrom ==
  ASSUME TypesInv, [Next]_allVars, NEW f \in Fact, NEW x, StoredIn(f, x)'
  PROVE  \/ StoredIn(f, x)
         \/ \E u \in Writer : /\ pc[u] \in {"insert", "commit"} /\ pc'[u] = "ok"
                            /\ call[u].fact = f /\ call[u].value = x
<1>0. /\ FactsTypeOK /\ facts \in [Fact -> FactRow \cup {NoRow}]
      /\ history \in [Fact -> SUBSET FactVersion]
      /\ pc \in [Writer -> {"idle"} \cup FactsWorking \cup FactsAnswered]
      /\ proposals \in [Proposal -> ProposalRow \cup {NoProposal}]
  BY DEF TypesInv, ProposalsTypeOK, FactsTypeOK
<1> DEFINE Goal == \/ StoredIn(f, x)
                   \/ \E u \in Writer : /\ pc[u] \in {"insert", "commit"} /\ pc'[u] = "ok"
                                      /\ call[u].fact = f /\ call[u].value = x
<1>1. CASE UNCHANGED <<facts, history>> BY <1>1 DEF StoredIn, Exists
<1>2. ASSUME NEW w \in Writer, Insert(w) PROVE Goal
  <2>1. pc[w] = "insert" BY <1>2 DEF Insert
  <2>2. ASSUME NEW g \in Fact, NEW y \in Value, g = call[w].fact, y = call[w].value,
               Goto(w, "ok"), facts' = [facts EXCEPT ![g] = NewFact(y)],
               history' = [history EXCEPT ![g] =
                            @ \cup {[version |-> 1, value |-> y, status |-> "active"]}]
        PROVE  Goal
    <3>1. pc'[w] = "ok" BY <1>0, <2>2 DEF Goto
    <3>2. NewFact(y).value = y BY DEF NewFact
    <3>3. CASE f # g BY <1>0, <2>2, <3>3 DEF StoredIn, Exists
    <3>4. CASE f = g
      <4>1. x = y \/ \E v \in history[f] : v.value = x
        BY <1>0, <2>2, <3>2, <3>4 DEF StoredIn
      <4> QED BY <2>1, <2>2, <3>1, <3>4, <4>1 DEF StoredIn
    <3> QED BY <3>3, <3>4
  <2> QED BY <1>0, <1>1, <1>2, <2>2, InsertEffect
<1>3. ASSUME NEW w \in Writer, Commit(w) PROVE Goal
  <2>1. pc[w] = "commit" BY <1>3 DEF Commit
  <2>2. ASSUME NEW g \in Fact, NEW n \in Nat \ {0}, NEW y \in Value, NEW s \in FactStatus,
               g = call[w].fact, y = call[w].value, Goto(w, "ok"),
               history' = [history EXCEPT ![g] =
                            @ \cup {[version |-> n, value |-> y, status |-> s]}],
               ~Exists(g) => facts' = facts,
               Exists(g) => \E row \in FactRow :
                              facts' = [facts EXCEPT ![g] = row] /\ row.value = y
        PROVE  Goal
    <3>1. pc'[w] = "ok" BY <1>0, <2>2 DEF Goto
    <3>2. CASE f # g BY <1>0, <2>2, <3>2 DEF StoredIn, Exists
    <3>3. CASE f = g
      <4>1. x = y \/ \E v \in history[f] : v.value = x
        BY <1>0, <2>2, <3>3 DEF StoredIn, Exists
      <4> QED BY <2>1, <2>2, <3>1, <3>3, <4>1 DEF StoredIn
    <3> QED BY <3>2, <3>3
  <2> QED BY <1>0, <1>1, <1>3, <2>2, CommitEffect
<1>4. ASSUME NEW g \in Fact, Trash(g) \/ Restore(g) \/ RetentionElapses(g) PROVE Goal
  <2>1. /\ Exists(g) /\ UNCHANGED history
        /\ \E row \in FactRow : /\ facts' = [facts EXCEPT ![g] = row]
                               /\ row.value = facts[g].value
    BY <1>0, <1>4, TrashEffect
  <2> QED BY <1>0, <2>1 DEF StoredIn, Exists
<1>5. ASSUME NEW g \in Fact, PurgeFact(g) PROVE Goal
  BY <1>0, <1>5 DEF PurgeFact, StoredIn, Exists
<1>6. ASSUME NEW w \in Writer, Check(w) PROVE Goal
  BY <1>1, <1>6 DEF Check
<1>7. \/ UNCHANGED <<facts, history>>
      \/ \E w \in Writer : Insert(w) \/ Commit(w) \/ Check(w)
      \/ \E g \in Fact : Trash(g) \/ Restore(g) \/ RetentionElapses(g) \/ PurgeFact(g)
  BY <1>0, QuietSteps DEF Next, FactsNext, WriterStep
<1> QED BY <1>1, <1>2, <1>3, <1>4, <1>5, <1>6, <1>7

\* Where the write and the value of u come from, one step later.
CarriedFrom(u) ==
  \/ /\ pc[u] # "idle" /\ call'[u].fact = call[u].fact /\ call'[u].value = call[u].value
     /\ pc[u] \in {"refused", "crashed"} => pc'[u] = pc[u]
     /\ pc[u] = "decide" => \/ pc'[u] \in {"decide", "refused", "crashed"}
                            \/ Settled(call[u].value, call[u].fact)'
  \/ StoredIn(call'[u].fact, call'[u].value)
  \/ u \in Direct /\ pc[u] = "idle" /\ call'[u].value = u
  \/ u \in Reviewer /\ pc'[u] = "decide" /\ call'[u].value \in Proposal

\* A caller keeps its value, has found it, has brought it, or is to decide on it.
LEMMA CarriedComesFrom ==
  ASSUME TypesInv, [Next]_allVars, NEW u \in Writer
  PROVE  /\ pc'[u] # "idle" => CarriedFrom(u)
         /\ pc[u] = "ok" => pc'[u] = "ok"
<1>0. /\ FactsTypeOK /\ call \in [Writer -> Call \cup {NoCall}]
      /\ pc \in [Writer -> {"idle"} \cup FactsWorking \cup FactsAnswered]
      /\ proposals \in [Proposal -> ProposalRow \cup {NoProposal}]
  BY DEF TypesInv, ProposalsTypeOK, FactsTypeOK
<1> DEFINE Goal == /\ pc'[u] # "idle" => CarriedFrom(u)
                   /\ pc[u] = "ok" => pc'[u] = "ok"
<1>a. ASSUME pc'[u] = pc[u], call'[u] = call[u] PROVE Goal
  BY <1>a DEF CarriedFrom
<1>b. ASSUME NEW w \in Writer, NEW l \in FactsAnswered, Goto(w, l), UNCHANGED call,
             pc[w] \in {"insert", "check", "commit"}
      PROVE  Goal
  <2>1. CASE u = w BY <1>0, <1>b, <2>1 DEF CarriedFrom, Goto
  <2>2. CASE u # w BY <1>0, <1>a, <1>b, <2>2 DEF Goto
  <2> QED BY <2>1, <2>2
<1>c. ASSUME UNCHANGED <<pc, call>> PROVE Goal BY <1>a, <1>c
<1>1. ASSUME NEW w \in Direct, DirectStart(w) PROVE Goal
  <2>1. w \in Writer BY FactsAssumption
  <2>2. PICK f \in Fact, c \in Call, l \in {"insert", "check"} :
           /\ Begin(w, c, l) /\ c.fact = f
           /\ \/ c.value = w
              \/ Exists(f) /\ c.value = facts[f].value
              \/ \E h \in history[f] : c.value = h.value
    BY <1>0, <1>1, DirectStartEffect
  <2>3. /\ pc[w] = "idle" /\ call'[w] = c
        /\ \A v \in Writer \ {w} : pc'[v] = pc[v] /\ call'[v] = call[v]
    BY <1>0, <2>1, <2>2, BeginEffect
  <2>4. CASE u = w BY <2>2, <2>3, <2>4 DEF CarriedFrom, StoredIn
  <2>5. CASE u # w BY <1>a, <2>3, <2>5
  <2> QED BY <2>4, <2>5
<1>2. ASSUME NEW w \in Writer, Insert(w) PROVE Goal
  <2>1. \E l \in FactsAnswered : Goto(w, l)
    BY <1>2 DEF Insert, FactsAnswered
  <2> QED BY <1>b, <1>2, <2>1 DEF Insert
<1>3. ASSUME NEW w \in Writer, Commit(w) PROVE Goal
  <2>1. \E l \in FactsAnswered : Goto(w, l)
    BY <1>3 DEF Commit, FactsAnswered
  <2> QED BY <1>b, <1>3, <2>1 DEF Commit
<1>4. ASSUME NEW w \in Writer, Check(w) PROVE Goal
  <2>1. pc[w] = "check" BY <1>4 DEF Check
  <2>2. CASE \E l \in {"failed", "stale"} : Goto(w, l) /\ UNCHANGED call
    BY <1>b, <2>1, <2>2 DEF FactsAnswered
  <2>3. ASSUME NEW c \in Call, call' = [call EXCEPT ![w] = c], Goto(w, "commit"),
               Exists(call[w].fact), c.fact = call[w].fact,
               c.value = call[w].value \/ c.value = facts[call[w].fact].value
        PROVE  Goal
    <3>1. /\ call'[w] = c /\ pc'[w] = "commit"
          /\ \A v \in Writer \ {w} : pc'[v] = pc[v] /\ call'[v] = call[v]
      BY <1>0, <2>3 DEF Goto
    <3>2. CASE u = w BY <2>1, <2>3, <3>1, <3>2 DEF CarriedFrom, StoredIn
    <3>3. CASE u # w BY <1>a, <3>1, <3>3
    <3> QED BY <3>2, <3>3
  <2> QED BY <1>0, <1>4, <2>2, <2>3, CheckEffect
<1>5. ASSUME NEW w \in Writer, Crash(w) PROVE Goal
  <2>1. pc[w] \in FactsWorking /\ Goto(w, "crashed") /\ UNCHANGED call
    BY <1>5 DEF Crash, InFlight
  <2>2. CASE u = w BY <1>0, <2>1, <2>2 DEF CarriedFrom, Goto, FactsWorking
  <2>3. CASE u # w BY <1>0, <1>a, <2>1, <2>3 DEF Goto
  <2> QED BY <2>2, <2>3
<1>6. ASSUME NEW r \in Reviewer, NEW p \in Proposal, ApproveStart(r, p) PROVE Goal
  <2>1. r \in Writer BY ProposalsAssumption
  <2>2. PICK c \in Call : Begin(r, c, "decide") /\ c.value = p
    BY <1>0, <1>6, ApproveStartEffect
  <2>3. /\ pc[r] = "idle" /\ pc'[r] = "decide" /\ call'[r] = c
        /\ \A v \in Writer \ {r} : pc'[v] = pc[v] /\ call'[v] = call[v]
    BY <1>0, <2>1, <2>2, BeginEffect
  <2>4. CASE u = r BY <1>6, <2>2, <2>3, <2>4 DEF CarriedFrom
  <2>5. CASE u # r BY <1>a, <2>3, <2>5
  <2> QED BY <2>4, <2>5
<1>7. ASSUME NEW r \in Reviewer, Decide(r) PROVE Goal
  <2>1. /\ pc[r] = "decide" /\ r \in Writer /\ UNCHANGED call
        /\ call[r].value \in Proposal /\ call[r].fact = proposals[call[r].value].fact
    BY <1>7, ProposalsAssumption DEF Decide, TypesInv, ProposalsTypeOK, CallsKept
  <2>2. \/ Goto(r, "refused")
        \/ /\ \E l \in {"insert", "check"} : Goto(r, l)
           /\ Pending(call[r].value)
           /\ proposals' = [proposals EXCEPT ![call[r].value].status = "approved"]
    BY <1>7 DEF Decide
  <2>3. CASE u # r BY <1>0, <1>a, <2>1, <2>2, <2>3 DEF Goto
  <2>4. CASE u = r /\ Goto(r, "refused")
    BY <1>0, <2>1, <2>4 DEF CarriedFrom, Goto
  <2>5. CASE u = r /\ Pending(call[r].value)
             /\ proposals' = [proposals EXCEPT ![call[r].value].status = "approved"]
    <3>1. PICK p \in Proposal : p = call[r].value BY <2>1
    <3>2. proposals[p] \in ProposalRow /\ proposals' = [proposals EXCEPT ![p].status = "approved"]
      BY <1>0, <2>5, <3>1 DEF Pending
    <3>3. /\ proposals'[p].status = "approved" /\ proposals'[p].fact = proposals[p].fact
          /\ proposals'[p] \in ProposalRow
      BY <1>0, <3>2 DEF ProposalRow
    <3>4. Settled(call[r].value, call[r].fact)'
      BY <2>1, <3>1, <3>3, ProposalsAssumption DEF Settled
    <3> QED BY <2>1, <2>5, <3>4 DEF CarriedFrom
  <2> QED BY <2>2, <2>3, <2>4, <2>5
<1>8. \/ UNCHANGED <<pc, call>>
      \/ \E w \in Direct : DirectStart(w)
      \/ \E w \in Writer : Insert(w) \/ Commit(w) \/ Check(w) \/ Crash(w)
      \/ \E r \in Reviewer : Decide(r) \/ \E p \in Proposal : ApproveStart(r, p)
  BY DEF Next, FactsNext, WriterStep, Trash, Restore, RetentionElapses, PurgeFact, PurgeSkip,
         PurgeFind, Propose, Reject, allVars, factVars
<1> QED BY <1>c, <1>1, <1>2, <1>3, <1>4, <1>5, <1>6, <1>7, <1>8

\* An approval is final: nothing changes an approved proposal.
LEMMA SettledStays ==
  ASSUME TypesInv, [Next]_allVars, NEW p \in Proposal, NEW f, Settled(p, f)
  PROVE  Settled(p, f)'
<1>0. proposals \in [Proposal -> ProposalRow \cup {NoProposal}]
  BY DEF TypesInv, ProposalsTypeOK
<1>1. ASSUME NEW q \in Proposal, Pending(q) \/ proposals[q] = NoProposal, NEW row,
             proposals' = [proposals EXCEPT ![q] = row]
      PROVE  Settled(p, f)'
  BY <1>0, <1>1 DEF Settled, Pending
<1>2. ASSUME NEW q \in Proposal, NEW s, Pending(q),
             proposals' = [proposals EXCEPT ![q].status = s]
      PROVE  Settled(p, f)'
  BY <1>0, <1>2 DEF Settled, Pending
<1>3. ASSUME NEW r \in Reviewer, Decide(r) PROVE Settled(p, f)'
  <2>1. pc[r] # "idle" /\ r \in Writer BY <1>3, ProposalsAssumption DEF Decide
  <2>2. call[r].value \in Proposal BY <2>1 DEF TypesInv, ProposalsTypeOK
  <2> QED BY <1>2, <1>3, <2>2 DEF Decide, Settled
<1>4. CASE UNCHANGED proposals BY <1>4 DEF Settled
<1>5. ASSUME NEW q \in Proposal, Reject(q) PROVE Settled(p, f)' BY <1>2, <1>5 DEF Reject
<1>6. ASSUME NEW q \in Proposal, NEW g \in Fact, Propose(q, g) PROVE Settled(p, f)'
  BY <1>1, <1>6 DEF Propose
<1> QED BY <1>3, <1>4, <1>5, <1>6 DEF Next, ApproveStart, allVars

-----------------------------------------------------------------------------
(* Refused values, approved values.                                         *)

\* Initially a fact says its own name, and nobody carries anything.
LEMMA ValuesInit == Init => Unspread /\ StoredApproved /\ CarriedApproved
<1> SUFFICES ASSUME Init PROVE Unspread /\ StoredApproved /\ CarriedApproved OBVIOUS
<1> USE DEF Init, FactsInit
<1>1. ASSUME NEW f \in Fact PROVE /\ Exists(f) => facts[f].value = f
                                /\ \A h \in history[f] : h.value = f
  BY <1>1 DEF Exists, NewFact, RecordOf
<1>2. \A w \in Direct : w \notin Fact BY NamesApart
<1>3. Unspread BY <1>1, <1>2 DEF Unspread, Nowhere
<1>4. StoredApproved BY <1>1, NamesApart DEF StoredApproved
<1>5. CarriedApproved BY DEF CarriedApproved
<1> QED BY <1>3, <1>4, <1>5

\* What a request has brought leaves its call only by a write answered ok.
LEMMA UnspreadNext == TypesInv /\ TypesInv' /\ Unspread /\ [Next]_allVars => Unspread'
<1> SUFFICES ASSUME TypesInv, TypesInv', Unspread, [Next]_allVars,
                    NEW w \in Direct, pc'[w] # "ok"
             PROVE  Nowhere(w, w)'
  BY DEF Unspread
<1>0. w \in Writer BY FactsAssumption
<1>1. pc[w] # "ok" BY <1>0, CarriedComesFrom
<1>2. Nowhere(w, w) BY <1>1 DEF Unspread
<1>3. ASSUME NEW f \in Fact PROVE ~StoredIn(f, w) BY <1>2 DEF Nowhere, StoredIn
<1>4. ASSUME NEW f \in Fact, StoredIn(f, w)' PROVE FALSE
  <2>1. PICK u \in Writer : /\ pc[u] \in {"insert", "commit"} /\ pc'[u] = "ok"
                           /\ call[u].value = w
    BY <1>3, <1>4, StoredComesFrom
  <2>2. u # w BY <2>1
  <2> QED BY <1>2, <2>1, <2>2 DEF Nowhere
<1>5. ASSUME NEW u \in Writer \ {w}, pc'[u] # "idle", call'[u].value = w PROVE FALSE
  <2>1. CarriedFrom(u) BY <1>5, CarriedComesFrom
  <2>2. CASE pc[u] # "idle" /\ call'[u].value = call[u].value
    BY <1>2, <1>5, <2>2 DEF Nowhere
  <2>3. CASE StoredIn(call'[u].fact, call'[u].value)
    <3>1. FactsTypeOK' BY DEF TypesInv, ProposalsTypeOK
    <3>2. call'[u].fact \in Fact BY <1>5, <3>1 DEF FactsTypeOK, Call
    <3> QED BY <1>3, <1>5, <2>3, <3>2
  <2>4. CASE u \in Direct /\ call'[u].value = u BY <1>5, <2>4
  <2>5. CASE u \in Reviewer /\ call'[u].value \in Proposal
    BY <1>5, <2>5, NamesApart
  <2> QED BY <2>1, <2>2, <2>3, <2>4, <2>5 DEF CarriedFrom
<1> QED BY <1>4, <1>5 DEF Nowhere, StoredIn, Exists

\* A proposed value goes from the decision on it to the call, and from the call to
\* the fact; requests pass on what they find there.
LEMMA ApprovedNext ==
  TypesInv /\ TypesInv' /\ StoredApproved /\ CarriedApproved /\ [Next]_allVars
    => StoredApproved' /\ CarriedApproved'
<1> SUFFICES ASSUME TypesInv, TypesInv', StoredApproved, CarriedApproved, [Next]_allVars
             PROVE  StoredApproved' /\ CarriedApproved'
  OBVIOUS
<1>1. ASSUME NEW f \in Fact, NEW p \in Proposal, StoredIn(f, p) PROVE Settled(p, f)
  BY <1>1 DEF StoredApproved, StoredIn
<1>2. ASSUME NEW f \in Fact, NEW p \in Proposal, StoredIn(f, p)' PROVE Settled(p, f)'
  <2>1. CASE StoredIn(f, p) BY <1>1, <2>1, SettledStays
  <2>2. CASE \E u \in Writer : /\ pc[u] \in {"insert", "commit"}
                              /\ call[u].fact = f /\ call[u].value = p
    <3>1. Settled(p, f) BY <2>2 DEF CarriedApproved
    <3> QED BY <3>1, SettledStays
  <2> QED BY <1>2, <2>1, <2>2, StoredComesFrom
<1>3. StoredApproved'
  <2> SUFFICES ASSUME NEW f \in Fact
               PROVE  /\ Exists(f)' /\ facts'[f].value \in Proposal
                           => Settled(facts[f].value, f)'
                      /\ \A v \in history'[f] : v.value \in Proposal => Settled(v.value, f)'
    BY DEF StoredApproved, Settled
  <2>1. ASSUME Exists(f)', facts'[f].value \in Proposal PROVE Settled(facts[f].value, f)'
    <3>1. PICK p \in Proposal : p = facts'[f].value BY <2>1
    <3>2. Settled(p, f)' BY <1>2, <2>1, <3>1 DEF StoredIn
    <3> QED BY <3>1, <3>2 DEF Settled
  <2>2. ASSUME NEW v \in history'[f], v.value \in Proposal PROVE Settled(v.value, f)'
    <3>1. PICK p \in Proposal : p = v.value BY <2>2
    <3>2. Settled(p, f)' BY <1>2, <2>2, <3>1 DEF StoredIn
    <3> QED BY <3>1, <3>2 DEF Settled
  <2> QED BY <2>1, <2>2
<1>4. CarriedApproved'
  <2> SUFFICES ASSUME NEW u \in Writer, pc'[u] # "idle", NEW p \in Proposal,
                      call'[u].value = p, pc'[u] \notin {"decide", "refused", "crashed"}
               PROVE  Settled(call[u].value, call[u].fact)'
    BY DEF CarriedApproved, Settled
  <2>1. FactsTypeOK' BY DEF TypesInv, ProposalsTypeOK
  <2>2. PICK f \in Fact : f = call'[u].fact BY <2>1 DEF FactsTypeOK, Call
  <2>3. Settled(p, f)' => Settled(call[u].value, call[u].fact)' BY <2>2 DEF Settled
  <2>4. CarriedFrom(u) BY CarriedComesFrom
  <2>5. CASE /\ pc[u] # "idle" /\ call[u].fact = f /\ call[u].value = p
             /\ pc[u] \in {"refused", "crashed"} => pc'[u] = pc[u]
             /\ pc[u] = "decide" => Settled(p, f)'
    <3>1. CASE pc[u] = "decide" BY <2>3, <2>5, <3>1
    <3>2. CASE pc[u] # "decide"
      <4>1. Settled(p, f) BY <2>5, <3>2 DEF CarriedApproved
      <4> QED BY <2>3, <4>1, SettledStays
    <3> QED BY <3>1, <3>2
  <2>6. CASE StoredIn(f, p) BY <1>1, <2>3, <2>6, SettledStays
  <2>7. CASE u \in Direct /\ call'[u].value = u BY <2>7, NamesApart
  <2>8. CASE pc[u] # "idle" /\ Settled(call[u].value, call[u].fact)'
             /\ call'[u].fact = call[u].fact /\ call'[u].value = call[u].value
    BY <2>8
  <2> QED BY <2>2, <2>4, <2>5, <2>6, <2>7, <2>8 DEF CarriedFrom
<1> QED BY <1>3, <1>4

\* An ok that named a version is recorded as the version after it, and stays so
\* until a purge may take the history away.
LEMMA OkNext ==
  TypesInv /\ TypesInv' /\ OkIsRecorded /\ [Next]_allVars => OkIsRecorded'
<1> SUFFICES ASSUME TypesInv, TypesInv', OkIsRecorded, [Next]_allVars PROVE OkIsRecorded'
  OBVIOUS
<1>0. /\ FactsTypeOK /\ FactsTypeOK' /\ history \in [Fact -> SUBSET FactVersion]
      /\ pc \in [Writer -> {"idle"} \cup FactsWorking \cup FactsAnswered]
      /\ proposals \in [Proposal -> ProposalRow \cup {NoProposal}]
  BY DEF TypesInv, ProposalsTypeOK, FactsTypeOK
<1>a. \A w \in Writer : pc'[w] = "ok" => call'[w].fact \in Fact
  BY <1>0 DEF FactsTypeOK, Call
<1> DEFINE NewOk(w) == \/ call[w].expected = 0
                       \/ \E v \in history'[call[w].fact] :
                             v.version = call[w].expected + 1 /\ v.value = call[w].value
<1>b. ASSUME lapsed \subseteq lapsed',
             \A f \in Fact \ lapsed' : history[f] \subseteq history'[f],
             \A w \in Writer : pc'[w] = "ok" =>
                call'[w] = call[w] /\ (pc[w] = "ok" \/ NewOk(w))
      PROVE  OkIsRecorded'
  <2> SUFFICES ASSUME NEW w \in Writer, pc'[w] = "ok", call'[w].expected # 0,
                      call'[w].fact \notin lapsed'
               PROVE  \E v \in history'[call'[w].fact] :
                        v.version = call'[w].expected + 1 /\ v.value = call'[w].value
    BY DEF OkIsRecorded
  <2>1. call'[w] = call[w] /\ call[w].fact \in Fact \ lapsed' /\ call[w].fact \notin lapsed
    BY <1>a, <1>b
  <2>2. CASE pc[w] = "ok"
    <3>1. PICK v \in history[call[w].fact] :
             v.version = call[w].expected + 1 /\ v.value = call[w].value
      BY <2>1, <2>2 DEF OkIsRecorded
    <3>2. v \in history'[call[w].fact] BY <1>b, <2>1, <3>1
    <3> QED BY <2>1, <3>1, <3>2
  <2>3. CASE NewOk(w) BY <2>1, <2>3
  <2> QED BY <1>b, <2>2, <2>3
<1>c. ASSUME UNCHANGED <<history, pc, call>>, lapsed \subseteq lapsed' PROVE OkIsRecorded'
  BY <1>b, <1>c
<1>d. ASSUME NEW w \in Writer, NEW l \in {"decide", "insert", "check", "commit", "failed",
                                          "stale", "refused", "crashed"},
             pc' = [pc EXCEPT ![w] = l], UNCHANGED <<history, lapsed>>,
             NEW c, call' = [call EXCEPT ![w] = c] \/ call' = call
      PROVE  OkIsRecorded'
  <2>1. \A u \in Writer : pc'[u] = "ok" => pc[u] = "ok" /\ call'[u] = call[u]
    BY <1>0, <1>d DEF FactsTypeOK
  <2> QED BY <1>b, <1>d, <2>1
<1>1. ASSUME NEW w \in Direct, DirectStart(w) PROVE OkIsRecorded'
  <2>1. \E c \in Call, l \in {"insert", "check"} : Begin(w, c, l)
    BY <1>0, <1>1, DirectStartEffect
  <2>2. UNCHANGED <<history, lapsed>> /\ w \in Writer
    BY <1>0, <1>1, DirectStartEffect, FactsAssumption
  <2> QED BY <1>d, <2>1, <2>2 DEF Begin, Goto
<1>2. ASSUME NEW w \in Writer, Insert(w) PROVE OkIsRecorded'
  <2>1. UNCHANGED <<call, lapsed>> /\ call[w].expected = 0
    BY <1>2 DEF Insert, TypesInv, CallsKept
  <2>2. \A f \in Fact : history[f] \subseteq history'[f]
    BY <1>0, <1>2, InsertEffect
  <2>3. \A u \in Writer \ {w} : pc'[u] = pc[u] BY <1>0, <1>2 DEF Insert, Goto
  <2> QED BY <1>b, <2>1, <2>2, <2>3
<1>3. ASSUME NEW w \in Writer, Commit(w) PROVE OkIsRecorded'
  <2>1. UNCHANGED <<call, lapsed>> /\ (call[w].expected # 0 => call[w].base = call[w].expected)
    BY <1>3 DEF Commit, TypesInv, CallsKept
  <2>2. CASE Goto(w, "failed") /\ UNCHANGED <<facts, history>>
    BY <1>d, <2>1, <2>2 DEF Goto
  <2>3. ASSUME NEW f \in Fact, NEW n \in Nat \ {0}, NEW x \in Value, NEW s \in FactStatus,
               f = call[w].fact,
               n = call[w].base + 1, x = call[w].value, Goto(w, "ok"),
               history' = [history EXCEPT ![f] =
                            @ \cup {[version |-> n, value |-> x, status |-> s]}]
        PROVE  OkIsRecorded'
    <3>1. \A g \in Fact : history[g] \subseteq history'[g] BY <1>0, <2>3
    <3>2. [version |-> n, value |-> x, status |-> s] \in history'[f] BY <1>0, <2>3
    <3>3. NewOk(w) BY <2>1, <2>3, <3>2
    <3>4. \A u \in Writer \ {w} : pc'[u] = pc[u] BY <1>0, <2>3 DEF Goto
    <3> HIDE DEF NewOk
    <3> QED BY <1>b, <2>1, <3>1, <3>3, <3>4
  <2> QED BY <1>0, <1>3, <2>2, <2>3, CommitEffect
<1>4. ASSUME NEW w \in Writer, Check(w) PROVE OkIsRecorded'
  <2>1. UNCHANGED <<history, lapsed>> BY <1>4 DEF Check
  <2>2. \/ \E l \in {"failed", "stale"} : Goto(w, l) /\ UNCHANGED call
        \/ \E c \in Call : call' = [call EXCEPT ![w] = c] /\ Goto(w, "commit")
    BY <1>0, <1>4, CheckEffect
  <2> QED BY <1>d, <2>1, <2>2 DEF Goto
<1>5. ASSUME NEW w \in Writer, Crash(w) PROVE OkIsRecorded'
  BY <1>d, <1>5 DEF Crash, Goto
<1>6. ASSUME NEW r \in Reviewer, NEW p \in Proposal, ApproveStart(r, p) PROVE OkIsRecorded'
  <2>1. r \in Writer /\ UNCHANGED <<history, lapsed>> /\ \E c \in Call : Begin(r, c, "decide")
    BY <1>0, <1>6, ApproveStartEffect, ProposalsAssumption
  <2> QED BY <1>d, <2>1 DEF Begin, Goto
<1>7. ASSUME NEW r \in Reviewer, Decide(r) PROVE OkIsRecorded'
  <2>1. /\ r \in Writer /\ UNCHANGED <<history, lapsed, call>>
        /\ \E l \in {"refused", "insert", "check"} : Goto(r, l)
    BY <1>7, ProposalsAssumption DEF Decide
  <2> QED BY <1>d, <2>1 DEF Goto
<1>8. ASSUME NEW f \in Fact, PurgeFact(f) PROVE OkIsRecorded'
  <2>1. f \in lapsed /\ UNCHANGED <<pc, call, lapsed>>
    BY <1>0, <1>8 DEF PurgeFact, FactsTypeOK
  <2>2. \A g \in Fact \ {f} : history'[g] = history[g] BY <1>0, <1>8 DEF PurgeFact
  <2> QED BY <1>b, <2>1, <2>2
<1>9. \/ UNCHANGED <<history, pc, call>> /\ lapsed \subseteq lapsed'
      \/ \E w \in Direct : DirectStart(w)
      \/ \E w \in Writer : Insert(w) \/ Commit(w) \/ Check(w) \/ Crash(w)
      \/ \E r \in Reviewer : Decide(r) \/ \E p \in Proposal : ApproveStart(r, p)
      \/ \E f \in Fact : PurgeFact(f)
  BY DEF Next, FactsNext, WriterStep, Trash, Restore, RetentionElapses, PurgeSkip,
         PurgeFind, Propose, Reject, allVars, factVars
<1> QED BY <1>c, <1>1, <1>2, <1>3, <1>4, <1>5, <1>6, <1>7, <1>8, <1>9

-----------------------------------------------------------------------------
\* Everything at once: the inductive invariant of the fact store.
FactsInv == /\ TypesInv /\ LapsedSeen
            /\ FactHistoryMatches /\ BasesBehind
            /\ Unspread /\ StoredApproved /\ CarriedApproved /\ OkIsRecorded

LEMMA FactsInvariant == Spec => []FactsInv
<1>1. Init => OkIsRecorded BY DEF Init, FactsInit, OkIsRecorded
<1>2. Init => FactsInv
  BY <1>1, TypesInit, LapsedInit, VersionsInit, ValuesInit DEF FactsInv
<1>3. FactsInv /\ [Next]_allVars => FactsInv'
  BY TypesNext, LapsedNext, VersionsNext, UnspreadNext, ApprovedNext, OkNext DEF FactsInv
<1> QED BY <1>2, <1>3, PTL DEF Spec

\* The fact store and the proposals stay well formed, and a reviewer's call keeps
\* a proposal that there is (facts.repository.ts, fact-proposals.ts).
THEOREM ProposalsTypeCorrect == Spec => []ProposalsTypeOK
<1>1. FactsInv => ProposalsTypeOK BY DEF FactsInv, TypesInv
<1> QED BY <1>1, FactsInvariant, PTL

\* Until its window has closed once, a fact's history is its versions 1 to the
\* current one, however updates, rollbacks, approvals and the trash interleave
\* (facts.repository.ts, the batches of create and update).
THEOREM HistoryMatches == Spec => []FactHistoryMatches
<1>1. FactsInv => FactHistoryMatches BY DEF FactsInv
<1> QED BY <1>1, FactsInvariant, PTL

\* A write answered ok is the version right after the one it named, and a value
\* that was refused is in no history (facts.repository.ts, expectedVersion).
THEOREM FactAnswersTrue == Spec => []FactAnswersAreTrue
<1>1. ASSUME FactsInv PROVE FactAnswersAreTrue
  <2>1. ASSUME NEW w \in Writer, pc[w] \in {"stale", "refused", "failed"},
               NEW f \in Fact, NEW v \in history[f], v.value = w
        PROVE  FALSE
    <3>1. CASE w \in Direct
      <4>1. Nowhere(w, w) BY <1>1, <2>1, <3>1 DEF FactsInv, Unspread
      <4> QED BY <2>1, <4>1 DEF Nowhere
    <3>2. CASE w \in Reviewer
      <4>1. v.value \in Value
        BY <1>1, <2>1 DEF FactsInv, TypesInv, ProposalsTypeOK, FactsTypeOK, FactVersion
      <4> QED BY <2>1, <3>2, <4>1, ProposalsAssumption, NamesApart
    <3> QED BY <3>1, <3>2, ProposalsAssumption
  <2>2. OkIsRecorded BY <1>1 DEF FactsInv
  <2> QED BY <2>1, <2>2 DEF FactAnswersAreTrue, OkIsRecorded
<1> QED BY <1>1, FactsInvariant, PTL

\* What an agent proposes is in a fact or in its history only with a person's
\* approval for that very fact (fact-proposals.ts, recordDecision).
THEOREM OnlyApprovedWritten == Spec => []OnlyApprovedIsWritten
<1>1. FactsInv => OnlyApprovedIsWritten
  BY DEF FactsInv, StoredApproved, OnlyApprovedIsWritten, Settled
<1> QED BY <1>1, FactsInvariant, PTL

\* An approval answered ok is the version right after the one the agent saw
\* (fact-proposals.ts, approve).
THEOREM ApprovalsOnTheirBase == Spec => []ApprovedOnItsBase
<1>1. ASSUME FactsInv PROVE ApprovedOnItsBase
  <2> SUFFICES ASSUME NEW r \in Reviewer, pc[r] = "ok", call[r].fact \notin lapsed,
                      NEW p, p = call[r].value, proposals[p].based # 0
               PROVE  \E v \in history[call[r].fact] :
                        v.version = proposals[p].based + 1 /\ v.value = p
    BY DEF ApprovedOnItsBase
  <2>1. r \in Writer BY ProposalsAssumption
  <2>2. call[r].expected = proposals[p].based BY <1>1 DEF FactsInv, TypesInv, CallsKept
  <2> QED BY <1>1, <2>1, <2>2 DEF FactsInv, OkIsRecorded
<1> QED BY <1>1, FactsInvariant, PTL
=============================================================================
