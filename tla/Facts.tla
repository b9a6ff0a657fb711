-------------------------------- MODULE Facts --------------------------------
(***************************************************************************)
(* The fact store: the D1 tables `facts` and `fact_versions`, the calls    *)
(* that write them, and the hourly purge of trashed facts.  One            *)
(* namespace/key pair is a fact.  As in Documents, each D1 statement or    *)
(* batch is a step and a caller keeps only what it has read.               *)
(*                                                                         *)
(* A value is named by the caller who brought it, or by the fact for the   *)
(* one it starts with.  Title, description, source, validity dates and     *)
(* classification travel with the value and are left out.                  *)
(***************************************************************************)
EXTENDS Naturals

CONSTANTS
  Fact,            \* namespace/key pairs
  Direct,          \* requests of the admin routes; each is used once
  Writer,          \* every caller that writes facts, those requests included
  Value,           \* what a fact may say
  Expectable,      \* the versions an update may name as the one it replaces (0: none)
  NoRow, NoCall

FactStatus == {"active", "deprecated"}

FactRow == [status : FactStatus, version : Nat \ {0}, value : Value,
            trashed : {"no", "recent", "expired"}, before : FactStatus \cup {"none"}]

FactVersion == [version : Nat, value : Value, status : FactStatus]

\* A call in progress: `expected` is the version its caller requires (0: none),
\* `base` the version it has read, `value` and `status` what it will write.
Call == [op : {"create", "update", "amend", "deprecate", "rollback"}, fact : Fact,
         expected : Nat, base : Nat, value : Value, status : FactStatus]

\* Calls that bring no value: they write again the one they read.
Keeping == {"amend", "deprecate"}

FactsWorking  == {"decide", "check", "commit", "insert"}
FactsAnswered == {"ok", "stale", "refused", "failed", "crashed"}

ASSUME FactsAssumption ==
  /\ Direct \subseteq Writer /\ Direct \subseteq Value /\ Fact \subseteq Value
  /\ Expectable \subseteq Nat
  /\ NoRow \notin FactRow /\ NoCall \notin Call

VARIABLES
  facts,     \* table facts
  history,   \* table fact_versions, the rows of each fact
  pc, call,  \* where each caller is, and what it holds
  eligible,  \* the facts the current purge run still has to purge
  lapsed     \* history variable: facts whose retention window has ever closed

factVars == <<facts, history, pc, call, eligible, lapsed>>

-----------------------------------------------------------------------------
Exists(f)  == facts[f] # NoRow
InTrash(f) == Exists(f) /\ facts[f].trashed # "no"
Kept(f)    == Exists(f) /\ facts[f].trashed = "no"       \* getByKey
Active(f)  == Kept(f) /\ facts[f].status = "active"      \* getActive

MutNewFact(v) == [status |-> "active", version |-> 0, value |-> v,
                  trashed |-> "no", before |-> "none"]
NewFact(v)   == [status |-> "active", version |-> 1, value |-> v,
                 trashed |-> "no", before |-> "none"]
RecordOf(w)  == [version |-> w.version, value |-> w.value, status |-> w.status]
InFlight(w)  == pc[w] \in FactsWorking
Recorded(f)  == {v.version : v \in history[f]}

Goto(w, l)     == pc' = [pc EXCEPT ![w] = l]
Begin(w, c, l) == pc[w] = "idle" /\ call' = [call EXCEPT ![w] = c] /\ Goto(w, l)

FactsInit ==
  \E some \in SUBSET Fact :
    /\ facts   = [f \in Fact |-> IF f \in some THEN NewFact(f) ELSE NoRow]
    /\ history = [f \in Fact |-> IF f \in some THEN {RecordOf(NewFact(f))} ELSE {}]
    /\ pc = [w \in Writer |-> "idle"] /\ call = [w \in Writer |-> NoCall]
    /\ eligible = {} /\ lapsed = {}

-----------------------------------------------------------------------------
(* FactsRepository.create and its route, which looks only for an active fact. *)

CreateStart(w, f) ==
  /\ ~Active(f)
  /\ Begin(w, [op |-> "create", fact |-> f, expected |-> 0, base |-> 0,
               value |-> w, status |-> "active"], "insert")
  /\ UNCHANGED <<facts, history, eligible, lapsed>>

\* One batch, refused by UNIQUE (namespace, key) or UNIQUE (..., version).
MutCanInsert(f, n) == TRUE
CanInsert(f, n)    == n \notin Recorded(f)

Insert(w) ==
  /\ pc[w] = "insert"
  /\ LET f == call[w].fact
         n == NewFact(call[w].value)
     IN \/ /\ Exists(f) \/ ~CanInsert(f, 1)
           /\ Goto(w, "failed") /\ UNCHANGED <<facts, history>>
        \/ /\ ~Exists(f) /\ CanInsert(f, 1)
           /\ facts'   = [facts EXCEPT ![f] = n]
           /\ history' = [history EXCEPT ![f] = @ \cup {RecordOf(n)}]
           /\ Goto(w, "ok")
  /\ UNCHANGED <<call, eligible, lapsed>>

-----------------------------------------------------------------------------
(* FactsRepository.update, which deprecate, rollbackToVersion and the        *)
(* approval of a proposal all end in.                                        *)

\* The route of an update, a deprecation or a rollback finds an active fact.
WriteStart(w, f, op, e, v, s) ==
  /\ Begin(w, [op |-> op, fact |-> f, expected |-> e, base |-> 0,
               value |-> v, status |-> s], "check")
  /\ UNCHANGED <<facts, history, eligible, lapsed>>

\* An update changes the value, or amends what travels with it.
UpdateStart(w, f) ==
  /\ Active(f)
  /\ \E e \in Expectable, s \in FactStatus :
       \/ WriteStart(w, f, "update", e, w, s)
       \/ WriteStart(w, f, "amend", e, facts[f].value, s)
DeprecateStart(w, f) ==
  /\ Active(f)
  /\ WriteStart(w, f, "deprecate", 0, facts[f].value, "deprecated")
RollbackStart(w, f) ==
  /\ Active(f)
  /\ \E v \in history[f] : WriteStart(w, f, "rollback", 0, v.value, "active")

MutExpectationHolds(c) == TRUE
ExpectationHolds(c)    == c.expected \in {0, facts[c.fact].version}

\* update reads the active fact itself, and what is not named keeps what it reads.
Check(w) ==
  /\ pc[w] = "check"
  /\ LET f == call[w].fact IN
     \/ ~Active(f) /\ Goto(w, "failed") /\ UNCHANGED call
     \/ /\ Active(f) /\ ~ExpectationHolds(call[w])
        /\ Goto(w, "stale") /\ UNCHANGED call
     \/ /\ Active(f) /\ ExpectationHolds(call[w])
        /\ call' = [call EXCEPT ![w].base = facts[f].version,
              ![w].value = IF call[w].op \in Keeping THEN facts[f].value ELSE @]
        /\ Goto(w, "commit")
  /\ UNCHANGED <<facts, history, eligible, lapsed>>

\* The UPDATE names only the key: it writes whatever row is there, in the trash
\* or not, or none.  What refuses the batch is UNIQUE (..., version) alone, for
\* fact_versions has no foreign key.
Commit(w) ==
  /\ pc[w] = "commit"
  /\ LET f == call[w].fact
         n == call[w].base + 1
         v == [version |-> n, value |-> call[w].value, status |-> call[w].status]
     IN \/ /\ ~CanInsert(f, n)
           /\ Goto(w, "failed") /\ UNCHANGED <<facts, history>>
        \/ /\ CanInsert(f, n)
           /\ facts' = IF Exists(f)
                       THEN [facts EXCEPT ![f].version = n, ![f].value = v.value,
                                          ![f].status = v.status]
                       ELSE facts
           /\ history' = [history EXCEPT ![f] = @ \cup {v}]
           /\ Goto(w, "ok")
  /\ UNCHANGED <<call, eligible, lapsed>>

-----------------------------------------------------------------------------
(* The trash.  Both handlers repeat their only check in the UPDATE.          *)

Trash(f) ==
  /\ Kept(f)
  /\ facts' = [facts EXCEPT ![f].before = facts[f].status,
                            ![f].status = "deprecated", ![f].trashed = "recent"]
  /\ UNCHANGED <<history, pc, call, eligible, lapsed>>

RestoredStatus(w) == IF w.before = "none" THEN w.status ELSE w.before

Restore(f) ==
  /\ InTrash(f)
  /\ facts' = [facts EXCEPT ![f].status = RestoredStatus(facts[f]),
                            ![f].before = "none", ![f].trashed = "no"]
  /\ UNCHANGED <<history, pc, call, eligible, lapsed>>

\* As in Documents, a run is far shorter than the window of 72 hours.
RetentionElapses(f) ==
  /\ Exists(f) /\ facts[f].trashed = "recent" /\ f \notin eligible
  /\ facts' = [facts EXCEPT ![f].trashed = "expired"]
  /\ lapsed' = lapsed \cup {f}
  /\ UNCHANGED <<history, pc, call, eligible>>

Purgeable == {f \in Fact : Exists(f) /\ facts[f].trashed = "expired"}

PurgeFind ==
  /\ eligible = {} /\ Purgeable # {} /\ eligible' = Purgeable
  /\ UNCHANGED <<facts, history, pc, call, lapsed>>

\* The versions go whatever became of the fact; its row, only from the trash.
PurgeFact(f) ==
  /\ f \in eligible /\ eligible' = eligible \ {f}
  /\ history' = [history EXCEPT ![f] = {}]
  /\ facts' = IF InTrash(f) THEN [facts EXCEPT ![f] = NoRow] ELSE facts
  /\ UNCHANGED <<pc, call, lapsed>>

\* The batch fails, or the run stops: the fact is left for the next run.
PurgeSkip(f) ==
  /\ f \in eligible /\ eligible' = eligible \ {f}
  /\ UNCHANGED <<facts, history, pc, call, lapsed>>

\* Any await may be a call's last.
Crash(w) ==
  /\ InFlight(w) /\ Goto(w, "crashed")
  /\ UNCHANGED <<facts, history, call, eligible, lapsed>>

-----------------------------------------------------------------------------
DirectStart(w) ==
  \E f \in Fact : CreateStart(w, f) \/ UpdateStart(w, f) \/ DeprecateStart(w, f)
                  \/ RollbackStart(w, f)

WriterStep(w) == Insert(w) \/ Check(w) \/ Commit(w) \/ Crash(w)

FactsNext ==
  \/ \E w \in Direct : DirectStart(w)
  \/ \E w \in Writer : WriterStep(w)
  \/ \E f \in Fact : Trash(f) \/ Restore(f) \/ RetentionElapses(f)
                     \/ PurgeFact(f) \/ PurgeSkip(f)
  \/ PurgeFind

-----------------------------------------------------------------------------
(* Properties.                                                              *)

FactsTypeOK ==
  /\ facts \in [Fact -> FactRow \cup {NoRow}]
  /\ history \in [Fact -> SUBSET FactVersion]
  /\ pc \in [Writer -> {"idle"} \cup FactsWorking \cup FactsAnswered]
  /\ call \in [Writer -> Call \cup {NoCall}]
  /\ \A w \in Writer : call[w] = NoCall <=> pc[w] = "idle"
  /\ eligible \subseteq lapsed /\ lapsed \subseteq Fact

\* Until a fact's window has closed once, its versions are numbered 1 to the
\* current one, once each, and the current one says what the fact says, however
\* updates, rollbacks, approvals and the trash interleave
\* (facts.repository.ts, the batches of create and update).
FactHistoryMatches ==
  \A f \in Fact \ lapsed :
    /\ Exists(f) => /\ Recorded(f) = 1..facts[f].version
                    /\ \E v \in history[f] : /\ v.version = facts[f].version
                                             /\ v.value = facts[f].value
    /\ \A v, u \in history[f] : v.version = u.version => v = u
    /\ ~Exists(f) => history[f] = {}

\* What a caller is told is true: a write that named the version it wanted to
\* replace, answered ok, is the version right after it, and a value that was
\* refused is in no history (update, its expectedVersion).
FactAnswersAreTrue ==
  \A w \in Writer : pc[w] # "idle" =>
    /\ pc[w] = "ok" /\ call[w].expected # 0 /\ call[w].fact \notin lapsed =>
         \E v \in history[call[w].fact] :
            v.version = call[w].expected + 1 /\ v.value = call[w].value
    /\ pc[w] \in {"stale", "refused", "failed"} =>
         \A f \in Fact : \A v \in history[f] : v.value # w
=============================================================================
