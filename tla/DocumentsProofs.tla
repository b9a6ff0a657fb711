--------------------------- MODULE DocumentsProofs ---------------------------
(***************************************************************************)
(* Theorems about Documents, for every value of its constants.             *)
(***************************************************************************)
EXTENDS Documents, Sequences, TLAPS

-----------------------------------------------------------------------------
(* Type correctness.                                                        *)

\* Keys, and the rows of a new document, are of their kind.
LEMMA KeyType ==
  ASSUME NEW d \in Doc, NEW n \in Nat, NEW x \in Ext
  PROVE  ObjectKey(d, n, x) \in Key
BY DEF ObjectKey, Key

\* The row a new document is stored with is a row, and its version a version row.
LEMMA FirstRowType ==
  ASSUME NEW d \in Doc, NEW s \in Status, NEW k \in Key, NEW c \in Content
  PROVE  /\ FirstRow(d, s, k, c) \in Row
         /\ VersionOf(FirstRow(d, s, k, c)) \in VersionRow
BY DEF FirstRow, Row, VersionOf, VersionRow

\* What Reading returns of an existing document is a request.
LEMMA ReadingType ==
  ASSUME TypeOK, NEW d \in Doc, Exists(d), NEW op \in Operation
  PROVE  Reading(op, d) \in Request
BY DEF TypeOK, Exists, Reading, Request, Row

\* Storing and deleting objects keeps the bucket a function of its kind.
LEMMA BucketType ==
  ASSUME TypeOK, NEW k \in Key, NEW o \in Object
  PROVE  /\ DOMAIN Stored(k, o) \subseteq Key
         /\ Stored(k, o) \in [DOMAIN Stored(k, o) -> Object]
         /\ DOMAIN Without(k) \subseteq Key
         /\ Without(k) \in [DOMAIN Without(k) -> Object]
BY DEF TypeOK, Stored, Without

\* A request that starts holds a request record and is no longer idle.
LEMMA BeginType ==
  ASSUME TypeOK, NEW r \in Req, NEW q \in Request, NEW l \in Working \cup Answered,
         Begin(r, q, l)
  PROVE  /\ pc' \in [Req -> {"idle"} \cup Working \cup Answered]
         /\ req' \in [Req -> Request \cup {NoRequest}]
         /\ \A t \in Req : req'[t] = NoRequest <=> pc'[t] = "idle"
BY ConstantsAssumption DEF TypeOK, Begin, Goto, Working, Answered

\* A request that moves on keeps what it holds, and is still no longer idle.
LEMMA GotoType ==
  ASSUME TypeOK, NEW r \in Req, pc[r] # "idle", NEW l \in Working \cup Answered,
         Goto(r, l), req' = req
  PROVE  /\ pc' \in [Req -> {"idle"} \cup Working \cup Answered]
         /\ req' \in [Req -> Request \cup {NoRequest}]
         /\ \A t \in Req : req'[t] = NoRequest <=> pc'[t] = "idle"
BY DEF TypeOK, Goto, Working, Answered

\* The documents stored beforehand are well typed.
LEMMA TypeInit == Init => TypeOK
<1> SUFFICES ASSUME NEW s \in [Existing -> InitStatus], NEW x \in [Existing -> Ext],
                    Init!(s, x)
             PROVE  TypeOK
  BY DEF Init
<1> DEFINE first(d) == FirstRow(d, s[d], ObjectKey(d, 1, x[d]), d)
<1>1. \A d \in Existing : /\ first(d) \in Row /\ VersionOf(first(d)) \in VersionRow
                          /\ first(d).key \in Key /\ first(d).key.doc = d
  <2> SUFFICES ASSUME NEW d \in Existing
               PROVE  /\ first(d) \in Row /\ VersionOf(first(d)) \in VersionRow
                      /\ first(d).key \in Key /\ first(d).key.doc = d
    OBVIOUS
  <2>1. d \in Doc /\ d \in Content /\ s[d] \in Status /\ x[d] \in Ext
    BY ConstantsAssumption DEF Content
  <2>2. ObjectKey(d, 1, x[d]) \in Key
    BY <2>1, KeyType
  <2> QED BY <2>1, <2>2, FirstRowType DEF FirstRow, ObjectKey
<1>2. row \in [Doc -> Row \cup {NoRow}] /\ versions \in [Doc -> SUBSET VersionRow]
  BY <1>1
<1>3. DOMAIN bucket \subseteq Key /\ bucket \in [DOMAIN bucket -> Object]
  <2>1. bucket = [k \in {first(d).key : d \in Existing} |->
                    [content |-> k.doc, status |-> s[k.doc]]]
    OBVIOUS
  <2>2. \A k \in {first(d).key : d \in Existing} :
          k \in Key /\ [content |-> k.doc, status |-> s[k.doc]] \in Object
    BY <1>1, ConstantsAssumption DEF Object, Content
  <2> HIDE DEF first
  <2> QED BY <2>1, <2>2
<1> QED BY <1>2, <1>3, ConstantsAssumption DEF TypeOK, Job, Working, Answered

\* Every step keeps TypeOK.
LEMMA TypeNext == TypeOK /\ [Next]_vars => TypeOK'
<1> SUFFICES ASSUME TypeOK, [Next]_vars PROVE TypeOK'
  OBVIOUS
<1> USE DEF tables, requestVars, purgeVars
<1>1. ASSUME NEW r \in Req, NEW d \in Doc, NEW x \in Ext, CreateStart(r, d, x)
      PROVE  TypeOK'
  <2> DEFINE q == [op |-> "create", doc |-> d, base |-> 0, expected |-> 0,
                   key |-> ObjectKey(d, 1, x), content |-> r, status |-> "draft"]
  <2>1. q \in Request
    BY KeyType DEF Request, Operation, Content, Status
  <2>2. Begin(r, q, "put")
    BY <1>1 DEF CreateStart
  <2> HIDE DEF q
  <2> QED BY <1>1, <2>1, <2>2, BeginType DEF CreateStart, TypeOK, Working
<1>2. ASSUME NEW r \in Req, Put(r) PROVE TypeOK'
  <2> DEFINE o == [content |-> req[r].content, status |-> req[r].status]
  <2>1. req[r] \in Request /\ pc[r] # "idle"
    BY <1>2 DEF Put, TypeOK
  <2>2. o \in Object /\ req[r].key \in Key /\ bucket' = Stored(req[r].key, o)
    BY <1>2, <2>1 DEF Put, Request, Object
  <2> HIDE DEF o
  <2>3. DOMAIN bucket' \subseteq Key /\ bucket' \in [DOMAIN bucket' -> Object]
    BY <2>2, BucketType
  <2> QED BY <1>2, <2>1, <2>3, GotoType DEF Put, TypeOK, Working
<1>3. ASSUME NEW r \in Req, CreateInsert(r) PROVE TypeOK'
  <2>1. req[r] \in Request /\ pc[r] # "idle"
    BY <1>3 DEF CreateInsert, TypeOK
  <2> DEFINE d == req[r].doc
             w == FirstRow(d, "draft", req[r].key, req[r].content)
  <2>2. d \in Doc /\ w \in Row /\ VersionOf(w) \in VersionRow
    BY <2>1, FirstRowType DEF Request, Status
  <2>3. row' \in [Doc -> Row \cup {NoRow}] /\ versions' \in [Doc -> SUBSET VersionRow]
    <3> HIDE DEF w
    <3> QED BY <1>3, <2>2 DEF CreateInsert, TypeOK, w
  <2> QED BY <1>3, <2>1, <2>3, GotoType DEF CreateInsert, TypeOK, Working, Answered
<1>4. ASSUME NEW r \in Req, NEW d \in Doc, NEW x \in Ext, NEW e \in Expectable(d),
             EditStart(r, d, x, e)
      PROVE  TypeOK'
  <2> DEFINE q == [Reading("edit", d) EXCEPT
                     !.key = ObjectKey(d, row[d].version + 1, x),
                     !.content = r, !.expected = e]
  <2>1. Exists(d) /\ Begin(r, q, "put")
    BY <1>4 DEF EditStart
  <2>2. Reading("edit", d) \in Request /\ row[d].version + 1 \in Nat /\ e \in Nat
    BY <2>1, ReadingType, ConstantsAssumption DEF Operation, TypeOK, Exists, Row, Expectable
  <2>3. ObjectKey(d, row[d].version + 1, x) \in Key
    BY <2>2 DEF ObjectKey, Key
  <2>4. q \in Request
    BY <2>2, <2>3 DEF Request, Content
  <2> HIDE DEF q
  <2> QED BY <1>4, <2>1, <2>4, BeginType DEF EditStart, TypeOK, Working
<1>5. ASSUME NEW r \in Req, EditCheck(r) PROVE TypeOK'
  <2>1. req[r] \in Request /\ pc[r] # "idle"
    BY <1>5 DEF EditCheck, TypeOK
  <2>2. CASE UNCHANGED req
    BY <1>5, <2>1, <2>2, GotoType DEF EditCheck, TypeOK, Working, Answered
  <2>3. CASE /\ Exists(req[r].doc) /\ Goto(r, "commit")
             /\ req' = [req EXCEPT ![r].base = row[req[r].doc].version,
                                   ![r].status = row[req[r].doc].status]
    <3>1. row[req[r].doc] \in Row
      BY <2>1, <2>3 DEF Exists, TypeOK, Request
    <3>2. req' \in [Req -> Request \cup {NoRequest}] /\ req'[r] \in Request
          /\ \A t \in Req \ {r} : req'[t] = req[t]
      BY <2>1, <2>3, <3>1 DEF TypeOK, Request, Row
    <3>3. pc' \in [Req -> {"idle"} \cup Working \cup Answered] /\ pc'[r] # "idle"
          /\ \A t \in Req \ {r} : pc'[t] = pc[t]
      BY <2>3 DEF Goto, TypeOK, Working
    <3> QED BY <1>5, <3>2, <3>3, ConstantsAssumption DEF EditCheck, TypeOK
  <2> QED BY <1>5, <2>2, <2>3 DEF EditCheck
<1>6. ASSUME NEW r \in Req, NEW d \in Doc, NEW v \in versions[d], RollbackStart(r, d, v)
      PROVE  TypeOK'
  <2> DEFINE q == [Reading("rollback", d) EXCEPT !.key = v.key, !.content = v.content]
  <2>1. Exists(d) /\ Begin(r, q, "commit")
    BY <1>6 DEF RollbackStart
  <2>2. Reading("rollback", d) \in Request /\ v \in VersionRow
    BY <2>1, ReadingType DEF Operation, TypeOK
  <2>3. q \in Request
    BY <2>2 DEF Request, VersionRow
  <2> HIDE DEF q
  <2> QED BY <1>6, <2>1, <2>3, BeginType DEF RollbackStart, TypeOK, Working
<1>7. ASSUME NEW r \in Req, Commit(r) PROVE TypeOK'
  <2> DEFINE d == req[r].doc
             n == req[r].base + 1
             u == [version |-> n, key |-> req[r].key, content |-> req[r].content]
  <2>1. req[r] \in Request /\ pc[r] # "idle"
    BY <1>7 DEF Commit, TypeOK
  <2>2. d \in Doc /\ n \in Nat \ {0} /\ u \in VersionRow /\ req[r].key \in Key
        /\ req[r].content \in Content
    BY <2>1 DEF Request, VersionRow
  <2>3. row' \in [Doc -> Row \cup {NoRow}] /\ versions' \in [Doc -> SUBSET VersionRow]
    <3>1. CASE CanInsertVersion(d, n)
      <4>1. row[d] \in Row
        BY <2>2, <3>1 DEF CanInsertVersion, Exists, TypeOK
      <4>2. [row[d] EXCEPT !.version = n, !.key = req[r].key, !.content = req[r].content]
               \in Row
        BY <2>2, <4>1 DEF Row
      <4>3. /\ row' = [row EXCEPT ![d] = [row[d] EXCEPT !.version = n,
                              !.key = req[r].key, !.content = req[r].content]]
            /\ versions' = [versions EXCEPT ![d] = versions[d] \cup {u}]
        BY <1>7, <3>1, <2>2 DEF Commit, TypeOK
      <4> HIDE DEF u
      <4> QED BY <2>2, <4>2, <4>3 DEF TypeOK
    <3>2. CASE ~CanInsertVersion(d, n)
      BY <1>7, <3>2 DEF Commit, TypeOK
    <3> QED BY <3>1, <3>2
  <2>4. PICK l \in Working \cup Answered : Goto(r, l)
    BY <1>7 DEF Commit, Working, Answered
  <2> QED BY <1>7, <2>1, <2>3, <2>4, GotoType DEF Commit, TypeOK
<1>8. ASSUME NEW r \in Req, NEW d \in Doc, NEW s \in Status, TransitionStart(r, d, s)
      PROVE  TypeOK'
  <2> DEFINE q == [Reading("transition", d) EXCEPT !.status = s]
  <2>1. Exists(d) /\ Begin(r, q, "set")
    BY <1>8 DEF TransitionStart, Kept
  <2>2. q \in Request
    BY <2>1, ReadingType DEF Operation, Request
  <2> HIDE DEF q
  <2> QED BY <1>8, <2>1, <2>2, BeginType DEF TransitionStart, TypeOK, Working
<1>9. ASSUME NEW r \in Req, SetStatus(r) PROVE TypeOK'
  <2>1. req[r] \in Request /\ pc[r] # "idle"
    BY <1>9 DEF SetStatus, TypeOK
  <2>2. row' \in [Doc -> Row \cup {NoRow}]
    BY <1>9, <2>1 DEF SetStatus, Settable, Kept, Exists, TypeOK, Request, Row
  <2>3. PICK l \in {"unset", "get"} : Goto(r, l)
    BY <1>9 DEF SetStatus
  <2> QED BY <1>9, <2>1, <2>2, <2>3, GotoType DEF SetStatus, TypeOK, Working, Answered
<1>10. ASSUME NEW r \in Req, MetadataGet(r) PROVE TypeOK'
  <2>1. req[r] \in Request /\ pc[r] # "idle"
    BY <1>10 DEF MetadataGet, TypeOK
  <2>2. CASE UNCHANGED req /\ Goto(r, AfterMetadata(req[r]))
    BY <1>10, <2>1, <2>2, GotoType DEF MetadataGet, AfterMetadata, TypeOK, Working, Answered
  <2>3. CASE /\ req[r].key \in DOMAIN bucket /\ Goto(r, "rewrite")
             /\ req' = [req EXCEPT ![r].content = bucket[req[r].key].content]
    <3>1. bucket[req[r].key] \in Object
      BY <2>3 DEF TypeOK
    <3>2. req' \in [Req -> Request \cup {NoRequest}] /\ req'[r] \in Request
          /\ \A t \in Req \ {r} : req'[t] = req[t]
      BY <2>1, <2>3, <3>1 DEF TypeOK, Request, Object
    <3>3. pc' \in [Req -> {"idle"} \cup Working \cup Answered] /\ pc'[r] # "idle"
          /\ \A t \in Req \ {r} : pc'[t] = pc[t]
      BY <2>3 DEF Goto, TypeOK, Working
    <3> QED BY <1>10, <3>2, <3>3, ConstantsAssumption DEF MetadataGet, TypeOK
  <2> QED BY <1>10, <2>2, <2>3 DEF MetadataGet
<1>11. ASSUME NEW r \in Req, MetadataPut(r) PROVE TypeOK'
  <2> DEFINE o == [content |-> req[r].content, status |-> req[r].status]
  <2>1. req[r] \in Request /\ pc[r] # "idle"
    BY <1>11 DEF MetadataPut, TypeOK
  <2>2. o \in Object /\ req[r].key \in Key /\ bucket' = Stored(req[r].key, o)
    BY <1>11, <2>1 DEF MetadataPut, Request, Object
  <2> HIDE DEF o
  <2>3. DOMAIN bucket' \subseteq Key /\ bucket' \in [DOMAIN bucket' -> Object]
    BY <2>2, BucketType
  <2> QED BY <1>11, <2>1, <2>3, GotoType
          DEF MetadataPut, AfterMetadata, TypeOK, Working, Answered
<1>12. ASSUME NEW r \in Req, NEW d \in Doc, TrashStart(r, d) PROVE TypeOK'
  BY <1>12, ReadingType, BeginType DEF TrashStart, Kept, Operation, TypeOK, Working
<1>13. ASSUME NEW r \in Req, TrashCommit(r) PROVE TypeOK'
  <2>1. req[r] \in Request /\ pc[r] # "idle"
    BY <1>13 DEF TrashCommit, TypeOK
  <2>2. row' \in [Doc -> Row \cup {NoRow}]
    BY <1>13, <2>1 DEF TrashCommit, Kept, Exists, TypeOK, Request, Row, Status
  <2>3. PICK l \in {"refused", "job", "ok"} : Goto(r, l)
    BY <1>13 DEF TrashCommit
  <2> QED BY <1>13, <2>1, <2>2, <2>3, GotoType DEF TrashCommit, TypeOK, Working, Answered
<1>14. ASSUME NEW r \in Req, NEW d \in Doc, Restore(r, d) PROVE TypeOK'
  <2> DEFINE s == RestoredStatus(row[d])
             q == [Reading("restore", d) EXCEPT !.status = s]
  <2>1. Exists(d) /\ row[d] \in Row /\ s \in Status
    BY <1>14 DEF Restore, InTrash, Exists, TypeOK, Row, RestoredStatus
  <2>2. q \in Request
    <3> HIDE DEF s
    <3> QED BY <2>1, ReadingType DEF Operation, Request
  <2>3. row' \in [Doc -> Row \cup {NoRow}]
    <3> HIDE DEF s
    <3> QED BY <1>14, <2>1 DEF Restore, TypeOK, Row, s
  <2>4. Begin(r, q, IF s = "active" THEN "job" ELSE "ok")
    BY <1>14 DEF Restore
  <2> HIDE DEF q
  <2> QED BY <1>14, <2>2, <2>3, <2>4, BeginType DEF Restore, TypeOK, Working, Answered
<1>15. ASSUME NEW r \in Req, JobCreate(r) PROVE TypeOK'
  BY <1>15, GotoType DEF JobCreate, TypeOK, Job, Working, Answered
<1>16. ASSUME NEW r \in Req, JobSend(r) PROVE TypeOK'
  BY <1>16, GotoType DEF JobSend, TypeOK, Job, Working, Answered
<1>16a. ASSUME NEW r \in Req, ExplainUnset(r) \/ ReadUpdated(r) PROVE TypeOK'
  BY <1>16a, GotoType DEF ExplainUnset, ReadUpdated, TypeOK, Working, Answered
<1>17. ASSUME NEW r \in Req, NEW d \in Doc, ReindexStart(r, d) PROVE TypeOK'
  BY <1>17, ReadingType, BeginType DEF ReindexStart, Operation, TypeOK, Working
<1>18. ASSUME NEW r \in Req, Crash(r) PROVE TypeOK'
  BY <1>18, GotoType, ConstantsAssumption DEF Crash, InFlight, TypeOK, Working, Answered
<1>19. ASSUME NEW d \in Doc, RetentionElapses(d) PROVE TypeOK'
  BY <1>19 DEF RetentionElapses, Exists, TypeOK, Row
<1>20. CASE PurgeFind
  BY <1>20 DEF PurgeFind, Batches, Purgeable, TypeOK
<1>21. ASSUME NEW d \in eligible, PurgeCollect(d) PROVE TypeOK'
  <2>1. d \in Doc /\ versions[d] \subseteq VersionRow /\ (Exists(d) => row[d] \in Row)
    BY DEF TypeOK, Exists
  <2>2. AllR2Keys(d) \subseteq Key
    BY <2>1 DEF AllR2Keys, VersionRow, Row
  <2> QED BY <1>21, <2>2 DEF PurgeCollect, TypeOK
<1>22. ASSUME NEW k \in doomed, PurgeDelete(k) PROVE TypeOK'
  BY <1>22 DEF PurgeDelete, Without, TypeOK
<1>23. CASE PurgeRow
  BY <1>23 DEF PurgeRow, NextDocument, TypeOK
<1>23a. CASE PurgeRefused
  BY <1>23a DEF PurgeRefused, NextDocument, TypeOK
<1>24. CASE PurgeFail
  BY <1>24, ConstantsAssumption DEF PurgeFail, NextDocument, TypeOK
<1>25. CASE PurgeCrash
  BY <1>25, ConstantsAssumption DEF PurgeCrash, TypeOK
<1>26. CASE UNCHANGED vars
  BY <1>26 DEF vars, TypeOK
<1> QED
  BY <1>1, <1>2, <1>3, <1>4, <1>5, <1>6, <1>7, <1>8, <1>9, <1>10, <1>11, <1>12, <1>13,
     <1>14, <1>15, <1>16, <1>16a, <1>17, <1>18, <1>19, <1>20, <1>21, <1>22, <1>23, <1>23a,
     <1>24, <1>25, <1>26 DEF Next, RequestStart, RequestStep, PurgeStep

\* Every table, object and request always holds values of its kind.
THEOREM TypeCorrect == Spec => []TypeOK
BY TypeInit, TypeNext, PTL DEF Spec

-----------------------------------------------------------------------------
(* What steps write.                                                        *)

\* The steps of a request that start it and leave both document tables alone.
Starts(r, d) ==
  \/ \E x \in Ext : CreateStart(r, d, x)
  \/ \E x \in Ext, e \in Expectable(d) : EditStart(r, d, x, e)
  \/ \E v \in versions[d] : RollbackStart(r, d, v)
  \/ \E s \in Status : TransitionStart(r, d, s)
  \/ TrashStart(r, d)
  \/ ReindexStart(r, d)

\* A handler's first read leaves documents and document_versions as they were.
LEMMA StartsWriteNothing ==
  ASSUME NEW r \in Req, NEW d \in Doc, Starts(r, d)
  PROVE  UNCHANGED <<row, versions, bucket, eligible, doomed, lapsed>>
<1>1. ASSUME NEW x \in Ext, CreateStart(r, d, x)
      PROVE  UNCHANGED <<row, versions, bucket, eligible, doomed, lapsed>>
  BY <1>1 DEF CreateStart, tables, purgeVars
<1>2. ASSUME NEW x \in Ext, NEW e \in Expectable(d), EditStart(r, d, x, e)
      PROVE  UNCHANGED <<row, versions, bucket, eligible, doomed, lapsed>>
  BY <1>2 DEF EditStart, tables, purgeVars
<1>3. ASSUME NEW v \in versions[d], RollbackStart(r, d, v)
      PROVE  UNCHANGED <<row, versions, bucket, eligible, doomed, lapsed>>
  BY <1>3 DEF RollbackStart, tables, purgeVars
<1>4. ASSUME NEW s \in Status, TransitionStart(r, d, s)
      PROVE  UNCHANGED <<row, versions, bucket, eligible, doomed, lapsed>>
  BY <1>4 DEF TransitionStart, tables, purgeVars
<1>5. CASE TrashStart(r, d) \/ ReindexStart(r, d)
  BY <1>5 DEF TrashStart, ReindexStart, tables, purgeVars
<1> QED BY <1>1, <1>2, <1>3, <1>4, <1>5 DEF Starts

\* Only these steps write documents or document_versions.
LEMMA Writers ==
  ASSUME [Next]_vars
  PROVE  \/ UNCHANGED <<row, versions>>
         \/ \E r \in Req : CreateInsert(r) \/ Commit(r) \/ SetStatus(r) \/ TrashCommit(r)
         \/ \E r \in Req, d \in Doc : Restore(r, d)
         \/ \E d \in Doc : RetentionElapses(d)
         \/ PurgeRow
<1>1. ASSUME NEW r \in Req, RequestStart(r)
      PROVE  \E d \in Doc : Starts(r, d) \/ Restore(r, d)
  BY <1>1 DEF RequestStart, Starts
<1>2. ASSUME NEW r \in Req, \/ Put(r) \/ EditCheck(r) \/ MetadataGet(r) \/ MetadataPut(r)
                            \/ JobCreate(r) \/ JobSend(r) \/ ExplainUnset(r)
                            \/ ReadUpdated(r) \/ Crash(r)
      PROVE  UNCHANGED <<row, versions>>
  BY <1>2 DEF Put, EditCheck, MetadataGet, MetadataPut, JobCreate, JobSend, ExplainUnset,
              ReadUpdated, Crash, tables
<1>3. CASE \/ PurgeFind \/ PurgeRefused \/ PurgeFail \/ PurgeCrash
           \/ (\E d \in eligible : PurgeCollect(d)) \/ (\E k \in doomed : PurgeDelete(k))
           \/ UNCHANGED vars
  BY <1>3 DEF PurgeFind, PurgeRefused, PurgeFail, PurgeCrash, PurgeCollect, PurgeDelete, vars,
              tables
<1> QED BY <1>1, <1>2, <1>3, StartsWriteNothing DEF Next, RequestStep, PurgeStep

\* A commit either is refused or appends one version and makes it the current one.
LEMMA CommitEffect ==
  ASSUME TypeOK, NEW r \in Req, Commit(r)
  PROVE  /\ req[r] \in Request
         /\ \/ UNCHANGED <<row, versions>>
            \/ LET d == req[r].doc
                   n == req[r].base + 1
               IN /\ CanInsertVersion(d, n)
                  /\ row' = [row EXCEPT ![d] = [row[d] EXCEPT !.version = n,
                                 !.key = req[r].key, !.content = req[r].content]]
                  /\ versions' = [versions EXCEPT ![d] = versions[d] \cup
                        {[version |-> n, key |-> req[r].key, content |-> req[r].content]}]
<1>1. req[r] \in Request
  BY DEF Commit, TypeOK
<1>2. row = [d \in Doc |-> row[d]] /\ versions = [d \in Doc |-> versions[d]]
  BY DEF TypeOK
<1>3. req[r].doc \in Doc
  BY <1>1 DEF Request
<1> QED BY <1>1, <1>2, <1>3 DEF Commit

\* What a request holds once it has started, and whether it has taken an id.
Started(r, d) ==
  /\ pc[r] = "idle" /\ pc'[r] \notin {"idle", "insert", "check"}
  /\ \A t \in Req \ {r} : pc'[t] = pc[t] /\ req'[t] = req[t]
  /\ req'[r].doc = d
  /\ \/ Exists(d) /\ issued' = issued /\ req'[r].op # "create"
     \/ d \notin issued /\ issued' = issued \cup {d} /\ pc'[r] = "put"
  /\ pc'[r] = "commit" => /\ Exists(d) /\ req'[r].base = row[d].version
                          /\ \E v \in versions[d] : req'[r].key = v.key
  /\ \/ req'[r].key.doc = d
     \/ Exists(d) /\ req'[r].key = row[d].key
     \/ \E v \in versions[d] : req'[r].key = v.key

\* A request that starts is no longer idle and holds nothing that is not stored.
LEMMA StartEffect ==
  ASSUME TypeOK, NEW r \in Req, NEW d \in Doc, Starts(r, d) \/ Restore(r, d)
  PROVE  Started(r, d)
<1> USE DEF Begin, Goto, TypeOK
<1>1. ASSUME NEW q \in Request, NEW l, Begin(r, q, l)
      PROVE  /\ pc[r] = "idle" /\ pc'[r] = l /\ req'[r] = q
             /\ \A t \in Req \ {r} : pc'[t] = pc[t] /\ req'[t] = req[t]
  BY <1>1
<1>2. ASSUME Exists(d), NEW op \in Operation
      PROVE  /\ Reading(op, d) \in Request /\ Reading(op, d).key = row[d].key
             /\ Reading(op, d).op = op /\ Reading(op, d).doc = d
             /\ Reading(op, d).base = row[d].version
  BY <1>2, ReadingType DEF Reading
<1> USE DEF Started, Operation
<1>3. ASSUME NEW x \in Ext, CreateStart(r, d, x) PROVE Started(r, d)
  BY <1>3 DEF CreateStart, ObjectKey
<1>4. ASSUME NEW x \in Ext, NEW e \in Expectable(d), EditStart(r, d, x, e)
      PROVE  Started(r, d)
  BY <1>4 DEF EditStart, ObjectKey, Reading, tables, Working
<1>5. ASSUME NEW v \in versions[d], RollbackStart(r, d, v) PROVE Started(r, d)
  BY <1>5 DEF RollbackStart, Reading
<1>6. ASSUME NEW s \in Status, TransitionStart(r, d, s) PROVE Started(r, d)
  BY <1>6 DEF TransitionStart, Kept, Reading
<1>7. CASE TrashStart(r, d)
  BY <1>7 DEF TrashStart, Kept, Reading
<1>8. CASE ReindexStart(r, d)
  BY <1>8 DEF ReindexStart, Reading
<1>9. CASE Restore(r, d)
  <2>1. Exists(d) /\ issued' = issued
    BY <1>9 DEF Restore, InTrash
  <2>2. PICK s, l : Begin(r, [Reading("restore", d) EXCEPT !.status = s], l) /\ l \in {"job", "ok"}
    BY <1>9 DEF Restore
  <2> QED BY <2>1, <2>2 DEF Reading
<1> QED BY <1>3, <1>4, <1>5, <1>6, <1>7, <1>8, <1>9 DEF Starts

\* What the later steps of a request change of it: never its document, its
\* operation or its key; and what has become true when it goes on to a write.
MovedOn(r) ==
  /\ pc[r] # "idle" /\ pc'[r] \notin {"idle", "put"}
  /\ \A t \in Req \ {r} : pc'[t] = pc[t] /\ req'[t] = req[t]
  /\ req'[r].doc = req[r].doc /\ req'[r].op = req[r].op /\ req'[r].key = req[r].key
  /\ pc'[r] \in {"insert", "check"} => pc[r] = "put" /\ req[r].key \in DOMAIN bucket'
  /\ pc'[r] = "insert" => req[r].op = "create"
  /\ pc'[r] = "commit" => /\ pc[r] = "check" /\ Exists(req[r].doc)
                          /\ req'[r].base = row[req[r].doc].version
  /\ DOMAIN bucket \subseteq DOMAIN bucket'
  /\ UNCHANGED <<issued, eligible, doomed, lapsed>>

\* A step of one request leaves the others' alone and moves its own on as MovedOn says.
LEMMA StepEffect ==
  ASSUME TypeOK, NEW r \in Req, RequestStep(r) \/ Crash(r)
  PROVE  MovedOn(r)
<1> USE DEF Goto, TypeOK, MovedOn, purgeVars, tables
<1>1. CASE Put(r)
  BY <1>1 DEF Put, Stored
<1>2. CASE CreateInsert(r)
  BY <1>2 DEF CreateInsert
<1>3. CASE EditCheck(r)
  BY <1>3 DEF EditCheck, Request
<1>4. CASE Commit(r)
  BY <1>4 DEF Commit
<1>5. CASE SetStatus(r)
  BY <1>5 DEF SetStatus
<1>6. CASE MetadataGet(r)
  BY <1>6 DEF MetadataGet, AfterMetadata, Request
<1>7. CASE MetadataPut(r)
  BY <1>7 DEF MetadataPut, AfterMetadata, Stored
<1>8. CASE TrashCommit(r)
  BY <1>8 DEF TrashCommit
<1>9. CASE JobCreate(r) \/ JobSend(r) \/ ExplainUnset(r) \/ ReadUpdated(r)
  BY <1>9 DEF JobCreate, JobSend, ExplainUnset, ReadUpdated
<1>10. CASE Crash(r)
  BY <1>10 DEF Crash, InFlight, Working
<1> QED BY <1>1, <1>2, <1>3, <1>4, <1>5, <1>6, <1>7, <1>8, <1>9, <1>10 DEF RequestStep

\* Time and the purge touch no request.
Unattended ==
  \/ \E d \in Doc : RetentionElapses(d)
  \/ PurgeStep \/ PurgeFail \/ PurgeCrash \/ UNCHANGED vars

\* Neither time nor the purge touches a request.
LEMMA UnattendedEffect == Unattended => UNCHANGED <<pc, req, issued>>
BY DEF Unattended, RetentionElapses, PurgeStep, PurgeFind, PurgeCollect, PurgeDelete, PurgeRow,
       PurgeRefused, PurgeFail, PurgeCrash, vars, requestVars

\* Every step is the start, a step or the loss of a request, or is unattended.
LEMMA Steps ==
  ASSUME [Next]_vars
  PROVE  \/ \E r \in Req, d \in Doc : Starts(r, d) \/ Restore(r, d)
         \/ \E r \in Req : RequestStep(r) \/ Crash(r)
         \/ Unattended
BY DEF Next, RequestStart, Starts, Unattended

-----------------------------------------------------------------------------
(* The trash.  Given TypeOK the invariant is inductive as it stands.        *)

\* No step gives a document in the trash the status active.
LEMMA TrashNext == TypeOK /\ TrashIsHidden /\ [Next]_vars => TrashIsHidden'
<1> SUFFICES ASSUME TypeOK, TrashIsHidden, [Next]_vars PROVE TrashIsHidden'
  OBVIOUS
<1> USE DEF tables, TrashIsHidden, InTrash, Exists
<1>1. CASE UNCHANGED <<row, versions>>
  BY <1>1
<1>2. ASSUME NEW r \in Req, CreateInsert(r) PROVE TrashIsHidden'
  BY <1>2 DEF CreateInsert, FirstRow, TypeOK
<1>3. ASSUME NEW r \in Req, Commit(r) PROVE TrashIsHidden'
  <2> SUFFICES ASSUME row' # row
               PROVE  \A d \in Doc : Exists(d)' =>
                        /\ Exists(d) /\ row'[d].status = row[d].status
                        /\ row'[d].trashed = row[d].trashed /\ row'[d].before = row[d].before
    BY <1>1, <1>3, CommitEffect
  <2> DEFINE d == req[r].doc
             w == [row[d] EXCEPT !.version = req[r].base + 1, !.key = req[r].key,
                                 !.content = req[r].content]
  <2>1. d \in Doc /\ Exists(d) /\ row' = [row EXCEPT ![d] = w]
    BY <1>3, CommitEffect DEF CanInsertVersion, Request
  <2>2. w.status = row[d].status /\ w.trashed = row[d].trashed /\ w.before = row[d].before
    BY <2>1 DEF TypeOK, Row
  <2> HIDE DEF w
  <2> QED BY <2>1, <2>2 DEF TypeOK
<1>4. ASSUME NEW r \in Req, SetStatus(r) PROVE TrashIsHidden'
  BY <1>4 DEF SetStatus, Settable, Kept, TypeOK, Row
<1>5. ASSUME NEW r \in Req, TrashCommit(r) PROVE TrashIsHidden'
  BY <1>5 DEF TrashCommit, Kept, TypeOK, Row, Status
<1>6. ASSUME NEW r \in Req, NEW d \in Doc, Restore(r, d) PROVE TrashIsHidden'
  BY <1>6 DEF Restore, TypeOK, Row
<1>7. ASSUME NEW d \in Doc, RetentionElapses(d) PROVE TrashIsHidden'
  BY <1>7 DEF RetentionElapses, TypeOK, Row
<1>8. CASE PurgeRow
  BY <1>8 DEF PurgeRow, TypeOK
<1> QED
  BY <1>1, <1>2, <1>3, <1>4, <1>5, <1>6, <1>7, <1>8, Writers

\* A document in the trash is archived and has a status to come back to,
\* whatever was in flight when it was trashed.
THEOREM TrashHidden == Spec => []TrashIsHidden
<1>1. Init => TrashIsHidden
  BY DEF Init, TrashIsHidden, InTrash, Exists, FirstRow
<1> QED BY <1>1, TypeCorrect, TrashNext, PTL DEF Spec

-----------------------------------------------------------------------------
(* Bytes until the window closes.  A commit names a key read from a request, *)
(* so the invariant must say that requests hold keys that are stored; and a  *)
(* purge deletes keys, so it must say that keys name their document and that *)
(* what is doomed belongs to a document whose window has closed.             *)

KeysNameTheirDocument ==
  /\ \A d \in Doc : \A v \in versions[d] : v.key.doc = d
  /\ \A d \in Doc : Exists(d) => row[d].key.doc = d
  /\ \A r \in Req : pc[r] # "idle" => req[r].key.doc = req[r].doc

PurgeIsForLapsed ==
  /\ eligible \subseteq lapsed
  /\ \A d \in Doc : Exists(d) /\ row[d].trashed = "expired" => d \in lapsed
  /\ \A k \in doomed : k.doc \in lapsed

UploadedBeforeCommit ==
  \A r \in Req : pc[r] \in {"insert", "check", "commit"} /\ req[r].doc \notin lapsed =>
    req[r].key \in DOMAIN bucket

KeptInv == /\ KeptUntilLapsed /\ KeysNameTheirDocument /\ PurgeIsForLapsed
           /\ UploadedBeforeCommit

\* Rows and versions keep naming their document.
LEMMA KeysNext ==
  ASSUME TypeOK, KeysNameTheirDocument, [Next]_vars
  PROVE  KeysNameTheirDocument'
<1> USE DEF KeysNameTheirDocument
<1>1. \A r \in Req : pc'[r] # "idle" => req'[r].key.doc = req'[r].doc
  <2>1. ASSUME NEW r \in Req, NEW d \in Doc, Starts(r, d) \/ Restore(r, d) PROVE <1>1
    BY <2>1, StartEffect DEF Started
  <2>2. ASSUME NEW r \in Req, RequestStep(r) \/ Crash(r) PROVE <1>1
    BY <2>2, StepEffect DEF MovedOn
  <2>3. CASE Unattended
    BY <2>3, UnattendedEffect
  <2> QED BY <2>1, <2>2, <2>3, Steps
<1>2. /\ \A d \in Doc : \A v \in versions'[d] : v.key.doc = d
      /\ \A d \in Doc : Exists(d)' => row'[d].key.doc = d
  <2> USE DEF Exists
  <2>1. CASE UNCHANGED <<row, versions>>
    BY <2>1
  <2>2. ASSUME NEW r \in Req, CreateInsert(r) PROVE <1>2
    BY <2>2 DEF CreateInsert, FirstRow, VersionOf, TypeOK
  <2>3. ASSUME NEW r \in Req, Commit(r), row' # row \/ versions' # versions PROVE <1>2
    <3> DEFINE d == req[r].doc
               w == [row[d] EXCEPT !.version = req[r].base + 1, !.key = req[r].key,
                                   !.content = req[r].content]
               v == [version |-> req[r].base + 1, key |-> req[r].key,
                     content |-> req[r].content]
    <3>1. /\ req[r] \in Request /\ CanInsertVersion(d, req[r].base + 1)
          /\ row' = [row EXCEPT ![d] = w]
          /\ versions' = [versions EXCEPT ![d] = versions[d] \cup {v}]
      BY <2>3, CommitEffect
    <3>2. d \in Doc /\ row[d] \in Row /\ req[r].key.doc = d
      BY <2>3, <3>1 DEF CanInsertVersion, Request, TypeOK, Commit
    <3>3. w.key.doc = d /\ v.key.doc = d
      BY <3>2 DEF Row
    <3> HIDE DEF w, v
    <3> QED BY <3>1, <3>2, <3>3 DEF TypeOK
  <2>4. ASSUME NEW r \in Req, SetStatus(r) \/ TrashCommit(r) PROVE <1>2
    BY <2>4 DEF SetStatus, TrashCommit, Kept, Settable, TypeOK, Row
  <2>5. ASSUME NEW r \in Req, NEW d \in Doc, Restore(r, d) PROVE <1>2
    BY <2>5 DEF Restore, InTrash, TypeOK, Row
  <2>6. ASSUME NEW d \in Doc, RetentionElapses(d) PROVE <1>2
    BY <2>6 DEF RetentionElapses, TypeOK, Row
  <2>7. CASE PurgeRow
    BY <2>7 DEF PurgeRow, TypeOK
  <2> QED BY <2>1, <2>2, <2>3, <2>4, <2>5, <2>6, <2>7, Writers
<1> QED BY <1>1, <1>2

\* The purge only ever works on documents whose window has closed.
LEMMA PurgeNext ==
  ASSUME TypeOK, KeysNameTheirDocument, PurgeIsForLapsed, [Next]_vars
  PROVE  PurgeIsForLapsed'
<1> USE DEF PurgeIsForLapsed, Exists
<1>1. lapsed \subseteq lapsed' /\ \A d \in Doc : Exists(d)' /\ row'[d].trashed = "expired"
                                     => d \in lapsed'
  <2>1. lapsed \subseteq lapsed'
    <3>1. ASSUME NEW r \in Req, NEW d \in Doc, Starts(r, d) \/ Restore(r, d) PROVE <2>1
      BY <3>1, StartsWriteNothing DEF Restore
    <3>2. ASSUME NEW r \in Req, RequestStep(r) \/ Crash(r) PROVE <2>1
      BY <3>2, StepEffect DEF MovedOn
    <3>3. CASE Unattended
      BY <3>3 DEF Unattended, RetentionElapses, PurgeStep, PurgeFind, PurgeCollect,
                  PurgeDelete, PurgeRow, PurgeRefused, PurgeFail, PurgeCrash, vars
    <3> QED BY <3>1, <3>2, <3>3, Steps
  <2>2. CASE UNCHANGED <<row, versions>>
    BY <2>1, <2>2
  <2>3. ASSUME NEW r \in Req, CreateInsert(r) PROVE <1>1
    BY <2>1, <2>3 DEF CreateInsert, FirstRow, TypeOK
  <2>4. ASSUME NEW r \in Req, Commit(r), row' # row PROVE <1>1
    <3> DEFINE d == req[r].doc
               w == [row[d] EXCEPT !.version = req[r].base + 1, !.key = req[r].key,
                                   !.content = req[r].content]
    <3>1. d \in Doc /\ Exists(d) /\ row' = [row EXCEPT ![d] = w]
      BY <2>4, CommitEffect DEF CanInsertVersion, Request
    <3>2. w.trashed = row[d].trashed
      BY <3>1 DEF TypeOK, Row
    <3> HIDE DEF w
    <3> QED BY <2>1, <3>1, <3>2 DEF TypeOK
  <2>5. ASSUME NEW r \in Req, SetStatus(r) \/ TrashCommit(r) PROVE <1>1
    BY <2>1, <2>5 DEF SetStatus, TrashCommit, Kept, Settable, TypeOK, Row
  <2>6. ASSUME NEW r \in Req, NEW d \in Doc, Restore(r, d) PROVE <1>1
    BY <2>1, <2>6 DEF Restore, InTrash, TypeOK, Row
  <2>7. ASSUME NEW d \in Doc, RetentionElapses(d) PROVE <1>1
    BY <2>1, <2>7 DEF RetentionElapses, TypeOK, Row
  <2>8. CASE PurgeRow
    BY <2>1, <2>8 DEF PurgeRow, TypeOK
  <2> QED BY <2>1, <2>2, <2>3, <2>4, <2>5, <2>6, <2>7, <2>8, Writers
<1>2. eligible' \subseteq lapsed' /\ \A k \in doomed' : k.doc \in lapsed'
  <2>1. ASSUME NEW r \in Req, NEW d \in Doc, Starts(r, d) \/ Restore(r, d) PROVE <1>2
    BY <2>1, StartsWriteNothing DEF Restore, purgeVars
  <2>2. ASSUME NEW r \in Req, RequestStep(r) \/ Crash(r) PROVE <1>2
    BY <2>2, StepEffect DEF MovedOn
  <2>3. ASSUME NEW d \in Doc, RetentionElapses(d) PROVE <1>2
    BY <2>3 DEF RetentionElapses, purgeVars
  <2>4. CASE PurgeFind
    BY <2>4 DEF PurgeFind, Batches, Purgeable
  <2>5. ASSUME NEW d \in eligible, PurgeCollect(d) PROVE <1>2
    <3>1. d \in Doc /\ \A k \in AllR2Keys(d) : k.doc = d
      BY DEF AllR2Keys, KeysNameTheirDocument, TypeOK
    <3> QED BY <2>5, <3>1 DEF PurgeCollect
  <2>6. ASSUME NEW k \in doomed, PurgeDelete(k) PROVE <1>2
    BY <2>6 DEF PurgeDelete
  <2>7. CASE PurgeRow \/ PurgeRefused \/ PurgeFail \/ PurgeCrash \/ UNCHANGED vars
    BY <2>7 DEF PurgeRow, PurgeRefused, PurgeFail, PurgeCrash, NextDocument, vars, purgeVars
  <2> QED BY <2>1, <2>2, <2>3, <2>4, <2>5, <2>6, <2>7, Steps DEF Unattended, PurgeStep
<1> QED BY <1>1, <1>2

\* No step loses an object of a document whose window has not closed.
LEMMA ObjectsStay ==
  ASSUME TypeOK, KeysNameTheirDocument, PurgeIsForLapsed, [Next]_vars
  PROVE  /\ lapsed \subseteq lapsed'
         /\ \A k \in DOMAIN bucket : k.doc \notin lapsed => k \in DOMAIN bucket'
<1>1. ASSUME NEW r \in Req, NEW d \in Doc, Starts(r, d) \/ Restore(r, d)
      PROVE  UNCHANGED <<bucket, lapsed>>
  BY <1>1, StartsWriteNothing DEF Restore
<1>2. ASSUME NEW r \in Req, RequestStep(r) \/ Crash(r)
      PROVE  DOMAIN bucket \subseteq DOMAIN bucket' /\ UNCHANGED lapsed
  BY <1>2, StepEffect DEF MovedOn
<1>3. ASSUME NEW k \in doomed, PurgeDelete(k)
      PROVE  k.doc \in lapsed /\ bucket' = Without(k) /\ UNCHANGED lapsed
  BY <1>3 DEF PurgeDelete, PurgeIsForLapsed
<1>4. ASSUME \/ \E d \in Doc : RetentionElapses(d)
             \/ PurgeFind \/ (\E d \in eligible : PurgeCollect(d)) \/ PurgeRow
             \/ PurgeRefused \/ PurgeFail \/ PurgeCrash \/ UNCHANGED vars
      PROVE  UNCHANGED bucket /\ lapsed \subseteq lapsed'
  BY <1>4 DEF RetentionElapses, PurgeFind, PurgeCollect, PurgeRow, PurgeRefused, PurgeFail,
              PurgeCrash, vars
<1> QED BY <1>1, <1>2, <1>3, <1>4, Steps DEF Unattended, PurgeStep, Without

\* What a request is about to commit stays uploaded.
LEMMA UploadNext ==
  ASSUME TypeOK, KeptInv, [Next]_vars
  PROVE  UploadedBeforeCommit'
<1> USE DEF KeptInv, UploadedBeforeCommit
<1> SUFFICES ASSUME NEW r \in Req, pc'[r] \in {"insert", "check", "commit"},
                    req'[r].doc \notin lapsed'
             PROVE  req'[r].key \in DOMAIN bucket'
  OBVIOUS
<1>1. CASE pc'[r] = pc[r] /\ req'[r] = req[r]
  BY <1>1, ObjectsStay DEF KeysNameTheirDocument, TypeOK
<1>2. ASSUME NEW t \in Req, NEW d \in Doc, Starts(t, d) \/ Restore(t, d)
      PROVE  req'[r].key \in DOMAIN bucket'
  <2>1. CASE r # t
    BY <1>1, <1>2, <2>1, StartEffect DEF Started
  <2>2. CASE r = t
    <3>1. PICK v \in versions[d] : req'[r].key = v.key
      BY <1>2, <2>2, StartEffect DEF Started
    <3>2. v.key \in DOMAIN bucket /\ v.key.doc = d /\ req'[r].doc = d
      BY <1>2, <2>2, <3>1, StartEffect, ObjectsStay
         DEF Started, KeptUntilLapsed, KeysNameTheirDocument
    <3> QED BY <3>1, <3>2, ObjectsStay
  <2> QED BY <2>1, <2>2
<1>3. ASSUME NEW t \in Req, RequestStep(t) \/ Crash(t)
      PROVE  req'[r].key \in DOMAIN bucket'
  <2>1. CASE r # t
    BY <1>1, <1>3, <2>1, StepEffect DEF MovedOn
  <2>2. CASE r = t
    BY <1>3, <2>2, StepEffect DEF MovedOn
  <2> QED BY <2>1, <2>2
<1>4. CASE Unattended
  BY <1>1, <1>4, UnattendedEffect
<1> QED BY <1>2, <1>3, <1>4, Steps

\* No step takes the bytes of a version of a document that is to be kept.
LEMMA KeptNext ==
  ASSUME TypeOK, KeptInv, [Next]_vars
  PROVE  KeptUntilLapsed'
<1> USE DEF KeptInv
<1> SUFFICES ASSUME NEW d \in Doc, d \notin lapsed', NEW v \in versions'[d]
             PROVE  v.key \in DOMAIN bucket'
  BY DEF KeptUntilLapsed
<1>1. CASE v \in versions[d]
  BY <1>1, ObjectsStay DEF KeptUntilLapsed, KeysNameTheirDocument
<1>2. ASSUME NEW r \in Req, CreateInsert(r) PROVE v.key \in DOMAIN bucket'
  <2>1. CASE d = req[r].doc /\ v \notin versions[d]
    <3>1. v.key = req[r].key /\ pc[r] = "insert" /\ bucket' = bucket /\ lapsed' = lapsed
      BY <1>2, <2>1 DEF CreateInsert, FirstRow, VersionOf, TypeOK
    <3> QED BY <2>1, <3>1 DEF UploadedBeforeCommit
  <2>2. CASE d # req[r].doc
    BY <1>1, <1>2, <2>2 DEF CreateInsert, TypeOK
  <2> QED BY <1>1, <2>1, <2>2
<1>3. ASSUME NEW r \in Req, Commit(r) PROVE v.key \in DOMAIN bucket'
  <2>1. CASE d = req[r].doc /\ v \notin versions[d]
    <3>1. pc[r] = "commit" /\ bucket' = bucket /\ lapsed' = lapsed
      BY <1>3 DEF Commit
    <3>2. versions' = [versions EXCEPT ![d] = versions[d] \cup
             {[version |-> req[r].base + 1, key |-> req[r].key, content |-> req[r].content]}]
      BY <1>3, <2>1, CommitEffect
    <3>3. v = [version |-> req[r].base + 1, key |-> req[r].key, content |-> req[r].content]
      BY <2>1, <3>2 DEF TypeOK
    <3> QED BY <2>1, <3>1, <3>3 DEF UploadedBeforeCommit
  <2>2. CASE d # req[r].doc
    BY <1>1, <1>3, <2>2 DEF Commit, TypeOK
  <2> QED BY <1>1, <2>1, <2>2
<1>4. CASE \/ UNCHANGED <<row, versions>> \/ PurgeRow
           \/ (\E r \in Req : SetStatus(r) \/ TrashCommit(r))
           \/ (\E r \in Req, e \in Doc : Restore(r, e)) \/ (\E e \in Doc : RetentionElapses(e))
  BY <1>1, <1>4 DEF PurgeRow, SetStatus, TrashCommit, Restore, RetentionElapses, TypeOK
<1> QED BY <1>2, <1>3, <1>4, Writers

\* The documents stored beforehand have their bytes.
LEMMA KeptInit == Init => KeptInv
<1> SUFFICES ASSUME NEW s \in [Existing -> InitStatus], NEW x \in [Existing -> Ext],
                    Init!(s, x)
             PROVE  KeptInv
  BY DEF Init
<1> DEFINE first(d) == FirstRow(d, s[d], ObjectKey(d, 1, x[d]), d)
<1>1. /\ \A d \in Existing : first(d).key.doc = d /\ VersionOf(first(d)).key = first(d).key
                             /\ first(d).trashed = "no"
      /\ Existing \subseteq Doc
  BY ConstantsAssumption DEF FirstRow, ObjectKey, VersionOf
<1>2. DOMAIN bucket = {first(d).key : d \in Existing}
  OBVIOUS
<1>3. ASSUME NEW d \in Doc
      PROVE  /\ Exists(d) => row[d].key.doc = d /\ row[d].trashed = "no"
             /\ \A v \in versions[d] : v.key.doc = d /\ v.key \in DOMAIN bucket
  <2>1. CASE d \in Existing
    <3>1. row[d] = first(d) /\ versions[d] = {VersionOf(first(d))}
      BY <2>1
    <3>2. first(d).key \in DOMAIN bucket
      BY <1>2, <2>1
    <3> HIDE DEF first
    <3> QED BY <1>1, <2>1, <3>1, <3>2
  <2>2. CASE d \notin Existing
    BY <2>2 DEF Exists
  <2> QED BY <2>1, <2>2
<1> QED BY <1>3
        DEF KeptInv, KeptUntilLapsed, KeysNameTheirDocument, PurgeIsForLapsed,
            UploadedBeforeCommit

\* Until its retention window has closed once, a document keeps the bytes of
\* every version in its history.
THEOREM KeptForEveryVersion == Spec => []KeptUntilLapsed
<1>1. TypeOK /\ KeptInv /\ [Next]_vars => KeptInv'
  BY KeysNext, PurgeNext, UploadNext, KeptNext DEF KeptInv
<1>2. KeptInv => KeptUntilLapsed
  BY DEF KeptInv
<1> QED BY <1>1, <1>2, KeptInit, TypeCorrect, PTL DEF Spec

-----------------------------------------------------------------------------
(* Histories.  A commit numbers its version from a row it has read, and only *)
(* UNIQUE (document_id, version) stops a late one, so the invariant must say *)
(* that what was read is never ahead of the row; an insert has no rival, so  *)
(* it must say that the id of a draft is nobody else's.                      *)

Drafting(r) == pc[r] \in {"put", "insert"} /\ req[r].op = "create"

IdsAreFresh ==
  /\ \A d \in Doc : Exists(d) => d \in issued
  /\ \A r \in Req : pc[r] # "idle" => req[r].doc \in issued
  /\ \A r \in Req : pc[r] = "insert" => req[r].op = "create"
  /\ \A r \in Req : Drafting(r) =>
       /\ ~Exists(req[r].doc)
       /\ \A t \in Req \ {r} : pc[t] # "idle" => req[t].doc # req[r].doc

ReadsAreNotAhead ==
  \A r \in Req : pc[r] = "commit" /\ Exists(req[r].doc) =>
    req[r].base <= row[req[r].doc].version

HistoryInv == HistoryMatchesRow /\ IdsAreFresh /\ ReadsAreNotAhead

\* A document appears only when a draft is inserted.
LEMMA Births ==
  ASSUME TypeOK, [Next]_vars, NEW d \in Doc, ~Exists(d), Exists(d)'
  PROVE  \E r \in Req : CreateInsert(r) /\ req[r].doc = d
<1> USE DEF Exists, TypeOK
<1>1. ASSUME NEW r \in Req, CreateInsert(r) PROVE req[r].doc = d
  BY <1>1 DEF CreateInsert, Request
<1>2. ASSUME NEW r \in Req, Commit(r) PROVE FALSE
  BY <1>2 DEF Commit, CanInsertVersion
<1>3. ASSUME NEW r \in Req, SetStatus(r) \/ TrashCommit(r) PROVE FALSE
  BY <1>3 DEF SetStatus, TrashCommit, Settable, Kept
<1>4. ASSUME NEW e \in Doc, RetentionElapses(e) \/ (\E r \in Req : Restore(r, e)) PROVE FALSE
  BY <1>4 DEF RetentionElapses, Restore, InTrash
<1>5. CASE PurgeRow
  BY <1>5 DEF PurgeRow
<1> QED BY <1>1, <1>2, <1>3, <1>4, <1>5, Writers

\* The id of a create still in flight names no document yet.
LEMMA IdsNext ==
  ASSUME TypeOK, IdsAreFresh, [Next]_vars
  PROVE  IdsAreFresh'
<1> USE DEF IdsAreFresh, Drafting
<1>1. ASSUME NEW r \in Req, NEW d \in Doc, Starts(r, d) \/ Restore(r, d)
      PROVE  IdsAreFresh'
  <2>1. Started(r, d)
    BY <1>1, StartEffect
  <2>2. \A e \in Doc : Exists(e)' => Exists(e)
    BY <1>1, StartsWriteNothing DEF Restore, InTrash, Exists, TypeOK
  <2>3. \A t \in Req : pc[t] # "idle" => req[t].doc \in Doc
    BY DEF TypeOK, Request
  <2> QED BY <2>1, <2>2, <2>3 DEF Started
<1>2. ASSUME NEW r \in Req, RequestStep(r) \/ Crash(r)
      PROVE  IdsAreFresh'
  <2>1. MovedOn(r)
    BY <1>2, StepEffect
  <2>2. \A t \in Req : pc[t] # "idle" => req[t].doc \in Doc
    BY DEF TypeOK, Request
  <2>3. ASSUME NEW d \in Doc, Exists(d)', ~Exists(d)
        PROVE  req[r].doc = d /\ pc[r] = "insert" /\ ~Drafting(r)'
    <3>1. PICK t \in Req : CreateInsert(t) /\ req[t].doc = d
      BY <2>3, Births
    <3>2. t = r
      BY <2>1, <3>1 DEF MovedOn, CreateInsert, Goto, TypeOK
    <3> QED BY <3>1, <3>2 DEF CreateInsert, Goto, TypeOK
  <2> QED BY <2>1, <2>2, <2>3 DEF MovedOn
<1>3. CASE Unattended
  <2>1. UNCHANGED <<pc, req, issued>>
    BY <1>3, UnattendedEffect
  <2>2. \A r \in Req : ~CreateInsert(r)
    BY <2>1 DEF CreateInsert, Goto, TypeOK
  <2>3. \A d \in Doc : Exists(d)' => Exists(d)
    BY <2>2, Births
  <2>4. \A r \in Req : pc[r] # "idle" => req[r].doc \in Doc
    BY DEF TypeOK, Request
  <2> QED BY <2>1, <2>3, <2>4
<1> QED BY <1>1, <1>2, <1>3, Steps

\* A commit that is not refused takes the number after the current one.
LEMMA CommitIsNext ==
  ASSUME TypeOK, HistoryInv, NEW r \in Req, pc[r] = "commit",
         CanInsertVersion(req[r].doc, req[r].base + 1)
  PROVE  /\ req[r].doc \in Doc /\ row[req[r].doc] \in Row
         /\ req[r].base = row[req[r].doc].version
<1>1. req[r] \in Request /\ req[r].doc \in Doc /\ req[r].base \in Nat
  BY DEF TypeOK, Request
<1>2. Exists(req[r].doc) /\ row[req[r].doc] \in Row /\ row[req[r].doc].version \in Nat
  BY <1>1 DEF CanInsertVersion, Exists, TypeOK, Row
<1>3. req[r].base <= row[req[r].doc].version
  BY <1>2 DEF HistoryInv, ReadsAreNotAhead
<1>4. req[r].base + 1 \notin 1..row[req[r].doc].version
  BY <1>1, <1>2 DEF HistoryInv, HistoryMatchesRow, CanInsertVersion
<1> QED BY <1>1, <1>2, <1>3, <1>4

\* Each number is in a history once, whatever a step does to it.
LEMMA HistoryNext ==
  ASSUME TypeOK, HistoryInv, [Next]_vars
  PROVE  HistoryMatchesRow'
<1> USE DEF HistoryInv
<1>1. CASE UNCHANGED <<row, versions>>
  BY <1>1 DEF HistoryMatchesRow, Exists
<1>2. ASSUME NEW r \in Req, CreateInsert(r), ~UNCHANGED <<row, versions>>
      PROVE  HistoryMatchesRow'
  <2> DEFINE d == req[r].doc
             w == FirstRow(d, "draft", req[r].key, req[r].content)
  <2>1. /\ row' = [row EXCEPT ![d] = w]
        /\ versions' = [versions EXCEPT ![d] = {VersionOf(w)}]
    BY <1>2 DEF CreateInsert
  <2>2. w.version = 1 /\ VersionOf(w).version = 1
    BY DEF FirstRow, VersionOf
  <2> HIDE DEF w
  <2>3. ASSUME NEW e \in Doc
        PROVE  /\ e # d => row'[e] = row[e] /\ versions'[e] = versions[e]
               /\ e = d => row'[e] = w /\ versions'[e] = {VersionOf(w)}
    BY <2>1 DEF TypeOK
  <2>4. w # NoRow
    BY <1>2, FirstRowType, ConstantsAssumption
       DEF w, CreateInsert, TypeOK, Request, Status
  <2> QED BY <2>2, <2>3, <2>4 DEF HistoryMatchesRow, Exists
<1>3. ASSUME NEW r \in Req, Commit(r), ~UNCHANGED <<row, versions>>
      PROVE  HistoryMatchesRow'
  <2> DEFINE d == req[r].doc
             n == req[r].base + 1
             w == [row[d] EXCEPT !.version = n, !.key = req[r].key, !.content = req[r].content]
             v == [version |-> n, key |-> req[r].key, content |-> req[r].content]
  <2>1. /\ CanInsertVersion(d, n)
        /\ row' = [row EXCEPT ![d] = w]
        /\ versions' = [versions EXCEPT ![d] = versions[d] \cup {v}]
    BY <1>3, CommitEffect
  <2>2. d \in Doc /\ row[d] \in Row /\ Exists(d) /\ n = row[d].version + 1
    BY <1>3, <2>1, CommitIsNext DEF Commit, CanInsertVersion
  <2>3. w.version = n /\ VersionOf(w) = v /\ v.version = n
    BY <2>2 DEF Row, VersionOf
  <2> HIDE DEF w, v, n
  <2>4. ASSUME NEW e \in Doc
        PROVE  /\ e # d => row'[e] = row[e] /\ versions'[e] = versions[e]
               /\ e = d => row'[e] = w /\ versions'[e] = versions[d] \cup {v}
    BY <2>1 DEF TypeOK
  <2>5. {u.version : u \in versions[d] \cup {v}} = 1..n
    <3>1. {u.version : u \in versions[d]} = 1..row[d].version /\ row[d].version \in Nat
      BY <2>2 DEF HistoryMatchesRow, Row
    <3>2. {u.version : u \in versions[d] \cup {v}} = 1..row[d].version \cup {n}
      BY <2>3, <3>1
    <3> QED BY <2>2, <3>1, <3>2
  <2>6. \A u \in versions[d] : u.version # n
    BY <2>1 DEF CanInsertVersion
  <2>7. /\ {u.version : u \in versions'[d]} = 1..row'[d].version
        /\ VersionOf(row'[d]) \in versions'[d]
        /\ \A u, z \in versions'[d] : u.version = z.version => u = z
        /\ row'[d] # NoRow
    <3>1. row'[d] = w /\ versions'[d] = versions[d] \cup {v}
      BY <2>2, <2>4
    <3>2. \A u, z \in versions[d] : u.version = z.version => u = z
      BY <2>2 DEF HistoryMatchesRow
    <3>3. w \in Row
      BY <1>3, <2>2, <2>1, TypeNext, <3>1 DEF TypeOK, Exists, w, Row, n, Commit, Request
    <3>4. \A u, z \in versions[d] \cup {v} : u.version = z.version => u = z
      BY <2>3, <2>6, <3>2
    <3>5. row'[d] # NoRow /\ VersionOf(row'[d]) \in versions'[d]
      BY <2>3, <3>1, <3>3, ConstantsAssumption
    <3>6. {u.version : u \in versions'[d]} = 1..row'[d].version
      BY <2>3, <2>5, <3>1
    <3> QED BY <3>1, <3>4, <3>5, <3>6
  <2>8. ASSUME NEW e \in Doc, e # d
        PROVE  row'[e] = row[e] /\ versions'[e] = versions[e]
    BY <2>4, <2>8
  <2> HIDE DEF d
  <2>9. ASSUME NEW e \in Doc
        PROVE  /\ Exists(e)' => /\ {u.version : u \in versions'[e]} = 1..row'[e].version
                                /\ VersionOf(row'[e]) \in versions'[e]
               /\ \A u, z \in versions'[e] : u.version = z.version => u = z
               /\ ~Exists(e)' => versions'[e] = {}
    <3>1. CASE e = d
      BY <2>7, <3>1 DEF Exists
    <3>2. CASE e # d
      BY <2>8, <3>2 DEF HistoryMatchesRow, Exists
    <3> QED BY <3>1, <3>2
  <2> QED BY <2>9 DEF HistoryMatchesRow, Exists
<1>4. ASSUME UNCHANGED versions,
             \A d \in Doc : /\ Exists(d) <=> Exists(d)'
                            /\ Exists(d) => VersionOf(row'[d]) = VersionOf(row[d])
                                            /\ row'[d].version = row[d].version
      PROVE  HistoryMatchesRow'
  BY <1>4 DEF HistoryMatchesRow
<1>5. ASSUME NEW r \in Req, SetStatus(r) \/ TrashCommit(r) PROVE HistoryMatchesRow'
  <2>1. UNCHANGED versions
    BY <1>5 DEF SetStatus, TrashCommit
  <2>2. ASSUME NEW d \in Doc
        PROVE  /\ Exists(d) <=> Exists(d)'
               /\ Exists(d) => /\ row'[d].version = row[d].version
                               /\ row'[d].key = row[d].key
                               /\ row'[d].content = row[d].content
    <3>1. TypeOK'
      BY TypeNext
    <3>2. CASE row' = row
      BY <3>2 DEF Exists
    <3>3. CASE Exists(req[r].doc) /\ row' # row
      <4> DEFINE c == req[r].doc
      <4>1. c \in Doc /\ Exists(c) /\ row[c] \in Row
        BY <1>5, <3>1, <3>3 DEF SetStatus, TrashCommit, TypeOK, Request, Exists
      <4>2. CASE SetStatus(r)
        <5>1. row' = [row EXCEPT ![c] = [row[c] EXCEPT !.status = req[r].status]]
          BY <3>3, <4>1, <4>2 DEF SetStatus, TypeOK
        <5>2. [row[c] EXCEPT !.status = req[r].status] \in Row
          BY <4>1, <4>2 DEF Row, SetStatus, TypeOK, Request
        <5>3. row'[c] # NoRow
          BY <4>1, <5>1, <5>2, ConstantsAssumption DEF TypeOK
        <5> QED BY <4>1, <5>1, <5>3 DEF Exists, TypeOK, Row
      <4>3. CASE TrashCommit(r)
        <5>1. row' = [row EXCEPT ![c] = [row[c] EXCEPT !.before = row[c].status,
                                               !.status = "archived", !.trashed = "recent"]]
          BY <3>3, <4>1, <4>3 DEF TrashCommit, TypeOK
        <5>2. [row[c] EXCEPT !.before = row[c].status, !.status = "archived",
                             !.trashed = "recent"] \in Row
          BY <4>1 DEF Row, Status
        <5>3. row'[c] # NoRow
          BY <4>1, <5>1, <5>2, ConstantsAssumption DEF TypeOK
        <5> QED BY <4>1, <5>1, <5>3 DEF Exists, TypeOK, Row
      <4> QED BY <1>5, <4>2, <4>3
    <3> QED BY <1>5, <3>2, <3>3 DEF SetStatus, TrashCommit, Settable, Kept
  <2> QED BY <1>4, <2>1, <2>2 DEF VersionOf
<1>6. ASSUME NEW d \in Doc, RetentionElapses(d) \/ (\E r \in Req : Restore(r, d))
      PROVE  HistoryMatchesRow'
  BY <1>4, <1>6, ConstantsAssumption
     DEF RetentionElapses, Restore, InTrash, Exists, VersionOf, TypeOK, Row, tables
<1>7. CASE PurgeRow
  BY <1>7 DEF PurgeRow, HistoryMatchesRow, Exists, TypeOK
<1> QED BY <1>1, <1>2, <1>3, <1>5, <1>6, <1>7, Writers

\* The version a request read is never ahead of the row.
LEMMA ReadsNext ==
  ASSUME TypeOK, HistoryInv, [Next]_vars
  PROVE  ReadsAreNotAhead'
<1> USE DEF HistoryInv
<1>1. ASSUME NEW d \in Doc, Exists(d), Exists(d)'
      PROVE  row[d].version <= row'[d].version
  <2>0. row[d].version \in Nat
    BY <1>1 DEF Exists, TypeOK, Row
  <2>1. CASE row'[d].version = row[d].version
    BY <2>0, <2>1
  <2>2. ASSUME NEW r \in Req, CreateInsert(r) PROVE row'[d].version = row[d].version
    <3>1. req[r].doc # d
      BY <1>1, <2>2 DEF CreateInsert, IdsAreFresh, Drafting
    <3> QED BY <2>2, <3>1 DEF CreateInsert, TypeOK
  <2>3. ASSUME NEW r \in Req, Commit(r), row' # row, req[r].doc = d
        PROVE  row[d].version <= row'[d].version
    <3> DEFINE w == [row[d] EXCEPT !.version = req[r].base + 1, !.key = req[r].key,
                                   !.content = req[r].content]
    <3>1. CanInsertVersion(d, req[r].base + 1) /\ row' = [row EXCEPT ![d] = w]
      BY <2>3, CommitEffect
    <3>2. row[d] \in Row /\ req[r].base = row[d].version
      BY <2>3, <3>1, CommitIsNext DEF Commit
    <3>3. w.version = row[d].version + 1
      BY <3>2 DEF Row
    <3> HIDE DEF w
    <3> QED BY <2>0, <3>1, <3>3 DEF TypeOK
  <2>4. ASSUME NEW r \in Req, Commit(r), row' = row \/ req[r].doc # d
        PROVE  row'[d].version = row[d].version
    BY <2>4 DEF Commit, TypeOK
  <2>5. ASSUME NEW r \in Req, SetStatus(r) \/ TrashCommit(r)
        PROVE  row'[d].version = row[d].version
    BY <1>1, <2>5 DEF SetStatus, TrashCommit, Exists, TypeOK, Row
  <2>6. ASSUME NEW e \in Doc, RetentionElapses(e) \/ (\E r \in Req : Restore(r, e))
        PROVE  row'[d].version = row[d].version
    BY <1>1, <2>6 DEF RetentionElapses, Restore, Exists, TypeOK, Row
  <2>7. CASE PurgeRow
    BY <1>1, <2>0, <2>7 DEF PurgeRow, Exists, TypeOK
  <2> QED BY <2>1, <2>2, <2>3, <2>4, <2>5, <2>6, <2>7, Writers
<1> SUFFICES ASSUME NEW r \in Req, pc'[r] = "commit", row'[req'[r].doc] # NoRow
             PROVE  req'[r].base <= row'[req'[r].doc].version
  BY DEF ReadsAreNotAhead, Exists
<1>2. req'[r] \in Request
  <2>1. TypeOK'
    BY TypeNext
  <2> QED BY <2>1 DEF TypeOK
<1> DEFINE d == req'[r].doc
<1>3. d \in Doc /\ row'[d].version \in Nat /\ req'[r].base \in Nat
  <2>1. TypeOK'
    BY TypeNext
  <2> QED BY <1>2, <2>1 DEF TypeOK, Row, Request
<1>4. CASE Exists(d) /\ req'[r].base <= row[d].version
  <2>1. row[d].version \in Nat /\ row[d].version <= row'[d].version
    BY <1>1, <1>3, <1>4 DEF Exists, TypeOK, Row
  <2> QED BY <1>3, <1>4, <2>1
<1>5. CASE pc'[r] = pc[r] /\ req'[r] = req[r]
  <2>1. CASE Exists(d)
    BY <1>4, <1>5, <2>1 DEF ReadsAreNotAhead
  <2>2. CASE ~Exists(d)
    <3>1. PICK t \in Req : CreateInsert(t) /\ req[t].doc = d
      BY <1>3, <2>2, Births DEF Exists
    <3>2. Drafting(t) /\ r # t
      BY <1>5, <3>1 DEF CreateInsert, IdsAreFresh, Drafting
    <3> QED BY <1>5, <3>1, <3>2 DEF IdsAreFresh
  <2> QED BY <2>1, <2>2
<1>6. ASSUME NEW t \in Req, NEW e \in Doc, Starts(t, e) \/ Restore(t, e)
      PROVE  req'[r].base <= row'[d].version
  <2>1. Started(t, e)
    BY <1>6, StartEffect
  <2>2. CASE r = t
    <3>1. d = e /\ Exists(e) /\ req'[r].base = row[e].version
      BY <2>1, <2>2 DEF Started
    <3> QED BY <1>3, <1>4, <3>1
  <2>3. CASE r # t
    BY <1>5, <2>1, <2>3 DEF Started
  <2> QED BY <2>2, <2>3
<1>7. ASSUME NEW t \in Req, RequestStep(t) \/ Crash(t)
      PROVE  req'[r].base <= row'[d].version
  <2>1. MovedOn(t)
    BY <1>7, StepEffect
  <2>2. CASE r = t
    <3>1. Exists(d) /\ req'[r].base = row[d].version
      BY <2>1, <2>2 DEF MovedOn
    <3> QED BY <1>3, <1>4, <3>1
  <2>3. CASE r # t
    BY <1>5, <2>1, <2>3 DEF MovedOn
  <2> QED BY <2>2, <2>3
<1>8. CASE Unattended
  BY <1>5, <1>8, UnattendedEffect
<1> QED BY <1>6, <1>7, <1>8, Steps

\* The documents stored beforehand have one version each.
LEMMA HistoryInit == Init => HistoryInv
<1> SUFFICES ASSUME NEW s \in [Existing -> InitStatus], NEW x \in [Existing -> Ext],
                    Init!(s, x)
             PROVE  HistoryInv
  BY DEF Init
<1> DEFINE first(d) == FirstRow(d, s[d], ObjectKey(d, 1, x[d]), d)
<1>1. \A d \in Existing : first(d).version = 1 /\ VersionOf(first(d)).version = 1
  BY DEF FirstRow, VersionOf
<1>2. \A d \in Existing : first(d) # NoRow
  <2> SUFFICES ASSUME NEW d \in Existing
               PROVE  first(d) # NoRow
    OBVIOUS
  <2>1. d \in Doc /\ d \in Content /\ s[d] \in Status /\ x[d] \in Ext
    BY ConstantsAssumption DEF Content
  <2>2. ObjectKey(d, 1, x[d]) \in Key
    BY <2>1, KeyType
  <2>3. first(d) \in Row
    BY <2>1, <2>2, FirstRowType
  <2> QED BY <2>3, ConstantsAssumption
<1>3. ASSUME NEW d \in Doc
      PROVE  \/ /\ d \in Existing /\ row[d] = first(d)
                /\ versions[d] = {VersionOf(first(d))}
             \/ ~Exists(d) /\ versions[d] = {}
  <2>1. CASE d \in Existing
    <3>1. row[d] = first(d) /\ versions[d] = {VersionOf(first(d))}
      BY <2>1
    <3> HIDE DEF first
    <3> QED BY <2>1, <3>1
  <2>2. CASE d \notin Existing
    BY <2>2 DEF Exists
  <2> QED BY <2>1, <2>2
<1>4. issued = Existing /\ \A r \in Req : pc[r] = "idle"
  OBVIOUS
<1>5. ASSUME NEW d \in Doc
      PROVE  /\ Exists(d) => /\ {v.version : v \in versions[d]} = 1..row[d].version
                             /\ VersionOf(row[d]) \in versions[d] /\ d \in issued
             /\ \A v, w \in versions[d] : v.version = w.version => v = w
             /\ ~Exists(d) => versions[d] = {}
  <2>1. CASE /\ d \in Existing /\ row[d] = first(d)
             /\ versions[d] = {VersionOf(first(d))}
    <3> HIDE DEF first
    <3>1. row[d].version = 1
      BY <1>1, <2>1
    <3>2. {v.version : v \in versions[d]} = {1}
      BY <1>1, <2>1
    <3>3. 1..1 = {1}
      OBVIOUS
    <3>4. {v.version : v \in versions[d]} = 1..row[d].version
      BY <3>1, <3>2, <3>3
    <3>5. VersionOf(row[d]) \in versions[d] /\ d \in issued
      BY <1>4, <2>1
    <3>6. Exists(d) /\ \A v, w \in versions[d] : v = w
      BY <1>2, <2>1 DEF Exists
    <3> QED BY <3>4, <3>5, <3>6
  <2>2. CASE ~Exists(d) /\ versions[d] = {}
    BY <2>2
  <2> QED BY <1>3, <2>1, <2>2
<1> QED BY <1>4, <1>5
        DEF HistoryInv, HistoryMatchesRow, IdsAreFresh, ReadsAreNotAhead, Drafting

\* However edits and rollbacks race, the versions of a document are numbered 1
\* to its current one, once each, and the row says what the current one says.
THEOREM HistoryAlwaysMatches == Spec => []HistoryMatchesRow
<1>1. TypeOK /\ HistoryInv /\ [Next]_vars => HistoryInv'
  BY HistoryNext, IdsNext, ReadsNext DEF HistoryInv
<1>2. HistoryInv => HistoryMatchesRow
  BY DEF HistoryInv
<1> QED BY <1>1, <1>2, HistoryInit, TypeCorrect, PTL DEF Spec

-----------------------------------------------------------------------------
(* Answers.  A request that is still to write carries content, which may be  *)
(* that of another: a rollback brings back what a version holds.  So the     *)
(* invariant must follow content as well as requests: what one request       *)
(* uploaded is in its document alone and, until that request has committed,  *)
(* nowhere else at all.                                                      *)

Carrying == {"put", "insert", "check", "commit"}

\* Content c, if some request uploaded it, is of document d.
AtHome(c, d) == c \in Req => pc[c] # "idle" /\ req[c].doc = d

ContentIsAtHome ==
  /\ \A d \in Doc : \A v \in versions[d] : AtHome(v.content, d)
  /\ \A r \in Req : pc[r] \in Carrying => AtHome(req[r].content, req[r].doc)

Unspread(r) ==
  /\ \A d \in Doc : \A v \in versions[d] : v.content # r
  /\ \A t \in Req \ {r} : pc[t] \in Carrying => req[t].content # r

Editing(r) == pc[r] # "idle" /\ req[r].op = "edit"

\* The three stages of an edit: on its way, committed, and answered otherwise.
Uncommitted(r) ==
  pc[r] \in {"put", "check", "commit"} =>
    /\ req[r].content = r /\ Unspread(r)
    /\ pc[r] = "commit" => req[r].base = req[r].expected

Recorded(r) ==
  pc[r] \in {"job", "send", "ok"} /\ Exists(req[r].doc) =>
    \E v \in versions[req[r].doc] : v.version = req[r].expected + 1 /\ v.content = r

Dismissed(r) ==
  pc[r] \in {"stale", "refused", "failed"} => Unspread(r) \/ ~Exists(req[r].doc)

EditPath == {"put", "check", "commit", "job", "send"} \cup Answered

EditsInv ==
  \A r \in Req : Editing(r) =>
    pc[r] \in EditPath /\ Uncommitted(r) /\ Recorded(r) /\ Dismissed(r)

AnswersInv == ContentIsAtHome /\ EditsInv

\* A request starts with content of its own or with that of a version it read.
LEMMA StartCarries ==
  ASSUME TypeOK, NEW r \in Req, NEW d \in Doc, Starts(r, d) \/ Restore(r, d)
  PROVE  /\ pc'[r] \in Carrying =>
              req'[r].content = r \/ \E v \in versions[d] : req'[r].content = v.content
         /\ req'[r].op = "edit" => pc'[r] = "put" /\ req'[r].content = r
<1> USE DEF Begin, Goto, TypeOK, Carrying
<1>1. ASSUME NEW x \in Ext, CreateStart(r, d, x)
      PROVE  pc'[r] = "put" /\ req'[r].content = r
  BY <1>1 DEF CreateStart
<1>2. ASSUME NEW x \in Ext, NEW e \in Expectable(d), EditStart(r, d, x, e)
      PROVE  pc'[r] = "put" /\ req'[r].content = r
  BY <1>2 DEF EditStart, Reading
<1>3. ASSUME NEW v \in versions[d], RollbackStart(r, d, v)
      PROVE  req'[r].content = v.content /\ req'[r].op = "rollback"
  BY <1>3 DEF RollbackStart, Reading
<1>4. ASSUME NEW s \in Status, TransitionStart(r, d, s)
      PROVE  pc'[r] = "set" /\ req'[r].op = "transition"
  BY <1>4 DEF TransitionStart, Reading
<1>5. CASE TrashStart(r, d)
  BY <1>5 DEF TrashStart, Reading
<1>6. CASE ReindexStart(r, d)
  BY <1>6 DEF ReindexStart, Reading
<1>7. CASE Restore(r, d)
  <2>1. PICK s, l : Begin(r, [Reading("restore", d) EXCEPT !.status = s], l) /\ l \in {"job", "ok"}
    BY <1>7 DEF Restore
  <2> QED BY <2>1 DEF Reading
<1> QED BY <1>1, <1>2, <1>3, <1>4, <1>5, <1>6, <1>7 DEF Starts

\* A step of a request never changes what it carries, and moves an edit on.
LEMMA StepCarries ==
  ASSUME TypeOK, NEW r \in Req, RequestStep(r) \/ Crash(r)
  PROVE  /\ pc'[r] \in Carrying => pc[r] \in Carrying /\ req'[r].content = req[r].content
         /\ req'[r].expected = req[r].expected
         /\ pc'[r] = "commit" => req'[r].base = req'[r].expected
         /\ req[r].op = "edit" /\ pc[r] \in EditPath =>
              /\ pc'[r] \in EditPath
              /\ pc'[r] \in {"put", "check", "commit"} => pc[r] \in {"put", "check"}
              /\ pc'[r] \in {"job", "send", "ok"} =>
                   pc[r] \in {"job", "send"} \/ (Commit(r) /\ versions' # versions)
              /\ pc'[r] \in {"stale", "refused", "failed"} =>
                   /\ UNCHANGED <<row, versions>>
                   /\ pc[r] \in {"check", "commit"} \/ ~Exists(req[r].doc)
<1> USE DEF Goto, TypeOK, Carrying, EditPath, Answered, tables
<1>0. req[r] \in Request \/ pc[r] = "idle"
  OBVIOUS
<1>1. CASE Put(r)
  BY <1>1 DEF Put
<1>2. CASE CreateInsert(r)
  BY <1>2 DEF CreateInsert
<1>3. CASE EditCheck(r)
  BY <1>0, <1>3 DEF EditCheck, ExpectationHolds, Request
<1>4. CASE Commit(r)
  <2>1. CASE ~CanInsertVersion(req[r].doc, req[r].base + 1)
    BY <1>4, <2>1 DEF Commit
  <2>2. CASE CanInsertVersion(req[r].doc, req[r].base + 1)
    <3> DEFINE u == [version |-> req[r].base + 1, key |-> req[r].key,
                     content |-> req[r].content]
    <3>1. req[r].doc \in Doc
      BY <1>0, <1>4 DEF Commit, Request
    <3>2. u \in versions'[req[r].doc]
      BY <1>4, <2>2, <3>1 DEF Commit
    <3>3. u \notin versions[req[r].doc]
      BY <2>2 DEF CanInsertVersion
    <3>4. pc'[r] \in {"get", "job", "ok"} /\ (req[r].op = "edit" => pc'[r] \in {"job", "ok"})
      BY <1>4, <2>2 DEF Commit
    <3> QED BY <1>4, <3>2, <3>3, <3>4 DEF Commit
  <2> QED BY <2>1, <2>2
<1>5. CASE SetStatus(r)
  BY <1>5 DEF SetStatus
<1>6. CASE MetadataGet(r)
  BY <1>0, <1>6 DEF MetadataGet, AfterMetadata, Request
<1>7. CASE MetadataPut(r)
  BY <1>7 DEF MetadataPut, AfterMetadata
<1>8. CASE TrashCommit(r)
  BY <1>8 DEF TrashCommit
<1>9. CASE JobCreate(r)
  BY <1>9 DEF JobCreate
<1>10. CASE JobSend(r)
  BY <1>10 DEF JobSend
<1>11. CASE ExplainUnset(r) \/ ReadUpdated(r)
  BY <1>11 DEF ExplainUnset, ReadUpdated
<1>12. CASE Crash(r)
  BY <1>12 DEF Crash, InFlight
<1> QED BY <1>1, <1>2, <1>3, <1>4, <1>5, <1>6, <1>7, <1>8, <1>9, <1>10, <1>11, <1>12
        DEF RequestStep

\* A version that is new was carried by the request that writes it, which then
\* carries it no longer.
LEMMA VersionsAreCarried ==
  ASSUME TypeOK, [Next]_vars, NEW d \in Doc, NEW v \in versions'[d], v \notin versions[d]
  PROVE  \E r \in Req : /\ pc[r] \in Carrying /\ pc'[r] \in {"get", "job", "ok"}
                        /\ req[r].doc = d /\ v.key = req[r].key
                        /\ v.content = req[r].content
<1>1. ASSUME NEW r \in Req, CreateInsert(r)
      PROVE  /\ pc[r] \in Carrying /\ pc'[r] \in {"get", "job", "ok"}
             /\ req[r].doc = d /\ v.key = req[r].key
             /\ v.content = req[r].content
  <2>1. versions' # versions
    OBVIOUS
  <2> DEFINE w == FirstRow(req[r].doc, "draft", req[r].key, req[r].content)
  <2>2. versions' = [versions EXCEPT ![req[r].doc] = {VersionOf(w)}] /\ pc'[r] = "ok"
    BY <1>1, <2>1 DEF CreateInsert, Goto, TypeOK
  <2>3. VersionOf(w).content = req[r].content /\ VersionOf(w).key = req[r].key
    BY DEF VersionOf, FirstRow
  <2> HIDE DEF w
  <2> QED BY <1>1, <2>2, <2>3 DEF CreateInsert, Carrying, TypeOK
<1>2. ASSUME NEW r \in Req, Commit(r)
      PROVE  /\ pc[r] \in Carrying /\ pc'[r] \in {"get", "job", "ok"}
             /\ req[r].doc = d /\ v.key = req[r].key
             /\ v.content = req[r].content
  <2>1. versions' # versions
    OBVIOUS
  <2> DEFINE u == [version |-> req[r].base + 1, key |-> req[r].key,
                   content |-> req[r].content]
  <2>2. versions' = [versions EXCEPT ![req[r].doc] = versions[req[r].doc] \cup {u}]
    BY <1>2, <2>1, CommitEffect
  <2>3. pc'[r] \in {"get", "job", "ok"}
    BY <1>2, <2>1 DEF Commit, Goto, TypeOK
  <2> QED BY <1>2, <2>2, <2>3 DEF Commit, Carrying, TypeOK
<1>3. ~(\/ UNCHANGED <<row, versions>> \/ PurgeRow
        \/ \E r \in Req : SetStatus(r) \/ TrashCommit(r)
        \/ \E r \in Req, e \in Doc : Restore(r, e)
        \/ \E e \in Doc : RetentionElapses(e))
  BY DEF PurgeRow, SetStatus, TrashCommit, Restore, RetentionElapses, TypeOK
<1> QED BY <1>1, <1>2, <1>3, Writers

\* A document that stays keeps its versions.
LEMMA VersionsStay ==
  ASSUME TypeOK, IdsAreFresh, [Next]_vars, NEW d \in Doc, Exists(d), Exists(d)'
  PROVE  versions[d] \subseteq versions'[d]
<1>1. ASSUME NEW r \in Req, CreateInsert(r) PROVE versions[d] \subseteq versions'[d]
  BY <1>1 DEF CreateInsert, IdsAreFresh, Drafting, TypeOK
<1>2. ASSUME NEW r \in Req, Commit(r) PROVE versions[d] \subseteq versions'[d]
  BY <1>2 DEF Commit, TypeOK
<1>3. CASE \/ UNCHANGED <<row, versions>> \/ PurgeRow
           \/ (\E r \in Req : SetStatus(r) \/ TrashCommit(r))
           \/ (\E r \in Req, e \in Doc : Restore(r, e)) \/ (\E e \in Doc : RetentionElapses(e))
  BY <1>3 DEF PurgeRow, SetStatus, TrashCommit, Restore, RetentionElapses, TypeOK, Exists
<1> QED BY <1>1, <1>2, <1>3, Writers

\* No document comes back under the id of one that is gone.
LEMMA GoneStaysGone ==
  ASSUME TypeOK, IdsAreFresh, [Next]_vars, NEW d \in Doc, ~Exists(d),
         NEW r \in Req, pc[r] \notin {"idle", "put", "insert"}, req[r].doc = d
  PROVE  ~Exists(d)'
<1> SUFFICES ASSUME Exists(d)' PROVE FALSE
  OBVIOUS
<1>1. PICK t \in Req : CreateInsert(t) /\ req[t].doc = d
  BY Births
<1>2. Drafting(t) /\ t # r
  BY <1>1 DEF CreateInsert, IdsAreFresh, Drafting
<1> QED BY <1>1, <1>2 DEF IdsAreFresh

\* A request that has started keeps the document it is about.
LEMMA RequestsKeepTheirDocument ==
  ASSUME TypeOK, [Next]_vars, NEW r \in Req, pc[r] # "idle"
  PROVE  pc'[r] # "idle" /\ req'[r].doc = req[r].doc
<1>1. ASSUME NEW t \in Req, NEW d \in Doc, Starts(t, d) \/ Restore(t, d)
      PROVE  pc'[r] # "idle" /\ req'[r].doc = req[r].doc
  BY <1>1, StartEffect DEF Started
<1>2. ASSUME NEW t \in Req, RequestStep(t) \/ Crash(t)
      PROVE  pc'[r] # "idle" /\ req'[r].doc = req[r].doc
  BY <1>2, StepEffect DEF MovedOn
<1>3. CASE Unattended
  BY <1>3, UnattendedEffect
<1> QED BY <1>1, <1>2, <1>3, Steps

\* Content stays with the document of the request that uploaded it.
LEMMA HomeNext ==
  ASSUME TypeOK, ContentIsAtHome, [Next]_vars
  PROVE  ContentIsAtHome'
<1>1. ASSUME NEW c, NEW d, AtHome(c, d) PROVE AtHome(c, d)'
  BY <1>1, RequestsKeepTheirDocument DEF AtHome
<1>2. ASSUME NEW d \in Doc, NEW v \in versions'[d] PROVE AtHome(v.content, d)'
  <2>1. AtHome(v.content, d)
    BY VersionsAreCarried DEF ContentIsAtHome
  <2> QED BY <1>1, <2>1
<1>3. ASSUME NEW r \in Req, pc'[r] \in Carrying PROVE AtHome(req[r].content, req[r].doc)'
  <2>1. CASE pc'[r] = pc[r] /\ req'[r] = req[r]
    BY <1>1, <1>3, <2>1 DEF ContentIsAtHome
  <2>2. ASSUME NEW t \in Req, NEW d \in Doc, Starts(t, d) \/ Restore(t, d)
        PROVE  AtHome(req[r].content, req[r].doc)'
    <3>1. CASE r # t
      BY <2>1, <2>2, <3>1, StartEffect DEF Started
    <3>2. CASE r = t /\ req'[r].content = r
      BY <1>3, <3>2 DEF AtHome, Carrying
    <3>3. ASSUME r = t, NEW v \in versions[d], req'[r].content = v.content
          PROVE  AtHome(req[r].content, req[r].doc)'
      <4>1. AtHome(v.content, d)' /\ req'[r].doc = d
        BY <1>1, <2>2, <3>3, StartEffect DEF ContentIsAtHome, Started
      <4> QED BY <3>3, <4>1
    <3> QED BY <1>3, <2>2, <3>1, <3>2, <3>3, StartCarries
  <2>3. ASSUME NEW t \in Req, RequestStep(t) \/ Crash(t)
        PROVE  AtHome(req[r].content, req[r].doc)'
    <3>1. CASE r # t
      BY <2>1, <2>3, <3>1, StepEffect DEF MovedOn
    <3>2. CASE r = t
      <4>1. /\ pc[r] \in Carrying /\ req'[r].content = req[r].content
            /\ req'[r].doc = req[r].doc
        BY <1>3, <2>3, <3>2, StepCarries, StepEffect DEF MovedOn
      <4>2. AtHome(req[r].content, req[r].doc)'
        BY <1>1, <4>1 DEF ContentIsAtHome
      <4> QED BY <4>1, <4>2
    <3> QED BY <3>1, <3>2
  <2>4. CASE Unattended
    BY <2>1, <2>4, UnattendedEffect
  <2> QED BY <2>2, <2>3, <2>4, Steps
<1> QED BY <1>2, <1>3 DEF ContentIsAtHome

\* What a request uploaded spreads only by its own commit.
LEMMA UnspreadNext ==
  ASSUME TypeOK, [Next]_vars, NEW r \in Req, Unspread(r),
         pc'[r] = pc[r] \/ pc'[r] \notin {"get", "job", "ok"}, pc[r] \notin {"get", "job", "ok"}
  PROVE  Unspread(r)'
<1>1. ASSUME NEW d \in Doc, NEW v \in versions'[d] PROVE v.content # r
  BY VersionsAreCarried DEF Unspread
<1>2. ASSUME NEW t \in Req \ {r}, pc'[t] \in Carrying PROVE req'[t].content # r
  <2>1. CASE pc'[t] = pc[t] /\ req'[t] = req[t]
    BY <1>2, <2>1 DEF Unspread
  <2>2. ASSUME NEW u \in Req, NEW d \in Doc, Starts(u, d) \/ Restore(u, d)
        PROVE  req'[t].content # r
    BY <1>2, <2>1, <2>2, StartEffect, StartCarries DEF Started, Unspread
  <2>3. ASSUME NEW u \in Req, RequestStep(u) \/ Crash(u)
        PROVE  req'[t].content # r
    BY <1>2, <2>1, <2>3, StepEffect, StepCarries DEF MovedOn, Unspread
  <2>4. CASE Unattended
    BY <2>1, <2>4, UnattendedEffect
  <2> QED BY <2>2, <2>3, <2>4, Steps
<1> QED BY <1>1, <1>2 DEF Unspread

\* An edit that nothing touches stays as it is, whatever the others do.
LEMMA EditStands ==
  ASSUME TypeOK, HistoryInv, AnswersInv, [Next]_vars,
         NEW r \in Req, Editing(r), pc'[r] = pc[r], req'[r] = req[r]
  PROVE  pc'[r] \in EditPath /\ Uncommitted(r)' /\ Recorded(r)' /\ Dismissed(r)'
<1>0. PICK d \in Doc : d = req[r].doc
  BY DEF Editing, TypeOK, Request
<1>1. pc[r] \in EditPath /\ Uncommitted(r) /\ Recorded(r) /\ Dismissed(r)
  BY DEF AnswersInv, EditsInv
<1>2. ASSUME Unspread(r), pc[r] \notin {"get", "job", "ok"} PROVE Unspread(r)'
  BY <1>2, UnspreadNext
<1>3. Uncommitted(r)'
  BY <1>1, <1>2 DEF Uncommitted
<1>4. ASSUME ~Exists(d), pc[r] \notin {"idle", "put", "insert"} PROVE ~Exists(d)'
  BY <1>0, <1>4, GoneStaysGone DEF HistoryInv
<1>5. ASSUME Exists(d), Exists(d)' PROVE versions[d] \subseteq versions'[d]
  BY <1>5, VersionsStay DEF HistoryInv
<1>6. Recorded(r)'
  <2> SUFFICES ASSUME pc[r] \in {"job", "send", "ok"}, Exists(d)'
               PROVE  \E v \in versions'[d] : v.version = req[r].expected + 1 /\ v.content = r
    BY <1>0 DEF Recorded, Exists
  <2>1. Exists(d) /\ versions[d] \subseteq versions'[d]
    BY <1>4, <1>5
  <2> QED BY <1>0, <1>1, <2>1 DEF Recorded
<1>7. Dismissed(r)'
  <2> SUFFICES ASSUME pc[r] \in {"stale", "refused", "failed"}
               PROVE  Unspread(r)' \/ ~Exists(d)'
    BY <1>0 DEF Dismissed, Exists
  <2>1. Unspread(r) \/ ~Exists(d)
    BY <1>0, <1>1 DEF Dismissed
  <2> QED BY <1>2, <1>4, <2>1
<1> QED BY <1>1, <1>3, <1>6, <1>7

\* An edit that starts has spread nothing.
LEMMA EditBegins ==
  ASSUME TypeOK, AnswersInv, [Next]_vars, NEW r \in Req, NEW d \in Doc,
         Starts(r, d) \/ Restore(r, d), Editing(r)'
  PROVE  pc'[r] \in EditPath /\ Uncommitted(r)' /\ Recorded(r)' /\ Dismissed(r)'
<1>1. pc'[r] = "put" /\ req'[r].content = r
  BY StartCarries DEF Editing
<1>2. Unspread(r)
  <2>1. pc[r] = "idle"
    BY StartEffect DEF Started
  <2> QED BY <2>1 DEF AnswersInv, ContentIsAtHome, AtHome, Unspread, TypeOK
<1>3. Unspread(r)'
  <2>1. pc[r] = "idle"
    BY StartEffect DEF Started
  <2> QED BY <1>1, <1>2, <2>1, UnspreadNext
<1> QED BY <1>1, <1>3 DEF Uncommitted, Recorded, Dismissed, EditPath

\* An edit that goes on is committed as what its caller asked for, or is not.
LEMMA EditMoves ==
  ASSUME TypeOK, HistoryInv, AnswersInv, [Next]_vars, NEW r \in Req,
         RequestStep(r) \/ Crash(r), Editing(r)'
  PROVE  pc'[r] \in EditPath /\ Uncommitted(r)' /\ Recorded(r)' /\ Dismissed(r)'
<1>0. Editing(r) /\ req'[r].doc = req[r].doc /\ req'[r].expected = req[r].expected
  BY StepEffect, StepCarries DEF MovedOn, Editing
<1>1. PICK d \in Doc : d = req[r].doc /\ d = req'[r].doc
  BY <1>0 DEF Editing, TypeOK, Request
<1>2. pc[r] \in EditPath /\ Uncommitted(r) /\ Recorded(r) /\ Dismissed(r)
  BY <1>0 DEF AnswersInv, EditsInv
<1>3. /\ pc'[r] \in EditPath
      /\ pc'[r] \in {"put", "check", "commit"} => pc[r] \in {"put", "check"}
      /\ pc'[r] \in {"job", "send", "ok"} =>
           pc[r] \in {"job", "send"} \/ (Commit(r) /\ versions' # versions)
      /\ pc'[r] \in {"stale", "refused", "failed"} =>
           /\ UNCHANGED <<row, versions>>
           /\ pc[r] \in {"check", "commit"} \/ ~Exists(d)
  BY <1>0, <1>1, <1>2, StepCarries DEF Editing
<1>4. Uncommitted(r)'
  <2> SUFFICES ASSUME pc'[r] \in {"put", "check", "commit"}
               PROVE  /\ req'[r].content = r /\ Unspread(r)'
                      /\ pc'[r] = "commit" => req'[r].base = req'[r].expected
    BY DEF Uncommitted
  <2>1. req[r].content = r /\ Unspread(r)
    BY <1>2, <1>3 DEF Uncommitted
  <2>2. Unspread(r)'
    BY <1>3, <2>1, UnspreadNext
  <2> QED BY <2>1, <2>2, StepCarries DEF Carrying
<1>5. Recorded(r)'
  <2> SUFFICES ASSUME pc'[r] \in {"job", "send", "ok"}, Exists(d)'
               PROVE  \E v \in versions'[d] : v.version = req[r].expected + 1 /\ v.content = r
    BY <1>0, <1>1 DEF Recorded, Exists
  <2>1. CASE pc[r] \in {"job", "send"}
    <3>1. Exists(d)
      BY <1>1, <2>1, GoneStaysGone DEF HistoryInv
    <3>2. versions[d] \subseteq versions'[d]
      BY <3>1, VersionsStay DEF HistoryInv
    <3> QED BY <1>1, <1>2, <2>1, <3>1, <3>2 DEF Recorded
  <2>2. CASE Commit(r) /\ versions' # versions
    <3> DEFINE u == [version |-> req[r].base + 1, key |-> req[r].key,
                     content |-> req[r].content]
    <3>1. versions' = [versions EXCEPT ![d] = versions[d] \cup {u}]
      BY <1>1, <2>2, CommitEffect
    <3>2. pc[r] = "commit" /\ u.content = r /\ u.version = req[r].expected + 1
      BY <1>2, <2>2 DEF Commit, Uncommitted
    <3> HIDE DEF u
    <3> QED BY <1>2, <3>1, <3>2 DEF TypeOK
  <2> QED BY <1>3, <2>1, <2>2
<1>6. Dismissed(r)'
  <2> SUFFICES ASSUME pc'[r] \in {"stale", "refused", "failed"}
               PROVE  Unspread(r)' \/ row'[d] = NoRow
    BY <1>1 DEF Dismissed, Exists
  <2>1. CASE pc[r] \in {"check", "commit"}
    BY <1>2, <2>1, UnspreadNext DEF Uncommitted
  <2>2. CASE ~Exists(d)
    BY <1>3, <2>2 DEF Exists
  <2> QED BY <1>3, <2>1, <2>2
<1> QED BY <1>3, <1>4, <1>5, <1>6

\* Every step keeps every edit's account of itself.
LEMMA EditsNext ==
  ASSUME TypeOK, HistoryInv, AnswersInv, [Next]_vars
  PROVE  EditsInv'
<1> SUFFICES ASSUME NEW r \in Req, Editing(r)'
             PROVE  pc'[r] \in EditPath /\ Uncommitted(r)' /\ Recorded(r)' /\ Dismissed(r)'
  BY DEF EditsInv
<1>1. ASSUME pc'[r] = pc[r], req'[r] = req[r]
      PROVE  pc'[r] \in EditPath /\ Uncommitted(r)' /\ Recorded(r)' /\ Dismissed(r)'
  <2>1. Editing(r)
    BY <1>1 DEF Editing
  <2> QED BY <1>1, <2>1, EditStands
<1>2. ASSUME NEW t \in Req, NEW d \in Doc, Starts(t, d) \/ Restore(t, d)
      PROVE  pc'[r] \in EditPath /\ Uncommitted(r)' /\ Recorded(r)' /\ Dismissed(r)'
  <2>1. CASE t = r
    BY <1>2, <2>1, EditBegins
  <2>2. CASE t # r
    BY <1>1, <1>2, <2>2, StartEffect DEF Started
  <2> QED BY <2>1, <2>2
<1>3. ASSUME NEW t \in Req, RequestStep(t) \/ Crash(t)
      PROVE  pc'[r] \in EditPath /\ Uncommitted(r)' /\ Recorded(r)' /\ Dismissed(r)'
  <2>1. CASE t = r
    BY <1>3, <2>1, EditMoves
  <2>2. CASE t # r
    BY <1>1, <1>3, <2>2, StepEffect DEF MovedOn
  <2> QED BY <2>1, <2>2
<1>4. CASE Unattended
  BY <1>1, <1>4, UnattendedEffect
<1> QED BY <1>2, <1>3, <1>4, Steps

\* Nobody has uploaded anything yet.
LEMMA AnswersInit == Init => AnswersInv
<1> SUFFICES ASSUME NEW s \in [Existing -> InitStatus], NEW x \in [Existing -> Ext],
                    Init!(s, x)
             PROVE  AnswersInv
  BY DEF Init
<1> DEFINE first(d) == FirstRow(d, s[d], ObjectKey(d, 1, x[d]), d)
<1>1. \A d \in Existing : VersionOf(first(d)).content = d /\ d \notin Req
  BY ConstantsAssumption DEF FirstRow, VersionOf
<1>2. versions = [d \in Doc |-> IF d \in Existing THEN {VersionOf(first(d))} ELSE {}]
  OBVIOUS
<1> HIDE DEF first
<1>3. ASSUME NEW d \in Doc, NEW v \in versions[d] PROVE v.content \notin Req
  <2>1. d \in Existing /\ v = VersionOf(first(d))
    BY <1>2
  <2> QED BY <1>1, <2>1
<1> QED BY <1>3 DEF AnswersInv, ContentIsAtHome, AtHome, EditsInv, Editing, Carrying

\* With it, answers are true.
LEMMA AnswersFollow == TypeOK /\ HistoryInv /\ AnswersInv => AnswersAreTrue
<1> SUFFICES ASSUME TypeOK, HistoryMatchesRow, ContentIsAtHome, EditsInv,
                    NEW r \in Req, Editing(r)
             PROVE  /\ pc[r] \in {"job", "send", "ok"} /\ Exists(req[r].doc) =>
                         \E v \in versions[req[r].doc] :
                            v.version = req[r].expected + 1 /\ v.content = r
                    /\ pc[r] \in {"stale", "refused", "failed"} =>
                         \A d \in Doc : \A v \in versions[d] : v.content # r
  BY DEF AnswersAreTrue, HistoryInv, AnswersInv, Editing
<1>1. Recorded(r) /\ Dismissed(r)
  BY DEF EditsInv
<1>2. ASSUME ~Exists(req[r].doc), NEW d \in Doc, NEW v \in versions[d] PROVE v.content # r
  BY <1>2 DEF ContentIsAtHome, AtHome, HistoryMatchesRow
<1> QED BY <1>1, <1>2 DEF Recorded, Dismissed, Unspread

\* An edit answered ok is the version right after the one it edited, and bytes
\* that were refused are in nobody's history (documents.repository.ts,
\* createNewVersion).
THEOREM AnswersTrue == Spec => []AnswersAreTrue
<1>1. TypeOK /\ HistoryInv /\ AnswersInv /\ [Next]_vars => HistoryInv' /\ AnswersInv'
  BY HistoryNext, IdsNext, ReadsNext, HomeNext, EditsNext DEF HistoryInv, AnswersInv
<1> QED BY <1>1, AnswersFollow, HistoryInit, AnswersInit, TypeCorrect, PTL DEF Spec

-----------------------------------------------------------------------------
(* The refinement.  The view of a document in DocumentLife is LifeOf(d),     *)
(* StatusOf(d) and HistoryOf(d); a step changes the view of one document, in *)
(* one of the seven ways of DocumentLife, or of none.                        *)

\* What HistoryOf returns of a document that is there: a sequence with one entry
\* for each version.
HistoryReads(d) ==
  Exists(d) =>
    /\ row[d].version \in Nat /\ row[d].version >= 1
    /\ HistoryOf(d) \in [1..row[d].version -> Content]
    /\ \A v \in versions[d] : /\ v.version \in 1..row[d].version
                              /\ HistoryOf(d)[v.version] = v.content
    /\ \A n \in 1..row[d].version : \E v \in versions[d] : v.version = n

\* A history has the content of each version at its number.
LEMMA HistoryIsRead ==
  TypeOK /\ HistoryMatchesRow => \A d \in Doc : HistoryReads(d)
<1> SUFFICES ASSUME TypeOK, HistoryMatchesRow, NEW d \in Doc, Exists(d)
             PROVE  HistoryReads(d)
  BY DEF HistoryReads
<1>1. /\ row[d].version \in Nat /\ row[d].version >= 1
      /\ versions[d] \subseteq VersionRow
      /\ {v.version : v \in versions[d]} = 1..row[d].version
      /\ \A v, w \in versions[d] : v.version = w.version => v = w
  BY DEF TypeOK, Exists, Row, HistoryMatchesRow
<1>2. \A n \in 1..row[d].version : \E v \in versions[d] : v.version = n
  BY <1>1
<1>3. ASSUME NEW v \in versions[d] PROVE ContentAt(d, v.version) = v.content
  <2>1. (CHOOSE w \in versions[d] : w.version = v.version) = v
    BY <1>1
  <2> QED BY <2>1 DEF ContentAt
<1>4. HistoryOf(d) = [n \in 1..row[d].version |-> ContentAt(d, n)]
  BY DEF HistoryOf
<1>5. \A n \in 1..row[d].version : ContentAt(d, n) \in Content
  BY <1>1, <1>2, <1>3 DEF VersionRow
<1>6. \A v \in versions[d] : v.version \in 1..row[d].version
  BY <1>1
<1> QED BY <1>1, <1>2, <1>3, <1>4, <1>5, <1>6 DEF HistoryReads

\* The same after a step.
LEMMA HistoryIsReadNext ==
  (TypeOK /\ HistoryMatchesRow)' => \A d \in Doc : HistoryReads(d)'
<1>1. (TypeOK /\ HistoryMatchesRow => \A d \in Doc : HistoryReads(d))'
  BY HistoryIsRead, PTL
<1> QED BY <1>1

\* A sequence is another with one entry more.
LEMMA OneMore ==
  ASSUME NEW S, NEW n \in Nat, NEW h \in [1..n -> S], NEW c \in S,
         NEW g \in [1..(n + 1) -> S], \A k \in 1..n : g[k] = h[k], g[n + 1] = c
  PROVE  g = Append(h, c)
<1>1. h \in Seq(S) /\ Len(h) = n
  OBVIOUS
<1> DEFINE a == Append(h, c)
<1>2. a \in Seq(S)
  BY <1>1
<1>3. Len(a) = n + 1
  BY <1>1
<1>4. \A k \in 1..n : a[k] = h[k]
  BY <1>1
<1>5. a[n + 1] = c
  BY <1>1
<1> HIDE DEF a
<1>6. a \in [1..(n + 1) -> S]
  BY <1>2, <1>3
<1>7. \A k \in 1..(n + 1) : a[k] = g[k]
  BY <1>4, <1>5
<1>8. a = g
  BY <1>6, <1>7
<1> QED BY <1>8 DEF a

\* The contents of a history are those of the versions.
LEMMA ContentsAre ==
  ASSUME TypeOK, HistoryMatchesRow, NEW d \in Doc
  PROVE  Life!Contents(d) = {v.content : v \in versions[d]}
<1>1. Life!Contents(d) = {HistoryOf(d)[n] : n \in 1..Len(HistoryOf(d))}
  BY DEF Life!Contents
<1>2. CASE ~Exists(d)
  <2>1. HistoryOf(d) = <<>> /\ versions[d] = {}
    BY <1>2 DEF HistoryOf, HistoryMatchesRow
  <2> QED BY <1>1, <2>1
<1>3. CASE Exists(d)
  <2>1. HistoryReads(d)
    BY HistoryIsRead
  <2>2. PICK k \in Nat : k = row[d].version
    BY <1>3, <2>1 DEF HistoryReads
  <2>3. Len(HistoryOf(d)) = k
    BY <1>3, <2>1, <2>2 DEF HistoryReads
  <2> QED BY <1>1, <1>3, <2>1, <2>2, <2>3 DEF HistoryReads
<1> QED BY <1>2, <1>3

\* A step that adds no version leaves a history as it was.
LEMMA HistoryStays ==
  ASSUME TypeOK, HistoryMatchesRow, (TypeOK /\ HistoryMatchesRow)', NEW d \in Doc,
         row'[d].version = row[d].version, versions'[d] = versions[d], Exists(d) <=> Exists(d)'
  PROVE  HistoryOf(d)' = HistoryOf(d)
<1>1. CASE ~Exists(d)
  BY <1>1 DEF HistoryOf
<1>2. CASE Exists(d)
  <2>1. HistoryReads(d) /\ HistoryReads(d)'
    BY HistoryIsRead, HistoryIsReadNext
  <2>2. PICK k \in Nat : k = row[d].version
    BY <1>2, <2>1 DEF HistoryReads
  <2> DEFINE g == HistoryOf(d)'
             h == HistoryOf(d)
  <2>3. /\ g \in [1..k -> Content] /\ h \in [1..k -> Content]
        /\ \A v \in versions[d] : g[v.version] = v.content /\ h[v.version] = v.content
        /\ \A n \in 1..k : \E v \in versions[d] : v.version = n
    BY <1>2, <2>1, <2>2 DEF HistoryReads
  <2> HIDE DEF g, h
  <2>4. \A n \in 1..k : g[n] = h[n]
    BY <2>3
  <2>5. g = h
    BY <2>3, <2>4
  <2> QED BY <2>5 DEF g, h
<1> QED BY <1>1, <1>2

\* All other documents look as they did.
OthersKeep(d) ==
  \A e \in Doc \ {d} : /\ LifeOf(e)' = LifeOf(e) /\ StatusOf(e)' = StatusOf(e)
                       /\ HistoryOf(e)' = HistoryOf(e)

\* They do when a step leaves their row, their versions and their window alone.
LEMMA OthersStay ==
  ASSUME TypeOK, HistoryMatchesRow, (TypeOK /\ HistoryMatchesRow)', NEW d \in Doc,
         \A e \in Doc \ {d} : /\ row'[e] = row[e] /\ versions'[e] = versions[e]
                              /\ e \in lapsed' <=> e \in lapsed
  PROVE  OthersKeep(d)
<1> SUFFICES ASSUME NEW e \in Doc \ {d}
             PROVE  /\ LifeOf(e)' = LifeOf(e) /\ StatusOf(e)' = StatusOf(e)
                    /\ HistoryOf(e)' = HistoryOf(e)
  BY DEF OthersKeep
<1>1. Exists(e) <=> Exists(e)'
  BY DEF Exists
<1>2. LifeOf(e)' = LifeOf(e)
  BY DEF LifeOf, Kept, InTrash, Exists
<1>3. StatusOf(e)' = StatusOf(e)
  BY DEF StatusOf, InTrash, Exists
<1> QED BY <1>1, <1>2, <1>3, HistoryStays

\* A document appears.
LEMMA MapCreate ==
  ASSUME NEW d \in Doc, OthersKeep(d), UNCHANGED lapsed,
         LifeOf(d) = "unborn", LifeOf(d)' = "kept", StatusOf(d)' = StatusOf(d),
         NEW c \in Content, Life!Unused(c), HistoryOf(d)' = <<c>>
  PROVE  Life!Next
<1>1. Life!Create(d)
  BY DEF Life!Create, OthersKeep
<1> QED BY <1>1 DEF Life!Next

\* A version is added.
LEMMA MapRevise ==
  ASSUME NEW d \in Doc, OthersKeep(d), UNCHANGED lapsed,
         LifeOf(d) \in {"kept", "trash"}, LifeOf(d)' = LifeOf(d), StatusOf(d)' = StatusOf(d),
         NEW c \in Content, Life!Unused(c) \/ c \in Life!Contents(d),
         HistoryOf(d)' = Append(HistoryOf(d), c)
  PROVE  Life!Next
<1>1. Life!Revise(d)
  BY DEF Life!Revise, Life!Live, OthersKeep
<1> QED BY <1>1 DEF Life!Next

\* The status changes, of a document that is not in the trash.
LEMMA MapMove ==
  ASSUME NEW d \in Doc, OthersKeep(d), UNCHANGED lapsed,
         LifeOf(d) = "kept", LifeOf(d)' = "kept", StatusOf(d)' \in Status,
         HistoryOf(d)' = HistoryOf(d)
  PROVE  Life!Next
<1>1. Life!Move(d)
  BY DEF Life!Move, OthersKeep
<1> QED BY <1>1 DEF Life!Next

\* A document goes to the trash, or comes back, with its status.
LEMMA MapTrashRestore ==
  ASSUME NEW d \in Doc, OthersKeep(d), UNCHANGED lapsed,
         \/ LifeOf(d) = "kept" /\ LifeOf(d)' = "trash"
         \/ LifeOf(d) = "trash" /\ LifeOf(d)' = "kept",
         StatusOf(d)' = StatusOf(d), HistoryOf(d)' = HistoryOf(d)
  PROVE  Life!Next
<1>1. Life!Trash(d) \/ Life!Restore(d)
  BY DEF Life!Trash, Life!Restore, OthersKeep
<1> QED BY <1>1 DEF Life!Next

\* The window of a document in the trash closes.
LEMMA MapLapse ==
  ASSUME NEW d \in Doc, OthersKeep(d), lapsed' = lapsed \cup {d},
         LifeOf(d) = "trash", LifeOf(d)' = "trash",
         StatusOf(d)' = StatusOf(d), HistoryOf(d)' = HistoryOf(d)
  PROVE  Life!Next
<1>1. Life!Lapse(d)
  BY DEF Life!Lapse, OthersKeep
<1> QED BY <1>1 DEF Life!Next

\* A document whose window has closed is removed.
LEMMA MapPurge ==
  ASSUME NEW d \in Doc, OthersKeep(d), UNCHANGED lapsed, d \in lapsed,
         LifeOf(d) \in {"kept", "trash"}, LifeOf(d)' = "gone",
         StatusOf(d)' \in Status, HistoryOf(d)' = <<>>
  PROVE  Life!Next
<1>1. Life!Purge(d)
  BY DEF Life!Purge, Life!Live, OthersKeep
<1> QED BY <1>1 DEF Life!Next

\* What the mapping needs of requests: a draft's id was never used and its bytes
\* are its own, and what a rollback brings back is in the history.
LifeInv ==
  /\ lapsed \subseteq issued
  /\ \A r \in Req : Drafting(r) => req[r].doc \notin lapsed /\ req[r].content = r
  /\ \A r \in Req : pc[r] = "put" => req[r].op \in {"create", "edit"}
  /\ \A r \in Req : pc[r] = "check" => req[r].op = "edit"
  /\ \A r \in Req : pc[r] = "commit" /\ req[r].op # "edit" /\ Exists(req[r].doc) =>
       \E v \in versions[req[r].doc] : v.content = req[r].content

\* Only the passing of time closes a window, and it asks that the document be there.
LEMMA WindowsClose ==
  ASSUME TypeOK, [Next]_vars
  PROVE  UNCHANGED lapsed \/ \E d \in Doc : RetentionElapses(d)
<1>1. ASSUME NEW r \in Req, NEW d \in Doc, Starts(r, d) \/ Restore(r, d) PROVE UNCHANGED lapsed
  BY <1>1, StartsWriteNothing DEF Restore
<1>2. ASSUME NEW r \in Req, RequestStep(r) \/ Crash(r) PROVE UNCHANGED lapsed
  BY <1>2, StepEffect DEF MovedOn
<1>3. ASSUME PurgeStep \/ PurgeFail \/ PurgeCrash \/ UNCHANGED vars PROVE UNCHANGED lapsed
  BY <1>3 DEF PurgeStep, PurgeFind, PurgeCollect, PurgeDelete, PurgeRow, PurgeRefused,
              PurgeFail, PurgeCrash, vars
<1> QED BY <1>1, <1>2, <1>3, Steps DEF Unattended

\* Only a create or an edit uploads, and what a rollback starts with it has read.
LEMMA StartKinds ==
  ASSUME TypeOK, NEW r \in Req, NEW d \in Doc, Starts(r, d) \/ Restore(r, d)
  PROVE  /\ pc'[r] = "put" => req'[r].op \in {"create", "edit"} /\ req'[r].content = r
         /\ pc'[r] = "commit" => \E v \in versions[d] : v.content = req'[r].content
<1> USE DEF Begin, Goto, TypeOK
<1>1. ASSUME NEW x \in Ext, CreateStart(r, d, x)
      PROVE  pc'[r] = "put" /\ req'[r].op = "create" /\ req'[r].content = r
  BY <1>1 DEF CreateStart
<1>2. ASSUME NEW x \in Ext, NEW e \in Expectable(d), EditStart(r, d, x, e)
      PROVE  pc'[r] = "put" /\ req'[r].op = "edit" /\ req'[r].content = r
  BY <1>2 DEF EditStart, Reading
<1>3. ASSUME NEW v \in versions[d], RollbackStart(r, d, v)
      PROVE  pc'[r] = "commit" /\ req'[r].content = v.content
  BY <1>3 DEF RollbackStart, Reading
<1>4. ASSUME \/ \E s \in Status : TransitionStart(r, d, s)
             \/ TrashStart(r, d) \/ ReindexStart(r, d) \/ Restore(r, d)
      PROVE  pc'[r] \in {"set", "trash", "job", "ok"}
  BY <1>4 DEF TransitionStart, TrashStart, ReindexStart, Restore
<1> QED BY <1>1, <1>2, <1>3, <1>4 DEF Starts

\* A create does not go through the check of an edit.
LEMMA StepKinds ==
  ASSUME TypeOK, NEW r \in Req, RequestStep(r) \/ Crash(r), pc'[r] = "check"
  PROVE  pc[r] = "put" /\ req[r].op # "create"
<1> USE DEF Goto, TypeOK
<1>1. CASE Put(r)
  BY <1>1 DEF Put
<1>2. pc[r] = "put" /\ ~Crash(r)
  BY StepEffect DEF MovedOn, Crash
<1> QED BY <1>1, <1>2 DEF RequestStep, CreateInsert, EditCheck, Commit, SetStatus, MetadataGet,
                        MetadataPut, TrashCommit, JobCreate, JobSend, ExplainUnset, ReadUpdated

\* Every step keeps it.
LEMMA LifeInvNext ==
  ASSUME TypeOK, HistoryInv, LifeInv, [Next]_vars
  PROVE  LifeInv'
<1>1. issued \subseteq issued'
  <2>1. ASSUME NEW r \in Req, NEW d \in Doc, Starts(r, d) \/ Restore(r, d)
        PROVE  issued \subseteq issued'
    BY <2>1, StartEffect DEF Started
  <2>2. ASSUME NEW r \in Req, RequestStep(r) \/ Crash(r) PROVE issued \subseteq issued'
    BY <2>2, StepEffect DEF MovedOn
  <2> QED BY <2>1, <2>2, Steps, UnattendedEffect
<1>2. ASSUME NEW d \in lapsed', d \notin lapsed PROVE d \in Doc /\ Exists(d)
  BY <1>2, WindowsClose DEF RetentionElapses
<1>3. lapsed' \subseteq issued'
  BY <1>1, <1>2 DEF LifeInv, HistoryInv, IdsAreFresh
<1> DEFINE Good(r) ==
      /\ Drafting(r) => req[r].doc \notin lapsed /\ req[r].content = r
      /\ pc[r] = "put" => req[r].op \in {"create", "edit"}
      /\ pc[r] = "check" => req[r].op = "edit"
      /\ pc[r] = "commit" /\ req[r].op # "edit" /\ Exists(req[r].doc) =>
           \E v \in versions[req[r].doc] : v.content = req[r].content
<1>4. \A r \in Req : Good(r)
  BY DEF LifeInv
<1>5. ASSUME NEW r \in Req PROVE Good(r)'
  <2>1. ASSUME pc'[r] = pc[r], req'[r] = req[r] PROVE Good(r)'
    <3>1. Drafting(r)' => Drafting(r) /\ req[r].doc \notin lapsed' /\ req[r].content = r
      BY <1>2, <1>4, <2>1 DEF Drafting, HistoryInv, IdsAreFresh
    <3>2. ASSUME pc[r] = "commit", req[r].op # "edit", NEW d \in Doc, d = req[r].doc, Exists(d)'
          PROVE  \E v \in versions'[d] : v.content = req[r].content
      <4>1. Exists(d)
        BY <3>2, GoneStaysGone DEF HistoryInv
      <4>2. versions[d] \subseteq versions'[d]
        BY <3>2, <4>1, VersionsStay DEF HistoryInv
      <4> QED BY <1>4, <3>2, <4>1, <4>2
    <3>3. pc[r] = "commit" => req[r].doc \in Doc
      BY DEF TypeOK, Request
    <3> QED BY <1>4, <2>1, <3>1, <3>2, <3>3 DEF Exists
  <2>2. ASSUME NEW t \in Req, NEW d \in Doc, Starts(t, d) \/ Restore(t, d)
        PROVE  Good(r)'
    <3>1. CASE t # r
      BY <2>1, <2>2, <3>1, StartEffect DEF Started
    <3>2. CASE t = r
      <4>1. Started(r, d) /\ req'[r].doc = d
        BY <2>2, <3>2, StartEffect DEF Started
      <4>2. UNCHANGED <<versions, lapsed>>
        BY <2>2, StartsWriteNothing DEF Restore
      <4>3. Drafting(r)' => pc'[r] = "put" /\ d \notin lapsed
        BY <4>1 DEF Started, Drafting, LifeInv
      <4> QED BY <2>2, <3>2, <4>1, <4>2, <4>3, StartKinds DEF Started
    <3> QED BY <3>1, <3>2
  <2>3. ASSUME NEW t \in Req, RequestStep(t) \/ Crash(t) PROVE Good(r)'
    <3>1. CASE t # r
      BY <2>1, <2>3, <3>1, StepEffect DEF MovedOn
    <3>2. CASE t = r
      <4>1. MovedOn(r) /\ lapsed' = lapsed
        BY <2>3, <3>2, StepEffect DEF MovedOn
      <4>2. Drafting(r)' => Drafting(r) /\ req'[r].content = req[r].content
        BY <2>3, <3>2, <4>1, StepCarries DEF MovedOn, Drafting, Carrying
      <4>3. pc'[r] = "check" => req[r].op = "edit"
        BY <1>4, <2>3, <3>2, StepKinds
      <4>4. pc'[r] = "commit" => req[r].op = "edit"
        BY <1>4, <4>1 DEF MovedOn
      <4> QED BY <1>4, <4>1, <4>2, <4>3, <4>4 DEF MovedOn
    <3> QED BY <3>1, <3>2
  <2>4. CASE Unattended
    BY <2>1, <2>4, UnattendedEffect
  <2> QED BY <2>2, <2>3, <2>4, Steps
<1> QED BY <1>3, <1>5 DEF LifeInv

\* What the step lemmas below assume.
Reached == /\ TypeOK /\ TrashIsHidden /\ HistoryInv /\ AnswersInv /\ LifeInv
           /\ KeysNameTheirDocument /\ PurgeIsForLapsed

\* The insertion of a draft is a creation.
LEMMA InsertMaps ==
  ASSUME Reached, (TypeOK /\ HistoryMatchesRow)', UNCHANGED lapsed,
         NEW r \in Req, CreateInsert(r), row' # row \/ versions' # versions
  PROVE  Life!Next
<1> USE DEF Reached
<1>1. PICK d \in Doc : d = req[r].doc
  BY DEF CreateInsert, TypeOK, Request
<1> DEFINE w == FirstRow(d, "draft", req[r].key, req[r].content)
<1>2. /\ row' = [row EXCEPT ![d] = w]
      /\ versions' = [versions EXCEPT ![d] = {VersionOf(w)}]
  BY <1>1 DEF CreateInsert
<1>3. /\ w.version = 1 /\ w.trashed = "no" /\ w.status = "draft"
      /\ VersionOf(w).version = 1 /\ VersionOf(w).content = req[r].content
  BY DEF FirstRow, VersionOf
<1>4. w # NoRow
  BY <1>1, FirstRowType, ConstantsAssumption DEF CreateInsert, TypeOK, Request, Status
<1> HIDE DEF w
<1>5. row'[d] = w /\ versions'[d] = {VersionOf(w)}
  BY <1>2 DEF TypeOK
<1>6. Drafting(r) /\ ~Exists(d) /\ d \notin lapsed /\ req[r].content = r
  BY <1>1 DEF CreateInsert, HistoryInv, IdsAreFresh, Drafting, LifeInv
<1>7. LifeOf(d) = "unborn" /\ LifeOf(d)' = "kept" /\ StatusOf(d)' = StatusOf(d)
  BY <1>3, <1>4, <1>5, <1>6 DEF LifeOf, StatusOf, Kept, InTrash, Exists
<1>8. Life!Unused(r)
  <2> SUFFICES ASSUME NEW e \in Doc, r \in Life!Contents(e) PROVE FALSE
    BY DEF Life!Unused
  <2>1. PICK v \in versions[e] : v.content = r
    BY ContentsAre DEF HistoryInv
  <2>2. e = d
    BY <1>1, <2>1 DEF AnswersInv, ContentIsAtHome, AtHome
  <2> QED BY <1>6, <2>1, <2>2 DEF HistoryInv, HistoryMatchesRow
<1>9. HistoryOf(d)' = <<r>>
  <2>1. HistoryReads(d)' /\ Exists(d)'
    BY <1>4, <1>5, HistoryIsReadNext DEF Exists
  <2> DEFINE g == HistoryOf(d)'
  <2>2. g \in [1..1 -> Content] /\ g[1] = r
    BY <1>3, <1>5, <1>6, <2>1 DEF HistoryReads
  <2> HIDE DEF g
  <2>3. g = <<r>>
    BY <2>2
  <2> QED BY <2>3 DEF g
<1>10. OthersKeep(d)
  BY <1>2, OthersStay DEF TypeOK, HistoryInv
<1> QED BY <1>7, <1>8, <1>9, <1>10, MapCreate DEF Content

\* A commit is a revision: of new bytes, or of bytes the history has.
LEMMA CommitMaps ==
  ASSUME Reached, (TypeOK /\ HistoryMatchesRow)', UNCHANGED lapsed,
         NEW r \in Req, Commit(r), row' # row \/ versions' # versions
  PROVE  Life!Next
<1> USE DEF Reached
<1>1. PICK d \in Doc : d = req[r].doc
  BY DEF Commit, TypeOK, Request
<1>2. PICK c \in Content : c = req[r].content
  BY DEF Commit, TypeOK, Request
<1> DEFINE w == [row[d] EXCEPT !.version = req[r].base + 1, !.key = req[r].key, !.content = c]
           v == [version |-> req[r].base + 1, key |-> req[r].key, content |-> c]
<1>3. /\ CanInsertVersion(d, req[r].base + 1)
      /\ row' = [row EXCEPT ![d] = w]
      /\ versions' = [versions EXCEPT ![d] = versions[d] \cup {v}]
  BY <1>1, <1>2, CommitEffect
<1>4. row[d] \in Row /\ req[r].base = row[d].version /\ pc[r] = "commit"
  BY <1>1, <1>3, CommitIsNext DEF Commit
<1>5. PICK n \in Nat : n = row[d].version
  BY <1>4 DEF Row
<1>6. /\ w.version = n + 1 /\ w.status = row[d].status /\ w.trashed = row[d].trashed
      /\ w.before = row[d].before /\ v.version = n + 1 /\ v.content = c
  BY <1>4, <1>5 DEF Row
<1> HIDE DEF w, v
<1>7. row'[d] = w /\ versions'[d] = versions[d] \cup {v} /\ Exists(d)
  BY <1>3 DEF TypeOK, CanInsertVersion
<1>8. Exists(d)'
  <2>1. versions'[d] # {}
    BY <1>7
  <2> QED BY <2>1 DEF HistoryMatchesRow
<1>9. /\ LifeOf(d) \in {"kept", "trash"} /\ LifeOf(d)' = LifeOf(d)
      /\ StatusOf(d)' = StatusOf(d)
  BY <1>6, <1>7, <1>8 DEF LifeOf, StatusOf, Kept, InTrash, Exists
<1>10. Life!Unused(c) \/ c \in Life!Contents(d)
  <2>1. CASE req[r].op = "edit"
    <3>1. c = r /\ Unspread(r)
      BY <1>2, <1>4, <2>1 DEF AnswersInv, EditsInv, Editing, Uncommitted
    <3>2. \A e \in Doc : r \notin Life!Contents(e)
      BY <3>1, ContentsAre DEF Unspread, HistoryInv
    <3> QED BY <3>1, <3>2 DEF Life!Unused
  <2>2. CASE req[r].op # "edit"
    <3>1. \E u \in versions[d] : u.content = c
      BY <1>1, <1>2, <1>4, <1>7, <2>2 DEF LifeInv
    <3> QED BY <3>1, ContentsAre DEF HistoryInv
  <2> QED BY <2>1, <2>2
<1>11. HistoryOf(d)' = Append(HistoryOf(d), c)
  <2>1. HistoryReads(d) /\ HistoryReads(d)'
    BY HistoryIsRead, HistoryIsReadNext DEF HistoryInv
  <2> DEFINE g == HistoryOf(d)'
             h == HistoryOf(d)
  <2>2. /\ h \in [1..n -> Content]
        /\ \A u \in versions[d] : h[u.version] = u.content
        /\ \A k \in 1..n : \E u \in versions[d] : u.version = k
    BY <1>5, <1>7, <2>1 DEF HistoryReads
  <2>3. /\ g \in [1..(n + 1) -> Content]
        /\ \A u \in versions[d] \cup {v} : g[u.version] = u.content
    BY <1>6, <1>7, <1>8, <2>1 DEF HistoryReads
  <2> HIDE DEF g, h
  <2>4. (\A k \in 1..n : g[k] = h[k]) /\ g[n + 1] = c
    BY <1>6, <2>2, <2>3
  <2>5. g = Append(h, c)
    BY <2>2, <2>3, <2>4, OneMore
  <2> QED BY <2>5 DEF g, h
<1>12. OthersKeep(d)
  BY <1>3, OthersStay DEF TypeOK, HistoryInv
<1> QED BY <1>9, <1>10, <1>11, <1>12, MapRevise

\* The row of d becomes w: a new status, a trashing or a restore.
Restated(d, w) ==
  /\ Exists(d) /\ row' = [row EXCEPT ![d] = w] /\ UNCHANGED versions
  /\ w.version = row[d].version
  /\ \/ row[d].trashed = "no" /\ w.trashed = "no"
     \/ row[d].trashed = "no" /\ w.trashed # "no" /\ w.before = row[d].status
     \/ row[d].trashed # "no" /\ w.trashed = "no" /\ w.status = row[d].before

\* The three steps that change a status do no more to a row than that.
LEMMA StatusEffect ==
  ASSUME TypeOK, TrashIsHidden, row' # row,
         NEW r \in Req, SetStatus(r) \/ TrashCommit(r) \/ \E d \in Doc : Restore(r, d)
  PROVE  \E d \in Doc, w \in Row : Restated(d, w)
<1>1. CASE SetStatus(r)
  <2> DEFINE d == req[r].doc
             w == [row[d] EXCEPT !.status = req[r].status]
  <2>1. d \in Doc /\ req[r].status \in Status
    BY <1>1 DEF SetStatus, TypeOK, Request
  <2>2. Kept(d) /\ row' = [row EXCEPT ![d] = w] /\ UNCHANGED versions
    BY <1>1, <2>1 DEF SetStatus, Settable, TypeOK
  <2>3. row[d] \in Row
    BY <2>1, <2>2 DEF Kept, Exists, TypeOK
  <2>4. w \in Row /\ w.version = row[d].version /\ w.trashed = row[d].trashed
    BY <2>1, <2>3 DEF Row
  <2> HIDE DEF w
  <2> QED BY <2>1, <2>2, <2>4 DEF Kept, Restated
<1>2. CASE TrashCommit(r)
  <2> DEFINE d == req[r].doc
             w == [row[d] EXCEPT !.before = row[d].status, !.status = "archived",
                                 !.trashed = "recent"]
  <2>1. d \in Doc
    BY <1>2 DEF TrashCommit, TypeOK, Request
  <2>2. Kept(d) /\ row' = [row EXCEPT ![d] = w] /\ UNCHANGED versions
    BY <1>2, <2>1 DEF TrashCommit, TypeOK
  <2>3. row[d] \in Row
    BY <2>1, <2>2 DEF Kept, Exists, TypeOK
  <2>4. /\ w \in Row /\ w.version = row[d].version /\ w.trashed = "recent"
        /\ w.before = row[d].status
    BY <2>1, <2>3 DEF Row, Status
  <2> HIDE DEF w
  <2> QED BY <2>1, <2>2, <2>4 DEF Kept, Restated
<1>3. ASSUME NEW d \in Doc, Restore(r, d) PROVE \E e \in Doc, w \in Row : Restated(e, w)
  <2> DEFINE w == [row[d] EXCEPT !.status = RestoredStatus(row[d]), !.before = "none",
                                 !.trashed = "no"]
  <2>1. InTrash(d) /\ row' = [row EXCEPT ![d] = w] /\ UNCHANGED versions
    BY <1>3 DEF Restore, TypeOK
  <2>2. row[d] \in Row /\ row[d].before # "none"
    BY <2>1 DEF InTrash, Exists, TypeOK, TrashIsHidden
  <2>3. w \in Row /\ w.version = row[d].version /\ w.trashed = "no" /\ w.status = row[d].before
    BY <2>2 DEF Row, RestoredStatus
  <2> HIDE DEF w
  <2> QED BY <2>1, <2>3 DEF InTrash, Restated
<1> QED BY <1>1, <1>2, <1>3

\* A status that is set, a trashing and a restore are what they are called.
LEMMA RestatedMaps ==
  ASSUME Reached, (TypeOK /\ HistoryMatchesRow)', UNCHANGED lapsed,
         NEW d \in Doc, NEW w \in Row, Restated(d, w)
  PROVE  Life!Next
<1> USE DEF Reached
<1>1. row'[d] = w /\ Exists(d)' /\ versions'[d] = versions[d]
  BY ConstantsAssumption DEF TypeOK, Exists, Restated
<1>2. HistoryOf(d)' = HistoryOf(d)
  BY <1>1, HistoryStays DEF HistoryInv, Restated
<1>3. OthersKeep(d)
  BY <1>1, OthersStay DEF TypeOK, HistoryInv, Restated
<1>4. CASE row[d].trashed = "no" /\ w.trashed = "no"
  <2>1. LifeOf(d) = "kept" /\ LifeOf(d)' = "kept" /\ StatusOf(d)' \in Status
    BY <1>1, <1>4 DEF LifeOf, StatusOf, Kept, InTrash, Exists, Row, Restated
  <2> QED BY <1>2, <1>3, <2>1, MapMove
<1>5. CASE row[d].trashed = "no" /\ w.trashed # "no" /\ w.before = row[d].status
  <2>1. LifeOf(d) = "kept" /\ LifeOf(d)' = "trash" /\ StatusOf(d)' = StatusOf(d)
    BY <1>1, <1>5 DEF LifeOf, StatusOf, Kept, InTrash, Exists, Restated
  <2> QED BY <1>2, <1>3, <2>1, MapTrashRestore
<1>6. CASE row[d].trashed # "no" /\ w.trashed = "no" /\ w.status = row[d].before
  <2>1. LifeOf(d) = "trash" /\ LifeOf(d)' = "kept" /\ StatusOf(d)' = StatusOf(d)
    BY <1>1, <1>6 DEF LifeOf, StatusOf, Kept, InTrash, Exists, Restated
  <2> QED BY <1>2, <1>3, <2>1, MapTrashRestore
<1> QED BY <1>1, <1>4, <1>5, <1>6 DEF Restated

\* ... whichever request makes it.
LEMMA StatusMaps ==
  ASSUME Reached, (TypeOK /\ HistoryMatchesRow)', UNCHANGED lapsed, row' # row,
         NEW r \in Req, SetStatus(r) \/ TrashCommit(r) \/ \E d \in Doc : Restore(r, d)
  PROVE  Life!Next
BY StatusEffect, RestatedMaps DEF Reached

\* The passing of 72 hours is the closing of a window.
LEMMA LapseMaps ==
  ASSUME Reached, (TypeOK /\ HistoryMatchesRow)', NEW d \in Doc, RetentionElapses(d)
  PROVE  Life!Next
<1> USE DEF Reached
<1> DEFINE w == [row[d] EXCEPT !.trashed = "expired"]
<1>1. /\ Exists(d) /\ row[d].trashed = "recent" /\ lapsed' = lapsed \cup {d}
      /\ row' = [row EXCEPT ![d] = w] /\ UNCHANGED versions
  BY DEF RetentionElapses, TypeOK
<1>2. row[d] \in Row
  BY <1>1 DEF Exists, TypeOK
<1>3. w \in Row /\ w.version = row[d].version /\ w.before = row[d].before /\ w.trashed = "expired"
  BY <1>2 DEF Row
<1> HIDE DEF w
<1>4. row'[d] = w /\ Exists(d)' /\ versions'[d] = versions[d]
  BY <1>1, <1>3, ConstantsAssumption DEF TypeOK, Exists
<1>5. HistoryOf(d)' = HistoryOf(d)
  BY <1>1, <1>3, <1>4, HistoryStays DEF HistoryInv
<1>6. OthersKeep(d)
  BY <1>1, OthersStay DEF TypeOK, HistoryInv
<1>7. LifeOf(d) = "trash" /\ LifeOf(d)' = "trash" /\ StatusOf(d)' = StatusOf(d)
  BY <1>1, <1>3, <1>4 DEF LifeOf, StatusOf, Kept, InTrash, Exists
<1> QED BY <1>1, <1>5, <1>6, <1>7, MapLapse

\* The removal of a row is a purge, of a document whose window has closed.
LEMMA PurgeMaps ==
  ASSUME Reached, (TypeOK /\ HistoryMatchesRow)', UNCHANGED lapsed, PurgeRow
  PROVE  [Life!Next]_(Life!vars)
<1> USE DEF Reached
<1>1. PICK d \in Doc : /\ d \in lapsed
                       /\ row' = [row EXCEPT ![d] = NoRow]
                       /\ versions' = [versions EXCEPT ![d] = {}]
  BY DEF PurgeRow, TypeOK, PurgeIsForLapsed
<1>2. row'[d] = NoRow
  BY <1>1 DEF TypeOK
<1>3. LifeOf(d)' = "gone" /\ StatusOf(d)' = "draft" /\ HistoryOf(d)' = <<>>
  BY <1>1, <1>2 DEF LifeOf, StatusOf, HistoryOf, Kept, InTrash, Exists
<1>4. OthersKeep(d)
  BY <1>1, OthersStay DEF TypeOK, HistoryInv
<1>5. CASE Exists(d)
  <2>1. LifeOf(d) \in {"kept", "trash"}
    BY <1>5 DEF LifeOf, Kept, InTrash
  <2> QED BY <1>1, <1>3, <1>4, <2>1, MapPurge DEF Status
<1>6. CASE ~Exists(d)
  <2>1. LifeOf(d) = "gone" /\ StatusOf(d) = "draft" /\ HistoryOf(d) = <<>>
    BY <1>1, <1>6 DEF LifeOf, StatusOf, HistoryOf, Kept, InTrash
  <2>2. \A e \in Doc : /\ LifeOf(e)' = LifeOf(e) /\ StatusOf(e)' = StatusOf(e)
                       /\ HistoryOf(e)' = HistoryOf(e)
    BY <1>3, <1>4, <2>1 DEF OthersKeep
  <2> QED BY <2>2 DEF Life!vars
<1> QED BY <1>5, <1>6

\* A step that leaves rows, versions and windows alone is none of DocumentLife.
LEMMA LifeStutters ==
  ASSUME TypeOK, HistoryMatchesRow, (TypeOK /\ HistoryMatchesRow)',
         UNCHANGED <<row, versions, lapsed>>
  PROVE  UNCHANGED Life!vars
<1>1. ASSUME NEW d \in Doc
      PROVE  /\ LifeOf(d)' = LifeOf(d) /\ StatusOf(d)' = StatusOf(d)
             /\ HistoryOf(d)' = HistoryOf(d)
  <2>1. Exists(d) <=> Exists(d)'
    BY DEF Exists
  <2>2. LifeOf(d)' = LifeOf(d) /\ StatusOf(d)' = StatusOf(d)
    BY DEF LifeOf, StatusOf, Kept, InTrash, Exists
  <2> QED BY <2>1, <2>2, HistoryStays
<1> QED BY <1>1 DEF Life!vars

\* Every step of the store is a step of DocumentLife, or none.
LEMMA LifeStep ==
  ASSUME Reached, Reached', [Next]_vars
  PROVE  [Life!Next]_(Life!vars)
<1> USE DEF Reached, HistoryInv
<1>1. CASE UNCHANGED <<row, versions, lapsed>>
  BY <1>1, LifeStutters
<1>2. CASE \E d \in Doc : RetentionElapses(d)
  BY <1>2, LapseMaps
<1>3. CASE UNCHANGED lapsed /\ ~UNCHANGED <<row, versions>>
  <2>1. ASSUME NEW r \in Req, \/ SetStatus(r) \/ TrashCommit(r)
                              \/ \E d \in Doc : Restore(r, d)
        PROVE  row' # row
    BY <1>3, <2>1 DEF SetStatus, TrashCommit, Restore
  <2> QED BY <1>2, <1>3, <2>1, Writers, InsertMaps, CommitMaps, StatusMaps, PurgeMaps
<1> QED BY <1>1, <1>2, <1>3, WindowsClose

\* The documents stored beforehand are kept, with one content each.
LEMMA LifeInit == Init => LifeInv /\ Life!Init
<1> SUFFICES ASSUME Init PROVE LifeInv /\ Life!Init
  OBVIOUS
<1>1. TypeOK /\ HistoryInv
  BY TypeInit, HistoryInit
<1>2. lapsed = {} /\ \A r \in Req : pc[r] = "idle"
  BY DEF Init
<1>3. ASSUME NEW d \in Doc, Exists(d)
      PROVE  row[d].version = 1 /\ row[d].trashed = "no" /\ row[d].status \in Status
  BY <1>1, <1>3, ConstantsAssumption DEF Init, Exists, FirstRow, TypeOK, Row
<1>4. ASSUME NEW d \in Doc
      PROVE  /\ LifeOf(d) \in {"unborn", "kept"} /\ StatusOf(d) \in Status
             /\ HistoryOf(d) \in {<<>>} \cup {<<c>> : c \in Content}
             /\ LifeOf(d) = "unborn" <=> HistoryOf(d) = <<>>
  <2>1. CASE ~Exists(d)
    BY <1>2, <2>1 DEF LifeOf, StatusOf, HistoryOf, Kept, InTrash, Status
  <2>2. CASE Exists(d)
    <3>1. LifeOf(d) = "kept" /\ StatusOf(d) \in Status
      BY <1>3, <2>2 DEF LifeOf, StatusOf, Kept, InTrash
    <3>2. HistoryOf(d) \in [1..1 -> Content]
      BY <1>1, <1>3, <2>2, HistoryIsRead DEF HistoryReads, HistoryInv
    <3> DEFINE h == HistoryOf(d)
    <3> HIDE DEF h
    <3>3. h = <<h[1]>> /\ h[1] \in Content
      BY <3>2 DEF h
    <3>4. h # <<>>
      BY <3>3
    <3> QED BY <3>1, <3>3, <3>4 DEF h
  <2> QED BY <2>1, <2>2
<1>5. LifeInv
  BY <1>2 DEF LifeInv, Drafting
<1>6. Life!Init
  BY <1>2, <1>4 DEF Life!Init
<1> QED BY <1>5, <1>6

\* All of what the mapping rests on, from the start and kept by every step.
StoreInv == /\ TypeOK /\ TrashIsHidden /\ KeptInv /\ HistoryInv /\ AnswersInv /\ LifeInv

LEMMA StoreInvInit == Init => StoreInv
<1>1. Init => TrashIsHidden
  BY DEF Init, TrashIsHidden, InTrash, Exists, FirstRow
<1> QED BY <1>1, TypeInit, KeptInit, HistoryInit, AnswersInit, LifeInit DEF StoreInv

LEMMA StoreInvNext == StoreInv /\ [Next]_vars => StoreInv'
<1> SUFFICES ASSUME StoreInv, [Next]_vars PROVE StoreInv'
  OBVIOUS
<1> USE DEF StoreInv
<1>1. TypeOK' /\ TrashIsHidden' /\ KeptInv'
  BY TypeNext, TrashNext, KeysNext, PurgeNext, UploadNext, KeptNext DEF KeptInv
<1>2. HistoryInv'
  BY HistoryNext, IdsNext, ReadsNext DEF HistoryInv
<1>3. AnswersInv' /\ LifeInv'
  BY <1>1, <1>2, HomeNext, EditsNext, LifeInvNext DEF AnswersInv
<1> QED BY <1>1, <1>2, <1>3

LEMMA StoreMaps == StoreInv /\ StoreInv' /\ [Next]_vars => [Life!Next]_(Life!vars)
<1> SUFFICES ASSUME StoreInv, StoreInv', [Next]_vars PROVE [Life!Next]_(Life!vars)
  OBVIOUS
<1>1. Reached /\ Reached'
  BY DEF Reached, StoreInv, KeptInv
<1> QED BY <1>1, LifeStep

\* However requests, purge runs, faults and time interleave, what the store does
\* is a behaviour of DocumentLife: histories only grow, by new bytes or by bytes
\* they have; the trash gives back the status it was given; a document is removed
\* only after its window has closed, and its id is never used again.
THEOREM StoreImplementsLife == Spec => ImplementsLife
<1>1. Init => Life!Init
  BY LifeInit
<1> QED BY <1>1, StoreInvInit, StoreInvNext, StoreMaps, PTL DEF Spec, ImplementsLife, Life!Spec

=============================================================================
