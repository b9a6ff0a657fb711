----------------------------- MODULE SearchProofs -----------------------------
(***************************************************************************)
(* Theorems about Search, for every value of its constants: any documents, *)
(* requests and readers, and permissions of any shape.                     *)
(***************************************************************************)
EXTENDS Search, DocumentsProofs

-----------------------------------------------------------------------------
(* What the store guarantees goes on holding beside readers, who change      *)
(* nothing in it.                                                            *)

\* A step of a reader, or of the store, is a step of the store or none at all.
LEMMA StoreSteps == [SearchNext]_searchVars => [Next]_vars
<1> SUFFICES ASSUME [SearchNext]_searchVars PROVE [Next]_vars
  OBVIOUS
<1>1. CASE StoreStep
  BY <1>1 DEF StoreStep
<1>2. ASSUME NEW q \in Reader, ReaderStep(q)
      PROVE  UNCHANGED vars
  BY <1>2 DEF ReaderStep, Retrieve, ReadRow, ReadAnyRow, Refuses, Opens, LiveCheck, GetBytes,
     GetDraft, Becomes, Fetch
<1>3. CASE UNCHANGED searchVars
  BY <1>3 DEF searchVars
<1> QED BY <1>1, <1>2, <1>3 DEF SearchNext

\* The store keeps what it guarantees, whatever readers do between its steps.
LEMMA StoreNext == StoreInv /\ [SearchNext]_searchVars => StoreInv'
BY StoreSteps, StoreInvNext

-----------------------------------------------------------------------------
(* Bytes and keys.  Every text, wherever it is kept, was uploaded to the key *)
(* it is kept with: by a request that creates or edits, or before the        *)
(* behaviour starts.  And but for an edit, one upload goes to a key.         *)

Aimed(c, k) ==
  \/ k.doc \in Existing /\ c = k.doc /\ k.version = 1
  \/ c \in Req /\ pc[c] # "idle" /\ req[c].op \in {"create", "edit"} /\ req[c].key = k

AimedInv ==
  /\ \A d \in Doc : \A v \in versions[d] : Aimed(v.content, v.key)
  /\ \A k \in DOMAIN bucket : Aimed(bucket[k].content, k)
  /\ \A r \in Req : pc[r] # "idle" => Aimed(req[r].content, req[r].key)

Drafts(r) == pc[r] # "idle" /\ req[r].op = "create"

UploadsInv ==
  /\ Existing \subseteq issued
  /\ \A r \in Req : pc[r] # "idle" /\ req[r].op = "edit" => req[r].key.version # 1
  /\ \A r \in Req : Drafts(r) =>
       /\ req[r].key.version = 1 /\ req[r].key.doc \in issued \ Existing
       /\ \A t \in Req \ {r} : Drafts(t) => req[t].key.doc # req[r].key.doc

\* Of two texts under a key, one that is not an edit's is the only one.
LEMMA OneUpload ==
  ASSUME TypeOK, UploadsInv, NEW c, NEW e, NEW k, Aimed(c, k), Aimed(e, k)
  PROVE  c = e \/ e \in EditsTo(k)
<1>1. \A r \in Req : pc[r] # "idle" <=> req[r] # NoRequest
  BY DEF TypeOK
<1> QED BY <1>1 DEF UploadsInv, Aimed, Drafts, EditsTo

\* What a request starts with: an upload of its own, or what a version holds.
LEMMA StartAims ==
  ASSUME TypeOK, HistoryMatchesRow, NEW r \in Req, NEW d \in Doc,
         Starts(r, d) \/ Restore(r, d)
  PROVE  \/ /\ req'[r].op = "create" /\ req'[r].content = r
            /\ req'[r].key.version = 1 /\ req'[r].key.doc = d
            /\ d \notin issued /\ issued' = issued \cup {d}
         \/ /\ req'[r].op = "edit" /\ req'[r].content = r /\ req'[r].key.version # 1
            /\ issued' = issued
         \/ /\ req'[r].op \notin {"create", "edit"} /\ issued' = issued
            /\ \E v \in versions[d] : req'[r].key = v.key /\ req'[r].content = v.content
<1> USE DEF Begin, Goto, TypeOK
<1>1. ASSUME Exists(d)
      PROVE  /\ row[d].version + 1 # 1
             /\ \E v \in versions[d] : row[d].key = v.key /\ row[d].content = v.content
  <2>1. row[d].version \in Nat \ {0}
    BY <1>1 DEF Exists, Row
  <2>2. VersionOf(row[d]) \in versions[d]
    BY <1>1 DEF HistoryMatchesRow
  <2>3. VersionOf(row[d]).key = row[d].key /\ VersionOf(row[d]).content = row[d].content
    BY DEF VersionOf
  <2> QED BY <2>1, <2>2, <2>3
<1>2. ASSUME NEW x \in Ext, CreateStart(r, d, x)
      PROVE  /\ req'[r].op = "create" /\ req'[r].content = r
             /\ req'[r].key.version = 1 /\ req'[r].key.doc = d
             /\ d \notin issued /\ issued' = issued \cup {d}
  BY <1>2 DEF CreateStart, ObjectKey
<1>3. ASSUME NEW x \in Ext, NEW e \in Expectable(d), EditStart(r, d, x, e)
      PROVE  /\ req'[r].op = "edit" /\ req'[r].content = r /\ req'[r].key.version # 1
             /\ issued' = issued
  BY <1>1, <1>3 DEF EditStart, ObjectKey, Reading
<1>4. ASSUME NEW v \in versions[d], RollbackStart(r, d, v)
      PROVE  /\ req'[r].op = "rollback" /\ issued' = issued
             /\ req'[r].key = v.key /\ req'[r].content = v.content
  BY <1>4 DEF RollbackStart, Reading
<1>5. ASSUME Exists(d), issued' = issued,
             NEW op \in Operation \ {"create", "edit"}, NEW s, NEW l,
             Begin(r, [Reading(op, d) EXCEPT !.status = s], l) \/ Begin(r, Reading(op, d), l)
      PROVE  /\ req'[r].op \notin {"create", "edit"} /\ issued' = issued
             /\ \E v \in versions[d] : req'[r].key = v.key /\ req'[r].content = v.content
  BY <1>1, <1>5 DEF Reading
<1>6. ASSUME NEW s \in Status, TransitionStart(r, d, s)
      PROVE  /\ Exists(d) /\ issued' = issued
             /\ \E l : Begin(r, [Reading("transition", d) EXCEPT !.status = s], l)
  BY <1>6 DEF TransitionStart, Kept
<1>7. ASSUME TrashStart(r, d)
      PROVE  Exists(d) /\ issued' = issued /\ \E l : Begin(r, Reading("trash", d), l)
  BY <1>7 DEF TrashStart, Kept
<1>8. ASSUME ReindexStart(r, d)
      PROVE  Exists(d) /\ issued' = issued /\ \E l : Begin(r, Reading("reindex", d), l)
  BY <1>8 DEF ReindexStart
<1>9. ASSUME Restore(r, d)
      PROVE  /\ Exists(d) /\ issued' = issued
             /\ \E s, l : Begin(r, [Reading("restore", d) EXCEPT !.status = s], l)
  BY <1>9 DEF Restore, InTrash
<1> HIDE DEF Begin, Goto, TypeOK
<1>10. {"transition", "trash", "reindex", "restore"} \subseteq Operation \ {"create", "edit"}
  BY DEF Operation
<1> QED BY <1>2, <1>3, <1>4, <1>5, <1>6, <1>7, <1>8, <1>9, <1>10 DEF Starts

\* What a request holds later: the same, or what it has read under its key.
LEMMA StepAims ==
  ASSUME TypeOK, NEW r \in Req, RequestStep(r) \/ Crash(r)
  PROVE  \/ req'[r].content = req[r].content
         \/ req[r].key \in DOMAIN bucket /\ req'[r].content = bucket[req[r].key].content
<1> USE DEF TypeOK
<1>0. pc[r] # "idle" => req[r] \in Request
  OBVIOUS
<1>1. CASE MetadataGet(r)
  BY <1>0, <1>1 DEF MetadataGet, Request
<1>2. CASE EditCheck(r)
  BY <1>0, <1>2 DEF EditCheck, Request
<1>3. CASE \/ Put(r) \/ CreateInsert(r) \/ Commit(r) \/ SetStatus(r) \/ ExplainUnset(r)
           \/ MetadataPut(r) \/ TrashCommit(r) \/ JobCreate(r) \/ JobSend(r) \/ ReadUpdated(r)
           \/ Crash(r)
  BY <1>3 DEF Put, CreateInsert, Commit, SetStatus, ExplainUnset, MetadataPut, TrashCommit,
              JobCreate, JobSend, ReadUpdated, Crash
<1> QED BY <1>1, <1>2, <1>3 DEF RequestStep

\* What the bucket holds, it held before or has been given by a request.
LEMMA ObjectsAreCarried ==
  ASSUME TypeOK, [Next]_vars, NEW k \in DOMAIN bucket'
  PROVE  \/ k \in DOMAIN bucket /\ bucket'[k].content = bucket[k].content
         \/ \E r \in Req : /\ pc[r] # "idle" /\ req[r].key = k
                           /\ bucket'[k].content = req[r].content
<1>1. ASSUME NEW r \in Req, NEW d \in Doc, Starts(r, d) \/ Restore(r, d)
      PROVE  bucket' = bucket
  BY <1>1, StartsWriteNothing DEF Restore
<1>2. ASSUME NEW r \in Req, Put(r) \/ MetadataPut(r)
      PROVE  /\ pc[r] # "idle"
             /\ bucket' = Stored(req[r].key, [content |-> req[r].content,
                                              status |-> req[r].status])
  BY <1>2 DEF Put, MetadataPut
<1>3. ASSUME NEW r \in Req, RequestStep(r) \/ Crash(r), ~Put(r), ~MetadataPut(r)
      PROVE  bucket' = bucket
  BY <1>3 DEF RequestStep, CreateInsert, EditCheck, Commit, SetStatus, ExplainUnset,
              MetadataGet, TrashCommit, JobCreate, JobSend, ReadUpdated, Crash
<1>4. ASSUME NEW e \in doomed, PurgeDelete(e)
      PROVE  k \in DOMAIN bucket /\ bucket'[k] = bucket[k]
  BY <1>4 DEF PurgeDelete, Without
<1>5. CASE Unattended /\ ~\E e \in doomed : PurgeDelete(e)
  BY <1>5 DEF Unattended, RetentionElapses, PurgeStep, PurgeFind, PurgeCollect, PurgeRow,
              PurgeRefused, PurgeFail, PurgeCrash, vars
<1>6. ASSUME NEW r \in Req, Put(r) \/ MetadataPut(r)
      PROVE  \/ k \in DOMAIN bucket /\ bucket'[k].content = bucket[k].content
             \/ /\ pc[r] # "idle" /\ req[r].key = k
                /\ bucket'[k].content = req[r].content
  <2> DEFINE o == [content |-> req[r].content, status |-> req[r].status]
  <2>1. bucket' = Stored(req[r].key, o) /\ o.content = req[r].content /\ pc[r] # "idle"
    BY <1>2, <1>6
  <2> HIDE DEF o
  <2> QED BY <2>1 DEF Stored
<1> QED BY <1>1, <1>3, <1>4, <1>5, <1>6, Steps

\* A request that has started keeps its operation and its key.
LEMMA RequestsKeepTheirKey ==
  ASSUME TypeOK, [Next]_vars, NEW r \in Req, pc[r] # "idle"
  PROVE  pc'[r] # "idle" /\ req'[r].op = req[r].op /\ req'[r].key = req[r].key
<1>1. ASSUME NEW t \in Req, NEW d \in Doc, Starts(t, d) \/ Restore(t, d)
      PROVE  pc'[r] = pc[r] /\ req'[r] = req[r]
  BY <1>1, StartEffect DEF Started
<1>2. ASSUME NEW t \in Req, RequestStep(t) \/ Crash(t)
      PROVE  pc'[r] # "idle" /\ req'[r].op = req[r].op /\ req'[r].key = req[r].key
  BY <1>2, StepEffect DEF MovedOn
<1>3. CASE Unattended
  BY <1>3, UnattendedEffect
<1> QED BY <1>1, <1>2, <1>3, Steps

\* So what was uploaded to a key was, for good.
LEMMA AimedStays ==
  ASSUME TypeOK, [Next]_vars, NEW c, NEW k, Aimed(c, k)
  PROVE  Aimed(c, k)'
BY RequestsKeepTheirKey DEF Aimed

\* Edits go beyond the first version, and an id is created once.
LEMMA UploadsNext ==
  ASSUME TypeOK, HistoryMatchesRow, UploadsInv, [Next]_vars
  PROVE  UploadsInv'
<1>1. ASSUME NEW t \in Req, NEW d \in Doc, Starts(t, d) \/ Restore(t, d)
      PROVE  UploadsInv'
  <2>1. \A r \in Req \ {t} : pc'[r] = pc[r] /\ req'[r] = req[r]
    BY <1>1, StartEffect DEF Started
  <2>2. CASE /\ req'[t].op = "create" /\ req'[t].key.version = 1 /\ req'[t].key.doc = d
             /\ d \notin issued /\ issued' = issued \cup {d}
    BY <2>1, <2>2 DEF UploadsInv, Drafts
  <2>3. CASE issued' = issued /\ req'[t].op # "create"
             /\ (req'[t].op = "edit" => req'[t].key.version # 1)
    BY <2>1, <2>3 DEF UploadsInv, Drafts
  <2> QED BY <1>1, <2>2, <2>3, StartAims
<1>2. ASSUME NEW t \in Req, RequestStep(t) \/ Crash(t)
      PROVE  UploadsInv'
  <2>1. /\ issued' = issued /\ pc[t] # "idle"
        /\ req'[t].op = req[t].op /\ req'[t].key = req[t].key
        /\ \A r \in Req \ {t} : pc'[r] = pc[r] /\ req'[r] = req[r]
    BY <1>2, StepEffect DEF MovedOn
  <2> QED BY <2>1 DEF UploadsInv, Drafts
<1>3. CASE Unattended
  BY <1>3, UnattendedEffect DEF UploadsInv, Drafts
<1> QED BY <1>1, <1>2, <1>3, Steps

\* Texts are copied with the key they went to, and never to another.
LEMMA AimedNext ==
  ASSUME TypeOK, HistoryMatchesRow, AimedInv, [Next]_vars
  PROVE  AimedInv'
<1>1. ASSUME NEW d \in Doc, NEW v \in versions'[d] PROVE Aimed(v.content, v.key)'
  <2>1. CASE v \in versions[d]
    BY <2>1, AimedStays DEF AimedInv
  <2>2. CASE v \notin versions[d]
    <3>1. PICK r \in Req : pc[r] # "idle" /\ v.key = req[r].key /\ v.content = req[r].content
      BY <2>2, VersionsAreCarried DEF Carrying
    <3> QED BY <3>1, AimedStays DEF AimedInv
  <2> QED BY <2>1, <2>2
<1>2. ASSUME NEW k \in DOMAIN bucket' PROVE Aimed(bucket[k].content, k)'
  <2>1. Aimed(bucket'[k].content, k)
    BY ObjectsAreCarried DEF AimedInv
  <2> QED BY <2>1, AimedStays
<1>3. ASSUME NEW r \in Req, pc'[r] # "idle" PROVE Aimed(req[r].content, req[r].key)'
  <2>1. CASE pc'[r] = pc[r] /\ req'[r] = req[r]
    BY <1>3, <2>1, AimedStays DEF AimedInv
  <2>2. ASSUME NEW t \in Req, NEW d \in Doc, Starts(t, d) \/ Restore(t, d)
        PROVE  Aimed(req[r].content, req[r].key)'
    <3>1. CASE r # t
      BY <2>1, <2>2, <3>1, StartEffect DEF Started
    <3>2. CASE r = t /\ req'[r].op \in {"create", "edit"} /\ req'[r].content = r
      BY <1>3, <3>2 DEF Aimed
    <3>3. ASSUME NEW v \in versions[d], req'[r].key = v.key, req'[r].content = v.content
          PROVE  Aimed(req[r].content, req[r].key)'
      BY <3>3, AimedStays DEF AimedInv
    <3> QED BY <2>2, <3>1, <3>2, <3>3, StartAims
  <2>3. ASSUME NEW t \in Req, RequestStep(t) \/ Crash(t)
        PROVE  Aimed(req[r].content, req[r].key)'
    <3>1. CASE r # t
      BY <2>1, <2>3, <3>1, StepEffect DEF MovedOn
    <3>2. CASE r = t
      <4>1. pc[r] # "idle" /\ req'[r].key = req[r].key
        BY <2>3, <3>2, StepEffect DEF MovedOn
      <4>2. Aimed(req'[r].content, req[r].key)
        BY <2>3, <3>2, <4>1, StepAims DEF AimedInv
      <4> QED BY <4>1, <4>2, AimedStays
    <3> QED BY <3>1, <3>2
  <2>4. CASE Unattended
    BY <2>1, <2>4, UnattendedEffect
  <2> QED BY <2>2, <2>3, <2>4, Steps
<1> QED BY <1>1, <1>2, <1>3 DEF AimedInv

\* The documents stored beforehand have the text named after them, at version 1.
LEMMA AimedInit == Init => AimedInv /\ UploadsInv
<1> SUFFICES ASSUME NEW s \in [Existing -> InitStatus], NEW x \in [Existing -> Ext],
                    Init!(s, x)
             PROVE  AimedInv /\ UploadsInv
  BY DEF Init
<1> DEFINE first(d) == FirstRow(d, s[d], ObjectKey(d, 1, x[d]), d)
<1>1. \A d \in Existing : /\ VersionOf(first(d)).content = d
                          /\ VersionOf(first(d)).key = first(d).key
                          /\ first(d).key.doc = d /\ first(d).key.version = 1
  BY DEF FirstRow, VersionOf, ObjectKey
<1>2. versions = [d \in Doc |-> IF d \in Existing THEN {VersionOf(first(d))} ELSE {}]
  OBVIOUS
<1>3. bucket = [k \in {first(d).key : d \in Existing} |->
                  [content |-> k.doc, status |-> s[k.doc]]]
  OBVIOUS
<1>4. \A r \in Req : pc[r] = "idle"
  OBVIOUS
<1> HIDE DEF first
<1>5. ASSUME NEW d \in Doc, NEW v \in versions[d] PROVE Aimed(v.content, v.key)
  <2>1. d \in Existing /\ v = VersionOf(first(d))
    BY <1>2
  <2> QED BY <1>1, <2>1 DEF Aimed
<1>6. ASSUME NEW k \in DOMAIN bucket PROVE Aimed(bucket[k].content, k)
  <2>1. PICK d \in Existing : k = first(d).key
    BY <1>3
  <2> QED BY <1>1, <1>3, <2>1 DEF Aimed
<1> QED BY <1>4, <1>5, <1>6 DEF AimedInv, UploadsInv, Drafts

-----------------------------------------------------------------------------
(* Freshness.  What is served now has been served since any reader under way *)
(* began, so the one statement a reader makes cannot find anything older.    *)

ReaderOK(q) ==
  /\ \A v \in served[q] : Aimed(v.text, v.key)
  /\ read[q].at \in Underway => /\ Serving \subseteq served[q]
                                /\ DOMAIN read[q] = {"at", "by", "key", "text"}
  /\ read[q].at = "live" => read[q].key \in Key
  /\ read[q].at \in {"live", "found", "content"} => Aimed(read[q].text, read[q].key)
  /\ read[q].at \in {"bytes", "found", "content"} =>
       /\ \E v \in served[q] : v.key = read[q].key
       /\ MayRead[read[q].by][read[q].key.doc]

FreshInv == /\ DOMAIN read = Reader /\ DOMAIN served = Reader
            /\ \A c \in indexed : c.key \in Key /\ Aimed(c.text, c.key)
            /\ \A q \in Reader : ReaderOK(q)

ServeInv == StoreInv /\ AimedInv /\ UploadsInv

\* What is served is the current version's text, under its key.
LEMMA ServingIs ==
  /\ \A v \in Serving : \E d \in Doc :
       /\ Published(d)
       /\ v.key = VersionOf(row[d]).key /\ v.text = VersionOf(row[d]).content
  /\ \A d \in Doc : Published(d) => \E v \in Serving : v.key = row[d].key
<1> DEFINE V(d) == [key |-> row[d].key, text |-> row[d].content]
<1>1. Serving = {V(d) : d \in {e \in Doc : Published(e)}}
  BY DEF Serving
<1>2. \A d : /\ V(d).key = row[d].key /\ V(d).key = VersionOf(row[d]).key
             /\ V(d).text = VersionOf(row[d]).content
  BY DEF VersionOf
<1> HIDE DEF V
<1> QED BY <1>1, <1>2

\* So it was uploaded to that key.
LEMMA ServingIsAimed ==
  StoreInv /\ AimedInv => \A v \in Serving : Aimed(v.text, v.key)
BY ServingIs DEF Published, StoreInv, HistoryInv, HistoryMatchesRow, AimedInv

\* So is what may be indexed, if not of the current version.
LEMMA IndexableIsAimed ==
  ASSUME TypeOK, AimedInv
  PROVE  \A c \in Indexable : c.key \in Key /\ Aimed(c.text, c.key)
BY DEF Indexable, TypeOK, AimedInv

\* The store keeps this beside its readers.
LEMMA ServeNext == ServeInv /\ [SearchNext]_searchVars => ServeInv'
BY StoreSteps, StoreInvNext, AimedNext, UploadsNext DEF ServeInv, StoreInv, HistoryInv

\* Once a reader has begun, the texts it may be given only become more.
LEMMA FreshStore ==
  ASSUME FreshInv, ServeInv, ServeInv', StoreStep
  PROVE  FreshInv'
<1>1. DOMAIN served' = Reader /\ read' = read /\ [Next]_vars
  BY DEF StoreStep
<1>2. \A c, k : Aimed(c, k) => Aimed(c, k)'
  BY <1>1, AimedStays DEF ServeInv, StoreInv
<1>3. ASSUME NEW c \in indexed' PROVE c.key \in Key /\ Aimed(c.text, c.key)'
  <2>1. CASE c \in indexed
    BY <1>2, <2>1 DEF FreshInv
  <2>2. CASE c \in Indexable'
    BY <2>2 DEF ServeInv, StoreInv, Indexable, TypeOK, AimedInv
  <2> QED BY <2>1, <2>2 DEF StoreStep
<1>4. \A v \in Serving' : Aimed(v.text, v.key)'
  <2>1. (StoreInv /\ AimedInv => \A v \in Serving : Aimed(v.text, v.key))'
    BY ServingIsAimed, PTL
  <2> QED BY <2>1 DEF ServeInv
<1>5. ASSUME NEW q \in Reader
      PROVE  ReaderOK(q)'
  <2>1. /\ read[q].at \in Underway => served'[q] = served[q] \cup Serving'
        /\ read[q].at \notin Underway => served'[q] = served[q]
    BY DEF StoreStep
  <2>2. served[q] \subseteq served'[q]
    BY <2>1
  <2>3. MayRead' = MayRead
    BY DEF MayRead
  <2>4. ReaderOK(q)
    BY DEF FreshInv
  <2>5. \A v \in served'[q] : Aimed(v.text, v.key)'
    BY <1>2, <1>4, <2>1, <2>4 DEF ReaderOK
  <2> QED BY <1>1, <1>2, <2>1, <2>2, <2>3, <2>4, <2>5 DEF ReaderOK
<1> QED BY <1>1, <1>3, <1>5 DEF FreshInv

\* A reader that begins is served what is served then.
LEMMA FreshStart ==
  ASSUME FreshInv, ServeInv, NEW q \in Reader, NEW p, NEW k, NEW t, NEW l,
         Opens(q, p, k, t, l), l \notin {"found", "content"},
         l = "live" => k \in Key /\ Aimed(t, k),
         l = "bytes" => MayRead[p][k.doc] /\ \E v \in Serving : v.key = k
  PROVE  FreshInv'
<1>1. /\ read' = [read EXCEPT ![q] = [at |-> l, by |-> p, key |-> k, text |-> t]]
      /\ served' = [served EXCEPT ![q] = Serving]
      /\ Serving' = Serving /\ indexed' = indexed
  BY DEF Opens, vars, tables, Serving, Published, Exists
<1>2. \A c, j : Aimed(c, j)' = Aimed(c, j)
  BY DEF Opens, vars, requestVars, Aimed
<1>3. ReaderOK(q)'
  BY <1>1, <1>2, ServingIsAimed DEF ServeInv, FreshInv, ReaderOK, MayRead
<1>4. ASSUME NEW u \in Reader \ {q}
      PROVE  ReaderOK(u)'
  BY <1>1, <1>2 DEF FreshInv, ReaderOK, MayRead
<1> QED BY <1>1, <1>2, <1>3, <1>4 DEF FreshInv

\* A reader that goes on keeps who it is and what it is about.
MovesOn(q, l) ==
  /\ DOMAIN read' = Reader /\ read'[q].at = l
  /\ read'[q].by = read[q].by /\ read'[q].key = read[q].key
  /\ \A u \in Reader \ {q} : read'[u] = read[u]
  /\ UNCHANGED <<vars, indexed, served>>

\* It does so when a result is judged.
LEMMA Judged ==
  ASSUME NEW q \in Reader, DOMAIN read = Reader,
         DOMAIN read[q] = {"at", "by", "key", "text"}, NEW l, Becomes(q, l)
  PROVE  MovesOn(q, l) /\ read'[q].text = read[q].text
BY DEF Becomes, MovesOn

\* And when bytes are fetched, which are then its text.
LEMMA Fetched ==
  ASSUME NEW q \in Reader, DOMAIN read = Reader,
         DOMAIN read[q] = {"at", "by", "key", "text"}, NEW l, NEW m, Fetch(q, l, m)
  PROVE  /\ read[q].key \in DOMAIN bucket =>
              MovesOn(q, l) /\ read'[q].text = bucket[read[q].key].content
         /\ read[q].key \notin DOMAIN bucket => MovesOn(q, m)
BY DEF Fetch, MovesOn

\* It is given what it holds, or what it finds served or stored under its key.
LEMMA FreshStep ==
  ASSUME FreshInv, NEW q \in Reader, NEW l, MovesOn(q, l),
         read[q].at \in Underway, l \notin Underway,
         l \in {"found", "content"} =>
           /\ \E v \in served[q] : v.key = read[q].key
           /\ MayRead[read[q].by][read[q].key.doc] /\ Aimed(read'[q].text, read[q].key)
  PROVE  FreshInv'
<1>1. /\ Serving' = Serving /\ indexed' = indexed /\ served' = served
      /\ DOMAIN read' = Reader
  BY DEF MovesOn, vars, tables, Serving, Published, Exists
<1>2. \A c, j : Aimed(c, j)' = Aimed(c, j)
  BY DEF MovesOn, vars, requestVars, Aimed
<1>3. ReaderOK(q)'
  BY <1>1, <1>2 DEF MovesOn, FreshInv, ReaderOK, MayRead, Underway
<1>4. ASSUME NEW u \in Reader \ {q}
      PROVE  ReaderOK(u)'
  BY <1>1, <1>2 DEF MovesOn, FreshInv, ReaderOK, MayRead
<1> QED BY <1>1, <1>2, <1>3, <1>4 DEF FreshInv

\* Each action of a reader: what it may find is judged by rows served then.
LEMMA FreshReader ==
  ASSUME FreshInv, ServeInv, NEW q \in Reader, ReaderStep(q)
  PROVE  FreshInv'
<1>1. ASSUME NEW p \in Principal, NEW n, Retrieve(q, p, n)
      PROVE  FreshInv'
  <2>1. PICK l \in {"forbidden", "nothing", "live"} :
          \E k, t : Opens(q, p, k, t, l) /\ (l = "live" => k \in Key /\ Aimed(t, k))
    BY <1>1 DEF Retrieve, Refuses, FreshInv
  <2> QED BY <2>1, FreshStart
<1>2. ASSUME NEW p \in Principal, NEW d \in Doc, ReadRow(q, p, d)
      PROVE  FreshInv'
  <2>1. CASE Published(d) /\ MayRead[p][d] /\ Opens(q, p, row[d].key, NoText, "bytes")
    <3>1. \E v \in Serving : v.key = row[d].key
      BY <2>1, ServingIs
    <3>2. row[d].key.doc = d
      BY <2>1 DEF ServeInv, StoreInv, KeptInv, KeysNameTheirDocument, Published
    <3> QED BY <2>1, <3>1, <3>2, FreshStart
  <2>2. CASE Refuses(q, p, "not_found")
    BY <2>2, FreshStart DEF Refuses
  <2> QED BY <1>2, <2>1, <2>2 DEF ReadRow
<1>3. ASSUME NEW p \in Principal, NEW d \in Doc, ReadAnyRow(q, p, d)
      PROVE  FreshInv'
  <2>1. PICK l \in {"forbidden", "not_found", "draft"} : \E k, t : Opens(q, p, k, t, l)
    BY <1>3 DEF ReadAnyRow, Refuses
  <2> QED BY <2>1, FreshStart
<1>4. ASSUME read[q].at \in Underway
      PROVE  /\ DOMAIN read = Reader /\ DOMAIN read[q] = {"at", "by", "key", "text"}
             /\ Serving \subseteq served[q]
  BY <1>4 DEF FreshInv, ReaderOK
<1>5. CASE LiveCheck(q)
  <2>1. PICK l \in {"found", "dropped"} :
          /\ Becomes(q, l)
          /\ l = "found" => Fresh(read[q].key) /\ MayRead[read[q].by][read[q].key.doc]
    BY <1>5 DEF LiveCheck
  <2>2. read[q].at = "live" /\ read[q].key \in Key /\ Aimed(read[q].text, read[q].key)
    BY <1>5 DEF LiveCheck, FreshInv, ReaderOK
  <2>3. MovesOn(q, l) /\ read'[q].text = read[q].text
    BY <1>4, <2>1, <2>2, Judged DEF Underway
  <2>4. Fresh(read[q].key) => \E v \in Serving : v.key = read[q].key
    BY <2>2, ServingIs DEF Fresh, Key
  <2> QED BY <1>4, <2>1, <2>2, <2>3, <2>4, FreshStep DEF Underway
<1>6. CASE GetBytes(q)
  <2>1. read[q].at = "bytes" /\ Fetch(q, "content", "unavailable")
    BY <1>6 DEF GetBytes
  <2>2. PICK l \in {"content", "unavailable"} :
          MovesOn(q, l) /\ (l = "content" => Aimed(read'[q].text, read[q].key))
    BY <1>4, <2>1, Fetched DEF Underway, ServeInv, AimedInv
  <2> QED BY <2>1, <2>2, FreshStep DEF FreshInv, ReaderOK, Underway
<1>7. CASE GetDraft(q)
  <2>1. read[q].at = "draft" /\ Fetch(q, "preview", "blank")
    BY <1>7 DEF GetDraft
  <2>2. PICK l \in {"preview", "blank"} : MovesOn(q, l)
    BY <1>4, <2>1, Fetched DEF Underway
  <2> QED BY <2>1, <2>2, FreshStep DEF Underway
<1> QED BY <1>1, <1>2, <1>3, <1>5, <1>6, <1>7 DEF ReaderStep

\* A text that a search or a read returns was, at some moment since it began, that
\* of the current version of a published document, readable to its caller; or it
\* was uploaded by an edit to the very key of that version.
THEOREM FreshResults == SearchSpec => []FoundWasCurrent
<1>1. SearchInit => ServeInv /\ FreshInv
  <2> SUFFICES ASSUME SearchInit PROVE ServeInv /\ FreshInv
    OBVIOUS
  <2>1. ServeInv
    BY StoreInvInit, AimedInit DEF SearchInit, ServeInv
  <2>2. \A q \in Reader : read[q].at = "idle"
    BY DEF SearchInit, Unread
  <2>3. \A c \in indexed : c.key \in Key /\ Aimed(c.text, c.key)
    BY <2>1, IndexableIsAimed DEF SearchInit, ServeInv, StoreInv
  <2> QED BY <2>1, <2>2, <2>3 DEF SearchInit, FreshInv, ReaderOK, Underway
<1>2. ServeInv /\ FreshInv /\ [SearchNext]_searchVars => ServeInv' /\ FreshInv'
  <2> SUFFICES ASSUME ServeInv, FreshInv, [SearchNext]_searchVars PROVE ServeInv' /\ FreshInv'
    OBVIOUS
  <2>1. ServeInv'
    BY ServeNext
  <2>2. CASE StoreStep
    BY <2>1, <2>2, FreshStore
  <2>3. CASE UNCHANGED searchVars
    <3>1. /\ UNCHANGED <<read, indexed, served>> /\ Serving' = Serving
          /\ \A c, k : Aimed(c, k)' = Aimed(c, k)
      BY <2>3 DEF searchVars, readVars, vars, tables, requestVars, Serving, Published, Exists,
                  Aimed
    <3>2. ASSUME NEW q \in Reader
          PROVE  ReaderOK(q)'
      BY <3>1 DEF FreshInv, ReaderOK, MayRead
    <3>3. FreshInv'
      BY <3>1, <3>2 DEF FreshInv
    <3> QED BY <2>1, <3>3
  <2> QED BY <2>1, <2>2, <2>3, FreshReader DEF SearchNext
<1>3. ServeInv /\ FreshInv => FoundWasCurrent
  <2> SUFFICES ASSUME ServeInv, FreshInv, NEW q \in Reader, read[q].at \in {"found", "content"}
               PROVE  /\ MayRead[read[q].by][read[q].key.doc]
                      /\ \E v \in served[q] :
                           /\ v.key = read[q].key
                           /\ v.text = read[q].text \/ read[q].text \in EditsTo(v.key)
    BY DEF FoundWasCurrent
  <2>1. ReaderOK(q)
    BY DEF FreshInv
  <2>2. PICK v \in served[q] : v.key = read[q].key
    BY <2>1 DEF ReaderOK
  <2>3. Aimed(v.text, v.key) /\ Aimed(read[q].text, v.key)
    BY <2>1, <2>2 DEF ReaderOK
  <2>4. v.text = read[q].text \/ read[q].text \in EditsTo(v.key)
    BY <2>3, OneUpload DEF ServeInv, StoreInv
  <2> QED BY <2>1, <2>2, <2>4 DEF ReaderOK
<1> QED BY <1>1, <1>2, <1>3, PTL DEF SearchSpec

-----------------------------------------------------------------------------
(* Bytes.  A row that a reader has read names an object that is there, and    *)
(* stays there while the window of its document is open.                     *)

BytesHeld(q) ==
  /\ read[q].at \in {"bytes", "draft"} =>
       read[q].key \in DOMAIN bucket \/ read[q].key.doc \in lapsed
  /\ read[q].at \in Underway => DOMAIN read[q] = {"at", "by", "key", "text"}
  /\ read[q].at \in {"unavailable", "blank"} => read[q].key.doc \in lapsed

BytesInv == DOMAIN read = Reader /\ \A q \in Reader : BytesHeld(q)

\* The current version of a document has its bytes, or its window has closed.
LEMMA RowHasBytes ==
  ASSUME StoreInv, NEW d \in Doc, Exists(d)
  PROVE  row[d].key \in DOMAIN bucket \/ row[d].key.doc \in lapsed
<1>1. VersionOf(row[d]) \in versions[d]
  BY DEF StoreInv, HistoryInv, HistoryMatchesRow
<1>2. VersionOf(row[d]).key = row[d].key
  BY DEF VersionOf
<1>3. row[d].key.doc = d
  BY DEF StoreInv, KeptInv, KeysNameTheirDocument
<1> QED BY <1>1, <1>2, <1>3 DEF StoreInv, KeptInv, KeptUntilLapsed

\* A step of the store takes no object whose document's window is open.
LEMMA BytesStore ==
  ASSUME StoreInv, BytesInv, StoreStep
  PROVE  BytesInv'
<1>1. /\ lapsed \subseteq lapsed' /\ read' = read
      /\ \A k \in DOMAIN bucket : k.doc \notin lapsed => k \in DOMAIN bucket'
  BY ObjectsStay DEF StoreStep, StoreInv, KeptInv
<1> QED BY <1>1 DEF BytesInv, BytesHeld

\* A reader begins with the key of an object that is there.
LEMMA BytesOpen ==
  ASSUME BytesInv, NEW q \in Reader, NEW p, NEW k, NEW t, NEW l, Opens(q, p, k, t, l),
         l \notin {"unavailable", "blank"},
         l \in {"bytes", "draft"} => k \in DOMAIN bucket \/ k.doc \in lapsed
  PROVE  BytesInv'
<1>1. /\ read' = [read EXCEPT ![q] = [at |-> l, by |-> p, key |-> k, text |-> t]]
      /\ UNCHANGED <<bucket, lapsed>>
  BY DEF Opens, vars
<1> QED BY <1>1 DEF BytesInv, BytesHeld

\* A reader ends without the bytes only where they may be gone.
LEMMA BytesStep ==
  ASSUME BytesInv, NEW q \in Reader, NEW l, MovesOn(q, l), l \notin Underway,
         l \in {"unavailable", "blank"} => read[q].key.doc \in lapsed
  PROVE  BytesInv'
<1>1. UNCHANGED <<bucket, lapsed>>
  BY DEF MovesOn, vars
<1> QED BY <1>1 DEF MovesOn, BytesInv, BytesHeld, Underway

\* Each action of a reader, in the same way.
LEMMA BytesReader ==
  ASSUME BytesInv, StoreInv, NEW q \in Reader, ReaderStep(q)
  PROVE  BytesInv'
<1>1. ASSUME NEW p \in Principal, NEW n, Retrieve(q, p, n)
      PROVE  BytesInv'
  <2>1. PICK l \in {"forbidden", "nothing", "live"} : \E k, t : Opens(q, p, k, t, l)
    BY <1>1 DEF Retrieve, Refuses
  <2> QED BY <2>1, BytesOpen
<1>2. ASSUME NEW p \in Principal, NEW d \in Doc, ReadRow(q, p, d) \/ ReadAnyRow(q, p, d)
      PROVE  BytesInv'
  <2>1. CASE Exists(d) /\ \E l \in {"bytes", "draft"} : Opens(q, p, row[d].key, NoText, l)
    BY <2>1, RowHasBytes, BytesOpen
  <2>2. CASE \E l \in {"not_found", "forbidden"} : Refuses(q, p, l)
    BY <2>2, BytesOpen DEF Refuses
  <2> QED BY <1>2, <2>1, <2>2 DEF ReadRow, ReadAnyRow, Published
<1>3. ASSUME read[q].at \in Underway
      PROVE  DOMAIN read = Reader /\ DOMAIN read[q] = {"at", "by", "key", "text"}
  BY <1>3 DEF BytesInv, BytesHeld
<1>4. CASE LiveCheck(q)
  <2>1. PICK l \in {"found", "dropped"} : Becomes(q, l)
    BY <1>4 DEF LiveCheck
  <2>2. MovesOn(q, l)
    BY <1>3, <1>4, <2>1, Judged DEF LiveCheck, Underway
  <2> QED BY <2>1, <2>2, BytesStep DEF Underway
<1>5. CASE GetBytes(q) \/ GetDraft(q)
  <2>1. read[q].at \in {"bytes", "draft"}
    BY <1>5 DEF GetBytes, GetDraft
  <2>2. read[q].key \in DOMAIN bucket \/ read[q].key.doc \in lapsed
    BY <2>1 DEF BytesInv, BytesHeld
  <2>3. PICK l \in {"content", "unavailable", "preview", "blank"} :
          /\ MovesOn(q, l)
          /\ l \in {"unavailable", "blank"} => read[q].key \notin DOMAIN bucket
    BY <1>3, <1>5, <2>1, Fetched DEF GetBytes, GetDraft, Underway
  <2> QED BY <2>2, <2>3, BytesStep DEF Underway
<1> QED BY <1>1, <1>2, <1>4, <1>5 DEF ReaderStep

\* A reader is told that content is unavailable, or shown an empty text, only if
\* the retention window of the document has closed.
THEOREM BytesAreThere == SearchSpec => []ContentIsThere
<1>1. SearchInit => StoreInv /\ BytesInv
  BY StoreInvInit DEF SearchInit, BytesInv, BytesHeld, Unread, Underway
<1>2. StoreInv /\ BytesInv /\ [SearchNext]_searchVars => StoreInv' /\ BytesInv'
  <2> SUFFICES ASSUME StoreInv, BytesInv, [SearchNext]_searchVars PROVE StoreInv' /\ BytesInv'
    OBVIOUS
  <2>1. StoreInv'
    BY StoreNext
  <2>2. CASE UNCHANGED searchVars
    BY <2>1, <2>2 DEF searchVars, readVars, vars, BytesInv, BytesHeld
  <2> QED BY <2>1, <2>2, BytesStore, BytesReader DEF SearchNext
<1>3. BytesInv => ContentIsThere
  BY DEF BytesInv, BytesHeld, ContentIsThere
<1> QED BY <1>1, <1>2, <1>3, PTL DEF SearchSpec
=============================================================================
