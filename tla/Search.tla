-------------------------------- MODULE Search --------------------------------
(***************************************************************************)
(* Readers of documents beside the requests and the purge that change      *)
(* them: a search over the index (knowledge/search.ts, ai-search.ts)       *)
(* and a document by its id (knowledge/documents.ts).                      *)
(*                                                                         *)
(* AI Search indexes the bucket in its own time and promises nothing of    *)
(* when: a search may return the text of any object the bucket has ever    *)
(* held whose metadata passed the filters.  A result is judged by itself,  *)
(* so a search is followed through one of its chunks.  A document's        *)
(* classification and domain never change, and its validity dates are left *)
(* out, as they are in Documents.                                          *)
(***************************************************************************)
EXTENDS Documents, Sequences

CONSTANTS
  Reader,           \* reads; each is used once
  Principal,        \* who reads
  PermissionsOf,    \* and with which permissions
  TierOf, DomainOf, \* of each document
  Narrowing,        \* the domains a search may ask for
  Segment, Star, Blank,
  NoDomain, NoKey, NoText

Acl == INSTANCE Access

ASSUME SearchAssumption ==
  /\ TierOf \in [Doc -> Acl!Tier] /\ DomainOf \in [Doc -> Acl!Name]
  /\ Narrowing \subseteq Acl!Name /\ NoDomain \notin Narrowing /\ NoKey \notin Key
  /\ NoText \notin Content
  /\ \A p \in Principal : PermissionsOf[p] \subseteq Acl!Key
  /\ {"search", "admin"} \subseteq Segment

VARIABLES
  read,     \* what each reader is doing, for whom, the key it is about and the text
  indexed,  \* the published objects the bucket has ever held: each key with its text
  served    \* history: the keys and texts of the documents published since each began

readVars   == <<read, indexed, served>>
searchVars == <<vars, readVars>>

Underway  == {"live", "bytes", "draft"}
Outcome   == {"found", "dropped", "nothing", "content", "unavailable", "preview", "blank",
              "not_found", "forbidden"}
Unread    == [at |-> "idle"]

-----------------------------------------------------------------------------
Published(d) == Exists(d) /\ row[d].status = "active"
Serving      == {[key |-> row[d].key, text |-> row[d].content] :
                   d \in {e \in Doc : Published(e)}}

\* What AI Search would index now.
Indexable == {[key |-> k, text |-> bucket[k].content] :
                k \in {j \in DOMAIN bucket : bucket[j].status = "active"}}

\* What a caller may do, as tables.
May     == [p \in Principal |-> [a \in {<<"knowledge", "search">>, <<"admin", "documents">>} |->
              Acl!hasPermission(PermissionsOf[p], a)]]
MayRead == [p \in Principal |-> [d \in Doc |->
              Acl!authorize(PermissionsOf[p], Acl!DocumentsRead, DomainOf[d], TierOf[d])]]

\* The filters of a query: the caller's tiers, and its domains, or the one it
\* asks for if it may read that.
Filtered == [p \in Principal |-> [n \in Narrowing \cup {NoDomain} |->
  LET perms == PermissionsOf[p] IN
  {d \in Doc : /\ TierOf[d] \in Acl!permittedClassifications(perms)
               /\ IF n = NoDomain THEN Acl!InScope(Acl!documentDomainScope(perms), DomainOf[d])
                  ELSE /\ DomainOf[d] = n
                       /\ Acl!hasPermission(perms, Acl!DocumentsRead \o n)}]]

SearchInit ==
  /\ Init
  /\ read = [q \in Reader |-> Unread]
  /\ indexed = Indexable /\ served = [q \in Reader |-> {}]

-----------------------------------------------------------------------------
Opens(q, p, k, t, l) ==
  /\ read[q] = Unread
  /\ read' = [read EXCEPT ![q] = [at |-> l, by |-> p, key |-> k, text |-> t]]
  /\ served' = [served EXCEPT ![q] = Serving]
  /\ UNCHANGED <<vars, indexed>>

Becomes(q, l) ==
  /\ read' = [read EXCEPT ![q].at = l]
  /\ UNCHANGED <<vars, indexed, served>>

Refuses(q, p, l) == Opens(q, p, NoKey, NoText, l)

\* searchKnowledge up to the answer of the index: a chunk with its text.
Retrieve(q, p, n) ==
  \/ ~May[p][<<"knowledge", "search">>] /\ Refuses(q, p, "forbidden")
  \/ May[p][<<"knowledge", "search">>] /\ Refuses(q, p, "nothing")
  \/ /\ May[p][<<"knowledge", "search">>]
     /\ \E c \in indexed : c.key.doc \in Filtered[p][n] /\ Opens(q, p, c.key, c.text, "live")

\* getManyByIds, one statement, and what each chunk must pass to be returned:
\* the document is there and active, the chunk is of its current object, and the
\* caller may read it.
MutFresh(k) == Published(k.doc)
Fresh(k)    == Published(k.doc) /\ row[k.doc].key = k

LiveCheck(q) ==
  /\ read[q].at = "live"
  /\ LET k == read[q].key IN
     Becomes(q, IF Fresh(k) /\ MayRead[read[q].by][k.doc] THEN "found" ELSE "dropped")

\* getDocumentContent: the row first, the bytes afterwards.
ReadRow(q, p, d) ==
  \/ /\ Published(d) /\ MayRead[p][d]
     /\ Opens(q, p, row[d].key, NoText, "bytes")
  \/ /\ ~(Published(d) /\ MayRead[p][d])
     /\ Refuses(q, p, "not_found")

\* Whatever the key holds by now is the text.
Fetch(q, there, missing) ==
  LET k == read[q].key IN
  /\ read' = [read EXCEPT ![q].at = IF k \in DOMAIN bucket THEN there ELSE missing,
                          ![q].text = IF k \in DOMAIN bucket THEN bucket[k].content ELSE @]
  /\ UNCHANGED <<vars, indexed, served>>

GetBytes(q) == read[q].at = "bytes" /\ Fetch(q, "content", "unavailable")

\* getAdminDocument: whatever its status, and missing bytes are shown as an
\* empty text.
ReadAnyRow(q, p, d) ==
  \/ ~May[p][<<"admin", "documents">>] /\ Refuses(q, p, "forbidden")
  \/ /\ May[p][<<"admin", "documents">>] /\ Exists(d) /\ MayRead[p][d]
     /\ Opens(q, p, row[d].key, NoText, "draft")
  \/ /\ May[p][<<"admin", "documents">>] /\ ~(Exists(d) /\ MayRead[p][d])
     /\ Refuses(q, p, "not_found")

GetDraft(q) == read[q].at = "draft" /\ Fetch(q, "preview", "blank")

ReaderStep(q) ==
  \/ \E p \in Principal : \/ \E n \in Narrowing \cup {NoDomain} : Retrieve(q, p, n)
                          \/ \E d \in Doc : ReadRow(q, p, d) \/ ReadAnyRow(q, p, d)
  \/ LiveCheck(q) \/ GetBytes(q) \/ GetDraft(q)

\* A step of the store, as the index and the readers under way may see it.
StoreStep ==
  /\ Next /\ UNCHANGED read
  /\ indexed' = indexed \cup Indexable'
  /\ served' = [q \in Reader |-> IF read[q].at \in Underway THEN served[q] \cup Serving'
                                 ELSE served[q]]

SearchNext == StoreStep \/ \E q \in Reader : ReaderStep(q)

SearchSpec == SearchInit /\ [][SearchNext]_searchVars

-----------------------------------------------------------------------------
(* Properties.                                                              *)

\* The edits whose bytes went to a key.
EditsTo(k) == {r \in Req : req[r] # NoRequest /\ req[r].op = "edit" /\ req[r].key = k}

\* However stale the index is and whatever is published, replaced or withdrawn
\* while a reader is under way, what it is given is the text of a version that at
\* some moment since it began was the current one of a published document it may
\* read: a text withdrawn before a search began is never found (search.ts, "an
\* edit that removes a wrong price ... has to actually remove it from what search
\* will say").  One thing else may be under the key of that version: the bytes of
\* another edit that were uploaded to it, accepted or not, which no check of
\* keys can tell from its own (VersionBytesImmutable).
FoundWasCurrent ==
  \A q \in Reader : read[q].at \in {"found", "content"} =>
    /\ MayRead[read[q].by][read[q].key.doc]
    /\ \E v \in served[q] : /\ v.key = read[q].key
                            /\ v.text = read[q].text \/ read[q].text \in EditsTo(v.key)

\* Bytes that a reader's row names are missing only if the document's retention
\* window has closed meanwhile: neither an edit under way nor a failed one shows
\* a reader "content is unavailable", or the console an empty text it might save
\* over the document (documents.ts, getDocumentContent and getAdminDocument).
ContentIsThere ==
  \A q \in Reader : read[q].at \in {"unavailable", "blank"} => read[q].key.doc \in lapsed
=============================================================================
