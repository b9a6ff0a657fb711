------------------------------- MODULE Listings -------------------------------
(***************************************************************************)
(* The reads of facts: by key, by namespace, by search, and the console's  *)
(* page by page (knowledge/facts.ts, knowledge/fact-search.ts and the      *)
(* queries of facts.repository.ts), for one principal, while writers       *)
(* change the table between two pages.                                     *)
(*                                                                         *)
(* A fact is a number, in the order of (namespace, key).  Of a row only    *)
(* what a read depends on is kept; each write is the change one statement  *)
(* of the store, all of them in Facts, makes to those columns.  The text   *)
(* matched by a search and its scores are left out: a query matches all.   *)
(***************************************************************************)
EXTENDS Access

CONSTANTS
  Fact,         \* numbers, in the order the listings use
  NamespaceOf,  \* the namespace of each
  Principal,    \* who may read
  PermissionsOf, \* and with which permissions
  PageSizes,    \* the limits a client may ask for
  Tiers,        \* the tiers the rows of this instance use
  MaxWrites,    \* bounds the changes made during a behaviour
  NoRow

FactStatus == {"active", "deprecated"}

\* `current`: the validity window contains the present.
Row == [tier : Tier, status : FactStatus, before : FactStatus \cup {"none"}, current : BOOLEAN]

AdminFacts == <<"admin", "facts">>

ASSUME ListingsAssumption ==
  /\ Fact \subseteq Nat /\ IsFiniteSet(Fact) /\ NamespaceOf \in [Fact -> Name]
  /\ \A p \in Principal : /\ PermissionsOf[p] \subseteq Key
                         /\ NoDeeperWildcard(PermissionsOf[p], FactsRead)
  /\ PageSizes \subseteq Nat \ {0} /\ Tiers \subseteq Tier /\ MaxWrites \in Nat
  /\ {"admin"} \subseteq Segment /\ NoRow \notin Row

VARIABLES
  facts,    \* table facts; a row is in the trash when `before` is set
  reader,   \* the principal that reads
  page,     \* the client's walk: next offset, page size, under way or not
  seen,     \* the facts its pages have shown
  repeated, \* history: some page showed a fact again
  start,    \* history: what the listing held when the walk began
  left,     \* history: a fact left the listing during the walk
  entered,  \* history: a fact entered it
  writes

walk == <<page, seen, repeated, start>>
vars == <<facts, reader, walk, left, entered, writes>>

-----------------------------------------------------------------------------
Exists(f)  == facts[f] # NoRow
InTrash(f) == Exists(f) /\ facts[f].before # "none"
MutKept(f) == Exists(f)
Kept(f)    == Exists(f) /\ facts[f].before = "none"
Active(f)  == Kept(f) /\ facts[f].status = "active"

\* What each principal may do and read, as tables.
Namespace == {NamespaceOf[f] : f \in Fact}
MayListOf == [p \in Principal |-> hasPermission(PermissionsOf[p], AdminFacts)]
TiersOf   == [p \in Principal |-> permittedClassifications(PermissionsOf[p])]
ScopeOf   == [p \in Principal |-> factNamespaceScope(PermissionsOf[p])]
MayReadAt == [p \in Principal |-> [ns \in Namespace |->
                [t \in Tier |-> authorize(PermissionsOf[p], FactsRead, ns, t)]]]

MayRead(f)   == MayReadAt[reader][NamespaceOf[f]][facts[f].tier]
Permitted(f) == facts[f].tier \in TiersOf[reader]

\* No permitted tier or no readable namespace: the caller is answered nothing.
Blind == TiersOf[reader] = {} \/ EmptyScope(ScopeOf[reader])

\* LIMIT and OFFSET over the rows of S in their order.
Rank(f, S)             == Cardinality({g \in S : g <= f})
Limited(S, size, from) == {f \in S : from < Rank(f, S) /\ Rank(f, S) <= from + size}

\* The WHERE of listAll and countByNamespace: bounded by scope and tier.
MutScoped(f) == Permitted(f)
Scoped(f)    == InScope(ScopeOf[reader], NamespaceOf[f]) /\ Permitted(f)

-----------------------------------------------------------------------------
(* The reads.                                                               *)

\* getFact, and with it getIncident and getKnownIssue.
Answered(f)    == Active(f) /\ facts[f].current /\ MayRead(f)

\* getFacts: the page is cut first and filtered afterwards.
getFacts(ns, size, from) ==
  {f \in Limited({g \in Fact : NamespaceOf[g] = ns /\ Active(g)}, size, from) :
     facts[f].current /\ MayRead(f)}

\* FactSearchService.search, narrowed to a namespace or not: the candidates are
\* cut to four times the limit, then dropped unless current and readable.
CANDIDATE_MULTIPLE == 4

SearchScoped(f, narrowed) ==
  /\ Permitted(f)
  /\ IF narrowed = {} THEN InScope(ScopeOf[reader], NamespaceOf[f])
     ELSE /\ NamespaceOf[f] \in narrowed
          /\ hasPermission(PermissionsOf[reader], FactsRead \o NamespaceOf[f])

MutCandidates(narrowed, size) ==
  Limited({f \in Fact : Kept(f) /\ SearchScoped(f, narrowed)}, CANDIDATE_MULTIPLE * size, 0)
Candidates(narrowed, size) ==
  Limited({f \in Fact : Active(f) /\ SearchScoped(f, narrowed)}, CANDIDATE_MULTIPLE * size, 0)

searchFacts(narrowed, size) ==
  Limited({f \in Candidates(narrowed, size) : facts[f].current /\ MayRead(f)}, size, 0)

\* listNamespaces: how many active facts of a namespace the caller may read.
factCount(ns) ==
  IF Blind THEN 0
  ELSE Cardinality({f \in Fact : NamespaceOf[f] = ns /\ Active(f) /\ Scoped(f) /\ MayRead(f)})

\* listFactsForAdmin without filters, a page of it.
Listed == {f \in Fact : Kept(f) /\ Scoped(f)}

MutListFactsForAdmin(size, from) ==        \* the offset counts from one
  IF Blind \/ ~MayListOf[reader] THEN {}
  ELSE {f \in Limited(Listed, size, IF from = 0 THEN 0 ELSE from - 1) : MayRead(f)}
listFactsForAdmin(size, from) ==
  IF Blind \/ ~MayListOf[reader] THEN {}
  ELSE {f \in Limited(Listed, size, from) : MayRead(f)}

\* The trash has a listing of its own, shown here whole.
listTrash ==
  IF Blind \/ ~MayListOf[reader] THEN {}
  ELSE {f \in Fact : InTrash(f) /\ Scoped(f) /\ MayRead(f)}

-----------------------------------------------------------------------------
(* A client reads the console's listing page by page until one is short.    *)

Init ==
  /\ facts \in [Fact -> Row \cup {NoRow}]
  /\ \A f \in Fact : /\ Exists(f) => facts[f].tier \in Tiers /\ facts[f].current /\ ~InTrash(f)
  /\ reader \in Principal
  /\ page = [from |-> 0, size |-> 0, at |-> "idle"]
  /\ seen = {} /\ start = {} /\ repeated = FALSE
  /\ left = FALSE /\ entered = FALSE /\ writes = 0

WalkStart(size) ==
  /\ page.at = "idle"
  /\ page' = [from |-> 0, size |-> size, at |-> "walking"]
  /\ start' = IF Blind \/ ~MayListOf[reader] THEN {} ELSE Listed
  /\ UNCHANGED <<facts, reader, seen, repeated, left, entered, writes>>

NextPage ==
  /\ page.at = "walking"
  /\ LET got == listFactsForAdmin(page.size, page.from) IN
     /\ seen' = seen \cup got
     /\ repeated' = (repeated \/ got \cap seen # {})
     /\ page' = IF Cardinality(got) < page.size THEN [page EXCEPT !.at = "done"]
                ELSE [page EXCEPT !.from = @ + page.size]
  /\ UNCHANGED <<facts, reader, start, left, entered, writes>>

-----------------------------------------------------------------------------
(* The writes.                                                              *)

\* A batch that inserts, or updates, a fact.  The UPDATE names only the key, so
\* it may find the row deprecated or in the trash; it gives a status and a tier.
Write(f, r) == 
  /\ writes < MaxWrites /\ writes' = writes + 1
  /\ facts' = [facts EXCEPT ![f] = r] /\ UNCHANGED <<reader, walk>>
  /\ left'    = (left \/ (page.at = "walking" /\ ~(Listed \subseteq Listed')))
  /\ entered' = (entered \/ (page.at = "walking" /\ ~(Listed' \subseteq Listed)))

Create(f) ==
  /\ ~Exists(f)
  /\ \E t \in Tiers, c \in BOOLEAN :
       Write(f, [tier |-> t, status |-> "active", before |-> "none", current |-> c])

Update(f) ==
  /\ Exists(f)
  /\ \E t \in Tiers, s \in FactStatus : Write(f, [facts[f] EXCEPT !.tier = t, !.status = s])

MutTrash(f) ==                            \* with the status readers are shown
  /\ Kept(f)
  /\ Write(f, [facts[f] EXCEPT !.before = facts[f].status, !.status = "trashed"])
Trash(f) ==
  /\ Kept(f)
  /\ Write(f, [facts[f] EXCEPT !.before = facts[f].status, !.status = "deprecated"])

Restore(f) ==
  /\ InTrash(f)
  /\ Write(f, [facts[f] EXCEPT !.status = facts[f].before, !.before = "none"])

Purge(f) == InTrash(f) /\ Write(f, NoRow)

\* valid_from or valid_until passes.
TimePasses(f) == Exists(f) /\ Write(f, [facts[f] EXCEPT !.current = ~@])

Next ==
  \/ \E size \in PageSizes : WalkStart(size)
  \/ NextPage
  \/ \E f \in Fact : \/ Create(f) \/ Update(f) \/ Trash(f) \/ Restore(f)
                     \/ Purge(f) \/ TimePasses(f)

Spec == Init /\ [][Next]_vars

-----------------------------------------------------------------------------
(* Properties.                                                              *)

\* Rows, permissions and the walk hold values of their kind.
ListingsTypeOK ==
  /\ facts \in [Fact -> Row \cup {NoRow}] /\ reader \in Principal
  /\ page \in [from : Nat, size : Nat, at : {"idle", "walking", "done"}]
  /\ page.at # "idle" => page.size \in PageSizes
  /\ seen \subseteq Fact /\ start \subseteq Fact
  /\ {repeated, left, entered} \subseteq BOOLEAN /\ writes \in 0..MaxWrites

\* Every way to find a fact agrees with the lookup by its key: the list of a
\* namespace and a search return nothing the lookup would refuse, and miss
\* nothing it would answer while their limit holds it; no namespace that has an
\* answer is left out of the namespaces, nor one without a readable fact put in
\* (SR-008; knowledge/facts.ts and fact-search.ts each filter in their own way).
ReadsAgree ==
  LET all      == Cardinality(Fact)
      answered == {f \in Fact : Answered(f)}
      within(ns) == {f \in answered : NamespaceOf[f] = ns}
  IN /\ searchFacts({}, all) = answered
     /\ \A size \in PageSizes : searchFacts({}, size) \subseteq answered
     /\ \A ns \in Namespace :
          /\ getFacts(ns, all, 0) = within(ns)
          /\ searchFacts({ns}, all) = within(ns)
          /\ \A size \in PageSizes, from \in 0..all : getFacts(ns, size, from) \subseteq within(ns)
          /\ within(ns) # {} => factCount(ns) > 0
          /\ factCount(ns) > 0 => \E f \in Fact : Exists(f) /\ NamespaceOf[f] = ns /\ MayRead(f)

\* An administrator sees each fact its clearance covers in exactly one of the
\* listing and the trash, and nothing else in either: a fact does not become
\* visible to someone new by being deleted (listFactsForAdmin, listTrash).
EveryFactIsListedOnce ==
  LET whole == listFactsForAdmin(Cardinality(Fact), 0) IN
  /\ whole \cap listTrash = {}
  /\ MayListOf[reader] =>
       whole \cup listTrash = {f \in Fact : Exists(f) /\ MayRead(f)}

\* A client that walks the pages until one is short has seen everything that was
\* listed when it began, whatever was added or reclassified meanwhile, unless
\* something left the listing: scope and tier are applied in the query, so no
\* page is short of rows the caller may not see (facts.repository.ts, listAll).
WalkIsComplete == page.at = "done" /\ ~left => start \subseteq seen

\* ... and no fact twice, unless something entered it or left it.
WalkRepeatsNothing == repeated => entered \/ left
=============================================================================
