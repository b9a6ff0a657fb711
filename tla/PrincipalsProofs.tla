-------------------------- MODULE PrincipalsProofs --------------------------
(***************************************************************************)
(* What administration keeps true of principals, for any principals,       *)
(* roles, identities and number of requests.                               *)
(***************************************************************************)
EXTENDS Principals, TLAPS

Held(p) == hasPermission(HeldInitially, p)

\* A request at its last steps was asked for what those steps do.
Staged ==
  \A r \in Req :
    /\ pc[r] = "insert" => order[r].op = "create"
    /\ pc[r] = "assign" => order[r].op \in {"create", "assign"}
    /\ pc[r] = "unassign" => order[r].op = "unassign"
    /\ pc[r] = "set" => order[r].op = "status"
    /\ pc[r] \in {"count", "purge", "tombstone"} => order[r].op = "delete"

\* What a request acts with, and what it is about to hand out, was held.
Contained ==
  \A r \in Req :
    /\ \A p \in granted[r] : Held(p)
    /\ pc[r] \in {"insert", "assign"} =>
         \A p \in PermissionsOf(order[r].roles) : Held(p)

Inv == /\ PrincipalsTypeOK /\ Staged
       /\ RecordsKeepTheirPrincipal /\ OneAgentPerIdentity /\ DeletedIsDeleted
       /\ NobodyGainsWhatNobodyHad /\ Contained

-----------------------------------------------------------------------------
(* Permissions.                                                             *)

\* To satisfy is transitive: a wildcard's own wildcards stay below it.
LEMMA SatisfiesTransitive ==
  ASSUME NEW g \in Key, NEW h \in Key, NEW k \in Key,
         permissionSatisfies(g, h), permissionSatisfies(h, k)
  PROVE  permissionSatisfies(g, k)
<1>1. CASE g = h \/ h = k BY <1>1
<1>2. CASE g # h /\ h # k
  <2>1. /\ IsWildcard(g) /\ Extends(h, g) /\ Extends(k, h)
        /\ g # <<Blank>> /\ k # <<Blank>>
    BY <1>2 DEF permissionSatisfies
  <2>2. Len(g) \in Nat /\ Len(h) \in Nat /\ Len(k) \in Nat BY DEF Key
  <2>3. Extends(k, g)
    <3>1. /\ Len(h) >= Len(g) /\ Len(k) >= Len(h)
          /\ \A i \in 1..Len(g) - 1 : h[i] = g[i]
          /\ \A i \in 1..Len(h) - 1 : k[i] = h[i]
          /\ Len(k) = Len(h) => k[Len(h)] # Blank
      BY <2>1 DEF Extends
    <3>2. \A i \in 1..Len(g) - 1 : k[i] = g[i]
      <4> SUFFICES ASSUME NEW i \in 1..Len(g) - 1 PROVE k[i] = g[i] OBVIOUS
      <4>1. i \in 1..Len(h) - 1 BY <2>2, <3>1
      <4> QED BY <3>1, <4>1
    <3>3. Len(k) >= Len(g) BY <2>2, <3>1
    <3>4. Len(k) = Len(g) => k[Len(g)] # Blank
      <4>1. Len(k) = Len(g) => Len(h) = Len(g) BY <2>2, <3>1
      <4> QED BY <3>1, <4>1
    <3> QED BY <3>2, <3>3, <3>4 DEF Extends
  <2> QED BY <2>1, <2>3 DEF permissionSatisfies
<1> QED BY <1>1, <1>2

LEMMA PermissionsAreKeys ==
  ASSUME NEW rs \in SUBSET Role PROVE PermissionsOf(rs) \subseteq Key \ {<<Blank>>}
BY PrincipalsAssumption DEF PermissionsOf

LEMMA HeldInitiallyAreKeys == HeldInitially \subseteq Key \ {<<Blank>>}
<1>1. UNION {InitialRoles[a] : a \in {b \in Agent : Initially[b] # NoRow}} \in SUBSET Role
  BY PrincipalsAssumption
<1> QED BY <1>1, PermissionsAreKeys DEF HeldInitially

\* What a set of held permissions satisfies is held.
LEMMA HeldTransitive ==
  ASSUME NEW P \in SUBSET Key, \A p \in P : Held(p), NEW k \in Key, hasPermission(P, k)
  PROVE  Held(k)
<1>1. PICK p \in P : permissionSatisfies(p, k) BY DEF hasPermission
<1>2. PICK q \in HeldInitially : permissionSatisfies(q, p) BY DEF Held, hasPermission
<1>3. permissionSatisfies(q, k)
  BY <1>1, <1>2, HeldInitiallyAreKeys, SatisfiesTransitive
<1> QED BY <1>3 DEF Held, hasPermission

-----------------------------------------------------------------------------
(* Orders and rows.                                                         *)

LEMMA OrderFields ==
  ASSUME NEW o \in Order
  PROVE  /\ o.op # "file" => o.target \in Agent
         /\ o.op \in {"create", "assign", "unassign"} => o.roles \in SUBSET Role
         /\ o.op = "create" => o.link \in Identity \cup {NoIdentity}
         /\ o.op = "status" => o.status \in Status
         /\ o.op \in {"create", "assign", "unassign", "delete", "status", "file"}
BY DEF Order, Creation, RoleChange

LEMMA OrderWithout ==
  ASSUME NEW o \in Order, o.op \in {"create", "assign"}, NEW x
  PROVE  /\ [o EXCEPT !.roles = @ \ {x}] \in Order
         /\ [o EXCEPT !.roles = @ \ {x}].op = o.op
         /\ [o EXCEPT !.roles = @ \ {x}].roles = o.roles \ {x}
<1>1. CASE o \in Creation BY <1>1 DEF Order, Creation
<1>2. CASE o \in RoleChange BY <1>2 DEF Order, RoleChange
<1> QED BY <1>1, <1>2 DEF Order, Creation, RoleChange

LEMMA RowChanges ==
  ASSUME NEW w \in AgentRow
  PROVE  /\ \A s \in Status :
              /\ [w EXCEPT !.status = s] \in AgentRow
              /\ [w EXCEPT !.status = s].link = w.link
              /\ [w EXCEPT !.status = s].deleted = w.deleted
         /\ Tombstone(w) \in AgentRow
         /\ Tombstone(w).link = NoIdentity
         /\ Tombstone(w).status = w.status
         /\ Tombstone(w).deleted
BY DEF AgentRow, Tombstone, Mode

-----------------------------------------------------------------------------
LEMMA InitInv == Init => Inv
<1> SUFFICES ASSUME Init PROVE Inv OBVIOUS
<1> USE PrincipalsAssumption DEF Init
<1>1. /\ holds \in [Agent -> SUBSET Role]
      /\ \A a \in Agent : holds[a] # {} => Initially[a] # NoRow /\ holds[a] = InitialRoles[a]
  BY DEF Exists
<1>2. PrincipalsTypeOK BY <1>1 DEF PrincipalsTypeOK, Exists
<1>3. Staged /\ Contained BY DEF Staged, Contained
<1>4. RecordsKeepTheirPrincipal BY DEF RecordsKeepTheirPrincipal, Exists
<1>5. OneAgentPerIdentity /\ DeletedIsDeleted
  BY InitialTableAssumption DEF OneAgentPerIdentity, DeletedIsDeleted, Exists
<1>6. NobodyGainsWhatNobodyHad
  <2> SUFFICES ASSUME NEW a \in Agent, NEW p \in PermissionsOf(holds[a])
               PROVE  hasPermission(HeldInitially, p)
    BY DEF NobodyGainsWhatNobodyHad
  <2>1. holds[a] # {} BY DEF PermissionsOf
  <2>2. p \in PermissionsOf(InitialRoles[a]) /\ Initially[a] # NoRow BY <2>1, <1>1
  <2>3. p \in HeldInitially BY <2>2 DEF HeldInitially, PermissionsOf
  <2>4. p # <<Blank>> BY <2>3, HeldInitiallyAreKeys
  <2> QED BY <2>3, <2>4 DEF hasPermission, permissionSatisfies
<1> QED BY <1>2, <1>3, <1>4, <1>5, <1>6 DEF Inv

-----------------------------------------------------------------------------
(* Where only requests change: authentication, the handlers' reads.         *)

\* What is said of the tables alone survives.
LEMMA TablesKept ==
  ASSUME Inv, UNCHANGED tables
  PROVE  /\ RecordsKeepTheirPrincipal' /\ OneAgentPerIdentity' /\ DeletedIsDeleted'
         /\ NobodyGainsWhatNobodyHad'
BY DEF Inv, tables, RecordsKeepTheirPrincipal, OneAgentPerIdentity, DeletedIsDeleted,
       NobodyGainsWhatNobodyHad, Exists

LEMMA ArriveInv ==
  ASSUME Inv, NEW r \in Req, NEW o \in Orders, NEW c \in Credentials, Arrive(r, o, c)
  PROVE  Inv'
<1> USE PrincipalsAssumption DEF Inv
<1>1. NamedBy(c) \subseteq Agent
  <2>1. c.kind \in {"token", "rpc", "jwt"} /\ (c.kind \in {"rpc", "jwt"} => c.key \in Agent)
    BY DEF Credential, Token
  <2> QED BY <2>1 DEF NamedBy, LinkedTo
<1>2. PICK a \in Agent : actor' = [actor EXCEPT ![r] = a] BY <1>1 DEF Arrive
<1>3. /\ UNCHANGED <<tables, granted>> /\ o \in Order
      /\ order' = [order EXCEPT ![r] = o] /\ pc' = [pc EXCEPT ![r] = "resolve"]
  BY DEF Arrive, Goto
<1>4. PrincipalsTypeOK'
  BY <1>2, <1>3 DEF PrincipalsTypeOK, Working, tables, Exists
<1>5. Staged' BY <1>3 DEF Staged, PrincipalsTypeOK
<1>6. Contained' BY <1>3 DEF Contained, PrincipalsTypeOK
<1> QED BY <1>3, <1>4, <1>5, <1>6, TablesKept

LEMMA ResolveInv ==
  ASSUME Inv, NEW r \in Req, Resolve(r)
  PROVE  Inv'
<1> USE PrincipalsAssumption DEF Inv, Resolve, Goto
<1>1. PrincipalsTypeOK' BY DEF PrincipalsTypeOK, Working, tables, request, Exists
<1>2. Staged' BY DEF Staged, PrincipalsTypeOK, request
<1>3. Contained' BY DEF Contained, PrincipalsTypeOK, request
<1> QED BY <1>1, <1>2, <1>3, TablesKept

\* The permissions a request acts with are those of some principal's roles.
LEMMA PermitInv ==
  ASSUME Inv, NEW r \in Req, Permit(r)
  PROVE  Inv'
<1> USE PrincipalsAssumption DEF Inv
<1> DEFINE p == resolvePermissions(actor[r])
<1>1. /\ UNCHANGED <<tables, order, actor>>
      /\ granted' = [granted EXCEPT ![r] = p]
      /\ pc[r] = "permit"
      /\ \E l \in {"handle", "audit"} : pc' = [pc EXCEPT ![r] = l]
  BY DEF Permit, Goto
<1>2. actor[r] \in Agent BY <1>1 DEF PrincipalsTypeOK
<1>3. p = {} \/ p = PermissionsOf(holds[actor[r]]) BY DEF resolvePermissions
<1>4. holds[actor[r]] \in SUBSET Role BY <1>2 DEF PrincipalsTypeOK
<1>5. p \subseteq Key BY <1>3, <1>4, PermissionsAreKeys
<1>6. \A k \in p : Held(k) BY <1>2, <1>3 DEF NobodyGainsWhatNobodyHad, Held
<1> HIDE DEF p
<1>7. PrincipalsTypeOK'
  BY <1>1, <1>5 DEF PrincipalsTypeOK, Working, tables, Exists
<1>8. Staged' BY <1>1 DEF Staged, PrincipalsTypeOK
<1>9. Contained' BY <1>1, <1>6 DEF Contained, PrincipalsTypeOK
<1> QED BY <1>1, <1>7, <1>8, <1>9, TablesKept

\* The check of a grant: what the caller's permissions satisfy was held.
LEMMA HandleInv ==
  ASSUME Inv, NEW r \in Req, Handle(r)
  PROVE  Inv'
<1> USE PrincipalsAssumption DEF Inv
<1> DEFINE o == order[r]
           l == IF Possible(r) THEN FirstChange[o.op] ELSE "audit"
<1>1. /\ UNCHANGED <<tables, request>> /\ pc' = [pc EXCEPT ![r] = l]
      /\ pc[r] = "handle" /\ o \in Order
  BY DEF Handle, Goto, PrincipalsTypeOK
<1>2. /\ l \in Working
      /\ l = "insert" => o.op = "create"
      /\ l = "assign" => o.op = "assign"
      /\ l = "unassign" => o.op = "unassign"
      /\ l = "set" => o.op = "status"
      /\ l \in {"count", "purge", "tombstone"} => o.op = "delete"
  BY <1>1, OrderFields DEF FirstChange, Working
<1>3. l \in {"insert", "assign"} => \A p \in PermissionsOf(o.roles) : Held(p)
  <2> SUFFICES ASSUME l \in {"insert", "assign"}, NEW p \in PermissionsOf(o.roles)
               PROVE  Held(p)
    OBVIOUS
  <2>1. o.op \in {"create", "assign"} BY <1>2
  <2>2. Possible(r) OBVIOUS
  <2>3. hasPermission(granted[r], p)
    <3>1. Granting(r) BY <2>1, <2>2 DEF Possible
    <3> QED BY <3>1 DEF Granting, CanGrant
  <2>4. o.roles \in SUBSET Role BY <2>1, <1>1, OrderFields
  <2>5. p \in Key BY <2>4, PermissionsAreKeys
  <2>6. granted[r] \in SUBSET Key /\ \A q \in granted[r] : Held(q)
    BY DEF PrincipalsTypeOK, Contained
  <2> QED BY <2>3, <2>5, <2>6, HeldTransitive
<1> HIDE DEF l
<1>4. PrincipalsTypeOK'
  BY <1>1, <1>2 DEF PrincipalsTypeOK, tables, request, Exists
<1>5. Staged' BY <1>1, <1>2 DEF Staged, PrincipalsTypeOK, request
<1>6. Contained' BY <1>1, <1>3 DEF Contained, PrincipalsTypeOK, request
<1> QED BY <1>1, <1>4, <1>5, <1>6, TablesKept

LEMMA CountInv ==
  ASSUME Inv, NEW r \in Req, Count(r)
  PROVE  Inv'
<1> USE PrincipalsAssumption DEF Inv, Count, Goto
<1>1. PrincipalsTypeOK' BY DEF PrincipalsTypeOK, Working, tables, request, Exists
<1>2. Staged' BY DEF Staged, PrincipalsTypeOK, request
<1>3. Contained' BY DEF Contained, PrincipalsTypeOK, request
<1> QED BY <1>1, <1>2, <1>3, TablesKept

LEMMA CrashInv ==
  ASSUME Inv, NEW r \in Req, Crash(r)
  PROVE  Inv'
<1> USE PrincipalsAssumption DEF Inv, Crash, Goto
<1>1. PrincipalsTypeOK' BY DEF PrincipalsTypeOK, Working, tables, request, Exists
<1>2. Staged' BY DEF Staged, PrincipalsTypeOK, request
<1>3. Contained' BY DEF Contained, PrincipalsTypeOK, request
<1> QED BY <1>1, <1>2, <1>3, TablesKept

-----------------------------------------------------------------------------
(* The changes.                                                             *)

\* What is said of requests survives a step of one that only ends it.
LEMMA RequestEnds ==
  ASSUME Inv, NEW r \in Req, pc' = [pc EXCEPT ![r] = "audit"], UNCHANGED request
  PROVE  Staged' /\ Contained'
BY DEF Inv, Staged, Contained, PrincipalsTypeOK, request

LEMMA InsertInv ==
  ASSUME Inv, NEW r \in Req, Insert(r)
  PROVE  Inv'
<1> USE PrincipalsAssumption DEF Inv
<1> DEFINE o == order[r]
           a == o.target
           i == o.link
<1>1. /\ pc[r] = "insert" /\ o \in Order /\ o.op = "create"
      /\ a \in Agent /\ i \in Identity \cup {NoIdentity}
      /\ UNCHANGED <<holds, records, request>>
  <2>1. pc[r] = "insert" /\ UNCHANGED <<holds, records, request>> BY DEF Insert
  <2>2. o \in Order /\ o.op = "create" BY <2>1 DEF PrincipalsTypeOK, Staged
  <2> QED BY <2>1, <2>2, OrderFields
<1>2. \E l \in {"audit", "assign"} : pc' = [pc EXCEPT ![r] = l] BY DEF Insert, Goto
<1>3. Staged' BY <1>1, <1>2 DEF Staged, PrincipalsTypeOK, request
<1>4. Contained' BY <1>1, <1>2 DEF Contained, PrincipalsTypeOK, request
<1>5. CASE UNCHANGED <<agents, issued>>
  <2>1. PrincipalsTypeOK'
    BY <1>1, <1>2, <1>5 DEF PrincipalsTypeOK, Working, request, Exists
  <2> QED BY <1>1, <1>3, <1>4, <1>5, <2>1, TablesKept DEF tables
<1>6. CASE ~UNCHANGED <<agents, issued>>
  <2>1. PICK m \in Mode :
          /\ a \notin issued /\ LinkIsFree(i) /\ issued' = issued \cup {a}
          /\ agents' = [agents EXCEPT ![a] = NewRow(i, m)]
    BY <1>6 DEF Insert
  <2> DEFINE w == NewRow(i, m)
  <2>2. w \in AgentRow /\ w # NoRow /\ w.link = i /\ ~w.deleted
    <3>1. /\ w = [status |-> "active", mode |-> m, link |-> i, deleted |-> FALSE]
          /\ i \in Identity \cup {NoIdentity}
      BY <1>1 DEF NewRow
    <3> HIDE DEF w, i
    <3>2. w \in AgentRow BY <3>1 DEF AgentRow, Status
    <3> QED BY <3>1, <3>2
  <2>3. agents[a] = NoRow BY <1>1, <2>1 DEF PrincipalsTypeOK, Exists
  <2>4. /\ agents'[a] = w
        /\ \A b \in Agent : b # a => agents'[b] = agents[b]
    BY <1>1, <2>1 DEF PrincipalsTypeOK
  <2> HIDE DEF w, o, a, i
  <2>5. PrincipalsTypeOK'
    <3>1. agents' \in [Agent -> AgentRow \cup {NoRow}]
      BY <1>1, <2>1, <2>2 DEF PrincipalsTypeOK, w
    <3>2. issued' \subseteq Agent BY <1>1, <2>1 DEF PrincipalsTypeOK
    <3>3. \A b \in Agent : (holds'[b] # {} => Exists(b)') /\ (Exists(b)' => b \in issued')
      BY <1>1, <2>1, <2>2, <2>4 DEF PrincipalsTypeOK, Exists
    <3> QED BY <1>1, <1>2, <3>1, <3>2, <3>3 DEF PrincipalsTypeOK, Working, request
  <2>6. RecordsKeepTheirPrincipal'
    BY <1>1, <2>2, <2>4 DEF RecordsKeepTheirPrincipal, Exists, PrincipalsTypeOK
  <2>7. OneAgentPerIdentity'
    BY <2>1, <2>2, <2>3, <2>4 DEF OneAgentPerIdentity, Exists, LinkIsFree
  <2>8. DeletedIsDeleted' BY <2>2, <2>4 DEF DeletedIsDeleted, Exists
  <2>9. NobodyGainsWhatNobodyHad' BY <1>1 DEF NobodyGainsWhatNobodyHad
  <2> QED BY <1>3, <1>4, <2>5, <2>6, <2>7, <2>8, <2>9
<1> QED BY <1>5, <1>6

\* A role that is handed out is one whose permissions were held.
LEMMA AssignInv ==
  ASSUME Inv, NEW r \in Req, Assign(r)
  PROVE  Inv'
<1> USE PrincipalsAssumption DEF Inv
<1> DEFINE o == order[r]
           a == o.target
<1>1. /\ pc[r] = "assign" /\ o \in Order /\ o.op \in {"create", "assign"}
      /\ a \in Agent /\ o.roles \in SUBSET Role
      /\ UNCHANGED <<agents, records, issued, actor, granted>>
  <2>1. pc[r] = "assign" /\ UNCHANGED <<agents, records, issued, actor, granted>>
    BY DEF Assign
  <2>2. o \in Order /\ o.op \in {"create", "assign"} BY <2>1 DEF PrincipalsTypeOK, Staged
  <2> QED BY <2>1, <2>2, OrderFields
<1>2. RecordsKeepTheirPrincipal' /\ OneAgentPerIdentity' /\ DeletedIsDeleted'
  BY <1>1 DEF RecordsKeepTheirPrincipal, OneAgentPerIdentity, DeletedIsDeleted, Exists
<1>3. CASE ~Exists(a)
  <2>1. pc' = [pc EXCEPT ![r] = "audit"] /\ UNCHANGED <<tables, request>>
    BY <1>1, <1>3 DEF Assign, Assignable, Goto, tables, request
  <2>2. PrincipalsTypeOK'
    BY <1>1, <2>1 DEF PrincipalsTypeOK, Working, tables, request, Exists
  <2> QED BY <2>1, <2>2, TablesKept, RequestEnds
<1>4. CASE Exists(a)
  <2>1. PICK x \in o.roles :
          /\ holds' = [holds EXCEPT ![a] = @ \cup {x}]
          /\ order' = [order EXCEPT ![r].roles = @ \ {x}]
          /\ \E l \in {"audit", "assign"} : pc' = [pc EXCEPT ![r] = l]
    BY <1>4 DEF Assign, Assignable, Goto
  <2> DEFINE o2 == [o EXCEPT !.roles = @ \ {x}]
  <2>2. o2 \in Order /\ o2.op = o.op /\ o2.roles = o.roles \ {x}
    BY <1>1, OrderWithout
  <2>3. order' = [order EXCEPT ![r] = o2] BY <2>1
  <2>4. x \in Role BY <1>1
  <2>5. \A p \in RolePermissions[x] : Held(p)
    BY <1>1 DEF Contained, PermissionsOf
  <2>6. \A p \in PermissionsOf(o2.roles) : Held(p)
    BY <1>1, <2>2 DEF Contained, PermissionsOf
  <2> HIDE DEF o2, a
  <2>7. PrincipalsTypeOK'
    <3>1. holds' \in [Agent -> SUBSET Role] BY <1>1, <2>1, <2>4 DEF PrincipalsTypeOK
    <3>2. order' \in [Req -> Order \cup {<<>>}] BY <2>2, <2>3 DEF PrincipalsTypeOK
    <3>3. \A q \in Req : pc'[q] # "idle" => order'[q] \in Order /\ actor'[q] \in Agent
      BY <1>1, <2>1, <2>2, <2>3 DEF PrincipalsTypeOK
    <3>4. \A b \in Agent : (holds'[b] # {} => Exists(b)') /\ (Exists(b)' => b \in issued')
      BY <1>1, <1>4, <2>1 DEF PrincipalsTypeOK, Exists
    <3> QED BY <1>1, <2>1, <3>1, <3>2, <3>3, <3>4 DEF PrincipalsTypeOK, Working
  <2>8. Staged' BY <1>1, <2>1, <2>2, <2>3 DEF Staged, PrincipalsTypeOK
  <2>9. Contained' BY <1>1, <2>1, <2>3, <2>6 DEF Contained, PrincipalsTypeOK
  <2>10. NobodyGainsWhatNobodyHad'
    <3> SUFFICES ASSUME NEW b \in Agent, NEW p \in PermissionsOf(holds'[b])
                 PROVE  Held(p)
      BY DEF NobodyGainsWhatNobodyHad, Held
    <3>1. p \in PermissionsOf(holds[b]) \/ p \in RolePermissions[x]
      BY <1>1, <2>1 DEF PermissionsOf, PrincipalsTypeOK
    <3> QED BY <3>1, <2>5 DEF NobodyGainsWhatNobodyHad, Held
  <2> QED BY <1>2, <2>7, <2>8, <2>9, <2>10
<1> QED BY <1>3, <1>4

LEMMA UnassignInv ==
  ASSUME Inv, NEW r \in Req, Unassign(r)
  PROVE  Inv'
<1> USE PrincipalsAssumption DEF Inv
<1> DEFINE a == order[r].target
<1>1. /\ pc[r] # "idle" /\ pc' = [pc EXCEPT ![r] = "audit"]
      /\ holds' = [holds EXCEPT ![a] = @ \ order[r].roles]
      /\ UNCHANGED <<agents, records, issued, request>>
  BY DEF Unassign, Goto
<1>2. holds' \in [Agent -> SUBSET Role] /\ \A b \in Agent : holds'[b] \subseteq holds[b]
  BY <1>1 DEF PrincipalsTypeOK
<1>3. PrincipalsTypeOK'
  BY <1>1, <1>2 DEF PrincipalsTypeOK, Working, request, Exists
<1>4. RecordsKeepTheirPrincipal' /\ OneAgentPerIdentity' /\ DeletedIsDeleted'
  BY <1>1 DEF RecordsKeepTheirPrincipal, OneAgentPerIdentity, DeletedIsDeleted, Exists
<1>5. NobodyGainsWhatNobodyHad' BY <1>2 DEF NobodyGainsWhatNobodyHad, PermissionsOf
<1> QED BY <1>1, <1>3, <1>4, <1>5, RequestEnds

\* The status changes; the link and the headstone do not.
LEMMA SetStatusInv ==
  ASSUME Inv, NEW r \in Req, SetStatus(r)
  PROVE  Inv'
<1> USE PrincipalsAssumption DEF Inv
<1> DEFINE a == order[r].target
           s == order[r].status
<1>1. /\ pc[r] # "idle" /\ pc' = [pc EXCEPT ![r] = "audit"]
      /\ UNCHANGED <<holds, records, issued, request>>
      /\ agents' = IF Live(a) THEN [agents EXCEPT ![a].status = s] ELSE agents
  BY DEF SetStatus, Goto, Settable
<1>2. a \in Agent /\ s \in Status
  <2>1. order[r] \in Order /\ order[r].op = "status"
    BY DEF SetStatus, PrincipalsTypeOK, Staged
  <2> QED BY <2>1, OrderFields
<1>3. \A b \in Agent :
        /\ agents'[b] \in AgentRow \cup {NoRow}
        /\ Exists(b)' <=> Exists(b)
        /\ Exists(b) => agents'[b].link = agents[b].link
        /\ Exists(b) /\ agents[b].deleted => agents'[b] = agents[b]
        /\ Exists(b) => agents'[b].deleted = agents[b].deleted
  <2> SUFFICES ASSUME NEW b \in Agent
               PROVE  /\ agents'[b] \in AgentRow \cup {NoRow}
                      /\ Exists(b)' <=> Exists(b)
                      /\ Exists(b) => agents'[b].link = agents[b].link
                      /\ Exists(b) /\ agents[b].deleted => agents'[b] = agents[b]
                      /\ Exists(b) => agents'[b].deleted = agents[b].deleted
    OBVIOUS
  <2>1. agents[b] \in AgentRow \cup {NoRow} BY DEF PrincipalsTypeOK
  <2>2. CASE b = a /\ Live(a)
    <3>1. agents[a] \in AgentRow /\ agents'[a] = [agents[a] EXCEPT !.status = s]
      BY <1>1, <1>2, <2>1, <2>2 DEF Live, Exists, PrincipalsTypeOK
    <3>2. /\ [agents[a] EXCEPT !.status = s] \in AgentRow
          /\ [agents[a] EXCEPT !.status = s].link = agents[a].link
          /\ [agents[a] EXCEPT !.status = s].deleted = agents[a].deleted
      BY <3>1, <1>2, RowChanges
    <3>3. ~agents[a].deleted /\ agents[a] # NoRow BY <2>2 DEF Live, Exists
    <3> HIDE DEF a, s
    <3> QED BY <3>1, <3>2, <3>3, <2>2 DEF Exists
  <2>3. CASE ~(b = a /\ Live(a))
    <3>1. agents'[b] = agents[b] BY <1>1, <2>3 DEF PrincipalsTypeOK
    <3> QED BY <3>1, <2>1 DEF Exists
  <2> QED BY <2>2, <2>3
<1>4. PrincipalsTypeOK'
  <2>1. agents' \in [Agent -> AgentRow \cup {NoRow}] BY <1>1, <1>3 DEF PrincipalsTypeOK
  <2> QED BY <1>1, <1>3, <2>1 DEF PrincipalsTypeOK, Working, request
<1>5. RecordsKeepTheirPrincipal'
  BY <1>1, <1>3 DEF RecordsKeepTheirPrincipal, PrincipalsTypeOK
<1>6. OneAgentPerIdentity' BY <1>3 DEF OneAgentPerIdentity
<1>7. DeletedIsDeleted' BY <1>3 DEF DeletedIsDeleted
<1>8. NobodyGainsWhatNobodyHad' BY <1>1 DEF NobodyGainsWhatNobodyHad
<1> QED BY <1>1, <1>4, <1>5, <1>6, <1>7, <1>8, RequestEnds

\* Only what no record names is destroyed.
LEMMA PurgeInv ==
  ASSUME Inv, NEW r \in Req, Purge(r)
  PROVE  Inv'
<1> USE PrincipalsAssumption DEF Inv
<1> DEFINE a == order[r].target
<1>1. /\ pc[r] # "idle" /\ pc' = [pc EXCEPT ![r] = "audit"]
      /\ UNCHANGED <<records, issued, request>>
  BY DEF Purge, Goto
<1>2. CASE UNCHANGED <<agents, holds>>
  <2>1. PrincipalsTypeOK'
    BY <1>1, <1>2 DEF PrincipalsTypeOK, Working, request, Exists
  <2> QED BY <1>1, <1>2, <2>1, TablesKept, RequestEnds DEF tables
<1>3. CASE ~UNCHANGED <<agents, holds>>
  <2>1. /\ a \notin records
        /\ agents' = [agents EXCEPT ![a] = NoRow] /\ holds' = [holds EXCEPT ![a] = {}]
    BY <1>3 DEF Purge, Unreferenced
  <2>2. /\ \A b \in Agent : b # a => agents'[b] = agents[b] /\ holds'[b] = holds[b]
        /\ \A b \in Agent : b = a => agents'[b] = NoRow /\ holds'[b] = {}
    BY <2>1 DEF PrincipalsTypeOK
  <2> HIDE DEF a
  <2>3. PrincipalsTypeOK'
    <3>1. agents' \in [Agent -> AgentRow \cup {NoRow}] /\ holds' \in [Agent -> SUBSET Role]
      BY <2>1 DEF PrincipalsTypeOK
    <3>2. \A b \in Agent : (holds'[b] # {} => Exists(b)') /\ (Exists(b)' => b \in issued')
      BY <1>1, <2>2 DEF PrincipalsTypeOK, Exists
    <3> QED BY <1>1, <3>1, <3>2 DEF PrincipalsTypeOK, Working, request
  <2>4. RecordsKeepTheirPrincipal'
    BY <1>1, <2>1, <2>2 DEF RecordsKeepTheirPrincipal, Exists, PrincipalsTypeOK
  <2>5. OneAgentPerIdentity' BY <2>2 DEF OneAgentPerIdentity, Exists
  <2>6. DeletedIsDeleted' BY <2>2 DEF DeletedIsDeleted, Exists
  <2>7. NobodyGainsWhatNobodyHad'
    BY <2>2 DEF NobodyGainsWhatNobodyHad, PermissionsOf
  <2> QED BY <1>1, <2>3, <2>4, <2>5, <2>6, <2>7, RequestEnds
<1> QED BY <1>2, <1>3

\* A headstone is revoked and linked to nobody.
LEMMA SoftDeleteInv ==
  ASSUME Inv, NEW r \in Req, SoftDelete(r)
  PROVE  Inv'
<1> USE PrincipalsAssumption DEF Inv
<1> DEFINE a == order[r].target
<1>1. /\ pc[r] # "idle" /\ pc' = [pc EXCEPT ![r] = "audit"]
      /\ UNCHANGED <<holds, records, issued, request>>
      /\ agents' = IF Removable(a) THEN [agents EXCEPT ![a] = Tombstone(@)] ELSE agents
  BY DEF SoftDelete, Goto
<1>2. a \in Agent
  <2>1. order[r] \in Order /\ order[r].op = "delete"
    BY DEF SoftDelete, PrincipalsTypeOK, Staged
  <2> QED BY <2>1, OrderFields
<1>3. CASE ~Removable(a)
  <2>1. UNCHANGED tables BY <1>1, <1>3 DEF tables
  <2>2. PrincipalsTypeOK'
    BY <1>1, <2>1 DEF PrincipalsTypeOK, Working, tables, request, Exists
  <2> QED BY <1>1, <2>1, <2>2, TablesKept, RequestEnds
<1>4. CASE Removable(a)
  <2> DEFINE w == Tombstone(agents[a])
  <2>1. agents[a] \in AgentRow /\ agents[a].status = "revoked"
    BY <1>2, <1>4 DEF Removable, Live, Exists, PrincipalsTypeOK
  <2>2. /\ w \in AgentRow /\ w # NoRow /\ w.link = NoIdentity
        /\ w.status = "revoked" /\ w.deleted
    BY <2>1, RowChanges
  <2>3. /\ agents'[a] = w
        /\ \A b \in Agent : b # a => agents'[b] = agents[b]
    BY <1>1, <1>2, <1>4 DEF PrincipalsTypeOK
  <2>4. agents' \in [Agent -> AgentRow \cup {NoRow}]
    BY <1>1, <1>2, <1>4, <2>2 DEF PrincipalsTypeOK
  <2>5. agents[a] # NoRow BY <2>1
  <2> HIDE DEF w, a
  <2>6. \A b \in Agent : Exists(b)' <=> Exists(b)
    BY <1>2, <2>2, <2>3, <2>5 DEF Exists
  <2>7. PrincipalsTypeOK'
    BY <1>1, <2>4, <2>6 DEF PrincipalsTypeOK, Working, request
  <2>8. RecordsKeepTheirPrincipal'
    BY <1>1, <2>6 DEF RecordsKeepTheirPrincipal, PrincipalsTypeOK
  <2>9. OneAgentPerIdentity'
    BY <1>2, <2>2, <2>3, <2>6 DEF OneAgentPerIdentity
  <2>10. DeletedIsDeleted' BY <1>2, <2>2, <2>3, <2>6 DEF DeletedIsDeleted
  <2>11. NobodyGainsWhatNobodyHad' BY <1>1 DEF NobodyGainsWhatNobodyHad
  <2> QED BY <1>1, <2>7, <2>8, <2>9, <2>10, <2>11, RequestEnds
<1> QED BY <1>3, <1>4

LEMMA FileInv ==
  ASSUME Inv, NEW r \in Req, File(r) \/ Audit(r)
  PROVE  Inv'
<1> USE PrincipalsAssumption DEF Inv
<1>1. /\ \E l \in {"audit", "done"} : pc' = [pc EXCEPT ![r] = l]
      /\ pc[r] # "idle" /\ UNCHANGED <<agents, holds, issued, request>>
      /\ records' = IF Exists(actor[r]) THEN records \cup {actor[r]} ELSE records
  BY DEF File, Audit, Goto
<1>2. actor[r] \in Agent BY <1>1 DEF PrincipalsTypeOK
<1>3. PrincipalsTypeOK'
  BY <1>1, <1>2 DEF PrincipalsTypeOK, Working, request, Exists
<1>4. Staged' BY <1>1 DEF Staged, PrincipalsTypeOK, request
<1>5. Contained' BY <1>1 DEF Contained, PrincipalsTypeOK, request
<1>6. RecordsKeepTheirPrincipal' BY <1>1 DEF RecordsKeepTheirPrincipal, Exists
<1>7. OneAgentPerIdentity' /\ DeletedIsDeleted' /\ NobodyGainsWhatNobodyHad'
  BY <1>1 DEF OneAgentPerIdentity, DeletedIsDeleted, NobodyGainsWhatNobodyHad, Exists
<1> QED BY <1>3, <1>4, <1>5, <1>6, <1>7

LEMMA StutterInv == ASSUME Inv, UNCHANGED vars PROVE Inv'
<1> USE DEF Inv
<1>1. UNCHANGED <<tables, pc, request>> BY DEF vars
<1>2. PrincipalsTypeOK' BY <1>1 DEF PrincipalsTypeOK, tables, request, Exists
<1>3. Staged' /\ Contained' BY <1>1 DEF Staged, Contained, request
<1> QED BY <1>1, <1>2, <1>3, TablesKept

LEMMA NextInv == Inv /\ [Next]_vars => Inv'
<1> SUFFICES ASSUME Inv, [Next]_vars PROVE Inv' OBVIOUS
<1>1. CASE UNCHANGED vars BY <1>1, StutterInv
<1>2. CASE Next
  <2>1. PICK r \in Req :
          (\E o \in Orders, c \in Credentials : Arrive(r, o, c)) \/ RequestStep(r) \/ Crash(r)
    BY <1>2 DEF Next
  <2>2. CASE \E o \in Orders, c \in Credentials : Arrive(r, o, c) BY <2>2, ArriveInv
  <2>3. CASE RequestStep(r)
    BY <2>3, ResolveInv, PermitInv, HandleInv, InsertInv, AssignInv, UnassignInv,
       SetStatusInv, CountInv, PurgeInv, SoftDeleteInv, FileInv DEF RequestStep
  <2>4. CASE Crash(r) BY <2>4, CrashInv
  <2> QED BY <2>1, <2>2, <2>3, <2>4
<1> QED BY <1>1, <1>2

THEOREM Invariance == Spec => []Inv
BY InitInv, NextInv, PTL DEF Spec

-----------------------------------------------------------------------------
\* The tables and the requests are well typed, and no role is held by nobody.
THEOREM TypeCorrect == Spec => []PrincipalsTypeOK
BY Invariance, PTL DEF Inv

\* Whoever a record names is there to be named.
THEOREM RecordsKept == Spec => []RecordsKeepTheirPrincipal
BY Invariance, PTL DEF Inv

\* An Account identity is linked to at most one principal.
THEOREM IdentityIsUnique == Spec => []OneAgentPerIdentity
BY Invariance, PTL DEF Inv

\* Nothing brings a deleted principal back.
THEOREM DeletionIsFinal == Spec => []DeletedIsDeleted
BY Invariance, PTL DEF Inv

\* Nobody comes to hold a permission that nobody held to begin with, for any
\* roles, any wildcards in them and any number of racing administrators.
THEOREM PrivilegeContainment == Spec => []NobodyGainsWhatNobodyHad
BY Invariance, PTL DEF Inv

\* A step takes away a principal only when it is revoked at that moment.
THEOREM RevokedFirst == Spec => OnlyRevokedIsRemoved
<1> DEFINE A == \A a \in Agent : Live(a) /\ ~Live(a)' => agents[a].status = "revoked"
<1>1. Inv /\ [Next]_vars => [A]_vars
  <2> SUFFICES ASSUME Inv, Next, NEW a \in Agent, Live(a), ~Live(a)'
               PROVE  agents[a].status = "revoked"
    BY DEF Inv
  <2>1. PICK r \in Req : RequestStep(r)
    BY DEF Next, Arrive, Crash, tables, Live, Exists
  <2>2. CASE Insert(r)
    BY <2>2 DEF Insert, Live, Exists, NewRow, Inv, PrincipalsTypeOK
  <2>3. CASE SetStatus(r)
    <3>1. order[r] \in Order /\ order[r].op = "status"
      BY <2>3 DEF SetStatus, Inv, PrincipalsTypeOK, Staged
    <3>2. order[r].status \in Status BY <3>1, OrderFields
    <3>3. agents[a] \in AgentRow BY DEF Live, Exists, Inv, PrincipalsTypeOK
    <3>4. agents'[a] = agents[a] \/ agents'[a] = [agents[a] EXCEPT !.status = order[r].status]
      BY <2>3 DEF SetStatus, Inv, PrincipalsTypeOK
    <3>5. agents'[a] \in AgentRow /\ agents'[a].deleted = agents[a].deleted
      BY <3>2, <3>3, <3>4, RowChanges
    <3> QED BY <3>5, PrincipalsAssumption DEF Live, Exists
  <2>4. CASE Purge(r) \/ SoftDelete(r)
    <3>1. agents'[a] # agents[a] BY DEF Live, Exists
    <3>2. a = order[r].target /\ Removable(order[r].target)
      BY <2>4, <3>1 DEF Purge, SoftDelete, Inv, PrincipalsTypeOK
    <3> QED BY <3>2 DEF Removable
  <2>5. CASE UNCHANGED agents BY <2>5 DEF Live, Exists
  <2> QED BY <2>1, <2>2, <2>3, <2>4, <2>5
      DEF RequestStep, Resolve, Permit, Handle, Assign, Unassign, Count, File, Audit, tables
<1> QED BY <1>1, Invariance, PTL DEF Spec, OnlyRevokedIsRemoved
=============================================================================
