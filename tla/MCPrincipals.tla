---------------------------- MODULE MCPrincipals ----------------------------
(* Instances of Principals for TLC: an administrator, a revoked reader that  *)
(* records name, a role nobody holds and two ids nobody has yet.             *)
EXTENDS Principals, TLC

CONSTANTS boss, helper, new1, new2, i1, i2, admin, reader, secret

MCStar    == "*"
MCBlank   == ""
MCSegment == {"*", "", "admin", "agents", "facts", "read", "pricing", "feedback",
              "submit", "classification"}

MCAdminAgents    == <<"admin", "agents">>
MCFeedbackSubmit == <<"feedback", "submit">>

MCRolePermissions ==
  [x \in Role |-> CASE x = admin  -> {MCAdminAgents, MCFeedbackSubmit, <<"facts", "read", "*">>}
                    [] x = reader -> {MCFeedbackSubmit, <<"facts", "read", "pricing">>}
                    [] x = secret -> {<<"classification", "read", "*">>}]

MCInitially ==
  [a \in Agent |->
     CASE a = boss   -> [status |-> "active", mode |-> "account", link |-> i1, deleted |-> FALSE]
       [] a = helper -> [status |-> "revoked", mode |-> "rpc", link |-> NoIdentity,
                         deleted |-> FALSE]
       [] OTHER      -> NoRow]

MCInitialRoles == [a \in Agent |-> IF a = boss THEN {admin} ELSE {reader}]
MCOrders ==
  [op : {"create"}, target : {new1}, roles : {{admin, reader}, {secret}}, link : {i2}]
  \cup [op : {"create"}, target : {new2}, roles : {{}}, link : {i2}]
  \cup [op : {"assign"}, target : {helper}, roles : {{admin}, {secret}}]
  \cup [op : {"unassign"}, target : {boss}, roles : {{admin}}]
  \cup [op : {"delete"}, target : {helper, new1}]
  \cup [op : {"status"}, target : {helper}, status : {"active"}]
  \cup [op : {"status"}, target : {helper, new1}, status : {"revoked"}]
  \cup [op : {"file"}]

MCCredentials ==
  [kind : {"token"}, subject : {i2}, client : {i1}]
  \cup [kind : {"rpc", "jwt"}, key : {helper}]

MCSymmetry     == Permutations(Req)
=============================================================================
