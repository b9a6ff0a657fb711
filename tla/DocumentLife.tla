---------------------------- MODULE DocumentLife ----------------------------
(***************************************************************************)
(* What the document store promises, with no tables, objects or requests:  *)
(* a document has a status and a history of contents.  The history only    *)
(* grows, the trash is a pause that remembers the status, nothing is ever  *)
(* removed unless its retention window has closed, and an id that is gone  *)
(* stays gone.                                                             *)
(***************************************************************************)
EXTENDS Naturals, Sequences

CONSTANTS Doc, Content, Status

VARIABLES
  life,     \* "unborn", "kept", "trash" or "gone"
  status,   \* its status; in the trash, the one it will come back to
  history,  \* its contents, oldest first
  lapsed    \* documents whose retention window has ever closed

vars == <<life, status, history, lapsed>>

Contents(d) == {history[d][n] : n \in 1..Len(history[d])}
Unused(c)   == \A d \in Doc : c \notin Contents(d)

TypeOK ==
  /\ life \in [Doc -> {"unborn", "kept", "trash", "gone"}]
  /\ status \in [Doc -> Status]
  /\ history \in [Doc -> Seq(Content)]
  /\ lapsed \subseteq Doc

Init ==
  /\ lapsed = {}
  /\ life \in [Doc -> {"unborn", "kept"}]
  /\ status \in [Doc -> Status]
  /\ history \in [Doc -> {<<>>} \cup {<<c>> : c \in Content}]
  /\ \A d \in Doc : life[d] = "unborn" <=> history[d] = <<>>

Live(d) == life[d] \in {"kept", "trash"}

Create(d) ==
  /\ life[d] = "unborn" /\ life' = [life EXCEPT ![d] = "kept"]
  /\ \E c \in Content : Unused(c) /\ history' = [history EXCEPT ![d] = <<c>>]
  /\ UNCHANGED <<status, lapsed>>

\* An edit appends bytes no document holds; a rollback, bytes of this history.
Revise(d) ==
  /\ Live(d)
  /\ \E c \in Content : /\ Unused(c) \/ c \in Contents(d)
                        /\ history' = [history EXCEPT ![d] = Append(@, c)]
  /\ UNCHANGED <<life, status, lapsed>>

Move(d) ==
  /\ life[d] = "kept"
  /\ \E s \in Status : status' = [status EXCEPT ![d] = s]
  /\ UNCHANGED <<life, history, lapsed>>

Trash(d) ==
  /\ life[d] = "kept" /\ life' = [life EXCEPT ![d] = "trash"]
  /\ UNCHANGED <<status, history, lapsed>>

Restore(d) ==
  /\ life[d] = "trash" /\ life' = [life EXCEPT ![d] = "kept"]
  /\ UNCHANGED <<status, history, lapsed>>

Lapse(d) ==
  /\ life[d] = "trash" /\ lapsed' = lapsed \cup {d}
  /\ UNCHANGED <<life, status, history>>

Purge(d) ==
  /\ Live(d) /\ d \in lapsed
  /\ life' = [life EXCEPT ![d] = "gone"]
  /\ history' = [history EXCEPT ![d] = <<>>]
  /\ \E s \in Status : status' = [status EXCEPT ![d] = s]
  /\ UNCHANGED lapsed

Next == \E d \in Doc : \/ Create(d) \/ Revise(d) \/ Move(d) \/ Trash(d)
                       \/ Restore(d) \/ Lapse(d) \/ Purge(d)

Spec == Init /\ [][Next]_vars
=============================================================================
