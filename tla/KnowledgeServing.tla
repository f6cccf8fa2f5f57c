--------------------------- MODULE KnowledgeServing ---------------------------
(***************************************************************************)
(* What a reader is promised when notes may also be deleted and restored   *)
(* and generations may come and go: a note is switched to a new version,   *)
(* withdrawn, or put back exactly as it was; nothing else is ever visible, *)
(* and no version returns once it has been replaced.                       *)
(***************************************************************************)
CONSTANTS Operations, Notes, ChangeOf, NoteOf, None

VARIABLES
  current,    \* the version each note was last switched to
  withdrawn,  \* notes that are not served for the time being
  published   \* operations whose version has been switched to

Init ==
  /\ current = [n \in Notes |-> None]
  /\ withdrawn = {}
  /\ published = {}

Switch(o) ==
  /\ NoteOf[o] \notin withdrawn
  /\ \A p \in published : ChangeOf[p] # ChangeOf[o]
  /\ current' = [current EXCEPT ![NoteOf[o]] = o]
  /\ published' = published \cup {o}
  /\ UNCHANGED withdrawn

Withdraw(n) ==
  /\ n \notin withdrawn /\ current[n] # None
  /\ withdrawn' = withdrawn \cup {n}
  /\ UNCHANGED <<current, published>>

PutBack(n) ==
  /\ n \in withdrawn
  /\ withdrawn' = withdrawn \ {n}
  /\ UNCHANGED <<current, published>>

Next ==
  \/ \E o \in Operations : Switch(o)
  \/ \E n \in Notes : Withdraw(n) \/ PutBack(n)

Spec == Init /\ [][Next]_<<current, withdrawn, published>>
=============================================================================
