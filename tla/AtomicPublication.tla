-------------------------- MODULE AtomicPublication --------------------------
(***************************************************************************)
(* What publication promises a reader of the knowledge base: whatever the  *)
(* vault, the index and the control tables go through, a note is served    *)
(* either in its old version or in a new one, one switch at a time; an     *)
(* operation and the knowledge change it carries are switched to once.     *)
(***************************************************************************)
CONSTANTS Operations, Notes, ChangeOf, NoteOf, None

VARIABLES
  served,    \* the version each note resolves to, None before the first
  published  \* operations whose version has been switched to

Init ==
  /\ served = [n \in Notes |-> None]
  /\ published = {}

Switch(o) ==
  /\ \A p \in published : ChangeOf[p] # ChangeOf[o]
  /\ served' = [served EXCEPT ![NoteOf[o]] = o]
  /\ published' = published \cup {o}

Next == \E o \in Operations : Switch(o)

Spec == Init /\ [][Next]_<<served, published>>
=============================================================================
