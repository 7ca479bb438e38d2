----------------------------- MODULE PackCommit -----------------------------
(***************************************************************************)
(* What the conversion of a pack promises, whatever is killed on the way:  *)
(* payload files are stored one at a time and never lost, and a view (the  *)
(* text view by its manifest, the vision view by its index) is published   *)
(* once, after everything it names is stored.                              *)
(***************************************************************************)
CONSTANTS
  Files,  \* the payload files
  Views,  \* the views of the checkpoint
  Needs   \* Needs[v]: the payload files view v names, a subset of Files

VARIABLES
  stored,    \* the payload files that are whole, with their checksum
  published  \* the views a reader may find

Store(f) ==
  /\ f \notin stored
  /\ stored' = stored \cup {f}
  /\ UNCHANGED published

Publish(v) ==
  /\ v \notin published /\ Needs[v] \subseteq stored
  /\ published' = published \cup {v}
  /\ UNCHANGED stored

Init == stored = {} /\ published = {}
Next == (\E f \in Files : Store(f)) \/ (\E v \in Views : Publish(v))
Spec == Init /\ [][Next]_<<stored, published>>
=============================================================================
