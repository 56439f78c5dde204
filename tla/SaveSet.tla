-------------------------------- MODULE SaveSet --------------------------------
(***************************************************************************)
(* What the save directory promises, whatever happens to the process, to   *)
(* the machine or to a single file operation: the game sees one save set;  *)
(* a slot write, a deletion or an import replaces it by the intended set   *)
(* as a whole; a power loss leaves one of the sets since the last change   *)
(* that was made durable, never a mixture of two, a part of one or nothing.*)
(***************************************************************************)
CONSTANTS None, Names, Versions, Bundles, Olds

VARIABLES
  current,          \* the save set a reader sees now
  stored            \* the save sets a power loss may leave
vars == <<current, stored>>

Sets == [Names -> Versions \cup {None}]
TypeOK == current \in Sets /\ stored \subseteq Sets

Init == current \in Olds /\ stored = {current}

Replace(new) ==
  /\ current' = new
  /\ new \in stored' /\ stored' \subseteq stored \cup {new}
WriteSlot(n, v) == Replace([current EXCEPT ![n] = v])
DeleteSlot(n) == Replace([current EXCEPT ![n] = None])
Import(set) == Replace(set)

Settle == UNCHANGED current /\ current \in stored' /\ stored' \subseteq stored
PowerLoss == current' \in stored /\ stored' = {current'}

Next ==
  \/ \E n \in Names : DeleteSlot(n) \/ \E v \in Versions : WriteSlot(n, v)
  \/ \E set \in Bundles : Import(set)
  \/ Settle
  \/ PowerLoss
Spec == Init /\ [][Next]_vars
===============================================================================
