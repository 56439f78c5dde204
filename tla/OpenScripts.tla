------------------------------ MODULE OpenScripts ------------------------------
(* The documents a writer has open, and what mailbox and engine ask of them. *)
EXTENDS Naturals, FiniteSets

CONSTANTS
  None,
  Documents,        \* open script files
  Scripts,          \* their texts
  Refused,          \* those the engine cannot compile
  Long,             \* those that count double for the mailbox
  Budget,           \* PREVIEW_PENDING_BYTES
  MaxEdits,         \* bounds: edits, and clicks of the writer
  MaxClicks

ASSUME Sizes == Refused \subseteq Scripts /\ None \notin Scripts /\ Budget \in Nat
ASSUME Limits == MaxEdits \in Nat /\ MaxClicks \in Nat

Overlay == [Documents -> Scripts \cup {None}]
NoScripts == [p \in Documents |-> None]
Known(texts) == {p \in Documents : texts[p] # None}
Total(texts) ==
  Cardinality(Known(texts)) + Cardinality({p \in Known(texts) : texts[p] \in Long})
Compiles(texts) == \A p \in Documents : texts[p] \notin Refused
================================================================================
