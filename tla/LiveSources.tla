------------------------------- MODULE LiveSources -------------------------------
(***************************************************************************)
(* How a running game follows its sources.  A game started on its own      *)
(* watches the files of the project; a preview is told by the editor that  *)
(* started it and rebuilds when told.  A process does one or the other.    *)
(***************************************************************************)
EXTENDS HotReload, AuthoringPreview

VARIABLE follows    \* "files" or "editor"

watched == <<project, changes, game>>

(* The half that rests has some fixed texts.                               *)
Any(texts) == CHOOSE text \in texts : TRUE
LiveInit ==
  /\ follows \in {"files", "editor"} /\ Init /\ PreviewInit
  /\ follows = "files" => docs = [p \in Documents |-> Any(Scripts \ Refused)]
  /\ follows = "editor" => project = [f \in Files |-> Any(Contents \ Invalid)]
LiveNext ==
  \/ follows = "files" /\ UNCHANGED <<follows, preview>> /\ Next
  \/ follows = "editor" /\ UNCHANGED <<follows, watched>> /\ PreviewNext
LiveSpec == LiveInit /\ [][LiveNext]_<<follows, watched, preview>>
(* The run begins with the same text everywhere; edits make them differ.   *)
RunInit == LiveInit /\ \A p, q \in Documents : docs[p] = docs[q]
RunSpec ==
  RunInit /\ [][LiveNext]_<<follows, watched, preview>> /\ Fairness /\ PreviewFairness
================================================================================
