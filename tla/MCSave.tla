-------------------------------- MODULE MCSave --------------------------------
(* A small save directory for model checking SaveTransaction. *)
EXTENDS SaveTransaction, TLC

MCBundles == {("quick" :> 2) @@ ("slot" :> None)}
MCBackups == {("quick" :> 2) @@ ("slot" :> None), ("quick" :> 1) @@ ("slot" :> 2)}
MCOld == ("quick" :> 1) @@ ("slot" :> 1)
MCOlds == {Nothing, MCOld}
MCUpgrade == {MCOld}
===============================================================================
