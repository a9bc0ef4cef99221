-------------------------- MODULE MCCodegenPipeline -------------------------
EXTENDS CodegenPipeline
CONSTANTS main, test, manifest, old, new, bad
MCPaths == {main, test, manifest}
MCModules == <<main>>
MCTestOf == main :> test
MCGood == {old, new}
MCBad == {bad}

(* The folder is empty at first; the second run finds what the first left. *)
MCInit == Init /\ disk = [p \in Paths |-> Absent]

MCSpec == MCInit /\ [][Next]_vars /\ Fairness
=============================================================================
