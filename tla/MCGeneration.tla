------------------------------ MODULE MCGeneration ------------------------------
(***************************************************************************)
(* One uncovered path of every function in MCUniqueSubpath; and several of *)
(* the example test/reverse.c and of a switch in which one path is found   *)
(* twice, with files left by earlier runs.  The inputs KLEE finds overlap, *)
(* as they do when its exploration of one path goes through another, and   *)
(* for some paths it may find none.                                        *)
(***************************************************************************)
EXTENDS Generation, MCUniqueSubpath, TLC

CONSTANTS x, y, z

MCPaths == 0 .. 7
MCInputs == {x, y, z}
MCUncovered == {<<p>> : p \in MCPaths} \cup {<< >>, <<1, 2>>, <<0, 1, 2>>}
MCLists == FunctionLists \cup SwitchLists
MCFinds == 0 :> {{x, y}, {x}} @@ 1 :> {{x, z}, {x, y}} @@ 2 :> {{}, {y}}
           @@ [p \in 3 .. 7 |-> {{x, z}}]

MCInit == /\ GenerationInit
          /\ Len(paths) # 1 => sequences \in {ReversePaths, Switch}
          /\ {p \in Paths : file[p] = "old"} \subseteq
                 IF Len(paths) = 1 THEN {} ELSE ToSet(paths)

MCSpec == MCInit /\ [][GenerationNext]_generationVars /\ WF_generationVars(GenerationNext)
===============================================================================
