-------------------------------- MODULE Mapping --------------------------------
(***************************************************************************)
(* From two versions of a function to path_map: BuildGraph composed with   *)
(* Similarity by SimilarityCalculator::run, which looks for the most       *)
(* similar old path of each new path (dynamic/reuseengine.h).              *)
(***************************************************************************)
EXTENDS BuildGraph, Similarity

(* A path has a block and a block has a terminator; one part of 1 is fine  *)
(* enough for any of them.  The search for the paths of a function sees    *)
(* its shape only.                                                         *)
ASSUME MappingAssumption ==
    /\ Unit \in Nat \ {0} /\ Scale \in Nat \ {0}
    /\ \A f \in Functions :
          /\ f.paths \in Seq(Seq(BlocksOf(f)))
          /\ \A k \in DOMAIN f.paths : Len(f.paths[k]) \in 1 .. Scale
          /\ \A b \in BlocksOf(f) : f.ops[b] \in Seq(STRING) /\ Len(f.ops[b]) \in 1 .. Unit
    /\ \A f, g \in Functions :
          f.succs = g.succs /\ f.headers = g.headers => Range(f.paths) = Range(g.paths)

VARIABLE path_map       \* for each new path so far: the id and the similarity
mappingVars == <<graphVars, similarityVars, path_map>>

newPaths == function["new"].paths
oldPaths == function["old"].paths

MappingInit == GraphInit /\ SimilarityInit /\ path_map = << >>

Build == BuildStep /\ UNCHANGED <<similarityVars, path_map>>

NextPath ==
    /\ building = "none"
    /\ path = << >>
    /\ Len(path_map) < Len(newPaths)
    /\ Start(Nodes("new", newPaths[Len(path_map) + 1]),
             [k \in DOMAIN oldPaths |-> Nodes("old", oldPaths[k])])
    /\ UNCHANGED <<graphVars, path_map>>

ComparePath == Compare /\ UNCHANGED <<graphVars, path_map>>

PathDone ==
    /\ path # << >> /\ n > Len(old_paths)
    /\ path_map' = Append(path_map, [id |-> most_similar_path_id, sim |-> max_sim])
    /\ path' = << >>
    /\ UNCHANGED <<graphVars, old_paths, n, most_similar_path_id, max_sim>>

MappingNext == Build \/ NextPath \/ ComparePath \/ PathDone

MappingSpec == MappingInit /\ [][MappingNext]_mappingVars

-----------------------------------------------------------------------------
(* A path of which no block was changed is mapped, with similarity 1, to   *)
(* an old path just like it, so that its tests keep their expectations.    *)
UntouchedReused ==
    \A k \in DOMAIN path_map :
        LET p == newPaths[k]
            untouched == \A b \in {p[j] : j \in DOMAIN p} :
                             function["old"].ops[b] = function["new"].ops[b]
        IN  SameShape /\ Agreed(function["new"]) /\ untouched =>
               /\ path_map[k].sim = Full
               /\ Nodes("old", oldPaths[path_map[k].id + 1]) = Nodes("new", p)

(* cfg.h:79 on selectNum: 1 is true, 2 is false, others in the order of    *)
(* the branches.  So a path that takes the edge from a branch to its n-th  *)
(* successor finds the number n there.                                     *)
SelectTells ==
    building = "none" =>
        \A v \in BothVersions : \A a, b \in BlocksOf(function[v]) :
            LET succs == function[v].succs[a]
            IN  Numbers(succs) /\ (\E i \in DOMAIN succs : succs[i] = b) =>
                   selectNum[v][b] \in DOMAIN succs /\ succs[selectNum[v][b]] = b
=============================================================================
