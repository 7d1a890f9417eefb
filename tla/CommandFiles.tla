---------------------------- MODULE CommandFiles ----------------------------
(***************************************************************************)
(* A directory in which the commands keep files from one use to the next:    *)
(* `check` and LightPortfolio the cache of engine results, `run` and        *)
(* `build` the project directory.  The two sets of files are disjoint.      *)
(***************************************************************************)
EXTENDS Cache, RunCmd

vars == <<cacheVars, runVars>>

Init == CacheInit /\ RunInit

\* An instance looks at one kind of commands at a time.
Next ==
    \/ plan # <<>> /\ CacheNext /\ UNCHANGED runVars
    \/ plan = <<>> /\ RunNext /\ UNCHANGED cacheVars

Spec == Init /\ [][Next]_vars /\ CacheFair
=============================================================================
