------------------------- MODULE CommandFilesProofs -------------------------
(***************************************************************************)
(* What the two kinds of commands promise of their files holds of the        *)
(* directory in which both work.                                            *)
(***************************************************************************)
EXTENDS CommandFiles, CacheProofs, RunCmdProofs

\* A step of one kind of commands is a step or a stutter of the other.
LEMMA Steps == [Next]_vars => [CacheNext]_cacheVars /\ [RunNext]_runVars
BY DEF Next, vars

\* The specification of the directory implies that of each kind of commands.
LEMMA Projects ==
    Spec => /\ CacheInit /\ [][CacheNext]_cacheVars
            /\ RunInit /\ [][RunNext]_runVars
<1>1. Init => CacheInit /\ RunInit
  BY DEF Init
<1> QED
  BY <1>1, Steps, PTL DEF Spec

\* The cache: an entry at its final path is whole at every moment, as long as no process has two
\* engines, only definite verdicts are kept, verdicts are right as far as the digests tell models
\* apart, and LightPortfolio returns an answer of its engines.
THEOREM CacheCorrect ==
    Spec => [](CacheTypeOK /\ FinalWhole /\ CachedDefinite /\ VerdictRight /\ LightRight)
BY Projects, CacheTypeCorrect, EntriesWhole, VerdictsDefinite, VerdictsRight, LightCorrect, PTL

\* The project directory: results are right for the design next to them, violations have their
\* witnesses, and no run unlearns a result.
THEOREM DirectoryCorrect ==
    Spec => [](RunTypeOK /\ ResultsOfDesign /\ WitnessKept) /\ ResultsKept
BY Projects, RunTypeCorrect, DesignsResults, WitnessesWritten, NothingUnlearned, PTL
=============================================================================
