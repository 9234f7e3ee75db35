------------------------------ MODULE Generators ------------------------------
(***************************************************************************)
(* The two repository generators of src/cmd, one of them in a behaviour:   *)
(* that of GenRepo and the classic one of GenRepoClassic.  They have the   *)
(* control of a run in common (GeneratorRun), and what they promise.       *)
(***************************************************************************)
EXTENDS GenRepo, GenRepoClassic

CONSTANT Tools          \* the tools a behaviour may be about

VARIABLE tool           \* the one it is about

repo == <<disk, opts, history>>
classic == <<project, postman, runInput, classicHistory>>
generatorVars == <<tool, repo, classic, runVars>>

GeneratorsInit == tool \in Tools /\ Init /\ ClassicInit

GeneratorsNext ==
  \/ tool = "repo" /\ Next /\ UNCHANGED <<tool, classic>>
  \/ tool = "classic" /\ ClassicNext /\ UNCHANGED <<tool, repo>>

GeneratorsSpec == GeneratorsInit /\ [][GeneratorsNext]_generatorVars

-----------------------------------------------------------------------------
(* The variables of both generators have their types.                      *)
ToolsTypeOK ==
  /\ tool = "repo" => TypeOK
  /\ tool = "classic" => ClassicTypeOK

(* Neither generator loses code of the developer's, and the classic one    *)
(* moves no parameter or argument, as each allows.                         *)
UserCodeKept ==
  [][ /\ tool = "repo" => KeepsUserCode
      /\ tool = "classic" => ClassicKeepsUserCode ]_generatorVars

(* Nothing is generated twice: no declaration, route, interface, parameter *)
(* or argument, however often the generators run and fail.                 *)
NothingTwice ==
  /\ tool = "repo" => NeverTwice /\ RegisteredOnce
  /\ tool = "classic" => ClassicNeverTwice

(* What the classic generator writes in a shared file names something that *)
(* is there, whichever step of which run has failed, and handler.go and    *)
(* services.go keep agreeing on the order of the use cases.                *)
ReferencesResolve == tool = "classic" => ClassicResolves /\ ArgsMatchParams

(* A run that ends ok has generated everything, whatever was there.        *)
OkMeansDone ==
  /\ tool = "repo" => OkMeansComplete
  /\ tool = "classic" => ClassicComplete

(* What the developer changed in a Postman collection is still there.      *)
EditsSurvive ==
  /\ tool = "repo" => RequestsKept
  /\ tool # "repo" => CollectionKeepsEdits
=============================================================================
