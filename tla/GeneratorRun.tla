----------------------------- MODULE GeneratorRun -----------------------------
(***************************************************************************)
(* A run of a repository generator (src/cmd/gen-repo and its classic       *)
(* version): it goes from step to step until one of them fails or all are  *)
(* done.  Nothing is undone when it ends, so that the next run starts from *)
(* what this one has left.                                                 *)
(***************************************************************************)
EXTENDS Naturals, Sequences

CONSTANT
  MaxFaults       \* bound: failing reads and writes

VARIABLES
  pc, todo,       \* where the run is, and the files left to it
  result,         \* of the last run: "none", "ok" or "err"
  runs, edits, faults

runVars == <<pc, todo, result, runs, edits, faults>>

Own == "own"      \* what the developer adds, wherever he does

RunInit ==
  /\ pc = "idle" /\ todo = <<>>
  /\ result = "none"
  /\ runs = 0 /\ edits = 0 /\ faults = 0

Ends(r) ==
  /\ pc' = "idle"
  /\ todo' = <<>>
  /\ result' = r

(* Something that the disk may refuse.                                     *)
Fault == faults < MaxFaults /\ faults' = faults + 1
=============================================================================
