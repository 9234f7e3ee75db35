------------------------------ MODULE Migrations ------------------------------
(***************************************************************************)
(* The migration generator (src/cmd/gen-migrations): a run lists the       *)
(* directory, takes the number after the highest it can read from a name,  *)
(* and creates a file whose name has that number.  Runs of several         *)
(* developers or terminals interleave.                                     *)
(*                                                                         *)
(* A file's name is its style ("plain", or the prefix of Flyway's), the    *)
(* number printed in it, the slug of its description and, if plain, the    *)
(* second it was made in.                                                  *)
(***************************************************************************)
EXTENDS Naturals, FiniteSets, FiniteSetsExt

CONSTANTS
  Terminals,      \* where runs are started
  Styles,         \* the styles asked for
  Slugs,          \* of the descriptions
  Before,         \* the highest number of an older migration, or 0
  MaxMade         \* bound: runs

Plain == "plain"

ASSUME StyleAssumption ==
  Before \in Nat /\ Styles \subseteq {Plain, "V", "U", "R"}

VARIABLES
  dir,            \* the file names in the directory
  author,         \* history: of each, the terminal that wrote it
  clock,          \* the second it is
  at,             \* where each terminal's run is
  job,            \* its style and slug, and the number it has chosen
  highest,        \* history: the highest number there was when it listed
  started         \* runs so far

mvars == <<dir, author, clock, at, job, highest, started>>

Name(style, n, slug) ==
  [style |-> style, n |-> IF style = "R" THEN 0 ELSE n, slug |-> slug,
   second |-> IF style = Plain THEN clock ELSE 0]

Initial ==
  IF Before = 0 THEN {}
  ELSE {[style |-> Plain, n |-> Before, slug |-> "old", second |-> 0]}

NoJob == [style |-> Plain, slug |-> "none", n |-> 0]

MigrationsInit ==
  /\ dir = Initial
  /\ author = [f \in dir |-> "before"]
  /\ clock = 1
  /\ at = [t \in Terminals |-> "idle"]
  /\ job = [t \in Terminals |-> NoJob]
  /\ highest = [t \in Terminals |-> 0]
  /\ started = 0

-----------------------------------------------------------------------------
(* parseMigrationSequence: a plain number is printed with at least three   *)
(* digits and read from the first three characters.                        *)
FirstThree(n) == IF n < 1000 THEN n ELSE IF n < 10000 THEN n \div 10 ELSE n \div 100

ReadBack(f) ==
  CASE f.style = Plain -> FirstThree(f.n)
    [] f.style \in {"V", "U"} -> f.n
    [] OTHER -> 0                          \* not counted

(* Mutant of NextSequence: files with a Flyway name are not counted.       *)
NextPlainSequence == 1 + Max({0} \cup {ReadBack(f) : f \in {g \in dir : g.style = Plain}})

NextSequence == 1 + Max({0} \cup {ReadBack(f) : f \in dir})

Start(t, style, slug) ==
  /\ at[t] = "idle" /\ started < MaxMade
  /\ started' = started + 1
  /\ job' = [job EXCEPT ![t] = [style |-> style, slug |-> slug,
                                n |-> IF style = "R" THEN 0 ELSE NextSequence]]
  /\ highest' = [highest EXCEPT ![t] = Max({0} \cup {f.n : f \in dir})]
  /\ at' = [at EXCEPT ![t] = "create"]
  /\ UNCHANGED <<dir, author, clock>>

(* O_EXCL: a file of that name is an error.                                *)
Create(t) ==
  LET f == Name(job[t].style, job[t].n, job[t].slug)
  IN  /\ at[t] = "create"
      /\ IF f \in dir
         THEN UNCHANGED <<dir, author>>
         ELSE /\ dir' = dir \cup {f}
              /\ author' = [g \in dir' |-> IF g = f THEN t ELSE author[g]]
      /\ at' = [at EXCEPT ![t] = "idle"]
      /\ job' = [job EXCEPT ![t] = NoJob]
      /\ UNCHANGED <<clock, highest, started>>

(* The directory cannot be made or the file not be created.                *)
CreateFails(t) ==
  /\ at[t] = "create"
  /\ at' = [at EXCEPT ![t] = "idle"]
  /\ job' = [job EXCEPT ![t] = NoJob]
  /\ UNCHANGED <<dir, author, clock, highest, started>>

Second ==
  /\ clock < 2
  /\ clock' = clock + 1
  /\ UNCHANGED <<dir, author, at, job, highest, started>>

MigrationsNext ==
  \/ \E t \in Terminals : \/ \E s \in Styles, d \in Slugs : Start(t, s, d)
                          \/ Create(t) \/ CreateFails(t)
  \/ Second

MigrationsSpec == MigrationsInit /\ [][MigrationsNext]_mvars

-----------------------------------------------------------------------------
(* A new migration comes after every one that was there when its run       *)
(* listed the directory, whatever styles are mixed, as long as no plain    *)
(* one has reached 1000; and no run writes over a file of another.         *)
NumberGrows ==
  /\ \A f \in dir' \ dir :
       \/ f.style = "R" \/ \E g \in dir : g.style = Plain /\ g.n >= 1000
       \/ \E t \in Terminals : at[t] = "create" /\ at'[t] = "idle" /\ f.n > highest[t]
  /\ \A f \in dir : f \in dir' /\ author'[f] = author[f]

(* Every step of every terminal's runs keeps to that.                      *)
NumbersGrow == [][NumberGrows]_mvars
=============================================================================
