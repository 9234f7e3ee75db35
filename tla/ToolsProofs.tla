---------------------------- MODULE ToolsProofs ------------------------------
(***************************************************************************)
(* Proofs about the tools: the repository generator of GenRepo, for any    *)
(* files, declarations, targets and numbers of runs, edits and faults, and *)
(* the migration generator of Migrations, for any terminals, descriptions, *)
(* older migrations and number of runs; and what TableFields makes of any  *)
(* columns and any struct tags.                                            *)
(*                                                                         *)
(* GenRepo: a file that is neither excused by the developer nor by a       *)
(* failing write has everything generated into it (CompleteInv), and one   *)
(* that he has not stripped has a target or nothing that merging would     *)
(* repeat (TargetInv): a merge starts with a target, so that even a write  *)
(* that fails half way leaves one.  A run has completed every file that it *)
(* has left behind before it adds the first route (ProgressInv).           *)
(*                                                                         *)
(* Migrations: as long as no plain migration has reached 1000, every       *)
(* number is read back as it was printed, so that a run chooses a number   *)
(* above the highest there was (ChosenInv).  Files only come, so that it   *)
(* stays so until the run creates its file, whatever others create before. *)
(*                                                                         *)
(* TableFields: a loop that keeps some elements is the one increasing      *)
(* enumeration of their positions, which there is as they are finite.      *)
(***************************************************************************)
EXTENDS GenRepo, Migrations, TableFields, SequenceTheorems, FiniteSetTheorems, WellFoundedInduction, TLAPS

(* A file for which something generated may be missing.                    *)
Excused(f) == f \in partial \cup torn

Complete(f) == ToSet(Gen[f]) \subseteq Names(f)

Settled(f) == Complete(f) \/ (Excused(f) /\ DeclExists(f))

Order == IF opts.ctl THEN Base \o Ctl ELSE Base

GenTypes ==
  /\ TypeOK
  /\ decls = [f \in Files |-> decls[f]]
  /\ todo \in Seq(Files)
  /\ pc \in {"idle", "postman"} => todo = <<>>
  /\ pc = "tags" => todo = Order

(* A file that neither the developer nor a failing write has left without  *)
(* something has everything that is generated into it.                     *)
CompleteInv == \A f \in Files : state[f] = "go" /\ ~Excused(f) => Complete(f)

(* A file without a target has nothing that merging would repeat.          *)
TargetInv ==
  \A f \in Files \ stripped :
    /\ IsInjective([i \in DOMAIN decls[f] |-> decls[f][i].name])
    /\ DeclExists(f) \/ Names(f) \cap ToSet(Gen[f]) = {}

(* What the run under way has done.                                        *)
ProgressInv ==
  /\ pc \in {"files", "postman"} /\ ~opts.dryRun =>
       \A f \in ToSet(Order) \ ToSet(todo) : Settled(f)
  /\ pc = "postman" /\ opts.ctl /\ ~opts.dryRun =>
       wired = {"import", "var"} /\ Missing = <<>>

RequestInv ==
  "module" \in wrote /\ "postman" \notin torn =>
    "module" \in DOMAIN folders /\ Own \in folders["module"]

IInv ==
  /\ GenTypes /\ CompleteInv /\ TargetInv /\ ProgressInv /\ RequestInv
  /\ RegisteredOnce /\ RoutesHaveHandlers /\ OkMeansComplete

-----------------------------------------------------------------------------
(* The increasing enumeration of a set of numbers.  There is none only if  *)
(* there is a least size of a set that has none; but that set has one, of  *)
(* its least element and then the others.                                  *)
Increasing(s) == \A i, j \in DOMAIN s : i < j => s[i] < s[j]

LEMMA Least ==
  ASSUME NEW S, S \subseteq Nat, S # {}
  PROVE  \E x \in S : \A y \in S : x <= y
<1>1. \E x \in S : \A y \in S : ~(<<y, x>> \in OpToRel(<, Nat))
  BY WFMin, NatLessThanWellFounded, Zenon
<1>2. \E x \in S : \A y \in S : ~(y < x)
  BY <1>1, Zenon DEF OpToRel
<1> QED BY <1>2

LEMMA Enumerable ==
  ASSUME NEW S, S \subseteq Nat, IsFiniteSet(S)
  PROVE  \E s \in [1 .. Cardinality(S) -> S] : Increasing(s)
<1> DEFINE Has(T) == \E s \in [1 .. Cardinality(T) -> T] : Increasing(s)
           Bad == {n \in Nat : \E T \in SUBSET Nat : IsFiniteSet(T) /\ Cardinality(T) = n /\ ~Has(T)}
<1>1. Bad = {}
  <2> SUFFICES ASSUME Bad # {} PROVE FALSE
    OBVIOUS
  <2>1. PICK n \in Bad : \A k \in Bad : n <= k
    BY Least
  <2>2. PICK T \in SUBSET Nat : IsFiniteSet(T) /\ Cardinality(T) = n /\ ~Has(T)
    BY <2>1
  <2>3. n \in Nat /\ n # 0
    <3> SUFFICES ASSUME n = 0 PROVE FALSE
      BY <2>1
    <3>1. T = {}
      BY <2>2, FS_EmptySet
    <3>2. [i \in 1 .. 0 |-> 0] \in [1 .. 0 -> T] /\ Increasing([i \in 1 .. 0 |-> 0])
      BY DEF Increasing
    <3> QED BY <2>2, <3>2
  <2>4. PICK x \in T : \A y \in T : x <= y
    <3>1. T # {}
      BY <2>2, <2>3, FS_EmptySet
    <3> QED BY <3>1, Least
  <2> DEFINE U == T \ {x}
  <2>5. IsFiniteSet(U) /\ Cardinality(U) = n - 1 /\ U \in SUBSET Nat
    BY <2>2, FS_RemoveElement
  <2>6. Has(U)
    <3>1. n - 1 \notin Bad
      BY <2>1, <2>3
    <3>2. n - 1 \in Nat
      BY <2>3
    <3> HIDE DEF U, Has
    <3>3. \A T_1 \in SUBSET Nat : IsFiniteSet(T_1) /\ Cardinality(T_1) = n - 1 => Has(T_1)
      BY <3>1, <3>2, Zenon
    <3> QED BY <2>5, <3>3, Zenon
  <2>7. PICK s \in [1 .. n - 1 -> U] : Increasing(s)
    BY <2>5, <2>6
  <2> DEFINE t == [i \in 1 .. n |-> IF i = 1 THEN x ELSE s[i - 1]]
  <2>8. t \in [1 .. n -> T]
    <3>1. ASSUME NEW i \in 1 .. n, i # 1 PROVE s[i - 1] \in T
      <4>1. i - 1 \in 1 .. n - 1
        BY <2>3, <3>1
      <4> QED BY <4>1
    <3> QED BY <3>1
  <2>9. Increasing(t)
    <3> SUFFICES ASSUME NEW i \in 1 .. n, NEW j \in 1 .. n, i < j PROVE t[i] < t[j]
      BY DEF Increasing
    <3>1. j - 1 \in 1 .. n - 1 /\ t[j] = s[j - 1] /\ s[j - 1] \in U
      BY <2>3
    <3>2. CASE i = 1
      <4>1. t[i] = x /\ s[j - 1] # x /\ s[j - 1] \in T
        BY <3>1, <3>2
      <4>2. x \in Nat /\ s[j - 1] \in Nat /\ x <= s[j - 1]
        BY <2>4, <4>1
      <4> QED BY <3>1, <4>1, <4>2
    <3>3. CASE i # 1
      <4>1. i - 1 \in 1 .. n - 1 /\ t[i] = s[i - 1] /\ i - 1 < j - 1
        BY <2>3, <3>3
      <4> QED BY <2>7, <3>1, <4>1 DEF Increasing
    <3> QED BY <3>2, <3>3
  <2> QED BY <2>2, <2>8, <2>9
<1>2. Cardinality(S) \in Nat
  BY FS_CardinalityType
<1> QED BY <1>1, <1>2

LEMMA InOrderIs ==
  ASSUME NEW S, S \subseteq Nat, IsFiniteSet(S)
  PROVE  LET s == InOrder(S) n == Cardinality(S)
         IN  /\ n \in Nat /\ s \in [1 .. n -> S]
             /\ \A i, j \in 1 .. n : s[i] = s[j] => i = j
             /\ \A x \in S : \E i \in 1 .. n : s[i] = x
<1> DEFINE n == Cardinality(S)
           s == InOrder(S)
<1>1. n \in Nat
  BY FS_CardinalityType
<1>2. s \in [1 .. n -> S] /\ Increasing(s)
  BY Enumerable, Zenon DEF InOrder, Increasing
<1> HIDE DEF s, n
<1>3. \A i, j \in 1 .. n : s[i] = s[j] => i = j
  <2> SUFFICES ASSUME NEW i \in 1 .. n, NEW j \in 1 .. n, i # j PROVE s[i] # s[j]
    OBVIOUS
  <2>1. s[i] \in S /\ s[j] \in S
    BY <1>2
  <2>2. i < j \/ j < i
    BY <1>1
  <2>3. (i < j => s[i] < s[j]) /\ (j < i => s[j] < s[i])
    BY <1>2 DEF Increasing
  <2>4. s[i] \in Nat /\ s[j] \in Nat
    BY <2>1, Zenon
  <2> QED BY <2>2, <2>3, <2>4
<1>4. s \in Injection(1 .. n, S)
  BY <1>2, <1>3 DEF Injection, IsInjective
<1>5. Cardinality(1 .. n) = n
  BY <1>1, FS_Interval, SMT
<1>6. s \in Surjection(1 .. n, S)
  BY <1>4, <1>5, FS_Injection DEF n
<1> QED BY <1>1, <1>2, <1>3, <1>6 DEF Surjection, s, n

-----------------------------------------------------------------------------
(* Sequences.                                                              *)

LEMMA FilesAre ==
  /\ Base \o Ctl \in Seq(Files) /\ Base \in Seq(Files)
  /\ Base \o Ctl # <<>> /\ Base # <<>>
  /\ ToSet(Base \o Ctl) = Files /\ ToSet(Base) \subseteq Files
  /\ Model \in Files /\ Http \in Files
<1>1. Base \in Seq(Files) /\ Ctl \in Seq(Files) /\ Len(Base) > 0 /\ Len(Ctl) > 0
  BY GenAssumption, EmptySeq
<1>2. Base \o Ctl \in Seq(Files) /\ Len(Base \o Ctl) = Len(Base) + Len(Ctl)
  BY <1>1, ConcatProperties
<1>3. Base \o Ctl # <<>> /\ Base # <<>>
  BY <1>1, <1>2
<1>4. ToSet(Base) \subseteq Files /\ Base[1] \in Files /\ Ctl[Len(Ctl)] \in Files
  BY <1>1 DEF ToSet
<1> QED BY <1>1, <1>2, <1>3, <1>4 DEF Files, Model, Http

LEMMA GenIs ==
  ASSUME NEW f \in Files
  PROVE  /\ Gen[f] \in Seq(ToSet(Gen[f])) /\ Len(Gen[f]) \in Nat /\ Len(Gen[f]) > 0
         /\ DOMAIN Gen[f] = 1 .. Len(Gen[f])
         /\ \A i, j \in 1 .. Len(Gen[f]) : Gen[f][i] = Gen[f][j] => i = j
         /\ Gen[f][1] \in Targets[f] /\ Targets[f] \subseteq ToSet(Gen[f])
         /\ ToSet(Gen[f]) = {Gen[f][i] : i \in 1 .. Len(Gen[f])}
         /\ Own \notin ToSet(Gen[f])
<1>1. Gen[f] \in Seq(ToSet(Gen[f])) /\ Gen[f] # <<>>
  BY GenAssumption
<1>2. Len(Gen[f]) \in Nat /\ Len(Gen[f]) > 0 /\ DOMAIN Gen[f] = 1 .. Len(Gen[f])
  BY <1>1, EmptySeq
<1>3. \A i, j \in 1 .. Len(Gen[f]) : Gen[f][i] = Gen[f][j] => i = j
  BY <1>2, GenAssumption DEF IsInjective
<1>4. Head(Gen[f]) = Gen[f][1]
  BY <1>1
<1>5. ToSet(Gen[f]) = {Gen[f][i] : i \in 1 .. Len(Gen[f])}
  BY <1>2 DEF ToSet
<1> QED BY <1>1, <1>2, <1>3, <1>4, <1>5, GenAssumption

LEMMA RemovedIs ==
  ASSUME NEW S, NEW s \in Seq(S), NEW i \in 1 .. Len(s)
  PROVE  /\ RemoveAt(s, i) \in Seq(S) /\ Len(RemoveAt(s, i)) = Len(s) - 1
         /\ \A j \in 1 .. Len(s) - 1 : RemoveAt(s, i)[j] = IF j < i THEN s[j] ELSE s[j + 1]
<1> DEFINE a == SubSeq(s, 1, i - 1)
           b == SubSeq(s, i + 1, Len(s))
<1>1. a \in Seq(S) /\ Len(a) = i - 1 /\ \A j \in 1 .. i - 1 : a[j] = s[j]
  BY SubSeqProperties, LenProperties
<1>2. b \in Seq(S) /\ Len(b) = Len(s) - i /\ \A j \in 1 .. Len(s) - i : b[j] = s[i + j]
  BY SubSeqProperties, LenProperties
<1> HIDE DEF a, b
<1>3. /\ a \o b \in Seq(S) /\ Len(a \o b) = Len(s) - 1
      /\ \A j \in 1 .. Len(s) - 1 : (a \o b)[j] = IF j < i THEN a[j] ELSE b[j - (i - 1)]
  <2>1. /\ a \o b \in Seq(S) /\ Len(a \o b) = Len(a) + Len(b)
        /\ \A j \in 1 .. Len(a) + Len(b) :
             (a \o b)[j] = IF j <= Len(a) THEN a[j] ELSE b[j - Len(a)]
    BY <1>1, <1>2, ConcatProperties
  <2>2. Len(s) \in Nat /\ i \in Int
    BY LenProperties
  <2>3. Len(a) + Len(b) = Len(s) - 1 /\ \A j \in Int : j <= Len(a) <=> j < i
    BY <1>1, <1>2, <2>2
  <2> QED BY <1>1, <2>1, <2>2, <2>3
<1>4. ASSUME NEW j \in 1 .. Len(s) - 1
      PROVE  (a \o b)[j] = IF j < i THEN s[j] ELSE s[j + 1]
  <2>1. CASE j < i
    BY <1>1, <1>3, <2>1
  <2>2. CASE ~(j < i)
    <3>1. j - (i - 1) \in 1 .. Len(s) - i /\ i + (j - (i - 1)) = j + 1
      BY <2>2, LenProperties
    <3> QED BY <1>2, <1>3, <2>2, <3>1
  <2> QED BY <2>1, <2>2
<1> QED BY <1>3, <1>4 DEF RemoveAt, a, b

(* A suffix, element by element.                                           *)
LEMMA SuffixIs ==
  ASSUME NEW S, NEW s \in Seq(S), NEW t \in Seq(S)
  PROVE  IsSuffix(s, t) <=>
           Len(s) <= Len(t) /\ \A i \in 1 .. Len(s) : s[i] = t[Len(t) - Len(s) + i]
<1>1. Len(s) \in Nat /\ Len(t) \in Nat
  BY LenProperties
<1> DEFINE a == Reverse(s)
           b == Reverse(t)
<1>2. a \in Seq(S) /\ Len(a) = Len(s) /\ \A i \in 1 .. Len(s) : a[i] = s[Len(s) - i + 1]
  <2>1. \A i \in 1 .. Len(s) : s[Len(s) - i + 1] \in S
    BY <1>1, LenProperties
  <2> QED BY <1>1, <2>1 DEF Reverse
<1>3. b \in Seq(S) /\ Len(b) = Len(t) /\ \A i \in 1 .. Len(t) : b[i] = t[Len(t) - i + 1]
  <2>1. \A i \in 1 .. Len(t) : t[Len(t) - i + 1] \in S
    BY <1>1, LenProperties
  <2> QED BY <1>1, <2>1 DEF Reverse
<1> HIDE DEF a, b
<1>4. ASSUME Len(s) <= Len(t)
      PROVE  SubSeq(a, 1, Len(a)) = SubSeq(b, 1, Len(a)) <=> \A i \in 1 .. Len(s) : a[i] = b[i]
  BY <1>1, <1>2, <1>3, <1>4
<1>5. ASSUME Len(s) <= Len(t)
      PROVE  (\A i \in 1 .. Len(s) : a[i] = b[i])
               <=> \A i \in 1 .. Len(s) : s[i] = t[Len(t) - Len(s) + i]
  <2>1. ASSUME \A i \in 1 .. Len(s) : a[i] = b[i], NEW i \in 1 .. Len(s)
        PROVE  s[i] = t[Len(t) - Len(s) + i]
    <3> DEFINE j == Len(s) - i + 1
    <3>1. j \in 1 .. Len(s) /\ j \in 1 .. Len(t) /\ Len(s) - j + 1 = i
            /\ Len(t) - j + 1 = Len(t) - Len(s) + i
      BY <1>1, <1>5
    <3> QED BY <1>2, <1>3, <2>1, <3>1
  <2>2. ASSUME \A i \in 1 .. Len(s) : s[i] = t[Len(t) - Len(s) + i], NEW i \in 1 .. Len(s)
        PROVE  a[i] = b[i]
    <3> DEFINE j == Len(s) - i + 1
    <3>1. j \in 1 .. Len(s) /\ i \in 1 .. Len(t) /\ Len(t) - Len(s) + j = Len(t) - i + 1
      BY <1>1, <1>5
    <3> QED BY <1>2, <1>3, <2>2, <3>1
  <2> QED BY <2>1, <2>2
<1> QED BY <1>1, <1>2, <1>3, <1>4, <1>5 DEF IsSuffix, IsPrefix, a, b

LEMMA WholeSuffix == ASSUME NEW S, NEW s \in Seq(S) PROVE IsSuffix(s, s)
BY SuffixIs, LenProperties

LEMMA TailSuffix ==
  ASSUME NEW S, NEW s \in Seq(S), NEW t \in Seq(S), t # <<>>, IsSuffix(t, s)
  PROVE  IsSuffix(Tail(t), s)
<1>1. /\ Tail(t) \in Seq(S) /\ Len(Tail(t)) = Len(t) - 1
      /\ \A i \in 1 .. Len(t) - 1 : Tail(t)[i] = t[i + 1]
  BY HeadTailProperties
<1>2. Len(t) <= Len(s) /\ \A i \in 1 .. Len(t) : t[i] = s[Len(s) - Len(t) + i]
  BY SuffixIs
<1>3. Len(t) \in Nat /\ Len(s) \in Nat
  BY LenProperties
<1>4. ASSUME NEW i \in 1 .. Len(t) - 1 PROVE Tail(t)[i] = s[Len(s) - (Len(t) - 1) + i]
  <2>1. i + 1 \in 1 .. Len(t) /\ Len(s) - Len(t) + (i + 1) = Len(s) - (Len(t) - 1) + i
    BY <1>3
  <2> QED BY <1>1, <1>2, <2>1
<1>5. Len(t) - 1 <= Len(s)
  BY <1>2, <1>3
<1> QED BY <1>1, <1>4, <1>5, SuffixIs

-----------------------------------------------------------------------------
(* Declarations.                                                           *)

NamesOf(d) == {d[i].name : i \in DOMAIN d}
Once(d) == IsInjective([i \in DOMAIN d |-> d[i].name])

LEMMA DeclsAre ==
  ASSUME NEW d \in Seq(Decl)
  PROVE  /\ Len(d) \in Nat /\ DOMAIN d = 1 .. Len(d)
         /\ NamesOf(d) = {d[i].name : i \in 1 .. Len(d)}
         /\ Once(d) <=> \A i, j \in 1 .. Len(d) : d[i].name = d[j].name => i = j
BY LenProperties DEF NamesOf, Once, IsInjective

LEMMA GeneratedIs ==
  ASSUME NEW f \in Files
  PROVE  /\ Generated(f) \in Seq(Decl) /\ Len(Generated(f)) = Len(Gen[f])
         /\ \A i \in 1 .. Len(Gen[f]) : Generated(f)[i].name = Gen[f][i]
         /\ NamesOf(Generated(f)) = ToSet(Gen[f]) /\ Once(Generated(f))
<1>1. Generated(f) = [i \in 1 .. Len(Gen[f]) |-> [name |-> Gen[f][i], by |-> "gen"]]
  BY GenIs DEF Generated
<1>2. \A i \in 1 .. Len(Gen[f]) : [name |-> Gen[f][i], by |-> "gen"] \in Decl
  BY GenIs DEF Decl
<1>3. Generated(f) \in Seq(Decl) /\ Len(Generated(f)) = Len(Gen[f])
  BY <1>1, <1>2, GenIs
<1>4. \A i \in 1 .. Len(Gen[f]) : Generated(f)[i].name = Gen[f][i]
  BY <1>1
<1> HIDE DEF Decl
<1> DEFINE g == Generated(f)
<1>5. /\ NamesOf(g) = {g[i].name : i \in 1 .. Len(g)}
      /\ Once(g) <=> \A i, j \in 1 .. Len(g) : g[i].name = g[j].name => i = j
  BY <1>3, DeclsAre
<1>6. NamesOf(g) = ToSet(Gen[f]) /\ Once(g)
  <2>1. Len(g) = Len(Gen[f]) /\ \A i \in 1 .. Len(Gen[f]) : g[i].name = Gen[f][i]
    BY <1>3, <1>4
  <2> HIDE DEF g
  <2>2. {g[i].name : i \in 1 .. Len(g)} = {Gen[f][i] : i \in 1 .. Len(Gen[f])}
    BY <2>1
  <2>3. Once(g)
    BY <1>5, <2>1, GenIs
  <2> QED BY <1>5, <2>2, <2>3, GenIs
<1> QED BY <1>3, <1>4, <1>6

LEMMA PrefixIs ==
  ASSUME NEW S, NEW s \in Seq(S), NEW n \in 0 .. Len(s)
  PROVE  /\ SubSeq(s, 1, n) \in Seq(S) /\ Len(SubSeq(s, 1, n)) = n
         /\ \A i \in 1 .. n : SubSeq(s, 1, n)[i] = s[i]
<1>1. Len(s) \in Nat /\ \A i \in 1 .. n : s[i] \in S
  BY LenProperties
<1> QED BY <1>1, SubSeqProperties

(* Merging a file without a target: nothing is there twice, and whatever   *)
(* of it is written has a target or nothing that was generated.            *)
LEMMA MergedIs ==
  ASSUME NEW f \in Files, NEW d \in Seq(Decl), Once(d), NamesOf(d) \cap ToSet(Gen[f]) = {}
  PROVE  LET m == d \o Generated(f)
         IN  /\ Once(m)
             /\ \A n \in 0 .. Len(m) :
                  LET N == NamesOf(SubSeq(m, 1, n))
                  IN  Targets[f] \cap N # {} \/ N \cap ToSet(Gen[f]) = {}
<1> DEFINE g == Generated(f)
           m == d \o g
<1>1. /\ g \in Seq(Decl) /\ Len(g) = Len(Gen[f]) /\ NamesOf(g) = ToSet(Gen[f]) /\ Once(g)
      /\ \A i \in 1 .. Len(g) : g[i].name = Gen[f][i]
  BY GeneratedIs
<1>2. Len(g) \in Nat /\ Len(g) > 0 /\ Len(d) \in Nat
  BY <1>1, GenIs, LenProperties
<1> HIDE DEF g
<1>3. /\ m \in Seq(Decl) /\ Len(m) = Len(d) + Len(g)
      /\ \A i \in 1 .. Len(m) : m[i] = IF i <= Len(d) THEN d[i] ELSE g[i - Len(d)]
  <2>1. /\ m \in Seq(Decl) /\ Len(m) = Len(d) + Len(g)
        /\ \A i \in 1 .. Len(d) + Len(g) : m[i] = IF i <= Len(d) THEN d[i] ELSE g[i - Len(d)]
    BY <1>1, ConcatProperties
  <2> HIDE DEF m
  <2> QED BY <2>1
<1> HIDE DEF m
<1>4. \A i \in 1 .. Len(d) : m[i].name \in NamesOf(d) /\ m[i].name \notin ToSet(Gen[f])
  BY <1>2, <1>3, DeclsAre
<1>5. ASSUME NEW i \in 1 .. Len(m), i > Len(d)
      PROVE  /\ i - Len(d) \in 1 .. Len(g) /\ m[i].name = g[i - Len(d)].name
             /\ m[i].name \in ToSet(Gen[f])
  <2>1. i - Len(d) \in 1 .. Len(g) /\ m[i] = g[i - Len(d)]
    BY <1>2, <1>3, <1>5
  <2> QED BY <1>1, <2>1, GenIs
<1>6. Once(m)
  <2> SUFFICES ASSUME NEW i \in 1 .. Len(m), NEW j \in 1 .. Len(m), m[i].name = m[j].name
               PROVE  i = j
    BY <1>3, DeclsAre
  <2>1. CASE i <= Len(d) /\ j <= Len(d)
    <3>1. i \in 1 .. Len(d) /\ j \in 1 .. Len(d) /\ d[i].name = d[j].name
      BY <1>2, <1>3, <2>1
    <3> QED BY <3>1, DeclsAre
  <2>2. CASE i > Len(d) /\ j > Len(d)
    <3>1. /\ i - Len(d) \in 1 .. Len(g) /\ j - Len(d) \in 1 .. Len(g)
          /\ g[i - Len(d)].name = g[j - Len(d)].name
      BY <1>5, <2>2
    <3>2. i - Len(d) = j - Len(d)
      BY <1>1, <3>1, DeclsAre
    <3> QED BY <1>2, <3>2
  <2>3. CASE i <= Len(d) /\ j > Len(d)
    <3>1. i \in 1 .. Len(d)
      BY <1>2, <2>3
    <3> QED BY <1>4, <1>5, <2>3, <3>1
  <2>4. CASE i > Len(d) /\ j <= Len(d)
    <3>1. j \in 1 .. Len(d)
      BY <1>2, <2>4
    <3> QED BY <1>4, <1>5, <2>4, <3>1
  <2> QED BY <1>2, <2>1, <2>2, <2>3, <2>4
<1>7. ASSUME NEW n \in 0 .. Len(m)
      PROVE  LET N == NamesOf(SubSeq(m, 1, n))
             IN  Targets[f] \cap N # {} \/ N \cap ToSet(Gen[f]) = {}
  <2> DEFINE p == SubSeq(m, 1, n)
  <2>1. p \in Seq(Decl) /\ Len(p) = n /\ \A i \in 1 .. n : p[i] = m[i]
    BY <1>3, PrefixIs
  <2> HIDE DEF p
  <2>2. NamesOf(p) = {m[i].name : i \in 1 .. n}
    BY <2>1, DeclsAre
  <2>3. CASE n <= Len(d)
    <3>1. \A i \in 1 .. n : i \in 1 .. Len(d)
      BY <1>2, <2>3
    <3> QED BY <1>4, <2>2, <3>1 DEF p
  <2>4. CASE n > Len(d)
    <3>1. Len(d) + 1 \in 1 .. n /\ Len(d) + 1 \in 1 .. Len(m) /\ (Len(d) + 1) - Len(d) = 1
      BY <1>2, <1>3, <2>4
    <3>2. m[Len(d) + 1].name = Gen[f][1]
      BY <1>1, <1>2, <1>5, <3>1
    <3> QED BY <2>2, <3>1, <3>2, GenIs DEF p
  <2> QED BY <1>2, <2>3, <2>4
<1> QED BY <1>6, <1>7 DEF m, g

(* What a run writes into a file, or begins to write.                      *)
LEMMA RenderIs ==
  ASSUME GenTypes, TargetInv, NEW f \in Files, Wanted(f)
  PROVE  /\ Render(f) \in Seq(Decl)
         /\ ToSet(Gen[f]) \subseteq NamesOf(Render(f))
         /\ f \notin stripped => Once(Render(f))
         /\ f \notin stripped => \A n \in 0 .. Len(Render(f)) :
              LET N == NamesOf(SubSeq(Render(f), 1, n))
              IN  Targets[f] \cap N # {} \/ N \cap ToSet(Gen[f]) = {}
<1>1. /\ Generated(f) \in Seq(Decl) /\ NamesOf(Generated(f)) = ToSet(Gen[f]) /\ Once(Generated(f))
      /\ Len(Generated(f)) \in Nat
  BY GeneratedIs, LenProperties
<1>2. decls[f] \in Seq(Decl)
  BY DEF GenTypes, TypeOK
<1>3. CASE opts.force \/ state[f] # "go"
  <2>1. Render(f) = Generated(f)
    BY <1>3 DEF Render
  <2>2. <<>> \in Seq(Decl) /\ NamesOf(<<>>) = {} /\ Once(<<>>)
    BY DEF NamesOf, Once, IsInjective
  <2>3. <<>> \o Generated(f) = Generated(f)
    BY <1>1
  <2>4. \A n \in 0 .. Len(Generated(f)) :
              LET N == NamesOf(SubSeq(Generated(f), 1, n))
              IN  Targets[f] \cap N # {} \/ N \cap ToSet(Gen[f]) = {}
    BY <2>2, <2>3, MergedIs
  <2> QED BY <1>1, <2>1, <2>4
<1>4. CASE ~(opts.force \/ state[f] # "go")
  <2>1. Render(f) = decls[f] \o Generated(f) /\ ~DeclExists(f)
    BY <1>4 DEF Render, Wanted
  <2>2. decls[f] \o Generated(f) \in Seq(Decl)
    BY <1>1, <1>2, ConcatProperties
  <2>3. ToSet(Gen[f]) \subseteq NamesOf(decls[f] \o Generated(f))
    <3> DEFINE d == decls[f]
               g == Generated(f)
    <3>1. ASSUME NEW x \in ToSet(Gen[f]) PROVE x \in NamesOf(d \o g)
      <4>1. PICK i \in 1 .. Len(g) : g[i].name = x
        BY <1>1, DeclsAre
      <4>2. Len(d) \in Nat /\ Len(d) + i \in 1 .. Len(d \o g) /\ (d \o g)[Len(d) + i] = g[i]
        BY <1>1, <1>2, ConcatProperties, LenProperties
      <4>3. NamesOf(d \o g) = {(d \o g)[k].name : k \in 1 .. Len(d \o g)}
        BY <2>2, DeclsAre
      <4> QED BY <4>1, <4>2, <4>3
    <3> QED BY <3>1
  <2>4. ASSUME f \notin stripped
        PROVE  Once(decls[f]) /\ NamesOf(decls[f]) \cap ToSet(Gen[f]) = {}
    BY <2>1, <2>4 DEF TargetInv, Once, NamesOf, Names
  <2> QED BY <1>2, <2>1, <2>2, <2>3, <2>4, MergedIs
<1> QED BY <1>3, <1>4

-----------------------------------------------------------------------------
(* Registrations.                                                          *)

LEMMA MissingIs ==
  /\ Missing \in Seq(Reg)
  /\ \A k \in 1 .. Len(Missing) : Missing[k].fn = "gen" /\ Missing[k] \notin ToSet(regs)
  /\ \A j, k \in 1 .. Len(Missing) : Missing[j].route = Missing[k].route => j = k
  /\ \A i \in DOMAIN Gen[Http] :
       \/ Registration(i) \in ToSet(regs)
       \/ \E k \in 1 .. Len(Missing) : Missing[k] = Registration(i)
<1> DEFINE S == {i \in DOMAIN Gen[Http] : Registration(i) \notin ToSet(regs)}
           left == InOrder(S)
           n == Cardinality(S)
<1>1. /\ DOMAIN Gen[Http] = 1 .. Len(Gen[Http]) /\ Len(Gen[Http]) \in Nat
      /\ \A i, j \in DOMAIN Gen[Http] : Gen[Http][i] = Gen[Http][j] => i = j
      /\ \A i \in DOMAIN Gen[Http] : Gen[Http][i] \in Routes
  <2>1. Http \in Files
    BY FilesAre
  <2> QED BY <2>1, GenIs DEF Routes
<1>2. S \subseteq Nat /\ IsFiniteSet(S)
  <2>1. IsFiniteSet(1 .. Len(Gen[Http])) /\ S \subseteq 1 .. Len(Gen[Http])
    BY <1>1, FS_Interval
  <2> QED BY <2>1, FS_Subset
<1>3. /\ n \in Nat /\ left \in [1 .. n -> S]
      /\ \A i, j \in 1 .. n : left[i] = left[j] => i = j
      /\ \A x \in S : \E i \in 1 .. n : left[i] = x
  BY <1>2, InOrderIs
<1> HIDE DEF left, n
<1>4. Missing = [k \in 1 .. n |-> Registration(left[k])]
  <2>1. DOMAIN left = 1 .. n
    BY <1>3
  <2> QED BY <2>1 DEF Missing, left
<1>5. \A k \in 1 .. n : left[k] \in DOMAIN Gen[Http] /\ Registration(left[k]) \notin ToSet(regs)
  BY <1>3
<1>6. \A k \in 1 .. n : Registration(left[k]) \in Reg
  BY <1>1, <1>5 DEF Registration, Reg
<1>7. Missing \in Seq(Reg) /\ Len(Missing) = n /\ \A k \in 1 .. n : Missing[k] = Registration(left[k])
  <2> HIDE DEF Reg
  <2> QED BY <1>3, <1>4, <1>6
<1>8. \A j, k \in 1 .. n : Missing[j].route = Missing[k].route => j = k
  BY <1>1, <1>3, <1>5, <1>7 DEF Registration
<1>9. \A k \in 1 .. n : Missing[k].fn = "gen" /\ Missing[k] \notin ToSet(regs)
  BY <1>5, <1>7 DEF Registration
<1>10. ASSUME NEW i \in DOMAIN Gen[Http], Registration(i) \notin ToSet(regs)
       PROVE  \E k \in 1 .. n : Missing[k] = Registration(i)
  BY <1>3, <1>7, <1>10
<1> QED BY <1>7, <1>8, <1>9, <1>10

(* Nothing is missing once everything has been added.                      *)
LEMMA NothingMissing ==
  ASSUME NEW r, \A i \in DOMAIN Gen[Http] : Registration(i) \in ToSet(r)
  PROVE  LET left == InOrder({i \in DOMAIN Gen[Http] : Registration(i) \notin ToSet(r)})
         IN  [k \in DOMAIN left |-> Registration(left[k])] = <<>>
<1> DEFINE left == InOrder({i \in DOMAIN Gen[Http] : Registration(i) \notin ToSet(r)})
<1>1. {i \in DOMAIN Gen[Http] : Registration(i) \notin ToSet(r)} = {}
  OBVIOUS
<1>2. IsFiniteSet({}) /\ Cardinality({}) = 0
  BY FS_EmptySet
<1>3. InOrder({}) \in [1 .. Cardinality({}) -> {}]
  BY <1>2, InOrderIs
<1>4. DOMAIN left = {}
  <2>1. left = InOrder({})
    BY <1>1
  <2> QED BY <1>2, <1>3, <2>1
<1> HIDE DEF left
<1>5. [k \in DOMAIN left |-> Registration(left[k])] = <<>>
  BY <1>4
<1> QED BY <1>5 DEF left

-----------------------------------------------------------------------------
LEMMA Bounds == MaxRuns \in Nat /\ MaxEdits \in Nat /\ MaxFaults \in Nat
BY GenAssumption

LEMMA InitInv == Init => IInv
<1> SUFFICES ASSUME Init PROVE IInv
  OBVIOUS
<1>1. GenTypes
  <2>1. DOMAIN folders = {} /\ <<>> \in Seq(Decl) /\ <<>> \in Seq(Reg) /\ <<>> \in Seq(Files)
    BY DEF Init, RunInit
  <2>2. opts \in Flags
    BY DEF Init, RunInit, Flags
  <2>3. runs \in 0 .. MaxRuns /\ edits \in 0 .. MaxEdits /\ faults \in 0 .. MaxFaults
    BY GenAssumption DEF Init, RunInit
  <2> QED BY <2>1, <2>2, <2>3 DEF Init, RunInit, GenTypes, TypeOK
<1>2. CompleteInv /\ TargetInv
  BY DEF Init, RunInit, CompleteInv, TargetInv, IsInjective, Names
<1>3. RegisteredOnce /\ RoutesHaveHandlers
  BY DEF Init, RunInit, RegisteredOnce, RoutesHaveHandlers
<1>4. ProgressInv /\ RequestInv /\ OkMeansComplete
  BY DEF Init, RunInit, ProgressInv, RequestInv, OkMeansComplete
<1> QED BY <1>1, <1>2, <1>3, <1>4 DEF IInv

(* What is kept by steps that leave Go files, or registrations, alone.     *)
LEMMA FilesKeep ==
  ASSUME CompleteInv, TargetInv, UNCHANGED <<state, decls, partial, stripped>>, torn \subseteq torn'
  PROVE  CompleteInv' /\ TargetInv'
BY DEF CompleteInv, TargetInv, Excused, Complete, Names, DeclExists

LEMMA RoutesKeep ==
  ASSUME RegisteredOnce, RoutesHaveHandlers, UNCHANGED <<regs, decls, partial>>, torn \subseteq torn'
  PROVE  RegisteredOnce' /\ RoutesHaveHandlers'
BY DEF RegisteredOnce, RoutesHaveHandlers, Names

(* Steps that change no file: a run begins, reads the tags, or gives up.   *)
LEMMA RunInv ==
  ASSUME IInv,
         \/ Run \/ LoadTags \/ LoadTagsFails \/ Ended \/ UNCHANGED vars
         \/ \E f \in Files : InspectFails(f)
  PROVE  IInv'
<1> USE DEF IInv
<1>1. UNCHANGED <<disk, partial, stripped, wrote, torn, edits>>
  BY DEF Run, LoadTags, LoadTagsFails, Ended, InspectFails, vars, history
<1>2. CompleteInv' /\ TargetInv' /\ RegisteredOnce' /\ RoutesHaveHandlers' /\ RequestInv'
  <2>1. UNCHANGED <<state, decls, regs, partial, stripped, wrote, torn, folders>>
    BY <1>1 DEF disk
  <2> QED BY <2>1, FilesKeep, RoutesKeep DEF RequestInv
<1>3. CASE Run
  <2>1. /\ runs < MaxRuns /\ runs' = runs + 1 /\ faults' = faults
        /\ opts' \in Flags /\ pc' = "tags" /\ todo' = Order' /\ result' = "none"
    BY <1>3 DEF Run, Order
  <2>2. GenTypes'
    <3>1. runs' \in 0 .. MaxRuns
      BY <2>1, Bounds DEF GenTypes, TypeOK
    <3>2. todo' \in Seq(Files) /\ (IsSuffix(todo', Base) \/ IsSuffix(todo', Base \o Ctl))
      BY <2>1, FilesAre, WholeSuffix DEF Order
    <3>3. /\ state' = state /\ decls' = decls /\ usable' = usable /\ wired' = wired
          /\ regs' = regs /\ folders' = folders
      BY <1>1 DEF disk
    <3> QED BY <1>1, <2>1, <3>1, <3>2, <3>3 DEF GenTypes, TypeOK
  <2>3. ProgressInv' /\ OkMeansComplete'
    BY <2>1 DEF ProgressInv, OkMeansComplete
  <2> QED BY <1>2, <2>2, <2>3
<1>4. CASE LoadTags \/ LoadTagsFails \/ \E f \in Files : InspectFails(f)
  <2>1. /\ opts' = opts /\ runs' = runs
        /\ faults' = faults \/ (faults < MaxFaults /\ faults' = faults + 1)
        /\ \/ pc = "tags" /\ pc' = "files" /\ todo' = todo /\ result' = result
           \/ pc' = "idle" /\ todo' = <<>> /\ result' = "err"
    BY <1>4 DEF LoadTags, LoadTagsFails, InspectFails, Ends, Fault
  <2>2. GenTypes'
    <3>1. faults' \in 0 .. MaxFaults
      BY <2>1, Bounds DEF GenTypes, TypeOK
    <3>2. /\ state' = state /\ decls' = decls /\ usable' = usable /\ wired' = wired
          /\ regs' = regs /\ folders' = folders
      BY <1>1 DEF disk
    <3>3. <<>> \in Seq(Files)
      BY EmptySeq
    <3> QED BY <1>1, <2>1, <3>1, <3>2, <3>3 DEF GenTypes, TypeOK, Order
  <2>3. ProgressInv' /\ OkMeansComplete'
    BY <2>1 DEF GenTypes, ProgressInv, OkMeansComplete, Order
  <2> QED BY <1>2, <2>2, <2>3
<1>5. CASE Ended \/ UNCHANGED vars
  <2>1. UNCHANGED vars
    BY <1>5 DEF Ended
  <2> USE <2>1 DEF vars, disk, history
  <2>2. GenTypes'
    BY DEF GenTypes, TypeOK, Order
  <2>3. ProgressInv' /\ OkMeansComplete'
    <3>1. Missing' = Missing /\ Order' = Order
      BY DEF Missing, Registration, Order
    <3>2. \A f \in Files : Settled(f)' = Settled(f) /\ Excused(f)' = Excused(f)
                             /\ DeclExists(f)' = DeclExists(f) /\ Names(f)' = Names(f)
      BY DEF Settled, Complete, Excused, DeclExists, Names
    <3>3. ProgressInv'
      BY <3>1, <3>2, FilesAre DEF ProgressInv, Order
    <3>4. OkMeansComplete'
      BY <3>1, <3>2, FilesAre DEF OkMeansComplete
    <3> QED BY <3>3, <3>4
  <2> QED BY <1>2, <2>2, <2>3
<1> QED BY <1>3, <1>4, <1>5

-----------------------------------------------------------------------------
(* A step that gives a file other declarations, and what it owes to the    *)
(* invariants: everything generated, or an excuse; nothing twice; and a    *)
(* target, or nothing that merging would repeat.                           *)
LEMMA OtherDecls ==
  ASSUME IInv, NEW f \in Files, NEW d \in Seq(Decl), NEW s \in {"absent", "blank", "broken", "go"},
         state' = [state EXCEPT ![f] = s], decls' = [decls EXCEPT ![f] = d],
         s # "go" => d = <<>>, regs' = regs,
         partial \ {f} \subseteq partial', torn \ {f} \subseteq torn', stripped \subseteq stripped',
         f \notin partial' \cup torn' => ToSet(Gen[f]) \subseteq NamesOf(d),
         f \notin stripped' =>
           Once(d) /\ (Targets[f] \cap NamesOf(d) # {} \/ NamesOf(d) \cap ToSet(Gen[f]) = {})
  PROVE  /\ CompleteInv' /\ TargetInv' /\ RegisteredOnce' /\ RoutesHaveHandlers'
         /\ state' \in [Files -> {"absent", "blank", "broken", "go"}]
         /\ decls' = [g \in Files |-> decls'[g]]
         /\ \A g \in Files : decls'[g] \in Seq(Decl) /\ (state'[g] # "go" => decls'[g] = <<>>)
<1> USE DEF IInv
<1>1. /\ decls'[f] = d /\ state'[f] = s
      /\ \A g \in Files \ {f} : decls'[g] = decls[g] /\ state'[g] = state[g]
  BY DEF GenTypes, TypeOK
<1>2. Names(f)' = NamesOf(d) /\ \A g \in Files \ {f} : Names(g)' = Names(g)
  BY <1>1 DEF Names, NamesOf
<1>3. CompleteInv'
  BY <1>1, <1>2 DEF CompleteInv, Excused, Complete
<1>4. TargetInv'
  <2> SUFFICES ASSUME NEW g \in Files, g \notin stripped'
               PROVE  /\ IsInjective([i \in DOMAIN decls'[g] |-> decls'[g][i].name])
                      /\ DeclExists(g)' \/ Names(g)' \cap ToSet(Gen[g]) = {}
    BY DEF TargetInv
  <2>1. CASE g = f
    BY <1>1, <1>2, <2>1 DEF DeclExists, Once
  <2>2. CASE g # f
    BY <1>1, <1>2, <2>2 DEF TargetInv, DeclExists
  <2> QED BY <2>1, <2>2
<1>5. RegisteredOnce' /\ RoutesHaveHandlers'
  <2>1. \A i \in DOMAIN regs : regs[i].route \in ToSet(Gen[Http])
    <3>1. \A i \in DOMAIN regs : regs[i] \in Reg
      BY LenProperties DEF GenTypes, TypeOK
    <3> QED BY <3>1 DEF Reg, Routes
  <2>2. CASE Http = f
    BY <1>2, <2>1, <2>2 DEF RegisteredOnce, RoutesHaveHandlers
  <2>3. CASE Http # f
    BY <1>2, <2>3, FilesAre DEF RegisteredOnce, RoutesHaveHandlers
  <2> QED BY <2>2, <2>3
<1>6. /\ state' \in [Files -> {"absent", "blank", "broken", "go"}]
      /\ decls' = [g \in Files |-> decls'[g]]
      /\ \A g \in Files : decls'[g] \in Seq(Decl) /\ (state'[g] # "go" => decls'[g] = <<>>)
  BY <1>1 DEF GenTypes, TypeOK
<1> QED BY <1>3, <1>4, <1>5, <1>6

(* The file that is next in a run.                                         *)
LEMMA NextFile ==
  ASSUME IInv, pc = "files", todo # <<>>
  PROVE  /\ Head(todo) \in Files /\ Tail(todo) \in Seq(Files)
         /\ ToSet(todo) \subseteq ToSet(Tail(todo)) \cup {Head(todo)}
         /\ IsSuffix(Tail(todo), Base) \/ IsSuffix(Tail(todo), Base \o Ctl)
<1> USE DEF IInv, GenTypes, TypeOK
<1>1. /\ Head(todo) \in Files /\ Tail(todo) \in Seq(Files) /\ Len(Tail(todo)) = Len(todo) - 1
      /\ \A i \in 1 .. Len(Tail(todo)) : Tail(todo)[i] = todo[i + 1]
  BY HeadTailProperties
<1>2. Len(todo) \in Nat /\ DOMAIN todo = 1 .. Len(todo) /\ Head(todo) = todo[1]
  BY LenProperties
<1>3. ASSUME NEW i \in DOMAIN todo PROVE todo[i] \in ToSet(Tail(todo)) \cup {Head(todo)}
  <2>1. CASE i = 1
    BY <1>2, <2>1
  <2>2. CASE i # 1
    <3>1. i - 1 \in 1 .. Len(Tail(todo)) /\ (i - 1) + 1 = i
      BY <1>1, <1>2, <2>2
    <3>2. todo[i] = Tail(todo)[i - 1] /\ DOMAIN Tail(todo) = 1 .. Len(Tail(todo))
      BY <1>1, <3>1, LenProperties
    <3> QED BY <3>1, <3>2 DEF ToSet
  <2> QED BY <2>1, <2>2
<1>4. ToSet(todo) \subseteq ToSet(Tail(todo)) \cup {Head(todo)}
  BY <1>3 DEF ToSet
<1>5. IsSuffix(Tail(todo), Base) \/ IsSuffix(Tail(todo), Base \o Ctl)
  BY FilesAre, TailSuffix
<1> QED BY <1>1, <1>4, <1>5

LEMMA WriteFileInv ==
  ASSUME IInv, NEW f \in Files, WriteFile(f)
  PROVE  IInv'
<1> USE DEF IInv
<1>1. /\ pc = "files" /\ todo # <<>> /\ f = Head(todo) /\ todo' = Tail(todo)
      /\ opts.force \/ state[f] # "broken"
      /\ UNCHANGED <<usable, wired, regs, folders, pc, opts, result, runs, edits, faults, fresh,
                     stripped, wrote>>
  BY DEF WriteFile
<1>2. /\ todo' \in Seq(Files) /\ ToSet(todo) \subseteq ToSet(todo') \cup {f}
      /\ IsSuffix(todo', Base) \/ IsSuffix(todo', Base \o Ctl)
  BY <1>1, NextFile
<1>3. CASE Wanted(f) /\ ~opts.dryRun
  <2>1. /\ state' = [state EXCEPT ![f] = "go"] /\ decls' = [decls EXCEPT ![f] = Render(f)]
        /\ torn' \in {torn, torn \ {f}} /\ partial' = partial \ {f}
    BY <1>3 DEF WriteFile
  <2>2. /\ Render(f) \in Seq(Decl) /\ ToSet(Gen[f]) \subseteq NamesOf(Render(f))
        /\ f \notin stripped => Once(Render(f))
    BY <1>3, RenderIs
  <2>3. Targets[f] \cap NamesOf(Render(f)) # {}
    BY <2>2, GenIs
  <2>4. /\ CompleteInv' /\ TargetInv' /\ RegisteredOnce' /\ RoutesHaveHandlers'
        /\ state' \in [Files -> {"absent", "blank", "broken", "go"}]
        /\ decls' = [g \in Files |-> decls'[g]]
        /\ \A g \in Files : decls'[g] \in Seq(Decl) /\ (state'[g] # "go" => decls'[g] = <<>>)
    BY <1>1, <2>1, <2>2, <2>3, OtherDecls
  <2>5. GenTypes'
    BY <1>1, <1>2, <2>1, <2>4 DEF GenTypes, TypeOK
  <2>6. ProgressInv'
    <3>1. decls'[f] = Render(f) /\ \A g \in Files \ {f} : decls'[g] = decls[g]
      BY <2>1 DEF GenTypes
    <3>2. Complete(f)' /\ \A g \in Files \ {f} : Names(g)' = Names(g)
      BY <2>2, <3>1 DEF Complete, Names, NamesOf
    <3>3. \A g \in Files \ {f} : Settled(g) => Settled(g)'
      BY <2>1, <3>2 DEF Settled, Complete, Excused, DeclExists
    <3>4. Order' = Order /\ ToSet(Order) \subseteq Files
      BY <1>1, FilesAre DEF Order
    <3>5. ASSUME NEW g \in ToSet(Order) \ ToSet(todo'), ~opts.dryRun PROVE Settled(g)'
      BY <1>1, <1>2, <3>2, <3>3, <3>4, <3>5 DEF ProgressInv, Settled
    <3> QED BY <1>1, <3>4, <3>5 DEF ProgressInv
  <2>7. RequestInv' /\ OkMeansComplete'
    <3>1. "postman" # f
      BY GenAssumption
    <3> QED BY <1>1, <2>1, <3>1 DEF RequestInv, OkMeansComplete
  <2> QED BY <2>4, <2>5, <2>6, <2>7
<1>4. CASE ~(Wanted(f) /\ ~opts.dryRun)
  <2>1. UNCHANGED <<state, decls, torn, partial>>
    BY <1>4 DEF WriteFile
  <2>2. CompleteInv' /\ TargetInv' /\ RegisteredOnce' /\ RoutesHaveHandlers'
    BY <1>1, <2>1, FilesKeep, RoutesKeep
  <2>3. GenTypes' /\ RequestInv' /\ OkMeansComplete'
    BY <1>1, <1>2, <2>1 DEF GenTypes, TypeOK, RequestInv, OkMeansComplete
  <2>4. ProgressInv'
    <3>1. \A g \in Files : Settled(g)' = Settled(g)
      BY <2>1 DEF Settled, Complete, Excused, DeclExists, Names
    <3>2. ~opts.dryRun => Settled(f)
      <4> SUFFICES ASSUME ~opts.dryRun PROVE Settled(f)
        OBVIOUS
      <4>1. state[f] = "go" /\ DeclExists(f)
        BY <1>1, <1>4 DEF Wanted, GenTypes, TypeOK
      <4> QED BY <4>1 DEF CompleteInv, Settled
    <3>3. Order' = Order /\ ToSet(Order) \subseteq Files
      BY <1>1, FilesAre DEF Order
    <3>4. ASSUME NEW g \in ToSet(Order) \ ToSet(todo'), ~opts.dryRun PROVE Settled(g)'
      BY <1>1, <1>2, <3>1, <3>2, <3>3, <3>4 DEF ProgressInv
    <3> QED BY <1>1, <3>3, <3>4 DEF ProgressInv
  <2> QED BY <2>2, <2>3, <2>4
<1> QED BY <1>3, <1>4

(* A failing write leaves nothing, or a part of what was to be written.    *)
LEMMA FileFailsInv ==
  ASSUME IInv, NEW f \in Files, FileFails(f)
  PROVE  IInv'
<1> USE DEF IInv
<1>1. /\ pc = "files" /\ pc' = "idle" /\ todo' = <<>> /\ result' = "err"
      /\ faults < MaxFaults /\ faults' = faults + 1
      /\ UNCHANGED <<usable, wired, regs, folders, opts, runs, edits, fresh, partial, stripped,
                     wrote>>
      /\ UNCHANGED <<state, decls, torn>> \/ Truncated(f)
  BY DEF FileFails, Ends, Fault
<1>2. faults' \in 0 .. MaxFaults /\ <<>> \in Seq(Files)
  BY <1>1, Bounds, EmptySeq DEF GenTypes, TypeOK
<1>3. ProgressInv' /\ OkMeansComplete'
  BY <1>1 DEF ProgressInv, OkMeansComplete
<1>4. CASE UNCHANGED <<state, decls, torn>>
  <2>1. CompleteInv' /\ TargetInv' /\ RegisteredOnce' /\ RoutesHaveHandlers'
    BY <1>1, <1>4, FilesKeep, RoutesKeep
  <2>2. GenTypes' /\ RequestInv'
    BY <1>1, <1>2, <1>4 DEF GenTypes, TypeOK, RequestInv
  <2> QED BY <1>3, <2>1, <2>2
<1>5. CASE Truncated(f)
  <2>1. Wanted(f) /\ torn' = torn \cup {f}
    BY <1>5 DEF Truncated
  <2>2. PICK s \in {"blank", "broken", "go"}, d \in Seq(Decl) :
          /\ state' = [state EXCEPT ![f] = s] /\ decls' = [decls EXCEPT ![f] = d]
          /\ s # "go" => d = <<>>
          /\ f \notin stripped =>
               Once(d) /\ (Targets[f] \cap NamesOf(d) # {} \/ NamesOf(d) \cap ToSet(Gen[f]) = {})
    <3>1. CASE /\ \E s \in {"blank", "broken"} : state' = [state EXCEPT ![f] = s]
               /\ decls' = [decls EXCEPT ![f] = <<>>]
      <4>1. <<>> \in Seq(Decl) /\ Once(<<>>) /\ NamesOf(<<>>) = {}
        BY EmptySeq DEF Once, NamesOf, IsInjective
      <4> QED BY <3>1, <4>1
    <3>2. CASE /\ \E n \in 0 .. Len(Render(f)) - 1 :
                    decls' = [decls EXCEPT ![f] = SubSeq(Render(f), 1, n)]
               /\ state' = [state EXCEPT ![f] = "go"]
      <4>1. PICK n \in 0 .. Len(Render(f)) - 1 :
              decls' = [decls EXCEPT ![f] = SubSeq(Render(f), 1, n)]
        BY <3>2
      <4> DEFINE d == SubSeq(Render(f), 1, n)
      <4>2. Render(f) \in Seq(Decl) /\ n \in 0 .. Len(Render(f))
        BY <2>1, RenderIs, LenProperties
      <4>3. d \in Seq(Decl) /\ Len(d) = n /\ \A i \in 1 .. n : d[i] = Render(f)[i]
        BY <4>2, PrefixIs
      <4>4. f \notin stripped =>
              /\ Once(Render(f))
              /\ Targets[f] \cap NamesOf(d) # {} \/ NamesOf(d) \cap ToSet(Gen[f]) = {}
        BY <2>1, <4>2, RenderIs
      <4> HIDE DEF d
      <4>5. f \notin stripped => Once(d)
        BY <4>2, <4>3, <4>4, DeclsAre
      <4> QED BY <3>2, <4>1, <4>3, <4>4, <4>5 DEF d
    <3> QED BY <1>5, <3>1, <3>2 DEF Truncated
  <2>3. /\ CompleteInv' /\ TargetInv' /\ RegisteredOnce' /\ RoutesHaveHandlers'
        /\ state' \in [Files -> {"absent", "blank", "broken", "go"}]
        /\ decls' = [g \in Files |-> decls'[g]]
        /\ \A g \in Files : decls'[g] \in Seq(Decl) /\ (state'[g] # "go" => decls'[g] = <<>>)
    BY <1>1, <2>1, <2>2, OtherDecls
  <2>4. GenTypes' /\ RequestInv'
    BY <1>1, <1>2, <2>1, <2>3 DEF GenTypes, TypeOK, RequestInv
  <2> QED BY <1>3, <2>3, <2>4
<1> QED BY <1>1, <1>4, <1>5

-----------------------------------------------------------------------------
(* The route file.                                                         *)
LEMMA AddedRoutes ==
  ASSUME IInv, AfterFiles, opts.ctl, ~opts.dryRun, regs' = regs \o Missing,
         UNCHANGED <<decls, partial, torn>>
  PROVE  regs' \in Seq(Reg) /\ RegisteredOnce' /\ RoutesHaveHandlers' /\ Missing' = <<>>
<1> USE DEF IInv
<1> DEFINE new == Missing
<1>1. /\ new \in Seq(Reg) /\ regs \in Seq(Reg)
      /\ \A k \in 1 .. Len(new) : new[k].fn = "gen" /\ new[k] \notin ToSet(regs)
      /\ \A j, k \in 1 .. Len(new) : new[j].route = new[k].route => j = k
      /\ \A i \in DOMAIN Gen[Http] :
           Registration(i) \in ToSet(regs) \/ \E k \in 1 .. Len(new) : new[k] = Registration(i)
  BY MissingIs DEF GenTypes, TypeOK
<1>2. regs' = regs \o new
  OBVIOUS
<1> HIDE DEF new
<1>3. /\ regs' \in Seq(Reg) /\ Len(regs') = Len(regs) + Len(new)
      /\ Len(regs) \in Nat /\ Len(new) \in Nat
      /\ DOMAIN regs = 1 .. Len(regs) /\ DOMAIN regs' = 1 .. Len(regs')
      /\ \A i \in 1 .. Len(regs') : regs'[i] = IF i <= Len(regs) THEN regs[i] ELSE new[i - Len(regs)]
  <2>1. /\ regs' \in Seq(Reg) /\ Len(regs') = Len(regs) + Len(new)
        /\ \A i \in 1 .. Len(regs) + Len(new) :
             regs'[i] = IF i <= Len(regs) THEN regs[i] ELSE new[i - Len(regs)]
    BY <1>1, <1>2, ConcatProperties
  <2>2. Len(regs) \in Nat /\ Len(new) \in Nat /\ DOMAIN regs = 1 .. Len(regs)
    BY <1>1, LenProperties
  <2>3. DOMAIN regs' = 1 .. Len(regs')
    BY <2>1, LenProperties
  <2> HIDE DEF Reg
  <2> QED BY <2>1, <2>2, <2>3
<1>4. \A i \in 1 .. Len(regs') : i > Len(regs) => i - Len(regs) \in 1 .. Len(new)
  BY <1>3
<1>5. RegisteredOnce'
  <2> SUFFICES ASSUME NEW i \in 1 .. Len(regs'), NEW j \in 1 .. Len(regs'), i # j,
                      regs'[i].route = regs'[j].route
               PROVE  regs'[i].fn = Own \/ regs'[j].fn = Own
    BY <1>3 DEF RegisteredOnce
  <2>1. ASSUME NEW a \in 1 .. Len(regs), NEW b \in 1 .. Len(new), regs[a].route = new[b].route
        PROVE  regs[a].fn = Own
    <3>1. regs[a] \in Reg /\ new[b] \in Reg /\ regs[a] \in ToSet(regs)
      <4>1. regs[a] \in Reg /\ new[b] \in Reg
        BY <1>1, LenProperties
      <4>2. regs[a] \in ToSet(regs)
        BY <1>3, Zenon DEF ToSet
      <4> QED BY <4>1, <4>2
    <3>2. regs[a] # new[b] /\ new[b].fn = "gen"
      BY <1>1, <3>1
    <3>3. regs[a].fn \in {"gen", Own} /\ regs[a] = [route |-> regs[a].route, fn |-> regs[a].fn]
      BY <3>1 DEF Reg
    <3>4. new[b] = [route |-> new[b].route, fn |-> new[b].fn]
      BY <3>1 DEF Reg
    <3> QED BY <2>1, <3>2, <3>3, <3>4
  <2>2. ASSUME NEW k \in 1 .. Len(regs'), k <= Len(regs)
        PROVE  k \in 1 .. Len(regs) /\ regs'[k] = regs[k]
    BY <1>3, <2>2
  <2>3. ASSUME NEW k \in 1 .. Len(regs'), ~(k <= Len(regs))
        PROVE  k - Len(regs) \in 1 .. Len(new) /\ regs'[k] = new[k - Len(regs)]
    BY <1>3, <2>3
  <2> HIDE DEF Reg
  <2>4. CASE i <= Len(regs) /\ j <= Len(regs)
    <3>1. regs[i].route = regs[j].route /\ i \in DOMAIN regs /\ j \in DOMAIN regs
      BY <1>3, <2>2, <2>4
    <3>2. regs[i].fn = Own \/ regs[j].fn = Own
      BY <3>1 DEF RegisteredOnce
    <3> QED BY <2>2, <2>4, <3>2
  <2>5. CASE ~(i <= Len(regs)) /\ ~(j <= Len(regs))
    <3>1. new[i - Len(regs)].route = new[j - Len(regs)].route
      BY <2>3, <2>5
    <3>2. i - Len(regs) = j - Len(regs)
      BY <1>1, <2>3, <2>5, <3>1
    <3> QED BY <1>3, <3>2
  <2>6. CASE i <= Len(regs) /\ ~(j <= Len(regs))
    <3>1. regs[i].route = new[j - Len(regs)].route
      BY <2>2, <2>3, <2>6
    <3> QED BY <2>1, <2>2, <2>3, <2>6, <3>1
  <2>7. CASE ~(i <= Len(regs)) /\ j <= Len(regs)
    <3>1. regs[j].route = new[i - Len(regs)].route
      BY <2>2, <2>3, <2>7
    <3> QED BY <2>1, <2>2, <2>3, <2>7, <3>1
  <2> QED BY <2>4, <2>5, <2>6, <2>7
<1>6. RoutesHaveHandlers'
  <2>1. Settled(Http)
    <3>1. Http \in ToSet(Order) \ ToSet(todo) /\ pc = "files"
      BY FilesAre DEF AfterFiles, Order, ToSet
    <3> QED BY <3>1 DEF ProgressInv
  <2>2. Names(Http)' = Names(Http)
    BY DEF Names
  <2>3. ASSUME NEW i \in 1 .. Len(regs')
        PROVE  regs'[i].fn = Own \/ regs'[i].route \in Names(Http) \/ Http \in partial \cup torn
    <3>1. regs'[i] \in Reg
      BY <1>3, LenProperties
    <3>2. regs'[i].route \in ToSet(Gen[Http])
      BY <3>1 DEF Reg, Routes
    <3> QED BY <2>1, <3>2 DEF Settled, Complete, Excused
  <2> QED BY <1>3, <2>2, <2>3 DEF RoutesHaveHandlers
<1>7. Missing' = <<>>
  <2>1. ASSUME NEW i \in DOMAIN Gen[Http] PROVE Registration(i) \in ToSet(regs')
    <3>1. CASE Registration(i) \in ToSet(regs)
      <4>1. PICK k \in 1 .. Len(regs) : regs[k] = Registration(i)
        BY <1>3, <3>1 DEF ToSet
      <4>2. k \in DOMAIN regs' /\ regs'[k] = regs[k]
        BY <1>3
      <4> QED BY <4>1, <4>2 DEF ToSet
    <3>2. CASE \E k \in 1 .. Len(new) : new[k] = Registration(i)
      <4>1. PICK k \in 1 .. Len(new) : new[k] = Registration(i)
        BY <3>2
      <4>2. Len(regs) + k \in DOMAIN regs' /\ regs'[Len(regs) + k] = new[k]
        BY <1>3
      <4> QED BY <4>1, <4>2 DEF ToSet
    <3> QED BY <1>1, <3>1, <3>2
  <2>2. LET left == InOrder({i \in DOMAIN Gen[Http] : Registration(i) \notin ToSet(regs')})
        IN  [k \in DOMAIN left |-> Registration(left[k])] = <<>>
    BY <2>1, NothingMissing
  <2> QED BY <2>2 DEF Missing, Registration
<1> QED BY <1>3, <1>5, <1>6, <1>7

LEMMA PatchRoutesInv == ASSUME IInv, PatchRoutes PROVE IInv'
<1> USE DEF IInv
<1>1. /\ pc = "files" /\ todo = <<>> /\ pc' = "postman"
      /\ UNCHANGED <<state, decls, usable, folders, todo, opts, result, runs, edits, faults,
                     fresh, partial, stripped, wrote, torn>>
      /\ \/ opts.ctl /\ ~opts.dryRun /\ wired' = {"import", "var"} /\ regs' = regs \o Missing
         \/ ~(opts.ctl /\ ~opts.dryRun) /\ UNCHANGED <<wired, regs>>
  BY DEF PatchRoutes, AfterFiles, history
<1>2. CompleteInv' /\ TargetInv' /\ RequestInv' /\ OkMeansComplete'
  BY <1>1, FilesKeep DEF RequestInv, OkMeansComplete
<1>3. /\ regs' \in Seq(Reg) /\ RegisteredOnce' /\ RoutesHaveHandlers'
      /\ opts.ctl /\ ~opts.dryRun => wired' = {"import", "var"} /\ Missing' = <<>>
  BY <1>1, AddedRoutes, RoutesKeep DEF AfterFiles, GenTypes, TypeOK
<1>4. GenTypes'
  BY <1>1, <1>3 DEF GenTypes, TypeOK
<1>5. ProgressInv'
  <2>1. Order' = Order /\ ToSet(Order) \subseteq Files
    BY <1>1, FilesAre DEF Order
  <2>2. \A f \in Files : Settled(f)' = Settled(f)
    BY <1>1 DEF Settled, Complete, Excused, DeclExists, Names
  <2> QED BY <1>1, <1>3, <2>1, <2>2 DEF ProgressInv
<1> QED BY <1>2, <1>3, <1>4, <1>5

LEMMA PatchRoutesFailsInv == ASSUME IInv, PatchRoutesFails PROVE IInv'
<1> USE DEF IInv
<1>1. /\ pc' = "idle" /\ todo' = <<>> /\ result' = "err"
      /\ faults' = faults \/ (faults < MaxFaults /\ faults' = faults + 1)
      /\ UNCHANGED <<state, decls, folders, opts, runs, edits, fresh, partial, stripped, wrote>>
      /\ \/ UNCHANGED <<usable, wired, regs, torn>>
         \/ /\ usable' \subseteq usable /\ wired' = {} /\ regs' = <<>>
            /\ torn' = torn \cup {"route"}
  BY DEF PatchRoutesFails, Ends, Fault
<1>2. faults' \in 0 .. MaxFaults /\ <<>> \in Seq(Files) /\ <<>> \in Seq(Reg)
  BY <1>1, Bounds, EmptySeq DEF GenTypes, TypeOK
<1>3. GenTypes' /\ RequestInv'
  BY <1>1, <1>2 DEF GenTypes, TypeOK, RequestInv
<1>4. CompleteInv' /\ TargetInv'
  BY <1>1, FilesKeep
<1>5. RegisteredOnce' /\ RoutesHaveHandlers'
  <2>1. CASE regs' = <<>>
    BY <2>1 DEF RegisteredOnce, RoutesHaveHandlers
  <2>2. CASE regs' = regs /\ torn' = torn
    BY <1>1, <2>2, RoutesKeep
  <2> QED BY <1>1, <2>1, <2>2
<1>6. ProgressInv' /\ OkMeansComplete'
  BY <1>1 DEF ProgressInv, OkMeansComplete
<1> QED BY <1>3, <1>4, <1>5, <1>6

-----------------------------------------------------------------------------
(* The collection.                                                         *)
LEMMA PatchPostmanInv == ASSUME IInv, PatchPostman PROVE IInv'
<1> USE DEF IInv
<1>1. /\ pc = "postman" /\ pc' = "idle" /\ todo' = <<>> /\ todo = <<>> /\ result' = "ok"
      /\ folders' = IF opts.postman /\ ~opts.dryRun THEN Collection ELSE folders
      /\ UNCHANGED <<state, decls, usable, wired, regs, opts, runs, edits, faults, fresh, partial,
                     stripped, wrote, torn>>
  BY DEF PatchPostman, Ends, GenTypes, history
<1>2. Existing \subseteq Routes \cup {Own}
  BY DEF Existing, GenTypes, TypeOK
<1>3. GenTypes'
  <2>1. /\ DOMAIN Collection = {"module"} /\ Collection["module"] \subseteq Routes \cup {Own}
        /\ Routes \cup Existing = Collection["module"]
    BY <1>2 DEF Collection
  <2>2. DOMAIN folders' \subseteq Folders /\ \A d \in DOMAIN folders' : folders'[d] \subseteq Routes \cup {Own}
    BY <1>1, <2>1 DEF GenTypes, TypeOK, Folders
  <2> QED BY <1>1, <2>2, EmptySeq DEF GenTypes, TypeOK
<1>4. CompleteInv' /\ TargetInv' /\ RegisteredOnce' /\ RoutesHaveHandlers'
  BY <1>1, FilesKeep, RoutesKeep
<1>5. RequestInv'
  BY <1>1 DEF RequestInv, Collection, Existing
<1>6. ProgressInv'
  BY <1>1 DEF ProgressInv
<1>7. OkMeansComplete'
  <2> SUFFICES ASSUME ~opts.dryRun PROVE OkMeansComplete'
    BY <1>1 DEF OkMeansComplete
  <2>1. \A f \in Files : /\ Settled(f) => ToSet(Gen[f]) \subseteq Names(f)'
                                          \/ (f \in (partial \cup torn)' /\ DeclExists(f)')
    BY <1>1 DEF Settled, Complete, Excused, DeclExists, Names
  <2>2. ToSet(todo) = {} /\ ToSet(Order) = IF opts.ctl THEN Files ELSE ToSet(Base)
    BY <1>1, FilesAre DEF ToSet, Order
  <2>3. \A f \in IF opts.ctl THEN Files ELSE ToSet(Base) : f \in Files /\ Settled(f)
    BY <1>1, <2>2, FilesAre DEF ProgressInv
  <2>4. opts.ctl => wired' = {"import", "var"} /\ Missing' = <<>>
    <3>1. Missing' = Missing
      BY <1>1 DEF Missing, Registration
    <3> QED BY <1>1, <3>1 DEF ProgressInv
  <2>5. opts.postman => Routes \subseteq folders'["module"]
    BY <1>1 DEF Collection
  <2> QED BY <1>1, <2>1, <2>3, <2>4, <2>5 DEF OkMeansComplete
<1> QED BY <1>3, <1>4, <1>5, <1>6, <1>7

LEMMA PatchPostmanFailsInv == ASSUME IInv, PatchPostmanFails PROVE IInv'
<1> USE DEF IInv
<1>1. /\ pc' = "idle" /\ todo' = <<>> /\ result' = "err"
      /\ faults' = faults \/ (faults < MaxFaults /\ faults' = faults + 1)
      /\ UNCHANGED <<state, decls, wired, regs, opts, runs, edits, fresh, partial, stripped, wrote>>
      /\ \/ UNCHANGED <<usable, folders, torn>>
         \/ /\ usable' \subseteq usable /\ folders' = <<>> /\ torn' = torn \cup {"postman"}
  BY DEF PatchPostmanFails, Ends, Fault
<1>2. faults' \in 0 .. MaxFaults /\ <<>> \in Seq(Files) /\ DOMAIN <<>> = {}
  BY <1>1, Bounds, EmptySeq DEF GenTypes, TypeOK
<1>3. GenTypes' /\ RequestInv'
  BY <1>1, <1>2 DEF GenTypes, TypeOK, RequestInv
<1>4. CompleteInv' /\ TargetInv' /\ RegisteredOnce' /\ RoutesHaveHandlers'
  BY <1>1, FilesKeep, RoutesKeep
<1>5. ProgressInv' /\ OkMeansComplete'
  BY <1>1 DEF ProgressInv, OkMeansComplete
<1> QED BY <1>3, <1>4, <1>5

-----------------------------------------------------------------------------
(* The developer.                                                          *)
LEMMA EditKeeps ==
  ASSUME IInv, Edit
  PROVE  /\ pc = "idle" /\ todo = <<>> /\ edits' \in 0 .. MaxEdits
         /\ UNCHANGED <<usable, pc, todo, opts, result, runs, faults, torn>>
         /\ ProgressInv' /\ OkMeansComplete'
<1>1. /\ pc = "idle" /\ edits < MaxEdits /\ edits' = edits + 1 /\ fresh' = FALSE
      /\ UNCHANGED <<usable, pc, todo, opts, result, runs, faults, torn>>
  BY DEF Edit
<1>2. edits' \in 0 .. MaxEdits /\ todo = <<>>
  BY <1>1, Bounds DEF IInv, GenTypes, TypeOK
<1> QED BY <1>1, <1>2 DEF ProgressInv, OkMeansComplete

(* An edited file has no more duplicates, and loses its targets only if it *)
(* counts as stripped from then on.                                        *)
LEMMA EditFileInv ==
  ASSUME IInv, NEW f \in Files, NEW d \in Seq(Decl), EditFile(f, d),
         f \notin stripped => Once(d)
  PROVE  IInv'
<1> USE DEF IInv
<1>1. /\ Edit /\ state' = [state EXCEPT ![f] = "go"] /\ decls' = [decls EXCEPT ![f] = d]
      /\ partial' = IF ToSet(Gen[f]) \subseteq NamesOf(d) THEN partial \ {f} ELSE partial \cup {f}
      /\ stripped' = IF NamesOf(d) \cap Targets[f] = {} /\ NamesOf(d) \cap ToSet(Gen[f]) # {}
                     THEN stripped \cup {f} ELSE stripped
      /\ UNCHANGED <<wired, regs, folders, wrote>>
  BY DEF EditFile, NamesOf
<1>2. /\ edits' \in 0 .. MaxEdits /\ ProgressInv' /\ OkMeansComplete'
      /\ UNCHANGED <<usable, pc, todo, opts, result, runs, faults, torn>> /\ pc = "idle"
  BY <1>1, EditKeeps
<1>3. f \notin partial' \cup torn' => ToSet(Gen[f]) \subseteq NamesOf(d)
  BY <1>1
<1>4. f \notin stripped' =>
        Once(d) /\ (Targets[f] \cap NamesOf(d) # {} \/ NamesOf(d) \cap ToSet(Gen[f]) = {})
  BY <1>1
<1>5. partial \ {f} \subseteq partial' /\ torn \ {f} \subseteq torn' /\ stripped \subseteq stripped'
  BY <1>1, <1>2
<1>6. /\ CompleteInv' /\ TargetInv' /\ RegisteredOnce' /\ RoutesHaveHandlers'
      /\ state' \in [Files -> {"absent", "blank", "broken", "go"}]
      /\ decls' = [g \in Files |-> decls'[g]]
      /\ \A g \in Files : decls'[g] \in Seq(Decl) /\ (state'[g] # "go" => decls'[g] = <<>>)
  BY <1>1, <1>3, <1>4, <1>5, OtherDecls
<1>7. GenTypes' /\ RequestInv'
  BY <1>1, <1>2, <1>6 DEF GenTypes, TypeOK, RequestInv
<1> QED BY <1>2, <1>6, <1>7

LEMMA EditDeclInv ==
  ASSUME IInv, NEW f \in Files, NEW i \in DOMAIN decls[f], EditDecl(f, i)
  PROVE  IInv'
<1> DEFINE d == [decls[f] EXCEPT ![i].by = "dev"]
<1>1. decls[f] \in Seq(Decl) /\ (f \notin stripped => Once(decls[f]))
  BY DEF IInv, GenTypes, TypeOK, TargetInv, Once
<1>2. Len(decls[f]) \in Nat /\ DOMAIN decls[f] = 1 .. Len(decls[f])
  BY <1>1, DeclsAre
<1>3. \A j \in 1 .. Len(decls[f]) : decls[f][j] \in Decl
  BY <1>1, <1>2, LenProperties
<1>4. \A j \in 1 .. Len(decls[f]) : d[j] \in Decl /\ d[j].name = decls[f][j].name
  BY <1>2, <1>3 DEF Decl
<1>5. d \in Seq(Decl) /\ Len(d) = Len(decls[f])
  <2>1. d = [j \in 1 .. Len(decls[f]) |-> d[j]]
    BY <1>2
  <2> HIDE DEF d, Decl
  <2> QED BY <1>2, <1>4, <2>1
<1> HIDE DEF d
<1>6. f \notin stripped => Once(d)
  BY <1>1, <1>4, <1>5, DeclsAre
<1> QED BY <1>5, <1>6, EditFileInv DEF EditDecl, d

LEMMA RemoveDeclInv ==
  ASSUME IInv, NEW f \in Files, NEW i \in DOMAIN decls[f], RemoveDecl(f, i)
  PROVE  IInv'
<1> DEFINE d == RemoveAt(decls[f], i)
<1>1. decls[f] \in Seq(Decl) /\ (f \notin stripped => Once(decls[f]))
  BY DEF IInv, GenTypes, TypeOK, TargetInv, Once
<1>2. Len(decls[f]) \in Nat /\ i \in 1 .. Len(decls[f])
  BY <1>1, DeclsAre
<1>3. /\ d \in Seq(Decl) /\ Len(d) = Len(decls[f]) - 1
      /\ \A j \in 1 .. Len(decls[f]) - 1 :
           d[j] = IF j < i THEN decls[f][j] ELSE decls[f][j + 1]
  BY <1>1, <1>2, RemovedIs
<1> HIDE DEF d
<1>4. ASSUME f \notin stripped PROVE Once(d)
  <2> SUFFICES ASSUME NEW j \in 1 .. Len(d), NEW k \in 1 .. Len(d), d[j].name = d[k].name
               PROVE  j = k
    BY <1>3, DeclsAre
  <2> DEFINE place(n) == IF n < i THEN n ELSE n + 1
  <2>1. \A n \in 1 .. Len(d) : place(n) \in 1 .. Len(decls[f]) /\ d[n] = decls[f][place(n)]
    BY <1>2, <1>3
  <2>2. place(j) = place(k)
    <3>1. decls[f][place(j)].name = decls[f][place(k)].name
      BY <2>1
    <3> HIDE DEF place
    <3> QED BY <1>1, <1>4, <2>1, <3>1, DeclsAre
  <2> QED BY <1>2, <1>3, <2>2
<1> QED BY <1>3, <1>4, EditFileInv DEF RemoveDecl, d

LEMMA AddDeclInv ==
  ASSUME IInv, NEW f \in Files, NEW n \in ToSet(Gen[f]) \cup {Own}, AddDecl(f, n)
  PROVE  IInv'
<1> DEFINE x == [name |-> n, by |-> "dev"]
           d == Append(decls[f], x)
<1>1. decls[f] \in Seq(Decl) /\ (f \notin stripped => Once(decls[f]))
  BY DEF IInv, GenTypes, TypeOK, TargetInv, Once
<1>2. Len(decls[f]) \in Nat
  BY <1>1, DeclsAre
<1>3. x \in Decl /\ x.name = n
  BY DEF Decl
<1> HIDE DEF x
<1>4. /\ d \in Seq(Decl) /\ Len(d) = Len(decls[f]) + 1 /\ d[Len(d)] = x
      /\ \A j \in 1 .. Len(decls[f]) : d[j] = decls[f][j]
  <2> HIDE DEF Decl
  <2> QED BY <1>1, <1>3, AppendProperties
<1> HIDE DEF d
<1>5. \A j \in 1 .. Len(decls[f]) : decls[f][j].name # n
  <2>1. n \notin Names(f)
    BY DEF AddDecl
  <2> QED BY <1>1, <2>1, DeclsAre DEF Names
<1>6. ASSUME f \notin stripped PROVE Once(d)
  <2> SUFFICES ASSUME NEW j \in 1 .. Len(d), NEW k \in 1 .. Len(d), d[j].name = d[k].name
               PROVE  j = k
    BY <1>4, DeclsAre
  <2>1. \A l \in 1 .. Len(d) : l = Len(d) \/ l \in 1 .. Len(decls[f])
    BY <1>2, <1>4
  <2>2. CASE j \in 1 .. Len(decls[f]) /\ k \in 1 .. Len(decls[f])
    BY <1>1, <1>4, <1>6, <2>2, DeclsAre
  <2>3. CASE j = Len(d) \/ k = Len(d)
    BY <1>3, <1>4, <1>5, <2>1, <2>3
  <2> QED BY <2>1, <2>2, <2>3
<1> QED BY <1>4, <1>6, EditFileInv DEF AddDecl, d, x

(* Edits of the route file: they leave no generated registration that was  *)
(* not there.                                                              *)
LEMMA EditRoutesInv ==
  ASSUME IInv, Edit, regs' \in Seq(Reg),
         UNCHANGED <<state, decls, wired, folders, partial, stripped, wrote>>,
         RegisteredOnce', RoutesHaveHandlers'
  PROVE  IInv'
<1> USE DEF IInv
<1>1. /\ edits' \in 0 .. MaxEdits /\ ProgressInv' /\ OkMeansComplete'
      /\ UNCHANGED <<usable, pc, todo, opts, result, runs, faults, torn>> /\ pc = "idle"
  BY EditKeeps
<1>2. CompleteInv' /\ TargetInv'
  BY <1>1, FilesKeep
<1>3. GenTypes' /\ RequestInv'
  BY <1>1 DEF GenTypes, TypeOK, RequestInv
<1> QED BY <1>1, <1>2, <1>3

LEMMA RegsAre ==
  ASSUME IInv
  PROVE  /\ regs \in Seq(Reg) /\ Len(regs) \in Nat /\ DOMAIN regs = 1 .. Len(regs)
         /\ \A i \in 1 .. Len(regs) : regs[i] \in Reg
BY LenProperties DEF IInv, GenTypes, TypeOK

LEMMA OwnRouteInv == ASSUME IInv, NEW i \in DOMAIN regs, OwnRoute(i) PROVE IInv'
<1> USE DEF IInv
<1>1. /\ Edit /\ regs' = [regs EXCEPT ![i].fn = Own]
      /\ UNCHANGED <<state, decls, wired, folders, partial, stripped, wrote>>
  BY DEF OwnRoute
<1>2. DOMAIN regs' = 1 .. Len(regs)
  BY <1>1, RegsAre
<1>3. ASSUME NEW j \in 1 .. Len(regs)
      PROVE  regs'[j] \in Reg /\ regs'[j].route = regs[j].route
             /\ (regs'[j].fn = Own \/ regs'[j] = regs[j])
  <2>1. regs[j] \in Reg /\ j \in DOMAIN regs
    BY RegsAre
  <2>2. CASE i = j
    <3>1. regs'[j] = [regs[j] EXCEPT !.fn = Own]
      BY <1>1, <2>1, <2>2
    <3> QED BY <2>1, <3>1 DEF Reg
  <2>3. CASE i # j
    BY <1>1, <2>1, <2>3
  <2> QED BY <2>2, <2>3
<1>4. regs' \in Seq(Reg)
  <2>1. regs' = [j \in 1 .. Len(regs) |-> regs'[j]]
    BY <1>1, RegsAre
  <2> HIDE DEF Reg
  <2> QED BY <1>3, <2>1, RegsAre
<1>5. RegisteredOnce'
  BY <1>2, <1>3, RegsAre DEF RegisteredOnce
<1>6. RoutesHaveHandlers'
  <2>1. Names(Http)' = Names(Http) /\ torn' = torn
    BY <1>1 DEF Names, Edit
  <2> QED BY <1>1, <1>2, <1>3, <2>1, RegsAre DEF RoutesHaveHandlers
<1> QED BY <1>1, <1>4, <1>5, <1>6, EditRoutesInv

LEMMA RemoveRouteInv == ASSUME IInv, NEW i \in DOMAIN regs, RemoveRoute(i) PROVE IInv'
<1> USE DEF IInv
<1>1. /\ Edit /\ regs' = RemoveAt(regs, i)
      /\ UNCHANGED <<state, decls, wired, folders, partial, stripped, wrote>>
  BY DEF RemoveRoute
<1>2. /\ regs' \in Seq(Reg) /\ Len(regs') = Len(regs) - 1
      /\ \A j \in 1 .. Len(regs) - 1 : regs'[j] = IF j < i THEN regs[j] ELSE regs[j + 1]
  BY <1>1, RegsAre, RemovedIs
<1> DEFINE place(j) == IF j < i THEN j ELSE j + 1
<1>3. DOMAIN regs' = 1 .. Len(regs) - 1
  BY <1>2, LenProperties
<1>4. /\ \A j \in DOMAIN regs' : place(j) \in DOMAIN regs /\ regs'[j] = regs[place(j)]
      /\ \A j, k \in DOMAIN regs' : place(j) = place(k) => j = k
  BY <1>2, <1>3, RegsAre
<1> HIDE DEF place
<1>5. RegisteredOnce'
  BY <1>4 DEF RegisteredOnce
<1>6. RoutesHaveHandlers'
  <2>1. Names(Http)' = Names(Http) /\ torn' = torn
    BY <1>1 DEF Names, Edit
  <2> QED BY <1>1, <1>4, <2>1 DEF RoutesHaveHandlers
<1> QED BY <1>1, <1>2, <1>5, <1>6, EditRoutesInv

LEMMA WriteRequestInv == ASSUME IInv, NEW d \in Folders, WriteRequest(d) PROVE IInv'
<1> USE DEF IInv
<1>1. /\ Edit /\ wrote' = wrote \cup {d}
      /\ folders' = [e \in DOMAIN folders \cup {d} |->
                       (IF e \in DOMAIN folders THEN folders[e] ELSE {})
                         \cup (IF e = d THEN {Own} ELSE {})]
      /\ UNCHANGED <<state, decls, wired, regs, partial, stripped>>
  BY DEF WriteRequest
<1>2. /\ edits' \in 0 .. MaxEdits /\ ProgressInv' /\ OkMeansComplete'
      /\ UNCHANGED <<usable, pc, todo, opts, result, runs, faults, torn>> /\ pc = "idle"
  BY <1>1, EditKeeps
<1>3. CompleteInv' /\ TargetInv' /\ RegisteredOnce' /\ RoutesHaveHandlers'
  BY <1>1, <1>2, FilesKeep, RoutesKeep
<1>4. /\ DOMAIN folders' \subseteq Folders
      /\ \A e \in DOMAIN folders' : folders'[e] \subseteq Routes \cup {Own}
  BY <1>1 DEF GenTypes, TypeOK
<1>5. GenTypes'
  BY <1>1, <1>2, <1>4 DEF GenTypes, TypeOK
<1>6. RequestInv'
  BY <1>1, <1>2 DEF RequestInv
<1> QED BY <1>2, <1>3, <1>5, <1>6

-----------------------------------------------------------------------------
LEMMA Step == IInv /\ [Next]_vars => IInv'
<1> SUFFICES ASSUME IInv, [Next]_vars PROVE IInv'
  OBVIOUS
<1>1. CASE Run \/ LoadTags \/ LoadTagsFails \/ Ended \/ UNCHANGED vars
  BY <1>1, RunInv
<1>2. ASSUME NEW f \in Files, WriteFile(f) \/ FileFails(f) \/ InspectFails(f) PROVE IInv'
  BY <1>2, WriteFileInv, FileFailsInv, RunInv
<1>3. CASE PatchRoutes \/ PatchRoutesFails \/ PatchPostman \/ PatchPostmanFails
  BY <1>3, PatchRoutesInv, PatchRoutesFailsInv, PatchPostmanInv, PatchPostmanFailsInv
<1>4. ASSUME NEW f \in Files, NEW n \in ToSet(Gen[f]) \cup {Own}, AddDecl(f, n) PROVE IInv'
  BY <1>4, AddDeclInv
<1>5. ASSUME NEW f \in Files, NEW i \in DOMAIN decls[f], EditDecl(f, i) \/ RemoveDecl(f, i)
      PROVE  IInv'
  BY <1>5, EditDeclInv, RemoveDeclInv
<1>6. ASSUME NEW i \in DOMAIN regs, OwnRoute(i) \/ RemoveRoute(i) PROVE IInv'
  BY <1>6, OwnRouteInv, RemoveRouteInv
<1>7. ASSUME NEW d \in Folders, WriteRequest(d) PROVE IInv'
  BY <1>7, WriteRequestInv
<1> QED BY <1>1, <1>2, <1>3, <1>4, <1>5, <1>6, <1>7 DEF Next

(* What is there in the files of a module, and what a run under way has    *)
(* done, however many runs, faults and edits came before.                  *)
THEOREM Inductive == Spec => []IInv
BY InitInv, Step, PTL DEF Spec

(* Every variable of the generator has its type.                           *)
THEOREM TypeCorrect == Spec => []TypeOK
BY Inductive, PTL DEF IInv, GenTypes

(* No file has a declaration twice, however often runs fail half way in a  *)
(* file and others merge into it, unless the developer had stripped it of  *)
(* its targets.                                                            *)
THEOREM NeverTwiceHolds == Spec => []NeverTwice
<1>1. IInv => NeverTwice
  BY DEF IInv, TargetInv, NeverTwice
<1> QED BY <1>1, Inductive, PTL

(* No route is registered twice, except with a handler of the developer's. *)
THEOREM RoutesOnce == Spec => []RegisteredOnce
BY Inductive, PTL DEF IInv

(* Every generated registration names a handler that is there, whatever    *)
(* fails in which run.                                                     *)
THEOREM HandlersThere == Spec => []RoutesHaveHandlers
BY Inductive, PTL DEF IInv

(* A run that answers ok leaves the module complete, whatever failed runs  *)
(* have left behind.                                                       *)
THEOREM OkComplete == Spec => []OkMeansComplete
BY Inductive, PTL DEF IInv

(* A request the developer wrote in the module's folder is kept.           *)
THEOREM RequestsStay == Spec => []RequestsKept
<1>1. IInv => RequestsKept
  BY DEF IInv, RequestInv, RequestsKept
<1> QED BY <1>1, Inductive, PTL

(* What is put behind a sequence leaves it as it is.                       *)
LEMMA ConcatKeeps ==
  ASSUME NEW S, NEW s \in Seq(S), NEW t \in Seq(S)
  PROVE  IsPrefix(s, s) /\ IsPrefix(s, s \o t)
<1>1. Len(s) \in Nat /\ Len(t) \in Nat /\ \A i \in 1 .. Len(s) : s[i] \in S
  BY LenProperties
<1>2. /\ s \o t \in Seq(S) /\ Len(s \o t) = Len(s) + Len(t)
      /\ \A i \in 1 .. Len(s) : (s \o t)[i] = s[i]
  BY <1>1, ConcatProperties
<1>3. SubSeq(s, 1, Len(s)) = s
  BY <1>1
<1>4. SubSeq(s \o t, 1, Len(s)) = s
  <2> DEFINE u == s \o t
  <2>1. Len(s) \in 0 .. Len(u)
    BY <1>1, <1>2
  <2>2. SubSeq(u, 1, Len(s)) \in Seq(S) /\ Len(SubSeq(u, 1, Len(s))) = Len(s)
        /\ \A i \in 1 .. Len(s) : SubSeq(u, 1, Len(s))[i] = u[i]
    BY <1>2, <2>1, PrefixIs
  <2> QED BY <1>2, <2>2
<1> QED BY <1>1, <1>2, <1>3, <1>4 DEF IsPrefix

(* The steps of a run that change a Go file without --force, or the        *)
(* registrations, append to them, or tear the file.                        *)
LEMMA StepKeeps == IInv /\ [Next]_vars => KeepsUserCode
<1> SUFFICES ASSUME IInv, [Next]_vars, pc # "idle" PROVE KeepsUserCode
  BY DEF KeepsUserCode
<1>1. /\ \A f \in Files : decls[f] \in Seq(Decl) /\ IsPrefix(decls[f], decls[f])
      /\ regs \in Seq(Reg) /\ IsPrefix(regs, regs)
      /\ DOMAIN decls = Files
  BY ConcatKeeps DEF IInv, GenTypes, TypeOK
<1>2. ASSUME UNCHANGED <<decls, regs>> PROVE KeepsUserCode
  BY <1>1, <1>2 DEF KeepsUserCode
<1>3. ASSUME NEW f \in Files, WriteFile(f) PROVE KeepsUserCode
  <2>1. regs' = regs /\ (decls' = decls \/ (decls' = [decls EXCEPT ![f] = Render(f)] /\ Wanted(f)))
    BY <1>3 DEF WriteFile
  <2>2. CASE decls' = decls
    BY <1>2, <2>1, <2>2
  <2>3. CASE decls' = [decls EXCEPT ![f] = Render(f)]
    <3>1. \A g \in Files : decls'[g] = IF g = f THEN Render(f) ELSE decls[g]
      BY <1>1, <2>3
    <3>2. opts.force \/ IsPrefix(decls[f], Render(f))
      <4>1. CASE state[f] = "go" /\ ~opts.force
        <5>1. Render(f) = decls[f] \o Generated(f)
          BY <4>1 DEF Render
        <5> QED BY <1>1, <5>1, GeneratedIs, ConcatKeeps
      <4>2. CASE state[f] # "go"
        <5>1. decls[f] = <<>> /\ Render(f) = Generated(f)
          BY <4>2 DEF IInv, GenTypes, TypeOK, Render
        <5>2. <<>> \in Seq(Decl) /\ Generated(f) \in Seq(Decl) /\ <<>> \o Generated(f) = Generated(f)
          BY GeneratedIs
        <5> QED BY <5>1, <5>2, ConcatKeeps
      <4> QED BY <4>1, <4>2
    <3> QED BY <1>1, <2>1, <3>1, <3>2 DEF KeepsUserCode
  <2> QED BY <2>1, <2>2, <2>3
<1>4. ASSUME NEW f \in Files, FileFails(f) PROVE KeepsUserCode
  <2>1. regs' = regs /\ (decls' = decls \/ Truncated(f))
    BY <1>4 DEF FileFails
  <2>2. CASE Truncated(f)
    <3>1. f \in torn' /\ \A g \in Files \ {f} : decls'[g] = decls[g]
      BY <1>1, <2>2 DEF Truncated
    <3> QED BY <1>1, <2>1, <3>1 DEF KeepsUserCode
  <2> QED BY <1>2, <2>1, <2>2
<1>5. CASE PatchRoutes
  <2>1. decls' = decls /\ (regs' = regs \/ regs' = regs \o Missing)
    BY <1>5 DEF PatchRoutes
  <2>2. IsPrefix(regs, regs \o Missing)
    BY <1>1, MissingIs, ConcatKeeps
  <2> QED BY <1>1, <2>1, <2>2 DEF KeepsUserCode
<1>6. CASE PatchRoutesFails
  <2>1. decls' = decls /\ (regs' = regs \/ "route" \in torn')
    BY <1>6 DEF PatchRoutesFails
  <2> QED BY <1>1, <2>1 DEF KeepsUserCode
<1>7. CASE PatchPostman \/ PatchPostmanFails
  BY <1>2, <1>7 DEF PatchPostman, PatchPostmanFails
<1>8. CASE LoadTags \/ LoadTagsFails \/ Ended \/ UNCHANGED vars \/ \E f \in Files : InspectFails(f)
  <2>1. UNCHANGED disk
    BY <1>8 DEF LoadTags, LoadTagsFails, Ended, InspectFails, vars
  <2> QED BY <1>2, <2>1 DEF disk
<1>9. ~Run /\ ~Edit
  BY DEF Run, Edit
<1>10. /\ \A f \in Files : /\ \A n \in ToSet(Gen[f]) \cup {Own} : ~AddDecl(f, n)
                           /\ \A i \in DOMAIN decls[f] : ~EditDecl(f, i) /\ ~RemoveDecl(f, i)
       /\ \A i \in DOMAIN regs : ~OwnRoute(i) /\ ~RemoveRoute(i)
       /\ \A d \in Folders : ~WriteRequest(d)
  BY <1>9 DEF AddDecl, EditDecl, RemoveDecl, EditFile, OwnRoute, RemoveRoute, WriteRequest
<1> QED BY <1>3, <1>4, <1>5, <1>6, <1>7, <1>8, <1>9, <1>10 DEF Next

(* A run without --force keeps what is in a Go file in its order, and so   *)
(* does every run with routes, except in a file whose write fails half     *)
(* way.                                                                    *)
THEOREM UserCodeStays == Spec => [][KeepsUserCode]_vars
BY Inductive, StepKeeps, PTL DEF Spec

-----------------------------------------------------------------------------
(* Migrations.                                                             *)

(* A plain migration whose number is not read back as printed.             *)
Overflowed == \E g \in dir : g.style = Plain /\ g.n >= 1000

(* Repeatable migrations have no number, and the numbers have a highest.   *)
DirInv ==
  /\ \A f \in dir : f.n \in Nat /\ f.style \in {Plain, "V", "U", "R"} /\ (f.style = "R" => f.n = 0)
  /\ \E k \in Nat : \A f \in dir : f.n <= k

(* A run under way creates a number higher than all it has listed.         *)
ChosenInv ==
  \A t \in Terminals : at[t] = "create" =>
    /\ job[t].n \in Nat /\ job[t].style \in Styles
    /\ job[t].style = "R" => job[t].n = 0
    /\ job[t].style # "R" /\ ~Overflowed => job[t].n > highest[t]

FunctionInv ==
  /\ at = [t \in Terminals |-> at[t]] /\ job = [t \in Terminals |-> job[t]]
  /\ highest = [t \in Terminals |-> highest[t]]

MigrationsIInv == DirInv /\ ChosenInv /\ FunctionInv

-----------------------------------------------------------------------------
(* The maximum of a bounded set of numbers is its least upper bound.       *)
LEMMA MaxIsHighest ==
  ASSUME NEW S, S \subseteq Nat, S # {}, NEW b \in Nat, \A y \in S : y <= b
  PROVE  Max(S) \in S /\ \A y \in S : Max(S) >= y
<1> DEFINE U == {k \in Nat : \A y \in S : y <= k}
<1>1. PICK k \in U : \A u \in U : ~(u < k)
  <2>1. U \subseteq Nat /\ U # {}
    OBVIOUS
  <2>2. \E x \in U : \A y \in U : ~(<<y, x>> \in OpToRel(<, Nat))
    BY <2>1, WFMin, NatLessThanWellFounded, Zenon
  <2> QED BY <2>1, <2>2, Zenon DEF OpToRel
<1>2. k \in S
  <2> SUFFICES ASSUME k \notin S PROVE FALSE
    OBVIOUS
  <2>1. \A y \in S : y <= k - 1
    BY <1>1
  <2>2. PICK y \in S : y \in Nat /\ y <= k - 1
    BY <2>1
  <2>3. k \in Nat /\ k - 1 \in Nat
    BY <1>1, <2>2
  <2>4. k - 1 \in U /\ k - 1 < k
    BY <2>1, <2>3
  <2> QED BY <1>1, <2>4
<1>3. \A y \in S : k >= y
  BY <1>1
<1>4. \E x \in S : \A y \in S : x >= y
  BY <1>2, <1>3
<1> QED BY <1>4, Zenon DEF Max

LEMMA MigrationsInitInv == MigrationsInit => MigrationsIInv
<1> SUFFICES ASSUME MigrationsInit PROVE MigrationsIInv
  OBVIOUS
<1>1. DirInv
  <2>1. \A f \in dir : f.n = Before /\ f.style = Plain
    BY DEF MigrationsInit, Initial
  <2>2. \A f \in dir : f.n \in Nat /\ f.n <= Before /\ f.style # "R"
    BY <2>1, StyleAssumption DEF Plain
  <2> QED BY <2>1, <2>2, StyleAssumption DEF DirInv
<1>2. ChosenInv /\ FunctionInv
  BY DEF MigrationsInit, ChosenInv, FunctionInv
<1> QED BY <1>1, <1>2 DEF MigrationsIInv

(* What a run chooses.                                                     *)
LEMMA NextNumber ==
  ASSUME MigrationsIInv
  PROVE  /\ NextSequence \in Nat
         /\ ~Overflowed => NextSequence > Max({0} \cup {f.n : f \in dir})
<1> DEFINE N == {0} \cup {f.n : f \in dir}
           B == {0} \cup {ReadBack(f) : f \in dir}
<1>1. PICK k \in Nat : \A f \in dir : f.n <= k
  BY DEF MigrationsIInv, DirInv
<1>2. ASSUME NEW f \in dir
      PROVE  /\ ReadBack(f) \in Nat /\ ReadBack(f) <= f.n
             /\ ~Overflowed => ReadBack(f) = f.n
  <2>1. f.n \in Nat /\ f.style \in {Plain, "V", "U", "R"} /\ (f.style = "R" => f.n = 0)
    BY DEF MigrationsIInv, DirInv
  <2>2. CASE f.style = Plain
    <3>1. ReadBack(f) = FirstThree(f.n)
      BY <2>2 DEF ReadBack, Plain
    <3>2. FirstThree(f.n) \in Nat /\ FirstThree(f.n) <= f.n
      BY <2>1 DEF FirstThree
    <3>3. ~Overflowed => FirstThree(f.n) = f.n
      BY <2>1, <2>2 DEF Overflowed, FirstThree
    <3> QED BY <3>1, <3>2, <3>3
  <2>3. CASE f.style \in {"V", "U"}
    BY <2>1, <2>3 DEF ReadBack, Plain
  <2>4. CASE f.style = "R"
    BY <2>1, <2>4 DEF ReadBack, Plain
  <2> QED BY <2>1, <2>2, <2>3, <2>4
<1>3. B \subseteq Nat /\ B # {} /\ \A y \in B : y <= k
  BY <1>1, <1>2 DEF MigrationsIInv, DirInv
<1>4. Max(B) \in Nat
  BY <1>3, MaxIsHighest
<1>5. ~Overflowed => B = N
  BY <1>2
<1>6. NextSequence = 1 + Max(B)
  BY Zenon DEF NextSequence
<1>7. ~Overflowed => NextSequence = 1 + Max(N) /\ Max(N) \in Nat
  BY <1>4, <1>5, <1>6, Zenon
<1> HIDE DEF N, B
<1>8. NextSequence \in Nat /\ (~Overflowed => NextSequence > Max(N))
  BY <1>4, <1>6, <1>7
<1> QED BY <1>8, Zenon DEF N

(* Files are never removed, so that a migration that has overflowed stays. *)
LEMMA Overflow == ASSUME dir \subseteq dir' PROVE Overflowed => Overflowed'
BY DEF Overflowed

LEMMA StartInv ==
  ASSUME MigrationsIInv, NEW t \in Terminals, NEW style \in Styles, NEW slug \in Slugs, Start(t, style, slug)
  PROVE  MigrationsIInv'
<1> USE DEF Start
<1>1. DirInv' /\ Overflowed' = Overflowed
  BY DEF MigrationsIInv, DirInv, Overflowed
<1>2. FunctionInv'
  BY DEF MigrationsIInv, FunctionInv
<1>3. job'[t].style = style /\ job'[t].n = IF style = "R" THEN 0 ELSE NextSequence
  BY DEF MigrationsIInv, FunctionInv
<1>4. highest'[t] = Max({0} \cup {f.n : f \in dir})
  BY Zenon DEF MigrationsIInv, FunctionInv
<1>5. \A u \in Terminals \ {t} : job'[u] = job[u] /\ highest'[u] = highest[u] /\ at'[u] = at[u]
  BY DEF MigrationsIInv, FunctionInv
<1>6. ChosenInv'
  BY <1>1, <1>3, <1>4, <1>5, NextNumber DEF MigrationsIInv, ChosenInv
<1> QED BY <1>1, <1>2, <1>6 DEF MigrationsIInv

LEMMA CreateInv ==
  ASSUME MigrationsIInv, NEW t \in Terminals, Create(t)
  PROVE  MigrationsIInv' /\ NumberGrows
<1> DEFINE f == Name(job[t].style, job[t].n, job[t].slug)
<1>1. /\ at[t] = "create" /\ at' = [at EXCEPT ![t] = "idle"] /\ highest' = highest
      /\ job' = [job EXCEPT ![t] = NoJob]
      /\ IF f \in dir THEN UNCHANGED <<dir, author>>
         ELSE dir' = dir \cup {f} /\ author' = [g \in dir' |-> IF g = f THEN t ELSE author[g]]
  BY DEF Create
<1>2. /\ f.style = job[t].style /\ job[t].style \in {Plain, "V", "U", "R"}
      /\ f.n = (IF job[t].style = "R" THEN 0 ELSE job[t].n) /\ f.n \in Nat
  BY <1>1, StyleAssumption DEF Name, MigrationsIInv, ChosenInv
<1> HIDE DEF f
<1>3. DirInv'
  <2>1. PICK k \in Nat : \A g \in dir : g.n <= k
    BY DEF MigrationsIInv, DirInv
  <2>2. k + f.n \in Nat /\ \A g \in dir' : g.n <= k + f.n
    BY <1>1, <1>2, <2>1 DEF MigrationsIInv, DirInv
  <2>3. \A g \in dir' : g.n \in Nat /\ g.style \in {Plain, "V", "U", "R"} /\ (g.style = "R" => g.n = 0)
    BY <1>1, <1>2 DEF MigrationsIInv, DirInv
  <2> QED BY <2>2, <2>3 DEF DirInv
<1>4. FunctionInv'
  BY <1>1 DEF MigrationsIInv, FunctionInv
<1>5. ChosenInv'
  <2>1. Overflowed => Overflowed'
    BY <1>1, Overflow
  <2>2. ASSUME NEW u \in Terminals, at'[u] = "create" PROVE u # t /\ at[u] = "create" /\ job'[u] = job[u]
    BY <1>1, <2>2 DEF MigrationsIInv, FunctionInv
  <2> QED BY <1>1, <2>1, <2>2 DEF MigrationsIInv, ChosenInv
<1>6. NumberGrows
  <2>1. ASSUME NEW g \in dir' \ dir, g.style # "R", ~Overflowed
        PROVE  at[t] = "create" /\ at'[t] = "idle" /\ g.n > highest[t]
    <3>1. g = f /\ at'[t] = "idle"
      BY <1>1, <2>1 DEF MigrationsIInv, FunctionInv
    <3> QED BY <1>1, <1>2, <2>1, <3>1 DEF MigrationsIInv, ChosenInv
  <2>2. \A g \in dir : g \in dir' /\ author'[g] = author[g]
    BY <1>1
  <2> QED BY <2>1, <2>2 DEF NumberGrows, Overflowed
<1> QED BY <1>3, <1>4, <1>5, <1>6 DEF MigrationsIInv

LEMMA OtherInv ==
  ASSUME MigrationsIInv, (\E t \in Terminals : CreateFails(t)) \/ Second \/ UNCHANGED mvars
  PROVE  MigrationsIInv'
<1>1. dir' = dir /\ highest' = highest /\ DirInv' /\ Overflowed' = Overflowed
  BY DEF CreateFails, Second, mvars, MigrationsIInv, DirInv, Overflowed
<1>2. FunctionInv' /\ \A u \in Terminals : at'[u] = "create" => at[u] = "create" /\ job'[u] = job[u]
  BY DEF CreateFails, Second, mvars, MigrationsIInv, FunctionInv
<1> QED BY <1>1, <1>2 DEF MigrationsIInv, ChosenInv

(* Only Create changes the directory.                                      *)
LEMMA OtherKeeps ==
  ASSUME dir' = dir, author' = author
  PROVE  NumberGrows
BY DEF NumberGrows

LEMMA MigrationsStep == MigrationsIInv /\ [MigrationsNext]_mvars => MigrationsIInv' /\ NumberGrows
<1> SUFFICES ASSUME MigrationsIInv, [MigrationsNext]_mvars PROVE MigrationsIInv' /\ NumberGrows
  OBVIOUS
<1>1. ASSUME NEW t \in Terminals, NEW s \in Styles, NEW d \in Slugs, Start(t, s, d)
      PROVE  MigrationsIInv' /\ NumberGrows
  <2>1. dir' = dir /\ author' = author
    BY <1>1 DEF Start
  <2> QED BY <1>1, <2>1, StartInv, OtherKeeps
<1>2. ASSUME NEW t \in Terminals, Create(t) PROVE MigrationsIInv' /\ NumberGrows
  BY <1>2, CreateInv
<1>3. CASE (\E t \in Terminals : CreateFails(t)) \/ Second \/ UNCHANGED mvars
  <2>1. dir' = dir /\ author' = author
    BY <1>3 DEF CreateFails, Second, mvars
  <2> QED BY <1>3, <2>1, OtherInv, OtherKeeps
<1> QED BY <1>1, <1>2, <1>3 DEF MigrationsNext

(* The numbers in the directory, and those that runs have chosen.          *)
THEOREM MigrationsInductive == MigrationsSpec => []MigrationsIInv
BY MigrationsInitInv, MigrationsStep, PTL DEF MigrationsSpec

(* A run of any terminal gives its migration a number above all that it    *)
(* found, until a plain one has reached 1000, whatever the others create   *)
(* in between; and no run writes over a file of another.                   *)
THEOREM Growing == MigrationsSpec => NumbersGrow
BY MigrationsInductive, MigrationsStep, PTL DEF MigrationsSpec, NumbersGrow

-----------------------------------------------------------------------------
(* Sequences, and what is picked from them.                                *)

LEMMA SeqIs ==
  ASSUME NEW T, NEW s \in Seq(T)
  PROVE  /\ Len(s) \in Nat /\ DOMAIN s = 1 .. Len(s) /\ \A i \in 1 .. Len(s) : s[i] \in T
         /\ ToSet(s) = {s[i] : i \in 1 .. Len(s)} /\ ToSet(s) \subseteq T
         /\ IsInjective(s) <=> \A i, j \in 1 .. Len(s) : s[i] = s[j] => i = j
<1>1. Len(s) \in Nat /\ DOMAIN s = 1 .. Len(s) /\ \A i \in 1 .. Len(s) : s[i] \in T
  BY LenProperties
<1> QED BY <1>1 DEF ToSet, IsInjective

LEMMA PickedIs ==
  ASSUME NEW T, NEW s \in Seq(T), NEW S \in SUBSET DOMAIN s
  PROVE  LET p == Picked(s, S)
         IN  /\ p \in Seq(T)
             /\ \A k \in 1 .. Len(p) : \E i \in S : p[k] = s[i]
             /\ \A i \in S : \E k \in 1 .. Len(p) : p[k] = s[i]
             /\ IsInjective(s) => IsInjective(p)
<1> DEFINE left == InOrder(S)
           n == Cardinality(S)
           p == Picked(s, S)
<1>1. Len(s) \in Nat /\ DOMAIN s = 1 .. Len(s) /\ \A i \in 1 .. Len(s) : s[i] \in T
  BY SeqIs
<1>2. S \subseteq Nat /\ IsFiniteSet(S)
  <2>1. IsFiniteSet(1 .. Len(s)) /\ S \subseteq 1 .. Len(s)
    BY <1>1, FS_Interval
  <2> QED BY <2>1, FS_Subset
<1>3. /\ n \in Nat /\ left \in [1 .. n -> S]
      /\ \A i, j \in 1 .. n : left[i] = left[j] => i = j
      /\ \A x \in S : \E i \in 1 .. n : left[i] = x
  BY <1>2, InOrderIs
<1> HIDE DEF left, n
<1>4. p = [k \in 1 .. n |-> s[left[k]]]
  <2>1. DOMAIN left = 1 .. n
    BY <1>3
  <2> QED BY <2>1 DEF Picked, left
<1>5. \A k \in 1 .. n : left[k] \in S /\ s[left[k]] \in T
  BY <1>1, <1>3
<1>6. p \in Seq(T) /\ Len(p) = n /\ \A k \in 1 .. n : p[k] = s[left[k]]
  <2> HIDE DEF p
  <2> QED BY <1>3, <1>4, <1>5
<1>7. ASSUME IsInjective(s) PROVE IsInjective(p)
  <2>1. ASSUME NEW j \in 1 .. n, NEW k \in 1 .. n, p[j] = p[k] PROVE j = k
    <3>1. s[left[j]] = s[left[k]] /\ left[j] \in DOMAIN s /\ left[k] \in DOMAIN s
      BY <1>5, <1>6, <2>1
    <3>2. left[j] = left[k]
      BY <1>7, <3>1 DEF IsInjective
    <3> QED BY <1>3, <3>2
  <2> QED BY <1>6, <2>1, SeqIs
<1>8. \A k \in 1 .. n : \E i \in S : p[k] = s[i]
  BY <1>5, <1>6
<1>9. \A i \in S : \E k \in 1 .. n : p[k] = s[i]
  BY <1>3, <1>6
<1> HIDE DEF p
<1>10. /\ p \in Seq(T)
       /\ \A k \in 1 .. Len(p) : \E i \in S : p[k] = s[i]
       /\ \A i \in S : \E k \in 1 .. Len(p) : p[k] = s[i]
       /\ IsInjective(s) => IsInjective(p)
  BY <1>6, <1>7, <1>8, <1>9
<1> QED BY <1>10 DEF p

LEMMA ConcatSet ==
  ASSUME NEW T, NEW s \in Seq(T), NEW t \in Seq(T)
  PROVE  s \o t \in Seq(T) /\ ToSet(s \o t) = ToSet(s) \cup ToSet(t)
<1> DEFINE c == s \o t
<1>1. Len(s) \in Nat /\ Len(t) \in Nat
  BY LenProperties
<1>2. c \in Seq(T) /\ Len(c) = Len(s) + Len(t)
      /\ \A i \in 1 .. Len(s) + Len(t) : c[i] = IF i <= Len(s) THEN s[i] ELSE t[i - Len(s)]
  BY ConcatProperties
<1> HIDE DEF c
<1>3. ToSet(s) = {s[i] : i \in 1 .. Len(s)} /\ ToSet(t) = {t[i] : i \in 1 .. Len(t)}
  BY SeqIs
<1>4. ToSet(c) = {c[i] : i \in 1 .. Len(s) + Len(t)}
  BY <1>2, SeqIs
<1>5. ASSUME NEW i \in 1 .. Len(s) + Len(t) PROVE c[i] \in ToSet(s) \cup ToSet(t)
  <2>1. CASE i <= Len(s)
    <3>1. i \in 1 .. Len(s) /\ c[i] = s[i]
      BY <1>1, <1>2, <2>1
    <3> QED BY <1>3, <3>1
  <2>2. CASE ~(i <= Len(s))
    <3>1. i - Len(s) \in 1 .. Len(t) /\ c[i] = t[i - Len(s)]
      BY <1>1, <1>2, <2>2
    <3> QED BY <1>3, <3>1
  <2> QED BY <2>1, <2>2
<1>6. ASSUME NEW i \in 1 .. Len(s) PROVE i \in 1 .. Len(s) + Len(t) /\ s[i] = c[i]
  BY <1>1, <1>2
<1>7. ASSUME NEW i \in 1 .. Len(t)
      PROVE  Len(s) + i \in 1 .. Len(s) + Len(t) /\ t[i] = c[Len(s) + i]
  <2>1. Len(s) + i \in 1 .. Len(s) + Len(t) /\ ~(Len(s) + i <= Len(s)) /\ (Len(s) + i) - Len(s) = i
    BY <1>1
  <2> QED BY <1>2, <2>1
<1>8. ToSet(c) = ToSet(s) \cup ToSet(t)
  BY <1>3, <1>4, <1>5, <1>6, <1>7
<1> QED BY <1>2, <1>8 DEF c

-----------------------------------------------------------------------------
(* The fields made of the columns, and the struct tags.                    *)

LEMMA FirstInOrder ==
  ASSUME NEW S, S \subseteq Nat, IsFiniteSet(S), S # {}
  PROVE  InOrder(S)[1] \in S /\ \A x \in S : InOrder(S)[1] <= x
<1> DEFINE n == Cardinality(S)
           s == InOrder(S)
<1>1. /\ n \in Nat /\ s \in [1 .. n -> S]
      /\ \A x \in S : \E i \in 1 .. n : s[i] = x
  BY InOrderIs
<1>2. Increasing(s)
  BY Enumerable, Zenon DEF InOrder, Increasing
<1> HIDE DEF n, s
<1>3. PICK x \in S : TRUE
  OBVIOUS
<1>4. 1 \in 1 .. n
  BY <1>1, <1>3
<1>5. ASSUME NEW i \in 1 .. n PROVE s[1] <= s[i]
  <2>1. s[1] \in Nat /\ s[i] \in Nat
    BY <1>1, <1>4
  <2>2. CASE i = 1
    BY <2>1, <2>2
  <2>3. CASE 1 < i
    BY <1>1, <1>2, <1>4, <2>1, <2>3 DEF Increasing
  <2> QED BY <2>2, <2>3
<1> QED BY <1>1, <1>4, <1>5 DEF s

LEMMA SelectIs ==
  ASSUME NEW C, NEW columns \in Seq(C), NEW S \in SUBSET DOMAIN columns
  PROVE  LET N == {columns[i].name : i \in DOMAIN columns}
         IN  /\ Select(columns, S) \in Seq(N) /\ SelectFirst(columns, S) \in Seq(N)
             /\ ToSet(Select(columns, S)) = {columns[i].name : i \in S}
             /\ IsInjective(ColumnNames(columns)) => IsInjective(Select(columns, S))
             /\ S = {} => ToSet(SelectFirst(columns, S)) = {}
             /\ S # {} => /\ InOrder(S)[1] \in S /\ \A i \in S : InOrder(S)[1] <= i
                          /\ ToSet(SelectFirst(columns, S)) = {columns[InOrder(S)[1]].name}
<1> DEFINE N == {columns[i].name : i \in DOMAIN columns}
           names == ColumnNames(columns)
           p == Select(columns, S)
           f == SelectFirst(columns, S)
<1>1. Len(columns) \in Nat /\ DOMAIN columns = 1 .. Len(columns)
  BY SeqIs
<1>2. names \in Seq(N) /\ DOMAIN names = DOMAIN columns /\ \A i \in DOMAIN columns : names[i] = columns[i].name
  <2>1. names = [i \in 1 .. Len(columns) |-> columns[i].name]
    BY <1>1 DEF ColumnNames
  <2>2. \A i \in 1 .. Len(columns) : columns[i].name \in N
    BY <1>1
  <2> HIDE DEF names, N
  <2> QED BY <1>1, <2>1, <2>2
<1>3. S \subseteq Nat /\ IsFiniteSet(S)
  <2>1. IsFiniteSet(1 .. Len(columns)) /\ S \subseteq 1 .. Len(columns)
    BY <1>1, FS_Interval
  <2> QED BY <2>1, FS_Subset
<1>4. /\ p \in Seq(N)
      /\ \A k \in 1 .. Len(p) : \E i \in S : p[k] = names[i]
      /\ \A i \in S : \E k \in 1 .. Len(p) : p[k] = names[i]
      /\ IsInjective(names) => IsInjective(p)
  <2>1. S \in SUBSET DOMAIN names
    BY <1>2
  <2> HIDE DEF names, N
  <2> QED BY <1>2, <2>1, PickedIs DEF Select, names
<1>5. ToSet(p) = {columns[i].name : i \in S}
  <2> HIDE DEF p, N, names
  <2>1. ToSet(p) = {p[k] : k \in 1 .. Len(p)}
    BY <1>4, SeqIs
  <2>2. \A i \in S : names[i] = columns[i].name
    BY <1>2
  <2>3. ASSUME NEW k \in 1 .. Len(p) PROVE p[k] \in {columns[i].name : i \in S}
    BY <1>4, <2>2
  <2>4. ASSUME NEW i \in S PROVE columns[i].name \in {p[k] : k \in 1 .. Len(p)}
    BY <1>4, <2>2
  <2> QED BY <2>1, <2>3, <2>4
<1>6. ASSUME S = {} PROVE f \in Seq(N) /\ ToSet(f) = {}
  <2>1. f = <<>>
    BY <1>6 DEF SelectFirst
  <2>2. <<>> \in Seq(N) /\ Len(<<>>) = 0
    OBVIOUS
  <2>3. ToSet(<<>>) = {}
    BY DEF ToSet
  <2> QED BY <2>1, <2>2, <2>3
<1>7. ASSUME S # {}
      PROVE  /\ InOrder(S)[1] \in S /\ \A i \in S : InOrder(S)[1] <= i
             /\ f \in Seq(N) /\ ToSet(f) = {columns[InOrder(S)[1]].name}
  <2> DEFINE i == InOrder(S)[1]
             e == columns[i].name
  <2>1. i \in S /\ \A x \in S : i <= x
    BY <1>3, <1>7, FirstInOrder
  <2>2. f = <<e>> /\ e \in N
    BY <1>7, <2>1 DEF SelectFirst
  <2> HIDE DEF i, e, N
  <2>3. <<e>> \in Seq(N) /\ ToSet(<<e>>) = {e}
    <3>1. <<e>> \in Seq(N) /\ Len(<<e>>) = 1 /\ <<e>>[1] = e
      BY <2>2
    <3>2. ToSet(<<e>>) = {<<e>>[k] : k \in 1 .. 1}
      BY <3>1, SeqIs
    <3> QED BY <3>1, <3>2
  <2> QED BY <2>1, <2>2, <2>3 DEF i, e
<1> HIDE DEF f, p
<1> QED BY <1>4, <1>5, <1>6, <1>7 DEF f, p

(* For every table: the edit handler reads from the form only fields that  *)
(* the Dto has, and all that the edit request of the collection sends but  *)
(* a status and a generated id; and each column is a field of one struct.  *)
THEOREM HandlersFit ==
  ASSUME NEW C, NEW columns \in Seq(C), IsInjective(ColumnNames(columns))
  PROVE  HandlerFits(columns)
<1> DEFINE D == DOMAIN columns
           N == {columns[i].name : i \in D}
           G == IsGenerated(columns)
           I == IsId(columns)
           P == IsPlain(columns)
           T == IsStatus(columns)
           Called(S) == {columns[i].name : i \in S}
           one == SelectFirst(columns, I \ G)
           any == SelectFirst(columns, I)
<1>1. Len(columns) \in Nat /\ D = 1 .. Len(columns)
  BY SeqIs
<1>2. G \in SUBSET D /\ I \in SUBSET D /\ P \in SUBSET D /\ T \in SUBSET D
  BY DEF IsGenerated, IsId, IsPlain, IsStatus
<1>3. /\ Called(T) \subseteq {Status} /\ \A i \in T : columns[i].name = Status
      /\ \A i, j \in D : columns[i].name = columns[j].name => i = j
  BY DEF IsStatus, IsInjective, ColumnNames
<1> HIDE DEF D, G, I, P, T
<1>4. ASSUME NEW S \in SUBSET D
      PROVE  /\ Select(columns, S) \in Seq(N) /\ SelectFirst(columns, S) \in Seq(N)
             /\ ToSet(Select(columns, S)) = Called(S) /\ IsInjective(Select(columns, S))
             /\ S = {} => ToSet(SelectFirst(columns, S)) = {}
             /\ S # {} => /\ InOrder(S)[1] \in S /\ \A i \in S : InOrder(S)[1] <= i
                          /\ ToSet(SelectFirst(columns, S)) = {columns[InOrder(S)[1]].name}
  BY SelectIs DEF D
<1>5. /\ D \ G \in SUBSET D /\ I \ G \in SUBSET D /\ P \ (G \cup T) \in SUBSET D /\ P \ G \in SUBSET D
  BY <1>2
<1>6. /\ ToSet(DtoFields(columns)) = Called(D \ G) /\ IsInjective(DtoFields(columns))
      /\ ToSet(ReadFields(columns)) = Called(G) /\ IsInjective(ReadFields(columns))
      /\ ToSet(CreateValidation(columns)) = Called(P \ (G \cup T))
  BY <1>2, <1>4, <1>5 DEF DtoFields, ReadFields, CreateValidation, D, G, P, T
<1> DEFINE created == Select(columns, P \ (G \cup T))
           sent == Select(columns, P \ G)
<1>7. /\ one \in Seq(N) /\ any \in Seq(N) /\ created \in Seq(N) /\ sent \in Seq(N)
       /\ ToSet(created) = Called(P \ (G \cup T)) /\ ToSet(sent) = Called(P \ G)
       /\ EditableFields(columns) = one \o created
       /\ FormData(columns, TRUE) = any \o sent /\ FormData(columns, FALSE) = <<>> \o sent
  <2>1. one \in Seq(N) /\ any \in Seq(N) /\ created \in Seq(N) /\ sent \in Seq(N)
    BY <1>2, <1>4, <1>5
  <2>2. ToSet(created) = Called(P \ (G \cup T)) /\ ToSet(sent) = Called(P \ G)
    BY <1>4, <1>5
  <2>3. EditableFields(columns) = one \o created
    BY DEF EditableFields, I, G, P, T
  <2>4. FormData(columns, TRUE) = any \o sent /\ FormData(columns, FALSE) = <<>> \o sent
    BY DEF FormData, I, G, P
  <2> QED BY <2>1, <2>2, <2>3, <2>4
<1>8. ToSet(any) \subseteq ToSet(one) \cup Called(G) /\ ToSet(one) \subseteq Called(D \ G)
  <2>1. ToSet(one) \subseteq Called(D \ G)
    <3>1. CASE I \ G = {}
      BY <1>4, <1>5, <3>1
    <3>2. CASE I \ G # {}
      <4>1. InOrder(I \ G)[1] \in D \ G /\ ToSet(one) = {columns[InOrder(I \ G)[1]].name}
        <5>1. I \ G \in SUBSET D /\ I \ G \subseteq D \ G
          BY <1>2
        <5> QED BY <1>4, <3>2, <5>1
      <4> HIDE DEF one
      <4> QED BY <4>1
    <3> QED BY <3>1, <3>2
  <2>2. CASE I = {}
    <3>1. ToSet(any) = {}
      BY <1>2, <1>4, <2>2
    <3> QED BY <2>1, <3>1
  <2> DEFINE i == InOrder(I)[1]
             j == InOrder(I \ G)[1]
  <2>3. CASE I # {} /\ i \in G
    <3>1. ToSet(any) = {columns[i].name}
      BY <1>2, <1>4, <2>3
    <3> HIDE DEF any, i
    <3>2. ToSet(any) \subseteq Called(G)
      BY <2>3, <3>1
    <3> QED BY <2>1, <3>2
  <2>4. CASE I # {} /\ i \notin G
    <3>1. i \in I /\ (\A k \in I : i <= k) /\ ToSet(any) = {columns[i].name}
      BY <1>2, <1>4, <2>4
    <3>2. I \ G # {}
      BY <2>4, <3>1
    <3>3. j \in I \ G /\ (\A k \in I \ G : j <= k) /\ ToSet(one) = {columns[j].name}
      BY <1>4, <1>5, <3>2
    <3> HIDE DEF i, j, any, one
    <3>4. i \in I \ G
      BY <2>4, <3>1
    <3>5. i <= j /\ j <= i /\ i \in D /\ j \in D
      BY <1>2, <3>1, <3>3, <3>4
    <3>6. i \in Nat /\ j \in Nat
      BY <1>1, <3>5
    <3>7. i = j
      BY <3>5, <3>6
    <3> QED BY <2>1, <3>1, <3>3, <3>7
  <2> QED BY <2>2, <2>3, <2>4
<1> HIDE DEF one, any, created, sent, N, Called
<1>9. ToSet(EditableFields(columns)) = ToSet(one) \cup Called(P \ (G \cup T))
  BY <1>7, ConcatSet
<1>10. /\ ToSet(FormData(columns, TRUE)) = ToSet(any) \cup Called(P \ G)
      /\ ToSet(FormData(columns, FALSE)) = Called(P \ G)
  <2>1. <<>> \o sent = sent
    BY <1>7, ConcatEmptySeq
  <2>2. ToSet(any \o sent) = ToSet(any) \cup Called(P \ G)
    BY <1>7, ConcatSet
  <2> QED BY <1>7, <2>1, <2>2
<1>11. ToSet(ColumnNames(columns)) = Called(D)
  BY DEF ToSet, ColumnNames, D, Called
<1>12. I \cap G = {} => one = any
  <2> SUFFICES ASSUME I \cap G = {} PROVE one = any
    OBVIOUS
  <2>1. I \ G = I
    OBVIOUS
  <2> QED BY <2>1 DEF one, any
<1>13. Called(D \ G) \cap Called(G) = {}
  BY <1>2, <1>3 DEF Called
<1>14. Called(D \ G) \cup Called(G) = Called(D)
  BY <1>2 DEF Called
<1>15. /\ Called(P \ (G \cup T)) \subseteq Called(P \ G) /\ Called(P \ (G \cup T)) \subseteq Called(D \ G)
       /\ Called(P \ G) \ {Status} \subseteq Called(P \ (G \cup T))
  BY <1>2, <1>3 DEF Called
<1>16. /\ ToSet(EditableFields(columns)) \cup ToSet(CreateValidation(columns))
            \subseteq ToSet(DtoFields(columns))
       /\ ToSet(DtoFields(columns)) \cup ToSet(ReadFields(columns)) = ToSet(ColumnNames(columns))
       /\ ToSet(DtoFields(columns)) \cap ToSet(ReadFields(columns)) = {}
  BY <1>6, <1>9, <1>11, <1>13, <1>14, <1>15, <1>8
<1>17. ToSet(FormData(columns, TRUE)) \ {Status}
         \subseteq ToSet(EditableFields(columns)) \cup ToSet(ReadFields(columns))
  BY <1>6, <1>9, <1>10, <1>15, <1>8
<1>18. \/ ToSet(EditableFields(columns)) \subseteq ToSet(FormData(columns, TRUE))
       \/ I \cap G # {}
  BY <1>9, <1>10, <1>12, <1>15
<1>19. ToSet(CreateValidation(columns)) \subseteq ToSet(FormData(columns, FALSE))
  BY <1>6, <1>10, <1>15
<1> QED BY <1>6, <1>16, <1>17, <1>18, <1>19 DEF HandlerFits, I, G

(* The last of the pairs with a key.                                       *)
LEMMA LastPair ==
  ASSUME NEW P, NEW pairs \in Seq(P), NEW k \in KeysOf(pairs)
  PROVE  \E i \in DOMAIN pairs :
           /\ pairs[i].key = k /\ ValueOf(pairs, k) = pairs[i].value
           /\ \A j \in DOMAIN pairs : pairs[j].key = k => j <= i
<1> DEFINE S == {i \in DOMAIN pairs : pairs[i].key = k}
           Latest(i) == pairs[i].key = k /\ \A j \in DOMAIN pairs : pairs[j].key = k => j <= i
<1>1. Len(pairs) \in Nat /\ DOMAIN pairs = 1 .. Len(pairs)
  BY SeqIs
<1>2. S \subseteq Nat /\ S # {} /\ \A i \in S : i <= Len(pairs)
  BY <1>1 DEF KeysOf
<1>3. Max(S) \in S /\ \A j \in S : Max(S) >= j
  <2> HIDE DEF S
  <2> QED BY <1>1, <1>2, MaxIsHighest
<1>4. \E i \in DOMAIN pairs : Latest(i)
  BY <1>1, <1>2, <1>3
<1> DEFINE c == CHOOSE i \in DOMAIN pairs : Latest(i)
<1>5. c \in DOMAIN pairs /\ Latest(c)
  BY <1>4
<1>6. ValueOf(pairs, k) = pairs[c].value
  BY DEF ValueOf
<1> HIDE DEF c
<1> QED BY <1>5, <1>6

LEMMA KeysFinite ==
  ASSUME NEW P, NEW pairs \in Seq(P)
  PROVE  IsFiniteSet(KeysOf(pairs))
<1> DEFINE f == [i \in DOMAIN pairs |-> pairs[i].key]
<1>1. Len(pairs) \in Nat /\ DOMAIN pairs = 1 .. Len(pairs)
  BY SeqIs
<1>2. f \in Surjection(DOMAIN pairs, KeysOf(pairs))
  BY DEF KeysOf, Surjection
<1> HIDE DEF f
<1> QED BY <1>1, <1>2, FS_Interval, FS_Surjection

LEMMA DefaultsFinite == IsFiniteSet(Defaults) /\ IsFiniteSet(ClassicDefaults)
<1>1. Defaults = (({} \cup {"form"}) \cup {"json"}) \cup {"db"}
  BY DEF Defaults
<1>2. IsFiniteSet(Defaults)
  BY <1>1, FS_EmptySet, FS_AddElement
<1> QED BY <1>2, FS_AddElement DEF ClassicDefaults

(* Filled has a value of its own only where there was none.                *)
LEMMA FilledIs ==
  ASSUME NEW pairs, NEW D
  PROVE  /\ Filled(pairs, D) = [k \in KeysOf(pairs) \cup D |-> Filled(pairs, D)[k]]
         /\ \A k \in KeysOf(pairs) : ValueOf(pairs, k) \in {NoValue, Filled(pairs, D)[k]}
         /\ \A k \in D : Filled(pairs, D)[k] # NoValue
<1> DEFINE K == KeysOf(pairs) \cup D
           Value(k) == IF k \in D /\ ~Chosen(pairs, k) THEN "column" ELSE ValueOf(pairs, k)
<1>1. Filled(pairs, D) = [k \in K |-> Value(k)]
  BY DEF Filled
<1>2. \A k \in KeysOf(pairs) : ValueOf(pairs, k) \in {NoValue, Value(k)}
  BY DEF Chosen
<1>3. \A k \in D : Value(k) # NoValue
  <2> SUFFICES ASSUME NEW k \in D PROVE Value(k) # NoValue
    OBVIOUS
  <2>1. CASE Chosen(pairs, k)
    BY <2>1 DEF Chosen
  <2>2. CASE ~Chosen(pairs, k)
    BY <2>2 DEF NoValue
  <2> QED BY <2>1, <2>2
<1> HIDE DEF Value
<1>4. \A k \in K : Filled(pairs, D)[k] = Value(k)
  BY <1>1
<1> QED BY <1>1, <1>2, <1>3, <1>4

(* Where every default has a value, Filled adds nothing.                   *)
LEMMA FilledAgain ==
  ASSUME NEW pairs, NEW D, D \subseteq KeysOf(pairs),
         \A k \in D : ValueOf(pairs, k) # NoValue
  PROVE  Filled(pairs, D) = [k \in KeysOf(pairs) |-> ValueOf(pairs, k)]
<1>1. KeysOf(pairs) \cup D = KeysOf(pairs)
  OBVIOUS
<1>2. \A k \in D : Chosen(pairs, k)
  BY DEF Chosen
<1> QED BY <1>1, <1>2 DEF Filled

(* Written and read again, tags are what they were.                        *)
LEMMA PrintedIs ==
  ASSUME NEW K, IsFiniteSet(K), NEW tags, tags = [k \in K |-> tags[k]]
  PROVE  LET q == Printed(tags)
             P == {[key |-> k, value |-> tags[k], wellFormed |-> TRUE] : k \in K}
         IN  /\ q \in Seq(P) /\ Readable(q) = q /\ KeysOf(q) = K
             /\ \A k \in K : ValueOf(q, k) = tags[k]
<1> DEFINE keys == SetToSeq(K)
           n == Cardinality(K)
           q == Printed(tags)
           P == {[key |-> k, value |-> tags[k], wellFormed |-> TRUE] : k \in K}
<1>1. n \in Nat /\ keys \in [1 .. n -> K] /\ \A k \in K : \E i \in 1 .. n : keys[i] = k
  <2>1. n \in Nat /\ IsFiniteSet(1 .. n) /\ Cardinality(1 .. n) = n
    <3>1. n \in Nat
      BY FS_CardinalityType
    <3> QED BY <3>1, FS_Interval, SMT
  <2>2. ExistsBijection(1 .. n, K)
    BY <2>1, FS_SameCardinalityBij
  <2>3. \E f \in [1 .. n -> K] : IsInjective(f)
    BY <2>2 DEF ExistsBijection, Bijection, Injection
  <2>4. keys \in [1 .. n -> K] /\ IsInjective(keys)
    BY <2>3, Zenon DEF SetToSeq
  <2> HIDE DEF keys, n
  <2>5. keys \in Injection(1 .. n, K)
    BY <2>4 DEF Injection
  <2>6. keys \in Surjection(1 .. n, K)
    BY <2>1, <2>5, FS_Injection DEF n
  <2> QED BY <2>1, <2>4, <2>6 DEF Surjection
<1>2. DOMAIN tags = K
  OBVIOUS
<1> HIDE DEF keys, n
<1> DEFINE Pair(i) == [key |-> keys[i], value |-> tags[keys[i]], wellFormed |-> TRUE]
<1>3. q = [i \in 1 .. n |-> Pair(i)]
  <2>1. DOMAIN keys = 1 .. n
    BY <1>1
  <2> QED BY <1>2, <2>1 DEF Printed, keys
<1>4. \A i \in 1 .. n : /\ Pair(i) \in P /\ Pair(i).key = keys[i]
                         /\ Pair(i).value = tags[keys[i]] /\ Pair(i).wellFormed
  BY <1>1
<1> HIDE DEF q, P, Pair
<1>5. q \in Seq(P) /\ DOMAIN q = 1 .. n /\ \A i \in 1 .. n : q[i] = Pair(i)
  <2>1. n \in Nat /\ \A i \in 1 .. n : Pair(i) \in P
    BY <1>1, <1>4
  <2>2. [i \in 1 .. n |-> Pair(i)] \in Seq(P)
    BY ONLY <2>1
  <2>3. DOMAIN q = 1 .. n /\ \A i \in 1 .. n : q[i] = Pair(i)
    BY ONLY <1>3
  <2> QED BY <1>3, <2>2, <2>3
<1>6. \A i \in 1 .. n : q[i].key = keys[i] /\ q[i].value = tags[keys[i]] /\ q[i].wellFormed
  BY <1>4, <1>5
<1>7. Readable(q) = q
  <2>1. {i \in DOMAIN q : ~q[i].wellFormed} = {}
    BY <1>5, <1>6
  <2> QED BY <2>1 DEF Readable
<1>8. KeysOf(q) = K
  <2>1. KeysOf(q) = {q[i].key : i \in 1 .. n}
    BY <1>5 DEF KeysOf
  <2>2. ASSUME NEW i \in 1 .. n PROVE q[i].key \in K
    BY <1>1, <1>6
  <2>3. ASSUME NEW k \in K PROVE k \in {q[i].key : i \in 1 .. n}
    BY <1>1, <1>6
  <2> QED BY <2>1, <2>2, <2>3
<1>9. ASSUME NEW k \in K PROVE ValueOf(q, k) = tags[k]
  <2>1. PICK i \in DOMAIN q : q[i].key = k /\ ValueOf(q, k) = q[i].value
    BY <1>5, <1>8, LastPair
  <2> QED BY <1>5, <1>6, <2>1
<1> QED BY <1>5, <1>7, <1>8, <1>9 DEF q, P

LEMMA ReadableIs ==
  ASSUME NEW P, NEW literal \in Seq(P)
  PROVE  Readable(literal) \in Seq(P)
<1> DEFINE bad == {i \in DOMAIN literal : ~literal[i].wellFormed}
<1>1. CASE bad = {}
  BY <1>1 DEF Readable
<1>2. CASE bad # {}
  <2>1. Len(literal) \in Nat /\ DOMAIN literal = 1 .. Len(literal)
    BY SeqIs
  <2>2. bad \subseteq Nat /\ IsFiniteSet(bad)
    <3>1. IsFiniteSet(1 .. Len(literal)) /\ bad \subseteq 1 .. Len(literal)
      BY <2>1, FS_Interval
    <3> QED BY <3>1, FS_Subset
  <2> DEFINE i == InOrder(bad)[1]
  <2>3. i \in bad
    <3> HIDE DEF bad
    <3> QED BY <1>2, <2>2, FirstInOrder
  <2>4. i \in 1 .. Len(literal)
    BY <2>1, <2>3
  <2>5. Readable(literal) = SubSeq(literal, 1, i - 1)
    BY <1>2 DEF Readable
  <2> HIDE DEF i, bad
  <2>6. SubSeq(literal, 1, i - 1) \in Seq(P)
    BY <2>1, <2>4, SubSeqProperties
  <2> QED BY <2>5, <2>6
<1> QED BY <1>1, <1>2

(* For the tag of every field of a Dto: the classic generator keeps what   *)
(* the developer chose, up to the first malformed pair, the repository     *)
(* generator too but for "query" and the validation of "id", which it      *)
(* decides itself; and generating once more changes nothing.               *)
THEOREM TagsStay ==
  ASSUME NEW P, NEW literal \in Seq(P), NEW column PROVE TagsKept(column, literal)
<1> DEFINE old == Readable(literal)
           classic == MergedClassic(old)
           new == Merged(column, old)
<1>1. old \in Seq(P)
  BY ReadableIs
<1> HIDE DEF old
<1>2. IsFiniteSet(KeysOf(old))
  BY <1>1, KeysFinite
<1>3. /\ Keeps(old, classic, {}) /\ \A k \in Defaults : classic[k] # NoValue
      /\ MergedClassic(Readable(Printed(classic))) = classic
  <2> DEFINE K == KeysOf(old) \cup ClassicDefaults
             q == Printed(classic)
  <2>1. /\ classic = [k \in K |-> classic[k]]
        /\ \A k \in KeysOf(old) : ValueOf(old, k) \in {NoValue, classic[k]}
        /\ \A k \in ClassicDefaults : classic[k] # NoValue
    BY FilledIs DEF MergedClassic
  <2>2. IsFiniteSet(K)
    BY <1>2, DefaultsFinite, FS_Union
  <2> HIDE DEF classic
  <2>3. DOMAIN classic = K
    BY <2>1
  <2>4. Readable(q) = q /\ KeysOf(q) = K /\ \A k \in K : ValueOf(q, k) = classic[k]
    <3> HIDE DEF K
    <3> QED BY <2>1, <2>2, PrintedIs
  <2> HIDE DEF q
  <2>5. MergedClassic(q) = [k \in K |-> classic[k]]
    <3>1. Filled(q, ClassicDefaults) = [k \in KeysOf(q) |-> ValueOf(q, k)]
      <4>1. ClassicDefaults \subseteq KeysOf(q)
        BY <2>4
      <4>2. \A k \in ClassicDefaults : ValueOf(q, k) # NoValue
        BY <2>1, <2>4
      <4> QED BY <4>1, <4>2, FilledAgain
    <3> HIDE DEF K
    <3> QED BY <2>4, <3>1 DEF MergedClassic
  <2>6. MergedClassic(Readable(q)) = classic
    BY <2>1, <2>4, <2>5
  <2>7. Keeps(old, classic, {})
    BY <2>1, <2>3 DEF Keeps
  <2>8. \A k \in Defaults : classic[k] # NoValue
    BY <2>1 DEF ClassicDefaults
  <2> QED BY <2>6, <2>7, <2>8 DEF q
<1> DEFINE ruled == IF column = Id THEN {"validate"} ELSE {}
<1>4. /\ Keeps(old, new, {"query"} \cup ruled) /\ \A k \in Defaults : new[k] # NoValue
      /\ "query" \notin DOMAIN new /\ (column = Id => new["validate"] = "required|uuid")
      /\ Merged(column, Readable(Printed(new))) = new
  <2> DEFINE filled == Filled(old, Defaults)
             K == ((KeysOf(old) \cup Defaults) \ {"query"}) \cup ruled
             Value(f, k) == IF k \in ruled THEN "required|uuid" ELSE f[k]
             q == Printed(new)
  <2>1. /\ filled = [k \in KeysOf(old) \cup Defaults |-> filled[k]]
        /\ \A k \in KeysOf(old) : ValueOf(old, k) \in {NoValue, filled[k]}
        /\ \A k \in Defaults : filled[k] # NoValue
    BY FilledIs
  <2>2. IsFiniteSet(K)
    <3>1. IsFiniteSet(KeysOf(old) \cup Defaults)
      BY <1>2, DefaultsFinite, FS_Union
    <3>2. IsFiniteSet((KeysOf(old) \cup Defaults) \ {"query"})
      BY <3>1, FS_Difference
    <3>3. IsFiniteSet({} \cup {"validate"}) /\ IsFiniteSet({})
      BY FS_EmptySet, FS_AddElement
    <3> QED BY <3>2, <3>3, FS_Union
  <2>3. /\ ruled \subseteq K /\ "query" \notin K /\ Defaults \subseteq K \ ruled
        /\ KeysOf(old) \ ({"query"} \cup ruled) \subseteq K \ ruled
        /\ (column = Id => "validate" \in ruled)
    BY DEF Defaults
  <2>4. new = [k \in K |-> Value(filled, k)]
    <3>1. DOMAIN filled = KeysOf(old) \cup Defaults
      BY <2>1
    <3> HIDE DEF filled
    <3> QED BY <3>1 DEF Merged, filled
  <2> HIDE DEF filled, new, ruled
  <2>5. /\ DOMAIN new = K /\ \A k \in ruled : new[k] = "required|uuid"
        /\ \A k \in K \ ruled : new[k] = filled[k]
    BY <2>3, <2>4
  <2>6. Readable(q) = q /\ KeysOf(q) = K /\ \A k \in K : ValueOf(q, k) = new[k]
    <3>1. new = [k \in K |-> new[k]]
      BY <2>4
    <3> HIDE DEF K
    <3> QED BY <2>2, <3>1, PrintedIs
  <2> HIDE DEF q, K
  <2>7. \A k \in Defaults : new[k] # NoValue
    BY <2>1, <2>3, <2>5
  <2>8. Filled(q, Defaults) = [k \in K |-> ValueOf(q, k)]
    BY <2>3, <2>6, <2>7, FilledAgain
  <2>9. Merged(column, q) = new
    <3> DEFINE again == [k \in K |-> ValueOf(q, k)]
    <3>1. DOMAIN again = K /\ \A k \in K : again[k] = new[k]
      BY <2>6
    <3>2. (DOMAIN again \ {"query"}) \cup ruled = K
      BY <2>3, <3>1
    <3> HIDE DEF again
    <3>3. Merged(column, q) = [k \in K |-> Value(again, k)]
      BY <2>8, <3>2 DEF Merged, again, ruled
    <3>4. \A k \in K : Value(again, k) = Value(filled, k)
      BY <2>4, <2>5, <3>1
    <3> QED BY <2>4, <3>3, <3>4
  <2>10. Keeps(old, new, {"query"} \cup ruled)
    BY <2>1, <2>3, <2>5 DEF Keeps
  <2> QED BY <2>3, <2>5, <2>6, <2>7, <2>9, <2>10 DEF q
<1> HIDE DEF classic, new
<1> QED BY <1>3, <1>4 DEF TagsKept, old, classic, new
=============================================================================
