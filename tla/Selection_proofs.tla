-------------------------- MODULE Selection_proofs ---------------------------
(***************************************************************************)
(* Proofs about Selection, for every list of files and all budgets.  The   *)
(* sums over sets of files are folds; the first part shows what they add   *)
(* up to, by counting: a sum of sizes is the number of pairs of a file and *)
(* one of its units.                                                       *)
(***************************************************************************)
EXTENDS Selection, FiniteSetTheorems, TLAPS

-----------------------------------------------------------------------------
(* The inductive invariant.                                                 *)

\* What every variable may be, whatever the pull request: nothing that is not
\* selected is looked at, and no content is sent of a file not under review.
Typed == /\ pr \in Seq(FileType)
         /\ phase \in {"select", "trim", "decide", "assemble", "done"}
         /\ todo \subseteq Selected /\ kept \subseteq Selected /\ included \subseteq kept
         /\ spent \in Nat /\ budget \in Nat /\ truncated \in BOOLEAN
         /\ reason \in {"none", "diff_too_large", "nothing_reviewable", "context_truncated"}
         /\ outcome \in {"none", "skipped", "partial", "completed"}

\* The files the line budget has left out so far.
LeftOut == Selected \ (IF phase = "trim" THEN kept \union todo ELSE kept)

\* Those kept fit the budget, are no larger than any left out, and leave no room
\* for one of these.
Greedy == phase # "select" =>
  /\ LinesOf(kept) <= MaxLines
  /\ \A j \in LeftOut : /\ LinesOf(kept) + pr[j].lines > MaxLines
                        /\ \A i \in kept : pr[i].lines <= pr[j].lines

\* The loop of _trim_to_budget has the larger files before it, and its running
\* total is the sum of those it kept.
Trimming == phase = "trim" =>
  /\ todo # {} /\ kept \cap todo = {} /\ spent = LinesOf(kept)
  /\ \A i \in Selected \ todo, j \in todo : pr[i].lines <= pr[j].lines

\* The reason says whether the line budget left anything out.
Reasons ==
  /\ phase = "select" => todo = {} /\ kept = {} /\ spent = 0 /\ reason = "none"
  /\ phase = "trim" => reason = "diff_too_large" /\ LinesOf(Selected) > MaxLines
  /\ phase \in {"decide", "assemble"} =>
       reason = (IF kept = Selected THEN "none" ELSE "diff_too_large")

\* The files with a text the context has room for, or had none for.
Text(A) == {i \in A : pr[i].content = "text"}

\* The budget of the context is what the contents sent leave of it, and truncated
\* says whether a text was left out.
Assembled ==
  /\ CharsOf(included) + budget = MaxChars
  /\ phase \in {"select", "trim", "decide"} => included = {} /\ ~truncated
  /\ phase = "decide" => todo = {}
  /\ phase = "assemble" => todo \subseteq kept /\ kept # {}
  /\ phase \in {"assemble", "done"} =>
       /\ included \subseteq Text(kept \ todo)
       /\ truncated <=> included # Text(kept \ todo)

\* The verdict follows from what was left out.
Verdict ==
  /\ phase # "done" => outcome = "none"
  /\ phase = "done" =>
       /\ todo = {}
       /\ outcome = IF kept = {} THEN "skipped"
                    ELSE IF kept = Selected /\ ~truncated THEN "completed" ELSE "partial"

IInv == Typed /\ Greedy /\ Trimming /\ Reasons /\ Assembled /\ Verdict

-----------------------------------------------------------------------------
(* Sums.                                                                    *)

\* The lines, or characters, of the files in A as things to count.
Units(size, A)  == UNION {{i} \X (1 .. size[i]) : i \in A}
Weight(size, A) == Cardinality(Units(size, A))

Sized(size, A) == IsFiniteSet(A) /\ \A i \in A : size[i] \in Nat

LEMMA Unit ==
  ASSUME NEW size, NEW A, NEW u
  PROVE  u \in Units(size, A) <=>
           /\ u = <<u[1], u[2]>>
           /\ u[1] \in A /\ u[2] \in 1 .. size[u[1]]
BY DEF Units

\* The units of one file.
LEMMA OneWeight ==
  ASSUME NEW size, NEW x, size[x] \in Nat
  PROVE  IsFiniteSet(Units(size, {x})) /\ Weight(size, {x}) = size[x]
<1>1. Units(size, {x}) = {x} \X (1 .. size[x])
  BY DEF Units
<1>2. IsFiniteSet(1 .. size[x]) /\ Cardinality(1 .. size[x]) = size[x]
  BY FS_Interval
<1>3. IsFiniteSet({x}) /\ Cardinality({x}) = 1
  BY FS_Singleton
<1>4. /\ IsFiniteSet({x} \X (1 .. size[x]))
      /\ Cardinality({x} \X (1 .. size[x])) = 1 * size[x]
  BY <1>2, <1>3, FS_Product
<1>5. 1 * size[x] = size[x]
  OBVIOUS
<1>6. QED
  BY <1>1, <1>4, <1>5 DEF Weight

\* Finitely many files have finitely many units.
LEMMA FiniteUnits ==
  ASSUME NEW size, NEW A, Sized(size, A)
  PROVE  IsFiniteSet(Units(size, A)) /\ Weight(size, A) \in Nat
<1> DEFINE part  == [i \in A |-> {i} \X (1 .. size[i])]
           parts == {{i} \X (1 .. size[i]) : i \in A}
<1>1. part \in Surjection(A, parts)
  BY DEF Surjection
<1>2. IsFiniteSet(parts)
  BY <1>1, FS_Surjection DEF Sized
<1>3. ASSUME NEW i \in A PROVE IsFiniteSet({i} \X (1 .. size[i]))
  <2>1. size[i] \in Nat
    BY DEF Sized
  <2>2. IsFiniteSet(1 .. size[i]) /\ IsFiniteSet({i})
    <3>1. 1 \in Int /\ size[i] \in Int
      BY <2>1
    <3>2. QED
      BY <3>1, FS_Interval, FS_Singleton
  <2>3. QED
    BY <2>2, FS_Product
<1>4. IsFiniteSet(UNION parts)
  BY <1>2, <1>3, FS_UNION
<1>5. QED
  BY <1>4, FS_CardinalityType DEF Units, Weight

\* The units of two disjoint sets of files add up.
LEMMA WeightOfUnion ==
  ASSUME NEW size, NEW A, NEW B, Sized(size, A), Sized(size, B), A \cap B = {}
  PROVE  /\ Sized(size, A \union B)
         /\ Weight(size, A \union B) = Weight(size, A) + Weight(size, B)
<1>1. Sized(size, A \union B)
  BY FS_Union DEF Sized
<1>2. Units(size, A \union B) = Units(size, A) \union Units(size, B)
  BY DEF Units
<1>3. Units(size, A) \cap Units(size, B) = {}
  BY Unit
<1>4. /\ IsFiniteSet(Units(size, A)) /\ IsFiniteSet(Units(size, B))
      /\ Weight(size, A) \in Nat /\ Weight(size, B) \in Nat
  BY FiniteUnits
<1>5. Cardinality(Units(size, A) \union Units(size, B))
        = Weight(size, A) + Weight(size, B) - Cardinality({})
  BY <1>3, <1>4, FS_Union DEF Weight
<1>6. Cardinality(Units(size, A \union B)) = Weight(size, A) + Weight(size, B)
  <2>1. Cardinality({}) = 0
    BY FS_EmptySet
  <2>2. Weight(size, A) + Weight(size, B) - 0 = Weight(size, A) + Weight(size, B)
    BY <1>4
  <2>3. Cardinality(Units(size, A) \union Units(size, B))
          = Weight(size, A) + Weight(size, B)
    BY <1>5, <2>1, <2>2
  <2>4. QED
    BY <1>2, <2>3
<1>7. QED
  BY <1>1, <1>6 DEF Weight

LEMMA WeightOfNothing ==
  ASSUME NEW size PROVE Sized(size, {}) /\ Weight(size, {}) = 0
BY FS_EmptySet DEF Sized, Weight, Units

LEMMA WeightOfMore ==
  ASSUME NEW size, NEW A, Sized(size, A), NEW x, size[x] \in Nat, x \notin A
  PROVE  /\ Sized(size, A \union {x})
         /\ Weight(size, A \union {x}) = Weight(size, A) + size[x]
<1>1. Sized(size, {x}) /\ A \cap {x} = {}
  BY FS_Singleton DEF Sized
<1>2. QED
  BY <1>1, OneWeight, WeightOfUnion

\* A file taken out takes its units with it.
LEMMA WeightOfLess ==
  ASSUME NEW size, NEW A, Sized(size, A), NEW x \in A
  PROVE  /\ Sized(size, A \ {x}) /\ size[x] \in Nat
         /\ Weight(size, A) = size[x] + Weight(size, A \ {x})
<1>1. Sized(size, A \ {x}) /\ size[x] \in Nat /\ x \notin A \ {x}
  BY FS_Subset DEF Sized
<1>2. Weight(size, (A \ {x}) \union {x}) = Weight(size, A \ {x}) + size[x]
  BY <1>1, WeightOfMore
<1>3. (A \ {x}) \union {x} = A
  OBVIOUS
<1>4. Weight(size, A) = Weight(size, A \ {x}) + size[x]
  BY <1>2, <1>3
<1>5. Weight(size, A \ {x}) \in Nat
  BY <1>1, FiniteUnits
<1>6. QED
  BY <1>1, <1>4, <1>5

\* If no file has more than m units, all have at most m each; and likewise for less.
LEMMA WeightAtMost ==
  ASSUME NEW size, NEW A, Sized(size, A), NEW m \in Nat, \A i \in A : size[i] <= m
  PROVE  Cardinality(A) \in Nat /\ Weight(size, A) <= Cardinality(A) * m
<1>1. IsFiniteSet(1 .. m) /\ Cardinality(1 .. m) = m
  BY FS_Interval
<1>2. /\ IsFiniteSet(A \X (1 .. m))
      /\ Cardinality(A \X (1 .. m)) = Cardinality(A) * m
  BY <1>1, FS_Product DEF Sized
<1>3. Units(size, A) \subseteq A \X (1 .. m)
  <2>1. SUFFICES ASSUME NEW i \in A PROVE {i} \X (1 .. size[i]) \subseteq A \X (1 .. m)
    BY DEF Units
  <2>2. size[i] \in Nat /\ size[i] <= m
    BY DEF Sized
  <2>3. QED
    BY <2>2
<1>4. Weight(size, A) <= Cardinality(A \X (1 .. m))
  BY <1>2, <1>3, FS_Subset DEF Weight
<1>5. QED
  BY <1>2, <1>4, FS_CardinalityType DEF Sized

LEMMA WeightAtLeast ==
  ASSUME NEW size, NEW A, Sized(size, A), NEW m \in Nat, \A i \in A : size[i] >= m
  PROVE  Cardinality(A) \in Nat /\ Cardinality(A) * m <= Weight(size, A)
<1>1. IsFiniteSet(1 .. m) /\ Cardinality(1 .. m) = m
  BY FS_Interval
<1>2. Cardinality(A \X (1 .. m)) = Cardinality(A) * m
  BY <1>1, FS_Product DEF Sized
<1>3. A \X (1 .. m) \subseteq Units(size, A)
  <2>1. SUFFICES ASSUME NEW i \in A, NEW n \in 1 .. m PROVE <<i, n>> \in Units(size, A)
    OBVIOUS
  <2>2. size[i] \in Nat /\ size[i] >= m
    BY DEF Sized
  <2>3. n \in 1 .. size[i]
    BY <2>2
  <2>4. QED
    BY <2>3, Unit
<1>4. Cardinality(A \X (1 .. m)) <= Weight(size, A)
  BY <1>3, FiniteUnits, FS_Subset DEF Weight
<1>5. QED
  BY <1>2, <1>4, FS_CardinalityType DEF Sized

-----------------------------------------------------------------------------
(* The folds of the model are these sums.                                   *)

\* The recursive function inside the fold of sizes over the subsets of A.
Folds(size, A, g) ==
  g = [s \in SUBSET A |->
         IF s = {} THEN 0
         ELSE LET x == CHOOSE x \in s : TRUE IN size[x] + g[s \ {x}]]

\* There is one, which counts units, ...
LEMMA WeightFolds ==
  ASSUME NEW size, NEW A, Sized(size, A)
  PROVE  Folds(size, A, [s \in SUBSET A |-> Weight(size, s)])
<1> DEFINE g == [s \in SUBSET A |-> Weight(size, s)]
<1>1. ASSUME NEW s \in SUBSET A, s # {}, NEW x \in s
      PROVE  Weight(size, s) = size[x] + g[s \ {x}]
  <2>1. Sized(size, s)
    BY FS_Subset DEF Sized
  <2>2. Weight(size, s) = size[x] + Weight(size, s \ {x})
    BY <2>1, WeightOfLess
  <2>3. QED
    BY <2>2
<1>2. ASSUME NEW s \in SUBSET A
      PROVE  Weight(size, s) = IF s = {} THEN 0
                               ELSE LET x == CHOOSE x \in s : TRUE IN size[x] + g[s \ {x}]
  <2>1. CASE s = {}
    BY <2>1, WeightOfNothing
  <2>2. CASE s # {}
    <3>1. (CHOOSE x \in s : TRUE) \in s
      BY <2>2
    <3>2. QED
      BY <1>1, <2>2, <3>1
  <2>3. QED
    BY <2>1, <2>2
<1>3. QED
  BY <1>2 DEF Folds

\* ... and no other: a smallest set on which another one differs has an element,
\* and without it they agree.
LEMMA FoldIsWeight ==
  ASSUME NEW size, NEW A, Sized(size, A), NEW g, Folds(size, A, g)
  PROVE  g[A] = Weight(size, A)
<1> DEFINE Wrong == {s \in SUBSET A : g[s] # Weight(size, s)}
           R     == StrictSubsetOrdering(A)
<1>1. FiniteSubsetsOf(A) = SUBSET A /\ IsWellFoundedOn(R, SUBSET A)
  BY FS_FiniteSubsetsOfFinite, FS_StrictSubsetOrderingWellFounded DEF Sized
<1>2. Wrong = {}
  <2>1. SUFFICES ASSUME Wrong # {} PROVE FALSE
    OBVIOUS
  <2>2. PICK s \in Wrong : \A t \in Wrong : ~(<<t, s>> \in R)
    <3>1. Wrong \subseteq SUBSET A
      OBVIOUS
    <3> HIDE DEF Wrong, R
    <3>2. QED
      BY <1>1, <2>1, <3>1, WFMin
  <2>3. s \in SUBSET A
    OBVIOUS
  <2>4. s # {}
    BY WeightOfNothing DEF Folds
  <2>5. PICK x \in s : g[s] = size[x] + g[s \ {x}]
    <3>1. (CHOOSE x \in s : TRUE) \in s
      BY <2>4
    <3>2. QED
      BY <2>3, <2>4, <3>1 DEF Folds
  <2>6. s \ {x} \notin Wrong
    <3>1. s \ {x} \subseteq s /\ s \ {x} # s /\ s \ {x} \in SUBSET A
      BY <2>3, <2>5
    <3>2. <<s \ {x}, s>> \in R
      BY <2>3, <3>1 DEF StrictSubsetOrdering
    <3>3. QED
      BY <2>2, <3>2
  <2>7. g[s \ {x}] = Weight(size, s \ {x})
    BY <2>3, <2>6
  <2>8. Weight(size, s) = size[x] + Weight(size, s \ {x})
    <3>1. Sized(size, s)
      BY <2>3, FS_Subset DEF Sized
    <3>2. QED
      BY <2>5, <3>1, WeightOfLess
  <2>9. QED
    BY <2>5, <2>7, <2>8
<1>3. QED
  BY <1>2

lines == [i \in DOMAIN pr |-> pr[i].lines]
chars == [i \in DOMAIN pr |-> pr[i].chars]

LEMMA Sums ==
  ASSUME pr \in Seq(FileType), NEW A \in SUBSET (DOMAIN pr)
  PROVE  /\ Sized(lines, A) /\ LinesOf(A) = Weight(lines, A)
         /\ Sized(chars, A) /\ CharsOf(A) = Weight(chars, A)
<1>1. IsFiniteSet(A)
  <2>1. DOMAIN pr = 1 .. Len(pr) /\ Len(pr) \in Nat
    OBVIOUS
  <2>2. IsFiniteSet(1 .. Len(pr))
    BY <2>1, FS_Interval
  <2>3. QED
    BY <2>1, <2>2, FS_Subset
<1>2. \A i \in A : /\ lines[i] = pr[i].lines /\ lines[i] \in Nat
                   /\ chars[i] = pr[i].chars /\ chars[i] \in Nat
  <2>1. ASSUME NEW i \in A PROVE pr[i] \in FileType /\ i \in DOMAIN pr
    OBVIOUS
  <2>2. QED
    BY <2>1 DEF lines, chars, FileType
<1>3. Sized(lines, A) /\ Sized(chars, A)
  BY <1>1, <1>2 DEF Sized
<1>4. LinesOf(A) = Weight(lines, A)
  <2> DEFINE fold(g) == g = [s \in SUBSET A |->
                          IF s = {} THEN 0
                          ELSE LET x == CHOOSE x \in s : TRUE
                               IN  pr[x].lines + g[s \ {x}]]
  <2>1. LinesOf(A) = (CHOOSE g : fold(g))[A]
    BY DEF LinesOf, MapThenSumSet, MapThenFoldSet
  <2>2. ASSUME NEW g PROVE fold(g) <=> Folds(lines, A, g)
    <3>1. \A s \in SUBSET A : s # {} => (CHOOSE x \in s : TRUE) \in A
      OBVIOUS
    <3>2. QED
      BY <1>2, <3>1 DEF Folds
  <2>3. fold(CHOOSE g : fold(g))
    <3> HIDE DEF fold
    <3>1. QED
      BY <1>3, <2>2, WeightFolds
  <2>4. QED
    BY <1>3, <2>1, <2>2, <2>3, FoldIsWeight
<1>5. CharsOf(A) = Weight(chars, A)
  <2> DEFINE fold(g) == g = [s \in SUBSET A |->
                          IF s = {} THEN 0
                          ELSE LET x == CHOOSE x \in s : TRUE
                               IN  pr[x].chars + g[s \ {x}]]
  <2>1. CharsOf(A) = (CHOOSE g : fold(g))[A]
    BY DEF CharsOf, MapThenSumSet, MapThenFoldSet
  <2>2. ASSUME NEW g PROVE fold(g) <=> Folds(chars, A, g)
    <3>1. \A s \in SUBSET A : s # {} => (CHOOSE x \in s : TRUE) \in A
      OBVIOUS
    <3>2. QED
      BY <1>2, <3>1 DEF Folds
  <2>3. fold(CHOOSE g : fold(g))
    <3> HIDE DEF fold
    <3>1. QED
      BY <1>3, <2>2, WeightFolds
  <2>4. QED
    BY <1>3, <2>1, <2>2, <2>3, FoldIsWeight
<1>6. QED
  BY <1>3, <1>4, <1>5

-----------------------------------------------------------------------------
(* What the steps need of them.                                             *)

USE BudgetAssumption

\* The files selected are finitely many entries of the list.
LEMMA SelectedFiles ==
  ASSUME pr \in Seq(FileType)
  PROVE  /\ Selected \subseteq DOMAIN pr /\ IsFiniteSet(Selected)
         /\ \A i \in Selected : /\ i \in Nat /\ pr[i] \in FileType
                                /\ pr[i].lines \in Nat /\ pr[i].chars \in Nat
<1>1. DOMAIN pr = 1 .. Len(pr) /\ Len(pr) \in Nat
  OBVIOUS
<1>2. Selected \subseteq DOMAIN pr
  BY DEF Selected, Fetched
<1>3. IsFiniteSet(Selected)
  <2>1. IsFiniteSet(1 .. Len(pr))
    BY <1>1, FS_Interval
  <2>2. QED
    BY <1>1, <1>2, <2>1, FS_Subset
<1>4. \A i \in Selected : i \in Nat /\ pr[i] \in FileType
  BY <1>1, <1>2
<1>5. QED
  BY <1>2, <1>3, <1>4 DEF FileType

\* The sum of no lines, and that of one more file.
LEMMA LinesAdd ==
  ASSUME pr \in Seq(FileType)
  PROVE  /\ LinesOf({}) = 0
         /\ \A A \in SUBSET Selected : LinesOf(A) \in Nat
         /\ \A A \in SUBSET Selected : \A x \in Selected \ A :
              LinesOf(A \union {x}) = LinesOf(A) + pr[x].lines
<1>1. LinesOf({}) = 0
  BY Sums, WeightOfNothing
<1>2. \A A \in SUBSET Selected : LinesOf(A) \in Nat
  BY SelectedFiles, Sums, FiniteUnits
<1>3. ASSUME NEW A \in SUBSET Selected, NEW x \in Selected \ A
      PROVE  LinesOf(A \union {x}) = LinesOf(A) + pr[x].lines
  <2>1. /\ A \in SUBSET (DOMAIN pr) /\ A \union {x} \in SUBSET (DOMAIN pr)
        /\ lines[x] = pr[x].lines /\ lines[x] \in Nat
    BY SelectedFiles DEF lines
  <2>2. Sized(lines, A) /\ LinesOf(A) = Weight(lines, A)
        /\ LinesOf(A \union {x}) = Weight(lines, A \union {x})
    BY <2>1, Sums
  <2>3. Weight(lines, A \union {x}) = Weight(lines, A) + lines[x]
    BY <2>1, <2>2, WeightOfMore
  <2>4. QED
    BY <2>1, <2>2, <2>3
<1>4. QED
  BY <1>1, <1>2, <1>3

LEMMA CharsAdd ==
  ASSUME pr \in Seq(FileType)
  PROVE  /\ CharsOf({}) = 0
         /\ \A A \in SUBSET Selected : CharsOf(A) \in Nat
         /\ \A A \in SUBSET Selected : \A x \in Selected \ A :
              CharsOf(A \union {x}) = CharsOf(A) + pr[x].chars
<1>1. CharsOf({}) = 0
  BY Sums, WeightOfNothing
<1>2. \A A \in SUBSET Selected : CharsOf(A) \in Nat
  BY SelectedFiles, Sums, FiniteUnits
<1>3. ASSUME NEW A \in SUBSET Selected, NEW x \in Selected \ A
      PROVE  CharsOf(A \union {x}) = CharsOf(A) + pr[x].chars
  <2>1. /\ A \in SUBSET (DOMAIN pr) /\ A \union {x} \in SUBSET (DOMAIN pr)
        /\ chars[x] = pr[x].chars /\ chars[x] \in Nat
    BY SelectedFiles DEF chars
  <2>2. Sized(chars, A) /\ CharsOf(A) = Weight(chars, A)
        /\ CharsOf(A \union {x}) = Weight(chars, A \union {x})
    BY <2>1, Sums
  <2>3. Weight(chars, A \union {x}) = Weight(chars, A) + chars[x]
    BY <2>1, <2>2, WeightOfMore
  <2>4. QED
    BY <2>1, <2>2, <2>3
<1>4. QED
  BY <1>1, <1>2, <1>3

\* No step changes the list, nor what is selected of it, nor any sum.
LEMMA ListStays ==
  ASSUME pr' = pr
  PROVE  /\ Selected' = Selected
         /\ LinesOf(kept)' = LinesOf(kept') /\ LinesOf(Selected)' = LinesOf(Selected)
         /\ CharsOf(included)' = CharsOf(included')
<1>1. Selected' = Selected
  BY DEF Selected, Fetched, Reviewable
<1>2. LinesOf(kept)' = LinesOf(kept')
  BY DEF LinesOf, MapThenSumSet, MapThenFoldSet
<1>3. LinesOf(Selected)' = LinesOf(Selected')
  BY DEF LinesOf, MapThenSumSet, MapThenFoldSet
<1>4. CharsOf(included)' = CharsOf(included')
  BY DEF CharsOf, MapThenSumSet, MapThenFoldSet
<1>5. QED
  BY <1>1, <1>2, <1>3, <1>4

-----------------------------------------------------------------------------
(* The steps.                                                               *)

LEMMA SelectStep == IInv /\ Select => IInv'
<1> SUFFICES ASSUME IInv, Select PROVE IInv'
  OBVIOUS
<1> USE DEF IInv
<1>1. /\ pr' = pr /\ Selected' = Selected /\ LinesOf(kept)' = LinesOf(kept')
      /\ LinesOf(Selected)' = LinesOf(Selected) /\ CharsOf(included)' = CharsOf(included')
  BY ListStays DEF Select
<1>2. pr \in Seq(FileType) /\ LinesOf(Selected) \in Nat /\ LinesOf({}) = 0
  BY LinesAdd DEF Typed
<1>3. Typed'
  BY <1>1 DEF Typed, Select, Assembled
<1>4. Greedy'
  <2>1. LeftOut' = {}
    BY <1>1 DEF LeftOut, Select
  <2>2. LinesOf(kept') <= MaxLines
    <3>1. CASE LinesOf(Selected) > MaxLines
      <4>1. LinesOf(kept') = LinesOf({})
        BY <3>1, Zenon DEF Select
      <4>2. QED
        BY <1>2, <4>1
    <3>2. CASE ~(LinesOf(Selected) > MaxLines)
      <4>1. LinesOf(kept') = LinesOf(Selected)
        BY <3>2, Zenon DEF Select
      <4>2. QED
        BY <1>2, <3>2, <4>1
    <3>3. QED
      BY <3>1, <3>2
  <2>3. QED
    BY <1>1, <2>1, <2>2 DEF Greedy
<1>5. Trimming'
  <2>1. LinesOf(Selected) > MaxLines => Selected # {}
    <3>1. Selected = {} => LinesOf(Selected) = LinesOf({})
      BY Zenon
    <3>2. QED
      BY <1>2, <3>1
  <2>2. QED
    BY <1>1, <1>2, <2>1 DEF Trimming, Select, Reasons
<1>6. Reasons'
  BY <1>1 DEF Reasons, Select
<1>7. Assembled'
  BY <1>1 DEF Assembled, Select
<1>8. Verdict'
  BY DEF Verdict, Select
<1>9. QED
  BY <1>3, <1>4, <1>5, <1>6, <1>7, <1>8

\* When a file is kept none has been left out: it would be no larger, and there
\* was no room for it.
LEMMA NoneLeftOut ==
  ASSUME IInv, phase = "trim", NEW i \in todo, Fits(i)
  PROVE  Selected \ (kept \union todo) = {}
<1>1. SUFFICES ASSUME NEW j \in Selected \ (kept \union todo) PROVE FALSE
  OBVIOUS
<1>2. /\ pr[j].lines \in Nat /\ pr[i].lines \in Nat /\ LinesOf(kept) \in Nat
  BY SelectedFiles, LinesAdd DEF IInv, Typed
<1>3. LinesOf(kept) + pr[j].lines > MaxLines
  BY DEF IInv, Greedy, LeftOut
<1>4. pr[j].lines <= pr[i].lines /\ spent = LinesOf(kept)
  BY DEF IInv, Trimming
<1>5. QED
  BY <1>2, <1>3, <1>4 DEF Fits

LEMMA TrimStep == ASSUME IInv, NEW i \in todo, Trim(i) PROVE IInv'
<1> USE DEF IInv
<1>1. /\ pr' = pr /\ Selected' = Selected /\ LinesOf(kept)' = LinesOf(kept')
      /\ LinesOf(Selected)' = LinesOf(Selected) /\ CharsOf(included)' = CharsOf(included')
  BY ListStays DEF Trim
<1>2. /\ pr \in Seq(FileType) /\ LinesOf(kept) \in Nat /\ LinesOf(Selected) \in Nat
      /\ i \in Selected /\ \A j \in Selected : j \in Nat /\ pr[j].lines \in Nat
  BY SelectedFiles, LinesAdd DEF Typed
<1>3. /\ phase = "trim" /\ i \notin kept /\ spent = LinesOf(kept)
      /\ \A j \in todo : pr[i].lines <= pr[j].lines
  <2>1. \A j \in todo : j \in Selected
    BY DEF Typed
  <2>2. QED
    BY <1>2, <2>1 DEF Trim, Trimming, Smaller
<1>4. LinesOf(kept') = IF Fits(i) THEN LinesOf(kept) + pr[i].lines ELSE LinesOf(kept)
  <2>1. LinesOf(kept \union {i}) = LinesOf(kept) + pr[i].lines
    BY <1>2, <1>3, LinesAdd DEF Typed
  <2>2. QED
    BY <2>1 DEF Trim
<1>5. Typed'
  BY <1>1, <1>2 DEF Typed, Trim
<1>6. LeftOut' = Selected \ (kept' \union todo')
  BY <1>1 DEF LeftOut, Trim
<1>7. Greedy'
  <2>1. CASE Fits(i)
    <3>1. LeftOut' = {}
      BY <1>3, <1>6, <2>1, NoneLeftOut DEF Trim
    <3>2. LinesOf(kept') <= MaxLines
      BY <1>3, <1>4, <2>1 DEF Fits
    <3>3. QED
      BY <1>1, <3>1, <3>2 DEF Greedy
  <2>2. CASE ~Fits(i)
    <3>1. kept' = kept /\ LeftOut' \subseteq LeftOut \union {i}
      BY <1>3, <1>6, <2>2 DEF Trim, LeftOut
    <3>2. LinesOf(kept) + pr[i].lines > MaxLines
      BY <1>2, <1>3, <2>2 DEF Fits
    <3>3. \A k \in kept : pr[k].lines <= pr[i].lines
      BY <1>3 DEF Trimming, Typed
    <3>4. QED
      BY <1>1, <1>3, <1>4, <2>2, <3>1, <3>2, <3>3 DEF Greedy
  <2>3. QED
    BY <2>1, <2>2
<1>8. Trimming'
  <2>1. ASSUME NEW k \in Selected \ todo', NEW j \in todo' PROVE pr[k].lines <= pr[j].lines
    BY <1>3, <2>1 DEF Trim, Trimming
  <2>2. phase' = "trim" => todo' # {} /\ kept' \cap todo' = {}
    BY <1>3 DEF Trim, Trimming
  <2>3. spent' = LinesOf(kept')
    BY <1>3, <1>4 DEF Trim
  <2>4. QED
    BY <1>1, <2>1, <2>2, <2>3 DEF Trimming
<1>9. Reasons'
  <2>1. LinesOf(Selected) > MaxLines /\ reason = "diff_too_large"
    BY <1>3 DEF Reasons
  <2>2. kept' # Selected
    BY <1>1, <1>2, <1>3, <1>7, <2>1 DEF Greedy, Trim
  <2>3. QED
    BY <1>1, <2>1, <2>2 DEF Reasons, Trim
<1>10. Assembled'
  BY <1>1 DEF Assembled, Trim
<1>11. Verdict'
  BY DEF Verdict, Trim
<1>12. QED
  BY <1>5, <1>7, <1>8, <1>9, <1>10, <1>11

LEMMA DecideStep == IInv /\ Decide => IInv'
<1> SUFFICES ASSUME IInv, Decide PROVE IInv'
  OBVIOUS
<1> USE DEF IInv
<1>1. /\ pr' = pr /\ Selected' = Selected /\ LinesOf(kept)' = LinesOf(kept')
      /\ LinesOf(Selected)' = LinesOf(Selected) /\ CharsOf(included)' = CharsOf(included')
  BY ListStays DEF Decide
<1>2. kept' = kept /\ included' = included /\ phase = "decide" /\ LeftOut' = LeftOut
  BY <1>1 DEF Decide, LeftOut
<1>3. Typed'
  BY <1>1 DEF Typed, Decide
<1>4. Greedy'
  BY <1>1, <1>2 DEF Greedy
<1>5. Trimming' /\ Reasons' /\ Verdict'
  BY <1>1 DEF Trimming, Reasons, Verdict, Assembled, Decide
<1>6. Assembled'
  <2>1. kept \ todo' = {}
    BY <1>2 DEF Decide, Assembled
  <2>2. Text(kept \ todo)' = {}
    BY <1>1, <1>2, <2>1 DEF Text
  <2>3. included = {} /\ ~truncated /\ todo = {} /\ CharsOf(included) + budget = MaxChars
    BY <1>2 DEF Assembled
  <2>4. CharsOf(included)' + budget' = MaxChars
    BY <1>1, <1>2, <2>3 DEF Decide
  <2>5. QED
    BY <1>2, <2>2, <2>3, <2>4 DEF Assembled, Decide
<1>7. QED
  BY <1>3, <1>4, <1>5, <1>6

LEMMA AssembleStep == ASSUME IInv, NEW i \in todo, Assemble(i) PROVE IInv'
<1> USE DEF IInv
<1>1. /\ pr' = pr /\ Selected' = Selected /\ LinesOf(kept)' = LinesOf(kept')
      /\ LinesOf(Selected)' = LinesOf(Selected) /\ CharsOf(included)' = CharsOf(included')
  BY ListStays DEF Assemble
<1>2. /\ phase = "assemble" /\ phase' = phase /\ kept' = kept
      /\ LeftOut' = LeftOut /\ todo' = todo \ {i} /\ todo \subseteq kept
  BY <1>1 DEF Assemble, LeftOut, Assembled
<1>3. /\ i \in kept /\ i \in Selected /\ i \notin included /\ included \subseteq Selected
      /\ i \notin Text(kept \ todo) /\ included \subseteq Text(kept \ todo)
  BY <1>2 DEF Typed, Assembled, Text
<1>4. pr[i].chars \in Nat /\ CharsOf(included) \in Nat /\ budget \in Nat
  BY <1>3, SelectedFiles, CharsAdd DEF Typed
<1>5. Text(kept \ todo)' = Text(kept \ todo) \union Text({i})
  BY <1>1, <1>2, <1>3 DEF Text
<1>6. Greedy' /\ Trimming' /\ Reasons' /\ Verdict'
  BY <1>1, <1>2 DEF Assemble, Greedy, Trimming, Reasons, Verdict
<1>7. Typed'
  <2>1. Room(i) => budget - pr[i].chars \in Nat
    BY <1>4 DEF Room
  <2>2. QED
    BY <1>1, <1>2, <1>3, <2>1 DEF Typed, Assemble
<1>8. CharsOf(included)' + budget' = MaxChars
  <2>1. CharsOf(included) + budget = MaxChars
    BY DEF Assembled
  <2>2. CASE included' = included /\ budget' = budget
    BY <1>1, <2>1, <2>2
  <2>3. CASE included' = included \union {i} /\ budget' = budget - pr[i].chars
    <3>1. CharsOf(included \union {i}) = CharsOf(included) + pr[i].chars
      BY <1>3, CharsAdd DEF Typed
    <3>2. QED
      BY <1>1, <1>4, <2>1, <2>3, <3>1
  <2>4. QED
    BY <2>2, <2>3 DEF Assemble
<1>9. /\ included' \subseteq Text(kept \ todo)'
      /\ truncated' <=> included' # Text(kept \ todo)'
  <2>1. truncated <=> included # Text(kept \ todo)
    BY <1>2 DEF Assembled
  <2>2. CASE pr[i].content # "text"
    <3>1. Text({i}) = {}
      BY <2>2 DEF Text
    <3>2. QED
      BY <1>3, <1>5, <2>1, <2>2, <3>1 DEF Assemble
  <2>3. CASE pr[i].content = "text"
    <3>1. Text({i}) = {i}
      BY <2>3 DEF Text
    <3>2. \/ included' = included \union {i} /\ truncated' = truncated
          \/ included' = included /\ truncated' = TRUE
      BY <2>3 DEF Assemble
    <3>3. QED
      BY <1>3, <1>5, <2>1, <3>1, <3>2
  <2>4. QED
    BY <2>2, <2>3
<1>10. Assembled'
  BY <1>2, <1>8, <1>9 DEF Assembled
<1>11. QED
  BY <1>6, <1>7, <1>10

LEMMA ConcludeStep == IInv /\ Conclude => IInv'
<1> SUFFICES ASSUME IInv, Conclude PROVE IInv'
  OBVIOUS
<1> USE DEF IInv
<1>1. /\ pr' = pr /\ Selected' = Selected /\ LinesOf(kept)' = LinesOf(kept')
      /\ LinesOf(Selected)' = LinesOf(Selected) /\ CharsOf(included)' = CharsOf(included')
  BY ListStays DEF Conclude
<1>2. /\ phase = "assemble" /\ phase' = "done" /\ todo' = todo /\ kept' = kept
      /\ included' = included /\ budget' = budget /\ truncated' = truncated
      /\ LeftOut' = LeftOut /\ Text(kept \ todo)' = Text(kept \ todo)
  BY <1>1 DEF Conclude, LeftOut, Text
<1>3. Typed'
  BY <1>1 DEF Typed, Conclude
<1>4. Greedy' /\ Trimming' /\ Reasons' /\ Assembled'
  BY <1>1, <1>2 DEF Greedy, Trimming, Reasons, Assembled
<1>5. Verdict'
  <2>1. kept # {} /\ todo' = {} /\ outcome' = IF Partial THEN "partial" ELSE "completed"
    BY <1>2 DEF Conclude, Assembled
  <2>2. reason = (IF kept = Selected THEN "none" ELSE "diff_too_large") /\ truncated \in BOOLEAN
    BY <1>2 DEF Reasons, Typed
  <2>3. QED
    BY <1>1, <1>2, <2>1, <2>2 DEF Verdict, Partial
<1>6. QED
  BY <1>3, <1>4, <1>5

LEMMA SameStep == IInv /\ UNCHANGED vars => IInv'
<1> SUFFICES ASSUME IInv, UNCHANGED vars PROVE IInv'
  OBVIOUS
<1>1. /\ pr' = pr /\ Selected' = Selected /\ LinesOf(kept)' = LinesOf(kept')
      /\ LinesOf(Selected)' = LinesOf(Selected) /\ CharsOf(included)' = CharsOf(included')
  BY ListStays DEF vars
<1>2. QED
  BY <1>1 DEF vars, IInv, Typed, Greedy, LeftOut, Trimming, Reasons, Assembled, Text, Verdict

\* The invariant holds of any list of files the pipeline may start with ...
Fresh == /\ phase = "select"
         /\ todo = {} /\ kept = {} /\ spent = 0
         /\ included = {} /\ budget = MaxChars /\ truncated = FALSE
         /\ reason = "none" /\ outcome = "none"

LEMMA Start == ASSUME pr \in Seq(FileType), Fresh PROVE IInv
<1>1. CharsOf(included) = CharsOf({})
  BY Zenon DEF Fresh
<1>2. CharsOf({}) = 0
  BY CharsAdd
<1>3. CharsOf(included) + budget = MaxChars
  BY <1>1, <1>2 DEF Fresh
<1>4. QED
  BY <1>3 DEF Fresh, IInv, Typed, Greedy, Trimming, Reasons, Assembled, Verdict

\* ... and every step keeps it.
LEMMA Keep == IInv /\ [Next]_vars => IInv'
<1> SUFFICES ASSUME IInv, [Next]_vars PROVE IInv'
  OBVIOUS
<1>1. CASE Select
  BY <1>1, SelectStep
<1>2. CASE Decide
  BY <1>2, DecideStep
<1>3. CASE Conclude
  BY <1>3, ConcludeStep
<1>4. ASSUME NEW i \in todo, Trim(i) PROVE IInv'
  BY <1>4, TrimStep
<1>5. ASSUME NEW i \in todo, Assemble(i) PROVE IInv'
  BY <1>5, AssembleStep
<1>6. CASE UNCHANGED vars
  BY <1>6, SameStep
<1>7. QED
  BY <1>1, <1>2, <1>3, <1>4, <1>5, <1>6 DEF Next

-----------------------------------------------------------------------------
(* What the invariant says of the review.                                   *)

LEMMA Budgets == IInv => WithinBudgets
BY DEF IInv, Typed, Greedy, Assembled, WithinBudgets

LEMMA Whole == IInv => CompletedIsWhole
<1> SUFFICES ASSUME IInv, phase = "done", kept # {}
             PROVE  outcome = "completed" <=> kept = Selected /\ included = Sendable
  BY DEF CompletedIsWhole
<1>1. todo = {} /\ (outcome = "completed" <=> kept = Selected /\ ~truncated)
  BY DEF IInv, Verdict
<1>2. truncated <=> included # Text(kept \ todo)
  BY DEF IInv, Assembled
<1>3. Text(Selected \ todo) = Sendable
  BY <1>1 DEF Text, Sendable
<1>4. QED
  BY <1>1, <1>2, <1>3

\* Some naturals have a least one.
LEMMA Smallest ==
  ASSUME NEW N, N \subseteq Nat, N # {}
  PROVE  \E n \in N : \A k \in N : n <= k
<1> DEFINE R == OpToRel(<, Nat)
<1>1. PICK n \in N : \A k \in N : ~(<<k, n>> \in R)
  <2>1. IsWellFoundedOn(R, Nat)
    BY NatLessThanWellFounded
  <2> HIDE DEF R
  <2>2. QED
    BY <2>1, WFMin
<1>2. ASSUME NEW k \in N, k < n PROVE FALSE
  <2>1. <<k, n>> \in R
    BY <1>2 DEF OpToRel
  <2>2. QED
    BY <1>1, <2>1
<1>3. QED
  BY <1>2

\* Taking the larger factor n more than once more.
LEMMA OnceMore ==
  ASSUME NEW a \in Nat, NEW b \in Nat, NEW n \in Nat, a < b
  PROVE  a * n + n <= b * n
<1>1. PICK c \in Nat : b = a + 1 + c
  <2>1. b - a - 1 \in Nat /\ b = a + 1 + (b - a - 1)
    OBVIOUS
  <2>2. QED
    BY <2>1
<1>2. b * n = a * n + n + c * n /\ c * n \in Nat /\ a * n \in Nat
  BY <1>1
<1>3. QED
  BY <1>2

\* A larger set of files has, next to those it shares with the ones kept, more
\* files of the ones left out, each no smaller than any kept: it has at least one
\* such file more in lines, and for that there is no room.
LEMMA Fullest == IInv => MostFilesKept
<1> SUFFICES ASSUME IInv, phase \in {"decide", "assemble", "done"},
                    NEW F \in SUBSET Selected, LinesOf(F) <= MaxLines,
                    ~(Cardinality(F) <= Cardinality(kept))
             PROVE  FALSE
  BY DEF MostFilesKept
<1> DEFINE ours   == kept \ F
           theirs == F \ kept
           both   == F \cap kept
<1>1. /\ pr \in Seq(FileType) /\ kept \subseteq Selected
      /\ LeftOut = Selected \ kept /\ LinesOf(kept) <= MaxLines
      /\ \A j \in LeftOut : /\ LinesOf(kept) + pr[j].lines > MaxLines
                            /\ \A i \in kept : pr[i].lines <= pr[j].lines
  BY DEF IInv, Typed, Greedy, LeftOut
<1>2. ASSUME NEW A \in SUBSET Selected
      PROVE  /\ Sized(lines, A) /\ LinesOf(A) = Weight(lines, A) /\ Weight(lines, A) \in Nat
             /\ IsFiniteSet(A) /\ Cardinality(A) \in Nat
             /\ \A i \in A : lines[i] = pr[i].lines /\ lines[i] \in Nat
  <2>1. A \in SUBSET (DOMAIN pr)
    BY <1>1, SelectedFiles
  <2>2. Sized(lines, A) /\ LinesOf(A) = Weight(lines, A)
    BY <1>1, <2>1, Sums
  <2>3. QED
    BY <2>1, <2>2, FiniteUnits, FS_CardinalityType DEF Sized, lines
<1>3. /\ ours \in SUBSET Selected /\ theirs \in SUBSET Selected /\ both \in SUBSET Selected
      /\ kept \in SUBSET Selected /\ both \cap ours = {} /\ both \cap theirs = {}
      /\ both \union ours = kept /\ both \union theirs = F
  BY <1>1
<1> HIDE DEF ours, theirs, both
<1>4. /\ Weight(lines, kept) = Weight(lines, both) + Weight(lines, ours)
      /\ Weight(lines, F) = Weight(lines, both) + Weight(lines, theirs)
  <2>1. Weight(lines, both \union ours) = Weight(lines, both) + Weight(lines, ours)
    BY <1>2, <1>3, WeightOfUnion
  <2>2. Weight(lines, both \union theirs) = Weight(lines, both) + Weight(lines, theirs)
    BY <1>2, <1>3, WeightOfUnion
  <2>3. QED
    BY <1>3, <2>1, <2>2
<1>5. Cardinality(ours) < Cardinality(theirs)
  <2>1. /\ Cardinality(both \union ours)
             = Cardinality(both) + Cardinality(ours) - Cardinality({})
        /\ Cardinality(both \union theirs)
             = Cardinality(both) + Cardinality(theirs) - Cardinality({})
    BY <1>2, <1>3, FS_Union
  <2>2. Cardinality({}) = 0
    BY FS_EmptySet
  <2>3. /\ Cardinality(kept) = Cardinality(both) + Cardinality(ours) - 0
        /\ Cardinality(F) = Cardinality(both) + Cardinality(theirs) - 0
    BY <1>3, <2>1, <2>2
  <2>4. /\ Cardinality(both) \in Nat /\ Cardinality(ours) \in Nat
        /\ Cardinality(theirs) \in Nat
    BY <1>2, <1>3
  <2>5. QED
    BY <2>3, <2>4
<1>6. PICK m \in theirs : \A j \in theirs : lines[m] <= lines[j]
  <2> DEFINE sizes == {lines[j] : j \in theirs}
  <2>1. theirs # {}
    <3>1. theirs = {} => Cardinality(theirs) = Cardinality({})
      BY Zenon
    <3>2. QED
      BY <1>2, <1>3, <1>5, <3>1, FS_EmptySet
  <2>2. sizes \subseteq Nat /\ sizes # {}
    BY <1>2, <1>3, <2>1
  <2>3. PICK n \in sizes : \A k \in sizes : n <= k
    <3> HIDE DEF sizes
    <3>1. QED
      BY <2>2, Smallest
  <2>4. QED
    BY <2>3
<1>7. m \in LeftOut /\ m \in Selected /\ lines[m] = pr[m].lines /\ lines[m] \in Nat
  BY <1>1, <1>2, <1>3 DEF theirs
<1>8. Weight(lines, ours) <= Cardinality(ours) * lines[m]
  <2>1. \A i \in ours : lines[i] <= lines[m]
    BY <1>1, <1>2, <1>3, <1>7 DEF ours
  <2>2. QED
    BY <1>2, <1>3, <1>7, <2>1, WeightAtMost
<1>9. Cardinality(theirs) * lines[m] <= Weight(lines, theirs)
  <2>1. \A i \in theirs : lines[i] >= lines[m]
    BY <1>2, <1>3, <1>6, <1>7
  <2>2. QED
    BY <1>2, <1>3, <1>7, <2>1, WeightAtLeast
<1>10. Cardinality(ours) * lines[m] + lines[m] <= Cardinality(theirs) * lines[m]
  <2>1. Cardinality(ours) \in Nat /\ Cardinality(theirs) \in Nat
    BY <1>2, <1>3
  <2>2. QED
    BY <1>5, <1>7, <2>1, OnceMore
<1>11. Weight(lines, kept) + lines[m] <= Weight(lines, F)
  <2>1. /\ Weight(lines, both) \in Nat /\ Weight(lines, ours) \in Nat
        /\ Weight(lines, theirs) \in Nat
        /\ Cardinality(ours) * lines[m] \in Nat /\ Cardinality(theirs) * lines[m] \in Nat
    BY <1>2, <1>3, <1>7
  <2>2. QED
    BY <1>4, <1>7, <1>8, <1>9, <1>10, <2>1
<1>12. Weight(lines, kept) + lines[m] > MaxLines
  BY <1>1, <1>2, <1>3, <1>7
<1>13. QED
  BY <1>2, <1>3, <1>7, <1>11, <1>12

\* Nothing is skipped that could have been reviewed, and nothing else is.
SkippedIsHopeless ==
  phase = "done" =>
    ((outcome = "skipped") <=> (\A i \in Selected : pr[i].lines > MaxLines))

LEMMA Hopeless == IInv => SkippedIsHopeless
<1> SUFFICES ASSUME IInv, phase = "done" PROVE SkippedIsHopeless
  BY DEF SkippedIsHopeless
<1>1. /\ pr \in Seq(FileType) /\ kept \subseteq Selected /\ LeftOut = Selected \ kept
      /\ (outcome = "skipped") <=> kept = {}
      /\ LinesOf(kept) <= MaxLines
      /\ \A j \in LeftOut : LinesOf(kept) + pr[j].lines > MaxLines
  BY DEF IInv, Typed, Verdict, Greedy, LeftOut
<1>2. LinesOf({}) = 0 /\ \A i \in Selected : pr[i].lines \in Nat
  BY <1>1, LinesAdd, SelectedFiles
<1>3. CASE kept = {}
  <2>1. LinesOf(kept) = 0
    <3>1. LinesOf(kept) = LinesOf({})
      BY <1>3, Zenon
    <3>2. QED
      BY <1>2, <3>1
  <2>2. QED
    BY <1>1, <1>2, <1>3, <2>1 DEF SkippedIsHopeless
<1>4. CASE kept # {}
  <2>1. PICK i \in kept : TRUE
    BY <1>4
  <2>2. LinesOf(kept \ {i}) \in Nat /\ LinesOf(kept) = LinesOf(kept \ {i}) + pr[i].lines
    <3>1. kept \ {i} \in SUBSET Selected /\ i \in Selected \ (kept \ {i})
      BY <1>1, <2>1
    <3>2. LinesOf((kept \ {i}) \union {i}) = LinesOf(kept \ {i}) + pr[i].lines
      BY <1>1, <3>1, LinesAdd
    <3>3. (kept \ {i}) \union {i} = kept
      BY <2>1
    <3>4. QED
      BY <1>1, <3>1, <3>2, <3>3, LinesAdd
  <2>3. i \in Selected /\ pr[i].lines <= MaxLines
    BY <1>1, <1>2, <2>1, <2>2
  <2>4. QED
    BY <1>1, <1>2, <1>4, <2>3 DEF SkippedIsHopeless
<1>5. QED
  BY <1>3, <1>4

-----------------------------------------------------------------------------
(* The loops come to their end.                                             *)

\* The turns the two loops and the steps around them have left, at most.
TurnsLeft ==
  CASE phase = "select"   -> 2 * Cardinality(Selected) + 4
    [] phase = "trim"     -> Cardinality(todo) + Cardinality(Selected) + 3
    [] phase = "decide"   -> Cardinality(Selected) + 2
    [] phase = "assemble" -> Cardinality(todo) + 1
    [] phase = "done"     -> 0

Advances == TurnsLeft \in Nat /\ TurnsLeft' \in Nat /\ TurnsLeft' < TurnsLeft

LEMMA Sizes ==
  ASSUME pr \in Seq(FileType), NEW A \in SUBSET Selected
  PROVE  /\ Cardinality(A) \in Nat /\ Cardinality(Selected) \in Nat
         /\ Cardinality(A) <= Cardinality(Selected)
         /\ \A i \in A : Cardinality(A \ {i}) = Cardinality(A) - 1
<1>1. IsFiniteSet(Selected) /\ IsFiniteSet(A)
  BY SelectedFiles, FS_Subset
<1>2. Cardinality(A) <= Cardinality(Selected)
  BY <1>1, FS_Subset
<1>3. \A i \in A : Cardinality(A \ {i}) = Cardinality(A) - 1
  BY <1>1, FS_RemoveElement
<1>4. QED
  BY <1>1, <1>2, <1>3, FS_CardinalityType

\* Every step takes at least one of them.
LEMMA TurnTaken == IInv /\ Next => Advances
<1> SUFFICES ASSUME IInv, Next PROVE Advances
  OBVIOUS
<1> USE DEF Advances
<1> DEFINE n == Cardinality(Selected)
           m == Cardinality(todo)
<1>1. pr \in Seq(FileType) /\ todo \in SUBSET Selected /\ kept \in SUBSET Selected
  BY DEF IInv, Typed
<1>2. /\ n \in Nat /\ m \in Nat /\ Cardinality(kept) \in Nat /\ Cardinality(kept) <= n
      /\ \A i \in todo : Cardinality(todo \ {i}) = m - 1
  BY <1>1, Sizes
<1>3. pr' = pr
  BY DEF Next, Select, Trim, Decide, Assemble, Conclude
<1>4. n' = n
  BY <1>3, ListStays
<1>5. m' = Cardinality(todo')
  OBVIOUS
<1> HIDE DEF n, m
<1>6. TurnsLeft =
        CASE phase = "select" -> 2 * n + 4 [] phase = "trim" -> m + n + 3
          [] phase = "decide" -> n + 2 [] phase = "assemble" -> m + 1 [] phase = "done" -> 0
  BY DEF TurnsLeft, n, m
<1>7. TurnsLeft' =
        CASE phase' = "select" -> 2 * n + 4 [] phase' = "trim" -> m' + n + 3
          [] phase' = "decide" -> n + 2 [] phase' = "assemble" -> m' + 1
          [] phase' = "done" -> 0
  <2>1. TurnsLeft' =
          CASE phase' = "select" -> 2 * n' + 4 [] phase' = "trim" -> m' + n' + 3
            [] phase' = "decide" -> n' + 2 [] phase' = "assemble" -> m' + 1
            [] phase' = "done" -> 0
    BY DEF TurnsLeft, n, m
  <2>2. QED
    BY <1>4, <2>1
<1>8. CASE Select
  <2>1. TurnsLeft = 2 * n + 4
    BY <1>6, <1>8 DEF Select
  <2>2. CASE phase' = "trim"
    <3>1. todo' = Selected
      BY <1>8, <2>2 DEF Select
    <3>2. m' = n
      BY <1>5, <3>1, Zenon DEF n
    <3>3. TurnsLeft' = n + n + 3
      BY <1>7, <2>2, <3>2
    <3>4. QED
      BY <1>2, <2>1, <3>3
  <2>3. CASE phase' = "decide"
    <3>1. TurnsLeft' = n + 2
      BY <1>7, <2>3
    <3>2. QED
      BY <1>2, <2>1, <3>1
  <2>4. QED
    BY <1>8, <2>2, <2>3 DEF Select
<1>9. ASSUME NEW i \in todo, Trim(i) PROVE Advances
  <2>1. phase = "trim" /\ phase' \in {"trim", "decide"} /\ m' = m - 1 /\ m' \in Nat
    <3>1. m - 1 \in Nat
      BY <1>1, <1>2, Sizes, FS_EmptySet, FS_CardinalityType, SelectedFiles, FS_Subset DEF m
    <3>2. QED
      BY <1>2, <1>5, <1>9, <3>1 DEF Trim
  <2>2. QED
    BY <1>2, <1>6, <1>7, <2>1
<1>10. CASE Decide
  <2>1. TurnsLeft = n + 2
    BY <1>6, <1>10 DEF Decide
  <2>2. CASE phase' = "done"
    <3>1. TurnsLeft' = 0
      BY <1>7, <2>2
    <3>2. QED
      BY <1>2, <2>1, <3>1
  <2>3. CASE phase' = "assemble"
    <3>1. todo' = kept
      BY <1>10, <2>3 DEF Decide
    <3>2. m' = Cardinality(kept)
      BY <1>5, <3>1, Zenon
    <3>3. TurnsLeft' = Cardinality(kept) + 1
      BY <1>7, <2>3, <3>2
    <3>4. QED
      BY <1>2, <2>1, <3>3
  <2>4. QED
    BY <1>10, <2>2, <2>3 DEF Decide
<1>11. ASSUME NEW i \in todo, Assemble(i) PROVE Advances
  <2>1. phase = "assemble" /\ phase' = "assemble" /\ m' = m - 1 /\ m' \in Nat
    <3>1. m - 1 \in Nat
      BY <1>1, <1>2, Sizes, FS_EmptySet, FS_CardinalityType, SelectedFiles, FS_Subset DEF m
    <3>2. QED
      BY <1>2, <1>5, <1>11, <3>1 DEF Assemble
  <2>2. QED
    BY <1>2, <1>6, <1>7, <2>1
<1>12. CASE Conclude
  <2>1. phase = "assemble" /\ phase' = "done"
    BY <1>12 DEF Conclude
  <2>2. QED
    BY <1>2, <1>6, <1>7, <2>1
<1>13. QED
  BY <1>8, <1>9, <1>10, <1>11, <1>12 DEF Next

-----------------------------------------------------------------------------
(* The theorems.                                                            *)

\* Every reachable state satisfies the invariant.
THEOREM Invariant == Spec => []IInv
<1>1. Init => IInv
  BY Start, FilesAssumption DEF Init, Fresh
<1>2. IInv /\ [Next]_vars => IInv'
  BY Keep
<1>3. QED
  BY <1>1, <1>2, PTL DEF Spec

\* Whatever the files, the lines under review and the characters sent stay within
\* their budgets (_trim_to_budget and build_context).
THEOREM BudgetsHold == Spec => []WithinBudgets
BY Invariant, Budgets, PTL

\* _trim_to_budget, which takes the smallest files first and goes on after one that
\* does not fit, keeps as many files as any choice within the budget could.
THEOREM TrimIsOptimal == Spec => []MostFilesKept
BY Invariant, Fullest, PTL

\* A review is completed exactly if no budget left anything out of it.
THEOREM CompletedLeavesNothingOut == Spec => []CompletedIsWhole
BY Invariant, Whole, PTL

\* A review is skipped exactly if none of its files fits the line budget.
THEOREM SkippedHasNothingToReview == Spec => []SkippedIsHopeless
BY Invariant, Hopeless, PTL

\* No step of the budgets is taken for nothing: each leaves fewer turns to take, so
\* that both loops end and a verdict is reached after 2n + 4 of them at the most, n
\* the number of files selected.
THEOREM LoopsEnd == Spec => [][Advances]_vars
<1>1. IInv /\ [Next]_vars => [Advances]_vars
  BY TurnTaken
<1>2. QED
  BY <1>1, Invariant, PTL DEF Spec

=============================================================================
