----------------------------- MODULE Tree_proofs -----------------------------
(***************************************************************************)
(* Proofs about Tree, for any directories, files, patterns and bounds:     *)
(* what the prefix and relative-path operators compute, that rows named by *)
(* a directory ID and a relative name keep standing for their file across  *)
(* consolidation, and, from there, what restore, status and add promise.   *)
(*                                                                         *)
(* IInv is the inductive invariant of the rows, AddOK that of an add.      *)
(***************************************************************************)
EXTENDS Tree, SequenceTheorems, WellFoundedInduction, TLAPS

-----------------------------------------------------------------------------
(* Paths                                                                   *)

Path == Seq(STRING)

\* d is p or a directory above it.
Holds(d, p) == Len(d) <= Len(p) /\ \A i \in 1..Len(d) : d[i] = p[i]

\* The prefix test compares the names one by one.
LEMMA InsideIs ==
    ASSUME NEW s \in Path, NEW t \in Path
    PROVE  Inside(s, t) <=> Holds(s, t) /\ Len(s) < Len(t)
<1> USE DEF Path
<1>1. Len(s) \in Nat /\ Len(t) \in Nat
  BY LenProperties
<1>2. SubSeq(s, 1, Len(s)) = s
  BY SubSeqFull
<1>3. ASSUME Len(s) <= Len(t)
      PROVE  /\ SubSeq(t, 1, Len(s)) \in Path
             /\ Len(SubSeq(t, 1, Len(s))) = Len(s)
             /\ \A i \in 1..Len(s) : SubSeq(t, 1, Len(s))[i] = t[i]
  <2>1. \A i \in 1..Len(s) : t[i] \in STRING
    BY <1>1, <1>3, ElementOfSeq
  <2>2. /\ SubSeq(t, 1, Len(s)) \in Seq(STRING)
        /\ Len(SubSeq(t, 1, Len(s))) = IF 1 <= Len(s) THEN Len(s) - 1 + 1 ELSE 0
        /\ \A i \in 1..(Len(s) - 1 + 1) : SubSeq(t, 1, Len(s))[i] = t[1 + i - 1]
    BY <1>1, <2>1, SubSeqProperties
  <2> QED BY <1>1, <2>2
<1>4. ASSUME Len(s) <= Len(t)
      PROVE  SubSeq(s, 1, Len(s)) = SubSeq(t, 1, Len(s)) <=> Holds(s, t)
  BY <1>1, <1>2, <1>3, <1>4, SeqEqual DEF Holds
<1>5. ASSUME Holds(s, t)
      PROVE  s # t <=> Len(s) < Len(t)
  BY <1>1, <1>5, SeqEqual DEF Holds
<1> QED BY <1>1, <1>4, <1>5 DEF Inside, IsStrictPrefix, IsPrefix, Holds

\* The directories of the database that hold a path.
LEMMA HoldsIs ==
    ASSUME NEW s \in Path, NEW t \in Path
    PROVE  s = t \/ Inside(s, t) <=> Holds(s, t)
<1>1. Len(s) \in Nat /\ Len(t) \in Nat
  BY LenProperties DEF Path
<1>2. Holds(s, t) /\ ~(Len(s) < Len(t)) => s = t
  BY <1>1, SeqEqual DEF Path, Holds
<1>3. s = t => Holds(s, t)
  BY <1>1 DEF Holds
<1> QED BY <1>1, <1>2, <1>3, InsideIs DEF Holds

\* Of two directories that hold one path the shorter one holds the other.
LEMMA Chain ==
    ASSUME NEW s \in Path, NEW t \in Path, NEW u \in Path,
           Holds(s, u), Holds(t, u), Len(s) <= Len(t)
    PROVE  Holds(s, t)
<1>1. Len(s) \in Nat /\ Len(t) \in Nat
  BY LenProperties DEF Path
<1> QED BY <1>1 DEF Holds

LEMMA HoldsTransitive ==
    ASSUME NEW s \in Path, NEW t \in Path, NEW u \in Path, Holds(s, t), Holds(t, u)
    PROVE  Holds(s, u)
<1>1. Len(s) \in Nat /\ Len(t) \in Nat /\ Len(u) \in Nat
  BY LenProperties DEF Path
<1> QED BY <1>1 DEF Holds

\* What the relative name is, and that it loses nothing.
LEMMA RelIs ==
    ASSUME NEW s \in Path, NEW t \in Path, Holds(s, t)
    PROVE  /\ Rel(s, t) \in Path
           /\ Len(Rel(s, t)) = Len(t) - Len(s)
           /\ \A i \in 1..(Len(t) - Len(s)) : Rel(s, t)[i] = t[Len(s) + i]
           /\ s \o Rel(s, t) = t
<1> USE DEF Path
<1>1. Len(s) \in Nat /\ Len(t) \in Nat /\ Len(s) <= Len(t)
  BY LenProperties DEF Holds
<1>2. \A i \in (Len(s) + 1)..Len(t) : t[i] \in STRING
  BY <1>1, ElementOfSeq
<1>3. /\ Rel(s, t) \in Path
      /\ Len(Rel(s, t)) = IF Len(s) + 1 <= Len(t) THEN Len(t) - (Len(s) + 1) + 1 ELSE 0
      /\ \A i \in 1..(Len(t) - (Len(s) + 1) + 1) : Rel(s, t)[i] = t[Len(s) + 1 + i - 1]
  BY <1>1, <1>2, SubSeqProperties DEF Rel
<1>4. /\ Len(Rel(s, t)) = Len(t) - Len(s)
      /\ \A i \in 1..(Len(t) - Len(s)) : Rel(s, t)[i] = t[Len(s) + i]
  BY <1>1, <1>3
<1>5. /\ s \o Rel(s, t) \in Path
      /\ Len(s \o Rel(s, t)) = Len(s) + Len(Rel(s, t))
      /\ \A i \in 1..(Len(s) + Len(Rel(s, t))) :
           (s \o Rel(s, t))[i] = IF i <= Len(s) THEN s[i] ELSE Rel(s, t)[i - Len(s)]
  BY <1>3, ConcatProperties
<1>6. ASSUME NEW i \in 1..Len(t)
      PROVE  (s \o Rel(s, t))[i] = t[i]
  <2>1. CASE i <= Len(s)
    BY <1>1, <1>4, <1>5, <2>1 DEF Holds
  <2>2. CASE ~(i <= Len(s))
    BY <1>1, <1>4, <1>5, <2>2
  <2> QED BY <2>1, <2>2
<1>7. Len(s \o Rel(s, t)) = Len(t)
  BY <1>1, <1>4, <1>5
<1>8. s \o Rel(s, t) = t
  BY <1>5, <1>6, <1>7, SeqEqual
<1> QED BY <1>3, <1>4, <1>8

\* Two files of a directory have different names relative to it.
LEMMA RelInjective ==
    ASSUME NEW s \in Path, NEW t \in Path, NEW u \in Path,
           Holds(s, t), Holds(s, u), Rel(s, t) = Rel(s, u)
    PROVE  t = u
<1>1. s \o Rel(s, t) = t
  BY RelIs
<1>2. s \o Rel(s, u) = u
  BY RelIs
<1> QED BY <1>1, <1>2

\* Names relative to two directories, one in the other, join.
LEMMA RelJoins ==
    ASSUME NEW s \in Path, NEW t \in Path, NEW u \in Path, Holds(s, t), Holds(t, u)
    PROVE  Rel(s, t) \o Rel(t, u) = Rel(s, u)
<1> USE DEF Path
<1>1. Holds(s, u)
  BY HoldsTransitive
<1>2. /\ Rel(s, t) \in Path /\ Rel(t, u) \in Path /\ Rel(s, u) \in Path
      /\ s \o Rel(s, t) = t /\ t \o Rel(t, u) = u /\ s \o Rel(s, u) = u
  BY <1>1, RelIs
<1>3. (s \o Rel(s, t)) \o Rel(t, u) = s \o (Rel(s, t) \o Rel(t, u))
  <2>1. \A a, b, c \in Seq(STRING) : (a \o b) \o c = a \o (b \o c)
    BY ConcatAssociative
  <2> QED BY <1>2, <2>1
<1>4. s \o (Rel(s, t) \o Rel(t, u)) = s \o Rel(s, u)
  BY <1>2, <1>3
<1>5. Rel(s, t) \o Rel(t, u) \in Path
  BY <1>2, ConcatProperties
<1> QED BY <1>2, <1>4, <1>5, ConcatSimplifications

\* The last name of a file is the same from every directory above it.
LEMMA LastOfRel ==
    ASSUME NEW s \in Path, NEW t \in Path, Inside(s, t)
    PROVE  Last(Rel(s, t)) = Last(t)
<1>1. Len(s) \in Nat /\ Len(t) \in Nat
  BY LenProperties DEF Path
<1>2. Holds(s, t) /\ Len(s) < Len(t)
  BY InsideIs
<1>3. Len(t) - Len(s) \in 1..(Len(t) - Len(s))
  BY <1>1, <1>2
<1>4. Rel(s, t)[Len(t) - Len(s)] = t[Len(s) + (Len(t) - Len(s))]
  BY <1>2, <1>3, RelIs
<1> QED BY <1>1, <1>2, <1>4, RelIs DEF Last

\* Below a directory that holds both, paths nest as their relative names do.
LEMMA InsideOfRel ==
    ASSUME NEW s \in Path, NEW t \in Path, NEW u \in Path, Holds(s, t), Holds(s, u)
    PROVE  Inside(Rel(s, t), Rel(s, u)) <=> Inside(t, u)
<1>1. Len(s) \in Nat /\ Len(t) \in Nat /\ Len(u) \in Nat
  BY LenProperties DEF Path
<1>2. /\ Rel(s, t) \in Path /\ Rel(s, u) \in Path
      /\ Len(Rel(s, t)) = Len(t) - Len(s) /\ Len(Rel(s, u)) = Len(u) - Len(s)
      /\ \A i \in 1..(Len(t) - Len(s)) : Rel(s, t)[i] = t[Len(s) + i]
      /\ \A i \in 1..(Len(u) - Len(s)) : Rel(s, u)[i] = u[Len(s) + i]
  BY RelIs
<1>3. ASSUME Len(t) < Len(u), Holds(t, u)
      PROVE  \A i \in 1..(Len(t) - Len(s)) : Rel(s, t)[i] = Rel(s, u)[i]
  BY <1>1, <1>2, <1>3 DEF Holds
<1>4. ASSUME Len(t) < Len(u), \A i \in 1..(Len(t) - Len(s)) : Rel(s, t)[i] = Rel(s, u)[i]
      PROVE  Holds(t, u)
  <2>1. ASSUME NEW i \in 1..Len(t) PROVE t[i] = u[i]
    <3>1. CASE i <= Len(s)
      BY <1>1, <3>1 DEF Holds
    <3>2. CASE ~(i <= Len(s))
      <4>1. i - Len(s) \in 1..(Len(t) - Len(s)) /\ i - Len(s) \in 1..(Len(u) - Len(s))
        BY <1>1, <1>4, <3>2
      <4>2. t[Len(s) + (i - Len(s))] = u[Len(s) + (i - Len(s))]
        BY <1>2, <1>4, <4>1
      <4> QED BY <1>1, <4>2
    <3> QED BY <3>1, <3>2
  <2> QED BY <1>1, <1>4, <2>1 DEF Holds
<1> QED BY <1>1, <1>2, <1>3, <1>4, InsideIs DEF Holds

\* The files of a directory that are not in one below it.
LEMMA FrontIs ==
    ASSUME NEW s \in Path, NEW t \in Path, t # << >>
    PROVE  Front(t) = s <=> Inside(s, t) /\ Len(t) = Len(s) + 1
<1> USE DEF Path
<1>1. Len(s) \in Nat /\ Len(t) \in Nat \ {0}
  BY LenProperties, EmptySeq
<1>2. \A i \in 1..(Len(t) - 1) : t[i] \in STRING
  BY <1>1, ElementOfSeq
<1>3. /\ Front(t) \in Path
      /\ Len(Front(t)) = IF 1 <= Len(t) - 1 THEN (Len(t) - 1) - 1 + 1 ELSE 0
      /\ \A i \in 1..((Len(t) - 1) - 1 + 1) : Front(t)[i] = t[1 + i - 1]
  BY <1>1, <1>2, SubSeqProperties DEF Front
<1>4. /\ Len(Front(t)) = Len(t) - 1
      /\ \A i \in 1..(Len(t) - 1) : Front(t)[i] = t[i]
  <2>1. \A n \in Nat \ {0} : /\ (n - 1) - 1 + 1 = n - 1
                              /\ (IF 1 <= n - 1 THEN (n - 1) - 1 + 1 ELSE 0) = n - 1
    OBVIOUS
  <2>2. \A i \in 1..(Len(t) - 1) : 1 + i - 1 = i
    BY <1>1
  <2> QED BY <1>1, <1>3, <2>1, <2>2
<1>5. Inside(s, t) /\ Len(t) = Len(s) + 1 => Front(t) = s
  BY <1>1, <1>3, <1>4, InsideIs, SeqEqual DEF Holds
<1>6. Front(t) = s => Inside(s, t) /\ Len(t) = Len(s) + 1
  BY <1>1, <1>4, InsideIs DEF Holds
<1> QED BY <1>5, <1>6

\* Paths under the prefix test are the tree that module Metadata assumes of
\* its Above: a strict order in which the directories above one path are a
\* chain.
THEOREM PathsAreATree ==
    /\ \A d \in Path : ~Inside(d, d)
    /\ \A d, e, p \in Path : Inside(d, e) /\ Inside(e, p) => Inside(d, p)
    /\ \A d, e, p \in Path : Inside(d, p) /\ Inside(e, p) =>
          d = e \/ Inside(d, e) \/ Inside(e, d)
<1>1. \A d \in Path : Len(d) \in Nat
  BY LenProperties DEF Path
<1>2. ASSUME NEW d \in Path PROVE ~Inside(d, d)
  BY <1>1, InsideIs
<1>3. ASSUME NEW d \in Path, NEW e \in Path, NEW p \in Path, Inside(d, e), Inside(e, p)
      PROVE  Inside(d, p)
  <2>1. Holds(d, e) /\ Holds(e, p) /\ Len(d) < Len(e) /\ Len(e) < Len(p)
    BY <1>3, InsideIs
  <2>2. Holds(d, p)
    BY <2>1, HoldsTransitive
  <2> QED BY <1>1, <2>1, <2>2, InsideIs
<1>4. ASSUME NEW d \in Path, NEW e \in Path, NEW p \in Path, Inside(d, p), Inside(e, p)
      PROVE  d = e \/ Inside(d, e) \/ Inside(e, d)
  <2>1. Holds(d, p) /\ Holds(e, p)
    BY <1>4, InsideIs
  <2>2. CASE Len(d) <= Len(e)
    BY <2>1, <2>2, Chain, HoldsIs
  <2>3. CASE Len(e) <= Len(d)
    BY <2>1, <2>3, Chain, HoldsIs
  <2> QED BY <1>1, <2>2, <2>3
<1> QED BY <1>2, <1>3, <1>4

-----------------------------------------------------------------------------
(* Collect: induction on the number of files walked, as the absence of a   *)
(* least counterexample.                                                   *)

LEMMA LeastNat ==
    ASSUME NEW T, T \subseteq Nat, T # {}
    PROVE  \E x \in T : \A y \in T : x <= y
<1>1. IsWellFoundedOn(OpToRel(<, Nat), Nat)
  BY NatLessThanWellFounded
<1>2. PICK x \in T : \A y \in T : <<y, x>> \notin OpToRel(<, Nat)
  BY <1>1, WFMin
<1>3. \A y \in T : ~(y < x)
  BY <1>2 DEF OpToRel
<1> QED BY <1>3

\* What the callback has collected after file i, given g[i - 1] before it.
After(found, g, i) ==
    IF i = 0 THEN << >>
    ELSE IF Walk[i] \in found THEN Append(g[i - 1], Walk[i]) ELSE g[i - 1]

LEMMA WalkIsFiles ==
    /\ Len(Walk) \in Nat
    /\ \A i \in 1..Len(Walk) : Walk[i] \in Files /\ Walk[i] \in Path /\ Walk[i] # << >>
    /\ Files = {Walk[i] : i \in 1..Len(Walk)}
    /\ Files \subseteq Path
    /\ << >> \notin Files
<1>1. Walk \in Seq(Seq(STRING) \ {<< >>})
  BY TreeAssumption
<1>2. Len(Walk) \in Nat /\ DOMAIN Walk = 1..Len(Walk)
  BY <1>1, LenProperties
<1>3. Files = {Walk[i] : i \in 1..Len(Walk)}
  BY <1>2 DEF Files, ToSet
<1>4. \A i \in 1..Len(Walk) : Walk[i] \in Seq(STRING) \ {<< >>}
  BY <1>1, ElementOfSeq
<1> QED BY <1>2, <1>3, <1>4 DEF Path

\* The recursion has a solution.
LEMMA CollectExists ==
    ASSUME NEW found
    PROVE  \E g : g = [i \in 0..Len(Walk) |-> After(found, g, i)]
<1> DEFINE Solved(n) == \E g : g = [i \in 0..n |-> After(found, g, i)]
           T == {n \in 0..Len(Walk) : ~Solved(n)}
<1>1. Len(Walk) \in Nat
  BY WalkIsFiles
<1>2. SUFFICES T = {}
  BY <1>1
<1>3. SUFFICES ASSUME T # {} PROVE FALSE
  OBVIOUS
<1>4. PICK m \in T : \A n \in T : m <= n
  <2>1. T \subseteq Nat
    BY <1>1
  <2> HIDE DEF T
  <2> QED BY <1>3, <2>1, LeastNat
<1>5. m \in 0..Len(Walk) /\ ~Solved(m)
  BY <1>4
<1>6. CASE m = 0
  <2> DEFINE g == [i \in 0..0 |-> << >>]
  <2>1. g = [i \in 0..m |-> After(found, g, i)]
    BY <1>6 DEF After
  <2> QED BY <1>5, <2>1
<1>7. CASE m # 0
  <2>1. m - 1 \in 0..Len(Walk) /\ m - 1 \notin T
    BY <1>1, <1>4, <1>5, <1>7
  <2>2. Solved(m - 1)
    BY <2>1
  <2>3. PICK g : g = [i \in 0..(m - 1) |-> After(found, g, i)]
    BY <2>2
  <2> DEFINE h == [i \in 0..m |-> After(found, g, i)]
  <2>4. ASSUME NEW i \in 0..m PROVE After(found, g, i) = After(found, h, i)
    <3>1. CASE i = 0
      BY <3>1 DEF After
    <3>2. CASE i # 0
      <4>1. i - 1 \in 0..(m - 1) /\ i - 1 \in 0..m
        BY <1>1, <1>5, <3>2
      <4>2. h[i - 1] = g[i - 1]
        BY <2>3, <4>1
      <4> QED BY <3>2, <4>2 DEF After
    <3> QED BY <3>1, <3>2
  <2>5. h = [i \in 0..m |-> After(found, h, i)]
    BY <2>4
  <2> QED BY <1>5, <2>5
<1> QED BY <1>6, <1>7

LEMMA SetOfAppend ==
    ASSUME NEW S, NEW s \in Seq(S), NEW x \in S
    PROVE  ToSet(Append(s, x)) = ToSet(s) \cup {x}
<1>1. /\ Len(s) \in Nat /\ DOMAIN s = 1..Len(s)
      /\ DOMAIN Append(s, x) = 1..(Len(s) + 1)
      /\ \A i \in 1..Len(s) : Append(s, x)[i] = s[i]
      /\ Append(s, x)[Len(s) + 1] = x
  BY AppendProperties, LenProperties
<1> QED BY <1>1 DEF ToSet

\* The walk collects the files it is to find, all of them and nothing else.
LEMMA CollectIs ==
    ASSUME NEW found
    PROVE  /\ Collect(found) \in Seq(Files)
           /\ ToSet(Collect(found)) = Files \cap found
<1> DEFINE result == CHOOSE g : g = [i \in 0..Len(Walk) |-> After(found, g, i)]
<1>1. result = [i \in 0..Len(Walk) |-> After(found, result, i)]
  BY CollectExists
<1>2. Collect(found) = result[Len(Walk)]
  BY DEF Collect, After
<1> HIDE DEF result
<1> DEFINE Right(n) == /\ result[n] \in Seq(Files)
                       /\ ToSet(result[n]) = {Walk[j] : j \in 1..n} \cap found
           T == {n \in 0..Len(Walk) : ~Right(n)}
<1>3. Len(Walk) \in Nat
  BY WalkIsFiles
<1>4. T = {}
  <2> SUFFICES ASSUME T # {} PROVE FALSE
    OBVIOUS
  <2>1. PICK m \in T : \A n \in T : m <= n
    <3>1. T \subseteq Nat
      BY <1>3
    <3> HIDE DEF T
    <3> QED BY <3>1, LeastNat
  <2>2. m \in 0..Len(Walk) /\ ~Right(m)
    BY <2>1
  <2>3. CASE m = 0
    <3>1. result[m] = << >>
      BY <1>1, <2>2, <2>3 DEF After
    <3>2. << >> \in Seq(Files) /\ ToSet(<< >>) = {}
      BY DEF ToSet
    <3>3. {Walk[j] : j \in 1..m} = {}
      BY <2>3
    <3> QED BY <2>2, <3>1, <3>2, <3>3
  <2>4. CASE m # 0
    <3>1. m \in 1..Len(Walk) /\ m - 1 \in 0..Len(Walk) /\ ~(m <= m - 1)
      BY <1>3, <2>2, <2>4
    <3>2. Right(m - 1)
      <4> HIDE DEF Right
      <4> QED BY <2>1, <3>1
    <3> DEFINE old == result[m - 1]
               new == result[m]
    <3>3. /\ old \in Seq(Files)
          /\ ToSet(old) = {Walk[j] : j \in 1..(m - 1)} \cap found
      BY <3>2
    <3>4. new = IF Walk[m] \in found THEN Append(old, Walk[m]) ELSE old
      BY <1>1, <2>2, <2>4 DEF After
    <3>5. {Walk[j] : j \in 1..m} = {Walk[j] : j \in 1..(m - 1)} \cup {Walk[m]}
      BY <1>3, <3>1
    <3>6. Walk[m] \in Files
      BY <3>1, WalkIsFiles
    <3>7. ~(new \in Seq(Files) /\ ToSet(new) = {Walk[j] : j \in 1..m} \cap found)
      BY <2>2
    <3> HIDE DEF old, new, T, Right
    <3>8. CASE Walk[m] \in found
      <4>1. ToSet(Append(old, Walk[m])) = ToSet(old) \cup {Walk[m]}
        BY <3>3, <3>6, SetOfAppend
      <4>2. Append(old, Walk[m]) \in Seq(Files)
        BY <3>3, <3>6, AppendProperties
      <4> QED BY <3>3, <3>4, <3>5, <3>7, <3>8, <4>1, <4>2
    <3>9. CASE Walk[m] \notin found
      BY <3>3, <3>4, <3>5, <3>7, <3>9
    <3> QED BY <3>8, <3>9
  <2> QED BY <2>3, <2>4
<1>5. Right(Len(Walk))
  <2>1. Len(Walk) \in 0..Len(Walk)
    BY <1>3
  <2> HIDE DEF Right
  <2> QED BY <1>4, <2>1
<1> QED BY <1>2, <1>5, WalkIsFiles

-----------------------------------------------------------------------------
(* Directories and the files they find                                     *)

\* The owner of a path is a directory that holds it, with the shortest path.
LEMMA OwnerIs ==
    ASSUME TypeOK, NEW p \in Path, NEW r
    PROVE  r \in Owner(p) <=>
              /\ r \in dirs
              /\ Holds(r.path, p)
              /\ \A q \in dirs : Holds(q.path, p) => Len(r.path) <= Len(q.path)
<1>1. \A q \in dirs : q.path \in Path
  BY TreeAssumption DEF TypeOK, Path
<1>2. \A q \in dirs : q.path = p \/ Inside(q.path, p) <=> Holds(q.path, p)
  BY <1>1, HoldsIs
<1> QED BY <1>2 DEF Owner, Holding

\* FindFiles finds what an add of the directory is to stage.
LEMMA FindIs ==
    ASSUME NEW d \in Path, NEW recursive \in BOOLEAN
    PROVE  /\ FindFiles(d, recursive) \in Seq(Files)
           /\ ToSet(FindFiles(d, recursive)) = Wanted(d, recursive)
<1>1. \A f \in Files : Front(f) = d <=> Inside(d, f) /\ Len(f) = Len(d) + 1
  BY WalkIsFiles, FrontIs
<1> DEFINE found == {f \in Files : /\ disk[f] # None
                                   /\ Inside(d, f)
                                   /\ recursive \/ Len(f) = Len(d) + 1
                                   /\ ~IsIgnored(f, d)}
<1>2. Files \cap found = Wanted(d, recursive)
  BY <1>1 DEF Wanted, IsIgnored, Matcher
<1>3. FindFiles(d, recursive) = Collect(found)
  BY DEF FindFiles
<1> HIDE DEF found
<1> QED BY <1>2, <1>3, CollectIs

-----------------------------------------------------------------------------
(* Types                                                                   *)

\* A command begins with what it found on disk.
LEMMA BeginType ==
    ASSUME TypeOK, NEW found \in Seq(Files), NEW wanted \in SUBSET Files,
           \A f \in ToSet(found) : disk[f] # None, Begin(found, wanted)
    PROVE  /\ cmd'.pc = "add" /\ cmd'.done = 0 /\ cmd'.wanted = wanted
           /\ cmd'.found \in Seq(Found) /\ DOMAIN cmd'.found = DOMAIN found
           /\ \A i \in DOMAIN found : cmd'.found[i].file = found[i]
           /\ cmd' \in [pc : {"add"}, found : Seq(Found), done : Nat, wanted : SUBSET Files]
<1> DEFINE entry(i) == [file |-> found[i], stamp |-> disk[found[i]]]
           list == [i \in DOMAIN found |-> entry(i)]
<1>1. Len(found) \in Nat /\ DOMAIN found = 1..Len(found)
  BY LenProperties
<1>2. ASSUME NEW i \in 1..Len(found) PROVE entry(i) \in Found
  <2>1. found[i] \in Files /\ found[i] \in ToSet(found)
    BY <1>1, ElementOfSeq DEF ToSet
  <2>2. disk[found[i]] \in Stamps
    BY <2>1 DEF TypeOK
  <2> QED BY <2>1, <2>2 DEF Found
<1>3. list \in Seq(Found) /\ DOMAIN list = DOMAIN found
  <2>1. list = [i \in 1..Len(found) |-> entry(i)]
    BY <1>1
  <2> HIDE DEF entry
  <2> QED BY <1>1, <1>2, <2>1, IsASeq
<1>4. cmd' = [pc |-> "add", found |-> list, done |-> 0, wanted |-> wanted]
  BY DEF Begin
<1>5. \A i \in DOMAIN found : list[i].file = found[i]
  OBVIOUS
<1> HIDE DEF list
<1> QED BY <1>3, <1>4, <1>5

\* The file at hand, and what is queued for it.
LEMMA CurrentType ==
    ASSUME TypeOK, Adding
    PROVE  /\ cmd \in [pc : {"add"}, found : Seq(Found), done : Nat, wanted : SUBSET Files]
           /\ Len(cmd.found) \in Nat /\ DOMAIN cmd.found = 1..Len(cmd.found)
           /\ cmd.done + 1 \in 1..Len(cmd.found)
           /\ Current \in Found /\ Current.file \in Path
<1>1. cmd \in [pc : {"add"}, found : Seq(Found), done : Nat, wanted : SUBSET Files]
  BY DEF TypeOK, Adding, Idle
<1>2. Len(cmd.found) \in Nat /\ DOMAIN cmd.found = 1..Len(cmd.found)
  BY <1>1, LenProperties
<1>3. cmd.done + 1 \in 1..Len(cmd.found)
  BY <1>1, <1>2 DEF Adding
<1>4. Current \in Found
  BY <1>1, <1>3, ElementOfSeq DEF Current
<1> QED BY <1>1, <1>2, <1>3, <1>4, WalkIsFiles DEF Found

Op == [dir : Nat, name : Seq(STRING), stamp : Stamps, file : Files]

LEMMA QueuedType ==
    ASSUME TypeOK, NEW r, StageOneFile(r)
    PROVE  /\ Current \in Found /\ r \in Owner(Current.file)
           /\ [dir |-> r.id, name |-> Rel(r.path, Current.file),
               stamp |-> Current.stamp, file |-> Current.file] \in Op
<1>1. Current \in Found /\ Current.file \in Path /\ r \in Owner(Current.file)
  BY CurrentType DEF StageOneFile
<1>2. r \in dirs /\ Holds(r.path, Current.file)
  BY <1>1, OwnerIs
<1>3. r.id \in Nat /\ r.path \in Path
  BY <1>2, TreeAssumption DEF TypeOK, Path
<1>4. Rel(r.path, Current.file) \in Seq(STRING)
  BY <1>1, <1>2, <1>3, RelIs DEF Path
<1> QED BY <1>1, <1>3, <1>4 DEF Found, Op

\* The rows of the directories a new one takes over.
LEMMA MovedType ==
    ASSUME TypeOK, NEW d \in Dirs, NEW id \in Nat, NEW children,
           children = {r \in dirs : Inside(d, r.path)}
    PROVE  Moved(d, children, id) \subseteq [dir : Nat, name : Seq(STRING), stamp : Stamps]
<1> DEFINE row(y) == [dir |-> id, name |-> Rel(d, y[1].path) \o y[2].name, stamp |-> y[2].stamp]
<1> SUFFICES ASSUME NEW y \in children \X files
             PROVE  row(y) \in [dir : Nat, name : Seq(STRING), stamp : Stamps]
  <2>1. files \subseteq [dir : Nat, name : Seq(STRING), stamp : Stamps]
    BY DEF TypeOK
  <2>2. \A x \in Moved(d, children, id) :
          x \in files \/ \E y \in children \X files : x = row(y)
    BY DEF Moved
  <2> HIDE DEF row
  <2> QED BY <2>1, <2>2
<1>1. d \in Path /\ y[1].path \in Path /\ Inside(d, y[1].path)
  BY TreeAssumption DEF TypeOK, Path
<1>2. Rel(d, y[1].path) \in Seq(STRING)
  BY <1>1, RelIs, InsideIs DEF Path
<1>3. y[2].name \in Seq(STRING) /\ y[2].stamp \in Stamps
  BY DEF TypeOK
<1>4. Rel(d, y[1].path) \o y[2].name \in Seq(STRING)
  BY <1>2, <1>3, ConcatProperties
<1> QED BY <1>3, <1>4

LEMMA TypeStep == TypeOK /\ [Next]_vars => TypeOK'
<1> SUFFICES ASSUME TypeOK, [Next]_vars PROVE TypeOK'
  OBVIOUS
<1> USE DEF Op
<1>1. ASSUME NEW f \in Files, NEW s \in Stamps \cup {None}, ChangeFile(f, s)
      PROVE  TypeOK'
  BY <1>1 DEF TypeOK, ChangeFile, Changed, dbVars
<1>2. ASSUME NEW d \in Dirs, NEW patterns \in IgnoreSets, EditIgnoreFile(d, patterns)
      PROVE  TypeOK'
  BY <1>2 DEF TypeOK, EditIgnoreFile, Changed, dbVars
<1>3. ASSUME NEW d \in Dirs, AddDirectory(d)
      PROVE  TypeOK'
  <2> DEFINE children == {r \in dirs : Inside(d, r.path)}
  <2>1. /\ dirs' = (dirs \ children) \cup {[id |-> nextId, path |-> d]}
        /\ files' = Moved(d, children, nextId)
        /\ nextId' = nextId + 1
        /\ UNCHANGED <<disk, rules, changes, queue, cmd, recorded>>
    BY <1>3 DEF AddDirectory, userVars
  <2>2. nextId \in Nat /\ nextId' \in Nat
    BY <2>1 DEF TypeOK
  <2>3. files' \subseteq [dir : Nat, name : Seq(STRING), stamp : Stamps]
    BY <2>1, <2>2, MovedType
  <2>4. dirs' \subseteq [id : Nat, path : Dirs]
    BY <2>1, <2>2 DEF TypeOK
  <2> QED BY <2>1, <2>2, <2>3, <2>4 DEF TypeOK
<1>4. ASSUME NEW d \in Dirs, NEW recursive \in BOOLEAN, AddFiles(d, recursive)
      PROVE  TypeOK'
  <2>1. /\ FindFiles(d, recursive) \in Seq(Files)
        /\ ToSet(FindFiles(d, recursive)) = Wanted(d, recursive)
    BY FindIs, TreeAssumption DEF Path
  <2>2. /\ Wanted(d, recursive) \in SUBSET Files
        /\ \A f \in Wanted(d, recursive) : disk[f] # None
    BY DEF Wanted
  <2>3. Begin(FindFiles(d, recursive), Wanted(d, recursive))
    BY <1>4 DEF AddFiles
  <2>4. cmd' \in [pc : {"add"}, found : Seq(Found), done : Nat, wanted : SUBSET Files]
    BY <2>1, <2>2, <2>3, BeginType
  <2> QED BY <1>4, <2>4 DEF AddFiles, TypeOK, userVars, dbVars, Found
<1>5. ASSUME NEW f \in Files, AddFile(f)
      PROVE  TypeOK'
  <2>1. <<f>> \in Seq(Files) /\ ToSet(<<f>>) = {f} /\ disk[f] # None
    BY <1>5 DEF ToSet, AddFile
  <2>2. cmd' \in [pc : {"add"}, found : Seq(Found), done : Nat, wanted : SUBSET Files]
    BY <1>5, <2>1, BeginType DEF AddFile
  <2> QED BY <1>5, <2>2 DEF AddFile, TypeOK, userVars, dbVars, Found
<1>6. ASSUME NEW f \in Sources, Restore(f)
      PROVE  TypeOK'
  <2>1. PICK s \in RestoreVersion(f) : disk' = [disk EXCEPT ![CopyOf[f, s]] = s]
    BY <1>6 DEF Restore
  <2>2. s \in Stamps
    BY DEF RestoreVersion, FindFile, TypeOK
  <2>3. disk' \in [Files -> Stamps \cup {None}]
    BY <2>1, <2>2 DEF TypeOK
  <2> QED BY <1>6, <2>3 DEF Restore, TypeOK, dbVars
<1>7. ASSUME NEW r \in dirs, StageOneFile(r)
      PROVE  TypeOK'
  <2> DEFINE op == [dir |-> r.id, name |-> Rel(r.path, Current.file),
                    stamp |-> Current.stamp, file |-> Current.file]
  <2>1. op \in Op /\ queue' = Append(queue, op)
    BY <1>7, QueuedType DEF StageOneFile
  <2> HIDE DEF op
  <2>2. queue' \in Seq(Op)
    BY <2>1, AppendProperties DEF TypeOK
  <2>3. cmd \in [pc : {"add"}, found : Seq(Found), done : Nat, wanted : SUBSET Files]
    BY <1>7, CurrentType DEF StageOneFile
  <2>4. cmd' \in [pc : {"add"}, found : Seq(Found), done : Nat, wanted : SUBSET Files]
    BY <1>7, <2>3 DEF StageOneFile
  <2> QED BY <1>7, <2>2, <2>4 DEF StageOneFile, TypeOK, userVars, dbVars
<1>8. CASE StageFails \/ AddReturns
  BY <1>8 DEF StageFails, AddReturns, TypeOK, userVars, dbVars
<1>9. CASE BackupNext
  <2>1. queue # << >> /\ queue \in Seq(Op)
    BY <1>9 DEF BackupNext, TypeOK
  <2>2. Head(queue) \in Op /\ Tail(queue) \in Seq(Op)
    BY <2>1, HeadTailProperties
  <2>3. files' \subseteq [dir : Nat, name : Seq(STRING), stamp : Stamps]
    BY <1>9, <2>2 DEF BackupNext, Recorded, TypeOK
  <2>4. recorded' \in [Files -> Stamps \cup {None}]
    BY <1>9, <2>2 DEF BackupNext, TypeOK
  <2> QED BY <1>9, <2>2, <2>3, <2>4 DEF BackupNext, TypeOK, userVars
<1>10. CASE UNCHANGED vars
  BY <1>10 DEF vars, userVars, dbVars, TypeOK
<1> QED
  BY <1>1, <1>2, <1>3, <1>4, <1>5, <1>6, <1>7, <1>8, <1>9, <1>10 DEF Next

\* The variables keep their types: relative names are sequences of names,
\* also after consolidation has joined two of them, and an add holds only
\* states of files that were on disk.
THEOREM TypeCorrect == Spec => []TypeOK
<1>1. Init => TypeOK
  BY DEF Init, TypeOK
<1> QED BY <1>1, TypeStep, PTL DEF Spec

-----------------------------------------------------------------------------
(* What restore writes                                                     *)

\* An owner of a file is strictly above it: no path is both a directory's
\* and a file's.
LEMMA OwnerAbove ==
    ASSUME TypeOK, NEW f \in Files, NEW r \in Owner(f)
    PROVE  r \in dirs /\ r.path \in Dirs /\ r.path \in Path /\ f \in Path
           /\ Holds(r.path, f) /\ Inside(r.path, f)
<1>1. r \in dirs /\ Holds(r.path, f) /\ f \in Path
  BY OwnerIs, WalkIsFiles
<1>2. r.path \in Dirs /\ r.path \in Path /\ r.path \notin Files
  BY <1>1, TreeAssumption DEF TypeOK, Path
<1> QED BY <1>1, <1>2, HoldsIs

\* A default pattern ignores a copy in every directory above it, whatever
\* the .btignore file there says.
LEMMA CopyIgnored ==
    ASSUME NEW f \in Copies, NEW d \in Path, Inside(d, f)
    PROVE  IsIgnored(f, d)
<1>1. f \in Path
  BY TreeAssumption, WalkIsFiles
<1>2. Last(Rel(d, f)) = Last(f)
  BY <1>1, LastOfRel
<1>3. PICK q \in Base : ~q.slash /\ \A g \in Copies : Last(g) \in q.of
  BY TreeAssumption
<1> QED BY <1>2, <1>3 DEF IsIgnored, Match, Matcher

LEMMA CopiesStep == TypeOK /\ CopiesStayOut /\ [Next]_vars => CopiesStayOut'
<1> SUFFICES ASSUME TypeOK, CopiesStayOut, [Next]_vars PROVE CopiesStayOut'
  OBVIOUS
<1>1. ASSUME NEW r \in dirs, StageOneFile(r)
      PROVE  CopiesStayOut'
  <2> DEFINE op == [dir |-> r.id, name |-> Rel(r.path, Current.file),
                    stamp |-> Current.stamp, file |-> Current.file]
  <2>1. op \in Op /\ queue' = Append(queue, op) /\ recorded' = recorded
    BY <1>1, QueuedType DEF StageOneFile
  <2>2. op.file \notin Copies
    <3>1. Current \in Found /\ r \in Owner(Current.file)
      BY <1>1, QueuedType
    <3>2. Inside(r.path, Current.file) /\ r.path \in Path
      BY <3>1, OwnerAbove DEF Found
    <3>3. ~IsIgnored(Current.file, r.path)
      BY <1>1 DEF StageOneFile, Stageable
    <3> QED BY <3>2, <3>3, CopyIgnored
  <2> HIDE DEF op
  <2>3. /\ Len(queue) \in Nat /\ DOMAIN queue = 1..Len(queue)
        /\ DOMAIN queue' = 1..(Len(queue) + 1)
        /\ \A i \in 1..Len(queue) : queue'[i] = queue[i]
        /\ queue'[Len(queue) + 1] = op
    BY <2>1, AppendProperties, LenProperties DEF TypeOK, Op
  <2> QED BY <2>1, <2>2, <2>3 DEF CopiesStayOut
<1>2. CASE BackupNext
  <2>1. queue # << >> /\ queue \in Seq(Op) /\ queue' = Tail(queue)
    BY <1>2 DEF BackupNext, TypeOK, Op
  <2>2. Len(queue) \in Nat \ {0} /\ DOMAIN queue = 1..Len(queue)
    BY <2>1, EmptySeq, LenProperties
  <2>3. /\ Tail(queue) \in Seq(Op) /\ Len(Tail(queue)) = Len(queue) - 1
        /\ \A i \in 1..Len(Tail(queue)) : Tail(queue)[i] = queue[i + 1]
    BY <2>1, HeadTailProperties
  <2>4. DOMAIN queue' = 1..(Len(queue) - 1) /\ \A i \in DOMAIN queue' : queue'[i] = queue[i + 1]
    BY <2>1, <2>3, LenProperties
  <2>5. Head(queue) = queue[1] /\ 1 \in DOMAIN queue
    <3>1. 1 \in DOMAIN queue
      BY <2>2
    <3> QED BY <2>1, <2>2, <3>1
  <2>6. \A f \in Copies : recorded'[f] = None
    <3>1. recorded' = [recorded EXCEPT ![Head(queue).file] = Head(queue).stamp]
      BY <1>2 DEF BackupNext
    <3>2. recorded \in [Files -> Stamps \cup {None}] /\ Copies \subseteq Files
      BY TreeAssumption DEF TypeOK
    <3>3. \A f \in Copies : f # Head(queue).file
      BY <2>5 DEF CopiesStayOut
    <3> QED BY <3>1, <3>2, <3>3 DEF CopiesStayOut
  <2>7. \A i \in DOMAIN queue' : i + 1 \in DOMAIN queue
    BY <2>2, <2>4
  <2> QED BY <2>4, <2>6, <2>7 DEF CopiesStayOut
<1>3. CASE UNCHANGED <<queue, recorded>>
  BY <1>3 DEF CopiesStayOut
<1> QED
  BY <1>1, <1>2, <1>3 DEF Next, vars, userVars, dbVars, ChangeFile, EditIgnoreFile, AddDirectory,
     AddFiles, AddFile, Restore, StageFails, AddReturns

\* What restore writes is never staged or backed up in its turn, whatever a
\* .btignore file says and whether it is found or named: the copies' pattern
\* is among those the rules of every directory start from.
THEOREM CopiesIgnored == Spec => []CopiesStayOut
<1>1. Init => CopiesStayOut
  BY TreeAssumption DEF Init, CopiesStayOut
<1> QED BY <1>1, CopiesStep, TypeCorrect, PTL DEF Spec

-----------------------------------------------------------------------------
(* What an add has staged                                                  *)

\* The last operations of the queue are the files an add has done.
AddOK ==
    cmd.pc = "add" =>
        /\ cmd.done <= Len(cmd.found) /\ cmd.done <= Len(queue)
        /\ cmd.wanted = {cmd.found[i].file : i \in DOMAIN cmd.found}
        /\ \A i \in 1..cmd.done :
              LET n == Len(queue) - cmd.done
              IN  /\ queue[n + i].file = cmd.found[i].file
                  /\ queue[n + i].stamp = cmd.found[i].stamp

\* At the start of a command nothing is done yet.
LEMMA BeginAdds ==
    ASSUME TypeOK, NEW found \in Seq(Files), NEW wanted \in SUBSET Files,
           \A f \in ToSet(found) : disk[f] # None, Begin(found, wanted),
           wanted = ToSet(found), queue' = queue
    PROVE  AddOK'
<1>1. /\ cmd'.done = 0 /\ cmd'.wanted = wanted
      /\ cmd'.found \in Seq(Found) /\ DOMAIN cmd'.found = DOMAIN found
      /\ \A i \in DOMAIN found : cmd'.found[i].file = found[i]
  BY BeginType
<1>2. Len(cmd'.found) \in Nat /\ Len(queue') \in Nat
  BY <1>1, LenProperties DEF TypeOK
<1>3. cmd'.wanted = {cmd'.found[i].file : i \in DOMAIN cmd'.found}
  BY <1>1 DEF ToSet
<1>4. cmd'.done <= Len(cmd'.found) /\ cmd'.done <= Len(queue') /\ 1..cmd'.done = {}
  BY <1>1, <1>2
<1> QED BY <1>3, <1>4 DEF AddOK

LEMMA AddStep == TypeOK /\ AddOK /\ [Next]_vars => AddOK'
<1> SUFFICES ASSUME TypeOK, AddOK, [Next]_vars PROVE AddOK'
  OBVIOUS
<1>1. ASSUME NEW d \in Dirs, NEW recursive \in BOOLEAN, AddFiles(d, recursive)
      PROVE  AddOK'
  <2>1. /\ FindFiles(d, recursive) \in Seq(Files)
        /\ ToSet(FindFiles(d, recursive)) = Wanted(d, recursive)
    BY FindIs, TreeAssumption DEF Path
  <2>2. /\ Wanted(d, recursive) \in SUBSET Files
        /\ \A f \in Wanted(d, recursive) : disk[f] # None
    BY DEF Wanted
  <2>3. Begin(FindFiles(d, recursive), Wanted(d, recursive)) /\ queue' = queue
    BY <1>1 DEF AddFiles
  <2> QED BY <2>1, <2>2, <2>3, BeginAdds
<1>2. ASSUME NEW f \in Files, AddFile(f)
      PROVE  AddOK'
  <2>1. <<f>> \in Seq(Files) /\ ToSet(<<f>>) = {f} /\ disk[f] # None
    BY <1>2 DEF ToSet, AddFile
  <2>2. Begin(<<f>>, {f}) /\ queue' = queue
    BY <1>2 DEF AddFile
  <2> QED BY <2>1, <2>2, BeginAdds
<1>3. ASSUME NEW r \in dirs, StageOneFile(r)
      PROVE  AddOK'
  <2> DEFINE op == [dir |-> r.id, name |-> Rel(r.path, Current.file),
                    stamp |-> Current.stamp, file |-> Current.file]
             q == Len(queue)
             n == cmd.done
  <2>1. op \in Op /\ queue' = Append(queue, op)
    BY <1>3, QueuedType DEF StageOneFile
  <2>2. /\ cmd \in [pc : {"add"}, found : Seq(Found), done : Nat, wanted : SUBSET Files]
        /\ Len(cmd.found) \in Nat /\ n + 1 \in 1..Len(cmd.found) /\ n \in Nat
    BY <1>3, CurrentType DEF StageOneFile
  <2>3. op.file = cmd.found[n + 1].file /\ op.stamp = cmd.found[n + 1].stamp
    BY DEF Current
  <2>4. /\ cmd'.pc = "add" /\ cmd'.found = cmd.found /\ cmd'.wanted = cmd.wanted
        /\ cmd'.done = n + 1
    BY <1>3, <2>2 DEF StageOneFile
  <2>5. /\ n <= q
        /\ cmd.wanted = {cmd.found[i].file : i \in DOMAIN cmd.found}
        /\ \A i \in 1..n : /\ queue[(q - n) + i].file = cmd.found[i].file
                           /\ queue[(q - n) + i].stamp = cmd.found[i].stamp
    BY <2>2 DEF AddOK
  <2>6. /\ q \in Nat /\ Len(queue') = q + 1
        /\ \A i \in 1..q : queue'[i] = queue[i]
        /\ queue'[q + 1] = op
    <3> HIDE DEF op
    <3> QED BY <2>1, AppendProperties, LenProperties DEF TypeOK, Op
  <2> HIDE DEF op, q, n
  <2>7. ASSUME NEW i \in 1..(n + 1)
        PROVE  /\ queue'[(q + 1) - (n + 1) + i].file = cmd.found[i].file
               /\ queue'[(q + 1) - (n + 1) + i].stamp = cmd.found[i].stamp
    <3>1. CASE i = n + 1
      <4>1. (q + 1) - (n + 1) + i = q + 1
        BY <2>2, <2>6, <3>1
      <4> QED BY <2>3, <2>6, <3>1, <4>1
    <3>2. CASE i # n + 1
      <4>1. i \in 1..n /\ (q + 1) - (n + 1) + i = (q - n) + i /\ (q - n) + i \in 1..q
        BY <2>2, <2>5, <2>6, <3>2
      <4> QED BY <2>5, <2>6, <4>1
    <3> QED BY <3>1, <3>2
  <2>8. n + 1 <= Len(cmd.found) /\ n + 1 <= q + 1
    BY <2>2, <2>5, <2>6
  <2> QED BY <2>4, <2>5, <2>6, <2>7, <2>8 DEF AddOK
<1>4. CASE StageFails \/ AddReturns
  BY <1>4 DEF StageFails, AddReturns, AddOK, Idle
<1>5. CASE BackupNext
  BY <1>5 DEF BackupNext, AddOK, Idle
<1>6. CASE UNCHANGED <<cmd, queue>>
  BY <1>6 DEF AddOK
<1> QED
  BY <1>1, <1>2, <1>3, <1>4, <1>5, <1>6 DEF Next, vars, userVars, dbVars, ChangeFile,
     EditIgnoreFile, AddDirectory, Restore

\* When all is done, the last operations of the queue are all there is.
LEMMA AddDone == TypeOK /\ AddOK => AddComplete
<1> SUFFICES ASSUME TypeOK, AddOK, cmd.pc = "add", cmd.done = Len(cmd.found)
             PROVE  LET n == Len(queue) - cmd.done
                    IN  /\ cmd.done <= Len(queue)
                        /\ cmd.wanted = {queue[i].file : i \in (n + 1)..Len(queue)}
                        /\ \A i \in 1..cmd.done : /\ queue[n + i].file = cmd.found[i].file
                                                  /\ queue[n + i].stamp = cmd.found[i].stamp
  BY DEF AddComplete
<1> DEFINE q == Len(queue)
           m == cmd.done
<1>1. /\ m <= q
      /\ cmd.wanted = {cmd.found[i].file : i \in DOMAIN cmd.found}
      /\ \A i \in 1..m : /\ queue[(q - m) + i].file = cmd.found[i].file
                         /\ queue[(q - m) + i].stamp = cmd.found[i].stamp
  BY DEF AddOK
<1>2. cmd.found \in Seq(Found) /\ q \in Nat
  BY LenProperties DEF TypeOK, Idle
<1>3. m \in Nat /\ DOMAIN cmd.found = 1..m
  BY <1>2, LenProperties
<1> HIDE DEF q, m
<1>4. ASSUME NEW i \in 1..m
      PROVE  (q - m) + i \in ((q - m) + 1)..q
  BY <1>1, <1>2, <1>3
<1>5. ASSUME NEW i \in ((q - m) + 1)..q
      PROVE  i - (q - m) \in 1..m /\ (q - m) + (i - (q - m)) = i
  BY <1>1, <1>2, <1>3
<1>6. {cmd.found[i].file : i \in 1..m} = {queue[i].file : i \in ((q - m) + 1)..q}
  <2>1. ASSUME NEW i \in 1..m
        PROVE  cmd.found[i].file \in {queue[j].file : j \in ((q - m) + 1)..q}
    BY <1>1, <1>4
  <2>2. ASSUME NEW i \in ((q - m) + 1)..q
        PROVE  queue[i].file \in {cmd.found[j].file : j \in 1..m}
    <3>1. queue[(q - m) + (i - (q - m))].file = cmd.found[i - (q - m)].file
      BY <1>1, <1>5
    <3> QED BY <1>5, <3>1
  <2> QED BY <2>1, <2>2
<1> QED BY <1>1, <1>3, <1>6 DEF q, m

\* An add that returns without error has staged every file it was asked for,
\* once, in the state it was found in: what it found when it began and every
\* step since make up the end of the queue.
THEOREM AddIsComplete == Spec => []AddComplete
<1>1. Init => AddOK
  BY DEF Init, AddOK, Idle
<1> QED BY <1>1, AddStep, AddDone, TypeCorrect, PTL DEF Spec

-----------------------------------------------------------------------------
(* What a directory ID and a relative name stand for                       *)

\* Among the directories D, r owns the file f and name is f's name in it.
Stands(D, r, name, f) ==
    /\ r \in D
    /\ Holds(r.path, f)
    /\ \A q \in D : Holds(q.path, f) => Len(r.path) <= Len(q.path)
    /\ name = Rel(r.path, f)

\* A file is owned by one directory, under one name.
LEMMA StandsOnce ==
    ASSUME NEW D, \A q \in D : q.path \in Path,
           \A q, p \in D : q.path = p.path => q = p,
           NEW f \in Path, NEW r, NEW q, NEW name, NEW other,
           Stands(D, r, name, f), Stands(D, q, other, f)
    PROVE  r = q /\ name = other
<1>1. /\ r \in D /\ q \in D /\ r.path \in Path /\ q.path \in Path
      /\ Holds(r.path, f) /\ Holds(q.path, f)
      /\ Len(r.path) <= Len(q.path) /\ Len(q.path) <= Len(r.path)
  BY DEF Stands
<1>2. Holds(r.path, q.path)
  BY <1>1, Chain
<1>3. ~(Len(r.path) < Len(q.path))
  BY <1>1, LenProperties DEF Path
<1>4. r.path = q.path
  BY <1>1, <1>2, <1>3, HoldsIs, InsideIs
<1> QED BY <1>1, <1>4 DEF Stands

\* A directory and a name in it stand for one file.
LEMMA StandsForOne ==
    ASSUME NEW D, \A q \in D : q.path \in Path, NEW r, NEW name,
           NEW f \in Path, NEW g \in Path, Stands(D, r, name, f), Stands(D, r, name, g)
    PROVE  f = g
<1>1. r.path \in Path /\ Holds(r.path, f) /\ Holds(r.path, g) /\ Rel(r.path, f) = Rel(r.path, g)
  BY DEF Stands
<1> QED BY <1>1, RelInjective

\* A new directory takes over the directories below it: every other one
\* keeps its files, and it owns those of its children under the joined names.
WithDirectory(D, new) == (D \ {q \in D : Inside(new.path, q.path)}) \cup {new}

LEMMA StandsAfterAdd ==
    ASSUME NEW D, \A q \in D : q.path \in Path,
           NEW new, new.path \in Path, \A q \in D : q.path # new.path,
           NEW r, NEW name, NEW f \in Path, Stands(D, r, name, f)
    PROVE  /\ ~Inside(new.path, r.path) => Stands(WithDirectory(D, new), r, name, f)
           /\ Inside(new.path, r.path) =>
                Stands(WithDirectory(D, new), new, Rel(new.path, r.path) \o name, f)
<1> DEFINE d == new.path
           children == {q \in D : Inside(d, q.path)}
           E == WithDirectory(D, new)
<1> USE DEF WithDirectory
<1>1. /\ r \in D /\ r.path \in Path /\ Holds(r.path, f) /\ name = Rel(r.path, f)
      /\ \A q \in D : Holds(q.path, f) => Len(r.path) <= Len(q.path)
  BY DEF Stands
<1>2. Len(d) \in Nat /\ Len(r.path) \in Nat
  BY <1>1, LenProperties DEF Path
<1>3. ASSUME ~Inside(d, r.path)
      PROVE  Stands(E, r, name, f)
  <2>1. ASSUME Holds(d, f) PROVE Len(r.path) <= Len(d)
    <3>1. SUFFICES ASSUME Len(d) < Len(r.path) PROVE FALSE
      BY <1>2
    <3>2. Holds(d, r.path)
      BY <1>1, <1>2, <2>1, <3>1, Chain
    <3>3. Inside(d, r.path)
      BY <1>1, <3>1, <3>2, InsideIs
    <3> QED BY <1>1, <1>3, <3>3
  <2>2. \A q \in E : Holds(q.path, f) => Len(r.path) <= Len(q.path)
    BY <1>1, <2>1
  <2> QED BY <1>1, <1>3, <2>2 DEF Stands
<1>4. ASSUME Inside(d, r.path)
      PROVE  Stands(E, new, Rel(d, r.path) \o name, f)
  <2>1. Holds(d, r.path) /\ Len(d) < Len(r.path)
    BY <1>1, <1>4, InsideIs
  <2>2. Holds(d, f) /\ Rel(d, r.path) \o name = Rel(d, f)
    BY <1>1, <2>1, HoldsTransitive, RelJoins
  <2>3. ASSUME NEW q \in D, Holds(q.path, f) PROVE Len(d) <= Len(q.path)
    <3>1. Len(r.path) <= Len(q.path) /\ Len(q.path) \in Nat
      BY <1>1, <2>3, LenProperties DEF Path
    <3> QED BY <1>2, <2>1, <3>1
  <2>4. \A q \in E : Holds(q.path, f) => Len(d) <= Len(q.path)
    BY <1>2, <2>3
  <2> QED BY <2>2, <2>4 DEF Stands
<1> QED BY <1>3, <1>4

-----------------------------------------------------------------------------
(* Rows, history and queue                                                 *)

\* IDs and paths of directories identify them; a queue may name one that is
\* gone, never one to come.
IDsOK ==
    /\ \A r \in dirs : r.id < nextId
    /\ \A i \in DOMAIN queue : queue[i].dir < nextId
    /\ \A r, q \in dirs : r.id = q.id \/ r.path = q.path => r = q

\* Every row stands for a file and holds the state it was last backed up in.
RowsOK ==
    \A x \in files : \E f \in Files, r \in dirs :
        /\ x.dir = r.id /\ Stands(dirs, r, x.name, f)
        /\ x.stamp = recorded[f] /\ recorded[f] # None

\* Every file ever backed up has a row.
HistoryOK ==
    \A f \in Files : recorded[f] # None =>
        \E x \in files, r \in dirs : x.dir = r.id /\ Stands(dirs, r, x.name, f)

\* Every operation whose directory is still there names its file.
QueueOK ==
    \A i \in DOMAIN queue : \A r \in dirs :
        r.id = queue[i].dir => Stands(dirs, r, queue[i].name, queue[i].file)

IInv == TypeOK /\ IDsOK /\ RowsOK /\ HistoryOK /\ QueueOK

LEMMA DirPaths == TypeOK => \A q \in dirs : q.id \in Nat /\ q.path \in Dirs /\ q.path \in Path
BY TreeAssumption DEF TypeOK, Path

LEMMA Queued ==
    TypeOK => /\ queue \in Seq(Op) /\ Len(queue) \in Nat /\ DOMAIN queue = 1..Len(queue)
              /\ \A i \in DOMAIN queue : queue[i] \in Op
<1> SUFFICES ASSUME TypeOK
             PROVE  /\ queue \in Seq(Op) /\ Len(queue) \in Nat /\ DOMAIN queue = 1..Len(queue)
                    /\ \A i \in DOMAIN queue : queue[i] \in Op
  OBVIOUS
<1>1. queue \in Seq(Op)
  BY DEF TypeOK, Op
<1>2. Len(queue) \in Nat /\ DOMAIN queue = 1..Len(queue)
  BY <1>1, LenProperties
<1> QED BY <1>1, <1>2, ElementOfSeq

LEMMA AddDirectoryKeeps ==
    ASSUME IInv, NEW d \in Dirs, AddDirectory(d)
    PROVE  IDsOK' /\ RowsOK' /\ HistoryOK' /\ QueueOK'
<1> DEFINE children == {r \in dirs : Inside(d, r.path)}
           new == [id |-> nextId, path |-> d]
           E == (dirs \ children) \cup {new}
           row(c, x) == [dir |-> nextId, name |-> Rel(d, c.path) \o x.name, stamp |-> x.stamp]
<1>1. /\ dirs' = E /\ nextId' = nextId + 1 /\ queue' = queue /\ recorded' = recorded
      /\ files' = Moved(d, children, nextId)
      /\ \A q \in dirs : q.path # d
  BY DEF AddDirectory, Tracked
<1>2. /\ TypeOK /\ IDsOK /\ RowsOK /\ HistoryOK /\ QueueOK /\ nextId \in Nat /\ d \in Path
      /\ \A q \in dirs : q.id \in Nat /\ q.path \in Path
      /\ new.path = d /\ new.id = nextId
  BY DirPaths, TreeAssumption DEF IInv, TypeOK, Path
<1>3. /\ \A x \in files : (\A c \in children : c.id # x.dir) => x \in files'
      /\ \A c \in children, x \in files : x.dir = c.id => row(c, x) \in files'
      /\ \A z \in files' : \/ z \in files /\ \A c \in children : c.id # z.dir
                           \/ \E c \in children, x \in files : x.dir = c.id /\ z = row(c, x)
  <2>1. files' = {x \in files : \A c \in children : c.id # x.dir}
                 \cup {row(y[1], y[2]) : y \in {z \in children \X files : z[2].dir = z[1].id}}
    BY <1>1 DEF Moved
  <2> HIDE DEF row, children
  <2>2. ASSUME NEW c \in children, NEW x \in files, x.dir = c.id
        PROVE  row(c, x) \in files'
    <3>1. <<c, x>> \in {z \in children \X files : z[2].dir = z[1].id}
      BY <2>2
    <3> QED BY <2>1, <3>1
  <2>3. ASSUME NEW y \in {z \in children \X files : z[2].dir = z[1].id}
        PROVE  \E c \in children, x \in files : x.dir = c.id /\ row(y[1], y[2]) = row(c, x)
    BY <2>3
  <2> QED BY <2>1, <2>2, <2>3
<1>4. \A f \in Files : f \in Path
  BY WalkIsFiles
<1>5. ASSUME NEW r, NEW name, NEW f \in Files, Stands(dirs, r, name, f)
      PROVE  /\ r \notin children => Stands(E, r, name, f)
             /\ r \in children => Stands(E, new, Rel(d, r.path) \o name, f)
  <2>1. /\ r \in dirs /\ new.path = d
        /\ E = WithDirectory(dirs, new)
        /\ r \in children <=> Inside(d, r.path)
    BY <1>5 DEF WithDirectory, Stands
  <2>2. /\ \A q \in dirs : q.path \in Path
        /\ \A q \in dirs : q.path # new.path
        /\ new.path \in Path /\ f \in Path
    BY <1>1, <1>2, <1>4
  <2> HIDE DEF children, new, E
  <2> QED BY <1>5, <2>1, <2>2, StandsAfterAdd
<1>6. \A r \in children : r \in dirs
  OBVIOUS
<1>7. \A r \in dirs : r \notin children => r \in E
  OBVIOUS
<1>8. new \in E /\ \A r \in E : r = new \/ (r \in dirs /\ r \notin children)
  OBVIOUS
<1> HIDE DEF children, new, E
<1>9. \A r \in dirs, q \in dirs : r.id = q.id \/ r.path = q.path => r = q
  BY <1>2 DEF IDsOK
<1>10. IDsOK'
  <2>1. \A r \in dirs : r.id < nextId /\ r.id # nextId
    BY <1>2 DEF IDsOK
  <2>2. \A r \in E : r.id < nextId + 1
    BY <1>2, <1>8, <2>1
  <2>3. \A i \in DOMAIN queue : queue[i].dir < nextId + 1
    <3>1. \A i \in DOMAIN queue : queue[i].dir < nextId /\ queue[i].dir \in Nat
      BY <1>2, Queued DEF IDsOK, Op
    <3> QED BY <1>2, <3>1
  <2>4. ASSUME NEW r \in E, NEW q \in E, r.id = q.id \/ r.path = q.path PROVE r = q
    BY <1>1, <1>2, <1>8, <1>9, <2>1, <2>4
  <2> QED BY <1>1, <2>2, <2>3, <2>4 DEF IDsOK
<1>11. RowsOK'
  <2> SUFFICES ASSUME NEW z \in files'
               PROVE  \E f \in Files, r \in E : /\ z.dir = r.id /\ Stands(E, r, z.name, f)
                                                /\ z.stamp = recorded[f] /\ recorded[f] # None
    BY <1>1 DEF RowsOK
  <2>1. CASE z \in files /\ \A c \in children : c.id # z.dir
    <3>1. PICK f \in Files, r \in dirs : /\ z.dir = r.id /\ Stands(dirs, r, z.name, f)
                                         /\ z.stamp = recorded[f] /\ recorded[f] # None
      BY <1>2, <2>1 DEF RowsOK
    <3>2. r \notin children
      BY <2>1, <3>1
    <3> QED BY <1>5, <1>7, <3>1, <3>2
  <2>2. CASE \E c \in children, x \in files : x.dir = c.id /\ z = row(c, x)
    <3>1. PICK c \in children, x \in files : x.dir = c.id /\ z = row(c, x)
      BY <2>2
    <3>2. PICK f \in Files, r \in dirs : /\ x.dir = r.id /\ Stands(dirs, r, x.name, f)
                                         /\ x.stamp = recorded[f] /\ recorded[f] # None
      BY <1>2 DEF RowsOK
    <3>3. r = c
      BY <1>6, <1>9, <3>1, <3>2
    <3>4. Stands(E, new, Rel(d, c.path) \o x.name, f)
      BY <1>5, <3>2, <3>3
    <3> QED BY <1>2, <1>8, <3>1, <3>2, <3>4
  <2> QED BY <1>3, <2>1, <2>2
<1>12. HistoryOK'
  <2> SUFFICES ASSUME NEW f \in Files, recorded[f] # None
               PROVE  \E z \in files', r \in E : z.dir = r.id /\ Stands(E, r, z.name, f)
    BY <1>1 DEF HistoryOK
  <2>1. PICK x \in files, r \in dirs : x.dir = r.id /\ Stands(dirs, r, x.name, f)
    BY <1>2 DEF HistoryOK
  <2>2. CASE r \in children
    <3>1. row(r, x) \in files' /\ row(r, x).dir = new.id
      BY <1>2, <1>3, <2>1, <2>2
    <3>2. Stands(E, new, row(r, x).name, f)
      BY <1>5, <2>1, <2>2
    <3> QED BY <1>8, <3>1, <3>2
  <2>3. CASE r \notin children
    <3>1. \A c \in children : c.id # x.dir
      BY <1>6, <1>9, <2>1, <2>3
    <3>2. x \in files' /\ r \in E /\ Stands(E, r, x.name, f)
      BY <1>3, <1>5, <1>7, <2>1, <2>3, <3>1
    <3> QED BY <2>1, <3>2
  <2> QED BY <2>2, <2>3
<1>13. QueueOK'
  <2> SUFFICES ASSUME NEW i \in DOMAIN queue, NEW r \in E, r.id = queue[i].dir
               PROVE  Stands(E, r, queue[i].name, queue[i].file)
    BY <1>1 DEF QueueOK
  <2>1. queue[i] \in Op
    BY <1>2, Queued
  <2>2. queue[i].dir < nextId /\ queue[i].dir \in Nat /\ queue[i].file \in Files
    BY <1>2, <2>1 DEF IDsOK, Op
  <2>3. r \in dirs /\ r \notin children
    BY <1>2, <1>8, <2>2
  <2>4. Stands(dirs, r, queue[i].name, queue[i].file)
    BY <1>2, <2>3 DEF QueueOK
  <2> QED BY <1>5, <2>2, <2>3, <2>4
<1> QED BY <1>10, <1>11, <1>12, <1>13

LEMMA StageKeeps ==
    ASSUME IInv, NEW r \in dirs, StageOneFile(r)
    PROVE  IDsOK' /\ RowsOK' /\ HistoryOK' /\ QueueOK'
<1> DEFINE op == [dir |-> r.id, name |-> Rel(r.path, Current.file),
                  stamp |-> Current.stamp, file |-> Current.file]
<1>1. TypeOK /\ IDsOK /\ RowsOK /\ HistoryOK /\ QueueOK
  BY DEF IInv
<1>2. /\ op \in Op /\ queue' = Append(queue, op)
      /\ UNCHANGED <<dirs, files, nextId, recorded>>
  BY <1>1, QueuedType DEF StageOneFile, dbVars
<1>3. Stands(dirs, r, op.name, op.file) /\ op.dir = r.id
  <2>1. Current.file \in Path /\ r \in Owner(Current.file)
    BY <1>1, CurrentType DEF StageOneFile
  <2> QED BY <1>1, <2>1, OwnerIs DEF Stands
<1> HIDE DEF op
<1>4. /\ DOMAIN queue = 1..Len(queue) /\ DOMAIN queue' = 1..(Len(queue) + 1)
      /\ Len(queue) \in Nat
      /\ \A i \in 1..Len(queue) : queue'[i] = queue[i]
      /\ queue'[Len(queue) + 1] = op
  BY <1>1, <1>2, Queued, AppendProperties, LenProperties
<1>5. \A i \in DOMAIN queue' : (i \in DOMAIN queue /\ queue'[i] = queue[i]) \/ queue'[i] = op
  BY <1>4
<1>6. IDsOK'
  BY <1>1, <1>2, <1>3, <1>5 DEF IDsOK
<1>7. QueueOK'
  <2> SUFFICES ASSUME NEW i \in DOMAIN queue', NEW q \in dirs, q.id = queue'[i].dir
               PROVE  Stands(dirs, q, queue'[i].name, queue'[i].file)
    BY <1>2 DEF QueueOK
  <2>1. CASE i \in DOMAIN queue /\ queue'[i] = queue[i]
    BY <1>1, <2>1 DEF QueueOK
  <2>2. CASE queue'[i] = op
    <3>1. q = r
      BY <1>1, <1>3, <2>2 DEF IDsOK
    <3> QED BY <1>3, <2>2, <3>1
  <2> QED BY <1>5, <2>1, <2>2
<1>8. RowsOK' /\ HistoryOK'
  BY <1>1, <1>2 DEF RowsOK, HistoryOK
<1> QED BY <1>6, <1>7, <1>8

LEMMA BackupKeeps ==
    ASSUME IInv, BackupNext
    PROVE  IDsOK' /\ RowsOK' /\ HistoryOK' /\ QueueOK'
<1> DEFINE op == Head(queue)
           new == [dir |-> op.dir, name |-> op.name, stamp |-> op.stamp]
<1>1. /\ TypeOK /\ IDsOK /\ RowsOK /\ HistoryOK /\ QueueOK
      /\ \A q \in dirs : q.path \in Path
      /\ \A q \in dirs, p \in dirs : q.id = p.id \/ q.path = p.path => q = p
      /\ \A f \in Files : f \in Path
  BY DirPaths, WalkIsFiles DEF IInv, IDsOK
<1>2. PICK r \in dirs : r.id = op.dir
  BY DEF BackupNext
<1>3. /\ queue # << >> /\ queue \in Seq(Op) /\ queue' = Tail(queue)
      /\ recorded' = [recorded EXCEPT ![op.file] = op.stamp]
      /\ files' = {x \in files : ~(x.dir = op.dir /\ x.name = op.name)} \cup {new}
      /\ UNCHANGED <<dirs, nextId>>
  BY <1>1, Queued DEF BackupNext, Recorded
<1>4. /\ Len(queue) \in Nat \ {0} /\ DOMAIN queue = 1..Len(queue)
      /\ DOMAIN queue' = 1..(Len(queue) - 1)
      /\ \A i \in DOMAIN queue' : i + 1 \in DOMAIN queue /\ queue'[i] = queue[i + 1]
      /\ 1 \in DOMAIN queue /\ op = queue[1] /\ op \in Op
  <2>1. Len(queue) \in Nat \ {0} /\ DOMAIN queue = 1..Len(queue)
    BY <1>3, EmptySeq, LenProperties
  <2>2. /\ Tail(queue) \in Seq(Op) /\ Len(Tail(queue)) = Len(queue) - 1
        /\ \A i \in 1..Len(Tail(queue)) : Tail(queue)[i] = queue[i + 1]
        /\ Head(queue) \in Op
    BY <1>3, HeadTailProperties
  <2>3. DOMAIN queue' = 1..(Len(queue) - 1) /\ \A i \in DOMAIN queue' : queue'[i] = queue[i + 1]
    BY <1>3, <2>2, LenProperties
  <2>4. 1 \in DOMAIN queue
    BY <2>1
  <2>5. Head(queue) = queue[1]
    BY <1>3, <2>1
  <2>6. \A i \in DOMAIN queue' : i + 1 \in DOMAIN queue
    BY <2>1, <2>3
  <2> QED BY <2>1, <2>2, <2>3, <2>4, <2>5, <2>6
<1>5. Stands(dirs, r, op.name, op.file) /\ op.file \in Files /\ op.stamp \in Stamps
  BY <1>1, <1>2, <1>4 DEF QueueOK, Op
<1>6. /\ recorded'[op.file] = op.stamp /\ op.stamp # None
      /\ \A f \in Files : f # op.file => recorded'[f] = recorded[f]
  BY <1>1, <1>3, <1>5, TreeAssumption DEF TypeOK
<1>7. /\ new \in files' /\ new.dir = r.id /\ new.name = op.name /\ new.stamp = op.stamp
      /\ \A z \in files' : z = new \/ (z \in files /\ ~(z.dir = r.id /\ z.name = op.name))
      /\ \A x \in files : (x.dir = r.id /\ x.name = op.name) \/ x \in files'
  BY <1>2, <1>3
<1> HIDE DEF op, new
<1>8. IDsOK'
  BY <1>1, <1>3, <1>4 DEF IDsOK
<1>9. QueueOK'
  BY <1>1, <1>3, <1>4 DEF QueueOK
<1>10. RowsOK'
  <2> SUFFICES ASSUME NEW z \in files'
               PROVE  \E f \in Files, q \in dirs : /\ z.dir = q.id /\ Stands(dirs, q, z.name, f)
                                                   /\ z.stamp = recorded'[f] /\ recorded'[f] # None
    BY <1>3 DEF RowsOK
  <2>1. CASE z = new
    BY <1>5, <1>6, <1>7, <2>1
  <2>2. CASE z \in files /\ ~(z.dir = r.id /\ z.name = op.name)
    <3>1. PICK f \in Files, q \in dirs : /\ z.dir = q.id /\ Stands(dirs, q, z.name, f)
                                         /\ z.stamp = recorded[f] /\ recorded[f] # None
      BY <1>1, <2>2 DEF RowsOK
    <3>2. f # op.file
      <4> SUFFICES ASSUME f = op.file PROVE FALSE
        OBVIOUS
      <4>1. q = r /\ z.name = op.name
        BY <1>1, <1>5, <3>1, StandsOnce
      <4> QED BY <2>2, <3>1, <4>1
    <3> QED BY <1>6, <3>1, <3>2
  <2> QED BY <1>7, <2>1, <2>2
<1>11. HistoryOK'
  <2> SUFFICES ASSUME NEW f \in Files, recorded'[f] # None
               PROVE  \E z \in files', q \in dirs : z.dir = q.id /\ Stands(dirs, q, z.name, f)
    BY <1>3 DEF HistoryOK
  <2>1. CASE f = op.file
    BY <1>5, <1>7, <2>1
  <2>2. CASE f # op.file
    <3>1. PICK x \in files, q \in dirs : x.dir = q.id /\ Stands(dirs, q, x.name, f)
      BY <1>1, <1>6, <2>2 DEF HistoryOK
    <3>2. ~(x.dir = r.id /\ x.name = op.name)
      <4> SUFFICES ASSUME x.dir = r.id, x.name = op.name PROVE FALSE
        OBVIOUS
      <4>1. q = r
        BY <1>1, <3>1
      <4>2. f = op.file
        BY <1>1, <1>5, <3>1, <4>1, StandsForOne
      <4> QED BY <2>2, <4>2
    <3> QED BY <1>7, <3>1, <3>2
  <2> QED BY <2>1, <2>2
<1> QED BY <1>8, <1>9, <1>10, <1>11

LEMMA InvStep == IInv /\ [Next]_vars => IInv'
<1> SUFFICES ASSUME IInv, [Next]_vars PROVE IInv'
  OBVIOUS
<1>1. TypeOK'
  BY TypeStep DEF IInv
<1>2. ASSUME NEW d \in Dirs, AddDirectory(d) PROVE IInv'
  BY <1>1, <1>2, AddDirectoryKeeps DEF IInv
<1>3. ASSUME NEW r \in dirs, StageOneFile(r) PROVE IInv'
  BY <1>1, <1>3, StageKeeps DEF IInv
<1>4. CASE BackupNext
  BY <1>1, <1>4, BackupKeeps DEF IInv
<1>5. CASE UNCHANGED <<dirs, files, nextId, queue, recorded>>
  BY <1>1, <1>5 DEF IInv, IDsOK, RowsOK, HistoryOK, QueueOK
<1> QED
  BY <1>2, <1>3, <1>4, <1>5 DEF Next, vars, userVars, dbVars, ChangeFile, EditIgnoreFile,
     AddFiles, AddFile, Restore, StageFails, AddReturns

LEMMA Invariant == Spec => []IInv
<1>1. Init => IInv
  <2> SUFFICES ASSUME Init PROVE IInv
    OBVIOUS
  <2>1. TypeOK
    BY DEF Init, TypeOK
  <2> QED BY <2>1 DEF Init, IInv, IDsOK, RowsOK, HistoryOK, QueueOK
<1> QED BY <1>1, InvStep, PTL DEF Spec

-----------------------------------------------------------------------------
(* Restore                                                                 *)

LEMMA OwnerStands ==
    ASSUME TypeOK, NEW f \in Files, NEW r
    PROVE  r \in Owner(f) <=> Stands(dirs, r, Rel(r.path, f), f)
BY OwnerIs, WalkIsFiles DEF Stands

\* The row of a file in the directory that owns it is the file's.
LEMMA RowIs ==
    ASSUME IInv, NEW f \in Files, NEW r \in Owner(f), NEW x \in FindFile(r, Rel(r.path, f))
    PROVE  x \in files /\ recorded[f] # None /\ x.stamp = recorded[f]
<1>1. TypeOK /\ IDsOK /\ RowsOK /\ (\A q \in dirs : q.path \in Path) /\ f \in Path
  BY DirPaths, WalkIsFiles DEF IInv
<1>2. Stands(dirs, r, Rel(r.path, f), f) /\ r \in dirs
  BY <1>1, OwnerStands DEF Stands
<1>3. x \in files /\ x.dir = r.id /\ x.name = Rel(r.path, f)
  BY DEF FindFile
<1>4. PICK g \in Files, q \in dirs : /\ x.dir = q.id /\ Stands(dirs, q, x.name, g)
                                     /\ x.stamp = recorded[g] /\ recorded[g] # None
  BY <1>1, <1>3 DEF RowsOK
<1>5. q = r
  BY <1>1, <1>2, <1>3, <1>4 DEF IDsOK
<1>6. g = f
  BY <1>1, <1>2, <1>3, <1>4, <1>5, StandsForOne, WalkIsFiles
<1> QED BY <1>3, <1>4, <1>6

\* A file that was backed up has a row in the directory that owns it.
LEMMA RowExists ==
    ASSUME IInv, NEW f \in Files, recorded[f] # None
    PROVE  \E r \in Owner(f) : FindFile(r, Rel(r.path, f)) # {}
<1>1. PICK x \in files, r \in dirs : x.dir = r.id /\ Stands(dirs, r, x.name, f)
  BY DEF IInv, HistoryOK
<1>2. r \in Owner(f) /\ x.name = Rel(r.path, f)
  BY <1>1, OwnerStands DEF IInv, Stands
<1> QED BY <1>1, <1>2 DEF FindFile

\* A directory that holds a file and is in no other tracked one owns it.
LEMMA OpenOwns ==
    ASSUME IInv, NEW r \in dirs, ~Shadowed(r), NEW f \in Path
    PROVE  Holds(r.path, f) => Owner(f) = {r}
<1> SUFFICES ASSUME Holds(r.path, f) PROVE Owner(f) = {r}
  OBVIOUS
<1>1. TypeOK /\ IDsOK /\ (\A q \in dirs : q.path \in Path)
  BY DirPaths DEF IInv
<1>2. ASSUME NEW q \in dirs, Holds(q.path, f)
      PROVE  Len(r.path) <= Len(q.path)
  <2>1. Len(q.path) \in Nat /\ Len(r.path) \in Nat
    BY <1>1, LenProperties DEF Path
  <2>2. SUFFICES ASSUME Len(q.path) < Len(r.path) PROVE FALSE
    BY <2>1
  <2>3. Holds(q.path, r.path)
    BY <1>1, <1>2, <2>1, <2>2, Chain
  <2>4. Inside(q.path, r.path)
    BY <1>1, <2>2, <2>3, InsideIs
  <2> QED BY <2>4 DEF Shadowed
<1>3. r \in Owner(f)
  BY <1>1, <1>2, OwnerIs
<1>4. ASSUME NEW q \in Owner(f) PROVE q = r
  <2>1. Stands(dirs, q, Rel(q.path, f), f) /\ Stands(dirs, r, Rel(r.path, f), f)
    BY <1>1, <1>3, OwnerIs DEF Stands
  <2> QED BY <1>1, <2>1, StandsOnce DEF IDsOK
<1> QED BY <1>3, <1>4

LEMMA RestoresFile ==
    ASSUME IInv, NEW f \in Files
    PROVE  RestoreVersion(f) = {recorded[f]} \ {None}
<1>1. ASSUME NEW s \in RestoreVersion(f) PROVE s = recorded[f] /\ s # None
  <2>1. PICK r \in Owner(f) : \E x \in FindFile(r, Rel(r.path, f)) : s = x.stamp
    BY DEF RestoreVersion
  <2> QED BY <2>1, RowIs
<1>2. ASSUME recorded[f] # None PROVE recorded[f] \in RestoreVersion(f)
  <2>1. PICK r \in Owner(f) : FindFile(r, Rel(r.path, f)) # {}
    BY <1>2, RowExists
  <2>2. PICK x \in FindFile(r, Rel(r.path, f)) : TRUE
    BY <2>1
  <2>3. x.stamp = recorded[f]
    BY <2>2, RowIs
  <2> QED BY <2>2, <2>3 DEF RestoreVersion
<1> QED BY <1>1, <1>2

LEMMA RestoresDirectory ==
    ASSUME IInv, NEW r \in dirs, ~Shadowed(r)
    PROVE  RestoreDirectory(r) = LastVersions(r.path)
<1>1. TypeOK /\ IDsOK /\ RowsOK /\ r.path \in Path
  BY DirPaths DEF IInv
<1>2. ASSUME NEW z \in RestoreDirectory(r) PROVE z \in LastVersions(r.path)
  <2>1. PICK x \in files : x.dir = r.id /\ z = [file |-> r.path \o x.name, stamp |-> x.stamp]
    BY DEF RestoreDirectory
  <2>2. PICK f \in Files, q \in dirs : /\ x.dir = q.id /\ Stands(dirs, q, x.name, f)
                                       /\ x.stamp = recorded[f] /\ recorded[f] # None
    BY <1>1 DEF RowsOK
  <2>3. q = r
    BY <1>1, <2>1, <2>2 DEF IDsOK
  <2>4. Holds(r.path, f) /\ x.name = Rel(r.path, f) /\ f \in Path
    BY <2>2, <2>3, WalkIsFiles DEF Stands
  <2>5. r.path \o x.name = f
    BY <1>1, <2>4, RelIs
  <2>6. Inside(r.path, f)
    BY <1>1, <2>2, <2>3, OwnerAbove, OwnerStands DEF Stands
  <2> QED BY <2>1, <2>2, <2>5, <2>6 DEF LastVersions
<1>3. ASSUME NEW z \in LastVersions(r.path) PROVE z \in RestoreDirectory(r)
  <2>1. PICK f \in Files : /\ Inside(r.path, f) /\ recorded[f] # None
                           /\ z = [file |-> f, stamp |-> recorded[f]]
    BY DEF LastVersions
  <2>2. f \in Path /\ Holds(r.path, f)
    BY <1>1, <2>1, WalkIsFiles, HoldsIs
  <2>3. PICK x \in FindFile(r, Rel(r.path, f)) : TRUE
    BY <2>1, <2>2, OpenOwns, RowExists
  <2>4. x \in files /\ x.stamp = recorded[f] /\ x.dir = r.id /\ x.name = Rel(r.path, f)
    BY <2>2, <2>3, OpenOwns, RowIs DEF FindFile
  <2>5. r.path \o x.name = f
    BY <1>1, <2>2, <2>4, RelIs
  <2> QED BY <2>1, <2>4, <2>5 DEF RestoreDirectory
<1> QED BY <1>2, <1>3

\* bt restore of a file finds its last backed-up version, and of a tracked
\* directory that of every file below it, across consolidation; excepted a
\* directory tracked inside another one.
THEOREM LastVersionsFound == Spec => []RestoreFindsLast
<1>1. IInv => RestoreFindsLast
  BY RestoresFile, RestoresDirectory DEF RestoreFindsLast
<1> QED BY <1>1, Invariant, PTL

-----------------------------------------------------------------------------
(* Status                                                                  *)

\* A status of d is about the files below d or in it.
Below(f, d, recursive) == IF recursive THEN Inside(d, f) ELSE Front(f) = d

\* Those it finds on disk, those it shows as missing, and their names.
Here(d, recursive) == {f \in Files : Below(f, d, recursive) /\ Visible(f, d)}
Gone(d, recursive) ==
    {f \in Files : Below(f, d, recursive) /\ ~Visible(f, d) /\ recorded[f] # None}
Names(r, set) == {Rel(r.path, f) : f \in set}

\* The directory the files of d are listed under owns them all.
LEMMA ListedUnder ==
    ASSUME IInv, NEW d \in Dirs, NEW recursive \in BOOLEAN,
           NEW r \in DirectoryFor(d), ~Shadowed(r)
    PROVE  /\ r \in dirs /\ r.path \in Path /\ d \in Path /\ Holds(r.path, d)
           /\ \A f \in Files :
                /\ Below(f, d, recursive) <=> Inside(d, f) /\ (recursive \/ Len(f) = Len(d) + 1)
                /\ Inside(d, f) => f \in Path /\ Holds(r.path, f) /\ Owner(f) = {r}
<1>1. TypeOK /\ (\A q \in dirs : q.path \in Path) /\ d \in Path
  BY DirPaths, TreeAssumption DEF IInv, Path
<1>2. r \in dirs /\ Holds(r.path, d)
  <2>1. CASE r \in Tracked(d)
    BY <1>1, <2>1, HoldsIs DEF Tracked
  <2>2. CASE r \in Owner(d)
    BY <1>1, <2>2, OwnerIs
  <2> QED BY <2>1, <2>2 DEF DirectoryFor
<1>3. ASSUME NEW f \in Files
      PROVE  Below(f, d, recursive) <=> Inside(d, f) /\ (recursive \/ Len(f) = Len(d) + 1)
  <2>1. f \in Path /\ f # << >>
    BY WalkIsFiles
  <2> QED BY <1>1, <2>1, FrontIs DEF Below
<1>4. ASSUME NEW f \in Files, Inside(d, f)
      PROVE  f \in Path /\ Holds(r.path, f) /\ Owner(f) = {r}
  <2>1. f \in Path
    BY WalkIsFiles
  <2>2. Holds(d, f)
    BY <1>1, <1>4, <2>1, HoldsIs
  <2>3. Holds(r.path, f)
    BY <1>1, <1>2, <2>1, <2>2, HoldsTransitive
  <2> QED BY <1>2, <2>1, <2>3, OpenOwns
<1> QED BY <1>1, <1>2, <1>3, <1>4

\* What the queue holds under a file's directory ID and name is the file.
LEMMA StagedIs ==
    ASSUME IInv, NEW f \in Files, NEW r, Owner(f) = {r}
    PROVE  (\E i \in DOMAIN queue : queue[i].dir = r.id /\ queue[i].name = Rel(r.path, f))
           <=> (\E i \in DOMAIN queue : queue[i].file = f /\ queue[i].dir = r.id)
<1>1. TypeOK /\ QueueOK /\ (\A q \in dirs : q.path \in Path) /\ f \in Path
  BY DirPaths, WalkIsFiles DEF IInv
<1>2. r \in dirs /\ Stands(dirs, r, Rel(r.path, f), f)
  BY <1>1, OwnerStands DEF Stands
<1>3. ASSUME NEW i \in DOMAIN queue, queue[i].dir = r.id
      PROVE  queue[i].name = Rel(r.path, f) <=> queue[i].file = f
  <2>1. Stands(dirs, r, queue[i].name, queue[i].file)
    BY <1>1, <1>2, <1>3 DEF QueueOK
  <2>2. queue[i].file \in Path
    BY <1>1, Queued, WalkIsFiles DEF Op
  <2>3. queue[i].name = Rel(r.path, f) => queue[i].file = f
    BY <1>1, <1>2, <2>1, <2>2, StandsForOne
  <2>4. queue[i].file = f => queue[i].name = Rel(r.path, f)
    BY <2>1 DEF Stands
  <2> QED BY <2>3, <2>4
<1> QED BY <1>3

\* getFileStatus says of a file what its history and the queue say.
LEMMA FileStatusIs ==
    ASSUME IInv, NEW f \in Files, NEW r, Owner(f) = {r}
    PROVE  FileStatus(r, f) =
             [name |-> Rel(r.path, f),
              staged |-> \E i \in DOMAIN queue : queue[i].file = f /\ queue[i].dir = r.id,
              backedUp |-> recorded[f] # None,
              modified |-> recorded[f] # None /\ recorded[f] # disk[f]]
<1> DEFINE rows == FindFile(r, Rel(r.path, f))
<1>1. \A x \in rows : recorded[f] # None /\ x.stamp = recorded[f]
  BY RowIs
<1>2. recorded[f] # None => rows # {}
  BY RowExists
<1>3. rows # {} <=> recorded[f] # None
  BY <1>1, <1>2
<1>4. (\E x \in rows : x.stamp # disk[f]) <=> recorded[f] # None /\ recorded[f] # disk[f]
  BY <1>1, <1>2
<1>5. FileStatus(r, f) =
        [name |-> Rel(r.path, f),
         staged |-> \E i \in DOMAIN queue : queue[i].dir = r.id /\ queue[i].name = Rel(r.path, f),
         backedUp |-> rows # {},
         modified |-> \E x \in rows : x.stamp # disk[f]]
  BY DEF FileStatus
<1> HIDE DEF rows
<1> QED BY <1>3, <1>4, <1>5, StagedIs

\* The rows shown as missing are the backed-up files that were not found.
LEMMA MissingIs ==
    ASSUME IInv, NEW d \in Dirs, NEW recursive \in BOOLEAN,
           NEW r \in DirectoryFor(d), ~Shadowed(r)
    PROVE  {x.name : x \in Missing(r, d, recursive, Names(r, Here(d, recursive)))}
             = Names(r, Gone(d, recursive))
<1> DEFINE seen == Names(r, Here(d, recursive))
           gone == Gone(d, recursive)
           missing == Missing(r, d, recursive, seen)
<1> USE DEF Names, Here, Gone
<1>1. TypeOK /\ IDsOK /\ RowsOK
  BY DEF IInv
<1>2. r \in dirs /\ r.path \in Path /\ d \in Path /\ Holds(r.path, d)
  BY ListedUnder
<1>3. \A f \in Files :
        /\ Below(f, d, recursive) <=> Inside(d, f) /\ (recursive \/ Len(f) = Len(d) + 1)
        /\ Inside(d, f) => f \in Path /\ Holds(r.path, f) /\ Owner(f) = {r}
  BY ListedUnder
<1>4. ASSUME NEW f \in Files, Holds(r.path, f)
      PROVE  /\ Inside(Rel(r.path, d), Rel(r.path, f)) <=> Inside(d, f)
             /\ Len(Rel(r.path, f)) = Len(Rel(r.path, d)) + 1 <=> Len(f) = Len(d) + 1
  <2>1. f \in Path
    BY WalkIsFiles
  <2>2. Inside(Rel(r.path, d), Rel(r.path, f)) <=> Inside(d, f)
    BY <1>2, <1>4, <2>1, InsideOfRel
  <2>3. Len(Rel(r.path, f)) = Len(f) - Len(r.path) /\ Len(Rel(r.path, d)) = Len(d) - Len(r.path)
    BY <1>2, <1>4, <2>1, RelIs
  <2>4. Len(f) \in Nat /\ Len(d) \in Nat /\ Len(r.path) \in Nat
    BY <1>2, <2>1, LenProperties DEF Path
  <2> QED BY <2>2, <2>3, <2>4
<1>5. ASSUME NEW f \in Files, NEW g \in Files, Inside(d, f), Inside(d, g),
             Rel(r.path, f) = Rel(r.path, g)
      PROVE  f = g
  BY <1>2, <1>3, <1>5, RelInjective
<1>6. ASSUME NEW x \in missing
      PROVE  \E f \in gone : x.name = Rel(r.path, f)
  <2>1. /\ x \in files /\ x.dir = r.id /\ Inside(Rel(r.path, d), x.name)
        /\ recursive \/ Len(x.name) = Len(Rel(r.path, d)) + 1
        /\ x.name \notin seen
    BY DEF Missing
  <2>2. PICK f \in Files, q \in dirs : /\ x.dir = q.id /\ Stands(dirs, q, x.name, f)
                                       /\ recorded[f] # None
    BY <1>1, <2>1 DEF RowsOK
  <2>3. q = r
    BY <1>1, <1>2, <2>1, <2>2 DEF IDsOK
  <2>4. Holds(r.path, f) /\ x.name = Rel(r.path, f)
    BY <2>2, <2>3 DEF Stands
  <2>5. Below(f, d, recursive)
    BY <1>3, <1>4, <2>1, <2>4
  <2>6. ~Visible(f, d)
    BY <2>1, <2>4, <2>5
  <2> QED BY <2>2, <2>4, <2>5, <2>6
<1>7. ASSUME NEW f \in gone
      PROVE  \E x \in missing : x.name = Rel(r.path, f)
  <2>1. /\ Inside(d, f) /\ (recursive \/ Len(f) = Len(d) + 1)
        /\ Holds(r.path, f) /\ Owner(f) = {r} /\ recorded[f] # None /\ ~Visible(f, d)
    BY <1>3
  <2>2. PICK x \in FindFile(r, Rel(r.path, f)) : TRUE
    BY <2>1, RowExists
  <2>3. x \in files /\ x.dir = r.id /\ x.name = Rel(r.path, f)
    BY DEF FindFile
  <2>4. x.name \notin seen
    <3> SUFFICES ASSUME NEW g \in Files, Below(g, d, recursive), Visible(g, d),
                        x.name = Rel(r.path, g)
                 PROVE  FALSE
      OBVIOUS
    <3>1. f = g
      BY <1>3, <1>5, <2>1, <2>3
    <3> QED BY <2>1, <3>1
  <2>5. /\ Inside(Rel(r.path, d), x.name)
        /\ recursive \/ Len(x.name) = Len(Rel(r.path, d)) + 1
    BY <1>4, <2>1, <2>3
  <2> QED BY <2>3, <2>4, <2>5 DEF Missing
<1> HIDE DEF gone, missing
<1>8. {x.name : x \in missing} = {Rel(r.path, f) : f \in gone}
  BY <1>6, <1>7
<1> QED BY <1>8 DEF gone, missing, Names

\* The row shown for a file in a status of d, listed under r.
Told(r, f, d) ==
    [name |-> Rel(r.path, f),
     staged |-> /\ Visible(f, d)
                /\ \E i \in DOMAIN queue : queue[i].file = f /\ queue[i].dir = r.id,
     backedUp |-> recorded[f] # None,
     modified |-> recorded[f] # None /\ (recorded[f] # disk[f] \/ ~Visible(f, d))]

\* A status shows these rows and no others.
LEMMA StatusRows ==
    ASSUME IInv, NEW d \in Dirs, NEW recursive \in BOOLEAN,
           NEW r \in DirectoryFor(d), ~Shadowed(r)
    PROVE  GetStatus(r, d, recursive) = {Told(r, f, d) : f \in Listed(d, recursive)}
<1> DEFINE here == Here(d, recursive)
           gone == Gone(d, recursive)
           told(f) == Told(r, f, d)
           absent(name) == [name |-> name, staged |-> FALSE, backedUp |-> TRUE, modified |-> TRUE]
           onDisk == {FileStatus(r, f) : f \in ToSet(FindFiles(d, recursive))}
           seen == {y.name : y \in onDisk}
<1>1. ToSet(FindFiles(d, recursive)) = here
  <2>1. d \in Path
    BY TreeAssumption DEF Path
  <2>2. Wanted(d, recursive) = here
    BY DEF Wanted, Here, Below, Visible
  <2> QED BY <2>1, <2>2, FindIs
<1>2. ASSUME NEW f \in here PROVE FileStatus(r, f) = told(f)
  <2>1. f \in Files /\ Visible(f, d) /\ Owner(f) = {r}
    BY ListedUnder DEF Here, Below
  <2>2. /\ (Visible(f, d) /\ \E i \in DOMAIN queue : queue[i].file = f /\ queue[i].dir = r.id)
           = (\E i \in DOMAIN queue : queue[i].file = f /\ queue[i].dir = r.id)
        /\ (recorded[f] # None /\ (recorded[f] # disk[f] \/ ~Visible(f, d)))
           = (recorded[f] # None /\ recorded[f] # disk[f])
    BY <2>1
  <2> QED BY <2>1, <2>2, FileStatusIs DEF Told
<1>3. ASSUME NEW f \in gone PROVE absent(Rel(r.path, f)) = told(f)
  <2>1. (Visible(f, d) /\ \E i \in DOMAIN queue : queue[i].file = f /\ queue[i].dir = r.id) = FALSE
    BY DEF Gone
  <2>2. /\ (recorded[f] # None) = TRUE
        /\ (recorded[f] # None /\ (recorded[f] # disk[f] \/ ~Visible(f, d))) = TRUE
    BY DEF Gone
  <2> QED BY <2>1, <2>2 DEF Told
<1>4. Listed(d, recursive) = here \cup gone
  BY DEF Below, Here, Gone, Listed
<1>5. \A f : told(f).name = Rel(r.path, f)
  BY DEF Told
<1> HIDE DEF told
<1>6. onDisk = {told(f) : f \in here}
  <2> HIDE DEF here
  <2> QED BY <1>1, <1>2
<1>7. seen = Names(r, here)
  <2> HIDE DEF here, onDisk
  <2> QED BY <1>5, <1>6 DEF Names
<1>8. {x.name : x \in Missing(r, d, recursive, seen)} = Names(r, gone)
  <2> HIDE DEF seen
  <2> QED BY <1>7, MissingIs
<1>9. {absent(x.name) : x \in Missing(r, d, recursive, seen)} = {told(f) : f \in gone}
  <2> HIDE DEF absent, gone, seen
  <2> QED BY <1>3, <1>8 DEF Names
<1>10. GetStatus(r, d, recursive)
         = onDisk \cup {absent(x.name) : x \in Missing(r, d, recursive, seen)}
  BY DEF GetStatus
<1> HIDE DEF onDisk, seen, absent, here, gone
<1>11. GetStatus(r, d, recursive) = {told(f) : f \in Listed(d, recursive)}
  BY <1>4, <1>6, <1>9, <1>10
<1> QED BY <1>11 DEF told

\* A queued file that is not orphaned is queued under the ID of its directory.
LEMMA QueuedUnderOwner ==
    ASSUME IInv, NEW f \in Files, NEW r, Owner(f) = {r}, InQueue(f), ~Orphaned(f)
    PROVE  \E i \in DOMAIN queue : queue[i].file = f /\ queue[i].dir = r.id
<1>1. PICK i \in DOMAIN queue : queue[i].file = f /\ \E q \in dirs : q.id = queue[i].dir
  BY DEF Orphaned
<1>2. PICK q \in dirs : q.id = queue[i].dir
  BY <1>1
<1>3. Stands(dirs, q, queue[i].name, f)
  BY <1>1, <1>2 DEF IInv, QueueOK
<1>4. q \in Owner(f)
  BY <1>3, OwnerStands DEF IInv, Stands
<1> QED BY <1>1, <1>2, <1>4

LEMMA StatusIsTrue == IInv => StatusTellsTruth
<1> SUFFICES ASSUME IInv, NEW d \in Dirs, NEW recursive \in BOOLEAN,
                    NEW r \in DirectoryFor(d), ~Shadowed(r)
             PROVE  LET rows == GetStatus(r, d, recursive)
                    IN  /\ {x.name : x \in rows} = {Rel(r.path, f) : f \in Listed(d, recursive)}
                        /\ \A x \in rows, f \in Listed(d, recursive) : x.name = Rel(r.path, f) =>
                               /\ x.backedUp <=> recorded[f] # None
                               /\ x.modified <=> recorded[f] # None
                                                 /\ (recorded[f] # disk[f] \/ ~Visible(f, d))
                               /\ x.staged => InQueue(f)
                               /\ InQueue(f) /\ Visible(f, d) /\ ~Orphaned(f) => x.staged
  BY DEF StatusTellsTruth
<1> DEFINE rows == GetStatus(r, d, recursive)
           listed == Listed(d, recursive)
<1>1. rows = {Told(r, f, d) : f \in listed}
  BY StatusRows
<1>2. r.path \in Path
  BY ListedUnder
<1>3. ASSUME NEW f \in listed
      PROVE  f \in Files /\ f \in Path /\ Holds(r.path, f) /\ Owner(f) = {r}
  <2>1. f \in Files /\ Below(f, d, recursive)
    BY DEF Listed, Below
  <2> QED BY <2>1, ListedUnder
<1>4. \A f : Told(r, f, d).name = Rel(r.path, f)
  BY DEF Told
<1>5. {x.name : x \in rows} = {Rel(r.path, f) : f \in listed}
  <2> HIDE DEF rows, listed
  <2> QED BY <1>1, <1>4
<1>6. ASSUME NEW x \in rows, NEW f \in listed, x.name = Rel(r.path, f)
      PROVE  /\ x.backedUp <=> recorded[f] # None
             /\ x.modified <=> recorded[f] # None
                               /\ (recorded[f] # disk[f] \/ ~Visible(f, d))
             /\ x.staged => InQueue(f)
             /\ InQueue(f) /\ Visible(f, d) /\ ~Orphaned(f) => x.staged
  <2>1. PICK g \in listed : x = Told(r, g, d)
    BY <1>1
  <2>2. g = f
    BY <1>2, <1>3, <1>4, <1>6, <2>1, RelInjective
  <2>3. /\ x.backedUp <=> recorded[f] # None
        /\ x.modified <=> recorded[f] # None
                          /\ (recorded[f] # disk[f] \/ ~Visible(f, d))
        /\ x.staged <=> /\ Visible(f, d)
                        /\ \E i \in DOMAIN queue : queue[i].file = f /\ queue[i].dir = r.id
    BY <2>1, <2>2 DEF Told
  <2>4. x.staged => InQueue(f)
    BY <2>3 DEF InQueue
  <2>5. InQueue(f) /\ Visible(f, d) /\ ~Orphaned(f) => x.staged
    BY <1>3, <2>3, QueuedUnderOwner
  <2> QED BY <2>3, <2>4, <2>5
<1> HIDE DEF rows, listed
<1> QED BY <1>5, <1>6 DEF rows, listed

\* bt dir status tells the truth about the files below a directory, whatever
\* was tracked, consolidated, added, backed up, changed, removed or ignored
\* before; excepted what StatusTellsTruth excepts: a directory tracked inside
\* another, and as staged a file whose directory was consolidated since.
THEOREM StatusIsRight == Spec => []StatusTellsTruth
BY StatusIsTrue, Invariant, PTL
=============================================================================
