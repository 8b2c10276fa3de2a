--------------------------- MODULE VTablesProofs ---------------------------
(***************************************************************************)
(* Theorems about VTables, for any programs, traits and methods.           *)
(***************************************************************************)
EXTENDS VTables, SequenceTheorems, FiniteSetTheorems, WellFoundedInduction, TLAPS

\* A set of numbers that is not empty has a least one.
LEMMA LeastNumber ==
  ASSUME NEW S \in SUBSET Nat, S # {}
  PROVE  \E n \in S : \A k \in S : n <= k
<1>1. IsWellFoundedOn(OpToRel(<, Nat), Nat)
  BY NatLessThanWellFounded, Zenon
<1>2. PICK n \in S : \A k \in S : ~ (<<k, n>> \in OpToRel(<, Nat))
  BY <1>1, WFMin, Zenon
<1>3. \A k \in S : ~ (k < n)
  BY <1>2 DEF OpToRel
<1> QED BY <1>3

-----------------------------------------------------------------------------
(* Joining sequences                                                       *)

\* The function that FlattenSeq defines: what the first i sequences are together.
Joins(f, b) ==
  f = [i \in 1 .. Len(b) |-> IF i = 1 THEN b[i] ELSE f[i - 1] \o b[i]]

LEMMA JoinsExist ==
  ASSUME NEW b \in Seq(Seq(Words))
  PROVE  \E f \in [1 .. Len(b) -> Seq(Words)] : Joins(f, b)
<1> DEFINE Joined(f, i) == IF i = 1 THEN b[i] ELSE f[i - 1] \o b[i]
           Upto(n) == \E f \in [1 .. Len(b) -> Seq(Words)] :
                        \A i \in 1 .. Len(b) : i <= n => f[i] = Joined(f, i)
           Wrong == {n \in 0 .. Len(b) : ~Upto(n)}
<1>1. Len(b) \in Nat /\ \A i \in 1 .. Len(b) : b[i] \in Seq(Words)
  BY LenProperties, ElementOfSeq
<1>2. ASSUME NEW f \in [1 .. Len(b) -> Seq(Words)], NEW i \in 1 .. Len(b)
      PROVE  Joined(f, i) \in Seq(Words)
  <2>1. CASE i = 1
    BY <1>1, <2>1
  <2>2. CASE i # 1
    <3>1. i - 1 \in 1 .. Len(b)
      BY <1>1, <2>2
    <3>2. f[i - 1] \in Seq(Words) /\ b[i] \in Seq(Words)
      BY <1>1, <3>1
    <3> QED BY <2>2, <3>2, ConcatProperties
  <2> QED BY <2>1, <2>2
<1>3. Upto(0)
  BY <1>1
<1>4. ASSUME NEW n \in 0 .. Len(b), n # 0, Upto(n - 1)
      PROVE  Upto(n)
  <2>1. PICK f \in [1 .. Len(b) -> Seq(Words)] :
               \A i \in 1 .. Len(b) : i <= n - 1 => f[i] = Joined(f, i)
    BY <1>4, Zenon
  <2> DEFINE g == [i \in 1 .. Len(b) |-> Joined(f, i)]
  <2>2. g \in [1 .. Len(b) -> Seq(Words)]
    BY <1>2
  <2>3. ASSUME NEW i \in 1 .. Len(b), i <= n
        PROVE  g[i] = Joined(g, i)
    <3>1. CASE i = 1
      BY <3>1
    <3>2. CASE i # 1
      <4>1. i - 1 \in 1 .. Len(b) /\ i - 1 <= n - 1
        BY <2>3, <3>2, <1>1
      <4>2. f[i - 1] = Joined(f, i - 1) /\ g[i - 1] = Joined(f, i - 1) /\ g[i] = Joined(f, i)
        <5> HIDE DEF Joined
        <5> QED BY <2>1, <4>1
      <4>3. f[i - 1] = g[i - 1]
        BY <4>2, Zenon
      <4> HIDE DEF g
      <4> QED BY <3>2, <4>2, <4>3
    <3> QED BY <3>1, <3>2
  <2> QED BY <2>2, <2>3
<1>5. Wrong = {}
  <2>1. SUFFICES ASSUME Wrong # {} PROVE FALSE
    OBVIOUS
  <2> HIDE DEF Upto
  <2>2. PICK n \in Wrong : \A k \in Wrong : n <= k
    <3>1. Wrong \subseteq Nat
      BY <1>1
    <3> HIDE DEF Wrong
    <3> QED BY <2>1, <3>1, LeastNumber
  <2>3. n # 0 /\ n - 1 \in 0 .. Len(b) /\ n - 1 \notin Wrong
    BY <2>2, <1>1, <1>3
  <2> QED BY <2>2, <2>3, <1>4
<1>6. Upto(Len(b))
  <2> HIDE DEF Upto
  <2> QED BY <1>5, <1>1
<1>7. PICK f \in [1 .. Len(b) -> Seq(Words)] :
        \A i \in 1 .. Len(b) : i <= Len(b) => f[i] = Joined(f, i)
  BY <1>6
<1>8. f = [i \in 1 .. Len(b) |-> Joined(f, i)]
  <2> HIDE DEF Joined
  <2>1. \A i \in 1 .. Len(b) : f[i] = Joined(f, i)
    BY <1>7, <1>1
  <2> QED BY <2>1
<1> QED BY <1>7, <1>8 DEF Joins

LEMMA JoinsUnique ==
  ASSUME NEW b \in Seq(Seq(Words)), NEW f, NEW g, Joins(f, b), Joins(g, b)
  PROVE  f = g
<1> DEFINE Wrong == {i \in 1 .. Len(b) : f[i] # g[i]}
<1>1. Len(b) \in Nat
  BY LenProperties
<1>2. \A i \in 1 .. Len(b) : /\ f[i] = IF i = 1 THEN b[i] ELSE f[i - 1] \o b[i]
                             /\ g[i] = IF i = 1 THEN b[i] ELSE g[i - 1] \o b[i]
  BY Zenon DEF Joins
<1>3. Wrong = {}
  <2>1. SUFFICES ASSUME Wrong # {} PROVE FALSE
    OBVIOUS
  <2>2. PICK i \in Wrong : \A k \in Wrong : i <= k
    <3>1. Wrong \subseteq Nat
      BY <1>1
    <3> HIDE DEF Wrong
    <3> QED BY <2>1, <3>1, LeastNumber
  <2>3. i \in 1 .. Len(b) /\ f[i] # g[i]
    BY <2>2
  <2>4. i # 1
    BY <2>3, <1>2
  <2>5. i - 1 \in 1 .. Len(b) /\ i - 1 \notin Wrong
    <3>1. i - 1 \in 1 .. Len(b) /\ ~(i <= i - 1)
      BY <1>1, <2>3, <2>4
    <3> HIDE DEF Wrong
    <3> QED BY <2>2, <3>1
  <2>6. f[i - 1] = g[i - 1]
    BY <2>5
  <2> HIDE DEF Wrong
  <2> QED BY <2>3, <2>4, <2>6, <1>2
<1>4. /\ f = [i \in 1 .. Len(b) |-> f[i]]
      /\ g = [i \in 1 .. Len(b) |-> g[i]]
  BY DEF Joins
<1> QED BY <1>3, <1>4

\* FlattenSeq is what it was defined to be.
LEMMA FlattenJoins ==
  ASSUME NEW b \in Seq(Seq(Words)), Len(b) # 0, NEW f, Joins(f, b)
  PROVE  FlattenSeq(b) = f[Len(b)]
<1> DEFINE flat == CHOOSE g : Joins(g, b)
<1>1. Joins(flat, b)
  OBVIOUS
<1>2. flat = f
  BY <1>1, JoinsUnique
<1>3. FlattenSeq(b) = flat[Len(b)]
  BY DEF FlattenSeq, Joins
<1> QED BY <1>2, <1>3

\* What the first n sequences are together: nothing, and then one more.
LEMMA FlattenSteps ==
  ASSUME NEW N \in Nat, NEW b \in [1 .. N -> Seq(Words)]
  PROVE  /\ FlattenSeq([k \in 1 .. 0 |-> b[k]]) = <<>>
         /\ \A n \in 0 .. N : FlattenSeq([k \in 1 .. n |-> b[k]]) \in Seq(Words)
         /\ \A n \in 1 .. N : FlattenSeq([k \in 1 .. n |-> b[k]]) =
                                FlattenSeq([k \in 1 .. (n - 1) |-> b[k]]) \o b[n]
<1> DEFINE First(n) == [k \in 1 .. n |-> b[k]]
<1>1. \A n \in 0 .. N : First(n) \in Seq(Seq(Words)) /\ Len(First(n)) = n
  OBVIOUS
<1>2. b \in Seq(Seq(Words)) /\ Len(b) = N
  OBVIOUS
<1>3. PICK f \in [1 .. N -> Seq(Words)] : Joins(f, b)
  BY <1>2, JoinsExist
<1>4. \A i \in 1 .. N : f[i] = IF i = 1 THEN b[i] ELSE f[i - 1] \o b[i]
  BY <1>2, <1>3, Zenon DEF Joins
<1>5. ASSUME NEW n \in 1 .. N
      PROVE  FlattenSeq(First(n)) = f[n]
  <2> DEFINE g == [i \in 1 .. n |-> f[i]]
  <2>1. \A i \in 1 .. n : i \in 1 .. N /\ (i # 1 => i - 1 \in 1 .. n)
    OBVIOUS
  <2>2. \A i \in 1 .. n : g[i] = IF i = 1 THEN First(n)[i] ELSE g[i - 1] \o First(n)[i]
    <3> SUFFICES ASSUME NEW i \in 1 .. n
                 PROVE  g[i] = IF i = 1 THEN First(n)[i] ELSE g[i - 1] \o First(n)[i]
      OBVIOUS
    <3>1. g[i] = f[i] /\ First(n)[i] = b[i] /\ (i # 1 => g[i - 1] = f[i - 1])
      BY <2>1
    <3> HIDE DEF g, First
    <3> QED BY <1>4, <2>1, <3>1
  <2>3. g = [i \in 1 .. n |-> IF i = 1 THEN First(n)[i] ELSE g[i - 1] \o First(n)[i]]
    BY <2>2, Zenon
  <2>4. Joins(g, First(n))
    <3>1. Len(First(n)) = n
      BY <1>1
    <3> HIDE DEF g, First
    <3> QED BY <2>3, <3>1, Zenon DEF Joins
  <2> HIDE DEF First
  <2>5. FlattenSeq(First(n)) = g[Len(First(n))]
    BY <1>1, <2>4, FlattenJoins
  <2> QED BY <1>1, <2>5
<1>6. FlattenSeq(First(0)) = <<>>
  <2>1. First(0) = <<>>
    OBVIOUS
  <2> HIDE DEF First
  <2>2. FlattenSeq(<<>>) = <<>>
    <3>1. Len(<<>>) = 0
      OBVIOUS
    <3> QED BY <3>1, Zenon DEF FlattenSeq
  <2> QED BY <2>1, <2>2
<1>7. ASSUME NEW n \in 0 .. N
      PROVE  FlattenSeq(First(n)) \in Seq(Words)
  <2> HIDE DEF First
  <2>1. <<>> \in Seq(Words)
    OBVIOUS
  <2>2. CASE n = 0
    BY <1>6, <2>1, <2>2
  <2>3. CASE n # 0
    <3>1. n \in 1 .. N
      BY <2>3
    <3> QED BY <1>5, <3>1
  <2> QED BY <2>2, <2>3
<1>8. ASSUME NEW n \in 1 .. N
      PROVE  FlattenSeq(First(n)) = FlattenSeq(First(n - 1)) \o b[n]
  <2> HIDE DEF First
  <2>1. CASE n = 1
    BY <1>4, <1>5, <1>6, <2>1, ConcatEmptySeq
  <2>2. CASE n # 1
    <3>1. n - 1 \in 1 .. N
      BY <2>2
    <3>2. FlattenSeq(First(n)) = f[n] /\ FlattenSeq(First(n - 1)) = f[n - 1]
      BY <1>5, <3>1
    <3> QED BY <1>4, <2>2, <3>2
  <2> QED BY <2>1, <2>2
<1> QED BY <1>6, <1>7, <1>8

\* Where the words of the k-th sequence are in all of them.
LEMMA FlattenedAt ==
  ASSUME NEW N \in Nat, NEW b \in [1 .. N -> Seq(Words)], NEW k \in 1 .. N
  PROVE  LET before == Len(FlattenSeq([j \in 1 .. (k - 1) |-> b[j]]))
             all == FlattenSeq([j \in 1 .. N |-> b[j]])
         IN  /\ before \in Nat /\ before + Len(b[k]) <= Len(all)
             /\ \A i \in 1 .. Len(b[k]) : all[before + i] = b[k][i]
<1> DEFINE flat(n) == FlattenSeq([j \in 1 .. n |-> b[j]])
           before == Len(flat(k - 1))
           In(n) == /\ before + Len(b[k]) <= Len(flat(n))
                    /\ \A i \in 1 .. Len(b[k]) : flat(n)[before + i] = b[k][i]
           Wrong == {n \in k .. N : ~In(n)}
<1>1. /\ \A n \in 0 .. N : flat(n) \in Seq(Words)
      /\ \A n \in 1 .. N : flat(n) = flat(n - 1) \o b[n]
  BY FlattenSteps
<1> HIDE DEF flat
<1>2. \A n \in 0 .. N : Len(flat(n)) \in Nat
  BY <1>1, LenProperties
<1>3. \A n \in 1 .. N : b[n] \in Seq(Words) /\ Len(b[n]) \in Nat
  BY LenProperties
<1>4. ASSUME NEW n \in 1 .. N
      PROVE  /\ Len(flat(n)) = Len(flat(n - 1)) + Len(b[n])
             /\ \A i \in 1 .. (Len(flat(n - 1)) + Len(b[n])) :
                  flat(n)[i] = IF i <= Len(flat(n - 1)) THEN flat(n - 1)[i]
                               ELSE b[n][i - Len(flat(n - 1))]
  <2>1. flat(n - 1) \in Seq(Words) /\ b[n] \in Seq(Words)
    BY <1>1, <1>3
  <2> QED BY <1>1, <2>1, ConcatProperties
<1>5. before \in Nat
  BY <1>2
<1>6. In(k)
  <2>1. Len(b[k]) \in Nat
    BY <1>3
  <2>2. /\ Len(flat(k)) = before + Len(b[k])
        /\ \A i \in 1 .. (before + Len(b[k])) :
             flat(k)[i] = IF i <= before THEN flat(k - 1)[i] ELSE b[k][i - before]
    BY <1>4
  <2> HIDE DEF before
  <2>3. ASSUME NEW i \in 1 .. Len(b[k])
        PROVE  flat(k)[before + i] = b[k][i]
    <3>1. before + i \in 1 .. (before + Len(b[k])) /\ ~(before + i <= before)
      BY <1>5, <2>1
    <3>2. (before + i) - before = i
      BY <1>5
    <3> QED BY <2>2, <3>1, <3>2
  <2> QED BY <1>5, <2>1, <2>2, <2>3
<1>7. ASSUME NEW n \in (k + 1) .. N, In(n - 1)
      PROVE  In(n)
  <2> DEFINE old == flat(n - 1)
  <2>1. n \in 1 .. N /\ n - 1 \in 0 .. N
    OBVIOUS
  <2>2. Len(old) \in Nat /\ Len(b[n]) \in Nat /\ Len(b[k]) \in Nat
    BY <1>2, <1>3, <2>1
  <2>3. Len(flat(n)) = Len(old) + Len(b[n])
    BY <1>4, <2>1
  <2>4. \A i \in 1 .. (Len(old) + Len(b[n])) : i <= Len(old) => flat(n)[i] = old[i]
    BY <1>4, <2>1
  <2>5. before + Len(b[k]) <= Len(old) /\ \A i \in 1 .. Len(b[k]) : old[before + i] = b[k][i]
    BY <1>7
  <2> HIDE DEF before, old
  <2>6. before + Len(b[k]) <= Len(flat(n))
    BY <1>5, <2>2, <2>3, <2>5
  <2>7. ASSUME NEW i \in 1 .. Len(b[k])
        PROVE  flat(n)[before + i] = b[k][i]
    <3>1. before + i \in 1 .. (Len(old) + Len(b[n])) /\ before + i <= Len(old)
      BY <1>5, <2>2, <2>5
    <3> QED BY <2>4, <2>5, <3>1
  <2> QED BY <2>6, <2>7
<1>8. Wrong = {}
  <2>1. SUFFICES ASSUME Wrong # {} PROVE FALSE
    OBVIOUS
  <2> HIDE DEF In
  <2>2. PICK n \in Wrong : \A m \in Wrong : n <= m
    <3>1. Wrong \subseteq Nat
      OBVIOUS
    <3> HIDE DEF Wrong
    <3> QED BY <2>1, <3>1, LeastNumber
  <2>3. n # k /\ n \in (k + 1) .. N /\ n - 1 \in k .. N /\ n - 1 \notin Wrong
    BY <2>2, <1>6
  <2> QED BY <2>2, <2>3, <1>7
<1>9. In(N)
  <2> HIDE DEF In
  <2> QED BY <1>8
<1> QED BY <1>5, <1>9 DEF flat

-----------------------------------------------------------------------------
(* Vtables are sequences of words                                          *)

Tables == [Traits -> Seq(Words)]

LEMMA DefFields ==
  ASSUME NEW def \in Def
  PROVE  /\ def.drop \in BOOLEAN /\ def.layout \in BOOLEAN
         /\ def.subtables \in Seq(Subtable) /\ def.methods \in Seq(Methods)
         /\ Len(def.subtables) \in Nat /\ DOMAIN def.subtables = 1 .. Len(def.subtables)
         /\ Len(def.methods) \in Nat /\ DOMAIN def.methods = 1 .. Len(def.methods)
         /\ \A k \in 1 .. Len(def.subtables) :
              /\ def.subtables[k].path \in Traits /\ def.subtables[k].ref \in BOOLEAN
              /\ def.subtables[k].children \in Seq(Child)
         /\ \A m \in 1 .. Len(def.methods) : def.methods[m] \in Methods
<1>1. /\ def.drop \in BOOLEAN /\ def.layout \in BOOLEAN
      /\ def.subtables \in Seq(Subtable) /\ def.methods \in Seq(Methods)
  BY DEF Def
<1>2. \A k \in 1 .. Len(def.subtables) : def.subtables[k] \in Subtable
  BY <1>1, ElementOfSeq
<1>3. \A m \in 1 .. Len(def.methods) : def.methods[m] \in Methods
  BY <1>1, ElementOfSeq
<1>4. /\ Len(def.subtables) \in Nat /\ DOMAIN def.subtables = 1 .. Len(def.subtables)
      /\ Len(def.methods) \in Nat /\ DOMAIN def.methods = 1 .. Len(def.methods)
  BY <1>1, LenProperties
<1> QED BY <1>1, <1>2, <1>3, <1>4 DEF Subtable

LEMMA WordsAreWords ==
  /\ \A what \in {"drop", "size", "align"} : Word(what) \in Words
  /\ \A t \in Traits : Pointer(t) \in Words
  /\ \A t \in Traits, m \in Methods : Method(t, m) \in Words
  BY DEF Words

LEMMA HeaderTyped ==
  ASSUME NEW def \in Def
  PROVE  Header(def) \in Seq(Words) /\ Len(Header(def)) \in Nat
<1>1. <<Word("drop")>> \in Seq(Words) /\ <<Word("size"), Word("align")>> \in Seq(Words)
  BY WordsAreWords
<1>2. <<>> \in Seq(Words)
  OBVIOUS
<1>3. Header(def) \in Seq(Words)
  BY <1>1, <1>2, ConcatProperties DEF Header
<1> QED BY <1>3, LenProperties

LEMMA MethodWordsTyped ==
  ASSUME NEW defs \in [Traits -> Def], NEW t \in Traits
  PROVE  /\ MethodWords(defs, t) \in Seq(Words)
         /\ Len(MethodWords(defs, t)) = Len(defs[t].methods)
         /\ \A m \in 1 .. Len(defs[t].methods) :
              MethodWords(defs, t)[m] = Method(t, defs[t].methods[m])
<1>1. Len(defs[t].methods) \in Nat /\ DOMAIN defs[t].methods = 1 .. Len(defs[t].methods)
  BY DefFields
<1>2. \A m \in 1 .. Len(defs[t].methods) : Method(t, defs[t].methods[m]) \in Words
  BY DefFields, WordsAreWords
<1>3. MethodWords(defs, t) =
        [m \in 1 .. Len(defs[t].methods) |-> Method(t, defs[t].methods[m])]
  BY <1>1 DEF MethodWords
<1>4. MethodWords(defs, t) \in [1 .. Len(defs[t].methods) -> Words]
  BY <1>2, <1>3
<1> QED BY <1>1, <1>3, <1>4

\* What the subtables of a trait hold, one after the other.
Blocks(def, tables) ==
  [k \in 1 .. Len(def.subtables) |-> EntryWords(def.subtables[k], tables)]

LEMMA BlocksTyped ==
  ASSUME NEW def \in Def, NEW tables \in Tables
  PROVE  /\ Blocks(def, tables) \in [1 .. Len(def.subtables) -> Seq(Words)]
         /\ \A n \in 0 .. Len(def.subtables) :
              SubtableWords(def, n, tables) =
                FlattenSeq([k \in 1 .. n |-> Blocks(def, tables)[k]])
<1>1. \A k \in 1 .. Len(def.subtables) : EntryWords(def.subtables[k], tables) \in Seq(Words)
  BY DefFields, WordsAreWords DEF EntryWords, Tables
<1>2. ASSUME NEW n \in 0 .. Len(def.subtables)
      PROVE  SubtableWords(def, n, tables) =
               FlattenSeq([k \in 1 .. n |-> Blocks(def, tables)[k]])
  <2>1. Len(def.subtables) \in Nat
    BY DefFields
  <2>2. \A k \in 1 .. n : Blocks(def, tables)[k] = EntryWords(def.subtables[k], tables)
    BY <2>1 DEF Blocks
  <2>3. [k \in 1 .. n |-> EntryWords(def.subtables[k], tables)] =
          [k \in 1 .. n |-> Blocks(def, tables)[k]]
    BY <2>2
  <2> QED BY <2>3, Zenon DEF SubtableWords
<1> QED BY <1>1, <1>2 DEF Blocks

LEMMA SubtableWordsTyped ==
  ASSUME NEW def \in Def, NEW tables \in Tables
  PROVE  /\ \A n \in 0 .. Len(def.subtables) : SubtableWords(def, n, tables) \in Seq(Words)
         /\ AllSubtableWords(def, tables) \in Seq(Words)
<1> DEFINE N == Len(def.subtables)
           b == Blocks(def, tables)
<1>1. N \in Nat
  BY DefFields
<1>2. b \in [1 .. N -> Seq(Words)]
  BY BlocksTyped
<1>3. \A n \in 0 .. N : SubtableWords(def, n, tables) = FlattenSeq([k \in 1 .. n |-> b[k]])
  BY BlocksTyped, Zenon
<1> HIDE DEF N, b
<1>4. \A n \in 0 .. N : FlattenSeq([k \in 1 .. n |-> b[k]]) \in Seq(Words)
  BY <1>1, <1>2, FlattenSteps
<1>5. \A n \in 0 .. N : SubtableWords(def, n, tables) \in Seq(Words)
  BY <1>3, <1>4
<1>6. SubtableWords(def, N, tables) \in Seq(Words)
  BY <1>1, <1>5
<1> QED BY <1>5, <1>6 DEF N, AllSubtableWords

\* Where the words of a subtable are among those of all.
LEMMA SubtableWordsAt ==
  ASSUME NEW def \in Def, NEW tables \in Tables, NEW k \in 1 .. Len(def.subtables)
  PROVE  LET before == Len(SubtableWords(def, k - 1, tables))
             entry == EntryWords(def.subtables[k], tables)
         IN  /\ before \in Nat /\ before + Len(entry) <= Len(AllSubtableWords(def, tables))
             /\ \A i \in 1 .. Len(entry) : AllSubtableWords(def, tables)[before + i] = entry[i]
<1> DEFINE N == Len(def.subtables)
           b == Blocks(def, tables)
<1>1. N \in Nat /\ k - 1 \in 0 .. N /\ N \in 0 .. N
  BY DefFields
<1>2. b \in [1 .. N -> Seq(Words)]
  BY BlocksTyped
<1>3. /\ SubtableWords(def, k - 1, tables) = FlattenSeq([j \in 1 .. (k - 1) |-> b[j]])
      /\ AllSubtableWords(def, tables) = FlattenSeq([j \in 1 .. N |-> b[j]])
  BY <1>1, BlocksTyped, Zenon DEF AllSubtableWords
<1>4. b[k] = EntryWords(def.subtables[k], tables)
  BY DEF Blocks
<1>5. k \in 1 .. N
  OBVIOUS
<1> HIDE DEF N, b
<1>6. LET before == Len(FlattenSeq([j \in 1 .. (k - 1) |-> b[j]]))
          all == FlattenSeq([j \in 1 .. N |-> b[j]])
      IN  /\ before \in Nat /\ before + Len(b[k]) <= Len(all)
          /\ \A i \in 1 .. Len(b[k]) : all[before + i] = b[k][i]
  BY <1>1, <1>2, <1>5, FlattenedAt
<1> QED BY <1>3, <1>4, <1>6, Zenon

LEMMA TableTyped ==
  ASSUME NEW defs \in [Traits -> Def], NEW tables \in Tables, NEW t \in Traits
  PROVE  Table(defs, tables, t) \in Seq(Words)
<1>1. /\ Header(defs[t]) \in Seq(Words) /\ AllSubtableWords(defs[t], tables) \in Seq(Words)
      /\ MethodWords(defs, t) \in Seq(Words)
  BY HeaderTyped, SubtableWordsTyped, MethodWordsTyped
<1> QED BY <1>1, ConcatProperties DEF Table

\* The vtable of a trait depends on those of its subtables only.
LEMMA TableOfSubtables ==
  ASSUME NEW defs \in [Traits -> Def], NEW t \in Traits, NEW one, NEW other,
         \A s \in TopLevel(defs[t]) : one[s] = other[s]
  PROVE  Table(defs, one, t) = Table(defs, other, t)
<1> DEFINE def == defs[t]
<1>1. def \in Def
  OBVIOUS
<1>2. Len(def.subtables) \in Nat /\ DOMAIN def.subtables = 1 .. Len(def.subtables)
  BY <1>1, DefFields
<1>3. \A k \in 1 .. Len(def.subtables) :
        EntryWords(def.subtables[k], one) = EntryWords(def.subtables[k], other)
  <2>1. \A k \in 1 .. Len(def.subtables) : def.subtables[k].path \in TopLevel(def)
    BY <1>2 DEF TopLevel
  <2> QED BY <2>1 DEF EntryWords
<1>4. AllSubtableWords(def, one) = AllSubtableWords(def, other)
  BY <1>3 DEF AllSubtableWords, SubtableWords
<1> QED BY <1>4 DEF Table

\* The vtables of all traits, each of its subtables'.
AreTables(defs, tables) == tables = [t \in Traits |-> Table(defs, tables, t)]

LEMMA TopLevelTraits ==
  ASSUME NEW defs \in [Traits -> Def], NEW t \in Traits
  PROVE  TopLevel(defs[t]) \subseteq Traits
  BY DefFields DEF TopLevel

LEMMA TablesExist ==
  ASSUME NEW defs \in [Traits -> Def], IsFiniteSet(Traits), NotCircular(defs)
  PROVE  \E tables \in Tables : AreTables(defs, tables)
<1> DEFINE H == Cardinality(Traits)
<1>1. H \in Nat
  BY FS_CardinalityType
<1>2. PICK height \in [Traits -> 1 .. H] :
        \A t \in Traits : \A s \in TopLevel(defs[t]) : height[s] < height[t]
  BY DEF NotCircular
<1> HIDE DEF H
<1> DEFINE Upto(n) == \E tables \in Tables :
                        \A t \in Traits : height[t] <= n => tables[t] = Table(defs, tables, t)
           Wrong == {n \in 0 .. H : ~Upto(n)}
<1>3. Upto(0)
  <2>1. [t \in Traits |-> <<>>] \in Tables
    BY DEF Tables
  <2>2. \A t \in Traits : ~(height[t] <= 0)
    BY <1>1, <1>2
  <2> QED BY <2>1, <2>2
<1>4. ASSUME NEW n \in 0 .. H, n # 0, Upto(n - 1)
      PROVE  Upto(n)
  <2>1. PICK old \in Tables :
          \A t \in Traits : height[t] <= n - 1 => old[t] = Table(defs, old, t)
    BY <1>4, Zenon
  <2> DEFINE new == [t \in Traits |-> Table(defs, old, t)]
  <2>2. new \in Tables
    BY TableTyped DEF Tables
  <2>3. ASSUME NEW t \in Traits, height[t] <= n
        PROVE  new[t] = Table(defs, new, t)
    <3>1. ASSUME NEW s \in TopLevel(defs[t])
          PROVE  old[s] = new[s]
      <4>1. s \in Traits
        BY TopLevelTraits
      <4>2. height[s] <= n - 1
        BY <1>1, <1>2, <2>3, <4>1
      <4> QED BY <2>1, <4>1, <4>2
    <3>2. Table(defs, old, t) = Table(defs, new, t)
      <4> HIDE DEF new
      <4> QED BY <3>1, TableOfSubtables
    <3>3. new[t] = Table(defs, old, t)
      OBVIOUS
    <3> HIDE DEF new
    <3> QED BY <3>2, <3>3
  <2> HIDE DEF new
  <2> QED BY <2>2, <2>3
<1>5. Wrong = {}
  <2>1. SUFFICES ASSUME Wrong # {} PROVE FALSE
    OBVIOUS
  <2> HIDE DEF Upto
  <2>2. PICK n \in Wrong : \A k \in Wrong : n <= k
    <3>1. Wrong \subseteq Nat
      BY <1>1
    <3> HIDE DEF Wrong
    <3> QED BY <2>1, <3>1, LeastNumber
  <2>3. n # 0 /\ n - 1 \in 0 .. H /\ n - 1 \notin Wrong
    BY <2>2, <1>1, <1>3
  <2> QED BY <2>2, <2>3, <1>4
<1>6. Upto(H)
  <2> HIDE DEF Upto
  <2> QED BY <1>5, <1>1
<1>7. PICK tables \in Tables :
        \A t \in Traits : height[t] <= H => tables[t] = Table(defs, tables, t)
  BY <1>6
<1>8. \A t \in Traits : tables[t] = Table(defs, tables, t)
  BY <1>1, <1>2, <1>7
<1>9. tables = [t \in Traits |-> Table(defs, tables, t)]
  BY <1>8 DEF Tables
<1> QED BY <1>9 DEF AreTables

LEMMA TablesUnique ==
  ASSUME NEW defs \in [Traits -> Def], IsFiniteSet(Traits), NotCircular(defs),
         NEW one, NEW other, AreTables(defs, one), AreTables(defs, other)
  PROVE  one = other
<1> DEFINE H == Cardinality(Traits)
<1>1. H \in Nat
  BY FS_CardinalityType
<1>2. PICK height \in [Traits -> 1 .. H] :
        \A t \in Traits : \A s \in TopLevel(defs[t]) : height[s] < height[t]
  BY DEF NotCircular
<1> HIDE DEF H
<1> DEFINE Wrong == {height[t] : t \in {u \in Traits : one[u] # other[u]}}
<1>3. \A t \in Traits : one[t] = Table(defs, one, t) /\ other[t] = Table(defs, other, t)
  BY Zenon DEF AreTables
<1>4. Wrong = {}
  <2>1. SUFFICES ASSUME Wrong # {} PROVE FALSE
    OBVIOUS
  <2>2. PICK n \in Wrong : \A k \in Wrong : n <= k
    <3>1. Wrong \subseteq Nat
      BY <1>1, <1>2
    <3> HIDE DEF Wrong
    <3> QED BY <2>1, <3>1, LeastNumber
  <2>3. PICK t \in Traits : one[t] # other[t] /\ height[t] = n
    BY <2>2
  <2>4. ASSUME NEW s \in TopLevel(defs[t])
        PROVE  one[s] = other[s]
    <3>1. s \in Traits /\ height[s] < n
      BY <1>2, <2>3, TopLevelTraits
    <3>2. height[s] \in Nat /\ n \in Nat
      BY <1>1, <1>2, <2>3, <3>1
    <3>3. height[s] \notin Wrong
      BY <2>2, <3>1, <3>2
    <3> QED BY <3>1, <3>3
  <2>5. Table(defs, one, t) = Table(defs, other, t)
    BY <2>4, TableOfSubtables
  <2> QED BY <1>3, <2>3, <2>5
<1>5. \A t \in Traits : one[t] = other[t]
  BY <1>4
<1>6. /\ one = [t \in Traits |-> Table(defs, one, t)]
      /\ other = [t \in Traits |-> Table(defs, other, t)]
  BY Zenon DEF AreTables
<1> QED BY <1>3, <1>5, <1>6

\* VTable is what it was defined to be, and every vtable is a sequence of words.
LEMMA VTableIs ==
  ASSUME NEW defs \in [Traits -> Def], IsFiniteSet(Traits), NotCircular(defs)
  PROVE  /\ VTable(defs) \in Tables
         /\ \A t \in Traits : VTable(defs)[t] = Table(defs, VTable(defs), t)
<1> DEFINE words == CHOOSE tables : AreTables(defs, tables)
<1>1. VTable(defs) = words
  BY DEF VTable, AreTables
<1>2. PICK tables \in Tables : AreTables(defs, tables)
  BY TablesExist
<1>3. AreTables(defs, words)
  BY <1>2, Zenon
<1>4. words = tables
  <2> HIDE DEF words
  <2> QED BY <1>2, <1>3, TablesUnique
<1> HIDE DEF words
<1>5. \A t \in Traits : words[t] = Table(defs, words, t)
  BY <1>3, Zenon DEF AreTables
<1> QED BY <1>1, <1>2, <1>4, <1>5

-----------------------------------------------------------------------------
(* Where the words of a vtable are                                         *)

LEMMA VTableParts ==
  ASSUME NEW defs \in [Traits -> Def], IsFiniteSet(Traits), NotCircular(defs), NEW t \in Traits
  PROVE  LET table == VTable(defs)[t]
             header == Header(defs[t])
             middle == AllSubtableWords(defs[t], VTable(defs))
         IN  /\ table \in Seq(Words) /\ Len(header) \in Nat /\ Len(middle) \in Nat
             /\ Len(table) = Len(header) + Len(middle) + Len(defs[t].methods)
             /\ \A i \in 1 .. Len(header) : table[i] = header[i]
             /\ \A i \in 1 .. Len(middle) : table[Len(header) + i] = middle[i]
             /\ \A m \in 1 .. Len(defs[t].methods) :
                  table[Len(header) + Len(middle) + m] = Method(t, defs[t].methods[m])
<1> DEFINE table == VTable(defs)[t]
           header == Header(defs[t])
           middle == AllSubtableWords(defs[t], VTable(defs))
           methods == MethodWords(defs, t)
           count == Len(defs[t].methods)
<1>1. VTable(defs) \in Tables /\ table = Table(defs, VTable(defs), t)
  BY VTableIs
<1>2. header \in Seq(Words) /\ middle \in Seq(Words) /\ methods \in Seq(Words)
  BY <1>1, HeaderTyped, SubtableWordsTyped, MethodWordsTyped
<1>3. table = (header \o middle) \o methods
  BY <1>1 DEF Table
<1>4. count \in Nat /\ Len(methods) = count
  BY DefFields, MethodWordsTyped
<1>5. \A m \in 1 .. count : methods[m] = Method(t, defs[t].methods[m])
  BY MethodWordsTyped
<1> HIDE DEF table, header, middle, methods, count
<1>6. Len(header) \in Nat /\ Len(middle) \in Nat
  BY <1>2, LenProperties
<1> DEFINE front == header \o middle
<1>7. /\ front \in Seq(Words) /\ Len(front) = Len(header) + Len(middle)
      /\ \A i \in 1 .. (Len(header) + Len(middle)) :
           front[i] = IF i <= Len(header) THEN header[i] ELSE middle[i - Len(header)]
  BY <1>2, ConcatProperties
<1> HIDE DEF front
<1>8. /\ table \in Seq(Words) /\ Len(table) = Len(front) + count
      /\ \A i \in 1 .. (Len(front) + count) :
           table[i] = IF i <= Len(front) THEN front[i] ELSE methods[i - Len(front)]
  <2>1. table = front \o methods
    BY <1>3 DEF front
  <2>2. Len(table) = Len(front) + Len(methods) /\ table \in Seq(Words)
    BY <1>2, <1>7, <2>1, ConcatProperties
  <2>3. \A i \in 1 .. (Len(front) + Len(methods)) :
          table[i] = IF i <= Len(front) THEN front[i] ELSE methods[i - Len(front)]
    BY <1>2, <1>7, <2>1, ConcatProperties
  <2> QED BY <1>4, <2>2, <2>3
<1>9. \A i \in 1 .. Len(header) : table[i] = header[i]
  BY <1>4, <1>6, <1>7, <1>8
<1>10. ASSUME NEW i \in 1 .. Len(middle)
       PROVE  table[Len(header) + i] = middle[i]
  <2>1. /\ Len(header) + i \in 1 .. (Len(header) + Len(middle)) /\ ~(Len(header) + i <= Len(header))
        /\ (Len(header) + i) - Len(header) = i
    BY <1>6
  <2>2. front[Len(header) + i] = middle[i]
    BY <1>7, <2>1
  <2>3. Len(header) + i \in 1 .. (Len(front) + count) /\ Len(header) + i <= Len(front)
    BY <1>4, <1>6, <1>7, <2>1
  <2> QED BY <1>8, <2>2, <2>3
<1>11. ASSUME NEW m \in 1 .. count
       PROVE  table[Len(header) + Len(middle) + m] = Method(t, defs[t].methods[m])
  <2>1. /\ Len(front) + m \in 1 .. (Len(front) + count) /\ ~(Len(front) + m <= Len(front))
        /\ (Len(front) + m) - Len(front) = m
    BY <1>4, <1>6, <1>7
  <2>2. table[Len(front) + m] = methods[m]
    BY <1>8, <2>1
  <2> QED BY <1>5, <1>7, <2>2
<1>12. Len(table) = Len(header) + Len(middle) + count
  BY <1>7, <1>8
<1> QED BY <1>6, <1>8, <1>9, <1>10, <1>11, <1>12 DEF table, header, middle, count

\* A subtable's words are at its offset in the vtable, a method's pointer is at its own.
LEMMA EntryInPlace ==
  ASSUME NEW defs \in [Traits -> Def], IsFiniteSet(Traits), NotCircular(defs), NEW t \in Traits,
         NEW k \in 1 .. Len(defs[t].subtables)
  PROVE  LET table == VTable(defs)[t]
             entry == EntryWords(defs[t].subtables[k], VTable(defs))
             offset == SubtableOffset(defs, t, k)
         IN  /\ offset \in Nat /\ offset + Len(entry) <= Len(table)
             /\ \A i \in 1 .. Len(entry) : table[offset + i] = entry[i]
<1> DEFINE table == VTable(defs)[t]
           header == Header(defs[t])
           middle == AllSubtableWords(defs[t], VTable(defs))
           entry == EntryWords(defs[t].subtables[k], VTable(defs))
           before == Len(SubtableWords(defs[t], k - 1, VTable(defs)))
           count == Len(defs[t].methods)
<1>1. VTable(defs) \in Tables
  BY VTableIs
<1>2. /\ Len(header) \in Nat /\ Len(middle) \in Nat
      /\ Len(table) = Len(header) + Len(middle) + count
      /\ \A i \in 1 .. Len(middle) : table[Len(header) + i] = middle[i]
  BY VTableParts
<1>3. /\ before \in Nat /\ before + Len(entry) <= Len(middle)
      /\ \A i \in 1 .. Len(entry) : middle[before + i] = entry[i]
  BY <1>1, SubtableWordsAt
<1>4. SubtableOffset(defs, t, k) = Len(header) + before
  BY DEF SubtableOffset
<1>5. count \in Nat
  BY DefFields
<1>6. entry \in Seq(Words)
  <2>1. Blocks(defs[t], VTable(defs)) \in [1 .. Len(defs[t].subtables) -> Seq(Words)]
    BY <1>1, BlocksTyped
  <2> QED BY <2>1 DEF Blocks
<1>7. Len(entry) \in Nat
  BY <1>6, LenProperties
<1> HIDE DEF table, header, middle, entry, before, count
<1>8. ASSUME NEW i \in 1 .. Len(entry)
      PROVE  table[Len(header) + before + i] = entry[i]
  <2>1. before + i \in 1 .. Len(middle) /\ Len(header) + (before + i) = Len(header) + before + i
    BY <1>2, <1>3, <1>7
  <2> QED BY <1>2, <1>3, <2>1
<1>9. Len(header) + before \in Nat /\ Len(header) + before + Len(entry) <= Len(table)
  BY <1>2, <1>3, <1>5, <1>7
<1> QED BY <1>4, <1>8, <1>9 DEF table, entry

LEMMA MethodInPlace ==
  ASSUME NEW defs \in [Traits -> Def], IsFiniteSet(Traits), NotCircular(defs), NEW t \in Traits,
         NEW m \in 1 .. Len(defs[t].methods)
  PROVE  /\ MethodOffset(defs, t, m) \in Nat
         /\ MethodOffset(defs, t, m) + 1 \in 1 .. Len(VTable(defs)[t])
         /\ VTable(defs)[t][MethodOffset(defs, t, m) + 1] = Method(t, defs[t].methods[m])
<1> DEFINE table == VTable(defs)[t]
           header == Header(defs[t])
           middle == AllSubtableWords(defs[t], VTable(defs))
           count == Len(defs[t].methods)
<1>1. /\ Len(header) \in Nat /\ Len(middle) \in Nat
      /\ Len(table) = Len(header) + Len(middle) + count
      /\ \A j \in 1 .. count :
           table[Len(header) + Len(middle) + j] = Method(t, defs[t].methods[j])
  BY VTableParts
<1>2. MethodOffset(defs, t, m) = Len(table) - count + m - 1
  BY DEF MethodOffset
<1>3. count \in Nat /\ m \in 1 .. count
  BY DefFields
<1> HIDE DEF table, header, middle, count
<1>4. MethodOffset(defs, t, m) = Len(header) + Len(middle) + m - 1
  BY <1>1, <1>2, <1>3
<1>5. MethodOffset(defs, t, m) + 1 = Len(header) + Len(middle) + m
  BY <1>1, <1>3, <1>4
<1>6. MethodOffset(defs, t, m) \in Nat /\ MethodOffset(defs, t, m) + 1 \in 1 .. Len(table)
  BY <1>1, <1>3, <1>4
<1>7. table[MethodOffset(defs, t, m) + 1] = Method(t, defs[t].methods[m])
  BY <1>1, <1>3, <1>5
<1> QED BY <1>6, <1>7 DEF table

-----------------------------------------------------------------------------
(* The library and the program                                             *)

Versions == library \in [Traits -> Def] /\ program \in Programs /\ LibraryNewer

LEMMA ProgramCompiles ==
  ASSUME program \in Programs
  PROVE  /\ program \in [Traits -> Def] /\ IsFiniteSet(Traits)
         /\ ImplsExist(program) /\ NotCircular(program)
  BY ProgramsAssumption DEF Compiles

LEMMA LibraryNotCircular == Versions => NotCircular(library)
<1> SUFFICES ASSUME Versions PROVE NotCircular(library)
  OBVIOUS
<1>1. PICK height \in [Traits -> 1 .. Cardinality(Traits)] :
        \A t \in Traits : \A s \in TopLevel(program[t]) : height[s] < height[t]
  BY ProgramCompiles DEF Versions, NotCircular
<1>2. \A t \in Traits : library[t].subtables = program[t].subtables
  BY DEF Versions, LibraryNewer
<1>3. \A t \in Traits : TopLevel(library[t]) = TopLevel(program[t])
  BY <1>2 DEF TopLevel
<1> QED BY <1>1, <1>3 DEF NotCircular

\* The vtables inside another's vtable are the same in both.
LEMMA InlinedAlike ==
  ASSUME Versions, NEW t \in Inlined(program)
  PROVE  VTable(library)[t] = VTable(program)[t]
<1> DEFINE H == Cardinality(Traits)
<1>1. /\ library \in [Traits -> Def] /\ program \in [Traits -> Def] /\ IsFiniteSet(Traits)
      /\ NotCircular(program) /\ NotCircular(library)
  BY ProgramCompiles, LibraryNotCircular DEF Versions
<1>2. H \in Nat
  BY <1>1, FS_CardinalityType
<1>3. PICK height \in [Traits -> 1 .. H] :
        \A u \in Traits : \A s \in TopLevel(program[u]) : height[s] < height[u]
  BY <1>1 DEF NotCircular
<1> HIDE DEF H
<1> DEFINE Unlike == {u \in Inlined(program) : VTable(library)[u] # VTable(program)[u]}
           Wrong == {height[u] : u \in Unlike}
<1>4. Inlined(program) \subseteq Traits
  BY DEF Inlined
<1>5. Wrong = {}
  <2>1. SUFFICES ASSUME Wrong # {} PROVE FALSE
    OBVIOUS
  <2>2. PICK n \in Wrong : \A k \in Wrong : n <= k
    <3>1. Wrong \subseteq Nat
      BY <1>2, <1>3, <1>4
    <3> HIDE DEF Wrong
    <3> QED BY <2>1, <3>1, LeastNumber
  <2>3. PICK u \in Unlike : height[u] = n
    BY <2>2
  <2>4. u \in Traits /\ library[u] = program[u] /\ program[u] \in Def
    BY <1>1, <1>4 DEF Versions, LibraryNewer
  <2>5. /\ Len(program[u].subtables) \in Nat
        /\ DOMAIN program[u].subtables = 1 .. Len(program[u].subtables)
    BY <2>4, DefFields
  <2>6. ASSUME NEW k \in 1 .. Len(program[u].subtables)
        PROVE  EntryWords(program[u].subtables[k], VTable(library)) =
                 EntryWords(program[u].subtables[k], VTable(program))
    <3> DEFINE sub == program[u].subtables[k]
    <3>1. CASE sub.ref
      BY <3>1 DEF EntryWords
    <3>2. CASE ~sub.ref
      <4>1. sub.path \in Traits
        BY <2>4, DefFields
      <4>2. sub.path \in TopLevel(program[u])
        BY <2>5 DEF TopLevel
      <4>3. sub.path \in Inlined(program)
        BY <2>4, <2>5, <3>2, <4>1 DEF Inlined
      <4>4. height[sub.path] < height[u] /\ height[sub.path] \in Nat /\ n \in Nat
        BY <1>2, <1>3, <2>3, <2>4, <4>1, <4>2
      <4>5. height[sub.path] \notin Wrong
        <5> HIDE DEF Wrong
        <5> QED BY <2>2, <2>3, <4>4
      <4>6. sub.path \notin Unlike
        BY <4>5
      <4> HIDE DEF Wrong
      <4> QED BY <3>2, <4>3, <4>6 DEF EntryWords
    <3> QED BY <3>1, <3>2
  <2>7. AllSubtableWords(program[u], VTable(library)) =
          AllSubtableWords(program[u], VTable(program))
    BY <2>6 DEF AllSubtableWords, SubtableWords
  <2>8. Table(library, VTable(library), u) = Table(program, VTable(program), u)
    BY <2>4, <2>7 DEF Table, MethodWords
  <2>9. /\ VTable(library)[u] = Table(library, VTable(library), u)
        /\ VTable(program)[u] = Table(program, VTable(program), u)
    BY <1>1, <2>4, VTableIs
  <2> QED BY <2>8, <2>9
<1>6. Unlike = {}
  BY <1>5
<1> QED BY <1>6

\* The vtable of any trait in the library begins with the one of the program.
LEMMA ProgramFirst ==
  ASSUME Versions, NEW t \in Traits
  PROVE  /\ Len(VTable(program)[t]) \in Nat /\ Len(VTable(library)[t]) \in Nat
         /\ Len(VTable(program)[t]) <= Len(VTable(library)[t])
         /\ \A i \in 1 .. Len(VTable(program)[t]) : VTable(library)[t][i] = VTable(program)[t][i]
<1> DEFINE old == VTable(program)[t]
           new == VTable(library)[t]
           header == Header(program[t])
           middle == AllSubtableWords(program[t], VTable(program))
<1>1. /\ library \in [Traits -> Def] /\ program \in [Traits -> Def] /\ IsFiniteSet(Traits)
      /\ NotCircular(program) /\ NotCircular(library)
  BY ProgramCompiles, LibraryNotCircular DEF Versions
<1>2. /\ library[t].drop = program[t].drop /\ library[t].layout = program[t].layout
      /\ library[t].subtables = program[t].subtables
      /\ Len(program[t].methods) <= Len(library[t].methods)
      /\ \A m \in DOMAIN program[t].methods : library[t].methods[m] = program[t].methods[m]
  BY DEF Versions, LibraryNewer
<1>3. Header(library[t]) = header
  BY <1>2 DEF Header
<1>4. AllSubtableWords(library[t], VTable(library)) = middle
  <2>1. program[t] \in Def
    BY <1>1
  <2>2. /\ Len(program[t].subtables) \in Nat
        /\ DOMAIN program[t].subtables = 1 .. Len(program[t].subtables)
    BY <2>1, DefFields
  <2>3. \A k \in 1 .. Len(program[t].subtables) :
          program[t].subtables[k].path \in Traits /\
          (~program[t].subtables[k].ref => program[t].subtables[k].path \in Inlined(program))
    BY <2>1, <2>2, DefFields DEF Inlined
  <2>4. \A k \in 1 .. Len(program[t].subtables) :
          EntryWords(program[t].subtables[k], VTable(library)) =
            EntryWords(program[t].subtables[k], VTable(program))
    BY <2>3, InlinedAlike DEF EntryWords
  <2> QED BY <1>2, <2>4 DEF AllSubtableWords, SubtableWords
<1>5. /\ Len(header) \in Nat /\ Len(middle) \in Nat
      /\ old \in Seq(Words) /\ Len(old) = Len(header) + Len(middle) + Len(program[t].methods)
      /\ \A i \in 1 .. Len(header) : old[i] = header[i]
      /\ \A i \in 1 .. Len(middle) : old[Len(header) + i] = middle[i]
      /\ \A m \in 1 .. Len(program[t].methods) :
           old[Len(header) + Len(middle) + m] = Method(t, program[t].methods[m])
  BY <1>1, VTableParts
<1>6. /\ new \in Seq(Words) /\ Len(new) = Len(header) + Len(middle) + Len(library[t].methods)
      /\ \A i \in 1 .. Len(header) : new[i] = header[i]
      /\ \A i \in 1 .. Len(middle) : new[Len(header) + i] = middle[i]
      /\ \A m \in 1 .. Len(library[t].methods) :
           new[Len(header) + Len(middle) + m] = Method(t, library[t].methods[m])
  <2>1. LET first == Header(library[t])
            second == AllSubtableWords(library[t], VTable(library))
        IN  /\ new \in Seq(Words)
            /\ Len(new) = Len(first) + Len(second) + Len(library[t].methods)
            /\ \A i \in 1 .. Len(first) : new[i] = first[i]
            /\ \A i \in 1 .. Len(second) : new[Len(first) + i] = second[i]
            /\ \A m \in 1 .. Len(library[t].methods) :
                 new[Len(first) + Len(second) + m] = Method(t, library[t].methods[m])
    BY <1>1, VTableParts
  <2> HIDE DEF new, header, middle
  <2> QED BY <1>3, <1>4, <2>1
<1> DEFINE few == Len(program[t].methods)
           many == Len(library[t].methods)
<1>7. few \in Nat /\ many \in Nat /\ few <= many /\ DOMAIN program[t].methods = 1 .. few
  BY <1>1, <1>2, DefFields
<1>8. Len(old) = Len(header) + Len(middle) + few /\ Len(new) = Len(header) + Len(middle) + many
  BY <1>5, <1>6
<1>9. /\ \A i \in 1 .. Len(header) : new[i] = old[i]
      /\ \A i \in 1 .. Len(middle) : new[Len(header) + i] = old[Len(header) + i]
  BY <1>5, <1>6
<1>10. \A m \in 1 .. few :
         new[Len(header) + Len(middle) + m] = old[Len(header) + Len(middle) + m]
  <2>1. \A m \in 1 .. few : m \in 1 .. many /\ library[t].methods[m] = program[t].methods[m]
    BY <1>2, <1>7
  <2> QED BY <1>5, <1>6, <2>1
<1>11. Len(header) \in Nat /\ Len(middle) \in Nat
  BY <1>5
<1> HIDE DEF old, new, header, middle, few, many
<1>12. Len(old) \in Nat /\ Len(new) \in Nat /\ Len(old) <= Len(new)
  BY <1>7, <1>8, <1>11
<1>13. ASSUME NEW i \in 1 .. Len(old)
       PROVE  new[i] = old[i]
  <2>1. CASE i <= Len(header)
    <3>1. i \in 1 .. Len(header)
      BY <1>11, <1>12, <2>1
    <3> QED BY <1>9, <3>1
  <2>2. CASE i > Len(header) /\ i <= Len(header) + Len(middle)
    <3>1. i - Len(header) \in 1 .. Len(middle) /\ Len(header) + (i - Len(header)) = i
      BY <1>11, <1>12, <2>2
    <3> QED BY <1>9, <3>1
  <2>3. CASE i > Len(header) + Len(middle)
    <3>1. /\ i - (Len(header) + Len(middle)) \in 1 .. few
          /\ Len(header) + Len(middle) + (i - (Len(header) + Len(middle))) = i
      BY <1>7, <1>8, <1>11, <1>12, <2>3
    <3> QED BY <1>10, <3>1
  <2> QED BY <1>11, <1>12, <2>1, <2>2, <2>3
<1> QED BY <1>12, <1>13 DEF old, new

-----------------------------------------------------------------------------
(* Reading the library's memory by the layouts of the program              *)

LEMMA ReadTyped ==
  ASSUME Versions, NEW base \in Traits, NEW offset \in Nat
  PROVE  Read(base, offset) \in Words \cup {None}
<1> DEFINE words == VTable(library)[base]
<1>1. words \in Seq(Words)
  BY ProgramCompiles, LibraryNotCircular, VTableIs DEF Versions, Tables
<1>2. Read(base, offset) = IF offset < Len(words) THEN words[offset + 1] ELSE None
  BY DEF Read
<1> HIDE DEF words
<1>3. Len(words) \in Nat
  BY <1>1, LenProperties
<1>4. CASE offset < Len(words)
  <2>1. offset + 1 \in 1 .. Len(words)
    BY <1>3, <1>4
  <2> QED BY <1>1, <1>2, <1>4, <2>1, ElementOfSeq
<1>5. CASE ~(offset < Len(words))
  BY <1>2, <1>5
<1> QED BY <1>4, <1>5

LEMMA ProgramTables ==
  ASSUME Versions, NEW t \in Traits
  PROVE  /\ program[t] \in Def /\ VTable(program)[t] \in Seq(Words)
         /\ Len(VTable(program)[t]) \in Nat
         /\ DOMAIN VTable(program)[t] = 1 .. Len(VTable(program)[t])
<1>1. program \in [Traits -> Def] /\ VTable(program) \in Tables
  BY ProgramCompiles, VTableIs DEF Versions
<1>2. VTable(program)[t] \in Seq(Words)
  BY <1>1 DEF Tables
<1> QED BY <1>1, <1>2, LenProperties

\* The static vtable of a trait is what the program takes it for.
LEMMA StaticMatches ==
  ASSUME Versions, NEW t \in Traits
  PROVE  Matches([trait |-> t, base |-> t, offset |-> 0])
<1> DEFINE old == VTable(program)[t]
           new == VTable(library)[t]
<1>1. /\ Len(old) \in Nat /\ Len(new) \in Nat /\ Len(old) <= Len(new)
      /\ \A i \in 1 .. Len(old) : new[i] = old[i]
  BY ProgramFirst
<1>2. DOMAIN old = 1 .. Len(old)
  BY ProgramTables
<1>3. ASSUME NEW i \in DOMAIN old
      PROVE  Read(t, 0 + i - 1) = old[i]
  <2>1. Read(t, 0 + i - 1) = IF 0 + i - 1 < Len(new) THEN new[0 + i - 1 + 1] ELSE None
    BY DEF Read
  <2> HIDE DEF old, new
  <2>2. i \in 1 .. Len(old) /\ 0 + i - 1 < Len(new) /\ 0 + i - 1 + 1 = i
    BY <1>1, <1>2
  <2> QED BY <1>1, <2>1, <2>2
<1> QED BY <1>3 DEF Matches

\* At the offset of an entry there is what the program expects of it.
LEMMA EntryRead ==
  ASSUME Versions, NEW table \in VTableRefs, Matches(table),
         NEW k \in DOMAIN program[table.trait].subtables
  PROVE  LET entry == EntryWords(program[table.trait].subtables[k], VTable(program))
             offset == SubtableOffset(program, table.trait, k)
         IN  /\ offset \in Nat /\ Len(entry) \in Nat
             /\ \A i \in 1 .. Len(entry) :
                  Read(table.base, table.offset + offset + i - 1) = entry[i]
<1> DEFINE t == table.trait
           words == VTable(program)[t]
           entry == EntryWords(program[t].subtables[k], VTable(program))
           offset == SubtableOffset(program, t, k)
<1>1. t \in Traits /\ table.offset \in Nat /\ table # None
  BY NoneAssumption DEF VTableRefs
<1>2. /\ program \in [Traits -> Def] /\ IsFiniteSet(Traits) /\ NotCircular(program)
      /\ VTable(program) \in Tables
  BY ProgramCompiles, VTableIs DEF Versions
<1>3. k \in 1 .. Len(program[t].subtables)
  BY <1>1, <1>2, DefFields
<1>4. /\ offset \in Nat /\ offset + Len(entry) <= Len(words)
      /\ \A i \in 1 .. Len(entry) : words[offset + i] = entry[i]
  BY <1>1, <1>2, <1>3, EntryInPlace
<1>5. Len(words) \in Nat /\ DOMAIN words = 1 .. Len(words)
  BY <1>1, ProgramTables
<1>6. \A i \in DOMAIN words : Read(table.base, table.offset + i - 1) = words[i]
  BY <1>1 DEF Matches
<1>7. Len(entry) \in Nat
  <2>1. program[t] \in Def
    BY <1>1, <1>2
  <2>2. Blocks(program[t], VTable(program)) \in [1 .. Len(program[t].subtables) -> Seq(Words)]
    BY <1>2, <2>1, BlocksTyped
  <2>3. entry \in Seq(Words)
    BY <1>3, <2>2 DEF Blocks
  <2> QED BY <2>3, LenProperties
<1> HIDE DEF t, words, entry, offset
<1>8. ASSUME NEW i \in 1 .. Len(entry)
      PROVE  Read(table.base, table.offset + offset + i - 1) = entry[i]
  <2>1. offset + i \in DOMAIN words
    BY <1>4, <1>5, <1>7
  <2>2. table.offset + (offset + i) - 1 = table.offset + offset + i - 1
    BY <1>1, <1>4
  <2>3. Read(table.base, table.offset + (offset + i) - 1) = words[offset + i]
    BY <1>6, <2>1
  <2> QED BY <1>4, <2>2, <2>3
<1> QED BY <1>4, <1>7, <1>8 DEF t, entry, offset

\* A pointer entry points to the static vtable of its trait.
LEMMA PointerRead ==
  ASSUME Versions, NEW table \in VTableRefs, Matches(table),
         NEW k \in DOMAIN program[table.trait].subtables,
         program[table.trait].subtables[k].ref
  PROVE  Read(table.base, table.offset + SubtableOffset(program, table.trait, k)) =
           Pointer(program[table.trait].subtables[k].path)
<1> DEFINE sub == program[table.trait].subtables[k]
           entry == EntryWords(sub, VTable(program))
           offset == SubtableOffset(program, table.trait, k)
<1>1. /\ offset \in Nat
      /\ \A i \in 1 .. Len(entry) : Read(table.base, table.offset + offset + i - 1) = entry[i]
  BY EntryRead
<1>2. entry = <<Pointer(sub.path)>>
  BY DEF EntryWords
<1>3. 1 \in 1 .. Len(entry) /\ entry[1] = Pointer(sub.path)
  BY <1>2
<1>4. table.offset + offset + 1 - 1 = table.offset + offset
  BY <1>1 DEF VTableRefs
<1> HIDE DEF entry, offset, sub
<1>5. Read(table.base, table.offset + offset + 1 - 1) = entry[1]
  BY <1>1, <1>3
<1>6. Read(table.base, table.offset + offset) = Pointer(sub.path)
  BY <1>3, <1>4, <1>5
<1> QED BY <1>6 DEF offset, sub

\* An entry that is a whole vtable is what the program takes it for.
LEMMA InsideMatches ==
  ASSUME Versions, NEW table \in VTableRefs, Matches(table),
         NEW k \in DOMAIN program[table.trait].subtables,
         ~program[table.trait].subtables[k].ref
  PROVE  Matches([trait |-> program[table.trait].subtables[k].path, base |-> table.base,
                  offset |-> table.offset + SubtableOffset(program, table.trait, k)])
<1> DEFINE sub == program[table.trait].subtables[k]
           words == VTable(program)[sub.path]
           offset == SubtableOffset(program, table.trait, k)
<1>1. words = EntryWords(sub, VTable(program))
  BY DEF EntryWords
<1>2. \A i \in 1 .. Len(words) : Read(table.base, table.offset + offset + i - 1) = words[i]
  BY <1>1, EntryRead
<1>3. sub.path \in Traits
  <2>1. program[table.trait] \in Def
    BY ProgramTables DEF VTableRefs
  <2> QED BY <2>1, DefFields
<1>4. DOMAIN words = 1 .. Len(words)
  BY <1>3, ProgramTables
<1> HIDE DEF sub, words, offset
<1>5. Matches([trait |-> sub.path, base |-> table.base, offset |-> table.offset + offset])
  BY <1>2, <1>4 DEF Matches, words
<1> QED BY <1>5 DEF sub, offset

\* A method's word is its own, in the vtable of its trait.
LEMMA MethodRead ==
  ASSUME Versions, NEW table \in VTableRefs, Matches(table),
         NEW m \in DOMAIN program[table.trait].methods
  PROVE  /\ MethodOffset(program, table.trait, m) \in Nat
         /\ Read(table.base, table.offset + MethodOffset(program, table.trait, m)) =
              Method(table.trait, program[table.trait].methods[m])
<1> DEFINE t == table.trait
           words == VTable(program)[t]
           offset == MethodOffset(program, t, m)
<1>1. t \in Traits /\ table.offset \in Nat /\ table # None
  BY NoneAssumption DEF VTableRefs
<1>2. program \in [Traits -> Def] /\ IsFiniteSet(Traits) /\ NotCircular(program)
  BY ProgramCompiles DEF Versions
<1>3. m \in 1 .. Len(program[t].methods)
  BY <1>1, <1>2, DefFields
<1>4. /\ offset \in Nat /\ offset + 1 \in 1 .. Len(words)
      /\ words[offset + 1] = Method(t, program[t].methods[m])
  BY <1>1, <1>2, <1>3, MethodInPlace
<1>5. DOMAIN words = 1 .. Len(words)
  BY <1>1, ProgramTables
<1>6. \A i \in DOMAIN words : Read(table.base, table.offset + i - 1) = words[i]
  BY <1>1 DEF Matches
<1> HIDE DEF t, words, offset
<1>7. Read(table.base, table.offset + (offset + 1) - 1) = words[offset + 1]
  BY <1>4, <1>5, <1>6
<1>8. table.offset + (offset + 1) - 1 = table.offset + offset
  BY <1>1, <1>4
<1>9. Read(table.base, table.offset + offset) = Method(t, program[t].methods[m])
  BY <1>4, <1>7, <1>8
<1> QED BY <1>4, <1>9 DEF t, offset

-----------------------------------------------------------------------------
(* The library's versions                                                  *)

LEMMA NewerStart == Init => LibraryNewer
<1> SUFFICES ASSUME Init PROVE LibraryNewer
  OBVIOUS
<1>1. library = program /\ program \in [Traits -> Def]
  BY ProgramCompiles DEF Init
<1>2. \A t \in Traits : Len(program[t].methods) \in Nat
  BY <1>1, DefFields
<1> QED BY <1>1, <1>2 DEF LibraryNewer

\* What AddMethod does to the library.
LEMMA MethodAdded ==
  ASSUME Versions, AddMethod
  PROVE  \E u \in Traits \ Inlined(program), m \in Methods :
           /\ library' \in [Traits -> Def]
           /\ \A t \in Traits : t # u => library'[t] = library[t]
           /\ library'[u].drop = library[u].drop /\ library'[u].layout = library[u].layout
           /\ library'[u].subtables = library[u].subtables
           /\ library'[u].methods = Append(library[u].methods, m)
<1>1. PICK u \in Traits \ Inlined(library), m \in Methods :
        library' = [library EXCEPT ![u].methods = Append(@, m)]
  BY DEF AddMethod
<1>2. \A t \in Traits : library[t].subtables = program[t].subtables
  BY DEF Versions, LibraryNewer
<1>3. u \notin Inlined(program)
  BY <1>1, <1>2 DEF Inlined
<1>4. library \in [Traits -> Def] /\ library[u] \in Def
  BY DEF Versions
<1>5. Append(library[u].methods, m) \in Seq(Methods)
  BY <1>4, DefFields, AppendProperties
<1>6. [library[u] EXCEPT !.methods = Append(library[u].methods, m)] \in Def
  BY <1>4, <1>5 DEF Def
<1>7. library' =
        [library EXCEPT ![u] = [library[u] EXCEPT !.methods = Append(library[u].methods, m)]]
  BY <1>1
<1>8. library' \in [Traits -> Def]
  BY <1>4, <1>6, <1>7
<1>9. /\ \A t \in Traits : t # u => library'[t] = library[t]
      /\ library'[u] = [library[u] EXCEPT !.methods = Append(library[u].methods, m)]
  BY <1>4, <1>7
<1>10. /\ library'[u].drop = library[u].drop /\ library'[u].layout = library[u].layout
       /\ library'[u].subtables = library[u].subtables
       /\ library'[u].methods = Append(library[u].methods, m)
  BY <1>4, <1>9 DEF Def
<1> QED BY <1>1, <1>3, <1>8, <1>9, <1>10

LEMMA NewerStep ==
  ASSUME Versions, [Next]_vars
  PROVE  Versions'
<1>1. CASE AddMethod
  <2>1. PICK u \in Traits \ Inlined(program), m \in Methods :
          /\ library' \in [Traits -> Def]
          /\ \A t \in Traits : t # u => library'[t] = library[t]
          /\ library'[u].drop = library[u].drop /\ library'[u].layout = library[u].layout
          /\ library'[u].subtables = library[u].subtables
          /\ library'[u].methods = Append(library[u].methods, m)
    BY <1>1, MethodAdded
  <2>2. program' = program
    BY <1>1 DEF AddMethod
  <2>3. library[u].methods \in Seq(Methods) /\ Len(library[u].methods) \in Nat
    BY DefFields DEF Versions
  <2>4. /\ Len(library'[u].methods) = Len(library[u].methods) + 1
        /\ \A j \in 1 .. Len(library[u].methods) : library'[u].methods[j] = library[u].methods[j]
    BY <2>1, <2>3, AppendProperties
  <2>5. /\ Len(program[u].methods) \in Nat
        /\ DOMAIN program[u].methods = 1 .. Len(program[u].methods)
    BY ProgramCompiles, DefFields DEF Versions
  <2>6. /\ Len(program[u].methods) <= Len(library[u].methods)
        /\ \A j \in DOMAIN program[u].methods : library[u].methods[j] = program[u].methods[j]
    BY DEF Versions, LibraryNewer
  <2>7. /\ Len(program[u].methods) <= Len(library'[u].methods)
        /\ \A j \in DOMAIN program[u].methods : library'[u].methods[j] = program[u].methods[j]
    <3>1. \A j \in 1 .. Len(program[u].methods) : j \in 1 .. Len(library[u].methods)
      BY <2>3, <2>5, <2>6
    <3>2. Len(program[u].methods) <= Len(library'[u].methods)
      BY <2>3, <2>4, <2>5, <2>6
    <3> QED BY <2>4, <2>5, <2>6, <3>1, <3>2
  <2>8. LibraryNewer'
    <3>1. ASSUME NEW t \in Traits, t # u
          PROVE  library'[t] = library[t] /\ program'[t] = program[t]
      BY <2>1, <2>2, <3>1
    <3>2. u \notin Inlined(program) /\ Inlined(program') = Inlined(program)
      BY <2>2
    <3>3. /\ library'[u].drop = program[u].drop /\ library'[u].layout = program[u].layout
          /\ library'[u].subtables = program[u].subtables
      BY <2>1 DEF Versions, LibraryNewer
    <3>4. ASSUME NEW t \in Traits
          PROVE  /\ library[t].drop = program[t].drop /\ library[t].layout = program[t].layout
                 /\ library[t].subtables = program[t].subtables
                 /\ Len(program[t].methods) <= Len(library[t].methods)
                 /\ \A j \in DOMAIN program[t].methods :
                      library[t].methods[j] = program[t].methods[j]
                 /\ t \in Inlined(program) => library[t] = program[t]
      BY DEF Versions, LibraryNewer
    <3> QED BY <2>2, <2>7, <3>1, <3>2, <3>3, <3>4 DEF LibraryNewer
  <2> QED BY <2>1, <2>2, <2>8 DEF Versions
<1>2. CASE UNCHANGED <<library, program>>
  BY <1>2 DEF Versions, LibraryNewer
<1>3. AddMethod \/ UNCHANGED <<library, program>>
  BY DEF Next, vars, New, BeginUpcast, BeginCall, Itself, Getter, Delegate, EndUpcast, EndCall
<1> QED BY <1>1, <1>2, <1>3

-----------------------------------------------------------------------------
(* Calls of subtable                                                       *)

OpTyped ==
  op \in [for : {"nothing", "upcast", "call"}, trait : Traits \cup {None},
          method : Methods \cup {None}]

\* All that is known of a call or an upcast that has begun.
Calling ==
  /\ held \in TableRef /\ cur \in TableRef /\ goals \in Seq(Traits) /\ OpTyped
  /\ Underway

LEMMA SubTablesTyped ==
  ASSUME program \in [Traits -> Def], NEW t \in Traits
  PROVE  SubTables(program, t) \subseteq Traits
<1>1. \A k \in DOMAIN program[t].subtables :
        /\ program[t].subtables[k].path \in Traits
        /\ program[t].subtables[k].children \in Seq(Child)
  BY DefFields
<1>2. \A child \in Below(program[t]) : child \in Child
  <2>1. \A k \in DOMAIN program[t].subtables :
          \A c \in DOMAIN program[t].subtables[k].children :
            program[t].subtables[k].children[c] \in Child
    BY <1>1, LenProperties, ElementOfSeq
  <2> QED BY <2>1 DEF Below
<1> QED BY <1>1, <1>2 DEF SubTables, TopLevel, Child

\* Each impl that a call goes through is one of a trait towards its goal.
LEMMA CallingStart == Init => Calling
<1> SUFFICES ASSUME Init PROVE Calling
  OBVIOUS
<1>1. held = None /\ goals = <<>> /\ cur = None /\ op = Idle
  BY DEF Init
<1>2. goals \in Seq(Traits) /\ OpTyped
  BY <1>1 DEF OpTyped, Idle
<1> QED BY <1>1, <1>2 DEF Calling, Underway, TableRef

LEMMA BeginSteps ==
  ASSUME Calling, program \in Programs, New \/ BeginUpcast \/ BeginCall
  PROVE  Calling'
<1>1. program' = program /\ program \in [Traits -> Def]
  BY ProgramCompiles DEF New, BeginUpcast, BeginCall
<1>2. CASE New
  <2>1. held' \in VTableRefs /\ op = Idle
    BY <1>2 DEF New, VTableRefs, Calling, Underway
  <2> QED BY <1>2, <2>1 DEF New, Calling, Underway, TableRef, OpTyped
<1>3. ASSUME NEW u \in SubTables(program, held.trait), held # None, op = Idle,
             goals' = <<u>>, cur' = held, held' = held, op'.trait = u, op' # Idle,
             OpTyped', op'.for \in {"upcast", "call"},
             op'.for = "call" =>
               \E m \in DOMAIN program[u].methods : program[u].methods[m] = op'.method
      PROVE  Calling'
  <2>1. held \in VTableRefs /\ held.trait \in Traits /\ u \in Traits
    BY <1>1, <1>3, SubTablesTyped DEF Calling, TableRef, VTableRefs
  <2>2. /\ goals' \in Seq(Traits) /\ Len(goals') = 1
        /\ goals' # <<>> /\ Head(goals') = u /\ goals'[1] = u
    BY <1>3, <2>1
  <2>3. Underway'
    BY <1>1, <1>3, <2>2 DEF Underway
  <2> QED BY <1>3, <2>1, <2>2, <2>3 DEF Calling, TableRef
<1>4. ASSUME NEW u \in SubTables(program, held.trait), held # None
      PROVE  u \in Traits /\ held.trait \in Traits
  BY <1>1, <1>4, SubTablesTyped DEF Calling, TableRef, VTableRefs
<1>5. CASE BeginUpcast
  <2>1. PICK u \in SubTables(program, held.trait) :
          goals' = <<u>> /\ op' = [for |-> "upcast", trait |-> u, method |-> None]
    BY <1>5 DEF BeginUpcast
  <2>2. held # None /\ op = Idle /\ cur' = held /\ held' = held
    BY <1>5 DEF BeginUpcast
  <2>3. op'.trait = u /\ op' # Idle /\ OpTyped' /\ op'.for = "upcast"
    BY <1>4, <2>1, <2>2 DEF Idle, OpTyped
  <2> QED BY <1>3, <2>1, <2>2, <2>3
<1>6. CASE BeginCall
  <2>1. PICK u \in SubTables(program, held.trait) :
          \E m \in DOMAIN program[u].methods :
            /\ goals' = <<u>>
            /\ op' = [for |-> "call", trait |-> u, method |-> program[u].methods[m]]
    BY <1>6 DEF BeginCall
  <2>2. PICK m \in DOMAIN program[u].methods :
          /\ goals' = <<u>>
          /\ op' = [for |-> "call", trait |-> u, method |-> program[u].methods[m]]
    BY <2>1
  <2>3. held # None /\ op = Idle /\ cur' = held /\ held' = held
    BY <1>6 DEF BeginCall
  <2>4. program[u].methods[m] \in Methods
    BY <1>1, <1>4, <2>3, DefFields
  <2>5. /\ op'.trait = u /\ op' # Idle /\ OpTyped'
        /\ op'.for = "call" /\ op'.method = program[u].methods[m]
    BY <1>4, <2>2, <2>3, <2>4 DEF Idle, OpTyped
  <2> QED BY <1>3, <2>2, <2>3, <2>5
<1> QED BY <1>2, <1>5, <1>6

LEMMA Reached ==
  ASSUME Calling, goals # <<>>, goals' = Tail(goals),
         cur' \in VTableRefs, cur'.trait = Head(goals), UNCHANGED <<program, held, op>>
  PROVE  Calling'
<1>1. goals \in Seq(Traits) /\ Len(goals) \in Nat \ {0} /\ Head(goals) = goals[1]
  BY EmptySeq DEF Calling
<1>2. /\ goals' \in Seq(Traits) /\ Len(goals') = Len(goals) - 1
      /\ \A i \in 1 .. Len(goals') : goals'[i] = goals[i + 1]
  BY <1>1, HeadTailProperties
<1>3. op # Idle
  BY DEF Calling, Underway
<1>4. /\ held # None /\ op.for \in {"upcast", "call"} /\ op.trait \in SubTables(program, held.trait)
      /\ op.for = "call" =>
           \E m \in DOMAIN program[op.trait].methods : program[op.trait].methods[m] = op.method
      /\ goals[Len(goals)] = op.trait
      /\ \A g \in 1 .. (Len(goals) - 1) : goals[g + 1] \in SubTables(program, goals[g])
  BY <1>3 DEF Calling, Underway
<1>5. cur' # None
  BY NoneAssumption
<1>6. CASE goals' = <<>>
  <2>1. Len(goals') = 0
    <3>1. Len(<<>>) = 0
      OBVIOUS
    <3> QED BY <1>6, <3>1
  <2>2. Len(goals) = 1
    BY <1>1, <1>2, <2>1
  <2>3. cur'.trait = op.trait
    BY <1>1, <1>4, <2>2
  <2>4. 1 .. (Len(goals') - 1) = {}
    <3>1. 1 .. (0 - 1) = {}
      OBVIOUS
    <3> QED BY <2>1, <3>1, Zenon
  <2>5. Underway'
    BY <1>3, <1>4, <1>5, <1>6, <2>3, <2>4 DEF Underway
  <2> QED BY <1>2, <2>5 DEF Calling, OpTyped, TableRef
<1>7. CASE goals' # <<>>
  <2>1. Len(goals') \in Nat \ {0} /\ Head(goals') = goals'[1]
    BY <1>2, <1>7, EmptySeq
  <2>2. goals'[1] = goals[2] /\ goals[2] \in SubTables(program, goals[1])
    <3>1. 1 \in 1 .. Len(goals') /\ 1 \in 1 .. (Len(goals) - 1) /\ 1 + 1 = 2
      BY <1>1, <1>2, <2>1
    <3> QED BY <1>2, <1>4, <3>1
  <2>3. goals'[Len(goals')] = op.trait
    <3>1. Len(goals') \in 1 .. Len(goals') /\ Len(goals') + 1 = Len(goals)
      BY <1>1, <1>2, <2>1
    <3> QED BY <1>2, <1>4, <3>1
  <2>4. \A g \in 1 .. (Len(goals') - 1) : goals'[g + 1] \in SubTables(program, goals'[g])
    <3>1. SUFFICES ASSUME NEW g \in 1 .. (Len(goals') - 1)
                   PROVE  goals'[g + 1] \in SubTables(program, goals'[g])
      OBVIOUS
    <3>2. g + 1 \in 1 .. (Len(goals) - 1) /\ g \in 1 .. Len(goals') /\ g + 1 \in 1 .. Len(goals')
      BY <1>1, <1>2
    <3>3. goals'[g + 1] = goals[g + 1 + 1] /\ goals'[g] = goals[g + 1]
      BY <1>2, <3>2
    <3> QED BY <1>4, <3>2, <3>3
  <2>5. Head(goals') \in SubTables(program, cur'.trait)
    BY <1>1, <2>1, <2>2
  <2>6. Underway'
    BY <1>3, <1>4, <1>5, <1>7, <2>3, <2>4, <2>5 DEF Underway
  <2> QED BY <1>2, <2>6 DEF Calling, OpTyped, TableRef
<1> QED BY <1>6, <1>7

LEMMA CurIsVTable ==
  ASSUME Calling, goals # <<>> \/ op # Idle
  PROVE  /\ op # Idle /\ cur \in VTableRefs /\ cur # None
         /\ cur.trait \in Traits /\ cur.base \in Traits /\ cur.offset \in Nat
<1>1. op # Idle /\ cur # None
  BY DEF Calling, Underway
<1>2. cur \in VTableRefs
  BY <1>1 DEF Calling, TableRef
<1> QED BY <1>1, <1>2 DEF VTableRefs

\* Where the getter of a field leads.
LEMMA GetterLeads ==
  ASSUME Calling, Versions, Getter
  PROVE  /\ cur' \in VTableRefs /\ cur'.trait = Head(goals)
         /\ \E k \in DOMAIN program[cur.trait].subtables :
              LET sub == program[cur.trait].subtables[k]
                  at == cur.offset + SubtableOffset(program, cur.trait, k) IN
              \/ /\ sub.ref
                 /\ cur' = [trait |-> sub.path, base |-> Read(cur.base, at).trait, offset |-> 0]
              \/ /\ ~sub.ref
                 /\ cur' = [trait |-> sub.path, base |-> cur.base, offset |-> at]
<1>1. /\ cur \in VTableRefs /\ cur.trait \in Traits /\ cur.base \in Traits /\ cur.offset \in Nat
  BY CurIsVTable DEF Getter
<1>2. PICK k \in DOMAIN program[cur.trait].subtables :
        LET sub == program[cur.trait].subtables[k]
            at == cur.offset + SubtableOffset(program, cur.trait, k) IN
        /\ sub.path = Head(goals)
        /\ IF sub.ref
           THEN /\ Read(cur.base, at) \in {Pointer(t) : t \in Traits}
                /\ cur' = [trait |-> sub.path, base |-> Read(cur.base, at).trait, offset |-> 0]
           ELSE cur' = [trait |-> sub.path, base |-> cur.base, offset |-> at]
  BY DEF Getter
<1> DEFINE sub == program[cur.trait].subtables[k]
           at == cur.offset + SubtableOffset(program, cur.trait, k)
<1>3. /\ program \in [Traits -> Def] /\ program[cur.trait] \in Def /\ IsFiniteSet(Traits)
      /\ NotCircular(program)
  BY <1>1, ProgramCompiles DEF Versions
<1>4. k \in 1 .. Len(program[cur.trait].subtables)
  BY <1>3, DefFields
<1>5. SubtableOffset(program, cur.trait, k) \in Nat
  BY <1>1, <1>3, <1>4, EntryInPlace
<1>6. at \in Nat /\ sub.path \in Traits /\ sub.ref \in BOOLEAN
  <2>1. sub.path \in Traits /\ sub.ref \in BOOLEAN
    BY <1>3, <1>4, DefFields
  <2>2. at \in Nat
    BY <1>1, <1>5
  <2> QED BY <2>1, <2>2
<1> HIDE DEF sub, at
<1>7. CASE sub.ref
  <2>1. PICK t \in Traits : Read(cur.base, at) = Pointer(t)
    BY <1>2, <1>7 DEF sub, at
  <2>2. Read(cur.base, at).trait \in Traits
    BY <2>1 DEF Pointer
  <2>3. cur' = [trait |-> sub.path, base |-> Read(cur.base, at).trait, offset |-> 0]
    BY <1>2, <1>7 DEF sub, at
  <2>4. cur' \in VTableRefs /\ cur'.trait = sub.path
    BY <1>6, <2>2, <2>3 DEF VTableRefs
  <2> QED BY <1>2, <1>7, <2>3, <2>4 DEF sub, at
<1>8. CASE ~sub.ref
  <2>1. cur' = [trait |-> sub.path, base |-> cur.base, offset |-> at]
    BY <1>2, <1>8 DEF sub, at
  <2>2. cur' \in VTableRefs /\ cur'.trait = sub.path
    BY <1>1, <1>6, <2>1 DEF VTableRefs
  <2> QED BY <1>2, <1>8, <2>1, <2>2 DEF sub, at
<1> QED BY <1>7, <1>8

LEMMA DelegateStep ==
  ASSUME Calling, program \in Programs, Delegate
  PROVE  Calling'
<1>1. program \in [Traits -> Def] /\ ImplsExist(program)
  BY ProgramCompiles
<1>2. cur # None /\ op # Idle /\ cur.trait \in Traits
  BY CurIsVTable DEF Delegate
<1>3. PICK child \in Below(program[cur.trait]) :
        child.path = Head(goals) /\ goals' = <<child.parent>> \o goals
  BY DEF Delegate
<1>4. /\ child.parent \in SubTables(program, cur.trait)
      /\ child.path \in SubTables(program, child.parent)
  BY <1>1, <1>2 DEF ImplsExist
<1>5. child.parent \in Traits
  BY <1>1, <1>2, <1>4, SubTablesTyped
<1>6. goals \in Seq(Traits) /\ Len(goals) \in Nat \ {0} /\ Head(goals) = goals[1]
  BY EmptySeq DEF Calling, Delegate
<1>7. /\ <<child.parent>> \in Seq(Traits) /\ Len(<<child.parent>>) = 1
      /\ <<child.parent>>[1] = child.parent
  BY <1>5
<1>8. /\ goals' \in Seq(Traits) /\ Len(goals') = 1 + Len(goals)
      /\ \A i \in 1 .. (1 + Len(goals)) :
           goals'[i] = IF i <= 1 THEN <<child.parent>>[i] ELSE goals[i - 1]
  BY <1>3, <1>6, <1>7, ConcatProperties
<1>9. /\ goals'[1] = child.parent /\ goals' # <<>> /\ Head(goals') = child.parent
      /\ \A i \in 2 .. (1 + Len(goals)) : goals'[i] = goals[i - 1]
  BY <1>6, <1>7, <1>8
<1>10. /\ held # None /\ op.for \in {"upcast", "call"}
       /\ op.trait \in SubTables(program, held.trait)
       /\ op.for = "call" =>
            \E m \in DOMAIN program[op.trait].methods : program[op.trait].methods[m] = op.method
       /\ goals[Len(goals)] = op.trait
       /\ \A g \in 1 .. (Len(goals) - 1) : goals[g + 1] \in SubTables(program, goals[g])
  BY <1>2 DEF Calling, Underway, Delegate
<1>11. goals'[Len(goals')] = op.trait
  BY <1>6, <1>8, <1>9, <1>10
<1>12. ASSUME NEW g \in 1 .. (Len(goals') - 1)
       PROVE  goals'[g + 1] \in SubTables(program, goals'[g])
  <2>1. goals'[g + 1] = goals[g]
    <3>1. g + 1 \in 2 .. (1 + Len(goals)) /\ g + 1 - 1 = g
      BY <1>6, <1>8
    <3> QED BY <1>9, <3>1
  <2>2. CASE g = 1
    BY <1>3, <1>4, <1>6, <1>9, <2>1, <2>2
  <2>3. CASE g # 1
    <3>1. g \in 2 .. (1 + Len(goals)) /\ g - 1 \in 1 .. (Len(goals) - 1) /\ g - 1 + 1 = g
      BY <1>6, <1>8, <2>3
    <3> QED BY <1>9, <1>10, <2>1, <3>1
  <2> QED BY <2>2, <2>3
<1>13. UNCHANGED <<program, held, cur, op>>
  BY DEF Delegate
<1>14. Head(goals') \in SubTables(program, cur.trait)
  BY <1>4, <1>9
<1>15. Underway'
  BY <1>2, <1>9, <1>10, <1>11, <1>12, <1>13, <1>14 DEF Underway
<1> QED BY <1>8, <1>13, <1>15 DEF Calling, OpTyped

LEMMA CallingStep ==
  ASSUME Calling, Versions, [Next]_vars
  PROVE  Calling'
<1>1. CASE New \/ BeginUpcast \/ BeginCall
  BY <1>1, BeginSteps DEF Versions
<1>2. CASE Itself
  <2>1. cur \in VTableRefs
    BY <1>2, CurIsVTable DEF Itself
  <2> QED BY <1>2, <2>1, Reached DEF Itself
<1>3. CASE Getter
  <2>1. cur' \in VTableRefs /\ cur'.trait = Head(goals)
    BY <1>3, GetterLeads
  <2> QED BY <1>3, <2>1, Reached DEF Getter
<1>4. CASE Delegate
  BY <1>4, DelegateStep DEF Versions
<1>5. CASE EndUpcast \/ EndCall
  <2>1. goals' = <<>> /\ cur' = None /\ op' = Idle /\ held' \in TableRef
    BY <1>5 DEF EndUpcast, EndCall, Calling
  <2>2. goals' \in Seq(Traits) /\ OpTyped'
    BY <2>1 DEF OpTyped, Idle
  <2> QED BY <2>1, <2>2 DEF Calling, Underway, TableRef
<1>6. CASE UNCHANGED <<program, held, goals, cur, op>>
  BY <1>6 DEF Calling, Underway, OpTyped
<1> QED BY <1>1, <1>2, <1>3, <1>4, <1>5, <1>6 DEF Next, vars, AddMethod

-----------------------------------------------------------------------------
(* Words in place                                                          *)

\* Whether a vtable reference is right depends on the versions only.
LEMMA MatchesStays ==
  ASSUME UNCHANGED <<library, program>>
  PROVE  /\ held' = held => (Matches(held)' <=> Matches(held))
         /\ cur' = cur => (Matches(cur)' <=> Matches(cur))
         /\ held' = cur => (Matches(held)' <=> Matches(cur))
         /\ cur' = held => (Matches(cur)' <=> Matches(held))
  BY DEF Matches, Read

LEMMA NoneMatches ==
  /\ held' = None => Matches(held)'
  /\ cur' = None => Matches(cur)'
  BY DEF Matches

LEMMA NewMatches ==
  ASSUME Versions, New
  PROVE  Matches(held)'
<1>1. PICK t \in Traits : held' = [trait |-> t, base |-> t, offset |-> 0]
  BY DEF New
<1>2. Matches([trait |-> t, base |-> t, offset |-> 0])
  BY StaticMatches
<1>3. library' = library /\ program' = program
  BY DEF New
<1>4. held'.trait = t /\ held'.base = t /\ held'.offset = 0
  BY <1>1
<1>5. \A i \in DOMAIN VTable(program)[t] : Read(t, 0 + i - 1) = VTable(program)[t][i]
  <2>1. [trait |-> t, base |-> t, offset |-> 0] # None
    BY NoneAssumption DEF VTableRefs
  <2> QED BY <1>2, <2>1 DEF Matches
<1> QED BY <1>3, <1>4, <1>5 DEF Matches, Read

LEMMA GetterMatches ==
  ASSUME Calling, Versions, Matches(cur), Getter
  PROVE  Matches(cur)'
<1>1. cur \in VTableRefs
  BY CurIsVTable DEF Getter
<1>2. PICK k \in DOMAIN program[cur.trait].subtables :
        LET sub == program[cur.trait].subtables[k]
            at == cur.offset + SubtableOffset(program, cur.trait, k) IN
        \/ /\ sub.ref
           /\ cur' = [trait |-> sub.path, base |-> Read(cur.base, at).trait, offset |-> 0]
        \/ ~sub.ref /\ cur' = [trait |-> sub.path, base |-> cur.base, offset |-> at]
  BY GetterLeads
<1> DEFINE sub == program[cur.trait].subtables[k]
           at == cur.offset + SubtableOffset(program, cur.trait, k)
<1>3. library' = library /\ program' = program /\ cur' # None
  BY GetterLeads, NoneAssumption DEF Getter
<1>4. sub.path \in Traits /\ sub.ref \in BOOLEAN
  <2>1. program[cur.trait] \in Def
    BY <1>1, ProgramTables DEF VTableRefs
  <2> QED BY <2>1, DefFields
<1>5. CASE sub.ref
  <2>1. Read(cur.base, at) = Pointer(sub.path)
    BY <1>1, <1>5, PointerRead
  <2>2. cur' = [trait |-> sub.path, base |-> sub.path, offset |-> 0]
    BY <1>2, <1>5, <2>1 DEF Pointer
  <2>3. Matches([trait |-> sub.path, base |-> sub.path, offset |-> 0])
    BY <1>4, StaticMatches
  <2> HIDE DEF sub, at
  <2>4. Matches(cur')
    BY <2>2, <2>3
  <2> QED BY <1>3, <2>4 DEF Matches, Read
<1>6. CASE ~sub.ref
  <2>1. cur' = [trait |-> sub.path, base |-> cur.base, offset |-> at]
    BY <1>2, <1>6
  <2>2. Matches([trait |-> sub.path, base |-> cur.base, offset |-> at])
    BY <1>1, <1>6, InsideMatches
  <2> HIDE DEF sub, at
  <2>3. Matches(cur')
    BY <2>1, <2>2
  <2> QED BY <1>3, <2>3 DEF Matches, Read
<1> QED BY <1>4, <1>5, <1>6

LEMMA WordsStep ==
  ASSUME Calling, Versions, WordsInPlace, [Next]_vars
  PROVE  WordsInPlace'
<1>1. CASE AddMethod
  <2>1. held = None /\ cur = None
    BY <1>1 DEF AddMethod, Calling, Underway
  <2> QED BY <1>1, <2>1, NoneMatches DEF AddMethod, WordsInPlace
<1>2. CASE New
  <2>1. cur' = None
    BY <1>2 DEF New, Calling, Underway
  <2> QED BY <1>2, <2>1, NewMatches, NoneMatches DEF WordsInPlace
<1>3. CASE Getter
  <2>1. held' = held /\ UNCHANGED <<library, program>>
    BY <1>3 DEF Getter
  <2> QED BY <1>3, <2>1, GetterMatches, MatchesStays DEF WordsInPlace
<1>4. CASE BeginUpcast \/ BeginCall
  <2>1. held' = held /\ cur' = held /\ UNCHANGED <<library, program>>
    BY <1>4 DEF BeginUpcast, BeginCall
  <2> QED BY <2>1, MatchesStays DEF WordsInPlace
<1>5. CASE EndUpcast
  <2>1. held' = cur /\ cur' = None /\ UNCHANGED <<library, program>>
    BY <1>5 DEF EndUpcast
  <2> QED BY <2>1, MatchesStays, NoneMatches DEF WordsInPlace
<1>6. CASE EndCall
  <2>1. held' = held /\ cur' = None /\ UNCHANGED <<library, program>>
    BY <1>6 DEF EndCall
  <2> QED BY <2>1, MatchesStays, NoneMatches DEF WordsInPlace
<1>7. CASE UNCHANGED <<library, program, held, cur>>
  BY <1>7, MatchesStays DEF WordsInPlace
<1> QED BY <1>1, <1>2, <1>3, <1>4, <1>5, <1>6, <1>7 DEF Next, vars, Itself, Delegate

-----------------------------------------------------------------------------
(* The theorems                                                            *)

CalledTyped ==
  called = None \/ called \in [trait : Traits, method : Methods, ran : Words \cup {None}]

Inv == Versions /\ Calling /\ WordsInPlace /\ CalledTyped

\* What a call that ends has run.
LEMMA CallRuns ==
  ASSUME Calling, Versions, WordsInPlace, EndCall
  PROVE  /\ op.trait \in SubTables(program, held.trait) /\ held # None
         /\ op.trait \in Traits /\ op.method \in Methods
         /\ called' = [trait |-> op.trait, method |-> op.method,
                        ran |-> Method(op.trait, op.method)]
<1>1. cur \in VTableRefs /\ op # Idle
  BY CurIsVTable DEF EndCall, Idle
<1>2. cur.trait = op.trait /\ op.trait \in SubTables(program, held.trait) /\ held # None
  BY <1>1 DEF EndCall, Calling, Underway
<1>3. PICK m \in DOMAIN program[cur.trait].methods :
        /\ program[cur.trait].methods[m] = op.method
        /\ called' = [trait |-> op.trait, method |-> op.method,
             ran |-> Read(cur.base, cur.offset + MethodOffset(program, cur.trait, m))]
  BY DEF EndCall
<1>4. Read(cur.base, cur.offset + MethodOffset(program, cur.trait, m)) =
        Method(cur.trait, program[cur.trait].methods[m])
  BY <1>1, MethodRead DEF WordsInPlace
<1>5. op.trait \in Traits /\ op.method \in Methods
  <2>1. program[cur.trait] \in Def /\ cur.trait \in Traits
    BY <1>1, ProgramTables DEF VTableRefs
  <2>2. program[cur.trait].methods[m] \in Methods
    BY <2>1, DefFields
  <2> QED BY <1>2, <1>3, <2>1, <2>2
<1> QED BY <1>2, <1>3, <1>4, <1>5

LEMMA InvStart == Init => Inv
<1> SUFFICES ASSUME Init PROVE Inv
  OBVIOUS
<1>1. library \in [Traits -> Def] /\ program \in Programs
  BY ProgramCompiles DEF Init
<1>2. held = None /\ cur = None /\ called = None
  BY DEF Init
<1>3. WordsInPlace
  BY <1>2 DEF WordsInPlace, Matches
<1> QED BY <1>1, <1>2, <1>3, NewerStart, CallingStart DEF Inv, Versions, CalledTyped

LEMMA InvStep == Inv /\ [Next]_vars => Inv'
<1> SUFFICES ASSUME Inv, [Next]_vars PROVE Inv'
  OBVIOUS
<1>1. Versions' /\ Calling' /\ WordsInPlace'
  BY NewerStep, CallingStep, WordsStep DEF Inv
<1>2. CalledTyped'
  <2>1. CASE EndCall
    <3>1. /\ op.trait \in Traits /\ op.method \in Methods
          /\ called' = [trait |-> op.trait, method |-> op.method,
                         ran |-> Method(op.trait, op.method)]
      BY <2>1, CallRuns DEF Inv
    <3>2. Method(op.trait, op.method) \in Words
      BY <3>1, WordsAreWords
    <3> QED BY <3>1, <3>2 DEF CalledTyped
  <2>2. CASE UNCHANGED called
    BY <2>2 DEF Inv, CalledTyped
  <2> QED BY <2>1, <2>2 DEF Next, vars, AddMethod, New, BeginUpcast, BeginCall, Itself, Getter,
             Delegate, EndUpcast
<1> QED BY <1>1, <1>2 DEF Inv

LEMMA InvHolds == Spec => []Inv
  BY InvStart, InvStep, PTL DEF Spec

\* Every variable has its type; the memory that a call reads is made of words.
THEOREM TypeCorrect == Spec => []TypeOK
<1>1. Inv => TypeOK
  BY DEF Inv, Versions, Calling, OpTyped, CalledTyped, TypeOK
<1> QED BY <1>1, InvHolds, PTL

\* The library differs from the program only as a newer version may, and every call of
\* subtable leads to the trait that the call or the upcast is for.
THEOREM DispatchHolds == Spec => []DispatchInv
<1>1. Inv => DispatchInv
  BY DEF Inv, Versions, Calling, DispatchInv
<1> QED BY <1>1, InvHolds, PTL

\* However a vtable was reached, also one of a newer library, each word that the program
\* knows of is where the program's own layout has it.
THEOREM WordsAreInPlace == Spec => []WordsInPlace
<1>1. Inv => WordsInPlace
  BY DEF Inv
<1> QED BY <1>1, InvHolds, PTL

-----------------------------------------------------------------------------
(* The refinement of TraitObject                                           *)

Trait == IF held = None THEN None ELSE held.trait

LEMMA StartMaps == Init => TO!Init
<1> SUFFICES ASSUME Init PROVE TO!Init
  OBVIOUS
<1>1. Trait = None /\ called = None
  BY DEF Init, Trait
<1>2. Upcasts \subseteq Traits \X Traits
  BY DEF Upcasts
<1> QED BY <1>1, <1>2 DEF TO!Init, Trait

\* Every step changes what TraitObject sees as one of its actions does, or not at all.
LEMMA StepMaps ==
  ASSUME Inv, [Next]_vars
  PROVE  [TO!Make \/ TO!Upcast \/ TO!Call]_TO!vars
<1>1. program' = program
  BY DEF Next, vars, AddMethod, New, BeginUpcast, BeginCall, Itself, Getter, Delegate, EndUpcast,
         EndCall
<1>2. Upcasts' = Upcasts
  BY <1>1 DEF Upcasts, SubTables
<1>3. held # None => held.trait \in Traits /\ held.trait # None
  BY ProgramsAssumption DEF Inv, Calling, TableRef, VTableRefs
<1>4. CASE New
  <2>1. held = None /\ called' = called /\ held' \in VTableRefs
    BY <1>4 DEF New, VTableRefs
  <2>2. held' # None /\ held'.trait \in Traits
    BY <2>1, NoneAssumption DEF VTableRefs
  <2>3. Trait = None /\ Trait' \in Traits
    BY <2>1, <2>2 DEF Trait
  <2>4. TO!Make
    BY <1>2, <2>1, <2>3 DEF TO!Make, Trait
  <2> QED BY <2>4
<1>5. CASE EndUpcast
  <2>1. op # Idle /\ held' = cur /\ called' = called /\ goals = <<>>
    BY <1>5 DEF EndUpcast, Idle
  <2>2. /\ held # None /\ cur # None /\ cur.trait = op.trait
        /\ op.trait \in SubTables(program, held.trait)
    BY <2>1 DEF Inv, Calling, Underway
  <2>3. cur.trait \in Traits
    BY <2>1, CurIsVTable DEF Inv
  <2>4. <<held.trait, cur.trait>> \in Upcasts
    BY <1>3, <2>2, <2>3 DEF Upcasts
  <2>5. Trait = held.trait /\ Trait' = cur.trait
    BY <2>1, <2>2 DEF Trait
  <2>6. Trait # None /\ <<Trait, Trait'>> \in Upcasts
    BY <1>3, <2>2, <2>4, <2>5
  <2>7. TO!Upcast
    BY <1>2, <2>1, <2>6 DEF TO!Upcast, Trait
  <2> QED BY <2>7
<1>6. CASE EndCall
  <2>1. /\ op.trait \in SubTables(program, held.trait) /\ held # None
        /\ op.trait \in Traits /\ op.method \in Methods
        /\ called' = [trait |-> op.trait, method |-> op.method,
                       ran |-> Method(op.trait, op.method)]
    BY <1>6, CallRuns DEF Inv
  <2>2. held' = held
    BY <1>6 DEF EndCall
  <2>3. Trait = held.trait /\ Trait' = Trait /\ Trait # None
    BY <1>3, <2>1, <2>2 DEF Trait
  <2>4. <<Trait, op.trait>> \in Upcasts
    BY <1>3, <2>1, <2>3 DEF Upcasts
  <2>5. TO!Call
    BY <1>2, <2>1, <2>3, <2>4 DEF TO!Call, TO!Ran, Method, Trait
  <2> QED BY <2>5
<1>7. CASE UNCHANGED <<held, called>>
  BY <1>2, <1>7 DEF TO!vars
<1> QED BY <1>4, <1>5, <1>6, <1>7 DEF Next, vars, AddMethod, BeginUpcast, BeginCall, Itself, Getter,
         Delegate

\* The fat pointer is a trait object: an upcast changes nothing but the trait, and a call
\* runs the method that it names on the value's type, whatever the path to the vtable is.
THEOREM VTablesImplementTraitObject == Spec => ImplementsTraitObject
  BY InvHolds, StartMaps, StepMaps, InvStart, InvStep, PTL DEF Spec, ImplementsTraitObject, TO!Spec
=============================================================================
