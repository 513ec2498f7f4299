----------------------------- MODULE BasicFacts -----------------------------
(***************************************************************************)
(* Facts about numbers and sequences that several proofs need: least       *)
(* elements (the kernel's choice of the lowest free descriptor), induction *)
(* stated with sets (the lines of a configuration file), lists without     *)
(* duplicates (the list of connections, the queue of datagrams) and runs   *)
(* of consecutive numbers (the bytes of a stream).                         *)
(***************************************************************************)
EXTENDS Integers, FiniteSets, SequencesExt, SequenceTheorems, FiniteSetTheorems, TLAPS

\* A set that has no least number has none: among the intervals 1..n of its
\* numbers n, one is minimal for inclusion.
LEMMA LeastElement ==
  ASSUME NEW S, S \subseteq Nat, S # {}
  PROVE  \E n \in S : \A m \in S : n <= m
<1> DEFINE R == StrictSubsetOrdering(Nat)
           T == {1..n : n \in S}
<1>1. IsWellFoundedOn(R, FiniteSubsetsOf(Nat))
  BY FS_StrictSubsetOrderingWellFounded
<1>2. T \subseteq FiniteSubsetsOf(Nat)
  <2>1. \A n \in Nat : IsFiniteSet(1..n)
    BY FS_Interval
  <2> QED
    BY <2>1 DEF FiniteSubsetsOf
<1>3. T # {}
  OBVIOUS
<1>4. PICK x \in T : \A y \in T : <<y, x>> \notin R
  <2> HIDE DEF T, R
  <2> QED
    BY <1>1, <1>2, <1>3, WFMin
<1>5. PICK n \in S : x = 1..n
  OBVIOUS
<1>6. ASSUME NEW m \in S, ~(n <= m) PROVE FALSE
  <2>1. /\ 1..m \in T /\ 1..m \in SUBSET Nat /\ 1..n \in SUBSET Nat
        /\ 1..m \subseteq 1..n /\ n \in 1..n /\ n \notin 1..m
    BY <1>6
  <2>2. <<1..m, 1..n>> \in R
    BY <2>1 DEF StrictSubsetOrdering
  <2> QED
    BY <1>4, <1>5, <2>1, <2>2
<1> QED
  BY <1>6

\* Induction over the natural numbers.
LEMMA SetInduction ==
  ASSUME NEW P, 0 \in P, \A n \in Nat : n \in P => n + 1 \in P
  PROVE  Nat \subseteq P
<1> DEFINE S == {n \in Nat : n \notin P}
<1>1. SUFFICES ASSUME S # {} PROVE FALSE
  OBVIOUS
<1>2. PICK n \in S : \A m \in S : n <= m
  <2>1. S \subseteq Nat
    OBVIOUS
  <2> HIDE DEF S
  <2> QED
    BY <1>1, <2>1, LeastElement
<1>3. n # 0 /\ n - 1 \in Nat /\ ~(n <= n - 1)
  OBVIOUS
<1>4. n - 1 \in P
  BY <1>2, <1>3
<1> QED
  BY <1>3, <1>4

-----------------------------------------------------------------------------
(* Lists.                                                                  *)

\* What a list holds, and that it holds nothing twice.
Elements(s) == {s[i] : i \in DOMAIN s}
Distinct(s) == \A i, j \in DOMAIN s : s[i] = s[j] => i = j

\* Removing one element from a list without duplicates leaves the others.
LEMMA RemoveFacts ==
  ASSUME NEW S, NEW s \in Seq(S), NEW k \in DOMAIN s, Distinct(s)
  PROVE  /\ RemoveAt(s, k) \in Seq(S)
         /\ Elements(RemoveAt(s, k)) = Elements(s) \ {s[k]}
         /\ Distinct(RemoveAt(s, k))
<1> DEFINE r == RemoveAt(s, k)
           n == Len(s)
<1>1. n \in Nat /\ DOMAIN s = 1..n /\ k \in 1..n /\ \A i \in 1..n : s[i] \in S
  BY LenProperties, ElementOfSeq
<1> DEFINE f == SubSeq(s, 1, k - 1)
           g == SubSeq(s, k + 1, n)
<1>2. /\ f \in Seq(S) /\ Len(f) = k - 1
      /\ \A i \in 1..(k - 1) : f[i] = s[i]
  BY <1>1, SubSeqProperties
<1>3. /\ g \in Seq(S) /\ Len(g) = n - k
      /\ \A i \in 1..(n - k) : g[i] = s[k + i]
  <2>1. /\ g \in Seq(S)
        /\ Len(g) = IF k + 1 <= n THEN n - (k + 1) + 1 ELSE 0
        /\ \A i \in 1..(n - (k + 1) + 1) : g[i] = s[k + 1 + i - 1]
    BY <1>1, SubSeqProperties
  <2>2. n - (k + 1) + 1 = n - k /\ (~(k + 1 <= n) => n - k = 0)
    BY <1>1
  <2>3. \A i \in 1..(n - k) : k + 1 + i - 1 = k + i
    BY <1>1
  <2> HIDE DEF g, n
  <2>4. Len(g) = n - k
    BY <2>1, <2>2
  <2> QED
    BY <2>1, <2>2, <2>3, <2>4
<1>4. /\ r \in Seq(S) /\ Len(r) = n - 1
      /\ \A i \in 1..(n - 1) : r[i] = IF i < k THEN s[i] ELSE s[i + 1]
  <2>1. r = f \o g
    BY DEF RemoveAt
  <2> HIDE DEF f, g, r
  <2>2. /\ r \in Seq(S) /\ Len(r) = Len(f) + Len(g)
        /\ \A i \in 1..(Len(f) + Len(g)) :
              r[i] = IF i <= Len(f) THEN f[i] ELSE g[i - Len(f)]
    BY <1>2, <1>3, <2>1, ConcatProperties
  <2>3. Len(f) = k - 1 /\ Len(f) + Len(g) = n - 1
    BY <1>1, <1>2, <1>3
  <2>4. ASSUME NEW i \in 1..(n - 1), i < k PROVE r[i] = s[i]
    BY <1>1, <1>2, <2>2, <2>3, <2>4
  <2>5. ASSUME NEW i \in 1..(n - 1), ~(i < k) PROVE r[i] = s[i + 1]
    <3>1. i - (k - 1) \in 1..(n - k) /\ k + (i - (k - 1)) = i + 1 /\ ~(i <= k - 1)
      BY <1>1, <2>5
    <3>2. r[i] = g[i - (k - 1)]
      BY <2>2, <2>3, <3>1
    <3> QED
      BY <1>3, <3>1, <3>2
  <2> QED
    BY <2>2, <2>3, <2>4, <2>5
<1>5. DOMAIN r = 1..(n - 1)
  BY <1>4, LenProperties
<1> HIDE DEF r
<1> DEFINE at(p) == IF p < k THEN p ELSE p + 1
<1>6. /\ \A p \in DOMAIN r : at(p) \in DOMAIN s /\ at(p) # k /\ r[p] = s[at(p)]
      /\ \A p, q \in DOMAIN r : at(p) = at(q) => p = q
  BY <1>1, <1>4, <1>5
<1>7. ASSUME NEW j \in DOMAIN s, s[j] # s[k] PROVE \E i \in DOMAIN r : r[i] = s[j]
  <2>1. CASE j < k
    BY <1>1, <1>4, <1>5, <2>1
  <2>2. CASE j > k
    <3>1. j - 1 \in 1..(n - 1) /\ ~(j - 1 < k) /\ (j - 1) + 1 = j
      BY <1>1, <2>2
    <3> QED
      BY <1>4, <1>5, <3>1
  <2> QED
    BY <1>1, <1>7, <2>1, <2>2
<1> HIDE DEF at
<1>8. Distinct(r)
  BY <1>6 DEF Distinct
<1>9. Elements(r) = Elements(s) \ {s[k]}
  BY <1>6, <1>7 DEF Elements, Distinct
<1> QED
  BY <1>4, <1>8, <1>9 DEF r

\* An element put at the front of the list.
LEMMA ConsFacts ==
  ASSUME NEW S, NEW s \in Seq(S), Distinct(s), NEW a \in S \ Elements(s)
  PROVE  /\ <<a>> \o s \in Seq(S)
         /\ Elements(<<a>> \o s) = Elements(s) \cup {a}
         /\ Distinct(<<a>> \o s)
<1> DEFINE r == <<a>> \o s
           n == Len(s)
<1>1. /\ s \in Seq(S) /\ {s[i] : i \in DOMAIN s} = Elements(s)
      /\ \A i, j \in DOMAIN s : s[i] = s[j] => i = j
  BY DEF Elements, Distinct
<1>2. n \in Nat /\ DOMAIN s = 1..n
  BY <1>1, LenProperties
<1>3. /\ r \in Seq(S) /\ Len(r) = n + 1
      /\ \A i \in 1..(n + 1) : r[i] = IF i = 1 THEN a ELSE s[i - 1]
  <2>1. <<a>> \in Seq(S) /\ Len(<<a>>) = 1 /\ <<a>>[1] = a
    OBVIOUS
  <2>2. /\ r \in Seq(S) /\ Len(r) = 1 + n
        /\ \A i \in 1..(1 + n) : r[i] = IF i <= 1 THEN <<a>>[i] ELSE s[i - 1]
    BY <1>1, <2>1, ConcatProperties
  <2> QED
    BY <1>2, <2>1, <2>2
<1>4. DOMAIN r = 1..(n + 1)
  BY <1>2, <1>3, LenProperties
<1> HIDE DEF r
<1>5. ASSUME NEW i \in DOMAIN r PROVE r[i] \in Elements(s) \cup {a}
  <2>1. CASE i = 1
    BY <1>3, <1>4, <2>1
  <2>2. CASE i # 1
    <3>1. i - 1 \in DOMAIN s
      BY <1>2, <1>4, <2>2
    <3> QED
      BY <1>1, <1>3, <1>4, <2>2, <3>1
  <2> QED
    BY <2>1, <2>2
<1>6. ASSUME NEW b \in Elements(s) \cup {a} PROVE \E i \in DOMAIN r : r[i] = b
  <2>1. CASE b = a
    BY <1>2, <1>3, <1>4, <2>1
  <2>2. CASE b \in Elements(s)
    <3>1. PICK i \in DOMAIN s : s[i] = b
      BY <1>1, <2>2
    <3>2. i + 1 \in 1..(n + 1) /\ i + 1 # 1 /\ (i + 1) - 1 = i
      BY <1>2, <3>1
    <3> QED
      BY <1>3, <1>4, <3>1, <3>2
  <2> QED
    BY <2>1, <2>2
<1>7. ASSUME NEW i \in DOMAIN r, NEW j \in DOMAIN r, r[i] = r[j] PROVE i = j
  <2>1. \A p \in DOMAIN r : p # 1 => p - 1 \in DOMAIN s /\ r[p] = s[p - 1]
    BY <1>2, <1>3, <1>4
  <2>2. \A p \in DOMAIN r : p = 1 <=> r[p] = a
    BY <1>1, <1>3, <1>4, <2>1
  <2>3. CASE i # 1 /\ j # 1
    <3>1. i - 1 = j - 1
      BY <1>1, <1>7, <2>1, <2>3
    <3> QED
      BY <1>2, <1>4, <3>1
  <2> QED
    BY <1>7, <2>2, <2>3
<1>8. Distinct(r)
  BY <1>7 DEF Distinct
<1>9. Elements(r) = Elements(s) \cup {a}
  <2> DEFINE E == Elements(s)
  <2> HIDE DEF E
  <2>1. {r[i] : i \in DOMAIN r} = E \cup {a}
    BY <1>5, <1>6 DEF E
  <2> QED
    BY <2>1 DEF E, Elements
<1> QED
  BY <1>3, <1>8, <1>9 DEF r

\* An element put at the end of the list.
LEMMA AppendFacts ==
  ASSUME NEW S, NEW s \in Seq(S), Distinct(s), NEW a \in S \ Elements(s)
  PROVE  /\ Append(s, a) \in Seq(S)
         /\ Elements(Append(s, a)) = Elements(s) \cup {a}
         /\ Distinct(Append(s, a))
<1> DEFINE r == Append(s, a)
           n == Len(s)
<1>1. /\ n \in Nat /\ DOMAIN s = 1..n /\ \A i \in 1..n : s[i] # a
      /\ r \in Seq(S) /\ DOMAIN r = 1..(n + 1)
      /\ \A i \in 1..n : r[i] = s[i]
      /\ r[n + 1] = a
  BY AppendProperties, LenProperties DEF Elements
<1> HIDE DEF r, n
<1>2. \A i \in 1..(n + 1) : i \in 1..n \/ i = n + 1
  BY <1>1
<1>3. Elements(r) = Elements(s) \cup {a}
  BY <1>1, <1>2 DEF Elements
<1>4. Distinct(r)
  BY <1>1, <1>2 DEF Distinct
<1> QED
  BY <1>1, <1>3, <1>4 DEF r

\* The first element taken off the list.
LEMMA TailFacts ==
  ASSUME NEW S, NEW s \in Seq(S), Distinct(s), s # <<>>
  PROVE  /\ Tail(s) \in Seq(S) /\ Head(s) \in Elements(s)
         /\ Elements(Tail(s)) = Elements(s) \ {Head(s)}
         /\ Distinct(Tail(s))
<1> DEFINE r == Tail(s)
           n == Len(s)
<1>1. /\ n \in Nat /\ n > 0 /\ DOMAIN s = 1..n /\ Head(s) = s[1]
      /\ r \in Seq(S) /\ DOMAIN r = 1..(n - 1)
      /\ \A i \in 1..(n - 1) : r[i] = s[i + 1]
  BY HeadTailProperties, LenProperties, EmptySeq
<1> HIDE DEF r, n
<1>2. \A i \in 1..n : i = 1 \/ (i - 1 \in 1..(n - 1) /\ (i - 1) + 1 = i)
  BY <1>1
<1>3. \A i \in 1..(n - 1) : i + 1 \in 1..n /\ i + 1 # 1 /\ 1 \in 1..n
  BY <1>1
<1>4. \A i \in DOMAIN r : r[i] \in Elements(s) \ {s[1]}
  BY <1>1, <1>3 DEF Elements, Distinct
<1>5. ASSUME NEW i \in 1..n, s[i] # s[1] PROVE \E j \in DOMAIN r : r[j] = s[i]
  BY <1>1, <1>2, <1>5
<1>6. {r[j] : j \in DOMAIN r} = {s[i] : i \in DOMAIN s} \ {s[1]}
  BY <1>1, <1>4, <1>5 DEF Elements
<1>7. \A i, j \in DOMAIN r : r[i] = r[j] => i = j
  <2> SUFFICES ASSUME NEW i \in DOMAIN r, NEW j \in DOMAIN r, r[i] = r[j] PROVE i = j
    OBVIOUS
  <2>1. i + 1 = j + 1
    BY <1>1, <1>3 DEF Distinct
  <2> QED
    BY <1>1, <2>1
<1>8. 1 \in DOMAIN s
  BY <1>1
<1> QED
  BY <1>1, <1>6, <1>7, <1>8 DEF r, Elements, Distinct

\* A list without duplicates is as long as the set of its elements is large.
LEMMA DistinctLength ==
  ASSUME NEW S, NEW s \in Seq(S), Distinct(s)
  PROVE  Len(s) = Cardinality(Elements(s))
<1> DEFINE f == [i \in 1..Len(s) |-> s[i]]
<1>1. Len(s) \in Nat /\ DOMAIN s = 1..Len(s)
  BY LenProperties
<1>2. f \in Bijection(1..Len(s), Elements(s))
  BY <1>1 DEF Distinct, Elements, Bijection, Injection, Surjection, IsInjective
<1>3. ExistsBijection(1..Len(s), Elements(s))
  BY <1>2 DEF ExistsBijection
<1> QED
  BY <1>1, <1>3, FS_CountingElements

-----------------------------------------------------------------------------
(* Runs of consecutive numbers in sequences.                               *)

\* The elements are m + 1, m + 2, and so on.
Run(s, m) == \A i \in DOMAIN s : s[i] = m + i

\* The empty sequence and the length of a sequence.
LEMMA LenFacts ==
  ASSUME NEW s \in Seq(Nat)
  PROVE  /\ Len(s) \in Nat /\ DOMAIN s = 1..Len(s)
         /\ s = <<>> <=> Len(s) = 0
         /\ \A i \in 1..Len(s) : s[i] \in Nat
  BY LenProperties, EmptySeq, ElementOfSeq

\* The first n elements.
LEMMA FirstFacts ==
  ASSUME NEW s \in Seq(Nat), NEW n \in 0..Len(s)
  PROVE  /\ SubSeq(s, 1, n) \in Seq(Nat) /\ Len(SubSeq(s, 1, n)) = n
         /\ \A i \in 1..n : SubSeq(s, 1, n)[i] = s[i]
<1>1. Len(s) \in Nat /\ n \in Int /\ \A i \in 1..n : s[i] \in Nat
  BY LenFacts
<1> QED
  BY <1>1, SubSeqProperties

\* The elements after the first n.
LEMMA RestFacts ==
  ASSUME NEW s \in Seq(Nat), NEW n \in 0..Len(s)
  PROVE  /\ SubSeq(s, n + 1, Len(s)) \in Seq(Nat) /\ Len(SubSeq(s, n + 1, Len(s))) = Len(s) - n
         /\ \A i \in 1..(Len(s) - n) : SubSeq(s, n + 1, Len(s))[i] = s[n + i]
<1>1. Len(s) \in Nat /\ n + 1 \in Int /\ \A i \in (n + 1)..Len(s) : s[i] \in Nat
  BY LenFacts
<1>2. /\ SubSeq(s, n + 1, Len(s)) \in Seq(Nat)
      /\ Len(SubSeq(s, n + 1, Len(s))) = IF n + 1 <= Len(s) THEN Len(s) - (n + 1) + 1 ELSE 0
      /\ \A i \in 1..(Len(s) - (n + 1) + 1) : SubSeq(s, n + 1, Len(s))[i] = s[(n + 1) + i - 1]
  BY <1>1, SubSeqProperties
<1> QED
  BY <1>1, <1>2

\* Cutting a run in two leaves two runs.
LEMMA RunSplit ==
  ASSUME NEW s \in Seq(Nat), NEW n \in 0..Len(s), NEW m \in Nat, Run(s, m)
  PROVE  Run(SubSeq(s, 1, n), m) /\ Run(SubSeq(s, n + 1, Len(s)), m + n)
<1>1. Len(s) \in Nat /\ \A i \in 1..Len(s) : s[i] = m + i
  BY LenFacts DEF Run
<1>2. Run(SubSeq(s, 1, n), m)
  <2> DEFINE f == SubSeq(s, 1, n)
  <2>1. /\ f \in Seq(Nat) /\ Len(f) = n
        /\ \A i \in 1..n : f[i] = s[i]
    BY FirstFacts
  <2>2. DOMAIN f = 1..n /\ n <= Len(s)
    BY <2>1, <1>1, LenFacts
  <2> HIDE DEF f
  <2>3. \A i \in DOMAIN f : f[i] = m + i
    <3> TAKE i \in DOMAIN f
    <3>1. i \in 1..n /\ i \in 1..Len(s)
      BY <1>1, <2>2
    <3> QED
      BY <1>1, <2>1, <3>1
  <2> QED
    BY <2>3 DEF Run, f
<1>3. Run(SubSeq(s, n + 1, Len(s)), m + n)
  <2> DEFINE r == SubSeq(s, n + 1, Len(s))
  <2>1. /\ r \in Seq(Nat) /\ Len(r) = Len(s) - n
        /\ \A i \in 1..(Len(s) - n) : r[i] = s[n + i]
    BY RestFacts
  <2>2. DOMAIN r = 1..(Len(s) - n)
    BY <2>1, LenFacts
  <2> HIDE DEF r
  <2>3. \A i \in DOMAIN r : r[i] = m + n + i
    <3> TAKE i \in DOMAIN r
    <3>1. i \in 1..(Len(s) - n) /\ n + i \in 1..Len(s)
      BY <1>1, <2>2
    <3>2. r[i] = s[n + i] /\ s[n + i] = m + (n + i)
      BY <1>1, <2>1, <3>1
    <3> QED
      BY <1>1, <3>1, <3>2
  <2> QED
    BY <2>3 DEF Run, r
<1> QED
  BY <1>2, <1>3

\* A run and the run that follows it make one run.
LEMMA RunConcat ==
  ASSUME NEW s \in Seq(Nat), NEW t \in Seq(Nat), NEW m \in Nat,
         Run(s, m), Run(t, m + Len(s))
  PROVE  /\ Run(s \o t, m) /\ s \o t \in Seq(Nat)
         /\ Len(s \o t) = Len(s) + Len(t)
<1>1. /\ Len(s) \in Nat /\ Len(t) \in Nat
      /\ \A i \in 1..Len(s) : s[i] = m + i
      /\ \A i \in 1..Len(t) : t[i] = m + Len(s) + i
  BY LenFacts DEF Run
<1>2. /\ s \o t \in Seq(Nat) /\ Len(s \o t) = Len(s) + Len(t)
      /\ \A i \in 1..(Len(s) + Len(t)) :
            (s \o t)[i] = IF i <= Len(s) THEN s[i] ELSE t[i - Len(s)]
  BY ConcatProperties
<1>3. \A i \in 1..(Len(s) + Len(t)) : (s \o t)[i] = m + i
  BY <1>1, <1>2
<1> QED
  BY <1>2, <1>3, LenFacts DEF Run

\* A run grows by its next number.
LEMMA RunAppend ==
  ASSUME NEW s \in Seq(Nat), NEW m \in Nat, NEW x \in Nat,
         Run(s, m), x = m + Len(s) + 1
  PROVE  /\ Run(Append(s, x), m) /\ Append(s, x) \in Seq(Nat)
         /\ Len(Append(s, x)) = Len(s) + 1
<1>1. Len(s) \in Nat /\ \A i \in 1..Len(s) : s[i] = m + i
  BY LenFacts DEF Run
<1>2. /\ Append(s, x) \in Seq(Nat) /\ Len(Append(s, x)) = Len(s) + 1
      /\ \A i \in 1..Len(s) : Append(s, x)[i] = s[i]
      /\ Append(s, x)[Len(s) + 1] = x
  OBVIOUS
<1>3. \A i \in 1..(Len(s) + 1) : Append(s, x)[i] = m + i
  BY <1>1, <1>2
<1> QED
  BY <1>2, <1>3, LenFacts DEF Run

\* The head of a run is its first number, its tail the run after that.
LEMMA RunTail ==
  ASSUME NEW s \in Seq(Nat), NEW m \in Nat, Run(s, m), s # <<>>
  PROVE  /\ Head(s) = m + 1 /\ Run(Tail(s), m + 1)
         /\ Tail(s) \in Seq(Nat) /\ Len(Tail(s)) = Len(s) - 1
<1>1. Len(s) \in Nat \ {0} /\ \A i \in 1..Len(s) : s[i] = m + i
  BY LenFacts DEF Run
<1>2. /\ Head(s) = s[1] /\ Tail(s) \in Seq(Nat) /\ Len(Tail(s)) = Len(s) - 1
      /\ \A i \in 1..(Len(s) - 1) : Tail(s)[i] = s[i + 1]
  BY HeadTailProperties
<1>3. \A i \in 1..(Len(s) - 1) : Tail(s)[i] = (m + 1) + i
  BY <1>1, <1>2
<1> QED
  BY <1>1, <1>2, <1>3, LenFacts DEF Run

\* The empty sequence is a run from anywhere.
LEMMA RunEmpty == \A m : Run(<<>>, m) /\ <<>> \in Seq(Nat) /\ Len(<<>>) = 0
  BY DEF Run

\* A run from 0 is the sequence of the first numbers.
LEMMA FirstNumbers ==
  ASSUME NEW s \in Seq(Nat), Run(s, 0)
  PROVE  s = [i \in 1..Len(s) |-> i]
<1>1. Len(s) \in Nat /\ s \in [1..Len(s) -> Nat] /\ DOMAIN s = 1..Len(s)
  BY LenProperties
<1>2. \A i \in 1..Len(s) : s[i] = i
  BY <1>1 DEF Run
<1> QED
  BY <1>1, <1>2
=============================================================================
