---------------------------- MODULE QueueLemmas -----------------------------
(***************************************************************************)
(* What the semaphore's three queue operations do to a first-in first-out  *)
(* queue of distinct entries: push() at the back, shift() at the front and *)
(* splice(i, 1) in the middle (src/src/utils/semaphore.ts).                *)
(* Before them stands induction over the numbers, as a fact about sets.    *)
(***************************************************************************)
EXTENDS Integers, FiniteSets, SequencesExt, SequenceTheorems, FiniteSetTheorems,
        FunctionTheorems, WellFoundedInduction, TLAPS

\* A set of numbers that is not empty has a least one.
LEMMA LeastNumber ==
  ASSUME NEW T, T \subseteq Nat, T # {}
  PROVE  \E n \in T : \A m \in T : n <= m
<1>1. IsWellFoundedOn(OpToRel(<, Nat), Nat)
  BY NatLessThanWellFounded
<1>2. PICK n \in T : \A m \in T : <<m, n>> \notin OpToRel(<, Nat)
  BY <1>1, WFMin
<1>3. ASSUME NEW m \in T PROVE n <= m
  <2>1. ~(m < n)
    BY <1>2 DEF OpToRel
  <2> QED BY <2>1
<1> QED BY <1>3

\* A set with 0 that has with each number the next one has all of them.
LEMMA EveryNumber ==
  ASSUME NEW S, 0 \in S, \A n \in Nat : n \in S => n + 1 \in S
  PROVE  Nat \subseteq S
<1>1. SUFFICES ASSUME NEW x \in Nat, x \notin S PROVE FALSE
  OBVIOUS
<1>2. PICK T : T = {n \in Nat : n \notin S}
  OBVIOUS
<1>3. T # {} /\ T \subseteq Nat
  BY <1>1, <1>2
<1>4. PICK n \in T : \A m \in T : n <= m
  BY <1>3, LeastNumber
<1>5. n \in Nat /\ n \notin S /\ n # 0
  BY <1>2, <1>4
<1>6. n - 1 \in Nat /\ n - 1 \notin T /\ (n - 1) + 1 = n
  BY <1>4, <1>5
<1> QED BY <1>2, <1>5, <1>6

\* No entry stands in the queue twice.
Distinct(s) == \A i, j \in 1..Len(s) : s[i] = s[j] => i = j

\* The entries of a sequence, by index.
LEMMA ToSetIndexed ==
  ASSUME NEW S, NEW s \in Seq(S)
  PROVE  /\ ToSet(s) = {s[i] : i \in 1..Len(s)}
         /\ ToSet(s) \subseteq S
         /\ s = <<>> <=> ToSet(s) = {}
<1>1. DOMAIN s = 1..Len(s) /\ Len(s) \in Nat
  OBVIOUS
<1>2. ToSet(s) = {s[i] : i \in 1..Len(s)}
  BY <1>1 DEF ToSet
<1>3. \A i \in 1..Len(s) : s[i] \in S
  OBVIOUS
<1>4. s = <<>> <=> Len(s) = 0
  OBVIOUS
<1>5. s # <<>> => s[1] \in ToSet(s)
  BY <1>1, <1>2, <1>4
<1>6. s = <<>> => 1..Len(s) = {}
  BY <1>4
<1> QED BY <1>2, <1>3, <1>5, <1>6

\* push: one more entry, at the back.
LEMMA PushProperties ==
  ASSUME NEW S, NEW s \in Seq(S), NEW e \in S, Distinct(s), e \notin ToSet(s)
  PROVE  /\ Append(s, e) \in Seq(S)
         /\ Append(s, e) # <<>>
         /\ ToSet(Append(s, e)) = ToSet(s) \cup {e}
         /\ Distinct(Append(s, e))
<1>1. PICK t \in Seq(S) : t = Append(s, e)
  BY AppendProperties
<1>2. /\ Len(t) = Len(s) + 1
      /\ \A i \in 1..Len(s) : t[i] = s[i]
      /\ t[Len(s) + 1] = e
  BY <1>1, AppendProperties
<1>3. Len(s) \in Nat /\ 1..Len(t) = (1..Len(s)) \cup {Len(s) + 1}
  BY <1>2
<1>4. ToSet(s) = {s[i] : i \in 1..Len(s)} /\ ToSet(t) = {t[i] : i \in 1..Len(t)}
  BY ToSetIndexed
<1>5. ToSet(t) = ToSet(s) \cup {e}
  BY <1>2, <1>3, <1>4
<1>6. Distinct(t)
  BY <1>2, <1>3, <1>4 DEF Distinct
<1> QED BY <1>1, <1>5, <1>6, AppendProperties

\* shift: the front entry leaves, the others keep their order.
LEMMA ShiftProperties ==
  ASSUME NEW S, NEW s \in Seq(S), s # <<>>, Distinct(s)
  PROVE  /\ Head(s) \in ToSet(s)
         /\ Tail(s) \in Seq(S)
         /\ ToSet(Tail(s)) = ToSet(s) \ {Head(s)}
         /\ Distinct(Tail(s))
<1>1. PICK t \in Seq(S) : t = Tail(s)
  BY HeadTailProperties
<1>2. /\ Len(s) \in Nat /\ Len(s) >= 1
      /\ Head(s) = s[1]
      /\ Len(t) = Len(s) - 1
      /\ \A i \in 1..Len(t) : t[i] = s[i + 1]
  BY <1>1, HeadTailProperties
<1>3. ToSet(s) = {s[i] : i \in 1..Len(s)} /\ ToSet(t) = {t[i] : i \in 1..Len(t)}
  BY ToSetIndexed
<1>4. \A i \in 1..Len(t) : i + 1 \in 1..Len(s) /\ i + 1 # 1
  BY <1>2
<1>5. Distinct(t)
  BY <1>2, <1>4 DEF Distinct
<1>6. ToSet(t) \subseteq ToSet(s) \ {Head(s)}
  BY <1>2, <1>3, <1>4 DEF Distinct
<1>7. ASSUME NEW x \in ToSet(s) \ {Head(s)}
      PROVE  x \in ToSet(t)
  <2>1. PICK i \in 1..Len(s) : x = s[i] /\ i # 1
    BY <1>2, <1>3
  <2>2. i - 1 \in 1..Len(t) /\ (i - 1) + 1 = i
    BY <1>2, <2>1
  <2> QED BY <1>2, <1>3, <2>1, <2>2
<1> QED BY <1>1, <1>2, <1>3, <1>5, <1>6, <1>7

\* splice(i, 1): the i-th entry leaves, the others keep their order.
LEMMA SpliceIndexed ==
  ASSUME NEW S, NEW s \in Seq(S), NEW i \in 1..Len(s)
  PROVE  /\ RemoveAt(s, i) \in Seq(S)
         /\ Len(RemoveAt(s, i)) = Len(s) - 1
         /\ \A k \in 1..Len(RemoveAt(s, i)) :
               RemoveAt(s, i)[k] = IF k < i THEN s[k] ELSE s[k + 1]
<1>1. Len(s) \in Nat /\ i \in Int /\ i - 1 \in Int /\ i + 1 \in Int /\ i >= 1 /\ i <= Len(s)
  OBVIOUS
<1>2. SubSeq(s, 1, i - 1) \in Seq(S) /\ SubSeq(s, i + 1, Len(s)) \in Seq(S)
  <2>1. SubSeq(s, 1, i - 1) \in Seq(S)
    BY <1>1, SubSeqProperties
  <2>2. SubSeq(s, i + 1, Len(s)) \in Seq(S)
    BY <1>1, SubSeqProperties
  <2> QED BY <2>1, <2>2
<1>3. PICK a \in Seq(S), b \in Seq(S) :
         a = SubSeq(s, 1, i - 1) /\ b = SubSeq(s, i + 1, Len(s))
  BY <1>2, Zenon
<1>4. PICK t \in Seq(S) : t = a \o b
  BY ConcatProperties
<1>5. Len(a) = i - 1 /\ \A k \in 1..(i - 1) : a[k] = s[k]
  BY <1>3
<1>6. Len(b) = Len(s) - i /\ \A k \in 1..(Len(s) - i) : b[k] = s[i + k]
  BY <1>3
<1>7. Len(t) = Len(a) + Len(b)
  BY <1>4
<1>8. Len(t) = Len(s) - 1
  BY <1>1, <1>5, <1>6, <1>7
<1>9. ASSUME NEW k \in 1..Len(t)
      PROVE  t[k] = IF k < i THEN s[k] ELSE s[k + 1]
  <2>1. t[k] = IF k <= i - 1 THEN a[k] ELSE b[k - (i - 1)]
    BY <1>4, <1>5, <1>6
  <2>2. CASE k < i
    BY <1>5, <2>1, <2>2
  <2>3. CASE k >= i
    <3>1. k - (i - 1) \in 1..(Len(s) - i) /\ i + (k - (i - 1)) = k + 1
      BY <1>8, <2>3
    <3> QED BY <1>6, <2>1, <2>3, <3>1
  <2> QED BY <2>2, <2>3
<1>10. RemoveAt(s, i) = t
  BY <1>3, <1>4 DEF RemoveAt
<1> QED BY <1>8, <1>9, <1>10

\* splice on a queue of distinct entries: exactly s[i] is gone.
LEMMA SpliceProperties ==
  ASSUME NEW S, NEW s \in Seq(S), NEW i \in 1..Len(s), Distinct(s)
  PROVE  /\ RemoveAt(s, i) \in Seq(S)
         /\ ToSet(RemoveAt(s, i)) = ToSet(s) \ {s[i]}
         /\ Distinct(RemoveAt(s, i))
<1>1. PICK t \in Seq(S) : t = RemoveAt(s, i)
  BY SpliceIndexed
<1>2. /\ Len(t) = Len(s) - 1
      /\ \A k \in 1..Len(t) : t[k] = IF k < i THEN s[k] ELSE s[k + 1]
  BY <1>1, SpliceIndexed
<1>3. Len(s) \in Nat /\ i \in Nat /\ i >= 1 /\ i <= Len(s)
  OBVIOUS
<1>4. ToSet(s) = {s[k] : k \in 1..Len(s)} /\ ToSet(t) = {t[k] : k \in 1..Len(t)}
  BY ToSetIndexed
<1>5. \A k \in 1..Len(t) : (IF k < i THEN k ELSE k + 1) \in (1..Len(s)) \ {i}
  BY <1>2, <1>3
<1>6. ToSet(t) \subseteq ToSet(s) \ {s[i]}
  BY <1>2, <1>3, <1>4, <1>5 DEF Distinct
<1>7. ASSUME NEW x \in ToSet(s) \ {s[i]}
      PROVE  x \in ToSet(t)
  <2>1. PICK j \in 1..Len(s) : x = s[j] /\ j # i
    BY <1>4
  <2>2. CASE j < i
    <3>1. j \in 1..Len(t) /\ t[j] = s[j]
      BY <1>2, <1>3, <2>2
    <3> QED BY <1>4, <2>1, <3>1
  <2>3. CASE j > i
    <3>1. j - 1 \in 1..Len(t) /\ t[j - 1] = s[(j - 1) + 1] /\ (j - 1) + 1 = j
      BY <1>2, <1>3, <2>3
    <3> QED BY <1>4, <2>1, <3>1
  <2> QED BY <1>3, <2>1, <2>2, <2>3
<1>8. Distinct(t)
  <2> SUFFICES ASSUME NEW k \in 1..Len(t), NEW l \in 1..Len(t), t[k] = t[l]
               PROVE  k = l
    BY DEF Distinct
  <2>1. (IF k < i THEN k ELSE k + 1) = (IF l < i THEN l ELSE l + 1)
    BY <1>2, <1>3, <1>5 DEF Distinct
  <2> QED BY <1>3, <2>1
<1> QED BY <1>1, <1>6, <1>7, <1>8

\* Several shifts at once: the k entries in front leave (all of them if there
\* are fewer), the others keep their order.
FrontEntries(s, k) == {s[i] : i \in (1..k) \cap (1..Len(s))}

LEMMA FrontProperties ==
  ASSUME NEW S, NEW s \in Seq(S), Distinct(s), NEW k \in Nat
  PROVE  /\ FrontEntries(s, k) \subseteq ToSet(s)
         /\ IsFiniteSet(FrontEntries(s, k))
         /\ Cardinality(FrontEntries(s, k)) <= k
         /\ k <= Len(s) => Cardinality(FrontEntries(s, k)) = k
<1>1. ToSet(s) = {s[i] : i \in 1..Len(s)} /\ Len(s) \in Nat
  BY ToSetIndexed
<1>2. PICK m \in Nat : (1..k) \cap (1..Len(s)) = 1..m /\ m <= k /\ (k <= Len(s) => m = k)
                       /\ m <= Len(s)
  <2>1. CASE k <= Len(s)
    BY <1>1, <2>1
  <2>2. CASE ~(k <= Len(s))
    BY <1>1, <2>2
  <2> QED BY <2>1, <2>2
<1>3. FrontEntries(s, k) = {s[i] : i \in 1..m}
  BY <1>2 DEF FrontEntries
<1>4. PICK f : f = [i \in 1..m |-> s[i]]
  OBVIOUS
<1>5. f \in Surjection(1..m, FrontEntries(s, k))
  <2>1. f \in [1..m -> FrontEntries(s, k)]
    BY <1>3, <1>4
  <2>2. \A x \in FrontEntries(s, k) : \E i \in 1..m : f[i] = x
    BY <1>3, <1>4
  <2> QED BY <2>1, <2>2, Fun_IsSurj
<1>6. f \in Injection(1..m, FrontEntries(s, k))
  <2>1. f \in [1..m -> FrontEntries(s, k)]
    BY <1>3, <1>4
  <2>2. \A i, j \in 1..m : f[i] = f[j] => i = j
    BY <1>1, <1>2, <1>4 DEF Distinct
  <2> QED BY <2>1, <2>2, Fun_IsInj
<1>7. IsFiniteSet(1..m) /\ Cardinality(1..m) = m
  BY FS_Interval
<1>8. IsFiniteSet(FrontEntries(s, k)) /\ Cardinality(FrontEntries(s, k)) = m
  BY <1>5, <1>6, <1>7, FS_Surjection
<1>9. FrontEntries(s, k) \subseteq ToSet(s)
  BY <1>1 DEF FrontEntries
<1> QED BY <1>2, <1>8, <1>9

LEMMA BackProperties ==
  ASSUME NEW S, NEW s \in Seq(S), Distinct(s), NEW k \in Nat
  PROVE  /\ SubSeq(s, k + 1, Len(s)) \in Seq(S)
         /\ ToSet(SubSeq(s, k + 1, Len(s))) = ToSet(s) \ FrontEntries(s, k)
         /\ Distinct(SubSeq(s, k + 1, Len(s)))
         /\ SubSeq(s, k + 1, Len(s)) # <<>> => k < Len(s)
<1>1. Len(s) \in Nat /\ k + 1 \in Nat /\ k + 1 \in 1..(k + 1)
  OBVIOUS
<1>2. SubSeq(s, k + 1, Len(s)) \in Seq(S)
  OBVIOUS
<1>3. PICK t \in Seq(S) : t = SubSeq(s, k + 1, Len(s))
  BY <1>2
<1>4. CASE k < Len(s)
  <2>1. Len(t) = Len(s) - k /\ \A i \in 1..Len(t) : t[i] = s[k + i]
    BY <1>1, <1>3, <1>4
  <2>2. ToSet(t) = {t[i] : i \in 1..Len(t)} /\ ToSet(s) = {s[i] : i \in 1..Len(s)}
    BY ToSetIndexed
  <2>3. FrontEntries(s, k) = {s[i] : i \in 1..k}
    BY <1>1, <1>4 DEF FrontEntries
  <2>4. ToSet(t) \subseteq ToSet(s) \ FrontEntries(s, k)
    <3>1. \A i \in 1..Len(t) : k + i \in 1..Len(s) /\ k + i \notin 1..k
      BY <1>1, <1>4, <2>1
    <3>2. \A i \in 1..Len(t) : \A j \in 1..k : s[k + i] # s[j]
      BY <1>1, <1>4, <3>1 DEF Distinct
    <3> QED BY <2>1, <2>2, <2>3, <3>1, <3>2
  <2>5. ToSet(s) \ FrontEntries(s, k) \subseteq ToSet(t)
    <3>1. \A j \in 1..Len(s) : j \notin 1..k => j - k \in 1..Len(t) /\ t[j - k] = s[j]
      BY <1>1, <1>4, <2>1
    <3> QED BY <2>2, <2>3, <3>1
  <2>6. Distinct(t)
    BY <1>1, <1>4, <2>1 DEF Distinct
  <2> QED BY <1>3, <1>4, <2>4, <2>5, <2>6
<1>5. CASE ~(k < Len(s))
  <2>1. t = <<>> /\ Len(t) = 0
    <3>1. SubSeq(s, k + 1, Len(s)) = <<>>
      BY <1>1, <1>5, SubSeqEmpty
    <3> QED BY <1>3, <3>1
  <2>2. ToSet(s) = FrontEntries(s, k)
    <3>1. ToSet(s) = {s[i] : i \in 1..Len(s)}
      BY ToSetIndexed
    <3>2. (1..k) \cap (1..Len(s)) = 1..Len(s)
      BY <1>1, <1>5
    <3> QED BY <3>1, <3>2 DEF FrontEntries
  <2>3. ToSet(t) = {}
    BY <2>1, ToSetIndexed
  <2>4. Distinct(t)
    BY <2>1 DEF Distinct
  <2> QED BY <1>3, <2>1, <2>2, <2>3, <2>4
<1> QED BY <1>4, <1>5

=============================================================================
