------------------------- MODULE QueryEngineProofs --------------------------
(***************************************************************************)
(* The conversation and the query loop.  For every transcript length,      *)
(* every summary a compaction may return and every interleaving of         *)
(* compactions with new messages, no message is lost and the transcript    *)
(* stays in order.  For every budget, number of retries and gates, and     *)
(* every order of the user's acts, the loop keeps to its turns, asks only  *)
(* when something new was said, lets a tool result follow its call, and    *)
(* uses the transcript only through the operations of Conversation, so     *)
(* that what is proved of Conversation holds of it.                        *)
(***************************************************************************)
EXTENDS QueryEngine, QueueLemmas

USE PreserveAssumption, MaxMessagesAssumption

-----------------------------------------------------------------------------
\* What a transcript covers, by position.
LEMMA CoveredIndexed ==
  ASSUME NEW q \in Seq(Messages)
  PROVE  /\ \A x : x \in Covered(q) <=> \E i \in 1..Len(q) : x \in q[i].of
         /\ Covered(q) \in SUBSET Nat
<1>1. DOMAIN q = 1..Len(q) /\ \A i \in 1..Len(q) : q[i] \in Messages
  OBVIOUS
<1>2. \A x : x \in Covered(q) <=> \E i \in 1..Len(q) : x \in q[i].of
  BY <1>1 DEF Covered
<1>3. \A i \in 1..Len(q) : q[i].of \in SUBSET Nat
  BY <1>1 DEF Messages
<1> QED BY <1>2, <1>3

\* The order of a transcript, by position.
LEMMA InOrderIndexed ==
  ASSUME NEW q \in Seq(Messages)
  PROVE  InOrder(q) <=> \A i, j \in 1..Len(q) : i < j =>
                           \A a \in q[i].of, b \in q[j].of : a < b
<1>1. DOMAIN q = 1..Len(q)
  OBVIOUS
<1> QED BY <1>1 DEF InOrder

\* A transcript in two parts, by position.
LEMMA ConcatIndexed ==
  ASSUME NEW p \in Seq(Messages), NEW q \in Seq(Messages)
  PROVE  /\ p \o q \in Seq(Messages)
         /\ Len(p) \in Nat /\ Len(q) \in Nat /\ Len(p \o q) = Len(p) + Len(q)
         /\ \A i \in 1..Len(p) : (p \o q)[i] = p[i]
         /\ \A i \in 1..Len(q) : (p \o q)[Len(p) + i] = q[i]
<1>1. PICK r \in Seq(Messages) : r = p \o q
  BY ConcatProperties
<1>2. /\ Len(p) \in Nat /\ Len(q) \in Nat /\ Len(r) = Len(p) + Len(q)
      /\ \A i \in 1..Len(r) : r[i] = IF i <= Len(p) THEN p[i] ELSE q[i - Len(p)]
  BY <1>1, ConcatProperties
<1>3. \A i \in 1..Len(p) : i \in 1..Len(r) /\ i <= Len(p)
  BY <1>2
<1>4. \A i \in 1..Len(q) : Len(p) + i \in 1..Len(r) /\ ~(Len(p) + i <= Len(p)) /\ (Len(p) + i) - Len(p) = i
  BY <1>2
<1>5. \A i \in 1..Len(q) : r[Len(p) + i] = q[i]
  BY <1>2, <1>4
<1> QED BY <1>1, <1>2, <1>3, <1>5

\* A transcript in two parts covers what its parts cover.
LEMMA CoveredConcat ==
  ASSUME NEW p \in Seq(Messages), NEW q \in Seq(Messages)
  PROVE  Covered(p \o q) = Covered(p) \cup Covered(q)
<1>1. PICK r \in Seq(Messages) : r = p \o q
  BY ConcatProperties
<1>2. /\ Len(p) \in Nat /\ Len(q) \in Nat /\ Len(r) = Len(p) + Len(q)
      /\ \A i \in 1..Len(r) : r[i] = IF i <= Len(p) THEN p[i] ELSE q[i - Len(p)]
  BY <1>1, ConcatProperties
<1>3. ASSUME NEW x, x \in Covered(r)
      PROVE  x \in Covered(p) \cup Covered(q)
  <2>1. PICK i \in 1..Len(r) : x \in r[i].of
    BY <1>3, CoveredIndexed
  <2>2. CASE i <= Len(p)
    <3>1. i \in 1..Len(p) /\ x \in p[i].of
      BY <1>2, <2>1, <2>2
    <3> QED BY <3>1, CoveredIndexed
  <2>3. CASE ~(i <= Len(p))
    <3>1. i - Len(p) \in 1..Len(q) /\ x \in q[i - Len(p)].of
      BY <1>2, <2>1, <2>3
    <3> QED BY <3>1, CoveredIndexed
  <2> QED BY <2>2, <2>3
<1>4. ASSUME NEW x, x \in Covered(p)
      PROVE  x \in Covered(r)
  <2>1. PICK i \in 1..Len(p) : x \in p[i].of
    BY <1>4, CoveredIndexed
  <2>2. i \in 1..Len(r) /\ x \in r[i].of
    BY <1>2, <2>1
  <2> QED BY <2>2, CoveredIndexed
<1>5. ASSUME NEW x, x \in Covered(q)
      PROVE  x \in Covered(r)
  <2>1. PICK i \in 1..Len(q) : x \in q[i].of
    BY <1>5, CoveredIndexed
  <2>2. PICK j \in 1..Len(r) : j = Len(p) + i /\ ~(j <= Len(p)) /\ j - Len(p) = i
    BY <1>2, <2>1
  <2>3. x \in r[j].of
    BY <1>2, <2>1, <2>2
  <2> QED BY <2>3, CoveredIndexed
<1> QED BY <1>1, <1>3, <1>4, <1>5

\* A transcript in two parts is in order if and only if its parts are and all
\* of the first is older than all of the second.
LEMMA InOrderConcat ==
  ASSUME NEW p \in Seq(Messages), NEW q \in Seq(Messages)
  PROVE  InOrder(p \o q) <=> /\ InOrder(p) /\ InOrder(q)
                             /\ \A a \in Covered(p), b \in Covered(q) : a < b
<1>1. PICK r \in Seq(Messages) : r = p \o q
  BY ConcatProperties
<1>2. /\ Len(p) \in Nat /\ Len(q) \in Nat /\ Len(r) = Len(p) + Len(q)
      /\ \A i \in 1..Len(r) : r[i] = IF i <= Len(p) THEN p[i] ELSE q[i - Len(p)]
  BY <1>1, ConcatProperties
<1>3. /\ \A i \in 1..Len(p) : i \in 1..Len(r) /\ r[i] = p[i]
      /\ \A i \in 1..Len(q) : Len(p) + i \in 1..Len(r) /\ r[Len(p) + i] = q[i]
  <2>1. \A i \in 1..Len(q) : /\ Len(p) + i \in 1..Len(r) /\ ~(Len(p) + i <= Len(p))
                             /\ (Len(p) + i) - Len(p) = i
    BY <1>2
  <2> QED BY <1>2, <2>1
<1>4. ASSUME InOrder(r) PROVE InOrder(p)
  <2>1. \A i, j \in 1..Len(p) : i < j => \A a \in p[i].of, b \in p[j].of : a < b
    BY <1>3, <1>4, InOrderIndexed
  <2> QED BY <2>1, InOrderIndexed
<1>5. ASSUME InOrder(r) PROVE InOrder(q)
  <2>1. \A i, j \in 1..Len(q) : i < j => Len(p) + i < Len(p) + j
    BY <1>2
  <2>2. \A i, j \in 1..Len(q) : i < j => \A a \in q[i].of, b \in q[j].of : a < b
    BY <1>3, <1>5, <2>1, InOrderIndexed
  <2> QED BY <2>2, InOrderIndexed
<1>6. ASSUME InOrder(r), NEW a \in Covered(p), NEW b \in Covered(q) PROVE a < b
  <2>1. PICK i \in 1..Len(p) : a \in p[i].of
    BY CoveredIndexed
  <2>2. PICK j \in 1..Len(q) : b \in q[j].of
    BY CoveredIndexed
  <2>3. i < Len(p) + j
    BY <1>2
  <2> QED BY <1>3, <1>6, <2>1, <2>2, <2>3, InOrderIndexed
<1>7. ASSUME InOrder(p), InOrder(q), \A a \in Covered(p), b \in Covered(q) : a < b
      PROVE  InOrder(r)
  <2> SUFFICES ASSUME NEW i \in 1..Len(r), NEW j \in 1..Len(r), i < j,
                      NEW a \in r[i].of, NEW b \in r[j].of
               PROVE  a < b
    BY InOrderIndexed
  <2>1. CASE j <= Len(p)
    <3>1. i \in 1..Len(p) /\ j \in 1..Len(p) /\ r[i] = p[i] /\ r[j] = p[j]
      BY <1>2, <2>1
    <3> QED BY <1>7, <3>1, InOrderIndexed
  <2>2. CASE i <= Len(p) /\ ~(j <= Len(p))
    <3>1. i \in 1..Len(p) /\ r[i] = p[i] /\ j - Len(p) \in 1..Len(q) /\ r[j] = q[j - Len(p)]
      BY <1>2, <2>2
    <3>2. a \in Covered(p) /\ b \in Covered(q)
      BY <3>1, CoveredIndexed
    <3> QED BY <1>7, <3>2
  <2>3. CASE ~(i <= Len(p))
    <3>1. /\ i - Len(p) \in 1..Len(q) /\ r[i] = q[i - Len(p)]
          /\ j - Len(p) \in 1..Len(q) /\ r[j] = q[j - Len(p)]
          /\ i - Len(p) < j - Len(p)
      BY <1>2, <2>3
    <3> QED BY <1>7, <3>1, InOrderIndexed
  <2> QED BY <2>1, <2>2, <2>3
<1> QED BY <1>1, <1>4, <1>5, <1>6, <1>7

-----------------------------------------------------------------------------
\* A transcript is what stands before a position and what follows it.
LEMMA SplitAt ==
  ASSUME NEW q \in Seq(Messages), NEW c \in 0..Len(q)
  PROVE  /\ SubSeq(q, 1, c) \in Seq(Messages) /\ Len(SubSeq(q, 1, c)) = c
         /\ SubSeq(q, c + 1, Len(q)) \in Seq(Messages)
         /\ Len(SubSeq(q, c + 1, Len(q))) = Len(q) - c
         /\ q = SubSeq(q, 1, c) \o SubSeq(q, c + 1, Len(q))
<1>1. Len(q) \in Nat /\ c \in Nat /\ c <= Len(q) /\ c + 1 \in Int /\ 1 \in Int
  OBVIOUS
<1>2. SubSeq(q, 1, c) \in Seq(Messages) /\ Len(SubSeq(q, 1, c)) = c
  <2>1. \A i \in 1..c : q[i] \in Messages
    BY <1>1
  <2> QED BY <1>1, <2>1, SubSeqProperties
<1>3. /\ SubSeq(q, c + 1, Len(q)) \in Seq(Messages)
      /\ Len(SubSeq(q, c + 1, Len(q))) = Len(q) - c
  <2>1. \A i \in (c + 1)..Len(q) : q[i] \in Messages
    BY <1>1
  <2> QED BY <1>1, <2>1, SubSeqProperties
<1>4. SubSeq(q, 1, c) \o SubSeq(q, c + 1, Len(q)) = SubSeq(q, 1, Len(q))
  <2>1. 1 \in 1..(Len(q) + 1) /\ c \in (1 - 1)..Len(q) /\ Len(q) \in c..Len(q)
    BY <1>1
  <2> QED BY <2>1, ConcatAdjacentSubSeq
<1> QED BY <1>2, <1>3, <1>4, SubSeqFull

\* What is left after the first part of a transcript in two parts.
LEMMA SecondPart ==
  ASSUME NEW p \in Seq(Messages), NEW q \in Seq(Messages)
  PROVE  SubSeq(p \o q, Len(p) + 1, Len(p \o q)) = q
<1>1. PICK r \in Seq(Messages) : r = p \o q
  BY ConcatProperties
<1>2. /\ Len(p) \in Nat /\ Len(q) \in Nat /\ Len(r) = Len(p) + Len(q)
      /\ \A i \in 1..Len(r) : r[i] = IF i <= Len(p) THEN p[i] ELSE q[i - Len(p)]
  BY <1>1, ConcatProperties
<1>3. PICK s \in Seq(Messages) : s = SubSeq(r, Len(p) + 1, Len(r)) /\ Len(s) = Len(q)
  <2>1. Len(p) \in 0..Len(r) /\ Len(r) - Len(p) = Len(q)
    BY <1>2
  <2>2. /\ SubSeq(r, Len(p) + 1, Len(r)) \in Seq(Messages)
        /\ Len(SubSeq(r, Len(p) + 1, Len(r))) = Len(r) - Len(p)
    BY <2>1, SplitAt
  <2> QED BY <2>1, <2>2, Zenon
<1>4. ASSUME NEW i \in 1..Len(q)
      PROVE  s[i] = q[i]
  <2>1. /\ Len(p) + 1 \in Int /\ Len(r) \in Int
        /\ \A k \in (Len(p) + 1)..Len(r) : r[k] \in Messages
    BY <1>2
  <2>2. i \in 1..(Len(r) - (Len(p) + 1) + 1)
    BY <1>2
  <2>3. s[i] = r[(Len(p) + 1) + i - 1]
    BY <1>3, <2>1, <2>2, SubSeqProperties
  <2>4. /\ Len(p) + i \in 1..Len(r) /\ (Len(p) + 1) + i - 1 = Len(p) + i
        /\ (Len(p) + i) - Len(p) = i /\ ~(Len(p) + i <= Len(p))
    BY <1>2
  <2>5. r[Len(p) + i] = q[i]
    BY <1>2, <2>4
  <2> QED BY <2>3, <2>4, <2>5
<1> QED BY <1>1, <1>3, <1>4, SeqEqual

\* New messages have the next numbers, in order.
LEMMA FreshProperties ==
  ASSUME added \in Nat, NEW kinds \in Seq(Kinds)
  PROVE  /\ Fresh(kinds) \in Seq(Messages)
         /\ Covered(Fresh(kinds)) = (added + 1)..(added + Len(kinds))
         /\ InOrder(Fresh(kinds))
         /\ Len(Fresh(kinds)) = Len(kinds)
         /\ \A i \in 1..Len(kinds) : Fresh(kinds)[i].of = {added + i} /\ Fresh(kinds)[i].kind = kinds[i]
<1>1. PICK n \in Nat : n = Len(kinds) /\ DOMAIN kinds = 1..n /\ \A i \in 1..n : kinds[i] \in Kinds
  OBVIOUS
<1>2. PICK q : q = Fresh(kinds)
  OBVIOUS
<1>3. q = [i \in 1..n |-> [of |-> {added + i}, kind |-> kinds[i]]]
  BY <1>1, <1>2 DEF Fresh
<1>4. \A i \in 1..n : q[i] \in Messages /\ q[i].of = {added + i} /\ q[i].kind = kinds[i]
  <2> SUFFICES ASSUME NEW i \in 1..n
               PROVE  q[i] \in Messages /\ q[i].of = {added + i} /\ q[i].kind = kinds[i]
    OBVIOUS
  <2>1. q[i] = [of |-> {added + i}, kind |-> kinds[i]] /\ added + i \in Nat /\ kinds[i] \in Kinds
    BY <1>1, <1>3
  <2>2. {added + i} \in SUBSET Nat
    BY <2>1
  <2> QED BY <2>1, <2>2 DEF Messages
<1>5. q \in Seq(Messages) /\ Len(q) = n
  <2>1. q \in [1..n -> Messages]
    BY <1>3, <1>4
  <2> QED BY <2>1
<1>6. Covered(q) = (added + 1)..(added + n)
  <2>1. ASSUME NEW x \in (added + 1)..(added + n) PROVE x \in Covered(q)
    <3>1. x - added \in 1..n /\ added + (x - added) = x
      OBVIOUS
    <3> QED BY <1>4, <1>5, <3>1, CoveredIndexed
  <2>2. ASSUME NEW x \in Covered(q) PROVE x \in (added + 1)..(added + n)
    BY <1>4, <1>5, CoveredIndexed
  <2> QED BY <2>1, <2>2
<1>7. InOrder(q)
  <2>1. \A i, j \in 1..n : i < j => added + i < added + j
    OBVIOUS
  <2> QED BY <1>4, <1>5, <2>1, InOrderIndexed
<1> QED BY <1>1, <1>2, <1>4, <1>5, <1>6, <1>7

\* t has some of the messages of q, in the order of q, and none of them at a
\* later position than in q: what every cut leaves.
Thins(t, q) ==
  /\ t \in Seq(Messages)
  /\ \E f \in [1..Len(t) -> 1..Len(q)] :
       /\ \A i, j \in 1..Len(t) : i < j => f[i] < f[j]
       /\ \A i \in 1..Len(t) : i <= f[i] /\ t[i] = q[f[i]]

LEMMA ThinsProperties ==
  ASSUME NEW q \in Seq(Messages), NEW t, Thins(t, q)
  PROVE  /\ t \in Seq(Messages)
         /\ Covered(t) \subseteq Covered(q)
         /\ InOrder(q) => InOrder(t)
         /\ \A i \in 1..Len(t) : \E j \in 1..Len(q) : i <= j /\ t[i] = q[j]
<1>1. t \in Seq(Messages)
  BY DEF Thins
<1>2. PICK f \in [1..Len(t) -> 1..Len(q)] :
         /\ \A i, j \in 1..Len(t) : i < j => f[i] < f[j]
         /\ \A i \in 1..Len(t) : i <= f[i] /\ t[i] = q[f[i]]
  BY DEF Thins
<1>3. \A i \in 1..Len(t) : f[i] \in 1..Len(q) /\ i <= f[i] /\ t[i] = q[f[i]]
  BY <1>2
<1>4. \A i \in 1..Len(t) : \E j \in 1..Len(q) : i <= j /\ t[i] = q[j]
  BY <1>3
<1>5. Covered(t) \subseteq Covered(q)
  BY <1>1, <1>3, CoveredIndexed
<1>6. InOrder(q) => InOrder(t)
  BY <1>1, <1>2, <1>3, InOrderIndexed
<1> QED BY <1>1, <1>4, <1>5, <1>6

LEMMA ThinsItself ==
  ASSUME NEW q \in Seq(Messages)
  PROVE  Thins(q, q)
<1>1. PICK f : f = [i \in 1..Len(q) |-> i]
  OBVIOUS
<1>2. f \in [1..Len(q) -> 1..Len(q)] /\ \A i \in 1..Len(q) : f[i] = i
  BY <1>1
<1>3. \A i, j \in 1..Len(q) : i < j => f[i] < f[j]
  BY <1>2
<1>4. \A i \in 1..Len(q) : i <= f[i] /\ q[i] = q[f[i]]
  BY <1>2
<1> QED BY <1>2, <1>3, <1>4 DEF Thins

\* The end of a transcript from some position on.
LEMMA SuffixThins ==
  ASSUME NEW q \in Seq(Messages), NEW c \in Nat
  PROVE  /\ Thins(SubSeq(q, c + 1, Len(q)), q)
         /\ \A i \in 1..Len(SubSeq(q, c + 1, Len(q))) :
              c + i \in 1..Len(q) /\ SubSeq(q, c + 1, Len(q))[i] = q[c + i]
         /\ c < Len(q) => Len(SubSeq(q, c + 1, Len(q))) = Len(q) - c
         /\ c >= Len(q) => SubSeq(q, c + 1, Len(q)) = <<>>
<1>1. /\ Len(q) \in Nat /\ c + 1 \in Int
      /\ \A k \in (c + 1)..Len(q) : q[k] \in Messages
  OBVIOUS
<1>2. PICK t \in Seq(Messages) : t = SubSeq(q, c + 1, Len(q))
  <2>1. SubSeq(q, c + 1, Len(q)) \in Seq(Messages)
    BY <1>1, SubSeqProperties
  <2> QED BY <2>1
<1>3. /\ Len(t) = IF c + 1 <= Len(q) THEN Len(q) - (c + 1) + 1 ELSE 0
      /\ \A i \in 1..(Len(q) - (c + 1) + 1) : t[i] = q[(c + 1) + i - 1]
  BY <1>1, <1>2, SubSeqProperties
<1>4. /\ c < Len(q) => Len(t) = Len(q) - c
      /\ c >= Len(q) => Len(t) = 0
  BY <1>1, <1>3
<1>5. ASSUME NEW i \in 1..Len(t)
      PROVE  c + i \in 1..Len(q) /\ t[i] = q[c + i]
  <2>1. i \in 1..(Len(q) - (c + 1) + 1) /\ (c + 1) + i - 1 = c + i /\ c + i \in 1..Len(q)
    BY <1>1, <1>4
  <2> QED BY <1>3, <2>1
<1>6. PICK f : f = [i \in 1..Len(t) |-> c + i]
  OBVIOUS
<1>7. f \in [1..Len(t) -> 1..Len(q)]
  BY <1>5, <1>6
<1>8. \A i, j \in 1..Len(t) : i < j => f[i] < f[j]
  BY <1>6
<1>9. \A i \in 1..Len(t) : i <= f[i] /\ t[i] = q[f[i]]
  BY <1>5, <1>6
<1>10. Thins(t, q)
  BY <1>7, <1>8, <1>9, Zenon DEF Thins
<1>11. c >= Len(q) => t = <<>>
  BY <1>4, EmptySeq
<1> QED BY <1>2, <1>4, <1>5, <1>10, <1>11

\* The messages a trim keeps before position c, by position.
LEMMA HeadsProperties ==
  ASSUME NEW c \in Nat, NEW h \in Heads(c)
  PROVE  \E n \in 0..2 : /\ n <= c /\ h \in [1..n -> 1..c] /\ h \in Seq(1..c) /\ Len(h) = n
                         /\ \A i \in 1..n : i <= h[i]
                         /\ \A i, j \in 1..n : i < j => h[i] < h[j]
<1>1. CASE h = <<>>
  <2>1. h \in [1..0 -> 1..c] /\ h \in Seq(1..c) /\ Len(h) = 0
    BY <1>1
  <2> QED BY <2>1
<1>2. CASE \E x \in 1..c : h = <<x>>
  <2>1. PICK x \in 1..c : h = <<x>>
    BY <1>2
  <2>2. h \in [1..1 -> 1..c] /\ h \in Seq(1..c) /\ Len(h) = 1 /\ h[1] = x
    BY <2>1
  <2>3. 1 <= c /\ \A i \in 1..1 : i <= h[i]
    BY <2>2
  <2>4. \A i, j \in 1..1 : ~(i < j)
    OBVIOUS
  <2> QED BY <2>2, <2>3, <2>4
<1>3. CASE \E x, y \in 1..c : h = <<x, y>> /\ h[1] < h[2]
  <2>1. PICK x \in 1..c, y \in 1..c : h = <<x, y>> /\ h[1] < h[2]
    BY <1>3
  <2>2. h \in [1..2 -> 1..c] /\ h \in Seq(1..c) /\ Len(h) = 2 /\ h[1] = x /\ h[2] = y
    BY <2>1
  <2>3. 2 <= c /\ 1 <= h[1] /\ 2 <= h[2] /\ h[1] < h[2]
    BY <2>1, <2>2
  <2>4. \A i \in 1..2 : i = 1 \/ i = 2
    OBVIOUS
  <2>5. \A i \in 1..2 : i <= h[i]
    BY <2>3, <2>4
  <2>6. \A i, j \in 1..2 : i < j => h[i] < h[j]
    BY <2>3, <2>4
  <2> QED BY <2>2, <2>3, <2>5, <2>6
<1>4. \/ h = <<>> \/ \E x \in 1..c : h = <<x>>
      \/ \E x, y \in 1..c : h = <<x, y>> /\ h[1] < h[2]
  BY DEF Heads
<1> QED BY <1>1, <1>2, <1>3, <1>4

\* What a trim of q keeps, by position.
LEMMA KeepProperties ==
  ASSUME NEW q \in Seq(Messages), NEW c \in 1..Len(q), NEW h \in Heads(c)
  PROVE  /\ Thins(Keep(q, c, h), q)
         /\ Len(h) \in Nat /\ Len(Keep(q, c, h)) = Len(h) + (Len(q) - c)
         /\ \A i \in 1..Len(h) : h[i] \in 1..c /\ Keep(q, c, h)[i] = q[h[i]]
         /\ \A i \in 1..(Len(q) - c) : Keep(q, c, h)[Len(h) + i] = q[c + i]
<1>1. c \in Nat /\ Len(q) \in Nat /\ c <= Len(q)
  OBVIOUS
<1>2. PICK n \in 0..2 : /\ n <= c /\ h \in [1..n -> 1..c] /\ Len(h) = n
                        /\ \A i \in 1..n : i <= h[i]
                        /\ \A i, j \in 1..n : i < j => h[i] < h[j]
  BY <1>1, HeadsProperties
<1>3. PICK b \in Seq(Messages) : /\ b = SubSeq(q, c + 1, Len(q)) /\ Len(b) = Len(q) - c
                                 /\ \A i \in 1..Len(b) : c + i \in 1..Len(q) /\ b[i] = q[c + i]
  <2>1. SubSeq(q, c + 1, Len(q)) \in Seq(Messages)
    BY <1>1, SuffixThins DEF Thins
  <2>2. Len(SubSeq(q, c + 1, Len(q))) = Len(q) - c
    <3>1. CASE c < Len(q)
      BY <1>1, <3>1, SuffixThins
    <3>2. CASE c >= Len(q)
      <4>1. SubSeq(q, c + 1, Len(q)) = <<>> /\ Len(<<>>) = 0 /\ Len(q) - c = 0
        BY <1>1, <3>2, SuffixThins
      <4> QED BY <4>1
    <3> QED BY <1>1, <3>1, <3>2
  <2>3. \A i \in 1..Len(SubSeq(q, c + 1, Len(q))) :
          c + i \in 1..Len(q) /\ SubSeq(q, c + 1, Len(q))[i] = q[c + i]
    BY <1>1, SuffixThins
  <2> QED BY <2>1, <2>2, <2>3, Zenon
<1>4. PICK a : a = [i \in 1..n |-> q[h[i]]]
  OBVIOUS
<1>5. \A i \in 1..n : h[i] \in 1..c /\ h[i] \in 1..Len(q) /\ a[i] = q[h[i]] /\ a[i] \in Messages
  BY <1>1, <1>2, <1>4
<1>6. a \in Seq(Messages) /\ Len(a) = n
  <2>1. a \in [1..n -> Messages] /\ n \in Nat
    BY <1>4, <1>5
  <2> QED BY <2>1
<1>7. Keep(q, c, h) = a \o b
  <2>1. DOMAIN h = 1..n
    BY <1>2
  <2> QED BY <1>3, <1>4, <2>1 DEF Keep
<1>8. PICK t \in Seq(Messages) : t = a \o b
  BY <1>3, <1>6, ConcatProperties
<1>9. /\ Len(t) = n + Len(b)
      /\ \A i \in 1..Len(t) : t[i] = IF i <= n THEN a[i] ELSE b[i - n]
  <2>1. /\ Len(t) = Len(a) + Len(b)
        /\ \A i \in 1..Len(t) : t[i] = IF i <= Len(a) THEN a[i] ELSE b[i - Len(a)]
    BY <1>6, <1>8, ConcatProperties
  <2> QED BY <1>6, <2>1
<1>10. \A i \in 1..n : t[i] = q[h[i]]
  <2>1. \A i \in 1..n : i \in 1..Len(t) /\ i <= n
    BY <1>3, <1>9
  <2> QED BY <1>5, <1>9, <2>1
<1>11. \A i \in 1..Len(b) : t[n + i] = q[c + i]
  <2>1. \A i \in 1..Len(b) : n + i \in 1..Len(t) /\ ~(n + i <= n) /\ (n + i) - n = i
    BY <1>3, <1>9
  <2> QED BY <1>3, <1>9, <2>1
<1>12. PICK f : f = [i \in 1..Len(t) |-> IF i <= n THEN h[i] ELSE c + (i - n)]
  OBVIOUS
<1>13. ASSUME NEW i \in 1..Len(t)
       PROVE  f[i] \in 1..Len(q) /\ i <= f[i] /\ t[i] = q[f[i]]
  <2>1. CASE i <= n
    <3>1. i \in 1..n /\ f[i] = h[i]
      BY <1>12, <2>1
    <3> QED BY <1>2, <1>5, <1>10, <3>1
  <2>2. CASE ~(i <= n)
    <3>1. i - n \in 1..Len(b) /\ n + (i - n) = i /\ f[i] = c + (i - n)
      BY <1>3, <1>9, <1>12, <2>2
    <3>2. t[n + (i - n)] = q[c + (i - n)] /\ c + (i - n) \in 1..Len(q)
      BY <1>3, <1>11, <3>1
    <3>3. i <= c + (i - n)
      BY <1>1, <1>2
    <3> QED BY <3>1, <3>2, <3>3
  <2> QED BY <2>1, <2>2
<1>14. ASSUME NEW i \in 1..Len(t), NEW j \in 1..Len(t), i < j
       PROVE  f[i] < f[j]
  <2>1. CASE j <= n
    <3>1. i \in 1..n /\ j \in 1..n /\ f[i] = h[i] /\ f[j] = h[j]
      BY <1>12, <1>14, <2>1
    <3> QED BY <1>2, <1>14, <3>1
  <2>2. CASE ~(j <= n) /\ i <= n
    <3>1. i \in 1..n /\ f[i] = h[i] /\ f[j] = c + (j - n) /\ j - n >= 1
      BY <1>12, <2>2
    <3>2. h[i] \in 1..c
      BY <1>5, <3>1
    <3> QED BY <1>1, <3>1, <3>2
  <2>3. CASE ~(j <= n) /\ ~(i <= n)
    <3>1. f[i] = c + (i - n) /\ f[j] = c + (j - n)
      BY <1>12, <2>3
    <3> QED BY <1>1, <1>14, <3>1
  <2> QED BY <2>1, <2>2, <2>3
<1>15. f \in [1..Len(t) -> 1..Len(q)]
  BY <1>12, <1>13
<1>16. Thins(t, q)
  BY <1>13, <1>14, <1>15 DEF Thins
<1>17. Keep(q, c, h) = t
  BY <1>7, <1>8
<1>18. \A i \in 1..Len(h) : h[i] \in 1..c /\ t[i] = q[h[i]]
  BY <1>2, <1>5, <1>10
<1>19. Len(h) \in Nat /\ Len(t) = Len(h) + (Len(q) - c)
  BY <1>2, <1>3, <1>9
<1>20. \A i \in 1..(Len(q) - c) : t[Len(h) + i] = q[c + i]
  BY <1>2, <1>3, <1>11
<1> QED BY <1>16, <1>17, <1>18, <1>19, <1>20

\* A transcript as the messages are numbered: in order, none without a number,
\* none above n.
Sound(q, n) ==
  /\ InOrder(q)
  /\ \A i \in DOMAIN q : q[i].of # {}
  /\ Covered(q) \subseteq 1..n

\* A message that stands for more than one.
Several(m) == \E a, b \in m.of : a # b

LEMMA SoundIndexed ==
  ASSUME NEW q \in Seq(Messages), NEW n \in Nat
  PROVE  Sound(q, n) <=> /\ \A i, j \in 1..Len(q) : i < j => \A a \in q[i].of, b \in q[j].of : a < b
                         /\ \A i \in 1..Len(q) : q[i].of # {} /\ q[i].of \subseteq 1..n
<1>1. DOMAIN q = 1..Len(q)
  OBVIOUS
<1>2. Covered(q) \subseteq 1..n <=> \A i \in 1..Len(q) : q[i].of \subseteq 1..n
  BY CoveredIndexed
<1> QED BY <1>1, <1>2, InOrderIndexed DEF Sound

\* More numbers do no harm.
LEMMA SoundBelow ==
  ASSUME NEW q \in Seq(Messages), NEW m \in Nat, NEW n \in Nat, m <= n, Sound(q, m)
  PROVE  Sound(q, n)
<1>1. 1..m \subseteq 1..n
  OBVIOUS
<1> QED BY <1>1 DEF Sound

LEMMA ThinsSound ==
  ASSUME NEW q \in Seq(Messages), NEW t, NEW n \in Nat, Thins(t, q), Sound(q, n)
  PROVE  Sound(t, n)
<1>1. /\ t \in Seq(Messages) /\ Covered(t) \subseteq Covered(q) /\ (InOrder(q) => InOrder(t))
      /\ \A i \in 1..Len(t) : \E j \in 1..Len(q) : i <= j /\ t[i] = q[j]
  BY ThinsProperties
<1>2. DOMAIN t = 1..Len(t) /\ DOMAIN q = 1..Len(q)
  BY <1>1
<1> QED BY <1>1, <1>2 DEF Sound

\* Two sound transcripts, all numbers of the second above those of the first.
LEMMA SoundConcat ==
  ASSUME NEW p \in Seq(Messages), NEW q \in Seq(Messages), NEW m \in Nat, NEW n \in Nat,
         m <= n, Sound(p, m), Sound(q, n),
         \A i \in 1..Len(q) : \A x \in q[i].of : x > m
  PROVE  Sound(p \o q, n)
<1>1. PICK r \in Seq(Messages) : r = p \o q
  BY ConcatProperties
<1>2. /\ Len(p) \in Nat /\ Len(q) \in Nat /\ Len(r) = Len(p) + Len(q)
      /\ \A i \in 1..Len(r) : r[i] = IF i <= Len(p) THEN p[i] ELSE q[i - Len(p)]
  BY <1>1, ConcatProperties
<1>3. Sound(p, n)
  BY SoundBelow
<1>4. \A i \in 1..Len(r) : \/ i \in 1..Len(p) /\ r[i] = p[i]
                           \/ i - Len(p) \in 1..Len(q) /\ r[i] = q[i - Len(p)]
  BY <1>2
<1>5. \A i \in 1..Len(r) : r[i].of # {}
  <2>1. DOMAIN p = 1..Len(p) /\ DOMAIN q = 1..Len(q)
    OBVIOUS
  <2> QED BY <1>4, <2>1 DEF Sound
<1>6. Covered(r) \subseteq 1..n
  BY <1>1, <1>3, CoveredConcat DEF Sound
<1>7. InOrder(r)
  <2>1. \A a \in Covered(p) : a <= m
    BY DEF Sound
  <2>2. \A b \in Covered(q) : b > m
    BY CoveredIndexed
  <2>3. \A a \in Covered(p), b \in Covered(q) : a \in Nat /\ b \in Nat
    BY CoveredIndexed
  <2>4. \A a \in Covered(p), b \in Covered(q) : a < b
    BY <2>1, <2>2, <2>3
  <2> QED BY <1>1, <2>4, InOrderConcat DEF Sound
<1>8. DOMAIN r = 1..Len(r)
  OBVIOUS
<1> QED BY <1>1, <1>5, <1>6, <1>7, <1>8 DEF Sound

\* A full compaction covers what the snapshot covered, in order: the newest
\* messages as they were, and a summary of several.
LEMMA SummarisedProperties ==
  ASSUME NEW q \in Seq(Messages), Len(q) > PreserveRecent + 2
  PROVE  /\ Summarised(q) \in Seq(Messages)
         /\ Covered(Summarised(q)) = Covered(q)
         /\ Len(Summarised(q)) >= 1 /\ Summarised(q)[Len(Summarised(q))] = q[Len(q)]
         /\ \A n \in Nat : Sound(q, n) =>
              /\ Sound(Summarised(q), n)
              /\ \A i \in 1..Len(Summarised(q)) :
                   \/ \E j \in 1..Len(q) : Summarised(q)[i] = q[j]
                   \/ Several(Summarised(q)[i])
<1>1. PICK old \in 0..Len(q) : old = Len(q) - PreserveRecent /\ old > 2 /\ old < Len(q)
  OBVIOUS
<1>2. PICK a \in Seq(Messages), b \in Seq(Messages) :
         /\ a = SubSeq(q, 1, old) /\ b = SubSeq(q, old + 1, Len(q)) /\ q = a \o b
         /\ Len(a) = old /\ Len(b) = PreserveRecent
  <2>1. /\ SubSeq(q, 1, old) \in Seq(Messages)
        /\ SubSeq(q, old + 1, Len(q)) \in Seq(Messages)
        /\ q = SubSeq(q, 1, old) \o SubSeq(q, old + 1, Len(q))
        /\ Len(SubSeq(q, 1, old)) = old /\ Len(SubSeq(q, old + 1, Len(q))) = Len(q) - old
    BY SplitAt
  <2>2. Len(q) - old = PreserveRecent
    BY <1>1
  <2> QED BY <2>1, <2>2, Zenon
<1>3. PICK m : m = [of |-> Covered(a), kind |-> "user"]
  OBVIOUS
<1>4. m \in Messages /\ m.of = Covered(a)
  BY <1>3, CoveredIndexed DEF Messages, Kinds
<1>5. PICK s \in Seq(Messages) : s = <<m>> /\ Len(s) = 1 /\ s[1] = m
  <2>1. <<m>> \in Seq(Messages) /\ Len(<<m>>) = 1 /\ <<m>>[1] = m
    BY <1>4
  <2> QED BY <2>1
<1>6. Covered(s) = Covered(a)
  <2>1. \A x : x \in Covered(s) <=> \E i \in 1..Len(s) : x \in s[i].of
    BY CoveredIndexed
  <2>2. 1..Len(s) = {1}
    BY <1>5
  <2>3. \A x : x \in Covered(s) <=> x \in s[1].of
    BY <2>1, <2>2
  <2>4. s[1].of = Covered(a)
    BY <1>4, <1>5
  <2>5. \A x : x \in Covered(s) <=> x \in Covered(a)
    BY <2>3, <2>4
  <2> QED BY <2>5
<1>7. InOrder(s)
  <2>1. \A i, j \in 1..Len(s) : ~(i < j)
    BY <1>5
  <2> QED BY <2>1, InOrderIndexed
<1>8. PICK r \in Seq(Messages) : r = s \o b /\ r = Summarised(q)
  <2>1. Summarised(q) = s \o b
    BY <1>1, <1>2, <1>3, <1>5 DEF Summarised
  <2>2. s \o b \in Seq(Messages)
    BY ConcatProperties
  <2> QED BY <2>1, <2>2
<1>9. Covered(r) = Covered(q)
  <2>1. Covered(s \o b) = Covered(s) \cup Covered(b) /\ Covered(q) = Covered(a) \cup Covered(b)
    BY <1>2, CoveredConcat
  <2> QED BY <1>6, <1>8, <2>1
<1>10. Len(r) = 1 + Len(b) /\ r[1] = m /\ \A i \in 1..Len(b) : r[1 + i] = b[i]
  <2>1. /\ Len(s \o b) = Len(s) + Len(b)
        /\ \A i \in 1..Len(s) : (s \o b)[i] = s[i]
        /\ \A i \in 1..Len(b) : (s \o b)[Len(s) + i] = b[i]
    BY ConcatIndexed
  <2>2. 1 \in 1..Len(s)
    BY <1>5
  <2> QED BY <1>5, <1>8, <2>1, <2>2
<1>11. \A i \in 1..Len(b) : old + i \in 1..Len(q) /\ b[i] = q[old + i]
  <2>1. old \in Nat
    BY <1>1
  <2> QED BY <1>2, <2>1, SuffixThins
<1>12. \A i \in 1..Len(r) : (i = 1 /\ r[i] = m) \/ \E j \in 1..Len(q) : r[i] = q[j]
  <2>1. \A i \in 1..Len(r) : i = 1 \/ \E k \in 1..Len(b) : i = 1 + k
    <3>1. \A i \in 1..Len(r) : i = 1 \/ (i - 1 \in 1..Len(b) /\ i = 1 + (i - 1))
      BY <1>10
    <3> QED BY <3>1
  <2> QED BY <1>10, <1>11, <2>1
<1>13. Len(r) >= 1 /\ r[Len(r)] = q[Len(q)]
  <2>1. Len(b) = PreserveRecent /\ Len(r) = 1 + Len(b)
    BY <1>2, <1>10, Zenon
  <2>2. Len(b) \in 1..Len(b) /\ 1 + Len(b) = Len(r) /\ old + Len(b) = Len(q) /\ Len(r) >= 1
    BY <1>1, <2>1
  <2> QED BY <1>10, <1>11, <2>2, Zenon
<1>14. ASSUME NEW n \in Nat, Sound(q, n)
       PROVE  /\ Sound(r, n)
              /\ \A i \in 1..Len(r) : (\E j \in 1..Len(q) : r[i] = q[j]) \/ Several(r[i])
  <2>1. /\ \A i, j \in 1..Len(q) : i < j => \A x \in q[i].of, y \in q[j].of : x < y
        /\ \A i \in 1..Len(q) : q[i].of # {} /\ q[i].of \subseteq 1..n
    BY <1>14, SoundIndexed
  <2>2. 1 \in 1..Len(q) /\ 2 \in 1..Len(q) /\ 1 \in 1..Len(a) /\ 2 \in 1..Len(a)
    <3>1. Len(a) = old
      BY <1>2, Zenon
    <3> QED BY <1>1, <3>1
  <2>3. PICK x \in q[1].of, y \in q[2].of : x < y /\ x \in 1..n /\ y \in 1..n
    <3>1. /\ q[1].of # {} /\ q[2].of # {} /\ q[1].of \subseteq 1..n /\ q[2].of \subseteq 1..n
          /\ 1 < 2
      BY <2>1, <2>2
    <3>2. PICK x \in q[1].of, y \in q[2].of : TRUE
      BY <3>1
    <3>3. x < y
      BY <2>1, <2>2, <3>1
    <3> QED BY <3>1, <3>2, <3>3
  <2>4. a[1] = q[1] /\ a[2] = q[2]
    BY <1>2, <2>2, ConcatProperties
  <2>5. x \in Covered(a) /\ y \in Covered(a) /\ x # y
    BY <2>2, <2>3, <2>4, CoveredIndexed
  <2>6. Several(m)
    BY <1>4, <2>5 DEF Several
  <2>7. InOrder(r)
    <3>1. InOrder(a \o b)
      BY <1>2, <1>14 DEF Sound
    <3>2. InOrder(b) /\ \A u \in Covered(a), v \in Covered(b) : u < v
      BY <3>1, InOrderConcat
    <3>3. \A u \in Covered(s), v \in Covered(b) : u < v
      BY <1>6, <3>2
    <3> QED BY <1>7, <1>8, <3>2, <3>3, InOrderConcat
  <2>8. \A i \in 1..Len(r) : r[i].of # {}
    <3>1. m.of # {}
      BY <1>4, <2>5
    <3> QED BY <1>12, <2>1, <3>1
  <2>9. Sound(r, n)
    <3>1. DOMAIN r = 1..Len(r)
      OBVIOUS
    <3> QED BY <1>9, <1>14, <2>7, <2>8, <3>1 DEF Sound
  <2> QED BY <1>12, <2>6, <2>9
<1> QED BY <1>8, <1>9, <1>13, <1>14

\* Whatever a compaction of q returns, if anything, covers what q covered, ends
\* as q did, and has no other messages than those of q but a summary.
LEMMA OutcomeProperties ==
  ASSUME NEW q \in Seq(Messages), NEW r \in Outcomes(q)
  PROVE  /\ r \in Seq(Messages)
         /\ r # <<>> => /\ Covered(r) = Covered(q)
                        /\ Len(r) >= 1 /\ Len(q) >= 1 /\ r[Len(r)] = q[Len(q)]
         /\ \A n \in Nat : Sound(q, n) =>
              /\ Sound(r, n)
              /\ \A i \in 1..Len(r) : (\E j \in 1..Len(q) : r[i] = q[j]) \/ Several(r[i])
<1>1. CASE r = <<>>
  <2>1. r \in Seq(Messages) /\ DOMAIN r = {} /\ 1..Len(r) = {}
    BY <1>1
  <2>2. \A n : Sound(r, n)
    BY <2>1 DEF Sound, InOrder, Covered
  <2> QED BY <1>1, <2>1, <2>2
<1>2. CASE r # <<>>
  <2>1. Len(q) > PreserveRecent + 2 /\ (r = q \/ r = Summarised(q))
    BY <1>2 DEF Outcomes
  <2>2. Len(q) >= 1
    BY <2>1
  <2>3. CASE r = q
    BY <2>2, <2>3
  <2>4. CASE r = Summarised(q)
    BY <2>1, <2>2, <2>4, SummarisedProperties
  <2> QED BY <2>1, <2>3, <2>4
<1> QED BY <1>1, <1>2

-----------------------------------------------------------------------------
\* What a trim leaves of q: the newest message last, or an anchor.
LEMMA TrimProperties ==
  ASSUME NEW q \in Seq(Messages), NEW t \in Trims(q)
  PROVE  /\ Thins(t, q)
         /\ Len(t) \in 1..Len(q)
         /\ t[Len(t)] = q[Len(q)] \/ t[Len(t)].kind \in {"system", "user"}
<1>1. PICK c \in 1..Len(q) : \E h \in Heads(c) :
         /\ t = Keep(q, c, h)
         /\ {h[i] : i \in DOMAIN h} = Anchors(q) \cap 1..c
         /\ Len(h) + Len(q) - c = MaxMessages
  <2>1. \E c \in DOMAIN q : \E h \in Heads(c) :
          /\ t = Keep(q, c, h)
          /\ {h[i] : i \in DOMAIN h} = Anchors(q) \cap 1..c
          /\ Len(h) + Len(q) - c = MaxMessages
    BY DEF Trims
  <2>2. DOMAIN q = 1..Len(q)
    OBVIOUS
  <2> QED BY <2>1, <2>2
<1>2. PICK h \in Heads(c) : /\ t = Keep(q, c, h)
                            /\ {h[i] : i \in DOMAIN h} = Anchors(q) \cap 1..c
                            /\ Len(h) + Len(q) - c = MaxMessages
  BY <1>1
<1>3. /\ Thins(t, q) /\ t \in Seq(Messages)
      /\ Len(h) \in Nat /\ Len(t) = Len(h) + (Len(q) - c)
      /\ \A i \in 1..Len(h) : h[i] \in 1..c /\ t[i] = q[h[i]]
      /\ \A i \in 1..(Len(q) - c) : t[Len(h) + i] = q[c + i]
  <2>1. /\ Thins(Keep(q, c, h), q)
        /\ Len(h) \in Nat /\ Len(Keep(q, c, h)) = Len(h) + (Len(q) - c)
        /\ \A i \in 1..Len(h) : h[i] \in 1..c /\ Keep(q, c, h)[i] = q[h[i]]
        /\ \A i \in 1..(Len(q) - c) : Keep(q, c, h)[Len(h) + i] = q[c + i]
    BY KeepProperties
  <2>2. t \in Seq(Messages)
    BY <1>2, <2>1, ThinsProperties
  <2> QED BY <1>2, <2>1, <2>2, Zenon
<1>4. Len(t) = MaxMessages /\ Len(t) >= 2
  BY <1>2, <1>3
<1>5. Len(t) <= Len(q)
  <2>1. \E n \in 0..2 : n <= c /\ Len(h) = n
    BY HeadsProperties
  <2> QED BY <1>3, <2>1
<1>6. CASE c < Len(q)
  <2>1. Len(q) - c \in 1..(Len(q) - c) /\ Len(h) + (Len(q) - c) = Len(t) /\ c + (Len(q) - c) = Len(q)
    BY <1>3, <1>6
  <2>2. t[Len(h) + (Len(q) - c)] = q[c + (Len(q) - c)]
    BY <1>3, <2>1
  <2>3. t[Len(t)] = q[Len(q)]
    BY <2>1, <2>2
  <2> QED BY <1>3, <1>4, <1>5, <2>3
<1>7. CASE ~(c < Len(q))
  <2>1. Len(t) = Len(h) /\ Len(t) \in 1..Len(h)
    BY <1>3, <1>4, <1>7
  <2>2. h[Len(t)] \in {h[i] : i \in DOMAIN h}
    <3>1. \E n \in 0..2 : h \in Seq(1..c) /\ Len(h) = n
      BY HeadsProperties
    <3>2. DOMAIN h = 1..Len(h)
      BY <3>1
    <3> QED BY <2>1, <3>2
  <2>3. h[Len(t)] \in Anchors(q)
    BY <1>2, <2>2
  <2>4. q[h[Len(t)]].kind \in {"system", "user"}
    BY <2>3 DEF Anchors
  <2>5. t[Len(t)].kind \in {"system", "user"}
    BY <1>3, <2>1, <2>4
  <2> QED BY <1>3, <1>4, <1>5, <2>5
<1> QED BY <1>6, <1>7

\* q is the transcript with new messages of these kinds.
Extended(q, kinds) == q = messages \o Fresh(kinds)

LEMMA ExtendedProperties ==
  ASSUME ConvTypeOK, NEW kinds \in Seq(Kinds), NEW q, Extended(q, kinds)
  PROVE  /\ q \in Seq(Messages)
         /\ Len(kinds) \in Nat /\ Len(q) = Len(messages) + Len(kinds)
         /\ \A i \in 1..Len(messages) : q[i] = messages[i]
         /\ \A i \in 1..Len(kinds) : /\ q[Len(messages) + i].of = {added + i}
                                     /\ q[Len(messages) + i].kind = kinds[i]
         /\ Covered(q) = Covered(messages) \cup (added + 1)..(added + Len(kinds))
         /\ Sound(messages, added) => Sound(q, added + Len(kinds))
<1>1. /\ messages \in Seq(Messages) /\ added \in Nat
      /\ Len(kinds) \in Nat /\ added + Len(kinds) \in Nat /\ added <= added + Len(kinds)
  BY DEF ConvTypeOK
<1>2. PICK f \in Seq(Messages) :
         /\ f = Fresh(kinds) /\ InOrder(f) /\ Covered(f) = (added + 1)..(added + Len(kinds))
         /\ Len(f) = Len(kinds)
         /\ \A i \in 1..Len(kinds) : f[i].of = {added + i} /\ f[i].kind = kinds[i]
  BY <1>1, FreshProperties
<1>3. /\ q \in Seq(Messages) /\ Len(q) = Len(messages) + Len(kinds)
      /\ \A i \in 1..Len(messages) : q[i] = messages[i]
      /\ \A i \in 1..Len(kinds) : q[Len(messages) + i] = f[i]
  <2>1. /\ messages \o f \in Seq(Messages) /\ Len(messages \o f) = Len(messages) + Len(f)
        /\ \A i \in 1..Len(messages) : (messages \o f)[i] = messages[i]
        /\ \A i \in 1..Len(f) : (messages \o f)[Len(messages) + i] = f[i]
    BY <1>1, ConcatIndexed
  <2>2. q = messages \o f /\ Len(f) = Len(kinds)
    BY <1>2 DEF Extended
  <2> QED BY <2>1, <2>2, Zenon
<1>4. q = messages \o f
  BY <1>2 DEF Extended
<1>5. Covered(q) = Covered(messages) \cup Covered(f)
  BY <1>1, <1>4, CoveredConcat
<1>6. ASSUME Sound(messages, added)
      PROVE  Sound(q, added + Len(kinds))
  <2>1. \A i \in 1..Len(f) : f[i].of # {} /\ \A x \in f[i].of : x > added
    <3>1. \A i \in 1..Len(kinds) : f[i].of = {added + i}
      BY <1>2
    <3>2. \A i \in 1..Len(kinds) : added + i > added
      BY <1>1
    <3>3. Len(f) = Len(kinds)
      BY <1>2
    <3> QED BY <3>1, <3>2, <3>3
  <2>2. Sound(f, added + Len(kinds))
    <3>1. (added + 1)..(added + Len(kinds)) \subseteq 1..(added + Len(kinds)) /\ DOMAIN f = 1..Len(f)
      BY <1>1
    <3> QED BY <1>2, <2>1, <3>1 DEF Sound
  <2>3. Sound(messages \o f, added + Len(kinds))
    BY <1>1, <1>6, <2>1, <2>2, SoundConcat
  <2> QED BY <1>4, <2>3
<1> QED BY <1>1, <1>2, <1>3, <1>5, <1>6

-----------------------------------------------------------------------------
\* The order of a pending compaction: the snapshots and a result were taken
\* when "a" messages had been added, and behind the count of messages it
\* replaces there are only later ones, even when the transcript was cut.
Later(a) == \A i \in DOMAIN messages : i > compactMsgCount => \A x \in messages[i].of : x > a

PendingOrder ==
  \E a \in 0..added :
    /\ Sound(compactMessages, a)
    /\ \A k \in DOMAIN running : Sound(running[k], a)
    /\ promise => Later(a)

Ordered == Sound(messages, added) /\ PendingOrder

\* A message in the transcript, in a snapshot or in a result.
Stored(m) ==
  \/ \E i \in DOMAIN messages : m = messages[i]
  \/ \E i \in DOMAIN compactMessages : m = compactMessages[i]
  \/ \E k \in DOMAIN running : \E i \in DOMAIN running[k] : m = running[k][i]

\* What a step stores: what was stored, summaries, and new messages.
IsNew(m, kinds) == \E i \in DOMAIN kinds : m.of = {added + i} /\ m.kind = kinds[i]
Stores(kinds) == \A m : Stored(m)' => Stored(m) \/ Several(m) \/ IsNew(m, kinds)

\* New messages and cuts keep the order.
LEMMA CutKeepsOrder ==
  ASSUME ConvTypeOK, Ordered, NEW kinds \in Seq(Kinds), NEW q, Extended(q, kinds),
         NEW t, Thins(t, q), messages' = t, added' = added + Len(kinds), UNCHANGED <<pending, running>>
  PROVE  Ordered' /\ Stores(kinds)
<1>1. /\ messages \in Seq(Messages) /\ added \in Nat /\ compactMsgCount \in Nat
      /\ added' \in Nat /\ added <= added'
  BY DEF ConvTypeOK
<1>2. UNCHANGED <<promise, compactMessages, compactMsgCount, running>>
  BY DEF pending
<1>3. /\ q \in Seq(Messages) /\ Len(kinds) \in Nat /\ Len(q) = Len(messages) + Len(kinds)
      /\ \A i \in 1..Len(messages) : q[i] = messages[i]
      /\ \A i \in 1..Len(kinds) : q[Len(messages) + i].of = {added + i} /\ q[Len(messages) + i].kind = kinds[i]
      /\ Sound(q, added')
  <2>1. Sound(messages, added)
    BY DEF Ordered
  <2>2. /\ q \in Seq(Messages)
        /\ Len(kinds) \in Nat /\ Len(q) = Len(messages) + Len(kinds)
        /\ \A i \in 1..Len(messages) : q[i] = messages[i]
        /\ \A i \in 1..Len(kinds) : /\ q[Len(messages) + i].of = {added + i}
                                    /\ q[Len(messages) + i].kind = kinds[i]
        /\ Covered(q) = Covered(messages) \cup (added + 1)..(added + Len(kinds))
        /\ Sound(messages, added) => Sound(q, added + Len(kinds))
    BY ExtendedProperties, Zenon
  <2> QED BY <2>1, <2>2, Zenon
<1>4. /\ messages' \in Seq(Messages)
      /\ \A i \in 1..Len(messages') : \E j \in 1..Len(q) : i <= j /\ messages'[i] = q[j]
  <2>1. /\ t \in Seq(Messages)
        /\ Covered(t) \subseteq Covered(q)
        /\ InOrder(q) => InOrder(t)
        /\ \A i \in 1..Len(t) : \E j \in 1..Len(q) : i <= j /\ t[i] = q[j]
    <3>1. q \in Seq(Messages)
      BY <1>3
    <3> QED BY <3>1, ThinsProperties
  <2> QED BY <2>1
<1>5. Sound(messages', added')
  BY <1>1, <1>3, ThinsSound
<1>6. \A j \in 1..Len(q) : \/ j \in 1..Len(messages) /\ q[j] = messages[j]
                           \/ \E i \in 1..Len(kinds) : q[j].of = {added + i} /\ q[j].kind = kinds[i]
  <2>1. \A j \in 1..Len(q) : j \in 1..Len(messages) \/ \E i \in 1..Len(kinds) : j = Len(messages) + i
    <3>1. \A j \in 1..Len(q) : \/ j \in 1..Len(messages)
                               \/ j - Len(messages) \in 1..Len(kinds) /\ j = Len(messages) + (j - Len(messages))
      BY <1>1, <1>3
    <3> QED BY <3>1
  <2> QED BY <1>3, <2>1
<1>7. /\ DOMAIN messages = 1..Len(messages) /\ DOMAIN messages' = 1..Len(messages')
      /\ DOMAIN kinds = 1..Len(kinds)
  BY <1>1, <1>4
<1>8. PendingOrder'
  <2>1. PICK a \in 0..added : /\ Sound(compactMessages, a)
                              /\ \A k \in DOMAIN running : Sound(running[k], a)
                              /\ promise => Later(a)
    BY DEF Ordered, PendingOrder
  <2>2. ASSUME promise PROVE Later(a)'
    <3> SUFFICES ASSUME NEW i \in 1..Len(messages'), i > compactMsgCount, NEW x \in messages'[i].of
                 PROVE  x > a
      BY <1>2, <1>7 DEF Later
    <3>1. PICK j \in 1..Len(q) : i <= j /\ messages'[i] = q[j]
      BY <1>4
    <3>2. j > compactMsgCount
      BY <1>1, <1>3, <3>1
    <3>3. CASE j \in 1..Len(messages) /\ q[j] = messages[j]
      BY <1>7, <2>1, <2>2, <3>1, <3>2, <3>3 DEF Later
    <3>4. CASE \E m \in 1..Len(kinds) : q[j].of = {added + m} /\ q[j].kind = kinds[m]
      <4>1. PICK m \in 1..Len(kinds) : q[j].of = {added + m}
        BY <3>4
      <4>2. x = added + m
        BY <3>1, <4>1
      <4> QED BY <1>1, <1>3, <2>1, <4>2
    <3> QED BY <1>6, <3>3, <3>4
  <2>3. a \in 0..added'
    BY <1>1
  <2> QED BY <1>2, <2>1, <2>2, <2>3 DEF PendingOrder
<1>9. Stores(kinds)
  <2> SUFFICES ASSUME NEW m, \E i \in DOMAIN messages' : m = messages'[i]
               PROVE  Stored(m) \/ IsNew(m, kinds)
    BY <1>2 DEF Stores, Stored
  <2>1. PICK j \in 1..Len(q) : m = q[j]
    BY <1>4, <1>7
  <2> QED BY <1>6, <1>7, <2>1 DEF Stored, IsNew
<1> QED BY <1>5, <1>8, <1>9 DEF Ordered

-----------------------------------------------------------------------------
\* The pending compaction: while it runs its snapshot is a prefix of the
\* transcript, when it is done its result covers that prefix.
Snapshot(p) ==
  IF compactDone
  THEN /\ running = <<>>
       /\ compactMessages # <<>> => Covered(compactMessages) = Covered(p)
  ELSE running = <<p>>

PendingPrefix ==
  IF promise
  THEN \E p, s \in Seq(Messages) :
          messages = p \o s /\ Len(p) = compactMsgCount /\ Snapshot(p)
  ELSE running = <<>> /\ ~compactDone

\* The inductive invariant.  Chronological needs to know that what a drain puts
\* before later messages is older than they are, whatever was cut meanwhile;
\* NothingLost, that it covers the messages whose place it takes, which holds
\* unless the session is stale.
Kept == (1..added) \ dropped \subseteq Covered(messages)

CInv == ConvTypeOK /\ Ordered /\ (~stale => Kept /\ PendingPrefix)

LEMMA EmptySound ==
  /\ <<>> \in Seq(Messages) /\ \A n : Sound(<<>>, n)
<1>1. <<>> \in Seq(Messages) /\ DOMAIN <<>> = {}
  OBVIOUS
<1> QED BY <1>1 DEF Sound, InOrder, Covered

LEMMA ConvInitEstablishes == ConvInit => CInv
<1> SUFFICES ASSUME ConvInit PROVE CInv
  OBVIOUS
<1>1. ConvTypeOK
  <2>1. <<>> \in Seq(Messages) /\ <<>> \in Seq(Seq(Messages)) /\ {} \in SUBSET Nat
    OBVIOUS
  <2> QED BY <2>1 DEF ConvInit, ConvTypeOK
<1>2. Covered(messages) = {}
  BY DEF ConvInit, Covered
<1>3. Kept /\ PendingPrefix
  BY <1>2 DEF ConvInit, Kept, PendingPrefix
<1>4. Ordered
  <2>1. 0 \in 0..added /\ DOMAIN running = {} /\ ~promise
    BY DEF ConvInit
  <2>2. Sound(messages, added) /\ Sound(compactMessages, 0)
    BY EmptySound DEF ConvInit
  <2> QED BY <2>1, <2>2 DEF Ordered, PendingOrder
<1> QED BY <1>1, <1>3, <1>4 DEF CInv

\* New messages leave the pending snapshot a prefix.
LEMMA ExtendPreserves ==
  ASSUME CInv, NEW kinds \in Seq(Kinds), Extend(kinds)
  PROVE  CInv' /\ Stores(kinds)
<1>1. ConvTypeOK /\ Ordered /\ added \in Nat /\ messages \in Seq(Messages)
  BY DEF CInv, ConvTypeOK
<1>2. PICK q : q = messages \o Fresh(kinds)
  OBVIOUS
<1>3. Extended(q, kinds)
  BY <1>2 DEF Extended
<1>4. /\ q \in Seq(Messages) /\ Len(kinds) \in Nat
      /\ Covered(q) = Covered(messages) \cup (added + 1)..(added + Len(kinds))
  BY <1>1, <1>3, ExtendedProperties
<1>5. messages' = q /\ added' = added + Len(kinds) /\ UNCHANGED <<pending, running, dropped, stale>>
  BY <1>2 DEF Extend
<1>6. ConvTypeOK'
  BY <1>1, <1>4, <1>5 DEF ConvTypeOK, pending
<1>7. Ordered' /\ Stores(kinds)
  <2>1. Thins(q, q)
    BY <1>4, ThinsItself
  <2> QED BY <1>1, <1>3, <1>5, <2>1, CutKeepsOrder
<1>8. ASSUME ~stale' PROVE Kept'
  <2>1. ~stale /\ Kept
    BY <1>5, <1>8 DEF CInv
  <2>2. 1..added' = 1..added \cup (added + 1)..(added + Len(kinds))
    BY <1>1, <1>4, <1>5
  <2> QED BY <1>4, <1>5, <2>1, <2>2 DEF Kept
<1>9. ASSUME ~stale' PROVE PendingPrefix'
  <2>1. PendingPrefix
    BY <1>5, <1>9 DEF CInv
  <2>2. UNCHANGED <<promise, compactMessages, compactDone, compactMsgCount, running>>
    BY <1>5 DEF pending
  <2>3. CASE promise
    <3>1. PICK p \in Seq(Messages), s \in Seq(Messages) :
             messages = p \o s /\ Len(p) = compactMsgCount /\ Snapshot(p)
      BY <2>1, <2>3 DEF PendingPrefix
    <3>2. PICK f \in Seq(Messages) : f = Fresh(kinds)
      BY <1>1, FreshProperties
    <3>3. messages' = p \o (s \o f)
      BY <1>2, <1>5, <3>1, <3>2, ConcatAssociative
    <3>4. s \o f \in Seq(Messages)
      BY ConcatProperties
    <3>5. Snapshot(p)'
      BY <2>2, <3>1 DEF Snapshot
    <3> QED BY <2>2, <2>3, <3>1, <3>3, <3>4, <3>5 DEF PendingPrefix
  <2>4. CASE ~promise
    BY <2>1, <2>2, <2>4 DEF PendingPrefix
  <2> QED BY <2>3, <2>4
<1> QED BY <1>6, <1>7, <1>8, <1>9 DEF CInv

\* A cut of q to t, where q is the transcript with new messages: what is not in
\* t any more was dropped.  Under a pending compaction it makes the session stale.
LEMMA CutPreserves ==
  ASSUME CInv, NEW kinds \in Seq(Kinds), NEW q, Extended(q, kinds), NEW t, Thins(t, q),
         CutTo(q, t), added' = added + Len(kinds), UNCHANGED <<pending, running>>
  PROVE  CInv' /\ Stores(kinds)
<1>1. ConvTypeOK /\ Ordered /\ added \in Nat
  BY DEF CInv, ConvTypeOK
<1>2. UNCHANGED <<promise, compactMessages, compactDone, compactMsgCount, running>>
  BY DEF pending
<1>3. messages' = t /\ dropped' = dropped \cup (Covered(q) \ Covered(t)) /\ stale' = (stale \/ promise)
  BY DEF CutTo
<1>4. /\ q \in Seq(Messages) /\ Len(kinds) \in Nat
      /\ Covered(q) = Covered(messages) \cup (added + 1)..(added + Len(kinds))
  BY <1>1, ExtendedProperties
<1>5. t \in Seq(Messages) /\ Covered(q) \in SUBSET Nat /\ Covered(t) \subseteq Covered(q)
  BY <1>4, ThinsProperties, CoveredIndexed
<1>6. ConvTypeOK'
  <2>1. dropped' \in SUBSET Nat
    BY <1>1, <1>3, <1>5 DEF ConvTypeOK
  <2>2. stale' \in BOOLEAN
    BY <1>1, <1>3 DEF ConvTypeOK
  <2>3. added' \in Nat
    BY <1>1, <1>4
  <2> QED BY <1>1, <1>2, <1>3, <1>5, <2>1, <2>2, <2>3 DEF ConvTypeOK
<1>7. Ordered' /\ Stores(kinds)
  BY <1>1, <1>3, CutKeepsOrder
<1>8. ASSUME ~stale' PROVE Kept' /\ PendingPrefix'
  <2>1. ~stale /\ ~promise /\ Kept /\ PendingPrefix
    BY <1>3, <1>8 DEF CInv
  <2>2. 1..added' = 1..added \cup (added + 1)..(added + Len(kinds))
    BY <1>1, <1>4
  <2>3. Kept'
    BY <1>3, <1>4, <2>1, <2>2 DEF Kept
  <2>4. PendingPrefix'
    BY <1>2, <2>1 DEF PendingPrefix
  <2> QED BY <2>3, <2>4
<1> QED BY <1>6, <1>7, <1>8 DEF CInv

LEMMA OneUser == <<"user">> \in Seq(Kinds) /\ Len(<<"user">>) = 1 /\ <<>> \in Seq(Kinds) /\ Len(<<>>) = 0
<1>1. "user" \in Kinds
  BY DEF Kinds
<1> QED BY <1>1

LEMMA SubmitPreserves ==
  ASSUME CInv, Submit
  PROVE  CInv' /\ Stores(<<"user">>)
<1>1. PICK kinds \in Seq(Kinds) : kinds = <<"user">> /\ Len(kinds) = 1
  BY OneUser, Zenon
<1>2. PICK q : q = messages \o Fresh(kinds)
  OBVIOUS
<1>3. Extended(q, kinds) /\ q \in Seq(Messages)
  <2>1. Extended(q, kinds) /\ ConvTypeOK
    BY <1>2 DEF Extended, CInv
  <2> QED BY <2>1, ExtendedProperties
<1>4. CASE Len(q) <= MaxMessages
  <2>1. Extend(kinds)
    BY <1>1, <1>2, <1>4 DEF Submit, Extend
  <2> QED BY <1>1, <2>1, ExtendPreserves
<1>5. CASE ~(Len(q) <= MaxMessages)
  <2>1. PICK t \in Trims(q) : CutTo(q, t)
    BY <1>1, <1>2, <1>5 DEF Submit
  <2>2. Thins(t, q)
    BY <1>3, TrimProperties
  <2>3. added' = added + Len(kinds) /\ UNCHANGED <<pending, running>>
    BY <1>1 DEF Submit
  <2> QED BY <1>1, <1>3, <2>1, <2>2, <2>3, CutPreserves
<1> QED BY <1>4, <1>5

LEMMA ShrinkPreserves ==
  ASSUME CInv, NEW c \in DOMAIN messages, Shrink(c)
  PROVE  CInv' /\ Stores(<<>>)
<1>1. messages \in Seq(Messages) /\ added \in Nat /\ c \in Nat
  BY DEF CInv, ConvTypeOK
<1>2. PICK t : t = SubSeq(messages, c + 1, Len(messages))
  OBVIOUS
<1>3. Thins(t, messages)
  BY <1>1, <1>2, SuffixThins
<1>4. PICK kinds \in Seq(Kinds) : kinds = <<>> /\ Len(kinds) = 0
  BY OneUser, Zenon
<1>5. Extended(messages, kinds)
  <2>1. Fresh(<<>>) = <<>>
    BY DEF Fresh
  <2>2. messages \o <<>> = messages
    BY <1>1, ConcatEmptySeq
  <2> QED BY <1>4, <2>1, <2>2 DEF Extended
<1>6. CutTo(messages, t) /\ added' = added + Len(kinds) /\ UNCHANGED <<pending, running>>
  BY <1>1, <1>2, <1>4 DEF Shrink
<1>7. CInv' /\ Stores(kinds)
  BY <1>3, <1>5, <1>6, CutPreserves
<1> QED BY <1>4, <1>7

\* A new transcript holds only new messages; a call that still runs is stale.
LEMMA ReplacePreserves ==
  ASSUME CInv, NEW kinds \in Seq(Kinds), Replace(kinds)
  PROVE  CInv' /\ Stores(kinds)
<1>1. ConvTypeOK /\ Ordered /\ added \in Nat /\ Len(kinds) \in Nat /\ DOMAIN kinds = 1..Len(kinds)
  BY DEF CInv, ConvTypeOK
<1>2. PICK f \in Seq(Messages) :
         /\ f = Fresh(kinds) /\ InOrder(f) /\ Covered(f) = (added + 1)..(added + Len(kinds))
         /\ Len(f) = Len(kinds)
         /\ \A i \in 1..Len(kinds) : f[i].of = {added + i} /\ f[i].kind = kinds[i]
  BY <1>1, FreshProperties
<1>3. messages' = f /\ added' = added + Len(kinds) /\ added' \in Nat /\ added <= added' /\ dropped' = 1..added
  BY <1>1, <1>2 DEF Replace
<1>4. /\ promise' = FALSE /\ compactDone' = FALSE /\ compactMessages' = <<>>
      /\ compactMsgCount' = 0 /\ running' = running /\ stale' = (running # <<>>)
  BY DEF Replace
<1>5. ConvTypeOK'
  <2>1. added' \in Nat /\ dropped' \in SUBSET Nat
    BY <1>1, <1>3
  <2>2. running' \in Seq(Seq(Messages)) /\ stale' \in BOOLEAN
    BY <1>1, <1>4 DEF ConvTypeOK
  <2> QED BY <1>2, <1>3, <1>4, <2>1, <2>2, EmptySound DEF ConvTypeOK
<1>6. DOMAIN f = 1..Len(kinds)
  BY <1>2
<1>7. Sound(messages', added')
  <2>1. \A i \in DOMAIN f : f[i].of # {}
    BY <1>2, <1>6
  <2>2. (added + 1)..(added + Len(kinds)) \subseteq 1..(added + Len(kinds))
    BY <1>1
  <2> QED BY <1>2, <1>3, <2>1, <2>2 DEF Sound
<1>8. PendingOrder'
  <2>1. PICK a \in 0..added : \A k \in DOMAIN running : Sound(running[k], a)
    BY <1>1 DEF Ordered, PendingOrder
  <2>2. a \in 0..added'
    BY <1>1, <1>3
  <2> QED BY <1>4, <2>1, <2>2, EmptySound DEF PendingOrder
<1>9. Stores(kinds)
  <2>1. \A i \in DOMAIN f : IsNew(f[i], kinds)
    BY <1>1, <1>2, <1>6 DEF IsNew
  <2>2. ASSUME NEW m, Stored(m)' PROVE Stored(m) \/ IsNew(m, kinds)
    <3>1. CASE \E i \in DOMAIN messages' : m = messages'[i]
      BY <1>3, <2>1, <3>1
    <3>2. CASE \E i \in DOMAIN compactMessages' : m = compactMessages'[i]
      BY <1>4, <3>2
    <3>3. CASE \E k \in DOMAIN running' : \E i \in DOMAIN running'[k] : m = running'[k][i]
      BY <1>4, <3>3 DEF Stored
    <3> QED BY <2>2, <3>1, <3>2, <3>3 DEF Stored
  <2> QED BY <2>2 DEF Stores
<1>10. Kept'
  BY <1>1, <1>2, <1>3 DEF Kept
<1>11. ASSUME ~stale' PROVE PendingPrefix'
  BY <1>4, <1>11 DEF PendingPrefix
<1> QED BY <1>5, <1>7, <1>8, <1>9, <1>10, <1>11 DEF CInv, Ordered

\* Nothing changes.
LEMMA StutterPreserves ==
  ASSUME CInv, UNCHANGED convVars
  PROVE  CInv' /\ Stores(<<>>)
<1>1. CInv'
  BY DEF CInv, ConvTypeOK, Ordered, PendingOrder, Later, Kept, PendingPrefix, Snapshot, convVars
<1>2. \A m : Stored(m)' => Stored(m)
  BY DEF Stored, convVars
<1> QED BY <1>1, <1>2 DEF Stores

\* The snapshot of a compaction that starts is the whole transcript.
LEMMA TriggerPreserves ==
  ASSUME CInv, Trigger
  PROVE  CInv' /\ Stores(<<>>)
<1>1. /\ ConvTypeOK /\ Ordered /\ running \in Seq(Seq(Messages)) /\ messages \in Seq(Messages)
      /\ added \in Nat
  BY DEF CInv, ConvTypeOK
<1>2. CASE promise
  <2>1. UNCHANGED convVars
    BY <1>2 DEF Trigger, pending, convVars
  <2> QED BY <2>1, StutterPreserves
<1>3. CASE ~promise
  <2>1. /\ promise' = TRUE /\ compactMsgCount' = Len(messages)
        /\ running' = Append(running, messages)
        /\ UNCHANGED <<messages, added, dropped, stale, compactMessages, compactDone>>
    BY <1>3 DEF Trigger
  <2>2. running' \in Seq(Seq(Messages)) /\ Len(messages) \in Nat
    BY <1>1, <2>1
  <2>3. \A k \in DOMAIN running' : running'[k] = messages \/ (k \in DOMAIN running /\ running'[k] = running[k])
    BY <1>1, <2>1
  <2>4. ConvTypeOK'
    BY <1>1, <2>1, <2>2 DEF ConvTypeOK
  <2>5. PendingOrder'
    <3>1. PICK a \in 0..added : Sound(compactMessages, a) /\ \A k \in DOMAIN running : Sound(running[k], a)
      BY <1>1 DEF Ordered, PendingOrder
    <3>2. a \in Nat /\ a <= added /\ added \in 0..added
      BY <1>1
    <3>3. \A k \in DOMAIN running : running[k] \in Seq(Messages)
      BY <1>1
    <3>4. Sound(compactMessages, added) /\ \A k \in DOMAIN running : Sound(running[k], added)
      BY <1>1, <3>1, <3>2, <3>3, SoundBelow DEF ConvTypeOK
    <3>5. \A k \in DOMAIN running' : Sound(running'[k], added)
      BY <1>1, <2>3, <3>4 DEF Ordered
    <3>6. Later(added)'
      <4>1. \A i \in DOMAIN messages : ~(i > Len(messages))
        BY <1>1
      <4> QED BY <2>1, <4>1 DEF Later
    <3> QED BY <2>1, <3>2, <3>4, <3>5, <3>6 DEF PendingOrder
  <2>6. Ordered'
    BY <1>1, <2>1, <2>5 DEF Ordered
  <2>7. Stores(<<>>)
    <3>1. \A m : Stored(m)' => Stored(m)
      BY <2>1, <2>3 DEF Stored
    <3> QED BY <3>1 DEF Stores
  <2>8. ASSUME ~stale' PROVE Kept' /\ PendingPrefix'
    <3>1. Kept /\ PendingPrefix
      BY <2>1, <2>8 DEF CInv
    <3>2. Kept'
      BY <2>1, <3>1 DEF Kept
    <3>3. running = <<>> /\ ~compactDone
      BY <1>3, <3>1 DEF PendingPrefix
    <3>4. running' = <<messages>>
      BY <2>1, <3>3
    <3>5. messages = messages \o <<>> /\ <<>> \in Seq(Messages)
      BY <1>1, ConcatEmptySeq
    <3>6. Snapshot(messages)'
      BY <2>1, <3>3, <3>4 DEF Snapshot
    <3>7. promise' /\ messages' = messages \o <<>> /\ Len(messages) = compactMsgCount'
      BY <2>1, <3>5
    <3> QED BY <1>1, <2>1, <3>2, <3>5, <3>6, <3>7 DEF PendingPrefix, Snapshot
  <2> QED BY <2>4, <2>6, <2>7, <2>8 DEF CInv
<1> QED BY <1>2, <1>3

\* A call that ends while nothing is stale is the pending one.
LEMMA CompletePreserves ==
  ASSUME CInv, NEW i \in DOMAIN running, NEW r \in Outcomes(running[i]), Complete(i, r)
  PROVE  CInv' /\ Stores(<<>>)
<1>1. ConvTypeOK /\ Ordered /\ running \in Seq(Seq(Messages)) /\ added \in Nat
  BY DEF CInv, ConvTypeOK
<1>2. i \in 1..Len(running) /\ running[i] \in Seq(Messages)
  BY <1>1
<1>3. /\ r \in Seq(Messages)
      /\ r # <<>> => /\ Covered(r) = Covered(running[i])
                     /\ Len(r) >= 1 /\ Len(running[i]) >= 1 /\ r[Len(r)] = running[i][Len(running[i])]
      /\ \A n \in Nat : Sound(running[i], n) =>
           /\ Sound(r, n)
           /\ \A j \in 1..Len(r) : (\E k \in 1..Len(running[i]) : r[j] = running[i][k]) \/ Several(r[j])
  BY <1>2, OutcomeProperties
<1>4. /\ compactMessages' = r /\ compactDone' = TRUE /\ running' = RemoveAt(running, i)
      /\ UNCHANGED <<messages, promise, compactMsgCount, added, dropped, stale>>
  BY DEF Complete
<1>5. /\ running' \in Seq(Seq(Messages)) /\ Len(running') = Len(running) - 1
      /\ \A k \in DOMAIN running' : \E j \in DOMAIN running : running'[k] = running[j]
  <2>1. PICK s \in Seq(Seq(Messages)) :
          /\ s = RemoveAt(running, i) /\ Len(s) = Len(running) - 1
          /\ \A k \in 1..Len(s) : s[k] = IF k < i THEN running[k] ELSE running[k + 1]
    BY <1>1, <1>2, SpliceIndexed
  <2>2. DOMAIN s = 1..Len(s) /\ DOMAIN running = 1..Len(running) /\ Len(running) \in Nat
    BY <1>1
  <2>3. \A k \in 1..Len(s) : k \in 1..Len(running) /\ k + 1 \in 1..Len(running)
    BY <2>1, <2>2
  <2>4. \A k \in 1..Len(s) : \E j \in 1..Len(running) : s[k] = running[j]
    BY <2>1, <2>3
  <2> QED BY <1>4, <2>1, <2>2, <2>4
<1>6. ConvTypeOK'
  BY <1>1, <1>3, <1>4, <1>5 DEF ConvTypeOK
<1>7. PICK a \in 0..added : /\ \A k \in DOMAIN running : Sound(running[k], a)
                            /\ promise => Later(a)
  BY <1>1 DEF Ordered, PendingOrder
<1>8. Sound(r, a) /\ \A j \in 1..Len(r) : (\E k \in 1..Len(running[i]) : r[j] = running[i][k]) \/ Several(r[j])
  BY <1>3, <1>7
<1>9. Ordered'
  <2>1. \A k \in DOMAIN running' : Sound(running'[k], a)
    BY <1>5, <1>7
  <2>2. promise' => Later(a)'
    BY <1>4, <1>7 DEF Later
  <2>3. PendingOrder'
    BY <1>4, <1>8, <2>1, <2>2 DEF PendingOrder
  <2> QED BY <1>1, <1>4, <2>3 DEF Ordered
<1>10. Stores(<<>>)
  <2>1. DOMAIN r = 1..Len(r) /\ DOMAIN running[i] = 1..Len(running[i])
    BY <1>2, <1>3
  <2>2. ASSUME NEW m, Stored(m)' PROVE Stored(m) \/ Several(m)
    <3>1. CASE \E j \in DOMAIN messages' : m = messages'[j]
      BY <1>4, <3>1 DEF Stored
    <3>2. CASE \E j \in DOMAIN compactMessages' : m = compactMessages'[j]
      BY <1>4, <1>8, <2>1, <3>2 DEF Stored
    <3>3. CASE \E k \in DOMAIN running' : \E j \in DOMAIN running'[k] : m = running'[k][j]
      BY <1>5, <3>3 DEF Stored
    <3> QED BY <2>2, <3>1, <3>2, <3>3 DEF Stored
  <2> QED BY <2>2 DEF Stores
<1>11. ASSUME ~stale' PROVE Kept' /\ PendingPrefix'
  <2>1. Kept /\ PendingPrefix
    BY <1>4, <1>11 DEF CInv
  <2>2. running # <<>>
    BY <1>1, <1>2
  <2>3. promise
    BY <2>1, <2>2 DEF PendingPrefix
  <2>4. PICK p \in Seq(Messages), s \in Seq(Messages) :
           messages = p \o s /\ Len(p) = compactMsgCount /\ Snapshot(p)
    BY <2>1, <2>3 DEF PendingPrefix
  <2>5. running = <<p>>
    BY <2>2, <2>4 DEF Snapshot
  <2>6. running[i] = p /\ Len(running) = 1
    BY <1>2, <2>5
  <2>7. running' = <<>>
    <3>1. Len(running') = 0
      BY <1>5, <2>6
    <3> QED BY <1>5, <3>1, EmptySeq
  <2>8. Snapshot(p)'
    BY <1>3, <1>4, <2>6, <2>7 DEF Snapshot
  <2>9. PendingPrefix'
    BY <1>4, <2>3, <2>4, <2>8 DEF PendingPrefix
  <2> QED BY <1>4, <2>1, <2>9 DEF Kept
<1> QED BY <1>6, <1>9, <1>10, <1>11 DEF CInv

\* A drain exchanges the first messages of the transcript for what covers the
\* same, or for something older than what follows.
LEMMA DrainPreserves ==
  ASSUME CInv, Drain
  PROVE  CInv' /\ Stores(<<>>)
<1>1. /\ ConvTypeOK /\ Ordered /\ messages \in Seq(Messages) /\ compactMessages \in Seq(Messages)
      /\ compactMsgCount \in Nat /\ added \in Nat
  BY DEF CInv, ConvTypeOK
<1>2. CASE ~(promise /\ compactDone)
  <2>1. UNCHANGED convVars
    BY <1>2 DEF Drain
  <2> QED BY <2>1, StutterPreserves
<1>3. CASE promise /\ compactDone
  <2>1. PICK t : t = SubSeq(messages, compactMsgCount + 1, Len(messages))
    OBVIOUS
  <2>2. /\ promise' = FALSE /\ compactMessages' = <<>> /\ compactDone' = FALSE
        /\ compactMsgCount' = 0 /\ UNCHANGED <<running, added, dropped, stale>>
        /\ messages' = IF compactMessages = <<>> THEN messages ELSE compactMessages \o t
    BY <1>3, <2>1 DEF Drain
  <2>3. /\ Thins(t, messages)
        /\ \A i \in 1..Len(t) : compactMsgCount + i \in 1..Len(messages) /\ t[i] = messages[compactMsgCount + i]
    BY <1>1, <2>1, SuffixThins
  <2>4. t \in Seq(Messages)
    BY <1>1, <2>3, ThinsProperties
  <2>5. /\ compactMessages \o t \in Seq(Messages)
        /\ Len(compactMessages) \in Nat /\ Len(t) \in Nat
        /\ Len(compactMessages \o t) = Len(compactMessages) + Len(t)
        /\ \A i \in 1..Len(compactMessages) : (compactMessages \o t)[i] = compactMessages[i]
        /\ \A i \in 1..Len(t) : (compactMessages \o t)[Len(compactMessages) + i] = t[i]
    BY <1>1, <2>4, ConcatIndexed
  <2>6. ConvTypeOK'
    <3>1. messages' \in Seq(Messages)
      BY <1>1, <2>2, <2>5
    <3> QED BY <1>1, <2>2, <3>1, EmptySound DEF ConvTypeOK
  <2>7. PICK a \in 0..added : /\ Sound(compactMessages, a) /\ Later(a)
                              /\ \A k \in DOMAIN running : Sound(running[k], a)
    BY <1>1, <1>3 DEF Ordered, PendingOrder
  <2>8. Sound(messages', added)
    <3>1. Sound(t, added)
      BY <1>1, <2>3, ThinsSound DEF Ordered
    <3>2. \A i \in 1..Len(t) : \A x \in t[i].of : x > a
      <4>1. \A i \in 1..Len(t) : compactMsgCount + i > compactMsgCount /\ compactMsgCount + i \in DOMAIN messages
        BY <1>1, <2>3
      <4> QED BY <2>3, <2>7, <4>1 DEF Later
    <3>3. a \in Nat /\ a <= added
      BY <1>1
    <3>4. Sound(compactMessages \o t, added)
      BY <1>1, <2>4, <2>7, <3>1, <3>2, <3>3, SoundConcat
    <3> QED BY <1>1, <2>2, <3>4 DEF Ordered
  <2>9. Ordered'
    BY <2>2, <2>7, <2>8, EmptySound DEF Ordered, PendingOrder
  <2>10. Stores(<<>>)
    <3>1. ASSUME NEW m, \E i \in DOMAIN messages' : m = messages'[i] PROVE Stored(m)
      <4>1. CASE compactMessages = <<>>
        BY <2>2, <3>1, <4>1 DEF Stored
      <4>2. CASE compactMessages # <<>>
        <5>1. PICK i \in 1..(Len(compactMessages) + Len(t)) : m = (compactMessages \o t)[i]
          BY <2>2, <2>5, <3>1, <4>2
        <5>2. CASE i <= Len(compactMessages)
          <6>1. i \in 1..Len(compactMessages) /\ DOMAIN compactMessages = 1..Len(compactMessages)
            BY <1>1, <5>2
          <6> QED BY <2>5, <5>1, <6>1 DEF Stored
        <5>3. CASE ~(i <= Len(compactMessages))
          <6>1. PICK j \in 1..Len(t) : i = Len(compactMessages) + j
            <7>1. i - Len(compactMessages) \in 1..Len(t) /\ i = Len(compactMessages) + (i - Len(compactMessages))
              BY <2>5, <5>3
            <7> QED BY <7>1
          <6>2. m = messages[compactMsgCount + j] /\ compactMsgCount + j \in DOMAIN messages
            BY <1>1, <2>3, <2>5, <5>1, <6>1
          <6> QED BY <6>2 DEF Stored
        <5> QED BY <5>2, <5>3
      <4> QED BY <4>1, <4>2
    <3>2. ASSUME NEW m, Stored(m)' PROVE Stored(m)
      <4>1. CASE \E i \in DOMAIN messages' : m = messages'[i]
        BY <3>1, <4>1
      <4>2. CASE \E i \in DOMAIN compactMessages' : m = compactMessages'[i]
        BY <2>2, <4>2
      <4>3. CASE \E k \in DOMAIN running' : \E i \in DOMAIN running'[k] : m = running'[k][i]
        BY <2>2, <4>3 DEF Stored
      <4> QED BY <3>2, <4>1, <4>2, <4>3 DEF Stored
    <3> QED BY <3>2 DEF Stores
  <2>11. ASSUME ~stale' PROVE Kept' /\ PendingPrefix'
    <3>1. Kept /\ PendingPrefix
      BY <2>2, <2>11 DEF CInv
    <3>2. PICK p \in Seq(Messages), s \in Seq(Messages) :
             messages = p \o s /\ Len(p) = compactMsgCount /\ Snapshot(p)
      BY <1>3, <3>1 DEF PendingPrefix
    <3>3. running = <<>> /\ (compactMessages # <<>> => Covered(compactMessages) = Covered(p))
      BY <1>3, <3>2 DEF Snapshot
    <3>4. PendingPrefix'
      BY <2>2, <3>3 DEF PendingPrefix
    <3>5. CASE compactMessages = <<>>
      BY <2>2, <3>1, <3>4, <3>5 DEF Kept
    <3>6. CASE compactMessages # <<>>
      <4>1. t = s
        <5>1. SubSeq(p \o s, Len(p) + 1, Len(p \o s)) = s
          BY <3>2, SecondPart
        <5>2. SubSeq(p \o s, Len(p) + 1, Len(p \o s)) = t
          BY <2>1, <3>2, Zenon
        <5> QED BY <5>1, <5>2
      <4>2. Covered(messages') = Covered(messages)
        <5>1. Covered(compactMessages \o s) = Covered(compactMessages) \cup Covered(s)
          BY <1>1, CoveredConcat
        <5>2. Covered(p \o s) = Covered(p) \cup Covered(s)
          BY CoveredConcat
        <5> QED BY <2>2, <3>2, <3>3, <3>6, <4>1, <5>1, <5>2
      <4> QED BY <2>2, <3>1, <3>4, <4>2 DEF Kept
    <3> QED BY <3>5, <3>6
  <2> QED BY <2>6, <2>9, <2>10, <2>11 DEF CInv
<1> QED BY <1>2, <1>3

-----------------------------------------------------------------------------
\* One step per action of the conversation.
LEMMA ConvStepPreserves ==
  ASSUME CInv, [ConvNext]_convVars
  PROVE  CInv'
<1>1. ASSUME NEW kinds \in Seq(Kinds), Extend(kinds) PROVE CInv'
  BY <1>1, ExtendPreserves
<1>2. ASSUME NEW kinds \in Seq(Kinds), Replace(kinds) PROVE CInv'
  BY <1>2, ReplacePreserves
<1>3. CASE Submit
  BY <1>3, SubmitPreserves
<1>4. ASSUME NEW c \in DOMAIN messages, Shrink(c) PROVE CInv'
  BY <1>4, ShrinkPreserves
<1>5. CASE Trigger
  BY <1>5, TriggerPreserves
<1>6. ASSUME NEW i \in DOMAIN running, NEW r \in Outcomes(running[i]), Complete(i, r) PROVE CInv'
  BY <1>6, CompletePreserves
<1>7. CASE Drain
  BY <1>7, DrainPreserves
<1>8. CASE UNCHANGED convVars
  BY <1>8, StutterPreserves
<1> QED BY <1>1, <1>2, <1>3, <1>4, <1>5, <1>6, <1>7, <1>8 DEF ConvNext

LEMMA ConvInvariant == ConvSpec => []CInv
<1>1. CInv /\ [ConvNext]_convVars => CInv'
  BY ConvStepPreserves
<1> QED BY ConvInitEstablishes, <1>1, PTL DEF ConvSpec

\* The transcript and the state of a compaction have the types the code gives
\* them, for every length of a transcript.
THEOREM ConvTypeCorrect == ConvSpec => []ConvTypeOK
<1>1. CInv => ConvTypeOK
  BY DEF CInv
<1> QED BY ConvInvariant, <1>1, PTL

\* Every message that was added and not given up on purpose is in the
\* transcript, itself or in a summary, for every number of messages, every
\* number kept by a compaction and every moment at which one starts, ends and
\* is drained (QueryEngineCompaction.ts:283-326).
THEOREM NoMessageLost == ConvSpec => []NothingLost
<1>1. CInv => NothingLost
  BY DEF CInv, Kept, NothingLost
<1> QED BY ConvInvariant, <1>1, PTL

\* No compaction, merge, cut or trim puts messages out of order or has one
\* twice, not even in a stale session.
THEOREM TranscriptChronological == ConvSpec => []Chronological
<1>1. CInv => Chronological
  BY DEF CInv, Ordered, Sound, Chronological
<1> QED BY ConvInvariant, <1>1, PTL

-----------------------------------------------------------------------------
(* The query loop *)

\* Adding messages of some kinds is a step of the conversation.
LEMMA ExtendIsConvStep ==
  ASSUME ConvTypeOK, NEW kinds \in Seq(Kinds), Extend(kinds)
  PROVE  ConvNext
<1>1. PICK f \in Seq(Messages) : f = Fresh(kinds)
  BY FreshProperties DEF ConvTypeOK
<1>2. PICK n \in Nat : /\ n = Len(kinds) /\ DOMAIN kinds = 1..n
                       /\ kinds = [i \in 1..n |-> kinds[i]]
  OBVIOUS
<1>3. Len(f) = n /\ \A i \in 1..n : f[i].kind = kinds[i]
  <2>1. f = [i \in 1..n |-> [of |-> {added + i}, kind |-> kinds[i]]]
    BY <1>1, <1>2 DEF Fresh
  <2> QED BY <1>1, <2>1
<1>4. messages \in Seq(Messages) /\ messages' = messages \o f
  BY <1>1 DEF ConvTypeOK, Extend
<1>5. Len(messages') - Len(messages) = n /\ \A i \in 1..n : messages'[Len(messages) + i] = f[i]
  <2>1. PICK r \in Seq(Messages) : r = messages \o f
    BY <1>4, ConcatProperties
  <2>2. /\ Len(messages) \in Nat /\ Len(r) = Len(messages) + n
        /\ \A i \in 1..Len(r) : r[i] = IF i <= Len(messages) THEN messages[i] ELSE f[i - Len(messages)]
    BY <1>1, <1>3, <1>4, <2>1, ConcatProperties
  <2>3. \A i \in 1..n : /\ Len(messages) + i \in 1..Len(r) /\ ~(Len(messages) + i <= Len(messages))
                        /\ (Len(messages) + i) - Len(messages) = i
    BY <2>2
  <2> QED BY <1>4, <2>1, <2>2, <2>3
<1>6. KindsAfter(Len(messages)) = kinds
  BY <1>2, <1>3, <1>5 DEF KindsAfter
<1> QED BY <1>6 DEF ConvNext

\* So is replacing the transcript.
LEMMA ReplaceIsConvStep ==
  ASSUME ConvTypeOK, NEW kinds \in Seq(Kinds), Replace(kinds)
  PROVE  ConvNext
<1>1. PICK n \in Nat : /\ n = Len(kinds) /\ DOMAIN kinds = 1..n
                       /\ kinds = [i \in 1..n |-> kinds[i]]
  OBVIOUS
<1>2. messages' = [i \in 1..n |-> [of |-> {added + i}, kind |-> kinds[i]]]
  BY <1>1 DEF Replace, Fresh
<1>3. Len(messages') = n /\ \A i \in 1..n : messages'[0 + i].kind = kinds[i]
  <2>1. messages' \in Seq(Messages)
    BY FreshProperties DEF Replace, ConvTypeOK
  <2> QED BY <1>2, <2>1
<1>4. KindsAfter(0) = kinds
  <2>1. Len(messages') - 0 = n
    BY <1>1, <1>3
  <2>2. KindsAfter(0) = [i \in 1..n |-> messages'[0 + i].kind]
    BY <2>1 DEF KindsAfter
  <2> QED BY <1>1, <1>3, <2>2
<1> QED BY <1>4 DEF ConvNext


-----------------------------------------------------------------------------
\* What is last in a transcript.
Ends(q) == LastKind(q) \in {"user", "system"}
Said    == LastKind(messages) \in {"assistant", "call"}

LEMMA ExtendLast ==
  ASSUME ConvTypeOK, NEW kinds \in Seq(Kinds), Extend(kinds)
  PROVE  /\ added' = added + Len(kinds)
         /\ kinds = <<>> => messages' = messages
         /\ kinds # <<>> => /\ messages' # <<>> /\ LastKind(messages') = kinds[Len(kinds)]
                            /\ messages'[Len(messages')].of = {added'}
<1>1. messages \in Seq(Messages) /\ added \in Nat /\ messages' = messages \o Fresh(kinds)
      /\ added' = added + Len(kinds) /\ Len(kinds) \in Nat
  BY DEF Extend, ConvTypeOK
<1>2. Extended(messages', kinds)
  BY <1>1 DEF Extended
<1>3. /\ messages' \in Seq(Messages)
      /\ Len(messages') = Len(messages) + Len(kinds)
      /\ \A i \in 1..Len(kinds) : /\ messages'[Len(messages) + i].of = {added + i}
                                  /\ messages'[Len(messages) + i].kind = kinds[i]
  BY <1>2, ExtendedProperties
<1>4. CASE kinds = <<>>
  <2>1. Fresh(<<>>) = <<>>
    BY DEF Fresh
  <2>2. messages' = messages
    BY <1>1, <1>4, <2>1, ConcatEmptySeq
  <2> QED BY <1>1, <1>4, <2>2
<1>5. CASE kinds # <<>>
  <2>1. Len(kinds) \in 1..Len(kinds)
    BY <1>5
  <2>2. messages' # <<>>
    BY <1>1, <1>3, <2>1
  <2> QED BY <1>1, <1>3, <1>5, <2>1, <2>2 DEF LastKind
<1> QED BY <1>4, <1>5

LEMMA SubmitLast ==
  ASSUME ConvTypeOK, Submit
  PROVE  Ends(messages')
<1>1. PICK kinds \in Seq(Kinds) : kinds = <<"user">> /\ Len(kinds) = 1 /\ kinds[1] = "user"
  <2>1. <<"user">> \in Seq(Kinds) /\ Len(<<"user">>) = 1 /\ <<"user">>[1] = "user"
    BY OneUser
  <2> QED BY <2>1, Zenon
<1>2. PICK q : q = messages \o Fresh(kinds)
  OBVIOUS
<1>3. Extended(q, kinds)
  BY <1>2 DEF Extended
<1>4. /\ q \in Seq(Messages) /\ Len(q) = Len(messages) + Len(kinds)
      /\ \A i \in 1..Len(kinds) : q[Len(messages) + i].kind = kinds[i]
  BY <1>3, ExtendedProperties
<1>5. q # <<>> /\ Len(q) >= 1 /\ q[Len(q)].kind = "user"
  <2>1. messages \in Seq(Messages)
    BY DEF ConvTypeOK
  <2>2. Len(q) = Len(messages) + 1 /\ 1 \in 1..Len(kinds) /\ Len(messages) \in Nat
    BY <1>1, <1>4, <2>1
  <2> QED BY <1>1, <1>4, <2>2
<1>6. CASE Len(q) <= MaxMessages
  <2>1. messages' = q
    BY <1>1, <1>2, <1>6 DEF Submit
  <2> QED BY <1>5, <2>1 DEF Ends, LastKind
<1>7. CASE ~(Len(q) <= MaxMessages)
  <2>1. PICK t \in Trims(q) : messages' = t
    BY <1>1, <1>2, <1>7 DEF Submit, CutTo
  <2>2. /\ Thins(t, q)
        /\ Len(t) \in 1..Len(q)
        /\ t[Len(t)] = q[Len(q)] \/ t[Len(t)].kind \in {"system", "user"}
    BY <1>4, TrimProperties
  <2>3. t # <<>>
    BY <2>2
  <2> QED BY <1>5, <2>1, <2>2, <2>3 DEF Ends, LastKind
<1> QED BY <1>6, <1>7

\* The last message, number and kind, is what it was.
SameLast == /\ messages' = <<>> <=> messages = <<>>
            /\ messages # <<>> => messages'[Len(messages')] = messages[Len(messages)]

LEMMA SameLastKind ==
  ASSUME SameLast
  PROVE  LastKind(messages') = LastKind(messages)
BY Zenon DEF SameLast, LastKind

\* The last message of a transcript that goes on after position c.
LEMMA SuffixLast ==
  ASSUME NEW q \in Seq(Messages), NEW c \in Nat, c < Len(q), NEW s, s = SubSeq(q, c + 1, Len(q))
  PROVE  s \in Seq(Messages) /\ Len(s) >= 1 /\ s # <<>> /\ q # <<>> /\ s[Len(s)] = q[Len(q)]
<1>1. /\ Thins(s, q) /\ Len(s) = Len(q) - c
      /\ \A i \in 1..Len(s) : s[i] = q[c + i]
  BY SuffixThins
<1>2. s \in Seq(Messages)
  BY <1>1 DEF Thins
<1>3. Len(s) \in 1..Len(s) /\ c + Len(s) = Len(q) /\ Len(s) >= 1
  BY <1>1, <1>2
<1>4. s[Len(s)] = q[Len(q)]
  BY <1>1, <1>3
<1>5. Len(<<>>) = 0 /\ Len(q) # 0 /\ Len(s) # 0
  BY <1>3
<1> QED BY <1>2, <1>3, <1>4, <1>5, Zenon

LEMMA ShrinkLast ==
  ASSUME ConvTypeOK, NEW c, Shrink(c)
  PROVE  SameLast
<1>1. messages \in Seq(Messages) /\ c \in Nat /\ c < Len(messages)
  BY DEF ConvTypeOK, Shrink
<1>2. messages' = SubSeq(messages, c + 1, Len(messages))
  BY DEF Shrink, CutTo
<1>3. messages' # <<>> /\ messages'[Len(messages')] = messages[Len(messages)] /\ messages # <<>>
  BY <1>1, <1>2, SuffixLast
<1> QED BY <1>3 DEF SameLast

\* Every snapshot, and so every result, ends with a message that asks for an answer.
Asking == /\ \A k \in DOMAIN running : Ends(running[k])
          /\ compactMessages # <<>> => Ends(compactMessages)

LEMMA DrainLast ==
  ASSUME ConvTypeOK, Asking, Drain
  PROVE  SameLast \/ Ends(messages')
<1>1. CASE messages' = messages
  BY <1>1 DEF SameLast
<1>2. CASE messages' # messages
  <2>1. /\ compactMessages # <<>>
        /\ messages' = compactMessages \o SubSeq(messages, compactMsgCount + 1, Len(messages))
    BY <1>2 DEF Drain, convVars
  <2>2. /\ messages \in Seq(Messages) /\ compactMessages \in Seq(Messages) /\ compactMsgCount \in Nat
        /\ Len(messages) \in Nat /\ Len(compactMessages) \in Nat /\ Len(compactMessages) >= 1
    BY <2>1 DEF ConvTypeOK
  <2>3. PICK s : s = SubSeq(messages, compactMsgCount + 1, Len(messages))
    OBVIOUS
  <2>4. CASE compactMsgCount < Len(messages)
    <3>1. s \in Seq(Messages) /\ Len(s) >= 1 /\ s[Len(s)] = messages[Len(messages)]
      BY <2>2, <2>3, <2>4, SuffixLast
    <3>2. /\ Len(compactMessages \o s) = Len(compactMessages) + Len(s)
          /\ \A i \in 1..Len(s) : (compactMessages \o s)[Len(compactMessages) + i] = s[i]
      BY <2>2, <3>1, ConcatIndexed
    <3>3. (compactMessages \o s)[Len(compactMessages \o s)] = s[Len(s)] /\ compactMessages \o s # <<>>
      BY <2>2, <3>1, <3>2
    <3>4. messages # <<>>
      BY <2>2, <2>4
    <3> QED BY <2>1, <2>3, <3>1, <3>3, <3>4 DEF SameLast
  <2>5. CASE ~(compactMsgCount < Len(messages))
    <3>1. s = <<>>
      BY <2>2, <2>3, <2>5
    <3>2. messages' = compactMessages
      BY <2>1, <2>2, <2>3, <3>1, ConcatEmptySeq
    <3> QED BY <2>1, <3>2 DEF Asking
  <2> QED BY <2>4, <2>5
<1> QED BY <1>1, <1>2

-----------------------------------------------------------------------------
\* What the numbers of stored messages say: an answer that is last is the newest
\* message; a number has one kind; and what is numbered just before a tool
\* result is the call.
Newest  == Said => messages[Len(messages)].of = {added}
OneKind == \A x, y : Stored(x) /\ Stored(y) => \A n \in Nat : x.of = {n} /\ y.of = {n} => x.kind = y.kind
Pairs   == \A x, y : Stored(x) /\ Stored(y) /\ y.kind = "tool" =>
              \A n \in Nat : x.of = {n} /\ y.of = {n + 1} => x.kind = "call"

\* A tool result comes right after the call.
ToolsAnswer(kinds) == \A i \in DOMAIN kinds : kinds[i] = "tool" => i = 1 /\ LastKind(messages) = "call"

\* A stored message stands for messages that were added, the last one in particular.
LEMMA StoredBelow ==
  ASSUME CInv
  PROVE  /\ \A m : Stored(m) => m.of \subseteq 1..added
         /\ messages # <<>> => Stored(messages[Len(messages)])
<1>1. /\ messages \in Seq(Messages) /\ compactMessages \in Seq(Messages) /\ running \in Seq(Seq(Messages))
      /\ added \in Nat /\ Sound(messages, added) /\ PendingOrder
  BY DEF CInv, ConvTypeOK, Ordered
<1>2. PICK a \in 0..added : /\ Sound(compactMessages, a)
                            /\ \A k \in DOMAIN running : Sound(running[k], a)
  BY <1>1 DEF PendingOrder
<1>3. ASSUME NEW q \in Seq(Messages), NEW n \in 0..added, Sound(q, n), NEW i \in DOMAIN q
      PROVE  q[i].of \subseteq 1..added
  <2>1. i \in 1..Len(q) /\ n \in Nat
    BY <1>1, <1>3
  <2>2. q[i].of \subseteq 1..n
    BY <1>3, <2>1, SoundIndexed
  <2>3. 1..n \subseteq 1..added
    BY <1>1
  <2> QED BY <2>2, <2>3
<1>4. ASSUME NEW m, Stored(m) PROVE m.of \subseteq 1..added
  <2>1. CASE \E i \in DOMAIN messages : m = messages[i]
    <3>1. added \in 0..added
      BY <1>1
    <3> QED BY <1>1, <1>3, <2>1, <3>1
  <2>2. CASE \E i \in DOMAIN compactMessages : m = compactMessages[i]
    BY <1>1, <1>2, <1>3, <2>2
  <2>3. CASE \E k \in DOMAIN running : \E i \in DOMAIN running[k] : m = running[k][i]
    <3>1. PICK k \in DOMAIN running : \E i \in DOMAIN running[k] : m = running[k][i]
      BY <2>3
    <3>2. running[k] \in Seq(Messages) /\ Sound(running[k], a)
      BY <1>1, <1>2
    <3> QED BY <1>2, <1>3, <3>1, <3>2
  <2> QED BY <1>4, <2>1, <2>2, <2>3 DEF Stored
<1>5. ASSUME messages # <<>> PROVE Stored(messages[Len(messages)])
  <2>1. Len(messages) \in DOMAIN messages
    BY <1>1, <1>5
  <2> QED BY <2>1 DEF Stored
<1> QED BY <1>4, <1>5

LEMMA StoresKeepPairs ==
  ASSUME CInv, Newest, OneKind, Pairs, NEW kinds \in Seq(Kinds), ToolsAnswer(kinds), Stores(kinds)
  PROVE  OneKind' /\ Pairs'
<1>1. added \in Nat /\ DOMAIN kinds \subseteq Nat \ {0}
  BY DEF CInv, ConvTypeOK
\* A message with one number is an old one with an old number, or a new one with a new number.
<1>2. ASSUME NEW x, Stored(x)', NEW n \in Nat, x.of = {n}
      PROVE  \/ Stored(x) /\ n <= added
             \/ \E i \in DOMAIN kinds : n = added + i /\ x.kind = kinds[i]
  <2>1. ~Several(x)
    BY <1>2 DEF Several
  <2>2. Stored(x) \/ IsNew(x, kinds)
    BY <1>2, <2>1 DEF Stores
  <2>3. CASE Stored(x)
    <3>1. n \in 1..added
      BY <1>2, <2>3, StoredBelow
    <3> QED BY <2>3, <3>1
  <2>4. CASE IsNew(x, kinds)
    BY <1>2, <2>4 DEF IsNew
  <2> QED BY <2>2, <2>3, <2>4
<1>3. OneKind'
  <2> SUFFICES ASSUME NEW x, NEW y, Stored(x)', Stored(y)', NEW n \in Nat, x.of = {n}, y.of = {n}
               PROVE  x.kind = y.kind
    BY DEF OneKind
  <2>1. \/ Stored(x) /\ n <= added
        \/ \E i \in DOMAIN kinds : n = added + i /\ x.kind = kinds[i]
    BY <1>2
  <2>2. \/ Stored(y) /\ n <= added
        \/ \E i \in DOMAIN kinds : n = added + i /\ y.kind = kinds[i]
    BY <1>2
  <2>3. CASE n <= added
    <3>1. Stored(x) /\ Stored(y)
      BY <1>1, <2>1, <2>2, <2>3
    <3> QED BY <3>1 DEF OneKind
  <2>4. CASE ~(n <= added)
    <3>1. PICK i \in DOMAIN kinds : n = added + i /\ x.kind = kinds[i]
      BY <2>1, <2>4
    <3>2. PICK j \in DOMAIN kinds : n = added + j /\ y.kind = kinds[j]
      BY <2>2, <2>4
    <3>3. i = j
      BY <1>1, <3>1, <3>2
    <3> QED BY <3>1, <3>2, <3>3
  <2> QED BY <2>3, <2>4
<1>4. Pairs'
  <2> SUFFICES ASSUME NEW x, NEW y, Stored(x)', Stored(y)', y.kind = "tool",
                      NEW n \in Nat, x.of = {n}, y.of = {n + 1}
               PROVE  x.kind = "call"
    BY DEF Pairs
  <2>1. \/ Stored(x) /\ n <= added
        \/ \E i \in DOMAIN kinds : n = added + i /\ x.kind = kinds[i]
    BY <1>2
  <2>2. n + 1 \in Nat
    OBVIOUS
  <2>3. \/ Stored(y) /\ n + 1 <= added
        \/ \E i \in DOMAIN kinds : n + 1 = added + i /\ y.kind = kinds[i]
    BY <1>2, <2>2
  <2>4. CASE n + 1 <= added
    <3>1. Stored(x) /\ Stored(y)
      BY <1>1, <2>1, <2>3, <2>4
    <3> QED BY <3>1 DEF Pairs
  <2>5. CASE ~(n + 1 <= added)
    <3>1. PICK i \in DOMAIN kinds : n + 1 = added + i /\ kinds[i] = "tool"
      BY <2>3, <2>5
    <3>2. i = 1 /\ LastKind(messages) = "call"
      BY <3>1 DEF ToolsAnswer
    <3>3. n = added
      BY <1>1, <3>1, <3>2
    <3>4. Stored(x)
      BY <1>1, <2>1, <3>3
    <3>5. messages # <<>> /\ messages[Len(messages)].kind = "call" /\ messages[Len(messages)].of = {n}
      BY <3>2, <3>3 DEF LastKind, Newest, Said
    <3>6. Stored(messages[Len(messages)])
      BY <3>5, StoredBelow
    <3> QED BY <3>4, <3>5, <3>6 DEF OneKind
  <2> QED BY <2>4, <2>5
<1> QED BY <1>3, <1>4

-----------------------------------------------------------------------------
\* What a step of the engine does to the transcript: an operation of the
\* conversation.  Tool results follow their call, and a compaction starts when
\* the transcript asks for an answer.
Effect ==
  \/ \E kinds \in Seq(Kinds) : ToolsAnswer(kinds) /\ Extend(kinds)
  \/ \E kinds \in {<<>>, <<"system", "user">>} : Replace(kinds)
  \/ Submit
  \/ \E c \in DOMAIN messages : Shrink(c)
  \/ Ends(messages) /\ Trigger
  \/ \E i \in DOMAIN running : \E r \in Outcomes(running[i]) : Complete(i, r)
  \/ Drain
  \/ UNCHANGED convVars

TInv == CInv /\ Asking /\ Newest /\ OneKind /\ Pairs

LEMMA NoTools ==
  /\ ToolsAnswer(<<>>) /\ ToolsAnswer(<<"user">>) /\ ToolsAnswer(<<"system", "user">>)
BY DEF ToolsAnswer

\* The numbers, when the last message stays or asks for an answer and nothing is added.
LEMMA NothingNew ==
  ASSUME TInv, Stores(<<>>), added' = added, SameLast \/ Ends(messages')
  PROVE  Newest' /\ OneKind' /\ Pairs'
<1>1. Newest'
  <2>1. CASE SameLast
    <3>1. LastKind(messages') = LastKind(messages)
      BY <2>1, SameLastKind
    <3>2. Said => messages # <<>> /\ messages'[Len(messages')] = messages[Len(messages)]
      BY <2>1 DEF Said, LastKind, SameLast
    <3> QED BY <3>1, <3>2 DEF TInv, Newest, Said
  <2>2. CASE Ends(messages')
    BY <2>2 DEF Newest, Said, Ends
  <2> QED BY <2>1, <2>2
<1> QED BY <1>1, StoresKeepPairs, NoTools, OneUser DEF TInv

LEMMA EffectPreserves ==
  ASSUME TInv, Effect
  PROVE  TInv' /\ [ConvNext]_convVars
<1>0. CInv /\ ConvTypeOK /\ Asking /\ running \in Seq(Seq(Messages)) /\ added \in Nat
  BY DEF TInv, CInv, ConvTypeOK
<1>1. ASSUME NEW kinds \in Seq(Kinds), ToolsAnswer(kinds), Extend(kinds)
      PROVE  TInv' /\ [ConvNext]_convVars
  <2>1. CInv' /\ Stores(kinds)
    BY <1>0, <1>1, ExtendPreserves
  <2>2. Asking'
    BY <1>0, <1>1 DEF Extend, pending, Asking, Ends
  <2>3. Newest'
    <3>1. CASE kinds = <<>>
      <4>1. messages' = messages /\ added' = added + 0
        BY <1>0, <1>1, <3>1, ExtendLast
      <4> QED BY <1>0, <4>1 DEF TInv, Newest, Said
    <3>2. CASE kinds # <<>>
      BY <1>0, <1>1, <3>2, ExtendLast DEF Newest
    <3> QED BY <3>1, <3>2
  <2>4. OneKind' /\ Pairs'
    BY <1>1, <2>1, StoresKeepPairs DEF TInv
  <2>5. ConvNext
    BY <1>0, <1>1, ExtendIsConvStep
  <2> QED BY <2>1, <2>2, <2>3, <2>4, <2>5 DEF TInv
<1>2. ASSUME NEW kinds \in {<<>>, <<"system", "user">>}, Replace(kinds)
      PROVE  TInv' /\ [ConvNext]_convVars
  <2>1. kinds \in Seq(Kinds) /\ ToolsAnswer(kinds)
    <3>1. "system" \in Kinds /\ "user" \in Kinds
      BY DEF Kinds
    <3>2. <<>> \in Seq(Kinds) /\ <<"system", "user">> \in Seq(Kinds)
      BY <3>1
    <3> QED BY <3>2, NoTools
  <2>2. CInv' /\ Stores(kinds)
    BY <1>0, <1>2, <2>1, ReplacePreserves
  <2>3. Asking'
    BY <1>0, <1>2 DEF Replace, Asking, Ends
  <2>4. LastKind(messages') \in {"none", "user"}
    <3>1. messages' = Fresh(kinds)
      BY <1>2 DEF Replace
    <3>2. CASE kinds = <<>>
      BY <3>1, <3>2 DEF Fresh, LastKind
    <3>3. CASE kinds = <<"system", "user">>
      <4>1. Len(kinds) = 2 /\ 2 \in 1..Len(kinds) /\ kinds[2] = "user"
        BY <3>3
      <4>2. Len(messages') = 2 /\ messages'[2].kind = "user" /\ messages' \in Seq(Messages)
        BY <1>0, <2>1, <3>1, <4>1, FreshProperties
      <4> QED BY <4>2 DEF LastKind
    <3> QED BY <3>2, <3>3
  <2>5. Newest'
    BY <2>4 DEF Newest, Said
  <2>6. OneKind' /\ Pairs'
    BY <2>1, <2>2, StoresKeepPairs DEF TInv
  <2>7. ConvNext
    BY <1>0, <1>2, <2>1, ReplaceIsConvStep
  <2> QED BY <2>2, <2>3, <2>5, <2>6, <2>7 DEF TInv
<1>3. CASE Submit
  <2>1. CInv' /\ Stores(<<"user">>) /\ <<"user">> \in Seq(Kinds)
    BY <1>0, <1>3, SubmitPreserves, OneUser
  <2>2. Asking'
    BY <1>0, <1>3 DEF Submit, pending, Asking, Ends
  <2>3. Newest'
    BY <1>0, <1>3, SubmitLast DEF Newest, Said, Ends
  <2>4. OneKind' /\ Pairs'
    BY <2>1, StoresKeepPairs, NoTools DEF TInv
  <2> QED BY <1>3, <2>1, <2>2, <2>3, <2>4 DEF TInv, ConvNext
<1>4. ASSUME NEW c \in DOMAIN messages, Shrink(c)
      PROVE  TInv' /\ [ConvNext]_convVars
  <2>1. CInv' /\ Stores(<<>>)
    BY <1>0, <1>4, ShrinkPreserves
  <2>2. Asking' /\ added' = added
    BY <1>0, <1>4 DEF Shrink, pending, Asking, Ends
  <2>3. Newest' /\ OneKind' /\ Pairs'
    BY <1>0, <1>4, <2>1, <2>2, ShrinkLast, NothingNew
  <2> QED BY <1>4, <2>1, <2>2, <2>3 DEF TInv, ConvNext
<1>5. ASSUME Ends(messages), Trigger
      PROVE  TInv' /\ [ConvNext]_convVars
  <2>1. CInv' /\ Stores(<<>>)
    BY <1>0, <1>5, TriggerPreserves
  <2>2. messages' = messages /\ added' = added /\ compactMessages' = compactMessages
        /\ (running' = running \/ running' = Append(running, messages))
    BY <1>5 DEF Trigger, pending
  <2>3. \A k \in DOMAIN running' : (k \in DOMAIN running /\ running'[k] = running[k]) \/ running'[k] = messages
    <3>1. messages \in Seq(Messages)
      BY <1>0 DEF ConvTypeOK
    <3>2. CASE running' = running
      BY <3>2
    <3>3. CASE running' = Append(running, messages)
      BY <1>0, <3>1, <3>3
    <3> QED BY <2>2, <3>2, <3>3
  <2>4. Asking'
    BY <1>0, <1>5, <2>2, <2>3 DEF Asking
  <2>5. Newest' /\ OneKind' /\ Pairs'
    BY <2>1, <2>2, NothingNew DEF SameLast
  <2> QED BY <1>5, <2>1, <2>4, <2>5 DEF TInv, ConvNext
<1>6. ASSUME NEW i \in DOMAIN running, NEW r \in Outcomes(running[i]), Complete(i, r)
      PROVE  TInv' /\ [ConvNext]_convVars
  <2>1. CInv' /\ Stores(<<>>)
    BY <1>0, <1>6, CompletePreserves
  <2>2. messages' = messages /\ added' = added /\ compactMessages' = r /\ running' = RemoveAt(running, i)
    BY <1>6 DEF Complete
  <2>3. \A k \in DOMAIN running' : \E j \in DOMAIN running : running'[k] = running[j]
    <3>1. i \in 1..Len(running) /\ Len(running) \in Nat /\ DOMAIN running = 1..Len(running)
      BY <1>0
    <3>2. /\ running' \in Seq(Seq(Messages)) /\ Len(running') = Len(running) - 1
          /\ \A k \in 1..Len(running') : running'[k] = IF k < i THEN running[k] ELSE running[k + 1]
      BY <1>0, <2>2, <3>1, SpliceIndexed
    <3>3. \A k \in 1..Len(running') : k \in DOMAIN running /\ k + 1 \in DOMAIN running
      BY <3>1, <3>2
    <3>4. DOMAIN running' = 1..Len(running')
      BY <3>2
    <3> QED BY <3>2, <3>3, <3>4
  <2>4. r # <<>> => Ends(r)
    <3>1. running[i] \in Seq(Messages)
      BY <1>0
    <3>2. r # <<>> => Len(running[i]) >= 1 /\ r[Len(r)] = running[i][Len(running[i])]
      BY <3>1, OutcomeProperties
    <3>3. Ends(running[i])
      BY <1>0 DEF Asking
    <3>4. r # <<>> => running[i] # <<>>
      BY <3>1, <3>2
    <3> QED BY <3>2, <3>3, <3>4 DEF Ends, LastKind
  <2>5. Asking'
    BY <1>0, <2>2, <2>3, <2>4 DEF Asking
  <2>6. Newest' /\ OneKind' /\ Pairs'
    BY <2>1, <2>2, NothingNew DEF SameLast
  <2> QED BY <1>6, <2>1, <2>5, <2>6 DEF TInv, ConvNext
<1>7. CASE Drain
  <2>1. CInv' /\ Stores(<<>>)
    BY <1>0, <1>7, DrainPreserves
  <2>2. added' = added /\ running' = running /\ compactMessages' \in {<<>>, compactMessages}
    BY <1>7 DEF Drain, convVars
  <2>3. Asking'
    BY <1>0, <2>2 DEF Asking
  <2>4. SameLast \/ Ends(messages')
    BY <1>0, <1>7, DrainLast
  <2>5. Newest' /\ OneKind' /\ Pairs'
    BY <2>1, <2>2, <2>4, NothingNew
  <2> QED BY <1>7, <2>1, <2>3, <2>5 DEF TInv, ConvNext
<1>8. CASE UNCHANGED convVars
  <2>1. CInv' /\ Stores(<<>>)
    BY <1>0, <1>8, StutterPreserves
  <2>2. messages' = messages /\ added' = added /\ running' = running /\ compactMessages' = compactMessages
    BY <1>8 DEF convVars
  <2>3. Asking'
    BY <1>0, <2>2 DEF Asking
  <2>4. Newest' /\ OneKind' /\ Pairs'
    BY <2>1, <2>2, NothingNew DEF SameLast
  <2> QED BY <1>8, <2>1, <2>3, <2>4 DEF TInv
<1> QED BY <1>1, <1>2, <1>3, <1>4, <1>5, <1>6, <1>7, <1>8 DEF Effect

-----------------------------------------------------------------------------
USE TurnsAssumption, RetriesAssumption

\* The control of the loop, whatever the transcript holds: the sizes of its
\* counters and queues, which states it has at which places, and the turns.
Limit == IF Ceiling > MaxTurns THEN Ceiling ELSE MaxTurns
Most(p, m) == IF p >= m THEN p + 1 ELSE m

Sizes ==
  /\ turnCount \in Nat /\ maxTurns \in Nat /\ planTurn \in Nat /\ batches \in Nat
  /\ Ceiling > 0 => maxTurns <= Limit
  /\ steers \in Nat /\ queued \in 0..MaxQueued /\ followUps \in 0..queued
  /\ zeroPatch \in 0..MaxZeroPatch /\ typeCheck \in 0..MaxTypeCheck /\ verification \in 0..MaxVerification
  /\ attempt \in 0..(MaxRetries + 1)

Flags == aborted \in BOOLEAN /\ conversational \in BOOLEAN /\ modified \in BOOLEAN /\ overflowed \in BOOLEAN

Shape ==
  /\ at \in Places
  /\ at = "out" => state \in {"idle", "completed", "error"}
  /\ at = "top" => state \in {"idle", "planning", "compacting", "streaming", "deciding", "executing"}
  /\ at \in {"asking", "waiting"} => state \in {"planning", "streaming"}
  /\ at = "tools" => state = "executing"
  /\ at = "waiting" => attempt <= MaxRetries

Turns ==
  /\ at = "out" \/ state \in {"idle", "planning", "compacting"} => turnCount = 0 /\ batches = 0
  /\ at # "out" /\ state \in {"streaming", "executing"} => turnCount < Most(planTurn, maxTurns) + batches
  /\ turnCount <= Most(planTurn, maxTurns) + batches

Control == Sizes /\ Flags /\ Shape /\ Turns


LEMMA MostIsNumber ==
  ASSUME NEW p \in Nat, NEW m \in Nat
  PROVE  Most(p, m) \in Nat /\ 0 <= Most(p, m) + 0
BY DEF Most

\* The steers a turn queues are a number of them.
LEMMA RemindersAreNumbers ==
  ASSUME NEW n, NEW last
  PROVE  Reminders(n, last) \in Nat
<1>1. /\ (IF n = 1 /\ maxTurns > LongQuery THEN 1 ELSE 0) \in Nat
      /\ (IF n + LastTurns = maxTurns /\ maxTurns > LongQuery THEN 1 ELSE 0) \in Nat
      /\ (IF n < MinTurns /\ last = "assistant" THEN 1 ELSE 0) \in Nat
  BY Zenon
<1>2. \A a, b, c \in Nat : a + b + c \in Nat
  OBVIOUS
<1> QED BY <1>1, <1>2 DEF Reminders

\* What no action touches unless it says so.
restSizes == <<planTurn, steers, queued, followUps, zeroPatch, typeCheck, verification>>
flags     == <<aborted, conversational, modified>>

\* The loop ends: nothing of the query is left.
LEMMA EndControlled ==
  ASSUME Control, NEW s \in {"completed", "error"}, EndIn(s),
         planTurn' \in Nat, UNCHANGED <<steers, queued, followUps, zeroPatch, typeCheck, verification>>,
         UNCHANGED flags
  PROVE  Control'
<1>1. state' = s /\ at' = "out" /\ turnCount' = 0 /\ maxTurns' = 0 /\ batches' = 0 /\ attempt' = 0
      /\ overflowed' = FALSE
  BY DEF EndIn
<1>2. Limit \in Nat
  BY DEF Limit
<1>3. Sizes'
  BY <1>1, <1>2 DEF Control, Sizes
<1>4. Flags'
  BY <1>1 DEF Control, Flags, flags
<1>5. Shape'
  BY <1>1 DEF Shape, Places
<1>6. Turns'
  <2>1. Most(planTurn', maxTurns') \in Nat /\ 0 <= Most(planTurn', maxTurns') + 0
    BY <1>1, MostIsNumber
  <2> QED BY <1>1, <2>1 DEF Turns
<1> QED BY <1>3, <1>4, <1>5, <1>6 DEF Control

\* The loop goes on within a turn: the counts of the turn stay, or the retry is counted.
LEMMA SameTurnControlled ==
  ASSUME Control, UNCHANGED <<turnCount, maxTurns, batches, restSizes, flags>>,
         attempt' \in 0..(MaxRetries + 1), overflowed' \in BOOLEAN, Shape', Turns'
  PROVE  Control'
<1>1. Sizes'
  BY DEF Control, Sizes, restSizes
<1>2. Flags'
  BY DEF Control, Flags, flags
<1> QED BY <1>1, <1>2 DEF Control

LEMMA TurnEndsControlled ==
  ASSUME Control, at \in {"asking", "waiting"}, NEW answer, TurnEnds(answer)
  PROVE  Control'
<1>1. /\ at' = "top" /\ attempt' = 0 /\ overflowed' = FALSE
      /\ UNCHANGED <<batches, followUps, conversational, modified, aborted, zeroPatch, typeCheck, verification, queued>>
  BY DEF TurnEnds, queryVars, gateVars, userVars
<1>2. Flags'
  BY <1>1 DEF Control, Flags
<1>3. CASE state = "planning"
  <2>1. PICK complete \in BOOLEAN :
          /\ planTurn' = planTurn + 1
          /\ turnCount' = IF complete /\ ~PlanExempt THEN turnCount + planTurn' ELSE turnCount
          /\ state' = IF PlanOver(complete) THEN "streaming" ELSE "planning"
          /\ UNCHANGED <<maxTurns, steers>>
    BY <1>3 DEF TurnEnds, PlanTurnEnds, Completes
  <2>2. turnCount = 0 /\ batches = 0 /\ batches' = 0 /\ planTurn \in Nat
    BY <1>1, <1>3 DEF Control, Turns, Sizes
  <2>3. turnCount' \in Nat /\ turnCount' <= planTurn + 1 /\ planTurn' \in Nat
    BY <2>1, <2>2
  <2>4. Sizes'
    BY <1>1, <2>1, <2>3 DEF Control, Sizes
  <2>5. state' \in {"planning", "streaming"}
    BY <2>1
  <2>6. Shape'
    BY <1>1, <2>5 DEF Shape, Places
  <2>7. state' = "planning" => turnCount' = 0
    BY <2>1, <2>2 DEF PlanOver
  <2>8. turnCount' < Most(planTurn', maxTurns')
    BY <2>1, <2>2, <2>3, <2>4 DEF Most, Sizes
  <2>9. Most(planTurn', maxTurns') \in Nat
    BY <2>3, <2>4, MostIsNumber DEF Sizes
  <2>10. turnCount' < Most(planTurn', maxTurns') + batches' /\ turnCount' <= Most(planTurn', maxTurns') + batches'
    BY <2>2, <2>3, <2>8, <2>9
  <2>11. Turns'
    BY <1>1, <2>2, <2>5, <2>7, <2>10 DEF Turns
  <2> QED BY <1>2, <2>4, <2>6, <2>11 DEF Control
<1>4. CASE state # "planning"
  <2>1. /\ turnCount' = turnCount + 1
        /\ maxTurns' \in BudgetAfter(turnCount', LastKind(messages \o Fresh(answer)))
        /\ \E last : steers' = steers + Reminders(turnCount', last)
        /\ state' = "deciding" /\ planTurn' = planTurn
    BY <1>4 DEF TurnEnds, StreamTurnEnds
  <2>2. state = "streaming" /\ turnCount < Most(planTurn, maxTurns) + batches /\ Most(planTurn, maxTurns) \in Nat
    BY <1>4 DEF Control, Shape, Turns, Most, Sizes, Limit
  <2>3. maxTurns' \in Nat /\ maxTurns' >= maxTurns /\ (Ceiling > 0 => maxTurns' <= Limit)
    <3>1. CASE maxTurns' = maxTurns
      BY <3>1 DEF Control, Sizes
    <3>2. CASE maxTurns' = Capped(maxTurns + Extension) /\ ~(Ceiling > 0 /\ maxTurns >= Ceiling)
      BY <3>2 DEF Control, Sizes, Limit, Lesser, Capped
    <3> QED BY <2>1, <3>1, <3>2, Zenon DEF BudgetAfter
  <2>4. steers' \in Nat
    BY <2>1, RemindersAreNumbers DEF Control, Sizes
  <2>5. Sizes'
    BY <1>1, <2>1, <2>3, <2>4 DEF Control, Sizes
  <2>6. Shape'
    BY <1>1, <2>1 DEF Shape, Places
  <2>7. Most(planTurn', maxTurns') \in Nat /\ Most(planTurn', maxTurns') >= Most(planTurn, maxTurns)
    BY <2>1, <2>3 DEF Most, Control, Sizes
  <2>8. turnCount' <= Most(planTurn', maxTurns') + batches'
    BY <1>1, <2>1, <2>2, <2>7 DEF Control, Sizes
  <2>9. Turns'
    BY <1>1, <2>1, <2>8 DEF Turns
  <2> QED BY <1>2, <2>5, <2>6, <2>9 DEF Control
<1> QED BY <1>3, <1>4

\* One step per action of the loop.
LEMMA LoopControlled ==
  ASSUME Control, Loop
  PROVE  Control'
<1> USE DEF loopVars, askVars, queueVars, restVars, queryVars, gateVars, userVars
<1>1. CASE TopAborted
  BY <1>1, EndControlled DEF TopAborted, Control, Sizes, flags
<1>2. CASE Idle
  <2>1. /\ at = "top" /\ at' = "top" /\ state = "idle" /\ state' \in {"planning", "compacting"}
        /\ UNCHANGED <<turnCount, maxTurns, batches, attempt, overflowed, restSizes, flags>>
    BY <1>2 DEF Idle, AtTop, restSizes, flags
  <2>2. Shape' /\ Turns'
    BY <2>1 DEF Control, Shape, Turns, Most, restSizes
  <2> QED BY <2>1, <2>2, SameTurnControlled DEF Control, Sizes, Flags
<1>3. CASE Compacting
  <2>1. /\ at = "top" /\ at' = "top" /\ state = "compacting" /\ state' = "streaming"
        /\ UNCHANGED <<turnCount, maxTurns, batches, attempt, overflowed, restSizes, flags>>
    BY <1>3 DEF Compacting, AtTop, restSizes, flags
  <2>2. Shape' /\ Turns'
    BY <2>1 DEF Control, Shape, Turns, Most, restSizes, Limit, Sizes
  <2> QED BY <2>1, <2>2, SameTurnControlled DEF Control, Sizes, Flags
<1>4. CASE PlanTurn
  <2>1. /\ at = "top" /\ at' = "asking" /\ state = "planning" /\ state' = "planning"
        /\ UNCHANGED <<turnCount, maxTurns, batches, attempt, overflowed, restSizes, flags>>
    BY <1>4 DEF PlanTurn, AtTop, restSizes, flags
  <2>2. Shape' /\ Turns'
    BY <2>1 DEF Control, Shape, Turns, Most, restSizes, Places
  <2> QED BY <2>1, <2>2, SameTurnControlled DEF Control, Sizes, Flags
<1>5. CASE PlanOverBudget
  <2>1. PICK s \in {"completed", "error"} : EndIn(s)
    BY <1>5 DEF PlanOverBudget
  <2>2. /\ planTurn' \in Nat
        /\ UNCHANGED <<steers, queued, followUps, zeroPatch, typeCheck, verification, flags>>
    BY <1>5 DEF PlanOverBudget, Control, Sizes, flags
  <2> QED BY <2>1, <2>2, EndControlled
<1>6. CASE Streaming
  <2>1. /\ at = "top" /\ at' = "asking" /\ state = "streaming" /\ state' = "streaming"
        /\ UNCHANGED <<turnCount, maxTurns, batches, attempt, overflowed, restSizes, flags>>
    BY <1>6 DEF Streaming, AtTop, restSizes, flags
  <2>2. Shape' /\ Turns'
    BY <2>1 DEF Control, Shape, Turns, Most, restSizes, Places
  <2> QED BY <2>1, <2>2, SameTurnControlled DEF Control, Sizes, Flags
<1>7. CASE OverBudget
  BY <1>7, EndControlled DEF OverBudget, Control, Sizes, flags
<1>8. CASE Ask
  <2>1. CASE aborted
    BY <1>8, <2>1, EndControlled DEF Ask, Control, Sizes, flags
  <2>2. CASE ~aborted
    <3>1. /\ at = "asking" /\ at' = "waiting" /\ state' = state /\ attempt <= MaxRetries
          /\ UNCHANGED <<turnCount, maxTurns, batches, attempt, overflowed, restSizes, flags>>
      BY <1>8, <2>2 DEF Ask, restSizes, flags
    <3>2. Shape' /\ Turns'
      BY <3>1 DEF Control, Shape, Turns, Most, restSizes, Places
    <3> QED BY <3>1, <3>2, SameTurnControlled DEF Control, Sizes, Flags
  <2> QED BY <2>1, <2>2
<1>9. ASSUME NEW kind \in {"assistant", "call"}, Answer(kind) PROVE Control'
  BY <1>9, TurnEndsControlled DEF Answer
<1>10. CASE NoAnswer
  BY <1>10, TurnEndsControlled DEF NoAnswer
<1>11. CASE Retry
  <2>1. /\ at = "waiting" /\ at' = "asking" /\ state' = state /\ attempt < MaxRetries /\ attempt' = attempt + 1
        /\ UNCHANGED <<turnCount, maxTurns, batches, overflowed, restSizes, flags>>
    BY <1>11 DEF Retry, restSizes, flags
  <2>2. Shape' /\ Turns'
    BY <2>1 DEF Control, Shape, Turns, Most, restSizes, Places
  <2>3. attempt' \in 0..(MaxRetries + 1)
    BY <2>1 DEF Control, Sizes
  <2> QED BY <2>1, <2>2, <2>3, SameTurnControlled DEF Control, Flags
<1>12. CASE Fail
  BY <1>12, EndControlled DEF Fail, Control, Sizes, flags
<1>13. ASSUME NEW c \in DOMAIN messages, Overflow(c) PROVE Control'
  <2>1. /\ at = "waiting" /\ at' = "asking" /\ state' = state /\ attempt' = attempt + 1 /\ overflowed' = TRUE
        /\ UNCHANGED <<turnCount, maxTurns, batches, restSizes, flags>>
    BY <1>13 DEF Overflow, restSizes, flags
  <2>2. Shape' /\ Turns'
    BY <2>1 DEF Control, Shape, Turns, Most, restSizes, Places
  <2>3. attempt' \in 0..(MaxRetries + 1)
    BY <2>1 DEF Control, Sizes, Shape
  <2> QED BY <2>1, <2>2, <2>3, SameTurnControlled
<1>14. CASE Continue
  <2>1. PICK v \in Verdicts : v.on /\ Gate(v.gate)
    BY <1>14 DEF Continue
  <2>2. /\ at = "top" /\ at' = "top" /\ state = "deciding" /\ state' = "executing"
        /\ UNCHANGED <<turnCount, maxTurns, batches, attempt, overflowed, followUps, planTurn, queued, flags>>
    BY <1>14 DEF Continue, AtTop, flags
  <2>3. turnCount < maxTurns
    <3>1. CASE turnCount >= maxTurns
      BY <2>1, <3>1 DEF Verdicts, Go
    <3> QED BY <3>1 DEF Control, Sizes
  <2>4. /\ v.gate = "zeroPatch" => zeroPatch < MaxZeroPatch
        /\ v.gate = "typeCheck" => typeCheck < MaxTypeCheck
        /\ v.gate = "verification" => verification < MaxVerification
    <3>1. v \in ExitGates \/ v \in CallGates \/ v.gate = "none"
      BY <2>1 DEF Verdicts, Go
    <3>2. CASE v \in ExitGates
      BY <3>2 DEF ExitGates, Go
    <3>3. CASE v \in CallGates
      BY <3>3 DEF CallGates, Go
    <3> QED BY <3>1, <3>2, <3>3
  <2>5. /\ zeroPatch' \in 0..MaxZeroPatch /\ typeCheck' \in 0..MaxTypeCheck /\ verification' \in 0..MaxVerification
        /\ steers' \in Nat
    <3>1. /\ zeroPatch \in 0..MaxZeroPatch /\ typeCheck \in 0..MaxTypeCheck /\ verification \in 0..MaxVerification
          /\ steers \in Nat
      BY DEF Control, Sizes
    <3> QED BY <2>1, <2>4, <3>1 DEF Gate
  <2>6. Sizes'
    BY <2>2, <2>5 DEF Control, Sizes
  <2>7. Flags'
    BY <2>2 DEF Control, Flags, flags
  <2>8. Shape'
    BY <2>2 DEF Shape, Places
  <2>9. Turns'
    BY <2>2, <2>3 DEF Control, Turns, Sizes, Most, Limit
  <2> QED BY <2>6, <2>7, <2>8, <2>9 DEF Control
<1>15. CASE FollowUp
  <2>1. /\ at = "top" /\ at' = "top" /\ state = "deciding" /\ state' = "streaming"
        /\ followUps' = 0 /\ batches' = batches + 1
        /\ UNCHANGED <<turnCount, maxTurns, attempt, overflowed, steers, planTurn, zeroPatch, typeCheck, verification,
                       queued, flags>>
    BY <1>15 DEF FollowUp, Stops, AtTop, flags
  <2>2. Sizes'
    BY <2>1 DEF Control, Sizes
  <2>3. Flags'
    BY <2>1 DEF Control, Flags, flags
  <2>4. Shape'
    BY <2>1 DEF Shape, Places
  <2>5. Turns'
    BY <2>1 DEF Control, Turns, Sizes, Most, Limit
  <2> QED BY <2>2, <2>3, <2>4, <2>5 DEF Control
<1>16. CASE Done
  BY <1>16, EndControlled DEF Done, Control, Sizes, flags
<1>17. CASE RunTools
  <2>1. /\ at = "top" /\ at' = "tools" /\ state = "executing" /\ state' = "executing"
        /\ UNCHANGED <<turnCount, maxTurns, batches, attempt, overflowed, restSizes, flags>>
    BY <1>17 DEF RunTools, AtTop, restSizes, flags
  <2>2. Shape' /\ Turns'
    BY <2>1 DEF Control, Shape, Turns, Most, restSizes, Places
  <2> QED BY <2>1, <2>2, SameTurnControlled DEF Control, Sizes, Flags
<1>18. ASSUME NothingToRun \/ \E wrote \in BOOLEAN : ToolsSettled(wrote) PROVE Control'
  <2>1. /\ at \in {"top", "tools"} /\ at' = "top" /\ state = "executing" /\ state' = "streaming" /\ steers' = 0
        /\ UNCHANGED <<turnCount, maxTurns, batches, attempt, overflowed, followUps, planTurn,
                       zeroPatch, typeCheck, verification, queued>>
    BY <1>18 DEF NothingToRun, ToolsSettled, ThenSteers, AtTop, Control, Shape
  <2>2. Flags'
    BY <1>18 DEF NothingToRun, ToolsSettled, ThenSteers, Control, Flags
  <2>3. Sizes'
    BY <2>1 DEF Control, Sizes
  <2>4. Shape'
    BY <2>1 DEF Shape, Places
  <2>5. Turns'
    BY <2>1 DEF Control, Turns, Most
  <2> QED BY <2>2, <2>3, <2>4, <2>5 DEF Control
<1> QED BY <1>1, <1>2, <1>3, <1>4, <1>5, <1>6, <1>7, <1>8, <1>9, <1>10, <1>11, <1>12, <1>13,
           <1>14, <1>15, <1>16, <1>17, <1>18 DEF Loop

\* One step per act of the user and of the background call.
LEMMA OutsideControlled ==
  ASSUME Control, Outside
  PROVE  Control'
<1> USE DEF loopVars, askVars, queueVars, restVars, queryVars, gateVars, userVars
<1>1. ASSUME NEW talk \in BOOLEAN, NEW budget \in Budgets(talk), SubmitMessage(talk, budget)
      PROVE  Control'
  <2>1. /\ at = "out" /\ at' = "top" /\ state' = "idle" /\ turnCount' = 0 /\ maxTurns' = budget
        /\ aborted' = FALSE /\ conversational' = talk
        /\ zeroPatch' = 0 /\ typeCheck' = 0 /\ verification' = 0
        /\ UNCHANGED <<batches, attempt, overflowed, planTurn, steers, followUps, modified, queued>>
    BY <1>1 DEF SubmitMessage
  <2>2. budget \in Nat /\ (Ceiling > 0 => budget <= Limit)
    BY DEF Budgets, Capped, Lesser, Limit
  <2>3. batches = 0
    BY <2>1 DEF Control, Turns
  <2>4. Sizes'
    BY <2>1, <2>2 DEF Control, Sizes
  <2>5. Flags'
    BY <2>1 DEF Control, Flags
  <2>6. Shape'
    BY <2>1 DEF Shape, Places
  <2>7. Turns'
    BY <2>1, <2>2, <2>3 DEF Control, Turns, Sizes, Most, Limit
  <2> QED BY <2>4, <2>5, <2>6, <2>7 DEF Control
<1>2. CASE Abort
  <2>1. /\ aborted' = TRUE
        /\ UNCHANGED <<at, state, turnCount, maxTurns, batches, attempt, overflowed, restSizes, conversational, modified>>
    BY <1>2 DEF Abort, restSizes
  <2> QED BY <2>1 DEF Control, Sizes, Flags, Shape, Turns, Most, restSizes
<1>3. CASE Steer \/ QueueFollowUp
  <2>1. /\ queued < MaxQueued /\ queued' = queued + 1
        /\ \/ steers' = steers + 1 /\ followUps' = followUps
           \/ steers' = steers /\ followUps' = followUps + 1
        /\ UNCHANGED <<at, state, turnCount, maxTurns, batches, attempt, overflowed, planTurn,
                       zeroPatch, typeCheck, verification, flags>>
    BY <1>3 DEF Steer, QueueFollowUp, flags
  <2>2. Sizes'
    BY <2>1 DEF Control, Sizes
  <2> QED BY <2>1, <2>2 DEF Control, Flags, flags, Shape, Turns, Most
<1>4. CASE CompactionEnds
  <2>1. UNCHANGED <<at, state, turnCount, maxTurns, batches, attempt, overflowed, restSizes, flags>>
    BY <1>4 DEF CompactionEnds, restSizes, flags
  <2> QED BY <2>1 DEF Control, Sizes, Flags, Shape, Turns, Most, restSizes, flags
<1>5. ASSUME NEW kinds, NewSession(kinds) PROVE Control'
  <2>1. /\ at = "out" /\ at' = "out" /\ state' = "idle" /\ aborted' = FALSE /\ modified' = FALSE
        /\ steers' = 0 /\ followUps' = 0 /\ planTurn' = 0
        /\ zeroPatch' = 0 /\ typeCheck' = 0 /\ verification' = 0
        /\ UNCHANGED <<turnCount, maxTurns, batches, attempt, overflowed, conversational, queued>>
    BY <1>5 DEF NewSession
  <2>2. Sizes'
    BY <2>1 DEF Control, Sizes
  <2>3. Flags'
    BY <2>1 DEF Control, Flags
  <2>4. Shape'
    BY <2>1 DEF Shape, Places
  <2>5. Turns'
    BY <2>1 DEF Control, Turns, Sizes, Most, Limit
  <2> QED BY <2>2, <2>3, <2>4, <2>5 DEF Control
<1> QED BY <1>1, <1>2, <1>3, <1>4, <1>5 DEF Outside

-----------------------------------------------------------------------------
\* The loop asks only when something new was said since the last answer: what
\* holds at each place of the loop, so that it does.  A planning turn and the
\* first turn after the planning phase are exempt.
Exempt == PlanTurns > 0 /\ ~conversational /\ turnCount <= planTurn

News ==
  /\ at = "top" /\ state \in {"idle", "compacting"} => Ends(messages)
  /\ at # "out" /\ state = "planning" => PlanTurns > 0 /\ ~conversational
  /\ at # "out" /\ state = "streaming" /\ ~Exempt => ~Said
  /\ state = "deciding" /\ ~conversational /\ turnCount < MinTurns /\ LastKind(messages) = "assistant"
       => steers > 0
  /\ at = "top" /\ state = "executing" /\ LastKind(messages) = "assistant" => steers > 0
  /\ at = "tools" => LastKind(messages) = "call"

EInv == Control /\ TInv /\ News

-----------------------------------------------------------------------------
\* The messages the engine adds itself: all kinds but a tool result.
Spoken == Kinds \ {"tool"}

LEMMA SpokenKinds ==
  /\ Seq(Spoken) \subseteq Seq(Kinds)
  /\ \A kinds \in Seq(Spoken) : ToolsAnswer(kinds)
  /\ \A p, q \in Seq(Spoken) : p \o q \in Seq(Spoken)
  /\ <<>> \in Seq(Spoken) /\ <<"user">> \in Seq(Spoken)
  /\ <<"assistant">> \in Seq(Spoken) /\ <<"call">> \in Seq(Spoken)
  /\ \A n \in Nat : Users(n) \in Seq(Spoken)
  /\ \A n : Checkpoint(n) \in Seq(Spoken)
  /\ PlanningPrompt \in Seq(Spoken)
  /\ \A c : Findings(c) \subseteq Seq(Spoken)
<1>1. Seq(Spoken) \subseteq Seq(Kinds)
  BY DEF Spoken
<1>2. \A kinds \in Seq(Spoken) : ToolsAnswer(kinds)
  BY DEF Spoken, ToolsAnswer
<1>3. \A p, q \in Seq(Spoken) : p \o q \in Seq(Spoken)
  BY ConcatProperties
<1>4. {"user", "system", "assistant", "call"} \subseteq Spoken
  BY DEF Spoken, Kinds
<1>5. /\ <<>> \in Seq(Spoken) /\ <<"user">> \in Seq(Spoken) /\ <<"system">> \in Seq(Spoken)
      /\ <<"assistant">> \in Seq(Spoken) /\ <<"call">> \in Seq(Spoken)
  BY <1>4
<1>6. \A n \in Nat : Users(n) \in Seq(Spoken)
  <2> SUFFICES ASSUME NEW n \in Nat PROVE Users(n) \in Seq(Spoken)
    OBVIOUS
  <2>1. Users(n) \in [1..n -> Spoken]
    BY <1>4 DEF Users
  <2> QED BY <2>1
<1>7. \A n : Checkpoint(n) \in Seq(Spoken)
  BY <1>5 DEF Checkpoint
<1>8. PlanningPrompt \in Seq(Spoken)
  BY <1>5 DEF PlanningPrompt
<1>9. \A c : Findings(c) \subseteq Seq(Spoken)
  BY <1>5 DEF Findings
<1> QED BY <1>1, <1>2, <1>3, <1>5, <1>6, <1>7, <1>8, <1>9

\* Users are last if there are any.
LEMMA UsersLast ==
  ASSUME NEW n \in Nat
  PROVE  /\ n = 0 => Users(n) = <<>>
         /\ n > 0 => Users(n) # <<>> /\ Users(n)[Len(Users(n))] = "user"
<1>1. Users(n) \in [1..n -> {"user"}]
  BY DEF Users
<1>2. Len(Users(n)) = n /\ \A i \in 1..n : Users(n)[i] = "user"
  BY <1>1
<1>3. CASE n = 0
  BY <1>1, <1>3
<1>4. CASE n > 0
  BY <1>1, <1>2, <1>4
<1> QED BY <1>3, <1>4

LEMMA SpokenEffect ==
  ASSUME NEW kinds \in Seq(Spoken), Extend(kinds)
  PROVE  Effect
<1>1. kinds \in Seq(Kinds) /\ ToolsAnswer(kinds)
  BY SpokenKinds
<1> QED BY <1>1 DEF Effect

\* A tool result, with the steers that follow it.
LEMMA ResultKinds ==
  ASSUME NEW n \in Nat, LastKind(messages) = "call"
  PROVE  LET kinds == <<"tool">> \o Users(n)
         IN  /\ kinds \in Seq(Kinds) /\ ToolsAnswer(kinds)
             /\ kinds # <<>> /\ kinds[Len(kinds)] \in {"tool", "user"}
<1>1. PICK u \in Seq(Kinds) : u = Users(n) /\ Len(u) = n /\ \A i \in 1..n : u[i] = "user"
  <2>1. Users(n) \in [1..n -> {"user"}] /\ "user" \in Kinds
    BY DEF Users, Kinds
  <2> QED BY <2>1
<1>2. PICK k \in Seq(Kinds) : k = <<"tool">> \o u
  <2>1. <<"tool">> \in Seq(Kinds)
    BY DEF Kinds
  <2> QED BY <1>1, <2>1, ConcatProperties
<1>3. Len(k) = n + 1 /\ \A i \in 1..Len(k) : k[i] = IF i <= 1 THEN "tool" ELSE u[i - 1]
  <2>1. <<"tool">> \in Seq({"tool"}) /\ Len(<<"tool">>) = 1 /\ <<"tool">>[1] = "tool"
    OBVIOUS
  <2> QED BY <1>1, <1>2, <2>1
<1>4. \A i \in 1..Len(k) : k[i] = IF i <= 1 THEN "tool" ELSE "user"
  BY <1>1, <1>3
<1>5. ToolsAnswer(k)
  BY <1>4 DEF ToolsAnswer
<1>6. k # <<>> /\ k[Len(k)] \in {"tool", "user"}
  BY <1>3, <1>4
<1> QED BY <1>1, <1>2, <1>5, <1>6

\* The end of a turn that added an answer, or none.
LEMMA TurnEndsEffect ==
  ASSUME NEW answer \in Seq(Spoken), TurnEnds(answer)
  PROVE  Effect
<1>1. CASE state = "planning"
  <2>1. PICK findings \in Seq(Spoken) : Extend(answer \o findings)
    <3>1. \E complete : \E findings \in Findings(complete) : Extend(answer \o findings)
      BY <1>1 DEF TurnEnds, PlanTurnEnds
    <3> QED BY <3>1, SpokenKinds
  <2>2. answer \o findings \in Seq(Spoken)
    BY SpokenKinds
  <2> QED BY <2>1, <2>2, SpokenEffect
<1>2. CASE state # "planning"
  <2>1. Extend(answer \o Checkpoint(turnCount + 1))
    BY <1>2 DEF TurnEnds, StreamTurnEnds
  <2>2. answer \o Checkpoint(turnCount + 1) \in Seq(Spoken)
    BY SpokenKinds
  <2> QED BY <2>1, <2>2, SpokenEffect
<1> QED BY <1>1, <1>2

\* One step per action of the loop.
LEMMA LoopEffect ==
  ASSUME EInv, Loop
  PROVE  Effect
<1>0. ConvTypeOK /\ steers \in Nat /\ followUps \in Nat
  BY DEF EInv, TInv, CInv, Control, Sizes
<1>1. CASE TopAborted
  BY <1>1 DEF TopAborted, Effect
<1>2. CASE Idle
  BY <1>2 DEF Idle, Effect
<1>3. CASE Compacting
  <2>1. Ends(messages)
    BY <1>3 DEF Compacting, AtTop, EInv, News
  <2> QED BY <1>3, <2>1 DEF Compacting, Effect
<1>4. CASE PlanTurn
  <2>1. Extend(PlanningPrompt)
    BY <1>4 DEF PlanTurn
  <2> QED BY <2>1, SpokenKinds, SpokenEffect
<1>5. CASE PlanOverBudget
  <2>1. PICK findings \in Seq(Spoken) : Extend(PlanningPrompt \o findings)
    <3>1. \E complete : \E findings \in Findings(complete) : Extend(PlanningPrompt \o findings)
      BY <1>5 DEF PlanOverBudget
    <3> QED BY <3>1, SpokenKinds
  <2>2. PlanningPrompt \o findings \in Seq(Spoken)
    BY SpokenKinds
  <2> QED BY <2>1, <2>2, SpokenEffect
<1>6. CASE Streaming \/ OverBudget
  BY <1>6 DEF Streaming, OverBudget, Effect
<1>7. CASE Ask
  BY <1>7 DEF Ask, Effect
<1>8. ASSUME NEW kind \in {"assistant", "call"}, Answer(kind) PROVE Effect
  <2>1. TurnEnds(<<kind>>) /\ <<kind>> \in {<<"assistant">>, <<"call">>}
    BY <1>8 DEF Answer
  <2>2. <<kind>> \in Seq(Spoken)
    BY <2>1, SpokenKinds
  <2> QED BY <2>1, <2>2, TurnEndsEffect
<1>9. CASE NoAnswer
  <2>1. TurnEnds(<<>>)
    BY <1>9 DEF NoAnswer
  <2> QED BY <2>1, SpokenKinds, TurnEndsEffect
<1>10. CASE Retry
  BY <1>10 DEF Retry, Effect
<1>11. CASE Fail
  BY <1>11 DEF Fail, Effect
<1>12. ASSUME NEW c \in DOMAIN messages, Overflow(c) PROVE Effect
  BY <1>12 DEF Overflow, Effect
<1>13. CASE Continue
  <2>1. Extend(<<"user">>) \/ UNCHANGED convVars
    BY <1>13 DEF Continue, Gate
  <2> QED BY <2>1, SpokenKinds, SpokenEffect DEF Effect
<1>14. CASE FollowUp
  <2>1. Extend(Users(followUps)) /\ Users(followUps) \in Seq(Spoken)
    BY <1>0, <1>14, SpokenKinds DEF FollowUp
  <2> QED BY <2>1, SpokenEffect
<1>15. CASE Done
  BY <1>15 DEF Done, Effect
<1>16. CASE RunTools
  BY <1>16 DEF RunTools, Effect
<1>17. CASE NothingToRun
  <2>1. Extend(<<>> \o Users(steers)) /\ Users(steers) \in Seq(Spoken)
    BY <1>0, <1>17, SpokenKinds DEF NothingToRun, ThenSteers
  <2>2. <<>> \o Users(steers) \in Seq(Spoken)
    BY <2>1, SpokenKinds
  <2> QED BY <2>1, <2>2, SpokenEffect
<1>18. ASSUME NEW wrote \in BOOLEAN, ToolsSettled(wrote) PROVE Effect
  <2>1. Extend(<<"tool">> \o Users(steers)) /\ LastKind(messages) = "call"
    BY <1>18 DEF ToolsSettled, ThenSteers, EInv, News
  <2> QED BY <1>0, <2>1, ResultKinds DEF Effect
<1> QED BY <1>1, <1>2, <1>3, <1>4, <1>5, <1>6, <1>7, <1>8, <1>9, <1>10, <1>11, <1>12, <1>13,
           <1>14, <1>15, <1>16, <1>17, <1>18 DEF Loop

\* One step per act of the user and of the background call.
LEMMA OutsideEffect ==
  ASSUME Outside
  PROVE  Effect
BY DEF Outside, SubmitMessage, Abort, Steer, QueueFollowUp, CompactionEnds, NewSession, Effect

-----------------------------------------------------------------------------
\* A query that has ended asks for nothing.
LEMMA OutNews ==
  ASSUME at' = "out", state' \in {"idle", "completed", "error"}
  PROVE  News'
BY DEF News

\* A turn that ended leaves the loop at its top.
LEMMA TurnEndsNews ==
  ASSUME EInv, at \in {"asking", "waiting"}, NEW answer \in Seq(Spoken), TurnEnds(answer)
  PROVE  News'
<1>1. at' = "top" /\ conversational' = conversational
  BY DEF TurnEnds, queryVars
<1>2. /\ turnCount \in Nat /\ planTurn \in Nat /\ steers \in Nat /\ state \in {"planning", "streaming"}
      /\ state = "planning" => turnCount = 0
  BY DEF EInv, Control, Sizes, Shape, Turns
<1>3. CASE state = "planning"
  <2>1. PICK complete \in BOOLEAN :
          /\ planTurn' = planTurn + 1
          /\ turnCount' = IF complete /\ ~PlanExempt THEN turnCount + planTurn' ELSE turnCount
          /\ state' = IF PlanOver(complete) THEN "streaming" ELSE "planning"
    BY <1>3 DEF TurnEnds, PlanTurnEnds, Completes
  <2>2. PlanTurns > 0 /\ ~conversational
    BY <1>3 DEF EInv, News
  <2>3. turnCount' <= planTurn'
    BY <1>2, <1>3, <2>1
  <2>4. Exempt' /\ state' \in {"streaming", "planning"}
    BY <1>1, <2>1, <2>2, <2>3 DEF Exempt
  <2> QED BY <1>1, <2>2, <2>4 DEF News
<1>4. CASE state # "planning"
  <2>1. PICK kinds : /\ Extend(kinds)
                     /\ turnCount' = turnCount + 1
                     /\ steers' = steers + Reminders(turnCount', LastKind(messages \o Fresh(kinds)))
                     /\ state' = "deciding"
    BY <1>4 DEF TurnEnds, StreamTurnEnds
  <2>2. steers' = steers + Reminders(turnCount', LastKind(messages'))
    BY <2>1 DEF Extend
  <2>3. ASSUME ~conversational, turnCount' < MinTurns, LastKind(messages') = "assistant"
        PROVE  steers' > 0
    <3>1. PICK a \in {0, 1}, b \in {0, 1} : Reminders(turnCount', LastKind(messages')) = a + b + 1
      BY <2>3 DEF Reminders
    <3> QED BY <1>2, <2>2, <3>1
  <2> QED BY <1>1, <2>1, <2>3 DEF News
<1> QED BY <1>3, <1>4

\* The loop goes on with a turn: its last message stays or asks for an answer.
LEMMA SameTurnNews ==
  ASSUME EInv, at # "out", at' \in {"asking", "waiting"}, state' = state, state \in {"planning", "streaming"},
         UNCHANGED <<turnCount, planTurn, conversational>>,
         state = "streaming" => LastKind(messages') = LastKind(messages) \/ Ends(messages')
  PROVE  News'
<1>1. state = "planning" => PlanTurns > 0 /\ ~conversational
  BY DEF EInv, News
<1>2. state = "streaming" /\ ~Exempt => LastKind(messages') \notin {"assistant", "call"}
  BY DEF EInv, News, Said, Ends
<1>3. Exempt' = Exempt
  BY DEF Exempt
<1> QED BY <1>1, <1>2, <1>3 DEF News, Said

\* What continues the loop after an answer is a steer or a message.
LEMMA ContinueNews ==
  ASSUME EInv, Continue
  PROVE  News'
<1>1. PICK v \in Verdicts : v.on /\ Gate(v.gate)
  BY DEF Continue
<1>2. at' = "top" /\ state' = "executing" /\ state = "deciding"
  BY DEF Continue, AtTop
<1>3. ConvTypeOK /\ steers \in Nat
  BY DEF EInv, Control, Sizes, TInv, CInv
<1>4. ASSUME LastKind(messages') = "assistant"
      PROVE  steers' > 0
  <2>1. CASE v.gate \in {"typeCheck", "verification"}
    <3>1. Extend(<<"user">>) /\ <<"user">> \in Seq(Kinds) /\ <<"user">> # <<>> /\ <<"user">>[Len(<<"user">>)] = "user"
      BY <1>1, <2>1, OneUser DEF Gate
    <3>2. LastKind(messages') = "user"
      BY <1>3, <3>1, ExtendLast
    <3> QED BY <1>4, <3>2
  <2>2. CASE v.gate = "zeroPatch"
    BY <1>1, <1>3, <2>2 DEF Gate
  <2>3. CASE v.gate \notin {"typeCheck", "verification", "zeroPatch"}
    <3>1. messages' = messages /\ LastKind(messages) = "assistant"
      BY <1>1, <1>4, <2>3 DEF Gate, convVars
    <3>2. v \in ExitGates
      BY <1>1, <3>1 DEF Verdicts, Go
    <3>3. ~conversational /\ turnCount < MinTurns
      BY <1>1, <2>3, <3>2 DEF ExitGates, Go
    <3>4. steers > 0
      BY <1>2, <3>1, <3>3 DEF EInv, News
    <3>5. steers' = steers \/ steers' = steers + 1
      BY <1>1, <1>3 DEF Gate
    <3> QED BY <1>3, <3>4, <3>5
  <2> QED BY <2>1, <2>2, <2>3
<1> QED BY <1>2, <1>4 DEF News

\* After the tools, or when there were none to run, the loop streams.
LEMMA ThenSteersNews ==
  ASSUME EInv, NothingToRun \/ \E wrote \in BOOLEAN : ToolsSettled(wrote)
  PROVE  News'
<1>1. ConvTypeOK /\ steers \in Nat
  BY DEF EInv, Control, Sizes, TInv, CInv
<1>2. at' = "top" /\ state' = "streaming"
  BY DEF NothingToRun, ToolsSettled, ThenSteers
<1>3. LastKind(messages') \notin {"assistant", "call"}
  <2>1. CASE NothingToRun
    <3>1. /\ at = "top" /\ state = "executing" /\ LastKind(messages) # "call"
          /\ Extend(<<>> \o Users(steers))
      BY <2>1 DEF NothingToRun, AtTop, ThenSteers
    <3>2. Users(steers) \in Seq(Kinds) /\ <<>> \o Users(steers) = Users(steers)
      <4>1. Users(steers) \in Seq(Kinds)
        BY <1>1, SpokenKinds
      <4> QED BY <4>1, ConcatEmptySeq
    <3>3. CASE steers = 0
      <4>1. messages' = messages
        BY <1>1, <3>1, <3>2, <3>3, UsersLast, ExtendLast
      <4>2. LastKind(messages) # "assistant"
        BY <3>1, <3>3 DEF EInv, News
      <4> QED BY <3>1, <4>1, <4>2
    <3>4. CASE steers > 0
      <4>1. LastKind(messages') = "user"
        BY <1>1, <3>1, <3>2, <3>4, UsersLast, ExtendLast
      <4> QED BY <4>1
    <3> QED BY <1>1, <3>3, <3>4
  <2>2. CASE \E wrote \in BOOLEAN : ToolsSettled(wrote)
    <3>1. Extend(<<"tool">> \o Users(steers)) /\ LastKind(messages) = "call"
      BY <2>2 DEF ToolsSettled, ThenSteers, EInv, News
    <3>2. PICK kinds \in Seq(Kinds) : /\ kinds = <<"tool">> \o Users(steers)
                                      /\ kinds # <<>> /\ kinds[Len(kinds)] \in {"tool", "user"}
      BY <1>1, <3>1, ResultKinds
    <3>3. LastKind(messages') \in {"tool", "user"}
      BY <1>1, <3>1, <3>2, ExtendLast
    <3> QED BY <3>3
  <2> QED BY <2>1, <2>2
<1> QED BY <1>2, <1>3 DEF News, Said

\* One step per action of the loop.
LEMMA LoopNews ==
  ASSUME EInv, Loop
  PROVE  News'
<1> USE DEF loopVars, askVars, queueVars, restVars, queryVars, gateVars, userVars
<1>0. /\ ConvTypeOK /\ Asking /\ turnCount \in Nat /\ steers \in Nat /\ followUps \in Nat
      /\ at \in {"asking", "waiting"} => state \in {"planning", "streaming"}
      /\ News
  BY DEF EInv, TInv, CInv, Control, Sizes, Shape
<1>1. CASE TopAborted
  BY <1>1, OutNews DEF TopAborted, EndIn
<1>2. CASE Idle
  <2>1. /\ at = "top" /\ at' = "top" /\ state = "idle" /\ messages' = messages /\ conversational' = conversational
        /\ state' = IF PlanTurns > 0 /\ ~conversational THEN "planning" ELSE "compacting"
    BY <1>2 DEF Idle, AtTop, convVars
  <2> QED BY <1>0, <2>1 DEF News
<1>3. CASE Compacting
  <2>1. at = "top" /\ state = "compacting" /\ at' = "top" /\ state' = "streaming" /\ messages' = messages
    BY <1>3 DEF Compacting, AtTop, Trigger, convVars
  <2>2. ~Said'
    BY <1>0, <2>1 DEF News, Said, Ends
  <2> QED BY <2>1, <2>2 DEF News
<1>4. CASE PlanTurn
  BY <1>4, SameTurnNews DEF PlanTurn, AtTop
<1>5. CASE PlanOverBudget
  <2>1. PICK s \in {"completed", "error"} : EndIn(s)
    BY <1>5 DEF PlanOverBudget
  <2> QED BY <2>1, OutNews DEF EndIn
<1>6. CASE Streaming
  <2>1. LastKind(messages') = LastKind(messages) \/ Ends(messages')
    BY <1>0, <1>6, DrainLast, SameLastKind DEF Streaming
  <2> QED BY <1>6, <2>1, SameTurnNews DEF Streaming, AtTop
<1>7. CASE OverBudget
  BY <1>7, OutNews DEF OverBudget, EndIn
<1>8. CASE Ask
  <2>1. CASE aborted
    BY <1>8, <2>1, OutNews DEF Ask, EndIn
  <2>2. CASE ~aborted
    BY <1>0, <1>8, <2>2, SameTurnNews DEF Ask, convVars
  <2> QED BY <2>1, <2>2
<1>9. ASSUME NEW kind \in {"assistant", "call"}, Answer(kind) PROVE News'
  <2>1. at = "waiting" /\ TurnEnds(<<kind>>) /\ <<kind>> \in {<<"assistant">>, <<"call">>}
    BY <1>9 DEF Answer
  <2>2. <<kind>> \in Seq(Spoken)
    BY <2>1, SpokenKinds
  <2> QED BY <2>1, <2>2, TurnEndsNews
<1>10. CASE NoAnswer
  <2>1. at \in {"asking", "waiting"} /\ TurnEnds(<<>>)
    BY <1>10 DEF NoAnswer
  <2> QED BY <2>1, SpokenKinds, TurnEndsNews
<1>11. CASE Retry
  BY <1>0, <1>11, SameTurnNews DEF Retry, convVars
<1>12. CASE Fail
  BY <1>12, OutNews DEF Fail, EndIn
<1>13. ASSUME NEW c \in DOMAIN messages, Overflow(c) PROVE News'
  <2>1. Shrink(c) /\ at = "waiting" /\ at' = "asking" /\ UNCHANGED <<state, turnCount, planTurn, conversational>>
    BY <1>13 DEF Overflow
  <2>2. LastKind(messages') = LastKind(messages)
    BY <1>0, <2>1, ShrinkLast, SameLastKind
  <2> QED BY <1>0, <2>1, <2>2, SameTurnNews
<1>14. CASE Continue
  BY <1>14, ContinueNews
<1>15. CASE FollowUp
  <2>1. followUps > 0 /\ Extend(Users(followUps)) /\ state' = "streaming" /\ at' = "top"
    BY <1>15 DEF FollowUp, Stops, AtTop
  <2>2. Users(followUps) \in Seq(Kinds)
    BY <1>0, SpokenKinds
  <2>3. LastKind(messages') = "user"
    BY <1>0, <2>1, <2>2, UsersLast, ExtendLast
  <2>4. ~Said'
    BY <2>3 DEF Said
  <2> QED BY <2>1, <2>4 DEF News
<1>16. CASE Done
  BY <1>16, OutNews DEF Done, EndIn
<1>17. CASE RunTools
  BY <1>17 DEF RunTools, AtTop, News, convVars
<1>18. CASE NothingToRun \/ \E wrote \in BOOLEAN : ToolsSettled(wrote)
  BY <1>18, ThenSteersNews
<1> QED BY <1>1, <1>2, <1>3, <1>4, <1>5, <1>6, <1>7, <1>8, <1>9, <1>10, <1>11, <1>12, <1>13,
           <1>14, <1>15, <1>16, <1>17, <1>18 DEF Loop

\* Steers only help; a compaction that ends leaves the transcript alone.
LEMMA OutsideNews ==
  ASSUME EInv, Outside
  PROVE  News'
<1> USE DEF loopVars, askVars, queueVars, restVars, queryVars, gateVars, userVars
<1>0. ConvTypeOK /\ steers \in Nat /\ News
  BY DEF EInv, TInv, CInv, Control, Sizes
<1>1. ASSUME NEW talk \in BOOLEAN, NEW budget \in Budgets(talk), SubmitMessage(talk, budget)
      PROVE  News'
  <2>1. Submit /\ state' = "idle" /\ at' = "top"
    BY <1>1 DEF SubmitMessage
  <2> QED BY <1>0, <2>1, SubmitLast DEF News
<1>2. CASE Abort \/ Steer \/ QueueFollowUp \/ CompactionEnds
  <2>1. /\ UNCHANGED <<messages, at, state, turnCount, planTurn, conversational>>
        /\ steers' = steers \/ steers' = steers + 1
    BY <1>2 DEF Abort, Steer, QueueFollowUp, CompactionEnds, Complete, convVars
  <2>2. steers > 0 => steers' > 0
    BY <1>0, <2>1
  <2> QED BY <1>0, <2>1, <2>2 DEF News, Said, Exempt
<1>3. ASSUME NEW kinds, NewSession(kinds) PROVE News'
  BY <1>3, OutNews DEF NewSession
<1> QED BY <1>1, <1>2, <1>3 DEF Outside

-----------------------------------------------------------------------------
LEMMA InitEstablishes == Init => EInv
<1> SUFFICES ASSUME Init PROVE EInv
  OBVIOUS
<1>1. Control
  <2>1. Sizes
    BY TurnsAssumption, RetriesAssumption DEF Init, Sizes, Limit
  <2>2. Flags
    BY DEF Init, Flags
  <2>3. Shape
    BY DEF Init, Shape, Places
  <2>4. Turns
    BY TurnsAssumption DEF Init, Turns, Most, Limit
  <2> QED BY <2>1, <2>2, <2>3, <2>4 DEF Control
<1>2. TInv
  <2>1. CInv
    BY ConvInitEstablishes DEF Init
  <2>2. messages = <<>> /\ compactMessages = <<>> /\ running = <<>>
    BY DEF Init, ConvInit
  <2>3. \A m : ~Stored(m)
    BY <2>2 DEF Stored
  <2>4. Asking /\ Newest
    BY <2>2 DEF Asking, Newest, Said, LastKind
  <2> QED BY <2>1, <2>3, <2>4 DEF TInv, OneKind, Pairs
<1>3. News
  BY DEF Init, News
<1> QED BY <1>1, <1>2, <1>3 DEF EInv

LEMMA EngineStep ==
  ASSUME EInv, [Next]_vars
  PROVE  EInv' /\ [ConvNext]_convVars
<1>1. CASE Next
  <2>1. Effect
    BY <1>1, LoopEffect, OutsideEffect DEF Next
  <2>2. Control'
    BY <1>1, LoopControlled, OutsideControlled DEF Next, EInv
  <2>3. News'
    BY <1>1, LoopNews, OutsideNews DEF Next
  <2>4. TInv' /\ [ConvNext]_convVars
    BY <2>1, EffectPreserves DEF EInv
  <2> QED BY <2>2, <2>3, <2>4 DEF EInv
<1>2. CASE UNCHANGED vars
  <2>1. /\ UNCHANGED <<convVars, at, state, turnCount, maxTurns, batches, attempt, overflowed, restSizes, flags>>
    BY <1>2 DEF vars, loopVars, askVars, queueVars, restVars, queryVars, gateVars, userVars, restSizes, flags
  <2>2. Control'
    BY <2>1 DEF EInv, Control, Sizes, Flags, Shape, Turns, Most, restSizes, flags
  <2>3. TInv' /\ [ConvNext]_convVars
    BY <2>1, EffectPreserves DEF EInv, Effect
  <2>4. News'
    BY <2>1 DEF EInv, News, Said, Exempt, Ends, convVars, restSizes, flags
  <2> QED BY <2>2, <2>3, <2>4 DEF EInv
<1> QED BY <1>1, <1>2

LEMMA EngineInvariant == Spec => []EInv
<1>1. EInv /\ [Next]_vars => EInv'
  BY EngineStep
<1> QED BY InitEstablishes, <1>1, PTL DEF Spec

\* The counters, queues, retries and gates keep to their limits and the loop is
\* never at a place with a state that does not belong there, for every limit.
THEOREM EngineTypeCorrect == Spec => []TypeOK
<1>1. EInv => TypeOK
  <2> SUFFICES ASSUME EInv PROVE TypeOK
    OBVIOUS
  <2>1. Sizes /\ Flags /\ Shape /\ ConvTypeOK
    BY DEF EInv, Control, TInv, CInv
  <2>2. state \in States /\ at \in Places /\ (at = "out" => state \in {"idle", "completed", "error"})
    BY <2>1 DEF Shape, Places, States
  <2>3. maxTurns \in Nat /\ followUps \in 0..MaxQueued
    <3>1. Limit \in Nat /\ MaxQueued \in Nat
      BY TurnsAssumption, RetriesAssumption DEF Limit
    <3> QED BY <2>1, <3>1 DEF Sizes
  <2> QED BY <2>1, <2>2, <2>3 DEF TypeOK, Sizes, Flags
<1> QED BY EngineInvariant, <1>1, PTL

\* A query takes no more turns than its budget and its ceiling allow, for every
\* budget, extension and number of planning turns, also where there is no ceiling.
THEOREM TurnsStayBounded == Spec => []TurnsBounded
<1>1. EInv => TurnsBounded
  BY DEF EInv, Control, Turns, Sizes, TurnsBounded, Most, Limit
<1> QED BY EngineInvariant, <1>1, PTL

\* The model is never asked again what it has just answered, whatever gates,
\* steers, overflows and compactions come in between.
THEOREM PromptsAreFresh == Spec => []PromptIsFresh
<1>1. EInv => PromptIsFresh
  <2> SUFFICES ASSUME EInv, at = "asking", state = "streaming",
                      PlanTurns = 0 \/ conversational \/ turnCount > planTurn
               PROVE  LastKind(messages) \notin {"assistant", "call"}
    BY DEF PromptIsFresh
  <2>1. turnCount \in Nat /\ planTurn \in Nat
    BY DEF EInv, Control, Sizes
  <2>2. ~Exempt
    BY <2>1, TurnsAssumption DEF Exempt
  <2> QED BY <2>2 DEF EInv, News, Said
<1> QED BY EngineInvariant, <1>1, PTL

\* A tool result stays right behind its call, whatever is steered, queued,
\* trimmed, cut, summarised and merged meanwhile.
THEOREM ResultsStayWithCalls == Spec => []ResultsFollowCalls
<1>1. EInv => ResultsFollowCalls
  <2> SUFFICES ASSUME EInv, NEW i \in 2..Len(messages), messages[i].kind = "tool",
                      NEW n \in 1..added, messages[i - 1].of = {n}, messages[i].of = {n + 1}
               PROVE  messages[i - 1].kind = "call"
    BY DEF ResultsFollowCalls
  <2>1. messages \in Seq(Messages) /\ added \in Nat
    BY DEF EInv, TInv, CInv, ConvTypeOK
  <2>2. i \in DOMAIN messages /\ i - 1 \in DOMAIN messages /\ n \in Nat
    BY <2>1
  <2>3. Stored(messages[i]) /\ Stored(messages[i - 1])
    BY <2>2 DEF Stored
  <2> QED BY <2>2, <2>3 DEF EInv, TInv, Pairs
<1> QED BY EngineInvariant, <1>1, PTL

\* The query loop implements the conversation: whatever turns, retries, gates,
\* reminders, steers and sessions do, each step is one operation of
\* ConversationState and CompactionHandler on the transcript, or none.
THEOREM LoopRefinesConversation == Spec => ImplementsConversation
<1>1. Init => ConvInit
  BY DEF Init
<1>2. EInv /\ [Next]_vars => [ConvNext]_convVars
  BY EngineStep
<1> QED BY <1>1, <1>2, EngineInvariant, PTL DEF Spec, ConvSpec, ImplementsConversation

\* No message of a query is lost unless the transcript was cut or replaced
\* under a running compaction, for every configuration of the engine.
THEOREM EngineLosesNothing == Spec => []NothingLost
  BY LoopRefinesConversation, NoMessageLost DEF ImplementsConversation

\* The engine's transcript stays in order and without duplicates.
THEOREM EngineChronological == Spec => []Chronological
  BY LoopRefinesConversation, TranscriptChronological DEF ImplementsConversation
=============================================================================
