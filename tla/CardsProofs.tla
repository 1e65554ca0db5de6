----------------------------- MODULE CardsProofs -----------------------------
(***************************************************************************)
(* What the operations on cards preserve, for every requirement: a legal   *)
(* card stays legal whatever box is tapped, and the lists built from the   *)
(* database and from a save file hold legal cards.                         *)
(***************************************************************************)
EXTENDS Cards, SequenceTheorems, WellFoundedInduction, TLAPS

LegalCards == {c \in Card : LegalCard(c)}

Injective(s) == \A i, j \in 1 .. Len(s) : s[i] = s[j] => i = j

-----------------------------------------------------------------------------
(* The least element that the library's Min chooses exists.                *)
LEMMA LeastPosition ==
  ASSUME NEW S, S \subseteq Nat, S # {}
  PROVE  Min(S) \in S /\ \A y \in S : Min(S) <= y
<1>1. \E x \in S : \A y \in S : ~(<<y, x>> \in OpToRel(<, Nat))
  BY NatLessThanWellFounded, WFMin
<1>2. PICK x \in S : \A y \in S : ~(<<y, x>> \in OpToRel(<, Nat))
  BY <1>1
<1>3. ASSUME NEW y \in S PROVE x <= y
  <2>1. <<y, x>> \in Nat \X Nat /\ ~(<<y, x>> \in OpToRel(<, Nat))
    BY <1>2
  <2>2. ~(y < x)
    BY <2>1 DEF OpToRel
  <2>3. QED
    BY <2>2
<1>4. QED
  BY <1>3 DEF Min

(* How many places of a list come after place k.                           *)
LEMMA RestLength ==
  ASSUME NEW n \in Nat, NEW k \in 1 .. n, NEW l,
         l = IF k + 1 <= n THEN n - (k + 1) + 1 ELSE 0
  PROVE  l = n - k /\ n - (k + 1) + 1 = n - k
OBVIOUS

(* RemoveFirst, which checkboxSelected() uses to release a box, takes the  *)
(* one place of the box out of a list without repetition, and leaves it    *)
(* without repetition.                                                     *)
LEMMA RemoveFirstKeepsOrder ==
  ASSUME NEW T, NEW s \in Seq(T), NEW e, Injective(s), e \in ToSet(s)
  PROVE  /\ RemoveFirst(s, e) \in Seq(T)
         /\ Len(RemoveFirst(s, e)) = Len(s) - 1
         /\ Injective(RemoveFirst(s, e))
         /\ \E k \in 1 .. Len(s) :
              /\ s[k] = e
              /\ RemoveFirst(s, e)
                  = [i \in 1 .. (Len(s) - 1) |-> IF i < k THEN s[i] ELSE s[i + 1]]
<1> DEFINE I == {i \in 1 .. Len(s) : s[i] = e}
           k == Min(I)
           r == [i \in 1 .. (Len(s) - 1) |-> IF i < k THEN s[i] ELSE s[i + 1]]
<1>1. Len(s) \in Nat /\ DOMAIN s = 1 .. Len(s) /\ \A i \in 1 .. Len(s) : s[i] \in T
  BY LenProperties, ElementOfSeq
<1>2. I \subseteq Nat /\ I # {} /\ \E i \in 1 .. Len(s) : s[i] = e
  BY <1>1 DEF ToSet
<1>3. k \in 1 .. Len(s) /\ s[k] = e
  BY <1>2, LeastPosition
<1>4. RemoveFirst(s, e) = SubSeq(s, 1, k - 1) \o SubSeq(s, k + 1, Len(s))
  BY <1>2 DEF RemoveFirst, RemoveAt, SelectInSeq
<1>5. r \in Seq(T) /\ Len(r) = Len(s) - 1
  BY <1>1, <1>3, IsASeq
<1>6. SubSeq(s, 1, k - 1) \o SubSeq(s, k + 1, Len(s)) = r
  <2> DEFINE a == SubSeq(s, 1, k - 1)
             b == SubSeq(s, k + 1, Len(s))
  <2>1. /\ a \in Seq(T) /\ Len(a) = k - 1
        /\ \A i \in 1 .. (k - 1) : a[i] = s[i]
    <3> HIDE DEF k
    <3>1. k - 1 \in Int /\ 1 \in Int /\ \A i \in 1 .. (k - 1) : s[i] \in T
      BY <1>1, <1>3
    <3>2. /\ a \in Seq(T)
          /\ Len(a) = IF 1 <= k - 1 THEN (k - 1) - 1 + 1 ELSE 0
          /\ \A i \in 1 .. ((k - 1) - 1 + 1) : a[i] = s[1 + i - 1]
      BY <3>1, SubSeqProperties
    <3>3. QED
      BY <3>2, <1>1, <1>3
  <2>2. /\ b \in Seq(T) /\ Len(b) = Len(s) - k
        /\ \A i \in 1 .. (Len(s) - k) : b[i] = s[k + i]
    <3> HIDE DEF k
    <3>1. /\ k + 1 \in Int /\ Len(s) \in Int
          /\ \A i \in (k + 1) .. Len(s) : s[i] \in T
      BY <1>1, <1>3
    <3>2. /\ b \in Seq(T)
          /\ Len(b) = IF k + 1 <= Len(s) THEN Len(s) - (k + 1) + 1 ELSE 0
          /\ \A i \in 1 .. (Len(s) - (k + 1) + 1) : b[i] = s[k + 1 + i - 1]
      BY <3>1, SubSeqProperties
    <3> HIDE DEF b
    <3>3. Len(b) = Len(s) - k /\ Len(s) - (k + 1) + 1 = Len(s) - k
      <4>1. Len(s) \in Nat /\ k \in 1 .. Len(s)
        BY <1>1, <1>3
      <4>2. Len(b) = IF k + 1 <= Len(s) THEN Len(s) - (k + 1) + 1 ELSE 0
        BY <3>2
      <4>3. QED
        BY <4>1, <4>2, RestLength
    <3>4. ASSUME NEW i \in 1 .. (Len(s) - k) PROVE b[i] = s[k + i]
      <4>1. k + 1 + i - 1 = k + i
        BY <1>1, <1>3
      <4>2. QED
        BY <3>2, <3>3, <4>1
    <3>5. QED
      BY <3>2, <3>3, <3>4
  <2>3. /\ a \o b \in Seq(T) /\ Len(a \o b) = Len(s) - 1
        /\ \A i \in 1 .. (Len(s) - 1) :
             (a \o b)[i] = IF i <= k - 1 THEN a[i] ELSE b[i - (k - 1)]
    <3> HIDE DEF a, b, k
    <3>1. /\ a \o b \in Seq(T)
          /\ Len(a \o b) = Len(a) + Len(b)
          /\ \A i \in 1 .. (Len(a) + Len(b)) :
               (a \o b)[i] = IF i <= Len(a) THEN a[i] ELSE b[i - Len(a)]
      BY <2>1, <2>2, ConcatProperties
    <3>2. Len(a) + Len(b) = Len(s) - 1
      BY <1>1, <1>3, <2>1, <2>2
    <3>3. QED
      BY <2>1, <3>1, <3>2
  <2>4. \A i \in 1 .. (Len(s) - 1) : (a \o b)[i] = r[i]
    <3> HIDE DEF a, b, k
    <3>1. QED
      BY <1>1, <1>3, <2>1, <2>2, <2>3
  <2>5. QED
    <3> HIDE DEF a, b, r
    <3>1. a \o b = r
      BY <1>5, <2>3, <2>4, SeqEqual
    <3>2. QED
      BY <3>1 DEF a, b
<1>7. Injective(r)
  BY <1>1, <1>3, <1>5 DEF Injective
<1>8. QED
  <2> HIDE DEF k
  <2>1. QED
    BY <1>3, <1>4, <1>5, <1>6, <1>7

(* Two lists that agree as far as the first goes.                          *)
LEMMA PrefixByPlaces ==
  ASSUME NEW S, NEW s \in Seq(S), NEW t \in Seq(S), Len(s) <= Len(t),
         \A i \in 1 .. Len(s) : s[i] = t[i]
  PROVE  IsPrefix(s, t)
<1>1. Len(s) \in Nat /\ Len(t) \in Nat
  BY LenProperties
<1> DEFINE n == Len(s)
           a == SubSeq(s, 1, n)
           b == SubSeq(t, 1, n)
<1>2. n \in Nat /\ n <= Len(t) /\ 1 \in Int /\ n \in Int
  BY <1>1
<1>3. (\A i \in 1 .. n : s[i] \in S) /\ (\A i \in 1 .. n : t[i] \in S)
  BY <1>1, ElementOfSeq
<1> HIDE DEF n
<1>4. /\ a \in Seq(S) /\ Len(a) = (IF 1 <= n THEN n - 1 + 1 ELSE 0)
      /\ \A i \in 1 .. (n - 1 + 1) : a[i] = s[1 + i - 1]
  BY <1>2, <1>3, SubSeqProperties
<1>5. /\ b \in Seq(S) /\ Len(b) = (IF 1 <= n THEN n - 1 + 1 ELSE 0)
      /\ \A i \in 1 .. (n - 1 + 1) : b[i] = t[1 + i - 1]
  BY <1>2, <1>3, SubSeqProperties
<1> HIDE DEF a, b
<1>6. /\ Len(a) = n /\ \A i \in 1 .. n : a[i] = s[i]
  BY <1>2, <1>4
<1>7. /\ Len(b) = n /\ \A i \in 1 .. n : b[i] = t[i]
  BY <1>2, <1>5
<1>8. \A i \in 1 .. n : s[i] = t[i]
  BY DEF n
<1>9. a = b
  BY <1>4, <1>5, <1>6, <1>7, <1>8, SeqEqual
<1>10. QED
  BY <1>2, <1>9 DEF IsPrefix, a, b, n

(* A percentage is a natural number; it is 0 for no box, and 100 exactly   *)
(* when all num boxes are ticked.                                          *)
LEMMA PercentProperties ==
  ASSUME NEW n \in Nat, NEW num \in Nat \ {0}, n <= num
  PROVE  /\ Percent(n, num) \in Nat
         /\ Percent(0, num) = 0
         /\ Percent(n, num) = 100 <=> n = num
<1> DEFINE q == (n * 100) \div num
           r == (n * 100) % num
<1>1. /\ q \in Int /\ r \in 0 .. (num - 1)
      /\ n * 100 = num * q + r
  OBVIOUS
<1>2. q >= 0
  <2>1. ASSUME q <= -1 PROVE FALSE
    <3>1. num * q <= -num
      BY <1>1, <2>1
    <3>2. QED
      BY <1>1, <3>1
  <2>2. QED
    BY <1>1, <2>1
<1>3. (0 * 100) \div num = 0
  OBVIOUS
<1>4. ASSUME n = num PROVE q = 100
  <2>1. num * (100 - q) = r
    BY <1>1, <1>4
  <2>2. QED
    BY <1>1, <2>1
<1>5. ASSUME q = 100 PROVE n = num
  BY <1>1, <1>5
<1>6. QED
  <2> HIDE DEF q
  <2>1. QED
    BY <1>1, <1>2, <1>3, <1>4, <1>5 DEF Percent, q

(* checkboxSelected() keeps a card legal: whichever box is tapped, the     *)
(* boxes stay distinct, of the card, at most num, and progress is exact.   *)
THEOREM TapKeepsCardLegal ==
  ASSUME NEW c \in LegalCards, NEW box \in Boxes(c.req), ~DivisionTraps(c)
  PROVE  /\ CheckboxSelected(c, box) \in LegalCards
         /\ CheckboxSelected(c, box).req = c.req
         /\ CheckboxSelected(c, box).id = c.id
         /\ CheckboxSelected(c, box).comment = c.comment
         /\ CheckboxSelected(c, box).checkedBoxes = ToggledBoxes(c, box)
<1> DEFINE s == c.checkedBoxes
           T == Boxes(c.req)
           num == c.req.num
           t == ToggledBoxes(c, box)
<1>1. /\ c \in Card /\ s \in Seq(T) /\ Injective(s) /\ Len(s) <= num
      /\ num \in Nat \ {0} /\ T \subseteq Nat
  BY RequirementsAssumption
     DEF LegalCards, LegalCard, Card, Injective, DivisionTraps, Boxes
<1>2. t \in Seq(T) /\ Injective(t) /\ Len(t) <= num
  <2>1. CASE box \in ToSet(s)
    <3>1. t = RemoveFirst(s, box)
      BY <2>1 DEF ToggledBoxes
    <3>2. QED
      BY <1>1, <2>1, <3>1, RemoveFirstKeepsOrder, LenProperties
  <2>2. CASE box \notin ToSet(s)
    <3> DEFINE m == Append(s, box)
    <3>1. t = IF Len(m) > num THEN Tail(m) ELSE m
      BY <2>2 DEF ToggledBoxes
    <3>2. /\ m \in Seq(T) /\ m # <<>> /\ Len(m) = Len(s) + 1
          /\ \A i \in 1 .. Len(s) : m[i] = s[i]
          /\ m[Len(s) + 1] = box
      BY <1>1, AppendProperties
    <3>3. Len(s) \in Nat /\ \A i \in 1 .. Len(s) : s[i] # box
      BY <1>1, <2>2, LenProperties DEF ToSet
    <3> HIDE DEF m, t, s
    <3>4. Injective(m)
      <4> SUFFICES ASSUME NEW i \in 1 .. Len(m), NEW j \in 1 .. Len(m), m[i] = m[j]
                   PROVE  i = j
        BY DEF Injective
      <4>1. /\ i \in 1 .. Len(s) \/ i = Len(s) + 1
            /\ j \in 1 .. Len(s) \/ j = Len(s) + 1
        BY <3>2, <3>3
      <4>2. CASE i \in 1 .. Len(s) /\ j \in 1 .. Len(s)
        <5>1. s[i] = s[j]
          BY <3>2, <4>2
        <5>2. QED
          BY <1>1, <4>2, <5>1 DEF Injective
      <4>3. CASE i = Len(s) + 1 \/ j = Len(s) + 1
        BY <3>2, <3>3, <4>1, <4>3
      <4>4. QED
        BY <4>1, <4>2, <4>3
    <3>5. CASE Len(m) > num
      <4>1. /\ Tail(m) \in Seq(T) /\ Len(Tail(m)) = Len(m) - 1
            /\ \A i \in 1 .. Len(Tail(m)) : Tail(m)[i] = m[i + 1]
        BY <3>2, HeadTailProperties
      <4>2. Injective(Tail(m))
        <5> SUFFICES ASSUME NEW i \in 1 .. Len(Tail(m)), NEW j \in 1 .. Len(Tail(m)),
                            Tail(m)[i] = Tail(m)[j]
                     PROVE  i = j
          BY DEF Injective
        <5>1. Len(Tail(m)) = Len(m) - 1 /\ Len(m) \in Nat
          BY <3>2, <3>3, <4>1
        <5>2. i + 1 \in 1 .. Len(m) /\ j + 1 \in 1 .. Len(m)
          BY <5>1
        <5>3. m[i + 1] = m[j + 1]
          BY <4>1
        <5>4. i + 1 = j + 1
          BY <3>4, <5>2, <5>3 DEF Injective
        <5>5. QED
          BY <5>4
      <4>3. QED
        BY <1>1, <3>1, <3>2, <3>3, <3>5, <4>1, <4>2
    <3>6. CASE ~(Len(m) > num)
      BY <1>1, <3>1, <3>2, <3>3, <3>4, <3>6
    <3>7. QED
      BY <3>5, <3>6
  <2>3. QED
    BY <2>1, <2>2
<1>3. t \in Seq(Nat) /\ Len(t) \in Nat
  BY <1>1, <1>2, SeqMonotonic, LenProperties
<1>4. Percent(Len(t), num) \in Nat
  BY <1>1, <1>2, <1>3, PercentProperties
<1> DEFINE d == [c EXCEPT !.checkedBoxes = t, !.progress = Percent(Len(t), num)]
<1>5. CheckboxSelected(c, box) = d
  BY DEF CheckboxSelected
<1>6. d.checkedBoxes = t /\ d.progress = Percent(Len(t), num)
      /\ d.req = c.req /\ d.id = c.id /\ d.comment = c.comment /\ d \in Card
  <2> HIDE DEF t
  <2>1. QED
    BY <1>1, <1>3, <1>4 DEF Card
<1>7. LegalCard(d)
  <2> HIDE DEF d, t
  <2>1. QED
    BY <1>1, <1>2, <1>6 DEF LegalCard, Injective
<1>8. QED
  BY <1>5, <1>6, <1>7 DEF LegalCards

(* A box is released, or put at the end, where it pushes out the oldest of *)
(* a full card and no other.                                               *)
Releases(was, is) == Len(is) + 1 = Len(was) /\ ToSet(is) \subseteq ToSet(was)

Adds(was, is) == Len(is) = Len(was) + 1 /\ IsPrefix(was, is)

PushesOut(was, is) ==
  /\ Len(is) = Len(was)
  /\ IsPrefix(Tail(was), is)
  /\ is[Len(is)] \notin ToSet(was)

LEMMA TapGivesWay ==
  ASSUME NEW c \in LegalCards, NEW box \in Boxes(c.req), ~DivisionTraps(c)
  PROVE  \/ Releases(c.checkedBoxes, ToggledBoxes(c, box))
         \/ Adds(c.checkedBoxes, ToggledBoxes(c, box))
         \/ /\ Len(c.checkedBoxes) = c.req.num
            /\ PushesOut(c.checkedBoxes, ToggledBoxes(c, box))
<1> DEFINE s == c.checkedBoxes
           T == Boxes(c.req)
           num == c.req.num
           t == ToggledBoxes(c, box)
           m == Append(s, box)
<1>1. /\ s \in Seq(T) /\ Injective(s) /\ Len(s) <= num
      /\ num \in Nat \ {0}
  BY RequirementsAssumption
     DEF LegalCards, LegalCard, Card, Injective, DivisionTraps
<1>2. Len(s) \in Nat /\ DOMAIN s = 1 .. Len(s)
  BY <1>1, LenProperties
<1>3. CASE box \in ToSet(s)
  <2>1. t = RemoveFirst(s, box)
    BY <1>3 DEF ToggledBoxes
  <2> HIDE DEF t, s
  <2>2. PICK k \in 1 .. Len(s) :
          t = [i \in 1 .. (Len(s) - 1) |-> IF i < k THEN s[i] ELSE s[i + 1]]
    BY <1>1, <1>3, <2>1, RemoveFirstKeepsOrder
  <2>3. t \in Seq(T) /\ Len(t) = Len(s) - 1
    BY <1>1, <1>3, <2>1, RemoveFirstKeepsOrder
  <2>4. ASSUME NEW i \in 1 .. Len(t) PROVE \E j \in 1 .. Len(s) : t[i] = s[j]
    <3>1. i \in 1 .. (Len(s) - 1) /\ i \in 1 .. Len(s) /\ i + 1 \in 1 .. Len(s)
      BY <1>2, <2>3
    <3>2. t[i] = s[i] \/ t[i] = s[i + 1]
      BY <2>2, <3>1
    <3>3. QED
      BY <3>1, <3>2
  <2>5. ToSet(t) \subseteq ToSet(s)
    BY <1>2, <2>3, <2>4, LenProperties DEF ToSet
  <2>6. QED
    BY <1>2, <2>3, <2>5 DEF Releases, s, t
<1>4. CASE box \notin ToSet(s)
  <2>1. t = IF Len(m) > num THEN Tail(m) ELSE m
    BY <1>4 DEF ToggledBoxes
  <2>2. /\ m \in Seq(T) /\ m # <<>> /\ Len(m) = Len(s) + 1
        /\ \A i \in 1 .. Len(s) : m[i] = s[i]
        /\ m[Len(s) + 1] = box
    BY <1>1, AppendProperties
  <2> HIDE DEF m, t, s, num, T
  <2>3. CASE Len(m) > num
    <3>1. Len(s) = num
      <4>1. Len(s) \in Nat /\ num \in Nat /\ Len(s) <= num /\ Len(s) + 1 > num
        BY <1>1, <1>2, <2>2, <2>3
      <4>2. QED
        BY <4>1
    <3>2. /\ t \in Seq(T) /\ Len(t) = Len(s)
          /\ \A i \in 1 .. Len(s) : t[i] = m[i + 1]
      BY <1>2, <2>1, <2>2, <2>3, HeadTailProperties
    <3>3. s # <<>>
      BY <1>1, <3>1, EmptySeq
    <3>4. /\ Tail(s) \in Seq(T) /\ Len(Tail(s)) = Len(s) - 1
          /\ \A i \in 1 .. Len(Tail(s)) : Tail(s)[i] = s[i + 1]
      BY <1>1, <3>3, HeadTailProperties
    <3>5. ASSUME NEW i \in 1 .. Len(Tail(s)) PROVE Tail(s)[i] = t[i]
      <4>1. i \in 1 .. Len(s) /\ i + 1 \in 1 .. Len(s)
        BY <1>2, <3>4
      <4>2. QED
        BY <2>2, <3>2, <3>4, <4>1
    <3>6. IsPrefix(Tail(s), t)
      <4>1. Len(Tail(s)) <= Len(t)
        BY <1>2, <3>2, <3>4
      <4>2. QED
        BY <3>2, <3>4, <3>5, <4>1, PrefixByPlaces
    <3>7. t[Len(t)] = box
      <4>1. Len(s) \in 1 .. Len(s)
        BY <1>1, <1>2, <3>1
      <4>2. QED
        BY <2>2, <3>2, <4>1
    <3>8. QED
      BY <1>4, <3>1, <3>2, <3>6, <3>7 DEF PushesOut, s, t, num
  <2>4. CASE ~(Len(m) > num)
    <3>1. t = m
      BY <2>1, <2>4
    <3>2. IsPrefix(s, m)
      BY <1>1, <1>2, <2>2, PrefixByPlaces
    <3>3. QED
      BY <2>2, <3>1, <3>2 DEF Adds, s, t
  <2>5. QED
    BY <2>3, <2>4
<1>5. QED
  BY <1>3, <1>4

(* Typing a comment leaves the numbers of a card alone.                    *)
LEMMA CommentKeepsCardLegal ==
  ASSUME NEW c \in LegalCards, NEW t \in Comments
  PROVE  /\ [c EXCEPT !.comment = t] \in LegalCards
         /\ [c EXCEPT !.comment = t].req = c.req
         /\ [c EXCEPT !.comment = t].id = c.id
         /\ [c EXCEPT !.comment = t].comment = t
         /\ [c EXCEPT !.comment = t].checkedBoxes = c.checkedBoxes
<1> DEFINE d == [c EXCEPT !.comment = t]
<1>1. /\ d \in Card /\ d.req = c.req /\ d.id = c.id
      /\ d.checkedBoxes = c.checkedBoxes /\ d.progress = c.progress
      /\ d.comment = t
  BY DEF LegalCards, Card
<1>2. LegalCard(d)
  <2> HIDE DEF d
  <2>1. QED
    BY <1>1 DEF LegalCards, LegalCard
<1>3. QED
  BY <1>1, <1>2 DEF LegalCards

(* The cards made of a document: legal, one per requirement, in order, and *)
(* each with its position for an id, and nothing ticked or written.        *)
LEMMA FreshCardsProperties ==
  ASSUME NEW reqs \in Seq(Requirements)
  PROVE  /\ FreshCards(reqs) \in Seq(LegalCards)
         /\ Len(FreshCards(reqs)) = Len(reqs)
         /\ \A i \in 1 .. Len(reqs) : /\ FreshCards(reqs)[i].id = i - 1
                                      /\ FreshCards(reqs)[i].req = reqs[i]
                                      /\ FreshCards(reqs)[i].checkedBoxes = <<>>
                                      /\ FreshCards(reqs)[i].comment = NoComment
<1>1. Len(reqs) \in Nat
  BY LenProperties
<1>2. ASSUME NEW i \in 1 .. Len(reqs)
      PROVE  /\ NewCard(i - 1, reqs[i]) \in LegalCards
             /\ NewCard(i - 1, reqs[i]).id = i - 1
             /\ NewCard(i - 1, reqs[i]).req = reqs[i]
             /\ NewCard(i - 1, reqs[i]).checkedBoxes = <<>>
             /\ NewCard(i - 1, reqs[i]).comment = NoComment
  <2> DEFINE c == NewCard(i - 1, reqs[i])
  <2>1. reqs[i] \in Requirements
    BY ElementOfSeq
  <2>2. /\ c \in Card /\ c.checkedBoxes = <<>> /\ c.progress = 0
        /\ c.id = i - 1 /\ c.req = reqs[i] /\ c.comment = NoComment
    BY <1>1, <2>1, CommentsAssumption DEF NewCard, Card
  <2>3. c.req.num \in Nat
    BY <2>1, <2>2, RequirementsAssumption
  <2>4. c.req.num # 0 => Percent(0, c.req.num) = 0
    BY <2>3, PercentProperties
  <2>5. LegalCard(c)
    <3> HIDE DEF c
    <3>1. QED
      BY <2>2, <2>3, <2>4 DEF LegalCard
  <2>6. QED
    BY <2>2, <2>5 DEF LegalCards
<1>3. FreshCards(reqs) \in Seq(LegalCards)
  BY <1>1, <1>2, IsASeq DEF FreshCards
<1>4. QED
  BY <1>1, <1>2, <1>3 DEF FreshCards

(* The cards read back from a file: those saved, numbered from 0, their    *)
(* comments cut short.                                                     *)
LEMMA ReadBackProperties ==
  ASSUME NEW saved \in Seq(LegalCards)
  PROVE  /\ ReadBack(saved) \in Seq(LegalCards)
         /\ Len(ReadBack(saved)) = Len(saved)
         /\ \A i \in 1 .. Len(saved) : /\ ReadBack(saved)[i].id = i - 1
                                       /\ ReadBack(saved)[i].req = saved[i].req
                                       /\ ReadBack(saved)[i].checkedBoxes
                                           = saved[i].checkedBoxes
                                       /\ ReadBack(saved)[i].comment
                                           = BeforeMark[saved[i].comment]
<1>1. Len(saved) \in Nat
  BY LenProperties
<1> DEFINE R(i) == [saved[i] EXCEPT !.id = i - 1, !.comment = BeforeMark[@]]
<1>2. ASSUME NEW i \in 1 .. Len(saved)
      PROVE  /\ R(i) \in LegalCards /\ R(i).id = i - 1 /\ R(i).req = saved[i].req
             /\ R(i).checkedBoxes = saved[i].checkedBoxes
             /\ R(i).comment = BeforeMark[saved[i].comment]
  <2>1. saved[i] \in LegalCards /\ i - 1 \in Nat
    BY <1>1, ElementOfSeq
  <2>2. BeforeMark[saved[i].comment] \in Comments
    BY <2>1, CommentsAssumption DEF LegalCards, Card
  <2>3. /\ R(i) \in Card /\ R(i).id = i - 1 /\ R(i).req = saved[i].req
        /\ R(i).checkedBoxes = saved[i].checkedBoxes
        /\ R(i).progress = saved[i].progress
        /\ R(i).comment = BeforeMark[saved[i].comment]
    BY <2>1, <2>2 DEF LegalCards, Card
  <2>4. LegalCard(R(i))
    <3> HIDE DEF R
    <3>1. QED
      BY <2>1, <2>3 DEF LegalCards, LegalCard
  <2>5. QED
    BY <2>3, <2>4 DEF LegalCards
<1>3. ReadBack(saved) = [i \in 1 .. Len(saved) |-> R(i)]
  BY DEF ReadBack
<1>4. QED
  <2> HIDE DEF R
  <2>1. [i \in 1 .. Len(saved) |-> R(i)] \in Seq(LegalCards)
    BY <1>1, <1>2, IsASeq
  <2>2. QED
    BY <1>1, <1>2, <1>3, <2>1

(* When every card's id is its position, the row found by id is the row of *)
(* the card itself.                                                        *)
LEMMA FirstIndexIsPosition ==
  ASSUME NEW cs \in Seq(Card), NEW k \in 1 .. Len(cs),
         \A i \in 1 .. Len(cs) : cs[i].id = i - 1
  PROVE  FirstIndex(cs, cs[k].id) = k
<1> DEFINE I == {i \in 1 .. Len(cs) : cs[i].id = cs[k].id}
<1>1. Len(cs) \in Nat
  BY LenProperties
<1>2. I = {k}
  BY <1>1
<1>3. Min({k}) = k
  <2>1. {k} \subseteq Nat /\ {k} # {}
    BY <1>1
  <2>2. Min({k}) \in {k}
    BY <2>1, LeastPosition
  <2>3. QED
    BY <2>2
<1>4. FirstIndex(cs, cs[k].id) = Min(I)
  BY <1>2 DEF FirstIndex, SelectInSeq
<1>5. QED
  BY <1>2, <1>3, <1>4
=============================================================================
