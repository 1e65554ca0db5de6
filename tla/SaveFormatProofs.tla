-------------------------- MODULE SaveFormatProofs --------------------------
(***************************************************************************)
(* What the format of the save file keeps, for every database, whatever    *)
(* the user types and taps: no well-formed file but a few odd ones ends    *)
(* the program, a plain list comes back as it was saved, and saving what   *)
(* was loaded loses nothing more.                                          *)
(*                                                                         *)
(* The operators on texts are recursive functions over the places of a     *)
(* sequence.  The first part of this module derives for each its two       *)
(* defining equations: its value on the empty sequence and on a sequence   *)
(* with one more element; all that follows goes by induction on those.     *)
(***************************************************************************)
EXTENDS SaveFormat, SequenceTheorems, WellFoundedInduction, TLAPS

-----------------------------------------------------------------------------
(* Induction, over the numbers and over the sequences, for a set: the      *)
(* property to show is the set of those that have it.                      *)
LEMMA LeastElement ==
  ASSUME NEW S, S \subseteq Nat, S # {}
  PROVE  \E x \in S : \A y \in S : x <= y
<1>1. \E x \in S : \A y \in S : ~(<<y, x>> \in OpToRel(<, Nat))
  BY NatLessThanWellFounded, WFMin
<1>2. PICK x \in S : \A y \in S : ~(<<y, x>> \in OpToRel(<, Nat))
  BY <1>1
<1>3. ASSUME NEW y \in S PROVE x <= y
  <2>1. <<y, x>> \in Nat \X Nat /\ ~(<<y, x>> \in OpToRel(<, Nat))
    BY <1>2
  <2>2. ~(y < x)
    BY <2>1 DEF OpToRel
  <2>3. QED
    BY <2>2
<1>4. QED
  BY <1>3

(* A set with 0 that is closed under the successor holds all numbers.      *)
LEMMA NumberInduction ==
  ASSUME NEW P, 0 \in P, \A n \in Nat : n \in P => n + 1 \in P
  PROVE  Nat \subseteq P
<1> DEFINE S == Nat \ P
<1>1. SUFFICES ASSUME S # {} PROVE FALSE
  OBVIOUS
<1>2. PICK x \in S : \A y \in S : x <= y
  BY <1>1, LeastElement
<1>3. x - 1 \in Nat /\ x - 1 \notin S /\ x = (x - 1) + 1
  BY <1>2
<1>4. QED
  BY <1>3

(* A set with the empty sequence that is closed under Append holds all     *)
(* sequences.                                                              *)
LEMMA AppendInduction ==
  ASSUME NEW T, NEW P, <<>> \in P,
         \A s \in Seq(T), x \in T : s \in P => Append(s, x) \in P
  PROVE  Seq(T) \subseteq P
<1> DEFINE Q == {n \in Nat : \A s \in Seq(T) : Len(s) = n => s \in P}
<1>1. 0 \in Q
  BY EmptySeq
<1>2. ASSUME NEW n \in Nat, n \in Q PROVE n + 1 \in Q
  <2>1. SUFFICES ASSUME NEW s \in Seq(T), Len(s) = n + 1 PROVE s \in P
    OBVIOUS
  <2>2. s # <<>>
    BY <2>1, EmptySeq
  <2>3. PICK r \in Seq(T), x \in T : s = Append(r, x)
    BY <2>2, SequenceEmptyOrAppend
  <2>4. Len(r) \in Nat /\ Len(s) = Len(r) + 1
    BY <2>3, LenProperties, AppendProperties
  <2>5. Len(r) = n
    BY <2>1, <2>4
  <2>6. QED
    BY <1>2, <2>3, <2>5
<1>3. Nat \subseteq Q
  <2> HIDE DEF Q
  <2>1. QED
    BY <1>1, <1>2, NumberInduction
<1>4. QED
  BY <1>3, LenProperties

-----------------------------------------------------------------------------
(* A function that is defined from place to place exists and is unique.    *)
Steps(f, n, base, step) ==
  /\ DOMAIN f = 0 .. n
  /\ f[0] = base
  /\ \A k \in 1 .. n : f[k] = step[<<k, f[k - 1]>>]

(* There is a function that starts at base and goes by step, up to any     *)
(* number.                                                                 *)
LEMMA StepsExist ==
  ASSUME NEW S, NEW base \in S, NEW m \in Nat,
         NEW step \in [(1 .. m) \X S -> S]
  PROVE  \E f \in [0 .. m -> S] : Steps(f, m, base, step)
<1> DEFINE P == {n \in Nat : n <= m => \E f \in [0 .. n -> S] : Steps(f, n, base, step)}
<1>1. 0 \in P
  <2> DEFINE f == [k \in 0 .. 0 |-> base]
  <2>1. f \in [0 .. 0 -> S] /\ Steps(f, 0, base, step)
    BY DEF Steps
  <2>2. QED
    BY <2>1
<1>2. ASSUME NEW n \in Nat, n \in P PROVE n + 1 \in P
  <2>1. SUFFICES ASSUME n + 1 <= m
                 PROVE  \E f \in [0 .. (n + 1) -> S] : Steps(f, n + 1, base, step)
    OBVIOUS
  <2>2. PICK f \in [0 .. n -> S] : Steps(f, n, base, step)
    BY <1>2, <2>1
  <2> DEFINE g == [k \in 0 .. (n + 1) |->
                     IF k = n + 1 THEN step[<<n + 1, f[n]>>] ELSE f[k]]
  <2>3. f[n] \in S /\ n + 1 \in 1 .. m
    BY <2>1, <2>2
  <2>4. step[<<n + 1, f[n]>>] \in S
    BY <2>3
  <2>5. g \in [0 .. (n + 1) -> S]
    BY <2>2, <2>4
  <2>6. g[0] = base /\ DOMAIN g = 0 .. (n + 1)
    BY <2>2 DEF Steps
  <2>7. ASSUME NEW k \in 1 .. (n + 1) PROVE g[k] = step[<<k, g[k - 1]>>]
    <3>1. CASE k = n + 1
      <4>1. k - 1 = n /\ k - 1 \in 0 .. (n + 1) /\ k - 1 # n + 1 /\ k \in 0 .. (n + 1)
        BY <3>1
      <4>2. g[k - 1] = f[n]
        BY <4>1
      <4>3. g[k] = step[<<n + 1, f[n]>>]
        BY <3>1, <4>1
      <4>4. QED
        BY <4>2, <4>3, <3>1
    <3>2. CASE k # n + 1
      <4>1. k \in 1 .. n /\ k - 1 \in 0 .. n /\ k - 1 # n + 1
        BY <3>2
      <4>2. g[k] = f[k] /\ g[k - 1] = f[k - 1]
        BY <4>1
      <4>3. f[k] = step[<<k, f[k - 1]>>]
        BY <4>1, <2>2 DEF Steps
      <4>4. QED
        BY <4>2, <4>3
    <3>3. QED
      BY <3>1, <3>2
  <2>8. Steps(g, n + 1, base, step)
    <3> HIDE DEF g
    <3>1. QED
      BY <2>6, <2>7 DEF Steps
  <2>9. QED
    BY <2>5, <2>8
<1>3. Nat \subseteq P
  <2> HIDE DEF P
  <2>1. QED
    BY <1>1, <1>2, NumberInduction
<1>4. QED
  BY <1>3

(* Two functions that start alike and go on alike end alike.               *)
LEMMA StepsAgree ==
  ASSUME NEW n \in Nat, NEW f, NEW g, f[0] = g[0],
         \A k \in 1 .. n : f[k - 1] = g[k - 1] => f[k] = g[k]
  PROVE  f[n] = g[n]
<1> DEFINE P == {k \in Nat : k <= n => f[k] = g[k]}
<1>1. 0 \in P
  OBVIOUS
<1>2. ASSUME NEW k \in Nat, k \in P PROVE k + 1 \in P
  <2>1. SUFFICES ASSUME k + 1 <= n PROVE f[k + 1] = g[k + 1]
    OBVIOUS
  <2>2. k + 1 \in 1 .. n /\ (k + 1) - 1 = k /\ f[k] = g[k]
    BY <1>2, <2>1
  <2>3. QED
    BY <2>2
<1>3. Nat \subseteq P
  <2> HIDE DEF P
  <2>1. QED
    BY <1>1, <1>2, NumberInduction
<1>4. QED
  BY <1>3

-----------------------------------------------------------------------------
(* Split: the pieces of a text are never none, and none holds the          *)
(* separator.                                                              *)
Pieces(T, sep) == Seq(Seq(T \ {sep})) \ {<<>>}

(* One more symbol leaves pieces, and none of them holds the separator.    *)
LEMMA ExtendType ==
  ASSUME NEW T, NEW sep, NEW ps \in Pieces(T, sep), NEW x \in T
  PROVE  Extend(ps, x, sep) \in Pieces(T, sep)
<1> DEFINE S == Seq(T \ {sep})
<1>1. ps \in Seq(S) /\ ps # <<>> /\ <<>> \in S
  BY EmptySeq DEF Pieces
<1>2. CASE x = sep
  <2>1. Append(ps, <<>>) \in Seq(S) /\ Append(ps, <<>>) # <<>>
    <3> HIDE DEF S
    <3>1. QED
      BY <1>1, AppendProperties
  <2>2. QED
    BY <1>2, <2>1 DEF Extend, Pieces
<1>3. CASE x # sep
  <2>1. Len(ps) \in 1 .. Len(ps) /\ ps[Len(ps)] \in S
    <3> HIDE DEF S
    <3>1. Len(ps) \in Nat \ {0}
      BY <1>1, EmptySeq
    <3>2. QED
      BY <1>1, <3>1, ElementOfSeq
  <2>2. Append(ps[Len(ps)], x) \in S
    <3>1. x \in T \ {sep}
      BY <1>3
    <3>2. QED
      BY <2>1, <3>1, AppendProperties
  <2>3. PICK last : last = Append(ps[Len(ps)], x)
    OBVIOUS
  <2>4. PICK qs : qs = [ps EXCEPT ![Len(ps)] = last]
    OBVIOUS
  <2>5. qs \in Seq(S) /\ Len(qs) = Len(ps)
    <3> HIDE DEF S
    <3>1. QED
      BY <1>1, <2>1, <2>2, <2>3, <2>4, ExceptSeq
  <2>6. qs # <<>>
    <3> HIDE DEF S
    <3>1. Len(ps) # 0
      BY <1>1, EmptySeq
    <3>2. QED
      BY <2>5, <3>1, EmptySeq
  <2>7. Extend(ps, x, sep) = qs
    BY <1>3, <2>3, <2>4 DEF Extend
  <2>8. QED
    BY <2>5, <2>6, <2>7 DEF Pieces
<1>4. QED
  BY <1>2, <1>3

SplitRun(f, t, sep) ==
  /\ f[0] = << <<>> >>
  /\ \A k \in 1 .. Len(t) : f[k] = Extend(f[k - 1], t[k], sep)
  /\ Split(t, sep) = f[Len(t)]

(* The recursion in Split has a solution, a function into the pieces of    *)
(* the text.                                                               *)
LEMMA SplitRuns ==
  ASSUME NEW T, NEW t \in Seq(T), NEW sep
  PROVE  \E f \in [0 .. Len(t) -> Pieces(T, sep)] : SplitRun(f, t, sep)
<1> DEFINE S == Pieces(T, sep)
           m == Len(t)
           base == << <<>> >>
           step == [p \in (1 .. m) \X S |-> Extend(p[2], t[p[1]], sep)]
           next(f) == [n \in 0 .. Len(t) |->
                         IF n = 0 THEN << <<>> >> ELSE Extend(f[n - 1], t[n], sep)]
<1>1. m \in Nat /\ \A k \in 1 .. m : t[k] \in T
  BY LenProperties, ElementOfSeq
<1>2. base \in S
  <2>1. <<>> \in Seq(T \ {sep})
    BY EmptySeq
  <2>2. QED
    BY <2>1 DEF Pieces
<1>3. step \in [(1 .. m) \X S -> S]
  <2>1. ASSUME NEW p \in (1 .. m) \X S PROVE Extend(p[2], t[p[1]], sep) \in S
    BY <1>1, ExtendType
  <2> HIDE DEF S, m
  <2>2. QED
    BY <2>1
<1>4. PICK f \in [0 .. m -> S] : Steps(f, m, base, step)
  <2> HIDE DEF S, m, base, step
  <2>1. QED
    BY <1>1, <1>2, <1>3, StepsExist
<1>5. ASSUME NEW k \in 1 .. m PROVE f[k] = Extend(f[k - 1], t[k], sep)
  <2>1. k - 1 \in 0 .. m
    BY <1>1
  <2>2. f[k - 1] \in S
    BY <1>4, <2>1
  <2>3. f[k] = step[<<k, f[k - 1]>>]
    BY <1>4 DEF Steps
  <2>4. <<k, f[k - 1]>> \in (1 .. m) \X S
    BY <2>2
  <2>5. QED
    BY <2>3, <2>4
<1>6. f[0] = base
  BY <1>4 DEF Steps
<1>7. f = next(f)
  <2>1. DOMAIN f = 0 .. Len(t) /\ f = [n \in 0 .. Len(t) |-> f[n]]
    BY <1>4
  <2>2. ASSUME NEW n \in 0 .. Len(t)
        PROVE  f[n] = IF n = 0 THEN << <<>> >> ELSE Extend(f[n - 1], t[n], sep)
    <3>1. n = 0 \/ n \in 1 .. m
      BY <1>1
    <3>2. QED
      BY <3>1, <1>5, <1>6
  <2>3. QED
    BY <2>1, <2>2
<1>8. PICK u : /\ u = next(u)
               /\ Split(t, sep) = u[Len(t)]
  <2>1. \E g : g = next(g)
    BY <1>7
  <2>2. (CHOOSE g : g = next(g)) = next(CHOOSE g : g = next(g))
    <3> HIDE DEF next
    <3>1. QED
      BY <2>1
  <2>3. Split(t, sep) = (CHOOSE g : g = next(g))[Len(t)]
    BY DEF Split
  <2>4. QED
    BY <2>2, <2>3
<1>9. u[m] = f[m]
  <2>1. ASSUME NEW k \in 1 .. m, u[k - 1] = f[k - 1] PROVE u[k] = f[k]
    <3>1. k \in 0 .. Len(t) /\ k # 0
      BY <1>1
    <3>2. u[k] = Extend(u[k - 1], t[k], sep)
      BY <1>8, <3>1
    <3>3. QED
      BY <3>2, <1>5, <2>1
  <2>2. u[0] = f[0]
    BY <1>6, <1>8, <1>1
  <2>3. QED
    BY <1>1, <2>1, <2>2, StepsAgree
<1>10. SplitRun(f, t, sep)
  BY <1>5, <1>6, <1>8, <1>9 DEF SplitRun
<1>11. QED
  BY <1>4, <1>10

(* Split gives at least one piece, and none that holds the separator.      *)
LEMMA SplitType ==
  ASSUME NEW T, NEW t \in Seq(T), NEW sep
  PROVE  Split(t, sep) \in Pieces(T, sep)
<1>1. Len(t) \in 0 .. Len(t)
  BY LenProperties
<1>2. PICK f \in [0 .. Len(t) -> Pieces(T, sep)] : SplitRun(f, t, sep)
  BY SplitRuns
<1>3. QED
  BY <1>1, <1>2 DEF SplitRun

(* The two equations of Split.                                             *)
LEMMA SplitEmpty ==
  ASSUME NEW sep PROVE Split(<<>>, sep) = << <<>> >>
<1>1. <<>> \in Seq({}) /\ Len(<<>>) = 0
  BY EmptySeq
<1>2. PICK f : SplitRun(f, <<>>, sep)
  BY <1>1, SplitRuns
<1>3. QED
  BY <1>1, <1>2 DEF SplitRun

LEMMA SplitAppend ==
  ASSUME NEW T, NEW t \in Seq(T), NEW x \in T, NEW sep
  PROVE  Split(Append(t, x), sep) = Extend(Split(t, sep), x, sep)
<1>1. PICK s : s = Append(t, x)
  OBVIOUS
<1>2. PICK m : m = Len(t)
  OBVIOUS
<1>3. /\ s \in Seq(T) /\ Len(s) = m + 1 /\ m \in Nat
      /\ \A k \in 1 .. m : s[k] = t[k]
      /\ s[m + 1] = x
  BY <1>1, <1>2, AppendProperties, LenProperties
<1>4. PICK f : SplitRun(f, t, sep)
  BY SplitRuns
<1>5. PICK g : SplitRun(g, s, sep)
  BY <1>3, SplitRuns
<1>6. f[0] = g[0]
  BY <1>4, <1>5 DEF SplitRun
<1>7. ASSUME NEW k \in 1 .. m, f[k - 1] = g[k - 1] PROVE f[k] = g[k]
  <2>1. k \in 1 .. (m + 1) /\ s[k] = t[k]
    BY <1>3
  <2>2. f[k] = Extend(f[k - 1], t[k], sep)
    BY <1>2, <1>4 DEF SplitRun
  <2>3. g[k] = Extend(g[k - 1], s[k], sep)
    BY <1>3, <1>5, <2>1 DEF SplitRun
  <2>4. QED
    BY <2>1, <2>2, <2>3, <1>7
<1>8. f[m] = g[m]
  BY <1>3, <1>6, <1>7, StepsAgree
<1>9. m + 1 \in 1 .. (m + 1) /\ (m + 1) - 1 = m
  BY <1>3
<1>10. g[m + 1] = Extend(g[m], x, sep)
  BY <1>3, <1>5, <1>9 DEF SplitRun
<1>11. Split(s, sep) = g[m + 1] /\ Split(t, sep) = f[m]
  BY <1>2, <1>3, <1>4, <1>5 DEF SplitRun
<1>12. QED
  BY <1>1, <1>8, <1>10, <1>11
-----------------------------------------------------------------------------
(* NonEmpty: what is left of a sequence of pieces without the empty ones.  *)

(* NonEmpty: its recursion has a solution, and what it gives has no empty  *)
(* piece.                                                                  *)
LEMMA AddNonEmptyType ==
  ASSUME NEW T, NEW ps \in Seq(T \ {<<>>}), NEW p \in T
  PROVE  AddNonEmpty(ps, p) \in Seq(T \ {<<>>})
<1>1. CASE p = <<>>
  BY <1>1 DEF AddNonEmpty
<1>2. CASE p # <<>>
  <2>1. p \in T \ {<<>>}
    BY <1>2
  <2>2. Append(ps, p) \in Seq(T \ {<<>>})
    BY <2>1, AppendProperties
  <2>3. QED
    BY <1>2, <2>2 DEF AddNonEmpty
<1>3. QED
  BY <1>1, <1>2

NonEmptyRun(f, pieces) ==
  /\ f[0] = <<>>
  /\ \A k \in 1 .. Len(pieces) : f[k] = AddNonEmpty(f[k - 1], pieces[k])
  /\ NonEmpty(pieces) = f[Len(pieces)]

LEMMA NonEmptyRuns ==
  ASSUME NEW T, NEW pieces \in Seq(T)
  PROVE  \E f \in [0 .. Len(pieces) -> Seq(T \ {<<>>})] : NonEmptyRun(f, pieces)
<1> DEFINE S == Seq(T \ {<<>>})
           X == T
           m == Len(pieces)
           base == <<>>
           step == [p \in (1 .. m) \X S |-> AddNonEmpty(p[2], pieces[p[1]])]
           next(f) == [n \in 0 .. Len(pieces) |->
                         IF n = 0 THEN <<>> ELSE AddNonEmpty(f[n - 1], pieces[n])]
<1>1. m \in Nat /\ \A k \in 1 .. m : pieces[k] \in X
  <2> HIDE DEF X
  <2>1. pieces \in Seq(X)
    BY DEF X
  <2>2. QED
    BY <2>1, LenProperties, ElementOfSeq
<1>2. base \in S
  BY EmptySeq
<1>3. step \in [(1 .. m) \X S -> S]
  <2>1. ASSUME NEW p \in (1 .. m) \X S PROVE AddNonEmpty(p[2], pieces[p[1]]) \in S
    <3>1. p[2] \in S /\ pieces[p[1]] \in X
      BY <1>1
    <3>2. QED
      BY <3>1, AddNonEmptyType
  <2> HIDE DEF S, m, X
  <2>2. QED
    BY <2>1
<1>4. PICK f \in [0 .. m -> S] : Steps(f, m, base, step)
  <2> HIDE DEF S, X, m, base, step
  <2>1. QED
    BY <1>1, <1>2, <1>3, StepsExist
<1>5. ASSUME NEW k \in 1 .. m PROVE f[k] = AddNonEmpty(f[k - 1], pieces[k])
  <2>1. k - 1 \in 0 .. m
    BY <1>1
  <2>2. f[k - 1] \in S
    BY <1>4, <2>1
  <2>3. f[k] = step[<<k, f[k - 1]>>]
    BY <1>4 DEF Steps
  <2>4. <<k, f[k - 1]>> \in (1 .. m) \X S
    BY <2>2
  <2>5. QED
    BY <2>3, <2>4
<1>6. f[0] = base
  BY <1>4 DEF Steps
<1>7. f = next(f)
  <2>1. DOMAIN f = 0 .. Len(pieces) /\ f = [n \in 0 .. Len(pieces) |-> f[n]]
    BY <1>4
  <2>2. ASSUME NEW n \in 0 .. Len(pieces)
        PROVE  f[n] = IF n = 0 THEN <<>> ELSE AddNonEmpty(f[n - 1], pieces[n])
    <3>1. n = 0 \/ n \in 1 .. m
      BY <1>1
    <3>2. QED
      BY <3>1, <1>5, <1>6
  <2>3. QED
    BY <2>1, <2>2
<1>8. PICK u : /\ u = next(u)
               /\ NonEmpty(pieces) = u[Len(pieces)]
  <2>1. \E g : g = next(g)
    BY <1>7
  <2>2. (CHOOSE g : g = next(g)) = next(CHOOSE g : g = next(g))
    <3> HIDE DEF next
    <3>1. QED
      BY <2>1
  <2>3. NonEmpty(pieces) = (CHOOSE g : g = next(g))[Len(pieces)]
    BY DEF NonEmpty
  <2>4. QED
    BY <2>2, <2>3
<1>9. u[m] = f[m]
  <2>1. ASSUME NEW k \in 1 .. m, u[k - 1] = f[k - 1] PROVE u[k] = f[k]
    <3>1. k \in 0 .. Len(pieces) /\ k # 0
      BY <1>1
    <3>2. u[k] = AddNonEmpty(u[k - 1], pieces[k])
      BY <1>8, <3>1
    <3>3. QED
      BY <3>2, <1>5, <2>1
  <2>2. u[0] = f[0]
    BY <1>6, <1>8, <1>1
  <2>3. QED
    BY <1>1, <2>1, <2>2, StepsAgree
<1>10. NonEmptyRun(f, pieces)
  BY <1>5, <1>6, <1>8, <1>9 DEF NonEmptyRun
<1>11. QED
  BY <1>4, <1>10

LEMMA NonEmptyType ==
  ASSUME NEW T, NEW pieces \in Seq(T)
  PROVE  NonEmpty(pieces) \in Seq(T \ {<<>>})
<1>1. Len(pieces) \in 0 .. Len(pieces)
  BY LenProperties
<1>2. PICK f \in [0 .. Len(pieces) -> Seq(T \ {<<>>})] : NonEmptyRun(f, pieces)
  BY NonEmptyRuns
<1>3. QED
  BY <1>1, <1>2 DEF NonEmptyRun

(* The two equations of NonEmpty.                                          *)
LEMMA NonEmptyEmpty == NonEmpty(<<>>) = <<>>
<1>1. PICK X : X = {}
  OBVIOUS
<1>2. <<>> \in Seq(X) /\ Len(<<>>) = 0
  BY EmptySeq
<1>3. PICK f : NonEmptyRun(f, <<>>)
  BY <1>1, <1>2, NonEmptyRuns
<1>4. QED
  BY <1>2, <1>3 DEF NonEmptyRun

LEMMA NonEmptyAppend ==
  ASSUME NEW T, NEW pieces \in Seq(T), NEW x \in T
  PROVE  NonEmpty(Append(pieces, x)) = AddNonEmpty(NonEmpty(pieces), x)
<1>1. PICK s : s = Append(pieces, x)
  OBVIOUS
<1>2. PICK m : m = Len(pieces)
  OBVIOUS
<1>3. /\ s \in Seq(T) /\ Len(s) = m + 1 /\ m \in Nat
      /\ \A k \in 1 .. m : s[k] = pieces[k]
      /\ s[m + 1] = x
  BY <1>1, <1>2, AppendProperties, LenProperties
<1>4. PICK f : NonEmptyRun(f, pieces)
  BY NonEmptyRuns
<1>5. PICK g : NonEmptyRun(g, s)
  BY <1>3, NonEmptyRuns
<1>6. f[0] = g[0]
  BY <1>4, <1>5 DEF NonEmptyRun
<1>7. ASSUME NEW k \in 1 .. m, f[k - 1] = g[k - 1] PROVE f[k] = g[k]
  <2>1. k \in 1 .. (m + 1) /\ s[k] = pieces[k]
    BY <1>3
  <2>2. f[k] = AddNonEmpty(f[k - 1], pieces[k])
    BY <1>2, <1>4 DEF NonEmptyRun
  <2>3. g[k] = AddNonEmpty(g[k - 1], s[k])
    BY <1>3, <1>5, <2>1 DEF NonEmptyRun
  <2>4. QED
    BY <2>1, <2>2, <2>3, <1>7
<1>8. f[m] = g[m]
  BY <1>3, <1>6, <1>7, StepsAgree
<1>9. m + 1 \in 1 .. (m + 1) /\ (m + 1) - 1 = m
  BY <1>3
<1>10. g[m + 1] = AddNonEmpty(g[m], x)
  BY <1>3, <1>5, <1>9 DEF NonEmptyRun
<1>11. NonEmpty(s) = g[m + 1] /\ NonEmpty(pieces) = f[m]
  BY <1>2, <1>3, <1>4, <1>5 DEF NonEmptyRun
<1>12. QED
  BY <1>1, <1>8, <1>10, <1>11

-----------------------------------------------------------------------------
(* Concat: texts one after the other.                                      *)

ConcatRun(f, texts) ==
  /\ f[0] = <<>>
  /\ \A k \in 1 .. Len(texts) : f[k] = f[k - 1] \o texts[k]
  /\ Concat(texts) = f[Len(texts)]

(* Concat: its recursion has a solution, and what it gives is a text.      *)
LEMMA ConcatRuns ==
  ASSUME NEW T, NEW texts \in Seq(Seq(T))
  PROVE  \E f \in [0 .. Len(texts) -> Seq(T)] : ConcatRun(f, texts)
<1> DEFINE S == Seq(T)
           X == Seq(T)
           m == Len(texts)
           base == <<>>
           step == [p \in (1 .. m) \X S |-> p[2] \o texts[p[1]]]
           next(f) == [n \in 0 .. Len(texts) |->
                         IF n = 0 THEN <<>> ELSE f[n - 1] \o texts[n]]
<1>1. m \in Nat /\ \A k \in 1 .. m : texts[k] \in X
  <2> HIDE DEF X
  <2>1. texts \in Seq(X)
    BY DEF X
  <2>2. QED
    BY <2>1, LenProperties, ElementOfSeq
<1>2. base \in S
  BY EmptySeq
<1>3. step \in [(1 .. m) \X S -> S]
  <2>1. ASSUME NEW p \in (1 .. m) \X S PROVE p[2] \o texts[p[1]] \in S
    <3>1. p[2] \in S /\ texts[p[1]] \in X
      BY <1>1
    <3>2. QED
      BY <3>1, ConcatProperties
  <2> HIDE DEF S, m, X
  <2>2. QED
    BY <2>1
<1>4. PICK f \in [0 .. m -> S] : Steps(f, m, base, step)
  <2> HIDE DEF S, X, m, base, step
  <2>1. QED
    BY <1>1, <1>2, <1>3, StepsExist
<1>5. ASSUME NEW k \in 1 .. m PROVE f[k] = f[k - 1] \o texts[k]
  <2>1. k - 1 \in 0 .. m
    BY <1>1
  <2>2. f[k - 1] \in S
    BY <1>4, <2>1
  <2>3. f[k] = step[<<k, f[k - 1]>>]
    BY <1>4 DEF Steps
  <2>4. <<k, f[k - 1]>> \in (1 .. m) \X S
    BY <2>2
  <2>5. QED
    BY <2>3, <2>4
<1>6. f[0] = base
  BY <1>4 DEF Steps
<1>7. f = next(f)
  <2>1. DOMAIN f = 0 .. Len(texts) /\ f = [n \in 0 .. Len(texts) |-> f[n]]
    BY <1>4
  <2>2. ASSUME NEW n \in 0 .. Len(texts)
        PROVE  f[n] = IF n = 0 THEN <<>> ELSE f[n - 1] \o texts[n]
    <3>1. n = 0 \/ n \in 1 .. m
      BY <1>1
    <3>2. QED
      BY <3>1, <1>5, <1>6
  <2>3. QED
    BY <2>1, <2>2
<1>8. PICK u : /\ u = next(u)
               /\ Concat(texts) = u[Len(texts)]
  <2>1. \E g : g = next(g)
    BY <1>7
  <2>2. (CHOOSE g : g = next(g)) = next(CHOOSE g : g = next(g))
    <3> HIDE DEF next
    <3>1. QED
      BY <2>1
  <2>3. Concat(texts) = (CHOOSE g : g = next(g))[Len(texts)]
    BY DEF Concat
  <2>4. QED
    BY <2>2, <2>3
<1>9. u[m] = f[m]
  <2>1. ASSUME NEW k \in 1 .. m, u[k - 1] = f[k - 1] PROVE u[k] = f[k]
    <3>1. k \in 0 .. Len(texts) /\ k # 0
      BY <1>1
    <3>2. u[k] = u[k - 1] \o texts[k]
      BY <1>8, <3>1
    <3>3. QED
      BY <3>2, <1>5, <2>1
  <2>2. u[0] = f[0]
    BY <1>6, <1>8, <1>1
  <2>3. QED
    BY <1>1, <2>1, <2>2, StepsAgree
<1>10. ConcatRun(f, texts)
  BY <1>5, <1>6, <1>8, <1>9 DEF ConcatRun
<1>11. QED
  BY <1>4, <1>10

LEMMA ConcatType ==
  ASSUME NEW T, NEW texts \in Seq(Seq(T))
  PROVE  Concat(texts) \in Seq(T)
<1>1. Len(texts) \in 0 .. Len(texts)
  BY LenProperties
<1>2. PICK f \in [0 .. Len(texts) -> Seq(T)] : ConcatRun(f, texts)
  BY ConcatRuns
<1>3. QED
  BY <1>1, <1>2 DEF ConcatRun

(* The two equations of Concat.                                            *)
LEMMA ConcatEmpty == Concat(<<>>) = <<>>
<1>1. PICK X : X = Seq({})
  OBVIOUS
<1>2. <<>> \in Seq(X) /\ Len(<<>>) = 0
  BY EmptySeq
<1>3. PICK f : ConcatRun(f, <<>>)
  BY <1>1, <1>2, ConcatRuns
<1>4. QED
  BY <1>2, <1>3 DEF ConcatRun

LEMMA ConcatAppend ==
  ASSUME NEW T, NEW texts \in Seq(Seq(T)), NEW x \in Seq(T)
  PROVE  Concat(Append(texts, x)) = Concat(texts) \o x
<1>1. PICK s : s = Append(texts, x)
  OBVIOUS
<1>2. PICK m : m = Len(texts)
  OBVIOUS
<1>3. /\ s \in Seq(Seq(T)) /\ Len(s) = m + 1 /\ m \in Nat
      /\ \A k \in 1 .. m : s[k] = texts[k]
      /\ s[m + 1] = x
  BY <1>1, <1>2, AppendProperties, LenProperties
<1>4. PICK f : ConcatRun(f, texts)
  BY ConcatRuns
<1>5. PICK g : ConcatRun(g, s)
  BY <1>3, ConcatRuns
<1>6. f[0] = g[0]
  BY <1>4, <1>5 DEF ConcatRun
<1>7. ASSUME NEW k \in 1 .. m, f[k - 1] = g[k - 1] PROVE f[k] = g[k]
  <2>1. k \in 1 .. (m + 1) /\ s[k] = texts[k]
    BY <1>3
  <2>2. f[k] = f[k - 1] \o texts[k]
    BY <1>2, <1>4 DEF ConcatRun
  <2>3. g[k] = g[k - 1] \o s[k]
    BY <1>3, <1>5, <2>1 DEF ConcatRun
  <2>4. QED
    BY <2>1, <2>2, <2>3, <1>7
<1>8. f[m] = g[m]
  BY <1>3, <1>6, <1>7, StepsAgree
<1>9. m + 1 \in 1 .. (m + 1) /\ (m + 1) - 1 = m
  BY <1>3
<1>10. g[m + 1] = g[m] \o x
  BY <1>3, <1>5, <1>9 DEF ConcatRun
<1>11. Concat(s) = g[m + 1] /\ Concat(texts) = f[m]
  BY <1>2, <1>3, <1>4, <1>5 DEF ConcatRun
<1>12. QED
  BY <1>1, <1>8, <1>10, <1>11

-----------------------------------------------------------------------------
(* What the operators do to longer texts.                                  *)
LEMMA ConcatOfAppend ==
  ASSUME NEW T, NEW a \in Seq(T), NEW b \in Seq(T), NEW x \in T
  PROVE  Append(a \o b, x) = a \o Append(b, x)
<1>1. <<x>> \in Seq(T) /\ a \o b \in Seq(T)
  BY ConcatProperties
<1>2. Append(a \o b, x) = (a \o b) \o <<x>> /\ Append(b, x) = b \o <<x>>
  BY <1>1, AppendIsConcat
<1>3. (a \o b) \o <<x>> = a \o (b \o <<x>>)
  BY <1>1, ConcatAssociative
<1>4. QED
  BY <1>2, <1>3

(* A further symbol of a text changes its last piece only.                 *)
LEMMA ExtendOfConcat ==
  ASSUME NEW T, NEW ps \in Seq(Seq(T)), NEW qs \in Seq(Seq(T)), qs # <<>>,
         NEW x \in T, NEW sep
  PROVE  Extend(ps \o qs, x, sep) = ps \o Extend(qs, x, sep)
<1> DEFINE U == Seq(T)
<1>1. ps \in Seq(U) /\ qs \in Seq(U) /\ <<>> \in U
  BY EmptySeq
<1>2. CASE x = sep
  <2>1. Append(ps \o qs, <<>>) = ps \o Append(qs, <<>>)
    <3>1. PICK e : e = <<>>
      OBVIOUS
    <3>2. e \in U
      BY <1>1, <3>1
    <3>3. Append(ps \o qs, e) = ps \o Append(qs, e)
      <4> HIDE DEF U
      <4>1. <<e>> \in Seq(U) /\ ps \o qs \in Seq(U)
        BY <1>1, <3>2, ConcatProperties
      <4>2. Append(ps \o qs, e) = (ps \o qs) \o <<e>> /\ Append(qs, e) = qs \o <<e>>
        BY <1>1, <3>2, <4>1, AppendIsConcat
      <4>3. (ps \o qs) \o <<e>> = ps \o (qs \o <<e>>)
        BY <1>1, <4>1, ConcatAssociative
      <4>4. QED
        BY <4>2, <4>3
    <3>4. QED
      BY <3>1, <3>3
  <2>2. QED
    BY <1>2, <2>1 DEF Extend
<1>3. CASE x # sep
  <2>1. PICK m : m = Len(ps)
    OBVIOUS
  <2>2. PICK n : n = Len(qs)
    OBVIOUS
  <2>3. m \in Nat /\ n \in Nat \ {0}
    BY <1>1, <2>1, <2>2, EmptySeq, LenProperties
  <2>4. PICK both : both = ps \o qs
    OBVIOUS
  <2>5. /\ both \in Seq(U) /\ Len(both) = m + n
        /\ \A i \in 1 .. (m + n) : both[i] = IF i <= m THEN ps[i] ELSE qs[i - m]
    <3> HIDE DEF U
    <3>1. QED
      BY <1>1, <2>1, <2>2, <2>4, ConcatProperties
  <2>6. m + n \in 1 .. (m + n) /\ n \in 1 .. n /\ ~(m + n <= m) /\ (m + n) - m = n
    BY <2>3
  <2>7. both[m + n] = qs[n]
    BY <2>5, <2>6
  <2>8. qs[n] \in U
    <3> HIDE DEF U
    <3>1. QED
      BY <1>1, <2>2, <2>6, ElementOfSeq
  <2>9. PICK last : last = Append(qs[n], x)
    OBVIOUS
  <2>10. last \in U
    BY <2>8, <2>9, AppendProperties
  <2>11. PICK longer : longer = [both EXCEPT ![m + n] = last]
    OBVIOUS
  <2>12. PICK longerQs : longerQs = [qs EXCEPT ![n] = last]
    OBVIOUS
  <2>13. /\ longer \in Seq(U) /\ Len(longer) = m + n
         /\ \A i \in 1 .. (m + n) : longer[i] = IF i = m + n THEN last ELSE both[i]
    <3> HIDE DEF U
    <3>1. m + n \in 1 .. Len(both)
      BY <2>5, <2>6
    <3>2. QED
      BY <2>5, <2>10, <2>11, <3>1, ExceptSeq
  <2>14. /\ longerQs \in Seq(U) /\ Len(longerQs) = n
         /\ \A i \in 1 .. n : longerQs[i] = IF i = n THEN last ELSE qs[i]
    <3> HIDE DEF U
    <3>1. n \in 1 .. Len(qs)
      BY <2>2, <2>6
    <3>2. QED
      BY <1>1, <2>2, <2>10, <2>12, <3>1, ExceptSeq
  <2>15. PICK right : right = ps \o longerQs
    OBVIOUS
  <2>16. /\ right \in Seq(U) /\ Len(right) = m + n
         /\ \A i \in 1 .. (m + n) : right[i] = IF i <= m THEN ps[i] ELSE longerQs[i - m]
    <3> HIDE DEF U
    <3>1. QED
      BY <1>1, <2>1, <2>14, <2>15, ConcatProperties
  <2>17. ASSUME NEW i \in 1 .. (m + n) PROVE longer[i] = right[i]
    <3>1. CASE i <= m
      <4>1. i # m + n
        BY <2>3, <3>1
      <4>2. QED
        BY <3>1, <4>1, <2>5, <2>13, <2>16
    <3>2. CASE ~(i <= m)
      <4>1. i - m \in 1 .. n /\ (i - m = n <=> i = m + n)
        BY <2>3, <3>2
      <4>2. longerQs[i - m] = IF i = m + n THEN last ELSE qs[i - m]
        BY <4>1, <2>14
      <4>3. QED
        BY <3>2, <4>2, <2>5, <2>13, <2>16
    <3>3. QED
      BY <3>1, <3>2
  <2>18. longer = right
    <3> HIDE DEF U
    <3>1. QED
      BY <2>13, <2>16, <2>17, SeqEqual
  <2>19. Extend(both, x, sep) = longer
    BY <1>3, <2>5, <2>7, <2>9, <2>11 DEF Extend
  <2>20. Extend(qs, x, sep) = longerQs
    BY <1>3, <2>2, <2>9, <2>12 DEF Extend
  <2>21. QED
    BY <2>4, <2>15, <2>18, <2>19, <2>20
<1>4. QED
  BY <1>2, <1>3

(* A text in two parts with a separator between them has the pieces of     *)
(* both.                                                                   *)
LEMMA SplitTwo ==
  ASSUME NEW T, NEW a \in Seq(T), NEW sep \in T, NEW b \in Seq(T)
  PROVE  Split(a \o <<sep>> \o b, sep) = Split(a, sep) \o Split(b, sep)
<1> DEFINE U == Seq(T \ {sep})
           start == a \o <<sep>>
           P == {d \in Seq(T) : Split(start \o d, sep) = Split(a, sep) \o Split(d, sep)}
<1>1. start \in Seq(T) /\ start = Append(a, sep)
  BY ConcatProperties, AppendIsConcat, AppendProperties
<1>2. \A d \in Seq(T) : Split(d, sep) \in Seq(U) /\ Split(d, sep) # <<>>
  BY SplitType DEF Pieces
<1>3. <<>> \in P
  <2>1. start \o <<>> = start
    <3> HIDE DEF start
    <3>1. QED
      BY <1>1, ConcatEmptySeq
  <2>2. Split(start, sep) = Extend(Split(a, sep), sep, sep)
    BY <1>1, SplitAppend
  <2>3. Extend(Split(a, sep), sep, sep) = Append(Split(a, sep), <<>>)
    BY DEF Extend
  <2>4. Append(Split(a, sep), <<>>) = Split(a, sep) \o << <<>> >>
    <3>1. <<>> \in U
      BY EmptySeq
    <3> HIDE DEF U
    <3>2. QED
      BY <1>2, <3>1, AppendIsConcat
  <2>5. Split(<<>>, sep) = << <<>> >>
    BY SplitEmpty
  <2>6. <<>> \in Seq(T)
    BY EmptySeq
  <2>7. QED
    BY <2>1, <2>2, <2>3, <2>4, <2>5, <2>6
<1>4. ASSUME NEW d \in Seq(T), NEW x \in T, d \in P PROVE Append(d, x) \in P
  <2>1. start \o Append(d, x) = Append(start \o d, x) /\ start \o d \in Seq(T)
    <3> HIDE DEF start
    <3>1. QED
      BY <1>1, ConcatOfAppend, ConcatProperties
  <2>2. Split(Append(start \o d, x), sep) = Extend(Split(start \o d, sep), x, sep)
    <3> HIDE DEF start
    <3>1. QED
      BY <2>1, SplitAppend
  <2>3. Split(start \o d, sep) = Split(a, sep) \o Split(d, sep)
    BY <1>4
  <2>4. Extend(Split(a, sep) \o Split(d, sep), x, sep)
          = Split(a, sep) \o Extend(Split(d, sep), x, sep)
    <3>1. U \subseteq Seq(T)
      BY SeqMonotonic
    <3>2. Split(a, sep) \in Seq(Seq(T)) /\ Split(d, sep) \in Seq(Seq(T))
      <4> HIDE DEF U
      <4>1. QED
        BY <1>2, <3>1, SeqMonotonic
    <3>3. PICK ps : ps = Split(a, sep)
      OBVIOUS
    <3>4. PICK qs : qs = Split(d, sep)
      OBVIOUS
    <3>5. ps \in Seq(Seq(T)) /\ qs \in Seq(Seq(T)) /\ qs # <<>>
      BY <1>2, <3>2, <3>3, <3>4
    <3>6. Extend(ps \o qs, x, sep) = ps \o Extend(qs, x, sep)
      BY <3>5, ExtendOfConcat
    <3>7. QED
      BY <3>3, <3>4, <3>6
  <2>5. Split(Append(d, x), sep) = Extend(Split(d, sep), x, sep)
    BY SplitAppend
  <2>6. Append(d, x) \in Seq(T)
    BY AppendProperties
  <2> HIDE DEF start
  <2>7. QED
    BY <2>1, <2>2, <2>3, <2>4, <2>5, <2>6
<1>5. Seq(T) \subseteq P
  <2> HIDE DEF P
  <2>1. QED
    BY <1>3, <1>4, AppendInduction
<1>6. QED
  BY <1>5

(* A text without the separator is its only piece.                         *)
LEMMA SplitFree ==
  ASSUME NEW T, NEW sep, NEW t \in Seq(T \ {sep})
  PROVE  Split(t, sep) = <<t>>
<1> DEFINE X == T \ {sep}
           P == {d \in Seq(X) : Split(d, sep) = <<d>>}
<1>1. <<>> \in P
  BY EmptySeq, SplitEmpty
<1>2. ASSUME NEW d \in Seq(X), NEW x \in X, d \in P PROVE Append(d, x) \in P
  <2>1. Append(d, x) \in Seq(X)
    <3> HIDE DEF X
    <3>1. QED
      BY AppendProperties
  <2>2. Split(Append(d, x), sep) = Extend(<<d>>, x, sep)
    <3>1. Split(d, sep) = <<d>>
      BY <1>2
    <3> HIDE DEF X
    <3>2. QED
      BY <3>1, SplitAppend
  <2>3. PICK e : e = Append(d, x)
    OBVIOUS
  <2>4. Extend(<<d>>, x, sep) = <<e>>
    BY <2>3 DEF Extend
  <2>5. QED
    BY <2>1, <2>2, <2>3, <2>4
<1>3. Seq(X) \subseteq P
  <2> HIDE DEF P, X
  <2>1. QED
    BY <1>1, <1>2, AppendInduction
<1>4. QED
  BY <1>3

-----------------------------------------------------------------------------
(* Join, by the number of its pieces.                                      *)
Between(pieces, sep) ==
  [k \in 1 .. Len(pieces) |-> IF k = 1 THEN pieces[k] ELSE <<sep>> \o pieces[k]]

(* What Join concatenates is a sequence of texts, and so Join gives a      *)
(* text.                                                                   *)
LEMMA BetweenType ==
  ASSUME NEW T, NEW sep \in T, NEW ps \in Seq(Seq(T))
  PROVE  Between(ps, sep) \in Seq(Seq(T))
<1> DEFINE U == Seq(T)
           e(k) == IF k = 1 THEN ps[k] ELSE <<sep>> \o ps[k]
<1>1. Len(ps) \in Nat /\ \A k \in 1 .. Len(ps) : ps[k] \in U
  <2>1. ps \in Seq(U)
    OBVIOUS
  <2> HIDE DEF U
  <2>2. QED
    BY <2>1, LenProperties, ElementOfSeq
<1>2. ASSUME NEW k \in 1 .. Len(ps) PROVE e(k) \in U
  <2>1. ps[k] \in Seq(T) /\ <<sep>> \in Seq(T)
    BY <1>1
  <2>2. <<sep>> \o ps[k] \in Seq(T)
    BY <2>1, ConcatProperties
  <2>3. QED
    BY <2>1, <2>2
<1>3. [k \in 1 .. Len(ps) |-> e(k)] \in Seq(U)
  <2> HIDE DEF U, e
  <2>1. QED
    BY <1>1, <1>2, IsASeq
<1>4. QED
  BY <1>3 DEF Between

LEMMA JoinType ==
  ASSUME NEW T, NEW sep \in T, NEW ps \in Seq(Seq(T))
  PROVE  Join(ps, sep) \in Seq(T)
<1>1. Join(ps, sep) = Concat(Between(ps, sep))
  BY DEF Join, Between
<1>2. QED
  BY <1>1, BetweenType, ConcatType

(* The two equations of Join.                                              *)
LEMMA JoinEmpty == ASSUME NEW sep PROVE Join(<<>>, sep) = <<>>
<1>1. Between(<<>>, sep) = <<>>
  BY DEF Between
<1>2. Join(<<>>, sep) = Concat(Between(<<>>, sep))
  BY DEF Join, Between
<1>3. QED
  BY <1>1, <1>2, ConcatEmpty

LEMMA JoinAppend ==
  ASSUME NEW T, NEW sep \in T, NEW ps \in Seq(Seq(T)), NEW p \in Seq(T)
  PROVE  Join(Append(ps, p), sep)
           = IF ps = <<>> THEN p ELSE Join(ps, sep) \o <<sep>> \o p
<1> DEFINE U == Seq(T)
           new == IF ps = <<>> THEN p ELSE <<sep>> \o p
<1>1. PICK m : m = Len(ps)
  OBVIOUS
<1>2. PICK qs : qs = Append(ps, p)
  OBVIOUS
<1>3. PICK b : b = Between(ps, sep)
  OBVIOUS
<1>4. PICK c : c = Between(qs, sep)
  OBVIOUS
<1>5. m \in Nat /\ (ps = <<>> <=> m = 0)
  BY <1>1, EmptySeq, LenProperties
<1>6. /\ qs \in Seq(U) /\ Len(qs) = m + 1
      /\ \A k \in 1 .. m : qs[k] = ps[k]
      /\ qs[m + 1] = p
  <2>1. ps \in Seq(U) /\ p \in U
    OBVIOUS
  <2> HIDE DEF U
  <2>2. QED
    BY <1>1, <1>2, <2>1, AppendProperties
<1>7. new \in U
  <2>1. <<sep>> \in Seq(T)
    OBVIOUS
  <2>2. <<sep>> \o p \in Seq(T)
    BY <2>1, ConcatProperties
  <2>3. QED
    BY <2>2
<1>8. /\ b \in Seq(U) /\ c \in Seq(U)
  BY <1>3, <1>4, <1>6, BetweenType
<1>9. /\ DOMAIN b = 1 .. m
      /\ \A k \in 1 .. m : b[k] = IF k = 1 THEN ps[k] ELSE <<sep>> \o ps[k]
  BY <1>1, <1>3 DEF Between
<1>10. /\ DOMAIN c = 1 .. (m + 1)
       /\ \A k \in 1 .. (m + 1) : c[k] = IF k = 1 THEN qs[k] ELSE <<sep>> \o qs[k]
  BY <1>4, <1>6 DEF Between
<1>11. Len(b) = m /\ Len(c) = m + 1
  <2>1. DOMAIN b = 1 .. Len(b) /\ Len(b) \in Nat
    <3> HIDE DEF U
    <3>1. QED
      BY <1>8, LenProperties
  <2>2. DOMAIN c = 1 .. Len(c) /\ Len(c) \in Nat
    <3> HIDE DEF U
    <3>1. QED
      BY <1>8, LenProperties
  <2>3. QED
    BY <1>5, <1>9, <1>10, <2>1, <2>2
<1>12. PICK d : d = Append(b, new)
  OBVIOUS
<1>13. /\ d \in Seq(U) /\ Len(d) = m + 1
       /\ \A k \in 1 .. m : d[k] = b[k]
       /\ d[m + 1] = new
  <2> HIDE DEF U, new
  <2>1. QED
    BY <1>7, <1>8, <1>11, <1>12, AppendProperties
<1>14. ASSUME NEW k \in 1 .. (m + 1) PROVE c[k] = d[k]
  <2>1. CASE k = m + 1
    <3>1. k = 1 <=> ps = <<>>
      BY <1>5, <2>1
    <3>2. c[k] = IF k = 1 THEN p ELSE <<sep>> \o p
      BY <1>6, <1>10, <2>1
    <3>3. QED
      BY <1>13, <2>1, <3>1, <3>2
  <2>2. CASE k # m + 1
    <3>1. k \in 1 .. m
      BY <1>5, <2>2
    <3>2. k \in 1 .. (m + 1)
      OBVIOUS
    <3>3. c[k] = IF k = 1 THEN qs[k] ELSE <<sep>> \o qs[k]
      BY <3>2, <1>10
    <3>4. qs[k] = ps[k] /\ d[k] = b[k]
      BY <3>1, <1>6, <1>13
    <3>5. b[k] = IF k = 1 THEN ps[k] ELSE <<sep>> \o ps[k]
      BY <3>1, <1>9
    <3>6. QED
      BY <3>3, <3>4, <3>5
  <2>3. QED
    BY <2>1, <2>2
<1>15. c = d
  <2> HIDE DEF U
  <2>1. QED
    BY <1>8, <1>11, <1>13, <1>14, SeqEqual
<1>16. Concat(d) = Concat(b) \o new
  <2>1. b \in Seq(Seq(T)) /\ new \in Seq(T)
    BY <1>7, <1>8
  <2> HIDE DEF new
  <2>2. QED
    BY <1>12, <2>1, ConcatAppend
<1>17. Join(qs, sep) = Concat(c) /\ Join(ps, sep) = Concat(b)
  BY <1>3, <1>4 DEF Join, Between
<1>18. CASE ps = <<>>
  <2>1. Join(ps, sep) = <<>>
    BY <1>18, JoinEmpty
  <2>2. Concat(b) \o new = p
    BY <1>17, <1>18, <2>1, ConcatEmptySeq
  <2>3. QED
    BY <1>2, <1>15, <1>16, <1>17, <1>18, <2>2
<1>19. CASE ps # <<>>
  <2>1. Join(ps, sep) \in Seq(T) /\ <<sep>> \in Seq(T)
    BY JoinType
  <2>2. Join(ps, sep) \o <<sep>> \o p = Join(ps, sep) \o (<<sep>> \o p)
    BY <2>1, ConcatAssociative
  <2>3. QED
    BY <1>2, <1>15, <1>16, <1>17, <1>19, <2>2
<1>20. QED
  BY <1>18, <1>19

(* The pieces that were joined are those that it is split into, if none    *)
(* holds the separator.                                                    *)
LEMMA SplitOfJoinAppend ==
  ASSUME NEW T, NEW sep \in T, NEW ps \in Seq(Seq(T)), NEW p \in Seq(T), ps # <<>>
  PROVE  Split(Join(Append(ps, p), sep), sep) = Split(Join(ps, sep), sep) \o Split(p, sep)
<1>1. PICK a : a = Join(ps, sep)
  OBVIOUS
<1>2. a \in Seq(T)
  BY <1>1, JoinType
<1>3. Join(Append(ps, p), sep) = a \o <<sep>> \o p
  BY <1>1, JoinAppend
<1>4. Split(a \o <<sep>> \o p, sep) = Split(a, sep) \o Split(p, sep)
  BY <1>2, SplitTwo
<1>5. QED
  BY <1>1, <1>3, <1>4

(* Split takes apart what Join put together, when no part holds the        *)
(* separator.                                                              *)
LEMMA SplitOfJoin ==
  ASSUME NEW T, NEW sep \in T, NEW ps \in Seq(Seq(T \ {sep}))
  PROVE  Split(Join(ps, sep), sep) = IF ps = <<>> THEN << <<>> >> ELSE ps
<1> DEFINE X == Seq(T \ {sep})
           P == {qs \in Seq(X) :
                   Split(Join(qs, sep), sep) = IF qs = <<>> THEN << <<>> >> ELSE qs}
<1>1. <<>> \in P
  BY EmptySeq, JoinEmpty, SplitEmpty
<1>2. ASSUME NEW qs \in Seq(X), NEW p \in X, qs \in P PROVE Append(qs, p) \in P
  <2>1. Append(qs, p) \in Seq(X) /\ Append(qs, p) # <<>>
    <3> HIDE DEF X
    <3>1. QED
      BY AppendProperties
  <2>2. X \subseteq Seq(T)
    BY SeqMonotonic
  <2>3. p \in Seq(T) /\ qs \in Seq(Seq(T))
    <3> HIDE DEF X
    <3>1. QED
      BY <2>2, SeqMonotonic
  <2>4. Split(p, sep) = <<p>>
    BY SplitFree
  <2>5. Split(Join(Append(qs, p), sep), sep) = Append(qs, p)
    <3>1. CASE qs = <<>>
      <4>1. Join(Append(qs, p), sep) = p
        BY <3>1, <2>3, JoinAppend
      <4>2. Append(qs, p) = <<p>>
        BY <3>1
      <4>3. QED
        BY <4>1, <4>2, <2>4
    <3>2. CASE qs # <<>>
      <4>1. Split(Join(Append(qs, p), sep), sep) = Split(Join(qs, sep), sep) \o Split(p, sep)
        <5> HIDE DEF X
        <5>1. QED
          BY <3>2, <2>3, SplitOfJoinAppend
      <4>2. Split(Join(qs, sep), sep) = qs
        BY <1>2, <3>2
      <4>3. Append(qs, p) = qs \o <<p>>
        <5> HIDE DEF X
        <5>1. QED
          BY AppendIsConcat
      <4>4. QED
        BY <4>1, <4>2, <4>3, <2>4
    <3>3. QED
      BY <3>1, <3>2
  <2>6. QED
    BY <2>1, <2>5
<1>3. Seq(X) \subseteq P
  <2> HIDE DEF P, X
  <2>1. QED
    BY <1>1, <1>2, AppendInduction
<1>4. QED
  BY <1>3

-----------------------------------------------------------------------------
(* NonEmpty keeps a sequence that has no empty piece, and what it leaves   *)
(* of two sequences is what it leaves of each.                             *)
LEMMA NonEmptyAll ==
  ASSUME NEW T, NEW ps \in Seq(T \ {<<>>}) PROVE NonEmpty(ps) = ps
<1> DEFINE X == T \ {<<>>}
           P == {qs \in Seq(X) : NonEmpty(qs) = qs}
<1>1. <<>> \in P
  BY EmptySeq, NonEmptyEmpty
<1>2. ASSUME NEW qs \in Seq(X), NEW p \in X, qs \in P PROVE Append(qs, p) \in P
  <2>1. Append(qs, p) \in Seq(X)
    <3> HIDE DEF X
    <3>1. QED
      BY AppendProperties
  <2>2. NonEmpty(Append(qs, p)) = AddNonEmpty(NonEmpty(qs), p)
    <3> HIDE DEF X
    <3>1. QED
      BY NonEmptyAppend
  <2>3. AddNonEmpty(qs, p) = Append(qs, p)
    BY DEF AddNonEmpty
  <2>4. QED
    BY <1>2, <2>1, <2>2, <2>3
<1>3. Seq(X) \subseteq P
  <2> HIDE DEF P, X
  <2>1. QED
    BY <1>1, <1>2, AppendInduction
<1>4. QED
  BY <1>3

(* NonEmpty may be taken of the parts of a sequence.                       *)
LEMMA NonEmptyOfConcat ==
  ASSUME NEW T, NEW ps \in Seq(T), NEW qs \in Seq(T)
  PROVE  NonEmpty(ps \o qs) = NonEmpty(ps) \o NonEmpty(qs)
<1> DEFINE P == {rs \in Seq(T) : NonEmpty(ps \o rs) = NonEmpty(ps) \o NonEmpty(rs)}
<1>1. \A rs \in Seq(T) : NonEmpty(rs) \in Seq(T \ {<<>>})
  BY NonEmptyType
<1>2. <<>> \in P
  <2>1. ps \o <<>> = ps
    BY ConcatEmptySeq
  <2>2. NonEmpty(ps) \o <<>> = NonEmpty(ps)
    BY <1>1, ConcatEmptySeq
  <2>3. QED
    BY <2>1, <2>2, EmptySeq, NonEmptyEmpty
<1>3. ASSUME NEW rs \in Seq(T), NEW p \in T, rs \in P PROVE Append(rs, p) \in P
  <2>1. Append(rs, p) \in Seq(T)
    BY AppendProperties
  <2>2. ps \o Append(rs, p) = Append(ps \o rs, p)
    BY ConcatOfAppend
  <2>3. ps \o rs \in Seq(T)
    BY ConcatProperties
  <2>4. NonEmpty(Append(ps \o rs, p)) = AddNonEmpty(NonEmpty(ps \o rs), p)
    BY <2>3, NonEmptyAppend
  <2>5. NonEmpty(Append(rs, p)) = AddNonEmpty(NonEmpty(rs), p)
    BY NonEmptyAppend
  <2>6. NonEmpty(ps \o rs) = NonEmpty(ps) \o NonEmpty(rs)
    BY <1>3
  <2>7. AddNonEmpty(NonEmpty(ps) \o NonEmpty(rs), p)
          = NonEmpty(ps) \o AddNonEmpty(NonEmpty(rs), p)
    <3>1. CASE p = <<>>
      BY <3>1 DEF AddNonEmpty
    <3>2. CASE p # <<>>
      <4>1. PICK a : a = NonEmpty(ps)
        OBVIOUS
      <4>2. PICK b : b = NonEmpty(rs)
        OBVIOUS
      <4>3. PICK X : X = T \ {<<>>}
        OBVIOUS
      <4>4. a \in Seq(X) /\ b \in Seq(X) /\ p \in X
        BY <1>1, <3>2, <4>1, <4>2, <4>3
      <4>5. Append(a \o b, p) = a \o Append(b, p)
        <5>1. a \o b \in Seq(X) /\ <<p>> \in Seq(X)
          BY <4>4, ConcatProperties
        <5>2. Append(a \o b, p) = (a \o b) \o <<p>> /\ Append(b, p) = b \o <<p>>
          BY <4>4, <5>1, AppendIsConcat
        <5>3. (a \o b) \o <<p>> = a \o (b \o <<p>>)
          <6>1. \A x \in Seq(X) : (a \o b) \o x = a \o (b \o x)
            BY <4>4, ConcatAssociative
          <6>2. QED
            BY <5>1, <6>1
        <5>4. QED
          BY <5>2, <5>3
      <4>6. QED
        BY <3>2, <4>1, <4>2, <4>5 DEF AddNonEmpty
    <3>3. QED
      BY <3>1, <3>2
  <2>8. QED
    BY <2>1, <2>2, <2>4, <2>5, <2>6, <2>7
<1>4. Seq(T) \subseteq P
  <2> HIDE DEF P
  <2>1. QED
    BY <1>2, <1>3, AppendInduction
<1>5. QED
  BY <1>4

(* split() of joined texts gives those that are not empty.                 *)
LEMMA NonEmptyOfSplitJoin ==
  ASSUME NEW T, NEW sep \in T, NEW ps \in Seq(Seq(T \ {sep}))
  PROVE  NonEmpty(Split(Join(ps, sep), sep)) = NonEmpty(ps)
<1>1. CASE ps = <<>>
  <2>1. PICK e : e = << <<>> >>
    OBVIOUS
  <2>2. Split(Join(ps, sep), sep) = e
    BY <1>1, <2>1, SplitOfJoin
  <2>3. PICK X : X = { <<>> }
    OBVIOUS
  <2>4. <<>> \in X /\ <<>> \in Seq(X)
    BY <2>3, EmptySeq
  <2>5. e = Append(<<>>, <<>>)
    BY <2>1
  <2>6. NonEmpty(Append(<<>>, <<>>)) = AddNonEmpty(NonEmpty(<<>>), <<>>)
    BY <2>4, NonEmptyAppend
  <2>7. QED
    BY <1>1, <2>2, <2>5, <2>6, NonEmptyEmpty DEF AddNonEmpty
<1>2. CASE ps # <<>>
  BY <1>2, SplitOfJoin
<1>3. QED
  BY <1>1, <1>2

-----------------------------------------------------------------------------
(* A text that ends every one of its lines.                                *)
Ended(lines, sep) == [k \in 1 .. Len(lines) |-> lines[k] \o <<sep>>]

(* Lines with their ends are texts.                                        *)
LEMMA EndedType ==
  ASSUME NEW T, NEW sep \in T, NEW ls \in Seq(Seq(T))
  PROVE  Ended(ls, sep) \in Seq(Seq(T)) /\ Len(Ended(ls, sep)) = Len(ls)
<1> DEFINE U == Seq(T)
           e(k) == ls[k] \o <<sep>>
<1>1. Len(ls) \in Nat /\ \A k \in 1 .. Len(ls) : ls[k] \in U
  <2>1. ls \in Seq(U)
    OBVIOUS
  <2> HIDE DEF U
  <2>2. QED
    BY <2>1, LenProperties, ElementOfSeq
<1>2. ASSUME NEW k \in 1 .. Len(ls) PROVE e(k) \in U
  <2>1. ls[k] \in Seq(T) /\ <<sep>> \in Seq(T)
    BY <1>1
  <2>2. QED
    BY <2>1, ConcatProperties
<1>3. [k \in 1 .. Len(ls) |-> e(k)] \in Seq(U)
  <2> HIDE DEF U, e
  <2>1. QED
    BY <1>1, <1>2, IsASeq
<1>4. PICK d : d = Ended(ls, sep)
  OBVIOUS
<1>5. d \in Seq(U) /\ DOMAIN d = 1 .. Len(ls)
  BY <1>3, <1>4 DEF Ended
<1>6. DOMAIN d = 1 .. Len(d) /\ Len(d) \in Nat
  <2> HIDE DEF U
  <2>1. QED
    BY <1>5, LenProperties
<1>7. QED
  BY <1>1, <1>4, <1>5, <1>6

(* One more line is written after the others.                              *)
LEMMA EndedAppend ==
  ASSUME NEW T, NEW sep \in T, NEW ls \in Seq(Seq(T)), NEW p \in Seq(T)
  PROVE  Concat(Ended(Append(ls, p), sep)) = Concat(Ended(ls, sep)) \o (p \o <<sep>>)
<1> DEFINE U == Seq(T)
<1>1. PICK m : m = Len(ls)
  OBVIOUS
<1>2. PICK qs : qs = Append(ls, p)
  OBVIOUS
<1>3. PICK b : b = Ended(ls, sep)
  OBVIOUS
<1>4. PICK c : c = Ended(qs, sep)
  OBVIOUS
<1>5. PICK new : new = p \o <<sep>>
  OBVIOUS
<1>6. /\ qs \in Seq(U) /\ Len(qs) = m + 1 /\ m \in Nat
      /\ \A k \in 1 .. m : qs[k] = ls[k]
      /\ qs[m + 1] = p
  <2>1. ls \in Seq(U) /\ p \in U
    OBVIOUS
  <2> HIDE DEF U
  <2>2. QED
    BY <1>1, <1>2, <2>1, AppendProperties, LenProperties
<1>7. new \in U
  <2>1. <<sep>> \in Seq(T)
    OBVIOUS
  <2>2. QED
    BY <1>5, <2>1, ConcatProperties
<1>8. b \in Seq(U) /\ Len(b) = m /\ c \in Seq(U) /\ Len(c) = m + 1
  BY <1>1, <1>3, <1>4, <1>6, EndedType
<1>9. \A k \in 1 .. m : b[k] = ls[k] \o <<sep>>
  BY <1>1, <1>3 DEF Ended
<1>10. \A k \in 1 .. (m + 1) : c[k] = qs[k] \o <<sep>>
  BY <1>4, <1>6 DEF Ended
<1>11. PICK d : d = Append(b, new)
  OBVIOUS
<1>12. /\ d \in Seq(U) /\ Len(d) = m + 1
       /\ \A k \in 1 .. m : d[k] = b[k]
       /\ d[m + 1] = new
  <2> HIDE DEF U
  <2>1. QED
    BY <1>7, <1>8, <1>11, AppendProperties
<1>13. ASSUME NEW k \in 1 .. (m + 1) PROVE c[k] = d[k]
  <2>1. CASE k = m + 1
    BY <1>5, <1>6, <1>10, <1>12, <2>1
  <2>2. CASE k # m + 1
    <3>1. k \in 1 .. m
      BY <1>6, <2>2
    <3>2. c[k] = qs[k] \o <<sep>>
      BY <1>10
    <3>3. d[k] = ls[k] \o <<sep>> /\ qs[k] = ls[k]
      BY <3>1, <1>6, <1>9, <1>12
    <3>4. QED
      BY <3>2, <3>3
  <2>3. QED
    BY <2>1, <2>2
<1>14. c = d
  <2> HIDE DEF U
  <2>1. QED
    BY <1>8, <1>12, <1>13, SeqEqual
<1>15. Concat(d) = Concat(b) \o new
  <2>1. b \in Seq(Seq(T)) /\ new \in Seq(T)
    BY <1>7, <1>8
  <2>2. QED
    BY <1>11, <2>1, ConcatAppend
<1>16. QED
  BY <1>2, <1>3, <1>4, <1>5, <1>14, <1>15

(* Its pieces are the lines, and what follows the last of them.            *)
LEMMA SplitOfEnded ==
  ASSUME NEW T, NEW sep \in T, NEW lines \in Seq(Seq(T \ {sep})), NEW rest \in Seq(T \ {sep})
  PROVE  Split(Concat(Ended(lines, sep)) \o rest, sep) = Append(lines, rest)
<1> DEFINE X == Seq(T \ {sep})
           P == {ls \in Seq(X) : \A r \in X :
                   Split(Concat(Ended(ls, sep)) \o r, sep) = Append(ls, r)}
<1>1. X \subseteq Seq(T)
  BY SeqMonotonic
<1>2. <<>> \in P
  <2>1. Ended(<<>>, sep) = <<>>
    BY DEF Ended
  <2>2. ASSUME NEW r \in X PROVE Split(Concat(Ended(<<>>, sep)) \o r, sep) = Append(<<>>, r)
    <3>1. <<>> \o r = r
      BY ConcatEmptySeq
    <3>2. Split(r, sep) = <<r>>
      BY SplitFree
    <3>3. Append(<<>>, r) = <<r>>
      OBVIOUS
    <3>4. QED
      BY <2>1, <3>1, <3>2, <3>3, ConcatEmpty
  <2>3. QED
    BY <2>2, EmptySeq
<1>3. ASSUME NEW ls \in Seq(X), NEW p \in X, ls \in P PROVE Append(ls, p) \in P
  <2>1. Append(ls, p) \in Seq(X)
    <3> HIDE DEF X
    <3>1. QED
      BY AppendProperties
  <2>2. SUFFICES ASSUME NEW r \in X
                 PROVE  Split(Concat(Ended(Append(ls, p), sep)) \o r, sep)
                          = Append(Append(ls, p), r)
    BY <2>1
  <2>3. p \in Seq(T) /\ r \in Seq(T) /\ ls \in Seq(Seq(T)) /\ <<sep>> \in Seq(T)
    <3>1. ls \in Seq(Seq(T))
      <4> HIDE DEF X
      <4>1. QED
        BY <1>1, SeqMonotonic
    <3>2. QED
      BY <1>1, <3>1
  <2>4. PICK c : c = Concat(Ended(ls, sep))
    OBVIOUS
  <2>5. c \in Seq(T)
    <3>1. Ended(ls, sep) \in Seq(Seq(T))
      BY <2>3, EndedType
    <3>2. QED
      BY <2>4, <3>1, ConcatType
  <2>6. Concat(Ended(Append(ls, p), sep)) = c \o (p \o <<sep>>)
    BY <2>3, <2>4, EndedAppend
  <2>7. c \o (p \o <<sep>>) = (c \o p) \o <<sep>>
    BY <2>3, <2>5, ConcatAssociative
  <2>8. c \o p \in Seq(T)
    BY <2>3, <2>5, ConcatProperties
  <2>9. Split((c \o p) \o <<sep>> \o r, sep) = Split(c \o p, sep) \o Split(r, sep)
    BY <2>3, <2>8, SplitTwo
  <2>10. Split(c \o p, sep) = Append(ls, p)
    BY <1>3, <2>4
  <2>11. Split(r, sep) = <<r>>
    BY SplitFree
  <2>12. Append(ls, p) \o <<r>> = Append(Append(ls, p), r)
    <3> HIDE DEF X
    <3>1. QED
      BY <2>1, AppendIsConcat
  <2>13. QED
    BY <2>6, <2>7, <2>9, <2>10, <2>11, <2>12
<1>4. Seq(X) \subseteq P
  <2> HIDE DEF P, X
  <2>1. QED
    BY <1>2, <1>3, AppendInduction
<1>5. QED
  BY <1>4

-----------------------------------------------------------------------------
(* The symbols of the format.                                              *)
LEMMA Separators ==
  /\ {Newline, Mark, Bar, Space, Semicolon, Word("false")} \subseteq Symbol
  /\ Newline \notin {Mark, Bar, Space, Semicolon, Word("false")}
  /\ Mark \notin {Bar, Space, Semicolon, Word("false")}
  /\ Bar # Space
  /\ \A n \in Nat : /\ Numeral(n) \in Symbol
                    /\ Numeral(n) \notin {Newline, Mark, Semicolon}
<1>1. \A w \in Words : Word(w) \in Symbol
  BY DEF Word, Symbol
<1>2. {"\n", "?", "|", " ", ";", "false"} \subseteq Words
  BY WordsAssumption
<1>3. \A v, w : Word(v) = Word(w) => v = w
  BY DEF Word
<1>4. \A n, w : Numeral(n) # Word(w)
  BY DEF Word, Numeral
<1>5. \A n \in Nat : Numeral(n) \in Symbol
  BY DEF Numeral, Symbol
<1>6. {Newline, Mark, Bar, Space, Semicolon, Word("false")} \subseteq Symbol
  BY <1>1, <1>2 DEF Newline, Mark, Bar, Space, Semicolon
<1>7. Newline \notin {Mark, Bar, Space, Semicolon, Word("false")}
  BY <1>3 DEF Newline, Mark, Bar, Space, Semicolon
<1>8. Mark \notin {Bar, Space, Semicolon, Word("false")} /\ Bar # Space
  BY <1>3 DEF Mark, Bar, Space, Semicolon
<1>9. \A n \in Nat : Numeral(n) \notin {Newline, Mark, Semicolon}
  BY <1>4 DEF Newline, Mark, Semicolon
<1>10. QED
  BY <1>5, <1>6, <1>7, <1>8, <1>9

(* A text does not hold a symbol exactly when it is a text of the others.  *)
LEMMA WithoutSymbol ==
  ASSUME NEW T, NEW t \in Seq(T), NEW sep
  PROVE  ~Holds(t, sep) <=> t \in Seq(T \ {sep})
<1>1. PICK m \in Nat : m = Len(t)
  BY LenProperties
<1>2. t \in [1 .. m -> T]
  BY <1>1, LenProperties
<1>3. Holds(t, sep) <=> \E i \in 1 .. m : t[i] = sep
  BY <1>1 DEF Holds, ToSet
<1>4. ASSUME ~Holds(t, sep) PROVE t \in Seq(T \ {sep})
  <2>1. t \in [1 .. m -> T \ {sep}]
    BY <1>2, <1>3, <1>4
  <2>2. QED
    BY <2>1, SeqDef
<1>5. ASSUME t \in Seq(T \ {sep}) PROVE ~Holds(t, sep)
  <2>1. t \in [1 .. m -> T \ {sep}]
    BY <1>1, <1>5, LenProperties
  <2>2. QED
    BY <1>3, <2>1
<1>6. QED
  BY <1>4, <1>5

(* Int(String(n)) is n, and what Int() accepts is a natural number.        *)
LEMMA DigitsRead ==
  ASSUME NEW n \in Nat
  PROVE  IsNumber(Digits(n)) /\ Number(Digits(n)) = n
<1>1. Numeral(n)[1] = "number" /\ Numeral(n)[2] = n
  BY DEF Numeral
<1>2. Len(<<Numeral(n)>>) = 1 /\ <<Numeral(n)>>[1] = Numeral(n)
  OBVIOUS
<1>3. QED
  BY <1>1, <1>2 DEF IsNumber, Number, Digits

LEMMA NumberType ==
  ASSUME NEW t \in Text, IsNumber(t)
  PROVE  Number(t) \in Nat
<1>1. Len(t) = 1 /\ t[1][1] = "number"
  BY DEF IsNumber
<1>2. t[1] \in Symbol
  <2>1. 1 \in 1 .. Len(t)
    BY <1>1
  <2>2. QED
    BY <2>1, ElementOfSeq DEF Text
<1>3. t[1] \in {"number"} \X Nat
  BY <1>1, <1>2 DEF Symbol
<1>4. QED
  BY <1>3 DEF Number

(* The texts of the ticked boxes.                                          *)
Numerals(ns) == [i \in 1 .. Len(ns) |-> Digits(ns[i])]

(* The digits of numbers are texts, none of them empty.                    *)
LEMMA NumeralsType ==
  ASSUME NEW ns \in Seq(Nat), NEW T,
         \A n \in Nat : Numeral(n) \in T
  PROVE  /\ Numerals(ns) \in Seq(Seq(T) \ {<<>>})
         /\ Len(Numerals(ns)) = Len(ns)
         /\ \A i \in 1 .. Len(ns) : Numerals(ns)[i] = Digits(ns[i])
<1> DEFINE U == Seq(T) \ {<<>>}
           e(i) == Digits(ns[i])
<1>1. Len(ns) \in Nat /\ \A i \in 1 .. Len(ns) : ns[i] \in Nat
  BY LenProperties, ElementOfSeq
<1>2. ASSUME NEW i \in 1 .. Len(ns) PROVE e(i) \in U
  <2>1. Numeral(ns[i]) \in T
    BY <1>1
  <2>2. PICK x \in T : x = Numeral(ns[i])
    BY <2>1
  <2>3. <<x>> \in Seq(T) /\ <<x>> # <<>>
    OBVIOUS
  <2>4. QED
    BY <2>2, <2>3 DEF Digits
<1>3. [i \in 1 .. Len(ns) |-> e(i)] \in Seq(U)
  <2> HIDE DEF U, e
  <2>1. QED
    BY <1>1, <1>2, IsASeq
<1>4. PICK d : d = Numerals(ns)
  OBVIOUS
<1>5. d \in Seq(U) /\ DOMAIN d = 1 .. Len(ns) /\ \A i \in 1 .. Len(ns) : d[i] = Digits(ns[i])
  BY <1>3, <1>4 DEF Numerals
<1>6. DOMAIN d = 1 .. Len(d) /\ Len(d) \in Nat
  <2> HIDE DEF U
  <2>1. QED
    BY <1>5, LenProperties
<1>7. QED
  BY <1>1, <1>4, <1>5, <1>6

(* The boxes of a card come back from the field they are written in.       *)
LEMMA BoxTextsRead ==
  ASSUME NEW ns \in Seq(Nat)
  PROVE  BoxTexts(Join(Numerals(ns), Semicolon)) = Numerals(ns)
<1>1. PICK X : X = Symbol \ {Semicolon}
  OBVIOUS
<1>2. \A n \in Nat : Numeral(n) \in X
  BY <1>1, Separators
<1>3. Numerals(ns) \in Seq(Seq(X) \ {<<>>})
  BY <1>2, NumeralsType
<1>4. Numerals(ns) \in Seq(Seq(X))
  <2>1. PICK U : U = Seq(X)
    OBVIOUS
  <2>2. Numerals(ns) \in Seq(U \ {<<>>})
    BY <1>3, <2>1
  <2>3. Numerals(ns) \in Seq(U)
    BY <2>2, SeqMonotonic
  <2>4. QED
    BY <2>1, <2>3
<1>5. NonEmpty(Numerals(ns)) = Numerals(ns)
  <2>1. PICK U : U = Seq(X)
    OBVIOUS
  <2>2. Numerals(ns) \in Seq(U \ {<<>>})
    BY <1>3, <2>1
  <2>3. QED
    BY <2>2, NonEmptyAll
<1>6. Semicolon \in Symbol
  BY Separators
<1>7. NonEmpty(Split(Join(Numerals(ns), Semicolon), Semicolon)) = NonEmpty(Numerals(ns))
  <2>1. Numerals(ns) \in Seq(Seq(Symbol \ {Semicolon}))
    BY <1>1, <1>4
  <2>2. PICK ps \in Seq(Seq(Symbol \ {Semicolon})) : ps = Numerals(ns)
    BY <2>1
  <2>3. NonEmpty(Split(Join(ps, Semicolon), Semicolon)) = NonEmpty(ps)
    BY <1>6, NonEmptyOfSplitJoin
  <2>4. QED
    BY <2>2, <2>3
<1>8. QED
  BY <1>5, <1>7 DEF BoxTexts

-----------------------------------------------------------------------------
(* The line of a card: seven fields, or more when there is a mark in its   *)
(* items or comment.                                                       *)
LEMMA SevenInAll ==
  ASSUME NEW U, NEW a \in U, NEW b \in U, NEW c \in U, NEW d \in U, NEW e \in U,
         NEW f \in U, NEW g \in U
  PROVE  Append(Append(<<a, b, c, d, e>>, f), g) = <<a, b, c, d, e, f, g>>
<1>1. PICK s : s = <<a, b, c, d, e>>
  OBVIOUS
<1>2. PICK t : t = Append(s, f)
  OBVIOUS
<1>3. PICK u : u = Append(t, g)
  OBVIOUS
<1>4. PICK v : v = <<a, b, c, d, e, f, g>>
  OBVIOUS
<1>5. s \in Seq(U) /\ Len(s) = 5 /\ s[1] = a /\ s[2] = b /\ s[3] = c /\ s[4] = d /\ s[5] = e
  BY <1>1
<1>6. /\ t \in Seq(U) /\ Len(t) = Len(s) + 1
      /\ \A i \in 1 .. Len(s) : t[i] = s[i]
      /\ t[Len(s) + 1] = f
  <2>1. s \in Seq(U)
    BY <1>5
  <2>2. QED
    BY <1>2, <2>1, AppendProperties
<1>7. /\ u \in Seq(U) /\ Len(u) = Len(t) + 1
      /\ \A i \in 1 .. Len(t) : u[i] = t[i]
      /\ u[Len(t) + 1] = g
  BY <1>3, <1>6, AppendProperties
<1>8. v \in Seq(U) /\ Len(v) = 7 /\ v[1] = a /\ v[2] = b /\ v[3] = c /\ v[4] = d
      /\ v[5] = e /\ v[6] = f /\ v[7] = g
  BY <1>4
<1>9. Len(t) = 6 /\ Len(u) = 7
  BY <1>5, <1>6, <1>7
<1>10. \A i \in 1 .. 5 : t[i] = s[i] /\ u[i] = t[i]
  BY <1>5, <1>6, <1>7, <1>9
<1>11. t[6] = f /\ u[6] = t[6] /\ u[7] = g
  BY <1>5, <1>6, <1>7, <1>9
<1>12. u[1] = a /\ u[2] = b /\ u[3] = c /\ u[4] = d /\ u[5] = e /\ u[6] = f
  BY <1>5, <1>10, <1>11
<1>13. \A i \in 1 .. 7 : i = 1 \/ i = 2 \/ i = 3 \/ i = 4 \/ i = 5 \/ i = 6 \/ i = 7
  OBVIOUS
<1>14. \A i \in 1 .. Len(u) : u[i] = v[i]
  BY <1>8, <1>9, <1>11, <1>12, <1>13
<1>15. u = v
  BY <1>7, <1>8, <1>9, <1>14, SeqEqual
<1>16. QED
  BY <1>1, <1>2, <1>3, <1>4, <1>15

(* Fields without a mark are split off before two that may hold marks.     *)
LEMMA TwoFieldsMore ==
  ASSUME NEW ps \in Seq(Seq(Symbol \ {Mark})), ps # <<>>,
         NEW f \in Seq(Symbol), NEW g \in Seq(Symbol)
  PROVE  Split(Join(Append(Append(ps, f), g), Mark), Mark)
           = (ps \o Split(f, Mark)) \o Split(g, Mark)
<1>1. PICK T : T = Symbol
  OBVIOUS
<1>2. PICK sep : sep = Mark
  OBVIOUS
<1> DEFINE X == Seq(T \ {sep})
           U == Seq(T)
<1>3. sep \in T /\ f \in U /\ g \in U /\ ps \in Seq(X)
  BY <1>1, <1>2, Separators
<1>4. X \subseteq U
  BY SeqMonotonic
<1>5. ps \in Seq(U)
  <2> HIDE DEF X, U
  <2>1. QED
    BY <1>3, <1>4, SeqMonotonic
<1>6. PICK qs : qs = Append(ps, f)
  OBVIOUS
<1>7. qs \in Seq(U) /\ qs # <<>>
  <2>1. qs \in Seq(U) /\ Len(qs) = Len(ps) + 1 /\ Len(ps) \in Nat
    <3> HIDE DEF U
    <3>1. QED
      BY <1>3, <1>5, <1>6, AppendProperties, LenProperties
  <2>2. Len(qs) # 0
    BY <2>1
  <2>3. QED
    BY <2>1, <2>2, EmptySeq
<1>8. Split(Join(ps, sep), sep) = ps
  BY <1>3, SplitOfJoin
<1>9. Split(Join(qs, sep), sep) = ps \o Split(f, sep)
  BY <1>3, <1>5, <1>6, <1>8, SplitOfJoinAppend
<1>10. Split(Join(Append(qs, g), sep), sep) = Split(Join(qs, sep), sep) \o Split(g, sep)
  BY <1>3, <1>7, SplitOfJoinAppend
<1>11. QED
  BY <1>2, <1>6, <1>9, <1>10

Places(r, s, p, q) ==
  /\ Len(r) >= 7
  /\ \A i \in 1 .. 5 : r[i] = s[i]
  /\ \A x : p = <<x>> => r[6] = x /\ r[7] = q[1]

(* Five fields and the pieces of two more: where each field is found.      *)
LEMMA FieldPlaces ==
  ASSUME NEW U, NEW s \in Seq(U), Len(s) = 5,
         NEW p \in Seq(U), NEW q \in Seq(U), p # <<>>, q # <<>>
  PROVE  Places((s \o p) \o q, s, p, q)
<1>1. PICK r : r = (s \o p) \o q
  OBVIOUS
<1>2. s \in Seq(U) /\ Len(s) = 5
  OBVIOUS
<1>3. Len(p) \in Nat \ {0} /\ Len(q) \in Nat \ {0}
  BY EmptySeq
<1>4. PICK t : t = s \o p
  OBVIOUS
<1>5. /\ t \in Seq(U) /\ Len(t) = 5 + Len(p)
      /\ \A i \in 1 .. (5 + Len(p)) : t[i] = IF i <= 5 THEN s[i] ELSE p[i - 5]
  <2>1. /\ t \in Seq(U) /\ Len(t) = Len(s) + Len(p)
        /\ \A i \in 1 .. (Len(s) + Len(p)) :
             t[i] = IF i <= Len(s) THEN s[i] ELSE p[i - Len(s)]
    BY <1>2, <1>4, ConcatProperties
  <2>2. QED
    BY <1>2, <2>1
<1>6. r = t \o q
  BY <1>1, <1>4
<1>7. /\ r \in Seq(U) /\ Len(r) = Len(t) + Len(q)
      /\ \A i \in 1 .. (Len(t) + Len(q)) :
           r[i] = IF i <= Len(t) THEN t[i] ELSE q[i - Len(t)]
  <2>1. t \in Seq(U)
    BY <1>5
  <2>2. QED
    BY <1>6, <2>1, ConcatProperties
<1>8. \A i \in 1 .. 5 : r[i] = s[i]
  <2>1. SUFFICES ASSUME NEW i \in 1 .. 5 PROVE r[i] = s[i]
    OBVIOUS
  <2>2. i \in 1 .. (5 + Len(p)) /\ i <= Len(t) /\ i \in 1 .. (Len(t) + Len(q))
    BY <1>3, <1>5
  <2>3. r[i] = t[i]
    BY <1>7, <2>2
  <2>4. t[i] = s[i]
    BY <1>5, <2>2
  <2>5. QED
    BY <2>3, <2>4
<1>10. ASSUME NEW x, p = <<x>> PROVE r[6] = x /\ r[7] = q[1]
  <2>1. Len(p) = 1 /\ p[1] = x
    BY <1>10
  <2>2. Len(t) = 6 /\ t[6] = x
    <3>1. 6 \in 1 .. (5 + Len(p)) /\ ~(6 <= 5) /\ 6 - 5 = 1
      BY <2>1
    <3>2. t[6] = p[6 - 5]
      BY <1>5, <3>1
    <3>3. QED
      BY <1>5, <2>1, <3>1, <3>2
  <2>3. 6 \in 1 .. (Len(t) + Len(q)) /\ 7 \in 1 .. (Len(t) + Len(q))
        /\ 6 <= Len(t) /\ ~(7 <= Len(t)) /\ 7 - Len(t) = 1
    BY <1>3, <2>2
  <2>4. r[6] = t[6]
    BY <1>7, <2>3
  <2>5. r[7] = q[7 - Len(t)]
    BY <1>7, <2>3
  <2>6. QED
    BY <2>2, <2>3, <2>4, <2>5
<1>11. Len(r) >= 7
  BY <1>3, <1>5, <1>7
<1>12. QED
  BY <1>1, <1>8, <1>10, <1>11 DEF Places

(* The parts of a line are texts of one line.                              *)
LEMMA CardParts ==
  ASSUME NEW T, T \subseteq Symbol, Mark \in T, Semicolon \in T, Word("false") \in T,
         \A n \in Nat : Numeral(n) \in T,
         NEW c \in SavedCard, c.items \in Seq(Seq(T))
  PROVE  /\ <<Word("false")>> \in Seq(T)
         /\ Join(Numerals(c.boxes), Semicolon) \in Seq(T)
         /\ Digits(c.num) \in Seq(T) /\ Digits(c.progress) \in Seq(T)
         /\ Join(c.items, Semicolon) \in Seq(T)
<1>1. c.boxes \in Seq(Nat) /\ c.num \in Nat /\ c.progress \in Nat
  BY DEF SavedCard
<1>2. <<Word("false")>> \in Seq(T)
  <2>1. PICK x \in T : x = Word("false")
    OBVIOUS
  <2>2. QED
    BY <2>1
<1>3. \A n \in Nat : Digits(n) \in Seq(T)
  <2>1. SUFFICES ASSUME NEW n \in Nat PROVE Digits(n) \in Seq(T)
    OBVIOUS
  <2>2. PICK x \in T : x = Numeral(n)
    OBVIOUS
  <2>3. QED
    BY <2>2 DEF Digits
<1>4. Numerals(c.boxes) \in Seq(Seq(T))
  <2>1. PICK U : U = Seq(T)
    OBVIOUS
  <2>2. Numerals(c.boxes) \in Seq(U \ {<<>>})
    BY <1>1, <2>1, NumeralsType
  <2>3. Numerals(c.boxes) \in Seq(U)
    BY <2>2, SeqMonotonic
  <2>4. QED
    BY <2>1, <2>3
<1>5. Join(Numerals(c.boxes), Semicolon) \in Seq(T)
  BY <1>4, JoinType
<1>6. Join(c.items, Semicolon) \in Seq(T)
  BY JoinType
<1>7. QED
  BY <1>1, <1>2, <1>3, <1>5, <1>6

(* The line of a card, by its seven fields.                                *)
LEMMA CardLineByParts ==
  ASSUME NEW c
  PROVE  CardLine(c) = Join(<<c.text, <<Word("false")>>, Join(Numerals(c.boxes), Semicolon),
                              Digits(c.num), Digits(c.progress),
                              Join(c.items, Semicolon), c.comment>>, Mark)
BY DEF CardLine, Numerals

(* A separator in it makes a joined text a text of some symbols.           *)
LEMMA JoinedIsSome ==
  ASSUME NEW T, NEW sep \in T,
         NEW a \in Seq(T), NEW b \in Seq(T), NEW c \in Seq(T), NEW d \in Seq(T),
         NEW e \in Seq(T), NEW f \in Seq(T), NEW g \in Seq(T)
  PROVE  /\ Join(<<a, b, c, d, e, f, g>>, sep) \in Seq(T)
         /\ Join(<<a, b, c, d, e, f, g>>, sep) # <<>>
<1> DEFINE U == Seq(T)
<1>1. PICK ps : ps = <<a, b, c, d, e>>
  OBVIOUS
<1>2. PICK qs : qs = Append(ps, f)
  OBVIOUS
<1>3. ps \in Seq(U) /\ Append(qs, g) = <<a, b, c, d, e, f, g>>
  <2>1. a \in U /\ b \in U /\ c \in U /\ d \in U /\ e \in U /\ f \in U /\ g \in U
    OBVIOUS
  <2> HIDE DEF U
  <2>2. ps \in Seq(U)
    BY <1>1, <2>1
  <2>3. Append(qs, g) = <<a, b, c, d, e, f, g>>
    <3>1. Append(Append(<<a, b, c, d, e>>, f), g) = <<a, b, c, d, e, f, g>>
      BY <2>1, SevenInAll
    <3>2. QED
      BY <1>1, <1>2, <3>1
  <2>4. QED
    BY <2>2, <2>3
<1>4. qs \in Seq(U) /\ qs # <<>>
  <2>1. f \in U
    OBVIOUS
  <2>2. qs \in Seq(U) /\ Len(qs) = Len(ps) + 1 /\ Len(ps) \in Nat
    <3> HIDE DEF U
    <3>1. QED
      BY <1>2, <1>3, <2>1, AppendProperties, LenProperties
  <2>3. Len(qs) # 0
    BY <2>2
  <2>4. QED
    BY <2>2, <2>3, EmptySeq
<1>5. Join(qs, sep) \in Seq(T) /\ <<sep>> \in Seq(T)
  BY <1>4, JoinType
<1>6. Join(Append(qs, g), sep) = Join(qs, sep) \o <<sep>> \o g
  BY <1>4, JoinAppend
<1>7. PICK j : j = Join(qs, sep)
  OBVIOUS
<1>8. PICK k : k = j \o <<sep>>
  OBVIOUS
<1>9. k \in Seq(T) /\ k = Append(j, sep)
  BY <1>5, <1>7, <1>8, ConcatProperties, AppendIsConcat
<1>10. Len(k) = Len(j) + 1 /\ Len(j) \in Nat /\ Len(g) \in Nat
  BY <1>5, <1>7, <1>9, AppendProperties, LenProperties
<1>11. k \o g \in Seq(T) /\ Len(k \o g) = Len(k) + Len(g)
  BY <1>9, ConcatProperties
<1>12. Len(k \o g) # 0
  BY <1>10, <1>11
<1>13. k \o g # <<>>
  BY <1>12, EmptySeq
<1>14. QED
  BY <1>3, <1>6, <1>7, <1>8, <1>11, <1>13

(* An item is a text within a line.                                        *)
LEMMA ItemsAreLines == Seq(Item) \subseteq Seq(Line)
<1>1. Item \subseteq Line
  BY SeqMonotonic DEF Item, Line
<1>2. QED
  BY <1>1, SeqMonotonic

(* The line of a card is one line, and not an empty one.                   *)
LEMMA CardLineType ==
  ASSUME NEW c \in SavedCard
  PROVE  CardLine(c) \in Line /\ CardLine(c) # <<>>
<1> DEFINE T == Symbol \ {Newline}
<1>1. /\ c.text \in Seq(T) /\ c.comment \in Seq(T) /\ c.items \in Seq(Seq(T))
  BY ItemsAreLines DEF SavedCard, Line
<1>2. /\ T \subseteq Symbol /\ Mark \in T /\ Semicolon \in T /\ Word("false") \in T
      /\ \A n \in Nat : Numeral(n) \in T
  BY Separators
<1>3. /\ <<Word("false")>> \in Seq(T)
      /\ Join(Numerals(c.boxes), Semicolon) \in Seq(T)
      /\ Digits(c.num) \in Seq(T) /\ Digits(c.progress) \in Seq(T)
      /\ Join(c.items, Semicolon) \in Seq(T)
  <2> HIDE DEF T
  <2>1. QED
    BY <1>1, <1>2, CardParts
<1>4. CardLine(c) \in Seq(T) /\ CardLine(c) # <<>>
  <2> HIDE DEF T
  <2>1. QED
    BY <1>1, <1>2, <1>3, JoinedIsSome, CardLineByParts
<1>5. QED
  BY <1>4 DEF Line

(* The fields of the line of a card whose text has no mark.                *)
LEMMA FieldsOfCardLine ==
  ASSUME NEW c \in SavedCard, ~Holds(c.text, Mark)
  PROVE  Fields(CardLine(c))
           = (<<c.text, <<Word("false")>>, Join(Numerals(c.boxes), Semicolon),
                Digits(c.num), Digits(c.progress)>>
                \o Split(Join(c.items, Semicolon), Mark)) \o Split(c.comment, Mark)
<1> DEFINE T == Symbol \ {Mark}
<1>1. Line \subseteq Text
  BY SeqMonotonic DEF Line, Text
<1>2. c.text \in Text /\ c.comment \in Text /\ c.items \in Seq(Text)
  <2>1. c.text \in Line /\ c.comment \in Line /\ c.items \in Seq(Line)
    BY ItemsAreLines DEF SavedCard
  <2>2. QED
    BY <1>1, <2>1, SeqMonotonic
<1>3. c.text \in Seq(T)
  <2>1. c.text \in Seq(Symbol)
    BY <1>2 DEF Text
  <2>2. QED
    BY <2>1, WithoutSymbol
<1>4. /\ T \subseteq Symbol /\ Semicolon \in T /\ Word("false") \in T
      /\ \A n \in Nat : Numeral(n) \in T
      /\ Mark \in Symbol /\ Semicolon \in Symbol
  BY Separators
<1>5. c.boxes \in Seq(Nat) /\ c.num \in Nat /\ c.progress \in Nat
  BY DEF SavedCard
<1>6. <<Word("false")>> \in Seq(T)
  <2>1. PICK x \in T : x = Word("false")
    BY <1>4
  <2>2. QED
    BY <2>1
<1>7. \A n \in Nat : Digits(n) \in Seq(T)
  <2>1. SUFFICES ASSUME NEW n \in Nat PROVE Digits(n) \in Seq(T)
    OBVIOUS
  <2>2. PICK x \in T : x = Numeral(n)
    BY <1>4
  <2>3. QED
    BY <2>2 DEF Digits
<1>8. Join(Numerals(c.boxes), Semicolon) \in Seq(T)
  <2>1. PICK U : U = Seq(T)
    OBVIOUS
  <2>2. Numerals(c.boxes) \in Seq(U \ {<<>>})
    <3> HIDE DEF T
    <3>1. QED
      BY <1>4, <1>5, <2>1, NumeralsType
  <2>3. Numerals(c.boxes) \in Seq(U)
    BY <2>2, SeqMonotonic
  <2>4. Numerals(c.boxes) \in Seq(Seq(T))
    BY <2>1, <2>3
  <2> HIDE DEF T
  <2>5. QED
    BY <1>4, <2>4, JoinType
<1>9. Join(c.items, Semicolon) \in Seq(Symbol) /\ c.comment \in Seq(Symbol)
  <2>1. c.items \in Seq(Seq(Symbol)) /\ c.comment \in Seq(Symbol)
    BY <1>2 DEF Text
  <2>2. QED
    BY <1>4, <2>1, JoinType
<1>10. PICK f : f = Join(c.items, Semicolon)
  OBVIOUS
<1>11. PICK b : b = Join(Numerals(c.boxes), Semicolon)
  OBVIOUS
<1>12. PICK n : n = Digits(c.num)
  OBVIOUS
<1>13. PICK p : p = Digits(c.progress)
  OBVIOUS
<1>14. PICK w : w = <<Word("false")>>
  OBVIOUS
<1>15. PICK t : t = c.text
  OBVIOUS
<1>16. PICK g : g = c.comment
  OBVIOUS
<1>17. /\ t \in Seq(Symbol \ {Mark}) /\ w \in Seq(Symbol \ {Mark}) /\ b \in Seq(Symbol \ {Mark})
       /\ n \in Seq(Symbol \ {Mark}) /\ p \in Seq(Symbol \ {Mark})
       /\ f \in Seq(Symbol) /\ g \in Seq(Symbol)
  BY <1>3, <1>5, <1>6, <1>7, <1>8, <1>9, <1>10, <1>11, <1>12, <1>13, <1>14, <1>15, <1>16
<1>18. Split(Join(<<t, w, b, n, p, f, g>>, Mark), Mark)
         = (<<t, w, b, n, p>> \o Split(f, Mark)) \o Split(g, Mark)
  <2>1. PICK X : X = Seq(Symbol \ {Mark})
    OBVIOUS
  <2>2. t \in X /\ w \in X /\ b \in X /\ n \in X /\ p \in X
    BY <1>17, <2>1
  <2>3. PICK ps : ps = <<t, w, b, n, p>>
    OBVIOUS
  <2>4. ps \in Seq(X) /\ ps # <<>>
    BY <2>2, <2>3
  <2>5. ps \in Seq(Seq(Symbol \ {Mark}))
    BY <2>1, <2>4
  <2>6. Split(Join(Append(Append(ps, f), g), Mark), Mark)
          = (ps \o Split(f, Mark)) \o Split(g, Mark)
    <3> HIDE DEF T
    <3>1. f \in Seq(Symbol)
      BY <1>17
    <3>2. g \in Seq(Symbol)
      BY <1>17
    <3>3. QED
      BY <2>4, <2>5, <3>1, <3>2, TwoFieldsMore
  <2>7. PICK U : U = X \cup {f, g}
    OBVIOUS
  <2>8. /\ t \in U /\ w \in U /\ b \in U /\ n \in U /\ p \in U /\ f \in U /\ g \in U
    BY <2>2, <2>7
  <2>9. Append(Append(<<t, w, b, n, p>>, f), g) = <<t, w, b, n, p, f, g>>
    BY <2>8, SevenInAll
  <2>10. QED
    BY <2>3, <2>6, <2>9
<1>19. CardLine(c) = Join(<<t, w, b, n, p, f, g>>, Mark)
  BY <1>10, <1>11, <1>12, <1>13, <1>14, <1>15, <1>16, CardLineByParts
<1>20. QED
  BY <1>10, <1>11, <1>12, <1>13, <1>14, <1>15, <1>16, <1>18, <1>19 DEF Fields

PlainCard(c) == \A t \in {c.text} \cup ToSet(c.items) : ~Holds(t, Mark)

(* Items without marks stay one field.                                     *)
LEMMA MarkFreeItems ==
  ASSUME NEW c \in SavedCard, PlainCard(c)
  PROVE  Split(Join(c.items, Semicolon), Mark) = <<Join(c.items, Semicolon)>>
<1> DEFINE T == Symbol \ {Mark}
<1>1. PICK n \in Nat : n = Len(c.items)
  BY LenProperties DEF SavedCard
<1>2. c.items \in [1 .. n -> Item]
  BY <1>1, LenProperties DEF SavedCard
<1>3. ASSUME NEW i \in 1 .. n PROVE c.items[i] \in Seq(T)
  <2>1. c.items[i] \in Item
    BY <1>2
  <2>2. c.items[i] \in Seq(Symbol)
    BY <2>1, SeqMonotonic DEF Item
  <2>3. ~Holds(c.items[i], Mark)
    BY <1>1 DEF PlainCard, ToSet
  <2>4. QED
    BY <2>2, <2>3, WithoutSymbol
<1>4. c.items \in Seq(Seq(T))
  <2>1. c.items \in [1 .. n -> Seq(T)]
    BY <1>2, <1>3
  <2>2. QED
    BY <2>1, SeqDef
<1>5. Semicolon \in T
  BY Separators
<1>6. Join(c.items, Semicolon) \in Seq(T)
  <2> HIDE DEF T
  <2>1. QED
    BY <1>4, <1>5, JoinType
<1>7. QED
  BY <1>6, SplitFree

(* The fields read of the line of a card: the numbers and boxes always,    *)
(* the items and the comment up to its first mark if no item holds a mark. *)
LEMMA FieldsOfCard ==
  ASSUME NEW c \in SavedCard, ~Holds(c.text, Mark),
         NEW fields, fields = Fields(CardLine(c))
  PROVE  /\ Len(fields) >= 7
         /\ fields[1] = c.text
         /\ fields[3] = Join(Numerals(c.boxes), Semicolon)
         /\ fields[4] = Digits(c.num) /\ fields[5] = Digits(c.progress)
         /\ PlainCard(c) => /\ fields[6] = Join(c.items, Semicolon)
                            /\ fields[7] = Split(c.comment, Mark)[1]
<1>1. PICK p : p = Split(Join(c.items, Semicolon), Mark)
  OBVIOUS
<1>2. PICK q : q = Split(c.comment, Mark)
  OBVIOUS
<1>3. PICK b : b = Join(Numerals(c.boxes), Semicolon)
  OBVIOUS
<1>4. PICK U : U = Seq(Symbol \ {Mark}) \cup {c.text, <<Word("false")>>, b, Digits(c.num), Digits(c.progress)}
  OBVIOUS
<1>5. p \in Seq(U) /\ p # <<>> /\ q \in Seq(U) /\ q # <<>>
  <2>1. c.comment \in Seq(Symbol)
    BY SeqMonotonic DEF SavedCard, Line
  <2>2. Join(c.items, Semicolon) \in Seq(Symbol)
    <3>1. Line \subseteq Seq(Symbol)
      BY SeqMonotonic DEF Line
    <3>2. c.items \in Seq(Line)
      BY ItemsAreLines DEF SavedCard
    <3>3. c.items \in Seq(Seq(Symbol))
      BY <3>1, <3>2, SeqMonotonic
    <3>4. Semicolon \in Symbol
      BY Separators
    <3>5. QED
      BY <3>3, <3>4, JoinType
  <2>3. p \in Pieces(Symbol, Mark) /\ q \in Pieces(Symbol, Mark)
    BY <1>1, <1>2, <2>1, <2>2, SplitType
  <2>4. PICK V : V = Seq(Symbol \ {Mark})
    OBVIOUS
  <2>5. p \in Seq(V) /\ q \in Seq(V) /\ p # <<>> /\ q # <<>>
    BY <2>3, <2>4 DEF Pieces
  <2>6. V \subseteq U
    BY <1>4, <2>4
  <2>7. QED
    BY <2>5, <2>6, SeqMonotonic
<1>6. fields = (<<c.text, <<Word("false")>>, b, Digits(c.num), Digits(c.progress)>> \o p) \o q
  BY <1>1, <1>2, <1>3, FieldsOfCardLine
<1>7. /\ c.text \in U /\ <<Word("false")>> \in U /\ b \in U
      /\ Digits(c.num) \in U /\ Digits(c.progress) \in U
  BY <1>4
<1>8. /\ Len(fields) >= 7
      /\ fields[1] = c.text /\ fields[3] = b
      /\ fields[4] = Digits(c.num) /\ fields[5] = Digits(c.progress)
      /\ \A x : p = <<x>> => fields[6] = x /\ fields[7] = q[1]
  <2>1. PICK t \in U : t = c.text
    BY <1>7
  <2>2. PICK w \in U : w = <<Word("false")>>
    BY <1>7
  <2>3. PICK n \in U : n = Digits(c.num)
    BY <1>7
  <2>4. PICK m \in U : m = Digits(c.progress)
    BY <1>7
  <2>5. b \in U
    BY <1>7
  <2>6. PICK s : s = <<t, w, b, n, m>>
    OBVIOUS
  <2>7. s \in Seq(U) /\ Len(s) = 5 /\ s[1] = t /\ s[3] = b /\ s[4] = n /\ s[5] = m
    BY <2>5, <2>6
  <2>8. fields = (s \o p) \o q
    BY <1>6, <2>1, <2>2, <2>3, <2>4, <2>6
  <2>9. /\ Len(fields) >= 7
        /\ \A i \in 1 .. 5 : fields[i] = s[i]
        /\ \A x : p = <<x>> => fields[6] = x /\ fields[7] = q[1]
    <3>1. s \in Seq(U)
      BY <2>7
    <3>2. Len(s) = 5
      BY <2>7
    <3>3. p \in Seq(U)
      BY <1>5
    <3>4. q \in Seq(U)
      BY <1>5
    <3>5. p # <<>> /\ q # <<>>
      BY <1>5
    <3>6. Places((s \o p) \o q, s, p, q)
      BY <3>1, <3>2, <3>3, <3>4, <3>5, FieldPlaces
    <3>7. QED
      BY <2>8, <3>6 DEF Places
  <2>10. fields[1] = t /\ fields[3] = b /\ fields[4] = n /\ fields[5] = m
    BY <2>7, <2>9
  <2>11. QED
    BY <2>1, <2>3, <2>4, <2>9, <2>10
<1>9. PlainCard(c) => p = <<Join(c.items, Semicolon)>>
  BY <1>1, MarkFreeItems
<1>10. QED
  BY <1>2, <1>3, <1>8, <1>9

(* The line of a card whose text holds no mark can be read.                *)
LEMMA CardReads ==
  ASSUME NEW c \in SavedCard, ~Holds(c.text, Mark)
  PROVE  LineReads(CardLine(c))
<1>1. PICK fields : fields = Fields(CardLine(c))
  OBVIOUS
<1>2. /\ Len(fields) >= 7
      /\ fields[3] = Join(Numerals(c.boxes), Semicolon)
      /\ fields[4] = Digits(c.num) /\ fields[5] = Digits(c.progress)
  BY <1>1, FieldsOfCard
<1>3. c.num \in Nat /\ c.progress \in Nat /\ c.boxes \in Seq(Nat)
  BY DEF SavedCard
<1>4. IsNumber(fields[4]) /\ IsNumber(fields[5])
  BY <1>2, <1>3, DigitsRead
<1>5. PICK ds : ds = Numerals(c.boxes)
  OBVIOUS
<1>6. BoxTexts(fields[3]) = ds
  BY <1>2, <1>3, <1>5, BoxTextsRead
<1>7. ASSUME NEW t \in ToSet(ds) PROVE IsNumber(t)
  <2>1. PICK i \in DOMAIN ds : t = ds[i]
    BY DEF ToSet
  <2>2. DOMAIN ds = 1 .. Len(c.boxes) /\ ds[i] = Digits(c.boxes[i])
    BY <1>5, <2>1 DEF Numerals
  <2>3. c.boxes[i] \in Nat
    BY <1>3, <2>2, ElementOfSeq
  <2>4. QED
    BY <2>1, <2>2, <2>3, DigitsRead
<1>8. QED
  BY <1>1, <1>2, <1>4, <1>6, <1>7 DEF LineReads

CardBack(c) == [c EXCEPT !.items = NonEmpty(@), !.comment = Split(@, Mark)[1]]

(* A card without marks but in its comment is read as CardBack says.       *)
LEMMA CardComesBack ==
  ASSUME NEW c \in SavedCard, PlainCard(c)
  PROVE  ReadCard(CardLine(c)) = CardBack(c)
<1>1. PICK fields : fields = Fields(CardLine(c))
  OBVIOUS
<1>2. ~Holds(c.text, Mark)
  BY DEF PlainCard
<1>3. /\ fields[1] = c.text
      /\ fields[3] = Join(Numerals(c.boxes), Semicolon)
      /\ fields[4] = Digits(c.num) /\ fields[5] = Digits(c.progress)
      /\ fields[6] = Join(c.items, Semicolon)
      /\ fields[7] = Split(c.comment, Mark)[1]
  BY <1>1, <1>2, FieldsOfCard
<1>4. /\ c.num \in Nat /\ c.progress \in Nat /\ c.boxes \in Seq(Nat)
      /\ c.items \in Seq(Item)
  BY DEF SavedCard
<1>5. Number(fields[4]) = c.num /\ Number(fields[5]) = c.progress
  BY <1>3, <1>4, DigitsRead
<1>6. PICK ds : ds = BoxTexts(fields[3])
  OBVIOUS
<1>7. [i \in 1 .. Len(ds) |-> Number(ds[i])] = c.boxes
  <2>1. ds = Numerals(c.boxes)
    BY <1>3, <1>4, <1>6, BoxTextsRead
  <2>2. PICK T : T = Symbol
    OBVIOUS
  <2>3. \A n \in Nat : Numeral(n) \in T
    BY <2>2, Separators
  <2>4. Len(ds) = Len(c.boxes) /\ \A i \in 1 .. Len(c.boxes) : ds[i] = Digits(c.boxes[i])
    BY <1>4, <2>1, <2>3, NumeralsType
  <2>5. \A i \in 1 .. Len(c.boxes) : c.boxes[i] \in Nat
    BY <1>4, ElementOfSeq
  <2>6. \A i \in 1 .. Len(c.boxes) : Number(ds[i]) = c.boxes[i]
    BY <2>4, <2>5, DigitsRead
  <2>7. c.boxes = [i \in 1 .. Len(c.boxes) |-> c.boxes[i]]
    <3>1. c.boxes \in [1 .. Len(c.boxes) -> Nat]
      BY <1>4, LenProperties
    <3>2. QED
      BY <3>1
  <2>8. [i \in 1 .. Len(ds) |-> Number(ds[i])] = [i \in 1 .. Len(c.boxes) |-> c.boxes[i]]
    BY <2>4, <2>6
  <2>9. QED
    BY <2>7, <2>8
<1>8. NonEmpty(Split(fields[6], Semicolon)) = NonEmpty(c.items)
  <2>1. Item \subseteq Seq(Symbol \ {Semicolon})
    BY SeqMonotonic DEF Item
  <2>2. c.items \in Seq(Seq(Symbol \ {Semicolon}))
    BY <1>4, <2>1, SeqMonotonic
  <2>3. PICK ps \in Seq(Seq(Symbol \ {Semicolon})) : ps = c.items
    BY <2>2
  <2>4. Semicolon \in Symbol
    BY Separators
  <2>5. NonEmpty(Split(Join(ps, Semicolon), Semicolon)) = NonEmpty(ps)
    BY <2>4, NonEmptyOfSplitJoin
  <2>6. QED
    BY <1>3, <2>3, <2>5
<1>9. ReadCard(CardLine(c))
        = [text |-> c.text, boxes |-> c.boxes, num |-> c.num, progress |-> c.progress,
           items |-> NonEmpty(c.items), comment |-> Split(c.comment, Mark)[1]]
  BY <1>1, <1>3, <1>5, <1>6, <1>7, <1>8 DEF ReadCard
<1>10. CardBack(c)
        = [text |-> c.text, boxes |-> c.boxes, num |-> c.num, progress |-> c.progress,
           items |-> NonEmpty(c.items), comment |-> Split(c.comment, Mark)[1]]
  <2>1. PICK items : items = NonEmpty(c.items)
    OBVIOUS
  <2>2. PICK comment : comment = Split(c.comment, Mark)[1]
    OBVIOUS
  <2>3. PICK d : d = [c EXCEPT !.items = items]
    OBVIOUS
  <2>4. d = [text |-> c.text, boxes |-> c.boxes, num |-> c.num, progress |-> c.progress,
             items |-> items, comment |-> c.comment]
    BY <2>3 DEF SavedCard
  <2>5. CardBack(c) = [d EXCEPT !.comment = comment]
    BY <2>1, <2>2, <2>3 DEF CardBack
  <2>6. [d EXCEPT !.comment = comment]
          = [text |-> c.text, boxes |-> c.boxes, num |-> c.num, progress |-> c.progress,
             items |-> items, comment |-> comment]
    BY <2>4
  <2>7. QED
    BY <2>1, <2>2, <2>5, <2>6
<1>11. QED
  BY <1>9, <1>10

-----------------------------------------------------------------------------
(* The lines of a list.                                                    *)
NamesLine(l) == l.major \o <<Space, Bar, Space>> \o l.option

(* Short sequences, written out or put together.                           *)
LEMMA TwoInAll ==
  ASSUME NEW a, NEW b PROVE <<a>> \o <<b>> = <<a, b>>
<1>1. PICK U : U = {a, b}
  OBVIOUS
<1>2. PICK s : s = <<a>>
  OBVIOUS
<1>3. PICK r : r = <<b>>
  OBVIOUS
<1>4. PICK v : v = <<a, b>>
  OBVIOUS
<1>5. PICK t : t = s \o r
  OBVIOUS
<1>6. s \in Seq(U) /\ r \in Seq(U) /\ v \in Seq(U)
  BY <1>1, <1>2, <1>3, <1>4
<1>7. Len(s) = 1 /\ s[1] = a /\ Len(r) = 1 /\ r[1] = b
  BY <1>2, <1>3
<1>8. Len(v) = 2 /\ v[1] = a /\ v[2] = b
  BY <1>4
<1>9. /\ t \in Seq(U) /\ Len(t) = Len(s) + Len(r)
      /\ \A i \in 1 .. (Len(s) + Len(r)) : t[i] = IF i <= Len(s) THEN s[i] ELSE r[i - Len(s)]
  BY <1>5, <1>6, ConcatProperties
<1>10. Len(t) = 2 /\ t[1] = a /\ t[2] = b
  BY <1>7, <1>9
<1>11. \A i \in 1 .. Len(t) : i = 1 \/ i = 2
  BY <1>10
<1>12. \A i \in 1 .. Len(t) : t[i] = v[i]
  BY <1>8, <1>10, <1>11
<1>13. t = v
  BY <1>6, <1>8, <1>9, <1>10, <1>12, SeqEqual
<1>14. QED
  BY <1>2, <1>3, <1>4, <1>5, <1>13

LEMMA ThreeInAll ==
  ASSUME NEW U, NEW a \in U, NEW b \in U, NEW c \in U
  PROVE  Append(Append(<<a>>, b), c) = <<a, b, c>>
<1>1. PICK s : s = <<a>>
  OBVIOUS
<1>2. PICK t : t = Append(s, b)
  OBVIOUS
<1>3. PICK u : u = Append(t, c)
  OBVIOUS
<1>4. PICK v : v = <<a, b, c>>
  OBVIOUS
<1>5. s \in Seq(U) /\ Len(s) = 1 /\ s[1] = a
  BY <1>1
<1>6. /\ t \in Seq(U) /\ Len(t) = Len(s) + 1
      /\ \A i \in 1 .. Len(s) : t[i] = s[i]
      /\ t[Len(s) + 1] = b
  <2>1. s \in Seq(U)
    BY <1>5
  <2>2. QED
    BY <1>2, <2>1, AppendProperties
<1>7. /\ u \in Seq(U) /\ Len(u) = Len(t) + 1
      /\ \A i \in 1 .. Len(t) : u[i] = t[i]
      /\ u[Len(t) + 1] = c
  <2>1. t \in Seq(U)
    BY <1>6
  <2>2. QED
    BY <1>3, <2>1, AppendProperties
<1>8. v \in Seq(U) /\ Len(v) = 3 /\ v[1] = a /\ v[2] = b /\ v[3] = c
  BY <1>4
<1>9. Len(t) = 2 /\ Len(u) = 3
  BY <1>5, <1>6, <1>7
<1>10. t[1] = a /\ t[2] = b /\ u[3] = c
  BY <1>5, <1>6, <1>7, <1>9
<1>11. u[1] = t[1] /\ u[2] = t[2]
  BY <1>7, <1>9
<1>12. \A i \in 1 .. 3 : i = 1 \/ i = 2 \/ i = 3
  OBVIOUS
<1>13. \A i \in 1 .. Len(u) : u[i] = v[i]
  BY <1>8, <1>9, <1>10, <1>11, <1>12
<1>14. u = v
  BY <1>7, <1>8, <1>9, <1>13, SeqEqual
<1>15. QED
  BY <1>1, <1>2, <1>3, <1>4, <1>14

(* Texts put together in another order.                                    *)
LEMMA RegroupThree ==
  ASSUME NEW T, NEW a \in Seq(T), NEW b \in Seq(T), NEW c \in Seq(T)
  PROVE  a \o (b \o c) = (a \o b) \o c
BY ConcatAssociative

LEMMA RegroupFour ==
  ASSUME NEW T, NEW a \in Seq(T), NEW b \in Seq(T), NEW c \in Seq(T), NEW d \in Seq(T)
  PROVE  a \o ((b \o c) \o d) = ((a \o b) \o c) \o d
<1>1. a \o (b \o c) = (a \o b) \o c
  BY RegroupThree
<1>2. PICK bc : bc = b \o c
  OBVIOUS
<1>3. bc \in Seq(T)
  BY <1>2, ConcatProperties
<1>4. a \o (bc \o d) = (a \o bc) \o d
  <2>1. \A x \in Seq(T) : a \o (x \o d) = (a \o x) \o d
    BY RegroupThree
  <2>2. QED
    BY <1>3, <2>1
<1>5. QED
  BY <1>1, <1>2, <1>4

(* The spaces around the bar belong to the texts on either side.           *)
LEMMA AroundTheBar ==
  ASSUME NEW T, NEW m \in Seq(T), NEW o \in Seq(T), NEW s \in T, NEW b \in T,
         NEW ss, ss = <<s>>, NEW bb, bb = <<b>>, NEW all, all = <<s, b, s>>
  PROVE  m \o all \o o = (m \o ss) \o bb \o (ss \o o)
<1>1. ss = <<s>>
  OBVIOUS
<1>2. bb = <<b>>
  OBVIOUS
<1>3. ss \in Seq(T) /\ bb \in Seq(T)
  BY <1>1, <1>2
<1>4. <<s, b, s>> = (ss \o bb) \o ss
  <2>1. Append(Append(<<s>>, b), s) = <<s, b, s>>
    BY ThreeInAll
  <2>2. PICK t : t = Append(ss, b)
    OBVIOUS
  <2>3. t \in Seq(T) /\ t = ss \o bb
    BY <1>2, <1>3, <2>2, AppendProperties, AppendIsConcat
  <2>4. Append(t, s) = t \o ss
    BY <1>1, <2>3, AppendIsConcat
  <2>5. QED
    BY <1>1, <2>1, <2>2, <2>3, <2>4
<1>5. ss \o bb \in Seq(T) /\ m \o ss \in Seq(T) /\ (ss \o bb) \o ss \in Seq(T)
  <2>1. ss \o bb \in Seq(T) /\ m \o ss \in Seq(T)
    BY <1>3, ConcatProperties
  <2>2. QED
    BY <1>3, <2>1, ConcatProperties
<1>6. m \o ((ss \o bb) \o ss) = ((m \o ss) \o bb) \o ss
  <2>1. ss \in Seq(T)
    BY <1>3
  <2>2. bb \in Seq(T)
    BY <1>3
  <2>3. QED
    BY <2>1, <2>2, RegroupFour
<1>8. PICK front : front = (m \o ss) \o bb
  OBVIOUS
<1>9. front \in Seq(T)
  BY <1>3, <1>5, <1>8, ConcatProperties
<1>10. (front \o ss) \o o = front \o (ss \o o)
  BY <1>3, <1>9, ConcatAssociative
<1>11. QED
  BY <1>1, <1>2, <1>4, <1>6, <1>8, <1>10

(* A name with a space on either side of it is a text of some symbols.     *)
LEMMA SpacedNames ==
  ASSUME NEW T, NEW s \in T, NEW n \in Seq(T)
  PROVE  /\ n \o <<s>> \in Seq(T) /\ n \o <<s>> # <<>>
         /\ <<s>> \o n \in Seq(T) /\ <<s>> \o n # <<>>
         /\ n # <<>> => <<s>> \o n # <<s>>
<1>1. PICK ss : ss = <<s>>
  OBVIOUS
<1>2. ss \in Seq(T) /\ Len(ss) = 1
  BY <1>1
<1>3. Len(n) \in Nat /\ (Len(n) = 0 => n = <<>>)
  BY LenProperties, EmptySeq
<1>4. /\ n \o ss \in Seq(T) /\ Len(n \o ss) = Len(n) + Len(ss)
      /\ ss \o n \in Seq(T) /\ Len(ss \o n) = Len(ss) + Len(n)
  <2>1. ss \in Seq(T)
    BY <1>2
  <2>2. QED
    BY <2>1, ConcatProperties
<1>5. Len(n \o ss) # 0 /\ Len(ss \o n) # 0 /\ (n # <<>> => Len(ss \o n) # Len(ss))
  BY <1>2, <1>3, <1>4
<1>6. n \o ss # <<>> /\ ss \o n # <<>>
  BY <1>5, EmptySeq
<1>7. n # <<>> => ss \o n # ss
  BY <1>5
<1>8. QED
  BY <1>1, <1>4, <1>6, <1>7

(* The second line of a file: the names come back with the spaces at them. *)
LEMMA NamesRead ==
  ASSUME NEW l \in SavedList
  PROVE  /\ NamesLine(l) \in Line /\ NamesLine(l) # <<>>
         /\ Names(NamesLine(l)) = <<MajorBack(l.major), <<Space>> \o l.option>>
<1>1. PICK m : m = l.major \o <<Space>>
  OBVIOUS
<1>2. PICK o : o = <<Space>> \o l.option
  OBVIOUS
<1>3. PICK X : X = Symbol \ {Newline, Bar}
  OBVIOUS
<1>4. l.major \in Seq(X) /\ l.option \in Seq(X) /\ Space \in X
  BY <1>3, Separators DEF SavedList, Name
<1>5. m \in Seq(X) /\ o \in Seq(X) /\ m # <<>> /\ o # <<>>
  BY <1>1, <1>2, <1>4, SpacedNames
<1>6. NamesLine(l) = m \o <<Bar>> \o o
  <2>1. PICK T : T = Symbol
    OBVIOUS
  <2>2. X \subseteq T /\ Space \in T /\ Bar \in T
    BY <1>3, <2>1, Separators
  <2>3. l.major \in Seq(T) /\ l.option \in Seq(T)
    BY <1>4, <2>2, SeqMonotonic
  <2>4. l.major \o <<Space, Bar, Space>> \o l.option
          = (l.major \o <<Space>>) \o <<Bar>> \o (<<Space>> \o l.option)
    <3>1. PICK n \in Seq(T) : n = l.major
      BY <2>3
    <3>2. PICK p \in Seq(T) : p = l.option
      BY <2>3
    <3>3. PICK s \in T : s = Space
      BY <2>2
    <3>4. PICK b \in T : b = Bar
      BY <2>2
    <3>5. PICK ss : ss = <<s>>
      OBVIOUS
    <3>6. PICK bb : bb = <<b>>
      OBVIOUS
    <3>7. PICK all : all = <<s, b, s>>
      OBVIOUS
    <3>8. n \o all \o p = (n \o ss) \o bb \o (ss \o p)
      BY <3>5, <3>6, <3>7, AroundTheBar, SMTT(30)
    <3>9. QED
      BY <3>1, <3>2, <3>3, <3>4, <3>5, <3>6, <3>7, <3>8
  <2>5. QED
    BY <1>1, <1>2, <2>4 DEF NamesLine
<1>7. NamesLine(l) \in Line /\ NamesLine(l) # <<>>
  <2>1. PICK T : T = Symbol \ {Newline}
    OBVIOUS
  <2>2. X \subseteq T /\ Bar \in T
    BY <1>3, <2>1, Separators
  <2>3. m \in Seq(T) /\ o \in Seq(T)
    BY <1>5, <2>2, SeqMonotonic
  <2>4. PICK k : k = m \o <<Bar>>
    OBVIOUS
  <2>5. k \in Seq(T) /\ k # <<>>
    BY <2>2, <2>3, <2>4, SpacedNames
  <2>6. k \o o \in Seq(T)
    BY <2>3, <2>5, ConcatProperties
  <2>7. k \o o # <<>>
    BY <1>5, <2>3, <2>5, ConcatEqualIffEmpty
  <2>8. QED
    BY <1>6, <2>1, <2>4, <2>6, <2>7 DEF Line
<1>8. Split(NamesLine(l), Bar) = <<m, o>>
  <2>1. PICK T : T = Symbol
    OBVIOUS
  <2>2. PICK sep : sep = Bar
    OBVIOUS
  <2>3. sep \in T /\ X \subseteq T \ {sep} /\ X \subseteq T
    BY <1>3, <2>1, <2>2, Separators
  <2>4. m \in Seq(T) /\ o \in Seq(T) /\ m \in Seq(T \ {sep}) /\ o \in Seq(T \ {sep})
    BY <1>5, <2>3, SeqMonotonic
  <2>5. Split(m \o <<sep>> \o o, sep) = Split(m, sep) \o Split(o, sep)
    <3>1. sep \in T
      BY <2>3
    <3>2. PICK n \in Seq(T) : n = m
      BY <2>4
    <3>3. PICK p \in Seq(T) : p = o
      BY <2>4
    <3>4. Split(n \o <<sep>> \o p, sep) = Split(n, sep) \o Split(p, sep)
      BY <3>1, SplitTwo
    <3>5. QED
      BY <3>2, <3>3, <3>4
  <2>6. Split(m, sep) = <<m>> /\ Split(o, sep) = <<o>>
    BY <2>4, SplitFree
  <2>7. <<m>> \o <<o>> = <<m, o>>
    BY TwoInAll
  <2>8. QED
    BY <1>6, <2>2, <2>5, <2>6, <2>7
<1>9. NonEmpty(<<m, o>>) = <<m, o>>
  <2>1. PICK U : U = {m, o} \ {<<>>}
    OBVIOUS
  <2>2. m \in {m, o} \ {<<>>} /\ o \in {m, o} \ {<<>>}
    BY <1>5
  <2>3. <<m, o>> \in Seq(U)
    BY <2>1, <2>2
  <2>4. PICK W : W = {m, o}
    OBVIOUS
  <2>5. PICK ps : ps = <<m, o>>
    OBVIOUS
  <2>6. ps \in Seq(W \ {<<>>})
    BY <2>1, <2>3, <2>4, <2>5
  <2>7. NonEmpty(ps) = ps
    BY <2>6, NonEmptyAll
  <2>8. QED
    BY <2>5, <2>7
<1>10. QED
  BY <1>1, <1>2, <1>7, <1>8, <1>9 DEF Names, MajorBack

(* The two lines of the names and one for every card, none of them empty   *)
(* but perhaps the first.                                                  *)
LEMMA LinesToWrite ==
  ASSUME NEW l \in SavedList
  PROVE  /\ WrittenLines(l) \in Seq(Line)
         /\ Len(WrittenLines(l)) = 2 + Len(l.cards)
         /\ WrittenLines(l)[1] = l.faculty
         /\ WrittenLines(l)[2] = NamesLine(l)
         /\ \A i \in 1 .. Len(l.cards) : WrittenLines(l)[i + 2] = CardLine(l.cards[i])
         /\ l.faculty # <<>> => WrittenLines(l) \in Seq(Line \ {<<>>})
<1>1. PICK n \in Nat : n = Len(l.cards)
  BY LenProperties DEF SavedList
<1>2. \A i \in 1 .. n : l.cards[i] \in SavedCard
  <2>1. l.cards \in Seq(SavedCard)
    BY DEF SavedList
  <2>2. QED
    BY <1>1, <2>1, ElementOfSeq
<1>3. PICK names : names = NamesLine(l)
  OBVIOUS
<1>4. l.faculty \in Line /\ names \in Line /\ names # <<>>
  BY <1>3, NamesRead DEF SavedList
<1>5. PICK s : s = <<l.faculty, names>>
  OBVIOUS
<1>6. s \in Seq(Line) /\ Len(s) = 2 /\ s[1] = l.faculty /\ s[2] = names
  BY <1>4, <1>5
<1>7. PICK b : b = [i \in 1 .. n |-> CardLine(l.cards[i])]
  OBVIOUS
<1>8. /\ b \in Seq(Line) /\ Len(b) = n
      /\ \A i \in 1 .. n : b[i] = CardLine(l.cards[i]) /\ b[i] # <<>>
  <2>1. \A i \in 1 .. n : CardLine(l.cards[i]) \in Line /\ CardLine(l.cards[i]) # <<>>
    BY <1>2, CardLineType
  <2>2. b \in [1 .. n -> Line]
    BY <1>7, <2>1
  <2>3. b \in Seq(Line)
    BY <2>2, SeqDef
  <2>4. Len(b) \in Nat /\ DOMAIN b = 1 .. Len(b)
    BY <2>3, LenProperties
  <2>5. DOMAIN b = 1 .. n
    BY <2>2
  <2>6. Len(b) = n
    <3>1. PICK k \in Nat : k = Len(b)
      BY <2>4
    <3>2. 1 .. k = 1 .. n
      BY <2>4, <2>5, <3>1
    <3>3. k = n
      BY <3>2
    <3>4. QED
      BY <3>1, <3>3
  <2>7. QED
    BY <1>7, <2>1, <2>3, <2>6
<1>9. PICK w : w = WrittenLines(l)
  OBVIOUS
<1>10. w = s \o b
  BY <1>1, <1>3, <1>5, <1>7, <1>9 DEF WrittenLines, NamesLine
<1>11. /\ w \in Seq(Line) /\ Len(w) = Len(s) + Len(b)
       /\ \A i \in 1 .. (Len(s) + Len(b)) : w[i] = IF i <= Len(s) THEN s[i] ELSE b[i - Len(s)]
  <2>1. s \in Seq(Line)
    BY <1>6
  <2>2. b \in Seq(Line)
    BY <1>8
  <2>3. QED
    BY <1>10, <2>1, <2>2, ConcatProperties
<1>12. Len(w) = 2 + n
  BY <1>6, <1>8, <1>11
<1>13. w[1] = l.faculty /\ w[2] = names
  <2>1. 1 \in 1 .. (Len(s) + Len(b)) /\ 2 \in 1 .. (Len(s) + Len(b)) /\ 1 <= Len(s) /\ 2 <= Len(s)
    BY <1>6, <1>8
  <2>2. w[1] = s[1] /\ w[2] = s[2]
    BY <1>11, <2>1
  <2>3. QED
    BY <1>6, <2>2
<1>14. ASSUME NEW i \in 1 .. n PROVE w[i + 2] = CardLine(l.cards[i]) /\ w[i + 2] # <<>>
  <2>1. /\ i + 2 \in 1 .. (Len(s) + Len(b)) /\ ~(i + 2 <= Len(s))
        /\ (i + 2) - Len(s) = i
    BY <1>6, <1>8
  <2>2. w[i + 2] = b[(i + 2) - Len(s)]
    BY <1>11, <2>1
  <2>3. QED
    BY <1>8, <2>1, <2>2
<1>15. ASSUME l.faculty # <<>> PROVE w \in Seq(Line \ {<<>>})
  <2>1. ASSUME NEW k \in 1 .. (2 + n) PROVE w[k] \in Line \ {<<>>}
    <3>1. w[k] \in Line
      BY <1>11, <1>12, ElementOfSeq
    <3>2. w[k] # <<>>
      <4>1. CASE k = 1
        BY <4>1, <1>13, <1>15
      <4>2. CASE k = 2
        BY <4>2, <1>4, <1>13
      <4>3. CASE k # 1 /\ k # 2
        <5>1. k - 2 \in 1 .. n /\ (k - 2) + 2 = k
          BY <4>3
        <5>2. w[(k - 2) + 2] # <<>>
          BY <5>1, <1>14
        <5>3. QED
          BY <5>1, <5>2
      <4>4. QED
        BY <4>1, <4>2, <4>3
    <3>3. QED
      BY <3>1, <3>2
  <2>2. w \in [1 .. (2 + n) -> Line]
    BY <1>11, <1>12, LenProperties
  <2>3. w \in [1 .. (2 + n) -> Line \ {<<>>}]
    BY <2>1, <2>2
  <2>4. 2 + n \in Nat
    OBVIOUS
  <2>5. QED
    BY <2>3, <2>4, SeqDef
<1>16. QED
  BY <1>1, <1>3, <1>9, <1>11, <1>12, <1>13, <1>14, <1>15

(* A file is its lines, each with its end.                                 *)
LEMMA WrittenByLines ==
  ASSUME NEW l \in SavedList
  PROVE  Written(l) = Concat(Ended(WrittenLines(l), Newline)) /\ Written(l) \in Text
<1>1. Written(l) = Concat(Ended(WrittenLines(l), Newline))
  BY DEF Written, Ended
<1>2. WrittenLines(l) \in Seq(Seq(Symbol))
  <2>1. Line \subseteq Seq(Symbol)
    BY SeqMonotonic DEF Line
  <2>2. WrittenLines(l) \in Seq(Line)
    BY LinesToWrite
  <2>3. QED
    BY <2>1, <2>2, SeqMonotonic
<1>3. Newline \in Symbol
  BY Separators
<1>4. Ended(WrittenLines(l), Newline) \in Seq(Seq(Symbol))
  BY <1>2, <1>3, EndedType
<1>5. QED
  BY <1>1, <1>4, ConcatType DEF Text

(* The lines of a file are the lines that were written, when the faculty   *)
(* is not empty.                                                           *)
LEMMA LinesOfWritten ==
  ASSUME NEW l \in SavedList, l.faculty # <<>>
  PROVE  Lines(Written(l)) = WrittenLines(l)
<1>1. PICK w : w = WrittenLines(l)
  OBVIOUS
<1>2. w \in Seq(Line) /\ w \in Seq(Line \ {<<>>})
  BY <1>1, LinesToWrite
<1>3. PICK t : t = Written(l)
  OBVIOUS
<1>4. t = Concat(Ended(w, Newline)) /\ t \in Seq(Symbol)
  BY <1>1, <1>3, WrittenByLines DEF Text
<1>5. t \o <<>> = t
  BY <1>4, ConcatEmptySeq
<1>6. Split(t \o <<>>, Newline) = Append(w, <<>>)
  <2>1. w \in Seq(Seq(Symbol \ {Newline}))
    BY <1>2 DEF Line
  <2>2. PICK ls \in Seq(Seq(Symbol \ {Newline})) : ls = w
    BY <2>1
  <2>3. PICK rest : rest = <<>>
    OBVIOUS
  <2>4. rest \in Seq(Symbol \ {Newline})
    BY <2>3, EmptySeq
  <2>5. Newline \in Symbol
    BY Separators
  <2>6. Split(Concat(Ended(ls, Newline)) \o rest, Newline) = Append(ls, rest)
    BY <2>4, <2>5, SplitOfEnded
  <2>7. QED
    BY <1>4, <2>2, <2>3, <2>6
<1>7. NonEmpty(Append(w, <<>>)) = AddNonEmpty(NonEmpty(w), <<>>)
  <2>1. <<>> \in Line
    BY EmptySeq DEF Line
  <2>2. PICK e : e = <<>>
    OBVIOUS
  <2>3. e \in Line
    BY <2>1, <2>2
  <2>4. NonEmpty(Append(w, e)) = AddNonEmpty(NonEmpty(w), e)
    BY <1>2, <2>3, NonEmptyAppend
  <2>5. QED
    BY <2>2, <2>4
<1>8. AddNonEmpty(NonEmpty(w), <<>>) = NonEmpty(w)
  BY DEF AddNonEmpty
<1>9. NonEmpty(w) = w
  BY <1>2, NonEmptyAll
<1>10. QED
  BY <1>1, <1>3, <1>5, <1>6, <1>7, <1>8, <1>9 DEF Lines

-----------------------------------------------------------------------------
(* A written list can be read.                                             *)
LEMMA WrittenReads ==
  ASSUME NEW l \in SavedList, l.faculty # <<>>,
         \A c \in ToSet(l.cards) : ~Holds(c.text, Mark)
  PROVE  Reads(Written(l))
<1>1. PICK w : w = Lines(Written(l))
  OBVIOUS
<1>2. PICK n \in Nat : n = Len(l.cards)
  BY LenProperties DEF SavedList
<1>3. /\ Len(w) = 2 + n
      /\ w[2] = NamesLine(l)
      /\ \A i \in 1 .. n : w[i + 2] = CardLine(l.cards[i])
  BY <1>1, <1>2, LinesOfWritten, LinesToWrite
<1>4. Len(Names(w[2])) = 2
  BY <1>3, NamesRead
<1>5. ASSUME NEW k \in 3 .. Len(w) PROVE LineReads(w[k])
  <2>1. k - 2 \in 1 .. n /\ (k - 2) + 2 = k
    BY <1>3
  <2>2. PICK c : c = l.cards[k - 2]
    OBVIOUS
  <2>3. w[k] = CardLine(c)
    BY <1>3, <2>1, <2>2
  <2>4. l.cards \in Seq(SavedCard)
    BY DEF SavedList
  <2>5. c \in SavedCard
    BY <1>2, <2>1, <2>2, <2>4, ElementOfSeq
  <2>6. c \in ToSet(l.cards)
    BY <1>2, <2>1, <2>2 DEF ToSet
  <2>7. QED
    BY <2>3, <2>5, <2>6, CardReads
<1>6. Len(w) >= 2
  BY <1>3
<1>7. QED
  BY <1>1, <1>4, <1>5, <1>6 DEF Reads

ListBack(l) ==
  [faculty |-> l.faculty, major |-> MajorBack(l.major), option |-> OptionBack(l.option),
   cards   |-> [i \in 1 .. Len(l.cards) |-> CardBack(l.cards[i])]]

(* A plain list is read as ListBack says.                                  *)
LEMMA PlainListComesBack ==
  ASSUME NEW l \in SavedList, Plain(l)
  PROVE  Read(Written(l)) = ListBack(l)
<1>1. PICK w : w = Lines(Written(l))
  OBVIOUS
<1>2. PICK n \in Nat : n = Len(l.cards)
  BY LenProperties DEF SavedList
<1>3. /\ Len(w) = 2 + n
      /\ w[1] = l.faculty
      /\ w[2] = NamesLine(l)
      /\ \A i \in 1 .. n : w[i + 2] = CardLine(l.cards[i])
  BY <1>1, <1>2, LinesOfWritten, LinesToWrite DEF Plain
<1>4. PICK names : names = Names(w[2])
  OBVIOUS
<1>5. names[1] = MajorBack(l.major) /\ names[2] = <<Space>> \o l.option
  BY <1>3, <1>4, NamesRead
<1>6. (IF names[2] = <<Space>> THEN <<>> ELSE names[2]) = OptionBack(l.option)
  <2>1. CASE l.option = <<>>
    <3>1. PICK T : T = Symbol
      OBVIOUS
    <3>2. PICK x \in T : x = Space
      BY <3>1, Separators
    <3>3. PICK s : s = <<x>>
      OBVIOUS
    <3>4. s \in Seq(T)
      BY <3>3
    <3>5. s \o <<>> = s
      BY <3>4, ConcatEmptySeq
    <3>6. QED
      BY <1>5, <2>1, <3>2, <3>3, <3>5 DEF OptionBack
  <2>2. CASE l.option # <<>>
    <3>1. PICK T : T = Symbol
      OBVIOUS
    <3>2. l.option \in Seq(T) /\ Space \in T
      BY <3>1, SeqMonotonic, Separators DEF SavedList, Name
    <3>3. <<Space>> \o l.option # <<Space>>
      BY <2>2, <3>2, SpacedNames
    <3>4. QED
      BY <1>5, <2>2, <3>3 DEF OptionBack
  <2>3. QED
    BY <2>1, <2>2
<1>7. ASSUME NEW i \in 1 .. n PROVE ReadCard(w[i + 2]) = CardBack(l.cards[i])
  <2>1. PICK c : c = l.cards[i]
    OBVIOUS
  <2>2. l.cards \in Seq(SavedCard)
    BY DEF SavedList
  <2>3. c \in SavedCard
    BY <1>2, <2>1, <2>2, ElementOfSeq
  <2>4. PlainCard(c)
    BY <1>2, <2>1 DEF Plain, PlainCard, ToSet
  <2>5. QED
    BY <1>3, <2>1, <2>3, <2>4, CardComesBack
<1>8. Len(w) - 2 = n
  BY <1>3
<1>9. [i \in 1 .. Len(w) - 2 |-> ReadCard(w[i + 2])]
        = [i \in 1 .. Len(l.cards) |-> CardBack(l.cards[i])]
  BY <1>2, <1>7, <1>8
<1>10. QED
  BY <1>1, <1>3, <1>4, <1>5, <1>6, <1>9 DEF Read, ListBack

-----------------------------------------------------------------------------
(* What is read of any text that can be read is well-formed and plain.     *)
LEMMA LinesType ==
  ASSUME NEW t \in Text
  PROVE  Lines(t) \in Seq(Line \ {<<>>})
<1>1. t \in Seq(Symbol)
  BY DEF Text
<1>2. Split(t, Newline) \in Pieces(Symbol, Newline)
  BY <1>1, SplitType
<1>3. Split(t, Newline) \in Seq(Line)
  BY <1>2 DEF Pieces, Line
<1>4. QED
  BY <1>3, NonEmptyType DEF Lines

(* Names are not empty and hold no bar; items are not empty and hold no    *)
(* separator.                                                              *)
LEMMA NamesType ==
  ASSUME NEW line \in Line
  PROVE  Names(line) \in Seq(Name \ {<<>>})
<1>1. line \in Seq(Symbol \ {Newline})
  BY DEF Line
<1>2. Split(line, Bar) \in Pieces(Symbol \ {Newline}, Bar)
  BY <1>1, SplitType
<1>3. Symbol \ {Newline, Bar} = (Symbol \ {Newline}) \ {Bar}
  OBVIOUS
<1>4. Split(line, Bar) \in Seq(Name)
  BY <1>2, <1>3 DEF Pieces, Name
<1>5. QED
  BY <1>4, NonEmptyType DEF Names

LEMMA ItemsOfText ==
  ASSUME NEW T, NEW t \in Seq(T), NEW sep
  PROVE  NonEmpty(Split(t, sep)) \in Seq(Seq(T \ {sep}) \ {<<>>})
<1>1. Split(t, sep) \in Pieces(T, sep)
  BY SplitType
<1>2. Split(t, sep) \in Seq(Seq(T \ {sep}))
  BY <1>1 DEF Pieces
<1>3. QED
  BY <1>2, NonEmptyType

(* The card of a line that can be read.                                    *)
LEMMA CardRead ==
  ASSUME NEW line \in Line, LineReads(line)
  PROVE  /\ ReadCard(line) \in SavedCard
         /\ PlainCard(ReadCard(line))
         /\ CardBack(ReadCard(line)) = ReadCard(line)
<1>1. PICK T : T = Symbol \ {Newline, Mark}
  OBVIOUS
<1>2. PICK fields : fields = Fields(line)
  OBVIOUS
<1>3. fields \in Seq(Seq(T))
  <2>1. line \in Seq(Symbol \ {Newline})
    BY DEF Line
  <2>2. Split(line, Mark) \in Pieces(Symbol \ {Newline}, Mark)
    BY <2>1, SplitType
  <2>3. T = (Symbol \ {Newline}) \ {Mark}
    BY <1>1
  <2>4. QED
    BY <1>2, <2>2, <2>3 DEF Pieces, Fields
<1>4. /\ Len(fields) >= 7 /\ IsNumber(fields[4]) /\ IsNumber(fields[5])
      /\ \A b \in ToSet(BoxTexts(fields[3])) : IsNumber(b)
  BY <1>2 DEF LineReads
<1>5. \A k \in 1 .. 7 : fields[k] \in Seq(T)
  <2>1. Len(fields) \in Nat
    BY <1>3, LenProperties
  <2>2. \A k \in 1 .. 7 : k \in 1 .. Len(fields)
    BY <1>4, <2>1
  <2>3. QED
    BY <1>3, <2>2, ElementOfSeq
<1>6. Seq(T) \subseteq Text /\ Seq(T) \subseteq Line
  <2>1. T \subseteq Symbol /\ T \subseteq Symbol \ {Newline}
    BY <1>1
  <2>2. QED
    BY <2>1, SeqMonotonic DEF Text, Line
<1>7. PICK bs : bs = BoxTexts(fields[3])
  OBVIOUS
<1>8. PICK ns : ns = [i \in 1 .. Len(bs) |-> Number(bs[i])]
  OBVIOUS
<1>9. ns \in Seq(Nat)
  <2>1. fields[3] \in Seq(T)
    BY <1>5
  <2>2. bs \in Seq(Seq(T \ {Semicolon}) \ {<<>>})
    BY <1>7, <2>1, ItemsOfText DEF BoxTexts
  <2>3. Len(bs) \in Nat /\ DOMAIN bs = 1 .. Len(bs)
    BY <2>2, LenProperties
  <2>4. ASSUME NEW i \in 1 .. Len(bs) PROVE Number(bs[i]) \in Nat
    <3>1. bs[i] \in Seq(T \ {Semicolon})
      BY <2>2, ElementOfSeq
    <3>2. Seq(T \ {Semicolon}) \subseteq Seq(T)
      BY SeqMonotonic
    <3>3. bs[i] \in Text
      BY <1>6, <3>1, <3>2
    <3>4. IsNumber(bs[i])
      BY <1>4, <1>7, <2>3 DEF ToSet
    <3>5. QED
      BY <3>3, <3>4, NumberType
  <2>5. ns \in [1 .. Len(bs) -> Nat]
    BY <1>8, <2>4
  <2>6. QED
    BY <2>3, <2>5, SeqDef
<1>10. Number(fields[4]) \in Nat /\ Number(fields[5]) \in Nat
  <2>1. fields[4] \in Text /\ fields[5] \in Text
    BY <1>5, <1>6
  <2>2. QED
    BY <1>4, <2>1, NumberType
<1>11. PICK is : is = NonEmpty(Split(fields[6], Semicolon))
  OBVIOUS
<1>12. is \in Seq(Seq(T \ {Semicolon}) \ {<<>>})
  <2>1. fields[6] \in Seq(T)
    BY <1>5
  <2>2. QED
    BY <1>11, <2>1, ItemsOfText
<1>13. is \in Seq(Item)
  <2>1. T \ {Semicolon} \subseteq Symbol \ {Newline, Semicolon}
    BY <1>1
  <2>2. Seq(T \ {Semicolon}) \subseteq Item
    BY <2>1, SeqMonotonic DEF Item
  <2>3. QED
    BY <1>12, <2>2, SeqMonotonic
<1>14. PICK c : c = ReadCard(line)
  OBVIOUS
<1>15. c = [text |-> fields[1], boxes |-> ns, num |-> Number(fields[4]),
            progress |-> Number(fields[5]), items |-> is, comment |-> fields[7]]
  BY <1>2, <1>7, <1>8, <1>11, <1>14 DEF ReadCard
<1>16. c \in SavedCard
  <2>1. fields[1] \in Line /\ fields[7] \in Line
    BY <1>5, <1>6
  <2>2. QED
    BY <1>9, <1>10, <1>13, <1>15, <2>1 DEF SavedCard
<1>17. PlainCard(c)
  <2>1. ASSUME NEW t \in Seq(T) PROVE ~Holds(t, Mark)
    <3>1. T \subseteq Symbol \ {Mark} /\ T \subseteq Symbol
      BY <1>1
    <3>2. t \in Seq(Symbol \ {Mark}) /\ t \in Seq(Symbol)
      BY <3>1, SeqMonotonic
    <3>3. QED
      BY <3>2, WithoutSymbol
  <2>2. c.text \in Seq(T)
    BY <1>5, <1>15
  <2>3. ASSUME NEW t \in ToSet(c.items) PROVE t \in Seq(T)
    <3>1. PICK i \in DOMAIN is : t = is[i]
      BY <1>15 DEF ToSet
    <3>2. i \in 1 .. Len(is)
      BY <1>12, LenProperties
    <3>3. is[i] \in Seq(T \ {Semicolon})
      BY <1>12, <3>2, ElementOfSeq
    <3>4. Seq(T \ {Semicolon}) \subseteq Seq(T)
      BY SeqMonotonic
    <3>5. QED
      BY <3>1, <3>3, <3>4
  <2>4. QED
    BY <2>1, <2>2, <2>3 DEF PlainCard
<1>18. NonEmpty(is) = is
  BY <1>12, NonEmptyAll
<1>19. Split(fields[7], Mark)[1] = fields[7]
  <2>1. PICK t : t = fields[7]
    OBVIOUS
  <2>2. T \subseteq Symbol \ {Mark}
    BY <1>1
  <2>3. t \in Seq(Symbol \ {Mark})
    BY <1>5, <2>1, <2>2, SeqMonotonic
  <2>4. Split(t, Mark) = <<t>>
    BY <2>3, SplitFree
  <2>5. QED
    BY <2>1, <2>4
<1>20. CardBack(c) = c
  <2>1. PICK i : i = NonEmpty(c.items)
    OBVIOUS
  <2>2. PICK m : m = Split(c.comment, Mark)[1]
    OBVIOUS
  <2>3. i = c.items /\ m = c.comment
    BY <1>15, <1>18, <1>19, <2>1, <2>2
  <2>4. PICK d : d = [c EXCEPT !.items = i]
    OBVIOUS
  <2>5. d = c
    BY <1>16, <2>3, <2>4 DEF SavedCard
  <2>6. CardBack(c) = [d EXCEPT !.comment = m]
    BY <2>1, <2>2, <2>4 DEF CardBack
  <2>7. [c EXCEPT !.comment = m] = c
    BY <1>16, <2>3 DEF SavedCard
  <2>8. QED
    BY <2>5, <2>6, <2>7
<1>21. QED
  BY <1>14, <1>16, <1>17, <1>20

(* The list of a text that can be read.                                    *)
LEMMA ReadIsTyped ==
  ASSUME NEW t \in Text, Reads(t)
  PROVE  /\ Read(t) \in SavedList
         /\ Plain(Read(t))
         /\ \A i \in 1 .. Len(Read(t).cards) :
              CardBack(Read(t).cards[i]) = Read(t).cards[i]
<1>1. PICK ls : ls = Lines(t)
  OBVIOUS
<1>2. ls \in Seq(Line \ {<<>>})
  BY <1>1, LinesType
<1>3. /\ Len(ls) \in Nat /\ Len(ls) >= 2 /\ Len(Names(ls[2])) >= 2
      /\ \A i \in 3 .. Len(ls) : LineReads(ls[i])
  BY <1>1, <1>2, LenProperties DEF Reads
<1>4. \A k \in 1 .. Len(ls) : ls[k] \in Line \ {<<>>}
  BY <1>2, ElementOfSeq
<1>5. ls[1] \in Line \ {<<>>} /\ ls[2] \in Line
  BY <1>3, <1>4
<1>6. PICK ns : ns = Names(ls[2])
  OBVIOUS
<1>7. ns[1] \in Name /\ ns[2] \in Name
  <2>1. ns \in Seq(Name \ {<<>>})
    BY <1>5, <1>6, NamesType
  <2>2. Len(ns) \in Nat /\ Len(ns) >= 2
    BY <1>3, <1>6, <2>1, LenProperties
  <2>3. 1 \in 1 .. Len(ns) /\ 2 \in 1 .. Len(ns)
    BY <2>2
  <2>4. QED
    BY <2>1, <2>3, ElementOfSeq
<1>8. PICK n \in Nat : n = Len(ls) - 2
  BY <1>3
<1>9. PICK cs : cs = [i \in 1 .. n |-> ReadCard(ls[i + 2])]
  OBVIOUS
<1>10. ASSUME NEW i \in 1 .. n
       PROVE  cs[i] \in SavedCard /\ PlainCard(cs[i]) /\ CardBack(cs[i]) = cs[i]
  <2>1. i + 2 \in 3 .. Len(ls) /\ i + 2 \in 1 .. Len(ls)
    BY <1>3, <1>8
  <2>2. PICK line : line = ls[i + 2]
    OBVIOUS
  <2>3. line \in Line /\ LineReads(line)
    BY <1>3, <1>4, <2>1, <2>2
  <2>4. cs[i] = ReadCard(line)
    BY <1>9, <2>2
  <2>5. QED
    BY <2>3, <2>4, CardRead
<1>11. cs \in Seq(SavedCard) /\ Len(cs) = n /\ DOMAIN cs = 1 .. n
  <2>1. cs \in [1 .. n -> SavedCard]
    BY <1>9, <1>10
  <2>2. cs \in Seq(SavedCard) /\ DOMAIN cs = 1 .. n
    BY <2>1, SeqDef
  <2>3. PICK k \in Nat : k = Len(cs)
    BY <2>2, LenProperties
  <2>4. 1 .. k = 1 .. n
    BY <2>2, <2>3, LenProperties
  <2>5. k = n
    BY <2>4
  <2>6. QED
    BY <2>2, <2>3, <2>5
<1>12. PICK l : l = Read(t)
  OBVIOUS
<1>13. PICK o : o = IF ns[2] = <<Space>> THEN <<>> ELSE ns[2]
  OBVIOUS
<1>14. l = [faculty |-> ls[1], major |-> ns[1], option |-> o, cards |-> cs]
  BY <1>1, <1>6, <1>8, <1>9, <1>12, <1>13 DEF Read
<1>15. o \in Name
  <2>1. <<>> \in Name
    BY EmptySeq DEF Name
  <2>2. QED
    BY <1>7, <1>13, <2>1
<1>16. l \in SavedList
  BY <1>5, <1>7, <1>11, <1>14, <1>15 DEF SavedList
<1>17. Plain(l)
  <2>1. l.faculty # <<>>
    BY <1>5, <1>14
  <2>2. ASSUME NEW c \in ToSet(l.cards) PROVE PlainCard(c)
    <3>1. PICK i \in DOMAIN cs : c = cs[i]
      BY <1>14 DEF ToSet
    <3>2. QED
      BY <1>10, <1>11, <3>1
  <2>3. QED
    BY <2>1, <2>2 DEF Plain, PlainCard
<1>18. \A i \in 1 .. Len(l.cards) : CardBack(l.cards[i]) = l.cards[i]
  BY <1>10, <1>11, <1>14
<1>19. QED
  BY <1>12, <1>16, <1>17, <1>18

(* Saving what was loaded loses nothing but the spaces around the names.   *)
LEMMA ReadSettles ==
  ASSUME NEW t \in Text, Reads(t)
  PROVE  /\ Reads(Written(Read(t)))
         /\ Read(Written(Read(t))) = [Read(t) EXCEPT !.major  = MajorBack(@),
                                                     !.option = OptionBack(@)]
<1>1. PICK l \in SavedList : l = Read(t)
  BY ReadIsTyped
<1>2. Plain(l) /\ \A i \in 1 .. Len(l.cards) : CardBack(l.cards[i]) = l.cards[i]
  BY <1>1, ReadIsTyped
<1>3. Reads(Written(l))
  BY <1>2, WrittenReads DEF Plain
<1>4. PICK cs \in Seq(SavedCard) : cs = l.cards
  BY DEF SavedList
<1>5. PICK bs : bs = [i \in 1 .. Len(l.cards) |-> CardBack(l.cards[i])]
  OBVIOUS
<1>6. bs = cs
  <2>1. Len(cs) \in Nat /\ cs = [i \in 1 .. Len(cs) |-> cs[i]]
    BY LenProperties
  <2>2. \A i \in 1 .. Len(cs) : CardBack(l.cards[i]) = cs[i]
    BY <1>2, <1>4
  <2>3. bs = [i \in 1 .. Len(cs) |-> cs[i]]
    BY <1>4, <1>5, <2>2
  <2>4. QED
    BY <2>1, <2>3
<1>7. PICK m : m = MajorBack(l.major)
  OBVIOUS
<1>8. PICK o : o = OptionBack(l.option)
  OBVIOUS
<1>9. Read(Written(l)) = [faculty |-> l.faculty, major |-> m, option |-> o, cards |-> cs]
  <2>1. Read(Written(l)) = ListBack(l)
    BY <1>2, PlainListComesBack
  <2>2. QED
    BY <1>5, <1>6, <1>7, <1>8, <2>1 DEF ListBack
<1>10. [l EXCEPT !.major = MajorBack(@), !.option = OptionBack(@)]
         = [faculty |-> l.faculty, major |-> m, option |-> o, cards |-> cs]
  <2>1. PICK d : d = [l EXCEPT !.major = m]
    OBVIOUS
  <2>2. d = [faculty |-> l.faculty, major |-> m, option |-> l.option, cards |-> cs]
    BY <1>4, <2>1 DEF SavedList
  <2>3. [l EXCEPT !.major = MajorBack(@), !.option = OptionBack(@)] = [d EXCEPT !.option = o]
    BY <1>7, <1>8, <2>1
  <2>4. QED
    BY <2>2, <2>3
<1>11. QED
  BY <1>1, <1>3, <1>9, <1>10

-----------------------------------------------------------------------------
(* What the actions put in the list is well-formed.                        *)
LEMMA NewCardType ==
  ASSUME NEW r \in Line, Len(Split(r, Semicolon)) > 2
  PROVE  NewCard(r) \in SavedCard
<1>1. PICK ps : ps = Split(r, Semicolon)
  OBVIOUS
<1>2. ps \in Seq(Item)
  <2>1. r \in Seq(Symbol \ {Newline})
    BY DEF Line
  <2>2. Split(r, Semicolon) \in Pieces(Symbol \ {Newline}, Semicolon)
    BY <2>1, SplitType
  <2>3. Symbol \ {Newline, Semicolon} = (Symbol \ {Newline}) \ {Semicolon}
    OBVIOUS
  <2>4. QED
    BY <1>1, <2>2, <2>3 DEF Pieces, Item
<1>3. Len(ps) \in Nat /\ Len(ps) > 2
  BY <1>1, <1>2, LenProperties
<1>4. \A i \in 1 .. Len(ps) : ps[i] \in Item
  BY <1>2, ElementOfSeq
<1>5. ps[1] \in Item /\ ps[2] \in Item
  BY <1>3, <1>4
<1>6. Item \subseteq Line /\ Item \subseteq Text
  BY SeqMonotonic DEF Item, Line, Text
<1>7. PICK n : n = IF IsNumber(ps[2]) THEN Number(ps[2]) ELSE 0
  OBVIOUS
<1>8. n \in Nat
  BY <1>5, <1>6, <1>7, NumberType
<1>9. PICK is : is = SubSeq(ps, 3, Len(ps))
  OBVIOUS
<1>10. is \in Seq(Item)
  <2>1. \A i \in 3 .. Len(ps) : ps[i] \in Item
    BY <1>3, <1>4
  <2>2. Len(ps) \in Int
    BY <1>3
  <2>3. QED
    BY <1>9, <2>1, <2>2, SubSeqProperties
<1>11. NewCard(r) = [text |-> ps[1], boxes |-> <<>>, num |-> n, progress |-> 0,
                     items |-> is, comment |-> <<>>]
  BY <1>1, <1>7, <1>9 DEF NewCard
<1>12. <<>> \in Seq(Nat) /\ <<>> \in Line
  BY EmptySeq DEF Line
<1>13. QED
  BY <1>5, <1>6, <1>8, <1>10, <1>11, <1>12 DEF SavedCard

(* The answer of the database gives cards.                                 *)
LEMMA AnswerType ==
  ASSUME NEW p \in Programs
  PROVE  Answer(p) \in Seq(SavedCard)
<1>1. PICK rs : rs = p.reqs
  OBVIOUS
<1>2. rs \in Seq(Line) /\ \A r \in ToSet(rs) : Len(Split(r, Semicolon)) > 2
  BY <1>1, ProgramsAssumption
<1>3. Len(rs) \in Nat /\ DOMAIN rs = 1 .. Len(rs)
  BY <1>2, LenProperties
<1>4. ASSUME NEW i \in 1 .. Len(rs) PROVE NewCard(rs[i]) \in SavedCard
  <2>1. PICK r : r = rs[i]
    OBVIOUS
  <2>2. r \in Line /\ r \in ToSet(rs)
    BY <1>2, <1>3, <2>1, ElementOfSeq DEF ToSet
  <2>3. QED
    BY <1>2, <2>1, <2>2, NewCardType
<1>5. Answer(p) \in [1 .. Len(rs) -> SavedCard]
  BY <1>1, <1>4 DEF Answer
<1>6. QED
  BY <1>3, <1>5, SeqDef

(* Tapping: releasing a box leaves boxes.                                  *)
LEMMA LeastPosition ==
  ASSUME NEW S, S \subseteq Nat, S # {}
  PROVE  C!Min(S) \in S
BY LeastElement DEF C!Min

LEMMA RemoveFirstType ==
  ASSUME NEW T, NEW s \in Seq(T), NEW e
  PROVE  C!RemoveFirst(s, e) \in Seq(T)
<1> DEFINE I == {i \in 1 .. Len(s) : s[i] = e}
<1>1. Len(s) \in Nat /\ \A i \in 1 .. Len(s) : s[i] \in T
  BY LenProperties, ElementOfSeq
<1>2. CASE I = {}
  BY <1>2 DEF C!RemoveFirst
<1>3. CASE I # {}
  <2>1. I \subseteq Nat
    BY <1>1
  <2>2. PICK k \in I : k = C!Min(I)
    BY <1>3, <2>1, LeastPosition
  <2>3. k \in 1 .. Len(s)
    OBVIOUS
  <2>4. C!RemoveFirst(s, e) = SubSeq(s, 1, k - 1) \o SubSeq(s, k + 1, Len(s))
    BY <1>3, <2>2 DEF C!RemoveFirst, C!RemoveAt, C!SelectInSeq
  <2>5. SubSeq(s, 1, k - 1) \in Seq(T)
    <3>1. 1 \in Int /\ k - 1 \in Int /\ \A i \in 1 .. (k - 1) : s[i] \in T
      BY <1>1, <2>3
    <3>2. QED
      BY <3>1, SubSeqProperties
  <2>6. SubSeq(s, k + 1, Len(s)) \in Seq(T)
    <3>1. k + 1 \in Int /\ Len(s) \in Int /\ \A i \in (k + 1) .. Len(s) : s[i] \in T
      BY <1>1, <2>3
    <3>2. QED
      BY <3>1, SubSeqProperties
  <2>7. QED
    BY <2>4, <2>5, <2>6, ConcatProperties
<1>4. QED
  BY <1>2, <1>3

(* The division of checkboxSelected() gives a natural number.              *)
LEMMA ShareType ==
  ASSUME NEW k \in Nat, NEW n \in Nat \ {0}
  PROVE  k \div n \in Nat
<1> DEFINE q == k \div n
           r == k % n
<1>1. /\ q \in Int /\ r \in 0 .. (n - 1)
      /\ k = n * q + r
  OBVIOUS
<1>2. ASSUME q <= -1 PROVE FALSE
  <2>1. n * q <= -n
    BY <1>1, <1>2
  <2>2. QED
    BY <1>1, <2>1
<1>3. QED
  BY <1>1, <1>2

(* A tap leaves boxes and a progress that can be written.                  *)
LEMMA TapType ==
  ASSUME NEW c \in SavedCard, NEW id, NEW box \in Nat, ~C!DivisionTraps(AsCard(c, id))
  PROVE  /\ C!CheckboxSelected(AsCard(c, id), box).checkedBoxes \in Seq(Nat)
         /\ C!CheckboxSelected(AsCard(c, id), box).progress \in Nat
<1>1. PICK d : d = AsCard(c, id)
  OBVIOUS
<1>2. PICK s \in Seq(Nat) : s = d.checkedBoxes
  BY <1>1 DEF AsCard, SavedCard
<1>3. PICK n \in Nat : n = d.req.num /\ n # 0
  BY <1>1 DEF AsCard, AsReq, C!DivisionTraps, SavedCard
<1>4. PICK bs : bs = C!ToggledBoxes(d, box)
  OBVIOUS
<1>5. bs \in Seq(Nat)
  <2>1. CASE box \in C!ToSet(s)
    BY <1>2, <1>4, <2>1, RemoveFirstType DEF C!ToggledBoxes
  <2>2. CASE box \notin C!ToSet(s)
    <3>1. PICK more : more = Append(s, box)
      OBVIOUS
    <3>2. more \in Seq(Nat) /\ more # <<>>
      BY <3>1, AppendProperties
    <3>3. bs = IF Len(more) > n THEN Tail(more) ELSE more
      BY <1>2, <1>3, <1>4, <2>2, <3>1 DEF C!ToggledBoxes
    <3>4. Tail(more) \in Seq(Nat)
      BY <3>2, HeadTailProperties
    <3>5. QED
      BY <3>2, <3>3, <3>4
  <2>3. QED
    BY <2>1, <2>2
<1>6. C!Percent(Len(bs), n) \in Nat
  <2>1. PICK k \in Nat : k = Len(bs)
    BY <1>5, LenProperties
  <2>2. k * 100 \in Nat
    OBVIOUS
  <2>3. (k * 100) \div n \in Nat
    BY <1>3, <2>2, ShareType
  <2>4. QED
    BY <2>1, <2>3 DEF C!Percent
<1>7. PICK p : p = C!Percent(Len(bs), n)
  OBVIOUS
<1>8. C!CheckboxSelected(d, box) = [d EXCEPT !.checkedBoxes = bs, !.progress = p]
  BY <1>3, <1>4, <1>7 DEF C!CheckboxSelected
<1>9. [d EXCEPT !.checkedBoxes = bs, !.progress = p]
        = [id |-> id, req |-> AsReq(c), checkedBoxes |-> bs, progress |-> p,
           comment |-> c.comment]
  <2>1. PICK q : q = AsReq(c)
    OBVIOUS
  <2>2. d = [id |-> id, req |-> q, checkedBoxes |-> c.boxes, progress |-> c.progress,
             comment |-> c.comment]
    BY <1>1, <2>1 DEF AsCard
  <2>3. PICK e : e = [d EXCEPT !.checkedBoxes = bs]
    OBVIOUS
  <2>4. e = [id |-> id, req |-> q, checkedBoxes |-> bs, progress |-> c.progress,
             comment |-> c.comment]
    BY <2>2, <2>3
  <2>5. [e EXCEPT !.progress = p]
          = [id |-> id, req |-> q, checkedBoxes |-> bs, progress |-> p,
             comment |-> c.comment]
    BY <2>4
  <2>6. QED
    BY <2>1, <2>3, <2>5
<1>10. QED
  BY <1>1, <1>5, <1>6, <1>7, <1>8, <1>9

-----------------------------------------------------------------------------
(* The inductive invariant: the state is well-formed, and what the history *)
(* says was saved is what the file holds.  TypeOK alone says nothing of    *)
(* how the two are related, and the properties of the format are about it. *)
FileHoldsSaved == saves # 0 => file = Written(saved)

Inv == TypeOK /\ FileHoldsSaved

(* A new Model is well-formed.                                             *)
LEMMA NoListType == NoList \in SavedList
<1>1. PICK l : l = NoList
  OBVIOUS
<1>2. <<>> \in Line /\ <<>> \in Name /\ <<>> \in Seq(SavedCard)
  BY EmptySeq DEF Line, Name
<1>3. PICK e : e = <<>>
  OBVIOUS
<1>4. l = [faculty |-> e, major |-> e, option |-> e, cards |-> e]
  BY <1>1, <1>3 DEF NoList
<1>5. l \in SavedList
  BY <1>2, <1>3, <1>4 DEF SavedList
<1>6. QED
  BY <1>1, <1>5

(* The program starts in the invariant.                                    *)
LEMMA InvInitially == Init => Inv
<1> SUFFICES ASSUME Init PROVE Inv
  OBVIOUS
<1>1. list \in SavedList /\ saved \in SavedList
  BY NoListType DEF Init
<1>2. QED
  BY <1>1, BoundsAssumption DEF Init, Inv, TypeOK, FileHoldsSaved

(* An action that changes the list only keeps the invariant if the list    *)
(* stays well-formed.                                                      *)
LEMMA OnlyTheList ==
  ASSUME Inv, list' \in SavedList, UNCHANGED <<file, saved, saves>>
  PROVE  Inv'
BY DEF Inv, TypeOK, FileHoldsSaved

(* One card of a list changes its boxes and progress, or its comment.      *)
LEMMA OneCardChanges ==
  ASSUME NEW l \in SavedList, NEW i \in 1 .. Len(l.cards), NEW c \in SavedCard
  PROVE  [l EXCEPT !.cards[i] = c] \in SavedList
<1>1. PICK cs \in Seq(SavedCard) : cs = l.cards
  BY DEF SavedList
<1>2. PICK ds : ds = [cs EXCEPT ![i] = c]
  OBVIOUS
<1>3. ds \in Seq(SavedCard)
  BY <1>1, <1>2, ExceptSeq
<1>4. PICK m : m = [l EXCEPT !.cards[i] = c]
  OBVIOUS
<1>5. m = [l EXCEPT !.cards = ds]
  BY <1>1, <1>2, <1>4 DEF SavedList
<1>6. m \in SavedList
  BY <1>3, <1>5 DEF SavedList
<1>7. QED
  BY <1>4, <1>6

(* CREATE keeps it: the names and requirements of the database hold no     *)
(* line break.                                                             *)
LEMMA InvCreate ==
  ASSUME Inv, NEW p \in Programs, NEW answered \in BOOLEAN, Create(p, answered)
  PROVE  Inv'
<1>1. PICK cs : cs = IF answered THEN Answer(p) ELSE <<>>
  OBVIOUS
<1>2. cs \in Seq(SavedCard)
  BY <1>1, AnswerType, EmptySeq
<1>3. p.faculty \in Line /\ p.major \in Name /\ p.option \in Name
  BY ProgramsAssumption
<1>4. list' = [faculty |-> p.faculty, major |-> p.major, option |-> p.option, cards |-> cs]
  BY <1>1 DEF Create
<1>5. list' \in SavedList
  BY <1>2, <1>3, <1>4 DEF SavedList
<1>6. QED
  BY <1>5, OnlyTheList DEF Create

(* A late answer keeps it.                                                 *)
LEMMA InvLateAnswer ==
  ASSUME Inv, NEW p \in Programs, LateAnswer(p)
  PROVE  Inv'
<1>1. PICK cs \in Seq(SavedCard) : cs = Answer(p)
  BY AnswerType
<1>2. list \in SavedList
  BY DEF Inv, TypeOK
<1>3. list' = [list EXCEPT !.cards = cs]
  BY <1>1 DEF LateAnswer
<1>4. list' \in SavedList
  BY <1>2, <1>3 DEF SavedList
<1>5. QED
  BY <1>4, OnlyTheList DEF LateAnswer

(* A tap keeps it.                                                         *)
LEMMA InvTap ==
  ASSUME Inv, NEW i \in 1 .. Len(list.cards),
         NEW box \in 0 .. Len(list.cards[i].items) - 1, Tap(i, box)
  PROVE  Inv'
<1>1. list \in SavedList
  BY DEF Inv, TypeOK
<1>2. PICK c : c = list.cards[i]
  OBVIOUS
<1>3. c \in SavedCard
  <2>1. list.cards \in Seq(SavedCard)
    BY <1>1 DEF SavedList
  <2>2. QED
    BY <1>2, <2>1, ElementOfSeq
<1>4. box \in Nat
  <2>1. Len(c.items) \in Nat
    BY <1>3, LenProperties DEF SavedCard
  <2>2. QED
    BY <1>2, <2>1
<1>5. PICK after : after = C!CheckboxSelected(AsCard(c, i - 1), box)
  OBVIOUS
<1>6. after.checkedBoxes \in Seq(Nat) /\ after.progress \in Nat
  <2>1. ~C!DivisionTraps(AsCard(c, i - 1))
    BY <1>2 DEF Tap
  <2>2. QED
    BY <1>3, <1>4, <1>5, <2>1, TapType
<1>7. PICK bs : bs = after.checkedBoxes
  OBVIOUS
<1>8. PICK p : p = after.progress
  OBVIOUS
<1>9. list' = [list EXCEPT !.cards[i].boxes = bs, !.cards[i].progress = p]
  BY <1>2, <1>5, <1>7, <1>8 DEF Tap
<1>10. PICK d : d = [c EXCEPT !.boxes = bs, !.progress = p]
  OBVIOUS
<1>11. d \in SavedCard
  <2>1. PICK e : e = [c EXCEPT !.boxes = bs]
    OBVIOUS
  <2>2. e \in SavedCard
    BY <1>3, <1>6, <1>7, <2>1 DEF SavedCard
  <2>3. d = [e EXCEPT !.progress = p]
    BY <1>10, <2>1
  <2>4. QED
    BY <1>6, <1>8, <2>2, <2>3 DEF SavedCard
<1>12. list' = [list EXCEPT !.cards[i] = d]
  BY <1>1, <1>2, <1>3, <1>9, <1>10 DEF SavedList, SavedCard
<1>13. list' \in SavedList
  BY <1>1, <1>11, <1>12, OneCardChanges
<1>14. QED
  BY <1>13, OnlyTheList DEF Tap

(* A comment keeps it: a text field gives one line.                        *)
LEMMA InvEditComment ==
  ASSUME Inv, NEW i \in 1 .. Len(list.cards), NEW comment \in Comments,
         EditComment(i, comment)
  PROVE  Inv'
<1>1. list \in SavedList
  BY DEF Inv, TypeOK
<1>2. PICK c : c = list.cards[i]
  OBVIOUS
<1>3. c \in SavedCard
  <2>1. list.cards \in Seq(SavedCard)
    BY <1>1 DEF SavedList
  <2>2. QED
    BY <1>2, <2>1, ElementOfSeq
<1>4. PICK d : d = [c EXCEPT !.comment = comment]
  OBVIOUS
<1>5. d \in SavedCard
  BY <1>3, <1>4, CommentsAssumption DEF SavedCard
<1>6. list' = [list EXCEPT !.cards[i] = d]
  BY <1>2, <1>4 DEF EditComment
<1>7. list' \in SavedList
  BY <1>1, <1>5, <1>6, OneCardChanges
<1>8. QED
  BY <1>7, OnlyTheList DEF EditComment

(* A save keeps it, and establishes what the file holds.                   *)
LEMMA InvSave ==
  ASSUME Inv, Save
  PROVE  Inv'
<1>1. list \in SavedList /\ saves \in Nat /\ saves < MaxSaved
  BY DEF Inv, TypeOK, Save
<1>2. PICK t : t = Written(list)
  OBVIOUS
<1>3. t \in Text /\ t # NoFile
  BY <1>1, <1>2, WrittenByLines, NoFileAssumption
<1>4. file' = t /\ saved' = list /\ list' = list /\ saves' = saves + 1
  BY <1>2 DEF Save
<1>5. saves' \in 0 .. MaxSaved /\ saves' # 0
  BY <1>1, <1>4, BoundsAssumption
<1>6. TypeOK'
  BY <1>1, <1>3, <1>4, <1>5 DEF TypeOK
<1>7. file' = Written(saved')
  BY <1>2, <1>4
<1>8. QED
  BY <1>6, <1>7 DEF Inv, FileHoldsSaved

(* A load keeps it: whatever can be read is well-formed.                   *)
LEMMA InvLoad ==
  ASSUME Inv, Load
  PROVE  Inv'
<1>1. file \in Text /\ Reads(file)
  BY DEF Inv, TypeOK, Load
<1>2. list' \in SavedList
  BY <1>1, ReadIsTyped DEF Load
<1>3. QED
  BY <1>2, OnlyTheList DEF Load

(* Every step of the program keeps the invariant.                          *)
LEMMA InvStep == Inv /\ [Next]_vars => Inv'
<1> SUFFICES ASSUME Inv, [Next]_vars PROVE Inv'
  OBVIOUS
<1>1. ASSUME NEW p \in Programs, NEW answered \in BOOLEAN, Create(p, answered) PROVE Inv'
  BY <1>1, InvCreate
<1>2. ASSUME NEW p \in Programs, LateAnswer(p) PROVE Inv'
  BY <1>2, InvLateAnswer
<1>3. CASE OpenMissing
  BY <1>3, NoListType, OnlyTheList DEF OpenMissing
<1>4. ASSUME NEW i \in 1 .. Len(list.cards),
             NEW box \in 0 .. Len(list.cards[i].items) - 1, Tap(i, box)
      PROVE  Inv'
  BY <1>4, InvTap
<1>5. ASSUME NEW i \in 1 .. Len(list.cards), NEW comment \in Comments,
             EditComment(i, comment)
      PROVE  Inv'
  BY <1>5, InvEditComment
<1>6. CASE Save
  BY <1>6, InvSave
<1>7. CASE Load
  BY <1>7, InvLoad
<1>8. CASE LoadTraps
  BY <1>8, NoListType, OnlyTheList DEF LoadTraps
<1>9. CASE UNCHANGED vars
  BY <1>9 DEF vars, Inv, TypeOK, FileHoldsSaved
<1>10. QED
  BY <1>1, <1>2, <1>3, <1>4, <1>5, <1>6, <1>7, <1>8, <1>9 DEF Next

(* The invariant holds in every reachable state.                           *)
LEMMA AlwaysInv == Spec => []Inv
BY InvInitially, InvStep, PTL DEF Spec

-----------------------------------------------------------------------------
(* Whatever the database, the user's texts and the taps: no text of a list *)
(* spans lines and no item or name holds its separator, after a load as    *)
(* after an answer (Model.swift: getCollection, saveModel).                *)
THEOREM TypeCorrect == Spec => []TypeOK
<1>1. Inv => TypeOK
  BY DEF Inv
<1>2. QED
  BY <1>1, AlwaysInv, PTL

(* A file that stops the program that loads it was saved with an empty     *)
(* faculty or with a question mark in the text of a card: no comment, no   *)
(* item and no tick makes a file that cannot be read back.                 *)
THEOREM OddFilesOnlyTrap == Spec => []OnlyOddFilesTrap
<1>1. ASSUME Inv PROVE OnlyOddFilesTrap
  <2>1. SUFFICES ASSUME file # NoFile, saved.faculty # <<>>,
                        \A c \in ToSet(saved.cards) : ~Holds(c.text, Mark)
                 PROVE  Reads(file)
    BY DEF OnlyOddFilesTrap
  <2>2. saved \in SavedList /\ file = Written(saved)
    BY <1>1, <2>1 DEF Inv, TypeOK, FileHoldsSaved
  <2>3. QED
    BY <2>1, <2>2, WrittenReads
<1>2. QED
  BY <1>1, AlwaysInv, PTL

(* What can be loaded can be saved and loaded again, and comes back the    *)
(* same but for a space at each name.                                      *)
THEOREM FilesAlwaysSettle == Spec => []FilesSettle
<1>1. ASSUME Inv PROVE FilesSettle
  <2>1. SUFFICES ASSUME file # NoFile, Reads(file)
                 PROVE  /\ Reads(Written(Read(file)))
                        /\ Read(Written(Read(file)))
                             = [Read(file) EXCEPT !.major  = MajorBack(@),
                                                  !.option = OptionBack(@)]
    BY DEF FilesSettle
  <2>2. file \in Text
    BY <1>1, <2>1 DEF Inv, TypeOK
  <2>3. QED
    BY <2>1, <2>2, ReadSettles
<1>2. QED
  BY <1>1, AlwaysInv, PTL

(* A list without question marks but in its comments is loaded as it was   *)
(* saved, whatever was done in between: what getCollection reads of what   *)
(* saveModel wrote is that list with a space at each name, without empty   *)
(* items, and with its comments up to their first question mark.           *)
THEOREM LoadsBack == Spec => LoadsBackAsSaved
<1> DEFINE Back == [faculty |-> saved.faculty,
                    major   |-> MajorBack(saved.major),
                    option  |-> OptionBack(saved.option),
                    cards   |-> [i \in 1 .. Len(saved.cards) |->
                                   [saved.cards[i] EXCEPT
                                      !.items   = NonEmpty(@),
                                      !.comment = Split(@, Mark)[1]]]]
<1>1. ASSUME Inv, Load, Plain(saved) PROVE list' = Back
  <2>1. saved \in SavedList /\ file = Written(saved)
    BY <1>1 DEF Inv, TypeOK, FileHoldsSaved, Load
  <2>2. Read(file) = ListBack(saved)
    BY <1>1, <2>1, PlainListComesBack
  <2>3. list' = ListBack(saved)
    BY <1>1, <2>2 DEF Load
  <2>4. ListBack(saved) = Back
    BY DEF ListBack, CardBack
  <2>5. QED
    BY <2>3, <2>4
<1>2. Inv => [Load /\ Plain(saved) => list' = Back]_vars
  BY <1>1
<1>3. QED
  BY <1>2, AlwaysInv, PTL DEF LoadsBackAsSaved
=============================================================================
