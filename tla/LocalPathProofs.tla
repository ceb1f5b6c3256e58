-------------------------- MODULE LocalPathProofs --------------------------
(***************************************************************************)
(* What LocalPath promises of a redirect, for texts of any length.         *)
(*                                                                         *)
(* Paths are split, cleaned and joined by folds, so what they return is    *)
(* proved by induction over texts.  The library's induction theorems take  *)
(* the property as an operator.  Here it is a set, that of the numbers or  *)
(* the texts that have it, and its least missing number is found with the  *)
(* theorem on well-founded relations.                                      *)
(***************************************************************************)
EXTENDS LocalPath, WellFoundedInduction, SequenceTheorems, FiniteSetTheorems, TLAPS

----------------------------------------------------------------------------
(* Induction over numbers and over sequences *)

\* Every set of numbers with one in it has a least number.
LEMMA LeastNumber ==
  ASSUME NEW T, T \subseteq Nat, T # {}
  PROVE  \E m \in T : \A n \in T : m <= n
<1>1. PICK m \in T : \A n \in T : ~ (<<n, m>> \in OpToRel(<, Nat))
  BY NatLessThanWellFounded, WFMin
<1>2. ASSUME NEW n \in T, n < m
      PROVE  FALSE
  <2>1. <<n, m>> \in OpToRel(<, Nat)
    BY <1>2 DEF OpToRel
  <2> QED BY <1>1, <2>1
<1> QED BY <1>2

\* Every set of numbers up to n with one in it has a greatest number.
LEMMA GreatestNumber ==
  ASSUME NEW n \in Nat, NEW T, T \subseteq 1..n, T # {}
  PROVE  \E m \in T : \A k \in T : m >= k
<1> DEFINE U == {n - k : k \in T}
<1>1. PICK u \in U : \A v \in U : u <= v
  <2>1. \A k \in T : n - k \in Nat
    OBVIOUS
  <2>2. U \subseteq Nat /\ U # {}
    BY Zenon, <2>1
  <2> HIDE DEF U
  <2> QED BY <2>2, LeastNumber
<1>2. PICK m \in T : u = n - m
  OBVIOUS
<1>3. ASSUME NEW k \in T
      PROVE  m >= k
  <2>1. n - m <= n - k
    BY <1>1, <1>2
  <2> QED BY <2>1
<1> QED BY <1>3

\* Induction over numbers, for a set of them.
LEMMA NumberInduction ==
  ASSUME NEW T, 0 \in T, \A n \in Nat : n \in T => n + 1 \in T
  PROVE  Nat \subseteq T
<1> SUFFICES ASSUME Nat \ T # {}
             PROVE  FALSE
  OBVIOUS
<1>1. PICK m \in Nat \ T : \A n \in Nat \ T : m <= n
  BY LeastNumber
<1>2. m - 1 \in Nat /\ m - 1 \in T
  BY <1>1
<1> QED BY <1>2

\* A set of sequences that has the empty one, and what becomes of each of its
\* sequences when an element is appended, has them all.
LEMMA SequenceInduction ==
  ASSUME NEW S, NEW T, <<>> \in T, \A s \in Seq(S) : \A e \in S : s \in T => Append(s, e) \in T
  PROVE  Seq(S) \subseteq T
<1> DEFINE N == {n \in Nat : \A s \in Seq(S) : Len(s) = n => s \in T}
<1>1. 0 \in N
  <2>1. \A s \in Seq(S) : Len(s) = 0 => s = <<>>
    BY EmptySeq
  <2> QED BY <2>1
<1>2. ASSUME NEW n \in Nat, n \in N
      PROVE  n + 1 \in N
  <2> SUFFICES ASSUME NEW s \in Seq(S), Len(s) = n + 1
               PROVE  s \in T
    OBVIOUS
  <2>1. s # <<>>
    BY <1>2
  <2>2. PICK t \in Seq(S), e \in S : s = Append(t, e)
    BY <2>1, SequenceEmptyOrAppend
  <2>3. Len(t) \in Nat /\ Len(s) = Len(t) + 1
    BY <2>2, AppendProperties, LenProperties
  <2>4. t \in T
    BY <1>2, <2>3
  <2> QED BY <2>2, <2>4
<1>3. Nat \subseteq N
  <2> HIDE DEF N
  <2> QED BY <1>1, <1>2, NumberInduction
<1>4. ASSUME NEW s \in Seq(S)
      PROVE  s \in T
  <2>1. Len(s) \in Nat
    BY LenProperties
  <2> QED BY <1>3, <2>1
<1> QED BY <1>4

----------------------------------------------------------------------------
(* Folds *)

\* The greatest number of 1..n is n.
LEMMA MaxOfNumbers ==
  ASSUME NEW n \in Nat \ {0}
  PROVE  Max(1..n) = n /\ (1..n) \ {n} = 1..(n - 1)
<1>1. \A x \in 1..n : (\A y \in 1..n : x >= y) <=> x = n
  OBVIOUS
<1>2. n \in 1..n
  OBVIOUS
<1>3. (CHOOSE x \in 1..n : \A y \in 1..n : x >= y) = n
  BY <1>1, <1>2
<1> QED BY <1>3 DEF Max

\* A set of numbers up to n that has n in it has n as its greatest.
LEMMA MaxOfSet ==
  ASSUME NEW n \in Nat, NEW t \in SUBSET (1..n), t # {}
  PROVE  /\ Max(t) \in t
         /\ \A k \in t : Max(t) >= k
         /\ n \in t => Max(t) = n
<1>1. PICK m \in t : \A k \in t : m >= k
  BY GreatestNumber
<1>2. Max(t) \in t /\ \A k \in t : Max(t) >= k
  BY <1>1 DEF Max
<1>3. n \in t => Max(t) = n
  <2>1. Max(t) \in 1..n
    BY <1>2
  <2> QED BY <1>2, <2>1
<1> QED BY <1>2, <1>3

\* The function a fold of N steps is defined by: what it returns for the numbers
\* of a set is made of what it returns for all but the greatest.
IsFoldOf(iter, base, step, N) ==
  \A t \in SUBSET (1..N) :
    iter[t] = IF t = {} THEN base ELSE step[<<iter[t \ {Max(t)}], Max(t)>>]

\* There is such a function: it is built up from the sets of
\* numbers up to n to those of numbers up to n + 1.
LEMMA FoldExists ==
  ASSUME NEW S, NEW base \in S, NEW N \in Nat, NEW step \in [S \X (1..N) -> S]
  PROVE  \E iter \in [SUBSET (1..N) -> S] : IsFoldOf(iter, base, step, N)
<1> DEFINE Has(n) == \E iter \in [SUBSET (1..n) -> S] : IsFoldOf(iter, base, step, n)
           T == {n \in Nat : n <= N => Has(n)}
<1>1. 0 \in T
  <2>1. SUBSET (1..0) = {{}}
    OBVIOUS
  <2>2. [t \in SUBSET (1..0) |-> base] \in [SUBSET (1..0) -> S]
    OBVIOUS
  <2>3. IsFoldOf([t \in SUBSET (1..0) |-> base], base, step, 0)
    BY <2>1 DEF IsFoldOf
  <2>4. Has(0)
    BY <2>2, <2>3
  <2> HIDE DEF Has
  <2> QED BY <2>4
<1>2. ASSUME NEW n \in Nat, n \in T
      PROVE  n + 1 \in T
  <2> SUFFICES ASSUME n + 1 <= N
               PROVE  Has(n + 1)
    <3> HIDE DEF Has
    <3> QED OBVIOUS
  <2>0. Has(n)
    <3> HIDE DEF Has
    <3> QED BY <1>2
  <2>1. PICK old \in [SUBSET (1..n) -> S] : IsFoldOf(old, base, step, n)
    BY <2>0
  <2> DEFINE new == [t \in SUBSET (1..(n + 1)) |->
                       IF n + 1 \in t THEN step[<<old[t \ {n + 1}], n + 1>>] ELSE old[t]]
  <2>2. \A t \in SUBSET (1..(n + 1)) : t \ {n + 1} \in SUBSET (1..n) /\ (n + 1 \notin t => t \in SUBSET (1..n))
    OBVIOUS
  <2>3. n + 1 \in 1..N
    OBVIOUS
  <2>4. new \in [SUBSET (1..(n + 1)) -> S]
    BY <2>2, <2>3
  <2>5. ASSUME NEW t \in SUBSET (1..(n + 1))
        PROVE  new[t] = IF t = {} THEN base ELSE step[<<new[t \ {Max(t)}], Max(t)>>]
    <3>1. CASE n + 1 \in t
      <4>1. Max(t) = n + 1
        BY <3>1, MaxOfSet
      <4>2. t \ {n + 1} \in SUBSET (1..(n + 1)) /\ n + 1 \notin t \ {n + 1}
        OBVIOUS
      <4>3. new[t \ {n + 1}] = old[t \ {n + 1}]
        BY <4>2
      <4> QED BY <3>1, <4>1, <4>3
    <3>2. CASE n + 1 \notin t
      <4>1. t \in SUBSET (1..n)
        BY <2>2, <3>2
      <4>2. new[t] = old[t]
        BY <3>2
      <4>3. CASE t = {}
        BY <2>1, <4>1, <4>2, <4>3 DEF IsFoldOf
      <4>4. CASE t # {}
        <5>1. t \ {Max(t)} \in SUBSET (1..(n + 1)) /\ n + 1 \notin t \ {Max(t)}
          BY <3>2
        <5>2. new[t \ {Max(t)}] = old[t \ {Max(t)}]
          BY <5>1
        <5> QED BY <2>1, <4>1, <4>2, <4>4, <5>2 DEF IsFoldOf
      <4> QED BY <4>3, <4>4
    <3> QED BY <3>1, <3>2
  <2>6. IsFoldOf(new, base, step, n + 1)
    BY <2>5 DEF IsFoldOf
  <2> HIDE DEF new
  <2> QED BY <2>4, <2>6
<1>3. Nat \subseteq T
  <2> HIDE DEF T
  <2> QED BY <1>1, <1>2, NumberInduction
<1>4. Has(N)
  <2> HIDE DEF Has
  <2> QED BY <1>3
<1> QED BY <1>4

\* Two functions that start alike and go on alike are alike.
GoOnAlike(a, b, N) == \A i \in 1..N : a[i - 1] = b[i - 1] => a[i] = b[i]
Alike(a, b, N)     == \A i \in 0..N : a[i] = b[i]

\* Functions that start alike and go on alike are alike.
LEMMA StayAlike ==
  ASSUME NEW N \in Nat, NEW a, NEW b, a[0] = b[0], GoOnAlike(a, b, N)
  PROVE  Alike(a, b, N)
<1> DEFINE T == {i \in Nat : i <= N => a[i] = b[i]}
<1>1. 0 \in T
  OBVIOUS
<1>2. ASSUME NEW i \in Nat, i \in T
      PROVE  i + 1 \in T
  <2> SUFFICES ASSUME i + 1 <= N
               PROVE  a[i + 1] = b[i + 1]
    OBVIOUS
  <2>1. i + 1 \in 1..N /\ (i + 1) - 1 = i /\ a[i] = b[i]
    BY <1>2
  <2> QED BY <2>1 DEF GoOnAlike
<1>3. Nat \subseteq T
  <2> HIDE DEF T
  <2> QED BY <1>1, <1>2, NumberInduction
<1> QED BY <1>3 DEF Alike

----------------------------------------------------------------------------
(* Splitting a text into segments *)

\* The texts of D's characters without a slash, and the non-empty sequences of them.
Plain(D) == Seq(D \ {"/"})
Split(D) == Seq(Plain(D)) \ {<<>>}

\* Adding a character to a split text leaves it split.
LEMMA AddCharType ==
  ASSUME NEW D, NEW segs \in Split(D), NEW c \in D
  PROVE  AddChar(segs, c) \in Split(D)
<1>1. segs \in Seq(Plain(D)) /\ Len(segs) \in Nat \ {0}
  BY EmptySeq DEF Split
<1>2. CASE c = "/"
  <2>1. <<>> \in Plain(D)
    BY DEF Plain
  <2>2. Append(segs, <<>>) \in Split(D)
    BY <1>1, <2>1, AppendProperties DEF Split
  <2> QED BY <1>2, <2>2 DEF AddChar
<1>3. CASE c # "/"
  <2>1. Last(segs) \in Plain(D)
    BY <1>1, ElementOfSeq DEF Last
  <2>2. Append(Last(segs), c) \in Plain(D)
    BY <1>3, <2>1, AppendProperties DEF Plain
  <2>3. Front(segs) \in Seq(Plain(D))
    BY <1>1 DEF Front
  <2>4. Append(Front(segs), Append(Last(segs), c)) \in Split(D)
    BY <2>2, <2>3, AppendProperties DEF Split
  <2> QED BY <1>3, <2>4 DEF AddChar
<1> QED BY <1>2, <1>3

\* The fold that splits a text, character by character.
LEMMA SegmentsAccumulate ==
  ASSUME NEW D, NEW s \in Seq(D)
  PROVE  \E acc : /\ acc[0] = <<<<>>>>
                  /\ \A i \in 1..Len(s) : acc[i] = AddChar(acc[i - 1], s[i])
                  /\ Segments(s) = acc[Len(s)]
<1> DEFINE N == Len(s)
           base == <<<<>>>>
           S == Split(D)
           step == [p \in S \X (1..N) |-> AddChar(p[1], s[p[2]])]
           IsFold(iter) == iter = [t \in SUBSET (1..N) |->
                                     IF t = {} THEN base ELSE AddChar(iter[t \ {Max(t)}], s[Max(t)])]
           fold == CHOOSE iter : IsFold(iter)
           acc == [i \in 0..N |-> fold[1..i]]
<1>1. N \in Nat /\ DOMAIN s = 1..N /\ \A i \in 1..N : s[i] \in D
  BY LenProperties, ElementOfSeq
<1>2. base \in S
  BY DEF Split, Plain
<1>3. step \in [S \X (1..N) -> S]
  <2>1. ASSUME NEW p \in S \X (1..N)
        PROVE  AddChar(p[1], s[p[2]]) \in S
    <3>1. p[1] \in S /\ s[p[2]] \in D
      BY <1>1
    <3> HIDE DEF S
    <3> QED BY <3>1, AddCharType DEF S
  <2> HIDE DEF S, N
  <2> QED BY <2>1
<1>4. PICK iter \in [SUBSET (1..N) -> S] : IsFoldOf(iter, base, step, N)
  <2> HIDE DEF S, step, base, N
  <2> QED BY <1>1, <1>2, <1>3, FoldExists
<1>5. IsFold(iter)
  <2>1. ASSUME NEW t \in SUBSET (1..N), t # {}
        PROVE  iter[t] = AddChar(iter[t \ {Max(t)}], s[Max(t)])
    <3>1. Max(t) \in 1..N
      BY <1>1, <2>1, MaxOfSet
    <3>2. <<iter[t \ {Max(t)}], Max(t)>> \in S \X (1..N)
      BY <3>1
    <3> HIDE DEF S
    <3> QED BY <1>4, <2>1, <3>2 DEF IsFoldOf
  <2> HIDE DEF S, N, base, step
  <2> QED BY <1>4, <2>1 DEF IsFoldOf
<1>6. IsFold(fold)
  <2> HIDE DEF IsFold
  <2> QED BY <1>5
<1>7. Segments(s) = fold[1..N]
  BY <1>1 DEF Segments, FoldLeft, MapThenFoldSet
<1>8. fold[{}] = base /\ \A i \in 1..N : fold[1..i] = AddChar(fold[1..(i - 1)], s[i])
  <2> HIDE DEF fold, base, N
  <2>1. fold[{}] = base
    BY <1>6
  <2>2. ASSUME NEW i \in 1..N
        PROVE  fold[1..i] = AddChar(fold[1..(i - 1)], s[i])
    <3>1. i \in Nat \ {0} /\ i \in 1..i /\ \A k \in 1..i : k \in 1..N
      BY <1>1
    <3>2. Max(1..i) = i /\ (1..i) \ {i} = 1..(i - 1)
      BY <3>1, MaxOfNumbers
    <3>3. 1..i \in SUBSET (1..N) /\ 1..i # {}
      BY <3>1
    <3> QED BY <1>6, <3>2, <3>3
  <2> QED BY <2>1, <2>2
<1>9. acc[0] = base /\ acc[N] = fold[1..N] /\ \A i \in 1..N : acc[i] = AddChar(acc[i - 1], s[i])
  <2>1. 1..0 = {} /\ 0 \in 0..N /\ N \in 0..N /\ \A i \in 1..N : i \in 0..N /\ i - 1 \in 0..N
    BY <1>1
  <2> HIDE DEF fold, base, N
  <2> QED BY <1>8, <2>1
<1> HIDE DEF acc, fold
<1> QED BY <1>7, <1>9

\* No characters make one empty segment, and another character is added to the last.
LEMMA SegmentsOfEmpty == Segments(<<>>) = <<<<>>>>
<1>1. <<>> \in Seq({}) /\ Len(<<>>) = 0
  BY EmptySeq
<1> QED BY <1>1, SegmentsAccumulate

\* One more character is added to the segments of what precedes it.
LEMMA SegmentsOfAppend ==
  ASSUME NEW D, NEW s \in Seq(D), NEW c \in D
  PROVE  Segments(Append(s, c)) = AddChar(Segments(s), c)
<1> DEFINE N == Len(s)
           t == Append(s, c)
<1>1. /\ N \in Nat /\ t \in Seq(D) /\ Len(t) = N + 1 /\ t[N + 1] = c
      /\ \A i \in 1..N : t[i] = s[i]
  BY LenProperties, AppendProperties
<1>2. PICK a : /\ a[0] = <<<<>>>> /\ Segments(s) = a[N]
               /\ \A i \in 1..N : a[i] = AddChar(a[i - 1], s[i])
  BY SegmentsAccumulate
<1>3. PICK b : /\ b[0] = <<<<>>>> /\ Segments(t) = b[N + 1]
               /\ \A i \in 1..(N + 1) : b[i] = AddChar(b[i - 1], t[i])
  <2> HIDE DEF t, N
  <2> QED BY <1>1, SegmentsAccumulate
<1> HIDE DEF t, N
<1>4. Alike(a, b, N)
  <2>1. \A i \in 1..N : i \in 1..(N + 1)
    BY <1>1
  <2>2. GoOnAlike(a, b, N)
    BY <1>1, <1>2, <1>3, <2>1 DEF GoOnAlike
  <2>3. N \in Nat /\ a[0] = b[0]
    BY <1>1, <1>2, <1>3
  <2> QED BY <2>2, <2>3, StayAlike
<1>5. b[N + 1] = AddChar(b[N], c)
  <2>1. N + 1 \in 1..(N + 1) /\ (N + 1) - 1 = N
    BY <1>1
  <2> QED BY <1>1, <1>3, <2>1
<1>6. a[N] = b[N]
  BY <1>1, <1>4 DEF Alike
<1> QED BY <1>2, <1>3, <1>5, <1>6 DEF t

\* The segments of a text have no slash in them, and there is at least one.
LEMMA SegmentsType ==
  ASSUME NEW D, NEW s \in Seq(D)
  PROVE  Segments(s) \in Split(D)
<1> DEFINE T == {t \in Seq(D) : Segments(t) \in Split(D)}
<1>1. <<>> \in T
  <2>1. <<<<>>>> \in Split(D)
    BY DEF Split, Plain
  <2> QED BY <2>1, SegmentsOfEmpty
<1>2. \A t \in Seq(D) : \A c \in D : t \in T => Append(t, c) \in T
  BY SegmentsOfAppend, AddCharType, AppendProperties
<1>3. Seq(D) \subseteq T
  <2> HIDE DEF T
  <2> QED BY <1>1, <1>2, SequenceInduction
<1> QED BY <1>3

----------------------------------------------------------------------------
(* Cleaning a path's segments *)

\* The segments that name something.
Names(D) == Plain(D) \ {<<>>, <<".">>, <<".", ".">>}

\* A step of the clean-up keeps names only.
LEMMA LexicalType ==
  ASSUME NEW D, NEW segs \in Seq(Names(D)), NEW seg \in Plain(D)
  PROVE  Lexical(segs, seg) \in Seq(Names(D))
<1>1. Front(segs) \in Seq(Names(D)) \/ segs = <<>>
  BY DEF Front
<1>2. seg \in Names(D) => Append(segs, seg) \in Seq(Names(D))
  BY AppendProperties
<1> QED BY <1>1, <1>2 DEF Lexical, Parent, Names

\* The fold that cleans a path, segment by segment.
LEMMA CleanAccumulates ==
  ASSUME NEW D, NEW segs \in Seq(Plain(D))
  PROVE  \E acc : /\ acc[0] = <<>>
                  /\ \A i \in 1..Len(segs) : acc[i] = Lexical(acc[i - 1], segs[i])
                  /\ CleanSegments(segs) = acc[Len(segs)]
<1> DEFINE N == Len(segs)
           base == <<>>
           S == Seq(Names(D))
           step == [p \in S \X (1..N) |-> Lexical(p[1], segs[p[2]])]
           IsFold(iter) == iter = [t \in SUBSET (1..N) |->
                                     IF t = {} THEN base ELSE Lexical(iter[t \ {Max(t)}], segs[Max(t)])]
           fold == CHOOSE iter : IsFold(iter)
           acc == [i \in 0..N |-> fold[1..i]]
<1>1. N \in Nat /\ DOMAIN segs = 1..N /\ \A i \in 1..N : segs[i] \in Plain(D)
  BY LenProperties, ElementOfSeq
<1>2. base \in S
  BY EmptySeq
<1>3. step \in [S \X (1..N) -> S]
  <2>1. ASSUME NEW p \in S \X (1..N)
        PROVE  Lexical(p[1], segs[p[2]]) \in S
    <3>1. p[1] \in S /\ segs[p[2]] \in Plain(D)
      BY <1>1
    <3> HIDE DEF S
    <3> QED BY <3>1, LexicalType DEF S
  <2> HIDE DEF S, N
  <2> QED BY <2>1
<1>4. PICK iter \in [SUBSET (1..N) -> S] : IsFoldOf(iter, base, step, N)
  <2> HIDE DEF S, step, base, N
  <2> QED BY <1>1, <1>2, <1>3, FoldExists
<1>5. IsFold(iter)
  <2>1. ASSUME NEW t \in SUBSET (1..N), t # {}
        PROVE  iter[t] = Lexical(iter[t \ {Max(t)}], segs[Max(t)])
    <3>1. Max(t) \in 1..N
      BY <1>1, <2>1, MaxOfSet
    <3>2. <<iter[t \ {Max(t)}], Max(t)>> \in S \X (1..N)
      BY <3>1
    <3> HIDE DEF S
    <3> QED BY <1>4, <2>1, <3>2 DEF IsFoldOf
  <2> HIDE DEF S, N, base, step
  <2> QED BY <1>4, <2>1 DEF IsFoldOf
<1>6. IsFold(fold)
  <2> HIDE DEF IsFold
  <2> QED BY <1>5
<1>7. CleanSegments(segs) = fold[1..N]
  BY <1>1 DEF CleanSegments, FoldLeft, MapThenFoldSet
<1>8. fold[{}] = base /\ \A i \in 1..N : fold[1..i] = Lexical(fold[1..(i - 1)], segs[i])
  <2> HIDE DEF fold, base, N
  <2>1. fold[{}] = base
    BY <1>6
  <2>2. ASSUME NEW i \in 1..N
        PROVE  fold[1..i] = Lexical(fold[1..(i - 1)], segs[i])
    <3>1. i \in Nat \ {0} /\ i \in 1..i /\ \A k \in 1..i : k \in 1..N
      BY <1>1
    <3>2. Max(1..i) = i /\ (1..i) \ {i} = 1..(i - 1)
      BY <3>1, MaxOfNumbers
    <3>3. 1..i \in SUBSET (1..N) /\ 1..i # {}
      BY <3>1
    <3> QED BY <1>6, <3>2, <3>3
  <2> QED BY <2>1, <2>2
<1>9. acc[0] = base /\ acc[N] = fold[1..N] /\ \A i \in 1..N : acc[i] = Lexical(acc[i - 1], segs[i])
  <2>1. 1..0 = {} /\ 0 \in 0..N /\ N \in 0..N /\ \A i \in 1..N : i \in 0..N /\ i - 1 \in 0..N
    BY <1>1
  <2> HIDE DEF fold, base, N
  <2> QED BY <1>8, <2>1
<1> HIDE DEF acc, fold
<1> QED BY <1>7, <1>9

\* Nothing is left of no segments.
LEMMA CleanOfEmpty == CleanSegments(<<>>) = <<>>
<1>1. <<>> \in Seq(Plain({})) /\ Len(<<>>) = 0
  BY EmptySeq
<1> QED BY <1>1, CleanAccumulates

\* One more segment is one more step of the clean-up.
LEMMA CleanOfAppend ==
  ASSUME NEW D, NEW segs \in Seq(Plain(D)), NEW seg \in Plain(D)
  PROVE  CleanSegments(Append(segs, seg)) = Lexical(CleanSegments(segs), seg)
<1> DEFINE N == Len(segs)
           t == Append(segs, seg)
<1>1. /\ N \in Nat /\ t \in Seq(Plain(D)) /\ Len(t) = N + 1 /\ t[N + 1] = seg
      /\ \A i \in 1..N : t[i] = segs[i]
  BY LenProperties, AppendProperties
<1>2. PICK a : /\ a[0] = <<>> /\ CleanSegments(segs) = a[N]
               /\ \A i \in 1..N : a[i] = Lexical(a[i - 1], segs[i])
  BY CleanAccumulates
<1>3. PICK b : /\ b[0] = <<>> /\ CleanSegments(t) = b[N + 1]
               /\ \A i \in 1..(N + 1) : b[i] = Lexical(b[i - 1], t[i])
  <2> HIDE DEF t, N
  <2> QED BY <1>1, CleanAccumulates
<1> HIDE DEF t, N
<1>4. Alike(a, b, N)
  <2>1. \A i \in 1..N : i \in 1..(N + 1)
    BY <1>1
  <2>2. GoOnAlike(a, b, N)
    BY <1>1, <1>2, <1>3, <2>1 DEF GoOnAlike
  <2>3. N \in Nat /\ a[0] = b[0]
    BY <1>1, <1>2, <1>3
  <2> QED BY <2>2, <2>3, StayAlike
<1>5. b[N + 1] = Lexical(b[N], seg)
  <2>1. N + 1 \in 1..(N + 1) /\ (N + 1) - 1 = N
    BY <1>1
  <2> QED BY <1>1, <1>3, <2>1
<1>6. a[N] = b[N]
  BY <1>1, <1>4 DEF Alike
<1> QED BY <1>2, <1>3, <1>5, <1>6 DEF t

\* What the clean-up leaves is names: neither empty, nor "." or "..".
LEMMA CleanType ==
  ASSUME NEW D, NEW segs \in Seq(Plain(D))
  PROVE  CleanSegments(segs) \in Seq(Names(D))
<1> DEFINE T == {t \in Seq(Plain(D)) : CleanSegments(t) \in Seq(Names(D))}
<1>1. <<>> \in T
  <2>1. <<>> \in Seq(Names(D)) /\ <<>> \in Seq(Plain(D))
    BY EmptySeq
  <2> QED BY <2>1, CleanOfEmpty
<1>2. \A t \in Seq(Plain(D)) : \A seg \in Plain(D) : t \in T => Append(t, seg) \in T
  BY CleanOfAppend, LexicalType, AppendProperties
<1>3. Seq(Plain(D)) \subseteq T
  <2> HIDE DEF T
  <2> QED BY <1>1, <1>2, SequenceInduction
<1> QED BY <1>3

----------------------------------------------------------------------------
(* Joining segments to a path *)

\* Adding a segment to a text makes a text.
LEMMA AddSegmentType ==
  ASSUME NEW D, "/" \in D, NEW s \in Seq(D), NEW seg \in Plain(D)
  PROVE  AddSegment(s, seg) \in Seq(D)
<1>1. seg \in Seq(D) /\ <<"/">> \in Seq(D)
  BY SeqMonotonic DEF Plain
<1>2. s \o <<"/">> \in Seq(D)
  BY <1>1, ConcatProperties
<1> QED BY <1>1, <1>2, ConcatProperties DEF AddSegment

\* The fold that joins segments, one by one.
LEMMA JoinAccumulates ==
  ASSUME NEW D, "/" \in D, NEW segs \in Seq(Plain(D))
  PROVE  \E acc : /\ acc[0] = <<>>
                  /\ \A i \in 1..Len(segs) : acc[i] = AddSegment(acc[i - 1], segs[i])
                  /\ Join(segs) = acc[Len(segs)]
<1> DEFINE N == Len(segs)
           base == <<>>
           S == Seq(D)
           step == [p \in S \X (1..N) |-> AddSegment(p[1], segs[p[2]])]
           IsFold(iter) == iter = [t \in SUBSET (1..N) |->
                                     IF t = {} THEN base ELSE AddSegment(iter[t \ {Max(t)}], segs[Max(t)])]
           fold == CHOOSE iter : IsFold(iter)
           acc == [i \in 0..N |-> fold[1..i]]
<1>1. N \in Nat /\ DOMAIN segs = 1..N /\ \A i \in 1..N : segs[i] \in Plain(D)
  BY LenProperties, ElementOfSeq
<1>2. base \in S
  BY EmptySeq
<1>3. step \in [S \X (1..N) -> S]
  <2>1. ASSUME NEW p \in S \X (1..N)
        PROVE  AddSegment(p[1], segs[p[2]]) \in S
    <3>1. p[1] \in S /\ segs[p[2]] \in Plain(D)
      BY <1>1
    <3> HIDE DEF S
    <3> QED BY <3>1, AddSegmentType DEF S
  <2> HIDE DEF S, N
  <2> QED BY <2>1
<1>4. PICK iter \in [SUBSET (1..N) -> S] : IsFoldOf(iter, base, step, N)
  <2> HIDE DEF S, step, base, N
  <2> QED BY <1>1, <1>2, <1>3, FoldExists
<1>5. IsFold(iter)
  <2>1. ASSUME NEW t \in SUBSET (1..N), t # {}
        PROVE  iter[t] = AddSegment(iter[t \ {Max(t)}], segs[Max(t)])
    <3>1. Max(t) \in 1..N
      BY <1>1, <2>1, MaxOfSet
    <3>2. <<iter[t \ {Max(t)}], Max(t)>> \in S \X (1..N)
      BY <3>1
    <3> HIDE DEF S
    <3> QED BY <1>4, <2>1, <3>2 DEF IsFoldOf
  <2> HIDE DEF S, N, base, step
  <2> QED BY <1>4, <2>1 DEF IsFoldOf
<1>6. IsFold(fold)
  <2> HIDE DEF IsFold
  <2> QED BY <1>5
<1>7. Join(segs) = fold[1..N]
  BY <1>1 DEF Join, FoldLeft, MapThenFoldSet
<1>8. fold[{}] = base /\ \A i \in 1..N : fold[1..i] = AddSegment(fold[1..(i - 1)], segs[i])
  <2> HIDE DEF fold, base, N
  <2>1. fold[{}] = base
    BY <1>6
  <2>2. ASSUME NEW i \in 1..N
        PROVE  fold[1..i] = AddSegment(fold[1..(i - 1)], segs[i])
    <3>1. i \in Nat \ {0} /\ i \in 1..i /\ \A k \in 1..i : k \in 1..N
      BY <1>1
    <3>2. Max(1..i) = i /\ (1..i) \ {i} = 1..(i - 1)
      BY <3>1, MaxOfNumbers
    <3>3. 1..i \in SUBSET (1..N) /\ 1..i # {}
      BY <3>1
    <3> QED BY <1>6, <3>2, <3>3
  <2> QED BY <2>1, <2>2
<1>9. acc[0] = base /\ acc[N] = fold[1..N] /\ \A i \in 1..N : acc[i] = AddSegment(acc[i - 1], segs[i])
  <2>1. 1..0 = {} /\ 0 \in 0..N /\ N \in 0..N /\ \A i \in 1..N : i \in 0..N /\ i - 1 \in 0..N
    BY <1>1
  <2> HIDE DEF fold, base, N
  <2> QED BY <1>8, <2>1
<1> HIDE DEF acc, fold
<1> QED BY <1>7, <1>9

\* No segments join to the empty text.
LEMMA JoinOfEmpty == Join(<<>>) = <<>>
<1>1. <<>> \in Seq(Plain({"/"})) /\ Len(<<>>) = 0
  BY EmptySeq
<1> QED BY <1>1, JoinAccumulates

\* One more segment is added to what its predecessors join to.
LEMMA JoinOfAppend ==
  ASSUME NEW D, "/" \in D, NEW segs \in Seq(Plain(D)), NEW seg \in Plain(D)
  PROVE  Join(Append(segs, seg)) = AddSegment(Join(segs), seg)
<1> DEFINE N == Len(segs)
           t == Append(segs, seg)
<1>1. /\ N \in Nat /\ t \in Seq(Plain(D)) /\ Len(t) = N + 1 /\ t[N + 1] = seg
      /\ \A i \in 1..N : t[i] = segs[i]
  BY LenProperties, AppendProperties
<1>2. PICK a : /\ a[0] = <<>> /\ Join(segs) = a[N]
               /\ \A i \in 1..N : a[i] = AddSegment(a[i - 1], segs[i])
  BY JoinAccumulates
<1>3. PICK b : /\ b[0] = <<>> /\ Join(t) = b[N + 1]
               /\ \A i \in 1..(N + 1) : b[i] = AddSegment(b[i - 1], t[i])
  <2> HIDE DEF t, N
  <2> QED BY <1>1, JoinAccumulates
<1> HIDE DEF t, N
<1>4. Alike(a, b, N)
  <2>1. \A i \in 1..N : i \in 1..(N + 1)
    BY <1>1
  <2>2. GoOnAlike(a, b, N)
    BY <1>1, <1>2, <1>3, <2>1 DEF GoOnAlike
  <2>3. N \in Nat /\ a[0] = b[0]
    BY <1>1, <1>2, <1>3
  <2> QED BY <2>2, <2>3, StayAlike
<1>5. b[N + 1] = AddSegment(b[N], seg)
  <2>1. N + 1 \in 1..(N + 1) /\ (N + 1) - 1 = N
    BY <1>1
  <2> QED BY <1>1, <1>3, <2>1
<1>6. a[N] = b[N]
  BY <1>1, <1>4 DEF Alike
<1> QED BY <1>2, <1>3, <1>5, <1>6 DEF t

\* Segments join to a text.
LEMMA JoinType ==
  ASSUME NEW D, "/" \in D, NEW segs \in Seq(Plain(D))
  PROVE  Join(segs) \in Seq(D)
<1> DEFINE T == {t \in Seq(Plain(D)) : Join(t) \in Seq(D)}
<1>1. <<>> \in T
  <2>1. <<>> \in Seq(D) /\ <<>> \in Seq(Plain(D))
    BY EmptySeq
  <2> QED BY <2>1, JoinOfEmpty
<1>2. \A t \in Seq(Plain(D)) : \A seg \in Plain(D) : t \in T => Append(t, seg) \in T
  BY JoinOfAppend, AddSegmentType, AppendProperties
<1>3. Seq(Plain(D)) \subseteq T
  <2> HIDE DEF T
  <2> QED BY <1>1, <1>2, SequenceInduction
<1> QED BY <1>3

----------------------------------------------------------------------------
(* Cleaning a path twice *)

\* The front and the last of what has been appended to, and of any sequence.
LEMMA FrontLast ==
  ASSUME NEW S, NEW s \in Seq(S), NEW e \in S
  PROVE  /\ Front(Append(s, e)) = s
         /\ Last(Append(s, e)) = e
         /\ s # <<>> => Front(s) \in Seq(S) /\ Last(s) \in S /\ Append(Front(s), Last(s)) = s
<1>1. Front(Append(s, e)) = s
  <2>1. Len(s) \in Nat /\ Len(Append(s, e)) = Len(s) + 1
    BY AppendProperties, LenProperties
  <2>2. Front(Append(s, e)) = SubSeq(Append(s, e), 1, Len(s))
    BY <2>1 DEF Front
  <2>3. SubSeq(Append(s, e), 1, Len(s)) = s
    OBVIOUS
  <2> QED BY <2>2, <2>3
<1>2. Last(Append(s, e)) = e
  BY AppendProperties DEF Last
<1>3. ASSUME s # <<>>
      PROVE  Front(s) \in Seq(S) /\ Last(s) \in S /\ Append(Front(s), Last(s)) = s
  BY <1>3 DEF Front, Last
<1> QED BY <1>1, <1>2, <1>3

\* An element appended to the second of two is appended to both.
LEMMA ConcatAppend ==
  ASSUME NEW S, NEW s \in Seq(S), NEW t \in Seq(S), NEW e \in S
  PROVE  s \o Append(t, e) = Append(s \o t, e)
OBVIOUS

\* Characters other than slashes are added to the last segment.
LEMMA SegmentsOfPlain ==
  ASSUME NEW D, NEW s \in Seq(D), NEW n \in Plain(D)
  PROVE  Segments(s \o n) = Append(Front(Segments(s)), Last(Segments(s)) \o n)
<1> DEFINE F == Front(Segments(s))
           L == Last(Segments(s))
           T == {m \in Plain(D) : Segments(s \o m) = Append(F, L \o m)}
<1>1. F \in Seq(Plain(D)) /\ L \in Plain(D) /\ Append(F, L) = Segments(s)
  BY SegmentsType, FrontLast DEF Split
<1> HIDE DEF F, L
<1>2. <<>> \in T
  <2>1. <<>> \in Plain(D) /\ s \o <<>> = s /\ L \o <<>> = L
    BY <1>1, ConcatEmptySeq, EmptySeq DEF Plain
  <2> QED BY <1>1, <2>1
<1>3. ASSUME NEW m \in Plain(D), NEW c \in D \ {"/"}, m \in T
      PROVE  Append(m, c) \in T
  <2>1. m \in Seq(D) /\ s \o m \in Seq(D) /\ c \in D
    BY SeqMonotonic, ConcatProperties DEF Plain
  <2>2. s \o Append(m, c) = Append(s \o m, c)
    BY <2>1, ConcatAppend
  <2>3. Segments(s \o Append(m, c)) = AddChar(Append(F, L \o m), c)
    BY <1>3, <2>1, <2>2, SegmentsOfAppend
  <2>4. L \o m \in Plain(D)
    BY <1>1, ConcatProperties DEF Plain
  <2>5. AddChar(Append(F, L \o m), c) = Append(F, Append(L \o m, c))
    <3>1. Front(Append(F, L \o m)) = F /\ Last(Append(F, L \o m)) = L \o m
      BY <1>1, <2>4, FrontLast
    <3>2. c # "/"
      OBVIOUS
    <3> QED BY <3>1, <3>2 DEF AddChar
  <2>6. Append(L \o m, c) = L \o Append(m, c)
    <3> DEFINE K == D \ {"/"}
    <3>1. L \in Seq(K) /\ m \in Seq(K) /\ c \in K
      BY <1>1 DEF Plain
    <3> HIDE DEF K
    <3>2. L \o Append(m, c) = Append(L \o m, c)
      BY <3>1, ConcatAppend
    <3> QED BY <3>2
  <2>7. Append(m, c) \in Plain(D)
    BY AppendProperties DEF Plain
  <2> QED BY <2>3, <2>5, <2>6, <2>7
<1>4. Plain(D) \subseteq T
  <2> HIDE DEF T
  <2> QED BY <1>2, <1>3, SequenceInduction DEF Plain
<1> QED BY <1>4 DEF F, L

\* What is joined is split into the same segments again, after an empty one.
LEMMA SegmentsOfJoin ==
  ASSUME NEW D, "/" \in D, NEW segs \in Seq(Plain(D))
  PROVE  Segments(Join(segs)) = <<<<>>>> \o segs
<1> DEFINE T == {t \in Seq(Plain(D)) : Segments(Join(t)) = <<<<>>>> \o t}
<1>1. <<<<>>>> \in Seq(Plain(D)) /\ <<>> \in Plain(D)
  BY EmptySeq DEF Plain
<1>2. <<>> \in T
  BY <1>1, JoinOfEmpty, SegmentsOfEmpty, ConcatEmptySeq
<1>3. ASSUME NEW t \in Seq(Plain(D)), NEW seg \in Plain(D), t \in T
      PROVE  Append(t, seg) \in T
  <2> DEFINE J == Append(Join(t), "/")
  <2>1. Join(t) \in Seq(D) /\ J \in Seq(D)
    BY JoinType, AppendProperties
  <2>2. Join(Append(t, seg)) = J \o seg
    <3>1. Join(t) \o <<"/">> = J
      BY <2>1, AppendIsConcat
    <3> QED BY <3>1, JoinOfAppend DEF AddSegment
  <2>3. Segments(J) = Append(<<<<>>>> \o t, <<>>)
    BY <1>3, <2>1, SegmentsOfAppend DEF AddChar
  <2>4. <<<<>>>> \o t \in Seq(Plain(D))
    BY <1>1, ConcatProperties
  <2>5. Segments(J \o seg) = Append(<<<<>>>> \o t, <<>> \o seg)
    <3> HIDE DEF J
    <3> DEFINE q == <<<<>>>> \o t
    <3> HIDE DEF q
    <3>1. Front(Append(q, <<>>)) = q /\ Last(Append(q, <<>>)) = <<>>
      BY <1>1, <2>4, FrontLast DEF q
    <3>2. Front(Segments(J)) = q /\ Last(Segments(J)) = <<>>
      BY <2>3, <3>1 DEF q
    <3> QED BY <2>1, <3>2, SegmentsOfPlain DEF q
  <2>6. <<>> \o seg = seg
    BY ConcatEmptySeq DEF Plain
  <2>7. Append(<<<<>>>> \o t, seg) = <<<<>>>> \o Append(t, seg) /\ Append(t, seg) \in Seq(Plain(D))
    BY <1>1, ConcatAppend, AppendProperties
  <2> QED BY <2>2, <2>5, <2>6, <2>7
<1>4. Seq(Plain(D)) \subseteq T
  <2> HIDE DEF T
  <2> QED BY <1>2, <1>3, SequenceInduction
<1> QED BY <1>4

\* Segments that all name something are cleaned to themselves, whether or not
\* empty ones come before and after them.
LEMMA CleanOfNames ==
  ASSUME NEW D, NEW names \in Seq(Names(D))
  PROVE  /\ CleanSegments(<<<<>>>> \o names) = names
         /\ CleanSegments(Append(<<<<>>>> \o names, <<>>)) = names
<1> DEFINE T == {t \in Seq(Names(D)) : CleanSegments(<<<<>>>> \o t) = t}
<1>1. <<<<>>>> \in Seq(Plain(D)) /\ <<>> \in Plain(D) /\ <<<<>>>> = Append(<<>>, <<>>)
      /\ <<>> \in Seq(Plain(D)) /\ <<>> \in Seq(Names(D))
  BY EmptySeq DEF Plain
<1>2. \A t \in Seq(Names(D)) : t \in Seq(Plain(D)) /\ <<<<>>>> \o t \in Seq(Plain(D))
  BY <1>1, SeqMonotonic, ConcatProperties DEF Names
<1>3. \A t : Lexical(t, <<>>) = t
  BY DEF Lexical
<1>4. <<>> \in T
  <2>1. CleanSegments(<<<<>>>>) = Lexical(CleanSegments(<<>>), <<>>)
    BY <1>1, CleanOfAppend
  <2>2. <<<<>>>> \o <<>> = <<<<>>>>
    BY <1>1, ConcatEmptySeq
  <2> QED BY <1>1, <1>3, <2>1, <2>2, CleanOfEmpty
<1>5. ASSUME NEW t \in Seq(Names(D)), NEW n \in Names(D), t \in T
      PROVE  Append(t, n) \in T
  <2>1. n \in Plain(D) /\ Append(t, n) \in Seq(Names(D))
    BY AppendProperties DEF Names
  <2>2. <<<<>>>> \o Append(t, n) = Append(<<<<>>>> \o t, n)
    BY <1>1, <1>2, <2>1, ConcatAppend
  <2>3. CleanSegments(Append(<<<<>>>> \o t, n)) = Lexical(t, n)
    BY <1>2, <1>5, <2>1, CleanOfAppend
  <2>4. Lexical(t, n) = Append(t, n)
    BY DEF Lexical, Names
  <2> QED BY <2>1, <2>2, <2>3, <2>4
<1>6. Seq(Names(D)) \subseteq T
  <2> HIDE DEF T
  <2> QED BY <1>4, <1>5, SequenceInduction
<1>7. CleanSegments(<<<<>>>> \o names) = names
  BY <1>6
<1>8. CleanSegments(Append(<<<<>>>> \o names, <<>>)) = Lexical(names, <<>>)
  BY <1>1, <1>2, <1>7, CleanOfAppend
<1> QED BY <1>3, <1>7, <1>8

\* A text ends and starts with what was joined to it.
LEMMA ConcatEnds ==
  ASSUME NEW S, NEW s \in Seq(S), NEW t \in Seq(S)
  PROVE  /\ s \o t \in Seq(S)
         /\ s # <<>> => s \o t # <<>> /\ (s \o t)[1] = s[1]
         /\ t # <<>> => s \o t # <<>> /\ Last(s \o t) = Last(t)
         /\ Len(s) >= 2 => Len(s \o t) >= 2 /\ (s \o t)[2] = s[2]
BY DEF Last

\* A rooted path of one character, or one whose second is not a slash.
SingleRoot(s) == s # <<>> /\ s[1] = "/" /\ (Len(s) >= 2 => s[2] # "/")

\* Names join to a path that begins with one slash and ends with none.
LEMMA JoinShape ==
  ASSUME NEW D, "/" \in D, NEW names \in Seq(Names(D)), names # <<>>
  PROVE  LET J == Join(names) IN J \in Seq(D) /\ Len(J) >= 2 /\ SingleRoot(J) /\ Last(J) # "/"
<1> DEFINE Shape(J) == J \in Seq(D) /\ Len(J) >= 2 /\ SingleRoot(J) /\ Last(J) # "/"
           T == {t \in Seq(Names(D)) : t = <<>> \/ Shape(Join(t))}
<1>1. <<>> \in T
  BY EmptySeq
<1>2. ASSUME NEW t \in Seq(Names(D)), NEW n \in Names(D), t \in T
      PROVE  Append(t, n) \in T
  <2>1. n \in Seq(D \ {"/"}) /\ n # <<>> /\ n \in Plain(D) /\ t \in Seq(Plain(D))
    BY SeqMonotonic DEF Names, Plain
  <2>2. n \in Seq(D) /\ n[1] # "/" /\ Last(n) # "/" /\ Len(n) >= 1 /\ Len(n) \in Nat
    BY <2>1, SeqMonotonic DEF Last
  <2>3. Join(Append(t, n)) = (Join(t) \o <<"/">>) \o n
    BY <2>1, JoinOfAppend DEF AddSegment
  <2>4. Shape((Join(t) \o <<"/">>) \o n)
    <3>1. CASE t = <<>>
      <4>1. Join(t) \o <<"/">> = <<"/">>
        <5>1. <<"/">> \in Seq(D) /\ Join(t) = <<>>
          BY <3>1, JoinOfEmpty
        <5> QED BY <5>1, ConcatEmptySeq
      <4>2. LET u == <<"/">> \o n IN u \in Seq(D) /\ Len(u) = Len(n) + 1 /\ u[1] = "/" /\ u[2] = n[1]
        BY <2>2
      <4> DEFINE a == <<"/">>
      <4>3. Last(a \o n) # "/" /\ a \o n # <<>>
        <5>1. a \in Seq(D)
          OBVIOUS
        <5> HIDE DEF a
        <5> QED BY <2>1, <2>2, <5>1, ConcatEnds
      <4> DEFINE u == a \o n
      <4>4. u \in Seq(D) /\ Len(u) >= 2 /\ u # <<>> /\ u[1] = "/" /\ u[2] # "/" /\ Last(u) # "/"
        BY <2>2, <4>2, <4>3
      <4>5. Join(t) \o <<"/">> \o n = u
        BY <4>1
      <4> HIDE DEF u
      <4> QED BY <4>4, <4>5 DEF SingleRoot
    <3>2. CASE t # <<>>
      <4> DEFINE J == Join(t)
                 a == J \o <<"/">>
      <4>1. Shape(J)
        BY <1>2, <3>2
      <4> HIDE DEF J
      <4>2. a \in Seq(D) /\ Len(a) >= 2 /\ a # <<>> /\ a[1] = J[1] /\ a[2] = J[2]
        BY <4>1, ConcatEnds DEF SingleRoot
      <4> HIDE DEF a
      <4>3. /\ a \o n \in Seq(D) /\ Len(a \o n) >= 2 /\ a \o n # <<>>
            /\ (a \o n)[1] = a[1] /\ (a \o n)[2] = a[2] /\ Last(a \o n) = Last(n)
        BY <2>1, <2>2, <4>2, ConcatEnds
      <4> QED BY <2>2, <4>1, <4>2, <4>3 DEF SingleRoot, a, J
    <3> QED BY <3>1, <3>2
  <2>5. Append(t, n) \in Seq(Names(D))
    BY AppendProperties
  <2> HIDE DEF Shape
  <2> QED BY <2>3, <2>4, <2>5
<1>3. Seq(Names(D)) \subseteq T
  <2> HIDE DEF T
  <2> QED BY <1>1, <1>2, SequenceInduction
<1> QED BY <1>3

\* The rooted paths that cleaning returns: a slash, or names with a slash before
\* each, and perhaps one after the last.
IsClean(D, s) ==
  \/ s = <<"/">>
  \/ \E names \in Seq(Names(D)) : names # <<>> /\ s \in {Join(names), Append(Join(names), "/")}

\* Cleaning a path makes a clean one.
LEMMA CleanIsClean ==
  ASSUME NEW D, "/" \in D, NEW s \in Seq(D)
  PROVE  IsClean(D, CleanKeepingSlash(s))
<1> DEFINE names == CleanSegments(Segments(s))
<1>1. names \in Seq(Names(D))
  BY SegmentsType, CleanType DEF Split
<1>2. CASE names = <<>>
  <2>1. Clean(s) = <<"/">>
    BY <1>2 DEF Clean
  <2> QED BY <2>1 DEF CleanKeepingSlash, IsClean
<1>3. CASE names # <<>>
  <2>1. Clean(s) = Join(names)
    BY <1>3 DEF Clean
  <2>2. CleanKeepingSlash(s) \in {Join(names), Append(Join(names), "/")}
    BY <2>1 DEF CleanKeepingSlash
  <2> HIDE DEF names
  <2> QED BY <1>1, <1>3, <2>2 DEF IsClean
<1> QED BY <1>2, <1>3

\* A clean path starts with a slash that no other follows.
LEMMA CleanShape ==
  ASSUME NEW D, "/" \in D, NEW s, IsClean(D, s)
  PROVE  s \in Seq(D) /\ SingleRoot(s)
<1>1. CASE s = <<"/">>
  BY <1>1 DEF SingleRoot
<1>2. ASSUME NEW names \in Seq(Names(D)), names # <<>>, s \in {Join(names), Append(Join(names), "/")}
      PROVE  s \in Seq(D) /\ SingleRoot(s)
  <2> DEFINE J == Join(names)
  <2>1. J \in Seq(D) /\ Len(J) >= 2 /\ SingleRoot(J)
    BY <1>2, JoinShape
  <2> HIDE DEF J
  <2>2. Append(J, "/") \in Seq(D) /\ SingleRoot(Append(J, "/"))
    BY <2>1 DEF SingleRoot
  <2> QED BY <1>2, <2>1, <2>2 DEF J
<1> QED BY <1>1, <1>2 DEF IsClean

\* Cleaning a clean path leaves it as it is.
LEMMA CleanAgain ==
  ASSUME NEW D, "/" \in D, NEW s, IsClean(D, s)
  PROVE  CleanKeepingSlash(s) = s
<1>1. CASE s = <<"/">>
  <2>1. <<>> \in Seq(Names(D)) /\ <<<<>>>> \o <<>> = <<<<>>>> /\ <<"/">> = Append(<<>>, "/") /\ <<>> \in Seq(D)
    BY EmptySeq
  <2>2. Segments(s) = Append(<<<<>>>>, <<>>)
    BY <1>1, <2>1, SegmentsOfEmpty, SegmentsOfAppend DEF AddChar
  <2>3. CleanSegments(Segments(s)) = <<>>
    BY <2>1, <2>2, CleanOfNames
  <2>4. Clean(s) = s
    BY <1>1, <2>3 DEF Clean
  <2> QED BY <1>1, <2>4 DEF CleanKeepingSlash
<1>2. ASSUME NEW names \in Seq(Names(D)), names # <<>>, s \in {Join(names), Append(Join(names), "/")}
      PROVE  CleanKeepingSlash(s) = s
  <2> DEFINE J == Join(names)
  <2>1. J \in Seq(D) /\ Len(J) >= 2 /\ Last(J) # "/" /\ J # <<"/">>
    <3>1. J \in Seq(D) /\ Len(J) >= 2 /\ Last(J) # "/" /\ Len(<<"/">>) = 1
      BY <1>2, JoinShape
    <3> HIDE DEF J
    <3>2. ASSUME J = <<"/">>
          PROVE  FALSE
      <4>1. Len(J) = Len(<<"/">>)
        BY Zenon, <3>2
      <4>2. Len(J) = 1
        BY Zenon, <3>1, <4>1
      <4> QED BY <3>1, <4>2
    <3> QED BY Zenon, <3>1, <3>2
  <2>2. names \in Seq(Plain(D))
    BY SeqMonotonic DEF Names
  <2>3. Segments(J) = <<<<>>>> \o names
    BY <2>2, SegmentsOfJoin
  <2>4. CASE s = J
    <3>1. Clean(s) = J
      BY <1>2, <2>3, <2>4, CleanOfNames DEF Clean
    <3> HIDE DEF J
    <3> QED BY <2>1, <2>4, <3>1 DEF CleanKeepingSlash
  <2>5. CASE s = Append(J, "/")
    <3>1. Segments(s) = Append(<<<<>>>> \o names, <<>>)
      BY <2>1, <2>3, <2>5, SegmentsOfAppend DEF AddChar
    <3>2. Clean(s) = J
      BY <1>2, <3>1, CleanOfNames DEF Clean
    <3>3. Last(s) = "/"
      <4> HIDE DEF J
      <4> QED BY <2>1, <2>5, FrontLast
    <3> HIDE DEF J
    <3> QED BY <2>1, <2>5, <3>2, <3>3 DEF CleanKeepingSlash
  <2> QED BY <1>2, <2>4, <2>5
<1> QED BY <1>1, <1>2 DEF IsClean

----------------------------------------------------------------------------
(* Cutting a text at a character *)

\* A text is cut at its first c, or after its end.
LEMMA CutAtFirst ==
  ASSUME NEW D, NEW s \in Seq(D), NEW c, NEW k \in 1..(Len(s) + 1),
         \A i \in 1..(k - 1) : s[i] # c, k <= Len(s) => s[k] = c
  PROVE  CutAt(s, c) = k
<1> DEFINE I == {i \in 1..Len(s) : s[i] = c}
<1>0. Len(s) \in Nat
  BY LenProperties
<1>1. SelectInSeq(s, LAMBDA x : x = c) = IF I # {} THEN Min(I) ELSE 0
  BY DEF SelectInSeq
<1>2. CASE k = Len(s) + 1
  <2>1. I = {}
    BY <1>0, <1>2
  <2> QED BY <1>1, <1>2, <2>1 DEF CutAt
<1>3. CASE k # Len(s) + 1
  <2>1. k \in I /\ \A i \in I : k <= i
    BY <1>0, <1>3
  <2>2. \A i \in I : (\A j \in I : i <= j) <=> i = k
    BY <1>0, <2>1
  <2>3. Min(I) = k
    <3> HIDE DEF I
    <3>1. (CHOOSE i \in I : \A j \in I : i <= j) = k
      BY <2>1, <2>2
    <3> QED BY <3>1 DEF Min
  <2>4. k # 0
    BY <1>0
  <2> QED BY <1>1, <2>1, <2>3, <2>4 DEF CutAt
<1> QED BY <1>2, <1>3

\* Either there is no c in the text and the rest is empty, or the rest starts
\* with the first one.
StartsWith(s, c) == s # <<>> => s[1] = c

\* A text is what is before the first of a character, and the rest.
LEMMA CutText ==
  ASSUME NEW D, NEW s \in Seq(D), NEW c
  PROVE  /\ Until(s, c) \in Seq(D \ {c}) /\ From(s, c) \in Seq(D)
         /\ StartsWith(From(s, c), c)
         /\ Until(s, c) \o From(s, c) = s
<1> DEFINE I == {i \in 1..Len(s) : s[i] = c}
           k == CutAt(s, c)
<1>1. Len(s) \in Nat /\ \A i \in 1..Len(s) : s[i] \in D
  BY LenProperties, ElementOfSeq
<1>2. PICK m \in 1..(Len(s) + 1) : (\A i \in 1..(m - 1) : s[i] # c) /\ (m <= Len(s) => s[m] = c)
  <2>1. CASE I = {}
    <3>1. Len(s) + 1 \in 1..(Len(s) + 1) /\ (Len(s) + 1) - 1 = Len(s) /\ ~ (Len(s) + 1 <= Len(s))
      BY <1>1
    <3>2. \A i \in 1..Len(s) : s[i] # c
      BY <2>1
    <3> QED BY <3>1, <3>2
  <2>2. CASE I # {}
    <3>1. PICK m \in I : \A i \in I : m <= i
      <4>1. I \subseteq Nat
        BY <1>1
      <4> HIDE DEF I
      <4> QED BY <2>2, <4>1, LeastNumber
    <3> QED BY <1>1, <3>1
  <2> QED BY <2>1, <2>2
<1>3. CutAt(s, c) = m
  BY <1>2, CutAtFirst
<1>4. Until(s, c) = SubSeq(s, 1, m - 1) /\ From(s, c) = SubSeq(s, m, Len(s))
  BY <1>3 DEF Until, From
<1>5. SubSeq(s, 1, m - 1) \in Seq(D \ {c})
  <2>1. m - 1 \in Int /\ \A i \in 1..(m - 1) : s[i] \in D \ {c}
    BY <1>1, <1>2
  <2> QED BY <2>1, SubSeqProperties
<1>6. SubSeq(s, m, Len(s)) \in Seq(D) /\ StartsWith(SubSeq(s, m, Len(s)), c)
  <2>1. \A i \in m..Len(s) : s[i] \in D
    BY <1>1
  <2>2. CASE m <= Len(s)
    <3>1. SubSeq(s, m, Len(s))[1] = s[m]
      BY <1>1, <2>2
    <3> QED BY <1>1, <1>2, <2>1, <2>2, <3>1, SubSeqProperties DEF StartsWith
  <2>3. CASE ~ (m <= Len(s))
    <3>1. SubSeq(s, m, Len(s)) = <<>>
      BY <1>1, <2>3, SubSeqEmpty
    <3> QED BY <3>1, EmptySeq DEF StartsWith
  <2> QED BY <2>2, <2>3
<1>7. SubSeq(s, 1, m - 1) \o SubSeq(s, m, Len(s)) = s
  <2>1. 1 \in 1..(Len(s) + 1) /\ m - 1 \in 0..Len(s) /\ Len(s) \in (m - 1)..Len(s) /\ (m - 1) + 1 = m
    BY <1>1
  <2>2. SubSeq(s, 1, m - 1) \o SubSeq(s, m, Len(s)) = SubSeq(s, 1, Len(s))
    <3> DEFINE j == m - 1
               n == Len(s)
    <3>1. 1 \in 1..(Len(s) + 1) /\ j \in (1 - 1)..Len(s) /\ n \in j..Len(s)
      BY <1>1, <2>1
    <3> HIDE DEF j, n
    <3>2. SubSeq(s, 1, j) \o SubSeq(s, j + 1, n) = SubSeq(s, 1, n)
      BY <3>1, ConcatAdjacentSubSeq
    <3> QED BY Zenon, <2>1, <3>2 DEF j, n
  <2>3. SubSeq(s, 1, Len(s)) = s
    BY <1>1
  <2> QED BY <2>2, <2>3
<1> QED BY <1>4, <1>5, <1>6, <1>7

\* A text without c, and one that starts with c or is empty, are what their
\* concatenation is cut into.
LEMMA CutConcat ==
  ASSUME NEW D, NEW c, NEW s \in Seq(D \ {c}), NEW t \in Seq(D), StartsWith(t, c)
  PROVE  Until(s \o t, c) = s /\ From(s \o t, c) = t
<1> DEFINE u == s \o t
           k == Len(s) + 1
<1>1. s \in Seq(D) /\ u \in Seq(D) /\ Len(s) \in Nat /\ Len(t) \in Nat /\ Len(u) = Len(s) + Len(t)
  BY SeqMonotonic, ConcatProperties, LenProperties
<1>2. \A i \in 1..Len(u) : u[i] = IF i <= Len(s) THEN s[i] ELSE t[i - Len(s)]
  BY <1>1, ConcatProperties
<1>3. \A i \in 1..(k - 1) : u[i] # c
  <2>1. ASSUME NEW i \in 1..(k - 1)
        PROVE  u[i] # c
    <3>1. i \in 1..Len(s) /\ i \in 1..Len(u)
      BY <1>1
    <3>2. s[i] \in D \ {c}
      BY <3>1, ElementOfSeq
    <3> HIDE DEF u
    <3> QED BY <1>2, <3>1, <3>2
  <2> QED BY <2>1
<1>4. k <= Len(u) => u[k] = c
  <2> SUFFICES ASSUME k <= Len(u)
               PROVE  u[k] = c
    OBVIOUS
  <2>1. t # <<>> /\ k - Len(s) = 1 /\ k \in 1..Len(u) /\ ~ (k <= Len(s))
    BY <1>1
  <2>2. u[k] = t[1]
    <3> HIDE DEF u, k
    <3> QED BY <1>2, <2>1
  <2> QED BY <2>1, <2>2 DEF StartsWith
<1>5. CutAt(u, c) = k
  <2>1. k \in 1..(Len(u) + 1)
    BY <1>1
  <2> HIDE DEF u, k
  <2> QED BY <1>1, <1>3, <1>4, <2>1, CutAtFirst
<1>6. SubSeq(u, 1, k - 1) = s
  BY <1>1
<1>7. SubSeq(u, k, Len(u)) = t
  BY <1>1
<1> HIDE DEF u, k
<1> QED BY <1>5, <1>6, <1>7 DEF Until, From, u

----------------------------------------------------------------------------
(* Encoding and decoding a text *)

\* The characters a decoded text may have, those of them a path may have, and
\* what encoding leaves in a path.
Literal  == DOMAIN Encoding \cup {"a"}
PathText == Literal \ {"unsafe"}
PathChar == Char \ Reserved

\* The characters that have an encoding, and the encodings.
LEMMA Characters ==
  /\ DOMAIN Encoding = {"/", ".", "?", "#", "unsafe", "%2F"}
  /\ Range(Encoding) = {"%2F", "%2E", "%3F", "%23", "%5C", "%252F"}
  /\ Encoding["/"] = "%2F" /\ Encoding["."] = "%2E" /\ Encoding["?"] = "%3F"
  /\ Encoding["#"] = "%23" /\ Encoding["unsafe"] = "%5C" /\ Encoding["%2F"] = "%252F"
<1>1. /\ DOMAIN Encoding = {"/", ".", "?", "#", "unsafe", "%2F"}
      /\ Encoding["/"] = "%2F" /\ Encoding["."] = "%2E" /\ Encoding["?"] = "%3F"
      /\ Encoding["#"] = "%23" /\ Encoding["unsafe"] = "%5C" /\ Encoding["%2F"] = "%252F"
  BY DEF Encoding
<1>2. Range(Encoding) = {"%2F", "%2E", "%3F", "%23", "%5C", "%252F"}
  BY <1>1 DEF Range
<1> QED BY <1>1, <1>2

\* One character's encoding is not another's.
LEMMA EncodingInjective ==
  ASSUME NEW c \in DOMAIN Encoding
  PROVE  /\ Encoding[c] \in Range(Encoding)
         /\ (CHOOSE d \in DOMAIN Encoding : Encoding[d] = Encoding[c]) = c
<1>1. \A d \in DOMAIN Encoding : Encoding[d] = Encoding[c] <=> d = c
  BY Characters
<1>2. Encoding[c] \in Range(Encoding)
  BY DEF Range
<1> QED BY <1>1, <1>2

\* Decoding leaves no encoding but an encoded slash that was encoded twice, and
\* as many characters.
LEMMA DecodeType ==
  ASSUME NEW s \in Seq(Char)
  PROVE  Decode(s) \in Seq(Literal) /\ Len(Decode(s)) = Len(s)
<1>1. Len(s) \in Nat /\ DOMAIN s = 1..Len(s) /\ \A i \in 1..Len(s) : s[i] \in Char
  BY LenProperties, ElementOfSeq
<1>2. ASSUME NEW c \in Char
      PROVE  (IF c \in Range(Encoding) THEN CHOOSE d \in DOMAIN Encoding : Encoding[d] = c ELSE c) \in Literal
  <2>1. CASE c \in Range(Encoding)
    <3>1. PICK d \in DOMAIN Encoding : Encoding[d] = c
      BY <2>1 DEF Range
    <3> QED BY <2>1, <3>1 DEF Literal
  <2>2. CASE c \notin Range(Encoding)
    BY <2>2 DEF Char, Literal
  <2> QED BY <2>1, <2>2
<1>3. Decode(s) \in [1..Len(s) -> Literal]
  BY <1>1, <1>2 DEF Decode
<1> QED BY <1>1, <1>3

Encoded(c, those) == IF c \in those THEN Encoding[c] ELSE c

\* Encoding leaves nothing that was to be encoded, and as many characters.
LEMMA EncodeType ==
  ASSUME NEW those \in SUBSET DOMAIN Encoding, "/" \notin those, NEW s \in Seq(Char)
  PROVE  /\ Encode(s, those) \in Seq(Char \ those)
         /\ Len(Encode(s, those)) = Len(s)
         /\ \A i \in 1..Len(s) : Encode(s, those)[i] = Encoded(s[i], those)
<1>1. Len(s) \in Nat /\ DOMAIN s = 1..Len(s) /\ \A i \in 1..Len(s) : s[i] \in Char
  BY LenProperties, ElementOfSeq
<1>2. \A c \in those : Encoding[c] \in Char \ those
  <2>1. \A c \in DOMAIN Encoding : Encoding[c] \in Range(Encoding)
    BY DEF Range
  <2>2. \A c \in DOMAIN Encoding \ {"/"} : Encoding[c] \notin DOMAIN Encoding
    BY Characters
  <2> QED BY <2>1, <2>2 DEF Char
<1>3. Encode(s, those) \in [1..Len(s) -> Char \ those]
  BY <1>1, <1>2 DEF Encode
<1>4. \A i \in 1..Len(s) : Encode(s, those)[i] = Encoded(s[i], those)
  BY <1>1 DEF Encode, Encoded
<1> QED BY <1>1, <1>3, <1>4

\* What was encoded is decoded to what it was.
LEMMA DecodeEncode ==
  ASSUME NEW those \in SUBSET DOMAIN Encoding, "/" \notin those, "%2F" \in those, NEW s \in Seq(Literal)
  PROVE  Decode(Encode(s, those)) = s
<1> DEFINE e == Encode(s, those)
           d == Decode(e)
<1>1. Len(s) \in Nat /\ DOMAIN s = 1..Len(s) /\ \A i \in 1..Len(s) : s[i] \in Literal
  BY LenProperties, ElementOfSeq
<1>2. s \in Seq(Char)
  BY SeqMonotonic DEF Literal, Char
<1>3. e \in Seq(Char \ those) /\ Len(e) = Len(s)
      /\ \A i \in 1..Len(s) : e[i] = Encoded(s[i], those)
  BY <1>2, EncodeType
<1> HIDE DEF e
<1>4. DOMAIN e = 1..Len(s) /\ e \in Seq(Char)
  BY <1>3, SeqMonotonic
<1>5. d \in Seq(Literal) /\ Len(d) = Len(s)
  BY <1>3, <1>4, DecodeType
<1>6. ASSUME NEW i \in 1..Len(s)
      PROVE  d[i] = s[i]
  <2>1. d[i] = IF e[i] \in Range(Encoding)
               THEN CHOOSE c \in DOMAIN Encoding : Encoding[c] = e[i] ELSE e[i]
    BY <1>4 DEF Decode
  <2>2. CASE s[i] \in those
    <3>1. e[i] = Encoding[s[i]] /\ s[i] \in DOMAIN Encoding
      BY <1>3, <2>2 DEF Encoded
    <3>2. /\ Encoding[s[i]] \in Range(Encoding)
          /\ (CHOOSE c \in DOMAIN Encoding : Encoding[c] = Encoding[s[i]]) = s[i]
      BY <3>1, EncodingInjective
    <3> QED BY Zenon, <2>1, <3>1, <3>2
  <2>3. CASE s[i] \notin those
    <3>1. \A c \in Literal \ {"%2F"} : c \notin Range(Encoding)
      BY Characters DEF Literal
    <3> QED BY <1>1, <1>3, <2>1, <2>3, <3>1 DEF Encoded
  <2> QED BY <2>2, <2>3
<1> HIDE DEF d
<1> QED BY <1>1, <1>5, <1>6, SeqEqual DEF d, e

\* Two texts are encoded one after the other.
LEMMA EncodeConcat ==
  ASSUME NEW those \in SUBSET DOMAIN Encoding, "/" \notin those,
         NEW s \in Seq(Char), NEW t \in Seq(Char)
  PROVE  Encode(s \o t, those) = Encode(s, those) \o Encode(t, those)
<1> DEFINE u == s \o t
           a == Encode(s, those)
           b == Encode(t, those)
           e == Encode(u, those)
<1>1. /\ Len(s) \in Nat /\ Len(t) \in Nat /\ u \in Seq(Char) /\ Len(u) = Len(s) + Len(t)
      /\ \A i \in 1..Len(u) : u[i] = IF i <= Len(s) THEN s[i] ELSE t[i - Len(s)]
  BY ConcatProperties, LenProperties
<1> HIDE DEF u
<1>2. /\ a \in Seq(Char) /\ Len(a) = Len(s) /\ b \in Seq(Char) /\ Len(b) = Len(t)
      /\ e \in Seq(Char) /\ Len(e) = Len(u)
  <2>1. /\ a \in Seq(Char \ those) /\ Len(a) = Len(s)
        /\ b \in Seq(Char \ those) /\ Len(b) = Len(t)
        /\ e \in Seq(Char \ those) /\ Len(e) = Len(u)
    BY <1>1, EncodeType
  <2> HIDE DEF a, b, e
  <2> QED BY <2>1, SeqMonotonic
<1>3. /\ \A i \in 1..Len(s) : a[i] = Encoded(s[i], those)
      /\ \A i \in 1..Len(t) : b[i] = Encoded(t[i], those)
      /\ \A i \in 1..Len(u) : e[i] = Encoded(u[i], those)
  BY <1>1, EncodeType
<1> HIDE DEF a, b, e
<1>4. /\ a \o b \in Seq(Char) /\ Len(a \o b) = Len(u)
      /\ \A i \in 1..Len(u) : (a \o b)[i] = IF i <= Len(s) THEN a[i] ELSE b[i - Len(s)]
  BY ONLY <1>1, <1>2, ConcatProperties
<1>5. ASSUME NEW i \in 1..Len(u)
      PROVE  e[i] = (a \o b)[i]
  <2>1. CASE i <= Len(s)
    <3>1. i \in 1..Len(s)
      BY <1>1, <2>1
    <3> QED BY <1>1, <1>3, <1>4, <2>1, <3>1
  <2>2. CASE ~ (i <= Len(s))
    <3>1. i - Len(s) \in 1..Len(t)
      BY <1>1, <2>2
    <3> QED BY <1>1, <1>3, <1>4, <2>2, <3>1
  <2> QED BY <2>1, <2>2
<1>6. e = a \o b
  BY <1>1, <1>2, <1>4, <1>5, SeqEqual
<1> QED BY <1>6 DEF e, a, b, u

\* The encoding of a path makes no slash and no dot of another character.
LEMMA EncodedPath ==
  ASSUME NEW c \in PathText
  PROVE  /\ c \in Char
         /\ Encoded(c, Reserved) = "/" <=> c = "/"
         /\ Encoded(c, Reserved) = "." <=> c = "."
BY Characters DEF Encoded, PathText, Literal, Reserved, Char

\* The encoding of a name is a name.
LEMMA EncodeName ==
  ASSUME NEW n \in Names(PathText)
  PROVE  Encode(n, Reserved) \in Names(PathChar)
<1> DEFINE e == Encode(n, Reserved)
<1>1. /\ n \in Seq(PathText \ {"/"}) /\ n \in Seq(Char)
      /\ n # <<>> /\ n # <<".">> /\ n # <<".", ".">>
  BY SeqMonotonic, EncodedPath DEF Names, Plain
<1>2. /\ e \in Seq(PathChar) /\ Len(e) = Len(n) /\ Len(n) \in Nat
      /\ \A i \in 1..Len(n) : e[i] = Encoded(n[i], Reserved)
  BY <1>1, EncodeType, Characters, LenProperties DEF Reserved, PathChar
<1>3. \A i \in 1..Len(n) : n[i] \in PathText \ {"/"}
  BY <1>1, ElementOfSeq
<1> HIDE DEF e
<1>4. e \in Plain(PathChar)
  <2>1. \A i \in 1..Len(e) : e[i] \in PathChar \ {"/"}
    <3>1. \A i \in 1..Len(e) : e[i] \in PathChar
      BY <1>2, ElementOfSeq
    <3> QED BY <1>2, <1>3, <3>1, EncodedPath
  <2> QED BY <1>2, <2>1 DEF Plain
<1>5. e # <<>>
  BY <1>1, <1>2
<1>6. e # <<".">>
  <2> SUFFICES ASSUME e = <<".">>
               PROVE  FALSE
    OBVIOUS
  <2>1. Len(n) = 1 /\ e[1] = "."
    BY <1>2
  <2>2. n[1] = "."
    BY <1>2, <1>3, <2>1, EncodedPath
  <2> QED BY <1>1, <2>1, <2>2
<1>7. e # <<".", ".">>
  <2> SUFFICES ASSUME e = <<".", ".">>
               PROVE  FALSE
    OBVIOUS
  <2>1. Len(n) = 2 /\ e[1] = "." /\ e[2] = "."
    BY <1>2
  <2>2. n[1] = "." /\ n[2] = "."
    BY <1>2, <1>3, <2>1, EncodedPath
  <2> QED BY <1>1, <2>1, <2>2
<1> QED BY <1>4, <1>5, <1>6, <1>7 DEF Names, e

\* A joined path is encoded name by name.
LEMMA EncodeJoin ==
  ASSUME NEW names \in Seq(Names(PathText))
  PROVE  \E encoded \in Seq(Names(PathChar)) :
           /\ encoded = <<>> <=> names = <<>>
           /\ Encode(Join(names), Reserved) = Join(encoded)
<1> DEFINE Has(t) == \E encoded \in Seq(Names(PathChar)) :
                       /\ encoded = <<>> <=> t = <<>>
                       /\ Encode(Join(t), Reserved) = Join(encoded)
           T == {t \in Seq(Names(PathText)) : Has(t)}
<1>1. "/" \in PathText /\ "/" \in PathChar /\ PathText \subseteq Char
      /\ Reserved \in SUBSET DOMAIN Encoding /\ "/" \notin Reserved
  BY Characters DEF PathText, PathChar, Literal, Reserved, Char
<1>2. <<>> \in T
  <2>1. <<>> \in Seq(Char) /\ <<>> \in Seq(Names(PathText)) /\ <<>> \in Seq(Names(PathChar))
    BY EmptySeq
  <2>2. Encode(<<>>, Reserved) = <<>>
    BY <1>1, <2>1, EncodeType, EmptySeq
  <2>3. Has(<<>>)
    BY <2>1, <2>2, JoinOfEmpty
  <2> HIDE DEF Has
  <2> QED BY <2>1, <2>3
<1>3. ASSUME NEW t \in Seq(Names(PathText)), NEW n \in Names(PathText), t \in T
      PROVE  Append(t, n) \in T
  <2>1. PICK encoded \in Seq(Names(PathChar)) : Encode(Join(t), Reserved) = Join(encoded)
    BY <1>3
  <2> DEFINE e == Encode(n, Reserved)
             s == <<"/">>
  <2>2. e \in Names(PathChar)
    BY EncodeName
  <2>3. /\ n \in Plain(PathText) /\ t \in Seq(Plain(PathText))
        /\ e \in Plain(PathChar) /\ encoded \in Seq(Plain(PathChar))
    BY <2>2, SeqMonotonic DEF Names
  <2>4. Join(t) \in Seq(Char) /\ n \in Seq(Char) /\ s \in Seq(Char)
    <3>1. Join(t) \in Seq(PathText)
      BY <1>1, <2>3, JoinType
    <3> QED BY <1>1, <2>3, <3>1, SeqMonotonic DEF Plain
  <2>5. Encode(s, Reserved) = s
    <3>1. "/" \notin Reserved /\ DOMAIN s = {1}
      BY DEF Reserved
    <3> QED BY <3>1 DEF Encode
  <2>6. Join(Append(t, n)) = (Join(t) \o s) \o n
    BY <1>1, <2>3, JoinOfAppend DEF AddSegment
  <2>7. Join(Append(encoded, e)) = (Join(encoded) \o s) \o e
    <3> HIDE DEF e
    <3> QED BY <1>1, <2>3, JoinOfAppend DEF AddSegment
  <2>8. Encode((Join(t) \o s) \o n, Reserved) = (Join(encoded) \o s) \o e
    <3> DEFINE J == Join(t)
    <3> HIDE DEF s, J
    <3>1. J \o s \in Seq(Char)
      BY <2>4, ConcatProperties DEF J
    <3>2. Encode((J \o s) \o n, Reserved) = Encode(J \o s, Reserved) \o Encode(n, Reserved)
      BY <1>1, <2>4, <3>1, EncodeConcat
    <3>3. Encode(J \o s, Reserved) = Encode(J, Reserved) \o Encode(s, Reserved)
      BY <1>1, <2>4, EncodeConcat DEF J
    <3> QED BY <2>1, <2>5, <3>2, <3>3 DEF J
  <2>9. Append(encoded, e) \in Seq(Names(PathChar)) /\ Append(encoded, e) # <<>>
        /\ Append(t, n) \in Seq(Names(PathText)) /\ Append(t, n) # <<>>
    BY <2>2, AppendProperties
  <2>10. Has(Append(t, n))
    <3> HIDE DEF e, s
    <3> QED BY <2>6, <2>7, <2>8, <2>9
  <2> HIDE DEF Has
  <2> QED BY <2>9, <2>10
<1>4. Seq(Names(PathText)) \subseteq T
  <2> HIDE DEF T
  <2> QED BY <1>2, <1>3, SequenceInduction
<1>5. Has(names)
  <2> HIDE DEF Has
  <2> QED BY <1>4
<1> QED BY <1>5

\* A clean path is still one once it is encoded.
LEMMA EncodeClean ==
  ASSUME NEW s, IsClean(PathText, s)
  PROVE  IsClean(PathChar, Encode(s, Reserved))
<1>1. "/" \in PathText /\ "/" \in PathChar /\ PathText \subseteq Char
      /\ Reserved \in SUBSET DOMAIN Encoding /\ "/" \notin Reserved
  BY Characters DEF PathText, PathChar, Literal, Reserved, Char
<1>2. Encode(<<"/">>, Reserved) = <<"/">>
  <2>1. "/" \notin Reserved
    BY DEF Reserved
  <2> QED BY <2>1 DEF Encode
<1>3. CASE s = <<"/">>
  BY <1>2, <1>3 DEF IsClean
<1>4. ASSUME NEW names \in Seq(Names(PathText)), names # <<>>,
             s \in {Join(names), Append(Join(names), "/")}
      PROVE  IsClean(PathChar, Encode(s, Reserved))
  <2> DEFINE J == Join(names)
  <2>1. PICK encoded \in Seq(Names(PathChar)) :
          encoded # <<>> /\ Encode(J, Reserved) = Join(encoded)
    BY <1>4, EncodeJoin
  <2>2. J \in Seq(Char) /\ <<"/">> \in Seq(Char)
    <3>1. names \in Seq(Plain(PathText))
      BY SeqMonotonic DEF Names
    <3>2. J \in Seq(PathText)
      BY <1>1, <3>1, JoinType
    <3> HIDE DEF J
    <3> QED BY <1>1, <3>2, SeqMonotonic
  <2>3. CASE s = J
    BY <2>1, <2>3 DEF IsClean
  <2>4. CASE s = Append(J, "/")
    <3>1. s = J \o <<"/">>
      <4> HIDE DEF J
      <4> QED BY <1>1, <2>2, <2>4, AppendIsConcat
    <3>2. Encode(s, Reserved) = Join(encoded) \o <<"/">>
      <4> DEFINE sl == <<"/">>
      <4> HIDE DEF J, sl
      <4>1. Encode(J \o sl, Reserved) = Encode(J, Reserved) \o Encode(sl, Reserved)
        BY <1>1, <2>2, EncodeConcat DEF sl
      <4> QED BY <1>2, <2>1, <3>1, <4>1 DEF sl
    <3>3. Join(encoded) \in Seq(PathChar)
      <4>1. encoded \in Seq(Plain(PathChar))
        BY SeqMonotonic DEF Names
      <4> QED BY <1>1, <4>1, JoinType
    <3>4. Join(encoded) \o <<"/">> = Append(Join(encoded), "/")
      BY <1>1, <3>3, AppendIsConcat
    <3> QED BY <2>1, <3>2, <3>4 DEF IsClean
  <2> QED BY <1>4, <2>3, <2>4
<1> QED BY <1>3, <1>4 DEF IsClean

----------------------------------------------------------------------------
(* The parts of a URL *)

\* The characters of the parts of a URL, and how each part begins.
LEMMA PartsType ==
  ASSUME NEW D, NEW s \in Seq(D)
  PROVE  /\ BeforeQuery(s) \in Seq((D \ {"#"}) \ {"?"})
         /\ Query(s) \in Seq(D \ {"#"}) /\ StartsWith(Query(s), "?")
         /\ Fragment(s) \in Seq(D) /\ StartsWith(Fragment(s), "#")
<1> DEFINE u == Until(s, "#")
<1>1. u \in Seq(D \ {"#"}) /\ Fragment(s) \in Seq(D) /\ StartsWith(Fragment(s), "#")
  BY CutText DEF Fragment
<1> HIDE DEF u
<1>2. Until(u, "?") \in Seq((D \ {"#"}) \ {"?"}) /\ From(u, "?") \in Seq(D \ {"#"})
      /\ StartsWith(From(u, "?"), "?")
  BY <1>1, CutText
<1> QED BY <1>1, <1>2 DEF u, BeforeQuery, Query

\* A URL put together from its parts has these parts.
LEMMA PartsOfConcat ==
  ASSUME NEW D, NEW p \in Seq((D \ {"#"}) \ {"?"}),
         NEW q \in Seq(D \ {"#"}), StartsWith(q, "?"),
         NEW f \in Seq(D), StartsWith(f, "#")
  PROVE  /\ (p \o q) \o f \in Seq(D)
         /\ BeforeQuery((p \o q) \o f) = p
         /\ Query((p \o q) \o f) = q
         /\ Fragment((p \o q) \o f) = f
<1> DEFINE a == p \o q
<1>1. a \in Seq(D \ {"#"})
  BY SeqMonotonic, ConcatProperties
<1>2. Until(a, "?") = p /\ From(a, "?") = q
  <2> DEFINE E == D \ {"#"}
  <2>1. p \in Seq(E \ {"?"}) /\ q \in Seq(E)
    OBVIOUS
  <2> HIDE DEF E
  <2> QED BY <2>1, CutConcat
<1> HIDE DEF a
<1>3. Until(a \o f, "#") = a /\ From(a \o f, "#") = f
  BY <1>1, CutConcat
<1>4. a \o f \in Seq(D)
  BY <1>1, SeqMonotonic, ConcatProperties
<1>5. (p \o q) \o f = a \o f
  BY DEF a
<1> DEFINE u == (p \o q) \o f
<1> HIDE DEF u
<1>6. u = a \o f
  BY <1>5 DEF u
<1>7. u \in Seq(D) /\ BeforeQuery(u) = p /\ Query(u) = q /\ Fragment(u) = f
  BY <1>2, <1>3, <1>4, <1>6 DEF BeforeQuery, Query, Fragment
<1> QED BY <1>7 DEF u

\* A rooted text begins with a slash.
LEMMA RootedText ==
  ASSUME NEW D, NEW s \in Seq(D)
  PROVE  Rooted(s) <=> s # <<>> /\ s[1] = "/"
<1> DEFINE slash == <<"/">>
           E == D \cup {"/"}
           a == SubSeq(slash, 1, 1)
           b == SubSeq(s, 1, 1)
<1>1. Len(s) \in Nat /\ Len(slash) = 1 /\ slash \in Seq(E) /\ slash[1] = "/" /\ "/" \in E /\ s \in Seq(E)
  BY LenProperties, SeqMonotonic
<1>2. Len(s) >= 1 <=> s # <<>>
  BY <1>1, EmptySeq
<1> HIDE DEF slash, E
<1>3. a \in Seq(E) /\ Len(a) = 1 /\ a[1] = "/"
  <2>1. \A i \in 1..1 : slash[i] \in E
    BY <1>1
  <2>2. /\ a \in Seq(E) /\ Len(a) = IF 1 <= 1 THEN 1 - 1 + 1 ELSE 0
        /\ \A i \in 1..(1 - 1 + 1) : a[i] = slash[1 + i - 1]
    BY <2>1, SubSeqProperties
  <2> HIDE DEF a
  <2> QED BY <1>1, <2>2
<1>4. ASSUME Len(s) >= 1
      PROVE  b \in Seq(E) /\ Len(b) = 1 /\ b[1] = s[1]
  BY <1>1, <1>4
<1> HIDE DEF a, b
<1>5. ASSUME Len(s) >= 1
      PROVE  a = b <=> s[1] = "/"
  <2>1. a = b <=> a[1] = b[1]
    BY <1>3, <1>4, <1>5, SeqEqual
  <2> QED BY <1>3, <1>4, <1>5, <2>1
<1>6. Rooted(s) <=> Len(s) >= 1 /\ a = b
  BY <1>1 DEF Rooted, IsPrefix, a, b, slash
<1> QED BY <1>2, <1>5, <1>6

\* The path of a rooted URL is not empty.
LEMMA RootedPath ==
  ASSUME NEW D, NEW s \in Seq(D), Rooted(s)
  PROVE  BeforeQuery(s) # <<>>
<1> DEFINE u == Until(s, "#")
<1>1. s # <<>> /\ s[1] = "/"
  BY RootedText
<1>2. u \in Seq(D \ {"#"}) /\ From(s, "#") \in Seq(D) /\ StartsWith(From(s, "#"), "#") /\ u \o From(s, "#") = s
  BY CutText
<1> HIDE DEF u
<1>3. u \in Seq(D)
  BY <1>2, SeqMonotonic
<1>4. u # <<>> /\ u[1] = "/"
  <2>1. u # <<>>
    <3> SUFFICES ASSUME u = <<>>
                 PROVE  FALSE
      OBVIOUS
    <3>1. From(s, "#") = s
      BY <1>2, ConcatEmptySeq
    <3> QED BY <1>1, <1>2, <3>1 DEF StartsWith
  <2> QED BY <1>1, <1>2, <1>3, <2>1, ConcatEnds
<1>5. Until(u, "?") # <<>>
  <2> SUFFICES ASSUME Until(u, "?") = <<>>
               PROVE  FALSE
    OBVIOUS
  <2>1. From(u, "?") \in Seq(D) /\ StartsWith(From(u, "?"), "?") /\ Until(u, "?") \o From(u, "?") = u
    BY <1>3, CutText
  <2>2. From(u, "?") = u
    BY <2>1, ConcatEmptySeq
  <2> QED BY <1>4, <2>1, <2>2 DEF StartsWith
<1> QED BY <1>5 DEF BeforeQuery, u

\* A text that begins with two slashes has one at its second place.
LEMMA TwoSlashes ==
  ASSUME NEW D, NEW s \in Seq(D), IsPrefix(<<"/", "/">>, s)
  PROVE  Len(s) >= 2 /\ s[2] = "/"
<1>1. Len(<<"/", "/">>) = 2 /\ Len(s) \in Nat
  BY LenProperties
<1>2. Len(s) >= 2 /\ SubSeq(s, 1, 2) = SubSeq(<<"/", "/">>, 1, 2)
  BY <1>1 DEF IsPrefix
<1>3. SubSeq(s, 1, 2)[2] = s[2] /\ SubSeq(<<"/", "/">>, 1, 2)[2] = "/"
  BY <1>1, <1>2
<1> QED BY <1>2, <1>3

\* A text with one slash at its start names no host.
LEMMA SingleRootNoHost ==
  ASSUME NEW D, NEW s \in Seq(D), SingleRoot(s)
  PROVE  Rooted(s) /\ ~NamesHost(s)
<1> DEFINE b == BeforeQuery(s)
           u == Until(s, "#")
<1>1. Rooted(s)
  BY RootedText DEF SingleRoot
<1>2. u \in Seq(D) /\ (Len(u) >= 2 => Len(s) >= 2 /\ u[2] = s[2])
  <2>0. u \in Seq(D \ {"#"}) /\ From(s, "#") \in Seq(D) /\ u \o From(s, "#") = s
    BY CutText
  <2>1. u \in Seq(D)
    BY <2>0, SeqMonotonic
  <2> HIDE DEF u
  <2> QED BY <2>0, <2>1, ConcatEnds
<1>3. b \in Seq(D) /\ (Len(b) >= 2 => Len(u) >= 2 /\ b[2] = u[2])
  <2> HIDE DEF u
  <2>0. Until(u, "?") \in Seq(D \ {"?"}) /\ From(u, "?") \in Seq(D) /\ Until(u, "?") \o From(u, "?") = u
    BY <1>2, CutText
  <2>1. Until(u, "?") \in Seq(D)
    BY <2>0, SeqMonotonic
  <2>2. b = Until(u, "?")
    BY DEF BeforeQuery, u
  <2> HIDE DEF b
  <2> QED BY <2>0, <2>1, <2>2, ConcatEnds
<1> HIDE DEF b, u
<1>4. IsPrefix(<<"/", "/">>, b) => Len(b) >= 2 /\ b[2] = "/"
  BY <1>3, TwoSlashes
<1> QED BY <1>1, <1>2, <1>3, <1>4 DEF SingleRoot, NamesHost, b

\* What follows a path leaves it its single slash.
LEMMA SingleRootConcat ==
  ASSUME NEW D, NEW s \in Seq(D), NEW t \in Seq(D), SingleRoot(s), t # <<>> => t[1] # "/"
  PROVE  SingleRoot(s \o t)
<1>1. Len(s) \in Nat /\ Len(t) \in Nat /\ Len(s) >= 1 /\ Len(s \o t) = Len(s) + Len(t)
  BY LenProperties, ConcatProperties, EmptySeq DEF SingleRoot
<1>2. s \o t # <<>> /\ (s \o t)[1] = s[1]
  BY ConcatEnds DEF SingleRoot
<1>3. CASE Len(s) >= 2
  BY <1>2, <1>3, ConcatEnds DEF SingleRoot
<1>4. CASE Len(s) = 1 /\ Len(s \o t) >= 2
  <2>1. t # <<>> /\ (s \o t)[2] = t[1]
    BY <1>1, <1>4
  <2> QED BY <1>2, <2>1 DEF SingleRoot
<1> QED BY <1>1, <1>2, <1>3, <1>4 DEF SingleRoot

----------------------------------------------------------------------------
(* Fragments *)

\* The characters a redirect may have.
Safe == Char \ {"unsafe"}

\* What becomes of a fragment becomes of it only once.
LEMMA FragmentStringTwice ==
  ASSUME NEW f \in Seq(Safe), StartsWith(f, "#")
  PROVE  /\ FragmentString(f) \in Seq(Safe)
         /\ StartsWith(FragmentString(f), "#")
         /\ FragmentString(FragmentString(f)) = FragmentString(f)
<1>1. Len(f) \in Nat /\ Len(<<>>) = 0 /\ <<>> \in Seq(Safe)
  BY LenProperties, EmptySeq
<1>2. CASE Len(f) <= 1
  <2>1. FragmentString(f) = <<>> /\ FragmentString(<<>>) = <<>>
    BY <1>1, <1>2 DEF FragmentString
  <2> QED BY <1>1, <2>1 DEF StartsWith
<1>3. CASE ~ (Len(f) <= 1) /\ ~Contains(Tail(f), "#")
  <2>1. FragmentString(f) = f
    BY <1>3 DEF FragmentString
  <2> QED BY <2>1
<1>4. CASE ~ (Len(f) <= 1) /\ Contains(Tail(f), "#")
  <2> DEFINE those == Reserved \ {"?"}
             d == Decode(Tail(f))
             e == Encode(d, those)
             g == <<"#">> \o e
  <2>1. Tail(f) \in Seq(Char) /\ Len(Tail(f)) = Len(f) - 1
    <3>1. f # <<>>
      BY <1>1, <1>4
    <3> QED BY <3>1, HeadTailProperties, SeqMonotonic DEF Safe
  <2>2. d \in Seq(Char) /\ Len(d) = Len(f) - 1
    <3>1. d \in Seq(Literal) /\ Len(d) = Len(f) - 1
      BY <2>1, DecodeType
    <3> HIDE DEF d
    <3> QED BY <3>1, SeqMonotonic DEF Literal, Char
  <2>3. e \in Seq(Char \ those) /\ Len(e) = Len(f) - 1
    <3>1. those \in SUBSET DOMAIN Encoding /\ "/" \notin those
      BY Characters DEF Reserved
    <3> HIDE DEF those, d
    <3> QED BY <2>2, <3>1, EncodeType
  <2>4. FragmentString(f) = g
    BY <1>4 DEF FragmentString
  <2> HIDE DEF e
  <2>5. g \in Seq(Safe) /\ g[1] = "#" /\ Len(g) = Len(f) /\ Tail(g) = e
    <3>1. e \in Seq(Safe) /\ "#" \in Safe
      BY <2>3, SeqMonotonic, Characters DEF Safe, Char, Reserved
    <3>2. Len(e) \in Nat
      BY <1>1, <1>4, <2>3
    <3> QED BY <1>1, <2>3, <3>1, <3>2
  <2>6. ~Contains(e, "#")
    <3>1. \A i \in 1..Len(e) : e[i] \in Char \ those
      BY <2>3, ElementOfSeq
    <3> QED BY <3>1 DEF Contains, Reserved
  <2> HIDE DEF g
  <2>7. FragmentString(g) = g
    BY <1>4, <2>5, <2>6 DEF FragmentString
  <2> QED BY <2>4, <2>5, <2>7 DEF StartsWith
<1> QED BY <1>2, <1>3, <1>4

----------------------------------------------------------------------------
(* What localPath returns *)

\* A clean path, encoded, with the query q and the fragment f.
Url(path, q, f) == (Encode(path, Reserved) \o q) \o f

\* u is the URL of a clean path and of a query and a fragment that have been normalised.
IsUrl(u, path, q, f) ==
  /\ IsClean(PathText, path) /\ u = Url(path, q, f)
  /\ q \in Seq(Safe \ {"#"}) /\ StartsWith(q, "?")
  /\ f \in Seq(Safe) /\ StartsWith(f, "#") /\ FragmentString(f) = f

\* A text without unsafe characters is one of the safe characters.
LEMMA SafeText ==
  ASSUME NEW D, NEW s \in Seq(D)
  PROVE  /\ ~unsafeInPath(s) => s \in Seq(D \ {"unsafe"})
         /\ s \in Seq(Safe) => ~unsafeInPath(s)
<1>1. Len(s) \in Nat /\ \A i \in 1..Len(s) : s[i] \in D
  BY LenProperties, ElementOfSeq
<1>2. ASSUME ~unsafeInPath(s)
      PROVE  s \in Seq(D \ {"unsafe"})
  <2>1. \A i \in 1..Len(s) : s[i] \in D \ {"unsafe"}
    BY <1>1, <1>2 DEF unsafeInPath, Contains
  <2> QED BY <1>1, <2>1
<1>3. ASSUME s \in Seq(Safe)
      PROVE  ~unsafeInPath(s)
  <2>1. \A i \in 1..Len(s) : s[i] \in Safe
    BY <1>3, ElementOfSeq
  <2> QED BY <2>1 DEF unsafeInPath, Contains, Safe
<1> QED BY <1>2, <1>3

\* The URL that localPath makes of what it accepts.
LEMMA LocalPathMakes ==
  ASSUME NEW s \in Seq(Char), localPath(s) # <<>>
  PROVE  LET path == Decode(BeforeQuery(s)) IN
         /\ IsUrl(localPath(s), CleanKeepingSlash(path), Query(s), FragmentString(Fragment(s)))
         /\ path \in Seq(PathText) /\ path # <<>>
<1> DEFINE b == BeforeQuery(s)
           path == Decode(b)
           c == CleanKeepingSlash(path)
           q == Query(s)
           f == FragmentString(Fragment(s))
<1>1. Rooted(s) /\ ~unsafeInPath(s) /\ ~unsafeInPath(path) /\ localPath(s) = (Encode(c, Reserved) \o q) \o f
  <2>1. localPath(s) = IF ~Rooted(s) \/ unsafeInPath(s) \/ NamesHost(s) \/ unsafeInPath(path) THEN <<>>
                       ELSE Encode(c, Reserved) \o q \o f
    BY Zenon DEF localPath
  <2> QED BY <2>1
<1>2. s \in Seq(Safe)
  BY <1>1, SafeText DEF Safe
<1>3. /\ b \in Seq((Safe \ {"#"}) \ {"?"}) /\ q \in Seq(Safe \ {"#"}) /\ StartsWith(q, "?")
      /\ Fragment(s) \in Seq(Safe) /\ StartsWith(Fragment(s), "#")
  BY <1>2, PartsType
<1>4. f \in Seq(Safe) /\ StartsWith(f, "#") /\ FragmentString(f) = f
  <2> DEFINE g == Fragment(s)
  <2>1. g \in Seq(Safe) /\ StartsWith(g, "#")
    BY <1>3
  <2> HIDE DEF g
  <2>2. FragmentString(g) \in Seq(Safe) /\ StartsWith(FragmentString(g), "#")
        /\ FragmentString(FragmentString(g)) = FragmentString(g)
    BY <2>1, FragmentStringTwice
  <2> QED BY <2>2 DEF g
<1>5. path \in Seq(PathText)
  <2>1. b \in Seq(Char)
    <3> HIDE DEF b
    <3> QED BY <1>3, SeqMonotonic DEF Safe
  <2>2. path \in Seq(Literal)
    <3> HIDE DEF b
    <3> QED BY <2>1, DecodeType
  <2> HIDE DEF path
  <2> QED BY <1>1, <2>2, SafeText DEF PathText
<1>6. IsClean(PathText, c)
  <2>1. "/" \in PathText
    BY Characters DEF PathText, Literal
  <2> HIDE DEF path
  <2> QED BY <1>5, <2>1, CleanIsClean
<1>7. path # <<>>
  <2>1. b # <<>>
    BY <1>1, RootedPath
  <2>2. b \in Seq(Char) /\ Len(b) \in Nat
    <3> HIDE DEF b
    <3> QED BY <1>3, SeqMonotonic, LenProperties DEF Safe
  <2> HIDE DEF b
  <2>3. path \in Seq(Literal) /\ Len(path) = Len(b) /\ Len(b) # 0
    BY <2>1, <2>2, DecodeType, EmptySeq
  <2> HIDE DEF path
  <2> QED BY <2>3
<1> HIDE DEF c, q, f
<1>8. IsUrl(localPath(s), c, q, f)
  BY <1>1, <1>3, <1>4, <1>6 DEF IsUrl, Url
<1> QED BY <1>5, <1>7, <1>8 DEF c, q, f

\* Such a URL is local, has the parts it was made of, and is made of itself.
LEMMA UrlIsLocal ==
  ASSUME NEW u, NEW path, NEW q, NEW f, IsUrl(u, path, q, f)
  PROVE  /\ u \in Seq(Safe) /\ SingleRoot(u)
         /\ Decode(BeforeQuery(u)) = path /\ Query(u) = q /\ Fragment(u) = f
         /\ localPath(u) = u
<1>1. IsClean(PathText, path) /\ u = Url(path, q, f)
  BY DEF IsUrl
<1> DEFINE p == Encode(path, Reserved)
<1>2. /\ q \in Seq(Safe \ {"#"}) /\ StartsWith(q, "?") /\ f \in Seq(Safe) /\ StartsWith(f, "#")
      /\ FragmentString(f) = f
  BY DEF IsUrl
<1>3. "/" \in PathText /\ "/" \in PathChar
      /\ Reserved \in SUBSET DOMAIN Encoding /\ "/" \notin Reserved /\ "%2F" \in Reserved
      /\ PathText \subseteq Char /\ PathText \subseteq Literal
  BY Characters DEF PathText, PathChar, Literal, Reserved, Char
<1>4. path \in Seq(PathText) /\ path \in Seq(Literal)
  <2>1. path \in Seq(PathText)
    BY <1>1, <1>3, CleanShape
  <2> QED BY <1>3, <2>1, SeqMonotonic
<1>5. p \in Seq(PathChar) /\ SingleRoot(p)
  <2>1. IsClean(PathChar, p)
    BY <1>1, EncodeClean
  <2> HIDE DEF p
  <2> QED BY <1>3, <2>1, CleanShape
<1>6. Decode(p) = path
  BY <1>3, <1>4, DecodeEncode
<1> HIDE DEF p
<1>7. u = (p \o q) \o f
  BY <1>1 DEF Url, p
<1>8. p \in Seq((Safe \ {"#"}) \ {"?"})
  <2>1. PathChar \subseteq (Safe \ {"#"}) \ {"?"}
    BY DEF PathChar, Safe, Reserved
  <2> QED BY <1>5, <2>1, SeqMonotonic
<1>9. u \in Seq(Safe) /\ BeforeQuery(u) = p /\ Query(u) = q /\ Fragment(u) = f
  <2> DEFINE w == (p \o q) \o f
  <2>1. w \in Seq(Safe) /\ BeforeQuery(w) = p /\ Query(w) = q /\ Fragment(w) = f
    BY <1>2, <1>8, PartsOfConcat
  <2> QED BY Zenon, <1>7, <2>1
<1>10. SingleRoot(u)
  <2> DEFINE a == p \o q
  <2>1. p \in Seq(Safe) /\ q \in Seq(Safe)
    BY <1>2, <1>8, SeqMonotonic
  <2>2. a \in Seq(Safe)
    BY <2>1, ConcatProperties
  <2>3. SingleRoot(a)
    <3>1. q # <<>> => q[1] # "/"
      BY <1>2 DEF StartsWith
    <3> QED BY <1>5, <2>1, <3>1, SingleRootConcat
  <2> HIDE DEF a
  <2>4. SingleRoot(a \o f)
    <3>1. f # <<>> => f[1] # "/"
      BY <1>2 DEF StartsWith
    <3> QED BY <1>2, <2>2, <2>3, <3>1, SingleRootConcat
  <2> QED BY <1>7, <2>4 DEF a
<1>11. localPath(u) = u
  <2>1. Rooted(u) /\ ~NamesHost(u)
    BY <1>9, <1>10, SingleRootNoHost
  <2>2. ~unsafeInPath(u)
    BY <1>9, SafeText
  <2>3. ~unsafeInPath(path)
    <3>1. path \in Seq(Safe)
      <4>1. PathText \subseteq Safe
        BY <1>3 DEF PathText, Safe
      <4> QED BY <1>4, <4>1, SeqMonotonic
    <3> QED BY <3>1, SafeText
  <2>4. CleanKeepingSlash(path) = path
    BY <1>1, <1>3, CleanAgain
  <2>5. Decode(BeforeQuery(u)) = path
    BY <1>6, <1>9
  <2>6. localPath(u) = (Encode(CleanKeepingSlash(path), Reserved) \o Query(u)) \o FragmentString(Fragment(u))
    BY Zenon, <2>1, <2>2, <2>3, <2>5 DEF localPath
  <2>7. localPath(u) = (p \o q) \o f
    BY Zenon, <1>2, <1>9, <2>4, <2>6 DEF p
  <2> QED BY Zenon, <1>7, <2>7
<1> QED BY <1>6, <1>9, <1>10, <1>11

\* http.Redirect leaves it as it is, if it has no fragment.
LEMMA RedirectToUrl ==
  ASSUME NEW u, NEW path, NEW q, IsUrl(u, path, q, <<>>)
  PROVE  RedirectTo(u) = u
<1>1. IsClean(PathText, path) /\ u = Url(path, q, <<>>)
  BY DEF IsUrl
<1> DEFINE p == Encode(path, Reserved)
<1>2. IsClean(PathChar, p)
  BY <1>1, EncodeClean
<1>3. "/" \in PathChar
  BY Characters DEF PathChar, Reserved, Char
<1> HIDE DEF p
<1>4. p \in Seq(PathChar) /\ CleanKeepingSlash(p) = p
  BY <1>2, <1>3, CleanShape, CleanAgain
<1>5. q \in Seq(Safe) /\ StartsWith(q, "?")
  BY SeqMonotonic DEF IsUrl
<1>6. p \in Seq(Safe \ {"?"})
  <2>1. PathChar \subseteq Safe \ {"?"}
    BY DEF PathChar, Safe, Reserved
  <2> QED BY <1>4, <2>1, SeqMonotonic
<1>7. u = p \o q
  <2>1. p \o q \in Seq(Safe)
    BY <1>5, <1>6, SeqMonotonic, ConcatProperties
  <2> QED BY <1>1, <2>1, ConcatEmptySeq DEF Url, p
<1>8. Until(u, "?") = p /\ From(u, "?") = q
  BY <1>5, <1>6, <1>7, CutConcat
<1>9. ~NamesHost(u)
  BY UrlIsLocal, SingleRootNoHost
<1> QED BY <1>4, <1>7, <1>8, <1>9 DEF RedirectTo

\* And whatever it makes of a local URL is local too.
LEMMA RedirectToLocal ==
  ASSUME NEW u \in Seq(Safe), SingleRoot(u)
  PROVE  RedirectTo(u) \in Seq(Safe) /\ SingleRoot(RedirectTo(u))
<1> DEFINE a == Until(u, "?")
           t == From(u, "?")
           c == CleanKeepingSlash(a)
<1>1. a \in Seq(Safe \ {"?"}) /\ t \in Seq(Safe) /\ StartsWith(t, "?")
  BY CutText
<1>2. RedirectTo(u) = c \o t
  BY SingleRootNoHost DEF RedirectTo
<1> HIDE DEF a, t
<1>3. a \in Seq(Safe) /\ "/" \in Safe
  BY <1>1, SeqMonotonic, Characters DEF Safe, Char
<1>4. c \in Seq(Safe) /\ SingleRoot(c)
  <2>1. IsClean(Safe, c)
    BY <1>3, CleanIsClean
  <2> HIDE DEF c
  <2> QED BY <1>3, <2>1, CleanShape
<1> HIDE DEF c
<1>5. SingleRoot(c \o t)
  <2>1. t # <<>> => t[1] # "/"
    BY <1>1 DEF StartsWith
  <2> QED BY <1>1, <1>4, <2>1, SingleRootConcat
<1>6. c \o t \in Seq(Safe)
  BY <1>1, <1>4, ConcatProperties
<1> QED BY <1>2, <1>5, <1>6

----------------------------------------------------------------------------
(* The numbers of a set, in order *)

\* Numbers up to n are finitely many.
LEMMA NumbersFinite ==
  ASSUME NEW n \in Nat, NEW K \in SUBSET (1..n)
  PROVE  IsFiniteSet(K) /\ Cardinality(K) \in Nat
<1>1. IsFiniteSet(1..n)
  BY FS_Interval
<1>2. IsFiniteSet(K)
  BY <1>1, FS_Subset
<1> QED BY <1>2, FS_CardinalityType

\* How many numbers of K are less than i, and the n-th number of K.
Below(K, i) == Cardinality({j \in K : j < i})
Nth(K, n)   == CHOOSE i \in K : Below(K, i) = n - 1

\* Of two numbers of a set, the greater has more below it.
LEMMA BelowGrows ==
  ASSUME NEW n \in Nat, NEW K \in SUBSET (1..n), NEW i \in K, NEW k \in K, i < k
  PROVE  /\ Below(K, i) \in Nat /\ Below(K, k) \in Nat /\ Below(K, i) < Below(K, k)
         /\ Below(K, k) < Cardinality(K)
<1> DEFINE A == {j \in K : j < i}
           B == {j \in K : j < k}
<1>1. A \in SUBSET (1..n) /\ B \in SUBSET (1..n) /\ A \in SUBSET B /\ B \in SUBSET K
      /\ i \in B /\ i \notin A /\ k \notin B
  <2>1. \A j \in K : j \in 1..n /\ ~ (j < j) /\ (j < i => j < k)
    OBVIOUS
  <2> QED BY <2>1
<1>2. Below(K, i) = Cardinality(A) /\ Below(K, k) = Cardinality(B)
  BY DEF Below
<1> HIDE DEF A, B
<1>3. IsFiniteSet(A) /\ IsFiniteSet(B) /\ IsFiniteSet(K)
      /\ Cardinality(A) \in Nat /\ Cardinality(B) \in Nat /\ Cardinality(K) \in Nat
  BY <1>1, NumbersFinite
<1>4. Cardinality(A) <= Cardinality(B) /\ Cardinality(A) # Cardinality(B)
  <2>1. Cardinality(A) = Cardinality(B) => A = B
    BY <1>1, <1>3, FS_Subset
  <2> QED BY <1>1, <1>3, <2>1, FS_Subset
<1>5. Cardinality(B) <= Cardinality(K) /\ Cardinality(B) # Cardinality(K)
  <2>1. Cardinality(B) = Cardinality(K) => B = K
    BY <1>1, <1>3, FS_Subset
  <2> QED BY <1>1, <1>3, <2>1, FS_Subset
<1> QED BY <1>2, <1>3, <1>4, <1>5

\* The k-th of the numbers is the one that has k - 1 below it.
LEMMA NthIs ==
  ASSUME NEW n \in Nat, NEW K \in SUBSET (1..n), NEW i \in K, NEW k, Below(K, i) = k - 1
  PROVE  Nth(K, k) = i
<1>1. \A j \in K : Below(K, j) = k - 1 => j = i
  <2> SUFFICES ASSUME NEW j \in K, Below(K, j) = k - 1, j # i
               PROVE  FALSE
    OBVIOUS
  <2>1. i < j \/ j < i
    OBVIOUS
  <2>2. CASE i < j
    <3>1. Below(K, i) < Below(K, j) /\ Below(K, i) \in Nat
      BY <2>2, BelowGrows
    <3> QED BY <3>1
  <2>3. CASE j < i
    <3>1. Below(K, j) < Below(K, i) /\ Below(K, i) \in Nat
      BY <2>3, BelowGrows
    <3> QED BY <3>1
  <2> QED BY <2>1, <2>2, <2>3
<1>2. (CHOOSE j \in K : Below(K, j) = k - 1) = i
  BY <1>1
<1> QED BY <1>2 DEF Nth

\* For every number up to the size of K there is one of K with as many below it.
Listed(K) == \A k \in 1..Cardinality(K) : \E i \in K : Below(K, i) = k - 1

\* L has the numbers of K, all up to n, and m, which is greater.
AddsGreatest(L, K, m, n) ==
  K \in SUBSET (1..n) /\ m \in 1..n /\ (\A i \in K : i < m) /\ L = K \cup {m}

\* A number greater than the others is their last, and moves none of them.
LEMMA GreatestIsLast ==
  ASSUME NEW n \in Nat, NEW K, NEW L, NEW m, AddsGreatest(L, K, m, n)
  PROVE  /\ K \in SUBSET (1..n) /\ L \in SUBSET (1..n) /\ m \in L /\ m \notin K /\ \A i \in K : i \in L
         /\ Cardinality(K) \in Nat /\ Cardinality(L) = Cardinality(K) + 1
         /\ Below(L, m) = Cardinality(K)
         /\ \A i \in K : Below(L, i) = Below(K, i) /\ Below(K, i) < Cardinality(K)
<1>0. K \in SUBSET (1..n) /\ m \in 1..n /\ (\A i \in K : i < m) /\ L = K \cup {m}
  BY DEF AddsGreatest
<1>1. L \in SUBSET (1..n) /\ m \in L /\ m \notin K /\ \A i \in K : i \in L
  BY <1>0
<1>2. Cardinality(K) \in Nat /\ Cardinality(L) = Cardinality(K) + 1
  BY <1>0, <1>1, NumbersFinite, FS_AddElement
<1>3. Below(L, m) = Cardinality(K)
  <2>1. \A j \in L : j < m <=> j \in K
    BY <1>0, <1>1
  <2>2. {j \in L : j < m} = K
    BY <1>1, <2>1
  <2> QED BY <2>2 DEF Below
<1>4. ASSUME NEW i \in K
      PROVE  Below(L, i) = Below(K, i) /\ Below(K, i) < Cardinality(K)
  <2>1. {j \in L : j < i} = {j \in K : j < i}
    <3>1. ~ (m < i)
      BY <1>0
    <3> QED BY <1>0, <3>1
  <2>2. Below(L, i) = Below(K, i)
    BY <2>1 DEF Below
  <2>3. Below(L, i) < Below(L, m)
    <3>1. i \in L /\ m \in L /\ i < m
      BY <1>0, <1>1
    <3> QED BY <1>1, <3>1, BelowGrows
  <2> QED BY <1>3, <2>2, <2>3
<1> QED BY <1>0, <1>1, <1>2, <1>3, <1>4

\* What is at the places of a set, in order.
Listing(s, K) == [k \in 1..Cardinality(K) |-> s[Nth(K, k)]]

\* Another number that is greater than those of the set adds what is at its place.
AgreeOn(s, t, K, S) == \A i \in K : s[i] \in S /\ t[i] = s[i]

\* A greater number lists one more element, at the end.
LEMMA ListGrows ==
  ASSUME NEW S, NEW n \in Nat, NEW K, NEW L, NEW m, AddsGreatest(L, K, m, n), Listed(K),
         NEW s, NEW t, AgreeOn(s, t, K, S), t[m] \in S
  PROVE  /\ Listed(L)
         /\ Listing(s, K) \in Seq(S)
         /\ Listing(t, L) = Append(Listing(s, K), t[m])
<1> DEFINE c == Cardinality(K)
           a == Listing(s, K)
           b == Listing(t, L)
<1>1. /\ K \in SUBSET (1..n)
      /\ L \in SUBSET (1..n) /\ m \in L /\ m \notin K /\ \A i \in K : i \in L
      /\ c \in Nat /\ Cardinality(L) = c + 1 /\ Below(L, m) = c
      /\ \A i \in K : Below(L, i) = Below(K, i)
  BY GreatestIsLast
<1>2. ASSUME NEW k \in 1..c
      PROVE  \E i \in K : Below(K, i) = k - 1 /\ Below(L, i) = k - 1 /\ Nth(K, k) = i /\ Nth(L, k) = i
  <2>1. PICK i \in K : Below(K, i) = k - 1
    BY DEF Listed
  <2>2. Below(L, i) = k - 1 /\ i \in L
    BY <1>1, <2>1
  <2>3. Nth(K, k) = i
    BY <1>1, <2>1, NthIs
  <2>4. Nth(L, k) = i
    BY <1>1, <2>2, NthIs
  <2> QED BY <2>1, <2>2, <2>3, <2>4
<1>3. Nth(L, c + 1) = m
  <2> DEFINE k == c + 1
  <2>1. Below(L, m) = k - 1
    BY <1>1
  <2> HIDE DEF k
  <2>2. Nth(L, k) = m
    BY <1>1, <2>1, NthIs
  <2> QED BY <2>2 DEF k
<1>4. Listed(L)
  <2> SUFFICES ASSUME NEW k \in 1..(c + 1)
               PROVE  \E i \in L : Below(L, i) = k - 1
    BY <1>1 DEF Listed
  <2>1. CASE k \in 1..c
    BY <1>1, <1>2, <2>1
  <2>2. CASE k = c + 1
    BY <1>1, <2>2
  <2>3. k \in 1..c \/ k = c + 1
    BY <1>1
  <2> QED BY <2>1, <2>2, <2>3
<1>5. a \in Seq(S) /\ Len(a) = c /\ \A k \in 1..c : a[k] = s[Nth(K, k)]
  <2>1. \A k \in 1..c : s[Nth(K, k)] \in S
    BY <1>2 DEF AgreeOn
  <2> QED BY <1>1, <2>1 DEF Listing
<1>6. b \in Seq(S) /\ Len(b) = c + 1 /\ \A k \in 1..(c + 1) : b[k] = t[Nth(L, k)]
  <2>1. \A k \in 1..(c + 1) : t[Nth(L, k)] \in S
    <3>1. \A k \in 1..c : t[Nth(L, k)] \in S
      BY <1>2 DEF AgreeOn
    <3>2. \A k \in 1..(c + 1) : k \in 1..c \/ k = c + 1
      BY <1>1
    <3> QED BY <1>3, <3>1, <3>2
  <2>2. b = [k \in 1..(c + 1) |-> t[Nth(L, k)]] /\ c + 1 \in Nat
    BY <1>1 DEF Listing
  <2> HIDE DEF b, c
  <2> QED BY <2>1, <2>2
<1> HIDE DEF a, b
<1>7. Append(a, t[m]) \in Seq(S) /\ Len(Append(a, t[m])) = c + 1
      /\ Append(a, t[m])[c + 1] = t[m] /\ \A k \in 1..c : Append(a, t[m])[k] = a[k]
  BY <1>1, <1>5
<1>8. ASSUME NEW k \in 1..(c + 1)
      PROVE  b[k] = Append(a, t[m])[k]
  <2>1. CASE k \in 1..c
    <3>1. PICK i \in K : Nth(K, k) = i /\ Nth(L, k) = i
      BY <1>2, <2>1
    <3>2. s[i] = t[i] /\ k \in 1..(c + 1)
      BY DEF AgreeOn
    <3> QED BY <1>5, <1>6, <1>7, <2>1, <3>1, <3>2
  <2>2. CASE k = c + 1
    BY <1>3, <1>6, <1>7, <2>2
  <2>3. k \in 1..c \/ k = c + 1
    BY <1>1
  <2> QED BY <2>1, <2>2, <2>3
<1>9. b = Append(a, t[m])
  <2> DEFINE e == Append(a, t[m])
  <2>1. e \in Seq(S) /\ Len(b) = Len(e) /\ \A k \in 1..Len(b) : b[k] = e[k]
    BY <1>6, <1>7, <1>8
  <2> HIDE DEF e
  <2>2. b = e
    BY <1>6, <2>1, SeqEqual
  <2> QED BY <2>2 DEF e
<1> QED BY <1>4, <1>5, <1>9 DEF a, b

\* And without it the last one goes.
LEMMA ListShrinks ==
  ASSUME NEW S, NEW n \in Nat, NEW K, NEW L, NEW m, AddsGreatest(K, L, m, n), Listed(K),
         NEW s, AgreeOn(s, s, K, S)
  PROVE  /\ Listed(L)
         /\ Listing(s, K) # <<>>
         /\ Listing(s, L) = Front(Listing(s, K))
<1> DEFINE c == Cardinality(L)
<1>1. K = L \cup {m}
  BY DEF AddsGreatest
<1>2. /\ c \in Nat /\ Cardinality(K) = c + 1 /\ Below(K, m) = c
      /\ \A i \in L : Below(K, i) = Below(L, i)
  BY GreatestIsLast
<1>3. Listed(L)
  <2> SUFFICES ASSUME NEW k \in 1..c
               PROVE  \E i \in L : Below(L, i) = k - 1
    BY DEF Listed
  <2>1. PICK i \in K : Below(K, i) = k - 1
    BY <1>2 DEF Listed
  <2>2. i # m
    BY <1>2, <2>1
  <2>3. i \in L
    BY <1>1, <2>2
  <2> QED BY <1>2, <2>1, <2>3
<1>4. AgreeOn(s, s, L, S) /\ s[m] \in S
  BY <1>1 DEF AgreeOn
<1>5. Listing(s, L) \in Seq(S) /\ Listing(s, K) = Append(Listing(s, L), s[m])
  <2>1. s[m] \in S /\ Listed(L) /\ AgreeOn(s, s, L, S) /\ AddsGreatest(K, L, m, n) /\ n \in Nat
    BY <1>3, <1>4
  <2> QED BY ONLY <2>1, ListGrows
<1> DEFINE a == Listing(s, L)
           e == s[m]
<1>6. a \in Seq(S) /\ e \in S /\ Listing(s, K) = Append(a, e)
  BY <1>4, <1>5
<1> HIDE DEF a, e
<1>7. Front(Append(a, e)) = a /\ Append(a, e) # <<>>
  <2>1. Front(Append(a, e)) = a
    BY <1>6, FrontLast
  <2>2. Append(a, e) # <<>>
    BY <1>6, AppendProperties
  <2> QED BY <2>1, <2>2
<1> QED BY <1>3, <1>6, <1>7 DEF a

\* Sequences that agree on a set's places are listed alike.
LEMMA ListAlike ==
  ASSUME NEW S, NEW n \in Nat, NEW K \in SUBSET (1..n), Listed(K), NEW s, NEW t, AgreeOn(s, t, K, S)
  PROVE  Listing(t, K) = Listing(s, K) /\ Listing(s, K) \in Seq(S)
<1>0. Cardinality(K) \in Nat
  BY NumbersFinite
<1>1. ASSUME NEW k \in 1..Cardinality(K)
      PROVE  t[Nth(K, k)] = s[Nth(K, k)] /\ s[Nth(K, k)] \in S
  <2>1. PICK i \in K : Below(K, i) = k - 1
    BY DEF Listed
  <2>2. Nth(K, k) = i
    BY <2>1, NthIs
  <2> QED BY <2>2 DEF AgreeOn
<1> QED BY <1>0, <1>1 DEF Listing

\* No numbers list nothing.
LEMMA ListNone == Listed({}) /\ Listing(<<>>, {}) = <<>>
<1>1. Cardinality({}) = 0 /\ 1..0 = {}
  BY FS_EmptySet
<1>2. Listed({})
  BY <1>1 DEF Listed
<1>3. Listing(<<>>, {}) = [k \in {} |-> <<>>[Nth({}, k)]]
  BY <1>1 DEF Listing
<1>4. [k \in {} |-> <<>>[Nth({}, k)]] = <<>>
  OBVIOUS
<1> QED BY <1>2, <1>3, <1>4

\* How many numbers of K are no less than i.
AtLeast(K, i) == Cardinality({j \in K : i <= j})

\* A greater number adds one to the numbers from each of the others on.
LEMMA AtLeastGrows ==
  ASSUME NEW n \in Nat, NEW K, NEW L, NEW m, AddsGreatest(L, K, m, n)
  PROVE  /\ AtLeast(L, m) = 1
         /\ \A i \in K : /\ AtLeast(K, i) \in Nat \ {0}
                         /\ AtLeast(L, i) = AtLeast(K, i) + 1
<1>1. K \in SUBSET (1..n) /\ m \in 1..n /\ (\A i \in K : i < m) /\ L = K \cup {m}
  BY DEF AddsGreatest
<1>2. AtLeast(L, m) = 1
  <2>1. ~ (\E j \in K : m <= j) /\ m <= m
    BY <1>1
  <2>2. {j \in L : m <= j} = {m}
    BY <1>1, <2>1
  <2> QED BY <2>2, FS_Singleton DEF AtLeast
<1>3. ASSUME NEW i \in K
      PROVE  AtLeast(K, i) \in Nat \ {0} /\ AtLeast(L, i) = AtLeast(K, i) + 1
  <2> DEFINE A == {j \in K : i <= j}
             B == {j \in L : i <= j}
  <2>1. i <= i /\ i <= m /\ m \notin K
    BY <1>1
  <2>2. A \in SUBSET (1..n) /\ i \in A /\ B = A \cup {m} /\ m \notin A
    BY <1>1, <2>1
  <2>3. AtLeast(K, i) = Cardinality(A) /\ AtLeast(L, i) = Cardinality(B)
    BY DEF AtLeast
  <2> HIDE DEF A, B
  <2>4. IsFiniteSet(A) /\ Cardinality(A) \in Nat
    BY <2>2, NumbersFinite
  <2>5. Cardinality(A) # 0
    BY <2>2, <2>4, FS_EmptySet
  <2>6. Cardinality(B) = Cardinality(A) + 1
    BY <2>2, <2>4, FS_AddElement
  <2> QED BY <2>3, <2>4, <2>5, <2>6
<1> QED BY <1>2, <1>3

----------------------------------------------------------------------------
(* The segments that stay *)

\* The segment that goes one up.
Up == <<".", ".">>

\* What another segment adds to the names and to the ".." from the i-th segment on.
LEMMA CountsOfAppend ==
  ASSUME NEW P, NEW segs \in Seq(P), NEW seg \in P, NEW i \in 1..(Len(segs) + 1)
  PROVE  LET t == Append(segs, seg)
             n == Len(segs)
         IN
         /\ NamesIn(segs, i, n) \in Nat /\ UpsIn(segs, i, n) \in Nat
         /\ \A j \in i..n : NamesIn(t, i, j) = NamesIn(segs, i, j) /\ UpsIn(t, i, j) = UpsIn(segs, i, j)
         /\ NamesIn(t, i, n + 1) = NamesIn(segs, i, n) + (IF IsName(seg) THEN 1 ELSE 0)
         /\ UpsIn(t, i, n + 1) = UpsIn(segs, i, n) + (IF seg = Up THEN 1 ELSE 0)
<1> DEFINE t == Append(segs, seg)
           n == Len(segs)
<1>1. n \in Nat /\ t[n + 1] = seg /\ \A k \in 1..n : t[k] = segs[k]
  BY LenProperties, AppendProperties
<1> HIDE DEF t, n
<1>2. ASSUME NEW j \in i..n
      PROVE  NamesIn(t, i, j) = NamesIn(segs, i, j) /\ UpsIn(t, i, j) = UpsIn(segs, i, j)
  <2>1. \A k \in i..j : t[k] = segs[k]
    BY <1>1
  <2>2. {k \in i..j : IsName(t[k])} = {k \in i..j : IsName(segs[k])}
    BY <2>1
  <2>3. {k \in i..j : t[k] = Up} = {k \in i..j : segs[k] = Up}
    BY <2>1
  <2> QED BY <2>2, <2>3 DEF NamesIn, UpsIn, Up
<1> DEFINE A == {k \in i..n : IsName(segs[k])}
           B == {k \in i..(n + 1) : IsName(t[k])}
           C == {k \in i..n : segs[k] = Up}
           D == {k \in i..(n + 1) : t[k] = Up}
<1>3. A \in SUBSET (1..n) /\ C \in SUBSET (1..n) /\ n + 1 \notin A /\ n + 1 \notin C
  <2>1. \A k \in i..n : k \in 1..n /\ k # n + 1
    BY <1>1 DEF n
  <2> QED BY <2>1
<1>4. B = IF IsName(seg) THEN A \cup {n + 1} ELSE A
  <2>1. \A k : k \in i..(n + 1) <=> k \in i..n \/ k = n + 1
    BY <1>1 DEF n
  <2>2. \A k \in i..n : t[k] = segs[k] /\ k # n + 1
    BY <1>1
  <2> QED BY <1>1, <2>1, <2>2
<1>5. D = IF seg = Up THEN C \cup {n + 1} ELSE C
  <2>1. \A k : k \in i..(n + 1) <=> k \in i..n \/ k = n + 1
    BY <1>1 DEF n
  <2>2. \A k \in i..n : t[k] = segs[k] /\ k # n + 1
    BY <1>1
  <2> QED BY <1>1, <2>1, <2>2
<1>6. /\ NamesIn(segs, i, n) = Cardinality(A) /\ NamesIn(t, i, n + 1) = Cardinality(B)
      /\ UpsIn(segs, i, n) = Cardinality(C) /\ UpsIn(t, i, n + 1) = Cardinality(D)
  BY DEF NamesIn, UpsIn, Up
<1> HIDE DEF A, B, C, D
<1>7. IsFiniteSet(A) /\ Cardinality(A) \in Nat /\ IsFiniteSet(C) /\ Cardinality(C) \in Nat
  BY <1>1, <1>3, NumbersFinite
<1>8. /\ Cardinality(A \cup {n + 1}) = Cardinality(A) + 1
      /\ Cardinality(C \cup {n + 1}) = Cardinality(C) + 1
  BY <1>3, <1>7, FS_AddElement
<1>9. /\ NamesIn(t, i, n + 1) = NamesIn(segs, i, n) + (IF IsName(seg) THEN 1 ELSE 0)
      /\ UpsIn(t, i, n + 1) = UpsIn(segs, i, n) + (IF seg = Up THEN 1 ELSE 0)
  BY <1>4, <1>5, <1>6, <1>7, <1>8
<1> QED BY <1>2, <1>6, <1>7, <1>9 DEF t, n

\* The segments that are kept are segments with more names than ups from them on.
LEMMA KeptType ==
  ASSUME NEW P, NEW segs \in Seq(P)
  PROVE  /\ Len(segs) \in Nat /\ Kept(segs) \in SUBSET (1..Len(segs))
         /\ \A i \in Kept(segs) : UpsIn(segs, i, Len(segs)) < NamesIn(segs, i, Len(segs))
<1>1. Len(segs) \in Nat /\ DOMAIN segs = 1..Len(segs)
  BY LenProperties
<1>2. Kept(segs) \in SUBSET (1..Len(segs))
  BY <1>1 DEF Kept
<1>3. \A i \in Kept(segs) : Len(segs) \in i..Len(segs)
  BY <1>1, <1>2
<1> QED BY <1>1, <1>2, <1>3 DEF Kept

\* A segment that stays still does if another comes after it, unless that one goes
\* up past it.  The new one stays if it is a name.
LEMMA KeptOfAppend ==
  ASSUME NEW P, NEW segs \in Seq(P), NEW seg \in P, NEW t, t = Append(segs, seg),
         NEW n, n = Len(segs)
  PROVE  /\ \A i \in Kept(t) : i \in Kept(segs) \/ i = n + 1
         /\ \A i \in Kept(segs) : i \in Kept(t) <=> UpsIn(t, i, n + 1) < NamesIn(t, i, n + 1)
         /\ n + 1 \in Kept(t) <=> IsName(seg)
<1>1. /\ n \in Nat /\ t \in Seq(P) /\ DOMAIN t = 1..(n + 1) /\ Len(t) = n + 1
      /\ t[n + 1] = seg /\ \A k \in 1..n : t[k] = segs[k]
  BY LenProperties, AppendProperties
<1>2. DOMAIN segs = 1..n
  BY LenProperties
<1>3. ASSUME NEW i \in 1..n
      PROVE  i \in Kept(t) <=> i \in Kept(segs) /\ UpsIn(t, i, n + 1) < NamesIn(t, i, n + 1)
  <2>1. \A j \in i..n : NamesIn(t, i, j) = NamesIn(segs, i, j) /\ UpsIn(t, i, j) = UpsIn(segs, i, j)
    <3>1. i \in 1..(Len(segs) + 1)
      BY <1>1
    <3> QED BY <3>1, CountsOfAppend
  <2>2. \A j : j \in i..(n + 1) <=> j \in i..n \/ j = n + 1
    BY <1>1
  <2>3. i \in Kept(t) <=> IsName(t[i]) /\ \A j \in i..(n + 1) : UpsIn(t, i, j) < NamesIn(t, i, j)
    BY <1>1 DEF Kept
  <2>4. i \in Kept(segs) <=> IsName(segs[i]) /\ \A j \in i..n : UpsIn(segs, i, j) < NamesIn(segs, i, j)
    BY <1>2 DEF Kept
  <2> QED BY <1>1, <2>1, <2>2, <2>3, <2>4
<1>4. n + 1 \in Kept(t) <=> IsName(seg)
  <2> DEFINE i == n + 1
  <2>1. (n + 1)..(n + 1) = {n + 1} /\ i \in 1..(Len(segs) + 1) /\ (n + 1)..n = {}
    BY <1>1
  <2>2. n + 1 \in Kept(t) <=> IsName(seg) /\ UpsIn(t, n + 1, n + 1) < NamesIn(t, n + 1, n + 1)
    BY <1>1, <2>1 DEF Kept
  <2>3. NamesIn(segs, n + 1, n) = 0 /\ UpsIn(segs, n + 1, n) = 0
    BY <2>1, FS_EmptySet DEF NamesIn, UpsIn
  <2>4. /\ NamesIn(t, n + 1, n + 1) = NamesIn(segs, n + 1, n) + (IF IsName(seg) THEN 1 ELSE 0)
        /\ UpsIn(t, n + 1, n + 1) = UpsIn(segs, n + 1, n) + (IF seg = Up THEN 1 ELSE 0)
    BY <2>1, CountsOfAppend
  <2>5. IsName(seg) => seg # Up
    BY DEF IsName, Up
  <2> QED BY <2>2, <2>3, <2>4, <2>5
<1>5. ASSUME NEW i \in Kept(t)
      PROVE  i \in Kept(segs) \/ i = n + 1
  <2>1. i \in 1..(n + 1)
    BY <1>1 DEF Kept
  <2>2. i \in 1..n \/ i = n + 1
    BY <1>1, <2>1
  <2> QED BY <1>3, <2>2
<1>6. ASSUME NEW i \in Kept(segs)
      PROVE  i \in Kept(t) <=> UpsIn(t, i, n + 1) < NamesIn(t, i, n + 1)
  <2>1. i \in 1..n
    BY <1>2 DEF Kept
  <2> QED BY <1>3, <2>1
<1> QED BY <1>4, <1>5, <1>6

\* From a segment that stays on, the names exceed the ".." by the segments that stay.
Deep(segs) == \A i \in Kept(segs) :
                NamesIn(segs, i, Len(segs)) = UpsIn(segs, i, Len(segs)) + AtLeast(Kept(segs), i)

\* The segments that stay are those that cleaning returns.
Lists(segs) == Listed(Kept(segs)) /\ CleanSegments(segs) = Listing(segs, Kept(segs))

\* A step of the clean-up keeps what the counting of names and ups keeps.
LEMMA LexicalOfKept ==
  ASSUME NEW D, NEW segs \in Seq(Plain(D)), NEW seg \in Plain(D), Deep(segs), Lists(segs)
  PROVE  Deep(Append(segs, seg)) /\ Lists(Append(segs, seg))
<1> DEFINE t == Append(segs, seg)
           n == Len(segs)
           K == Kept(segs)
           L == Kept(t)
<1>1. /\ t \in Seq(Plain(D)) /\ Len(t) = n + 1 /\ t[n + 1] = seg
      /\ \A k \in 1..n : t[k] = segs[k] /\ segs[k] \in Plain(D)
  BY LenProperties, AppendProperties, ElementOfSeq
<1>2. n \in Nat /\ n + 1 \in Nat /\ K \in SUBSET (1..n) /\ K \in SUBSET (1..(n + 1))
  <2>1. n \in Nat /\ K \in SUBSET (1..n)
    BY KeptType
  <2> QED BY <2>1
<1>3. L \in SUBSET (1..(n + 1))
  <2> HIDE DEF t
  <2>1. L \in SUBSET (1..Len(t))
    BY <1>1, KeptType
  <2> QED BY <1>1, <2>1
<1>4. CleanSegments(t) = Lexical(Listing(segs, K), seg)
  BY CleanOfAppend DEF Lists
<1>5. ASSUME NEW i \in K
      PROVE  /\ NamesIn(segs, i, n) \in Nat /\ UpsIn(segs, i, n) \in Nat
             /\ NamesIn(segs, i, n) = UpsIn(segs, i, n) + AtLeast(K, i)
             /\ UpsIn(segs, i, n) < NamesIn(segs, i, n)
             /\ NamesIn(t, i, n + 1) = NamesIn(segs, i, n) + (IF IsName(seg) THEN 1 ELSE 0)
             /\ UpsIn(t, i, n + 1) = UpsIn(segs, i, n) + (IF seg = Up THEN 1 ELSE 0)
  <2>1. i \in 1..(Len(segs) + 1)
    BY <1>2
  <2>2. NamesIn(segs, i, n) = UpsIn(segs, i, n) + AtLeast(K, i)
    BY DEF Deep
  <2>3. UpsIn(segs, i, n) < NamesIn(segs, i, n)
    BY KeptType
  <2> QED BY <2>1, <2>2, <2>3, CountsOfAppend
<1>6. /\ \A i \in L : i \in K \/ i = n + 1
      /\ \A i \in K : i \in L <=> UpsIn(t, i, n + 1) < NamesIn(t, i, n + 1)
      /\ n + 1 \in L <=> IsName(seg)
  BY KeptOfAppend
<1>7. AgreeOn(segs, t, K, Plain(D))
  BY <1>1, <1>2 DEF AgreeOn
<1>8. Listed(K)
  BY DEF Lists
<1>9. Deep(t) <=> \A i \in L : NamesIn(t, i, n + 1) = UpsIn(t, i, n + 1) + AtLeast(L, i)
  BY <1>1 DEF Deep
<1>10. Lists(t) <=> Listed(L) /\ CleanSegments(t) = Listing(t, L)
  BY DEF Lists
<1> SUFFICES Deep(t) /\ Lists(t)
  OBVIOUS
<1> HIDE DEF t, n, K, L
<1>11. CASE seg \in {<<>>, <<".">>}
  <2>1. ~IsName(seg) /\ seg # Up
    BY <1>11 DEF IsName, Up
  <2>2. L = K
    <3>1. ASSUME NEW i \in K
          PROVE  i \in L
      <4>1. UpsIn(t, i, n + 1) = UpsIn(segs, i, n) /\ NamesIn(t, i, n + 1) = NamesIn(segs, i, n)
        BY <1>5, <2>1
      <4>2. UpsIn(t, i, n + 1) < NamesIn(t, i, n + 1)
        BY <1>5, <4>1
      <4> QED BY <1>6, <4>2
    <3> QED BY <1>6, <2>1, <3>1
  <2>3. Listing(t, K) = Listing(segs, K)
    BY <1>2, <1>7, <1>8, ListAlike
  <2>4. Lexical(Listing(segs, K), seg) = Listing(segs, K)
    BY <1>11 DEF Lexical
  <2>5. Deep(t)
    BY <1>5, <1>9, <2>1, <2>2
  <2> QED BY <1>4, <1>8, <1>10, <2>2, <2>3, <2>4, <2>5
<1>12. CASE IsName(seg)
  <2>1. seg # Up /\ seg \notin {<<>>, <<".">>}
    BY <1>12 DEF IsName, Up
  <2>2. L = K \cup {n + 1}
    BY <1>5, <1>6, <1>12, <2>1
  <2>3. AddsGreatest(L, K, n + 1, n + 1)
    <3>1. n + 1 \in 1..(n + 1) /\ \A i \in K : i < n + 1
      BY <1>2
    <3> QED BY <1>2, <2>2, <3>1 DEF AddsGreatest
  <2>4. Listed(L) /\ Listing(t, L) = Append(Listing(segs, K), seg)
    <3>1. t[n + 1] \in Plain(D)
      BY <1>1
    <3>2. Listed(L) /\ Listing(t, L) = Append(Listing(segs, K), t[n + 1])
      BY <1>2, <1>7, <1>8, <2>3, <3>1, ListGrows
    <3> QED BY <1>1, <3>2
  <2>5. Lexical(Listing(segs, K), seg) = Append(Listing(segs, K), seg)
    BY <2>1 DEF Lexical, Up
  <2>6. Deep(t)
    <3>1. AtLeast(L, n + 1) = 1 /\ \A i \in K : AtLeast(K, i) \in Nat \ {0} /\ AtLeast(L, i) = AtLeast(K, i) + 1
      BY <1>2, <2>3, AtLeastGrows
    <3>2. NamesIn(t, n + 1, n + 1) = 1 /\ UpsIn(t, n + 1, n + 1) = 0
      <4>1. (n + 1)..(n + 1) = {n + 1}
        BY <1>2
      <4>2. {k \in (n + 1)..(n + 1) : IsName(t[k])} = {n + 1}
        BY <1>1, <1>12, <4>1
      <4>3. {k \in (n + 1)..(n + 1) : t[k] = Up} = {}
        BY <1>1, <2>1, <4>1
      <4> QED BY <4>2, <4>3, FS_EmptySet, FS_Singleton DEF NamesIn, UpsIn, Up
    <3>3. ASSUME NEW i \in K
          PROVE  NamesIn(t, i, n + 1) = UpsIn(t, i, n + 1) + AtLeast(L, i)
      BY <1>5, <1>12, <2>1, <3>1
    <3>4. NamesIn(t, n + 1, n + 1) = UpsIn(t, n + 1, n + 1) + AtLeast(L, n + 1)
      BY <3>1, <3>2
    <3>5. ASSUME NEW i \in L
          PROVE  NamesIn(t, i, n + 1) = UpsIn(t, i, n + 1) + AtLeast(L, i)
      <4>1. i \in K \/ i = n + 1
        BY <2>2
      <4> QED BY <3>3, <3>4, <4>1
    <3> QED BY <1>9, <3>5
  <2> QED BY <1>4, <1>10, <2>4, <2>5, <2>6
<1>13. CASE seg = Up
  <2>1. ~IsName(seg) /\ seg \notin {<<>>, <<".">>}
    BY <1>13 DEF IsName, Up
  <2>2. Lexical(Listing(segs, K), seg) = Parent(Listing(segs, K))
    BY <1>13, <2>1 DEF Lexical, Up
  <2>3. CASE K = {}
    <3>1. L = {}
      BY <1>6, <2>1, <2>3
    <3>2. Listing(segs, {}) = <<>> /\ Listing(t, {}) = <<>> /\ Listed({})
      BY FS_EmptySet, ListNone DEF Listing
    <3>3. Parent(<<>>) = <<>>
      BY DEF Parent
    <3> QED BY <1>4, <1>9, <1>10, <2>2, <2>3, <3>1, <3>2, <3>3
  <2>4. CASE K # {}
    <3>1. PICK m \in K : \A k \in K : m >= k
      BY <1>2, <2>4, GreatestNumber
    <3> DEFINE J == K \ {m}
    <3>2. AddsGreatest(K, J, m, n) /\ K = J \cup {m} /\ m \notin J /\ J \in SUBSET (1..n)
      <4>1. m \in 1..n /\ \A i \in J : i < m
        BY <1>2, <3>1
      <4> QED BY <1>2, <4>1 DEF AddsGreatest
    <3> HIDE DEF J
    <3>3. AtLeast(K, m) = 1 /\ \A i \in J : AtLeast(J, i) \in Nat \ {0} /\ AtLeast(K, i) = AtLeast(J, i) + 1
      <4>1. n \in Nat /\ AddsGreatest(K, J, m, n)
        BY <1>2, <3>2
      <4> QED BY ONLY <4>1, AtLeastGrows
    <3>4. L = J
      <4>1. m \notin L
        <5>1. UpsIn(t, m, n + 1) = UpsIn(segs, m, n) + 1 /\ NamesIn(t, m, n + 1) = NamesIn(segs, m, n)
          BY <1>5, <1>13, <2>1
        <5>2. NamesIn(segs, m, n) = UpsIn(segs, m, n) + 1 /\ UpsIn(segs, m, n) \in Nat
          BY <1>5, <3>3
        <5>3. ~ (UpsIn(t, m, n + 1) < NamesIn(t, m, n + 1))
          BY <5>1, <5>2
        <5> QED BY <1>6, <5>3
      <4>2. ASSUME NEW i \in J
            PROVE  i \in L
        <5>1. i \in K
          BY <3>2
        <5> QED BY <1>5, <1>6, <1>13, <2>1, <3>3, <5>1
      <4> QED BY <1>6, <2>1, <3>2, <4>1, <4>2
    <3>5. AgreeOn(segs, segs, K, Plain(D)) /\ AgreeOn(segs, t, J, Plain(D))
      BY <1>7, <3>2 DEF AgreeOn
    <3>6. Listed(J) /\ Listing(segs, K) # <<>> /\ Listing(segs, J) = Front(Listing(segs, K))
      BY <1>2, <1>8, <3>2, <3>5, ListShrinks
    <3>7. Listing(t, J) = Listing(segs, J)
      <4>1. n \in Nat /\ J \in SUBSET (1..n) /\ Listed(J) /\ AgreeOn(segs, t, J, Plain(D))
        BY <1>2, <3>2, <3>5, <3>6
      <4> QED BY ONLY <4>1, ListAlike
    <3>8. Parent(Listing(segs, K)) = Front(Listing(segs, K))
      BY <3>6 DEF Parent
    <3>9. Deep(t)
      <4>1. ASSUME NEW i \in J
            PROVE  NamesIn(t, i, n + 1) = UpsIn(t, i, n + 1) + AtLeast(J, i)
        <5>1. i \in K
          BY <3>2
        <5> QED BY <1>5, <1>13, <2>1, <3>3, <5>1
      <4> QED BY <1>9, <3>4, <4>1
    <3> QED BY <1>4, <1>10, <2>2, <3>4, <3>6, <3>7, <3>8, <3>9
  <2> QED BY <2>3, <2>4
<1> QED BY <1>11, <1>12, <1>13 DEF IsName, Up

\* Cleaning by a stack returns the segments that the counting lets stay.
LEMMA CleanIsRemaining ==
  ASSUME NEW D, NEW segs \in Seq(Plain(D))
  PROVE  CleanSegments(segs) = Remaining(segs)
<1> DEFINE T == {t \in Seq(Plain(D)) : Deep(t) /\ Lists(t)}
<1>1. <<>> \in T
  <2>1. Kept(<<>>) = {} /\ <<>> \in Seq(Plain(D))
    BY EmptySeq DEF Kept
  <2>2. Deep(<<>>)
    BY <2>1 DEF Deep
  <2>3. Lists(<<>>)
    BY <2>1, ListNone, CleanOfEmpty DEF Lists
  <2> QED BY <2>1, <2>2, <2>3
<1>2. \A t \in Seq(Plain(D)) : \A seg \in Plain(D) : t \in T => Append(t, seg) \in T
  BY LexicalOfKept, AppendProperties
<1>3. Seq(Plain(D)) \subseteq T
  <2> HIDE DEF T
  <2> QED BY <1>1, <1>2, SequenceInduction
<1>4. CleanSegments(segs) = Listing(segs, Kept(segs))
  BY <1>3 DEF Lists
<1> QED BY <1>4 DEF Listing, Remaining, Nth, Below

\* A text ends in a slash if and only if its last segment is empty.
LEMMA SlashAtEnd ==
  ASSUME NEW D, NEW s \in Seq(D), s # <<>>
  PROVE  Last(s) = "/" <=> Last(Segments(s)) = <<>>
<1>1. PICK t \in Seq(D), c \in D : s = Append(t, c)
  BY SequenceEmptyOrAppend
<1> DEFINE segs == Segments(t)
<1>2. segs \in Seq(Plain(D)) /\ segs # <<>>
  BY SegmentsType DEF Split
<1>3. Segments(s) = AddChar(segs, c) /\ Last(s) = c
  BY <1>1, SegmentsOfAppend, FrontLast
<1> HIDE DEF segs
<1>4. CASE c = "/"
  <2> DEFINE e == <<>>
  <2>1. e \in Plain(D)
    BY EmptySeq DEF Plain
  <2>2. Segments(s) = Append(segs, e)
    BY <1>3, <1>4 DEF AddChar
  <2> HIDE DEF e
  <2>3. Front(Append(segs, e)) = segs /\ Last(Append(segs, e)) = e
    BY <1>2, <2>1, FrontLast
  <2> QED BY <1>3, <1>4, <2>2, <2>3 DEF e
<1>5. CASE c # "/"
  <2> DEFINE F == Front(segs)
             L == Last(segs)
             e == Append(L, c)
  <2>1. F \in Seq(Plain(D)) /\ L \in Plain(D)
    BY <1>2, FrontLast
  <2> HIDE DEF F, L
  <2>2. e \in Plain(D) /\ e # <<>>
    BY <1>5, <2>1, AppendProperties DEF Plain
  <2> DEFINE P == Plain(D)
  <2> HIDE DEF e
  <2>3. Front(Append(F, e)) = F /\ Last(Append(F, e)) = e
    <3>1. F \in Seq(P) /\ e \in P
      BY <2>1, <2>2
    <3> HIDE DEF P
    <3> QED BY ONLY <3>1, FrontLast
  <2>4. Segments(s) = Append(F, e)
    BY <1>3, <1>5 DEF AddChar, F, L, e
  <2> QED BY <1>3, <1>5, <2>2, <2>3, <2>4
<1> QED BY <1>4, <1>5

\* The segments of a cleaned path.
LEMMA SegmentsOfClean ==
  ASSUME NEW D, "/" \in D, NEW s \in Seq(D), s # <<>>
  PROVE  LET segs  == Segments(s)
             names == CleanSegments(segs)
             end   == IF Last(segs) = <<>> \/ names = <<>> THEN <<<<>>>> ELSE <<>>
         IN  Segments(CleanKeepingSlash(s)) = <<<<>>>> \o names \o end
<1> DEFINE segs == Segments(s)
           names == CleanSegments(segs)
           end == IF Last(segs) = <<>> \/ names = <<>> THEN <<<<>>>> ELSE <<>>
           J == Join(names)
           q == <<<<>>>> \o names
<1>1. names \in Seq(Names(D)) /\ names \in Seq(Plain(D))
  <2>1. names \in Seq(Names(D))
    BY SegmentsType, CleanType DEF Split
  <2> HIDE DEF names
  <2> QED BY <2>1, SeqMonotonic DEF Names
<1>2. Clean(s) = IF names = <<>> THEN <<"/">> ELSE J
  BY DEF Clean
<1>3. Last(s) = "/" <=> Last(segs) = <<>>
  BY SlashAtEnd
<1>4. <<>> \in Plain(D) /\ <<<<>>>> \in Seq(Plain(D))
  BY EmptySeq DEF Plain
<1> HIDE DEF segs, names
<1>5. q \in Seq(Plain(D)) /\ q \o <<>> = q /\ Append(q, <<>>) = q \o <<<<>>>>
  <2>1. q \in Seq(Plain(D))
    BY <1>1, <1>4, ConcatProperties
  <2> HIDE DEF q
  <2> QED BY <1>4, <2>1, ConcatEmptySeq, AppendIsConcat
<1>6. CASE names = <<>>
  <2>1. CleanKeepingSlash(s) = <<"/">>
    BY <1>2, <1>6 DEF CleanKeepingSlash
  <2>2. Segments(<<"/">>) = Append(<<<<>>>>, <<>>)
    <3>1. <<"/">> = Append(<<>>, "/") /\ <<>> \in Seq(D)
      BY EmptySeq
    <3> QED BY <3>1, SegmentsOfEmpty, SegmentsOfAppend DEF AddChar
  <2>3. q = <<<<>>>>
    BY <1>4, <1>6, ConcatEmptySeq
  <2>4. end = <<<<>>>>
    BY <1>6
  <2>5. Segments(CleanKeepingSlash(s)) = q \o <<<<>>>>
    BY <1>5, <2>1, <2>2, <2>3
  <2> QED BY <2>4, <2>5 DEF segs, names
<1>7. CASE names # <<>>
  <2>1. J \in Seq(D) /\ Len(J) >= 2 /\ Segments(J) = q
    BY <1>1, <1>7, JoinShape, SegmentsOfJoin
  <2>2. Clean(s) = J
    BY <1>2, <1>7
  <2> HIDE DEF J, q
  <2>3. J # <<"/">>
    <3> SUFFICES ASSUME J = <<"/">>
                 PROVE  FALSE
      OBVIOUS
    <3>1. Len(J) = Len(<<"/">>) /\ Len(<<"/">>) = 1
      OBVIOUS
    <3>2. Len(J) = 1
      BY Zenon, <3>1
    <3> QED BY <2>1, <3>2
  <2>4. CASE Last(s) = "/"
    <3>1. CleanKeepingSlash(s) = Append(J, "/")
      BY <2>2, <2>3, <2>4 DEF CleanKeepingSlash
    <3>2. Segments(Append(J, "/")) = Append(q, <<>>)
      BY <2>1, SegmentsOfAppend DEF AddChar
    <3>3. end = <<<<>>>>
      BY <1>3, <2>4
    <3> QED BY <1>5, <3>1, <3>2, <3>3 DEF q, segs, names
  <2>5. CASE Last(s) # "/"
    <3>1. CleanKeepingSlash(s) = J
      BY <2>2, <2>5 DEF CleanKeepingSlash
    <3>2. end = <<>>
      BY <1>3, <1>7, <2>5
    <3> QED BY <1>5, <2>1, <3>1, <3>2 DEF q, segs, names
  <2> QED BY <2>4, <2>5
<1> QED BY <1>6, <1>7 DEF segs, names

----------------------------------------------------------------------------
(* The redirect of a login *)

\* localPath leaves what it returned as it is.
LEMMA LocalPathTwice ==
  ASSUME NEW s \in Seq(Char)
  PROVE  localPath(localPath(s)) = localPath(s) /\ localPath(s) \in Seq(Char)
<1>1. CASE localPath(s) = <<>>
  <2>1. <<>> \in Seq(Char) /\ ~Rooted(<<>>)
    BY EmptySeq, RootedText
  <2>2. localPath(<<>>) = <<>>
    BY <2>1 DEF localPath
  <2> QED BY <1>1, <2>1, <2>2
<1>2. CASE localPath(s) # <<>>
  <2>1. localPath(s) \in Seq(Safe) /\ localPath(localPath(s)) = localPath(s)
    BY <1>2, LocalPathMakes, UrlIsLocal
  <2> QED BY <2>1, SeqMonotonic DEF Safe
<1> QED BY <1>1, <1>2

\* Where the form's redirect goes, in the end.
Location(s) == RedirectTo(IF localPath(s) = <<>> THEN <<"/">> ELSE localPath(s))

\* At every stage the redirect is what the form's becomes by then: the passes
\* of localPath after the first make no difference.
RedirectInv ==
  /\ at \in {"form", "session", "popped", "location"}
  /\ form \in Seq(Char)
  /\ at = "form" => redirect = form
  /\ at \in {"session", "popped"} => redirect = localPath(form)
  /\ at = "location" => redirect = Location(form)

\* A login form has not been through LocalPath.
LEMMA RedirectInit == Init => RedirectInv
<1> SUFFICES ASSUME Init
             PROVE  RedirectInv
  OBVIOUS
<1>1. PICK n \in 0..MaxLength : form \in [1..n -> Alphabet]
  BY DEF Init
<1>2. form \in Seq(Char)
  BY <1>1, LocalPathAssumption
<1> QED BY <1>2 DEF Init, RedirectInv

\* Each step of a redirect keeps the invariant.
LEMMA RedirectStep == RedirectInv /\ [Next]_vars => RedirectInv'
<1> SUFFICES ASSUME RedirectInv, [Next]_vars
             PROVE  RedirectInv'
  OBVIOUS
<1>1. CASE Post
  BY <1>1 DEF RedirectInv, Post
<1>2. CASE Pop
  BY <1>2, LocalPathTwice DEF RedirectInv, Pop
<1>3. CASE Redirect
  BY <1>3 DEF RedirectInv, Redirect, Location
<1>4. CASE UNCHANGED vars
  BY <1>4 DEF RedirectInv, vars
<1> QED BY <1>1, <1>2, <1>3, <1>4 DEF Next

\* At every stage of a login its redirect is what localPath made of the form's.
THEOREM RedirectIsLocalPath == Spec => []RedirectInv
BY RedirectInit, RedirectStep, PTL DEF Spec

\* Wherever a form of any length asks to end, the Location of the answer is a
\* path on this site, after one slash and no more (localPath, http.Redirect).
THEOREM LocationStaysLocal == Spec => []LocationIsLocal
<1>1. RedirectInv => LocationIsLocal
  <2> SUFFICES ASSUME RedirectInv, at = "location"
               PROVE  Rooted(redirect) /\ ~IsPrefix(<<"/", "/">>, redirect) /\ ~unsafeInPath(redirect)
    BY DEF LocationIsLocal
  <2> DEFINE u == IF localPath(form) = <<>> THEN <<"/">> ELSE localPath(form)
  <2>1. u \in Seq(Safe) /\ SingleRoot(u)
    <3>1. CASE localPath(form) = <<>>
      <4>1. "/" \in Safe
        BY Characters DEF Safe, Char
      <4>2. <<"/">> \in Seq(Safe) /\ SingleRoot(<<"/">>)
        BY <4>1 DEF SingleRoot
      <4> QED BY <3>1, <4>2
    <3>2. CASE localPath(form) # <<>>
      <4>1. localPath(form) \in Seq(Safe) /\ SingleRoot(localPath(form))
        BY <3>2, LocalPathMakes, UrlIsLocal DEF RedirectInv
      <4> QED BY <3>2, <4>1
    <3> QED BY <3>1, <3>2
  <2>2. redirect = RedirectTo(u)
    BY DEF RedirectInv, Location
  <2> HIDE DEF u
  <2>3. redirect \in Seq(Safe) /\ SingleRoot(redirect)
    BY <2>1, <2>2, RedirectToLocal
  <2>4. ~IsPrefix(<<"/", "/">>, redirect)
    BY <2>3, TwoSlashes DEF SingleRoot
  <2> QED BY <2>3, <2>4, SingleRootNoHost, SafeText
<1> QED BY <1>1, RedirectIsLocalPath, PTL

\* The callback's pass over the redirect changes nothing, whatever the form held.
THEOREM SecondPassIsIdle == Spec => SecondPassKeeps
<1>1. RedirectInv /\ [Next]_vars => [Pop => redirect' = redirect]_vars
  BY LocalPathTwice DEF RedirectInv, Pop
<1> QED BY <1>1, RedirectIsLocalPath, PTL DEF Spec, SecondPassKeeps

\* The URL of a form without a fragment.
LEMMA WithoutFragment ==
  ASSUME NEW s \in Seq(Char), localPath(s) # <<>>, Fragment(s) = <<>>
  PROVE  IsUrl(localPath(s), CleanKeepingSlash(Decode(BeforeQuery(s))), Query(s), <<>>)
<1>1. FragmentString(<<>>) = <<>>
  BY DEF FragmentString
<1> QED BY <1>1, LocalPathMakes

\* http.Redirect leaves a checked redirect without a fragment as it is.
THEOREM CheckedStaysRedirected == Spec => CheckedIsRedirected
<1>1. RedirectInv /\ [Next]_vars =>
        [Redirect /\ redirect # <<>> /\ Fragment(form) = <<>> => redirect' = redirect]_vars
  <2> SUFFICES ASSUME RedirectInv, Redirect, redirect # <<>>, Fragment(form) = <<>>
               PROVE  redirect' = redirect
    OBVIOUS
  <2>1. form \in Seq(Char) /\ redirect = localPath(form) /\ redirect' = RedirectTo(redirect)
    BY DEF RedirectInv, Redirect
  <2>2. IsUrl(redirect, CleanKeepingSlash(Decode(BeforeQuery(form))), Query(form), <<>>)
    BY <2>1, WithoutFragment
  <2> QED BY <2>1, <2>2, RedirectToUrl
<1> QED BY <1>1, RedirectIsLocalPath, PTL DEF Spec, CheckedIsRedirected

\* The query of a form without a fragment is that of the Location.
THEOREM QueryStays == Spec => []QueryIsKept
<1>1. RedirectInv => QueryIsKept
  <2> SUFFICES ASSUME RedirectInv, at = "location", localPath(form) # <<>>, Fragment(form) = <<>>
               PROVE  Query(redirect) = Query(form)
    BY DEF QueryIsKept
  <2>1. form \in Seq(Char) /\ redirect = RedirectTo(localPath(form))
    BY DEF RedirectInv, Location
  <2>2. IsUrl(localPath(form), CleanKeepingSlash(Decode(BeforeQuery(form))), Query(form), <<>>)
    BY <2>1, WithoutFragment
  <2>3. redirect = localPath(form)
    BY <2>1, <2>2, RedirectToUrl
  <2> QED BY <2>2, <2>3, UrlIsLocal
<1> QED BY <1>1, RedirectIsLocalPath, PTL

\* The path of the redirect has the segments of the form's that no later run of
\* segments goes up past, and no others.
THEOREM CleanStaysLexical == Spec => []CleanIsLexical
<1>1. RedirectInv => CleanIsLexical
  <2> SUFFICES ASSUME RedirectInv, at = "session", redirect # <<>>
               PROVE  LET segs == Segments(Decode(BeforeQuery(form)))
                          end  == IF Last(segs) = <<>> \/ Remaining(segs) = <<>> THEN <<<<>>>> ELSE <<>>
                      IN  Segments(Decode(BeforeQuery(redirect))) = <<<<>>>> \o Remaining(segs) \o end
    BY DEF CleanIsLexical
  <2> DEFINE path == Decode(BeforeQuery(form))
             segs == Segments(path)
  <2>1. form \in Seq(Char) /\ redirect = localPath(form)
    BY DEF RedirectInv
  <2>2. /\ IsUrl(redirect, CleanKeepingSlash(path), Query(form), FragmentString(Fragment(form)))
        /\ path \in Seq(PathText) /\ path # <<>>
    BY <2>1, LocalPathMakes
  <2>3. Decode(BeforeQuery(redirect)) = CleanKeepingSlash(path)
    BY <2>2, UrlIsLocal
  <2> HIDE DEF path
  <2>4. "/" \in PathText
    BY Characters DEF PathText, Literal
  <2>5. segs \in Seq(Plain(PathText))
    BY <2>2, SegmentsType DEF Split
  <2>6. CleanSegments(segs) = Remaining(segs)
    <3> HIDE DEF segs
    <3> QED BY <2>5, CleanIsRemaining
  <2>7. LET end == IF Last(segs) = <<>> \/ CleanSegments(segs) = <<>> THEN <<<<>>>> ELSE <<>>
        IN  Segments(CleanKeepingSlash(path)) = <<<<>>>> \o CleanSegments(segs) \o end
    BY <2>2, <2>4, SegmentsOfClean
  <2> QED BY Zenon, <2>3, <2>6, <2>7 DEF path
<1> QED BY <1>1, RedirectIsLocalPath, PTL
============================================================================
