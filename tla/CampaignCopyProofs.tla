-------------------------- MODULE CampaignCopyProofs --------------------------
(***************************************************************************)
(* What holds of every copy that is stored or refused, for any answer of   *)
(* the model, any input, any lists of terms and claims and any length.     *)
(*                                                                         *)
(* The repairs are folds over lists.  A fold is the last of a row of       *)
(* values, one for each beginning of the list; what holds of the first and *)
(* is handed on holds of all (UpTo).  Each repair has a lemma that says    *)
(* what it returns, and the three invariants follow from those.            *)
(***************************************************************************)
EXTENDS CampaignCopy, FiniteSetTheorems, WellFoundedInduction, SequenceTheorems, TLAPS

------------------------------------------------------------------------------
(* Rows of values *)

\* What holds of 0 and is handed on holds up to n: if not, the intervals up to the
\* numbers it fails for have one that contains no smaller one.
LEMMA UpTo ==
  ASSUME NEW n \in Nat, NEW P, 0 \in P,
         \A k \in 1..n : k - 1 \in P => k \in P
  PROVE  0..n \subseteq P
<1> SUFFICES ASSUME (0..n) \ P # {} PROVE FALSE
  OBVIOUS
<1> DEFINE Bad == (0..n) \ P
           T == {1..k : k \in Bad}
           R == StrictSubsetOrdering(Nat)
<1>1. IsWellFoundedOn(R, FiniteSubsetsOf(Nat))
  BY FS_StrictSubsetOrderingWellFounded
<1>2. T \subseteq FiniteSubsetsOf(Nat)
  <2>1. ASSUME NEW k \in Bad PROVE 1..k \in FiniteSubsetsOf(Nat)
    <3>1. IsFiniteSet(1..k)  BY FS_Interval
    <3>2. 1..k \subseteq Nat  OBVIOUS
    <3> QED BY <3>1, <3>2 DEF FiniteSubsetsOf
  <2> QED BY <2>1
<1>3. PICK x \in T : \A y \in T : ~ (<<y, x>> \in R)
  <2>1. T # {}
    <3> HIDE DEF T
    <3>1. PICK k \in Bad : TRUE  OBVIOUS
    <3>2. 1..k \in T  BY DEF T
    <3> QED BY <3>2
  <2> HIDE DEF T, R
  <2> QED BY <1>1, <1>2, <2>1, WFMin
<1>4. PICK k \in Bad : x = 1..k
  OBVIOUS
<1>5. k \in 1..n /\ k - 1 \in 0..n
  OBVIOUS
<1>6. k - 1 \in Bad
  BY <1>5
<1>7. <<1..(k - 1), 1..k>> \in R
  <2>1. 1..(k - 1) \subseteq 1..k /\ k \in 1..k /\ k \notin 1..(k - 1)
    BY <1>5
  <2>2. 1..(k - 1) \in SUBSET Nat /\ 1..k \in SUBSET Nat
    OBVIOUS
  <2> QED BY <2>1, <2>2 DEF StrictSubsetOrdering
<1>8. 1..(k - 1) \in T
  BY <1>6
<1> QED BY <1>3, <1>4, <1>7, <1>8

LEMMA MaxOf ==
  ASSUME NEW n \in Nat, NEW S \in SUBSET (1..n), S # {}
  PROVE  Max(S) \in S /\ \A m \in S : m <= Max(S)
\* The least k that nothing in S exceeds is in S.
<1> DEFINE Above(k) == \A m \in S : m <= k
           P == {k \in 0..n : ~Above(k)}
<1>1. 0 \in P
  <2>1. PICK m \in S : TRUE
    OBVIOUS
  <2>2. ~Above(0)
    BY <2>1
  <2> QED BY <2>2
<1>2. n \notin P
  OBVIOUS
<1>3. PICK k \in 1..n : k - 1 \in P /\ k \notin P
  <2> HIDE DEF P
  <2>1. n \in 0..n
    OBVIOUS
  <2> QED BY <1>1, <1>2, <2>1, UpTo
<1>4. Above(k) /\ ~Above(k - 1)
  BY <1>3
<1>5. k \in S
  BY <1>4
<1>6. \E x \in S : \A y \in S : x >= y
  BY <1>4, <1>5
<1>7. Max(S) \in S /\ \A y \in S : Max(S) >= y
  BY <1>6 DEF Max
<1> QED BY <1>7

LEMMA MaxOfInterval ==
  ASSUME NEW k \in Nat, k # 0
  PROVE  Max(1..k) = k /\ (1..k) \ {k} = 1..(k - 1) /\ 1..k # {}
<1>1. 1..k # {} /\ k \in 1..k
  OBVIOUS
<1>2. Max(1..k) \in 1..k /\ k <= Max(1..k)
  BY <1>1, MaxOf
<1> QED BY <1>1, <1>2

Folds(f, n, W, base, step) ==
    /\ f \in [SUBSET (1..n) -> W]
    /\ \A s \in SUBSET (1..n) :
          f[s] = IF s = {} THEN base ELSE step[<<f[s \ {Max(s)}], Max(s)>>]

\* The function that FoldLeft takes the value of exists, whatever a step is.
LEMMA FoldExists ==
  ASSUME NEW n \in Nat, NEW W, NEW base \in W, NEW step \in [W \X (1..n) -> W]
  PROVE  \E f : Folds(f, n, W, base, step)
<1> DEFINE Upto(k, f) ==
              \A s \in SUBSET (1..k) :
                 f[s] = IF s = {} THEN base ELSE step[<<f[s \ {Max(s)}], Max(s)>>]
           P == {k \in 0..n : \E f \in [SUBSET (1..k) -> W] : Upto(k, f)}
<1>1. 0 \in P
  <2> DEFINE f == [s \in SUBSET (1..0) |-> base]
  <2>1. SUBSET (1..0) = {{}}
    OBVIOUS
  <2>2. f \in [SUBSET (1..0) -> W] /\ Upto(0, f)
    BY <2>1
  <2>3. \E h \in [SUBSET (1..0) -> W] : Upto(0, h)
    <3> HIDE DEF f, Upto
    <3> QED BY <2>2
  <2>4. 0 \in 0..n
    OBVIOUS
  <2> HIDE DEF Upto
  <2> QED BY <2>3, <2>4
<1>2. ASSUME NEW k \in 1..n, k - 1 \in P PROVE k \in P
  <2>1. PICK g \in [SUBSET (1..(k - 1)) -> W] : Upto(k - 1, g)
    BY <1>2
  <2> DEFINE f == [s \in SUBSET (1..k) |->
                     IF k \in s THEN step[<<g[s \ {k}], k>>] ELSE g[s]]
  <2>2. ASSUME NEW s \in SUBSET (1..k), k \in s
        PROVE  s \ {k} \in SUBSET (1..(k - 1)) /\ Max(s) = k
    <3>1. s # {} /\ k \in Nat
      BY <2>2
    <3>2. Max(s) \in s /\ k <= Max(s)
      BY <2>2, <3>1, MaxOf
    <3>3. Max(s) \in 1..k
      BY <3>2
    <3>4. Max(s) = k
      BY <3>2, <3>3
    <3>5. s \ {k} \in SUBSET (1..(k - 1))
      OBVIOUS
    <3> QED BY <3>4, <3>5
  <2>3. ASSUME NEW s \in SUBSET (1..k), k \notin s
        PROVE  s \in SUBSET (1..(k - 1))
    BY <2>3
  <2>4. f \in [SUBSET (1..k) -> W]
    <3>1. ASSUME NEW s \in SUBSET (1..k)
          PROVE  (IF k \in s THEN step[<<g[s \ {k}], k>>] ELSE g[s]) \in W
      BY <2>1, <2>2, <2>3
    <3> QED BY <3>1
  <2>5. Upto(k, f)
    <3> SUFFICES ASSUME NEW s \in SUBSET (1..k)
                 PROVE  f[s] = IF s = {} THEN base
                               ELSE step[<<f[s \ {Max(s)}], Max(s)>>]
      OBVIOUS
    <3>1. CASE k \in s
      <4>1. s \ {k} \in SUBSET (1..k) /\ k \notin s \ {k}
        OBVIOUS
      <4>2. f[s \ {k}] = g[s \ {k}]
        BY <4>1
      <4>3. f[s] = step[<<g[s \ {k}], k>>] /\ s # {}
        BY <3>1
      <4> HIDE DEF f
      <4> QED BY <2>2, <3>1, <4>2, <4>3
    <3>2. CASE k \notin s
      <4>1. s \in SUBSET (1..(k - 1))
        BY <2>3, <3>2
      <4>2. f[s] = g[s]
        BY <3>2
      <4>3. CASE s # {}
        <5>1. s \ {Max(s)} \in SUBSET (1..k) /\ k \notin s \ {Max(s)}
          BY <3>2
        <5>2. f[s \ {Max(s)}] = g[s \ {Max(s)}]
          BY <5>1
        <5> HIDE DEF f
        <5> QED BY <2>1, <4>1, <4>2, <4>3, <5>2
      <4>4. CASE s = {}
        <5> HIDE DEF f
        <5> QED BY <2>1, <4>1, <4>2, <4>4
      <4> QED BY <4>3, <4>4
    <3> QED BY <3>1, <3>2
  <2>6. \E h \in [SUBSET (1..k) -> W] : Upto(k, h)
    <3> HIDE DEF f, Upto
    <3> QED BY <2>4, <2>5
  <2>7. k \in 0..n
    OBVIOUS
  <2> HIDE DEF Upto
  <2> QED BY <2>6, <2>7
<1>3. n \in P
  <2> HIDE DEF P
  <2> QED BY <1>1, <1>2, UpTo
<1>4. PICK f \in [SUBSET (1..n) -> W] : Upto(n, f)
  BY <1>3
<1>5. Folds(f, n, W, base, step)
  BY <1>4 DEF Folds
<1> QED BY <1>5

------------------------------------------------------------------------------
(* The folds, each as a row of values *)

Picked(u, x, kept) == IF x \in kept THEN Append(u, x) ELSE u

LEMMA OnlyRow ==
  ASSUME NEW V, NEW list \in Seq(V), NEW kept
  PROVE  \E h \in [0..Len(list) -> Seq(V)] :
            /\ h[0] = <<>>
            /\ \A k \in 1..Len(list) : h[k] = Picked(h[k - 1], list[k], kept)
            /\ Only(list, kept) = h[Len(list)]
<1> DEFINE n == Len(list)
           E(f) == f = [s \in SUBSET (1..n) |->
                          IF s = {} THEN <<>>
                          ELSE (IF list[Max(s)] \in kept THEN Append(f[s \ {Max(s)}], list[Max(s)]) ELSE f[s \ {Max(s)}])]
           step == [p \in Seq(V) \X (1..n) |-> (IF list[p[2]] \in kept THEN Append(p[1], list[p[2]]) ELSE p[1])]
           g == CHOOSE f : E(f)
           h == [k \in 0..n |-> g[1..k]]
<1>1. n \in Nat /\ DOMAIN list = 1..n
  BY LenProperties
<1>2. <<>> \in Seq(V)
  BY EmptySeq
<1>3. ASSUME NEW u \in Seq(V), NEW k \in 1..n PROVE (IF list[k] \in kept THEN Append(u, list[k]) ELSE u) \in Seq(V)
  BY LenProperties, ElementOfSeq, AppendProperties
<1>4. \E f : E(f)
  <2>1. step \in [Seq(V) \X (1..n) -> Seq(V)]
    <3>1. ASSUME NEW p \in Seq(V) \X (1..n) PROVE (IF list[p[2]] \in kept THEN Append(p[1], list[p[2]]) ELSE p[1]) \in Seq(V)
      <4>1. p[1] \in Seq(V) /\ p[2] \in 1..n
        OBVIOUS
      <4> QED BY <1>3, <4>1
    <3> QED BY <3>1
  <2>2. PICK f : Folds(f, n, Seq(V), <<>>, step)
    <3> HIDE DEF step, n, E, g, h
    <3> QED BY <1>1, <1>2, <2>1, FoldExists
  <2>3. ASSUME NEW s \in SUBSET (1..n), s # {}
        PROVE  f[s] = (IF list[Max(s)] \in kept THEN Append(f[s \ {Max(s)}], list[Max(s)]) ELSE f[s \ {Max(s)}])
    <3>1. Max(s) \in 1..n /\ s \ {Max(s)} \in SUBSET (1..n)
      BY <1>1, <2>3, MaxOf
    <3>2. <<f[s \ {Max(s)}], Max(s)>> \in Seq(V) \X (1..n)
      BY <2>2, <3>1 DEF Folds
    <3> HIDE DEF n
    <3>3. f[s] = step[<<f[s \ {Max(s)}], Max(s)>>]
      <4> HIDE DEF step
      <4> QED BY <2>2, <2>3 DEF Folds
    <3> QED BY <3>2, <3>3
  <2>4. E(f)
    <3> HIDE DEF step, n
    <3>1. f[{}] = <<>> /\ f \in [SUBSET (1..n) -> Seq(V)]
      BY <2>2 DEF Folds
    <3> QED BY <2>3, <3>1
  <2> QED BY <2>4
<1>5. E(g)
  <2> HIDE DEF E
  <2> QED BY <1>4
<1>6. Only(list, kept) = g[1..n]
  BY <1>1 DEF Only, FoldLeft, MapThenFoldSet
<1> HIDE DEF g, n
<1>7. h[0] = <<>>
  BY <1>1, <1>5
<1>8. ASSUME NEW k \in 1..n PROVE h[k] = (IF list[k] \in kept THEN Append(h[k - 1], list[k]) ELSE h[k - 1])
  <2>1. Max(1..k) = k /\ (1..k) \ {k} = 1..(k - 1) /\ 1..k # {}
    BY MaxOfInterval
  <2>2. 1..k \in SUBSET (1..n) /\ k - 1 \in 0..n /\ k \in 0..n
    BY <1>1
  <2> QED BY <1>5, <2>1, <2>2
<1>9. h \in [0..n -> Seq(V)]
  <2> DEFINE P == {k \in 0..n : h[k] \in Seq(V)}
  <2> HIDE DEF h
  <2>1. \A k \in 0..n : k \in P <=> h[k] \in Seq(V)
    OBVIOUS
  <2> HIDE DEF P
  <2>2. 0 \in P
    <3>1. 0 \in 0..n
      BY <1>1
    <3>2. h[0] \in Seq(V)
      BY <1>2, <1>7
    <3> QED BY <2>1, <3>1, <3>2
  <2>3. ASSUME NEW k \in 1..n, k - 1 \in P PROVE k \in P
    <3>1. k \in 0..n /\ k - 1 \in 0..n
      BY <1>1
    <3>2. h[k - 1] \in Seq(V)
      BY <2>1, <2>3, <3>1
    <3>3. h[k] \in Seq(V)
      BY <1>3, <1>8, <3>2
    <3> QED BY <2>1, <3>1, <3>3
  <2>4. 0..n \subseteq P
    BY <1>1, <2>2, <2>3, UpTo
  <2> QED BY <2>1, <2>4 DEF h
<1> HIDE DEF h
<1>10. Only(list, kept) = h[n]
  BY <1>1, <1>6 DEF h
<1> QED BY <1>7, <1>8, <1>9, <1>10 DEF n, Picked

LEMMA OnceRow ==
  ASSUME NEW V, NEW list \in Seq(V)
  PROVE  \E h \in [0..Len(list) -> Seq(V)] :
            /\ h[0] = <<>>
            /\ \A k \in 1..Len(list) : h[k] = (IF Contains(h[k - 1], list[k]) THEN h[k - 1] ELSE Append(h[k - 1], list[k]))
            /\ Once(list) = h[Len(list)]
<1> DEFINE n == Len(list)
           E(f) == f = [s \in SUBSET (1..n) |->
                          IF s = {} THEN <<>>
                          ELSE (IF Contains(f[s \ {Max(s)}], list[Max(s)]) THEN f[s \ {Max(s)}] ELSE Append(f[s \ {Max(s)}], list[Max(s)]))]
           step == [p \in Seq(V) \X (1..n) |-> (IF Contains(p[1], list[p[2]]) THEN p[1] ELSE Append(p[1], list[p[2]]))]
           g == CHOOSE f : E(f)
           h == [k \in 0..n |-> g[1..k]]
<1>1. n \in Nat /\ DOMAIN list = 1..n
  BY LenProperties
<1>2. <<>> \in Seq(V)
  BY EmptySeq
<1>3. ASSUME NEW u \in Seq(V), NEW k \in 1..n PROVE (IF Contains(u, list[k]) THEN u ELSE Append(u, list[k])) \in Seq(V)
  BY LenProperties, ElementOfSeq, AppendProperties
<1>4. \E f : E(f)
  <2>1. step \in [Seq(V) \X (1..n) -> Seq(V)]
    <3>1. ASSUME NEW p \in Seq(V) \X (1..n) PROVE (IF Contains(p[1], list[p[2]]) THEN p[1] ELSE Append(p[1], list[p[2]])) \in Seq(V)
      <4>1. p[1] \in Seq(V) /\ p[2] \in 1..n
        OBVIOUS
      <4> QED BY <1>3, <4>1
    <3> QED BY <3>1
  <2>2. PICK f : Folds(f, n, Seq(V), <<>>, step)
    <3> HIDE DEF step, n, E, g, h
    <3> QED BY <1>1, <1>2, <2>1, FoldExists
  <2>3. ASSUME NEW s \in SUBSET (1..n), s # {}
        PROVE  f[s] = (IF Contains(f[s \ {Max(s)}], list[Max(s)]) THEN f[s \ {Max(s)}] ELSE Append(f[s \ {Max(s)}], list[Max(s)]))
    <3>1. Max(s) \in 1..n /\ s \ {Max(s)} \in SUBSET (1..n)
      BY <1>1, <2>3, MaxOf
    <3>2. <<f[s \ {Max(s)}], Max(s)>> \in Seq(V) \X (1..n)
      BY <2>2, <3>1 DEF Folds
    <3> HIDE DEF n
    <3>3. f[s] = step[<<f[s \ {Max(s)}], Max(s)>>]
      <4> HIDE DEF step
      <4> QED BY <2>2, <2>3 DEF Folds
    <3> QED BY <3>2, <3>3
  <2>4. E(f)
    <3> HIDE DEF step, n
    <3>1. f[{}] = <<>> /\ f \in [SUBSET (1..n) -> Seq(V)]
      BY <2>2 DEF Folds
    <3> QED BY <2>3, <3>1
  <2> QED BY <2>4
<1>5. E(g)
  <2> HIDE DEF E
  <2> QED BY <1>4
<1>6. Once(list) = g[1..n]
  BY <1>1 DEF Once, FoldLeft, MapThenFoldSet
<1> HIDE DEF g, n
<1>7. h[0] = <<>>
  BY <1>1, <1>5
<1>8. ASSUME NEW k \in 1..n PROVE h[k] = (IF Contains(h[k - 1], list[k]) THEN h[k - 1] ELSE Append(h[k - 1], list[k]))
  <2>1. Max(1..k) = k /\ (1..k) \ {k} = 1..(k - 1) /\ 1..k # {}
    BY MaxOfInterval
  <2>2. 1..k \in SUBSET (1..n) /\ k - 1 \in 0..n /\ k \in 0..n
    BY <1>1
  <2> QED BY <1>5, <2>1, <2>2
<1>9. h \in [0..n -> Seq(V)]
  <2> DEFINE P == {k \in 0..n : h[k] \in Seq(V)}
  <2> HIDE DEF h
  <2>1. \A k \in 0..n : k \in P <=> h[k] \in Seq(V)
    OBVIOUS
  <2> HIDE DEF P
  <2>2. 0 \in P
    <3>1. 0 \in 0..n
      BY <1>1
    <3>2. h[0] \in Seq(V)
      BY <1>2, <1>7
    <3> QED BY <2>1, <3>1, <3>2
  <2>3. ASSUME NEW k \in 1..n, k - 1 \in P PROVE k \in P
    <3>1. k \in 0..n /\ k - 1 \in 0..n
      BY <1>1
    <3>2. h[k - 1] \in Seq(V)
      BY <2>1, <2>3, <3>1
    <3>3. h[k] \in Seq(V)
      BY <1>3, <1>8, <3>2
    <3> QED BY <2>1, <3>1, <3>3
  <2>4. 0..n \subseteq P
    BY <1>1, <2>2, <2>3, UpTo
  <2> QED BY <2>1, <2>4 DEF h
<1> HIDE DEF h
<1>10. Once(list) = h[n]
  BY <1>1, <1>6 DEF h
<1> QED BY <1>7, <1>8, <1>9, <1>10 DEF n

LEMMA ReplacedRow ==
  ASSUME CopyAssumption, NEW list \in Text, NEW s0
  PROVE  \E h \in [0..Len(list) -> Text] :
            /\ h[0] = <<>>
            /\ \A k \in 1..Len(list) : h[k] = Put(h[k - 1], Said(list[k], s0))
            /\ Replaced(list, s0) = h[Len(list)]
<1> DEFINE n == Len(list)
           E(f) == f = [s \in SUBSET (1..n) |->
                          IF s = {} THEN <<>>
                          ELSE Put(f[s \ {Max(s)}], Said(list[Max(s)], s0))]
           step == [p \in Text \X (1..n) |-> Put(p[1], Said(list[p[2]], s0))]
           g == CHOOSE f : E(f)
           h == [k \in 0..n |-> g[1..k]]
<1>1. n \in Nat /\ DOMAIN list = 1..n
  BY LenProperties DEF Text
<1>2. <<>> \in Text
  BY EmptySeq DEF Text
<1>3. ASSUME NEW u \in Text, NEW k \in 1..n PROVE Put(u, Said(list[k], s0)) \in Text
  <2>1. Said(list[k], s0) \in Words
    <3>1. list[k] \in Words
      BY ElementOfSeq DEF Text
    <3>2. "channels" \in Words
      BY DEF CopyAssumption
    <3> QED BY <3>1, <3>2 DEF Said
  <2>2. Append(u, Said(list[k], s0)) \in Text
    BY <2>1, AppendProperties DEF Text
  <2> QED BY <2>2 DEF Put
<1>4. \E f : E(f)
  <2>1. step \in [Text \X (1..n) -> Text]
    <3>1. ASSUME NEW p \in Text \X (1..n) PROVE Put(p[1], Said(list[p[2]], s0)) \in Text
      <4>1. p[1] \in Text /\ p[2] \in 1..n
        OBVIOUS
      <4> QED BY <1>3, <4>1
    <3> QED BY <3>1
  <2>2. PICK f : Folds(f, n, Text, <<>>, step)
    <3> HIDE DEF step, n, E, g, h
    <3> QED BY <1>1, <1>2, <2>1, FoldExists
  <2>3. ASSUME NEW s \in SUBSET (1..n), s # {}
        PROVE  f[s] = Put(f[s \ {Max(s)}], Said(list[Max(s)], s0))
    <3>1. Max(s) \in 1..n /\ s \ {Max(s)} \in SUBSET (1..n)
      BY <1>1, <2>3, MaxOf
    <3>2. <<f[s \ {Max(s)}], Max(s)>> \in Text \X (1..n)
      BY <2>2, <3>1 DEF Folds
    <3> HIDE DEF n
    <3>3. f[s] = step[<<f[s \ {Max(s)}], Max(s)>>]
      <4> HIDE DEF step
      <4> QED BY <2>2, <2>3 DEF Folds
    <3> QED BY <3>2, <3>3
  <2>4. E(f)
    <3> HIDE DEF step, n
    <3>1. f[{}] = <<>> /\ f \in [SUBSET (1..n) -> Text]
      BY <2>2 DEF Folds
    <3> QED BY <2>3, <3>1
  <2> QED BY <2>4
<1>5. E(g)
  <2> HIDE DEF E
  <2> QED BY <1>4
<1>6. Replaced(list, s0) = g[1..n]
  BY <1>1 DEF Replaced, FoldLeft, MapThenFoldSet
<1> HIDE DEF g, n
<1>7. h[0] = <<>>
  BY <1>1, <1>5
<1>8. ASSUME NEW k \in 1..n PROVE h[k] = Put(h[k - 1], Said(list[k], s0))
  <2>1. Max(1..k) = k /\ (1..k) \ {k} = 1..(k - 1) /\ 1..k # {}
    BY MaxOfInterval
  <2>2. 1..k \in SUBSET (1..n) /\ k - 1 \in 0..n /\ k \in 0..n
    BY <1>1
  <2> QED BY <1>5, <2>1, <2>2
<1>9. h \in [0..n -> Text]
  <2> DEFINE P == {k \in 0..n : h[k] \in Text}
  <2> HIDE DEF h
  <2>1. \A k \in 0..n : k \in P <=> h[k] \in Text
    OBVIOUS
  <2> HIDE DEF P
  <2>2. 0 \in P
    <3>1. 0 \in 0..n
      BY <1>1
    <3>2. h[0] \in Text
      BY <1>2, <1>7
    <3> QED BY <2>1, <3>1, <3>2
  <2>3. ASSUME NEW k \in 1..n, k - 1 \in P PROVE k \in P
    <3>1. k \in 0..n /\ k - 1 \in 0..n
      BY <1>1
    <3>2. h[k - 1] \in Text
      BY <2>1, <2>3, <3>1
    <3>3. h[k] \in Text
      BY <1>3, <1>8, <3>2
    <3> QED BY <2>1, <3>1, <3>3
  <2>4. 0..n \subseteq P
    BY <1>1, <2>2, <2>3, UpTo
  <2> QED BY <2>1, <2>4 DEF h
<1> HIDE DEF h
<1>10. Replaced(list, s0) = h[n]
  BY <1>1, <1>6 DEF h
<1> QED BY <1>7, <1>8, <1>9, <1>10 DEF n

LEMMA JoinedRow ==
  ASSUME CopyAssumption, NEW list \in Text
  PROVE  \E h \in [0..Len(list) -> Text] :
            /\ h[0] = <<>>
            /\ \A k \in 1..Len(list) : h[k] = Join(h[k - 1], list[k])
            /\ Joined(list) = h[Len(list)]
<1> DEFINE n == Len(list)
           E(f) == f = [s \in SUBSET (1..n) |->
                          IF s = {} THEN <<>>
                          ELSE Join(f[s \ {Max(s)}], list[Max(s)])]
           step == [p \in Text \X (1..n) |-> Join(p[1], list[p[2]])]
           g == CHOOSE f : E(f)
           h == [k \in 0..n |-> g[1..k]]
<1>1. n \in Nat /\ DOMAIN list = 1..n
  BY LenProperties DEF Text
<1>2. <<>> \in Text
  BY EmptySeq DEF Text
<1>3. ASSUME NEW u \in Text, NEW k \in 1..n PROVE Join(u, list[k]) \in Text
  <2>1. list[k] \in Words
    BY ElementOfSeq DEF Text
  <2>2. Append(u, list[k]) \in Text
    BY <2>1, AppendProperties DEF Text
  <2>3. ASSUME u # <<>>, <<Last(u), list[k]>> \in DOMAIN Glue
        PROVE  Append(Front(u), Glue[<<Last(u), list[k]>>]) \in Text
    <3>1. Glue[<<Last(u), list[k]>>] \in Words
      BY <2>3 DEF CopyAssumption
    <3>2. Front(u) \in Text
      BY LenProperties, ElementOfSeq, SubSeqProperties DEF Front, Text
    <3> QED BY <3>1, <3>2, AppendProperties DEF Text
  <2> QED BY <2>2, <2>3 DEF Join
<1>4. \E f : E(f)
  <2>1. step \in [Text \X (1..n) -> Text]
    <3>1. ASSUME NEW p \in Text \X (1..n) PROVE Join(p[1], list[p[2]]) \in Text
      <4>1. p[1] \in Text /\ p[2] \in 1..n
        OBVIOUS
      <4> QED BY <1>3, <4>1
    <3> QED BY <3>1
  <2>2. PICK f : Folds(f, n, Text, <<>>, step)
    <3> HIDE DEF step, n, E, g, h
    <3> QED BY <1>1, <1>2, <2>1, FoldExists
  <2>3. ASSUME NEW s \in SUBSET (1..n), s # {}
        PROVE  f[s] = Join(f[s \ {Max(s)}], list[Max(s)])
    <3>1. Max(s) \in 1..n /\ s \ {Max(s)} \in SUBSET (1..n)
      BY <1>1, <2>3, MaxOf
    <3>2. <<f[s \ {Max(s)}], Max(s)>> \in Text \X (1..n)
      BY <2>2, <3>1 DEF Folds
    <3> HIDE DEF n
    <3>3. f[s] = step[<<f[s \ {Max(s)}], Max(s)>>]
      <4> HIDE DEF step
      <4> QED BY <2>2, <2>3 DEF Folds
    <3> QED BY <3>2, <3>3
  <2>4. E(f)
    <3> HIDE DEF step, n
    <3>1. f[{}] = <<>> /\ f \in [SUBSET (1..n) -> Text]
      BY <2>2 DEF Folds
    <3> QED BY <2>3, <3>1
  <2> QED BY <2>4
<1>5. E(g)
  <2> HIDE DEF E
  <2> QED BY <1>4
<1>6. Joined(list) = g[1..n]
  BY <1>1 DEF Joined, FoldLeft, MapThenFoldSet
<1> HIDE DEF g, n
<1>7. h[0] = <<>>
  BY <1>1, <1>5
<1>8. ASSUME NEW k \in 1..n PROVE h[k] = Join(h[k - 1], list[k])
  <2>1. Max(1..k) = k /\ (1..k) \ {k} = 1..(k - 1) /\ 1..k # {}
    BY MaxOfInterval
  <2>2. 1..k \in SUBSET (1..n) /\ k - 1 \in 0..n /\ k \in 0..n
    BY <1>1
  <2> QED BY <1>5, <2>1, <2>2
<1>9. h \in [0..n -> Text]
  <2> DEFINE P == {k \in 0..n : h[k] \in Text}
  <2> HIDE DEF h
  <2>1. \A k \in 0..n : k \in P <=> h[k] \in Text
    OBVIOUS
  <2> HIDE DEF P
  <2>2. 0 \in P
    <3>1. 0 \in 0..n
      BY <1>1
    <3>2. h[0] \in Text
      BY <1>2, <1>7
    <3> QED BY <2>1, <3>1, <3>2
  <2>3. ASSUME NEW k \in 1..n, k - 1 \in P PROVE k \in P
    <3>1. k \in 0..n /\ k - 1 \in 0..n
      BY <1>1
    <3>2. h[k - 1] \in Text
      BY <2>1, <2>3, <3>1
    <3>3. h[k] \in Text
      BY <1>3, <1>8, <3>2
    <3> QED BY <2>1, <3>1, <3>3
  <2>4. 0..n \subseteq P
    BY <1>1, <2>2, <2>3, UpTo
  <2> QED BY <2>1, <2>4 DEF h
<1> HIDE DEF h
<1>10. Joined(list) = h[n]
  BY <1>1, <1>6 DEF h
<1> QED BY <1>7, <1>8, <1>9, <1>10 DEF n

------------------------------------------------------------------------------
(* Texts within texts *)

\* The words of t stand in u one after the other.
Within(t, u) ==
    \E d \in Nat : d + Len(t) <= Len(u) /\ \A i \in 1..Len(t) : u[d + i] = t[i]

LEMMA WithinItself == ASSUME NEW t \in Text PROVE Within(t, t)
<1>1. Len(t) \in Nat
  BY LenProperties DEF Text
<1>2. 0 + Len(t) <= Len(t) /\ \A i \in 1..Len(t) : t[0 + i] = t[i]
  BY <1>1
<1> QED BY <1>2 DEF Within

LEMMA WithinLonger ==
  ASSUME NEW t \in Text, NEW u \in Text, NEW v \in Text, Within(t, u)
  PROVE  Within(t, u \o v) /\ Within(t, v \o u)
<1>1. PICK d \in Nat : d + Len(t) <= Len(u) /\ \A i \in 1..Len(t) : u[d + i] = t[i]
  BY DEF Within
<1>2. Len(t) \in Nat /\ Len(u) \in Nat /\ Len(v) \in Nat
  BY LenProperties DEF Text
<1>3. /\ Len(u \o v) = Len(u) + Len(v)
      /\ \A i \in 1..(Len(u) + Len(v)) :
            (u \o v)[i] = IF i <= Len(u) THEN u[i] ELSE v[i - Len(u)]
  BY ConcatProperties DEF Text
<1>4. /\ Len(v \o u) = Len(v) + Len(u)
      /\ \A i \in 1..(Len(v) + Len(u)) :
            (v \o u)[i] = IF i <= Len(v) THEN v[i] ELSE u[i - Len(v)]
  BY ConcatProperties DEF Text
<1>5. Within(t, u \o v)
  <2>1. d + Len(t) <= Len(u \o v)
    BY <1>1, <1>2, <1>3
  <2>2. ASSUME NEW i \in 1..Len(t) PROVE (u \o v)[d + i] = t[i]
    <3>1. d + i \in 1..(Len(u) + Len(v)) /\ d + i <= Len(u)
      BY <1>1, <1>2
    <3> QED BY <1>1, <1>3, <3>1
  <2> QED BY <2>1, <2>2 DEF Within
<1>6. Within(t, v \o u)
  <2>1. PICK e \in Nat : e = Len(v) + d
    BY <1>2
  <2>2. e + Len(t) <= Len(v \o u)
    BY <1>1, <1>2, <1>4, <2>1
  <2>3. ASSUME NEW i \in 1..Len(t) PROVE (v \o u)[e + i] = t[i]
    <3>1. e + i \in 1..(Len(v) + Len(u)) /\ ~(e + i <= Len(v)) /\ (e + i) - Len(v) = d + i
      BY <1>1, <1>2, <2>1
    <3> QED BY <1>1, <1>4, <3>1
  <2> QED BY <2>2, <2>3 DEF Within
<1> QED BY <1>5, <1>6

\* What is wrong with a text is wrong with every text it stands in.
LEMMA WithinFlaws ==
  ASSUME NEW t \in Text, NEW u \in Text, Within(t, u), NEW s0
  PROVE  /\ Ungrounded(t, s0) => Ungrounded(u, s0)
         /\ HasClaim(t) => HasClaim(u)
<1>1. PICK d \in Nat : d + Len(t) <= Len(u) /\ \A i \in 1..Len(t) : u[d + i] = t[i]
  BY DEF Within
<1>2. /\ Len(t) \in Nat /\ Len(u) \in Nat
      /\ DOMAIN t = 1..Len(t) /\ DOMAIN u = 1..Len(u)
  BY LenProperties DEF Text
<1>3. ASSUME NEW i \in 1..Len(t) PROVE d + i \in 1..Len(u) /\ u[d + i] = t[i]
  BY <1>1, <1>2
<1>4. ASSUME Ungrounded(t, s0) PROVE Ungrounded(u, s0)
  BY <1>2, <1>3, <1>4 DEF Ungrounded
<1>5. ASSUME NEW i \in DOMAIN t, t[i] \in Claims PROVE HasClaim(u)
  BY <1>2, <1>3, <1>5 DEF HasClaim
<1>6. ASSUME NEW i \in 1..(Len(t) - 1), <<t[i], t[i + 1]>> \in ClaimPairs PROVE HasClaim(u)
  <2>1. i \in 1..Len(t) /\ i + 1 \in 1..Len(t)
    BY <1>2
  <2>2. u[d + i] = t[i] /\ u[d + (i + 1)] = t[i + 1]
    BY <1>3, <2>1
  <2>3. d + i \in 1..(Len(u) - 1) /\ d + (i + 1) = (d + i) + 1
    BY <1>1, <1>2
  <2>4. <<u[d + i], u[(d + i) + 1]>> \in ClaimPairs
    BY <1>6, <2>2, <2>3
  <2> QED BY <2>3, <2>4 DEF HasClaim
<1>7. HasClaim(t) => HasClaim(u)
  BY <1>5, <1>6 DEF HasClaim
<1> QED BY <1>4, <1>7

LEMMA FlattenRow ==
  ASSUME NEW ss \in Seq(Text), ss # <<>>
  PROVE  \E h \in [1..Len(ss) -> Text] :
            /\ h[1] = ss[1]
            /\ \A k \in 1..Len(ss) : k # 1 => h[k] = h[k - 1] \o ss[k]
            /\ FlattenSeq(ss) = h[Len(ss)]
<1> DEFINE n == Len(ss)
           E(f) == f = [i \in 1..n |-> IF i = 1 THEN ss[i] ELSE f[i - 1] \o ss[i]]
           g == CHOOSE f : E(f)
           Row(k, f) == \A i \in 1..k : f[i] = IF i = 1 THEN ss[i] ELSE f[i - 1] \o ss[i]
           P == {k \in 0..n : \E f \in [1..k -> Text] : Row(k, f)}
<1>1. n \in Nat /\ n # 0
  BY EmptySeq
<1>2. \A k \in 1..n : ss[k] \in Text
  BY ElementOfSeq
<1>3. \A k \in 0..n : k \in P <=> \E f \in [1..k -> Text] : Row(k, f)
  <2> HIDE DEF Row
  <2> QED OBVIOUS
<1> HIDE DEF P
<1>4. 0 \in P
  <2> DEFINE f == [i \in 1..0 |-> <<>>]
  <2>1. f \in [1..0 -> Text] /\ Row(0, f)
    OBVIOUS
  <2>2. 0 \in 0..n
    BY <1>1
  <2> HIDE DEF f, Row, n
  <2> QED BY <1>3, <2>1, <2>2
<1>5. ASSUME NEW k \in 1..n, k - 1 \in P PROVE k \in P
  <2>1. k \in 0..n /\ k - 1 \in 0..n
    BY <1>1
  <2>2. PICK e \in [1..(k - 1) -> Text] : Row(k - 1, e)
    <3> HIDE DEF Row, n
    <3> QED BY <1>3, <1>5, <2>1
  <2> DEFINE f == [i \in 1..k |-> IF i = k THEN IF k = 1 THEN ss[k] ELSE e[k - 1] \o ss[k]
                                  ELSE e[i]]
  <2>3. k # 1 => e[k - 1] \o ss[k] \in Text
    <3>1. k # 1 => e[k - 1] \in Text
      OBVIOUS
    <3> QED BY <1>2, <3>1, ConcatProperties DEF Text
  <2>4. f \in [1..k -> Text]
    <3>1. ASSUME NEW i \in 1..k
          PROVE  (IF i = k THEN IF k = 1 THEN ss[k] ELSE e[k - 1] \o ss[k] ELSE e[i]) \in Text
      BY <1>2, <2>3
    <3> QED BY <3>1
  <2>5. Row(k, f)
    <3> SUFFICES ASSUME NEW i \in 1..k
                 PROVE  f[i] = IF i = 1 THEN ss[i] ELSE f[i - 1] \o ss[i]
      OBVIOUS
    <3>1. CASE i = k
      <4>1. k # 1 => f[k - 1] = e[k - 1]
        OBVIOUS
      <4> QED BY <3>1, <4>1
    <3>2. CASE i # k
      <4>1. f[i] = e[i] /\ (i # 1 => f[i - 1] = e[i - 1]) /\ i \in 1..(k - 1)
        BY <3>2
      <4> QED BY <2>2, <4>1
    <3> QED BY <3>1, <3>2
  <2> HIDE DEF f, Row, n
  <2> QED BY <1>3, <2>1, <2>4, <2>5
<1>6. n \in P
  <2>1. n \in 0..n
    BY <1>1
  <2> HIDE DEF n
  <2> QED BY <1>1, <1>4, <1>5, <2>1, UpTo
<1>7. E(g)
  <2>1. PICK f \in [1..n -> Text] : Row(n, f)
    <3>1. n \in 0..n
      BY <1>1
    <3> HIDE DEF Row, n
    <3> QED BY <1>3, <1>6, <3>1
  <2>2. E(f)
    BY <2>1
  <2> HIDE DEF E
  <2> QED BY <2>2
<1>8. FlattenSeq(ss) = g[n]
  BY <1>1 DEF FlattenSeq
<1> HIDE DEF g, n
<1>9. ASSUME NEW k \in 1..n PROVE g[k] = IF k = 1 THEN ss[k] ELSE g[k - 1] \o ss[k]
  BY <1>7
<1>10. \A k \in 1..n : g[k] \in Text
  <2> DEFINE Q == {k \in 0..n : k = 0 \/ g[k] \in Text}
  <2>1. \A k \in 0..n : k \in Q <=> k = 0 \/ g[k] \in Text
    OBVIOUS
  <2> HIDE DEF Q
  <2>2. 0 \in Q
    BY <1>1, <2>1
  <2>3. ASSUME NEW k \in 1..n, k - 1 \in Q PROVE k \in Q
    <3>1. k \in 0..n /\ k - 1 \in 0..n
      BY <1>1
    <3>2. k = 1 \/ g[k - 1] \in Text
      BY <2>1, <2>3, <3>1
    <3>3. g[k] \in Text
      <4>1. CASE k = 1
        BY <1>2, <1>9, <4>1
      <4>2. CASE k # 1
        BY <1>2, <1>9, <3>2, <4>2, ConcatProperties DEF Text
      <4> QED BY <4>1, <4>2
    <3> QED BY <2>1, <3>1, <3>3
  <2>4. 0..n \subseteq Q
    BY <1>1, <2>2, <2>3, UpTo
  <2> QED BY <2>1, <2>4
<1> DEFINE h == [k \in 1..n |-> g[k]]
<1>11. h \in [1..n -> Text]
  BY <1>10
<1>12. h[1] = ss[1] /\ h[n] = g[n]
  BY <1>1, <1>9
<1>13. ASSUME NEW k \in 1..n, k # 1 PROVE h[k] = h[k - 1] \o ss[k]
  <2>1. k - 1 \in 1..n
    BY <1>1, <1>13
  <2> QED BY <1>9, <1>13, <2>1
<1> HIDE DEF h
<1> QED BY <1>8, <1>11, <1>12, <1>13 DEF n

\* A joined text has every text it was made of, and no other word.
LEMMA FlattenIs ==
  ASSUME NEW ss \in Seq(Text)
  PROVE  /\ FlattenSeq(ss) \in Text
         /\ \A i \in 1..Len(ss) : Within(ss[i], FlattenSeq(ss))
         /\ \A i \in 1..Len(FlattenSeq(ss)) :
               \E j \in 1..Len(ss) : FlattenSeq(ss)[i] \in Range(ss[j])
<1>1. CASE ss = <<>>
  <2>1. FlattenSeq(ss) = <<>> /\ Len(ss) = 0
    BY <1>1, EmptySeq DEF FlattenSeq
  <2>2. <<>> \in Text /\ Len(<<>>) = 0
    BY EmptySeq DEF Text
  <2> QED BY <2>1, <2>2
<1>2. CASE ss # <<>>
  <2>1. PICK h \in [1..Len(ss) -> Text] :
            /\ h[1] = ss[1]
            /\ \A k \in 1..Len(ss) : k # 1 => h[k] = h[k - 1] \o ss[k]
            /\ FlattenSeq(ss) = h[Len(ss)]
    BY <1>2, FlattenRow
  <2> DEFINE n == Len(ss)
             Joins(k) == /\ \A i \in 1..k : Within(ss[i], h[k])
                         /\ \A i \in 1..Len(h[k]) : \E j \in 1..n : h[k][i] \in Range(ss[j])
             P == {k \in 0..n : k = 0 \/ Joins(k)}
  <2>2. n \in Nat /\ n # 0 /\ \A k \in 1..n : ss[k] \in Text
    BY <1>2, EmptySeq, ElementOfSeq
  <2>3. \A k \in 0..n : k \in P <=> k = 0 \/ Joins(k)
    <3> HIDE DEF Joins
    <3> QED OBVIOUS
  <2> HIDE DEF P, n
  <2>4. 0 \in P
    BY <2>2, <2>3
  <2>5. ASSUME NEW k \in 1..n, k - 1 \in P PROVE k \in P
    <3>1. k \in 0..n /\ k - 1 \in 0..n
      BY <2>2
    <3>2. \A i \in 1..Len(ss[k]) : ss[k][i] \in Range(ss[k])
      <4>1. DOMAIN ss[k] = 1..Len(ss[k])
        BY <2>2, LenProperties DEF Text
      <4> QED BY <4>1 DEF Range
    <3>3. CASE k = 1
      <4>1. h[k] = ss[k]
        BY <2>1, <3>3
      <4>2. Within(ss[k], h[k])
        BY <2>2, <4>1, WithinItself
      <4>3. Joins(k)
        BY <3>2, <3>3, <4>1, <4>2
      <4> HIDE DEF Joins
      <4> QED BY <2>3, <3>1, <4>3
    <3>4. CASE k # 1
      <4>1. h[k] = h[k - 1] \o ss[k] /\ h[k - 1] \in Text /\ ss[k] \in Text
        <5>1. k - 1 \in 1..n /\ ss[k] \in Text
          BY <2>2, <3>4
        <5> QED BY <2>1, <3>4, <5>1 DEF n
      <4>2. Joins(k - 1)
        <5> HIDE DEF Joins
        <5> QED BY <2>3, <2>5, <3>1, <3>4
      <4>3. ASSUME NEW i \in 1..k PROVE Within(ss[i], h[k])
        <5>1. CASE i = k
          BY <4>1, <5>1, WithinItself, WithinLonger
        <5>2. CASE i # k
          <6>1. i \in 1..(k - 1) /\ ss[i] \in Text
            BY <2>2, <5>2
          <6> QED BY <4>1, <4>2, <6>1, WithinLonger
        <5> QED BY <5>1, <5>2
      <4>4. ASSUME NEW i \in 1..Len(h[k]) PROVE \E j \in 1..n : h[k][i] \in Range(ss[j])
        <5>1. /\ Len(h[k]) = Len(h[k - 1]) + Len(ss[k])
              /\ h[k][i] = IF i <= Len(h[k - 1]) THEN h[k - 1][i]
                           ELSE ss[k][i - Len(h[k - 1])]
          BY <4>1, ConcatProperties DEF Text
        <5>2. Len(h[k - 1]) \in Nat /\ Len(ss[k]) \in Nat
          BY <4>1, LenProperties DEF Text
        <5>3. CASE i <= Len(h[k - 1])
          BY <4>2, <5>1, <5>2, <5>3
        <5>4. CASE ~(i <= Len(h[k - 1]))
          <6>1. i - Len(h[k - 1]) \in 1..Len(ss[k])
            <7>1. i \in 1..(Len(h[k - 1]) + Len(ss[k]))
              BY <5>1
            <7>2. \A a, b \in Nat : \A m \in 1..(a + b) : ~(m <= a) => m - a \in 1..b
              OBVIOUS
            <7> QED BY <5>2, <5>4, <7>1, <7>2
          <6> QED BY <3>2, <5>1, <5>4, <6>1
        <5> QED BY <5>3, <5>4
      <4>5. Joins(k)
        BY <4>3, <4>4
      <4> HIDE DEF Joins
      <4> QED BY <2>3, <3>1, <4>5
    <3> QED BY <3>3, <3>4
  <2>6. n \in P
    <3>1. n \in 0..n
      BY <2>2
    <3> QED BY <2>2, <2>4, <2>5, <3>1, UpTo
  <2>7. Joins(n)
    <3>1. n \in 0..n
      BY <2>2
    <3> HIDE DEF Joins
    <3> QED BY <2>2, <2>3, <2>6, <3>1
  <2>8. h[n] \in Text /\ FlattenSeq(ss) = h[n]
    BY <2>1, <2>2 DEF n
  <2> QED BY <2>7, <2>8 DEF n
<1> QED BY <1>1, <1>2

------------------------------------------------------------------------------
(* What each repair returns *)

LEMMA MappedIs ==
  ASSUME NEW V, NEW W, NEW list \in Seq(V), NEW f \in [DOMAIN list -> W]
  PROVE  f \in Seq(W) /\ Len(f) = Len(list) /\ DOMAIN f = 1..Len(list)
<1>1. Len(list) \in Nat /\ DOMAIN list = 1..Len(list)
  BY LenProperties
<1>2. f \in [1..Len(list) -> W]
  BY <1>1
<1>3. f \in Seq(W)
  BY <1>1, <1>2
<1>4. DOMAIN f = 1..Len(f) /\ Len(f) \in Nat
  BY <1>3, LenProperties
<1> QED BY <1>1, <1>2, <1>3, <1>4

\* Only keeps the entries that are in the set, all of them, each in its turn.
Picks(r, list, kept, m) ==
    /\ m \in [1..Len(r) -> 1..Len(list)]
    /\ \A i \in 1..Len(r) : r[i] = list[m[i]] /\ list[m[i]] \in kept
    /\ \A i, j \in 1..Len(r) : i # j => m[i] # m[j]
    /\ \A k \in 1..Len(list) : list[k] \in kept => \E i \in 1..Len(r) : m[i] = k

LEMMA OnlyIs ==
  ASSUME NEW V, NEW list \in Seq(V), NEW kept
  PROVE  /\ Only(list, kept) \in Seq(V)
         /\ \E m : Picks(Only(list, kept), list, kept, m)
<1>1. PICK h \in [0..Len(list) -> Seq(V)] :
         /\ h[0] = <<>>
         /\ \A k \in 1..Len(list) :
               h[k] = Picked(h[k - 1], list[k], kept)
         /\ Only(list, kept) = h[Len(list)]
  BY OnlyRow
<1> DEFINE n == Len(list)
           Upto(k, m) ==
              /\ m \in [1..Len(h[k]) -> 1..k]
              /\ \A i \in 1..Len(h[k]) : h[k][i] = list[m[i]] /\ list[m[i]] \in kept
              /\ \A i, j \in 1..Len(h[k]) : i # j => m[i] # m[j]
              /\ \A e \in 1..k : list[e] \in kept => \E i \in 1..Len(h[k]) : m[i] = e
           P == {k \in 0..n : \E m : Upto(k, m)}
<1>2. n \in Nat /\ \A k \in 1..n : list[k] \in V
  BY LenProperties, ElementOfSeq
<1>3. \A k \in 0..n : k \in P <=> \E m : Upto(k, m)
  <2> HIDE DEF Upto
  <2> QED OBVIOUS
<1> HIDE DEF P, n
<1>4. 0 \in P
  <2> DEFINE m == [i \in 1..0 |-> 1]
  <2>1. Len(h[0]) = 0
    BY <1>1, EmptySeq
  <2>2. Upto(0, m)
    BY <2>1
  <2>3. 0 \in 0..n
    BY <1>2
  <2> HIDE DEF m, Upto
  <2> QED BY <1>3, <2>2, <2>3
<1>5. ASSUME NEW k \in 1..n, k - 1 \in P PROVE k \in P
  <2>1. k \in 0..n /\ k - 1 \in 0..n
    BY <1>2
  <2>2. PICK m : Upto(k - 1, m)
    <3> HIDE DEF Upto
    <3> QED BY <1>3, <1>5, <2>1
  <2>3. h[k - 1] \in Seq(V) /\ list[k] \in V
    BY <1>1, <1>2, <2>1 DEF n
  <2>4. h[k] = (IF list[k] \in kept THEN Append(h[k - 1], list[k]) ELSE h[k - 1])
    BY <1>1 DEF n, Picked
  <2>5. PICK u \in Seq(V) : u = h[k - 1]
    BY <2>3
  <2>6. Len(u) \in Nat
    BY LenProperties
  <2>7. CASE list[k] \in kept
    <3> DEFINE e == [i \in 1..(Len(u) + 1) |-> IF i = Len(u) + 1 THEN k ELSE m[i]]
    <3>1. /\ Len(h[k]) = Len(u) + 1
          /\ \A i \in 1..Len(u) : h[k][i] = u[i]
          /\ h[k][Len(u) + 1] = list[k]
      BY <2>3, <2>4, <2>5, <2>7, AppendProperties
    <3>2. /\ m \in [1..Len(u) -> 1..(k - 1)]
          /\ \A i \in 1..Len(u) : u[i] = list[m[i]] /\ list[m[i]] \in kept
          /\ \A i, j \in 1..Len(u) : i # j => m[i] # m[j]
          /\ \A c \in 1..(k - 1) : list[c] \in kept => \E i \in 1..Len(u) : m[i] = c
      BY <2>2, <2>5
    <3>3. \A i \in 1..Len(u) : e[i] = m[i] /\ i # Len(u) + 1 /\ e[i] \in 1..(k - 1)
      BY <2>6, <3>2
    <3>4. e[Len(u) + 1] = k
      BY <2>6
    <3>5. \A i \in 1..(Len(u) + 1) : i \in 1..Len(u) \/ i = Len(u) + 1
      BY <2>6
    <3>6. k \notin 1..(k - 1) /\ k \in 1..k /\ 1..(k - 1) \subseteq 1..k
          /\ \A c \in 1..k : c = k \/ c \in 1..(k - 1)
      BY <2>1
    <3>7. e \in [1..(Len(u) + 1) -> 1..k]
      <4>1. ASSUME NEW i \in 1..(Len(u) + 1)
            PROVE  (IF i = Len(u) + 1 THEN k ELSE m[i]) \in 1..k
        BY <3>2, <3>5, <3>6
      <4> QED BY <4>1
    <3>8. Len(u) + 1 \in 1..(Len(u) + 1) /\ 1..Len(u) \subseteq 1..(Len(u) + 1)
      BY <2>6
    <3> HIDE DEF e
    <3>9. \A i \in 1..(Len(u) + 1) : h[k][i] = list[e[i]] /\ list[e[i]] \in kept
      BY <2>7, <3>1, <3>2, <3>3, <3>4, <3>5
    <3>10. \A i, j \in 1..(Len(u) + 1) : i # j => e[i] # e[j]
      BY <3>2, <3>3, <3>4, <3>5, <3>6
    <3>11. ASSUME NEW c \in 1..k, list[c] \in kept
           PROVE  \E i \in 1..(Len(u) + 1) : e[i] = c
      <4>1. CASE c = k
        BY <3>4, <3>8, <4>1
      <4>2. CASE c \in 1..(k - 1)
        BY <3>2, <3>3, <3>8, <3>11, <4>2
      <4> QED BY <3>6, <4>1, <4>2
    <3>12. Upto(k, e)
      BY <3>1, <3>7, <3>9, <3>10, <3>11
    <3> HIDE DEF Upto
    <3> QED BY <1>3, <2>1, <3>12
  <2>8. CASE list[k] \notin kept
    <3>1. h[k] = h[k - 1]
      BY <2>4, <2>8
    <3>2. 1..(k - 1) \subseteq 1..k /\ \A c \in 1..k : c = k \/ c \in 1..(k - 1)
      BY <2>1
    <3>3. m \in [1..Len(h[k]) -> 1..k]
      <4>1. m \in [1..Len(h[k]) -> 1..(k - 1)]
        BY <2>2, <3>1
      <4> QED BY <3>2, <4>1
    <3>4. \A c \in 1..k : list[c] \in kept => \E i \in 1..Len(h[k]) : m[i] = c
      BY <2>2, <2>8, <3>1, <3>2
    <3>5. Upto(k, m)
      BY <2>2, <3>1, <3>3, <3>4
    <3> HIDE DEF Upto
    <3> QED BY <1>3, <2>1, <3>5
  <2> QED BY <2>7, <2>8
<1>6. n \in P
  <2>1. n \in 0..n
    BY <1>2
  <2> QED BY <1>2, <1>4, <1>5, <2>1, UpTo
<1>7. PICK m : Upto(n, m)
  <2>1. n \in 0..n
    BY <1>2
  <2> HIDE DEF Upto
  <2> QED BY <1>3, <1>6, <2>1
<1>8. Picks(Only(list, kept), list, kept, m)
  BY <1>1, <1>7 DEF Picks, n
<1>9. Only(list, kept) \in Seq(V)
  BY <1>1, <1>2 DEF n
<1> QED BY <1>8, <1>9

LEMMA OnceIs ==
  ASSUME NEW V, NEW list \in Seq(V)
  PROVE  Once(list) \in Seq(V) /\ Distinct(Once(list))
<1>1. PICK h \in [0..Len(list) -> Seq(V)] :
         /\ h[0] = <<>>
         /\ \A k \in 1..Len(list) :
               h[k] = (IF Contains(h[k - 1], list[k]) THEN h[k - 1] ELSE Append(h[k - 1], list[k]))
         /\ Once(list) = h[Len(list)]
  BY OnceRow
<1> DEFINE n == Len(list)
           P == {k \in 0..n : Distinct(h[k])}
<1>2. n \in Nat /\ \A k \in 1..n : list[k] \in V
  BY LenProperties, ElementOfSeq
<1>3. \A k \in 0..n : k \in P <=> Distinct(h[k])
  OBVIOUS
<1> HIDE DEF P, n
<1>4. 0 \in P
  <2>1. DOMAIN h[0] = {} /\ 0 \in 0..n
    BY <1>1, <1>2, EmptySeq
  <2> QED BY <1>3, <2>1 DEF Distinct
<1>5. ASSUME NEW k \in 1..n, k - 1 \in P PROVE k \in P
  <2>1. k \in 0..n /\ k - 1 \in 0..n
    BY <1>2
  <2>2. Distinct(h[k - 1])
    BY <1>3, <1>5, <2>1
  <2>3. PICK u \in Seq(V) : u = h[k - 1]
    BY <1>1, <2>1 DEF n
  <2>4. h[k] = (IF Contains(u, list[k]) THEN u ELSE Append(u, list[k]))
    BY <1>1, <2>3 DEF n
  <2>5. CASE Contains(u, list[k])
    BY <1>3, <2>1, <2>2, <2>3, <2>4, <2>5
  <2>6. CASE ~Contains(u, list[k])
    <3>1. PICK v \in Seq(V) : v = Append(u, list[k])
      BY <1>2, AppendProperties
    <3>2. /\ Len(v) = Len(u) + 1
          /\ \A i \in 1..Len(u) : v[i] = u[i]
          /\ v[Len(u) + 1] = list[k]
      BY <1>2, <3>1, AppendProperties
    <3>3. DOMAIN v = 1..Len(v) /\ DOMAIN u = 1..Len(u) /\ Len(u) \in Nat
      BY LenProperties
    <3>4. \A i \in DOMAIN v : i \in 1..Len(u) \/ i = Len(u) + 1
      BY <3>2, <3>3
    <3>5. \A i \in 1..Len(u) : u[i] # list[k]
      BY <2>6 DEF Contains
    <3>6. \A i, j \in 1..Len(u) : u[i] = u[j] => i = j
      BY <2>2, <2>3, <3>3 DEF Distinct
    <3>7. Distinct(v)
      BY <3>2, <3>4, <3>5, <3>6 DEF Distinct
    <3>8. h[k] = v
      BY <2>4, <2>6, <3>1
    <3> QED BY <1>3, <2>1, <3>7, <3>8
  <2> QED BY <2>5, <2>6
<1>6. n \in 0..n
  BY <1>2
<1>7. Distinct(h[n])
  BY <1>2, <1>3, <1>4, <1>5, <1>6, UpTo
<1> QED BY <1>1, <1>6, <1>7 DEF n

\* No channel that the input does not name is left.
Clean(t, s) == \A i \in 1..Len(t) : t[i] \notin Channels \ s

LEMMA ReplacedIs ==
  ASSUME CopyAssumption, NEW t \in Text, NEW s
  PROVE  Replaced(t, s) \in Text /\ Clean(Replaced(t, s), s)
<1>1. PICK h \in [0..Len(t) -> Text] :
         /\ h[0] = <<>>
         /\ \A k \in 1..Len(t) : h[k] = Put(h[k - 1], Said(t[k], s))
         /\ Replaced(t, s) = h[Len(t)]
  BY ReplacedRow
<1> DEFINE n == Len(t)
           P == {k \in 0..n : Clean(h[k], s)}
<1>2. n \in Nat /\ \A k \in 1..n : t[k] \in Words
  BY LenProperties, ElementOfSeq DEF Text
<1>3. \A k \in 0..n : k \in P <=> Clean(h[k], s)
  OBVIOUS
<1> HIDE DEF P, n
<1>4. 0 \in P
  <2>1. Len(h[0]) = 0 /\ 0 \in 0..n
    BY <1>1, <1>2, EmptySeq
  <2> QED BY <1>3, <2>1 DEF Clean
<1>5. ASSUME NEW k \in 1..n, k - 1 \in P PROVE k \in P
  <2>1. k \in 0..n /\ k - 1 \in 0..n
    BY <1>2
  <2>2. Clean(h[k - 1], s)
    BY <1>3, <1>5, <2>1
  <2>3. PICK u \in Text : u = h[k - 1]
    BY <1>1, <2>1 DEF n
  <2>4. PICK w \in Words : w = Said(t[k], s)
    <3>1. t[k] \in Words /\ "channels" \in Words
      BY <1>2 DEF CopyAssumption
    <3> QED BY <3>1 DEF Said
  <2>5. w \notin Channels \ s
    <3>1. "channels" \notin Channels
      BY DEF CopyAssumption
    <3> QED BY <2>4, <3>1 DEF Said
  <2>6. h[k] = Put(u, w)
    BY <1>1, <2>3, <2>4 DEF n
  <2>7. /\ Len(Append(u, w)) = Len(u) + 1
        /\ \A i \in 1..Len(u) : Append(u, w)[i] = u[i]
        /\ Append(u, w)[Len(u) + 1] = w
        /\ Len(u) \in Nat
    BY LenProperties, AppendProperties DEF Text
  <2>8. Clean(Append(u, w), s)
    <3>1. \A i \in 1..(Len(u) + 1) : i \in 1..Len(u) \/ i = Len(u) + 1
      BY <2>7
    <3> QED BY <2>2, <2>3, <2>5, <2>7, <3>1 DEF Clean
  <2>9. Clean(h[k], s)
    BY <2>2, <2>3, <2>6, <2>8 DEF Put
  <2> QED BY <1>3, <2>1, <2>9
<1>6. n \in 0..n
  BY <1>2
<1>7. Clean(h[n], s)
  BY <1>2, <1>3, <1>4, <1>5, <1>6, UpTo
<1> QED BY <1>1, <1>6, <1>7 DEF n

LEMMA ShortIs ==
  ASSUME CopyAssumption, NEW t \in Text
  PROVE  /\ Short(t) \in Text
         /\ \A s : Clean(t, s) => Clean(Short(t), s)
<1>1. MaxLen \in Nat /\ Len(t) \in Nat
  BY LenProperties DEF CopyAssumption, Text
<1>2. PICK e \in Nat : e = (IF Len(t) < MaxLen THEN Len(t) ELSE MaxLen)
  BY <1>1
<1>3. e <= Len(t)
  BY <1>1, <1>2
<1>4. \A i \in 1..e : t[i] \in Words
  BY <1>1, <1>3, ElementOfSeq DEF Text
<1>5. /\ SubSeq(t, 1, e) \in Text
      /\ Len(SubSeq(t, 1, e)) = (IF 1 <= e THEN e - 1 + 1 ELSE 0)
      /\ \A i \in 1..(e - 1 + 1) : SubSeq(t, 1, e)[i] = t[1 + i - 1]
  BY <1>4, SubSeqProperties DEF Text
<1>6. Short(t) = SubSeq(t, 1, e)
  BY <1>2 DEF Short
<1>7. Len(SubSeq(t, 1, e)) = e
  BY <1>5
<1>8. \A i \in 1..e : SubSeq(t, 1, e)[i] = t[i] /\ i \in 1..Len(t)
  BY <1>1, <1>3, <1>5
<1> QED BY <1>5, <1>6, <1>7, <1>8 DEF Clean

LEMMA TagIs ==
  ASSUME CopyAssumption, NEW t \in Text
  PROVE  Tag(t) \in Text
<1>1. Joined(t) \in Text
  <2>1. PICK h \in [0..Len(t) -> Text] : Joined(t) = h[Len(t)]
    BY JoinedRow
  <2>2. Len(t) \in 0..Len(t)
    BY LenProperties DEF Text
  <2> QED BY <2>1, <2>2
<1>2. <<"#">> \in Text
  BY DEF CopyAssumption, Text
<1>3. <<"#">> \o Joined(t) \in Text
  BY <1>1, <1>2, ConcatProperties DEF Text
<1> QED BY <1>3, ShortIs DEF Tag

CleanTexts(c, s) ==
    /\ Clean(c.name, s)
    /\ \A i \in DOMAIN c.hooks : Clean(c.hooks[i], s)
    /\ \A i \in DOMAIN c.assumptions : Clean(c.assumptions[i], s)
    /\ \A i \in DOMAIN c.visualPrompts : Clean(c.visualPrompts[i], s)
    /\ \A i \in DOMAIN c.claimsToReview : Clean(c.claimsToReview[i], s)
    /\ \A i \in DOMAIN c.removed : Clean(c.removed[i], s)

LEMMA FieldsOf ==
  ASSUME NEW c \in Copies
  PROVE  /\ c.name \in Text /\ c.hooks \in Seq(Text) /\ c.tags \in Seq(Text)
         /\ c.faq \in Seq(Answered) /\ c.assumptions \in Seq(Text)
         /\ c.visualPrompts \in Seq(Text) /\ c.claimsToReview \in Seq(Text)
         /\ c.removed \in Seq(Text)
         /\ \A i \in DOMAIN c.hooks : c.hooks[i] \in Text
         /\ \A i \in DOMAIN c.tags : c.tags[i] \in Text
         /\ \A i \in DOMAIN c.faq : c.faq[i] \in Answered /\ c.faq[i].q \in Text /\ c.faq[i].a \in Text
         /\ \A i \in DOMAIN c.assumptions : c.assumptions[i] \in Text
         /\ \A i \in DOMAIN c.visualPrompts : c.visualPrompts[i] \in Text
         /\ \A i \in DOMAIN c.claimsToReview : c.claimsToReview[i] \in Text
         /\ \A i \in DOMAIN c.removed : c.removed[i] \in Text
<1>1. /\ c.name \in Text /\ c.hooks \in Seq(Text) /\ c.tags \in Seq(Text)
      /\ c.faq \in Seq(Answered) /\ c.assumptions \in Seq(Text)
      /\ c.visualPrompts \in Seq(Text) /\ c.claimsToReview \in Seq(Text)
      /\ c.removed \in Seq(Text)
  BY DEF Copies
<1>2. ASSUME NEW V, NEW list \in Seq(V) PROVE \A i \in DOMAIN list : list[i] \in V
  BY LenProperties, ElementOfSeq
<1>3. /\ \A i \in DOMAIN c.hooks : c.hooks[i] \in Text
      /\ \A i \in DOMAIN c.tags : c.tags[i] \in Text
      /\ \A i \in DOMAIN c.faq : c.faq[i] \in Answered
      /\ \A i \in DOMAIN c.assumptions : c.assumptions[i] \in Text
      /\ \A i \in DOMAIN c.visualPrompts : c.visualPrompts[i] \in Text
      /\ \A i \in DOMAIN c.claimsToReview : c.claimsToReview[i] \in Text
      /\ \A i \in DOMAIN c.removed : c.removed[i] \in Text
  BY <1>1, <1>2
<1>4. \A f \in Answered : f.q \in Text /\ f.a \in Text
  BY DEF Answered
<1> QED BY <1>1, <1>3, <1>4

LEMMA WithoutChannelsIs ==
  ASSUME CopyAssumption, NEW c \in Copies, NEW s
  PROVE  /\ WithoutChannels(c, s) \in Copies
         /\ Len(WithoutChannels(c, s).faq) = Len(c.faq)
         /\ CleanTexts(WithoutChannels(c, s), s)
<1> DEFINE hooks == [i \in DOMAIN c.hooks |-> Replaced(c.hooks[i], s)]
           tags == [i \in DOMAIN c.tags |-> Replaced(c.tags[i], s)]
           faq == [i \in DOMAIN c.faq |-> [q |-> Replaced(c.faq[i].q, s),
                                           a |-> Replaced(c.faq[i].a, s)]]
           assumptions == [i \in DOMAIN c.assumptions |-> Replaced(c.assumptions[i], s)]
           visualPrompts == [i \in DOMAIN c.visualPrompts |-> Replaced(c.visualPrompts[i], s)]
           claimsToReview == [i \in DOMAIN c.claimsToReview |-> Replaced(c.claimsToReview[i], s)]
           removed == [i \in DOMAIN c.removed |-> Replaced(c.removed[i], s)]
<1>1. WithoutChannels(c, s) = [name |-> Replaced(c.name, s), hooks |-> hooks, tags |-> tags,
                               faq |-> faq, assumptions |-> assumptions,
                               visualPrompts |-> visualPrompts,
                               claimsToReview |-> claimsToReview, removed |-> removed]
  BY DEF WithoutChannels, EachText
<1>2. \A t \in Text : Replaced(t, s) \in Text /\ Clean(Replaced(t, s), s)
  BY ReplacedIs
<1>3. /\ hooks \in [DOMAIN c.hooks -> Text] /\ tags \in [DOMAIN c.tags -> Text]
      /\ assumptions \in [DOMAIN c.assumptions -> Text]
      /\ visualPrompts \in [DOMAIN c.visualPrompts -> Text]
      /\ claimsToReview \in [DOMAIN c.claimsToReview -> Text]
      /\ removed \in [DOMAIN c.removed -> Text]
  BY <1>2, FieldsOf
<1>4. faq \in [DOMAIN c.faq -> Answered]
  <2>1. ASSUME NEW i \in DOMAIN c.faq
        PROVE  [q |-> Replaced(c.faq[i].q, s), a |-> Replaced(c.faq[i].a, s)] \in Answered
    BY <1>2, FieldsOf DEF Answered
  <2> QED BY <2>1
<1>5. /\ \A i \in DOMAIN hooks : Clean(hooks[i], s)
      /\ \A i \in DOMAIN assumptions : Clean(assumptions[i], s)
      /\ \A i \in DOMAIN visualPrompts : Clean(visualPrompts[i], s)
      /\ \A i \in DOMAIN claimsToReview : Clean(claimsToReview[i], s)
      /\ \A i \in DOMAIN removed : Clean(removed[i], s)
  BY <1>2, FieldsOf
<1>6. Replaced(c.name, s) \in Text /\ Clean(Replaced(c.name, s), s)
  BY <1>2, FieldsOf
<1> HIDE DEF hooks, tags, faq, assumptions, visualPrompts, claimsToReview, removed
<1>7. /\ hooks \in Seq(Text) /\ tags \in Seq(Text)
      /\ assumptions \in Seq(Text) /\ visualPrompts \in Seq(Text)
      /\ claimsToReview \in Seq(Text) /\ removed \in Seq(Text)
  BY <1>3, FieldsOf, MappedIs
<1>8. faq \in Seq(Answered) /\ Len(faq) = Len(c.faq)
  BY <1>4, FieldsOf, MappedIs
<1>9. WithoutChannels(c, s) \in Copies
  BY <1>1, <1>6, <1>7, <1>8 DEF Copies
<1>10. CleanTexts(WithoutChannels(c, s), s)
  BY <1>1, <1>5, <1>6 DEF CleanTexts
<1> QED BY <1>1, <1>8, <1>9, <1>10

LEMMA NormalizedIs ==
  ASSUME CopyAssumption, NEW c \in Copies, NEW s
  PROVE  /\ Normalized(c) \in Copies
         /\ Len(Normalized(c).faq) = Len(c.faq)
         /\ CleanTexts(c, s) => CleanTexts(Normalized(c), s)
<1> DEFINE hooks == [i \in DOMAIN c.hooks |-> Short(c.hooks[i])]
           tags == [i \in DOMAIN c.tags |-> Short(c.tags[i])]
           faq == [i \in DOMAIN c.faq |-> [q |-> Short(c.faq[i].q), a |-> Short(c.faq[i].a)]]
           assumptions == [i \in DOMAIN c.assumptions |-> Short(c.assumptions[i])]
           visualPrompts == [i \in DOMAIN c.visualPrompts |-> Short(c.visualPrompts[i])]
           claimsToReview == [i \in DOMAIN c.claimsToReview |-> Short(c.claimsToReview[i])]
           removed == [i \in DOMAIN c.removed |-> Short(c.removed[i])]
<1>1. Normalized(c) = [name |-> Short(c.name), hooks |-> hooks, tags |-> tags,
                       faq |-> faq, assumptions |-> assumptions,
                               visualPrompts |-> visualPrompts,
                               claimsToReview |-> claimsToReview, removed |-> removed]
  BY DEF Normalized, EachText
<1>2. \A t \in Text : Short(t) \in Text /\ (Clean(t, s) => Clean(Short(t), s))
  BY ShortIs
<1>3. /\ hooks \in [DOMAIN c.hooks -> Text] /\ tags \in [DOMAIN c.tags -> Text]
      /\ assumptions \in [DOMAIN c.assumptions -> Text]
      /\ visualPrompts \in [DOMAIN c.visualPrompts -> Text]
      /\ claimsToReview \in [DOMAIN c.claimsToReview -> Text]
      /\ removed \in [DOMAIN c.removed -> Text]
  BY <1>2, FieldsOf
<1>4. faq \in [DOMAIN c.faq -> Answered]
  <2>1. ASSUME NEW i \in DOMAIN c.faq
        PROVE  [q |-> Short(c.faq[i].q), a |-> Short(c.faq[i].a)] \in Answered
    BY <1>2, FieldsOf DEF Answered
  <2> QED BY <2>1
<1>5. CleanTexts(c, s) => /\ \A i \in DOMAIN hooks : Clean(hooks[i], s)
                          /\ \A i \in DOMAIN assumptions : Clean(assumptions[i], s)
                          /\ \A i \in DOMAIN visualPrompts : Clean(visualPrompts[i], s)
                          /\ \A i \in DOMAIN claimsToReview : Clean(claimsToReview[i], s)
                          /\ \A i \in DOMAIN removed : Clean(removed[i], s)
                          /\ Clean(Short(c.name), s)
  BY <1>2, FieldsOf DEF CleanTexts
<1>6. Short(c.name) \in Text
  BY <1>2, FieldsOf
<1> HIDE DEF hooks, tags, faq, assumptions, visualPrompts, claimsToReview, removed
<1>7. /\ hooks \in Seq(Text) /\ tags \in Seq(Text)
      /\ assumptions \in Seq(Text) /\ visualPrompts \in Seq(Text)
      /\ claimsToReview \in Seq(Text) /\ removed \in Seq(Text)
  BY <1>3, FieldsOf, MappedIs
<1>8. faq \in Seq(Answered) /\ Len(faq) = Len(c.faq)
  BY <1>4, FieldsOf, MappedIs
<1>9. Normalized(c) \in Copies
  BY <1>1, <1>6, <1>7, <1>8 DEF Copies
<1>10. CleanTexts(c, s) => CleanTexts(Normalized(c), s)
  BY <1>1, <1>5 DEF CleanTexts
<1> QED BY <1>1, <1>8, <1>9, <1>10

\* An answer without unnamed channels and over-long texts is a copy still.
LEMMA PreparedIs ==
  ASSUME CopyAssumption, NEW c \in Copies, NEW s
  PROVE  /\ Prepared(c, s) \in Copies
         /\ Len(Prepared(c, s).faq) = Len(c.faq)
         /\ CleanTexts(Prepared(c, s), s)
<1>1. PICK w \in Copies : w = WithoutChannels(c, s)
  BY WithoutChannelsIs
<1>2. Len(w.faq) = Len(c.faq) /\ CleanTexts(w, s)
  BY <1>1, WithoutChannelsIs
<1>3. Prepared(c, s) = Normalized(w)
  BY <1>1 DEF Prepared
<1> QED BY <1>2, <1>3, NormalizedIs

\* The server's own record has entries of the input only.
LEMMA WithOwnRecordIs ==
  ASSUME NEW c \in Copies, NEW s
  PROVE  /\ WithOwnRecord(c, s) \in Copies
         /\ WithOwnRecord(c, s) = [c EXCEPT !.removed = WithOwnRecord(c, s).removed]
         /\ \A t \in Range(WithOwnRecord(c, s).removed) :
               t \in Range(c.removed) /\ Range(t) \cap (Boasts \cup Figures) \subseteq s
<1> DEFINE kept == {t \in Range(c.removed) :
                      /\ Range(t) \cap Boasts # {}
                      /\ Range(t) \cap (Boasts \cup Figures) \subseteq s}
           r == Only(c.removed, kept)
<1>1. WithOwnRecord(c, s) = [c EXCEPT !.removed = r]
  BY DEF WithOwnRecord
<1>2. \A t \in kept : t \in Range(c.removed) /\ Range(t) \cap (Boasts \cup Figures) \subseteq s
  OBVIOUS
<1> HIDE DEF kept
<1>3. r \in Seq(Text) /\ \E m : Picks(r, c.removed, kept, m)
  BY FieldsOf, OnlyIs
<1>4. DOMAIN r = 1..Len(r)
  BY <1>3, LenProperties
<1> HIDE DEF r
<1>5. \A i \in DOMAIN r : r[i] \in kept
  BY <1>3, <1>4 DEF Picks
<1>6. \A t \in Range(r) : t \in kept
  BY <1>5 DEF Range
<1>7. WithOwnRecord(c, s).removed = r
  BY <1>1 DEF Copies
<1>8. WithOwnRecord(c, s) \in Copies
  BY <1>1, <1>3 DEF Copies
<1> QED BY <1>1, <1>2, <1>6, <1>7, <1>8

LEMMA WithSafeTagsIs ==
  ASSUME CopyAssumption, NEW c \in Copies, NEW s
  PROVE  /\ WithSafeTags(c, s) \in Copies
         /\ WithSafeTags(c, s) = [c EXCEPT !.tags = WithSafeTags(c, s).tags]
         /\ WithSafeTags(c, s).tags # <<>>
         /\ Distinct(WithSafeTags(c, s).tags)
<1> DEFINE kept == Only(c.tags, {t \in Range(c.tags) :
                                    t # <<>> /\ ~Ungrounded(t, s) /\ ~HasClaim(t)})
           formed == [i \in DOMAIN kept |-> Tag(kept[i])]
           tags == Once(formed)
           fallback == IF HasClaim(Tag(c.name)) THEN <<"#", "market">> ELSE Tag(c.name)
           r == IF tags = <<>> THEN <<fallback>> ELSE tags
<1>1. WithSafeTags(c, s) = [c EXCEPT !.tags = r]
  BY DEF WithSafeTags
<1>2. kept \in Seq(Text)
  BY FieldsOf, OnlyIs
<1> HIDE DEF kept
<1>3. \A i \in DOMAIN kept : kept[i] \in Text
  BY <1>2, LenProperties, ElementOfSeq
<1>4. formed \in [DOMAIN kept -> Text]
  BY <1>3, TagIs
<1> HIDE DEF formed
<1>5. formed \in Seq(Text)
  BY <1>2, <1>4, MappedIs
<1>6. tags \in Seq(Text) /\ Distinct(tags)
  BY <1>5, OnceIs
<1>7. fallback \in Text
  <2>1. <<"#", "market">> \in Text
    BY DEF CopyAssumption, Text
  <2>2. Tag(c.name) \in Text
    BY FieldsOf, TagIs
  <2> QED BY <2>1, <2>2
<1> HIDE DEF tags, fallback
<1>8. <<fallback>> \in Seq(Text) /\ Distinct(<<fallback>>) /\ <<fallback>> # <<>>
  BY <1>7 DEF Distinct
<1>9. r \in Seq(Text) /\ Distinct(r) /\ r # <<>>
  BY <1>6, <1>8
<1> HIDE DEF r
<1>10. WithSafeTags(c, s).tags = r
  BY <1>1 DEF Copies
<1>11. WithSafeTags(c, s) \in Copies
  BY <1>1, <1>9 DEF Copies
<1> QED BY <1>1, <1>9, <1>10, <1>11

\* There are as many free fallbacks as there are answers to replace: a fallback is
\* taken only by a question that is kept, and no two by the same one.
LEMMA EnoughFallbacks ==
  ASSUME FallbacksAssumption, NEW faq \in Seq(Answered), Len(faq) <= Len(Fallbacks),
         NEW bad \in SUBSET (1..Len(faq)), NEW m, NEW Kept,
         Kept = {faq[i].q : i \in (1..Len(faq)) \ bad},
         NEW free \in Seq(Answered),
         NEW open, open = {f \in Range(Fallbacks) : f.q \notin Kept},
         Picks(free, Fallbacks, open, m)
  PROVE  IsFiniteSet(bad) /\ Cardinality(bad) \in Nat /\ Cardinality(bad) <= Len(free)
<1> DEFINE n == Len(faq)
           N == Len(Fallbacks)
           k == Len(free)
           good == (1..n) \ bad
           Open == {i \in 1..N : Fallbacks[i].q \notin Kept}
           Taken == (1..N) \ Open
           At(i) == CHOOSE j \in good : faq[j].q = Fallbacks[i].q
           f == [i \in Taken |-> At(i)]
<1>1. n \in Nat /\ N \in Nat /\ k \in Nat /\ n <= N
  BY LenProperties DEF FallbacksAssumption
<1>2. \A i, j \in 1..N : Fallbacks[i].q = Fallbacks[j].q => i = j
  BY LenProperties DEF FallbacksAssumption
<1>3. DOMAIN Fallbacks = 1..N
  BY LenProperties DEF FallbacksAssumption
<1>4. bad \subseteq 1..n /\ Kept = {faq[i].q : i \in good}
  OBVIOUS
<1> HIDE DEF n, N, k
<1>5. IsFiniteSet(1..n) /\ Cardinality(1..n) = n /\ IsFiniteSet(1..N) /\ Cardinality(1..N) = N
      /\ IsFiniteSet(1..k) /\ Cardinality(1..k) = k
  BY <1>1, FS_Interval
<1>6. m \in Surjection(1..k, Open)
  <2>1. m \in [1..k -> 1..N]
        /\ (\A i \in 1..k : Fallbacks[m[i]] \in open)
        /\ (\A i \in 1..N : Fallbacks[i] \in open => \E j \in 1..k : m[j] = i)
    BY DEF Picks, k, N
  <2>2. \A i \in 1..N : Fallbacks[i] \in open <=> i \in Open
    BY <1>3 DEF Range
  <2>3. m \in [1..k -> Open]
    BY <2>1, <2>2
  <2>4. \A i \in Open : \E j \in 1..k : m[j] = i
    BY <2>1, <2>2
  <2> HIDE DEF Open
  <2> QED BY <2>3, <2>4 DEF Surjection
<1>7. Cardinality(Open) <= k /\ IsFiniteSet(Open)
  <2> HIDE DEF Open
  <2> QED BY <1>5, <1>6, FS_Surjection
<1>8. f \in Injection(Taken, good)
  <2>1. ASSUME NEW i \in Taken PROVE At(i) \in good /\ faq[At(i)].q = Fallbacks[i].q
    <3>1. Fallbacks[i].q \in Kept
      OBVIOUS
    <3>2. \E j \in good : faq[j].q = Fallbacks[i].q
      <4> HIDE DEF good
      <4> QED BY <1>4, <3>1
    <3> HIDE DEF good
    <3> QED BY <3>2
  <2>2. Taken \subseteq 1..N
    OBVIOUS
  <2> HIDE DEF Taken, good, At
  <2>3. f \in [Taken -> good]
    BY <2>1
  <2>4. ASSUME NEW i \in Taken, NEW j \in Taken, f[i] = f[j] PROVE i = j
    <3>1. Fallbacks[i].q = Fallbacks[j].q
      BY <2>1, <2>4
    <3> QED BY <1>2, <2>2, <3>1
  <2> HIDE DEF f
  <2> QED BY <2>3, <2>4 DEF Injection, IsInjective
<1>9. IsFiniteSet(good) /\ Cardinality(good) = n - Cardinality(bad)
  <2>1. (1..n) \cap bad = bad
    BY <1>4
  <2>2. IsFiniteSet((1..n) \ bad)
        /\ Cardinality((1..n) \ bad) = Cardinality(1..n) - Cardinality((1..n) \cap bad)
    BY <1>5, FS_Difference, Zenon
  <2> QED BY <1>5, <2>1, <2>2
<1>10. IsFiniteSet(bad) /\ Cardinality(bad) \in Nat
  BY <1>4, <1>5, FS_Subset, FS_CardinalityType
<1>11. Cardinality(Taken) <= Cardinality(good)
  <2> HIDE DEF Taken, good, f
  <2> QED BY <1>8, <1>9, FS_Injection
<1>12. Cardinality(Taken) = N - Cardinality(Open)
  <2>1. (1..N) \cap Open = Open
    OBVIOUS
  <2> HIDE DEF Open
  <2>2. Cardinality((1..N) \ Open) = Cardinality(1..N) - Cardinality((1..N) \cap Open)
    BY <1>5, FS_Difference, Zenon
  <2> QED BY <1>5, <2>1, <2>2
<1>13. Cardinality(Open) \in Nat
  <2> HIDE DEF Open
  <2> QED BY <1>7, FS_CardinalityType
<1> HIDE DEF Taken, Open, good
<1>14. N - Cardinality(Open) <= n - Cardinality(bad)
  BY <1>9, <1>11, <1>12
<1>15. Cardinality(bad) <= k
  BY <1>1, <1>7, <1>10, <1>13, <1>14
<1> QED BY <1>10, <1>15 DEF k

\* The rank of a member of a set of numbers, counted from one, is its own.
LEMMA RankIs ==
  ASSUME NEW n \in Nat, NEW bad \in SUBSET (1..n), IsFiniteSet(bad), NEW i \in bad
  PROVE  /\ Cardinality({j \in 1..i : j \in bad}) \in 1..Cardinality(bad)
         /\ \A k \in bad : k < i =>
               Cardinality({j \in 1..k : j \in bad}) # Cardinality({j \in 1..i : j \in bad})
<1> DEFINE R(k) == {j \in 1..k : j \in bad}
<1>1. ASSUME NEW k \in bad
      PROVE  /\ IsFiniteSet(R(k)) /\ Cardinality(R(k)) \in Nat
             /\ Cardinality(R(k)) <= Cardinality(bad) /\ k \in R(k)
  <2>1. R(k) \in SUBSET bad /\ k \in R(k)
    OBVIOUS
  <2> HIDE DEF R
  <2> QED BY <2>1, FS_Subset, FS_CardinalityType
<1>2. Cardinality(bad) \in Nat
  BY FS_CardinalityType
<1>3. Cardinality(R(i)) # 0
  <2> HIDE DEF R
  <2> QED BY <1>1, FS_EmptySet
<1>4. ASSUME NEW k \in bad, k < i PROVE Cardinality(R(k)) # Cardinality(R(i))
  <2>1. R(k) \in SUBSET R(i) /\ i \notin R(k)
    BY <1>4
  <2> HIDE DEF R
  <2> QED BY <1>1, <2>1, FS_Subset
<1>5. Cardinality(R(i)) \in 1..Cardinality(bad)
  <2> HIDE DEF R
  <2> QED BY <1>1, <1>2, <1>3
<1> QED BY <1>4, <1>5

\* Questions that differ still differ when some have been replaced, and nothing in
\* them or their answers is ungrounded.
LEMMA WithSafeFaqIs ==
  ASSUME FallbacksAssumption, NEW c \in Copies, Len(c.faq) <= Len(Fallbacks), NEW s
  PROVE  /\ WithSafeFaq(c, s) \in Copies
         /\ WithSafeFaq(c, s) = [c EXCEPT !.faq = WithSafeFaq(c, s).faq]
         /\ \A i \in DOMAIN WithSafeFaq(c, s).faq :
               ~Ungrounded(WithSafeFaq(c, s).faq[i].q \o WithSafeFaq(c, s).faq[i].a, s)
         /\ Distinct(Questions(c)) => Distinct(Questions(WithSafeFaq(c, s)))
<1> DEFINE faq == c.faq
           Bad(i) == Ungrounded(faq[i].q \o faq[i].a, s)
           Kept == {faq[i].q : i \in {j \in DOMAIN faq : ~Bad(j)}}
           open == {f \in Range(Fallbacks) : f.q \notin Kept}
           free == Only(Fallbacks, open)
           Rank(i) == Cardinality({j \in 1..i : Bad(j)})
           r == [i \in DOMAIN faq |-> IF Bad(i) THEN free[Rank(i)] ELSE faq[i]]
           n == Len(faq)
           bad == {i \in 1..n : Bad(i)}
<1>1. WithSafeFaq(c, s) = [c EXCEPT !.faq = r]
  BY DEF WithSafeFaq
<1>2. /\ faq \in Seq(Answered) /\ DOMAIN faq = 1..n /\ n \in Nat /\ n <= Len(Fallbacks)
      /\ \A i \in 1..n : faq[i] \in Answered
  BY FieldsOf, LenProperties
<1>3. Fallbacks \in Seq(Answered) /\ DOMAIN Fallbacks = 1..Len(Fallbacks)
      /\ \A k \in 1..Len(Fallbacks) : Fallbacks[k] \in Answered
  BY LenProperties, ElementOfSeq DEF FallbacksAssumption
<1> HIDE DEF faq
<1>4. free \in Seq(Answered) /\ \E m : Picks(free, Fallbacks, open, m)
  <2> HIDE DEF open
  <2> QED BY <1>3, OnlyIs
<1>5. PICK m : Picks(free, Fallbacks, open, m)
  BY <1>4
<1>6. bad \in SUBSET (1..n) /\ Kept = {faq[i].q : i \in (1..n) \ bad}
  BY <1>2
<1>7. \A i \in 1..n : i \in bad <=> Bad(i)
  OBVIOUS
<1>8. \A i \in 1..n : Rank(i) = Cardinality({j \in 1..i : j \in bad})
  <2> SUFFICES ASSUME NEW i \in 1..n
               PROVE  {j \in 1..i : Bad(j)} = {j \in 1..i : j \in bad}
    OBVIOUS
  <2>1. \A j \in 1..i : j \in 1..n
    BY <1>2
  <2> QED BY <2>1
<1>9. \A i \in 1..n : i \notin bad => faq[i].q \in Kept
  BY <1>2
<1>10. \A f \in open : f.q \notin Kept
  OBVIOUS
<1>11. open = {f \in Range(Fallbacks) : f.q \notin Kept}
  OBVIOUS
<1> HIDE DEF bad, open, Kept, free
<1>12. IsFiniteSet(bad) /\ Cardinality(bad) \in Nat /\ Cardinality(bad) <= Len(free)
  BY <1>2, <1>4, <1>5, <1>6, <1>11, EnoughFallbacks DEF n
<1>13. \A i \in bad : Rank(i) \in 1..Cardinality(bad)
  <2> HIDE DEF Rank, n
  <2>1. \A i \in bad : Cardinality({j \in 1..i : j \in bad}) \in 1..Cardinality(bad)
    BY <1>2, <1>6, <1>12, RankIs
  <2> QED BY <1>6, <1>8, <2>1
<1>14. \A i, k \in bad : i # k => Rank(i) # Rank(k)
  <2> HIDE DEF Rank, n
  <2>1. \A i, k \in bad : k < i => Rank(k) # Rank(i)
    BY <1>2, <1>6, <1>8, <1>12, RankIs
  <2>2. \A i, k \in bad : i # k => i < k \/ k < i
    BY <1>2, <1>6
  <2> QED BY <2>1, <2>2
<1> HIDE DEF Rank, Bad
<1>15. \A i \in bad : Rank(i) \in 1..Len(free)
  <2>1. Len(free) \in Nat
    BY <1>4, LenProperties
  <2> QED BY <1>12, <1>13, <2>1
<1>16. \A j \in 1..Len(free) : m[j] \in 1..Len(Fallbacks) /\ free[j] = Fallbacks[m[j]]
                               /\ free[j] \in open
  BY <1>5 DEF Picks
<1>17. \A j, k \in 1..Len(free) : j # k => m[j] # m[k]
  BY <1>5 DEF Picks
<1>18. \A i \in 1..n : IF i \in bad THEN r[i] = free[Rank(i)] ELSE r[i] = faq[i]
  BY <1>2, <1>7
<1>19. r \in [DOMAIN faq -> Answered]
  <2>1. \A i \in 1..n : (IF Bad(i) THEN free[Rank(i)] ELSE faq[i]) \in Answered
    BY <1>2, <1>3, <1>7, <1>15, <1>16
  <2> QED BY <1>2, <2>1
<1> HIDE DEF r
<1>20. r \in Seq(Answered) /\ Len(r) = n /\ DOMAIN r = 1..n
  BY <1>2, <1>19, MappedIs DEF n
<1>21. WithSafeFaq(c, s).faq = r
  BY <1>1 DEF Copies
<1>22. WithSafeFaq(c, s) \in Copies
  BY <1>1, <1>20 DEF Copies
<1>23. ASSUME NEW i \in 1..n PROVE ~Ungrounded(r[i].q \o r[i].a, s)
  <2>1. CASE i \in bad
    <3>1. PICK k \in DOMAIN Fallbacks : r[i] = Fallbacks[k]
      BY <1>3, <1>15, <1>16, <1>18, <2>1
    <3>2. Range(Fallbacks[k].q \o Fallbacks[k].a) \cap Terms = {}
      BY DEF FallbacksAssumption
    <3> QED BY <3>1, <3>2 DEF Ungrounded, Range
  <2>2. CASE i \notin bad
    <3>1. r[i] = faq[i] /\ ~Bad(i)
      BY <1>7, <1>18, <2>2
    <3> QED BY <3>1 DEF Bad
  <2> QED BY <2>1, <2>2
<1>24. ASSUME Distinct(Questions(c)), NEW i \in 1..n, NEW k \in 1..n, r[i].q = r[k].q
       PROVE  i = k
  <2>1. ASSUME NEW j \in bad PROVE r[j] = free[Rank(j)] /\ Rank(j) \in 1..Len(free) /\ j \in 1..n
    BY <1>6, <1>15, <1>18
  <2>2. \A j \in bad : r[j].q \notin Kept
    BY <1>10, <1>16, <2>1
  <2>3. CASE i \in bad /\ k \in bad
    <3>1. Fallbacks[m[Rank(i)]].q = Fallbacks[m[Rank(k)]].q
      BY <1>16, <1>24, <2>1, <2>3
    <3>2. m[Rank(i)] \in DOMAIN Fallbacks /\ m[Rank(k)] \in DOMAIN Fallbacks
      BY <1>3, <1>16, <2>1, <2>3
    <3>3. \A a, b \in DOMAIN Fallbacks : Fallbacks[a].q = Fallbacks[b].q => a = b
      BY DEF FallbacksAssumption
    <3>4. m[Rank(i)] = m[Rank(k)]
      BY <3>1, <3>2, <3>3
    <3> QED BY <1>14, <1>17, <2>1, <2>3, <3>4
  <2>4. CASE i \in bad /\ k \notin bad
    BY <1>9, <1>18, <1>24, <2>2, <2>4
  <2>5. CASE i \notin bad /\ k \in bad
    BY <1>9, <1>18, <1>24, <2>2, <2>5
  <2>6. CASE i \notin bad /\ k \notin bad
    <3>1. faq[i].q = faq[k].q
      BY <1>18, <1>24, <2>6
    <3>2. Questions(c)[i] = Questions(c)[k] /\ DOMAIN Questions(c) = 1..n
      BY <1>2, <3>1 DEF Questions, faq
    <3> QED BY <1>24, <3>2 DEF Distinct
  <2> QED BY <2>3, <2>4, <2>5, <2>6
<1>25. ASSUME Distinct(Questions(c)) PROVE Distinct(Questions(WithSafeFaq(c, s)))
  <2>1. Questions(WithSafeFaq(c, s)) = [i \in 1..n |-> r[i].q]
    BY <1>20, <1>21 DEF Questions
  <2>2. \A i, k \in 1..n : r[i].q = r[k].q => i = k
    BY <1>24, <1>25
  <2> QED BY <2>1, <2>2 DEF Distinct
<1> QED BY <1>1, <1>20, <1>21, <1>22, <1>23, <1>25

------------------------------------------------------------------------------
(* The copy as it is checked *)

LEMMA RepairedIs ==
  ASSUME CopyAssumption, FallbacksAssumption,
         NEW c \in Copies, Len(c.faq) <= Len(Fallbacks), NEW s,
         NEW p, p = Prepared(c, s), NEW r, r = Repaired(c, s)
  PROVE  /\ p \in Copies /\ r \in Copies
         /\ r.hooks = p.hooks /\ r.assumptions = p.assumptions
         /\ CleanTexts(r, s)
         /\ r.tags # <<>> /\ Distinct(r.tags)
         /\ Distinct(Questions(p)) => Distinct(Questions(r))
         /\ \A i \in DOMAIN r.faq : ~Ungrounded(r.faq[i].q \o r.faq[i].a, s)
         /\ \A t \in Range(r.removed) : Range(t) \cap (Boasts \cup Figures) \subseteq s
<1>1. p \in Copies /\ Len(p.faq) = Len(c.faq) /\ CleanTexts(p, s)
  BY PreparedIs
<1>2. PICK w \in Copies : w = WithOwnRecord(p, s)
  BY <1>1, WithOwnRecordIs
<1>3. /\ w = [p EXCEPT !.removed = w.removed]
      /\ \A t \in Range(w.removed) :
            t \in Range(p.removed) /\ Range(t) \cap (Boasts \cup Figures) \subseteq s
  BY <1>1, <1>2, WithOwnRecordIs
<1>4. /\ w.faq = p.faq /\ w.name = p.name /\ w.hooks = p.hooks /\ w.assumptions = p.assumptions
      /\ w.visualPrompts = p.visualPrompts /\ w.claimsToReview = p.claimsToReview
  BY <1>1, <1>3 DEF Copies
<1>5. PICK f \in Copies : f = WithSafeFaq(w, s)
  BY <1>1, <1>4, WithSafeFaqIs
<1>6. /\ f = [w EXCEPT !.faq = f.faq]
      /\ \A i \in DOMAIN f.faq : ~Ungrounded(f.faq[i].q \o f.faq[i].a, s)
      /\ Distinct(Questions(w)) => Distinct(Questions(f))
  BY <1>1, <1>4, <1>5, WithSafeFaqIs
<1>7. /\ f.removed = w.removed /\ f.name = w.name /\ f.hooks = w.hooks
      /\ f.assumptions = w.assumptions
      /\ f.visualPrompts = w.visualPrompts /\ f.claimsToReview = w.claimsToReview
  BY <1>6 DEF Copies
<1>8. r = WithSafeTags(f, s)
  BY <1>2, <1>5 DEF Repaired
<1>9. /\ r \in Copies /\ r = [f EXCEPT !.tags = r.tags]
      /\ r.tags # <<>> /\ Distinct(r.tags)
  BY <1>8, WithSafeTagsIs
<1>10. /\ r.removed = f.removed /\ r.name = f.name /\ r.hooks = f.hooks
       /\ r.assumptions = f.assumptions /\ r.faq = f.faq
       /\ r.visualPrompts = f.visualPrompts /\ r.claimsToReview = f.claimsToReview
  BY <1>9 DEF Copies
<1>11. /\ r.name = p.name /\ r.hooks = p.hooks /\ r.assumptions = p.assumptions
       /\ r.visualPrompts = p.visualPrompts /\ r.claimsToReview = p.claimsToReview
       /\ r.removed = w.removed
  BY <1>4, <1>7, <1>10
<1>12. CleanTexts(r, s)
  <2>1. \A i \in DOMAIN r.removed : r.removed[i] \in Range(p.removed)
    BY <1>3, <1>11 DEF Range
  <2>2. \A i \in DOMAIN r.removed : Clean(r.removed[i], s)
    BY <1>1, <2>1 DEF CleanTexts, Range
  <2> QED BY <1>1, <1>11, <2>2 DEF CleanTexts
<1>13. Distinct(Questions(p)) => Distinct(Questions(r))
  BY <1>4, <1>6, <1>10 DEF Questions
<1>14. \A i \in DOMAIN r.faq : ~Ungrounded(r.faq[i].q \o r.faq[i].a, s)
  BY <1>6, <1>10
<1> QED BY <1>1, <1>3, <1>9, <1>11, <1>12, <1>13, <1>14

\* The one text that is checked has every text of the copy in it, and no word that is
\* in none of them.
LEMMA PublicCopyIs ==
  ASSUME NEW c \in Copies
  PROVE  /\ PublicCopy(c) \in Text
         /\ \A t \in PublicTexts(c) : t \in Text /\ Within(t, PublicCopy(c))
         /\ \A i \in DOMAIN PublicCopy(c) :
               \/ PublicCopy(c)[i] \in Range(c.name)
               \/ \E j \in DOMAIN c.assumptions : PublicCopy(c)[i] \in Range(c.assumptions[j])
               \/ \E j \in DOMAIN c.hooks : PublicCopy(c)[i] \in Range(c.hooks[j])
               \/ \E j \in DOMAIN c.tags : PublicCopy(c)[i] \in Range(c.tags[j])
               \/ \E j \in DOMAIN c.faq : PublicCopy(c)[i] \in Range(c.faq[j].q \o c.faq[j].a)
<1> DEFINE qa == [i \in DOMAIN c.faq |-> c.faq[i].q \o c.faq[i].a]
<1>1. /\ c.name \in Text /\ c.assumptions \in Seq(Text) /\ c.hooks \in Seq(Text)
      /\ c.tags \in Seq(Text) /\ c.faq \in Seq(Answered)
  BY FieldsOf
<1>2. \A i \in DOMAIN c.faq : /\ c.faq[i].q \in Text /\ c.faq[i].a \in Text
                              /\ c.faq[i].q \o c.faq[i].a \in Text
  BY FieldsOf, ConcatProperties DEF Text
<1>3. qa \in Seq(Text) /\ DOMAIN qa = DOMAIN c.faq
  <2>1. qa \in [DOMAIN c.faq -> Text] /\ DOMAIN qa = DOMAIN c.faq
    BY <1>2
  <2> HIDE DEF qa
  <2> QED BY <1>1, <2>1, MappedIs
<1>4. \A i \in DOMAIN c.faq : qa[i] = c.faq[i].q \o c.faq[i].a
  OBVIOUS
<1> HIDE DEF qa
<1>5. ASSUME NEW ss \in Seq(Text)
      PROVE  /\ FlattenSeq(ss) \in Text
             /\ \A i \in DOMAIN ss : Within(ss[i], FlattenSeq(ss))
             /\ \A w \in Range(FlattenSeq(ss)) : \E j \in DOMAIN ss : w \in Range(ss[j])
  <2>1. DOMAIN ss = 1..Len(ss)
    BY LenProperties
  <2>2. FlattenSeq(ss) \in Text
    BY FlattenIs
  <2>3. DOMAIN FlattenSeq(ss) = 1..Len(FlattenSeq(ss))
    BY <2>2, LenProperties DEF Text
  <2>4. \A w \in Range(FlattenSeq(ss)) : \E i \in 1..Len(FlattenSeq(ss)) : w = FlattenSeq(ss)[i]
    BY <2>3 DEF Range
  <2> QED BY <2>1, <2>2, <2>4, FlattenIs
<1>6. PICK A \in Text : A = FlattenSeq(c.assumptions)
  BY <1>1, <1>5
<1>7. PICK H \in Text : H = FlattenSeq(c.hooks)
  BY <1>1, <1>5
<1>8. PICK T \in Text : T = FlattenSeq(c.tags)
  BY <1>1, <1>5
<1>9. PICK Q \in Text : Q = FlattenSeq(qa)
  BY <1>3, <1>5
<1>10. PublicCopy(c) = (((c.name \o A) \o H) \o T) \o Q
  BY <1>6, <1>7, <1>8, <1>9 DEF PublicCopy, qa
<1>11. ASSUME NEW t \in Text, NEW u \in Text
       PROVE  t \o u \in Text /\ Range(t \o u) = Range(t) \cup Range(u)
  BY ConcatProperties, RangeConcatenation DEF Text
<1>12. PICK u1 \in Text : u1 = c.name \o A
  BY <1>1, <1>11
<1>13. PICK u2 \in Text : u2 = u1 \o H
  BY <1>11
<1>14. PICK u3 \in Text : u3 = u2 \o T
  BY <1>11
<1>15. PICK u4 \in Text : u4 = u3 \o Q
  BY <1>11
<1>16. PublicCopy(c) = u4
  BY <1>10, <1>12, <1>13, <1>14, <1>15
<1>17. ASSUME NEW t \in Text
       PROVE  /\ (Within(t, c.name) \/ Within(t, A)) => Within(t, u1)
              /\ (Within(t, u1) \/ Within(t, H)) => Within(t, u2)
              /\ (Within(t, u2) \/ Within(t, T)) => Within(t, u3)
              /\ (Within(t, u3) \/ Within(t, Q)) => Within(t, u4)
  BY <1>1, <1>12, <1>13, <1>14, <1>15, WithinLonger
<1>18. Within(c.name, u4)
  BY <1>1, <1>17, WithinItself
<1>19. \A i \in DOMAIN c.assumptions : c.assumptions[i] \in Text /\ Within(c.assumptions[i], u4)
  BY <1>1, <1>5, <1>6, <1>17, FieldsOf
<1>20. \A i \in DOMAIN c.hooks : c.hooks[i] \in Text /\ Within(c.hooks[i], u4)
  BY <1>1, <1>5, <1>7, <1>17, FieldsOf
<1>21. \A i \in DOMAIN c.tags : c.tags[i] \in Text /\ Within(c.tags[i], u4)
  BY <1>1, <1>5, <1>8, <1>17, FieldsOf
<1>22. ASSUME NEW i \in DOMAIN c.faq
       PROVE  Within(c.faq[i].q, u4) /\ Within(c.faq[i].a, u4)
  <2>1. PICK q \in Text, a \in Text : q = c.faq[i].q /\ a = c.faq[i].a
    BY <1>2
  <2>2. Within(q \o a, Q)
    BY <1>3, <1>4, <1>5, <1>9, <2>1
  <2>3. PICK d \in Nat : /\ d + Len(q \o a) <= Len(Q)
                         /\ \A k \in 1..Len(q \o a) : Q[d + k] = (q \o a)[k]
    BY <2>2 DEF Within
  <2>4. /\ Len(q \o a) = Len(q) + Len(a)
        /\ \A k \in 1..(Len(q) + Len(a)) : (q \o a)[k] = IF k <= Len(q) THEN q[k] ELSE a[k - Len(q)]
    BY ConcatProperties DEF Text
  <2>5. Len(q) \in Nat /\ Len(a) \in Nat /\ Len(Q) \in Nat
    BY LenProperties DEF Text
  <2>6. Within(q, Q)
    <3>1. ASSUME NEW k \in 1..Len(q) PROVE Q[d + k] = q[k]
      <4>1. k \in 1..(Len(q) + Len(a)) /\ k <= Len(q)
        BY <2>5
      <4> QED BY <2>3, <2>4, <4>1
    <3>2. d + Len(q) <= Len(Q)
      BY <2>3, <2>4, <2>5
    <3> QED BY <3>1, <3>2 DEF Within
  <2>7. Within(a, Q)
    <3>1. PICK e \in Nat : e = d + Len(q)
      BY <2>5
    <3>2. ASSUME NEW k \in 1..Len(a) PROVE Q[e + k] = a[k]
      <4>1. PICK b \in Nat : b = Len(q) + k
        BY <2>5
      <4>2. b \in 1..(Len(q) + Len(a)) /\ ~(b <= Len(q)) /\ b - Len(q) = k /\ e + k = d + b
        BY <2>5, <3>1, <4>1
      <4>3. (q \o a)[b] = a[k] /\ Q[d + b] = (q \o a)[b]
        BY <2>3, <2>4, <4>2
      <4> QED BY <4>2, <4>3
    <3>3. e + Len(a) <= Len(Q)
      BY <2>3, <2>4, <2>5, <3>1
    <3> QED BY <3>2, <3>3 DEF Within
  <2> QED BY <1>17, <2>1, <2>6, <2>7
<1>23. ASSUME NEW t \in PublicTexts(c) PROVE t \in Text /\ Within(t, u4)
  <2>1. \/ t = c.name
        \/ \E i \in DOMAIN c.hooks : t = c.hooks[i]
        \/ \E i \in DOMAIN c.tags : t = c.tags[i]
        \/ \E i \in DOMAIN c.assumptions : t = c.assumptions[i]
        \/ \E i \in DOMAIN c.faq : t = c.faq[i].q \/ t = c.faq[i].a
    BY DEF PublicTexts, Range
  <2> QED BY <1>1, <1>2, <1>18, <1>19, <1>20, <1>21, <1>22, <2>1
<1>24. Range(u4) = Range(c.name) \cup Range(A) \cup Range(H) \cup Range(T) \cup Range(Q)
  <2>1. Range(u1) = Range(c.name) \cup Range(A)
    BY <1>1, <1>11, <1>12
  <2>2. Range(u2) = Range(u1) \cup Range(H)
    BY <1>11, <1>13
  <2>3. Range(u3) = Range(u2) \cup Range(T)
    BY <1>11, <1>14
  <2>4. Range(u4) = Range(u3) \cup Range(Q)
    BY <1>11, <1>15
  <2> QED BY <2>1, <2>2, <2>3, <2>4
<1>25. /\ \A w \in Range(A) : \E j \in DOMAIN c.assumptions : w \in Range(c.assumptions[j])
       /\ \A w \in Range(H) : \E j \in DOMAIN c.hooks : w \in Range(c.hooks[j])
       /\ \A w \in Range(T) : \E j \in DOMAIN c.tags : w \in Range(c.tags[j])
  BY <1>1, <1>5, <1>6, <1>7, <1>8
<1>26. \A w \in Range(Q) : \E j \in DOMAIN c.faq : w \in Range(c.faq[j].q \o c.faq[j].a)
  <2>1. \A w \in Range(Q) : \E j \in DOMAIN c.faq : w \in Range(qa[j])
    BY <1>3, <1>5, <1>9
  <2> QED BY <1>4, <2>1
<1>27. \A i \in DOMAIN u4 : u4[i] \in Range(u4)
  BY DEF Range
<1> QED BY <1>16, <1>23, <1>24, <1>25, <1>26, <1>27

\* Nothing is wrong with a text of a safe copy.
LEMMA SafeTexts ==
  ASSUME NEW c \in Copies, NEW s, Safe(c, s)
  PROVE  \A t \in PublicTexts(c) : ~Ungrounded(t, s) /\ ~HasClaim(t)
<1>1. PICK u \in Text : u = PublicCopy(c)
  BY PublicCopyIs
<1>2. \A t \in PublicTexts(c) : t \in Text /\ Within(t, u)
  BY <1>1, PublicCopyIs
<1>3. ~Ungrounded(u, s) /\ ~HasClaim(u)
  BY <1>1 DEF Safe
<1> QED BY <1>2, <1>3, WithinFlaws

\* A channel the input does not name is in no list that is not shown.
LEMMA HiddenTextsAre ==
  ASSUME CopyAssumption, FallbacksAssumption,
         NEW c \in Copies, Len(c.faq) <= Len(Fallbacks), NEW s,
         NEW r, r = Repaired(c, s)
  PROVE  \A t \in HiddenTexts(r) : Range(t) \cap Channels \subseteq s
<1>1. r \in Copies /\ CleanTexts(r, s)
  BY RepairedIs
<1>2. ASSUME NEW t \in HiddenTexts(r) PROVE t \in Text /\ Clean(t, s)
  <2>1. \/ \E i \in DOMAIN r.visualPrompts : t = r.visualPrompts[i]
        \/ \E i \in DOMAIN r.claimsToReview : t = r.claimsToReview[i]
        \/ \E i \in DOMAIN r.removed : t = r.removed[i]
    BY DEF HiddenTexts, Range
  <2> QED BY <1>1, <2>1, FieldsOf DEF CleanTexts
<1>3. ASSUME NEW t \in Text, Clean(t, s) PROVE Range(t) \cap Channels \subseteq s
  <2>1. DOMAIN t = 1..Len(t)
    BY LenProperties DEF Text
  <2> QED BY <1>3, <2>1 DEF Clean, Range
<1> QED BY <1>2, <1>3

\* What makes a repaired copy unsafe.
LEMMA UnsafeBecause ==
  ASSUME CopyAssumption, FallbacksAssumption,
         NEW c \in Copies, Len(c.faq) <= Len(Fallbacks), NEW s,
         NEW r, r = Repaired(c, s), ~Safe(r, s)
  PROVE  \/ HasClaim(PublicCopy(r))
         \/ \E t \in Range(r.tags) : Ungrounded(t, s)
         \/ \E t \in {r.name} \cup Range(r.hooks) \cup Range(r.assumptions) :
                \E i \in DOMAIN t : t[i] \in (Terms \ Channels) \ s
<1> SUFFICES ASSUME ~HasClaim(PublicCopy(r))
             PROVE  \/ \E t \in Range(r.tags) : Ungrounded(t, s)
                    \/ \E t \in {r.name} \cup Range(r.hooks) \cup Range(r.assumptions) :
                           \E i \in DOMAIN t : t[i] \in (Terms \ Channels) \ s
  OBVIOUS
<1>1. /\ r \in Copies /\ CleanTexts(r, s)
      /\ \A i \in DOMAIN r.faq : ~Ungrounded(r.faq[i].q \o r.faq[i].a, s)
  BY RepairedIs
<1>2. PICK i \in DOMAIN PublicCopy(r) : PublicCopy(r)[i] \in Terms \ s
  BY DEF Safe, Ungrounded
<1>3. PICK w : w = PublicCopy(r)[i]
  OBVIOUS
<1>4. \/ w \in Range(r.name)
      \/ \E j \in DOMAIN r.assumptions : w \in Range(r.assumptions[j])
      \/ \E j \in DOMAIN r.hooks : w \in Range(r.hooks[j])
      \/ \E j \in DOMAIN r.tags : w \in Range(r.tags[j])
      \/ \E j \in DOMAIN r.faq : w \in Range(r.faq[j].q \o r.faq[j].a)
  BY <1>1, <1>3, PublicCopyIs
<1>5. ASSUME NEW t \in Text, Clean(t, s), w \in Range(t)
      PROVE  \E k \in DOMAIN t : t[k] \in (Terms \ Channels) \ s
  <2>1. DOMAIN t = 1..Len(t)
    BY LenProperties DEF Text
  <2> QED BY <1>2, <1>3, <1>5, <2>1 DEF Clean, Range
<1>6. ASSUME NEW t, w \in Range(t) PROVE Ungrounded(t, s)
  BY <1>2, <1>3, <1>6 DEF Ungrounded, Range
<1>7. /\ \A j \in DOMAIN r.hooks : r.hooks[j] \in Text /\ r.hooks[j] \in Range(r.hooks)
      /\ \A j \in DOMAIN r.assumptions :
            r.assumptions[j] \in Text /\ r.assumptions[j] \in Range(r.assumptions)
      /\ \A j \in DOMAIN r.tags : r.tags[j] \in Range(r.tags)
      /\ r.name \in Text
  BY <1>1, FieldsOf DEF Range
<1>8. CASE w \in Range(r.name)
  BY <1>1, <1>5, <1>7, <1>8 DEF CleanTexts
<1>9. CASE \E j \in DOMAIN r.assumptions : w \in Range(r.assumptions[j])
  BY <1>1, <1>5, <1>7, <1>9 DEF CleanTexts
<1>10. CASE \E j \in DOMAIN r.hooks : w \in Range(r.hooks[j])
  BY <1>1, <1>5, <1>7, <1>10 DEF CleanTexts
<1>11. CASE \E j \in DOMAIN r.tags : w \in Range(r.tags[j])
  BY <1>6, <1>7, <1>11
<1>12. CASE \E j \in DOMAIN r.faq : w \in Range(r.faq[j].q \o r.faq[j].a)
  BY <1>1, <1>6, <1>12
<1> QED BY <1>4, <1>8, <1>9, <1>10, <1>11, <1>12

------------------------------------------------------------------------------
(* The invariant *)

\* A call is made only while one is left, and a spec is stored once.
CopyInv ==
    /\ TypeOK
    /\ phase = "ready" => calls < MaxCalls /\ spec = NoCopy
    /\ phase = "failed" => error # NoError
    /\ StoredCopyIsGrounded
    /\ OnlyAssumptionsFailLate
    /\ RepairedFlawsDoNotReject

LEMMA AnswersAreRepaired ==
  ASSUME CopyAssumption, AnswersAssumption, FallbacksAssumption, CopyInv,
         NEW c \in Candidates, Answer(c)
  PROVE  CopyInv'
<1>1. c \in Copies /\ Len(c.faq) <= Len(Fallbacks)
  BY DEF AnswersAssumption
<1>2. PICK p \in Copies, r \in Copies : p = Prepared(c, source) /\ r = Repaired(c, source)
  BY <1>1, RepairedIs
<1>3. /\ r.hooks = p.hooks /\ r.assumptions = p.assumptions
      /\ r.tags # <<>> /\ Distinct(r.tags)
      /\ Distinct(Questions(p)) => Distinct(Questions(r))
      /\ \A t \in Range(r.removed) : Range(t) \cap (Boasts \cup Figures) \subseteq source
  BY <1>1, <1>2, RepairedIs
<1>4. /\ phase = "ready" /\ calls' = calls + 1 /\ answer' = c /\ source' = source
      /\ \/ /\ ~CopyValid(p) /\ Fail("request_failed")
         \/ /\ CopyValid(p) /\ ~Safe(r, source) /\ Fail("unsafe")
         \/ /\ CopyValid(p) /\ Safe(r, source) /\ ~SpecValid(r) /\ Fail("request_failed")
         \/ /\ CopyValid(p) /\ Safe(r, source) /\ SpecValid(r)
            /\ phase' = "done" /\ spec' = r /\ error' = NoError
  BY <1>2 DEF Answer
<1>5. /\ source \in Sources /\ calls \in 0..MaxCalls /\ MaxCalls \in Nat
      /\ calls < MaxCalls /\ spec = NoCopy
  BY <1>4 DEF CopyInv, TypeOK, CopyAssumption
<1>6. calls' \in 0..MaxCalls /\ source' \in Sources /\ answer' \in Candidates \cup {NoCopy}
  BY <1>4, <1>5
<1>7. r # NoCopy
  BY <1>3 DEF NoCopy
<1>8. CASE ~CopyValid(p) /\ Fail("request_failed")
  <2>1. phase' = "failed" /\ error' = "request_failed" /\ spec' = NoCopy
    BY <1>5, <1>8 DEF Fail
  <2>2. TypeOK'
    BY <1>6, <2>1 DEF TypeOK, Errors
  <2>3. OnlyAssumptionsFailLate'
    BY <1>2, <1>4, <1>8 DEF OnlyAssumptionsFailLate
  <2>4. StoredCopyIsGrounded' /\ RepairedFlawsDoNotReject'
    BY <2>1 DEF StoredCopyIsGrounded, RepairedFlawsDoNotReject
  <2> QED BY <2>1, <2>2, <2>3, <2>4 DEF CopyInv, NoError
<1>9. CASE CopyValid(p) /\ ~Safe(r, source) /\ Fail("unsafe")
  <2>1. phase' = "failed" /\ error' = "unsafe" /\ spec' = NoCopy
    BY <1>5, <1>9 DEF Fail
  <2>2. TypeOK'
    BY <1>6, <2>1 DEF TypeOK, Errors
  <2>3. RepairedFlawsDoNotReject'
    <3>1. \/ HasClaim(PublicCopy(r))
          \/ \E t \in Range(r.tags) : Ungrounded(t, source)
          \/ \E t \in {r.name} \cup Range(r.hooks) \cup Range(r.assumptions) :
                 \E i \in DOMAIN t : t[i] \in (Terms \ Channels) \ source
      BY <1>1, <1>2, <1>9, UnsafeBecause
    <3> QED BY <1>2, <1>4, <3>1 DEF RepairedFlawsDoNotReject
  <2>4. StoredCopyIsGrounded' /\ OnlyAssumptionsFailLate'
    BY <2>1 DEF StoredCopyIsGrounded, OnlyAssumptionsFailLate
  <2> QED BY <2>1, <2>2, <2>3, <2>4 DEF CopyInv, NoError
<1>10. CASE CopyValid(p) /\ Safe(r, source) /\ ~SpecValid(r) /\ Fail("request_failed")
  <2>1. phase' = "failed" /\ error' = "request_failed" /\ spec' = NoCopy
    BY <1>5, <1>10 DEF Fail
  <2>2. TypeOK'
    BY <1>6, <2>1 DEF TypeOK, Errors
  <2>3. ~Distinct(p.assumptions)
    BY <1>3, <1>10 DEF SpecValid, CopyValid, ListsValid
  <2>4. OnlyAssumptionsFailLate'
    BY <1>2, <1>4, <2>3 DEF OnlyAssumptionsFailLate
  <2>5. StoredCopyIsGrounded' /\ RepairedFlawsDoNotReject'
    BY <2>1 DEF StoredCopyIsGrounded, RepairedFlawsDoNotReject
  <2> QED BY <2>1, <2>2, <2>4, <2>5 DEF CopyInv, NoError
<1>11. CASE /\ CopyValid(p) /\ Safe(r, source) /\ SpecValid(r)
            /\ phase' = "done" /\ spec' = r /\ error' = NoError
  <2>1. TypeOK'
    BY <1>6, <1>7, <1>11 DEF TypeOK
  <2>2. StoredCopyIsGrounded'
    <3>1. \A t \in PublicTexts(r) : ~Ungrounded(t, source) /\ ~HasClaim(t)
      BY <1>11, SafeTexts
    <3>2. \A t \in HiddenTexts(r) : Range(t) \cap Channels \subseteq source
      BY <1>1, <1>2, HiddenTextsAre
    <3> QED BY <1>3, <1>4, <1>11, <3>1, <3>2 DEF StoredCopyIsGrounded
  <2>3. OnlyAssumptionsFailLate' /\ RepairedFlawsDoNotReject'
    BY <1>11 DEF OnlyAssumptionsFailLate, RepairedFlawsDoNotReject, NoError
  <2> QED BY <1>11, <2>1, <2>2, <2>3 DEF CopyInv
<1> QED BY <1>4, <1>8, <1>9, <1>10, <1>11

LEMMA FailuresKeepCopyInv ==
  ASSUME CopyAssumption, CopyInv, NEW code \in Errors \ {"unsafe"}, CallFails(code)
  PROVE  CopyInv'
<1>1. /\ phase = "ready" /\ calls' = calls + 1 /\ answer' = NoCopy /\ source' = source
      /\ phase' = "failed" /\ error' = code /\ spec' = spec
  BY DEF CallFails, Fail
<1>2. /\ source \in Sources /\ calls \in 0..MaxCalls /\ MaxCalls \in Nat
      /\ calls < MaxCalls /\ spec = NoCopy
  BY <1>1 DEF CopyInv, TypeOK, CopyAssumption
<1>3. TypeOK'
  BY <1>1, <1>2 DEF TypeOK
<1>4. StoredCopyIsGrounded' /\ OnlyAssumptionsFailLate' /\ RepairedFlawsDoNotReject'
  BY <1>1 DEF StoredCopyIsGrounded, OnlyAssumptionsFailLate, RepairedFlawsDoNotReject
<1>5. code # NoError
  BY DEF Errors, NoError
<1> QED BY <1>1, <1>3, <1>4, <1>5 DEF CopyInv

LEMMA RetriesKeepCopyInv ==
  ASSUME CopyInv, Retry
  PROVE  CopyInv'
<1>1. /\ phase = "failed" /\ ~Permanent(error) /\ calls < MaxCalls
      /\ phase' = "ready" /\ answer' = NoCopy
      /\ source' = source /\ spec' = spec /\ error' = error /\ calls' = calls
  BY DEF Retry
<1>2. /\ source \in Sources /\ calls \in 0..MaxCalls /\ error \in Errors \cup {NoError}
      /\ spec = NoCopy
  BY <1>1 DEF CopyInv, TypeOK
<1>3. TypeOK'
  BY <1>1, <1>2 DEF TypeOK
<1>4. error # "unsafe"
  BY <1>1 DEF Permanent
<1>5. StoredCopyIsGrounded' /\ OnlyAssumptionsFailLate' /\ RepairedFlawsDoNotReject'
  BY <1>1, <1>4 DEF StoredCopyIsGrounded, OnlyAssumptionsFailLate, RepairedFlawsDoNotReject
<1> QED BY <1>1, <1>2, <1>3, <1>5 DEF CopyInv

\* The calls stay within the lifecycle's limit, and a spec is stored by the last of
\* them or by none.
THEOREM CopyInvariant == Spec => []CopyInv
<1> USE CopyAssumption, AnswersAssumption, FallbacksAssumption
<1>1. Init => CopyInv
  <2> SUFFICES ASSUME Init PROVE CopyInv
    OBVIOUS
  <2>1. /\ source \in Sources /\ phase = "ready" /\ answer = NoCopy /\ spec = NoCopy
        /\ error = NoError /\ calls = 0
    BY DEF Init
  <2>2. MaxCalls \in Nat /\ 0 < MaxCalls
    BY DEF CopyAssumption
  <2>3. TypeOK
    BY <2>1, <2>2 DEF TypeOK
  <2>4. StoredCopyIsGrounded /\ OnlyAssumptionsFailLate /\ RepairedFlawsDoNotReject
    BY <2>1 DEF StoredCopyIsGrounded, OnlyAssumptionsFailLate, RepairedFlawsDoNotReject, NoError
  <2> QED BY <2>1, <2>2, <2>3, <2>4 DEF CopyInv
<1>2. CopyInv /\ [Next]_vars => CopyInv'
  <2> SUFFICES ASSUME CopyInv, [Next]_vars PROVE CopyInv'
    OBVIOUS
  <2>1. ASSUME NEW c \in Candidates, Answer(c) PROVE CopyInv'
    BY <2>1, AnswersAreRepaired
  <2>2. ASSUME NEW code \in Errors \ {"unsafe"}, CallFails(code) PROVE CopyInv'
    BY <2>2, FailuresKeepCopyInv
  <2>3. CASE Retry
    BY <2>3, RetriesKeepCopyInv
  <2>4. CASE UNCHANGED vars
    BY <2>4 DEF vars, CopyInv, TypeOK, StoredCopyIsGrounded, OnlyAssumptionsFailLate,
                RepairedFlawsDoNotReject
  <2> QED BY <2>1, <2>2, <2>3, <2>4 DEF Next
<1> QED BY <1>1, <1>2, PTL DEF Spec

\* No text that is shown of a stored spec has a term the input does not have, or a
\* claim; the texts that are not shown name no channel the input does not, and the
\* record of what was left out has no claim or figure but the input's.
THEOREM StoredIsGrounded == Spec => []StoredCopyIsGrounded
<1>1. CopyInv => StoredCopyIsGrounded
  BY DEF CopyInv
<1> QED BY <1>1, CopyInvariant, PTL

\* A valid and safe answer is lost only for assumptions that repeat.
THEOREM RepairsKeepTheSchema == Spec => []OnlyAssumptionsFailLate
<1>1. CopyInv => OnlyAssumptionsFailLate
  BY DEF CopyInv
<1> QED BY <1>1, CopyInvariant, PTL

\* A question, an answer or an unnamed channel outside the tags never costs an answer.
THEOREM RepairedIsNotRefused == Spec => []RepairedFlawsDoNotReject
<1>1. CopyInv => RepairedFlawsDoNotReject
  BY DEF CopyInv
<1> QED BY <1>1, CopyInvariant, PTL
==============================================================================
