-------------------------- MODULE VMSettingsProofs --------------------------
(***************************************************************************)
(* For any machines, payloads, disks and networks: what reaches a VM is    *)
(* what was asked for.  The code's loops are folds and searches in         *)
(* sequences; what they compute is proved first, for every sequence.       *)
(***************************************************************************)
EXTENDS VMSettings, TLAPS, SequenceTheorems, FiniteSetTheorems, WellFoundedInduction

----------------------------------------------------------------------------
(* Induction over the natural numbers, for the sets a proof can name.      *)

LEMMA Induction ==
    ASSUME NEW S, 0 \in S, \A n \in Nat : n \in S => n + 1 \in S
    PROVE  Nat \subseteq S
<1> DEFINE Missed == {1..n : n \in Nat \ S}
           R == StrictSubsetOrdering(Nat)
<1> SUFFICES ASSUME NEW m \in Nat, m \notin S PROVE FALSE
  OBVIOUS
<1>1. Missed \subseteq FiniteSubsetsOf(Nat)
  <2>1. \A n \in Nat : IsFiniteSet(1..n) /\ 1..n \subseteq Nat
    BY FS_Interval
  <2> QED
    BY <2>1 DEF FiniteSubsetsOf
<1>2. IsWellFoundedOn(R, FiniteSubsetsOf(Nat)) /\ 1..m \in Missed
  BY FS_StrictSubsetOrderingWellFounded
<1>3. PICK x \in Missed : \A y \in Missed : <<y, x>> \notin R
  <2> HIDE DEF Missed, R
  <2> QED
    BY <1>1, <1>2, WFMin
<1>4. PICK n \in Nat \ S : x = 1..n
  BY <1>3
<1>5. n - 1 \in Nat /\ n - 1 \notin S
  BY <1>4
<1>6. 1..(n-1) \in Missed
  BY <1>5
<1>7. <<1..(n-1), 1..n>> \in R
  <2>1. 1..(n-1) \subseteq 1..n /\ n \in 1..n /\ n \notin 1..(n-1)
    BY <1>5
  <2>2. 1..(n-1) \in SUBSET Nat /\ 1..n \in SUBSET Nat
    BY <1>5
  <2> QED
    BY <2>1, <2>2 DEF StrictSubsetOrdering
<1> QED
  BY <1>3, <1>4, <1>6, <1>7

LEMMA MinOf ==
    ASSUME NEW T \in SUBSET Nat, T # {}
    PROVE  Min(T) \in T /\ \A t \in T : Min(T) <= t
<1> DEFINE Least(U) == \E x \in U : \A y \in U : x <= y
           S == {n \in Nat : \A U \in SUBSET Nat : (\E k \in U : k <= n) => Least(U)}
<1>1. 0 \in S
  OBVIOUS
<1>2. ASSUME NEW n \in Nat, n \in S PROVE n + 1 \in S
  <2> SUFFICES ASSUME NEW U \in SUBSET Nat, NEW k \in U, k <= n + 1, ~Least(U) PROVE FALSE
    BY <1>2
  <2>1. \A j \in U : ~(j <= n)
    BY <1>2
  <2>2. \A j \in U : k <= j
    BY <2>1
  <2> QED
    BY <2>2
<1>3. Nat \subseteq S
  <2> HIDE DEF S
  <2> QED
    BY <1>1, <1>2, Induction
<1>4. PICK t \in T : TRUE
  OBVIOUS
<1>5. t \in S /\ t <= t
  BY <1>3
<1>6. Least(T)
  BY <1>5
<1> QED
  BY <1>6 DEF Min

LEMMA MaxOf ==
    ASSUME NEW m \in Nat, NEW T \in SUBSET (1..m), T # {}
    PROVE  Max(T) \in T /\ \A t \in T : t <= Max(T)
<1> DEFINE Most(U) == \E x \in U : \A y \in U : x >= y
           S == {n \in Nat : \A U \in SUBSET (1..n) : U # {} => Most(U)}
<1>1. 0 \in S
  <2>1. \A U \in SUBSET (1..0) : U = {}
    OBVIOUS
  <2> QED
    BY <2>1
<1>2. ASSUME NEW n \in Nat, n \in S PROVE n + 1 \in S
  <2> SUFFICES ASSUME NEW U \in SUBSET (1..(n+1)), U # {} PROVE Most(U)
    BY <1>2
  <2>1. CASE n + 1 \in U
    <3>1. \A y \in U : n + 1 >= y
      OBVIOUS
    <3> QED
      BY <2>1, <3>1
  <2>2. CASE n + 1 \notin U
    <3>1. U \in SUBSET (1..n)
      BY <2>2
    <3> QED
      BY <3>1, <1>2
  <2> QED
    BY <2>1, <2>2
<1>3. Nat \subseteq S
  <2> HIDE DEF S
  <2> QED
    BY <1>1, <1>2, Induction
<1>4. m \in S
  BY <1>3
<1>5. Most(T)
  BY <1>4
<1> QED
  BY <1>5 DEF Max

----------------------------------------------------------------------------
(* Folds.                                                                  *)

\* A fold over a sequence is defined: MapThenFoldSet takes the largest index last.
HasFold(A, base, G, s) ==
    \E h \in [SUBSET (1..Len(s)) -> A] :
       \A T \in SUBSET (1..Len(s)) :
          h[T] = IF T = {} THEN base ELSE G[<<h[T \ {Max(T)}], s[Max(T)]>>]

LEMMA FoldDefined ==
    ASSUME NEW A, NEW B, NEW base \in A, NEW G \in [A \X B -> A], NEW s \in Seq(B)
    PROVE  HasFold(A, base, G, s)
<1> DEFINE Folds(h, n) == \A T \in SUBSET (1..n) :
                             h[T] = IF T = {} THEN base ELSE G[<<h[T \ {Max(T)}], s[Max(T)]>>]
           Folded(n) == \E h \in [SUBSET (1..n) -> A] : Folds(h, n)
           S == {n \in Nat : n <= Len(s) => Folded(n)}
<1>0. Len(s) \in Nat /\ \A i \in 1..Len(s) : s[i] \in B
  BY LenProperties, ElementOfSeq
<1>1. 0 \in S
  <2>1. SUBSET (1..0) = {{}}
    OBVIOUS
  <2>2. [T \in SUBSET (1..0) |-> base] \in [SUBSET (1..0) -> A]
    OBVIOUS
  <2>3. Folds([T \in SUBSET (1..0) |-> base], 0)
    BY <2>1
  <2> QED
    BY <2>2, <2>3
<1>2. ASSUME NEW n \in Nat, n \in S PROVE n + 1 \in S
  <2>0. SUFFICES ASSUME n + 1 <= Len(s) PROVE Folded(n + 1)
    <3> HIDE DEF Folded
    <3> QED
      OBVIOUS
  <2>i. Folded(n)
    <3> HIDE DEF Folded
    <3> QED
      BY <1>0, <1>2, <2>0
  <2>1. PICK g \in [SUBSET (1..n) -> A] : Folds(g, n)
    BY <2>i
  <2> DEFINE h == [T \in SUBSET (1..(n+1)) |-> IF n + 1 \in T THEN G[<<g[T \ {n+1}], s[n+1]>>] ELSE g[T]]
  <2>2. ASSUME NEW T \in SUBSET (1..(n+1)) PROVE T \ {n+1} \in SUBSET (1..n)
    OBVIOUS
  <2>3. ASSUME NEW T \in SUBSET (1..(n+1)), n + 1 \notin T PROVE T \in SUBSET (1..n)
    BY <2>3
  <2>4. h \in [SUBSET (1..(n+1)) -> A]
    <3>1. s[n+1] \in B
      BY <1>0, <2>0
    <3>2. ASSUME NEW T \in SUBSET (1..(n+1)) PROVE h[T] \in A
      <4>1. CASE n + 1 \in T
        <5>1. g[T \ {n+1}] \in A
          BY <2>1, <2>2
        <5> QED
          BY <4>1, <5>1, <3>1
      <4>2. CASE n + 1 \notin T
        BY <4>2, <2>1, <2>3
      <4> QED
        BY <4>1, <4>2
    <3> QED
      BY <3>2
  <2>5. ASSUME NEW T \in SUBSET (1..n) PROVE h[T] = g[T]
    <3>1. T \in SUBSET (1..(n+1)) /\ n + 1 \notin T
      OBVIOUS
    <3> QED
      BY <3>1
  <2>6. Folds(h, n + 1)
    <3> SUFFICES ASSUME NEW T \in SUBSET (1..(n+1))
                 PROVE  h[T] = IF T = {} THEN base ELSE G[<<h[T \ {Max(T)}], s[Max(T)]>>]
      OBVIOUS
    <3>1. CASE n + 1 \in T
      <4>1. n + 1 \in Nat
        OBVIOUS
      <4>2. PICK x \in T : x = Max(T) /\ \A t \in T : t <= x
        BY <3>1, <4>1, MaxOf
      <4>i. x \in 1..(n+1) /\ n + 1 <= x
        BY <3>1, <4>2
      <4>j. x = n + 1
        BY <4>i
      <4>3. h[T \ {n+1}] = g[T \ {n+1}]
        BY <2>2, <2>5
      <4> QED
        BY <3>1, <4>2, <4>j, <4>3
    <3>2. CASE n + 1 \notin T
      <4>1. T \in SUBSET (1..n) /\ T \ {Max(T)} \in SUBSET (1..n)
        BY <2>3, <3>2
      <4>2. h[T] = g[T] /\ h[T \ {Max(T)}] = g[T \ {Max(T)}]
        BY <2>5, <4>1
      <4> HIDE DEF h
      <4> QED
        BY <2>1, <4>1, <4>2
    <3> QED
      BY <3>1, <3>2
  <2> HIDE DEF h, Folds
  <2> QED
    BY <2>4, <2>6
<1>3. Nat \subseteq S
  <2> HIDE DEF S
  <2> QED
    BY <1>1, <1>2, Induction
<1>4. Folded(Len(s))
  <2> HIDE DEF Folded
  <2> QED
    BY <1>0, <1>3
<1> QED
  BY <1>4 DEF HasFold

\* AppendNew as the loop it is: one step for each member of more.
LEMMA AppendNewSteps ==
    ASSUME NEW V, NEW seq \in Seq(V), NEW more \in Seq(V)
    PROVE  \E g \in [0..Len(more) -> Seq(V)] :
              /\ g[0] = seq /\ g[Len(more)] = AppendNew(seq, more)
              /\ \A k \in 1..Len(more) :
                    g[k] = IF Contains(g[k-1], more[k]) THEN g[k-1] ELSE Append(g[k-1], more[k])
<1> DEFINE n == Len(more)
           Grow(acc, x) == IF Contains(acc, x) THEN acc ELSE Append(acc, x)
           G == [p \in Seq(V) \X V |-> Grow(p[1], p[2])]
           Step(h, T) == Grow(h[T \ {Max(T)}], more[Max(T)])
           Solves(h) == h = [T \in SUBSET DOMAIN more |-> IF T = {} THEN seq ELSE Step(h, T)]
           c == CHOOSE h : Solves(h)
<1>1. n \in Nat /\ DOMAIN more = 1..n /\ \A i \in 1..n : more[i] \in V
  BY LenProperties, ElementOfSeq
<1>2. \A s \in Seq(V), x \in V : Grow(s, x) \in Seq(V)
  BY AppendProperties
<1>3. G \in [Seq(V) \X V -> Seq(V)] /\ \A s \in Seq(V), x \in V : G[<<s, x>>] = Grow(s, x)
  <2> HIDE DEF Grow
  <2> QED
    BY <1>2
<1>4. PICK h \in [SUBSET (1..n) -> Seq(V)] :
         \A T \in SUBSET (1..n) : h[T] = IF T = {} THEN seq ELSE G[<<h[T \ {Max(T)}], more[Max(T)]>>]
  <2>1. G \in [Seq(V) \X V -> Seq(V)]
    BY <1>3
  <2>2. HasFold(Seq(V), seq, G, more)
    <3> HIDE DEF G
    <3> QED
      BY <2>1, FoldDefined
  <2> HIDE DEF G
  <2> QED
    BY <2>2 DEF HasFold
<1>5. Solves(h)
  <2>1. ASSUME NEW T \in SUBSET (1..n), T # {}
        PROVE  h[T] = Grow(h[T \ {Max(T)}], more[Max(T)])
    <3>1. Max(T) \in 1..n
      BY <1>1, <2>1, MaxOf
    <3>2. h[T \ {Max(T)}] \in Seq(V) /\ more[Max(T)] \in V
      BY <1>1, <3>1
    <3> HIDE DEF G, Grow
    <3> QED
      BY <1>3, <1>4, <2>1, <3>2
  <2>2. h[{}] = seq /\ DOMAIN h = SUBSET DOMAIN more
    BY <1>1, <1>4
  <2> QED
    BY <1>1, <1>4, <2>1, <2>2
<1>6. Solves(c)
  <2> HIDE DEF Solves
  <2> QED
    BY <1>5
<1>7. AppendNew(seq, more) = c[DOMAIN more]
  BY DEF AppendNew, FoldLeft, MapThenFoldSet
<1> DEFINE g == [k \in 0..n |-> c[1..k]]
<1> HIDE DEF c
<1>8. c[{}] = seq
  <2>1. {} \in SUBSET DOMAIN more
    OBVIOUS
  <2> HIDE DEF Step
  <2> QED
    BY <1>6, <2>1
<1>9. ASSUME NEW k \in 1..n PROVE c[1..k] = Grow(c[1..(k-1)], more[k])
  <2>1. 1..k \in SUBSET DOMAIN more /\ 1..k # {} /\ k \in Nat
    <3>1. k \in Nat /\ k <= n /\ k \in 1..k
      BY <1>1
    <3>2. \A i \in 1..k : i \in 1..n
      BY <1>1, <3>1
    <3> QED
      BY <1>1, <3>1, <3>2
  <2>2. PICK x \in 1..k : x = Max(1..k) /\ \A t \in 1..k : t <= x
    BY <2>1, MaxOf
  <2>3. k \in 1..k /\ x = k
    BY <2>1, <2>2
  <2>4. (1..k) \ {k} = 1..(k-1)
    BY <2>1
  <2>5. c[1..k] = Grow(c[(1..k) \ {Max(1..k)}], more[Max(1..k)])
    BY <1>6, <2>1
  <2> HIDE DEF Grow
  <2> QED
    BY <2>2, <2>3, <2>4, <2>5
<1>10. ASSUME NEW k \in 0..n PROVE c[1..k] \in Seq(V)
  <2> DEFINE S == {m \in Nat : m <= n => c[1..m] \in Seq(V)}
  <2>1. 0 \in S
    <3>1. 1..0 = {}
      OBVIOUS
    <3> QED
      BY <1>8, <3>1
  <2>2. ASSUME NEW m \in Nat, m \in S PROVE m + 1 \in S
    <3> SUFFICES ASSUME m + 1 <= n PROVE c[1..(m+1)] \in Seq(V)
      OBVIOUS
    <3>1. m + 1 \in 1..n /\ (m + 1) - 1 = m
      BY <1>1
    <3>2. c[1..(m+1)] = Grow(c[1..m], more[m+1]) /\ more[m+1] \in V
      <4> HIDE DEF Grow
      <4> QED
        BY <3>1, <1>1, <1>9
    <3>3. c[1..m] \in Seq(V)
      BY <1>1, <2>2
    <3> HIDE DEF Grow
    <3> QED
      BY <1>2, <3>2, <3>3
  <2>3. Nat \subseteq S
    <3> HIDE DEF S
    <3> QED
      BY <2>1, <2>2, Induction
  <2> QED
    BY <1>1, <2>3
<1>11. g \in [0..n -> Seq(V)]
  BY <1>10
<1>12. g[0] = seq /\ g[n] = AppendNew(seq, more)
  <2>1. 1..0 = {} /\ 0 \in 0..n /\ n \in 0..n
    BY <1>1
  <2> QED
    BY <1>1, <1>7, <1>8, <2>1
<1>13. ASSUME NEW k \in 1..n PROVE g[k] = Grow(g[k-1], more[k])
  <2>1. k \in 0..n /\ k - 1 \in 0..n
    BY <1>1
  <2> HIDE DEF Grow
  <2> QED
    BY <1>9, <2>1
<1> HIDE DEF g
<1> QED
  BY <1>11, <1>12, <1>13

\* r has seq first, then the first k members of more as far as seq lacks them, and
\* none of these a second time.
Merged(r, seq, more, k) ==
    /\ Len(seq) <= Len(r) /\ \A i \in 1..Len(seq) : r[i] = seq[i]
    /\ \A m \in 1..k : Contains(r, more[m])
    /\ \A j \in (Len(seq) + 1)..Len(r) :
          /\ \E m \in 1..k : r[j] = more[m]
          /\ \A i \in 1..Len(r) : i # j => r[i] # r[j]

\* MergeSSHKeysIntoCloudConfig, vmTags: for all lists, what was there stays first and
\* in its order, every new member is there, and nothing is added that is there.
THEOREM MergedOnce ==
    ASSUME NEW V, NEW seq \in Seq(V), NEW more \in Seq(V)
    PROVE  AppendNew(seq, more) \in Seq(V) /\ Merged(AppendNew(seq, more), seq, more, Len(more))
<1>1. PICK g \in [0..Len(more) -> Seq(V)] :
         /\ g[0] = seq /\ g[Len(more)] = AppendNew(seq, more)
         /\ \A k \in 1..Len(more) :
               g[k] = IF Contains(g[k-1], more[k]) THEN g[k-1] ELSE Append(g[k-1], more[k])
  BY AppendNewSteps
<1>2. /\ Len(more) \in Nat /\ \A i \in 1..Len(more) : more[i] \in V
      /\ \A s \in Seq(V) : Len(s) \in Nat
  BY LenProperties, ElementOfSeq
<1> DEFINE S == {k \in Nat : k <= Len(more) => Merged(g[k], seq, more, k)}
<1>3. 0 \in S
  BY <1>1, <1>2 DEF Merged
<1>4. ASSUME NEW k \in Nat, k \in S PROVE k + 1 \in S
  <2> SUFFICES ASSUME k + 1 <= Len(more) PROVE Merged(g[k+1], seq, more, k + 1)
    OBVIOUS
  <2>1. k + 1 \in 1..Len(more) /\ k \in 0..Len(more) /\ (k + 1) - 1 = k
    BY <1>2
  <2>2. PICK s \in Seq(V), x \in V : s = g[k] /\ x = more[k+1]
    BY <1>1, <1>2, <2>1
  <2>3. Merged(s, seq, more, k)
    BY <1>2, <1>4, <2>1, <2>2
  <2>4. g[k+1] = IF Contains(s, x) THEN s ELSE Append(s, x)
    BY <1>1, <2>1, <2>2
  <2>5. CASE Contains(s, x)
    <3>1. \A m \in 1..(k+1) : Contains(s, more[m])
      <4>1. \A m \in 1..(k+1) : m \in 1..k \/ m = k + 1
        OBVIOUS
      <4> QED
        BY <2>2, <2>3, <2>5, <4>1 DEF Merged
    <3>2. 1..k \subseteq 1..(k+1)
      OBVIOUS
    <3> QED
      BY <2>3, <2>4, <2>5, <3>1, <3>2 DEF Merged
  <2>6. CASE ~Contains(s, x)
    <3> DEFINE r == Append(s, x)
    <3>1. /\ r \in Seq(V) /\ Len(r) = Len(s) + 1 /\ Len(s) \in Nat /\ Len(seq) \in Nat
          /\ \A i \in 1..Len(s) : r[i] = s[i]
          /\ r[Len(s) + 1] = x
      BY <1>2, AppendProperties
    <3> HIDE DEF r
    <3>2. Len(seq) <= Len(r) /\ \A i \in 1..Len(seq) : r[i] = seq[i]
      BY <2>3, <3>1 DEF Merged
    <3>3. ASSUME NEW m \in 1..(k+1) PROVE Contains(r, more[m])
      <4>1. CASE m = k + 1
        BY <2>2, <3>1, <4>1 DEF Contains
      <4>2. CASE m # k + 1
        <5>1. PICK i \in 1..Len(s) : s[i] = more[m]
          BY <2>3, <4>2 DEF Merged, Contains
        <5> QED
          BY <3>1, <5>1 DEF Contains
      <4> QED
        BY <4>1, <4>2
    <3>4. ASSUME NEW j \in (Len(seq) + 1)..Len(r)
          PROVE  /\ \E m \in 1..(k+1) : r[j] = more[m]
                 /\ \A i \in 1..Len(r) : i # j => r[i] # r[j]
      <4>1. \A i \in 1..Len(s) : s[i] # x
        BY <2>6 DEF Contains
      <4>2. \A i \in 1..Len(r) : i \in 1..Len(s) \/ i = Len(s) + 1
        BY <3>1
      <4>3. j \in 1..Len(r)
        BY <3>1
      <4>4. CASE j = Len(s) + 1
        <5>1. k + 1 \in 1..(k+1) /\ r[j] = more[k+1]
          BY <2>2, <3>1, <4>4
        <5> QED
          BY <3>1, <4>1, <4>2, <4>4, <5>1
      <4>5. CASE j # Len(s) + 1
        <5>1. j \in (Len(seq) + 1)..Len(s) /\ j \in 1..Len(s)
          BY <3>1, <4>5
        <5>2. PICK m \in 1..k : s[j] = more[m]
          BY <2>3, <5>1 DEF Merged
        <5>3. m \in 1..(k+1) /\ r[j] = more[m]
          BY <3>1, <5>1, <5>2
        <5>4. \A i \in 1..Len(s) : i # j => s[i] # s[j]
          BY <2>3, <5>1 DEF Merged
        <5> QED
          BY <3>1, <4>1, <4>2, <5>1, <5>3, <5>4
      <4> QED
        BY <4>4, <4>5
    <3> QED
      BY <2>4, <2>6, <3>2, <3>3, <3>4 DEF Merged, r
  <2> QED
    BY <2>5, <2>6
<1>5. Nat \subseteq S
  <2> HIDE DEF S
  <2> QED
    BY <1>3, <1>4, Induction
<1>6. Len(more) \in 0..Len(more) /\ Len(more) \in S
  BY <1>2, <1>5
<1>7. AppendNew(seq, more) \in Seq(V)
  BY <1>1, <1>6
<1> QED
  BY <1>1, <1>2, <1>6, <1>7

----------------------------------------------------------------------------
(* Searches.                                                               *)

LEMMA Cut ==
    ASSUME NEW V, NEW s \in Seq(V), NEW a \in 1..(Len(s) + 1), NEW b \in 0..Len(s), a <= b + 1
    PROVE  /\ SubSeq(s, a, b) \in Seq(V) /\ Len(SubSeq(s, a, b)) = b - a + 1
           /\ \A k \in 1..(b - a + 1) : SubSeq(s, a, b)[k] = s[a + k - 1]
<1>1. \A i \in a..b : s[i] \in V
  BY LenProperties, ElementOfSeq
<1>2. a \in Int /\ b \in Int
  BY LenProperties
<1>3. /\ SubSeq(s, a, b) \in Seq(V)
      /\ Len(SubSeq(s, a, b)) = IF a <= b THEN b - a + 1 ELSE 0
      /\ \A k \in 1..(b - a + 1) : SubSeq(s, a, b)[k] = s[a + k - 1]
  BY <1>1, <1>2, SubSeqProperties
<1> QED
  BY <1>2, <1>3

LEMMA Removed ==
    ASSUME NEW V, NEW s \in Seq(V), NEW p \in 1..Len(s)
    PROVE  /\ RemoveAt(s, p) \in Seq(V) /\ Len(RemoveAt(s, p)) = Len(s) - 1
           /\ \A k \in 1..(Len(s) - 1) : RemoveAt(s, p)[k] = IF k < p THEN s[k] ELSE s[k + 1]
<1> DEFINE a == SubSeq(s, 1, p - 1)
           b == SubSeq(s, p + 1, Len(s))
<1>0. Len(s) \in Nat
  BY LenProperties
<1>1. a \in Seq(V) /\ Len(a) = p - 1 /\ \A k \in 1..(p - 1) : a[k] = s[k]
  <2>1. 1 \in 1..(Len(s) + 1) /\ p - 1 \in 0..Len(s) /\ 1 <= (p - 1) + 1
    BY <1>0
  <2>2. \A k \in 1..((p - 1) - 1 + 1) : 1 + k - 1 = k
    BY <1>0
  <2>3. (p - 1) - 1 + 1 = p - 1
    BY <1>0
  <2> QED
    BY <2>1, <2>2, <2>3, Cut
<1>2. b \in Seq(V) /\ Len(b) = Len(s) - p /\ \A k \in 1..(Len(s) - p) : b[k] = s[p + k]
  <2>1. p + 1 \in 1..(Len(s) + 1) /\ Len(s) \in 0..Len(s) /\ p + 1 <= Len(s) + 1
    BY <1>0
  <2>2. \A k \in 1..(Len(s) - (p + 1) + 1) : (p + 1) + k - 1 = p + k
    BY <1>0
  <2>3. Len(s) - (p + 1) + 1 = Len(s) - p
    BY <1>0
  <2>4. /\ b \in Seq(V) /\ Len(b) = Len(s) - (p + 1) + 1
        /\ \A k \in 1..(Len(s) - (p + 1) + 1) : b[k] = s[(p + 1) + k - 1]
    BY <2>1, Cut
  <2> HIDE DEF b
  <2> QED
    BY <2>2, <2>3, <2>4
<1> HIDE DEF a, b
<1>3. /\ a \o b \in Seq(V) /\ Len(a \o b) = Len(a) + Len(b)
      /\ \A k \in 1..(Len(a) + Len(b)) : (a \o b)[k] = IF k <= Len(a) THEN a[k] ELSE b[k - Len(a)]
  BY <1>1, <1>2, ConcatProperties
<1>4. RemoveAt(s, p) = a \o b
  BY DEF RemoveAt, a, b
<1>5. ASSUME NEW k \in 1..(Len(s) - 1)
      PROVE  (a \o b)[k] = IF k < p THEN s[k] ELSE s[k + 1]
  <2>1. CASE k < p
    <3>1. k \in 1..(p - 1) /\ k \in 1..(Len(a) + Len(b)) /\ k <= Len(a)
      BY <1>0, <1>1, <1>2, <2>1
    <3> QED
      BY <1>1, <1>3, <2>1, <3>1
  <2>2. CASE ~(k < p)
    <3>1. /\ k \in 1..(Len(a) + Len(b)) /\ ~(k <= Len(a))
          /\ k - Len(a) \in 1..(Len(s) - p) /\ p + (k - Len(a)) = k + 1
      BY <1>0, <1>1, <1>2, <2>2
    <3> QED
      BY <1>2, <1>3, <2>2, <3>1
  <2> QED
    BY <2>1, <2>2
<1> QED
  BY <1>0, <1>1, <1>2, <1>3, <1>4, <1>5

\* What is around command i of cmds once the scripts are in.
Around(r, cmds, i) ==
    /\ i \in 1..Len(cmds) /\ Len(r) = Len(cmds) + 2
    /\ \A k \in 1..Len(r) :
          r[k] = CASE k < i -> cmds[k] [] k = i -> "pre" [] k = i + 1 -> cmds[i]
                   [] k = i + 2 -> "post" [] k > i + 2 -> cmds[k - 2]

LEMMA FirstKubeadm ==
    ASSUME NEW V, NEW cmds \in Seq(V), Contains(cmds, "kubeadm")
    PROVE  \E i \in 1..Len(cmds) :
              /\ i = SelectInSeq(cmds, LAMBDA c : c = "kubeadm")
              /\ cmds[i] = "kubeadm" /\ \A j \in 1..(i - 1) : cmds[j] # "kubeadm"
<1> DEFINE I == {i \in 1..Len(cmds) : cmds[i] = "kubeadm"}
<1>1. Len(cmds) \in Nat /\ I \in SUBSET Nat /\ I # {}
  BY LenProperties DEF Contains
<1>2. PICK i \in I : i = Min(I) /\ \A j \in I : i <= j
  BY <1>1, MinOf
<1>3. \A j \in 1..(i - 1) : j \in 1..Len(cmds) /\ ~(i <= j)
  BY <1>1, <1>2
<1>4. SelectInSeq(cmds, LAMBDA c : c = "kubeadm") = Min(I)
  BY <1>1 DEF SelectInSeq
<1> QED
  BY <1>2, <1>3, <1>4

LEMMA InjectedAround ==
    ASSUME NEW V, NEW cmds \in Seq(V), {"pre", "kubeadm", "post"} \subseteq V, Contains(cmds, "kubeadm")
    PROVE  /\ InjectAroundKubeadm(cmds) \in Seq(V)
           /\ \E i \in 1..Len(cmds) :
                 /\ cmds[i] = "kubeadm" /\ \A j \in 1..(i - 1) : cmds[j] # "kubeadm"
                 /\ Around(InjectAroundKubeadm(cmds), cmds, i)
<1>1. PICK i \in 1..Len(cmds) :
         /\ i = SelectInSeq(cmds, LAMBDA c : c = "kubeadm")
         /\ cmds[i] = "kubeadm" /\ \A j \in 1..(i - 1) : cmds[j] # "kubeadm"
  BY FirstKubeadm
<1> DEFINE n == Len(cmds)
           a == SubSeq(cmds, 1, i - 1)
           t == <<"pre", cmds[i], "post">>
           b == SubSeq(cmds, i + 1, n)
<1>0. n \in Nat
  BY LenProperties
<1>2. InjectAroundKubeadm(cmds) = (a \o t) \o b
  BY <1>1 DEF InjectAroundKubeadm
<1>3. a \in Seq(V) /\ Len(a) = i - 1 /\ \A k \in 1..(i - 1) : a[k] = cmds[k]
  <2>1. 1 \in 1..(n + 1) /\ i - 1 \in 0..n /\ 1 <= (i - 1) + 1
    BY <1>0
  <2>2. /\ a \in Seq(V) /\ Len(a) = (i - 1) - 1 + 1
        /\ \A k \in 1..((i - 1) - 1 + 1) : a[k] = cmds[1 + k - 1]
    BY <2>1, Cut
  <2> HIDE DEF a
  <2> QED
    BY <1>0, <2>2
<1>4. b \in Seq(V) /\ Len(b) = n - i /\ \A k \in 1..(n - i) : b[k] = cmds[i + k]
  <2>1. i + 1 \in 1..(n + 1) /\ n \in 0..n /\ i + 1 <= n + 1
    BY <1>0
  <2>2. /\ b \in Seq(V) /\ Len(b) = n - (i + 1) + 1
        /\ \A k \in 1..(n - (i + 1) + 1) : b[k] = cmds[(i + 1) + k - 1]
    BY <2>1, Cut
  <2>3. n - (i + 1) + 1 = n - i
    BY <1>0
  <2>4. \A k \in 1..(n - i) : (i + 1) + k - 1 = i + k
    BY <1>0
  <2> HIDE DEF b
  <2> QED
    BY <2>2, <2>3, <2>4
<1>5. t \in Seq(V) /\ Len(t) = 3 /\ t[1] = "pre" /\ t[2] = cmds[i] /\ t[3] = "post"
  BY <1>1
<1> HIDE DEF a, b, t
<1>6. /\ a \o t \in Seq(V) /\ Len(a \o t) = i + 2
      /\ \A k \in 1..(i + 2) : (a \o t)[k] = IF k <= i - 1 THEN a[k] ELSE t[k - (i - 1)]
  <2>1. /\ a \o t \in Seq(V) /\ Len(a \o t) = Len(a) + Len(t)
        /\ \A k \in 1..(Len(a) + Len(t)) : (a \o t)[k] = IF k <= Len(a) THEN a[k] ELSE t[k - Len(a)]
    <3>1. a \in Seq(V) /\ t \in Seq(V)
      BY <1>3, <1>5
    <3> QED
      BY <3>1, ConcatProperties
  <2>2. Len(a) + Len(t) = i + 2
    BY <1>0, <1>3, <1>5
  <2> QED
    BY <1>3, <2>1, <2>2
<1> DEFINE c == a \o t
           r == c \o b
<1> HIDE DEF c
<1>7. /\ r \in Seq(V) /\ Len(r) = n + 2
      /\ \A k \in 1..(n + 2) : r[k] = IF k <= i + 2 THEN c[k] ELSE b[k - (i + 2)]
  <2>1. /\ r \in Seq(V) /\ Len(r) = Len(c) + Len(b)
        /\ \A k \in 1..(Len(c) + Len(b)) : r[k] = IF k <= Len(c) THEN c[k] ELSE b[k - Len(c)]
    <3>1. c \in Seq(V) /\ b \in Seq(V)
      BY <1>4, <1>6 DEF c
    <3> QED
      BY <3>1, ConcatProperties
  <2>2. Len(c) = i + 2 /\ Len(c) + Len(b) = n + 2
    BY <1>0, <1>4, <1>6 DEF c
  <2> HIDE DEF r
  <2> QED
    BY <2>1, <2>2
<1>8. r = InjectAroundKubeadm(cmds)
  BY <1>2 DEF c
<1> HIDE DEF r
<1>9. ASSUME NEW k \in 1..(n + 2)
      PROVE  r[k] = CASE k < i -> cmds[k] [] k = i -> "pre" [] k = i + 1 -> cmds[i]
                      [] k = i + 2 -> "post" [] k > i + 2 -> cmds[k - 2]
  <2>1. k <= i + 2 => r[k] = IF k <= i - 1 THEN a[k] ELSE t[k - (i - 1)]
    <3> SUFFICES ASSUME k <= i + 2
                 PROVE  r[k] = IF k <= i - 1 THEN a[k] ELSE t[k - (i - 1)]
      OBVIOUS
    <3>1. k \in 1..(i + 2)
      BY <1>0
    <3>2. r[k] = c[k]
      BY <1>7
    <3>3. c[k] = IF k <= i - 1 THEN a[k] ELSE t[k - (i - 1)]
      BY <1>6, <3>1 DEF c
    <3> QED
      BY <3>2, <3>3
  <2>2. CASE k < i
    <3>1. k \in 1..(i - 1) /\ k <= i + 2 /\ k <= i - 1 /\ ~(k = i) /\ ~(k = i + 1) /\ ~(k = i + 2) /\ ~(k > i + 2)
      BY <1>0, <2>2
    <3> QED
      BY <1>3, <2>1, <2>2, <3>1
  <2>3. CASE k = i
    <3>1. k <= i + 2 /\ ~(k <= i - 1) /\ k - (i - 1) = 1 /\ ~(k < i) /\ ~(k = i + 1) /\ ~(k = i + 2) /\ ~(k > i + 2)
      BY <1>0, <2>3
    <3> QED
      BY <1>5, <2>1, <2>3, <3>1
  <2>4. CASE k = i + 1
    <3>1. k <= i + 2 /\ ~(k <= i - 1) /\ k - (i - 1) = 2 /\ ~(k < i) /\ ~(k = i) /\ ~(k = i + 2) /\ ~(k > i + 2)
      BY <1>0, <2>4
    <3> QED
      BY <1>5, <2>1, <2>4, <3>1
  <2>5. CASE k = i + 2
    <3>1. k <= i + 2 /\ ~(k <= i - 1) /\ k - (i - 1) = 3 /\ ~(k < i) /\ ~(k = i) /\ ~(k = i + 1) /\ ~(k > i + 2)
      BY <1>0, <2>5
    <3> QED
      BY <1>5, <2>1, <2>5, <3>1
  <2>6. CASE k > i + 2
    <3>1. /\ ~(k <= i + 2) /\ k - (i + 2) \in 1..(n - i) /\ i + (k - (i + 2)) = k - 2
          /\ ~(k < i) /\ ~(k = i) /\ ~(k = i + 1) /\ ~(k = i + 2)
      BY <1>0, <2>6
    <3> QED
      BY <1>4, <1>7, <2>6, <3>1
  <2> QED
    BY <1>0, <2>2, <2>3, <2>4, <2>5, <2>6
<1>10. Around(r, cmds, i)
  BY <1>0, <1>7, <1>9 DEF Around
<1> QED
  BY <1>1, <1>7, <1>8, <1>10

\* injectAroundKubeadm: for all lists of commands with a kubeadm command, the scripts
\* are right before and right after the first one, and nothing else changes.
THEOREM FirstKubeadmSurrounded ==
    ASSUME NEW V, NEW cmds \in Seq(V), Contains(cmds, "kubeadm")
    PROVE  \E i \in 1..(Len(InjectAroundKubeadm(cmds)) - 2) :
              /\ SubSeq(InjectAroundKubeadm(cmds), i, i + 2) = <<"pre", "kubeadm", "post">>
              /\ ~Contains(SubSeq(InjectAroundKubeadm(cmds), 1, i), "kubeadm")
              /\ RemoveAt(RemoveAt(InjectAroundKubeadm(cmds), i + 2), i) = cmds
<1> DEFINE W == V \cup {"pre", "kubeadm", "post"}
           n == Len(cmds)
<1>0. n \in Nat /\ cmds \in Seq(W)
  BY LenProperties, SeqMonotonic
<1>1. PICK r \in Seq(W), i \in 1..n :
         /\ r = InjectAroundKubeadm(cmds) /\ Around(r, cmds, i)
         /\ cmds[i] = "kubeadm" /\ \A j \in 1..(i - 1) : cmds[j] # "kubeadm"
  BY <1>0, InjectedAround
<1>2. Len(r) = n + 2 /\ i \in 1..(Len(r) - 2)
  BY <1>0, <1>1 DEF Around
<1>3. /\ \A k \in 1..(i - 1) : r[k] = cmds[k]
      /\ r[i] = "pre" /\ r[i + 1] = "kubeadm" /\ r[i + 2] = "post"
      /\ \A k \in (i + 3)..(n + 2) : r[k] = cmds[k - 2]
  <2>1. ASSUME NEW k \in 1..(i - 1) PROVE r[k] = cmds[k]
    <3>1. k \in 1..Len(r) /\ k < i /\ ~(k = i) /\ ~(k = i + 1) /\ ~(k = i + 2) /\ ~(k > i + 2)
      BY <1>0, <1>2
    <3> QED
      BY <1>1, <3>1 DEF Around
  <2>2. r[i] = "pre"
    <3>1. i \in 1..Len(r) /\ ~(i < i) /\ ~(i = i + 1) /\ ~(i = i + 2) /\ ~(i > i + 2)
      BY <1>0, <1>2
    <3> QED
      BY <1>1, <3>1 DEF Around
  <2>3. r[i + 1] = "kubeadm"
    <3>1. PICK k \in 1..Len(r) : k = i + 1
      BY <1>0, <1>2
    <3>2. ~(k < i) /\ ~(k = i) /\ ~(k = i + 2) /\ ~(k > i + 2)
      BY <1>0, <3>1
    <3>3. r[k] = cmds[i]
      BY <1>1, <3>1, <3>2 DEF Around
    <3> QED
      BY <1>1, <3>1, <3>3
  <2>4. r[i + 2] = "post"
    <3>1. PICK k \in 1..Len(r) : k = i + 2
      BY <1>0, <1>2
    <3>2. ~(k < i) /\ ~(k = i) /\ ~(k = i + 1) /\ ~(k > i + 2)
      BY <1>0, <3>1
    <3>3. r[k] = "post"
      BY <1>1, <3>1, <3>2 DEF Around
    <3> QED
      BY <3>1, <3>3
  <2>5. ASSUME NEW k \in (i + 3)..(n + 2) PROVE r[k] = cmds[k - 2]
    <3>1. k \in 1..Len(r) /\ ~(k < i) /\ ~(k = i) /\ ~(k = i + 1) /\ ~(k = i + 2) /\ k > i + 2
      BY <1>0, <1>2
    <3> QED
      BY <1>1, <3>1 DEF Around
  <2> QED
    BY <2>1, <2>2, <2>3, <2>4, <2>5
<1>4. SubSeq(r, i, i + 2) = <<"pre", "kubeadm", "post">>
  <2> DEFINE q == SubSeq(r, i, i + 2)
             t == <<"pre", "kubeadm", "post">>
  <2>1. i \in 1..(Len(r) + 1) /\ i + 2 \in 0..Len(r) /\ i <= (i + 2) + 1 /\ (i + 2) - i + 1 = 3
    BY <1>0, <1>2
  <2>2. /\ q \in Seq(W) /\ Len(q) = (i + 2) - i + 1
        /\ \A k \in 1..((i + 2) - i + 1) : q[k] = r[i + k - 1]
    BY <2>1, Cut
  <2>3. t \in Seq(W) /\ Len(t) = 3 /\ t[1] = "pre" /\ t[2] = "kubeadm" /\ t[3] = "post"
    OBVIOUS
  <2>4. i + 1 - 1 = i /\ i + 2 - 1 = i + 1 /\ i + 3 - 1 = i + 2
    BY <1>0
  <2> HIDE DEF q, t
  <2>5. Len(q) = 3 /\ q[1] = "pre" /\ q[2] = "kubeadm" /\ q[3] = "post"
    BY <1>3, <2>1, <2>2, <2>4
  <2>6. \A k \in 1..Len(q) : q[k] = t[k]
    <3>1. \A k \in 1..Len(q) : k = 1 \/ k = 2 \/ k = 3
      BY <2>5
    <3> QED
      BY <2>3, <2>5, <3>1
  <2>7. q = t
    BY <2>2, <2>3, <2>5, <2>6, SeqEqual
  <2> QED
    BY <2>7 DEF q, t
<1>5. ~Contains(SubSeq(r, 1, i), "kubeadm")
  <2> DEFINE q == SubSeq(r, 1, i)
  <2>1. 1 \in 1..(Len(r) + 1) /\ i \in 0..Len(r) /\ 1 <= i + 1 /\ i - 1 + 1 = i
    BY <1>0, <1>2
  <2>2. Len(q) = i - 1 + 1 /\ \A k \in 1..(i - 1 + 1) : q[k] = r[1 + k - 1]
    BY <2>1, Cut
  <2>3. \A k \in 1..i : 1 + k - 1 = k /\ (k \in 1..(i - 1) \/ k = i)
    BY <1>0
  <2> HIDE DEF q
  <2>4. \A k \in 1..i : q[k] # "kubeadm"
    BY <1>1, <1>3, <2>1, <2>2, <2>3
  <2>5. ~Contains(q, "kubeadm")
    BY <2>1, <2>2, <2>4 DEF Contains
  <2> QED
    BY <2>5 DEF q
<1>6. RemoveAt(RemoveAt(r, i + 2), i) = cmds
  <2> DEFINE u == RemoveAt(r, i + 2)
             w == RemoveAt(u, i)
  <2>1. i + 2 \in 1..Len(r) /\ Len(r) - 1 = n + 1
    BY <1>0, <1>2
  <2>2. /\ u \in Seq(W) /\ Len(u) = n + 1
        /\ \A k \in 1..(n + 1) : u[k] = IF k < i + 2 THEN r[k] ELSE r[k + 1]
    BY <2>1, Removed
  <2> HIDE DEF u
  <2>3. i \in 1..Len(u) /\ Len(u) - 1 = n
    BY <1>0, <2>2
  <2>4. /\ w \in Seq(W) /\ Len(w) = n
        /\ \A k \in 1..n : w[k] = IF k < i THEN u[k] ELSE u[k + 1]
    BY <2>2, <2>3, Removed
  <2> HIDE DEF w
  <2>5. ASSUME NEW k \in 1..n PROVE w[k] = cmds[k]
    <3>1. CASE k < i
      <4>1. k \in 1..(n + 1) /\ k < i + 2 /\ k \in 1..(i - 1)
        BY <1>0, <3>1
      <4> QED
        BY <1>3, <2>2, <2>4, <3>1, <4>1
    <3>2. CASE k = i
      <4>1. k + 1 \in 1..(n + 1) /\ k + 1 < i + 2 /\ ~(k < i)
        BY <1>0, <3>2
      <4>2. w[k] = u[k + 1] /\ u[k + 1] = r[k + 1]
        BY <2>2, <2>4, <4>1
      <4> QED
        BY <1>1, <1>3, <3>2, <4>2
    <3>3. CASE k > i
      <4>1. /\ k + 1 \in 1..(n + 1) /\ ~(k + 1 < i + 2) /\ ~(k < i)
            /\ (k + 1) + 1 \in (i + 3)..(n + 2) /\ ((k + 1) + 1) - 2 = k
        BY <1>0, <3>3
      <4>2. w[k] = u[k + 1] /\ u[k + 1] = r[(k + 1) + 1]
        BY <2>2, <2>4, <4>1
      <4>3. r[(k + 1) + 1] = cmds[((k + 1) + 1) - 2]
        BY <1>3, <4>1
      <4> QED
        BY <4>1, <4>2, <4>3
    <3> QED
      BY <1>0, <3>1, <3>2, <3>3
  <2>6. w = cmds
    BY <1>0, <2>4, <2>5, SeqEqual
  <2> QED
    BY <2>6 DEF u, w
<1> QED
  BY <1>1, <1>2, <1>4, <1>5, <1>6

----------------------------------------------------------------------------
(* The inductive invariants.                                               *)

DocShape(d) ==
    /\ d = [kind |-> d.kind, keys |-> d.keys, runcmd |-> d.runcmd, cmds |-> d.cmds, files |-> d.files]
    /\ d.kind \in Kinds

VMShape(v) ==
    v = [ st |-> v.st, data |-> v.data, net |-> v.net, disks |-> v.disks, applied |-> v.applied,
          tags |-> v.tags, vifs |-> v.vifs, attached |-> v.attached ]

VMTypes(v, networks) ==
    /\ VMShape(v) /\ DocShape(v.data)
    /\ v.st \in {"none", "halted", "running"} /\ v.net \in NetPayloads
    /\ v.disks \subseteq Disk /\ IsFiniteSet(v.disks) /\ v.applied \subseteq Settings
    /\ v.attached \subseteq v.vifs /\ v.vifs \subseteq networks

TypeInv == TypeOK /\ VMTypes(vm, input.networks) /\ DocShape(payload)

Resized(disks, o, size) == (disks \ {o}) \cup {[o EXCEPT !.size = size]}

DiskInv ==
    vm.st # "none" =>
       \A o \in input.disks : IsSystemDisk(o, input.disks) =>
          \/ vm.disks = input.disks
          \/ o.size < input.size /\ vm.disks = Resized(input.disks, o, input.size)

DiskSettled == "disk" \in refused \/ \A d \in vm.disks : d.os => d.size >= input.size

\* The settings are tried before the providerID is recorded.
SettingsPlace ==
    /\ pc \in {"create", "resize", "cpus", "boot", "save"} => pid = "unset"
    /\ pc \in {"resize", "cpus", "boot", "save"} => vm.st # "none"

SettingsInv ==
    /\ pc \in {"cpus", "boot", "save"} /\ input.sized => DiskSettled
    /\ pc \in {"boot", "save"} /\ input.sized => "cpus" \in vm.applied \cup refused
    /\ pc = "save" => "boot" \in vm.applied \cup refused
    /\ SettingsNotForgotten

Recorded == {"lookup", "tags", "tagsAgain", "start", "vifs", "ready", "refresh"}

ReadyInv ==
    /\ vm.st # "none" => vm.vifs = input.networks
    /\ pc \in Recorded => pid = "set"
    /\ pc \in {"vifs", "ready"} => vm.st = "running"
    /\ pc = "ready" => vm.attached = input.networks
    /\ ready = "yes" => pid = "set" /\ pc \in {"idle", "refresh"} /\ vm.attached = input.networks

\* What the payload is after Build, and after InjectKubeVIP.
Built == IF input.format = "cloudinit"
         THEN BuildCloudInit(input.doc, input.inject, input.sshKeys)
         ELSE input.doc

Injected == IF WantsKubeVIP /\ Inject(Built) \notin {Panic, Error} THEN Inject(Built) ELSE Built

PayloadInv ==
    /\ pc \in {"kubevip", "create"} => net = NetworkConfig /\ Built # Error
    /\ pc = "kubevip" => payload = Built
    /\ pc = "create" => payload = Injected
    /\ vm.st # "none" => vm.data = Injected /\ vm.net = NetworkConfig /\ Built # Error

----------------------------------------------------------------------------
(* Types.                                                                  *)

LEMMA Asked ==
    ASSUME NEW i \in Inputs
    PROVE  WellFormed(i) /\ IsDocument(i.doc)
BY InputAssumption DEF WellFormed

LEMMA DocumentShapes ==
    /\ DocShape(NoDocument)
    /\ \A doc : IsDocument(doc) => DocShape(doc)
BY DEF DocShape, NoDocument, Document, Kinds, IsDocument

LEMMA DocumentEdits ==
    ASSUME NEW doc, DocShape(doc), NEW x
    PROVE  /\ x \in Kinds => DocShape([doc EXCEPT !.kind = x])
           /\ DocShape([doc EXCEPT !.keys = x])
           /\ DocShape([doc EXCEPT !.cmds = x])
           /\ DocShape([doc EXCEPT !.files = x])
<1>1. x \in Kinds => DocShape([doc EXCEPT !.kind = x])
  BY DEF DocShape
<1>2. DocShape([doc EXCEPT !.keys = x])
  BY DEF DocShape
<1>3. DocShape([doc EXCEPT !.cmds = x])
  BY DEF DocShape
<1>4. DocShape([doc EXCEPT !.files = x])
  BY DEF DocShape
<1> QED
  BY <1>1, <1>2, <1>3, <1>4

LEMMA BuiltShapes ==
    ASSUME NEW doc, IsDocument(doc), NEW inject \in BOOLEAN, NEW sshKeys
    PROVE  \/ BuildCloudInit(doc, inject, sshKeys) = Error
           \/ DocShape(BuildCloudInit(doc, inject, sshKeys))
<1>1. DocShape(doc) /\ DocShape(Document("map", sshKeys, "none", <<>>))
  BY DocumentShapes DEF DocShape, Document, Kinds
<1>2. ASSUME NEW keys PROVE DocShape([doc EXCEPT !.kind = "map", !.keys = keys])
  <2>1. DocShape([doc EXCEPT !.kind = "map"])
    BY <1>1, DocumentEdits DEF Kinds
  <2>2. DocShape([[doc EXCEPT !.kind = "map"] EXCEPT !.keys = keys])
    BY <2>1, DocumentEdits
  <2> QED
    BY <2>2
<1> QED
  BY <1>1, <1>2 DEF BuildCloudInit, MergeSSHKeys

LEMMA InjectedShapes ==
    ASSUME NEW doc, DocShape(doc)
    PROVE  Inject(doc) \in {Error, Panic} \/ DocShape(Inject(doc))
<1>1. ASSUME NEW cmds, NEW files PROVE DocShape([doc EXCEPT !.cmds = cmds, !.files = files])
  <2>1. DocShape([doc EXCEPT !.cmds = cmds])
    BY DocumentEdits
  <2>2. DocShape([[doc EXCEPT !.cmds = cmds] EXCEPT !.files = files])
    BY <2>1, DocumentEdits
  <2> QED
    BY <2>2
<1>2. doc.kind \in {"empty", "comment", "broken", "map"}
  BY DEF DocShape, Kinds
<1> QED
  BY <1>1, <1>2 DEF Inject

\* What the calls change in a VM.
LEMMA VMEdits ==
    ASSUME NEW v, NEW networks, VMTypes(v, networks)
    PROVE  /\ \A s \in Settings : VMTypes([v EXCEPT !.applied = @ \cup {s}], networks)
           /\ \A T : VMTypes([v EXCEPT !.tags = @ \cup T], networks)
           /\ \A D \in SUBSET Disk : IsFiniteSet(D) => VMTypes([v EXCEPT !.disks = D], networks)
           /\ \A P \in SUBSET v.vifs : VMTypes([v EXCEPT !.attached = P], networks)
           /\ \A P \in SUBSET v.vifs : VMTypes([v EXCEPT !.st = "running", !.attached = P], networks)
<1>1. ASSUME NEW s \in Settings PROVE VMTypes([v EXCEPT !.applied = @ \cup {s}], networks)
  BY DEF VMTypes, VMShape
<1>2. ASSUME NEW T PROVE VMTypes([v EXCEPT !.tags = @ \cup T], networks)
  BY DEF VMTypes, VMShape
<1>3. ASSUME NEW D \in SUBSET Disk, IsFiniteSet(D) PROVE VMTypes([v EXCEPT !.disks = D], networks)
  BY <1>3 DEF VMTypes, VMShape
<1>4. ASSUME NEW P \in SUBSET v.vifs PROVE VMTypes([v EXCEPT !.attached = P], networks)
  BY DEF VMTypes, VMShape
<1>5. ASSUME NEW P \in SUBSET v.vifs
      PROVE  VMTypes([v EXCEPT !.st = "running", !.attached = P], networks)
  <2>1. VMTypes([v EXCEPT !.st = "running"], networks) /\ [v EXCEPT !.st = "running"].vifs = v.vifs
    BY DEF VMTypes, VMShape
  <2> DEFINE w == [v EXCEPT !.st = "running"]
  <2>2. VMTypes([w EXCEPT !.attached = P], networks)
    <3> HIDE DEF w
    <3>1. VMTypes(w, networks) /\ w.vifs = v.vifs
      BY <2>1 DEF w
    <3> QED
      BY <3>1 DEF VMTypes, VMShape
  <2> QED
    BY <2>2
<1> QED
  BY <1>1, <1>2, <1>3, <1>4, <1>5

\* The VM of CreateVM.
NewVM(data, netPayload, disks, nets) ==
    [NoVM EXCEPT !.st = "halted", !.data = data, !.net = netPayload, !.disks = disks, !.vifs = nets]

LEMMA NewVMFields ==
    ASSUME NEW data, NEW netPayload, NEW disks, NEW nets
    PROVE  /\ VMShape(NewVM(data, netPayload, disks, nets))
           /\ NewVM(data, netPayload, disks, nets).st = "halted"
           /\ NewVM(data, netPayload, disks, nets).data = data
           /\ NewVM(data, netPayload, disks, nets).net = netPayload
           /\ NewVM(data, netPayload, disks, nets).disks = disks
           /\ NewVM(data, netPayload, disks, nets).applied = {}
           /\ NewVM(data, netPayload, disks, nets).vifs = nets
           /\ NewVM(data, netPayload, disks, nets).attached = {}
<1> DEFINE a == [NoVM EXCEPT !.st = "halted"]
           b == [a EXCEPT !.data = data]
           c == [b EXCEPT !.net = netPayload]
           d == [c EXCEPT !.disks = disks]
           e == [d EXCEPT !.vifs = nets]
<1>1. VMShape(NoVM)
  BY DEF VMShape, NoVM
<1>2. VMShape(a)
  <2> HIDE DEF b
  <2> QED
    BY <1>1 DEF VMShape
<1>3. VMShape(b)
  <2> HIDE DEF a
  <2> QED
    BY <1>2 DEF VMShape
<1>4. VMShape(c)
  <2> HIDE DEF b
  <2> QED
    BY <1>3 DEF VMShape
<1>5. VMShape(d)
  <2> HIDE DEF c
  <2> QED
    BY <1>4 DEF VMShape
<1>6. VMShape(e)
  <2> HIDE DEF d
  <2> QED
    BY <1>5 DEF VMShape
<1>7. NewVM(data, netPayload, disks, nets) = e
  BY DEF NewVM
<1>8. /\ e.st = "halted" /\ e.data = data /\ e.net = netPayload /\ e.disks = disks
      /\ e.applied = {} /\ e.vifs = nets /\ e.attached = {}
  BY DEF NoVM
<1> HIDE DEF a, b, c, d, e
<1> QED
  BY <1>6, <1>7, <1>8

LEMMA NewVMTypes ==
    ASSUME NEW data, DocShape(data), NEW netPayload \in NetPayloads,
           NEW disks \in SUBSET Disk, IsFiniteSet(disks), NEW networks, NEW nets \in SUBSET networks
    PROVE  VMTypes(NewVM(data, netPayload, disks, nets), networks)
<1> DEFINE v == NewVM(data, netPayload, disks, nets)
<1>1. /\ VMShape(v) /\ v.st = "halted" /\ v.data = data /\ v.net = netPayload
      /\ v.disks = disks /\ v.applied = {} /\ v.vifs = nets /\ v.attached = {}
  BY NewVMFields
<1> HIDE DEF v
<1>2. VMTypes(v, networks)
  BY <1>1 DEF VMTypes
<1> QED
  BY <1>2 DEF v

----------------------------------------------------------------------------
(* findMainDisk.                                                           *)

\* diskOrder is a weak order.
LEMMA DiskOrder ==
    ASSUME NEW a \in Disk, NEW b \in Disk, NEW c \in Disk, Before(a, b)
    PROVE  ~Before(b, a) /\ (~Before(c, b) => Before(a, c)) /\ (Before(b, c) => Before(a, c))
<1>1. /\ a.pos \in Int /\ b.pos \in Int /\ c.pos \in Int
      /\ a.dev \in Nat /\ b.dev \in Nat /\ c.dev \in Nat
  BY DEF Disk
<1>2. ~Before(b, a)
  BY <1>1 DEF Before
<1>3. ~Before(c, b) => Before(a, c)
  BY <1>1 DEF Before
<1>4. Before(b, c) => Before(a, c)
  BY <1>1 DEF Before
<1> QED
  BY <1>2, <1>3, <1>4

Ahead(listing, i, j) ==
    Before(listing[i], listing[j]) \/ (i < j /\ ~Before(listing[j], listing[i]))

\* The loop of findMainDisk ends with a disk that is ahead of all others.
LEMMA OneAhead ==
    ASSUME NEW n \in Nat, NEW listing \in [1..n -> Disk], NEW own \in SUBSET (1..n), own # {}
    PROVE  \E i \in own : \A j \in own \ {i} : Ahead(listing, i, j)
<1> DEFINE Leader(U) == \E i \in U : \A j \in U \ {i} : Ahead(listing, i, j)
           S == {k \in Nat : \A U \in SUBSET (1..k) : U \subseteq 1..n /\ U # {} => Leader(U)}
<1>1. 0 \in S
  <2>1. \A U \in SUBSET (1..0) : U = {}
    OBVIOUS
  <2> QED
    BY <2>1
<1>2. ASSUME NEW k \in Nat, k \in S PROVE k + 1 \in S
  <2> SUFFICES ASSUME NEW U \in SUBSET (1..(k+1)), U \subseteq 1..n, U # {} PROVE Leader(U)
    OBVIOUS
  <2>1. CASE k + 1 \notin U
    <3>1. U \in SUBSET (1..k)
      BY <2>1
    <3> HIDE DEF Leader
    <3> QED
      BY <1>2, <3>1
  <2>2. CASE U = {k + 1}
    BY <2>2
  <2>3. CASE k + 1 \in U /\ U # {k + 1}
    <3> DEFINE W == U \ {k + 1}
    <3>1. W \in SUBSET (1..k) /\ W # {} /\ W \subseteq 1..n
      BY <2>3
    <3>2. Leader(W)
      <4> HIDE DEF Leader, W
      <4> QED
        BY <1>2, <3>1
    <3>3. PICK i \in W : \A j \in W \ {i} : Ahead(listing, i, j)
      BY <3>2
    <3>4. i \in U /\ i < k + 1 /\ k + 1 \in 1..n /\ \A j \in U : j \in W \/ j = k + 1
      BY <2>3, <3>1
    <3>5. CASE Ahead(listing, i, k + 1)
      BY <3>3, <3>4, <3>5
    <3>6. CASE ~Ahead(listing, i, k + 1)
      <4>1. listing[i] \in Disk /\ listing[k + 1] \in Disk /\ \A j \in W : listing[j] \in Disk
        BY <3>1, <3>4
      <4>2. Before(listing[k + 1], listing[i])
        BY <3>4, <3>6 DEF Ahead
      <4>3. ASSUME NEW j \in W PROVE Before(listing[k + 1], listing[j])
        <5>1. CASE j = i
          BY <4>2, <5>1
        <5>2. CASE j # i
          <6>1. Before(listing[i], listing[j]) \/ ~Before(listing[j], listing[i])
            BY <3>3, <5>2 DEF Ahead
          <6> QED
            BY <4>1, <4>2, <6>1, DiskOrder
        <5> QED
          BY <5>1, <5>2
      <4>4. \A j \in U \ {k + 1} : Ahead(listing, k + 1, j)
        BY <3>4, <4>3 DEF Ahead
      <4> QED
        BY <2>3, <4>4
    <3> QED
      BY <3>5, <3>6
  <2> QED
    BY <2>1, <2>2, <2>3
<1>3. Nat \subseteq S
  <2> HIDE DEF S
  <2> QED
    BY <1>1, <1>2, Induction
<1>4. Leader(own)
  <2> HIDE DEF Leader
  <2> QED
    BY <1>3
<1> QED
  BY <1>4

\* The disk findMainDisk answers is one of those listed.
LEMMA MainDiskListed ==
    ASSUME NEW disks \in SUBSET Disk, IsFiniteSet(disks), NEW listing \in SetToSeqs(disks),
           FindMainDisk(listing) # 0
    PROVE  FindMainDisk(listing) \in DOMAIN listing /\ listing[FindMainDisk(listing)] \in disks
<1> DEFINE n == Cardinality(disks)
           own == {i \in DOMAIN listing : OwnDisk(listing[i])}
           bootable == {i \in own : listing[i].bootable}
<1>1. n \in Nat /\ listing \in [1..n -> disks] /\ DOMAIN listing = 1..n
  BY FS_CardinalityType DEF SetToSeqs
<1>2. Len(listing) = n
  BY <1>1, LenProperties
<1> SUFFICES FindMainDisk(listing) \in 1..n
  BY <1>1
<1>3. CASE n = 1
  BY <1>2, <1>3 DEF FindMainDisk
<1>4. CASE n # 1 /\ bootable # {}
  <2>1. bootable \in SUBSET (1..n) /\ bootable \in SUBSET Nat
    BY <1>1
  <2>2. Min(bootable) \in bootable
    BY <1>4, <2>1, MinOf
  <2> QED
    BY <1>2, <1>4, <2>1, <2>2 DEF FindMainDisk
<1>5. CASE n # 1 /\ bootable = {} /\ own # {}
  <2> DEFINE c == CHOOSE i \in own : \A j \in own \ {i} : Ahead(listing, i, j)
  <2>1. own \in SUBSET (1..n) /\ listing \in [1..n -> Disk]
    BY <1>1
  <2>2. c \in own
    BY <1>1, <1>5, <2>1, OneAhead
  <2>3. FindMainDisk(listing) = c
    BY <1>2, <1>5 DEF FindMainDisk, Ahead
  <2> QED
    BY <2>1, <2>2, <2>3
<1>6. CASE n # 1 /\ own = {}
  <2>1. bootable = {}
    BY <1>6
  <2> QED
    BY <1>2, <1>6, <2>1 DEF FindMainDisk
<1> QED
  BY <1>3, <1>4, <1>5, <1>6

----------------------------------------------------------------------------
(* Type correctness.                                                       *)

LEMMA DropTypes ==
    ASSUME TypeInv, Drop, input' = input, ctags' = ctags, pid' = pid, ready' = ready,
           refused' = refused, vm' = vm, cond' \in Reasons
    PROVE  TypeInv'
BY DocumentShapes DEF TypeInv, TypeOK, Drop, Goto, Calls, NetPayloads, DocShape

LEMMA ProceedTypes ==
    ASSUME TypeInv, NEW call \in Calls, Proceed(call)
    PROVE  TypeInv'
BY DEF TypeInv, TypeOK, Proceed, Goto

\* A step that changes the VM, and goes on with the payload or drops it.
LEMMA VMStepTypes ==
    ASSUME TypeInv, VMTypes(vm', input.networks), NEW call \in Calls, Continue(call) \/ Drop,
           input' = input, ctags' = ctags, pid' = pid, ready' = ready,
           refused' \subseteq Settings, cond' \in Reasons
    PROVE  TypeInv'
<1>1. pc' \in Calls /\ net' \in NetPayloads /\ DocShape(payload')
  BY DocumentShapes DEF TypeInv, TypeOK, Continue, Drop, Goto, Calls, NetPayloads
<1>2. TypeOK'
  BY <1>1 DEF TypeInv, TypeOK, VMTypes, DocShape
<1> QED
  BY <1>1, <1>2 DEF TypeInv

LEMMA FailedTypes ==
    ASSUME TypeInv, Failed \/ \E reason \in Reasons : FailedBecause(reason)
    PROVE  TypeInv'
<1>1. CASE Failed
  BY <1>1, DropTypes DEF Failed, Done, TypeInv, TypeOK
<1>2. ASSUME NEW reason \in Reasons, FailedBecause(reason) PROVE TypeInv'
  BY <1>2, DropTypes DEF FailedBecause, TypeInv, TypeOK
<1> QED
  BY <1>1, <1>2

LEMMA TriedTypes ==
    ASSUME TypeInv, NEW setting \in Settings, NEW next \in Calls, NEW v,
           VMTypes(v, input.networks), Tried(setting, next, v)
    PROVE  TypeInv'
<1>1. VMTypes(vm', input.networks)
  BY DEF Tried, TypeInv
<1>2. refused' \subseteq Settings /\ cond' \in Reasons
  BY DEF Tried, TypeInv, TypeOK
<1> QED
  BY <1>1, <1>2, VMStepTypes DEF Tried, Continue

LEMMA TaggedTypes ==
    ASSUME TypeInv, Tagged
    PROVE  VMTypes(vm', input.networks)
<1>1. PICK T : vm' = [vm EXCEPT !.tags = @ \cup T]
  BY DEF Tagged
<1> QED
  BY <1>1, VMEdits DEF TypeInv

LEMMA BuildTypes ==
    ASSUME TypeInv, Build
    PROVE  TypeInv'
<1>1. CASE Failed
  BY <1>1, FailedTypes
<1>2. ASSUME NEW inject \in Seen(input.inject, FALSE), NEW doc,
             doc = IF input.format = "cloudinit"
                   THEN BuildCloudInit(input.doc, inject, input.sshKeys) ELSE input.doc,
             doc = Error, FailedBecause("CloudConfigBuildFailed")
      PROVE  TypeInv'
  BY <1>2, FailedTypes DEF Reasons
<1>3. ASSUME NEW inject \in Seen(input.inject, FALSE), NEW doc,
             doc = IF input.format = "cloudinit"
                   THEN BuildCloudInit(input.doc, inject, input.sshKeys) ELSE input.doc,
             doc # Error, payload' = doc, net' = NetworkConfig, Goto("kubevip"),
             UNCHANGED <<input, ctags, pid, ready, cond, vm, refused>>
      PROVE  TypeInv'
  <2>1. input \in Inputs /\ inject \in BOOLEAN
    BY Asked DEF TypeInv, TypeOK, WellFormed, Seen
  <2>2. DocShape(doc)
    BY <1>3, <2>1, Asked, BuiltShapes, DocumentShapes
  <2>3. net' \in NetPayloads
    BY <1>3 DEF NetworkConfig, NetPayloads
  <2> QED
    BY <1>3, <2>2, <2>3 DEF TypeInv, TypeOK, Goto, Calls, DocShape
<1> QED
  BY <1>1, <1>2, <1>3 DEF Build

LEMMA InjectTypes ==
    ASSUME TypeInv, InjectKubeVIP
    PROVE  TypeInv'
<1>0. /\ AfterPayload \in Calls
      /\ {"KubeVIPInjectionFailed", "CloudConfigBuildFailed"} \subseteq Reasons
  BY DEF AfterPayload, Calls, Reasons
<1>1. CASE Proceed(AfterPayload)
  BY <1>0, <1>1, ProceedTypes
<1>2. CASE Failed \/ \E reason \in Reasons : FailedBecause(reason)
  BY <1>0, <1>2, FailedTypes
<1>3. CASE /\ cond' = "KubeVIPInjectionFailed" /\ Goto(AfterPayload)
           /\ UNCHANGED <<input, ctags, pid, ready, vm, refused, payload, net>>
  BY <1>0, <1>3 DEF TypeInv, TypeOK, Goto
<1>4. CASE /\ Inject(payload) \notin {Panic, Error} /\ payload' = Inject(payload)
           /\ Goto(AfterPayload) /\ UNCHANGED <<input, ctags, pid, ready, cond, vm, refused, net>>
  <2>1. DocShape(payload')
    BY <1>4, InjectedShapes DEF TypeInv
  <2> QED
    BY <1>0, <1>4, <2>1 DEF TypeInv, TypeOK, Goto, DocShape
<1> QED
  BY <1>0, <1>1, <1>2, <1>3, <1>4 DEF InjectKubeVIP

LEMMA CreateTypes ==
    ASSUME TypeInv, CreateVM
    PROVE  TypeInv'
<1>1. CASE Failed
  BY <1>1, FailedTypes
<1>2. CASE Proceed("resize")
  BY <1>2, ProceedTypes DEF Calls
<1>3. ASSUME NEW nets \in SUBSET input.networks, vm' = NewVM(payload, net, input.disks, nets),
             Continue("resize") \/ Drop, UNCHANGED <<input, ctags, pid, ready, cond, refused>>
      PROVE  TypeInv'
  <2>1. input.disks \in SUBSET Disk /\ IsFiniteSet(input.disks)
    BY Asked DEF TypeInv, TypeOK, WellFormed
  <2>2. VMTypes(vm', input.networks)
    BY <1>3, <2>1, NewVMTypes DEF TypeInv, TypeOK
  <2> QED
    BY <1>3, <2>2, VMStepTypes DEF TypeInv, TypeOK, Calls
<1> QED
  BY <1>1, <1>2, <1>3 DEF CreateVM, NewVM

LEMMA ResizeTypes ==
    ASSUME TypeInv, ResizeDiskIfNeeded
    PROVE  TypeInv'
<1>1. CASE Proceed("cpus")
  BY <1>1, ProceedTypes DEF Calls
<1>2. ASSUME NEW listing \in SetToSeqs(vm.disks), NEW i, i = FindMainDisk(listing), NEW v,
             v = IF i = 0 \/ listing[i].size >= input.size THEN vm
                 ELSE [vm EXCEPT !.disks = (@ \ {listing[i]}) \cup {[listing[i] EXCEPT !.size = input.size]}],
             Tried("disk", "cpus", v)
      PROVE  TypeInv'
  <2>1. vm.disks \in SUBSET Disk /\ IsFiniteSet(vm.disks)
    BY DEF TypeInv, VMTypes
  <2>2. input.size \in Nat
    BY Asked DEF TypeInv, TypeOK, WellFormed
  <2>3. VMTypes(v, input.networks)
    <3>1. CASE v = vm
      BY <3>1 DEF TypeInv
    <3>2. CASE v # vm
      <4> DEFINE D == (vm.disks \ {listing[i]}) \cup {[listing[i] EXCEPT !.size = input.size]}
      <4>1. listing[i] \in Disk
        BY <1>2, <2>1, <3>2, MainDiskListed
      <4>2. [listing[i] EXCEPT !.size = input.size] \in Disk
        BY <2>2, <4>1 DEF Disk
      <4>3. D \in SUBSET Disk
        BY <2>1, <4>2
      <4>4. IsFiniteSet(D)
        <5>1. IsFiniteSet(vm.disks \ {listing[i]})
          BY <2>1, FS_Difference
        <5> QED
          BY <5>1, FS_AddElement
      <4>5. v = [vm EXCEPT !.disks = D]
        BY <1>2, <3>2
      <4> HIDE DEF D
      <4> QED
        BY <4>3, <4>4, <4>5, VMEdits DEF TypeInv
    <3> QED
      BY <3>1, <3>2
  <2> QED
    BY <1>2, <2>3, TriedTypes DEF Settings, Calls
<1> QED
  BY <1>1, <1>2 DEF ResizeDiskIfNeeded

LEMMA SettingTypes ==
    ASSUME TypeInv, SetCPUsIfNeeded \/ SetBootOrder
    PROVE  TypeInv'
<1>1. CASE Proceed("boot")
  BY <1>1, ProceedTypes DEF Calls
<1>2. VMTypes([vm EXCEPT !.applied = @ \cup {"cpus"}], input.networks)
  BY VMEdits DEF TypeInv, Settings
<1>3. VMTypes([vm EXCEPT !.applied = @ \cup {"boot"}], input.networks)
  BY VMEdits DEF TypeInv, Settings
<1>4. CASE Tried("cpus", "boot", [vm EXCEPT !.applied = @ \cup {"cpus"}])
  BY <1>2, <1>4, TriedTypes DEF Settings, Calls
<1>5. CASE Tried("boot", "save", [vm EXCEPT !.applied = @ \cup {"boot"}])
  BY <1>3, <1>5, TriedTypes DEF Settings, Calls
<1> QED
  BY <1>1, <1>4, <1>5 DEF SetCPUsIfNeeded, SetBootOrder

LEMMA SaveTypes ==
    ASSUME TypeInv, SaveProviderID
    PROVE  TypeInv'
<1>1. CASE Failed
  BY <1>1, FailedTypes
<1>2. CASE /\ pid' = "set" /\ (Continue("tags") \/ Drop)
           /\ UNCHANGED <<input, ctags, ready, cond, vm, refused>>
  <2>1. pc' \in Calls /\ net' \in NetPayloads /\ DocShape(payload')
    BY <1>2, DocumentShapes DEF TypeInv, TypeOK, Continue, Drop, Goto, Calls, NetPayloads
  <2> QED
    BY <1>2, <2>1 DEF TypeInv, TypeOK, DocShape
<1> QED
  BY <1>1, <1>2 DEF SaveProviderID

LEMMA TagTypes ==
    ASSUME TypeInv, SetVMTags
    PROVE  TypeInv'
<1>1. Tagged /\ (Continue("tagsAgain") \/ Continue("start"))
      /\ UNCHANGED <<input, ctags, pid, ready, cond, refused>>
  BY DEF SetVMTags, Continue
<1>2. VMTypes(vm', input.networks)
  BY <1>1, TaggedTypes
<1> QED
  BY <1>1, <1>2, VMStepTypes DEF TypeInv, TypeOK, Calls

LEMMA RefreshTypes ==
    ASSUME TypeInv, RefreshReadyMachine
    PROVE  TypeInv'
<1>1. CASE Failed
  BY <1>1, FailedTypes
<1>2. CASE Tagged /\ Drop /\ UNCHANGED <<input, ctags, pid, ready, cond, refused>>
  <2>1. VMTypes(vm', input.networks)
    BY <1>2, TaggedTypes
  <2> QED
    BY <1>2, <2>1, VMStepTypes DEF TypeInv, TypeOK, Calls
<1> QED
  BY <1>1, <1>2 DEF RefreshReadyMachine

LEMMA StartTypes ==
    ASSUME TypeInv, StartVM
    PROVE  TypeInv'
<1>1. CASE Failed
  BY <1>1, FailedTypes
<1>2. ASSUME NEW plugged \in SUBSET vm.vifs, NEW P,
             P = IF vm.st = "running" THEN vm.attached ELSE plugged,
             vm' = [vm EXCEPT !.st = "running", !.attached = P],
             Continue("vifs") \/ Drop, UNCHANGED <<input, ctags, pid, ready, cond, refused>>
      PROVE  TypeInv'
  <2>1. P \in SUBSET vm.vifs
    BY <1>2 DEF TypeInv, VMTypes
  <2>2. VMTypes(vm', input.networks)
    BY <1>2, <2>1, VMEdits DEF TypeInv
  <2> QED
    BY <1>2, <2>2, VMStepTypes DEF TypeInv, TypeOK, Calls
<1>3. ASSUME NEW plugged \in SUBSET vm.vifs,
             vm' = [vm EXCEPT !.st = "running",
                              !.attached = IF vm.st = "running" THEN @ ELSE plugged]
      PROVE  vm' = [vm EXCEPT !.st = "running",
                              !.attached = IF vm.st = "running" THEN vm.attached ELSE plugged]
  BY <1>3 DEF TypeInv, VMTypes, VMShape
<1> QED
  BY <1>1, <1>2, <1>3 DEF StartVM

LEMMA VIFTypes ==
    ASSUME TypeInv, ManageVIFs
    PROVE  TypeInv'
<1>1. CASE Proceed("ready")
  BY <1>1, ProceedTypes DEF Calls
<1>2. VMTypes([vm EXCEPT !.attached = vm.vifs], input.networks)
  BY VMEdits DEF TypeInv
<1>3. VMTypes([[vm EXCEPT !.attached = vm.vifs] EXCEPT !.applied = @ \cup {"range"}], input.networks)
  <2> DEFINE v == [vm EXCEPT !.attached = vm.vifs]
  <2>1. VMTypes(v, input.networks)
    BY <1>2
  <2> HIDE DEF v
  <2>2. VMTypes([v EXCEPT !.applied = @ \cup {"range"}], input.networks)
    BY <2>1, VMEdits DEF Settings
  <2> QED
    BY <2>2 DEF v
<1>4. CASE /\ \/ vm' = [[vm EXCEPT !.attached = vm.vifs] EXCEPT !.applied = @ \cup {"range"}]
              \/ vm' = [vm EXCEPT !.attached = vm.vifs]
           /\ refused' \in {refused \ {"range"}, refused \cup {"range"}}
           /\ Goto("ready") /\ UNCHANGED <<input, ctags, pid, ready, cond, payload, net>>
  <2>1. VMTypes(vm', input.networks)
    BY <1>2, <1>3, <1>4
  <2>2. refused' \subseteq Settings
    BY <1>4 DEF TypeInv, TypeOK, Settings
  <2> QED
    BY <1>4, <2>1, <2>2, VMStepTypes DEF TypeInv, TypeOK, Calls, Continue
<1>5. ASSUME NEW done \in SUBSET (vm.vifs \ vm.attached), vm' = [vm EXCEPT !.attached = @ \cup done],
             Drop, cond' \in {cond, "VifManagementFailed"},
             UNCHANGED <<input, ctags, pid, ready, refused>>
      PROVE  TypeInv'
  <2>1. vm.attached \cup done \in SUBSET vm.vifs
    BY DEF TypeInv, VMTypes
  <2>2. vm' = [vm EXCEPT !.attached = vm.attached \cup done]
    BY <1>5
  <2>3. VMTypes(vm', input.networks)
    BY <2>1, <2>2, VMEdits DEF TypeInv
  <2> QED
    BY <1>5, <2>3, VMStepTypes DEF TypeInv, TypeOK, Calls, Reasons
<1> QED
  BY <1>1, <1>4, <1>5 DEF ManageVIFs

LEMMA ReadyTypes ==
    ASSUME TypeInv, MarkReady
    PROVE  TypeInv'
<1>1. CASE Failed
  BY <1>1, FailedTypes
<1>2. CASE /\ ready' = "yes" /\ cond' = "VmReady" /\ Drop
           /\ UNCHANGED <<input, ctags, pid, vm, refused>>
  <2>1. pc' \in Calls /\ net' \in NetPayloads /\ DocShape(payload')
    BY <1>2, DocumentShapes DEF Drop, Goto, Calls, NetPayloads
  <2> QED
    BY <1>2, <2>1 DEF TypeInv, TypeOK, Reasons, DocShape
<1> QED
  BY <1>1, <1>2 DEF MarkReady

LEMMA TypeInvariant == Spec => []TypeInv
<1>1. Init => TypeInv
  <2> SUFFICES ASSUME Init PROVE TypeInv
    OBVIOUS
  <2>1. VMTypes(vm, input.networks)
    <3>1. IsFiniteSet({})
      BY FS_EmptySet
    <3>2. VMShape(NoVM)
      BY DEF NoVM, VMShape
    <3> QED
      BY <3>1, <3>2, DocumentShapes DEF Init, VMTypes, NoVM, NetPayloads
  <2>2. DocShape(payload)
    BY DocumentShapes DEF Init
  <2> QED
    BY <2>1, <2>2 DEF Init, TypeInv, TypeOK, VMTypes, Reasons, Settings, Calls, NetPayloads, DocShape
<1>2. TypeInv /\ [Next]_vars => TypeInv'
  <2> SUFFICES ASSUME TypeInv, [Next]_vars PROVE TypeInv'
    OBVIOUS
  <2>1. CASE Reconcile
    <3>1. \E call \in Calls : Proceed(call)
      BY <2>1 DEF Reconcile, Calls
    <3> QED
      BY <3>1, ProceedTypes
  <2>2. CASE LookupExistingVM
    BY <2>2, ProceedTypes, FailedTypes DEF LookupExistingVM, Calls
  <2>3. CASE EditTags
    BY <2>3 DEF EditTags, TypeInv, TypeOK
  <2>4. CASE Crash
    BY <2>4, FailedTypes DEF Crash, Failed
  <2>5. CASE UNCHANGED vars
    BY <2>5 DEF vars, TypeInv, TypeOK
  <2> QED
    BY <2>1, <2>2, <2>3, <2>4, <2>5, BuildTypes, InjectTypes, CreateTypes, ResizeTypes,
       SettingTypes, SaveTypes, TagTypes, RefreshTypes, StartTypes, VIFTypes, ReadyTypes
       DEF Next, Worker
<1> QED
  BY <1>1, <1>2, PTL DEF Spec

\* Every variable keeps its type, whichever calls fail.
THEOREM SettingsTypeCorrect == Spec => []TypeOK
<1>1. TypeInv => TypeOK
  BY DEF TypeInv
<1> QED
  BY <1>1, TypeInvariant, PTL

----------------------------------------------------------------------------
(* Connected interfaces.                                                   *)

SamePlugs(v) == v.st = vm.st /\ v.vifs = vm.vifs /\ v.attached = vm.attached

LEMMA EditsKeepPlugs ==
    ASSUME TypeInv, NEW x
    PROVE  /\ SamePlugs(vm) /\ SamePlugs([vm EXCEPT !.applied = x])
           /\ SamePlugs([vm EXCEPT !.tags = x]) /\ SamePlugs([vm EXCEPT !.disks = x])
BY DEF TypeInv, VMTypes, VMShape, SamePlugs

LEMMA TaggedKeeps ==
    ASSUME Tagged
    PROVE  \E T : vm' = [vm EXCEPT !.tags = T]
<1>1. PICK T : vm' = [vm EXCEPT !.tags = @ \cup T]
  BY DEF Tagged
<1>2. vm' = [vm EXCEPT !.tags = vm.tags \cup T]
  BY <1>1
<1> QED
  BY <1>2

\* A step that leaves the interfaces alone and is none of a Ready machine.
LEMMA ReadyQuiet ==
    ASSUME ReadyInv, vm'.st = vm.st, vm'.vifs = vm.vifs, vm'.attached = vm.attached,
           input' = input, ready' = ready, pid' = pid \/ pid' = "set",
           pc' \notin {"vifs", "ready"}, pc' \in Recorded => pid' = "set",
           ready = "yes" => pc' \in {"idle", "refresh"}
    PROVE  ReadyInv'
BY DEF ReadyInv

LEMMA ReadyIdle ==
    ASSUME TypeInv, ReadyInv, Failed \/ \E reason \in Reasons : FailedBecause(reason)
    PROVE  ReadyInv'
BY DEF Failed, FailedBecause, Done, Drop, Goto, ReadyInv, Recorded

LEMMA ReadyProceeds ==
    ASSUME TypeInv, ReadyInv, NEW call \in Calls, Proceed(call), call \notin {"vifs", "ready"},
           call \in Recorded => pid = "set", ready = "yes" => call \in {"idle", "refresh"}
    PROVE  ReadyInv'
BY ReadyQuiet DEF Proceed, Goto

\* What is tried on the disks, CPUs or boot order of a VM of a machine not Ready.
LEMMA ReadyTried ==
    ASSUME TypeInv, ReadyInv, ready # "yes", NEW setting, NEW next \in {"cpus", "boot", "save"}, NEW v,
           SamePlugs(v), Tried(setting, next, v)
    PROVE  ReadyInv'
<1>1. vm'.st = vm.st /\ vm'.vifs = vm.vifs /\ vm'.attached = vm.attached
  BY DEF Tried, SamePlugs
<1>2. input' = input /\ ready' = ready /\ pid' = pid /\ pc' = next
  BY DEF Tried, Goto
<1>3. pc' \notin {"vifs", "ready"} /\ pc' \notin Recorded
  BY <1>2 DEF Recorded
<1> QED
  BY <1>1, <1>2, <1>3, ReadyQuiet

LEMMA ReadyStep ==
    ASSUME "network" \notin Faults, TypeInv, ReadyInv, [Next]_vars
    PROVE  ReadyInv'
<1>0. pc \notin {"idle", "refresh"} => ready # "yes"
  BY DEF ReadyInv
<1>1. CASE Reconcile
  <2>1. CASE Proceed("build") /\ ready # "yes"
    BY <2>1, ReadyProceeds DEF Calls, Recorded
  <2>2. CASE Proceed("start") /\ pid = "set" /\ ready # "yes"
    BY <2>2, ReadyProceeds DEF Calls
  <2>3. CASE Proceed("refresh") /\ pid = "set"
    BY <2>3, ReadyProceeds DEF Calls
  <2>4. pid = "unset" => ready # "yes"
    BY DEF ReadyInv
  <2> QED
    BY <1>1, <2>1, <2>2, <2>3, <2>4 DEF Reconcile
<1>2. CASE Build
  <2>1. CASE Failed \/ FailedBecause("CloudConfigBuildFailed")
    BY <2>1, ReadyIdle DEF Reasons
  <2>2. CASE Goto("kubevip") /\ UNCHANGED <<input, ctags, pid, ready, cond, vm, refused>>
    BY <1>0, <1>2, <2>2, ReadyQuiet DEF Build, Goto, Recorded
  <2> QED
    BY <1>2, <2>1, <2>2 DEF Build
<1>3. CASE InjectKubeVIP
  <2>0. {"KubeVIPInjectionFailed", "CloudConfigBuildFailed"} \subseteq Reasons
    BY DEF Reasons
  <2>1. CASE Failed \/ \E reason \in Reasons : FailedBecause(reason)
    BY <2>1, ReadyIdle
  <2>2. CASE pc' = AfterPayload /\ UNCHANGED <<input, pid, ready, vm>>
    <3>1. pc' \in Recorded => pid' = "set"
      BY <2>2 DEF AfterPayload, Recorded
    <3>2. pc' \notin {"vifs", "ready"} /\ ready # "yes"
      BY <1>0, <1>3, <2>2 DEF AfterPayload, InjectKubeVIP
    <3> QED
      BY <2>2, <3>1, <3>2, ReadyQuiet
  <2> QED
    BY <1>3, <2>0, <2>1, <2>2 DEF InjectKubeVIP, Proceed, Goto
<1>4. CASE CreateVM
  <2>1. CASE Failed
    BY <2>1, ReadyIdle
  <2>2. CASE Proceed("resize")
    BY <1>0, <1>4, <2>2, ReadyProceeds DEF CreateVM, Calls, Recorded
  <2>3. CASE /\ vm' = NewVM(payload, net, input.disks, input.networks)
             /\ Continue("resize") \/ Drop
             /\ UNCHANGED <<input, ctags, pid, ready, cond, refused>>
    <3>1. vm'.vifs = input.networks
      BY <2>3, NewVMFields
    <3>2. pc' \notin Recorded /\ ready # "yes"
      BY <1>0, <1>4, <2>3 DEF CreateVM, Continue, Drop, Goto, Recorded
    <3> QED
      BY <2>3, <3>1, <3>2 DEF ReadyInv, Recorded
  <2> QED
    BY <1>4, <2>1, <2>2, <2>3 DEF CreateVM, NewVM
<1>5. CASE ResizeDiskIfNeeded
  <2>1. CASE Proceed("cpus")
    BY <1>0, <1>5, <2>1, ReadyProceeds DEF ResizeDiskIfNeeded, Calls, Recorded
  <2>2. ASSUME NEW v, SamePlugs(v), Tried("disk", "cpus", v) PROVE ReadyInv'
    BY <1>0, <1>5, <2>2, ReadyTried DEF ResizeDiskIfNeeded
  <2> QED
    BY <1>5, <2>1, <2>2, EditsKeepPlugs DEF ResizeDiskIfNeeded
<1>6. CASE SetCPUsIfNeeded
  <2>1. CASE Proceed("boot")
    BY <1>0, <1>6, <2>1, ReadyProceeds DEF SetCPUsIfNeeded, Calls, Recorded
  <2>2. ASSUME NEW v, SamePlugs(v), Tried("cpus", "boot", v) PROVE ReadyInv'
    BY <1>0, <1>6, <2>2, ReadyTried DEF SetCPUsIfNeeded
  <2> QED
    BY <1>6, <2>1, <2>2, EditsKeepPlugs DEF SetCPUsIfNeeded
<1>7. CASE SetBootOrder
  <2>1. ASSUME NEW v, SamePlugs(v), Tried("boot", "save", v) PROVE ReadyInv'
    BY <1>0, <1>7, <2>1, ReadyTried DEF SetBootOrder
  <2> QED
    BY <1>7, <2>1, EditsKeepPlugs DEF SetBootOrder
<1>8. CASE SaveProviderID
  <2>1. CASE Failed
    BY <2>1, ReadyIdle
  <2>2. CASE pid' = "set" /\ pc' \in {"tags", "idle"} /\ UNCHANGED <<input, ready, vm>>
    BY <1>0, <1>8, <2>2, ReadyQuiet DEF SaveProviderID
  <2> QED
    BY <1>8, <2>1, <2>2 DEF SaveProviderID, Continue, Drop, Goto
<1>9. CASE LookupExistingVM
  <2>1. pid = "set" /\ ready # "yes"
    BY <1>0, <1>9 DEF LookupExistingVM, ReadyInv, Recorded
  <2> QED
    BY <1>9, <2>1, ReadyIdle, ReadyProceeds DEF LookupExistingVM, Calls
<1>10. CASE SetVMTags
  <2>1. /\ SamePlugs(vm') /\ pid = "set" /\ ready # "yes"
        /\ pc' \in {"tagsAgain", "start"} /\ UNCHANGED <<input, ready, pid>>
    BY <1>0, <1>10, TaggedKeeps, EditsKeepPlugs DEF SetVMTags, ReadyInv, Recorded, Goto
  <2> QED
    BY <2>1, ReadyQuiet DEF SamePlugs
<1>11. CASE StartVM
  <2>1. CASE Failed
    BY <2>1, ReadyIdle
  <2>2. CASE /\ Exists /\ vm'.st = "running" /\ vm'.vifs = vm.vifs /\ pc' \in {"vifs", "idle"}
             /\ UNCHANGED <<input, ctags, pid, ready, cond, refused>>
    <3>1. pid = "set" /\ ready # "yes" /\ vm.vifs = input.networks
      BY <1>0, <1>11, <2>2 DEF StartVM, ReadyInv, Recorded, Exists
    <3> QED
      BY <2>2, <3>1 DEF ReadyInv, Recorded
  <2>3. ASSUME NEW P, vm' = [vm EXCEPT !.st = "running", !.attached = P]
        PROVE  vm'.st = "running" /\ vm'.vifs = vm.vifs
    BY <2>3 DEF TypeInv, VMTypes, VMShape
  <2>4. ASSUME Exists, NEW plugged,
               vm' = [vm EXCEPT !.st = "running", !.attached = IF vm.st = "running" THEN @ ELSE plugged],
               Continue("vifs") \/ Drop, UNCHANGED <<input, ctags, pid, ready, cond, refused>>
        PROVE  ReadyInv'
    <3>1. \E P : vm' = [vm EXCEPT !.st = "running", !.attached = P]
      <4>1. CASE vm.st = "running"
        <5>1. vm' = [vm EXCEPT !.st = "running", !.attached = vm.attached]
          BY <2>4, <4>1 DEF TypeInv, VMTypes, VMShape
        <5> QED
          BY <5>1
      <4>2. CASE vm.st # "running"
        <5>1. vm' = [vm EXCEPT !.st = "running", !.attached = plugged]
          BY <2>4, <4>2
        <5> QED
          BY <5>1
      <4> QED
        BY <4>1, <4>2
    <3>2. pc' \in {"vifs", "idle"}
      BY <2>4 DEF Continue, Drop, Goto
    <3> QED
      BY <2>2, <2>3, <2>4, <3>1, <3>2
  <2> QED
    BY <1>11, <2>1, <2>4 DEF StartVM
<1>12. CASE ManageVIFs
  <2>0. /\ pid = "set" /\ ready # "yes" /\ vm.st = "running" /\ vm.vifs = input.networks
        /\ vm.attached \subseteq vm.vifs
    BY <1>0, <1>12 DEF ManageVIFs, ReadyInv, Recorded, TypeInv, VMTypes
  <2>1. CASE input.networks = {} /\ Proceed("ready")
    BY <2>0, <2>1 DEF ReadyInv, Recorded, Proceed, Goto
  <2>2. CASE /\ vm'.st = vm.st /\ vm'.vifs = vm.vifs /\ vm'.attached = vm.vifs
             /\ Goto("ready") /\ UNCHANGED <<input, ctags, pid, ready, cond, payload, net>>
    BY <2>0, <2>2 DEF ReadyInv, Recorded, Goto
  <2>3. ASSUME NEW done \in SUBSET (vm.vifs \ vm.attached), vm' = [vm EXCEPT !.attached = @ \cup done],
               Drop, UNCHANGED <<input, ctags, pid, ready, refused>>
        PROVE  ReadyInv'
    <3>1. vm'.st = vm.st /\ vm'.vifs = vm.vifs
      BY <2>3 DEF TypeInv, VMTypes, VMShape
    <3> QED
      BY <2>0, <2>3, <3>1 DEF ReadyInv, Recorded, Drop, Goto
  <2>4. LET connected == [vm EXCEPT !.attached = vm.vifs]
        IN  \A v \in {connected, [connected EXCEPT !.applied = @ \cup {"range"}]} :
               v.st = vm.st /\ v.vifs = vm.vifs /\ v.attached = vm.vifs
    BY DEF TypeInv, VMTypes, VMShape
  <2> QED
    BY <1>12, <2>1, <2>2, <2>3, <2>4 DEF ManageVIFs
<1>13. CASE MarkReady
  <2>1. CASE Failed
    BY <2>1, ReadyIdle
  <2>2. CASE ready' = "yes" /\ pc' = "idle" /\ UNCHANGED <<input, pid, vm>>
    <3>1. pid = "set" /\ vm.attached = input.networks
      BY <1>13 DEF MarkReady, ReadyInv, Recorded
    <3> QED
      BY <2>2, <3>1 DEF ReadyInv, Recorded
  <2> QED
    BY <1>13, <2>1, <2>2 DEF MarkReady, Drop, Goto
<1>14. CASE RefreshReadyMachine
  <2>1. CASE Failed
    BY <2>1, ReadyIdle
  <2>2. CASE Tagged /\ Drop /\ UNCHANGED <<input, ctags, pid, ready, cond, refused>>
    <3>1. SamePlugs(vm') /\ pc' = "idle"
      BY <2>2, TaggedKeeps, EditsKeepPlugs DEF Drop, Goto
    <3> QED
      BY <2>2, <3>1, ReadyQuiet DEF SamePlugs, Recorded
  <2> QED
    BY <1>14, <2>1, <2>2 DEF RefreshReadyMachine
<1>15. CASE EditTags
  BY <1>15 DEF EditTags, ReadyInv
<1>16. CASE Crash
  BY <1>16, ReadyIdle DEF Crash, Failed
<1>17. CASE UNCHANGED vars
  BY <1>17 DEF vars, ReadyInv
<1> QED
  BY <1>1, <1>2, <1>3, <1>4, <1>5, <1>6, <1>7, <1>8, <1>9, <1>10, <1>11, <1>12, <1>13, <1>14,
     <1>15, <1>16, <1>17 DEF Next, Worker

\* ManageVIFs, reconcileNormal: a Ready machine has every interface of its networks
\* connected, through crashes, requeues and connections that fail, if the networks
\* could be resolved when its VM was created.
THEOREM NetworksConnected == "network" \notin Faults /\ Spec => []ReadyConnected
<1> SUFFICES ASSUME "network" \notin Faults PROVE Spec => []ReadyConnected
  OBVIOUS
<1>1. Init => ReadyInv
  BY DEF Init, ReadyInv, NoVM, Recorded
<1>2. TypeInv /\ ReadyInv /\ [Next]_vars => ReadyInv'
  BY ReadyStep
<1>3. ReadyInv => ReadyConnected
  BY DEF ReadyInv, ReadyConnected
<1> QED
  BY <1>1, <1>2, <1>3, TypeInvariant, PTL DEF Spec

----------------------------------------------------------------------------
(* The system disk.                                                        *)

\* A listing names every disk, each once.
LEMMA ListedOnce ==
    ASSUME NEW disks, IsFiniteSet(disks), NEW listing \in SetToSeqs(disks)
    PROVE  /\ Cardinality(disks) \in Nat /\ Len(listing) = Cardinality(disks)
           /\ listing \in [1..Cardinality(disks) -> disks]
           /\ \A i, j \in 1..Cardinality(disks) : listing[i] = listing[j] => i = j
           /\ \A d \in disks : \E i \in 1..Cardinality(disks) : listing[i] = d
<1> DEFINE n == Cardinality(disks)
<1>1. n \in Nat /\ listing \in [1..n -> disks] /\ \A i, j \in 1..n : listing[i] = listing[j] => i = j
  BY FS_CardinalityType DEF SetToSeqs
<1>2. Len(listing) = n
  BY <1>1, LenProperties
<1>3. IsFiniteSet(1..n) /\ Cardinality(1..n) = n
  BY <1>1, FS_Interval
<1>4. listing \in Injection(1..n, disks)
  BY <1>1 DEF Injection, IsInjective
<1>5. listing \in Surjection(1..n, disks)
  BY <1>3, <1>4, FS_Injection
<1> QED
  BY <1>1, <1>2, <1>5 DEF Surjection

\* findMainDisk: the system disk, in whichever order the disks are listed.
THEOREM SystemDiskFound ==
    ASSUME NEW disks \in SUBSET Disk, IsFiniteSet(disks), NEW o, IsSystemDisk(o, disks),
           NEW listing \in SetToSeqs(disks)
    PROVE  FindMainDisk(listing) # 0 /\ listing[FindMainDisk(listing)] = o
<1> DEFINE n == Cardinality(disks)
           own == {i \in DOMAIN listing : OwnDisk(listing[i])}
           bootable == {i \in own : listing[i].bootable}
<1>1. /\ n \in Nat /\ Len(listing) = n /\ listing \in [1..n -> disks] /\ DOMAIN listing = 1..n
      /\ \A i, j \in 1..n : listing[i] = listing[j] => i = j
  BY ListedOnce
<1>2. PICK p \in 1..n : listing[p] = o
  BY ListedOnce DEF IsSystemDisk
<1>3. SUFFICES FindMainDisk(listing) = p
  BY <1>2
<1>4. CASE n = 1
  BY <1>1, <1>4 DEF FindMainDisk
<1>5. CASE n # 1
  <2>1. disks # {o}
    BY <1>5, FS_Singleton
  <2>2. OwnDisk(o) /\ p \in own
    BY <1>1, <1>2, <2>1 DEF IsSystemDisk, OwnDisk
  <2>3. \A i \in own : i \in 1..n /\ OwnDisk(listing[i]) /\ listing[i] \in disks
    BY <1>1 DEF OwnDisk
  <2>4. CASE o.bootable
    <3>1. \A i \in bootable : i = p
      BY <1>1, <1>2, <2>1, <2>3, <2>4 DEF IsSystemDisk
    <3>2. bootable = {p}
      BY <1>2, <2>2, <2>4, <3>1
    <3>3. Min(bootable) = p
      BY <1>1, <3>2, MinOf
    <3> QED
      BY <1>1, <1>5, <3>2, <3>3 DEF FindMainDisk
  <2>5. CASE ~o.bootable
    <3>1. \A d \in disks \ {o} : OwnDisk(d) => ~d.bootable /\ Before(o, d)
      BY <2>1, <2>5 DEF IsSystemDisk
    <3>2. bootable = {}
      BY <1>1, <2>3, <2>5, <3>1
    <3> DEFINE c == CHOOSE i \in own : \A j \in own \ {i} : Ahead(listing, i, j)
    <3>3. \A j \in own \ {p} : Before(listing[p], listing[j])
      BY <1>1, <1>2, <2>3, <3>1
    <3>4. c \in own /\ \A j \in own \ {c} : Ahead(listing, c, j)
      BY <2>2, <3>3 DEF Ahead
    <3>5. c = p
      <4> SUFFICES ASSUME c # p PROVE FALSE
        OBVIOUS
      <4> HIDE DEF c
      <4>1. Before(listing[p], listing[c])
        BY <3>3, <3>4
      <4>2. Before(listing[c], listing[p]) \/ ~Before(listing[p], listing[c])
        BY <2>2, <3>4 DEF Ahead
      <4>3. listing[p] \in Disk /\ listing[c] \in Disk
        BY <1>1, <1>2, <2>3, <3>4
      <4> QED
        BY <4>1, <4>2, <4>3, DiskOrder
    <3>6. FindMainDisk(listing) = c
      BY <1>1, <1>5, <2>2, <3>2 DEF FindMainDisk, Ahead
    <3> QED
      BY <3>5, <3>6
  <2> QED
    BY <2>4, <2>5
<1> QED
  BY <1>4, <1>5

\* A system disk that has grown is the system disk.
LEMMA SystemDiskStays ==
    ASSUME NEW disks \in SUBSET Disk, NEW o, IsSystemDisk(o, disks), NEW z \in Nat
    PROVE  IsSystemDisk([o EXCEPT !.size = z], Resized(disks, o, z))
<1> DEFINE r == [o EXCEPT !.size = z]
<1>1. o \in Disk
  BY DEF IsSystemDisk
<1>2. /\ r \in Disk /\ r.os = o.os /\ r.bootable = o.bootable /\ r.cd = o.cd /\ r.config = o.config
      /\ r.pos = o.pos /\ r.dev = o.dev
  BY <1>1 DEF Disk
<1> HIDE DEF r
<1>3. /\ OwnDisk(r) <=> OwnDisk(o)
      /\ \A d : Before(o, d) => Before(r, d)
  BY <1>2 DEF OwnDisk, Before
<1>4. (disks \ {o}) \cup {r} = Resized(disks, o, z)
  BY DEF Resized, r
<1>5. \A d \in ((disks \ {o}) \cup {r}) \ {r} : d \in disks \ {o}
  OBVIOUS
<1>6. disks = {o} => (disks \ {o}) \cup {r} = {r}
  OBVIOUS
<1>7. IsSystemDisk(r, (disks \ {o}) \cup {r})
  BY <1>2, <1>3, <1>5, <1>6 DEF IsSystemDisk
<1> QED
  BY <1>4, <1>7 DEF r

SameSetUp ==
    /\ vm'.disks = vm.disks /\ vm'.data = vm.data /\ vm'.net = vm.net
    /\ vm'.st # "none" => vm.st # "none"

\* The calls that neither create the VM nor resize its disk.
LEMMA OtherCallsKeepSetUp ==
    ASSUME TypeInv, [Next]_vars, ~CreateVM, ~ResizeDiskIfNeeded
    PROVE  SameSetUp /\ input' = input
<1>1. CASE UNCHANGED <<input, vm>>
  BY <1>1 DEF SameSetUp
<1>3. ASSUME NEW s, vm' = [vm EXCEPT !.applied = @ \cup {s}] PROVE SameSetUp
  BY <1>3 DEF SameSetUp, TypeInv, VMTypes, VMShape
<1>4. ASSUME Tagged PROVE SameSetUp
  <2>1. PICK T : vm' = [vm EXCEPT !.tags = T]
    BY <1>4, TaggedKeeps
  <2> QED
    BY <2>1 DEF SameSetUp, TypeInv, VMTypes, VMShape
<1>5. CASE StartVM
  <2>1. ASSUME NEW plugged,
               vm' = [vm EXCEPT !.st = "running", !.attached = IF vm.st = "running" THEN @ ELSE plugged]
        PROVE  vm'.disks = vm.disks /\ vm'.data = vm.data /\ vm'.net = vm.net
    BY <2>1 DEF TypeInv, VMTypes, VMShape
  <2> QED
    BY <1>1, <1>5, <2>1 DEF StartVM, SameSetUp, Exists, Failed, Done
<1>6. CASE ManageVIFs
  <2>1. LET connected == [vm EXCEPT !.attached = vm.vifs]
        IN  \A v \in {connected, [connected EXCEPT !.applied = @ \cup {"range"}]} :
               v.st = vm.st /\ v.disks = vm.disks /\ v.data = vm.data /\ v.net = vm.net
    BY DEF TypeInv, VMTypes, VMShape
  <2>2. ASSUME NEW done, vm' = [vm EXCEPT !.attached = @ \cup done] PROVE SameSetUp
    BY <2>2 DEF SameSetUp, TypeInv, VMTypes, VMShape
  <2> QED
    BY <1>1, <1>6, <2>1, <2>2 DEF ManageVIFs, SameSetUp, Proceed
<1>7. CASE SetCPUsIfNeeded \/ SetBootOrder
  BY <1>1, <1>3, <1>7 DEF SetCPUsIfNeeded, SetBootOrder, Tried, Proceed
<1>8. CASE Reconcile \/ Build \/ InjectKubeVIP \/ SaveProviderID \/ LookupExistingVM \/ MarkReady
  BY <1>1, <1>8 DEF Reconcile, Build, InjectKubeVIP, SaveProviderID, LookupExistingVM, MarkReady,
                    Proceed, Failed, FailedBecause, Done
<1>9. CASE SetVMTags \/ RefreshReadyMachine
  BY <1>1, <1>4, <1>9 DEF SetVMTags, RefreshReadyMachine, Failed, Done
<1>10. CASE EditTags \/ Crash \/ UNCHANGED vars
  BY <1>1, <1>10 DEF EditTags, Crash, Done, vars
<1>11. input' = input
  BY DEF Next, Worker, Reconcile, Build, InjectKubeVIP, SaveProviderID, LookupExistingVM, MarkReady,
         SetVMTags, RefreshReadyMachine, SetCPUsIfNeeded, SetBootOrder, StartVM, ManageVIFs, EditTags,
         Crash, Tried, Proceed, Failed, FailedBecause, Done, vars
<1> QED
  BY <1>5, <1>6, <1>7, <1>8, <1>9, <1>10, <1>11 DEF Next, Worker

LEMMA DiskStep ==
    ASSUME SystemDiskKnown, TypeInv, DiskInv, SettingsPlace, [Next]_vars
    PROVE  DiskInv'
<1>1. CASE CreateVM
  <2>1. CASE UNCHANGED <<input, vm>>
    BY <2>1 DEF DiskInv
  <2>2. ASSUME NEW nets, vm' = NewVM(payload, net, input.disks, nets), input' = input
        PROVE  DiskInv'
    <3>1. vm'.disks = input.disks
      BY <2>2, NewVMFields
    <3> QED
      BY <2>2, <3>1 DEF DiskInv
  <2> QED
    BY <1>1, <2>1, <2>2 DEF CreateVM, NewVM, Proceed, Failed, Done
<1>2. CASE ResizeDiskIfNeeded
  <2>1. CASE UNCHANGED <<input, vm>>
    BY <2>1 DEF DiskInv
  <2>2. ASSUME NEW listing \in SetToSeqs(vm.disks), NEW i, i = FindMainDisk(listing), i # 0,
               ~(listing[i].size >= input.size), input' = input,
               vm' = [vm EXCEPT !.disks = (@ \ {listing[i]}) \cup {[listing[i] EXCEPT !.size = input.size]}],
               NEW o \in input.disks, IsSystemDisk(o, input.disks)
        PROVE  o.size < input.size /\ vm'.disks = Resized(input.disks, o, input.size)
    <3>0. /\ input.disks \in SUBSET Disk /\ vm.disks \in SUBSET Disk /\ IsFiniteSet(vm.disks)
          /\ input.size \in Nat /\ o.size \in Nat
      BY Asked DEF TypeInv, TypeOK, VMTypes, WellFormed, Disk
    <3>1. vm'.disks = Resized(vm.disks, listing[i], input.size)
      BY <2>2 DEF TypeInv, VMTypes, VMShape, Resized
    <3>2. CASE vm.disks = input.disks
      <4>1. listing[i] = o
        BY <2>2, <3>0, <3>2, SystemDiskFound
      <4> QED
        BY <2>2, <3>0, <3>1, <3>2, <4>1
    <3>3. CASE vm.disks = Resized(input.disks, o, input.size)
      <4> DEFINE r == [o EXCEPT !.size = input.size]
      <4>1. IsSystemDisk(r, vm.disks)
        BY <2>2, <3>0, <3>3, SystemDiskStays
      <4>2. r.size = input.size
        BY <3>0 DEF Disk
      <4>3. listing[i] = r
        <5> HIDE DEF r
        <5> QED
          BY <2>2, <3>0, <4>1, SystemDiskFound
      <4> QED
        BY <2>2, <3>0, <4>2, <4>3
    <3>4. vm.st # "none"
      BY <1>2 DEF SettingsPlace, ResizeDiskIfNeeded
    <3> QED
      BY <2>2, <3>2, <3>3, <3>4 DEF DiskInv
  <2> QED
    BY <1>2, <2>1, <2>2 DEF ResizeDiskIfNeeded, Tried, Proceed, DiskInv
<1>3. CASE ~CreateVM /\ ~ResizeDiskIfNeeded
  BY <1>3, OtherCallsKeepSetUp DEF SameSetUp, DiskInv
<1> QED
  BY <1>1, <1>2, <1>3

LEMMA PlaceStep ==
    ASSUME TypeInv, SettingsPlace, [Next]_vars
    PROVE  SettingsPlace'
<1> DEFINE Trying == {"create", "resize", "cpus", "boot", "save"}
<1>1. CASE pc' \notin Trying
  BY <1>1 DEF SettingsPlace
<1>2. CASE InjectKubeVIP /\ pc' \in Trying
  <2>1. pc' = AfterPayload /\ pid' = pid
    BY <1>2 DEF InjectKubeVIP, Proceed, Failed, FailedBecause, Done, Drop, Goto
  <2>2. pc' = "create" /\ pid = "unset"
    BY <1>2, <2>1 DEF AfterPayload, TypeInv, TypeOK
  <2> QED
    BY <2>1, <2>2 DEF SettingsPlace
<1>3. CASE CreateVM /\ pc' \in Trying
  <2>1. pid' = pid /\ pid = "unset"
    BY <1>3 DEF CreateVM, Proceed, Failed, Done, SettingsPlace
  <2>2. vm'.st # "none"
    <3>1. CASE Proceed("resize") /\ Exists
      BY <3>1 DEF Proceed, Exists
    <3>2. ASSUME NEW nets, vm' = NewVM(payload, net, input.disks, nets) PROVE vm'.st # "none"
      BY <3>2, NewVMFields
    <3> QED
      BY <1>3, <3>1, <3>2 DEF CreateVM, NewVM, Failed, Done, Drop, Goto
  <2> QED
    BY <2>1, <2>2 DEF SettingsPlace
<1>4. CASE ResizeDiskIfNeeded /\ pc' \in Trying
  <2>1. pid' = pid /\ pid = "unset" /\ vm.st # "none"
    BY <1>4 DEF ResizeDiskIfNeeded, Proceed, Tried, SettingsPlace
  <2>2. vm'.st = vm.st
    <3>1. CASE vm' = vm
      BY <3>1
    <3>2. CASE vm' # vm
      <4>1. PICK listing : vm' = [vm EXCEPT !.disks =
               (@ \ {listing[FindMainDisk(listing)]})
               \cup {[listing[FindMainDisk(listing)] EXCEPT !.size = input.size]}]
        BY <1>4, <3>2 DEF ResizeDiskIfNeeded, Proceed, Tried
      <4> QED
        BY <4>1 DEF TypeInv, VMTypes, VMShape
    <3> QED
      BY <3>1, <3>2
  <2> QED
    BY <2>1, <2>2 DEF SettingsPlace
<1>5. CASE (SetCPUsIfNeeded \/ SetBootOrder) /\ pc' \in Trying
  <2>1. pid' = pid /\ pid = "unset" /\ vm.st # "none"
    BY <1>5 DEF SetCPUsIfNeeded, SetBootOrder, Proceed, Tried, SettingsPlace
  <2>2. ASSUME NEW x, vm' = [vm EXCEPT !.applied = @ \cup {x}] PROVE vm'.st = vm.st
    BY <2>2 DEF TypeInv, VMTypes, VMShape
  <2>3. vm' = vm \/ \E x : vm' = [vm EXCEPT !.applied = @ \cup {x}]
    <3>1. CASE vm' = [vm EXCEPT !.applied = @ \cup {"cpus"}]
      BY <3>1
    <3>2. CASE vm' = [vm EXCEPT !.applied = @ \cup {"boot"}]
      BY <3>2
    <3> QED
      BY <1>5, <3>1, <3>2 DEF SetCPUsIfNeeded, SetBootOrder, Proceed, Tried
  <2>4. vm'.st = vm.st
    BY <2>2, <2>3
  <2> QED
    BY <2>1, <2>4 DEF SettingsPlace
<1>6. CASE EditTags \/ UNCHANGED vars
  BY <1>6 DEF EditTags, vars, SettingsPlace
<1>7. CASE Reconcile \/ Build \/ SaveProviderID \/ LookupExistingVM \/ SetVMTags \/ StartVM
  <2>1. pc' \notin Trying
    BY <1>7 DEF Reconcile, Build, SaveProviderID, LookupExistingVM, SetVMTags, StartVM,
                Proceed, Continue, Failed, FailedBecause, Done, Drop, Goto
  <2> QED
    BY <1>1, <2>1
<1>8. CASE ManageVIFs \/ MarkReady \/ RefreshReadyMachine \/ Crash
  <2>1. pc' \notin Trying
    BY <1>8 DEF ManageVIFs, MarkReady, RefreshReadyMachine, Crash,
                Proceed, Failed, FailedBecause, Done, Drop, Goto
  <2> QED
    BY <1>1, <2>1
<1> QED
  BY <1>1, <1>2, <1>3, <1>4, <1>5, <1>6, <1>7, <1>8 DEF Next, Worker

LEMMA DiskInvariant == SystemDiskKnown /\ Spec => [](SettingsPlace /\ DiskInv)
<1> SUFFICES ASSUME SystemDiskKnown PROVE Spec => [](SettingsPlace /\ DiskInv)
  OBVIOUS
<1>1. Init => SettingsPlace /\ DiskInv
  BY DEF Init, SettingsPlace, DiskInv, NoVM
<1>2. TypeInv /\ (SettingsPlace /\ DiskInv) /\ [Next]_vars => (SettingsPlace /\ DiskInv)'
  BY PlaceStep, DiskStep
<1> QED
  BY <1>1, <1>2, TypeInvariant, PTL DEF Spec

\* resizeDiskIfNeeded: whatever disks a template has, if its system disk can be told,
\* no other is ever resized and it never gets smaller, in whichever order the disks
\* are listed and however often the VM is set up.
THEOREM OtherDisksAlone == SystemDiskKnown /\ Spec => []OnlySystemDisk
<1> SUFFICES ASSUME SystemDiskKnown PROVE Spec => []OnlySystemDisk
  OBVIOUS
<1>1. TypeInv /\ DiskInv => OnlySystemDisk
  <2> SUFFICES ASSUME TypeInv, DiskInv, vm.st # "none"
               PROVE  /\ \A d \in input.disks : d \notin vm.disks => d.os /\ d.size < input.size
                      /\ \A d \in vm.disks \ input.disks :
                            d.size = input.size /\ \E o \in input.disks : d = [o EXCEPT !.size = d.size]
    BY DEF OnlySystemDisk
  <2>1. PICK o \in input.disks : IsSystemDisk(o, input.disks)
    BY DEF SystemDiskKnown, TypeInv, TypeOK
  <2>2. CASE vm.disks = input.disks
    BY <2>2
  <2>3. CASE o.size < input.size /\ vm.disks = Resized(input.disks, o, input.size)
    <3> DEFINE r == [o EXCEPT !.size = input.size]
    <3>1. o \in Disk /\ r.size = input.size
      BY Asked DEF TypeInv, TypeOK, WellFormed, Disk
    <3>2. ASSUME NEW d \in input.disks, d \notin vm.disks PROVE d.os /\ d.size < input.size
      BY <2>1, <2>3, <3>2 DEF Resized, IsSystemDisk
    <3>3. ASSUME NEW d \in vm.disks \ input.disks
          PROVE  d.size = input.size /\ \E x \in input.disks : d = [x EXCEPT !.size = d.size]
      <4>1. d = r
        BY <2>3 DEF Resized
      <4>2. d = [o EXCEPT !.size = d.size]
        BY <3>1, <4>1
      <4> QED
        BY <3>1, <4>1, <4>2
    <3> QED
      BY <3>2, <3>3
  <2> QED
    BY <2>1, <2>2, <2>3 DEF DiskInv
<1> QED
  BY <1>1, DiskInvariant, TypeInvariant, PTL

----------------------------------------------------------------------------
(* Settings.                                                               *)

Kept ==
    /\ input' = input /\ vm'.disks = vm.disks
    /\ vm.applied \subseteq vm'.applied /\ refused \ {"range"} \subseteq refused'

\* The calls after which every setting is what it was.
LEMMA OtherCallsKeepSettings ==
    ASSUME TypeInv, [Next]_vars, ~CreateVM, ~ResizeDiskIfNeeded, ~SetCPUsIfNeeded, ~SetBootOrder
    PROVE  Kept
<1>1. CASE UNCHANGED <<input, vm, refused>>
  BY <1>1 DEF Kept
<1>2. input' = input /\ vm'.disks = vm.disks
  BY OtherCallsKeepSetUp DEF SameSetUp
<1>3. ASSUME Tagged PROVE vm'.applied = vm.applied
  <2>1. PICK T : vm' = [vm EXCEPT !.tags = T]
    BY <1>3, TaggedKeeps
  <2> QED
    BY <2>1 DEF TypeInv, VMTypes, VMShape
<1>4. CASE StartVM
  <2>1. ASSUME NEW plugged,
               vm' = [vm EXCEPT !.st = "running", !.attached = IF vm.st = "running" THEN @ ELSE plugged]
        PROVE  vm'.applied = vm.applied
    BY <2>1 DEF TypeInv, VMTypes, VMShape
  <2> QED
    BY <1>1, <1>2, <1>4, <2>1 DEF StartVM, Kept, Failed, Done
<1>5. CASE ManageVIFs
  <2>1. LET connected == [vm EXCEPT !.attached = vm.vifs]
        IN  \A v \in {connected, [connected EXCEPT !.applied = @ \cup {"range"}]} :
               vm.applied \subseteq v.applied
    BY DEF TypeInv, VMTypes, VMShape
  <2>2. ASSUME NEW done, vm' = [vm EXCEPT !.attached = @ \cup done] PROVE vm'.applied = vm.applied
    BY <2>2 DEF TypeInv, VMTypes, VMShape
  <2>3. refused \ {"range"} \subseteq refused'
    BY <1>5 DEF ManageVIFs, Proceed
  <2>4. vm.applied \subseteq vm'.applied
    BY <1>5, <2>1, <2>2 DEF ManageVIFs, Proceed
  <2> QED
    BY <1>2, <2>3, <2>4 DEF Kept
<1>6. CASE Reconcile \/ Build \/ InjectKubeVIP \/ SaveProviderID \/ LookupExistingVM \/ MarkReady
  BY <1>1, <1>6 DEF Reconcile, Build, InjectKubeVIP, SaveProviderID, LookupExistingVM, MarkReady,
                    Proceed, Failed, FailedBecause, Done
<1>7. CASE SetVMTags \/ RefreshReadyMachine
  BY <1>1, <1>2, <1>3, <1>7 DEF SetVMTags, RefreshReadyMachine, Failed, Done, Kept
<1>8. CASE EditTags \/ Crash \/ UNCHANGED vars
  BY <1>1, <1>8 DEF EditTags, Crash, Done, vars
<1> QED
  BY <1>4, <1>5, <1>6, <1>7, <1>8 DEF Next, Worker

LEMMA KeptSettled ==
    ASSUME Kept
    PROVE  /\ DiskSettled => DiskSettled'
           /\ \A s \in {"cpus", "boot"} : s \in vm.applied \cup refused => s \in vm'.applied \cup refused'
BY DEF Kept, DiskSettled

LEMMA SettingsQuiet ==
    ASSUME SettingsInv, Kept, pid' = pid, pc' \notin {"cpus", "boot", "save"}
    PROVE  SettingsInv'
<1>1. SettingsNotForgotten'
  BY KeptSettled DEF SettingsInv, SettingsNotForgotten, DiskSettled, Kept
<1> QED
  BY <1>1 DEF SettingsInv

\* A resize that is not refused leaves the system disk as large as asked for.
LEMMA ResizeSettles ==
    ASSUME SystemDiskKnown, TypeInv, DiskInv, SettingsPlace, input.sized, ResizeDiskIfNeeded
    PROVE  pid' = pid /\ pc' = "cpus" /\ input' = input /\ DiskSettled'
<1>1. PICK listing \in SetToSeqs(vm.disks) :
        LET i == FindMainDisk(listing)
        IN Tried("disk", "cpus",
                 IF i = 0 \/ listing[i].size >= input.size THEN vm
                 ELSE [vm EXCEPT !.disks = (@ \ {listing[i]}) \cup {[listing[i] EXCEPT !.size = input.size]}])
  BY DEF ResizeDiskIfNeeded
<1>2. pid' = pid /\ pc' = "cpus" /\ input' = input
  BY <1>1 DEF Tried, Goto
<1>3. /\ input.disks \in SUBSET Disk /\ vm.disks \in SUBSET Disk /\ IsFiniteSet(vm.disks)
      /\ input.size \in Nat /\ vm.st # "none"
  BY Asked DEF TypeInv, TypeOK, VMTypes, WellFormed, SettingsPlace, ResizeDiskIfNeeded
<1>4. PICK cur \in vm.disks : IsSystemDisk(cur, vm.disks)
  <2>1. PICK o \in input.disks : IsSystemDisk(o, input.disks)
    BY DEF SystemDiskKnown, TypeInv, TypeOK
  <2>2. CASE vm.disks = input.disks
    BY <2>1, <2>2
  <2>3. CASE vm.disks = Resized(input.disks, o, input.size)
    <3>1. IsSystemDisk([o EXCEPT !.size = input.size], vm.disks)
      BY <1>3, <2>1, <2>3, SystemDiskStays
    <3> QED
      BY <3>1 DEF IsSystemDisk
  <2> QED
    BY <1>3, <2>1, <2>2, <2>3 DEF DiskInv
<1>5. FindMainDisk(listing) # 0 /\ listing[FindMainDisk(listing)] = cur
  BY <1>3, <1>4, SystemDiskFound
<1>6. \A d \in vm.disks : d.os => d = cur
  BY <1>4 DEF IsSystemDisk
<1>7. cur \in Disk /\ cur.size \in Nat
  BY <1>3 DEF Disk
<1>8. ASSUME "disk" \in refused' PROVE DiskSettled'
  BY <1>8 DEF DiskSettled
<1>9. ASSUME cur.size >= input.size, vm' = vm PROVE DiskSettled'
  BY <1>2, <1>6, <1>9 DEF DiskSettled
<1>10. ASSUME vm' = [vm EXCEPT !.disks = (@ \ {cur}) \cup {[cur EXCEPT !.size = input.size]}]
       PROVE  DiskSettled'
  <2> DEFINE r == [cur EXCEPT !.size = input.size]
  <2>1. r.size = input.size
    BY <1>7 DEF Disk
  <2>2. vm'.disks = (vm.disks \ {cur}) \cup {r}
    BY <1>10 DEF TypeInv, VMTypes, VMShape
  <2> HIDE DEF r
  <2>3. input.size >= input.size
    BY <1>3
  <2>4. \A d \in vm'.disks : d.os => d.size >= input'.size
    BY <1>2, <1>6, <2>1, <2>2, <2>3
  <2> QED
    BY <2>4 DEF DiskSettled
<1>11. DiskSettled'
  BY <1>1, <1>5, <1>8, <1>9, <1>10 DEF Tried
<1> QED
  BY <1>2, <1>11

LEMMA SettingsStep ==
    ASSUME SystemDiskKnown, TypeInv, DiskInv, SettingsPlace, SettingsInv, [Next]_vars
    PROVE  SettingsInv'
<1>1. CASE CreateVM
  <2>1. pid' = "unset" /\ pc' \in {"resize", "idle"}
    BY <1>1 DEF CreateVM, SettingsPlace, Continue, Proceed, Drop, Goto, Failed, Done
  <2> QED
    BY <2>1 DEF SettingsInv, SettingsNotForgotten
<1>2. CASE ResizeDiskIfNeeded
  <2>1. pid' = "unset" /\ pc' = "cpus" /\ input' = input
    BY <1>2 DEF ResizeDiskIfNeeded, SettingsPlace, Tried, Proceed, Goto
  <2>2. input.sized => DiskSettled'
    BY <1>2, ResizeSettles
  <2> QED
    BY <2>1, <2>2 DEF SettingsInv, SettingsNotForgotten
<1>3. CASE SetCPUsIfNeeded
  <2>1. pc = "cpus" /\ pid' = "unset" /\ pc' = "boot" /\ input' = input
    BY <1>3 DEF SetCPUsIfNeeded, SettingsPlace, Tried, Proceed, Goto
  <2>2. ASSUME input.sized PROVE DiskSettled' /\ "cpus" \in vm'.applied \cup refused'
    <3>1. CASE vm' = [vm EXCEPT !.applied = @ \cup {"cpus"}] /\ refused' = refused \ {"cpus"}
      <4>1. vm'.disks = vm.disks /\ "cpus" \in vm'.applied
        BY <3>1 DEF TypeInv, VMTypes, VMShape
      <4> QED
        BY <2>1, <2>2, <3>1, <4>1 DEF SettingsInv, DiskSettled
    <3>2. CASE vm' = vm /\ refused' = refused \cup {"cpus"}
      BY <2>1, <2>2, <3>2 DEF SettingsInv, DiskSettled
    <3> QED
      BY <1>3, <2>2, <3>1, <3>2 DEF SetCPUsIfNeeded, Tried
  <2> QED
    BY <2>1, <2>2 DEF SettingsInv, SettingsNotForgotten
<1>4. CASE SetBootOrder
  <2>1. pc = "boot" /\ pid' = "unset" /\ pc' = "save" /\ input' = input
    BY <1>4 DEF SetBootOrder, SettingsPlace, Tried, Goto
  <2>2. /\ input.sized => DiskSettled' /\ "cpus" \in vm'.applied \cup refused'
        /\ "boot" \in vm'.applied \cup refused'
    <3>1. CASE vm' = [vm EXCEPT !.applied = @ \cup {"boot"}] /\ refused' = refused \ {"boot"}
      <4>1. vm'.disks = vm.disks /\ vm.applied \subseteq vm'.applied /\ "boot" \in vm'.applied
        BY <3>1 DEF TypeInv, VMTypes, VMShape
      <4> QED
        BY <2>1, <3>1, <4>1 DEF SettingsInv, DiskSettled
    <3>2. CASE vm' = vm /\ refused' = refused \cup {"boot"}
      BY <2>1, <3>2 DEF SettingsInv, DiskSettled
    <3> QED
      BY <1>4, <3>1, <3>2 DEF SetBootOrder, Tried
  <2> QED
    BY <2>1, <2>2 DEF SettingsInv, SettingsNotForgotten
<1>5. CASE SaveProviderID
  <2>1. Kept
    BY <1>5 DEF SaveProviderID, Kept, Failed, Done
  <2>2. CASE Failed
    BY <2>1, <2>2, SettingsQuiet DEF Failed, Done, Drop, Goto
  <2>3. CASE pid' = "set" /\ pc' \in {"tags", "idle"}
    <3>1. pc = "save"
      BY <1>5 DEF SaveProviderID
    <3>2. SettingsNotForgotten'
      BY <2>1, <3>1, KeptSettled DEF SettingsInv, SettingsNotForgotten, DiskSettled, Kept
    <3> QED
      BY <2>3, <3>2 DEF SettingsInv
  <2> QED
    BY <1>5, <2>2, <2>3 DEF SaveProviderID, Continue, Drop, Goto
<1>6. CASE EditTags \/ UNCHANGED vars
  BY <1>6 DEF EditTags, vars, SettingsInv, SettingsNotForgotten, DiskSettled
<1>7. CASE Reconcile \/ Build \/ InjectKubeVIP \/ LookupExistingVM \/ SetVMTags \/ StartVM
  <2>1. pid' = pid /\ pc' \notin {"cpus", "boot", "save"} /\ ~CreateVM
        /\ ~ResizeDiskIfNeeded /\ ~SetCPUsIfNeeded /\ ~SetBootOrder
    BY <1>7 DEF Reconcile, Build, InjectKubeVIP, LookupExistingVM, SetVMTags, StartVM, AfterPayload,
                CreateVM, ResizeDiskIfNeeded, SetCPUsIfNeeded, SetBootOrder,
                Proceed, Continue, Failed, FailedBecause, Done, Drop, Goto
  <2> QED
    BY <2>1, OtherCallsKeepSettings, SettingsQuiet
<1>8. CASE ManageVIFs \/ MarkReady \/ RefreshReadyMachine
  <2>1. pid' = pid /\ pc' \notin {"cpus", "boot", "save"} /\ ~CreateVM
        /\ ~ResizeDiskIfNeeded /\ ~SetCPUsIfNeeded /\ ~SetBootOrder
    BY <1>8 DEF ManageVIFs, MarkReady, RefreshReadyMachine,
                CreateVM, ResizeDiskIfNeeded, SetCPUsIfNeeded, SetBootOrder,
                Proceed, Failed, Done, Drop, Goto
  <2> QED
    BY <2>1, OtherCallsKeepSettings, SettingsQuiet
<1>9. CASE Crash
  BY <1>9, SettingsQuiet DEF Crash, Done, Drop, Goto, Kept
<1> QED
  BY <1>1, <1>2, <1>3, <1>4, <1>5, <1>6, <1>7, <1>8, <1>9 DEF Next, Worker

\* CreateVM, reconcileNormal: a providerID is recorded only when the size of the system
\* disk, the CPUs and the boot order are set or were refused, whatever crashed or
\* failed before, for every template whose system disk can be told.
THEOREM SettingsRemembered == SystemDiskKnown /\ Spec => []SettingsNotForgotten
<1> SUFFICES ASSUME SystemDiskKnown PROVE Spec => []SettingsNotForgotten
  OBVIOUS
<1>1. Init => SettingsInv
  BY DEF Init, SettingsInv, SettingsNotForgotten
<1>2. TypeInv /\ (SettingsPlace /\ DiskInv) /\ SettingsInv /\ [Next]_vars => SettingsInv'
  BY SettingsStep
<1>3. SettingsInv => SettingsNotForgotten
  BY DEF SettingsInv
<1>4. Spec => [](SettingsPlace /\ DiskInv)
  BY DiskInvariant
<1> QED
  BY <1>1, <1>2, <1>3, <1>4, TypeInvariant, PTL DEF Spec

----------------------------------------------------------------------------
(* The payload.                                                            *)

LEMMA BuildPayload ==
    ASSUME "unread" \notin Faults, PayloadInv, Build
    PROVE  PayloadInv'
<1>1. CASE pc' = "idle" /\ UNCHANGED <<input, vm>>
  BY <1>1 DEF PayloadInv, Built, Injected, WantsKubeVIP, NetworkConfig
<1>2. CASE /\ Built # Error /\ payload' = Built /\ net' = NetworkConfig /\ pc' = "kubevip"
           /\ UNCHANGED <<input, vm>>
  BY <1>2 DEF PayloadInv, Built, Injected, WantsKubeVIP, NetworkConfig
<1>3. Seen(input.inject, FALSE) = {input.inject}
  BY DEF Seen
<1> QED
  BY <1>1, <1>2, <1>3 DEF Build, Built, Failed, FailedBecause, Done, Drop, Goto

LEMMA InjectPayload ==
    ASSUME "unread" \notin Faults, TypeInv, PayloadInv, InjectKubeVIP
    PROVE  PayloadInv'
<1>1. CASE pc' = "idle" /\ UNCHANGED <<input, vm>>
  BY <1>1 DEF PayloadInv, Built, Injected, WantsKubeVIP, NetworkConfig
<1>2. pc = "kubevip" /\ payload = Built /\ Seen(WantsKubeVIP, FALSE) = {WantsKubeVIP}
  BY DEF InjectKubeVIP, PayloadInv, Seen
<1>3. CASE payload' = Injected /\ net' = net /\ pc' \in {"lookup", "create"} /\ UNCHANGED <<input, vm>>
  BY <1>2, <1>3 DEF PayloadInv, Built, Injected, WantsKubeVIP, NetworkConfig
<1>4. AfterPayload \in {"lookup", "create"}
  BY DEF AfterPayload
<1>5. ASSUME ~WantsKubeVIP, Proceed(AfterPayload) PROVE payload' = Injected
  BY <1>2, <1>5 DEF Proceed, Injected
<1>6. ASSUME WantsKubeVIP, Inject(payload) = Error, payload' = payload PROVE payload' = Injected
  BY <1>2, <1>6 DEF Injected
<1>7. ASSUME WantsKubeVIP, Inject(payload) \notin {Panic, Error}, payload' = Inject(payload)
      PROVE  payload' = Injected
  BY <1>2, <1>7 DEF Injected
<1> QED
  BY <1>1, <1>2, <1>3, <1>4, <1>5, <1>6, <1>7
     DEF InjectKubeVIP, Proceed, Failed, FailedBecause, Done, Drop, Goto

LEMMA CreatePayload ==
    ASSUME PayloadInv, CreateVM
    PROVE  PayloadInv'
<1>1. pc' \in {"resize", "idle"} /\ input' = input
  BY DEF CreateVM, Continue, Proceed, Failed, Done, Drop, Goto
<1>2. CASE vm' = vm
  BY <1>1, <1>2 DEF PayloadInv, Built, Injected, WantsKubeVIP, NetworkConfig
<1>3. ASSUME NEW nets, vm' = NewVM(payload, net, input.disks, nets) PROVE PayloadInv'
  <2>1. vm'.data = payload /\ vm'.net = net
    BY <1>3, NewVMFields
  <2>2. payload = Injected /\ net = NetworkConfig /\ Built # Error
    BY DEF CreateVM, PayloadInv
  <2> QED
    BY <1>1, <2>1, <2>2 DEF PayloadInv, Built, Injected, WantsKubeVIP, NetworkConfig
<1> QED
  BY <1>2, <1>3 DEF CreateVM, NewVM, Proceed, Failed, Done

LEMMA PayloadQuiet ==
    ASSUME PayloadInv, SameSetUp, input' = input, pc' \notin {"kubevip", "create"}
    PROVE  PayloadInv'
BY DEF PayloadInv, SameSetUp, Built, Injected, WantsKubeVIP, NetworkConfig

LEMMA PayloadStep ==
    ASSUME "unread" \notin Faults, TypeInv, PayloadInv, [Next]_vars
    PROVE  PayloadInv'
<1>1. CASE Build \/ InjectKubeVIP \/ CreateVM
  BY <1>1, BuildPayload, InjectPayload, CreatePayload
<1>2. CASE ResizeDiskIfNeeded
  <2>1. pc' = "cpus" /\ input' = input
    BY <1>2 DEF ResizeDiskIfNeeded, Tried, Proceed, Goto
  <2>2. SameSetUp \/ \E D : vm' = [vm EXCEPT !.disks = D]
    <3>1. CASE vm' = vm
      BY <3>1 DEF SameSetUp
    <3>2. CASE vm' # vm
      <4>1. PICK listing : vm' = [vm EXCEPT !.disks =
               (@ \ {listing[FindMainDisk(listing)]})
               \cup {[listing[FindMainDisk(listing)] EXCEPT !.size = input.size]}]
        BY <1>2, <3>2 DEF ResizeDiskIfNeeded, Proceed, Tried
      <4> QED
        BY <4>1
    <3> QED
      BY <3>1, <3>2
  <2>3. ASSUME NEW D, vm' = [vm EXCEPT !.disks = D]
        PROVE  vm'.data = vm.data /\ vm'.net = vm.net /\ vm'.st = vm.st
    BY <2>3 DEF TypeInv, VMTypes, VMShape
  <2>4. vm'.data = vm.data /\ vm'.net = vm.net /\ (vm'.st # "none" => vm.st # "none")
    BY <2>2, <2>3 DEF SameSetUp
  <2> QED
    BY <2>1, <2>4 DEF PayloadInv, Built, Injected, WantsKubeVIP, NetworkConfig
<1>3. CASE EditTags \/ UNCHANGED vars
  BY <1>3 DEF EditTags, vars, PayloadInv, Built, Injected, WantsKubeVIP, NetworkConfig
<1>4. CASE Reconcile \/ SaveProviderID \/ LookupExistingVM \/ SetVMTags \/ StartVM
  <2>1. pc' \notin {"kubevip", "create"} /\ ~CreateVM /\ ~ResizeDiskIfNeeded
    BY <1>4 DEF Reconcile, SaveProviderID, LookupExistingVM, SetVMTags, StartVM, CreateVM,
                ResizeDiskIfNeeded, Proceed, Continue, Failed, Done, Drop, Goto
  <2> QED
    BY <2>1, OtherCallsKeepSetUp, PayloadQuiet
<1>5. CASE SetCPUsIfNeeded \/ SetBootOrder \/ ManageVIFs \/ MarkReady \/ RefreshReadyMachine
  <2>1. pc' \notin {"kubevip", "create"} /\ ~CreateVM /\ ~ResizeDiskIfNeeded
    BY <1>5 DEF SetCPUsIfNeeded, SetBootOrder, ManageVIFs, MarkReady, RefreshReadyMachine, CreateVM,
                ResizeDiskIfNeeded, Tried, Proceed, Failed, Done, Drop, Goto
  <2> QED
    BY <2>1, OtherCallsKeepSetUp, PayloadQuiet
<1>6. CASE Crash
  BY <1>6, PayloadQuiet DEF Crash, Done, Drop, Goto, SameSetUp
<1> QED
  BY <1>1, <1>2, <1>3, <1>4, <1>5, <1>6 DEF Next, Worker

LEMMA PayloadInvariant == "unread" \notin Faults /\ Spec => []PayloadInv
<1> SUFFICES ASSUME "unread" \notin Faults PROVE Spec => []PayloadInv
  OBVIOUS
<1>1. Init => PayloadInv
  BY DEF Init, PayloadInv, NoVM
<1>2. TypeInv /\ PayloadInv /\ [Next]_vars => PayloadInv'
  BY PayloadStep
<1> QED
  BY <1>1, <1>2, TypeInvariant, PTL DEF Spec

LEMMA DocumentFacts ==
    ASSUME NEW doc, IsDocument(doc)
    PROVE  /\ DocShape(doc) /\ doc.files = {} /\ doc \notin {Error, Panic}
           /\ doc.kind # "map" => doc.cmds = <<>> /\ doc.keys = <<>> /\ ~Contains(doc.cmds, "kubeadm")
           /\ Contains(doc.cmds, "kubeadm") => doc.kind = "map" /\ doc.runcmd # "none"
<1>1. DocShape(doc) /\ doc.files = {}
  BY DocumentShapes DEF IsDocument, Document
<1>2. Error.kind = "error" /\ Panic.kind = "panic" /\ doc.kind \in Kinds
  BY <1>1 DEF Error, Panic, Document, DocShape
<1>3. ~Contains(<<>>, "kubeadm")
  BY DEF Contains
<1>4. doc.kind # "map" => doc.cmds = <<>> /\ doc.keys = <<>>
  BY DEF IsDocument
<1>5. Contains(doc.cmds, "kubeadm") => doc.kind = "map" /\ doc.runcmd # "none"
  BY <1>3, <1>4 DEF IsDocument
<1> QED
  BY <1>1, <1>2, <1>3, <1>4, <1>5 DEF Kinds

\* BuildCloudInit changes nothing but the keys, and makes a map of what had none.
LEMMA BuildKeepsCommands ==
    ASSUME NEW doc, IsDocument(doc), NEW inject \in BOOLEAN, NEW sshKeys, NEW b,
           b = BuildCloudInit(doc, inject, sshKeys), b # Error
    PROVE  /\ DocShape(b) /\ b.cmds = doc.cmds /\ b.files = {}
           /\ Contains(doc.cmds, "kubeadm") => b.kind = "map" /\ b.runcmd # "none"
<1>1. /\ DocShape(doc) /\ doc.files = {}
      /\ doc.kind # "map" => doc.cmds = <<>> /\ ~Contains(doc.cmds, "kubeadm")
      /\ Contains(doc.cmds, "kubeadm") => doc.kind = "map" /\ doc.runcmd # "none"
  BY DocumentFacts
<1>2. DocShape(b)
  BY BuiltShapes
<1>3. CASE b = doc
  BY <1>1, <1>3
<1>4. CASE doc.kind = "empty" /\ b = Document("map", sshKeys, "none", <<>>)
  BY <1>1, <1>2, <1>4 DEF Document
<1>5. ASSUME NEW keys, b = [doc EXCEPT !.kind = "map", !.keys = keys]
      PROVE  b.cmds = doc.cmds /\ b.files = {} /\ b.kind = "map" /\ b.runcmd = doc.runcmd
  BY <1>1, <1>5 DEF DocShape
<1> QED
  BY <1>1, <1>2, <1>3, <1>4, <1>5 DEF BuildCloudInit, MergeSSHKeys

\* InjectKubeVIP puts the scripts around a kubeadm command, or leaves the payload.
LEMMA InjectOrKeep ==
    ASSUME NEW b, DocShape(b)
    PROVE  \/ Inject(b) \in {Panic, Error, b} /\ ~(b.kind = "map" /\ b.runcmd # "none" /\ Contains(b.cmds, "kubeadm"))
           \/ /\ Contains(b.cmds, "kubeadm") /\ Inject(b) \notin {Panic, Error}
              /\ Inject(b).cmds = InjectAroundKubeadm(b.cmds)
              /\ Inject(b).files = {"pre", "post"} /\ Inject(b).keys = b.keys
<1>1. b.kind \in {"empty", "comment", "broken", "map"}
  BY DEF DocShape, Kinds
<1>2. CASE b.kind # "map" \/ b.runcmd = "none" \/ ~Contains(b.cmds, "kubeadm")
  <2>1. Inject(b) \in {Panic, Error, b}
    BY <1>1, <1>2 DEF Inject
  <2> QED
    BY <1>2, <2>1
<1>3. CASE b.kind = "map" /\ b.runcmd # "none" /\ Contains(b.cmds, "kubeadm")
  <2> DEFINE x == InjectAroundKubeadm(b.cmds)
             r == [b EXCEPT !.cmds = x, !.files = {"pre", "post"}]
  <2>1. Inject(b) = r
    BY <1>3 DEF Inject
  <2> HIDE DEF x
  <2>2. r.cmds = x /\ r.files = {"pre", "post"} /\ r.keys = b.keys /\ r.kind = "map"
    BY <1>3 DEF DocShape
  <2>3. Error.kind = "error" /\ Panic.kind = "panic"
    BY DEF Error, Panic, Document
  <2> HIDE DEF r
  <2>4. r \notin {Panic, Error}
    BY <2>2, <2>3
  <2> QED
    BY <1>3, <2>1, <2>2, <2>4 DEF x
<1> QED
  BY <1>2, <1>3

\* InjectKubeVIP: a control plane VM of a kube-vip cluster has both scripts right
\* around its first kubeadm command, and any other VM the commands of its payload,
\* through crashes and requeues, for every payload, if the cluster can be read.
THEOREM ScriptsPlaced == "unread" \notin Faults /\ Spec => []KubeVIPPlaced
<1> SUFFICES ASSUME "unread" \notin Faults PROVE Spec => []KubeVIPPlaced
  OBVIOUS
<1>1. TypeInv /\ PayloadInv => KubeVIPPlaced
  <2> SUFFICES ASSUME TypeInv, PayloadInv, vm.st # "none"
               PROVE  IF WantsKubeVIP /\ Contains(input.doc.cmds, "kubeadm")
                      THEN /\ vm.data.files = {"pre", "post"}
                           /\ \E i \in 1..(Len(vm.data.cmds) - 2) :
                                 /\ SubSeq(vm.data.cmds, i, i + 2) = <<"pre", "kubeadm", "post">>
                                 /\ ~Contains(SubSeq(vm.data.cmds, 1, i), "kubeadm")
                                 /\ RemoveAt(RemoveAt(vm.data.cmds, i + 2), i) = input.doc.cmds
                      ELSE vm.data.files = {} /\ vm.data.cmds = input.doc.cmds
    BY DEF KubeVIPPlaced
  <2>1. vm.data = Injected /\ Built # Error
    BY DEF PayloadInv
  <2>2. IsDocument(input.doc) /\ input.inject \in BOOLEAN
    BY Asked DEF TypeInv, TypeOK, WellFormed
  <2>3. PICK b : b = Built
    OBVIOUS
  <2>4. /\ DocShape(b) /\ b.cmds = input.doc.cmds /\ b.files = {}
        /\ Contains(input.doc.cmds, "kubeadm") => b.kind = "map" /\ b.runcmd # "none"
    <3>1. CASE input.format = "cloudinit"
      BY <2>1, <2>2, <2>3, <3>1, BuildKeepsCommands DEF Built
    <3>2. CASE input.format # "cloudinit"
      BY <2>2, <2>3, <3>2, DocumentFacts DEF Built
    <3> QED
      BY <3>1, <3>2
  <2>5. CASE WantsKubeVIP /\ Contains(input.doc.cmds, "kubeadm")
    <3>1. /\ Inject(b) \notin {Panic, Error} /\ Inject(b).files = {"pre", "post"}
          /\ Inject(b).cmds = InjectAroundKubeadm(input.doc.cmds)
      BY <2>4, <2>5, InjectOrKeep
    <3>2. vm.data = Inject(b)
      BY <2>1, <2>3, <2>5, <3>1 DEF Injected
    <3>3. input.doc.cmds \in Seq(ToSet(input.doc.cmds))
      BY <2>2 DEF IsDocument, IsList
    <3> DEFINE cmds == input.doc.cmds
    <3>4. \E i \in 1..(Len(InjectAroundKubeadm(cmds)) - 2) :
             /\ SubSeq(InjectAroundKubeadm(cmds), i, i + 2) = <<"pre", "kubeadm", "post">>
             /\ ~Contains(SubSeq(InjectAroundKubeadm(cmds), 1, i), "kubeadm")
             /\ RemoveAt(RemoveAt(InjectAroundKubeadm(cmds), i + 2), i) = cmds
      <4> HIDE DEF cmds
      <4> QED
        BY <2>5, <3>3, FirstKubeadmSurrounded DEF cmds
    <3> QED
      BY <2>5, <3>1, <3>2, <3>4
  <2>6. CASE ~(WantsKubeVIP /\ Contains(input.doc.cmds, "kubeadm"))
    <3>1. vm.data = b
      <4>1. ASSUME WantsKubeVIP, Inject(b) \notin {Panic, Error} PROVE Inject(b) = b
        BY <2>4, <2>6, <4>1, InjectOrKeep
      <4> QED
        BY <2>1, <2>3, <4>1 DEF Injected
    <3> QED
      BY <2>4, <2>6, <3>1
  <2> QED
    BY <2>5, <2>6
<1> QED
  BY <1>1, PayloadInvariant, TypeInvariant, PTL

LEMMA PrefixOf ==
    ASSUME NEW V, NEW s \in Seq(V), NEW r \in Seq(V),
           Len(s) <= Len(r), \A i \in 1..Len(s) : r[i] = s[i]
    PROVE  IsPrefix(s, r)
<1> DEFINE a == SubSeq(s, 1, Len(s))
           b == SubSeq(r, 1, Len(s))
<1>1. Len(s) \in Nat /\ Len(r) \in Nat
  BY LenProperties
<1>2. 1 \in 1..(Len(s) + 1) /\ 1 \in 1..(Len(r) + 1) /\ Len(s) \in 0..Len(s) /\ Len(s) \in 0..Len(r)
  BY <1>1
<1>3. 1 <= Len(s) + 1 /\ Len(s) - 1 + 1 = Len(s) /\ \A k \in 1..Len(s) : 1 + k - 1 = k
  BY <1>1
<1>4. a \in Seq(V) /\ Len(a) = Len(s) /\ \A k \in 1..Len(s) : a[k] = s[k]
  <2>1. a \in Seq(V) /\ Len(a) = Len(s) - 1 + 1 /\ \A k \in 1..(Len(s) - 1 + 1) : a[k] = s[1 + k - 1]
    BY <1>2, <1>3, Cut
  <2> HIDE DEF a
  <2> QED
    BY <1>3, <2>1
<1>5. b \in Seq(V) /\ Len(b) = Len(s) /\ \A k \in 1..Len(s) : b[k] = r[k]
  <2>1. b \in Seq(V) /\ Len(b) = Len(s) - 1 + 1 /\ \A k \in 1..(Len(s) - 1 + 1) : b[k] = r[1 + k - 1]
    BY <1>2, <1>3, Cut
  <2> HIDE DEF b
  <2> QED
    BY <1>3, <2>1
<1>6. a = b
  <2> HIDE DEF a, b
  <2> QED
    BY <1>4, <1>5, SeqEqual
<1> QED
  BY <1>6 DEF IsPrefix

\* Keys none of which is there twice: after a merge every new one is there once.
LEMMA MergedKeys ==
    ASSUME NEW keys, IsList(keys), IsInjective(keys), NEW sshKeys, IsList(sshKeys),
           NEW k \in DOMAIN sshKeys
    PROVE  Cardinality({i \in DOMAIN AppendNew(keys, sshKeys) :
                           AppendNew(keys, sshKeys)[i] = sshKeys[k]}) = 1
<1> DEFINE V == ToSet(keys) \cup ToSet(sshKeys)
<1>1. keys \in Seq(V) /\ sshKeys \in Seq(V)
  BY SeqMonotonic DEF IsList
<1>2. PICK r \in Seq(V) : r = AppendNew(keys, sshKeys) /\ Merged(r, keys, sshKeys, Len(sshKeys))
  BY <1>1, MergedOnce
<1>3. /\ Len(keys) \in Nat /\ Len(r) \in Nat /\ DOMAIN keys = 1..Len(keys)
      /\ DOMAIN r = 1..Len(r) /\ k \in 1..Len(sshKeys)
  BY <1>1, <1>2, LenProperties
<1>4. PICK i \in 1..Len(r) : r[i] = sshKeys[k]
  BY <1>2, <1>3 DEF Merged, Contains
<1>5. ASSUME NEW j \in 1..Len(r), r[j] = sshKeys[k] PROVE j = i
  <2> SUFFICES ASSUME j # i PROVE FALSE
    OBVIOUS
  <2>1. \A m \in (Len(keys) + 1)..Len(r) : \A l \in 1..Len(r) : l # m => r[l] # r[m]
    BY <1>2 DEF Merged
  <2>2. i \notin (Len(keys) + 1)..Len(r) /\ j \notin (Len(keys) + 1)..Len(r)
    BY <1>4, <1>5, <2>1
  <2>3. i \in DOMAIN keys /\ j \in DOMAIN keys
    BY <1>3, <2>2
  <2>4. keys[i] = keys[j]
    BY <1>2, <1>3, <1>4, <1>5, <2>3 DEF Merged
  <2> QED
    BY <2>3, <2>4 DEF IsInjective
<1>6. {j \in DOMAIN r : r[j] = sshKeys[k]} = {i}
  BY <1>3, <1>4, <1>5
<1> QED
  BY <1>2, <1>6, FS_Singleton

\* BuildCloudInit: the keys of the payload stay, those of the XO user come, if asked for.
LEMMA BuildKeepsKeys ==
    ASSUME NEW doc, IsDocument(doc), IsInjective(doc.keys), NEW inject \in BOOLEAN,
           NEW sshKeys, IsList(sshKeys), IsInjective(sshKeys), NEW b,
           b = BuildCloudInit(doc, inject, sshKeys), b # Error
    PROVE  /\ IsPrefix(doc.keys, b.keys)
           /\ inject => \A k \in DOMAIN sshKeys :
                 Cardinality({i \in DOMAIN b.keys : b.keys[i] = sshKeys[k]}) = 1
<1> DEFINE V == ToSet(doc.keys) \cup ToSet(sshKeys)
<1>1. doc.keys \in Seq(V) /\ sshKeys \in Seq(V) /\ DocShape(doc)
  BY SeqMonotonic, DocumentShapes DEF IsDocument, IsList
<1>2. CASE ~inject
  <2>1. b = doc
    BY <1>2 DEF BuildCloudInit
  <2>2. Len(doc.keys) <= Len(doc.keys)
    BY <1>1, LenProperties
  <2>3. IsPrefix(doc.keys, doc.keys)
    BY <1>1, <2>2, PrefixOf
  <2> QED
    BY <1>2, <2>1, <2>3
<1>3. CASE inject /\ doc.kind = "empty"
  <2>1. b.keys = sshKeys /\ doc.keys = <<>>
    BY <1>3 DEF BuildCloudInit, Document, IsDocument
  <2>2. IsPrefix(doc.keys, sshKeys)
    <3>1. Len(doc.keys) = 0 /\ Len(sshKeys) \in Nat
      BY <1>1, <2>1, LenProperties
    <3> QED
      BY <1>1, <3>1, PrefixOf
  <2>3. ASSUME NEW k \in DOMAIN sshKeys
        PROVE  Cardinality({i \in DOMAIN sshKeys : sshKeys[i] = sshKeys[k]}) = 1
    <3>1. {i \in DOMAIN sshKeys : sshKeys[i] = sshKeys[k]} = {k}
      BY DEF IsInjective
    <3> QED
      BY <3>1, FS_Singleton
  <2> QED
    BY <2>1, <2>2, <2>3
<1>4. CASE inject /\ doc.kind # "empty" /\ sshKeys = <<>>
  <2>1. b = doc /\ DOMAIN sshKeys = {}
    BY <1>4 DEF BuildCloudInit, MergeSSHKeys
  <2>2. Len(doc.keys) <= Len(doc.keys)
    BY <1>1, LenProperties
  <2>3. IsPrefix(doc.keys, doc.keys)
    BY <1>1, <2>2, PrefixOf
  <2> QED
    BY <2>1, <2>3
<1>5. CASE inject /\ doc.kind # "empty" /\ sshKeys # <<>>
  <2>1. b = [doc EXCEPT !.kind = "map", !.keys = AppendNew(doc.keys, sshKeys)]
    BY <1>5 DEF BuildCloudInit, MergeSSHKeys
  <2>2. PICK r \in Seq(V) : r = AppendNew(doc.keys, sshKeys) /\ Merged(r, doc.keys, sshKeys, Len(sshKeys))
    BY <1>1, MergedOnce
  <2>3. b.keys = r
    BY <1>1, <2>1, <2>2 DEF DocShape
  <2>4. IsPrefix(doc.keys, r)
    BY <1>1, <2>2, PrefixOf DEF Merged
  <2>5. IsList(doc.keys)
    BY DEF IsDocument
  <2>6. ASSUME NEW k \in DOMAIN sshKeys
        PROVE  Cardinality({i \in DOMAIN r : r[i] = sshKeys[k]}) = 1
    BY <2>2, <2>5, MergedKeys
  <2> QED
    BY <2>3, <2>4, <2>6
<1> QED
  BY <1>2, <1>3, <1>4, <1>5

\* MergeSSHKeysIntoCloudConfig, networkConfig: a VM that exists has the keys of its
\* payload first and every key of the XO user once, a pass-through payload as it is
\* on a labelled drive; for every payload and all keys, of which none is given twice,
\* if the cluster can be read.
THEOREM PayloadDelivered == KeysDistinct /\ "unread" \notin Faults /\ Spec => []PayloadKept
<1> SUFFICES ASSUME KeysDistinct, "unread" \notin Faults PROVE Spec => []PayloadKept
  OBVIOUS
<1>1. TypeInv /\ PayloadInv => PayloadKept
  <2> SUFFICES ASSUME TypeInv, PayloadInv, vm.st # "none"
               PROVE  IF input.format = "cloudinit"
                      THEN /\ IsPrefix(input.doc.keys, vm.data.keys)
                           /\ input.inject => \A k \in DOMAIN input.sshKeys :
                                 Cardinality({i \in DOMAIN vm.data.keys : vm.data.keys[i] = input.sshKeys[k]}) = 1
                      ELSE vm.data = input.doc /\ vm.net # "none"
    BY DEF PayloadKept
  <2>1. vm.data = Injected /\ Built # Error /\ vm.net = NetworkConfig
    BY DEF PayloadInv
  <2>2. /\ IsDocument(input.doc) /\ input.inject \in BOOLEAN /\ IsList(input.sshKeys)
        /\ IsInjective(input.doc.keys) /\ IsInjective(input.sshKeys)
    BY Asked DEF TypeInv, TypeOK, WellFormed, KeysDistinct
  <2>3. PICK b : b = Built
    OBVIOUS
  <2>4. CASE input.format = "cloudinit"
    <3>1. b = BuildCloudInit(input.doc, input.inject, input.sshKeys) /\ b # Error
      BY <2>1, <2>3, <2>4 DEF Built
    <3>2. DocShape(b)
      BY <2>2, <3>1, BuildKeepsCommands
    <3>3. vm.data.keys = b.keys
      <4>1. vm.data = b \/ (WantsKubeVIP /\ Inject(b) \notin {Panic, Error} /\ vm.data = Inject(b))
        BY <2>1, <2>3 DEF Injected
      <4>2. Inject(b) \in {Panic, Error, b} \/ Inject(b).keys = b.keys
        BY <3>2, InjectOrKeep
      <4> QED
        BY <4>1, <4>2
    <3>4. /\ IsPrefix(input.doc.keys, b.keys)
          /\ input.inject => \A k \in DOMAIN input.sshKeys :
                Cardinality({i \in DOMAIN b.keys : b.keys[i] = input.sshKeys[k]}) = 1
      BY <2>2, <3>1, BuildKeepsKeys
    <3> QED
      BY <2>4, <3>3, <3>4
  <2>5. CASE input.format # "cloudinit"
    BY <2>1, <2>5 DEF Built, Injected, WantsKubeVIP, NetworkConfig
  <2> QED
    BY <2>4, <2>5
<1> QED
  BY <1>1, PayloadInvariant, TypeInvariant, PTL

=============================================================================
