-------------------------- MODULE AuditTrailProofs --------------------------
(***************************************************************************)
(* That a tool call shows its own decision, that a line serves one call,   *)
(* that the tailer delivers what it has passed and that a logged call      *)
(* stays without a tier for a reason, for any calls, keys, window and      *)
(* index size: a fold lemma, the index, type correctness, the inductive    *)
(* invariant and the steps.                                                *)
(***************************************************************************)
EXTENDS AuditTrail, FiniteSetTheorems, SequenceTheorems, WellFoundedInduction, TLAPS

(***************************************************************************)
(* FoldLeft.  What holds of the base, and is kept by each item, holds of   *)
(* the fold: if not, there is a least number of items for which it fails.  *)
(***************************************************************************)

\* A set of naturals that is not empty has a least element.
LEMMA LeastExists ==
    ASSUME NEW S \in SUBSET Nat, S # {}
    PROVE  \E e \in S : \A f \in S : e <= f
<1>1. PICK e \in S : \A f \in S : <<f, e>> \notin OpToRel(<, Nat)
  BY NatLessThanWellFounded, WFMin
<1>2. \A f \in S : ~(f < e)
  BY <1>1 DEF OpToRel
<1> QED
  BY <1>2

\* Max, by which FoldLeft takes the last item of a part of the domain
LEMMA MaxOfPart ==
    ASSUME NEW n \in Nat, NEW s \in SUBSET (1 .. n), s # {}
    PROVE  Max(s) \in s /\ \A e \in s : e <= Max(s)
<1> DEFINE Bounds == {b \in Nat : \A e \in s : e <= b}
<1>1. PICK b \in Bounds : \A a \in Bounds : b <= a
  <2>1. n \in Bounds
    OBVIOUS
  <2> QED
    BY <2>1, LeastExists
<1>2. b \in s
  <2>1. CASE b = 0
    <3>1. PICK e \in s : e \in 1 .. n
      OBVIOUS
    <3> QED
      BY <1>1, <2>1, <3>1
  <2>2. CASE b # 0
    <3>1. b - 1 \in Nat /\ b - 1 \notin Bounds
      BY <1>1, <2>2
    <3>2. PICK e \in s : ~(e <= b - 1)
      BY <3>1
    <3> QED
      BY <1>1, <3>2
  <2> QED
    BY <2>1, <2>2
<1>3. \E x \in s : \A y \in s : x >= y
  BY <1>1, <1>2
<1> QED
  BY <1>3 DEF Max

LEMMA MaxOfPrefix ==
    ASSUME NEW n \in Nat, NEW k \in 1 .. n
    PROVE  /\ Max(1 .. k) = k /\ (1 .. k) \ {k} = 1 .. k - 1
           /\ (1 .. k) \in SUBSET (1 .. n) /\ 1 .. k # {}
<1>1. /\ k \in Nat /\ k \in 1 .. k
      /\ (1 .. k) \in SUBSET (1 .. k) /\ (1 .. k) \in SUBSET (1 .. n)
  OBVIOUS
<1>2. Max(1 .. k) \in 1 .. k /\ (\A e \in 1 .. k : e <= Max(1 .. k))
  BY <1>1, MaxOfPart
<1>3. Max(1 .. k) = k
  BY <1>1, <1>2
<1> QED
  BY <1>1, <1>3

\* Over a set that its steps do not leave, the function that FoldLeft defines by
\* recursion over the parts of the domain exists.
FoldsBy(g, k, base, F) ==
    g = [s \in SUBSET (1 .. k) |->
            IF s = {} THEN base ELSE F[<<g[s \ {Max(s)}], Max(s)>>]]

LEMMA FoldExists ==
    ASSUME NEW T, NEW base \in T, NEW n \in Nat, NEW F,
           \A x \in T, i \in 1 .. n : F[<<x, i>>] \in T
    PROVE  \E g \in [SUBSET (1 .. n) -> T] : FoldsBy(g, n, base, F)
<1> DEFINE Bad == {k \in 0 .. n : ~\E g \in [SUBSET (1 .. k) -> T] : FoldsBy(g, k, base, F)}
<1>0. n \in 0 .. n
  OBVIOUS
<1> SUFFICES ASSUME Bad # {} PROVE FALSE
  BY <1>0
<1>1. PICK k \in Bad : \A j \in Bad : k <= j
  <2>1. Bad \in SUBSET Nat
    OBVIOUS
  <2> QED
    BY <2>1, LeastExists
<1>2. k # 0
  <2>1. FoldsBy([s \in SUBSET (1 .. 0) |-> base], 0, base, F)
    BY DEF FoldsBy
  <2>2. [s \in SUBSET (1 .. 0) |-> base] \in [SUBSET (1 .. 0) -> T]
    OBVIOUS
  <2> QED
    BY <1>1, <2>1, <2>2
<1>3. k - 1 \in 0 .. n /\ k \in 1 .. n /\ k \in Nat /\ k - 1 \notin Bad
  <2>1. k \in 0 .. n
    BY <1>1
  <2> HIDE DEF Bad
  <2> QED
    BY <1>1, <1>2, <2>1
<1>4. PICK g \in [SUBSET (1 .. k - 1) -> T] : FoldsBy(g, k - 1, base, F)
  BY <1>3
<1> DEFINE h == [s \in SUBSET (1 .. k) |->
                   IF s \in SUBSET (1 .. k - 1) THEN g[s]
                   ELSE F[<<g[s \ {Max(s)}], Max(s)>>]]
<1>5. ASSUME NEW s \in SUBSET (1 .. k), s # {}
      PROVE  h[s] = F[<<h[s \ {Max(s)}], Max(s)>>] /\ h[s] \in T
  <2>1. Max(s) \in s /\ (\A e \in s : e <= Max(s))
    BY <1>3, <1>5, MaxOfPart
  <2>2. s \ {Max(s)} \in SUBSET (1 .. k - 1)
    <3>1. ASSUME NEW e \in s \ {Max(s)}
          PROVE  e \in 1 .. k - 1
      <4>1. e \in 1 .. k /\ Max(s) \in 1 .. k /\ e <= Max(s) /\ e # Max(s)
        BY <2>1
      <4> QED
        BY <1>3, <4>1
    <3> QED
      BY <3>1
  <2>3. h[s \ {Max(s)}] = g[s \ {Max(s)}] /\ g[s \ {Max(s)}] \in T
    BY <2>2
  <2>4. h[s] = F[<<g[s \ {Max(s)}], Max(s)>>]
    <3>1. CASE s \in SUBSET (1 .. k - 1)
      BY <1>4, <1>5, <3>1 DEF FoldsBy
    <3>2. CASE s \notin SUBSET (1 .. k - 1)
      BY <3>2
    <3> QED
      BY <3>1, <3>2
  <2>5. Max(s) \in 1 .. n
    <3>1. Max(s) \in 1 .. k
      BY <2>1
    <3> QED
      BY <1>3, <3>1
  <2> HIDE DEF h
  <2> QED
    BY <2>3, <2>4, <2>5
<1>6. h[{}] = base
  <2>1. {} \in SUBSET (1 .. k - 1) /\ {} \in SUBSET (1 .. k)
    OBVIOUS
  <2> QED
    BY <1>4, <2>1 DEF FoldsBy
<1>7. h = [s \in SUBSET (1 .. k) |-> h[s]]
  OBVIOUS
<1> HIDE DEF h
<1>8. h \in [SUBSET (1 .. k) -> T]
  <2>1. \A s \in SUBSET (1 .. k) : h[s] \in T
    BY <1>5, <1>6
  <2> QED
    BY <1>7, <2>1
<1>9. FoldsBy(h, k, base, F)
  BY <1>5, <1>6, <1>7 DEF FoldsBy
<1> QED
  BY <1>1, <1>8, <1>9

\* S[k] holds of what a fold makes of the first k items.
LEMMA PrefixInduction ==
    ASSUME NEW n \in Nat, NEW iter, NEW S, iter[1 .. 0] \in S[0],
           \A k \in 1 .. n : iter[1 .. k - 1] \in S[k - 1] => iter[1 .. k] \in S[k]
    PROVE  iter[1 .. n] \in S[n]
<1> DEFINE Bad == {k \in 0 .. n : iter[1 .. k] \notin S[k]}
<1> SUFFICES ASSUME Bad # {} PROVE FALSE
  OBVIOUS
<1>1. PICK k \in Bad : \A j \in Bad : k <= j
  <2>1. Bad \in SUBSET Nat
    OBVIOUS
  <2> QED
    BY <2>1, LeastExists
<1>2. k # 0
  BY <1>1
<1>3. k \in 1 .. n /\ k - 1 \notin Bad /\ k - 1 \in 0 .. n
  BY <1>1, <1>2
<1> QED
  BY <1>1, <1>3

\* The two folds of the index
LEMMA FoldKeepUnused ==
    ASSUME NEW rs \in Seq(Records), NEW S, <<>> \in S[0],
           \A k \in 1 .. Len(rs) : \A s \in Seq(Records) :
               s \in S[k - 1] => KeepUnused(s, rs[k]) \in S[k] \cap Seq(Records)
    PROVE  FoldLeft(KeepUnused, <<>>, rs) \in S[Len(rs)] \cap Seq(Records)
<1> DEFINE n == Len(rs)
           F == [p \in Seq(Records) \X (1 .. n) |-> KeepUnused(p[1], rs[p[2]])]
           Folds(g) == g = [s \in SUBSET (1 .. n) |->
                         IF s = {} THEN <<>>
                         ELSE KeepUnused(g[s \ {Max(s)}], rs[Max(s)])]
           iter == CHOOSE g : Folds(g)
<1>1. n \in Nat /\ DOMAIN rs = 1 .. n /\ \A i \in 1 .. n : rs[i] \in Records
  OBVIOUS
<1>2. \A x \in Seq(Records), i \in 1 .. n : KeepUnused(x, rs[i]) \in Seq(Records)
  BY <1>1 DEF KeepUnused
<1>3. Folds(iter)
  <2>1. \A x \in Seq(Records), i \in 1 .. n : F[<<x, i>>] \in Seq(Records)
    BY <1>2
  <2>2. <<>> \in Seq(Records)
    OBVIOUS
  <2> HIDE DEF F, n
  <2>3. PICK g \in [SUBSET (1 .. n) -> Seq(Records)] : FoldsBy(g, n, <<>>, F)
    BY <1>1, <2>1, <2>2, FoldExists
  <2>4. ASSUME NEW s \in SUBSET (1 .. n), s # {}
        PROVE  F[<<g[s \ {Max(s)}], Max(s)>>] = KeepUnused(g[s \ {Max(s)}], rs[Max(s)])
    <3>1. Max(s) \in 1 .. n /\ s \ {Max(s)} \in SUBSET (1 .. n)
      BY <1>1, <2>4, MaxOfPart
    <3>2. g[s \ {Max(s)}] \in Seq(Records)
      BY <3>1
    <3> QED
      BY <3>1, <3>2 DEF F
  <2>5. Folds(g)
    BY <2>3, <2>4 DEF FoldsBy
  <2> QED
    BY <2>5
<1>4. FoldLeft(KeepUnused, <<>>, rs) = iter[1 .. n]
  BY <1>1 DEF FoldLeft, MapThenFoldSet
<1> HIDE DEF iter, n
<1>5. iter[1 .. 0] = <<>>
  BY <1>1, <1>3
<1>6. ASSUME NEW k \in 1 .. n
      PROVE  iter[1 .. k] = KeepUnused(iter[1 .. k - 1], rs[k])
  <2>1. /\ Max(1 .. k) = k /\ (1 .. k) \ {k} = 1 .. k - 1
        /\ (1 .. k) \in SUBSET (1 .. n) /\ 1 .. k # {}
    BY <1>1, MaxOfPrefix
  <2> QED
    BY <1>3, <2>1
<1> DEFINE R == [k \in 0 .. n |-> S[k] \cap Seq(Records)]
<1>7. iter[1 .. 0] \in R[0]
  BY <1>1, <1>5
<1>8. ASSUME NEW k \in 1 .. n, iter[1 .. k - 1] \in R[k - 1]
      PROVE  iter[1 .. k] \in R[k]
  <2>1. k \in 0 .. n /\ k - 1 \in 0 .. n
    BY <1>1
  <2> QED
    BY <1>6, <1>8, <2>1 DEF n
<1> HIDE DEF R
<1>9. iter[1 .. n] \in R[n]
  BY <1>1, <1>7, <1>8, PrefixInduction
<1> QED
  BY <1>1, <1>4, <1>9 DEF R, n

(***************************************************************************)
(* The index                                                               *)
(***************************************************************************)

Distinct(rs) == \A i, j \in DOMAIN rs : rs[i].call = rs[j].call => i = j

\* Calls whose record is unused
Held(rs) == {rs[i].call : i \in {j \in DOMAIN rs : ~rs[j].used}}

LEMMA ToSetAppend ==
    ASSUME NEW T, NEW s \in Seq(T), NEW e \in T
    PROVE  ToSet(Append(s, e)) = ToSet(s) \cup {e}
<1>1. /\ DOMAIN Append(s, e) = 1 .. Len(s) + 1
      /\ \A i \in DOMAIN s : i \in DOMAIN Append(s, e) /\ Append(s, e)[i] = s[i]
      /\ Append(s, e)[Len(s) + 1] = e /\ Len(s) + 1 \in DOMAIN Append(s, e)
  OBVIOUS
<1>2. \A i \in DOMAIN Append(s, e) : i \in DOMAIN s \/ i = Len(s) + 1
  BY <1>1
<1> QED
  BY <1>1, <1>2 DEF ToSet

\* A record of another call leaves the calls distinct.
LEMMA DistinctAppend ==
    ASSUME NEW s \in Seq(Records), Distinct(s), NEW r \in Records,
           \A x \in ToSet(s) : x.call # r.call
    PROVE  Distinct(Append(s, r))
<1>1. /\ DOMAIN Append(s, r) = 1 .. Len(s) + 1 /\ DOMAIN s = 1 .. Len(s)
      /\ \A i \in DOMAIN s : Append(s, r)[i] = s[i]
      /\ Append(s, r)[Len(s) + 1] = r
  OBVIOUS
<1>2. \A i \in DOMAIN s : s[i].call # r.call
  BY DEF ToSet
<1>3. \A i \in DOMAIN Append(s, r) : i \in DOMAIN s \/ i = Len(s) + 1
  BY <1>1
<1> QED
  BY <1>1, <1>2, <1>3 DEF Distinct

\* What the first k records leave of a list of records
Kept(s, rs, k) ==
    /\ ToSet(s) = {rs[i] : i \in {j \in 1 .. k : ~rs[j].used}}
    /\ Distinct(rs) => Distinct(s)

LEMMA UnusedKept ==
    ASSUME NEW rs \in Seq(Records)
    PROVE  Unused(rs) \in Seq(Records) /\ Kept(Unused(rs), rs, Len(rs))
<1> DEFINE S == [k \in 0 .. Len(rs) |-> {s \in Seq(Records) : Kept(s, rs, k)}]
<1>1. <<>> \in S[0]
  <2>1. ToSet(<<>>) = {} /\ Distinct(<<>>) /\ <<>> \in Seq(Records)
    BY DEF ToSet, Distinct
  <2> QED
    BY <2>1 DEF Kept
<1>2. ASSUME NEW k \in 1 .. Len(rs), NEW s \in Seq(Records), s \in S[k - 1]
      PROVE  KeepUnused(s, rs[k]) \in S[k] \cap Seq(Records)
  <2>1. /\ k \in 0 .. Len(rs) /\ k - 1 \in 0 .. Len(rs) /\ k \in DOMAIN rs
        /\ rs[k] \in Records
        /\ \A j \in 1 .. k : j \in DOMAIN rs /\ (j = k \/ j \in 1 .. k - 1)
        /\ \A j \in 1 .. k - 1 : j \in 1 .. k /\ j # k
        /\ k \in 1 .. k
    OBVIOUS
  <2>2. Kept(s, rs, k - 1)
    BY <1>2, <2>1
  <2>3. CASE rs[k].used
    <3>1. KeepUnused(s, rs[k]) = s
      BY <2>3 DEF KeepUnused
    <3>2. Kept(s, rs, k)
      BY <2>1, <2>2, <2>3 DEF Kept
    <3> QED
      BY <2>1, <3>1, <3>2
  <2>4. CASE ~rs[k].used
    <3>1. KeepUnused(s, rs[k]) = Append(s, rs[k]) /\ Append(s, rs[k]) \in Seq(Records)
      BY <2>1, <2>4 DEF KeepUnused
    <3>2. ToSet(Append(s, rs[k])) = ToSet(s) \cup {rs[k]}
      BY <2>1, ToSetAppend
    <3>3. ToSet(Append(s, rs[k])) = {rs[i] : i \in {j \in 1 .. k : ~rs[j].used}}
      BY <2>1, <2>2, <2>4, <3>2 DEF Kept
    <3>4. ASSUME Distinct(rs)
          PROVE  Distinct(Append(s, rs[k]))
      <4>1. \A x \in ToSet(s) : x.call # rs[k].call
        BY <2>1, <2>2, <3>4 DEF Kept, Distinct
      <4> QED
        BY <2>1, <2>2, <3>4, <4>1, DistinctAppend DEF Kept
    <3>5. Kept(Append(s, rs[k]), rs, k)
      BY <3>3, <3>4 DEF Kept
    <3> QED
      BY <2>1, <3>1, <3>5
  <2> QED
    BY <2>3, <2>4
<1> HIDE DEF S
<1>3. FoldLeft(KeepUnused, <<>>, rs) \in S[Len(rs)] \cap Seq(Records)
  BY <1>1, <1>2, FoldKeepUnused
<1> QED
  BY <1>3 DEF S, Unused

LEMMA LastOnesTyped ==
    ASSUME NEW s \in Seq(Records), NEW n \in Nat
    PROVE  /\ LastOnes(s, n) \in Seq(Records) /\ Len(LastOnes(s, n)) <= n
           /\ ToSet(LastOnes(s, n)) \subseteq ToSet(s)
           /\ Distinct(s) => Distinct(LastOnes(s, n))
<1>1. CASE Len(s) <= n
  BY <1>1 DEF LastOnes
<1>2. CASE ~(Len(s) <= n)
  <2> DEFINE m == Len(s) - n
             t == SubSeq(s, m + 1, Len(s))
  <2>1. LastOnes(s, n) = t
    BY <1>2 DEF LastOnes
  <2>2. m \in Nat /\ Len(s) \in Nat /\ m <= Len(s) /\ Len(s) - m = n
    BY <1>2
  <2>3. /\ t \in Seq(Records) /\ Len(t) = n /\ DOMAIN t = 1 .. n
        /\ \A i \in DOMAIN t : m + i \in DOMAIN s /\ t[i] = s[m + i]
    <3> HIDE DEF m
    <3> QED
      BY <2>2
  <2> HIDE DEF t, m
  <2>4. ToSet(t) \subseteq ToSet(s)
    BY <2>3 DEF ToSet
  <2>5. ASSUME Distinct(s), NEW i \in DOMAIN t, NEW j \in DOMAIN t, t[i].call = t[j].call
        PROVE  i = j
    <3>1. m + i = m + j
      BY <2>3, <2>5 DEF Distinct
    <3> QED
      BY <2>2, <2>3, <3>1
  <2>6. Distinct(s) => Distinct(t)
    BY <2>5 DEF Distinct
  <2> QED
    BY <2>1, <2>3, <2>4, <2>6
<1> QED
  BY <1>1, <1>2

LEMMA PruneTyped ==
    ASSUME NEW rs \in Seq(Records)
    PROVE  /\ Prune(rs) \in Seq(Records) /\ Len(Prune(rs)) <= MaxRecords
           /\ ToSet(Prune(rs)) \subseteq ToSet(rs)
           /\ Distinct(rs) => Distinct(Prune(rs))
<1>1. MaxRecords \in Nat
  BY AuditAssumption
<1>2. Unused(rs) \in Seq(Records) /\ Kept(Unused(rs), rs, Len(rs))
  BY UnusedKept
<1>3. ToSet(Unused(rs)) \subseteq ToSet(rs) /\ (Distinct(rs) => Distinct(Unused(rs)))
  <2>1. DOMAIN rs = 1 .. Len(rs)
    OBVIOUS
  <2> QED
    BY <1>2, <2>1 DEF Kept, ToSet
<1>4. CASE Prune(rs) = rs /\ ~(Len(rs) > MaxRecords)
  BY <1>1, <1>4
<1>5. CASE Prune(rs) = LastOnes(Unused(rs), MaxRecords)
  BY <1>1, <1>2, <1>3, <1>5, LastOnesTyped
<1> QED
  BY <1>4, <1>5 DEF Prune

NewRecord(c) == [call |-> c, used |-> FALSE]

LEMMA AddTyped ==
    ASSUME NEW rs \in Seq(Records), NEW c \in Calls
    PROVE  /\ Add(rs, c) \in Seq(Records) /\ Len(Add(rs, c)) <= MaxRecords
           /\ ToSet(Add(rs, c)) \subseteq ToSet(rs) \cup {NewRecord(c)}
           /\ Distinct(rs) /\ c \notin CallsIn(rs) => Distinct(Add(rs, c))
<1>1. NewRecord(c) \in Records /\ NewRecord(c).call = c
  BY DEF NewRecord, Records
<1>2. /\ Append(rs, NewRecord(c)) \in Seq(Records)
      /\ Add(rs, c) = Prune(Append(rs, NewRecord(c)))
  BY <1>1 DEF Add, NewRecord
<1>3. ToSet(Append(rs, NewRecord(c))) = ToSet(rs) \cup {NewRecord(c)}
  BY <1>1, ToSetAppend
<1>4. ASSUME Distinct(rs), c \notin CallsIn(rs)
      PROVE  Distinct(Append(rs, NewRecord(c)))
  <2>1. \A x \in ToSet(rs) : x.call # NewRecord(c).call
    BY <1>1, <1>4 DEF CallsIn, ToSet
  <2> QED
    BY <1>1, <1>4, <2>1, DistinctAppend
<1> QED
  BY <1>2, <1>3, <1>4, PruneTyped

LEMMA FoldAdd ==
    ASSUME NEW lines \in Seq(Calls), NEW base \in Seq(Records), NEW S, base \in S[0],
           \A k \in 1 .. Len(lines) : \A s \in Seq(Records) :
               s \in S[k - 1] => Add(s, lines[k]) \in S[k] \cap Seq(Records)
    PROVE  FoldLeft(Add, base, lines) \in S[Len(lines)] \cap Seq(Records)
<1> DEFINE n == Len(lines)
           F == [p \in Seq(Records) \X (1 .. n) |-> Add(p[1], lines[p[2]])]
           Folds(g) == g = [s \in SUBSET (1 .. n) |->
                         IF s = {} THEN base
                         ELSE Add(g[s \ {Max(s)}], lines[Max(s)])]
           iter == CHOOSE g : Folds(g)
<1>1. n \in Nat /\ DOMAIN lines = 1 .. n /\ \A i \in 1 .. n : lines[i] \in Calls
  OBVIOUS
<1>2. \A x \in Seq(Records), i \in 1 .. n : Add(x, lines[i]) \in Seq(Records)
  BY <1>1, AddTyped
<1>3. Folds(iter)
  <2>1. \A x \in Seq(Records), i \in 1 .. n : F[<<x, i>>] \in Seq(Records)
    BY <1>2
  <2>2. base \in Seq(Records)
    OBVIOUS
  <2> HIDE DEF F, n
  <2>3. PICK g \in [SUBSET (1 .. n) -> Seq(Records)] : FoldsBy(g, n, base, F)
    BY <1>1, <2>1, <2>2, FoldExists
  <2>4. ASSUME NEW s \in SUBSET (1 .. n), s # {}
        PROVE  F[<<g[s \ {Max(s)}], Max(s)>>] = Add(g[s \ {Max(s)}], lines[Max(s)])
    <3>1. Max(s) \in 1 .. n /\ s \ {Max(s)} \in SUBSET (1 .. n)
      BY <1>1, <2>4, MaxOfPart
    <3>2. g[s \ {Max(s)}] \in Seq(Records)
      BY <3>1
    <3> QED
      BY <3>1, <3>2 DEF F
  <2>5. Folds(g)
    BY <2>3, <2>4 DEF FoldsBy
  <2> QED
    BY <2>5
<1>4. FoldLeft(Add, base, lines) = iter[1 .. n]
  BY <1>1 DEF FoldLeft, MapThenFoldSet
<1> HIDE DEF iter, n
<1>5. iter[1 .. 0] = base
  BY <1>1, <1>3
<1>6. ASSUME NEW k \in 1 .. n
      PROVE  iter[1 .. k] = Add(iter[1 .. k - 1], lines[k])
  <2>1. /\ Max(1 .. k) = k /\ (1 .. k) \ {k} = 1 .. k - 1
        /\ (1 .. k) \in SUBSET (1 .. n) /\ 1 .. k # {}
    BY <1>1, MaxOfPrefix
  <2> QED
    BY <1>3, <2>1
<1> DEFINE R == [k \in 0 .. n |-> S[k] \cap Seq(Records)]
<1>7. iter[1 .. 0] \in R[0]
  BY <1>1, <1>5
<1>8. ASSUME NEW k \in 1 .. n, iter[1 .. k - 1] \in R[k - 1]
      PROVE  iter[1 .. k] \in R[k]
  <2>1. k \in 0 .. n /\ k - 1 \in 0 .. n
    BY <1>1
  <2> QED
    BY <1>6, <1>8, <2>1 DEF n
<1> HIDE DEF R
<1>9. iter[1 .. n] \in R[n]
  BY <1>1, <1>7, <1>8, PrefixInduction
<1> QED
  BY <1>1, <1>4, <1>9 DEF R, n

\* What the tailer's first k lines make of the index
Indexed(s, base, lines, k) ==
    /\ Len(s) <= MaxRecords
    /\ ToSet(s) \subseteq ToSet(base) \cup {NewRecord(lines[i]) : i \in 1 .. k}
    /\ /\ Distinct(base)
       /\ \A i, j \in DOMAIN lines : lines[i] = lines[j] => i = j
       /\ CallsIn(base) \cap ToSet(lines) = {}
       => Distinct(s)

LEMMA LinesIndexed ==
    ASSUME NEW base \in Seq(Records), Len(base) <= MaxRecords, NEW lines \in Seq(Calls)
    PROVE  /\ FoldLeft(Add, base, lines) \in Seq(Records)
           /\ Indexed(FoldLeft(Add, base, lines), base, lines, Len(lines))
<1> DEFINE S == [k \in 0 .. Len(lines) |->
                   {s \in Seq(Records) : Indexed(s, base, lines, k)}]
<1>1. base \in S[0]
  BY DEF Indexed
<1>2. ASSUME NEW k \in 1 .. Len(lines), NEW s \in Seq(Records), s \in S[k - 1]
      PROVE  Add(s, lines[k]) \in S[k] \cap Seq(Records)
  <2>1. /\ k \in 0 .. Len(lines) /\ k - 1 \in 0 .. Len(lines) /\ k \in DOMAIN lines
        /\ lines[k] \in Calls
        /\ \A j \in 1 .. k - 1 : j \in 1 .. k /\ j # k /\ j \in DOMAIN lines
        /\ k \in 1 .. k
    OBVIOUS
  <2>2. Indexed(s, base, lines, k - 1)
    BY <1>2, <2>1
  <2>3. /\ Add(s, lines[k]) \in Seq(Records) /\ Len(Add(s, lines[k])) <= MaxRecords
        /\ ToSet(Add(s, lines[k])) \subseteq ToSet(s) \cup {NewRecord(lines[k])}
        /\ Distinct(s) /\ lines[k] \notin CallsIn(s) => Distinct(Add(s, lines[k]))
    BY <2>1, AddTyped
  <2>4. ToSet(Add(s, lines[k]))
            \subseteq ToSet(base) \cup {NewRecord(lines[i]) : i \in 1 .. k}
    BY <2>1, <2>2, <2>3 DEF Indexed
  <2>5. ASSUME Distinct(base),
               \A i, j \in DOMAIN lines : lines[i] = lines[j] => i = j,
               CallsIn(base) \cap ToSet(lines) = {}
        PROVE  lines[k] \notin CallsIn(s)
    <3> SUFFICES ASSUME NEW x \in ToSet(s), x.call = lines[k]
                 PROVE  FALSE
      BY DEF CallsIn, ToSet
    <3>1. CASE x \in ToSet(base)
      BY <2>1, <2>5, <3>1 DEF CallsIn, ToSet
    <3>2. CASE x \in {NewRecord(lines[i]) : i \in 1 .. k - 1}
      BY <2>1, <2>5, <3>2 DEF NewRecord
    <3> QED
      BY <2>2, <3>1, <3>2 DEF Indexed
  <2>6. Indexed(Add(s, lines[k]), base, lines, k)
    BY <2>2, <2>3, <2>4, <2>5 DEF Indexed
  <2> QED
    BY <2>1, <2>3, <2>6
<1> HIDE DEF S
<1>3. FoldLeft(Add, base, lines) \in S[Len(lines)] \cap Seq(Records)
  BY <1>1, <1>2, FoldAdd
<1> QED
  BY <1>3 DEF S

(***************************************************************************)
(* Type correctness                                                        *)
(***************************************************************************)

OneHalf == half = {} \/ \E c \in Calls : half = {c}

\* A file is moved away by a rotation.
Inodes == inode <= rotations + 1

Types == TypeOK /\ OneHalf /\ Inodes

LEMMA AtMostOne ==
    ASSUME NEW S, \A x, y \in S : x = y
    PROVE  Cardinality(S) <= 1
<1>1. CASE S = {}
  BY <1>1, FS_EmptySet
<1>2. CASE S # {}
  <2>1. PICK x : x \in S
    BY <1>2
  <2>2. S = {x}
    BY <2>1
  <2> QED
    BY <2>2, FS_Singleton
<1> QED
  BY <1>1, <1>2

LEMMA SizeTyped ==
    ASSUME Types
    PROVE  /\ Size \in Nat /\ Len(log) \in Nat
           /\ half = {} => Size = 2 * Len(log)
           /\ half # {} => Size = 2 * Len(log) + 1
<1>1. Len(log) \in Nat
  BY DEF Types, TypeOK
<1>2. CASE half = {}
  BY <1>1, <1>2, FS_EmptySet DEF Size
<1>3. CASE half # {}
  <2>1. PICK c : half = {c}
    BY <1>3 DEF Types, OneHalf
  <2>2. Cardinality(half) = 1
    BY <2>1, FS_Singleton
  <2> QED
    BY <1>1, <1>3, <2>2 DEF Size
<1> QED
  BY <1>2, <1>3

\* From an offset of 2 * m - 1 or 2 * m, the lines after the first m
LEMMA LinesFromTyped ==
    ASSUME TypeOK, NEW start \in Nat
    PROVE  \E m \in Nat :
              /\ start = 2 * m \/ start = 2 * m - 1
              /\ LinesFrom(start) \in Seq(Calls)
              /\ \A i \in DOMAIN LinesFrom(start) :
                    m + i \in DOMAIN log /\ LinesFrom(start)[i] = log[m + i]
              /\ \A j \in DOMAIN log : j > m => log[j] \in ToSet(LinesFrom(start))
<1>1. log \in Seq(Calls) /\ Len(log) \in Nat /\ DOMAIN log = 1 .. Len(log)
  BY DEF TypeOK
<1> DEFINE m == (start + 1) \div 2
           t == SubSeq(log, m + 1, Len(log))
<1>2. m \in Nat /\ (start = 2 * m \/ start = 2 * m - 1)
  OBVIOUS
<1>3. LinesFrom(start) = t
  BY DEF LinesFrom
<1> HIDE DEF m
<1>4. CASE m <= Len(log)
  <2>1. /\ t \in Seq(Calls) /\ Len(t) = Len(log) - m
        /\ \A i \in 1 .. Len(log) - m : t[i] = log[m + i]
    <3>1. m + 1 \in 1 .. Len(log) + 1 /\ Len(log) - m = Len(log) - (m + 1) + 1
      BY <1>1, <1>2, <1>4
    <3>2. t \in Seq(Calls)
      BY <1>1, <3>1
    <3>3. Len(t) = Len(log) - m
      BY <1>1, <3>1
    <3>4. \A i \in 1 .. Len(log) - m : t[i] = log[m + i]
      BY <1>1, <1>2, <3>1
    <3> QED
      BY <3>2, <3>3, <3>4
  <2> HIDE DEF t
  <2>3. /\ DOMAIN t = 1 .. Len(log) - m
        /\ \A i \in 1 .. Len(log) - m : m + i \in DOMAIN log
    BY <1>1, <1>2, <1>4, <2>1
  <2>2. ASSUME NEW j \in DOMAIN log, j > m
        PROVE  log[j] \in ToSet(t)
    <3>1. j - m \in DOMAIN t /\ m + (j - m) = j
      BY <1>1, <1>2, <2>2, <2>3
    <3>2. t[j - m] = log[j]
      BY <2>1, <2>3, <3>1
    <3> QED
      BY <3>1, <3>2 DEF ToSet
  <2> QED
    BY <1>2, <1>3, <2>1, <2>2, <2>3
<1>5. CASE ~(m <= Len(log))
  <2>1. t \in Seq(Calls) /\ DOMAIN t = {}
    BY <1>1, <1>2, <1>5
  <2> HIDE DEF t
  <2>2. \A j \in DOMAIN log : ~(j > m)
    BY <1>1, <1>2, <1>5
  <2> QED
    BY <1>2, <1>3, <2>1, <2>2
<1> QED
  BY <1>4, <1>5

\* What the tailer reads: all of a file it takes for another one, the lines past
\* its offset of the one it knows
LEMMA NewLinesTyped ==
    ASSUME TypeOK
    PROVE  \E m \in Nat :
              /\ IF Stale THEN m = 0 ELSE offset = 2 * m \/ offset = 2 * m - 1
              /\ NewLines \in Seq(Calls)
              /\ \A i \in DOMAIN NewLines : m + i \in DOMAIN log /\ NewLines[i] = log[m + i]
              /\ \A j \in DOMAIN log : j > m => log[j] \in ToSet(NewLines)
<1>1. CASE Stale
  <2>1. NewLines = LinesFrom(0) /\ \A m \in Nat : 0 = 2 * m \/ 0 = 2 * m - 1 => m = 0
    BY <1>1 DEF NewLines
  <2> QED
    BY <1>1, <2>1, LinesFromTyped
<1>2. CASE ~Stale
  <2>1. NewLines = LinesFrom(offset) /\ offset \in Nat
    BY <1>2 DEF NewLines, TypeOK
  <2> QED
    BY <1>2, <2>1, LinesFromTyped
<1> QED
  BY <1>1, <1>2

LEMMA RecordTyped ==
    ASSUME TypeOK, NEW i \in DOMAIN recs
    PROVE  i \in Nat /\ recs[i] \in Records /\ recs[i].call \in Calls
<1>1. recs \in Seq(Records)
  BY DEF TypeOK
<1>2. i \in Nat /\ recs[i] \in Records
  BY <1>1
<1> QED
  BY <1>2 DEF Records

\* An index whose records some calls have used
LEMMA ConsumeTyped ==
    ASSUME TypeOK, NEW ms
    PROVE  /\ Consume(ms) \in Seq(Records) /\ Len(Consume(ms)) = Len(recs)
           /\ DOMAIN Consume(ms) = DOMAIN recs
           /\ \A i \in DOMAIN recs :
                 /\ Consume(ms)[i].call = recs[i].call
                 /\ Consume(ms)[i].used <=> recs[i].used \/ i \in ms
<1>1. recs \in Seq(Records) /\ DOMAIN recs = 1 .. Len(recs) /\ Len(recs) \in Nat
  BY DEF TypeOK
<1>2. ASSUME NEW i \in DOMAIN recs
      PROVE  /\ Consume(ms)[i] \in Records /\ Consume(ms)[i].call = recs[i].call
             /\ Consume(ms)[i].used <=> recs[i].used \/ i \in ms
  <2> DEFINE b == recs[i].used \/ i \in ms
  <2>1. recs[i] \in Records
    BY <1>1
  <2>2. Consume(ms)[i] = [recs[i] EXCEPT !.used = b]
    BY DEF Consume
  <2>3. b \in BOOLEAN
    OBVIOUS
  <2> HIDE DEF b
  <2>4. [recs[i] EXCEPT !.used = b] = [call |-> recs[i].call, used |-> b]
    BY <2>1, <2>3 DEF Records
  <2>5. [call |-> recs[i].call, used |-> b] \in Records
    BY <2>1, <2>3 DEF Records
  <2>6. Consume(ms)[i].call = recs[i].call /\ Consume(ms)[i].used = b
    BY <2>2, <2>4
  <2>7. Consume(ms)[i].used <=> recs[i].used \/ i \in ms
    BY <2>6, Zenon DEF b
  <2> QED
    BY <2>2, <2>4, <2>5, <2>6, <2>7
<1>3. DOMAIN Consume(ms) = DOMAIN recs
  BY DEF Consume
<1>4. Consume(ms) = [i \in 1 .. Len(recs) |-> Consume(ms)[i]]
  BY <1>1 DEF Consume
<1>5. Consume(ms) \in Seq(Records)
  BY <1>1, <1>2, <1>3, <1>4
<1>6. Len(Consume(ms)) = Len(recs)
  BY <1>1, <1>3, <1>5
<1> QED
  BY <1>2, <1>3, <1>5, <1>6

\* The times of the calls are natural numbers.
LEMMA TimesTyped ==
    ASSUME TypeOK, NEW c \in Calls, NEW d \in Calls
    PROVE  Distance(loggedAt[d], requestedAt[c]) \in Nat
<1>1. Times \cup {0} \subseteq Nat
  BY AuditAssumption DEF Times
<1>2. loggedAt[d] \in Nat /\ requestedAt[c] \in Nat
  BY <1>1 DEF TypeOK
<1> QED
  BY <1>2 DEF Distance

\* match finds one record at most,
LEMMA MatchIsOne ==
    ASSUME TypeOK, NEW c \in Calls
    PROVE  /\ Matches(c) \subseteq DOMAIN recs
           /\ \A i \in Matches(c) : recs[i] \in Records
           /\ \A i, j \in Matches(c) : i = j
<1>1. \A i \in DOMAIN recs : i \in Nat /\ recs[i] \in Records /\ recs[i].call \in Calls
  BY RecordTyped
<1>2. Matches(c) \subseteq Candidates(c) /\ Candidates(c) \subseteq DOMAIN recs
  BY DEF Matches, Candidates
<1>3. ASSUME NEW i \in Matches(c), NEW j \in Matches(c)
      PROVE  i = j
  <2> DEFINE di == Distance(loggedAt[recs[i].call], requestedAt[c])
             dj == Distance(loggedAt[recs[j].call], requestedAt[c])
  <2>1. di \in Nat /\ dj \in Nat /\ i \in Nat /\ j \in Nat
    BY <1>1, <1>2, TimesTyped
  <2>2. di < dj \/ (di = dj /\ i <= j)
    BY <1>2 DEF Matches
  <2>3. dj < di \/ (dj = di /\ j <= i)
    BY <1>2 DEF Matches
  <2> HIDE DEF di, dj
  <2> QED
    BY <2>1, <2>2, <2>3
<1> QED
  BY <1>1, <1>2, <1>3

\* and one if there is a candidate.
LEMMA MatchExists ==
    ASSUME TypeOK, NEW c \in Calls, Candidates(c) # {}
    PROVE  Matches(c) # {}
<1> DEFINE dist(i) == Distance(loggedAt[recs[i].call], requestedAt[c])
<1>1. \A i \in Candidates(c) : i \in Nat /\ dist(i) \in Nat
  BY RecordTyped, TimesTyped DEF Candidates
<1>2. PICK d \in {dist(i) : i \in Candidates(c)} :
         \A e \in {dist(i) : i \in Candidates(c)} : d <= e
  BY <1>1, LeastExists
<1>3. PICK i \in {j \in Candidates(c) : dist(j) = d} :
         \A j \in {k \in Candidates(c) : dist(k) = d} : i <= j
  <2>1. {j \in Candidates(c) : dist(j) = d} # {}
    BY <1>2
  <2>2. {j \in Candidates(c) : dist(j) = d} \in SUBSET Nat
    BY <1>1
  <2> HIDE DEF dist
  <2> QED
    BY <2>1, <2>2, LeastExists
<1>4. ASSUME NEW j \in Candidates(c)
      PROVE  dist(i) < dist(j) \/ (dist(i) = dist(j) /\ i <= j)
  <2>1. d <= dist(j) /\ dist(i) = d /\ dist(j) \in Nat /\ d \in Nat
    BY <1>1, <1>2, <1>3
  <2>2. dist(j) = d => i <= j
    BY <1>3
  <2> HIDE DEF dist
  <2> QED
    BY <2>1, <2>2
<1>5. i \in Matches(c)
  BY <1>3, <1>4 DEF Matches
<1> QED
  BY <1>5

LEMMA TypeInit == Init => Types
<1> SUFFICES ASSUME Init PROVE Types
  OBVIOUS
<1>1. OneHalf
  BY DEF Init, OneHalf
<1>2. Cardinality({}) = 0 /\ 1 \in 1 .. MaxFailures + 1 /\ 0 <= MaxRecords
  BY AuditAssumption, FS_EmptySet
<1>3. /\ errors \in 0 .. MaxFailures /\ rotations \in 0 .. MaxFailures
      /\ crashes \in 0 .. MaxFailures /\ Inodes
  BY AuditAssumption DEF Init, Inodes
<1>4. /\ log \in Seq(Calls) /\ rows \in Seq(Calls) /\ recs \in Seq(Records)
      /\ Len(recs) = 0 /\ Len(rows) = 0
  BY DEF Init
<1>5. /\ cursor \in 0 .. done /\ done \in 0 .. limit /\ limit \in 0 .. Len(rows)
      /\ inode \in 1 .. MaxFailures + 1 /\ tailInode \in 0 .. inode /\ offset \in Nat
  BY <1>2, <1>4 DEF Init
<1>6. /\ requestedAt \in [Calls -> Times \cup {0}] /\ loggedAt \in [Calls -> Times \cup {0}]
      /\ label \in [Calls -> SUBSET Calls] /\ \A c \in Calls : Cardinality(label[c]) <= 1
  BY <1>2 DEF Init
<1>7. /\ toolOf \in [Calls -> Tools] /\ keyOf \in [Calls -> Keys \cup {NoKey}]
      /\ half = {} /\ phase \in {"idle", "messages", "rows"}
      /\ stored \in SUBSET Calls /\ delivered \in SUBSET Calls /\ torn \in SUBSET Calls
      /\ evicted \in SUBSET Calls /\ taken \in SUBSET Calls /\ hidden \in BOOLEAN
      /\ seen \in SUBSET stored
  BY DEF Init
<1> QED
  BY <1>1, <1>2, <1>3, <1>4, <1>5, <1>6, <1>7 DEF Types, TypeOK

\* Each kind of failure may happen once more.
LEMMA FailuresTyped ==
    ASSUME TypeOK, MayFail
    PROVE  /\ errors + 1 \in 0 .. MaxFailures /\ rotations + 1 \in 0 .. MaxFailures
           /\ crashes + 1 \in 0 .. MaxFailures /\ rotations < MaxFailures
  BY AuditAssumption DEF TypeOK, MayFail

\* What Goose and the gateway do
LEMMA TypeOutside ==
    ASSUME Types, NEW c \in Calls,
           \/ WriteLine(c) \/ FinishLine(c) \/ Respond(c)
           \/ \E inPlace \in BOOLEAN : Rotate(inPlace)
    PROVE  Types'
<1> USE DEF Types, OneHalf, Inodes, MonitorUnchanged, pollVars, tailVars, storeVars
<1>1. /\ Cardinality({}) <= 1 /\ Cardinality({c}) <= 1 /\ MaxFailures \in Nat
      /\ \A s \in Seq(Calls) :
            /\ Len(s) \in Nat /\ Append(s, c) \in Seq(Calls)
            /\ Len(Append(s, c)) = Len(s) + 1
  <2>1. Cardinality({}) = 0 /\ Cardinality({c}) = 1
    BY FS_EmptySet, FS_Singleton
  <2>2. MaxFailures \in Nat
    BY AuditAssumption
  <2> QED
    BY <2>1, <2>2
<1>2. CASE WriteLine(c)
  <2>1. /\ loggedAt' \in [Calls -> Times \cup {0}]
        /\ requestedAt' \in [Calls -> Times \cup {0}]
    BY <1>2 DEF WriteLine, TypeOK
  <2>2. log' \in Seq(Calls) /\ half' \in SUBSET Calls /\ Cardinality(half') <= 1 /\ OneHalf'
    BY <1>1, <1>2 DEF WriteLine, TypeOK
  <2> QED
    BY <1>2, <2>1, <2>2 DEF WriteLine, TypeOK
<1>3. CASE FinishLine(c)
  <2>1. log' \in Seq(Calls) /\ half' = {} /\ Cardinality(half') <= 1
    BY <1>1, <1>3 DEF FinishLine, TypeOK
  <2> QED
    BY <1>3, <2>1 DEF FinishLine, TypeOK
<1>4. CASE Respond(c)
  <2>1. rows' \in Seq(Calls) /\ Len(rows') = Len(rows) + 1 /\ Len(rows) \in Nat
    BY <1>1, <1>4 DEF Respond, TypeOK
  <2>2. requestedAt' \in [Calls -> Times \cup {0}]
    BY <1>4 DEF Respond, TypeOK
  <2>3. cursor \in 0 .. done /\ done \in 0 .. limit /\ limit \in 0 .. Len(rows')
    BY <2>1 DEF TypeOK
  <2> QED
    BY <1>4, <2>1, <2>2, <2>3 DEF Respond, TypeOK
<1>5. ASSUME NEW inPlace \in BOOLEAN, Rotate(inPlace)
      PROVE  Types'
  <2>1. rotations' \in 0 .. MaxFailures /\ log' \in Seq(Calls) /\ hidden' \in BOOLEAN
    BY <1>1, <1>5, FailuresTyped DEF Rotate, TypeOK
  <2>2. inode' \in 1 .. MaxFailures + 1 /\ tailInode \in 0 .. inode'
    <3>1. rotations < MaxFailures /\ rotations \in Nat
      BY <1>5, FailuresTyped DEF Rotate, TypeOK
    <3>2. inode' \in {inode, inode + 1} /\ inode \in Nat \ {0}
      BY <1>1, <1>5 DEF Rotate, TypeOK
    <3>3. tailInode \in 0 .. inode /\ inode <= rotations + 1
      BY DEF TypeOK
    <3> QED
      BY <1>1, <3>1, <3>2, <3>3
  <2>3. Inodes'
    <3>1. inode' \in {inode, inode + 1} /\ rotations' = rotations + 1 /\ rotations \in Nat
      BY <1>5 DEF Rotate, TypeOK
    <3> QED
      BY <1>1, <3>1 DEF TypeOK
  <2> QED
    BY <1>5, <2>1, <2>2, <2>3 DEF Rotate, TypeOK
<1> QED
  BY <1>2, <1>3, <1>4, <1>5

\* What the monitor does
LEMMA TypeReadAudit ==
    ASSUME Types, ReadAudit
    PROVE  Types'
<1> USE DEF Types
<1>1. NewLines \in Seq(Calls) /\ ToSet(NewLines) \subseteq Calls
  BY NewLinesTyped DEF ToSet
<1>2. recs' \in Seq(Records) /\ Len(recs') <= MaxRecords
  BY <1>1, LinesIndexed DEF ReadAudit, TypeOK, Indexed
<1>3. CallsIn(Unused(recs)) \subseteq Calls
  <2>1. Unused(recs) \in Seq(Records)
    BY UnusedKept DEF TypeOK
  <2>2. \A i \in DOMAIN Unused(recs) : Unused(recs)[i] \in Records
    BY <2>1
  <2> QED
    BY <2>2 DEF CallsIn, Records
<1>4. /\ delivered' \in SUBSET Calls /\ torn' \in SUBSET Calls
      /\ evicted' \in SUBSET Calls /\ hidden' \in BOOLEAN
  BY <1>1, <1>3 DEF ReadAudit, TypeOK
<1>5. offset' \in Nat /\ tailInode' \in 0 .. inode' /\ inode' = inode
  BY SizeTyped DEF ReadAudit, gooseVars, TypeOK
<1> QED
  BY <1>2, <1>4, <1>5
  DEF ReadAudit, gooseVars, storeVars, boundVars, TypeOK, OneHalf, Inodes

\* The row in hand, and the record that match gives its event
LEMMA RowTyped ==
    ASSUME Types, phase = "rows", done < limit, recs' = Consume(Matches(Row))
    PROVE  /\ Row \in Calls /\ done + 1 \in 0 .. limit /\ cursor \in 0 .. done + 1
           /\ recs' \in Seq(Records) /\ Len(recs') <= MaxRecords
           /\ Found \subseteq Calls /\ Cardinality(Found) <= 1
<1> USE DEF Types
<1>1. Row \in Calls /\ done + 1 \in 0 .. limit /\ cursor \in 0 .. done + 1
  BY DEF Row, TypeOK
<1>2. recs' \in Seq(Records) /\ Len(recs') <= MaxRecords
  BY ConsumeTyped DEF TypeOK
<1>3. /\ \A i \in Matches(Row) : recs[i].call \in Calls
      /\ \A i, j \in Matches(Row) : i = j
  BY <1>1, MatchIsOne, RecordTyped
<1> QED
  BY <1>1, <1>2, <1>3, AtMostOne DEF Found

LEMMA TypeProcessRow ==
    ASSUME Types, ProcessRow
    PROVE  Types'
<1> USE DEF Types
<1>1. /\ Row \in Calls /\ done + 1 \in 0 .. limit /\ cursor \in 0 .. done + 1
      /\ recs' \in Seq(Records) /\ Len(recs') <= MaxRecords
      /\ Found \subseteq Calls /\ Cardinality(Found) <= 1
  BY RowTyped DEF ProcessRow
<1>2. /\ label' = [label EXCEPT ![Row] = IF Row \in stored THEN @ ELSE Found]
      /\ stored' = stored \cup {Row} /\ taken' = taken \cup (Found \ {Row})
      /\ seen' = seen \cup {Row}
  BY DEF ProcessRow
<1>3. label' \in [Calls -> SUBSET Calls] /\ \A d \in Calls : Cardinality(label'[d]) <= 1
  BY <1>1, <1>2 DEF TypeOK
<1>4. stored' \in SUBSET Calls /\ taken' \in SUBSET Calls /\ seen' \in SUBSET stored'
  BY <1>1, <1>2 DEF TypeOK
<1>5. cursor' \in 0 .. done' /\ done' \in 0 .. limit'
  BY <1>1 DEF ProcessRow
<1> QED
  BY <1>1, <1>3, <1>4, <1>5
  DEF ProcessRow, gooseVars, tailVars, boundVars, TypeOK, OneHalf, Inodes

LEMMA TypeInsertFails ==
    ASSUME Types, InsertFails
    PROVE  Types'
<1> USE DEF Types
<1>1. /\ Row \in Calls /\ done + 1 \in 0 .. limit /\ cursor \in 0 .. done + 1
      /\ recs' \in Seq(Records) /\ Len(recs') <= MaxRecords
      /\ Found \subseteq Calls
  BY RowTyped DEF InsertFails
<1>2. taken' \in SUBSET Calls /\ errors' \in 0 .. MaxFailures
  BY <1>1, FailuresTyped DEF InsertFails, TypeOK
<1>3. cursor' \in 0 .. done' /\ done' \in 0 .. limit'
  BY <1>1 DEF InsertFails
<1> QED
  BY <1>1, <1>2, <1>3
  DEF InsertFails, gooseVars, tailVars, storeVars, TypeOK, OneHalf, Inodes

LEMMA TypePoll ==
    ASSUME Types, ReadMessages \/ SkipRow \/ PollEnd \/ PollFails \/ Crash
    PROVE  Types'
<1> USE DEF Types, gooseVars, tailVars, storeVars, boundVars, OneHalf, Inodes
<1>1. CASE ReadMessages
  <2>1. limit \in 0 .. Len(rows) /\ Len(rows) \in Nat /\ done \in 0 .. limit
    BY DEF TypeOK
  <2>2. done \in 0 .. Len(rows)
    BY <2>1
  <2> QED
    BY <1>1, <2>1, <2>2 DEF ReadMessages, TypeOK
<1>2. CASE SkipRow
  <2>1. done' \in 0 .. limit /\ cursor \in 0 .. done' /\ errors' \in 0 .. MaxFailures
    BY <1>2, FailuresTyped DEF SkipRow, TypeOK
  <2> QED
    BY <1>2, <2>1 DEF SkipRow, TypeOK
<1>3. CASE PollEnd
  <2>1. cursor' \in 0 .. done /\ done \in 0 .. limit
    BY <1>3 DEF PollEnd, TypeOK
  <2> QED
    BY <1>3, <2>1 DEF PollEnd, TypeOK
<1>4. CASE Crash
  <2>1. crashes' \in 0 .. MaxFailures /\ tailInode' \in 0 .. inode
    BY <1>4, FailuresTyped DEF Crash, TypeOK
  <2>2. cursor \in 0 .. cursor /\ cursor \in 0 .. Len(rows)
    BY DEF TypeOK
  <2>3. recs' \in Seq(Records) /\ Len(recs') <= MaxRecords
    BY <1>4, AuditAssumption DEF Crash
  <2> QED
    BY <1>4, <2>1, <2>2, <2>3 DEF Crash, TypeOK
<1>5. CASE PollFails
  <2>1. errors' \in 0 .. MaxFailures
    BY <1>5, FailuresTyped DEF PollFails, TypeOK
  <2>2. cursor \in 0 .. cursor /\ cursor \in 0 .. limit
    BY DEF TypeOK
  <2> QED
    BY <1>5, <2>1, <2>2 DEF PollFails, TypeOK
<1> QED
  BY <1>1, <1>2, <1>3, <1>4, <1>5

LEMMA TypeNext == Types /\ [Next]_vars => Types'
<1> SUFFICES ASSUME Types, [Next]_vars PROVE Types'
  OBVIOUS
<1>1. CASE UNCHANGED vars
  BY <1>1 DEF vars, gooseVars, pollVars, tailVars, storeVars, boundVars, Types, TypeOK,
     OneHalf, Inodes
<1>2. ASSUME NEW inPlace \in BOOLEAN, Rotate(inPlace)
      PROVE  Types'
  <2>1. PICK c : c \in Calls
    <3>1. log \in Seq(Calls) /\ log # <<>>
      BY <1>2 DEF Rotate, Types, TypeOK
    <3>2. log[1] \in Calls
      BY <3>1
    <3> QED
      BY <3>2
  <2> QED
    BY <1>2, <2>1, TypeOutside
<1>3. ASSUME NEW c \in Calls, WriteLine(c) \/ FinishLine(c) \/ Respond(c)
      PROVE  Types'
  BY <1>3, TypeOutside
<1> QED
  BY <1>1, <1>2, <1>3, TypeReadAudit, TypeProcessRow, TypeInsertFails,
     TypePoll DEF Next

\* Every variable keeps its type: the index its bound, an event one line at most.
THEOREM TypeCorrect == Spec => []TypeOK
<1>1. Init => Types
  BY TypeInit
<1>2. Types /\ [Next]_vars => Types'
  BY TypeNext
<1>3. Types => TypeOK
  BY DEF Types
<1> QED
  BY <1>1, <1>2, <1>3, PTL DEF Spec

(***************************************************************************)
(* The inductive invariant                                                 *)
(***************************************************************************)

\* A call has one line at most, in the file or half written.
Lines ==
    /\ \A i, j \in DOMAIN log : log[i] = log[j] => i = j
    /\ half \cap ToSet(log) = {}
    /\ \A c \in ToSet(log) \cup half \cup delivered : loggedAt[c] # 0

\* What the tailer has delivered it will not read again, in whatever order the
\* file is rotated, truncated and appended to: it has passed the line, and will
\* take the file for another one only when no such line is left in it.
Fresh ==
    /\ half \cap delivered = {}
    /\ tailInode = 0 => offset = 0
    /\ \A i \in DOMAIN log :
          log[i] \in delivered => tailInode = inode /\ 2 * i <= offset /\ offset <= Size

\* What the tailer has passed is delivered; a line it stands in is torn.
Passed ==
    tailInode = inode /\ ~hidden =>
        /\ offset <= Size
        /\ \A i \in DOMAIN log : 2 * i <= offset => log[i] \in delivered \cup torn
        /\ \A i \in DOMAIN log : 2 * i = offset + 1 => log[i] \in torn
        /\ offset = 2 * Len(log) + 1 => half \subseteq torn

\* The index holds a line once, and what has become of a delivered line: it waits
\* there, was dropped, was given away, or its own call is stored.
Index ==
    /\ Distinct(recs) /\ CallsIn(recs) \subseteq delivered
    /\ delivered \subseteq Held(recs) \cup evicted \cup taken \cup stored

\* Until a restart, the lines that events have are used, and differ.
Labels ==
    /\ LabelIsOwn
    /\ crashes = 0 =>
          /\ OneCallPerLine
          /\ \A c \in Calls : label[c] \subseteq delivered \ Held(recs)
          /\ \A c \in Calls \ stored : label[c] = {}

IInv == Lines /\ Fresh /\ Passed /\ Index /\ Labels

LEMMA InvInit == Init => IInv
<1> SUFFICES ASSUME Init PROVE IInv
  OBVIOUS
<1>1. DOMAIN log = {} /\ ToSet(log) = {} /\ DOMAIN recs = {}
  BY DEF Init, ToSet
<1>2. Lines /\ Fresh /\ Passed
  BY <1>1 DEF Init, Lines, Fresh, Passed
<1>3. Index
  BY <1>1 DEF Init, Index, Distinct, CallsIn
<1>4. Labels
  BY DEF Init, Labels, LabelIsOwn, OneCallPerLine
<1> QED
  BY <1>2, <1>3, <1>4 DEF IInv

\* What a step does not touch
LEMMA FileKept ==
    ASSUME Lines /\ Fresh /\ Passed,
           UNCHANGED <<log, half, inode, delivered, torn, hidden, loggedAt, offset,
                       tailInode>>
    PROVE  Lines' /\ Fresh' /\ Passed'
<1>1. Size' = Size
  BY DEF Size
<1> QED
  BY <1>1 DEF Lines, Fresh, Passed

LEMMA IndexKept ==
    ASSUME Index, UNCHANGED <<recs, delivered, evicted, taken, stored>>
    PROVE  Index'
  BY DEF Index, Distinct, CallsIn, Held

LEMMA LabelsKept ==
    ASSUME Labels, UNCHANGED <<toolOf, keyOf, label, recs, delivered, stored, crashes>>
    PROVE  Labels'
  BY DEF Labels, LabelIsOwn, Confusable, OneCallPerLine, Held

(***************************************************************************)
(* Goose, the gateway and the operator                                     *)
(***************************************************************************)

LEMMA StepWriteLine ==
    ASSUME Types, IInv, NEW c \in Calls, WriteLine(c)
    PROVE  IInv'
<1> USE DEF MonitorUnchanged, pollVars, tailVars, storeVars
<1>1. /\ Index' /\ Labels'
  BY IndexKept, LabelsKept DEF WriteLine, IInv
<1>2. /\ loggedAt[c] = 0 /\ half = {}
      /\ \A d \in Calls \ {c} : loggedAt'[d] = loggedAt[d]
      /\ loggedAt'[c] # 0
      /\ (log' = Append(log, c) /\ half' = {}) \/ (half' = {c} /\ log' = log)
      /\ UNCHANGED <<inode, hidden, offset, tailInode, delivered, torn>>
  <2>1. PICK t \in Times : loggedAt' = [loggedAt EXCEPT ![c] = t]
    BY DEF WriteLine
  <2>2. t # 0
    BY AuditAssumption DEF Times
  <2>3. loggedAt \in [Calls -> Times \cup {0}]
    BY DEF Types, TypeOK
  <2>4. (\A d \in Calls \ {c} : loggedAt'[d] = loggedAt[d]) /\ loggedAt'[c] # 0
    BY <2>1, <2>2, <2>3
  <2> QED
    BY <2>4 DEF WriteLine
<1>3. /\ log \in Seq(Calls) /\ Len(log) \in Nat /\ DOMAIN log = 1 .. Len(log)
      /\ delivered \subseteq Calls /\ ToSet(log) \subseteq Calls
  BY DEF Types, TypeOK, ToSet
<1>4. c \notin ToSet(log) \cup delivered
  BY <1>2 DEF IInv, Lines
<1>5. Size = 2 * Len(log) /\ offset \in Nat
  BY <1>2, SizeTyped DEF Types, TypeOK
<1>6. CASE log' = Append(log, c) /\ half' = {}
  <2>1. /\ DOMAIN log' = 1 .. Len(log) + 1 /\ Len(log') = Len(log) + 1
        /\ \A i \in DOMAIN log : log'[i] = log[i]
        /\ log'[Len(log) + 1] = c
        /\ \A i \in DOMAIN log' : i \in DOMAIN log \/ i = Len(log) + 1
    BY <1>3, <1>6
  <2>2. ToSet(log') = ToSet(log) \cup {c}
    BY <1>3, <1>6, ToSetAppend
  <2>3. \A i \in DOMAIN log : log[i] # c
    BY <1>4 DEF ToSet
  <2>4. Lines'
    BY <1>2, <1>3, <1>6, <2>1, <2>2, <2>3 DEF IInv, Lines
  <2>5. Size' = 2 * Len(log) + 2
    BY <1>3, <1>6, <2>1, FS_EmptySet DEF Size
  <2>6. Fresh'
    BY <1>2, <1>3, <1>4, <1>5, <1>6, <2>1, <2>5 DEF IInv, Fresh
  <2>7. Passed'
    BY <1>2, <1>3, <1>5, <1>6, <2>1, <2>5 DEF IInv, Passed
  <2> QED
    BY <1>1, <2>4, <2>6, <2>7 DEF IInv
<1>7. CASE half' = {c} /\ log' = log
  <2>1. Lines'
    BY <1>2, <1>3, <1>4, <1>7 DEF IInv, Lines
  <2>2. Size' = 2 * Len(log) + 1
    BY <1>3, <1>7, FS_Singleton DEF Size
  <2>3. Fresh'
    BY <1>2, <1>3, <1>4, <1>5, <1>7, <2>2 DEF IInv, Fresh
  <2>4. Passed'
    BY <1>2, <1>3, <1>5, <1>7, <2>2 DEF IInv, Passed
  <2> QED
    BY <1>1, <2>1, <2>3, <2>4 DEF IInv
<1> QED
  BY <1>2, <1>6, <1>7

LEMMA StepFinishLine ==
    ASSUME Types, IInv, NEW c \in Calls, FinishLine(c)
    PROVE  IInv'
<1> USE DEF MonitorUnchanged, pollVars, tailVars, storeVars
<1>1. /\ Index' /\ Labels'
  BY IndexKept, LabelsKept DEF FinishLine, IInv
<1>2. /\ half = {c} /\ log' = Append(log, c) /\ half' = {}
      /\ UNCHANGED <<loggedAt, inode, hidden, offset, tailInode, delivered, torn>>
  BY DEF FinishLine, Types, OneHalf
<1>3. /\ log \in Seq(Calls) /\ Len(log) \in Nat /\ DOMAIN log = 1 .. Len(log)
      /\ ToSet(log) \subseteq Calls /\ offset \in Nat
  BY DEF Types, TypeOK, ToSet
<1>4. c \notin ToSet(log) \cup delivered /\ loggedAt[c] # 0
  BY <1>2 DEF IInv, Lines, Fresh
<1>5. /\ DOMAIN log' = 1 .. Len(log) + 1 /\ Len(log') = Len(log) + 1
      /\ \A i \in DOMAIN log : log'[i] = log[i]
      /\ log'[Len(log) + 1] = c
      /\ \A i \in DOMAIN log' : i \in DOMAIN log \/ i = Len(log) + 1
  BY <1>2, <1>3
<1>6. ToSet(log') = ToSet(log) \cup {c}
  BY <1>2, <1>3, ToSetAppend
<1>7. \A i \in DOMAIN log : log[i] # c
  BY <1>4 DEF ToSet
<1>8. Lines'
  BY <1>2, <1>3, <1>4, <1>5, <1>6, <1>7 DEF IInv, Lines
<1>9. Size = 2 * Len(log) + 1 /\ Size' = 2 * Len(log) + 2
  BY <1>2, <1>3, <1>5, SizeTyped, FS_EmptySet DEF Size
<1>10. Fresh'
  BY <1>2, <1>3, <1>4, <1>5, <1>9 DEF IInv, Fresh
<1>11. Passed'
  BY <1>2, <1>3, <1>5, <1>9 DEF IInv, Passed
<1> QED
  BY <1>1, <1>8, <1>10, <1>11 DEF IInv

LEMMA StepRespond ==
    ASSUME IInv, NEW c \in Calls, Respond(c)
    PROVE  IInv'
  BY FileKept, IndexKept, LabelsKept
  DEF Respond, MonitorUnchanged, pollVars, tailVars, storeVars, IInv

LEMMA StepRotate ==
    ASSUME Types, IInv, NEW inPlace \in BOOLEAN, Rotate(inPlace)
    PROVE  IInv'
<1> USE DEF MonitorUnchanged, pollVars, tailVars, storeVars
<1>1. /\ Index' /\ Labels'
  BY IndexKept, LabelsKept DEF Rotate, IInv
<1>2. DOMAIN log' = {} /\ ToSet(log') = {} /\ half' = {} /\ half = {}
  BY DEF Rotate, ToSet
<1>3. Lines'
  BY <1>2 DEF Rotate, IInv, Lines
<1>4. Fresh'
  BY <1>2 DEF Rotate, IInv, Fresh
<1>5. ~(tailInode' = inode' /\ ~hidden')
  <2>1. CASE inPlace
    BY <2>1 DEF Rotate
  <2>2. CASE ~inPlace
    <3>1. inode' = inode + 1 /\ tailInode' = tailInode
      BY <2>2 DEF Rotate
    <3>2. tailInode \in 0 .. inode /\ inode \in Nat
      BY AuditAssumption DEF Types, TypeOK
    <3> QED
      BY <3>1, <3>2
  <2> QED
    BY <2>1, <2>2
<1>6. Passed'
  BY <1>5 DEF Passed
<1> QED
  BY <1>1, <1>3, <1>4, <1>6 DEF IInv

(***************************************************************************)
(* The tailer and the index                                                *)
(***************************************************************************)

LEMMA RecordsOf ==
    ASSUME NEW rs, NEW d
    PROVE  /\ d \in CallsIn(rs) <=> \E x \in ToSet(rs) : x.call = d
           /\ d \in Held(rs) <=> \E x \in ToSet(rs) : x.call = d /\ ~x.used
  BY DEF CallsIn, Held, ToSet

LEMMA StepReadAudit ==
    ASSUME Types, IInv, ReadAudit
    PROVE  IInv'
<1> DEFINE new == ToSet(NewLines)
<1>1. /\ log \in Seq(Calls) /\ Len(log) \in Nat /\ DOMAIN log = 1 .. Len(log)
      /\ recs \in Seq(Records) /\ Len(recs) <= MaxRecords
      /\ offset \in Nat /\ Size \in Nat /\ inode # 0
  BY SizeTyped, AuditAssumption DEF Types, TypeOK
<1>2. PICK m \in Nat :
         /\ IF Stale THEN m = 0 ELSE offset = 2 * m \/ offset = 2 * m - 1
         /\ NewLines \in Seq(Calls)
         /\ \A i \in DOMAIN NewLines : m + i \in DOMAIN log /\ NewLines[i] = log[m + i]
         /\ \A j \in DOMAIN log : j > m => log[j] \in new
  BY NewLinesTyped DEF Types
<1>3. /\ offset' = Size /\ tailInode' = inode /\ delivered' = delivered \cup new
      /\ torn' = torn \cup half /\ hidden' = (hidden /\ ~Stale)
      /\ recs' = FoldLeft(Add, recs, NewLines)
      /\ evicted' = evicted \cup ((CallsIn(Unused(recs)) \cup new) \ CallsIn(recs'))
      /\ UNCHANGED <<toolOf, keyOf, log, half, inode, loggedAt, stored, label, taken,
                     crashes>>
  BY DEF ReadAudit, gooseVars, storeVars, boundVars
<1> HIDE DEF new
<1>4. new \subseteq ToSet(log)
  BY <1>2 DEF new, ToSet
<1>5. \A i, j \in DOMAIN NewLines : NewLines[i] = NewLines[j] => i = j
  <2> SUFFICES ASSUME NEW i \in DOMAIN NewLines, NEW j \in DOMAIN NewLines,
                      NewLines[i] = NewLines[j]
               PROVE  i = j
    OBVIOUS
  <2>1. m + i = m + j
    BY <1>2 DEF IInv, Lines
  <2>2. i \in Nat /\ j \in Nat
    BY <1>2
  <2> QED
    BY <1>2, <2>1, <2>2
<1>6. new \cap delivered = {}
  <2> SUFFICES ASSUME NEW i \in DOMAIN NewLines, NewLines[i] \in delivered
               PROVE  FALSE
    BY DEF new, ToSet
  <2>1. i \in Nat \ {0} /\ m + i \in DOMAIN log /\ log[m + i] \in delivered
    BY <1>2
  <2>2. tailInode = inode /\ 2 * (m + i) <= offset /\ offset <= Size
    BY <2>1 DEF IInv, Fresh
  <2>3. ~Stale
    BY <1>1, <2>2 DEF Stale
  <2>4. offset = 2 * m \/ offset = 2 * m - 1
    BY <1>2, <2>3
  <2> QED
    BY <1>2, <2>1, <2>2, <2>4
<1>7. \A i \in DOMAIN log : 2 * i <= Size /\ 2 * i # Size + 1
  BY <1>1, SizeTyped
<1>8. Size' = Size
  BY <1>3 DEF Size
<1>9. Lines'
  BY <1>3, <1>4 DEF IInv, Lines
<1>10. Fresh'
  BY <1>1, <1>3, <1>4, <1>7, <1>8 DEF IInv, Fresh, Lines
<1>11. Passed'
  <2>0. /\ offset' <= Size' /\ half' \subseteq torn' /\ log' = log
        /\ \A i \in DOMAIN log' : 2 * i # offset' + 1
    BY <1>1, <1>3, <1>7, <1>8
  <2> SUFFICES ASSUME ~hidden \/ Stale, NEW i \in DOMAIN log
               PROVE  log[i] \in delivered' \cup torn'
    <3>1. ~hidden' => ~hidden \/ Stale
      BY <1>3
    <3> QED
      BY <2>0, <3>1 DEF Passed
  <2>1. CASE i > m
    BY <1>2, <1>3, <2>1
  <2>2. CASE ~(i > m)
    <3>1. i \in Nat \ {0} /\ i <= m
      BY <1>1, <1>2, <2>2
    <3>2. ~Stale /\ ~hidden /\ (offset = 2 * m \/ offset = 2 * m - 1)
      BY <1>2, <2>2, <3>1
    <3>3. tailInode = inode
      <4>1. tailInode # 0
        BY <1>2, <3>1, <3>2 DEF IInv, Fresh
      <4> QED
        BY <3>2, <4>1 DEF Stale
    <3>4. 2 * i <= offset \/ 2 * i = offset + 1
      BY <1>2, <3>1, <3>2
    <3> QED
      BY <1>3, <3>2, <3>3, <3>4 DEF IInv, Passed
  <2> QED
    BY <2>1, <2>2
<1>12. CallsIn(recs) \cap new = {}
  BY <1>6 DEF IInv, Index
<1>13. /\ ToSet(recs') \subseteq
              ToSet(recs) \cup {NewRecord(NewLines[i]) : i \in DOMAIN NewLines}
       /\ Distinct(recs')
  <2>1. /\ Indexed(recs', recs, NewLines, Len(NewLines))
        /\ DOMAIN NewLines = 1 .. Len(NewLines)
    BY <1>1, <1>2, <1>3, LinesIndexed
  <2> QED
    BY <1>5, <1>12, <2>1 DEF Indexed, IInv, Index, new
<1>14. ASSUME NEW x \in ToSet(recs')
       PROVE  x \in ToSet(recs) \/ (x.call \in new /\ x.used = FALSE)
  BY <1>13 DEF NewRecord, new, ToSet
<1>15. ASSUME NEW d \in Held(recs) \cup new
       PROVE  d \in Held(recs') \cup evicted'
  <2>1. CASE d \notin CallsIn(recs')
    <3>1. d \in CallsIn(Unused(recs)) \cup new
      <4>1. ASSUME d \in Held(recs)
            PROVE  d \in CallsIn(Unused(recs))
        <5>1. PICK i \in 1 .. Len(recs) : recs[i].call = d /\ ~recs[i].used
          BY <1>1, <4>1 DEF Held
        <5>2. recs[i] \in ToSet(Unused(recs))
          BY <1>1, <5>1, UnusedKept DEF Kept
        <5> QED
          BY <5>1, <5>2, RecordsOf
      <4> QED
        BY <4>1
    <3> QED
      BY <1>3, <2>1, <3>1
  <2>2. CASE d \in CallsIn(recs')
    <3>1. PICK x \in ToSet(recs') : x.call = d
      BY <2>2, RecordsOf
    <3>2. CASE x \in ToSet(recs)
      <4>1. d \in CallsIn(recs) /\ d \notin new
        BY <1>12, <3>1, <3>2, RecordsOf
      <4>2. PICK y \in ToSet(recs) : y.call = d /\ ~y.used
        BY <4>1, RecordsOf
      <4>3. x = y
        BY <3>1, <3>2, <4>2 DEF ToSet, Distinct, IInv, Index
      <4> QED
        BY <3>1, <4>2, <4>3, RecordsOf
    <3>3. CASE x.used = FALSE
      BY <3>1, <3>3, RecordsOf
    <3> QED
      BY <1>14, <3>2, <3>3
  <2> QED
    BY <2>1, <2>2
<1>16. Index'
  <2>1. CallsIn(recs') \subseteq delivered'
    <3> SUFFICES ASSUME NEW d \in CallsIn(recs') PROVE d \in delivered'
      OBVIOUS
    <3>1. PICK x \in ToSet(recs') : x.call = d
      BY RecordsOf
    <3>2. d \in CallsIn(recs) \cup new
      BY <1>14, <3>1, RecordsOf
    <3> QED
      BY <1>3, <3>2 DEF IInv, Index
  <2>2. delivered' \subseteq Held(recs') \cup evicted' \cup taken' \cup stored'
    BY <1>3, <1>15 DEF IInv, Index
  <2> QED
    BY <1>13, <2>1, <2>2 DEF Index
<1>17. Labels'
  <2>1. LabelIsOwn'
    BY <1>3 DEF IInv, Labels, LabelIsOwn, Confusable
  <2>2. ASSUME crashes = 0, NEW c \in Calls, NEW d \in label[c]
        PROVE  d \in delivered' \ Held(recs')
    <3>1. d \in delivered /\ d \notin Held(recs)
      BY <2>2 DEF IInv, Labels
    <3>2. d \notin Held(recs')
      <4> SUFFICES ASSUME NEW x \in ToSet(recs'), x.call = d, ~x.used PROVE FALSE
        BY RecordsOf
      <4> QED
        BY <1>6, <1>14, <3>1, RecordsOf
    <3> QED
      BY <1>3, <3>1, <3>2
  <2>3. (crashes = 0 => OneCallPerLine)'
    BY <1>3 DEF IInv, Labels, OneCallPerLine
  <2> QED
    BY <1>3, <2>1, <2>2, <2>3 DEF IInv, Labels
<1> QED
  BY <1>9, <1>10, <1>11, <1>16, <1>17 DEF IInv

(***************************************************************************)
(* The calls' events                                                       *)
(***************************************************************************)

\* What agrees with a key in the log has that key, or one of them has none.
LEMMA KeysConfusable ==
    ASSUME Types, NEW c \in Calls, NEW d \in Calls,
           toolOf[d] = toolOf[c], KeysAgree(c, d)
    PROVE  Confusable(c, d)
  BY AuditAssumption DEF KeysAgree, LoggedKey, Confusable, Types, TypeOK

\* The record that a call's event is given, and what is left unused
LEMMA RowMatches ==
    ASSUME Types, IInv, phase = "rows", done < limit, recs' = Consume(Matches(Row))
    PROVE  /\ Row \in Calls
           /\ \A d, e \in Found : d = e
           /\ Found \subseteq Held(recs)
           /\ \A d \in Found : Confusable(Row, d)
           /\ CallsIn(recs') = CallsIn(recs) /\ Distinct(recs')
           /\ Held(recs') = Held(recs) \ Found
<1> DEFINE c == Row
           found == {recs[i].call : i \in Matches(c)}
<1>1. c \in Calls
  BY RowTyped
<1>2. /\ Matches(c) \subseteq DOMAIN recs
      /\ \A i, j \in Matches(c) : i = j
      /\ \A i \in DOMAIN recs : recs[i].call \in Calls
  BY <1>1, MatchIsOne, RecordTyped DEF Types
<1>3. recs' = Consume(Matches(c))
  OBVIOUS
<1> HIDE DEF c
<1>4. /\ DOMAIN recs' = DOMAIN recs
      /\ \A i \in DOMAIN recs : recs'[i].call = recs[i].call
      /\ \A i \in DOMAIN recs : recs'[i].used <=> recs[i].used \/ i \in Matches(c)
  BY <1>3, ConsumeTyped DEF Types
<1>5. \A i \in Matches(c) : ~recs[i].used /\ Confusable(c, recs[i].call)
  <2>1. \A i \in Matches(c) :
           ~recs[i].used /\ toolOf[recs[i].call] = toolOf[c] /\ KeysAgree(c, recs[i].call)
    BY DEF Matches, Candidates
  <2> QED
    BY <1>1, <1>2, <2>1, KeysConfusable
<1>6. CallsIn(recs') = CallsIn(recs) /\ Distinct(recs')
  <2>1. Distinct(recs')
    BY <1>4 DEF IInv, Index, Distinct
  <2> QED
    BY <1>4, <2>1 DEF CallsIn
<1>7. Held(recs') = Held(recs) \ found
  <2>1. ASSUME NEW d \in Held(recs')
        PROVE  d \in Held(recs) \ found
    <3>1. PICK i \in DOMAIN recs : recs[i].call = d /\ ~recs'[i].used
      BY <1>4 DEF Held
    <3>2. ~recs[i].used /\ i \notin Matches(c)
      BY <1>4, <3>1
    <3>3. d \notin found
      BY <1>2, <3>1, <3>2 DEF IInv, Index, Distinct
    <3> QED
      BY <3>1, <3>2, <3>3 DEF Held
  <2>2. ASSUME NEW d \in Held(recs) \ found
        PROVE  d \in Held(recs')
    <3>1. PICK i \in DOMAIN recs : recs[i].call = d /\ ~recs[i].used
      BY <2>2 DEF Held
    <3>2. ~recs'[i].used
      BY <1>4, <2>2, <3>1
    <3> QED
      BY <1>4, <3>1, <3>2 DEF Held
  <2> QED
    BY <2>1, <2>2
<1>8. found \subseteq Held(recs) /\ (\A d, e \in found : d = e)
  BY <1>2, <1>5 DEF Held
<1>9. \A d \in found : Confusable(c, d)
  BY <1>5
<1> QED
  BY <1>1, <1>6, <1>7, <1>8, <1>9 DEF c, Found

LEMMA StepProcessRow ==
    ASSUME Types, IInv, ProcessRow
    PROVE  IInv'
<1> DEFINE c == Row
           found == Found
<1>1. /\ c \in Calls
      /\ label' = [label EXCEPT ![c] = IF c \in stored THEN @ ELSE found]
      /\ stored' = stored \cup {c} /\ taken' = taken \cup (found \ {c})
      /\ \A d, e \in found : d = e
      /\ found \subseteq Held(recs)
      /\ \A d \in found : Confusable(c, d)
      /\ CallsIn(recs') = CallsIn(recs) /\ Distinct(recs')
      /\ Held(recs') = Held(recs) \ found
  BY RowMatches DEF ProcessRow
<1> HIDE DEF c, found
<1>2. UNCHANGED <<toolOf, keyOf, log, half, inode, loggedAt, offset, tailInode, delivered,
                  torn, evicted, hidden, crashes>>
  BY DEF ProcessRow, gooseVars, tailVars, boundVars
<1>3. Lines' /\ Fresh' /\ Passed'
  BY <1>2, FileKept DEF IInv
<1>4. Index'
  BY <1>1, <1>2 DEF IInv, Index
<1>5. label \in [Calls -> SUBSET Calls]
  BY DEF Types, TypeOK
<1>6. /\ \A a \in Calls \ {c} : label'[a] = label[a]
      /\ label'[c] = IF c \in stored THEN label[c] ELSE found
  BY <1>1, <1>5
<1>7. LabelIsOwn'
  <2>1. \A a, b \in Calls : Confusable(a, b)' <=> Confusable(a, b)
    BY <1>2 DEF Confusable
  <2>2. \A b \in found : Confusable(c, b)
    BY <1>1
  <2> QED
    BY <1>6, <2>1, <2>2 DEF IInv, Labels, LabelIsOwn
<1>8. ASSUME crashes = 0
      PROVE  /\ \A a \in Calls : label'[a] \subseteq delivered' \ Held(recs')
             /\ \A a \in Calls \ stored' : label'[a] = {}
             /\ \A a, b \in Calls : label'[a] \cap label'[b] # {} => a = b
  <2>1. /\ \A a \in Calls : label[a] \subseteq delivered \ Held(recs)
        /\ \A a \in Calls \ stored : label[a] = {}
        /\ \A a, b \in Calls : label[a] \cap label[b] # {} => a = b
    BY <1>8 DEF IInv, Labels, OneCallPerLine
  <2>2. found \subseteq delivered
    <3>1. Held(recs) \subseteq CallsIn(recs)
      BY RecordsOf
    <3> QED
      BY <1>1, <3>1 DEF IInv, Index
  <2>3. \A a \in Calls : label'[a] \subseteq delivered' \ Held(recs')
    BY <1>1, <1>2, <1>6, <2>1, <2>2
  <2>4. \A a \in Calls \ stored' : label'[a] = {}
    BY <1>1, <1>6, <2>1
  <2>5. \A a \in Calls : label[a] \cap found = {}
    BY <1>1, <2>1
  <2>6. \A a, b \in Calls : label'[a] \cap label'[b] # {} => a = b
    BY <1>6, <2>1, <2>5
  <2> QED
    BY <2>3, <2>4, <2>6
<1>9. Labels'
  BY <1>2, <1>7, <1>8 DEF Labels, OneCallPerLine
<1> QED
  BY <1>3, <1>4, <1>9 DEF IInv

LEMMA StepInsertFails ==
    ASSUME Types, IInv, InsertFails
    PROVE  IInv'
<1>1. /\ CallsIn(recs') = CallsIn(recs) /\ Distinct(recs')
      /\ Held(recs') = Held(recs) \ Found /\ taken' = taken \cup Found
  BY RowMatches DEF InsertFails
<1>2. UNCHANGED <<toolOf, keyOf, log, half, inode, loggedAt, offset, tailInode, delivered,
                  torn, evicted, hidden, crashes, stored, label>>
  BY DEF InsertFails, gooseVars, tailVars, storeVars
<1>3. Lines' /\ Fresh' /\ Passed'
  BY <1>2, FileKept DEF IInv
<1>4. Index'
  BY <1>1, <1>2 DEF IInv, Index
<1>5. LabelIsOwn' /\ (OneCallPerLine <=> OneCallPerLine')
  BY <1>2 DEF IInv, Labels, LabelIsOwn, Confusable, OneCallPerLine
<1>6. Labels'
  BY <1>1, <1>2, <1>5 DEF IInv, Labels
<1> QED
  BY <1>3, <1>4, <1>6 DEF IInv

(***************************************************************************)
(* The other steps                                                         *)
(***************************************************************************)

LEMMA StepPoll ==
    ASSUME IInv, ReadMessages \/ SkipRow \/ PollEnd \/ PollFails
    PROVE  IInv'
  BY FileKept, IndexKept, LabelsKept
  DEF ReadMessages, SkipRow, PollEnd, PollFails, gooseVars, tailVars, storeVars, boundVars,
      IInv

LEMMA StepCrash ==
    ASSUME Types, IInv, Crash
    PROVE  IInv'
<1>1. /\ offset' = 0 /\ tailInode' = 0 /\ recs' = <<>> /\ delivered' = {} /\ inode' = inode
      /\ UNCHANGED <<toolOf, keyOf, log, half, loggedAt, label>>
      /\ crashes' # 0 /\ inode # 0
  BY AuditAssumption DEF Crash, gooseVars, storeVars, Types, TypeOK
<1>2. Lines' /\ Fresh' /\ Passed'
  BY <1>1 DEF IInv, Lines, Fresh, Passed
<1>3. Index'
  BY <1>1 DEF Index, Distinct, CallsIn
<1>4. Labels'
  BY <1>1 DEF IInv, Labels, LabelIsOwn, Confusable
<1> QED
  BY <1>2, <1>3, <1>4 DEF IInv

LEMMA InvNext == Types /\ IInv /\ [Next]_vars => IInv'
<1> SUFFICES ASSUME Types, IInv, [Next]_vars PROVE IInv'
  OBVIOUS
<1>1. CASE UNCHANGED vars
  BY <1>1, FileKept, IndexKept, LabelsKept
  DEF vars, gooseVars, tailVars, storeVars, boundVars, IInv
<1> QED
  BY <1>1, StepWriteLine, StepFinishLine, StepRespond, StepRotate, StepReadAudit,
     StepProcessRow, StepInsertFails, StepPoll, StepCrash DEF Next

\* The inductive invariant holds in every state.
THEOREM Invariant == Spec => [](Types /\ IInv)
<1>1. Init => Types /\ IInv
  BY TypeInit, InvInit
<1>2. Types /\ IInv /\ [Next]_vars => (Types /\ IInv)'
  BY TypeNext, InvNext
<1> QED
  BY <1>1, <1>2, PTL DEF Spec

\* Until a restart no two events show the same line's decision (match).
THEOREM ALineServesOneCall == Spec => []OneCallPerLine
<1>1. IInv => OneCallPerLine
  BY DEF IInv, Labels, OneCallPerLine
<1> QED
  BY <1>1, Invariant, PTL

\* An event shows the decision of its own call, or of one that no tool and key
\* tell from it (match).
THEOREM DecisionsAreOwn == Spec => []LabelIsOwn
<1>1. IInv => LabelIsOwn
  BY DEF IInv, Labels
<1> QED
  BY <1>1, Invariant, PTL

\* The lines the tailer has passed are delivered, but for torn ones and those of
\* a file truncated unseen (read_new).
THEOREM PassedLinesAreDelivered == Spec => []PassedIsDelivered
<1>1. IInv => PassedIsDelivered
  BY DEF IInv, Passed, PassedIsDelivered
<1> QED
  BY <1>1, Invariant, PTL

\* A logged call whose event gets no tier: not delivered, dropped, given away,
\* redacted or out of the window (match, add).
THEOREM NoDecisionForAReason == Spec => MissedForAReason
<1> DEFINE Reason(c) ==
              \/ c \notin delivered \/ c \in evicted \/ c \in taken
              \/ keyOf[c] \in Secrets
              \/ Distance(loggedAt[c], requestedAt[c]) > Window
           A == \A c \in stored' \ stored : loggedAt[c] # 0 /\ label'[c] = {} => Reason(c)
<1>1. ASSUME Types, IInv, ProcessRow PROVE A
  <2> SUFFICES ASSUME NEW c \in stored' \ stored, label'[c] = {}, ~Reason(c)
               PROVE  FALSE
    OBVIOUS
  <2>1. c = Row /\ c \in Calls
    BY <1>1, RowMatches DEF ProcessRow
  <2>2. label'[c] = {recs[i].call : i \in Matches(c)}
    <3>1. label \in [Calls -> SUBSET Calls]
      BY <1>1 DEF Types, TypeOK
    <3> QED
      BY <1>1, <2>1, <3>1 DEF ProcessRow, Found
  <2>3. PICK i \in DOMAIN recs : recs[i].call = c /\ ~recs[i].used
    BY <1>1 DEF IInv, Index, Held
  <2>4. KeysAgree(c, c)
    BY DEF KeysAgree, LoggedKey
  <2>5. InWindow(c, c)
    <3>1. Distance(loggedAt[c], requestedAt[c]) \in Nat /\ Window \in Nat
      BY <1>1, <2>1, TimesTyped, AuditAssumption DEF Types
    <3> QED
      BY <3>1 DEF InWindow
  <2>6. i \in Candidates(c)
    BY <2>3, <2>4, <2>5 DEF Candidates
  <2>7. Matches(c) # {}
    BY <1>1, <2>1, <2>6, MatchExists DEF Types
  <2> QED
    BY <2>2, <2>7
<1>2. ASSUME [Next]_vars, ~ProcessRow PROVE stored' = stored
  BY <1>2 DEF Next, WriteLine, FinishLine, Respond, Rotate, MonitorUnchanged, ReadAudit,
     ReadMessages, SkipRow, InsertFails, PollEnd, PollFails, Crash, vars, storeVars
<1>3. Types /\ IInv /\ [Next]_vars => [A]_vars
  BY <1>1, <1>2
<1> QED
  BY <1>3, Invariant, PTL DEF Spec, MissedForAReason
=============================================================================
