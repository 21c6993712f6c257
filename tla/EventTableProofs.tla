-------------------------- MODULE EventTableProofs --------------------------
(***************************************************************************)
(* That the rows on the page, the filtered events and the counter between  *)
(* them stay in step, that the table is the selected session's and whole,  *)
(* and that it is newest first, for any events, filters, page sizes,       *)
(* caps and overtaking answers: sorted listings, type correctness, the     *)
(* inductive invariant and the steps.                                      *)
(***************************************************************************)
EXTENDS EventTable, FiniteSetTheorems, SequenceTheorems, WellFoundedInduction, TLAPS

(***************************************************************************)
(* Numbers and listings                                                    *)
(***************************************************************************)

\* A set of naturals that is not empty has a least element.
LEMMA LeastExists ==
    ASSUME NEW S \in SUBSET Nat, S # {}
    PROVE  \E e \in S : \A f \in S : e <= f
<1>1. PICK e \in S : \A f \in S : <<f, e>> \notin OpToRel(<, Nat)
  BY NatLessThanWellFounded, WFMin
<1>2. \A f \in S : ~(f < e)
  BY <1>1 DEF OpToRel
<1> QED
  BY <1>2

\* Max of some seqs
LEMMA MaxOfPart ==
    ASSUME NEW n \in Nat, NEW s \in SUBSET (0 .. n), s # {}
    PROVE  Max(s) \in s /\ \A e \in s : e <= Max(s)
<1> DEFINE Bounds == {b \in Nat : \A e \in s : e <= b}
<1>1. PICK b \in Bounds : \A a \in Bounds : b <= a
  <2>1. n \in Bounds
    OBVIOUS
  <2> QED
    BY <2>1, LeastExists
<1>2. b \in s
  <2>1. CASE b = 0
    <3>1. PICK e \in s : e \in 0 .. n
      OBVIOUS
    <3>2. e = 0
      BY <1>1, <2>1, <3>1
    <3> QED
      BY <2>1, <3>1, <3>2
  <2>2. CASE b # 0
    <3>1. b - 1 \in Nat /\ b - 1 \notin Bounds
      BY <1>1, <2>2
    <3>2. PICK e \in s : ~(e <= b - 1)
      BY <3>1
    <3> QED
      BY <1>1, <3>2
  <2> QED
    BY <2>1, <2>2
<1>3. \E x \in s : \A y \in s : x >= y
  BY <1>1, <1>2
<1> QED
  BY <1>3 DEF Max

LEMMA PartFinite ==
    ASSUME NEW n \in Nat, NEW R \in SUBSET (1 .. n)
    PROVE  IsFiniteSet(R) /\ Cardinality(R) \in Nat
<1>1. 1 \in Int /\ n \in Int
  OBVIOUS
<1>2. IsFiniteSet(1 .. n)
  BY <1>1, FS_Interval
<1>3. IsFiniteSet(R)
  BY <1>2, FS_Subset
<1> QED
  BY <1>3, FS_CardinalityType

\* Some seqs have a listing, newest first: if not, take the fewest that have
\* none; without the oldest of them they have one.
Descending(s) == \A i, j \in DOMAIN s : i < j => s[i] > s[j]

LEMMA ListingExists ==
    ASSUME NEW n \in Nat, NEW rows \in SUBSET (1 .. n)
    PROVE  \E s \in Listings(rows) : Descending(s)
<1> DEFINE Listed(R) == \E s \in Listings(R) : Descending(s)
           Bad == {Cardinality(R) : R \in {Q \in SUBSET (1 .. n) : ~Listed(Q)}}
<1>1. \A R \in SUBSET (1 .. n) : IsFiniteSet(R) /\ Cardinality(R) \in Nat
  BY PartFinite
<1> SUFFICES ASSUME Bad # {} PROVE FALSE
  OBVIOUS
<1> HIDE DEF Listed
<1>2. PICK k \in Bad : \A j \in Bad : k <= j
  BY <1>1, LeastExists
<1>3. PICK R \in SUBSET (1 .. n) : Cardinality(R) = k /\ ~Listed(R)
  BY <1>2
<1>4. k \in Nat /\ IsFiniteSet(R)
  BY <1>1, <1>3
<1>5. R # {}
  <2> SUFFICES ASSUME R = {} PROVE FALSE
    OBVIOUS
  <2>1. Cardinality(R) = 0
    BY FS_EmptySet
  <2>2. <<>> \in [1 .. Cardinality(R) -> R] /\ ToSet(<<>>) = R /\ Descending(<<>>)
    BY <2>1 DEF ToSet, Descending
  <2> QED
    BY <1>3, <2>2 DEF Listed, Listings
<1>6. PICK e \in R : \A f \in R : e <= f
  <2>1. R \in SUBSET Nat
    OBVIOUS
  <2> QED
    BY <1>5, <2>1, LeastExists
<1> DEFINE Q == R \ {e}
<1>7. Q \in SUBSET (1 .. n) /\ Cardinality(Q) = k - 1
  BY <1>3, <1>4, <1>6, FS_RemoveElement
<1>8. k - 1 \notin Bad
  BY <1>2, <1>4
<1>9. Listed(Q)
  BY <1>7, <1>8
<1>10. k \in Nat \ {0}
  <2>1. k - 1 \in Nat
    BY <1>1, <1>7
  <2> QED
    BY <1>4, <2>1
<1> HIDE DEF Bad
<1>11. PICK s \in [1 .. k - 1 -> Q] : ToSet(s) = Q /\ Descending(s)
  BY <1>7, <1>9 DEF Listed, Listings
<1> DEFINE t == [i \in 1 .. k |-> IF i = k THEN e ELSE s[i]]
<1>12. \A i \in 1 .. k : i # k => i \in 1 .. k - 1
  BY <1>10
<1>13. t \in [1 .. k -> R]
  BY <1>6, <1>11, <1>12
<1>14. ToSet(t) = R
  <2>1. ASSUME NEW f \in R PROVE f \in ToSet(t)
    <3>1. CASE f = e
      BY <1>10, <3>1 DEF ToSet
    <3>2. CASE f # e
      <4>1. PICK i \in 1 .. k - 1 : s[i] = f
        BY <1>11, <3>2 DEF ToSet
      <4>2. i \in 1 .. k /\ i # k
        BY <1>10
      <4> QED
        BY <4>1, <4>2 DEF ToSet
    <3> QED
      BY <3>1, <3>2
  <2>2. ToSet(t) \subseteq R
    BY <1>13 DEF ToSet
  <2> QED
    BY <2>1, <2>2
<1>15. Descending(t)
  <2> SUFFICES ASSUME NEW i \in 1 .. k, NEW j \in 1 .. k, i < j
               PROVE  t[i] > t[j]
    BY DEF Descending
  <2>1. i \in 1 .. k - 1 /\ t[i] = s[i] /\ s[i] \in Q
    BY <1>10, <1>11
  <2>2. CASE j = k
    <3>1. t[j] = e /\ e \in Nat
      BY <1>6, <2>2
    <3> HIDE DEF t
    <3>2. s[i] \in R /\ s[i] # e
      BY <2>1
    <3>3. e <= s[i] /\ s[i] \in 1 .. n
      BY <1>6, <3>2
    <3> QED
      BY <2>1, <3>1, <3>2, <3>3
  <2>3. CASE j # k
    <3>1. j \in 1 .. k - 1 /\ t[j] = s[j]
      BY <1>12, <2>3
    <3> QED
      BY <1>11, <2>1, <3>1 DEF Descending
  <2> QED
    BY <2>2, <2>3
<1> HIDE DEF t
<1>16. Listed(R)
  BY <1>3, <1>13, <1>14, <1>15 DEF Listed, Listings
<1> QED
  BY <1>3, <1>16

LEMMA SortedTyped ==
    ASSUME NEW n \in Nat, NEW rows \in SUBSET (1 .. n)
    PROVE  /\ Sorted(rows) \in Seq(1 .. n)
           /\ ToSet(Sorted(rows)) = rows /\ Descending(Sorted(rows))
<1>1. Sorted(rows) \in Listings(rows) /\ Descending(Sorted(rows))
  BY ListingExists DEF Sorted, Descending
<1>2. Cardinality(rows) \in Nat
  BY PartFinite
<1>3. Sorted(rows) \in [1 .. Cardinality(rows) -> 1 .. n]
  BY <1>1 DEF Listings
<1>4. Sorted(rows) \in Seq(1 .. n)
  BY <1>2, <1>3
<1> QED
  BY <1>1, <1>4 DEF Listings

(***************************************************************************)
(* The rows                                                                *)
(***************************************************************************)

ViewShape == [session : Sessions \cup {NoSession}, filtered : Seq(1 .. last), shown : Nat]

\* The rows on the page are the first of the filtered events.
RowsOK ==
    /\ view \in ViewShape /\ view.shown <= Len(view.filtered)
    /\ DomMatchesView

Types == TypeOK /\ RowsOK

LEMMA Bounds ==
    ASSUME TypeOK
    PROVE  /\ last \in Nat /\ maxSeq \in Nat /\ maxSeq <= last
           /\ PageSize \in Nat \ {0} /\ MaxRows \in Nat \ {0} /\ HistoryLimit \in Nat \ {0}
           /\ Len(Event) \in Nat /\ last <= Len(Event)
           /\ \A e \in 1 .. Len(Event) : Event[e].session \in Sessions
<1>1. Event \in Seq([session : Sessions, kind : Kinds])
  BY TableAssumption
<1>2. last \in 0 .. Len(Event) /\ Len(Event) \in Nat
  BY <1>1 DEF TypeOK
<1>3. last \in Nat /\ last <= Len(Event)
  BY <1>2
<1>4. maxSeq \in Nat /\ maxSeq <= last
  BY <1>3 DEF TypeOK
<1>5. \A e \in 1 .. Len(Event) : Event[e].session \in Sessions
  <2>1. \A e \in 1 .. Len(Event) : Event[e] \in [session : Sessions, kind : Kinds]
    BY <1>1, ElementOfSeq
  <2> QED
    BY <2>1
<1>6. PageSize \in Nat \ {0} /\ MaxRows \in Nat \ {0} /\ HistoryLimit \in Nat \ {0}
  BY TableAssumption
<1> QED
  BY <1>2, <1>3, <1>4, <1>5, <1>6

\* The first events of a listing
LEMMA FirstRows ==
    ASSUME NEW n \in Nat, NEW s \in Seq(1 .. n), NEW k \in 0 .. Len(s)
    PROVE  /\ SubSeq(s, 1, k) \in Seq(1 .. n) /\ Len(SubSeq(s, 1, k)) = k
           /\ \A i \in 1 .. k : SubSeq(s, 1, k)[i] = s[i]
<1>1. Len(s) \in Nat /\ k \in Nat /\ k <= Len(s)
  OBVIOUS
<1>2. \A i \in 1 .. k : i \in 1 .. Len(s)
  BY <1>1
<1>3. \A i \in 1 .. k : s[i] \in 1 .. n
  BY <1>2, ElementOfSeq
<1> DEFINE t == SubSeq(s, 1, k)
<1>4. /\ t \in Seq(1 .. n) /\ Len(t) = IF 1 <= k THEN k - 1 + 1 ELSE 0
      /\ \A i \in 1 .. k - 1 + 1 : t[i] = s[1 + i - 1]
  BY <1>1, <1>3, SubSeqProperties
<1> HIDE DEF t
<1>5. Len(t) = k
  BY <1>1, <1>4
<1>6. \A i \in 1 .. k : t[i] = s[i]
  BY <1>1, <1>4
<1> QED
  BY <1>4, <1>5, <1>6 DEF t

\* renderEvents
LEMMA Rendered ==
    ASSUME Types, last' = last, NEW s \in Sessions,
           NEW buf \in [Sessions -> SUBSET (1 .. last)], NEW q, NEW c,
           Render(s, buf, q, c)
    PROVE  /\ RowsOK'
           /\ s # selected => UNCHANGED rowVars
           /\ s = selected =>
                 /\ view'.session = s
                 /\ ToSet(view'.filtered) = Passing(buf[s], q, c)
                 /\ Descending(view'.filtered)
<1>1. CASE s # selected
  <2>1. UNCHANGED rowVars
    BY <1>1 DEF Render
  <2> QED
    BY <1>1, <2>1 DEF rowVars, Types, RowsOK, ViewShape, DomMatchesView
<1>2. CASE s = selected
  <2> DEFINE filtered == Sorted(Passing(buf[s], q, c))
             shown == Smaller(PageSize, Len(filtered))
  <2>1. /\ view' = [session |-> s, filtered |-> filtered, shown |-> shown]
        /\ dom' = SubSeq(filtered, 1, view'.shown)
    BY <1>2 DEF Render
  <2>2. Passing(buf[s], q, c) \in SUBSET (1 .. last)
    BY DEF Passing
  <2>3. /\ filtered \in Seq(1 .. last) /\ ToSet(filtered) = Passing(buf[s], q, c)
        /\ Descending(filtered)
    BY <2>2, Bounds, SortedTyped DEF Types
  <2> HIDE DEF filtered
  <2>4. Len(filtered) \in Nat /\ shown \in Nat /\ shown <= Len(filtered)
    BY <2>3, Bounds DEF Types, Smaller
  <2> HIDE DEF shown
  <2>5. view' \in ViewShape'
    BY <2>1, <2>3, <2>4 DEF ViewShape
  <2> QED
    BY <1>2, <2>1, <2>3, <2>4, <2>5 DEF RowsOK, DomMatchesView
<1> QED
  BY <1>1, <1>2

\* loadMoreRows: the next rows go under the ones there are.
LEMMA MoreRows ==
    ASSUME NEW n \in Nat, NEW s \in Seq(1 .. n),
           NEW k \in 0 .. Len(s), NEW m \in k .. Len(s)
    PROVE  SubSeq(s, 1, k) \o SubSeq(s, k + 1, m) = SubSeq(s, 1, m)
<1> DEFINE a == SubSeq(s, 1, k)
           b == SubSeq(s, k + 1, m)
           c == SubSeq(s, 1, m)
<1>1. k \in Nat /\ m \in Nat /\ k <= m /\ m <= Len(s) /\ m \in 0 .. Len(s)
  OBVIOUS
<1>2. a \in Seq(1 .. n) /\ Len(a) = k /\ \A i \in 1 .. k : a[i] = s[i]
  BY FirstRows
<1>3. c \in Seq(1 .. n) /\ Len(c) = m /\ \A i \in 1 .. m : c[i] = s[i]
  BY <1>1, FirstRows
<1>4. b \in Seq(1 .. n) /\ Len(b) = m - k /\ \A i \in 1 .. m - k : b[i] = s[k + i]
  <2>1. \A i \in k + 1 .. m : s[i] \in 1 .. n
    BY <1>1
  <2>2. k + 1 \in Int /\ m \in Int /\ (k + 1 <= m \/ m = k)
    BY <1>1
  <2>3. /\ b \in Seq(1 .. n) /\ Len(b) = IF k + 1 <= m THEN m - (k + 1) + 1 ELSE 0
        /\ \A i \in 1 .. m - (k + 1) + 1 : b[i] = s[(k + 1) + i - 1]
    BY <2>1, <2>2, SubSeqProperties, SMTT(30)
  <2> HIDE DEF b
  <2>4. Len(b) = m - k
    BY <1>1, <2>2, <2>3
  <2>5. ASSUME NEW i \in 1 .. m - k PROVE b[i] = s[k + i]
    <3>1. i \in 1 .. m - (k + 1) + 1 /\ (k + 1) + i - 1 = k + i
      BY <1>1
    <3>2. b[i] = s[(k + 1) + i - 1]
      BY <2>3, <3>1
    <3> QED
      BY <3>1, <3>2
  <2> QED
    BY <2>3, <2>4, <2>5
<1> HIDE DEF a, b, c
<1>5. /\ a \o b \in Seq(1 .. n) /\ Len(a \o b) = m
      /\ \A i \in 1 .. m : (a \o b)[i] = IF i <= k THEN a[i] ELSE b[i - k]
  <2>1. /\ a \o b \in Seq(1 .. n) /\ Len(a \o b) = Len(a) + Len(b)
        /\ \A i \in 1 .. Len(a) + Len(b) :
              (a \o b)[i] = IF i <= Len(a) THEN a[i] ELSE b[i - Len(a)]
    BY <1>2, <1>4, ConcatProperties
  <2>2. Len(a) = k /\ Len(a) + Len(b) = m
    BY <1>1, <1>2, <1>4
  <2> QED
    BY <2>1, <2>2
<1>6. \A i \in 1 .. m : (a \o b)[i] = c[i]
  <2> SUFFICES ASSUME NEW i \in 1 .. m PROVE (a \o b)[i] = c[i]
    OBVIOUS
  <2>1. CASE i <= k
    <3>1. i \in 1 .. k
      BY <1>1, <2>1
    <3>2. (a \o b)[i] = a[i]
      BY <1>5, <2>1
    <3> QED
      BY <1>2, <1>3, <3>1, <3>2
  <2>2. CASE ~(i <= k)
    <3>1. i - k \in 1 .. m - k /\ k + (i - k) = i
      BY <1>1, <2>2
    <3> QED
      BY <1>3, <1>4, <1>5, <2>2, <3>1
  <2> QED
    BY <2>1, <2>2
<1>7. a \o b = c
  BY <1>3, <1>5, <1>6, SeqEqual
<1> QED
  BY <1>7 DEF a, b, c

\* An event on top of some rows
LEMMA OnTop ==
    ASSUME NEW n \in Nat, NEW e \in 1 .. n, NEW s \in Seq(1 .. n)
    PROVE  /\ <<e>> \o s \in Seq(1 .. n) /\ Len(<<e>> \o s) = Len(s) + 1
           /\ (<<e>> \o s)[1] = e
           /\ \A i \in 1 .. Len(s) : (<<e>> \o s)[i + 1] = s[i]
           /\ ToSet(<<e>> \o s) = ToSet(s) \cup {e}
<1>1. <<e>> \in Seq(1 .. n) /\ Len(<<e>>) = 1 /\ <<e>>[1] = e /\ Len(s) \in Nat
  OBVIOUS
<1> DEFINE t == <<e>> \o s
<1>2. /\ t \in Seq(1 .. n) /\ Len(t) = 1 + Len(s)
      /\ \A i \in 1 .. 1 + Len(s) : t[i] = IF i <= 1 THEN <<e>>[i] ELSE s[i - 1]
  BY <1>1, ConcatProperties
<1> HIDE DEF t
<1>3. t[1] = e /\ \A i \in 1 .. Len(s) : t[i + 1] = s[i]
  BY <1>1, <1>2
<1>4. /\ DOMAIN t = 1 .. Len(s) + 1 /\ DOMAIN s = 1 .. Len(s)
      /\ \A i \in DOMAIN t : i = 1 \/ (i - 1 \in DOMAIN s /\ t[i] = s[i - 1])
      /\ \A i \in DOMAIN s : i + 1 \in DOMAIN t
      /\ 1 \in DOMAIN t
  <2>1. DOMAIN t = 1 .. Len(s) + 1 /\ DOMAIN s = 1 .. Len(s)
    BY <1>1, <1>2
  <2>2. ASSUME NEW i \in 1 .. Len(s) + 1, i # 1
        PROVE  i - 1 \in 1 .. Len(s) /\ t[i] = s[i - 1]
    <3>1. i - 1 \in 1 .. Len(s) /\ i - 1 + 1 = i
      BY <1>1, <2>2
    <3>2. t[i - 1 + 1] = s[i - 1]
      BY <1>3, <3>1
    <3> QED
      BY <3>1, <3>2
  <2>3. (\A i \in 1 .. Len(s) : i + 1 \in 1 .. Len(s) + 1) /\ 1 \in 1 .. Len(s) + 1
    BY <1>1
  <2> QED
    BY <2>1, <2>2, <2>3
<1>5. ToSet(t) = ToSet(s) \cup {e}
  <2>1. \A x \in ToSet(t) : x \in ToSet(s) \cup {e}
    BY <1>3, <1>4 DEF ToSet
  <2>2. \A x \in ToSet(s) : x \in ToSet(t)
    <3> SUFFICES ASSUME NEW i \in DOMAIN s PROVE s[i] \in ToSet(t)
      BY DEF ToSet
    <3>1. i + 1 \in DOMAIN t /\ t[i + 1] = s[i]
      BY <1>3, <1>4
    <3> QED
      BY <3>1 DEF ToSet
  <2>3. e \in ToSet(t)
    BY <1>3, <1>4 DEF ToSet
  <2> QED
    BY <2>1, <2>2, <2>3
<1> QED
  BY <1>1, <1>2, <1>3, <1>5 DEF t

LEMMA TrimView ==
    ASSUME view \in ViewShape, NEW filtered, NEW shown, NEW rows,
           Trim(filtered, shown, rows)
    PROVE  /\ dom' = SubSeq(rows, 1, Smaller(Len(rows), MaxRows))
           /\ view' = [session |-> view.session, filtered |-> filtered,
                       shown |-> shown - (Len(rows) - Len(dom'))]
  BY DEF Trim, ViewShape

\* onLiveEvent: what the cap leaves of the rows is the first of the filtered
\* events still.
LEMMA Trimmed ==
    ASSUME Types, last' = last, NEW e \in 1 .. last,
           Trim(<<e>> \o view.filtered, view.shown + 1, <<e>> \o dom)
    PROVE  /\ RowsOK' /\ view'.session = view.session
           /\ view'.filtered = <<e>> \o view.filtered
<1> DEFINE f == view.filtered
           g == <<e>> \o f
           d == <<e>> \o dom
           k == Smaller(Len(d), MaxRows)
           left == view.shown + 1 - (Len(d) - Len(dom'))
<1>1. /\ view \in ViewShape /\ f \in Seq(1 .. last) /\ Len(f) \in Nat /\ view.shown \in Nat
      /\ view.shown <= Len(f) /\ dom = SubSeq(f, 1, view.shown)
  BY DEF Types, TypeOK, RowsOK, DomMatchesView, ViewShape
<1>2. /\ dom \in Seq(1 .. last) /\ Len(dom) = view.shown
      /\ \A i \in 1 .. view.shown : dom[i] = f[i]
  <2>1. last \in Nat
    BY Bounds DEF Types
  <2>2. f \in Seq(1 .. last) /\ view.shown \in 0 .. Len(f)
    BY <1>1
  <2> HIDE DEF f
  <2> QED
    BY <1>1, <2>1, <2>2, FirstRows
<1>3. /\ g \in Seq(1 .. last) /\ Len(g) = Len(f) + 1 /\ g[1] = e
      /\ \A i \in 1 .. Len(f) : g[i + 1] = f[i]
  BY <1>1, Bounds, OnTop DEF Types
<1>4. /\ d \in Seq(1 .. last) /\ Len(d) = view.shown + 1 /\ d[1] = e
      /\ \A i \in 1 .. view.shown : d[i + 1] = dom[i]
  <2>1. last \in Nat
    BY Bounds DEF Types
  <2> QED
    BY <1>2, <2>1, OnTop
<1> HIDE DEF k
<1>5. /\ dom' = SubSeq(d, 1, k)
      /\ view' = [session |-> view.session, filtered |-> g, shown |-> left]
  <2> HIDE DEF f, g, d, left
  <2>1. Trim(g, view.shown + 1, d)
    BY DEF f, g, d
  <2>2. /\ dom' = SubSeq(d, 1, Smaller(Len(d), MaxRows))
        /\ view' = [session |-> view.session, filtered |-> g,
                    shown |-> view.shown + 1 - (Len(d) - Len(dom'))]
    BY <1>1, <2>1, TrimView
  <2> QED
    BY <2>2 DEF k, left
<1> HIDE DEF f, g, d, left
<1>6. k \in 0 .. Len(d) /\ k \in 0 .. Len(g) /\ k \in Nat
  <2>1. Len(d) \in Nat /\ Len(d) <= Len(g) /\ Len(g) \in Nat
    BY <1>1, <1>3, <1>4
  <2>2. MaxRows \in Nat /\ (k = Len(d) \/ (k = MaxRows /\ MaxRows <= Len(d)))
    BY <2>1, Bounds DEF Types, Smaller, k
  <2> QED
    BY <2>1, <2>2
<1>7. dom' \in Seq(1 .. last) /\ Len(dom') = k /\ \A i \in 1 .. k : dom'[i] = d[i]
  <2>1. last \in Nat
    BY Bounds DEF Types
  <2> QED
    BY <1>4, <1>5, <1>6, <2>1, FirstRows
<1>8. left = k
  BY <1>1, <1>4, <1>6, <1>7 DEF left
<1>9. /\ view' = [session |-> view.session, filtered |-> g, shown |-> k]
      /\ view'.session = view.session /\ view'.filtered = g /\ view'.shown = k
  BY <1>5, <1>8
<1>10. view' \in ViewShape'
  BY <1>1, <1>3, <1>6, <1>9 DEF ViewShape
<1>11. /\ SubSeq(g, 1, k) \in Seq(1 .. last) /\ Len(SubSeq(g, 1, k)) = k
       /\ \A i \in 1 .. k : SubSeq(g, 1, k)[i] = g[i]
  BY <1>3, <1>6, Bounds, FirstRows DEF Types
<1>12. ASSUME NEW i \in 1 .. k PROVE d[i] = g[i]
  <2>1. CASE i = 1
    BY <1>3, <1>4, <2>1
  <2>2. CASE i # 1
    <3>1. k <= view.shown + 1 /\ i \in Nat /\ 1 <= i /\ i <= k
      BY <1>4, <1>6
    <3>2. i - 1 \in 1 .. view.shown /\ i - 1 \in 1 .. Len(f) /\ i - 1 + 1 = i
      BY <1>1, <1>6, <2>2, <3>1
    <3>3. d[i - 1 + 1] = dom[i - 1] /\ dom[i - 1] = f[i - 1] /\ g[i - 1 + 1] = f[i - 1]
      BY <1>2, <1>3, <1>4, <3>2
    <3> QED
      BY <3>2, <3>3
  <2> QED
    BY <2>1, <2>2
<1>13. dom' = SubSeq(g, 1, k)
  BY <1>7, <1>11, <1>12, SeqEqual
<1>14. k <= Len(g)
  BY <1>3, <1>6
<1> QED
  BY <1>9, <1>10, <1>13, <1>14 DEF RowsOK, DomMatchesView, f, g

(***************************************************************************)
(* The inductive invariant                                                 *)
(***************************************************************************)

\* The feed brings what it brings in order, and past what it has brought, but
\* for what comes out of turn.
Ordered(e, f) == e < f \/ {e, f} \cap OutOfTurn # {}
Feed ==
    /\ \A i, j \in DOMAIN wire : i < j => Ordered(wire[i], wire[j])
    /\ \A s \in Sessions : \A e \in buffer[s] :
          e <= maxSeq /\ \A i \in DOMAIN wire : Ordered(e, wire[i])

\* The table shows what is buffered.
Buffered == ToSet(view.filtered) \subseteq UNION {buffer[s] : s \in Sessions}

IInv == Feed /\ Buffered /\ TableComplete /\ NewestFirst

\* The rows are all of those selected; the selection is still loading.
Whole ==
    /\ view.session = selected
    /\ ToSet(view.filtered) = Passing(buffer[selected], quick, column)
Loading == \E r \in requests : r.select /\ r.session = selected

LEMMA SeqGrows ==
    ASSUME NEW m \in Nat, NEW n \in Nat, m <= n, NEW s \in Seq(1 .. m)
    PROVE  s \in Seq(1 .. n)
<1>1. 1 .. m \subseteq 1 .. n
  OBVIOUS
<1> QED
  BY <1>1

\* What RowsOK says of the parts of view
LEMMA RowsParts ==
    ASSUME NEW n \in Nat,
           NEW v \in [session : Sessions \cup {NoSession},
                      filtered : Seq(1 .. n), shown : Nat],
           v.shown <= Len(v.filtered)
    PROVE  /\ v.session \in Sessions \cup {NoSession}
           /\ v.filtered \in Seq(1 .. n) /\ v.shown \in 0 .. Len(v.filtered)
           /\ SubSeq(v.filtered, 1, v.shown) \in Seq(1 .. n)
<1>1. v.filtered \in Seq(1 .. n) /\ v.shown \in Nat
  OBVIOUS
<1>2. v.shown \in 0 .. Len(v.filtered)
  BY <1>1
<1> QED
  BY <1>1, <1>2, FirstRows

\* The state of the page but for its rows
PageOK ==
    /\ last \in 0 .. Len(Event)
    /\ conn \in BOOLEAN /\ wire \in Seq(1 .. last) /\ covered \in 0 .. last
    /\ maxSeq \in 0 .. last
    /\ buffer \in [Sessions -> SUBSET (1 .. last)]
    /\ selected \in Sessions \cup {NoSession}
    /\ quick \in QuickFilters /\ column \in ColumnFilters
    /\ requests \in SUBSET [select : BOOLEAN, session : Sessions,
                            column : ColumnFilters, from : 0 .. last]
    /\ early \in SUBSET (1 .. last) /\ again \in SUBSET (1 .. last)
    /\ failures \in 0 .. MaxFailures

LEMMA TypesOfParts == PageOK /\ RowsOK <=> Types
<1>1. ASSUME PageOK, RowsOK PROVE Types
  <2>1. last \in Nat
    <3>1. Len(Event) \in Nat
      BY TableAssumption
    <3> QED
      BY <1>1, <3>1 DEF PageOK
  <2>2. /\ view.session \in Sessions \cup {NoSession}
        /\ view.filtered \in Seq(1 .. last) /\ view.shown \in 0 .. Len(view.filtered)
        /\ SubSeq(view.filtered, 1, view.shown) \in Seq(1 .. last)
    BY <1>1, <2>1, RowsParts DEF RowsOK, ViewShape
  <2> QED
    BY <1>1, <2>2 DEF PageOK, RowsOK, DomMatchesView, Types, TypeOK
<1>2. ASSUME Types PROVE PageOK /\ RowsOK
  BY <1>2 DEF Types, TypeOK, PageOK
<1> QED
  BY <1>1, <1>2

LEMMA PageNext == PageOK' /\ RowsOK' => Types'
  BY TypesOfParts, PTL

\* The rows stay as they are.
LEMMA RowsKept ==
    ASSUME Types, Buffered, NewestFirst, UNCHANGED rowVars,
           last' \in Nat, last <= last', OutOfTurn \subseteq OutOfTurn',
           \A s \in Sessions : buffer[s] \subseteq buffer'[s]
    PROVE  RowsOK' /\ Buffered' /\ NewestFirst'
<1>1. view' = view /\ dom' = dom
  BY DEF rowVars
<1>2. view \in ViewShape /\ view.filtered \in Seq(1 .. last) /\ last \in Nat
  BY Bounds DEF Types, RowsOK, ViewShape
<1>3. view.filtered \in Seq(1 .. last')
  BY <1>2, SeqGrows
<1>4. view = [session |-> view.session, filtered |-> view.filtered, shown |-> view.shown]
      /\ view.session \in Sessions \cup {NoSession} /\ view.shown \in Nat
  BY <1>2 DEF ViewShape
<1>5. view' \in ViewShape'
  BY <1>1, <1>3, <1>4 DEF ViewShape
<1>6. RowsOK'
  BY <1>1, <1>5 DEF Types, RowsOK, DomMatchesView
<1>7. Buffered'
  BY <1>1 DEF Buffered
<1>8. NewestFirst'
  BY <1>1 DEF NewestFirst
<1> QED
  BY <1>6, <1>7, <1>8

\* They are rendered anew, if their session is the selected one.
LEMMA RowsRendered ==
    ASSUME Types, Buffered, NewestFirst, last' = last, selected' = selected,
           OutOfTurn \subseteq OutOfTurn', buffer' \in [Sessions -> SUBSET (1 .. last)],
           \A t \in Sessions : buffer[t] \subseteq buffer'[t],
           NEW s \in Sessions, Render(s, buffer', quick', column')
    PROVE  /\ RowsOK' /\ Buffered' /\ NewestFirst'
           /\ s = selected => Whole'
           /\ s # selected => UNCHANGED rowVars
<1>1. /\ RowsOK'
      /\ s # selected => UNCHANGED rowVars
      /\ s = selected =>
            /\ view'.session = s
            /\ ToSet(view'.filtered) = Passing(buffer'[s], quick', column')
            /\ Descending(view'.filtered)
  BY Rendered
<1>2. CASE s # selected
  <2>1. last' \in Nat /\ last <= last'
    BY Bounds DEF Types
  <2> QED
    BY <1>1, <1>2, <2>1, RowsKept DEF OutOfTurn
<1>3. CASE s = selected
  <2>1. Whole'
    BY <1>1, <1>3 DEF Whole, Passing
  <2>2. Buffered'
    BY <1>1, <1>3 DEF Buffered, Passing
  <2>3. NewestFirst'
    <3> DEFINE f == view'.filtered
    <3>1. /\ Descending(f)
          /\ \A j \in DOMAIN f : j \in Nat /\ \A i \in 1 .. j - 1 : i \in DOMAIN f
      <4>1. f \in Seq(1 .. last)
        BY <1>1 DEF RowsOK, ViewShape
      <4> QED
        BY <1>1, <1>3, <4>1
    <3> HIDE DEF f
    <3>2. \A j \in DOMAIN f : \A i \in 1 .. j - 1 : f[i] > f[j]
      BY <3>1 DEF Descending
    <3> QED
      BY <3>2 DEF NewestFirst, f
  <2> QED
    BY <1>1, <1>3, <2>1, <2>2, <2>3
<1> QED
  BY <1>2, <1>3

(***************************************************************************)
(* The steps of the store and the connection                               *)
(***************************************************************************)

RequestSet(n) ==
    [select : BOOLEAN, session : Sessions, column : ColumnFilters, from : 0 .. n]

LEMMA FunctionIsSeq ==
    ASSUME NEW n \in Nat, NEW T, NEW f \in [1 .. n -> T]
    PROVE  f \in Seq(T)
  OBVIOUS

\* A sequence with one more element
LEMMA Appended ==
    ASSUME NEW T, NEW s \in Seq(T), NEW e \in T
    PROVE  /\ Append(s, e) \in Seq(T) /\ Len(s) \in Nat
           /\ DOMAIN s = 1 .. Len(s) /\ DOMAIN Append(s, e) = 1 .. Len(s) + 1
           /\ \A i \in 1 .. Len(s) : Append(s, e)[i] = s[i] /\ s[i] \in T
           /\ Append(s, e)[Len(s) + 1] = e
  OBVIOUS

LEMMA RequestsGrow ==
    ASSUME NEW m \in Nat, NEW n \in Nat, m <= n
    PROVE  RequestSet(m) \subseteq RequestSet(n)
<1>1. 0 .. m \subseteq 0 .. n
  OBVIOUS
<1> QED
  BY <1>1 DEF RequestSet

\* A step that leaves the selection, the filters, the rows, the buffer and the
\* requests as they are
LEMMA TableKept ==
    ASSUME TableComplete, UNCHANGED <<filterVars, rowVars, buffer, requests>>
    PROVE  TableComplete'
  BY DEF TableComplete, filterVars, rowVars, Passing

LEMMA FeedKept ==
    ASSUME Feed, UNCHANGED <<wire, buffer, maxSeq, early, again>>
    PROVE  Feed'
  BY DEF Feed, Ordered, OutOfTurn

\* A message is added that may follow any event there is.
LEMMA FeedAppended ==
    ASSUME Feed, NEW n \in Nat, wire \in Seq(1 .. n),
           buffer \in [Sessions -> SUBSET (1 .. n)], NEW e \in Nat,
           wire' = Append(wire, e), UNCHANGED <<buffer, maxSeq>>,
           OutOfTurn \subseteq OutOfTurn',
           \A f \in 1 .. n : f < e \/ {f, e} \cap OutOfTurn' # {}
    PROVE  Feed'
<1>1. /\ DOMAIN wire' = 1 .. Len(wire) + 1 /\ DOMAIN wire = 1 .. Len(wire)
      /\ Len(wire) \in Nat
      /\ \A i \in DOMAIN wire : wire'[i] = wire[i] /\ wire[i] \in 1 .. n
      /\ wire'[Len(wire) + 1] = e
  <2>1. \A i \in 1 .. Len(wire) : wire[i] \in 1 .. n
    BY ElementOfSeq
  <2>2. wire \in Seq(Nat)
    <3>1. 1 .. n \subseteq Nat
      OBVIOUS
    <3> QED
      BY <3>1
  <2> QED
    BY <2>1, <2>2, Appended
<1>2. \A f \in Nat, g \in Nat : Ordered(f, g) => Ordered(f, g)'
  BY DEF Ordered
<1>3. ASSUME NEW i \in DOMAIN wire', NEW j \in DOMAIN wire', i < j
      PROVE  Ordered(wire[i], wire[j])'
  <2>1. i \in DOMAIN wire /\ wire'[i] = wire[i] /\ wire[i] \in 1 .. n
    BY <1>1, <1>3
  <2>2. CASE j \in DOMAIN wire
    <3>1. Ordered(wire[i], wire[j]) /\ wire'[j] = wire[j]
      BY <1>1, <1>3, <2>1, <2>2 DEF Feed
    <3> QED
      BY <2>1, <3>1 DEF Ordered
  <2>3. CASE j = Len(wire) + 1
    BY <1>1, <2>1, <2>3 DEF Ordered
  <2> QED
    BY <1>1, <2>2, <2>3
<1>4. ASSUME NEW s \in Sessions, NEW f \in buffer[s], NEW i \in DOMAIN wire'
      PROVE  Ordered(f, wire[i])'
  <2>1. f \in 1 .. n
    OBVIOUS
  <2>2. CASE i \in DOMAIN wire
    <3>1. Ordered(f, wire[i]) /\ wire'[i] = wire[i]
      BY <1>1, <1>4, <2>2 DEF Feed
    <3> QED
      BY <3>1 DEF Ordered
  <2>3. CASE i = Len(wire) + 1
    BY <1>1, <2>1, <2>3 DEF Ordered
  <2> QED
    BY <1>1, <2>2, <2>3
<1> QED
  BY <1>3, <1>4 DEF Feed, Ordered

LEMMA StepInsert ==
    ASSUME Types, IInv, Insert
    PROVE  Types' /\ IInv'
<1>1. /\ last \in Nat /\ Len(Event) \in Nat /\ last < Len(Event) /\ last' = last + 1
      /\ maxSeq \in 0 .. last
  BY Bounds DEF Insert, Types, TypeOK
<1>2. /\ UNCHANGED <<conn, covered, maxSeq, buffer, filterVars, rowVars, requests,
                     early, again>>
      /\ wire' = wire \/ wire' = Append(wire, last + 1)
      /\ failures' = failures \/ (failures < MaxFailures /\ failures' = failures + 1)
  BY DEF Insert, Fail, hist
<1>3. /\ wire \in Seq(1 .. last) /\ wire \in Seq(1 .. last')
      /\ buffer \in [Sessions -> SUBSET (1 .. last)]
  BY <1>1, SeqGrows DEF Types, TypeOK
<1>4. last + 1 \in 1 .. last' /\ wire' \in Seq(1 .. last')
  <2>1. last + 1 \in 1 .. last'
    BY <1>1
  <2>2. Append(wire, last + 1) \in Seq(1 .. last')
    BY <1>3, <2>1, Appended
  <2> QED
    BY <1>2, <1>3, <2>1, <2>2
<1>5. PageOK'
  <2>1. 1 .. last \subseteq 1 .. last' /\ 0 .. last \subseteq 0 .. last'
    BY <1>1
  <2>2. /\ buffer' \in [Sessions -> SUBSET (1 .. last')]
        /\ early' \in SUBSET (1 .. last') /\ again' \in SUBSET (1 .. last')
    BY <1>2, <1>3, <2>1 DEF Types, TypeOK
  <2>3. requests' \in SUBSET RequestSet(last')
    BY <1>1, <1>2, RequestsGrow DEF Types, TypeOK, RequestSet
  <2>4. failures' \in 0 .. MaxFailures
    BY <1>2, TableAssumption DEF Types, TypeOK
  <2>5. last' \in 0 .. Len(Event) /\ maxSeq' \in 0 .. last' /\ covered' \in 0 .. last'
    BY <1>1, <1>2, <2>1 DEF Types, TypeOK
  <2> QED
    BY <1>2, <1>4, <2>2, <2>3, <2>4, <2>5 DEF PageOK, Types, TypeOK, filterVars, RequestSet
<1>6. RowsOK' /\ Buffered' /\ NewestFirst'
  <2>1. last' \in Nat /\ last <= last'
    BY <1>1
  <2> QED
    BY <1>2, <2>1, RowsKept DEF IInv, OutOfTurn
<1>7. TableComplete'
  BY <1>2, TableKept DEF IInv
<1>8. Feed'
  <2>1. CASE wire' = wire
    BY <1>2, <2>1, FeedKept DEF IInv
  <2>2. CASE wire' = Append(wire, last + 1)
    <3>1. \A f \in 1 .. last : f < last + 1
      BY <1>1
    <3>2. last + 1 \in Nat
      BY <1>1
    <3>3. OutOfTurn' = OutOfTurn
      BY <1>2 DEF OutOfTurn
    <3>4. Feed
      BY DEF IInv
    <3> QED
      BY <1>1, <1>2, <1>3, <2>2, <3>1, <3>2, <3>3, <3>4, FeedAppended
  <2> QED
    BY <1>2, <2>1, <2>2
<1> QED
  BY <1>5, <1>6, <1>7, <1>8, PageNext DEF IInv

LEMMA StepRepeat ==
    ASSUME Types, IInv, NEW e \in 1 .. last, Repeat(e)
    PROVE  Types' /\ IInv'
<1>1. /\ UNCHANGED <<last, conn, covered, maxSeq, buffer, filterVars, rowVars, requests,
                     early>>
      /\ wire' = Append(wire, e) /\ again' = again \cup {e}
      /\ failures < MaxFailures /\ failures' = failures + 1
  BY DEF Repeat, Fail
<1>2. PageOK /\ last \in Nat /\ e \in Nat
  BY TypesOfParts, Bounds DEF Types
<1>3. wire' \in Seq(1 .. last)
  BY <1>1, <1>2, Appended DEF PageOK
<1>4. failures' \in 0 .. MaxFailures
  BY <1>1, <1>2, TableAssumption DEF PageOK
<1>5. PageOK'
  BY <1>1, <1>2, <1>3, <1>4 DEF PageOK, filterVars
<1>6. RowsOK' /\ Buffered' /\ NewestFirst'
  BY <1>1, <1>2, RowsKept DEF IInv, OutOfTurn
<1>7. TableComplete'
  BY <1>1, TableKept DEF IInv
<1>8. Feed'
  <2>1. OutOfTurn \subseteq OutOfTurn' /\ e \in OutOfTurn'
    BY <1>1 DEF OutOfTurn
  <2> QED
    BY <1>1, <1>2, <2>1, FeedAppended DEF IInv, PageOK
<1> QED
  BY <1>5, <1>6, <1>7, <1>8, PageNext DEF IInv

LEMMA StepConnection ==
    ASSUME Types, IInv, Connect \/ Disconnect
    PROVE  Types' /\ IInv'
<1>1. UNCHANGED <<last, maxSeq, buffer, filterVars, rowVars, requests, early, again>>
  BY DEF Connect, Disconnect, hist
<1>2. last \in Nat /\ maxSeq \in Nat /\ maxSeq <= last
  BY Bounds DEF Types
<1>3. /\ wire' \in Seq(1 .. last)
      /\ \A i, j \in DOMAIN wire' : i < j => wire'[i] < wire'[j]
      /\ \A i \in DOMAIN wire' : maxSeq < wire'[i] /\ wire'[i] \in Nat
  <2>1. CASE Connect
    <3> DEFINE n == last - maxSeq
    <3>1. wire' = [i \in 1 .. n |-> maxSeq + i]
      BY <2>1 DEF Connect
    <3>2. n \in Nat /\ \A i \in 1 .. n : maxSeq + i \in 1 .. last
      BY <1>2
    <3> HIDE DEF n
    <3>3. wire' \in [1 .. n -> 1 .. last]
      BY <3>1, <3>2
    <3>4. wire' \in Seq(1 .. last)
      BY <3>2, <3>3, FunctionIsSeq
    <3> QED
      BY <1>2, <3>1, <3>2, <3>4
  <2>2. CASE Disconnect
    BY <2>2 DEF Disconnect
  <2> QED
    BY <2>1, <2>2
<1>4. conn' \in BOOLEAN /\ covered' \in 0 .. last /\ failures' \in 0 .. MaxFailures
  <2>1. MaxFailures \in Nat /\ failures \in 0 .. MaxFailures
    BY TableAssumption DEF Types, TypeOK
  <2>2. failures' = failures \/ (failures < MaxFailures /\ failures' = failures + 1)
    BY DEF Connect, Disconnect, Fail
  <2>3. conn' \in BOOLEAN
    BY DEF Connect, Disconnect
  <2>4. covered' = last \/ covered' = 0
    BY DEF Connect, Disconnect
  <2>5. covered' \in 0 .. last
    BY <1>2, <2>4
  <2> QED
    BY <2>1, <2>2, <2>3, <2>5
<1>5. PageOK'
  BY <1>1, <1>3, <1>4 DEF PageOK, Types, TypeOK, filterVars
<1>6. RowsOK' /\ Buffered' /\ NewestFirst'
  BY <1>1, <1>2, RowsKept DEF IInv, OutOfTurn
<1>7. TableComplete'
  BY <1>1, TableKept DEF IInv
<1>8. Feed'
  <2>1. ASSUME NEW s \in Sessions, NEW e \in buffer[s], NEW i \in DOMAIN wire'
        PROVE  e < wire'[i]
    <3>1. e \in Nat /\ e <= maxSeq
      BY DEF IInv, Feed, Types, TypeOK
    <3>2. wire'[i] \in Nat /\ maxSeq < wire'[i]
      BY <1>3
    <3> QED
      BY <1>2, <3>1, <3>2
  <2> QED
    BY <1>1, <1>3, <2>1 DEF IInv, Feed, Ordered
<1> QED
  BY <1>5, <1>6, <1>7, <1>8, PageNext DEF IInv

(***************************************************************************)
(* The user's steps                                                        *)
(***************************************************************************)

\* A request in flight has its type.
LEMMA Requested ==
    ASSUME PageOK, NEW select \in BOOLEAN, NEW s \in Sessions, NEW c \in ColumnFilters,
           Request(select, s, c)
    PROVE  /\ requests' \in SUBSET RequestSet(last)
           /\ requests \subseteq requests'
           /\ \E r \in requests' : r.select = select /\ r.session = s
<1> DEFINE r == [select |-> select, session |-> s, column |-> c, from |-> last]
<1>1. last \in 0 .. last
  BY TableAssumption DEF PageOK
<1>2. r \in RequestSet(last) /\ r.select = select /\ r.session = s
  BY <1>1 DEF RequestSet
<1>3. requests' = requests \cup {r}
  BY DEF Request
<1> HIDE DEF r
<1> QED
  BY <1>2, <1>3 DEF PageOK, RequestSet

LEMMA StepSelect ==
    ASSUME Types, IInv, NEW s \in Sessions, Select(s)
    PROVE  Types' /\ IInv'
<1>1. /\ UNCHANGED <<last, conn, covered, wire, maxSeq, buffer, quick, column,
                     rowVars, early, again, failures>>
      /\ selected' = s /\ Request(TRUE, s, column)
  BY DEF Select, feedVars, hist
<1>2. PageOK /\ last \in Nat
  BY TypesOfParts, Bounds DEF Types
<1>3. /\ requests' \in SUBSET RequestSet(last)
      /\ \E r \in requests' : r.select = TRUE /\ r.session = s
  BY <1>1, <1>2, Requested DEF PageOK
<1>4. PageOK'
  BY <1>1, <1>2, <1>3 DEF PageOK, RequestSet
<1>5. RowsOK' /\ Buffered' /\ NewestFirst'
  BY <1>1, <1>2, RowsKept DEF IInv, OutOfTurn
<1>6. TableComplete'
  BY <1>1, <1>3 DEF TableComplete
<1>7. Feed'
  BY <1>1, FeedKept DEF IInv
<1> QED
  BY <1>4, <1>5, <1>6, <1>7, PageNext DEF IInv

LEMMA WholeIsComplete == Whole => TableComplete
  BY DEF Whole, TableComplete

LEMMA StepSetQuick ==
    ASSUME Types, IInv, NEW q \in QuickFilters, SetQuick(q)
    PROVE  Types' /\ IInv'
<1>1. /\ UNCHANGED <<last, conn, covered, wire, maxSeq, buffer, selected, column,
                     requests, early, again, failures>>
      /\ quick' = q
  BY DEF SetQuick, feedVars, hist
<1>2. PageOK /\ last \in Nat
  BY TypesOfParts, Bounds DEF Types
<1>3. PageOK'
  BY <1>1, <1>2 DEF PageOK
<1>4. Feed'
  BY <1>1, FeedKept DEF IInv
<1>5. CASE selected = NoSession
  <2>1. UNCHANGED rowVars
    BY <1>5 DEF SetQuick
  <2>2. RowsOK' /\ Buffered' /\ NewestFirst'
    BY <1>1, <1>2, <2>1, RowsKept DEF IInv, OutOfTurn
  <2>3. TableComplete'
    BY <1>1, <1>5 DEF TableComplete
  <2> QED
    BY <1>3, <1>4, <2>2, <2>3, PageNext DEF IInv
<1>6. CASE selected # NoSession
  <2>1. Render(selected, buffer', quick', column') /\ selected \in Sessions
    BY <1>1, <1>2, <1>6 DEF SetQuick, PageOK
  <2>2. RowsOK' /\ Buffered' /\ NewestFirst' /\ Whole'
    BY <1>1, <1>2, <2>1, RowsRendered DEF IInv, PageOK, OutOfTurn
  <2>3. TableComplete'
    BY <2>2, WholeIsComplete, PTL
  <2> QED
    BY <1>3, <1>4, <2>2, <2>3, PageNext DEF IInv
<1> QED
  BY <1>5, <1>6

LEMMA StepSetColumn ==
    ASSUME Types, IInv, NEW c \in ColumnFilters, SetColumn(c)
    PROVE  Types' /\ IInv'
<1>1. /\ UNCHANGED <<last, conn, covered, wire, maxSeq, buffer, selected, quick,
                     early, again, failures>>
      /\ column' = c
  BY DEF SetColumn, feedVars, hist
<1>2. PageOK /\ last \in Nat
  BY TypesOfParts, Bounds DEF Types
<1>3. Feed'
  BY <1>1, FeedKept DEF IInv
<1>4. CASE selected = NoSession
  <2>1. UNCHANGED <<view, dom, requests>>
    BY <1>4 DEF SetColumn
  <2>2. RowsOK' /\ Buffered' /\ NewestFirst'
    BY <1>1, <1>2, <2>1, RowsKept DEF IInv, rowVars, OutOfTurn
  <2>3. TableComplete'
    BY <1>1, <1>4 DEF TableComplete
  <2>4. PageOK'
    BY <1>1, <1>2, <2>1 DEF PageOK
  <2> QED
    BY <1>3, <2>2, <2>3, <2>4, PageNext DEF IInv
<1>5. CASE selected # NoSession
  <2>1. /\ Render(selected, buffer', quick', column') /\ selected \in Sessions
        /\ Request(FALSE, selected, c)
    BY <1>1, <1>2, <1>5 DEF SetColumn, PageOK
  <2>2. RowsOK' /\ Buffered' /\ NewestFirst' /\ Whole'
    BY <1>1, <1>2, <2>1, RowsRendered DEF IInv, PageOK, OutOfTurn
  <2>3. TableComplete'
    BY <2>2, WholeIsComplete, PTL
  <2>4. requests' \in SUBSET RequestSet(last)
    BY <1>2, <2>1, Requested
  <2>5. PageOK'
    BY <1>1, <1>2, <2>4 DEF PageOK, RequestSet
  <2> QED
    BY <1>3, <2>2, <2>3, <2>5, PageNext DEF IInv
<1> QED
  BY <1>4, <1>5

LEMMA StepLoadMore ==
    ASSUME Types, IInv, LoadMore
    PROVE  Types' /\ IInv'
<1> DEFINE f == view.filtered
           m == Smaller(view.shown + PageSize, Len(f))
<1>1. /\ UNCHANGED <<last, conn, covered, wire, maxSeq, buffer, selected, quick,
                     column, requests, early, again, failures>>
      /\ view.shown < Len(f)
      /\ dom' = dom \o SubSeq(f, view.shown + 1, m)
      /\ view' = [view EXCEPT !.shown = m]
  BY DEF LoadMore, feedVars, filterVars, hist
<1>2. PageOK /\ last \in Nat /\ PageSize \in Nat
  BY TypesOfParts, Bounds DEF Types
<1>3. /\ view \in ViewShape /\ f \in Seq(1 .. last) /\ Len(f) \in Nat /\ view.shown \in Nat
      /\ view.shown \in 0 .. Len(f) /\ dom = SubSeq(f, 1, view.shown)
  BY <1>1 DEF Types, TypeOK, RowsOK, DomMatchesView, ViewShape
<1>4. m \in view.shown .. Len(f) /\ m \in Nat /\ m <= Len(f)
  <2>1. view.shown < Len(f) /\ view.shown \in Nat /\ Len(f) \in Nat
    BY <1>1, <1>3
  <2>2. m = view.shown + PageSize \/ m = Len(f)
    BY DEF Smaller
  <2>3. m <= Len(f)
    BY <1>2, <2>1 DEF Smaller
  <2> HIDE DEF m
  <2>4. view.shown <= m /\ m \in Nat
    BY <1>2, <2>1, <2>2
  <2> QED
    BY <2>1, <2>3, <2>4
<1> HIDE DEF m
<1>5. dom' = SubSeq(f, 1, m)
  BY <1>1, <1>2, <1>3, <1>4, MoreRows
<1>6. view' = [session |-> view.session, filtered |-> f, shown |-> m]
  BY <1>1, <1>3 DEF ViewShape
<1>7. view' \in ViewShape'
  BY <1>1, <1>3, <1>4, <1>6 DEF ViewShape
<1>8. view'.filtered = f /\ view'.shown = m /\ view'.session = view.session
  BY <1>6
<1>9. RowsOK'
  BY <1>4, <1>5, <1>7, <1>8 DEF RowsOK, DomMatchesView
<1>10. PageOK'
  BY <1>1, <1>2 DEF PageOK
<1>11. Feed'
  BY <1>1, FeedKept DEF IInv
<1>12. Buffered' /\ NewestFirst'
  BY <1>1, <1>8 DEF IInv, Buffered, NewestFirst, OutOfTurn
<1>13. TableComplete'
  BY <1>1, <1>8 DEF IInv, TableComplete, Passing
<1> QED
  BY <1>9, <1>10, <1>11, <1>12, <1>13, PageNext DEF IInv

(***************************************************************************)
(* Answers                                                                 *)
(***************************************************************************)

\* The rows of another session are rendered, or the selected one's.
LEMMA CompleteAfter ==
    ASSUME TableComplete, UNCHANGED <<selected, quick, column>>, NEW s \in Sessions,
           \A t \in Sessions : t # s => buffer'[t] = buffer[t],
           selected \in Sessions \cup {NoSession},
           \A r \in requests : r.session # s => r \in requests',
           s = selected => Whole', s # selected => UNCHANGED rowVars
    PROVE  TableComplete'
<1>1. CASE s = selected
  BY <1>1, WholeIsComplete, PTL
<1>2. CASE s # selected
  <2>1. CASE selected = NoSession
    BY <2>1 DEF TableComplete
  <2>2. ASSUME NEW r \in requests, r.select, r.session = selected
        PROVE  TableComplete'
    BY <1>2, <2>2 DEF TableComplete
  <2>3. CASE selected # NoSession /\ Whole
    <3>1. buffer'[selected] = buffer[selected] /\ view' = view
      BY <1>2, <2>3 DEF rowVars
    <3>2. Whole'
      BY <2>3, <3>1 DEF Whole, Passing
    <3> QED
      BY <3>2, WholeIsComplete, PTL
  <2> QED
    BY <2>1, <2>2, <2>3 DEF TableComplete, Whole
<1> QED
  BY <1>1, <1>2

LEMMA StepHistoryArrives ==
    ASSUME Types, IInv, NEW r \in requests, HistoryArrives(r)
    PROVE  Types' /\ IInv'
<1> DEFINE s == r.session
<1>1. PageOK /\ last \in Nat /\ maxSeq \in 0 .. last
  BY TypesOfParts, Bounds DEF Types, PageOK
<1>2. /\ s \in Sessions /\ r.from \in 0 .. last
      /\ requests' = requests \ {r}
      /\ UNCHANGED <<last, conn, covered, wire, selected, quick, column, again,
                     failures>>
  BY <1>1 DEF HistoryArrives, PageOK, feedVars, filterVars
<1>3. PICK upto \in r.from .. last :
         /\ buffer' = [buffer EXCEPT ![s] = @ \cup History(r, upto)]
         /\ maxSeq' = Max(History(r, upto) \cup {maxSeq})
         /\ early' = early \cup (History(r, upto) \ buffer[s])
  BY DEF HistoryArrives
<1> DEFINE rows == History(r, upto)
<1>4. rows \subseteq 1 .. last
  <2>1. upto \in Nat /\ upto <= last
    BY <1>1, <1>2
  <2>2. rows \subseteq 1 .. upto
    BY DEF History, Oldest, Passing, EventsOf
  <2>3. 1 .. upto \subseteq 1 .. last
    BY <1>1, <2>1
  <2> QED
    BY <2>2, <2>3
<1>5. /\ Render(s, buffer', quick', column')
      /\ buffer' = [buffer EXCEPT ![s] = buffer[s] \cup rows]
      /\ maxSeq' = Max(rows \cup {maxSeq})
      /\ early' = early \cup (rows \ buffer[s])
  BY <1>2, <1>3 DEF HistoryArrives
<1> HIDE DEF rows, s
<1>6. /\ buffer' \in [Sessions -> SUBSET (1 .. last)]
      /\ buffer'[s] = buffer[s] \cup rows
      /\ \A t \in Sessions : t # s => buffer'[t] = buffer[t]
      /\ \A t \in Sessions : buffer[t] \subseteq buffer'[t]
  BY <1>1, <1>2, <1>4, <1>5 DEF PageOK
<1>7. maxSeq' \in 0 .. last /\ \A e \in rows \cup {maxSeq} : e <= maxSeq'
  <2>1. rows \cup {maxSeq} \in SUBSET (0 .. last)
    BY <1>1, <1>4
  <2>2. Max(rows \cup {maxSeq}) \in rows \cup {maxSeq}
        /\ \A e \in rows \cup {maxSeq} : e <= Max(rows \cup {maxSeq})
    BY <1>1, <2>1, MaxOfPart
  <2> QED
    BY <1>5, <2>1, <2>2
<1>8. OutOfTurn \subseteq OutOfTurn' /\ early' \in SUBSET (1 .. last)
  BY <1>1, <1>2, <1>4, <1>5 DEF PageOK, OutOfTurn
<1>9. PageOK'
  BY <1>1, <1>2, <1>6, <1>7, <1>8 DEF PageOK
<1>10. /\ RowsOK' /\ Buffered' /\ NewestFirst'
       /\ s = selected => Whole'
       /\ s # selected => UNCHANGED rowVars
  BY <1>2, <1>5, <1>6, <1>8, RowsRendered DEF IInv
<1>11. TableComplete'
  <2>1. \A q \in requests : q.session # s => q \in requests'
    BY <1>2 DEF s
  <2> QED
    BY <1>1, <1>2, <1>6, <1>10, <2>1, CompleteAfter DEF IInv, PageOK
<1>12. Feed'
  <2>1. ASSUME NEW t \in Sessions, NEW e \in buffer'[t]
        PROVE  e <= maxSeq' /\ \A i \in DOMAIN wire' : Ordered(e, wire[i])'
    <3>1. CASE e \in buffer[t]
      <4>1. e <= maxSeq /\ \A i \in DOMAIN wire : Ordered(e, wire[i])
        BY <3>1 DEF IInv, Feed
      <4>2. e \in Nat /\ maxSeq <= maxSeq' /\ maxSeq \in Nat /\ maxSeq' \in Nat
        BY <1>1, <1>7, <3>1 DEF PageOK
      <4> QED
        BY <1>2, <1>8, <4>1, <4>2 DEF Ordered
    <3>2. CASE e \notin buffer[t]
      <4>1. t = s /\ e \in rows /\ e \in OutOfTurn'
        BY <1>5, <1>6, <3>2 DEF OutOfTurn
      <4> QED
        BY <1>7, <4>1 DEF Ordered
    <3> QED
      BY <3>1, <3>2
  <2> QED
    BY <1>2, <1>8, <2>1 DEF IInv, Feed, Ordered
<1> QED
  BY <1>9, <1>10, <1>11, <1>12, PageNext DEF IInv

LEMMA StepHistoryFails ==
    ASSUME Types, IInv, NEW r \in requests, HistoryFails(r)
    PROVE  Types' /\ IInv'
<1> DEFINE s == r.session
<1>1. PageOK /\ last \in Nat
  BY TypesOfParts, Bounds DEF Types
<1>2. /\ s \in Sessions /\ requests' = requests \ {r}
      /\ UNCHANGED <<last, conn, covered, wire, maxSeq, buffer, selected, quick,
                     column, early, again, failures>>
  BY <1>1 DEF HistoryFails, PageOK, feedVars, filterVars, hist
<1>3. PageOK'
  BY <1>1, <1>2 DEF PageOK
<1>4. Feed'
  BY <1>2, FeedKept DEF IInv
<1>5. CASE r.select
  <2>1. Render(s, buffer', quick', column')
    BY <1>2, <1>5 DEF HistoryFails
  <2>2. buffer' \in [Sessions -> SUBSET (1 .. last)] /\ OutOfTurn \subseteq OutOfTurn'
        /\ \A t \in Sessions : buffer'[t] = buffer[t]
    BY <1>1, <1>2 DEF PageOK, OutOfTurn
  <2>3. \A q \in requests : q.session # s => q \in requests'
    BY <1>2
  <2> HIDE DEF s
  <2>4. /\ RowsOK' /\ Buffered' /\ NewestFirst'
        /\ s = selected => Whole'
        /\ s # selected => UNCHANGED rowVars
    BY <1>2, <2>1, <2>2, RowsRendered DEF IInv
  <2>5. TableComplete'
    BY <1>1, <1>2, <2>2, <2>3, <2>4, CompleteAfter DEF IInv, PageOK
  <2> QED
    BY <1>3, <1>4, <2>4, <2>5, PageNext DEF IInv
<1>6. CASE ~r.select
  <2>1. UNCHANGED rowVars
    BY <1>6 DEF HistoryFails
  <2>2. RowsOK' /\ Buffered' /\ NewestFirst'
    BY <1>1, <1>2, <2>1, RowsKept DEF IInv, OutOfTurn
  <2>3. \A q \in requests : q.select => q \in requests'
    BY <1>2, <1>6
  <2>4. TableComplete'
    BY <1>2, <2>1, <2>3 DEF IInv, TableComplete, rowVars, Passing
  <2> QED
    BY <1>3, <1>4, <2>2, <2>4, PageNext DEF IInv
<1> QED
  BY <1>5, <1>6

(***************************************************************************)
(* Event messages                                                          *)
(***************************************************************************)

LEMMA PassingMore ==
    ASSUME NEW rows, NEW e, NEW q, NEW c
    PROVE  /\ Passing(rows \cup {e}, q, c) = Passing(rows, q, c) \cup Passing({e}, q, c)
           /\ Passing({e}, q, c) # {} => Passing({e}, q, c) = {e}
  BY DEF Passing

\* An event goes on top of the selected session's rows, or nowhere.
LEMMA LiveRowShown ==
    ASSUME Types, Buffered, NewestFirst, last' = last, NEW e \in 1 .. last,
           UNCHANGED <<selected, quick, column, early, again>>, NEW s \in Sessions,
           buffer' = [buffer EXCEPT ![s] = @ \cup {e}],
           \A t \in Sessions : \A f \in buffer[t] : Ordered(f, e),
           selected = s, view.session = s, LiveRow(e)
    PROVE  /\ RowsOK' /\ Buffered' /\ NewestFirst'
           /\ Whole => Whole'
<1>1. /\ view \in ViewShape /\ view.filtered \in Seq(1 .. last)
      /\ buffer \in [Sessions -> SUBSET (1 .. last)] /\ last \in Nat
  BY Bounds DEF Types, TypeOK, RowsOK, ViewShape
<1>2. /\ buffer'[s] = buffer[s] \cup {e}
      /\ \A t \in Sessions : buffer[t] \subseteq buffer'[t]
  BY <1>1
<1>3. /\ Passing(buffer'[s], quick, column) =
             Passing(buffer[s], quick, column) \cup Passing({e}, quick, column)
      /\ Passing({e}, quick, column) # {} => Passing({e}, quick, column) = {e}
  <2>1. Passing(buffer[s] \cup {e}, quick, column) =
             Passing(buffer[s], quick, column) \cup Passing({e}, quick, column)
    BY DEF Passing
  <2>2. Passing({e}, quick, column) # {} => Passing({e}, quick, column) = {e}
    BY PassingMore
  <2> QED
    BY <1>2, <2>1, <2>2
<1>4. CASE Passing({e}, quick, column) = {}
  <2>1. UNCHANGED rowVars
    BY <1>4 DEF LiveRow
  <2>2. RowsOK' /\ Buffered' /\ NewestFirst'
    BY <1>1, <1>2, <2>1, RowsKept DEF OutOfTurn
  <2>3. Whole => Whole'
    BY <1>3, <1>4, <2>1 DEF Whole, rowVars, Passing
  <2> QED
    BY <2>2, <2>3
<1>5. CASE Passing({e}, quick, column) # {}
  <2> DEFINE f == view.filtered
             g == <<e>> \o f
  <2>1. /\ RowsOK' /\ view'.session = view.session /\ view'.filtered = g
    BY <1>5, Trimmed DEF LiveRow
  <2>2. /\ g \in Seq(1 .. last) /\ Len(g) = Len(f) + 1 /\ g[1] = e
        /\ \A i \in 1 .. Len(f) : g[i + 1] = f[i]
        /\ ToSet(g) = ToSet(f) \cup {e}
    BY <1>1, OnTop
  <2> HIDE DEF g
  <2>3. Buffered'
    BY <1>2, <2>1, <2>2 DEF Buffered
  <2>4. Whole => Whole'
    BY <1>3, <1>5, <2>1, <2>2 DEF Whole, Passing
  <2>5. ASSUME NEW j \in DOMAIN g, NEW i \in 1 .. j - 1
        PROVE  g[i] > g[j] \/ {g[i], g[j]} \cap OutOfTurn # {}
    <3>1. /\ j \in Nat /\ i \in Nat /\ 1 <= i /\ i < j /\ j <= Len(f) + 1 /\ Len(f) \in Nat
          /\ DOMAIN f = 1 .. Len(f)
      <4>1. f \in Seq(1 .. last)
        BY <1>1
      <4> HIDE DEF f
      <4>2. Len(f) \in Nat /\ DOMAIN f = 1 .. Len(f)
        BY <4>1
      <4>3. DOMAIN g = 1 .. Len(f) + 1
        BY <2>2
      <4>4. j \in 1 .. Len(f) + 1
        BY <4>3
      <4> QED
        BY <4>2, <4>4
    <3>2. j - 1 \in DOMAIN f /\ j - 1 + 1 = j
      BY <3>1
    <3>3. g[j] = f[j - 1] /\ f[j - 1] \in ToSet(f)
      BY <2>2, <3>1, <3>2 DEF ToSet
    <3>4. CASE i = 1
      <4>1. PICK t \in Sessions : g[j] \in buffer[t]
        BY <3>3 DEF Buffered
      <4>2. Ordered(g[j], e) /\ g[i] = e
        BY <2>2, <3>4, <4>1
      <4>3. g[j] \in Nat /\ e \in Nat
        BY <1>1, <4>1
      <4> QED
        BY <4>2, <4>3 DEF Ordered
    <3>5. CASE i # 1
      <4>1. i - 1 \in 1 .. (j - 1) - 1 /\ i - 1 \in 1 .. Len(f) /\ i - 1 + 1 = i
        BY <3>1, <3>5
      <4>2. g[i] = f[i - 1]
        BY <2>2, <4>1
      <4>3. f[i - 1] > f[j - 1] \/ {f[i - 1], f[j - 1]} \cap OutOfTurn # {}
        BY <3>2, <4>1 DEF NewestFirst
      <4> QED
        BY <3>3, <4>2, <4>3
    <3> QED
      BY <3>4, <3>5
  <2>6. NewestFirst'
    BY <2>1, <2>5 DEF NewestFirst, OutOfTurn
  <2> QED
    BY <2>1, <2>3, <2>4, <2>6
<1> QED
  BY <1>4, <1>5

LEMMA StepEventMessage ==
    ASSUME Types, IInv, EventMessage
    PROVE  Types' /\ IInv'
<1> DEFINE e == Head(wire)
           s == Event[e].session
<1>1. PageOK /\ last \in Nat /\ maxSeq \in 0 .. last
  BY TypesOfParts, Bounds DEF Types, PageOK
<1>2. /\ wire \in Seq(1 .. last) /\ wire # <<>> /\ wire' = Tail(wire)
      /\ UNCHANGED <<last, conn, covered, selected, quick, column, requests, early,
                     again, failures>>
  BY <1>1 DEF EventMessage, PageOK, filterVars, hist
<1>3. /\ e \in 1 .. last /\ wire' \in Seq(1 .. last) /\ e = wire[1] /\ 1 \in DOMAIN wire
      /\ \A i \in DOMAIN wire' :
            i + 1 \in DOMAIN wire /\ i \in Nat /\ wire'[i] = wire[i + 1] /\ 1 < i + 1
  <2>1. /\ e \in 1 .. last /\ wire' \in Seq(1 .. last) /\ Len(wire') = Len(wire) - 1
        /\ \A i \in 1 .. Len(wire') : wire'[i] = wire[i + 1]
    BY <1>2, HeadTailProperties
  <2>2. Len(wire) \in Nat \ {0} /\ DOMAIN wire = 1 .. Len(wire) /\ e = wire[1]
    BY <1>2
  <2>3. DOMAIN wire' = 1 .. Len(wire')
    BY <2>1
  <2> QED
    BY <2>1, <2>2, <2>3
<1>4. s \in Sessions
  <2>1. e \in 1 .. Len(Event)
    BY <1>3, Bounds DEF Types
  <2> QED
    BY <2>1, Bounds DEF Types
<1>5. /\ maxSeq' = Max({maxSeq, e})
      /\ buffer' = [buffer EXCEPT ![s] = @ \cup {e}]
      /\ LiveEvent(s, e)
  BY DEF EventMessage
<1> HIDE DEF e, s
<1>6. /\ buffer' \in [Sessions -> SUBSET (1 .. last)]
      /\ buffer'[s] = buffer[s] \cup {e}
      /\ \A t \in Sessions : t # s => buffer'[t] = buffer[t]
      /\ \A t \in Sessions : buffer[t] \subseteq buffer'[t]
  BY <1>1, <1>3, <1>4, <1>5 DEF PageOK
<1>7. maxSeq' \in 0 .. last /\ maxSeq <= maxSeq' /\ e <= maxSeq'
  <2>1. {maxSeq, e} \in SUBSET (0 .. last)
    BY <1>1, <1>3
  <2>2. Max({maxSeq, e}) \in {maxSeq, e} /\ \A f \in {maxSeq, e} : f <= Max({maxSeq, e})
    BY <1>1, <2>1, MaxOfPart
  <2> QED
    BY <1>5, <2>1, <2>2
<1>8. PageOK'
  BY <1>1, <1>2, <1>3, <1>6, <1>7 DEF PageOK
<1>9. ASSUME NEW t \in Sessions, NEW f \in buffer[t]
      PROVE  Ordered(f, e) /\ \A i \in DOMAIN wire : Ordered(f, wire[i])
  BY <1>3, <1>9 DEF IInv, Feed
<1>10. Feed'
  <2>1. ASSUME NEW i \in DOMAIN wire', NEW j \in DOMAIN wire', i < j
        PROVE  Ordered(wire'[i], wire'[j])
    <3>1. i + 1 < j + 1
      BY <1>3, <2>1
    <3> QED
      BY <1>3, <3>1 DEF IInv, Feed
  <2>2. ASSUME NEW t \in Sessions, NEW f \in buffer'[t]
        PROVE  f <= maxSeq' /\ \A i \in DOMAIN wire' : Ordered(f, wire'[i])
    <3>1. CASE f \in buffer[t]
      <4>1. f <= maxSeq
        BY <3>1 DEF IInv, Feed
      <4>2. f \in Nat /\ maxSeq \in Nat /\ maxSeq' \in Nat
        BY <1>1, <1>7, <3>1 DEF PageOK
      <4>3. f <= maxSeq'
        BY <1>7, <4>1, <4>2
      <4> QED
        BY <1>2, <1>3, <1>9, <3>1, <4>3
    <3>2. CASE f \notin buffer[t]
      <4>1. f = e
        BY <1>6, <3>2
      <4>2. \A i \in DOMAIN wire' : Ordered(e, wire'[i])
        BY <1>3 DEF IInv, Feed
      <4> QED
        BY <1>7, <4>1, <4>2
    <3> QED
      BY <3>1, <3>2
  <2> QED
    BY <1>2, <2>1, <2>2 DEF Feed, Ordered, OutOfTurn
<1>11. /\ selected \in Sessions \cup {NoSession} /\ OutOfTurn \subseteq OutOfTurn'
       /\ last <= last' /\ last' \in Nat
  BY <1>1, <1>2 DEF PageOK, OutOfTurn
<1>12. CASE s # selected
  <2>1. UNCHANGED rowVars
    BY <1>5, <1>12 DEF LiveEvent
  <2>2. RowsOK' /\ Buffered' /\ NewestFirst'
    BY <1>6, <1>11, <2>1, RowsKept DEF IInv
  <2>3. TableComplete'
    BY <1>2, <1>4, <1>6, <1>11, <1>12, <2>1, CompleteAfter DEF IInv
  <2> QED
    BY <1>8, <1>10, <2>2, <2>3, PageNext DEF IInv
<1>13. CASE s = selected /\ view.session # s
  <2>1. Render(s, buffer', quick', column')
    BY <1>2, <1>5, <1>13 DEF LiveEvent
  <2>2. RowsOK' /\ Buffered' /\ NewestFirst' /\ Whole'
    BY <1>2, <1>4, <1>6, <1>11, <1>13, <2>1, RowsRendered DEF IInv
  <2>3. TableComplete'
    BY <2>2, WholeIsComplete, PTL
  <2> QED
    BY <1>8, <1>10, <2>2, <2>3, PageNext DEF IInv
<1>14. CASE s = selected /\ view.session = s
  <2>1. LiveRow(e)
    BY <1>5, <1>14 DEF LiveEvent
  <2>2. RowsOK' /\ Buffered' /\ NewestFirst' /\ (Whole => Whole')
    BY <1>2, <1>3, <1>4, <1>5, <1>9, <1>14, <2>1, LiveRowShown DEF IInv
  <2>3. CASE Whole
    <3>1. Whole'
      BY <2>2, <2>3
    <3>2. TableComplete'
      BY <3>1, WholeIsComplete, PTL
    <3> QED
      BY <1>8, <1>10, <2>2, <3>2, PageNext DEF IInv
  <2>4. CASE ~Whole
    <3>1. selected = NoSession \/ \E r \in requests : r.select /\ r.session = selected
      BY <2>4 DEF IInv, TableComplete, Whole
    <3>2. TableComplete'
      BY <1>2, <3>1 DEF TableComplete
    <3> QED
      BY <1>8, <1>10, <2>2, <3>2, PageNext DEF IInv
  <2> QED
    BY <2>3, <2>4
<1> QED
  BY <1>12, <1>13, <1>14

(***************************************************************************)
(* The theorems                                                            *)
(***************************************************************************)

LEMMA InvInit == Init => Types /\ IInv
<1> SUFFICES ASSUME Init PROVE Types /\ IInv
  OBVIOUS
<1>1. Len(Event) \in Nat
  BY TableAssumption
<1>2. PageOK
  <2>1. last = 0 /\ maxSeq = 0 /\ failures = 0 /\ wire = <<>> /\ conn = FALSE
        /\ covered = 0 /\ again = {}
    BY DEF Init
  <2>2. last \in 0 .. Len(Event) /\ maxSeq \in 0 .. last /\ failures \in 0 .. MaxFailures
        /\ covered \in 0 .. last /\ again \in SUBSET (1 .. last)
    BY <1>1, <2>1, TableAssumption
  <2>3. quick \in QuickFilters /\ column \in ColumnFilters
    BY TableAssumption DEF Init
  <2>4. buffer \in [Sessions -> SUBSET (1 .. last)] /\ early \in SUBSET (1 .. last)
    BY DEF Init
  <2>5. wire \in Seq(1 .. last) /\ conn \in BOOLEAN
    <3>1. <<>> \in Seq(1 .. last)
      OBVIOUS
    <3> QED
      BY <2>1, <3>1
  <2>6. selected \in Sessions \cup {NoSession} /\ requests = {}
    BY DEF Init
  <2> QED
    BY <2>2, <2>3, <2>4, <2>5, <2>6 DEF PageOK
<1>3. RowsOK
  <2>1. view \in ViewShape /\ view.shown = 0 /\ Len(view.filtered) = 0
    BY DEF Init, ViewShape
  <2>2. SubSeq(<<>>, 1, 0) = <<>>
    BY SubSeqEmpty
  <2> QED
    BY <2>1, <2>2 DEF Init, RowsOK, DomMatchesView
<1>4. Feed
  BY DEF Init, Feed
<1>5. Buffered /\ NewestFirst
  BY DEF Init, Buffered, NewestFirst, ToSet
<1>6. TableComplete
  BY DEF Init, TableComplete
<1> QED
  BY <1>2, <1>3, <1>4, <1>5, <1>6, TypesOfParts DEF IInv

LEMMA InvNext == Types /\ IInv /\ [Next]_vars => Types' /\ IInv'
<1> SUFFICES ASSUME Types, IInv, [Next]_vars PROVE Types' /\ IInv'
  OBVIOUS
<1>1. CASE UNCHANGED vars
  <2>1. PageOK'
    BY <1>1, TypesOfParts DEF vars, feedVars, filterVars, hist, PageOK
  <2>2. RowsOK' /\ Buffered' /\ NewestFirst'
    BY <1>1, Bounds, RowsKept DEF vars, hist, OutOfTurn, Types, IInv
  <2>3. TableComplete' /\ Feed'
    BY <1>1, TableKept, FeedKept DEF vars, feedVars, hist, IInv
  <2> QED
    BY <2>1, <2>2, <2>3, PageNext DEF IInv
<1> QED
  BY <1>1, StepInsert, StepRepeat, StepSelect, StepSetQuick, StepSetColumn,
     StepHistoryArrives, StepHistoryFails, StepLoadMore, StepConnection,
     StepEventMessage DEF Next

\* The inductive invariant holds in every state.
THEOREM Invariant == Spec => [](Types /\ IInv)
<1>1. Init => Types /\ IInv
  BY InvInit
<1>2. Types /\ IInv /\ [Next]_vars => (Types /\ IInv)'
  BY InvNext
<1> QED
  BY <1>1, <1>2, PTL DEF Spec

\* Every variable keeps its type: the counter stays within the filtered events.
THEOREM TypeCorrect == Spec => []TypeOK
<1>1. Types => TypeOK
  BY DEF Types
<1> QED
  BY <1>1, Invariant, PTL

\* The rows on the page are the first of the filtered events (onLiveEvent,
\* loadMoreRows, renderEvents).
THEOREM RowsFollowView == Spec => []DomMatchesView
<1>1. Types => DomMatchesView
  BY DEF Types, RowsOK
<1> QED
  BY <1>1, Invariant, PTL

\* Unless its selection is loading, the table is the selected session's, and has
\* every buffered event that passes the filters.
THEOREM TableIsComplete == Spec => []TableComplete
<1>1. IInv => TableComplete
  BY DEF IInv
<1> QED
  BY <1>1, Invariant, PTL

\* Newest first and none twice, but for what a history response brought before
\* the feed and what the server sent again (onLiveEvent, insert_event's old seq).
THEOREM TableIsNewestFirst == Spec => []NewestFirst
<1>1. IInv => NewestFirst
  BY DEF IInv
<1> QED
  BY <1>1, Invariant, PTL
=============================================================================
