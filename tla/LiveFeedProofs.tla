--------------------------- MODULE LiveFeedProofs ---------------------------
(***************************************************************************)
(* That the stream a page sees is in order and has no silent gap, for any  *)
(* sessions, pages, queue size and number of events: lemmas about the      *)
(* operators, type correctness, the inductive invariant and what follows.  *)
(***************************************************************************)
EXTENDS LiveFeed, FiniteSetTheorems, SequenceTheorems, WellFoundedInduction, TLAPS

(***************************************************************************)
(* Operators                                                               *)
(***************************************************************************)

\* A set of naturals that is not empty has a least element.
LEMMA LeastExists ==
    ASSUME NEW S \in SUBSET Nat, S # {}
    PROVE  \E e \in S : \A f \in S : e <= f
<1>1. PICK e \in S : \A f \in S : <<f, e>> \notin OpToRel(<, Nat)
  BY NatLessThanWellFounded, WFMin
<1>2. \A f \in S : ~(f < e)
  BY <1>1 DEF OpToRel
<1> QED
  BY <1>2

\* One that is bounded has a greatest.
LEMMA GreatestExists ==
    ASSUME NEW S \in SUBSET Nat, S # {}, NEW n \in Nat, \A e \in S : e <= n
    PROVE  \E e \in S : \A f \in S : f <= e
<1> DEFINE Bounds == {b \in Nat : \A e \in S : e <= b}
<1>1. PICK b \in Bounds : \A a \in Bounds : b <= a
  <2>1. n \in Bounds
    OBVIOUS
  <2> QED
    BY <2>1, LeastExists
<1>2. CASE b = 0
  <2>1. \A f \in S : f \in Nat /\ f <= 0
    BY <1>1, <1>2
  <2>2. PICK e \in S : e \in Nat
    BY <2>1
  <2>3. \A f \in S : f <= e
    BY <2>1, <2>2
  <2> QED
    BY <2>3
<1>3. CASE b # 0
  <2>1. b - 1 \in Nat /\ b - 1 \notin Bounds
    BY <1>1, <1>3
  <2>2. PICK e \in S : ~(e <= b - 1)
    BY <2>1
  <2> QED
    BY <1>1, <2>2
<1> QED
  BY <1>2, <1>3

\* MaxOf is the greatest of a set of seqs.
LEMMA MaxOfSeqs ==
    ASSUME NEW S \in SUBSET Nat, S # {}, NEW n \in Nat, \A e \in S : e <= n
    PROVE  MaxOf(S, 0) \in S /\ \A f \in S : f <= MaxOf(S, 0)
  BY GreatestExists DEF MaxOf

\* The elements of a sequence, of one that grows and of one that shrinks
LEMMA ElementsOfAppend ==
    ASSUME NEW s \in Seq(Seqs), NEW e \in Seqs
    PROVE  Elements(Append(s, e)) = Elements(s) \cup {e}
<1>1. /\ Append(s, e) \in Seq(Seqs) /\ Len(Append(s, e)) = Len(s) + 1
      /\ \A i \in 1 .. Len(s) : Append(s, e)[i] = s[i]
      /\ Append(s, e)[Len(s) + 1] = e
  BY AppendProperties
<1>2. DOMAIN Append(s, e) = 1 .. Len(s) + 1 /\ DOMAIN s = 1 .. Len(s) /\ Len(s) \in Nat
  BY <1>1, LenProperties
<1>3. Elements(s) \cup {e} \subseteq Elements(Append(s, e))
  <2>1. e \in Elements(Append(s, e))
    BY <1>1, <1>2 DEF Elements
  <2>2. \A i \in 1 .. Len(s) : s[i] \in Elements(Append(s, e))
    BY <1>1, <1>2 DEF Elements
  <2> QED
    BY <1>2, <2>1, <2>2 DEF Elements
<1>4. Elements(Append(s, e)) \subseteq Elements(s) \cup {e}
  <2>1. \A i \in 1 .. Len(s) + 1 : i \in 1 .. Len(s) \/ i = Len(s) + 1
    BY <1>2
  <2> QED
    BY <1>1, <1>2, <2>1 DEF Elements
<1> QED
  BY <1>3, <1>4

LEMMA ElementsOfTail ==
    ASSUME NEW s \in Seq(Seqs), s # <<>>
    PROVE  /\ Elements(s) = {Head(s)} \cup Elements(Tail(s))
           /\ Head(s) = s[1] /\ Head(s) \in Seqs /\ Tail(s) \in Seq(Seqs)
           /\ Len(Tail(s)) = Len(s) - 1
           /\ \A i \in 1 .. Len(s) - 1 : Tail(s)[i] = s[i + 1]
<1>1. /\ Head(s) \in Seqs /\ Tail(s) \in Seq(Seqs) /\ Len(Tail(s)) = Len(s) - 1
      /\ \A i \in 1 .. Len(Tail(s)) : Tail(s)[i] = s[i + 1]
  BY HeadTailProperties
<1>2. Head(s) = s[1] /\ DOMAIN s = 1 .. Len(s) /\ Len(s) \in Nat \ {0}
  BY EmptySeq, LenProperties
<1>3. DOMAIN Tail(s) = 1 .. Len(s) - 1
  BY <1>1, LenProperties
<1>4. Elements(s) \subseteq {Head(s)} \cup Elements(Tail(s))
  <2> SUFFICES ASSUME NEW i \in 1 .. Len(s), i # 1
               PROVE  s[i] \in Elements(Tail(s))
    BY <1>2 DEF Elements
  <2>1. i - 1 \in 1 .. Len(s) - 1 /\ s[i] = Tail(s)[i - 1]
    BY <1>1, <1>2
  <2> QED
    BY <1>3, <2>1 DEF Elements
<1>5. {Head(s)} \cup Elements(Tail(s)) \subseteq Elements(s)
  <2>1. Head(s) \in Elements(s)
    BY <1>2 DEF Elements
  <2>2. ASSUME NEW i \in 1 .. Len(s) - 1
        PROVE  Tail(s)[i] \in Elements(s)
    <3>1. i + 1 \in 1 .. Len(s) /\ Tail(s)[i] = s[i + 1]
      BY <1>1, <1>2
    <3> QED
      BY <1>2, <3>1 DEF Elements
  <2> QED
    BY <1>3, <2>1, <2>2 DEF Elements
<1>6. Elements(s) = {Head(s)} \cup Elements(Tail(s))
  BY <1>4, <1>5
<1>7. \A i \in 1 .. Len(s) - 1 : Tail(s)[i] = s[i + 1]
  BY <1>1
<1> QED
  BY <1>1, <1>2, <1>6, <1>7

\* The query after seq returns nothing only if nothing is stored after seq, and
\* what it returns is the beginning of what is stored after seq.
LEMMA RowsOfQuery ==
    ASSUME store \in SUBSET Seqs, NEW seq \in Nat
    PROVE  /\ RowsAfter(seq) \in SUBSET store
           /\ \A e \in RowsAfter(seq) : seq < e
           /\ RowsAfter(seq) = {} => \A e \in store : e <= seq
           /\ \A f \in RowsAfter(seq), e \in store :
                 seq < e /\ e <= f => e \in RowsAfter(seq)
<1> DEFINE Between(e) == {f \in store : seq < f /\ f < e}
<1>1. \A e \in store : e \in Nat
  BY FeedAssumption DEF Seqs
<1>2. IsFiniteSet(store)
  <2>1. IsFiniteSet(Seqs)
    BY FeedAssumption, FS_Interval DEF Seqs
  <2> QED
    BY <2>1, FS_Subset
<1>3. \A e \in store : IsFiniteSet(Between(e)) /\ Cardinality(Between(e)) \in Nat
  BY <1>2, FS_Subset, FS_CardinalityType
<1>4. RowsAfter(seq) = {} => \A e \in store : e <= seq
  <2> SUFFICES ASSUME RowsAfter(seq) = {}, NEW e \in store, seq < e
               PROVE  FALSE
    BY <1>1
  <2> DEFINE Later == {f \in store : seq < f}
  <2>1. Later # {} /\ Later \in SUBSET Nat
    BY <1>1
  <2> HIDE DEF Later
  <2>2. PICK m \in Later : \A f \in Later : m <= f
    BY <2>1, LeastExists
  <2>3. m \in store /\ seq < m /\ Between(m) = {}
    BY <1>1, <2>2 DEF Later
  <2>4. Cardinality(Between(m)) = 0
    BY <2>3, FS_EmptySet
  <2> QED
    BY <2>3, <2>4, FeedAssumption DEF RowsAfter
<1>5. ASSUME NEW f \in RowsAfter(seq), NEW e \in store, seq < e, e <= f
      PROVE  e \in RowsAfter(seq)
  <2>1. f \in store /\ Cardinality(Between(f)) < PageSize
    BY DEF RowsAfter
  <2>2. Between(e) \in SUBSET Between(f)
    BY <1>1, <1>5, <2>1
  <2>3. Cardinality(Between(e)) <= Cardinality(Between(f))
    BY <1>3, <2>1, <2>2, FS_Subset
  <2>4. Cardinality(Between(e)) < PageSize
    BY <1>3, <2>1, <2>3, FeedAssumption
  <2> QED
    BY <1>5, <2>4 DEF RowsAfter
<1>6. RowsAfter(seq) \in SUBSET store
  BY DEF RowsAfter
<1>7. \A e \in RowsAfter(seq) : seq < e
  BY DEF RowsAfter
<1> QED
  BY <1>4, <1>5, <1>6, <1>7

-----------------------------------------------------------------------------
(***************************************************************************)
(* Types                                                                   *)
(***************************************************************************)

LEMMA StoredAreSeqs ==
    ASSUME TypeOK
    PROVE  store \in SUBSET Seqs /\ \A e \in store : e < nextSeq /\ e \in Nat
  BY FeedAssumption DEF TypeOK, Seqs

LEMMA LoseTypes ==
    ASSUME TypeOK, NEW cs \in SUBSET Clients, Lose(cs)
    PROVE  /\ conn' \in [Clients -> {"closed", "opening", "open"}]
           /\ handler' \in [Clients -> {"none", "drain", "live"}]
           /\ queue' \in [Clients -> Seq(Seqs)]
           /\ \A c \in Clients : Len(queue'[c]) <= QueueSize
           /\ page' \in [Clients -> SUBSET Seqs]
           /\ stream' \in [Clients -> Seq(Seqs)]
           /\ received' \in [Clients -> Nat]
           /\ \A c \in Clients : received'[c] <= Len(stream'[c])
           /\ lastSeq' \in [Clients -> 0 .. MaxSeq]
           /\ after' \in [Clients -> 0 .. MaxSeq]
           /\ failures' \in 0 .. MaxFailures
<1>1. <<>> \in Seq(Seqs) /\ Len(<<>>) = 0
  BY EmptySeq
<1> QED
  BY <1>1, FeedAssumption DEF TypeOK, Lose, Fail

LEMMA InitTypes == Init => TypeOK
<1> SUFFICES ASSUME Init PROVE TypeOK
  OBVIOUS
<1>1. <<>> \in Seq(Seqs) /\ Len(<<>>) = 0
  BY EmptySeq
<1>2. /\ \A c \in Clients : Len(queue[c]) <= QueueSize
      /\ \A c \in Clients : received[c] <= Len(stream[c])
  BY <1>1, FeedAssumption DEF Init
<1>3. /\ nextSeq \in 1 .. MaxSeq + 1 /\ store \in SUBSET (1 .. nextSeq - 1)
      /\ failures \in 0 .. MaxFailures
  BY FeedAssumption DEF Init
<1>4. /\ scheduled \in Seq(Seqs)
      /\ queue \in [Clients -> Seq(Seqs)] /\ stream \in [Clients -> Seq(Seqs)]
  BY <1>1 DEF Init
<1>5. \A n \in {lastSeq, after, maxSeq} : n \in [Clients -> 0 .. MaxSeq]
  BY FeedAssumption DEF Init
<1>6. /\ handler \in [Clients -> {"none", "drain", "live"}]
      /\ conn \in [Clients -> {"closed", "opening", "open"}]
      /\ received \in [Clients -> Nat]
  BY DEF Init
<1>7. /\ page \in [Clients -> SUBSET Seqs] /\ events \in [Clients -> SUBSET Seqs]
      /\ fetch \in [Clients -> {NoFetch} \cup SUBSET Seqs]
      /\ dropped \in [Clients -> SUBSET Seqs] /\ jumped \in [Clients -> SUBSET Seqs]
  BY DEF Init
<1> QED
  BY <1>2, <1>3, <1>4, <1>5, <1>6, <1>7 DEF Init, TypeOK

LEMMA CollectorTypes ==
    ASSUME TypeOK,
           \/ PollBegin \/ Insert \/ PollFails
           \/ \E e \in store : InsertAgain(e) \/ Repeat(e)
           \/ \E old \in SUBSET store : PollEnd(old)
    PROVE  TypeOK'
<1>1. CASE PollBegin
  BY <1>1 DEF TypeOK, PollBegin, storeVars, handlerVars, pageVars
<1>2. CASE Insert
  <2>1. nextSeq \in Seqs
    BY <1>2, FeedAssumption DEF TypeOK, Insert, Seqs
  <2>2. scheduled' \in Seq(Seqs)
    BY <1>2, <2>1, AppendProperties DEF TypeOK, Insert
  <2>3. nextSeq' \in 1 .. MaxSeq + 1 /\ store' \in SUBSET (1 .. nextSeq' - 1)
    BY <1>2, FeedAssumption DEF TypeOK, Insert
  <2> QED
    BY <1>2, <2>1, <2>2, <2>3 DEF TypeOK, Insert, handlerVars, pageVars
<1>3. ASSUME NEW e \in store, InsertAgain(e)
      PROVE  TypeOK'
  <2>1. e \in Seqs
    BY StoredAreSeqs
  <2>2. scheduled' \in Seq(Seqs)
    BY <1>3, <2>1, AppendProperties DEF TypeOK, InsertAgain
  <2> QED
    BY <1>3, <2>1, <2>2 DEF TypeOK, InsertAgain, storeVars, handlerVars, pageVars
<1>4. ASSUME NEW old \in SUBSET store, PollEnd(old)
      PROVE  TypeOK'
  BY <1>4 DEF TypeOK, PollEnd, Newest, handlerVars, pageVars
<1>5. CASE PollFails
  BY <1>5 DEF TypeOK, PollFails, storeVars, handlerVars, pageVars
<1>6. ASSUME NEW e \in store, Repeat(e)
      PROVE  TypeOK'
  <2>1. e \in Seqs
    BY StoredAreSeqs
  <2>2. scheduled' \in Seq(Seqs)
    BY <1>6, <2>1, AppendProperties DEF TypeOK, Repeat
  <2>3. failures' \in 0 .. MaxFailures
    BY <1>6, FeedAssumption DEF TypeOK, Repeat, Fail
  <2> QED
    BY <1>6, <2>1, <2>2, <2>3 DEF TypeOK, Repeat, storeVars, handlerVars, pageVars
<1> QED
  BY <1>1, <1>2, <1>3, <1>4, <1>5, <1>6

LEMMA PublishTypes == ASSUME TypeOK, Publish PROVE TypeOK'
<1>1. Head(scheduled) \in Seqs /\ Tail(scheduled) \in Seq(Seqs)
  BY HeadTailProperties DEF TypeOK, Publish
<1>2. ASSUME NEW c \in Clients
      PROVE  /\ Append(queue[c], Head(scheduled)) \in Seq(Seqs)
             /\ Len(queue[c]) \in Nat
             /\ Len(Append(queue[c], Head(scheduled))) = Len(queue[c]) + 1
  BY <1>1, AppendProperties, LenProperties DEF TypeOK
<1>3. queue' \in [Clients -> Seq(Seqs)]
  BY <1>2 DEF TypeOK, Publish
<1>4. \A c \in Clients : Len(queue'[c]) <= QueueSize
  BY <1>2, FeedAssumption DEF TypeOK, Publish, Full
<1>5. dropped' \in [Clients -> SUBSET Seqs]
  BY <1>1 DEF TypeOK, Publish
<1> QED
  BY <1>1, <1>3, <1>4, <1>5 DEF TypeOK, Publish, storeVars, pageVars

LEMMA HandlerTypes ==
    ASSUME TypeOK, NEW c \in Clients, HandlerStep(c)
    PROVE  TypeOK'
<1>1. \A seq : RowsAfter(seq) \in SUBSET Seqs
  BY StoredAreSeqs DEF RowsAfter
<1>2. CASE Accept(c)
  <2>1. <<>> \in Seq(Seqs) /\ Len(<<>>) = 0
    BY EmptySeq
  <2>2. /\ handler' \in [Clients -> {"none", "drain", "live"}]
        /\ page' \in [Clients -> SUBSET Seqs] /\ lastSeq' \in [Clients -> 0 .. MaxSeq]
    BY <1>1, <1>2 DEF TypeOK, Accept, Fetch
  <2>3. /\ queue' \in [Clients -> Seq(Seqs)]
        /\ \A d \in Clients : Len(queue'[d]) <= QueueSize
    BY <1>2, <2>1, FeedAssumption DEF TypeOK, Accept
  <2>4. /\ stream' \in [Clients -> Seq(Seqs)] /\ received' \in [Clients -> Nat]
        /\ \A d \in Clients : received'[d] <= Len(stream'[d])
    BY <1>2, <2>1 DEF TypeOK, Accept
  <2>5. /\ UNCHANGED <<storeVars, pollVars, after, pageVars, dropped, failures>>
        /\ conn' = [conn EXCEPT ![c] = "open"]
    BY <1>2 DEF Accept
  <2> QED
    BY <2>2, <2>3, <2>4, <2>5 DEF TypeOK, storeVars, pollVars, pageVars
<1>3. CASE SendRow(c)
  <2>1. PICK e \in page[c] : /\ page' = [page EXCEPT ![c] = @ \ {e}]
                             /\ stream' = [stream EXCEPT ![c] = Append(@, e)]
                             /\ lastSeq' = [lastSeq EXCEPT ![c] = Larger(@, e)]
    BY <1>3 DEF SendRow
  <2>2. e \in Seqs
    BY DEF TypeOK
  <2>3. /\ Append(stream[c], e) \in Seq(Seqs) /\ Len(stream[c]) \in Nat
        /\ Len(Append(stream[c], e)) = Len(stream[c]) + 1
    BY <2>2, AppendProperties, LenProperties DEF TypeOK
  <2>4. lastSeq' \in [Clients -> 0 .. MaxSeq]
    BY <2>1, <2>2 DEF TypeOK, Larger, Seqs
  <2>5. /\ stream' \in [Clients -> Seq(Seqs)]
        /\ \A d \in Clients : received[d] <= Len(stream'[d])
    <3> DEFINE s == Append(stream[c], e)
    <3>1. stream' = [stream EXCEPT ![c] = s]
      BY <2>1
    <3>2. s \in Seq(Seqs) /\ received[c] <= Len(s)
      BY <2>3 DEF TypeOK
    <3> HIDE DEF s
    <3> QED
      BY <3>1, <3>2 DEF TypeOK
  <2>6. page' \in [Clients -> SUBSET Seqs]
    BY <2>1 DEF TypeOK
  <2>7. UNCHANGED <<storeVars, pollVars, handler, queue, conn, after, received,
                    pageVars, dropped, failures>>
    BY <1>3 DEF SendRow
  <2> QED
    BY <2>4, <2>5, <2>6, <2>7 DEF TypeOK, storeVars, pollVars, pageVars
<1>4. CASE NextPage(c)
  BY <1>1, <1>4 DEF TypeOK, NextPage, Fetch, storeVars, pollVars, pageVars
<1>5. CASE Follow(c)
  <2>1. /\ Head(queue[c]) \in Seqs /\ Tail(queue[c]) \in Seq(Seqs)
        /\ Len(Tail(queue[c])) = Len(queue[c]) - 1 /\ Len(queue[c]) \in Nat
    BY <1>5, HeadTailProperties, LenProperties DEF TypeOK, Follow
  <2>2. /\ Append(stream[c], Head(queue[c])) \in Seq(Seqs) /\ Len(stream[c]) \in Nat
        /\ Len(Append(stream[c], Head(queue[c]))) = Len(stream[c]) + 1
    BY <2>1, AppendProperties, LenProperties DEF TypeOK
  <2>3. /\ stream' \in [Clients -> Seq(Seqs)]
        /\ \A d \in Clients : received[d] <= Len(stream'[d])
    <3> DEFINE s == IF Covered(c, Head(queue[c])) THEN stream[c]
                    ELSE Append(stream[c], Head(queue[c]))
    <3>1. stream' = [stream EXCEPT ![c] = s]
      BY <1>5 DEF Follow
    <3>2. s \in Seq(Seqs) /\ received[c] <= Len(s)
      BY <2>2 DEF TypeOK
    <3> HIDE DEF s
    <3> QED
      BY <3>1, <3>2 DEF TypeOK
  <2>4. /\ queue' \in [Clients -> Seq(Seqs)]
        /\ \A d \in Clients : Len(queue'[d]) <= QueueSize
    <3>1. queue' = [queue EXCEPT ![c] = Tail(@)]
      BY <1>5 DEF Follow
    <3>2. Len(Tail(queue[c])) <= QueueSize
      BY <2>1, FeedAssumption DEF TypeOK
    <3> QED
      BY <2>1, <3>1, <3>2 DEF TypeOK
  <2>5. UNCHANGED <<storeVars, pollVars, handler, lastSeq, page, conn, after,
                    received, pageVars, dropped, failures>>
    BY <1>5 DEF Follow
  <2> QED
    BY <2>3, <2>4, <2>5 DEF TypeOK, storeVars, pollVars, pageVars
<1> QED
  BY <1>2, <1>3, <1>4, <1>5 DEF HandlerStep

\* What a merge leaves as maxSeq: the page's own, or a row of the response
LEMMA MergedSeqIsMax ==
    ASSUME TypeOK, NEW c \in Clients, fetch[c] # NoFetch
    PROVE  /\ MergedSeq(c) \in fetch[c] \cup {maxSeq[c]}
           /\ \A f \in fetch[c] \cup {maxSeq[c]} : f <= MergedSeq(c)
           /\ MergedSeq(c) \in 0 .. MaxSeq
<1> DEFINE S == fetch[c] \cup {maxSeq[c]}
<1>1. S \in SUBSET Nat /\ S # {} /\ \A e \in S : e <= MaxSeq
  BY FeedAssumption DEF TypeOK, Seqs
<1>2. S \in SUBSET (0 .. MaxSeq)
  BY <1>1
<1> HIDE DEF S
<1>3. MaxOf(S, 0) \in S /\ \A f \in S : f <= MaxOf(S, 0)
  BY <1>1, FeedAssumption, MaxOfSeqs
<1> QED
  BY <1>2, <1>3 DEF S, MergedSeq

LEMMA PageTypes ==
    ASSUME TypeOK, NEW c \in Clients,
           \/ PageStep(c) \/ Merge(c)
           \/ \E s \in Sessions, rows \in SUBSET store : Request(c, s, rows)
    PROVE  TypeOK'
<1>1. CASE Open(c)
  BY <1>1 DEF TypeOK, Open, storeVars, pollVars, handlerVars, pageVars
<1>2. CASE Receive(c)
  <2>1. Len(stream[c]) \in Nat
    BY LenProperties DEF TypeOK
  <2>2. received[c] + 1 \in 1 .. Len(stream[c])
    BY <1>2, <2>1 DEF TypeOK, Receive
  <2>3. stream[c][received[c] + 1] \in Seqs
    BY <2>2, ElementOfSeq DEF TypeOK
  <2>4. maxSeq' \in [Clients -> 0 .. MaxSeq]
    BY <1>2, <2>3 DEF TypeOK, Receive, Larger, Seqs
  <2>5. events' \in [Clients -> SUBSET Seqs]
    BY <1>2, <2>3 DEF TypeOK, Receive
  <2>6. /\ received' \in [Clients -> Nat]
        /\ \A d \in Clients : received'[d] <= Len(stream[d])
    BY <1>2, <2>1, <2>2 DEF TypeOK, Receive
  <2> QED
    BY <1>2, <2>4, <2>5, <2>6 DEF TypeOK, Receive, storeVars, pollVars, handlerVars
<1>3. CASE Merge(c)
  <2>1. fetch[c] # NoFetch /\ fetch[c] \in SUBSET Seqs
    BY <1>3 DEF TypeOK, Merge
  <2>2. maxSeq' \in [Clients -> 0 .. MaxSeq]
    BY <1>3, <2>1, MergedSeqIsMax DEF TypeOK, Merge
  <2> QED
    BY <1>3, <2>1, <2>2 DEF TypeOK, Merge, storeVars, pollVars, handlerVars
<1>4. ASSUME NEW s \in Sessions, NEW rows \in SUBSET store, Request(c, s, rows)
      PROVE  TypeOK'
  BY <1>4, StoredAreSeqs DEF TypeOK, Request, storeVars, pollVars, handlerVars
<1> QED
  BY <1>1, <1>2, <1>3, <1>4 DEF PageStep

LEMMA FailureTypes ==
    ASSUME TypeOK, Crash \/ \E c \in Clients : Disconnect(c)
    PROVE  TypeOK'
<1>1. CASE Crash
  <2>1. <<>> \in Seq(Seqs)
    BY EmptySeq
  <2> QED
    BY <1>1, <2>1, LoseTypes DEF TypeOK, Crash, storeVars
<1>2. ASSUME NEW c \in Clients, Disconnect(c)
      PROVE  TypeOK'
  BY <1>2, LoseTypes DEF TypeOK, Disconnect, storeVars, pollVars, pageVars
<1> QED
  BY <1>1, <1>2

LEMMA StepTypes == TypeOK /\ [Next]_vars => TypeOK'
<1> SUFFICES ASSUME TypeOK, [Next]_vars PROVE TypeOK'
  OBVIOUS
<1>1. CASE UNCHANGED vars
  BY <1>1 DEF vars, storeVars, pollVars, handlerVars, pageVars, TypeOK
<1>2. CASE Next
  BY <1>2, CollectorTypes, PublishTypes, HandlerTypes, PageTypes, FailureTypes
  DEF Next, HandlerStep, PageStep
<1> QED
  BY <1>1, <1>2

-----------------------------------------------------------------------------
(***************************************************************************)
(* The inductive invariant                                                 *)
(***************************************************************************)

\* What is announced is in seen, and its seq is behind the counter.
Announced == Elements(scheduled) \subseteq seen /\ \A e \in seen : e < nextSeq

\* Every seq a connection or a page knows is behind the counter.
Behind(c) ==
    /\ lastSeq[c] < nextSeq /\ maxSeq[c] < nextSeq /\ after[c] <= maxSeq[c]
    /\ \A e \in page[c] \cup Elements(stream[c]) : e < nextSeq
    /\ fetch[c] # NoFetch => \A e \in fetch[c] : e < nextSeq

\* What a connection has while nobody handles it: nothing
Unhandled(c) ==
    /\ conn[c] = "open" <=> handler[c] # "none"
    /\ handler[c] = "none" =>
          queue[c] = <<>> /\ page[c] = {} /\ stream[c] = <<>> /\ lastSeq[c] = 0

\* What the replay has covered.  Up to lastSeq, all that is stored has been
\* sent; the page is what follows it in the store; and once the handler is
\* live, what is stored beyond lastSeq has been announced in this lifetime.
Replayed(c) ==
    /\ handler[c] # "none" => after[c] <= lastSeq[c]
    /\ handler[c] = "drain" => \A e \in Elements(stream[c]) : e <= lastSeq[c]
    /\ handler[c] = "live" =>
          page[c] = {} /\ \A e \in store : lastSeq[c] < e => e \in seen
    /\ \A e \in page[c] : lastSeq[c] < e
    /\ \A f \in page[c], e \in store : lastSeq[c] < e /\ e <= f => e \in page[c]
    /\ \A e \in store : after[c] < e /\ e <= lastSeq[c] => e \in Elements(stream[c])
    /\ \A e \in Elements(stream[c]) : after[c] < e

\* Announcements travel from scheduled to the queue to the stream.  For a live
\* handler, what is ahead of a stored event that the replay has not covered, and
\* that was announced once, is older than the event.
Uncovered(c) == {e \in store \ again : lastSeq[c] < e}
Ascending(c) == handler[c] = "live" =>
    /\ \A k \in 1 .. Len(queue[c]) : queue[c][k] \in Uncovered(c) =>
          /\ \A e \in Elements(stream[c]) : e < queue[c][k]
          /\ \A j \in 1 .. k - 1 : queue[c][j] < queue[c][k]
    /\ \A k \in 1 .. Len(scheduled) : scheduled[k] \in Uncovered(c) =>
          /\ \A e \in Elements(stream[c]) \cup Elements(queue[c]) : e < scheduled[k]
          /\ \A j \in 1 .. k - 1 : scheduled[j] < scheduled[k]

\* What a queue holds was announced by this process.
Queued(c) == Elements(queue[c]) \subseteq seen

\* Whatever is announced, also twice, the older events that are stored come no
\* later than it does, or were dropped.
Preceded(c) == handler[c] = "live" => \A f \in store : lastSeq[c] < f =>
    /\ \A k \in 1 .. Len(queue[c]) : f <= queue[c][k] =>
          f \in dropped[c] \cup Elements(stream[c]) \/ \E j \in 1 .. k : queue[c][j] = f
    /\ \A k \in 1 .. Len(scheduled) : f <= scheduled[k] =>
          \/ f \in dropped[c] \cup Elements(stream[c]) \cup Elements(queue[c])
          \/ \E j \in 1 .. k : scheduled[j] = f

\* StreamInOrder, NothingBetween and NoSilentGap for one client
Sorted(c) ==
    \A i \in 1 .. Len(stream[c]) : stream[c][i] \in store \ again =>
        \A j \in 1 .. i - 1 : stream[c][j] < stream[c][i]
Covers(c) == handler[c] = "live" =>
    \A e \in store : after[c] < e =>
        e \in Elements(stream[c]) \cup Elements(queue[c]) \cup
              Elements(scheduled) \cup dropped[c]
Honest(c) ==
    \A e \in store : e <= maxSeq[c] => e \in events[c] \cup dropped[c] \cup jumped[c]

\* The stream has no hole: what is stored up to one of its events is in it
\* before that event, or was dropped.
NoHole(c) ==
    \A i \in 1 .. Len(stream[c]), f \in store : after[c] < f /\ f <= stream[c][i] =>
        f \in dropped[c] \/ \E j \in 1 .. i : stream[c][j] = f

\* The page keeps what it has received.
Got(c) == \A i \in 1 .. received[c] : stream[c][i] \in events[c]

PerClient(c) ==
    /\ Behind(c) /\ Unhandled(c) /\ Replayed(c) /\ Ascending(c) /\ Queued(c)
    /\ Preceded(c) /\ Sorted(c) /\ Covers(c) /\ Honest(c) /\ NoHole(c) /\ Got(c)
IInv == Announced /\ \A c \in Clients : PerClient(c)

LEMMA ElementsAre ==
    ASSUME NEW s \in Seq(Seqs)
    PROVE  /\ Len(s) \in Nat /\ DOMAIN s = 1 .. Len(s)
           /\ Elements(s) = {s[i] : i \in 1 .. Len(s)} /\ Elements(s) \subseteq Seqs
           /\ \A i \in 1 .. Len(s) : s[i] \in Elements(s) /\ s[i] \in Seqs
  BY LenProperties, ElementOfSeq DEF Elements

LEMMA ElementAt ==
    ASSUME NEW s \in Seq(Seqs), NEW e \in Elements(s)
    PROVE  \E k \in 1 .. Len(s) : s[k] = e
  BY LenProperties DEF Elements

LEMMA EmptyHasNone == Elements(<<>>) = {} /\ Len(<<>>) = 0 /\ <<>> \in Seq(Seqs)
  BY EmptySeq DEF Elements

\* The types of one client's part of the state
LEMMA ClientTypes ==
    ASSUME TypeOK, NEW c \in Clients
    PROVE  /\ queue[c] \in Seq(Seqs) /\ stream[c] \in Seq(Seqs) /\ scheduled \in Seq(Seqs)
           /\ lastSeq[c] \in Nat /\ maxSeq[c] \in Nat /\ after[c] \in Nat
           /\ received[c] \in Nat /\ nextSeq \in Nat /\ page[c] \in SUBSET Seqs
           /\ fetch[c] # NoFetch => fetch[c] \in SUBSET Seqs
           /\ Seqs \subseteq Nat /\ store \in SUBSET Seqs
<1>1. Seqs \subseteq Nat /\ 0 .. MaxSeq \subseteq Nat /\ 1 .. MaxSeq + 1 \subseteq Nat
  BY FeedAssumption DEF Seqs
<1> QED
  BY <1>1, StoredAreSeqs DEF TypeOK

LEMMA InitIInv == Init => IInv
<1> SUFFICES ASSUME Init PROVE IInv
  OBVIOUS
<1>1. Elements(<<>>) = {} /\ Len(<<>>) = 0
  BY EmptyHasNone
<1>2. Announced
  BY <1>1 DEF Announced, Init
<1>3. ASSUME NEW c \in Clients
      PROVE  PerClient(c)
  BY <1>1 DEF Init, PerClient, Behind, Unhandled, Replayed, Ascending, Queued, Preceded,
              Sorted, Covers, Honest, NoHole, Got
<1> QED
  BY <1>2, <1>3 DEF IInv

\* What a step leaves of a client's part of the state and of the announcements
SharedSame == /\ store' = store /\ nextSeq' = nextSeq /\ again' = again
              /\ seen' = seen /\ scheduled' = scheduled
ServerSame(c) == /\ handler'[c] = handler[c] /\ queue'[c] = queue[c]
                 /\ lastSeq'[c] = lastSeq[c] /\ page'[c] = page[c]
                 /\ stream'[c] = stream[c]
WireSame(c) == conn'[c] = conn[c] /\ after'[c] = after[c] /\ received'[c] = received[c]
PageSame(c) == /\ maxSeq'[c] = maxSeq[c] /\ events'[c] = events[c]
               /\ fetch'[c] = fetch[c] /\ jumped'[c] = jumped[c]
Same(c) == ServerSame(c) /\ WireSame(c) /\ PageSame(c) /\ dropped'[c] = dropped[c]

LEMMA SameKeeps ==
    ASSUME NEW c \in Clients, PerClient(c), SharedSame, Same(c)
    PROVE  PerClient(c)'
  BY DEF SharedSame, Same, ServerSame, WireSame, PageSame, PerClient, Behind, Unhandled,
         Replayed, Ascending, Uncovered, Queued, Preceded, Sorted, Covers, Honest, NoHole,
         Got

-----------------------------------------------------------------------------
(***************************************************************************)
(* The steps of the collector                                              *)
(***************************************************************************)

\* Announcing one more event: it is announced last.
LEMMA OneMore ==
    ASSUME TypeOK, NEW n \in Seqs, scheduled' = Append(scheduled, n)
    PROVE  /\ scheduled \in Seq(Seqs) /\ Len(scheduled) \in Nat
           /\ scheduled' \in Seq(Seqs) /\ Elements(scheduled') = Elements(scheduled) \cup {n}
           /\ Len(scheduled') = Len(scheduled) + 1 /\ scheduled'[Len(scheduled) + 1] = n
           /\ \A k \in 1 .. Len(scheduled) : scheduled'[k] = scheduled[k]
           /\ \A k \in 1 .. Len(scheduled') :
                 \/ k \in 1 .. Len(scheduled)
                 \/ k = Len(scheduled) + 1 /\ scheduled'[k] = n
<1>1. /\ scheduled \in Seq(Seqs) /\ Len(scheduled) \in Nat
      /\ scheduled' \in Seq(Seqs) /\ Elements(scheduled') = Elements(scheduled) \cup {n}
      /\ Len(scheduled') = Len(scheduled) + 1 /\ scheduled'[Len(scheduled) + 1] = n
      /\ \A k \in 1 .. Len(scheduled) : scheduled'[k] = scheduled[k]
  BY ElementsOfAppend, AppendProperties, LenProperties DEF TypeOK
<1> QED
  BY <1>1

LEMMA AppendAscending ==
    ASSUME TypeOK, NEW c \in Clients, Ascending(c), Same(c), NEW n \in Seqs,
           scheduled' = Append(scheduled, n), Uncovered(c)' \subseteq Uncovered(c) \cup {n},
           handler[c] = "live" /\ n \in Uncovered(c)' =>
              \A e \in Elements(stream[c]) \cup Elements(queue[c]) \cup Elements(scheduled) :
                  e < n
    PROVE  Ascending(c)'
<1> USE DEF Same, ServerSame
<1>1. SUFFICES ASSUME handler[c] = "live"
               PROVE  Ascending(c)'
  BY DEF Ascending
<1>2. /\ Len(scheduled) \in Nat /\ n \in Nat
      /\ Len(scheduled') = Len(scheduled) + 1 /\ scheduled'[Len(scheduled) + 1] = n
      /\ \A k \in 1 .. Len(scheduled) : scheduled'[k] = scheduled[k]
      /\ \A k \in 1 .. Len(scheduled') :
            k \in 1 .. Len(scheduled) \/ (k = Len(scheduled) + 1 /\ scheduled'[k] = n)
  BY OneMore, ClientTypes
<1>3. /\ \A k \in 1 .. Len(queue[c]) : queue[c][k] \in Elements(queue[c])
      /\ \A k \in 1 .. Len(scheduled) : scheduled[k] \in Elements(scheduled)
  BY ClientTypes, ElementsAre
<1>4. \A e \in Elements(stream[c]) \cup Elements(queue[c]) \cup Elements(scheduled) :
          e \in Uncovered(c)' => e \in Uncovered(c)
  BY <1>1, <1>2
<1>5. ASSUME NEW k \in 1 .. Len(queue[c]), queue[c][k] \in Uncovered(c)'
      PROVE  /\ \A e \in Elements(stream[c]) : e < queue[c][k]
             /\ \A j \in 1 .. k - 1 : queue[c][j] < queue[c][k]
  BY <1>1, <1>3, <1>4, <1>5 DEF Ascending
<1>6. ASSUME NEW k \in 1 .. Len(scheduled'), scheduled'[k] \in Uncovered(c)'
      PROVE  /\ \A e \in Elements(stream[c]) \cup Elements(queue[c]) : e < scheduled'[k]
             /\ \A j \in 1 .. k - 1 : scheduled'[j] < scheduled'[k]
  <2>1. \A j \in 1 .. k - 1 : j \in 1 .. Len(scheduled) /\ scheduled'[j] = scheduled[j]
    BY <1>2
  <2>2. CASE k \in 1 .. Len(scheduled)
    <3>1. scheduled'[k] = scheduled[k] /\ scheduled[k] \in Uncovered(c)
      BY <1>2, <1>3, <1>4, <1>6, <2>2
    <3> QED
      BY <1>1, <2>1, <2>2, <3>1 DEF Ascending
  <2>3. CASE k = Len(scheduled) + 1 /\ scheduled'[k] = n
    BY <1>1, <1>3, <1>6, <2>1, <2>3
  <2> QED
    BY <1>2, <2>2, <2>3
<1> QED
  BY <1>5, <1>6 DEF Ascending

LEMMA AppendPreceded ==
    ASSUME TypeOK, NEW c \in Clients, PerClient(c), Same(c), NEW n \in Seqs,
           scheduled' = Append(scheduled, n),
           store' = store
              \/ /\ store' = store \cup {n}
                 /\ \A e \in Elements(queue[c]) \cup Elements(scheduled) : ~ (n <= e)
    PROVE  Preceded(c)'
<1> USE DEF Same, ServerSame
<1> SUFFICES ASSUME handler[c] = "live", NEW f \in store', lastSeq[c] < f
             PROVE  /\ \A k \in 1 .. Len(queue[c]) : f <= queue[c][k] =>
                           \/ f \in dropped[c] \cup Elements(stream[c])
                           \/ \E j \in 1 .. k : queue[c][j] = f
                    /\ \A k \in 1 .. Len(scheduled') : f <= scheduled'[k] =>
                           \/ f \in dropped[c] \cup Elements(stream[c]) \cup Elements(queue[c])
                           \/ \E j \in 1 .. k : scheduled'[j] = f
  BY DEF Preceded
<1>1. /\ Len(scheduled) \in Nat /\ scheduled \in Seq(Seqs)
      /\ Len(scheduled') = Len(scheduled) + 1 /\ scheduled'[Len(scheduled) + 1] = n
      /\ \A k \in 1 .. Len(scheduled) : scheduled'[k] = scheduled[k]
      /\ \A k \in 1 .. Len(scheduled') :
            k \in 1 .. Len(scheduled) \/ (k = Len(scheduled) + 1 /\ scheduled'[k] = n)
  BY OneMore
<1>2. \A k \in 1 .. Len(scheduled) : \A j \in 1 .. k : scheduled'[j] = scheduled[j]
  BY <1>1
<1>3. CASE f \in store
  <2>1. f \in Elements(stream[c]) \cup Elements(queue[c]) \cup Elements(scheduled)
                 \cup dropped[c]
    <3>1. after[c] <= lastSeq[c] /\ after[c] \in Nat /\ lastSeq[c] \in Nat /\ f \in Nat
      BY <1>3, ClientTypes DEF PerClient, Replayed
    <3>2. after[c] < f
      BY <3>1
    <3> QED
      BY <1>3, <3>2 DEF PerClient, Covers
  <2>2. ASSUME NEW k \in 1 .. Len(scheduled'), f <= scheduled'[k]
        PROVE  \/ f \in dropped[c] \cup Elements(stream[c]) \cup Elements(queue[c])
               \/ \E j \in 1 .. k : scheduled'[j] = f
    <3>1. CASE k \in 1 .. Len(scheduled)
      <4>1. f <= scheduled[k]
        BY <1>1, <2>2, <3>1
      <4>2. \/ f \in dropped[c] \cup Elements(stream[c]) \cup Elements(queue[c])
            \/ \E j \in 1 .. k : scheduled[j] = f
        BY <1>3, <3>1, <4>1 DEF PerClient, Preceded
      <4> QED
        BY <1>2, <3>1, <4>2
    <3>2. CASE k = Len(scheduled) + 1
      <4>1. CASE f \in Elements(scheduled)
        <5>1. PICK j \in 1 .. Len(scheduled) : scheduled[j] = f
          BY <1>1, <4>1, ElementAt
        <5> QED
          BY <1>1, <3>2, <5>1
      <4> QED
        BY <2>1, <4>1
    <3> QED
      BY <1>1, <3>1, <3>2
  <2> QED
    BY <1>3, <2>2 DEF PerClient, Preceded
<1>4. CASE f \notin store
  <2>0. /\ \A k \in 1 .. Len(queue[c]) : queue[c][k] \in Elements(queue[c])
        /\ \A k \in 1 .. Len(scheduled) : scheduled[k] \in Elements(scheduled)
    BY ClientTypes, ElementsAre DEF TypeOK
  <2>1. /\ f = n
        /\ \A k \in 1 .. Len(queue[c]) : ~ (n <= queue[c][k])
        /\ \A k \in 1 .. Len(scheduled) : ~ (n <= scheduled[k])
    BY <1>4, <2>0
  <2>2. \A k \in 1 .. Len(scheduled') :
            f <= scheduled'[k] => \E j \in 1 .. k : scheduled'[j] = f
    BY <1>1, <2>1
  <2> QED
    BY <2>1, <2>2
<1> QED
  BY <1>3, <1>4

LEMMA InsertKeeps == ASSUME TypeOK, IInv, Insert PROVE IInv'
<1> DEFINE n == nextSeq
<1>1. /\ store' = store \cup {n} /\ nextSeq' = n + 1 /\ seen' = seen \cup {n}
      /\ scheduled' = Append(scheduled, n) /\ n \in Seqs /\ n \in Nat /\ again' = again
  BY FeedAssumption DEF Insert, TypeOK, Seqs
<1>2. /\ scheduled \in Seq(Seqs) /\ Len(scheduled) \in Nat
      /\ scheduled' \in Seq(Seqs) /\ Elements(scheduled') = Elements(scheduled) \cup {n}
      /\ Len(scheduled') = Len(scheduled) + 1 /\ scheduled'[Len(scheduled) + 1] = n
      /\ \A k \in 1 .. Len(scheduled) : scheduled'[k] = scheduled[k]
  BY <1>1, ElementsOfAppend, AppendProperties, LenProperties DEF TypeOK
<1>3. \A k \in 1 .. Len(scheduled') :
          \/ k \in 1 .. Len(scheduled)
          \/ k = Len(scheduled) + 1 /\ scheduled'[k] = n
  BY <1>2
<1>4. /\ Elements(scheduled) \subseteq seen /\ \A e \in seen : e < n /\ e \in Nat
      /\ \A k \in 1 .. Len(scheduled) : scheduled[k] \in seen /\ scheduled[k] # n
  <2>1. /\ Elements(scheduled) \subseteq seen /\ \A e \in seen : e < n
        /\ seen \subseteq Nat
    BY FeedAssumption DEF IInv, Announced, TypeOK, Seqs
  <2>2. \A k \in 1 .. Len(scheduled) : scheduled[k] \in Elements(scheduled)
    BY <1>2, ElementsAre
  <2> QED
    BY <1>1, <2>1, <2>2
<1>5. Announced'
  BY <1>1, <1>2, <1>4 DEF Announced
<1>6. ASSUME NEW c \in Clients
      PROVE  PerClient(c)'
  <2>1. PerClient(c)
    BY DEF IInv
  <2>2. Same(c)
    BY DEF Insert, handlerVars, pageVars, Same, ServerSame, WireSame, PageSame
  <2> USE <2>2 DEF Same, ServerSame, WireSame, PageSame
  <2>3. /\ queue[c] \in Seq(Seqs) /\ stream[c] \in Seq(Seqs)
        /\ lastSeq[c] \in Nat /\ maxSeq[c] \in Nat /\ after[c] \in Nat
        /\ page[c] \subseteq Nat /\ store \subseteq Nat /\ Elements(stream[c]) \subseteq Nat
        /\ fetch[c] # NoFetch => fetch[c] \subseteq Nat
        /\ \A k \in 1 .. Len(queue[c]) : queue[c][k] \in Elements(queue[c])
        /\ \A k \in 1 .. Len(stream[c]) : stream[c][k] \in Elements(stream[c])
    BY ClientTypes, ElementsAre
  <2>4. /\ lastSeq[c] < n /\ maxSeq[c] < n
        /\ \A e \in page[c] \cup Elements(stream[c]) : e < n
        /\ \A e \in Elements(queue[c]) : e < n /\ e # n /\ e \in Nat
        /\ \A i \in 1 .. Len(stream[c]) : stream[c][i] < n /\ stream[c][i] # n
    BY <1>4, <2>1, <2>3 DEF PerClient, Behind, Queued
  <2>5. Behind(c)' /\ Unhandled(c)'
    BY <1>1, <2>1, <2>3 DEF PerClient, Behind, Unhandled
  <2>6. Replayed(c)'
    BY <1>1, <2>1, <2>3, <2>4 DEF PerClient, Replayed
  <2>7. Ascending(c)'
    <3>1. Uncovered(c)' \subseteq Uncovered(c) \cup {n}
      BY <1>1 DEF Uncovered
    <3>2. \A e \in Elements(stream[c]) \cup Elements(queue[c]) \cup Elements(scheduled) :
              e < n
      BY <1>4, <2>4
    <3> QED
      BY ONLY TypeOK, <1>1, <2>1, <2>2, <3>1, <3>2, AppendAscending DEF PerClient
  <2>8. Queued(c)' /\ Preceded(c)'
    <3>1. Queued(c)'
      BY <1>1, <2>1 DEF PerClient, Queued
    <3>2. \A e \in Elements(queue[c]) \cup Elements(scheduled) : ~ (n <= e)
      <4> SUFFICES ASSUME NEW e \in Elements(queue[c]) \cup Elements(scheduled)
                   PROVE  ~ (n <= e)
        OBVIOUS
      <4>1. e \in Nat /\ n \in Nat /\ e < n
        BY <1>1, <1>4, <2>4
      <4> QED
        BY ONLY <4>1
    <3>3. Preceded(c)'
      BY <1>1, <2>1, <2>2, <3>2, AppendPreceded
    <3> QED
      BY <3>1, <3>3
  <2>9. Sorted(c)' /\ NoHole(c)' /\ Got(c)'
    <3>1. \A i \in 1 .. Len(stream[c]) : stream[c][i] \in Nat
      BY <2>3
    <3>2. Sorted(c)'
      BY <1>1, <2>1, <2>4 DEF PerClient, Sorted
    <3>3. NoHole(c)'
      <4> SUFFICES ASSUME NEW i \in 1 .. Len(stream[c]), NEW f \in store',
                          after[c] < f, f <= stream[c][i]
                   PROVE  f \in dropped[c] \/ \E j \in 1 .. i : stream[c][j] = f
        BY DEF NoHole
      <4>1. f # n
        BY <1>1, <2>4, <3>1
      <4>2. f \in store
        BY <1>1, <4>1
      <4> QED
        BY <2>1, <4>2 DEF PerClient, NoHole
    <3> QED
      BY <2>1, <3>2, <3>3 DEF PerClient, Got
  <2>10. Covers(c)' /\ Honest(c)'
    BY <1>1, <1>2, <2>1, <2>3, <2>4 DEF PerClient, Covers, Honest
  <2> QED
    BY <2>5, <2>6, <2>7, <2>8, <2>9, <2>10 DEF PerClient
<1> QED
  BY <1>5, <1>6 DEF IInv

LEMMA AgainKeeps ==
    ASSUME TypeOK, IInv, NEW n \in store, InsertAgain(n) \/ Repeat(n)
    PROVE  IInv'
<1>1. /\ store' = store /\ nextSeq' = nextSeq /\ seen' = seen \cup {n}
      /\ scheduled' = Append(scheduled, n) /\ again \subseteq again'
      /\ n \notin seen \/ n \in again'
  BY DEF InsertAgain, Repeat, storeVars
<1>2. n \in Seqs /\ n \in Nat /\ n < nextSeq
  BY StoredAreSeqs
<1>3. Elements(scheduled') = Elements(scheduled) \cup {n}
  BY <1>1, <1>2, OneMore
<1>4. Announced'
  BY <1>1, <1>2, <1>3 DEF IInv, Announced
<1>5. ASSUME NEW c \in Clients
      PROVE  PerClient(c)'
  <2>1. PerClient(c)
    BY DEF IInv
  <2>2. Same(c)
    BY DEF InsertAgain, Repeat, handlerVars, pageVars, Same, ServerSame, WireSame, PageSame
  <2>3. Ascending(c)'
    <3>1. handler[c] = "live" => n \notin Uncovered(c)'
      BY <1>1, <2>1, <2>2 DEF PerClient, Replayed, Uncovered, Same, ServerSame
    <3>2. Uncovered(c)' \subseteq Uncovered(c)
      BY <1>1, <2>2 DEF Uncovered, Same, ServerSame
    <3> QED
      BY <1>1, <1>2, <2>1, <2>2, <3>1, <3>2, AppendAscending DEF PerClient
  <2>4. Preceded(c)'
    BY <1>1, <1>2, <2>1, <2>2, AppendPreceded
  <2> USE <2>2 DEF Same, ServerSame, WireSame, PageSame
  <2>5. Behind(c)' /\ Unhandled(c)' /\ Replayed(c)' /\ Queued(c)'
    BY <1>1, <2>1 DEF PerClient, Behind, Unhandled, Replayed, Queued
  <2>6. Sorted(c)' /\ NoHole(c)' /\ Got(c)'
    BY <1>1, <2>1 DEF PerClient, Sorted, NoHole, Got
  <2>7. Covers(c)' /\ Honest(c)'
    BY <1>1, <1>3, <2>1 DEF PerClient, Covers, Honest
  <2> QED
    BY <2>3, <2>4, <2>5, <2>6, <2>7 DEF PerClient
<1> QED
  BY <1>4, <1>5 DEF IInv

LEMMA PollKeeps ==
    ASSUME TypeOK, IInv, PollBegin \/ PollFails \/ \E old \in SUBSET store : PollEnd(old)
    PROVE  IInv'
<1>1. /\ store' \subseteq store /\ nextSeq' = nextSeq
      /\ seen' = seen /\ scheduled' = scheduled /\ again' = again
  BY DEF PollBegin, PollFails, PollEnd, Newest, storeVars
<1>2. Announced'
  BY <1>1 DEF IInv, Announced
<1>3. ASSUME NEW c \in Clients
      PROVE  PerClient(c)'
  <2>1. PerClient(c)
    BY DEF IInv
  <2>2. Same(c)
    BY DEF PollBegin, PollFails, PollEnd, handlerVars, pageVars, Same, ServerSame,
           WireSame, PageSame
  <2> USE <1>1, <2>1, <2>2 DEF Same, ServerSame, WireSame, PageSame, PerClient
  <2>3. Behind(c)' /\ Unhandled(c)' /\ Queued(c)' /\ Got(c)'
    BY DEF Behind, Unhandled, Queued, Got
  <2>4. Replayed(c)'
    BY DEF Replayed
  <2>5. Ascending(c)' /\ Preceded(c)'
    BY DEF Ascending, Uncovered, Preceded
  <2>6. Sorted(c)' /\ Covers(c)' /\ Honest(c)' /\ NoHole(c)'
    BY DEF Sorted, Covers, Honest, NoHole
  <2> QED
    BY <2>3, <2>4, <2>5, <2>6
<1> QED
  BY <1>2, <1>3 DEF IInv

-----------------------------------------------------------------------------
(***************************************************************************)
(* The hub                                                                 *)
(***************************************************************************)

LEMMA PublishKeeps == ASSUME TypeOK, IInv, Publish PROVE IInv'
<1> DEFINE n == Head(scheduled)
<1>1. /\ Elements(scheduled) = {n} \cup Elements(scheduled')
      /\ scheduled[1] = n /\ n \in Seqs /\ scheduled' \in Seq(Seqs)
      /\ Len(scheduled') = Len(scheduled) - 1
      /\ \A k \in 1 .. Len(scheduled) - 1 : scheduled'[k] = scheduled[k + 1]
  BY ElementsOfTail DEF Publish, TypeOK
<1>2. Len(scheduled) \in Nat \ {0}
  BY EmptySeq DEF Publish, TypeOK
<1>3. \A k \in 1 .. Len(scheduled') :
          /\ k + 1 \in 1 .. Len(scheduled) /\ k + 1 # 1 /\ scheduled'[k] = scheduled[k + 1]
  BY <1>1, <1>2
<1>4. store' = store /\ nextSeq' = nextSeq /\ seen' = seen /\ again' = again
  BY DEF Publish, storeVars
<1>5. Announced'
  BY <1>1, <1>4 DEF IInv, Announced
<1>6. ASSUME NEW c \in Clients
      PROVE  PerClient(c)'
  <2>1. PerClient(c)
    BY DEF IInv
  <2>2. /\ handler'[c] = handler[c] /\ lastSeq'[c] = lastSeq[c] /\ page'[c] = page[c]
        /\ stream'[c] = stream[c] /\ WireSame(c) /\ PageSame(c)
    BY DEF Publish, pageVars, WireSame, PageSame
  <2> USE <1>4, <2>2 DEF WireSame, PageSame
  <2>0. Uncovered(c)' = Uncovered(c)
    BY DEF Uncovered
  <2>3. /\ queue[c] \in Seq(Seqs) /\ stream[c] \in Seq(Seqs) /\ Len(queue[c]) \in Nat
        /\ \A k \in 1 .. Len(queue[c]) : queue[c][k] \in Elements(queue[c])
    BY ClientTypes, ElementsAre
  <2>4. Behind(c)' /\ Replayed(c)' /\ Sorted(c)' /\ Got(c)'
    BY <2>1 DEF PerClient, Behind, Replayed, Sorted, Got
  <2>5. dropped[c] \subseteq dropped'[c]
    BY DEF Publish, TypeOK
  <2>6. Honest(c)' /\ NoHole(c)'
    BY <2>1, <2>5 DEF PerClient, Honest, NoHole
  \* What the shorter scheduled says of the queue as it was
  <2>7. ASSUME handler[c] = "live", NEW k \in 1 .. Len(scheduled'),
               scheduled'[k] \in Uncovered(c)
        PROVE  /\ \A e \in Elements(stream[c]) \cup Elements(queue[c]) \cup {n} :
                      e < scheduled'[k]
               /\ \A j \in 1 .. k - 1 : scheduled'[j] < scheduled'[k]
    <3>1. /\ k + 1 \in 1 .. Len(scheduled) /\ scheduled'[k] = scheduled[k + 1]
          /\ 1 \in 1 .. (k + 1) - 1
      BY <1>3
    <3>2. /\ \A e \in Elements(stream[c]) \cup Elements(queue[c]) : e < scheduled'[k]
          /\ \A j \in 1 .. (k + 1) - 1 : scheduled[j] < scheduled'[k]
      BY <2>1, <2>7, <3>1 DEF PerClient, Ascending
    <3>3. \A j \in 1 .. k - 1 : /\ j + 1 \in 1 .. (k + 1) - 1
                                /\ scheduled'[j] = scheduled[j + 1]
      BY <1>1, <1>2
    <3> QED
      BY <1>1, <3>1, <3>2, <3>3
  <2>10. ASSUME handler[c] = "live", NEW f \in store, lastSeq[c] < f
         PROVE  /\ f <= n => f \in dropped[c] \cup Elements(stream[c]) \cup Elements(queue[c])
                                   \cup {n}
                /\ \A k \in 1 .. Len(scheduled') : f <= scheduled'[k] =>
                      \/ f \in dropped[c] \cup Elements(stream[c]) \cup Elements(queue[c])
                               \cup {n}
                      \/ \E j \in 1 .. k : scheduled'[j] = f
    <3>1. \A k \in 1 .. Len(scheduled) : f <= scheduled[k] =>
              \/ f \in dropped[c] \cup Elements(stream[c]) \cup Elements(queue[c])
              \/ \E j \in 1 .. k : scheduled[j] = f
      BY <2>1, <2>10 DEF PerClient, Preceded
    <3>2. f <= n => f \in dropped[c] \cup Elements(stream[c]) \cup Elements(queue[c]) \cup {n}
      BY <1>1, <1>2, <3>1
    <3>3. ASSUME NEW k \in 1 .. Len(scheduled'), f <= scheduled'[k], f # n,
                 NEW j \in 1 .. k + 1, scheduled[j] = f
          PROVE  \E i \in 1 .. k : scheduled'[i] = f
      <4>1. j - 1 \in 1 .. k /\ j - 1 \in 1 .. Len(scheduled')
        BY <1>1, <1>2, <3>3
      <4>2. scheduled'[j - 1] = scheduled[j]
        BY <1>3, <4>1
      <4> QED
        BY <3>3, <4>1, <4>2
    <3> QED
      BY <1>3, <3>1, <3>2, <3>3
  <2>8. CASE c \in Subscribers /\ ~ Full(c)
    <3>1. queue'[c] = Append(queue[c], n) /\ handler[c] # "none"
      BY <2>8 DEF Publish, Subscribers
    <3>2. /\ queue'[c] \in Seq(Seqs) /\ Elements(queue'[c]) = Elements(queue[c]) \cup {n}
          /\ Len(queue'[c]) = Len(queue[c]) + 1 /\ queue'[c][Len(queue[c]) + 1] = n
          /\ \A k \in 1 .. Len(queue[c]) : queue'[c][k] = queue[c][k]
      BY <1>1, <2>3, <3>1, ElementsOfAppend, AppendProperties
    <3>3. \A k \in 1 .. Len(queue'[c]) :
              \/ k \in 1 .. Len(queue[c])
              \/ k = Len(queue[c]) + 1 /\ queue'[c][k] = n
      BY <2>3, <3>2
    <3>4. n \in seen
      BY <1>1 DEF IInv, Announced
    <3>5. Unhandled(c)'
      BY <2>1, <3>1 DEF PerClient, Unhandled
    <3>6. Ascending(c)'
      <4> SUFFICES ASSUME handler[c] = "live" PROVE Ascending(c)'
        BY DEF Ascending
      <4>1. n \in Uncovered(c) =>
                \A e \in Elements(stream[c]) \cup Elements(queue[c]) : e < n
        BY <1>1, <1>2, <2>1 DEF PerClient, Ascending
      <4>2. ASSUME NEW k \in 1 .. Len(queue'[c]), queue'[c][k] \in Uncovered(c)
            PROVE  /\ \A e \in Elements(stream[c]) : e < queue'[c][k]
                   /\ \A j \in 1 .. k - 1 : queue'[c][j] < queue'[c][k]
        <5>1. \A j \in 1 .. k - 1 : j \in 1 .. Len(queue[c]) /\ queue'[c][j] = queue[c][j]
          BY <2>3, <3>2
        <5>2. CASE k \in 1 .. Len(queue[c])
          BY <2>1, <3>2, <4>2, <5>1, <5>2 DEF PerClient, Ascending
        <5>3. CASE k = Len(queue[c]) + 1 /\ queue'[c][k] = n
          <6>1. \A e \in Elements(stream[c]) \cup Elements(queue[c]) : e < n
            BY <4>1, <4>2, <5>3
          <6>2. \A j \in 1 .. k - 1 : queue'[c][j] \in Elements(queue[c])
            BY <2>3, <5>1
          <6> QED
            BY <5>3, <6>1, <6>2
        <5> QED
          BY <3>3, <5>2, <5>3
      <4>3. ASSUME NEW k \in 1 .. Len(scheduled'), scheduled'[k] \in Uncovered(c)
            PROVE  /\ \A e \in Elements(stream[c]) \cup Elements(queue'[c]) :
                          e < scheduled'[k]
                   /\ \A j \in 1 .. k - 1 : scheduled'[j] < scheduled'[k]
        BY <2>7, <3>2, <4>3
      <4> QED
        BY <2>0, <4>2, <4>3 DEF Ascending
    <3>7. Queued(c)' /\ Preceded(c)'
      <4>1. Queued(c)'
        BY <2>1, <3>2, <3>4 DEF PerClient, Queued
      <4>2. ASSUME handler[c] = "live", NEW f \in store, lastSeq[c] < f,
                   NEW k \in 1 .. Len(queue'[c]), f <= queue'[c][k]
            PROVE  \/ f \in dropped'[c] \cup Elements(stream[c])
                   \/ \E j \in 1 .. k : queue'[c][j] = f
        <5>1. CASE k \in 1 .. Len(queue[c])
          <6>1. f \in dropped[c] \cup Elements(stream[c]) \/ \E j \in 1 .. k : queue[c][j] = f
            BY <2>1, <3>2, <4>2, <5>1 DEF PerClient, Preceded
          <6>2. \A j \in 1 .. k : queue'[c][j] = queue[c][j]
            BY <2>3, <3>2, <5>1
          <6> QED
            BY <2>5, <6>1, <6>2
        <5>2. CASE k = Len(queue[c]) + 1 /\ queue'[c][k] = n
          <6>1. f \in dropped[c] \cup Elements(stream[c]) \cup Elements(queue'[c])
            BY <2>10, <3>2, <4>2, <5>2
          <6>2. f \in Elements(queue'[c]) => \E j \in 1 .. k : queue'[c][j] = f
            BY <3>2, <5>2, ElementAt
          <6> QED
            BY <2>5, <6>1, <6>2
        <5> QED
          BY <3>3, <5>1, <5>2
      <4>3. ASSUME handler[c] = "live", NEW f \in store, lastSeq[c] < f,
                   NEW k \in 1 .. Len(scheduled'), f <= scheduled'[k]
            PROVE  \/ f \in dropped'[c] \cup Elements(stream[c]) \cup Elements(queue'[c])
                   \/ \E j \in 1 .. k : scheduled'[j] = f
        BY <2>5, <2>10, <3>2, <4>3
      <4> QED
        BY <4>1, <4>2, <4>3 DEF Preceded
    <3>8. Covers(c)'
      BY <1>1, <2>1, <2>5, <3>2 DEF PerClient, Covers
    <3> QED
      BY <2>4, <2>6, <3>5, <3>6, <3>7, <3>8 DEF PerClient
  <2>9. CASE ~ (c \in Subscribers /\ ~ Full(c))
    <3>1. queue'[c] = queue[c]
      BY <2>9 DEF Publish
    <3>2. Unhandled(c)' /\ Queued(c)'
      BY <1>1, <2>1, <3>1 DEF PerClient, Unhandled, Queued
    <3>3. Ascending(c)'
      BY <2>0, <2>1, <2>7, <3>1 DEF PerClient, Ascending
    <3>4. handler[c] = "live" => dropped'[c] = dropped[c] \cup {n}
      BY <2>9 DEF Publish, Subscribers, TypeOK
    <3>5. Covers(c)'
      BY <1>1, <2>1, <3>1, <3>4 DEF PerClient, Covers
    <3>6. Preceded(c)'
      <4> SUFFICES ASSUME handler[c] = "live", NEW f \in store, lastSeq[c] < f
                   PROVE  /\ \A k \in 1 .. Len(queue[c]) : f <= queue[c][k] =>
                                 \/ f \in dropped'[c] \cup Elements(stream[c])
                                 \/ \E j \in 1 .. k : queue[c][j] = f
                          /\ \A k \in 1 .. Len(scheduled') : f <= scheduled'[k] =>
                                 \/ f \in dropped'[c] \cup Elements(stream[c])
                                          \cup Elements(queue[c])
                                 \/ \E j \in 1 .. k : scheduled'[j] = f
        BY <3>1 DEF Preceded
      <4>1. \A k \in 1 .. Len(queue[c]) : f <= queue[c][k] =>
                f \in dropped[c] \cup Elements(stream[c]) \/ \E j \in 1 .. k : queue[c][j] = f
        BY <2>1 DEF PerClient, Preceded
      <4> QED
        BY <2>10, <3>4, <4>1
    <3> QED
      BY <2>4, <2>6, <3>2, <3>3, <3>5, <3>6 DEF PerClient
  <2> QED
    BY <2>8, <2>9
<1> QED
  BY <1>5, <1>6 DEF IInv

-----------------------------------------------------------------------------
(***************************************************************************)
(* The WebSocket handler                                                   *)
(***************************************************************************)

\* A step of one client that touches nothing shared
LEMMA OneClient ==
    ASSUME IInv, NEW c \in Clients, SharedSame, PerClient(c)',
           \A d \in Clients \ {c} : Same(d)
    PROVE  IInv'
<1>1. Announced'
  BY DEF IInv, Announced, SharedSame
<1>2. ASSUME NEW d \in Clients
      PROVE  PerClient(d)'
  <2>1. CASE d = c
    BY <2>1
  <2>2. CASE d # c
    BY <2>2, SameKeeps DEF IInv
  <2> QED
    BY <2>1, <2>2
<1> QED
  BY <1>1, <1>2 DEF IInv

LEMMA AcceptKeeps == ASSUME TypeOK, IInv, NEW c \in Clients, Accept(c) PROVE IInv'
<1> DEFINE rows == RowsAfter(after[c])
<1>1. SharedSame /\ PageSame(c) /\ dropped'[c] = dropped[c] /\ after'[c] = after[c]
  BY DEF Accept, storeVars, pollVars, pageVars, SharedSame, PageSame
<1>2. /\ conn'[c] = "open" /\ queue'[c] = <<>> /\ lastSeq'[c] = after[c]
      /\ stream'[c] = <<>> /\ received'[c] = 0 /\ page'[c] = rows
      /\ handler'[c] = IF rows = {} THEN "live" ELSE "drain"
  BY DEF Accept, Fetch, TypeOK
<1>3. \A d \in Clients \ {c} : Same(d)
  BY DEF Accept, Fetch, TypeOK, pageVars, Same, ServerSame, WireSame, PageSame
<1>4. PerClient(c)
  BY DEF IInv
<1>5. /\ rows \subseteq store /\ \A e \in rows : after[c] < e
      /\ rows = {} => \A e \in store : e <= after[c]
      /\ \A f \in rows, e \in store : after[c] < e /\ e <= f => e \in rows
  BY ClientTypes, RowsOfQuery
<1>6. /\ store \subseteq Nat /\ after[c] \in Nat /\ \A e \in store : e < nextSeq
      /\ maxSeq[c] \in Nat /\ nextSeq \in Nat
  BY ClientTypes, StoredAreSeqs
<1>0. /\ Elements(stream'[c]) = {} /\ Len(stream'[c]) = 0
      /\ Elements(queue'[c]) = {} /\ Len(queue'[c]) = 0
  BY <1>2, EmptyHasNone
<1> HIDE DEF rows
<1> USE <1>1, <1>2 DEF SharedSame, PageSame
<1>7. Behind(c)' /\ Unhandled(c)'
  <2>1. after[c] < nextSeq /\ \A e \in rows : e < nextSeq
    <3>1. after[c] <= maxSeq[c] /\ maxSeq[c] < nextSeq
      BY <1>4 DEF PerClient, Behind
    <3>2. after[c] < nextSeq
      BY ONLY <1>6, <3>1
    <3> QED
      BY ONLY <1>5, <1>6, <3>2
  <2>2. Behind(c)'
    BY <1>0, <1>4, <2>1 DEF PerClient, Behind
  <2>3. Unhandled(c)'
    BY <1>0 DEF Unhandled
  <2> QED
    BY <2>2, <2>3
<1>8. Replayed(c)'
  <2>1. handler'[c] = "live" =>
            page'[c] = {} /\ \A e \in store : lastSeq'[c] < e => e \in seen
    BY <1>5, <1>6
  <2>2. /\ \A e \in page'[c] : lastSeq'[c] < e
        /\ \A f \in page'[c], e \in store : lastSeq'[c] < e /\ e <= f => e \in page'[c]
    BY <1>5
  <2>3. after'[c] <= lastSeq'[c] /\ \A e \in store : ~ (after'[c] < e /\ e <= lastSeq'[c])
    BY <1>6
  <2> QED
    BY <1>0, <2>1, <2>2, <2>3 DEF Replayed
<1>9. Ascending(c)' /\ Preceded(c)'
  <2>0. handler'[c] = "live" => rows = {}
    BY <1>2
  <2>1. handler'[c] = "live" => \A e \in store : ~ (after[c] < e)
    BY ONLY <1>5, <1>6, <2>0
  <2>2. handler'[c] = "live" => Uncovered(c)' = {}
    BY <2>1 DEF Uncovered
  <2>3. Ascending(c)'
    BY <2>2 DEF Ascending
  <2>4. Preceded(c)'
    BY <2>1 DEF Preceded
  <2> QED
    BY <2>3, <2>4
<1>10. Queued(c)' /\ Sorted(c)' /\ NoHole(c)' /\ Got(c)'
  BY <1>0 DEF Queued, Sorted, NoHole, Got
<1>11. Covers(c)'
  BY <1>5, <1>6 DEF Covers
<1>12. Honest(c)'
  BY <1>4 DEF PerClient, Honest
<1>13. PerClient(c)'
  BY <1>7, <1>8, <1>9, <1>10, <1>11, <1>12 DEF PerClient
<1> QED
  BY <1>3, <1>13, OneClient

LEMMA NextPageKeeps == ASSUME TypeOK, IInv, NEW c \in Clients, NextPage(c) PROVE IInv'
<1> DEFINE rows == RowsAfter(lastSeq[c])
<1>1. SharedSame /\ PageSame(c) /\ dropped'[c] = dropped[c] /\ WireSame(c)
  BY DEF NextPage, storeVars, pollVars, pageVars, SharedSame, PageSame, WireSame
<1>2. /\ queue'[c] = queue[c] /\ lastSeq'[c] = lastSeq[c] /\ stream'[c] = stream[c]
      /\ page'[c] = rows /\ handler[c] = "drain"
      /\ handler'[c] = IF rows = {} THEN "live" ELSE "drain"
  BY DEF NextPage, Fetch, TypeOK
<1>3. \A d \in Clients \ {c} : Same(d)
  BY DEF NextPage, Fetch, TypeOK, pageVars, Same, ServerSame, WireSame, PageSame
<1>4. PerClient(c)
  BY DEF IInv
<1>5. /\ rows \subseteq store /\ \A e \in rows : lastSeq[c] < e
      /\ rows = {} => \A e \in store : e <= lastSeq[c]
      /\ \A f \in rows, e \in store : lastSeq[c] < e /\ e <= f => e \in rows
  BY ClientTypes, RowsOfQuery
<1>6. store \subseteq Nat /\ lastSeq[c] \in Nat /\ \A e \in store : e < nextSeq
  BY ClientTypes, StoredAreSeqs
<1> HIDE DEF rows
<1> USE <1>1, <1>2 DEF SharedSame, PageSame, WireSame
<1>7. Behind(c)' /\ Unhandled(c)'
  BY <1>4, <1>5, <1>6 DEF PerClient, Behind, Unhandled
<1>8. Replayed(c)'
  <2>1. handler'[c] = "live" =>
            page'[c] = {} /\ \A e \in store : lastSeq[c] < e => e \in seen
    BY <1>5, <1>6
  <2>2. /\ \A e \in page'[c] : lastSeq[c] < e
        /\ \A f \in page'[c], e \in store : lastSeq[c] < e /\ e <= f => e \in page'[c]
    BY <1>5
  <2> QED
    BY <1>4, <2>1, <2>2 DEF PerClient, Replayed
<1>9. Ascending(c)' /\ Preceded(c)'
  <2>1. handler'[c] = "live" => \A e \in store : ~ (lastSeq[c] < e)
    BY <1>5, <1>6
  <2> QED
    BY <2>1 DEF Ascending, Uncovered, Preceded
<1>10. Queued(c)' /\ Sorted(c)' /\ NoHole(c)' /\ Got(c)' /\ Honest(c)'
  BY <1>4 DEF PerClient, Queued, Sorted, NoHole, Got, Honest
<1>11. Covers(c)'
  BY <1>4, <1>5 DEF PerClient, Replayed, Covers
<1>12. PerClient(c)'
  BY <1>7, <1>8, <1>9, <1>10, <1>11 DEF PerClient
<1> QED
  BY <1>3, <1>12, OneClient

LEMMA SendRowKeeps == ASSUME TypeOK, IInv, NEW c \in Clients, SendRow(c) PROVE IInv'
<1>1. SharedSame /\ PageSame(c) /\ dropped'[c] = dropped[c] /\ WireSame(c)
  BY DEF SendRow, storeVars, pollVars, pageVars, SharedSame, PageSame, WireSame
<1>2. PICK n \in page[c] :
          /\ \A f \in page[c] : n <= f
          /\ page' = [page EXCEPT ![c] = @ \ {n}]
          /\ stream' = [stream EXCEPT ![c] = Append(@, n)]
          /\ lastSeq' = [lastSeq EXCEPT ![c] = Larger(@, n)]
  BY DEF SendRow
<1>3. PerClient(c)
  BY DEF IInv
<1>4. /\ stream[c] \in Seq(Seqs) /\ Len(stream[c]) \in Nat /\ received[c] \in Nat
      /\ lastSeq[c] \in Nat /\ n \in Seqs /\ n \in Nat /\ page[c] \subseteq Nat
      /\ store \subseteq Nat /\ after[c] \in Nat /\ received[c] <= Len(stream[c])
      /\ \A i \in 1 .. Len(stream[c]) : stream[c][i] \in Elements(stream[c])
      /\ Elements(stream[c]) \subseteq Nat
  BY ClientTypes, ElementsAre DEF TypeOK
<1>5. lastSeq[c] < n /\ n < nextSeq
  BY <1>3 DEF PerClient, Replayed, Behind
<1>6. /\ handler[c] = "drain" /\ handler'[c] = "drain" /\ queue'[c] = queue[c]
      /\ page'[c] = page[c] \ {n} /\ stream'[c] = Append(stream[c], n)
      /\ lastSeq'[c] = n
  BY <1>2, <1>4, <1>5 DEF SendRow, TypeOK, Larger
<1>7. \A d \in Clients \ {c} : Same(d)
  BY <1>2 DEF SendRow, TypeOK, pageVars, Same, ServerSame, WireSame, PageSame
<1>8. /\ stream'[c] \in Seq(Seqs) /\ Elements(stream'[c]) = Elements(stream[c]) \cup {n}
      /\ Len(stream'[c]) = Len(stream[c]) + 1 /\ stream'[c][Len(stream[c]) + 1] = n
      /\ \A i \in 1 .. Len(stream[c]) : stream'[c][i] = stream[c][i]
  BY <1>4, <1>6, ElementsOfAppend, AppendProperties
<1>9. \A i \in 1 .. Len(stream'[c]) :
          \/ i \in 1 .. Len(stream[c])
          \/ i = Len(stream[c]) + 1 /\ stream'[c][i] = n
  BY <1>4, <1>8
<1>10. \A e \in Elements(stream[c]) : e <= lastSeq[c] /\ e < n
  BY <1>3, <1>4, <1>5, <1>6 DEF PerClient, Replayed
<1>11. Elements(stream[c]) \subseteq Elements(stream'[c]) /\ n \in Elements(stream'[c])
  BY <1>8
<1> USE <1>1, <1>6 DEF SharedSame, PageSame, WireSame
<1>12. Behind(c)' /\ Unhandled(c)'
  BY <1>3, <1>5, <1>8 DEF PerClient, Behind, Unhandled
<1>20. \A e \in store : after[c] < e /\ e <= n => e \in Elements(stream'[c])
  BY <1>2, <1>3, <1>4, <1>11 DEF PerClient, Replayed
<1>13. Replayed(c)'
  <2>2. after[c] <= n /\ \A e \in Elements(stream'[c]) : e <= n /\ after[c] < e
    BY <1>3, <1>4, <1>5, <1>8, <1>10 DEF PerClient, Replayed
  <2>3. \A e \in page'[c] : n < e
    BY <1>2, <1>4
  <2>4. \A f \in page'[c], e \in store : n < e /\ e <= f => e \in page'[c]
    BY <1>2, <1>3, <1>4, <1>5 DEF PerClient, Replayed
  <2> QED
    BY <1>20, <2>2, <2>3, <2>4 DEF Replayed
<1>14. Ascending(c)' /\ Preceded(c)' /\ Covers(c)'
  BY DEF Ascending, Preceded, Covers
<1>15. Queued(c)'
  BY <1>3 DEF PerClient, Queued
<1>16. Sorted(c)'
  <2> SUFFICES ASSUME NEW i \in 1 .. Len(stream'[c]), stream'[c][i] \in store \ again,
                      NEW j \in 1 .. i - 1
               PROVE  stream'[c][j] < stream'[c][i]
    BY DEF Sorted
  <2>1. j \in 1 .. Len(stream[c]) /\ stream'[c][j] = stream[c][j]
    BY <1>4, <1>8
  <2>2. CASE i \in 1 .. Len(stream[c])
    BY <1>3, <1>8, <2>1, <2>2 DEF PerClient, Sorted
  <2>3. CASE stream'[c][i] = n
    BY <1>4, <1>10, <2>1, <2>3
  <2> QED
    BY <1>9, <2>2, <2>3
<1>17. NoHole(c)'
  <2> SUFFICES ASSUME NEW i \in 1 .. Len(stream'[c]), NEW f \in store,
                      after[c] < f, f <= stream'[c][i]
               PROVE  f \in dropped[c] \/ \E j \in 1 .. i : stream'[c][j] = f
    BY DEF NoHole
  <2>1. CASE i \in 1 .. Len(stream[c])
    <3>1. f \in dropped[c] \/ \E j \in 1 .. i : stream[c][j] = f
      BY <1>3, <1>8, <2>1 DEF PerClient, NoHole
    <3>2. \A j \in 1 .. i : stream'[c][j] = stream[c][j]
      BY <1>4, <1>8, <2>1
    <3> QED
      BY <3>1, <3>2
  <2>2. CASE i = Len(stream[c]) + 1 /\ stream'[c][i] = n
    <3>1. f \in Elements(stream'[c])
      BY <1>20, <2>2
    <3>2. Elements(stream'[c]) = {stream'[c][j] : j \in 1 .. Len(stream'[c])}
      BY <1>8, ElementsAre
    <3>3. PICK j \in 1 .. Len(stream'[c]) : stream'[c][j] = f
      BY <3>1, <3>2
    <3> QED
      BY <1>8, <2>2, <3>3
  <2> QED
    BY <1>9, <2>1, <2>2
<1>18. Honest(c)' /\ Got(c)'
  BY <1>3, <1>4, <1>8 DEF PerClient, Honest, Got
<1>19. PerClient(c)'
  BY <1>12, <1>13, <1>14, <1>15, <1>16, <1>17, <1>18 DEF PerClient
<1> QED
  BY <1>7, <1>19, OneClient

LEMMA FollowKeeps == ASSUME TypeOK, IInv, NEW c \in Clients, Follow(c) PROVE IInv'
<1> DEFINE n == Head(queue[c])
<1> DEFINE q == Tail(queue[c])
<1>1. SharedSame /\ PageSame(c) /\ dropped'[c] = dropped[c] /\ WireSame(c)
  BY DEF Follow, storeVars, pollVars, pageVars, SharedSame, PageSame, WireSame
<1>2. /\ handler[c] = "live" /\ handler'[c] = "live" /\ queue'[c] = q
      /\ page'[c] = page[c] /\ lastSeq'[c] = lastSeq[c]
      /\ stream'[c] = IF n <= lastSeq[c] THEN stream[c] ELSE Append(stream[c], n)
  BY DEF Follow, Covered, TypeOK
<1>3. \A d \in Clients \ {c} : Same(d)
  BY DEF Follow, TypeOK, pageVars, Same, ServerSame, WireSame, PageSame
<1>4. PerClient(c) /\ Announced
  BY DEF IInv
<1>5. /\ stream[c] \in Seq(Seqs) /\ Len(stream[c]) \in Nat /\ received[c] \in Nat
      /\ lastSeq[c] \in Nat /\ store \subseteq Nat /\ after[c] \in Nat
      /\ received[c] <= Len(stream[c])
      /\ Elements(stream[c]) = {stream[c][i] : i \in 1 .. Len(stream[c])}
      /\ Elements(stream[c]) \subseteq Nat
  BY ClientTypes, ElementsAre DEF TypeOK
<1>6. /\ queue[c] \in Seq(Seqs) /\ Len(queue[c]) \in Nat \ {0} /\ queue[c][1] = n
      /\ n \in Seqs /\ n \in Nat /\ q \in Seq(Seqs) /\ Len(q) = Len(queue[c]) - 1
      /\ Elements(queue[c]) = {n} \cup Elements(q)
      /\ \A k \in 1 .. Len(queue[c]) - 1 : q[k] = queue[c][k + 1]
  BY ClientTypes, ElementsOfTail, EmptySeq DEF Follow
<1>7. \A k \in 1 .. Len(q) :
          k + 1 \in 1 .. Len(queue[c]) /\ k + 1 # 1 /\ q[k] = queue[c][k + 1]
  BY <1>6
<1>9. n \in seen /\ n < nextSeq
  BY <1>4, <1>6 DEF PerClient, Queued, Announced
<1>10. n \in Uncovered(c) => \A e \in Elements(stream[c]) : e < n
  BY <1>2, <1>4, <1>6 DEF PerClient, Ascending
<1>11. n \in store /\ after[c] < n /\ n <= lastSeq[c] => n \in Elements(stream[c])
  BY <1>4 DEF PerClient, Replayed
<1> HIDE DEF n, q
<1> USE <1>1, <1>2 DEF SharedSame, PageSame, WireSame
<1>8. Uncovered(c)' = Uncovered(c)
  BY DEF Uncovered
\* What the shorter queue says of the stream as it was
<1>12. ASSUME NEW k \in 1 .. Len(q), q[k] \in Uncovered(c)
       PROVE  /\ \A e \in Elements(stream[c]) \cup {n} : e < q[k]
              /\ \A j \in 1 .. k - 1 : q[j] < q[k]
  <2>1. k + 1 \in 1 .. Len(queue[c]) /\ q[k] = queue[c][k + 1] /\ 1 \in 1 .. (k + 1) - 1
    BY <1>7
  <2>2. /\ \A e \in Elements(stream[c]) : e < q[k]
        /\ \A j \in 1 .. (k + 1) - 1 : queue[c][j] < q[k]
    BY <1>4, <1>12, <2>1 DEF PerClient, Ascending
  <2>3. \A j \in 1 .. k - 1 : j + 1 \in 1 .. (k + 1) - 1 /\ j \in 1 .. Len(q)
    BY <1>6
  <2>4. \A j \in 1 .. k - 1 : q[j] < q[k]
    BY <1>7, <2>2, <2>3
  <2> QED
    BY <1>6, <2>1, <2>2, <2>4
<1>13. \A k \in 1 .. Len(scheduled) : scheduled[k] \in Uncovered(c) =>
          /\ \A e \in Elements(stream[c]) \cup {n} \cup Elements(q) : e < scheduled[k]
          /\ \A j \in 1 .. k - 1 : scheduled[j] < scheduled[k]
  BY <1>4, <1>6 DEF PerClient, Ascending
\* What the shorter queue says of older events
<1>14. ASSUME NEW f \in store, lastSeq[c] < f
       PROVE  /\ f <= n => f \in dropped[c] \cup Elements(stream[c]) \cup {n}
              /\ \A k \in 1 .. Len(q) : f <= q[k] =>
                    \/ f \in dropped[c] \cup Elements(stream[c]) \cup {n}
                    \/ \E j \in 1 .. k : q[j] = f
              /\ \A k \in 1 .. Len(scheduled) : f <= scheduled[k] =>
                    \/ f \in dropped[c] \cup Elements(stream[c]) \cup {n} \cup Elements(q)
                    \/ \E j \in 1 .. k : scheduled[j] = f
  <2>1. \A k \in 1 .. Len(queue[c]) : f <= queue[c][k] =>
            f \in dropped[c] \cup Elements(stream[c]) \/ \E j \in 1 .. k : queue[c][j] = f
    BY <1>2, <1>4, <1>14 DEF PerClient, Preceded
  <2>2. f <= n => f \in dropped[c] \cup Elements(stream[c]) \cup {n}
    BY <1>6, <2>1
  <2>3. ASSUME NEW k \in 1 .. Len(q), NEW j \in 1 .. k + 1, queue[c][j] = f, f # n
        PROVE  \E i \in 1 .. k : q[i] = f
    <3>1. j - 1 \in 1 .. k /\ j - 1 \in 1 .. Len(q)
      BY <1>6, <2>3
    <3>2. q[j - 1] = queue[c][j]
      BY <1>7, <3>1
    <3> QED
      BY <2>3, <3>1, <3>2
  <2>4. \A k \in 1 .. Len(scheduled) : f <= scheduled[k] =>
            \/ f \in dropped[c] \cup Elements(stream[c]) \cup {n} \cup Elements(q)
            \/ \E j \in 1 .. k : scheduled[j] = f
    BY <1>2, <1>4, <1>6, <1>14 DEF PerClient, Preceded
  <2> QED
    BY <1>7, <2>1, <2>2, <2>3, <2>4
<1>15. Unhandled(c)' /\ Honest(c)' /\ Queued(c)'
  BY <1>4, <1>6 DEF PerClient, Unhandled, Honest, Queued
<1>16. CASE n <= lastSeq[c]
  <2>1. stream'[c] = stream[c]
    BY <1>16
  <2>2. Behind(c)' /\ Replayed(c)'
    BY <1>4, <2>1 DEF PerClient, Behind, Replayed
  <2>7. Sorted(c)' /\ NoHole(c)' /\ Got(c)'
    <3>1. Sorted(c)'
      BY ONLY <1>1, <1>4, <2>1 DEF PerClient, Sorted, SharedSame
    <3>2. NoHole(c)'
      BY ONLY <1>1, <1>4, <2>1 DEF PerClient, NoHole, SharedSame, WireSame
    <3> QED
      BY <1>4, <2>1, <3>1, <3>2 DEF PerClient, Got
  <2>3. Ascending(c)'
    BY ONLY <1>1, <1>2, <1>8, <1>12, <1>13, <2>1 DEF Ascending, SharedSame
  <2>4. Preceded(c)'
    <3>1. \A f \in store : lastSeq[c] < f => f # n
      BY <1>5, <1>6, <1>16
    <3> QED
      BY <1>14, <2>1, <3>1 DEF Preceded
  <2>5. Covers(c)'
    BY <1>4, <1>6, <1>11, <1>16, <2>1 DEF PerClient, Covers
  <2>6. PerClient(c)'
    BY <1>15, <2>2, <2>3, <2>4, <2>5, <2>7 DEF PerClient
  <2> QED
    BY <1>3, <2>6, OneClient
<1>17. CASE ~ (n <= lastSeq[c])
  <2>1. stream'[c] = Append(stream[c], n) /\ lastSeq[c] < n
    BY <1>5, <1>6, <1>17
  <2>2. /\ stream'[c] \in Seq(Seqs) /\ Elements(stream'[c]) = Elements(stream[c]) \cup {n}
        /\ Len(stream'[c]) = Len(stream[c]) + 1 /\ stream'[c][Len(stream[c]) + 1] = n
        /\ \A i \in 1 .. Len(stream[c]) : stream'[c][i] = stream[c][i]
    BY <1>5, <1>6, <2>1, ElementsOfAppend, AppendProperties
  <2>3. \A i \in 1 .. Len(stream'[c]) :
            \/ i \in 1 .. Len(stream[c])
            \/ i = Len(stream[c]) + 1 /\ stream'[c][i] = n
    BY <1>5, <2>2
  <2>5. Behind(c)'
    BY <1>4, <1>9, <2>2 DEF PerClient, Behind
  <2>6. Replayed(c)'
    <3>1. after[c] < n
      BY <1>4, <1>5, <1>6, <2>1 DEF PerClient, Replayed
    <3> QED
      BY <1>4, <2>2, <3>1 DEF PerClient, Replayed
  <2>7. Ascending(c)'
    <3>1. \A k \in 1 .. Len(q) : q[k] \in Uncovered(c) =>
             /\ \A e \in Elements(stream'[c]) : e < q[k]
             /\ \A j \in 1 .. k - 1 : q[j] < q[k]
      BY <1>12, <2>2
    <3>2. \A k \in 1 .. Len(scheduled) : scheduled[k] \in Uncovered(c) =>
             /\ \A e \in Elements(stream'[c]) \cup Elements(q) : e < scheduled[k]
             /\ \A j \in 1 .. k - 1 : scheduled[j] < scheduled[k]
      BY <1>13, <2>2
    <3> QED
      BY <1>8, <3>1, <3>2 DEF Ascending
  <2>8. Preceded(c)'
    BY <1>14, <2>2 DEF Preceded
  <2>9. Sorted(c)'
    <3> SUFFICES ASSUME NEW i \in 1 .. Len(stream'[c]), stream'[c][i] \in store \ again,
                        NEW j \in 1 .. i - 1
                 PROVE  stream'[c][j] < stream'[c][i]
      BY DEF Sorted
    <3>1. j \in 1 .. Len(stream[c]) /\ stream'[c][j] = stream[c][j]
      BY <1>5, <2>2
    <3>2. CASE i \in 1 .. Len(stream[c])
      BY <1>4, <2>2, <3>1, <3>2 DEF PerClient, Sorted
    <3>3. CASE stream'[c][i] = n
      BY <1>5, <1>10, <2>1, <3>1, <3>3 DEF Uncovered
    <3> QED
      BY <2>3, <3>2, <3>3
  <2>10. Covers(c)'
    BY <1>4, <1>6, <2>2 DEF PerClient, Covers
  <2>11. NoHole(c)'
    <3> SUFFICES ASSUME NEW i \in 1 .. Len(stream'[c]), NEW f \in store,
                        after[c] < f, f <= stream'[c][i]
                 PROVE  f \in dropped[c] \/ \E j \in 1 .. i : stream'[c][j] = f
      BY DEF NoHole
    <3>1. CASE i \in 1 .. Len(stream[c])
      <4>1. f \in dropped[c] \/ \E j \in 1 .. i : stream[c][j] = f
        BY <1>4, <2>2, <3>1 DEF PerClient, NoHole
      <4>2. \A j \in 1 .. i : stream'[c][j] = stream[c][j]
        BY <1>5, <2>2, <3>1
      <4> QED
        BY <4>1, <4>2
    <3>2. CASE i = Len(stream[c]) + 1 /\ stream'[c][i] = n
      <4>1. ~ (lastSeq[c] < f) => f \in Elements(stream[c])
        BY <1>4, <1>5 DEF PerClient, Replayed
      <4>2. lastSeq[c] < f => f \in dropped[c] \cup Elements(stream[c]) \cup {n}
        BY <1>14, <3>2
      <4>3. f \in Elements(stream'[c]) => \E j \in 1 .. i : stream'[c][j] = f
        BY <2>2, <3>2, ElementAt
      <4> QED
        BY <2>2, <4>1, <4>2, <4>3
    <3> QED
      BY <2>3, <3>1, <3>2
  <2>12. Got(c)'
    BY <1>4, <1>5, <2>2 DEF PerClient, Got
  <2>13. PerClient(c)'
    BY <1>15, <2>5, <2>6, <2>7, <2>8, <2>9, <2>10, <2>11, <2>12 DEF PerClient
  <2> QED
    BY <1>3, <2>13, OneClient
<1> QED
  BY <1>16, <1>17

-----------------------------------------------------------------------------
(***************************************************************************)
(* The browser and failures                                                *)
(***************************************************************************)

LEMMA OpenKeeps == ASSUME TypeOK, IInv, NEW c \in Clients, Open(c) PROVE IInv'
<1>1. SharedSame /\ PageSame(c) /\ dropped'[c] = dropped[c] /\ ServerSame(c)
  BY DEF Open, storeVars, pollVars, handlerVars, pageVars, SharedSame, PageSame, ServerSame
<1>2. /\ conn[c] = "closed" /\ conn'[c] = "opening" /\ received'[c] = received[c]
      /\ after'[c] = maxSeq[c] /\ maxSeq[c] \in Nat /\ lastSeq[c] \in Nat
  BY ClientTypes DEF Open, TypeOK
<1>3. \A d \in Clients \ {c} : Same(d)
  BY DEF Open, TypeOK, handlerVars, pageVars, Same, ServerSame, WireSame, PageSame
<1>4. PerClient(c)
  BY DEF IInv
<1>5. /\ handler[c] = "none" /\ page[c] = {} /\ Elements(stream[c]) = {}
      /\ Len(stream[c]) = 0
  BY <1>2, <1>4, EmptyHasNone DEF PerClient, Unhandled
<1> USE <1>1, <1>2 DEF SharedSame, PageSame, ServerSame
<1>6. Behind(c)' /\ Unhandled(c)' /\ Queued(c)' /\ Honest(c)' /\ Got(c)'
  BY <1>4 DEF PerClient, Behind, Unhandled, Queued, Honest, Got
<1>7. Ascending(c)' /\ Preceded(c)' /\ Covers(c)' /\ Sorted(c)' /\ NoHole(c)'
  BY <1>5 DEF Ascending, Preceded, Covers, Sorted, NoHole
<1>8. Replayed(c)'
  <2>1. \A e \in store : ~ (maxSeq[c] < e /\ e <= 0)
    BY <1>2, ClientTypes
  <2>2. lastSeq[c] = 0
    BY <1>4, <1>5 DEF PerClient, Unhandled
  <2> QED
    BY <1>4, <1>5, <2>1, <2>2 DEF PerClient, Replayed
<1>9. PerClient(c)'
  BY <1>6, <1>7, <1>8 DEF PerClient
<1> QED
  BY <1>3, <1>9, OneClient

LEMMA ReceiveKeeps == ASSUME TypeOK, IInv, NEW c \in Clients, Receive(c) PROVE IInv'
<1> DEFINE r == received[c] + 1
<1> DEFINE n == stream[c][r]
<1>1. SharedSame /\ ServerSame(c) /\ dropped'[c] = dropped[c]
  BY DEF Receive, storeVars, pollVars, handlerVars, SharedSame, ServerSame
<1>2. /\ conn'[c] = conn[c] /\ after'[c] = after[c] /\ fetch'[c] = fetch[c]
      /\ jumped'[c] = jumped[c] /\ received'[c] = r
      /\ events'[c] = events[c] \cup {n} /\ maxSeq'[c] = Larger(maxSeq[c], n)
  BY DEF Receive, TypeOK
<1>3. \A d \in Clients \ {c} : Same(d)
  BY DEF Receive, TypeOK, handlerVars, Same, ServerSame, WireSame, PageSame
<1>4. PerClient(c)
  BY DEF IInv
<1>5. /\ received[c] \in Nat /\ Len(stream[c]) \in Nat /\ maxSeq[c] \in Nat
      /\ after[c] \in Nat /\ store \subseteq Nat /\ stream[c] \in Seq(Seqs)
  BY ClientTypes, ElementsAre
<1>6. r \in 1 .. Len(stream[c])
  BY <1>5 DEF Receive
<1>7. n \in Elements(stream[c]) /\ n \in Seqs /\ n \in Nat
  BY <1>5, <1>6, ElementsAre, ClientTypes
<1>8. n < nextSeq
  BY <1>4, <1>7 DEF PerClient, Behind
<1>9. \A i \in 1 .. r : i \in 1 .. received[c] \/ i = r
  BY <1>5
<1>10. \A i \in 1 .. r : stream[c][i] \in events[c] \cup {n}
  BY <1>4, <1>9 DEF PerClient, Got
<1>11. /\ maxSeq'[c] \in Nat /\ maxSeq'[c] < nextSeq /\ after[c] <= maxSeq'[c]
       /\ \A e \in store : e <= maxSeq'[c] => e <= maxSeq[c] \/ (after[c] < e /\ e <= n)
  <2>1. maxSeq[c] < nextSeq /\ after[c] <= maxSeq[c]
    BY <1>4 DEF PerClient, Behind
  <2> QED
    BY <1>2, <1>5, <1>7, <1>8, <2>1 DEF Larger
<1> USE <1>1 DEF SharedSame, ServerSame
<1>12. Honest(c)'
  <2> SUFFICES ASSUME NEW e \in store, e <= maxSeq'[c]
               PROVE  e \in events[c] \cup {n} \cup dropped[c] \cup jumped[c]
    BY <1>2 DEF Honest
  <2>1. CASE e <= maxSeq[c]
    BY <1>4, <2>1 DEF PerClient, Honest
  <2>2. CASE after[c] < e /\ e <= n
    <3>1. e \in dropped[c] \/ \E j \in 1 .. r : stream[c][j] = e
      BY <1>4, <1>6, <2>2 DEF PerClient, NoHole
    <3> QED
      BY <1>10, <3>1
  <2> QED
    BY <1>11, <2>1, <2>2
<1> HIDE DEF r, n
<1> USE <1>2
<1>13. Behind(c)'
  BY <1>4, <1>11 DEF PerClient, Behind
<1>14. Unhandled(c)' /\ Replayed(c)' /\ Queued(c)'
  BY <1>4 DEF PerClient, Unhandled, Replayed, Queued
<1>15. Ascending(c)' /\ Preceded(c)' /\ Covers(c)'
  BY <1>4 DEF PerClient, Ascending, Uncovered, Preceded, Covers
<1>16. Sorted(c)' /\ NoHole(c)'
  BY <1>4 DEF PerClient, Sorted, NoHole
<1>17. Got(c)'
  BY <1>10 DEF Got
<1>18. PerClient(c)'
  BY <1>12, <1>13, <1>14, <1>15, <1>16, <1>17 DEF PerClient
<1> QED
  BY <1>3, <1>18, OneClient

\* A request or a merge leaves the connection alone.
LEMMA PageOnly ==
    ASSUME NEW c \in Clients, PerClient(c), SharedSame, ServerSame(c), WireSame(c),
           dropped'[c] = dropped[c], events[c] \subseteq events'[c], Behind(c)', Honest(c)'
    PROVE  PerClient(c)'
<1> USE DEF SharedSame, ServerSame, WireSame, PerClient
<1>1. Unhandled(c)' /\ Replayed(c)' /\ Queued(c)' /\ Got(c)'
  BY DEF Unhandled, Replayed, Queued, Got
<1>2. Ascending(c)' /\ Preceded(c)' /\ Covers(c)'
  BY DEF Ascending, Uncovered, Preceded, Covers
<1>3. Sorted(c)' /\ NoHole(c)'
  BY DEF Sorted, NoHole
<1> QED
  BY <1>1, <1>2, <1>3

LEMMA RequestKeeps ==
    ASSUME TypeOK, IInv, NEW c \in Clients, NEW s \in Sessions, NEW rows \in SUBSET store,
           Request(c, s, rows)
    PROVE  IInv'
<1>1. /\ SharedSame /\ ServerSame(c) /\ WireSame(c) /\ dropped'[c] = dropped[c]
      /\ maxSeq'[c] = maxSeq[c] /\ events'[c] = events[c] /\ jumped'[c] = jumped[c]
      /\ fetch'[c] = rows
  BY DEF Request, TypeOK, storeVars, pollVars, handlerVars, SharedSame, ServerSame, WireSame
<1>2. \A d \in Clients \ {c} : Same(d)
  BY DEF Request, TypeOK, handlerVars, Same, ServerSame, WireSame, PageSame
<1>3. PerClient(c)
  BY DEF IInv
<1>4. \A e \in rows : e < nextSeq
  BY StoredAreSeqs
<1>5. Behind(c)' /\ Honest(c)'
  BY <1>1, <1>3, <1>4 DEF PerClient, Behind, Honest, SharedSame, ServerSame, WireSame
<1> QED
  BY <1>1, <1>2, <1>3, <1>5, PageOnly, OneClient

LEMMA MergeKeeps == ASSUME TypeOK, IInv, NEW c \in Clients, Merge(c) PROVE IInv'
<1>1. SharedSame /\ ServerSame(c) /\ WireSame(c) /\ dropped'[c] = dropped[c]
  BY DEF Merge, storeVars, pollVars, handlerVars, SharedSame, ServerSame, WireSame
<1>2. /\ fetch[c] # NoFetch /\ fetch'[c] = NoFetch
      /\ events'[c] = events[c] \cup fetch[c] /\ maxSeq'[c] = MergedSeq(c)
      /\ jumped'[c] = jumped[c] \cup
            {e \in Seqs : /\ maxSeq[c] < e /\ \E f \in fetch[c] : e < f
                          /\ e \notin events[c] \cup fetch[c]}
  BY DEF Merge, TypeOK
<1>3. \A d \in Clients \ {c} : Same(d)
  BY DEF Merge, TypeOK, handlerVars, Same, ServerSame, WireSame, PageSame
<1>4. PerClient(c)
  BY DEF IInv
<1>5. /\ maxSeq[c] \in Nat /\ after[c] \in Nat /\ fetch[c] \subseteq Nat
      /\ store \subseteq Seqs /\ store \subseteq Nat /\ nextSeq \in Nat
  BY <1>2, ClientTypes
<1>6. /\ MergedSeq(c) \in fetch[c] \cup {maxSeq[c]} /\ maxSeq[c] <= MergedSeq(c)
      /\ MergedSeq(c) \in Nat
  BY <1>2, <1>5, MergedSeqIsMax
<1>7. Behind(c)'
  <2>1. MergedSeq(c) < nextSeq /\ after[c] <= MergedSeq(c)
    BY <1>2, <1>4, <1>5, <1>6 DEF PerClient, Behind
  <2> QED
    BY <1>1, <1>2, <1>4, <2>1 DEF PerClient, Behind, SharedSame, ServerSame, WireSame
<1>8. Honest(c)'
  <2> SUFFICES ASSUME NEW e \in store, e <= MergedSeq(c)
               PROVE  e \in events'[c] \cup dropped[c] \cup jumped'[c]
    BY <1>1, <1>2 DEF Honest, SharedSame
  <2>1. CASE e <= maxSeq[c]
    BY <1>2, <1>4, <2>1 DEF PerClient, Honest
  <2>2. CASE maxSeq[c] < e /\ e \notin fetch[c]
    <3>1. MergedSeq(c) \in fetch[c] /\ e < MergedSeq(c)
      BY <1>5, <1>6, <2>2
    <3> QED
      BY <1>2, <1>5, <2>2, <3>1
  <2> QED
    BY <1>2, <1>5, <2>1, <2>2
<1>9. PerClient(c)'
  BY <1>1, <1>2, <1>4, <1>7, <1>8, PageOnly
<1> QED
  BY <1>1, <1>3, <1>9, OneClient

\* A page whose connection is gone
LEMMA LostKeeps ==
    ASSUME TypeOK, NEW c \in Clients, NEW cs \in SUBSET Clients, PerClient(c), c \in cs,
           Lose(cs), store' = store, nextSeq' = nextSeq, dropped' = dropped,
           maxSeq' = maxSeq, events' = events, jumped' = jumped,
           fetch'[c] \in {fetch[c], NoFetch}
    PROVE  PerClient(c)'
<1>1. /\ conn'[c] = "closed" /\ handler'[c] = "none" /\ queue'[c] = <<>>
      /\ page'[c] = {} /\ stream'[c] = <<>> /\ received'[c] = 0
      /\ lastSeq'[c] = 0 /\ after'[c] = 0
  BY DEF Lose
<1>2. /\ Elements(stream'[c]) = {} /\ Len(stream'[c]) = 0
      /\ Elements(queue'[c]) = {} /\ Len(queue'[c]) = 0
  BY <1>1, EmptyHasNone
<1>3. maxSeq[c] \in Nat /\ nextSeq \in Nat /\ maxSeq[c] < nextSeq /\ store \subseteq Nat
  BY ClientTypes DEF PerClient, Behind
<1>4. Behind(c)'
  BY <1>1, <1>2, <1>3 DEF PerClient, Behind
<1>5. Unhandled(c)'
  BY <1>1 DEF Unhandled
<1>6. Replayed(c)'
  <2>1. \A e \in store : ~ (0 < e /\ e <= 0)
    BY <1>3
  <2> QED
    BY <1>1, <1>2, <2>1 DEF Replayed
<1>7. Ascending(c)' /\ Preceded(c)' /\ Covers(c)'
  BY <1>1 DEF Ascending, Preceded, Covers
<1>8. Queued(c)' /\ Sorted(c)' /\ NoHole(c)' /\ Got(c)'
  BY <1>1, <1>2 DEF Queued, Sorted, NoHole, Got
<1>9. Honest(c)'
  BY DEF PerClient, Honest
<1> QED
  BY <1>4, <1>5, <1>6, <1>7, <1>8, <1>9 DEF PerClient

LEMMA DisconnectKeeps == ASSUME TypeOK, IInv, NEW c \in Clients, Disconnect(c) PROVE IInv'
<1>1. /\ Lose({c}) /\ SharedSame /\ store' = store /\ nextSeq' = nextSeq
      /\ dropped' = dropped
      /\ maxSeq' = maxSeq /\ events' = events /\ jumped' = jumped /\ fetch' = fetch
  BY DEF Disconnect, storeVars, pollVars, pageVars, SharedSame
<1>2. \A d \in Clients \ {c} : Same(d)
  BY <1>1 DEF Lose, TypeOK, Same, ServerSame, WireSame, PageSame
<1>3. PerClient(c)'
  BY <1>1, LostKeeps DEF IInv
<1> QED
  BY <1>1, <1>2, <1>3, OneClient

LEMMA CrashKeeps == ASSUME TypeOK, IInv, Crash PROVE IInv'
<1>1. /\ Lose(Clients) /\ store' = store /\ nextSeq' = nextSeq /\ dropped' = dropped
      /\ maxSeq' = maxSeq /\ events' = events /\ jumped' = jumped
      /\ seen' = {} /\ scheduled' = <<>> /\ \A c \in Clients : fetch'[c] = NoFetch
  BY DEF Crash, storeVars
<1>2. Announced'
  BY <1>1, EmptyHasNone DEF Announced
<1>3. \A c \in Clients : PerClient(c)'
  BY <1>1, LostKeeps DEF IInv
<1> QED
  BY <1>2, <1>3 DEF IInv

-----------------------------------------------------------------------------

LEMMA StepIInv == TypeOK /\ IInv /\ [Next]_vars => IInv'
<1> SUFFICES ASSUME TypeOK, IInv, [Next]_vars PROVE IInv'
  OBVIOUS
<1>1. CASE UNCHANGED vars
  <2>1. SharedSame /\ \A c \in Clients : Same(c)
    BY <1>1 DEF vars, storeVars, pollVars, handlerVars, pageVars, SharedSame, Same,
                ServerSame, WireSame, PageSame
  <2> QED
    BY <2>1, SameKeeps DEF IInv, Announced, SharedSame
<1>2. CASE Next
  BY <1>2, PollKeeps, InsertKeeps, AgainKeeps, PublishKeeps, AcceptKeeps,
     SendRowKeeps, NextPageKeeps, FollowKeeps, OpenKeeps, ReceiveKeeps, RequestKeeps,
     MergeKeeps, DisconnectKeeps, CrashKeeps
  DEF Next
<1> QED
  BY <1>1, <1>2

THEOREM Invariant == Spec => [](TypeOK /\ IInv)
<1>1. Init => TypeOK /\ IInv
  BY InitTypes, InitIInv
<1>2. TypeOK /\ IInv /\ [Next]_vars => (TypeOK /\ IInv)'
  BY StepTypes, StepIInv
<1> QED
  BY <1>1, <1>2, PTL DEF Spec

-----------------------------------------------------------------------------
(***************************************************************************)
(* What follows                                                            *)
(***************************************************************************)

\* Every variable keeps its type.  In particular a queue stays within its
\* maxsize (Hub.publish), and a page receives no more than was sent to it.
THEOREM TypeCorrect == Spec => []TypeOK
  BY Invariant, PTL

\* One connection never carries a stored event that the page resumed after,
\* and only those that the running process announced twice does it carry twice
\* or after a later one, whatever the replay, the hub and announcements after a
\* restart supply (ws: the subscription before the replay, and the test of seq).
THEOREM StreamsInOrder == Spec => []StreamInOrder
<1>1. TypeOK /\ IInv => StreamInOrder
  <2> SUFFICES ASSUME TypeOK, IInv, NEW c \in Clients, NEW i \in DOMAIN stream[c],
                      stream[c][i] \in store
               PROVE  /\ after[c] < stream[c][i]
                      /\ \/ stream[c][i] \in again
                         \/ \A j \in 1 .. i - 1 : stream[c][j] < stream[c][i]
    BY DEF StreamInOrder
  <2>1. i \in 1 .. Len(stream[c]) /\ stream[c][i] \in Elements(stream[c])
    BY ClientTypes, ElementsAre
  <2>2. after[c] < stream[c][i]
    BY <2>1 DEF IInv, PerClient, Replayed
  <2>3. stream[c][i] \in again \/ \A j \in 1 .. i - 1 : stream[c][j] < stream[c][i]
    BY <2>1 DEF IInv, PerClient, Sorted
  <2> QED
    BY <2>2, <2>3
<1> QED
  BY <1>1, Invariant, PTL

\* Between the replay and the live feed nothing falls through: what a live
\* handler has not sent is queued, about to be published, or was dropped by
\* its full queue (ws, Hub.publish).
THEOREM NothingFallsBetween == Spec => []NothingBetween
<1>1. IInv => NothingBetween
  BY DEF IInv, PerClient, Covers, NothingBetween
<1> QED
  BY <1>1, Invariant, PTL

\* The seq a page resumes from is honest: up to it, the page has every stored
\* event that no full queue dropped and no merge jumped over.
THEOREM SilentGapsDoNotOccur == Spec => []NoSilentGap
<1>1. IInv => NoSilentGap
  BY DEF IInv, PerClient, Honest, NoSilentGap
<1> QED
  BY <1>1, Invariant, PTL
=============================================================================
