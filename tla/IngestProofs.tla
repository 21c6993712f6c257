---------------------------- MODULE IngestProofs ----------------------------
(***************************************************************************)
(* That ingestion counts each event once, keeps out what was pruned, and   *)
(* loses nothing behind its cursor, for any conversation and any number of *)
(* rewrites, failures and restarts: a fold lemma, what feed makes of a     *)
(* message, type correctness, the inductive invariant and the steps.       *)
(***************************************************************************)
EXTENDS Ingest, FiniteSetTheorems, SequenceTheorems, WellFoundedInduction, TLAPS

(***************************************************************************)
(* FoldLeft.  What holds of the base, and is kept by each item, holds of   *)
(* the fold: if not, there is a least number of items for which it fails.  *)
(***************************************************************************)

\* A set of naturals that is not empty has a least element.
LEMMA LeastExists ==
    ASSUME NEW S \in SUBSET Nat, S # {}
    PROVE  \E e \in S : \A f \in S : e <= f
<1>1. PICK e \in S : \A f \in S : <<f, e>> \notin OpToRel(<, Nat)
  BY NatLessThanWellFounded, WFMin
<1>2. \A f \in S : ~(f < e)
  BY <1>1 DEF OpToRel
<1> QED
  BY <1>2

\* Max, by which FoldLeft takes the last item of a part of the domain
LEMMA MaxOfPart ==
    ASSUME NEW n \in Nat, NEW s \in SUBSET (1 .. n), s # {}
    PROVE  Max(s) \in s /\ \A e \in s : e <= Max(s)
<1> DEFINE Bounds == {b \in Nat : \A e \in s : e <= b}
<1>1. PICK b \in Bounds : \A a \in Bounds : b <= a
  <2>1. n \in Bounds
    OBVIOUS
  <2> QED
    BY <2>1, LeastExists
<1>2. b \in s
  <2>1. CASE b = 0
    <3>1. PICK e \in s : e \in 1 .. n
      OBVIOUS
    <3> QED
      BY <1>1, <2>1, <3>1
  <2>2. CASE b # 0
    <3>1. b - 1 \in Nat /\ b - 1 \notin Bounds
      BY <1>1, <2>2
    <3>2. PICK e \in s : ~(e <= b - 1)
      BY <3>1
    <3> QED
      BY <1>1, <3>2
  <2> QED
    BY <2>1, <2>2
<1>3. \E x \in s : \A y \in s : x >= y
  BY <1>1, <1>2
<1> QED
  BY <1>3 DEF Max

\* The function that FoldLeft defines by recursion over the parts of the domain
\* exists.
FoldsItems(g, k, base, items) ==
    g = [s \in SUBSET (1 .. k) |->
            IF s = {} THEN base ELSE FeedItem(g[s \ {Max(s)}], items[Max(s)])]

LEMMA FoldExists ==
    ASSUME NEW base, NEW items, NEW n \in Nat
    PROVE  \E g : FoldsItems(g, n, base, items)
<1> DEFINE Bad == {k \in Nat : ~\E g : FoldsItems(g, k, base, items)}
<1> SUFFICES ASSUME Bad # {} PROVE FALSE
  OBVIOUS
<1>1. PICK k \in Bad : \A j \in Bad : k <= j
  BY LeastExists
<1>2. k # 0
  <2>1. FoldsItems([s \in SUBSET (1 .. 0) |-> base], 0, base, items)
    BY DEF FoldsItems
  <2> QED
    BY <1>1, <2>1
<1>3. PICK g : FoldsItems(g, k - 1, base, items)
  BY <1>1, <1>2
<1> DEFINE h == [s \in SUBSET (1 .. k) |->
                   IF s \in SUBSET (1 .. k - 1) THEN g[s]
                   ELSE FeedItem(g[s \ {Max(s)}], items[Max(s)])]
<1>4. ASSUME NEW s \in SUBSET (1 .. k), s # {}
      PROVE  h[s] = FeedItem(h[s \ {Max(s)}], items[Max(s)])
  <2>1. Max(s) \in s /\ (\A e \in s : e <= Max(s))
    BY <1>1, <1>4, MaxOfPart
  <2>2. s \ {Max(s)} \in SUBSET (1 .. k - 1)
    <3>1. ASSUME NEW e \in s \ {Max(s)}
          PROVE  e \in 1 .. k - 1
      <4>1. e \in 1 .. k /\ Max(s) \in 1 .. k /\ e <= Max(s) /\ e # Max(s)
        BY <2>1
      <4> QED
        BY <1>1, <4>1
    <3> QED
      BY <3>1
  <2>3. h[s \ {Max(s)}] = g[s \ {Max(s)}]
    BY <2>2
  <2>4. CASE s \in SUBSET (1 .. k - 1)
    BY <1>3, <1>4, <2>3, <2>4 DEF FoldsItems
  <2>5. CASE s \notin SUBSET (1 .. k - 1)
    BY <2>3, <2>5
  <2> QED
    BY <2>4, <2>5
<1>5. h[{}] = base
  <2>1. {} \in SUBSET (1 .. k - 1) /\ {} \in SUBSET (1 .. k)
    OBVIOUS
  <2> QED
    BY <1>3, <2>1 DEF FoldsItems
<1>6. FoldsItems(h, k, base, items)
  <2> HIDE DEF h
  <2>1. h = [s \in SUBSET (1 .. k) |-> h[s]]
    BY DEF h
  <2> QED
    BY <1>4, <1>5, <2>1 DEF FoldsItems
<1> QED
  BY <1>1, <1>6

\* S[i] holds of what the first i items give.
LEMMA FoldFeed ==
    ASSUME NEW T, NEW items \in Seq(T), NEW base, NEW S, base \in S[0],
           \A i \in 1 .. Len(items) : \A x \in S[i - 1] : FeedItem(x, items[i]) \in S[i]
    PROVE  FoldLeft(FeedItem, base, items) \in S[Len(items)]
<1> DEFINE n == Len(items)
           iter == CHOOSE g : FoldsItems(g, n, base, items)
<1>1. n \in Nat /\ DOMAIN items = 1 .. n
  OBVIOUS
<1>2. FoldsItems(iter, n, base, items)
  BY <1>1, FoldExists
<1>3. FoldLeft(FeedItem, base, items) = iter[1 .. n]
  BY <1>1 DEF FoldLeft, MapThenFoldSet, FoldsItems
<1> HIDE DEF iter, n
<1>4. ASSUME NEW k \in 1 .. n
      PROVE  Max(1 .. k) = k /\ (1 .. k) \ {k} = 1 .. k - 1
  <2>1. k \in Nat /\ k \in 1 .. k /\ (1 .. k) \in SUBSET (1 .. k)
    BY <1>1
  <2>2. Max(1 .. k) \in 1 .. k /\ (\A e \in 1 .. k : e <= Max(1 .. k))
    BY <2>1, MaxOfPart
  <2>3. Max(1 .. k) = k
    BY <2>1, <2>2
  <2> QED
    BY <2>1, <2>3
<1>5. \A k \in 1 .. n : iter[1 .. k] = FeedItem(iter[1 .. k - 1], items[k])
  <2>1. ASSUME NEW k \in 1 .. n
        PROVE  (1 .. k) \in SUBSET (1 .. n) /\ 1 .. k # {}
    <3>1. k \in Nat /\ k <= n /\ k \in 1 .. k
      BY <1>1
    <3> QED
      BY <1>1, <3>1
  <2> QED
    BY <1>2, <1>4, <2>1 DEF FoldsItems
<1>6. iter[1 .. 0] = base
  BY <1>1, <1>2 DEF FoldsItems
<1> DEFINE Bad == {k \in 0 .. n : iter[1 .. k] \notin S[k]}
<1>7. Bad = {}
  <2> SUFFICES ASSUME Bad # {} PROVE FALSE
    OBVIOUS
  <2>1. PICK k \in Bad : \A j \in Bad : k <= j
    <3>1. Bad \in SUBSET Nat
      BY <1>1
    <3> QED
      BY <3>1, LeastExists
  <2>2. k # 0
    BY <1>6, <2>1
  <2>3. k \in 1 .. n /\ iter[1 .. k - 1] \in S[k - 1]
    BY <1>1, <2>1, <2>2
  <2> QED
    BY <1>5, <2>1, <2>3 DEF n
<1> QED
  BY <1>1, <1>3, <1>7 DEF n

(***************************************************************************)
(* Conversations                                                           *)
(***************************************************************************)

ItemSet == [kind : Kinds, key : STRING]

LEMMA ConversationTyped ==
    ASSUME NEW m \in Messages
    PROVE  /\ Conversation[m] \in Seq(ItemSet)
           /\ \A i \in DOMAIN Conversation[m] :
                 /\ Conversation[m][i] \in ItemSet
                 /\ Conversation[m][i].key \in Keys
<1>1. Conversation[m] \in Seq(ItemSet)
  BY ConversationAssumption DEF Messages, ItemSet
<1>2. ASSUME NEW i \in DOMAIN Conversation[m]
      PROVE  Conversation[m][i] \in ItemSet /\ Conversation[m][i].key \in Keys
  <2>1. Conversation[m][i] \in ToSet(Conversation[m])
    BY DEF ToSet
  <2>2. Conversation[m][i].key \in {item.key : item \in ToSet(Conversation[m])}
    BY <2>1
  <2> QED
    BY <1>1, <2>2 DEF Keys
<1> QED
  BY <1>1, <1>2

\* The messages an item is in
LEMMA ItemOf ==
    ASSUME NEW m \in Messages, NEW i \in DOMAIN Conversation[m]
    PROVE  LET item == Conversation[m][i]
           IN  /\ item.kind = "request" => m \in RequestOf(item.key)
               /\ item.kind = "response" => m \in ResponseOf(item.key)
               /\ item.kind = "text" => m \in TextOf(item.key)
<1> DEFINE item == Conversation[m][i]
<1>1. item = Item(item.kind, item.key)
  BY ConversationTyped DEF ItemSet, Item
<1>2. item \in ToSet(Conversation[m])
  BY DEF ToSet
<1> QED
  BY <1>1, <1>2 DEF RequestOf, ResponseOf, TextOf

LEMMA PlaceOf ==
    ASSUME NEW key, NEW kind, NEW m \in Messages,
           Item(kind, key) \in ToSet(Conversation[m])
    PROVE  \E i \in DOMAIN Conversation[m] :
              /\ Conversation[m][i] = Item(kind, key)
              /\ Conversation[m][i].kind = kind /\ Conversation[m][i].key = key
  BY DEF ToSet, Item

LEMMA ToSetAppend ==
    ASSUME NEW T, NEW s \in Seq(T), NEW e \in T
    PROVE  ToSet(Append(s, e)) = ToSet(s) \cup {e}
<1>1. /\ DOMAIN Append(s, e) = 1 .. Len(s) + 1
      /\ \A i \in DOMAIN s : i \in DOMAIN Append(s, e) /\ Append(s, e)[i] = s[i]
      /\ Append(s, e)[Len(s) + 1] = e /\ Len(s) + 1 \in DOMAIN Append(s, e)
  OBVIOUS
<1>2. \A i \in DOMAIN Append(s, e) : i \in DOMAIN s \/ i = Len(s) + 1
  BY <1>1
<1> QED
  BY <1>1, <1>2 DEF ToSet

(***************************************************************************)
(* feed: what a message's first items leave pending and bring out          *)
(***************************************************************************)

FeedStates == [pending : SUBSET Keys, out : Seq(Keys)]

\* After the first n items of message m
Fed(s, m, n) ==
    /\ \A key \in ToSet(s.out) : key \notin seen /\ m \in TextOf(key) \cup ResponseOf(key)
    /\ \A key \in pending : key \in s.pending \cup ToSet(s.out) \cup seen
    /\ \A key \in s.pending : key \in pending \/ m \in RequestOf(key)
    /\ \A j \in 1 .. n :
          LET item == Conversation[m][j]
          IN  /\ item.kind = "request" => item.key \in s.pending \cup ToSet(s.out) \cup seen
              /\ item.kind = "text" => item.key \in ToSet(s.out) \cup seen
              /\ item.kind = "response" => item.key \notin s.pending

LEMMA FedItem ==
    ASSUME seen \subseteq Keys, NEW m \in Messages, NEW n \in DOMAIN Conversation[m],
           NEW s \in FeedStates, Fed(s, m, n - 1)
    PROVE  /\ FeedItem(s, Conversation[m][n]) \in FeedStates
           /\ Fed(FeedItem(s, Conversation[m][n]), m, n)
<1> DEFINE item == Conversation[m][n]
           t == FeedItem(s, item)
<1>1. /\ n \in Nat \ {0} /\ \A j \in 1 .. n : j = n \/ j \in 1 .. n - 1
      /\ \A j \in 1 .. n : j \in DOMAIN Conversation[m]
  BY ConversationTyped
<1>2. /\ item \in ItemSet /\ item.key \in Keys
      /\ item.kind = "request" => m \in RequestOf(item.key)
      /\ item.kind = "response" => m \in ResponseOf(item.key)
      /\ item.kind = "text" => m \in TextOf(item.key)
  BY ConversationTyped, ItemOf
<1>3. s.pending \in SUBSET Keys /\ s.out \in Seq(Keys)
  BY DEF FeedStates
<1>4. /\ ToSet(Append(s.out, item.key)) = ToSet(s.out) \cup {item.key}
      /\ Append(s.out, item.key) \in Seq(Keys)
  BY <1>2, <1>3, ToSetAppend
<1> HIDE DEF item
<1>5. CASE item.kind = "request"
  <2>1. t = [s EXCEPT !.pending = s.pending \cup {item.key}]
    BY <1>5 DEF FeedItem
  <2>2. /\ t \in FeedStates
        /\ t.pending = s.pending \cup {item.key} /\ t.out = s.out
    BY <1>2, <2>1 DEF FeedStates
  <2>3. ASSUME NEW j \in 1 .. n - 1, Conversation[m][j].kind = "response"
        PROVE  Conversation[m][j].key # item.key
    <3>1. item = Item("request", item.key)
      BY <1>2, <1>5 DEF ItemSet, Item
    <3>2. j \in DOMAIN Conversation[m] /\ n \in DOMAIN Conversation[m] /\ ~(n < j)
      BY <1>1
    <3> QED
      BY <2>3, <3>1, <3>2, AnswersAssumption DEF item
  <2>4. Fed(t, m, n)
    <3> HIDE DEF t
    <3>1. ASSUME NEW j \in 1 .. n
          PROVE  /\ Conversation[m][j].kind = "request" =>
                       Conversation[m][j].key \in t.pending \cup ToSet(t.out) \cup seen
                 /\ Conversation[m][j].kind = "text" =>
                       Conversation[m][j].key \in ToSet(t.out) \cup seen
                 /\ Conversation[m][j].kind = "response" =>
                       Conversation[m][j].key \notin t.pending
      BY <1>1, <1>5, <2>2, <2>3 DEF Fed, item
    <3> QED
      BY <1>2, <1>5, <2>2, <3>1 DEF Fed
  <2> QED
    BY <2>2, <2>4 DEF item
<1>6. CASE item.kind = "response"
  <2>1. t = [pending |-> s.pending \ {item.key},
             out |-> IF item.key \in s.pending \ seen THEN Append(s.out, item.key)
                                                      ELSE s.out]
    BY <1>6 DEF FeedItem
  <2>2. /\ t \in FeedStates
        /\ t.pending = s.pending \ {item.key}
        /\ ToSet(t.out) = IF item.key \in s.pending \ seen
                          THEN ToSet(s.out) \cup {item.key} ELSE ToSet(s.out)
    <3>1. CASE item.key \in s.pending \ seen
      BY <1>3, <1>4, <2>1, <3>1 DEF FeedStates
    <3>2. CASE item.key \notin s.pending \ seen
      BY <1>3, <2>1, <3>2 DEF FeedStates
    <3> QED
      BY <3>1, <3>2
  <2>3. Fed(t, m, n)
    <3> HIDE DEF t
    <3>1. s.pending \subseteq t.pending \cup ToSet(t.out) \cup seen
      BY <2>2
    <3>2. ASSUME NEW j \in 1 .. n
          PROVE  /\ Conversation[m][j].kind = "request" =>
                       Conversation[m][j].key \in t.pending \cup ToSet(t.out) \cup seen
                 /\ Conversation[m][j].kind = "text" =>
                       Conversation[m][j].key \in ToSet(t.out) \cup seen
                 /\ Conversation[m][j].kind = "response" =>
                       Conversation[m][j].key \notin t.pending
      BY <1>1, <1>6, <2>2, <3>1 DEF Fed, item
    <3> QED
      BY <1>2, <1>6, <2>2, <3>1, <3>2 DEF Fed
  <2> QED
    BY <2>2, <2>3 DEF item
<1>7. CASE item.kind = "text"
  <2>1. t = [s EXCEPT !.out = IF item.key \in seen THEN s.out
                                                   ELSE Append(s.out, item.key)]
    BY <1>7 DEF FeedItem
  <2>2. /\ t \in FeedStates
        /\ t.pending = s.pending
        /\ ToSet(t.out) = IF item.key \in seen THEN ToSet(s.out)
                                               ELSE ToSet(s.out) \cup {item.key}
    <3>1. CASE item.key \in seen
      BY <1>3, <2>1, <3>1 DEF FeedStates
    <3>2. CASE item.key \notin seen
      BY <1>3, <1>4, <2>1, <3>2 DEF FeedStates
    <3> QED
      BY <3>1, <3>2
  <2>3. Fed(t, m, n)
    <3> HIDE DEF t
    <3>1. ASSUME NEW j \in 1 .. n
          PROVE  /\ Conversation[m][j].kind = "request" =>
                       Conversation[m][j].key \in t.pending \cup ToSet(t.out) \cup seen
                 /\ Conversation[m][j].kind = "text" =>
                       Conversation[m][j].key \in ToSet(t.out) \cup seen
                 /\ Conversation[m][j].kind = "response" =>
                       Conversation[m][j].key \notin t.pending
      BY <1>1, <1>7, <2>2 DEF Fed, item
    <3> QED
      BY <1>2, <1>7, <2>2, <3>1 DEF Fed
  <2> QED
    BY <2>2, <2>3 DEF item
<1> QED
  BY <1>2, <1>5, <1>6, <1>7 DEF ItemSet, Kinds

LEMMA FedItems ==
    ASSUME seen \subseteq Keys, pending \subseteq Keys, NEW m \in Messages,
           NEW items \in Seq(ItemSet), Len(items) <= Len(Conversation[m]),
           \A i \in 1 .. Len(items) : items[i] = Conversation[m][i]
    PROVE  Feed(items) \in FeedStates /\ Fed(Feed(items), m, Len(items))
<1> DEFINE base == [pending |-> pending, out |-> <<>>]
           S == [i \in 0 .. Len(items) |-> {s \in FeedStates : Fed(s, m, i)}]
<1>1. base \in S[0]
  <2>1. base \in FeedStates
    BY DEF FeedStates
  <2>2. ToSet(base.out) = {}
    BY DEF ToSet
  <2> QED
    BY <2>1, <2>2 DEF Fed
<1>2. ASSUME NEW i \in 1 .. Len(items), NEW x \in S[i - 1]
      PROVE  FeedItem(x, items[i]) \in S[i]
  <2>1. i \in DOMAIN Conversation[m] /\ i - 1 \in 0 .. Len(items)
    BY ConversationTyped
  <2>2. x \in FeedStates /\ Fed(x, m, i - 1)
    BY <2>1
  <2>3. FeedItem(x, items[i]) \in FeedStates /\ Fed(FeedItem(x, items[i]), m, i)
    BY <2>1, <2>2, FedItem
  <2> QED
    BY <2>3
<1> HIDE DEF S
<1>3. FoldLeft(FeedItem, base, items) \in S[Len(items)]
  BY <1>1, <1>2, FoldFeed
<1> QED
  BY <1>3 DEF S, Feed

(***************************************************************************)
(* The inductive invariant                                                 *)
(***************************************************************************)

Held == stored \cup pruned

\* Messages whose row in the table is not past an id; those of this poll
BehindId(id) == {table[i].message : i \in {j \in DOMAIN table : table[j].id <= id}}
Reached == BehindId(IF polling THEN maxId ELSE cursor)

\* Goose's rows are in order of message and of id.
Table ==
    \A i \in DOMAIN table :
        /\ table[i].message = i /\ table[i].id < nextId
        /\ \A j \in 1 .. i - 1 : table[j].id < table[i].id

Cursors ==
    /\ cursor < nextId /\ maxId < nextId
    /\ polling => cursor <= maxId
    /\ ~polling => batch = <<>>
    /\ \A i \in DOMAIN batch : cursor < batch[i].id /\ batch[i].id < nextId

\* The rows in hand follow, in the table, those behind maxId; or Goose has
\* rewritten the table since they were read, and all its rows are past them.
Follows(b) == \A i \in DOMAIN batch : b + i \in DOMAIN table /\ batch[i] = table[b + i]
Overtaken(b) ==
    b = 0 /\ \A i \in DOMAIN batch, j \in DOMAIN table : batch[i].id < table[j].id
Reading ==
    \E b \in 0 .. Len(table) :
        /\ \A j \in DOMAIN table : table[j].id <= maxId <=> j <= b
        /\ Follows(b) \/ Overtaken(b)

Remembered ==
    /\ seen \subseteq Held
    /\ crashes = 0 => Held \subseteq seen /\ again = {}

Counts == IsFiniteSet(Held) /\ CountsAreDistinct

\* What has become of the texts, requests and responses of the reached messages
Texts ==
    \A key \in Keys : \A m \in TextOf(key) \cap Reached : key \in Held \/ m \in failed
Requests ==
    \A key \in Keys :
        RequestOf(key) # {} /\ RequestOf(key) \subseteq Reached =>
            key \in pending \cup Held \cup orphaned \/ Excused(key)
Responses ==
    \A key \in pending : ResponseOf(key) \cap Reached # {} => Excused(key)

IInv ==
    /\ Table /\ Cursors /\ Reading
    /\ Remembered /\ Counts
    /\ Texts /\ Requests /\ Responses

(***************************************************************************)
(* Finite sets                                                             *)
(***************************************************************************)

LEMMA ToSetFinite ==
    ASSUME NEW T, NEW s \in Seq(T)
    PROVE  IsFiniteSet(ToSet(s)) /\ ToSet(s) \in SUBSET T
<1>1. DOMAIN s = 1 .. Len(s) /\ Len(s) \in Nat
  OBVIOUS
<1>2. ToSet(s) \in SUBSET T /\ s \in Seq(ToSet(s))
  BY <1>1 DEF ToSet
<1>3. \A e \in ToSet(s) : \E n \in 1 .. Len(s) : s[n] = e
  BY <1>1 DEF ToSet
<1> QED
  BY <1>2, <1>3 DEF IsFiniteSet

(***************************************************************************)
(* One row                                                                 *)
(***************************************************************************)

\* What the step that takes message m, the first of the batch, does: events
\* are stored, and each of its requests and texts, and each request that was
\* pending, is pending or stored after it, unless the message is noted as failed.
Taken(m, keys) ==
    /\ polling /\ batch # <<>> /\ m = Head(batch).message
    /\ NextRow
    /\ UNCHANGED <<gooseVars, cursor, polling, pruned, orphaned, pollErrors, crashes>>
    /\ IsFiniteSet(keys) /\ keys \subseteq Keys /\ keys \cap seen = {}
    /\ stored' = stored \cup keys
    /\ count' = count + Cardinality(keys \ stored)
    /\ seen' = seen \cup keys
    /\ again' = again \cup (keys \cap (pruned \ stored))
    /\ failed' \in {failed, failed \cup {m}}
    /\ pending' \subseteq Keys
    /\ \A key \in pending' : key \in pending \/ m \in RequestOf(key)
    /\ \A key \in pending :
          \/ key \in pending' \cup Held' \cup seen
          \/ m \in failed' /\ m \in TextOf(key) \cup ResponseOf(key)
    /\ \A key : m \in RequestOf(key) =>
          key \in pending' \cup Held' \cup seen \/ m \in failed'
    /\ \A key : m \in TextOf(key) => key \in Held' \cup seen \/ m \in failed'
    /\ \A key \in pending' : m \in ResponseOf(key) => m \in failed'

LEMMA HeadOfBatch ==
    ASSUME TypeOK, batch # <<>>
    PROVE  /\ Head(batch) \in Rows /\ Head(batch).message \in Messages
           /\ Items \in Seq(ItemSet)
           /\ Items = Conversation[Head(batch).message]
<1>1. Head(batch) \in Rows
  BY DEF TypeOK
<1> QED
  BY <1>1, ConversationTyped DEF Rows, Items

\* What Fed says of a whole message, by key
LEMMA FedWhole ==
    ASSUME TypeOK, batch # <<>>
    PROVE  LET m == Head(batch).message
               s == Feed(Items)
           IN  /\ s.pending \subseteq Keys /\ s.out \in Seq(Keys)
               /\ \A key \in ToSet(s.out) :
                     key \notin seen /\ m \in TextOf(key) \cup ResponseOf(key)
               /\ \A key \in pending : key \in s.pending \cup ToSet(s.out) \cup seen
               /\ \A key \in s.pending : key \in pending \/ m \in RequestOf(key)
               /\ \A key : m \in RequestOf(key) =>
                     key \in s.pending \cup ToSet(s.out) \cup seen
               /\ \A key : m \in TextOf(key) => key \in ToSet(s.out) \cup seen
               /\ \A key \in s.pending : m \notin ResponseOf(key)
<1> DEFINE m == Head(batch).message
           s == Feed(Items)
<1>1. m \in Messages /\ Items \in Seq(ItemSet) /\ Items = Conversation[m]
  BY HeadOfBatch
<1>2. s \in FeedStates /\ Fed(s, m, Len(Items))
  BY <1>1, FedItems DEF TypeOK
<1>3. \A i \in DOMAIN Conversation[m] : i \in 1 .. Len(Items)
  BY <1>1
<1> HIDE DEF m, s
<1>4. ASSUME NEW key, m \in RequestOf(key)
      PROVE  key \in s.pending \cup ToSet(s.out) \cup seen
  <2>1. PICK i \in DOMAIN Conversation[m] :
           Conversation[m][i].kind = "request" /\ Conversation[m][i].key = key
    BY <1>4, PlaceOf DEF RequestOf
  <2> QED
    BY <1>2, <1>3, <2>1 DEF Fed
<1>5. ASSUME NEW key, m \in TextOf(key)
      PROVE  key \in ToSet(s.out) \cup seen
  <2>1. PICK i \in DOMAIN Conversation[m] :
           Conversation[m][i].kind = "text" /\ Conversation[m][i].key = key
    BY <1>5, PlaceOf DEF TextOf
  <2> QED
    BY <1>2, <1>3, <2>1 DEF Fed
<1>6. ASSUME NEW key \in s.pending, m \in ResponseOf(key)
      PROVE  FALSE
  <2>1. PICK i \in DOMAIN Conversation[m] :
           Conversation[m][i].kind = "response" /\ Conversation[m][i].key = key
    BY <1>6, PlaceOf DEF ResponseOf
  <2> QED
    BY <1>2, <1>3, <2>1 DEF Fed
<1> QED
  BY <1>2, <1>4, <1>5, <1>6 DEF Fed, FeedStates, m, s

\* The first events of a message, the ones committed when a failure comes
LEMMA FirstEvents ==
    ASSUME NEW out \in Seq(Keys), NEW n \in 0 .. Len(out)
    PROVE  LET keys == ToSet(SubSeq(out, 1, n))
           IN  IsFiniteSet(keys) /\ keys \in SUBSET Keys /\ keys \subseteq ToSet(out)
<1> DEFINE some == SubSeq(out, 1, n)
<1>1. n \in Nat /\ n <= Len(out)
  OBVIOUS
<1>2. /\ some \in Seq(Keys) /\ DOMAIN some = 1 .. n
      /\ \A i \in 1 .. n : i \in DOMAIN out /\ some[i] = out[i]
  BY <1>1
<1> HIDE DEF some
<1>3. ToSet(some) \subseteq ToSet(out)
  BY <1>2 DEF ToSet
<1>4. IsFiniteSet(ToSet(some)) /\ ToSet(some) \in SUBSET Keys
  BY <1>2, ToSetFinite
<1> QED
  BY <1>3, <1>4 DEF some

LEMMA ProcessRowTakes ==
    ASSUME TypeOK, ProcessRow
    PROVE  \E m \in Messages, keys \in SUBSET Keys : Taken(m, keys)
<1> DEFINE m == Head(batch).message
           s == Feed(Items)
           keys == ToSet(s.out)
<1>1. batch # <<>> /\ m \in Messages
  BY HeadOfBatch DEF ProcessRow
<1>2. IsFiniteSet(keys) /\ keys \in SUBSET Keys
  BY <1>1, FedWhole, ToSetFinite
<1>3. /\ stored' = stored \cup keys
      /\ count' = count + Cardinality(keys \ stored)
      /\ seen' = seen \cup keys
      /\ again' = again \cup (keys \cap (pruned \ stored))
      /\ pending' = s.pending /\ failed' = failed /\ pruned' = pruned
  BY DEF ProcessRow, Store, Insert, Counted, Seen
<1>4. /\ polling /\ NextRow
      /\ UNCHANGED <<gooseVars, cursor, polling, pruned, orphaned, pollErrors, crashes>>
  BY DEF ProcessRow
<1>5. Taken(m, keys)
  BY <1>1, <1>2, <1>3, <1>4, FedWhole DEF Taken, Held
<1> QED
  BY <1>1, <1>2, <1>5

LEMMA InsertFailsTakes ==
    ASSUME TypeOK, InsertFails
    PROVE  \E m \in Messages, keys \in SUBSET Keys : Taken(m, keys)
<1> DEFINE m == Head(batch).message
           s == Feed(Items)
<1>1. batch # <<>> /\ m \in Messages /\ s.out \in Seq(Keys)
  BY HeadOfBatch, FedWhole DEF InsertFails
<1>2. PICK n \in 0 .. Len(s.out) - 1 : Store(ToSet(SubSeq(s.out, 1, n)))
  BY DEF InsertFails
<1> DEFINE keys == ToSet(SubSeq(s.out, 1, n))
<1>3. n \in 0 .. Len(s.out)
  BY <1>1, <1>2
<1>4. IsFiniteSet(keys) /\ keys \in SUBSET Keys /\ keys \subseteq ToSet(s.out)
  <2> HIDE DEF s
  <2> QED
    BY <1>1, <1>3, FirstEvents
<1>5. /\ stored' = stored \cup keys
      /\ count' = count + Cardinality(keys \ stored)
      /\ seen' = seen \cup keys
      /\ again' = again \cup (keys \cap (pruned \ stored))
  BY <1>2 DEF Store, Insert, Counted, Seen
<1>6. /\ polling /\ NextRow
      /\ pending' = s.pending /\ failed' = failed \cup {m}
      /\ UNCHANGED <<gooseVars, cursor, polling, pruned, orphaned, pollErrors, crashes>>
  BY DEF InsertFails, SkipRow
<1> HIDE DEF s, keys
<1>7. Taken(m, keys)
  <2>1. /\ s.pending \subseteq Keys
        /\ \A key \in ToSet(s.out) :
              key \notin seen /\ m \in TextOf(key) \cup ResponseOf(key)
        /\ \A key \in pending : key \in s.pending \cup ToSet(s.out) \cup seen
        /\ \A key \in s.pending : key \in pending \/ m \in RequestOf(key)
    BY <1>1, FedWhole DEF s
  <2>2. m \in failed' /\ keys \cap seen = {}
    BY <1>4, <1>6, <2>1
  <2> HIDE DEF m
  <2>3. \A key \in pending :
          \/ key \in pending' \cup Held' \cup seen
          \/ m \in failed' /\ m \in TextOf(key) \cup ResponseOf(key)
    BY <1>6, <2>1, <2>2
  <2> QED
    BY <1>1, <1>4, <1>5, <1>6, <2>1, <2>2, <2>3 DEF Taken, m
<1> QED
  BY <1>1, <1>4, <1>7

LEMMA NormalizeFailsTakes ==
    ASSUME TypeOK, NormalizeFails
    PROVE  \E m \in Messages, keys \in SUBSET Keys : Taken(m, keys)
<1> DEFINE m == Head(batch).message
<1>1. batch # <<>> /\ m \in Messages /\ Items = Conversation[m] /\ Items \in Seq(ItemSet)
  BY HeadOfBatch DEF NormalizeFails
<1>2. PICK i \in DOMAIN Items : pending' = Feed(SubSeq(Items, 1, i)).pending
  BY DEF NormalizeFails
<1> DEFINE items == SubSeq(Items, 1, i)
           s == Feed(items)
<1>3. /\ items \in Seq(ItemSet) /\ Len(items) = i /\ i <= Len(Conversation[m])
      /\ \A j \in 1 .. i : items[j] = Conversation[m][j]
  BY <1>1, <1>2
<1>4. s \in FeedStates /\ Fed(s, m, i)
  <2> HIDE DEF items, m
  <2> QED
    BY <1>1, <1>3, FedItems DEF TypeOK
<1>5. /\ polling /\ NextRow
      /\ pending' = s.pending /\ failed' = failed \cup {m}
      /\ UNCHANGED <<gooseVars, cursor, polling, pruned, orphaned, pollErrors, crashes>>
      /\ UNCHANGED <<stored, count, seen, again>>
  BY <1>2 DEF NormalizeFails, SkipRow, storeVars
<1> HIDE DEF s, items
<1>6. count + Cardinality({} \ stored) = count /\ IsFiniteSet({})
  <2>1. {} \ stored = {}
    OBVIOUS
  <2> QED
    BY <2>1, FS_EmptySet DEF TypeOK
<1>7. Taken(m, {})
  <2>1. /\ s.pending \subseteq Keys
        /\ \A key \in ToSet(s.out) : m \in TextOf(key) \cup ResponseOf(key)
        /\ \A key \in pending : key \in s.pending \cup ToSet(s.out) \cup seen
        /\ \A key \in s.pending : key \in pending \/ m \in RequestOf(key)
    BY <1>4 DEF Fed, FeedStates
  <2>2. m \in failed'
    BY <1>5
  <2> HIDE DEF m
  <2>3. \A key \in pending :
          \/ key \in pending' \cup Held' \cup seen
          \/ m \in failed' /\ m \in TextOf(key) \cup ResponseOf(key)
    BY <1>5, <2>1, <2>2
  <2> QED
    BY <1>1, <1>5, <1>6, <2>1, <2>2, <2>3 DEF Taken, m
<1> QED
  BY <1>1, <1>7

LEMMA RowTakes ==
    ASSUME TypeOK, ProcessRow \/ NormalizeFails \/ InsertFails
    PROVE  \E m \in Messages, keys \in SUBSET Keys : Taken(m, keys)
  BY ProcessRowTakes, NormalizeFailsTakes, InsertFailsTakes

\* A death stores none of the events of a message or some of them, and takes
\* the memory.
Died(keys) ==
    /\ IsFiniteSet(keys) /\ keys \subseteq Keys
    /\ stored' = stored \cup keys
    /\ count' = count + Cardinality(keys \ stored)
    /\ again' = again \cup (keys \cap (pruned \ stored))
    /\ Dies
    /\ UNCHANGED <<gooseVars, cursor, failed, pruned, pollErrors>>

LEMMA DeathStoresSome ==
    ASSUME TypeOK, Crash \/ CrashInRow
    PROVE  \E keys \in SUBSET Keys : Died(keys)
<1>1. CASE Crash
  <2>1. {} \ stored = {} /\ {} \cap (pruned \ stored) = {} /\ {} \in SUBSET Keys
    OBVIOUS
  <2>2. count + Cardinality({} \ stored) = count /\ IsFiniteSet({})
    BY <2>1, FS_EmptySet DEF TypeOK
  <2>3. stored' = stored /\ count' = count /\ again' = again
    BY <1>1 DEF Crash, storeVars
  <2>4. Died({})
    BY <1>1, <2>1, <2>2, <2>3 DEF Crash, Died, storeVars
  <2> QED
    BY <2>1, <2>4
<1>2. CASE CrashInRow
  <2> DEFINE out == Feed(Items).out
  <2>1. out \in Seq(Keys)
    BY <1>2, FedWhole DEF CrashInRow
  <2>2. PICK n \in 1 .. Len(out) : Insert(ToSet(SubSeq(out, 1, n)))
    BY <1>2 DEF CrashInRow
  <2> DEFINE keys == ToSet(SubSeq(out, 1, n))
  <2>3. /\ stored' = stored \cup keys
        /\ count' = count + Cardinality(keys \ stored)
        /\ again' = again \cup (keys \cap (pruned \ stored))
    BY <2>2 DEF Insert, Counted
  <2> HIDE DEF out
  <2>4. n \in 0 .. Len(out)
    BY <2>1, <2>2
  <2>5. IsFiniteSet(keys) /\ keys \in SUBSET Keys
    BY <2>1, <2>4, FirstEvents
  <2>6. Died(keys)
    BY <1>2, <2>3, <2>5 DEF CrashInRow, Died
  <2> QED
    BY <2>5, <2>6
<1> QED
  BY <1>1, <1>2

(***************************************************************************)
(* Types                                                                   *)
(***************************************************************************)

LEMMA RowIds ==
    ASSUME TypeOK
    PROVE  /\ \A j \in DOMAIN table : table[j] \in Rows /\ table[j].id \in Nat
           /\ \A i \in DOMAIN batch : batch[i] \in Rows /\ batch[i].id \in Nat
<1>1. /\ \A j \in DOMAIN table : table[j] \in Rows
      /\ \A i \in DOMAIN batch : batch[i] \in Rows
  BY DEF TypeOK
<1>2. \A row \in Rows : row.id \in Nat
  BY ConversationAssumption DEF Rows
<1> QED
  BY <1>1, <1>2

LEMMA RowsPastTyped ==
    ASSUME TypeOK, NEW id
    PROVE  /\ RowsPast(id) \in Seq(Rows)
           /\ \A k \in Nat : Cardinality({i \in DOMAIN table : table[i].id <= id}) = k =>
                 RowsPast(id) = SubSeq(table, k + 1, Len(table))
<1>1. table \in Seq(Rows) /\ DOMAIN table = 1 .. Len(table) /\ Len(table) \in Nat
  BY DEF TypeOK
<1>2. IsFiniteSet({i \in DOMAIN table : table[i].id <= id})
  <2>1. IsFiniteSet(DOMAIN table)
    BY <1>1, FS_Interval
  <2> QED
    BY <2>1, FS_Subset
<1>3. Cardinality({i \in DOMAIN table : table[i].id <= id}) \in Nat
  BY <1>2, FS_CardinalityType
<1>4. ASSUME NEW k \in Nat
      PROVE  SubSeq(table, k + 1, Len(table)) \in Seq(Rows)
  BY <1>1
<1> QED
  BY <1>3, <1>4 DEF RowsPast

LEMMA TypeInit == Init => TypeOK
<1> SUFFICES ASSUME Init PROVE TypeOK
  OBVIOUS
<1>1. table \in Seq(Rows) /\ batch \in Seq(Rows)
  BY DEF Init
<1>2. /\ nextId \in 1 .. MaxId + 1 /\ cursor \in 0 .. MaxId /\ maxId \in 0 .. MaxId
      /\ count \in Nat /\ pollErrors \in 0 .. MaxPollErrors /\ crashes \in 0 .. MaxCrashes
  BY ConversationAssumption DEF Init
<1> QED
  BY <1>1, <1>2 DEF Init, TypeOK

LEMMA TypeTaken ==
    ASSUME TypeOK, NEW m \in Messages, NEW keys \in SUBSET Keys, Taken(m, keys)
    PROVE  TypeOK'
<1>1. IsFiniteSet(keys \ stored)
  BY FS_Subset DEF Taken
<1>2. count' \in Nat
  BY <1>1, FS_CardinalityType DEF Taken, TypeOK
<1>3. batch' \in Seq(Rows) /\ maxId' \in 0 .. MaxId
  <2>1. batch \in Seq(Rows) /\ batch # <<>>
    BY DEF Taken, TypeOK
  <2>2. Head(batch) \in Rows /\ Tail(batch) \in Seq(Rows)
    BY <2>1
  <2>3. Head(batch).id \in 1 .. MaxId /\ MaxId \in Nat
    BY <2>2, ConversationAssumption DEF Rows
  <2> QED
    BY <2>2, <2>3 DEF Taken, NextRow
<1> QED
  BY <1>2, <1>3 DEF Taken, TypeOK, gooseVars

LEMMA TypeNext ==
    ASSUME TypeOK, [Next]_vars
    PROVE  TypeOK'
<1>0. MaxId \in Nat /\ MaxErrors \in Nat /\ MaxPollErrors \in Nat /\ MaxCrashes \in Nat
  BY ConversationAssumption
<1>1. CASE UNCHANGED vars
  BY <1>1 DEF TypeOK, vars, gooseVars, storeVars, memoryVars, historyVars
<1>2. CASE Write
  <2>1. PICK m \in Messages : table' = Append(table, [id |-> nextId, message |-> m])
    BY <1>2 DEF Write
  <2>2. nextId \in 1 .. MaxId /\ nextId' = nextId + 1
    BY <1>0, <1>2 DEF Write, TypeOK
  <2>3. [id |-> nextId, message |-> m] \in Rows
    BY <2>2 DEF Rows
  <2>4. table' \in Seq(Rows) /\ nextId' \in 1 .. MaxId + 1
    BY <1>0, <2>1, <2>2, <2>3 DEF TypeOK
  <2> QED
    BY <1>2, <2>4 DEF Write, TypeOK, storeVars, memoryVars, historyVars
<1>3. CASE Rewrite
  <2>1. /\ table \in Seq(Rows) /\ Len(table) \in Nat /\ DOMAIN table = 1 .. Len(table)
        /\ nextId \in Nat \ {0} /\ nextId + Len(table) <= MaxId + 1
    BY <1>0, <1>3 DEF Rewrite, TypeOK
  <2>2. ASSUME NEW i \in DOMAIN table
        PROVE  [id |-> nextId + i - 1, message |-> table[i].message] \in Rows
    <3>1. table[i] \in Rows /\ nextId + i - 1 \in 1 .. MaxId
      BY <1>0, <2>1
    <3> QED
      BY <3>1 DEF Rows
  <2>3. table' \in Seq(Rows)
    BY <1>3, <2>1, <2>2 DEF Rewrite
  <2>4. nextId' \in 1 .. MaxId + 1
    BY <1>0, <1>3, <2>1 DEF Rewrite
  <2> QED
    BY <1>3, <2>3, <2>4 DEF Rewrite, TypeOK, storeVars, memoryVars, historyVars
<1>4. CASE PollBegin
  BY <1>4, RowsPastTyped DEF PollBegin, TypeOK, gooseVars, storeVars, historyVars
<1>5. CASE ProcessRow \/ NormalizeFails \/ InsertFails
  BY <1>5, RowTakes, TypeTaken
<1>6. ASSUME NEW old \in SUBSET stored, PollEnd(old)
      PROVE  TypeOK'
  BY <1>6 DEF PollEnd, TypeOK, gooseVars
<1>7. CASE PollFails
  <2>1. pollErrors' \in 0 .. MaxPollErrors
    BY <1>0, <1>7 DEF PollFails, TypeOK
  <2> QED
    BY <1>7, <2>1 DEF PollFails, TypeOK, gooseVars, storeVars, historyVars
<1>8. CASE Crash \/ CrashInRow
  <2>1. PICK keys \in SUBSET Keys : Died(keys)
    BY <1>8, DeathStoresSome
  <2>2. crashes' \in 0 .. MaxCrashes
    BY <1>0, <2>1 DEF Died, Dies, TypeOK
  <2>3. batch' \in Seq(Rows) /\ maxId' \in 0 .. MaxId
    BY <1>0, <2>1 DEF Died, Dies
  <2>4. count' \in Nat
    <3>1. IsFiniteSet(keys \ stored)
      BY <2>1, FS_Subset DEF Died
    <3> QED
      BY <2>1, <3>1, FS_CardinalityType DEF Died, TypeOK
  <2> QED
    BY <2>1, <2>2, <2>3, <2>4 DEF Died, Dies, TypeOK, gooseVars
<1> QED
  BY <1>1, <1>2, <1>3, <1>4, <1>5, <1>6, <1>7, <1>8 DEF Next

\* The type invariant
THEOREM TypeCorrect == Spec => []TypeOK
<1>1. TypeOK /\ [Next]_vars => TypeOK'
  BY TypeNext
<1> QED
  BY TypeInit, <1>1, PTL DEF Spec

(***************************************************************************)
(* Steps                                                                   *)
(***************************************************************************)

\* What the messages reached are, when the rows not past an id are the first b
LEMMA ReachedRows ==
    ASSUME TypeOK, Table, NEW id, NEW b \in 0 .. Len(table),
           \A j \in DOMAIN table : table[j].id <= id <=> j <= b
    PROVE  BehindId(id) = 1 .. b
<1>1. DOMAIN table = 1 .. Len(table) /\ Len(table) \in Nat
  BY DEF TypeOK
<1>2. {j \in DOMAIN table : table[j].id <= id} = 1 .. b
  BY <1>1
<1>3. \A i \in 1 .. b : table[i].message = i
  BY <1>1 DEF Table
<1> QED
  BY <1>2, <1>3 DEF BehindId

LEMMA BehindGrows ==
    ASSUME TypeOK, NEW c \in Nat, NEW d \in Nat, c <= d
    PROVE  BehindId(c) \subseteq BehindId(d)
<1>1. \A i \in DOMAIN table : table[i].id \in Nat
  BY RowIds
<1> QED
  BY <1>1 DEF BehindId

\* Steps that leave the table as it is, and are no progress of the poll
LEMMA ResultsKept ==
    ASSUME Texts, Requests, Responses, Reached' \subseteq Reached,
           Held \subseteq Held', failed' = failed, orphaned \subseteq orphaned',
           pending' \subseteq pending,
           \A key \in pending \ pending' :
               RequestOf(key) # {} /\ RequestOf(key) \subseteq Reached' =>
                   key \in orphaned'
    PROVE  Texts' /\ Requests' /\ Responses'
<1>1. \A key : Excused(key)' <=> Excused(key)
  BY DEF Excused
<1>2. Texts'
  BY DEF Texts
<1>3. Requests'
  BY <1>1 DEF Requests
<1>4. Responses'
  BY <1>1 DEF Responses
<1> QED
  BY <1>2, <1>3, <1>4

LEMMA InvInit == Init => IInv
<1> SUFFICES ASSUME Init PROVE IInv
  OBVIOUS
<1>1. table = <<>> /\ batch = <<>> /\ DOMAIN table = {} /\ Len(table) = 0
  BY DEF Init
<1>2. Reached = {}
  BY <1>1 DEF Reached, BehindId
<1>3. Table /\ Cursors
  BY <1>1 DEF Init, Table, Cursors
<1>4. Reading
  <2>1. 0 \in 0 .. Len(table) /\ Follows(0)
    BY <1>1 DEF Follows
  <2> QED
    BY <1>1, <2>1 DEF Reading
<1>5. Remembered
  BY DEF Init, Remembered, Held
<1>6. Counts
  <2>1. Held = {} /\ count = 0 /\ stored \cup pruned = {}
    BY DEF Init, Held
  <2> QED
    BY <2>1, FS_EmptySet DEF Counts, CountsAreDistinct
<1>7. Texts /\ Requests /\ Responses
  BY <1>2 DEF Init, Texts, Requests, Responses
<1> QED
  BY <1>3, <1>4, <1>5, <1>6, <1>7 DEF IInv

(***************************************************************************)
(* Goose's steps                                                           *)
(***************************************************************************)

\* What is not about the table is as it was.
LEMMA MemoryKept ==
    ASSUME Remembered, Counts,
           UNCHANGED <<storeVars, memoryVars, historyVars, pollErrors, crashes>>
    PROVE  Remembered' /\ Counts'
  BY DEF Remembered, Counts, CountsAreDistinct, Held, storeVars, memoryVars, historyVars

LEMMA StepWrite ==
    ASSUME TypeOK, IInv, Write
    PROVE  IInv'
<1>1. PICK m \in Messages :
         /\ m \notin Written /\ \A k \in 1 .. m - 1 : k \in Written
         /\ table' = Append(table, [id |-> nextId, message |-> m])
  BY DEF Write
<1> DEFINE n == Len(table)
<1>2. /\ table \in Seq(Rows) /\ n \in Nat /\ DOMAIN table = 1 .. n
      /\ nextId \in Nat /\ nextId' = nextId + 1
      /\ cursor \in Nat /\ maxId \in Nat /\ m \in Nat \ {0}
  <2>1. m \in Nat \ {0}
    BY ConversationAssumption DEF Messages
  <2>2. table \in Seq(Rows)
    BY DEF TypeOK
  <2> QED
    BY <2>1, <2>2, ConversationAssumption DEF TypeOK, Write
<1>3. Written = 1 .. n
  BY <1>2 DEF IInv, Table, Written
<1>4. m = n + 1
  BY <1>1, <1>2, <1>3
<1>5. /\ Len(table') = n + 1 /\ DOMAIN table' = 1 .. n + 1
      /\ \A i \in 1 .. n : table'[i] = table[i]
      /\ table'[n + 1] = [id |-> nextId, message |-> m]
  BY <1>1, <1>2
<1>6. \A i \in 1 .. n : table[i].id \in Nat /\ table[i].id < nextId
  <2> SUFFICES ASSUME NEW i \in 1 .. n
               PROVE  table[i].id \in Nat /\ table[i].id < nextId
    OBVIOUS
  <2>1. table[i] \in Rows /\ i \in DOMAIN table
    BY <1>2
  <2>2. table[i].id \in Nat
    BY <2>1, RowIds
  <2> QED
    BY <2>1, <2>2 DEF IInv, Table
<1>7. /\ UNCHANGED <<storeVars, memoryVars, historyVars, pollErrors, crashes>>
      /\ UNCHANGED <<cursor, maxId, batch, polling, pending, failed, orphaned>>
      /\ Held' = Held
  BY DEF Write, storeVars, memoryVars, historyVars, Held
<1> HIDE DEF n
<1>8. Table'
  <2> SUFFICES ASSUME NEW i \in 1 .. n + 1
               PROVE  /\ table'[i].message = i /\ table'[i].id < nextId + 1
                      /\ \A j \in 1 .. i - 1 : table'[j].id < table'[i].id
    BY <1>2, <1>5 DEF Table
  <2>1. CASE i = n + 1
    BY <1>2, <1>4, <1>5, <1>6, <2>1
  <2>2. CASE i \in 1 .. n
    <3>1. \A j \in 1 .. i - 1 : j \in 1 .. n
      BY <1>2
    <3>2. table[i].message = i /\ \A j \in 1 .. i - 1 : table[j].id < table[i].id
      BY <1>2, <2>2 DEF IInv, Table
    <3> QED
      BY <1>2, <1>5, <1>6, <2>2, <3>1, <3>2
  <2> QED
    BY <1>2, <2>1, <2>2
<1>9. Cursors'
  <2>1. \A i \in DOMAIN batch : batch[i].id \in Nat
    BY RowIds
  <2> QED
    BY <1>2, <1>7, <2>1 DEF IInv, Cursors
<1>10. Reading'
  <2>1. PICK b \in 0 .. n : /\ \A j \in DOMAIN table : table[j].id <= maxId <=> j <= b
                            /\ Follows(b) \/ Overtaken(b)
    BY DEF IInv, Reading, n
  <2>2. \A j \in 1 .. n + 1 : table'[j].id <= maxId <=> j <= b
    <3> SUFFICES ASSUME NEW j \in 1 .. n + 1
                 PROVE  table'[j].id <= maxId <=> j <= b
      OBVIOUS
    <3>1. CASE j = n + 1
      <4>1. table'[j].id = nextId /\ maxId < nextId
        BY <1>5, <3>1 DEF IInv, Cursors
      <4> QED
        BY <1>2, <2>1, <3>1, <4>1
    <3>2. CASE j \in 1 .. n
      BY <1>2, <1>5, <2>1, <3>2
    <3> QED
      BY <1>2, <3>1, <3>2
  <2>3. Follows(b) => Follows(b)'
    BY <1>2, <1>5, <1>7 DEF Follows
  <2>4. Overtaken(b) => Overtaken(b)'
    <3> SUFFICES ASSUME Overtaken(b), NEW i \in DOMAIN batch, NEW j \in 1 .. n + 1
                 PROVE  batch[i].id < table'[j].id
      BY <1>5, <1>7 DEF Overtaken
    <3>1. CASE j = n + 1
      BY <1>5, <3>1 DEF IInv, Cursors
    <3>2. CASE j \in 1 .. n
      BY <1>2, <1>5, <3>2 DEF Overtaken
    <3> QED
      BY <1>2, <3>1, <3>2
  <2>5. b \in 0 .. n + 1
    BY <1>2
  <2> QED
    BY <1>5, <1>7, <2>1, <2>2, <2>3, <2>4, <2>5 DEF Reading
<1>11. Reached' = Reached
  <2>1. ASSUME NEW id \in Nat, id < nextId
        PROVE  BehindId(id)' = BehindId(id)
    <3>1. {j \in DOMAIN table' : table'[j].id <= id}
             = {j \in DOMAIN table : table[j].id <= id}
      <4>1. ~(table'[n + 1].id <= id)
        BY <1>2, <1>5, <2>1
      <4>2. \A j \in 1 .. n + 1 : j = n + 1 \/ j \in 1 .. n
        BY <1>2
      <4>3. \A j \in 1 .. n : j \in 1 .. n + 1
        BY <1>2
      <4> QED
        BY <1>2, <1>5, <4>1, <4>2, <4>3
    <3>2. \A j \in DOMAIN table : table'[j] = table[j]
      BY <1>2, <1>5
    <3>3. \A S : S \subseteq DOMAIN table =>
             {table'[j].message : j \in S} = {table[j].message : j \in S}
      BY <3>2
    <3> QED
      BY <3>1, <3>3 DEF BehindId
  <2> QED
    BY <1>2, <1>7, <2>1 DEF IInv, Cursors, Reached
<1>12. Texts' /\ Requests' /\ Responses'
  BY <1>7, <1>11, ResultsKept DEF IInv
<1> QED
  BY <1>7, <1>8, <1>9, <1>10, <1>12, MemoryKept DEF IInv

LEMMA StepRewrite ==
    ASSUME TypeOK, IInv, Rewrite
    PROVE  IInv'
<1> DEFINE n == Len(table)
<1>1. /\ table \in Seq(Rows) /\ n \in Nat \ {0} /\ DOMAIN table = 1 .. n
      /\ nextId \in Nat /\ nextId' = nextId + n
      /\ cursor \in Nat /\ maxId \in Nat
  BY ConversationAssumption DEF TypeOK, Rewrite
<1>2. /\ Len(table') = n /\ DOMAIN table' = 1 .. n
      /\ \A i \in 1 .. n : table'[i].id = nextId + i - 1 /\ table'[i].message = i
  BY <1>1 DEF Rewrite, IInv, Table
<1>3. /\ UNCHANGED <<storeVars, memoryVars, historyVars, pollErrors, crashes>>
      /\ UNCHANGED <<cursor, maxId, batch, polling, pending, failed, orphaned>>
      /\ Held' = Held
  BY DEF Rewrite, storeVars, memoryVars, historyVars, Held
<1> HIDE DEF n
<1>4. \A i \in DOMAIN batch : batch[i].id \in Nat
  BY RowIds
<1>5. Table'
  BY <1>1, <1>2 DEF Table
<1>6. Cursors'
  BY <1>1, <1>3, <1>4 DEF IInv, Cursors
<1>7. \A j \in 1 .. n : nextId <= table'[j].id /\ table'[j].id \in Nat
  BY <1>1, <1>2
<1>8. Reading'
  <2>1. \A j \in 1 .. n : table'[j].id <= maxId <=> j <= 0
    BY <1>1, <1>7 DEF IInv, Cursors
  <2>2. Overtaken(0)'
    BY <1>1, <1>2, <1>3, <1>4, <1>7 DEF IInv, Cursors, Overtaken
  <2> QED
    BY <1>1, <1>2, <1>3, <2>1, <2>2 DEF Reading
<1>9. Reached' = {}
  BY <1>1, <1>2, <1>3, <1>7 DEF IInv, Cursors, Reached, BehindId
<1>10. Texts' /\ Requests' /\ Responses'
  BY <1>3, <1>9, ResultsKept DEF IInv
<1> QED
  BY <1>3, <1>5, <1>6, <1>8, <1>10, MemoryKept DEF IInv

(***************************************************************************)
(* The collector's steps                                                   *)
(***************************************************************************)

\* Whatever an id, the rows not past it come first.
LEMMA FirstRows ==
    ASSUME TypeOK, Table, NEW id \in Nat
    PROVE  \E b \in 0 .. Len(table) : \A j \in DOMAIN table : table[j].id <= id <=> j <= b
<1> DEFINE n == Len(table)
           Past == {j \in 1 .. n : ~(table[j].id <= id)}
<1>1. n \in Nat /\ DOMAIN table = 1 .. n
  BY DEF TypeOK
<1>2. \A j \in 1 .. n : table[j].id \in Nat
  BY <1>1, RowIds
<1>3. CASE Past = {}
  <2>1. \A j \in 1 .. n : table[j].id <= id <=> j <= n
    BY <1>1, <1>3
  <2> HIDE DEF n
  <2>2. n \in 0 .. n
    BY <1>1
  <2>3. \A j \in DOMAIN table : table[j].id <= id <=> j <= n
    BY <1>1, <2>1
  <2> QED
    BY <2>2, <2>3 DEF n
<1>4. CASE Past # {}
  <2>1. PICK p \in Past : \A j \in Past : p <= j
    <3>1. Past \in SUBSET Nat
      BY <1>1
    <3> QED
      BY <1>4, <3>1, LeastExists
  <2>2. p \in 1 .. n /\ p - 1 \in 0 .. n
    BY <1>1, <2>1
  <2>3. ASSUME NEW j \in 1 .. n
        PROVE  table[j].id <= id <=> j <= p - 1
    <3>1. CASE j < p
      BY <1>1, <2>1, <2>2, <3>1
    <3>2. CASE j = p
      BY <1>1, <2>1, <2>2, <3>2
    <3>3. CASE p < j
      <4>1. table[p].id < table[j].id
        BY <1>1, <2>2, <3>3 DEF Table
      <4> QED
        BY <1>1, <1>2, <2>1, <2>2, <3>3, <4>1
    <3> QED
      BY <1>1, <2>2, <3>1, <3>2, <3>3
  <2> QED
    BY <1>1, <2>2, <2>3
<1> QED
  BY <1>3, <1>4

LEMMA StepPollBegin ==
    ASSUME TypeOK, IInv, PollBegin
    PROVE  IInv'
<1> DEFINE n == Len(table)
<1>1. /\ table \in Seq(Rows) /\ n \in Nat /\ DOMAIN table = 1 .. n
      /\ cursor \in Nat
  BY ConversationAssumption DEF TypeOK
<1>2. /\ ~polling /\ polling' /\ maxId' = cursor /\ batch' = RowsPast(cursor)
      /\ UNCHANGED <<table, nextId, stored, count, cursor, pending, seen, failed, pruned,
                     again, orphaned, pollErrors, crashes>>
      /\ Held' = Held
  BY DEF PollBegin, gooseVars, storeVars, historyVars, Held
<1>3. PICK b \in 0 .. n : \A j \in 1 .. n : table[j].id <= cursor <=> j <= b
  BY <1>1, FirstRows DEF IInv
<1>4. batch' = SubSeq(table, b + 1, n)
  <2>1. {i \in DOMAIN table : table[i].id <= cursor} = 1 .. b
    BY <1>1, <1>3
  <2>2. Cardinality(1 .. b) = b
    BY <1>1, FS_Interval
  <2> QED
    BY <1>1, <1>2, <2>1, <2>2, RowsPastTyped
<1>5. /\ DOMAIN batch' = 1 .. n - b
      /\ \A i \in 1 .. n - b : batch'[i] = table[b + i] /\ b + i \in 1 .. n
  BY <1>1, <1>4
<1> HIDE DEF n
<1>6. Table' /\ Remembered' /\ Counts'
  BY <1>2 DEF IInv, Table, Remembered, Counts, CountsAreDistinct, Held
<1>7. Cursors'
  <2> SUFFICES ASSUME NEW i \in 1 .. n - b
               PROVE  cursor < batch'[i].id /\ batch'[i].id < nextId
    BY <1>1, <1>2, <1>5 DEF IInv, Cursors
  <2>1. b + i \in 1 .. n /\ ~(b + i <= b) /\ batch'[i] = table[b + i]
    BY <1>1, <1>5
  <2>3. table[b + i].id \in Nat
    BY <1>1, <2>1, RowIds
  <2> QED
    BY <1>1, <1>3, <2>1, <2>3 DEF IInv, Table
<1>8. Reading'
  <2>1. Follows(b)'
    BY <1>1, <1>2, <1>5 DEF Follows
  <2>2. Len(table') = n /\ DOMAIN table' = 1 .. n /\ table' = table
    BY <1>1, <1>2 DEF n
  <2> QED
    BY <1>2, <1>3, <2>1, <2>2 DEF Reading
<1>9. Reached' = Reached
  BY <1>2 DEF Reached, BehindId
<1>10. Texts' /\ Requests' /\ Responses'
  BY <1>2, <1>9, ResultsKept DEF IInv
<1> QED
  BY <1>6, <1>7, <1>8, <1>10 DEF IInv

\* What was reached before a poll's progress is still so, or was before it.
LEMMA CursorReached ==
    ASSUME TypeOK, IInv
    PROVE  BehindId(cursor) \subseteq Reached
<1>1. cursor \in Nat /\ maxId \in Nat
  BY ConversationAssumption DEF TypeOK
<1> QED
  BY <1>1, BehindGrows DEF IInv, Cursors, Reached

\* Without rows in hand there is nothing to follow.
LEMMA ReadingNothing ==
    ASSUME TypeOK, Table, NEW id \in Nat, batch' = <<>>, maxId' = id, table' = table
    PROVE  Reading'
<1>1. PICK b \in 0 .. Len(table) : \A j \in DOMAIN table : table[j].id <= id <=> j <= b
  BY FirstRows
<1>2. Follows(b)'
  BY DEF Follows
<1> QED
  BY <1>1, <1>2 DEF Reading

LEMMA StepPollEnd ==
    ASSUME TypeOK, IInv, NEW old \in SUBSET stored, PollEnd(old)
    PROVE  IInv'
<1>1. /\ polling /\ ~polling' /\ batch = <<>> /\ batch' = <<>>
      /\ cursor' = maxId /\ stored' = stored \ old /\ pruned' = pruned \cup old
      /\ UNCHANGED <<table, nextId, count, maxId, pending, seen, failed, again,
                     orphaned, pollErrors, crashes>>
  BY DEF PollEnd, gooseVars, TypeOK
<1>2. Held' = Held
  BY <1>1 DEF Held
<1>3. maxId \in Nat
  BY ConversationAssumption DEF TypeOK
<1>4. Table' /\ Remembered'
  BY <1>1, <1>2 DEF IInv, Table, Remembered
<1>5. Counts'
  BY <1>1, <1>2 DEF IInv, Counts, CountsAreDistinct, Held
<1>6. Cursors'
  BY <1>1 DEF IInv, Cursors
<1>7. Reading'
  BY <1>1, <1>3, ReadingNothing DEF IInv
<1>8. Reached' = Reached
  BY <1>1 DEF Reached, BehindId
<1>9. Texts' /\ Requests' /\ Responses'
  BY <1>1, <1>2, <1>8, ResultsKept DEF IInv
<1> QED
  BY <1>4, <1>5, <1>6, <1>7, <1>9 DEF IInv

LEMMA StepPollFails ==
    ASSUME TypeOK, IInv, PollFails
    PROVE  IInv'
<1>1. /\ polling /\ ~polling' /\ batch = <<>> /\ batch' = <<>>
      /\ UNCHANGED <<table, nextId, stored, count, cursor, maxId, pending, seen, failed,
                     pruned, again, orphaned, crashes>>
  BY DEF PollFails, gooseVars, storeVars, historyVars, TypeOK
<1>2. Held' = Held
  BY <1>1 DEF Held
<1>3. maxId \in Nat
  BY ConversationAssumption DEF TypeOK
<1>4. Table' /\ Remembered' /\ Cursors'
  BY <1>1, <1>2 DEF IInv, Table, Remembered, Cursors
<1>5. Counts'
  BY <1>1, <1>2 DEF IInv, Counts, CountsAreDistinct, Held
<1>6. Reading'
  BY <1>1, <1>3, ReadingNothing DEF IInv
<1>7. Reached' \subseteq Reached
  <2>1. Reached' = BehindId(cursor)
    BY <1>1 DEF Reached, BehindId
  <2> QED
    BY <2>1, CursorReached
<1>8. Texts' /\ Requests' /\ Responses'
  BY <1>1, <1>2, <1>7, ResultsKept DEF IInv
<1> QED
  BY <1>4, <1>5, <1>6, <1>8 DEF IInv

\* Storing events keeps the count, of what was stored ever and not stored again.
LEMMA InsertCounts ==
    ASSUME TypeOK, Counts, NEW keys, IsFiniteSet(keys),
           stored' = stored \cup keys, pruned' = pruned,
           count' = count + Cardinality(keys \ stored),
           again' = again \cup (keys \cap (pruned \ stored))
    PROVE  Counts'
<1>1. Held' = Held \cup keys /\ IsFiniteSet(Held)
  BY DEF Held, Counts
<1>2. IsFiniteSet(Held')
  BY <1>1, FS_Union
<1>3. ASSUME again' = {}
      PROVE  count' = Cardinality(stored' \cup pruned')
  <2>1. again = {} /\ keys \cap (pruned \ stored) = {}
    BY <1>3
  <2>2. count \in Nat /\ count = Cardinality(Held)
    BY <2>1 DEF TypeOK, Counts, CountsAreDistinct, Held
  <2>3. /\ Held' = Held \cup (keys \ stored) /\ Held \cap (keys \ stored) = {}
        /\ IsFiniteSet(keys \ stored)
    BY <1>1, <2>1, FS_Subset DEF Held
  <2>4. Cardinality(Held') = Cardinality(Held) + Cardinality(keys \ stored)
    <3>1. /\ Cardinality(Held \cup (keys \ stored)) = Cardinality(Held)
                + Cardinality(keys \ stored) - Cardinality(Held \cap (keys \ stored))
          /\ Cardinality({}) = 0
          /\ Cardinality(keys \ stored) \in Nat /\ Cardinality(Held) \in Nat
      BY <1>1, <2>3, FS_Union, FS_EmptySet, FS_CardinalityType
    <3>2. Cardinality(Held \cap (keys \ stored)) = 0
      BY <2>3, <3>1
    <3>3. Cardinality(Held') = Cardinality(Held \cup (keys \ stored))
      BY <2>3
    <3> QED
      BY <3>1, <3>2, <3>3
  <2> QED
    BY <2>2, <2>4 DEF Held
<1> QED
  BY <1>2, <1>3 DEF Counts, CountsAreDistinct

LEMMA StepCrash ==
    ASSUME TypeOK, IInv, NEW keys \in SUBSET Keys, Died(keys)
    PROVE  IInv'
<1>1. /\ ~polling' /\ batch' = <<>> /\ maxId' = 0 /\ pending' = {} /\ seen' = {}
      /\ crashes' = crashes + 1
      /\ orphaned' = orphaned \cup {k \in pending : RequestOf(k) \subseteq Behind}
      /\ UNCHANGED <<table, nextId, cursor, failed, pruned>>
  BY DEF Died, Dies, gooseVars
<1>2. Held' = Held \cup keys
  BY <1>1 DEF Died, Held
<1>3. crashes \in Nat /\ cursor \in Nat /\ nextId \in Nat \ {0}
  BY ConversationAssumption DEF TypeOK
<1>4. Table'
  BY <1>1 DEF IInv, Table
<1>5. Remembered'
  BY <1>1, <1>3 DEF Remembered
<1>6. Cursors'
  BY <1>1, <1>3 DEF IInv, Cursors
<1>7. Counts'
  BY InsertCounts DEF IInv, Died
<1>8. Reading'
  BY <1>1, ReadingNothing DEF IInv
<1>9. Reached' = Behind /\ Reached' \subseteq Reached
  <2>1. Reached' = BehindId(cursor)
    BY <1>1 DEF Reached, BehindId
  <2>2. Behind = BehindId(cursor)
    BY DEF Behind, BehindId
  <2> QED
    BY <2>1, <2>2, CursorReached
<1>10. Texts' /\ Requests' /\ Responses'
  BY <1>1, <1>2, <1>9, ResultsKept DEF IInv
<1> QED
  BY <1>4, <1>5, <1>6, <1>7, <1>8, <1>10 DEF IInv

\* How far a row gets the poll: to its message, if the table is as it was read
LEMMA TakenReaches ==
    ASSUME TypeOK, IInv, NEW m \in Messages, NEW keys \in SUBSET Keys, Taken(m, keys)
    PROVE  /\ Table' /\ Cursors' /\ Reading'
           /\ \/ Reached' = Reached \cup {m} /\ Reached = 1 .. m - 1
              \/ Reached' = {}
<1> DEFINE n == Len(table)
<1>1. /\ table \in Seq(Rows) /\ n \in Nat /\ DOMAIN table = 1 .. n
      /\ batch \in Seq(Rows) /\ batch # <<>> /\ cursor \in Nat /\ maxId \in Nat
  BY ConversationAssumption DEF TypeOK, Taken
<1>2. /\ m = Head(batch).message /\ batch' = Tail(batch) /\ maxId' = Head(batch).id
      /\ polling /\ polling'
      /\ UNCHANGED <<table, nextId, cursor>>
  BY DEF Taken, NextRow, gooseVars
<1>3. /\ 1 \in DOMAIN batch /\ Head(batch) = batch[1]
      /\ \A i \in DOMAIN batch' : i + 1 \in DOMAIN batch /\ batch'[i] = batch[i + 1]
                                /\ i \in Nat
  BY <1>1, <1>2
<1>4. /\ \A i \in DOMAIN batch : batch[i].id \in Nat
      /\ \A j \in DOMAIN table : table[j].id \in Nat
  BY RowIds
<1>5. PICK b \in 0 .. n : /\ \A j \in DOMAIN table : table[j].id <= maxId <=> j <= b
                          /\ Follows(b) \/ Overtaken(b)
  BY DEF IInv, Reading
<1>6. Reached = 1 .. b
  BY <1>2, <1>5, ReachedRows DEF IInv, Reached
<1>7. Table'
  BY <1>2 DEF IInv, Table
<1>8. Cursors'
  BY <1>1, <1>2, <1>3, <1>4 DEF IInv, Cursors
<1>9. TypeOK'
  BY TypeTaken
<1> HIDE DEF n
<1>10. CASE Follows(b)
  <2>1. b + 1 \in 1 .. n /\ Head(batch) = table[b + 1] /\ m = b + 1
    BY <1>1, <1>2, <1>3, <1>10 DEF Follows, IInv, Table
  <2>2. \A j \in 1 .. n : table[j].id <= maxId' <=> j <= b + 1
    <3> SUFFICES ASSUME NEW j \in 1 .. n
                 PROVE  table[j].id <= table[b + 1].id <=> j <= b + 1
      BY <1>2, <2>1
    <3>1. CASE j <= b
      <4>1. table[j].id < table[b + 1].id
        BY <1>1, <2>1, <3>1 DEF IInv, Table
      <4> QED
        BY <1>1, <1>4, <2>1, <3>1, <4>1
    <3>2. CASE j = b + 1
      BY <1>1, <1>4, <3>2
    <3>3. CASE b + 1 < j
      <4>1. table[b + 1].id < table[j].id
        BY <1>1, <2>1, <3>3 DEF IInv, Table
      <4> QED
        BY <1>1, <1>4, <2>1, <3>3, <4>1
    <3> QED
      BY <1>1, <3>1, <3>2, <3>3
  <2>3. Follows(b + 1)'
    <3> SUFFICES ASSUME NEW i \in DOMAIN batch'
                 PROVE  b + 1 + i \in 1 .. n /\ batch'[i] = table[b + 1 + i]
      BY <1>1, <1>2 DEF Follows
    <3>1. i + 1 \in DOMAIN batch /\ batch'[i] = batch[i + 1] /\ i \in Nat
      BY <1>3
    <3>2. b + (i + 1) \in 1 .. n /\ batch[i + 1] = table[b + (i + 1)]
      BY <1>1, <1>10, <3>1 DEF Follows
    <3>3. b + (i + 1) = b + 1 + i
      BY <1>1, <3>1
    <3> QED
      BY <3>1, <3>2, <3>3
  <2>4. Len(table') = n /\ DOMAIN table' = 1 .. n /\ table' = table
    BY <1>1, <1>2 DEF n
  <2>5. b + 1 \in 0 .. n
    BY <1>1, <2>1
  <2>6. Reading'
    BY <2>2, <2>3, <2>4, <2>5 DEF Reading
  <2>7. BehindId(maxId') = 1 .. b + 1
    BY <1>1, <2>2, <2>5, ReachedRows DEF IInv, n
  <2>8. Reached' = 1 .. b + 1
    BY <1>2, <2>7 DEF Reached, BehindId
  <2>9. 1 .. b + 1 = (1 .. b) \cup {b + 1} /\ m - 1 = b
    BY <1>1, <2>1
  <2> QED
    BY <1>6, <1>7, <1>8, <2>1, <2>6, <2>8, <2>9
<1>11. CASE Overtaken(b)
  <2>1. \A j \in 1 .. n : ~(table[j].id <= maxId')
    BY <1>1, <1>2, <1>3, <1>4, <1>11 DEF Overtaken
  <2>2. Overtaken(0)'
    BY <1>2, <1>3, <1>11 DEF Overtaken
  <2>3. Len(table') = n /\ DOMAIN table' = 1 .. n /\ table' = table /\ 0 \in 0 .. n
    BY <1>1, <1>2 DEF n
  <2>4. \A j \in 1 .. n : ~(j <= 0)
    BY <1>1
  <2>5. Reading'
    BY <2>1, <2>2, <2>3, <2>4 DEF Reading
  <2>6. Reached' = {}
    BY <1>2, <2>1, <2>3 DEF Reached, BehindId
  <2> QED
    BY <1>7, <1>8, <2>5, <2>6
<1> QED
  BY <1>5, <1>10, <1>11

LEMMA StepTaken ==
    ASSUME TypeOK, IInv, NEW m \in Messages, NEW keys \in SUBSET Keys, Taken(m, keys)
    PROVE  IInv'
<1>1. /\ Table' /\ Cursors' /\ Reading'
      /\ \/ Reached' = Reached \cup {m} /\ Reached = 1 .. m - 1
         \/ Reached' = {}
  BY TakenReaches
<1>2. /\ Held' = Held \cup keys /\ seen' = seen \cup keys /\ pruned' = pruned
      /\ failed \subseteq failed' /\ orphaned' = orphaned /\ crashes' = crashes
      /\ seen \subseteq Held'
  BY DEF Taken, Held, IInv, Remembered
<1>3. Remembered'
  BY <1>2 DEF Taken, IInv, Remembered, Held
<1>4. Counts'
  BY InsertCounts DEF IInv, Taken
<1>5. ASSUME NEW key, Excused(key)
      PROVE  Excused(key)'
  BY <1>2, <1>5 DEF Excused
<1>6. Texts'
  <2> SUFFICES ASSUME NEW key \in Keys, NEW mm \in TextOf(key) \cap Reached'
               PROVE  key \in Held' \/ mm \in failed'
    BY DEF Texts
  <2>1. CASE mm = m
    BY <1>2, <2>1 DEF Taken
  <2>2. CASE mm \in Reached
    BY <1>2, <2>2 DEF IInv, Texts
  <2> QED
    BY <1>1, <2>1, <2>2
<1>7. Requests'
  <2> SUFFICES ASSUME NEW key \in Keys, RequestOf(key) # {},
                      RequestOf(key) \subseteq Reached'
               PROVE  key \in pending' \cup Held' \cup orphaned' \/ Excused(key)'
    BY DEF Requests
  <2>1. CASE m \in RequestOf(key)
    BY <1>2, <2>1 DEF Taken, Excused
  <2>2. CASE m \notin RequestOf(key)
    <3>1. RequestOf(key) \subseteq Reached
      BY <1>1, <2>2
    <3>2. key \in pending \cup Held \cup orphaned \/ Excused(key)
      BY <3>1 DEF IInv, Requests
    <3>3. CASE key \in pending
      BY <1>2, <3>3 DEF Taken, Excused
    <3> QED
      BY <1>2, <1>5, <3>2, <3>3
  <2> QED
    BY <2>1, <2>2
<1>8. Responses'
  <2> SUFFICES ASSUME NEW key \in pending', NEW mm \in ResponseOf(key) \cap Reached'
               PROVE  Excused(key)'
    BY DEF Responses
  <2>1. CASE mm = m
    BY <2>1 DEF Taken, Excused
  <2>2. CASE mm # m
    <3>1. mm \in Reached /\ Reached = 1 .. m - 1
      BY <1>1, <2>2
    <3>2. CASE key \in pending
      BY <1>5, <3>1, <3>2 DEF IInv, Responses
    <3>3. CASE key \notin pending
      <4>1. m \in RequestOf(key)
        BY <3>3 DEF Taken
      <4>2. mm \in Messages /\ Item("response", key) \in ToSet(Conversation[mm])
        BY DEF ResponseOf
      <4>3. PICK i \in DOMAIN Conversation[mm] :
               Conversation[mm][i].kind = "response" /\ Conversation[mm][i].key = key
        BY <4>2, PlaceOf
      <4>4. m <= mm
        BY <4>1, <4>2, <4>3, AnswersAssumption
      <4>5. m \in Nat /\ mm \in Nat
        BY <4>2, ConversationAssumption DEF Messages
      <4> QED
        BY <3>1, <4>4, <4>5
    <3> QED
      BY <3>2, <3>3
  <2> QED
    BY <2>1, <2>2
<1> QED
  BY <1>1, <1>3, <1>4, <1>6, <1>7, <1>8 DEF IInv

(***************************************************************************)
(* The theorems                                                            *)
(***************************************************************************)

LEMMA InvNext ==
    ASSUME TypeOK, IInv, [Next]_vars
    PROVE  IInv'
<1>1. CASE UNCHANGED vars
  <2>1. Table' /\ Cursors' /\ Reading'
    BY <1>1 DEF vars, gooseVars, storeVars, memoryVars, IInv, Table, Cursors, Reading,
                Follows, Overtaken
  <2>2. /\ Remembered' /\ Counts'
        /\ UNCHANGED <<failed, orphaned, pending>> /\ Held' = Held /\ Reached' = Reached
    BY <1>1, MemoryKept DEF vars, gooseVars, storeVars, memoryVars, historyVars, IInv,
                            Reached, BehindId, Held
  <2>3. Texts' /\ Requests' /\ Responses'
    BY <2>2, ResultsKept DEF IInv
  <2> QED
    BY <2>1, <2>2, <2>3 DEF IInv
<1>2. CASE ProcessRow \/ NormalizeFails \/ InsertFails
  BY <1>2, RowTakes, StepTaken
<1> QED
  BY <1>1, <1>2, StepWrite, StepRewrite, StepPollBegin, StepPollEnd, StepPollFails,
     StepCrash, DeathStoresSome DEF Next

\* The inductive invariant holds in every state.
THEOREM Invariant == Spec => [](TypeOK /\ IInv)
<1>1. Init => TypeOK /\ IInv
  BY TypeInit, InvInit
<1>2. TypeOK /\ IInv /\ [Next]_vars => (TypeOK /\ IInv)'
  BY TypeNext, InvNext
<1> QED
  BY <1>1, <1>2, PTL DEF Spec

\* Each event is counted once, however often it is read again, unless it was
\* pruned and stored again (insert_event).
THEOREM EachEventCountsOnce == Spec => []CountsAreDistinct
<1>1. IInv => CountsAreDistinct
  BY DEF IInv, Counts
<1> QED
  BY <1>1, Invariant, PTL

\* In its lifetime a process stores no event again that retention removed (seen).
THEOREM WhatIsPrunedStaysOut == Spec => []PrunedStaysOut
<1>1. IInv => PrunedStaysOut
  BY DEF IInv, Remembered, PrunedStaysOut
<1> QED
  BY <1>1, Invariant, PTL

\* Behind the cursor no text and no answered call is missing but for a failed
\* message or a restart between request and response (poll_once, feed).
THEOREM NothingBehindIsLost == Spec => []NothingLost
<1>1. ASSUME TypeOK, IInv, NEW key \in Keys, Lost(key)
      PROVE  Excused(key) \/ key \in orphaned
  <2>1. Behind \subseteq Reached /\ key \notin Held
    BY <1>1, CursorReached DEF Behind, BehindId, Lost, Held
  <2>2. CASE TextOf(key) # {} /\ TextOf(key) \subseteq Behind
    <3>1. PICK m \in TextOf(key) : m \in Reached
      BY <2>1, <2>2
    <3> QED
      BY <1>1, <2>1, <3>1 DEF IInv, Texts, Excused
  <2>3. CASE ResponseOf(key) # {} /\ RequestOf(key) \cup ResponseOf(key) \subseteq Behind
    <3>1. PICK m \in ResponseOf(key) : m \in Reached
      BY <2>1, <2>3
    <3>2. m \in Messages /\ Item("response", key) \in ToSet(Conversation[m])
      BY DEF ResponseOf
    <3>3. PICK i \in DOMAIN Conversation[m] :
             Conversation[m][i].kind = "response" /\ Conversation[m][i].key = key
      BY <3>2, PlaceOf
    <3>4. RequestOf(key) # {}
      BY <3>2, <3>3, AnswersAssumption
    <3>5. key \in pending \cup orphaned \/ Excused(key)
      BY <1>1, <2>1, <2>3, <3>4 DEF IInv, Requests
    <3> QED
      BY <1>1, <3>1, <3>5 DEF IInv, Responses
  <2> QED
    BY <1>1, <2>2, <2>3 DEF Lost
<1>2. TypeOK /\ IInv => NothingLost
  BY <1>1 DEF NothingLost
<1> QED
  BY <1>2, Invariant, PTL
=============================================================================
