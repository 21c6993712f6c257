--------------------------- MODULE SidebarProofs ---------------------------
(***************************************************************************)
(* That the sidebar's state keeps its types, that a label stays, and that  *)
(* only a failed registration leaves a session without one, for any        *)
(* events, sessions and bounds.                                            *)
(***************************************************************************)
EXTENDS Sidebar, FiniteSetTheorems, SequenceTheorems, TLAPS

(***************************************************************************)
(* What the operators return                                               *)
(***************************************************************************)

LEMMA Bounds ==
    /\ Len(Event) \in Nat
    /\ \A e \in 1 .. Len(Event) : Event[e].session \in Sessions
    /\ MaxFailures \in Nat
<1>1. Len(Event) \in Nat /\ DOMAIN Event = 1 .. Len(Event)
  BY SidebarAssumption
<1> QED
  BY <1>1, SidebarAssumption DEF Sessions

LEMMA LargerOfTwo ==
    ASSUME NEW m \in Nat, NEW n \in Nat
    PROVE  Max({m, n}) \in {m, n}
<1>1. \E x \in {m, n} : \A y \in {m, n} : x >= y
  <2>1. m >= n \/ n >= m
    OBVIOUS
  <2> QED
    BY <2>1
<1> QED
  BY <1>1 DEF Max

LEMMA EventsCounted ==
    ASSUME last \in Nat, NEW s, NEW kinds
    PROVE  Cardinality(EventsOf(s, kinds)) \in Nat
<1>1. 1 \in Int /\ last \in Int
  OBVIOUS
<1>2. IsFiniteSet(1 .. last)
  BY <1>1, FS_Interval
<1>3. IsFiniteSet(EventsOf(s, kinds))
  BY <1>2, FS_Subset DEF EventsOf
<1> QED
  BY <1>3, FS_CardinalityType

LEMMA StatusTyped ==
    ASSUME NEW s, age[s] \in 0 .. 2
    PROVE  Status(s) \in {"ACTIVE", "IDLE", "COMPLETED", "ERROR"}
<1>1. age[s] + 1 \in {1, 2, 3}
  OBVIOUS
<1> QED
  BY <1>1 DEF Status

LEMMA SnapshotTyped ==
    ASSUME TypeOK
    PROVE  Snapshot \in [Sessions -> Entries \cup {NoEntry}]
<1>1. ASSUME NEW s \in Sessions PROVE ServerEntry(s) \in Entries
  <2>1. last \in Nat
    BY Bounds DEF TypeOK
  <2>2. Status(s) \in {"ACTIVE", "IDLE", "COMPLETED", "ERROR"}
    BY StatusTyped DEF TypeOK
  <2> QED
    BY <2>1, <2>2, EventsCounted DEF ServerEntry, Entries
<1> QED
  BY <1>1 DEF Snapshot

\* ensureSession keeps the type, and the label once there is one.
LEMMA Merged ==
    ASSUME NEW old \in Entries \cup {NoEntry}, NEW new \in Entries \cup {NoEntry}
    PROVE  /\ Merge(old, new) \in Entries \cup {NoEntry}
           /\ old.label = "label" => Merge(old, new).label = "label"
<1>1. CASE new = NoEntry
  BY <1>1 DEF Merge
<1>2. CASE new # NoEntry /\ old = NoEntry
  BY <1>2 DEF Merge, NoEntry
<1>3. CASE new # NoEntry /\ old # NoEntry
  <2>1. old \in Entries /\ new \in Entries
    BY <1>3
  <2>2. Merge(old, new) = [new EXCEPT !.label = IF @ = "id" THEN old.label ELSE @]
    BY <1>3 DEF Merge
  <2>3. /\ new.label \in {"id", "label"} /\ old.label \in {"id", "label"}
    BY <2>1 DEF Entries
  <2> QED
    BY <2>1, <2>2, <2>3 DEF Entries
<1> QED
  BY <1>1, <1>2, <1>3

LEMMA TakenOver ==
    ASSUME TypeOK, NEW rows \in [Sessions -> Entries \cup {NoEntry}], TakeOver(rows)
    PROVE  /\ entry' \in [Sessions -> Entries \cup {NoEntry}]
           /\ \A s \in Sessions : entry[s].label = "label" => entry'[s].label = "label"
  BY Merged DEF TakeOver, TypeOK

LEMMA KnownTyped ==
    ASSUME TypeOK, NEW s \in Sessions
    PROVE  Known(s) \in Entries /\ (entry[s].label = "label" => Known(s).label = "label")
  BY DEF Known, TypeOK, NoEntry, NewEntry, Entries

LEMMA WithCounts ==
    ASSUME NEW A, NEW B, NEW C, NEW D,
           NEW k \in [events : A, alerts : B, label : C, status : D],
           NEW m \in A, NEW n \in B
    PROVE  LET counted == [k EXCEPT !.events = m, !.alerts = n]
           IN  /\ counted \in [events : A, alerts : B, label : C, status : D]
               /\ counted.label = k.label
  OBVIOUS

LEMMA Counted ==
    ASSUME NEW k \in Entries, NEW alert
    PROVE  LET counted == [k EXCEPT !.events = @ + 1,
                                    !.alerts = IF alert THEN @ + 1 ELSE @]
           IN  counted \in Entries /\ counted.label = k.label
<1> DEFINE alerts == IF alert THEN k.alerts + 1 ELSE k.alerts
           events == k.events + 1
<1>1. events \in Nat /\ alerts \in Nat
  BY DEF Entries
<1> HIDE DEF alerts, events
<1>2. LET counted == [k EXCEPT !.events = events, !.alerts = alerts]
      IN  counted \in Entries /\ counted.label = k.label
  BY <1>1, WithCounts DEF Entries
<1> QED
  BY <1>2 DEF alerts, events

(***************************************************************************)
(* Types                                                                   *)
(***************************************************************************)

Messages(n) == [kind : {"session", "event"}, session : Sessions, seq : 0 .. n]

LEMMA Published ==
    ASSUME NEW n \in Nat, NEW k \in {"session", "event"}, NEW s \in Sessions,
           NEW e \in 0 .. n, wire \in Seq(Messages(n)), failures \in 0 .. MaxFailures,
           Publish(Message(k, s, e))
    PROVE  wire' \in Seq(Messages(n)) /\ failures' \in 0 .. MaxFailures
<1>1. Message(k, s, e) \in Messages(n)
  BY DEF Message, Messages
<1> HIDE DEF Message
<1>2. Append(wire, Message(k, s, e)) \in Seq(Messages(n))
  BY <1>1
<1>3. wire' \in {wire, Append(wire, Message(k, s, e))}
  BY DEF Publish
<1>4. failures' \in 0 .. MaxFailures
  BY Bounds DEF Publish, Fail
<1> QED
  BY <1>2, <1>3, <1>4

LEMMA MoreMessages ==
    ASSUME NEW m \in Nat, NEW w \in Seq(Messages(m))
    PROVE  w \in Seq(Messages(m + 1))
<1>1. Messages(m) \subseteq Messages(m + 1)
  BY DEF Messages
<1> QED
  BY <1>1

LEMMA Touched ==
    ASSUME NEW s \in Sessions, age \in [Sessions -> 0 .. 2], Touch(s)
    PROVE  age' \in [Sessions -> 0 .. 2]
<1>1. PICK a \in 0 .. age[s] : age' = [age EXCEPT ![s] = a]
  BY DEF Touch
<1>2. a \in 0 .. 2
  BY <1>1
<1> QED
  BY <1>1, <1>2

LEMMA TypedInsert == TypeOK /\ Insert => TypeOK'
<1> SUFFICES ASSUME TypeOK, Insert PROVE TypeOK'
  OBVIOUS
<1> DEFINE s == Event[last'].session
<1>1. /\ last' = last + 1 /\ last' \in 1 .. Len(Event) /\ last \in Nat /\ last' \in Nat
      /\ s \in Sessions
  BY Bounds DEF Insert, TypeOK
<1>2. /\ row' = [row EXCEPT ![s] = IF @ = "absent" THEN "bare" ELSE @]
      /\ Touch(s) /\ Publish(Message("event", s, last'))
      /\ UNCHANGED <<known, missed, started, conn, maxSeq, entry, polls>>
  BY DEF Insert
<1> HIDE DEF s
<1>3. row' \in [Sessions -> {"absent", "bare", "labelled"}]
  BY <1>1, <1>2 DEF TypeOK
<1>4. age' \in [Sessions -> 0 .. 2]
  BY <1>1, <1>2, Touched DEF TypeOK
<1>5. wire' \in Seq(Messages(last')) /\ failures' \in 0 .. MaxFailures
  <2>1. wire \in Seq(Messages(last'))
    BY <1>1, MoreMessages DEF TypeOK, Messages
  <2>2. last' \in 0 .. last'
    BY <1>1
  <2> QED
    BY <1>1, <1>2, <2>1, <2>2, Published DEF TypeOK
<1>6. maxSeq' \in 0 .. last' /\ last' \in 0 .. Len(Event)
  BY <1>1, <1>2 DEF TypeOK
<1> QED
  BY <1>2, <1>3, <1>4, <1>5, <1>6 DEF TypeOK, Messages

LEMMA TypedRegister ==
    ASSUME TypeOK, NEW s \in Sessions, Register(s) \/ RegisterFails(s) \/ Age(s)
    PROVE  TypeOK'
<1>0. last \in Nat /\ 0 \in 0 .. last
  BY Bounds DEF TypeOK
<1>1. CASE Register(s)
  <2>1. age' \in [Sessions -> 0 .. 2]
    BY <1>1, Touched DEF Register, TypeOK
  <2>2. wire' \in Seq(Messages(last)) /\ failures' \in 0 .. MaxFailures
    BY <1>0, <1>1, Published DEF Register, TypeOK, Messages
  <2> QED
    BY <1>1, <2>1, <2>2 DEF Register, TypeOK, Messages
<1>2. CASE RegisterFails(s)
  BY <1>2, Bounds DEF RegisterFails, Fail, pageVars, TypeOK
<1>3. CASE Age(s)
  <2>1. age[s] + 1 \in 0 .. 2
    BY <1>3 DEF Age, TypeOK
  <2> QED
    BY <1>3, <2>1 DEF Age, pageVars, TypeOK
<1> QED
  BY <1>1, <1>2, <1>3

\* Connecting, and what ends a connection
LEMMA TypedConnection == TypeOK /\ (Connect \/ Disconnect \/ Restart) => TypeOK'
<1> SUFFICES ASSUME TypeOK, Connect \/ Disconnect \/ Restart PROVE TypeOK'
  OBVIOUS
<1>0. last \in Nat /\ maxSeq \in Nat /\ maxSeq <= last /\ last <= Len(Event)
  BY Bounds DEF TypeOK
<1>1. CASE Connect
  <2> DEFINE Replayed(i) == Message("event", Event[maxSeq + i].session, maxSeq + i)
  <2>1. ASSUME NEW i \in 1 .. last - maxSeq PROVE Replayed(i) \in Messages(last)
    <3>1. maxSeq + i \in 1 .. Len(Event) /\ maxSeq + i \in 0 .. last
      BY <1>0, Bounds
    <3> QED
      BY <3>1, Bounds DEF Message, Messages
  <2>2. wire' = [i \in 1 .. last - maxSeq |-> Replayed(i)]
    BY <1>1 DEF Connect
  <2> HIDE DEF Replayed
  <2>3. last - maxSeq \in Nat
    BY <1>0
  <2>4. wire' \in Seq(Messages(last))
    BY <2>1, <2>2, <2>3
  <2> QED
    BY <1>1, <2>4 DEF Connect, serverVars, TypeOK, Messages
<1>2. CASE Disconnect \/ Restart
  <2>1. <<>> \in Seq(Messages(last))
    OBVIOUS
  <2> QED
    <3>1. /\ conn' = FALSE /\ wire' = <<>> /\ failures' \in 0 .. MaxFailures
          /\ UNCHANGED <<last, row, age, started, maxSeq, entry, polls>>
          /\ known' \in SUBSET Sessions /\ missed' \in SUBSET known'
      BY <1>2, Bounds DEF Disconnect, Restart, Fail, serverVars, TypeOK
    <3>2. wire' \in Seq(Messages(last'))
      BY <2>1, <3>1
    <3> QED
      BY <3>1, <3>2 DEF TypeOK, Messages
<1> QED
  BY <1>1, <1>2

\* What the page does with answers and messages
LEMMA TypedSessions ==
    ASSUME TypeOK,
           LoadSessions \/ Poll \/ \E p \in polls : PollAnswered(p) \/ PollFails(p)
    PROVE  TypeOK'
<1>1. CASE LoadSessions
  <2>1. entry' \in [Sessions -> Entries \cup {NoEntry}]
    BY <1>1, SnapshotTyped, TakenOver DEF LoadSessions, TypeOK
  <2> QED
    BY <1>1, <2>1 DEF LoadSessions, serverVars, TypeOK
<1>2. CASE Poll
  BY <1>2, SnapshotTyped DEF Poll, serverVars, TypeOK
<1>3. ASSUME NEW p \in polls, PollAnswered(p)
      PROVE  TypeOK'
  <2>1. entry' \in [Sessions -> Entries \cup {NoEntry}]
    BY <1>3, TakenOver DEF PollAnswered, TypeOK
  <2> QED
    BY <1>3, <2>1 DEF PollAnswered, serverVars, TypeOK
<1>4. ASSUME NEW p \in polls, PollFails(p)
      PROVE  TypeOK'
  BY <1>4 DEF PollFails, serverVars, TypeOK
<1> QED
  BY <1>1, <1>2, <1>3, <1>4

LEMMA FirstMessage ==
    ASSUME TypeOK, wire # <<>>
    PROVE  Head(wire) \in Messages(last) /\ Tail(wire) \in Seq(Messages(last))
<1>1. wire \in Seq(Messages(last))
  BY DEF TypeOK, Messages
<1> QED
  BY <1>1

LEMMA TypedMessages ==
    ASSUME TypeOK,
           \/ SessionMessage \/ EventMessage
           \/ \E e \in 1 .. last : Repeat(e) \/ HistoryMerged(e)
    PROVE  TypeOK'
<1>0. last \in Nat /\ maxSeq \in 0 .. last
  BY Bounds DEF TypeOK
<1>1. CASE SessionMessage
  <2> DEFINE s == Head(wire).session
  <2>1. s \in Sessions /\ wire' \in Seq(Messages(last))
    BY <1>1, FirstMessage DEF SessionMessage, Messages
  <2>2. entry' = [entry EXCEPT ![s] = [Known(s) EXCEPT !.label = "label"]]
    BY <1>1 DEF SessionMessage
  <2> HIDE DEF s
  <2>3. [Known(s) EXCEPT !.label = "label"] \in Entries
    BY <2>1, KnownTyped DEF Entries
  <2>4. entry' \in [Sessions -> Entries \cup {NoEntry}]
    BY <2>1, <2>2, <2>3 DEF TypeOK
  <2> QED
    BY <1>1, <2>1, <2>4 DEF SessionMessage, serverVars, TypeOK, Messages
<1>2. CASE EventMessage
  <2> DEFINE s == Head(wire).session
             e == Head(wire).seq
             counted == [Known(s) EXCEPT !.events = @ + 1,
                             !.alerts = IF Event[e].kind = "alert" THEN @ + 1 ELSE @]
  <2>1. s \in Sessions /\ e \in 0 .. last /\ wire' \in Seq(Messages(last))
    BY <1>2, FirstMessage DEF EventMessage, Messages
  <2>2. entry' = [entry EXCEPT ![s] = counted] /\ maxSeq' = Max({maxSeq, e})
    BY <1>2 DEF EventMessage
  <2> HIDE DEF s, e
  <2>3. counted \in Entries
    BY <2>1, KnownTyped, Counted
  <2> HIDE DEF counted
  <2>4. entry' \in [Sessions -> Entries \cup {NoEntry}]
    BY <2>1, <2>2, <2>3 DEF TypeOK
  <2>5. maxSeq' \in 0 .. last
    BY <1>0, <2>1, <2>2, LargerOfTwo
  <2> QED
    BY <1>2, <2>1, <2>4, <2>5 DEF EventMessage, serverVars, TypeOK, Messages
<1>3. ASSUME NEW e \in 1 .. last, HistoryMerged(e)
      PROVE  TypeOK'
  BY <1>0, <1>3 DEF HistoryMerged, serverVars, TypeOK
<1>4. ASSUME NEW e \in 1 .. last, Repeat(e)
      PROVE  TypeOK'
  <2> DEFINE m == Message("event", Event[e].session, e)
  <2>1. e \in DOMAIN Event /\ e \in 0 .. last
    BY <1>0, Bounds, SidebarAssumption DEF TypeOK
  <2>2. m \in Messages(last)
    BY <2>1 DEF Message, Messages, Sessions
  <2>3. wire' \in Seq(Messages(last))
    <3>1. wire \in Seq(Messages(last)) /\ wire' = Append(wire, m)
      BY <1>4 DEF Repeat, TypeOK, Messages
    <3> HIDE DEF m
    <3> QED
      BY <2>2, <3>1
  <2>4. failures' \in 0 .. MaxFailures
    BY <1>4, SidebarAssumption DEF Repeat, Fail, TypeOK
  <2> QED
    BY <1>4, <2>3, <2>4 DEF Repeat, serverVars, TypeOK, Messages
<1> QED
  BY <1>1, <1>2, <1>3, <1>4

\* Every variable keeps its type (all of Next's handlers).
THEOREM TypeCorrect == Spec => []TypeOK
<1>1. Init => TypeOK
  <2> SUFFICES ASSUME Init PROVE TypeOK
    OBVIOUS
  <2>1. <<>> \in Seq(Messages(0))
    OBVIOUS
  <2>2. 0 \in 0 .. Len(Event) /\ 0 \in 0 .. MaxFailures
    BY Bounds
  <2>3. wire \in Seq(Messages(last)) /\ maxSeq \in 0 .. last /\ last \in 0 .. Len(Event)
    BY <2>1, <2>2 DEF Init
  <2>4. /\ known \in SUBSET Sessions /\ missed \in SUBSET known
        /\ started \in BOOLEAN /\ conn \in BOOLEAN
        /\ row \in [Sessions -> {"absent", "bare", "labelled"}]
    BY DEF Init
  <2>7. age \in [Sessions -> 0 .. 2]
    <3>1. 2 \in 0 .. 2
      OBVIOUS
    <3> QED
      BY <3>1 DEF Init
  <2>5. /\ entry \in [Sessions -> Entries \cup {NoEntry}]
        /\ polls \in SUBSET [Sessions -> Entries \cup {NoEntry}]
    <3>1. NoEntry \in Entries \cup {NoEntry}
      OBVIOUS
    <3> HIDE DEF NoEntry
    <3> QED
      BY <3>1 DEF Init
  <2>6. failures \in 0 .. MaxFailures
    BY <2>2 DEF Init
  <2> QED
    BY <2>3, <2>4, <2>5, <2>6, <2>7 DEF TypeOK, Messages
<1>2. TypeOK /\ [Next]_vars => TypeOK'
  <2> SUFFICES ASSUME TypeOK, [Next]_vars PROVE TypeOK'
    OBVIOUS
  <2>1. CASE UNCHANGED vars
    BY <2>1 DEF vars, serverVars, pageVars, TypeOK
  <2> QED
    BY <2>1, TypedInsert, TypedRegister, TypedConnection, TypedSessions, TypedMessages
       DEF Next
<1> QED
  BY <1>1, <1>2, PTL DEF Spec

(***************************************************************************)
(* Labels                                                                  *)
(***************************************************************************)

LEMMA LabelKept ==
    ASSUME TypeOK, [Next]_vars, NEW s \in Sessions, entry[s].label = "label"
    PROVE  entry'[s].label = "label"
<1>1. CASE entry' = entry
  BY <1>1
<1>2. ASSUME NEW rows \in [Sessions -> Entries \cup {NoEntry}], TakeOver(rows)
      PROVE  entry'[s].label = "label"
  BY <1>2, TakenOver
<1>3. CASE SessionMessage
  <2> DEFINE t == Head(wire).session
  <2>1. t \in Sessions
    BY <1>3, FirstMessage DEF SessionMessage, Messages
  <2>2. entry' = [entry EXCEPT ![t] = [Known(t) EXCEPT !.label = "label"]]
    BY <1>3 DEF SessionMessage
  <2> HIDE DEF t
  <2>3. Known(t) \in Entries
    BY <2>1, KnownTyped
  <2>4. [Known(t) EXCEPT !.label = "label"].label = "label"
    BY <2>3 DEF Entries
  <2> QED
    BY <2>1, <2>2, <2>4 DEF TypeOK
<1>4. CASE EventMessage
  <2> DEFINE t == Head(wire).session
             e == Head(wire).seq
             counted == [Known(t) EXCEPT !.events = @ + 1,
                             !.alerts = IF Event[e].kind = "alert" THEN @ + 1 ELSE @]
  <2>1. t \in Sessions
    BY <1>4, FirstMessage DEF EventMessage, Messages
  <2>2. entry' = [entry EXCEPT ![t] = counted]
    BY <1>4 DEF EventMessage
  <2> HIDE DEF t, e
  <2>3. Known(t) \in Entries /\ (entry[t].label = "label" => Known(t).label = "label")
    BY <2>1, KnownTyped
  <2>4. counted.label = Known(t).label
    BY <2>3, Counted
  <2> HIDE DEF counted
  <2> QED
    BY <2>1, <2>2, <2>3, <2>4 DEF TypeOK
<1>5. \/ entry' = entry
      \/ \E rows \in [Sessions -> Entries \cup {NoEntry}] : TakeOver(rows)
      \/ SessionMessage \/ EventMessage
  <2>1. ASSUME NEW p \in polls, PollAnswered(p)
        PROVE  \E rows \in [Sessions -> Entries \cup {NoEntry}] : TakeOver(rows)
    BY <2>1 DEF PollAnswered, TypeOK
  <2>2. CASE LoadSessions
    BY <2>2, SnapshotTyped DEF LoadSessions
  <2> QED
    BY <2>1, <2>2 DEF Next, Insert, Restart, Register, RegisterFails, Age, Poll, PollFails,
       Connect, Disconnect, Repeat, HistoryMerged, vars, pageVars
<1> QED
  BY <1>1, <1>2, <1>3, <1>4, <1>5

\* A label the page shows stays (ensureSession).
THEOREM LabelsStay == Spec => LabelStays
<1>1. TypeOK /\ [Next]_vars =>
         [\A s \in Sessions :
             entry[s].label = "label" => entry'[s].label = "label"]_vars
  BY LabelKept
<1> QED
  BY <1>1, TypeCorrect, PTL DEF Spec, LabelStays

\* A session that the process knows is labelled, unless its registration failed.
Named == \A s \in known : s \in missed \/ row[s] = "labelled"

\* The safety part of NamelessUntilRestart: among the sessions this process
\* has met, only one whose registration failed is without a label (poll_once,
\* upsert_session, insert_event).
THEOREM OnlyMissedAreNameless == Spec => []Named
<1>1. Init => Named
  BY DEF Init, Named
<1>2. TypeOK /\ Named /\ [Next]_vars => Named'
  <2> SUFFICES ASSUME TypeOK, Named, [Next]_vars PROVE Named'
    OBVIOUS
  <2>1. CASE UNCHANGED <<known, row, missed>>
    BY <2>1 DEF Named
  <2>2. ASSUME NEW s \in Sessions, Register(s) PROVE Named'
    BY <2>2 DEF Register, Named, TypeOK
  <2>3. ASSUME NEW s \in Sessions, RegisterFails(s) PROVE Named'
    BY <2>3 DEF RegisterFails, Named
  <2>4. CASE Insert
    BY <2>4 DEF Insert, Named, TypeOK
  <2>5. CASE Restart
    BY <2>5 DEF Restart, Named
  <2> QED
    BY <2>1, <2>2, <2>3, <2>4, <2>5 DEF Next, Age, LoadSessions, Poll, PollAnswered,
       PollFails, Connect, Disconnect, SessionMessage, EventMessage, Repeat,
       HistoryMerged, vars, serverVars
<1> QED
  BY <1>1, <1>2, TypeCorrect, PTL DEF Spec
=============================================================================
