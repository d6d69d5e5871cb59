-------------------------- MODULE NotificationsProofs --------------------------
(* Theorems about Notifications, for any number of rows and any limit.      *)
EXTENDS Notifications, FiniteSetTheorems, TLAPS

-----------------------------------------------------------------------------
(* MaxOf is the greatest number of a finite set.  The theorems of the       *)
(* library on induction have operators for parameters, WFMin has not: a set *)
(* of numbers has a least one, since its initial segments have.             *)

LEMMA LeastNumber ==
  ASSUME NEW T \in SUBSET Nat, T # {}
  PROVE  \E n \in T : \A k \in T : n <= k
  <1> DEFINE F == {0..n : n \in T}
  <1>1. F \subseteq FiniteSubsetsOf(Nat) /\ F # {}
    <2>1. \A n \in T : IsFiniteSet(0..n) /\ 0..n \subseteq Nat
      BY FS_Interval
    <2> QED BY <2>1 DEF FiniteSubsetsOf
  <1>2. \E I \in F : \A J \in F : ~(<<J, I>> \in StrictSubsetOrdering(Nat))
    <2> HIDE DEF F
    <2> QED BY <1>1, FS_StrictSubsetOrderingWellFounded, WFMin
  <1>3. PICK n \in T : \A k \in T : ~(<<0..k, 0..n>> \in StrictSubsetOrdering(Nat))
    BY <1>2
  <1>4. ASSUME NEW k \in T, k < n PROVE FALSE
    <2>1. /\ 0..k \subseteq 0..n /\ n \in 0..n /\ n \notin 0..k
          /\ 0..k \subseteq Nat /\ 0..n \subseteq Nat
      BY <1>4
    <2> QED BY <2>1, <1>3 DEF StrictSubsetOrdering
  <1> QED BY <1>4

LEMMA MaxOfIsGreatest ==
  ASSUME NEW N \in Nat, NEW S \in SUBSET (0..N), S # {}
  PROVE  MaxOf(S) \in S /\ \A k \in S : k <= MaxOf(S)
  <1> DEFINE Above == {n \in Nat : \A k \in S : k <= n}
  <1>1. PICK n \in Above : \A k \in Above : n <= k
    <2>1. N \in Above
      OBVIOUS
    <2> QED BY <2>1, LeastNumber
  <1>2. n \in S
    <2> SUFFICES ASSUME n \notin S PROVE FALSE
      OBVIOUS
    <2>1. \A k \in S : k \in Nat /\ k < n
      OBVIOUS
    <2>2. n - 1 \in Nat
      <3> PICK k \in S : k \in Nat /\ k < n
        BY <2>1
      <3> QED OBVIOUS
    <2>3. n - 1 \in Above
      BY <2>1, <2>2
    <2> QED BY <2>3, <1>1
  <1>3. \A k \in S : k <= n
    OBVIOUS
  <1> HIDE DEF Above
  <1> QED BY <1>2, <1>3 DEF MaxOf

Numbers == 0..MaxRows

LEMMA MaxOfFacts ==
  /\ \A S \in SUBSET Numbers : /\ MaxOf(S) \in Numbers
                               /\ \A k \in S : k <= MaxOf(S)
                               /\ MaxOf(S) \in S \/ (S = {} /\ MaxOf(S) = 0)
  /\ \A S, T \in SUBSET Numbers : S \subseteq T => MaxOf(S) <= MaxOf(T)
  <1>1. ASSUME NEW S \in SUBSET Numbers
        PROVE  /\ MaxOf(S) \in Numbers
               /\ \A k \in S : k <= MaxOf(S)
               /\ MaxOf(S) \in S \/ (S = {} /\ MaxOf(S) = 0)
    <2>1. CASE S = {}
      BY <2>1, RowsAssumption DEF MaxOf, Numbers
    <2>2. CASE S # {}
      BY <2>2, MaxOfIsGreatest, RowsAssumption DEF Numbers
    <2> QED BY <2>1, <2>2
  <1>2. ASSUME NEW S \in SUBSET Numbers, NEW T \in SUBSET Numbers, S \subseteq T
        PROVE  MaxOf(S) <= MaxOf(T)
    BY <1>1, <1>2, RowsAssumption DEF Numbers
  <1> QED BY <1>1, <1>2

LEMMA MaxWith ==
  ASSUME NEW S \in SUBSET Numbers, NEW n \in Numbers
  PROVE  /\ MaxOf(S \cup {n}) \in S \cup {n} /\ MaxOf(S \cup {n}) \in Nat
         /\ n <= MaxOf(S \cup {n}) /\ \A k \in S : k <= MaxOf(S \cup {n})
  <1>1. S \cup {n} \in SUBSET Numbers /\ S \cup {n} # {}
    OBVIOUS
  <1>2. MaxOf(S \cup {n}) \in Numbers
    BY <1>1, MaxOfFacts
  <1> QED BY <1>1, <1>2, MaxOfFacts, RowsAssumption DEF Numbers

-----------------------------------------------------------------------------
(* The inductive invariant.                                                 *)

Born == {i \in Ids : row[i] # "none"}

\* Ids are handed out in order, and no answer names a row that is not there yet.
OrderInv ==
  /\ \A i, k \in Ids : k < i /\ i \in Born => k \in Born
  /\ poll.rows \subseteq Born /\ setup.rows \subseteq Born

\* What was shown, and what was there when notifications were turned on, lies behind
\* the last id.
BehindInv ==
  /\ \A i \in Ids : shown[i] > 0 => i <= lastId
  /\ \A i \in old : i <= lastId

\* An unread row that an answer under way does not have was missed by it or is newer
\* than each of its rows.
AnswerInv ==
  poll.step = "answered" =>
    \A i \in Unread : i \in poll.rows \cup missed \/ \A k \in poll.rows : k < i

Inv == TypeOK /\ OrderInv /\ BehindInv /\ ShownOnce /\ AnswerInv /\ SkippedOnlyByLimit

LEMMA InvInit == Init => Inv
  <1> SUFFICES ASSUME Init PROVE Inv
    OBVIOUS
  <1>1. TypeOK
    <2>1. {i \in Ids : row[i] # "none"} = {}
      BY DEF Init
    <2>2. MaxOf({}) = 0
      BY DEF MaxOf
    <2>3. lastId \in 0..MaxOf({i \in Ids : row[i] # "none"})
      BY <2>1, <2>2 DEF Init
    <2> QED BY <2>3 DEF Init, TypeOK, Requests, NoRequest, Steps
  <1>2. OrderInv /\ BehindInv /\ ShownOnce /\ AnswerInv /\ SkippedOnlyByLimit
    BY DEF Init, OrderInv, BehindInv, ShownOnce, AnswerInv, SkippedOnlyByLimit, Born, NoRequest, Ids
  <1> QED BY <1>1, <1>2 DEF Inv

-----------------------------------------------------------------------------
(* What any step keeps.                                                     *)

LEMMA BornNumbers ==
  TypeOK => /\ Born \in SUBSET Numbers /\ MaxOf(Born) \in Numbers
            /\ poll.rows \subseteq Ids /\ setup.rows \subseteq Ids
            /\ lastId \in Numbers /\ lastId <= MaxOf(Born)
            /\ Ids \subseteq Numbers
  <1> SUFFICES ASSUME TypeOK
               PROVE  /\ Born \in SUBSET Numbers /\ MaxOf(Born) \in Numbers
                      /\ poll.rows \subseteq Ids /\ setup.rows \subseteq Ids
                      /\ lastId \in Numbers /\ lastId <= MaxOf(Born)
                      /\ Ids \subseteq Numbers
    OBVIOUS
  <1>1. Ids \subseteq Numbers /\ Born \in SUBSET Numbers
    BY RowsAssumption DEF Ids, Numbers, Born
  <1>2. MaxOf(Born) \in Numbers
    BY <1>1, MaxOfFacts
  <1>3. lastId \in 0..MaxOf(Born)
    BY DEF TypeOK, Born
  <1>4. lastId \in Numbers /\ lastId <= MaxOf(Born)
    BY <1>2, <1>3, RowsAssumption DEF Numbers
  <1> QED BY <1>1, <1>2, <1>4 DEF TypeOK, Requests

LEMMA RowsStep == Inv /\ [Next]_vars => Born \subseteq Born' /\ Unread' \subseteq Unread \cup (Born' \ Born)
  <1> SUFFICES ASSUME Inv, [Next]_vars PROVE Born \subseteq Born' /\ Unread' \subseteq Unread \cup (Born' \ Born)
    OBVIOUS
  <1> USE DEF NoRequest, Sent, Answered, Requests, Steps, storage, listener, settings, Inv, TypeOK, Born, Unread, Present
  <1>1. CASE Insert
    BY <1>1 DEF Insert
  <1>2. CASE MarkAllRead
    BY <1>2 DEF MarkAllRead
  <1>3. ASSUME NEW i \in Ids, MarkRead(i) PROVE Born \subseteq Born' /\ Unread' \subseteq Unread \cup (Born' \ Born)
    BY <1>3 DEF MarkRead
  <1>4. ASSUME NEW i \in Ids, DeleteRow(i) PROVE Born \subseteq Born' /\ Unread' \subseteq Unread \cup (Born' \ Born)
    BY <1>4 DEF DeleteRow
  <1>5. CASE PollStart
    BY <1>5 DEF PollStart
  <1>6. CASE PollAnswer
    BY <1>6 DEF PollAnswer
  <1>7. CASE PollDeliver
    BY <1>7 DEF PollDeliver
  <1>8. CASE PollFails
    BY <1>8 DEF PollFails
  <1>9. CASE EnableStart
    BY <1>9 DEF EnableStart
  <1>10. CASE EnableAnswer
    BY <1>10 DEF EnableAnswer
  <1>11. CASE EnableDeliver
    BY <1>11 DEF EnableDeliver
  <1>12. CASE EnableFails
    BY <1>12 DEF EnableFails
  <1>13. CASE Disable
    BY <1>13 DEF Disable
  <1>14. CASE Reload
    BY <1>14 DEF Reload
  <1>15. CASE UNCHANGED vars
    BY <1>15 DEF vars
  <1> QED BY <1>1, <1>2, <1>3, <1>4, <1>5, <1>6, <1>7, <1>8, <1>9, <1>10, <1>11, <1>12, <1>13, <1>14, <1>15 DEF Next, Server, Listener, Settings

LEMMA OrderNext == Inv /\ [Next]_vars => OrderInv'
  <1> SUFFICES ASSUME Inv, [Next]_vars PROVE OrderInv'
    OBVIOUS
  <1> USE BornNumbers, RowsAssumption DEF NoRequest, Sent, Answered, Requests, Steps, storage, listener, settings, Inv, TypeOK, Born, Unread, Present, OrderInv, Ids, Newest
  <1>1. CASE Insert
    <2>1. PICK i \in Ids : /\ \A k \in Ids : k < i => row[k] # "none"
                          /\ row' = [row EXCEPT ![i] = "unread"] /\ poll' = poll /\ setup' = setup
      BY <1>1 DEF Insert
    <2>2. \A k \in Ids : row'[k] = IF k = i THEN "unread" ELSE row[k]
      BY <2>1
    <2>3. Born' = Born \cup {i}
      BY <2>2
    <2>4. \A m, k \in Ids : k < m /\ m \in Born' => k \in Born'
      BY <2>1, <2>2
    <2> QED BY <2>1, <2>3, <2>4
  <1>2. CASE MarkAllRead
    BY <1>2 DEF MarkAllRead
  <1>3. ASSUME NEW i \in Ids, MarkRead(i) PROVE OrderInv'
    BY <1>3 DEF MarkRead
  <1>4. ASSUME NEW i \in Ids, DeleteRow(i) PROVE OrderInv'
    BY <1>4 DEF DeleteRow
  <1>5. CASE PollStart
    BY <1>5 DEF PollStart
  <1>6. CASE PollAnswer
    BY <1>6 DEF PollAnswer
  <1>7. CASE PollDeliver
    BY <1>7 DEF PollDeliver
  <1>8. CASE PollFails
    BY <1>8 DEF PollFails
  <1>9. CASE EnableStart
    BY <1>9 DEF EnableStart
  <1>10. CASE EnableAnswer
    <2>1. Newest(Limit) \in SUBSET Numbers /\ Newest(Limit) \subseteq Born
      BY DEF Numbers
    <2>2. UNCHANGED <<row, poll>> /\ setup'.rows = {i \in Ids : i = MaxOf(Newest(Limit))}
      BY <1>10 DEF EnableAnswer, Answered
    <2>3. OrderInv /\ Born' = Born
      BY <2>2
    <2>4. MaxOf(Newest(Limit)) \in Born \/ MaxOf(Newest(Limit)) = 0
      <3> HIDE DEF Newest, Born, Ids
      <3> QED BY <2>1, MaxOfFacts
    <2>5. setup'.rows \subseteq Born
      <3> HIDE DEF Newest, Born
      <3> QED BY <2>2, <2>4
    <2> HIDE DEF Newest, Born, Ids
    <2> QED BY <2>2, <2>3, <2>5
  <1>11. CASE EnableDeliver
    BY <1>11 DEF EnableDeliver
  <1>12. CASE EnableFails
    BY <1>12 DEF EnableFails
  <1>13. CASE Disable
    BY <1>13 DEF Disable
  <1>14. CASE Reload
    BY <1>14 DEF Reload
  <1>15. CASE UNCHANGED vars
    BY <1>15 DEF vars
  <1> QED BY <1>1, <1>2, <1>3, <1>4, <1>5, <1>6, <1>7, <1>8, <1>9, <1>10, <1>11, <1>12, <1>13, <1>14, <1>15 DEF Next, Server, Listener, Settings

LEMMA BehindNext == Inv /\ [Next]_vars => BehindInv'
  <1> SUFFICES ASSUME Inv, [Next]_vars PROVE BehindInv'
    OBVIOUS
  <1> USE RowsAssumption DEF NoRequest, Sent, Answered, Requests, Steps, storage, listener, settings, Inv, TypeOK, BehindInv, Ids, Numbers
  <1>1. CASE Insert
    BY <1>1 DEF Insert
  <1>2. CASE MarkAllRead
    BY <1>2 DEF MarkAllRead
  <1>3. ASSUME NEW i \in Ids, MarkRead(i) PROVE BehindInv'
    BY <1>3 DEF MarkRead
  <1>4. ASSUME NEW i \in Ids, DeleteRow(i) PROVE BehindInv'
    BY <1>4 DEF DeleteRow
  <1>5. CASE PollStart
    BY <1>5 DEF PollStart
  <1>6. CASE PollAnswer
    BY <1>6 DEF PollAnswer
  <1>7. CASE PollDeliver
    <2> DEFINE pending == {i \in poll.rows : i > lastId}
    <2>1. /\ lastId' = MaxOf(pending \cup {lastId}) /\ old' = old
          /\ shown' = [i \in Ids |-> IF i \in pending THEN shown[i] + 1 ELSE shown[i]]
      BY <1>7 DEF PollDeliver
    <2>2. pending \in SUBSET Numbers
      BY BornNumbers
    <2>3. lastId' \in Nat /\ lastId <= lastId' /\ \A i \in pending : i <= lastId'
      BY <2>1, <2>2, BornNumbers, MaxWith
    <2>4. \A i \in Ids : i \notin pending => shown'[i] = shown[i]
      BY <2>1
    <2>5. BehindInv /\ shown \in [Ids -> Nat] /\ lastId \in Nat /\ old \subseteq Ids
      BY BornNumbers
    <2> HIDE DEF pending, Inv, TypeOK
    <2>6. ASSUME NEW i \in Ids, shown'[i] > 0 PROVE i <= lastId'
      <3>1. CASE i \in pending
        BY <2>3, <3>1
      <3>2. CASE i \notin pending
        <4>1. i <= lastId
          BY <2>4, <2>5, <2>6, <3>2
        <4> QED BY <2>3, <2>5, <4>1
      <3> QED BY <3>1, <3>2
    <2>7. ASSUME NEW i \in old PROVE i <= lastId'
      BY <2>3, <2>5
    <2> QED BY <2>1, <2>6, <2>7
  <1>8. CASE PollFails
    BY <1>8 DEF PollFails
  <1>9. CASE EnableStart
    BY <1>9 DEF EnableStart
  <1>10. CASE EnableAnswer
    BY <1>10 DEF EnableAnswer
  <1>11. CASE EnableDeliver
    <2>1. /\ lastId' = MaxOf(setup.rows \cup {lastId}) /\ shown' = shown
          /\ old' = old \cup {i \in Ids : i <= MaxOf(setup.rows)}
      BY <1>11 DEF EnableDeliver
    <2>2. setup.rows \in SUBSET Numbers /\ setup.rows \cup {lastId} \in SUBSET Numbers
      BY BornNumbers
    <2>3. BehindInv /\ lastId \in Numbers
      BY BornNumbers
    <2> HIDE DEF Inv, TypeOK
    <2>4. lastId' \in Nat /\ lastId <= lastId'
      BY <2>1, <2>2, <2>3, MaxWith
    <2>5. MaxOf(setup.rows) <= lastId' /\ MaxOf(setup.rows) \in Numbers
      BY <2>1, <2>2, MaxOfFacts
    <2>6. ASSUME NEW i \in Ids, i \in old \/ i <= MaxOf(setup.rows) PROVE i <= lastId'
      BY <2>3, <2>4, <2>5, <2>6
    <2>7. \A i \in Ids : shown[i] > 0 => i <= lastId'
      BY <2>3, <2>4
    <2>8. old \subseteq Ids
      BY DEF Inv, TypeOK
    <2> QED BY <2>1, <2>6, <2>7, <2>8
  <1>12. CASE EnableFails
    BY <1>12 DEF EnableFails
  <1>13. CASE Disable
    BY <1>13 DEF Disable
  <1>14. CASE Reload
    BY <1>14 DEF Reload
  <1>15. CASE UNCHANGED vars
    BY <1>15 DEF vars
  <1> QED BY <1>1, <1>2, <1>3, <1>4, <1>5, <1>6, <1>7, <1>8, <1>9, <1>10, <1>11, <1>12, <1>13, <1>14, <1>15 DEF Next, Server, Listener, Settings

LEMMA ShownNext == Inv /\ [Next]_vars => ShownOnce'
  <1> SUFFICES ASSUME Inv, [Next]_vars PROVE ShownOnce'
    OBVIOUS
  <1> USE DEF NoRequest, Sent, Answered, Requests, Steps, storage, listener, settings, Inv, TypeOK, BehindInv, ShownOnce, Ids
  <1>1. CASE Insert
    BY <1>1 DEF Insert
  <1>2. CASE MarkAllRead
    BY <1>2 DEF MarkAllRead
  <1>3. ASSUME NEW i \in Ids, MarkRead(i) PROVE ShownOnce'
    BY <1>3 DEF MarkRead
  <1>4. ASSUME NEW i \in Ids, DeleteRow(i) PROVE ShownOnce'
    BY <1>4 DEF DeleteRow
  <1>5. CASE PollStart
    BY <1>5 DEF PollStart
  <1>6. CASE PollAnswer
    BY <1>6 DEF PollAnswer
  <1>7. CASE PollDeliver
    BY <1>7 DEF PollDeliver
  <1>8. CASE PollFails
    BY <1>8 DEF PollFails
  <1>9. CASE EnableStart
    BY <1>9 DEF EnableStart
  <1>10. CASE EnableAnswer
    BY <1>10 DEF EnableAnswer
  <1>11. CASE EnableDeliver
    BY <1>11 DEF EnableDeliver
  <1>12. CASE EnableFails
    BY <1>12 DEF EnableFails
  <1>13. CASE Disable
    BY <1>13 DEF Disable
  <1>14. CASE Reload
    BY <1>14 DEF Reload
  <1>15. CASE UNCHANGED vars
    BY <1>15 DEF vars
  <1> QED BY <1>1, <1>2, <1>3, <1>4, <1>5, <1>6, <1>7, <1>8, <1>9, <1>10, <1>11, <1>12, <1>13, <1>14, <1>15 DEF Next, Server, Listener, Settings

LEMMA AnswerNext == Inv /\ [Next]_vars => AnswerInv'
  <1> SUFFICES ASSUME Inv, [Next]_vars PROVE AnswerInv'
    OBVIOUS
  <1> USE DEF NoRequest, Sent, Answered, Requests, Steps, storage, listener, settings, Inv, TypeOK, OrderInv, AnswerInv, Ids, Born, Unread, Present
  <1>1. CASE Insert
    BY <1>1 DEF Insert
  <1>2. CASE MarkAllRead
    BY <1>2 DEF MarkAllRead
  <1>3. ASSUME NEW i \in Ids, MarkRead(i) PROVE AnswerInv'
    BY <1>3 DEF MarkRead
  <1>4. ASSUME NEW i \in Ids, DeleteRow(i) PROVE AnswerInv'
    BY <1>4 DEF DeleteRow
  <1>5. CASE PollStart
    BY <1>5 DEF PollStart
  <1>6. CASE PollAnswer
    BY <1>6 DEF PollAnswer
  <1>7. CASE PollDeliver
    BY <1>7 DEF PollDeliver
  <1>8. CASE PollFails
    BY <1>8 DEF PollFails
  <1>9. CASE EnableStart
    BY <1>9 DEF EnableStart
  <1>10. CASE EnableAnswer
    BY <1>10 DEF EnableAnswer
  <1>11. CASE EnableDeliver
    BY <1>11 DEF EnableDeliver
  <1>12. CASE EnableFails
    BY <1>12 DEF EnableFails
  <1>13. CASE Disable
    BY <1>13 DEF Disable
  <1>14. CASE Reload
    BY <1>14 DEF Reload
  <1>15. CASE UNCHANGED vars
    BY <1>15 DEF vars
  <1> QED BY <1>1, <1>2, <1>3, <1>4, <1>5, <1>6, <1>7, <1>8, <1>9, <1>10, <1>11, <1>12, <1>13, <1>14, <1>15 DEF Next, Server, Listener, Settings

LEMMA SkippedNext == Inv /\ [Next]_vars => SkippedOnlyByLimit'
  <1> SUFFICES ASSUME Inv, [Next]_vars PROVE SkippedOnlyByLimit'
    OBVIOUS
  <1> USE MaxOfFacts, BornNumbers DEF NoRequest, Sent, Answered, Requests, Steps, storage, listener, settings, Inv, TypeOK, OrderInv, AnswerInv, SkippedOnlyByLimit, BehindInv, Ids, Born, Unread, Present
  <1>1. CASE Insert
    BY <1>1 DEF Insert
  <1>2. CASE MarkAllRead
    BY <1>2 DEF MarkAllRead
  <1>3. ASSUME NEW i \in Ids, MarkRead(i) PROVE SkippedOnlyByLimit'
    BY <1>3 DEF MarkRead
  <1>4. ASSUME NEW i \in Ids, DeleteRow(i) PROVE SkippedOnlyByLimit'
    BY <1>4 DEF DeleteRow
  <1>5. CASE PollStart
    BY <1>5 DEF PollStart
  <1>6. CASE PollAnswer
    BY <1>6 DEF PollAnswer
  <1>7. CASE PollDeliver
    BY <1>7 DEF PollDeliver
  <1>8. CASE PollFails
    BY <1>8 DEF PollFails
  <1>9. CASE EnableStart
    BY <1>9 DEF EnableStart
  <1>10. CASE EnableAnswer
    BY <1>10 DEF EnableAnswer
  <1>11. CASE EnableDeliver
    BY <1>11 DEF EnableDeliver
  <1>12. CASE EnableFails
    BY <1>12 DEF EnableFails
  <1>13. CASE Disable
    BY <1>13 DEF Disable
  <1>14. CASE Reload
    BY <1>14 DEF Reload
  <1>15. CASE UNCHANGED vars
    BY <1>15 DEF vars
  <1> QED BY <1>1, <1>2, <1>3, <1>4, <1>5, <1>6, <1>7, <1>8, <1>9, <1>10, <1>11, <1>12, <1>13, <1>14, <1>15 DEF Next, Server, Listener, Settings

\* The last id is the id of a row that was there.
LEMMA LastIdStep == Inv /\ [Next]_vars => lastId' \in Born \cup {lastId}
  <1> SUFFICES ASSUME Inv, [Next]_vars PROVE lastId' \in Born \cup {lastId}
    OBVIOUS
  <1>1. /\ poll.rows \in SUBSET Numbers /\ setup.rows \in SUBSET Numbers /\ lastId \in Numbers
        /\ poll.rows \subseteq Born /\ setup.rows \subseteq Born
    BY BornNumbers DEF Inv, OrderInv
  <1>2. CASE PollDeliver
    <2>1. {i \in poll.rows : i > lastId} \in SUBSET Numbers
      BY <1>1
    <2> QED BY <1>1, <1>2, <2>1, MaxWith DEF PollDeliver
  <1>3. CASE EnableDeliver
    BY <1>1, <1>3, MaxWith DEF EnableDeliver
  <1>4. CASE ~PollDeliver /\ ~EnableDeliver
    BY <1>4 DEF Next, Server, Listener, Settings, Insert, MarkAllRead, MarkRead, DeleteRow, PollStart, PollAnswer,
       PollFails, EnableStart, EnableAnswer, EnableFails, Disable, Reload, vars, storage
  <1> QED BY <1>2, <1>3, <1>4

LEMMA OtherTypesNext == Inv /\ [Next]_vars => /\ row' \in [Ids -> {"none", "unread", "read", "gone"}] /\ enabled' \in BOOLEAN
                                       /\ poll' \in Requests /\ setup' \in Requests /\ shown' \in [Ids -> Nat]
                                       /\ missed' \subseteq Ids /\ old' \subseteq Ids
  <1> SUFFICES ASSUME Inv, [Next]_vars PROVE /\ row' \in [Ids -> {"none", "unread", "read", "gone"}] /\ enabled' \in BOOLEAN
                                       /\ poll' \in Requests /\ setup' \in Requests /\ shown' \in [Ids -> Nat]
                                       /\ missed' \subseteq Ids /\ old' \subseteq Ids
    OBVIOUS
  <1> USE DEF NoRequest, Sent, Answered, Requests, Steps, storage, listener, settings, Inv, TypeOK, Newest, Present, Unread
  <1>1. CASE Insert
    BY <1>1 DEF Insert
  <1>2. CASE MarkAllRead
    BY <1>2 DEF MarkAllRead
  <1>3. ASSUME NEW i \in Ids, MarkRead(i) PROVE /\ row' \in [Ids -> {"none", "unread", "read", "gone"}] /\ enabled' \in BOOLEAN
                                       /\ poll' \in Requests /\ setup' \in Requests /\ shown' \in [Ids -> Nat]
                                       /\ missed' \subseteq Ids /\ old' \subseteq Ids
    BY <1>3 DEF MarkRead
  <1>4. ASSUME NEW i \in Ids, DeleteRow(i) PROVE /\ row' \in [Ids -> {"none", "unread", "read", "gone"}] /\ enabled' \in BOOLEAN
                                       /\ poll' \in Requests /\ setup' \in Requests /\ shown' \in [Ids -> Nat]
                                       /\ missed' \subseteq Ids /\ old' \subseteq Ids
    BY <1>4 DEF DeleteRow
  <1>5. CASE PollStart
    BY <1>5 DEF PollStart
  <1>6. CASE PollAnswer
    BY <1>6 DEF PollAnswer
  <1>7. CASE PollDeliver
    BY <1>7 DEF PollDeliver
  <1>8. CASE PollFails
    BY <1>8 DEF PollFails
  <1>9. CASE EnableStart
    BY <1>9 DEF EnableStart
  <1>10. CASE EnableAnswer
    BY <1>10 DEF EnableAnswer
  <1>11. CASE EnableDeliver
    BY <1>11 DEF EnableDeliver
  <1>12. CASE EnableFails
    BY <1>12 DEF EnableFails
  <1>13. CASE Disable
    BY <1>13 DEF Disable
  <1>14. CASE Reload
    BY <1>14 DEF Reload
  <1>15. CASE UNCHANGED vars
    BY <1>15 DEF vars
  <1> QED BY <1>1, <1>2, <1>3, <1>4, <1>5, <1>6, <1>7, <1>8, <1>9, <1>10, <1>11, <1>12, <1>13, <1>14, <1>15 DEF Next, Server, Listener, Settings

LEMMA TypeNext == Inv /\ [Next]_vars => TypeOK'
  <1> SUFFICES ASSUME Inv, [Next]_vars PROVE TypeOK'
    OBVIOUS
  <1>1. Born \subseteq Born' /\ Born' \in SUBSET Numbers /\ lastId' \in Born' \cup {lastId}
    <2>1. Born' \subseteq Ids
      BY DEF Born
    <2> QED BY <2>1, RowsStep, LastIdStep, BornNumbers DEF Inv
  <1>2. MaxOf(Born) <= MaxOf(Born') /\ MaxOf(Born) \in Nat /\ MaxOf(Born') \in Nat
    BY <1>1, BornNumbers, MaxOfFacts, RowsAssumption DEF Inv, Numbers
  <1>3. lastId' \in 0..MaxOf(Born')
    <2>1. CASE lastId' \in Born'
      BY <1>1, <1>2, <2>1, MaxOfFacts, RowsAssumption DEF Numbers
    <2>2. CASE lastId' = lastId
      BY <1>2, <2>2, BornNumbers, RowsAssumption DEF Inv, Numbers
    <2> QED BY <1>1, <2>1, <2>2
  <1> QED BY <1>3, OtherTypesNext DEF TypeOK, Born

LEMMA InvNext == Inv /\ [Next]_vars => Inv'
  BY TypeNext, OrderNext, BehindNext, ShownNext, AnswerNext, SkippedNext DEF Inv

\* Every variable keeps its type, and the stored last id never runs ahead of the table.
THEOREM NotificationTypeCorrect == Spec => []TypeOK
  <1>1. Inv => TypeOK
    BY DEF Inv
  <1> QED BY <1>1, InvInit, InvNext, PTL DEF Spec

\* However polls, late answers, reloads and the settings card overlap, the listener
\* shows no row twice: it reads the last id after its await.
THEOREM NothingIsShownTwice == Spec => []ShownOnce
  <1>1. Inv => ShownOnce
    BY DEF Inv
  <1> QED BY <1>1, InvInit, InvNext, PTL DEF Spec

\* The only new rows that the listener passes over are those for which an answer of
\* FETCH_LIMIT rows had no room.
THEOREM OnlyTheLimitSkips == Spec => []SkippedOnlyByLimit
  <1>1. Inv => SkippedOnlyByLimit
    BY DEF Inv
  <1> QED BY <1>1, InvInit, InvNext, PTL DEF Spec

\* Turning notifications on brings back no old row, not even through the answer to a
\* poll that was sent before they were turned off.
THEOREM OldStaysHidden == Spec => OldIsNotShown
  <1>1. Inv /\ [Next]_vars => (\A i \in Ids : shown'[i] # shown[i] => i \notin old)
    <2> SUFFICES ASSUME Inv, [Next]_vars, NEW i \in Ids, i \in old PROVE shown'[i] = shown[i]
      OBVIOUS
    <2>1. i <= lastId /\ lastId \in Nat /\ i \in Nat
      BY BornNumbers, RowsAssumption DEF Inv, BehindInv, Numbers, Ids
    <2>2. CASE PollDeliver
      <3>1. ~(i > lastId)
        BY <2>1
      <3> QED BY <2>2, <3>1 DEF PollDeliver
    <2>3. CASE ~PollDeliver
      BY <2>3 DEF Next, Server, Listener, Settings, Insert, MarkAllRead, MarkRead, DeleteRow, PollStart, PollAnswer,
         PollFails, EnableStart, EnableAnswer, EnableDeliver, EnableFails, Disable, Reload, vars, listener
    <2> QED BY <2>2, <2>3
  <1>2. Inv /\ [Next]_vars => [\A i \in Ids : shown'[i] # shown[i] => i \notin old]_vars
    BY <1>1
  <1> QED BY <1>2, InvInit, InvNext, PTL DEF Spec, OldIsNotShown

=============================================================================
