----------------------------- MODULE Notifications -----------------------------
(***************************************************************************)
(* The notifications table and one browser tab: BrowserNotificationListener*)
(* polls the newest rows and shows the unread ones it has not shown yet,   *)
(* and the settings card turns it on and off.                              *)
(*                                                                         *)
(* JavaScript runs to its next await: a request is sent, answered by the   *)
(* server and delivered to the tab in three steps, and everything else may *)
(* happen in between.  localStorage survives a reload of the page.         *)
(***************************************************************************)
EXTENDS Naturals, FiniteSets

CONSTANTS
  MaxRows,      \* bound: notifications ever inserted
  Limit         \* FETCH_LIMIT: 30 in the code

ASSUME RowsAssumption == MaxRows \in Nat /\ Limit \in Nat \ {0}

Ids == 1..MaxRows

VARIABLES
  row,       \* is_read of each row; "none": not inserted yet, "gone": deleted
  enabled,   \* localStorage nemotron-browser-notify (and the permission)
  lastId,    \* localStorage nemotron-notify-last-id
  poll,      \* the listener's request: its step and the unread rows of its answer
  setup,     \* enable() of the settings card: its step and the newest row
  shown,     \* how often each row was shown
  missed,    \* history: unread rows that an answer had no room for
  old        \* history: rows that were there when notifications were turned on

storage  == <<enabled, lastId>>
listener == <<poll, shown, missed>>
settings == <<setup, old>>
vars     == <<row, storage, listener, settings>>

MaxOf(S) == IF S = {} THEN 0 ELSE CHOOSE n \in S : \A k \in S : k <= n

Present == {i \in Ids : row[i] \in {"unread", "read"}}
Unread  == {i \in Ids : row[i] = "unread"}

\* ORDER BY id DESC LIMIT n.
Newest(n) == {i \in Present : Cardinality({k \in Present : k >= i}) <= n}

Steps    == {"idle", "sent", "answered"}
Requests  == [step : Steps, rows : SUBSET Ids]
NoRequest == [step |-> "idle", rows |-> {}]
Sent      == [step |-> "sent", rows |-> {}]
Answered(rows) == [step |-> "answered", rows |-> rows]

Init ==
  /\ row = [i \in Ids |-> "none"]
  /\ enabled = FALSE /\ lastId = 0
  /\ poll = NoRequest /\ setup = NoRequest
  /\ shown = [i \in Ids |-> 0]
  /\ missed = {} /\ old = {}

-----------------------------------------------------------------------------
(* The server.                                                             *)

\* AUTOINCREMENT: ids are handed out in order and never again.
Insert ==
  \E i \in Ids :
    /\ row[i] = "none" /\ \A k \in Ids : k < i => row[k] # "none"
    /\ row' = [row EXCEPT ![i] = "unread"]
    /\ UNCHANGED <<storage, listener, settings>>

MarkRead(i) ==
  /\ row[i] = "unread"
  /\ row' = [row EXCEPT ![i] = "read"]
  /\ UNCHANGED <<storage, listener, settings>>

MarkAllRead ==
  /\ Unread # {}
  /\ row' = [i \in Ids |-> IF row[i] = "unread" THEN "read" ELSE row[i]]
  /\ UNCHANGED <<storage, listener, settings>>

\* DELETE /jobs/{id} takes the rows of the job with it.
DeleteRow(i) ==
  /\ i \in Present
  /\ row' = [row EXCEPT ![i] = "gone"]
  /\ UNCHANGED <<storage, listener, settings>>

-----------------------------------------------------------------------------
(* BrowserNotificationListener.                                            *)

\* Every POLL_MS and on a change of the preference; never two at a time.
PollStart ==
  /\ enabled /\ poll.step = "idle"
  /\ poll' = Sent
  /\ UNCHANGED <<row, storage, shown, missed, settings>>

PollAnswer ==
  /\ poll.step = "sent"
  /\ poll' = Answered(Newest(Limit) \cap Unread)
  /\ missed' = missed \cup (Unread \ Newest(Limit))
  /\ UNCHANGED <<row, storage, shown, settings>>

\* Mutant: every row of the answer is shown.
PollDeliverAll ==
  /\ poll.step = "answered"
  /\ poll' = NoRequest
  /\ shown' = [i \in Ids |-> IF i \in poll.rows THEN shown[i] + 1 ELSE shown[i]]
  /\ lastId' = MaxOf(poll.rows \cup {lastId})
  /\ UNCHANGED <<row, enabled, missed, settings>>

\* Mutant: only the newest of the rows is shown.
PollDeliverNewest ==
  LET pending == {i \in poll.rows : i > lastId} IN
  /\ poll.step = "answered"
  /\ poll' = NoRequest
  /\ shown' = [i \in Ids |-> IF pending # {} /\ i = MaxOf(pending) THEN shown[i] + 1 ELSE shown[i]]
  /\ lastId' = MaxOf(pending \cup {lastId})
  /\ UNCHANGED <<row, enabled, missed, settings>>

\* Mutant: an answer whose rows have all been shown leaves pollingRef set.
PollDeliverStuck ==
  LET pending == {i \in poll.rows : i > lastId} IN
  /\ poll.step = "answered"
  /\ poll' = IF pending = {} THEN poll ELSE NoRequest
  /\ shown' = [i \in Ids |-> IF i \in pending THEN shown[i] + 1 ELSE shown[i]]
  /\ lastId' = MaxOf(pending \cup {lastId})
  /\ UNCHANGED <<row, enabled, missed, settings>>

\* The last id is read after the await: whatever happened since counts.
PollDeliver ==
  LET pending == {i \in poll.rows : i > lastId} IN
  /\ poll.step = "answered"
  /\ poll' = NoRequest
  /\ shown' = [i \in Ids |-> IF i \in pending THEN shown[i] + 1 ELSE shown[i]]
  /\ lastId' = MaxOf(pending \cup {lastId})
  /\ UNCHANGED <<row, enabled, missed, settings>>

\* An error of the network or the server; the next period tries again.
PollFails ==
  /\ poll.step # "idle"
  /\ poll' = NoRequest
  /\ UNCHANGED <<row, storage, shown, missed, settings>>

-----------------------------------------------------------------------------
(* BrowserNotificationSettings.                                            *)

\* The card offers the button only while notifications are off.
EnableStart ==
  /\ ~enabled /\ setup.step = "idle"
  /\ setup' = Sent
  /\ UNCHANGED <<row, storage, listener, old>>

EnableAnswer ==
  /\ setup.step = "sent"
  /\ setup' = Answered({i \in Ids : i = MaxOf(Newest(Limit))})
  /\ UNCHANGED <<row, storage, listener, old>>

\* Mutant: the baseline is one too high.
EnablePastNewest ==
  /\ setup.step = "answered"
  /\ setup' = NoRequest
  /\ lastId' = MaxOf(setup.rows \cup {lastId}) + 1
  /\ enabled' = TRUE
  /\ old' = old \cup {i \in Ids : i <= MaxOf(setup.rows)}
  /\ UNCHANGED <<row, listener>>

\* Mutant: no baseline.
EnableBare ==
  /\ setup.step = "answered"
  /\ setup' = NoRequest
  /\ enabled' = TRUE
  /\ old' = old \cup {i \in Ids : i <= MaxOf(setup.rows)}
  /\ UNCHANGED <<row, lastId, listener>>

\* The baseline is stored before the preference that starts the polls.
EnableDeliver ==
  /\ setup.step = "answered"
  /\ setup' = NoRequest
  /\ lastId' = MaxOf(setup.rows \cup {lastId})
  /\ enabled' = TRUE
  /\ old' = old \cup {i \in Ids : i <= MaxOf(setup.rows)}
  /\ UNCHANGED <<row, listener>>

EnableFails ==
  /\ setup.step # "idle"
  /\ setup' = NoRequest
  /\ UNCHANGED <<row, storage, listener, old>>

Disable ==
  /\ enabled
  /\ enabled' = FALSE
  /\ UNCHANGED <<row, lastId, listener, settings>>

\* The page is loaded again: what was under way is lost.
Reload ==
  /\ poll' = NoRequest /\ setup' = NoRequest
  /\ UNCHANGED <<row, storage, shown, missed, old>>

-----------------------------------------------------------------------------
Server   == Insert \/ MarkAllRead \/ \E i \in Ids : MarkRead(i) \/ DeleteRow(i)
Listener == PollStart \/ PollAnswer \/ PollDeliver \/ PollFails
Settings == EnableStart \/ EnableAnswer \/ EnableDeliver \/ EnableFails \/ Disable

Next == Server \/ Listener \/ Settings \/ Reload

(***************************************************************************)
(* The intervals keep firing, and among ever repeated requests some are    *)
(* answered and delivered: the network is not down for ever and the page   *)
(* is not reloaded before every answer.                                    *)
(***************************************************************************)
Fairness ==
  WF_vars(PollStart) /\ SF_vars(PollAnswer) /\ SF_vars(PollDeliver)

Spec == Init /\ [][Next]_vars /\ Fairness

-----------------------------------------------------------------------------
\* Every variable has its type, and the last id is one the server has handed out.
TypeOK ==
  /\ row \in [Ids -> {"none", "unread", "read", "gone"}]
  /\ enabled \in BOOLEAN /\ lastId \in 0..MaxOf({i \in Ids : row[i] # "none"})
  /\ poll \in Requests /\ setup \in Requests
  /\ shown \in [Ids -> Nat]
  /\ missed \subseteq Ids /\ old \subseteq Ids

\* Across polls, reloads, and turning off and on while a poll is under way, no
\* notification is shown twice.
ShownOnce == \A i \in Ids : shown[i] <= 1

\* A notification that was there when notifications were turned on is
\* not shown afterwards, not even by a poll that was sent before.
OldIsNotShown ==
  [][\A i \in Ids : shown'[i] # shown[i] => i \notin old]_vars

\* The last id runs past an unread row that was never shown only when the row was
\* there already when notifications were turned on, or when an answer had no room
\* for it.
SkippedOnlyByLimit ==
  \A i \in Ids : row[i] = "unread" /\ shown[i] = 0 /\ i <= lastId => i \in missed \cup old

\* While notifications are on, a new row is shown in the end, unless it is read,
\* deleted or pushed out by newer ones first.
NewIsShown ==
  \A i \in Ids :
    row[i] = "unread" /\ enabled
      ~> (shown[i] > 0 \/ row[i] # "unread" \/ ~enabled \/ i \in missed \cup old)

=============================================================================
