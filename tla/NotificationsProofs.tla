------------------------- MODULE NotificationsProofs -------------------------
(***************************************************************************)
(* E-mails are sent by one sender at a time and their rows say what became *)
(* of them, for any number of e-mails, senders, retries and faults.        *)
(*                                                                         *)
(* No lock is held at the provider, so that a sender finds the row as it   *)
(* left it has to be shown of every other operation.  Each part of RowOK   *)
(* needs the others: an attempt's number is new only because the row is    *)
(* the sender's own (Owned) and the attempts have no gap (Explained); the  *)
(* database refuses an attempt only of an e-mail without retries because   *)
(* whoever sends is within the budget (Budgeted); and a message is not     *)
(* handed over again because an acceptance the sender heard of is in the   *)
(* row, or leaves it in PROCESSING for good (Heard).                       *)
(***************************************************************************)
EXTENDS Notifications, FiniteSetTheorems, TLAPS

SenderStates ==
  [pc : {"calling", "answered", "recorded"}, on : Emails, task : Tasks \union {NoTask},
   result : {"unknown", "sent", "retryable", "permanent"}, number : Nat \ {0}, retries : Nat]

\* The type invariant, what a sender has read, and that attempts can be counted.
DeliveryTypes ==
  /\ NotificationTypeOK
  /\ sender \in [Senders -> SenderStates \union {IdleSender}]
  /\ \A n \in Emails : IsFiniteSet(attempts[n])

Failures(n) == {a \in attempts[n] : a.status # "SENT"}

\* SenderOwnsRow, of one row.
Owned(n) ==
  \A s \in Senders : Sending(s, n) =>
    /\ row[n].status = "PROCESSING"
    /\ row[n].retries = sender[s].retries
    /\ sender[s].number = Cardinality(attempts[n]) + 1
    /\ \A x \in Senders : Sending(x, n) => x = s

\* AttemptsExplainRow, of one row; no attempt is older than its row.
Explained(n) ==
  /\ {a.no : a \in attempts[n]} = 1 .. Cardinality(attempts[n])
  /\ (row[n].status = "SENT") <=> \E a \in attempts[n] : a.status = "SENT"
  /\ Cardinality(attempts[n]) <= Cardinality(Failures(n)) + 1
  /\ row[n].retries <= Cardinality(Failures(n))
  /\ n \notin byHand => row[n].retries = Cardinality(Failures(n))
  /\ row[n].status = "none" => attempts[n] = {}

\* Who waits or is sent has a retry left, unless it never had any.
Budgeted(n) ==
  /\ row[n].status \in {"PENDING", "PROCESSING", "RETRYING"} =>
       row[n].retries < row[n].budget \/ (row[n].retries = 0 /\ row[n].budget = 0)
  /\ row[n].status \in {"FAILED", "RETRYING"} => row[n].budget > 0

\* An acceptance that was heard of is the last.
Heard(n) ==
  /\ accepted[n] <= unheard[n] + 1
  /\ row[n].status \notin {"SENT", "PROCESSING"} => accepted[n] <= unheard[n]
  /\ \A s \in Senders : Sending(s, n) =>
       /\ sender[s].result # "sent" => accepted[n] <= unheard[n]
       /\ sender[s].pc = "calling" => sender[s].result = "unknown"

RowOK(n) == Owned(n) /\ Explained(n) /\ Budgeted(n) /\ Heard(n)

DeliveryInv == DeliveryTypes /\ \A n \in Emails : RowOK(n)

-----------------------------------------------------------------------------
(***************************************************************************)
(* Type correctness.                                                       *)
(***************************************************************************)

\* A task queued leaves a bag, with that task and those before it.
LEMMA QueuedTask ==
  ASSUME NEW B, IsABag(B), NEW t
  PROVE  /\ IsABag(B (+) SetToBag({t}))
         /\ BagToSet(B (+) SetToBag({t})) = BagToSet(B) \union {t}
BY DEF IsABag, (+), SetToBag, BagToSet

\* A task taken leaves a bag, with no task that was not there before.
LEMMA TakenTask ==
  ASSUME NEW B, IsABag(B), NEW t
  PROVE  /\ IsABag(B (-) SetToBag({t}))
         /\ BagToSet(B (-) SetToBag({t})) \subseteq BagToSet(B)
BY DEF IsABag, (-), SetToBag, BagToSet

\* A task more leaves the queue one.
LEMMA AddedTask ==
  ASSUME DeliveryTypes, NEW t \in Tasks, queue' = queue (+) SetToBag({t})
  PROVE  IsABag(queue') /\ BagToSet(queue') \subseteq Tasks
<1>1. IsABag(queue) /\ BagToSet(queue) \subseteq Tasks
  BY DEF DeliveryTypes, NotificationTypeOK
<1>2. /\ IsABag(queue (+) SetToBag({t}))
      /\ BagToSet(queue (+) SetToBag({t})) = BagToSet(queue) \union {t}
  BY <1>1, QueuedTask
<1> QED BY <1>1, <1>2

\* A task less leaves the queue one.
LEMMA RemovedTask ==
  ASSUME DeliveryTypes, NEW t, queue' = queue (-) SetToBag({t})
  PROVE  IsABag(queue') /\ BagToSet(queue') \subseteq Tasks
<1>1. IsABag(queue) /\ BagToSet(queue) \subseteq Tasks
  BY DEF DeliveryTypes, NotificationTypeOK
<1>2. /\ IsABag(queue (-) SetToBag({t}))
      /\ BagToSet(queue (-) SetToBag({t})) \subseteq BagToSet(queue)
  BY <1>1, TakenTask
<1> QED BY <1>1, <1>2

\* A sender that is at work has the types of one.
LEMMA SenderType ==
  ASSUME DeliveryTypes, NEW s \in Senders
  PROVE  /\ sender[s] # IdleSender => sender[s] \in SenderStates
         /\ sender[s].pc \in {"calling", "answered", "recorded"} => sender[s] \in SenderStates
         /\ sender[s] \in SenderStates => sender[s] # IdleSender
<1>1. sender[s] \in SenderStates \union {IdleSender}
  BY DEF DeliveryTypes
<1>2. IdleSender.pc = "idle"
  BY DEF IdleSender
<1>3. sender[s] \in SenderStates => sender[s].pc # "idle"
  BY DEF SenderStates
<1> QED BY <1>1, <1>2, <1>3

\* A row with a new status, or retry count, is a row.
LEMMA UpdatedRow ==
  ASSUME DeliveryTypes, NEW n \in Emails, NEW status \in Statuses, NEW k \in Nat
  PROVE  /\ [row EXCEPT ![n].status = status] \in [Emails -> Row]
         /\ [row EXCEPT ![n].status = status, ![n].retries = k] \in [Emails -> Row]
<1>1. row \in [Emails -> Row] /\ row[n] \in Row
  BY DEF DeliveryTypes, NotificationTypeOK
<1>2. /\ [row[n] EXCEPT !.status = status] \in Row
      /\ [row[n] EXCEPT !.status = status, !.retries = k] \in Row
  BY <1>1 DEF Row
<1>3. [row EXCEPT ![n].status = status] = [row EXCEPT ![n] = [row[n] EXCEPT !.status = status]]
  BY <1>1
<1>4. [row EXCEPT ![n].status = status, ![n].retries = k]
        = [row EXCEPT ![n] = [row[n] EXCEPT !.status = status, !.retries = k]]
  BY <1>1
<1> QED BY <1>1, <1>2, <1>3, <1>4

\* What a step has to keep for the types to hold after it.
LEMMA TypesSuffice ==
  ASSUME row' \in [Emails -> Row], attempts' \in [Emails -> SUBSET Attempt],
         unqueued' \in [Emails -> Nat], IsABag(queue'), BagToSet(queue') \subseteq Tasks,
         sender' \in [Senders -> SenderStates \union {IdleSender}],
         accepted' \in [Emails -> Nat], unheard' \in [Emails -> Nat], byHand' \subseteq Emails,
         asked' \in 0 .. MaxAsked, faults' \in 0 .. MaxFaults,
         \A n \in Emails : IsFiniteSet(attempts'[n])
  PROVE  DeliveryTypes'
<1>1. \A s \in Senders : sender'[s] # IdleSender => sender'[s] \in SenderStates
  OBVIOUS
<1> QED BY <1>1 DEF DeliveryTypes, NotificationTypeOK, SenderStates

\* The requests and the clock keep the types.
LEMMA RequestTypes ==
  ASSUME DeliveryTypes, NEW n \in Emails,
         \/ QueueEmail(n) \/ ApplyAsync(n) \/ RequestStops(n) \/ TimeComes(n)
         \/ RetryFailedNotification(n) \/ CancelNotification(n)
  PROVE  DeliveryTypes'
<1> USE NotificationBounds, BudgetsAssumption
<1>1. ASSUME NEW b \in Nat, NEW x \in BOOLEAN, Create(n, b, x)
      PROVE  DeliveryTypes'
  <2>1. [status |-> "PENDING", retries |-> 0, budget |-> b, due |-> ~x] \in Row
    BY DEF Row, Statuses
  <2> QED BY <1>1, <2>1 DEF Create, DeliveryTypes, NotificationTypeOK
<1>2. CASE QueueEmail(n)
  <2>1. CASE CreateFromRenderedTemplate(n)
    BY <1>1, <2>1 DEF CreateFromRenderedTemplate
  <2>2. CASE QueueTemplatedEmail(n)
    <3>1. PICK r \in TemplatedEmailRequest : Create(n, r.max_retry_count, r.scheduled)
      BY <2>2 DEF QueueTemplatedEmail, CreateTemplatedNotification
    <3>2. r.max_retry_count \in Nat /\ r.scheduled \in BOOLEAN
      BY DEF TemplatedEmailRequest, MaxRetryCount
    <3> QED BY <1>1, <3>1, <3>2
  <2>3. CASE QueueDirectEmail(n)
    <3>1. PICK r \in DirectEmailRequest : Create(n, r.max_retry_count, r.scheduled)
      BY <2>3 DEF QueueDirectEmail, CreateDirectNotification
    <3>2. r.max_retry_count \in Nat /\ r.scheduled \in BOOLEAN
      BY DEF DirectEmailRequest, MaxRetryCount
    <3> QED BY <1>1, <3>1, <3>2
  <2> QED
    BY <1>2, <2>1, <2>2, <2>3
    DEF QueueEmail, QueueVerificationEmail, CreateVerificationEmail, QueuePasswordResetEmail,
        CreatePasswordResetEmail, QueuePasswordChangedEmail, CreatePasswordChangedEmail
<1>3. CASE ApplyAsync(n)
  <2>1. [on |-> n, tries |-> 0] \in Tasks
    BY DEF Tasks
  <2>2. PICK t \in Tasks : queue' = queue (+) SetToBag({t})
    BY <1>3, <2>1 DEF ApplyAsync
  <2>3. IsABag(queue') /\ BagToSet(queue') \subseteq Tasks
    BY <2>2, AddedTask
  <2>4. unqueued' \in [Emails -> Nat]
    BY <1>3 DEF ApplyAsync, DeliveryTypes, NotificationTypeOK
  <2> QED BY <1>3, <2>3, <2>4 DEF ApplyAsync, DeliveryTypes, NotificationTypeOK
<1>4. CASE RequestStops(n)
  BY <1>4 DEF RequestStops, DeliveryTypes, NotificationTypeOK
<1>5. CASE TimeComes(n)
  <2>0. row[n] \in Row /\ row \in [Emails -> Row]
    BY DEF DeliveryTypes, NotificationTypeOK
  <2>1. row' \in [Emails -> Row]
    <3>1. [row[n] EXCEPT !.due = TRUE] \in Row
      BY <2>0 DEF Row
    <3>2. row' = [row EXCEPT ![n] = [row[n] EXCEPT !.due = TRUE]]
      BY <1>5 DEF TimeComes
    <3> QED BY <2>0, <3>1, <3>2
  <2> QED BY <1>5, <2>1 DEF TimeComes, DeliveryTypes, NotificationTypeOK
<1>6. CASE RetryFailedNotification(n)
  <2>1. PICK reset \in BOOLEAN : RetryNotification(n, reset)
    BY <1>6 DEF RetryFailedNotification
  <2>2. row' \in [Emails -> Row]
    <3>1. row[n].retries \in Nat /\ "RETRYING" \in Statuses
      BY DEF DeliveryTypes, NotificationTypeOK, Row, Statuses
    <3>2. PICK k \in Nat : row' = [row EXCEPT ![n].status = "RETRYING", ![n].retries = k]
      BY <2>1, <3>1 DEF RetryNotification
    <3> QED BY <3>1, <3>2, UpdatedRow
  <2>3. byHand' \subseteq Emails /\ asked' \in 0 .. MaxAsked /\ unqueued' \in [Emails -> Nat]
    BY <1>6 DEF RetryFailedNotification, DeliveryTypes, NotificationTypeOK
  <2> QED BY <1>6, <2>2, <2>3 DEF RetryFailedNotification, DeliveryTypes, NotificationTypeOK
<1>7. CASE CancelNotification(n)
  <2>1. row' \in [Emails -> Row]
    BY <1>7, UpdatedRow DEF CancelNotification, Statuses
  <2> QED BY <1>7, <2>1 DEF CancelNotification, DeliveryTypes, NotificationTypeOK
<1> QED BY <1>2, <1>3, <1>4, <1>5, <1>6, <1>7

\* Taking a row keeps the types.
LEMMA BeginTypes ==
  ASSUME DeliveryTypes, NEW s \in Senders, NEW n \in Emails, NEW task \in Tasks \union {NoTask},
         Begin(s, n, task), UNCHANGED queue \/ \E t : queue' = queue (-) SetToBag({t}),
         byHand' \subseteq Emails
  PROVE  DeliveryTypes'
<1>1. row' \in [Emails -> Row]
  BY UpdatedRow, NotificationBounds DEF Begin, Processing, Statuses, DeliveryTypes, NotificationTypeOK, Row
<1>2. sender' \in [Senders -> SenderStates \union {IdleSender}]
  <2>1. Cardinality(attempts[n]) \in Nat
    BY FS_CardinalityType DEF DeliveryTypes
  <2>2. row[n].retries \in Nat
    BY DEF DeliveryTypes, NotificationTypeOK, Row
  <2>3. [pc |-> "calling", on |-> n, task |-> task, result |-> "unknown",
         number |-> Cardinality(attempts[n]) + 1, retries |-> row[n].retries] \in SenderStates
    BY <2>1, <2>2 DEF SenderStates
  <2> QED BY <2>3 DEF Begin, DeliveryTypes
<1>3. IsABag(queue') /\ BagToSet(queue') \subseteq Tasks
  <2>1. CASE UNCHANGED queue
    BY <2>1 DEF DeliveryTypes, NotificationTypeOK
  <2>2. ASSUME NEW t, queue' = queue (-) SetToBag({t})
        PROVE  IsABag(queue') /\ BagToSet(queue') \subseteq Tasks
    BY <2>2, RemovedTask
  <2> QED BY <2>1, <2>2
<1>4. UNCHANGED <<attempts, unqueued, accepted, unheard, asked, faults>>
  BY DEF Begin
<1> QED BY <1>1, <1>2, <1>3, <1>4, TypesSuffice DEF DeliveryTypes, NotificationTypeOK

\* A task given back to the queue leaves it one.
LEMMA ReturnedTypes ==
  ASSUME DeliveryTypes, NEW s \in Senders, sender[s] # IdleSender, queue' = Returned(s)
  PROVE  IsABag(queue') /\ BagToSet(queue') \subseteq Tasks
<1>1. sender[s].task \in Tasks \union {NoTask}
  BY SenderType DEF SenderStates
<1>2. CASE sender[s].task = NoTask
  BY <1>2 DEF Returned, DeliveryTypes, NotificationTypeOK
<1>3. CASE sender[s].task # NoTask
  BY <1>1, <1>3, AddedTask DEF Returned
<1> QED BY <1>2, <1>3

\* Every step of a sender keeps the types.
LEMMA SenderTypes ==
  ASSUME DeliveryTypes, NEW s \in Senders, SendNotification(s)
  PROVE  DeliveryTypes'
<1> USE NotificationBounds
<1>0. /\ row \in [Emails -> Row] /\ attempts \in [Emails -> SUBSET Attempt]
      /\ unqueued \in [Emails -> Nat] /\ IsABag(queue) /\ BagToSet(queue) \subseteq Tasks
      /\ sender \in [Senders -> SenderStates \union {IdleSender}]
      /\ accepted \in [Emails -> Nat] /\ unheard \in [Emails -> Nat] /\ byHand \subseteq Emails
      /\ asked \in 0 .. MaxAsked /\ faults \in 0 .. MaxFaults
      /\ \A n \in Emails : IsFiniteSet(attempts[n])
  BY DEF DeliveryTypes, NotificationTypeOK
<1>1. ASSUME NEW t \in BagToSet(queue), TakeTask(s, t)
      PROVE  DeliveryTypes'
  <2>1. t \in Tasks /\ t.on \in Emails
    BY <1>0 DEF Tasks
  <2> QED BY <1>0, <1>1, <2>1, BeginTypes DEF TakeTask
<1>2. ASSUME NEW n \in Emails, SendNow(s, n)
      PROVE  DeliveryTypes'
  <2>1. byHand' \subseteq Emails
    BY <1>0, <1>2 DEF SendNow
  <2> QED BY <1>2, <2>1, BeginTypes DEF SendNow
<1>3. CASE ProviderAnswers(s)
  <2>1. sender[s] \in SenderStates /\ sender[s].on \in Emails
    BY <1>3, SenderType DEF ProviderAnswers, SenderStates
  <2>2. PICK e \in Endings, verdict \in {"sent", "retryable", "permanent"} :
           /\ sender' = [sender EXCEPT ![s].pc = "answered", ![s].result = verdict]
           /\ accepted' = [accepted EXCEPT ![sender[s].on] = @ + IF Taken(e) THEN 1 ELSE 0]
           /\ unheard' = [unheard EXCEPT ![sender[s].on] =
                @ + IF Taken(e) /\ verdict # "sent" THEN 1 ELSE 0]
    BY <1>3 DEF ProviderAnswers
  <2>3. accepted' \in [Emails -> Nat] /\ unheard' \in [Emails -> Nat]
    BY <1>0, <2>1, <2>2
  <2>4. sender' \in [Senders -> SenderStates \union {IdleSender}]
    <3>1. [sender[s] EXCEPT !.pc = "answered", !.result = verdict] \in SenderStates
      BY <2>1 DEF SenderStates
    <3>2. sender' = [sender EXCEPT ![s] = [sender[s] EXCEPT !.pc = "answered", !.result = verdict]]
      BY <1>0, <2>2
    <3> QED BY <1>0, <3>1, <3>2
  <2>5. UNCHANGED <<row, attempts, unqueued, queue, byHand, asked, faults>>
    BY <1>3 DEF ProviderAnswers
  <2> QED BY <1>0, <2>3, <2>4, <2>5, TypesSuffice
<1>4. CASE RecordAttempt(s)
  <2>1. sender[s] \in SenderStates /\ sender[s].on \in Emails /\ sender[s].retries \in Nat
    BY <1>4, SenderType DEF RecordAttempt, SenderStates
  <2> DEFINE n == sender[s].on
             new == [no |-> sender[s].number, status |-> ResultingStatus(s)]
  <2>2. ResultingStatus(s) \in {"SENT", "RETRYING", "FAILED"} /\ ResultingRetries(s) \in Nat
    BY <2>1 DEF ResultingStatus, ResultingRetries
  <2>3. row' \in [Emails -> Row]
    <3>1. ResultingStatus(s) \in Statuses
      BY <2>2 DEF Statuses
    <3> QED BY <1>4, <2>1, <2>2, <3>1, UpdatedRow DEF RecordAttempt
  <2>4. /\ attempts' = [attempts EXCEPT ![n] = @ \union {new}]
        /\ sender' = [sender EXCEPT ![s].pc = "recorded"]
        /\ UNCHANGED <<unqueued, queue, accepted, unheard, byHand, asked, faults>>
    BY <1>4 DEF RecordAttempt
  <2>5. new \in Attempt
    <3>1. sender[s].number \in Nat \ {0}
      BY <2>1 DEF SenderStates
    <3> QED BY <2>2, <3>1 DEF Attempt
  <2>6. attempts' \in [Emails -> SUBSET Attempt] /\ \A m \in Emails : IsFiniteSet(attempts'[m])
    <3>1. \A m \in Emails : attempts'[m] = IF m = n THEN attempts[m] \union {new} ELSE attempts[m]
      BY <1>0, <2>4
    <3>2. \A m \in Emails : IsFiniteSet(attempts'[m])
      <4> HIDE DEF n, new
      <4>1. \A m \in Emails : IsFiniteSet(attempts[m] \union {new})
        BY <1>0, FS_AddElement
      <4> QED BY <1>0, <3>1, <4>1
    <3>3. n \in Emails /\ attempts[n] \union {new} \in SUBSET Attempt
      BY <1>0, <2>1, <2>5
    <3>4. attempts' = [attempts EXCEPT ![n] = attempts[n] \union {new}]
      BY <2>4
    <3> HIDE DEF n, new
    <3> QED BY <1>0, <3>2, <3>3, <3>4
  <2>7. sender' \in [Senders -> SenderStates \union {IdleSender}]
    <3>1. [sender[s] EXCEPT !.pc = "recorded"] \in SenderStates
      BY <2>1 DEF SenderStates
    <3> QED BY <1>0, <2>4, <3>1
  <2> QED BY <1>0, <2>3, <2>4, <2>6, <2>7, TypesSuffice
<1>5. CASE RecordFails(s)
  <2>1. sender' \in [Senders -> SenderStates \union {IdleSender}] /\ faults' \in 0 .. MaxFaults
    BY <1>0, <1>5 DEF RecordFails
  <2> QED BY <1>0, <1>5, <2>1, TypesSuffice DEF RecordFails
<1>6. CASE TaskEnds(s)
  <2>1. sender' \in [Senders -> SenderStates \union {IdleSender}]
    BY <1>0, <1>6 DEF TaskEnds
  <2>2. IsABag(queue') /\ BagToSet(queue') \subseteq Tasks
    <3>1. CASE TriesAgain(s)
      <4>1. sender[s].task \in Tasks /\ sender[s].task.tries < CeleryRetries
        BY <1>6, <3>1, SenderType DEF TaskEnds, TriesAgain, SenderStates
      <4>2. [sender[s].task EXCEPT !.tries = @ + 1] \in Tasks
        BY <4>1 DEF Tasks
      <4> QED BY <1>6, <3>1, <4>2, AddedTask DEF TaskEnds
    <3>2. CASE ~TriesAgain(s)
      BY <1>0, <1>6, <3>2 DEF TaskEnds
    <3> QED BY <3>1, <3>2
  <2> QED BY <1>0, <1>6, <2>1, <2>2, TypesSuffice DEF TaskEnds
<1>7. CASE SenderStops(s)
  <2>1. sender' \in [Senders -> SenderStates \union {IdleSender}] /\ faults' \in 0 .. MaxFaults
    BY <1>0, <1>7 DEF SenderStops
  <2>2. IsABag(queue') /\ BagToSet(queue') \subseteq Tasks
    BY <1>7, ReturnedTypes DEF SenderStops
  <2> QED BY <1>0, <1>7, <2>1, <2>2, TypesSuffice DEF SenderStops
<1>8. CASE TimeLimit(s)
  <2>1. sender[s].on \in Emails
    BY <1>8, SenderType DEF TimeLimit, SenderStates
  <2>2. /\ sender' \in [Senders -> SenderStates \union {IdleSender}]
        /\ accepted' \in [Emails -> Nat] /\ unheard' \in [Emails -> Nat]
        /\ faults' \in 0 .. MaxFaults
    BY <1>0, <1>8, <2>1 DEF TimeLimit
  <2> QED BY <1>0, <1>8, <2>2, TypesSuffice DEF TimeLimit
<1>9. CASE DeliveredTwice(s)
  <2>1. faults' \in 0 .. MaxFaults
    BY <1>0, <1>9 DEF DeliveredTwice
  <2>2. IsABag(queue') /\ BagToSet(queue') \subseteq Tasks
    BY <1>9, ReturnedTypes DEF DeliveredTwice
  <2> QED BY <1>0, <1>9, <2>1, <2>2, TypesSuffice DEF DeliveredTwice
<1> QED BY <1>1, <1>2, <1>3, <1>4, <1>5, <1>6, <1>7, <1>8, <1>9 DEF SendNotification

\* Every step keeps the types.
LEMMA NextTypes ==
  ASSUME DeliveryTypes, [NotificationsNext]_notificationVars
  PROVE  DeliveryTypes'
<1>1. ASSUME NEW t \in BagToSet(queue), RefuseTask(t)
      PROVE  DeliveryTypes'
  <2>1. IsABag(queue') /\ BagToSet(queue') \subseteq Tasks
    BY <1>1, RemovedTask DEF RefuseTask
  <2> QED BY <1>1, <2>1 DEF RefuseTask, DeliveryTypes, NotificationTypeOK
<1>2. CASE UNCHANGED notificationVars
  BY <1>2 DEF notificationVars, DeliveryTypes, NotificationTypeOK
<1> QED BY <1>1, <1>2, RequestTypes, SenderTypes DEF NotificationsNext

\* The initial state is well typed.
LEMMA InitTypes == NotificationsInit => DeliveryTypes
<1> SUFFICES ASSUME NotificationsInit PROVE DeliveryTypes
  OBVIOUS
<1>1. IsABag(queue) /\ BagToSet(queue) \subseteq Tasks
  BY DEF NotificationsInit, EmptyBag, SetToBag, IsABag, BagToSet
<1>2. row \in [Emails -> Row]
  BY DEF NotificationsInit, Row
<1>3. \A n \in Emails : attempts[n] = {} /\ IsFiniteSet(attempts[n])
  BY FS_EmptySet DEF NotificationsInit
<1>4. asked \in 0 .. MaxAsked /\ faults \in 0 .. MaxFaults
  BY NotificationBounds DEF NotificationsInit
<1>5. sender \in [Senders -> SenderStates \union {IdleSender}]
  BY DEF NotificationsInit
<1>6. /\ attempts \in [Emails -> SUBSET Attempt] /\ unqueued \in [Emails -> Nat]
      /\ accepted \in [Emails -> Nat] /\ unheard \in [Emails -> Nat] /\ byHand \subseteq Emails
  BY DEF NotificationsInit
<1>7. \A s \in Senders : sender[s] = IdleSender
  BY DEF NotificationsInit
<1> QED
  BY <1>1, <1>2, <1>3, <1>4, <1>5, <1>6, <1>7 DEF DeliveryTypes, NotificationTypeOK

-----------------------------------------------------------------------------
(***************************************************************************)
(* The requests and the tasks: a row nobody is sending.                    *)
(***************************************************************************)

\* The counters of a row are numbers.
LEMMA RowNumbers ==
  ASSUME DeliveryTypes, NEW n \in Emails
  PROVE  /\ row[n].retries \in Nat /\ row[n].budget \in Nat
         /\ accepted[n] \in Nat /\ unheard[n] \in Nat
         /\ faults \in Nat
         /\ IsFiniteSet(attempts[n]) /\ Cardinality(attempts[n]) \in Nat
         /\ IsFiniteSet(Failures(n)) /\ Cardinality(Failures(n)) \in Nat
<1>1. IsFiniteSet(attempts[n]) /\ Failures(n) \in SUBSET attempts[n]
  BY DEF DeliveryTypes, Failures
<1>2. IsFiniteSet(Failures(n))
  BY <1>1, FS_Subset
<1> QED
  BY <1>1, <1>2, FS_CardinalityType, NotificationBounds DEF DeliveryTypes, NotificationTypeOK, Row

\* What a step leaves of a row it is not about: nobody starts to send it, and
\* whoever is sending it knows what it knew.
RowAlone(n) ==
  /\ row'[n].status = row[n].status /\ row'[n].retries = row[n].retries
  /\ row'[n].budget = row[n].budget
  /\ attempts'[n] = attempts[n]
  /\ accepted'[n] = accepted[n] /\ unheard'[n] = unheard[n]
  /\ n \in byHand => n \in byHand'
  /\ \A s \in Senders : Sending(s, n)' => Sending(s, n) /\ sender'[s] = sender[s]

\* A row that is left alone stays right.
LEMMA LeftAlone ==
  ASSUME NEW n \in Emails, RowOK(n), RowAlone(n)
  PROVE  RowOK(n)'
<1>1. Failures(n)' = Failures(n)
  BY DEF RowAlone, Failures
<1>2. Owned(n)'
  BY DEF RowOK, Owned, RowAlone
<1>3. Explained(n)'
  BY <1>1 DEF RowOK, Explained, RowAlone
<1>4. Budgeted(n)'
  BY DEF RowOK, Budgeted, RowAlone
<1>5. Heard(n)'
  BY DEF RowOK, Heard, RowAlone
<1> QED BY <1>2, <1>3, <1>4, <1>5 DEF RowOK

\* What waits, failed or is new is being sent by nobody.
LEMMA NobodySends ==
  ASSUME NEW n \in Emails, RowOK(n), row[n].status # "PROCESSING"
  PROVE  \A s \in Senders : ~Sending(s, n)
BY DEF RowOK, Owned

\* A request about a row that is not being sent, nor sent, which leaves it
\* waiting or cancelled, leaves it right if its budget is.
LEMMA RowRequested ==
  ASSUME DeliveryTypes, DeliveryTypes', NEW n \in Emails, RowOK(n),
         row[n].status \notin {"PROCESSING", "SENT"},
         row'[n].status \in {"PENDING", "RETRYING", "CANCELLED"},
         row'[n].retries <= row[n].retries,
         n \notin byHand' => n \notin byHand /\ row'[n].retries = row[n].retries,
         UNCHANGED <<attempts, sender, accepted, unheard>>,
         Budgeted(n)'
  PROVE  RowOK(n)'
<1>1. Failures(n)' = Failures(n)
  BY DEF Failures
<1>2. \A s \in Senders : ~Sending(s, n)'
  BY NobodySends DEF Sending
<1>3. Owned(n)'
  BY <1>2 DEF Owned
<1>4. row'[n].retries \in Nat
  BY DEF DeliveryTypes, NotificationTypeOK, Row
<1>5. Explained(n)'
  BY <1>1, <1>4, RowNumbers DEF RowOK, Explained
<1>6. Heard(n)'
  BY <1>2, RowNumbers DEF RowOK, Heard
<1> QED BY <1>3, <1>5, <1>6 DEF RowOK

\* The requests and the clock keep every row right.
LEMMA RequestKeepsRows ==
  ASSUME DeliveryTypes, DeliveryTypes', \A m \in Emails : RowOK(m), NEW n \in Emails,
         \/ QueueEmail(n) \/ ApplyAsync(n) \/ RequestStops(n) \/ TimeComes(n)
         \/ RetryFailedNotification(n) \/ CancelNotification(n)
  PROVE  \A m \in Emails : RowOK(m)'
<1>0. row \in [Emails -> Row] /\ faults \in Nat
  BY NotificationBounds DEF DeliveryTypes, NotificationTypeOK
<1>1. ASSUME NEW b \in Nat, NEW x \in BOOLEAN, Create(n, b, x), NEW m \in Emails
      PROVE  RowOK(m)'
  <2>1. /\ row[n].status = "none"
        /\ row'[n] = [status |-> "PENDING", retries |-> 0, budget |-> b, due |-> ~x]
        /\ m # n => row'[m] = row[m]
        /\ UNCHANGED <<attempts, queue, sender, accepted, unheard, byHand, asked, faults>>
    BY <1>0, <1>1 DEF Create
  <2>2. CASE m = n
    <3>1. Failures(n) = {}
      BY <2>1 DEF RowOK, Explained, Failures
    <3>2. row[n].retries = 0
      BY <2>1, <3>1, FS_EmptySet, RowNumbers DEF RowOK, Explained
    <3>3. Budgeted(n)'
      BY <2>1 DEF Budgeted
    <3> QED BY <2>1, <2>2, <3>2, <3>3, RowRequested
  <2>3. CASE m # n
    BY <2>1, <2>3, LeftAlone DEF RowAlone, Sending
  <2> QED BY <2>2, <2>3
<1>2. CASE QueueEmail(n)
  <2>1. PICK b \in Nat, x \in BOOLEAN : Create(n, b, x)
    BY <1>2, BudgetsAssumption
    DEF QueueEmail, QueueVerificationEmail, CreateVerificationEmail, QueuePasswordResetEmail,
        CreatePasswordResetEmail, QueuePasswordChangedEmail, CreatePasswordChangedEmail,
        CreateFromRenderedTemplate, QueueTemplatedEmail, CreateTemplatedNotification,
        QueueDirectEmail, CreateDirectNotification, TemplatedEmailRequest, DirectEmailRequest,
        MaxRetryCount
  <2> QED BY <1>1, <2>1
<1>3. CASE ApplyAsync(n)
  BY <1>3, LeftAlone DEF ApplyAsync, RowAlone, Sending
<1>4. CASE RequestStops(n)
  BY <1>0, <1>4, LeftAlone DEF RequestStops, RowAlone, Sending
<1>5. ASSUME TimeComes(n), NEW m \in Emails
      PROVE  RowOK(m)'
  <2>1. row'[m] = IF m = n THEN [row[n] EXCEPT !.due = TRUE] ELSE row[m]
    BY <1>0, <1>5 DEF TimeComes
  <2>2. /\ row'[m].status = row[m].status /\ row'[m].retries = row[m].retries
        /\ row'[m].budget = row[m].budget
    BY <1>0, <2>1 DEF Row
  <2> QED BY <1>5, <2>2, LeftAlone DEF TimeComes, RowAlone, Sending
<1>6. ASSUME RetryFailedNotification(n), NEW m \in Emails
      PROVE  RowOK(m)'
  <2>1. PICK reset \in BOOLEAN :
          /\ RetryNotification(n, reset)
          /\ byHand' = IF reset THEN byHand \union {n} ELSE byHand
    BY <1>6 DEF RetryFailedNotification
  <2>2. /\ row'[n].status = "RETRYING" /\ row'[n].budget = row[n].budget
        /\ row'[n].retries = IF reset THEN 0 ELSE row[n].retries
        /\ m # n => row'[m] = row[m]
    BY <1>0, <2>1 DEF RetryNotification, Row
  <2>3. UNCHANGED <<attempts, sender, accepted, unheard, faults>>
    BY <1>6 DEF RetryFailedNotification
  <2>4. CASE m = n
    <3>1. row[n].status \in {"FAILED", "RETRYING"} /\ (reset \/ row[n].retries < row[n].budget)
      BY <2>1 DEF RetryNotification
    <3>2. Budgeted(n)'
      BY <2>2, <3>1, RowNumbers DEF RowOK, Budgeted
    <3>3. row'[n].retries <= row[n].retries
      BY <2>2, RowNumbers
    <3> QED BY <2>1, <2>2, <2>3, <2>4, <3>1, <3>2, <3>3, RowRequested
  <2>5. CASE m # n
    BY <2>1, <2>2, <2>3, <2>5, LeftAlone DEF RowAlone, Sending
  <2> QED BY <2>4, <2>5
<1>7. ASSUME CancelNotification(n), NEW m \in Emails
      PROVE  RowOK(m)'
  <2>1. /\ row'[n].status = "CANCELLED" /\ row'[n].retries = row[n].retries
        /\ m # n => row'[m] = row[m]
        /\ row[n].status \in {"PENDING", "FAILED", "RETRYING"}
        /\ UNCHANGED <<attempts, sender, accepted, unheard, byHand, faults>>
    BY <1>0, <1>7 DEF CancelNotification, Cancellable, Row
  <2>2. CASE m = n
    <3>1. Budgeted(n)' /\ row'[n].retries <= row[n].retries
      BY <2>1, RowNumbers DEF Budgeted
    <3> QED BY <2>1, <2>2, <3>1, RowRequested
  <2>3. CASE m # n
    BY <2>1, <2>3, LeftAlone DEF RowAlone, Sending
  <2> QED BY <2>2, <2>3
<1> QED BY <1>2, <1>3, <1>4, <1>5, <1>6, <1>7

-----------------------------------------------------------------------------
(***************************************************************************)
(* The senders.                                                            *)
(***************************************************************************)

\* Another row than the one that a sender works at is left alone.
LEMMA OtherRow ==
  ASSUME DeliveryTypes, NEW s \in Senders, NEW n \in Emails, NEW m \in Emails, m # n,
         sender[s] # IdleSender => sender[s].on = n,
         sender'[s] # IdleSender => sender'[s].on = n,
         \A x \in Senders : x # s => sender'[x] = sender[x],
         row'[m].status = row[m].status, row'[m].retries = row[m].retries,
         row'[m].budget = row[m].budget,
         attempts'[m] = attempts[m], accepted'[m] = accepted[m], unheard'[m] = unheard[m],
         m \in byHand => m \in byHand', RowOK(m)
  PROVE  RowOK(m)'
<1>1. ~Sending(s, m) /\ ~Sending(s, m)'
  BY DEF Sending
<1>2. \A x \in Senders : Sending(x, m)' <=> Sending(x, m)
  BY <1>1 DEF Sending
<1>3. \A x \in Senders : Sending(x, m)' => sender'[x] = sender[x]
  BY <1>1
<1>4. RowAlone(m)
  BY <1>2, <1>3 DEF RowAlone
<1> QED BY <1>4, LeftAlone

\* The attempts of a row nobody has sent are its failures.
LEMMA UnsentFailed ==
  ASSUME NEW n \in Emails, RowOK(n), row[n].status # "SENT"
  PROVE  attempts[n] = Failures(n)
BY DEF RowOK, Explained, Failures

\* A sender takes a row that nobody sends, and reads what it says.
LEMMA BeginKeepsRows ==
  ASSUME DeliveryTypes, DeliveryTypes', \A m \in Emails : RowOK(m),
         NEW s \in Senders, NEW n \in Emails, NEW task, Begin(s, n, task),
         \A m \in Emails : m \in byHand => m \in byHand', NEW m \in Emails
  PROVE  RowOK(m)'
<1>0. row \in [Emails -> Row] /\ sender \in [Senders -> SenderStates \union {IdleSender}]
  BY DEF DeliveryTypes, NotificationTypeOK
<1>1. /\ row'[n].status = "PROCESSING" /\ row'[n].retries = row[n].retries
      /\ row'[n].budget = row[n].budget
      /\ m # n => row'[m] = row[m]
      /\ UNCHANGED <<attempts, accepted, unheard, faults>>
  BY <1>0 DEF Begin, Processing, Row
<1>2. /\ sender'[s] = [pc |-> "calling", on |-> n, task |-> task, result |-> "unknown",
                       number |-> Cardinality(attempts[n]) + 1, retries |-> row[n].retries]
      /\ \A x \in Senders : x # s => sender'[x] = sender[x]
      /\ sender[s] = IdleSender
  BY <1>0 DEF Begin
<1>3. CASE m = n
  <2>1. /\ row[n].status \in {"PENDING", "RETRYING", "FAILED"}
        /\ row[n].status = "FAILED" => row[n].retries < row[n].budget
    BY DEF Begin, ValidDeliveryState
  <2>2. sender'[s] # IdleSender
    BY <1>2 DEF IdleSender
  <2>3. \A x \in Senders : Sending(x, n)' <=> x = s
    BY <1>2, <2>1, <2>2, NobodySends DEF Sending
  <2>4. Owned(n)'
    <3>1. /\ row'[n].retries = sender'[s].retries
          /\ sender'[s].number = Cardinality(attempts'[n]) + 1
      BY <1>1, <1>2
    <3> QED BY <1>1, <2>3, <3>1 DEF Owned
  <2>5. Explained(n)'
    <3>1. Failures(n)' = Failures(n)
      BY <1>1 DEF Failures
    <3> QED BY <1>1, <1>3, <2>1, <3>1 DEF RowOK, Explained
  <2>6. Budgeted(n)'
    BY <1>1, <2>1 DEF RowOK, Budgeted
  <2>7. Heard(n)'
    <3>1. accepted'[n] <= unheard'[n] + 1 /\ accepted'[n] <= unheard'[n]
      BY <1>1, <2>1 DEF RowOK, Heard
    <3>2. sender'[s].result = "unknown"
      BY <1>2
    <3> QED BY <1>1, <2>3, <3>1, <3>2 DEF Heard
  <2> QED BY <1>3, <2>4, <2>5, <2>6, <2>7 DEF RowOK
<1>4. CASE m # n
  <2>1. sender'[s].on = n
    BY <1>2
  <2> QED BY <1>1, <1>2, <1>4, <2>1, OtherRow
<1> QED BY <1>3, <1>4

\* The provider's answer: the row has the sender as before, which now knows
\* whether the message was taken.
LEMMA AnswerKeepsRows ==
  ASSUME DeliveryTypes, DeliveryTypes', \A m \in Emails : RowOK(m),
         NEW s \in Senders, ProviderAnswers(s), NEW m \in Emails
  PROVE  RowOK(m)'
<1>0. PICK n \in Emails :
        sender[s] \in SenderStates /\ sender[s] # IdleSender /\ sender[s].on = n
  BY SenderType DEF ProviderAnswers, SenderStates
<1>1. PICK e \in Endings, verdict \in {"sent", "retryable", "permanent"} :
         /\ verdict \in {Verdict(e), "permanent"}
         /\ sender' = [sender EXCEPT ![s].pc = "answered", ![s].result = verdict]
         /\ accepted' = [accepted EXCEPT ![n] = @ + IF Taken(e) THEN 1 ELSE 0]
         /\ unheard' = [unheard EXCEPT ![n] = @ + IF Taken(e) /\ verdict # "sent" THEN 1 ELSE 0]
  BY <1>0 DEF ProviderAnswers
<1>2. /\ sender'[s] = [sender[s] EXCEPT !.pc = "answered", !.result = verdict]
      /\ \A x \in Senders : x # s => sender'[x] = sender[x]
  BY <1>1 DEF DeliveryTypes
<1>3. /\ sender'[s].pc = "answered" /\ sender'[s].result = verdict /\ sender'[s].on = n
      /\ sender'[s].number = sender[s].number /\ sender'[s].retries = sender[s].retries
      /\ sender'[s] # IdleSender
  BY <1>0, <1>2 DEF SenderStates, IdleSender
<1>4. /\ m # n => accepted'[m] = accepted[m] /\ unheard'[m] = unheard[m]
      /\ accepted'[n] = accepted[n] + IF Taken(e) THEN 1 ELSE 0
      /\ unheard'[n] = unheard[n] + IF Taken(e) /\ verdict # "sent" THEN 1 ELSE 0
  BY <1>0, <1>1 DEF DeliveryTypes, NotificationTypeOK
<1>5. UNCHANGED <<row, attempts, unqueued, queue, byHand, asked, faults>>
  BY DEF ProviderAnswers
<1>6. Sending(s, n) /\ sender[s].pc = "calling"
  BY <1>0 DEF ProviderAnswers, Sending
<1>7. CASE m = n
  <2>1. \A x \in Senders : Sending(x, n)' <=> x = s
    <3>1. \A x \in Senders : Sending(x, n) => x = s
      BY <1>0, <1>6 DEF RowOK, Owned
    <3> QED BY <1>2, <1>3, <3>1 DEF Sending
  <2>2. Owned(n)'
    <3>1. /\ row'[n].status = "PROCESSING" /\ row'[n].retries = sender'[s].retries
          /\ sender'[s].number = Cardinality(attempts'[n]) + 1
      BY <1>0, <1>3, <1>5, <1>6 DEF RowOK, Owned
    <3> QED BY <2>1, <3>1 DEF Owned
  <2>3. Explained(n)'
    <3>1. Failures(n)' = Failures(n)
      BY <1>5 DEF Failures
    <3> QED BY <1>5, <1>7, <3>1 DEF RowOK, Explained
  <2>4. Budgeted(n)'
    BY <1>5, <1>7 DEF RowOK, Budgeted
  <2>5. Heard(n)'
    <3>1. accepted[n] <= unheard[n] /\ row[n].status = "PROCESSING"
      BY <1>0, <1>6 DEF RowOK, Heard, Owned
    <3>2. /\ accepted'[n] <= unheard'[n] + 1
          /\ verdict # "sent" => accepted'[n] <= unheard'[n]
      BY <1>0, <1>4, <3>1, RowNumbers
    <3> QED BY <1>3, <1>5, <2>1, <3>1, <3>2 DEF Heard
  <2> QED BY <1>7, <2>2, <2>3, <2>4, <2>5 DEF RowOK
<1>8. CASE m # n
  BY <1>0, <1>2, <1>3, <1>4, <1>5, <1>8, OtherRow
<1> QED BY <1>7, <1>8

\* A sender that is done with a row, or stops, leaves the row right.
LEMMA LeaveKeepsRows ==
  ASSUME DeliveryTypes, \A m \in Emails : RowOK(m),
         NEW s \in Senders, sender[s] # IdleSender,
         sender' = [sender EXCEPT ![s] = IdleSender],
         UNCHANGED <<row, attempts, accepted, unheard, byHand>>, NEW m \in Emails
  PROVE  RowOK(m)'
<1>1. sender'[s] = IdleSender /\ \A x \in Senders : x # s => sender'[x] = sender[x]
  BY DEF DeliveryTypes
<1>2. \A x \in Senders : Sending(x, m)' => Sending(x, m) /\ sender'[x] = sender[x]
  BY <1>1 DEF Sending
<1> QED BY <1>2, LeftAlone DEF RowAlone

\* A sender cut off by its time limit leaves the row in PROCESSING, whether the
\* message is taken without it or not.
LEMMA LimitKeepsRows ==
  ASSUME DeliveryTypes, DeliveryTypes', \A m \in Emails : RowOK(m),
         NEW s \in Senders, TimeLimit(s), NEW m \in Emails
  PROVE  RowOK(m)'
<1>0. PICK n \in Emails :
        sender[s] \in SenderStates /\ sender[s] # IdleSender /\ sender[s].on = n
  BY SenderType DEF TimeLimit, SenderStates
<1>1. /\ sender' = [sender EXCEPT ![s] = IdleSender]
      /\ UNCHANGED <<row, attempts, byHand>>
  BY DEF TimeLimit
<1>2. CASE UNCHANGED <<accepted, unheard>>
  BY <1>0, <1>1, <1>2, LeaveKeepsRows
<1>3. CASE /\ sender[s].pc = "calling"
           /\ accepted' = [accepted EXCEPT ![n] = @ + 1]
           /\ unheard' = [unheard EXCEPT ![n] = @ + 1]
  <2>1. sender'[s] = IdleSender /\ \A x \in Senders : x # s => sender'[x] = sender[x]
    BY <1>1 DEF DeliveryTypes
  <2>2. /\ accepted'[n] = accepted[n] + 1 /\ unheard'[n] = unheard[n] + 1
        /\ m # n => accepted'[m] = accepted[m] /\ unheard'[m] = unheard[m]
    BY <1>3 DEF DeliveryTypes, NotificationTypeOK
  <2>3. CASE m = n
    <3>1. Sending(s, n)
      BY <1>0, <1>3 DEF Sending
    <3>2. row[n].status = "PROCESSING" /\ \A x \in Senders : Sending(x, n) => x = s
      BY <3>1 DEF RowOK, Owned
    <3>3. \A x \in Senders : ~Sending(x, n)'
      BY <2>1, <3>2 DEF Sending
    <3>4. Failures(n)' = Failures(n)
      BY <1>1 DEF Failures
    <3>5. Explained(n)' /\ Budgeted(n)'
      BY <1>1, <2>3, <3>4 DEF RowOK, Explained, Budgeted
    <3>6. Heard(n)'
      BY <1>1, <2>2, <2>3, <3>2, <3>3, RowNumbers DEF RowOK, Heard
    <3> QED BY <2>3, <3>3, <3>5, <3>6 DEF RowOK, Owned
  <2>4. CASE m # n
    BY <1>0, <1>1, <2>1, <2>2, <2>4, OtherRow
  <2> QED BY <2>3, <2>4
<1> QED BY <1>0, <1>2, <1>3 DEF TimeLimit

\* What the sender learned goes into the row it took, as an attempt of its own.
LEMMA RecordKeepsRows ==
  ASSUME DeliveryTypes, DeliveryTypes', \A m \in Emails : RowOK(m),
         NEW s \in Senders, RecordAttempt(s), NEW m \in Emails
  PROVE  RowOK(m)'
<1>0. PICK n \in Emails :
        sender[s] \in SenderStates /\ sender[s] # IdleSender /\ sender[s].on = n
  BY SenderType DEF RecordAttempt, SenderStates
<1>1. /\ sender'[s] = [sender[s] EXCEPT !.pc = "recorded"]
      /\ \A x \in Senders : x # s => sender'[x] = sender[x]
      /\ UNCHANGED <<unqueued, queue, accepted, unheard, byHand, asked, faults>>
  BY DEF RecordAttempt, DeliveryTypes
<1>2. sender'[s].pc = "recorded" /\ sender'[s].on = n
  BY <1>0, <1>1 DEF SenderStates
<1>3. PICK status \in {"SENT", "RETRYING", "FAILED"}, k \in Nat :
         status = ResultingStatus(s) /\ k = ResultingRetries(s)
  BY <1>0 DEF ResultingStatus, ResultingRetries, SenderStates
<1>4. PICK new : new = [no |-> sender[s].number, status |-> status]
  OBVIOUS
<1>5. /\ row' = [row EXCEPT ![n].status = status, ![n].retries = k]
      /\ attempts' = [attempts EXCEPT ![n] = @ \union {new}]
  BY <1>0, <1>3, <1>4 DEF RecordAttempt
<1>6. /\ row'[n].status = status /\ row'[n].retries = k /\ row'[n].budget = row[n].budget
      /\ m # n => row'[m] = row[m]
  BY <1>5 DEF DeliveryTypes, NotificationTypeOK, Row
<1>7. /\ attempts'[n] = attempts[n] \union {new}
      /\ m # n => attempts'[m] = attempts[m]
  BY <1>5 DEF DeliveryTypes, NotificationTypeOK
<1>8. CASE m = n
  <2>1. Sending(s, n) /\ sender[s].pc = "answered"
    BY <1>0 DEF RecordAttempt, Sending
  <2>2. /\ row[n].status = "PROCESSING" /\ row[n].retries = sender[s].retries
        /\ sender[s].number = Cardinality(attempts[n]) + 1
        /\ \A x \in Senders : Sending(x, n) => x = s
    BY <1>8, <2>1 DEF RowOK, Owned
  <2>3. /\ k = row[n].retries + (IF sender[s].result = "sent" THEN 0 ELSE 1)
        /\ k <= row[n].budget
        /\ status = "SENT" <=> sender[s].result = "sent"
        /\ status = "RETRYING" => k < row[n].budget
    BY <1>0, <1>3, <2>2
    DEF RecordAttempt, DatabaseAccepts, WithinLimit, ResultingStatus, ResultingRetries, CanRetry
  <2>4. \A x \in Senders : ~Sending(x, n)'
    <3>1. ~Sending(s, n)'
      BY <1>2 DEF Sending
    <3> QED BY <1>1, <2>2, <3>1 DEF Sending
  <2>5. Owned(n)'
    BY <1>6, <2>4 DEF Owned
  <2>6. attempts[n] = Failures(n)
    BY <1>8, <2>2, UnsentFailed
  <2>7. /\ new \notin attempts[n]
        /\ Cardinality(attempts'[n]) = Cardinality(attempts[n]) + 1
    <3>1. {a.no : a \in attempts[n]} = 1 .. Cardinality(attempts[n])
      BY <1>8 DEF RowOK, Explained
    <3>2. new.no = Cardinality(attempts[n]) + 1
      BY <1>4, <2>2
    <3>3. new \notin attempts[n]
      BY <3>1, <3>2, RowNumbers
    <3> QED BY <1>7, <3>3, FS_AddElement, RowNumbers
  <2>8. Failures(n)' = IF status = "SENT" THEN Failures(n) ELSE attempts'[n]
    <3>1. new.status = status
      BY <1>4
    <3> QED BY <1>7, <2>6, <3>1 DEF Failures
  <2>9. Explained(n)'
    <3>1. {a.no : a \in attempts'[n]} = 1 .. Cardinality(attempts'[n])
      <4>1. new.no = Cardinality(attempts[n]) + 1
        BY <1>4, <2>2
      <4>2. {a.no : a \in attempts'[n]} = {a.no : a \in attempts[n]} \union {new.no}
        BY <1>7
      <4>3. {a.no : a \in attempts[n]} = 1 .. Cardinality(attempts[n])
        BY <1>8 DEF RowOK, Explained
      <4> QED BY <2>7, <4>1, <4>2, <4>3, RowNumbers
    <3>2. status = "SENT" <=> \E a \in attempts'[n] : a.status = "SENT"
      <4>1. new.status = status /\ \A a \in attempts[n] : a.status # "SENT"
        BY <1>4, <2>6 DEF Failures
      <4> QED BY <1>7, <4>1
    <3>3. Cardinality(Failures(n)') = Cardinality(attempts[n]) + IF status = "SENT" THEN 0 ELSE 1
      BY <2>6, <2>7, <2>8, RowNumbers
    <3>4. Cardinality(attempts'[n]) <= Cardinality(Failures(n)') + 1
      BY <2>7, <3>3, RowNumbers
    <3>5. /\ k <= Cardinality(Failures(n)')
          /\ n \notin byHand' => k = Cardinality(Failures(n)')
      <4>1. /\ row[n].retries <= Cardinality(attempts[n])
            /\ n \notin byHand => row[n].retries = Cardinality(attempts[n])
        BY <1>8, <2>6 DEF RowOK, Explained
      <4>2. k = row[n].retries + IF status = "SENT" THEN 0 ELSE 1
        BY <2>3
      <4> QED BY <1>1, <3>3, <4>1, <4>2, RowNumbers
    <3> QED BY <1>6, <3>1, <3>2, <3>4, <3>5 DEF Explained
  <2>10. Budgeted(n)'
    <3>1. status = "FAILED" => row[n].budget > 0
      BY <2>3, RowNumbers
    <3>2. status = "RETRYING" => row[n].budget > 0
      BY <2>3, RowNumbers
    <3> QED BY <1>6, <2>3, <3>1, <3>2 DEF Budgeted
  <2>11. Heard(n)'
    <3>1. /\ accepted[n] <= unheard[n] + 1
          /\ sender[s].result # "sent" => accepted[n] <= unheard[n]
      BY <1>8, <2>1 DEF RowOK, Heard
    <3> QED BY <1>1, <1>6, <2>3, <2>4, <3>1 DEF Heard
  <2> QED BY <1>8, <2>5, <2>9, <2>10, <2>11 DEF RowOK
<1>9. CASE m # n
  BY <1>0, <1>1, <1>2, <1>6, <1>7, <1>9, OtherRow
<1> QED BY <1>8, <1>9

\* The database refuses an attempt only of an e-mail that never had a retry.
LEMMA RefusedOnlyWithoutRetries ==
  ASSUME DeliveryTypes, \A m \in Emails : RowOK(m),
         NEW s \in Senders, sender[s].pc = "answered", ~DatabaseAccepts(s)
  PROVE  row[sender[s].on].budget = 0
<1>0. PICK n \in Emails :
        sender[s] \in SenderStates /\ sender[s] # IdleSender /\ sender[s].on = n
  BY SenderType DEF SenderStates
<1>1. Sending(s, n)
  BY <1>0 DEF Sending
<1>2. /\ row[n].status = "PROCESSING" /\ row[n].retries = sender[s].retries
      /\ sender[s].number = Cardinality(attempts[n]) + 1
  BY <1>1 DEF RowOK, Owned
<1>3. NumberIsNew(s)
  <2>1. {a.no : a \in attempts[n]} = 1 .. Cardinality(attempts[n])
    BY DEF RowOK, Explained
  <2> QED BY <1>0, <1>2, <2>1, RowNumbers DEF NumberIsNew
<1>4. ~(ResultingRetries(s) <= row[n].budget)
  BY <1>0, <1>3 DEF DatabaseAccepts, WithinLimit
<1>5. \/ row[n].retries < row[n].budget
      \/ row[n].retries = 0 /\ row[n].budget = 0
  BY <1>2 DEF RowOK, Budgeted
<1> QED BY <1>0, <1>2, <1>4, <1>5, RowNumbers DEF ResultingRetries

\* Every step of a sender keeps every row right.
LEMMA SenderKeepsRows ==
  ASSUME DeliveryTypes, DeliveryTypes', \A m \in Emails : RowOK(m),
         NEW s \in Senders, SendNotification(s)
  PROVE  \A m \in Emails : RowOK(m)'
<1>0. BagToSet(queue) \subseteq Tasks
  BY DEF DeliveryTypes, NotificationTypeOK
<1>1. ASSUME NEW t \in BagToSet(queue), TakeTask(s, t)
      PROVE  \A m \in Emails : RowOK(m)'
  <2>1. t.on \in Emails
    BY <1>0 DEF Tasks
  <2> QED BY <1>1, <2>1, BeginKeepsRows DEF TakeTask
<1>2. ASSUME NEW n \in Emails, SendNow(s, n)
      PROVE  \A m \in Emails : RowOK(m)'
  BY <1>2, BeginKeepsRows DEF SendNow
<1>3. CASE ProviderAnswers(s)
  BY <1>3, AnswerKeepsRows
<1>4. CASE RecordAttempt(s)
  BY <1>4, RecordKeepsRows
<1>5. CASE RecordFails(s)
  <2>1. sender[s] # IdleSender
    BY <1>5 DEF RecordFails, IdleSender
  <2> QED BY <1>5, <2>1, LeaveKeepsRows DEF RecordFails
<1>6. CASE TaskEnds(s)
  <2>1. sender[s] # IdleSender
    BY <1>6 DEF TaskEnds, IdleSender
  <2> QED BY <1>6, <2>1, LeaveKeepsRows DEF TaskEnds
<1>7. CASE SenderStops(s)
  BY <1>7, LeaveKeepsRows DEF SenderStops
<1>8. CASE TimeLimit(s)
  BY <1>8, LimitKeepsRows
<1>9. CASE DeliveredTwice(s)
  BY <1>9, LeftAlone DEF DeliveredTwice, RowAlone, Sending
<1> QED BY <1>1, <1>2, <1>3, <1>4, <1>5, <1>6, <1>7, <1>8, <1>9 DEF SendNotification

\* Every step keeps the invariant.
LEMMA NextDelivery == DeliveryInv /\ [NotificationsNext]_notificationVars => DeliveryInv'
<1> SUFFICES ASSUME DeliveryTypes, \A m \in Emails : RowOK(m),
                    [NotificationsNext]_notificationVars
             PROVE  DeliveryTypes' /\ \A m \in Emails : RowOK(m)'
  BY DEF DeliveryInv
<1>1. DeliveryTypes'
  BY NextTypes
<1>2. ASSUME NEW t \in BagToSet(queue), RefuseTask(t), NEW m \in Emails
      PROVE  RowOK(m)'
  BY <1>2, LeftAlone DEF RefuseTask, RowAlone, Sending
<1>3. ASSUME UNCHANGED notificationVars, NEW m \in Emails
      PROVE  RowOK(m)'
  BY <1>3, LeftAlone DEF notificationVars, RowAlone, Sending
<1> QED BY <1>1, <1>2, <1>3, RequestKeepsRows, SenderKeepsRows DEF NotificationsNext

\* The initial state satisfies it: no row, no attempt, nobody at work.
LEMMA InitDelivery == NotificationsInit => DeliveryInv
<1> SUFFICES ASSUME NotificationsInit, NEW n \in Emails PROVE RowOK(n)
  BY InitTypes DEF DeliveryInv
<1>1. /\ row[n] = [status |-> "none", retries |-> 0, budget |-> 0, due |-> TRUE]
      /\ attempts[n] = {} /\ accepted[n] = 0 /\ unheard[n] = 0
      /\ \A s \in Senders : ~Sending(s, n)
  BY DEF NotificationsInit, Sending
<1>2. Failures(n) = {} /\ Cardinality({}) = 0
  BY <1>1, FS_EmptySet DEF Failures
<1> QED BY <1>1, <1>2 DEF RowOK, Owned, Explained, Budgeted, Heard

-----------------------------------------------------------------------------
(***************************************************************************)
(* The theorems.                                                           *)
(***************************************************************************)

\* Every reachable state satisfies the inductive invariant: what the senders
\* know, what the rows say, the attempts on record and the messages the provider
\* took agree with each other.
THEOREM DeliveryCorrect == NotificationsSpec => []DeliveryInv
<1>1. NotificationsInit => DeliveryInv
  BY InitDelivery
<1>2. DeliveryInv /\ [NotificationsNext]_notificationVars => DeliveryInv'
  BY NextDelivery
<1> QED BY <1>1, <1>2, PTL DEF NotificationsSpec

\* The rows, the tasks and the senders of the notification service always have
\* their types; no task is tried more often than Celery allows.
THEOREM NotificationTypes == NotificationsSpec => []NotificationTypeOK
<1>1. DeliveryInv => NotificationTypeOK
  BY DEF DeliveryInv, DeliveryTypes
<1> QED BY <1>1, DeliveryCorrect, PTL

\* An e-mail at the provider is in PROCESSING and one sender's alone, and what
\* that sender read of its row is what the row says still.
THEOREM OneSenderPerEmail == NotificationsSpec => []SenderOwnsRow
<1>1. DeliveryInv => SenderOwnsRow
  BY DEF DeliveryInv, RowOK, Owned, SenderOwnsRow
<1> QED BY <1>1, DeliveryCorrect, PTL

\* An attempt that is not recorded although the database answers is one of an
\* e-mail without any retry: the limit of the others is never exceeded, and no
\* attempt number is used twice.
THEOREM RefusedWithoutRetries ==
  NotificationsSpec => [](\A s \in Senders : sender[s].pc = "answered" /\ ~DatabaseAccepts(s)
                                               => row[sender[s].on].budget = 0)
<1>1. DeliveryInv => \A s \in Senders : sender[s].pc = "answered" /\ ~DatabaseAccepts(s)
                                          => row[sender[s].on].budget = 0
  BY RefusedOnlyWithoutRetries DEF DeliveryInv
<1> QED BY <1>1, DeliveryCorrect, PTL

\* A message reaches the provider at most once more than the provider's
\* acceptance of it went unheard, however often tasks are delivered again.
THEOREM NoBlindResend == NotificationsSpec => []SentTwiceOnlyIfUnheard
<1>1. DeliveryInv => SentTwiceOnlyIfUnheard
  BY DEF DeliveryInv, RowOK, Heard, SentTwiceOnlyIfUnheard
<1> QED BY <1>1, DeliveryCorrect, PTL

\* The attempts on record have no gap and explain the status and the retry
\* count of their row, and a retry is promised only within the budget.
THEOREM AttemptsExplain == NotificationsSpec => []AttemptsExplainRow
<1>1. ASSUME DeliveryInv, NEW n \in Emails
      PROVE  /\ Explained(n)
             /\ row[n].status = "RETRYING" => row[n].retries < row[n].budget
  <2>1. RowOK(n)
    BY <1>1 DEF DeliveryInv
  <2>2. row[n].retries \in Nat
    BY <1>1, RowNumbers DEF DeliveryInv
  <2> QED BY <2>1, <2>2 DEF RowOK, Budgeted
<1>2. DeliveryInv => AttemptsExplainRow
  BY <1>1 DEF Explained, Failures, AttemptsExplainRow
<1> QED BY <1>2, DeliveryCorrect, PTL

\* An e-mail that was sent or cancelled stays so and is not handed to the
\* provider again, whatever the senders, the queue and the operators do.
THEOREM VerdictStands == NotificationsSpec => DeliveryVerdictStands
<1> DEFINE Stands == \A n \in Emails : row[n].status \in {"SENT", "CANCELLED"} =>
                       row'[n].status = row[n].status /\ accepted'[n] = accepted[n]
<1>1. DeliveryInv /\ [NotificationsNext]_notificationVars => Stands
  <2> SUFFICES ASSUME DeliveryInv, [NotificationsNext]_notificationVars, NEW n \in Emails,
                      row[n].status \in {"SENT", "CANCELLED"}
               PROVE  row'[n].status = row[n].status /\ accepted'[n] = accepted[n]
    OBVIOUS
  <2>1. DeliveryTypes /\ row \in [Emails -> Row] /\ accepted \in [Emails -> Nat]
    BY DEF DeliveryInv, DeliveryTypes, NotificationTypeOK
  <2>2. \A s \in Senders : ~Sending(s, n)
    BY NobodySends DEF DeliveryInv
  <2>3. ASSUME NEW s \in Senders, sender[s].pc \in {"calling", "answered"}
        PROVE  sender[s].on # n
    <3>1. sender[s] # IdleSender
      BY <2>3 DEF IdleSender
    <3> QED BY <2>2, <2>3, <3>1 DEF Sending
  <2>4. ASSUME NEW s \in Senders, SendNotification(s)
        PROVE  row'[n].status = row[n].status /\ accepted'[n] = accepted[n]
    <3>1. ASSUME NEW m, NEW task, Begin(s, m, task)
          PROVE  row'[n].status = row[n].status /\ accepted'[n] = accepted[n]
      <4>1. m # n
        BY <3>1 DEF Begin, ValidDeliveryState
      <4> QED BY <2>1, <3>1, <4>1 DEF Begin, Processing
    <3>2. CASE ProviderAnswers(s)
      <4>1. sender[s].on # n /\ row' = row
        BY <2>3, <3>2 DEF ProviderAnswers
      <4>2. PICK k : accepted' = [accepted EXCEPT ![sender[s].on] = k]
        BY <3>2 DEF ProviderAnswers
      <4> QED BY <2>1, <4>1, <4>2
    <3>3. CASE RecordAttempt(s)
      <4>1. sender[s].on # n /\ accepted' = accepted
        BY <2>3, <3>3 DEF RecordAttempt
      <4> QED BY <2>1, <3>3, <4>1 DEF RecordAttempt
    <3>4. CASE TimeLimit(s)
      <4>1. CASE UNCHANGED accepted
        BY <3>4, <4>1 DEF TimeLimit
      <4>2. CASE sender[s].pc = "calling" /\ accepted' = [accepted EXCEPT ![sender[s].on] = @ + 1]
        BY <2>1, <2>3, <3>4, <4>2 DEF TimeLimit
      <4> QED BY <3>4, <4>1, <4>2 DEF TimeLimit
    <3> QED
      BY <2>4, <3>1, <3>2, <3>3, <3>4
      DEF SendNotification, TakeTask, SendNow, RecordFails, TaskEnds, SenderStops, DeliveredTwice
  <2>5. ASSUME NEW m \in Emails,
               \/ QueueEmail(m) \/ ApplyAsync(m) \/ RequestStops(m) \/ TimeComes(m)
               \/ RetryFailedNotification(m) \/ CancelNotification(m)
        PROVE  row'[n].status = row[n].status /\ accepted'[n] = accepted[n]
    <3>1. ASSUME NEW b, NEW x, Create(m, b, x)
          PROVE  row'[n].status = row[n].status /\ accepted'[n] = accepted[n]
      BY <2>1, <3>1 DEF Create
    <3>2. CASE QueueEmail(m)
      BY <3>1, <3>2
      DEF QueueEmail, QueueVerificationEmail, CreateVerificationEmail, QueuePasswordResetEmail,
          CreatePasswordResetEmail, QueuePasswordChangedEmail, CreatePasswordChangedEmail,
          CreateFromRenderedTemplate, QueueTemplatedEmail, CreateTemplatedNotification,
          QueueDirectEmail, CreateDirectNotification
    <3>3. CASE TimeComes(m)
      BY <2>1, <3>3 DEF TimeComes, Row
    <3>4. CASE RetryFailedNotification(m)
      <4>1. m # n /\ accepted' = accepted
        BY <3>4 DEF RetryFailedNotification, RetryNotification
      <4>2. PICK k : row' = [row EXCEPT ![m].status = "RETRYING", ![m].retries = k]
        BY <3>4 DEF RetryFailedNotification, RetryNotification
      <4> QED BY <2>1, <4>1, <4>2
    <3>5. CASE CancelNotification(m)
      BY <2>1, <3>5 DEF CancelNotification, Cancellable
    <3> QED BY <2>5, <3>2, <3>3, <3>4, <3>5 DEF ApplyAsync, RequestStops
  <2> QED BY <2>4, <2>5 DEF NotificationsNext, RefuseTask, notificationVars
<1> QED BY <1>1, DeliveryCorrect, PTL DEF NotificationsSpec, DeliveryVerdictStands

=============================================================================
