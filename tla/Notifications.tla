--------------------------- MODULE Notifications ---------------------------
(***************************************************************************)
(* Notification service: an e-mail is a row that a request commits, then a *)
(* Celery task that a worker runs and that Celery may deliver again.       *)
(*                                                                         *)
(* No lock is held while the provider is called.  What keeps two senders   *)
(* apart is the status PROCESSING, committed before the call; nobody ever  *)
(* takes a row out of it but the sender that put it there, so one that     *)
(* stops half way, or is cut off by its time limit, or whose result the    *)
(* database refuses, leaves it there.  Tasks are acknowledged late: the    *)
(* task of a worker that stops is delivered again, one that outlasts the   *)
(* broker's patience is delivered twice; a task that fails is done with.   *)
(*                                                                         *)
(* Left out: what the e-mails say, the list and summary reads, deletion    *)
(* (no code sets is_deleted), and clocks that disagree (a worker that is   *)
(* behind refuses the task of a scheduled e-mail for good).                *)
(***************************************************************************)
EXTENDS Naturals, FiniteSets, Bags

CONSTANTS
  Emails,         \* rows of notifications
  Senders,        \* worker processes, and send-now requests, at a time
  DefaultBudget,  \* settings.notification_max_retries
  Budgets,        \* values of max_retry_count in requests
  CeleryRetries,  \* retries of one task (Task.max_retries)
  MaxAsked,       \* bound on the retries operators ask for
  MaxFaults       \* bound on stops, time limits, second deliveries and failed commits

ASSUME BudgetsAssumption == DefaultBudget \in Nat /\ Budgets \subseteq Nat
ASSUME NotificationBounds == CeleryRetries \in Nat /\ MaxAsked \in Nat /\ MaxFaults \in Nat

VARIABLES
  row,        \* status, retry_count, max_retry_count; due: not scheduled for later
  attempts,   \* notification_attempts of each row
  unqueued,   \* requests that committed the row and have yet to queue its task
  queue,      \* the bag of tasks in the broker
  sender,     \* what each sender is doing
  accepted,   \* messages the provider took
  unheard,    \* messages it took and the sender believes it did not
  byHand,     \* e-mails sent now, or given a new budget, by an operator
  asked, faults

notificationVars ==
  <<row, attempts, unqueued, queue, sender, accepted, unheard, byHand, asked, faults>>

Statuses == {"PENDING", "PROCESSING", "SENT", "FAILED", "RETRYING", "CANCELLED"}

Row      == [status : Statuses \union {"none"}, retries : Nat, budget : Nat, due : BOOLEAN]
Attempt  == [no : Nat \ {0}, status : {"SENT", "RETRYING", "FAILED"}]
Tasks    == [on : Emails, tries : 0 .. CeleryRetries]

NoTask   == [on |-> "nothing"]
IdleSender == [pc |-> "idle"]

-----------------------------------------------------------------------------
\* The requests.  max_retry_count may be omitted.
MaxRetryCount == Budgets \union {DefaultBudget}


\* A request for a template gives all the variables the template needs, or not.
TemplatedEmailRequest ==
  [template : {"registered", "unknown"}, complete : BOOLEAN,
   max_retry_count : MaxRetryCount, scheduled : BOOLEAN]

DirectEmailRequest ==
  [max_retry_count : MaxRetryCount, scheduled : BOOLEAN]

\* The registry of templates; a missing variable fails (StrictUndefined).
Renders(request) == request.template = "registered" /\ request.complete

-----------------------------------------------------------------------------
NotificationsInit ==
  /\ row      = [n \in Emails |-> [status |-> "none", retries |-> 0, budget |-> 0, due |-> TRUE]]
  /\ attempts = [n \in Emails |-> {}]
  /\ unqueued = [n \in Emails |-> 0]
  /\ queue    = EmptyBag
  /\ sender   = [s \in Senders |-> IdleSender]
  /\ accepted = [n \in Emails |-> 0]
  /\ unheard  = [n \in Emails |-> 0]
  /\ byHand   = {}
  /\ asked    = 0
  /\ faults   = 0

\* The row of an e-mail, committed before its task is queued.
Create(n, budget, scheduled) ==
  /\ row[n].status = "none"
  /\ row' = [row EXCEPT ![n] =
       [status |-> "PENDING", retries |-> 0, budget |-> budget, due |-> ~scheduled]]
  /\ unqueued' = [unqueued EXCEPT ![n] = 1]
  /\ UNCHANGED <<attempts, queue, sender, accepted, unheard, byHand, asked, faults>>

CreateFromRenderedTemplate(n) == Create(n, DefaultBudget, FALSE)

\* The three e-mails of the auth service, which render a template of their own.
CreateVerificationEmail(n)    == CreateFromRenderedTemplate(n)
CreatePasswordResetEmail(n)   == CreateFromRenderedTemplate(n)
CreatePasswordChangedEmail(n) == CreateFromRenderedTemplate(n)

CreateTemplatedNotification(n, r) ==
  /\ Renders(r)
  /\ Create(n, r.max_retry_count, r.scheduled)

CreateDirectNotification(n, r) == Create(n, r.max_retry_count, r.scheduled)

QueueVerificationEmail(n)    == CreateVerificationEmail(n)
QueuePasswordResetEmail(n)   == CreatePasswordResetEmail(n)
QueuePasswordChangedEmail(n) == CreatePasswordChangedEmail(n)

QueueTemplatedEmail(n) ==
  \E r \in TemplatedEmailRequest : CreateTemplatedNotification(n, r)

QueueDirectEmail(n) ==
  \E r \in DirectEmailRequest : CreateDirectNotification(n, r)

\* The request queues the task, or stops before it does.
ApplyAsync(n) ==
  /\ unqueued[n] > 0
  /\ unqueued' = [unqueued EXCEPT ![n] = @ - 1]
  /\ queue' = queue (+) SetToBag({[on |-> n, tries |-> 0]})
  /\ UNCHANGED <<row, attempts, sender, accepted, unheard, byHand, asked, faults>>

RequestStops(n) ==
  /\ unqueued[n] > 0
  /\ faults < MaxFaults
  /\ faults' = faults + 1
  /\ unqueued' = [unqueued EXCEPT ![n] = @ - 1]
  /\ UNCHANGED <<row, attempts, queue, sender, accepted, unheard, byHand, asked>>

TimeComes(n) ==
  /\ ~row[n].due
  /\ row' = [row EXCEPT ![n].due = TRUE]
  /\ UNCHANGED <<attempts, unqueued, queue, sender, accepted, unheard, byHand, asked, faults>>

-----------------------------------------------------------------------------
\* Mutant: an e-mail that is being sent may be sent.
DeliverableBusy(n) ==
  /\ row[n].due
  /\ \/ row[n].status \in {"PENDING", "RETRYING", "PROCESSING"}
     \/ row[n].status = "FAILED" /\ row[n].retries < row[n].budget

ValidDeliveryState(n) ==
  /\ row[n].due
  /\ \/ row[n].status \in {"PENDING", "RETRYING"}
     \/ row[n].status = "FAILED" /\ row[n].retries < row[n].budget

\* Mutant: the transition is not committed before the provider is called.
Uncommitted(n) == row

Processing(n) == [row EXCEPT ![n].status = "PROCESSING"]

\* send_notification up to its first commit; the row is locked meanwhile.
Begin(s, n, task) ==
  /\ sender[s] = IdleSender
  /\ ValidDeliveryState(n)
  /\ row' = Processing(n)
  /\ sender' = [sender EXCEPT ![s] =
       [pc |-> "calling", on |-> n, task |-> task, result |-> "unknown",
        number |-> Cardinality(attempts[n]) + 1, retries |-> row[n].retries]]
  /\ UNCHANGED <<attempts, unqueued, accepted, unheard, asked, faults>>

\* A worker runs a task; it runs no task of a scheduled e-mail before its time.
TakeTask(s, t) ==
  /\ BagIn(t, queue)
  /\ Begin(s, t.on, t)
  /\ queue' = queue (-) SetToBag({t})
  /\ UNCHANGED byHand

\* A task whose e-mail may not be sent fails and is gone.
RefuseTask(t) ==
  /\ BagIn(t, queue)
  /\ row[t.on].due
  /\ \E s \in Senders : sender[s] = IdleSender
  /\ ~ValidDeliveryState(t.on)
  /\ queue' = queue (-) SetToBag({t})
  /\ UNCHANGED <<row, attempts, unqueued, sender, accepted, unheard, byHand, asked, faults>>

SendNow(s, n) ==
  /\ Begin(s, n, NoTask)
  /\ byHand' = byHand \union {n}
  /\ UNCHANGED queue

-----------------------------------------------------------------------------
\* How an SMTP conversation ends, and whether the server has the message then.
Endings == {"accepted", "reply_4xx", "reply_5xx", "no_connection", "cut_before", "cut_after"}

Taken(ending) == ending \in {"accepted", "cut_after"}

Verdict(ending) ==
  CASE ending = "accepted"  -> "sent"
    [] ending = "reply_5xx" -> "permanent"
    [] OTHER                -> "retryable"

\* Any other exception (a defect, by the code's reckoning) counts as a permanent
\* failure, wherever it is raised: before the server has the message or after.
ProviderAnswers(s) ==
  /\ sender[s].pc = "calling"
  /\ \E e \in Endings, verdict \in {"sent", "retryable", "permanent"} :
       /\ verdict \in {Verdict(e), "permanent"}
       /\ sender' = [sender EXCEPT ![s].pc = "answered", ![s].result = verdict]
       /\ accepted' = [accepted EXCEPT ![sender[s].on] = @ + IF Taken(e) THEN 1 ELSE 0]
       /\ unheard' = [unheard EXCEPT ![sender[s].on] =
            @ + IF Taken(e) /\ verdict # "sent" THEN 1 ELSE 0]
  /\ UNCHANGED <<row, attempts, unqueued, queue, byHand, asked, faults>>

\* Mutant: the last failure leaves one retry that is not there.
CanRetryOnce(s) == sender[s].result = "retryable" /\ sender[s].retries + 1 <= row[sender[s].on].budget

CanRetry(s) == sender[s].result = "retryable" /\ sender[s].retries + 1 < row[sender[s].on].budget

ResultingStatus(s) ==
  IF sender[s].result = "sent" THEN "SENT"
  ELSE IF CanRetry(s) THEN "RETRYING" ELSE "FAILED"

ResultingRetries(s) == sender[s].retries + IF sender[s].result = "sent" THEN 0 ELSE 1

\* What the CHECK constraints of notifications and the unique attempt_number of
\* notification_attempts let through.
WithinLimit(s) == ResultingRetries(s) <= row[sender[s].on].budget
NumberIsNew(s) == \A a \in attempts[sender[s].on] : a.no # sender[s].number

DatabaseAccepts(s) == WithinLimit(s) /\ NumberIsNew(s)

RecordAttempt(s) ==
  /\ sender[s].pc = "answered"
  /\ DatabaseAccepts(s)
  /\ LET n == sender[s].on IN
       /\ row' = [row EXCEPT ![n].status = ResultingStatus(s), ![n].retries = ResultingRetries(s)]
       /\ attempts' = [attempts EXCEPT ![n] =
            @ \union {[no |-> sender[s].number, status |-> ResultingStatus(s)]}]
  /\ sender' = [sender EXCEPT ![s].pc = "recorded"]
  /\ UNCHANGED <<unqueued, queue, accepted, unheard, byHand, asked, faults>>

\* The commit fails; the task ends with that error and is acknowledged.
RecordFails(s) ==
  /\ sender[s].pc = "answered"
  /\ \/ ~DatabaseAccepts(s) /\ UNCHANGED faults
     \/ faults < MaxFaults /\ faults' = faults + 1
  /\ sender' = [sender EXCEPT ![s] = IdleSender]
  /\ UNCHANGED <<row, attempts, unqueued, queue, accepted, unheard, byHand, asked>>

-----------------------------------------------------------------------------
\* Mutant: Celery queues a task again however often it did.
TriesAgainForEver(s) == sender[s].task # NoTask /\ sender[s].result = "retryable"

\* Mutant: a task is not queued again.
NeverTriesAgain(s) == FALSE

\* A failure that may pass queues the task again, if Celery has retries left.
TriesAgain(s) ==
  /\ sender[s].task # NoTask
  /\ sender[s].result = "retryable"
  /\ sender[s].task.tries < CeleryRetries

TaskEnds(s) ==
  /\ sender[s].pc = "recorded"
  /\ queue' = IF TriesAgain(s)
              THEN queue (+) SetToBag({[sender[s].task EXCEPT !.tries = @ + 1]})
              ELSE queue
  /\ sender' = [sender EXCEPT ![s] = IdleSender]
  /\ UNCHANGED <<row, attempts, unqueued, accepted, unheard, byHand, asked, faults>>

\* Its task, not acknowledged, returns to the queue.
Returned(s) == IF sender[s].task = NoTask THEN queue ELSE queue (+) SetToBag({sender[s].task})

SenderStops(s) ==
  /\ sender[s] # IdleSender
  /\ faults < MaxFaults
  /\ faults' = faults + 1
  /\ queue' = Returned(s)
  /\ sender' = [sender EXCEPT ![s] = IdleSender]
  /\ UNCHANGED <<row, attempts, unqueued, accepted, unheard, byHand, asked>>

\* The time limits end a task of a worker wherever it is.  The soft one is
\* raised out of asyncio.run, which cancels the coroutine; that is no Exception
\* to the handlers of send_notification, so nothing is recorded, and the task
\* counts as failed and is acknowledged.  A thread at the provider goes on.
TimeLimit(s) ==
  /\ sender[s] # IdleSender
  /\ sender[s].task # NoTask
  /\ faults < MaxFaults
  /\ faults' = faults + 1
  /\ sender' = [sender EXCEPT ![s] = IdleSender]
  /\ \/ UNCHANGED <<accepted, unheard>>
     \/ /\ sender[s].pc = "calling"
        /\ accepted' = [accepted EXCEPT ![sender[s].on] = @ + 1]
        /\ unheard' = [unheard EXCEPT ![sender[s].on] = @ + 1]
  /\ UNCHANGED <<row, attempts, unqueued, queue, byHand, asked>>

\* The broker's visibility timeout: the task is delivered while it runs.
DeliveredTwice(s) ==
  /\ sender[s] # IdleSender
  /\ sender[s].task # NoTask
  /\ faults < MaxFaults
  /\ faults' = faults + 1
  /\ queue' = Returned(s)
  /\ UNCHANGED <<row, attempts, unqueued, sender, accepted, unheard, byHand, asked>>

-----------------------------------------------------------------------------
\* An operator asks for a retry, with the budget that is left or a new one.
RetryNotification(n, reset) ==
  /\ row[n].status \in {"FAILED", "RETRYING"}
  /\ reset \/ row[n].retries < row[n].budget
  /\ row' = [row EXCEPT ![n].status = "RETRYING", ![n].retries = IF reset THEN 0 ELSE @]

RetryFailedNotification(n) ==
  /\ asked < MaxAsked
  /\ asked' = asked + 1
  /\ \E reset \in BOOLEAN :
       /\ RetryNotification(n, reset)
       /\ byHand' = IF reset THEN byHand \union {n} ELSE byHand
  /\ unqueued' = [unqueued EXCEPT ![n] = @ + 1]
  /\ UNCHANGED <<attempts, queue, sender, accepted, unheard, faults>>

\* Mutant: an e-mail can be cancelled while it is sent.
CancellableBusy(n) == row[n].status \in {"PENDING", "FAILED", "RETRYING", "PROCESSING"}

Cancellable(n) == row[n].status \in {"PENDING", "FAILED", "RETRYING"}

CancelNotification(n) ==
  /\ Cancellable(n)
  /\ row' = [row EXCEPT ![n].status = "CANCELLED"]
  /\ UNCHANGED <<attempts, unqueued, queue, sender, accepted, unheard, byHand, asked, faults>>

-----------------------------------------------------------------------------
QueueEmail(n) ==
  \/ QueueVerificationEmail(n)
  \/ QueuePasswordResetEmail(n)
  \/ QueuePasswordChangedEmail(n)
  \/ QueueTemplatedEmail(n)
  \/ QueueDirectEmail(n)

SendNotification(s) ==
  \/ \E t \in BagToSet(queue) : TakeTask(s, t)
  \/ \E n \in Emails : SendNow(s, n)
  \/ ProviderAnswers(s)
  \/ RecordAttempt(s)
  \/ RecordFails(s)
  \/ TaskEnds(s)
  \/ SenderStops(s)
  \/ TimeLimit(s)
  \/ DeliveredTwice(s)

NotificationsNext ==
  \/ \E n \in Emails :
       \/ QueueEmail(n)
       \/ ApplyAsync(n)
       \/ RequestStops(n)
       \/ TimeComes(n)
       \/ RetryFailedNotification(n)
       \/ CancelNotification(n)
  \/ \E s \in Senders : SendNotification(s)
  \/ \E t \in BagToSet(queue) : RefuseTask(t)

\* Requests that committed finish, workers take what is queued, the provider
\* answers or times out.  Nobody has to ask for anything.
NotificationsFairness ==
  /\ \A n \in Emails : WF_notificationVars(ApplyAsync(n)) /\ WF_notificationVars(TimeComes(n))
  /\ \A t \in Tasks : WF_notificationVars(RefuseTask(t) \/ \E s \in Senders : TakeTask(s, t))
  /\ \A s \in Senders :
       /\ WF_notificationVars(ProviderAnswers(s))
       /\ WF_notificationVars(RecordAttempt(s) \/ RecordFails(s))
       /\ WF_notificationVars(TaskEnds(s))

NotificationsSpec ==
  NotificationsInit /\ [][NotificationsNext]_notificationVars /\ NotificationsFairness

-----------------------------------------------------------------------------
\* The rows, the tasks and the senders have their types; in particular no task
\* is tried more often than Celery allows.
NotificationTypeOK ==
  /\ row \in [Emails -> Row]
  /\ attempts \in [Emails -> SUBSET Attempt]
  /\ unqueued \in [Emails -> Nat]
  /\ IsABag(queue) /\ BagToSet(queue) \subseteq Tasks
  /\ \A s \in Senders : sender[s] # IdleSender =>
       /\ sender[s].pc \in {"calling", "answered", "recorded"}
       /\ sender[s].on \in Emails
       /\ sender[s].task \in Tasks \union {NoTask}
       /\ sender[s].result \in {"unknown", "sent", "retryable", "permanent"}
  /\ accepted \in [Emails -> Nat] /\ unheard \in [Emails -> Nat]
  /\ byHand \subseteq Emails
  /\ asked \in 0 .. MaxAsked /\ faults \in 0 .. MaxFaults

Sending(s, n) == sender[s] # IdleSender /\ sender[s].on = n /\ sender[s].pc \in {"calling", "answered"}

\* While a sender is at the provider the row says PROCESSING and is that
\* sender's alone, although it holds no lock: nobody else sends the e-mail, and
\* what it read of the row before is what it says still.
SenderOwnsRow ==
  \A n \in Emails : \A s \in {x \in Senders : Sending(x, n)} :
    /\ row[n].status = "PROCESSING"
    /\ row[n].retries = sender[s].retries
    /\ sender[s].number = Cardinality(attempts[n]) + 1
    /\ \A x \in Senders : Sending(x, n) => x = s

\* An e-mail that was sent or cancelled stays so, and the provider is not
\* handed it any more, whatever tasks are still about.
DeliveryVerdictStands ==
  [][\A n \in Emails : row[n].status \in {"SENT", "CANCELLED"} =>
       row'[n].status = row[n].status /\ accepted'[n] = accepted[n]]_notificationVars

\* "A redelivered Celery task cannot re-send the message": a message reaches the
\* provider once more than the provider's acceptance went unheard, at most,
\* however often workers stop and tasks are delivered.
SentTwiceOnlyIfUnheard == \A n \in Emails : accepted[n] <= unheard[n] + 1

\* The attempts on record are numbered without a gap, a row is SENT exactly if
\* one of them succeeded, and one at most did; the retry count is never more
\* than the failures on record, and a retry is promised only within the budget.
AttemptsExplainRow ==
  \A n \in Emails :
    LET failures == {a \in attempts[n] : a.status # "SENT"}
    IN  /\ {a.no : a \in attempts[n]} = 1 .. Cardinality(attempts[n])
        /\ (row[n].status = "SENT") <=> \E a \in attempts[n] : a.status = "SENT"
        /\ Cardinality(attempts[n]) <= Cardinality(failures) + 1
        /\ row[n].retries <= Cardinality(failures)
        /\ n \notin byHand => row[n].retries = Cardinality(failures)
        /\ row[n].status = "RETRYING" => row[n].retries < row[n].budget

\* What the code leaves as it is, with no task and no sender to change it: an
\* e-mail whose budget outlasts the retries of its task waits for a retry that
\* nobody makes; one without any retry that fails has its attempt refused by
\* the database (retry_count over max_retry_count) and stays in PROCESSING.
LeftOpen(n) ==
  \/ row[n].status = "RETRYING" /\ CeleryRetries < row[n].retries
  \/ /\ row[n].status = "PROCESSING" /\ row[n].budget = 0
     /\ ~ \E s \in Senders : Sending(s, n)

\* Without faults, an e-mail that no operator sends or gives a new budget is
\* sent, failed or cancelled in the end, whatever its budget, or it is one of
\* the two kinds that the code leaves open.
QueuedIsSettled ==
  \A n \in Emails :
    [](faults = 0 /\ n \notin byHand)
    => (row[n].status \in {"PENDING", "PROCESSING", "RETRYING"}
          ~> row[n].status \in {"SENT", "FAILED", "CANCELLED"} \/ LeftOpen(n))

=============================================================================
