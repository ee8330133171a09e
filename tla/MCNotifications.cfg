CONSTANTS
  Emails = {n1}
  Senders = {w1, w2}
  DefaultBudget = 3
  Budgets = {0, 1, 2}
  CeleryRetries = 1
  MaxAsked = 1
  MaxFaults = 1

SPECIFICATION NotificationsSpec
VIEW Counted
CHECK_DEADLOCK FALSE
INVARIANTS NotificationTypeOK SenderOwnsRow SentTwiceOnlyIfUnheard AttemptsExplainRow
PROPERTIES DeliveryVerdictStands QueuedIsSettled
