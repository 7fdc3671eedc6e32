\* Two clicks on one invoice.
SPECIFICATION InboxSpec
CONSTANTS
  Clicks = {b1, b2}
  Savings = {s1}
  MaxTries = 2
  MaxSaves = 0
  MaxCuts = 0
  Gentle = FALSE
INVARIANT OnePayment
CHECK_DEADLOCK FALSE
