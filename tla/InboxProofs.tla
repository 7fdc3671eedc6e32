----------------------------- MODULE InboxProofs -----------------------------
(***************************************************************************)
(* That a received transaction is relayed once and the row of an invoice   *)
(* tells what became of it, for any number of clicks, saved passphrases,   *)
(* lost answers and restarts, as long as the operator waits for the        *)
(* handlers (Gentle).  The argument: at most one handler and one payment   *)
(* are under way, and after the first click no handler ever is.  Without   *)
(* Gentle: a row says paid only of what the node paid, and a transaction   *)
(* goes at most once for each time a passphrase was saved.  Then the       *)
(* invoices of our own: their rows say what the node said, and once final  *)
(* they stay so.                                                           *)
(***************************************************************************)
EXTENDS Inbox, Invoices, FiniteSetTheorems, TLAPS

OneHandler == \A g, h \in Handlers : handler[g] # "idle" /\ handler[h] # "idle" => g = h
OneClick == \A c, d \in Clicks : pay[c] # "idle" /\ pay[d] # "idle" => c = d

\* Who may still relay the message has not been joined by anybody who did.
Unsent ==
    /\ stored = "no" => HandlersQuiet /\ sentTx = 0
    /\ \A h \in Handlers : handler[h] = "listed" => stored = "locked"
    /\ stored = "locked" => sentTx = 0 /\ \A h \in Handlers : handler[h] \in {"idle", "listed"}
    /\ \A h \in Handlers : handler[h] = "relay" => sentTx = 0

\* A click finds the message handled, and nothing handles it afterwards.
Clicked ==
    tries > 0 => kind = "invoice" /\ stored = "open" /\ HandlersQuiet
Unpaid ==
    tries = 0 => PaymentsQuiet /\ node = "open" /\ relay \notin {"paying", "paid", "pay_failed"}

\* The node pays what a click waits for, and the row of what is paid is final.
Waited ==
    ~halved => /\ \A c \in Clicks : pay[c] = "wait" => node # "open"
               /\ node = "flying" => \E c \in Clicks : pay[c] = "wait"
               /\ node = "settled" => relay = "paid" \/ \E c \in Clicks : pay[c] = "wait"
PaidIsFinal == relay = "paid" => node = "settled" /\ PaymentsQuiet

InboxInv ==
    /\ InboxTypeOK /\ sentTx \in {0, 1}
    /\ OneHandler /\ OneClick /\ Unsent
    /\ Clicked /\ Unpaid /\ Waited /\ PaidIsFinal
-----------------------------------------------------------------------------
LEMMA InboxInitInv == InboxInit => InboxInv
<1> SUFFICES ASSUME InboxInit PROVE InboxInv
  OBVIOUS
<1> USE InboxAssumption DEF InboxInit
<1>1. InboxTypeOK
  <2>1. /\ handler \in [Handlers -> {"idle", "listed", "relay", "write"}]
        /\ pay \in [Clicks -> {"idle", "decode", "send", "wait", "refused"}]
    OBVIOUS
  <2>2. relay \in RelayStatuses
    BY DEF RelayStatuses
  <2>3. sentTx \in 0 .. 1 + MaxSaves /\ tries \in 0 .. MaxTries /\ saves \in 0 .. MaxSaves /\ cuts \in 0 .. MaxCuts
    OBVIOUS
  <2> QED
    BY <2>1, <2>2, <2>3 DEF InboxTypeOK
<1>2. HandlersQuiet /\ PaymentsQuiet
  BY DEF HandlersQuiet, PaymentsQuiet
<1> QED
  BY <1>1, <1>2
     DEF InboxInv, OneHandler, OneClick, Unsent, Clicked, Unpaid, Waited, PaidIsFinal,
         HandlersQuiet, PaymentsQuiet

\* A message is heard, or a passphrase saved: the first handler, or the only one.
LEMMA ArrivalsKeep ==
    ASSUME Gentle, InboxInv, Hear \/ OptIn \/ \E h \in Savings : SavePassphrase(h)
    PROVE  InboxInv'
<1> USE InboxAssumption DEF HandlerIs, message, counts, Handlers
<1>1. CASE Hear
  <2>1. InboxTypeOK'
    BY <1>1 DEF Hear, InboxInv, InboxTypeOK
  <2>2. tries = 0
    BY <1>1 DEF Hear, IsNew, InboxInv, InboxTypeOK, Clicked
  <2> QED
    BY <1>1, <2>1, <2>2
       DEF Hear, IsNew, InboxInv, InboxTypeOK, OneHandler, OneClick, Unsent, Clicked, Unpaid,
           Waited, PaidIsFinal, HandlersQuiet, PaymentsQuiet
<1>2. CASE OptIn
  BY <1>2
     DEF OptIn, InboxInv, InboxTypeOK, OneHandler, OneClick, Unsent, Clicked, Unpaid,
         Waited, PaidIsFinal, HandlersQuiet, PaymentsQuiet
<1>3. ASSUME NEW h \in Savings, SavePassphrase(h) PROVE InboxInv'
  <2>1. InboxTypeOK'
    BY <1>3 DEF SavePassphrase, InboxInv, InboxTypeOK
  <2> QED
    BY <1>3, <2>1
       DEF SavePassphrase, InboxInv, InboxTypeOK, OneHandler, OneClick, Unsent, Clicked,
           Unpaid, Waited, PaidIsFinal, HandlersQuiet, PaymentsQuiet
<1> QED
  BY <1>1, <1>2, <1>3

\* A handler goes on: it sends what nobody sent, and before any click.
LEMMA HandlersKeep ==
    ASSUME InboxInv, NEW h \in Handlers, HandlerGoesOn(h)
    PROVE  InboxInv'
<1> USE InboxAssumption DEF HandlerIs, message, counts
<1>1. tries = 0
  BY DEF HandlerGoesOn, Unlock, Relay, RelayWrites, InboxInv, InboxTypeOK, Clicked, HandlersQuiet
<1>2. CASE Unlock(h)
  <2>1. InboxTypeOK'
    BY <1>2 DEF Unlock, InboxInv, InboxTypeOK
  <2> QED
    BY <1>1, <1>2, <2>1
       DEF Unlock, InboxInv, InboxTypeOK, OneHandler, OneClick, Unsent, Clicked, Unpaid,
           Waited, PaidIsFinal, HandlersQuiet, PaymentsQuiet
<1>3. CASE Relay(h)
  <2>1. sentTx = 0 /\ sentTx' \in {0, 1}
    BY <1>3 DEF Relay, InboxInv, Unsent
  <2>2. InboxTypeOK'
    BY <1>3, <2>1 DEF Relay, InboxInv, InboxTypeOK, RelayStatuses
  <2>3. stored = "open"
    BY <1>3 DEF Relay, InboxInv, InboxTypeOK, Unsent, HandlersQuiet
  <2> QED
    BY <1>1, <1>3, <2>1, <2>2, <2>3
       DEF Relay, InboxInv, InboxTypeOK, OneHandler, OneClick, Unsent, Clicked, Unpaid,
           Waited, PaidIsFinal, HandlersQuiet, PaymentsQuiet
<1>4. CASE RelayWrites(h)
  <2>1. InboxTypeOK'
    BY <1>4 DEF RelayWrites, InboxInv, InboxTypeOK, RelayStatuses
  <2>2. relay' \notin {"paying", "paid", "pay_failed"}
    BY <1>4 DEF RelayWrites
  <2> QED
    BY <1>1, <1>4, <2>1, <2>2
       DEF RelayWrites, InboxInv, InboxTypeOK, OneHandler, OneClick, Unsent, Clicked, Unpaid,
           Waited, PaidIsFinal, HandlersQuiet, PaymentsQuiet
<1> QED
  BY <1>2, <1>3, <1>4 DEF HandlerGoesOn

\* A payment goes on, alone.
LEMMA PaymentsKeep ==
    ASSUME Gentle, InboxInv, NEW c \in Clicks, Pay(c) \/ PayGoesOn(c) \/ PayUnanswered(c)
    PROVE  InboxInv'
<1> USE InboxAssumption DEF PayIs, message, counts
<1>1. InboxTypeOK'
  <2>1. pay' \in [Clicks -> {"idle", "decode", "send", "wait", "refused"}]
    BY DEF Pay, PayGoesOn, PayRejected, PayStarts, PaySends, PayEnds, PayUnanswered,
           InboxInv, InboxTypeOK
  <2>2. relay' = relay \/ relay' \in {"paying", "paid", "pay_failed"}
    BY DEF Pay, PayGoesOn, PayRejected, PayStarts, PaySends, PayEnds, PayUnanswered
  <2>3. relay' \in RelayStatuses
    BY <2>2 DEF InboxInv, InboxTypeOK, RelayStatuses
  <2>4. node' \in {"open", "flying", "settled"}
    BY DEF Pay, PayGoesOn, PayRejected, PayStarts, PaySends, PayEnds, PayUnanswered,
           InboxInv, InboxTypeOK
  <2>5. halved' \in BOOLEAN
    BY DEF Pay, PayGoesOn, PayRejected, PayStarts, PaySends, PayEnds, PayUnanswered,
           InboxInv, InboxTypeOK
  <2>6. tries' \in 0 .. MaxTries /\ cuts' \in 0 .. MaxCuts
    BY DEF Pay, PayGoesOn, PayRejected, PayStarts, PaySends, PayEnds, PayUnanswered,
           InboxInv, InboxTypeOK
  <2>7. UNCHANGED <<kind, sealed, right, opted, stored, handler, sentTx, saves>>
    BY DEF Pay, PayGoesOn, PayRejected, PayStarts, PaySends, PayEnds, PayUnanswered
  <2> QED
    BY <2>1, <2>3, <2>4, <2>5, <2>6, <2>7 DEF InboxInv, InboxTypeOK
<1>2. CASE Pay(c)
  BY <1>1, <1>2
     DEF Pay, Payable, InboxInv, InboxTypeOK, OneHandler, OneClick, Unsent, Clicked, Unpaid,
         Waited, PaidIsFinal, HandlersQuiet, PaymentsQuiet
<1>3. ASSUME pay[c] # "idle"
      PROVE  /\ tries > 0 /\ relay # "paid"
             /\ \A d \in Clicks \ {c} : pay[d] = "idle"
  BY <1>3 DEF InboxInv, InboxTypeOK, OneClick, Unpaid, PaidIsFinal, PaymentsQuiet
<1>4. CASE PayRejected(c)
  BY <1>1, <1>3, <1>4
     DEF PayRejected, InboxInv, InboxTypeOK, OneHandler, OneClick, Unsent, Clicked, Unpaid,
         Waited, PaidIsFinal, HandlersQuiet, PaymentsQuiet
<1>5. CASE PayStarts(c)
  BY <1>1, <1>3, <1>5
     DEF PayStarts, InboxInv, InboxTypeOK, OneHandler, OneClick, Unsent, Clicked, Unpaid,
         Waited, PaidIsFinal, HandlersQuiet, PaymentsQuiet
<1>6. CASE PaySends(c)
  BY <1>1, <1>3, <1>6
     DEF PaySends, InboxInv, InboxTypeOK, OneHandler, OneClick, Unsent, Clicked, Unpaid,
         Waited, PaidIsFinal, HandlersQuiet, PaymentsQuiet
<1>7. CASE PayEnds(c)
  BY <1>1, <1>3, <1>7
     DEF PayEnds, InboxInv, InboxTypeOK, OneHandler, OneClick, Unsent, Clicked, Unpaid,
         Waited, PaidIsFinal, HandlersQuiet, PaymentsQuiet
<1>8. CASE PayUnanswered(c)
  BY <1>1, <1>3, <1>8
     DEF PayUnanswered, InboxInv, InboxTypeOK, OneHandler, OneClick, Unsent, Clicked, Unpaid,
         Waited, PaidIsFinal, HandlersQuiet, PaymentsQuiet
<1> QED
  BY <1>2, <1>4, <1>5, <1>6, <1>7, <1>8 DEF PayGoesOn

\* The node settles or gives up, or the server restarts.
LEMMA OthersKeep ==
    ASSUME InboxInv, NodeSettles \/ NodeFails \/ Restart \/ UNCHANGED inboxVars
    PROVE  InboxInv'
<1> USE InboxAssumption DEF message, counts
<1>1. InboxTypeOK'
  <2>1. CASE NodeSettles \/ UNCHANGED inboxVars
    BY <2>1 DEF NodeSettles, inboxVars, InboxInv, InboxTypeOK
  <2>2. CASE NodeFails
    BY <2>2 DEF NodeFails, InboxInv, InboxTypeOK
  <2>3. CASE Restart
    <3>1. halved' \in BOOLEAN
      BY <2>3 DEF Restart, InboxInv, InboxTypeOK
    <3>2. cuts' \in 0 .. MaxCuts
      BY <2>3 DEF Restart, InboxInv, InboxTypeOK
    <3>3. /\ handler' \in [Handlers -> {"idle", "listed", "relay", "write"}]
          /\ pay' \in [Clicks -> {"idle", "decode", "send", "wait", "refused"}]
      BY <2>3 DEF Restart
    <3> QED
      BY <2>3, <3>1, <3>2, <3>3 DEF Restart, InboxInv, InboxTypeOK
  <2> QED
    BY <2>1, <2>2, <2>3
<1>2. CASE NodeSettles
  BY <1>1, <1>2
     DEF NodeSettles, InboxInv, InboxTypeOK, OneHandler, OneClick, Unsent, Clicked, Unpaid,
         Waited, PaidIsFinal, HandlersQuiet, PaymentsQuiet
<1>3. CASE NodeFails
  BY <1>1, <1>3
     DEF NodeFails, InboxInv, InboxTypeOK, OneHandler, OneClick, Unsent, Clicked, Unpaid,
         Waited, PaidIsFinal, HandlersQuiet, PaymentsQuiet
<1>4. CASE Restart
  BY <1>1, <1>4
     DEF Restart, InboxInv, InboxTypeOK, OneHandler, OneClick, Unsent, Clicked, Unpaid,
         Waited, PaidIsFinal, HandlersQuiet, PaymentsQuiet
<1>5. CASE UNCHANGED inboxVars
  BY <1>1, <1>5
     DEF inboxVars, InboxInv, InboxTypeOK, OneHandler, OneClick, Unsent, Clicked, Unpaid,
         Waited, PaidIsFinal, HandlersQuiet, PaymentsQuiet
<1> QED
  BY <1>2, <1>3, <1>4, <1>5

LEMMA InboxStepInv == ASSUME Gentle PROVE InboxInv /\ [InboxNext]_inboxVars => InboxInv'
<1> SUFFICES ASSUME InboxInv, [InboxNext]_inboxVars PROVE InboxInv'
  OBVIOUS
<1> QED
  BY ArrivalsKeep, HandlersKeep, PaymentsKeep, OthersKeep DEF InboxNext, Handlers
-----------------------------------------------------------------------------
LEMMA InboxAlways == ASSUME Gentle PROVE InboxSpec => []InboxInv
BY InboxInitInv, InboxStepInv, PTL DEF InboxSpec

\* However often a transaction is heard and the passphrase saved, the Bitcoin
\* node is handed it once, if the operator waits for one save to end.
THEOREM TransactionsGoOnce == ASSUME Gentle PROVE InboxSpec => [](InboxTypeOK /\ RelayedOnce)
<1>1. InboxInv => InboxTypeOK /\ RelayedOnce
  BY DEF InboxInv, RelayedOnce
<1> QED
  BY InboxAlways, <1>1, PTL

\* Between payments the row of an invoice tells what became of the money, if
\* the operator waits for one click to end.
THEOREM RowsTellPayments == ASSUME Gentle PROVE InboxSpec => []RowTellsPayment
<1>1. InboxInv => RowTellsPayment
  BY DEF InboxInv, InboxTypeOK, Waited, PaidIsFinal, PaymentsQuiet, RowTellsPayment
<1> QED
  BY InboxAlways, <1>1, PTL
-----------------------------------------------------------------------------
(* What holds also of an operator who does not wait.                         *)

\* The handlers that may yet send the transaction.
Due == {h \in Handlers : handler[h] \in {"listed", "relay"}}
Sendings == sentTx + Cardinality(Due)

\* Each save of a passphrase lists a locked message once, and what was opened
\* when it was heard is listed by none.
DueInv ==
    /\ IsFiniteSet(Due)
    /\ stored = "no" => Due = {} /\ sentTx = 0
    /\ stored = "locked" => sealed /\ Sendings <= saves
    /\ stored = "open" => Sendings <= 1 \/ (sealed /\ Sendings <= saves)

\* Types but for the number of sendings.
OtherInboxTypes ==
    /\ kind \in Kinds /\ sealed \in BOOLEAN /\ right \in BOOLEAN /\ opted \in BOOLEAN
    /\ stored \in {"no", "locked", "open"}
    /\ relay \in RelayStatuses
    /\ handler \in [Handlers -> {"idle", "listed", "relay", "write"}]
    /\ pay \in [Clicks -> {"idle", "decode", "send", "wait", "refused"}]
    /\ node \in {"open", "flying", "settled"}
    /\ sentTx \in Nat
    /\ halved \in BOOLEAN
    /\ tries \in 0 .. MaxTries /\ saves \in 0 .. MaxSaves /\ cuts \in 0 .. MaxCuts

\* No more is paid than was clicked on, and what is shown as paid is.
ClickedOn ==
    /\ \A c \in Clicks : pay[c] # "idle" => tries > 0 /\ kind = "invoice"
    /\ node # "open" => tries > 0 /\ kind = "invoice"
    /\ relay = "paid" => node = "settled"

PaySteps ==
    \/ NodeSettles \/ NodeFails
    \/ \E c \in Clicks : Pay(c) \/ PayGoesOn(c) \/ PayUnanswered(c)

LEMMA PayStepTypes ==
    ASSUME OtherInboxTypes, ClickedOn, PaySteps
    PROVE  /\ OtherInboxTypes' /\ ClickedOn'
           /\ UNCHANGED <<kind, sealed, stored, handler, sentTx, saves>>
<1> USE InboxAssumption DEF PayIs, message, counts
<1>1. CASE NodeSettles
  BY <1>1 DEF NodeSettles, OtherInboxTypes, ClickedOn
<1>2. CASE NodeFails
  <2>1. pay' \in [Clicks -> {"idle", "decode", "send", "wait", "refused"}]
    BY <1>2 DEF NodeFails, OtherInboxTypes
  <2> QED
    BY <1>2, <2>1 DEF NodeFails, OtherInboxTypes, ClickedOn
<1>3. ASSUME NEW c \in Clicks, Pay(c) \/ PayGoesOn(c) \/ PayUnanswered(c)
      PROVE  /\ OtherInboxTypes' /\ ClickedOn'
             /\ UNCHANGED <<kind, sealed, stored, handler, sentTx, saves>>
  <2>1. UNCHANGED <<kind, sealed, right, opted, stored, handler, sentTx, saves>>
    BY <1>3 DEF Pay, PayGoesOn, PayRejected, PayStarts, PaySends, PayEnds, PayUnanswered
  <2>2. pay' \in [Clicks -> {"idle", "decode", "send", "wait", "refused"}]
    BY <1>3 DEF Pay, PayGoesOn, PayRejected, PayStarts, PaySends, PayEnds, PayUnanswered,
                OtherInboxTypes
  <2>3. relay' = relay \/ relay' \in {"paying", "paid", "pay_failed"}
    BY <1>3 DEF Pay, PayGoesOn, PayRejected, PayStarts, PaySends, PayEnds, PayUnanswered
  <2>4. node' \in {"open", "flying", "settled"} /\ halved' \in BOOLEAN
    BY <1>3 DEF Pay, PayGoesOn, PayRejected, PayStarts, PaySends, PayEnds, PayUnanswered,
                OtherInboxTypes
  <2>5. tries' \in 0 .. MaxTries /\ cuts' \in 0 .. MaxCuts /\ tries <= tries'
    BY <1>3 DEF Pay, PayGoesOn, PayRejected, PayStarts, PaySends, PayEnds, PayUnanswered,
                OtherInboxTypes
  <2>6. OtherInboxTypes'
    BY <2>1, <2>2, <2>3, <2>4, <2>5 DEF OtherInboxTypes, RelayStatuses
  <2>7. \/ pay[c] = "idle" /\ tries' = tries + 1 /\ kind = "invoice"
        \/ pay[c] # "idle" /\ tries > 0 /\ kind = "invoice"
    BY <1>3 DEF Pay, PayGoesOn, PayRejected, PayStarts, PaySends, PayEnds, PayUnanswered, ClickedOn
  <2>8. kind = "invoice" /\ tries' > 0
    BY <2>5, <2>7 DEF OtherInboxTypes
  <2>9. relay' = "paid" => node' = "settled"
    BY <1>3 DEF Pay, PayGoesOn, PayRejected, PayStarts, PaySends, PayEnds, PayUnanswered, ClickedOn
  <2> QED
    BY <2>1, <2>6, <2>8, <2>9 DEF ClickedOn
<1> QED
  BY <1>1, <1>2, <1>3 DEF PaySteps

LEMMA HandlerStepTypes ==
    ASSUME OtherInboxTypes, ClickedOn,
           \/ Hear \/ OptIn \/ Restart \/ UNCHANGED inboxVars
           \/ \E h \in Savings : SavePassphrase(h)
           \/ \E h \in Handlers : HandlerGoesOn(h)
    PROVE  OtherInboxTypes' /\ ClickedOn'
<1> USE InboxAssumption DEF HandlerIs, message, counts
<1>1. CASE Hear
  BY <1>1 DEF Hear, OtherInboxTypes, ClickedOn
<1>2. CASE OptIn \/ UNCHANGED inboxVars
  BY <1>2 DEF OptIn, inboxVars, OtherInboxTypes, ClickedOn
<1>3. CASE Restart
  <2>1. /\ handler' \in [Handlers -> {"idle", "listed", "relay", "write"}]
        /\ pay' \in [Clicks -> {"idle", "decode", "send", "wait", "refused"}]
        /\ \A c \in Clicks : pay'[c] = "idle"
    BY <1>3 DEF Restart
  <2>2. halved' \in BOOLEAN /\ cuts' \in 0 .. MaxCuts
    BY <1>3 DEF Restart, OtherInboxTypes
  <2> QED
    BY <1>3, <2>1, <2>2 DEF Restart, OtherInboxTypes, ClickedOn
<1>4. ASSUME NEW h \in Savings, SavePassphrase(h) PROVE OtherInboxTypes' /\ ClickedOn'
  <2>1. handler' \in [Handlers -> {"idle", "listed", "relay", "write"}]
    BY <1>4 DEF SavePassphrase, OtherInboxTypes
  <2> QED
    BY <1>4, <2>1 DEF SavePassphrase, OtherInboxTypes, ClickedOn
<1>5. ASSUME NEW h \in Handlers, HandlerGoesOn(h) PROVE OtherInboxTypes' /\ ClickedOn'
  <2>1. handler' \in [Handlers -> {"idle", "listed", "relay", "write"}]
    BY <1>5 DEF HandlerGoesOn, Unlock, Relay, RelayWrites, OtherInboxTypes
  <2>2. relay' \in RelayStatuses /\ (relay' = "paid" => relay = "paid")
    BY <1>5 DEF HandlerGoesOn, Unlock, Relay, RelayWrites, OtherInboxTypes, RelayStatuses
  <2>3. stored' \in {"no", "locked", "open"} /\ sentTx' \in Nat
    BY <1>5 DEF HandlerGoesOn, Unlock, Relay, RelayWrites, OtherInboxTypes
  <2>4. UNCHANGED <<kind, sealed, right, opted, pay, node, halved, tries, saves, cuts>>
    BY <1>5 DEF HandlerGoesOn, Unlock, Relay, RelayWrites
  <2> QED
    BY <2>1, <2>2, <2>3, <2>4 DEF OtherInboxTypes, ClickedOn
<1> QED
  BY <1>1, <1>2, <1>3, <1>4, <1>5

\* A handler that is done leaves those due, one that is listed joins them.
LEMMA DueSets ==
    ASSUME IsFiniteSet(Due), NEW h \in Handlers, NEW pc \in {"idle", "listed", "relay", "write"},
           handler \in [Handlers -> {"idle", "listed", "relay", "write"}], HandlerIs(h, pc)
    PROVE  /\ IsFiniteSet(Due') /\ Cardinality(Due) \in Nat
           /\ pc \in {"listed", "relay"} =>
                 Cardinality(Due') = IF h \in Due THEN Cardinality(Due) ELSE Cardinality(Due) + 1
           /\ pc \in {"idle", "write"} =>
                 Cardinality(Due') = IF h \in Due THEN Cardinality(Due) - 1 ELSE Cardinality(Due)
<1>1. /\ handler'[h] = pc
      /\ \A g \in Handlers : g # h => handler'[g] = handler[g]
  BY DEF HandlerIs
<1>2. CASE pc \in {"listed", "relay"}
  <2>1. Due' = Due \cup {h}
    BY <1>1, <1>2 DEF Due
  <2> QED
    BY <1>2, <2>1, FS_AddElement, FS_CardinalityType
<1>3. CASE pc \in {"idle", "write"}
  <2>1. Due' = Due \ {h}
    BY <1>1, <1>3 DEF Due
  <2> QED
    BY <1>3, <2>1, FS_RemoveElement, FS_CardinalityType
<1> QED
  BY <1>2, <1>3

LEMMA DueKept ==
    ASSUME OtherInboxTypes, DueInv, [InboxNext]_inboxVars
    PROVE  DueInv'
<1> USE InboxAssumption DEF message, counts
<1>0. /\ IsFiniteSet(Due) /\ Cardinality(Due) \in Nat /\ sentTx \in Nat /\ saves \in Nat
      /\ handler \in [Handlers -> {"idle", "listed", "relay", "write"}]
      /\ stored \in {"no", "locked", "open"}
  BY FS_CardinalityType DEF DueInv, OtherInboxTypes
<1>1. CASE Hear
  <2>1. "event" \in Handlers /\ stored = "no" /\ Due = {} /\ sentTx = 0 /\ Cardinality(Due) = 0
    BY <1>1, FS_EmptySet DEF Hear, IsNew, DueInv, Handlers
  <2>2. CASE sealed /\ stored' = "locked" /\ UNCHANGED handler
    <3>1. Due' = Due /\ UNCHANGED <<sealed, sentTx, saves>>
      BY <1>1, <2>2 DEF Hear, Due
    <3> QED
      BY <1>0, <2>1, <2>2, <3>1 DEF DueInv, Sendings
  <2>3. CASE stored' = "open" /\ HandlerIs("event", "relay")
    <3>1. IsFiniteSet(Due') /\ Cardinality(Due') = 1
      BY <1>0, <2>1, <2>3, DueSets
    <3>2. sentTx' = 0
      BY <1>1, <2>1 DEF Hear
    <3> QED
      BY <2>3, <3>1, <3>2 DEF DueInv, Sendings
  <2> QED
    BY <1>1, <2>2, <2>3 DEF Hear
<1>2. ASSUME NEW h \in Savings, SavePassphrase(h) PROVE DueInv'
  <2>1. /\ h \in Handlers /\ handler[h] = "idle" /\ h \notin Due
        /\ UNCHANGED <<sealed, stored, sentTx>> /\ saves' = saves + 1
    BY <1>2 DEF SavePassphrase, Handlers, Due
  <2>2. CASE stored = "locked"
    <3>1. HandlerIs(h, "listed")
      BY <1>2, <2>2 DEF SavePassphrase
    <3>2. IsFiniteSet(Due') /\ Cardinality(Due') = Cardinality(Due) + 1
      BY <1>0, <2>1, <3>1, DueSets
    <3> QED
      BY <1>0, <2>1, <2>2, <3>2 DEF DueInv, Sendings
  <2>3. CASE stored # "locked"
    <3>1. HandlerIs(h, "idle")
      BY <1>2, <2>3 DEF SavePassphrase
    <3>2. IsFiniteSet(Due') /\ Due' = Due
      BY <1>0, <2>1, <3>1 DEF HandlerIs, Due
    <3> QED
      BY <1>0, <2>1, <2>3, <3>2 DEF DueInv, Sendings
  <2> QED
    BY <2>2, <2>3
<1>3. ASSUME NEW h \in Handlers, Unlock(h) PROVE DueInv'
  <2>1. h \in Due /\ UNCHANGED <<sealed, sentTx, saves>> /\ stored # "no"
    BY <1>3 DEF Unlock, Due, DueInv
  <2>2. CASE stored' = "open" /\ HandlerIs(h, "relay")
    <3>1. IsFiniteSet(Due') /\ Cardinality(Due') = Cardinality(Due)
      BY <1>0, <2>1, <2>2, DueSets
    <3> QED
      BY <1>0, <2>1, <2>2, <3>1 DEF DueInv, Sendings
  <2>3. CASE HandlerIs(h, "idle") /\ UNCHANGED stored
    <3>1. IsFiniteSet(Due') /\ Cardinality(Due') = Cardinality(Due) - 1
      BY <1>0, <2>1, <2>3, DueSets
    <3> QED
      BY <1>0, <2>1, <2>3, <3>1 DEF DueInv, Sendings
  <2> QED
    BY <1>3, <2>2, <2>3 DEF Unlock
<1>4. ASSUME NEW h \in Handlers, Relay(h) PROVE DueInv'
  <2>1. h \in Due /\ UNCHANGED <<sealed, stored, saves>> /\ stored # "no"
    BY <1>4 DEF Relay, Due, DueInv
  <2>2. /\ HandlerIs(h, "idle") \/ HandlerIs(h, "write")
        /\ sentTx' = sentTx \/ sentTx' = sentTx + 1
    BY <1>4 DEF Relay
  <2>3. IsFiniteSet(Due') /\ Cardinality(Due') = Cardinality(Due) - 1
    BY <1>0, <2>1, <2>2, DueSets
  <2> QED
    BY <1>0, <2>1, <2>2, <2>3 DEF DueInv, Sendings
<1>5. ASSUME NEW h \in Handlers, RelayWrites(h) PROVE DueInv'
  <2>1. h \notin Due /\ UNCHANGED <<sealed, stored, sentTx, saves>> /\ HandlerIs(h, "idle")
    BY <1>5 DEF RelayWrites, Due
  <2>2. Due' = Due
    BY <1>0, <2>1 DEF HandlerIs, Due
  <2> QED
    BY <1>0, <2>1, <2>2 DEF DueInv, Sendings
<1>6. CASE Restart
  <2>1. Due' = {} /\ UNCHANGED <<sealed, stored, sentTx, saves>>
    BY <1>6 DEF Restart, Due
  <2>2. IsFiniteSet(Due') /\ Cardinality(Due') = 0
    BY <2>1, FS_EmptySet
  <2> QED
    BY <1>0, <2>1, <2>2 DEF DueInv, Sendings
<1>7. ASSUME UNCHANGED <<sealed, stored, handler, sentTx, saves>> PROVE DueInv'
  BY <1>7 DEF DueInv, Sendings, Due
<1>8. OptIn \/ UNCHANGED inboxVars \/ PaySteps => UNCHANGED <<sealed, stored, handler, sentTx, saves>>
  BY DEF OptIn, inboxVars, PaySteps, NodeSettles, NodeFails, Pay, PayGoesOn, PayRejected, PayStarts,
         PaySends, PayEnds, PayUnanswered
<1> QED
  BY <1>1, <1>2, <1>3, <1>4, <1>5, <1>6, <1>7, <1>8 DEF InboxNext, HandlerGoesOn, PaySteps

LEMMA SendingsAlways == InboxSpec => [](OtherInboxTypes /\ ClickedOn /\ DueInv)
<1>1. InboxInit => OtherInboxTypes /\ ClickedOn /\ DueInv
  <2> SUFFICES ASSUME InboxInit PROVE OtherInboxTypes /\ ClickedOn /\ DueInv
    OBVIOUS
  <2>1. InboxTypeOK
    BY InboxInitInv DEF InboxInv
  <2>2. Due = {}
    BY DEF InboxInit, Due
  <2> QED
    BY <2>1, <2>2, FS_EmptySet
       DEF InboxInit, InboxTypeOK, OtherInboxTypes, ClickedOn, DueInv
<1>2. OtherInboxTypes /\ ClickedOn /\ DueInv /\ [InboxNext]_inboxVars
        => (OtherInboxTypes /\ ClickedOn /\ DueInv)'
  BY PayStepTypes, HandlerStepTypes, DueKept DEF InboxNext, PaySteps
<1> QED
  BY <1>1, <1>2, PTL DEF InboxSpec

LEMMA SendingsBound ==
    OtherInboxTypes /\ DueInv => sentTx <= 1 \/ (sealed /\ sentTx <= saves)
<1> SUFFICES ASSUME OtherInboxTypes, DueInv PROVE sentTx <= 1 \/ (sealed /\ sentTx <= saves)
  OBVIOUS
<1>1. Cardinality(Due) \in Nat /\ sentTx \in Nat /\ saves \in Nat
  BY FS_CardinalityType, InboxAssumption DEF DueInv, OtherInboxTypes
<1> QED
  BY <1>1 DEF DueInv, OtherInboxTypes, Sendings

\* However often a transaction is heard and the passphrase saved, and whoever
\* waits for whom: one that came in clear is handed to the Bitcoin node once,
\* a sealed one no more often than the passphrase was saved.
THEOREM SentOncePerSave == InboxSpec => [](sentTx <= 1 \/ (sealed /\ sentTx <= saves))
  BY SendingsAlways, SendingsBound, PTL

\* The sendings stay within the type's bound, whoever waits for whom.
THEOREM InboxTypeCorrect == InboxSpec => []InboxTypeOK
<1>1. OtherInboxTypes /\ DueInv => InboxTypeOK
  <2> SUFFICES ASSUME OtherInboxTypes, DueInv PROVE sentTx \in 0 .. 1 + MaxSaves
    BY DEF OtherInboxTypes, InboxTypeOK
  <2> QED
    BY SendingsBound, InboxAssumption DEF OtherInboxTypes
<1> QED
  BY <1>1, SendingsAlways, PTL

\* Nothing is paid but an invoice the operator clicked on, and nothing is shown
\* as paid that the node did not settle, also when two payments of it run at
\* once, answers are lost and the server restarts.
THEOREM PaidMeansSettled ==
    InboxSpec => []( /\ node # "open" => tries > 0 /\ kind = "invoice"
                     /\ relay = "paid" => node = "settled" )
<1>1. ClickedOn => ( /\ node # "open" => tries > 0 /\ kind = "invoice"
                     /\ relay = "paid" => node = "settled" )
  BY DEF ClickedOn
<1> QED
  BY <1>1, SendingsAlways, PTL
-----------------------------------------------------------------------------
(* Invoices of our own. *)

InvoicesInv ==
    /\ request \in [Ours -> {"new", "made", "stored", "done"}]
    /\ invoice \in [Ours -> [at : Nodes \cup {NoNode}, state : {"none", "open", "settled", "canceled"}]]
    /\ shown \in [Ours -> {"none", "unpaid", "paid", "expired"}]
    /\ connected \in Nodes \cup {NoNode}
    /\ \A i \in Ours :
          /\ request[i] = "new" => invoice[i].state = "none"
          /\ shown[i] = "paid" => invoice[i].state = "settled"
          /\ shown[i] = "expired" => invoice[i].state = "canceled"

LEMMA InvoicesStep ==
    ASSUME InvoicesInv, [InvoicesNext]_invoiceVars
    PROVE  InvoicesInv'
<1> USE DEF RequestIs
<1>1. CASE UNCHANGED invoiceVars
  BY <1>1 DEF invoiceVars, InvoicesInv
<1>2. CASE \/ \E n \in Nodes : ConnectNode(n)
           \/ AnyMessage \/ WatchBegins \/ RequestsLost
           \/ \E k \in DOMAIN messages : DeleteMessage(k)
  <2>1. UNCHANGED <<invoice, shown>> /\ connected' \in Nodes \cup {NoNode}
    BY <1>2 DEF ConnectNode, AnyMessage, WatchBegins, RequestsLost, DeleteMessage, InvoicesInv
  <2>2. /\ request' \in [Ours -> {"new", "made", "stored", "done"}]
        /\ \A i \in Ours : request'[i] = request[i] \/ request'[i] = "done"
    BY <1>2 DEF ConnectNode, AnyMessage, WatchBegins, RequestsLost, DeleteMessage, InvoicesInv
  <2> QED
    BY <2>1, <2>2 DEF InvoicesInv
<1>3. ASSUME NEW i \in Ours, RequestInvoice(i) PROVE InvoicesInv'
  <2> DEFINE new == [at |-> connected, state |-> "open"]
  <2>1. new \in [at : Nodes \cup {NoNode}, state : {"none", "open", "settled", "canceled"}]
    BY DEF InvoicesInv
  <2>2. invoice' = [invoice EXCEPT ![i] = new]
    BY <1>3 DEF RequestInvoice
  <2> HIDE DEF new
  <2>3. shown[i] \notin {"paid", "expired"}
    BY <1>3 DEF RequestInvoice, InvoicesInv
  <2> QED
    BY <1>3, <2>1, <2>2, <2>3 DEF RequestInvoice, InvoicesInv
<1>4. ASSUME NEW i \in Ours, RequestStores(i) PROVE InvoicesInv'
  BY <1>4 DEF RequestStores, InvoicesInv
<1>5. ASSUME NEW i \in Ours, RequestMarks(i) PROVE InvoicesInv'
  BY <1>5 DEF RequestMarks, InvoicesInv
<1>6. ASSUME NEW i \in Ours, NodeCloses(i) PROVE InvoicesInv'
  <2>1. PICK s \in {"settled", "canceled"} : invoice' = [invoice EXCEPT ![i].state = s]
    BY <1>6 DEF NodeCloses
  <2>2. /\ invoice' \in [Ours -> [at : Nodes \cup {NoNode}, state : {"none", "open", "settled", "canceled"}]]
        /\ \A j \in Ours : j # i => invoice'[j] = invoice[j]
    BY <2>1 DEF InvoicesInv
  <2>3. invoice[i].state = "open"
    BY <1>6 DEF NodeCloses
  <2> QED
    BY <1>6, <2>2, <2>3 DEF NodeCloses, InvoicesInv
<1>7. ASSUME NEW i \in Ours, WatchLooks(i) PROVE InvoicesInv'
  <2>1. Answered(i) /\ UNCHANGED <<connected, messages, request, invoice, events>>
    BY <1>7 DEF WatchLooks
  <2>2. invoice[i].state \in {"none", "open", "settled", "canceled"}
    BY DEF InvoicesInv
  <2>3. \E v : /\ shown' = [shown EXCEPT ![i] = v]
               /\ \/ invoice[i].state = "settled" /\ v = "paid"
                  \/ invoice[i].state = "canceled" /\ v = "expired"
                  \/ invoice[i].state \notin {"settled", "canceled"} /\ v = shown[i]
    BY <2>1, <2>2 DEF Answered
  <2> QED
    BY <2>1, <2>3 DEF InvoicesInv
<1>8. ASSUME NEW i \in Ours, WatchFails(i) PROVE InvoicesInv'
  BY <1>8 DEF WatchFails, InvoicesInv
<1> QED
  BY <1>1, <1>2, <1>3, <1>4, <1>5, <1>6, <1>7, <1>8 DEF InvoicesNext

\* What is shown of an invoice is what the node it is at made of it, though passes
\* of the watcher overlap requests, deletions, other nodes and restarts.
THEOREM ShownAsToldByNode ==
    InvoicesSpec => []( \A i \in Ours : /\ shown[i] = "paid" => invoice[i].state = "settled"
                                        /\ shown[i] = "expired" => invoice[i].state = "canceled" )
<1>1. InvoicesInit => InvoicesInv
  BY InvoicesAssumption DEF InvoicesInit, InvoicesInv
<1>2. InvoicesInv /\ [InvoicesNext]_invoiceVars => InvoicesInv'
  BY InvoicesStep
<1>3. InvoicesInv => \A i \in Ours : /\ shown[i] = "paid" => invoice[i].state = "settled"
                                     /\ shown[i] = "expired" => invoice[i].state = "canceled"
  BY DEF InvoicesInv
<1> QED
  BY <1>1, <1>2, <1>3, PTL DEF InvoicesSpec

\* The rows that a pass of the watcher reads are a finite sequence of ours, all
\* shown as unpaid.
LEMMA PassReadsOurs ==
    ASSUME messages \in Seq(Ours \cup {Other}),
           NEW place \in [1 .. Cardinality(Unsettled) -> Unsettled],
           watch' = [k \in DOMAIN place |-> messages[place[k]]]
    PROVE  watch' \in Seq(Ours) /\ \A k \in DOMAIN watch' : shown[watch'[k]] = "unpaid"
<1>1. Cardinality(Unsettled) \in Nat
  <2>1. IsFiniteSet(DOMAIN messages)
    BY FS_Interval
  <2> QED
    BY <2>1, FS_Subset, FS_CardinalityType DEF Unsettled
<1>2. \A k \in 1 .. Cardinality(Unsettled) :
          messages[place[k]] \in Ours /\ shown[messages[place[k]]] = "unpaid"
  BY DEF Unsettled
<1> PICK n \in Nat : n = Cardinality(Unsettled)
  BY <1>1
<1>3. watch' = [k \in 1 .. n |-> messages[place[k]]]
  OBVIOUS
<1>4. watch' \in [1 .. n -> Ours] /\ DOMAIN watch' = 1 .. n
  BY <1>2, <1>3
<1>5. watch' \in Seq(Ours)
  <2> DEFINE w == watch'
  <2>1. w \in [1 .. n -> Ours]
    BY <1>4
  <2> HIDE DEF w
  <2>2. w \in Seq(Ours)
    BY <2>1
  <2> QED
    BY <2>2 DEF w
<1> QED
  BY <1>2, <1>3, <1>4, <1>5

\* Sequences and counters of the invoices.
WatchInv ==
    /\ InvoicesInv
    /\ messages \in Seq(Ours \cup {Other})
    /\ watch \in Seq(Ours)
    /\ events \in 0 .. MaxEvents
    \* A row is ours to watch once its handler is done with it.
    /\ \A i \in Ours : request[i] # "done" => shown[i] = "none"
    /\ \A k \in DOMAIN watch : shown[watch[k]] # "none"

LEMMA WatchStep ==
    ASSUME WatchInv, [InvoicesNext]_invoiceVars
    PROVE  WatchInv' /\ \A i \in Ours : shown[i] \in {"paid", "expired"} => shown'[i] = shown[i]
<1> USE InvoicesAssumption DEF InvoiceEvent, RequestIs
<1>i. InvoicesInv'
  BY InvoicesStep DEF WatchInv
<1>t. /\ messages \in Seq(Ours \cup {Other}) /\ watch \in Seq(Ours) /\ events \in 0 .. MaxEvents
      /\ request \in [Ours -> {"new", "made", "stored", "done"}]
      /\ shown \in [Ours -> {"none", "unpaid", "paid", "expired"}]
      /\ \A i \in Ours : request[i] # "done" => shown[i] = "none"
      /\ \A k \in DOMAIN watch : shown[watch[k]] # "none"
  BY DEF WatchInv, InvoicesInv
<1>0. ASSUME UNCHANGED shown, messages' \in Seq(Ours \cup {Other}), events' \in 0 .. MaxEvents,
             watch' = watch \/ watch' = <<>>,
             \A i \in Ours : request'[i] # "done" => request[i] # "done"
      PROVE  WatchInv' /\ \A i \in Ours : shown[i] \in {"paid", "expired"} => shown'[i] = shown[i]
  <2>1. watch' \in Seq(Ours) /\ \A k \in DOMAIN watch' : shown'[watch'[k]] # "none"
    <3>1. CASE watch' = watch
      BY <3>1, <1>0, <1>t
    <3>2. CASE watch' = <<>>
      BY <3>2
    <3> QED
      BY <1>0, <3>1, <3>2
  <2> QED
    BY <1>0, <1>i, <1>t, <2>1 DEF WatchInv
<1>1. CASE UNCHANGED invoiceVars
  BY <1>1, <1>0, <1>t DEF invoiceVars
<1>2. ASSUME NEW n \in Nodes, ConnectNode(n) PROVE UNCHANGED <<shown, watch, messages, request>> /\ events' \in 0 .. MaxEvents
  BY <1>2, <1>t DEF ConnectNode
<1>3. ASSUME NEW i \in Ours, RequestInvoice(i) \/ NodeCloses(i)
      PROVE  /\ UNCHANGED <<shown, watch, messages, events>>
             /\ \A j \in Ours : request'[j] # "done" => request[j] # "done"
  BY <1>3, <1>t DEF RequestInvoice, NodeCloses
<1>4. ASSUME NEW m \in Ours \cup {Other}, StoreMessage(m) PROVE messages' \in Seq(Ours \cup {Other})
  BY <1>4, <1>t DEF StoreMessage
<1>5. ASSUME NEW i \in Ours, RequestStores(i)
      PROVE  /\ UNCHANGED <<shown, watch, events>> /\ messages' \in Seq(Ours \cup {Other})
             /\ \A j \in Ours : request'[j] # "done" => request[j] # "done"
  <2>1. messages' \in Seq(Ours \cup {Other})
    BY <1>5, <1>4, <1>t DEF RequestStores
  <2> QED
    BY <1>5, <2>1, <1>t DEF RequestStores
<1>6. CASE AnyMessage
  BY <1>6, <1>0, <1>4, <1>t DEF AnyMessage
<1>7. ASSUME NEW k \in DOMAIN messages, DeleteMessage(k)
      PROVE  UNCHANGED <<shown, watch, request>> /\ messages' \in Seq(Ours \cup {Other}) /\ events' \in 0 .. MaxEvents
  <2>1. SubSeq(messages, 1, k - 1) \in Seq(Ours \cup {Other})
        /\ SubSeq(messages, k + 1, Len(messages)) \in Seq(Ours \cup {Other})
    BY <1>t
  <2> QED
    BY <1>7, <1>t, <2>1 DEF DeleteMessage, RemoveAt
<1>8. CASE RequestsLost
  BY <1>8, <1>0, <1>t DEF RequestsLost
<1>9. ASSUME NEW i \in Ours, WatchFails(i)
      PROVE  UNCHANGED <<shown, messages, request>> /\ watch' = <<>> /\ events' \in 0 .. MaxEvents
  BY <1>9, <1>t DEF WatchFails
<1>10. CASE WatchBegins
  <2>1. PICK place \in [1 .. Cardinality(Unsettled) -> Unsettled] :
            watch' = [k \in DOMAIN place |-> messages[place[k]]]
    BY <1>10 DEF WatchBegins
  <2>2. watch' \in Seq(Ours) /\ \A k \in DOMAIN watch' : shown[watch'[k]] = "unpaid"
    BY <2>1, <1>t, PassReadsOurs
  <2> QED
    BY <1>10, <1>i, <1>t, <2>2 DEF WatchBegins, WatchInv
<1>11. ASSUME NEW i \in Ours, RequestMarks(i)
       PROVE  WatchInv' /\ \A j \in Ours : shown[j] \in {"paid", "expired"} => shown'[j] = shown[j]
  <2>1. shown[i] = "none"
    BY <1>11, <1>t DEF RequestMarks
  <2>2. \A k \in DOMAIN watch : watch[k] \in Ours /\ shown'[watch[k]] # "none"
    BY <1>11, <1>t DEF RequestMarks
  <2> QED
    BY <1>11, <1>i, <1>t, <2>1, <2>2 DEF RequestMarks, WatchInv
<1>12. ASSUME NEW i \in Ours, WatchLooks(i)
       PROVE  WatchInv' /\ \A j \in Ours : shown[j] \in {"paid", "expired"} => shown'[j] = shown[j]
  <2>1. /\ watch' \in Seq(Ours) /\ 1 \in DOMAIN watch /\ watch[1] = i
        /\ \A k \in DOMAIN watch' : k + 1 \in DOMAIN watch /\ watch'[k] = watch[k + 1]
    BY <1>12, <1>t DEF WatchLooks
  <2>2. shown[i] # "none" /\ request[i] = "done"
    BY <2>1, <1>t
  <2>3. Answered(i) /\ UNCHANGED <<connected, messages, request, invoice, events>>
    BY <1>12 DEF WatchLooks
  <2>4. \E v : /\ shown' = [shown EXCEPT ![i] = v]
               /\ \/ invoice[i].state = "settled" /\ v = "paid"
                  \/ invoice[i].state = "canceled" /\ v = "expired"
                  \/ invoice[i].state \notin {"settled", "canceled"} /\ v = shown[i]
    <3>1. invoice[i].state \in {"none", "open", "settled", "canceled"}
      BY DEF WatchInv, InvoicesInv
    <3> QED
      BY <2>3, <3>1 DEF Answered
  <2>5. /\ shown[i] = "paid" => invoice[i].state = "settled"
        /\ shown[i] = "expired" => invoice[i].state = "canceled"
    BY DEF WatchInv, InvoicesInv
  <2>6. \A j \in Ours : shown[j] \in {"paid", "expired"} => shown'[j] = shown[j]
    BY <2>4, <2>5, <1>t
  <2>7. \A j \in Ours : (shown[j] = "none" <=> shown'[j] = "none")
    BY <2>2, <2>4, <1>t
  <2>8. \A k \in DOMAIN watch' : shown'[watch'[k]] # "none"
    BY <2>1, <2>7, <1>t
  <2> QED
    BY <1>i, <1>t, <2>1, <2>3, <2>6, <2>7, <2>8 DEF WatchInv
<1> QED
  BY <1>0, <1>1, <1>2, <1>3, <1>5, <1>6, <1>7, <1>8, <1>9, <1>10, <1>11, <1>12, <1>t DEF InvoicesNext

LEMMA WatchAlways == InvoicesSpec => []WatchInv
<1>1. InvoicesInit => WatchInv
  BY InvoicesAssumption DEF InvoicesInit, InvoicesInv, WatchInv
<1> QED
  BY <1>1, WatchStep, PTL DEF InvoicesSpec

\* The rows and the pass of the watcher keep their types through deletions,
\* other nodes and restarts.
THEOREM InvoicesTypeCorrect == InvoicesSpec => []InvoicesTypeOK
<1>1. WatchInv => InvoicesTypeOK
  BY DEF WatchInv, InvoicesInv, InvoicesTypeOK
<1> QED
  BY <1>1, WatchAlways, PTL

\* A row that was shown as paid or expired stays so: neither the late mark of
\* its own request (lightning_request's update_message) nor a lookup of a pass
\* that began before (_check_invoices) takes it back to unpaid.
THEOREM ShownIsFinal ==
    InvoicesSpec => [][\A i \in Ours : shown[i] \in {"paid", "expired"} => shown'[i] = shown[i]]_invoiceVars
  BY WatchAlways, WatchStep, PTL DEF InvoicesSpec
=============================================================================
