------------------------------- MODULE Inbox -------------------------------
(***************************************************************************)
(* One received BitLink21 message: how it is stored once however often it  *)
(* is heard, unlocked when the passphrase is known, handed to the Bitcoin  *)
(* or Lightning side once, and, an invoice, paid when the operator clicks. *)
(* The handlers are coroutines on one event loop and interleave where they *)
(* await the database or a node.  The Lightning node is external.          *)
(***************************************************************************)
EXTENDS Naturals, FiniteSets

CONSTANTS
    Clicks,   \* lightning_pay calls that may run at once
    Savings,  \* update_settings calls with a passphrase that may run at once
    MaxTries, \* bound: lightning_pay calls
    MaxSaves, \* bound: update_settings calls with a passphrase
    MaxCuts,  \* bound: answers of the node lost, and restarts of the server
    Gentle    \* whether the operator waits for the handlers before clicking or
              \* saving again (nothing in the code makes them)

ASSUME InboxAssumption ==
    /\ MaxTries \in Nat /\ MaxSaves \in Nat /\ MaxCuts \in Nat
    /\ Gentle \in BOOLEAN /\ "event" \notin Savings

VARIABLES
    kind,    \* the payload type of the message
    sealed,  \* whether it is encrypted
    right,   \* whether settings["passphrase"] opens it
    opted,   \* settings["bitcoin"]["relay_enabled"]
    stored,  \* its row: "no", "locked", "open"
    relay,   \* relay_status of the row
    handler, \* who may relay it: the worker event and each saved passphrase
    pay,     \* each lightning_pay
    node,    \* the invoice at our Lightning node: "open", "flying", "settled"
    sentTx,  \* sendrawtransaction calls made
    halved,  \* whether a handler or a payment was cut short
    tries, saves, cuts

inboxVars == <<kind, sealed, right, opted, stored, relay, handler, pay, node, sentTx,
              halved, tries, saves, cuts>>
message == <<kind, sealed>>
counts == <<halved, tries, saves, cuts>>

Kinds == {"text", "invoice", "bitcoin"}
Handlers == Savings \cup {"event"}
RelayStatuses == {"none", "unpaid", "disabled", "success", "error", "paying", "paid", "pay_failed"}
HandlersQuiet == \A h \in Handlers : handler[h] = "idle"
PaymentsQuiet == \A c \in Clicks : pay[c] = "idle"

InboxTypeOK ==
    /\ kind \in Kinds /\ sealed \in BOOLEAN /\ right \in BOOLEAN /\ opted \in BOOLEAN
    /\ stored \in {"no", "locked", "open"}
    /\ relay \in RelayStatuses
    /\ handler \in [Handlers -> {"idle", "listed", "relay", "write"}]
    /\ pay \in [Clicks -> {"idle", "decode", "send", "wait", "refused"}]
    /\ node \in {"open", "flying", "settled"}
    /\ sentTx \in 0 .. 1 + MaxSaves
    /\ halved \in BOOLEAN
    /\ tries \in 0 .. MaxTries /\ saves \in 0 .. MaxSaves /\ cuts \in 0 .. MaxCuts

InboxInit ==
    /\ kind \in Kinds /\ sealed \in BOOLEAN /\ right \in BOOLEAN /\ opted \in BOOLEAN
    /\ stored = "no" /\ relay = "none"
    /\ handler = [h \in Handlers |-> "idle"]
    /\ pay = [c \in Clicks |-> "idle"]
    /\ node = "open"
    /\ sentTx = 0 /\ halved = FALSE
    /\ tries = 0 /\ saves = 0 /\ cuts = 0

HandlerIs(h, pc) == handler' = [handler EXCEPT ![h] = pc]
PayIs(c, pc) == pay' = [pay EXCEPT ![c] = pc]
-----------------------------------------------------------------------------
(* _on_file and _unlock_messages. *)

\* A mutant: duplicates are handled again.
IsAlwaysNew == TRUE

\* Heard again, the message is a duplicate and is not handled.
IsNew == stored = "no"

\* A file with our envelope: stored, locked while we cannot read it.
Hear ==
    /\ handler["event"] = "idle"
    /\ IsNew
    /\ IF sealed /\ ~right
       THEN stored' = "locked" /\ UNCHANGED handler
       ELSE stored' = "open" /\ HandlerIs("event", "relay")
    /\ UNCHANGED <<message, right, opted, relay, pay, node, sentTx, counts>>

\* update_settings with a passphrase: the locked rows are listed.
SavePassphrase(h) ==
    /\ handler[h] = "idle"
    /\ saves < MaxSaves /\ saves' = saves + 1
    /\ Gentle => HandlersQuiet
    /\ right' \in BOOLEAN
    /\ HandlerIs(h, IF stored = "locked" THEN "listed" ELSE "idle")
    /\ UNCHANGED <<message, opted, stored, relay, pay, node, sentTx, halved, tries, cuts>>

\* A mutant: what is unlocked is not handed on.
UnlockOnly(h) ==
    /\ handler[h] = "listed"
    /\ stored' = IF right THEN "open" ELSE stored
    /\ HandlerIs(h, "idle")
    /\ UNCHANGED <<message, right, opted, relay, pay, node, sentTx, counts>>

\* A listed row is decoded with the passphrase there is now.
Unlock(h) ==
    /\ handler[h] = "listed"
    /\ IF right THEN stored' = "open" /\ HandlerIs(h, "relay")
       ELSE HandlerIs(h, "idle") /\ UNCHANGED stored
    /\ UNCHANGED <<message, right, opted, relay, pay, node, sentTx, counts>>

\* update_settings of the Bitcoin relay.
OptIn ==
    /\ Gentle => HandlersQuiet
    /\ opted' = ~opted
    /\ UNCHANGED <<message, right, stored, relay, handler, pay, node, sentTx, counts>>
-----------------------------------------------------------------------------
(* _relay: an invoice is looked up at our node, a transaction is sent to    *)
(* the Bitcoin node when the operator opted in; then the row is written.    *)

Relay(h) ==
    /\ handler[h] = "relay"
    /\ \/ kind = "text" /\ HandlerIs(h, "idle") /\ UNCHANGED <<relay, sentTx>>
       \/ kind = "invoice" /\ HandlerIs(h, "write") /\ UNCHANGED <<relay, sentTx>>
       \/ /\ kind = "bitcoin" /\ opted
          /\ sentTx' = sentTx + 1
          /\ HandlerIs(h, "write") /\ UNCHANGED relay
       \/ /\ kind = "bitcoin" /\ ~opted
          /\ relay' = "disabled"
          /\ HandlerIs(h, "idle") /\ UNCHANGED sentTx
    /\ UNCHANGED <<message, right, opted, stored, pay, node, counts>>

RelayWrites(h) ==
    /\ handler[h] = "write"
    /\ relay' \in IF kind = "invoice" THEN {"unpaid"} ELSE {"success", "error"}
    /\ HandlerIs(h, "idle")
    /\ UNCHANGED <<message, right, opted, stored, pay, node, sentTx, counts>>
-----------------------------------------------------------------------------
(* lightning_pay. *)

\* A mutant: an invoice that is paid may be paid again.
PayableIfIdle == relay # "paying"

Payable == relay \notin {"paid", "paying"}

\* The row is read and checked, and the node asked to decode the invoice.
Pay(c) ==
    /\ pay[c] = "idle"
    /\ kind = "invoice" /\ stored = "open" /\ Payable
    /\ tries < MaxTries /\ tries' = tries + 1
    /\ Gentle => PaymentsQuiet /\ HandlersQuiet
    /\ PayIs(c, "decode")
    /\ UNCHANGED <<message, right, opted, stored, relay, handler, node, sentTx, halved, saves, cuts>>

\* Unreadable, without an amount, or expired: an error for the operator.
PayRejected(c) ==
    /\ pay[c] = "decode"
    /\ PayIs(c, "idle")
    /\ UNCHANGED <<message, right, opted, stored, relay, handler, node, sentTx, counts>>

PayStarts(c) ==
    /\ pay[c] = "decode"
    /\ relay' = "paying"
    /\ PayIs(c, "send")
    /\ UNCHANGED <<message, right, opted, stored, handler, node, sentTx, counts>>

\* The node may be unreachable; it refuses an invoice it pays or has paid.
PaySends(c) ==
    /\ pay[c] = "send"
    /\ \/ PayIs(c, "refused") /\ UNCHANGED node
       \/ node = "open" /\ node' = "flying" /\ PayIs(c, "wait")
    /\ UNCHANGED <<message, right, opted, stored, relay, handler, sentTx, counts>>

NodeSettles ==
    /\ node = "flying"
    /\ node' = "settled"
    /\ UNCHANGED <<message, right, opted, stored, relay, handler, pay, sentTx, counts>>

NodeFails ==
    /\ node = "flying"
    /\ node' = "open"
    /\ pay' = [c \in Clicks |-> IF pay[c] = "wait" THEN "refused" ELSE pay[c]]
    /\ UNCHANGED <<message, right, opted, stored, relay, handler, sentTx, counts>>

\* The answer does not come in time, or the connection breaks: an LndError,
\* whatever the node does meanwhile.
PayUnanswered(c) ==
    /\ pay[c] = "wait"
    /\ cuts < MaxCuts /\ cuts' = cuts + 1
    /\ PayIs(c, "refused")
    /\ halved' = TRUE
    /\ UNCHANGED <<message, right, opted, stored, relay, handler, node, sentTx, tries, saves>>

PayEnds(c) ==
    /\ \/ pay[c] = "wait" /\ node = "settled" /\ relay' = "paid"
       \/ pay[c] = "refused" /\ relay' = "pay_failed"
    /\ PayIs(c, "idle")
    /\ UNCHANGED <<message, right, opted, stored, handler, node, sentTx, counts>>

\* The server restarts: the rows and the settings stay, the coroutines do not.
Restart ==
    /\ cuts < MaxCuts /\ cuts' = cuts + 1
    /\ handler' = [h \in Handlers |-> "idle"]
    /\ pay' = [c \in Clicks |-> "idle"]
    /\ halved' = (halved \/ ~HandlersQuiet \/ ~PaymentsQuiet)
    /\ UNCHANGED <<message, right, opted, stored, relay, node, sentTx, tries, saves>>
-----------------------------------------------------------------------------
PayGoesOn(c) == PayRejected(c) \/ PayStarts(c) \/ PaySends(c) \/ PayEnds(c)
HandlerGoesOn(h) == Unlock(h) \/ Relay(h) \/ RelayWrites(h)

InboxNext ==
    \/ Hear \/ OptIn \/ NodeSettles \/ NodeFails \/ Restart
    \/ \E h \in Savings : SavePassphrase(h)
    \/ \E h \in Handlers : HandlerGoesOn(h)
    \/ \E c \in Clicks : Pay(c) \/ PayGoesOn(c) \/ PayUnanswered(c)

InboxSpec == InboxInit /\ [][InboxNext]_inboxVars

\* A coroutine goes on, and the node answers; each does so finitely often after
\* a click or a message, so that they need no fairness apart.
InboxGoesOn ==
    \/ NodeSettles \/ NodeFails
    \/ \E h \in Handlers : HandlerGoesOn(h)
    \/ \E c \in Clicks : PayGoesOn(c)
InboxFairness == WF_inboxVars(InboxGoesOn)
-----------------------------------------------------------------------------
\* An invoice is paid "only on the operator's click; never twice": two calls
\* are never both past the check that it is neither paid nor being paid.
OnePayment ==
    \A c, d \in Clicks : pay[c] \in {"send", "wait"} /\ pay[d] \in {"send", "wait"} => c = d

\* The row tells what became of the money once no payment is under way: it is
\* never shown as paid for nothing, and a payment that was settled is shown,
\* also after the operator clicked again, unless the node's answer was lost.
RowTellsPayment ==
    kind = "invoice" /\ PaymentsQuiet =>
        /\ relay = "paid" => node = "settled"
        /\ node = "settled" => relay = "paid" \/ halved

\* A transaction is handed to the Bitcoin node once, however often it is
\* heard or the passphrase is saved.
RelayedOnce == sentTx <= 1

\* What can be read is handed on, and a payment that began ends, unless the
\* server restarted in the middle of it: nothing takes it up again.
RelayHappens ==
    []<>(stored = "open" /\ kind # "text" /\ ~halved => relay \notin {"none", "paying"})
=============================================================================
