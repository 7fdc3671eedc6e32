------------------------------ MODULE Invoices ------------------------------
(***************************************************************************)
(* Invoices of our own: lightning_request has our Lightning node make one  *)
(* and sends it over the satellite; a watcher asks the node, one lookup    *)
(* after another, what became of those whose rows say "unpaid".  The node  *)
(* is external, and the operator may connect another.                      *)
(***************************************************************************)
EXTENDS Naturals, Sequences, FiniteSets, SequencesExt

CONSTANTS
    Ours,         \* lightning_request calls (bound), and their invoices
    Nodes,        \* Lightning nodes
    WatchLimit,   \* how many rows list_messages returns (200)
    MaxEvents     \* bound: other messages, deletions, connections, restarts, failed lookups

NoNode == "none"
Other == "other"

ASSUME InvoicesAssumption ==
    /\ NoNode \notin Nodes /\ Other \notin Ours
    /\ WatchLimit \in Nat \ {0}
    /\ MaxEvents \in Nat

VARIABLES
    connected, \* settings["lightning"]: the node our macaroon is for
    messages,  \* the rows, newest first
    request,   \* each call: "new", "made" (sends), "stored" (marks its row), "done"
    invoice,   \* each invoice: the node it is at, and what it says of it
    shown,     \* relay_status of its row
    watch,     \* the rows a pass of the watcher still looks up
    events

invoiceVars == <<connected, messages, request, invoice, shown, watch, events>>

InvoicesTypeOK ==
    /\ connected \in Nodes \cup {NoNode}
    /\ messages \in Seq(Ours \cup {Other})
    /\ request \in [Ours -> {"new", "made", "stored", "done"}]
    /\ invoice \in [Ours -> [at : Nodes \cup {NoNode}, state : {"none", "open", "settled", "canceled"}]]
    /\ shown \in [Ours -> {"none", "unpaid", "paid", "expired"}]
    /\ watch \in Seq(Ours)
    /\ events \in 0 .. MaxEvents

InvoicesInit ==
    /\ connected = NoNode
    /\ messages = <<>> /\ watch = <<>>
    /\ request = [i \in Ours |-> "new"]
    /\ invoice = [i \in Ours |-> [at |-> NoNode, state |-> "none"]]
    /\ shown = [i \in Ours |-> "none"]
    /\ events = 0
-----------------------------------------------------------------------------
(* Handlers. *)

InvoiceEvent == events < MaxEvents /\ events' = events + 1
RequestIs(i, pc) == request' = [request EXCEPT ![i] = pc]

\* lightning_connect keeps what get_info was answered with.
ConnectNode(n) ==
    /\ n # connected
    /\ InvoiceEvent
    /\ connected' = n
    /\ UNCHANGED <<messages, request, invoice, shown, watch>>

\* lightning_request: the node makes an invoice, ...
RequestInvoice(i) ==
    /\ request[i] = "new" /\ connected # NoNode
    /\ invoice' = [invoice EXCEPT ![i] = [at |-> connected, state |-> "open"]]
    /\ RequestIs(i, "made")
    /\ UNCHANGED <<connected, messages, shown, watch, events>>

StoreMessage(m) == messages' = <<m>> \o messages

\* ... which send_message stores and queues, or refuses before or after it is
\* stored, ...
RequestStores(i) ==
    /\ request[i] = "made"
    /\ \/ StoreMessage(i) /\ (RequestIs(i, "stored") \/ RequestIs(i, "done"))
       \/ RequestIs(i, "done") /\ UNCHANGED messages
    /\ UNCHANGED <<connected, invoice, shown, watch, events>>

\* ... and which becomes one of ours to watch only then.
RequestMarks(i) ==
    /\ request[i] = "stored"
    /\ shown' = [shown EXCEPT ![i] = "unpaid"]
    /\ RequestIs(i, "done")
    /\ UNCHANGED <<connected, messages, invoice, watch, events>>

\* Any other message is sent or received.
AnyMessage ==
    /\ InvoiceEvent
    /\ StoreMessage(Other)
    /\ UNCHANGED <<connected, request, invoice, shown, watch>>

\* delete_message.
DeleteMessage(k) ==
    /\ InvoiceEvent
    /\ messages' = RemoveAt(messages, k)
    /\ UNCHANGED <<connected, request, invoice, shown, watch>>
-----------------------------------------------------------------------------
(* The node, and the watcher. *)

\* Somebody who heard of an invoice pays it, or it runs out.
NodeCloses(i) ==
    /\ invoice[i].state = "open" /\ request[i] \in {"stored", "done"}
    /\ \E s \in {"settled", "canceled"} : invoice' = [invoice EXCEPT ![i].state = s]
    /\ UNCHANGED <<connected, messages, request, shown, watch, events>>

Listed == {messages[k] : k \in {k \in DOMAIN messages : k <= WatchLimit}}

\* The places of the rows that wait for a payment, among those listed.
Unsettled == {k \in DOMAIN messages :
                k <= WatchLimit /\ messages[k] # Other /\ shown[messages[k]] = "unpaid"}

\* _check_invoices: the newest rows are read, and those waiting looked up in turn.
WatchBegins ==
    /\ watch = <<>> /\ connected # NoNode
    /\ \E place \in [1 .. Cardinality(Unsettled) -> Unsettled] :
          /\ \A j, k \in DOMAIN place : j < k => place[j] < place[k]
          /\ watch' = [k \in DOMAIN place |-> messages[place[k]]]
    /\ UNCHANGED <<connected, messages, request, invoice, shown, events>>

Answered(i) == shown' = [shown EXCEPT ![i] =
    CASE invoice[i].state = "settled" -> "paid"
      [] invoice[i].state = "canceled" -> "expired"
      [] OTHER -> @]

\* A mutant: the pass ends at an invoice nobody has paid yet.
WatchStopsAtOpen(i) ==
    /\ watch # <<>> /\ Head(watch) = i
    /\ invoice[i].at = connected
    /\ Answered(i)
    /\ watch' = IF invoice[i].state = "open" THEN <<>> ELSE Tail(watch)
    /\ UNCHANGED <<connected, messages, request, invoice, events>>

WatchLooks(i) ==
    /\ watch # <<>> /\ Head(watch) = i
    /\ invoice[i].at = connected
    /\ Answered(i)
    /\ watch' = Tail(watch)
    /\ UNCHANGED <<connected, messages, request, invoice, events>>

\* The node does not know the invoice, or does not answer: the pass ends.
WatchFails(i) ==
    /\ watch # <<>> /\ Head(watch) = i
    /\ \/ invoice[i].at # connected /\ UNCHANGED events
       \/ InvoiceEvent
    /\ watch' = <<>>
    /\ UNCHANGED <<connected, messages, request, invoice, shown>>

\* The server restarts: the rows and the settings stay, the coroutines do not.
RequestsLost ==
    /\ InvoiceEvent
    /\ request' = [i \in Ours |-> IF request[i] = "new" THEN "new" ELSE "done"]
    /\ watch' = <<>>
    /\ UNCHANGED <<connected, messages, invoice, shown>>

InvoicesNext ==
    \/ \E n \in Nodes : ConnectNode(n)
    \/ \E i \in Ours :
          \/ RequestInvoice(i) \/ RequestStores(i) \/ RequestMarks(i)
          \/ NodeCloses(i) \/ WatchLooks(i) \/ WatchFails(i)
    \/ AnyMessage \/ WatchBegins \/ RequestsLost
    \/ \E k \in DOMAIN messages : DeleteMessage(k)

InvoicesSpec == InvoicesInit /\ [][InvoicesNext]_invoiceVars

\* The watcher goes on.  All that could keep it from an invoice for ever, but
\* what Hidden says, comes finitely often.
WatchGoesOn == WatchBegins \/ \E i \in Ours : WatchLooks(i) \/ WatchFails(i)
InvoicesFairness == WF_invoiceVars(WatchGoesOn)
-----------------------------------------------------------------------------
\* Lookups go from the newest row down, and the first that fails ends the pass:
\* an invoice of another node than the connected one hides those behind it.
Hidden(i) ==
    LET place == CHOOSE k \in DOMAIN messages : messages[k] = i IN
    \E k \in 1 .. place :
        messages[k] # Other /\ shown[messages[k]] = "unpaid" /\ invoice[messages[k]].at # connected

\* "Mark our own invoices paid (or expired) as our node settles them": an invoice
\* that was paid is shown so, while its row is among the newest and no row of
\* another node is in front of it.
SettledIsShown ==
    []<>(\A i \in Ours :
            invoice[i].state = "settled" /\ shown[i] = "unpaid" => i \notin Listed \/ Hidden(i))
=============================================================================
