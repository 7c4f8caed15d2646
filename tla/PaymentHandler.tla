----------------------------- MODULE PaymentHandler ----------------------------
(***************************************************************************)
(* The payment handler in the browser: the service worker                   *)
(* (sw-payment-handler.js) and the payment windows it opens                 *)
(* (payment-app.js), which exchange messages.  A worker keeps one current   *)
(* payment in a global variable; merchants in different tabs may ask for    *)
(* payments at the same time, and a new version of the worker may take over *)
(* while a payment is under way.  The window of payment p is called p.      *)
(***************************************************************************)
EXTENDS Integers, Sequences

CONSTANTS
  Payments,    \* payments that merchants ask the browser for
  NoPayment,   \* null
  MaxWorkers,  \* bound: versions of the service worker
  MaxClicks    \* bound: undelivered messages of a window that fails to approve

ASSUME HandlerAssumption ==
  /\ Payments # {} /\ NoPayment \notin Payments
  /\ MaxWorkers \in Nat \ {0} /\ MaxClicks \in Nat \ {0}

VARIABLES
  active,     \* the worker that controls windows and receives events
  event,      \* currentPayment.paymentRequestEvent of each worker
  resolver,   \* currentPayment.resolver of each worker
  host,       \* the worker that received the event of each payment
  promise,    \* what the browser was promised for each payment
  opening,    \* payments whose openWindow is awaited
  window,     \* the state of each payment window
  inbox,      \* messages from each window to a worker, in order
  reply,      \* payment_request_data on its way to each window
  settledBy,  \* auxiliary: the window (or failed openWindow) that settled a promise
  troubles    \* auxiliary: what went other than planned so far

current == <<event, resolver>>
vars == <<active, event, resolver, host, promise, opening, window, inbox, reply,
          settledBy, troubles>>

Workers == 1..MaxWorkers
\* The token is missing, refused by the server, accepted by it but not decodable
\* with atob, or good.
Tokens  == {"missing", "refused", "undecodable", "good"}
Posts   == {"ready", "approved", "cancelled", "error"}
Maybe   == Payments \cup {NoPayment}
Troubles == {"overlap", "update", "terminated", "uncontrolled", "abandoned"}

Window == [at : {"none", "open", "closing", "closed"},
           token : Tokens,
           worker : 0..MaxWorkers,   \* paymentRequestClient, 0 for null
           data : Maybe,             \* paymentRequestData
           visible : BOOLEAN,        \* is payment-content displayed?
           fetching : BOOLEAN,       \* has /me/balance been asked for?
           enabled : BOOLEAN,        \* approve-btn
           covered : Maybe]          \* auxiliary: the payment the balance covered

NoWindow == [at |-> "none", token |-> "missing", worker |-> 0, data |-> NoPayment,
             visible |-> FALSE, fetching |-> FALSE, enabled |-> FALSE,
             covered |-> NoPayment]

NoReply == [from |-> 0, payment |-> NoPayment]

Init ==
  /\ active = 1
  /\ event = [g \in Workers |-> NoPayment]
  /\ resolver = [g \in Workers |-> NoPayment]
  /\ host = [p \in Payments |-> 1]
  /\ promise = [p \in Payments |-> "none"]
  /\ opening = {}
  /\ window = [p \in Payments |-> NoWindow]
  /\ inbox = [p \in Payments |-> <<>>]
  /\ reply = [p \in Payments |-> NoReply]
  /\ settledBy = [p \in Payments |-> NoPayment]
  /\ troubles = {}

Live(w) == window[w].at \in {"open", "closing"}

Post(w, what, to) == inbox' = [inbox EXCEPT ![w] = Append(@, [what |-> what, to |-> to])]

Trouble(what, when) == troubles' = IF when THEN troubles \cup {what} ELSE troubles

Clear(g) ==
  /\ event' = [event EXCEPT ![g] = NoPayment]
  /\ resolver' = [resolver EXCEPT ![g] = NoPayment]

\* A promise that is settled already stays as it is.
Settle(q, how, w) ==
  IF q # NoPayment /\ promise[q] = "pending"
  THEN /\ promise' = [promise EXCEPT ![q] = how]
       /\ settledBy' = [settledBy EXCEPT ![q] = w]
  ELSE UNCHANGED <<promise, settledBy>>

-----------------------------------------------------------------------------
(* The service worker *)

UnderWay(q) == promise[q] = "pending" \/ q \in opening \/ Live(q) \/ inbox[q] # <<>>

\* Mutant: an event that is still there is not replaced.
PaymentRequestKeepsEvent(p) ==
  /\ promise[p] = "none"
  /\ promise' = [promise EXCEPT ![p] = "pending"]
  /\ host' = [host EXCEPT ![p] = active]
  /\ event' = IF event[active] = NoPayment THEN [event EXCEPT ![active] = p] ELSE event
  /\ resolver' = [resolver EXCEPT ![active] = p]
  /\ opening' = opening \cup {p}
  /\ Trouble("overlap", \E q \in Payments : UnderWay(q))
  /\ UNCHANGED <<active, window, inbox, reply, settledBy>>

\* Mutant: a resolver that is still there is not replaced.
PaymentRequestKeepsResolver(p) ==
  /\ promise[p] = "none"
  /\ promise' = [promise EXCEPT ![p] = "pending"]
  /\ host' = [host EXCEPT ![p] = active]
  /\ event' = [event EXCEPT ![active] = p]
  /\ resolver' = IF resolver[active] = NoPayment THEN [resolver EXCEPT ![active] = p]
                                                 ELSE resolver
  /\ opening' = opening \cup {p}
  /\ Trouble("overlap", \E q \in Payments : UnderWay(q))
  /\ UNCHANGED <<active, window, inbox, reply, settledBy>>

\* paymentrequest, up to await openWindow: whatever was current is replaced.
PaymentRequest(p) ==
  /\ promise[p] = "none"
  /\ promise' = [promise EXCEPT ![p] = "pending"]
  /\ host' = [host EXCEPT ![p] = active]
  /\ event' = [event EXCEPT ![active] = p]
  /\ resolver' = [resolver EXCEPT ![active] = p]
  /\ opening' = opening \cup {p}
  /\ Trouble("overlap", \E q \in Payments : UnderWay(q))
  /\ UNCHANGED <<active, window, inbox, reply, settledBy>>

\* openWindow returned null or threw: the resolver of now is called, and kept.
OpenWindowFails(p) ==
  /\ p \in opening
  /\ opening' = opening \ {p}
  /\ Settle(resolver[host[p]], "rejected", p)
  /\ UNCHANGED <<active, current, host, window, inbox, reply, troubles>>

\* message: ignored without a current payment; ready is answered with the data of
\* the current payment, the others settle it and clear it.
Receive(w) ==
  /\ inbox[w] # <<>>
  /\ inbox' = [inbox EXCEPT ![w] = Tail(@)]
  /\ LET m == Head(inbox[w])
         q == resolver[m.to]
     IN  \/ q = NoPayment /\ UNCHANGED <<current, promise, reply, settledBy>>
         \/ /\ q # NoPayment /\ m.what = "ready"
            /\ reply' = [reply EXCEPT ![w] = IF Live(w)
                                             THEN [from |-> m.to, payment |-> event[m.to]]
                                             ELSE NoReply]
            /\ UNCHANGED <<current, promise, settledBy>>
         \/ /\ q # NoPayment /\ m.what # "ready"
            /\ Settle(q, IF m.what = "approved" THEN "approved" ELSE "rejected", w)
            /\ Clear(m.to)
            /\ UNCHANGED reply
  /\ UNCHANGED <<active, host, opening, window, troubles>>

\* install and activate: skipWaiting and claim put a new version in charge at
\* once; the old one keeps its global variable and its events.
Activate ==
  /\ active < MaxWorkers
  /\ active' = active + 1
  /\ Trouble("update", TRUE)
  /\ UNCHANGED <<current, host, promise, opening, window, inbox, reply, settledBy>>

\* The browser stops a worker: its memory is lost, its promises are broken.
Terminate(g) ==
  /\ resolver[g] # NoPayment
  /\ Clear(g)
  /\ promise' = [p \in Payments |-> IF promise[p] = "pending" /\ host[p] = g
                                    THEN "dropped" ELSE promise[p]]
  /\ opening' = {p \in opening : host[p] # g}
  /\ Trouble("terminated", TRUE)
  /\ UNCHANGED <<active, host, window, inbox, reply, settledBy>>

-----------------------------------------------------------------------------
(* The payment window *)

\* Mutant: ready is posted without a controller to post it to.
OpenWindowUnchecked(p) ==
  /\ p \in opening
  /\ opening' = opening \ {p}
  /\ \E t \in Tokens, controlled \in BOOLEAN :
       /\ window' = [window EXCEPT ![p] =
                       [NoWindow EXCEPT !.at = "open", !.token = t, !.visible = t = "missing"]]
       /\ Post(p, "ready", IF controlled THEN active ELSE 0)
       /\ Trouble("uncontrolled", ~controlled)
  /\ UNCHANGED <<active, current, host, promise, reply, settledBy>>

\* The window opens and init runs: ready goes to the controller, if there is one.
OpenWindow(p) ==
  /\ p \in opening
  /\ opening' = opening \ {p}
  /\ \E t \in Tokens, controlled \in BOOLEAN :
       /\ window' = [window EXCEPT ![p] =
                       [NoWindow EXCEPT !.at = "open", !.token = t,
                                        !.visible = ~controlled \/ t = "missing"]]
       /\ IF controlled THEN Post(p, "ready", active) ELSE UNCHANGED inbox
       /\ Trouble("uncontrolled", ~controlled)
  /\ UNCHANGED <<active, current, host, promise, reply, settledBy>>

\* handleServiceWorkerMessage: the data is shown and the balance asked for.
ShowPayment(w) ==
  /\ reply[w] # NoReply
  /\ window' = [window EXCEPT ![w].worker = reply[w].from, ![w].data = reply[w].payment,
                              ![w].visible = TRUE, ![w].fetching = TRUE]
  /\ reply' = [reply EXCEPT ![w] = NoReply]
  /\ UNCHANGED <<active, current, host, promise, opening, inbox, settledBy, troubles>>

\* Mutant: too low a balance only warns.
LoadBalanceOnlyWarns(w) ==
  /\ window[w].fetching
  /\ \E answer \in {"enough", "short", "failed"} :
       /\ window[w].token \in {"missing", "refused"} => answer = "failed"
       /\ window' = [window EXCEPT ![w].fetching = FALSE,
                                   ![w].enabled = answer # "failed",
                                   ![w].covered = IF answer = "enough" THEN window[w].data
                                                  ELSE NoPayment]
  /\ UNCHANGED <<active, current, host, promise, opening, inbox, reply, settledBy, troubles>>

\* loadUserBalance, after the fetch.
LoadBalance(w) ==
  /\ window[w].fetching
  /\ \E answer \in {"enough", "short", "failed"} :
       /\ window[w].token \in {"missing", "refused"} => answer = "failed"
       /\ window' = [window EXCEPT ![w].fetching = FALSE,
                                   ![w].enabled = answer = "enough",
                                   ![w].covered = IF answer = "enough" THEN window[w].data
                                                  ELSE NoPayment]
  /\ UNCHANGED <<active, current, host, promise, opening, inbox, reply, settledBy, troubles>>

\* handlePaymentApproval. Without a user id in the token the button comes back.
Approve(w) ==
  /\ window[w].at = "open" /\ window[w].enabled
  /\ \/ /\ window[w].token = "good"
        /\ Post(w, "approved", window[w].worker)
        /\ window' = [window EXCEPT ![w].enabled = FALSE, ![w].at = "closing"]
     \/ /\ window[w].token = "undecodable" /\ Len(inbox[w]) < MaxClicks
        /\ Post(w, "error", window[w].worker)
        /\ UNCHANGED window
  /\ UNCHANGED <<active, current, host, promise, opening, reply, settledBy, troubles>>

Closed(w) ==
  /\ window' = [window EXCEPT ![w].at = "closed", ![w].fetching = FALSE]
  /\ reply' = [reply EXCEPT ![w] = NoReply]

\* Mutant: the window closes without a word.
CancelSilently(w) ==
  /\ Live(w) /\ window[w].visible
  /\ Closed(w)
  /\ Trouble("abandoned", window[w].worker = 0)
  /\ UNCHANGED <<active, current, host, promise, opening, inbox, settledBy>>

\* handleCancel, also in the 500 ms an approved window stays open. A window that
\* has not heard from the worker closes without a word.
Cancel(w) ==
  /\ Live(w) /\ window[w].visible
  /\ IF window[w].worker # 0
     THEN Post(w, "cancelled", window[w].worker) /\ UNCHANGED troubles
     ELSE UNCHANGED inbox /\ Trouble("abandoned", TRUE)
  /\ Closed(w)
  /\ UNCHANGED <<active, current, host, promise, opening, settledBy>>

\* window.close(), 500 ms after an approval.
CloseApproved(w) ==
  /\ window[w].at = "closing"
  /\ Closed(w)
  /\ UNCHANGED <<active, current, host, promise, opening, inbox, settledBy, troubles>>

\* The user closes the window itself: nothing listens to that.
Abandon(w) ==
  /\ window[w].at = "open"
  /\ Closed(w)
  /\ Trouble("abandoned", TRUE)
  /\ UNCHANGED <<active, current, host, promise, opening, inbox, settledBy>>

-----------------------------------------------------------------------------

Quiescent ==
  /\ opening = {}
  /\ \A p \in Payments : promise[p] # "none" /\ ~Live(p) /\ inbox[p] = <<>>
  /\ UNCHANGED vars

Next ==
  \/ \E p \in Payments :
       \/ PaymentRequest(p) \/ OpenWindow(p) \/ OpenWindowFails(p)
       \/ Receive(p) \/ ShowPayment(p) \/ LoadBalance(p)
       \/ Approve(p) \/ Cancel(p) \/ CloseApproved(p) \/ Abandon(p)
  \/ Activate
  \/ \E g \in Workers : Terminate(g)
  \/ Quiescent

Spec == Init /\ [][Next]_vars

\* The browser opens a window or fails to, delivers messages and answers fetches;
\* the user of a window that can be used ends up pressing one of its buttons.
FairSpec ==
  /\ Spec
  /\ \A p \in Payments :
       /\ WF_vars(OpenWindow(p) \/ OpenWindowFails(p))
       /\ WF_vars(Receive(p)) /\ WF_vars(ShowPayment(p)) /\ WF_vars(LoadBalance(p))
       /\ WF_vars(Approve(p) \/ Cancel(p))

-----------------------------------------------------------------------------
(* Properties *)

TypeOK ==
  /\ active \in Workers
  /\ event \in [Workers -> Maybe]
  /\ resolver \in [Workers -> Maybe]
  /\ host \in [Payments -> Workers]
  /\ promise \in [Payments -> {"none", "pending", "approved", "rejected", "dropped"}]
  /\ opening \in SUBSET Payments
  /\ window \in [Payments -> Window]
  /\ inbox \in [Payments -> Seq([what : Posts, to : Workers])]
  /\ reply \in [Payments -> [from : 0..MaxWorkers, payment : Maybe]]
  /\ settledBy \in [Payments -> Maybe]
  /\ troubles \in SUBSET Troubles

\* As long as no payment begins while another one is still under way, every
\* promise is settled by its own window, and what the user approved there is what
\* the merchant asked for; not even a new worker, or one that was stopped, lets a
\* message settle the wrong payment.
OwnWindowSettles ==
  "overlap" \notin troubles => \A p \in Payments :
    /\ promise[p] \in {"approved", "rejected"} => settledBy[p] = p
    /\ promise[p] = "approved" => window[p].data = p

\* Whatever overlaps: a payment is approved only by a window that showed some
\* payment and whose fetched balance covered exactly the payment it showed.
ApprovalIsCovered ==
  \A p \in Payments : promise[p] = "approved" =>
    LET w == window[settledBy[p]]
    IN  w.data # NoPayment /\ w.covered = w.data

Replaced(p) == promise[p] = "pending" /\ \A g \in Workers : event[g] # p

\* A payment whose event another one replaced in the global variable is lost: its
\* resolver went with the event, so no message and no failure of its own window
\* ever settles its promise.
ReplacedNeverSettles ==
  [][\A p \in Payments : Replaced(p) => promise'[p] \in {"pending", "dropped"}]_vars

\* One payment at a time, in windows that the worker controls and nobody closes
\* before they know what to pay: every promise is settled.
EveryPaymentSettles ==
  [](troubles = {}) =>
    \A p \in Payments : promise[p] = "pending" ~> promise[p] # "pending"

=============================================================================
