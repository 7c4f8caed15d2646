-------------------------- MODULE PaymentHandlerProofs -------------------------
(***************************************************************************)
(* What is proved about the payment handler in the browser, for any set of  *)
(* payments, any number of versions of the worker and any bound on clicks.   *)
(*                                                                          *)
(* The properties speak of promises that are settled; whether the right     *)
(* window settles them was decided long before, when a message was posted   *)
(* or an answer was fetched.  The invariant therefore says what a window,   *)
(* its messages and the answer on its way to it know at every moment: a     *)
(* window goes through the stages unopened, unheard (it knows no worker) and *)
(* heard (it knows the worker that answered it, and no further answer comes),*)
(* and once its balance is known to cover its payment that stays so.         *)
(***************************************************************************)
EXTENDS PaymentHandler, SequenceTheorems, TLAPS

Message == [what : Posts, to : Workers]

\* Before openWindow returns there is no window to say or to hear anything.
Unopened(w) ==
  promise[w] = "none" \/ w \in opening =>
    window[w] = NoWindow /\ inbox[w] = <<>> /\ reply[w] = NoReply

\* A window is only opened for a payment that was asked for.
Opens(w) == w \in opening => promise[w] # "none"

\* A window that knows no worker has at most its ready under way, and then no
\* answer to it yet.
Unheard(w) ==
  window[w].worker = 0 =>
    /\ ~window[w].fetching /\ ~window[w].enabled
    /\ \A i \in DOMAIN inbox[w] : i = 1 /\ inbox[w][i].what = "ready"
    /\ reply[w] # NoReply => inbox[w] = <<>>

\* A window that was answered says ready no more, so nothing changes its data.
Heard(w) ==
  window[w].worker # 0 =>
    /\ reply[w] = NoReply /\ window[w].data # NoPayment
    /\ \A i \in DOMAIN inbox[w] : inbox[w][i].what # "ready"

\* An answer names a worker and the payment that was current there.
Replies(w) ==
  reply[w] # NoReply => reply[w].from \in Workers /\ reply[w].payment # NoPayment

\* The balance was fetched and covers the payment that is shown.
Sure(w) ==
  /\ window[w].worker # 0 /\ ~window[w].fetching
  /\ window[w].covered = window[w].data

\* The button, and an approval on its way, only where the balance is enough.
Backed(w) ==
  /\ window[w].enabled => Sure(w)
  /\ \A i \in DOMAIN inbox[w] : inbox[w][i].what = "approved" => Sure(w)

Desk(w) ==
  Unopened(w) /\ Opens(w) /\ Unheard(w) /\ Heard(w) /\ Replies(w) /\ Backed(w)

\* A window only ever deals with the worker that received its payment or a later one.
Onward(w) ==
  /\ host[w] <= active
  /\ window[w].worker = 0 \/ host[w] <= window[w].worker
  /\ \A i \in DOMAIN inbox[w] : host[w] <= inbox[w][i].to
  /\ reply[w] # NoReply => host[w] <= reply[w].from

\* An approved payment was approved in a window that was sure.
Granted(w) == promise[w] = "approved" => settledBy[w] # NoPayment /\ Sure(settledBy[w])

\* While no payments overlap, the workers a window can deal with hold its payment
\* or none, and everything it knows is about its own payment.
Alone(w) ==
  /\ UnderWay(w) => \A g \in Workers : host[w] <= g => resolver[g] \in {NoPayment, w}
  /\ reply[w] # NoReply => reply[w].payment = w
  /\ window[w].data \in {NoPayment, w}
  /\ promise[w] \in {"approved", "rejected"} => settledBy[w] = w

\* The event and the resolver of a worker are set and cleared together, and a
\* worker that is not active yet has neither.
Registers ==
  /\ event = resolver
  /\ \A g \in Workers : active < g => resolver[g] = NoPayment

HandlerInv ==
  /\ TypeOK
  /\ Registers
  /\ \A w \in Payments : Desk(w)
  /\ \A w \in Payments : Onward(w)
  /\ \A w \in Payments : Granted(w)
  /\ "overlap" \notin troubles => \A w \in Payments : Alone(w)

-----------------------------------------------------------------------------
(* Messages in order *)

\* Taking the first message of a queue leaves the messages behind it.
LEMMA TailOfQueue ==
  ASSUME NEW S, NEW s \in Seq(S), s # <<>>
  PROVE  /\ Tail(s) \in Seq(S) /\ Head(s) \in S
         /\ 1 \in DOMAIN s /\ Head(s) = s[1]
         /\ \A i \in DOMAIN Tail(s) :
              i \in Nat \ {0} /\ i + 1 \in DOMAIN s /\ Tail(s)[i] = s[i + 1]
<1>1. Len(s) \in Nat \ {0} /\ DOMAIN s = 1..Len(s)
  BY EmptySeq, LenProperties
<1>2. /\ Tail(s) \in Seq(S) /\ Head(s) \in S
      /\ Len(Tail(s)) = Len(s) - 1
      /\ \A i \in 1..Len(Tail(s)) : Tail(s)[i] = s[i + 1]
  BY HeadTailProperties
<1>3. DOMAIN Tail(s) = 1..Len(Tail(s))
  BY <1>2, LenProperties
<1>4. Head(s) = s[1]
  BY <1>1
<1> QED BY <1>1, <1>2, <1>3, <1>4

\* Posting a message keeps those before it.
LEMMA PostedMessage ==
  ASSUME NEW S, NEW s \in Seq(S), NEW e \in S
  PROVE  /\ Append(s, e) \in Seq(S)
         /\ \A i \in DOMAIN Append(s, e) :
              \/ i \in DOMAIN s /\ Append(s, e)[i] = s[i]
              \/ i = Len(s) + 1 /\ Append(s, e)[i] = e
<1>1. Len(s) \in Nat /\ DOMAIN s = 1..Len(s)
  BY LenProperties
<1>2. /\ Append(s, e) \in Seq(S)
      /\ Len(Append(s, e)) = Len(s) + 1
      /\ \A i \in 1..Len(s) : Append(s, e)[i] = s[i]
      /\ Append(s, e)[Len(s) + 1] = e
  BY AppendProperties
<1>3. DOMAIN Append(s, e) = 1..(Len(s) + 1)
  BY <1>2, LenProperties
<1> QED BY <1>1, <1>2, <1>3

-----------------------------------------------------------------------------
(* What a step of one window leaves alone *)

\* Nothing about window w changes but that its payment may be settled.
Quiet(w) ==
  /\ window'[w] = window[w] /\ inbox'[w] = inbox[w] /\ reply'[w] = reply[w]
  /\ host'[w] = host[w]
  /\ promise'[w] = "none" <=> promise[w] = "none"
  /\ w \in opening' => w \in opening

\* A window to which nothing happens keeps what it knows.
LEMMA QuietDesk ==
  ASSUME NEW w \in Payments, Desk(w), Quiet(w)
  PROVE  Desk(w)' /\ (Sure(w) <=> Sure(w)')
<1>1. Sure(w) <=> Sure(w)'
  BY DEF Quiet, Sure
<1> QED
  BY <1>1 DEF Quiet, Desk, Unopened, Opens, Unheard, Heard, Replies, Backed

\* A quiet window still deals with its worker or a later one.
LEMMA QuietOnward ==
  ASSUME TypeOK, TypeOK', NEW w \in Payments, Onward(w), Quiet(w), active <= active'
  PROVE  Onward(w)'
<1>1. active \in Int /\ active' \in Int /\ host[w] \in Int /\ host'[w] = host[w]
  BY HandlerAssumption DEF TypeOK, Workers, Quiet
<1>2. host'[w] <= active'
  BY <1>1 DEF Onward
<1> QED
  BY <1>2 DEF Onward, Quiet

\* While no payments overlap: a step after which a payment is not newly under way,
\* no worker holds a new payment, and whatever the window learns is its own.
LEMMA StaysAlone ==
  ASSUME NEW w \in Payments, Alone(w), UnderWay(w)' => UnderWay(w),
         host'[w] = host[w],
         \A g \in Workers : resolver'[g] \in {resolver[g], NoPayment},
         reply'[w] # NoReply => reply'[w] = reply[w] \/ reply'[w].payment = w,
         window'[w].data \in {window[w].data, NoPayment, w},
         promise'[w] \in {"approved", "rejected"} =>
           settledBy'[w] = w \/ (promise'[w] = promise[w] /\ settledBy'[w] = settledBy[w])
  PROVE  Alone(w)'
<1>1. UnderWay(w)' => \A g \in Workers : host'[w] <= g => resolver'[g] \in {NoPayment, w}
  BY DEF Alone
<1>2. (reply[w] # NoReply => reply[w].payment = w)'
  BY DEF Alone, NoReply
<1>3. window'[w].data \in {NoPayment, w}
  BY DEF Alone
<1>4. promise'[w] \in {"approved", "rejected"} => settledBy'[w] = w
  BY DEF Alone
<1> QED BY <1>1, <1>2, <1>3, <1>4 DEF Alone

\* A step of window p alone: what has to be seen of p to keep the whole invariant.
LEMMA WindowStep ==
  ASSUME HandlerInv, NEW p \in Payments, TypeOK',
         UNCHANGED <<active, event, resolver, host, promise, settledBy>>,
         opening' \subseteq opening, troubles \subseteq troubles',
         \A w \in Payments \ {p} : window'[w] = window[w] /\ inbox'[w] = inbox[w]
                                   /\ reply'[w] = reply[w],
         Desk(p)', Onward(p)', Sure(p) => Sure(p)', UnderWay(p)' => UnderWay(p),
         reply'[p] \in {reply[p], NoReply},
         \/ window'[p].data \in {window[p].data, NoPayment}
         \/ reply[p] # NoReply /\ window'[p].data = reply[p].payment
  PROVE  HandlerInv'
<1>1. \A w \in Payments \ {p} : Quiet(w)
  BY DEF Quiet
<1>2. active <= active'
  BY HandlerAssumption DEF HandlerInv, TypeOK, Workers
<1>3. Registers'
  BY DEF HandlerInv, Registers
<1>4. \A w \in Payments : Desk(w)' /\ (Sure(w) => Sure(w)')
  BY <1>1, QuietDesk DEF HandlerInv
<1>5. \A w \in Payments : Onward(w)'
  BY <1>1, <1>2, QuietOnward DEF HandlerInv
<1>6. \A w \in Payments : Granted(w)'
  <2> SUFFICES ASSUME NEW w \in Payments, promise'[w] = "approved"
               PROVE  settledBy'[w] # NoPayment /\ Sure(settledBy[w])'
    BY DEF Granted
  <2>1. settledBy[w] # NoPayment /\ Sure(settledBy[w])
    BY DEF HandlerInv, Granted
  <2>2. settledBy[w] \in Payments
    BY <2>1 DEF HandlerInv, TypeOK, Maybe
  <2>3. PICK v \in Payments : v = settledBy[w]
    BY <2>2
  <2>4. Sure(v)'
    BY <2>1, <2>3, <1>4
  <2>5. settledBy'[w] = v
    BY <2>3
  <2> QED BY <2>1, <2>3, <2>4, <2>5 DEF Sure
<1>7. ("overlap" \notin troubles => \A w \in Payments : Alone(w))'
  <2> SUFFICES ASSUME "overlap" \notin troubles', NEW w \in Payments
               PROVE  Alone(w)'
    OBVIOUS
  <2>1. Alone(w)
    BY DEF HandlerInv
  <2>2. UnderWay(w)' => UnderWay(w)
    BY <1>1 DEF UnderWay, Live, Quiet
  <2>3. window'[w].data \in {window[w].data, NoPayment, w}
    BY <2>1 DEF Alone
  <2>4. reply'[w] # NoReply => reply'[w] = reply[w]
    OBVIOUS
  <2> QED BY <2>1, <2>2, <2>3, <2>4, StaysAlone
<1> QED BY <1>3, <1>4, <1>5, <1>6, <1>7 DEF HandlerInv

-----------------------------------------------------------------------------
(* The fields of a window *)

Opened(r, t, v) == [r EXCEPT !.at = "open", !.token = t, !.visible = v]
Shown(r, g, q) == [r EXCEPT !.worker = g, !.data = q, !.visible = TRUE, !.fetching = TRUE]
Loaded(r, e, q) == [r EXCEPT !.fetching = FALSE, !.enabled = e, !.covered = q]
Approved(r) == [r EXCEPT !.enabled = FALSE, !.at = "closing"]
Shut(r) == [r EXCEPT !.at = "closed", !.fetching = FALSE]

\* A window that is not there yet is one.
LEMMA NoWindowIsOne == NoWindow \in Window
BY HandlerAssumption DEF Window, NoWindow, Maybe, Tokens

\* A window that opens keeps all but its state, its token and what is displayed.
LEMMA OpenedFields ==
  ASSUME NEW r \in Window, NEW t \in Tokens, NEW v \in BOOLEAN, NEW n,
         n = Opened(r, t, v)
  PROVE  /\ n \in Window /\ n.at = "open"
         /\ n.worker = r.worker /\ n.data = r.data /\ n.covered = r.covered
         /\ n.fetching = r.fetching /\ n.enabled = r.enabled
BY DEF Window, Opened

\* A window that is answered keeps its button and its balance.
LEMMA ShownFields ==
  ASSUME NEW r \in Window, NEW g \in 0..MaxWorkers, NEW q \in Maybe, NEW n,
         n = Shown(r, g, q)
  PROVE  /\ n \in Window /\ n.at = r.at
         /\ n.worker = g /\ n.data = q /\ n.covered = r.covered
         /\ n.fetching /\ n.enabled = r.enabled
BY DEF Window, Shown

\* A window whose balance arrives keeps its worker and its payment.
LEMMA LoadedFields ==
  ASSUME NEW r \in Window, NEW e \in BOOLEAN, NEW q \in Maybe, NEW n,
         n = Loaded(r, e, q)
  PROVE  /\ n \in Window /\ n.at = r.at
         /\ n.worker = r.worker /\ n.data = r.data /\ n.covered = q
         /\ ~n.fetching /\ (n.enabled => e)
BY DEF Window, Loaded

\* A window that approves keeps all but its button and its state.
LEMMA ApprovedFields ==
  ASSUME NEW r \in Window, NEW n, n = Approved(r)
  PROVE  /\ n \in Window /\ n.at = "closing"
         /\ n.worker = r.worker /\ n.data = r.data /\ n.covered = r.covered
         /\ n.fetching = r.fetching /\ ~n.enabled
BY DEF Window, Approved

\* A window that closes keeps what it knows.
LEMMA ClosedFields ==
  ASSUME NEW r \in Window, NEW n, n = Shut(r)
  PROVE  /\ n \in Window /\ n.at = "closed"
         /\ n.worker = r.worker /\ n.data = r.data /\ n.covered = r.covered
         /\ ~n.fetching /\ n.enabled = r.enabled
BY DEF Window, Shut

-----------------------------------------------------------------------------
(* The steps of a payment window *)

\* What the invariant says of one window.
LEMMA AtWindow ==
  ASSUME HandlerInv, NEW w \in Payments
  PROVE  /\ window[w] \in Window
         /\ inbox[w] \in Seq(Message)
         /\ reply[w] \in [from : 0..MaxWorkers, payment : Maybe]
         /\ host[w] \in Workers /\ active \in Workers
         /\ Desk(w) /\ Onward(w) /\ Granted(w)
BY DEF HandlerInv, TypeOK, Message

\* An empty queue is a queue of messages.
LEMMA NoMessages == <<>> \in Seq(Message) /\ DOMAIN <<>> = {}
BY EmptySeq, LenProperties

\* OpenWindow: the window is new; only its ready may be under way.
LEMMA OpenWindowKeeps ==
  ASSUME HandlerInv, NEW p \in Payments, OpenWindow(p)
  PROVE  HandlerInv'
<1>1. PICK t \in Tokens, controlled \in BOOLEAN :
        /\ window' = [window EXCEPT ![p] =
                        [NoWindow EXCEPT !.at = "open", !.token = t,
                                         !.visible = ~controlled \/ t = "missing"]]
        /\ IF controlled THEN Post(p, "ready", active) ELSE UNCHANGED inbox
        /\ Trouble("uncontrolled", ~controlled)
  BY DEF OpenWindow
<1>2. /\ p \in opening /\ opening' = opening \ {p}
      /\ UNCHANGED <<active, event, resolver, host, promise, reply, settledBy>>
  BY DEF OpenWindow, current
<1>3. /\ inbox[p] = <<>> /\ reply[p] = NoReply /\ promise[p] # "none"
      /\ active \in Workers /\ Onward(p)
  BY <1>2, AtWindow DEF Desk, Unopened, Opens
<1>4. TypeOK
  BY DEF HandlerInv
<1>5. /\ window'[p] \in Window
      /\ window'[p].worker = 0 /\ ~window'[p].fetching /\ ~window'[p].enabled
      /\ window'[p].data = NoPayment
  <2>1. PICK v \in BOOLEAN : v = (~controlled \/ t = "missing")
    OBVIOUS
  <2>2. window'[p] = Opened(NoWindow, t, v)
    BY <1>1, <1>4, <2>1 DEF TypeOK, Opened
  <2>3. /\ window'[p] \in Window
        /\ window'[p].worker = NoWindow.worker /\ window'[p].data = NoWindow.data
        /\ window'[p].fetching = NoWindow.fetching
        /\ window'[p].enabled = NoWindow.enabled
    BY <2>2, NoWindowIsOne, OpenedFields
  <2> QED BY <2>3 DEF NoWindow
<1>6. window' \in [Payments -> Window]
  BY <1>1, <1>4, <1>5 DEF TypeOK
<1>7. /\ inbox'[p] \in Seq(Message)
      /\ \A i \in DOMAIN inbox'[p] : /\ i = 1
                                     /\ inbox'[p][i].what = "ready"
                                     /\ inbox'[p][i].to = active
  <2>1. CASE controlled
    <3>1. inbox'[p] = Append(<<>>, [what |-> "ready", to |-> active])
      BY <2>1, <1>1, <1>3, <1>4 DEF Post, TypeOK
    <3>2. [what |-> "ready", to |-> active] \in Message
      BY <1>3 DEF Message, Posts
    <3> HIDE DEF Message
    <3>3. /\ inbox'[p] \in Seq(Message)
          /\ \A i \in DOMAIN inbox'[p] :
               i = Len(<<>>) + 1 /\ inbox'[p][i] = [what |-> "ready", to |-> active]
      BY <3>1, <3>2, NoMessages, PostedMessage
    <3>4. Len(<<>>) = 0
      BY EmptySeq
    <3> QED BY <3>3, <3>4
  <2>2. CASE ~controlled
    BY <2>2, <1>1, <1>3, NoMessages
  <2> QED BY <2>1, <2>2
<1>8. inbox' \in [Payments -> Seq(Message)]
  <2>1. \A q \in Payments \ {p} : inbox'[q] = inbox[q]
    BY <1>1, <1>4 DEF Post, TypeOK
  <2>2. DOMAIN inbox' = Payments /\ inbox' = [q \in DOMAIN inbox' |-> inbox'[q]]
    BY <1>1, <1>4 DEF Post, TypeOK
  <2> QED BY <2>1, <2>2, <1>7, <1>4 DEF TypeOK, Message
<1>9. troubles \subseteq troubles' /\ troubles' \in SUBSET Troubles
  BY <1>1, <1>4 DEF Trouble, Troubles, TypeOK
<1>10. TypeOK'
  BY <1>2, <1>4, <1>6, <1>8, <1>9 DEF TypeOK, Message
<1>11. \A w \in Payments \ {p} : window'[w] = window[w] /\ inbox'[w] = inbox[w]
                                 /\ reply'[w] = reply[w]
  BY <1>1, <1>2, <1>4 DEF Post, TypeOK
<1>12. Desk(p)'
  BY <1>2, <1>3, <1>5, <1>7 DEF Desk, Unopened, Opens, Unheard, Heard, Replies, Backed
<1>13. Onward(p)'
  BY <1>2, <1>3, <1>5, <1>7 DEF Onward
<1>14. ~Sure(p)
  BY <1>2, AtWindow DEF Desk, Unopened, Sure, NoWindow
<1>15. UnderWay(p)
  BY <1>2 DEF UnderWay
<1> QED
  BY <1>2, <1>5, <1>9, <1>10, <1>11, <1>12, <1>13, <1>14, <1>15, WindowStep

\* ShowPayment: the window now knows its worker, and nothing is under way to or
\* from it.
LEMMA ShowPaymentKeeps ==
  ASSUME HandlerInv, NEW p \in Payments, ShowPayment(p)
  PROVE  HandlerInv'
<1>1. /\ reply[p] # NoReply
      /\ reply' = [reply EXCEPT ![p] = NoReply]
      /\ UNCHANGED <<active, event, resolver, host, promise, opening, inbox, settledBy,
                     troubles>>
  BY DEF ShowPayment, current
<1>2. TypeOK /\ Desk(p) /\ Onward(p)
  BY AtWindow DEF HandlerInv
<1>3. /\ window[p].worker = 0 /\ inbox[p] = <<>>
      /\ ~window[p].enabled /\ promise[p] # "none" /\ p \notin opening
      /\ reply[p].from \in Workers /\ reply[p].payment # NoPayment
      /\ reply[p].payment \in Maybe
  BY <1>1, <1>2 DEF Desk, Unopened, Unheard, Heard, Replies, TypeOK
<1>4. /\ window'[p] \in Window
      /\ window'[p].at = window[p].at
      /\ window'[p].worker = reply[p].from /\ window'[p].data = reply[p].payment
      /\ window'[p].enabled = window[p].enabled
  <2>1. window'[p] = Shown(window[p], reply[p].from, reply[p].payment)
    BY <1>2 DEF ShowPayment, TypeOK, Shown
  <2>2. reply[p].from \in 0..MaxWorkers /\ window[p] \in Window
    BY <1>2, <1>3 DEF TypeOK
  <2> QED BY <1>3, <2>1, <2>2, ShownFields
<1>5. window' \in [Payments -> Window]
      /\ \A w \in Payments \ {p} : window'[w] = window[w]
  BY <1>2, <1>4 DEF ShowPayment, TypeOK
<1>6. /\ reply' \in [Payments -> [from : 0..MaxWorkers, payment : Maybe]]
      /\ reply'[p] = NoReply
      /\ \A w \in Payments \ {p} : reply'[w] = reply[w]
  BY <1>1, <1>2, HandlerAssumption DEF TypeOK, NoReply, Maybe
<1>7. TypeOK'
  BY <1>1, <1>2, <1>5, <1>6 DEF TypeOK
<1>8. window'[p].worker # 0
  BY <1>3, <1>4, HandlerAssumption DEF Workers
<1>9. DOMAIN inbox'[p] = {}
  BY <1>1, <1>3
<1>10. Desk(p)'
  BY <1>1, <1>3, <1>4, <1>6, <1>8, <1>9
     DEF Desk, Unopened, Opens, Unheard, Heard, Replies, Backed
<1>11. Onward(p)'
  BY <1>1, <1>2, <1>4, <1>6, <1>9 DEF Onward
<1>12. ~Sure(p) /\ (UnderWay(p)' => UnderWay(p))
  BY <1>1, <1>3, <1>4 DEF Sure, UnderWay, Live
<1> QED
  BY <1>1, <1>4, <1>5, <1>6, <1>7, <1>10, <1>11, <1>12, WindowStep

\* LoadBalance: a window that asks for the balance was not sure before.
LEMMA LoadBalanceKeeps ==
  ASSUME HandlerInv, NEW p \in Payments, LoadBalance(p)
  PROVE  HandlerInv'
<1>1. PICK answer \in {"enough", "short", "failed"} :
        window' = [window EXCEPT ![p].fetching = FALSE,
                                 ![p].enabled = answer = "enough",
                                 ![p].covered = IF answer = "enough" THEN window[p].data
                                                ELSE NoPayment]
  BY DEF LoadBalance
<1>2. /\ window[p].fetching
      /\ UNCHANGED <<active, event, resolver, host, promise, opening, inbox, reply,
                     settledBy, troubles>>
  BY DEF LoadBalance, current
<1>3. TypeOK /\ Desk(p) /\ Onward(p)
  BY AtWindow DEF HandlerInv
<1>4. window[p].worker # 0 /\ ~Sure(p) /\ promise[p] # "none" /\ p \notin opening
  BY <1>2, <1>3 DEF Desk, Unopened, Unheard, Sure, NoWindow
<1>5. /\ window'[p] \in Window
      /\ window'[p].at = window[p].at /\ window'[p].worker = window[p].worker
      /\ window'[p].data = window[p].data /\ ~window'[p].fetching
      /\ window'[p].enabled => window'[p].covered = window[p].data
  <2>1. PICK e \in BOOLEAN : e = (answer = "enough")
    OBVIOUS
  <2>2. window[p] \in Window /\ window[p].data \in Maybe /\ NoPayment \in Maybe
    BY <1>3 DEF TypeOK, Window, Maybe
  <2>3. PICK q \in Maybe : q = IF answer = "enough" THEN window[p].data ELSE NoPayment
    BY <2>2
  <2>4. window'[p] = Loaded(window[p], e, q)
    BY <1>1, <1>3, <2>1, <2>3 DEF TypeOK, Loaded
  <2>5. /\ window'[p] \in Window
        /\ window'[p].at = window[p].at /\ window'[p].worker = window[p].worker
        /\ window'[p].data = window[p].data /\ window'[p].covered = q
        /\ ~window'[p].fetching /\ (window'[p].enabled => e)
    BY <2>2, <2>4, LoadedFields
  <2> QED BY <2>1, <2>3, <2>5
<1>6. window' \in [Payments -> Window]
      /\ \A w \in Payments \ {p} : window'[w] = window[w]
  BY <1>1, <1>3, <1>5 DEF TypeOK
<1>7. TypeOK'
  BY <1>2, <1>3, <1>6 DEF TypeOK
<1>8. Desk(p)'
  <2>1. Backed(p)'
    BY <1>2, <1>3, <1>4, <1>5 DEF Desk, Backed, Sure
  <2> QED
    BY <1>2, <1>3, <1>4, <1>5, <2>1 DEF Desk, Unopened, Opens, Unheard, Heard, Replies
<1>9. Onward(p)'
  BY <1>2, <1>3, <1>5 DEF Onward
<1>10. UnderWay(p)' => UnderWay(p)
  BY <1>2, <1>5 DEF UnderWay, Live
<1> QED
  BY <1>2, <1>4, <1>5, <1>6, <1>7, <1>8, <1>9, <1>10, WindowStep

\* A window that is open or closing was asked for and has been opened.
LEMMA LiveWindow ==
  ASSUME HandlerInv, NEW p \in Payments, Live(p)
  PROVE  promise[p] # "none" /\ p \notin opening /\ UnderWay(p)
BY AtWindow DEF Desk, Unopened, Live, NoWindow, UnderWay

\* What Post does to the messages of a window.
LEMMA PostFields ==
  ASSUME HandlerInv, NEW p \in Payments, NEW what \in Posts, NEW to \in Workers,
         Post(p, what, to)
  PROVE  /\ inbox' \in [Payments -> Seq(Message)]
         /\ \A w \in Payments \ {p} : inbox'[w] = inbox[w]
         /\ \A i \in DOMAIN inbox'[p] :
              \/ i \in DOMAIN inbox[p] /\ inbox'[p][i] = inbox[p][i]
              \/ inbox'[p][i].what = what /\ inbox'[p][i].to = to
<1> DEFINE m == [what |-> what, to |-> to]
<1>1. m \in Message /\ m.what = what /\ m.to = to
  BY DEF Message
<1>2. inbox \in [Payments -> Seq(Message)]
  BY DEF HandlerInv, TypeOK, Message
<1>3. inbox' = [inbox EXCEPT ![p] = Append(inbox[p], m)]
  BY <1>2 DEF Post
<1> HIDE DEF m, Message
<1>4. /\ Append(inbox[p], m) \in Seq(Message)
      /\ \A i \in DOMAIN Append(inbox[p], m) :
           \/ i \in DOMAIN inbox[p] /\ Append(inbox[p], m)[i] = inbox[p][i]
           \/ Append(inbox[p], m)[i] = m
  BY <1>1, <1>2, PostedMessage
<1>5. inbox'[p] = Append(inbox[p], m)
  BY <1>2, <1>3
<1> QED BY <1>1, <1>2, <1>3, <1>4, <1>5

\* A window that knows its worker posts to it: an approval only when it is sure.
LEMMA HeardPosts ==
  ASSUME HandlerInv, NEW p \in Payments, Live(p), window[p].worker # 0,
         NEW what \in {"approved", "error", "cancelled"}, what = "approved" => Sure(p),
         Post(p, what, window[p].worker),
         UNCHANGED <<active, event, resolver, host, promise, opening, settledBy, troubles>>,
         window' \in [Payments -> Window],
         \A w \in Payments \ {p} : window'[w] = window[w],
         window'[p].worker = window[p].worker, window'[p].data = window[p].data,
         window'[p].covered = window[p].covered,
         window'[p].fetching => window[p].fetching,
         window'[p].enabled => window[p].enabled,
         reply' \in [Payments -> [from : 0..MaxWorkers, payment : Maybe]],
         \A w \in Payments \ {p} : reply'[w] = reply[w],
         reply'[p] \in {reply[p], NoReply}
  PROVE  HandlerInv'
<1>1. TypeOK /\ Desk(p) /\ Onward(p) /\ window[p] \in Window
  BY AtWindow DEF HandlerInv
<1>2. window[p].worker \in Workers /\ what \in Posts
  BY <1>1 DEF Window, Workers, Posts
<1>3. /\ inbox' \in [Payments -> Seq(Message)]
      /\ \A w \in Payments \ {p} : inbox'[w] = inbox[w]
      /\ \A i \in DOMAIN inbox'[p] :
           \/ i \in DOMAIN inbox[p] /\ inbox'[p][i] = inbox[p][i]
           \/ inbox'[p][i].what = what /\ inbox'[p][i].to = window[p].worker
  BY <1>2, PostFields
<1>4. TypeOK'
  BY <1>1, <1>3 DEF TypeOK, Message
<1>5. Sure(p) => Sure(p)'
  BY DEF Sure
<1>6. promise[p] # "none" /\ p \notin opening /\ UnderWay(p)
  BY LiveWindow
<1>7. reply'[p] = NoReply
  BY <1>1 DEF Desk, Heard
<1>8. \A i \in DOMAIN inbox'[p] : inbox'[p][i].what # "ready"
  BY <1>1, <1>3 DEF Desk, Heard
<1>9. Backed(p)'
  <2>1. \A i \in DOMAIN inbox'[p] : inbox'[p][i].what = "approved" => Sure(p)
    BY <1>1, <1>3 DEF Desk, Backed
  <2> QED BY <1>1, <1>5, <2>1 DEF Desk, Backed
<1>10. Desk(p)'
  BY <1>1, <1>6, <1>7, <1>8, <1>9 DEF Desk, Unopened, Opens, Unheard, Heard, Replies
<1>11. Onward(p)'
  BY <1>1, <1>3, <1>7 DEF Onward
<1> QED
  BY <1>3, <1>4, <1>5, <1>6, <1>7, <1>10, <1>11, WindowStep

\* Approve: only a window with a good token and enough balance says approved.
LEMMA ApproveKeeps ==
  ASSUME HandlerInv, NEW p \in Payments, Approve(p)
  PROVE  HandlerInv'
<1>1. /\ window[p].at = "open" /\ window[p].enabled
      /\ UNCHANGED <<active, event, resolver, host, promise, opening, reply, settledBy,
                     troubles>>
  BY DEF Approve, current
<1>2. TypeOK /\ Desk(p) /\ window[p] \in Window
  BY AtWindow DEF HandlerInv
<1>3. Sure(p) /\ window[p].worker # 0 /\ Live(p)
  BY <1>1, <1>2 DEF Desk, Backed, Sure, Live
<1>4. /\ reply' \in [Payments -> [from : 0..MaxWorkers, payment : Maybe]]
      /\ \A w \in Payments \ {p} : reply'[w] = reply[w]
      /\ reply'[p] \in {reply[p], NoReply}
  BY <1>1, <1>2 DEF TypeOK
<1>5. CASE /\ Post(p, "approved", window[p].worker)
           /\ window' = [window EXCEPT ![p].enabled = FALSE, ![p].at = "closing"]
  <2>1. window'[p] = Approved(window[p])
    BY <1>2, <1>5 DEF TypeOK, Approved
  <2>2. /\ window'[p] \in Window
        /\ window'[p].worker = window[p].worker /\ window'[p].data = window[p].data
        /\ window'[p].covered = window[p].covered
        /\ window'[p].fetching = window[p].fetching /\ ~window'[p].enabled
    BY <1>2, <2>1, ApprovedFields
  <2>3. /\ window' \in [Payments -> Window]
        /\ \A w \in Payments \ {p} : window'[w] = window[w]
    BY <1>2, <1>5, <2>2 DEF TypeOK
  <2> QED
    BY <1>1, <1>3, <1>4, <1>5, <2>2, <2>3, HeardPosts
<1>6. CASE Post(p, "error", window[p].worker) /\ UNCHANGED window
  <2>1. window' \in [Payments -> Window]
    BY <1>2, <1>6 DEF TypeOK
  <2> QED
    BY <1>1, <1>3, <1>4, <1>6, <2>1, HeardPosts
<1> QED BY <1>5, <1>6 DEF Approve

\* What Closed does to a window: it forgets nothing but what it waits for.
LEMMA ClosedWindow ==
  ASSUME HandlerInv, NEW p \in Payments, Closed(p)
  PROVE  /\ window' \in [Payments -> Window]
         /\ \A w \in Payments \ {p} : window'[w] = window[w]
         /\ window'[p].at = "closed" /\ ~window'[p].fetching
         /\ window'[p].worker = window[p].worker /\ window'[p].data = window[p].data
         /\ window'[p].covered = window[p].covered
         /\ window'[p].enabled = window[p].enabled
         /\ reply' \in [Payments -> [from : 0..MaxWorkers, payment : Maybe]]
         /\ \A w \in Payments \ {p} : reply'[w] = reply[w]
         /\ reply'[p] = NoReply
<1>1. TypeOK /\ window[p] \in Window
  BY AtWindow DEF HandlerInv
<1>2. window'[p] = Shut(window[p])
  BY <1>1 DEF Closed, TypeOK, Shut
<1>3. /\ window'[p] \in Window
      /\ window'[p].at = "closed" /\ ~window'[p].fetching
      /\ window'[p].worker = window[p].worker /\ window'[p].data = window[p].data
      /\ window'[p].covered = window[p].covered
      /\ window'[p].enabled = window[p].enabled
  BY <1>1, <1>2, ClosedFields
<1>4. /\ window' \in [Payments -> Window]
      /\ \A w \in Payments \ {p} : window'[w] = window[w]
  BY <1>1, <1>3 DEF Closed, TypeOK
<1>5. NoReply \in [from : 0..MaxWorkers, payment : Maybe]
  BY HandlerAssumption DEF NoReply, Maybe
<1> QED BY <1>1, <1>3, <1>4, <1>5 DEF Closed, TypeOK

\* A window that closes without a word.
LEMMA SilentlyClosed ==
  ASSUME HandlerInv, NEW p \in Payments, Live(p), Closed(p),
         UNCHANGED <<active, event, resolver, host, promise, opening, inbox, settledBy>>,
         troubles \subseteq troubles', troubles' \in SUBSET Troubles
  PROVE  HandlerInv'
<1>1. TypeOK /\ Desk(p) /\ Onward(p)
  BY AtWindow DEF HandlerInv
<1>2. promise[p] # "none" /\ p \notin opening /\ UnderWay(p)
  BY LiveWindow
<1>3. TypeOK'
  BY <1>1, ClosedWindow DEF TypeOK
<1>4. Sure(p) => Sure(p)'
  BY ClosedWindow DEF Sure
<1>5. Desk(p)'
  BY <1>1, <1>2, <1>4, ClosedWindow
     DEF Desk, Unopened, Opens, Unheard, Heard, Replies, Backed
<1>6. Onward(p)'
  BY <1>1, ClosedWindow DEF Onward
<1> QED
  BY <1>2, <1>3, <1>4, <1>5, <1>6, ClosedWindow, WindowStep

\* Cancel: a window that knows its worker says so, one that does not is silent.
LEMMA CancelKeeps ==
  ASSUME HandlerInv, NEW p \in Payments, Cancel(p)
  PROVE  HandlerInv'
<1>1. /\ Live(p) /\ Closed(p)
      /\ UNCHANGED <<active, event, resolver, host, promise, opening, settledBy>>
  BY DEF Cancel, current
<1>2. CASE window[p].worker # 0
  <2>1. Post(p, "cancelled", window[p].worker) /\ UNCHANGED troubles
    BY <1>2 DEF Cancel
  <2> QED BY <1>1, <1>2, <2>1, ClosedWindow, HeardPosts
<1>3. CASE window[p].worker = 0
  <2>1. UNCHANGED inbox /\ Trouble("abandoned", TRUE)
    BY <1>3 DEF Cancel
  <2>2. troubles \subseteq troubles' /\ troubles' \in SUBSET Troubles
    BY <2>1 DEF HandlerInv, TypeOK, Trouble, Troubles
  <2> QED BY <1>1, <2>1, <2>2, SilentlyClosed
<1> QED BY <1>2, <1>3

\* CloseApproved: the approval is under way or was received.
LEMMA CloseApprovedKeeps ==
  ASSUME HandlerInv, NEW p \in Payments, CloseApproved(p)
  PROVE  HandlerInv'
<1>1. /\ Live(p) /\ Closed(p)
      /\ UNCHANGED <<active, event, resolver, host, promise, opening, inbox, settledBy,
                     troubles>>
  BY DEF CloseApproved, current, Live
<1>2. troubles \subseteq troubles' /\ troubles' \in SUBSET Troubles
  BY <1>1 DEF HandlerInv, TypeOK
<1> QED BY <1>1, <1>2, SilentlyClosed

\* Abandon: the user closes the window.
LEMMA AbandonKeeps ==
  ASSUME HandlerInv, NEW p \in Payments, Abandon(p)
  PROVE  HandlerInv'
<1>1. /\ Live(p) /\ Closed(p)
      /\ UNCHANGED <<active, event, resolver, host, promise, opening, inbox, settledBy>>
  BY DEF Abandon, current, Live
<1>2. troubles \subseteq troubles' /\ troubles' \in SUBSET Troubles
  BY DEF HandlerInv, TypeOK, Abandon, Trouble, Troubles
<1> QED BY <1>1, <1>2, SilentlyClosed

-----------------------------------------------------------------------------
(* The steps of the worker *)

\* A step that leaves every window as it is: what has to be seen of the messages
\* and of the promises to keep the whole invariant.
LEMMA WorkerStep ==
  ASSUME HandlerInv, TypeOK', Registers', UNCHANGED <<window, host>>,
         troubles \subseteq troubles',
         \A g \in Workers : resolver'[g] \in {resolver[g], NoPayment},
         \A w \in Payments : Desk(w)' /\ Onward(w)' /\ (UnderWay(w)' => UnderWay(w)),
         \A w \in Payments :
           promise'[w] = "approved" =>
             \/ promise[w] = "approved" /\ settledBy'[w] = settledBy[w]
             \/ settledBy'[w] \in Payments /\ \E v \in Payments : v = settledBy'[w] /\ Sure(v),
         "overlap" \notin troubles => \A w \in Payments :
           /\ reply'[w] # NoReply => reply'[w] = reply[w] \/ reply'[w].payment = w
           /\ promise'[w] \in {"approved", "rejected"} =>
                settledBy'[w] = w \/ (promise'[w] = promise[w] /\ settledBy'[w] = settledBy[w])
  PROVE  HandlerInv'
<1>1. \A w \in Payments : Granted(w)'
  <2> SUFFICES ASSUME NEW w \in Payments, promise'[w] = "approved"
               PROVE  settledBy'[w] # NoPayment /\ Sure(settledBy[w])'
    BY DEF Granted
  <2>1. CASE promise[w] = "approved" /\ settledBy'[w] = settledBy[w]
    <3>1. settledBy[w] # NoPayment /\ Sure(settledBy[w])
      BY <2>1 DEF HandlerInv, Granted
    <3> QED BY <2>1, <3>1 DEF Sure
  <2>2. CASE \E v \in Payments : v = settledBy'[w] /\ Sure(v)
    <3>1. PICK v \in Payments : v = settledBy'[w] /\ Sure(v)
      BY <2>2
    <3> QED BY <3>1, HandlerAssumption DEF Sure
  <2> QED BY <2>1, <2>2
<1>2. ("overlap" \notin troubles => \A w \in Payments : Alone(w))'
  <2> SUFFICES ASSUME "overlap" \notin troubles', NEW w \in Payments
               PROVE  Alone(w)'
    OBVIOUS
  <2>1. Alone(w) /\ "overlap" \notin troubles
    BY DEF HandlerInv
  <2> QED BY <2>1, StaysAlone
<1> QED BY <1>1, <1>2 DEF HandlerInv

\* Activate: the new worker has no payment.
LEMMA ActivateKeeps ==
  ASSUME HandlerInv, Activate
  PROVE  HandlerInv'
<1>1. /\ active < MaxWorkers /\ active' = active + 1
      /\ UNCHANGED <<event, resolver, host, promise, opening, window, inbox, reply,
                     settledBy>>
  BY DEF Activate, current
<1>2. TypeOK
  BY DEF HandlerInv
<1>3. troubles \subseteq troubles' /\ troubles' \in SUBSET Troubles
  BY <1>2 DEF Activate, Trouble, Troubles, TypeOK
<1>4. active' \in Workers /\ active \in Int /\ active <= active'
  BY <1>1, <1>2, HandlerAssumption DEF TypeOK, Workers
<1>5. TypeOK'
  BY <1>1, <1>2, <1>3, <1>4 DEF TypeOK
<1>6. Registers'
  <2>1. \A g \in Workers : active' < g => active < g
    BY <1>1, <1>4 DEF Workers
  <2> QED BY <1>1, <2>1 DEF HandlerInv, Registers
<1>7. \A w \in Payments : Quiet(w)
  BY <1>1 DEF Quiet
<1>8. \A w \in Payments : Desk(w)' /\ Onward(w)'
  BY <1>2, <1>4, <1>5, <1>7, QuietDesk, QuietOnward DEF HandlerInv
<1>9. \A w \in Payments : UnderWay(w)' => UnderWay(w)
  BY <1>1 DEF UnderWay, Live
<1>10. \A w \in Payments : promise'[w] = "approved" =>
         promise[w] = "approved" /\ settledBy'[w] = settledBy[w]
  BY <1>1
<1> QED
  BY <1>1, <1>3, <1>5, <1>6, <1>8, <1>9, <1>10, WorkerStep

\* What Clear does to the registers of a worker.
LEMMA ClearedRegisters ==
  ASSUME HandlerInv, NEW h \in Workers, Clear(h), active' = active
  PROVE  /\ event' \in [Workers -> Maybe] /\ resolver' \in [Workers -> Maybe]
         /\ \A g \in Workers : resolver'[g] \in {resolver[g], NoPayment}
         /\ Registers'
BY DEF HandlerInv, TypeOK, Registers, Clear, Maybe

\* Terminate: the promises of the worker are dropped, its windows are not told.
LEMMA TerminateKeeps ==
  ASSUME HandlerInv, NEW h \in Workers, Terminate(h)
  PROVE  HandlerInv'
<1>1. /\ Clear(h)
      /\ promise' = [p \in Payments |-> IF promise[p] = "pending" /\ host[p] = h
                                        THEN "dropped" ELSE promise[p]]
      /\ opening' \subseteq opening
      /\ UNCHANGED <<active, host, window, inbox, reply, settledBy>>
  BY DEF Terminate
<1>2. TypeOK
  BY DEF HandlerInv
<1>3. troubles \subseteq troubles' /\ troubles' \in SUBSET Troubles
  BY <1>2 DEF Terminate, Trouble, Troubles, TypeOK
<1>4. promise' \in [Payments -> {"none", "pending", "approved", "rejected", "dropped"}]
  BY <1>1, <1>2 DEF TypeOK
<1>5. \A w \in Payments :
        \/ promise'[w] = promise[w]
        \/ promise[w] = "pending" /\ promise'[w] = "dropped"
  BY <1>1, <1>2 DEF TypeOK
<1>6. /\ event' \in [Workers -> Maybe] /\ resolver' \in [Workers -> Maybe]
      /\ \A g \in Workers : resolver'[g] \in {resolver[g], NoPayment}
      /\ Registers'
  BY <1>1, ClearedRegisters
<1>7. TypeOK'
  BY <1>1, <1>2, <1>3, <1>4, <1>6 DEF TypeOK
<1>8. \A w \in Payments : Quiet(w)
  BY <1>1, <1>5 DEF Quiet
<1>9. active <= active'
  BY <1>1, <1>2, HandlerAssumption DEF TypeOK, Workers
<1>10. \A w \in Payments : Desk(w)' /\ Onward(w)'
  BY <1>2, <1>7, <1>8, <1>9, QuietDesk, QuietOnward DEF HandlerInv
<1>11. \A w \in Payments : UnderWay(w)' => UnderWay(w)
  BY <1>1, <1>5 DEF UnderWay, Live
<1>12. \A w \in Payments :
         /\ promise'[w] = "approved" =>
              promise[w] = "approved" /\ settledBy'[w] = settledBy[w]
         /\ promise'[w] \in {"approved", "rejected"} =>
              promise'[w] = promise[w] /\ settledBy'[w] = settledBy[w]
  BY <1>1, <1>5
<1> QED
  BY <1>1, <1>3, <1>6, <1>7, <1>10, <1>11, <1>12, WorkerStep

\* What Settle does to the promises: at most one that was pending is settled.
LEMMA SettledPromise ==
  ASSUME HandlerInv, NEW q \in Maybe, NEW how \in {"approved", "rejected"},
         NEW v \in Payments, Settle(q, how, v)
  PROVE  /\ promise' \in [Payments -> {"none", "pending", "approved", "rejected", "dropped"}]
         /\ settledBy' \in [Payments -> Maybe]
         /\ \A w \in Payments :
              \/ promise'[w] = promise[w] /\ settledBy'[w] = settledBy[w]
              \/ w = q /\ promise[w] = "pending" /\ promise'[w] = how /\ settledBy'[w] = v
<1>1. TypeOK
  BY DEF HandlerInv
<1>2. CASE q # NoPayment /\ promise[q] = "pending"
  <2>1. q \in Payments /\ v \in Maybe
    BY <1>2 DEF Maybe
  <2>2. promise' = [promise EXCEPT ![q] = how] /\ settledBy' = [settledBy EXCEPT ![q] = v]
    BY <1>2 DEF Settle
  <2> QED BY <1>1, <1>2, <2>1, <2>2 DEF TypeOK
<1>3. CASE ~(q # NoPayment /\ promise[q] = "pending")
  BY <1>1, <1>3 DEF Settle, TypeOK
<1> QED BY <1>2, <1>3

\* While no payments overlap, the worker a window deals with settles its payment or
\* none.
LEMMA OwnOrNone ==
  ASSUME HandlerInv, "overlap" \notin troubles, NEW p \in Payments, UnderWay(p),
         NEW g \in Workers, host[p] <= g
  PROVE  resolver[g] \in {NoPayment, p}
BY DEF HandlerInv, Alone

\* OpenWindowFails: the resolver of now is called, whoever it belongs to.
LEMMA OpenWindowFailsKeeps ==
  ASSUME HandlerInv, NEW p \in Payments, OpenWindowFails(p)
  PROVE  HandlerInv'
<1>1. /\ p \in opening /\ opening' \subseteq opening
      /\ Settle(resolver[host[p]], "rejected", p)
      /\ UNCHANGED <<active, event, resolver, host, window, inbox, reply, troubles>>
  BY DEF OpenWindowFails, current
<1>2. TypeOK /\ host[p] \in Workers
  BY AtWindow DEF HandlerInv
<1>3. resolver[host[p]] \in Maybe
  BY <1>2 DEF TypeOK
<1>4. /\ promise' \in [Payments -> {"none", "pending", "approved", "rejected", "dropped"}]
      /\ settledBy' \in [Payments -> Maybe]
      /\ \A w \in Payments :
           \/ promise'[w] = promise[w] /\ settledBy'[w] = settledBy[w]
           \/ /\ w = resolver[host[p]] /\ promise[w] = "pending"
              /\ promise'[w] = "rejected" /\ settledBy'[w] = p
  BY <1>1, <1>3, SettledPromise
<1>5. TypeOK'
  BY <1>1, <1>2, <1>4 DEF TypeOK
<1>6. \A w \in Payments : Quiet(w)
  BY <1>1, <1>4 DEF Quiet
<1>7. active <= active' /\ host[p] <= host[p]
  BY <1>1, <1>2, HandlerAssumption DEF TypeOK, Workers
<1>8. \A w \in Payments : Desk(w)' /\ Onward(w)'
  BY <1>2, <1>5, <1>6, <1>7, QuietDesk, QuietOnward DEF HandlerInv
<1>9. \A w \in Payments : UnderWay(w)' => UnderWay(w)
  BY <1>1, <1>4 DEF UnderWay, Live
<1>10. "overlap" \notin troubles => resolver[host[p]] \in {NoPayment, p}
  <2>1. UnderWay(p)
    BY <1>1 DEF UnderWay
  <2> QED BY <1>2, <1>7, <2>1, OwnOrNone
<1>11. Registers'
  BY <1>1 DEF HandlerInv, Registers
<1>12. "overlap" \notin troubles => \A w \in Payments :
         promise'[w] \in {"approved", "rejected"} =>
           settledBy'[w] = w \/ (promise'[w] = promise[w] /\ settledBy'[w] = settledBy[w])
  BY <1>4, <1>10, HandlerAssumption
<1>13. \A w \in Payments : promise'[w] = "approved" =>
         promise[w] = "approved" /\ settledBy'[w] = settledBy[w]
  BY <1>4
<1> QED
  BY <1>1, <1>5, <1>8, <1>9, <1>11, <1>12, <1>13, WorkerStep

\* Receive: the message the worker takes is the oldest of the window.
LEMMA FirstMessage ==
  ASSUME HandlerInv, NEW p \in Payments, inbox[p] # <<>>
  PROVE  /\ Head(inbox[p]) \in Message /\ host[p] <= Head(inbox[p]).to
         /\ Tail(inbox[p]) \in Seq(Message)
         /\ \A i \in DOMAIN Tail(inbox[p]) :
              \E j \in DOMAIN inbox[p] : j # 1 /\ Tail(inbox[p])[i] = inbox[p][j]
         /\ Head(inbox[p]).what = "approved" => Sure(p)
         /\ Head(inbox[p]).what = "ready" =>
              window[p].worker = 0 /\ reply[p] = NoReply /\ DOMAIN Tail(inbox[p]) = {}
         /\ promise[p] # "none" /\ p \notin opening /\ UnderWay(p)
<1>1. Desk(p) /\ Onward(p) /\ inbox[p] \in Seq(Message)
  BY AtWindow
<1> HIDE DEF Message
<1>2. /\ Tail(inbox[p]) \in Seq(Message) /\ Head(inbox[p]) \in Message
      /\ 1 \in DOMAIN inbox[p] /\ Head(inbox[p]) = inbox[p][1]
      /\ \A i \in DOMAIN Tail(inbox[p]) :
           i \in Nat \ {0} /\ i + 1 \in DOMAIN inbox[p] /\ Tail(inbox[p])[i] = inbox[p][i + 1]
  BY <1>1, TailOfQueue
<1>3. \A i \in DOMAIN Tail(inbox[p]) :
        \E j \in DOMAIN inbox[p] : j # 1 /\ Tail(inbox[p])[i] = inbox[p][j]
  <2> TAKE i \in DOMAIN Tail(inbox[p])
  <2>1. i \in Nat \ {0} /\ i + 1 # 1
    BY <1>2
  <2> QED BY <1>2, <2>1
<1>4. Head(inbox[p]).what = "ready" =>
        window[p].worker = 0 /\ reply[p] = NoReply /\ DOMAIN Tail(inbox[p]) = {}
  <2> SUFFICES ASSUME Head(inbox[p]).what = "ready"
               PROVE  window[p].worker = 0 /\ reply[p] = NoReply /\ DOMAIN Tail(inbox[p]) = {}
    OBVIOUS
  <2>1. window[p].worker = 0
    BY <1>1, <1>2 DEF Desk, Heard
  <2>2. reply[p] = NoReply /\ \A j \in DOMAIN inbox[p] : j = 1
    BY <1>1, <2>1 DEF Desk, Unheard
  <2> QED BY <1>3, <2>1, <2>2
<1>5. host[p] <= Head(inbox[p]).to
  BY <1>1, <1>2 DEF Onward
<1>6. Head(inbox[p]).what = "approved" => Sure(p)
  BY <1>1, <1>2 DEF Desk, Backed
<1>7. promise[p] # "none" /\ p \notin opening /\ UnderWay(p)
  BY <1>1 DEF Desk, Unopened, UnderWay
<1> QED BY <1>2, <1>3, <1>4, <1>5, <1>6, <1>7

\* A queue without messages is empty.
LEMMA EmptyQueue ==
  ASSUME NEW s \in Seq(Message), DOMAIN s = {}
  PROVE  s = <<>>
<1> HIDE DEF Message
<1>1. DOMAIN s = 1..Len(s) /\ Len(s) \in Nat
  BY LenProperties
<1>2. s # <<>> => Len(s) \in Nat \ {0}
  BY EmptySeq
<1>3. Len(s) \in Nat \ {0} => 1 \in 1..Len(s)
  OBVIOUS
<1> QED BY <1>1, <1>2, <1>3

\* The three outcomes of a message: ignored, answered, or the promise is settled.
LEMMA ReceiveCases ==
  ASSUME HandlerInv, NEW p \in Payments, Receive(p)
  PROVE  \/ UNCHANGED <<event, resolver, promise, reply, settledBy>>
         \/ /\ Head(inbox[p]).what = "ready" /\ resolver[Head(inbox[p]).to] # NoPayment
            /\ reply' = [reply EXCEPT ![p] =
                 IF Live(p) THEN [from |-> Head(inbox[p]).to,
                                  payment |-> event[Head(inbox[p]).to]]
                 ELSE NoReply]
            /\ UNCHANGED <<event, resolver, promise, settledBy>>
         \/ /\ Settle(resolver[Head(inbox[p]).to],
                      IF Head(inbox[p]).what = "approved" THEN "approved" ELSE "rejected", p)
            /\ Clear(Head(inbox[p]).to)
            /\ UNCHANGED reply
BY DEF Receive, current

\* Receive: an answer goes to a window that waits for one, and a settlement comes
\* from a window that was sure of what it says.
LEMMA ReceiveKeeps ==
  ASSUME HandlerInv, NEW p \in Payments, Receive(p)
  PROVE  HandlerInv'
<1> DEFINE m == Head(inbox[p])
           h == m.to
           q == resolver[h]
<1>1. /\ inbox[p] # <<>> /\ inbox' = [inbox EXCEPT ![p] = Tail(inbox[p])]
      /\ UNCHANGED <<active, host, opening, window, troubles>>
  BY DEF Receive, HandlerInv, TypeOK
<1>2. TypeOK /\ Desk(p) /\ Onward(p)
  BY AtWindow DEF HandlerInv
<1>3. /\ m \in Message /\ host[p] <= h
      /\ Tail(inbox[p]) \in Seq(Message)
      /\ \A i \in DOMAIN Tail(inbox[p]) :
           \E j \in DOMAIN inbox[p] : j # 1 /\ Tail(inbox[p])[i] = inbox[p][j]
      /\ m.what = "approved" => Sure(p)
      /\ m.what = "ready" =>
           window[p].worker = 0 /\ reply[p] = NoReply /\ DOMAIN Tail(inbox[p]) = {}
      /\ promise[p] # "none" /\ p \notin opening /\ UnderWay(p)
  BY <1>1, FirstMessage
<1>4. m.what \in Posts /\ h \in Workers
  BY <1>3 DEF Message
<1>5. q \in Maybe /\ event[h] = q
  BY <1>2, <1>4 DEF TypeOK, HandlerInv, Registers
<1>6. "overlap" \notin troubles => q \in {NoPayment, p}
  BY <1>3, <1>4, OwnOrNone
<1>7. \/ UNCHANGED <<event, resolver, promise, reply, settledBy>>
      \/ /\ m.what = "ready" /\ q # NoPayment
         /\ reply' = [reply EXCEPT ![p] = IF Live(p) THEN [from |-> h, payment |-> event[h]]
                                          ELSE NoReply]
         /\ UNCHANGED <<event, resolver, promise, settledBy>>
      \/ /\ Settle(q, IF m.what = "approved" THEN "approved" ELSE "rejected", p)
         /\ Clear(h)
         /\ UNCHANGED reply
  BY ReceiveCases
<1> HIDE DEF m, h, q
<1>8. /\ inbox' \in [Payments -> Seq(Message)]
      /\ \A w \in Payments \ {p} : inbox'[w] = inbox[w]
      /\ inbox'[p] = Tail(inbox[p])
  <2>1. inbox \in [Payments -> Seq(Message)]
    BY <1>2 DEF TypeOK, Message
  <2> QED BY <1>1, <1>3, <2>1
<1>9. /\ reply' \in [Payments -> [from : 0..MaxWorkers, payment : Maybe]]
      /\ \A w \in Payments \ {p} : reply'[w] = reply[w]
      /\ \/ reply'[p] = reply[p]
         \/ /\ m.what = "ready"
            /\ \/ reply'[p] = NoReply
               \/ /\ reply'[p].from = h /\ reply'[p].payment = q /\ q # NoPayment
  <2>1. reply \in [Payments -> [from : 0..MaxWorkers, payment : Maybe]]
    BY <1>2 DEF TypeOK
  <2>2. CASE UNCHANGED reply
    BY <2>1, <2>2
  <2>3. CASE /\ m.what = "ready" /\ q # NoPayment
             /\ reply' = [reply EXCEPT ![p] =
                            IF Live(p) THEN [from |-> h, payment |-> event[h]] ELSE NoReply]
    <3> DEFINE r == IF Live(p) THEN [from |-> h, payment |-> event[h]] ELSE NoReply
    <3>1. /\ r \in [from : 0..MaxWorkers, payment : Maybe]
          /\ r = NoReply \/ (r.from = h /\ r.payment = q)
      BY <1>4, <1>5, HandlerAssumption DEF NoReply, Maybe, Workers
    <3>2. reply' = [reply EXCEPT ![p] = r]
      BY <2>3
    <3> HIDE DEF r
    <3> QED BY <2>1, <2>3, <3>1, <3>2
  <2> QED BY <1>7, <2>2, <2>3
<1>10. /\ event' \in [Workers -> Maybe] /\ resolver' \in [Workers -> Maybe]
       /\ \A g \in Workers : resolver'[g] \in {resolver[g], NoPayment}
       /\ Registers'
  <2>1. CASE UNCHANGED <<event, resolver>>
    BY <1>1, <1>2, <2>1 DEF HandlerInv, TypeOK, Registers
  <2>2. CASE Clear(h)
    BY <1>1, <1>4, <2>2, ClearedRegisters
  <2> QED BY <1>7, <2>1, <2>2
<1>11. PICK how \in {"approved", "rejected"} :
         how = IF m.what = "approved" THEN "approved" ELSE "rejected"
  OBVIOUS
<1>12. /\ promise' \in [Payments -> {"none", "pending", "approved", "rejected", "dropped"}]
       /\ settledBy' \in [Payments -> Maybe]
       /\ \A w \in Payments :
            \/ promise'[w] = promise[w] /\ settledBy'[w] = settledBy[w]
            \/ w = q /\ promise[w] = "pending" /\ promise'[w] = how /\ settledBy'[w] = p
  <2>1. CASE UNCHANGED <<promise, settledBy>>
    BY <1>2, <2>1 DEF TypeOK
  <2>2. CASE Settle(q, how, p)
    BY <1>5, <2>2, SettledPromise
  <2> QED BY <1>7, <1>11, <2>1, <2>2
<1>13. TypeOK'
  BY <1>1, <1>2, <1>8, <1>9, <1>10, <1>12 DEF TypeOK, Message
<1>14. \A w \in Payments \ {p} : Quiet(w)
  BY <1>1, <1>8, <1>9, <1>12 DEF Quiet
<1>15. promise'[p] # "none" /\ p \notin opening'
  BY <1>1, <1>3, <1>12
<1>16. /\ \A i \in DOMAIN inbox'[p] :
            \E j \in DOMAIN inbox[p] : j # 1 /\ inbox'[p][i] = inbox[p][j]
       /\ m.what = "ready" => window[p].worker = 0 /\ inbox'[p] = <<>>
  BY <1>3, <1>8, EmptyQueue
<1>17. Unheard(p)'
  <2> SUFFICES ASSUME window'[p].worker = 0
               PROVE  /\ ~window'[p].fetching /\ ~window'[p].enabled
                      /\ \A i \in DOMAIN inbox'[p] : i = 1 /\ inbox'[p][i].what = "ready"
                      /\ reply'[p] # NoReply => inbox'[p] = <<>>
    BY DEF Unheard
  <2>1. /\ ~window[p].fetching /\ ~window[p].enabled
        /\ \A j \in DOMAIN inbox[p] : j = 1
        /\ reply[p] = NoReply
    BY <1>1, <1>2 DEF Desk, Unheard
  <2>2. \A i \in DOMAIN inbox'[p] : FALSE
    BY <1>16, <2>1
  <2> QED BY <1>1, <1>9, <1>16, <2>1, <2>2
<1>18. Heard(p)'
  BY <1>1, <1>2, <1>9, <1>16 DEF Desk, Heard
<1>19. Replies(p)'
  BY <1>2, <1>4, <1>9 DEF Desk, Replies
<1>20. Backed(p)'
  BY <1>1, <1>2, <1>16 DEF Desk, Backed, Sure
<1>21. Desk(p)'
  BY <1>15, <1>17, <1>18, <1>19, <1>20 DEF Desk, Unopened, Opens
<1>22. Onward(p)'
  BY <1>1, <1>2, <1>3, <1>9, <1>16 DEF Onward
<1>23. \A w \in Payments : Desk(w)' /\ Onward(w)'
  <2>1. active <= active'
    BY <1>1, <1>2, HandlerAssumption DEF TypeOK, Workers
  <2> QED BY <1>2, <1>13, <1>14, <1>21, <1>22, <2>1, QuietDesk, QuietOnward DEF HandlerInv
<1>24. \A w \in Payments : UnderWay(w)' => UnderWay(w)
  BY <1>1, <1>3, <1>8, <1>12 DEF UnderWay, Live
<1>25. \A w \in Payments : promise'[w] = "approved" =>
         \/ promise[w] = "approved" /\ settledBy'[w] = settledBy[w]
         \/ settledBy'[w] \in Payments /\ \E v \in Payments : v = settledBy'[w] /\ Sure(v)
  BY <1>3, <1>11, <1>12
<1>26. "overlap" \notin troubles => \A w \in Payments :
         /\ reply'[w] # NoReply => reply'[w] = reply[w] \/ reply'[w].payment = w
         /\ promise'[w] \in {"approved", "rejected"} =>
              settledBy'[w] = w \/ (promise'[w] = promise[w] /\ settledBy'[w] = settledBy[w])
  BY <1>6, <1>9, <1>12, HandlerAssumption
<1> QED
  BY <1>1, <1>10, <1>13, <1>23, <1>24, <1>25, <1>26, WorkerStep

\* PaymentRequest: the payment is new, so nothing was said about it; if no trouble
\* is noted then no other payment is under way either.
LEMMA PaymentRequestKeeps ==
  ASSUME HandlerInv, NEW p \in Payments, PaymentRequest(p)
  PROVE  HandlerInv'
<1>1. /\ promise[p] = "none" /\ promise' = [promise EXCEPT ![p] = "pending"]
      /\ host' = [host EXCEPT ![p] = active]
      /\ event' = [event EXCEPT ![active] = p]
      /\ resolver' = [resolver EXCEPT ![active] = p]
      /\ opening' = opening \cup {p}
      /\ UNCHANGED <<active, window, inbox, reply, settledBy>>
  BY DEF PaymentRequest
<1>2. Trouble("overlap", \E w \in Payments : UnderWay(w))
  BY DEF PaymentRequest
<1>3. TypeOK /\ Registers /\ Desk(p) /\ active \in Workers
  BY AtWindow DEF HandlerInv
<1>4. /\ troubles \subseteq troubles' /\ troubles' \in SUBSET Troubles
      /\ "overlap" \notin troubles' =>
           "overlap" \notin troubles /\ \A w \in Payments : ~UnderWay(w)
  BY <1>2, <1>3 DEF Trouble, Troubles, TypeOK
<1>5. window[p] = NoWindow /\ inbox[p] = <<>> /\ reply[p] = NoReply
  BY <1>1, <1>3 DEF Desk, Unopened
<1>6. p \in Maybe
  BY DEF Maybe
<1>7. TypeOK'
  BY <1>1, <1>3, <1>4, <1>6 DEF TypeOK
<1>8. /\ promise'[p] = "pending" /\ host'[p] = active /\ resolver'[active] = p
      /\ \A w \in Payments \ {p} : promise'[w] = promise[w] /\ host'[w] = host[w]
      /\ \A g \in Workers \ {active} : resolver'[g] = resolver[g]
  BY <1>1, <1>3 DEF TypeOK
<1>9. Registers'
  <2>1. event' = resolver'
    BY <1>1, <1>3 DEF Registers
  <2>2. \A g \in Workers : active' < g => resolver'[g] = NoPayment
    <3> TAKE g \in Workers
    <3>1. active < g => g # active
      BY <1>3 DEF Workers
    <3> QED BY <1>1, <1>3, <1>8, <3>1 DEF Registers
  <2> QED BY <2>1, <2>2 DEF Registers
<1>10. \A w \in Payments \ {p} : Quiet(w)
  BY <1>1, <1>8 DEF Quiet
<1>11. active <= active' /\ active' = active /\ active \in Int
  BY <1>1, <1>3, HandlerAssumption DEF Workers
<1>12. NoWindow.worker = 0 /\ ~NoWindow.fetching /\ ~NoWindow.enabled
       /\ NoWindow.data = NoPayment
  BY DEF NoWindow
<1>13. DOMAIN inbox'[p] = {}
  BY <1>1, <1>5, NoMessages
<1>14. Desk(p)'
  BY <1>1, <1>5, <1>8, <1>12, <1>13
     DEF Desk, Unopened, Opens, Unheard, Heard, Replies, Backed
<1>15. Onward(p)'
  BY <1>1, <1>5, <1>8, <1>11, <1>12, <1>13 DEF Onward
<1>16. \A w \in Payments : Desk(w)' /\ Onward(w)'
  BY <1>3, <1>7, <1>10, <1>11, <1>14, <1>15, QuietDesk, QuietOnward DEF HandlerInv
<1>17. \A w \in Payments : Granted(w)'
  <2> SUFFICES ASSUME NEW w \in Payments, promise'[w] = "approved"
               PROVE  settledBy'[w] # NoPayment /\ Sure(settledBy[w])'
    BY DEF Granted
  <2>1. promise[w] = "approved"
    BY <1>8
  <2>2. settledBy[w] # NoPayment /\ Sure(settledBy[w])
    BY <2>1 DEF HandlerInv, Granted
  <2> QED BY <1>1, <2>2 DEF Sure
<1>18. ("overlap" \notin troubles => \A w \in Payments : Alone(w))'
  <2> SUFFICES ASSUME "overlap" \notin troubles', NEW w \in Payments
               PROVE  Alone(w)'
    OBVIOUS
  <2>1. Alone(w) /\ ~UnderWay(w)
    BY <1>4 DEF HandlerInv
  <2>2. CASE w = p
    <3>1. \A g \in Workers : host'[p] <= g => resolver'[g] \in {NoPayment, p}
      <4> SUFFICES ASSUME NEW g \in Workers, active <= g
                   PROVE  resolver'[g] \in {NoPayment, p}
        BY <1>8
      <4>1. g = active \/ active < g
        BY <1>3 DEF Workers
      <4>2. active < g => g # active
        BY <1>3 DEF Workers
      <4> QED BY <1>3, <1>8, <4>1, <4>2 DEF Registers
    <3>2. promise'[p] \notin {"approved", "rejected"}
      BY <1>8
    <3> QED BY <1>1, <1>5, <1>12, <2>2, <3>1, <3>2 DEF Alone
  <2>3. CASE w # p
    <3>1. ~UnderWay(w)'
      BY <1>1, <1>8, <2>1, <2>3 DEF UnderWay, Live
    <3> QED BY <1>1, <1>8, <2>1, <2>3, <3>1 DEF Alone
  <2> QED BY <2>2, <2>3
<1> QED BY <1>7, <1>9, <1>16, <1>17, <1>18 DEF HandlerInv

-----------------------------------------------------------------------------
(* The theorems *)

\* Nothing has happened yet.
LEMMA InitHandler == Init => HandlerInv
<1> SUFFICES ASSUME Init PROVE HandlerInv
  OBVIOUS
<1>1. 1 \in Workers /\ 0 \in 0..MaxWorkers /\ NoPayment \in Maybe
  BY HandlerAssumption DEF Workers, Maybe
<1>2. NoReply \in [from : 0..MaxWorkers, payment : Maybe]
  BY <1>1 DEF NoReply
<1>3. inbox \in [Payments -> Seq([what : Posts, to : Workers])]
  BY NoMessages DEF Init, Message
<1>4. TypeOK
  BY <1>1, <1>2, <1>3, NoWindowIsOne DEF Init, TypeOK
<1>5. Registers
  BY DEF Init, Registers
<1>6. \A w \in Payments : /\ window[w] = NoWindow /\ inbox[w] = <<>> /\ reply[w] = NoReply
                          /\ host[w] = 1 /\ promise[w] = "none" /\ opening = {}
                          /\ DOMAIN inbox[w] = {}
  BY NoMessages DEF Init
<1>7. NoWindow.worker = 0 /\ ~NoWindow.fetching /\ ~NoWindow.enabled
      /\ NoWindow.data = NoPayment
  BY DEF NoWindow
<1>8. \A w \in Payments : Desk(w)
  BY <1>6, <1>7 DEF Desk, Unopened, Opens, Unheard, Heard, Replies, Backed
<1>9. \A w \in Payments : Onward(w)
  BY <1>6, <1>7 DEF Init, Onward
<1>10. \A w \in Payments : Granted(w)
  BY <1>6 DEF Granted
<1>11. \A w \in Payments : Alone(w)
  BY <1>6, <1>7 DEF Init, Alone
<1> QED BY <1>4, <1>5, <1>8, <1>9, <1>10, <1>11 DEF HandlerInv

\* Every step keeps the invariant.
LEMMA NextHandler == HandlerInv /\ [Next]_vars => HandlerInv'
<1> SUFFICES ASSUME HandlerInv, [Next]_vars
             PROVE  HandlerInv'
  OBVIOUS
<1>1. ASSUME NEW p \in Payments, PaymentRequest(p) PROVE HandlerInv'
  BY <1>1, PaymentRequestKeeps
<1>2. ASSUME NEW p \in Payments, OpenWindow(p) PROVE HandlerInv'
  BY <1>2, OpenWindowKeeps
<1>3. ASSUME NEW p \in Payments, OpenWindowFails(p) PROVE HandlerInv'
  BY <1>3, OpenWindowFailsKeeps
<1>4. ASSUME NEW p \in Payments, Receive(p) PROVE HandlerInv'
  BY <1>4, ReceiveKeeps
<1>5. ASSUME NEW p \in Payments, ShowPayment(p) PROVE HandlerInv'
  BY <1>5, ShowPaymentKeeps
<1>6. ASSUME NEW p \in Payments, LoadBalance(p) PROVE HandlerInv'
  BY <1>6, LoadBalanceKeeps
<1>7. ASSUME NEW p \in Payments, Approve(p) PROVE HandlerInv'
  BY <1>7, ApproveKeeps
<1>8. ASSUME NEW p \in Payments, Cancel(p) PROVE HandlerInv'
  BY <1>8, CancelKeeps
<1>9. ASSUME NEW p \in Payments, CloseApproved(p) PROVE HandlerInv'
  BY <1>9, CloseApprovedKeeps
<1>10. ASSUME NEW p \in Payments, Abandon(p) PROVE HandlerInv'
  BY <1>10, AbandonKeeps
<1>11. CASE Activate
  BY <1>11, ActivateKeeps
<1>12. ASSUME NEW g \in Workers, Terminate(g) PROVE HandlerInv'
  BY <1>12, TerminateKeeps
<1>13. CASE UNCHANGED vars
  <2>1. UNCHANGED <<active, event, resolver, host, promise, opening, window, inbox, reply,
                    settledBy, troubles>>
    BY <1>13 DEF vars, current
  <2>2. TypeOK' /\ Registers'
    BY <2>1 DEF HandlerInv, TypeOK, Registers
  <2>3. \A w \in Payments : Quiet(w)
    BY <2>1 DEF Quiet
  <2>4. active <= active'
    BY <2>1, HandlerAssumption DEF HandlerInv, TypeOK, Workers
  <2>5. \A w \in Payments : Desk(w)' /\ Onward(w)'
    BY <2>2, <2>3, <2>4, QuietDesk, QuietOnward DEF HandlerInv
  <2>6. \A w \in Payments : UnderWay(w)' => UnderWay(w)
    BY <2>1 DEF UnderWay, Live
  <2> QED
    BY <2>1, <2>2, <2>5, <2>6, WorkerStep
<1> QED
  BY <1>1, <1>2, <1>3, <1>4, <1>5, <1>6, <1>7, <1>8, <1>9, <1>10, <1>11, <1>12, <1>13
     DEF Next, Quiescent

\* The invariant of the handler holds in every behaviour.
THEOREM HandlerAlways == Spec => []HandlerInv
BY InitHandler, NextHandler, PTL DEF Spec

\* Every message is addressed to a worker there is, although the null client of a
\* window that was not answered is a number too.
THEOREM HandlerTypeCorrect == Spec => []TypeOK
<1>1. HandlerInv => TypeOK
  BY DEF HandlerInv
<1> QED BY <1>1, HandlerAlways, PTL

\* While payments do not overlap, a promise is settled by its own window, and the
\* user approved there what the merchant asked for.
THEOREM OwnWindowsSettle == Spec => []OwnWindowSettles
<1>1. HandlerInv => OwnWindowSettles
  <2> SUFFICES ASSUME HandlerInv, "overlap" \notin troubles, NEW p \in Payments
               PROVE  /\ promise[p] \in {"approved", "rejected"} => settledBy[p] = p
                      /\ promise[p] = "approved" => window[p].data = p
    BY DEF OwnWindowSettles
  <2>1. Alone(p) /\ Granted(p) /\ Desk(p)
    BY DEF HandlerInv
  <2>2. promise[p] = "approved" => settledBy[p] = p /\ Sure(p)
    BY <2>1 DEF Alone, Granted
  <2>3. Sure(p) => window[p].data # NoPayment
    BY <2>1 DEF Sure, Desk, Heard
  <2> QED BY <2>1, <2>2, <2>3 DEF Alone
<1> QED BY <1>1, HandlerAlways, PTL

\* Whatever overlaps, an approval comes from a window whose balance covered the
\* payment it showed.
THEOREM ApprovalsCovered == Spec => []ApprovalIsCovered
<1>1. HandlerInv => ApprovalIsCovered
  <2> SUFFICES ASSUME HandlerInv, NEW p \in Payments, promise[p] = "approved"
               PROVE  /\ window[settledBy[p]].data # NoPayment
                      /\ window[settledBy[p]].covered = window[settledBy[p]].data
    BY DEF ApprovalIsCovered
  <2>1. settledBy[p] # NoPayment /\ Sure(settledBy[p])
    BY DEF HandlerInv, Granted
  <2>2. settledBy[p] \in Payments
    BY <2>1 DEF HandlerInv, TypeOK, Maybe
  <2>3. Heard(settledBy[p])
    BY <2>2 DEF HandlerInv, Desk
  <2> QED BY <2>1, <2>3 DEF Sure, Heard
<1> QED BY <1>1, HandlerAlways, PTL

\* A step settles only a payment that some worker holds.
LEMMA SettledIsHeld ==
  ASSUME HandlerInv, NEW p \in Payments, Replaced(p), [Next]_vars
  PROVE  promise'[p] \in {"pending", "dropped"}
<1>1. TypeOK /\ promise[p] = "pending" /\ \A g \in Workers : resolver[g] # p
  BY DEF HandlerInv, Registers, Replaced
<1>2. CASE promise' = promise
  BY <1>1, <1>2
<1>3. ASSUME NEW w \in Payments, PaymentRequest(w) PROVE promise'[p] = "pending"
  BY <1>1, <1>3 DEF PaymentRequest, TypeOK
<1>4. ASSUME NEW q \in Maybe, NEW how \in {"approved", "rejected"}, NEW w \in Payments,
             q # p, Settle(q, how, w)
      PROVE  promise'[p] = "pending"
  BY <1>1, <1>4, SettledPromise
<1>5. ASSUME NEW w \in Payments, OpenWindowFails(w) PROVE promise'[p] = "pending"
  <2>1. resolver[host[w]] \in Maybe /\ resolver[host[w]] # p
    BY <1>1 DEF TypeOK
  <2>2. Settle(resolver[host[w]], "rejected", w)
    BY <1>5 DEF OpenWindowFails
  <2> QED BY <1>4, <2>1, <2>2
<1>6. ASSUME NEW w \in Payments, Receive(w) PROVE promise'[p] = "pending"
  <2>1. inbox[w] # <<>>
    BY <1>6 DEF Receive
  <2>2. Head(inbox[w]).to \in Workers
    BY <2>1, FirstMessage DEF Message
  <2>3. resolver[Head(inbox[w]).to] \in Maybe /\ resolver[Head(inbox[w]).to] # p
    BY <1>1, <2>2 DEF TypeOK
  <2>4. PICK how \in {"approved", "rejected"} :
          how = IF Head(inbox[w]).what = "approved" THEN "approved" ELSE "rejected"
    OBVIOUS
  <2>5. promise' = promise \/ Settle(resolver[Head(inbox[w]).to], how, w)
    BY <1>6, <2>4, ReceiveCases
  <2> QED BY <1>1, <1>4, <2>3, <2>5
<1>7. ASSUME NEW g \in Workers, Terminate(g) PROVE promise'[p] \in {"pending", "dropped"}
  BY <1>1, <1>7 DEF Terminate
<1> QED
  BY <1>2, <1>3, <1>5, <1>6, <1>7
     DEF Next, vars, OpenWindow, ShowPayment, LoadBalance, Approve, Cancel, CloseApproved,
         Abandon, Activate, Quiescent

\* A payment whose event another one replaced is never settled by any message or
\* failure.
THEOREM ReplacedPaymentsNeverSettle == Spec => ReplacedNeverSettles
<1>1. HandlerInv /\ [Next]_vars =>
        [\A p \in Payments : Replaced(p) => promise'[p] \in {"pending", "dropped"}]_vars
  BY SettledIsHeld
<1> QED BY <1>1, HandlerAlways, PTL DEF Spec, ReplacedNeverSettles

=============================================================================
