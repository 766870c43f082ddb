------------------------------ MODULE Dashboard ------------------------------
(* A customer's browser, the gateway it talks to, and order-saga behind it.    *)
(* The frontend has three pages, one mounted at a time: home shows the health  *)
(* of the services, order places an order, orders lists what order-saga knows. *)
(* State lives in the mounted page only. Of order-saga this module needs what  *)
(* OrderOutcome promises; OrderSaga implements that. The seed script places    *)
(* orders beside the customer.                                                 *)
EXTENDS OrderOutcome, SequencesExt

CONSTANTS
    Gateway, OtherServices, \* the processes besides the instances of order-saga
    NoOrder,                \* the page shows no order id
    Consumed,               \* bound: the orders order-saga gets to within a run
    MaxOutcomes,            \* bound: outcomes the answers may justify, 2 if they conflict
    MaxFetches, MaxChecks,  \* bounds: outstanding requests of the two polling pages
    Seeds,                  \* orders the seed script is asked for
    MaxFaults               \* bound: how many faults may strike

FaultKinds == {"gateway", "service", "send", "redelivery"}

ASSUME DashboardAssumption ==
    /\ NoOrder \notin Orders
    /\ Consumed \subseteq Orders
    /\ Gateway \notin Instances \cup OtherServices
    /\ Instances \cap OtherServices = {}
    /\ MaxFetches \in Nat \ {0} /\ MaxChecks \in Nat \ {0} /\ Seeds \in Nat
    /\ MaxFaults \in Nat
    /\ {"nobody", "none yet"} \cap Instances = {}   \* Nobody, and in NoReply

VARIABLES
    up,             \* the running processes
    faults,         \* faults[kind]: how many faults of a kind have struck
    seeds,          \* orders the seed script has still to send
    page,           \* the mounted page
    form,           \* order page: submitting, id shown, error shown
    requests,       \* POST /orders on their way, answered or not
    tries,          \* order ids drawn for the purchase the customer is making
    list,           \* orders page: statuses shown, the instance they came from
    fetches,        \* GET /orders on their way, oldest first
    health,         \* home page: the status shown for every process
    checks          \* health checks on their way

formVars == <<form, requests, tries>>
listVars == <<list, fetches>>
homeVars == <<health, checks>>
pageVars == <<page, formVars, listVars, homeVars>>
vars == <<outcomeVars, up, faults, seeds, pageVars>>

(* The services as the home page lists them: order-saga is one of them.        *)
Services == {Gateway, "order-saga"} \cup OtherServices

Nobody == "nobody"

NewForm == [loading |-> FALSE, orderId |-> NoOrder, error |-> FALSE]
NewList == [orders |-> NoEntries, from |-> Nobody, error |-> FALSE]
NewHealth == [s \in Services |-> "unknown"]

Reply(orders, from) == [orders |-> orders, from |-> from]

NoReply == Reply(NoEntries, "none yet")
Failure == Reply(NoEntries, Nobody)

Unanswered == [reply |-> NoReply, overlapped |-> FALSE]

FirstCheck == [stage |-> "gateway", details |-> {}]

Fault(kind) ==
    /\ FoldFunction(+, 0, faults) < MaxFaults
    /\ faults' = [faults EXCEPT ![kind] = @ + 1]

Fresh(o) == o \notin placed \cup tries \cup {r.order : r \in requests}

Init ==
    /\ OutcomeInit
    /\ up = {Gateway} \cup Instances \cup OtherServices
    /\ faults = [kind \in FaultKinds |-> 0]
    /\ seeds = Seeds
    /\ page = "home"
    /\ form = NewForm /\ requests = {} /\ tries = {}
    /\ list = NewList /\ fetches = <<>>
    /\ health = NewHealth /\ checks = <<FirstCheck>>

-----------------------------------------------------------------------------
(* order-saga, and the services that answer the orders. Nothing here reads the *)
(* outcome topics.                                                             *)

Redelivered(i, o) == entries[i][o] # "NONE"

BackendStep ==
    /\ UNCHANGED <<up, seeds, pageVars>>
    /\ \E o \in Consumed :
          \/ \E outcome \in Outcomes :
                /\ Cardinality(settled[o]) < MaxOutcomes
                /\ Settle(o, outcome)
                /\ UNCHANGED faults
          \/ \E i \in Instances \cap up :
                \/ /\ Track(i, o)
                   /\ IF Redelivered(i, o) THEN Fault("redelivery") ELSE UNCHANGED faults
                \/ /\ \E outcome \in Outcomes : Decide(i, o, outcome)
                   /\ UNCHANGED faults

-----------------------------------------------------------------------------
(* The seed script: it sends one order after the other and exits at the first  *)
(* rejected send.                                                              *)

SeedOrder(o) ==
    /\ seeds > 0 /\ Fresh(o)
    /\ Place(o)
    /\ seeds' = seeds - 1
    /\ UNCHANGED <<up, faults, pageVars>>

SeedFails(o) ==
    /\ seeds > 0 /\ Fresh(o)
    /\ Fault("send")
    /\ Place(o) \/ UNCHANGED outcomeVars
    /\ seeds' = 0
    /\ UNCHANGED <<up, pageVars>>

-----------------------------------------------------------------------------
(* The order page *)

(* A variant with a bug: the button is not disabled while a request is out.    *)
SubmitAnyTime(o) ==
    /\ page = "order" /\ form.orderId = NoOrder
    /\ Fresh(o)
    /\ form' = [form EXCEPT !.loading = TRUE, !.error = FALSE]
    /\ requests' = requests \cup {[order |-> o, reply |-> "none", mounted |-> TRUE]}
    /\ tries' = tries \cup {o}
    /\ UNCHANGED <<outcomeVars, up, faults, seeds, page, listVars, homeVars>>

(* handleSubmit: the gateway will draw order id o for this request *)
Submit(o) ==
    /\ page = "order" /\ form.orderId = NoOrder /\ ~form.loading
    /\ Fresh(o)
    /\ form' = [form EXCEPT !.loading = TRUE, !.error = FALSE]
    /\ requests' = requests \cup {[order |-> o, reply |-> "none", mounted |-> TRUE]}
    /\ tries' = tries \cup {o}
    /\ UNCHANGED <<outcomeVars, up, faults, seeds, page, listVars, homeVars>>

(* handleSubmit with an empty product name *)
SubmitInvalid ==
    /\ page = "order" /\ form.orderId = NoOrder /\ ~form.loading
    /\ form' = [form EXCEPT !.error = TRUE]
    /\ UNCHANGED <<outcomeVars, up, faults, seeds, page, requests, tries, listVars, homeVars>>

(* nobody reads the reply to a page that is gone *)
Replied(r, reply) ==
    (requests \ {r}) \cup (IF r.mounted THEN {[r EXCEPT !.reply = reply]} ELSE {})

(* OrdersService.createOrder: the reply follows the acknowledged send *)
CreateOrder(r) ==
    /\ Gateway \in up /\ r.reply = "none"
    /\ Place(r.order)
    /\ requests' = Replied(r, "created")
    /\ UNCHANGED <<up, faults, seeds, page, form, tries, listVars, homeVars>>

(* A variant with a bug: the rejected send is swallowed.                       *)
RejectionSwallowed(r) ==
    /\ Gateway \in up /\ r.reply = "none"
    /\ Fault("send")
    /\ Place(r.order) \/ UNCHANGED outcomeVars
    /\ requests' = Replied(r, "created")
    /\ UNCHANGED <<up, seeds, page, form, tries, listVars, homeVars>>

(* ... the send is rejected, whether or not the broker has the order: HTTP 500 *)
CreateOrderFails(r) ==
    /\ Gateway \in up /\ r.reply = "none"
    /\ Fault("send")
    /\ Place(r.order) \/ UNCHANGED outcomeVars
    /\ requests' = Replied(r, "error")
    /\ UNCHANGED <<up, seeds, page, form, tries, listVars, homeVars>>

(* ... and nobody answers: fetch throws *)
GatewayUnreachable(r) ==
    /\ Gateway \notin up /\ r.reply = "none"
    /\ requests' = Replied(r, "error")
    /\ UNCHANGED <<outcomeVars, up, faults, seeds, page, form, tries, listVars, homeVars>>

ReceiveReply(r) ==
    /\ r.reply # "none"
    /\ requests' = requests \ {r}
    /\ form' = IF r.reply = "created" THEN [form EXCEPT !.orderId = r.order, !.loading = FALSE]
                                      ELSE [form EXCEPT !.error = TRUE, !.loading = FALSE]
    /\ UNCHANGED <<outcomeVars, up, faults, seeds, page, tries, listVars, homeVars>>

(* "Create Another Order" *)
CreateAnother ==
    /\ page = "order" /\ form.orderId # NoOrder
    /\ form' = [form EXCEPT !.orderId = NoOrder]
    /\ tries' = {}
    /\ UNCHANGED <<outcomeVars, up, faults, seeds, page, requests, listVars, homeVars>>

-----------------------------------------------------------------------------
(* The orders page *)

(* A variant with a bug: the first error stops the timer.                      *)
PollUntilError ==
    /\ page = "orders" /\ ~list.error
    /\ Len(fetches) < MaxFetches
    /\ fetches' = Append([n \in DOMAIN fetches |-> [fetches[n] EXCEPT !.overlapped = TRUE]],
                         [Unanswered EXCEPT !.overlapped = fetches # <<>>])
    /\ UNCHANGED <<outcomeVars, up, faults, seeds, page, formVars, list, homeVars>>

(* fetchOrders, every ten seconds and on Refresh, whether or not an earlier    *)
(* request is still out                                                        *)
FetchOrders ==
    /\ page = "orders"
    /\ Len(fetches) < MaxFetches
    /\ fetches' = Append([n \in DOMAIN fetches |-> [fetches[n] EXCEPT !.overlapped = TRUE]],
                         [Unanswered EXCEPT !.overlapped = fetches # <<>>])
    /\ UNCHANGED <<outcomeVars, up, faults, seeds, page, formVars, list, homeVars>>

(* getOrders: the instance of order-saga the request reaches answers with its  *)
(* Map; the gateway turns every failure into a 503. An empty answer is shown   *)
(* as no orders.                                                               *)
GetOrders(n) ==
    /\ fetches[n].reply = NoReply
    /\ \E i \in Instances :
          fetches' = [fetches EXCEPT ![n].reply =
              IF {Gateway, i} \subseteq up THEN Reply(entries[i], i) ELSE Failure]
    /\ UNCHANGED <<outcomeVars, up, faults, seeds, page, formVars, list, homeVars>>

(* A variant with a bug: a failed request empties the list.                    *)
ErrorClears(n) ==
    LET reply == fetches[n].reply
    IN  /\ reply # NoReply
        /\ fetches' = RemoveAt(fetches, n)
        /\ list' = IF reply = Failure
                   THEN [NewList EXCEPT !.error = TRUE]
                   ELSE [list EXCEPT !.orders = reply.orders, !.from = reply.from]
        /\ UNCHANGED <<outcomeVars, up, faults, seeds, page, formVars, homeVars>>

(* Responses arrive in any order. An error banner is never taken down again.   *)
ReceiveOrders(n) ==
    LET reply == fetches[n].reply
    IN  /\ reply # NoReply
        /\ fetches' = RemoveAt(fetches, n)
        /\ list' = IF reply = Failure
                   THEN [list EXCEPT !.error = TRUE]
                   ELSE [list EXCEPT !.orders = reply.orders, !.from = reply.from]
        /\ UNCHANGED <<outcomeVars, up, faults, seeds, page, formVars, homeVars>>

-----------------------------------------------------------------------------
(* The home page *)

(* checkServicesHealth, every thirty seconds: first the gateway's own health *)
CheckHealth ==
    /\ page = "home"
    /\ Len(checks) < MaxChecks
    /\ checks' = Append(checks, FirstCheck)
    /\ UNCHANGED <<outcomeVars, up, faults, seeds, page, formVars, listVars, health>>

CheckGateway(n) ==
    /\ checks[n].stage = "gateway"
    /\ checks' = [checks EXCEPT ![n].stage =
                     IF Gateway \in up THEN "services" ELSE "unreachable"]
    /\ UNCHANGED <<outcomeVars, up, faults, seeds, page, formVars, listVars, health>>

(* the services that answer a ping; one instance stands for order-saga *)
Pinged(i) == (OtherServices \cap up) \cup (IF i \in up THEN {"order-saga"} ELSE {})

(* A variant with a bug: the details of a failed check are shown.              *)
DetailsAlways(n) ==
    /\ checks[n].stage = "services"
    /\ \E i \in Instances :
          checks' = [checks EXCEPT ![n] =
              IF Gateway \notin up THEN [@ EXCEPT !.stage = "unreachable"]
              ELSE [stage |-> "ok", details |-> Pinged(i)]]
    /\ UNCHANGED <<outcomeVars, up, faults, seeds, page, formVars, listVars, health>>

(* checkAllServices: one failing ping makes the whole check a 503 *)
CheckAllServices(n) ==
    /\ checks[n].stage = "services"
    /\ \E i \in Instances :
          checks' = [checks EXCEPT ![n] =
              IF Gateway \notin up THEN [@ EXCEPT !.stage = "unreachable"]
              ELSE IF Pinged(i) # Services \ {Gateway} THEN [@ EXCEPT !.stage = "unavailable"]
              ELSE [stage |-> "ok", details |-> Pinged(i)]]
    /\ UNCHANGED <<outcomeVars, up, faults, seeds, page, formVars, listVars, health>>

(* the page ignores a 503 and takes a failed fetch for a failure of everything *)
ReceiveHealth(n) ==
    /\ checks[n].stage \in {"ok", "unavailable", "unreachable"}
    /\ checks' = RemoveAt(checks, n)
    /\ health' =
          CASE checks[n].stage = "ok" ->
                  [s \in Services |->
                      IF s \in checks[n].details \cup {Gateway} THEN "up" ELSE "down"]
            [] checks[n].stage = "unavailable" -> health
            [] checks[n].stage = "unreachable" -> [s \in Services |-> "down"]
    /\ UNCHANGED <<outcomeVars, up, faults, seeds, page, formVars, listVars>>

-----------------------------------------------------------------------------
(* A page is mounted with fresh state and starts to fetch at once. An order    *)
(* the old page posted is placed all the same.                                 *)
Open(p) ==
    /\ p # page
    /\ page' = p
    /\ form' = NewForm /\ tries' = {}
    /\ requests' = {[r EXCEPT !.mounted = FALSE] : r \in {q \in requests : q.reply = "none"}}
    /\ list' = NewList
    /\ fetches' = IF p = "orders" THEN <<Unanswered>> ELSE <<>>
    /\ health' = NewHealth
    /\ checks' = IF p = "home" THEN <<FirstCheck>> ELSE <<>>
    /\ UNCHANGED <<outcomeVars, up, faults, seeds>>

(* A service dies; an instance of order-saga with its Map. *)
ServiceDies(s) ==
    /\ s \in up \cap (Instances \cup OtherServices)
    /\ Fault("service")
    /\ up' = up \ {s}
    /\ Forget({s})
    /\ UNCHANGED <<seeds, pageVars>>

(* The gateway dies, and replies to orders it has placed may be lost. *)
GatewayDies ==
    /\ Gateway \in up
    /\ Fault("gateway")
    /\ up' = up \ {Gateway}
    /\ \E lost \in SUBSET {r \in requests : r.reply = "created"} :
          requests' = (requests \ lost) \cup {[r EXCEPT !.reply = "error"] : r \in lost}
    /\ UNCHANGED <<outcomeVars, seeds, page, form, tries, listVars, homeVars>>

Processes == {Gateway} \cup Instances \cup OtherServices

Restart ==
    /\ up # Processes
    /\ up' = Processes
    /\ UNCHANGED <<outcomeVars, faults, seeds, pageVars>>

Script == \E o \in Orders : SeedOrder(o) \/ SeedFails(o)

Customer ==
    \/ \E o \in Orders : Submit(o)
    \/ SubmitInvalid
    \/ CreateAnother
    \/ \E p \in {"home", "order", "orders"} : Open(p)

OrderPage ==
    \E r \in requests :
        \/ CreateOrder(r) \/ CreateOrderFails(r) \/ GatewayUnreachable(r)
        \/ ReceiveReply(r)

OrdersPage == \E n \in DOMAIN fetches : GetOrders(n) \/ ReceiveOrders(n)

HomePage ==
    \E n \in DOMAIN checks : CheckGateway(n) \/ CheckAllServices(n) \/ ReceiveHealth(n)

Next ==
    \/ BackendStep \/ Script
    \/ Customer \/ OrderPage
    \/ FetchOrders \/ OrdersPage
    \/ CheckHealth \/ HomePage
    \/ GatewayDies \/ Restart
    \/ \E s \in Instances \cup OtherServices : ServiceDies(s)

Spec == Init /\ [][Next]_vars

(* the timer of the orders page fires, requests are answered, and what died is *)
(* started again                                                               *)
FairSpec ==
    Spec /\ WF_vars(FetchOrders) /\ WF_vars(OrdersPage) /\ WF_vars(Restart)

-----------------------------------------------------------------------------
(* Properties *)

Requests == [order : Orders, reply : {"none", "created", "error"}, mounted : BOOLEAN]

Answers == [orders : [Orders -> Statuses], from : Instances]

Stages == {"gateway", "services", "ok", "unavailable", "unreachable"}

TypeOK ==
    /\ OutcomeTypeOK
    /\ up \subseteq Processes /\ seeds \in 0..Seeds
    /\ faults \in [FaultKinds -> Nat]
    /\ page \in {"home", "order", "orders"}
    /\ form \in [loading : BOOLEAN, orderId : Orders \cup {NoOrder}, error : BOOLEAN]
    /\ requests \subseteq Requests
    /\ tries \subseteq Orders /\ IsFiniteSet(tries)
    /\ list \in [orders : [Orders -> Statuses], from : Instances \cup {Nobody}, error : BOOLEAN]
    /\ fetches \in Seq([reply : Answers \cup {NoReply, Failure}, overlapped : BOOLEAN])
    /\ Len(fetches) <= MaxFetches
    /\ health \in [Services -> {"unknown", "up", "down"}]
    /\ checks \in Seq([stage : Stages, details : SUBSET Services])
    /\ Len(checks) <= MaxChecks

(* The order page congratulates the customer on an order only when the order   *)
(* is on orders.v1 (handleSubmit and createOrder across every lost reply).     *)
CreatedWasPlaced ==
    /\ form.orderId # NoOrder => form.orderId \in placed
    /\ \A r \in requests : r.reply = "created" => r.order \in placed

(* The button is disabled exactly while the one request of the mounted page is *)
(* out (setLoading in handleSubmit). No two requests are for the same order,   *)
(* and one that is still on its way has placed none.                           *)
OneRequestAtATime ==
    /\ form.loading <=> \E r \in requests : r.mounted
    /\ form.loading => form.orderId = NoOrder
    /\ \A r \in requests :
          /\ r.reply = "none" => r.order \notin placed
          /\ r.mounted \/ (r.reply = "none" /\ r.order \notin tries)
    /\ \A r, q \in requests : r.order = q.order \/ (r.mounted /\ q.mounted) => r = q

(* Orders of this purchase that are placed although the customer was told, or  *)
(* is about to be told, that they are not.                                     *)
PlacedUnseen ==
    {o \in tries \cap placed :
        /\ o # form.orderId
        /\ \A r \in requests : r.order = o => r.reply = "error"}

UnseenTookFault == Cardinality(PlacedUnseen) <= faults["send"] + faults["gateway"]

Justified(orders) ==
    \A o \in Orders :
        /\ orders[o] # "NONE" => o \in placed
        /\ orders[o] \in Outcomes => orders[o] \in settled[o]

StatusesJustified ==
    /\ \A i \in Instances : Justified(entries[i])
    /\ \A n \in DOMAIN fetches : Justified(fetches[n].reply.orders)
    /\ Justified(list.orders)

(* Every order decided in the one Map is decided in the other. *)
DecidedIn(orders, later) == \A o \in Orders : orders[o] \in Outcomes => later[o] \in Outcomes

(* A request that no other overlapped is the only one, and was answered after  *)
(* what the page shows. While no service dies and nothing is delivered again,  *)
(* an instance keeps every decision it has ever served.                        *)
DecisionsKept ==
    /\ \A n \in DOMAIN fetches : fetches[n].overlapped \/ Len(fetches) = 1
    /\ faults["service"] = 0 /\ faults["redelivery"] = 0 =>
          /\ list.from \in Instances => DecidedIn(list.orders, entries[list.from])
          /\ \A n \in DOMAIN fetches :
                LET reply == fetches[n].reply
                IN  reply \in Answers =>
                       /\ DecidedIn(reply.orders, entries[reply.from])
                       /\ (~fetches[n].overlapped /\ list.from = reply.from)
                             => DecidedIn(list.orders, reply.orders)

(* What the checks on their way will tell the home page.                       *)
ChecksTruthful ==
    /\ Gateway \notin up => faults["gateway"] > 0
    /\ \A n \in DOMAIN checks :
          /\ checks[n].stage = "unreachable" => faults["gateway"] > 0
          /\ checks[n].stage = "ok" => Services \subseteq checks[n].details \cup {Gateway}

(* The types, and of the three pages: the order page's requests against the    *)
(* orders that are placed (handleSubmit, createOrder), the statuses on their   *)
(* way to the orders page against those order-saga has (getOrders), and the    *)
(* checks on their way to the home page against the gateway (checkAllServices). *)
PageInvariant ==
    /\ TypeOK
    /\ CreatedWasPlaced /\ OneRequestAtATime /\ UnseenTookFault
    /\ StatusesJustified /\ DecisionsKept
    /\ ChecksTruthful

(* A customer who stays on the page buys once: a purchase places a second      *)
(* order only after the customer was shown an error for one that was placed    *)
(* all the same, which takes a rejected send or a gateway that died. Nothing   *)
(* identifies the two as one purchase (createOrder draws an id per request).   *)
OneOrderPerPurchase ==
    Cardinality(tries \cap placed) <= 1 + faults["send"] + faults["gateway"]

(* A decision shown stays on the mounted page, until another instance of       *)
(* order-saga answers, the answering one restarted or got the order again, the *)
(* answers contradict each other, or responses overtook each other: fetchOrders *)
(* neither waits for the request before it nor compares their age.             *)
ShownDecisionStable ==
    [][\A o \in Orders :
          (/\ page' = page
           /\ list.orders[o] \in Outcomes
           /\ list.orders'[o] # list.orders[o])
              => \/ list.from' \in Instances \ {list.from}
                 \/ faults["service"] + faults["redelivery"] > 0
                 \/ settled[o] = Outcomes
                 \/ \E n \in DOMAIN fetches : fetches[n].overlapped]_vars

(* The orders page catches up with order-saga again and again while it is open, *)
(* through requests that overtake each other, a gateway that dies and comes     *)
(* back and orders that are still being decided (the timer of fetchOrders).     *)
PageCatchesUp ==
    []<>(page # "orders" \/ \E i \in Instances : list.orders = entries[i])

(* The home page never shows a single service as down: only when the gateway   *)
(* was unreachable is anything down, and then all of it - whatever services    *)
(* died behind a gateway that stayed up (checkServicesHealth ignores the 503). *)
ServiceOutageNotShown ==
    (\E s \in Services : health[s] = "down")
        => faults["gateway"] > 0 /\ \A s \in Services : health[s] = "down"
=============================================================================
