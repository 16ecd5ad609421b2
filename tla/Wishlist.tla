------------------------------ MODULE Wishlist ------------------------------
(***************************************************************************)
(* The requests that keep wishlists: accounts, tracked products, alerts,   *)
(* API tokens and the clicks of mailed links, for the web pages, the JSON  *)
(* API and the tools of the MCP endpoint at once.                          *)
(*                                                                         *)
(* A handler authenticates, reads, commits and asks the workers to refresh *)
(* what it added; other requests run between these steps.  A session is a  *)
(* signed JWT without any state on the server.  An API token is a row, and *)
(* its owner travels to the tool in a context variable of the request.     *)
(* The broker may be down when a refresh is asked for; Beat sweeps all     *)
(* active products later.                                                  *)
(***************************************************************************)
EXTENDS Naturals, FiniteSets

CONSTANTS
  Client,       \* requests that are handled at once
  Email,        \* each names an account
  Item,         \* ids of tracked products, 1..n, never used twice
  Key,          \* what is tracked: a query or a product page's URL
  Demo,         \* the keys of DEMO_ITEMS
  Token,        \* API tokens, never used twice
  Edits,        \* what a PATCH or the target form sets: records of attributes
  None,
  Standing,     \* the rows of tracked_products and ...
  TokenOf,      \* ... the owners of API tokens to begin with
  Requests,     \* bound: requests that begin
  Faults        \* subset of {"broker", "abandon"}

WebOps == {"create", "track", "seed", "toggle", "edit", "delete", "refresh",
           "refresh_all", "alert", "unalert", "mint", "revoke"}
McpOps == {"create", "alert"}
OnItem == {"toggle", "edit", "delete", "refresh", "alert", "unalert"}

Row == [owner : Email \cup {None}, key : Key \cup {None}, linked : BOOLEAN,
        active : BOOLEAN, target : BOOLEAN]

ASSUME ClientAssumption == IsFiniteSet(Client) /\ Client # {}
ASSUME ItemsNumbered  == IsFiniteSet(Item) /\ Item = 1..Cardinality(Item)
\* To begin with, ids are given out in order, an alert's product has an owner,
\* and nothing is tracked twice.
ASSUME StandingAssumption ==
  /\ Standing \in [Item -> Row] /\ TokenOf \in [Token -> Email \cup {None}]
  /\ None \notin Email \cup Token \cup WebOps \cup {"register", "go"}
  /\ \A i, j \in Item : j < i /\ Standing[i].owner # None => Standing[j].owner # None
  /\ \A i \in Item : Standing[i].target => Standing[i].owner # None
  /\ \A i, j \in Item :
       /\ Standing[i].linked /\ Standing[j].linked
       /\ Standing[i].owner = Standing[j].owner /\ Standing[i].key = Standing[j].key
       => i = j
ASSUME DemoAssumption == Demo \subseteq Key /\ IsFiniteSet(Demo) /\ Requests \in Nat
ASSUME EditsAssumption ==
  \A e \in Edits :
    DOMAIN e \subseteq {"active", "target"} /\ \A a \in DOMAIN e : e[a] \in BOOLEAN

VARIABLES
  accounts,     \* rows of users, by email
  tokens,       \* api_tokens: the owner of each token that is not revoked
  issued,       \* whom each token was shown to, revoked or not
  items,        \* tracked_products; a row without an owner does not exist
  born,         \* how many ids are used up
  alerts,       \* alerts: the product, and whether the rule has its own threshold
  clicks,       \* products with a logged click_events row
  pc, req,      \* control and locals of each request
  context,      \* _current_user_id in the context of each request
  brokerUp,
  behind,       \* active products not refreshed since they were added or resumed
  queue,        \* those of them with a refresh_product message
  requests, outages

rows     == <<accounts, tokens, issued, items, born, alerts, clicks>>
handling == <<pc, req, context>>
workers  == <<brokerUp, behind, queue>>
bounds   == <<requests, outages>>
vars     == <<rows, handling, workers, bounds>>

NoRow == [owner |-> None, key |-> None, linked |-> FALSE, active |-> FALSE,
          target |-> FALSE]
Alert == [item : Item, own : BOOLEAN]
Idle  == [op |-> None, session |-> None, token |-> None, user |-> None,
          item |-> None, arg |-> None, row |-> NoRow, pending |-> {}]

Exists(i)    == items[i].owner # None
ItemsOf(e)   == {i \in Item : items[i].owner = e}
Registered   == {e \in Email : accounts[e] > 0}
Due          == {i \in Item : Exists(i) /\ items[i].active}

\* One account per email, and what a request knows at each point of it.
TypeOK ==
  /\ accounts \in [Email -> 0..1]
  /\ tokens \in [Token -> Email \cup {None}] /\ issued \in [Token -> Email \cup {None}]
  /\ items \in [Item -> Row] /\ born \in 0..Cardinality(Item)
  /\ alerts \subseteq Alert /\ clicks \subseteq Item
  /\ pc \in [Client -> {"idle", "resolving", "accepted", "running", "loaded", "added"}]
  /\ \A c \in Client :
       /\ (req[c].op = None) = (pc[c] = "idle")
       /\ pc[c] \in {"running", "loaded", "added"} =>
            (req[c].user = None) = (req[c].op \in {"register", "go"})
       /\ req[c].pending # {} => pc[c] = "added"
  /\ context \in [Client -> Email \cup {None}]
  /\ brokerUp \in BOOLEAN /\ behind \subseteq Due /\ queue \subseteq behind
  /\ requests \in 0..Requests /\ outages \in 0..1

Init ==
  /\ tokens = TokenOf /\ issued = TokenOf
  /\ items = Standing /\ born = Cardinality({i \in Item : Exists(i)})
  /\ accounts = [e \in Email |-> IF ItemsOf(e) = {} /\ \A t \in Token : tokens[t] # e
                                 THEN 0 ELSE 1]
  /\ alerts = {[item |-> i, own |-> FALSE] : i \in {j \in Item : items[j].target}}
  /\ clicks = {}
  /\ pc = [c \in Client |-> "idle"] /\ req = [c \in Client |-> Idle]
  /\ context = [c \in Client |-> None]
  /\ brokerUp = TRUE /\ behind = {} /\ queue = {}
  /\ requests = Requests /\ outages = 1

Go(c, to) == pc' = [pc EXCEPT ![c] = to]

\* The answer; the middleware resets its context variable.
Finish(c) ==
  /\ Go(c, "idle") /\ req' = [req EXCEPT ![c] = Idle]
  /\ context' = [context EXCEPT ![c] = None]

-----------------------------------------------------------------------------
(* Credentials.                                                            *)

Begin(c, request, at) ==
  /\ pc[c] = "idle" /\ requests > 0 /\ requests' = requests - 1
  /\ Go(c, at) /\ req' = [req EXCEPT ![c] = request]
  /\ UNCHANGED <<rows, context, workers, outages>>

\* What a request of each kind carries.
Arguments(op) ==
  CASE op \in {"create", "track"}   -> {{k} : k \in Key}
    [] op = "seed"                  -> {Demo}
    [] op = "edit"                  -> Edits
    [] op \in {"alert", "unalert"}  -> BOOLEAN
    [] op = "revoke"                -> Token
    [] OTHER                        -> {None}

Targets(op) == IF op \in OnItem THEN 1..born ELSE {None}

\* A page or the JSON API, with the session of an account: whoever has the
\* password has one, and accounts are never removed.
WebRequest(c) ==
  \E e \in Registered, op \in WebOps :
    \E i \in Targets(op), a \in Arguments(op) :
      Begin(c, [Idle EXCEPT !.op = op, !.session = e, !.user = e, !.item = i, !.arg = a],
            "running")

\* Registration, and /go/{offer_id} from a mail, need no session.
OpenRequest(c) ==
  \/ \E e \in Email : Begin(c, [Idle EXCEPT !.op = "register", !.arg = e], "running")
  \/ \E i \in 1..born : Begin(c, [Idle EXCEPT !.op = "go", !.item = i], "running")

\* resolve_token finds the row of the token's hash; the user is not known yet.
McpRequest(c) ==
  \E t \in Token, op \in McpOps :
    /\ tokens[t] # None
    /\ \E i \in Targets(op), a \in Arguments(op) :
         Begin(c, [Idle EXCEPT !.op = op, !.token = t, !.item = i, !.arg = a], "resolving")

\* Mutant: one variable of the module for the user of every request.
SharedContext(c, e) == [d \in Client |-> e]

\* _current_user_id.set
SetContext(c, e) == [context EXCEPT ![c] = e]

\* Stamping last_used_at updates the row; if it is gone the commit fails.
Accept(c) ==
  /\ pc[c] = "resolving"
  /\ LET owner == tokens[req[c].token]
     IN  IF owner = None THEN Finish(c)
         ELSE Go(c, "accepted") /\ context' = SetContext(c, owner) /\ UNCHANGED req
  /\ UNCHANGED <<rows, workers, bounds>>

\* _run reads the variable before it changes threads.
EnterTool(c) ==
  /\ pc[c] = "accepted" /\ Go(c, "running")
  /\ req' = [req EXCEPT ![c].user = context[c]]
  /\ UNCHANGED <<rows, context, workers, bounds>>

-----------------------------------------------------------------------------
(* What a handler reads before it writes.                                  *)

\* Mutant: nobody looks for what is tracked already.
KnownIgnored(op, user) == {}

\* The keys a handler does not add again: create_item adds what it is asked.
Known(op, user) == IF op = "create" THEN {} ELSE {items[i].key : i \in ItemsOf(user)}

\* A rule that could never fire is not created.
CanFire(own, row) == own \/ row.target

\* The reads find what the handler needs; otherwise it answers 404, 409 or 422.
Finds(r) ==
  /\ r.op = "register" => accounts[r.arg] = 0
  /\ r.op = "go"       => Exists(r.item)
  /\ r.op \in OnItem   => items[r.item].owner = r.user
  /\ r.op = "alert"    => CanFire(r.arg, items[r.item])
  /\ r.op = "unalert"  => [item |-> r.item, own |-> r.arg] \in alerts
  /\ r.op = "revoke"   => tokens[r.arg] = r.user

\* The products that a request is to refresh, and no more than that.
Wanted(r) ==
  IF r.op = "refresh" THEN {r.item} ELSE {i \in ItemsOf(r.user) : items[i].active}

Load(c) ==
  /\ pc[c] = "running"
  /\ LET r == req[c]
     IN  IF ~Finds(r) THEN Finish(c)
         ELSE /\ UNCHANGED context
              /\ \/ /\ r.op \in {"refresh", "refresh_all"}
                    /\ Go(c, "added") /\ req' = [req EXCEPT ![c].pending = Wanted(r)]
                 \/ /\ r.op \in {"create", "track", "seed"}
                    /\ Go(c, "loaded")
                    /\ req' = [req EXCEPT ![c].arg = @ \ Known(r.op, r.user)]
                 \/ /\ r.op \in OnItem \ {"refresh"}
                    /\ Go(c, "loaded") /\ req' = [req EXCEPT ![c].row = items[r.item]]
                 \/ /\ r.op \in {"mint", "revoke", "register", "go"}
                    /\ Go(c, "loaded") /\ UNCHANGED req
  /\ UNCHANGED <<rows, workers, bounds>>

-----------------------------------------------------------------------------
(* The commits.                                                            *)

Committing(c, ops) == pc[c] = "loaded" /\ req[c].op \in ops

\* create_item, svc_add_tracked_product, marketplace_track, track_by_url (with
\* the page's offer and its price) and seed_demo: rows for the keys that are
\* not known, which are queued next.
AddItems(c) ==
  /\ Committing(c, {"create", "track", "seed"})
  /\ LET r == req[c]
         new == (born + 1)..(born + Cardinality(r.arg))
     IN  /\ new \subseteq Item
         /\ \E keyOf \in [new -> r.arg], target \in BOOLEAN :
              /\ \A k \in r.arg : \E i \in new : keyOf[i] = k
              /\ items' = [i \in Item |->
                   IF i \in new
                   THEN [owner |-> r.user, key |-> keyOf[i], linked |-> r.op # "create",
                         active |-> TRUE, target |-> target]
                   ELSE items[i]]
         /\ born' = born + Cardinality(r.arg)
         /\ behind' = behind \cup new
         /\ req' = [req EXCEPT ![c].pending = new]
  /\ Go(c, "added")
  /\ UNCHANGED <<accounts, tokens, issued, alerts, clicks, context, brokerUp, queue, bounds>>

\* What a toggle or an edit sets.
Sets(r) == IF r.op = "toggle" THEN [active |-> ~r.row.active] ELSE r.arg

\* Session.flush: an UPDATE of the attributes that differ from what was loaded.
Flushed(row, loaded, new) ==
  [a \in DOMAIN row |-> IF a \in DOMAIN new /\ new[a] # loaded[a] THEN new[a] ELSE row[a]]

\* toggle_item, update_item, update_target_price.  If the row is gone the
\* request fails.  Only the toggle queues a product it resumes.
EditItem(c) ==
  /\ Committing(c, {"toggle", "edit"})
  /\ LET r == req[c]
         i == r.item
         row == Flushed(items[i], r.row, Sets(r))
     IN  IF ~Exists(i)
         THEN Finish(c) /\ UNCHANGED <<items, behind, queue>>
         ELSE /\ items' = [items EXCEPT ![i] = row]
              /\ behind' = IF ~row.active THEN behind \ {i}
                           ELSE IF items[i].active THEN behind ELSE behind \cup {i}
              /\ queue' = queue \cap behind'
              /\ IF r.op = "toggle" /\ Sets(r).active
                 THEN /\ Go(c, "added") /\ UNCHANGED context
                      /\ req' = [req EXCEPT ![c].pending = {i}]
                 ELSE Finish(c)
  /\ UNCHANGED <<accounts, tokens, issued, born, alerts, clicks, brokerUp, bounds>>

\* Offers, prices, clicks and alerts go with the product, whether the session
\* had loaded them or not.
DeleteItem(c) ==
  /\ Committing(c, {"delete"})
  /\ LET i == req[c].item
     IN  /\ items' = [items EXCEPT ![i] = NoRow]
         /\ alerts' = {a \in alerts : a.item # i}
         /\ clicks' = clicks \ {i}
         /\ behind' = behind \ {i} /\ queue' = queue \ {i}
  /\ Finish(c)
  /\ UNCHANGED <<accounts, tokens, issued, born, brokerUp, bounds>>

\* Mutant: no foreign key from alerts to tracked_products.
AddAlertUnchecked(c) ==
  /\ Committing(c, {"alert"})
  /\ alerts' = alerts \cup {[item |-> req[c].item, own |-> req[c].arg]}
  /\ Finish(c)
  /\ UNCHANGED <<accounts, tokens, issued, items, born, clicks, workers, bounds>>

\* If the product was deleted meanwhile the foreign key fails the commit.
AddAlert(c) ==
  /\ Committing(c, {"alert"})
  /\ alerts' = IF Exists(req[c].item)
               THEN alerts \cup {[item |-> req[c].item, own |-> req[c].arg]} ELSE alerts
  /\ Finish(c)
  /\ UNCHANGED <<accounts, tokens, issued, items, born, clicks, workers, bounds>>

DropAlert(c) ==
  /\ Committing(c, {"unalert"})
  /\ alerts' = alerts \ {[item |-> req[c].item, own |-> req[c].arg]}
  /\ Finish(c)
  /\ UNCHANGED <<accounts, tokens, issued, items, born, clicks, workers, bounds>>

MintToken(c) ==
  /\ Committing(c, {"mint"})
  /\ \E t \in Token :
       /\ issued[t] = None
       /\ tokens' = [tokens EXCEPT ![t] = req[c].user]
       /\ issued' = [issued EXCEPT ![t] = req[c].user]
  /\ Finish(c)
  /\ UNCHANGED <<accounts, items, born, alerts, clicks, workers, bounds>>

RevokeToken(c) ==
  /\ Committing(c, {"revoke"})
  /\ tokens' = [tokens EXCEPT ![req[c].arg] = None]
  /\ Finish(c)
  /\ UNCHANGED <<accounts, issued, items, born, alerts, clicks, workers, bounds>>

\* Mutant: the email is not unique in the schema.
RegisterAgain(c) ==
  /\ Committing(c, {"register"})
  /\ accounts' = [accounts EXCEPT ![req[c].arg] = @ + 1]
  /\ Finish(c)
  /\ UNCHANGED <<tokens, issued, items, born, alerts, clicks, workers, bounds>>

\* A second row of the email violates its unique key: that request fails.
Register(c) ==
  /\ Committing(c, {"register"})
  /\ accounts' = [accounts EXCEPT ![req[c].arg] = 1]
  /\ Finish(c)
  /\ UNCHANGED <<tokens, issued, items, born, alerts, clicks, workers, bounds>>

\* The click is committed before the browser is sent on.
LogClick(c) ==
  /\ Committing(c, {"go"})
  /\ clicks' = IF Exists(req[c].item) THEN clicks \cup {req[c].item} ELSE clicks
  /\ Finish(c)
  /\ UNCHANGED <<accounts, tokens, issued, items, born, alerts, workers, bounds>>

\* enqueue_product_refresh for each product: without the broker nothing is
\* queued, and nothing is said.
Enqueue(c) ==
  /\ pc[c] = "added"
  /\ IF req[c].pending = {} THEN Finish(c) /\ UNCHANGED queue
     ELSE \E i \in req[c].pending :
            /\ queue' = IF brokerUp THEN queue \cup ({i} \cap behind) ELSE queue
            /\ req' = [req EXCEPT ![c].pending = @ \ {i}]
            /\ UNCHANGED <<pc, context>>
  /\ UNCHANGED <<rows, brokerUp, behind, bounds>>

\* The process dies, the store's page cannot be read, or the database fails.
Abandon(c) ==
  /\ "abandon" \in Faults /\ pc[c] # "idle" /\ Finish(c)
  /\ UNCHANGED <<rows, workers, bounds>>

-----------------------------------------------------------------------------
(* Beat, the workers and the broker.                                       *)

\* Mutant: the sweep takes the paused products.
SweepPaused ==
  /\ brokerUp /\ queue' = queue \cup (behind \ Due)
  /\ UNCHANGED <<rows, handling, brokerUp, behind, bounds>>

\* enqueue_due_refreshes: all active products.  Of what it queues, and of what
\* a request queues, a message for a product that is not behind matters to
\* FetchPipeline only.
Sweep ==
  /\ brokerUp /\ queue' = queue \cup (behind \cap Due)
  /\ UNCHANGED <<rows, handling, brokerUp, behind, bounds>>

\* Perhaps in the middle of a sweep, which ends with that.
BrokerFails ==
  /\ "broker" \in Faults /\ brokerUp /\ outages > 0
  /\ outages' = outages - 1 /\ brokerUp' = FALSE
  /\ \E sent \in SUBSET (behind \cap Due) : queue' = queue \cup sent
  /\ UNCHANGED <<rows, handling, behind, requests>>

BrokerReturns ==
  /\ ~brokerUp /\ brokerUp' = TRUE
  /\ UNCHANGED <<rows, handling, behind, queue, bounds>>

\* refresh_product, which FetchPipeline has in full.
Refresh(i) ==
  /\ brokerUp /\ i \in queue
  /\ queue' = queue \ {i} /\ behind' = behind \ {i}
  /\ UNCHANGED <<rows, handling, brokerUp, bounds>>

Handle(c) ==
  \/ Accept(c) \/ EnterTool(c) \/ Load(c)
  \/ AddItems(c) \/ EditItem(c) \/ DeleteItem(c) \/ AddAlert(c) \/ DropAlert(c)
  \/ MintToken(c) \/ RevokeToken(c) \/ Register(c) \/ LogClick(c) \/ Enqueue(c)

Next ==
  \/ \E c \in Client : \/ WebRequest(c) \/ OpenRequest(c) \/ McpRequest(c)
                       \/ Handle(c) \/ Abandon(c)
  \/ \E i \in Item : Refresh(i)
  \/ Sweep \/ BrokerFails \/ BrokerReturns

Spec == Init /\ [][Next]_vars

\* Beat ticks for ever, Redis is started again, the workers take what is queued.
Fairness ==
  WF_vars(Sweep) /\ WF_vars(BrokerReturns) /\ \A i \in Item : WF_vars(Refresh(i))

FairSpec == Spec /\ Fairness

-----------------------------------------------------------------------------
\* Whose credential came with a request.
Principal(c) == IF req[c].token # None THEN issued[req[c].token] ELSE req[c].session

\* What an account owns.
Owned(e) ==
  <<[i \in ItemsOf(e) |-> items[i]], {a \in alerts : a.item \in ItemsOf(e)},
    {t \in Token : tokens[t] = e}>>

\* What an account owns changes only by a commit of a request that came with
\* its own session or API token, however requests of several accounts
\* interleave and whatever threads their tools run on.
OwnersOnly ==
  [][\A e \in Email :
       Owned(e)' # Owned(e) =>
         \E c \in Client : Principal(c) = e /\ pc[c] = "loaded" /\ pc'[c] # "loaded"]_vars

\* No alert and no click outlives its product although handlers look the
\* product up before they insert, and others delete it in between.
NoOrphans == \A i \in Item : ~Exists(i) => i \notin clicks \cup {a.item : a \in alerts}

\* Tracking a link or a search again adds nothing: there are never more
\* products of one key than requests that overlapped when the first was added.
TracksOnce ==
  \A e \in Email, k \in Key :
    Cardinality({i \in ItemsOf(e) : items[i].key = k /\ items[i].linked})
      <= Cardinality(Client)

\* An active product is refreshed in the end though its request died, or asked
\* while the broker was down: "Beat will sweep active products later".
ActiveIsRefreshed == \A i \in Item : i \in behind ~> i \notin behind
=============================================================================
