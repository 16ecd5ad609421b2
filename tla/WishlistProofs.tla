--------------------------- MODULE WishlistProofs ---------------------------
(* Theorems about Wishlist, for every value of its constants. *)
EXTENDS Wishlist, TLAPS, FiniteSetTheorems

(***************************************************************************)
(* The inductive invariant: the variables are typed, the locals of the     *)
(* requests too; a request carries what its kind needs; ids are given out  *)
(* in order; a token that opens something opens it for whom it was issued  *)
(* to; a request acts for whose credential it came with, whether that is   *)
(* in a cookie, a row, a context variable or an argument by then; and what *)
(* a handler looked up is that account's, or gone.                         *)
(***************************************************************************)
Adds  == {"create", "track", "seed"}
Open  == {"register", "go"}
Op    == WebOps \cup Open
After == {"running", "loaded", "added"}

Argument == (SUBSET Key) \cup Edits \cup BOOLEAN \cup Token \cup Email \cup {None}

Request ==
  [op : Op \cup {None}, session : Email \cup {None}, token : Token \cup {None},
   user : Email \cup {None}, item : Item \cup {None}, arg : Argument, row : Row,
   pending : SUBSET Item]

Carries(r, n) ==
  /\ r.op \in Adds => r.arg \subseteq Key /\ IsFiniteSet(r.arg)
  /\ r.op \in OnItem \cup {"go"} => r.item \in 1..n
  /\ r.op = "edit" => r.arg \in Edits
  /\ r.op \in {"alert", "unalert"} => r.arg \in BOOLEAN
  /\ r.op = "revoke" => r.arg \in Token
  /\ r.op = "register" => r.arg \in Email

Trusted(r, at, ctx, shown) ==
  /\ r.token # None => shown[r.token] # None
  /\ at \in {"resolving", "accepted"} => r.token \in Token /\ r.op \in McpOps
  /\ at = "accepted" => ctx = shown[r.token]
  /\ at \in After /\ r.op \notin Open =>
       /\ r.user \in Email
       /\ r.user = IF r.token # None THEN shown[r.token] ELSE r.session

Held(r, at, its, shown) ==
  at = "loaded" =>
    /\ r.op \in OnItem => its[r.item].owner \in {r.user, None}
    /\ r.op = "revoke" => shown[r.arg] = r.user

\* The types of a request at a point of it, as TypeOK has them.
At == {"idle", "resolving", "accepted", "running", "loaded", "added"}

Typed(r, at) ==
  /\ r \in Request /\ at \in At
  /\ (r.op = None) = (at = "idle")
  /\ at \in After => (r.user = None) = (r.op \in Open)
  /\ r.pending # {} => at = "added"

RequestOK(r, at, ctx, n, its, shown) ==
  Typed(r, at) /\ Carries(r, n) /\ Trusted(r, at, ctx, shown) /\ Held(r, at, its, shown)

Handling ==
  /\ pc \in [Client -> At] /\ req \in [Client -> Request]
  /\ context \in [Client -> Email \cup {None}]
  /\ \A c \in Client : RequestOK(req[c], pc[c], context[c], born, items, issued)

IdsInOrder   == \A i \in Item : Exists(i) => i <= born
TokensIssued == \A t \in Token : tokens[t] # None => tokens[t] = issued[t]

Tables ==
  /\ accounts \in [Email -> 0..1]
  /\ tokens \in [Token -> Email \cup {None}] /\ issued \in [Token -> Email \cup {None}]
  /\ items \in [Item -> Row] /\ born \in 0..Cardinality(Item)
  /\ alerts \subseteq Alert /\ clicks \subseteq Item
  /\ IdsInOrder /\ TokensIssued /\ NoOrphans

Refreshes ==
  /\ brokerUp \in BOOLEAN /\ behind \subseteq Due /\ queue \subseteq behind
  /\ requests \in 0..Requests /\ outages \in 0..1

IInv == Tables /\ Refreshes /\ Handling

-----------------------------------------------------------------------------
LEMMA NumberOfItems == Cardinality(Item) \in Nat /\ Item \subseteq Nat
  BY ItemsNumbered, FS_CardinalityType

LEMMA NoneIsNothing == None \notin Email /\ None \notin Token /\ None \notin Op
  BY StandingAssumption DEF Op, Open

LEMMA NoRowTyped == NoRow \in Row /\ NoRow.owner = None
  BY DEF NoRow, Row

LEMMA IdleTyped ==
  /\ Idle \in Request /\ Idle.op = None /\ Idle.token = None /\ Idle.pending = {}
<1>1. NoRow \in Row /\ None \in Argument
  BY NoRowTyped DEF Argument
<1> QED
  BY <1>1 DEF Idle, Request

LEMMA ArgumentsTyped ==
  ASSUME NEW op \in WebOps, NEW a \in Arguments(op)
  PROVE  /\ a \in Argument
         /\ op \in Adds => a \subseteq Key /\ IsFiniteSet(a)
         /\ op = "edit" => a \in Edits
         /\ op \in {"alert", "unalert"} => a \in BOOLEAN
         /\ op = "revoke" => a \in Token
<1>1. CASE op \in {"create", "track"}
  <2>1. PICK k \in Key : a = {k}
    BY <1>1 DEF Arguments
  <2>2. IsFiniteSet({k})
    BY FS_Singleton
  <2> QED
    BY <1>1, <2>1, <2>2 DEF Argument
<1>2. CASE op = "seed"
  BY <1>2, DemoAssumption DEF Arguments, Argument
<1>3. CASE op \in {"edit", "alert", "unalert", "revoke"}
  BY <1>3 DEF Arguments, Argument, Adds
<1>4. CASE op \in {"toggle", "delete", "refresh", "refresh_all", "mint"}
  BY <1>4 DEF Arguments, Argument, Adds
<1> QED
  BY <1>1, <1>2, <1>3, <1>4 DEF WebOps

\* A request that begins is typed, and carries what its kind needs.
LEMMA AskTyped ==
  ASSUME 1..born \subseteq Item, NEW op \in WebOps, NEW i \in Targets(op),
         NEW a \in Arguments(op), NEW r \in Request, r.op = op, r.item = i, r.arg = a
  PROVE  Carries(r, born)
<1>1. op \in OnItem => i \in 1..born
  BY DEF Targets
<1> QED
  BY <1>1, ArgumentsTyped DEF Carries, WebOps

LEMMA AskValues ==
  ASSUME 1..born \subseteq Item, NEW op \in WebOps, NEW i \in Targets(op),
         NEW a \in Arguments(op)
  PROVE  /\ op \in Op /\ i \in Item \cup {None} /\ a \in Argument
  BY ArgumentsTyped DEF Targets, Op

\* What a flush may change, and what it leaves.
LEMMA FlushedTyped ==
  ASSUME NEW row \in Row, NEW loaded \in Row, NEW new,
         DOMAIN new \subseteq {"active", "target"}, \A a \in DOMAIN new : new[a] \in BOOLEAN
  PROVE  /\ Flushed(row, loaded, new) \in Row
         /\ Flushed(row, loaded, new).owner = row.owner
         /\ Flushed(row, loaded, new).key = row.key
         /\ Flushed(row, loaded, new).linked = row.linked
         /\ \A a \in {"active", "target"} \ DOMAIN new : Flushed(row, loaded, new)[a] = row[a]
<1> DEFINE f == Flushed(row, loaded, new)
<1>1. DOMAIN row = {"owner", "key", "linked", "active", "target"}
  BY DEF Row
<1>2. f = [a \in {"owner", "key", "linked", "active", "target"} |->
             IF a \in DOMAIN new /\ new[a] # loaded[a] THEN new[a] ELSE row[a]]
  BY <1>1 DEF Flushed
<1>3. /\ f["owner"] = row.owner /\ f["key"] = row.key /\ f["linked"] = row.linked
      /\ f["active"] \in {new["active"], row.active}
      /\ f["target"] \in {new["target"], row.target}
  BY <1>2
<1>4. f["active"] \in BOOLEAN /\ f["target"] \in BOOLEAN
  BY <1>2 DEF Row
<1>5. f = [owner |-> f["owner"], key |-> f["key"], linked |-> f["linked"],
           active |-> f["active"], target |-> f["target"]]
  BY <1>2
<1>6. f \in Row
  BY <1>3, <1>4, <1>5 DEF Row
<1>7. \A a \in {"active", "target"} \ DOMAIN new : f[a] = row[a]
  BY <1>2
<1> QED
  BY <1>3, <1>6, <1>7
-----------------------------------------------------------------------------
\* What may change in the tables while a request is under way.
TablesGrow ==
  /\ born' \in Nat /\ born <= born'
  /\ \A i \in 1..born : items'[i].owner \in {items[i].owner, None}
  /\ \A t \in Token : issued[t] # None => issued'[t] = issued[t]

LEMMA RequestKept ==
  ASSUME Tables, TablesGrow, NEW r, NEW at, NEW ctx,
         RequestOK(r, at, ctx, born, items, issued)
  PROVE  RequestOK(r, at, ctx, born', items', issued')
<1> USE DEF RequestOK
<1>1. r \in Request /\ (r.op = "revoke" => r.arg \in Token)
  BY DEF Typed, Carries
<1>2. Carries(r, born')
  <2>1. \A i \in 1..born : i \in 1..born'
    BY DEF TablesGrow, Tables
  <2> QED
    BY <2>1 DEF Carries
<1>3. Trusted(r, at, ctx, issued')
  <2>1. r.token # None => r.token \in Token /\ issued'[r.token] = issued[r.token]
    BY <1>1 DEF Trusted, Request, TablesGrow
  <2>2. at = "accepted" => issued'[r.token] = issued[r.token]
    BY <2>1, NoneIsNothing DEF Trusted
  <2> QED
    BY <2>1, <2>2 DEF Trusted
<1>4. Held(r, at, items', issued')
  <2> SUFFICES ASSUME at = "loaded" PROVE Held(r, at, items', issued')
    BY DEF Held
  <2>1. ASSUME r.op \in OnItem PROVE items'[r.item].owner \in {r.user, None}
    <3>1. r.item \in 1..born
      BY <2>1 DEF Carries
    <3> QED
      BY <2>1, <3>1 DEF Held, TablesGrow
  <2>2. ASSUME r.op = "revoke" PROVE issued'[r.arg] = r.user
    <3>1. issued[r.arg] = r.user /\ r.user # None
      BY <2>2, NoneIsNothing DEF Held, Trusted, After, Open
    <3> QED
      BY <1>1, <2>2, <3>1 DEF TablesGrow
  <2> QED
    BY <2>1, <2>2 DEF Held
<1> QED
  BY <1>2, <1>3, <1>4

\* A step of one request leaves the others in order.
LEMMA RequestBecomes ==
  ASSUME Tables, Handling, TablesGrow, NEW c \in Client,
         NEW r, NEW at, NEW ctx \in Email \cup {None},
         RequestOK(r, at, ctx, born', items', issued'),
         req' = [req EXCEPT ![c] = r], pc' = [pc EXCEPT ![c] = at],
         context' = [context EXCEPT ![c] = ctx]
  PROVE  Handling'
<1>1. r \in Request /\ at \in At
  BY DEF RequestOK, Typed
<1>2. /\ req' \in [Client -> Request] /\ pc' \in [Client -> At]
      /\ context' \in [Client -> Email \cup {None}]
      /\ req'[c] = r /\ pc'[c] = at /\ context'[c] = ctx
      /\ \A d \in Client \ {c} :
           req'[d] = req[d] /\ pc'[d] = pc[d] /\ context'[d] = context[d]
  BY <1>1 DEF Handling
<1>3. ASSUME NEW d \in Client
      PROVE  RequestOK(req'[d], pc'[d], context'[d], born', items', issued')
  <2>1. CASE d = c
    BY <1>2, <2>1
  <2>2. CASE d # c
    <3>1. RequestOK(req[d], pc[d], context[d], born, items, issued)
      BY DEF Handling
    <3>2. RequestOK(req[d], pc[d], context[d], born', items', issued')
      BY <3>1, RequestKept
    <3> QED
      BY <1>2, <2>2, <3>2
  <2> QED
    BY <2>1, <2>2
<1> QED
  BY <1>2, <1>3 DEF Handling

LEMMA Unmoved ==
  ASSUME Tables, UNCHANGED <<born, items, issued>>
  PROVE  TablesGrow
  BY NumberOfItems DEF Tables, TablesGrow

\* An answered request is as if it had never been.
LEMMA Answered ==
  ASSUME Tables, Handling, TablesGrow, NEW c \in Client, Finish(c)
  PROVE  Handling'
<1>1. RequestOK(Idle, "idle", None, born', items', issued')
  BY IdleTyped, NoneIsNothing
     DEF RequestOK, Typed, At, Carries, Trusted, Held, After, Op, Open, WebOps, Adds,
         OnItem, McpOps
<1> QED
  BY <1>1, RequestBecomes DEF Finish, Go
-----------------------------------------------------------------------------
LEMMA TablesKept ==
  ASSUME Tables, UNCHANGED rows PROVE Tables' /\ TablesGrow
<1>1. UNCHANGED <<accounts, tokens, issued, items, born, alerts, clicks>>
  BY DEF rows
<1>2. Tables'
  BY <1>1 DEF Tables, IdsInOrder, TokensIssued, NoOrphans, Exists
<1> QED
  BY <1>1, <1>2, Unmoved

LEMMA RefreshesKept ==
  ASSUME Refreshes, UNCHANGED <<items, workers>>, requests' \in 0..Requests,
         outages' \in 0..1
  PROVE  Refreshes'
<1>1. UNCHANGED <<items, brokerUp, behind, queue>>
  BY DEF workers
<1> QED
  BY <1>1 DEF Refreshes, Due, Exists

\* A step of one request that writes nothing.
LEMMA ReadingStep ==
  ASSUME IInv, NEW c \in Client, UNCHANGED <<rows, workers>>,
         requests' \in 0..Requests, outages' \in 0..1,
         \/ Finish(c)
         \/ \E r, at : \E ctx \in Email \cup {None} :
              /\ RequestOK(r, at, ctx, born, items, issued)
              /\ req' = [req EXCEPT ![c] = r] /\ pc' = [pc EXCEPT ![c] = at]
              /\ context' = [context EXCEPT ![c] = ctx]
  PROVE  IInv'
<1>1. Tables' /\ TablesGrow
  BY TablesKept DEF IInv
<1>2. UNCHANGED <<items, born, issued>>
  BY DEF rows
<1>3. Refreshes'
  BY <1>2, RefreshesKept DEF IInv
<1>4. Handling'
  <2>1. CASE Finish(c)
    BY <1>1, <2>1, Answered DEF IInv
  <2>2. CASE \E r, at : \E ctx \in Email \cup {None} :
               /\ RequestOK(r, at, ctx, born, items, issued)
               /\ req' = [req EXCEPT ![c] = r] /\ pc' = [pc EXCEPT ![c] = at]
               /\ context' = [context EXCEPT ![c] = ctx]
    <3>1. PICK r, at : \E ctx \in Email \cup {None} :
               /\ RequestOK(r, at, ctx, born, items, issued)
               /\ req' = [req EXCEPT ![c] = r] /\ pc' = [pc EXCEPT ![c] = at]
               /\ context' = [context EXCEPT ![c] = ctx]
      BY <2>2
    <3>2. PICK ctx \in Email \cup {None} :
               /\ RequestOK(r, at, ctx, born, items, issued)
               /\ req' = [req EXCEPT ![c] = r] /\ pc' = [pc EXCEPT ![c] = at]
               /\ context' = [context EXCEPT ![c] = ctx]
      BY <3>1
    <3>3. RequestOK(r, at, ctx, born', items', issued')
      BY <1>2, <3>2
    <3> QED
      BY <1>1, <3>2, <3>3, RequestBecomes DEF IInv
  <2> QED
    BY <2>1, <2>2
<1> QED
  BY <1>1, <1>3, <1>4 DEF IInv

LEMMA BeginKept ==
  ASSUME IInv, NEW c \in Client, NEW r, NEW at,
         \A ctx \in Email \cup {None} : RequestOK(r, at, ctx, born, items, issued),
         Begin(c, r, at)
  PROVE  IInv'
<1>1. context[c] \in Email \cup {None} /\ context = [context EXCEPT ![c] = context[c]]
  BY DEF IInv, Handling
<1>2. requests' \in 0..Requests /\ outages' \in 0..1
  BY DemoAssumption DEF Begin, IInv, Refreshes
<1>3. /\ UNCHANGED <<rows, workers>> /\ RequestOK(r, at, context[c], born, items, issued)
      /\ req' = [req EXCEPT ![c] = r] /\ pc' = [pc EXCEPT ![c] = at]
      /\ context' = [context EXCEPT ![c] = context[c]]
  BY <1>1 DEF Begin, Go
<1> QED
  BY <1>1, <1>2, <1>3, ReadingStep

LEMMA IdsAreItems == Tables => 1..born \subseteq Item
  BY NumberOfItems, ItemsNumbered DEF Tables

LEMMA WebRequestKept ==
  ASSUME IInv, NEW c \in Client, WebRequest(c) PROVE IInv'
<1>1. PICK e \in Registered, op \in WebOps :
        \E i \in Targets(op), a \in Arguments(op) :
          Begin(c, [Idle EXCEPT !.op = op, !.session = e, !.user = e, !.item = i,
                                !.arg = a], "running")
  BY DEF WebRequest
<1>2. PICK i \in Targets(op), a \in Arguments(op) :
        Begin(c, [Idle EXCEPT !.op = op, !.session = e, !.user = e, !.item = i, !.arg = a],
              "running")
  BY <1>1
<1> DEFINE r == [Idle EXCEPT !.op = op, !.session = e, !.user = e, !.item = i, !.arg = a]
<1>3. e \in Email /\ op \notin Open
  BY DEF Registered, Open, WebOps
<1>4. /\ r \in Request /\ r.op = op /\ r.session = e /\ r.token = None /\ r.user = e
      /\ r.pending = {} /\ Carries(r, born)
  <2>1. 1..born \subseteq Item /\ op \in Op /\ i \in Item \cup {None} /\ a \in Argument
    BY IdsAreItems, AskValues DEF IInv
  <2>2. /\ r \in Request /\ r.op = op /\ r.session = e /\ r.token = None /\ r.user = e
        /\ r.item = i /\ r.arg = a /\ r.pending = {}
    BY <1>3, <2>1, IdleTyped DEF Request
  <2> HIDE DEF r
  <2> QED
    BY <2>1, <2>2, AskTyped
<1>5. ASSUME NEW ctx \in Email \cup {None}
      PROVE  RequestOK(r, "running", ctx, born, items, issued)
  <2>1. Typed(r, "running")
    BY <1>3, <1>4, NoneIsNothing DEF Typed, At, After, Op
  <2>2. Trusted(r, "running", ctx, issued) /\ Held(r, "running", items, issued)
    BY <1>3, <1>4 DEF Trusted, Held
  <2> QED
    BY <1>4, <2>1, <2>2 DEF RequestOK
<1> QED
  BY <1>2, <1>5, BeginKept

LEMMA OpenRequestKept ==
  ASSUME IInv, NEW c \in Client, OpenRequest(c) PROVE IInv'
<1>1. CASE \E e \in Email : Begin(c, [Idle EXCEPT !.op = "register", !.arg = e], "running")
  <2>1. PICK e \in Email : Begin(c, [Idle EXCEPT !.op = "register", !.arg = e], "running")
    BY <1>1
  <2> DEFINE r == [Idle EXCEPT !.op = "register", !.arg = e]
  <2>2. /\ r \in Request /\ r.op = "register" /\ r.arg = e /\ r.token = None
        /\ r.user = None /\ r.pending = {}
    BY IdleTyped DEF Request, Op, Open, Argument, Idle
  <2>3. ASSUME NEW ctx \in Email \cup {None}
        PROVE  RequestOK(r, "running", ctx, born, items, issued)
    BY <2>2, NoneIsNothing
       DEF RequestOK, Typed, At, After, Carries, Trusted, Held, Adds, OnItem, Open, Op, WebOps
  <2> QED
    BY <2>1, <2>3, BeginKept
<1>2. CASE \E i \in 1..born : Begin(c, [Idle EXCEPT !.op = "go", !.item = i], "running")
  <2>1. PICK i \in 1..born : Begin(c, [Idle EXCEPT !.op = "go", !.item = i], "running")
    BY <1>2
  <2> DEFINE r == [Idle EXCEPT !.op = "go", !.item = i]
  <2>2. i \in Item
    BY NumberOfItems, ItemsNumbered DEF IInv, Tables
  <2>3. /\ r \in Request /\ r.op = "go" /\ r.item = i /\ r.token = None
        /\ r.user = None /\ r.pending = {}
    BY <2>2, IdleTyped DEF Request, Op, Open, Idle
  <2>4. ASSUME NEW ctx \in Email \cup {None}
        PROVE  RequestOK(r, "running", ctx, born, items, issued)
    BY <2>3, NoneIsNothing
       DEF RequestOK, Typed, At, After, Carries, Trusted, Held, Adds, OnItem, Open, Op, WebOps
  <2> QED
    BY <2>1, <2>4, BeginKept
<1> QED
  BY <1>1, <1>2 DEF OpenRequest

LEMMA McpRequestKept ==
  ASSUME IInv, NEW c \in Client, McpRequest(c) PROVE IInv'
<1>1. PICK t \in Token, op \in McpOps :
        /\ tokens[t] # None
        /\ \E i \in Targets(op), a \in Arguments(op) :
             Begin(c, [Idle EXCEPT !.op = op, !.token = t, !.item = i, !.arg = a],
                   "resolving")
  BY DEF McpRequest
<1>2. PICK i \in Targets(op), a \in Arguments(op) :
        Begin(c, [Idle EXCEPT !.op = op, !.token = t, !.item = i, !.arg = a], "resolving")
  BY <1>1
<1> DEFINE r == [Idle EXCEPT !.op = op, !.token = t, !.item = i, !.arg = a]
<1>3. op \in WebOps
  BY DEF McpOps, WebOps
<1>4. r \in Request /\ r.op = op /\ r.token = t /\ r.pending = {} /\ Carries(r, born)
  <2>1. 1..born \subseteq Item /\ op \in Op /\ i \in Item \cup {None} /\ a \in Argument
    BY <1>3, IdsAreItems, AskValues DEF IInv
  <2>2. /\ r \in Request /\ r.op = op /\ r.token = t /\ r.item = i /\ r.arg = a
        /\ r.pending = {}
    BY <2>1, IdleTyped DEF Request
  <2> HIDE DEF r
  <2> QED
    BY <1>3, <2>1, <2>2, AskTyped
<1>5. issued[t] # None
  BY <1>1 DEF IInv, Tables, TokensIssued
<1>6. ASSUME NEW ctx \in Email \cup {None}
      PROVE  RequestOK(r, "resolving", ctx, born, items, issued)
  <2>1. Typed(r, "resolving")
    BY <1>3, <1>4, NoneIsNothing DEF Typed, At, After, Op
  <2>2. Trusted(r, "resolving", ctx, issued) /\ Held(r, "resolving", items, issued)
    BY <1>4, <1>5 DEF Trusted, Held, After
  <2> QED
    BY <1>4, <2>1, <2>2 DEF RequestOK
<1> QED
  BY <1>2, <1>6, BeginKept
-----------------------------------------------------------------------------
\* Only the requests and the queue change.
LEMMA Stands ==
  ASSUME IInv, NEW c \in Client
  PROVE  /\ RequestOK(req[c], pc[c], context[c], born, items, issued)
         /\ req[c] \in Request /\ pc[c] \in At /\ context[c] \in Email \cup {None}
         /\ context = [context EXCEPT ![c] = context[c]]
         /\ requests \in 0..Requests /\ outages \in 0..1
  BY DEF IInv, Handling, Refreshes

LEMMA AcceptKept ==
  ASSUME IInv, NEW c \in Client, Accept(c) PROVE IInv'
<1> DEFINE owner == tokens[req[c].token]
<1>1. UNCHANGED <<rows, workers, requests, outages>> /\ pc[c] = "resolving"
  BY DEF Accept, bounds
<1>2. CASE owner = None
  BY <1>1, <1>2, Stands, ReadingStep DEF Accept
<1>3. CASE owner # None
  <2>1. req[c].token \in Token /\ req[c].op \in McpOps
    BY <1>1, Stands DEF RequestOK, Trusted
  <2>2. owner \in Email /\ owner = issued[req[c].token]
    BY <1>3, <2>1 DEF IInv, Tables, TokensIssued
  <2>3. RequestOK(req[c], "accepted", owner, born, items, issued)
    <3>1. Typed(req[c], "accepted")
      BY <1>1, Stands DEF RequestOK, Typed, At, After
    <3>2. Trusted(req[c], "accepted", owner, issued) /\ Held(req[c], "accepted", items, issued)
      BY <2>1, <2>2, Stands DEF RequestOK, Trusted, Held, After
    <3> QED
      BY <3>1, <3>2, Stands DEF RequestOK
  <2>4. /\ req' = [req EXCEPT ![c] = req[c]] /\ pc' = [pc EXCEPT ![c] = "accepted"]
        /\ context' = [context EXCEPT ![c] = owner]
    BY <1>3 DEF Accept, Go, SetContext, IInv, Handling
  <2> QED
    BY <1>1, <2>2, <2>3, <2>4, Stands, ReadingStep
<1> QED
  BY <1>2, <1>3

LEMMA EnterToolKept ==
  ASSUME IInv, NEW c \in Client, EnterTool(c) PROVE IInv'
<1> DEFINE r == [req[c] EXCEPT !.user = context[c]]
<1>1. UNCHANGED <<rows, workers, requests, outages>> /\ pc[c] = "accepted"
  BY DEF EnterTool, bounds
<1>2. req[c].token \in Token /\ req[c].op \in McpOps /\ context[c] = issued[req[c].token]
  BY <1>1, Stands DEF RequestOK, Trusted
<1>3. context[c] \in Email
  BY <1>2, Stands, NoneIsNothing DEF RequestOK, Trusted
<1>4. /\ r \in Request /\ r.op = req[c].op /\ r.token = req[c].token /\ r.user = context[c]
      /\ r.item = req[c].item /\ r.arg = req[c].arg /\ r.pending = req[c].pending
  BY <1>3, Stands DEF Request
<1>5. RequestOK(r, "running", context[c], born, items, issued)
  <2>1. Typed(r, "running")
    BY <1>1, <1>2, <1>3, <1>4, Stands, NoneIsNothing
       DEF RequestOK, Typed, At, After, Open, McpOps
  <2>2. Carries(r, born)
    BY <1>4, Stands DEF RequestOK, Carries
  <2>3. Trusted(r, "running", context[c], issued) /\ Held(r, "running", items, issued)
    BY <1>2, <1>3, <1>4, Stands, NoneIsNothing DEF RequestOK, Trusted, Held, After
  <2> QED
    BY <2>1, <2>2, <2>3 DEF RequestOK
<1>6. /\ req' = [req EXCEPT ![c] = r] /\ pc' = [pc EXCEPT ![c] = "running"]
      /\ context' = [context EXCEPT ![c] = context[c]]
  BY Stands DEF EnterTool, Go
<1> QED
  BY <1>1, <1>5, <1>6, Stands, ReadingStep

LEMMA AbandonKept ==
  ASSUME IInv, NEW c \in Client, Abandon(c) PROVE IInv'
<1>1. UNCHANGED <<rows, workers, requests, outages>> /\ Finish(c)
  BY DEF Abandon, bounds
<1> QED
  BY <1>1, Stands, ReadingStep

LEMMA LoadKept ==
  ASSUME IInv, NEW c \in Client, Load(c) PROVE IInv'
<1> DEFINE r == req[c]
<1>1. UNCHANGED <<rows, workers, requests, outages>> /\ pc[c] = "running"
  BY DEF Load, bounds
<1>2. /\ r \in Request /\ Carries(r, born) /\ r.pending = {} /\ r.op # None
      /\ Trusted(r, "running", context[c], issued)
      /\ (r.user = None) = (r.op \in Open)
  BY <1>1, Stands DEF RequestOK, Typed, After
<1>3. CASE ~Finds(r)
  BY <1>1, <1>3, Stands, ReadingStep DEF Load
<1>4. ASSUME Finds(r), r.op \in {"refresh", "refresh_all"},
             Go(c, "added"), req' = [req EXCEPT ![c].pending = Wanted(r)],
             UNCHANGED context
      PROVE  IInv'
  <2> DEFINE q == [r EXCEPT !.pending = Wanted(r)]
  <2>1. Wanted(r) \subseteq Item
    <3>1. r.op = "refresh" => r.item \in Item
      BY <1>2, IdsAreItems DEF Carries, OnItem, IInv
    <3> QED
      BY <1>4, <3>1 DEF Wanted, ItemsOf
  <2>2. /\ q \in Request /\ q.op = r.op /\ q.token = r.token /\ q.user = r.user
        /\ q.item = r.item /\ q.arg = r.arg /\ q.session = r.session
    BY <1>2, <2>1 DEF Request
  <2>3. RequestOK(q, "added", context[c], born, items, issued)
    BY <1>2, <2>2 DEF RequestOK, Typed, At, Carries, Trusted, Held, After
  <2>4. /\ req' = [req EXCEPT ![c] = q] /\ pc' = [pc EXCEPT ![c] = "added"]
        /\ context' = [context EXCEPT ![c] = context[c]]
    BY <1>4, Stands DEF Go
  <2> QED
    BY <1>1, <2>3, <2>4, Stands, ReadingStep
<1>5. ASSUME Finds(r), r.op \in Adds, Go(c, "loaded"),
             req' = [req EXCEPT ![c].arg = r.arg \ Known(r.op, r.user)],
             UNCHANGED context
      PROVE  IInv'
  <2> DEFINE q == [r EXCEPT !.arg = r.arg \ Known(r.op, r.user)]
  <2>1. /\ r.arg \ Known(r.op, r.user) \subseteq Key
        /\ IsFiniteSet(r.arg \ Known(r.op, r.user))
    BY <1>2, <1>5, FS_Difference DEF Carries
  <2>2. /\ q \in Request /\ q.op = r.op /\ q.token = r.token /\ q.user = r.user
        /\ q.item = r.item /\ q.session = r.session /\ q.pending = {}
        /\ q.arg = r.arg \ Known(r.op, r.user)
    BY <1>2, <2>1 DEF Request, Argument
  <2>3. RequestOK(q, "loaded", context[c], born, items, issued)
    <3>1. Typed(q, "loaded")
      BY <1>2, <2>2 DEF Typed, At, After
    <3>2. Carries(q, born)
      BY <1>2, <1>5, <2>1, <2>2 DEF Carries, Adds, OnItem
    <3>3. Trusted(q, "loaded", context[c], issued) /\ Held(q, "loaded", items, issued)
      BY <1>2, <1>5, <2>2 DEF Trusted, Held, After, Adds, OnItem
    <3> QED
      BY <3>1, <3>2, <3>3 DEF RequestOK
  <2>4. /\ req' = [req EXCEPT ![c] = q] /\ pc' = [pc EXCEPT ![c] = "loaded"]
        /\ context' = [context EXCEPT ![c] = context[c]]
    BY <1>5, Stands DEF Go
  <2> QED
    BY <1>1, <2>3, <2>4, Stands, ReadingStep
<1>6. ASSUME Finds(r), r.op \in OnItem, Go(c, "loaded"),
             req' = [req EXCEPT ![c].row = items[r.item]], UNCHANGED context
      PROVE  IInv'
  <2> DEFINE q == [r EXCEPT !.row = items[r.item]]
  <2>1. r.item \in Item /\ items[r.item] \in Row /\ items[r.item].owner = r.user
    BY <1>2, <1>6, IdsAreItems DEF Carries, Finds, IInv, Tables
  <2>2. /\ q \in Request /\ q.op = r.op /\ q.token = r.token /\ q.user = r.user
        /\ q.item = r.item /\ q.arg = r.arg /\ q.session = r.session /\ q.pending = {}
    BY <1>2, <2>1 DEF Request
  <2>3. RequestOK(q, "loaded", context[c], born, items, issued)
    <3>1. Typed(q, "loaded")
      BY <1>2, <2>2 DEF Typed, At, After
    <3>2. Carries(q, born)
      BY <1>2, <2>2 DEF Carries
    <3>3. Trusted(q, "loaded", context[c], issued) /\ Held(q, "loaded", items, issued)
      BY <1>2, <1>6, <2>1, <2>2 DEF Trusted, Held, After, OnItem
    <3> QED
      BY <3>1, <3>2, <3>3 DEF RequestOK
  <2>4. /\ req' = [req EXCEPT ![c] = q] /\ pc' = [pc EXCEPT ![c] = "loaded"]
        /\ context' = [context EXCEPT ![c] = context[c]]
    BY <1>6, Stands DEF Go
  <2> QED
    BY <1>1, <2>3, <2>4, Stands, ReadingStep
<1>7. ASSUME Finds(r), r.op \in {"mint", "revoke", "register", "go"}, Go(c, "loaded"),
             UNCHANGED <<req, context>>
      PROVE  IInv'
  <2>1. r.op = "revoke" => issued[r.arg] = r.user
    BY <1>2, <1>7, NoneIsNothing DEF Carries, Open, IInv, Tables, TokensIssued, Finds
  <2>2. RequestOK(r, "loaded", context[c], born, items, issued)
    BY <1>2, <1>7, <2>1 DEF RequestOK, Typed, At, Trusted, Held, After, OnItem
  <2>3. /\ req' = [req EXCEPT ![c] = r] /\ pc' = [pc EXCEPT ![c] = "loaded"]
        /\ context' = [context EXCEPT ![c] = context[c]]
    BY <1>7, Stands DEF Go, IInv, Handling
  <2> QED
    BY <1>1, <2>2, <2>3, Stands, ReadingStep
<1> QED
  BY <1>3, <1>4, <1>5, <1>6, <1>7 DEF Load, Adds
-----------------------------------------------------------------------------
\* The commits that answer.
LEMMA CommitKept ==
  ASSUME IInv, NEW c \in Client, Finish(c), Tables', TablesGrow, Refreshes'
  PROVE  IInv'
  BY Answered DEF IInv

LEMMA Committed ==
  ASSUME IInv, NEW c \in Client, NEW ops, Committing(c, ops)
  PROVE  /\ pc[c] = "loaded" /\ req[c].op \in ops /\ req[c] \in Request
         /\ Carries(req[c], born) /\ Held(req[c], "loaded", items, issued)
         /\ req[c].op \notin Open => req[c].user \in Email
         /\ req[c].op \in OnItem \cup {"go"} => req[c].item \in Item /\ req[c].item <= born
<1>1. pc[c] = "loaded" /\ req[c].op \in ops
  BY DEF Committing
<1>2. /\ req[c] \in Request /\ Carries(req[c], born)
      /\ Held(req[c], "loaded", items, issued)
      /\ req[c].op \notin Open => req[c].user \in Email
  BY <1>1, Stands DEF RequestOK, Typed, Trusted, After
<1>3. req[c].op \in OnItem \cup {"go"} => req[c].item \in 1..born
  BY <1>2 DEF Carries
<1> QED
  BY <1>1, <1>2, <1>3, IdsAreItems, NumberOfItems DEF IInv, Tables

LEMMA RegisterKept ==
  ASSUME IInv, NEW c \in Client, Register(c) PROVE IInv'
<1>1. Committing(c, {"register"}) /\ Finish(c)
  BY DEF Register
<1>2. req[c].arg \in Email
  BY <1>1, Committed DEF Carries
<1>3. /\ accounts' = [accounts EXCEPT ![req[c].arg] = 1]
      /\ UNCHANGED <<tokens, issued, items, born, alerts, clicks, workers, requests, outages>>
  BY DEF Register, bounds
<1>4. Tables' /\ TablesGrow
  <2>1. accounts' \in [Email -> 0..1]
    BY <1>2, <1>3 DEF IInv, Tables
  <2> QED
    BY <1>3, <2>1, Unmoved DEF IInv, Tables, IdsInOrder, TokensIssued, NoOrphans, Exists
<1>5. Refreshes'
  BY <1>3, Stands, RefreshesKept DEF IInv
<1> QED
  BY <1>1, <1>4, <1>5, CommitKept

LEMMA MintTokenKept ==
  ASSUME IInv, NEW c \in Client, MintToken(c) PROVE IInv'
<1>1. Committing(c, {"mint"}) /\ Finish(c)
  BY DEF MintToken
<1>2. req[c].user \in Email
  BY <1>1, Committed DEF Open
<1>3. PICK t \in Token :
        /\ issued[t] = None
        /\ tokens' = [tokens EXCEPT ![t] = req[c].user]
        /\ issued' = [issued EXCEPT ![t] = req[c].user]
  BY DEF MintToken
<1>4. UNCHANGED <<accounts, items, born, alerts, clicks, workers, requests, outages>>
  BY DEF MintToken, bounds
<1>5. Tables'
  <2>1. /\ tokens' \in [Token -> Email \cup {None}] /\ issued' \in [Token -> Email \cup {None}]
        /\ TokensIssued'
    BY <1>2, <1>3 DEF IInv, Tables, TokensIssued
  <2> QED
    BY <1>4, <2>1 DEF IInv, Tables, IdsInOrder, NoOrphans, Exists
<1>6. TablesGrow
  <2>1. \A u \in Token : issued[u] # None => issued'[u] = issued[u]
    BY <1>3 DEF IInv, Tables
  <2> QED
    BY <1>4, <2>1, NumberOfItems DEF IInv, Tables, TablesGrow
<1>7. Refreshes'
  BY <1>4, Stands, RefreshesKept DEF IInv
<1> QED
  BY <1>1, <1>5, <1>6, <1>7, CommitKept

LEMMA RevokeTokenKept ==
  ASSUME IInv, NEW c \in Client, RevokeToken(c) PROVE IInv'
<1>1. Committing(c, {"revoke"}) /\ Finish(c)
  BY DEF RevokeToken
<1>2. req[c].arg \in Token
  BY <1>1, Committed DEF Carries
<1>3. /\ tokens' = [tokens EXCEPT ![req[c].arg] = None]
      /\ UNCHANGED <<accounts, issued, items, born, alerts, clicks, workers, requests, outages>>
  BY DEF RevokeToken, bounds
<1>4. Tables' /\ TablesGrow
  <2>1. tokens' \in [Token -> Email \cup {None}] /\ TokensIssued'
    BY <1>2, <1>3 DEF IInv, Tables, TokensIssued
  <2> QED
    BY <1>3, <2>1, Unmoved DEF IInv, Tables, IdsInOrder, NoOrphans, Exists
<1>5. Refreshes'
  BY <1>3, Stands, RefreshesKept DEF IInv
<1> QED
  BY <1>1, <1>4, <1>5, CommitKept

LEMMA LogClickKept ==
  ASSUME IInv, NEW c \in Client, LogClick(c) PROVE IInv'
<1>1. Committing(c, {"go"}) /\ Finish(c)
  BY DEF LogClick
<1>2. req[c].item \in Item
  BY <1>1, Committed
<1>3. /\ clicks' = IF Exists(req[c].item) THEN clicks \cup {req[c].item} ELSE clicks
      /\ UNCHANGED <<accounts, tokens, issued, items, born, alerts, workers, requests, outages>>
  BY DEF LogClick, bounds
<1>4. Tables' /\ TablesGrow
  <2>1. clicks' \subseteq Item /\ NoOrphans'
    BY <1>2, <1>3 DEF IInv, Tables, NoOrphans, Exists
  <2> QED
    BY <1>3, <2>1, Unmoved DEF IInv, Tables, IdsInOrder, TokensIssued, Exists
<1>5. Refreshes'
  BY <1>3, Stands, RefreshesKept DEF IInv
<1> QED
  BY <1>1, <1>4, <1>5, CommitKept

LEMMA AlertsKept ==
  ASSUME IInv, NEW c \in Client, AddAlert(c) \/ DropAlert(c) PROVE IInv'
<1>1. Committing(c, {"alert", "unalert"}) /\ Finish(c)
  BY DEF AddAlert, DropAlert, Committing
<1>2. req[c].item \in Item /\ req[c].arg \in BOOLEAN
  BY <1>1, Committed DEF Carries, OnItem
<1>3. UNCHANGED <<accounts, tokens, issued, items, born, clicks, workers, requests, outages>>
  BY DEF AddAlert, DropAlert, bounds
<1> DEFINE new == [item |-> req[c].item, own |-> req[c].arg]
<1>4. alerts' \subseteq Alert /\ NoOrphans'
  <2>1. new \in Alert /\ new.item = req[c].item
    BY <1>2 DEF Alert
  <2>2. \A a \in alerts' : a \in alerts \/ (a = new /\ Exists(req[c].item))
    BY DEF AddAlert, DropAlert
  <2> HIDE DEF new
  <2>3. \A a \in alerts' : a \in Alert /\ Exists(a.item)
    BY <2>1, <2>2 DEF IInv, Tables, NoOrphans, Alert
  <2> QED
    BY <1>3, <2>3 DEF IInv, Tables, NoOrphans, Exists
<1>5. Tables' /\ TablesGrow
  BY <1>3, <1>4, Unmoved DEF IInv, Tables, IdsInOrder, TokensIssued, Exists
<1>6. Refreshes'
  BY <1>3, Stands, RefreshesKept DEF IInv
<1> QED
  BY <1>1, <1>5, <1>6, CommitKept

LEMMA DeleteItemKept ==
  ASSUME IInv, NEW c \in Client, DeleteItem(c) PROVE IInv'
<1> DEFINE i == req[c].item
<1>1. Committing(c, {"delete"}) /\ Finish(c)
  BY DEF DeleteItem
<1>2. i \in Item
  BY <1>1, Committed DEF OnItem
<1>3. /\ items' = [items EXCEPT ![i] = NoRow]
      /\ alerts' = {a \in alerts : a.item # i}
      /\ clicks' = clicks \ {i}
      /\ behind' = behind \ {i} /\ queue' = queue \ {i}
      /\ UNCHANGED <<accounts, tokens, issued, born, brokerUp, requests, outages>>
  BY DEF DeleteItem, bounds
<1>4. /\ items' \in [Item -> Row] /\ items'[i] = NoRow
      /\ \A j \in Item \ {i} : items'[j] = items[j]
  BY <1>2, <1>3, NoRowTyped DEF IInv, Tables
<1>5. Tables'
  <2>1. IdsInOrder'
    BY <1>3, <1>4, NoRowTyped DEF IInv, Tables, IdsInOrder, Exists
  <2>2. NoOrphans'
    BY <1>3, <1>4 DEF IInv, Tables, NoOrphans, Exists
  <2> QED
    BY <1>3, <1>4, <2>1, <2>2 DEF IInv, Tables, TokensIssued
<1>6. TablesGrow
  BY <1>3, <1>4, NoRowTyped, NumberOfItems, IdsAreItems DEF IInv, Tables, TablesGrow
<1>7. Refreshes'
  BY <1>3, <1>4 DEF IInv, Refreshes, Due, Exists
<1> QED
  BY <1>1, <1>5, <1>6, <1>7, CommitKept
-----------------------------------------------------------------------------
\* What a toggle and an edit may set.
LEMMA SetsTyped ==
  ASSUME NEW r \in Request, r.op \in {"toggle", "edit"}, r.op = "edit" => r.arg \in Edits
  PROVE  /\ DOMAIN Sets(r) \subseteq {"active", "target"}
         /\ \A a \in DOMAIN Sets(r) : Sets(r)[a] \in BOOLEAN
<1>1. CASE r.op = "toggle"
  <2>1. r.row.active \in BOOLEAN
    BY DEF Request, Row
  <2>2. PICK b \in BOOLEAN : b = ~r.row.active
    BY <2>1
  <2>3. Sets(r) = [active |-> b]
    BY <1>1, <2>2 DEF Sets
  <2> QED
    BY <2>3
<1>2. CASE r.op = "edit"
  BY <1>2, EditsAssumption DEF Sets
<1> QED
  BY <1>1, <1>2

LEMMA EditItemKept ==
  ASSUME IInv, NEW c \in Client, EditItem(c) PROVE IInv'
<1> DEFINE r   == req[c]
           i   == r.item
           row == Flushed(items[i], r.row, Sets(r))
<1>1. Committing(c, {"toggle", "edit"})
  BY DEF EditItem
<1>2. /\ i \in Item /\ i <= born /\ r \in Request /\ Carries(r, born)
      /\ r.op \in {"toggle", "edit"}
  BY <1>1, Committed DEF OnItem
<1>3. /\ UNCHANGED <<accounts, tokens, issued, born, alerts, clicks, brokerUp>>
      /\ UNCHANGED <<requests, outages>>
  BY DEF EditItem, bounds
<1>4. CASE ~Exists(i)
  <2>1. Finish(c) /\ UNCHANGED <<items, behind, queue>>
    BY <1>4 DEF EditItem
  <2> QED
    BY <1>3, <2>1, Stands, ReadingStep DEF rows, workers
<1>5. CASE Exists(i)
  <2>1. /\ items' = [items EXCEPT ![i] = row]
        /\ behind' = IF ~row.active THEN behind \ {i}
                     ELSE IF items[i].active THEN behind ELSE behind \cup {i}
        /\ queue' = queue \cap behind'
        /\ IF r.op = "toggle" /\ Sets(r).active
           THEN /\ Go(c, "added") /\ UNCHANGED context
                /\ req' = [req EXCEPT ![c].pending = {i}]
           ELSE Finish(c)
    BY <1>5 DEF EditItem
  <2>2. row \in Row /\ row.owner = items[i].owner
    <3>1. items[i] \in Row /\ r.row \in Row
      BY <1>2 DEF IInv, Tables, Request
    <3>2. /\ DOMAIN Sets(r) \subseteq {"active", "target"}
          /\ \A a \in DOMAIN Sets(r) : Sets(r)[a] \in BOOLEAN
      BY <1>2, SetsTyped DEF Carries
    <3> QED
      BY <3>1, <3>2, FlushedTyped
  <2> HIDE DEF row, i, r
  <2>3. /\ items' \in [Item -> Row] /\ items'[i] = row
        /\ \A j \in Item \ {i} : items'[j] = items[j]
        /\ \A j \in Item : items'[j].owner = items[j].owner
    BY <1>2, <2>1, <2>2 DEF IInv, Tables
  <2>4. Tables'
    BY <1>3, <2>3 DEF IInv, Tables, IdsInOrder, TokensIssued, NoOrphans, Exists
  <2>5. TablesGrow
    BY <1>3, <2>3, NumberOfItems, IdsAreItems DEF IInv, Tables, TablesGrow
  <2>6. Refreshes'
    <3>1. behind' \subseteq behind \cup {i} /\ (i \in behind' => row.active)
      BY <1>5, <2>1 DEF IInv, Refreshes, Due
    <3>2. \A j \in behind' : items'[j].owner # None /\ items'[j].active /\ j \in Item
      BY <1>2, <1>5, <2>2, <2>3, <3>1 DEF IInv, Refreshes, Due, Exists
    <3> QED
      BY <1>3, <2>1, <3>2 DEF IInv, Refreshes, Due, Exists
  <2>7. Handling'
    <3>1. CASE Finish(c)
      BY <2>5, <3>1, Answered DEF IInv
    <3>2. CASE /\ Go(c, "added") /\ UNCHANGED context
               /\ req' = [req EXCEPT ![c].pending = {i}]
      <4> DEFINE q == [r EXCEPT !.pending = {i}]
      <4>1. RequestOK(r, "loaded", context[c], born, items, issued)
        BY <1>1, Stands DEF Committing, r
      <4>2. /\ q \in Request /\ q.op = r.op /\ q.token = r.token /\ q.user = r.user
            /\ q.item = r.item /\ q.arg = r.arg /\ q.session = r.session
        BY <1>2 DEF Request
      <4>3. RequestOK(q, "added", context[c], born, items, issued)
        BY <4>1, <4>2 DEF RequestOK, Typed, At, Carries, Trusted, Held, After
      <4>4. RequestOK(q, "added", context[c], born', items', issued')
        BY <2>5, <4>3, RequestKept DEF IInv
      <4>5. /\ req' = [req EXCEPT ![c] = q] /\ pc' = [pc EXCEPT ![c] = "added"]
            /\ context' = [context EXCEPT ![c] = context[c]]
        BY <3>2, Stands DEF Go, r
      <4> HIDE DEF q
      <4> QED
        BY <2>5, <4>4, <4>5, Stands, RequestBecomes DEF IInv
    <3> QED
      BY <2>1, <3>1, <3>2
  <2> QED
    BY <2>4, <2>6, <2>7 DEF IInv
<1> QED
  BY <1>4, <1>5

LEMMA AddItemsKept ==
  ASSUME IInv, NEW c \in Client, AddItems(c) PROVE IInv'
<1> DEFINE r   == req[c]
           n   == Cardinality(r.arg)
           new == (born + 1)..(born + n)
<1>1. Committing(c, Adds)
  BY DEF AddItems, Adds
<1>2. /\ r \in Request /\ Carries(r, born) /\ r.op \in Adds /\ r.user \in Email
      /\ r.arg \subseteq Key /\ n \in Nat
  BY <1>1, Committed, FS_CardinalityType DEF Carries, Adds, Open
<1>3. /\ new \subseteq Item /\ born' = born + n /\ behind' = behind \cup new
      /\ req' = [req EXCEPT ![c].pending = new] /\ Go(c, "added")
      /\ UNCHANGED <<accounts, tokens, issued, alerts, clicks, context, brokerUp, queue>>
      /\ UNCHANGED <<requests, outages>>
  BY DEF AddItems, bounds
<1>4. PICK keyOf \in [new -> r.arg], target \in BOOLEAN :
        items' = [i \in Item |->
          IF i \in new
          THEN [owner |-> r.user, key |-> keyOf[i], linked |-> r.op # "create",
                active |-> TRUE, target |-> target]
          ELSE items[i]]
  BY DEF AddItems
<1>5. born \in Nat /\ born' \in 0..Cardinality(Item)
  <2>1. born \in Nat /\ born <= Cardinality(Item)
    BY NumberOfItems DEF IInv, Tables
  <2>2. n > 0 => born + n \in 1..Cardinality(Item)
    <3>1. n > 0 => born + n \in new
      BY <1>2, <2>1
    <3> HIDE DEF new, n
    <3> QED
      BY <1>3, <3>1, ItemsNumbered
  <2> QED
    BY <1>2, <1>3, <2>1, <2>2, NumberOfItems
<1>6. /\ items' \in [Item -> Row]
      /\ \A i \in new : items'[i].owner = r.user /\ items'[i].active
      /\ \A i \in Item \ new : items'[i] = items[i]
  <2>1. ASSUME NEW i \in new
        PROVE  [owner |-> r.user, key |-> keyOf[i], linked |-> r.op # "create",
                active |-> TRUE, target |-> target] \in Row
    BY <1>2 DEF Row
  <2> HIDE DEF new, r
  <2> QED
    BY <1>3, <1>4, <2>1 DEF IInv, Tables
<1>7. \A i \in Item \ new : i <= born' => i <= born
  BY <1>2, <1>3, <1>5, NumberOfItems
<1>8. \A i \in new : i <= born' /\ ~(i <= born)
  BY <1>2, <1>3, <1>5
<1> HIDE DEF new, n
<1>9. Tables'
  <2>1. IdsInOrder'
    <3> SUFFICES ASSUME NEW i \in Item, Exists(i)' PROVE i <= born'
      BY DEF IdsInOrder
    <3>1. CASE i \in new
      BY <1>8, <3>1
    <3>2. CASE i \notin new
      BY <1>2, <1>3, <1>5, <1>6, <3>2, NumberOfItems
         DEF IInv, Tables, IdsInOrder, Exists
    <3> QED
      BY <3>1, <3>2
  <2>2. NoOrphans'
    BY <1>2, <1>3, <1>6, NoneIsNothing DEF IInv, Tables, NoOrphans, Exists
  <2> QED
    BY <1>3, <1>5, <1>6, <2>1, <2>2 DEF IInv, Tables, TokensIssued
<1>10. TablesGrow
  <2>1. \A i \in 1..born : i \in Item /\ i \notin new
    BY <1>5, <1>8, IdsAreItems DEF IInv
  <2> QED
    BY <1>2, <1>3, <1>5, <1>6, <2>1, NumberOfItems DEF TablesGrow
<1>11. Refreshes'
  <2>1. \A j \in behind' : j \in Item /\ items'[j].owner # None /\ items'[j].active
    <3>1. \A j \in behind : j \in Item /\ items[j].owner # None /\ items[j].active
      BY DEF IInv, Refreshes, Due, Exists
    <3> QED
      BY <1>2, <1>3, <1>6, <3>1, NoneIsNothing
  <2> QED
    BY <1>3, <2>1 DEF IInv, Refreshes, Due, Exists
<1>12. Handling'
  <2> DEFINE q == [r EXCEPT !.pending = new]
  <2>1. RequestOK(r, "loaded", context[c], born, items, issued)
    BY <1>1, Stands DEF Committing
  <2>2. /\ q \in Request /\ q.op = r.op /\ q.token = r.token /\ q.user = r.user
        /\ q.item = r.item /\ q.arg = r.arg /\ q.session = r.session
    BY <1>2, <1>3 DEF Request
  <2>3. RequestOK(q, "added", context[c], born, items, issued)
    BY <2>1, <2>2 DEF RequestOK, Typed, At, Carries, Trusted, Held, After
  <2>4. RequestOK(q, "added", context[c], born', items', issued')
    BY <1>10, <2>3, RequestKept DEF IInv
  <2>5. /\ req' = [req EXCEPT ![c] = q] /\ pc' = [pc EXCEPT ![c] = "added"]
        /\ context' = [context EXCEPT ![c] = context[c]]
    BY <1>3, Stands DEF Go
  <2> HIDE DEF q
  <2> QED
    BY <1>10, <2>4, <2>5, Stands, RequestBecomes DEF IInv
<1> QED
  BY <1>9, <1>11, <1>12 DEF IInv

LEMMA EnqueueKept ==
  ASSUME IInv, NEW c \in Client, Enqueue(c) PROVE IInv'
<1> DEFINE r == req[c]
<1>1. /\ pc[c] = "added" /\ UNCHANGED <<rows, brokerUp, behind, requests, outages>>
      /\ queue' \subseteq behind'
  BY DEF Enqueue, bounds, IInv, Refreshes
<1>2. Tables' /\ TablesGrow
  BY <1>1, TablesKept DEF IInv
<1>3. Refreshes'
  BY <1>1 DEF rows, IInv, Refreshes, Due, Exists
<1>4. CASE r.pending = {}
  BY <1>2, <1>3, <1>4, CommitKept DEF Enqueue
<1>5. CASE r.pending # {}
  <2>1. PICK i \in r.pending : /\ req' = [req EXCEPT ![c].pending = r.pending \ {i}]
                               /\ UNCHANGED <<pc, context>>
    BY <1>5 DEF Enqueue
  <2> DEFINE q == [r EXCEPT !.pending = r.pending \ {i}]
  <2>2. RequestOK(r, "added", context[c], born, items, issued)
    BY <1>1, Stands
  <2>3. /\ q \in Request /\ q.op = r.op /\ q.token = r.token /\ q.user = r.user
        /\ q.item = r.item /\ q.arg = r.arg /\ q.session = r.session
    BY Stands DEF Request
  <2>4. RequestOK(q, "added", context[c], born, items, issued)
    BY <2>2, <2>3 DEF RequestOK, Typed, At, Carries, Trusted, Held, After
  <2>5. RequestOK(q, "added", context[c], born', items', issued')
    BY <1>2, <2>4, RequestKept DEF IInv
  <2>6. /\ req' = [req EXCEPT ![c] = q] /\ pc' = [pc EXCEPT ![c] = "added"]
        /\ context' = [context EXCEPT ![c] = context[c]]
    BY <1>1, <2>1, Stands DEF IInv, Handling
  <2> HIDE DEF q
  <2>7. Handling'
    BY <1>2, <2>5, <2>6, Stands, RequestBecomes DEF IInv
  <2> QED
    BY <1>2, <1>3, <2>7 DEF IInv
<1> QED
  BY <1>4, <1>5

\* Beat, the workers, the broker, and steps that change nothing.
Background ==
  \/ \E i \in Item : Refresh(i)
  \/ Sweep \/ BrokerFails \/ BrokerReturns \/ UNCHANGED vars

LEMMA WorkersKept ==
  ASSUME IInv, Background
  PROVE  IInv'
<1>1. UNCHANGED <<rows, handling>>
  BY DEF Background, Refresh, Sweep, BrokerFails, BrokerReturns, vars
<1>2. Tables'
  BY <1>1, TablesKept DEF IInv
<1>3. Refreshes'
  <2>1. UNCHANGED items
    BY <1>1 DEF rows
  <2>2. behind' \subseteq behind /\ queue' \subseteq behind'
    BY DEF Background, Refresh, Sweep, BrokerFails, BrokerReturns, vars, workers, IInv, Refreshes
  <2>3. brokerUp' \in BOOLEAN /\ requests' = requests /\ outages' \in {outages, outages - 1}
    BY DEF Background, Refresh, Sweep, BrokerFails, BrokerReturns, vars, workers, bounds, IInv, Refreshes
  <2>4. outages' # outages => outages > 0
    BY DEF Background, Refresh, Sweep, BrokerFails, BrokerReturns, vars, bounds
  <2>5. requests' \in 0..Requests /\ outages' \in 0..1
    BY <2>3, <2>4 DEF IInv, Refreshes
  <2> QED
    BY <2>1, <2>2, <2>3, <2>5 DEF IInv, Refreshes, Due, Exists
<1>4. Handling'
  BY <1>1 DEF rows, handling, IInv, Handling
<1> QED
  BY <1>2, <1>3, <1>4 DEF IInv
-----------------------------------------------------------------------------
\* Ids 1 to n are taken to begin with.
LEMMA InitKept == Init => IInv
<1> SUFFICES ASSUME Init PROVE IInv
  OBVIOUS
<1> DEFINE S == {i \in Item : Exists(i)}
<1>1. items = Standing /\ items \in [Item -> Row] /\ born = Cardinality(S)
  BY StandingAssumption DEF Init
<1>2. born \in 0..Cardinality(Item)
  <2>1. IsFiniteSet(Item) /\ S \subseteq Item
    BY ItemsNumbered
  <2>2. IsFiniteSet(S) /\ Cardinality(S) <= Cardinality(Item)
    <3> HIDE DEF S
    <3> QED
      BY <2>1, FS_Subset
  <2>3. Cardinality(S) \in Nat
    BY <2>2, FS_CardinalityType
  <2> QED
    BY <1>1, <2>2, <2>3, NumberOfItems
<1>3. IdsInOrder
  <2> SUFFICES ASSUME NEW i \in Item, Exists(i) PROVE i <= born
    BY DEF IdsInOrder
  <2>1. i \in Nat /\ i \in 1..Cardinality(Item)
    BY ItemsNumbered, NumberOfItems
  <2>2. 1..i \subseteq S
    <3> SUFFICES ASSUME NEW j \in 1..i PROVE j \in Item /\ Exists(j)
      OBVIOUS
    <3>1. j \in Item
      BY <2>1, ItemsNumbered, NumberOfItems
    <3>2. j = i \/ j < i
      BY <2>1
    <3> QED
      BY <1>1, <3>1, <3>2, StandingAssumption DEF Exists
  <2>3. IsFiniteSet(S)
    BY ItemsNumbered, FS_Subset
  <2>4. Cardinality(1..i) = i
    BY <2>1, FS_Interval
  <2>5. Cardinality(1..i) <= Cardinality(S)
    <3> HIDE DEF S
    <3> QED
      BY <2>2, <2>3, FS_Subset
  <2> QED
    BY <1>1, <2>4, <2>5
<1>4. /\ tokens \in [Token -> Email \cup {None}] /\ issued \in [Token -> Email \cup {None}]
      /\ TokensIssued
  BY StandingAssumption DEF Init, TokensIssued
<1>5. /\ alerts \subseteq Alert /\ clicks \subseteq Item /\ accounts \in [Email -> 0..1]
  <2>1. accounts \in [Email -> 0..1]
    <3>1. \A e \in Email : accounts[e] \in {0, 1}
      BY DEF Init
    <3> QED
      BY <3>1 DEF Init
  <2>2. \A i \in Item : [item |-> i, own |-> FALSE] \in Alert
    BY DEF Alert
  <2> QED
    BY <2>1, <2>2 DEF Init
<1>6. NoOrphans
  <2>1. \A i \in Item : items[i].target => Exists(i)
    BY <1>1, StandingAssumption DEF Exists
  <2> QED
    BY <2>1 DEF Init, NoOrphans
<1>7. Refreshes
  BY DemoAssumption DEF Init, Refreshes
<1>8. Handling
  <2>1. RequestOK(Idle, "idle", None, born, items, issued)
    BY IdleTyped, NoneIsNothing
       DEF RequestOK, Typed, At, Carries, Trusted, Held, After, Op, Open, WebOps, Adds,
           OnItem, McpOps
  <2> QED
    BY <2>1, IdleTyped DEF Init, Handling, At
<1> QED
  BY <1>1, <1>2, <1>3, <1>4, <1>5, <1>6, <1>7, <1>8 DEF IInv, Tables

LEMMA Inductive == IInv /\ [Next]_vars => IInv'
<1> SUFFICES ASSUME IInv, [Next]_vars PROVE IInv'
  OBVIOUS
<1>1. ASSUME NEW c \in Client,
             WebRequest(c) \/ OpenRequest(c) \/ McpRequest(c) \/ Handle(c) \/ Abandon(c)
      PROVE  IInv'
  <2>1. CASE WebRequest(c) \/ OpenRequest(c) \/ McpRequest(c) \/ Abandon(c)
    BY <2>1, WebRequestKept, OpenRequestKept, McpRequestKept, AbandonKept
  <2>2. CASE Accept(c) \/ EnterTool(c) \/ Load(c) \/ Enqueue(c)
    BY <2>2, AcceptKept, EnterToolKept, LoadKept, EnqueueKept
  <2>3. CASE AddItems(c) \/ EditItem(c) \/ DeleteItem(c) \/ AddAlert(c) \/ DropAlert(c)
    BY <2>3, AddItemsKept, EditItemKept, DeleteItemKept, AlertsKept
  <2>4. CASE MintToken(c) \/ RevokeToken(c) \/ Register(c) \/ LogClick(c)
    BY <2>4, MintTokenKept, RevokeTokenKept, RegisterKept, LogClickKept
  <2> QED
    BY <1>1, <2>1, <2>2, <2>3, <2>4 DEF Handle
<1>2. CASE Background
  BY <1>2, WorkersKept
<1> QED
  BY <1>1, <1>2 DEF Next, Background

LEMMA Invariance == Spec => []IInv
  BY InitKept, Inductive, PTL DEF Spec

(***************************************************************************)
(* Every reachable state is well typed: a handler acts for an account      *)
(* unless it registers one or follows a mailed link, and what waits for a  *)
(* refresh is an active product.                                           *)
(***************************************************************************)
THEOREM WishlistTypeCorrect == Spec => []TypeOK
<1>1. IInv => TypeOK
  <2> SUFFICES ASSUME IInv PROVE TypeOK
    OBVIOUS
  <2>1. ASSUME NEW c \in Client
        PROVE  /\ (req[c].op = None) = (pc[c] = "idle")
               /\ pc[c] \in {"running", "loaded", "added"} =>
                    (req[c].user = None) = (req[c].op \in {"register", "go"})
               /\ req[c].pending # {} => pc[c] = "added"
    BY Stands DEF RequestOK, Typed, After, Open
  <2> QED
    BY <2>1 DEF IInv, Tables, Refreshes, Handling, TypeOK, At
<1> QED
  BY <1>1, Invariance, PTL

(***************************************************************************)
(* No alert and no click outlives its product, whatever requests look it   *)
(* up before and insert after another one deleted it (the foreign keys of  *)
(* alerts and click_events, and the cascade of delete_item).               *)
(***************************************************************************)
THEOREM RowsHaveProducts == Spec => []NoOrphans
<1>1. IInv => NoOrphans
  BY DEF IInv, Tables
<1> QED
  BY <1>1, Invariance, PTL
-----------------------------------------------------------------------------
\* What an account owns is untouched by changes to what it does not own.
LEMMA OwnedKept ==
  ASSUME NEW e \in Email,
         \A i \in Item : items'[i] = items[i] \/ (items[i].owner # e /\ items'[i].owner # e),
         \A a \in alerts \cup alerts' : a \in alerts \cap alerts' \/ a.item \notin ItemsOf(e),
         \A t \in Token : (tokens'[t] = e) <=> (tokens[t] = e)
  PROVE  Owned(e)' = Owned(e)
<1>1. ItemsOf(e)' = ItemsOf(e) /\ \A i \in ItemsOf(e) : items'[i] = items[i]
  BY DEF ItemsOf
<1>2. [i \in ItemsOf(e) |-> items[i]]' = [i \in ItemsOf(e) |-> items[i]]
  BY <1>1
<1>3. {a \in alerts : a.item \in ItemsOf(e)}' = {a \in alerts : a.item \in ItemsOf(e)}
  BY <1>1
<1>4. {t \in Token : tokens[t] = e}' = {t \in Token : tokens[t] = e}
  OBVIOUS
<1> QED
  BY <1>2, <1>3, <1>4 DEF Owned

\* The rows an account owns change in these commits only.
Commits(c) ==
  \/ AddItems(c) \/ EditItem(c) \/ DeleteItem(c) \/ AddAlert(c) \/ DropAlert(c)
  \/ MintToken(c) \/ RevokeToken(c)

LEMMA OthersStand ==
  ASSUME IInv, [Next]_vars, NEW e \in Email
  PROVE  Owned(e)' = Owned(e) \/ \E c \in Client : Commits(c)
<1>1. CASE \E c \in Client :
             \/ WebRequest(c) \/ OpenRequest(c) \/ McpRequest(c) \/ Abandon(c)
             \/ Accept(c) \/ EnterTool(c) \/ Load(c) \/ Enqueue(c)
             \/ Register(c) \/ LogClick(c)
  <2>1. PICK c \in Client :
             \/ WebRequest(c) \/ OpenRequest(c) \/ McpRequest(c) \/ Abandon(c)
             \/ Accept(c) \/ EnterTool(c) \/ Load(c) \/ Enqueue(c)
             \/ Register(c) \/ LogClick(c)
    BY <1>1
  <2>2. \A r, at : Begin(c, r, at) => UNCHANGED rows
    BY DEF Begin
  <2>3. WebRequest(c) \/ OpenRequest(c) \/ McpRequest(c) => UNCHANGED rows
    BY <2>2 DEF WebRequest, OpenRequest, McpRequest
  <2>4. Abandon(c) \/ Accept(c) \/ EnterTool(c) \/ Load(c) \/ Enqueue(c) => UNCHANGED rows
    BY DEF Abandon, Accept, EnterTool, Load, Enqueue
  <2>5. UNCHANGED <<items, alerts, tokens>>
    BY <2>1, <2>3, <2>4 DEF Register, LogClick, rows
  <2> QED
    BY <2>5, OwnedKept
<1>2. CASE Background
  <2>1. UNCHANGED <<items, alerts, tokens>>
    BY <1>2 DEF Background, Refresh, Sweep, BrokerFails, BrokerReturns, vars, rows
  <2> QED
    BY <2>1, OwnedKept
<1> QED
  BY <1>1, <1>2 DEF Next, Background, Handle, Commits

LEMMA CommitsOfOwner ==
  ASSUME IInv, NEW c \in Client, Commits(c), NEW e \in Email, Principal(c) # e
  PROVE  Owned(e)' = Owned(e)
<1> DEFINE r == req[c]
<1>1. /\ pc[c] = "loaded" /\ r \in Request /\ r.op \notin Open
      /\ Carries(r, born) /\ Held(r, "loaded", items, issued)
  <2>1. Committing(c, WebOps)
    BY DEF Commits, AddItems, EditItem, DeleteItem, AddAlert, DropAlert, MintToken,
           RevokeToken, Committing, WebOps
  <2> QED
    BY <2>1, Committed DEF WebOps, Open
<1>2. r.user \in Email /\ r.user # e
  BY <1>1, Stands DEF RequestOK, Trusted, After, Principal
<1>3. /\ items \in [Item -> Row] /\ tokens \in [Token -> Email \cup {None}] /\ e # None
      /\ \A t \in Token : tokens[t] # None => tokens[t] = issued[t]
      /\ \A i \in Item : items[i].owner # None => i <= born
  BY NoneIsNothing DEF IInv, Tables, TokensIssued, IdsInOrder, Exists
<1>4. CASE AddItems(c)
  <2> DEFINE new == (born + 1)..(born + Cardinality(r.arg))
  <2>1. PICK keyOf \in [new -> r.arg], target \in BOOLEAN :
        items' = [i \in Item |->
          IF i \in new
          THEN [owner |-> r.user, key |-> keyOf[i], linked |-> r.op # "create",
                active |-> TRUE, target |-> target]
          ELSE items[i]]
    BY <1>4 DEF AddItems
  <2>2. \A i \in new : ~(i <= born)
    BY NumberOfItems DEF IInv, Tables
  <2> HIDE DEF new
  <2>3. \A i \in Item : items'[i] = items[i] \/ (items[i].owner # e /\ items'[i].owner # e)
    BY <1>2, <1>3, <2>1, <2>2
  <2>4. UNCHANGED <<alerts, tokens>>
    BY <1>4 DEF AddItems
  <2> QED
    BY <2>3, <2>4, OwnedKept
<1>5. CASE EditItem(c)
  <2>1. UNCHANGED <<alerts, tokens>>
    BY <1>5 DEF EditItem
  <2>2. CASE ~Exists(r.item)
    BY <1>5, <2>1, <2>2, OwnedKept DEF EditItem
  <2>3. CASE Exists(r.item)
    <3> DEFINE i   == r.item
               row == Flushed(items[i], r.row, Sets(r))
    <3>1. Committing(c, {"toggle", "edit"}) /\ items' = [items EXCEPT ![i] = row]
      BY <1>5, <2>3 DEF EditItem
    <3>2. i \in Item /\ r.op \in {"toggle", "edit"}
      BY <3>1, Committed DEF OnItem
    <3>3. items[i].owner = r.user
      BY <1>1, <2>3, <3>2 DEF Held, OnItem, Exists
    <3>4. row.owner = r.user
      <4>1. items[i] \in Row /\ r.row \in Row
        BY <1>1, <1>3, <3>2 DEF Request
      <4>2. /\ DOMAIN Sets(r) \subseteq {"active", "target"}
            /\ \A a \in DOMAIN Sets(r) : Sets(r)[a] \in BOOLEAN
        BY <1>1, <3>2, SetsTyped DEF Carries
      <4> QED
        BY <3>3, <4>1, <4>2, FlushedTyped
    <3> HIDE DEF row, i
    <3>5. \A j \in Item : items'[j] = items[j] \/ (items[j].owner # e /\ items'[j].owner # e)
      BY <1>2, <1>3, <3>1, <3>2, <3>3, <3>4
    <3> QED
      BY <2>1, <3>5, OwnedKept
  <2> QED
    BY <2>2, <2>3
<1>6. CASE DeleteItem(c)
  <2>1. Committing(c, {"delete"})
    BY <1>6 DEF DeleteItem
  <2>2. r.item \in Item /\ items[r.item].owner \in {r.user, None}
    BY <1>1, <2>1, Committed DEF OnItem, Held
  <2>3. /\ items' = [items EXCEPT ![r.item] = NoRow]
        /\ alerts' = {a \in alerts : a.item # r.item} /\ UNCHANGED tokens
    BY <1>6 DEF DeleteItem
  <2>4. \A j \in Item : items'[j] = items[j] \/ (items[j].owner # e /\ items'[j].owner # e)
    BY <1>2, <1>3, <2>2, <2>3, NoRowTyped
  <2>5. r.item \notin ItemsOf(e)
    BY <1>2, <1>3, <2>2 DEF ItemsOf
  <2> QED
    BY <2>3, <2>4, <2>5, OwnedKept
<1>7. CASE AddAlert(c) \/ DropAlert(c)
  <2>1. Committing(c, {"alert", "unalert"}) /\ UNCHANGED <<items, tokens>>
    BY <1>7 DEF AddAlert, DropAlert, Committing
  <2>2. r.item \in Item /\ items[r.item].owner \in {r.user, None}
    BY <1>1, <2>1, Committed DEF OnItem, Held
  <2>3. r.item \notin ItemsOf(e)
    BY <1>2, <1>3, <2>2 DEF ItemsOf
  <2>4. \A a \in alerts \cup alerts' : a \in alerts \cap alerts' \/ a.item = r.item
    BY <1>7 DEF AddAlert, DropAlert
  <2> QED
    BY <2>1, <2>3, <2>4, OwnedKept
<1>8. CASE MintToken(c)
  <2>1. PICK t \in Token : issued[t] = None /\ tokens' = [tokens EXCEPT ![t] = r.user]
    BY <1>8 DEF MintToken
  <2>2. \A u \in Token : (tokens'[u] = e) <=> (tokens[u] = e)
    BY <1>2, <1>3, <2>1
  <2>3. UNCHANGED <<items, alerts>>
    BY <1>8 DEF MintToken
  <2> QED
    BY <2>2, <2>3, OwnedKept
<1>9. CASE RevokeToken(c)
  <2>1. Committing(c, {"revoke"}) /\ tokens' = [tokens EXCEPT ![r.arg] = None]
        /\ UNCHANGED <<items, alerts>>
    BY <1>9 DEF RevokeToken
  <2>2. r.arg \in Token /\ issued[r.arg] = r.user
    BY <1>1, <2>1, Committed DEF Carries, Held
  <2>3. \A u \in Token : (tokens'[u] = e) <=> (tokens[u] = e)
    BY <1>2, <1>3, <2>1, <2>2
  <2> QED
    BY <2>1, <2>3, OwnedKept
<1> QED
  BY <1>4, <1>5, <1>6, <1>7, <1>8, <1>9 DEF Commits

\* A commit is the end of what its request had loaded.
LEMMA CommitsLeave ==
  ASSUME IInv, NEW c \in Client, Commits(c)
  PROVE  pc[c] = "loaded" /\ pc'[c] # "loaded"
<1>1. pc[c] = "loaded"
  BY DEF Commits, AddItems, EditItem, DeleteItem, AddAlert, DropAlert, MintToken,
         RevokeToken, Committing
<1>2. pc' = [pc EXCEPT ![c] = "idle"] \/ pc' = [pc EXCEPT ![c] = "added"]
  BY DEF Commits, AddItems, EditItem, DeleteItem, AddAlert, DropAlert, MintToken,
         RevokeToken, Finish, Go
<1> QED
  BY <1>1, <1>2 DEF IInv, Handling

(***************************************************************************)
(* What an account owns changes only by a commit of a request that came    *)
(* with its own session or API token, for any number of requests whose     *)
(* steps interleave: the middleware's context variable, the tool's thread  *)
(* and a row read before another commit never carry one account's request  *)
(* to another's rows.                                                      *)
(***************************************************************************)
THEOREM OwnersAct == Spec => OwnersOnly
<1>1. IInv /\ [Next]_vars =>
        [\A e \in Email :
           Owned(e)' # Owned(e) =>
             \E c \in Client : Principal(c) = e /\ pc[c] = "loaded" /\ pc'[c] # "loaded"]_vars
  BY OthersStand, CommitsOfOwner, CommitsLeave
<1> QED
  BY <1>1, Invariance, PTL DEF Spec, OwnersOnly
-----------------------------------------------------------------------------
\* A request at work moves by its own steps only.
LEMMA OwnStep ==
  ASSUME IInv, [Next]_vars, NEW c \in Client, <<pc[c], req[c]>>' # <<pc[c], req[c]>>
  PROVE  WebRequest(c) \/ OpenRequest(c) \/ McpRequest(c) \/ Handle(c) \/ Abandon(c)
<1>1. pc \in [Client -> At] /\ req \in [Client -> Request]
  BY DEF IInv, Handling
<1>2. ASSUME NEW d \in Client, d # c,
             WebRequest(d) \/ OpenRequest(d) \/ McpRequest(d) \/ Handle(d) \/ Abandon(d)
      PROVE  FALSE
  <2>1. \A r, at : Begin(d, r, at) => pc'[c] = pc[c] /\ req'[c] = req[c]
    BY <1>1, <1>2 DEF Begin, Go
  <2>2. CASE WebRequest(d) \/ OpenRequest(d) \/ McpRequest(d)
    BY <2>1, <2>2 DEF WebRequest, OpenRequest, McpRequest
  <2>3. Finish(d) => pc'[c] = pc[c] /\ req'[c] = req[c]
    BY <1>1, <1>2 DEF Finish, Go
  <2>4. CASE Abandon(d) \/ Accept(d) \/ EnterTool(d) \/ Enqueue(d)
    BY <1>1, <1>2, <2>3, <2>4 DEF Abandon, Accept, EnterTool, Enqueue, Go
  <2>5. CASE Load(d)
    BY <1>1, <1>2, <2>3, <2>5 DEF Load, Go
  <2>6. CASE AddItems(d) \/ EditItem(d)
    BY <1>1, <1>2, <2>3, <2>6 DEF AddItems, EditItem, Go
  <2>7. CASE DeleteItem(d) \/ AddAlert(d) \/ DropAlert(d) \/ MintToken(d) \/ RevokeToken(d)
             \/ Register(d) \/ LogClick(d)
    BY <2>3, <2>7
       DEF DeleteItem, AddAlert, DropAlert, MintToken, RevokeToken, Register, LogClick
  <2> QED
    BY <1>2, <2>2, <2>4, <2>5, <2>6, <2>7 DEF Handle
<1>3. CASE Background
  BY <1>3 DEF Background, Refresh, Sweep, BrokerFails, BrokerReturns, vars, handling
<1> QED
  BY <1>2, <1>3 DEF Next, Background

-----------------------------------------------------------------------------
(***************************************************************************)
(* The products of one key, and the requests that are about to add one:    *)
(* each request that overlaps the first to add it has found nothing, and   *)
(* may add one more; once there is one, nobody else gets that far.         *)
(***************************************************************************)
Linked(e, k)  == {i \in ItemsOf(e) : items[i].key = k /\ items[i].linked}
Waiting(e, k) == {c \in Client : /\ Committing(c, {"track", "seed"})
                                 /\ req[c].user = e /\ k \in req[c].arg}

Overlapping ==
  \A e \in Email, k \in Key :
    Linked(e, k) # {} =>
      Cardinality(Linked(e, k)) + Cardinality(Waiting(e, k)) <= Cardinality(Client)

LEMMA Finite ==
  ASSUME NEW L \in SUBSET Item, NEW W \in SUBSET Client
  PROVE  /\ IsFiniteSet(L) /\ Cardinality(L) \in Nat
         /\ IsFiniteSet(W) /\ Cardinality(W) \in Nat /\ Cardinality(W) <= Cardinality(Client)
         /\ Cardinality(Client) \in Nat /\ Cardinality(Client) > 0
<1>1. IsFiniteSet(L) /\ IsFiniteSet(W) /\ Cardinality(W) <= Cardinality(Client)
  BY ItemsNumbered, ClientAssumption, FS_Subset
<1>2. Cardinality(Client) # 0
  BY ClientAssumption, FS_EmptySet
<1> QED
  BY <1>1, <1>2, ClientAssumption, FS_CardinalityType

\* Fewer products and fewer requests.
LEMMA FewerOverlap ==
  ASSUME NEW L \in SUBSET Item, NEW W \in SUBSET Client,
         NEW M \in SUBSET L, NEW V \in SUBSET W,
         Cardinality(L) + Cardinality(W) <= Cardinality(Client)
  PROVE  Cardinality(M) + Cardinality(V) <= Cardinality(Client)
<1>1. Cardinality(M) <= Cardinality(L) /\ Cardinality(V) <= Cardinality(W)
  BY Finite, FS_Subset
<1>2. M \in SUBSET Item /\ V \in SUBSET Client
  OBVIOUS
<1>3. /\ Cardinality(L) \in Nat /\ Cardinality(W) \in Nat
      /\ Cardinality(M) \in Nat /\ Cardinality(V) \in Nat /\ Cardinality(Client) \in Nat
  BY <1>2, Finite
<1> QED
  BY <1>1, <1>3

\* One product more, and the request that added it gone.
LEMMA OneMoreOverlaps ==
  ASSUME NEW L \in SUBSET Item, NEW W \in SUBSET Client, NEW i \in Item, NEW c \in W,
         L # {} => Cardinality(L) + Cardinality(W) <= Cardinality(Client),
         NEW V \in SUBSET (W \ {c})
  PROVE  Cardinality(L \cup {i}) + Cardinality(V) <= Cardinality(Client)
<1>1. /\ Cardinality(L) \in Nat /\ Cardinality(W) \in Nat /\ Cardinality(Client) \in Nat
      /\ IsFiniteSet(L) /\ IsFiniteSet(W) /\ Cardinality(W) <= Cardinality(Client)
  BY Finite
<1>2. Cardinality(L \cup {i}) <= Cardinality(L) + 1 /\ Cardinality(L \cup {i}) \in Nat
  <2>1. Cardinality(L \cup {i}) = IF i \in L THEN Cardinality(L) ELSE Cardinality(L) + 1
    BY <1>1, FS_AddElement
  <2> QED
    BY <1>1, <2>1
<1>3. /\ IsFiniteSet(W \ {c}) /\ Cardinality(W \ {c}) = Cardinality(W) - 1
  BY <1>1, FS_RemoveElement
<1>4. Cardinality(V) <= Cardinality(W) - 1 /\ Cardinality(V) \in Nat
  BY <1>3, FS_Subset, FS_CardinalityType
<1>5. L = {} => Cardinality(L) = 0
  BY FS_EmptySet
<1> QED
  BY <1>1, <1>2, <1>4, <1>5

LEMMA InitOverlapping == Init => Overlapping
<1> SUFFICES ASSUME Init, NEW e \in Email, NEW k \in Key, Linked(e, k) # {}
             PROVE  Cardinality(Linked(e, k)) + Cardinality(Waiting(e, k))
                      <= Cardinality(Client)
  BY DEF Overlapping
<1>1. Waiting(e, k) = {}
  BY DEF Init, Waiting, Committing
<1>2. PICK i \in Item : i \in Linked(e, k)
  BY DEF Linked, ItemsOf
<1>3. Linked(e, k) = {i}
  BY <1>2, StandingAssumption DEF Init, Linked, ItemsOf
<1>4. Cardinality({i}) = 1 /\ Cardinality({}) = 0
  BY FS_Singleton, FS_EmptySet
<1>5. Cardinality(Client) \in Nat /\ Cardinality(Client) > 0
  BY Finite
<1> QED
  BY <1>1, <1>3, <1>4, <1>5
\* As many ids as keys, each key given to one of them: to one only.
LEMMA OneIdPerKey ==
  ASSUME NEW D, NEW S, IsFiniteSet(D), IsFiniteSet(S), Cardinality(S) = Cardinality(D),
         NEW f \in [D -> S], \A k \in S : \E i \in D : f[i] = k
  PROVE  \A i, j \in D : f[i] = f[j] => i = j
<1> SUFFICES ASSUME NEW i \in D, NEW j \in D, f[i] = f[j], i # j PROVE FALSE
  OBVIOUS
<1> DEFINE g == [m \in D \ {i} |-> f[m]]
<1>1. /\ IsFiniteSet(D \ {i}) /\ Cardinality(D \ {i}) = Cardinality(D) - 1
      /\ Cardinality(D) \in Nat
  BY FS_RemoveElement, FS_CardinalityType
<1>2. g \in Surjection(D \ {i}, S)
  <2>1. \A k \in S : \E m \in D \ {i} : g[m] = k
    OBVIOUS
  <2> QED
    BY <2>1 DEF Surjection
<1>3. Cardinality(S) <= Cardinality(D \ {i})
  <2> HIDE DEF g
  <2> QED
    BY <1>1, <1>2, FS_Surjection
<1> QED
  BY <1>1, <1>3

\* Nobody starts to add what there is, and whoever adds was waiting to.
LEMMA WaitingKept ==
  ASSUME IInv, [Next]_vars, NEW e \in Email, NEW k \in Key, Linked(e, k) # {}
  PROVE  Waiting(e, k)' \subseteq Waiting(e, k)
<1> SUFFICES ASSUME NEW d \in Waiting(e, k)' PROVE d \in Waiting(e, k)
  OBVIOUS
<1>1. /\ d \in Client /\ pc'[d] = "loaded" /\ req'[d].op \in {"track", "seed"}
      /\ req'[d].user = e /\ k \in req'[d].arg
  BY DEF Waiting, Committing
<1>2. CASE <<pc[d], req[d]>>' = <<pc[d], req[d]>>
  BY <1>1, <1>2 DEF Waiting, Committing
<1>3. CASE <<pc[d], req[d]>>' # <<pc[d], req[d]>>
  <2>1. pc \in [Client -> At] /\ req \in [Client -> Request]
    BY DEF IInv, Handling
  <2>2. WebRequest(d) \/ OpenRequest(d) \/ McpRequest(d) \/ Handle(d) \/ Abandon(d)
    BY <1>1, <1>3, OwnStep
  <2>3. ~Finish(d)
    BY <1>1, <2>1 DEF Finish, Go
  <2>4. \A r : ~Begin(d, r, "running") /\ ~Begin(d, r, "resolving")
    BY <1>1, <2>1 DEF Begin, Go
  <2>5. ~WebRequest(d) /\ ~OpenRequest(d) /\ ~McpRequest(d)
    BY <2>4 DEF WebRequest, OpenRequest, McpRequest
  <2>6. ~Abandon(d) /\ ~Accept(d) /\ ~EnterTool(d) /\ ~Enqueue(d)
    BY <1>1, <2>1, <2>3 DEF Abandon, Accept, EnterTool, Enqueue, Go
  <2>7. ~AddItems(d) /\ ~EditItem(d)
    BY <1>1, <2>1, CommitsLeave DEF Commits
  <2>8. /\ ~DeleteItem(d) /\ ~AddAlert(d) /\ ~DropAlert(d) /\ ~MintToken(d)
        /\ ~RevokeToken(d) /\ ~Register(d) /\ ~LogClick(d)
    BY <2>3 DEF DeleteItem, AddAlert, DropAlert, MintToken, RevokeToken, Register, LogClick
  <2>9. Load(d)
    BY <2>2, <2>5, <2>6, <2>7, <2>8 DEF Handle
  <2>10. /\ req' = [req EXCEPT ![d].arg = req[d].arg \ Known(req[d].op, req[d].user)]
         /\ req[d].op \in {"create", "track", "seed"}
    <3>1. req'[d].op = req[d].op
      BY <2>1, <2>3, <2>9 DEF Load, Request
    <3> QED
      BY <1>1, <2>1, <2>3, <2>9, <3>1 DEF Load, OnItem
  <2>11. /\ req'[d].op = req[d].op /\ req'[d].user = req[d].user
         /\ req'[d].arg = req[d].arg \ Known(req[d].op, req[d].user)
    <3>1. \A r \in Request : \A x :
            /\ [r EXCEPT !.arg = x].op = r.op /\ [r EXCEPT !.arg = x].user = r.user
            /\ [r EXCEPT !.arg = x].arg = x
      BY DEF Request
    <3>2. /\ req[d] \in Request
          /\ req'[d] = [req[d] EXCEPT !.arg = req[d].arg \ Known(req[d].op, req[d].user)]
      BY <1>1, <2>1, <2>10
    <3> QED
      BY <3>1, <3>2
  <2>12. k \in Known(req[d].op, req[d].user)
    BY <1>1, <2>11 DEF Known, Linked
  <2> QED
    BY <1>1, <2>11, <2>12
<1> QED
  BY <1>2, <1>3

\* A product of the key only comes from a request that was waiting to add it.
LEMMA LinkedKept ==
  ASSUME IInv, [Next]_vars, NEW e \in Email, NEW k \in Key,
         \A c \in Waiting(e, k) : ~AddItems(c)
  PROVE  Linked(e, k)' \subseteq Linked(e, k)
<1>1. items \in [Item -> Row]
  BY DEF IInv, Tables
<1>2. CASE UNCHANGED items
  BY <1>2 DEF Linked, ItemsOf
<1>3. ASSUME NEW c \in Client, AddItems(c)
      PROVE  Linked(e, k)' \subseteq Linked(e, k)
  <2> DEFINE r   == req[c]
             new == (born + 1)..(born + Cardinality(r.arg))
  <2>1. PICK keyOf \in [new -> r.arg], target \in BOOLEAN :
        items' = [i \in Item |->
          IF i \in new
          THEN [owner |-> r.user, key |-> keyOf[i], linked |-> r.op # "create",
                active |-> TRUE, target |-> target]
          ELSE items[i]]
    BY ZenonT(30), <1>3 DEF AddItems
  <2>2. Committing(c, Adds)
    BY <1>3 DEF AddItems, Adds
  <2>3. r.op = "create" \/ r.user # e \/ k \notin r.arg
    BY <1>3, <2>2 DEF Waiting, Committing, Adds
  <2> HIDE DEF new, r
  <2>4. ASSUME NEW i \in Item, i \in new
        PROVE  ~(items'[i].owner = e /\ items'[i].key = k /\ items'[i].linked)
    BY <2>1, <2>3, <2>4
  <2> QED
    BY <2>1, <2>4 DEF Linked, ItemsOf
<1>4. ASSUME NEW c \in Client, EditItem(c)
      PROVE  Linked(e, k)' \subseteq Linked(e, k)
  <2> DEFINE r   == req[c]
             i   == r.item
             row == Flushed(items[i], r.row, Sets(r))
  <2>1. Committing(c, {"toggle", "edit"})
    BY <1>4 DEF EditItem
  <2>2. r \in Request /\ r.op \in {"toggle", "edit"} /\ i \in Item /\ Carries(r, born)
    BY <2>1, Committed DEF OnItem
  <2>3. CASE ~Exists(i)
    BY <1>2, <1>4, <2>3 DEF EditItem
  <2>4. CASE Exists(i)
    <3>1. items' = [items EXCEPT ![i] = row]
      BY <1>4, <2>4 DEF EditItem
    <3>2. row.owner = items[i].owner /\ row.key = items[i].key /\ row.linked = items[i].linked
      <4>1. items[i] \in Row /\ r.row \in Row
        BY <1>1, <2>2 DEF Request
      <4>2. /\ DOMAIN Sets(r) \subseteq {"active", "target"}
            /\ \A b \in DOMAIN Sets(r) : Sets(r)[b] \in BOOLEAN
        BY <2>2, SetsTyped DEF Carries
      <4> QED
        BY <4>1, <4>2, FlushedTyped
    <3> HIDE DEF row, i
    <3>3. \A j \in Item : /\ items'[j].owner = items[j].owner /\ items'[j].key = items[j].key
                          /\ items'[j].linked = items[j].linked
      BY <1>1, <2>2, <3>1, <3>2
    <3> QED
      BY <3>3 DEF Linked, ItemsOf
  <2> QED
    BY <2>3, <2>4
<1>5. ASSUME NEW c \in Client, DeleteItem(c)
      PROVE  Linked(e, k)' \subseteq Linked(e, k)
  <2>1. items' = [items EXCEPT ![req[c].item] = NoRow]
    BY <1>5 DEF DeleteItem
  <2>2. \A j \in Item : items'[j] = items[j] \/ items'[j] = NoRow
    BY <1>1, <2>1
  <2>3. NoRow.owner # e
    BY NoRowTyped, NoneIsNothing
  <2> QED
    BY <2>2, <2>3 DEF Linked, ItemsOf
<1>6. CASE \E c \in Client :
             \/ WebRequest(c) \/ OpenRequest(c) \/ McpRequest(c) \/ Abandon(c)
             \/ Accept(c) \/ EnterTool(c) \/ Load(c) \/ Enqueue(c)
  <2>1. PICK c \in Client :
             \/ WebRequest(c) \/ OpenRequest(c) \/ McpRequest(c) \/ Abandon(c)
             \/ Accept(c) \/ EnterTool(c) \/ Load(c) \/ Enqueue(c)
    BY <1>6
  <2>2. \A r, at : Begin(c, r, at) => UNCHANGED rows
    BY DEF Begin
  <2>3. WebRequest(c) \/ OpenRequest(c) \/ McpRequest(c) => UNCHANGED rows
    BY <2>2 DEF WebRequest, OpenRequest, McpRequest
  <2>4. Abandon(c) \/ Accept(c) \/ EnterTool(c) \/ Load(c) \/ Enqueue(c) => UNCHANGED rows
    BY DEF Abandon, Accept, EnterTool, Load, Enqueue
  <2> QED
    BY <1>2, <2>1, <2>3, <2>4 DEF rows
<1>7. CASE \E c \in Client :
             \/ AddAlert(c) \/ DropAlert(c) \/ MintToken(c) \/ RevokeToken(c)
             \/ Register(c) \/ LogClick(c)
  BY <1>2, <1>7 DEF AddAlert, DropAlert, MintToken, RevokeToken, Register, LogClick
<1>8. CASE Background
  BY <1>2, <1>8 DEF Background, Refresh, Sweep, BrokerFails, BrokerReturns, vars, rows
<1> QED
  BY <1>3, <1>4, <1>5, <1>6, <1>7, <1>8 DEF Next, Background, Handle
\* The commit of a request that was waiting: one product of the key.
LEMMA AddingKept ==
  ASSUME IInv, NEW e \in Email, NEW k \in Key, NEW c \in Waiting(e, k), AddItems(c)
  PROVE  \E i \in Item : Linked(e, k)' \subseteq Linked(e, k) \cup {i}
<1> DEFINE r   == req[c]
           n   == Cardinality(r.arg)
           new == (born + 1)..(born + n)
<1>1. PICK keyOf \in [new -> r.arg], target \in BOOLEAN :
        /\ \A q \in r.arg : \E i \in new : keyOf[i] = q
        /\ items' = [i \in Item |->
             IF i \in new
             THEN [owner |-> r.user, key |-> keyOf[i], linked |-> r.op # "create",
                   active |-> TRUE, target |-> target]
             ELSE items[i]]
  BY DEF AddItems
<1>2. c \in Client /\ k \in r.arg /\ Committing(c, {"track", "seed"}) /\ new \subseteq Item
  BY DEF Waiting, AddItems
<1>3. IsFiniteSet(r.arg) /\ n \in Nat /\ born \in Nat
  BY <1>2, Committed, FS_CardinalityType DEF Carries, Adds, IInv, Tables
<1>4. PICK i \in new : keyOf[i] = k
  BY <1>1, <1>2
<1>5. \A j \in new : keyOf[j] = k => j = i
  <2>1. IsFiniteSet(new) /\ Cardinality(new) = n
    <3>1. \A a, b \in Nat : /\ IsFiniteSet((a + 1)..(a + b))
                           /\ Cardinality((a + 1)..(a + b)) = b
      BY FS_Interval
    <3> QED
      BY <1>3, <3>1
  <2> HIDE DEF new, r
  <2>2. \A h, j \in new : keyOf[h] = keyOf[j] => h = j
    BY <1>1, <1>3, <2>1, OneIdPerKey
  <2> QED
    BY <1>4, <2>2
<1> HIDE DEF new, r, n
<1>6. \A j \in Item : j \in new /\ j # i => items'[j].key # k
  BY <1>1, <1>5
<1>7. \A j \in Item : j \notin new => items'[j] = items[j]
  BY <1>1
<1>8. Linked(e, k)' \subseteq Linked(e, k) \cup {i}
  BY <1>6, <1>7 DEF Linked, ItemsOf
<1> QED
  BY <1>2, <1>4, <1>8

LEMMA OverlapKept == IInv /\ Overlapping /\ [Next]_vars => Overlapping'
<1> SUFFICES ASSUME IInv, Overlapping, [Next]_vars, NEW e \in Email, NEW k \in Key,
                    Linked(e, k)' # {}
             PROVE  Cardinality(Linked(e, k)') + Cardinality(Waiting(e, k)')
                      <= Cardinality(Client)
  BY DEF Overlapping
<1> DEFINE L == Linked(e, k)
           M == Linked(e, k)'
           W == Waiting(e, k)
           V == Waiting(e, k)'
<1>1. /\ L \in SUBSET Item /\ M \in SUBSET Item /\ W \in SUBSET Client /\ V \in SUBSET Client
      /\ L # {} => Cardinality(L) + Cardinality(W) <= Cardinality(Client)
  BY DEF Linked, Waiting, ItemsOf, Overlapping
<1>2. CASE \A c \in W : ~AddItems(c)
  <2>1. M \subseteq L
    BY <1>2, LinkedKept
  <2>2. L # {}
    BY <2>1
  <2>3. V \subseteq W
    BY <2>2, WaitingKept
  <2> HIDE DEF L, M, W, V
  <2>4. Cardinality(M) + Cardinality(V) <= Cardinality(Client)
    BY <1>1, <2>1, <2>2, <2>3, FewerOverlap
  <2> QED
    BY <2>4 DEF M, V
<1>3. ASSUME NEW c \in W, AddItems(c)
      PROVE  Cardinality(M) + Cardinality(V) <= Cardinality(Client)
  <2>1. PICK i \in Item : M \subseteq L \cup {i}
    BY <1>3, AddingKept
  <2>2. V \subseteq W \ {c}
    <3>1. pc'[c] # "loaded" /\ c \in Client
      BY <1>1, <1>3, CommitsLeave DEF Commits
    <3>2. \A d \in Client \ {c} : pc'[d] = pc[d] /\ req'[d] = req[d]
      BY <1>3 DEF AddItems, Go, IInv, Handling
    <3> QED
      BY <3>1, <3>2 DEF Waiting, Committing
  <2> HIDE DEF L, M, W, V
  <2>3. Cardinality(L \cup {i}) + Cardinality(V) <= Cardinality(Client)
    BY <1>1, <2>2, OneMoreOverlaps
  <2>4. /\ L \cup {i} \in SUBSET Item /\ V \in SUBSET V /\ M \in SUBSET (L \cup {i})
    BY <1>1, <2>1
  <2> QED
    BY <1>1, <2>3, <2>4, FewerOverlap
<1> QED
  BY <1>2, <1>3

(***************************************************************************)
(* Tracking a link or a search again adds nothing, except by overlapping:  *)
(* an account never has more products of one key than requests can be at   *)
(* work at once (track_by_url, seed_demo and marketplace_track look before *)
(* they add, and nothing in the schema keeps two from looking at once).    *)
(***************************************************************************)
THEOREM DuplicatesOverlap == Spec => []TracksOnce
<1>1. IInv /\ Overlapping => TracksOnce
  <2> SUFFICES ASSUME IInv, Overlapping, NEW e \in Email, NEW k \in Key
               PROVE  Cardinality(Linked(e, k)) <= Cardinality(Client)
    BY DEF TracksOnce, Linked
  <2> DEFINE L == Linked(e, k)
             W == Waiting(e, k)
  <2>1. L \in SUBSET Item /\ W \in SUBSET Client
    BY DEF Linked, Waiting, ItemsOf
  <2>2. L # {} => Cardinality(L) + Cardinality(W) <= Cardinality(Client)
    BY DEF Overlapping
  <2> HIDE DEF L, W
  <2>3. /\ Cardinality(L) \in Nat /\ Cardinality(W) \in Nat /\ Cardinality(Client) \in Nat
    BY <2>1, Finite
  <2>4. L = {} => Cardinality(L) = 0
    BY FS_EmptySet
  <2>5. Cardinality(L) <= Cardinality(Client)
    BY <2>2, <2>3, <2>4
  <2> QED
    BY <2>5 DEF L
<1> QED
  BY <1>1, InitKept, Inductive, InitOverlapping, OverlapKept, PTL DEF Spec
=============================================================================
