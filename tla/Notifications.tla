---------------------------- MODULE Notifications ----------------------------
(***************************************************************************)
(* The notify task of one tracked product: it consumes the price_dropped   *)
(* events that fetch_offer publishes, evaluates the product's alert rules  *)
(* and mails the user, with a debounce stamp per alert.  Workers run it    *)
(* concurrently; the user edits alerts and target meanwhile.               *)
(*                                                                         *)
(* Money is in cents and percentages in hundredths, as NUMERIC(12,2) keeps *)
(* them.  Prices and the best deal are moved by the price pipeline.        *)
(***************************************************************************)
EXTENDS Naturals, Sequences

CONSTANTS
  Price,            \* prices, in cents
  None,             \* SQL NULL / Python None
  Targets,          \* target prices the user sets
  Deals,            \* best deals the offers come to
  Alert,            \* alert rows that can be created
  RuleOf,           \* [Alert -> Rule]
  Event,            \* price_dropped events
  DropOf,           \* [Event -> Drop]: an event's payload
  Worker,           \* Celery worker processes
  Cooldown,         \* alert_debounce_seconds
  MaxTime,          \* bound: the clock stops there
  MaxRetries,       \* notify's max_retries
  OutOfRetries,     \* what self.retry(exc=e) does then: "raise" e, or "park"
  Faults            \* the kinds of failure a behaviour may contain

(***************************************************************************)
(* "smtp"     sending raises, and the mail was not delivered               *)
(* "reply"    sending raises, although the mail was delivered              *)
(* "database" a transaction of a worker fails                              *)
(* "redis"    the message of a retry cannot be published                   *)
(* "crash"    a worker process dies                                        *)
(***************************************************************************)
FaultKind == {"smtp", "reply", "database", "redis", "crash"}

Rule == [rule : {"below_target"}, threshold : Nat \cup {None}]
          \cup [rule : {"pct_drop"}, threshold : Nat]
Drop == [new : Price, previous : Price]
Time == 0..MaxTime

ASSUME PriceAssumption   == Price \subseteq Nat
ASSUME NoneAssumption    == None \notin Nat
ASSUME ChoiceAssumption  == Targets \cup Deals \subseteq Price \cup {None}
ASSUME RuleAssumption    == RuleOf \in [Alert -> Rule]
ASSUME DropAssumption    == DropOf \in [Event -> Drop]
ASSUME NumbersAssumption ==
  Cooldown \in Nat /\ MaxTime \in Nat /\ MaxRetries \in Nat
ASSUME FaultsAssumption  == Faults \subseteq FaultKind
ASSUME RetryAssumption   ==
  OutOfRetries \subseteq {"raise", "park"} /\ OutOfRetries # {}

VARIABLES
  now,        \* the clock
  tracked,    \* the tracked_products row exists
  target,     \* its target_price
  best,       \* the price of its best deal, as the offers have it
  alerts,     \* [Alert -> AlertState]
  created,    \* [Alert -> Time]: created_at
  lastFired,  \* [Alert -> Time or None]: last_fired_at
  published,  \* events published so far
  queue,      \* notify messages waiting
  result,     \* [Event -> Result]: how the event's last task ended
  mails,      \* [Alert -> Seq(Time)]: the firing times of delivered mails
  task        \* [Worker -> Task]

rows == <<tracked, target, best, alerts, created>>
vars == <<now, rows, lastFired, published, queue, result, mails, task>>

-----------------------------------------------------------------------------
AlertState == {"unused", "active", "deleted"}
Message    == [event : Event, retries : 0..MaxRetries]
Result     == [state : {"none", "success", "parked", "failed"}, at : Time]

Control == {"idle", "load", "select", "loop", "stamp", "retry", "deadLetter"}

Task ==
  [at      : Control,
   event   : Event \cup {None},
   retries : 0..MaxRetries,
   now     : Time,                       \* fire_alerts' now
   target  : Price \cup {None},          \* attributes loaded with the
   best    : Price \cup {None},          \* product, its offers
   known   : SUBSET Alert,               \* and its alerts
   stamps  : [Alert -> Time \cup {None}],
   due     : SUBSET Alert,               \* alerts still to mail
   alert   : Alert \cup {None}]          \* the alert being mailed

NoTask == [at |-> "idle", event |-> None, retries |-> 0, now |-> 0,
           target |-> None, best |-> None, known |-> {},
           stamps |-> [a \in Alert |-> None], due |-> {}, alert |-> None]

TypeOK ==
  /\ now \in Time
  /\ tracked \in BOOLEAN
  /\ target \in Price \cup {None}
  /\ best \in Price \cup {None}
  /\ alerts \in [Alert -> AlertState]
  /\ created \in [Alert -> Time]
  /\ lastFired \in [Alert -> Time \cup {None}]
  /\ published \in SUBSET Event
  /\ queue \in SUBSET Message
  /\ result \in [Event -> Result]
  /\ mails \in [Alert -> Seq(Time)]
  /\ task \in [Worker -> Task]

Active == {a \in Alert : alerts[a] = "active"}

Init ==
  /\ now = 0
  /\ tracked = TRUE
  /\ target \in Targets
  /\ best \in Deals
  /\ alerts \in [Alert -> {"unused", "active"}]
  /\ created = [a \in Alert |-> 0]
  /\ lastFired = [a \in Alert |-> None]
  /\ published = {}
  /\ queue = {}
  /\ result = [e \in Event |-> [state |-> "none", at |-> 0]]
  /\ mails = [a \in Alert |-> <<>>]
  /\ task = [w \in Worker |-> NoTask]

-----------------------------------------------------------------------------
(* The rules engine.                                                       *)

\* alert_threshold_met; the percentage is compared without dividing.
ThresholdMet(rule, drop, bestPrice, targetPrice) ==
  LET limit == IF rule.threshold # None THEN rule.threshold ELSE targetPrice IN
  \/ /\ rule.rule = "below_target"
     /\ limit # None
     /\ bestPrice # None
     /\ bestPrice <= limit
  \/ /\ rule.rule = "pct_drop"
     /\ drop.previous > 0
     /\ drop.new <= drop.previous
     /\ (drop.previous - drop.new) * 10000 >= rule.threshold * drop.previous

\* is_debounced.
IsDebounced(last, t) == last # None /\ t < last + Cooldown

-----------------------------------------------------------------------------
(* The notify task.                                                        *)

Conclude(w, state, t) ==
  /\ task' = [task EXCEPT ![w] = NoTask]
  /\ result' = [result EXCEPT ![task[w].event] = [state |-> state, at |-> t]]

Goto(w, from, to) ==
  /\ task[w].at = from
  /\ task' = [task EXCEPT ![w].at = to]

\* A worker takes a message; acknowledged before the task body runs.
StartNotify(w, m) ==
  /\ task[w].at = "idle"
  /\ m \in queue
  /\ queue' = queue \ {m}
  /\ task' = [task EXCEPT ![w] = [NoTask EXCEPT !.at = "load",
                                    !.event = m.event, !.retries = m.retries]]
  /\ UNCHANGED <<now, rows, lastFired, published, result, mails>>

\* now is taken, and the product loaded with its offers and alerts.
LoadProduct(w) ==
  /\ task[w].at = "load"
  /\ IF tracked
     THEN /\ task' = [task EXCEPT ![w] = [@ EXCEPT
                        !.at = "select", !.now = now, !.target = target,
                        !.best = best, !.known = Active, !.stamps = lastFired]]
          /\ UNCHANGED result
     ELSE Conclude(w, "success", now)
  /\ UNCHANGED <<now, rows, lastFired, published, queue, mails>>

\* The select decides which alerts there are; those loaded with the product
\* keep the stamps they were loaded with.
SelectAlerts(w) ==
  LET t == task[w]
      stamp(a) == IF a \in t.known THEN t.stamps[a] ELSE lastFired[a]
      due == {a \in Active :
                /\ ThresholdMet(RuleOf[a], DropOf[t.event], t.best, t.target)
                /\ ~IsDebounced(stamp(a), t.now)}
  IN
  /\ t.at = "select"
  /\ task' = [task EXCEPT ![w].at = "loop", ![w].due = due]
  /\ UNCHANGED <<now, rows, lastFired, published, queue, result, mails>>

SendMail(w, a) ==
  /\ task[w].at = "loop"
  /\ a \in task[w].due
  /\ mails' = [mails EXCEPT ![a] = Append(@, task[w].now)]
  /\ task' = [task EXCEPT ![w].at = "stamp", ![w].alert = a]
  /\ UNCHANGED <<now, rows, lastFired, published, queue, result>>

\* Mutants: the stamp is set although sending failed; the failure is
\* swallowed and the loop goes on.
SendFailsStamped(w, a) ==
  /\ "smtp" \in Faults
  /\ a \in task[w].due
  /\ Goto(w, "loop", "retry")
  /\ lastFired' = [lastFired EXCEPT ![a] = task[w].now]
  /\ UNCHANGED <<now, rows, published, queue, result, mails>>

SendFailsSilently(w, a) ==
  /\ "smtp" \in Faults
  /\ a \in task[w].due
  /\ task[w].at = "loop"
  /\ task' = [task EXCEPT ![w].due = @ \ {a}]
  /\ UNCHANGED <<now, rows, lastFired, published, queue, result, mails>>

\* send() raises, before or after the mail was accepted.
SendFails(w, a) ==
  /\ a \in task[w].due
  /\ Goto(w, "loop", "retry")
  /\ \/ "smtp" \in Faults /\ UNCHANGED mails
     \/ "reply" \in Faults /\ mails' = [mails EXCEPT ![a] = Append(@, task[w].now)]
  /\ UNCHANGED <<now, rows, lastFired, published, queue, result>>

\* Mutant: the commit is left to the last mail, and a failure before it rolls
\* the stamp back.
StampAlertLast(w) ==
  LET a == task[w].alert IN
  /\ task[w].at = "stamp"
  /\ IF a \in Active
     THEN /\ lastFired' = IF task[w].due = {a}
                          THEN [lastFired EXCEPT ![a] = task[w].now]
                          ELSE lastFired
          /\ task' = [task EXCEPT ![w].at = "loop", ![w].due = @ \ {a}]
     ELSE /\ task' = [task EXCEPT ![w].at = "retry"]
          /\ UNCHANGED lastFired
  /\ UNCHANGED <<now, rows, published, queue, result, mails>>

\* alert.last_fired_at = now; commit.  A row deleted meanwhile fails it.
StampAlert(w) ==
  LET a == task[w].alert IN
  /\ task[w].at = "stamp"
  /\ IF a \in Active
     THEN /\ lastFired' = [lastFired EXCEPT ![a] = task[w].now]
          /\ task' = [task EXCEPT ![w].at = "loop", ![w].due = @ \ {a}]
     ELSE /\ task' = [task EXCEPT ![w].at = "retry"]
          /\ UNCHANGED lastFired
  /\ UNCHANGED <<now, rows, published, queue, result, mails>>

FinishNotify(w) ==
  /\ task[w].at = "loop"
  /\ task[w].due = {}
  /\ Conclude(w, "success", task[w].now)
  /\ UNCHANGED <<now, rows, lastFired, published, queue, mails>>

\* Mutants: the retry does not count as one; one retry too many.
RetryForever(w) ==
  LET t == task[w] IN
  /\ t.at = "retry"
  /\ queue' = queue \cup {[event |-> t.event, retries |-> t.retries]}
  /\ task' = [task EXCEPT ![w] = NoTask]
  /\ UNCHANGED <<now, rows, lastFired, published, result, mails>>

RetryOnceMore(w) ==
  LET t == task[w] IN
  /\ t.at = "retry"
  /\ IF t.retries <= MaxRetries
     THEN /\ queue' = queue \cup {[event |-> t.event,
                                   retries |-> t.retries + 1]}
          /\ task' = [task EXCEPT ![w] = NoTask]
     ELSE /\ task' = [task EXCEPT ![w].at = "deadLetter"]
          /\ UNCHANGED queue
  /\ UNCHANGED <<now, rows, lastFired, published, result, mails>>

\* except Exception: rollback, then retry with backoff while retries last.
RetryOrGiveUp(w) ==
  LET t == task[w] IN
  /\ t.at = "retry"
  /\ \/ /\ t.retries < MaxRetries
        /\ queue' = queue \cup {[event |-> t.event, retries |-> t.retries + 1]}
        /\ task' = [task EXCEPT ![w] = NoTask]
        /\ UNCHANGED result
     \/ /\ t.retries = MaxRetries
        /\ "raise" \in OutOfRetries
        /\ Conclude(w, "failed", now)
        /\ UNCHANGED queue
     \/ /\ t.retries = MaxRetries
        /\ "park" \in OutOfRetries
        /\ task' = [task EXCEPT ![w].at = "deadLetter"]
        /\ UNCHANGED <<queue, result>>
  /\ UNCHANGED <<now, rows, lastFired, published, mails>>

\* _dead_letter: the offer the row points to must exist (foreign key).
ParkNotification(w) ==
  /\ task[w].at = "deadLetter"
  /\ Conclude(w, IF tracked THEN "parked" ELSE "failed", now)
  /\ UNCHANGED <<now, rows, lastFired, published, queue, mails>>

DatabaseFault(w) ==
  /\ "database" \in Faults
  /\ \/ /\ \/ Goto(w, "load", "retry")
           \/ Goto(w, "select", "retry")
           \/ Goto(w, "stamp", "retry")
        /\ UNCHANGED result
     \/ task[w].at = "deadLetter" /\ Conclude(w, "failed", now)
  /\ UNCHANGED <<now, rows, lastFired, published, queue, mails>>

\* self.retry cannot publish: Celery rejects the message, which is lost.
RedisFault(w) ==
  /\ "redis" \in Faults
  /\ task[w].at = "retry"
  /\ task[w].retries < MaxRetries
  /\ task' = [task EXCEPT ![w] = NoTask]
  /\ UNCHANGED <<now, rows, lastFired, published, queue, result, mails>>

Crash(w) ==
  /\ "crash" \in Faults
  /\ task[w].at # "idle"
  /\ task' = [task EXCEPT ![w] = NoTask]
  /\ UNCHANGED <<now, rows, lastFired, published, queue, result, mails>>

-----------------------------------------------------------------------------
(* The price pipeline, the user and the clock.                             *)

\* fetch_offer's notify.delay(...).
PublishDrop(e) ==
  /\ e \notin published
  /\ published' = published \cup {e}
  /\ queue' = queue \cup {[event |-> e, retries |-> 0]}
  /\ UNCHANGED <<now, rows, lastFired, result, mails, task>>

PriceMoves(p) ==
  /\ tracked
  /\ p # best
  /\ best' = p
  /\ UNCHANGED <<now, tracked, target, alerts, created, lastFired, published,
                 queue, result, mails, task>>

SetTarget(p) ==
  /\ tracked
  /\ p # target
  /\ target' = p
  /\ UNCHANGED <<now, tracked, best, alerts, created, lastFired, published,
                 queue, result, mails, task>>

\* A below_target rule needs a threshold, or a target to fall back to.
CreateAlert(a) ==
  /\ tracked
  /\ alerts[a] = "unused"
  /\ RuleOf[a].threshold # None \/ target # None
  /\ alerts' = [alerts EXCEPT ![a] = "active"]
  /\ created' = [created EXCEPT ![a] = now]
  /\ UNCHANGED <<now, tracked, target, best, lastFired, published, queue,
                 result, mails, task>>

DeleteAlert(a) ==
  /\ alerts[a] = "active"
  /\ alerts' = [alerts EXCEPT ![a] = "deleted"]
  /\ UNCHANGED <<now, tracked, target, best, created, lastFired, published,
                 queue, result, mails, task>>

\* The product goes, and its alerts with it.
DeleteItem ==
  /\ tracked
  /\ tracked' = FALSE
  /\ alerts' = [a \in Alert |-> IF a \in Active THEN "deleted" ELSE alerts[a]]
  /\ target' = None
  /\ best' = None
  /\ UNCHANGED <<now, created, lastFired, published, queue, result, mails, task>>

Tick ==
  /\ now < MaxTime
  /\ now' = now + 1
  /\ UNCHANGED <<rows, lastFired, published, queue, result, mails, task>>

-----------------------------------------------------------------------------
NotifyStep(w) ==
  \/ LoadProduct(w)
  \/ SelectAlerts(w)
  \/ \E a \in Alert : SendMail(w, a) \/ SendFails(w, a)
  \/ StampAlert(w)
  \/ FinishNotify(w)
  \/ RetryOrGiveUp(w)
  \/ ParkNotification(w)

TakeMessage(w) == \E m \in Message : StartNotify(w, m)

Others ==
  \/ \E e \in Event : PublishDrop(e)
  \/ \E p \in Deals : PriceMoves(p)
  \/ \E p \in Targets : SetTarget(p)
  \/ \E a \in Alert : CreateAlert(a) \/ DeleteAlert(a)
  \/ DeleteItem
  \/ Tick

Next ==
  \/ \E w \in Worker : \/ TakeMessage(w) \/ NotifyStep(w)
                       \/ DatabaseFault(w) \/ RedisFault(w) \/ Crash(w)
  \/ Others

Spec == Init /\ [][Next]_vars

\* A worker keeps running its task and taking messages: SMTP and database
\* calls have timeouts.  Users, prices and the clock owe nothing.
FairSpec ==
  Spec /\ \A w \in Worker : WF_vars(TakeMessage(w) \/ NotifyStep(w))

-----------------------------------------------------------------------------
(* Safety                                                                  *)

\* "The same alert won't re-fire within ALERT_DEBOUNCE_SECONDS": two mails of
\* one alert were fired a cooldown apart, whatever failed and was retried in
\* between.
DebounceHolds ==
  \A a \in Alert : \A i, j \in DOMAIN mails[a] :
    i < j => mails[a][j] >= mails[a][i] + Cooldown

\* A stamp silences its alert for a cooldown, so there is one only for a mail
\* that was delivered, however many workers and failures: fire_alerts stamps
\* after the send, never before.
StampsAreBacked ==
  \A a \in Alert :
    lastFired[a] # None =>
      \E i \in DOMAIN mails[a] : mails[a][i] = lastFired[a]

\* send_email raises because "a notification we silently drop is worse than
\* one we retry": an event whose task succeeded has mailed every older alert
\* whose drop rule it met, unless that alert had its mail before.
HandledMeansMailed ==
  \A e \in Event, a \in Active :
    /\ result[e].state = "success"
    /\ created[a] < result[e].at
    /\ RuleOf[a].rule = "pct_drop"
    /\ ThresholdMet(RuleOf[a], DropOf[e], None, None)
    => mails[a] # <<>>

-----------------------------------------------------------------------------
(* Liveness                                                                *)

\* A published event is not lost, as long as no worker dies and Redis takes
\* the retries: its last task ends in SUCCESS, parked, or in a FAILURE that
\* Celery records, and the retries before it end.
NotifyConcludes ==
  \A e \in Event : e \in published ~> result[e].state # "none"

=============================================================================
