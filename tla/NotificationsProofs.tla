------------------------- MODULE NotificationsProofs -------------------------
(* Theorems about Notifications, for every value of its constants. *)
EXTENDS Notifications, TLAPS, SequenceTheorems

(***************************************************************************)
(* Assigning some local variables of a task keeps their types, and leaves  *)
(* the others as they were.                                                *)
(***************************************************************************)
LEMMA TaskAssignments ==
  ASSUME NEW t \in Task, NEW c \in Control
  PROVE  /\ [t EXCEPT !.at = c] \in Task
         /\ [t EXCEPT !.at = c].at = c
         /\ [t EXCEPT !.at = c].event = t.event
         /\ [t EXCEPT !.at = c].alert = t.alert
         /\ [t EXCEPT !.at = c].now = t.now
         /\ \A a \in Alert :
              /\ [t EXCEPT !.at = c, !.alert = a] \in Task
              /\ [t EXCEPT !.at = c, !.alert = a].at = c
              /\ [t EXCEPT !.at = c, !.alert = a].event = t.event
              /\ [t EXCEPT !.at = c, !.alert = a].alert = a
              /\ [t EXCEPT !.at = c, !.alert = a].now = t.now
         /\ \A d \in SUBSET Alert :
              /\ [t EXCEPT !.at = c, !.due = d] \in Task
              /\ [t EXCEPT !.at = c, !.due = d].at = c
              /\ [t EXCEPT !.at = c, !.due = d].event = t.event
  BY DEF Task

LEMMA NoTaskTyped ==
  /\ NoTask \in Task
  /\ NoTask.at = "idle"
  /\ \A e \in Event, n \in 0..MaxRetries :
       /\ [NoTask EXCEPT !.at = "load", !.event = e, !.retries = n] \in Task
       /\ [NoTask EXCEPT !.at = "load", !.event = e, !.retries = n].at = "load"
       /\ [NoTask EXCEPT !.at = "load", !.event = e, !.retries = n].event = e
<1>1. /\ 0 \in Time /\ 0 \in 0..MaxRetries
      /\ "idle" \in Control /\ "load" \in Control
  BY NumbersAssumption DEF Time, Control
<1>2. [a \in Alert |-> None] \in [Alert -> Time \cup {None}]
  OBVIOUS
<1>3. NoTask \in Task /\ NoTask.at = "idle"
  BY <1>1, <1>2 DEF NoTask, Task
<1>4. ASSUME NEW e \in Event, NEW n \in 0..MaxRetries
      PROVE  /\ [NoTask EXCEPT !.at = "load", !.event = e, !.retries = n] \in Task
             /\ [NoTask EXCEPT !.at = "load", !.event = e, !.retries = n].at = "load"
             /\ [NoTask EXCEPT !.at = "load", !.event = e, !.retries = n].event = e
  BY <1>1, <1>3 DEF Task
<1> QED
  BY <1>3, <1>4

(***************************************************************************)
(* The inductive invariant: the variables are typed; a stamp has its mail; *)
(* a task that is about to stamp has just delivered the mail it stamps;    *)
(* and a busy worker works on an event.                                    *)
(***************************************************************************)
MailedAt(a, t) == \E i \in DOMAIN mails[a] : mails[a][i] = t

StampsOwed ==
  \A w \in Worker :
    task[w].at = "stamp" =>
      /\ task[w].alert \in Alert
      /\ MailedAt(task[w].alert, task[w].now)

EventsKnown ==
  \A w \in Worker : task[w].at # "idle" => task[w].event \in Event

Stamped ==
  \A a \in Alert : lastFired[a] # None => MailedAt(a, lastFired[a])

IInv == TypeOK /\ Stamped /\ StampsOwed /\ EventsKnown

MailsStay == \A b \in Alert : \A s : MailedAt(b, s) => MailedAt(b, s)'

LEMMA MailsUnchanged == UNCHANGED mails => MailsStay
  BY DEF MailsStay, MailedAt

\* A delivered mail stays delivered.
LEMMA MailsGrow ==
  ASSUME TypeOK, NEW a \in Alert, NEW t \in Time,
         mails' = [mails EXCEPT ![a] = Append(@, t)]
  PROVE  /\ mails' \in [Alert -> Seq(Time)]
         /\ MailsStay
         /\ MailedAt(a, t)'
<1>1. mails[a] \in Seq(Time)
  BY DEF TypeOK
<1>2. /\ Append(mails[a], t) \in Seq(Time)
      /\ DOMAIN mails[a] \subseteq DOMAIN Append(mails[a], t)
      /\ \A i \in DOMAIN mails[a] : Append(mails[a], t)[i] = mails[a][i]
      /\ Len(mails[a]) + 1 \in DOMAIN Append(mails[a], t)
      /\ Append(mails[a], t)[Len(mails[a]) + 1] = t
  BY <1>1
<1>3. /\ mails' \in [Alert -> Seq(Time)]
      /\ mails'[a] = Append(mails[a], t)
      /\ \A b \in Alert : b # a => mails'[b] = mails[b]
  BY <1>2 DEF TypeOK
<1>4. ASSUME NEW b \in Alert, NEW s, MailedAt(b, s) PROVE MailedAt(b, s)'
  <2>1. PICK i \in DOMAIN mails[b] : mails[b][i] = s
    BY <1>4 DEF MailedAt
  <2>2. i \in DOMAIN mails'[b] /\ mails'[b][i] = s
    BY <1>2, <1>3, <2>1
  <2> QED
    BY <2>2 DEF MailedAt
<1>5. MailedAt(a, t)'
  BY <1>2, <1>3 DEF MailedAt
<1> QED
  BY <1>3, <1>4, <1>5 DEF MailsStay

LEMMA StampsStay ==
  Stamped /\ MailsStay /\ UNCHANGED lastFired => Stamped'
  BY DEF Stamped, MailsStay

\* A worker whose task becomes u: what u has to satisfy.
LEMMA TaskBecomes ==
  ASSUME IInv, MailsStay, NEW w \in Worker, NEW u \in Task,
         task' = [task EXCEPT ![w] = u],
         u.at # "idle" => u.event \in Event,
         u.at = "stamp" => u.alert \in Alert /\ MailedAt(u.alert, u.now)'
  PROVE  task' \in [Worker -> Task] /\ StampsOwed' /\ EventsKnown'
<1>1. task \in [Worker -> Task]
  BY DEF IInv, TypeOK
<1>2. /\ task' \in [Worker -> Task]
      /\ task'[w] = u
      /\ \A v \in Worker \ {w} : task'[v] = task[v]
  BY <1>1
<1>3. StampsOwed'
  <2> SUFFICES ASSUME NEW v \in Worker, (task[v].at = "stamp")'
               PROVE  (/\ task[v].alert \in Alert
                       /\ MailedAt(task[v].alert, task[v].now))'
    BY DEF StampsOwed
  <2>1. CASE v = w
    BY <1>2, <2>1 DEF MailedAt
  <2>2. CASE v # w
    <3>1. task[v].at = "stamp" /\ task'[v] = task[v]
      BY <1>2, <2>2
    <3>2. task[v].alert \in Alert /\ MailedAt(task[v].alert, task[v].now)
      BY <3>1 DEF IInv, StampsOwed
    <3>3. MailedAt(task[v].alert, task[v].now)'
      <4>1. PICK a, t : a = task[v].alert /\ t = task[v].now
        OBVIOUS
      <4>2. a \in Alert /\ MailedAt(a, t)
        BY <3>2, <4>1
      <4>3. MailedAt(a, t)'
        BY <4>2 DEF MailsStay
      <4> QED
        BY <3>1, <4>1, <4>3 DEF MailedAt
    <3> QED
      BY <3>1, <3>2, <3>3
  <2> QED
    BY <2>1, <2>2
<1>4. EventsKnown'
  BY <1>2 DEF IInv, EventsKnown
<1> QED
  BY <1>2, <1>3, <1>4

LEMMA InitTyped == Init => IInv
<1> SUFFICES ASSUME Init PROVE IInv
  OBVIOUS
<1>1. TypeOK
  <2>1. <<>> \in Seq(Time)
    OBVIOUS
  <2>2. [state |-> "none", at |-> 0] \in Result /\ 0 \in Time
    BY NumbersAssumption DEF Result, Time
  <2>3. alerts \in [Alert -> AlertState]
    BY DEF Init, AlertState
  <2>4. /\ mails \in [Alert -> Seq(Time)]
        /\ task \in [Worker -> Task]
        /\ result \in [Event -> Result]
    BY <2>1, <2>2, NoTaskTyped DEF Init
  <2>5. /\ target \in Price \cup {None}
        /\ best \in Price \cup {None}
    BY ChoiceAssumption DEF Init
  <2>6. /\ now \in Time
        /\ tracked \in BOOLEAN
        /\ created \in [Alert -> Time]
        /\ lastFired \in [Alert -> Time \cup {None}]
        /\ published \in SUBSET Event
        /\ queue \in SUBSET Message
    BY <2>2 DEF Init
  <2> QED
    BY <2>3, <2>4, <2>5, <2>6 DEF TypeOK
<1>2. Stamped
  BY DEF Init, Stamped
<1>3. StampsOwed /\ EventsKnown
  BY NoTaskTyped DEF Init, StampsOwed, EventsKnown
<1> QED
  BY <1>1, <1>2, <1>3 DEF IInv

\* A task that ends leaves its worker idle, and its event with a result.
LEMMA ConcludeTyped ==
  ASSUME IInv, NEW w \in Worker, task[w].at # "idle",
         NEW state \in {"success", "parked", "failed"}, NEW t \in Time,
         Conclude(w, state, t),
         UNCHANGED <<now, rows, lastFired, published, queue, mails>>
  PROVE  IInv'
<1>1. task[w].event \in Event
  BY DEF IInv, EventsKnown
<1>2. [state |-> state, at |-> t] \in Result
  BY DEF Result
<1>3. result' \in [Event -> Result]
  BY <1>1, <1>2 DEF IInv, TypeOK, Conclude
<1>4. MailsStay /\ Stamped'
  BY MailsUnchanged, StampsStay DEF IInv
<1>5. task' \in [Worker -> Task] /\ StampsOwed' /\ EventsKnown'
  BY <1>4, NoTaskTyped, TaskBecomes DEF Conclude
<1>6. TypeOK'
  BY <1>3, <1>5 DEF IInv, TypeOK, rows
<1> QED
  BY <1>4, <1>5, <1>6 DEF IInv

LEMMA StartNotifyTyped ==
  ASSUME IInv, NEW w \in Worker, NEW m \in Message, StartNotify(w, m)
  PROVE  IInv'
<1>1. m.event \in Event /\ m.retries \in 0..MaxRetries
  BY DEF Message
<1> DEFINE u == [NoTask EXCEPT !.at = "load", !.event = m.event,
                               !.retries = m.retries]
<1>2. u \in Task /\ u.at = "load" /\ u.event \in Event
  BY ZenonT(30), <1>1, NoTaskTyped
<1>3. MailsStay /\ Stamped'
  BY MailsUnchanged, StampsStay DEF IInv, StartNotify
<1>4. task' = [task EXCEPT ![w] = u]
  BY DEF StartNotify
<1> HIDE DEF u
<1>5. task' \in [Worker -> Task] /\ StampsOwed' /\ EventsKnown'
  BY <1>2, <1>3, <1>4, TaskBecomes
<1>6. TypeOK'
  BY <1>5 DEF IInv, TypeOK, StartNotify, rows
<1> QED
  BY <1>3, <1>5, <1>6 DEF IInv

\* A task that moves on, without owing a stamp, mailing or writing a row.
LEMMA MoveTyped ==
  ASSUME IInv, NEW w \in Worker, task[w].at # "idle",
         NEW c \in Control, c # "stamp",
         task' = [task EXCEPT ![w].at = c],
         MailsStay, mails' \in [Alert -> Seq(Time)],
         UNCHANGED <<now, rows, lastFired, published, queue, result>>
  PROVE  IInv'
<1>1. task[w] \in Task /\ task[w].event \in Event
  BY DEF IInv, TypeOK, EventsKnown
<1> DEFINE u == [task[w] EXCEPT !.at = c]
<1>2. u \in Task /\ u.at = c /\ u.event \in Event
  BY <1>1, TaskAssignments
<1>3. task' = [task EXCEPT ![w] = u]
  BY <1>1
<1> HIDE DEF u
<1>4. Stamped'
  BY StampsStay DEF IInv
<1>5. task' \in [Worker -> Task] /\ StampsOwed' /\ EventsKnown'
  BY <1>2, <1>3, TaskBecomes
<1>6. TypeOK'
  BY <1>5 DEF IInv, TypeOK, rows
<1> QED
  BY <1>4, <1>5, <1>6 DEF IInv

LEMMA LoadProductTyped ==
  ASSUME IInv, NEW w \in Worker, LoadProduct(w)
  PROVE  IInv'
<1>1. CASE ~tracked
  BY <1>1, ConcludeTyped DEF LoadProduct, IInv, TypeOK
<1>2. CASE tracked
  <2>1. task[w] \in Task /\ task[w].event \in Event
    BY DEF IInv, TypeOK, EventsKnown, LoadProduct
  <2> DEFINE u == [task[w] EXCEPT !.at = "select", !.now = now,
                     !.target = target, !.best = best, !.known = Active,
                     !.stamps = lastFired]
  <2>2. u \in Task /\ u.at = "select" /\ u.event = task[w].event
    <3>1. /\ now \in Time
          /\ target \in Price \cup {None}
          /\ best \in Price \cup {None}
          /\ Active \in SUBSET Alert
          /\ lastFired \in [Alert -> Time \cup {None}]
      BY DEF IInv, TypeOK, Active
    <3>2. "select" \in Control
      BY DEF Control
    <3> QED
      BY <2>1, <3>1, <3>2 DEF Task
  <2>3. task' = [task EXCEPT ![w] = u]
    BY <1>2 DEF LoadProduct
  <2> HIDE DEF u
  <2>4. MailsStay /\ Stamped'
    BY MailsUnchanged, StampsStay DEF IInv, LoadProduct
  <2>5. task' \in [Worker -> Task] /\ StampsOwed' /\ EventsKnown'
    BY <2>1, <2>2, <2>3, <2>4, TaskBecomes
  <2>6. TypeOK'
    BY <1>2, <2>5 DEF IInv, TypeOK, LoadProduct, rows
  <2> QED
    BY <2>4, <2>5, <2>6 DEF IInv
<1> QED
  BY <1>1, <1>2

LEMMA SelectAlertsTyped ==
  ASSUME IInv, NEW w \in Worker, SelectAlerts(w)
  PROVE  IInv'
<1>1. task[w] \in Task /\ task[w].event \in Event
  BY DEF IInv, TypeOK, EventsKnown, SelectAlerts
<1>2. PICK d \in SUBSET Alert :
        task' = [task EXCEPT ![w] = [task[w] EXCEPT !.at = "loop", !.due = d]]
  <2>1. \A d : [task EXCEPT ![w].at = "loop", ![w].due = d]
               = [task EXCEPT ![w] = [task[w] EXCEPT !.at = "loop", !.due = d]]
    BY <1>1 DEF IInv, TypeOK, Task
  <2> QED
    BY <2>1 DEF SelectAlerts, Active
<1> DEFINE u == [task[w] EXCEPT !.at = "loop", !.due = d]
<1>3. u \in Task /\ u.at = "loop" /\ u.event \in Event
  <2>1. "loop" \in Control
    BY DEF Control
  <2> QED
    BY <1>1, <2>1 DEF Task
<1>4. MailsStay /\ Stamped'
  BY MailsUnchanged, StampsStay DEF IInv, SelectAlerts
<1>5. task' = [task EXCEPT ![w] = u]
  BY <1>2
<1> HIDE DEF u
<1>6. task' \in [Worker -> Task] /\ StampsOwed' /\ EventsKnown'
  BY <1>3, <1>4, <1>5, TaskBecomes
<1>7. TypeOK'
  BY <1>6 DEF IInv, TypeOK, SelectAlerts, rows
<1> QED
  BY <1>4, <1>6, <1>7 DEF IInv

LEMMA SendMailTyped ==
  ASSUME IInv, NEW w \in Worker, NEW a \in Alert, SendMail(w, a)
  PROVE  IInv'
<1>1. task[w] \in Task /\ task[w].event \in Event
  BY DEF IInv, TypeOK, EventsKnown, SendMail
<1>2. task' = [task EXCEPT ![w] = [task[w] EXCEPT !.at = "stamp", !.alert = a]]
  BY <1>1 DEF SendMail
<1>3. "stamp" \in Control
  BY DEF Control
<1>4. PICK u \in Task :
        /\ task' = [task EXCEPT ![w] = u]
        /\ u.at = "stamp"
        /\ u.event = task[w].event
        /\ u.alert = a
        /\ u.now = task[w].now
  <2> DEFINE v == [task[w] EXCEPT !.at = "stamp", !.alert = a]
  <2>1. v \in Task /\ v.at = "stamp" /\ v.event = task[w].event
    BY <1>1, <1>3 DEF Task
  <2>2. v.alert = a /\ v.now = task[w].now
    BY <1>1 DEF Task
  <2>3. task' = [task EXCEPT ![w] = v]
    BY <1>2
  <2> HIDE DEF v
  <2> QED
    BY <2>1, <2>2, <2>3
<1>5. u.now \in Time
  BY DEF Task
<1>6. mails' = [mails EXCEPT ![a] = Append(@, u.now)]
  BY <1>4 DEF SendMail
<1>7. /\ MailsStay
      /\ mails' \in [Alert -> Seq(Time)]
      /\ MailedAt(a, u.now)'
  BY <1>5, <1>6, MailsGrow DEF IInv
<1>8. task' \in [Worker -> Task] /\ StampsOwed' /\ EventsKnown'
  BY <1>1, <1>4, <1>7, TaskBecomes
<1>9. Stamped'
  BY <1>7, StampsStay DEF IInv, SendMail
<1>10. TypeOK'
  BY <1>7, <1>8 DEF IInv, TypeOK, SendMail, rows
<1> QED
  BY <1>8, <1>9, <1>10 DEF IInv

LEMMA SendFailsTyped ==
  ASSUME IInv, NEW w \in Worker, NEW a \in Alert, SendFails(w, a)
  PROVE  IInv'
<1>1. /\ task[w].at # "idle"
      /\ task' = [task EXCEPT ![w].at = "retry"]
      /\ "retry" \in Control
  BY DEF SendFails, Goto, Control
<1>2. MailsStay /\ mails' \in [Alert -> Seq(Time)]
  <2>1. CASE UNCHANGED mails
    BY <2>1, MailsUnchanged DEF IInv, TypeOK
  <2>2. CASE mails' = [mails EXCEPT ![a] = Append(@, task[w].now)]
    <3>1. PICK t \in Time : t = task[w].now
      BY DEF IInv, TypeOK, Task
    <3> QED
      BY <2>2, <3>1, MailsGrow DEF IInv
  <2> QED
    BY <2>1, <2>2 DEF SendFails
<1> QED
  BY <1>1, <1>2, MoveTyped DEF SendFails

\* The only action that stamps: the task has just delivered the mail.
LEMMA StampAlertTyped ==
  ASSUME IInv, NEW w \in Worker, StampAlert(w)
  PROVE  IInv'
<1> DEFINE a == task[w].alert
<1>1. MailsStay /\ task[w].at # "idle"
  BY MailsUnchanged DEF StampAlert
<1>2. CASE a \notin Active
  <2>1. "retry" \in Control
    BY DEF Control
  <2> QED
    BY <1>1, <1>2, <2>1, MoveTyped DEF StampAlert, IInv, TypeOK
<1>3. CASE a \in Active
  <2>1. task[w] \in Task /\ task[w].event \in Event
    BY <1>1 DEF IInv, TypeOK, EventsKnown
  <2>2. "loop" \in Control
    BY DEF Control
  <2>3. PICK u \in Task :
          /\ task' = [task EXCEPT ![w] = u]
          /\ u.at = "loop"
          /\ u.event = task[w].event
    <3>1. task[w].due \ {a} \in SUBSET Alert
      BY <2>1 DEF Task
    <3>2. task' = [task EXCEPT ![w] = [task[w] EXCEPT !.at = "loop",
                                                     !.due = @ \ {a}]]
      BY <1>3, <2>1 DEF StampAlert
    <3> DEFINE v == [task[w] EXCEPT !.at = "loop", !.due = @ \ {a}]
    <3>3. v \in Task /\ v.at = "loop" /\ v.event = task[w].event
      BY <2>1, <2>2, <3>1 DEF Task
    <3>4. task' = [task EXCEPT ![w] = v]
      BY <3>2
    <3> HIDE DEF v
    <3> QED
      BY <3>3, <3>4
  <2>4. task' \in [Worker -> Task] /\ StampsOwed' /\ EventsKnown'
    BY <1>1, <2>1, <2>3, TaskBecomes
  <2>5. /\ a \in Alert
        /\ task[w].now \in Time
        /\ MailedAt(a, task[w].now)
        /\ lastFired' = [lastFired EXCEPT ![a] = task[w].now]
    BY <1>3, <2>1 DEF IInv, StampsOwed, StampAlert, Task
  <2>6. Stamped'
    <3> SUFFICES ASSUME NEW b \in Alert, (lastFired[b] # None)'
                 PROVE  MailedAt(b, lastFired[b])'
      BY DEF Stamped
    <3>1. UNCHANGED mails
      BY DEF StampAlert
    <3>2. CASE b = a
      BY <2>5, <3>1, <3>2 DEF MailedAt, IInv, TypeOK
    <3>3. CASE b # a
      BY <2>5, <3>1, <3>3 DEF MailedAt, IInv, TypeOK, Stamped
    <3> QED
      BY <3>2, <3>3
  <2>7. TypeOK'
    BY <1>3, <2>4, <2>5 DEF IInv, TypeOK, StampAlert, rows
  <2> QED
    BY <2>4, <2>6, <2>7 DEF IInv
<1> QED
  BY <1>2, <1>3

\* A worker that forgets its task, or puts it back as a message.
LEMMA ForgetTyped ==
  ASSUME IInv, NEW w \in Worker, task' = [task EXCEPT ![w] = NoTask],
         queue' \in SUBSET Message,
         UNCHANGED <<now, rows, lastFired, published, result, mails>>
  PROVE  IInv'
<1>1. MailsStay /\ Stamped'
  BY MailsUnchanged, StampsStay DEF IInv
<1>2. task' \in [Worker -> Task] /\ StampsOwed' /\ EventsKnown'
  BY <1>1, NoTaskTyped, TaskBecomes
<1>3. TypeOK'
  BY <1>2 DEF IInv, TypeOK, rows
<1> QED
  BY <1>1, <1>2, <1>3 DEF IInv

LEMMA RetryTyped ==
  ASSUME IInv, NEW w \in Worker, RetryOrGiveUp(w)
  PROVE  IInv'
<1>1. /\ task[w] \in Task
      /\ task[w].at # "idle"
      /\ task[w].event \in Event
      /\ task[w].retries \in 0..MaxRetries
      /\ now \in Time
      /\ UNCHANGED <<now, rows, lastFired, published, mails>>
  BY DEF IInv, TypeOK, EventsKnown, RetryOrGiveUp, Task
<1>2. CASE /\ task[w].retries < MaxRetries
           /\ queue' = queue \cup {[event |-> task[w].event,
                                    retries |-> task[w].retries + 1]}
           /\ task' = [task EXCEPT ![w] = NoTask]
           /\ UNCHANGED result
  <2>1. task[w].retries + 1 \in 0..MaxRetries
    BY <1>1, <1>2, NumbersAssumption
  <2>2. [event |-> task[w].event, retries |-> task[w].retries + 1] \in Message
    BY <1>1, <2>1 DEF Message
  <2>3. queue' \in SUBSET Message
    BY <1>2, <2>2 DEF IInv, TypeOK
  <2> QED
    BY <1>1, <1>2, <2>3, ForgetTyped
<1>3. CASE Conclude(w, "failed", now) /\ UNCHANGED queue
  BY <1>1, <1>3, ConcludeTyped
<1>4. CASE /\ task' = [task EXCEPT ![w].at = "deadLetter"]
           /\ UNCHANGED <<queue, result>>
  <2>1. "deadLetter" \in Control
    BY DEF Control
  <2>2. MailsStay /\ mails' \in [Alert -> Seq(Time)]
    BY <1>1, MailsUnchanged DEF IInv, TypeOK
  <2> QED
    BY <1>1, <1>4, <2>1, <2>2, MoveTyped
<1> QED
  BY <1>2, <1>3, <1>4 DEF RetryOrGiveUp

LEMMA DatabaseFaultTyped ==
  ASSUME IInv, NEW w \in Worker, DatabaseFault(w)
  PROVE  IInv'
<1>1. CASE \/ Goto(w, "load", "retry") /\ UNCHANGED result
           \/ Goto(w, "select", "retry") /\ UNCHANGED result
           \/ Goto(w, "stamp", "retry") /\ UNCHANGED result
  <2>1. /\ task[w].at # "idle"
        /\ task' = [task EXCEPT ![w].at = "retry"]
        /\ "retry" \in Control
        /\ UNCHANGED result
    BY <1>1 DEF Goto, Control
  <2>2. MailsStay /\ mails' \in [Alert -> Seq(Time)]
    BY MailsUnchanged DEF IInv, TypeOK, DatabaseFault
  <2> QED
    BY <2>1, <2>2, MoveTyped DEF DatabaseFault
<1>2. CASE task[w].at = "deadLetter" /\ Conclude(w, "failed", now)
  BY <1>2, ConcludeTyped DEF DatabaseFault, IInv, TypeOK
<1> QED
  BY <1>1, <1>2 DEF DatabaseFault

LEMMA NotifyStepTyped ==
  ASSUME IInv, NEW w \in Worker, NotifyStep(w)
  PROVE  IInv'
<1>1. CASE LoadProduct(w)
  BY <1>1, LoadProductTyped
<1>2. CASE SelectAlerts(w)
  BY <1>2, SelectAlertsTyped
<1>3. CASE \E a \in Alert : SendMail(w, a) \/ SendFails(w, a)
  BY <1>3, SendMailTyped, SendFailsTyped
<1>4. CASE StampAlert(w)
  BY <1>4, StampAlertTyped
<1>5. CASE FinishNotify(w)
  <2>1. task[w].now \in Time
    BY DEF IInv, TypeOK, Task
  <2> QED
    BY <1>5, <2>1, ConcludeTyped DEF FinishNotify
<1>6. CASE RetryOrGiveUp(w)
  BY <1>6, RetryTyped
<1>7. CASE ParkNotification(w)
  BY <1>7, ConcludeTyped DEF ParkNotification, IInv, TypeOK
<1> QED
  BY <1>1, <1>2, <1>3, <1>4, <1>5, <1>6, <1>7 DEF NotifyStep

\* What the price pipeline, the user and the clock do concerns no task, no
\* mail and no stamp.
LEMMA OthersTyped ==
  ASSUME IInv, Others
  PROVE  IInv'
<1>1. UNCHANGED <<lastFired, mails, task, result>>
  BY DEF Others, PublishDrop, PriceMoves, SetTarget, CreateAlert, DeleteAlert,
         DeleteItem, Tick
<1>2. Stamped' /\ StampsOwed' /\ EventsKnown'
  BY <1>1 DEF IInv, Stamped, StampsOwed, EventsKnown, MailedAt
<1>3. now' \in Time
  BY NumbersAssumption
  DEF IInv, TypeOK, Others, rows, Time, PublishDrop, PriceMoves, SetTarget,
      CreateAlert, DeleteAlert, DeleteItem, Tick
<1>4. tracked' \in BOOLEAN /\ created' \in [Alert -> Time]
  BY ZenonT(30) DEF IInv, TypeOK, Others, rows, PublishDrop, PriceMoves, SetTarget,
         CreateAlert, DeleteAlert, DeleteItem, Tick
<1>5. alerts' \in [Alert -> AlertState]
  BY DEF IInv, TypeOK, Others, rows, AlertState, PublishDrop, PriceMoves,
         SetTarget, CreateAlert, DeleteAlert, DeleteItem, Tick
<1>6. /\ target' \in Price \cup {None}
      /\ best' \in Price \cup {None}
  BY ChoiceAssumption
  DEF IInv, TypeOK, Others, rows, PublishDrop, PriceMoves, SetTarget,
      CreateAlert, DeleteAlert, DeleteItem, Tick
<1>7. /\ published' \in SUBSET Event
      /\ queue' \in SUBSET Message
  <2>1. CASE \E e \in Event : PublishDrop(e)
    <3>1. PICK e \in Event : PublishDrop(e)
      BY <2>1
    <3>2. [event |-> e, retries |-> 0] \in Message
      BY NumbersAssumption DEF Message
    <3> QED
      BY <3>1, <3>2 DEF IInv, TypeOK, PublishDrop
  <2>2. CASE UNCHANGED <<published, queue>>
    BY <2>2 DEF IInv, TypeOK
  <2> QED
    BY <2>1, <2>2 DEF Others, PriceMoves, SetTarget, CreateAlert, DeleteAlert,
                      DeleteItem, Tick
<1> QED
  BY <1>1, <1>2, <1>3, <1>4, <1>5, <1>6, <1>7 DEF IInv, TypeOK

LEMMA Inductive == IInv /\ [Next]_vars => IInv'
<1> SUFFICES ASSUME IInv, [Next]_vars PROVE IInv'
  OBVIOUS
<1>1. CASE \E w \in Worker : TakeMessage(w)
  BY <1>1, StartNotifyTyped DEF TakeMessage
<1>2. CASE \E w \in Worker : NotifyStep(w)
  BY <1>2, NotifyStepTyped
<1>3. CASE \E w \in Worker : DatabaseFault(w)
  BY <1>3, DatabaseFaultTyped
<1>4. CASE \E w \in Worker : RedisFault(w) \/ Crash(w)
  BY <1>4, ForgetTyped DEF RedisFault, Crash, IInv, TypeOK
<1>5. CASE Others
  BY <1>5, OthersTyped
<1>6. CASE UNCHANGED vars
  BY <1>6 DEF vars, rows, IInv, TypeOK, Stamped, StampsOwed, EventsKnown,
              MailedAt
<1> QED
  BY <1>1, <1>2, <1>3, <1>4, <1>5, <1>6 DEF Next

(***************************************************************************)
(* Every reachable state is well typed: whatever the number of workers,    *)
(* alerts, events and retries, a task at work has an event, and a retry    *)
(* never counts beyond max_retries.                                        *)
(***************************************************************************)
THEOREM NotifyTypeCorrect == Spec => []TypeOK
<1>1. IInv => TypeOK
  BY DEF IInv
<1> QED
  BY <1>1, InitTyped, Inductive, PTL DEF Spec

(***************************************************************************)
(* No alert is ever silenced without a mail: last_fired_at always is the   *)
(* time of a mail that was delivered, whatever workers race, mails fail,   *)
(* transactions fail and processes die (fire_alerts stamps after the send, *)
(* and commits each stamp on its own).                                     *)
(***************************************************************************)
THEOREM StampsHaveMails == Spec => []StampsAreBacked
<1>1. IInv => StampsAreBacked
  BY DEF IInv, Stamped, MailedAt, StampsAreBacked
<1> QED
  BY <1>1, InitTyped, Inductive, PTL DEF Spec

-----------------------------------------------------------------------------
(***************************************************************************)
(* "A notification we silently drop is worse than one we retry".  A task   *)
(* that has selected its alerts still owes a mail to each older alert whose*)
(* drop rule its event meets, or the alert has had one; a stamp that       *)
(* silences an alert was loaded, and was there for a mail; nothing that a  *)
(* task or a result remembers lies in the future, so an alert created now  *)
(* is no older than any of them; and no alert outlives its product.        *)
(***************************************************************************)
Meets(e, a) ==
  RuleOf[a].rule = "pct_drop" /\ ThresholdMet(RuleOf[a], DropOf[e], None, None)

Mailed(a) == mails[a] # <<>>

MailsPromised ==
  \A w \in Worker : task[w].at \in {"loop", "stamp"} =>
    \A a \in Active :
      created[a] < task[w].now /\ Meets(task[w].event, a)
        => a \in task[w].due \/ Mailed(a)

StampsLoaded ==
  \A w \in Worker, a \in Alert : task[w].stamps[a] # None => Mailed(a)

NothingAhead ==
  /\ \A w \in Worker : task[w].now <= now
  /\ \A e \in Event : result[e].at <= now

NoOrphans == ~tracked => Active = {}

HInv == /\ MailsPromised /\ StampsLoaded /\ NothingAhead /\ NoOrphans
        /\ HandledMeansMailed

LEMMA InitHandled == Init => HInv
<1> SUFFICES ASSUME Init PROVE HInv
  OBVIOUS
<1>1. \A w \in Worker : task[w] = NoTask
  BY DEF Init
<1>2. MailsPromised /\ StampsLoaded
  BY <1>1 DEF MailsPromised, StampsLoaded, NoTask
<1>3. NothingAhead /\ NoOrphans
  BY <1>1 DEF Init, NothingAhead, NoOrphans, NoTask
<1>4. HandledMeansMailed
  BY DEF Init, HandledMeansMailed
<1> QED
  BY <1>2, <1>3, <1>4 DEF HInv

(***************************************************************************)
(* A step of a worker that leaves the rows alone: what its next task and   *)
(* the results have to satisfy.                                            *)
(***************************************************************************)
LEMMA TaskHandles ==
  ASSUME IInv, HInv, NEW w \in Worker, NEW u \in Task,
         task' = [task EXCEPT ![w] = u], UNCHANGED <<now, rows>>,
         \A a \in Alert : Mailed(a) => Mailed(a)',
         u.now <= now,
         \A a \in Alert : u.stamps[a] # None => Mailed(a),
         u.at \in {"loop", "stamp"} =>
           \A a \in Active :
             created[a] < u.now /\ Meets(u.event, a) => a \in u.due \/ Mailed(a),
         \A e \in Event :
           \/ result'[e] = result[e]
           \/ /\ result'[e].at <= now
              /\ result'[e].state = "success" =>
                   \A a \in Active :
                     created[a] < result'[e].at /\ Meets(e, a) => Mailed(a)
  PROVE  HInv'
<1>1. /\ task'[w] = u
      /\ \A v \in Worker \ {w} : task'[v] = task[v]
      /\ Active' = Active /\ created' = created /\ now' = now
      /\ tracked' = tracked
      /\ Active \subseteq Alert
  BY DEF IInv, TypeOK, rows, Active
<1>2. MailsPromised'
  <2> SUFFICES ASSUME NEW v \in Worker, task'[v].at \in {"loop", "stamp"},
                      NEW a \in Active, created[a] < task'[v].now,
                      Meets(task'[v].event, a)
               PROVE  a \in task'[v].due \/ Mailed(a)'
    BY <1>1 DEF MailsPromised, Meets
  <2>1. a \in task'[v].due \/ Mailed(a)
    BY <1>1 DEF HInv, MailsPromised
  <2> QED
    BY <1>1, <2>1
<1>3. StampsLoaded'
  BY <1>1 DEF HInv, StampsLoaded
<1>4. NothingAhead'
  BY <1>1 DEF HInv, NothingAhead
<1>5. NoOrphans'
  BY <1>1 DEF HInv, NoOrphans
<1>6. HandledMeansMailed'
  <2> SUFFICES ASSUME NEW e \in Event, NEW a \in Active,
                      result'[e].state = "success",
                      created[a] < result'[e].at, Meets(e, a)
               PROVE  Mailed(a)'
    BY <1>1 DEF HandledMeansMailed, Meets, Mailed
  <2>1. CASE result'[e] = result[e]
    BY <1>1, <2>1 DEF HInv, HandledMeansMailed, Meets, Mailed
  <2>2. CASE result'[e] # result[e]
    BY <1>1, <2>2
  <2> QED
    BY <2>1, <2>2
<1> QED
  BY <1>2, <1>3, <1>4, <1>5, <1>6 DEF HInv

LEMMA IdleHandles ==
  /\ NoTask \in Task /\ NoTask.at = "idle" /\ NoTask.now = 0
  /\ \A a \in Alert : NoTask.stamps[a] = None
  BY NoTaskTyped DEF NoTask

\* Appending to a log of mails leaves none of them empty.
LEMMA MailStaysMailed ==
  ASSUME TypeOK, NEW b \in Alert, NEW t,
         mails' = [mails EXCEPT ![b] = Append(@, t)] \/ UNCHANGED mails
  PROVE  \A a \in Alert : Mailed(a) => Mailed(a)'
<1>1. \A s \in Seq(Time) : Append(s, t) # <<>>
  OBVIOUS
<1> QED
  BY <1>1 DEF TypeOK, Mailed

\* A task that ends with a result from no later than now.
LEMMA ConcludeHandles ==
  ASSUME IInv, HInv, NEW w \in Worker, task[w].event \in Event,
         NEW state \in {"success", "parked", "failed"}, NEW t \in Time,
         t <= now, Conclude(w, state, t), UNCHANGED <<now, rows, mails>>,
         state = "success" =>
           \A a \in Active :
             created[a] < t /\ Meets(task[w].event, a) => Mailed(a)
  PROVE  HInv'
<1>1. /\ task' = [task EXCEPT ![w] = NoTask]
      /\ \A a \in Alert : Mailed(a) => Mailed(a)'
      /\ 0 <= now
  BY DEF Conclude, Mailed, IInv, TypeOK, Time
<1>2. ASSUME NEW e \in Event
      PROVE  \/ result'[e] = result[e]
             \/ /\ result'[e].at <= now
                /\ result'[e].state = "success" =>
                     \A a \in Active :
                       created[a] < result'[e].at /\ Meets(e, a) => Mailed(a)
  BY DEF Conclude, IInv, TypeOK
<1> QED
  BY <1>1, <1>2, IdleHandles, TaskHandles

\* A task that goes on to c, not yet or no longer at its mails.
LEMMA MoveHandles ==
  ASSUME IInv, HInv, NEW w \in Worker, NEW c \in Control \ {"loop", "stamp"},
         task' = [task EXCEPT ![w].at = c],
         \A a \in Alert : Mailed(a) => Mailed(a)',
         UNCHANGED <<now, rows, result>>
  PROVE  HInv'
<1>1. task[w] \in Task
  BY DEF IInv, TypeOK
<1>2. PICK u \in Task : /\ task' = [task EXCEPT ![w] = u]
                        /\ u.at = c
                        /\ u.now = task[w].now
                        /\ u.stamps = task[w].stamps
  <2> DEFINE v == [task[w] EXCEPT !.at = c]
  <2>1. v \in Task /\ v.at = c /\ v.now = task[w].now
        /\ v.stamps = task[w].stamps
    BY <1>1 DEF Task
  <2>2. task' = [task EXCEPT ![w] = v]
    BY <1>1
  <2> HIDE DEF v
  <2> QED
    BY <2>1, <2>2
<1>3. u.now <= now /\ \A a \in Alert : u.stamps[a] # None => Mailed(a)
  BY <1>2 DEF HInv, NothingAhead, StampsLoaded
<1> QED
  BY <1>2, <1>3, TaskHandles

\* The worker is free, without a result.
LEMMA ForgetHandles ==
  ASSUME IInv, HInv, NEW w \in Worker, task' = [task EXCEPT ![w] = NoTask],
         UNCHANGED <<now, rows, result, mails>>
  PROVE  HInv'
<1>1. 0 <= now /\ \A a \in Alert : Mailed(a) => Mailed(a)'
  BY DEF Mailed, IInv, TypeOK, Time
<1> QED
  BY <1>1, IdleHandles, TaskHandles

LEMMA StartNotifyHandles ==
  ASSUME IInv, HInv, NEW w \in Worker, NEW m \in Message, StartNotify(w, m)
  PROVE  HInv'
<1>1. m.event \in Event /\ m.retries \in 0..MaxRetries
  BY DEF Message
<1>2. PICK u \in Task : /\ task' = [task EXCEPT ![w] = u]
                        /\ u.at = "load"
                        /\ u.now = 0
                        /\ \A a \in Alert : u.stamps[a] = None
  <2> DEFINE v == [NoTask EXCEPT !.at = "load", !.event = m.event,
                                 !.retries = m.retries]
  <2>1. v \in Task /\ v.at = "load"
    BY ZenonT(30), <1>1, NoTaskTyped
  <2>2. v.now = 0 /\ \A a \in Alert : v.stamps[a] = None
    BY DEF NoTask
  <2>3. task' = [task EXCEPT ![w] = v]
    BY DEF StartNotify
  <2> HIDE DEF v
  <2> QED
    BY <2>1, <2>2, <2>3
<1>3. /\ 0 <= now
      /\ \A a \in Alert : Mailed(a) => Mailed(a)'
      /\ UNCHANGED <<now, rows, result>>
  BY DEF StartNotify, Mailed, IInv, TypeOK, Time
<1> QED
  BY <1>2, <1>3, TaskHandles

\* What is loaded is as of now; a product that is gone has no alerts.
LEMMA LoadProductHandles ==
  ASSUME IInv, HInv, NEW w \in Worker, LoadProduct(w)
  PROVE  HInv'
<1>1. task[w] \in Task /\ task[w].event \in Event /\ now \in Time
  BY DEF IInv, TypeOK, EventsKnown, LoadProduct
<1>2. CASE ~tracked
  <2>1. Active = {} /\ now <= now
    BY <1>1, <1>2 DEF HInv, NoOrphans, Time
  <2> QED
    BY <1>1, <1>2, <2>1, ConcludeHandles DEF LoadProduct
<1>3. CASE tracked
  <2>1. PICK u \in Task : /\ task' = [task EXCEPT ![w] = u]
                          /\ u.at = "select"
                          /\ u.now = now
                          /\ u.stamps = lastFired
    <3> DEFINE v == [task[w] EXCEPT !.at = "select", !.now = now,
                       !.target = target, !.best = best, !.known = Active,
                       !.stamps = lastFired]
    <3>1. /\ target \in Price \cup {None}
          /\ best \in Price \cup {None}
          /\ Active \in SUBSET Alert
          /\ lastFired \in [Alert -> Time \cup {None}]
          /\ "select" \in Control
      BY DEF IInv, TypeOK, Active, Control
    <3>2. v \in Task /\ v.at = "select"
      BY <1>1, <3>1 DEF Task
    <3>3. v.now = now /\ v.stamps = lastFired
      BY <1>1 DEF Task
    <3>4. task' = [task EXCEPT ![w] = v]
      BY <1>3 DEF LoadProduct
    <3> HIDE DEF v
    <3> QED
      BY <3>2, <3>3, <3>4
  <2>2. \A a \in Alert : lastFired[a] # None => Mailed(a)
    BY DEF IInv, Stamped, MailedAt, Mailed
  <2>3. /\ u.now <= now
        /\ \A a \in Alert : Mailed(a) => Mailed(a)'
        /\ UNCHANGED <<now, rows, result>>
    BY <1>1, <1>3, <2>1 DEF LoadProduct, Mailed, Time
  <2> QED
    BY <2>1, <2>2, <2>3, TaskHandles
<1> QED
  BY <1>2, <1>3

\* An alert whose rule is met is due, unless a stamp silences it: and then it
\* has had a mail.
LEMMA SelectAlertsHandles ==
  ASSUME IInv, HInv, NEW w \in Worker, SelectAlerts(w)
  PROVE  HInv'
<1> DEFINE stamp(a) == IF a \in task[w].known THEN task[w].stamps[a]
                       ELSE lastFired[a]
           met(a) == ThresholdMet(RuleOf[a], DropOf[task[w].event],
                                  task[w].best, task[w].target)
           d == {a \in Active : met(a) /\ ~IsDebounced(stamp(a), task[w].now)}
<1>1. task[w] \in Task /\ d \in SUBSET Alert /\ "loop" \in Control
  BY DEF IInv, TypeOK, Active, Control
<1>2. ASSUME NEW a \in Active, Meets(task[w].event, a)
      PROVE  a \in d \/ Mailed(a)
  <2>1. met(a)
    BY <1>2 DEF Meets, ThresholdMet
  <2>2. a \in Alert
    BY DEF Active
  <2>3. lastFired[a] # None => Mailed(a)
    BY <2>2 DEF IInv, Stamped, MailedAt, Mailed
  <2>4. stamp(a) # None => Mailed(a)
    BY <2>2, <2>3 DEF HInv, StampsLoaded
  <2>5. IsDebounced(stamp(a), task[w].now) => Mailed(a)
    BY <2>4 DEF IsDebounced
  <2> QED
    BY <2>1, <2>5
<1>3. task' = [task EXCEPT ![w].at = "loop", ![w].due = d]
  BY DEF SelectAlerts
<1> HIDE DEF d
<1>4. PICK u \in Task : /\ task' = [task EXCEPT ![w] = u]
                        /\ u.due = d
                        /\ u.now = task[w].now
                        /\ u.event = task[w].event
                        /\ u.stamps = task[w].stamps
  <2> DEFINE v == [task[w] EXCEPT !.at = "loop", !.due = d]
  <2>1. v \in Task /\ v.due = d
    BY <1>1 DEF Task
  <2>2. /\ v.now = task[w].now
        /\ v.event = task[w].event
        /\ v.stamps = task[w].stamps
    BY <1>1 DEF Task
  <2>3. task' = [task EXCEPT ![w] = v]
    BY <1>1, <1>3 DEF IInv, TypeOK, Task
  <2> HIDE DEF v
  <2> QED
    BY <2>1, <2>2, <2>3
<1>5. u.now <= now /\ \A a \in Alert : u.stamps[a] # None => Mailed(a)
  BY <1>4 DEF HInv, NothingAhead, StampsLoaded
<1>6. /\ \A a \in Alert : Mailed(a) => Mailed(a)'
      /\ UNCHANGED <<now, rows, result>>
  BY DEF SelectAlerts, Mailed
<1> QED
  BY <1>2, <1>4, <1>5, <1>6, TaskHandles

\* A mail is sent for an alert that is due, and stays due until it is stamped.
LEMMA SendMailHandles ==
  ASSUME IInv, HInv, NEW w \in Worker, NEW b \in Alert, SendMail(w, b)
  PROVE  HInv'
<1>1. task[w] \in Task /\ "stamp" \in Control /\ task[w].at = "loop"
  BY DEF IInv, TypeOK, SendMail, Control
<1>2. PICK u \in Task : /\ task' = [task EXCEPT ![w] = u]
                        /\ u.due = task[w].due
                        /\ u.now = task[w].now
                        /\ u.event = task[w].event
                        /\ u.stamps = task[w].stamps
  <2> DEFINE v == [task[w] EXCEPT !.at = "stamp", !.alert = b]
  <2>1. v \in Task /\ v.due = task[w].due
    BY <1>1 DEF Task
  <2>2. /\ v.now = task[w].now
        /\ v.event = task[w].event
        /\ v.stamps = task[w].stamps
    BY <1>1 DEF Task
  <2>3. task' = [task EXCEPT ![w] = v]
    BY DEF SendMail
  <2> HIDE DEF v
  <2> QED
    BY <2>1, <2>2, <2>3
<1>3. u.now <= now /\ \A a \in Alert : u.stamps[a] # None => Mailed(a)
  BY <1>2 DEF HInv, NothingAhead, StampsLoaded
<1>4. \A a \in Active : created[a] < u.now /\ Meets(u.event, a)
                          => a \in u.due \/ Mailed(a)
  BY <1>1, <1>2 DEF HInv, MailsPromised
<1>5. \A a \in Alert : Mailed(a) => Mailed(a)'
  BY MailStaysMailed DEF SendMail, IInv
<1> QED
  BY <1>2, <1>3, <1>4, <1>5, TaskHandles DEF SendMail

LEMMA SendFailsHandles ==
  ASSUME IInv, HInv, NEW w \in Worker, NEW b \in Alert, SendFails(w, b)
  PROVE  HInv'
<1>1. \A a \in Alert : Mailed(a) => Mailed(a)'
  BY MailStaysMailed DEF SendFails, IInv
<1> QED
  BY <1>1, MoveHandles DEF SendFails, Goto, Control

\* An alert leaves the due ones with its stamp, and so with its mail.
LEMMA StampAlertHandles ==
  ASSUME IInv, HInv, NEW w \in Worker, StampAlert(w)
  PROVE  HInv'
<1> PICK b : b = task[w].alert
  OBVIOUS
<1>1. \A a \in Alert : Mailed(a) => Mailed(a)'
  BY DEF StampAlert, Mailed
<1>2. CASE b \notin Active
  BY <1>1, <1>2, MoveHandles DEF StampAlert, Control
<1>3. CASE b \in Active
  <2>1. /\ task[w] \in Task /\ "loop" \in Control /\ task[w].at = "stamp"
        /\ Mailed(b)
    BY DEF IInv, TypeOK, StampAlert, Control, StampsOwed, MailedAt, Mailed
  <2>2. PICK u \in Task : /\ task' = [task EXCEPT ![w] = u]
                          /\ u.due = task[w].due \ {b}
                          /\ u.now = task[w].now
                          /\ u.event = task[w].event
                          /\ u.stamps = task[w].stamps
    <3> DEFINE v == [task[w] EXCEPT !.at = "loop", !.due = @ \ {b}]
    <3>1. v \in Task /\ v.due = task[w].due \ {b}
      <4>1. task[w].due \ {b} \in SUBSET Alert
        BY <2>1 DEF Task
      <4> QED
        BY <2>1, <4>1 DEF Task
    <3>2. /\ v.now = task[w].now
          /\ v.event = task[w].event
          /\ v.stamps = task[w].stamps
      BY <2>1 DEF Task
    <3>3. task' = [task EXCEPT ![w] = v]
      BY <1>3, <2>1 DEF StampAlert
    <3> HIDE DEF v
    <3> QED
      BY <3>1, <3>2, <3>3
  <2>3. u.now <= now /\ \A a \in Alert : u.stamps[a] # None => Mailed(a)
    BY <2>2 DEF HInv, NothingAhead, StampsLoaded
  <2>4. \A a \in Active : created[a] < u.now /\ Meets(u.event, a)
                            => a \in u.due \/ Mailed(a)
    BY <2>1, <2>2 DEF HInv, MailsPromised
  <2> QED
    BY <1>1, <2>2, <2>3, <2>4, TaskHandles DEF StampAlert
<1> QED
  BY <1>2, <1>3

\* Nothing is due any more: every alert that was promised a mail had one.
LEMMA FinishNotifyHandles ==
  ASSUME IInv, HInv, NEW w \in Worker, FinishNotify(w)
  PROVE  HInv'
<1>1. /\ task[w].event \in Event
      /\ task[w].now \in Time
      /\ task[w].now <= now
  BY DEF IInv, TypeOK, EventsKnown, FinishNotify, Task, HInv, NothingAhead
<1>2. \A a \in Active :
        created[a] < task[w].now /\ Meets(task[w].event, a) => Mailed(a)
  BY DEF FinishNotify, HInv, MailsPromised
<1> QED
  BY <1>1, <1>2, ConcludeHandles DEF FinishNotify

LEMMA RetryHandles ==
  ASSUME IInv, HInv, NEW w \in Worker,
         RetryOrGiveUp(w) \/ ParkNotification(w) \/ DatabaseFault(w)
           \/ RedisFault(w) \/ Crash(w)
  PROVE  HInv'
<1>1. /\ UNCHANGED <<now, rows, mails>>
      /\ now \in Time /\ now <= now
      /\ task[w].event \in Event
      /\ \A a \in Alert : Mailed(a) => Mailed(a)'
  BY DEF RetryOrGiveUp, ParkNotification, DatabaseFault, RedisFault, Crash,
         Goto, IInv, TypeOK, EventsKnown, Time, Mailed
<1>2. CASE \E state \in {"parked", "failed"} : Conclude(w, state, now)
  BY <1>1, <1>2, ConcludeHandles
<1>3. CASE task' = [task EXCEPT ![w] = NoTask] /\ UNCHANGED result
  BY <1>1, <1>3, ForgetHandles
<1>4. CASE /\ \E c \in {"retry", "deadLetter"} : task' = [task EXCEPT ![w].at = c]
           /\ UNCHANGED result
  BY <1>1, <1>4, MoveHandles DEF Control
<1> QED
  BY <1>2, <1>3, <1>4
  DEF RetryOrGiveUp, ParkNotification, DatabaseFault, RedisFault, Crash, Goto

\* The user, the prices and the clock: an alert created now is younger than
\* whatever a task or a result remembers.
LEMMA OthersHandle ==
  ASSUME IInv, HInv, Others
  PROVE  HInv'
<1>1. UNCHANGED <<lastFired, mails, task, result>>
  BY DEF Others, PublishDrop, PriceMoves, SetTarget, CreateAlert, DeleteAlert,
         DeleteItem, Tick
<1>2. now' >= now
  BY DEF IInv, TypeOK, Time, Others, rows, PublishDrop, PriceMoves, SetTarget,
         CreateAlert, DeleteAlert, DeleteItem, Tick
<1>3. \A a \in Active' : \/ a \in Active /\ created'[a] = created[a]
                         \/ created'[a] = now
  <2>1. CASE \E a \in Alert : CreateAlert(a)
    BY <2>1 DEF CreateAlert, IInv, TypeOK, Active
  <2>2. CASE UNCHANGED created /\ Active' \subseteq Active
    BY <2>2
  <2> QED
    BY <2>1, <2>2
    DEF Others, PublishDrop, PriceMoves, SetTarget, DeleteAlert, DeleteItem,
        Tick, rows, Active, IInv, TypeOK
<1>4. /\ \A w \in Worker : task[w].now \in Nat /\ task[w].now <= now
      /\ \A e \in Event : result[e].at \in Nat /\ result[e].at <= now
      /\ now \in Nat /\ now' \in Nat
  BY OthersTyped DEF IInv, TypeOK, Time, Task, Result, HInv, NothingAhead
<1>5. MailsPromised'
  BY <1>1, <1>3, <1>4 DEF HInv, MailsPromised, Mailed, Meets
<1>6. StampsLoaded'
  BY <1>1 DEF HInv, StampsLoaded, Mailed
<1>7. NothingAhead'
  BY <1>1, <1>2, <1>4 DEF NothingAhead
<1>8. NoOrphans'
  <2>1. CASE DeleteItem
    BY <2>1 DEF DeleteItem, NoOrphans, Active, IInv, TypeOK
  <2>2. CASE ~DeleteItem
    BY <2>2 DEF Others, PublishDrop, PriceMoves, SetTarget, CreateAlert,
                DeleteAlert, Tick, rows, HInv, NoOrphans, Active, IInv, TypeOK
  <2> QED
    BY <2>1, <2>2
<1>9. HandledMeansMailed'
  BY <1>1, <1>3, <1>4 DEF HInv, HandledMeansMailed
<1> QED
  BY <1>5, <1>6, <1>7, <1>8, <1>9 DEF HInv

LEMMA StepHandles == IInv /\ HInv /\ [Next]_vars => HInv'
<1> SUFFICES ASSUME IInv, HInv, [Next]_vars PROVE HInv'
  OBVIOUS
<1>1. CASE \E w \in Worker : TakeMessage(w)
  BY <1>1, StartNotifyHandles DEF TakeMessage
<1>2. ASSUME NEW w \in Worker, NotifyStep(w) PROVE HInv'
  BY <1>2, LoadProductHandles, SelectAlertsHandles, SendMailHandles,
     SendFailsHandles, StampAlertHandles, FinishNotifyHandles, RetryHandles
  DEF NotifyStep
<1>3. CASE \E w \in Worker : DatabaseFault(w) \/ RedisFault(w) \/ Crash(w)
  BY <1>3, RetryHandles
<1>4. CASE Others
  BY <1>4, OthersHandle
<1>5. CASE UNCHANGED vars
  BY <1>5 DEF vars, rows, HInv, MailsPromised, StampsLoaded, NothingAhead,
              NoOrphans, HandledMeansMailed, Mailed, Meets, Active
<1> QED
  BY <1>1, <1>2, <1>3, <1>4, <1>5 DEF Next

(***************************************************************************)
(* send_email's "a notification we silently drop is worse than one we      *)
(* retry": whatever the number of workers, whatever fails and is retried,  *)
(* an event whose task succeeded has mailed every alert that was older     *)
(* than the task and whose drop rule it met, unless that alert had had its *)
(* mail before.                                                            *)
(***************************************************************************)
THEOREM SuccessMeansMailed == Spec => []HandledMeansMailed
<1>1. HInv => HandledMeansMailed
  BY DEF HInv
<1>2. Spec => [](IInv /\ HInv)
  BY InitTyped, InitHandled, Inductive, StepHandles, PTL DEF Spec
<1> QED
  BY <1>1, <1>2, PTL

-----------------------------------------------------------------------------
(***************************************************************************)
(* The debounce, for one worker.  An alert whose last mail is not the one  *)
(* it is stamped with is either being stamped now, or was deleted before   *)
(* it could be, and is not mailed again; what a task has loaded are the    *)
(* current stamps, so the alerts it has yet to mail are a cooldown past    *)
(* theirs.                                                                 *)
(***************************************************************************)
OneWorker == \A v, w \in Worker : v = w

LastMail(a) == mails[a][Len(mails[a])]

Stampless(a) == Mailed(a) /\ lastFired[a] # LastMail(a)

StampOrder ==
  \A a \in Alert : Stampless(a) =>
    \/ \E w \in Worker : task[w].at = "stamp" /\ task[w].alert = a
    \/ /\ alerts[a] = "deleted"
       /\ \A w \in Worker : task[w].at \in {"loop", "stamp"}
                              => a \notin task[w].due

StampDue ==
  \A w \in Worker : task[w].at = "stamp" =>
    /\ task[w].alert \in Alert
    /\ alerts[task[w].alert] # "unused"
    /\ Mailed(task[w].alert)
    /\ LastMail(task[w].alert) = task[w].now

StampsCurrent ==
  \A w \in Worker : task[w].at = "select" => task[w].stamps = lastFired

DueLater ==
  \A w \in Worker : task[w].at \in {"loop", "stamp"} =>
    \A a \in task[w].due :
      /\ alerts[a] # "unused"
      /\ task[w].at = "loop" \/ a # task[w].alert
           => ~IsDebounced(lastFired[a], task[w].now)

DInv == StampOrder /\ StampDue /\ StampsCurrent /\ DueLater /\ DebounceHolds

LEMMA InitDebounced == Init => DInv
<1> SUFFICES ASSUME Init PROVE DInv
  OBVIOUS
<1>1. \A w \in Worker : task[w].at = "idle"
  BY DEF Init, NoTask
<1>2. StampOrder
  BY DEF Init, StampOrder, Stampless, Mailed
<1>3. StampDue /\ StampsCurrent /\ DueLater
  BY <1>1 DEF StampDue, StampsCurrent, DueLater
<1>4. DebounceHolds
  BY DEF Init, DebounceHolds
<1> QED
  BY <1>2, <1>3, <1>4 DEF DInv

\* The only worker's task becomes u.
LEMMA OnlyTask ==
  ASSUME TypeOK, OneWorker, NEW w \in Worker, NEW u,
         task' = [task EXCEPT ![w] = u]
  PROVE  \A v \in Worker : v = w /\ task'[v] = u
  BY DEF OneWorker, TypeOK

\* A worker that is not about to stamp does something else than mailing.
LEMMA AwayKeepsDebounce ==
  ASSUME TypeOK, OneWorker, DInv, NEW w \in Worker, task[w].at # "stamp",
         NEW u, task' = [task EXCEPT ![w] = u],
         u.at \notin {"select", "loop", "stamp"},
         UNCHANGED <<rows, lastFired, mails>>
  PROVE  DInv'
<1>1. \A v \in Worker : v = w /\ task'[v] = u
  BY OnlyTask
<1>2. \A a \in Alert : Stampless(a)' => Stampless(a)
  BY DEF Stampless, Mailed, LastMail
<1>3. StampOrder'
  BY <1>1, <1>2 DEF DInv, StampOrder, rows
<1>4. StampDue' /\ StampsCurrent' /\ DueLater'
  BY <1>1 DEF StampDue, StampsCurrent, DueLater
<1>5. DebounceHolds'
  BY DEF DInv, DebounceHolds
<1> QED
  BY <1>3, <1>4, <1>5 DEF DInv

LEMMA LoadKeepsDebounce ==
  ASSUME TypeOK, OneWorker, DInv, NEW w \in Worker, LoadProduct(w)
  PROVE  DInv'
<1>1. UNCHANGED <<rows, lastFired, mails>> /\ task[w].at = "load"
  BY DEF LoadProduct
<1>2. CASE ~tracked
  BY <1>1, <1>2, AwayKeepsDebounce DEF LoadProduct, Conclude, NoTask
<1>3. CASE tracked
  <2>1. PICK u : /\ task' = [task EXCEPT ![w] = u]
                 /\ u.at = "select"
                 /\ u.stamps = lastFired
    <3>1. task[w] \in Task
      BY DEF TypeOK
    <3> DEFINE v == [task[w] EXCEPT !.at = "select", !.now = now,
                       !.target = target, !.best = best, !.known = Active,
                       !.stamps = lastFired]
    <3>2. v.at = "select" /\ v.stamps = lastFired
      BY <3>1 DEF Task
    <3>3. task' = [task EXCEPT ![w] = v]
      BY <1>3 DEF LoadProduct
    <3> HIDE DEF v
    <3> QED
      BY <3>2, <3>3
  <2>2. \A v \in Worker : v = w /\ task'[v] = u
    BY <2>1, OnlyTask
  <2>3. \A a \in Alert : Stampless(a)' => Stampless(a)
    BY <1>1 DEF Stampless, Mailed, LastMail
  <2>4. StampOrder'
    BY <1>1, <2>1, <2>2, <2>3 DEF DInv, StampOrder, rows
  <2>5. StampDue' /\ StampsCurrent' /\ DueLater'
    BY <1>1, <2>1, <2>2 DEF StampDue, StampsCurrent, DueLater
  <2>6. DebounceHolds'
    BY <1>1 DEF DInv, DebounceHolds
  <2> QED
    BY <2>4, <2>5, <2>6 DEF DInv
<1> QED
  BY <1>2, <1>3

\* Only active alerts, past their cooldown, become due.
LEMMA SelectKeepsDebounce ==
  ASSUME TypeOK, OneWorker, DInv, NEW w \in Worker, SelectAlerts(w)
  PROVE  DInv'
<1> DEFINE stamp(a) == IF a \in task[w].known THEN task[w].stamps[a]
                       ELSE lastFired[a]
           d == {a \in Active :
                   /\ ThresholdMet(RuleOf[a], DropOf[task[w].event],
                                   task[w].best, task[w].target)
                   /\ ~IsDebounced(stamp(a), task[w].now)}
<1>1. /\ UNCHANGED <<rows, lastFired, mails>> /\ task[w].at = "select"
      /\ task' = [task EXCEPT ![w].at = "loop", ![w].due = d]
      /\ task[w] \in Task
  BY DEF SelectAlerts, TypeOK
<1>2. \A a \in d : /\ alerts[a] = "active" /\ a \in Alert
                   /\ ~IsDebounced(lastFired[a], task[w].now)
  BY <1>1 DEF DInv, StampsCurrent, Active
<1> HIDE DEF d
<1>3. PICK u : /\ task' = [task EXCEPT ![w] = u]
               /\ u.at = "loop"
               /\ u.due = d
               /\ u.now = task[w].now
  <2> DEFINE v == [task[w] EXCEPT !.at = "loop", !.due = d]
  <2>1. v.at = "loop" /\ v.due = d /\ v.now = task[w].now
    BY <1>1 DEF Task
  <2>2. task' = [task EXCEPT ![w] = v]
    BY <1>1 DEF TypeOK, Task
  <2> HIDE DEF v
  <2> QED
    BY <2>1, <2>2
<1>4. \A v \in Worker : v = w /\ task'[v] = u
  BY <1>3, OnlyTask
<1>5. \A a \in Alert : Stampless(a)' => Stampless(a)
  BY <1>1 DEF Stampless, Mailed, LastMail
<1>6. StampOrder'
  <2> SUFFICES ASSUME NEW a \in Alert, Stampless(a)'
               PROVE  alerts[a] = "deleted" /\ a \notin d
    BY <1>1, <1>3, <1>4 DEF StampOrder, rows
  <2>1. alerts[a] = "deleted"
    BY <1>1, <1>4, <1>5 DEF DInv, StampOrder
  <2> QED
    BY <1>2, <2>1
<1>7. StampDue' /\ StampsCurrent'
  BY <1>3, <1>4 DEF StampDue, StampsCurrent
<1>8. DueLater'
  BY <1>1, <1>2, <1>3, <1>4 DEF DueLater, rows, IsDebounced
<1>9. DebounceHolds'
  BY <1>1 DEF DInv, DebounceHolds
<1> QED
  BY <1>6, <1>7, <1>8, <1>9 DEF DInv

\* The mail that is sent comes a cooldown after the one before it, whose time
\* is the stamp the task has found; and so after all the others.
LEMMA SendKeepsDebounce ==
  ASSUME TypeOK, OneWorker, DInv, NEW w \in Worker, NEW b \in Alert,
         SendMail(w, b)
  PROVE  DInv'
<1> PICK t : t = task[w].now
  OBVIOUS
<1>1. /\ UNCHANGED <<rows, lastFired>>
      /\ task[w].at = "loop" /\ b \in task[w].due
      /\ task[w] \in Task /\ t \in Time /\ t \in Nat
      /\ mails[b] \in Seq(Time) /\ mails \in [Alert -> Seq(Time)]
      /\ mails' = [mails EXCEPT ![b] = Append(@, t)]
  BY DEF SendMail, TypeOK, Task, Time
<1>2. PICK u : /\ task' = [task EXCEPT ![w] = u]
               /\ u.at = "stamp"
               /\ u.due = task[w].due
               /\ u.now = t
               /\ u.alert = b
  <2> DEFINE v == [task[w] EXCEPT !.at = "stamp", !.alert = b]
  <2>1. v.at = "stamp" /\ v.due = task[w].due /\ v.now = t /\ v.alert = b
    BY <1>1 DEF Task
  <2>2. task' = [task EXCEPT ![w] = v]
    BY DEF SendMail
  <2> HIDE DEF v
  <2> QED
    BY <2>1, <2>2
<1>3. \A v \in Worker : v = w /\ task'[v] = u
  BY <1>2, OnlyTask
<1>4. /\ mails'[b] = Append(mails[b], t)
      /\ \A a \in Alert \ {b} : mails'[a] = mails[a]
  BY <1>1
<1>5. /\ Len(mails'[b]) = Len(mails[b]) + 1
      /\ Len(mails[b]) \in Nat
      /\ DOMAIN mails'[b] = 1..(Len(mails[b]) + 1)
      /\ DOMAIN mails[b] = 1..Len(mails[b])
      /\ \A i \in 1..Len(mails[b]) : mails'[b][i] = mails[b][i]
      /\ mails'[b][Len(mails[b]) + 1] = t
      /\ \A i \in 1..Len(mails[b]) : mails[b][i] \in Time
      /\ mails'[b] # <<>>
  BY <1>1, <1>4
<1>6. /\ ~Stampless(b)
      /\ ~IsDebounced(lastFired[b], t)
      /\ alerts[b] # "unused"
  BY <1>1, <1>3 DEF DInv, StampOrder, DueLater
<1>7. \A i \in 1..Len(mails[b]) : t >= mails[b][i] + Cooldown
  <2> SUFFICES ASSUME NEW i \in 1..Len(mails[b])
               PROVE  t >= mails[b][i] + Cooldown
    OBVIOUS
  <2> PICK n : n = Len(mails[b])
    OBVIOUS
  <2>1. /\ n \in 1..Len(mails[b]) /\ mails[b] # <<>>
        /\ mails[b][i] \in Nat /\ mails[b][n] \in Nat
    BY <1>1, <1>5 DEF Time
  <2>2. lastFired[b] = mails[b][n] /\ lastFired[b] # None
    BY <1>6, <2>1, NoneAssumption DEF Stampless, Mailed, LastMail
  <2>3. t >= mails[b][n] + Cooldown
    BY <1>1, <1>6, <2>1, <2>2, NumbersAssumption DEF IsDebounced
  <2>4. i = n \/ mails[b][n] >= mails[b][i] + Cooldown
    BY <1>5, <2>1 DEF DInv, DebounceHolds
  <2> QED
    BY <1>1, <2>1, <2>3, <2>4, NumbersAssumption
<1>8. DebounceHolds'
  <2> SUFFICES ASSUME NEW a \in Alert, NEW i \in DOMAIN mails'[a],
                      NEW j \in DOMAIN mails'[a], i < j
               PROVE  mails'[a][j] >= mails'[a][i] + Cooldown
    BY DEF DebounceHolds
  <2>1. CASE a # b
    BY <1>4, <2>1 DEF DInv, DebounceHolds
  <2>2. CASE a = b
    <3>1. i \in 1..Len(mails[b])
      BY <1>5, <2>2
    <3>2. CASE j = Len(mails[b]) + 1
      BY <1>5, <1>7, <2>2, <3>1, <3>2
    <3>3. CASE j \in 1..Len(mails[b])
      BY <1>5, <2>2, <3>1, <3>3 DEF DInv, DebounceHolds
    <3> QED
      BY <1>5, <2>2, <3>2, <3>3
  <2> QED
    BY <2>1, <2>2
<1>9. StampOrder'
  <2> SUFFICES ASSUME NEW a \in Alert, Stampless(a)', a # b
               PROVE  alerts[a] = "deleted" /\ a \notin task[w].due
    BY <1>1, <1>2, <1>3 DEF StampOrder, rows
  <2>1. Stampless(a)
    BY <1>1, <1>4 DEF Stampless, Mailed, LastMail
  <2> QED
    BY <1>1, <1>3, <2>1 DEF DInv, StampOrder
<1>10. StampDue'
  BY <1>1, <1>2, <1>3, <1>5, <1>6 DEF StampDue, Mailed, LastMail, rows
<1>11. StampsCurrent'
  BY <1>2, <1>3 DEF StampsCurrent
<1>12. DueLater'
  BY <1>1, <1>2, <1>3 DEF DInv, DueLater, rows, IsDebounced
<1> QED
  BY <1>8, <1>9, <1>10, <1>11, <1>12 DEF DInv

\* The stamp catches up with the mail, or the alert is gone.
LEMMA StampKeepsDebounce ==
  ASSUME TypeOK, OneWorker, DInv, NEW w \in Worker, StampAlert(w)
  PROVE  DInv'
<1> PICK b : b = task[w].alert
  OBVIOUS
<1>1. /\ UNCHANGED <<rows, mails>>
      /\ task[w].at = "stamp"
      /\ task[w] \in Task
      /\ b \in Alert /\ alerts[b] # "unused"
      /\ Mailed(b) /\ LastMail(b) = task[w].now
      /\ alerts[b] \in AlertState
  BY DEF StampAlert, TypeOK, DInv, StampDue
<1>2. DebounceHolds'
  BY <1>1 DEF DInv, DebounceHolds
<1>3. CASE b \notin Active
  <2>1. alerts[b] = "deleted"
    BY <1>1, <1>3 DEF Active, AlertState
  <2>2. PICK u : task' = [task EXCEPT ![w] = u] /\ u.at = "retry"
    <3> DEFINE v == [task[w] EXCEPT !.at = "retry"]
    <3>1. v.at = "retry" /\ task' = [task EXCEPT ![w] = v]
      BY <1>1, <1>3 DEF StampAlert, Task
    <3> HIDE DEF v
    <3> QED
      BY <3>1
  <2>3. \A v \in Worker : v = w /\ task'[v] = u
    BY <2>2, OnlyTask
  <2>4. \A a \in Alert : Stampless(a)' => Stampless(a)
    BY <1>1, <1>3 DEF StampAlert, Stampless, Mailed, LastMail
  <2>5. StampOrder'
    BY <1>1, <2>1, <2>2, <2>3, <2>4 DEF DInv, StampOrder, rows
  <2>6. StampDue' /\ StampsCurrent' /\ DueLater'
    BY <2>2, <2>3 DEF StampDue, StampsCurrent, DueLater
  <2> QED
    BY <1>2, <2>5, <2>6 DEF DInv
<1>4. CASE b \in Active
  <2>1. PICK u : /\ task' = [task EXCEPT ![w] = u]
                 /\ u.at = "loop"
                 /\ u.due = task[w].due \ {b}
                 /\ u.now = task[w].now
    <3> DEFINE v == [task[w] EXCEPT !.at = "loop", !.due = @ \ {b}]
    <3>1. /\ v.at = "loop" /\ v.due = task[w].due \ {b}
          /\ v.now = task[w].now
      BY <1>1 DEF Task
    <3>2. task' = [task EXCEPT ![w] = v]
      BY <1>1, <1>4 DEF StampAlert
    <3> HIDE DEF v
    <3> QED
      BY <3>1, <3>2
  <2>2. \A v \in Worker : v = w /\ task'[v] = u
    BY <2>1, OnlyTask
  <2>3. /\ lastFired'[b] = LastMail(b)
        /\ \A a \in Alert \ {b} : lastFired'[a] = lastFired[a]
    BY <1>1, <1>4 DEF StampAlert, TypeOK
  <2>4. \A a \in Alert : Stampless(a)' => a # b /\ Stampless(a)
    BY <1>1, <2>3 DEF Stampless, Mailed, LastMail
  <2>5. StampOrder'
    <3> SUFFICES ASSUME NEW a \in Alert, Stampless(a)'
                 PROVE  alerts[a] = "deleted" /\ a \notin task[w].due
      BY <1>1, <2>1, <2>2 DEF StampOrder, rows
    <3>1. a # b /\ Stampless(a)
      BY <2>4
    <3> QED
      BY <1>1, <2>2, <3>1 DEF DInv, StampOrder
  <2>6. StampDue' /\ StampsCurrent'
    BY <2>1, <2>2 DEF StampDue, StampsCurrent
  <2>7. DueLater'
    <3> SUFFICES ASSUME NEW a \in task[w].due, a # b
                 PROVE  /\ alerts[a] # "unused"
                        /\ ~IsDebounced(lastFired'[a], task[w].now)
      BY <1>1, <2>1, <2>2 DEF DueLater, rows, IsDebounced
    <3>1. a \in Alert
      BY <1>1 DEF Task
    <3> QED
      BY <1>1, <2>3, <3>1 DEF DInv, DueLater
  <2> QED
    BY <1>2, <2>5, <2>6, <2>7 DEF DInv
<1> QED
  BY <1>3, <1>4

LEMMA OthersKeepDebounce ==
  ASSUME TypeOK, DInv, Others
  PROVE  DInv'
<1>1. UNCHANGED <<lastFired, mails, task>>
  BY DEF Others, PublishDrop, PriceMoves, SetTarget, CreateAlert, DeleteAlert,
         DeleteItem, Tick
<1>2. \A a \in Alert : /\ alerts[a] = "deleted" => alerts'[a] = "deleted"
                       /\ alerts[a] # "unused" => alerts'[a] # "unused"
  BY DEF Others, PublishDrop, PriceMoves, SetTarget, CreateAlert, DeleteAlert,
         DeleteItem, Tick, rows, TypeOK, Active
<1>3. StampOrder'
  BY <1>1, <1>2 DEF DInv, StampOrder, Stampless, Mailed, LastMail
<1>4. StampDue'
  BY <1>1, <1>2 DEF DInv, StampDue, Mailed, LastMail
<1>5. StampsCurrent' /\ DebounceHolds'
  BY <1>1 DEF DInv, StampsCurrent, DebounceHolds
<1>6. DueLater'
  <2>1. \A w \in Worker : task[w].due \subseteq Alert
    BY DEF TypeOK, Task
  <2> QED
    BY <1>1, <1>2, <2>1 DEF DInv, DueLater, IsDebounced
<1> QED
  BY <1>3, <1>4, <1>5, <1>6 DEF DInv

LEMMA StepKeepsDebounce ==
  ASSUME OneWorker, Faults \subseteq {"smtp", "redis"}, TypeOK, DInv, [Next]_vars
  PROVE  DInv'
<1>1. ASSUME NEW w \in Worker, NEW m \in Message, StartNotify(w, m)
      PROVE  DInv'
  <2> DEFINE u == [NoTask EXCEPT !.at = "load", !.event = m.event,
                                 !.retries = m.retries]
  <2>1. /\ task' = [task EXCEPT ![w] = u]
        /\ task[w].at = "idle"
        /\ UNCHANGED <<rows, lastFired, mails>>
    BY <1>1 DEF StartNotify
  <2>2. u.at = "load"
    BY DEF NoTask
  <2> HIDE DEF u
  <2> QED
    BY <2>1, <2>2, AwayKeepsDebounce
<1>2. ASSUME NEW w \in Worker, NEW a \in Alert, SendFails(w, a)
      PROVE  DInv'
  <2>1. /\ task[w].at = "loop" /\ task[w] \in Task
        /\ task' = [task EXCEPT ![w].at = "retry"]
        /\ UNCHANGED <<rows, lastFired, mails>>
    BY <1>2 DEF SendFails, Goto, TypeOK
  <2> DEFINE u == [task[w] EXCEPT !.at = "retry"]
  <2>2. u.at = "retry" /\ task' = [task EXCEPT ![w] = u]
    BY <2>1 DEF Task
  <2> HIDE DEF u
  <2> QED
    BY <2>1, <2>2, AwayKeepsDebounce
<1>3. ASSUME NEW w \in Worker,
             \/ FinishNotify(w) \/ RetryOrGiveUp(w) \/ ParkNotification(w)
             \/ RedisFault(w)
      PROVE  DInv'
  <2>1. /\ task[w].at # "stamp" /\ task[w] \in Task
        /\ UNCHANGED <<rows, lastFired, mails>>
    BY <1>3 DEF FinishNotify, RetryOrGiveUp, ParkNotification, RedisFault, TypeOK
  <2>2. CASE task' = [task EXCEPT ![w] = NoTask]
    BY <2>1, <2>2, AwayKeepsDebounce DEF NoTask
  <2>3. CASE task' = [task EXCEPT ![w].at = "deadLetter"]
    <3> DEFINE u == [task[w] EXCEPT !.at = "deadLetter"]
    <3>1. u.at = "deadLetter" /\ task' = [task EXCEPT ![w] = u]
      BY <2>1, <2>3 DEF Task
    <3> HIDE DEF u
    <3> QED
      BY <2>1, <3>1, AwayKeepsDebounce
  <2> QED
    BY <1>3, <2>2, <2>3
    DEF FinishNotify, RetryOrGiveUp, ParkNotification, RedisFault, Conclude
<1>4. ASSUME NEW w \in Worker, NotifyStep(w) PROVE DInv'
  BY <1>2, <1>3, <1>4, LoadKeepsDebounce, SelectKeepsDebounce,
     SendKeepsDebounce, StampKeepsDebounce DEF NotifyStep
<1>5. \A w \in Worker : ~DatabaseFault(w) /\ ~Crash(w)
  BY DEF DatabaseFault, Crash
<1>6. CASE UNCHANGED vars
  BY <1>6 DEF vars, rows, DInv, StampOrder, StampDue, StampsCurrent, DueLater,
              DebounceHolds, Stampless, Mailed, LastMail, IsDebounced
<1> QED
  BY <1>1, <1>3, <1>4, <1>5, <1>6, OthersKeepDebounce DEF Next, TakeMessage

(***************************************************************************)
(* "The same alert won't re-fire within ALERT_DEBOUNCE_SECONDS": with one  *)
(* worker that mails, a server that only fails before it takes a mail, and *)
(* no failure between a mail and its stamp, however many retries there are *)
(* or get lost, and whatever the user deletes meanwhile.  (A second worker, or a        *)
(* failure after the mail was taken, lets it re-fire: send and stamp are   *)
(* not one transaction.)                                                   *)
(***************************************************************************)
THEOREM MailsAreDebounced ==
  ASSUME OneWorker, Faults \subseteq {"smtp", "redis"}
  PROVE  Spec => []DebounceHolds
<1>1. DInv => DebounceHolds
  BY DEF DInv
<1>2. DInv /\ TypeOK /\ [Next]_vars => DInv'
  BY StepKeepsDebounce
<1> QED
  BY <1>1, <1>2, InitDebounced, NotifyTypeCorrect, PTL DEF Spec

=============================================================================
