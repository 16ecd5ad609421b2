------------------------------- MODULE Model3D -------------------------------
(***************************************************************************)
(* 3D previews: a web request (re)starts the generation of a product's     *)
(* model and spends a credit of the month's quota; a Celery task, or the   *)
(* pre-generation script, drives the paid job at the provider, downloads   *)
(* its two files and marks the product_models row ready.                   *)
(*                                                                         *)
(* run_generation flushes "generating" first and commits last, so its      *)
(* transaction holds the row (PostgreSQL's row lock, or the unique key of  *)
(* the row it inserts) while it polls and downloads: "generating" is never *)
(* read by anyone else, and a second writer of the row waits.              *)
(* One calendar month; every product has an offer with a photo.            *)
(***************************************************************************)
EXTENDS Naturals, Sequences

CONSTANTS
  Product,          \* tracked products
  None,
  Request,          \* POSTs that start a generation: as many as there are
  Worker,           \* Celery worker processes
  Script,           \* runs of scripts/pregen_models, of one product each
  Cap,              \* model3d_monthly_cap
  MaxRetries,       \* generate_model3d's max_retries
  OutOfRetries,     \* what self.retry(exc=e) does then: "raise" e, or "park"
  Faults            \* the kinds of failure a behaviour may contain

(***************************************************************************)
(* "photo"    the provider ends a job as FAILED or CANCELED                *)
(* "provider" a call to the provider fails, a job does not end in time, or *)
(*            its result lacks a file                                      *)
(* "reply"    creating a job fails although the provider has created it    *)
(* "database" a transaction of a worker fails                              *)
(* "redis"    Redis is unreachable while a request spends or enqueues, or  *)
(*            a task publishes its retry                                   *)
(* "crash"    a process dies                                               *)
(***************************************************************************)
FaultKind == {"photo", "provider", "reply", "database", "redis", "crash"}

ASSUME NoneAssumption    == None \notin Nat \cup Product \cup Request
ASSUME ProcessAssumption == Worker \cap Script = {}
ASSUME NumbersAssumption == Cap \in Nat /\ MaxRetries \in Nat
ASSUME RetryAssumption   ==
  OutOfRetries \subseteq {"raise", "park"} /\ OutOfRetries # {}
ASSUME FaultsAssumption  == Faults \subseteq FaultKind

VARIABLES
  tracked,  \* SUBSET Product: those whose tracked_products row exists
  row,      \* [Product -> Model]: the committed product_models row
  lock,     \* [Product -> Process or None]: whose transaction holds it
  used,     \* the month's counter in Redis
  jobs,     \* the provider's jobs, each one paid for
  files,    \* [Product -> Files]: what model3d_storage_dir holds
  queue,    \* generate_model3d messages waiting
  request,  \* [Request -> RequestState]
  task      \* [Process -> Task]

vars == <<tracked, row, lock, used, jobs, files, queue, request, task>>

-----------------------------------------------------------------------------
Process == Worker \cup Script
JobId   == (Nat \ {0}) \cup {None}

Job     == [product : Product, good : BOOLEAN]
Model   == [status : {"none", "pending", "failed", "ready"}, job : JobId]
Files   == [glb : JobId, usdz : JobId]        \* each by the job it is of
Message == [request : Request, product : Product, retries : 0..MaxRetries]

RequestState ==
  [at      : {"unsent", "quota", "commit", "spend", "enqueue", "done"},
   product : Product \cup {None},
   loaded  : Model]

Control == {"idle", "load", "begin", "create", "poll", "glb", "usdz", "commit",
            "retry", "park", "mark", "done"}

Task ==
  [at      : Control,
   request : Request \cup {None},
   product : Product \cup {None},
   retries : 0..MaxRetries,
   loaded  : Model,                           \* the row as the session read it
   job     : JobId]

NoModel == [status |-> "none", job |-> None]
NoTask  == [at |-> "idle", request |-> None, product |-> None, retries |-> 0,
            loaded |-> NoModel, job |-> None]

TypeOK ==
  /\ tracked \in SUBSET Product
  /\ row \in [Product -> Model]
  /\ lock \in [Product -> Process \cup {None}]
  /\ used \in Nat
  /\ jobs \in Seq(Job)
  /\ files \in [Product -> Files]
  /\ queue \in SUBSET Message
  /\ request \in [Request -> RequestState]
  /\ task \in [Process -> Task]

Init ==
  /\ tracked = Product
  /\ row = [p \in Product |-> NoModel]
  /\ lock = [p \in Product |-> None]
  /\ used = 0
  /\ jobs = <<>>
  /\ files = [p \in Product |-> [glb |-> None, usdz |-> None]]
  /\ queue = {}
  /\ request = [r \in Request |->
                  [at |-> "unsent", product |-> None, loaded |-> NoModel]]
  /\ task = [x \in Process |-> NoTask]

\* An INSERT needs that there is no row yet, an UPDATE that there is one.
Writable(p, loaded) ==
  p \in tracked /\ (loaded.status = "none" <=> row[p].status = "none")

-----------------------------------------------------------------------------
(* POST /app/items/{item_id}/model3d                                       *)

RequestModel(r, p) ==
  /\ request[r].at = "unsent"
  /\ p \in tracked
  /\ request' = [request EXCEPT ![r] =
                   [at |-> "quota", product |-> p, loaded |-> row[p]]]
  /\ UNCHANGED <<tracked, row, lock, used, jobs, files, queue, task>>

\* startable and model3d_quota_ok()
CheckQuota(r) ==
  /\ request[r].at = "quota"
  /\ request' = [request EXCEPT ![r].at =
                   IF request[r].loaded.status # "pending" /\ used < Cap
                   THEN "commit" ELSE "done"]
  /\ UNCHANGED <<tracked, row, lock, used, jobs, files, queue, task>>

\* The commit writes the attributes that differ from the row as it was read.
CommitRequest(r) ==
  LET p == request[r].product
      l == request[r].loaded
  IN
  /\ request[r].at = "commit"
  /\ lock[p] = None
  /\ IF Writable(p, l)
     THEN /\ row' = [row EXCEPT ![p] = [status |-> "pending",
                        job |-> IF l.job # None THEN None ELSE @.job]]
          /\ request' = [request EXCEPT ![r].at = "spend"]
     ELSE /\ request' = [request EXCEPT ![r].at = "done"]
          /\ UNCHANGED row
  /\ UNCHANGED <<tracked, lock, used, jobs, files, queue, task>>

\* Mutant: counting is best effort, and a failure of Redis is swallowed.
SpendCreditBestEffort(r) ==
  /\ request[r].at = "spend"
  /\ used' \in {used + 1} \cup (IF "redis" \in Faults THEN {used} ELSE {})
  /\ request' = [request EXCEPT ![r].at = "enqueue"]
  /\ UNCHANGED <<tracked, row, lock, jobs, files, queue, task>>

\* model3d_quota_spend; should it raise, the row stays pending without a task.
SpendCredit(r) ==
  /\ request[r].at = "spend"
  /\ used' = used + 1
  /\ request' = [request EXCEPT ![r].at = "enqueue"]
  /\ UNCHANGED <<tracked, row, lock, jobs, files, queue, task>>

Enqueue(r) ==
  /\ request[r].at = "enqueue"
  /\ queue' = queue \cup {[request |-> r, product |-> request[r].product,
                           retries |-> 0]}
  /\ request' = [request EXCEPT ![r].at = "done"]
  /\ UNCHANGED <<tracked, row, lock, used, jobs, files, task>>

RequestBreaks(r) ==
  /\ \/ "redis" \in Faults /\ request[r].at \in {"quota", "spend", "enqueue"}
     \/ "crash" \in Faults /\ request[r].at \notin {"unsent", "done"}
  /\ request' = [request EXCEPT ![r].at = "done"]
  /\ UNCHANGED <<tracked, row, lock, used, jobs, files, queue, task>>

-----------------------------------------------------------------------------
(* generate_model3d and run_generation                                     *)

Unlocked(x) == [p \in Product |-> IF lock[p] = x THEN None ELSE lock[p]]

Finished(x) == [NoTask EXCEPT !.at = IF x \in Script THEN "done" ELSE "idle"]

\* The task ends; its session is closed.
Finish(x) == task' = [task EXCEPT ![x] = Finished(x)] /\ lock' = Unlocked(x)

\* Mutant: the transaction of an attempt that failed stays open.
RaiseInTransaction(x) ==
  /\ task' = [task EXCEPT ![x] =
                IF x \in Script THEN Finished(x) ELSE [@ EXCEPT !.at = "retry"]]
  /\ UNCHANGED lock

\* An exception: rollback.  The script has no handler.
Raise(x) ==
  /\ lock' = Unlocked(x)
  /\ task' = [task EXCEPT ![x] =
                IF x \in Script THEN Finished(x) ELSE [@ EXCEPT !.at = "retry"]]

StartGenerate(w, m) ==
  /\ task[w].at = "idle"
  /\ m \in queue
  /\ queue' = queue \ {m}
  /\ task' = [task EXCEPT ![w] = [NoTask EXCEPT !.at = "load",
       !.request = m.request, !.product = m.product, !.retries = m.retries]]
  /\ UNCHANGED <<tracked, row, lock, used, jobs, files, request>>

LoadModel(w) ==
  LET p == task[w].product IN
  /\ task[w].at = "load"
  /\ IF row[p].status \in {"none", "ready"}
     THEN Finish(w)
     ELSE /\ task' = [task EXCEPT ![w] = [@ EXCEPT !.at = "begin", !.loaded = row[p]]]
          /\ UNCHANGED lock
  /\ UNCHANGED <<tracked, row, used, jobs, files, queue, request>>

StartScript(s, p) ==
  /\ task[s].at = "idle"
  /\ p \in tracked
  /\ row[p].status # "ready"
  /\ task' = [task EXCEPT ![s] = [NoTask EXCEPT !.at = "begin", !.product = p,
                                                !.loaded = row[p]]]
  /\ UNCHANGED <<tracked, row, lock, used, jobs, files, queue, request>>

\* status = "generating"; flush.
BeginGeneration(x) ==
  LET p == task[x].product
      l == task[x].loaded
  IN
  /\ task[x].at = "begin"
  /\ lock[p] = None
  /\ IF Writable(p, l)
     THEN /\ lock' = [lock EXCEPT ![p] = x]
          /\ task' = [task EXCEPT ![x] = [@ EXCEPT
               !.at = IF l.job = None THEN "create" ELSE "poll", !.job = l.job]]
     ELSE Raise(x)
  /\ UNCHANGED <<tracked, row, used, jobs, files, queue, request>>

NewJobs(p) ==
  {[product |-> p, good |-> g] :
     g \in IF "photo" \in Faults THEN BOOLEAN ELSE {TRUE}}

CreateJob(x) ==
  /\ task[x].at = "create"
  /\ \E j \in NewJobs(task[x].product) : jobs' = Append(jobs, j)
  /\ task' = [task EXCEPT ![x] = [@ EXCEPT !.at = "poll", !.job = Len(jobs) + 1]]
  /\ UNCHANGED <<tracked, row, lock, used, files, queue, request>>

\* The row that x commits with this status.
Written(x, status) ==
  [status |-> status,
   job |-> IF task[x].job # task[x].loaded.job
           THEN task[x].job ELSE row[task[x].product].job]

\* The job's end; GenerationFailed commits the failed status.
PollJob(x) ==
  /\ task[x].at = "poll"
  /\ \/ /\ jobs[task[x].job].good
        /\ task' = [task EXCEPT ![x].at = "glb"]
        /\ UNCHANGED <<row, lock>>
     \/ /\ ~jobs[task[x].job].good
        /\ x \in Worker
        /\ row' = [row EXCEPT ![task[x].product] = Written(x, "failed")]
        /\ Finish(x)
     \/ /\ ~jobs[task[x].job].good
        /\ x \in Script
        /\ Raise(x)
        /\ UNCHANGED row
  /\ UNCHANGED <<tracked, used, jobs, files, queue, request>>

DownloadGlb(x) ==
  /\ task[x].at = "glb"
  /\ files' = [files EXCEPT ![task[x].product].glb = task[x].job]
  /\ task' = [task EXCEPT ![x].at = "usdz"]
  /\ UNCHANGED <<tracked, row, lock, used, jobs, queue, request>>

\* Mutant: a file that is already there is not downloaded again.
DownloadUsdzOnce(x) ==
  /\ task[x].at = "usdz"
  /\ files' = [files EXCEPT ![task[x].product].usdz =
                 IF @ = None THEN task[x].job ELSE @]
  /\ task' = [task EXCEPT ![x].at = "commit"]
  /\ UNCHANGED <<tracked, row, lock, used, jobs, queue, request>>

DownloadUsdz(x) ==
  /\ task[x].at = "usdz"
  /\ files' = [files EXCEPT ![task[x].product].usdz = task[x].job]
  /\ task' = [task EXCEPT ![x].at = "commit"]
  /\ UNCHANGED <<tracked, row, lock, used, jobs, queue, request>>

CommitModel(x) ==
  /\ task[x].at = "commit"
  /\ row' = [row EXCEPT ![task[x].product] = Written(x, "ready")]
  /\ Finish(x)
  /\ UNCHANGED <<tracked, used, jobs, files, queue, request>>

ProviderFails(x) ==
  /\ \/ /\ "provider" \in Faults
        /\ task[x].at \in {"create", "poll", "glb", "usdz"}
        /\ UNCHANGED jobs
     \/ /\ "reply" \in Faults
        /\ task[x].at = "create"
        /\ \E j \in NewJobs(task[x].product) : jobs' = Append(jobs, j)
  /\ Raise(x)
  /\ UNCHANGED <<tracked, row, used, files, queue, request>>

\* Mutant: one retry too many.
RetryOnceMore(w) ==
  LET t == task[w] IN
  /\ t.at = "retry"
  /\ task' = [task EXCEPT ![w] = NoTask]
  /\ queue' = IF t.retries > MaxRetries THEN queue
              ELSE queue \cup {[request |-> t.request, product |-> t.product,
                                retries |-> t.retries + 1]}
  /\ UNCHANGED <<tracked, row, lock, used, jobs, files, request>>

RetryOrGiveUp(w) ==
  LET t == task[w] IN
  /\ t.at = "retry"
  /\ \/ /\ t.retries < MaxRetries
        /\ queue' = queue \cup {[request |-> t.request, product |-> t.product,
                                 retries |-> t.retries + 1]}
        /\ task' = [task EXCEPT ![w] = NoTask]
     \/ /\ t.retries = MaxRetries
        /\ \/ /\ "raise" \in OutOfRetries
              /\ task' = [task EXCEPT ![w] = NoTask]
           \/ /\ "park" \in OutOfRetries
              /\ task' = [task EXCEPT ![w].at = "park"]
        /\ UNCHANGED queue
  /\ UNCHANGED <<tracked, row, lock, used, jobs, files, request>>

\* _dead_letter, and the row as _mark_model3d_failed reads it.
ParkGeneration(w) ==
  LET p == task[w].product IN
  /\ task[w].at = "park"
  /\ task' = [task EXCEPT ![w] =
                IF row[p].status = "none" THEN NoTask
                ELSE [@ EXCEPT !.at = "mark", !.loaded = row[p]]]
  /\ UNCHANGED <<tracked, row, lock, used, jobs, files, queue, request>>

MarkFailed(w) ==
  LET p == task[w].product IN
  /\ task[w].at = "mark"
  /\ lock[p] = None
  /\ row' = IF row[p].status = "none" \/ task[w].loaded.status = "failed"
            THEN row ELSE [row EXCEPT ![p].status = "failed"]
  /\ Finish(w)
  /\ UNCHANGED <<tracked, used, jobs, files, queue, request>>

\* Failing to commit a failed generation, to park a task or to mark its row
\* ends the task.
DatabaseFault(x) ==
  /\ "database" \in Faults
  /\ \/ task[x].at \in {"load", "begin", "commit"} /\ Raise(x)
     \/ /\ \/ task[x].at \in {"park", "mark"}
           \/ task[x].at = "poll" /\ ~jobs[task[x].job].good
        /\ Finish(x)
  /\ UNCHANGED <<tracked, row, used, jobs, files, queue, request>>

\* self.retry cannot publish: Celery rejects the message, which is lost.
RedisFault(w) ==
  /\ "redis" \in Faults
  /\ task[w].at = "retry"
  /\ task[w].retries < MaxRetries
  /\ task' = [task EXCEPT ![w] = NoTask]
  /\ UNCHANGED <<tracked, row, lock, used, jobs, files, queue, request>>

Crash(x) ==
  /\ "crash" \in Faults
  /\ task[x].at \notin {"idle", "done"}
  /\ Finish(x)
  /\ UNCHANGED <<tracked, row, used, jobs, files, queue, request>>

\* The row goes with the product; the files stay.
DeleteItem(p) ==
  /\ p \in tracked
  /\ lock[p] = None
  /\ tracked' = tracked \ {p}
  /\ row' = [row EXCEPT ![p] = NoModel]
  /\ UNCHANGED <<lock, used, jobs, files, queue, request, task>>

-----------------------------------------------------------------------------
RequestStep(r) ==
  CheckQuota(r) \/ CommitRequest(r) \/ SpendCredit(r) \/ Enqueue(r)

GenerationStep(x) ==
  \/ BeginGeneration(x)
  \/ CreateJob(x)
  \/ PollJob(x)
  \/ DownloadGlb(x)
  \/ DownloadUsdz(x)
  \/ CommitModel(x)

TaskStep(w) ==
  \/ LoadModel(w)
  \/ GenerationStep(w)
  \/ RetryOrGiveUp(w)
  \/ ParkGeneration(w)
  \/ MarkFailed(w)

TakeMessage(w) == \E m \in queue : StartGenerate(w, m)

Next ==
  \/ \E r \in Request : \/ \E p \in Product : RequestModel(r, p)
                        \/ RequestStep(r) \/ RequestBreaks(r)
  \/ \E w \in Worker : TakeMessage(w) \/ TaskStep(w) \/ RedisFault(w)
  \/ \E s \in Script : \/ \E p \in Product : StartScript(s, p)
                       \/ GenerationStep(s)
  \/ \E x \in Process : ProviderFails(x) \/ DatabaseFault(x) \/ Crash(x)
  \/ \E p \in Product : DeleteItem(p)

Spec == Init /\ [][Next]_vars

\* Requests and tasks keep running: every HTTP call has a timeout, and polling
\* a deadline.  Users, operators and failures owe nothing.
FairSpec ==
  /\ Spec
  /\ \A r \in Request : WF_vars(RequestStep(r))
  /\ \A w \in Worker : WF_vars(TakeMessage(w) \/ TaskStep(w))
  /\ \A s \in Script : WF_vars(GenerationStep(s))

-----------------------------------------------------------------------------
(* Safety                                                                  *)

\* Every job the provider is paid for was counted: "cost is bounded by design".
CreditsCover == Len(jobs) <= used

\* Of the jobs the provider is paid for, a counted request starts at most one
\* per attempt of its task.
JobsBounded == Len(jobs) <= (MaxRetries + 1) * used

\* "A hard monthly cap."
CapRespected == used <= Cap

\* A row that waits for a generation has no job to resume: the request "resets
\* for a fresh run".  Not so when the row it had read had no job either and a
\* whole generation went by before its commit.
PendingIsFresh ==
  \A p \in Product : row[p].status = "pending" => row[p].job = None

\* What model3d_file serves of a ready model is complete, and both files are of
\* one job.
ServedTogether ==
  \A p \in Product :
    row[p].status = "ready" =>
      files[p].glb # None /\ files[p].usdz = files[p].glb

\* "Cache-once: never regenerate implicitly": no generation begins on a row
\* that is ready; regenerating makes it pending first.  Only one process keeps
\* this: the row was read before the flush waited for another transaction.
CacheOnce ==
  [][\A p \in Product :
       lock[p] = None /\ lock'[p] # None => row[p].status # "ready"]_vars

-----------------------------------------------------------------------------
(* Liveness                                                                *)

\* Generations end, whatever fails and whoever waits for whose row: the queue
\* empties, every process is free and every row can be written.
GenerationsEnd ==
  <>[](/\ queue = {}
       /\ \A x \in Process : task[x].at \in {"idle", "done"}
       /\ \A p \in Product : lock[p] = None)

\* A preview that is pending settles, ready or failed, and so gets its button
\* back, since "exhausted retries dead-letter" and mark the row: a request for
\* a pending row starts nothing.
PreviewSettles ==
  \A p \in Product : row[p].status = "pending" ~> row[p].status # "pending"

=============================================================================
