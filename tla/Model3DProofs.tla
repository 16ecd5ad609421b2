---------------------------- MODULE Model3DProofs ----------------------------
(* Theorems about Model3D, for every value of its constants. *)
EXTENDS Model3D, TLAPS, FiniteSetTheorems

(***************************************************************************)
(* Assigning some local variables of a task keeps their types, and leaves  *)
(* the others as they were.                                                *)
(***************************************************************************)
LEMMA TaskAssignments ==
  ASSUME NEW t \in Task, NEW c \in Control
  PROVE  /\ [t EXCEPT !.at = c] \in Task
         /\ [t EXCEPT !.at = c].at = c
         /\ [t EXCEPT !.at = c].request = t.request
         /\ [t EXCEPT !.at = c].product = t.product
         /\ [t EXCEPT !.at = c].retries = t.retries
         /\ [t EXCEPT !.at = c].job = t.job
  BY DEF Task

\* What a process without a message is left with.
Released(t) == t.at \in {"idle", "done"} /\ t.request = None

LEMMA NoTaskTyped ==
  /\ NoModel \in Model
  /\ NoTask \in Task
  /\ Released(NoTask)
  /\ \A x \in Process : Finished(x) \in Task /\ Released(Finished(x))
<1>1. NoModel \in Model
  BY DEF NoModel, Model, JobId
<1>2. NoTask \in Task /\ NoTask.at = "idle" /\ NoTask.request = None
  BY <1>1, NumbersAssumption DEF NoTask, Task, Control, JobId
<1>3. ASSUME NEW x \in Process PROVE Finished(x) \in Task /\ Released(Finished(x))
  <2> DEFINE c == IF x \in Script THEN "done" ELSE "idle"
  <2>1. c \in Control /\ c \in {"idle", "done"}
    BY DEF Control
  <2>2. Finished(x) = [NoTask EXCEPT !.at = c]
    BY DEF Finished
  <2> HIDE DEF c
  <2> DEFINE u == [NoTask EXCEPT !.at = c]
  <2>3. u \in Task /\ u.at = c /\ u.request = NoTask.request
    BY <1>2, <2>1, TaskAssignments
  <2> HIDE DEF u
  <2> QED
    BY <1>2, <2>1, <2>2, <2>3 DEF u, Released
<1> QED
  BY <1>1, <1>2, <1>3 DEF Released

-----------------------------------------------------------------------------
(***************************************************************************)
(* Types.  A process at work has a product, a worker at work the request   *)
(* its message is of; a request that enqueues has a product.               *)
(***************************************************************************)
Errands ==
  /\ \A x \in Process :
       task[x].at \notin {"idle", "done"} =>
         /\ task[x].product \in Product
         /\ x \in Worker => task[x].request \in Request
  /\ \A r \in Request :
       request[r].at # "unsent" => request[r].product \in Product

Typed == TypeOK /\ Errands

Early == {"load", "begin", "create"}               \* may still create a job
Late  == {"poll", "glb", "usdz", "commit", "retry"} \* only after a retry

\* The task of x goes on with its errand, or ends.
Proceeds(x) ==
  /\ task' \in [Process -> Task]
  /\ \A y \in Process \ {x} : task'[y] = task[y]
  /\ \/ Released(task'[x])
     \/ /\ task[x].at \notin {"idle", "done"}
        /\ task'[x].request = task[x].request
        /\ task'[x].product = task[x].product
        /\ task'[x].retries = task[x].retries
        /\ task'[x].at \in Early => task[x].at \in Early
        /\ task'[x].at \in Late => task[x].at \in Early \cup Late

LEMMA ProceedsBy ==
  ASSUME Typed, NEW x \in Process, NEW u \in Task,
         task' = [task EXCEPT ![x] = u],
         \/ Released(u)
         \/ /\ task[x].at \notin {"idle", "done"}
            /\ u.request = task[x].request
            /\ u.product = task[x].product
            /\ u.retries = task[x].retries
            /\ u.at \in Early => task[x].at \in Early
            /\ u.at \in Late => task[x].at \in Early \cup Late
  PROVE  Proceeds(x) /\ task'[x] = u
<1>1. task \in [Process -> Task]
  BY DEF Typed, TypeOK
<1> QED
  BY <1>1 DEF Proceeds

\* Where a task is put while it keeps its errand.
LEMMA MovesTo ==
  ASSUME Typed, NEW x \in Process, NEW c \in Control,
         task[x].at \notin {"idle", "done"},
         c \in Early => task[x].at \in Early,
         c \in Late => task[x].at \in Early \cup Late
  PROVE  /\ task' = [task EXCEPT ![x].at = c] =>
              Proceeds(x) /\ task'[x] = [task[x] EXCEPT !.at = c]
         /\ \A l \in Model :
              task' = [task EXCEPT ![x] = [@ EXCEPT !.at = c, !.loaded = l]] =>
                /\ Proceeds(x)
                /\ task'[x] = [task[x] EXCEPT !.at = c, !.loaded = l]
         /\ \A j \in JobId :
              task' = [task EXCEPT ![x] = [@ EXCEPT !.at = c, !.job = j]] =>
                /\ Proceeds(x)
                /\ task'[x] = [task[x] EXCEPT !.at = c, !.job = j]
<1>1. task \in [Process -> Task] /\ task[x] \in Task
  BY DEF Typed, TypeOK
<1>2. ASSUME task' = [task EXCEPT ![x].at = c]
      PROVE  Proceeds(x) /\ task'[x] = [task[x] EXCEPT !.at = c]
  <2> DEFINE u == [task[x] EXCEPT !.at = c]
  <2>1. u \in Task /\ task' = [task EXCEPT ![x] = u]
    BY <1>1, <1>2, TaskAssignments
  <2>2. u.at = c /\ u.request = task[x].request /\ u.product = task[x].product
        /\ u.retries = task[x].retries
    BY <1>1, TaskAssignments
  <2> HIDE DEF u
  <2>3. Proceeds(x) /\ task'[x] = u
    BY <2>1, <2>2, ProceedsBy
  <2> QED
    BY <2>3 DEF u
<1>3. ASSUME NEW l \in Model,
             task' = [task EXCEPT ![x] = [@ EXCEPT !.at = c, !.loaded = l]]
      PROVE  Proceeds(x) /\ task'[x] = [task[x] EXCEPT !.at = c, !.loaded = l]
  <2> DEFINE u == [task[x] EXCEPT !.at = c, !.loaded = l]
  <2>1. task' = [task EXCEPT ![x] = u]
    BY <1>3
  <2>2. /\ u \in Task /\ u.at = c /\ u.request = task[x].request
        /\ u.product = task[x].product /\ u.retries = task[x].retries
    BY <1>1 DEF Task
  <2> HIDE DEF u
  <2>3. Proceeds(x) /\ task'[x] = u
    BY <2>1, <2>2, ProceedsBy
  <2> QED
    BY <2>3 DEF u
<1>4. ASSUME NEW j \in JobId,
             task' = [task EXCEPT ![x] = [@ EXCEPT !.at = c, !.job = j]]
      PROVE  Proceeds(x) /\ task'[x] = [task[x] EXCEPT !.at = c, !.job = j]
  <2> DEFINE u == [task[x] EXCEPT !.at = c, !.job = j]
  <2>1. task' = [task EXCEPT ![x] = u]
    BY <1>4
  <2>2. /\ u \in Task /\ u.at = c /\ u.request = task[x].request
        /\ u.product = task[x].product /\ u.retries = task[x].retries
    BY <1>1 DEF Task
  <2> HIDE DEF u
  <2>3. Proceeds(x) /\ task'[x] = u
    BY <2>1, <2>2, ProceedsBy
  <2> QED
    BY <2>3 DEF u
<1> QED
  BY <1>2, <1>3, <1>4

LEMMA Ends ==
  ASSUME Typed, NEW x \in Process
  PROVE  /\ \A u \in {NoTask, Finished(x)} :
              task' = [task EXCEPT ![x] = u] => Proceeds(x) /\ task'[x] = u
         /\ Finish(x) => Proceeds(x) /\ Released(task'[x])
         /\ Unlocked(x) \in [Product -> Process \cup {None}]
<1>1. \A u \in {NoTask, Finished(x)} : u \in Task /\ Released(u)
  BY NoTaskTyped
<1>2. ASSUME NEW u \in {NoTask, Finished(x)}, task' = [task EXCEPT ![x] = u]
      PROVE  Proceeds(x) /\ task'[x] = u
  BY <1>1, <1>2, ProceedsBy
<1>3. Unlocked(x) \in [Product -> Process \cup {None}]
  BY DEF Typed, TypeOK, Unlocked
<1> QED
  BY <1>1, <1>2, <1>3 DEF Finish

LEMMA Raises ==
  ASSUME Typed, NEW x \in Process, Raise(x),
         task[x].at \in Early \cup Late
  PROVE  /\ Proceeds(x)
         /\ lock' = Unlocked(x)
         /\ task'[x].at \in {"idle", "done", "retry"}
<1>1. CASE x \in Script
  <2>1. task' = [task EXCEPT ![x] = Finished(x)] /\ lock' = Unlocked(x)
    BY <1>1 DEF Raise
  <2> QED
    BY <2>1, Ends, NoTaskTyped DEF Finish, Released
<1>2. CASE x \notin Script
  <2>1. /\ task' = [task EXCEPT ![x].at = "retry"]
        /\ lock' = Unlocked(x)
    BY <1>2 DEF Raise
  <2>2. /\ "retry" \in Control /\ "retry" \notin Early
        /\ task[x].at \notin {"idle", "done"}
    BY DEF Control, Early, Late
  <2>3. Proceeds(x) /\ task'[x] = [task[x] EXCEPT !.at = "retry"]
    BY <2>1, <2>2, MovesTo
  <2>4. task[x] \in Task
    BY DEF Typed, TypeOK
  <2>5. [task[x] EXCEPT !.at = "retry"].at = "retry"
    BY <2>2, <2>4, TaskAssignments
  <2> QED
    BY <2>1, <2>3, <2>5
<1> QED
  BY <1>1, <1>2

-----------------------------------------------------------------------------
\* What most steps of a task x do, as far as types and messages go.
Quiet(x) ==
  /\ Proceeds(x)
  /\ row' \in [Product -> Model]
  /\ lock' \in [Product -> Process \cup {None}]
  /\ files' \in [Product -> Files]
  /\ UNCHANGED <<tracked, used, queue, request>>

LEMMA Locals ==
  ASSUME Typed, NEW x \in Process
  PROVE  /\ task[x] \in Task
         /\ task[x].job \in JobId
         /\ task[x].loaded \in Model
         /\ task[x].loaded.job \in JobId
         /\ task[x].retries \in 0..MaxRetries
  BY DEF Typed, TypeOK, Task, Model

LEMMA WrittenTyped ==
  ASSUME Typed, NEW x \in Process, task[x].at \notin {"idle", "done"},
         NEW s \in {"failed", "ready"}
  PROVE  Written(x, s) \in Model /\ Written(x, s).status = s
<1>1. task[x].product \in Product
  BY DEF Typed, Errands
<1>2. row[task[x].product].job \in JobId
  BY <1>1 DEF Typed, TypeOK, Model
<1> QED
  BY <1>2, Locals DEF Written, Model

LEMMA LoadModelQuiet ==
  ASSUME Typed, NEW x \in Process, LoadModel(x)
  PROVE  Quiet(x) /\ UNCHANGED jobs
<1>1. task[x].at = "load" /\ task[x].product \in Product
  BY DEF LoadModel, Typed, Errands
<1>2. Proceeds(x)
  <2>1. CASE Finish(x)
    BY <2>1, Ends
  <2>2. CASE task' = [task EXCEPT ![x] =
               [@ EXCEPT !.at = "begin", !.loaded = row[task[x].product]]]
    <3>1. row[task[x].product] \in Model
      BY <1>1 DEF Typed, TypeOK
    <3> QED
      BY <1>1, <2>2, <3>1, MovesTo DEF Control, Early, Late
  <2> QED
    BY <2>1, <2>2 DEF LoadModel
<1>3. lock' \in [Product -> Process \cup {None}]
  BY Ends DEF LoadModel, Finish, Typed, TypeOK
<1> QED
  BY <1>2, <1>3 DEF Quiet, LoadModel, Typed, TypeOK

LEMMA BeginGenerationQuiet ==
  ASSUME Typed, NEW x \in Process, BeginGeneration(x)
  PROVE  Quiet(x) /\ UNCHANGED jobs
<1> DEFINE p == task[x].product
           c == IF task[x].loaded.job = None THEN "create" ELSE "poll"
<1>1. task[x].at = "begin" /\ p \in Product
  BY DEF BeginGeneration, Typed, Errands
<1>2. CASE Writable(p, task[x].loaded)
  <2>1. /\ lock' = [lock EXCEPT ![p] = x]
        /\ task' = [task EXCEPT ![x] = [@ EXCEPT !.at = c, !.job = task[x].loaded.job]]
    BY <1>2 DEF BeginGeneration
  <2>2. c \in Control /\ task[x].at \in Early /\ task[x].at \notin {"idle", "done"}
    BY <1>1 DEF Control, Early
  <2> HIDE DEF c
  <2>3. Proceeds(x)
    BY <2>1, <2>2, Locals, MovesTo
  <2>4. lock' \in [Product -> Process \cup {None}]
    BY <1>1, <2>1 DEF Typed, TypeOK
  <2> QED
    BY <2>3, <2>4 DEF Quiet, BeginGeneration, Typed, TypeOK
<1>3. CASE ~Writable(p, task[x].loaded)
  <2>1. Raise(x) /\ task[x].at \in Early \cup Late
    BY <1>1, <1>3 DEF BeginGeneration, Early
  <2>2. Proceeds(x) /\ lock' \in [Product -> Process \cup {None}]
    BY <2>1, Raises, Ends
  <2> QED
    BY <2>2 DEF Quiet, BeginGeneration, Typed, TypeOK
<1> QED
  BY <1>2, <1>3

LEMMA PollJobQuiet ==
  ASSUME Typed, NEW x \in Process, PollJob(x)
  PROVE  Quiet(x) /\ UNCHANGED jobs
<1>1. /\ task[x].at = "poll"
      /\ task[x].at \notin {"idle", "done"}
      /\ task[x].at \in Late
      /\ "glb" \in Control /\ "glb" \notin Early
  BY DEF PollJob, Late, Early, Control
<1>2. /\ UNCHANGED <<tracked, used, jobs, files, queue, request>>
      /\ files' \in [Product -> Files]
  BY DEF PollJob, Typed, TypeOK
<1>3. CASE task' = [task EXCEPT ![x].at = "glb"] /\ UNCHANGED <<row, lock>>
  <2>1. Proceeds(x)
    BY <1>1, <1>3, MovesTo
  <2> QED
    BY <1>2, <1>3, <2>1 DEF Quiet, Typed, TypeOK
<1>4. CASE /\ row' = [row EXCEPT ![task[x].product] = Written(x, "failed")]
           /\ Finish(x)
  <2>1. row' \in [Product -> Model]
    BY <1>1, <1>4, WrittenTyped DEF Typed, TypeOK
  <2>2. Proceeds(x) /\ lock' \in [Product -> Process \cup {None}]
    BY <1>4, Ends DEF Finish
  <2> QED
    BY <1>2, <2>1, <2>2 DEF Quiet
<1>5. CASE Raise(x) /\ UNCHANGED row
  <2>1. Proceeds(x) /\ lock' \in [Product -> Process \cup {None}]
    BY <1>1, <1>5, Raises, Ends
  <2> QED
    BY <1>2, <1>5, <2>1 DEF Quiet, Typed, TypeOK
<1> QED
  BY <1>3, <1>4, <1>5 DEF PollJob

\* The downloads.
LEMMA DownloadsQuiet ==
  ASSUME Typed, NEW x \in Process, DownloadGlb(x) \/ DownloadUsdz(x)
  PROVE  Quiet(x) /\ UNCHANGED jobs
<1>1. task[x].at \in {"glb", "usdz"} /\ task[x].product \in Product
  BY DEF DownloadGlb, DownloadUsdz, Typed, Errands
<1>2. files[task[x].product] \in Files
  BY <1>1 DEF Typed, TypeOK
<1>3. /\ [files[task[x].product] EXCEPT !.glb = task[x].job] \in Files
      /\ [files[task[x].product] EXCEPT !.usdz = task[x].job] \in Files
  BY <1>2, Locals DEF Files
<1>4. files' \in [Product -> Files]
  BY <1>1, <1>3 DEF DownloadGlb, DownloadUsdz, Typed, TypeOK
<1>5. Proceeds(x)
  <2>1. /\ task' = [task EXCEPT ![x].at = "usdz"] \/ task' = [task EXCEPT ![x].at = "commit"]
        /\ {"usdz", "commit"} \subseteq Control
        /\ "usdz" \notin Early /\ "commit" \notin Early
        /\ task[x].at \in Late /\ task[x].at \notin {"idle", "done"}
    BY <1>1 DEF DownloadGlb, DownloadUsdz, Control, Early, Late
  <2> QED
    BY <2>1, MovesTo
<1> QED
  BY <1>4, <1>5 DEF DownloadGlb, DownloadUsdz, Quiet, Typed, TypeOK

LEMMA CommitModelQuiet ==
  ASSUME Typed, NEW x \in Process, CommitModel(x)
  PROVE  Quiet(x) /\ UNCHANGED jobs
<1>1. task[x].at = "commit" /\ task[x].at \notin {"idle", "done"}
  BY DEF CommitModel
<1>2. row' \in [Product -> Model]
  BY <1>1, WrittenTyped DEF CommitModel, Typed, TypeOK
<1>3. Proceeds(x) /\ lock' \in [Product -> Process \cup {None}]
  BY Ends DEF CommitModel, Finish
<1> QED
  BY <1>2, <1>3 DEF CommitModel, Quiet, Typed, TypeOK

\* Dead letters.
LEMMA ParkGenerationQuiet ==
  ASSUME Typed, NEW x \in Process, ParkGeneration(x)
  PROVE  Quiet(x) /\ UNCHANGED jobs
<1>1. task[x].at = "park" /\ task[x].product \in Product
  BY DEF ParkGeneration, Typed, Errands
<1>2. CASE row[task[x].product].status = "none"
  <2>1. task' = [task EXCEPT ![x] = NoTask]
    BY <1>2 DEF ParkGeneration
  <2> QED
    BY <2>1, Ends DEF ParkGeneration, Quiet, Typed, TypeOK
<1>3. CASE row[task[x].product].status # "none"
  <2>1. /\ task' = [task EXCEPT ![x] =
                      [@ EXCEPT !.at = "mark", !.loaded = row[task[x].product]]]
        /\ "mark" \in Control /\ "mark" \notin Early \cup Late
        /\ row[task[x].product] \in Model
        /\ task[x].at \notin {"idle", "done"}
    BY <1>1, <1>3 DEF ParkGeneration, Control, Early, Late, Typed, TypeOK
  <2>2. Proceeds(x)
    BY <2>1, MovesTo
  <2> QED
    BY <2>2 DEF ParkGeneration, Quiet, Typed, TypeOK
<1> QED
  BY <1>2, <1>3

LEMMA MarkFailedQuiet ==
  ASSUME Typed, NEW x \in Process, MarkFailed(x)
  PROVE  Quiet(x) /\ UNCHANGED jobs
<1>1. task[x].product \in Product
  BY DEF MarkFailed, Typed, Errands
<1>2. [row[task[x].product] EXCEPT !.status = "failed"] \in Model
  <2>1. row[task[x].product] \in Model
    BY <1>1 DEF Typed, TypeOK
  <2> QED
    BY <2>1 DEF Model
<1>3. row' \in [Product -> Model]
  BY <1>1, <1>2 DEF MarkFailed, Typed, TypeOK
<1>4. Proceeds(x) /\ lock' \in [Product -> Process \cup {None}]
  BY Ends DEF MarkFailed, Finish
<1> QED
  BY <1>3, <1>4 DEF MarkFailed, Quiet, Typed, TypeOK

\* A database or Redis that fails, and a process that dies.
LEMMA FaultsQuiet ==
  ASSUME Typed, NEW x \in Process, DatabaseFault(x) \/ RedisFault(x) \/ Crash(x)
  PROVE  Quiet(x) /\ UNCHANGED jobs
<1>1. Proceeds(x) /\ lock' \in [Product -> Process \cup {None}]
  <2>1. CASE Finish(x)
    BY <2>1, Ends DEF Finish
  <2>2. CASE task[x].at \in {"load", "begin", "commit"} /\ Raise(x)
    <3>1. task[x].at \in Early \cup Late
      BY <2>2 DEF Early, Late
    <3> QED
      BY <2>2, <3>1, Raises, Ends
  <2>3. CASE RedisFault(x)
    <3>1. task[x].at # "idle" /\ Released(NoTask) /\ lock' = lock
      BY <2>3, NoTaskTyped DEF RedisFault
    <3> QED
      BY <2>3, <3>1, Ends, NoTaskTyped DEF RedisFault, Typed, TypeOK
  <2> QED
    BY <2>1, <2>2, <2>3 DEF DatabaseFault, Crash
<1> QED
  BY <1>1 DEF DatabaseFault, RedisFault, Crash, Quiet, Typed, TypeOK

-----------------------------------------------------------------------------
\* A call to the provider that creates a job, answered or not.
Pays(x) ==
  /\ Quiet(x)
  /\ task[x].at = "create"
  /\ task'[x].at \notin Early
  /\ jobs' \in Seq(Job)
  /\ Len(jobs') = Len(jobs) + 1

LEMMA NewJobTyped ==
  ASSUME Typed, NEW p \in Product, NEW j \in NewJobs(p), jobs' = Append(jobs, j)
  PROVE  jobs' \in Seq(Job) /\ Len(jobs') = Len(jobs) + 1
<1>1. PICK g \in BOOLEAN : j = [product |-> p, good |-> g]
  BY Zenon DEF NewJobs
<1>2. j \in Job
  BY <1>1, Zenon DEF Job
<1> QED
  BY <1>2 DEF Typed, TypeOK

LEMMA CreateJobPays ==
  ASSUME Typed, NEW x \in Process, CreateJob(x)
  PROVE  Pays(x)
<1> DEFINE j == Len(jobs) + 1
           c == "poll"
<1>1. task[x].at = "create" /\ task[x].product \in Product
  BY DEF CreateJob, Typed, Errands
<1>2. jobs' \in Seq(Job) /\ Len(jobs') = Len(jobs) + 1
  BY <1>1, NewJobTyped DEF CreateJob
<1>3. /\ j \in JobId /\ c \in Control /\ c \notin Early
      /\ task[x].at \in Early /\ task[x].at \notin {"idle", "done"}
  BY <1>1 DEF Typed, TypeOK, JobId, Control, Early
<1>4. task' = [task EXCEPT ![x] = [@ EXCEPT !.at = c, !.job = j]]
  BY DEF CreateJob
<1> HIDE DEF c, j
<1> DEFINE u == [task[x] EXCEPT !.at = c, !.job = j]
<1>5. /\ u \in Task /\ u.at = c /\ u.request = task[x].request
      /\ u.product = task[x].product /\ u.retries = task[x].retries
  BY <1>3, Locals DEF Task
<1> HIDE DEF u
<1>6. Proceeds(x) /\ task'[x] = u
  BY <1>3, <1>4, <1>5, ProceedsBy DEF u
<1> QED
  BY <1>1, <1>2, <1>3, <1>5, <1>6 DEF CreateJob, Pays, Quiet, Typed, TypeOK

LEMMA ProviderFailsPays ==
  ASSUME Typed, NEW x \in Process, ProviderFails(x)
  PROVE  Pays(x) \/ (Quiet(x) /\ UNCHANGED jobs)
<1>1. task[x].at \in Early \cup Late /\ Raise(x)
  BY DEF ProviderFails, Early, Late
<1>2. Proceeds(x) /\ lock' \in [Product -> Process \cup {None}]
      /\ task'[x].at \notin Early
  BY <1>1, Raises, Ends DEF Early
<1>3. Quiet(x)
  BY <1>2 DEF ProviderFails, Quiet, Typed, TypeOK
<1>4. CASE /\ task[x].at = "create"
           /\ \E j \in NewJobs(task[x].product) : jobs' = Append(jobs, j)
  <2>1. task[x].product \in Product
    BY <1>4 DEF Typed, Errands
  <2>2. jobs' \in Seq(Job) /\ Len(jobs') = Len(jobs) + 1
    BY <1>4, <2>1, NewJobTyped
  <2> QED
    BY <1>2, <1>3, <1>4, <2>2 DEF Pays
<1> QED
  BY <1>3, <1>4 DEF ProviderFails

\* A retry is a message with one attempt less.
Requeues(x) ==
  /\ task[x].at = "retry"
  /\ task[x].retries < MaxRetries
  /\ queue' = queue \cup {[request |-> task[x].request,
                           product |-> task[x].product,
                           retries |-> task[x].retries + 1]}
  /\ task' = [task EXCEPT ![x] = NoTask]
  /\ Proceeds(x)
  /\ Released(task'[x])
  /\ UNCHANGED <<tracked, row, lock, used, jobs, files, request>>

LEMMA RetryRequeues ==
  ASSUME Typed, NEW x \in Process, RetryOrGiveUp(x)
  PROVE  Requeues(x) \/ (Quiet(x) /\ UNCHANGED jobs)
<1>1. task[x].at = "retry" /\ task[x].at \notin {"idle", "done"}
  BY DEF RetryOrGiveUp
<1>2. CASE task' = [task EXCEPT ![x] = NoTask]
  <2>1. Proceeds(x) /\ Released(task'[x])
    BY <1>2, Ends, NoTaskTyped
  <2> QED
    BY <1>2, <2>1 DEF RetryOrGiveUp, Requeues, Quiet, Typed, TypeOK
<1>3. CASE /\ task' = [task EXCEPT ![x] = [@ EXCEPT !.at = "park"]]
           /\ UNCHANGED queue
  <2>1. "park" \in Control /\ "park" \notin Early \cup Late
    BY DEF Control, Early, Late
  <2>2. task' = [task EXCEPT ![x].at = "park"]
    BY <1>3
  <2>3. Proceeds(x)
    BY <1>1, <2>1, <2>2, MovesTo
  <2> QED
    BY <1>3, <2>3 DEF RetryOrGiveUp, Quiet, Typed, TypeOK
<1> QED
  BY <1>2, <1>3 DEF RetryOrGiveUp

LEMMA ProceedsTyped ==
  ASSUME Typed, NEW x \in Process, Proceeds(x), UNCHANGED request
  PROVE  Errands' /\ task' \in [Process -> Task]
<1>1. \A y \in Process :
        task'[y].at \notin {"idle", "done"} =>
          /\ task'[y].product \in Product
          /\ y \in Worker => task'[y].request \in Request
  BY DEF Proceeds, Released, Typed, Errands
<1> QED
  BY <1>1 DEF Errands, Proceeds, Typed

LEMMA QuietTyped ==
  ASSUME Typed, NEW x \in Process, Quiet(x), jobs' \in Seq(Job)
  PROVE  Typed'
<1>1. Errands' /\ task' \in [Process -> Task]
  BY ProceedsTyped DEF Quiet
<1> QED
  BY <1>1 DEF Quiet, Typed, TypeOK

LEMMA RequeuesTyped ==
  ASSUME Typed, NEW x \in Worker, Requeues(x)
  PROVE  Typed'
<1>1. x \in Process
  BY DEF Process
<1>2. Errands' /\ task' \in [Process -> Task]
  BY <1>1, ProceedsTyped DEF Requeues
<1>3. /\ task[x].request \in Request /\ task[x].product \in Product
      /\ task[x].retries + 1 \in 0..MaxRetries
  BY <1>1, Locals, NumbersAssumption DEF Requeues, Typed, Errands
<1>4. queue' \in SUBSET Message
  BY <1>3 DEF Requeues, Message, Typed, TypeOK
<1> QED
  BY <1>2, <1>4 DEF Requeues, Typed, TypeOK

LEMMA StartGenerateTyped ==
  ASSUME Typed, NEW x \in Worker, NEW m \in queue, StartGenerate(x, m)
  PROVE  /\ Typed'
         /\ \A y \in Process \ {x} : task'[y] = task[y]
         /\ task'[x].at = "load"
         /\ task'[x].request = m.request
         /\ task'[x].retries = m.retries
<1> DEFINE u == [NoTask EXCEPT !.at = "load", !.request = m.request,
                               !.product = m.product, !.retries = m.retries]
<1>1. /\ x \in Process
      /\ m.request \in Request /\ m.product \in Product /\ m.retries \in 0..MaxRetries
      /\ "load" \in Control
  BY DEF Process, Typed, TypeOK, Message, Control
<1>2. /\ u \in Task /\ u.at = "load" /\ u.request = m.request
      /\ u.product = m.product /\ u.retries = m.retries
  BY <1>1, NoTaskTyped DEF Task
<1>3. task' = [task EXCEPT ![x] = u] /\ task \in [Process -> Task]
  BY DEF StartGenerate, Typed, TypeOK
<1> HIDE DEF u
<1>4. /\ task' \in [Process -> Task]
      /\ task'[x] = u
      /\ \A y \in Process \ {x} : task'[y] = task[y]
  BY <1>1, <1>2, <1>3
<1>5. Errands'
  BY <1>1, <1>2, <1>4 DEF StartGenerate, Typed, Errands
<1>6. TypeOK'
  BY <1>4 DEF StartGenerate, Typed, TypeOK
<1> QED
  BY <1>2, <1>4, <1>5, <1>6 DEF Typed

LEMMA StartScriptTyped ==
  ASSUME Typed, NEW x \in Script, NEW p \in Product, StartScript(x, p)
  PROVE  /\ Typed'
         /\ task' \in [Process -> Task]
         /\ \A y \in Process \ {x} : task'[y] = task[y]
         /\ task'[x].at = "begin"
         /\ task'[x].product = p
         /\ task'[x].request = None
<1> DEFINE u == [NoTask EXCEPT !.at = "begin", !.product = p, !.loaded = row[p]]
<1>1. /\ x \in Process /\ x \notin Worker
      /\ row[p] \in Model
      /\ "begin" \in Control
  BY ProcessAssumption DEF Process, Typed, TypeOK, Control
<1>2. u \in Task /\ u.at = "begin" /\ u.product = p /\ u.request = None
  BY <1>1, NoTaskTyped DEF Task, Released
<1>3. task' = [task EXCEPT ![x] = u] /\ task \in [Process -> Task]
  BY DEF StartScript, Typed, TypeOK
<1> HIDE DEF u
<1>4. /\ task' \in [Process -> Task]
      /\ task'[x] = u
      /\ \A y \in Process \ {x} : task'[y] = task[y]
  BY <1>1, <1>2, <1>3
<1>5. Errands'
  BY <1>1, <1>2, <1>4 DEF StartScript, Typed, Errands
<1>6. TypeOK'
  BY <1>4 DEF StartScript, Typed, TypeOK
<1> QED
  BY <1>2, <1>4, <1>5, <1>6 DEF Typed

-----------------------------------------------------------------------------
RequestPoint == {"unsent", "quota", "commit", "spend", "enqueue", "done"}

\* The request r goes from where it is to c.
Comes(r, c) ==
  /\ request' \in [Request -> RequestState]
  /\ \A q \in Request \ {r} : request'[q] = request[q]
  /\ request'[r].at = c
  /\ c # "unsent" => request'[r].product \in Product

LEMMA ComesTo ==
  ASSUME Typed, NEW r \in Request, NEW c \in RequestPoint \ {"unsent"},
         request[r].at # "unsent", request' = [request EXCEPT ![r].at = c]
  PROVE  Comes(r, c)
<1> DEFINE u == [request[r] EXCEPT !.at = c]
<1>1. request \in [Request -> RequestState] /\ request[r] \in RequestState
  BY DEF Typed, TypeOK
<1>2. u \in RequestState /\ u.at = c /\ u.product = request[r].product
  BY <1>1 DEF RequestState, RequestPoint
<1>3. request' = [request EXCEPT ![r] = u]
  OBVIOUS
<1> HIDE DEF u
<1>4. request' \in [Request -> RequestState] /\ request'[r] = u
      /\ \A q \in Request \ {r} : request'[q] = request[q]
  BY <1>1, <1>2, <1>3
<1> QED
  BY <1>2, <1>4 DEF Comes, Typed, Errands

LEMMA ComesTyped ==
  ASSUME Typed, NEW r \in Request, NEW c, Comes(r, c), c # "unsent", UNCHANGED task
  PROVE  Errands'
  BY DEF Comes, Typed, Errands

\* Steps of a request that neither count nor enqueue.
Browses(r) ==
  /\ \E c \in RequestPoint \ {"unsent", "enqueue"} :
       Comes(r, c) /\ (c # "done" => request[r].at \in RequestPoint \ {"enqueue", "done"})
  /\ UNCHANGED <<tracked, lock, used, jobs, files, queue, task>>

LEMMA RequestModelBrowses ==
  ASSUME Typed, NEW r \in Request, NEW p \in Product, RequestModel(r, p)
  PROVE  Browses(r) /\ Typed'
<1> DEFINE u == [at |-> "quota", product |-> p, loaded |-> row[p]]
<1>1. u \in RequestState /\ u.at = "quota" /\ u.product = p
  BY DEF RequestState, Typed, TypeOK
<1>2. request' = [request EXCEPT ![r] = u] /\ request[r].at = "unsent"
      /\ request \in [Request -> RequestState]
  BY DEF RequestModel, Typed, TypeOK
<1> HIDE DEF u
<1>3. Comes(r, "quota")
  BY <1>1, <1>2 DEF Comes
<1>4. UNCHANGED <<tracked, row, lock, used, jobs, files, queue, task>>
  BY DEF RequestModel
<1>5. Browses(r)
  BY <1>2, <1>3, <1>4 DEF Browses, RequestPoint
<1>6. Errands'
  BY <1>3, <1>4, ComesTyped
<1> QED
  BY <1>3, <1>4, <1>5, <1>6 DEF Comes, Typed, TypeOK

LEMMA BrowsesTyped ==
  ASSUME Typed, NEW r \in Request, Browses(r), row' \in [Product -> Model]
  PROVE  Typed'
<1>1. Errands'
  BY ComesTyped DEF Browses
<1> QED
  BY <1>1 DEF Browses, Comes, Typed, TypeOK

LEMMA CheckQuotaBrowses ==
  ASSUME Typed, NEW r \in Request, CheckQuota(r)
  PROVE  Browses(r) /\ Typed'
<1> DEFINE c == IF request[r].loaded.status # "pending" /\ used < Cap
                THEN "commit" ELSE "done"
<1>1. c \in {"commit", "done"} /\ request[r].at = "quota"
      /\ request' = [request EXCEPT ![r].at = c]
      /\ UNCHANGED <<tracked, row, lock, used, jobs, files, queue, task>>
  BY DEF CheckQuota
<1> HIDE DEF c
<1>2. Comes(r, c)
  BY <1>1, ComesTo DEF RequestPoint
<1>3. Browses(r)
  BY <1>1, <1>2 DEF Browses, RequestPoint
<1> QED
  BY <1>1, <1>3, BrowsesTyped DEF Typed, TypeOK

LEMMA RequestBreaksBrowses ==
  ASSUME Typed, NEW r \in Request, RequestBreaks(r)
  PROVE  Browses(r) /\ Typed'
<1>1. /\ request[r].at # "unsent"
      /\ request' = [request EXCEPT ![r].at = "done"]
      /\ UNCHANGED <<tracked, row, lock, used, jobs, files, queue, task>>
  BY DEF RequestBreaks
<1>2. Comes(r, "done")
  BY <1>1, ComesTo DEF RequestPoint
<1>3. Browses(r)
  BY <1>1, <1>2 DEF Browses, RequestPoint
<1> QED
  BY <1>1, <1>3, BrowsesTyped DEF Typed, TypeOK

LEMMA CommitRequestBrowses ==
  ASSUME Typed, NEW r \in Request, CommitRequest(r)
  PROVE  Browses(r) /\ Typed'
<1> DEFINE p == request[r].product
           l == request[r].loaded
           c == IF Writable(p, l) THEN "spend" ELSE "done"
           j == IF l.job # None THEN None ELSE row[p].job
<1>1. request[r].at = "commit" /\ p \in Product
  BY DEF CommitRequest, Typed, Errands
<1>2. /\ request' = [request EXCEPT ![r].at = c]
      /\ UNCHANGED <<tracked, lock, used, jobs, files, queue, task>>
      /\ row' = [row EXCEPT ![p] = [status |-> "pending", job |-> j]] \/ row' = row
  BY DEF CommitRequest
<1>3. [status |-> "pending", job |-> j] \in Model
  BY <1>1 DEF Typed, TypeOK, Model, JobId
<1>4. c \in {"spend", "done"}
  OBVIOUS
<1> HIDE DEF p, l, c, j
<1>5. row' \in [Product -> Model]
  BY <1>1, <1>2, <1>3 DEF Typed, TypeOK
<1>6. Comes(r, c)
  BY <1>1, <1>2, <1>4, ComesTo DEF RequestPoint
<1>7. Browses(r)
  BY <1>1, <1>2, <1>4, <1>6 DEF Browses, RequestPoint
<1> QED
  BY <1>5, <1>7, BrowsesTyped

LEMMA SpendCreditTyped ==
  ASSUME Typed, NEW r \in Request, SpendCredit(r)
  PROVE  Comes(r, "enqueue") /\ Typed'
<1>1. Comes(r, "enqueue")
  BY ComesTo DEF SpendCredit, RequestPoint
<1>2. Errands'
  BY <1>1, ComesTyped DEF SpendCredit
<1> QED
  BY <1>1, <1>2 DEF SpendCredit, Comes, Typed, TypeOK

LEMMA EnqueueTyped ==
  ASSUME Typed, NEW r \in Request, Enqueue(r)
  PROVE  Comes(r, "done") /\ Typed'
<1>1. Comes(r, "done")
  BY ComesTo DEF Enqueue, RequestPoint
<1>2. Errands'
  BY <1>1, ComesTyped DEF Enqueue
<1>3. queue' \in SUBSET Message
  BY NumbersAssumption DEF Enqueue, Message, Typed, TypeOK, Errands
<1> QED
  BY <1>1, <1>2, <1>3 DEF Enqueue, Comes, Typed, TypeOK

LEMMA DeleteItemTyped ==
  ASSUME Typed, NEW p \in Product, DeleteItem(p)
  PROVE  Typed'
<1>1. row' \in [Product -> Model] /\ tracked' \in SUBSET Product
  BY NoTaskTyped DEF DeleteItem, Typed, TypeOK
<1> QED
  BY <1>1 DEF DeleteItem, Typed, TypeOK, Errands

-----------------------------------------------------------------------------
LEMMA TaskStepQuiet ==
  ASSUME Typed, NEW x \in Process,
         \/ TaskStep(x) /\ ~RetryOrGiveUp(x)
         \/ GenerationStep(x)
         \/ ProviderFails(x) \/ DatabaseFault(x) \/ RedisFault(x) \/ Crash(x)
  PROVE  Pays(x) \/ (Quiet(x) /\ UNCHANGED jobs)
  BY LoadModelQuiet, BeginGenerationQuiet, CreateJobPays, PollJobQuiet,
     DownloadsQuiet, CommitModelQuiet, ParkGenerationQuiet, MarkFailedQuiet,
     FaultsQuiet, ProviderFailsPays
     DEF TaskStep, GenerationStep

LEMMA TypedInitially == Init => Typed
<1> SUFFICES ASSUME Init PROVE Typed
  OBVIOUS
<1>1. /\ [status |-> "none", job |-> None] \in Model
      /\ [glb |-> None, usdz |-> None] \in Files
  BY DEF Model, Files, JobId
<1>2. [at |-> "unsent", product |-> None, loaded |-> NoModel] \in RequestState
  BY <1>1 DEF RequestState, NoModel
<1>3. request \in [Request -> RequestState]
  BY <1>2 DEF Init
<1>4. task \in [Process -> Task]
  BY NoTaskTyped DEF Init
<1>5. row \in [Product -> Model] /\ files \in [Product -> Files]
  BY <1>1 DEF Init, NoModel
<1>6. TypeOK
  BY <1>3, <1>4, <1>5 DEF Init, TypeOK
<1>7. Errands
  BY NoTaskTyped DEF Init, Errands, Released
<1> QED
  BY <1>6, <1>7 DEF Typed

LEMMA TypedKept ==
  ASSUME Typed, [Next]_vars
  PROVE  Typed'
<1>1. CASE UNCHANGED vars
  BY <1>1 DEF vars, Typed, TypeOK, Errands
<1>2. ASSUME NEW x \in Process, Pays(x) \/ (Quiet(x) /\ UNCHANGED jobs)
      PROVE  Typed'
  <2>1. Quiet(x) /\ jobs' \in Seq(Job)
    BY <1>2 DEF Pays, Typed, TypeOK
  <2> QED
    BY <2>1, QuietTyped
<1>3. ASSUME NEW r \in Request,
             \/ \E p \in Product : RequestModel(r, p)
             \/ RequestStep(r) \/ RequestBreaks(r)
      PROVE  Typed'
  BY <1>3, RequestModelBrowses, CheckQuotaBrowses, CommitRequestBrowses,
     SpendCreditTyped, EnqueueTyped, RequestBreaksBrowses DEF RequestStep
<1>4. ASSUME NEW w \in Worker, TakeMessage(w) \/ TaskStep(w) \/ RedisFault(w)
      PROVE  Typed'
  <2>1. w \in Process
    BY DEF Process
  <2> QED
    BY <1>2, <1>4, <2>1, StartGenerateTyped, RetryRequeues, RequeuesTyped,
       TaskStepQuiet DEF TakeMessage
<1>5. ASSUME NEW x \in Script,
             (\E p \in Product : StartScript(x, p)) \/ GenerationStep(x)
      PROVE  Typed'
  <2>1. x \in Process
    BY DEF Process
  <2> QED
    BY <1>2, <1>5, <2>1, StartScriptTyped, TaskStepQuiet
<1>6. ASSUME NEW x \in Process, ProviderFails(x) \/ DatabaseFault(x) \/ Crash(x)
      PROVE  Typed'
  BY <1>2, <1>6, TaskStepQuiet
<1>7. ASSUME NEW p \in Product, DeleteItem(p) PROVE Typed'
  BY <1>7, DeleteItemTyped
<1> QED
  BY <1>1, <1>3, <1>4, <1>5, <1>6, <1>7 DEF Next

(***************************************************************************)
(* The tables, the messages and the locals of requests, tasks and script   *)
(* runs always have their types.                                           *)
(***************************************************************************)
THEOREM PreviewTypeCorrect == Spec => []TypeOK
<1>1. Typed /\ [Next]_vars => Typed'
  BY TypedKept
<1>2. Typed => TypeOK
  BY DEF Typed
<1> QED
  BY <1>1, <1>2, TypedInitially, PTL DEF Spec

-----------------------------------------------------------------------------
(***************************************************************************)
(* Jobs and credits.  JobsBounded says nothing of the jobs that are still  *)
(* to be created.  `Open' holds them: the attempts of counted requests,    *)
(* by the request and the number of the attempt, that may yet create one.  *)
(* A step that creates a job closes an attempt; only counting opens some.  *)
(* That each is closed once needs that a request has one carrier: it has   *)
(* not enqueued yet, or one message is of it, or one worker.               *)
(***************************************************************************)
Pending(w, k) ==
  \/ task[w].at \in Early /\ task[w].retries <= k
  \/ task[w].at \in Late /\ task[w].retries < k

Open ==
  {s \in Request \X (0..MaxRetries) :
     \/ request[s[1]].at = "enqueue"
     \/ \E m \in queue : m.request = s[1] /\ m.retries <= s[2]
     \/ \E w \in Worker : task[w].request = s[1] /\ Pending(w, s[2])}

Budget ==
  /\ IsFiniteSet(Open)
  /\ Len(jobs) + Cardinality(Open) <= (MaxRetries + 1) * used

OneCarrier ==
  /\ \A r \in Request :
       request[r].at # "done" =>
         /\ \A m \in queue : m.request # r
         /\ \A w \in Worker : task[w].request # r
  /\ \A m, n \in queue : m.request = n.request => m = n
  /\ \A m \in queue : \A w \in Worker : task[w].request # m.request
  /\ \A v, w \in Worker :
       task[v].request = task[w].request => v = w \/ task[v].request = None

Counted == Typed /\ OneCarrier /\ Budget

\* Nothing new is open: the bound holds.
LEMMA OpenShrinks ==
  ASSUME Typed, Typed', Budget, Open' \subseteq Open, UNCHANGED <<jobs, used>>
  PROVE  Budget'
<1>1. IsFiniteSet(Open) /\ Open' \in SUBSET Open
  BY DEF Budget
<1>2. /\ IsFiniteSet(Open') /\ Cardinality(Open') <= Cardinality(Open)
      /\ Cardinality(Open') \in Nat /\ Cardinality(Open) \in Nat
  BY <1>1, FS_Subset, FS_CardinalityType
<1> DEFINE b == (MaxRetries + 1) * used
           a == Len(jobs)
<1>3. /\ a \in Nat /\ b \in Nat
      /\ Len(jobs') = a /\ (MaxRetries + 1) * used' = b
      /\ a + Cardinality(Open) <= b
  BY NumbersAssumption DEF Budget, Typed, TypeOK
<1> HIDE DEF a, b
<1>4. a + Cardinality(Open') <= b
  BY <1>2, <1>3
<1> QED
  BY <1>2, <1>3, <1>4 DEF Budget

\* A job that is created closes an attempt.
LEMMA OpenPays ==
  ASSUME Typed, Typed', Budget, NEW s \in Open, Open' \subseteq Open \ {s},
         Len(jobs') = Len(jobs) + 1, UNCHANGED used
  PROVE  Budget'
<1>1. IsFiniteSet(Open) /\ Open' \in SUBSET (Open \ {s})
  BY DEF Budget
<1>2. /\ IsFiniteSet(Open \ {s})
      /\ Cardinality(Open \ {s}) = Cardinality(Open) - 1
      /\ Cardinality(Open) \in Nat
  BY <1>1, FS_RemoveElement, FS_CardinalityType
<1>3. /\ IsFiniteSet(Open')
      /\ Cardinality(Open') <= Cardinality(Open) - 1
      /\ Cardinality(Open') \in Nat
  BY <1>1, <1>2, FS_Subset, FS_CardinalityType
<1> DEFINE b == (MaxRetries + 1) * used
           a == Len(jobs)
<1>4. /\ a \in Nat /\ b \in Nat
      /\ Len(jobs') = a + 1 /\ (MaxRetries + 1) * used' = b
      /\ a + Cardinality(Open) <= b
  BY NumbersAssumption DEF Budget, Typed, TypeOK
<1> HIDE DEF a, b
<1>5. a + 1 + Cardinality(Open') <= b
  BY <1>2, <1>3, <1>4
<1> QED
  BY <1>3, <1>4, <1>5 DEF Budget

\* A credit opens the attempts of one task.
LEMMA OpenGrows ==
  ASSUME Typed, Typed', Budget, NEW r \in Request,
         Open' \subseteq Open \cup ({r} \X (0..MaxRetries)),
         UNCHANGED jobs, used' = used + 1
  PROVE  Budget'
<1> DEFINE n == 0..MaxRetries
           t == {r} \X n
           f == [k \in n |-> <<r, k>>]
<1>1. IsFiniteSet(n) /\ Cardinality(n) = MaxRetries + 1
  BY NumbersAssumption, FS_Interval
<1>2. f \in Surjection(n, t)
  BY DEF Surjection
<1> HIDE DEF f, n
<1>3. IsFiniteSet(t) /\ Cardinality(t) <= MaxRetries + 1
  BY <1>1, <1>2, FS_Surjection
<1> HIDE DEF t
<1>4. IsFiniteSet(Open)
  BY DEF Budget
<1>5. /\ IsFiniteSet(Open \cup t)
      /\ Cardinality(Open \cup t) =
           Cardinality(Open) + Cardinality(t) - Cardinality(Open \cap t)
  BY <1>3, <1>4, FS_Union
<1>6. Open' \in SUBSET (Open \cup t) /\ Open \cap t \in SUBSET t
  BY DEF t, n
<1>7. IsFiniteSet(Open \cap t)
  BY <1>3, <1>6, FS_Subset
<1>8. IsFiniteSet(Open') /\ Cardinality(Open') <= Cardinality(Open \cup t)
  BY <1>5, <1>6, FS_Subset
<1>9. /\ Cardinality(Open) \in Nat /\ Cardinality(t) \in Nat
      /\ Cardinality(Open \cap t) \in Nat /\ Cardinality(Open') \in Nat
      /\ Cardinality(Open \cup t) \in Nat
  BY <1>3, <1>4, <1>5, <1>7, <1>8, FS_CardinalityType
<1>10. Cardinality(Open') <= Cardinality(Open) + (MaxRetries + 1)
  BY <1>3, <1>5, <1>8, <1>9, NumbersAssumption
<1> DEFINE b == (MaxRetries + 1) * used
           a == Len(jobs)
<1>11. /\ a \in Nat /\ b \in Nat
       /\ Len(jobs') = a
       /\ a + Cardinality(Open) <= b
  BY NumbersAssumption DEF Budget, Typed, TypeOK
<1>12. (MaxRetries + 1) * used' = b + (MaxRetries + 1)
  BY NumbersAssumption DEF Typed, TypeOK
<1> HIDE DEF a, b
<1>13. a + Cardinality(Open') <= b + (MaxRetries + 1)
  BY <1>9, <1>10, <1>11, NumbersAssumption
<1> QED
  BY <1>8, <1>11, <1>12, <1>13 DEF Budget

\* A worker has the request it had, or none; what it may yet do, it might.
Keeps(w) ==
  /\ task'[w].request \in {task[w].request, None}
  /\ \A k \in 0..MaxRetries :
       task'[w].request # None /\ Pending(w, k)' => Pending(w, k)

LEMMA ProceedsKeeps ==
  ASSUME Typed, NEW x \in Process, Proceeds(x)
  PROVE  \A w \in Worker : Keeps(w)
<1> SUFFICES ASSUME NEW w \in Worker PROVE Keeps(w)
  OBVIOUS
<1>1. CASE task'[w] = task[w]
  BY <1>1 DEF Keeps, Pending
<1>2. CASE w = x /\ Released(task'[w])
  BY <1>2 DEF Keeps, Released
<1>3. CASE /\ w = x
           /\ task'[x].request = task[x].request
           /\ task'[x].retries = task[x].retries
           /\ task'[x].at \in Early => task[x].at \in Early
           /\ task'[x].at \in Late => task[x].at \in Early \cup Late
  <2>1. ASSUME NEW k \in 0..MaxRetries, Pending(x, k)' PROVE Pending(x, k)
    BY <1>3, <2>1, Locals DEF Pending
  <2> QED
    BY <1>3, <2>1 DEF Keeps
<1> QED
  BY <1>1, <1>2, <1>3 DEF Proceeds, Process

LEMMA CarriersKept ==
  ASSUME Typed, OneCarrier, \A w \in Worker : Keeps(w), queue' \subseteq queue,
         \A r \in Request : request'[r].at # "done" => request[r].at # "done"
  PROVE  OneCarrier'
<1>1. \A r \in Request :
        request'[r].at # "done" =>
          /\ \A m \in queue' : m.request # r
          /\ \A w \in Worker : task'[w].request # r
  BY NoneAssumption DEF OneCarrier, Keeps
<1>2. \A m, n \in queue' : m.request = n.request => m = n
  BY DEF OneCarrier
<1>3. \A v, w \in Worker :
        task'[v].request = task'[w].request => v = w \/ task'[v].request = None
  BY DEF OneCarrier, Keeps
<1>4. \A m \in queue : m.request # None
  BY NoneAssumption DEF Typed, TypeOK, Message
<1>5. \A m \in queue' : \A w \in Worker : task'[w].request # m.request
  BY <1>4 DEF OneCarrier, Keeps
<1> QED
  BY <1>1, <1>2, <1>3, <1>5 DEF OneCarrier

LEMMA OpenKept ==
  ASSUME Typed, \A w \in Worker : Keeps(w), queue' \subseteq queue,
         \A r \in Request : request'[r].at = "enqueue" => request[r].at = "enqueue"
  PROVE  Open' \subseteq Open
<1> SUFFICES ASSUME NEW s \in Open' PROVE s \in Open
  OBVIOUS
<1>1. /\ s \in Request \X (0..MaxRetries)
      /\ s[1] \in Request /\ s[2] \in 0..MaxRetries /\ s[1] # None
  BY NoneAssumption DEF Open
<1>2. CASE request'[s[1]].at = "enqueue"
  BY <1>1, <1>2 DEF Open
<1>3. CASE \E m \in queue' : m.request = s[1] /\ m.retries <= s[2]
  BY <1>1, <1>3 DEF Open
<1>4. ASSUME NEW w \in Worker, task'[w].request = s[1], Pending(w, s[2])'
      PROVE  s \in Open
  BY <1>1, <1>4 DEF Open, Keeps
<1> QED
  BY <1>2, <1>3, <1>4 DEF Open

LEMMA QuietCounted ==
  ASSUME Counted, NEW x \in Process, Quiet(x), UNCHANGED jobs
  PROVE  Counted'
<1>1. Typed'
  BY QuietTyped DEF Counted, Typed, TypeOK
<1>2. \A w \in Worker : Keeps(w)
  BY ProceedsKeeps DEF Counted, Quiet
<1>3. OneCarrier'
  BY <1>2, CarriersKept DEF Counted, Quiet
<1>4. Open' \subseteq Open
  BY <1>2, OpenKept DEF Counted, Quiet
<1>5. Budget'
  BY <1>1, <1>4, OpenShrinks DEF Counted, Quiet
<1> QED
  BY <1>1, <1>3, <1>5 DEF Counted

LEMMA PaysCounted ==
  ASSUME Counted, NEW x \in Worker, Pays(x)
  PROVE  Counted'
<1> DEFINE s == <<task[x].request, task[x].retries>>
<1>1. x \in Process /\ Quiet(x) /\ jobs' \in Seq(Job)
  BY DEF Process, Pays
<1>2. Typed'
  BY <1>1, QuietTyped DEF Counted
<1>3. \A w \in Worker : Keeps(w)
  BY <1>1, ProceedsKeeps DEF Counted, Quiet
<1>4. OneCarrier' /\ Open' \subseteq Open
  BY <1>1, <1>3, CarriersKept, OpenKept DEF Counted, Quiet
<1>5. /\ task[x].request \in Request /\ task[x].retries \in 0..MaxRetries
      /\ task[x].request # None /\ task[x].at \in Early
      /\ \A y \in Worker \ {x} : task'[y] = task[y]
      /\ request' = request /\ queue' = queue
  BY <1>1, Locals, NoneAssumption
     DEF Pays, Quiet, Proceeds, Counted, Typed, Errands, Early, Process
<1>6. s \in Open
  BY <1>5 DEF Open, Pending
<1>7. request[task[x].request].at = "done"
  BY <1>5 DEF Counted, OneCarrier
<1>8. \A m \in queue : m.request # task[x].request
  BY <1>5 DEF Counted, OneCarrier
<1>9. ASSUME NEW k, k = task[x].retries, task'[x].request = task[x].request
      PROVE  ~Pending(x, k)'
  <2>1. task'[x].retries = task[x].retries
    BY <1>1, <1>5, <1>9 DEF Quiet, Proceeds, Released
  <2>2. task'[x].at \notin Early
    BY DEF Pays
  <2> QED
    BY <1>5, <1>9, <2>1, <2>2 DEF Pending
<1>10. \A w \in Worker : task'[w].request = task[x].request => w = x
  BY <1>3, <1>5 DEF Keeps, Counted, OneCarrier
<1>11. s \notin Open'
  <2> SUFFICES ASSUME NEW u \in Open', u = s PROVE FALSE
    OBVIOUS
  <2>1. u[1] = task[x].request /\ u[2] = task[x].retries
    OBVIOUS
  <2> HIDE DEF s
  <2>2. \/ request'[u[1]].at = "enqueue"
        \/ \E m \in queue' : m.request = u[1] /\ m.retries <= u[2]
        \/ \E w \in Worker : task'[w].request = u[1] /\ Pending(w, u[2])'
    BY DEF Open
  <2>3. request'[u[1]].at # "enqueue"
    BY <1>5, <1>7, <2>1
  <2>4. \A m \in queue' : m.request # u[1]
    BY <1>5, <1>8, <2>1
  <2>5. ASSUME NEW w \in Worker, task'[w].request = u[1], Pending(w, u[2])'
        PROVE  FALSE
    BY <1>9, <1>10, <2>1, <2>5
  <2> QED
    BY <2>2, <2>3, <2>4, <2>5
<1> HIDE DEF s
<1>12. Open' \subseteq Open \ {s}
  BY <1>4, <1>11
<1>13. Budget'
  BY <1>2, <1>6, <1>12, OpenPays DEF Counted, Pays, Quiet
<1> QED
  BY <1>2, <1>4, <1>13 DEF Counted

LEMMA RequeuesCounted ==
  ASSUME Counted, NEW x \in Worker, Requeues(x)
  PROVE  Counted'
<1> DEFINE n == [request |-> task[x].request, product |-> task[x].product,
                 retries |-> task[x].retries + 1]
<1>1. /\ x \in Process /\ task[x].request \in Request
      /\ task[x].retries \in 0..MaxRetries
      /\ task[x].request # None /\ task[x].at = "retry"
      /\ task'[x].request = None
      /\ \A y \in Worker \ {x} : task'[y] = task[y]
      /\ request' = request
      /\ UNCHANGED <<jobs, used>>
  BY Locals, NoneAssumption
     DEF Requeues, Released, Proceeds, Counted, Typed, Errands, Process
<1>2. queue' = queue \cup {n} /\ n.request = task[x].request
      /\ n.retries = task[x].retries + 1
  BY DEF Requeues
<1> HIDE DEF n
<1>3. Typed'
  BY RequeuesTyped DEF Counted
<1>4. \A w \in Worker : Keeps(w)
  BY <1>1, ProceedsKeeps DEF Counted, Requeues
<1>5. /\ request[n.request].at = "done"
      /\ \A m \in queue : m.request # n.request
      /\ \A w \in Worker : task'[w].request # n.request
  BY <1>1, <1>2 DEF Counted, OneCarrier
<1>6. OneCarrier'
  <2>1. ASSUME NEW r \in Request, request'[r].at # "done"
        PROVE  /\ \A m \in queue' : m.request # r
               /\ \A w \in Worker : task'[w].request # r
    <3>1. r # n.request /\ r # None /\ request[r].at # "done"
      BY <1>1, <1>5, <2>1, NoneAssumption
    <3>2. /\ \A m \in queue : m.request # r
          /\ \A w \in Worker : task[w].request # r
      BY <3>1 DEF Counted, OneCarrier
    <3> QED
      BY <1>2, <1>4, <3>1, <3>2 DEF Keeps
  <2>2. \A l, m \in queue' : l.request = m.request => l = m
    BY <1>2, <1>5 DEF Counted, OneCarrier
  <2>3. \A m \in queue : m.request # None
    BY NoneAssumption DEF Counted, Typed, TypeOK, Message
  <2>4. \A m \in queue' : \A w \in Worker : task'[w].request # m.request
    BY <1>2, <1>4, <1>5, <2>3 DEF Counted, OneCarrier, Keeps
  <2>5. \A v, w \in Worker :
          task'[v].request = task'[w].request => v = w \/ task'[v].request = None
    BY <1>4 DEF Counted, OneCarrier, Keeps
  <2> QED
    BY <2>1, <2>2, <2>4, <2>5 DEF OneCarrier
<1>7. Open' \subseteq Open
  <2> SUFFICES ASSUME NEW s \in Open' PROVE s \in Open
    OBVIOUS
  <2>1. /\ s \in Request \X (0..MaxRetries)
        /\ s[1] \in Request /\ s[2] \in 0..MaxRetries /\ s[1] # None
    BY NoneAssumption DEF Open
  <2>2. CASE request'[s[1]].at = "enqueue"
    BY <1>1, <2>1, <2>2 DEF Open
  <2>3. ASSUME NEW m \in queue', m.request = s[1], m.retries <= s[2]
        PROVE  s \in Open
    <3>1. CASE m \in queue
      BY <2>1, <2>3, <3>1 DEF Open
    <3>2. CASE m = n
      <4>1. task[x].request = s[1] /\ task[x].retries < s[2]
        BY <1>1, <1>2, <2>1, <2>3, <3>2
      <4>2. Pending(x, s[2])
        BY <1>1, <4>1 DEF Pending, Late
      <4> QED
        BY <2>1, <4>1, <4>2 DEF Open
    <3> QED
      BY <1>2, <3>1, <3>2
  <2>4. ASSUME NEW w \in Worker, task'[w].request = s[1], Pending(w, s[2])'
        PROVE  s \in Open
    BY <1>4, <2>1, <2>4 DEF Open, Keeps
  <2> QED
    BY <2>2, <2>3, <2>4 DEF Open
<1>8. Budget'
  BY <1>1, <1>3, <1>7, OpenShrinks DEF Counted
<1> QED
  BY <1>3, <1>6, <1>8 DEF Counted

LEMMA StartGenerateCounted ==
  ASSUME Counted, NEW x \in Worker, NEW m \in queue, StartGenerate(x, m)
  PROVE  Counted'
<1>1. /\ Typed' /\ x \in Process
      /\ \A y \in Worker \ {x} : task'[y] = task[y]
      /\ task'[x].at = "load"
      /\ task'[x].request = m.request
      /\ task'[x].retries = m.retries
      /\ queue' = queue \ {m}
      /\ UNCHANGED <<request, jobs, used>>
  BY StartGenerateTyped DEF StartGenerate, Process, Counted
<1>2. m.request \in Request /\ m.request # None
  BY NoneAssumption DEF Counted, Typed, TypeOK, Message
<1>3. /\ request[m.request].at = "done"
      /\ \A n \in queue' : n.request # m.request
      /\ \A w \in Worker : task[w].request # m.request
  BY <1>1, <1>2 DEF Counted, OneCarrier
<1>4. OneCarrier'
  <2>1. ASSUME NEW r \in Request, request'[r].at # "done"
        PROVE  /\ \A n \in queue' : n.request # r
               /\ \A w \in Worker : task'[w].request # r
    <3>1. r # m.request
      BY <1>1, <1>3, <2>1
    <3>2. /\ \A n \in queue : n.request # r
          /\ \A w \in Worker : task[w].request # r
      BY <1>1, <2>1 DEF Counted, OneCarrier
    <3> QED
      BY <1>1, <3>1, <3>2
  <2>2. \A l, n \in queue' : l.request = n.request => l = n
    BY <1>1 DEF Counted, OneCarrier
  <2>3. \A n \in queue' : \A w \in Worker : task'[w].request # n.request
    BY <1>1, <1>3 DEF Counted, OneCarrier
  <2>4. ASSUME NEW v \in Worker, NEW w \in Worker, task'[v].request = task'[w].request
        PROVE  v = w \/ task'[v].request = None
    BY <1>1, <1>3, <2>4 DEF Counted, OneCarrier
  <2> QED
    BY <2>1, <2>2, <2>3, <2>4 DEF OneCarrier
<1>5. Open' \subseteq Open
  <2> SUFFICES ASSUME NEW s \in Open' PROVE s \in Open
    OBVIOUS
  <2>1. /\ s \in Request \X (0..MaxRetries)
        /\ s[1] \in Request /\ s[2] \in 0..MaxRetries
    BY DEF Open
  <2>2. CASE request'[s[1]].at = "enqueue"
    BY <1>1, <2>1, <2>2 DEF Open
  <2>3. CASE \E n \in queue' : n.request = s[1] /\ n.retries <= s[2]
    BY <1>1, <2>1, <2>3 DEF Open
  <2>4. ASSUME NEW w \in Worker, task'[w].request = s[1], Pending(w, s[2])'
        PROVE  s \in Open
    <3>1. CASE w = x
      <4>1. m.request = s[1] /\ m.retries <= s[2]
        BY <1>1, <2>4, <3>1 DEF Pending, Late
      <4> QED
        BY <2>1, <4>1 DEF Open
    <3>2. CASE w # x
      BY <1>1, <2>1, <2>4, <3>2 DEF Open, Pending
    <3> QED
      BY <3>1, <3>2
  <2> QED
    BY <2>2, <2>3, <2>4 DEF Open
<1>6. Budget'
  BY <1>1, <1>5, OpenShrinks DEF Counted
<1> QED
  BY <1>1, <1>4, <1>6 DEF Counted

LEMMA TasksStill ==
  ASSUME UNCHANGED task
  PROVE  \A w \in Worker : Keeps(w)
  BY DEF Keeps, Pending

\* The other steps: those of requests, and deletions.
LEMMA BrowsesCounted ==
  ASSUME Counted, NEW r \in Request, Browses(r), Typed'
  PROVE  Counted'
<1>1. \A w \in Worker : Keeps(w)
  BY TasksStill DEF Browses
<1>2. \A q \in Request :
        /\ request'[q].at # "done" => request[q].at # "done"
        /\ request'[q].at = "enqueue" => request[q].at = "enqueue"
  BY DEF Browses, Comes
<1>3. OneCarrier' /\ Open' \subseteq Open
  BY <1>1, <1>2, CarriersKept, OpenKept DEF Browses, Counted
<1>4. Budget'
  BY <1>3, OpenShrinks DEF Browses, Counted
<1> QED
  BY <1>3, <1>4 DEF Counted

LEMMA SpendCreditCounted ==
  ASSUME Counted, NEW r \in Request, SpendCredit(r)
  PROVE  Counted'
<1>1. /\ Typed' /\ Comes(r, "enqueue") /\ request[r].at = "spend"
      /\ used' = used + 1
      /\ UNCHANGED <<jobs, queue, task>>
  BY SpendCreditTyped DEF SpendCredit, Counted
<1>2. \A w \in Worker : Keeps(w)
  BY <1>1, TasksStill
<1>3. OneCarrier'
  BY <1>1, <1>2, CarriersKept DEF Comes, Counted
<1>4. Open' \subseteq Open \cup ({r} \X (0..MaxRetries))
  <2> SUFFICES ASSUME NEW s \in Open', s[1] # r PROVE s \in Open
    BY DEF Open
  <2>1. /\ s \in Request \X (0..MaxRetries)
        /\ s[1] \in Request
        /\ request'[s[1]] = request[s[1]]
    BY <1>1 DEF Open, Comes
  <2> QED
    BY <1>1, <2>1 DEF Open, Pending
<1>5. Budget'
  BY <1>1, <1>4, OpenGrows DEF Counted
<1> QED
  BY <1>1, <1>3, <1>5 DEF Counted

LEMMA EnqueueCounted ==
  ASSUME Counted, NEW r \in Request, Enqueue(r)
  PROVE  Counted'
<1> DEFINE n == [request |-> r, product |-> request[r].product, retries |-> 0]
<1>1. /\ Typed' /\ Comes(r, "done") /\ request[r].at = "enqueue"
      /\ queue' = queue \cup {n} /\ n.request = r /\ n.retries = 0
      /\ UNCHANGED <<jobs, used, task>>
  BY EnqueueTyped DEF Enqueue, Counted
<1> HIDE DEF n
<1>2. /\ \A m \in queue : m.request # r
      /\ \A w \in Worker : task[w].request # r
  BY <1>1 DEF Counted, OneCarrier
<1>3. OneCarrier'
  <2>1. \A q \in Request :
          request'[q].at # "done" => q # r /\ request[q].at # "done"
    BY <1>1 DEF Comes
  <2> QED
    BY <1>1, <1>2, <2>1 DEF Counted, OneCarrier
<1>4. Open' \subseteq Open
  <2> SUFFICES ASSUME NEW s \in Open' PROVE s \in Open
    OBVIOUS
  <2>1. s \in Request \X (0..MaxRetries) /\ s[1] \in Request
    BY DEF Open
  <2>2. CASE s[1] = r
    BY <1>1, <2>1, <2>2 DEF Open
  <2>3. CASE s[1] # r
    <3>1. request'[s[1]] = request[s[1]]
      BY <1>1, <2>1, <2>3 DEF Comes
    <3> QED
      BY <1>1, <2>1, <2>3, <3>1 DEF Open, Pending
  <2> QED
    BY <2>2, <2>3
<1>5. Budget'
  BY <1>1, <1>4, OpenShrinks DEF Counted
<1> QED
  BY <1>1, <1>3, <1>5 DEF Counted

LEMMA DeleteItemCounted ==
  ASSUME Counted, NEW p \in Product, DeleteItem(p)
  PROVE  Counted'
<1>1. Typed' /\ UNCHANGED <<request, queue, task, jobs, used>>
  BY DeleteItemTyped DEF DeleteItem, Counted
<1>2. OneCarrier' /\ Open' \subseteq Open
  BY <1>1, TasksStill, CarriersKept, OpenKept DEF Counted
<1> QED
  BY <1>1, <1>2, OpenShrinks DEF Counted

LEMMA CountedInitially == Init => Counted
<1> SUFFICES ASSUME Init PROVE Counted
  OBVIOUS
<1>1. Typed
  BY TypedInitially
<1>2. \A w \in Worker : task[w].request = None /\ task[w].at = "idle"
  BY DEF Init, Process, NoTask
<1>3. OneCarrier
  BY <1>2, NoneAssumption DEF Init, OneCarrier
<1>4. Open = {}
  BY <1>2 DEF Init, Open, Pending, Early, Late
<1>5. Budget
  BY <1>4, FS_EmptySet, NumbersAssumption DEF Init, Budget
<1> QED
  BY <1>1, <1>3, <1>5 DEF Counted

LEMMA CountedKept ==
  ASSUME Script = {}, Counted, [Next]_vars
  PROVE  Counted'
<1>1. Process = Worker /\ Typed
  BY DEF Process, Counted
<1>2. CASE UNCHANGED vars
  <2>1. Typed' /\ UNCHANGED <<request, queue, task, jobs, used>>
    BY <1>1, <1>2, TypedKept DEF vars
  <2>2. OneCarrier' /\ Open' \subseteq Open
    BY <1>1, <2>1, TasksStill, CarriersKept, OpenKept DEF Counted
  <2> QED
    BY <2>1, <2>2, OpenShrinks DEF Counted
<1>3. ASSUME NEW r \in Request,
             \/ \E p \in Product : RequestModel(r, p)
             \/ RequestStep(r) \/ RequestBreaks(r)
      PROVE  Counted'
  BY <1>1, <1>3, RequestModelBrowses, CheckQuotaBrowses, CommitRequestBrowses,
     RequestBreaksBrowses, BrowsesCounted, SpendCreditCounted, EnqueueCounted
     DEF RequestStep
<1>4. ASSUME NEW w \in Worker,
             \/ TakeMessage(w) \/ TaskStep(w)
             \/ ProviderFails(w) \/ DatabaseFault(w) \/ RedisFault(w) \/ Crash(w)
      PROVE  Counted'
  BY <1>1, <1>4, StartGenerateCounted, RetryRequeues, RequeuesCounted,
     TaskStepQuiet, QuietCounted, PaysCounted DEF TakeMessage
<1>5. ASSUME NEW p \in Product, DeleteItem(p) PROVE Counted'
  BY <1>5, DeleteItemCounted
<1> QED
  BY <1>1, <1>2, <1>3, <1>4, <1>5 DEF Next

(***************************************************************************)
(* The provider is paid for at most one job per attempt of a counted       *)
(* request's task, for any number of requests, workers, products and       *)
(* retries and whatever fails, as long as nobody runs the pre-generation   *)
(* script, which spends no credit.                                         *)
(***************************************************************************)
THEOREM JobsAreCounted == Script = {} => (Spec => []JobsBounded)
<1> SUFFICES ASSUME Script = {} PROVE Spec => []JobsBounded
  OBVIOUS
<1>1. Counted /\ [Next]_vars => Counted'
  BY CountedKept
<1>2. Counted => JobsBounded
  <2> SUFFICES ASSUME Counted PROVE JobsBounded
    OBVIOUS
  <2>1. Cardinality(Open) \in Nat
    BY FS_CardinalityType DEF Counted, Budget
  <2> DEFINE b == (MaxRetries + 1) * used
  <2>2. b \in Nat /\ Len(jobs) \in Nat /\ Len(jobs) + Cardinality(Open) <= b
    BY NumbersAssumption DEF Counted, Budget, Typed, TypeOK
  <2> HIDE DEF b
  <2>3. Len(jobs) <= b
    BY <2>1, <2>2
  <2> QED
    BY <2>3 DEF JobsBounded, b
<1> QED
  BY <1>1, <1>2, CountedInitially, PTL DEF Spec

-----------------------------------------------------------------------------
(***************************************************************************)
(* One process.  A file is only replaced while its row is not ready, since *)
(* the task looked at the row and nobody else makes it ready; and what is  *)
(* committed as ready was downloaded in this very attempt, both files of   *)
(* the job at hand.                                                        *)
(***************************************************************************)
OneProcess == \A x, y \in Process : x = y

Working == {"begin", "create", "poll", "glb", "usdz", "commit"}

InHand(x) ==
  LET p == task[x].product IN
  /\ task[x].at \in Working => row[p].status # "ready"
  /\ task[x].at \in {"poll", "glb", "usdz", "commit"} => task[x].job # None
  /\ task[x].at \in {"usdz", "commit"} => files[p].glb = task[x].job
  /\ task[x].at = "commit" => files[p].usdz = task[x].job

Whole == (\A x \in Process : InHand(x)) /\ ServedTogether /\ Typed

\* No row becomes ready.
Unready == \A p \in Product : row'[p].status = "ready" => row[p].status = "ready"

LEMMA AloneKept ==
  ASSUME OneProcess, Whole, NEW x \in Process, InHand(x)', Typed', Unready,
         UNCHANGED files
  PROVE  Whole'
<1>1. \A y \in Process : InHand(y)'
  BY DEF OneProcess
<1>2. ServedTogether'
  BY DEF Whole, ServedTogether, Unready
<1> QED
  BY <1>1, <1>2 DEF Whole

\* A step after which the process works on no model.
LEMMA StopsWhole ==
  ASSUME OneProcess, Whole, NEW x \in Process, task'[x].at \notin Working,
         Typed', Unready, UNCHANGED files
  PROVE  Whole'
<1>1. InHand(x)'
  BY DEF InHand, Working
<1> QED
  BY <1>1, AloneKept

\* A step that leaves the process as it was.
LEMMA StillWhole ==
  ASSUME OneProcess, Whole, Typed', Unready, UNCHANGED <<task, files>>
  PROVE  Whole'
<1>1. ASSUME NEW y \in Process PROVE InHand(y)'
  <2>1. CASE task[y].at \in Working
    <3>1. task[y].product \in Product
      BY <2>1 DEF Whole, Typed, Errands, Working
    <3> QED
      BY <2>1, <3>1 DEF Whole, InHand, Unready
  <2>2. CASE task[y].at \notin Working
    BY <2>2 DEF InHand, Working
  <2> QED
    BY <2>1, <2>2
<1>2. ServedTogether'
  BY DEF Whole, ServedTogether, Unready
<1> QED
  BY <1>1, <1>2 DEF Whole

LEMMA RaiseWhole ==
  ASSUME OneProcess, Whole, NEW x \in Process, Raise(x) \/ Finish(x),
         task[x].at \in Early \cup Late \/ Finish(x),
         Typed', UNCHANGED <<row, files>>
  PROVE  Whole'
<1>1. task'[x].at \in {"idle", "done", "retry"}
  BY Raises, Ends DEF Whole, Released
<1> QED
  BY <1>1, StopsWhole DEF Working, Unready

LEMMA LoadModelWhole ==
  ASSUME OneProcess, Whole, NEW x \in Process, LoadModel(x), Typed'
  PROVE  Whole'
<1> DEFINE l == row[task[x].product]
           u == [task[x] EXCEPT !.at = "begin", !.loaded = l]
<1>1. CASE Finish(x)
  BY <1>1, RaiseWhole DEF LoadModel
<1>2. CASE task' = [task EXCEPT ![x] = u] /\ l.status # "ready"
  <2>1. l \in Model /\ task \in [Process -> Task] /\ task[x] \in Task
    BY DEF LoadModel, Whole, Typed, TypeOK, Errands
  <2> HIDE DEF l
  <2>2. u.at = "begin" /\ u.product = task[x].product
    BY <2>1 DEF Task
  <2> HIDE DEF u
  <2>3. task'[x] = u
    BY <1>2, <2>1
  <2>4. InHand(x)'
    BY <1>2, <2>2, <2>3 DEF InHand, LoadModel, l
  <2> QED
    BY <2>4, AloneKept DEF LoadModel, Unready
<1> QED
  BY <1>1, <1>2 DEF LoadModel

LEMMA StartScriptWhole ==
  ASSUME OneProcess, Whole, NEW x \in Script, NEW p \in Product, StartScript(x, p)
  PROVE  Whole'
<1>1. x \in Process /\ Typed' /\ task'[x].at = "begin" /\ task'[x].product = p
  BY StartScriptTyped DEF Process, Whole
<1>2. InHand(x)'
  BY <1>1 DEF InHand, StartScript
<1> QED
  BY <1>1, <1>2, AloneKept DEF StartScript, Unready

LEMMA BeginGenerationWhole ==
  ASSUME OneProcess, Whole, NEW x \in Process, BeginGeneration(x), Typed'
  PROVE  Whole'
<1> DEFINE j == task[x].loaded.job
           c == IF j = None THEN "create" ELSE "poll"
           u == [task[x] EXCEPT !.at = c, !.job = j]
<1>1. task[x].at = "begin" /\ UNCHANGED <<row, files>>
  BY DEF BeginGeneration
<1>2. CASE Raise(x)
  BY <1>1, <1>2, RaiseWhole DEF Early
<1>3. CASE task' = [task EXCEPT ![x] = u]
  <2>1. task \in [Process -> Task] /\ task[x] \in Task /\ j \in JobId
    BY Locals DEF Whole, Typed, TypeOK
  <2>2. c \in {"create", "poll"} /\ (c = "poll" => j # None)
    OBVIOUS
  <2>3. row[task[x].product].status # "ready"
    BY <1>1 DEF Whole, InHand, Working
  <2> HIDE DEF c, j
  <2>4. u.at = c /\ u.job = j /\ u.product = task[x].product
    BY <2>1, <2>2 DEF Task
  <2> HIDE DEF u
  <2>5. task'[x] = u
    BY <1>3, <2>1
  <2>6. InHand(x)'
    BY <1>1, <2>2, <2>3, <2>4, <2>5 DEF InHand
  <2> QED
    BY <1>1, <2>6, AloneKept DEF Unready
<1> QED
  BY <1>2, <1>3 DEF BeginGeneration

LEMMA CreateJobWhole ==
  ASSUME OneProcess, Whole, NEW x \in Process, CreateJob(x), Typed'
  PROVE  Whole'
<1> DEFINE j == Len(jobs) + 1
           u == [task[x] EXCEPT !.at = "poll", !.job = j]
<1>1. /\ task[x].at = "create" /\ task' = [task EXCEPT ![x] = u]
      /\ UNCHANGED <<row, files>>
  BY DEF CreateJob
<1>2. task \in [Process -> Task] /\ task[x] \in Task /\ j \in Nat /\ j # None
  BY Locals, NoneAssumption DEF Whole, Typed, TypeOK
<1>3. row[task[x].product].status # "ready"
  BY <1>1 DEF Whole, InHand, Working
<1> HIDE DEF j
<1>4. u.at = "poll" /\ u.job = j /\ u.product = task[x].product
  BY <1>2 DEF Task
<1> HIDE DEF u
<1>5. task'[x] = u
  BY <1>1, <1>2
<1>6. InHand(x)'
  BY <1>1, <1>2, <1>3, <1>4, <1>5 DEF InHand
<1> QED
  BY <1>1, <1>6, AloneKept DEF Unready

\* A step from one point of the generation to the next.
LEMMA NextPoint ==
  ASSUME Typed, NEW x \in Process, NEW c \in Control,
         task' = [task EXCEPT ![x].at = c]
  PROVE  /\ task'[x].at = c
         /\ task'[x].product = task[x].product
         /\ task'[x].job = task[x].job
<1> DEFINE u == [task[x] EXCEPT !.at = c]
<1>1. task \in [Process -> Task] /\ task[x] \in Task
  BY DEF Typed, TypeOK
<1>2. u.at = c /\ u.product = task[x].product /\ u.job = task[x].job
  BY <1>1, TaskAssignments
<1>3. task' = [task EXCEPT ![x] = u]
  OBVIOUS
<1> HIDE DEF u
<1>4. task'[x] = u
  BY <1>1, <1>3
<1> QED
  BY <1>2, <1>4

LEMMA PollJobWhole ==
  ASSUME OneProcess, Whole, NEW x \in Process, PollJob(x), Typed'
  PROVE  Whole'
<1> DEFINE p == task[x].product
<1>1. /\ task[x].at = "poll" /\ task[x].job # None
      /\ row[p].status # "ready"
      /\ p \in Product /\ UNCHANGED files
  BY DEF PollJob, Whole, InHand, Working, Typed, Errands
<1>2. CASE task' = [task EXCEPT ![x].at = "glb"] /\ UNCHANGED row
  <2>1. /\ task'[x].at = "glb" /\ task'[x].product = p
        /\ task'[x].job = task[x].job
    BY <1>2, NextPoint DEF Control, Whole
  <2>2. InHand(x)'
    BY <1>1, <1>2, <2>1 DEF InHand
  <2> QED
    BY <1>1, <1>2, <2>2, AloneKept DEF Unready
<1>3. CASE Finish(x) /\ row' = [row EXCEPT ![p] = Written(x, "failed")]
  <2>1. Written(x, "failed").status = "failed"
    BY <1>1, WrittenTyped DEF Whole
  <2>2. Unready
    BY <1>1, <1>3, <2>1 DEF Unready, Whole, Typed, TypeOK
  <2>3. task'[x].at \notin Working
    BY <1>3, Ends DEF Whole, Released, Working
  <2> QED
    BY <1>1, <2>2, <2>3, StopsWhole
<1>4. CASE Raise(x) /\ UNCHANGED row
  BY <1>1, <1>4, RaiseWhole DEF Late
<1> QED
  BY <1>2, <1>3, <1>4 DEF PollJob

LEMMA DownloadGlbWhole ==
  ASSUME OneProcess, Whole, NEW x \in Process, DownloadGlb(x), Typed'
  PROVE  Whole'
<1> DEFINE p == task[x].product
<1>1. /\ task[x].at = "glb" /\ task[x].job # None /\ p \in Product
      /\ row[p].status # "ready"
      /\ files' = [files EXCEPT ![p] = [@ EXCEPT !.glb = task[x].job]]
      /\ UNCHANGED row
  BY DEF DownloadGlb, Whole, InHand, Working, Typed, Errands
<1>2. /\ task'[x].at = "usdz" /\ task'[x].product = p
      /\ task'[x].job = task[x].job
  BY NextPoint DEF DownloadGlb, Control, Whole
<1>3. /\ files \in [Product -> Files] /\ files[p] \in Files
  BY <1>1 DEF Whole, Typed, TypeOK
<1>4. [files[p] EXCEPT !.glb = task[x].job].glb = task[x].job
  BY <1>3 DEF Files
<1> HIDE DEF p
<1>5. files'[p].glb = task[x].job /\ \A q \in Product \ {p} : files'[q] = files[q]
  BY <1>1, <1>3, <1>4
<1>6. InHand(x)'
  BY <1>1, <1>2, <1>5 DEF InHand
<1>7. ServedTogether'
  BY <1>1, <1>5 DEF Whole, ServedTogether
<1> QED
  BY <1>6, <1>7 DEF Whole, OneProcess

LEMMA DownloadUsdzWhole ==
  ASSUME OneProcess, Whole, NEW x \in Process, DownloadUsdz(x), Typed'
  PROVE  Whole'
<1> DEFINE p == task[x].product
<1>1. /\ task[x].at = "usdz" /\ task[x].job # None /\ p \in Product
      /\ row[p].status # "ready"
      /\ files[p].glb = task[x].job
      /\ files' = [files EXCEPT ![p] = [@ EXCEPT !.usdz = task[x].job]]
      /\ UNCHANGED row
  BY DEF DownloadUsdz, Whole, InHand, Working, Typed, Errands
<1>2. /\ task'[x].at = "commit" /\ task'[x].product = p
      /\ task'[x].job = task[x].job
  BY NextPoint DEF DownloadUsdz, Control, Whole
<1>3. /\ files \in [Product -> Files] /\ files[p] \in Files
  BY <1>1 DEF Whole, Typed, TypeOK
<1>4. /\ [files[p] EXCEPT !.usdz = task[x].job].usdz = task[x].job
      /\ [files[p] EXCEPT !.usdz = task[x].job].glb = files[p].glb
  BY <1>3 DEF Files
<1> HIDE DEF p
<1>5. /\ files'[p].usdz = task[x].job /\ files'[p].glb = task[x].job
      /\ \A q \in Product \ {p} : files'[q] = files[q]
  BY <1>1, <1>3, <1>4
<1>6. InHand(x)'
  BY <1>1, <1>2, <1>5 DEF InHand
<1>7. ServedTogether'
  BY <1>1, <1>5 DEF Whole, ServedTogether
<1> QED
  BY <1>6, <1>7 DEF Whole, OneProcess

LEMMA CommitModelWhole ==
  ASSUME OneProcess, Whole, NEW x \in Process, CommitModel(x), Typed'
  PROVE  Whole'
<1> DEFINE p == task[x].product
<1>1. /\ task[x].at = "commit" /\ task[x].job # None /\ p \in Product
      /\ files[p].glb = task[x].job /\ files[p].usdz = task[x].job
      /\ row' = [row EXCEPT ![p] = Written(x, "ready")]
      /\ UNCHANGED files
  BY DEF CommitModel, Whole, InHand, Typed, Errands
<1>2. InHand(x)'
  BY Ends DEF CommitModel, Whole, Released, InHand, Working
<1>3. \A q \in Product \ {p} : row'[q] = row[q]
  BY <1>1 DEF Whole, Typed, TypeOK
<1>4. ServedTogether'
  BY <1>1, <1>3 DEF Whole, ServedTogether
<1> QED
  BY <1>2, <1>4 DEF Whole, OneProcess

LEMMA MarkFailedWhole ==
  ASSUME OneProcess, Whole, NEW x \in Process, MarkFailed(x), Typed'
  PROVE  Whole'
<1> DEFINE p == task[x].product
<1>1. p \in Product
  BY DEF MarkFailed, Whole, Typed, Errands
<1>2. row[p] \in Model
  BY <1>1 DEF Whole, Typed, TypeOK
<1>3. [row[p] EXCEPT !.status = "failed"].status = "failed"
  BY <1>2 DEF Model
<1>4. row' = row \/ row' = [row EXCEPT ![p] = [@ EXCEPT !.status = "failed"]]
  BY DEF MarkFailed
<1> HIDE DEF p
<1>5. Unready
  BY <1>1, <1>3, <1>4 DEF Unready, Whole, Typed, TypeOK
<1>6. task'[x].at \notin Working
  BY Ends DEF MarkFailed, Whole, Released, Working
<1> QED
  BY <1>5, <1>6, StopsWhole DEF MarkFailed

LEMMA ParkWhole ==
  ASSUME OneProcess, Whole, NEW x \in Process,
         RetryOrGiveUp(x) \/ ParkGeneration(x) \/ RedisFault(x), Typed'
  PROVE  Whole'
<1>1. task \in [Process -> Task] /\ task[x] \in Task
  BY DEF Whole, Typed, TypeOK
<1>2. \/ task' = [task EXCEPT ![x] = NoTask]
      \/ task' = [task EXCEPT ![x] = [@ EXCEPT !.at = "park"]]
      \/ task' = [task EXCEPT ![x] =
                    [@ EXCEPT !.at = "mark", !.loaded = row[task[x].product]]]
  BY DEF RetryOrGiveUp, ParkGeneration, RedisFault
<1>3. /\ [task[x] EXCEPT !.at = "park"].at = "park"
      /\ [task[x] EXCEPT !.at = "mark", !.loaded = row[task[x].product]].at = "mark"
      /\ NoTask.at = "idle"
  BY <1>1 DEF Task, NoTask
<1>4. task'[x].at \notin Working
  BY <1>1, <1>2, <1>3 DEF Working
<1> QED
  BY <1>4, StopsWhole DEF RetryOrGiveUp, ParkGeneration, RedisFault, Unready

LEMMA RequestWhole ==
  ASSUME OneProcess, Whole, NEW r \in Request,
         \/ \E p \in Product : RequestModel(r, p)
         \/ RequestStep(r) \/ RequestBreaks(r),
         Typed'
  PROVE  Whole'
<1>1. Unready /\ UNCHANGED <<task, files>>
  <2>1. CASE CommitRequest(r)
    <3>1. request[r].product \in Product
      BY <2>1 DEF CommitRequest, Whole, Typed, Errands
    <3> QED
      BY <2>1, <3>1 DEF CommitRequest, Unready, Whole, Typed, TypeOK
  <2>2. CASE ~CommitRequest(r)
    BY <2>2 DEF RequestModel, RequestStep, CheckQuota, SpendCredit, Enqueue,
                RequestBreaks, Unready
  <2> QED
    BY <2>1, <2>2
<1> QED
  BY <1>1, StillWhole

LEMMA DeleteItemWhole ==
  ASSUME OneProcess, Whole, NEW p \in Product, DeleteItem(p), Typed'
  PROVE  Whole'
<1>1. Unready /\ UNCHANGED <<task, files>>
  BY DEF DeleteItem, NoModel, Unready, Whole, Typed, TypeOK
<1> QED
  BY <1>1, StillWhole

LEMMA StartGenerateWhole ==
  ASSUME OneProcess, Whole, NEW x \in Worker, NEW m \in queue, StartGenerate(x, m)
  PROVE  Whole'
<1>1. x \in Process /\ Typed' /\ task'[x].at = "load"
  BY StartGenerateTyped DEF Process, Whole
<1> QED
  BY <1>1, StopsWhole DEF StartGenerate, Working, Unready

LEMMA FaultsWhole ==
  ASSUME OneProcess, Whole, NEW x \in Process,
         ProviderFails(x) \/ DatabaseFault(x) \/ Crash(x), Typed'
  PROVE  Whole'
<1>1. /\ \/ Finish(x)
         \/ Raise(x) /\ task[x].at \in Early \cup Late
      /\ UNCHANGED <<row, files>>
  BY DEF ProviderFails, DatabaseFault, Crash, Early, Late
<1> QED
  BY <1>1, RaiseWhole

LEMMA WholeInitially == Init => Whole
<1> SUFFICES ASSUME Init PROVE Whole
  OBVIOUS
<1>1. \A x \in Process : task[x].at = "idle"
  BY DEF Init, NoTask
<1>2. \A x \in Process : InHand(x)
  BY <1>1 DEF InHand, Working
<1>3. ServedTogether
  BY DEF Init, NoModel, ServedTogether
<1> QED
  BY <1>2, <1>3, TypedInitially DEF Whole

LEMMA WholeKept ==
  ASSUME OneProcess, Whole, [Next]_vars
  PROVE  Whole'
<1>1. Typed'
  BY TypedKept DEF Whole
<1>2. CASE UNCHANGED vars
  BY <1>1, <1>2, StillWhole DEF vars, Unready
<1>3. ASSUME NEW r \in Request,
             \/ \E p \in Product : RequestModel(r, p)
             \/ RequestStep(r) \/ RequestBreaks(r)
      PROVE  Whole'
  BY <1>1, <1>3, RequestWhole
<1>4. ASSUME NEW x \in Process, GenerationStep(x)
      PROVE  Whole'
  BY <1>1, <1>4, BeginGenerationWhole, CreateJobWhole, PollJobWhole,
     DownloadGlbWhole, DownloadUsdzWhole, CommitModelWhole DEF GenerationStep
<1>5. ASSUME NEW w \in Worker, TakeMessage(w) \/ TaskStep(w) \/ RedisFault(w)
      PROVE  Whole'
  <2>1. w \in Process
    BY DEF Process
  <2> QED
    BY <1>1, <1>4, <1>5, <2>1, StartGenerateWhole, LoadModelWhole, ParkWhole,
       MarkFailedWhole DEF TakeMessage, TaskStep
<1>6. ASSUME NEW x \in Script,
             (\E p \in Product : StartScript(x, p)) \/ GenerationStep(x)
      PROVE  Whole'
  <2>1. x \in Process
    BY DEF Process
  <2> QED
    BY <1>4, <1>6, <2>1, StartScriptWhole
<1>7. ASSUME NEW x \in Process, ProviderFails(x) \/ DatabaseFault(x) \/ Crash(x)
      PROVE  Whole'
  BY <1>1, <1>7, FaultsWhole
<1>8. ASSUME NEW p \in Product, DeleteItem(p) PROVE Whole'
  BY <1>1, <1>8, DeleteItemWhole
<1> QED
  BY <1>2, <1>3, <1>5, <1>6, <1>7, <1>8 DEF Next

(***************************************************************************)
(* With one process that generates, a model that is ready is served with   *)
(* both of its files, and both are of one job, whatever fails, and between *)
(* whatever steps.  With two it is not so.                                 *)
(***************************************************************************)
THEOREM FilesAreOfOneJob == OneProcess => (Spec => []ServedTogether)
<1> SUFFICES ASSUME OneProcess PROVE Spec => []ServedTogether
  OBVIOUS
<1>1. Whole /\ [Next]_vars => Whole'
  BY WholeKept
<1>2. Whole => ServedTogether
  BY DEF Whole
<1> QED
  BY <1>1, <1>2, WholeInitially, PTL DEF Spec

=============================================================================
