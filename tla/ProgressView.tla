---------------------------- MODULE ProgressView ----------------------------
(***************************************************************************)
(* GET /api/progress/apply/{id}: readers of the stored and of the live     *)
(* progress of an apply while a drive works on it.                         *)
(*                                                                         *)
(* A reader is not passive: where it serves from storage and finds a task  *)
(* behind its apply, it asks the remote once and writes the tasks itself,  *)
(* without a lease and over whatever the drive has written since they were *)
(* read. The drive is that of Rollout and RemoteControl, reduced to when   *)
(* it writes the apply and its tasks.                                      *)
(***************************************************************************)
EXTENDS ApplyStates

CONSTANTS
  Readers, Tables,
  Scripts   \* how many operations there are, whether the apply is resumed and
            \* with which tables done, and who reads

VARIABLES
  script,
  row, ext,     \* the apply's state, and whether it has the remote's id
  tasks,        \* the state of each task
  remote,       \* the state of each table on the remote
  phase,        \* how far the drive is
  rd            \* what each reader has read so far

vars == <<script, row, ext, tasks, remote, phase, rd>>

All(s) == [t \in Tables |-> s]
NoReader == [pc |-> "idle", seen |-> "none", remote |-> All("none"), todo |-> {}, answer |-> "none"]

Init ==
  /\ script \in Scripts
  /\ row = IF script.resumed THEN "stopped" ELSE "pending"
  /\ ext = (script.resumed /\ script.ops = 1)
  /\ tasks = [t \in Tables |-> IF t \in script.done THEN "completed" ELSE row]
  /\ remote = tasks
  /\ phase = "queued"
  /\ rd = [r \in Readers |-> NoReader]

(***************************************************************************)
(* The drive and the remote.                                               *)
(***************************************************************************)
Claim ==
  /\ phase = "queued" /\ phase' = "claimed"
  /\ row' = IF script.resumed THEN "resuming" ELSE "running"
  /\ UNCHANGED <<script, ext, tasks, remote, rd>>

\* The remote accepts the apply, or its start.
Accepted ==
  /\ phase = "claimed"
  /\ ext' = (script.ops = 1)
  /\ phase' = IF script.resumed THEN "accepted" ELSE "polling"
  /\ UNCHANGED <<script, row, tasks, remote, rd>>

requeueStoppedTasks ==
  /\ phase = "accepted" /\ phase' = "polling"
  /\ tasks' = [t \in Tables |-> IF tasks[t] = "stopped" THEN "pending" ELSE tasks[t]]
  /\ UNCHANGED <<script, row, ext, remote, rd>>

\* The remote takes up the start, and each table runs in its turn.
RemoteStopped == \E t \in Tables : remote[t] = "stopped"
RemoteTakesUp ==
  /\ phase \in {"accepted", "polling"} /\ RemoteStopped
  /\ remote' = [t \in Tables |-> IF remote[t] = "stopped" THEN "pending" ELSE remote[t]]
  /\ UNCHANGED <<script, row, ext, tasks, phase, rd>>

RemoteRuns(t) ==
  /\ phase \in {"accepted", "polling"} /\ remote[t] \in {"pending", "running"}
  /\ remote' = [remote EXCEPT ![t] = IF @ = "running" THEN "completed" ELSE "running"]
  /\ UNCHANGED <<script, row, ext, tasks, phase, rd>>

\* A poll writes the tasks and then the apply; at the end these are two steps. A
\* remote that still reads stopped is borne with.
Over == \A t \in Tables : remote[t] = "completed"
Poll ==
  /\ phase = "polling" /\ ~RemoteStopped
  /\ tasks' = [t \in Tables |-> taskStateWithNoBackwardProgress(tasks[t], remote[t])]
  /\ IF Over THEN phase' = "ending" /\ UNCHANGED row
     ELSE /\ row' = IF \E t \in Tables : remote[t] \in {"running", "completed"}
                    THEN "running" ELSE row
          /\ UNCHANGED phase
  /\ UNCHANGED <<script, ext, remote, rd>>

Ends ==
  /\ phase = "ending" /\ phase' = "over"
  /\ row' = "completed"
  /\ UNCHANGED <<script, ext, tasks, remote, rd>>

(***************************************************************************)
(* The readers.                                                            *)
(***************************************************************************)
shouldServeProgressFromStorage(s) == IsTerminal(s) \/ s \in {"failed_retryable", "resuming"}

\* Until the remote has accepted the apply, running reads pending.
queuedRemoteProgressApply(s) == IF s = "running" THEN "pending" ELSE s

Told(r, s) == rd' = [rd EXCEPT ![r] = [NoReader EXCEPT !.answer = s]]
ReadOnly == UNCHANGED <<script, row, ext, remote, phase>>

\* The apply is read; an apply with one operation and work on the remote is
\* served live, anything else from storage.
handleProgressByApplyID(r) ==
  /\ r \in script.readers /\ rd[r].pc = "idle"
  /\ LET stored == shouldServeProgressFromStorage(row) \/ script.ops > 1 IN
     rd' = [rd EXCEPT ![r] = [NoReader EXCEPT
              !.pc = IF stored \/ ~ext THEN "stored" ELSE "live",
              !.seen = IF stored \/ ext THEN row ELSE queuedRemoteProgressApply(row)]]
  /\ ReadOnly /\ UNCHANGED tasks

\* The live answer has the tables of the remote.
LiveProgress(r) ==
  /\ rd[r].pc = "live"
  /\ rd' = [rd EXCEPT ![r].pc = "headline", ![r].remote = remote]
  /\ ReadOnly /\ UNCHANGED tasks

\* Its headline is the state of the apply, which is read again.
Headline(r) ==
  /\ rd[r].pc = "headline"
  /\ Told(r, row)
  /\ ReadOnly /\ UNCHANGED tasks

\* A task that is not over and not in the state of its apply is stale.
Stale(s, ts) == \E t \in Tables : ts[t] \notin TerminalTaskState /\ ts[t] # s

\* The stale tasks are those that are not over.
progressFromLocalStorage(r) ==
  /\ rd[r].pc = "stored"
  /\ LET sync == rd[r].seen # "failed_retryable" /\ Stale(rd[r].seen, tasks) /\ ext IN
     IF sync THEN rd' = [rd EXCEPT ![r].pc = "sync",
                           ![r].todo = {t \in Tables : tasks[t] \notin TerminalTaskState}]
     ELSE Told(r, rd[r].seen)
  /\ ReadOnly /\ UNCHANGED tasks

syncTasksFromTern(r) ==
  /\ rd[r].pc = "sync"
  /\ rd' = [rd EXCEPT ![r].pc = "write", ![r].remote = remote]
  /\ ReadOnly /\ UNCHANGED tasks

\* Each task that was not over when it was read is overwritten.
Update(r) ==
  /\ rd[r].pc = "write"
  /\ IF rd[r].todo = {}
     THEN Told(r, rd[r].seen) /\ UNCHANGED tasks
     ELSE \E t \in rd[r].todo :
            /\ tasks' = [tasks EXCEPT ![t] = rd[r].remote[t]]
            /\ rd' = [rd EXCEPT ![r].todo = @ \ {t}]
  /\ ReadOnly

Read(r) ==
  \/ handleProgressByApplyID(r) \/ LiveProgress(r) \/ Headline(r)
  \/ progressFromLocalStorage(r) \/ syncTasksFromTern(r) \/ Update(r)

Drive == Claim \/ Accepted \/ requeueStoppedTasks \/ Poll \/ Ends

Next == Drive \/ RemoteTakesUp \/ (\E t \in Tables : RemoteRuns(t)) \/ (\E r \in Readers : Read(r))

Spec == Init /\ [][Next]_vars

Fairness ==
  /\ WF_vars(Drive) /\ WF_vars(RemoteTakesUp) /\ \A t \in Tables : WF_vars(RemoteRuns(t))
  /\ \A r \in Readers : WF_vars(Read(r))

FairSpec == Spec /\ Fairness

\* A reader is told that an apply is completed only when its record says so,
\* which is what the comment and the status list show (the re-read before the
\* headline in handleProgressByApplyID).
CompletedIsStored ==
  \A r \in Readers : rd[r].answer = "completed" => row = "completed"

\* The tasks of a completed apply end up completed and stay so, whatever late
\* writes of readers are under way (progressFromLocalStorage reads the tasks of
\* a terminal apply again and again until none is stale).
TasksSettle ==
  (row = "completed" /\ script.ops = 1)
    ~> [](\A t \in Tables : tasks[t] = "completed")
=============================================================================
