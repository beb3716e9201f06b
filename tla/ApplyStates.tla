---------------------------- MODULE ApplyStates ----------------------------
(***************************************************************************)
(* The state vocabulary of SchemaBot and the pure functions on it that     *)
(* every other component relies on: which states are terminal or           *)
(* claimable, how a parent state is projected from child states, and how   *)
(* a progress report may move a stored state.                              *)
(*                                                                         *)
(* DeriveApplyState looks only at which states occur among the children,   *)
(* never at how many times, so it takes a set.                             *)
(***************************************************************************)
EXTENDS Integers

\* The apply and operation states (pkg/state/apply.go).
ApplyState ==
  {"pending", "running", "running_degraded", "paused", "resuming",
   "waiting_for_deploy", "waiting_for_cutover", "recovering",
   "cutting_over", "revert_window", "completed", "failed",
   "failed_retryable", "stopped", "cancelled", "reverted",
   "preparing_branch", "applying_branch_changes", "validating_branch",
   "creating_deploy_request", "validating_deploy_request"}

\* The task states (pkg/state/task.go).
TaskState ==
  {"pending", "running", "checksumming", "waiting_for_deploy",
   "waiting_for_cutover", "recovering", "cutting_over", "revert_window",
   "completed", "failed", "failed_retryable", "stopped", "cancelled",
   "reverted"}

TerminalApplyState ==
  {"completed", "failed", "stopped", "cancelled", "reverted"}

\* A stopped task may be resumed, so it is not terminal as an apply is.
TerminalTaskState == {"completed", "failed", "cancelled", "reverted"}

\* The states whose rows a driver may take over once the heartbeat is stale.
ClaimableState ==
  {"running", "running_degraded", "resuming", "waiting_for_deploy",
   "waiting_for_cutover", "recovering", "cutting_over", "revert_window",
   "preparing_branch", "applying_branch_changes", "validating_branch",
   "creating_deploy_request", "validating_deploy_request"}

IsTerminal(s) == s \in TerminalApplyState

\* Aliases fold together, and a state with no case of its own counts as
\* pending.
normalizeApplyState(raw) ==
  CASE raw = "checksumming" -> "running"
    [] raw \in {"resuming", "preparing_branch", "applying_branch_changes",
                "creating_deploy_request"} -> "pending"
    [] OTHER -> raw

\* The aggregate state of the children whose states are the set raw: the first
\* line that applies decides.
DeriveApplyState(raw) ==
  LET S == {normalizeApplyState(s) : s \in raw} IN
  IF S = {}                      THEN "pending"
  ELSE IF "failed" \in S         THEN "failed"
  ELSE IF "failed_retryable" \in S THEN "failed_retryable"
  ELSE IF "cancelled" \in S      THEN "cancelled"
  ELSE IF "stopped" \in S        THEN "stopped"
  ELSE IF "reverted" \in S       THEN "reverted"
  ELSE IF S = {"completed"}      THEN "completed"
  ELSE IF "recovering" \in S     THEN "recovering"
  ELSE IF "cutting_over" \in S   THEN "cutting_over"
  ELSE IF S \subseteq {"waiting_for_cutover", "completed"}
                                 THEN "waiting_for_cutover"
  ELSE IF S \subseteq {"waiting_for_deploy", "completed"}
                                 THEN "waiting_for_deploy"
  ELSE IF "revert_window" \in S  THEN "revert_window"
  ELSE IF "running" \in S        THEN "running"
  ELSE "pending"

\* Some child after position i has not settled.
hasLaterNonTerminal(children, i) ==
  \E j \in DOMAIN children : j > i /\ ~IsTerminal(children[j].state)

\* The parent state of a rollout. children is indexed by integers in deployment
\* order; each child is [state, continueOnFailure, pauseOnFailure].
DeriveRolloutApplyState(children) ==
  LET base   == DeriveApplyState({children[i].state : i \in DOMAIN children})
      failed == {i \in DOMAIN children : children[i].state = "failed"}
      hardFail ==
        \E i \in failed :
          children[i].continueOnFailure <=> children[i].pauseOnFailure
      pausedHold ==
        \E i \in failed : /\ children[i].pauseOnFailure
                          /\ ~children[i].continueOnFailure
                          /\ hasLaterNonTerminal(children, i)
      allTerminal ==
        \A i \in DOMAIN children : IsTerminal(children[i].state)
  IN  IF base # "failed" THEN base
      ELSE IF hardFail    THEN "failed"
      ELSE IF pausedHold  THEN "paused"
      ELSE IF allTerminal THEN "failed"
      ELSE "running_degraded"

\* The order of the phases of an apply; every other state ranks lowest.
applyProgressRank(s) ==
  CASE s = "preparing_branch"          -> 1
    [] s = "applying_branch_changes"   -> 2
    [] s = "validating_branch"         -> 3
    [] s = "creating_deploy_request"   -> 4
    [] s = "validating_deploy_request" -> 5
    [] s = "waiting_for_deploy"        -> 6
    [] s = "running"                   -> 7
    [] s = "waiting_for_cutover"       -> 8
    [] s = "cutting_over"              -> 9
    [] s = "revert_window"             -> 10
    [] OTHER                           -> 0

\* The apply state a drive holds after a report of its remote's state.
applyStateFromRemoteProgress(stored, remote) ==
  IF IsTerminal(remote) THEN remote
  ELSE IF \/ IsTerminal(stored)
          \/ stored = "failed_retryable"
          \/ applyProgressRank(remote) < applyProgressRank(stored)
       THEN stored
       ELSE remote

\* The order of the ordinary active phases of a task.
activeTaskProgressRank(s) ==
  CASE s = "pending"             -> 0
    [] s = "waiting_for_deploy"  -> 1
    [] s = "running"             -> 2
    [] s = "checksumming"        -> 3
    [] s = "waiting_for_cutover" -> 4
    [] s = "cutting_over"        -> 5
    [] s = "revert_window"       -> 6
    [] OTHER                     -> -1

\* The task state to store when a poll reports engineState.
taskStateWithNoBackwardProgress(storedState, engineState) ==
  LET stored == activeTaskProgressRank(storedState)
      engine == activeTaskProgressRank(engineState)
  IN  IF storedState \in TerminalTaskState THEN storedState
      ELSE IF \/ engineState \in TerminalTaskState \cup
                                 {"stopped", "failed_retryable"}
              \/ /\ storedState = "recovering"
                 /\ engineState = "waiting_for_cutover"
              \/ /\ storedState = "running"
                 /\ engineState = "waiting_for_deploy"
           THEN engineState
      ELSE IF \/ storedState \in {"stopped", "failed_retryable"}
              \/ stored < 0 \/ engine < stored
           THEN storedState
      ELSE engineState
============================================================================
