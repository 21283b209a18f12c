-------------------------------- MODULE Switch --------------------------------
(***************************************************************************)
(* sig.Switch: a background task that is started and stopped.  Run and     *)
(* Stop run under one mutex; a task goes on after its context is canceled, *)
(* until it returns.  Tasks are numbered in the order of their starts.     *)
(***************************************************************************)
EXTENDS Naturals, FiniteSets, Sequences

CONSTANTS MaxTasks    \* bound: tasks started

ASSUME SwitchAssumption == MaxTasks \in Nat

VARIABLES tasks,      \* each task: "runs", "canceled" (told to stop) or "done"
          cancel,     \* the task s.cancel cancels, or 0 for nil
          lastStop,   \* what the last Stop returned: "none", "stopped" or "idle"
          panicked    \* a nil cancel function was called

switchVars == <<tasks, cancel, lastStop, panicked>>

SwitchTypeOK ==
  /\ tasks \in Seq({"runs", "canceled", "done"}) /\ Len(tasks) <= MaxTasks
  /\ cancel \in 0..MaxTasks
  /\ lastStop \in {"none", "stopped", "idle"} /\ panicked \in BOOLEAN

SwitchInit == tasks = << >> /\ cancel = 0 /\ lastStop = "none" /\ panicked = FALSE

NotCanceled == Len(tasks) > 0 /\ tasks[Len(tasks)] = "runs"

\* running(): the last task has been started and its done channel is open.
running == Len(tasks) > 0 /\ tasks[Len(tasks)] # "done"

\* Run is refused while a task runs.
Run ==
  /\ ~running /\ Len(tasks) < MaxTasks
  /\ tasks' = Append(tasks, "runs")
  /\ cancel' = Len(tasks) + 1
  /\ UNCHANGED <<lastStop, panicked>>

\* Stop calls the stored cancel function and clears it.
Stop ==
  /\ IF ~running
       THEN lastStop' = "idle" /\ UNCHANGED <<tasks, cancel, panicked>>
       ELSE IF cancel = 0
              THEN panicked' = TRUE /\ UNCHANGED <<tasks, cancel, lastStop>>
              ELSE /\ tasks' = [tasks EXCEPT ![cancel] = "canceled"]
                   /\ cancel' = 0 /\ lastStop' = "stopped"
                   /\ UNCHANGED panicked

\* The task returns, asked to or not.
Finish(i) ==
  /\ tasks[i] # "done"
  /\ tasks' = [tasks EXCEPT ![i] = "done"]
  /\ UNCHANGED <<cancel, lastStop, panicked>>

SwitchNext == Run \/ Stop \/ \E i \in DOMAIN tasks : Finish(i)

SwitchSpec == SwitchInit /\ [][SwitchNext]_switchVars

-----------------------------------------------------------------------------
\* At most one task is active, a canceled one that has not returned included.
AtMostOne == Cardinality({i \in DOMAIN tasks : tasks[i] # "done"}) <= 1

\* A Stop while the task winds down answers like any other call.
StopNeverPanics == ~panicked

\* At most one task runs, one that was canceled and has not returned included.
SwitchCorrect == SwitchTypeOK /\ AtMostOne
=============================================================================
