------------------------------ MODULE Subagents ------------------------------
(***************************************************************************)
(* Parallel batches of the subagent extension: batch.ts (the scheduler),   *)
(* proc-manager.ts (ending a process), task-plan.ts (the registry of what  *)
(* in-flight batches declare) and the parts of index.ts that join them.    *)
(*                                                                         *)
(* JavaScript runs to completion: a step below is what runs between two    *)
(* awaits or events.  Processes, timers and the user's abort are events.   *)
(* A batch's abort signal is only listened to while the batch runs.  The   *)
(* operating system delivers every signal that is sent.                    *)
(*                                                                         *)
(* Names and paths are abstracted to what they cover: two declarations     *)
(* conflict when their Scopes intersect.  Streaming updates, messages,     *)
(* usage and the collected errors are left out.                            *)
(***************************************************************************)
EXTENDS Integers

CONSTANTS Batches,         \* executions of the tool with a list of tasks
          N,               \* tasks of each batch
          Concurrency,     \* how many run at once
          Names,           \* what can be declared: resources, files
          Scope,           \* Batches -> task index -> what the task declares
          ObserverCancels  \* whether onUpdate may itself abort the batch

ASSUME SubagentsOK ==
    /\ N \in Nat \ {0} /\ Concurrency \in Nat \ {0}
    /\ Scope \in [Batches -> [1..N -> SUBSET Names]]
    /\ ObserverCancels \in BOOLEAN

VARIABLES claims,          \* the registry: batches whose declarations are held
          phase,           \* of each batch: "idle", "active", "done"
          cancelled, next, \* of each batch: runTaskBatch's variables
          working,         \* workers of each batch that have not returned
          awaits,          \* the task each worker awaits, 0 at its loop's head
          tasks            \* slot and process of each task

vars == <<claims, phase, cancelled, next, working, awaits, tasks>>

Index == 1..N
Workers == 1..(IF Concurrency < N THEN Concurrency ELSE N)
Outcome == {"completed", "failed", "aborted"}
Task == {x \in [status : {"queued", "running"} \cup Outcome,
                proc : {"none", "starting", "up", "gone"},
                asked : BOOLEAN,                   \* its AbortController was aborted
                sent : {"none", "SIGTERM", "SIGKILL"},
                outcome : {"none"} \cup Outcome]   \* what its settled promise holds
            : x.proc = "gone" => x.outcome # "none"}

NoTask == [status |-> "queued", proc |-> "none", asked |-> FALSE, sent |-> "none",
           outcome |-> "none"]

Started == [NoTask EXCEPT !.status = "running", !.proc = "starting"]

Init == /\ claims = {}
        /\ phase = [b \in Batches |-> "idle"]
        /\ cancelled = [b \in Batches |-> FALSE]
        /\ next = [b \in Batches |-> 1]
        /\ working = [b \in Batches |-> {}]
        /\ awaits = [b \in Batches |-> [w \in Workers |-> 0]]
        /\ tasks = [b \in Batches |-> [i \in Index |-> NoTask]]

-----------------------------------------------------------------------------
Open(x) == x.proc \in {"starting", "up"}

\* planTasks: the declarations of one batch do not overlap.
Plannable(b) == \A i, j \in Index : i # j => Scope[b][i] \cap Scope[b][j] = {}

\* ActiveDeclarationRegistry.register finds no conflict with another batch.
Conflict(b, c) == \E i, j \in Index : Scope[b][i] \cap Scope[c][j] # {}

\* Mutant of CancelOne: every slot that is not running is aborted, a finished one
\* as well.
CancelOneFinished(x) ==
    CASE x.status # "running" -> [x EXCEPT !.status = "aborted"]
      [] x.status = "running" /\ x.proc = "up" ->
           [x EXCEPT !.asked = TRUE, !.sent = IF @ = "none" THEN "SIGTERM" ELSE @]
      [] x.status = "running" /\ x.proc # "up" -> [x EXCEPT !.asked = TRUE]

\* requestCancel, for one task: a queued one is aborted without starting, the
\* handle of a running one is terminated.  A process that is not spawned yet
\* finds the aborted signal later; the listener of a closed one is gone.
CancelOne(x) ==
    CASE x.status = "queued" -> [x EXCEPT !.status = "aborted"]
      [] x.status = "running" /\ x.proc = "up" ->
           [x EXCEPT !.asked = TRUE, !.sent = IF @ = "none" THEN "SIGTERM" ELSE @]
      [] x.status = "running" /\ x.proc = "starting" -> [x EXCEPT !.asked = TRUE]
      [] OTHER -> x

CancelAll(b) == [i \in Index |-> CancelOne(tasks[b][i])]

PutTask(b, i, x) == tasks' = [tasks EXCEPT ![b][i] = x]

-----------------------------------------------------------------------------
(* The tool's execution and the scheduler.                                 *)

Activate(b, aborted) ==
    /\ claims' = claims \cup {b}
    /\ phase' = [phase EXCEPT ![b] = "active"]
    /\ working' = [working EXCEPT ![b] = Workers]
    /\ cancelled' = [cancelled EXCEPT ![b] = aborted]
    /\ tasks' = [tasks EXCEPT ![b] = IF aborted THEN CancelAll(b) ELSE @]
    /\ UNCHANGED <<next, awaits>>

\* Mutant of Start: the registry is not asked about other batches.
StartUnchecked(b, aborted) ==
    /\ phase[b] = "idle" /\ Plannable(b)
    /\ Activate(b, aborted)

\* The batch is planned and registered, and its workers start.  The signal may
\* be aborted already.
Start(b, aborted) ==
    /\ phase[b] = "idle" /\ Plannable(b)
    /\ \A c \in claims : ~Conflict(b, c)
    /\ Activate(b, aborted)

\* The abort event of the batch's signal.
Cancel(b) == /\ phase[b] = "active" /\ ~cancelled[b]
             /\ cancelled' = [cancelled EXCEPT ![b] = TRUE]
             /\ tasks' = [tasks EXCEPT ![b] = CancelAll(b)]
             /\ UNCHANGED <<claims, phase, next, working, awaits>>

AtHead(b, w) == w \in working[b] /\ awaits[b][w] = 0

\* The loop ends: the batch is cancelled or every task was taken.
WorkerReturns(b, w) == /\ AtHead(b, w)
                       /\ cancelled[b] \/ next[b] > N
                       /\ working' = [working EXCEPT ![b] = @ \ {w}]
                       /\ UNCHANGED <<claims, phase, cancelled, next, awaits, tasks>>

\* Mutant of TakeTask: the index is not compared with the number of tasks.
TakeTaskPastEnd(b, w, observer) ==
    /\ AtHead(b, w) /\ ~cancelled[b]
    /\ observer => ObserverCancels
    /\ next' = [next EXCEPT ![b] = @ + 1]
    /\ cancelled' = [cancelled EXCEPT ![b] = observer]
    /\ UNCHANGED <<claims, phase, working, awaits, tasks>>

\* The worker takes the next task, reports it as running and starts it.  If the
\* observer aborts the batch in that report, requestCancel runs before the
\* handle of this task exists.
TakeTask(b, w, observer) ==
    /\ AtHead(b, w) /\ ~cancelled[b] /\ next[b] <= N
    /\ observer => ObserverCancels
    /\ next' = [next EXCEPT ![b] = @ + 1]
    /\ awaits' = [awaits EXCEPT ![b][w] = next[b]]
    /\ cancelled' = [cancelled EXCEPT ![b] = observer]
    /\ tasks' = [tasks EXCEPT ![b] = [i \in Index |->
                    IF i = next[b] THEN Started
                    ELSE IF observer THEN CancelOne(@[i]) ELSE @[i]]]
    /\ UNCHANGED <<claims, phase, working>>

\* executor.start throws: the slot fails and the worker goes on.
TakeTaskThrows(b, w) ==
    /\ AtHead(b, w) /\ ~cancelled[b] /\ next[b] <= N
    /\ next' = [next EXCEPT ![b] = @ + 1]
    /\ PutTask(b, next[b], [NoTask EXCEPT !.status = "failed"])
    /\ UNCHANGED <<claims, phase, cancelled, working, awaits>>

\* Mutant of Settle: a process counts as ended once a signal was sent to it.
SettleOnSignal(b, w) ==
    LET i == awaits[b][w]
        x == tasks[b][i]
    IN  /\ w \in working[b] /\ i # 0
        /\ x.proc = "gone" \/ x.sent # "none"
        /\ PutTask(b, i, [x EXCEPT !.status = IF x.proc = "gone" THEN x.outcome ELSE "aborted"])
        /\ awaits' = [awaits EXCEPT ![b][w] = 0]
        /\ UNCHANGED <<claims, phase, cancelled, next, working>>

\* The awaited promise has settled.
Settle(b, w) ==
    LET i == awaits[b][w]
        x == tasks[b][i]
    IN  /\ w \in working[b] /\ i # 0
        /\ x.proc = "gone"
        /\ PutTask(b, i, [x EXCEPT !.status = x.outcome])
        /\ awaits' = [awaits EXCEPT ![b][w] = 0]
        /\ UNCHANGED <<claims, phase, cancelled, next, working>>

\* Every worker has returned; the finally block releases the declarations.
Resolve(b) == /\ phase[b] = "active" /\ working[b] = {}
              /\ phase' = [phase EXCEPT ![b] = "done"]
              /\ claims' = claims \ {b}
              /\ UNCHANGED <<cancelled, next, working, awaits, tasks>>

-----------------------------------------------------------------------------
(* One task's process: runSingleAgent and manageTermination.               *)

\* Mutant of Spawn: the signal is not looked at once the process exists.
SpawnUnaware(b, i) == /\ tasks[b][i].proc = "starting"
                      /\ PutTask(b, i, [tasks[b][i] EXCEPT !.proc = "up"])
                      /\ UNCHANGED <<claims, phase, cancelled, next, working, awaits>>

\* The prompt file is written and the process spawned; a signal that was
\* aborted in the meantime terminates it at once.
Spawn(b, i) ==
    /\ tasks[b][i].proc = "starting"
    /\ PutTask(b, i, [tasks[b][i] EXCEPT !.proc = "up",
                                         !.sent = IF tasks[b][i].asked THEN "SIGTERM" ELSE "none"])
    /\ UNCHANGED <<claims, phase, cancelled, next, working, awaits>>

\* No process comes to exist: the prompt file or the spawn fails.
SpawnFails(b, i) ==
    /\ tasks[b][i].proc = "starting"
    /\ \E o \in {"failed"} \cup (IF tasks[b][i].asked THEN {"aborted"} ELSE {}) :
          PutTask(b, i, [tasks[b][i] EXCEPT !.proc = "gone", !.outcome = o])
    /\ UNCHANGED <<claims, phase, cancelled, next, working, awaits>>

\* The grace period is over and the process has not closed.
Escalate(b, i) == /\ tasks[b][i].proc = "up" /\ tasks[b][i].sent = "SIGTERM"
                  /\ PutTask(b, i, [tasks[b][i] EXCEPT !.sent = "SIGKILL"])
                  /\ UNCHANGED <<claims, phase, cancelled, next, working, awaits>>

\* The process closes, by itself or because of a signal.  What was asked to
\* abort is aborted whatever it exits with.
Close(b, i) ==
    /\ tasks[b][i].proc = "up"
    /\ \E o \in IF tasks[b][i].asked THEN {"aborted"} ELSE Outcome :
          PutTask(b, i, [tasks[b][i] EXCEPT !.proc = "gone", !.outcome = o])
    /\ UNCHANGED <<claims, phase, cancelled, next, working, awaits>>

-----------------------------------------------------------------------------
WorkerStep(b) == \E w \in Workers : \/ WorkerReturns(b, w)
                                    \/ \E observer \in BOOLEAN : TakeTask(b, w, observer)
                                    \/ TakeTaskThrows(b, w)
                                    \/ Settle(b, w)

ProcessStep(b) == \E i \in Index : \/ Spawn(b, i) \/ SpawnFails(b, i)
                                   \/ Escalate(b, i) \/ Close(b, i)

Next == \E b \in Batches : \/ \E aborted \in BOOLEAN : Start(b, aborted)
                           \/ Cancel(b) \/ Resolve(b)
                           \/ WorkerStep(b) \/ ProcessStep(b)

\* A promise that is ready runs, a prompt file gets written or fails, a timer
\* fires, and SIGKILL ends a process.  A process that got no signal, or only
\* SIGTERM, may run for ever, and nobody has to start or to cancel a batch.
Fairness == \A b \in Batches :
    /\ WF_vars(Resolve(b))
    /\ \A w \in Workers : WF_vars(WorkerReturns(b, w)) /\ WF_vars(Settle(b, w))
    /\ \A i \in Index : /\ WF_vars(Spawn(b, i) \/ SpawnFails(b, i))
                        /\ WF_vars(Escalate(b, i))
                        /\ WF_vars(tasks[b][i].sent = "SIGKILL" /\ Close(b, i))

Spec == Init /\ [][Next]_vars
FairSpec == Spec /\ Fairness

-----------------------------------------------------------------------------
TypeOK == /\ claims \subseteq Batches
          /\ phase \in [Batches -> {"idle", "active", "done"}]
          /\ cancelled \in [Batches -> BOOLEAN]
          /\ next \in [Batches -> 1..(N + 1)]
          /\ working \in [Batches -> SUBSET Workers]
          /\ awaits \in [Batches -> [Workers -> 0..N]]
          /\ tasks \in [Batches -> [Index -> Task]]

\* Tasks that declare the same resource or file never have processes at the
\* same time, in one batch or in two, whatever is cancelled or fails: a batch
\* keeps its declarations until the last of its processes has closed.
Exclusive == \A b, c \in Batches, i, j \in Index :
    Open(tasks[b][i]) /\ Open(tasks[c][j]) /\ Scope[b][i] \cap Scope[c][j] # {}
       => b = c /\ i = j

\* A batch that has resolved left nothing behind: every slot has its final
\* status, no process is open, and no declaration is held.
ResolvedClean == \A b \in Batches : phase[b] = "done" =>
    /\ b \notin claims
    /\ \A i \in Index : tasks[b][i].status \in Outcome /\ ~Open(tasks[b][i])

\* Once a batch is cancelled nothing of it is queued, and every process it still
\* has was told to end, the one whose prompt file was being written included.
CancelReaches == \A b \in Batches : cancelled[b] => \A i \in Index :
    /\ tasks[b][i].status # "queued"
    /\ Open(tasks[b][i]) => tasks[b][i].asked
    /\ tasks[b][i].proc = "up" => tasks[b][i].sent # "none"

\* A slot keeps its final status and a process that ended, or a task that was
\* aborted before it started, never gets one.
ResultsKept == [][\A b \in Batches, i \in Index :
    tasks[b][i].status \in Outcome =>
       /\ tasks'[b][i].status = tasks[b][i].status
       /\ ~Open(tasks'[b][i])]_vars

\* A batch that is cancelled resolves, even if its processes ignore SIGTERM.
CancelResolves == \A b \in Batches : cancelled[b] ~> phase[b] = "done"
=============================================================================
