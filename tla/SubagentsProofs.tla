--------------------------- MODULE SubagentsProofs ---------------------------
(* Proofs about Subagents: a batch keeps its declarations for as long as   *)
(* any of its processes lives, and a cancelled batch leaves none untold.   *)
EXTENDS Subagents, TLAPS

-----------------------------------------------------------------------------
(* The inductive invariant, one batch at a time.                           *)

\* Only a running task has a process.
SlotsOK(b) == \A i \in Index : Open(tasks[b][i]) => tasks[b][i].status = "running"

\* A running task is awaited by a worker, and a worker that awaits a task is the
\* only one and has not returned.
AwaitsOK(b) ==
    /\ \A i \in Index : tasks[b][i].status = "running"
          => \E w \in working[b] : awaits[b][w] = i
    /\ \A w \in Workers : awaits[b][w] # 0
          => w \in working[b] /\ tasks[b][awaits[b][w]].status = "running"
    /\ \A v, w \in Workers : awaits[b][v] = awaits[b][w] /\ awaits[b][v] # 0 => v = w

\* Until the batch is cancelled, what is queued is what no worker has taken.
QueueOK(b) == \A i \in Index :
    tasks[b][i].status = "queued" <=> i >= next[b] /\ ~cancelled[b]

\* Declarations are held while the batch is active, and a worker returns only
\* when there is nothing to take.
PhaseOK(b) ==
    /\ b \in claims <=> phase[b] = "active"
    /\ phase[b] # "active" => working[b] = {}
    /\ phase[b] = "idle" => ~cancelled[b]
    /\ phase[b] # "idle" => Plannable(b)
    /\ phase[b] # "idle" /\ working[b] # Workers => cancelled[b] \/ next[b] > N

BatchOK(b) == SlotsOK(b) /\ AwaitsOK(b) /\ QueueOK(b) /\ PhaseOK(b)

\* Batches that hold their declarations do not conflict.
Disjoint == \A b, c \in claims : b # c => ~Conflict(b, c)

IInv == TypeOK /\ Disjoint /\ \A b \in Batches : BatchOK(b)

-----------------------------------------------------------------------------
(* Typing.                                                                 *)

LEMMA TaskTyped ==
    /\ NoTask \in Task /\ Started \in Task
    /\ \A x \in Task : CancelOne(x) \in Task
  <1>1. NoTask \in Task
    BY DEF NoTask, Task, Outcome
  <1>2. Started \in Task
    BY DEF NoTask, Started, Task, Outcome
  <1>3. ASSUME NEW x \in Task PROVE CancelOne(x) \in Task
    <2>1. CASE x.status = "queued"
      BY <2>1 DEF Task, CancelOne, Outcome
    <2>2. CASE x.status = "running" /\ x.proc = "up"
      BY <2>2 DEF Task, CancelOne, Outcome
    <2>3. CASE x.status = "running" /\ x.proc = "starting"
      BY <2>3 DEF Task, CancelOne, Outcome
    <2>4. CASE x.status # "queued" /\ ~(x.status = "running" /\ x.proc \in {"up", "starting"})
      BY <2>4 DEF CancelOne
    <2> QED BY <2>1, <2>2, <2>3, <2>4
  <1> QED BY <1>1, <1>2, <1>3

LEMMA InitTyped == Init => TypeOK
  BY SubagentsOK, TaskTyped DEF Init, TypeOK, Index

LEMMA PutTaskTyped ==
    ASSUME TypeOK, NEW b \in Batches, NEW i \in Index, NEW x \in Task, PutTask(b, i, x)
    PROVE  tasks' \in [Batches -> [Index -> Task]]
  BY DEF TypeOK, PutTask

LEMMA NextTyped == TypeOK /\ [Next]_vars => TypeOK'
  <1> SUFFICES ASSUME TypeOK, [Next]_vars PROVE TypeOK'
    OBVIOUS
  <1>1. CASE UNCHANGED vars
    BY <1>1 DEF TypeOK, vars
  <1>2. ASSUME NEW b \in Batches, NEW aborted \in BOOLEAN, Start(b, aborted) PROVE TypeOK'
    <2>1. CancelAll(b) \in [Index -> Task]
      BY TaskTyped DEF CancelAll, TypeOK
    <2> QED BY <1>2, <2>1 DEF Start, Activate, TypeOK
  <1>3. ASSUME NEW b \in Batches, Cancel(b) \/ Resolve(b) PROVE TypeOK'
    <2>1. CancelAll(b) \in [Index -> Task]
      BY TaskTyped DEF CancelAll, TypeOK
    <2> QED BY <1>3, <2>1 DEF Cancel, Resolve, TypeOK
  <1>4. ASSUME NEW b \in Batches, NEW w \in Workers, WorkerReturns(b, w) PROVE TypeOK'
    BY <1>4 DEF WorkerReturns, TypeOK
  <1>5. ASSUME NEW b \in Batches, NEW w \in Workers, NEW observer \in BOOLEAN,
               TakeTask(b, w, observer)
        PROVE  TypeOK'
    <2>1. [i \in Index |-> IF i = next[b] THEN Started
                           ELSE IF observer THEN CancelOne(tasks[b][i]) ELSE tasks[b][i]]
             \in [Index -> Task]
      BY TaskTyped DEF TypeOK
    <2>2. next[b] + 1 \in 1..(N + 1) /\ next[b] \in 0..N
      BY <1>5, SubagentsOK DEF TakeTask, TypeOK
    <2>3. tasks' \in [Batches -> [Index -> Task]]
      BY <1>5, <2>1 DEF TakeTask, TypeOK
    <2>4. next' \in [Batches -> 1..(N + 1)] /\ awaits' \in [Batches -> [Workers -> 0..N]]
      BY <1>5, <2>2 DEF TakeTask, TypeOK
    <2> QED BY <1>5, <2>3, <2>4 DEF TakeTask, TypeOK
  <1>6. ASSUME NEW b \in Batches, NEW w \in Workers, TakeTaskThrows(b, w) PROVE TypeOK'
    <2>1. next[b] + 1 \in 1..(N + 1) /\ next[b] \in Index
      BY <1>6, SubagentsOK DEF TakeTaskThrows, TypeOK, Index
    <2>2. [NoTask EXCEPT !.status = "failed"] \in Task
      BY DEF NoTask, Task, Outcome
    <2>3. tasks' \in [Batches -> [Index -> Task]]
      BY <1>6, <2>1, <2>2, PutTaskTyped DEF TakeTaskThrows
    <2> QED BY <1>6, <2>1, <2>3 DEF TakeTaskThrows, TypeOK
  <1>7. ASSUME NEW b \in Batches, NEW w \in Workers, Settle(b, w) PROVE TypeOK'
    <2> DEFINE i == awaits[b][w]
    <2>1. i \in Index /\ tasks[b][i] \in Task
      BY <1>7, SubagentsOK DEF Settle, TypeOK, Index
    <2>2. [tasks[b][i] EXCEPT !.status = tasks[b][i].outcome] \in Task
      <3>1. tasks[b][i].outcome \in Outcome
        BY <1>7, <2>1 DEF Settle, Task
      <3> QED BY <2>1, <3>1 DEF Task
    <2>3. tasks' \in [Batches -> [Index -> Task]]
      BY <1>7, <2>1, <2>2, PutTaskTyped DEF Settle
    <2>4. awaits' \in [Batches -> [Workers -> 0..N]]
      BY <1>7, SubagentsOK DEF Settle, TypeOK
    <2> QED BY <1>7, <2>3, <2>4 DEF Settle, TypeOK
  <1>8. ASSUME NEW b \in Batches, NEW i \in Index,
               Spawn(b, i) \/ SpawnFails(b, i) \/ Escalate(b, i) \/ Close(b, i)
        PROVE  TypeOK'
    <2>1. tasks[b][i] \in Task
      BY DEF TypeOK
    <2>2. PICK x \in Task : PutTask(b, i, x)
      BY <1>8, <2>1 DEF Spawn, SpawnFails, Escalate, Close, Task, Outcome
    <2>3. tasks' \in [Batches -> [Index -> Task]]
      BY <2>2, PutTaskTyped
    <2> QED BY <1>8, <2>3 DEF Spawn, SpawnFails, Escalate, Close, TypeOK
  <1> QED BY <1>1, <1>2, <1>3, <1>4, <1>5, <1>6, <1>7, <1>8 DEF Next, WorkerStep, ProcessStep

-----------------------------------------------------------------------------
(* One step concerns one batch.                                            *)

\* Nothing of batch c changes in the step.
Untouched(c) == /\ tasks'[c] = tasks[c] /\ awaits'[c] = awaits[c]
                /\ working'[c] = working[c] /\ next'[c] = next[c]
                /\ cancelled'[c] = cancelled[c] /\ phase'[c] = phase[c]
                /\ c \in claims' <=> c \in claims

StepOf(b) == \/ \E aborted \in BOOLEAN : Start(b, aborted)
             \/ Cancel(b) \/ Resolve(b) \/ WorkerStep(b) \/ ProcessStep(b)

LEMMA UntouchedKeeps ==
    ASSUME NEW c \in Batches, Untouched(c), BatchOK(c) PROVE BatchOK(c)'
  BY DEF Untouched, BatchOK, SlotsOK, AwaitsOK, QueueOK, PhaseOK, Open, Plannable

LEMMA OneBatch ==
    ASSUME TypeOK, NEW b \in Batches, StepOf(b), NEW c \in Batches, c # b
    PROVE  Untouched(c)
  <1>1. ASSUME NEW aborted \in BOOLEAN, Start(b, aborted) PROVE Untouched(c)
    BY <1>1 DEF Start, Activate, TypeOK, Untouched
  <1>2. CASE Cancel(b) \/ Resolve(b)
    BY <1>2 DEF Cancel, Resolve, TypeOK, Untouched
  <1>3. CASE WorkerStep(b)
    BY <1>3 DEF WorkerStep, WorkerReturns, TakeTask, TakeTaskThrows, Settle, PutTask,
                TypeOK, Untouched
  <1>4. CASE ProcessStep(b)
    BY <1>4 DEF ProcessStep, Spawn, SpawnFails, Escalate, Close, PutTask, TypeOK, Untouched
  <1> QED BY <1>1, <1>2, <1>3, <1>4 DEF StepOf

-----------------------------------------------------------------------------
(* The invariant of the batch that takes the step.                         *)

\* What requestCancel does to one slot.
LEMMA CancelOneFacts ==
    ASSUME NEW x \in Task, Open(x) => x.status = "running"
    PROVE  /\ CancelOne(x).status # "queued"
           /\ CancelOne(x).status = "running" <=> x.status = "running"
           /\ x.status \in Outcome => CancelOne(x) = x
           /\ CancelOne(x).proc = x.proc
           /\ Open(x) => CancelOne(x).asked
           /\ x.proc = "up" => CancelOne(x).sent # "none"
  <1>1. CASE x.status = "queued"
    BY <1>1 DEF Task, CancelOne, Outcome, Open
  <1>2. CASE x.status = "running" /\ x.proc = "up"
    BY <1>2 DEF Task, CancelOne, Outcome, Open
  <1>3. CASE x.status = "running" /\ x.proc = "starting"
    BY <1>3 DEF Task, CancelOne, Outcome, Open
  <1>4. CASE x.status # "queued" /\ ~(x.status = "running" /\ x.proc \in {"up", "starting"})
    BY <1>4 DEF Task, CancelOne, Outcome, Open
  <1> QED BY <1>1, <1>2, <1>3, <1>4

\* Cancelling every slot keeps the relation of slots, workers and the queue.
LEMMA CancelAllKeeps ==
    ASSUME TypeOK, NEW b \in Batches, SlotsOK(b)
    PROVE  \A i \in Index :
              LET x == tasks[b][i]
                  y == CancelAll(b)[i]
              IN  /\ y.status # "queued"
                  /\ y.status = "running" <=> x.status = "running"
                  /\ x.status \in Outcome => y = x
                  /\ y.proc = x.proc
                  /\ Open(x) => y.asked
                  /\ x.proc = "up" => y.sent # "none"
  <1> TAKE i \in Index
  <1>1. tasks[b][i] \in Task
    BY DEF TypeOK
  <1>2. CancelAll(b)[i] = CancelOne(tasks[b][i])
    BY DEF CancelAll
  <1> QED BY <1>1, <1>2, CancelOneFacts DEF SlotsOK

LEMMA StartKeeps ==
    ASSUME IInv, NEW b \in Batches, NEW aborted \in BOOLEAN, Start(b, aborted)
    PROVE  BatchOK(b)'
  <1> USE DEF IInv, BatchOK
  <1>1. /\ tasks'[b] = IF aborted THEN CancelAll(b) ELSE tasks[b]
        /\ awaits'[b] = awaits[b] /\ working'[b] = Workers /\ next'[b] = next[b]
        /\ cancelled'[b] = aborted /\ phase'[b] = "active" /\ b \in claims'
    BY DEF Start, Activate, TypeOK
  <1>2. working[b] = {} /\ ~cancelled[b]
    BY DEF Start, PhaseOK
  <1>3. \A i \in Index : tasks'[b][i].status = "running" <=> tasks[b][i].status = "running"
    BY <1>1, CancelAllKeeps
  <1>4. SlotsOK(b)'
    BY <1>1, <1>3, CancelAllKeeps DEF SlotsOK, Open
  <1>5. AwaitsOK(b)'
    BY <1>1, <1>2, <1>3 DEF AwaitsOK
  <1>6. QueueOK(b)'
    BY <1>1, <1>2, CancelAllKeeps DEF QueueOK
  <1>7. PhaseOK(b)'
    BY <1>1 DEF Start, PhaseOK, Plannable
  <1> QED BY <1>4, <1>5, <1>6, <1>7

LEMMA CancelKeeps ==
    ASSUME IInv, NEW b \in Batches, Cancel(b)
    PROVE  BatchOK(b)'
  <1> USE DEF IInv, BatchOK
  <1>1. /\ tasks'[b] = CancelAll(b) /\ cancelled'[b]
        /\ UNCHANGED <<claims, phase, next, working, awaits>>
    BY DEF Cancel, TypeOK
  <1>2. SlotsOK(b)'
    BY <1>1, CancelAllKeeps DEF SlotsOK, Open
  <1>3. AwaitsOK(b)'
    <2>1. \A w \in Workers : awaits[b][w] # 0 => awaits[b][w] \in Index
      BY SubagentsOK DEF TypeOK, Index
    <2> QED BY <1>1, <2>1, CancelAllKeeps DEF AwaitsOK
  <1>4. QueueOK(b)'
    BY <1>1, CancelAllKeeps DEF QueueOK
  <1>5. PhaseOK(b)'
    BY <1>1 DEF Cancel, PhaseOK, Plannable
  <1> QED BY <1>2, <1>3, <1>4, <1>5

LEMMA ResolveKeeps ==
    ASSUME IInv, NEW b \in Batches, Resolve(b)
    PROVE  BatchOK(b)'
  <1>1. /\ phase'[b] = "done" /\ b \notin claims'
        /\ UNCHANGED <<cancelled, next, working, awaits, tasks>>
    BY DEF Resolve, IInv, TypeOK
  <1> QED BY <1>1 DEF Resolve, IInv, BatchOK, SlotsOK, AwaitsOK, QueueOK, PhaseOK, Plannable, Open

LEMMA WorkerReturnsKeeps ==
    ASSUME IInv, NEW b \in Batches, NEW w \in Workers, WorkerReturns(b, w)
    PROVE  BatchOK(b)'
  <1> USE DEF IInv, BatchOK
  <1>1. /\ working'[b] = working[b] \ {w}
        /\ UNCHANGED <<claims, phase, cancelled, next, awaits, tasks>>
    BY DEF WorkerReturns, TypeOK
  <1>2. w \in working[b] /\ awaits[b][w] = 0 /\ (cancelled[b] \/ next[b] > N)
    BY DEF WorkerReturns, AtHead
  <1>3. AwaitsOK(b)'
    BY <1>1, <1>2, SubagentsOK DEF AwaitsOK, TypeOK, Index
  <1>4. PhaseOK(b)'
    BY <1>1, <1>2 DEF PhaseOK, Plannable
  <1> QED BY <1>1, <1>3, <1>4 DEF SlotsOK, QueueOK, Open

\* A worker at its loop's head finds the next task queued.
LEMMA HeadFacts ==
    ASSUME IInv, NEW b \in Batches, NEW w \in Workers,
           AtHead(b, w), ~cancelled[b], next[b] <= N
    PROVE  /\ next[b] \in Index /\ next[b] + 1 \in Nat
           /\ tasks[b][next[b]].status = "queued"
           /\ phase[b] = "active"
           /\ w \in working[b] /\ awaits[b][w] = 0
           /\ \A v \in Workers : awaits[b][v] # next[b]
  <1>1. next[b] \in Index /\ next[b] + 1 \in Nat
    BY SubagentsOK DEF IInv, TypeOK, Index
  <1>2. tasks[b][next[b]].status = "queued"
    BY <1>1 DEF IInv, BatchOK, QueueOK, Index
  <1>3. phase[b] = "active" /\ w \in working[b] /\ awaits[b][w] = 0
    BY DEF IInv, BatchOK, PhaseOK, AtHead
  <1>4. \A v \in Workers : awaits[b][v] # next[b]
    BY <1>1, <1>2 DEF IInv, BatchOK, AwaitsOK, Index
  <1> QED BY <1>1, <1>2, <1>3, <1>4

LEMMA TakeTaskKeeps ==
    ASSUME IInv, NEW b \in Batches, NEW w \in Workers, NEW observer \in BOOLEAN,
           TakeTask(b, w, observer)
    PROVE  BatchOK(b)'
  <1> DEFINE n == next[b]
  <1> USE DEF IInv, BatchOK
  <1>1. /\ n \in Index /\ n + 1 \in Nat
        /\ tasks[b][n].status = "queued" /\ phase[b] = "active" /\ ~cancelled[b]
        /\ w \in working[b] /\ awaits[b][w] = 0 /\ \A v \in Workers : awaits[b][v] # n
    BY HeadFacts DEF TakeTask
  <1>2. /\ next'[b] = n + 1 /\ cancelled'[b] = observer
        /\ awaits'[b] = [awaits[b] EXCEPT ![w] = n]
        /\ tasks'[b] = [i \in Index |-> IF i = n THEN Started
                           ELSE IF observer THEN CancelOne(tasks[b][i]) ELSE tasks[b][i]]
        /\ UNCHANGED <<claims, phase, working>>
    BY DEF TakeTask, TypeOK
  <1>3. Started.status = "running"
    BY DEF Started, NoTask
  <1>4. ASSUME NEW i \in Index, i # n
        PROVE  /\ tasks'[b][i].status = "running" <=> tasks[b][i].status = "running"
               /\ tasks'[b][i].proc = tasks[b][i].proc
               /\ IF observer THEN tasks'[b][i].status # "queued" ELSE tasks'[b][i] = tasks[b][i]
    <2>1. tasks[b][i] \in Task /\ (Open(tasks[b][i]) => tasks[b][i].status = "running")
      BY DEF TypeOK, SlotsOK
    <2>2. tasks'[b][i] = IF observer THEN CancelOne(tasks[b][i]) ELSE tasks[b][i]
      BY <1>2, <1>4
    <2> QED BY <2>1, <2>2, CancelOneFacts
  <1>5. tasks'[b][n].status = "running"
    BY <1>1, <1>2, <1>3
  <1>6. SlotsOK(b)'
    BY <1>4, <1>5 DEF SlotsOK, Open
  <1>7. AwaitsOK(b)'
    <2>1. awaits'[b][w] = n /\ \A v \in Workers \ {w} : awaits'[b][v] = awaits[b][v]
      BY <1>2 DEF TypeOK
    <2>2. \A v \in Workers : awaits[b][v] # 0 => awaits[b][v] \in Index
      BY SubagentsOK DEF TypeOK, Index
    <2>3. working[b] \subseteq Workers
      BY DEF TypeOK
    <2>4. ASSUME NEW i \in Index, tasks'[b][i].status = "running"
          PROVE  \E v \in working'[b] : awaits'[b][v] = i
      <3>1. CASE i = n
        BY <3>1, <1>1, <1>2, <2>1
      <3>2. CASE i # n
        <4>1. PICK v \in working[b] : awaits[b][v] = i
          BY <3>2, <2>4, <1>4 DEF AwaitsOK
        <4>2. v # w
          BY <4>1, <1>1, SubagentsOK DEF Index
        <4> QED BY <4>1, <4>2, <2>1, <2>3, <1>2
      <3> QED BY <3>1, <3>2
    <2>5. ASSUME NEW v \in Workers, awaits'[b][v] # 0
          PROVE  v \in working'[b] /\ tasks'[b][awaits'[b][v]].status = "running"
      BY <2>5, <2>1, <2>2, <1>1, <1>2, <1>4, <1>5 DEF AwaitsOK
    <2>6. ASSUME NEW u \in Workers, NEW v \in Workers,
                 awaits'[b][u] = awaits'[b][v], awaits'[b][u] # 0
          PROVE  u = v
      BY <2>6, <2>1, <1>1 DEF AwaitsOK
    <2> QED BY <2>4, <2>5, <2>6 DEF AwaitsOK
  <1>8. QueueOK(b)'
    <2> SUFFICES ASSUME NEW i \in Index
                 PROVE  tasks'[b][i].status = "queued" <=> i >= n + 1 /\ ~observer
      BY <1>2 DEF QueueOK
    <2>1. CASE i = n
      BY <2>1, <1>1, <1>5 DEF Index
    <2>2. CASE i # n
      <3>1. i >= n <=> i >= n + 1
        BY <2>2, <1>1 DEF Index
      <3> QED BY <2>2, <3>1, <1>1, <1>4 DEF QueueOK
    <2> QED BY <2>1, <2>2
  <1>9. PhaseOK(b)'
    <2>1. working[b] = Workers
      BY <1>1, SubagentsOK DEF PhaseOK, Index
    <2> QED BY <1>1, <1>2, <2>1 DEF PhaseOK, Plannable
  <1> QED BY <1>6, <1>7, <1>8, <1>9

LEMMA TakeTaskThrowsKeeps ==
    ASSUME IInv, NEW b \in Batches, NEW w \in Workers, TakeTaskThrows(b, w)
    PROVE  BatchOK(b)'
  <1> DEFINE n == next[b]
             x == [NoTask EXCEPT !.status = "failed"]
  <1> USE DEF IInv, BatchOK
  <1>1. /\ n \in Index /\ n + 1 \in Nat
        /\ tasks[b][n].status = "queued" /\ phase[b] = "active" /\ ~cancelled[b]
        /\ w \in working[b] /\ \A v \in Workers : awaits[b][v] # n
    BY HeadFacts DEF TakeTaskThrows
  <1>2. /\ next'[b] = n + 1 /\ tasks'[b][n] = x
        /\ \A i \in Index \ {n} : tasks'[b][i] = tasks[b][i]
        /\ UNCHANGED <<claims, phase, cancelled, working, awaits>>
    BY <1>1 DEF TakeTaskThrows, PutTask, TypeOK
  <1>3. tasks'[b][n].status = "failed" /\ ~Open(tasks'[b][n])
    BY <1>2 DEF NoTask, Open
  <1> HIDE DEF n, x
  <1>4. SlotsOK(b)'
    BY <1>2, <1>3 DEF SlotsOK, Open
  <1>5. AwaitsOK(b)'
    <2>1. \A v \in Workers : awaits[b][v] # 0 => awaits[b][v] \in Index \ {n}
      BY <1>1, SubagentsOK DEF TypeOK, Index
    <2> QED BY <1>1, <1>2, <1>3, <2>1 DEF AwaitsOK
  <1>6. QueueOK(b)'
    <2> SUFFICES ASSUME NEW i \in Index
                 PROVE  tasks'[b][i].status = "queued" <=> i >= n + 1 /\ ~cancelled[b]
      BY <1>2 DEF QueueOK
    <2>1. CASE i = n
      BY <2>1, <1>1, <1>2, <1>3 DEF Index
    <2>2. CASE i # n
      <3>1. i >= n <=> i >= n + 1
        BY <2>2, <1>1 DEF Index
      <3> QED BY <2>2, <3>1, <1>2 DEF QueueOK, n
    <2> QED BY <2>1, <2>2
  <1>7. PhaseOK(b)'
    <2>1. working[b] = Workers
      BY <1>1, SubagentsOK DEF PhaseOK, Index, n
    <2> QED BY <1>1, <1>2, <2>1 DEF PhaseOK, Plannable
  <1> QED BY <1>4, <1>5, <1>6, <1>7

LEMMA SettleKeeps ==
    ASSUME IInv, NEW b \in Batches, NEW w \in Workers, Settle(b, w)
    PROVE  BatchOK(b)'
  <1> DEFINE n == awaits[b][w]
             x == [tasks[b][n] EXCEPT !.status = tasks[b][n].outcome]
  <1> USE DEF IInv, BatchOK
  <1>1. /\ n \in Index /\ n # 0 /\ w \in working[b] /\ tasks[b][n].proc = "gone"
        /\ tasks[b][n] \in Task /\ tasks[b][n].status = "running"
    BY SubagentsOK DEF Settle, TypeOK, Index, AwaitsOK
  <1>2. /\ tasks'[b][n] = x /\ \A i \in Index \ {n} : tasks'[b][i] = tasks[b][i]
        /\ awaits'[b][w] = 0 /\ \A v \in Workers \ {w} : awaits'[b][v] = awaits[b][v]
        /\ UNCHANGED <<claims, phase, cancelled, next, working>>
    BY <1>1 DEF Settle, PutTask, TypeOK
  <1>3. tasks'[b][n].status \in Outcome /\ ~Open(tasks'[b][n])
    BY <1>1, <1>2 DEF Task, Outcome, Open
  <1> HIDE DEF n, x
  <1>4. SlotsOK(b)'
    BY <1>2, <1>3 DEF SlotsOK, Open
  <1>5. AwaitsOK(b)'
    <2>1. \A v \in Workers \ {w} : awaits[b][v] # 0 => awaits[b][v] \in Index \ {n}
      BY <1>1, SubagentsOK DEF TypeOK, Index, AwaitsOK, n
    <2>2. working[b] \subseteq Workers
      BY DEF TypeOK
    <2>3. ASSUME NEW i \in Index, tasks'[b][i].status = "running"
          PROVE  \E v \in working'[b] : awaits'[b][v] = i
      <3>1. i # n
        BY <1>2, <1>3, <2>3 DEF Outcome
      <3>2. PICK v \in working[b] : awaits[b][v] = i
        BY <1>2, <2>3, <3>1 DEF AwaitsOK
      <3> QED BY <3>1, <3>2, <1>2, <2>2 DEF n
    <2>4. ASSUME NEW v \in Workers, awaits'[b][v] # 0
          PROVE  v \in working'[b] /\ tasks'[b][awaits'[b][v]].status = "running"
      BY <2>4, <2>1, <1>2 DEF AwaitsOK
    <2>5. ASSUME NEW u \in Workers, NEW v \in Workers,
                 awaits'[b][u] = awaits'[b][v], awaits'[b][u] # 0
          PROVE  u = v
      BY <2>5, <1>2 DEF AwaitsOK
    <2> QED BY <2>3, <2>4, <2>5 DEF AwaitsOK
  <1>6. QueueOK(b)'
    BY <1>1, <1>2, <1>3 DEF QueueOK, Outcome
  <1>7. PhaseOK(b)'
    BY <1>2 DEF PhaseOK, Plannable
  <1> QED BY <1>4, <1>5, <1>6, <1>7

LEMMA ProcessKeeps ==
    ASSUME IInv, NEW b \in Batches, NEW i \in Index,
           Spawn(b, i) \/ SpawnFails(b, i) \/ Escalate(b, i) \/ Close(b, i)
    PROVE  BatchOK(b)'
  <1> USE DEF IInv, BatchOK
  <1>0. tasks[b][i] \in Task
    BY DEF TypeOK
  <1>1. /\ UNCHANGED <<claims, phase, cancelled, next, working, awaits>>
        /\ \A j \in Index \ {i} : tasks'[b][j] = tasks[b][j]
    <2>1. PICK x : PutTask(b, i, x)
      BY Zenon DEF Spawn, SpawnFails, Escalate, Close
    <2>2. \A j \in Index \ {i} : tasks'[b][j] = tasks[b][j]
      BY <2>1 DEF PutTask, TypeOK
    <2> QED BY <2>2 DEF Spawn, SpawnFails, Escalate, Close
  <1>2. Open(tasks[b][i])
    BY DEF Spawn, SpawnFails, Escalate, Close, Open
  <1>3. tasks'[b][i].status = tasks[b][i].status
    <2> DEFINE t == tasks[b][i]
    <2>1. CASE Spawn(b, i)
      <3>1. tasks'[b][i] = [t EXCEPT !.proc = "up", !.sent = IF t.asked THEN "SIGTERM" ELSE "none"]
        BY <2>1 DEF Spawn, PutTask, TypeOK
      <3> QED BY <1>0, <3>1 DEF Task
    <2>2. CASE Escalate(b, i)
      <3>1. tasks'[b][i] = [t EXCEPT !.sent = "SIGKILL"]
        BY <2>2 DEF Escalate, PutTask, TypeOK
      <3> QED BY <1>0, <3>1 DEF Task
    <2>3. CASE SpawnFails(b, i) \/ Close(b, i)
      <3>1. PICK o : PutTask(b, i, [t EXCEPT !.proc = "gone", !.outcome = o])
        BY <2>3, Zenon DEF SpawnFails, Close
      <3>2. tasks'[b][i] = [t EXCEPT !.proc = "gone", !.outcome = o]
        BY <3>1 DEF PutTask, TypeOK
      <3> QED BY <1>0, <3>2 DEF Task
    <2> QED BY <2>1, <2>2, <2>3
  <1>4. SlotsOK(b)'
    BY <1>1, <1>2, <1>3 DEF SlotsOK, Open
  <1>5. AwaitsOK(b)'
    <2>1. \A v \in Workers : awaits[b][v] # 0 => awaits[b][v] \in Index
      BY SubagentsOK DEF TypeOK, Index
    <2>2. \A j \in Index : tasks'[b][j].status = tasks[b][j].status
      BY <1>1, <1>3
    <2> QED BY <1>1, <2>1, <2>2 DEF AwaitsOK
  <1>6. QueueOK(b)'
    BY <1>1, <1>3 DEF QueueOK
  <1>7. PhaseOK(b)'
    BY <1>1 DEF PhaseOK, Plannable
  <1> QED BY <1>4, <1>5, <1>6, <1>7

LEMMA StepKeeps ==
    ASSUME IInv, NEW b \in Batches, StepOf(b) PROVE BatchOK(b)'
  BY StartKeeps, CancelKeeps, ResolveKeeps, WorkerReturnsKeeps, TakeTaskKeeps,
     TakeTaskThrowsKeeps, SettleKeeps, ProcessKeeps
     DEF StepOf, WorkerStep, ProcessStep

-----------------------------------------------------------------------------
(* The invariant of the registry, and the theorems.                        *)

\* Conflict does not depend on which batch registered first.
LEMMA DisjointKept ==
    ASSUME IInv, NEW b \in Batches, StepOf(b) PROVE Disjoint'
  <1>1. CASE claims' \subseteq claims
    BY <1>1 DEF IInv, Disjoint, Conflict
  <1>2. ASSUME NEW aborted \in BOOLEAN, Start(b, aborted) PROVE Disjoint'
    <2>1. \A c \in claims : ~Conflict(b, c) /\ ~Conflict(c, b)
      BY <1>2 DEF Start, Conflict
    <2> QED BY <1>2, <2>1 DEF IInv, Disjoint, Start, Activate, Conflict
  <1>3. CASE Cancel(b) \/ Resolve(b) \/ WorkerStep(b) \/ ProcessStep(b)
    <2>1. claims' \subseteq claims
      BY <1>3 DEF Cancel, Resolve, WorkerStep, WorkerReturns, TakeTask, TakeTaskThrows, Settle,
                  ProcessStep, Spawn, SpawnFails, Escalate, Close
    <2> QED BY <2>1, <1>1
  <1> QED BY <1>2, <1>3 DEF StepOf

LEMMA InitInvariant == Init => IInv
  <1> SUFFICES ASSUME Init PROVE IInv
    OBVIOUS
  <1>1. TypeOK /\ Disjoint
    BY InitTyped DEF Init, Disjoint
  <1>2. ASSUME NEW b \in Batches PROVE BatchOK(b)
    <2>1. \A i \in Index : tasks[b][i] = NoTask
      BY DEF Init
    <2>2. \A i \in Index : tasks[b][i].status = "queued" /\ ~Open(tasks[b][i])
      BY <2>1 DEF NoTask, Open
    <2>3. \A w \in Workers : awaits[b][w] = 0
      BY DEF Init
    <2>4. next[b] = 1 /\ ~cancelled[b] /\ working[b] = {} /\ phase[b] = "idle" /\ claims = {}
      BY DEF Init
    <2> QED BY <2>2, <2>3, <2>4 DEF BatchOK, SlotsOK, AwaitsOK, QueueOK, PhaseOK, Index
  <1> QED BY <1>1, <1>2 DEF IInv

LEMMA NextInvariant == IInv /\ [Next]_vars => IInv'
  <1> SUFFICES ASSUME IInv, [Next]_vars PROVE IInv'
    OBVIOUS
  <1>1. TypeOK'
    BY NextTyped DEF IInv
  <1>2. CASE UNCHANGED vars
    <2>1. Disjoint'
      BY <1>2 DEF IInv, Disjoint, Conflict, vars
    <2>2. \A b \in Batches : BatchOK(b)'
      BY <1>2, UntouchedKeeps DEF IInv, Untouched, vars
    <2> QED BY <1>1, <2>1, <2>2 DEF IInv
  <1>3. ASSUME NEW b \in Batches, StepOf(b) PROVE IInv'
    <2>1. \A c \in Batches : BatchOK(c)'
      BY <1>3, StepKeeps, OneBatch, UntouchedKeeps DEF IInv
    <2>2. Disjoint'
      BY <1>3, DisjointKept
    <2> QED BY <1>1, <2>1, <2>2 DEF IInv
  <1> QED BY <1>2, <1>3 DEF Next, StepOf

LEMMA Invariant == Spec => []IInv
  BY InitInvariant, NextInvariant, PTL DEF Spec

\* Every variable has its type.
THEOREM Typing == Spec => []TypeOK
  <1>1. IInv => TypeOK
    BY DEF IInv
  <1> QED BY Invariant, <1>1, PTL

\* Two processes of in-flight tasks never share a declared resource or file.
THEOREM Separation == Spec => []Exclusive
  <1>1. ASSUME IInv PROVE Exclusive
    <2> SUFFICES ASSUME NEW b \in Batches, NEW c \in Batches, NEW i \in Index, NEW j \in Index,
                        Open(tasks[b][i]), Open(tasks[c][j]), Scope[b][i] \cap Scope[c][j] # {}
                 PROVE  b = c /\ i = j
      BY DEF Exclusive
    <2>1. \A d \in Batches, k \in Index :
             Open(tasks[d][k]) => d \in claims /\ Plannable(d)
      <3> SUFFICES ASSUME NEW d \in Batches, NEW k \in Index, Open(tasks[d][k])
                   PROVE  d \in claims /\ Plannable(d)
        OBVIOUS
      <3>1. tasks[d][k].status = "running"
        BY <1>1 DEF IInv, BatchOK, SlotsOK
      <3>2. working[d] # {}
        BY <1>1, <3>1 DEF IInv, BatchOK, AwaitsOK
      <3> QED BY <1>1, <3>2 DEF IInv, BatchOK, PhaseOK
    <2>2. b = c
      BY <1>1, <2>1 DEF IInv, Disjoint, Conflict
    <2> QED BY <2>1, <2>2 DEF Plannable
  <1> QED BY Invariant, <1>1, PTL

\* A resolved batch has its results, no process and no declarations.
THEOREM CleanResolution == Spec => []ResolvedClean
  <1>1. ASSUME IInv PROVE ResolvedClean
    <2> SUFFICES ASSUME NEW b \in Batches, phase[b] = "done"
                 PROVE  /\ b \notin claims
                        /\ \A i \in Index : tasks[b][i].status \in Outcome /\ ~Open(tasks[b][i])
      BY DEF ResolvedClean
    <2>1. b \notin claims /\ working[b] = {}
      BY <1>1 DEF IInv, BatchOK, PhaseOK
    <2>2. 1 \in Workers
      BY SubagentsOK DEF Workers
    <2>3. cancelled[b] \/ next[b] > N
      BY <1>1, <2>1, <2>2 DEF IInv, BatchOK, PhaseOK
    <2>4. ASSUME NEW i \in Index PROVE tasks[b][i].status \in Outcome /\ ~Open(tasks[b][i])
      <3>1. tasks[b][i].status # "running"
        BY <1>1, <2>1 DEF IInv, BatchOK, AwaitsOK
      <3>2. tasks[b][i].status # "queued"
        BY <1>1, <2>3, SubagentsOK DEF IInv, TypeOK, BatchOK, QueueOK, Index
      <3>3. tasks[b][i] \in Task
        BY <1>1 DEF IInv, TypeOK
      <3> QED BY <1>1, <3>1, <3>2, <3>3 DEF IInv, BatchOK, SlotsOK, Task
    <2> QED BY <2>1, <2>4
  <1> QED BY Invariant, <1>1, PTL

-----------------------------------------------------------------------------
(* What cancelling reaches, when the observer of updates never aborts.     *)

\* Every process of a cancelled batch was told to end.
Told(b) == cancelled[b] => \A i \in Index :
    /\ Open(tasks[b][i]) => tasks[b][i].asked
    /\ tasks[b][i].proc = "up" => tasks[b][i].sent # "none"

LEMMA WorkerStepTold ==
    ASSUME IInv, ~ObserverCancels, NEW b \in Batches, WorkerStep(b), Told(b)
    PROVE  Told(b)'
  <1> USE DEF IInv, BatchOK
  <1>1. ASSUME NEW w \in Workers, WorkerReturns(b, w) PROVE Told(b)'
    BY <1>1 DEF WorkerReturns, Told, Open
  <1>2. ASSUME NEW w \in Workers, TakeTaskThrows(b, w) PROVE Told(b)'
    BY <1>2 DEF TakeTaskThrows, Told
  <1>3. ASSUME NEW w \in Workers, NEW observer \in BOOLEAN, TakeTask(b, w, observer)
        PROVE  Told(b)'
    BY <1>3 DEF TakeTask, Told, TypeOK
  <1>4. ASSUME NEW w \in Workers, Settle(b, w) PROVE Told(b)'
    <2> DEFINE n == awaits[b][w]
    <2>1. n \in Index /\ tasks[b][n] \in Task /\ tasks[b][n].proc = "gone"
      BY <1>4, SubagentsOK DEF Settle, TypeOK, Index
    <2>2. /\ tasks'[b][n] = [tasks[b][n] EXCEPT !.status = tasks[b][n].outcome]
          /\ \A i \in Index \ {n} : tasks'[b][i] = tasks[b][i]
          /\ UNCHANGED cancelled
      BY <1>4, <2>1 DEF Settle, PutTask, TypeOK
    <2>3. tasks'[b][n].proc = "gone"
      BY <2>1, <2>2 DEF Task
    <2> HIDE DEF n
    <2> QED BY <2>2, <2>3 DEF Told, Open
  <1> QED BY <1>1, <1>2, <1>3, <1>4 DEF WorkerStep

LEMMA ProcessStepTold ==
    ASSUME IInv, NEW b \in Batches, ProcessStep(b), Told(b)
    PROVE  Told(b)'
  <1> PICK i \in Index : Spawn(b, i) \/ SpawnFails(b, i) \/ Escalate(b, i) \/ Close(b, i)
    BY DEF ProcessStep
  <1> DEFINE t == tasks[b][i]
             u == tasks'[b][i]
  <1>1. t \in Task
    BY DEF IInv, TypeOK
  <1>2. UNCHANGED cancelled /\ \A j \in Index \ {i} : tasks'[b][j] = tasks[b][j]
    <2>1. PICK x : PutTask(b, i, x)
      BY Zenon DEF Spawn, SpawnFails, Escalate, Close
    <2>2. \A j \in Index \ {i} : tasks'[b][j] = tasks[b][j]
      BY <2>1 DEF PutTask, IInv, TypeOK
    <2> QED BY <2>2 DEF Spawn, SpawnFails, Escalate, Close
  <1>3. ASSUME Open(t) => t.asked, t.proc = "up" => t.sent # "none"
        PROVE  (Open(u) => u.asked) /\ (u.proc = "up" => u.sent # "none")
    <2>1. CASE Spawn(b, i)
      <3>1. u = [t EXCEPT !.proc = "up", !.sent = IF t.asked THEN "SIGTERM" ELSE "none"]
        BY <2>1 DEF Spawn, PutTask, IInv, TypeOK
      <3>2. t.asked
        BY <1>3, <2>1 DEF Spawn, Open
      <3> QED BY <1>1, <3>1, <3>2 DEF Task
    <2>2. CASE Escalate(b, i)
      <3>1. u = [t EXCEPT !.sent = "SIGKILL"] /\ t.proc = "up"
        BY <2>2 DEF Escalate, PutTask, IInv, TypeOK
      <3> QED BY <1>1, <1>3, <3>1 DEF Task, Open
    <2>3. CASE SpawnFails(b, i) \/ Close(b, i)
      <3>1. PICK o : PutTask(b, i, [t EXCEPT !.proc = "gone", !.outcome = o])
        BY <2>3, Zenon DEF SpawnFails, Close
      <3>2. u = [t EXCEPT !.proc = "gone", !.outcome = o]
        BY <3>1 DEF PutTask, IInv, TypeOK
      <3> QED BY <1>1, <3>2 DEF Task, Open
    <2> QED BY <2>1, <2>2, <2>3
  <1> QED BY <1>2, <1>3 DEF Told, Open

LEMMA StepTold ==
    ASSUME IInv, ~ObserverCancels, NEW b \in Batches, StepOf(b), Told(b)
    PROVE  Told(b)'
  <1> USE DEF IInv, BatchOK
  <1>1. ASSUME NEW aborted \in BOOLEAN, Start(b, aborted) PROVE Told(b)'
    <2>1. cancelled'[b] = aborted /\ tasks'[b] = IF aborted THEN CancelAll(b) ELSE tasks[b]
      BY <1>1 DEF Start, Activate, TypeOK
    <2> QED BY <2>1, CancelAllKeeps DEF Told, Open
  <1>2. CASE Cancel(b)
    <2>1. tasks'[b] = CancelAll(b)
      BY <1>2 DEF Cancel, TypeOK
    <2> QED BY <2>1, CancelAllKeeps DEF Told, Open
  <1>3. CASE Resolve(b)
    BY <1>3 DEF Resolve, Told, Open
  <1> QED BY <1>1, <1>2, <1>3, WorkerStepTold, ProcessStepTold DEF StepOf

\* When the observer of updates never aborts, a cancelled batch has nothing
\* queued and no process that was not told to end.
THEOREM Cancellation == ~ObserverCancels => (Spec => []CancelReaches)
  <1> SUFFICES ASSUME ~ObserverCancels PROVE Spec => []CancelReaches
    OBVIOUS
  <1> DEFINE TInv == IInv /\ \A b \in Batches : Told(b)
  <1>1. Init => TInv
    BY InitInvariant DEF Init, Told
  <1>2. TInv /\ [Next]_vars => TInv'
    <2> SUFFICES ASSUME TInv, [Next]_vars PROVE TInv'
      OBVIOUS
    <2>1. IInv'
      BY NextInvariant
    <2>2. CASE UNCHANGED vars
      BY <2>1, <2>2 DEF vars, Told, Open
    <2>3. ASSUME NEW b \in Batches, StepOf(b) PROVE \A c \in Batches : Told(c)'
      <3>1. Told(b)'
        BY <2>3, StepTold
      <3>2. ASSUME NEW c \in Batches, c # b PROVE Told(c)'
        <4>1. Untouched(c)
          BY <2>3, <3>2, OneBatch DEF IInv
        <4> QED BY <4>1 DEF Untouched, Told, Open
      <3> QED BY <3>1, <3>2
    <2> QED BY <2>1, <2>2, <2>3 DEF Next, StepOf
  <1>3. TInv => CancelReaches
    BY DEF IInv, BatchOK, QueueOK, Told, CancelReaches
  <1> QED BY <1>1, <1>2, <1>3, PTL DEF Spec

-----------------------------------------------------------------------------
(* Results are final.                                                      *)

\* A step of batch b keeps the slots of b that are final.
LEMMA StepKeepsResults ==
    ASSUME IInv, NEW b \in Batches, StepOf(b), NEW i \in Index, tasks[b][i].status \in Outcome
    PROVE  tasks'[b][i] = tasks[b][i]
  <1> USE DEF IInv, BatchOK
  <1>1. tasks[b][i] \in Task /\ tasks[b][i].status \notin {"queued", "running"} /\ ~Open(tasks[b][i])
    BY DEF TypeOK, Outcome, SlotsOK
  <1>2. CancelAll(b)[i] = tasks[b][i]
    BY CancelAllKeeps
  <1>3. ASSUME NEW aborted \in BOOLEAN, Start(b, aborted) PROVE tasks'[b][i] = tasks[b][i]
    BY <1>2, <1>3 DEF Start, Activate, TypeOK
  <1>4. CASE Cancel(b) \/ Resolve(b)
    BY <1>2, <1>4 DEF Cancel, Resolve, TypeOK
  <1>5. ASSUME NEW w \in Workers,
               \/ WorkerReturns(b, w) \/ TakeTaskThrows(b, w) \/ Settle(b, w)
               \/ \E observer \in BOOLEAN : TakeTask(b, w, observer)
        PROVE  tasks'[b][i] = tasks[b][i]
    <2>1. CASE WorkerReturns(b, w)
      BY <2>1 DEF WorkerReturns
    <2>2. ASSUME NEW observer \in BOOLEAN, TakeTask(b, w, observer)
          PROVE  tasks'[b][i] = tasks[b][i]
      <3>1. i # next[b]
        BY <1>1, <2>2, HeadFacts DEF TakeTask
      <3>2. tasks'[b][i] = IF observer THEN CancelOne(tasks[b][i]) ELSE tasks[b][i]
        BY <2>2, <3>1 DEF TakeTask, TypeOK
      <3> QED BY <1>1, <3>2, CancelOneFacts
    <2>3. CASE TakeTaskThrows(b, w)
      <3>1. i # next[b] /\ next[b] \in Index
        BY <1>1, <2>3, HeadFacts DEF TakeTaskThrows
      <3> QED BY <2>3, <3>1 DEF TakeTaskThrows, PutTask, TypeOK
    <2>4. CASE Settle(b, w)
      <3>1. i # awaits[b][w]
        BY <1>1, <2>4 DEF Settle, AwaitsOK
      <3> QED BY <2>4, <3>1 DEF Settle, PutTask, TypeOK
    <2> QED BY <1>5, <2>1, <2>2, <2>3, <2>4
  <1>6. ASSUME NEW j \in Index, Spawn(b, j) \/ SpawnFails(b, j) \/ Escalate(b, j) \/ Close(b, j)
        PROVE  tasks'[b][i] = tasks[b][i]
    <2>1. Open(tasks[b][j])
      BY <1>6 DEF Spawn, SpawnFails, Escalate, Close, Open
    <2>2. PICK x : PutTask(b, j, x)
      BY <1>6, Zenon DEF Spawn, SpawnFails, Escalate, Close
    <2> QED BY <1>1, <2>1, <2>2 DEF PutTask, TypeOK
  <1> QED BY <1>3, <1>4, <1>5, <1>6 DEF StepOf, WorkerStep, ProcessStep

\* A final status stays, and its task never gets a process again.
THEOREM Results == Spec => ResultsKept
  <1> DEFINE Kept == \A b \in Batches, i \in Index : tasks[b][i].status \in Outcome =>
                        /\ tasks'[b][i].status = tasks[b][i].status
                        /\ ~Open(tasks'[b][i])
  <1>1. ASSUME IInv, [Next]_vars PROVE [Kept]_vars
    <2>1. CASE UNCHANGED vars
      BY <2>1
    <2>2. ASSUME NEW b \in Batches, StepOf(b) PROVE Kept
      <3> SUFFICES ASSUME NEW c \in Batches, NEW i \in Index, tasks[c][i].status \in Outcome
                   PROVE  /\ tasks'[c][i].status = tasks[c][i].status
                          /\ ~Open(tasks'[c][i])
        OBVIOUS
      <3>1. ~Open(tasks[c][i])
        BY <1>1 DEF IInv, BatchOK, SlotsOK, Outcome
      <3>2. tasks'[c][i] = tasks[c][i]
        <4>1. CASE c = b
          BY <1>1, <2>2, <4>1, StepKeepsResults
        <4>2. CASE c # b
          BY <1>1, <2>2, <4>2, OneBatch DEF IInv, Untouched
        <4> QED BY <4>1, <4>2
      <3> QED BY <3>1, <3>2 DEF Open
    <2> QED BY <1>1, <2>1, <2>2 DEF Next, StepOf
  <1> QED BY Invariant, <1>1, PTL DEF Spec, ResultsKept
=============================================================================
