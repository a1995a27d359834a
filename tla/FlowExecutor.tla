---------------------------- MODULE FlowExecutor ----------------------------
(***************************************************************************)
(* The executor of the FlowScheduler (src/src/runtime/scheduler/flow.rs):  *)
(* one worker thread per core, each with a local queue of slots for the    *)
(* blocks that were mapped to it, and a global queue for all other tasks   *)
(* (run_flowgraph, among others).  A worker without work registers with    *)
(* the sleepers, searches once more, and parks.                            *)
(*                                                                         *)
(* A task is polled by at most one worker and is in at most one queue;     *)
(* this is what the async_task crate guarantees.  A task woken while it is *)
(* polled is scheduled again at the end of the poll, by the worker.        *)
(* Other threads (drivers of timers and sockets, users of handles) wake    *)
(* tasks, too.  Each critical section of a lock is one action, and so is   *)
(* each operation on the atomic flag `notified`.                           *)
(***************************************************************************)
EXTENDS Naturals, Sequences, FiniteSets

CONSTANTS W,         \* number of worker threads
          T,         \* number of spawned tasks
          Home,      \* Home[t]: the worker of a block, or 0 for a global task
          Threads    \* other threads that wake tasks

Workers == 1..W
Tasks   == 1..T
Agents  == Workers \cup Threads      \* whoever can schedule a task

ASSUME ExecutorAssumption ==
    /\ W \in Nat \ {0} /\ T \in Nat /\ Workers \cap Threads = {}
    /\ Home \in [Tasks -> Workers \cup {0}]

VARIABLES
    queue,      \* state.queue: scheduled global tasks
    local,      \* local[w]: the slots of worker w that hold a runnable
    cursor,     \* cursor[w]: the slot the next search begins with
    notified,   \* state.notified
    count, wakers, freeIds,     \* state.sleepers
    sleeping,   \* Ticker::sleeping of every worker
    wpc,        \* a worker: search, sleep, parked, found, run
    task,       \* the task a worker has found
    permit,     \* the waker of a worker was called: it will be polled again
    tstate,     \* a task: idle, scheduled, running, or rewoken while running
    spc         \* scheduling in progress: [pc, task, worker] of every agent

sleepVars == <<notified, count, wakers, freeIds, sleeping>>
vars == <<queue, local, cursor, sleepVars, wpc, task, permit, tstate, spc>>

NoTask == 0
Ready == [pc |-> "none", task |-> NoTask, worker |-> 0]

\* All tasks were spawned; the workers look for work for the first time.
Init ==
    /\ queue = <<>>
    /\ local = [w \in Workers |-> {}]
    /\ cursor = [w \in Workers |-> 0]
    /\ notified = TRUE /\ count = 0 /\ wakers = <<>> /\ freeIds = <<>>
    /\ sleeping = [w \in Workers |-> 0]
    /\ wpc = [w \in Workers |-> "search"]
    /\ task = [w \in Workers |-> NoTask]
    /\ permit = [w \in Workers |-> FALSE]
    /\ tstate = [t \in Tasks |-> "idle"]
    /\ spc = [a \in Agents |-> Ready]

-----------------------------------------------------------------------------
(* Scheduling a task: schedule(), schedule_executor(), State::notify(),    *)
(* State::notify_executor().                                               *)

\* Mutant: a global task is put into a slot of the first worker.
ScheduleOnFirst(a, t) ==
    /\ tstate' = [tstate EXCEPT ![t] = "scheduled"]
    /\ spc' = [spc EXCEPT ![a] = [pc |-> "notify", task |-> t, worker |-> 0]]
    /\ local' = [local EXCEPT ![IF Home[t] = 0 THEN 1 ELSE Home[t]] = @ \cup {t}]
    /\ UNCHANGED queue

\* Mutant: every task is put into the global queue, too.
ScheduleTwice(a, t) ==
    /\ tstate' = [tstate EXCEPT ![t] = "scheduled"]
    /\ spc' = [spc EXCEPT ![a] = [pc |-> "notify", task |-> t, worker |-> 0]]
    /\ queue' = Append(queue, t)
    /\ local' = IF Home[t] = 0 THEN local ELSE [local EXCEPT ![Home[t]] = @ \cup {t}]

\* The first half: the runnable is put into its queue.
Schedule(a, t) ==
    /\ tstate' = [tstate EXCEPT ![t] = "scheduled"]
    /\ spc' = [spc EXCEPT ![a] = [pc |-> "notify", task |-> t, worker |-> 0]]
    /\ IF Home[t] = 0
       THEN queue' = Append(queue, t) /\ UNCHANGED local
       ELSE local' = [local EXCEPT ![Home[t]] = @ \cup {t}] /\ UNCHANGED queue

\* A thread wakes a task.
ThreadWake(a, t) ==
    /\ spc[a] = Ready
    /\ \/ tstate[t] = "idle" /\ Schedule(a, t)
       \/ /\ tstate[t] = "running"
          /\ tstate' = [tstate EXCEPT ![t] = "rewoken"]
          /\ UNCHANGED <<queue, local, spc>>
    /\ UNCHANGED <<cursor, sleepVars, wpc, task, permit>>

\* State::notify(): compare_exchange on the flag.
NotifyFlag(a) ==
    /\ spc[a].pc = "notify" /\ Home[spc[a].task] = 0
    /\ notified' = TRUE
    /\ spc' = [spc EXCEPT ![a] = IF notified THEN Ready ELSE [@ EXCEPT !.pc = "pop"]]
    /\ UNCHANGED <<queue, local, cursor, count, wakers, freeIds, sleeping, wpc, task, permit, tstate>>

Waking(a, w) == spc' = [spc EXCEPT ![a] = [pc |-> "wake", task |-> NoTask, worker |-> w]]

\* Sleepers::notify(): the last waker, unless somebody is notified already.
NotifySleepers(a) ==
    /\ spc[a].pc = "pop"
    /\ \/ /\ Len(wakers) = count /\ wakers # <<>>
          /\ Waking(a, wakers[Len(wakers)].worker)
          /\ wakers' = SubSeq(wakers, 1, Len(wakers) - 1)
       \/ /\ ~(Len(wakers) = count /\ wakers # <<>>)
          /\ spc' = [spc EXCEPT ![a] = Ready]
          /\ UNCHANGED wakers
    /\ UNCHANGED <<queue, local, cursor, notified, count, freeIds, sleeping, wpc, task, permit, tstate>>

Without(s, i) == SubSeq(s, 1, i - 1) \o SubSeq(s, i + 1, Len(s))

\* Sleepers::notify_executor(): the waker of one worker.
NotifyExecutor(a) ==
    /\ spc[a].pc = "notify" /\ Home[spc[a].task] # 0
    /\ LET w == Home[spc[a].task]
           mine == {i \in 1..Len(wakers) : wakers[i].worker = w}
       IN  \/ /\ mine # {}
              /\ Waking(a, w)
              /\ wakers' = Without(wakers, CHOOSE i \in mine : \A j \in mine : i <= j)
           \/ /\ mine = {}
              /\ spc' = [spc EXCEPT ![a] = Ready]
              /\ UNCHANGED wakers
    /\ UNCHANGED <<queue, local, cursor, notified, count, freeIds, sleeping, wpc, task, permit, tstate>>

\* Waker::wake(), after the lock was released.
WakeWorker(a) ==
    /\ spc[a].pc = "wake"
    /\ permit' = [permit EXCEPT ![spc[a].worker] = TRUE]
    /\ spc' = [spc EXCEPT ![a] = Ready]
    /\ UNCHANGED <<queue, local, cursor, sleepVars, wpc, task, tstate>>

Scheduling(a) == NotifyFlag(a) \/ NotifySleepers(a) \/ NotifyExecutor(a) \/ WakeWorker(a)

-----------------------------------------------------------------------------
(* The workers: Runner::runnable(), Ticker::runnable_with().               *)

At(w, where) == wpc[w] = where /\ spc[w] = Ready

Slot(t)      == Cardinality({u \in Tasks : u < t /\ Home[u] = Home[t]})
SlotCount(w) == Cardinality({t \in Tasks : Home[t] = w})
\* Slots between the cursor and the slot of t, going round.
Distance(w, t) == ((Slot(t) + SlotCount(w)) - cursor[w]) % SlotCount(w)

\* Mutant: the search begins with the slot it ended with.
SameSlot(w, t) == Slot(t)
NextSlot(w, t) == (Slot(t) + 1) % SlotCount(w)

\* The next local runnable in turn, else one from the global queue.
Search(w) ==
    /\ At(w, "search")
    /\ \/ \E t \in local[w] :
            /\ \A u \in local[w] : Distance(w, t) <= Distance(w, u)
            /\ local' = [local EXCEPT ![w] = @ \ {t}]
            /\ cursor' = [cursor EXCEPT ![w] = NextSlot(w, t)]
            /\ task' = [task EXCEPT ![w] = t]
            /\ wpc' = [wpc EXCEPT ![w] = "found"]
            /\ UNCHANGED queue
       \/ /\ local[w] = {} /\ queue # <<>>
          /\ queue' = Tail(queue)
          /\ task' = [task EXCEPT ![w] = Head(queue)]
          /\ wpc' = [wpc EXCEPT ![w] = "found"]
          /\ UNCHANGED <<local, cursor>>
       \/ /\ local[w] = {} /\ queue = <<>>
          /\ wpc' = [wpc EXCEPT ![w] = "sleep"]
          /\ UNCHANGED <<queue, local, cursor, task>>
    /\ UNCHANGED <<sleepVars, permit, tstate, spc>>

\* Mutant: off by one.
IsNotifiedEarly(n, ws) == n >= Len(ws)

\* Sleepers::is_notified()
IsNotified(n, ws) == n = 0 \/ n > Len(ws)

Entry(id, w) == [id |-> id, worker |-> w]
\* Mutant: a ticker that was notified is not put on the list again.
ListedAlways(id) == TRUE

Listed(id) == \E i \in 1..Len(wakers) : wakers[i].id = id

\* Mutant: reclaimed ids are not looked at.
NewIdNext == count + 1

NewId == IF freeIds = <<>> THEN count + 1 ELSE freeIds[Len(freeIds)]

\* Ticker::sleep(): insert() the first time and update() later.  Only a worker
\* that is still listed parks; otherwise it searches once more.
Sleep(w) ==
    /\ At(w, "sleep")
    /\ \/ /\ sleeping[w] = 0
          /\ sleeping' = [sleeping EXCEPT ![w] = NewId]
          /\ wakers' = Append(wakers, Entry(NewId, w))
          /\ freeIds' = IF freeIds = <<>> THEN <<>> ELSE SubSeq(freeIds, 1, Len(freeIds) - 1)
          /\ count' = count + 1
          /\ notified' = IsNotified(count', wakers')
          /\ wpc' = [wpc EXCEPT ![w] = "search"]
       \/ /\ sleeping[w] # 0 /\ Listed(sleeping[w])
          /\ wpc' = [wpc EXCEPT ![w] = "parked"]
          /\ UNCHANGED sleepVars
       \/ /\ sleeping[w] # 0 /\ ~Listed(sleeping[w])
          /\ wakers' = Append(wakers, Entry(sleeping[w], w))
          /\ notified' = IsNotified(count, wakers')
          /\ wpc' = [wpc EXCEPT ![w] = "search"]
          /\ UNCHANGED <<count, freeIds, sleeping>>
    /\ UNCHANGED <<queue, local, cursor, task, permit, tstate, spc>>

\* The thread is unparked and polls again.
Unpark(w) ==
    /\ At(w, "parked") /\ permit[w]
    /\ permit' = [permit EXCEPT ![w] = FALSE]
    /\ wpc' = [wpc EXCEPT ![w] = "search"]
    /\ UNCHANGED <<queue, local, cursor, sleepVars, task, tstate, spc>>

\* Sleepers::remove(): the id is free again, and the waker, if it is still in
\* the list, is taken off it.
Remove(id) ==
    /\ count' = count - 1
    /\ freeIds' = Append(freeIds, id)
    /\ LET mine == {i \in 1..Len(wakers) : wakers[i].id = id}
       IN  wakers' = IF mine = {} THEN wakers
                     ELSE Without(wakers, CHOOSE i \in mine : \A j \in mine : j <= i)

\* Ticker::wake(), and the runnable starts to run.
Wake(w) ==
    /\ At(w, "found")
    /\ \/ sleeping[w] = 0 /\ UNCHANGED sleepVars
       \/ /\ sleeping[w] # 0
          /\ sleeping' = [sleeping EXCEPT ![w] = 0]
          /\ Remove(sleeping[w])
          /\ notified' = IsNotified(count', wakers')
    /\ wpc' = [wpc EXCEPT ![w] = "run"]
    /\ tstate' = [tstate EXCEPT ![task[w]] = "running"]
    /\ UNCHANGED <<queue, local, cursor, task, permit, spc>>

\* The task wakes itself: yield_now() at the end of the block's main loop.
Yield(w) ==
    /\ At(w, "run") /\ tstate[task[w]] = "running"
    /\ tstate' = [tstate EXCEPT ![task[w]] = "rewoken"]
    /\ UNCHANGED <<queue, local, cursor, sleepVars, wpc, task, permit, spc>>

\* The poll returns Pending; a task that was woken meanwhile is scheduled again.
Return(w) ==
    /\ At(w, "run")
    /\ \/ /\ tstate[task[w]] = "running"
          /\ tstate' = [tstate EXCEPT ![task[w]] = "idle"]
          /\ UNCHANGED <<queue, local, spc>>
       \/ /\ tstate[task[w]] = "rewoken"
          /\ Schedule(w, task[w])
    /\ wpc' = [wpc EXCEPT ![w] = "search"]
    /\ task' = [task EXCEPT ![w] = NoTask]
    /\ UNCHANGED <<cursor, sleepVars, permit>>

WorkerStep(w) == Search(w) \/ Sleep(w) \/ Unpark(w) \/ Wake(w) \/ Return(w)

-----------------------------------------------------------------------------
Next == \/ \E a \in Agents : Scheduling(a)
        \/ \E a \in Threads, t \in Tasks : ThreadWake(a, t)
        \/ \E w \in Workers : WorkerStep(w) \/ Yield(w)

Spec == Init /\ [][Next]_vars

\* Threads that run make progress; nobody has to wake a task.
FairSpec == /\ Spec
            /\ \A a \in Agents : WF_vars(Scheduling(a))
            /\ \A w \in Workers : WF_vars(WorkerStep(w))

-----------------------------------------------------------------------------
(* Properties.                                                             *)

\* Types: a runnable is only in a slot of its own worker, ids and counts stay in range.
TypeOK ==
    /\ queue \in Seq(Tasks) /\ notified \in BOOLEAN
    /\ \A w \in Workers : local[w] \subseteq {t \in Tasks : Home[t] = w}
    /\ count \in 0..W /\ sleeping \in [Workers -> 0..W]
    /\ wpc \in [Workers -> {"search", "sleep", "parked", "found", "run"}]
    /\ task \in [Workers -> Tasks \cup {NoTask}] /\ permit \in [Workers -> BOOLEAN]
    /\ tstate \in [Tasks -> {"idle", "scheduled", "running", "rewoken"}]

\* The list of sleepers is consistent whatever remove(), update() and the two
\* notify functions did to it: it counts the sleeping workers, their ids are
\* distinct and never among the reclaimed ones, and a waker belongs to the
\* worker that sleeps under its id, which is listed once.
SleepersConsistent ==
    LET asleep == {w \in Workers : sleeping[w] # 0}
    IN  /\ count = Cardinality(asleep)
        /\ \A w \in asleep : \A v \in asleep : sleeping[w] = sleeping[v] => w = v
        /\ \A w \in asleep : \A i \in 1..Len(freeIds) : freeIds[i] # sleeping[w]
        /\ \A i \in 1..Len(wakers) : sleeping[wakers[i].worker] = wakers[i].id /\ wakers[i].id # 0
        /\ \A i \in 1..Len(wakers) : \A j \in 1..Len(wakers) : wakers[i].worker = wakers[j].worker => i = j

\* A task is in a queue, or in the hands of one worker, exactly if it must be.
TasksConserved ==
    \A t \in Tasks :
        LET inQueue == \E i \in 1..Len(queue) : queue[i] = t
            held(w) == task[w] = t
        IN  /\ tstate[t] = "scheduled" <=> \/ inQueue \/ (\E w \in Workers : t \in local[w])
                                           \/ \E w \in Workers : held(w) /\ wpc[w] = "found"
            /\ Cardinality({w \in Workers : held(w)}) <= 1

Parked(w) == wpc[w] = "parked" /\ ~permit[w]

\* Worker w's wake-up is on its way.
Coming(w) == \E a \in Agents : \/ spc[a].pc = "wake" /\ spc[a].worker = w
                               \/ spc[a].pc = "notify" /\ Home[spc[a].task] = w

\* No wake-up is lost between the queue and the sleepers: a block that is ready
\* never waits for a worker that has parked and that nobody will wake.
LocalNotForgotten == \A w \in Workers : local[w] # {} /\ Parked(w) => Coming(w)

\* A ready global task never waits while all workers have parked for good.
GlobalNotForgotten ==
    queue # <<>> /\ (\A w \in Workers : Parked(w)) =>
        \E a \in Agents : spc[a].pc # "none"

\* Every block that is ready is run: the round-robin search is fair.
BlocksRun == \A t \in Tasks : Home[t] # 0 => (tstate[t] = "scheduled" ~> tstate[t] # "scheduled")

\* Every task in the global queue is run, even while blocks keep their workers
\* busy ("Notify another ticker now to pick up where this ticker left off").
GlobalTasksRun == \A t \in Tasks : Home[t] = 0 => (tstate[t] = "scheduled" ~> tstate[t] # "scheduled")

\* Only blocks that never stop running can keep a global task waiting: if the
\* blocks come to rest, every task in the global queue is run, whichever
\* worker was woken for it and whatever it did first.
GlobalTasksRunAtRest == GlobalTasksRun \/ []<>(\E w \in Workers : wpc[w] = "run" /\ Home[task[w]] # 0)
=============================================================================
