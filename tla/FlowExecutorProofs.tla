------------------------- MODULE FlowExecutorProofs -------------------------
(***************************************************************************)
(* Safety of the executor, for every number of workers, tasks and threads  *)
(* and every assignment of blocks to workers.  The inductive invariant has *)
(* one part for each thing the code keeps: the types, the list of          *)
(* sleepers, where every task is, and the two promises of a wake-up, one   *)
(* to the workers with ready blocks and one for the global queue.          *)
(*                                                                         *)
(* The last part is about the assignment itself: map_block() is fair for   *)
(* every number of blocks and workers.                                     *)
(***************************************************************************)
EXTENDS FlowExecutor, BlockMapping, FiniteSetTheorems, SequenceTheorems, TLAPS

Entries == [id : Nat \ {0}, worker : Workers]

Scheds == [pc : {"none", "notify", "pop", "wake"},
           task : Tasks \cup {NoTask}, worker : Workers \cup {0}]

\* All types, those of the auxiliary state that TypeOK leaves out included.
Types ==
    /\ queue \in Seq(Tasks)
    /\ local \in [Workers -> SUBSET Tasks]
    /\ DOMAIN cursor = Workers
    /\ notified \in BOOLEAN
    /\ count \in Nat
    /\ wakers \in Seq(Entries)
    /\ freeIds \in Seq(Nat \ {0})
    /\ sleeping \in [Workers -> Nat]
    /\ wpc \in [Workers -> {"search", "sleep", "parked", "found", "run"}]
    /\ task \in [Workers -> Tasks \cup {NoTask}]
    /\ permit \in [Workers -> BOOLEAN]
    /\ tstate \in [Tasks -> {"idle", "scheduled", "running", "rewoken"}]
    /\ spc \in [Agents -> Scheds]
    /\ \A a \in Agents : spc[a].pc = "notify" => spc[a].task \in Tasks
    /\ \A a \in Agents : spc[a].pc = "wake" => spc[a].worker \in Workers

Asleep == {w \in Workers : sleeping[w] # 0}

\* The ids given out are those up to count + Len(freeIds), of which freeIds
\* holds the ones that are free, each once.
IdsInv ==
    /\ count = Cardinality(Asleep)
    /\ count + Len(freeIds) <= W
    /\ \A w \in Workers : sleeping[w] <= count + Len(freeIds)
    /\ \A i \in 1..Len(freeIds) : freeIds[i] <= count + Len(freeIds)
    /\ \A i, j \in 1..Len(freeIds) : freeIds[i] = freeIds[j] => i = j
    /\ \A w, v \in Workers : sleeping[w] # 0 /\ sleeping[w] = sleeping[v] => w = v
    /\ \A w \in Workers : \A i \in 1..Len(freeIds) : freeIds[i] # sleeping[w]

\* A waker belongs to the worker that sleeps under its id, which has no other.
ListInv ==
    /\ \A i \in 1..Len(wakers) : sleeping[wakers[i].worker] = wakers[i].id
    /\ \A i, j \in 1..Len(wakers) : wakers[i].worker = wakers[j].worker => i = j

\* A task is in the global queue, in a slot of its worker, or held by a worker,
\* and never in two of them; its state says which.
TasksInv ==
    /\ \A i \in 1..Len(queue) : Home[queue[i]] = 0 /\ tstate[queue[i]] = "scheduled"
    /\ \A i, j \in 1..Len(queue) : queue[i] = queue[j] => i = j
    /\ \A w \in Workers : \A t \in local[w] : Home[t] = w /\ tstate[t] = "scheduled"
    /\ \A w \in Workers : task[w] # NoTask <=> wpc[w] \in {"found", "run"}
    /\ \A w \in Workers : wpc[w] = "found" =>
         /\ tstate[task[w]] = "scheduled"
         /\ \A i \in 1..Len(queue) : queue[i] # task[w]
         /\ \A v \in Workers : task[w] \notin local[v]
    /\ \A w \in Workers : wpc[w] = "run" => tstate[task[w]] \in {"running", "rewoken"}
    /\ \A w, v \in Workers : task[w] # NoTask /\ task[w] = task[v] => w = v
    /\ \A t \in Tasks : tstate[t] = "scheduled" =>
         \/ \E i \in 1..Len(queue) : queue[i] = t
         \/ \E w \in Workers : t \in local[w]
         \/ \E w \in Workers : task[w] = t /\ wpc[w] = "found"

InList(ws, w) == \E i \in 1..Len(ws) : ws[i].worker = w

NotifyPending(sp, w) == \E a \in Agents : sp[a].pc = "notify" /\ Home[sp[a].task] = w
WakePending(sp, w) == \E a \in Agents : sp[a].pc = "wake" /\ sp[a].worker = w

\* Whoever takes a parked worker off the list wakes it; and a worker that has
\* found nothing to do and is still on the list has not missed a block that
\* became ready in the meantime.
WakeInv ==
    /\ \A w \in Workers : wpc[w] = "parked" =>
         InList(wakers, w) \/ permit[w] \/ WakePending(spc, w)
    /\ \A w \in Workers : wpc[w] = "sleep" /\ local[w] # {} =>
         ~InList(wakers, w) \/ NotifyPending(spc, w)
    /\ \A w \in Workers : wpc[w] = "parked" /\ local[w] # {} =>
         permit[w] \/ NotifyPending(spc, w) \/ WakePending(spc, w)

\* A worker that will not look at the global queue again before it is woken.
Settled(w) == wpc[w] \in {"sleep", "parked"} /\ ~permit[w] /\ InList(wakers, w)

\* The flag `notified` is no lie: somebody is off the list or about to be taken
\* off it.  And a task in the global queue has somebody who will look there.
GlobalInv ==
    /\ notified => \/ \E a \in Agents : spc[a].pc = "pop"
                   \/ \E w \in Workers : ~InList(wakers, w)
    /\ queue # <<>> => \/ NotifyPending(spc, 0)
                       \/ \E a \in Agents : spc[a].pc \in {"pop", "wake"}
                       \/ \E w \in Workers : ~Settled(w)

IndInv == Types /\ IdsInv /\ ListInv /\ TasksInv /\ WakeInv /\ GlobalInv

-----------------------------------------------------------------------------
(* Sequences                                                               *)

\* r is s without its element i.
Removed(r, s, i) ==
    /\ Len(r) = Len(s) - 1
    /\ \A k \in 1..Len(r) : r[k] = IF k < i THEN s[k] ELSE s[k + 1]

\* Without(s, i) is s without its element i (Vec::remove).
LEMMA WithoutRemoves ==
  ASSUME NEW S, NEW s \in Seq(S), NEW i \in 1..Len(s)
  PROVE  Without(s, i) \in Seq(S) /\ Removed(Without(s, i), s, i)
<1> DEFINE f == SubSeq(s, 1, i - 1)
           b == SubSeq(s, i + 1, Len(s))
<1>1. f \in Seq(S) /\ Len(f) = i - 1 /\ \A k \in 1..i - 1 : f[k] = s[k]
  BY SMT
<1>2. b \in Seq(S) /\ Len(b) = Len(s) - i /\ \A k \in 1..Len(s) - i : b[k] = s[i + k]
  BY SMT
<1> HIDE DEF f, b
<1>3. f \o b \in Seq(S) /\ Len(f \o b) = Len(s) - 1
  BY <1>1, <1>2, SMT
<1>4. ASSUME NEW k \in 1..Len(s) - 1
      PROVE  (f \o b)[k] = IF k < i THEN s[k] ELSE s[k + 1]
  <2>1. (f \o b)[k] = IF k <= Len(f) THEN f[k] ELSE b[k - Len(f)]
    BY <1>1, <1>2, SMT
  <2>2. CASE k < i
    BY <1>1, <2>1, <2>2, SMT
  <2>3. CASE ~(k < i)
    <3>1. k - (i - 1) \in 1..Len(s) - i /\ i + (k - (i - 1)) = k + 1
      BY <2>3, SMT
    <3>2. b[k - (i - 1)] = s[i + (k - (i - 1))]
      BY <1>2, <3>1
    <3> QED
      BY <1>1, <2>1, <2>3, <3>1, <3>2, SMT
  <2> QED
    BY <2>2, <2>3
<1> QED
  BY <1>3, <1>4 DEF Without, Removed, f, b

\* The front of s is s without its last element (Vec::pop).
LEMMA FrontRemoves ==
  ASSUME NEW S, NEW s \in Seq(S), s # <<>>
  PROVE  /\ Len(s) \in 1..Len(s)
         /\ SubSeq(s, 1, Len(s) - 1) \in Seq(S)
         /\ Removed(SubSeq(s, 1, Len(s) - 1), s, Len(s))
<1>1. Len(s) \in Nat \ {0}
  BY EmptySeq, SMT
<1> DEFINE front(i) == SubSeq(s, 1, i - 1)
           f == front(Len(s))
<1>2. \A i \in 1..Len(s) :
        /\ front(i) \in Seq(S) /\ Len(front(i)) = i - 1
        /\ \A k \in 1..i - 1 : front(i)[k] = s[k]
  BY SMT
<1> HIDE DEF front
<1>4. f \in Seq(S) /\ Len(f) = Len(s) - 1 /\ \A k \in 1..Len(s) - 1 : f[k] = s[k]
  BY <1>1, <1>2, SMT
<1> HIDE DEF f
<1>3. Len(s) \in 1..Len(s) /\ Removed(f, s, Len(s))
  BY <1>1, <1>4, SMT DEF Removed
<1> QED
  BY <1>3, <1>4 DEF f, front

\* What Append does, element by element.
LEMMA AppendAdds ==
  ASSUME NEW S, NEW s \in Seq(S), NEW e \in S
  PROVE  /\ Append(s, e) \in Seq(S)
         /\ Len(Append(s, e)) = Len(s) + 1
         /\ \A k \in 1..Len(s) : Append(s, e)[k] = s[k]
         /\ Append(s, e)[Len(s) + 1] = e
BY SMT

-----------------------------------------------------------------------------
(* The list of sleepers                                                    *)

\* There are W workers.
LEMMA WorkersFinite == IsFiniteSet(Workers) /\ Cardinality(Workers) = W
BY ExecutorAssumption, FS_Interval, SMT DEF Workers

\* Taking one waker off the list concerns one worker.
LEMMA ListRemoved ==
  ASSUME Types, ListInv, NEW i \in 1..Len(wakers),
         wakers' \in Seq(Entries), Removed(wakers', wakers, i),
         \A v \in Workers : v # wakers[i].worker => sleeping'[v] = sleeping[v]
  PROVE  /\ ListInv'
         /\ wakers[i].worker \in Workers
         /\ \A w \in Workers : InList(wakers', w) <=> InList(wakers, w) /\ w # wakers[i].worker
<1>1. Len(wakers) \in Nat /\ Len(wakers') = Len(wakers) - 1 /\ wakers[i] \in Entries
  BY SMT DEF Types, Removed
<1>2. \A k \in 1..Len(wakers') : wakers'[k] = wakers[IF k < i THEN k ELSE k + 1]
  BY <1>1, SMT DEF Removed
<1>3. \A k \in 1..Len(wakers') : (IF k < i THEN k ELSE k + 1) \in 1..Len(wakers) \ {i}
  BY <1>1, SMT
<1>4. \A k \in 1..Len(wakers) : k # i =>
        \E j \in 1..Len(wakers') : wakers'[j] = wakers[k]
  <2> SUFFICES ASSUME NEW k \in 1..Len(wakers), k # i
               PROVE  \E j \in 1..Len(wakers') : wakers'[j] = wakers[k]
    OBVIOUS
  <2> DEFINE j == IF k < i THEN k ELSE k - 1
  <2>1. j \in 1..Len(wakers') /\ (IF j < i THEN j ELSE j + 1) = k
    BY <1>1, SMT
  <2> QED
    BY <1>2, <2>1
<1> DEFINE src(k) == IF k < i THEN k ELSE k + 1
<1>5. /\ \A k \in 1..Len(wakers') : /\ wakers'[k] = wakers[src(k)]
                                    /\ src(k) \in 1..Len(wakers) /\ src(k) # i
      /\ \A k, j \in 1..Len(wakers') : src(k) = src(j) => k = j
  BY <1>1, <1>2, <1>3, SMT
<1> HIDE DEF src
<1>6. \A k \in 1..Len(wakers) : wakers[k].worker \in Workers
  <2>1. \A k \in 1..Len(wakers) : wakers[k] \in Entries
    BY SMT DEF Types
  <2> QED
    BY <2>1, Zenon DEF Entries
<1>7. \A k \in 1..Len(wakers) : k # i =>
        wakers[k].worker # wakers[i].worker /\ sleeping'[wakers[k].worker] = wakers[k].id
  BY <1>6, Zenon DEF ListInv
<1>8. ListInv'
  <2>1. \A k \in 1..Len(wakers') : sleeping'[wakers'[k].worker] = wakers'[k].id
    <3> SUFFICES ASSUME NEW k \in 1..Len(wakers')
                 PROVE  sleeping'[wakers'[k].worker] = wakers'[k].id
      OBVIOUS
    <3>1. wakers'[k] = wakers[src(k)] /\ src(k) \in 1..Len(wakers) /\ src(k) # i
      BY <1>5
    <3> QED
      BY <1>7, <3>1
  <2>2. \A k, j \in 1..Len(wakers') : wakers'[k].worker = wakers'[j].worker => k = j
    <3> SUFFICES ASSUME NEW k \in 1..Len(wakers'), NEW j \in 1..Len(wakers'),
                        wakers'[k].worker = wakers'[j].worker
                 PROVE  k = j
      OBVIOUS
    <3>1. wakers[src(k)].worker = wakers[src(j)].worker
      BY <1>5
    <3>2. src(k) = src(j)
      BY <1>5, <3>1, Zenon DEF ListInv
    <3> QED
      BY <1>5, <3>2
  <2> QED
    BY <2>1, <2>2 DEF ListInv
<1>9. \A w \in Workers : InList(wakers', w) => InList(wakers, w) /\ w # wakers[i].worker
  BY <1>5, <1>7, Zenon DEF InList
<1>10. \A w \in Workers : InList(wakers, w) /\ w # wakers[i].worker => InList(wakers', w)
  BY <1>4, SMT DEF InList
<1> QED
  BY <1>1, <1>9, <1>10, <1>8 DEF Entries

\* Putting the waker of worker w on the list, which has none of it.
LEMMA ListAppended ==
  ASSUME Types, ListInv, NEW w \in Workers, NEW id \in Nat \ {0}, ~InList(wakers, w),
         wakers' = Append(wakers, Entry(id, w)),
         sleeping' = [sleeping EXCEPT ![w] = id]
  PROVE  /\ ListInv'
         /\ wakers' \in Seq(Entries)
         /\ Len(wakers') = Len(wakers) + 1
         /\ \A v \in Workers : InList(wakers', v) <=> InList(wakers, v) \/ v = w
<1>1. Entry(id, w) \in Entries
  BY DEF Entry, Entries
<1>2. /\ wakers' \in Seq(Entries) /\ Len(wakers') = Len(wakers) + 1
      /\ \A k \in 1..Len(wakers) : wakers'[k] = wakers[k]
      /\ wakers'[Len(wakers) + 1] = Entry(id, w)
  <2>1. wakers \in Seq(Entries)
    BY DEF Types
  <2> DEFINE e == Entry(id, w)
  <2> HIDE DEF e
  <2>2. /\ Append(wakers, e) \in Seq(Entries)
        /\ Len(Append(wakers, e)) = Len(wakers) + 1
        /\ \A k \in 1..Len(wakers) : Append(wakers, e)[k] = wakers[k]
        /\ Append(wakers, e)[Len(wakers) + 1] = e
    BY <1>1, <2>1, AppendAdds DEF e
  <2>3. wakers' = Append(wakers, e)
    BY DEF e
  <2> QED
    BY <2>2, <2>3 DEF e
<1>3. Len(wakers) \in Nat /\ \A k \in 1..Len(wakers) : wakers[k] \in Entries
  BY SMT DEF Types
<1>4. Entry(id, w).id = id /\ Entry(id, w).worker = w
  BY DEF Entry
<1>5. \A k \in 1..Len(wakers) : wakers[k].worker \in Workers /\ wakers[k].worker # w
  BY <1>3, SMT DEF Entries, InList
<1>6. ListInv'
  BY <1>2, <1>3, <1>4, <1>5, SMT DEF ListInv, Types
<1>7. \A v \in Workers : InList(wakers', v) <=> InList(wakers, v) \/ v = w
  BY <1>2, <1>3, <1>4, <1>5, SMT DEF InList
<1> QED
  BY <1>2, <1>6, <1>7

\* If every worker is on the list, the list is as long as count says, and
\* nobody is notified.
LEMMA FullList ==
  ASSUME NEW ws \in Seq(Entries), NEW sl \in [Workers -> Nat],
         \A i \in 1..Len(ws) : sl[ws[i].worker] = ws[i].id,
         \A i, j \in 1..Len(ws) : ws[i].worker = ws[j].worker => i = j,
         \A w \in Workers : InList(ws, w)
  PROVE  Len(ws) = Cardinality({w \in Workers : sl[w] # 0}) /\ Len(ws) = W
<1>1. IsFiniteSet(Workers) /\ Cardinality(Workers) = W
  BY WorkersFinite
<1>2. {w \in Workers : sl[w] # 0} = Workers
  <2> SUFFICES ASSUME NEW w \in Workers PROVE sl[w] # 0
    OBVIOUS
  <2>1. PICK i \in 1..Len(ws) : ws[i].worker = w
    BY DEF InList
  <2>2. ws[i] \in Entries
    BY SMT
  <2>3. ws[i].id # 0
    BY <2>2, Zenon DEF Entries
  <2>4. sl[ws[i].worker] = ws[i].id
    OBVIOUS
  <2> QED
    BY <2>1, <2>3, <2>4, Zenon
<1>4. Len(ws) \in Nat /\ \A i \in 1..Len(ws) : ws[i].worker \in Workers
  <2>1. Len(ws) \in Nat /\ \A i \in 1..Len(ws) : ws[i] \in Entries
    BY SMT
  <2> QED
    BY <2>1 DEF Entries
<1>5. IsFiniteSet(1..Len(ws)) /\ Cardinality(1..Len(ws)) = Len(ws)
  <2>1. \A n \in Nat : IsFiniteSet(1..n) /\ Cardinality(1..n) = n
    BY FS_Interval, SMT
  <2> QED
    BY <1>4, <2>1, Zenon
<1> DEFINE f == [i \in 1..Len(ws) |-> ws[i].worker]
<1>6. f \in Bijection(1..Len(ws), Workers)
  <2>1. f \in [1..Len(ws) -> Workers]
    BY <1>4
  <2>2. \A i, j \in 1..Len(ws) : f[i] = f[j] => i = j
    OBVIOUS
  <2>3. \A w \in Workers : \E i \in 1..Len(ws) : f[i] = w
    BY DEF InList
  <2> HIDE DEF f
  <2> QED
    BY <2>1, <2>2, <2>3, Zenon DEF Bijection, Injection, Surjection, IsInjective
<1>7. ExistsBijection(1..Len(ws), Workers)
  BY <1>6, Zenon DEF ExistsBijection
<1>8. Cardinality(1..Len(ws)) = Cardinality(Workers)
  BY <1>1, <1>5, <1>7, FS_Bijection, Zenon
<1> QED
  BY <1>1, <1>2, <1>5, <1>8

-----------------------------------------------------------------------------
(* Initial states                                                          *)

\* The executor starts with nothing to do and nobody asleep.
LEMMA InitInd == Init => IndInv
<1> SUFFICES ASSUME Init PROVE IndInv
  OBVIOUS
<1>1. Ready \in Scheds /\ Ready.pc = "none"
  BY DEF Ready, Scheds
<1>2. Types
  BY <1>1, SMT DEF Init, Types
<1>3. IdsInv
  <2>1. Asleep = {}
    BY SMT DEF Init, Asleep
  <2> QED
    BY <2>1, FS_EmptySet, ExecutorAssumption, SMT DEF Init, IdsInv
<1>4. ListInv
  BY SMT DEF Init, ListInv
<1>5. TasksInv
  BY SMT DEF Init, TasksInv, NoTask
<1>6. WakeInv
  BY SMT DEF Init, WakeInv
<1>7. GlobalInv
  <2>1. 1 \in Workers /\ ~InList(wakers, 1)
    BY ExecutorAssumption, SMT DEF Init, Workers, InList
  <2> QED
    BY <2>1, SMT DEF Init, GlobalInv
<1> QED
  BY <1>2, <1>3, <1>4, <1>5, <1>6, <1>7 DEF IndInv

-----------------------------------------------------------------------------
(* Scheduling                                                              *)

\* The list of sleepers is as consistent as before if nobody touches it.
LEMMA SleepersKept ==
  ASSUME UNCHANGED <<count, wakers, freeIds, sleeping>>
  PROVE  /\ IdsInv => IdsInv'
         /\ ListInv => ListInv'
         /\ \A w : InList(wakers', w) <=> InList(wakers, w)
BY DEF IdsInv, ListInv, InList, Asleep

\* A task that is put into its queue has somebody who tells its workers.
LEMMA ScheduleWakes ==
  ASSUME IndInv, NEW a \in Agents, NEW t \in Tasks, spc[a].pc = "none",
         Schedule(a, t), UNCHANGED <<sleepVars, permit>>,
         \/ UNCHANGED wpc
         \/ \E w \in Workers : wpc' = [wpc EXCEPT ![w] = "search"]
  PROVE  WakeInv' /\ GlobalInv'
<1>1. Types /\ WakeInv /\ GlobalInv
  BY DEF IndInv
<1>2. \A w : InList(wakers', w) <=> InList(wakers, w)
  BY SleepersKept DEF sleepVars
<1> DEFINE new == [pc |-> "notify", task |-> t, worker |-> 0]
<1>3. spc' = [spc EXCEPT ![a] = new] /\ new.pc = "notify" /\ new.task = t
  BY DEF Schedule
<1> HIDE DEF new
<1>4. /\ spc'[a] = new
      /\ \A b \in Agents : b # a => spc'[b] = spc[b]
  BY <1>1, <1>3 DEF Types
<1>5. \A w : /\ NotifyPending(spc, w) => NotifyPending(spc', w)
             /\ WakePending(spc, w) => WakePending(spc', w)
  BY <1>4, SMT DEF NotifyPending, WakePending
<1>6. NotifyPending(spc', Home[t])
  BY <1>3, <1>4, SMT DEF NotifyPending
<1>7. \A w \in Workers : /\ wpc'[w] \in {"sleep", "parked"} => wpc[w] = wpc'[w]
                         /\ permit'[w] = permit[w]
  BY <1>1, SMT DEF Types
<1>8. \A w \in Workers : Home[t] # w => local'[w] = local[w]
  BY <1>1, SMT DEF Schedule, Types
<1>9. WakeInv'
  BY <1>1, <1>2, <1>5, <1>6, <1>7, <1>8, SMT DEF WakeInv
<1>10. \A b \in Agents : spc[b].pc \in {"pop", "wake"} => spc'[b] = spc[b]
  BY <1>4, SMT
<1>11. \A w \in Workers : ~Settled(w) => ~Settled(w)'
  BY <1>2, <1>7, SMT DEF Settled
<1>12. GlobalInv'
  <2>1. CASE Home[t] = 0
    BY <1>1, <1>2, <1>6, <1>10, <2>1, SMT DEF GlobalInv, sleepVars
  <2>2. CASE Home[t] # 0
    <3>1. queue' = queue
      BY <2>2 DEF Schedule
    <3> QED
      BY <1>1, <1>2, <1>5, <1>10, <1>11, <3>1, SMT DEF GlobalInv, sleepVars
  <2> QED
    BY <2>1, <2>2
<1> QED
  BY <1>9, <1>12

\* What Schedule does to the types.
LEMMA ScheduleTypes ==
  ASSUME Types, NEW a \in Agents, NEW t \in Tasks, Schedule(a, t)
  PROVE  /\ queue' \in Seq(Tasks)
         /\ local' \in [Workers -> SUBSET Tasks]
         /\ tstate' \in [Tasks -> {"idle", "scheduled", "running", "rewoken"}]
         /\ spc' \in [Agents -> Scheds]
         /\ \A b \in Agents : spc'[b].pc = "notify" => spc'[b].task \in Tasks
         /\ \A b \in Agents : spc'[b].pc = "wake" => spc'[b].worker \in Workers
<1> DEFINE new == [pc |-> "notify", task |-> t, worker |-> 0]
<1>1. new \in Scheds /\ new.pc = "notify" /\ new.task = t
  BY DEF Scheds
<1>2. spc' = [spc EXCEPT ![a] = new]
  BY DEF Schedule
<1> HIDE DEF new
<1>3. Home[t] \in Workers \cup {0}
  BY ExecutorAssumption
<1>4. queue' \in Seq(Tasks)
  <2>1. queue \in Seq(Tasks) /\ Append(queue, t) \in Seq(Tasks)
    BY SMT DEF Types
  <2> QED
    BY <2>1, Zenon DEF Schedule
<1>5. local' \in [Workers -> SUBSET Tasks]
  <2>1. local \in [Workers -> SUBSET Tasks]
    BY DEF Types
  <2>2. CASE Home[t] = 0
    BY <2>1, <2>2 DEF Schedule
  <2>3. CASE Home[t] # 0
    <3>1. Home[t] \in Workers /\ local[Home[t]] \cup {t} \in SUBSET Tasks
      BY <1>3, <2>1, <2>3
    <3>2. local' = [local EXCEPT ![Home[t]] = local[Home[t]] \cup {t}]
      BY <2>3 DEF Schedule
    <3> QED
      BY <2>1, <3>1, <3>2, Zenon
  <2> QED
    BY <2>2, <2>3
<1>6. tstate' \in [Tasks -> {"idle", "scheduled", "running", "rewoken"}]
  BY DEF Types, Schedule
<1>7. /\ spc' \in [Agents -> Scheds]
      /\ \A b \in Agents : spc'[b].pc = "notify" => spc'[b].task \in Tasks
      /\ \A b \in Agents : spc'[b].pc = "wake" => spc'[b].worker \in Workers
  BY <1>1, <1>2, SMT DEF Types
<1> QED
  BY <1>4, <1>5, <1>6, <1>7

\* A task that nobody holds and that is put into its queue is there once.
LEMMA ScheduleTasks ==
  ASSUME Types, TasksInv, NEW a \in Agents, NEW t \in Tasks, Schedule(a, t),
         tstate[t] # "scheduled",
         \/ /\ tstate[t] = "idle" /\ UNCHANGED <<wpc, task>>
         \/ \E w \in Workers :
              /\ task[w] = t /\ wpc[w] = "run"
              /\ wpc' = [wpc EXCEPT ![w] = "search"]
              /\ task' = [task EXCEPT ![w] = NoTask]
  PROVE  TasksInv'
<1>1. /\ \A i \in 1..Len(queue) : queue[i] # t
      /\ \A w \in Workers : t \notin local[w]
      /\ \A w \in Workers : wpc[w] = "found" => task[w] # t
  BY DEF TasksInv
<1>2. /\ tstate'[t] = "scheduled"
      /\ \A u \in Tasks : u # t => tstate'[u] = tstate[u]
  BY DEF Types, Schedule
<1>3. \A w \in Workers :
        /\ task'[w] # NoTask => task'[w] = task[w] /\ wpc'[w] = wpc[w] /\ task[w] # t
        /\ task'[w] = NoTask => wpc'[w] \notin {"found", "run"}
        /\ wpc[w] = "found" => wpc'[w] = "found" /\ task'[w] = task[w]
        /\ task[w] \in Tasks \cup {NoTask}
        /\ task'[w] # NoTask => wpc'[w] \in {"found", "run"}
  <2>1. CASE tstate[t] = "idle" /\ UNCHANGED <<wpc, task>>
    BY <1>1, <2>1, SMT DEF TasksInv, Types, NoTask
  <2>2. CASE \E w \in Workers :
              /\ task[w] = t /\ wpc[w] = "run"
              /\ wpc' = [wpc EXCEPT ![w] = "search"]
              /\ task' = [task EXCEPT ![w] = NoTask]
    <3>1. PICK w \in Workers : /\ task[w] = t /\ wpc[w] = "run"
                               /\ wpc' = [wpc EXCEPT ![w] = "search"]
                               /\ task' = [task EXCEPT ![w] = NoTask]
      BY <2>2
    <3>2. \A v \in Workers : v # w => task[v] # t
      BY <3>1, SMT DEF TasksInv, NoTask, Tasks
    <3> QED
      BY <3>1, <3>2, SMT DEF TasksInv, Types, NoTask
  <2> QED
    BY <2>1, <2>2
<1>4. \A w \in Workers : task'[w] # NoTask => task'[w] \in Tasks
  BY <1>3, SMT
<1>5. CASE Home[t] = 0
  <2>1. /\ Len(queue') = Len(queue) + 1 /\ Len(queue) \in Nat
        /\ \A k \in 1..Len(queue) : queue'[k] = queue[k] /\ queue[k] \in Tasks
        /\ queue'[Len(queue) + 1] = t
        /\ local' = local
    BY <1>5, SMT DEF Types, Schedule
  <2>2. /\ \A i \in 1..Len(queue') : Home[queue'[i]] = 0 /\ tstate'[queue'[i]] = "scheduled"
        /\ \A i, j \in 1..Len(queue') : queue'[i] = queue'[j] => i = j
    BY <1>1, <1>2, <1>5, <2>1, SMT DEF TasksInv
  <2>3. \A w \in Workers : \A u \in local'[w] : Home[u] = w /\ tstate'[u] = "scheduled"
    BY <1>1, <1>2, <2>1, SMT DEF TasksInv, Types
  <2>4. \A w \in Workers : wpc'[w] = "found" =>
         /\ tstate'[task'[w]] = "scheduled"
         /\ \A i \in 1..Len(queue') : queue'[i] # task'[w]
         /\ \A v \in Workers : task'[w] \notin local'[v]
    BY <1>2, <1>3, <1>4, <2>1, SMT DEF TasksInv
  <2>5. \A u \in Tasks : tstate'[u] = "scheduled" =>
         \/ \E i \in 1..Len(queue') : queue'[i] = u
         \/ \E w \in Workers : u \in local'[w]
         \/ \E w \in Workers : task'[w] = u /\ wpc'[w] = "found"
    BY <1>2, <1>3, <2>1, SMT DEF TasksInv
  <2> QED
    BY <1>2, <1>3, <1>4, <2>2, <2>3, <2>4, <2>5, SMT DEF TasksInv
<1>6. CASE Home[t] # 0
  <2>1. /\ queue' = queue /\ Home[t] \in Workers
        /\ \A w \in Workers : \A u :
             u \in local'[w] <=> u \in local[w] \/ (w = Home[t] /\ u = t)
    <3>1. Home[t] \in Workers
      BY <1>6, ExecutorAssumption
    <3>2. /\ queue' = queue
          /\ local' = [local EXCEPT ![Home[t]] = @ \cup {t}]
      BY <1>6 DEF Schedule
    <3>3. local \in [Workers -> SUBSET Tasks]
      BY DEF Types
    <3> QED
      BY <3>1, <3>2, <3>3, Zenon
  <2>2. \A i \in 1..Len(queue) : queue[i] \in Tasks
    BY SMT DEF Types
  <2>3. \A w \in Workers : \A u \in local'[w] : Home[u] = w /\ tstate'[u] = "scheduled"
    <3> SUFFICES ASSUME NEW w \in Workers, NEW u \in local'[w]
                 PROVE  Home[u] = w /\ tstate'[u] = "scheduled"
      OBVIOUS
    <3>1. CASE u = t
      <4>1. w = Home[t]
        BY <1>1, <2>1, <3>1, Zenon
      <4> QED
        BY <1>2, <3>1, <4>1, Zenon
    <3>2. CASE u # t
      <4>1. u \in local[w]
        BY <2>1, <3>2, Zenon
      <4>2. u \in Tasks
        BY <4>1 DEF Types
      <4> QED
        BY <1>2, <3>2, <4>1, <4>2 DEF TasksInv
    <3> QED
      BY <3>1, <3>2
  <2>4. \A w \in Workers : wpc'[w] = "found" =>
         /\ tstate'[task'[w]] = "scheduled"
         /\ \A i \in 1..Len(queue') : queue'[i] # task'[w]
         /\ \A v \in Workers : task'[w] \notin local'[v]
    BY <1>2, <1>3, <1>4, <2>1, SMT DEF TasksInv
  <2>5. \A u \in Tasks : tstate'[u] = "scheduled" =>
         \/ \E i \in 1..Len(queue') : queue'[i] = u
         \/ \E w \in Workers : u \in local'[w]
         \/ \E w \in Workers : task'[w] = u /\ wpc'[w] = "found"
    BY <1>2, <1>3, <2>1, SMT DEF TasksInv
  <2> QED
    BY <1>1, <1>2, <1>3, <1>4, <2>1, <2>2, <2>3, <2>4, <2>5, SMT DEF TasksInv
<1> QED
  BY <1>5, <1>6

\* A task that is woken while it runs stays where it is.
LEMMA RewokenTasks ==
  ASSUME TasksInv, NEW t \in Tasks, UNCHANGED <<queue, local, wpc, task>>,
         local \in [Workers -> SUBSET Tasks],
         \A i \in 1..Len(queue) : queue[i] \in Tasks,
         \A w \in Workers : task[w] # NoTask => task[w] \in Tasks,
         tstate[t] = "running", tstate'[t] = "rewoken",
         \A u \in Tasks : u # t => tstate'[u] = tstate[u]
  PROVE  TasksInv'
<1>1. \A u \in Tasks : tstate'[u] = "scheduled" <=> tstate[u] = "scheduled"
  BY SMT
<1>2. \A u \in Tasks : tstate[u] \in {"running", "rewoken"}
                      => tstate'[u] \in {"running", "rewoken"}
  BY SMT
<1>3. \A w \in Workers : \A u \in local[w] : u \in Tasks
  BY SMT
<1> QED
  BY <1>1, <1>2, <1>3, SMT DEF TasksInv

\* ThreadWake: a thread schedules a task or marks it as woken while it runs.
LEMMA ThreadWakeStep ==
  ASSUME IndInv, NEW a \in Threads, NEW t \in Tasks, ThreadWake(a, t)
  PROVE  IndInv'
<1>1. Types /\ IdsInv /\ ListInv /\ TasksInv /\ WakeInv /\ GlobalInv
  BY DEF IndInv
<1>2. a \in Agents /\ spc[a].pc = "none"
  BY DEF ThreadWake, Ready, Agents
<1>3. IdsInv' /\ ListInv' /\ \A w : InList(wakers', w) <=> InList(wakers, w)
  BY <1>1, SleepersKept DEF ThreadWake, sleepVars
<1>4. CASE tstate[t] = "idle" /\ Schedule(a, t)
  <2>1. Types'
    BY <1>1, <1>2, <1>4, ScheduleTypes DEF Types, ThreadWake, sleepVars
  <2>2. TasksInv'
    BY <1>1, <1>2, <1>4, ScheduleTasks DEF ThreadWake
  <2>3. WakeInv' /\ GlobalInv'
    BY <1>2, <1>4, ScheduleWakes DEF ThreadWake
  <2> QED
    BY <1>3, <2>1, <2>2, <2>3 DEF IndInv
<1>5. CASE /\ tstate[t] = "running"
           /\ tstate' = [tstate EXCEPT ![t] = "rewoken"]
           /\ UNCHANGED <<queue, local, spc>>
  <2>1. UNCHANGED <<queue, local, spc, cursor, sleepVars, wpc, task, permit>>
    BY <1>5 DEF ThreadWake
  <2>2. Types'
    BY <1>1, <1>5, <2>1, SMT DEF Types, sleepVars
  <2>3. TasksInv'
    <3>1. /\ \A i \in 1..Len(queue) : queue[i] \in Tasks
          /\ \A w \in Workers : task[w] # NoTask => task[w] \in Tasks
      BY <1>1, SMT DEF Types
    <3>2. /\ tstate'[t] = "rewoken" /\ tstate[t] = "running"
          /\ \A u \in Tasks : u # t => tstate'[u] = tstate[u]
      BY <1>1, <1>5 DEF Types
    <3> QED
      BY <1>1, <2>1, <3>1, <3>2, RewokenTasks DEF Types
  <2>4. WakeInv' /\ GlobalInv'
    BY <1>1, <1>3, <2>1, SMT DEF WakeInv, GlobalInv, NotifyPending, WakePending,
                                 Settled, sleepVars
  <2> QED
    BY <1>3, <2>2, <2>3, <2>4 DEF IndInv
<1> QED
  BY <1>4, <1>5 DEF ThreadWake

\* Nothing happens to the tasks if their state is left alone and no worker
\* takes or gives back one.
LEMMA TasksKept ==
  ASSUME TasksInv, UNCHANGED <<queue, local, task, tstate>>,
         \A w \in Workers : wpc'[w] = wpc[w]
           \/ {wpc[w], wpc'[w]} \subseteq {"search", "sleep", "parked"}
  PROVE  TasksInv'
<1>1. \A w \in Workers : (wpc'[w] = "found" <=> wpc[w] = "found")
                       /\ (wpc'[w] = "run" <=> wpc[w] = "run")
  BY SMT
<1> QED
  BY <1>1, SMT DEF TasksInv

\* Nothing happens to the promises to the workers if, for those that are going
\* to park, the slots and the list stay as they are and no wake-up is dropped.
LEMMA WakeKept ==
  ASSUME WakeInv,
         \A w \in Workers : wpc'[w] \in {"sleep", "parked"} =>
           /\ wpc[w] = wpc'[w]
           /\ local'[w] = local[w] /\ permit'[w] = permit[w]
           /\ InList(wakers', w) <=> InList(wakers, w)
           /\ NotifyPending(spc, w) => NotifyPending(spc', w)
           /\ WakePending(spc, w) => WakePending(spc', w)
  PROVE  WakeInv'
BY SMT DEF WakeInv

\* NotifyFlag: whoever finds the flag set may rely on somebody else.
LEMMA NotifyFlagStep ==
  ASSUME IndInv, NEW a \in Agents, NotifyFlag(a)
  PROVE  IndInv'
<1>1. Types /\ IdsInv /\ ListInv /\ TasksInv /\ WakeInv /\ GlobalInv
  BY DEF IndInv
<1>2. IdsInv' /\ ListInv' /\ \A w : InList(wakers', w) <=> InList(wakers, w)
  BY <1>1, SleepersKept DEF NotifyFlag
<1>3. TasksInv'
  BY <1>1, TasksKept DEF NotifyFlag
<1>4. Ready \in Scheds /\ Ready.pc = "none"
  BY DEF Ready, Scheds
<1>5. /\ [spc[a] EXCEPT !.pc = "pop"] \in Scheds
      /\ [spc[a] EXCEPT !.pc = "pop"].pc = "pop"
  <2>1. spc[a] \in Scheds
    BY <1>1 DEF Types
  <2> QED
    BY <2>1 DEF Scheds
<1>6. /\ spc'[a] \in Scheds
      /\ IF notified THEN spc'[a].pc = "none" ELSE spc'[a].pc = "pop"
      /\ \A b \in Agents : b # a => spc'[b] = spc[b]
      /\ spc[a].pc = "notify" /\ Home[spc[a].task] = 0
      /\ spc' \in [Agents -> Scheds]
  BY <1>1, <1>4, <1>5 DEF NotifyFlag, Types
<1>7. Types'
  BY <1>1, <1>6, SMT DEF Types, NotifyFlag
<1>8. WakeInv'
  <2>1. \A w \in Workers : w # 0
    BY SMT DEF Workers
  <2>2. \A w \in Workers : /\ NotifyPending(spc, w) => NotifyPending(spc', w)
                           /\ WakePending(spc, w) => WakePending(spc', w)
    BY <1>6, <2>1, SMT DEF NotifyPending, WakePending
  <2> QED
    <3>1. UNCHANGED <<wpc, local, permit>>
      BY DEF NotifyFlag
    <3> QED
      BY <1>1, <1>2, <2>2, <3>1, WakeKept
<1>9. GlobalInv'
  <2>1. CASE notified
    <3>1. \A b \in Agents : spc[b].pc \in {"pop", "wake"} => spc'[b] = spc[b]
      BY <1>6, SMT
    <3>2. \A w \in Workers : ~InList(wakers, w) => ~InList(wakers', w) /\ ~Settled(w)'
      BY <1>2 DEF Settled
    <3> QED
      BY <1>1, <2>1, <3>1, <3>2, SMT DEF GlobalInv
  <2>2. CASE ~notified
    BY <1>6, <2>2, SMT DEF GlobalInv
  <2> QED
    BY <2>1, <2>2
<1> QED
  BY <1>2, <1>3, <1>7, <1>8, <1>9 DEF IndInv

\* Taking worker v off the list, by whoever then wakes it.
LEMMA TakeOff ==
  ASSUME IndInv, NEW a \in Agents, NEW i \in 1..Len(wakers), NEW v,
         v = wakers[i].worker,
         spc[a].pc \in {"notify", "pop"},
         spc[a].pc = "notify" => Home[spc[a].task] = v,
         wakers' \in Seq(Entries), Removed(wakers', wakers, i),
         Waking(a, v),
         UNCHANGED <<queue, local, cursor, notified, count, freeIds, sleeping,
                     wpc, task, permit, tstate>>
  PROVE  IndInv'
<1> DEFINE new == [pc |-> "wake", task |-> NoTask, worker |-> v]
<1>1. Types /\ IdsInv /\ ListInv /\ TasksInv /\ WakeInv /\ GlobalInv
  BY DEF IndInv
<1>2. /\ ListInv' /\ v \in Workers
      /\ \A w \in Workers : InList(wakers', w) <=> InList(wakers, w) /\ w # v
  BY <1>1, ListRemoved
<1>3. spc' = [spc EXCEPT ![a] = new]
  BY DEF Waking
<1>4. new \in Scheds /\ new.pc = "wake" /\ new.worker = v
  BY <1>2 DEF Scheds
<1> HIDE DEF new
<1>5. /\ spc'[a].pc = "wake" /\ spc'[a].worker = v
      /\ \A b \in Agents : b # a => spc'[b] = spc[b]
      /\ spc' \in [Agents -> Scheds]
  BY <1>1, <1>3, <1>4 DEF Types
<1>6. Types'
  <2>1. ASSUME NEW b \in Agents
        PROVE  /\ spc'[b].pc = "notify" => spc'[b].task \in Tasks
               /\ spc'[b].pc = "wake" => spc'[b].worker \in Workers
    <3>1. CASE b = a
      BY <1>2, <1>5, <3>1
    <3>2. CASE b # a
      <4>1. spc'[b] = spc[b]
        BY <1>5, <3>2
      <4> QED
        BY <1>1, <4>1, Zenon DEF Types
    <3> QED
      BY <3>1, <3>2
  <2> QED
    BY <1>1, <1>5, <2>1 DEF Types
<1>7. IdsInv'
  BY <1>1 DEF IdsInv, Asleep
<1>8. TasksInv'
  BY <1>1, TasksKept
<1>9. WakePending(spc', v)
  BY <1>5, SMT DEF WakePending
<1>10. \A w \in Workers : /\ w # v /\ NotifyPending(spc, w) => NotifyPending(spc', w)
                          /\ WakePending(spc, w) => WakePending(spc', w)
  BY <1>5, SMT DEF NotifyPending, WakePending
<1>11. WakeInv'
  <2>1. UNCHANGED <<local, wpc, permit>>
    OBVIOUS
  <2>2. \A w \in Workers :
          /\ InList(wakers', w) <=> InList(wakers, w) /\ w # v
          /\ w = v => WakePending(spc', w)
          /\ w # v /\ NotifyPending(spc, w) => NotifyPending(spc', w)
          /\ WakePending(spc, w) => WakePending(spc', w)
    BY <1>2, <1>9, <1>10, SMT
  <2> QED
    BY <1>1, <2>1, <2>2, SMT DEF WakeInv
<1>12. GlobalInv'
  BY <1>2, <1>5, SMT DEF GlobalInv
<1> QED
  BY <1>2, <1>6, <1>7, <1>8, <1>11, <1>12 DEF IndInv

\* NotifySleepers: one waker is taken, unless somebody is off the list.
LEMMA NotifySleepersStep ==
  ASSUME IndInv, NEW a \in Agents, NotifySleepers(a)
  PROVE  IndInv'
<1>1. Types /\ IdsInv /\ ListInv /\ TasksInv /\ WakeInv /\ GlobalInv
  BY DEF IndInv
<1>2. CASE Len(wakers) = count /\ wakers # <<>>
  <2>1. wakers \in Seq(Entries)
    BY <1>1 DEF Types
  <2>2. wakers' = SubSeq(wakers, 1, Len(wakers) - 1) /\ Waking(a, wakers[Len(wakers)].worker)
    BY <1>2 DEF NotifySleepers
  <2>3. /\ Len(wakers) \in 1..Len(wakers)
        /\ wakers' \in Seq(Entries) /\ Removed(wakers', wakers, Len(wakers))
    BY <1>2, <2>1, <2>2, FrontRemoves
  <2>4. PICK v : v = wakers[Len(wakers)].worker
    OBVIOUS
  <2> QED
    BY <2>2, <2>3, <2>4, TakeOff DEF NotifySleepers
<1>3. CASE ~(Len(wakers) = count /\ wakers # <<>>)
  <2>1. UNCHANGED wakers /\ spc' = [spc EXCEPT ![a] = Ready] /\ spc[a].pc = "pop"
    BY <1>3 DEF NotifySleepers
  <2>2. IdsInv' /\ ListInv' /\ \A w : InList(wakers', w) <=> InList(wakers, w)
    BY <1>1, <2>1, SleepersKept DEF NotifySleepers
  <2>3. TasksInv'
    BY <1>1, TasksKept DEF NotifySleepers
  <2>4. Ready \in Scheds /\ Ready.pc = "none"
    BY DEF Ready, Scheds
  <2>5. /\ spc'[a].pc = "none"
        /\ \A b \in Agents : b # a => spc'[b] = spc[b]
        /\ spc' \in [Agents -> Scheds]
    BY <1>1, <2>1, <2>4 DEF Types
  <2>6. Types'
    BY <1>1, <2>1, <2>5, SMT DEF Types, NotifySleepers
  <2>7. WakeInv'
    <3>1. \A w \in Workers : /\ NotifyPending(spc, w) => NotifyPending(spc', w)
                             /\ WakePending(spc, w) => WakePending(spc', w)
      BY <2>1, <2>5, SMT DEF NotifyPending, WakePending
    <3>2. UNCHANGED <<wpc, local, permit>>
      BY DEF NotifySleepers
    <3> QED
      BY <1>1, <2>2, <3>1, <3>2, WakeKept
  <2>8. PICK w \in Workers : ~InList(wakers, w)
    <3> SUFFICES ASSUME \A w \in Workers : InList(wakers, w) PROVE FALSE
      OBVIOUS
    <3>1. Len(wakers) = Cardinality({w \in Workers : sleeping[w] # 0}) /\ Len(wakers) = W
      BY <1>1, FullList DEF Types, ListInv
    <3>2. wakers # <<>>
      BY <3>1, ExecutorAssumption
    <3> QED
      BY <1>1, <1>3, <3>1, <3>2 DEF IdsInv, Asleep
  <2>9. GlobalInv'
    BY <2>2, <2>8 DEF GlobalInv, Settled
  <2> QED
    BY <2>2, <2>3, <2>6, <2>7, <2>9 DEF IndInv
<1> QED
  BY <1>2, <1>3

\* An agent that is done leaves the types alone.
LEMMA ReadyTypes ==
  ASSUME Types, NEW a \in Agents, spc' = [spc EXCEPT ![a] = Ready]
  PROVE  /\ spc' \in [Agents -> Scheds]
         /\ \A b \in Agents : spc'[b].pc = "notify" => spc'[b].task \in Tasks
         /\ \A b \in Agents : spc'[b].pc = "wake" => spc'[b].worker \in Workers
         /\ spc'[a].pc = "none"
         /\ \A b \in Agents : b # a => spc'[b] = spc[b]
<1>1. Ready \in Scheds /\ Ready.pc = "none"
  BY DEF Ready, Scheds
<1> QED
  BY <1>1, SMT DEF Types

\* NotifyExecutor: the waker of the worker is taken, unless the worker is off
\* the list: then it is awake, or somebody else is about to wake it.
LEMMA NotifyExecutorStep ==
  ASSUME IndInv, NEW a \in Agents, NotifyExecutor(a)
  PROVE  IndInv'
<1>1. Types /\ IdsInv /\ ListInv /\ TasksInv /\ WakeInv /\ GlobalInv
  BY DEF IndInv
<1>2. PICK w : w = Home[spc[a].task]
  OBVIOUS
<1> DEFINE mine == {i \in 1..Len(wakers) : wakers[i].worker = w}
<1>3. /\ spc[a].pc = "notify" /\ w # 0
      /\ \/ /\ mine # {}
            /\ Waking(a, w)
            /\ wakers' = Without(wakers, CHOOSE i \in mine : \A j \in mine : i <= j)
         \/ /\ mine = {}
            /\ spc' = [spc EXCEPT ![a] = Ready]
            /\ UNCHANGED wakers
      /\ UNCHANGED <<queue, local, cursor, notified, count, freeIds, sleeping,
                     wpc, task, permit, tstate>>
  BY <1>2 DEF NotifyExecutor
<1>4. w \in Workers
  BY <1>1, <1>2, <1>3, ExecutorAssumption DEF Types
<1>5. Len(wakers) \in Nat /\ wakers \in Seq(Entries)
  BY <1>1, SMT DEF Types
<1>6. CASE mine # {}
  <2>1. PICK i \in mine : TRUE
    BY <1>6
  <2>2. \A j \in mine : j = i
    BY <1>1, <2>1 DEF ListInv
  <2>3. i \in Nat
    BY <1>5, <2>1, SMT
  <2>4. (CHOOSE k \in mine : \A j \in mine : k <= j) = i
    <3>1. \A j \in mine : i <= j
      BY <2>2, <2>3, SMT
    <3>2. (CHOOSE k \in mine : \A j \in mine : k <= j) \in mine
      BY <2>1, <3>1
    <3> QED
      BY <2>2, <3>2
  <2>5. i \in 1..Len(wakers) /\ w = wakers[i].worker
    BY <2>1
  <2>6. wakers' = Without(wakers, i) /\ Waking(a, w)
    BY <1>3, <1>6, <2>4
  <2>7. wakers' \in Seq(Entries) /\ Removed(wakers', wakers, i)
    BY <1>5, <2>5, <2>6, WithoutRemoves
  <2> HIDE DEF mine
  <2> QED
    BY <1>2, <1>3, <2>5, <2>6, <2>7, TakeOff
<1>7. CASE mine = {}
  <2>1. spc' = [spc EXCEPT ![a] = Ready] /\ UNCHANGED wakers
    BY <1>3, <1>7
  <2>2. ~InList(wakers, w)
    BY <1>7 DEF InList
  <2> HIDE DEF mine
  <2>3. IdsInv' /\ ListInv' /\ \A v : InList(wakers', v) <=> InList(wakers, v)
    BY <1>1, <1>3, <2>1, SleepersKept
  <2>4. TasksInv'
    BY <1>1, <1>3, TasksKept
  <2>5. /\ spc' \in [Agents -> Scheds]
        /\ \A b \in Agents : spc'[b].pc = "notify" => spc'[b].task \in Tasks
        /\ \A b \in Agents : spc'[b].pc = "wake" => spc'[b].worker \in Workers
        /\ spc'[a].pc = "none"
        /\ \A b \in Agents : b # a => spc'[b] = spc[b]
    BY <1>1, <2>1, ReadyTypes
  <2>6. Types'
    BY <1>1, <1>3, <2>1, <2>5 DEF Types
  <2>7. \A v : /\ v # w /\ NotifyPending(spc, v) => NotifyPending(spc', v)
               /\ WakePending(spc, v) => WakePending(spc', v)
    BY <1>2, <1>3, <2>5, SMT DEF NotifyPending, WakePending
  <2>8. WakeInv'
    <3>1. UNCHANGED <<wpc, local, permit>>
      BY <1>3
    <3>2. ~InList(wakers', w)
      BY <2>2, <2>3
    <3> QED
      BY <1>1, <1>4, <2>2, <2>3, <2>7, <3>1, <3>2, SMT DEF WakeInv
  <2>9. GlobalInv'
    BY <1>4, <2>2, <2>3 DEF GlobalInv, Settled
  <2> QED
    BY <2>3, <2>4, <2>6, <2>8, <2>9 DEF IndInv
<1> QED
  BY <1>6, <1>7

\* WakeWorker: the worker will look for work before it parks.
LEMMA WakeWorkerStep ==
  ASSUME IndInv, NEW a \in Agents, WakeWorker(a)
  PROVE  IndInv'
<1>1. Types /\ IdsInv /\ ListInv /\ TasksInv /\ WakeInv /\ GlobalInv
  BY DEF IndInv
<1>2. PICK w : w = spc[a].worker
  OBVIOUS
<1>3. /\ spc[a].pc = "wake" /\ w \in Workers
      /\ permit' = [permit EXCEPT ![w] = TRUE]
      /\ spc' = [spc EXCEPT ![a] = Ready]
      /\ UNCHANGED <<queue, local, cursor, notified, count, wakers, freeIds,
                     sleeping, wpc, task, tstate>>
  BY <1>1, <1>2 DEF WakeWorker, Types, sleepVars
<1>4. IdsInv' /\ ListInv' /\ \A v : InList(wakers', v) <=> InList(wakers, v)
  BY <1>1, <1>3, SleepersKept
<1>5. TasksInv'
  BY <1>1, <1>3, TasksKept
<1>6. /\ spc' \in [Agents -> Scheds]
      /\ \A b \in Agents : spc'[b].pc = "notify" => spc'[b].task \in Tasks
      /\ \A b \in Agents : spc'[b].pc = "wake" => spc'[b].worker \in Workers
      /\ spc'[a].pc = "none"
      /\ \A b \in Agents : b # a => spc'[b] = spc[b]
  BY <1>1, <1>3, ReadyTypes
<1>7. /\ permit' \in [Workers -> BOOLEAN] /\ permit'[w]
      /\ \A v \in Workers : permit[v] => permit'[v]
  BY <1>1, <1>3 DEF Types
<1>8. Types'
  BY <1>1, <1>3, <1>6, <1>7 DEF Types
<1>9. \A v : /\ NotifyPending(spc, v) => NotifyPending(spc', v)
             /\ v # w /\ WakePending(spc, v) => WakePending(spc', v)
  BY <1>2, <1>3, <1>6, SMT DEF NotifyPending, WakePending
<1>10. WakeInv'
  <2> DEFINE P(v) == permit[v]
             Q(v) == permit'[v]
  <2>1. Q(w) /\ \A v \in Workers : P(v) => Q(v)
    BY <1>7
  <2>2. /\ \A v \in Workers : wpc[v] = "parked" =>
             InList(wakers, v) \/ P(v) \/ WakePending(spc, v)
        /\ \A v \in Workers : wpc[v] = "sleep" /\ local[v] # {} =>
             ~InList(wakers, v) \/ NotifyPending(spc, v)
        /\ \A v \in Workers : wpc[v] = "parked" /\ local[v] # {} =>
             P(v) \/ NotifyPending(spc, v) \/ WakePending(spc, v)
    BY <1>1 DEF WakeInv
  <2>3. UNCHANGED <<wpc, local>>
    BY <1>3
  <2> HIDE DEF P, Q
  <2>4. /\ \A v \in Workers : wpc'[v] = "parked" =>
             InList(wakers', v) \/ Q(v) \/ WakePending(spc', v)
        /\ \A v \in Workers : wpc'[v] = "sleep" /\ local'[v] # {} =>
             ~InList(wakers', v) \/ NotifyPending(spc', v)
        /\ \A v \in Workers : wpc'[v] = "parked" /\ local'[v] # {} =>
             Q(v) \/ NotifyPending(spc', v) \/ WakePending(spc', v)
    BY <1>4, <1>9, <2>1, <2>2, <2>3, SMT
  <2> QED
    BY <2>4 DEF WakeInv, Q
<1>11. GlobalInv'
  <2>1. ~Settled(w)'
    BY <1>7 DEF Settled
  <2>2. notified => \/ \E b \in Agents : spc'[b].pc = "pop"
                    \/ \E v \in Workers : ~InList(wakers', v)
    BY <1>1, <1>3, <1>4, <1>6, SMT DEF GlobalInv
  <2> QED
    BY <1>3, <2>1, <2>2 DEF GlobalInv
<1> QED
  BY <1>4, <1>5, <1>8, <1>10, <1>11 DEF IndInv

-----------------------------------------------------------------------------
(* The workers                                                             *)

\* A worker that has found a task will look at the global queue again, and so
\* it does not matter to the queue what else happens.
LEMMA GlobalKept ==
  ASSUME GlobalInv, UNCHANGED <<spc, notified>>,
         \A w \in Workers : InList(wakers', w) <=> InList(wakers, w),
         queue' = <<>> \/ \E w \in Workers : wpc'[w] \notin {"sleep", "parked"}
  PROVE  GlobalInv'
BY DEF GlobalInv, Settled

\* Search, the local part: the worker takes a runnable out of one of its slots.
LEMMA SearchLocal ==
  ASSUME IndInv, NEW w \in Workers, wpc[w] = "search", NEW t \in local[w],
         local' = [local EXCEPT ![w] = @ \ {t}],
         DOMAIN cursor' = Workers,
         task' = [task EXCEPT ![w] = t],
         wpc' = [wpc EXCEPT ![w] = "found"],
         UNCHANGED <<queue, notified, count, wakers, freeIds, sleeping, permit, tstate, spc>>
  PROVE  IndInv'
<1>1. Types /\ IdsInv /\ ListInv /\ TasksInv /\ WakeInv /\ GlobalInv
  BY DEF IndInv
<1>2. IdsInv' /\ ListInv' /\ \A v : InList(wakers', v) <=> InList(wakers, v)
  BY <1>1, SleepersKept
<1>3. /\ t \in Tasks /\ Home[t] = w /\ tstate[t] = "scheduled"
      /\ \A i \in 1..Len(queue) : queue[i] # t
      /\ \A v \in Workers : task[v] # t
  <2>1. t \in Tasks /\ Home[t] = w /\ tstate[t] = "scheduled"
    BY <1>1 DEF Types, TasksInv
  <2>2. w # 0 /\ t # NoTask
    BY <2>1, SMT DEF Workers, Tasks, NoTask
  <2>3. \A i \in 1..Len(queue) : queue[i] # t
    BY <1>1, <2>1, <2>2 DEF TasksInv
  <2>4. \A v \in Workers : task[v] # t
    BY <1>1, <2>1, <2>2, SMT DEF TasksInv
  <2> QED
    BY <2>1, <2>3, <2>4
<1>4. /\ \A v \in Workers : \A u : u \in local'[v] <=> u \in local[v] /\ (v = w => u # t)
      /\ \A v \in Workers : v # w => local'[v] = local[v] /\ task'[v] = task[v] /\ wpc'[v] = wpc[v]
      /\ task'[w] = t /\ wpc'[w] = "found"
  BY <1>1 DEF Types
<1>5. Types'
  BY <1>1, <1>3 DEF Types
<1>6. TasksInv'
  <2>1. \A v \in Workers : \A u \in local'[v] : Home[u] = v /\ tstate[u] = "scheduled"
    BY <1>1, <1>4, SMT DEF TasksInv
  <2>2. \A v \in Workers : task'[v] # NoTask <=> wpc'[v] \in {"found", "run"}
    BY <1>1, <1>3, <1>4, SMT DEF TasksInv, NoTask, Tasks
  <2>3. \A v \in Workers : t \notin local'[v]
    BY <1>1, <1>3, <1>4, SMT DEF TasksInv
  <2>4. \A v \in Workers : wpc'[v] = "found" =>
         /\ tstate[task'[v]] = "scheduled"
         /\ \A i \in 1..Len(queue) : queue[i] # task'[v]
         /\ \A u \in Workers : task'[v] \notin local'[u]
    BY <1>1, <1>3, <1>4, <2>3, SMT DEF TasksInv
  <2>5. \A v \in Workers : wpc'[v] = "run" => tstate[task'[v]] \in {"running", "rewoken"}
    BY <1>1, <1>4, SMT DEF TasksInv
  <2>6. \A x, v \in Workers : task'[x] # NoTask /\ task'[x] = task'[v] => x = v
    BY <1>1, <1>3, <1>4, SMT DEF TasksInv
  <2>7. \A u \in Tasks : tstate[u] = "scheduled" =>
         \/ \E i \in 1..Len(queue) : queue[i] = u
         \/ \E v \in Workers : u \in local'[v]
         \/ \E v \in Workers : task'[v] = u /\ wpc'[v] = "found"
    <3> SUFFICES ASSUME NEW u \in Tasks, tstate[u] = "scheduled", u # t,
                        ~ \E i \in 1..Len(queue) : queue[i] = u
                 PROVE  \/ \E v \in Workers : u \in local'[v]
                        \/ \E v \in Workers : task'[v] = u /\ wpc'[v] = "found"
      BY <1>4
    <3>1. CASE \E v \in Workers : u \in local[v]
      BY <1>4, <3>1, SMT
    <3>2. CASE \E v \in Workers : task[v] = u /\ wpc[v] = "found"
      BY <1>4, <3>2, SMT
    <3> QED
      BY <1>1, <3>1, <3>2 DEF TasksInv
  <2> QED
    BY <1>1, <2>1, <2>2, <2>4, <2>5, <2>6, <2>7 DEF TasksInv
<1>7. WakeInv'
  BY <1>1, <1>2, <1>4, WakeKept
<1>8. GlobalInv'
  BY <1>1, <1>2, <1>4, GlobalKept
<1> QED
  BY <1>2, <1>5, <1>6, <1>7, <1>8 DEF IndInv

\* Search, the global part: the worker takes the first task of the queue.
LEMMA SearchGlobal ==
  ASSUME IndInv, NEW w \in Workers, wpc[w] = "search", queue # <<>>,
         queue' = Tail(queue),
         task' = [task EXCEPT ![w] = Head(queue)],
         wpc' = [wpc EXCEPT ![w] = "found"],
         UNCHANGED <<local, cursor, notified, count, wakers, freeIds, sleeping,
                     permit, tstate, spc>>
  PROVE  IndInv'
<1>1. Types /\ IdsInv /\ ListInv /\ TasksInv /\ WakeInv /\ GlobalInv
  BY DEF IndInv
<1>2. IdsInv' /\ ListInv' /\ \A v : InList(wakers', v) <=> InList(wakers, v)
  BY <1>1, SleepersKept
<1>3. PICK t : t = Head(queue)
  OBVIOUS
<1>4. /\ t \in Tasks /\ queue' \in Seq(Tasks)
      /\ Len(queue) \in Nat /\ 1 \in 1..Len(queue) /\ t = queue[1]
      /\ Len(queue') = Len(queue) - 1
      /\ \A i \in 1..Len(queue') : queue'[i] = queue[i + 1] /\ i + 1 \in 1..Len(queue) /\ i + 1 # 1
      /\ \A i \in 1..Len(queue) : i # 1 => i - 1 \in 1..Len(queue') /\ queue'[i - 1] = queue[i]
  <2>1. queue \in Seq(Tasks)
    BY <1>1 DEF Types
  <2> QED
    BY <1>3, <2>1, SMT
<1>5. /\ Home[t] = 0 /\ tstate[t] = "scheduled" /\ t # NoTask
      /\ \A i \in 1..Len(queue') : queue'[i] # t
      /\ \A v \in Workers : t \notin local[v]
      /\ \A v \in Workers : task[v] # t
  <2>1. Home[t] = 0 /\ tstate[t] = "scheduled" /\ t # NoTask
    BY <1>1, <1>4, SMT DEF TasksInv, NoTask, Tasks
  <2>2. \A v \in Workers : v # 0
    BY SMT DEF Workers
  <2>3. \A v \in Workers : t \notin local[v]
    BY <1>1, <2>1, <2>2 DEF TasksInv
  <2>4. \A v \in Workers : task[v] # t
    BY <1>1, <1>4, <2>1, SMT DEF TasksInv
  <2>5. \A i \in 1..Len(queue') : queue'[i] # t
    <3> SUFFICES ASSUME NEW i \in 1..Len(queue') PROVE queue'[i] # t
      OBVIOUS
    <3>1. queue'[i] = queue[i + 1] /\ i + 1 \in 1..Len(queue) /\ i + 1 # 1
      BY <1>4
    <3>2. queue[i + 1] = queue[1] => i + 1 = 1
      BY <1>1, <1>4, <3>1 DEF TasksInv
    <3> QED
      BY <1>4, <3>1, <3>2
  <2> QED
    BY <2>1, <2>3, <2>4, <2>5
<1>6. /\ \A v \in Workers : v # w => task'[v] = task[v] /\ wpc'[v] = wpc[v]
      /\ task'[w] = t /\ wpc'[w] = "found"
      /\ task' \in [Workers -> Tasks \cup {NoTask}]
      /\ wpc' \in [Workers -> {"search", "sleep", "parked", "found", "run"}]
  BY <1>1, <1>3, <1>4 DEF Types
<1>7. Types'
  BY <1>1, <1>4, <1>6 DEF Types
<1>8. TasksInv'
  <2>1. /\ \A i \in 1..Len(queue') : Home[queue'[i]] = 0 /\ tstate[queue'[i]] = "scheduled"
        /\ \A i, j \in 1..Len(queue') : queue'[i] = queue'[j] => i = j
    BY <1>1, <1>4, SMT DEF TasksInv
  <2>2. \A v \in Workers : task'[v] # NoTask <=> wpc'[v] \in {"found", "run"}
    BY <1>1, <1>5, <1>6, SMT DEF TasksInv
  <2>4. \A v \in Workers : wpc'[v] = "found" =>
         /\ tstate[task'[v]] = "scheduled"
         /\ \A i \in 1..Len(queue') : queue'[i] # task'[v]
         /\ \A u \in Workers : task'[v] \notin local[u]
    BY <1>1, <1>4, <1>5, <1>6, SMT DEF TasksInv
  <2>5. \A v \in Workers : wpc'[v] = "run" => tstate[task'[v]] \in {"running", "rewoken"}
    BY <1>1, <1>6, SMT DEF TasksInv
  <2>6. \A x, v \in Workers : task'[x] # NoTask /\ task'[x] = task'[v] => x = v
    BY <1>1, <1>5, <1>6, SMT DEF TasksInv
  <2>7. \A u \in Tasks : tstate[u] = "scheduled" =>
         \/ \E i \in 1..Len(queue') : queue'[i] = u
         \/ \E v \in Workers : u \in local[v]
         \/ \E v \in Workers : task'[v] = u /\ wpc'[v] = "found"
    <3> SUFFICES ASSUME NEW u \in Tasks, tstate[u] = "scheduled", u # t
                 PROVE  \/ \E i \in 1..Len(queue') : queue'[i] = u
                        \/ \E v \in Workers : u \in local[v]
                        \/ \E v \in Workers : task'[v] = u /\ wpc'[v] = "found"
      BY <1>6
    <3>1. CASE \E i \in 1..Len(queue) : queue[i] = u
      BY <1>4, <3>1, Zenon
    <3>2. CASE \E v \in Workers : task[v] = u /\ wpc[v] = "found"
      BY <1>6, <3>2, SMT
    <3> QED
      BY <1>1, <3>1, <3>2 DEF TasksInv
  <2> QED
    BY <1>1, <2>1, <2>2, <2>4, <2>5, <2>6, <2>7 DEF TasksInv
<1>9. WakeInv'
  BY <1>1, <1>2, <1>6, WakeKept
<1>10. GlobalInv'
  BY <1>1, <1>2, <1>6, GlobalKept
<1> QED
  BY <1>2, <1>7, <1>8, <1>9, <1>10 DEF IndInv

\* Search: a worker that finds nothing has looked into all of its slots.
LEMMA SearchStep ==
  ASSUME IndInv, NEW w \in Workers, Search(w)
  PROVE  IndInv'
<1>1. Types /\ IdsInv /\ ListInv /\ TasksInv /\ WakeInv /\ GlobalInv
  BY DEF IndInv
<1>2. /\ wpc[w] = "search"
      /\ UNCHANGED <<notified, count, wakers, freeIds, sleeping, permit, tstate, spc>>
  BY DEF Search, At, sleepVars
<1>3. CASE \E t \in local[w] :
             /\ \A u \in local[w] : Distance(w, t) <= Distance(w, u)
             /\ local' = [local EXCEPT ![w] = @ \ {t}]
             /\ cursor' = [cursor EXCEPT ![w] = NextSlot(w, t)]
             /\ task' = [task EXCEPT ![w] = t]
             /\ wpc' = [wpc EXCEPT ![w] = "found"]
             /\ UNCHANGED queue
  <2>1. PICK t \in local[w] :
             /\ local' = [local EXCEPT ![w] = @ \ {t}]
             /\ cursor' = [cursor EXCEPT ![w] = NextSlot(w, t)]
             /\ task' = [task EXCEPT ![w] = t]
             /\ wpc' = [wpc EXCEPT ![w] = "found"]
             /\ UNCHANGED queue
    BY <1>3
  <2>2. DOMAIN cursor' = Workers
    BY <1>1, <2>1 DEF Types
  <2> QED
    BY <1>2, <2>1, <2>2, SearchLocal
<1>4. CASE /\ queue # <<>>
           /\ queue' = Tail(queue)
           /\ task' = [task EXCEPT ![w] = Head(queue)]
           /\ wpc' = [wpc EXCEPT ![w] = "found"]
           /\ UNCHANGED <<local, cursor>>
  BY <1>2, <1>4, SearchGlobal
<1>5. CASE /\ local[w] = {} /\ queue = <<>>
           /\ wpc' = [wpc EXCEPT ![w] = "sleep"]
           /\ UNCHANGED <<queue, local, cursor, task>>
  <2>1. IdsInv' /\ ListInv' /\ \A v : InList(wakers', v) <=> InList(wakers, v)
    BY <1>1, <1>2, SleepersKept
  <2>2. /\ \A v \in Workers : v # w => wpc'[v] = wpc[v]
        /\ wpc'[w] = "sleep"
        /\ wpc' \in [Workers -> {"search", "sleep", "parked", "found", "run"}]
    BY <1>1, <1>5 DEF Types
  <2>3. Types'
    BY <1>1, <1>2, <1>5, <2>2 DEF Types
  <2>4. TasksInv'
    <3>1. \A v \in Workers : wpc'[v] = wpc[v]
            \/ {wpc[v], wpc'[v]} \subseteq {"search", "sleep", "parked"}
      BY <1>2, <2>2
    <3> QED
      BY <1>1, <1>2, <1>5, <3>1, TasksKept
  <2>5. WakeInv'
    BY <1>1, <1>2, <1>5, <2>1, <2>2, SMT DEF WakeInv
  <2>6. GlobalInv'
    BY <1>1, <1>2, <1>5, <2>1, GlobalKept
  <2> QED
    BY <2>1, <2>3, <2>4, <2>5, <2>6 DEF IndInv
<1> QED
  BY <1>3, <1>4, <1>5 DEF Search

\* Unpark: the worker searches again.
LEMMA UnparkStep ==
  ASSUME IndInv, NEW w \in Workers, Unpark(w)
  PROVE  IndInv'
<1>1. Types /\ IdsInv /\ ListInv /\ TasksInv /\ WakeInv /\ GlobalInv
  BY DEF IndInv
<1>2. /\ wpc[w] = "parked"
      /\ permit' = [permit EXCEPT ![w] = FALSE]
      /\ wpc' = [wpc EXCEPT ![w] = "search"]
      /\ UNCHANGED <<queue, local, cursor, notified, count, wakers, freeIds,
                     sleeping, task, tstate, spc>>
  BY DEF Unpark, At, sleepVars
<1>3. IdsInv' /\ ListInv' /\ \A v : InList(wakers', v) <=> InList(wakers, v)
  BY <1>1, <1>2, SleepersKept
<1>4. /\ \A v \in Workers : v # w => wpc'[v] = wpc[v] /\ permit'[v] = permit[v]
      /\ wpc'[w] = "search"
      /\ wpc' \in [Workers -> {"search", "sleep", "parked", "found", "run"}]
      /\ permit' \in [Workers -> BOOLEAN]
  BY <1>1, <1>2 DEF Types
<1>5. Types'
  BY <1>1, <1>2, <1>4 DEF Types
<1>6. TasksInv'
  <2>1. \A v \in Workers : wpc'[v] = wpc[v]
          \/ {wpc[v], wpc'[v]} \subseteq {"search", "sleep", "parked"}
    BY <1>2, <1>4
  <2> QED
    BY <1>1, <1>2, <2>1, TasksKept
<1>7. WakeInv'
  BY <1>1, <1>2, <1>3, <1>4, WakeKept
<1>8. GlobalInv'
  BY <1>1, <1>2, <1>3, <1>4, GlobalKept
<1> QED
  BY <1>3, <1>5, <1>6, <1>7, <1>8 DEF IndInv

\* Yield: the task is woken while it runs, by itself.
LEMMA YieldStep ==
  ASSUME IndInv, NEW w \in Workers, Yield(w)
  PROVE  IndInv'
<1>1. Types /\ IdsInv /\ ListInv /\ TasksInv /\ WakeInv /\ GlobalInv
  BY DEF IndInv
<1>2. PICK t : t = task[w]
  OBVIOUS
<1>3. /\ wpc[w] = "run" /\ tstate[t] = "running"
      /\ tstate' = [tstate EXCEPT ![t] = "rewoken"]
      /\ UNCHANGED <<queue, local, cursor, notified, count, wakers, freeIds,
                     sleeping, wpc, task, permit, spc>>
  BY <1>2 DEF Yield, At, sleepVars
<1>4. /\ t \in Tasks
      /\ \A i \in 1..Len(queue) : queue[i] \in Tasks
      /\ \A v \in Workers : task[v] # NoTask => task[v] \in Tasks
  BY <1>1, <1>2, <1>3, SMT DEF Types, TasksInv
<1>5. /\ tstate'[t] = "rewoken"
      /\ \A u \in Tasks : u # t => tstate'[u] = tstate[u]
      /\ tstate' \in [Tasks -> {"idle", "scheduled", "running", "rewoken"}]
  BY <1>1, <1>3, <1>4 DEF Types
<1>6. IdsInv' /\ ListInv' /\ \A v : InList(wakers', v) <=> InList(wakers, v)
  BY <1>1, <1>3, SleepersKept
<1>7. Types'
  BY <1>1, <1>3, <1>5 DEF Types
<1>8. TasksInv'
  BY <1>1, <1>3, <1>4, <1>5, RewokenTasks DEF Types
<1>9. WakeInv'
  BY <1>1, <1>3, <1>6, WakeKept
<1>10. GlobalInv'
  BY <1>1, <1>3, <1>6, GlobalKept
<1> QED
  BY <1>6, <1>7, <1>8, <1>9, <1>10 DEF IndInv

\* An id that is given out is new, and it leaves the ids consistent (insert()).
LEMMA InsertIds ==
  ASSUME Types, IdsInv, NEW w \in Workers, sleeping[w] = 0,
         sleeping' = [sleeping EXCEPT ![w] = NewId],
         freeIds' = IF freeIds = <<>> THEN <<>> ELSE SubSeq(freeIds, 1, Len(freeIds) - 1),
         count' = count + 1
  PROVE  /\ NewId \in Nat \ {0}
         /\ sleeping' \in [Workers -> Nat]
         /\ freeIds' \in Seq(Nat \ {0})
         /\ count' \in Nat
         /\ IdsInv'
<1> DEFINE n == NewId
<1>1. /\ Len(freeIds) \in Nat /\ count \in Nat /\ W \in Nat
      /\ \A i \in 1..Len(freeIds) : freeIds[i] \in Nat \ {0}
      /\ \A v \in Workers : sleeping[v] \in Nat
  BY ExecutorAssumption, SMT DEF Types
<1>2. Asleep' = Asleep \cup {w} /\ w \notin Asleep /\ IsFiniteSet(Asleep)
      /\ Asleep' \subseteq Workers /\ IsFiniteSet(Workers) /\ Cardinality(Workers) = W
  <2>1. IsFiniteSet(Workers) /\ Cardinality(Workers) = W
    BY WorkersFinite
  <2>2. Asleep \subseteq Workers
    BY DEF Asleep
  <2>3. IsFiniteSet(Asleep)
    BY <2>1, <2>2, FS_Subset
  <2>4. NewId # 0
    BY <1>1, SMT DEF NewId, Types
  <2>5. Asleep' = Asleep \cup {w}
    BY <2>4 DEF Asleep, Types
  <2> QED
    BY <2>1, <2>2, <2>3, <2>5 DEF Asleep
<1>3. Cardinality(Asleep') = count + 1 /\ count + 1 <= W
  <2>1. Cardinality(Asleep \cup {w}) = Cardinality(Asleep) + 1
    BY <1>2, FS_AddElement
  <2>2. Cardinality(Asleep') <= Cardinality(Workers)
    BY <1>2, FS_Subset
  <2> QED
    BY <1>2, <2>1, <2>2 DEF IdsInv
<1>4. CASE freeIds = <<>>
  <2>1. n = count + 1 /\ freeIds' = <<>> /\ Len(freeIds) = 0
    BY <1>4, SMT DEF NewId
  <2>2. n \in Nat \ {0} /\ freeIds' \in Seq(Nat \ {0}) /\ Len(freeIds') = 0
    BY <1>1, <2>1, SMT
  <2> HIDE DEF n
  <2>3. /\ sleeping' \in [Workers -> Nat] /\ sleeping'[w] = n
        /\ \A v \in Workers : v # w => sleeping'[v] = sleeping[v]
    BY <2>2 DEF Types, n
  <2>4. \A v \in Workers : sleeping[v] < n
    BY <1>1, <2>1, SMT DEF IdsInv
  <2>5. \A v \in Workers : sleeping'[v] <= n
    BY <1>1, <2>2, <2>3, <2>4, SMT
  <2>6. \A x, v \in Workers : sleeping'[x] # 0 /\ sleeping'[x] = sleeping'[v] => x = v
    BY <1>1, <2>3, <2>4, SMT DEF IdsInv
  <2>7. IdsInv'
    BY <1>1, <1>3, <2>1, <2>2, <2>5, <2>6, SMT DEF IdsInv
  <2> QED
    BY <1>1, <2>2, <2>3, <2>7, SMT DEF n
<1>5. CASE freeIds # <<>>
  <2>1. /\ Len(freeIds) \in 1..Len(freeIds) /\ n = freeIds[Len(freeIds)]
        /\ freeIds' \in Seq(Nat \ {0}) /\ Removed(freeIds', freeIds, Len(freeIds))
    BY <1>5, FrontRemoves DEF Types, NewId
  <2> HIDE DEF n
  <2>2. /\ n \in Nat \ {0} /\ Len(freeIds') = Len(freeIds) - 1
        /\ \A i \in 1..Len(freeIds') : freeIds'[i] = freeIds[i] /\ i \in 1..Len(freeIds) /\ i # Len(freeIds)
    BY <1>1, <2>1, SMT DEF Removed
  <2>3. /\ sleeping' \in [Workers -> Nat] /\ sleeping'[w] = n
        /\ \A v \in Workers : v # w => sleeping'[v] = sleeping[v]
    BY <2>2 DEF Types, n
  <2>4. /\ \A v \in Workers : sleeping[v] # n
        /\ \A i \in 1..Len(freeIds') : freeIds'[i] # n
    BY <2>1, <2>2, SMT DEF IdsInv
  <2>5. count' + Len(freeIds') = count + Len(freeIds)
    <3>1. count' + Len(freeIds') = (count + 1) + (Len(freeIds) - 1)
      BY <2>2, Zenon
    <3>2. PICK c \in Nat, l \in Nat : c = count /\ l = Len(freeIds)
      BY <1>1
    <3>3. (c + 1) + (l - 1) = c + l
      BY SMT
    <3> QED
      BY <3>1, <3>2, <3>3, Zenon
  <2>6. /\ \A v \in Workers : sleeping'[v] <= count + Len(freeIds)
        /\ \A i \in 1..Len(freeIds') : freeIds'[i] <= count + Len(freeIds)
    BY <2>1, <2>2, <2>3, SMT DEF IdsInv
  <2>7. \A i, j \in 1..Len(freeIds') : freeIds'[i] = freeIds'[j] => i = j
    BY <2>2, SMT DEF IdsInv
  <2>8. \A x, v \in Workers : sleeping'[x] # 0 /\ sleeping'[x] = sleeping'[v] => x = v
    BY <2>3, <2>4, SMT DEF IdsInv
  <2>9. \A v \in Workers : \A i \in 1..Len(freeIds') : freeIds'[i] # sleeping'[v]
    BY <2>2, <2>3, <2>4, SMT DEF IdsInv
  <2>10. IdsInv'
    BY <1>3, <2>5, <2>6, <2>7, <2>8, <2>9 DEF IdsInv
  <2> QED
    BY <1>1, <2>1, <2>2, <2>3, <2>10, SMT DEF n
<1> QED
  BY <1>4, <1>5

\* A worker that has put its waker on the list searches once more; the flag
\* says what the list says.
LEMMA Enlisted ==
  ASSUME IndInv, NEW w \in Workers, wpc[w] = "sleep",
         Types', IdsInv', ListInv', Len(wakers') = Len(wakers) + 1,
         \A v \in Workers : InList(wakers', v) <=> InList(wakers, v) \/ v = w,
         notified' = IsNotified(count', wakers'),
         wpc' = [wpc EXCEPT ![w] = "search"],
         UNCHANGED <<queue, local, task, permit, tstate, spc>>
  PROVE  IndInv'
<1>1. Types /\ IdsInv /\ ListInv /\ TasksInv /\ WakeInv /\ GlobalInv
  BY DEF IndInv
<1>2. wpc'[w] = "search" /\ \A v \in Workers : v # w => wpc'[v] = wpc[v]
  BY <1>1 DEF Types
<1>3. TasksInv'
  <2>1. \A v \in Workers : wpc'[v] = wpc[v]
          \/ {wpc[v], wpc'[v]} \subseteq {"search", "sleep", "parked"}
    BY <1>2
  <2> QED
    BY <1>1, <2>1, TasksKept
<1>4. WakeInv'
  <2>1. \A v \in Workers : v # w => (InList(wakers', v) <=> InList(wakers, v))
    OBVIOUS
  <2> QED
    BY <1>1, <1>2, <2>1, WakeKept
<1>5. GlobalInv'
  <2>1. ~Settled(w)'
    BY <1>2 DEF Settled
  <2>2. ASSUME notified', \A v \in Workers : InList(wakers', v)
        PROVE  FALSE
    <3>1. /\ wakers' \in Seq(Entries) /\ sleeping' \in [Workers -> Nat]
          /\ \A i \in 1..Len(wakers') : sleeping'[wakers'[i].worker] = wakers'[i].id
          /\ \A i, j \in 1..Len(wakers') : wakers'[i].worker = wakers'[j].worker => i = j
      BY DEF Types, ListInv
    <3>2. Len(wakers') = Cardinality({v \in Workers : sleeping'[v] # 0}) /\ Len(wakers') = W
      BY <2>2, <3>1, FullList
    <3>3. count' = Len(wakers') /\ Len(wakers') \in Nat \ {0}
      BY <3>2, ExecutorAssumption DEF IdsInv, Asleep
    <3>4. \A n \in Nat \ {0} : ~(n = 0 \/ n > n)
      BY SMT
    <3> QED
      BY <2>2, <3>3, <3>4, Zenon DEF IsNotified
  <2> QED
    BY <2>1, <2>2 DEF GlobalInv
<1> QED
  BY <1>3, <1>4, <1>5 DEF IndInv

\* Sleep: a worker that parks is on the list, and has missed nothing.
LEMMA SleepStep ==
  ASSUME IndInv, NEW w \in Workers, Sleep(w)
  PROVE  IndInv'
<1>1. Types /\ IdsInv /\ ListInv /\ TasksInv /\ WakeInv /\ GlobalInv
  BY DEF IndInv
<1>2. wpc[w] = "sleep" /\ UNCHANGED <<queue, local, cursor, task, permit, tstate, spc>>
  BY DEF Sleep, At
<1>3. \A i \in 1..Len(wakers) : wakers[i].worker \in Workers /\ wakers[i].id \in Nat \ {0}
  <2>1. \A i \in 1..Len(wakers) : wakers[i] \in Entries
    BY <1>1, SMT DEF Types
  <2> QED
    BY <2>1, Zenon DEF Entries
<1>4. sleeping[w] # 0 => (InList(wakers, w) <=> Listed(sleeping[w]))
  BY <1>1, <1>3 DEF Listed, InList, ListInv, IdsInv
<1>5. sleeping[w] = 0 => ~InList(wakers, w)
  BY <1>1, <1>3, SMT DEF InList, ListInv
<1>6. CASE /\ sleeping[w] = 0
           /\ sleeping' = [sleeping EXCEPT ![w] = NewId]
           /\ wakers' = Append(wakers, Entry(NewId, w))
           /\ freeIds' = IF freeIds = <<>> THEN <<>> ELSE SubSeq(freeIds, 1, Len(freeIds) - 1)
           /\ count' = count + 1
           /\ notified' = IsNotified(count', wakers')
           /\ wpc' = [wpc EXCEPT ![w] = "search"]
  <2>1. /\ NewId \in Nat \ {0} /\ sleeping' \in [Workers -> Nat]
        /\ freeIds' \in Seq(Nat \ {0}) /\ count' \in Nat /\ IdsInv'
    BY <1>1, <1>6, InsertIds
  <2>2. PICK id : id = NewId
    OBVIOUS
  <2>3. /\ ListInv' /\ wakers' \in Seq(Entries) /\ Len(wakers') = Len(wakers) + 1
        /\ \A v \in Workers : InList(wakers', v) <=> InList(wakers, v) \/ v = w
    BY <1>1, <1>5, <1>6, <2>1, <2>2, ListAppended
  <2>4. Types'
    BY <1>1, <1>2, <1>6, <2>1, <2>3 DEF Types, IsNotified
  <2> QED
    BY <1>2, <1>6, <2>1, <2>3, <2>4, Enlisted
<1>7. CASE /\ sleeping[w] # 0 /\ Listed(sleeping[w])
           /\ wpc' = [wpc EXCEPT ![w] = "parked"]
           /\ UNCHANGED sleepVars
  <2>1. UNCHANGED <<notified, count, wakers, freeIds, sleeping>>
    BY <1>7 DEF sleepVars
  <2>2. IdsInv' /\ ListInv' /\ \A v : InList(wakers', v) <=> InList(wakers, v)
    BY <1>1, <2>1, SleepersKept
  <2>3. /\ wpc'[w] = "parked"
        /\ \A v \in Workers : v # w => wpc'[v] = wpc[v]
        /\ wpc' \in [Workers -> {"search", "sleep", "parked", "found", "run"}]
    BY <1>1, <1>7 DEF Types
  <2>4. Types'
    BY <1>1, <1>2, <2>1, <2>3 DEF Types
  <2>5. TasksInv'
    <3>1. \A v \in Workers : wpc'[v] = wpc[v]
            \/ {wpc[v], wpc'[v]} \subseteq {"search", "sleep", "parked"}
      BY <1>2, <2>3
    <3> QED
      BY <1>1, <1>2, <3>1, TasksKept
  <2>6. InList(wakers, w)
    BY <1>4, <1>7
  <2>7. WakeInv'
    BY <1>1, <1>2, <2>2, <2>3, <2>6, SMT DEF WakeInv
  <2>8. GlobalInv'
    <3>1. \A v \in Workers : ~Settled(v) => ~Settled(v)'
      BY <1>2, <2>2, <2>3 DEF Settled
    <3> QED
      BY <1>1, <1>2, <2>1, <2>2, <3>1, SMT DEF GlobalInv
  <2> QED
    BY <2>2, <2>4, <2>5, <2>7, <2>8 DEF IndInv
<1>8. CASE /\ sleeping[w] # 0 /\ ~Listed(sleeping[w])
           /\ wakers' = Append(wakers, Entry(sleeping[w], w))
           /\ notified' = IsNotified(count, wakers')
           /\ wpc' = [wpc EXCEPT ![w] = "search"]
           /\ UNCHANGED <<count, freeIds, sleeping>>
  <2>1. PICK id \in Nat \ {0} : id = sleeping[w]
    BY <1>1, <1>8 DEF Types
  <2>2. sleeping' = [sleeping EXCEPT ![w] = id]
    BY <1>1, <1>8, <2>1 DEF Types
  <2>3. /\ ListInv' /\ wakers' \in Seq(Entries) /\ Len(wakers') = Len(wakers) + 1
        /\ \A v \in Workers : InList(wakers', v) <=> InList(wakers, v) \/ v = w
    BY <1>1, <1>4, <1>8, <2>1, <2>2, ListAppended
  <2>4. IdsInv'
    BY <1>1, <1>8 DEF IdsInv, Asleep
  <2>5. Types'
    BY <1>1, <1>2, <1>8, <2>3 DEF Types, IsNotified
  <2> QED
    BY <1>2, <1>8, <2>3, <2>4, <2>5, Enlisted
<1> QED
  BY <1>6, <1>7, <1>8 DEF Sleep

\* The id of a worker that wakes is free again (remove()).
LEMMA RemoveIds ==
  ASSUME Types, IdsInv, NEW w \in Workers, sleeping[w] # 0,
         sleeping' = [sleeping EXCEPT ![w] = 0],
         freeIds' = Append(freeIds, sleeping[w]),
         count' = count - 1
  PROVE  /\ sleeping' \in [Workers -> Nat]
         /\ freeIds' \in Seq(Nat \ {0})
         /\ count' \in Nat
         /\ IdsInv'
<1>1. PICK n : n = sleeping[w]
  OBVIOUS
<1>2. /\ Len(freeIds) \in Nat /\ count \in Nat /\ W \in Nat /\ n \in Nat \ {0}
      /\ \A i \in 1..Len(freeIds) : freeIds[i] \in Nat \ {0}
      /\ \A v \in Workers : sleeping[v] \in Nat
  BY <1>1, ExecutorAssumption, SMT DEF Types
<1>3. /\ freeIds' \in Seq(Nat \ {0}) /\ Len(freeIds') = Len(freeIds) + 1
      /\ \A k \in 1..Len(freeIds) : freeIds'[k] = freeIds[k]
      /\ freeIds'[Len(freeIds) + 1] = n
  <2>1. freeIds \in Seq(Nat \ {0}) /\ freeIds' = Append(freeIds, n)
    BY <1>1 DEF Types
  <2> QED
    BY <1>2, <2>1, AppendAdds
<1>4. \A i \in 1..Len(freeIds') : i \in 1..Len(freeIds) \/ i = Len(freeIds) + 1
  BY <1>2, <1>3, SMT
<1>5. /\ sleeping' \in [Workers -> Nat] /\ sleeping'[w] = 0
      /\ \A v \in Workers : v # w => sleeping'[v] = sleeping[v]
  BY DEF Types
<1>6. Asleep' = Asleep \ {w} /\ w \in Asleep
  BY <1>5 DEF Asleep
<1>7. Cardinality(Asleep') = count - 1 /\ count' \in Nat
  <2>1. IsFiniteSet(Workers) /\ Cardinality(Workers) = W
    BY WorkersFinite
  <2>2. IsFiniteSet(Asleep)
    <3>1. Asleep \subseteq Workers
      BY DEF Asleep
    <3> QED
      BY <2>1, <3>1, FS_Subset
  <2>3. Cardinality(Asleep') = Cardinality(Asleep) - 1
    BY <1>6, <2>2, FS_RemoveElement
  <2>4. IsFiniteSet(Asleep') /\ Cardinality(Asleep') \in Nat
    BY <1>6, <2>2, FS_RemoveElement, FS_CardinalityType
  <2> QED
    BY <2>3, <2>4 DEF IdsInv
<1>8. count' + Len(freeIds') = count + Len(freeIds)
  <2>1. count' + Len(freeIds') = (count - 1) + (Len(freeIds) + 1)
    BY <1>3, Zenon
  <2>2. PICK c \in Nat, l \in Nat : c = count /\ l = Len(freeIds)
    BY <1>2
  <2>3. (c - 1) + (l + 1) = c + l
    BY SMT
  <2> QED
    BY <2>1, <2>2, <2>3, Zenon
<1>9. PICK m : m = count + Len(freeIds)
  OBVIOUS
<1>10. /\ \A v \in Workers : sleeping[v] <= m
       /\ \A i \in 1..Len(freeIds) : freeIds[i] <= m
       /\ m <= W /\ m \in Nat
  BY <1>2, <1>9, SMT DEF IdsInv
<1>11. \A v \in Workers : sleeping'[v] <= m
  BY <1>2, <1>5, <1>10, SMT
<1>12. \A i \in 1..Len(freeIds') : freeIds'[i] <= m
  BY <1>1, <1>3, <1>4, <1>10, Zenon
<1>13. \A i \in 1..Len(freeIds) : freeIds[i] # n
  BY <1>1 DEF IdsInv
<1>14. \A i, j \in 1..Len(freeIds') : freeIds'[i] = freeIds'[j] => i = j
  <2>1. \A i, j \in 1..Len(freeIds) : freeIds[i] = freeIds[j] => i = j
    BY Zenon DEF IdsInv
  <2> SUFFICES ASSUME NEW i \in 1..Len(freeIds'), NEW j \in 1..Len(freeIds'),
                      freeIds'[i] = freeIds'[j]
               PROVE  i = j
    BY Zenon
  <2>2. CASE i \in 1..Len(freeIds) /\ j \in 1..Len(freeIds)
    BY <1>3, <2>1, <2>2, Zenon
  <2>3. CASE i = Len(freeIds) + 1 /\ j \in 1..Len(freeIds)
    BY <1>3, <1>13, <2>3, Zenon
  <2>4. CASE j = Len(freeIds) + 1 /\ i \in 1..Len(freeIds)
    BY <1>3, <1>13, <2>4, Zenon
  <2> QED
    BY <1>4, <2>2, <2>3, <2>4, Zenon
<1>15. \A x, v \in Workers : sleeping'[x] # 0 /\ sleeping'[x] = sleeping'[v] => x = v
  BY <1>5, SMT DEF IdsInv
<1>16. \A v \in Workers : \A i \in 1..Len(freeIds') : freeIds'[i] # sleeping'[v]
  <2> SUFFICES ASSUME NEW v \in Workers, NEW i \in 1..Len(freeIds')
               PROVE  freeIds'[i] # sleeping'[v]
    OBVIOUS
  <2>1. CASE i \in 1..Len(freeIds)
    BY <1>2, <1>3, <1>5, <2>1, SMT DEF IdsInv
  <2>2. CASE i = Len(freeIds) + 1
    BY <1>1, <1>2, <1>3, <1>5, <2>2, SMT DEF IdsInv
  <2> QED
    BY <1>4, <2>1, <2>2
<1>17. IdsInv'
  <2>1. m = count' + Len(freeIds')
    BY <1>8, <1>9, Zenon
  <2>2. /\ count' + Len(freeIds') <= W
        /\ \A v \in Workers : sleeping'[v] <= count' + Len(freeIds')
        /\ \A i \in 1..Len(freeIds') : freeIds'[i] <= count' + Len(freeIds')
    BY <1>10, <1>11, <1>12, <2>1, Zenon
  <2>3. count' = Cardinality(Asleep')
    BY <1>7, Zenon
  <2> QED
    BY <1>14, <1>15, <1>16, <2>2, <2>3, Zenon DEF IdsInv
<1> QED
  BY <1>3, <1>5, <1>7, <1>17

\* The waker of a worker that wakes is off the list (remove()).
LEMMA RemoveWaker ==
  ASSUME Types, IdsInv, ListInv, NEW w \in Workers, sleeping[w] # 0,
         sleeping' = [sleeping EXCEPT ![w] = 0],
         NEW mine, mine = {i \in 1..Len(wakers) : wakers[i].id = sleeping[w]},
         wakers' = IF mine = {} THEN wakers
                   ELSE Without(wakers, CHOOSE i \in mine : \A j \in mine : j <= i)
  PROVE  /\ wakers' \in Seq(Entries)
         /\ ListInv'
         /\ \A v \in Workers : InList(wakers', v) <=> InList(wakers, v) /\ v # w
<1>1. \A i \in 1..Len(wakers) : wakers[i].worker \in Workers
  <2>1. \A i \in 1..Len(wakers) : wakers[i] \in Entries
    BY SMT DEF Types
  <2> QED
    BY <2>1, Zenon DEF Entries
<1>2. wakers \in Seq(Entries) /\ Len(wakers) \in Nat
  BY SMT DEF Types
<1>3. \A v \in Workers : v # w => sleeping'[v] = sleeping[v]
  BY DEF Types
<1>4. \A i \in 1..Len(wakers) : i \in mine <=> wakers[i].worker = w
  BY <1>1 DEF ListInv, IdsInv
<1>5. CASE mine = {}
  <2>1. wakers' = wakers /\ \A i \in 1..Len(wakers) : wakers[i].worker # w
    BY <1>4, <1>5
  <2>2. ListInv'
    <3>1. \A i \in 1..Len(wakers') : sleeping'[wakers'[i].worker] = wakers'[i].id
      <4>1. ASSUME NEW i \in 1..Len(wakers)
            PROVE  sleeping'[wakers[i].worker] = wakers[i].id
        <5>1. sleeping[wakers[i].worker] = wakers[i].id
          BY DEF ListInv
        <5>2. sleeping'[wakers[i].worker] = sleeping[wakers[i].worker]
          BY <1>1, <1>3, <2>1, Zenon
        <5> QED
          BY <5>1, <5>2, Zenon
      <4> QED
        BY <2>1, <4>1, Zenon
    <3>2. \A i, j \in 1..Len(wakers') : wakers'[i].worker = wakers'[j].worker => i = j
      BY <2>1, Zenon DEF ListInv
    <3> QED
      BY <3>1, <3>2 DEF ListInv
  <2>3. \A v \in Workers : InList(wakers', v) <=> InList(wakers, v) /\ v # w
    BY <2>1, Zenon DEF InList
  <2> QED
    BY <1>2, <2>1, <2>2, <2>3
<1>6. CASE mine # {}
  <2>1. PICK i \in mine : TRUE
    BY <1>6
  <2>2. i \in 1..Len(wakers) /\ i \in Nat /\ wakers[i].worker = w
    BY <1>2, <1>4, <2>1, SMT
  <2>3. \A j \in mine : j = i
    BY <1>4, <2>2, Zenon DEF ListInv
  <2>4. (CHOOSE k \in mine : \A j \in mine : j <= k) = i
    <3>1. \A j \in mine : j <= i
      BY <2>2, <2>3, SMT
    <3>2. (CHOOSE k \in mine : \A j \in mine : j <= k) \in mine
      BY <2>1, <3>1, Zenon
    <3> QED
      BY <2>3, <3>2, Zenon
  <2>5. wakers' = Without(wakers, i)
    BY <1>6, <2>4, Zenon
  <2>6. wakers' \in Seq(Entries) /\ Removed(wakers', wakers, i)
    BY <1>2, <2>2, <2>5, WithoutRemoves
  <2> QED
    BY <1>3, <2>2, <2>6, ListRemoved, Zenon
<1> QED
  BY <1>5, <1>6

\* The task that a worker has found starts to run.
LEMMA RunTasks ==
  ASSUME Types, TasksInv, NEW w \in Workers, wpc[w] = "found",
         wpc' = [wpc EXCEPT ![w] = "run"],
         tstate' = [tstate EXCEPT ![task[w]] = "running"],
         UNCHANGED <<queue, local, task>>
  PROVE  TasksInv'
<1>1. PICK t : t = task[w]
  OBVIOUS
<1>2. t \in Tasks /\ t # NoTask
  BY <1>1 DEF Types, TasksInv
<1>3. /\ tstate'[t] = "running"
      /\ \A u \in Tasks : u # t => tstate'[u] = tstate[u]
      /\ wpc'[w] = "run"
      /\ \A v \in Workers : v # w => wpc'[v] = wpc[v] /\ task[v] # t
  BY <1>1, <1>2 DEF Types, TasksInv
<1>4. /\ \A i \in 1..Len(queue) : queue[i] \in Tasks /\ queue[i] # t
      /\ \A v \in Workers : t \notin local[v] /\ local[v] \subseteq Tasks
  BY <1>1, SMT DEF Types, TasksInv
<1>5. \A v \in Workers : task[v] # NoTask => task[v] \in Tasks
  BY DEF Types
<1>6. \A v \in Workers : \A u \in local[v] : Home[u] = v /\ tstate'[u] = "scheduled"
  BY <1>3, <1>4 DEF TasksInv
<1>7. \A v \in Workers : task[v] # NoTask <=> wpc'[v] \in {"found", "run"}
  BY <1>1, <1>2, <1>3, SMT DEF TasksInv
<1>8. \A v \in Workers : wpc'[v] = "found" => wpc[v] = "found" /\ v # w
  BY <1>3
<1>9. \A v \in Workers : wpc'[v] = "found" => tstate'[task[v]] = "scheduled"
  BY <1>3, <1>5, <1>8, SMT DEF TasksInv
<1>10. \A v \in Workers : wpc'[v] = "run" => tstate'[task[v]] \in {"running", "rewoken"}
  BY <1>1, <1>3, <1>5, SMT DEF TasksInv
<1>11. \A u \in Tasks : tstate'[u] = "scheduled" =>
         \/ \E i \in 1..Len(queue) : queue[i] = u
         \/ \E v \in Workers : u \in local[v]
         \/ \E v \in Workers : task[v] = u /\ wpc'[v] = "found"
  BY <1>1, <1>3, SMT DEF TasksInv
<1>12. \A i \in 1..Len(queue) : Home[queue[i]] = 0 /\ tstate'[queue[i]] = "scheduled"
  BY <1>3, <1>4 DEF TasksInv
<1> QED
  BY <1>6, <1>7, <1>8, <1>9, <1>10, <1>11, <1>12 DEF TasksInv

\* Wake: a worker with a task is no sleeper, and the flag says what is left.
LEMMA WakeStep ==
  ASSUME IndInv, NEW w \in Workers, Wake(w)
  PROVE  IndInv'
<1>1. Types /\ IdsInv /\ ListInv /\ TasksInv /\ WakeInv /\ GlobalInv
  BY DEF IndInv
<1>2. /\ wpc[w] = "found" /\ wpc' = [wpc EXCEPT ![w] = "run"]
      /\ tstate' = [tstate EXCEPT ![task[w]] = "running"]
      /\ UNCHANGED <<queue, local, cursor, task, permit, spc>>
  BY DEF Wake, At
<1>3. TasksInv'
  BY <1>1, <1>2, RunTasks
<1>4. /\ wpc'[w] = "run" /\ \A v \in Workers : v # w => wpc'[v] = wpc[v]
      /\ wpc' \in [Workers -> {"search", "sleep", "parked", "found", "run"}]
      /\ tstate' \in [Tasks -> {"idle", "scheduled", "running", "rewoken"}]
  BY <1>1, <1>2 DEF Types
<1>5. CASE sleeping[w] = 0 /\ UNCHANGED sleepVars
  <2>1. UNCHANGED <<notified, count, wakers, freeIds, sleeping>>
    BY <1>5 DEF sleepVars
  <2>2. IdsInv' /\ ListInv' /\ \A v : InList(wakers', v) <=> InList(wakers, v)
    BY <1>1, <2>1, SleepersKept
  <2>3. Types'
    BY <1>1, <1>2, <1>4, <2>1 DEF Types
  <2>4. WakeInv'
    BY <1>1, <1>2, <1>4, <2>2, WakeKept
  <2>5. GlobalInv'
    BY <1>1, <1>2, <1>4, <2>1, <2>2, GlobalKept
  <2> QED
    BY <1>3, <2>2, <2>3, <2>4, <2>5 DEF IndInv
<1>6. CASE /\ sleeping[w] # 0
           /\ sleeping' = [sleeping EXCEPT ![w] = 0]
           /\ count' = count - 1
           /\ freeIds' = Append(freeIds, sleeping[w])
           /\ LET mine == {i \in 1..Len(wakers) : wakers[i].id = sleeping[w]}
              IN  wakers' = IF mine = {} THEN wakers
                            ELSE Without(wakers, CHOOSE i \in mine : \A j \in mine : j <= i)
           /\ notified' = IsNotified(count', wakers')
  <2>1. sleeping' \in [Workers -> Nat] /\ freeIds' \in Seq(Nat \ {0}) /\ count' \in Nat /\ IdsInv'
    BY <1>1, <1>6, RemoveIds
  <2>2. PICK mine : mine = {i \in 1..Len(wakers) : wakers[i].id = sleeping[w]}
    OBVIOUS
  <2>3. wakers' = IF mine = {} THEN wakers
                  ELSE Without(wakers, CHOOSE i \in mine : \A j \in mine : j <= i)
    BY <1>6, <2>2
  <2>4. /\ wakers' \in Seq(Entries) /\ ListInv'
        /\ \A v \in Workers : InList(wakers', v) <=> InList(wakers, v) /\ v # w
    BY <1>1, <1>6, <2>2, <2>3, RemoveWaker
  <2>5. Types'
    BY <1>1, <1>2, <1>4, <1>6, <2>1, <2>4 DEF Types, IsNotified
  <2>6. WakeInv'
    <3>1. \A v \in Workers : v # w => (InList(wakers', v) <=> InList(wakers, v))
      BY <2>4
    <3> QED
      BY <1>1, <1>2, <1>4, <3>1, WakeKept
  <2>7. GlobalInv'
    <3>1. ~Settled(w)' /\ ~InList(wakers', w)
      BY <1>4, <2>4 DEF Settled
    <3> QED
      BY <3>1 DEF GlobalInv
  <2> QED
    BY <1>3, <2>1, <2>4, <2>5, <2>6, <2>7 DEF IndInv
<1> QED
  BY <1>5, <1>6 DEF Wake, Remove

\* Return: the task is idle, or it is scheduled by the worker it ran on.
LEMMA ReturnStep ==
  ASSUME IndInv, NEW w \in Workers, Return(w)
  PROVE  IndInv'
<1>1. Types /\ IdsInv /\ ListInv /\ TasksInv /\ WakeInv /\ GlobalInv
  BY DEF IndInv
<1>2. PICK t : t = task[w]
  OBVIOUS
<1>3. /\ wpc[w] = "run" /\ spc[w] = Ready
      /\ wpc' = [wpc EXCEPT ![w] = "search"]
      /\ task' = [task EXCEPT ![w] = NoTask]
      /\ UNCHANGED <<cursor, notified, count, wakers, freeIds, sleeping, permit>>
  BY DEF Return, At, sleepVars
<1>4. /\ t \in Tasks /\ t # NoTask /\ w \in Agents /\ spc[w].pc = "none"
      /\ wpc'[w] = "search" /\ \A v \in Workers : v # w => wpc'[v] = wpc[v]
      /\ task'[w] = NoTask /\ \A v \in Workers : v # w => task'[v] = task[v]
      /\ wpc' \in [Workers -> {"search", "sleep", "parked", "found", "run"}]
      /\ task' \in [Workers -> Tasks \cup {NoTask}]
  BY <1>1, <1>2, <1>3 DEF Types, TasksInv, Ready, Agents
<1>5. IdsInv' /\ ListInv' /\ \A v : InList(wakers', v) <=> InList(wakers, v)
  BY <1>1, <1>3, SleepersKept
<1>6. CASE /\ tstate[t] = "running"
           /\ tstate' = [tstate EXCEPT ![t] = "idle"]
           /\ UNCHANGED <<queue, local, spc>>
  <2>1. /\ tstate'[t] = "idle"
        /\ \A u \in Tasks : u # t => tstate'[u] = tstate[u]
        /\ tstate' \in [Tasks -> {"idle", "scheduled", "running", "rewoken"}]
    BY <1>1, <1>4, <1>6 DEF Types
  <2>2. Types'
    BY <1>1, <1>3, <1>4, <1>6, <2>1 DEF Types
  <2>3. TasksInv'
    <3>1. \A v \in Workers : v # w => task[v] # t
      BY <1>1, <1>2, <1>4 DEF TasksInv
    <3>2. /\ \A i \in 1..Len(queue) : queue[i] \in Tasks /\ queue[i] # t
          /\ \A v \in Workers : t \notin local[v] /\ local[v] \subseteq Tasks
          /\ \A v \in Workers : task[v] # NoTask => task[v] \in Tasks
      BY <1>1, <1>6, SMT DEF Types, TasksInv
    <3>3. \A u \in Tasks : tstate'[u] = "scheduled" <=> tstate[u] = "scheduled"
      BY <1>6, <2>1
    <3>4. \A v \in Workers : wpc'[v] \in {"found", "run"} =>
            v # w /\ wpc'[v] = wpc[v] /\ task'[v] = task[v] /\ task[v] \in Tasks
      BY <1>1, <1>4, <3>2, SMT DEF TasksInv
    <3>5. \A v \in Workers : task'[v] # NoTask <=> wpc'[v] \in {"found", "run"}
      BY <1>1, <1>4, SMT DEF TasksInv
    <3>6. \A v \in Workers : wpc'[v] = "found" =>
           /\ tstate'[task'[v]] = "scheduled"
           /\ \A i \in 1..Len(queue) : queue[i] # task'[v]
           /\ \A u \in Workers : task'[v] \notin local[u]
      BY <1>1, <3>3, <3>4, SMT DEF TasksInv
    <3>7. \A v \in Workers : wpc'[v] = "run" => tstate'[task'[v]] \in {"running", "rewoken"}
      BY <1>1, <2>1, <3>1, <3>4, SMT DEF TasksInv
    <3>8. \A x, v \in Workers : task'[x] # NoTask /\ task'[x] = task'[v] => x = v
      BY <1>1, <1>4, SMT DEF TasksInv
    <3>9. \A u \in Tasks : tstate'[u] = "scheduled" =>
           \/ \E i \in 1..Len(queue) : queue[i] = u
           \/ \E v \in Workers : u \in local[v]
           \/ \E v \in Workers : task'[v] = u /\ wpc'[v] = "found"
      BY <1>1, <1>3, <1>4, <3>3, SMT DEF TasksInv
    <3>10. /\ \A i \in 1..Len(queue) : Home[queue[i]] = 0 /\ tstate'[queue[i]] = "scheduled"
           /\ \A v \in Workers : \A u \in local[v] : Home[u] = v /\ tstate'[u] = "scheduled"
      BY <1>1, <3>2, <3>3, SMT DEF TasksInv
    <3> QED
      BY <1>1, <1>6, <3>5, <3>6, <3>7, <3>8, <3>9, <3>10 DEF TasksInv
  <2>4. WakeInv'
    BY <1>1, <1>3, <1>4, <1>5, <1>6, WakeKept
  <2>5. GlobalInv'
    BY <1>1, <1>3, <1>4, <1>5, <1>6, GlobalKept
  <2> QED
    BY <1>5, <2>2, <2>3, <2>4, <2>5 DEF IndInv
<1>7. CASE tstate[t] = "rewoken" /\ Schedule(w, t)
  <2>1. Types'
    <3>1. /\ queue' \in Seq(Tasks)
          /\ local' \in [Workers -> SUBSET Tasks]
          /\ tstate' \in [Tasks -> {"idle", "scheduled", "running", "rewoken"}]
          /\ spc' \in [Agents -> Scheds]
          /\ \A b \in Agents : spc'[b].pc = "notify" => spc'[b].task \in Tasks
          /\ \A b \in Agents : spc'[b].pc = "wake" => spc'[b].worker \in Workers
      BY <1>1, <1>4, <1>7, ScheduleTypes
    <3> QED
      BY <1>1, <1>3, <1>4, <3>1 DEF Types
  <2>2. TasksInv'
    BY <1>1, <1>2, <1>3, <1>4, <1>7, ScheduleTasks
  <2>3. WakeInv' /\ GlobalInv'
    BY <1>3, <1>4, <1>7, ScheduleWakes DEF sleepVars
  <2> QED
    BY <1>5, <2>1, <2>2, <2>3 DEF IndInv
<1> QED
  BY <1>2, <1>6, <1>7 DEF Return

-----------------------------------------------------------------------------
(* The theorems                                                            *)

\* A step that changes nothing.
LEMMA StutterStep == IndInv /\ UNCHANGED vars => IndInv'
<1> SUFFICES ASSUME IndInv, UNCHANGED vars PROVE IndInv'
  OBVIOUS
<1>1. Types /\ IdsInv /\ ListInv /\ TasksInv /\ WakeInv /\ GlobalInv
  BY DEF IndInv
<1>2. UNCHANGED <<queue, local, cursor, notified, count, wakers, freeIds,
                  sleeping, wpc, task, permit, tstate, spc>>
  BY DEF vars, sleepVars
<1>3. IdsInv' /\ ListInv' /\ \A w : InList(wakers', w) <=> InList(wakers, w)
  BY <1>1, <1>2, SleepersKept
<1>4. Types'
  BY <1>1, <1>2 DEF Types
<1>5. TasksInv'
  BY <1>1, <1>2, TasksKept
<1>6. WakeInv'
  BY <1>1, <1>2, <1>3, WakeKept
<1>7. GlobalInv'
  BY <1>1, <1>2, <1>3, SMT DEF GlobalInv, Settled
<1> QED
  BY <1>3, <1>4, <1>5, <1>6, <1>7 DEF IndInv

\* The inductive invariant holds in every state the executor can reach.
THEOREM Inductive == Spec => []IndInv
<1>1. IndInv /\ [Next]_vars => IndInv'
  <2> SUFFICES ASSUME IndInv, [Next]_vars PROVE IndInv'
    OBVIOUS
  <2>1. ASSUME NEW a \in Agents, Scheduling(a) PROVE IndInv'
    BY <2>1, NotifyFlagStep, NotifySleepersStep, NotifyExecutorStep, WakeWorkerStep
    DEF Scheduling
  <2>2. ASSUME NEW a \in Threads, NEW t \in Tasks, ThreadWake(a, t) PROVE IndInv'
    BY <2>2, ThreadWakeStep
  <2>3. ASSUME NEW w \in Workers, WorkerStep(w) \/ Yield(w) PROVE IndInv'
    BY <2>3, SearchStep, SleepStep, UnparkStep, WakeStep, ReturnStep, YieldStep
    DEF WorkerStep
  <2>4. CASE UNCHANGED vars
    BY <2>4, StutterStep
  <2> QED
    BY <2>1, <2>2, <2>3, <2>4 DEF Next
<1> QED
  BY <1>1, InitInd, PTL DEF Spec

\* The types of the executor's state, for every number of workers and tasks.
THEOREM TypeOKHolds == Spec => []TypeOK
<1>1. IndInv => TypeOK
  <2> SUFFICES ASSUME Types, IdsInv, TasksInv PROVE TypeOK
    BY DEF IndInv
  <2>1. \A w \in Workers : local[w] \subseteq {t \in Tasks : Home[t] = w}
    BY DEF Types, TasksInv
  <2>2. count \in 0..W /\ \A w \in Workers : sleeping[w] \in 0..W
    <3>1. /\ count \in Nat /\ Len(freeIds) \in Nat /\ W \in Nat
          /\ \A w \in Workers : sleeping[w] \in Nat
      BY ExecutorAssumption, SMT DEF Types
    <3> QED
      BY <3>1, SMT DEF IdsInv
  <2> QED
    BY <2>1, <2>2 DEF Types, TypeOK
<1> QED
  BY <1>1, Inductive, PTL

\* The list of sleepers is consistent whatever insert(), update(), remove() and
\* the two notify functions did to it.
THEOREM SleepersConsistentHolds == Spec => []SleepersConsistent
<1>1. IndInv => SleepersConsistent
  <2> SUFFICES ASSUME Types, IdsInv, ListInv PROVE SleepersConsistent
    BY DEF IndInv
  <2>1. \A i \in 1..Len(wakers) : wakers[i].id # 0
    <3>1. \A i \in 1..Len(wakers) : wakers[i] \in Entries
      BY SMT DEF Types
    <3> QED
      BY <3>1, Zenon DEF Entries
  <2> QED
    BY <2>1, Zenon DEF SleepersConsistent, IdsInv, ListInv, Asleep
<1> QED
  BY <1>1, Inductive, PTL

\* No task is lost or duplicated between the global queue, the slots of the
\* workers and the workers themselves.
THEOREM TasksConservedHolds == Spec => []TasksConserved
<1>1. IndInv => TasksConserved
  <2> SUFFICES ASSUME Types, TasksInv, NEW t \in Tasks
               PROVE  /\ tstate[t] = "scheduled" <=>
                            \/ \E i \in 1..Len(queue) : queue[i] = t
                            \/ \E w \in Workers : t \in local[w]
                            \/ \E w \in Workers : task[w] = t /\ wpc[w] = "found"
                      /\ Cardinality({w \in Workers : task[w] = t}) <= 1
    BY Zenon DEF IndInv, TasksConserved
  <2>1. tstate[t] = "scheduled" <=>
            \/ \E i \in 1..Len(queue) : queue[i] = t
            \/ \E w \in Workers : t \in local[w]
            \/ \E w \in Workers : task[w] = t /\ wpc[w] = "found"
    BY SMT DEF TasksInv
  <2>2. Cardinality({w \in Workers : task[w] = t}) <= 1
    <3> DEFINE H == {w \in Workers : task[w] = t}
    <3>1. t # NoTask
      BY SMT DEF Tasks, NoTask
    <3>2. CASE H = {}
      <4>1. Cardinality(H) = 0
        BY <3>2, FS_EmptySet
      <4> QED
        BY <4>1
    <3>3. CASE H # {}
      <4>1. PICK w \in Workers : task[w] = t
        BY <3>3
      <4>2. H = {w}
        BY <3>1, <4>1 DEF TasksInv
      <4>3. Cardinality(H) = 1
        BY <4>2, FS_Singleton
      <4> QED
        BY <4>3
    <3> QED
      BY <3>2, <3>3
  <2> QED
    BY <2>1, <2>2
<1> QED
  BY <1>1, Inductive, PTL

\* The promise of notify_executor() and update(): a block that is ready never
\* waits for a worker that has parked and that nobody is going to wake.
THEOREM LocalNotForgottenHolds == Spec => []LocalNotForgotten
<1>1. IndInv => LocalNotForgotten
  BY DEF IndInv, WakeInv, LocalNotForgotten, Parked, Coming, NotifyPending, WakePending
<1> QED
  BY <1>1, Inductive, PTL

\* The promise of notify() and the flag `notified`: a ready task of the global
\* queue never waits while all workers have parked and nobody is about to wake one.
THEOREM GlobalNotForgottenHolds == Spec => []GlobalNotForgotten
<1>1. IndInv => GlobalNotForgotten
  <2> SUFFICES ASSUME WakeInv, GlobalInv, queue # <<>>, \A w \in Workers : Parked(w)
               PROVE  \E a \in Agents : spc[a].pc # "none"
    BY DEF IndInv, GlobalNotForgotten
  <2>1. CASE \E a \in Agents : spc[a].pc \in {"notify", "pop", "wake"}
    BY <2>1
  <2>2. CASE \A a \in Agents : spc[a].pc \notin {"notify", "pop", "wake"}
    <3>1. ~NotifyPending(spc, 0) /\ \A w \in Workers : ~WakePending(spc, w)
      BY <2>2 DEF NotifyPending, WakePending
    <3>2. \A w \in Workers : InList(wakers, w)
      BY <3>1 DEF WakeInv, Parked
    <3>3. \A w \in Workers : Settled(w)
      BY <3>2 DEF Settled, Parked
    <3> QED
      BY <2>2, <3>1, <3>3 DEF GlobalInv
  <2> QED
    BY <2>1, <2>2
<1> QED
  BY <1>1, Inductive, PTL

-----------------------------------------------------------------------------
(***************************************************************************)
(* map_block(): worker w has exactly the blocks from Start(w) to before    *)
(* Start(w + 1).                                                           *)
(***************************************************************************)

\* Quotient and remainder of a division by a positive number.
LEMMA Division ==
  ASSUME NEW a \in Nat, NEW d \in Nat \ {0}
  PROVE  /\ a \div d \in Nat
         /\ a % d \in 0 .. d - 1
         /\ a = d * (a \div d) + (a % d)
BY SMT

\* A product grows with its factor.
LEMMA ProductMonotone ==
  ASSUME NEW x \in Nat, NEW y \in Nat, NEW n \in Nat, x <= y
  PROVE  x * n <= y * n
<1>1. y * n = x * n + (y - x) * n
  BY SMT
<1>2. (y - x) * n >= 0
  BY SMT
<1> QED
  BY <1>1, <1>2, SMT

\* The share of one worker: n blocks, or n + 1 for the first r workers.
LEMMA StartStep ==
  ASSUME NEW x \in Nat, NEW n_blocks \in Nat, NEW n_cores \in Nat \ {0}
  PROVE  /\ Start(x, n_blocks, n_cores) \in Nat
         /\ Start(x + 1, n_blocks, n_cores)
              = Start(x, n_blocks, n_cores) + n_blocks \div n_cores
                  + (IF x < n_blocks % n_cores THEN 1 ELSE 0)
<1> DEFINE n == n_blocks \div n_cores
           r == n_blocks % n_cores
<1>1. n \in Nat /\ r \in Nat
  BY Division, SMT
<1> HIDE DEF n, r
<1>2. x * n \in Nat /\ (x + 1) * n = x * n + n
  BY <1>1, SMT
<1> QED
  BY <1>1, <1>2, SMT DEF Start, Smaller, n, r

\* The first x workers have no more blocks than the first y, if x <= y.
LEMMA StartMonotone ==
  ASSUME NEW x \in Nat, NEW y \in Nat, x <= y,
         NEW n_blocks \in Nat, NEW n_cores \in Nat \ {0}
  PROVE  Start(x, n_blocks, n_cores) <= Start(y, n_blocks, n_cores)
<1> DEFINE n == n_blocks \div n_cores
           r == n_blocks % n_cores
<1>1. n \in Nat /\ r \in Nat
  BY Division, SMT
<1> HIDE DEF n, r
<1>2. x * n <= y * n /\ x * n \in Nat /\ y * n \in Nat
  BY <1>1, ProductMonotone, SMT
<1> QED
  BY <1>1, <1>2, SMT DEF Start, Smaller, n, r

\* No worker has no blocks; all workers have all blocks.
LEMMA StartEnds ==
  ASSUME NEW n_blocks \in Nat, NEW n_cores \in Nat \ {0}
  PROVE  /\ Start(0, n_blocks, n_cores) = 0
         /\ Start(n_cores, n_blocks, n_cores) = n_blocks
<1> DEFINE n == n_blocks \div n_cores
           r == n_blocks % n_cores
<1>1. n \in Nat /\ r \in 0 .. n_cores - 1 /\ n_blocks = n_cores * n + r
  BY Division, Zenon
<1> HIDE DEF n, r
<1>2. 0 * n = 0
  BY <1>1, SMT
<1> QED
  BY <1>1, <1>2, SMT DEF Start, Smaller, n, r

\* Every block lies in the range of some worker.
LEMMA WorkerOfBlock ==
  ASSUME NEW n_blocks \in Nat, NEW n_cores \in Nat \ {0},
         NEW b \in 0 .. n_blocks - 1
  PROVE  \E w \in 0 .. n_cores - 1 :
           /\ Start(w, n_blocks, n_cores) <= b
           /\ b < Start(w + 1, n_blocks, n_cores)
<1> DEFINE n == n_blocks \div n_cores
           r == n_blocks % n_cores
<1>1. n \in Nat /\ r \in 0 .. n_cores - 1 /\ n_blocks = n_cores * n + r
  BY Division, Zenon
<1> HIDE DEF n, r
<1>2. CASE b < r * (n + 1)
  <2> DEFINE w == b \div (n + 1)
             m == b % (n + 1)
  <2>1. w \in Nat /\ m \in 0 .. n /\ b = (n + 1) * w + m
    <3>1. PICK d \in Nat \ {0} : d = n + 1 /\ d - 1 = n
      BY <1>1, SMT
    <3>2. b \in Nat
      BY SMT
    <3>3. w = b \div d /\ m = b % d
      BY <3>1
    <3> HIDE DEF w, m
    <3>4. w \in Nat /\ m \in 0 .. d - 1 /\ b = d * w + m
      BY <3>2, <3>3, Division, Zenon
    <3> QED
      BY <3>1, <3>4, Zenon
  <2> HIDE DEF w, m
  <2>2. w < r
    <3> SUFFICES ASSUME r <= w PROVE FALSE
      BY <1>1, <2>1, SMT
    <3>1. r * (n + 1) <= w * (n + 1)
      BY <1>1, <2>1, ProductMonotone, SMT
    <3> QED
      BY <1>1, <1>2, <2>1, <3>1, SMT
  <2>3. Start(w, n_blocks, n_cores) = w * n + w
    BY <1>1, <2>1, <2>2, SMT DEF Start, Smaller, n, r
  <2>5. Start(w + 1, n_blocks, n_cores) = w * n + w + n + 1
    <3>1. Start(w + 1, n_blocks, n_cores)
            = Start(w, n_blocks, n_cores) + n + (IF w < r THEN 1 ELSE 0)
      BY <2>1, StartStep, Zenon DEF n, r
    <3>2. w * n \in Nat
      BY <1>1, <2>1, SMT
    <3> QED
      BY <1>1, <2>1, <2>2, <2>3, <3>1, <3>2, SMT
  <2>4. b = w * n + w + m
    BY <1>1, <2>1, SMT
  <2> QED
    BY <1>1, <2>1, <2>2, <2>3, <2>4, <2>5, SMT
<1>3. CASE r * (n + 1) <= b
  <2>1. r * (n + 1) = r * n + r /\ r * n \in Nat
    BY <1>1, SMT
  <2>2. b - (r * n + r) \in Nat
    BY <1>1, <1>3, <2>1, SMT
  <2>3. n # 0
    <3> SUFFICES ASSUME n = 0 PROVE FALSE
      OBVIOUS
    <3> QED
      BY <1>1, <1>3, SMT
  <2> DEFINE k == (b - (r * n + r)) \div n
             m == (b - (r * n + r)) % n
  <2>4. k \in Nat /\ m \in 0 .. n - 1 /\ b - (r * n + r) = n * k + m
    <3>1. n \in Nat \ {0}
      BY <1>1, <2>3
    <3> QED
      BY <2>2, <3>1, Division, Zenon
  <2> HIDE DEF k, m
  <2>5. r + k \in Nat /\ (r + k) * n = r * n + n * k
    BY <1>1, <2>4, SMT
  <2>6. b = (r + k) * n + r + m
    BY <1>1, <2>1, <2>4, <2>5, SMT
  <2>7. r + k < n_cores
    <3> SUFFICES ASSUME n_cores <= r + k PROVE FALSE
      BY <1>1, <2>5, SMT
    <3>1. n_cores * n <= (r + k) * n
      BY <1>1, <2>5, ProductMonotone, SMT
    <3> QED
      BY <1>1, <2>4, <2>6, <3>1, SMT
  <2>8. /\ Start(r + k, n_blocks, n_cores) = (r + k) * n + r
        /\ Start(r + k + 1, n_blocks, n_cores) = (r + k) * n + n + r
    BY <1>1, <2>4, <2>5, SMT DEF Start, Smaller, n, r
  <2> QED
    BY <1>1, <2>4, <2>5, <2>6, <2>7, <2>8, SMT
<1> QED
  BY <1>1, <1>2, <1>3, SMT

\* map_block() finds the worker in whose range the block lies.
LEMMA MapBlockFinds ==
  ASSUME NEW n_blocks \in Nat, NEW n_cores \in Nat \ {0},
         NEW b \in 0 .. n_blocks - 1,
         NEW w \in 0 .. n_cores - 1,
         Start(w, n_blocks, n_cores) <= b,
         b < Start(w + 1, n_blocks, n_cores)
  PROVE  map_block(b, n_blocks, n_cores) = w
<1> DEFINE first(x) == Start(x, n_blocks, n_cores)
           found == {x \in 1 .. n_cores - 1 : b < first(x)}
<1>1. \A x \in Nat : first(x) \in Nat
  BY StartStep
<1>2. \A x \in Nat : x <= w => first(x) <= first(w)
  BY StartMonotone, SMT
<1>3. \A x \in Nat : w + 1 <= x => first(w + 1) <= first(x)
  BY StartMonotone, SMT
<1>4. map_block(b, n_blocks, n_cores) =
        IF found = {} THEN n_cores - 1
        ELSE (CHOOSE x \in found : \A y \in found : x <= y) - 1
  BY DEF map_block
<1>5. first(w) <= b /\ b < first(w + 1)
  OBVIOUS
<1> HIDE DEF first
<1>6. \A x \in 1 .. n_cores - 1 : x \in found <=> w + 1 <= x
  BY <1>1, <1>2, <1>3, <1>5, SMT
<1>7. CASE w = n_cores - 1
  <2>1. found = {}
    BY <1>6, <1>7, SMT
  <2> QED
    BY <1>4, <1>7, <2>1
<1>8. CASE w < n_cores - 1
  <2>1. w + 1 \in found /\ \A y \in found : w + 1 <= y
    BY <1>6, <1>8, SMT
  <2>2. found \subseteq Nat
    BY SMT
  <2> HIDE DEF found
  <2> DEFINE least == CHOOSE x \in found : \A y \in found : x <= y
  <2>3. least \in found /\ \A y \in found : least <= y
    BY <2>1
  <2> HIDE DEF least
  <2>4. least = w + 1
    BY <2>1, <2>2, <2>3, SMT
  <2>5. map_block(b, n_blocks, n_cores) = least - 1
    BY <1>4, <2>1 DEF least
  <2> QED
    BY <2>4, <2>5, SMT
<1> QED
  BY <1>7, <1>8, SMT

\* The share of a worker is its range.
LEMMA ShareIsRange ==
  ASSUME NEW n_blocks \in Nat, NEW n_cores \in Nat \ {0},
         NEW w \in 0 .. n_cores - 1
  PROVE  Share(w, n_blocks, n_cores)
           = Start(w, n_blocks, n_cores) .. Start(w + 1, n_blocks, n_cores) - 1
<1> DEFINE first(x) == Start(x, n_blocks, n_cores)
<1>1. first(w) \in Nat /\ first(w + 1) \in Nat
  <2>1. w \in Nat /\ w + 1 \in Nat
    BY SMT
  <2> QED
    BY <2>1, StartStep, Zenon
<1>2. first(w + 1) <= n_blocks
  BY StartMonotone, StartEnds, SMT
<1>3. ASSUME NEW b \in Share(w, n_blocks, n_cores)
      PROVE  b \in first(w) .. first(w + 1) - 1
  <2>1. b \in 0 .. n_blocks - 1 /\ map_block(b, n_blocks, n_cores) = w
    BY <1>3, Zenon DEF Share
  <2>2. PICK v \in 0 .. n_cores - 1 : first(v) <= b /\ b < first(v + 1)
    BY <2>1, WorkerOfBlock, Zenon
  <2>3. v = w
    BY <2>1, <2>2, MapBlockFinds, Zenon
  <2> QED
    BY <1>1, <2>1, <2>2, <2>3, SMT
<1>4. ASSUME NEW b \in first(w) .. first(w + 1) - 1
      PROVE  b \in Share(w, n_blocks, n_cores)
  <2> HIDE DEF first
  <2>1. b \in 0 .. n_blocks - 1 /\ first(w) <= b /\ b < first(w + 1)
    BY <1>1, <1>2, SMT
  <2>2. map_block(b, n_blocks, n_cores) = w
    BY <2>1, MapBlockFinds, Zenon DEF first
  <2> QED
    BY <2>1, <2>2, Zenon DEF Share
<1> QED
  BY <1>3, <1>4, Zenon

\* A worker has the quotient of blocks, or one more.
LEMMA ShareSize ==
  ASSUME NEW n_blocks \in Nat, NEW n_cores \in Nat \ {0},
         NEW w \in 0 .. n_cores - 1
  PROVE  /\ n_blocks \div n_cores \in Nat
         /\ Cardinality(Share(w, n_blocks, n_cores))
              \in {n_blocks \div n_cores, n_blocks \div n_cores + 1}
<1> DEFINE n == n_blocks \div n_cores
           low == Start(w, n_blocks, n_cores)
           high == Start(w + 1, n_blocks, n_cores)
<1>1. n \in Nat
  BY Division
<1>2. low \in Nat /\ (high = low + n \/ high = low + n + 1)
  <2>1. w \in Nat
    BY SMT
  <2>2. /\ low \in Nat
        /\ high = low + n + (IF w < n_blocks % n_cores THEN 1 ELSE 0)
    BY <2>1, StartStep, Zenon
  <2> HIDE DEF n, low, high
  <2> QED
    BY <1>1, <2>2, SMT
<1>3. Share(w, n_blocks, n_cores) = low .. high - 1
  BY ShareIsRange
<1> HIDE DEF n, low, high
<1>4. Cardinality(low .. high - 1) = IF low > high - 1 THEN 0 ELSE high - 1 - low + 1
  <2>1. low \in Int /\ high - 1 \in Int
    BY <1>1, <1>2, SMT
  <2> QED
    BY <2>1, FS_Interval
<1>5. Cardinality(Share(w, n_blocks, n_cores)) \in {n, n + 1}
  BY <1>1, <1>2, <1>3, <1>4, SMT
<1> QED
  BY <1>1, <1>5 DEF n

\* Whatever the numbers of blocks and workers, map_block() (flow.rs:119) gives
\* every block a worker that exists, keeps the order of the blocks, and
\* gives no worker two blocks more than another.
THEOREM MappingFairHolds == MappingFair
<1> SUFFICES ASSUME NEW n_blocks \in BlockCounts, NEW n_cores \in CoreCounts
             PROVE  /\ \A b \in 0 .. n_blocks - 1 :
                         map_block(b, n_blocks, n_cores) \in 0 .. n_cores - 1
                    /\ \A b, c \in 0 .. n_blocks - 1 :
                         b <= c => map_block(b, n_blocks, n_cores)
                                     <= map_block(c, n_blocks, n_cores)
                    /\ \A v, w \in 0 .. n_cores - 1 :
                         Cardinality(Share(v, n_blocks, n_cores))
                           <= Cardinality(Share(w, n_blocks, n_cores)) + 1
  BY Zenon DEF MappingFair
<1>1. n_blocks \in Nat /\ n_cores \in Nat \ {0}
  BY MappingAssumption
<1> DEFINE first(x) == Start(x, n_blocks, n_cores)
           worker(b) == map_block(b, n_blocks, n_cores)
<1>2. ASSUME NEW b \in 0 .. n_blocks - 1
      PROVE  worker(b) \in 0 .. n_cores - 1
               /\ first(worker(b)) <= b /\ b < first(worker(b) + 1)
  <2>1. PICK w \in 0 .. n_cores - 1 : first(w) <= b /\ b < first(w + 1)
    BY <1>1, WorkerOfBlock, Zenon
  <2>2. worker(b) = w
    BY <1>1, <2>1, MapBlockFinds, Zenon
  <2> QED
    BY <2>1, <2>2, Zenon
<1>3. ASSUME NEW b \in 0 .. n_blocks - 1, NEW c \in 0 .. n_blocks - 1, b <= c
      PROVE  worker(b) <= worker(c)
  <2>1. /\ worker(b) \in 0 .. n_cores - 1 /\ first(worker(b)) <= b
        /\ worker(c) \in 0 .. n_cores - 1 /\ c < first(worker(c) + 1)
    BY <1>2
  <2>2. PICK v, w \in 0 .. n_cores - 1 : v = worker(b) /\ w = worker(c)
    BY <2>1
  <2>3. ASSUME w + 1 <= v PROVE first(w + 1) <= first(v)
    BY <1>1, <2>3, StartMonotone, SMT
  <2>4. first(v) \in Nat /\ first(w + 1) \in Nat
    <3>1. v \in Nat /\ w + 1 \in Nat
      BY <1>1, SMT
    <3> QED
      BY <1>1, <3>1, StartStep, Zenon
  <2>5. first(v) <= b /\ c < first(w + 1)
    BY <2>1, <2>2
  <2> HIDE DEF first
  <2>6. v <= w
    BY <1>1, <1>3, <2>3, <2>4, <2>5, SMT
  <2> QED
    BY <2>2, <2>6
<1>4. ASSUME NEW v \in 0 .. n_cores - 1, NEW w \in 0 .. n_cores - 1
      PROVE  Cardinality(Share(v, n_blocks, n_cores))
               <= Cardinality(Share(w, n_blocks, n_cores)) + 1
  <2> DEFINE n == n_blocks \div n_cores
             cv == Cardinality(Share(v, n_blocks, n_cores))
             cw == Cardinality(Share(w, n_blocks, n_cores))
  <2>1. n \in Nat /\ cv \in {n, n + 1} /\ cw \in {n, n + 1}
    BY <1>1, ShareSize
  <2> HIDE DEF n, cv, cw
  <2>2. cv <= cw + 1
    BY <2>1, SMT
  <2> QED
    BY <2>2 DEF cv, cw
<1> QED
  BY <1>2, <1>3, <1>4, Zenon
=============================================================================
