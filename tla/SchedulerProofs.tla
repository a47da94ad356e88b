--------------------------- MODULE SchedulerProofs ---------------------------
(***************************************************************************)
(* Proofs about the kernel core, for any number of tasks, any priorities   *)
(* and any even tick modulus.                                              *)
(***************************************************************************)
EXTENDS Scheduler, TickProofs, WellFoundedInduction, TLAPS

-----------------------------------------------------------------------------
(* Selection: the CHOOSEs of HighestOf and HighestAfter have a witness. *)

(* Every non-empty set of naturals has a least element; this is what the   *)
(* selection loops of kernel/scheduler.c rest on.                          *)
LEMMA LeastNatural ==
    ASSUME NEW T \in SUBSET Nat, T # {}
    PROVE  \E x \in T : \A y \in T : x <= y
  <1>1. IsWellFoundedOn(OpToRel(<, Nat), Nat)
    BY NatLessThanWellFounded
  <1>2. PICK x \in T : \A y \in T : ~(<<y, x>> \in OpToRel(<, Nat))
    BY <1>1, WFMin
  <1>3. \A y \in T : ~(y < x)
    BY <1>2 DEF OpToRel
  <1>. QED  BY <1>3

(* Any non-empty set of tasks has a member of highest priority and, among  *)
(* those, of least key.                                                    *)
LEMMA HighestExists ==
    ASSUME NEW S \in SUBSET Tasks, S # {},
           NEW pr \in [Tasks -> 0 .. MaxPriority],
           NEW key \in [S -> Nat]
    PROVE  \E t \in S : \A u \in S :
               pr[t] > pr[u] \/ (pr[t] = pr[u] /\ key[t] <= key[u])
  <1>. DEFINE Gaps == {MaxPriority - pr[t] : t \in S}
  <1>1. Gaps \in SUBSET Nat /\ Gaps # {}
    BY SchedulerAssumption
  <1>2. PICK g \in Gaps : \A h \in Gaps : g <= h
    BY <1>1, LeastNatural
  <1>. DEFINE Best == {t \in S : MaxPriority - pr[t] = g}
              Keys == {key[t] : t \in Best}
  <1>3. Keys \in SUBSET Nat /\ Keys # {}
    BY <1>2
  <1>4. PICK k \in Keys : \A l \in Keys : k <= l
    BY <1>3, LeastNatural
  <1>5. PICK t \in Best : key[t] = k
    BY <1>4
  <1>6. ASSUME NEW u \in S
        PROVE  pr[t] > pr[u] \/ (pr[t] = pr[u] /\ key[t] <= key[u])
    <2>1. g <= MaxPriority - pr[u] /\ MaxPriority - pr[t] = g
      BY <1>2, <1>5
    <2>2. pr[t] \in Nat /\ pr[u] \in Nat /\ MaxPriority \in Nat
      BY SchedulerAssumption
    <2>3. CASE pr[t] = pr[u]
      BY <2>1, <2>3, <1>4, <1>5
    <2>. QED  BY <2>1, <2>2, <2>3
  <1>. QED  BY <1>5, <1>6

(* HighestOf picks a member of highest priority. *)
LEMMA HighestOfPicks ==
    ASSUME NEW S \in SUBSET Tasks, S # {},
           NEW pr \in [Tasks -> 0 .. MaxPriority]
    PROVE  /\ HighestOf(S, pr) \in S
           /\ \A u \in S : pr[u] <= pr[HighestOf(S, pr)]
  <1>. DEFINE key == [t \in S |-> t]
  <1>1. key \in [S -> Nat]
    BY SchedulerAssumption DEF Tasks
  <1>. HIDE DEF key
  <1>2. \E t \in S : \A u \in S : pr[t] > pr[u] \/ (pr[t] = pr[u] /\ key[t] <= key[u])
    BY <1>1, HighestExists
  <1>3. \E t \in S : \A u \in S : pr[t] > pr[u] \/ (pr[t] = pr[u] /\ t <= u)
    BY <1>2 DEF key
  <1>4. /\ HighestOf(S, pr) \in S
        /\ \A u \in S : pr[HighestOf(S, pr)] > pr[u]
                          \/ (pr[HighestOf(S, pr)] = pr[u] /\ HighestOf(S, pr) <= u)
    BY <1>3 DEF HighestOf
  <1>5. \A u \in S : pr[u] \in Nat
    BY SchedulerAssumption
  <1>. QED  BY <1>4, <1>5

(* So does HighestAfter, which breaks ties along the registry ring. *)
LEMMA HighestAfterPicks ==
    ASSUME task_count \in 0 .. MaxTasks,
           NEW S \in SUBSET Registered, S # {},
           NEW pr \in [Tasks -> 0 .. MaxPriority],
           NEW cur \in Registered
    PROVE  /\ HighestAfter(S, pr, cur) \in S
           /\ \A u \in S : pr[u] <= pr[HighestAfter(S, pr, cur)]
  <1>. DEFINE key == [t \in S |-> RingOffset(cur, t)]
  <1>1. S \in SUBSET Tasks /\ key \in [S -> Nat]
    BY SchedulerAssumption DEF Tasks, Registered, RingOffset
  <1>. HIDE DEF key
  <1>2. \E t \in S : \A u \in S : pr[t] > pr[u] \/ (pr[t] = pr[u] /\ key[t] <= key[u])
    BY <1>1, HighestExists
  <1>3. \E t \in S : \A u \in S :
           pr[t] > pr[u] \/ (pr[t] = pr[u] /\ RingOffset(cur, t) <= RingOffset(cur, u))
    BY <1>2 DEF key
  <1>4. /\ HighestAfter(S, pr, cur) \in S
        /\ \A u \in S : \/ pr[HighestAfter(S, pr, cur)] > pr[u]
                        \/ pr[HighestAfter(S, pr, cur)] = pr[u]
    BY <1>3 DEF HighestAfter
  <1>5. \A u \in S : pr[u] \in Nat
    BY <1>1, SchedulerAssumption
  <1>. QED  BY <1>4, <1>5

(* What fr_scheduler_select_next returns for a current task that is idle,  *)
(* RUNNING or BLOCKED: a task, never NULL; the current one only if it can  *)
(* go on; idle only if nobody is READY; and no READY task outranks it,     *)
(* nor does the current task if it could go on.                            *)
LEMMA SelectNextPicks ==
    ASSUME task_count \in 0 .. MaxTasks,
           NEW st \in [TCBs -> TaskStates],
           NEW pr \in [Tasks -> 0 .. MaxPriority],
           NEW cur,
           cur = Idle \/ (cur \in Registered /\ st[cur] \in {"RUNNING", "BLOCKED"}),
           NEW n, n = fr_scheduler_select_next(st, pr, cur)
    PROVE  /\ n # NULL
           /\ n = cur \/ n = Idle \/ n \in ReadyTasks(st)
           /\ (n = cur /\ cur # Idle) => st[cur] = "RUNNING"
           /\ (n # cur /\ cur # Idle /\ st[cur] = "RUNNING") => n # Idle /\ pr[cur] <= pr[n]
           /\ n = Idle => ReadyTasks(st) = {}
           /\ \A u \in ReadyTasks(st) : n # Idle /\ pr[u] <= pr[n]
  <1>1. /\ Idle \in Int /\ Idle \notin Registered /\ NULL \notin Int
        /\ Registered \subseteq Tasks /\ Registered \subseteq Int
        /\ ReadyTasks(st) \in SUBSET Tasks /\ ReadyTasks(st) \in SUBSET Registered
        /\ \A t \in Tasks : pr[t] \in Nat
    BY SchedulerAssumption DEF Idle, Registered, Tasks, ReadyTasks
  <1>2. cur # NULL
    BY <1>1
  <1>3. CASE cur = Idle /\ ReadyTasks(st) = {}
    BY <1>1, <1>2, <1>3 DEF fr_scheduler_select_next
  <1>4. CASE cur = Idle /\ ReadyTasks(st) # {}
    <2>1. n = HighestOf(ReadyTasks(st), pr)
      BY <1>2, <1>4 DEF fr_scheduler_select_next
    <2>2. n \in ReadyTasks(st) /\ \A u \in ReadyTasks(st) : pr[u] <= pr[n]
      BY <1>1, <1>4, <2>1, HighestOfPicks
    <2>. QED  BY <1>1, <1>4, <2>2
  <1>5. CASE cur # Idle /\ ReadyTasks(st) = {}
    <2>1. n = IF st[cur] = "RUNNING" THEN cur ELSE Idle
      BY <1>2, <1>5 DEF fr_scheduler_select_next
    <2>. QED  BY <1>1, <1>2, <1>5, <2>1
  <1>6. CASE cur # Idle /\ ReadyTasks(st) # {}
    <2>. DEFINE best == HighestAfter(ReadyTasks(st), pr, cur)
    <2>1. n = IF st[cur] = "RUNNING" /\ pr[best] < pr[cur] THEN cur ELSE best
      BY <1>2, <1>6 DEF fr_scheduler_select_next, KeepsCpu
    <2>2. best \in ReadyTasks(st) /\ \A u \in ReadyTasks(st) : pr[u] <= pr[best]
      BY <1>1, <1>6, HighestAfterPicks
    <2>3. st[best] = "READY"
      BY <2>2 DEF ReadyTasks
    <2>. HIDE DEF best
    <2>4. CASE n = cur /\ st[cur] = "RUNNING" /\ pr[best] < pr[cur]
      <3>1. cur \in Tasks /\ best \in Tasks /\ pr[best] \in Nat /\ pr[cur] \in Nat
        BY <1>1, <1>6, <2>2
      <3>2. \A u \in ReadyTasks(st) : pr[u] \in Nat /\ pr[u] <= pr[cur]
        BY <1>1, <2>2, <2>4, <3>1
      <3>. QED  BY <1>1, <1>2, <1>6, <2>4, <3>2
    <2>5. CASE n = best /\ ~(st[cur] = "RUNNING" /\ pr[best] < pr[cur])
      <3>1. cur \in Tasks /\ best \in Tasks /\ pr[best] \in Nat /\ pr[cur] \in Nat
        BY <1>1, <1>6, <2>2
      <3>2. st[cur] = "RUNNING" => pr[cur] <= pr[n]
        BY <2>5, <3>1
      <3>. QED  BY <1>1, <1>2, <1>6, <2>2, <2>3, <2>5, <3>2
    <2>. QED  BY <2>1, <2>4, <2>5
  <1>. QED  BY <1>3, <1>4, <1>5, <1>6

-----------------------------------------------------------------------------
(* The inductive invariant of the core. *)
CoreInv ==
    /\ SchedulerTypeOK
    /\ RunningIsCurrent
    /\ CallsConsistent
    /\ NoOverdueWaiter

(* Shapes of the sets the proofs reason about. *)
LEMMA CoreSets ==
    /\ Idle \in TCBs /\ Idle \notin Tasks /\ Idle \in Int
    /\ Tasks \subseteq TCBs /\ Tasks \subseteq Threads /\ Tasks \subseteq Int
    /\ Boot \in Threads /\ Boot \notin TCBs
    /\ NULL \notin TCBs /\ NULL \notin Int
    /\ \A t \in Threads : t = Boot \/ t \in Tasks
  BY SchedulerAssumption DEF Idle, TCBs, Tasks, Boot, Threads

LEMMA RegisteredAreTasks ==
    ASSUME task_count \in 0 .. MaxTasks
    PROVE  /\ Registered \subseteq Tasks
           /\ \A t \in Tasks : t \in Registered <=> ~(t > task_count)
  BY SchedulerAssumption DEF Registered, Tasks

(* What the wait fields of a TCB can be set to. *)
LEMMA NoWaitType ==
    ASSUME NEW result \in WaitResults
    PROVE  NoWait(result) \in Waits
  BY TickModAssumption DEF NoWait, Waits, WaitReasons, Ticks

LEMMA BlockedWaitType ==
    ASSUME tick \in Ticks, NEW w \in Waits, NEW reason \in WaitReasons,
           NEW object \in Objects \cup {NULL},
           NEW ticks \in Ticks
    PROVE  BlockedWait(w, reason, object, ticks) \in Waits
  <1>1. (tick + ticks) % TickMod \in Ticks /\ 0 \in Ticks
    BY TickModAssumption DEF Ticks
  <1>. QED  BY <1>1 DEF BlockedWait, Waits, WaitResults

LEMMA BlockedWaitDeadline ==
    ASSUME NEW w \in Waits, NEW reason, NEW object, NEW ticks
    PROVE  LET b == BlockedWait(w, reason, object, ticks)
           IN /\ b.has_deadline = (ticks # FR_WAIT_FOREVER)
              /\ b.deadline = IF ticks = FR_WAIT_FOREVER THEN 0 ELSE (tick + ticks) % TickMod
  BY DEF BlockedWait, Waits

LEMMA NoCallType == NoTimeout \in Timeouts /\ NoCall \in Calls /\ NoCall.op = "none"
  <1>1. NoTimeout \in Timeouts
    BY TickModAssumption DEF NoTimeout, Timeouts, Ticks
  <1>. QED  BY <1>1 DEF NoCall, Calls, CallOps

(* The thread that executes is the current task once the scheduler runs. *)
LEMMA ExecutingTask ==
    ASSUME CoreInv, NEW t \in Tasks, Executes(t)
    PROVE  running /\ current = t /\ state[t] = "RUNNING" /\ ~pendsv /\ ~switching
  <1>1. running
    BY CoreSets DEF Executes
  <1>2. current = t /\ ~pendsv /\ ~switching
    BY <1>1 DEF Executes
  <1>. QED  BY <1>1, <1>2 DEF CoreInv, RunningIsCurrent

(* Reset establishes the invariant. *)
LEMMA InitCore == SchedulerInit => CoreInv
  <1>. SUFFICES ASSUME SchedulerInit PROVE CoreInv
    OBVIOUS
  <1>1. SchedulerTypeOK
    <2>1. \A t \in Tasks : t > 0
      BY SchedulerAssumption DEF Tasks
    <2>2. NoWait("PENDING") \in Waits
      BY NoWaitType DEF WaitResults
    <2>3. /\ tick \in Ticks /\ task_count \in 0 .. MaxTasks
          /\ priority \in [Tasks -> 0 .. MaxPriority]
          /\ base_priority \in [Tasks -> 0 .. MaxPriority]
      BY SchedulerAssumption DEF SchedulerInit
    <2>4. /\ state \in [TCBs -> TaskStates]
          /\ wait \in [Tasks -> Waits]
          /\ \A t \in Tasks : state[t] = "INVALID" <=> t > task_count
      BY <2>1, <2>2, CoreSets DEF SchedulerInit, TaskStates
    <2>. QED  BY <2>3, <2>4 DEF SchedulerInit, SchedulerTypeOK
  <1>2. RunningIsCurrent
    BY DEF SchedulerInit, RunningIsCurrent
  <1>3. CallsConsistent
    BY NoCallType DEF SchedulerInit, CallsConsistent
  <1>4. NoOverdueWaiter
    BY CoreSets DEF SchedulerInit, NoOverdueWaiter
  <1>. QED  BY <1>1, <1>2, <1>3, <1>4 DEF CoreInv

-----------------------------------------------------------------------------
(* Task creation *)

LEMMA CreateReserveCore ==
    ASSUME CoreInv, NEW t \in Threads, NEW p \in 0 .. MaxPriority, CreateReserve(t, p)
    PROVE  CoreInv'
  <1>. DEFINE id == task_count + 1
  <1>1. /\ id \in Tasks /\ id \notin Registered /\ task_count' = id
        /\ id \in TCBs /\ id # Idle
        /\ state' = [state EXCEPT ![id] = "CREATED"]
        /\ priority' = [priority EXCEPT ![id] = p]
        /\ base_priority' = [base_priority EXCEPT ![id] = p]
        /\ wait' = [wait EXCEPT ![id] = [@ EXCEPT !.mask = {}, !.all = FALSE, !.clear = FALSE]]
        /\ call' = [call EXCEPT ![t] = Call("create", id, NoTimeout)]
        /\ UNCHANGED <<tick, running, current, pendsv, switching>>
        /\ \A u \in Tasks : u > id <=> (u > task_count /\ u # id)
        /\ Registered' = Registered \cup {id}
    BY SchedulerAssumption
       DEF CreateReserve, PoolHasRoom, CoreInv, SchedulerTypeOK, Tasks, TCBs, Registered, Idle
  <1>2. state[id] = "INVALID"
    BY <1>1, RegisteredAreTasks DEF CoreInv, SchedulerTypeOK
  <1>. HIDE DEF id
  <1>3. SchedulerTypeOK'
    <2>1. wait' \in [Tasks -> Waits]
      <3>. DEFINE w == [wait[id] EXCEPT !.mask = {}, !.all = FALSE, !.clear = FALSE]
      <3>1. wait[id] \in Waits
        BY <1>1 DEF CoreInv, SchedulerTypeOK
      <3>2. w \in Waits
        BY <3>1 DEF Waits
      <3>3. wait' = [wait EXCEPT ![id] = w]
        BY <1>1 DEF CoreInv, SchedulerTypeOK
      <3>. QED  BY <3>2, <3>3 DEF CoreInv, SchedulerTypeOK
    <2>2. task_count' \in 0 .. MaxTasks
      BY <1>1, SchedulerAssumption DEF Tasks
    <2>3. /\ state' \in [TCBs -> TaskStates]
          /\ priority' \in [Tasks -> 0 .. MaxPriority]
          /\ base_priority' \in [Tasks -> 0 .. MaxPriority]
      BY <1>1 DEF CoreInv, SchedulerTypeOK, TaskStates
    <2>4. \A u \in Tasks : state'[u] = "INVALID" <=> u > task_count'
      BY <1>1, CoreSets DEF CoreInv, SchedulerTypeOK
    <2>. QED  BY <1>1, <2>1, <2>2, <2>3, <2>4 DEF CoreInv, SchedulerTypeOK
  <1>4. RunningIsCurrent'
    <2>1. running => current # id
      BY <1>1, CoreSets DEF CoreInv, RunningIsCurrent
    <2>. QED  BY <1>1, <2>1, CoreSets DEF CoreInv, RunningIsCurrent, SchedulerTypeOK
  <1>5. CallsConsistent'
    <2>1. NoTimeout \in Timeouts
      BY NoCallType
    <2>2. Call("create", id, NoTimeout) \in Calls
      BY <1>1, <2>1 DEF Call, Calls, CallOps
    <2>3. \A u \in Threads : call[u].op = "create" => call[u].object # id
      BY <1>1 DEF CoreInv, CallsConsistent
    <2>4. /\ call'[t].op = "create" /\ call'[t].object = id
          /\ \A u \in Threads \ {t} : call'[u] = call[u]
      BY <1>1 DEF CoreInv, CallsConsistent, Call
    <2>5. state'[id] = "CREATED" /\ \A u \in Registered : state'[u] = state[u]
      BY <1>1, CoreSets, RegisteredAreTasks DEF CoreInv, SchedulerTypeOK
    <2>6. call' \in [Threads -> Calls]
      BY <1>1, <2>2 DEF CoreInv, CallsConsistent
    <2>7. \A u \in Threads :
            call'[u].op = "create" =>
               call'[u].object \in Registered' /\ state'[call'[u].object] = "CREATED"
      BY <1>1, <2>4, <2>5 DEF CoreInv, CallsConsistent
    <2>8. \A u, v \in Threads :
            (u # v /\ call'[u].op = "create" /\ call'[v].op = "create") =>
               call'[u].object # call'[v].object
      BY <2>3, <2>4 DEF CoreInv, CallsConsistent
    <2>. QED  BY <2>6, <2>7, <2>8 DEF CallsConsistent
  <1>6. NoOverdueWaiter'
    <2>. SUFFICES ASSUME NEW u \in Tasks, state'[u] = "BLOCKED", wait'[u].has_deadline
                  PROVE  ~fr_tick_deadline_reached(tick, wait'[u].deadline)
      BY <1>1 DEF NoOverdueWaiter, fr_tick_deadline_reached
    <2>1. u # id /\ state[u] = "BLOCKED"
      BY <1>1, CoreSets DEF CoreInv, SchedulerTypeOK
    <2>2. wait'[u] = wait[u]
      BY <1>1, <2>1 DEF CoreInv, SchedulerTypeOK
    <2>. QED  BY <2>1, <2>2 DEF CoreInv, NoOverdueWaiter
  <1>. QED  BY <1>3, <1>4, <1>5, <1>6 DEF CoreInv

LEMMA CreatePublishCore ==
    ASSUME CoreInv, NEW t \in Threads, CreatePublish(t)
    PROVE  CoreInv'
  <1>. DEFINE id == call[t].object
  <1>1. id \in Registered /\ state[id] = "CREATED" /\ call[t].op = "create"
    BY DEF CreatePublish, CoreInv, CallsConsistent
  <1>2. id \in Tasks /\ id \in TCBs /\ id # Idle /\ ~(id > task_count)
    BY <1>1, CoreSets, RegisteredAreTasks DEF CoreInv, SchedulerTypeOK
  <1>3. /\ state' = [state EXCEPT ![id] = "READY"]
        /\ wait' = [wait EXCEPT ![id] = [@ EXCEPT !.deadline = 0, !.object = NULL,
                                                  !.reason = "NONE", !.result = "PENDING",
                                                  !.has_deadline = FALSE]]
        /\ call' = [call EXCEPT ![t] = NoCall]
        /\ UNCHANGED <<tick, priority, base_priority, sched, pendsv, switching>>
    BY DEF CreatePublish
  <1>4. UNCHANGED <<task_count, running, current>> /\ Registered' = Registered
    BY <1>3 DEF sched, Registered
  <1>5. SchedulerTypeOK'
    <2>1. wait' \in [Tasks -> Waits]
      <3>. DEFINE w == [wait[id] EXCEPT !.deadline = 0, !.object = NULL, !.reason = "NONE",
                                        !.result = "PENDING", !.has_deadline = FALSE]
      <3>1. wait[id] \in Waits /\ 0 \in Ticks
        BY <1>2, TickModAssumption DEF CoreInv, SchedulerTypeOK, Ticks
      <3>2. w \in Waits
        BY <3>1 DEF Waits, WaitReasons, WaitResults
      <3>3. wait' = [wait EXCEPT ![id] = w]
        BY <1>2, <1>3 DEF CoreInv, SchedulerTypeOK
      <3>. QED  BY <3>2, <3>3 DEF CoreInv, SchedulerTypeOK
    <2>2. /\ state' \in [TCBs -> TaskStates]
          /\ \A u \in Tasks : state'[u] = "INVALID" <=> u > task_count'
      BY <1>2, <1>3, <1>4, CoreSets DEF CoreInv, SchedulerTypeOK, TaskStates
    <2>. QED  BY <1>3, <1>4, <2>1, <2>2 DEF CoreInv, SchedulerTypeOK
  <1>6. RunningIsCurrent'
    <2>1. running => current # id
      BY <1>1 DEF CoreInv, RunningIsCurrent
    <2>. QED  BY <1>2, <1>3, <1>4, <2>1, CoreSets DEF CoreInv, RunningIsCurrent, SchedulerTypeOK
  <1>7. CallsConsistent'
    <2>1. NoCall \in Calls /\ NoCall.op # "create"
      BY NoCallType
    <2>2. call'[t] = NoCall /\ \A u \in Threads \ {t} : call'[u] = call[u]
      BY <1>3 DEF CoreInv, CallsConsistent
    <2>3. \A u \in Threads \ {t} : call[u].op = "create" => call[u].object # id
      BY <1>1 DEF CoreInv, CallsConsistent
    <2>4. \A u \in Registered : u # id => state'[u] = state[u]
      BY <1>3, CoreSets, RegisteredAreTasks DEF CoreInv, SchedulerTypeOK
    <2>5. call' \in [Threads -> Calls]
      BY <1>3, <2>1 DEF CoreInv, CallsConsistent
    <2>. HIDE DEF id
    <2>6. \A u \in Threads :
            call'[u].op = "create" =>
               call'[u].object \in Registered' /\ state'[call'[u].object] = "CREATED"
      BY <1>4, <2>1, <2>2, <2>3, <2>4 DEF CoreInv, CallsConsistent
    <2>7. \A u, v \in Threads :
            (u # v /\ call'[u].op = "create" /\ call'[v].op = "create") =>
               call'[u].object # call'[v].object
      BY <2>1, <2>2 DEF CoreInv, CallsConsistent
    <2>. QED  BY <2>5, <2>6, <2>7 DEF CallsConsistent
  <1>8. NoOverdueWaiter'
    <2>. SUFFICES ASSUME NEW u \in Tasks, state'[u] = "BLOCKED", wait'[u].has_deadline
                  PROVE  ~fr_tick_deadline_reached(tick, wait'[u].deadline)
      BY <1>3 DEF NoOverdueWaiter, fr_tick_deadline_reached
    <2>1. u # id /\ state[u] = "BLOCKED"
      BY <1>2, <1>3, CoreSets DEF CoreInv, SchedulerTypeOK
    <2>2. wait'[u] = wait[u]
      BY <1>3, <2>1 DEF CoreInv, SchedulerTypeOK
    <2>. QED  BY <2>1, <2>2 DEF CoreInv, NoOverdueWaiter
  <1>. QED  BY <1>5, <1>6, <1>7, <1>8 DEF CoreInv

-----------------------------------------------------------------------------
(* Starting, ticking, switching *)

LEMMA StartCore ==
    ASSUME CoreInv, fr_scheduler_start
    PROVE  CoreInv' /\ HighestReadyRuns'
  <1>. DEFINE ready == ReadyTasks(state)
              first == IF ready = {} THEN Idle ELSE HighestOf(ready, priority)
  <1>1. /\ ~running /\ running' = TRUE /\ pendsv' = FALSE /\ current = NULL
        /\ UNCHANGED <<tick, task_count, priority, base_priority, wait, switching, call>>
        /\ Registered' = Registered /\ ~switching
    BY CoreSets DEF fr_scheduler_start, InUserCode, Executes, CoreInv, RunningIsCurrent,
                    SchedulerTypeOK, Registered
  <1>2. /\ Registered \subseteq Tasks /\ ready \subseteq Registered /\ ready \in SUBSET Tasks
        /\ \A t \in TCBs : state[t] \notin {"RUNNING", "BLOCKED"}
        /\ \A t \in ready : state[t] = "READY"
    BY <1>1, RegisteredAreTasks DEF CoreInv, SchedulerTypeOK, RunningIsCurrent, ReadyTasks
  <1>3. /\ ready # {} => HighestOf(ready, priority) \in ready
        /\ \A u \in ready : first # Idle /\ priority[u] <= priority[first]
    BY <1>2, CoreSets, HighestOfPicks DEF CoreInv, SchedulerTypeOK
  <1>4. /\ state' = [state EXCEPT ![Idle] = "READY", ![first] = "RUNNING"]
        /\ current' = first
    <2>1. HighestOf(ready, priority) # NULL \/ ready = {}
      BY <1>2, <1>3, CoreSets
    <2>. QED  BY <2>1 DEF fr_scheduler_start, fr_scheduler_select_highest_ready
  <1>5. first \in TCBs /\ (first = Idle \/ (first \in ready /\ first \in Tasks))
    BY <1>2, <1>3, CoreSets
  <1>. HIDE DEF first, ready
  <1>6. /\ state' \in [TCBs -> TaskStates]
        /\ state'[first] = "RUNNING"
        /\ \A t \in TCBs \ {first} : state'[t] = IF t = Idle THEN "READY" ELSE state[t]
    BY <1>4, <1>5, CoreSets DEF CoreInv, SchedulerTypeOK, TaskStates
  <1>7. SchedulerTypeOK'
    <2>1. \A t \in Tasks : state'[t] = "INVALID" <=> t > task_count
      BY <1>2, <1>5, <1>6, CoreSets DEF CoreInv, SchedulerTypeOK
    <2>. QED  BY <1>1, <1>4, <1>5, <1>6, <2>1 DEF CoreInv, SchedulerTypeOK
  <1>8. RunningIsCurrent'
    BY <1>1, <1>2, <1>4, <1>5, <1>6 DEF RunningIsCurrent
  <1>9. CallsConsistent'
    <2>1. \A t \in Registered : state[t] = "CREATED" => state'[t] = "CREATED"
      BY <1>2, <1>5, <1>6, CoreSets
    <2>. QED  BY <1>1, <2>1 DEF CoreInv, CallsConsistent
  <1>10. NoOverdueWaiter'
    BY <1>2, <1>6, CoreSets DEF NoOverdueWaiter
  <1>11. HighestReadyRuns'
    <2>1. \A t \in Registered : state'[t] = "READY" => t \in ready
      BY <1>2, <1>6, CoreSets DEF ready, ReadyTasks
    <2>2. \A t \in ReadyTasks(state)' : t \in ready
      BY <1>1, <2>1 DEF ReadyTasks
    <2>. QED  BY <1>1, <1>3, <1>4, <2>2 DEF HighestReadyRuns
  <1>. QED  BY <1>7, <1>8, <1>9, <1>10, <1>11 DEF CoreInv

(* The tick, for whatever priorities the mutex layer computes. *)
LEMMA SysTickCore ==
    ASSUME CoreInv, NEW pr \in [Tasks -> 0 .. MaxPriority], SysTick_Handler(pr)
    PROVE  CoreInv'
  <1>. DEFINE now == (tick + 1) % TickMod
              X == IF running THEN Expired(now) ELSE {}
  <1>1. /\ tick' = now
        /\ state' = UnblockedStates(X)
        /\ wait' = UnblockedWaits(X, "TIMEOUT")
        /\ priority' \in [Tasks -> 0 .. MaxPriority]
        /\ pendsv' = (pendsv \/ SwitchNeeded(state', priority'))
        /\ UNCHANGED <<base_priority, task_count, running, current, switching, call>>
        /\ Registered' = Registered
    BY DEF SysTick_Handler, sched, CoreInv, SchedulerTypeOK, Registered,
           fr_scheduler_request_if_needed_locked
  <1>2. now \in Ticks
    BY NextTick DEF CoreInv, SchedulerTypeOK
  <1>3. /\ X \subseteq Registered /\ Registered \subseteq Tasks
        /\ \A t \in X : running /\ state[t] = "BLOCKED"
    BY RegisteredAreTasks DEF CoreInv, SchedulerTypeOK, Expired
  <1>4. \A t \in Tasks : (state[t] = "BLOCKED" /\ wait[t].has_deadline /\ t \notin X) =>
                            ~fr_tick_deadline_reached(now, wait[t].deadline)
    <2>. SUFFICES ASSUME NEW t \in Tasks, state[t] = "BLOCKED", wait[t].has_deadline, t \notin X
                  PROVE  ~fr_tick_deadline_reached(now, wait[t].deadline)
      OBVIOUS
    <2>1. running /\ t \in Registered
      BY RegisteredAreTasks, CoreSets DEF CoreInv, SchedulerTypeOK, RunningIsCurrent
    <2>. QED  BY <2>1 DEF Expired
  <1>. HIDE DEF X, now
  <1>5. /\ \A t \in TCBs : state'[t] = IF t \in X THEN StateAfterUnblock(t) ELSE state[t]
        /\ \A t \in Tasks : wait'[t] = IF t \in X THEN NoWait("TIMEOUT") ELSE wait[t]
        /\ state' \in [TCBs -> TaskStates]
    BY <1>1, <1>3, CoreSets
       DEF UnblockedStates, UnblockedWaits, StateAfterUnblock, CoreInv, SchedulerTypeOK, TaskStates
  <1>6. SchedulerTypeOK'
    <2>1. wait' \in [Tasks -> Waits]
      BY <1>1, NoWaitType DEF UnblockedWaits, CoreInv, SchedulerTypeOK, WaitResults
    <2>2. pendsv' \in BOOLEAN
      BY <1>1 DEF CoreInv, SchedulerTypeOK, SwitchNeeded
    <2>3. \A t \in Tasks : state'[t] = "INVALID" <=> t > task_count
      BY <1>3, <1>5, CoreSets DEF CoreInv, SchedulerTypeOK, StateAfterUnblock
    <2>. QED  BY <1>1, <1>2, <1>5, <2>1, <2>2, <2>3 DEF CoreInv, SchedulerTypeOK
  <1>7. RunningIsCurrent'
    <2>1. ~running => ~pendsv'
      BY <1>1 DEF CoreInv, RunningIsCurrent, SwitchNeeded
    <2>2. pendsv => pendsv'
      BY <1>1
    <2>. QED  BY <1>1, <1>3, <1>5, <2>1, <2>2, CoreSets
              DEF CoreInv, RunningIsCurrent, StateAfterUnblock
  <1>8. CallsConsistent'
    <2>1. \A t \in Registered : state[t] = "CREATED" => state'[t] = "CREATED"
      BY <1>3, <1>5, CoreSets
    <2>. QED  BY <1>1, <2>1 DEF CoreInv, CallsConsistent
  <1>9. NoOverdueWaiter'
    <2>. SUFFICES ASSUME NEW t \in Tasks, state'[t] = "BLOCKED", wait'[t].has_deadline
                  PROVE  ~fr_tick_deadline_reached(now, wait'[t].deadline)
      BY <1>1 DEF NoOverdueWaiter, fr_tick_deadline_reached
    <2>1. t \notin X
      BY <1>5, CoreSets DEF StateAfterUnblock
    <2>. QED  BY <1>4, <1>5, <2>1, CoreSets
  <1>. QED  BY <1>6, <1>7, <1>8, <1>9 DEF CoreInv

(* What PendSV finds. *)
LEMMA SwitchSelects ==
    ASSUME CoreInv, running, NEW n, n = fr_scheduler_select_next(state, priority, current)
    PROVE  /\ n # NULL
           /\ n = current \/ n = Idle \/ n \in ReadyTasks(state)
           /\ (n = current /\ current # Idle) => state[current] = "RUNNING"
           /\ (n # current /\ current # Idle /\ state[current] = "RUNNING") =>
                n # Idle /\ priority[current] <= priority[n]
           /\ n = Idle => ReadyTasks(state) = {}
           /\ \A u \in ReadyTasks(state) : n # Idle /\ priority[u] <= priority[n]
  <1>1. \/ current = Idle
        \/ current \in Registered /\ state[current] \in {"RUNNING", "BLOCKED"}
    BY DEF CoreInv, RunningIsCurrent
  <1>2. /\ task_count \in 0 .. MaxTasks /\ state \in [TCBs -> TaskStates]
        /\ priority \in [Tasks -> 0 .. MaxPriority]
    BY DEF CoreInv, SchedulerTypeOK
  <1>. QED  BY <1>1, <1>2, SelectNextPicks

LEMMA PendSVEntryCore ==
    ASSUME CoreInv, PendSV_Entry
    PROVE  CoreInv' /\ HighestReadyRuns'
  <1>1. /\ pendsv /\ pendsv' = FALSE /\ switching' = TRUE
        /\ UNCHANGED <<tick, state, priority, base_priority, wait, task_count, running, current, call>>
    BY DEF PendSV_Entry, tcb, sched
  <1>2. SchedulerTypeOK'
    BY <1>1 DEF CoreInv, SchedulerTypeOK
  <1>3. RunningIsCurrent'
    BY <1>1 DEF CoreInv, RunningIsCurrent, Registered
  <1>4. CallsConsistent'
    BY <1>1 DEF CoreInv, CallsConsistent, Registered
  <1>5. NoOverdueWaiter'
    BY <1>1 DEF CoreInv, NoOverdueWaiter, fr_tick_deadline_reached
  <1>6. HighestReadyRuns'
    BY <1>1 DEF HighestReadyRuns
  <1>. QED  BY <1>2, <1>3, <1>4, <1>5, <1>6 DEF CoreInv

LEMMA PendSVHandlerCore ==
    ASSUME CoreInv, PendSV_Handler
    PROVE  CoreInv' /\ HighestReadyRuns'
  <1>. DEFINE next == fr_scheduler_select_next(state, priority, current)
  <1>1. /\ switching /\ ~switching' /\ running
        /\ UNCHANGED <<tick, priority, base_priority, wait, task_count, running, pendsv, call>>
        /\ Registered' = Registered
        /\ switching' \in BOOLEAN
    BY DEF PendSV_Handler, CoreInv, RunningIsCurrent, Registered
  <1>2. /\ next # NULL
        /\ next = current \/ next = Idle \/ next \in ReadyTasks(state)
        /\ (next = current /\ current # Idle) => state[current] = "RUNNING"
        /\ (next # current /\ current # Idle /\ state[current] = "RUNNING") =>
             next # Idle /\ priority[current] <= priority[next]
        /\ next = Idle => ReadyTasks(state) = {}
        /\ \A u \in ReadyTasks(state) : next # Idle /\ priority[u] <= priority[next]
    BY <1>1, SwitchSelects
  <1>3. IF next = current THEN UNCHANGED <<state, current>> ELSE SwitchTo(next)
    BY DEF PendSV_Handler
  <1>. HIDE DEF next
  <1>4. /\ Registered \subseteq Tasks /\ Registered \subseteq TCBs
        /\ ReadyTasks(state) \subseteq Registered
        /\ \A u \in ReadyTasks(state) : state[u] = "READY"
        /\ current \in TCBs /\ (current = Idle \/ current \in Registered)
        /\ next \in TCBs /\ (next = Idle \/ next \in Registered)
    BY <1>1, <1>2, RegisteredAreTasks, CoreSets
       DEF CoreInv, SchedulerTypeOK, RunningIsCurrent, ReadyTasks
  <1>5. CASE next = current
    <2>1. UNCHANGED <<state, current>> /\ state[current] = "RUNNING"
      BY <1>1, <1>2, <1>3, <1>5 DEF CoreInv, RunningIsCurrent
    <2>2. SchedulerTypeOK'
      BY <1>1, <2>1 DEF CoreInv, SchedulerTypeOK
    <2>3. RunningIsCurrent'
      BY <1>1, <2>1 DEF CoreInv, RunningIsCurrent
    <2>4. CallsConsistent'
      BY <1>1, <2>1 DEF CoreInv, CallsConsistent
    <2>5. NoOverdueWaiter'
      BY <1>1, <2>1 DEF CoreInv, NoOverdueWaiter, fr_tick_deadline_reached
    <2>6. HighestReadyRuns'
      BY <1>1, <1>2, <1>5, <2>1 DEF HighestReadyRuns, ReadyTasks
    <2>. QED  BY <2>2, <2>3, <2>4, <2>5, <2>6 DEF CoreInv
  <1>6. CASE next # current
    <2>1. /\ current' = next
          /\ state' = [state EXCEPT ![current] = IF @ = "RUNNING" THEN "READY" ELSE @,
                                    ![next] = "RUNNING"]
      BY <1>3, <1>6 DEF SwitchTo
    <2>2. /\ state' \in [TCBs -> TaskStates]
          /\ state'[next] = "RUNNING"
          /\ state'[current] = IF state[current] = "RUNNING" THEN "READY" ELSE state[current]
          /\ \A t \in TCBs \ {next, current} : state'[t] = state[t]
      BY <1>4, <1>6, <2>1 DEF CoreInv, SchedulerTypeOK, TaskStates
    <2>3. /\ state[current] \in {"RUNNING", "BLOCKED"}
          /\ next # Idle => state[next] = "READY"
      BY <1>1, <1>2, <1>4, <1>6 DEF CoreInv, RunningIsCurrent
    <2>4. SchedulerTypeOK'
      <3>1. \A t \in Tasks : state'[t] = "INVALID" <=> t > task_count
        BY <1>4, <2>2, <2>3, CoreSets DEF CoreInv, SchedulerTypeOK
      <3>. QED  BY <1>1, <1>4, <2>1, <2>2, <3>1 DEF CoreInv, SchedulerTypeOK
    <2>5. RunningIsCurrent'
      BY <1>1, <1>4, <2>1, <2>2, <2>3 DEF CoreInv, RunningIsCurrent
    <2>6. CallsConsistent'
      <3>1. \A t \in Registered : state[t] = "CREATED" => state'[t] = "CREATED"
        BY <1>4, <2>2, <2>3, CoreSets
      <3>. QED  BY <1>1, <3>1 DEF CoreInv, CallsConsistent
    <2>7. NoOverdueWaiter'
      <3>1. \A t \in Tasks : state'[t] = "BLOCKED" => state[t] = "BLOCKED"
        BY <1>4, <2>2, CoreSets
      <3>. QED  BY <1>1, <3>1 DEF CoreInv, NoOverdueWaiter, fr_tick_deadline_reached
    <2>8. HighestReadyRuns'
      <3>. SUFFICES ASSUME NEW t \in Registered, state'[t] = "READY"
                    PROVE  next # Idle /\ priority[t] <= priority[next]
        BY <1>1, <2>1 DEF HighestReadyRuns, ReadyTasks
      <3>1. CASE t = current
        <4>1. state[current] = "RUNNING" /\ current # Idle
          BY <1>4, <2>2, <2>3, <3>1, CoreSets
        <4>. QED  BY <1>2, <1>6, <3>1, <4>1
      <3>2. CASE t # current
        <4>1. t \in ReadyTasks(state)
          BY <1>4, <2>2, <3>2 DEF ReadyTasks
        <4>. QED  BY <1>2, <4>1
      <3>. QED  BY <3>1, <3>2
    <2>. QED  BY <2>4, <2>5, <2>6, <2>7, <2>8 DEF CoreInv
  <1>. QED  BY <1>5, <1>6

-----------------------------------------------------------------------------
(* Blocking *)

(* fr_scheduler_block_current_locked, whoever calls it. *)
LEMMA BlockCore ==
    ASSUME CoreInv, NEW t \in Tasks, Executes(t),
           NEW reason \in WaitReasons, NEW object \in Objects \cup {NULL},
           NEW w \in Waits, NEW ticks \in Ticks,
           CanBlock(t, ticks),
           fr_scheduler_block_current_locked(t, w, reason, object, ticks),
           NEW c \in Calls, c.op # "create", call' = [call EXCEPT ![t] = c],
           priority' \in [Tasks -> 0 .. MaxPriority],
           UNCHANGED <<tick, base_priority, sched, switching>>
    PROVE  CoreInv' /\ HighestReadyRuns'
  <1>1. /\ state' = [state EXCEPT ![t] = "BLOCKED"]
        /\ wait' = [wait EXCEPT ![t] = BlockedWait(w, reason, object, ticks)]
        /\ pendsv' = TRUE
        /\ UNCHANGED <<task_count, running, current>> /\ Registered' = Registered
    BY DEF fr_scheduler_block_current_locked, sched, Registered
  <1>2. running /\ current = t /\ state[t] = "RUNNING" /\ t \in TCBs /\ t # Idle
        /\ t \in Registered
    BY ExecutingTask, CoreSets DEF CoreInv, RunningIsCurrent
  <1>3. SchedulerTypeOK'
    <2>1. BlockedWait(w, reason, object, ticks) \in Waits
      BY BlockedWaitType DEF CoreInv, SchedulerTypeOK
    <2>2. wait' \in [Tasks -> Waits]
      BY <1>1, <2>1 DEF CoreInv, SchedulerTypeOK
    <2>3. /\ state' \in [TCBs -> TaskStates]
          /\ \A u \in Tasks : state'[u] = "INVALID" <=> u > task_count
      BY <1>1, <1>2, CoreSets DEF CoreInv, SchedulerTypeOK, TaskStates
    <2>. QED  BY <1>1, <2>2, <2>3 DEF CoreInv, SchedulerTypeOK
  <1>4. RunningIsCurrent'
    BY <1>1, <1>2, CoreSets DEF CoreInv, RunningIsCurrent, SchedulerTypeOK
  <1>5. CallsConsistent'
    <2>1. call' \in [Threads -> Calls]
      BY CoreSets DEF CoreInv, CallsConsistent
    <2>2. call'[t].op # "create" /\ \A u \in Threads \ {t} : call'[u] = call[u]
      BY CoreSets DEF CoreInv, CallsConsistent
    <2>3. \A u \in Registered : state[u] = "CREATED" => state'[u] = "CREATED"
      BY <1>1, <1>2, CoreSets, RegisteredAreTasks DEF CoreInv, SchedulerTypeOK
    <2>. QED  BY <1>1, <2>1, <2>2, <2>3 DEF CoreInv, CallsConsistent
  <1>6. NoOverdueWaiter'
    <2>. SUFFICES ASSUME NEW u \in Tasks, state'[u] = "BLOCKED", wait'[u].has_deadline
                  PROVE  ~fr_tick_deadline_reached(tick, wait'[u].deadline)
      BY DEF NoOverdueWaiter, fr_tick_deadline_reached
    <2>1. CASE u = t
      <3>1. wait'[t] = BlockedWait(w, reason, object, ticks)
        BY <1>1 DEF CoreInv, SchedulerTypeOK
      <3>2. /\ wait'[t].has_deadline = (ticks # FR_WAIT_FOREVER)
            /\ ticks # FR_WAIT_FOREVER => wait'[t].deadline = (tick + ticks) % TickMod
        BY <3>1, BlockedWaitDeadline
      <3>3. ticks # FR_WAIT_FOREVER
        BY <2>1, <3>2
      <3>4. ticks \in FiniteTimeouts /\ ticks # 0
        BY <3>3, TickModAssumption DEF CanBlock, Ticks, FiniteTimeouts, FR_WAIT_MAX_FINITE_TICKS
      <3>. QED  BY <2>1, <3>2, <3>3, <3>4, FreshDeadline DEF CoreInv, SchedulerTypeOK
    <2>2. CASE u # t
      <3>1. state[u] = "BLOCKED" /\ wait'[u] = wait[u]
        BY <1>1, <2>2, CoreSets DEF CoreInv, SchedulerTypeOK
      <3>. QED  BY <3>1 DEF CoreInv, NoOverdueWaiter
    <2>. QED  BY <2>1, <2>2
  <1>7. HighestReadyRuns'
    BY <1>1 DEF HighestReadyRuns
  <1>. QED  BY <1>3, <1>4, <1>5, <1>6, <1>7 DEF CoreInv

(* A step that only moves t's call on and may request a context switch. *)
LEMMA CallStepCore ==
    ASSUME CoreInv, NEW t \in Tasks, Executes(t),
           NEW c \in Calls, c.op # "create", call[t].op # "create",
           call' = [call EXCEPT ![t] = c],
           pendsv' \in BOOLEAN, UNCHANGED <<tick, tcb, sched, switching>>
    PROVE  CoreInv'
  <1>1. UNCHANGED <<state, priority, base_priority, wait, task_count, running, current>>
    BY DEF tcb, sched
  <1>2. SchedulerTypeOK'
    BY <1>1 DEF CoreInv, SchedulerTypeOK
  <1>3. RunningIsCurrent'
    BY <1>1, ExecutingTask DEF CoreInv, RunningIsCurrent, Registered
  <1>4. CallsConsistent'
    <2>1. call' \in [Threads -> Calls]
      BY CoreSets DEF CoreInv, CallsConsistent
    <2>2. call'[t].op # "create" /\ \A u \in Threads \ {t} : call'[u] = call[u]
      BY CoreSets DEF CoreInv, CallsConsistent
    <2>. QED  BY <1>1, <2>1, <2>2 DEF CoreInv, CallsConsistent, Registered
  <1>5. NoOverdueWaiter'
    BY <1>1 DEF CoreInv, NoOverdueWaiter, fr_tick_deadline_reached
  <1>. QED  BY <1>2, <1>3, <1>4, <1>5 DEF CoreInv

(* fr_scheduler_request_if_needed_locked closes any step that leaves the   *)
(* current task and the registry alone.                                    *)
LEMMA RequestKeepsHighest ==
    ASSUME CoreInv', UNCHANGED <<task_count, running, current, switching>>,
           fr_scheduler_request_if_needed_locked(state', priority')
    PROVE  HighestReadyRuns'
  <1>. SUFFICES ASSUME running, ~pendsv', ~switching',
                       NEW t \in ReadyTasks(state')
                PROVE  current # Idle /\ priority'[t] <= priority'[current]
    BY DEF HighestReadyRuns, ReadyTasks, Registered
  <1>. DEFINE n == fr_scheduler_select_next(state', priority', current)
  <1>1. n \in {NULL, current}
    BY DEF fr_scheduler_request_if_needed_locked, SwitchNeeded
  <1>2. /\ task_count \in 0 .. MaxTasks /\ state' \in [TCBs -> TaskStates]
        /\ priority' \in [Tasks -> 0 .. MaxPriority]
        /\ \/ current = Idle
           \/ current \in Registered /\ state'[current] \in {"RUNNING", "BLOCKED"}
    BY DEF CoreInv, SchedulerTypeOK, RunningIsCurrent, Registered
  <1>3. /\ n # NULL
        /\ \A u \in ReadyTasks(state') : n # Idle /\ priority'[u] <= priority'[n]
    BY <1>2, SelectNextPicks
  <1>. QED  BY <1>1, <1>3

-----------------------------------------------------------------------------
(* The step relation *)

LEMMA SleepCore ==
    ASSUME CoreInv, NEW t \in Tasks, NEW ticks \in Delays, fr_task_sleep(t, ticks)
    PROVE  CoreInv' /\ HighestReadyRuns'
  <1>1. Call("sleep", NULL, NoTimeout) \in Calls /\ Call("sleep", NULL, NoTimeout).op # "create"
    BY NoCallType DEF Call, Calls, CallOps
  <1>2. wait[t] \in Waits /\ ticks \in Ticks /\ "SLEEP" \in WaitReasons
    BY SchedulerAssumption DEF CoreInv, SchedulerTypeOK, WaitReasons
  <1>3. priority' \in [Tasks -> 0 .. MaxPriority]
    BY DEF fr_task_sleep, CoreInv, SchedulerTypeOK
  <1>. QED  BY <1>1, <1>2, <1>3, BlockCore DEF fr_task_sleep, InUserCode

LEMMA NextCore == CoreInv /\ [SchedulerNext]_schedVars => CoreInv'
  <1>. SUFFICES ASSUME CoreInv, [SchedulerNext]_schedVars PROVE CoreInv'
    OBVIOUS
  <1>1. ASSUME NEW t \in Creators, NEW p \in 0 .. MaxPriority, CreateReserve(t, p)
        PROVE  CoreInv'
    BY <1>1, CreateReserveCore, SchedulerAssumption
  <1>2. ASSUME NEW t \in Creators, CreatePublish(t)  PROVE CoreInv'
    BY <1>2, CreatePublishCore, SchedulerAssumption
  <1>3. CASE fr_scheduler_start
    BY <1>3, StartCore
  <1>4. CASE PendSV_Entry
    BY <1>4, PendSVEntryCore
  <1>5. CASE PendSV_Handler
    BY <1>5, PendSVHandlerCore
  <1>6. CASE SchedulerTick
    <2>1. priority \in [Tasks -> 0 .. MaxPriority]
      BY DEF CoreInv, SchedulerTypeOK
    <2>. QED  BY <1>6, <2>1, SysTickCore DEF SchedulerTick
  <1>7. ASSUME NEW t \in Tasks, NEW ticks \in Delays, fr_task_sleep(t, ticks)  PROVE CoreInv'
    BY <1>7, SleepCore
  <1>8. ASSUME NEW t \in Tasks, SleepReturn(t)  PROVE CoreInv'
    <2>1. pendsv' \in BOOLEAN /\ call[t].op # "create"
      BY <1>8 DEF SleepReturn, CoreInv, SchedulerTypeOK
    <2>. QED  BY <1>8, <2>1, CallStepCore, NoCallType DEF SleepReturn
  <1>9. ASSUME NEW t \in Tasks, fr_task_yield(t)  PROVE CoreInv'
    <2>1. pendsv' \in BOOLEAN /\ call[t].op # "create"
      BY <1>9, NoCallType DEF fr_task_yield, InUserCode, CoreInv, SchedulerTypeOK
    <2>2. Call("yield", NULL, NoTimeout) \in Calls /\ Call("yield", NULL, NoTimeout).op # "create"
      BY NoCallType DEF Call, Calls, CallOps
    <2>. QED  BY <1>9, <2>1, <2>2, CallStepCore DEF fr_task_yield, InUserCode
  <1>10. ASSUME NEW t \in Tasks, YieldSVC(t)  PROVE CoreInv'
    <2>1. pendsv' \in BOOLEAN /\ call[t].op # "create"
      BY <1>10 DEF YieldSVC
    <2>. QED  BY <1>10, <2>1, CallStepCore, NoCallType DEF YieldSVC
  <1>11. CASE UNCHANGED schedVars
    <2>1. UNCHANGED <<tick, state, priority, base_priority, wait, task_count, running, current,
                      pendsv, switching, call>>
      BY <1>11 DEF schedVars, tcb, sched
    <2>. QED  BY <2>1 DEF CoreInv, SchedulerTypeOK, RunningIsCurrent, CallsConsistent,
                          NoOverdueWaiter, Registered, fr_tick_deadline_reached
  <1>. QED  BY <1>1, <1>2, <1>3, <1>4, <1>5, <1>6, <1>7, <1>8, <1>9, <1>10, <1>11
            DEF SchedulerNext, KernelStep, SleepStep, YieldStep

(* The invariant of the core, from which the theorems below follow. *)
THEOREM CoreInvariant == SchedulerSpec => []CoreInv
  BY InitCore, NextCore, PTL DEF SchedulerSpec

(* Every global and TCB field keeps its type, the registry is never        *)
(* overrun and slots beyond g_fr_task_count stay untouched                 *)
(* (kernel/task.c:142-174), for any number of tasks and any tick width.    *)
THEOREM TypeCorrect == SchedulerSpec => []SchedulerTypeOK
  <1>1. CoreInv => SchedulerTypeOK
    BY DEF CoreInv
  <1>. QED  BY <1>1, CoreInvariant, PTL

(* At most one task is RUNNING and it is g_fr_scheduler_current_task, also *)
(* when SysTick strikes between a task's blocking and its PendSV.          *)
THEOREM OneTaskRuns == SchedulerSpec => []RunningIsCurrent
  <1>1. CoreInv => RunningIsCurrent
    BY DEF CoreInv
  <1>. QED  BY <1>1, CoreInvariant, PTL

(* A slot reserved by fr_task_create stays CREATED until its own creator   *)
(* publishes it.                                                           *)
THEOREM CreationIsolated == SchedulerSpec => []CallsConsistent
  <1>1. CoreInv => CallsConsistent
    BY DEF CoreInv
  <1>. QED  BY <1>1, CoreInvariant, PTL

(* No tick leaves an expired waiter BLOCKED, whatever the modulus.         *)
THEOREM NobodyOverdue == SchedulerSpec => []NoOverdueWaiter
  <1>1. CoreInv => NoOverdueWaiter
    BY DEF CoreInv
  <1>. QED  BY <1>1, CoreInvariant, PTL

(* fr_scheduler_switch_from_isr never returns a NULL stack pointer for     *)
(* want of a task to run.                                                  *)
THEOREM PendSVNeverTraps == SchedulerSpec => []SwitchNeverTraps
  <1>1. CoreInv => SwitchNeverTraps
    <2>. SUFFICES ASSUME CoreInv, switching
                  PROVE  fr_scheduler_select_next(state, priority, current) # NULL
      BY DEF SwitchNeverTraps
    <2>1. running
      BY DEF CoreInv, RunningIsCurrent, SchedulerTypeOK
    <2>. QED  BY <2>1, SwitchSelects
  <1>. QED  BY <1>1, CoreInvariant, PTL

-----------------------------------------------------------------------------
(* Priority scheduling *)

LEMMA NextHighest ==
    ASSUME Creators \subseteq {Boot}
    PROVE  CoreInv /\ CoreInv' /\ HighestReadyRuns /\ [SchedulerNext]_schedVars
             => HighestReadyRuns'
  <1>. SUFFICES ASSUME CoreInv, CoreInv', HighestReadyRuns, [SchedulerNext]_schedVars
                PROVE  HighestReadyRuns'
    OBVIOUS
  <1>1. ASSUME NEW t \in Creators, Executes(t), running' = running
        PROVE  HighestReadyRuns'
    <2>1. t = Boot
      BY <1>1
    <2>2. ~running
      BY <1>1, <2>1, CoreSets DEF Executes, CoreInv, RunningIsCurrent, Registered, SchedulerTypeOK
    <2>. QED  BY <1>1, <2>2 DEF HighestReadyRuns
  <1>2. ASSUME NEW t \in Creators, NEW p \in 0 .. MaxPriority, CreateReserve(t, p)
        PROVE  HighestReadyRuns'
    BY <1>1, <1>2 DEF CreateReserve, InUserCode
  <1>3. ASSUME NEW t \in Creators, CreatePublish(t)  PROVE HighestReadyRuns'
    BY <1>1, <1>3 DEF CreatePublish, sched
  <1>4. CASE fr_scheduler_start
    BY <1>4, StartCore
  <1>5. CASE PendSV_Entry
    BY <1>5, PendSVEntryCore
  <1>6. CASE PendSV_Handler
    BY <1>6, PendSVHandlerCore
  <1>7. CASE SchedulerTick
    <2>1. /\ UNCHANGED <<task_count, running, current, switching>>
          /\ fr_scheduler_request_if_needed_locked(state', priority')
      BY <1>7 DEF SchedulerTick, SysTick_Handler, sched
    <2>. QED  BY <2>1, RequestKeepsHighest
  <1>8. ASSUME NEW t \in Tasks, NEW ticks \in Delays, fr_task_sleep(t, ticks)
        PROVE  HighestReadyRuns'
    BY <1>8, SleepCore
  <1>9. ASSUME UNCHANGED <<tcb, sched, switching>>, pendsv => pendsv'
        PROVE  HighestReadyRuns'
    <2>1. UNCHANGED <<state, priority, task_count, running, current, switching>>
      BY <1>9 DEF tcb, sched
    <2>2. ~pendsv' => ~pendsv
      BY <1>9
    <2>. QED  BY <2>1, <2>2 DEF HighestReadyRuns, ReadyTasks, Registered
  <1>10. ASSUME NEW t \in Tasks, SleepReturn(t)  PROVE HighestReadyRuns'
    BY <1>9, <1>10 DEF SleepReturn
  <1>11. ASSUME NEW t \in Tasks, fr_task_yield(t)  PROVE HighestReadyRuns'
    BY <1>9, <1>11 DEF fr_task_yield
  <1>12. ASSUME NEW t \in Tasks, YieldSVC(t)  PROVE HighestReadyRuns'
    BY <1>9, <1>12 DEF YieldSVC
  <1>13. CASE UNCHANGED schedVars
    BY <1>9, <1>13 DEF schedVars
  <1>. QED  BY <1>2, <1>3, <1>4, <1>5, <1>6, <1>7, <1>8, <1>10, <1>11, <1>12, <1>13
            DEF SchedulerNext, KernelStep, SleepStep, YieldStep

(* When all tasks are created before fr_scheduler_start, Thread mode       *)
(* always executes a task that no READY task outranks, and idle only when  *)
(* none is READY.                                                          *)
THEOREM PriorityScheduling ==
    ASSUME Creators \subseteq {Boot}
    PROVE  SchedulerSpec => []HighestReadyRuns
  <1>1. SchedulerInit => HighestReadyRuns
    BY DEF SchedulerInit, HighestReadyRuns
  <1>2. CoreInv /\ CoreInv' /\ HighestReadyRuns /\ [SchedulerNext]_schedVars => HighestReadyRuns'
    BY NextHighest
  <1>. QED  BY <1>1, <1>2, CoreInvariant, PTL DEF SchedulerSpec

-----------------------------------------------------------------------------
(* Timeouts *)

(* No step but the tick ends a wait in the core, and the tick ends it on time. *)
LEMMA NextTimeout ==
    ASSUME CoreInv, SchedulerNext, NEW t \in Tasks, state[t] = "BLOCKED"
    PROVE  \/ state'[t] = "BLOCKED" /\ wait'[t].deadline = wait[t].deadline
           \/ wait'[t].result = "SIGNALED"
           \/ wait'[t].result = "TIMEOUT" /\ tick' = wait[t].deadline
  <1>. DEFINE Waiting == state'[t] = "BLOCKED" /\ wait'[t] = wait[t]
  <1>1. t \in TCBs /\ t # Idle /\ running
    BY CoreSets DEF CoreInv, RunningIsCurrent
  <1>2. ASSUME NEW u \in Threads, NEW p \in 0 .. MaxPriority, CreateReserve(u, p)
        PROVE  Waiting
    <2>1. t # task_count + 1
      BY SchedulerAssumption DEF CoreInv, SchedulerTypeOK, Tasks
    <2>. QED  BY <1>1, <1>2, <2>1 DEF CreateReserve, CoreInv, SchedulerTypeOK
  <1>3. ASSUME NEW u \in Threads, CreatePublish(u)  PROVE Waiting
    <2>1. t # call[u].object
      BY <1>3 DEF CreatePublish, CoreInv, CallsConsistent
    <2>. QED  BY <1>1, <1>3, <2>1 DEF CreatePublish, CoreInv, SchedulerTypeOK
  <1>4. ~fr_scheduler_start
    BY <1>1, CoreSets DEF fr_scheduler_start, InUserCode, Executes, CoreInv, SchedulerTypeOK,
                          RunningIsCurrent, Registered
  <1>5. CASE UNCHANGED <<state, wait>>
    BY <1>5
  <1>6. CASE PendSV_Handler
    <2>. DEFINE next == fr_scheduler_select_next(state, priority, current)
    <2>1. next # current => next # t
      <3>1. next = current \/ next = Idle \/ next \in ReadyTasks(state)
        BY <1>1, SwitchSelects
      <3>. QED  BY <1>1, <3>1 DEF ReadyTasks
    <2>2. /\ IF next = current THEN UNCHANGED <<state, current>> ELSE SwitchTo(next)
          /\ wait' = wait
      BY <1>6 DEF PendSV_Handler
    <2>. HIDE DEF next
    <2>3. state'[t] = "BLOCKED"
      BY <1>1, <2>1, <2>2 DEF SwitchTo, CoreInv, SchedulerTypeOK
    <2>. QED  BY <2>2, <2>3
  <1>7. CASE SchedulerTick
    <2>. DEFINE now == (tick + 1) % TickMod
    <2>1. /\ tick' = now
          /\ state' = UnblockedStates(Expired(now)) /\ wait' = UnblockedWaits(Expired(now), "TIMEOUT")
      BY <1>1, <1>7 DEF SchedulerTick, SysTick_Handler
    <2>2. CASE t \in Expired(now)
      <3>1. wait[t].has_deadline /\ fr_tick_deadline_reached(now, wait[t].deadline)
        BY <2>2 DEF Expired
      <3>2. /\ tick \in Ticks /\ wait[t].deadline \in Ticks
            /\ ~fr_tick_deadline_reached(tick, wait[t].deadline)
        BY <3>1 DEF CoreInv, NoOverdueWaiter, SchedulerTypeOK, Waits
      <3>3. now = wait[t].deadline
        BY <3>1, <3>2, ReachedOnTime
      <3>4. wait'[t].result = "TIMEOUT"
        BY <2>1, <2>2 DEF UnblockedWaits, NoWait
      <3>. QED  BY <2>1, <3>3, <3>4
    <2>3. CASE t \notin Expired(now)
      BY <1>1, <2>1, <2>3 DEF UnblockedStates, UnblockedWaits
    <2>. QED  BY <2>2, <2>3
  <1>8. ASSUME NEW u \in Tasks, NEW ticks \in Delays, fr_task_sleep(u, ticks)  PROVE Waiting
    <2>1. u # t
      BY <1>8 DEF fr_task_sleep, CanBlock
    <2>. QED  BY <1>1, <1>8, <2>1 DEF fr_task_sleep, fr_scheduler_block_current_locked,
                                      CoreInv, SchedulerTypeOK
  <1>9. PendSV_Entry => UNCHANGED <<state, wait>>
    BY DEF PendSV_Entry, tcb
  <1>10. (\E u \in Tasks : SleepReturn(u) \/ fr_task_yield(u) \/ YieldSVC(u)) => UNCHANGED <<state, wait>>
    BY DEF SleepReturn, fr_task_yield, YieldSVC, tcb
  <1>. QED  BY <1>2, <1>3, <1>4, <1>5, <1>6, <1>7, <1>8, <1>9, <1>10, SchedulerAssumption
            DEF SchedulerNext, KernelStep, SleepStep, YieldStep

(* A wait times out on the very tick of its deadline, for every tick width *)
(* and across every wraparound, and its deadline never moves.              *)
THEOREM TimeoutsOnTime == SchedulerSpec => TimeoutAtDeadline
  <1>. DEFINE A == \A t \in Tasks : state[t] = "BLOCKED" =>
                      \/ state'[t] = "BLOCKED" /\ wait'[t].deadline = wait[t].deadline
                      \/ wait'[t].result = "SIGNALED"
                      \/ wait'[t].result = "TIMEOUT" /\ tick' = wait[t].deadline
  <1>1. CoreInv /\ [SchedulerNext]_schedVars => [A]_schedVars
    BY NextTimeout
  <1>. QED  BY <1>1, CoreInvariant, PTL DEF SchedulerSpec, TimeoutAtDeadline

(* A task inside fr_task_sleep is BLOCKED, or its wait ended by timeout. *)
SleepInv ==
    \A t \in Tasks :
        call[t].op = "sleep" =>
            \/ state[t] = "BLOCKED"
            \/ state[t] \in {"READY", "RUNNING"} /\ wait[t].result = "TIMEOUT"

LEMMA NextSleep == CoreInv /\ SleepInv /\ [SchedulerNext]_schedVars => SleepInv'
  <1>. SUFFICES ASSUME CoreInv, SleepInv, [SchedulerNext]_schedVars,
                       NEW t \in Tasks, call'[t].op = "sleep"
                PROVE  \/ state'[t] = "BLOCKED"
                       \/ state'[t] \in {"READY", "RUNNING"} /\ wait'[t].result = "TIMEOUT"
    BY DEF SleepInv
  <1>. DEFINE Goal == \/ state'[t] = "BLOCKED"
                      \/ state'[t] \in {"READY", "RUNNING"} /\ wait'[t].result = "TIMEOUT"
  <1>1. t \in TCBs /\ t # Idle /\ t \in Threads
    BY CoreSets
  <1>2. ASSUME NEW u \in Threads, NEW c, c.op # "sleep", call' = [call EXCEPT ![u] = c]
        PROVE  u # t /\ call[t].op = "sleep"
    BY <1>1, <1>2 DEF CoreInv, CallsConsistent
  <1>3. ASSUME call[t].op = "sleep", UNCHANGED <<state, wait>>  PROVE Goal
    BY <1>3 DEF SleepInv
  <1>4. ASSUME NEW u \in Threads, NEW p \in 0 .. MaxPriority, CreateReserve(u, p)  PROVE Goal
    <2>. DEFINE id == task_count + 1
    <2>1. call[t].op = "sleep"
      <3>1. Call("create", id, NoTimeout).op # "sleep"
        BY DEF Call
      <3>. QED  BY <1>2, <1>4, <3>1 DEF CreateReserve
    <2>2. t # id
      <3>1. state[t] # "INVALID"
        BY <2>1 DEF SleepInv
      <3>. QED  BY <3>1, SchedulerAssumption DEF CoreInv, SchedulerTypeOK, Tasks
    <2>3. state'[t] = state[t] /\ wait'[t] = wait[t]
      BY <1>1, <1>4, <2>2 DEF CreateReserve, CoreInv, SchedulerTypeOK
    <2>. QED  BY <2>1, <2>3 DEF SleepInv
  <1>5. ASSUME NEW u \in Threads, CreatePublish(u)  PROVE Goal
    <2>1. call[t].op = "sleep"
      BY <1>2, <1>5, NoCallType DEF CreatePublish
    <2>2. t # call[u].object
      BY <1>5, <2>1 DEF CreatePublish, CoreInv, CallsConsistent, SleepInv
    <2>3. state'[t] = state[t] /\ wait'[t] = wait[t]
      BY <1>1, <1>5, <2>2 DEF CreatePublish, CoreInv, SchedulerTypeOK
    <2>. QED  BY <2>1, <2>3 DEF SleepInv
  <1>6. CASE fr_scheduler_start
    <2>1. call[t].op = "sleep" /\ wait' = wait
      BY <1>6 DEF fr_scheduler_start
    <2>2. state[t] \in {"READY", "RUNNING"} /\ wait[t].result = "TIMEOUT"
      <3>1. state[t] # "BLOCKED"
        BY <1>1, <1>6, CoreSets
           DEF fr_scheduler_start, InUserCode, Executes, CoreInv, RunningIsCurrent,
               SchedulerTypeOK, Registered
      <3>. QED  BY <2>1, <3>1 DEF SleepInv
    <2>3. PICK first : state' = [state EXCEPT ![Idle] = "READY", ![first] = "RUNNING"]
      BY <1>6 DEF fr_scheduler_start
    <2>4. state'[t] \in {"READY", "RUNNING"}
      BY <1>1, <2>2, <2>3 DEF CoreInv, SchedulerTypeOK
    <2>. QED  BY <2>1, <2>2, <2>4
  <1>7. CASE PendSV_Entry
    BY <1>3, <1>7 DEF PendSV_Entry, tcb
  <1>8. CASE PendSV_Handler
    <2>. DEFINE next == fr_scheduler_select_next(state, priority, current)
    <2>1. /\ IF next = current THEN UNCHANGED <<state, current>> ELSE SwitchTo(next)
          /\ UNCHANGED <<wait, call>>
          /\ running
      BY <1>8 DEF PendSV_Handler, CoreInv, RunningIsCurrent
    <2>2. next # current => next = Idle \/ state[next] = "READY"
      BY <2>1, SwitchSelects DEF ReadyTasks
    <2>. HIDE DEF next
    <2>3. \/ state'[t] = state[t]
          \/ state[t] # "BLOCKED" /\ state'[t] \in {"READY", "RUNNING"}
      BY <1>1, <2>1, <2>2 DEF SwitchTo, CoreInv, SchedulerTypeOK
    <2>. QED  BY <2>1, <2>3 DEF SleepInv
  <1>9. CASE SchedulerTick
    <2>1. PICK X \in SUBSET Tasks : /\ state' = UnblockedStates(X)
                                    /\ wait' = UnblockedWaits(X, "TIMEOUT")
      BY <1>9, RegisteredAreTasks
         DEF SchedulerTick, SysTick_Handler, Expired, CoreInv, SchedulerTypeOK
    <2>2. call' = call
      BY <1>9 DEF SchedulerTick, SysTick_Handler
    <2>3. CASE t \in X
      BY <1>1, <2>1, <2>3 DEF UnblockedStates, UnblockedWaits, StateAfterUnblock, NoWait
    <2>4. CASE t \notin X
      BY <1>1, <2>1, <2>2, <2>4 DEF UnblockedStates, UnblockedWaits, SleepInv
    <2>. QED  BY <2>3, <2>4
  <1>10. ASSUME NEW u \in Tasks, NEW ticks \in Delays, fr_task_sleep(u, ticks)  PROVE Goal
    <2>1. state' = [state EXCEPT ![u] = "BLOCKED"]
          /\ wait' = [wait EXCEPT ![u] = BlockedWait(wait[u], "SLEEP", NULL, ticks)]
          /\ call' = [call EXCEPT ![u] = Call("sleep", NULL, NoTimeout)]
      BY <1>10 DEF fr_task_sleep, fr_scheduler_block_current_locked
    <2>2. CASE u = t
      BY <1>1, <2>1, <2>2 DEF CoreInv, SchedulerTypeOK
    <2>3. CASE u # t
      BY <1>1, <2>1, <2>3 DEF CoreInv, SchedulerTypeOK, CallsConsistent, SleepInv
    <2>. QED  BY <2>2, <2>3
  <1>11. ASSUME NEW u \in Tasks, SleepReturn(u) \/ YieldSVC(u)  PROVE Goal
    <2>1. UNCHANGED <<state, wait>> /\ call' = [call EXCEPT ![u] = NoCall]
      BY <1>11 DEF SleepReturn, YieldSVC, tcb
    <2>. QED  BY <1>2, <1>3, <2>1, CoreSets, NoCallType
  <1>12. ASSUME NEW u \in Tasks, fr_task_yield(u)  PROVE Goal
    <2>1. UNCHANGED <<state, wait>> /\ call' = [call EXCEPT ![u] = Call("yield", NULL, NoTimeout)]
      BY <1>12 DEF fr_task_yield, tcb
    <2>2. Call("yield", NULL, NoTimeout).op # "sleep"
      BY DEF Call
    <2>. QED  BY <1>2, <1>3, <2>1, <2>2, CoreSets
  <1>13. CASE UNCHANGED schedVars
    BY <1>3, <1>13 DEF schedVars, tcb
  <1>. QED  BY <1>4, <1>5, <1>6, <1>7, <1>8, <1>9, <1>10, <1>11, <1>12, <1>13, SchedulerAssumption
            DEF SchedulerNext, KernelStep, SleepStep, YieldStep

(* A task that is back from fr_task_sleep was woken by its deadline, never *)
(* by anything else, so the call returns true.                             *)
THEOREM SleepReturnsByTimeout == SchedulerSpec => []SleepEndsByTimeout
  <1>1. SchedulerInit => SleepInv
    BY CoreSets, NoCallType DEF SchedulerInit, SleepInv
  <1>2. CoreInv /\ SleepInv => SleepEndsByTimeout
    BY ExecutingTask DEF SleepInv, SleepEndsByTimeout
  <1>. QED  BY <1>1, <1>2, NextSleep, CoreInvariant, PTL DEF SchedulerSpec
=============================================================================
