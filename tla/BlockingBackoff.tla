--------------------------- MODULE BlockingBackoff ---------------------------
(***************************************************************************)
(* The multi-threaded scheduler of schedulers/.../BlockingBackoff.hpp.     *)
(*                                                                         *)
(* One pool worker per job list runs poolWorker(); a step of the model is  *)
(* one access of a worker to what it shares with the other threads: the    *)
(* lifecycle state, the message ports, _nRunningJobs, the adoption and     *)
(* zombie lists, _workQuiescenceRequested and _nWorkersInWork.  Accesses   *)
(* are taken to be sequentially consistent; in the code looks at the flag  *)
(* are acquire loads after a fetch_add.                                    *)
(*                                                                         *)
(* gr::SchedulerBase is not in this repository.  What it does to the       *)
(* variables poolWorker() reads is in the actions of the "SchedulerBase"   *)
(* section: lifecycle transitions, message arrival, and a graph editor     *)
(* that quiesces the workers, edits the graph and releases them.           *)
(***************************************************************************)
EXTENDS Integers, SequencesExt

CONSTANTS
  MaxThreads,       \* threads of the pool, _pool->maxThreads()
  Blocks,           \* every block a graph may hold
  InitialGraph,     \* blocks of the flattened graph at start, in order
  MessageRatio,     \* process_stream_to_message_ratio
  InitialBackoff,   \* initial_backoff_us
  MaxBackoff,       \* max_backoff_us
  ActiveSpinCount,  \* active_spin_count
  MaxMessages,      \* bound: messages waiting on the scheduler's ports
  Statuses,         \* bound: what a traversal may return
  Environment       \* bound: what SchedulerBase and its users may do

WorkStatus == {"PROGRESS", "IDLE", "DONE", "ERROR"}

ASSUME ThreadsAssumption == MaxThreads \in Nat \ {0}
ASSUME GraphAssumption ==
  /\ InitialGraph \in Seq(Blocks)
  /\ \A i, j \in DOMAIN InitialGraph : InitialGraph[i] = InitialGraph[j] => i = j
\* The worker computes modulo the ratio, so that a ratio of 0 has no behaviour.
ASSUME SettingsAssumption ==
  /\ MessageRatio \in Nat \ {0}
  /\ InitialBackoff \in Nat /\ MaxBackoff \in Nat
  /\ ActiveSpinCount \in Nat
ASSUME BoundsAssumption ==
  /\ MaxMessages \in Nat
  /\ Statuses \subseteq WorkStatus
  /\ Environment \subseteq {"lifecycle", "restart", "quiesce", "emplace", "remove"}

Workers == 0 .. MaxThreads - 1

LifecycleState == {"RUNNING", "REQUESTED_PAUSE", "PAUSED", "REQUESTED_STOP", "STOPPED", "ERROR"}

isActive(s) == s \in {"RUNNING", "REQUESTED_PAUSE", "PAUSED"}

VARIABLES
  \* shared
  state,                \* lifecycle state of the scheduler
  quiescenceRequested,  \* _workQuiescenceRequested
  nWorkersInWork,       \* _nWorkersInWork
  nRunningJobs,         \* _nRunningJobs
  messages,             \* available on msgIn and _fromChildMessagePort
  graph,                \* blocks of the flattened graph, in order
  jobs,                 \* _executionOrder: job list of each runner
  adoption,             \* _adoptionBlocks of each runner
  zombies,              \* blocks removed from the graph, not yet dropped
  \* local to a worker
  pc, activeState, localBlockList, messageRatioCount, inactiveCycleCount, backoffUs,
  result,               \* work::Result of the last traversal
  \* SchedulerBase
  editor,               \* "none", "wanted" or "exclusive"
  \* history
  late                  \* traversals a worker began since RUNNING was left

lifecycle == <<state, late>>
dekker    == <<quiescenceRequested, nWorkersInWork, editor>>
lists     == <<graph, jobs, adoption, zombies>>
counts    == <<messageRatioCount, inactiveCycleCount, backoffUs>>
vars      == <<lifecycle, dekker, lists, counts, nRunningJobs, messages,
               pc, activeState, localBlockList, result>>

-----------------------------------------------------------------------------
(* customInit *)

MinOf(a, b) == IF a <= b THEN a ELSE b
MaxOf(a, b) == IF a >= b THEN a ELSE b

NumBatches(g) == MaxOf(1, MinOf(MaxThreads, Len(g)))

\* Mutant: the stride of customInit is 1.
JobLists_Stride1(g) ==
  [w \in 0 .. NumBatches(g) - 1 |-> {g[i] : i \in {j \in DOMAIN g : j - 1 >= w}}]

\* Mutant: batches of one size, what is left over belongs to none.
JobLists_Equal(g) ==
  [w \in 0 .. NumBatches(g) - 1 |->
    {g[i] : i \in {j \in DOMAIN g : (j - 1) \div (Len(g) \div NumBatches(g)) = w}}]

\* Batch w takes the blocks w, w + nBatches, w + 2 nBatches, ... of the graph.
JobLists(g) ==
  [w \in 0 .. NumBatches(g) - 1 |-> {g[i] : i \in {j \in DOMAIN g : (j - 1) % NumBatches(g) = w}}]

\* One worker is started for each job list.
Launch(g) == [w \in Workers |-> IF w \in DOMAIN JobLists(g) THEN "enter" ELSE "gone"]

NoBlocks == [w \in Workers |-> {}]
Zeros    == [w \in Workers |-> 0]

Init ==
  /\ state = "RUNNING"
  /\ quiescenceRequested = FALSE /\ nWorkersInWork = 0 /\ editor = "none"
  /\ nRunningJobs = 0
  /\ messages = 0
  /\ graph = InitialGraph
  /\ jobs = JobLists(InitialGraph)
  /\ adoption = NoBlocks
  /\ zombies = {}
  /\ pc = Launch(InitialGraph)
  /\ activeState = [w \in Workers |-> "RUNNING"]
  /\ localBlockList = NoBlocks
  /\ messageRatioCount = Zeros /\ inactiveCycleCount = Zeros /\ backoffUs = Zeros
  /\ result = [w \in Workers |-> "NONE"]
  /\ late = Zeros

-----------------------------------------------------------------------------
(* poolWorker, one action per access to shared state *)

Goto(w, from, to) == pc[w] = from /\ pc' = [pc EXCEPT ![w] = to]

Enter(w) ==
  /\ Goto(w, "enter", "copy")
  /\ nRunningJobs' = nRunningJobs + 1
  /\ UNCHANGED <<lifecycle, dekker, lists, counts, messages, activeState, localBlockList, result>>

CopyJobList(w) ==
  /\ Goto(w, "copy", "poll")
  /\ localBlockList' = [localBlockList EXCEPT ![w] = jobs[w]]
  /\ messageRatioCount' = [messageRatioCount EXCEPT ![w] = 0]
  /\ inactiveCycleCount' = [inactiveCycleCount EXCEPT ![w] = 0]
  /\ backoffUs' = [backoffUs EXCEPT ![w] = 0]
  /\ activeState' = [activeState EXCEPT ![w] = state]
  /\ UNCHANGED <<lifecycle, dekker, lists, nRunningJobs, messages, result>>

\* Mutant: no poll without an announced message.
hasMessagesToProcess_NoRatio(w) == messages > 0

hasMessagesToProcess(w) == messageRatioCount[w] = 0 \/ messages > 0

\* Mutants: the last worker serves too; only the last worker serves.
servesScheduler_OrLast(w) == w = 0 \/ nRunningJobs = 1
servesScheduler_OnlyLast(w) == nRunningJobs = 0

\* Who serves the scheduler's own messages.
servesScheduler(w) == w = 0 \/ nRunningJobs = 0

PollMessages(w) ==
  /\ hasMessagesToProcess(w)
  /\ Goto(w, "poll", IF servesScheduler(w) THEN "serve" ELSE "adopt")
  /\ UNCHANGED <<lifecycle, dekker, lists, counts, nRunningJobs, messages, activeState, localBlockList, result>>

NextStreamCycle(n) == (n + 1) % MessageRatio

SkipMessages(w) ==
  /\ ~ hasMessagesToProcess(w)
  /\ Goto(w, "poll", "gate")
  /\ messageRatioCount' = [messageRatioCount EXCEPT ![w] = NextStreamCycle(@)]
  /\ UNCHANGED <<lifecycle, dekker, lists, inactiveCycleCount, backoffUs, nRunningJobs, messages,
                 activeState, localBlockList, result>>

ProcessScheduledMessages(w) ==
  /\ Goto(w, "serve", "adopt")
  /\ messages' = 0
  /\ UNCHANGED <<lifecycle, dekker, lists, counts, nRunningJobs, activeState, localBlockList, result>>

\* cleanupZombieBlocks and adoptBlocks.
AdoptBlocks(w) ==
  /\ Goto(w, "adopt", "refresh")
  /\ localBlockList' = [localBlockList EXCEPT ![w] = (@ \ zombies) \cup adoption[w]]
  /\ zombies' = zombies \ localBlockList[w]
  /\ adoption' = [adoption EXCEPT ![w] = {}]
  /\ UNCHANGED <<lifecycle, dekker, graph, jobs, counts, nRunningJobs, messages, activeState, result>>

\* The count may pass the ratio while messages keep arriving.  It is only ever
\* tested for 0 and reduced modulo the ratio, so a positive count is kept as
\* its representative in 1 .. MessageRatio.
CountMessageCycle(n) == (n % MessageRatio) + 1

RefreshState(w) ==
  /\ Goto(w, "refresh", "gate")
  /\ activeState' = [activeState EXCEPT ![w] = state]
  /\ messageRatioCount' = [messageRatioCount EXCEPT ![w] = CountMessageCycle(@)]
  /\ inactiveCycleCount' = [inactiveCycleCount EXCEPT ![w] = 0]
  /\ backoffUs' = [backoffUs EXCEPT ![w] = 0]
  /\ UNCHANGED <<lifecycle, dekker, lists, nRunningJobs, messages, localBlockList, result>>

\* Mutant: the flag is looked at only after the worker is counted.
CheckQuiescence_NoFirstLook(w) ==
  /\ activeState[w] = "RUNNING"
  /\ Goto(w, "gate", "enterWork")
  /\ UNCHANGED <<lifecycle, dekker, lists, counts, nRunningJobs, messages, activeState, localBlockList, result>>

\* RUNNING, and the quiescence flag is looked at for the first time.
CheckQuiescence(w) ==
  /\ activeState[w] = "RUNNING"
  /\ Goto(w, "gate", IF quiescenceRequested THEN "tail" ELSE "enterWork")
  /\ UNCHANGED <<lifecycle, dekker, lists, counts, nRunningJobs, messages, activeState, localBlockList, result>>

\* Mutant: the state is not reloaded after the sleep.
SleepNotRunning_NoReload(w) ==
  /\ activeState[w] # "RUNNING"
  /\ Goto(w, "gate", "poll")
  /\ messageRatioCount' = [messageRatioCount EXCEPT ![w] = 0]
  /\ inactiveCycleCount' = [inactiveCycleCount EXCEPT ![w] = 0]
  /\ backoffUs' = [backoffUs EXCEPT ![w] = 0]
  /\ UNCHANGED <<lifecycle, dekker, lists, nRunningJobs, messages, activeState, localBlockList, result>>

\* Any other state: sleep for timeout_ms, do nothing.
SleepNotRunning(w) ==
  /\ activeState[w] # "RUNNING"
  /\ Goto(w, "gate", "tail")
  /\ messageRatioCount' = [messageRatioCount EXCEPT ![w] = 0]
  /\ inactiveCycleCount' = [inactiveCycleCount EXCEPT ![w] = 0]
  /\ backoffUs' = [backoffUs EXCEPT ![w] = 0]
  /\ UNCHANGED <<lifecycle, dekker, lists, nRunningJobs, messages, activeState, localBlockList, result>>

EnterWork(w) ==
  /\ Goto(w, "enterWork", "recheck")
  /\ nWorkersInWork' = nWorkersInWork + 1
  /\ UNCHANGED <<lifecycle, quiescenceRequested, editor, lists, counts, nRunningJobs, messages,
                 activeState, localBlockList, result>>

\* The flag is looked at for the second time, now that the worker is counted.
BackOut(w) ==
  /\ quiescenceRequested
  /\ Goto(w, "recheck", "backOut")
  /\ UNCHANGED <<lifecycle, dekker, lists, counts, nRunningJobs, messages, activeState, localBlockList, result>>

\* Mutant: the flag is not looked at again.
BeginTraverse_NoRecheck(w) ==
  /\ Goto(w, "recheck", "traverse")
  /\ late' = [late EXCEPT ![w] = IF state = "RUNNING" THEN 0 ELSE @ + 1]
  /\ UNCHANGED <<state, dekker, lists, counts, nRunningJobs, messages, activeState, localBlockList, result>>

BeginTraverse(w) ==
  /\ ~ quiescenceRequested
  /\ Goto(w, "recheck", "traverse")
  /\ late' = [late EXCEPT ![w] = IF state = "RUNNING" THEN 0 ELSE @ + 1]
  /\ UNCHANGED <<state, dekker, lists, counts, nRunningJobs, messages, activeState, localBlockList, result>>

\* traverseBlockListOnce returns; what the blocks did is the status alone.
EndTraverse(w) ==
  /\ Goto(w, "traverse", "leaveWork")
  /\ \E s \in Statuses : result' = [result EXCEPT ![w] = s]
  /\ UNCHANGED <<lifecycle, dekker, lists, counts, nRunningJobs, messages, activeState, localBlockList>>

\* updateBackoff
NextInactiveCount(performedWork, inactive) == IF performedWork THEN 0 ELSE inactive + 1

\* Mutant: the doubled sleep is not limited.
NextBackoff_NoLimit(performedWork, inactive, backoff) ==
  IF performedWork \/ inactive + 1 <= ActiveSpinCount THEN 0
  ELSE IF backoff = 0 THEN MinOf(InitialBackoff, MaxBackoff) ELSE backoff * 2

NextBackoff(performedWork, inactive, backoff) ==
  IF performedWork \/ inactive + 1 <= ActiveSpinCount THEN 0
  ELSE MinOf(IF backoff = 0 THEN InitialBackoff ELSE backoff * 2, MaxBackoff)

AfterTraverse(s) == CASE s = "DONE" -> "exit" [] s = "ERROR" -> "fail" [] OTHER -> "tail"

LeaveWork(w) ==
  /\ Goto(w, "leaveWork", AfterTraverse(result[w]))
  /\ nWorkersInWork' = nWorkersInWork - 1
  /\ result' = [result EXCEPT ![w] = "NONE"]
  /\ IF result[w] \in {"PROGRESS", "IDLE"}
     THEN LET performed == result[w] = "PROGRESS" IN
          /\ inactiveCycleCount' = [inactiveCycleCount EXCEPT ![w] = NextInactiveCount(performed, @)]
          /\ backoffUs' = [backoffUs EXCEPT ![w] = NextBackoff(performed, inactiveCycleCount[w], @)]
     ELSE UNCHANGED <<inactiveCycleCount, backoffUs>>
  /\ UNCHANGED <<lifecycle, quiescenceRequested, editor, lists, messageRatioCount, nRunningJobs, messages,
                 activeState, localBlockList>>

\* Mutant: a worker that backs out stays counted.
LeaveBackOut_StaysCounted(w) ==
  /\ Goto(w, "backOut", "tail")
  /\ UNCHANGED <<lifecycle, dekker, lists, counts, nRunningJobs, messages, activeState, localBlockList, result>>

LeaveBackOut(w) ==
  /\ Goto(w, "backOut", "tail")
  /\ nWorkersInWork' = nWorkersInWork - 1
  /\ UNCHANGED <<lifecycle, quiescenceRequested, editor, lists, counts, nRunningJobs, messages,
                 activeState, localBlockList, result>>

\* changeStateTo(ERROR), which every lifecycle state allows.
Fail(w) ==
  /\ Goto(w, "fail", "exit")
  /\ state' = "ERROR"
  /\ UNCHANGED <<late, dekker, lists, counts, nRunningJobs, messages, activeState, localBlockList, result>>

\* Mutant: the loop goes on with the state it had.
Continue_Stale(w) ==
  /\ Goto(w, "tail", IF isActive(state) THEN "poll" ELSE "exit")
  /\ UNCHANGED <<lifecycle, dekker, lists, counts, nRunningJobs, messages, activeState, localBlockList, result>>

\* Sleep for backoffUs, reload the state, loop while it is active.
Continue(w) ==
  /\ Goto(w, "tail", IF isActive(state) THEN "poll" ELSE "exit")
  /\ activeState' = [activeState EXCEPT ![w] = state]
  /\ UNCHANGED <<lifecycle, dekker, lists, counts, nRunningJobs, messages, localBlockList, result>>

Exit(w) ==
  /\ Goto(w, "exit", "gone")
  /\ nRunningJobs' = nRunningJobs - 1
  \* the locals go out of scope
  /\ localBlockList' = [localBlockList EXCEPT ![w] = {}]
  /\ messageRatioCount' = [messageRatioCount EXCEPT ![w] = 0]
  /\ inactiveCycleCount' = [inactiveCycleCount EXCEPT ![w] = 0]
  /\ backoffUs' = [backoffUs EXCEPT ![w] = 0]
  /\ UNCHANGED <<lifecycle, dekker, lists, messages, activeState, result>>

PoolWorker(w) ==
  \/ Enter(w) \/ CopyJobList(w)
  \/ PollMessages(w) \/ SkipMessages(w) \/ ProcessScheduledMessages(w) \/ AdoptBlocks(w) \/ RefreshState(w)
  \/ CheckQuiescence(w) \/ SleepNotRunning(w)
  \/ EnterWork(w) \/ BackOut(w) \/ LeaveBackOut(w)
  \/ BeginTraverse(w) \/ EndTraverse(w) \/ LeaveWork(w)
  \/ Fail(w) \/ Continue(w) \/ Exit(w)

-----------------------------------------------------------------------------
(* SchedulerBase and its users *)

MayChange(from, to) ==
  <<from, to>> \in {<<"RUNNING", "REQUESTED_PAUSE">>, <<"REQUESTED_PAUSE", "PAUSED">>,
                    <<"PAUSED", "RUNNING">>, <<"RUNNING", "REQUESTED_STOP">>,
                    <<"PAUSED", "REQUESTED_STOP">>, <<"REQUESTED_STOP", "STOPPED">>}

ChangeState ==
  /\ "lifecycle" \in Environment
  /\ \E s \in LifecycleState :
       /\ MayChange(state, s)
       /\ state' = s
       /\ late' = IF s = "RUNNING" THEN Zeros ELSE late
  /\ UNCHANGED <<dekker, lists, counts, nRunningJobs, messages, pc, activeState, localBlockList, result>>

AllGone == \A w \in Workers : pc[w] = "gone"

\* A stopped scheduler is initialised and started again: customInit deals the
\* blocks of the graph as it now is.
Restart ==
  /\ "restart" \in Environment
  /\ AllGone /\ editor = "none"
  /\ state \in {"STOPPED", "ERROR"}
  /\ state' = "RUNNING" /\ late' = Zeros
  /\ jobs' = JobLists(graph)
  /\ adoption' = NoBlocks /\ zombies' = {}
  /\ pc' = Launch(graph)
  /\ UNCHANGED <<dekker, graph, counts, nRunningJobs, messages, activeState, localBlockList, result>>

PostMessage ==
  /\ messages < MaxMessages
  /\ messages' = messages + 1
  /\ UNCHANGED <<lifecycle, dekker, lists, counts, nRunningJobs, pc, activeState, localBlockList, result>>

RequestQuiescence ==
  /\ "quiesce" \in Environment
  /\ editor = "none"
  /\ editor' = "wanted"
  /\ quiescenceRequested' = TRUE
  /\ UNCHANGED <<lifecycle, nWorkersInWork, lists, counts, nRunningJobs, messages, pc, activeState, localBlockList, result>>

AwaitQuiescence ==
  /\ editor = "wanted"
  /\ nWorkersInWork = 0
  /\ editor' = "exclusive"
  /\ UNCHANGED <<lifecycle, quiescenceRequested, nWorkersInWork, lists, counts, nRunningJobs, messages,
                 pc, activeState, localBlockList, result>>

ReleaseQuiescence ==
  /\ editor = "exclusive"
  /\ editor' = "none"
  /\ quiescenceRequested' = FALSE
  /\ UNCHANGED <<lifecycle, nWorkersInWork, lists, counts, nRunningJobs, messages, pc, activeState, localBlockList, result>>

HeldBlocks ==
  UNION ({ToSet(graph), zombies} \cup {jobs[w] : w \in DOMAIN jobs}
         \cup {localBlockList[w] \cup adoption[w] : w \in Workers})

\* A new block joins the graph and waits for one of the launched runners.
EmplaceBlock ==
  /\ "emplace" \in Environment
  /\ editor = "exclusive" /\ isActive(state)
  /\ \E b \in Blocks \ HeldBlocks, w \in DOMAIN jobs :
       /\ graph' = Append(graph, b)
       /\ adoption' = [adoption EXCEPT ![w] = @ \cup {b}]
  /\ UNCHANGED <<lifecycle, dekker, jobs, zombies, counts, nRunningJobs, messages,
                 pc, activeState, localBlockList, result>>

\* A block leaves the graph; the worker that holds it drops it later.
RemoveBlock ==
  /\ "remove" \in Environment
  /\ editor = "exclusive" /\ isActive(state)
  /\ \E i \in DOMAIN graph :
       /\ graph' = RemoveAt(graph, i)
       /\ adoption' = [w \in Workers |-> adoption[w] \ {graph[i]}]
       /\ zombies' = IF adoption' = adoption THEN zombies \cup {graph[i]} ELSE zombies
  /\ UNCHANGED <<lifecycle, dekker, jobs, counts, nRunningJobs, messages,
                 pc, activeState, localBlockList, result>>

SchedulerBase ==
  \/ ChangeState \/ Restart \/ PostMessage
  \/ RequestQuiescence \/ AwaitQuiescence \/ ReleaseQuiescence
  \/ EmplaceBlock \/ RemoveBlock

Next == (\E w \in Workers : PoolWorker(w)) \/ SchedulerBase

Spec == Init /\ [][Next]_vars

\* Threads are not starved and a traversal returns; whoever quiesces the
\* workers waits for them and releases them.
Fairness ==
  /\ \A w \in Workers : WF_vars(PoolWorker(w))
  /\ WF_vars(AwaitQuiescence) /\ WF_vars(ReleaseQuiescence)

FairSpec == Spec /\ Fairness
-----------------------------------------------------------------------------
(* Properties *)

PC == {"enter", "copy", "poll", "serve", "adopt", "refresh", "gate", "enterWork", "recheck",
       "backOut", "traverse", "leaveWork", "fail", "tail", "exit", "gone"}

\* Types; only a launched worker runs, and the message cycle count keeps below
\* or at the ratio.
TypeOK ==
  /\ state \in LifecycleState
  /\ quiescenceRequested \in BOOLEAN
  /\ nWorkersInWork \in Int /\ nRunningJobs \in Int
  /\ messages \in 0 .. MaxMessages
  /\ graph \in Seq(Blocks)
  /\ DOMAIN jobs \in SUBSET Workers /\ \A w \in DOMAIN jobs : jobs[w] \in SUBSET Blocks
  /\ adoption \in [Workers -> SUBSET Blocks]
  /\ zombies \in SUBSET Blocks
  /\ pc \in [Workers -> PC] /\ \A w \in Workers : pc[w] # "gone" => w \in DOMAIN jobs
  /\ activeState \in [Workers -> LifecycleState]
  /\ localBlockList \in [Workers -> SUBSET Blocks]
  /\ messageRatioCount \in [Workers -> 0 .. MessageRatio]
  /\ inactiveCycleCount \in [Workers -> Nat]
  /\ backoffUs \in [Workers -> Nat]
  /\ result \in [Workers -> WorkStatus \cup {"NONE"}]
  /\ editor \in {"none", "wanted", "exclusive"}
  /\ late \in [Workers -> Nat]

Counted == {"recheck", "backOut", "traverse", "leaveWork"}
Working == {w \in Workers : pc[w] = "traverse"}
Running == {w \in Workers : pc[w] \notin {"enter", "gone"}}

\* While the graph is edited under quiescence no worker is inside
\* traverseBlockListOnce: the flag is read again after the worker is counted.
QuiescedExclusive == editor = "exclusive" => Working = {}

\* The two atomic counters say what the threads waiting on them take them for.
CountersExact ==
  /\ nWorkersInWork = Cardinality({w \in Workers : pc[w] \in Counted})
  /\ nRunningJobs = Cardinality(Running)

\* The scheduler's message ports have one reader, whatever the workers'
\* schedule: only runner 0 ever gets to processScheduledMessages().
SingleMessageReader == \A w \in Workers : pc[w] = "serve" => w = 0

\* No block is in the hands of two workers, or twice in the hands of one:
\* job lists, adoptions, removals and restarts keep a block with one runner.
BlocksRunOnce ==
  \A v, w \in Workers :
    /\ v # w => (localBlockList[v] \cup adoption[v]) \cap (localBlockList[w] \cup adoption[w]) = {}
    /\ localBlockList[v] \cap adoption[v] = {}

\* Nor is a block forgotten: while every runner is there, each block of the graph
\* has one that runs it or will, however many were added and removed before the
\* lists were dealt, copied and adopted.
EveryBlockHasRunner ==
  (\A w \in DOMAIN jobs : pc[w] # "gone") =>
    \A b \in ToSet(graph) : \E w \in DOMAIN jobs :
      b \in adoption[w] \cup (IF pc[w] \in {"enter", "copy"} THEN jobs[w] ELSE localBlockList[w])

\* A worker acts on a state it read earlier, but it begins at most one more
\* traversal once the scheduler has left RUNNING.
AtMostOneLateTraversal == \A w \in Workers : late[w] <= 1

\* A late traversal was begun on a state read before the change.  The worker
\* reloads the state before it can begin another.
LateInv ==
  \A w \in Workers :
    /\ late[w] <= 1
    /\ state = "RUNNING" => late[w] = 0
    /\ pc[w] \in {"enterWork", "recheck"} => activeState[w] = "RUNNING"
    /\ late[w] = 1 => \/ pc[w] \in {"traverse", "leaveWork", "fail", "tail", "exit", "gone"}
                     \/ activeState[w] # "RUNNING"

PowerOfTwo[k \in Nat] == IF k = 0 THEN 1 ELSE 2 * PowerOfTwo[k - 1]

\* The sleep of a worker is a function of its run of no-progress cycles:
\* nothing while it spins, then doubling from the initial value to the limit.
BackoffSchedule ==
  \A w \in Workers :
    LET idle == inactiveCycleCount[w] - ActiveSpinCount IN
    backoffUs[w] = IF idle <= 0 THEN 0 ELSE MinOf(InitialBackoff * PowerOfTwo[idle - 1], MaxBackoff)

\* The message poll bounds every run of no-progress cycles, hence the sleeping
\* a message can be made to wait for.
PollBoundsBackoff == \A w \in Workers : inactiveCycleCount[w] <= MessageRatio + 1

\* An edit that asked for quiescence gets it, although the workers keep
\* coming back to count themselves in.
QuiescenceGranted == editor = "wanted" ~> editor = "exclusive"

\* Once the scheduler is stopped or has failed every worker returns.
WorkersDrain == ~ isActive(state) ~> AllGone

\* A message to the scheduler is read, unless runner 0 has returned: the other
\* runners leave the ports alone.
MessagesServed == messages > 0 ~> (messages = 0 \/ pc[0] \in {"exit", "gone"})

\* The invariant the proofs are by: the quiescence flag is up exactly while
\* an editor wants or has the graph, and the counters are exact.
FlagFollowsEditor == quiescenceRequested <=> editor # "none"

IInv ==
  /\ TypeOK
  /\ CountersExact
  /\ FlagFollowsEditor
  /\ QuiescedExclusive
  /\ SingleMessageReader
=============================================================================
