------------------------ MODULE BlockingBackoff_proofs ------------------------
(***************************************************************************)
(* Proofs about BlockingBackoff, for every number of threads, graph,       *)
(* setting and bound.                                                      *)
(***************************************************************************)
EXTENDS BlockingBackoff, CommonLemmas

-----------------------------------------------------------------------------
(* Type correctness *)

LEMMA WorkersFinite == IsFiniteSet(Workers)
BY FS_Interval, ThreadsAssumption DEF Workers

\* The job lists dealt by customInit are sets of blocks, one per batch, and
\* there are no more batches than threads.
LEMMA JobListsType ==
  ASSUME NEW g \in Seq(Blocks)
  PROVE  /\ DOMAIN JobLists(g) \in SUBSET Workers
         /\ \A w \in DOMAIN JobLists(g) : JobLists(g)[w] \in SUBSET Blocks
         /\ Launch(g) \in [Workers -> PC]
         /\ \A w \in Workers : Launch(g)[w] # "gone" => w \in DOMAIN JobLists(g)
<1> DEFINE n == NumBatches(g)
<1>1. n \in 1 .. MaxThreads
  BY ThreadsAssumption DEF NumBatches, MaxOf, MinOf
<1>2. DOMAIN JobLists(g) = 0 .. n - 1
  BY DEF JobLists
<1>3. DOMAIN JobLists(g) \in SUBSET Workers
  BY <1>1, <1>2, ThreadsAssumption DEF Workers
<1>4. ASSUME NEW w \in DOMAIN JobLists(g) PROVE JobLists(g)[w] \in SUBSET Blocks
  BY DEF JobLists
<1>5. QED
  BY <1>3, <1>4 DEF Launch, PC

LEMMA RemoveAtType ==
  ASSUME NEW S, NEW s \in Seq(S), NEW i \in DOMAIN s
  PROVE  RemoveAt(s, i) \in Seq(S)
<1>1. i \in 1 .. Len(s)
  OBVIOUS
<1>2. SubSeq(s, 1, i - 1) \in Seq(S) /\ SubSeq(s, i + 1, Len(s)) \in Seq(S)
  BY <1>1
<1>3. QED
  BY <1>2 DEF RemoveAt

LEMMA InitTypeOK == Init => TypeOK
<1> SUFFICES ASSUME Init PROVE TypeOK
  OBVIOUS
<1>1. /\ graph \in Seq(Blocks)
      /\ DOMAIN jobs \in SUBSET Workers /\ \A w \in DOMAIN jobs : jobs[w] \in SUBSET Blocks
      /\ pc \in [Workers -> PC] /\ \A w \in Workers : pc[w] # "gone" => w \in DOMAIN jobs
  BY JobListsType, GraphAssumption DEF Init
<1>2. /\ adoption \in [Workers -> SUBSET Blocks] /\ localBlockList \in [Workers -> SUBSET Blocks]
      /\ zombies \in SUBSET Blocks
  BY DEF Init, NoBlocks
<1>3. /\ messageRatioCount \in [Workers -> 0 .. MessageRatio]
      /\ inactiveCycleCount \in [Workers -> Nat] /\ backoffUs \in [Workers -> Nat]
      /\ late \in [Workers -> Nat]
  BY SettingsAssumption DEF Init, Zeros
<1>4. /\ state \in LifecycleState /\ activeState \in [Workers -> LifecycleState]
      /\ result \in [Workers -> WorkStatus \cup {"NONE"}]
      /\ messages \in 0 .. MaxMessages
  BY BoundsAssumption DEF Init, LifecycleState
<1>5. quiescenceRequested \in BOOLEAN /\ editor \in {"none", "wanted", "exclusive"}
  BY Zenon DEF Init
<1>6. nWorkersInWork \in Int /\ nRunningJobs \in Int
  <2>1. nWorkersInWork = 0 /\ nRunningJobs = 0
    BY Zenon DEF Init
  <2>2. QED
    BY <2>1
<1>7. QED
  BY <1>1, <1>2, <1>3, <1>4, <1>5, <1>6 DEF TypeOK

LEMMA StepTypeOK == TypeOK /\ [Next]_vars => TypeOK'
<1> SUFFICES ASSUME TypeOK, [Next]_vars PROVE TypeOK'
  OBVIOUS
<1> USE DEF TypeOK
<1>1. ASSUME NEW w \in Workers, PoolWorker(w) PROVE TypeOK'
  <2> USE <1>1 DEF Goto, lifecycle, dekker, lists, counts, PC
  <2>1. CASE Enter(w)
    BY <2>1 DEF Enter
  <2>2. CASE CopyJobList(w)
    BY <2>2, SettingsAssumption DEF CopyJobList
  <2>3. CASE PollMessages(w)
    BY <2>3 DEF PollMessages
  <2>4. CASE SkipMessages(w)
    BY <2>4, SettingsAssumption DEF SkipMessages, NextStreamCycle
  <2>5. CASE ProcessScheduledMessages(w)
    BY <2>5, BoundsAssumption DEF ProcessScheduledMessages
  <2>6. CASE AdoptBlocks(w)
    BY <2>6 DEF AdoptBlocks
  <2>7. CASE RefreshState(w)
    BY <2>7, SettingsAssumption DEF RefreshState, CountMessageCycle
  <2>8. CASE CheckQuiescence(w)
    BY <2>8 DEF CheckQuiescence
  <2>9. CASE SleepNotRunning(w)
    BY <2>9, SettingsAssumption DEF SleepNotRunning
  <2>10. CASE EnterWork(w)
    BY <2>10 DEF EnterWork
  <2>11. CASE BackOut(w)
    BY <2>11 DEF BackOut
  <2>12. CASE LeaveBackOut(w)
    BY <2>12 DEF LeaveBackOut
  <2>13. CASE BeginTraverse(w)
    BY <2>13 DEF BeginTraverse
  <2>14. CASE EndTraverse(w)
    BY <2>14, BoundsAssumption DEF EndTraverse, WorkStatus
  <2>15. CASE LeaveWork(w)
    <3>1. pc' \in [Workers -> PC] /\ \A v \in Workers : pc'[v] # "gone" => v \in DOMAIN jobs
      BY <2>15 DEF LeaveWork, AfterTraverse
    <3>2. inactiveCycleCount' \in [Workers -> Nat]
      BY <2>15 DEF LeaveWork, NextInactiveCount
    <3>3. \A p \in BOOLEAN, n \in Nat, k \in Nat : NextBackoff(p, n, k) \in Nat
      BY SettingsAssumption DEF NextBackoff, MinOf
    <3>4. backoffUs' \in [Workers -> Nat]
      <4>1. CASE result[w] \in {"PROGRESS", "IDLE"}
        <5>1. backoffUs' = [backoffUs EXCEPT ![w] =
                              NextBackoff(result[w] = "PROGRESS", inactiveCycleCount[w], backoffUs[w])]
          BY <2>15, <4>1 DEF LeaveWork
        <5>2. NextBackoff(result[w] = "PROGRESS", inactiveCycleCount[w], backoffUs[w]) \in Nat
          <6>1. (result[w] = "PROGRESS") \in BOOLEAN
            OBVIOUS
          <6>2. QED
            BY <6>1, <3>3
        <5>3. QED
          BY <5>1, <5>2
      <4>2. CASE result[w] \notin {"PROGRESS", "IDLE"}
        BY <2>15, <4>2 DEF LeaveWork
      <4>3. QED
        BY <4>1, <4>2
    <3>5. QED
      BY <2>15, <3>1, <3>2, <3>4 DEF LeaveWork
  <2>16. CASE Fail(w)
    BY <2>16 DEF Fail, LifecycleState
  <2>17. CASE Continue(w)
    BY <2>17 DEF Continue
  <2>18. CASE Exit(w)
    BY <2>18, SettingsAssumption DEF Exit
  <2>19. QED
    BY <2>1, <2>2, <2>3, <2>4, <2>5, <2>6, <2>7, <2>8, <2>9, <2>10, <2>11, <2>12, <2>13, <2>14, <2>15, <2>16, <2>17, <2>18 DEF PoolWorker
<1>2. ASSUME SchedulerBase PROVE TypeOK'
  <2> USE <1>2 DEF lifecycle, dekker, lists, counts
  <2>1. CASE ChangeState
    BY <2>1 DEF ChangeState, Zeros, MayChange
  <2>2. CASE Restart
    BY <2>2, JobListsType DEF Restart, Zeros, NoBlocks, LifecycleState
  <2>3. CASE PostMessage
    BY <2>3, BoundsAssumption DEF PostMessage
  <2>4. CASE RequestQuiescence
    BY <2>4 DEF RequestQuiescence
  <2>5. CASE AwaitQuiescence
    BY <2>5 DEF AwaitQuiescence
  <2>6. CASE ReleaseQuiescence
    BY <2>6 DEF ReleaseQuiescence
  <2>7. CASE EmplaceBlock
    BY <2>7 DEF EmplaceBlock
  <2>8. CASE RemoveBlock
    <3>1. PICK i \in DOMAIN graph : /\ graph' = RemoveAt(graph, i)
                                   /\ adoption' = [w \in Workers |-> adoption[w] \ {graph[i]}]
                                   /\ zombies' \in {zombies, zombies \cup {graph[i]}}
      BY <2>8 DEF RemoveBlock
    <3>2. graph' \in Seq(Blocks)
      BY <3>1, RemoveAtType
    <3>3. QED
      BY <2>8, <3>1, <3>2 DEF RemoveBlock
  <2>9. QED
    BY <2>1, <2>2, <2>3, <2>4, <2>5, <2>6, <2>7, <2>8 DEF SchedulerBase
<1>3. CASE UNCHANGED vars
  BY <1>3 DEF vars, lifecycle, dekker, lists, counts
<1>4. QED
  BY <1>1, <1>2, <1>3 DEF Next

\* Every variable of the scheduler keeps its type.
THEOREM TypeCorrect == Spec => []TypeOK
<1>1. QED
  BY InitTypeOK, StepTypeOK, PTL DEF Spec

-----------------------------------------------------------------------------
(* Quiescence *)

\* The workers at a point of C.
At(p, C) == {v \in Workers : p[v] \in C}

\* What a move between two points adds to the number of workers at C.
Delta(C, from, to) == (IF to \in C THEN 1 ELSE 0) - (IF from \in C THEN 1 ELSE 0)

\* A worker that moves from one program point to another changes by at most
\* one the number of workers that are at a point of a given set.
LEMMA CountStep ==
  ASSUME NEW p \in [Workers -> PC], NEW w \in Workers, NEW to \in PC, NEW C,
         NEW q, q = [p EXCEPT ![w] = to]
  PROVE  /\ Cardinality(At(p, C)) \in Nat
         /\ Cardinality(At(q, C)) = Cardinality(At(p, C)) + Delta(C, p[w], to)
<1> DEFINE A == At(p, C)
           B == At(q, C)
<1>1. IsFiniteSet(A) /\ Cardinality(A) \in Nat
  BY WorkersFinite, FS_Subset, FS_CardinalityType DEF At
<1>2. B = IF to \in C THEN A \cup {w} ELSE A \ {w}
  BY DEF At
<1>3. w \in A <=> p[w] \in C
  BY DEF At
<1>4. Cardinality(A \cup {w}) = IF w \in A THEN Cardinality(A) ELSE Cardinality(A) + 1
  BY <1>1, FS_AddElement
<1>5. Cardinality(A \ {w}) = IF w \in A THEN Cardinality(A) - 1 ELSE Cardinality(A)
  BY <1>1, FS_RemoveElement
<1> HIDE DEF A, B
<1>6. Cardinality(A) \in Nat /\ Cardinality(B) = Cardinality(A) + Delta(C, p[w], to)
  BY <1>1, <1>2, <1>3, <1>4, <1>5 DEF Delta
<1>7. QED
  BY <1>6 DEF A, B

\* The counters count: every worker that is between its fetch_add and its
\* fetch_sub is in _nWorkersInWork, every one that has entered in _nRunningJobs.
LEMMA CountersStep == TypeOK /\ CountersExact /\ [Next]_vars => CountersExact'
<1> SUFFICES ASSUME TypeOK, CountersExact, [Next]_vars PROVE CountersExact'
  OBVIOUS
<1> DEFINE InWork == {v \in Workers : pc[v] \in Counted}
           Entered == PC \ {"enter", "gone"}
           InLoop == {v \in Workers : pc[v] \in Entered}
<1>0. pc \in [Workers -> PC] /\ nWorkersInWork = Cardinality(InWork) /\ nRunningJobs = Cardinality(InLoop)
  <2>1. Running = InLoop
    BY DEF TypeOK, Running
  <2>2. QED
    BY <2>1 DEF CountersExact, TypeOK
<1>1. SUFFICES /\ nWorkersInWork' = Cardinality(InWork') /\ nRunningJobs' = Cardinality(InLoop')
               /\ Running' = InLoop'
  BY DEF CountersExact
<1>2. Running' = InLoop'
  BY StepTypeOK DEF Running, TypeOK
<1>3. ASSUME NEW w \in Workers, PoolWorker(w)
      PROVE  nWorkersInWork' = Cardinality(InWork') /\ nRunningJobs' = Cardinality(InLoop')
  <2>1. ASSUME NEW to \in PC, pc' = [pc EXCEPT ![w] = to]
        PROVE  /\ Cardinality(InWork) \in Nat /\ Cardinality(InLoop) \in Nat
               /\ Cardinality(InWork') = Cardinality(InWork) + Delta(Counted, pc[w], to)
               /\ Cardinality(InLoop') = Cardinality(InLoop) + Delta(Entered, pc[w], to)
    <3>1. InWork = At(pc, Counted) /\ InWork' = At(pc', Counted)
      BY DEF At
    <3>2. InLoop = At(pc, Entered) /\ InLoop' = At(pc', Entered)
      BY DEF At
    <3> HIDE DEF Entered, InWork, InLoop
    <3>3. /\ Cardinality(At(pc, Counted)) \in Nat
          /\ Cardinality(At(pc', Counted)) = Cardinality(At(pc, Counted)) + Delta(Counted, pc[w], to)
      BY <1>0, <2>1, CountStep, Zenon
    <3>4. /\ Cardinality(At(pc, Entered)) \in Nat
          /\ Cardinality(At(pc', Entered)) = Cardinality(At(pc, Entered)) + Delta(Entered, pc[w], to)
      BY <1>0, <2>1, CountStep, Zenon
    <3>5. QED
      BY <3>1, <3>2, <3>3, <3>4
  <2> HIDE DEF InWork, InLoop
  <2> USE <1>0, <2>1 DEF Goto, dekker, PC, Counted, Delta
  <2>2. CASE Enter(w)
    BY <2>2 DEF Enter
  <2>3. CASE CopyJobList(w)
    BY <2>3 DEF CopyJobList
  <2>4. CASE PollMessages(w)
    <3>1. PICK to \in {"serve", "adopt"} : pc' = [pc EXCEPT ![w] = to]
      BY <2>4 DEF PollMessages
    <3>2. pc[w] = "poll" /\ UNCHANGED <<nWorkersInWork, nRunningJobs>>
      BY <2>4 DEF PollMessages
    <3>3. to \in PC /\ Delta(Counted, pc[w], to) = 0 /\ Delta(Entered, pc[w], to) = 0
      BY <3>2
    <3> HIDE DEF Entered, Counted, Delta, PC
    <3>4. /\ Cardinality(InWork) \in Nat /\ Cardinality(InLoop) \in Nat
          /\ Cardinality(InWork') = Cardinality(InWork) + Delta(Counted, pc[w], to)
          /\ Cardinality(InLoop') = Cardinality(InLoop) + Delta(Entered, pc[w], to)
      BY ONLY <2>1, <3>1, <3>3, Zenon
    <3>5. QED
      BY <3>2, <3>3, <3>4
  <2>5. CASE SkipMessages(w)
    BY <2>5 DEF SkipMessages
  <2>6. CASE ProcessScheduledMessages(w)
    BY <2>6 DEF ProcessScheduledMessages
  <2>7. CASE AdoptBlocks(w)
    BY <2>7 DEF AdoptBlocks
  <2>8. CASE RefreshState(w)
    BY <2>8 DEF RefreshState
  <2>9. CASE CheckQuiescence(w)
    <3>1. PICK to \in {"tail", "enterWork"} : pc' = [pc EXCEPT ![w] = to]
      BY <2>9 DEF CheckQuiescence
    <3>2. pc[w] = "gate" /\ UNCHANGED <<nWorkersInWork, nRunningJobs>>
      BY <2>9 DEF CheckQuiescence
    <3>3. to \in PC /\ Delta(Counted, pc[w], to) = 0 /\ Delta(Entered, pc[w], to) = 0
      BY <3>2
    <3> HIDE DEF Entered, Counted, Delta, PC
    <3>4. /\ Cardinality(InWork) \in Nat /\ Cardinality(InLoop) \in Nat
          /\ Cardinality(InWork') = Cardinality(InWork) + Delta(Counted, pc[w], to)
          /\ Cardinality(InLoop') = Cardinality(InLoop) + Delta(Entered, pc[w], to)
      BY ONLY <2>1, <3>1, <3>3, Zenon
    <3>5. QED
      BY <3>2, <3>3, <3>4
  <2>10. CASE SleepNotRunning(w)
    BY <2>10 DEF SleepNotRunning
  <2>11. CASE EnterWork(w)
    BY <2>11 DEF EnterWork
  <2>12. CASE BackOut(w)
    BY <2>12 DEF BackOut
  <2>13. CASE LeaveBackOut(w)
    BY <2>13 DEF LeaveBackOut
  <2>14. CASE BeginTraverse(w)
    BY <2>14 DEF BeginTraverse
  <2>15. CASE EndTraverse(w)
    BY <2>15 DEF EndTraverse
  <2>16. CASE LeaveWork(w)
    <3>1. PICK to \in {"exit", "fail", "tail"} : pc' = [pc EXCEPT ![w] = to]
      BY <2>16 DEF LeaveWork, AfterTraverse
    <3>2. pc[w] = "leaveWork" /\ nWorkersInWork' = nWorkersInWork - 1 /\ UNCHANGED nRunningJobs
      BY <2>16 DEF LeaveWork
    <3>3. to \in PC /\ Delta(Counted, pc[w], to) = 0 - 1 /\ Delta(Entered, pc[w], to) = 0
      BY <3>2
    <3> HIDE DEF Entered, Counted, Delta, PC
    <3>4. /\ Cardinality(InWork) \in Nat /\ Cardinality(InLoop) \in Nat
          /\ Cardinality(InWork') = Cardinality(InWork) + Delta(Counted, pc[w], to)
          /\ Cardinality(InLoop') = Cardinality(InLoop) + Delta(Entered, pc[w], to)
      BY ONLY <2>1, <3>1, <3>3, Zenon
    <3>5. QED
      BY <3>2, <3>3, <3>4
  <2>17. CASE Fail(w)
    BY <2>17 DEF Fail
  <2>18. CASE Continue(w)
    <3>1. PICK to \in {"poll", "exit"} : pc' = [pc EXCEPT ![w] = to]
      BY <2>18 DEF Continue
    <3>2. pc[w] = "tail" /\ UNCHANGED <<nWorkersInWork, nRunningJobs>>
      BY <2>18 DEF Continue
    <3>3. to \in PC /\ Delta(Counted, pc[w], to) = 0 /\ Delta(Entered, pc[w], to) = 0
      BY <3>2
    <3> HIDE DEF Entered, Counted, Delta, PC
    <3>4. /\ Cardinality(InWork) \in Nat /\ Cardinality(InLoop) \in Nat
          /\ Cardinality(InWork') = Cardinality(InWork) + Delta(Counted, pc[w], to)
          /\ Cardinality(InLoop') = Cardinality(InLoop) + Delta(Entered, pc[w], to)
      BY ONLY <2>1, <3>1, <3>3, Zenon
    <3>5. QED
      BY <3>2, <3>3, <3>4
  <2>19. CASE Exit(w)
    BY <2>19 DEF Exit
  <2>20. QED
    BY ONLY <1>3, <2>2, <2>3, <2>4, <2>5, <2>6, <2>7, <2>8, <2>9, <2>10, <2>11, <2>12, <2>13, <2>14, <2>15, <2>16, <2>17, <2>18, <2>19 DEF PoolWorker
<1>4. ASSUME SchedulerBase
      PROVE  nWorkersInWork' = Cardinality(InWork') /\ nRunningJobs' = Cardinality(InLoop')
  <2>1. InWork' = InWork /\ InLoop' = InLoop
    <3>1. CASE Restart
      <4>1. \A v \in Workers : pc[v] \in {"enter", "gone"} /\ pc'[v] \in {"enter", "gone"}
        BY <3>1 DEF Restart, AllGone, Launch
      <4>2. QED
        BY <4>1 DEF Counted
    <3>2. CASE ~ Restart
      <4>1. pc' = pc
        BY <1>4, <3>2 DEF SchedulerBase, ChangeState, PostMessage, RequestQuiescence, AwaitQuiescence,
                          ReleaseQuiescence, EmplaceBlock, RemoveBlock
      <4>2. QED
        BY <4>1
    <3>3. QED
      BY <3>1, <3>2
  <2>2. nWorkersInWork' = nWorkersInWork /\ nRunningJobs' = nRunningJobs
    BY <1>4 DEF SchedulerBase, ChangeState, Restart, PostMessage, RequestQuiescence, AwaitQuiescence,
                ReleaseQuiescence, EmplaceBlock, RemoveBlock, dekker
  <2>3. QED
    BY <1>0, <2>1, <2>2
<1>5. CASE UNCHANGED vars
  <2>1. pc' = pc /\ nWorkersInWork' = nWorkersInWork /\ nRunningJobs' = nRunningJobs
    BY <1>5 DEF vars, dekker
  <2>2. InWork' = InWork /\ InLoop' = InLoop
    BY <2>1
  <2>3. QED
    BY <1>0, <1>2, <2>1, <2>2
<1>6. QED
  BY <1>2, <1>3, <1>4, <1>5 DEF Next

\* Nobody but the editor touches the flag.
LEMMA WorkersKeepFlag ==
  ASSUME NEW w \in Workers, PoolWorker(w)
  PROVE  UNCHANGED <<quiescenceRequested, editor>>
BY DEF PoolWorker, Enter, CopyJobList, PollMessages, SkipMessages, ProcessScheduledMessages, AdoptBlocks, RefreshState, CheckQuiescence, SleepNotRunning, EnterWork, BackOut, LeaveBackOut, BeginTraverse, EndTraverse, LeaveWork, Fail, Continue, Exit, dekker

LEMMA FlagStep == FlagFollowsEditor /\ [Next]_vars => FlagFollowsEditor'
<1> SUFFICES ASSUME FlagFollowsEditor, [Next]_vars PROVE FlagFollowsEditor'
  OBVIOUS
<1>1. CASE \E w \in Workers : PoolWorker(w)
  BY <1>1, WorkersKeepFlag DEF FlagFollowsEditor
<1>2. CASE SchedulerBase
  BY <1>2 DEF FlagFollowsEditor, SchedulerBase, ChangeState, Restart, PostMessage, RequestQuiescence, AwaitQuiescence, ReleaseQuiescence, EmplaceBlock, RemoveBlock, dekker
<1>3. CASE UNCHANGED vars
  BY <1>3 DEF FlagFollowsEditor, vars, dekker
<1>4. QED
  BY <1>1, <1>2, <1>3 DEF Next

\* A worker starts a traversal only when it finds the flag down after it was
\* counted, and stays counted until the traversal is over.
LEMMA TraversalSteps ==
  ASSUME TypeOK, [Next]_vars
  PROVE  \/ Working' = Working
         \/ \E w \in Workers : BeginTraverse(w) /\ w \notin Working /\ Working' = Working \cup {w}
         \/ \E w \in Workers : EndTraverse(w) /\ w \in Working /\ Working' = Working \ {w}
<1> USE DEF TypeOK, Working
<1>1. ASSUME NEW w \in Workers, PoolWorker(w), ~ BeginTraverse(w), ~ EndTraverse(w)
      PROVE  Working' = Working
  <2>1. PICK to \in PC : pc' = [pc EXCEPT ![w] = to] /\ pc[w] # "traverse" /\ to # "traverse"
    <3>1. CASE Enter(w)
      BY <3>1 DEF Enter, Goto, PC
    <3>2. CASE CopyJobList(w)
      BY <3>2 DEF CopyJobList, Goto, PC
    <3>3. CASE PollMessages(w)
      BY <3>3 DEF PollMessages, Goto, PC
    <3>4. CASE SkipMessages(w)
      BY <3>4 DEF SkipMessages, Goto, PC
    <3>5. CASE ProcessScheduledMessages(w)
      BY <3>5 DEF ProcessScheduledMessages, Goto, PC
    <3>6. CASE AdoptBlocks(w)
      BY <3>6 DEF AdoptBlocks, Goto, PC
    <3>7. CASE RefreshState(w)
      BY <3>7 DEF RefreshState, Goto, PC
    <3>8. CASE CheckQuiescence(w)
      BY <3>8 DEF CheckQuiescence, Goto, PC
    <3>9. CASE SleepNotRunning(w)
      BY <3>9 DEF SleepNotRunning, Goto, PC
    <3>10. CASE EnterWork(w)
      BY <3>10 DEF EnterWork, Goto, PC
    <3>11. CASE BackOut(w)
      BY <3>11 DEF BackOut, Goto, PC
    <3>12. CASE LeaveBackOut(w)
      BY <3>12 DEF LeaveBackOut, Goto, PC
    <3>13. CASE LeaveWork(w)
      BY <3>13 DEF LeaveWork, Goto, PC, AfterTraverse
    <3>14. CASE Fail(w)
      BY <3>14 DEF Fail, Goto, PC
    <3>15. CASE Continue(w)
      BY <3>15 DEF Continue, Goto, PC
    <3>16. CASE Exit(w)
      BY <3>16 DEF Exit, Goto, PC
    <3>17. QED
      BY ONLY <1>1, <3>1, <3>2, <3>3, <3>4, <3>5, <3>6, <3>7, <3>8, <3>9, <3>10, <3>11, <3>12, <3>13, <3>14, <3>15, <3>16 DEF PoolWorker
  <2>2. QED
    BY <2>1
<1>2. ASSUME NEW w \in Workers, BeginTraverse(w)
      PROVE  w \notin Working /\ Working' = Working \cup {w}
  BY <1>2 DEF BeginTraverse, Goto
<1>3. ASSUME NEW w \in Workers, EndTraverse(w)
      PROVE  w \in Working /\ Working' = Working \ {w}
  BY <1>3 DEF EndTraverse, Goto
<1>4. CASE SchedulerBase
  <2>1. CASE Restart
    BY <2>1 DEF Restart, AllGone, Launch
  <2>2. CASE ~ Restart
    BY <1>4, <2>2 DEF SchedulerBase, ChangeState, Restart, PostMessage, RequestQuiescence, AwaitQuiescence, ReleaseQuiescence, EmplaceBlock, RemoveBlock
  <2>3. QED
    BY <2>1, <2>2
<1>5. CASE UNCHANGED vars
  BY <1>5 DEF vars
<1> HIDE DEF TypeOK, Working
<1>6. QED
  BY <1>1, <1>2, <1>3, <1>4, <1>5 DEF Next

LEMMA ExclusiveStep ==
  ASSUME TypeOK, CountersExact, FlagFollowsEditor, QuiescedExclusive, [Next]_vars
  PROVE  QuiescedExclusive'
<1> SUFFICES ASSUME editor' = "exclusive" PROVE Working' = {}
  BY DEF QuiescedExclusive
<1>1. CASE Working' = Working
  <2>1. CASE editor = "exclusive"
    BY <1>1, <2>1 DEF QuiescedExclusive
  <2>2. CASE editor # "exclusive"
    <3>1. AwaitQuiescence
      <4>1. \A w \in Workers : ~ PoolWorker(w)
        BY <2>2, WorkersKeepFlag
      <4>2. ~ UNCHANGED vars
        BY <2>2 DEF vars, dekker
      <4>3. SchedulerBase
        BY <4>1, <4>2 DEF Next
      <4>4. QED
        BY <2>2, <4>3 DEF SchedulerBase, ChangeState, Restart, PostMessage, RequestQuiescence, AwaitQuiescence, ReleaseQuiescence, EmplaceBlock, RemoveBlock, dekker
    <3>2. Cardinality({w \in Workers : pc[w] \in Counted}) = 0
      BY <3>1 DEF AwaitQuiescence, CountersExact
    <3>3. {w \in Workers : pc[w] \in Counted} = {}
      BY <3>2, WorkersFinite, FS_Subset, FS_EmptySet
    <3>4. QED
      BY <1>1, <3>3 DEF Working, Counted
  <2>3. QED
    BY <2>1, <2>2
<1>2. CASE \E w \in Workers : BeginTraverse(w)
  <2>1. editor = "none" /\ editor' = editor
    BY <1>2 DEF BeginTraverse, FlagFollowsEditor, dekker
  <2>2. QED
    BY <2>1
<1>3. CASE \E w \in Workers : EndTraverse(w) /\ Working' = Working \ {w}
  <2>1. editor' = editor
    BY <1>3 DEF EndTraverse, dekker
  <2>2. QED
    BY <1>3, <2>1 DEF QuiescedExclusive
<1>4. QED
  BY <1>1, <1>2, <1>3, TraversalSteps

\* A worker inside its loop is counted in _nRunningJobs, so that the second
\* half of "runnerId == 0 || nRunningJobs == 0" never holds there.
LEMMA ReaderStep ==
  ASSUME TypeOK, CountersExact, SingleMessageReader, [Next]_vars
  PROVE  SingleMessageReader'
<1> SUFFICES ASSUME NEW w \in Workers, pc'[w] = "serve" PROVE w = 0
  BY DEF SingleMessageReader
<1>1. CASE pc[w] = "serve"
  BY <1>1 DEF SingleMessageReader
<1>2. CASE pc[w] # "serve"
  <2>1. PollMessages(w) /\ servesScheduler(w)
    <3>1. ~ UNCHANGED vars /\ ~ SchedulerBase
      BY <1>2 DEF vars, SchedulerBase, ChangeState, Restart, PostMessage, RequestQuiescence, AwaitQuiescence, ReleaseQuiescence, EmplaceBlock, RemoveBlock, Launch
    <3>2. PICK v \in Workers : PoolWorker(v)
      BY <3>1 DEF Next
    <3>3. QED
      BY <1>2, <3>2 DEF TypeOK, Goto, AfterTraverse, PoolWorker, Enter, CopyJobList, PollMessages, SkipMessages, ProcessScheduledMessages, AdoptBlocks, RefreshState, CheckQuiescence, SleepNotRunning, EnterWork, BackOut, LeaveBackOut, BeginTraverse, EndTraverse, LeaveWork, Fail, Continue, Exit
  <2>2. nRunningJobs # 0
    <3>1. pc[w] = "poll"
      BY <2>1 DEF PollMessages, Goto
    <3>2. Cardinality(Running) # 0
      BY <3>1, WorkersFinite, FS_Subset, FS_EmptySet DEF Running
    <3>3. QED
      BY <3>2 DEF CountersExact
  <2>3. QED
    BY <2>1, <2>2 DEF servesScheduler
<1>3. QED
  BY <1>1, <1>2

LEMMA InitIInv == Init => IInv
<1> SUFFICES ASSUME Init PROVE IInv
  OBVIOUS
<1>1. \A w \in Workers : pc[w] \in {"enter", "gone"}
  BY DEF Init, Launch
<1>2. Running = {} /\ Working = {} /\ {w \in Workers : pc[w] \in Counted} = {}
  BY <1>1 DEF Running, Working, Counted
<1>3. nWorkersInWork = 0 /\ nRunningJobs = 0
  BY Zenon DEF Init
<1>4. CountersExact
  BY <1>2, <1>3, FS_EmptySet DEF CountersExact
<1>5. FlagFollowsEditor
  BY Zenon DEF Init, FlagFollowsEditor
<1>6. QED
  BY <1>1, <1>2, <1>4, <1>5, InitTypeOK DEF IInv, QuiescedExclusive, SingleMessageReader

\* IInv is inductive.
THEOREM Invariance == Spec => []IInv
<1>1. IInv /\ [Next]_vars => IInv'
  BY StepTypeOK, CountersStep, FlagStep, ExclusiveStep, ReaderStep DEF IInv
<1>2. QED
  BY InitIInv, <1>1, PTL DEF Spec

\* Whatever the number of workers, an editor that was granted quiescence has
\* the graph to itself: no worker is in traverseBlockListOnce.
THEOREM QuiescenceExcludesWorkers == Spec => []QuiescedExclusive
<1>1. IInv => QuiescedExclusive
  BY DEF IInv
<1>2. QED
  BY Invariance, <1>1, PTL

\* Only runner 0 ever reads the scheduler's message ports.
THEOREM OneReaderOfMessages == Spec => []SingleMessageReader
<1>1. IInv => SingleMessageReader
  BY DEF IInv
<1>2. QED
  BY Invariance, <1>1, PTL

-----------------------------------------------------------------------------
(* Stale lifecycle states *)

LEMMA LateStep == TypeOK /\ LateInv /\ [Next]_vars => LateInv'
<1> SUFFICES ASSUME TypeOK, LateInv, [Next]_vars PROVE LateInv'
  OBVIOUS
<1> USE DEF TypeOK, LateInv
<1>1. ASSUME NEW w \in Workers, PoolWorker(w) PROVE LateInv'
  <2> USE <1>1 DEF Goto, lifecycle
  <2>1. CASE Enter(w)
    BY <2>1 DEF Enter
  <2>2. CASE CopyJobList(w)
    BY <2>2 DEF CopyJobList
  <2>3. CASE PollMessages(w)
    BY <2>3 DEF PollMessages
  <2>4. CASE SkipMessages(w)
    BY <2>4 DEF SkipMessages
  <2>5. CASE ProcessScheduledMessages(w)
    BY <2>5 DEF ProcessScheduledMessages
  <2>6. CASE AdoptBlocks(w)
    BY <2>6 DEF AdoptBlocks
  <2>7. CASE RefreshState(w)
    BY <2>7 DEF RefreshState
  <2>8. CASE CheckQuiescence(w)
    BY <2>8 DEF CheckQuiescence
  <2>9. CASE SleepNotRunning(w)
    BY <2>9 DEF SleepNotRunning
  <2>10. CASE EnterWork(w)
    BY <2>10 DEF EnterWork
  <2>11. CASE BackOut(w)
    BY <2>11 DEF BackOut
  <2>12. CASE LeaveBackOut(w)
    BY <2>12 DEF LeaveBackOut
  <2>13. CASE BeginTraverse(w)
    BY <2>13 DEF BeginTraverse
  <2>14. CASE EndTraverse(w)
    BY <2>14 DEF EndTraverse
  <2>15. CASE LeaveWork(w)
    BY <2>15 DEF LeaveWork, AfterTraverse
  <2>16. CASE Fail(w)
    BY <2>16 DEF Fail
  <2>17. CASE Continue(w)
    BY <2>17 DEF Continue, isActive
  <2>18. CASE Exit(w)
    BY <2>18 DEF Exit
  <2>19. QED
    BY ONLY <1>1, <2>1, <2>2, <2>3, <2>4, <2>5, <2>6, <2>7, <2>8, <2>9, <2>10, <2>11, <2>12, <2>13, <2>14, <2>15, <2>16, <2>17, <2>18 DEF PoolWorker
<1>2. ASSUME SchedulerBase PROVE LateInv'
  <2> USE <1>2 DEF lifecycle
  <2>1. CASE ChangeState
    BY <2>1 DEF ChangeState, MayChange, Zeros
  <2>2. CASE Restart
    BY <2>2 DEF Restart, Zeros, Launch, AllGone
  <2>3. CASE PostMessage
    BY <2>3 DEF PostMessage
  <2>4. CASE RequestQuiescence
    BY <2>4 DEF RequestQuiescence
  <2>5. CASE AwaitQuiescence
    BY <2>5 DEF AwaitQuiescence
  <2>6. CASE ReleaseQuiescence
    BY <2>6 DEF ReleaseQuiescence
  <2>7. CASE EmplaceBlock
    BY <2>7 DEF EmplaceBlock
  <2>8. CASE RemoveBlock
    BY <2>8 DEF RemoveBlock
  <2>9. QED
    BY ONLY <1>2, <2>1, <2>2, <2>3, <2>4, <2>5, <2>6, <2>7, <2>8 DEF SchedulerBase
<1>3. CASE UNCHANGED vars
  BY <1>3 DEF vars, lifecycle
<1>4. QED
  BY <1>1, <1>2, <1>3 DEF Next

\* A worker that acts on a stale lifecycle state begins at most one traversal
\* after the scheduler left RUNNING.
THEOREM LateTraversals == Spec => []AtMostOneLateTraversal
<1>1. Init => LateInv
  BY DEF Init, LateInv, Zeros, Launch
<1>2. LateInv => AtMostOneLateTraversal
  BY DEF LateInv, AtMostOneLateTraversal
<1>3. QED
  BY TypeCorrect, LateStep, <1>1, <1>2, PTL DEF Spec

-----------------------------------------------------------------------------
(* Who has which block *)

\* The blocks of a runner are those of its job list, until it has taken it, and
\* those it was given since.  Nothing a runner has or will take is another's.
ShareInv ==
  /\ \A i, j \in DOMAIN graph : graph[i] = graph[j] => i = j
  /\ \A w \in Workers : pc[w] \in {"enter", "copy", "gone"} => localBlockList[w] = {}
  /\ \A v, w \in DOMAIN jobs : v # w => jobs[v] \cap jobs[w] = {}
  /\ \A w \in DOMAIN jobs : jobs[w] \cap adoption[w] = {}
  /\ \A w \in DOMAIN jobs, v \in Workers : v # w => jobs[w] \cap (localBlockList[v] \cup adoption[v]) = {}
  /\ BlocksRunOnce

\* customInit deals every block of a graph once.
LEMMA JobListsDisjoint ==
  ASSUME NEW g \in Seq(Blocks), \A i, j \in DOMAIN g : g[i] = g[j] => i = j
  PROVE  \A v, w \in DOMAIN JobLists(g) : v # w => JobLists(g)[v] \cap JobLists(g)[w] = {}
<1> SUFFICES ASSUME NEW v \in DOMAIN JobLists(g), NEW w \in DOMAIN JobLists(g), v # w,
                    NEW b \in JobLists(g)[v], b \in JobLists(g)[w]
             PROVE  FALSE
  OBVIOUS
<1>1. PICK i \in DOMAIN g : b = g[i] /\ (i - 1) % NumBatches(g) = v
  BY DEF JobLists
<1>2. PICK j \in DOMAIN g : b = g[j] /\ (j - 1) % NumBatches(g) = w
  BY DEF JobLists
<1>3. i = j
  BY <1>1, <1>2
<1>4. QED
  BY <1>1, <1>2, <1>3

\* Where an element was before another was taken away.
Before(i, k) == IF i < k THEN i ELSE i + 1

LEMMA RemoveAtIs ==
  ASSUME NEW S, NEW s \in Seq(S), NEW k \in DOMAIN s
  PROVE  \A i \in DOMAIN RemoveAt(s, k) :
           /\ i \in Int /\ Before(i, k) \in DOMAIN s \ {k}
           /\ RemoveAt(s, k)[i] = s[Before(i, k)]
<1> DEFINE t == RemoveAt(s, k)
           at(i) == Before(i, k)
<1>1. k \in 1 .. Len(s) /\ Len(s) \in Nat
  OBVIOUS
<1>2. SubSeq(s, 1, k - 1) \in Seq(S) /\ SubSeq(s, k + 1, Len(s)) \in Seq(S)
  BY <1>1
<1>3. /\ Len(SubSeq(s, 1, k - 1)) = k - 1 /\ Len(SubSeq(s, k + 1, Len(s))) = Len(s) - k
      /\ \A i \in 1 .. k - 1 : SubSeq(s, 1, k - 1)[i] = s[i]
      /\ \A i \in 1 .. Len(s) - k : SubSeq(s, k + 1, Len(s))[i] = s[k + i]
  BY <1>1
<1>4. /\ DOMAIN t = 1 .. Len(s) - 1
      /\ \A i \in 1 .. k - 1 : t[i] = SubSeq(s, 1, k - 1)[i]
      /\ \A i \in k .. Len(s) - 1 : t[i] = SubSeq(s, k + 1, Len(s))[i - (k - 1)]
  <2> DEFINE a == SubSeq(s, 1, k - 1)
             b == SubSeq(s, k + 1, Len(s))
  <2>1. a \in Seq(S) /\ b \in Seq(S) /\ Len(a) = k - 1 /\ Len(b) = Len(s) - k /\ t = a \o b
    BY <1>2, <1>3 DEF RemoveAt
  <2> HIDE DEF a, b, t
  <2>2. /\ t \in Seq(S) /\ Len(t) = Len(s) - 1
        /\ \A i \in 1 .. k - 1 : t[i] = a[i]
        /\ \A i \in k .. Len(s) - 1 : t[i] = b[i - (k - 1)]
    BY <1>1, <2>1, Concatenation
  <2>3. QED
    BY <2>2 DEF a, b
<1> HIDE DEF t
<1>5. ASSUME NEW i \in DOMAIN t PROVE i \in Int /\ at(i) \in DOMAIN s \ {k} /\ t[i] = s[at(i)]
  <2>1. CASE i < k
    <3>1. i \in 1 .. k - 1
      BY <1>1, <1>4, <2>1
    <3>2. QED
      BY <1>3, <1>4, <1>1, <2>1, <3>1 DEF Before
  <2>2. CASE ~ (i < k)
    <3>1. i - (k - 1) \in 1 .. Len(s) - k /\ k + (i - (k - 1)) = i + 1 /\ i + 1 \in 1 .. Len(s) /\ i + 1 # k
      BY <1>1, <1>4, <2>2
    <3>2. i \in k .. Len(s) - 1
      BY <1>1, <1>4, <2>2
    <3>3. t[i] = SubSeq(s, k + 1, Len(s))[i - (k - 1)]
      BY <1>4, <3>2
    <3>4. QED
      BY <1>3, <2>2, <3>1, <3>2, <3>3 DEF Before
  <2>3. QED
    BY <2>1, <2>2
<1>6. QED
  BY <1>5 DEF t

\* Taking an element away leaves the others once each.
LEMMA RemoveAtOnce ==
  ASSUME NEW S, NEW s \in Seq(S), NEW k \in DOMAIN s, \A i, j \in DOMAIN s : s[i] = s[j] => i = j
  PROVE  /\ \A i, j \in DOMAIN RemoveAt(s, k) : RemoveAt(s, k)[i] = RemoveAt(s, k)[j] => i = j
         /\ ToSet(RemoveAt(s, k)) \subseteq ToSet(s) \ {s[k]}
<1> DEFINE t == RemoveAt(s, k)
<1>1. \A i \in DOMAIN t : i \in Int /\ Before(i, k) \in DOMAIN s \ {k} /\ t[i] = s[Before(i, k)]
  BY RemoveAtIs
<1> HIDE DEF t
<1>2. ASSUME NEW i \in DOMAIN t, NEW j \in DOMAIN t, t[i] = t[j] PROVE i = j
  <2>1. Before(i, k) = Before(j, k)
    BY <1>1, <1>2
  <2>2. i \in Int /\ j \in Int /\ k \in Int
    BY <1>1
  <2>3. QED
    BY <2>1, <2>2 DEF Before
<1>3. ASSUME NEW b \in ToSet(t) PROVE b \in ToSet(s) \ {s[k]}
  <2>1. PICK i \in DOMAIN t : b = t[i]
    BY DEF ToSet
  <2>2. b = s[Before(i, k)] /\ Before(i, k) \in DOMAIN s /\ Before(i, k) # k
    BY <1>1, <2>1
  <2>3. QED
    BY <2>2 DEF ToSet
<1>4. QED
  BY <1>2, <1>3 DEF t

LEMMA InitShares == Init => ShareInv
<1> SUFFICES ASSUME Init PROVE ShareInv
  OBVIOUS
<1>1. graph = InitialGraph /\ jobs = JobLists(InitialGraph)
  BY DEF Init
<1>2. localBlockList = NoBlocks /\ adoption = NoBlocks
  BY DEF Init
<1>3. DOMAIN jobs \subseteq Workers
  BY <1>1, JobListsType, GraphAssumption
<1>4. \A w \in Workers : localBlockList[w] = {} /\ adoption[w] = {}
  BY <1>2 DEF NoBlocks
<1>5. QED
  BY <1>1, <1>3, <1>4, JobListsDisjoint, GraphAssumption DEF ShareInv, BlocksRunOnce

\* Most of what a worker does leaves every block where it is.
LEMMA SameShares ==
  ASSUME TypeOK, ShareInv, UNCHANGED <<graph, jobs, adoption, localBlockList>>,
         \A w \in Workers : pc'[w] \in {"enter", "copy", "gone"} => localBlockList[w] = {}
  PROVE  ShareInv'
BY DEF ShareInv, BlocksRunOnce

\* A block that nobody holds is in no one's list.
LEMMA Unheld ==
  ASSUME TypeOK, NEW b, b \notin HeldBlocks
  PROVE  /\ \A i \in DOMAIN graph : graph[i] # b
         /\ \A w \in DOMAIN jobs : b \notin jobs[w]
         /\ \A w \in Workers : b \notin localBlockList[w] /\ b \notin adoption[w]
<1>1. ToSet(graph) \subseteq HeldBlocks
  BY DEF HeldBlocks
<1>2. \A w \in DOMAIN jobs : jobs[w] \subseteq HeldBlocks
  BY DEF HeldBlocks
<1>3. \A w \in Workers : localBlockList[w] \cup adoption[w] \subseteq HeldBlocks
  BY DEF HeldBlocks
<1>4. QED
  BY <1>1, <1>2, <1>3 DEF ToSet

LEMMA ShareStep == TypeOK /\ ShareInv /\ [Next]_vars => ShareInv'
<1> SUFFICES ASSUME TypeOK, ShareInv, [Next]_vars PROVE ShareInv'
  OBVIOUS
<1>1. ASSUME NEW w \in Workers, PoolWorker(w) PROVE ShareInv'
  <2>1. CASE CopyJobList(w)
    <3>1. w \in DOMAIN jobs /\ pc[w] = "copy"
      BY <2>1 DEF CopyJobList, Goto, TypeOK
    <3>2. /\ localBlockList' = [localBlockList EXCEPT ![w] = jobs[w]] /\ pc' = [pc EXCEPT ![w] = "poll"]
          /\ UNCHANGED <<graph, jobs, adoption>>
      BY <2>1 DEF CopyJobList, Goto, lists
    <3>3. QED
      BY <3>1, <3>2 DEF ShareInv, BlocksRunOnce, TypeOK
  <2>2. CASE AdoptBlocks(w)
    <3>1. /\ localBlockList' = [localBlockList EXCEPT ![w] = (@ \ zombies) \cup adoption[w]]
          /\ adoption' = [adoption EXCEPT ![w] = {}]
          /\ pc' = [pc EXCEPT ![w] = "refresh"] /\ UNCHANGED <<graph, jobs>>
      BY <2>2 DEF AdoptBlocks, Goto
    <3>2. \A v \in Workers : localBlockList'[v] \cup adoption'[v] \subseteq localBlockList[v] \cup adoption[v]
      BY <3>1 DEF TypeOK
    <3>3. \A v \in Workers : /\ adoption'[v] \subseteq adoption[v]
                            /\ localBlockList'[v] \cap adoption'[v] \subseteq localBlockList[v] \cap adoption[v]
      BY <3>1 DEF TypeOK
    <3>4. \A v \in Workers : pc'[v] \in {"enter", "copy", "gone"} => localBlockList'[v] = {}
      BY <3>1 DEF TypeOK, ShareInv
    <3>5. QED
      BY <3>1, <3>2, <3>3, <3>4 DEF ShareInv, BlocksRunOnce, TypeOK
  <2>3. CASE Exit(w)
    <3>1. /\ localBlockList' = [localBlockList EXCEPT ![w] = {}] /\ pc' = [pc EXCEPT ![w] = "gone"]
          /\ UNCHANGED <<graph, jobs, adoption>>
      BY <2>3 DEF Exit, Goto, lists
    <3>2. QED
      BY <3>1 DEF ShareInv, BlocksRunOnce, TypeOK
  <2>4. CASE Enter(w)
    <3>1. /\ pc' = [pc EXCEPT ![w] = "copy"] /\ localBlockList[w] = {}
          /\ UNCHANGED <<graph, jobs, adoption, localBlockList>>
      BY <2>4 DEF Enter, Goto, ShareInv, lists
    <3>2. QED
      BY <3>1, SameShares DEF ShareInv, TypeOK
  <2>5. CASE ~ (CopyJobList(w) \/ AdoptBlocks(w) \/ Exit(w) \/ Enter(w))
    <3> USE DEF Goto, lists, dekker, counts, lifecycle
    <3>1. UNCHANGED <<graph, jobs, adoption, localBlockList>>
      BY <1>1, <2>5 DEF PoolWorker, PollMessages, SkipMessages, ProcessScheduledMessages, RefreshState, CheckQuiescence, SleepNotRunning, EnterWork, BackOut, LeaveBackOut, BeginTraverse, EndTraverse, LeaveWork, Fail, Continue
    <3>2. \E to \in PC \ {"enter", "copy", "gone"} : pc' = [pc EXCEPT ![w] = to]
      BY <1>1, <2>5 DEF PC, AfterTraverse, PoolWorker, PollMessages, SkipMessages, ProcessScheduledMessages, RefreshState, CheckQuiescence, SleepNotRunning, EnterWork, BackOut, LeaveBackOut, BeginTraverse, EndTraverse, LeaveWork, Fail, Continue
    <3>3. QED
      BY <3>1, <3>2, SameShares DEF ShareInv, TypeOK
  <2>6. QED
    BY <2>1, <2>2, <2>3, <2>4, <2>5
<1>2. ASSUME SchedulerBase PROVE ShareInv'
  <2>1. CASE Restart
    <3>1. /\ jobs' = JobLists(graph) /\ adoption' = NoBlocks /\ UNCHANGED <<graph, localBlockList>>
          /\ \A v \in Workers : pc[v] = "gone"
      BY <2>1 DEF Restart, AllGone
    <3>2. \A v \in Workers : localBlockList[v] = {} /\ adoption'[v] = {}
      BY <3>1 DEF ShareInv, NoBlocks
    <3>3. DOMAIN jobs' \subseteq Workers
      BY <3>1, JobListsType DEF TypeOK
    <3>4. \A v, w \in DOMAIN jobs' : v # w => jobs'[v] \cap jobs'[w] = {}
      BY <3>1, JobListsDisjoint DEF TypeOK, ShareInv
    <3>5. QED
      BY <3>1, <3>2, <3>3, <3>4 DEF ShareInv, BlocksRunOnce
  <2>2. CASE EmplaceBlock
    <3>1. PICK b \in Blocks \ HeldBlocks, w \in DOMAIN jobs :
            graph' = Append(graph, b) /\ adoption' = [adoption EXCEPT ![w] = @ \cup {b}]
      BY <2>2 DEF EmplaceBlock
    <3>2. UNCHANGED <<jobs, localBlockList, pc>> /\ w \in Workers
      BY <2>2 DEF EmplaceBlock, TypeOK
    <3>3. /\ \A i \in DOMAIN graph : graph[i] # b
          /\ \A v \in DOMAIN jobs : b \notin jobs[v]
          /\ \A v \in Workers : b \notin localBlockList[v] /\ b \notin adoption[v]
      BY Unheld
    <3>4. \A i, j \in DOMAIN graph' : graph'[i] = graph'[j] => i = j
      <4>1. graph \in Seq(Blocks) /\ \A i, j \in DOMAIN graph : graph[i] = graph[j] => i = j
        BY DEF TypeOK, ShareInv
      <4>2. QED
        BY <3>1, <3>3, <4>1
    <3>5. \A v \in Workers : adoption'[v] = IF v = w THEN adoption[v] \cup {b} ELSE adoption[v]
      BY <3>1 DEF TypeOK
    <3>6. \A v \in Workers : pc'[v] \in {"enter", "copy", "gone"} => localBlockList'[v] = {}
      BY <3>2 DEF ShareInv
    <3>7. \A u, v \in DOMAIN jobs' : u # v => jobs'[u] \cap jobs'[v] = {}
      BY <3>2 DEF ShareInv
    <3>8. \A v \in DOMAIN jobs' : jobs'[v] \cap adoption'[v] = {}
      <4> SUFFICES ASSUME NEW v \in DOMAIN jobs' PROVE jobs'[v] \cap adoption'[v] = {}
        OBVIOUS
      <4>1. v \in Workers /\ jobs[v] \cap adoption[v] = {} /\ b \notin jobs[v]
        BY <3>2, <3>3 DEF ShareInv, TypeOK
      <4>2. QED
        BY <3>2, <3>5, <4>1
    <3>9. \A u \in DOMAIN jobs', v \in Workers : u # v => jobs'[u] \cap (localBlockList'[v] \cup adoption'[v]) = {}
      <4> SUFFICES ASSUME NEW u \in DOMAIN jobs', NEW v \in Workers, u # v
                   PROVE  jobs'[u] \cap (localBlockList'[v] \cup adoption'[v]) = {}
        OBVIOUS
      <4>1. jobs[u] \cap (localBlockList[v] \cup adoption[v]) = {} /\ b \notin jobs[u]
        BY <3>2, <3>3 DEF ShareInv
      <4>2. QED
        BY <3>2, <3>5, <4>1
    <3>10. BlocksRunOnce'
      <4> SUFFICES ASSUME NEW u \in Workers, NEW v \in Workers
                   PROVE  /\ u # v => (localBlockList'[u] \cup adoption'[u]) \cap (localBlockList'[v] \cup adoption'[v]) = {}
                          /\ localBlockList'[u] \cap adoption'[u] = {}
        BY DEF BlocksRunOnce
      <4>1. /\ u # v => (localBlockList[u] \cup adoption[u]) \cap (localBlockList[v] \cup adoption[v]) = {}
            /\ localBlockList[u] \cap adoption[u] = {}
        BY DEF ShareInv, BlocksRunOnce
      <4>2. QED
        BY <3>2, <3>3, <3>5, <4>1
    <3>11. QED
      BY <3>4, <3>6, <3>7, <3>8, <3>9, <3>10 DEF ShareInv
  <2>3. CASE RemoveBlock
    <3>1. PICK i \in DOMAIN graph : /\ graph' = RemoveAt(graph, i)
                                   /\ adoption' = [w \in Workers |-> adoption[w] \ {graph[i]}]
      BY <2>3 DEF RemoveBlock
    <3>2. UNCHANGED <<jobs, localBlockList, pc>>
      BY <2>3 DEF RemoveBlock
    <3>3. \A j, k \in DOMAIN graph' : graph'[j] = graph'[k] => j = k
      <4>1. graph \in Seq(Blocks) /\ \A j, k \in DOMAIN graph : graph[j] = graph[k] => j = k
        BY DEF TypeOK, ShareInv
      <4>2. \A j, k \in DOMAIN RemoveAt(graph, i) : RemoveAt(graph, i)[j] = RemoveAt(graph, i)[k] => j = k
        BY <4>1, RemoveAtOnce
      <4>3. QED
        BY <3>1, <4>2
    <3>4. \A w \in Workers : adoption'[w] \subseteq adoption[w]
      BY <3>1
    <3>5. QED
      BY <3>2, <3>3, <3>4 DEF ShareInv, BlocksRunOnce, TypeOK
  <2>4. CASE ~ (Restart \/ EmplaceBlock \/ RemoveBlock)
    <3>1. UNCHANGED <<graph, jobs, adoption, localBlockList, pc>>
      BY <1>2, <2>4 DEF SchedulerBase, ChangeState, PostMessage, RequestQuiescence, AwaitQuiescence, ReleaseQuiescence, lists
    <3>2. QED
      BY <3>1, SameShares DEF ShareInv
  <2>5. QED
    BY <2>1, <2>2, <2>3, <2>4
<1>3. CASE UNCHANGED vars
  <2>1. UNCHANGED <<graph, jobs, adoption, localBlockList, pc>>
    BY <1>3 DEF vars, lists
  <2>2. QED
    BY <2>1, SameShares DEF ShareInv
<1>4. QED
  BY <1>1, <1>2, <1>3 DEF Next

\* However blocks are dealt, emplaced, removed, adopted and dealt again, none is
\* ever in the hands of two workers, nor twice in the hands of one.
THEOREM OneRunnerPerBlock == Spec => []BlocksRunOnce
<1>1. ShareInv => BlocksRunOnce
  BY DEF ShareInv
<1>2. QED
  BY TypeCorrect, InitShares, ShareStep, <1>1, PTL DEF Spec

\* What a runner runs, or will run once it has taken its lists.
Runs(w) == adoption[w] \cup (IF pc[w] \in {"enter", "copy"} THEN jobs[w] ELSE localBlockList[w])

\* What a runner is about to drop is no block of the graph.
RunnerInv == zombies \cap ToSet(graph) = {} /\ EveryBlockHasRunner

\* Every block of the graph is dealt.
LEMMA JobListsCover ==
  ASSUME NEW g \in Seq(Blocks), NEW b \in ToSet(g)
  PROVE  \E w \in DOMAIN JobLists(g) : b \in JobLists(g)[w]
<1> DEFINE n == NumBatches(g)
<1>1. n \in Nat \ {0}
  BY ThreadsAssumption DEF NumBatches, MaxOf, MinOf
<1>2. PICK i \in DOMAIN g : b = g[i]
  BY DEF ToSet
<1>3. i - 1 \in Nat
  BY <1>2
<1>4. (i - 1) % n \in 0 .. n - 1
  <2> HIDE DEF n
  <2>1. QED
    BY <1>1, <1>3
<1>5. QED
  BY <1>2, <1>4 DEF JobLists

LEMMA InitRunners == Init => RunnerInv
<1> SUFFICES ASSUME Init PROVE RunnerInv
  OBVIOUS
<1>1. graph = InitialGraph /\ jobs = JobLists(InitialGraph) /\ pc = Launch(InitialGraph) /\ zombies = {}
  BY DEF Init
<1>2. \A w \in DOMAIN jobs : pc[w] = "enter"
  BY <1>1, JobListsType, GraphAssumption DEF Launch
<1>3. \A b \in ToSet(graph) : \E w \in DOMAIN jobs : b \in jobs[w]
  BY <1>1, JobListsCover, GraphAssumption
<1>4. QED
  BY <1>1, <1>2, <1>3 DEF RunnerInv, EveryBlockHasRunner

\* Runners that are there and lose no block of the graph keep them all.
LEMMA RunnersKept ==
  ASSUME RunnerInv, UNCHANGED <<graph, jobs>>, zombies' \subseteq zombies,
         (\A w \in DOMAIN jobs : pc'[w] # "gone") =>
            /\ \A w \in DOMAIN jobs : pc[w] # "gone"
            /\ \A w \in DOMAIN jobs : Runs(w) \ zombies \subseteq Runs(w)'
  PROVE  RunnerInv'
<1>1. zombies' \cap ToSet(graph') = {}
  BY DEF RunnerInv
<1>2. ASSUME \A w \in DOMAIN jobs : pc'[w] # "gone", NEW b \in ToSet(graph)
      PROVE  \E w \in DOMAIN jobs : b \in Runs(w)'
  <2>1. PICK w \in DOMAIN jobs : b \in Runs(w)
    BY <1>2 DEF RunnerInv, EveryBlockHasRunner, Runs
  <2>2. b \notin zombies
    BY DEF RunnerInv
  <2>3. QED
    BY <1>2, <2>1, <2>2
<1>3. QED
  BY <1>1, <1>2 DEF RunnerInv, EveryBlockHasRunner, Runs

LEMMA RunnersOfWorker ==
  ASSUME TypeOK, RunnerInv, NEW w \in Workers, PoolWorker(w)
  PROVE  RunnerInv'
<1> USE DEF Goto
<1>1. UNCHANGED <<graph, jobs>> /\ DOMAIN jobs \subseteq Workers /\ zombies' \subseteq zombies
  <2>1. UNCHANGED <<graph, jobs>> /\ (AdoptBlocks(w) \/ UNCHANGED zombies)
    BY DEF lists, PoolWorker, Enter, CopyJobList, PollMessages, SkipMessages, ProcessScheduledMessages, AdoptBlocks, RefreshState, CheckQuiescence, SleepNotRunning, EnterWork, BackOut, LeaveBackOut, BeginTraverse, EndTraverse, LeaveWork, Fail, Continue, Exit
  <2>2. QED
    BY <2>1 DEF TypeOK, AdoptBlocks
<1>2. CASE Enter(w)
  <2>1. pc[w] = "enter" /\ pc' = [pc EXCEPT ![w] = "copy"] /\ UNCHANGED <<adoption, localBlockList>>
    BY <1>2 DEF Enter, lists
  <2>2. QED
    BY <1>1, <2>1, RunnersKept DEF Runs, TypeOK
<1>3. CASE CopyJobList(w)
  <2>1. /\ pc[w] = "copy" /\ pc' = [pc EXCEPT ![w] = "poll"] /\ UNCHANGED adoption
        /\ localBlockList' = [localBlockList EXCEPT ![w] = jobs[w]]
    BY <1>3 DEF CopyJobList, lists
  <2>2. QED
    BY <1>1, <2>1, RunnersKept DEF Runs, TypeOK
<1>4. CASE AdoptBlocks(w)
  <2>1. /\ pc[w] = "adopt" /\ pc' = [pc EXCEPT ![w] = "refresh"]
        /\ localBlockList' = [localBlockList EXCEPT ![w] = (@ \ zombies) \cup adoption[w]]
        /\ adoption' = [adoption EXCEPT ![w] = {}]
    BY <1>4 DEF AdoptBlocks
  <2>2. \A v \in DOMAIN jobs : Runs(v) \ zombies \subseteq Runs(v)' /\ (pc'[v] # "gone" => pc[v] # "gone")
    BY <1>1, <2>1 DEF Runs, TypeOK
  <2>3. QED
    BY <1>1, <2>2, RunnersKept
<1>5. CASE Exit(w)
  <2>1. w \in DOMAIN jobs /\ pc'[w] = "gone"
    BY <1>5 DEF Exit, TypeOK
  <2>2. QED
    BY <1>1, <2>1, RunnersKept
<1>6. CASE ~ (Enter(w) \/ CopyJobList(w) \/ AdoptBlocks(w) \/ Exit(w))
  <2>1. UNCHANGED <<adoption, localBlockList>>
    BY <1>6 DEF lists, PoolWorker, PollMessages, SkipMessages, ProcessScheduledMessages, RefreshState, CheckQuiescence, SleepNotRunning, EnterWork, BackOut, LeaveBackOut, BeginTraverse, EndTraverse, LeaveWork, Fail, Continue
  <2>2. /\ pc[w] \notin {"enter", "copy", "gone"}
        /\ \E to \in PC \ {"enter", "copy", "gone"} : pc' = [pc EXCEPT ![w] = to]
    BY <1>6 DEF PC, AfterTraverse, PoolWorker, PollMessages, SkipMessages, ProcessScheduledMessages, RefreshState, CheckQuiescence, SleepNotRunning, EnterWork, BackOut, LeaveBackOut, BeginTraverse, EndTraverse, LeaveWork, Fail, Continue
  <2>3. \A v \in DOMAIN jobs : Runs(v)' = Runs(v) /\ (pc'[v] # "gone" => pc[v] # "gone")
    BY <1>1, <2>1, <2>2 DEF Runs, TypeOK
  <2>4. QED
    BY <1>1, <2>3, RunnersKept
<1>7. QED
  BY <1>2, <1>3, <1>4, <1>5, <1>6

LEMMA RunnersOfUsers ==
  ASSUME TypeOK, ShareInv, RunnerInv, SchedulerBase
  PROVE  RunnerInv'
<1>1. CASE Restart
  <2>1. jobs' = JobLists(graph) /\ pc' = Launch(graph) /\ zombies' = {} /\ graph' = graph
    BY <1>1 DEF Restart
  <2>2. \A w \in DOMAIN jobs' : pc'[w] = "enter"
    BY <2>1, JobListsType DEF Launch, TypeOK
  <2>3. \A b \in ToSet(graph) : \E w \in DOMAIN jobs' : b \in jobs'[w]
    BY <2>1, JobListsCover DEF TypeOK
  <2>4. QED
    BY <2>1, <2>2, <2>3 DEF RunnerInv, EveryBlockHasRunner
<1>2. CASE EmplaceBlock
  <2>1. PICK b \in Blocks \ HeldBlocks, w \in DOMAIN jobs :
          graph' = Append(graph, b) /\ adoption' = [adoption EXCEPT ![w] = @ \cup {b}]
    BY <1>2 DEF EmplaceBlock
  <2>2. UNCHANGED <<jobs, zombies, localBlockList, pc>> /\ DOMAIN jobs \subseteq Workers
    BY <1>2 DEF EmplaceBlock, TypeOK
  <2>3. b \notin zombies
    BY DEF HeldBlocks
  <2>4. ToSet(graph') \subseteq ToSet(graph) \cup {b}
    <3>1. graph \in Seq(Blocks)
      BY DEF TypeOK
    <3>2. QED
      BY <2>1, <3>1 DEF ToSet
  <2>5. b \in Runs(w)' /\ \A v \in DOMAIN jobs : Runs(v) \subseteq Runs(v)'
    BY <2>1, <2>2 DEF Runs, TypeOK
  <2>6. ASSUME \A v \in DOMAIN jobs : pc[v] # "gone", NEW c \in ToSet(graph')
        PROVE  \E v \in DOMAIN jobs : c \in Runs(v)'
    <3>1. CASE c = b
      BY <2>5, <3>1
    <3>2. CASE c \in ToSet(graph)
      <4>1. \E v \in DOMAIN jobs : c \in Runs(v)
        BY <2>6, <3>2 DEF RunnerInv, EveryBlockHasRunner, Runs
      <4>2. QED
        BY <2>5, <4>1
    <3>3. QED
      BY <2>4, <3>1, <3>2
  <2>7. QED
    BY <2>2, <2>3, <2>4, <2>6 DEF RunnerInv, EveryBlockHasRunner, Runs
<1>3. CASE RemoveBlock
  <2>1. PICK i \in DOMAIN graph : /\ graph' = RemoveAt(graph, i)
                                 /\ adoption' = [w \in Workers |-> adoption[w] \ {graph[i]}]
                                 /\ zombies' \subseteq zombies \cup {graph[i]}
    BY <1>3 DEF RemoveBlock
  <2>2. UNCHANGED <<jobs, localBlockList, pc>> /\ DOMAIN jobs \subseteq Workers
    BY <1>3 DEF RemoveBlock, TypeOK
  <2>3. ToSet(graph') \subseteq ToSet(graph) \ {graph[i]}
    <3>1. graph \in Seq(Blocks) /\ \A j, k \in DOMAIN graph : graph[j] = graph[k] => j = k
      BY DEF TypeOK, ShareInv
    <3>2. ToSet(RemoveAt(graph, i)) \subseteq ToSet(graph) \ {graph[i]}
      BY <3>1, RemoveAtOnce
    <3>3. QED
      BY <2>1, <3>2
  <2>4. \A v \in DOMAIN jobs : Runs(v) \ {graph[i]} \subseteq Runs(v)'
    BY <2>1, <2>2 DEF Runs
  <2>5. ASSUME \A v \in DOMAIN jobs : pc[v] # "gone", NEW c \in ToSet(graph')
        PROVE  \E v \in DOMAIN jobs : c \in Runs(v)'
    <3>1. \E v \in DOMAIN jobs : c \in Runs(v)
      BY <2>3, <2>5 DEF RunnerInv, EveryBlockHasRunner, Runs
    <3>2. QED
      BY <2>3, <2>4, <3>1
  <2>6. zombies' \cap ToSet(graph') = {}
    BY <2>1, <2>3 DEF RunnerInv
  <2>7. QED
    BY <2>2, <2>5, <2>6 DEF RunnerInv, EveryBlockHasRunner, Runs
<1>4. CASE ~ (Restart \/ EmplaceBlock \/ RemoveBlock)
  <2>1. UNCHANGED <<graph, jobs, adoption, zombies, localBlockList, pc>>
    BY <1>4 DEF SchedulerBase, ChangeState, PostMessage, RequestQuiescence, AwaitQuiescence, ReleaseQuiescence, lists
  <2>2. QED
    BY <2>1 DEF RunnerInv, EveryBlockHasRunner
<1>5. QED
  BY <1>1, <1>2, <1>3, <1>4

\* However blocks are added and removed before the lists were copied and adopted,
\* while all runners are there every block of the graph has one.
THEOREM NoBlockForgotten == Spec => []EveryBlockHasRunner
<1>1. TypeOK /\ ShareInv /\ RunnerInv /\ [Next]_vars => RunnerInv'
  <2> SUFFICES ASSUME TypeOK, ShareInv, RunnerInv, [Next]_vars PROVE RunnerInv'
    OBVIOUS
  <2>1. CASE UNCHANGED vars
    <3>1. UNCHANGED <<graph, jobs, adoption, zombies, localBlockList, pc>>
      BY <2>1 DEF vars, lists
    <3>2. QED
      BY <3>1 DEF RunnerInv, EveryBlockHasRunner
  <2>2. QED
    BY <2>1, RunnersOfWorker, RunnersOfUsers DEF Next
<1>2. RunnerInv => EveryBlockHasRunner
  BY DEF RunnerInv
<1>3. QED
  BY TypeCorrect, InitShares, ShareStep, InitRunners, <1>1, <1>2, PTL DEF Spec

-----------------------------------------------------------------------------
(* Backoff *)

LEMMA PowersOfTwo ==
  /\ PowerOfTwo \in [Nat -> Nat]
  /\ PowerOfTwo[0] = 1 /\ \A k \in Nat : PowerOfTwo[k + 1] = 2 * PowerOfTwo[k]
  BY Doubling DEF PowerOfTwo, Doubles

\* The sleep after a run of no-progress cycles.
Schedule(inactive) ==
  IF inactive <= ActiveSpinCount THEN 0
  ELSE MinOf(InitialBackoff * PowerOfTwo[inactive - ActiveSpinCount - 1], MaxBackoff)

LEMMA ScheduleAt ==
  ASSUME NEW m, ~ (m <= ActiveSpinCount), NEW k, m - ActiveSpinCount - 1 = k
  PROVE  Schedule(m) = MinOf(InitialBackoff * PowerOfTwo[k], MaxBackoff)
  BY DEF Schedule

\* updateBackoff keeps to the schedule: what it doubles is the value before, or
\* the limit, which doubling leaves behind.
LEMMA OnSchedule ==
  ASSUME NEW inactive \in Nat, NEW performed \in BOOLEAN
  PROVE  NextBackoff(performed, inactive, Schedule(inactive)) = Schedule(NextInactiveCount(performed, inactive))
<1> DEFINE k == inactive - ActiveSpinCount
<1>1. InitialBackoff \in Nat /\ MaxBackoff \in Nat /\ ActiveSpinCount \in Nat
  BY SettingsAssumption
<1>2. CASE performed
  BY <1>1, <1>2 DEF NextBackoff, NextInactiveCount, Schedule
<1>3. CASE ~ performed /\ k < 0
  BY <1>1, <1>3 DEF NextBackoff, NextInactiveCount, Schedule
<1>4. CASE ~ performed /\ k = 0
  <2>1. Schedule(inactive) = 0
    BY <1>1, <1>4 DEF Schedule
  <2>2. inactive + 1 - ActiveSpinCount - 1 = 0 /\ ~ (inactive + 1 <= ActiveSpinCount)
    BY <1>1, <1>4
  <2>3. InitialBackoff * PowerOfTwo[0] = InitialBackoff
    BY <1>1, PowersOfTwo
  <2>4. Schedule(inactive + 1) = MinOf(InitialBackoff, MaxBackoff)
    <3> DEFINE m == inactive + 1
    <3>1. ~ (m <= ActiveSpinCount) /\ m - ActiveSpinCount - 1 = 0
      BY <1>1, <1>4
    <3> HIDE DEF m
    <3>2. Schedule(m) = MinOf(InitialBackoff * PowerOfTwo[0], MaxBackoff)
      BY <3>1, ScheduleAt
    <3>3. QED
      BY <2>3, <3>2 DEF m
  <2>5. NextBackoff(performed, inactive, 0) = MinOf(InitialBackoff, MaxBackoff)
    BY <1>1, <1>4 DEF NextBackoff
  <2>6. QED
    BY <1>4, <2>1, <2>4, <2>5 DEF NextInactiveCount
<1>5. CASE ~ performed /\ k > 0
  <2> DEFINE p == PowerOfTwo[k - 1]
             x == InitialBackoff * p
             s == Schedule(inactive)
  <2>1. k - 1 \in Nat /\ k - 1 + 1 = k
    BY <1>1, <1>5
  <2>2. p \in Nat /\ PowerOfTwo[k] = 2 * p
    BY <2>1, PowersOfTwo
  <2>3. x \in Nat /\ InitialBackoff * (2 * p) = 2 * x
    <3>1. \A a, b \in Nat : a * b \in Nat /\ a * (2 * b) = 2 * (a * b)
      OBVIOUS
    <3> HIDE DEF p
    <3>2. QED
      BY <1>1, <2>2, <3>1
  <2>4. s = MinOf(x, MaxBackoff)
    BY <1>1, <1>5 DEF Schedule
  <2>5. Schedule(inactive + 1) = MinOf(2 * x, MaxBackoff)
    <3>1. inactive + 1 - ActiveSpinCount - 1 = k /\ ~ (inactive + 1 <= ActiveSpinCount)
      BY <1>1, <1>5
    <3>2. Schedule(inactive + 1) = MinOf(InitialBackoff * PowerOfTwo[k], MaxBackoff)
      <4> DEFINE m == inactive + 1
      <4>1. ~ (m <= ActiveSpinCount) /\ m - ActiveSpinCount - 1 = k
        BY <1>1, <1>5
      <4> HIDE DEF m, k
      <4>2. Schedule(m) = MinOf(InitialBackoff * PowerOfTwo[k], MaxBackoff)
        BY <4>1, ScheduleAt
      <4>3. QED
        BY <4>2 DEF m
    <3> HIDE DEF x, p
    <3>3. QED
      BY <2>2, <2>3, <3>2
  <2>6. NextBackoff(performed, inactive, s) = MinOf(IF s = 0 THEN InitialBackoff ELSE s * 2, MaxBackoff)
    <3> HIDE DEF s
    <3>1. QED
      BY <1>1, <1>5 DEF NextBackoff
  <2>7. x = 0 => InitialBackoff = 0 \/ p = 0
    <3>1. \A a, b \in Nat : a * b = 0 => a = 0 \/ b = 0
      OBVIOUS
    <3> HIDE DEF p
    <3>2. QED
      BY <1>1, <2>2, <3>1
  <2>8. p > 0
    <3> DEFINE S == {i \in Nat : PowerOfTwo[i] > 0}
    <3>1. 0 \in S /\ \A i \in Nat : i \in S => i + 1 \in S
      BY PowersOfTwo
    <3>2. Nat \subseteq S
      <4> HIDE DEF S
      <4>1. QED
        BY <3>1, Induction
    <3>3. QED
      BY <2>1, <3>2
  <2> HIDE DEF p, x, s
  <2>9. NextBackoff(performed, inactive, s) = Schedule(inactive + 1)
    BY <1>1, <2>2, <2>3, <2>4, <2>5, <2>6, <2>7, <2>8 DEF MinOf
  <2>10. QED
    BY <1>5, <2>9 DEF s, NextInactiveCount
<1>6. QED
  BY <1>1, <1>2, <1>3, <1>4, <1>5

\* Where a cycle without messages has passed the ratio and not been counted yet,
\* and where it was and the next poll is due.
InCycle  == {"gate", "enterWork", "recheck", "backOut", "traverse", "leaveWork"}
BeforePoll == {"tail", "poll"}

\* A worker passes the poll with the count 1 .. MessageRatio - 1, or as many as
\* the refresh left.
Cycles(ratio) == IF ratio = 0 THEN MessageRatio ELSE IF ratio = MessageRatio THEN 0 ELSE ratio

CycleInv ==
  \A w \in Workers :
    /\ inactiveCycleCount[w] <= MessageRatio + 1
    /\ pc[w] \in InCycle => inactiveCycleCount[w] <= Cycles(messageRatioCount[w])
    /\ pc[w] \in BeforePoll => inactiveCycleCount[w] <= Cycles(messageRatioCount[w]) + 1
    /\ backoffUs[w] = Schedule(inactiveCycleCount[w])

LEMMA Remainders ==
  ASSUME NEW r \in 1 .. MessageRatio
  PROVE  /\ (r + 1) % MessageRatio = IF r + 1 < MessageRatio THEN r + 1
                                     ELSE IF r + 1 = MessageRatio \/ MessageRatio = 1 THEN 0 ELSE 1
         /\ (r + 1) % MessageRatio \in 0 .. MessageRatio - 1
<1>1. MessageRatio \in Nat \ {0} /\ r \in Nat /\ r <= MessageRatio
  BY SettingsAssumption
<1>2. CASE r + 1 < MessageRatio
  BY <1>1, <1>2
<1>3. CASE r + 1 = MessageRatio
  BY <1>1, <1>3
<1>4. CASE r = MessageRatio
  <2>1. MessageRatio = 1 => (r + 1) % MessageRatio = 0
    BY <1>1, <1>4
  <2>2. MessageRatio > 1 => (r + 1) % MessageRatio = 1
    BY <1>1, <1>4
  <2>3. QED
    BY <1>1, <1>4, <2>1, <2>2
<1>5. QED
  BY <1>1, <1>2, <1>3, <1>4

\* A step of one worker leaves the counts of the others alone.
LEMMA CycleKept ==
  ASSUME TypeOK, CycleInv, NEW w \in Workers,
         \E to \in PC : pc' = [pc EXCEPT ![w] = to],
         \E r : messageRatioCount' = [messageRatioCount EXCEPT ![w] = r],
         \E i : inactiveCycleCount' = [inactiveCycleCount EXCEPT ![w] = i],
         \E b : backoffUs' = [backoffUs EXCEPT ![w] = b],
         /\ inactiveCycleCount'[w] <= MessageRatio + 1
         /\ pc'[w] \in InCycle => inactiveCycleCount'[w] <= Cycles(messageRatioCount'[w])
         /\ pc'[w] \in BeforePoll => inactiveCycleCount'[w] <= Cycles(messageRatioCount'[w]) + 1
         /\ backoffUs'[w] = Schedule(inactiveCycleCount'[w])
  PROVE  CycleInv'
<1>1. ASSUME NEW v \in Workers, v # w
      PROVE  /\ pc'[v] = pc[v] /\ messageRatioCount'[v] = messageRatioCount[v]
             /\ inactiveCycleCount'[v] = inactiveCycleCount[v] /\ backoffUs'[v] = backoffUs[v]
  BY <1>1 DEF TypeOK
<1>2. QED
  BY <1>1 DEF CycleInv

LEMMA CycleStep == TypeOK /\ CycleInv /\ [Next]_vars => CycleInv'
<1> SUFFICES ASSUME TypeOK, CycleInv, [Next]_vars PROVE CycleInv'
  OBVIOUS
<1>1. MessageRatio \in Nat \ {0} /\ Schedule(0) = 0
  BY SettingsAssumption DEF Schedule
<1>2. ASSUME NEW w \in Workers, PoolWorker(w) PROVE CycleInv'
  <2> DEFINE r == messageRatioCount[w]
             i == inactiveCycleCount[w]
  <2>1. /\ r \in 0 .. MessageRatio /\ i \in Nat /\ i <= MessageRatio + 1
        /\ pc[w] \in InCycle => i <= Cycles(r)
        /\ pc[w] \in BeforePoll => i <= Cycles(r) + 1
        /\ backoffUs[w] = Schedule(i)
    BY DEF CycleInv, TypeOK
  <2>2. /\ messageRatioCount = [messageRatioCount EXCEPT ![w] = r]
        /\ inactiveCycleCount = [inactiveCycleCount EXCEPT ![w] = i]
        /\ backoffUs = [backoffUs EXCEPT ![w] = backoffUs[w]]
    BY DEF TypeOK
  <2>3. CASE SkipMessages(w)
    <3>1. /\ pc[w] = "poll" /\ pc' = [pc EXCEPT ![w] = "gate"] /\ r # 0
          /\ messageRatioCount' = [messageRatioCount EXCEPT ![w] = (r + 1) % MessageRatio]
          /\ UNCHANGED <<inactiveCycleCount, backoffUs>>
      BY <2>3 DEF SkipMessages, Goto, hasMessagesToProcess, NextStreamCycle
    <3>2. i <= Cycles((r + 1) % MessageRatio)
      <4> DEFINE q == (r + 1) % MessageRatio
      <4>1. r \in 1 .. MessageRatio /\ i <= Cycles(r) + 1
        BY <1>1, <2>1, <3>1 DEF BeforePoll
      <4>2. q = IF r + 1 < MessageRatio THEN r + 1 ELSE IF r + 1 = MessageRatio \/ MessageRatio = 1 THEN 0 ELSE 1
        BY <4>1, Remainders
      <4> HIDE DEF q, r, i
      <4>3. i <= Cycles(q)
        BY <1>1, <2>1, <4>1, <4>2 DEF Cycles
      <4>4. QED
        BY <4>3 DEF q
    <3>3. /\ pc'[w] = "gate" /\ messageRatioCount'[w] = (r + 1) % MessageRatio
          /\ inactiveCycleCount'[w] = i /\ backoffUs'[w] = backoffUs[w] /\ "gate" \in PC
          /\ "gate" \notin BeforePoll
      BY <3>1 DEF TypeOK, PC, BeforePoll
    <3> HIDE DEF r, i
    <3>4. QED
      BY <2>1, <2>2, <3>1, <3>2, <3>3, CycleKept
  <2>4. CASE RefreshState(w)
    <3>1. /\ pc' = [pc EXCEPT ![w] = "gate"]
          /\ messageRatioCount' = [messageRatioCount EXCEPT ![w] = (r % MessageRatio) + 1]
          /\ inactiveCycleCount' = [inactiveCycleCount EXCEPT ![w] = 0]
          /\ backoffUs' = [backoffUs EXCEPT ![w] = 0]
      BY <2>4 DEF RefreshState, Goto, CountMessageCycle
    <3>2. 0 <= Cycles((r % MessageRatio) + 1)
      <4>1. r % MessageRatio \in 0 .. MessageRatio - 1
        BY <1>1, <2>1
      <4>2. QED
        BY <1>1, <4>1 DEF Cycles
    <3>3. /\ pc'[w] = "gate" /\ messageRatioCount'[w] = (r % MessageRatio) + 1
          /\ inactiveCycleCount'[w] = 0 /\ backoffUs'[w] = 0 /\ "gate" \in PC
          /\ "gate" \notin BeforePoll
      BY <3>1 DEF TypeOK, PC, BeforePoll
    <3> DEFINE c == (r % MessageRatio) + 1
    <3>4. 0 <= MessageRatio + 1
      BY <1>1
    <3> HIDE DEF c
    <3>5. /\ \E x : messageRatioCount' = [messageRatioCount EXCEPT ![w] = x]
          /\ \E x : inactiveCycleCount' = [inactiveCycleCount EXCEPT ![w] = x]
          /\ \E x : backoffUs' = [backoffUs EXCEPT ![w] = x]
      BY <3>1, Zenon
    <3>6. QED
      BY <1>1, <3>1, <3>2, <3>3, <3>4, <3>5, CycleKept DEF c
  <2>5. CASE CopyJobList(w) \/ SleepNotRunning(w) \/ Exit(w)
    <3>1. PICK to \in PC \ InCycle :
            /\ pc' = [pc EXCEPT ![w] = to]
            /\ messageRatioCount' = [messageRatioCount EXCEPT ![w] = 0]
            /\ inactiveCycleCount' = [inactiveCycleCount EXCEPT ![w] = 0]
            /\ backoffUs' = [backoffUs EXCEPT ![w] = 0]
      BY <2>5 DEF CopyJobList, SleepNotRunning, Exit, Goto, PC, InCycle
    <3>2. 0 <= Cycles(0) + 1
      BY <1>1 DEF Cycles
    <3>3. /\ pc'[w] = to /\ messageRatioCount'[w] = 0
          /\ inactiveCycleCount'[w] = 0 /\ backoffUs'[w] = 0
      BY <3>1 DEF TypeOK
    <3>4. 0 <= MessageRatio + 1 /\ to \in PC
      BY <1>1
    <3>5. /\ \E x : messageRatioCount' = [messageRatioCount EXCEPT ![w] = x]
          /\ \E x : inactiveCycleCount' = [inactiveCycleCount EXCEPT ![w] = x]
          /\ \E x : backoffUs' = [backoffUs EXCEPT ![w] = x]
      BY <3>1, Zenon
    <3>6. QED
      BY <1>1, <3>1, <3>2, <3>3, <3>4, <3>5, CycleKept
  <2>6. CASE LeaveWork(w)
    <3>1. PICK to \in PC \ InCycle : pc' = [pc EXCEPT ![w] = to]
      BY <2>6 DEF LeaveWork, Goto, AfterTraverse, PC, InCycle
    <3>2. pc[w] = "leaveWork" /\ messageRatioCount' = messageRatioCount /\ i <= Cycles(r)
      BY <2>1, <2>6 DEF LeaveWork, Goto, InCycle
    <3>3. Cycles(r) <= MessageRatio
      BY <1>1, <2>1 DEF Cycles
    <3>4. PICK j \in Nat : /\ inactiveCycleCount' = [inactiveCycleCount EXCEPT ![w] = j] /\ j <= i + 1
                          /\ backoffUs' = [backoffUs EXCEPT ![w] = Schedule(j)]
      <4>1. CASE result[w] \in {"PROGRESS", "IDLE"}
        <5> DEFINE performed == result[w] = "PROGRESS"
                   j == NextInactiveCount(performed, i)
        <5>1. /\ inactiveCycleCount' = [inactiveCycleCount EXCEPT ![w] = j]
              /\ backoffUs' = [backoffUs EXCEPT ![w] = NextBackoff(performed, i, backoffUs[w])]
          BY <2>6, <4>1 DEF LeaveWork
        <5>2. j \in Nat /\ j <= i + 1
          BY <2>1 DEF NextInactiveCount
        <5>3. NextBackoff(performed, i, backoffUs[w]) = Schedule(j)
          <6>1. performed \in BOOLEAN
            OBVIOUS
          <6> HIDE DEF performed, i
          <6>2. QED
            BY <2>1, <6>1, OnSchedule
        <5> HIDE DEF j, performed
        <5>4. QED
          BY <5>1, <5>2, <5>3
      <4>2. CASE result[w] \notin {"PROGRESS", "IDLE"}
        <5>1. inactiveCycleCount' = inactiveCycleCount /\ backoffUs' = backoffUs
          BY <2>6, <4>2 DEF LeaveWork
        <5> HIDE DEF i
        <5>2. QED
          BY <2>1, <2>2, <5>1
      <4>3. QED
        BY <4>1, <4>2
    <3>5. /\ pc'[w] = to /\ messageRatioCount'[w] = r
          /\ inactiveCycleCount'[w] = j /\ backoffUs'[w] = Schedule(j)
      BY <3>1, <3>2, <3>4 DEF TypeOK
    <3>6. j <= Cycles(r) + 1 /\ j <= MessageRatio + 1
      <4>1. Cycles(r) \in Int
        BY <1>1, <2>1 DEF Cycles
      <4> HIDE DEF r, i
      <4>2. QED
        BY <1>1, <2>1, <3>2, <3>3, <3>4, <4>1
    <3> HIDE DEF r, i
    <3>7. QED
      BY <2>2, <3>1, <3>2, <3>4, <3>5, <3>6, CycleKept
  <2>7. CASE ~ (\/ SkipMessages(w) \/ RefreshState(w) \/ CopyJobList(w) \/ SleepNotRunning(w) \/ Exit(w)
                \/ LeaveWork(w))
    <3> USE DEF Goto, counts
    <3>1. UNCHANGED <<messageRatioCount, inactiveCycleCount, backoffUs>>
      BY <1>2, <2>7 DEF PoolWorker, Enter, PollMessages, ProcessScheduledMessages, AdoptBlocks, CheckQuiescence, EnterWork, BackOut, LeaveBackOut, BeginTraverse, EndTraverse, Fail, Continue
    <3>2. PICK to \in PC :
            /\ pc' = [pc EXCEPT ![w] = to]
            /\ to \in InCycle => pc[w] \in InCycle
            /\ to \in BeforePoll => pc[w] \in InCycle \cup BeforePoll
      BY <1>2, <2>7 DEF PoolWorker, PC, InCycle, BeforePoll, Enter, PollMessages, ProcessScheduledMessages, AdoptBlocks, CheckQuiescence, EnterWork, BackOut, LeaveBackOut, BeginTraverse, EndTraverse, Fail, Continue
    <3>3. /\ pc'[w] = to /\ messageRatioCount'[w] = r
          /\ inactiveCycleCount'[w] = i /\ backoffUs'[w] = backoffUs[w]
      BY <3>1, <3>2 DEF TypeOK
    <3>4. Cycles(r) \in Int
      BY <1>1, <2>1 DEF Cycles
    <3> HIDE DEF r, i
    <3>5. to \in BeforePoll => i <= Cycles(r) + 1
      BY <2>1, <3>2, <3>4
    <3>6. QED
      BY <2>1, <2>2, <3>1, <3>2, <3>3, <3>5, CycleKept
  <2>8. QED
    BY <2>3, <2>4, <2>5, <2>6, <2>7
<1>3. ASSUME SchedulerBase PROVE CycleInv'
  <2>1. UNCHANGED <<messageRatioCount, inactiveCycleCount, backoffUs>>
    BY <1>3 DEF SchedulerBase, ChangeState, Restart, PostMessage, RequestQuiescence, AwaitQuiescence, ReleaseQuiescence, EmplaceBlock, RemoveBlock, counts
  <2>2. CASE Restart
    <3>1. \A w \in Workers : pc'[w] \notin InCycle /\ pc'[w] \notin BeforePoll
      BY <2>2 DEF Restart, Launch, InCycle, BeforePoll
    <3>2. QED
      BY <2>1, <3>1 DEF CycleInv
  <2>3. CASE ~ Restart
    <3>1. pc' = pc
      BY <1>3, <2>3 DEF SchedulerBase, ChangeState, PostMessage, RequestQuiescence, AwaitQuiescence, ReleaseQuiescence, EmplaceBlock, RemoveBlock
    <3>2. QED
      BY <2>1, <3>1 DEF CycleInv
  <2>4. QED
    BY <2>2, <2>3
<1>4. CASE UNCHANGED vars
  BY <1>4 DEF vars, counts, CycleInv
<1>5. QED
  BY <1>2, <1>3, <1>4 DEF Next

LEMMA InitCycles == Init => CycleInv
<1> SUFFICES ASSUME Init PROVE CycleInv
  OBVIOUS
<1>1. MessageRatio \in Nat /\ Schedule(0) = 0
  BY SettingsAssumption DEF Schedule
<1>2. \A w \in Workers : pc[w] \in {"enter", "gone"}
  BY DEF Init, Launch
<1>3. \A w \in Workers : inactiveCycleCount[w] = 0 /\ backoffUs[w] = 0
  BY DEF Init, Zeros
<1>4. QED
  BY <1>1, <1>2, <1>3 DEF CycleInv, InCycle, BeforePoll

THEOREM CyclesCounted == Spec => []CycleInv
<1>1. QED
  BY TypeCorrect, InitCycles, CycleStep, PTL DEF Spec

\* Messages are polled for often enough to bound every run of cycles without
\* progress: whatever the ratio, and however messages come in between.
THEOREM RunsAreBounded == Spec => []PollBoundsBackoff
<1>1. CycleInv => PollBoundsBackoff
  BY DEF CycleInv, PollBoundsBackoff
<1>2. QED
  BY CyclesCounted, <1>1, PTL

\* The sleep is the initial one doubled with every cycle after the spinning,
\* up to the limit, for all settings.
THEOREM SleepsAsScheduled == Spec => []BackoffSchedule
<1>1. ASSUME TypeOK, CycleInv PROVE BackoffSchedule
  <2> SUFFICES ASSUME NEW w \in Workers
               PROVE  LET idle == inactiveCycleCount[w] - ActiveSpinCount IN
                      backoffUs[w] = IF idle <= 0 THEN 0 ELSE MinOf(InitialBackoff * PowerOfTwo[idle - 1], MaxBackoff)
    BY DEF BackoffSchedule
  <2>1. inactiveCycleCount[w] \in Nat /\ ActiveSpinCount \in Nat /\ backoffUs[w] = Schedule(inactiveCycleCount[w])
    BY <1>1, SettingsAssumption DEF TypeOK, CycleInv
  <2>2. QED
    BY <2>1 DEF Schedule
<1>2. QED
  BY TypeCorrect, CyclesCounted, <1>1, PTL
=============================================================================
