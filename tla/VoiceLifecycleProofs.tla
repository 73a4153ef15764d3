------------------------ MODULE VoiceLifecycleProofs ------------------------
(***************************************************************************)
(* Theorems about VoiceLifecycle, for any sets of jobs, streams and stop   *)
(* handlers, any retry limit and any number of requests and events.        *)
(***************************************************************************)
EXTENDS VoiceLifecycle, TLAPS

-----------------------------------------------------------------------------
(* Type correctness.                                                       *)

\* Manager.DiscordConnected keeps the types of the Manager's fields.
LEMMA ConnectedTypes ==
  ManagerTypes /\ DiscordConnected => ManagerTypes'
  <1> SUFFICES ASSUME ManagerTypes, DiscordConnected PROVE ManagerTypes'
    OBVIOUS
  <1>1. disconnected' \in BOOLEAN
    BY Zenon DEF DiscordConnected
  <1>2. QED
    BY <1>1 DEF ManagerTypes, DiscordConnected, RetireQueue, InstallQueue,
                ClearQueue, RestartSync, JobOrNone

\* Manager.DiscordDisconnected keeps them too, and the rejoin goroutine it may
\* start carries a job and its first attempt.
LEMMA DisconnectedTypes ==
  ASSUME ManagerTypes, rejoins \in SUBSET Rejoin, NEW reason,
         DiscordDisconnected(reason)
  PROVE  ManagerTypes' /\ rejoins' \in SUBSET Rejoin
  <1>1. 1 \in 1..MaxAttempts
    BY VoiceLifecycleAssumption
  <1>2. \A r \in rejoins' \ rejoins : r \in Rejoin
    BY <1>1 DEF ManagerTypes, DiscordDisconnected, ShouldRejoinVoice,
                JobOrNone, Rejoin, RejoinPcs
  <1>3. QED
    BY <1>2 DEF ManagerTypes, DiscordDisconnected, RetireQueue, ClearQueue,
                NoSync, JobOrNone

\* markVoiceDisconnectedLocked keeps the types of what it may change.
LEMMA LostTypes ==
  ASSUME TypeOK, NEW reason, NEW close, MarkVoiceDisconnected(reason, close)
  PROVE  /\ ManagerTypes'
         /\ rejoins' \in SUBSET Rejoin
         /\ audioLoops' \in SUBSET Nat => ClientTypes'
  <1>1. voiceConnected' \in BOOLEAN
    BY Zenon DEF MarkVoiceDisconnected
  <1>2. audioLoops' \in SUBSET Nat => ClientTypes'
    BY <1>1 DEF TypeOK, ClientTypes, MarkVoiceDisconnected, gateway
  <1>3. CASE DiscordDisconnected(reason)
    BY <1>2, <1>3, DisconnectedTypes DEF TypeOK
  <1>4. CASE UNCHANGED <<manager, rejoins>>
    BY <1>2, <1>4 DEF TypeOK, ManagerTypes, manager
  <1>5. QED
    BY <1>3, <1>4 DEF MarkVoiceDisconnected

\* A new Manager and a new client have the types of TypeOK.
THEOREM InitTypeOK == Init => TypeOK
  <1> SUFFICES ASSUME Init PROVE TypeOK
    OBVIOUS
  <1>1. /\ stopping \in BOOLEAN
        /\ disconnected \in BOOLEAN
        /\ session \in BOOLEAN
        /\ connected \in BOOLEAN
        /\ voiceConnected \in BOOLEAN
    BY Zenon DEF Init
  <1>2. QED
    BY <1>1, VoiceLifecycleAssumption
       DEF Init, TypeOK, ManagerTypes, ClientTypes, ThreadTypes, JobOrNone,
           NoSync, IdleStart, IdleStop, StartPcs, StopPcs

\* Every critical section keeps them.
THEOREM NextTypeOK == TypeOK /\ [Next]_vars => TypeOK'
  <1> SUFFICES ASSUME TypeOK, [Next]_vars PROVE TypeOK'
    OBVIOUS
  <1> USE DEF TypeOK, gwcalls
  <1>a. UNCHANGED manager => ManagerTypes'
    BY DEF ManagerTypes, manager
  <1>b. UNCHANGED <<gateway, voice>> => ClientTypes'
    BY DEF ClientTypes, gateway, voice
  <1>1. ASSUME NEW j \in Jobs, StartBegin(j) PROVE TypeOK'
    BY <1>1, <1>a, <1>b DEF ThreadTypes, StartBegin, Input, JobOrNone, StartPcs
  <1>2. CASE StartOpen
    BY <1>2, <1>a DEF ClientTypes, ThreadTypes, StartOpen, OpenGateway,
                Holding, StartPcs, voice
  <1>3. CASE StartOpened
    BY <1>3, <1>b, ConnectedTypes DEF ThreadTypes, StartOpened, StartPcs
  <1>4. CASE StartJoinFails
    BY <1>4, <1>a, <1>b DEF ThreadTypes, StartJoinFails, IdleStart, JobOrNone,
                StartPcs
  <1>5. CASE StartJoined
    BY <1>5, <1>a DEF ClientTypes, ThreadTypes, StartJoined, EnterVoice,
                StartPcs, gateway
  <1>5a. CASE StartForwards
    BY <1>5a, <1>a DEF ClientTypes, ThreadTypes, StartForwards, StartLoop,
                StartPcs, gateway
  <1>6. CASE StartCommit
    <2>1. stopping' \in BOOLEAN /\ disconnected' \in BOOLEAN
      BY <1>6, Zenon DEF StartCommit
    <2>2. QED
      BY <1>6, <1>b, <2>1
         DEF ManagerTypes, ThreadTypes, StartCommit, RestartSync, RetireQueue,
             InstallQueue, IdleStart, JobOrNone, StartPcs
  <1>7. ASSUME NEW s \in Stoppers, StopBegin(s) PROVE TypeOK'
    BY <1>7, <1>b DEF ManagerTypes, ThreadTypes, StopBegin, Input, RetireQueue,
                ClearQueue, JobOrNone, StopPcs
  <1>8. ASSUME NEW s \in Stoppers, StopLeave(s) PROVE TypeOK'
    <2>1. voiceConnected' \in BOOLEAN
      BY <1>8, Zenon DEF StopLeave, ExitVoice
    <2>2. QED
      BY <1>8, <1>a, <2>1 DEF ClientTypes, ThreadTypes, StopLeave, ExitVoice,
                JobOrNone, StopPcs, gateway
  <1>9. ASSUME NEW s \in Stoppers, StopLeaveMismatch(s) PROVE TypeOK'
    BY <1>9, <1>a, <1>b DEF ThreadTypes, StopLeaveMismatch, StopPcs
  <1>10. ASSUME NEW s \in Stoppers, StopFailed(s) PROVE TypeOK'
    <2>1. stopping' \in BOOLEAN
      BY <1>10, Zenon DEF ManagerTypes, StopFailed, manager
    <2>2. CASE StillHolds(s)
      <3>1. /\ RestartSync(current, reconnectGeneration)
            /\ InstallQueue
            /\ UNCHANGED <<current, disconnected, reconnectGeneration,
                           deadQueues, strayStops>>
        BY <1>10, <2>2, Zenon DEF StopFailed
      <3>2. ManagerTypes'
        BY <2>1, <3>1 DEF ManagerTypes, RestartSync, InstallQueue
      <3>3. QED
        BY <1>10, <3>2, <1>b DEF ThreadTypes, StopFailed, IdleStop, JobOrNone,
             StopPcs
    <2>3. CASE ~StillHolds(s)
      BY <1>10, <2>3, <1>a, <1>b DEF ThreadTypes, StopFailed,
             IdleStop, JobOrNone, StopPcs
    <2>4. QED
      BY <2>2, <2>3
  <1>11. ASSUME NEW s \in Stoppers, StopFinish(s) PROVE TypeOK'
    <2>1. stopping' \in BOOLEAN
      BY <1>11, Zenon DEF StopFinish
    <2>2. QED
      BY <1>11, <2>1, <1>b
         DEF ManagerTypes, ThreadTypes, StopFinish, NoSync, RetireQueue,
             ClearQueue, IdleStop, JobOrNone, StopPcs
  <1>12. ASSUME NEW r \in rejoins, RejoinStep(r) PROVE TypeOK'
    <2>1. r \in Rejoin
      OBVIOUS
    <2>2. CASE RejoinCheck(r)
      BY <2>1, <2>2, <1>a, <1>b DEF ThreadTypes, RejoinCheck, Become, Rejoin,
                RejoinPcs
    <2>3. CASE RejoinOpen(r)
      BY <2>1, <2>3, <1>a DEF ClientTypes, ThreadTypes, RejoinOpen,
                OpenGateway,
                Holding, Become, Rejoin, RejoinPcs, voice
    <2>4. CASE RejoinOpened(r)
      BY <2>1, <2>4, <1>b, ConnectedTypes DEF ThreadTypes, RejoinOpened,
                Become,
                Rejoin, RejoinPcs
    <2>5. CASE RejoinFails(r)
      BY <2>1, <2>5, <1>a, <1>b DEF ThreadTypes, RejoinFails, Become, Rejoin,
                RejoinPcs
    <2>6. CASE RejoinRetry(r)
      <3>1. r.attempt < MaxAttempts => r.attempt + 1 \in 1..MaxAttempts
        BY <2>1, VoiceLifecycleAssumption DEF Rejoin
      <3>2. QED
        BY <2>1, <2>6, <3>1, <1>a, <1>b DEF ThreadTypes, RejoinRetry, Rejoin,
                RejoinPcs
    <2>7. CASE RejoinJoined(r)
      BY <2>1, <2>7, <1>a DEF ClientTypes, ThreadTypes, RejoinJoined,
                EnterVoice,
                Become, Rejoin, RejoinPcs, JobOrNone, gateway
    <2>7a. CASE RejoinForwards(r)
      BY <2>1, <2>7a, <1>a DEF ClientTypes, ThreadTypes, RejoinForwards,
                StartLoop, Become, Rejoin, RejoinPcs, gateway
    <2>8. CASE RejoinFinish(r)
      <3>1. disconnected' \in BOOLEAN
        BY <2>8, Zenon DEF ManagerTypes, RejoinFinish
      <3>2. strayStops' \in SUBSET Nat
        BY <2>8 DEF ManagerTypes, RejoinFinish
      <3>3. QED
        BY <2>1, <2>8, <3>1, <3>2, <1>b
           DEF ManagerTypes, ThreadTypes, RejoinFinish, RetireQueue,
               InstallQueue, RestartSync, Rejoin, JobOrNone
    <2>9. QED
      BY <1>12, <2>2, <2>3, <2>4, <2>5, <2>6, <2>7, <2>7a, <2>8
         DEF RejoinStep
  <1>13. ASSUME NEW opened \in BOOLEAN, SelectGateway(opened) PROVE TypeOK'
    BY <1>13, <1>a DEF ClientTypes, ThreadTypes, SelectGateway, Input, voice
  <1>14. CASE RevokeGateway
    <2>1. session' \in BOOLEAN /\ connected' \in BOOLEAN
      BY <1>14, Zenon DEF RevokeGateway
    <2>2. QED
      BY <1>14, <2>1, <1>a DEF ClientTypes, ThreadTypes, RevokeGateway, Input,
                voice
  <1>15. CASE SelectOpened
    BY <1>15, <1>b, ConnectedTypes DEF ThreadTypes, SelectOpened
  <1>16. CASE RevokeLeave
    <2>1. voiceConnected' \in BOOLEAN
      BY <1>16, Zenon DEF RevokeLeave, ExitVoice
    <2>2. QED
      BY <1>16, <2>1, <1>a DEF ClientTypes, ThreadTypes, RevokeLeave,
                ExitVoice,
                JobOrNone, gateway
  <1>17. CASE GatewayUp
    BY <1>17, <1>a DEF ClientTypes, ThreadTypes, GatewayUp, Input,
                CallbackKinds, voice
  <1>18. CASE GatewayDown
    <2>1. connected' \in BOOLEAN
      BY <1>18, Zenon DEF GatewayDown
    <2>2. QED
      BY <1>18, <2>1, <1>a DEF ClientTypes, ThreadTypes, GatewayDown, Input,
                CallbackKinds, voice
  <1>19. CASE SelfVoiceLost
    BY <1>19, <1>a, <1>b DEF ThreadTypes, SelfVoiceLost, Input, CallbackKinds
  <1>c. ASSUME NEW kind \in CallbackKinds, Deliver(kind) PROVE ThreadTypes'
    BY <1>c DEF ThreadTypes, Deliver
  <1>20. CASE DeliverConnected
    BY <1>20, <1>b, <1>c, ConnectedTypes DEF DeliverConnected, CallbackKinds
  <1>21. CASE DeliverDisconnected
    BY <1>21, <1>b, <1>c, DisconnectedTypes DEF DeliverDisconnected,
                CallbackKinds
  <1>22. CASE DeliverVoiceLost
    <2>1. MarkVoiceDisconnected("voice_state_disconnected", TRUE)
      BY <1>22 DEF DeliverVoiceLost
    <2>2. audioLoops' \in SUBSET Nat
      BY <1>22 DEF DeliverVoiceLost, ClientTypes
    <2>3. ManagerTypes' /\ ClientTypes' /\ rejoins' \in SUBSET Rejoin
      BY <2>1, <2>2, LostTypes, Zenon
    <2>4. QED
      BY <1>22, <1>c, <2>3 DEF DeliverVoiceLost, CallbackKinds
  <1>23. ASSUME NEW g \in audioLoops, OpusClosed(g) PROVE TypeOK'
    <2>1. ThreadTypes' /\ audioLoops' \in SUBSET Nat
      BY <1>23 DEF ThreadTypes, ClientTypes, OpusClosed, Input
    <2>2. CASE MarkVoiceDisconnected("opus_recv_closed", FALSE)
      <3>1. ManagerTypes' /\ ClientTypes' /\ rejoins' \in SUBSET Rejoin
        BY <2>1, <2>2, LostTypes, Zenon
      <3>2. QED
        BY <2>1, <3>1
    <2>3. CASE ~LoopCurrent(g)
      BY <1>23, <2>1, <2>3, <1>a DEF ClientTypes, OpusClosed, gateway
    <2>4. QED
      BY <1>23, <2>2, <2>3 DEF OpusClosed
  <1>24. ASSUME NEW g \in audioLoops, OpusStops(g) PROVE TypeOK'
    BY <1>24, <1>a DEF ClientTypes, ThreadTypes, OpusStops, gateway, threads
  <1>25. CASE UNCHANGED vars
    BY <1>25, <1>a, <1>b DEF ThreadTypes, vars, threads
  <1>26. QED
    BY <1>1, <1>2, <1>3, <1>4, <1>5, <1>5a, <1>6, <1>7, <1>8, <1>9, <1>10,
       <1>11, <1>12, <1>13, <1>14, <1>15, <1>16, <1>17, <1>18, <1>19, <1>20,
       <1>21, <1>22, <1>23, <1>24, <1>25
       DEF Next, StartStep, StopStep, ReconcileStep, DeliverStep

\* Every reachable state has the types of TypeOK; in particular a rejoin
\* goroutine never counts past MaxAttempts.
THEOREM TypeCorrect == Spec => []TypeOK
  BY InitTypeOK, NextTypeOK, PTL DEF Spec

-----------------------------------------------------------------------------
(* What the Manager keeps for a job: LiveJobServed, NoQueueLeak,           *)
(* NothingOutlivesJob.  QuietWhileStopping and QueuesFresh make them       *)
(* inductive: without the first StopFailed could install a queue over one  *)
(* that still runs, without the second one that was stopped before.        *)

\* A handler that stops the previous queue and installs a new one, or none,
\* leaves no other queue running.
LEMMA ReplaceQueue ==
  ASSUME ManagerTypes, NoQueueLeak, RetireQueue, InstallQueue \/ ClearQueue
  PROVE  NoQueueLeak'
  <1>1. CASE InstallQueue
    BY <1>1 DEF ManagerTypes, NoQueueLeak, RetireQueue, InstallQueue
  <1>2. CASE ClearQueue
    BY <1>2 DEF ManagerTypes, NoQueueLeak, RetireQueue, ClearQueue
  <1>3. QED
    BY <1>1, <1>2

\* A queue just made runs, whether or not the former one was stopped.
LEMMA NewQueueRuns ==
  ASSUME ManagerTypes, QueuesFresh, InstallQueue,
         RetireQueue \/ UNCHANGED deadQueues
  PROVE  /\ workerRetry' # 0
         /\ workerRetry' \notin deadQueues'
         /\ QueuesFresh'
  <1>1. workerRetry' = queuesMade + 1 /\ queuesMade' = queuesMade + 1
    BY DEF InstallQueue
  <1>2. \A q \in deadQueues' : q \in Nat /\ q <= queuesMade
    BY DEF ManagerTypes, QueuesFresh, RetireQueue
  <1>3. QED
    BY <1>1, <1>2 DEF ManagerTypes, QueuesFresh

\* A handler that only stops queues, or sets the field to nil, makes none.
LEMMA OldQueues ==
  ASSUME ManagerTypes, QueuesFresh, RetireQueue \/ UNCHANGED deadQueues,
         \/ ClearQueue
         \/ UNCHANGED <<workerRetry, queuesMade>>
  PROVE  QueuesFresh'
  <1>1. \A q \in deadQueues' : q <= queuesMade
    BY DEF ManagerTypes, QueuesFresh, RetireQueue
  <1>2. queuesMade' = queuesMade /\ workerRetry' \in {0, workerRetry}
    BY DEF ClearQueue
  <1>3. QED
    BY <1>1, <1>2 DEF ManagerTypes, QueuesFresh

\* Manager.DiscordConnected serves the job again, unless a Stop is under way.
LEMMA ConnectedManager ==
  ManagerTypes /\ ManagerInv /\ DiscordConnected => ManagerInv'
  <1> SUFFICES ASSUME ManagerTypes, ManagerInv, DiscordConnected
               PROVE  ManagerInv'
    OBVIOUS
  <1>1. NoQueueLeak'
    BY ReplaceQueue DEF ManagerInv, DiscordConnected
  <1>2. CASE current # NoJob /\ ~stopping
    <2>1. InstallQueue /\ RetireQueue
      BY <1>2 DEF DiscordConnected
    <2>2. workerRetry' # 0 /\ workerRetry' \notin deadQueues' /\ QueuesFresh'
      BY <2>1, NewQueueRuns DEF ManagerInv
    <2>3. (LiveJobServed /\ NothingOutlivesJob /\ QuietWhileStopping)'
      BY <1>2, <2>2 DEF LiveJobServed, Live, NothingOutlivesJob,
           QuietWhileStopping, DiscordConnected, RestartSync
    <2>4. QED
      BY <1>1, <2>2, <2>3 DEF ManagerInv
  <1>3. CASE current = NoJob \/ stopping
    <2>1. ClearQueue /\ RetireQueue
      BY <1>3 DEF DiscordConnected
    <2>2. QueuesFresh'
      BY <2>1, OldQueues DEF ManagerInv
    <2>3. (LiveJobServed /\ NothingOutlivesJob /\ QuietWhileStopping)'
      BY <1>3, <2>1 DEF ManagerInv, LiveJobServed, Live, NothingOutlivesJob,
           QuietWhileStopping, DiscordConnected, ClearQueue
    <2>4. QED
      BY <1>1, <2>2, <2>3 DEF ManagerInv
  <1>4. QED
    BY <1>2, <1>3

\* Manager.DiscordDisconnected takes the queue and the sync loop away.
LEMMA DisconnectedManager ==
  ASSUME ManagerTypes, ManagerInv, NEW reason, DiscordDisconnected(reason)
  PROVE  ManagerInv'
  <1>1. NoQueueLeak'
    BY ReplaceQueue DEF ManagerInv, DiscordDisconnected
  <1>2. (LiveJobServed /\ NothingOutlivesJob /\ QuietWhileStopping)'
    BY DEF ManagerInv, LiveJobServed, Live, NothingOutlivesJob,
           QuietWhileStopping, DiscordDisconnected, ClearQueue
  <1>3. QueuesFresh'
    BY OldQueues DEF ManagerInv, DiscordDisconnected
  <1>4. QED
    BY <1>1, <1>2, <1>3 DEF ManagerInv

\* markVoiceDisconnectedLocked calls it or leaves the Manager alone.
LEMMA LostManager ==
  ASSUME ManagerTypes, ManagerInv, NEW reason, NEW close,
         MarkVoiceDisconnected(reason, close)
  PROVE  ManagerInv'
  <1>1. CASE DiscordDisconnected(reason)
    BY <1>1, DisconnectedManager
  <1>2. CASE UNCHANGED manager
    BY <1>2 DEF ManagerInv, LiveJobServed, Live, NoQueueLeak,
                NothingOutlivesJob, QuietWhileStopping, QueuesFresh, manager
  <1>3. QED
    BY <1>1, <1>2 DEF MarkVoiceDisconnected

\* Every critical section keeps the Manager's invariant.
THEOREM NextManagerInv == TypeOK /\ ManagerInv /\ [Next]_vars => ManagerInv'
  <1> SUFFICES ASSUME TypeOK, ManagerInv, [Next]_vars PROVE ManagerInv'
    OBVIOUS
  <1>a. ManagerTypes
    BY DEF TypeOK
  <1>b. UNCHANGED manager => ManagerInv'
    BY DEF ManagerInv, LiveJobServed, Live, NoQueueLeak, NothingOutlivesJob,
           QuietWhileStopping, QueuesFresh, manager
  <1>1. ASSUME NEW j \in Jobs, StartBegin(j) PROVE ManagerInv'
    BY <1>1, <1>b DEF StartBegin
  <1>2. CASE StartStep
    <2>1. CASE StartOpen \/ StartJoinFails \/ StartJoined \/ StartForwards
      BY <2>1, <1>b DEF StartOpen, OpenGateway, StartJoinFails, StartJoined,
                        StartForwards
    <2>2. CASE StartOpened
      BY <2>2, <1>a, ConnectedManager DEF StartOpened
    <2>3. CASE StartCommit
      <3>1. NoQueueLeak'
        BY <2>3, <1>a, ReplaceQueue DEF ManagerInv, StartCommit
      <3>2. current' \in Jobs
        BY <2>3 DEF TypeOK, ThreadTypes, StartCommit
      <3>3. /\ workerRetry' # 0
            /\ workerRetry' \notin deadQueues'
            /\ QueuesFresh'
        BY <2>3, <1>a, NewQueueRuns DEF ManagerInv, StartCommit
      <3>4. (LiveJobServed /\ NothingOutlivesJob /\ QuietWhileStopping)'
        BY <2>3, <3>2, <3>3, VoiceLifecycleAssumption
           DEF LiveJobServed, Live, NothingOutlivesJob, QuietWhileStopping,
               StartCommit, RestartSync
      <3>5. QED
        BY <3>1, <3>3, <3>4 DEF ManagerInv
    <2>4. QED
      BY <1>2, <2>1, <2>2, <2>3 DEF StartStep
  <1>3. ASSUME NEW s \in Stoppers, StopBegin(s) PROVE ManagerInv'
    <2>1. NoQueueLeak'
      BY <1>3, <1>a, ReplaceQueue DEF ManagerInv, StopBegin
    <2>2. (LiveJobServed /\ NothingOutlivesJob /\ QuietWhileStopping)'
      BY <1>3 DEF LiveJobServed, Live, NothingOutlivesJob,
                  QuietWhileStopping, StopBegin, ClearQueue
    <2>3. QueuesFresh'
      BY <1>3, <1>a, OldQueues DEF ManagerInv, StopBegin
    <2>4. QED
      BY <2>1, <2>2, <2>3 DEF ManagerInv
  <1>4. ASSUME NEW s \in Stoppers, StopStep(s) PROVE ManagerInv'
    <2>1. CASE StopLeave(s) \/ StopLeaveMismatch(s)
      BY <2>1, <1>b DEF StopLeave, StopLeaveMismatch
    <2>2. CASE StopFailed(s) /\ StillHolds(s)
      <3>1. /\ stopping' = FALSE
            /\ RestartSync(current, reconnectGeneration)
            /\ InstallQueue
            /\ UNCHANGED <<current, disconnected, reconnectGeneration,
                           deadQueues, strayStops>>
        BY <2>2, Zenon DEF StopFailed
      <3>2. workerRetry = 0 /\ current # NoJob
        BY <2>2 DEF StillHolds, ManagerInv, QuietWhileStopping
      <3>3. NoQueueLeak'
        BY <3>1, <3>2, <1>a DEF ManagerInv, ManagerTypes, NoQueueLeak,
                                InstallQueue
      <3>4. /\ workerRetry' # 0
            /\ workerRetry' \notin deadQueues'
            /\ QueuesFresh'
        BY <3>1, <1>a, NewQueueRuns DEF ManagerInv
      <3>5. (LiveJobServed /\ NothingOutlivesJob /\ QuietWhileStopping)'
        BY <3>1, <3>2, <3>4 DEF LiveJobServed, Live, NothingOutlivesJob,
              QuietWhileStopping, RestartSync
      <3>6. QED
        BY <3>3, <3>4, <3>5 DEF ManagerInv
    <2>3. CASE StopFailed(s) /\ ~StillHolds(s)
      BY <2>3, <1>b DEF StopFailed
    <2>4. CASE StopFinish(s)
      <3>1. NoQueueLeak'
        BY <2>4, <1>a, ReplaceQueue DEF ManagerInv, StopFinish
      <3>2. (LiveJobServed /\ NothingOutlivesJob /\ QuietWhileStopping)'
        BY <2>4 DEF LiveJobServed, Live, NothingOutlivesJob,
                    QuietWhileStopping, StopFinish, ClearQueue
      <3>3. QueuesFresh'
        BY <2>4, <1>a, OldQueues DEF ManagerInv, StopFinish
      <3>4. QED
        BY <3>1, <3>2, <3>3 DEF ManagerInv
    <2>5. QED
      BY <1>4, <2>1, <2>2, <2>3, <2>4 DEF StopStep
  <1>5. ASSUME NEW r \in rejoins, RejoinStep(r) PROVE ManagerInv'
    <2>1. CASE RejoinCheck(r) \/ RejoinOpen(r) \/ RejoinFails(r)
                 \/ RejoinRetry(r) \/ RejoinJoined(r) \/ RejoinForwards(r)
      BY <2>1, <1>b DEF RejoinCheck, RejoinOpen, OpenGateway, RejoinFails,
                        RejoinRetry, RejoinJoined, RejoinForwards
    <2>2. CASE RejoinOpened(r)
      BY <2>2, <1>a, ConnectedManager DEF RejoinOpened
    <2>3. CASE RejoinFinish(r) /\ StillCurrent(r)
      <3>1. NoQueueLeak'
        BY <2>3, <1>a, ReplaceQueue DEF ManagerInv, RejoinFinish
      <3>2. r.gen = reconnectGeneration /\ r.job = current /\ current # NoJob
        BY <2>3, VoiceLifecycleAssumption
           DEF StillCurrent, TypeOK, Rejoin
      <3>3. /\ workerRetry' # 0
            /\ workerRetry' \notin deadQueues'
            /\ QueuesFresh'
        BY <2>3, <1>a, NewQueueRuns DEF ManagerInv, RejoinFinish
      <3>4. (LiveJobServed /\ NothingOutlivesJob /\ QuietWhileStopping)'
        BY <2>3, <3>2, <3>3
           DEF LiveJobServed, Live, NothingOutlivesJob, QuietWhileStopping,
               RejoinFinish, StillCurrent, RestartSync
      <3>5. QED
        BY <3>1, <3>3, <3>4 DEF ManagerInv
    <2>4. CASE RejoinFinish(r) /\ ~StillCurrent(r)
      <3>1. QueuesFresh'
        BY <2>4, <1>a, OldQueues DEF ManagerInv, RejoinFinish
      <3>2. (LiveJobServed /\ NoQueueLeak /\ NothingOutlivesJob
               /\ QuietWhileStopping)'
        BY <2>4 DEF ManagerInv, LiveJobServed, Live, NoQueueLeak,
                    NothingOutlivesJob, QuietWhileStopping, RejoinFinish,
                    RetireQueue
      <3>3. QED
        BY <3>1, <3>2 DEF ManagerInv
    <2>5. QED
      BY <1>5, <2>1, <2>2, <2>3, <2>4 DEF RejoinStep
  <1>6. ASSUME NEW opened \in BOOLEAN, SelectGateway(opened) PROVE ManagerInv'
    BY <1>6, <1>b DEF SelectGateway
  <1>7. CASE RevokeGateway \/ GatewayUp \/ GatewayDown \/ SelfVoiceLost
    BY <1>7, <1>b DEF RevokeGateway, GatewayUp, GatewayDown, SelfVoiceLost
  <1>8. CASE ReconcileStep
    BY <1>8, <1>a, <1>b, ConnectedManager DEF ReconcileStep, SelectOpened,
                                              RevokeLeave
  <1>9. CASE DeliverStep
    BY <1>9, <1>a, ConnectedManager, DisconnectedManager, LostManager, Zenon
       DEF DeliverStep, DeliverConnected, DeliverDisconnected,
           DeliverVoiceLost
  <1>10. ASSUME NEW g \in audioLoops, OpusClosed(g) \/ OpusStops(g)
         PROVE  ManagerInv'
    BY <1>10, <1>a, <1>b, LostManager, Zenon DEF OpusClosed, OpusStops
  <1>11. CASE UNCHANGED vars
    BY <1>11, <1>b DEF vars
  <1>12. QED
    BY <1>1, <1>2, <1>3, <1>4, <1>5, <1>6, <1>7, <1>8, <1>9, <1>10, <1>11
       DEF Next

\* A live job is served, up to the queue that a rejoin which had lost its job
\* stopped, no queue leaks and nothing of a job outlives it, in every reachable
\* state of Manager and client together.
THEOREM ManagerCorrect ==
  Spec => [](LiveJobServed /\ NoQueueLeak /\ NothingOutlivesJob)
  <1>1. Init => ManagerInv
    BY DEF Init, ManagerInv, LiveJobServed, Live, NoQueueLeak,
           NothingOutlivesJob, QuietWhileStopping, QueuesFresh, NoSync
  <1>2. ManagerInv => LiveJobServed /\ NoQueueLeak /\ NothingOutlivesJob
    BY DEF ManagerInv
  <1>3. QED
    BY <1>1, <1>2, TypeCorrect, NextManagerInv, PTL DEF Spec

\* No retry queue is replaced or dropped while it still runs (Start, Stop,
\* rejoinVoiceWithBackoff).
THEOREM QueueLeakCorrect == Spec => []NoQueueLeak
  BY ManagerCorrect, PTL

\* Between jobs no queue, no sync loop and no stop in progress is left (Stop,
\* whose last section does not look at the job again).
THEOREM OutlivesCorrect == Spec => []NothingOutlivesJob
  BY ManagerCorrect, PTL

-----------------------------------------------------------------------------
(* The generation fence.                                                   *)

\* Steps that neither start a generation nor a rejoin goroutine: goroutines may
\* end, one may go on, the job may go and a Stop may end.
LEMMA FenceKept ==
  ASSUME GenerationFence,
         reconnectGeneration' = reconnectGeneration,
         stopping' => stopping,
         current' \in {current, NoJob},
         \/ rejoins' \in SUBSET rejoins
         \/ \E r \in rejoins : \E q :
              /\ q.gen = r.gen /\ q.job = r.job
              /\ rejoins' = (rejoins \ {r}) \cup {q}
  PROVE  GenerationFence'
  <1>1. CASE rejoins' \in SUBSET rejoins
    BY <1>1 DEF GenerationFence
  <1>2. ASSUME NEW r \in rejoins, NEW q, q.gen = r.gen, q.job = r.job,
               rejoins' = (rejoins \ {r}) \cup {q}
        PROVE  GenerationFence'
    BY <1>2 DEF GenerationFence
  <1>3. QED
    BY <1>1, <1>2

\* DiscordDisconnected starts a generation and its one goroutine with it.
LEMMA FenceDisconnected ==
  ASSUME ManagerTypes, rejoins \in SUBSET Rejoin, GenerationFence,
         NEW reason, DiscordDisconnected(reason)
  PROVE  GenerationFence'
  <1>1. \A r \in rejoins : r.gen \in Nat /\ r.gen < reconnectGeneration'
    BY DEF ManagerTypes, Rejoin, GenerationFence, DiscordDisconnected
  <1>2. \A r \in rejoins' \ rejoins :
          /\ r = [gen |-> reconnectGeneration', job |-> current,
                  attempt |-> 1, pc |-> "check"]
          /\ ~stopping
    BY DEF DiscordDisconnected
  <1>3. \A r \in rejoins' \ rejoins :
          r.gen = reconnectGeneration' /\ r.job = current' /\ ~stopping'
    BY <1>2 DEF DiscordDisconnected
  <1>4. \A r, q \in rejoins' : q.gen = r.gen => q = r
    BY <1>1, <1>2, <1>3 DEF GenerationFence
  <1>5. reconnectGeneration' \in Nat
    BY DEF ManagerTypes, DiscordDisconnected
  <1>6. QED
    BY <1>1, <1>3, <1>4, <1>5 DEF GenerationFence

\* Every critical section keeps the fence.
THEOREM NextFence ==
  TypeOK /\ GenerationFence /\ [Next]_vars => GenerationFence'
  <1> SUFFICES ASSUME TypeOK, GenerationFence, [Next]_vars
               PROVE  GenerationFence'
    OBVIOUS
  <1>a. UNCHANGED <<current, stopping, reconnectGeneration, rejoins>>
          => GenerationFence'
    BY DEF GenerationFence
  <1>b. /\ DiscordConnected
        => UNCHANGED <<current, stopping, reconnectGeneration>>
    BY DEF DiscordConnected
  <1>c. ASSUME reconnectGeneration' = reconnectGeneration + 1,
               rejoins' = rejoins
        PROVE  GenerationFence'
    <2>1. \A r \in rejoins : r.gen \in Nat /\ r.gen < reconnectGeneration'
      BY <1>c DEF TypeOK, ManagerTypes, Rejoin, GenerationFence
    <2>2. QED
      BY <1>c, <2>1 DEF TypeOK, ManagerTypes, GenerationFence
  <1>d. ASSUME NEW reason, NEW close, MarkVoiceDisconnected(reason, close)
        PROVE  GenerationFence'
    <2>1. CASE DiscordDisconnected(reason)
      BY <2>1, FenceDisconnected DEF TypeOK
    <2>2. CASE UNCHANGED <<manager, rejoins>>
      BY <2>2, <1>a DEF manager
    <2>3. QED
      BY <1>d, <2>1, <2>2 DEF MarkVoiceDisconnected
  <1>1. ASSUME NEW j \in Jobs, StartBegin(j) PROVE GenerationFence'
    BY <1>1, <1>a DEF StartBegin, manager
  <1>2. CASE StartStep
    <2>1. CASE StartOpen \/ StartJoinFails \/ StartJoined \/ StartForwards
      BY <2>1, <1>a DEF StartOpen, OpenGateway, StartJoinFails, StartJoined,
                        StartForwards, manager
    <2>2. CASE StartOpened
      BY <2>2, <1>a, <1>b DEF StartOpened
    <2>3. CASE StartCommit
      BY <2>3, <1>c DEF StartCommit
    <2>4. QED
      BY <1>2, <2>1, <2>2, <2>3 DEF StartStep
  <1>3. ASSUME NEW s \in Stoppers, StopBegin(s) PROVE GenerationFence'
    BY <1>3, <1>c DEF StopBegin
  <1>4. ASSUME NEW s \in Stoppers, StopStep(s) PROVE GenerationFence'
    <2>1. CASE StopLeave(s) \/ StopLeaveMismatch(s)
      BY <2>1, <1>a DEF StopLeave, StopLeaveMismatch, manager
    <2>2. CASE StopFailed(s)
      BY <2>2, FenceKept DEF StopFailed, manager
    <2>3. CASE StopFinish(s)
      BY <2>3, FenceKept DEF StopFinish
    <2>4. QED
      BY <1>4, <2>1, <2>2, <2>3 DEF StopStep
  <1>5. ASSUME NEW r \in rejoins, RejoinStep(r) PROVE GenerationFence'
    <2>1. UNCHANGED <<current, stopping, reconnectGeneration>>
      BY <1>5, <1>b DEF RejoinStep, RejoinCheck, RejoinOpen, OpenGateway,
            RejoinOpened, RejoinFails, RejoinRetry, RejoinJoined,
            RejoinForwards, RejoinFinish, manager
    <2>2. r \in Rejoin
      BY DEF TypeOK
    <2>3. \A pc : [r EXCEPT !.pc = pc].gen = r.gen
                    /\ [r EXCEPT !.pc = pc].job = r.job
      BY <2>2 DEF Rejoin
    <2>4. /\ [r EXCEPT !.pc = "check", !.attempt = r.attempt + 1].gen = r.gen
          /\ [r EXCEPT !.pc = "check", !.attempt = r.attempt + 1].job = r.job
      BY <2>2 DEF Rejoin
    <2>5. \/ rejoins' \in SUBSET rejoins
          \/ \E q : /\ q.gen = r.gen /\ q.job = r.job
                    /\ rejoins' = (rejoins \ {r}) \cup {q}
      BY <1>5, <2>3, <2>4 DEF RejoinStep, RejoinCheck, RejoinOpen,
            RejoinOpened, RejoinFails, RejoinRetry, RejoinJoined,
            RejoinForwards, RejoinFinish, Become
    <2>6. QED
      BY <2>1, <2>5, FenceKept
  <1>6. ASSUME NEW opened \in BOOLEAN, SelectGateway(opened)
        PROVE  GenerationFence'
    BY <1>6, <1>a DEF SelectGateway, manager
  <1>7. CASE RevokeGateway \/ GatewayUp \/ GatewayDown \/ SelfVoiceLost
    BY <1>7, <1>a DEF RevokeGateway, GatewayUp, GatewayDown, SelfVoiceLost,
                      manager
  <1>8. CASE ReconcileStep
    BY <1>8, <1>a, <1>b DEF ReconcileStep, SelectOpened, RevokeLeave, manager
  <1>9. CASE DeliverStep
    <2>1. CASE DeliverConnected
      BY <2>1, <1>a, <1>b DEF DeliverConnected
    <2>2. CASE DeliverDisconnected
      BY <2>2, FenceDisconnected DEF TypeOK, DeliverDisconnected
    <2>3. CASE DeliverVoiceLost
      BY <2>3, <1>d, Zenon DEF DeliverVoiceLost
    <2>4. QED
      BY <1>9, <2>1, <2>2, <2>3 DEF DeliverStep
  <1>10. ASSUME NEW g \in audioLoops, OpusClosed(g) PROVE GenerationFence'
    <2>1. CASE MarkVoiceDisconnected("opus_recv_closed", FALSE)
      BY <2>1, <1>d, Zenon
    <2>2. CASE UNCHANGED <<manager, rejoins>>
      BY <2>2, <1>a DEF manager
    <2>3. QED
      BY <1>10, <2>1, <2>2 DEF OpusClosed
  <1>11. ASSUME NEW g \in audioLoops, OpusStops(g) PROVE GenerationFence'
    BY <1>11, <1>a DEF OpusStops, manager, threads
  <1>12. CASE UNCHANGED vars
    BY <1>12, <1>a DEF vars, manager, threads
  <1>13. QED
    BY <1>1, <1>2, <1>3, <1>4, <1>5, <1>6, <1>7, <1>8, <1>9, <1>10, <1>11,
       <1>12 DEF Next

\* At most one rejoin goroutine is current; it works for the current job and
\* never while a Stop is in progress.
THEOREM FenceCorrect == Spec => []GenerationFence
  <1>1. Init => GenerationFence
    BY DEF Init, GenerationFence
  <1>2. QED
    BY <1>1, TypeCorrect, NextFence, PTL DEF Spec

-----------------------------------------------------------------------------
(* The client.  Two invariants that do not need each other: who may be in  *)
(* voice (RevokedIsOut, with JoinersHaveSession), and the stop channels of *)
(* the audio loops (AudioInv).  ConnectedIsForwarded rests on the second.  *)

AccessInv == RevokedIsOut /\ JoinersHaveSession

AudioInv == NoDoubleClose /\ AudioStopFresh

\* Every critical section keeps AccessInv: gatewayMu keeps revokeGateway out
\* between connectGateway and the end of JoinVoice.
THEOREM NextAccess == TypeOK /\ AccessInv /\ [Next]_vars => AccessInv'
  <1> SUFFICES ASSUME TypeOK, AccessInv, [Next]_vars PROVE AccessInv'
    OBVIOUS
  <1> USE DEF AccessInv, RevokedIsOut, JoinersHaveSession, gwcalls
  <1>1. ASSUME NEW j \in Jobs, StartBegin(j) PROVE AccessInv'
    BY <1>1 DEF StartBegin, Holding, gateway, voice
  <1>2. CASE StartStep
    <2>1. starter \in [pc : StartPcs, job : JobOrNone]
      BY DEF TypeOK, ThreadTypes
    <2>2. CASE StartOpen
      BY <2>1, <2>2 DEF StartOpen, OpenGateway, voice
    <2>3. CASE StartOpened
      BY <2>1, <2>3 DEF StartOpened, Holding, gateway, voice
    <2>4. CASE StartJoinFails
      BY <2>4 DEF StartJoinFails, IdleStart, Holding, gateway, voice
    <2>5. CASE StartJoined
      BY <2>1, <2>5 DEF StartJoined, EnterVoice, Holding, gateway
    <2>6. CASE StartForwards
      BY <2>1, <2>6 DEF StartForwards, StartLoop, Holding, gateway
    <2>7. CASE StartCommit
      BY <2>7 DEF StartCommit, IdleStart, Holding, gateway, voice
    <2>8. QED
      BY <1>2, <2>2, <2>3, <2>4, <2>5, <2>6, <2>7 DEF StartStep
  <1>3. ASSUME NEW s \in Stoppers, StopBegin(s) \/ StopStep(s)
        PROVE  AccessInv'
    BY <1>3 DEF StopBegin, StopStep, StopLeave, ExitVoice, StopLeaveMismatch,
                StopFailed, StopFinish, gateway, voice
  <1>4. ASSUME NEW r \in rejoins, RejoinStep(r) PROVE AccessInv'
    <2>1. r \in Rejoin
      BY DEF TypeOK
    <2>2. CASE RejoinCheck(r)
      BY <2>1, <2>2 DEF RejoinCheck, Become, Rejoin, Holding, gateway, voice
    <2>3. CASE RejoinOpen(r)
      BY <2>1, <2>3 DEF RejoinOpen, OpenGateway, Become, Rejoin, voice
    <2>4. CASE RejoinOpened(r)
      BY <2>1, <2>4 DEF RejoinOpened, Become, Rejoin, Holding, gateway, voice
    <2>5. CASE RejoinFails(r)
      BY <2>1, <2>5 DEF RejoinFails, Become, Rejoin, Holding, gateway, voice
    <2>6. CASE RejoinRetry(r)
      BY <2>1, <2>6 DEF RejoinRetry, Rejoin, Holding, gateway, voice
    <2>7. CASE RejoinJoined(r)
      BY <2>1, <2>7 DEF RejoinJoined, EnterVoice, Become, Rejoin, Holding,
                        gateway
    <2>8. CASE RejoinForwards(r)
      BY <2>1, <2>8 DEF RejoinForwards, StartLoop, Become, Rejoin, Holding,
                        gateway
    <2>9. CASE RejoinFinish(r)
      BY <2>9 DEF RejoinFinish, gateway, voice
    <2>10. QED
      BY <1>4, <2>2, <2>3, <2>4, <2>5, <2>6, <2>7, <2>8, <2>9 DEF RejoinStep
  <1>5. ASSUME NEW opened \in BOOLEAN, SelectGateway(opened) PROVE AccessInv'
    BY <1>5 DEF SelectGateway, GatewayFree, voice
  <1>6. CASE RevokeGateway
    BY <1>6 DEF RevokeGateway, GatewayFree, voice
  <1>7. CASE ReconcileStep
    BY <1>7 DEF ReconcileStep, SelectOpened, RevokeLeave, ExitVoice, gateway,
                voice
  <1>8. CASE GatewayUp \/ GatewayDown \/ SelfVoiceLost
    BY <1>8 DEF GatewayUp, GatewayDown, SelfVoiceLost, gateway, voice
  <1>a. ASSUME NEW reason, NEW close, MarkVoiceDisconnected(reason, close),
               UNCHANGED <<starter, reconciler>>
        PROVE  AccessInv'
    <2>1. \A r \in rejoins' : r \in rejoins \/ r.pc = "check"
      BY <1>a DEF MarkVoiceDisconnected, DiscordDisconnected
    <2>2. QED
      BY <1>a, <2>1 DEF MarkVoiceDisconnected, Holding, gateway
  <1>9. CASE DeliverStep
    <2>1. CASE DeliverConnected
      BY <2>1 DEF DeliverConnected, Deliver, gateway, voice
    <2>2. CASE DeliverDisconnected
      <3>1. \A r \in rejoins' : r \in rejoins \/ r.pc = "check"
        BY <2>2 DEF DeliverDisconnected, DiscordDisconnected
      <3>2. QED
        BY <2>2, <3>1 DEF DeliverDisconnected, Deliver, Holding, gateway,
                          voice
    <2>3. CASE DeliverVoiceLost
      BY <2>3, <1>a, Zenon DEF DeliverVoiceLost, Deliver
    <2>4. QED
      BY <1>9, <2>1, <2>2, <2>3 DEF DeliverStep
  <1>10. ASSUME NEW g \in audioLoops, OpusClosed(g) PROVE AccessInv'
    <2>1. CASE MarkVoiceDisconnected("opus_recv_closed", FALSE)
      <3>1. UNCHANGED <<starter, reconciler>>
        BY <1>10 DEF OpusClosed
      <3>2. QED
        BY <2>1, <3>1, <1>a, Zenon
    <2>2. CASE UNCHANGED <<gateway, voiceConnected, rejoins>>
      BY <1>10, <2>2 DEF OpusClosed, gateway
    <2>3. QED
      BY <1>10, <2>1, <2>2, Zenon DEF OpusClosed
  <1>11. ASSUME NEW g \in audioLoops, OpusStops(g) PROVE AccessInv'
    BY <1>11 DEF OpusStops, gateway, threads
  <1>12. CASE UNCHANGED vars
    BY <1>12 DEF vars, gateway, voice, threads
  <1>13. QED
    BY <1>1, <1>2, <1>3, <1>4, <1>5, <1>6, <1>7, <1>8, <1>9, <1>10, <1>11,
       <1>12 DEF Next

\* A revoked client is out of voice and stays out.
THEOREM RevocationCorrect == Spec => []RevokedIsOut
  <1>1. Init => AccessInv
    BY DEF Init, AccessInv, RevokedIsOut, JoinersHaveSession, IdleStart,
           Holding
  <1>2. AccessInv => RevokedIsOut
    BY DEF AccessInv
  <1>3. QED
    BY <1>1, <1>2, TypeCorrect, NextAccess, PTL DEF Spec

\* JoinVoice begins a generation with a channel of its own.
LEMMA EnterAudio ==
  ASSUME ClientTypes, AudioInv, NEW job, EnterVoice(job)
  PROVE  AudioInv'
  BY DEF ClientTypes, AudioInv, NoDoubleClose,
         AudioStopFresh, EnterVoice

\* LeaveVoice closes the channel and forgets it.
LEMMA ExitAudio ==
  ClientTypes /\ AudioInv /\ ExitVoice => AudioInv'
  BY DEF ClientTypes, AudioInv, NoDoubleClose,
         AudioStopFresh, ExitVoice

\* markVoiceDisconnectedLocked closes it only together with forgetting it.
LEMMA LostAudio ==
  ASSUME ClientTypes, AudioInv, NEW reason, NEW close,
         MarkVoiceDisconnected(reason, close)
  PROVE  AudioInv'
  <1>1. ~voiceConnected' /\ voiceGeneration' = voiceGeneration
    BY DEF MarkVoiceDisconnected
  <1>2. \/ audioStop' = 0
        \/ audioStop' = audioStop /\ closedStops' = closedStops
    BY DEF MarkVoiceDisconnected
  <1>3. \A g \in closedStops' : g \in closedStops \/ g = audioStop
    BY DEF MarkVoiceDisconnected
  <1>4. NoDoubleClose'
    BY <1>2 DEF AudioInv, NoDoubleClose
  <1>5. AudioStopFresh'
    <2>1. audioStop' <= voiceGeneration'
      BY <1>1, <1>2 DEF ClientTypes, AudioInv, AudioStopFresh
    <2>2. \A g \in closedStops' : g <= voiceGeneration'
      BY <1>1, <1>3 DEF AudioInv, AudioStopFresh
    <2>3. QED
      BY <1>1, <2>1, <2>2 DEF AudioStopFresh
  <1>6. QED
    BY <1>1, <1>4, <1>5 DEF AudioInv

\* Every critical section keeps AudioInv.
THEOREM NextAudio == TypeOK /\ AudioInv /\ [Next]_vars => AudioInv'
  <1> SUFFICES ASSUME TypeOK, AudioInv, [Next]_vars PROVE AudioInv'
    OBVIOUS
  <1>a. UNCHANGED voice => AudioInv'
    BY DEF AudioInv, NoDoubleClose, AudioStopFresh, voice
  <1>b. ClientTypes
    BY DEF TypeOK
  <1>c. StartLoop => AudioInv'
    BY DEF AudioInv, NoDoubleClose, AudioStopFresh, StartLoop
  <1>1. ASSUME NEW j \in Jobs, StartBegin(j) PROVE AudioInv'
    BY <1>1, <1>a DEF StartBegin
  <1>2. CASE StartStep
    <2>1. CASE StartJoined
      BY <2>1, <1>b, EnterAudio DEF StartJoined
    <2>2. CASE StartForwards
      BY <2>2, <1>c DEF StartForwards
    <2>3. CASE StartOpen \/ StartOpened \/ StartJoinFails \/ StartCommit
      BY <2>3, <1>a DEF StartOpen, OpenGateway, StartOpened, StartJoinFails,
                        StartCommit
    <2>4. QED
      BY <1>2, <2>1, <2>2, <2>3 DEF StartStep
  <1>3. ASSUME NEW s \in Stoppers, StopBegin(s) \/ StopStep(s) PROVE AudioInv'
    BY <1>3, <1>a, <1>b, ExitAudio DEF StopBegin, StopStep, StopLeave,
                StopLeaveMismatch, StopFailed, StopFinish
  <1>4. ASSUME NEW r \in rejoins, RejoinStep(r) PROVE AudioInv'
    <2>1. CASE RejoinJoined(r)
      BY <2>1, <1>b, EnterAudio DEF RejoinJoined
    <2>2. CASE RejoinForwards(r)
      BY <2>2, <1>c DEF RejoinForwards
    <2>3. CASE UNCHANGED voice
      BY <2>3, <1>a
    <2>4. QED
      BY <1>4, <2>1, <2>2, <2>3 DEF RejoinStep, RejoinCheck, RejoinOpen,
           OpenGateway, RejoinOpened, RejoinFails, RejoinRetry, RejoinFinish
  <1>5. ASSUME NEW opened \in BOOLEAN, SelectGateway(opened) PROVE AudioInv'
    BY <1>5, <1>a DEF SelectGateway
  <1>6. CASE RevokeGateway \/ GatewayUp \/ GatewayDown \/ SelfVoiceLost
    BY <1>6, <1>a DEF RevokeGateway, GatewayUp, GatewayDown, SelfVoiceLost
  <1>7. CASE ReconcileStep
    BY <1>7, <1>a, <1>b, ExitAudio DEF ReconcileStep, SelectOpened, RevokeLeave
  <1>8. CASE DeliverStep
    BY <1>8, <1>a, <1>b, LostAudio, Zenon
       DEF DeliverStep, DeliverConnected, DeliverDisconnected, DeliverVoiceLost
  <1>9. ASSUME NEW g \in audioLoops, OpusClosed(g) PROVE AudioInv'
    <2>1. CASE MarkVoiceDisconnected("opus_recv_closed", FALSE)
      BY <2>1, <1>b, LostAudio, Zenon
    <2>2. CASE ~LoopCurrent(g)
      <3>1. UNCHANGED <<voiceConnected, voiceGeneration, audioStop,
                        closedStops>>
        BY <1>9, <2>2, Zenon DEF OpusClosed
      <3>2. QED
        BY <3>1 DEF AudioInv, NoDoubleClose, AudioStopFresh
    <2>3. QED
      BY <1>9, <2>1, <2>2 DEF OpusClosed
  <1>10. ASSUME NEW g \in audioLoops, OpusStops(g) PROVE AudioInv'
    BY <1>10 DEF OpusStops, AudioInv, NoDoubleClose, AudioStopFresh
  <1>11. CASE UNCHANGED vars
    BY <1>11, <1>a DEF vars
  <1>12. QED
    BY <1>1, <1>2, <1>3, <1>4, <1>5, <1>6, <1>7, <1>8, <1>9, <1>10, <1>11
       DEF Next

\* No audioStop channel is closed twice (JoinVoice, LeaveVoice,
\* markVoiceDisconnectedLocked).
THEOREM AudioCorrect == Spec => []NoDoubleClose
  <1>1. Init => AudioInv
    BY DEF Init, AudioInv, NoDoubleClose, AudioStopFresh
  <1>2. AudioInv => NoDoubleClose
    BY DEF AudioInv
  <1>3. QED
    BY <1>1, <1>2, TypeCorrect, NextAudio, PTL DEF Spec

\* A step that begins no connection, ends no loop of a live one and takes no
\* JoinVoice away from the start of its loop.
LEMMA ForwardKept ==
  ASSUME ConnectedIsForwarded,
         voiceConnected' => /\ voiceConnected
                            /\ UNCHANGED <<clientJob, voiceGeneration>>
                            /\ voiceGeneration \in audioLoops
                                 => voiceGeneration \in audioLoops'
                            /\ unstarted' = unstarted
                            /\ Entering => Entering'
  PROVE  ConnectedIsForwarded'
  BY DEF ConnectedIsForwarded

\* Every critical section keeps ConnectedIsForwarded: JoinVoice stays at the
\* start of its loop until it has started it, and a loop ends only when its
\* channel is closed or its generation over.
THEOREM NextForwarded ==
  TypeOK /\ AudioInv /\ ConnectedIsForwarded /\ [Next]_vars
    => ConnectedIsForwarded'
  <1> SUFFICES ASSUME TypeOK, AudioInv, ConnectedIsForwarded, [Next]_vars
               PROVE  ConnectedIsForwarded'
    OBVIOUS
  <1>a. ASSUME UNCHANGED voice, Entering => Entering'
        PROVE  ConnectedIsForwarded'
    BY <1>a, ForwardKept DEF voice
  <1>b. ASSUME UNCHANGED starter, rejoins \subseteq rejoins'
        PROVE  Entering => Entering'
    BY <1>b DEF Entering
  <1>c. ASSUME ~voiceConnected' PROVE ConnectedIsForwarded'
    BY <1>c DEF ConnectedIsForwarded
  <1>d. ASSUME starter.pc # "entered", UNCHANGED rejoins
        PROVE  Entering => Entering'
    BY <1>d DEF Entering
  <1>e. ASSUME NEW job, EnterVoice(job), Entering' PROVE ConnectedIsForwarded'
    BY <1>e DEF EnterVoice, ConnectedIsForwarded
  <1>f. ASSUME StartLoop PROVE ConnectedIsForwarded'
    BY <1>f DEF StartLoop, ConnectedIsForwarded
  <1>1. ASSUME NEW j \in Jobs, StartBegin(j) PROVE ConnectedIsForwarded'
    BY <1>1, <1>a, <1>d DEF StartBegin
  <1>2. CASE StartStep
    <2>1. starter \in [pc : StartPcs, job : JobOrNone]
      BY DEF TypeOK, ThreadTypes
    <2>2. CASE StartOpen
      BY <2>2, <1>a, <1>d DEF StartOpen, OpenGateway
    <2>3. CASE StartOpened \/ StartCommit
      BY <2>3, <1>a, <1>d DEF StartOpened, StartCommit
    <2>4. CASE StartJoinFails
      BY <2>4, <1>a, <1>d DEF StartJoinFails, JoinCanFail
    <2>5. CASE StartJoined
      <3>1. Entering'
        BY <2>1, <2>5 DEF StartJoined, Entering
      <3>2. QED
        BY <2>5, <3>1, <1>e DEF StartJoined
    <2>6. CASE StartForwards
      BY <2>6, <1>f DEF StartForwards
    <2>7. QED
      BY <1>2, <2>2, <2>3, <2>4, <2>5, <2>6 DEF StartStep
  <1>3. ASSUME NEW s \in Stoppers, StopBegin(s) \/ StopStep(s)
        PROVE  ConnectedIsForwarded'
    <2>1. UNCHANGED <<starter, rejoins>>
      BY <1>3 DEF StopBegin, StopStep, StopLeave, StopLeaveMismatch,
                  StopFailed, StopFinish
    <2>2. UNCHANGED voice \/ ~voiceConnected'
      BY <1>3 DEF StopBegin, StopStep, StopLeave, StopLeaveMismatch,
                  StopFailed, StopFinish, ExitVoice
    <2>3. QED
      BY <2>1, <2>2, <1>a, <1>b, <1>c
  <1>4. ASSUME NEW r \in rejoins, RejoinStep(r) PROVE ConnectedIsForwarded'
    <2>1. r \in Rejoin
      BY DEF TypeOK
    <2>a. ASSUME r.pc # "entered", rejoins \ {r} \subseteq rejoins',
                 UNCHANGED starter
          PROVE  Entering => Entering'
      BY <2>a DEF Entering
    <2>2. CASE RejoinJoined(r)
      <3>1. [r EXCEPT !.pc = "entered"].pc = "entered"
        BY <2>1 DEF Rejoin
      <3>2. Entering'
        BY <2>2, <3>1 DEF RejoinJoined, Become, Entering
      <3>3. QED
        BY <2>2, <3>2, <1>e DEF RejoinJoined
    <2>3. CASE RejoinForwards(r)
      BY <2>3, <1>f DEF RejoinForwards
    <2>4. CASE RejoinCheck(r) \/ RejoinOpen(r) \/ RejoinOpened(r)
                 \/ RejoinFails(r) \/ RejoinRetry(r) \/ RejoinFinish(r)
      <3>1. r.pc # "entered"
        BY <2>4 DEF RejoinCheck, RejoinOpen, RejoinOpened, RejoinFails,
                    JoinCanFail, RejoinRetry, RejoinFinish
      <3>2. rejoins \ {r} \subseteq rejoins' /\ UNCHANGED <<starter, voice>>
        BY <2>4 DEF RejoinCheck, RejoinOpen, OpenGateway, RejoinOpened,
                    RejoinFails, RejoinRetry, RejoinFinish, Become
      <3>3. QED
        BY <3>1, <3>2, <2>a, <1>a
    <2>5. QED
      BY <1>4, <2>2, <2>3, <2>4 DEF RejoinStep
  <1>5. ASSUME NEW opened \in BOOLEAN, SelectGateway(opened)
        PROVE  ConnectedIsForwarded'
    BY <1>5, <1>a, <1>b DEF SelectGateway
  <1>6. CASE RevokeGateway \/ GatewayUp \/ GatewayDown \/ SelfVoiceLost
    BY <1>6, <1>a, <1>b DEF RevokeGateway, GatewayUp, GatewayDown,
                            SelfVoiceLost
  <1>7. CASE ReconcileStep
    BY <1>7, <1>a, <1>b, <1>c DEF ReconcileStep, SelectOpened, RevokeLeave,
                                  ExitVoice
  <1>8. CASE DeliverStep
    <2>1. CASE DeliverConnected
      BY <2>1, <1>a, <1>b DEF DeliverConnected, Deliver
    <2>2. CASE DeliverDisconnected
      BY <2>2, <1>a, <1>b DEF DeliverDisconnected, Deliver,
                              DiscordDisconnected
    <2>3. CASE DeliverVoiceLost
      BY <2>3, <1>c DEF DeliverVoiceLost, MarkVoiceDisconnected
    <2>4. QED
      BY <1>8, <2>1, <2>2, <2>3 DEF DeliverStep
  <1>9. ASSUME NEW g \in audioLoops, OpusClosed(g)
        PROVE  ConnectedIsForwarded'
    <2>1. CASE MarkVoiceDisconnected("opus_recv_closed", FALSE)
      BY <2>1, <1>c DEF MarkVoiceDisconnected
    <2>2. CASE ~LoopCurrent(g)
      <3>1. UNCHANGED <<clientJob, voiceConnected, voiceGeneration, unstarted,
                        rejoins, starter>>
        BY <1>9, <2>2, Zenon DEF OpusClosed
      <3>2. voiceConnected => g # voiceGeneration
        BY <2>2 DEF LoopCurrent
      <3>3. audioLoops' = audioLoops \ {g}
        BY <1>9 DEF OpusClosed
      <3>4. Entering => Entering'
        BY <3>1, <1>b
      <3>5. QED
        BY <3>1, <3>2, <3>3, <3>4, ForwardKept
    <2>3. QED
      BY <1>9, <2>1, <2>2 DEF OpusClosed
  <1>10. ASSUME NEW g \in audioLoops, OpusStops(g)
         PROVE  ConnectedIsForwarded'
    <2>1. voiceConnected => g # voiceGeneration
      BY <1>10 DEF OpusStops, LoopCurrent, AudioInv, NoDoubleClose,
                   AudioStopFresh
    <2>2. Entering => Entering'
      BY <1>10, <1>b DEF OpusStops, threads
    <2>3. QED
      BY <1>10, <2>1, <2>2, ForwardKept DEF OpusStops
  <1>11. CASE UNCHANGED vars
    BY <1>11, <1>a, <1>b DEF vars, threads
  <1>12. QED
    BY <1>1, <1>2, <1>3, <1>4, <1>5, <1>6, <1>7, <1>8, <1>9, <1>10, <1>11
       DEF Next

\* A voice session with a target that the status reports as connected has the
\* audio loop of its own generation, or its JoinVoice is about to start it.
THEOREM ForwardedCorrect == Spec => []ConnectedIsForwarded
  <1>1. Init => AudioInv /\ ConnectedIsForwarded
    BY DEF Init, AudioInv, ConnectedIsForwarded, NoDoubleClose, AudioStopFresh
  <1>2. QED
    BY <1>1, TypeCorrect, NextAudio, NextForwarded, PTL DEF Spec

\* A forwarding loop of an older generation ends without consequences: its
\* late opus_recv_closed cannot disconnect the job that replaced it.
THEOREM StaleLoopCorrect == Spec => StaleLoopHarmless
  <1> DEFINE Harmless == \A g \in audioLoops \ audioLoops' :
                           g # voiceGeneration =>
                             UNCHANGED <<manager, voiceConnected, rejoins>>
  <1>1. ASSUME [Next]_vars PROVE Harmless \/ UNCHANGED vars
    <2>a. audioLoops \subseteq audioLoops' => Harmless
      OBVIOUS
    <2>1. ASSUME NEW j \in Jobs, StartBegin(j) PROVE Harmless
      BY <2>1, <2>a DEF StartBegin, voice
    <2>2. CASE StartStep
      BY <2>2, <2>a DEF StartStep, StartOpen, OpenGateway, StartOpened,
           StartJoinFails, StartJoined, EnterVoice, StartForwards, StartLoop,
           StartCommit, voice
    <2>3. ASSUME NEW s \in Stoppers, StopBegin(s) \/ StopStep(s)
          PROVE  Harmless
      BY <2>3, <2>a DEF StopBegin, StopStep, StopLeave, ExitVoice,
           StopLeaveMismatch, StopFailed, StopFinish, voice
    <2>4. ASSUME NEW r \in rejoins, RejoinStep(r) PROVE Harmless
      BY <2>4, <2>a DEF RejoinStep, RejoinCheck, RejoinOpen, OpenGateway,
           RejoinOpened, RejoinFails, RejoinRetry, RejoinJoined, EnterVoice,
           RejoinForwards, StartLoop, RejoinFinish, voice
    <2>5. ASSUME NEW opened \in BOOLEAN, SelectGateway(opened)
          PROVE  Harmless
      BY <2>5, <2>a DEF SelectGateway, voice
    <2>6. CASE RevokeGateway \/ GatewayUp \/ GatewayDown \/ SelfVoiceLost
      BY <2>6, <2>a DEF RevokeGateway, GatewayUp, GatewayDown, SelfVoiceLost,
           voice
    <2>7. CASE ReconcileStep
      BY <2>7, <2>a DEF ReconcileStep, SelectOpened, RevokeLeave, ExitVoice,
           voice
    <2>8. CASE DeliverStep
      BY <2>8, <2>a DEF DeliverStep, DeliverConnected, DeliverDisconnected,
           DeliverVoiceLost, voice
    <2>9. ASSUME NEW g \in audioLoops, OpusClosed(g) PROVE Harmless
      <3>1. audioLoops \ audioLoops' \subseteq {g}
        BY <2>9 DEF OpusClosed
      <3>2. CASE g = voiceGeneration
        BY <3>1, <3>2
      <3>3. CASE g # voiceGeneration
        <4>1. ~LoopCurrent(g)
          BY <3>3 DEF LoopCurrent
        <4>2. UNCHANGED <<manager, voiceConnected, rejoins>>
          BY <2>9, <4>1, Zenon DEF OpusClosed
        <4>3. QED
          BY <4>2
      <3>4. QED
        BY <3>2, <3>3
    <2>10. ASSUME NEW g \in audioLoops, OpusStops(g) PROVE Harmless
      BY <2>10 DEF OpusStops, threads
    <2>11. QED
      BY <1>1, <2>1, <2>2, <2>3, <2>4, <2>5, <2>6, <2>7, <2>8, <2>9, <2>10
         DEF Next
  <1>2. QED
    BY <1>1, PTL DEF Spec, StaleLoopHarmless
=============================================================================
