------------------------- MODULE WorkerReportsProofs -------------------------
(***************************************************************************)
(* Theorems about WorkerReports, for any number of callbacks, queues, chat *)
(* messages and retries.                                                   *)
(***************************************************************************)
EXTENDS WorkerReports, FiniteSetTheorems, TLAPS

-----------------------------------------------------------------------------
(* Type correctness.                                                       *)

\* Types of what is neither the Manager's nor a queue's nor a thread's
OtherTypes ==
  /\ seen \in [State -> Nat] /\ confirmed \in Nat
  /\ received \in SUBSET Chats /\ delivered \in SUBSET Chats
  /\ excused \in SUBSET Keys

\* The first states have their types.
THEOREM InitTypeOK == Init => TypeOK
  <1> SUFFICES ASSUME Init PROVE TypeOK
    OBVIOUS
  <1> USE ReportsAssumption
  <1>1. ManagerTypes
    <2>1. /\ stopping \in BOOLEAN
          /\ disconnected \in BOOLEAN
          /\ stopper \in BOOLEAN
      BY Zenon DEF Init
    <2>2. 0 \in 0..MaxQueues
      OBVIOUS
    <2>3. QED
      BY <2>1, <2>2 DEF Init, ManagerTypes
  <1>2. NoReport \in Report
    BY DEF NoReport, Report
  <1>3. QueueTypes
    <2>1. pending \in [QueueIds -> [Keys -> Report]]
      BY <1>2 DEF Init
    <2>2. QED
      BY <2>1 DEF Init, QueueTypes
  <1>4. Idle \in Callback /\ Asleep \in Loop
    BY DEF Idle, Asleep, Callback, Loop
  <1>5. ThreadTypes
    <2>1. Idle.pc = "idle" /\ Asleep.pc = "idle" /\ NoReport.attempts = 0
      BY DEF Idle, Asleep, NoReport
    <2>2. \A q \in QueueIds, k \in Keys : pending[q][k] = NoReport
      BY DEF Init
    <2>3. 0 < MaxAttempts
      OBVIOUS
    <2>4. QED
      BY <1>4, <2>1, <2>2, <2>3 DEF Init, ThreadTypes
  <1>6. QED
    BY <1>1, <1>3, <1>5 DEF Init, TypeOK, State, Keys

\* previousWorkerRetry is a queue or nil.
LEMMA RetireTypes ==
  ASSUME ManagerTypes, Retire
  PROVE  retiring' \in SUBSET QueueIds
  BY ReportsAssumption DEF ManagerTypes, Retire, QueueIds

\* A new queue has the next number.
LEMMA NewQueueTypes ==
  ASSUME ManagerTypes, NEW p \in 0..MaxQueues, NewQueue(p)
  PROVE  /\ queuesMade' \in 0..MaxQueues
         /\ workerRetry' \in 0..MaxQueues
         /\ after' \in [QueueIds -> 0..MaxQueues]
         /\ excused' \in SUBSET Keys
  BY ReportsAssumption DEF ManagerTypes, NewQueue, QueueIds

\* No queue is the number 0.
LEMMA NoQueueTypes ==
  ASSUME ManagerTypes, NoQueue
  PROVE  /\ queuesMade' \in 0..MaxQueues
         /\ workerRetry' \in 0..MaxQueues
         /\ after' \in [QueueIds -> 0..MaxQueues]
         /\ excused' \in SUBSET Keys
  BY ReportsAssumption DEF ManagerTypes, NoQueue, QueueIds

\* The critical sections of the Manager keep the types.
LEMMA ManagerSteps ==
  ASSUME ManagerTypes, OtherTypes,
         \/ StartCommit \/ StopBegin \/ StopFails \/ StopFinish
         \/ \E rejoin \in BOOLEAN : DiscordDisconnected(rejoin)
         \/ DiscordConnected
         \/ \E g \in rejoins : Rejoined(g) \/ RejoinEnds(g)
  PROVE  /\ ManagerTypes'
         /\ OtherTypes'
         /\ UNCHANGED <<queues, loops, callbacks, worker>>
  <1> USE ReportsAssumption
  <1>1. CASE StartCommit
    <2>1. /\ retiring' \in SUBSET QueueIds
          /\ queuesMade' \in 0..MaxQueues
          /\ workerRetry' \in 0..MaxQueues
          /\ after' \in [QueueIds -> 0..MaxQueues]
          /\ excused' \in SUBSET Keys
      BY <1>1, RetireTypes, NewQueueTypes DEF StartCommit, ManagerTypes
    <2>2. /\ stopping' = FALSE /\ disconnected' = FALSE
          /\ UNCHANGED <<stopper, rejoins, received, queues, loops, callbacks,
                         worker>>
          /\ job' \in Nat /\ jobsMade' \in Nat /\ reconnectGeneration' \in Nat
          /\ participantStateRevision' \in Nat /\ version' \in Nat
          /\ inputs' \in Nat
      BY <1>1 DEF StartCommit, ManagerTypes, Input
    <2>3. stopping' \in BOOLEAN /\ disconnected' \in BOOLEAN
      BY <2>2, Zenon
    <2>4. QED
      BY <2>1, <2>2, <2>3 DEF ManagerTypes, OtherTypes, worker
  <1>2. CASE StopBegin
    <2>1. /\ retiring' \in SUBSET QueueIds
          /\ queuesMade' \in 0..MaxQueues
          /\ workerRetry' \in 0..MaxQueues
          /\ after' \in [QueueIds -> 0..MaxQueues]
          /\ excused' \in SUBSET Keys
      BY <1>2, RetireTypes, NoQueueTypes DEF StopBegin
    <2>2. /\ stopping' = TRUE /\ stopper' = TRUE
          /\ UNCHANGED <<job, jobsMade, disconnected, rejoins, content, queues,
                         loops, callbacks, worker>>
          /\ reconnectGeneration' \in Nat /\ inputs' \in Nat
      BY <1>2 DEF StopBegin, ManagerTypes, Input
    <2>3. stopping' \in BOOLEAN /\ stopper' \in BOOLEAN
      BY <2>2, Zenon
    <2>4. QED
      BY <2>1, <2>2, <2>3 DEF ManagerTypes, OtherTypes, worker, content
  <1>3. CASE StopFails
    <2>1. /\ queuesMade' \in 0..MaxQueues
          /\ workerRetry' \in 0..MaxQueues
          /\ after' \in [QueueIds -> 0..MaxQueues]
          /\ excused' \in SUBSET Keys
      <3>1. CASE NewQueue(0)
        BY <3>1, NewQueueTypes
      <3>2. CASE UNCHANGED <<workerRetry, queuesMade, after, excused>>
        BY <3>2 DEF ManagerTypes, OtherTypes
      <3>3. QED
        BY <1>3, <3>1, <3>2 DEF StopFails
    <2>2. /\ stopping' = FALSE \/ stopping' = stopping
          /\ stopper' = FALSE
          /\ UNCHANGED <<job, jobsMade, disconnected, reconnectGeneration,
                         retiring, rejoins, content, queues, loops, callbacks,
                         worker, inputs>>
      BY <1>3, Zenon DEF StopFails
    <2>3. stopping' \in BOOLEAN /\ stopper' \in BOOLEAN
      BY <2>2, Zenon DEF ManagerTypes
    <2>4. QED
      BY <2>1, <2>2, <2>3 DEF ManagerTypes, OtherTypes, worker, content
  <1>4. CASE StopFinish
    <2>1. /\ retiring' \in SUBSET QueueIds
          /\ queuesMade' \in 0..MaxQueues
          /\ workerRetry' \in 0..MaxQueues
          /\ after' \in [QueueIds -> 0..MaxQueues]
          /\ excused' \in SUBSET Keys
      BY <1>4, RetireTypes, NoQueueTypes DEF StopFinish
    <2>2. /\ stopping' = FALSE /\ stopper' = FALSE
          /\ UNCHANGED <<jobsMade, disconnected, reconnectGeneration, rejoins,
                         participantStateRevision, received, queues, loops,
                         callbacks, worker, inputs>>
          /\ job' \in Nat /\ version' \in Nat
      BY <1>4 DEF StopFinish, ManagerTypes
    <2>3. stopping' \in BOOLEAN /\ stopper' \in BOOLEAN
      BY <2>2, Zenon
    <2>4. QED
      BY <2>1, <2>2, <2>3 DEF ManagerTypes, OtherTypes, worker
  <1>5. ASSUME NEW rejoin \in BOOLEAN, DiscordDisconnected(rejoin)
        PROVE  /\ ManagerTypes'
               /\ OtherTypes'
               /\ UNCHANGED <<queues, loops, callbacks, worker>>
    <2>1. /\ retiring' \in SUBSET QueueIds
          /\ queuesMade' \in 0..MaxQueues
          /\ workerRetry' \in 0..MaxQueues
          /\ after' \in [QueueIds -> 0..MaxQueues]
          /\ excused' \in SUBSET Keys
      BY <1>5, RetireTypes, NoQueueTypes DEF DiscordDisconnected
    <2>2. /\ disconnected' = TRUE
          /\ UNCHANGED <<job, jobsMade, stopping, stopper, content, queues,
                         loops, callbacks, worker>>
          /\ reconnectGeneration' \in Nat
          /\ inputs' \in Nat
      BY <1>5 DEF DiscordDisconnected, ManagerTypes, Input
    <2>3. disconnected' \in BOOLEAN
      BY <2>2, Zenon
    <2>4. rejoins' \in SUBSET Nat
      <3>1. rejoins' \subseteq rejoins \cup {reconnectGeneration + 1}
        BY <1>5, Zenon DEF DiscordDisconnected
      <3>2. QED
        BY <3>1 DEF ManagerTypes
    <2>5. QED
      BY <2>1, <2>2, <2>3, <2>4 DEF ManagerTypes, OtherTypes, worker, content
  <1>6. CASE DiscordConnected
    <2>1. /\ queuesMade' \in 0..MaxQueues
          /\ workerRetry' \in 0..MaxQueues
          /\ after' \in [QueueIds -> 0..MaxQueues]
          /\ excused' \in SUBSET Keys
      <3>1. CASE NewQueue(workerRetry)
        BY <3>1, NewQueueTypes DEF ManagerTypes
      <3>2. CASE NoQueue
        BY <3>2, NoQueueTypes
      <3>3. QED
        BY <1>6, <3>1, <3>2, Zenon DEF DiscordConnected
    <2>2. retiring' \in SUBSET QueueIds
      BY <1>6, RetireTypes DEF DiscordConnected
    <2>3. /\ disconnected' = FALSE
          /\ UNCHANGED <<job, jobsMade, stopping, reconnectGeneration, stopper,
                         rejoins, content, queues, loops, callbacks, worker>>
          /\ inputs' \in Nat
      BY <1>6 DEF DiscordConnected, ManagerTypes, Input
    <2>4. disconnected' \in BOOLEAN
      BY <2>3, Zenon
    <2>5. QED
      BY <2>1, <2>2, <2>3, <2>4 DEF ManagerTypes, OtherTypes, worker, content
  <1>7. ASSUME NEW g \in rejoins, Rejoined(g)
        PROVE  /\ ManagerTypes'
               /\ OtherTypes'
               /\ UNCHANGED <<queues, loops, callbacks, worker>>
    <2>1. /\ queuesMade' \in 0..MaxQueues
          /\ workerRetry' \in 0..MaxQueues
          /\ after' \in [QueueIds -> 0..MaxQueues]
          /\ excused' \in SUBSET Keys
      <3>1. CASE NewQueue(workerRetry)
        BY <3>1, NewQueueTypes DEF ManagerTypes
      <3>2. CASE /\ excused' = Keys
                 /\ UNCHANGED <<workerRetry, queuesMade, after>>
        BY <3>2 DEF ManagerTypes
      <3>3. QED
        BY <1>7, <3>1, <3>2, Zenon DEF Rejoined
    <2>2. retiring' \in SUBSET QueueIds
      BY <1>7, RetireTypes DEF Rejoined
    <2>3. /\ disconnected' = FALSE \/ disconnected' = disconnected
          /\ UNCHANGED <<job, jobsMade, stopping, reconnectGeneration, stopper,
                         content, queues, loops, callbacks, worker, inputs>>
          /\ rejoins' = rejoins \ {g}
      BY <1>7, Zenon DEF Rejoined
    <2>4. disconnected' \in BOOLEAN
      BY <2>3, Zenon DEF ManagerTypes
    <2>5. QED
      BY <2>1, <2>2, <2>3, <2>4 DEF ManagerTypes, OtherTypes, worker, content
  <1>8. ASSUME NEW g \in rejoins, RejoinEnds(g)
        PROVE  /\ ManagerTypes'
               /\ OtherTypes'
               /\ UNCHANGED <<queues, loops, callbacks, worker>>
    BY <1>8 DEF RejoinEnds, ManagerTypes, OtherTypes, worker, content
  <1>9. QED
    BY <1>1, <1>2, <1>3, <1>4, <1>5, <1>6, <1>7, <1>8

\* The parts of ThreadTypes
CallbackTypes ==
  /\ callbacks \in [Callbacks -> Callback]
  /\ \A c \in Callbacks : callbacks[c].pc # "idle" => callbacks[c].key \in Keys
  /\ \A c \in Callbacks :
       callbacks[c].pc \in {"supersede", "enqueue"} => callbacks[c].queue # 0

LoopTypes ==
  /\ loops \in [QueueIds -> Loop]
  /\ \A q \in QueueIds :
       loops[q].pc \in {"taken", "publish"} => loops[q].key \in Keys
  /\ \A q \in QueueIds :
       loops[q].pc = "taken" => loops[q].attempts < MaxAttempts

PendingTypes ==
  /\ pending \in [QueueIds -> [Keys -> Report]]
  /\ \A q \in QueueIds, k \in Keys : pending[q][k].attempts < MaxAttempts

BookTypes ==
  /\ latest \in [QueueIds -> [Keys -> Nat]]
  /\ sequence \in [QueueIds -> Nat]
  /\ stopped \in [QueueIds -> BOOLEAN]

Typed == /\ ManagerTypes
         /\ PendingTypes
         /\ BookTypes
         /\ CallbackTypes
         /\ LoopTypes
         /\ OtherTypes

\* The parts make up the type invariant, before and after a step.
LEMMA Types == (TypeOK <=> Typed) /\ (TypeOK' <=> Typed')
  BY DEF TypeOK, Typed, QueueTypes, ThreadTypes, PendingTypes, BookTypes,
         CallbackTypes, LoopTypes, OtherTypes

\* No report is a report without attempts.
LEMMA NoReportType == NoReport \in Report /\ NoReport.attempts < MaxAttempts
  BY ReportsAssumption DEF NoReport, Report

\* Storing a report, or taking it out, keeps the types.
LEMMA PutTypes ==
  ASSUME PendingTypes, NEW q \in QueueIds, NEW k \in Keys, NEW r \in Report,
         r.attempts < MaxAttempts, Put(q, k, r)
  PROVE  PendingTypes'
  <1>1. \A p \in QueueIds, x \in Keys :
          pending'[p][x] = IF p = q /\ x = k THEN r ELSE pending[p][x]
    BY DEF PendingTypes, Put
  <1>2. pending' \in [QueueIds -> [Keys -> Report]]
    BY DEF PendingTypes, Put
  <1>3. QED
    BY <1>1, <1>2 DEF PendingTypes

\* So does noting its sequence number.
LEMMA MarkTypes ==
  ASSUME BookTypes, NEW q \in QueueIds, NEW k \in Keys, NEW n \in Nat,
         Mark(q, k, n)
  PROVE  latest' \in [QueueIds -> [Keys -> Nat]]
  BY DEF BookTypes, Mark

\* enqueue keeps the types.
LEMMA EnqueueTypes ==
  ASSUME PendingTypes, BookTypes, OtherTypes, NEW q \in QueueIds,
         NEW k \in Keys, NEW v \in Nat, NEW d \in Keys \cup {NoKey},
         Enqueue(q, k, v, d)
  PROVE  /\ PendingTypes'
         /\ latest' \in [QueueIds -> [Keys -> Nat]]
         /\ sequence' \in [QueueIds -> Nat]
         /\ excused' \in SUBSET Keys
  <1> DEFINE n   == sequence[q] + 1
             rep == [seq |-> n, attempts |-> 0, version |-> v]
             new == [x \in Keys |-> CASE x = k -> rep
                                      [] x = d -> NoReport
                                      [] OTHER -> pending[q][x]]
  <1>1. n \in Nat
    BY DEF BookTypes
  <1>2. rep \in Report
    BY <1>1, ReportsAssumption DEF Report
  <1>3. rep.attempts < MaxAttempts
    BY ReportsAssumption
  <1>4. pending' = [pending EXCEPT ![q] = new]
    BY DEF Enqueue
  <1> HIDE DEF n, rep
  <1>5. new \in [Keys -> Report]
    BY <1>2, NoReportType DEF PendingTypes
  <1>6. \A x \in Keys : new[x].attempts < MaxAttempts
    BY <1>3, NoReportType DEF PendingTypes
  <1> HIDE DEF new
  <1>7. PendingTypes'
    <2>1. \A p \in QueueIds : pending'[p] = IF p = q THEN new ELSE pending[p]
      BY <1>4 DEF PendingTypes
    <2>2. pending' \in [QueueIds -> [Keys -> Report]]
      BY <1>4, <1>5 DEF PendingTypes
    <2>3. QED
      BY <1>6, <2>1, <2>2 DEF PendingTypes
  <1>8. latest' \in [QueueIds -> [Keys -> Nat]]
    BY <1>1 DEF Enqueue, BookTypes, n
  <1>9. sequence' \in [QueueIds -> Nat]
    BY <1>1 DEF Enqueue, BookTypes, n
  <1>10. excused' \in SUBSET Keys
    BY DEF Enqueue, OtherTypes
  <1>11. QED
    BY <1>7, <1>8, <1>9, <1>10

\* A callback that ends its report is idle or goes on with the speaker.
LEMMA MoveOnTypes ==
  ASSUME CallbackTypes, NEW c \in Callbacks, MoveOn(c)
  PROVE  CallbackTypes'
  <1> DEFINE r   == callbacks[c]
             new == IF r.speaker THEN [r EXCEPT !.pc = "wait", !.key = Speaker,
                                               !.speaker = FALSE, !.queue = 0]
                    ELSE Idle
  <1>1. Idle \in Callback /\ Idle.pc = "idle"
    BY ReportsAssumption DEF Idle, Callback
  <1>2. r \in Callback
    BY DEF CallbackTypes
  <1>3. [r EXCEPT !.pc = "wait", !.key = Speaker, !.speaker = FALSE,
                  !.queue = 0] \in Callback
    <2>1. 0 \in 0..MaxQueues
      BY ReportsAssumption
    <2>2. FALSE \in BOOLEAN
      BY Zenon
    <2>3. QED
      BY <1>2, <2>1, <2>2 DEF Callback, Keys, State
  <1>4. new \in Callback
    BY <1>1, <1>3
  <1>5. /\ new.pc \in {"idle", "wait"}
        /\ new.pc # "idle" => new.key \in Keys
    BY <1>1, <1>2 DEF Callback, Keys, State
  <1>6. callbacks' = [callbacks EXCEPT ![c] = new]
    BY DEF MoveOn
  <1> HIDE DEF new
  <1>7. QED
    BY <1>4, <1>5, <1>6 DEF CallbackTypes

\* A callback that begins a report has the key of the report.
LEMMA ReportingTypes ==
  ASSUME ManagerTypes, CallbackTypes, NEW c \in Callbacks, NEW k \in Keys,
         NEW speaker \in BOOLEAN, NEW rev \in Nat,
         Reporting(c, k, speaker, rev)
  PROVE  CallbackTypes'
  <1> DEFINE new == [pc |-> "wait", key |-> k, speaker |-> speaker,
                     job |-> job, gen |-> reconnectGeneration, rev |-> rev,
                     version |-> 0, queue |-> 0]
  <1>1. new \in Callback
    BY ReportsAssumption DEF ManagerTypes, Callback
  <1>2. new.pc = "wait" /\ new.key = k
    OBVIOUS
  <1>3. callbacks' = [callbacks EXCEPT ![c] = new]
    BY DEF Reporting
  <1> HIDE DEF new
  <1>4. QED
    BY <1>1, <1>2, <1>3 DEF CallbackTypes

\* A loop that goes to sleep has nothing in hand.
LEMMA SleepTypes ==
  ASSUME LoopTypes, NEW q \in QueueIds, Sleep(q)
  PROVE  LoopTypes'
  <1>1. Asleep \in Loop /\ Asleep.pc = "idle"
    BY ReportsAssumption DEF Asleep, Loop
  <1>2. QED
    BY <1>1 DEF LoopTypes, Sleep

\* What the Worker applies has a version.
LEMMA PostTypes ==
  ASSUME OtherTypes, NEW k \in Keys, NEW v \in Nat, NEW applied, NEW result,
         Post(k, v, applied, result)
  PROVE  /\ seen' \in [State -> Nat] /\ delivered' \in SUBSET Chats
         /\ confirmed' \in Nat
  BY DEF OtherTypes, Post, Apply

\* Discord events keep the types.
LEMMA EventTypes ==
  ASSUME Typed, NEW c \in Callbacks, Event(c)
  PROVE  Typed'
  <1> USE ReportsAssumption
  <1>1. ASSUME NEW speaker \in BOOLEAN, Changes(c, speaker) PROVE Typed'
    <2>1. /\ participantStateRevision + 1 \in Nat
          /\ version' \in Nat /\ inputs' \in Nat
          /\ excused' \in SUBSET Keys
      BY <1>1 DEF Changes, Input, Typed, ManagerTypes, OtherTypes
    <2>2. /\ participantStateRevision' = participantStateRevision + 1
          /\ UNCHANGED <<manager, received, queues, loops, worker>>
          /\ Reporting(c, Participants, speaker, participantStateRevision + 1)
      BY <1>1 DEF Changes
    <2>3. CallbackTypes'
      BY <2>1, <2>2, ReportingTypes DEF Typed, Keys, State
    <2>4. QED
      BY <2>1, <2>2, <2>3 DEF Typed, ManagerTypes, PendingTypes, BookTypes,
           LoopTypes, OtherTypes, manager, queues, worker
  <1>2. CASE ParticipantChanged(c) \/ ParticipantsSynced(c)
               \/ SetSpeakerState(c)
    <2>1. \E speaker \in BOOLEAN : Changes(c, speaker)
      BY <1>2, Zenon DEF ParticipantChanged, ParticipantsSynced,
           SetSpeakerState
    <2>2. QED
      BY <1>1, <2>1
  <1>3. CASE ClearSpeakers(c)
    <2>1. /\ participantStateRevision + 1 \in Nat
          /\ version' \in Nat /\ inputs' \in Nat
          /\ excused' \in SUBSET Keys
      BY <1>3 DEF ClearSpeakers, Input, Typed, ManagerTypes, OtherTypes
    <2>2. /\ participantStateRevision' = participantStateRevision + 1
          /\ UNCHANGED <<manager, received, queues, loops, worker>>
          /\ Reporting(c, Participants, TRUE, participantStateRevision + 1)
      BY <1>3 DEF ClearSpeakers
    <2>3. TRUE \in BOOLEAN
      BY Zenon
    <2>4. CallbackTypes'
      BY <2>1, <2>2, <2>3, ReportingTypes DEF Typed, Keys, State
    <2>5. QED
      BY <2>1, <2>2, <2>4 DEF Typed, ManagerTypes, PendingTypes, BookTypes,
           LoopTypes, OtherTypes, manager, queues, worker
  <1>4. CASE Replays(c)
    <2>1. /\ inputs' \in Nat
          /\ UNCHANGED <<manager, content, queues, loops, worker, excused>>
      BY <1>4 DEF Replays, Input, Typed, ManagerTypes
    <2>2. /\ FALSE \in BOOLEAN
          /\ Reporting(c, Participants, FALSE, participantStateRevision)
      BY <1>4, Zenon DEF Replays
    <2>3. CallbackTypes'
      BY <2>2, ReportingTypes DEF Typed, ManagerTypes, Keys, State
    <2>4. QED
      BY <2>1, <2>3 DEF Typed, ManagerTypes, PendingTypes, BookTypes,
           LoopTypes, OtherTypes, manager, content, queues, worker
  <1>5. ASSUME NEW chat \in Chats, ChatReceived(c, chat) PROVE Typed'
    <2>1. /\ inputs' \in Nat
          /\ received' \in SUBSET Chats
          /\ excused' \in SUBSET Keys
          /\ UNCHANGED <<manager, participantStateRevision, version, queues,
                         loops, worker>>
      BY <1>5 DEF ChatReceived, Input, Typed, ManagerTypes, OtherTypes
    <2>2. /\ FALSE \in BOOLEAN
          /\ Reporting(c, chat, FALSE, participantStateRevision)
      BY <1>5, Zenon DEF ChatReceived
    <2>3. CallbackTypes'
      BY <2>2, ReportingTypes DEF Typed, ManagerTypes, Keys
    <2>4. QED
      BY <2>1, <2>3 DEF Typed, ManagerTypes, PendingTypes, BookTypes,
           LoopTypes, OtherTypes, manager, queues, worker
  <1>6. QED
    BY <1>2, <1>3, <1>4, <1>5 DEF Event

\* The steps of a callback keep the types.
LEMMA CallbackStepTypes ==
  ASSUME Typed, NEW c \in Callbacks, CallbackStep(c)
  PROVE  Typed'
  <1> DEFINE r == callbacks[c]
  <1>1. r \in Callback
    BY DEF Typed, CallbackTypes
  <1>2. CASE Enter(c)
    <2>1. UNCHANGED <<manager, content, queues, loops, worker, excused,
                      inputs>>
      BY <1>2 DEF Enter
    <2>2. CASE MoveOn(c)
      BY <2>1, <2>2, MoveOnTypes DEF Typed, ManagerTypes, PendingTypes,
           BookTypes, LoopTypes, OtherTypes, manager, content, queues, worker
    <2>3. CASE callbacks' = [callbacks EXCEPT ![c].pc = "publish",
                                              ![c].version = version]
      <3>1. [r EXCEPT !.pc = "publish", !.version = version] \in Callback
        BY <1>1 DEF Callback, Inside, Typed, ManagerTypes
      <3>2. r.key \in Keys
        BY <1>2 DEF Enter, Typed, CallbackTypes
      <3>3. CallbackTypes'
        BY <1>1, <2>3, <3>1, <3>2 DEF CallbackTypes, Typed, Callback
      <3>4. QED
        BY <2>1, <3>3 DEF Typed, ManagerTypes, PendingTypes, BookTypes,
             LoopTypes, OtherTypes, manager, content, queues, worker
    <2>4. QED
      BY <1>2, <2>2, <2>3 DEF Enter
  <1>3. ASSUME NEW applied \in BOOLEAN, NEW result \in Results,
               Publish(c, applied, result)
        PROVE  Typed'
    <2>1. /\ UNCHANGED <<manager, content, queues, loops, inputs>>
          /\ r.pc = "publish"
          /\ Post(r.key, r.version, applied, result)
      BY <1>3 DEF Publish
    <2>2. r.key \in Keys /\ r.version \in Nat
      BY <1>1, <2>1 DEF Typed, CallbackTypes, Callback
    <2>3. /\ seen' \in [State -> Nat] /\ delivered' \in SUBSET Chats
          /\ confirmed' \in Nat
      BY <2>1, <2>2, PostTypes DEF Typed
    <2>4. CASE /\ result \in {"done", "failed"}
               /\ callbacks' = [callbacks EXCEPT ![c].pc = result]
               /\ UNCHANGED excused
      <3>1. CallbackTypes'
        BY <1>1, <2>2, <2>4 DEF Typed, CallbackTypes, Callback, Inside
      <3>2. QED
        BY <2>1, <2>3, <2>4, <3>1 DEF Typed, ManagerTypes, PendingTypes,
             BookTypes, LoopTypes, OtherTypes, manager, content, queues
    <2>5. CASE MoveOn(c) /\ excused' = excused \cup {r.key}
      <3>1. excused' \in SUBSET Keys
        BY <2>2, <2>5 DEF Typed, OtherTypes
      <3>2. QED
        BY <2>1, <2>3, <2>5, <3>1, MoveOnTypes DEF Typed, ManagerTypes,
             PendingTypes, BookTypes, LoopTypes, OtherTypes, manager, content,
             queues
    <2>6. QED
      BY <1>3, <2>4, <2>5, Zenon DEF Publish
  <1>4. CASE Lookup(c)
    <2>1. UNCHANGED <<manager, content, queues, loops, worker, excused,
                      inputs>>
      BY <1>4 DEF Lookup
    <2>2. CASE MoveOn(c)
      BY <2>1, <2>2, MoveOnTypes DEF Typed, ManagerTypes, PendingTypes,
           BookTypes, LoopTypes, OtherTypes, manager, content, queues, worker
    <2>3. CASE /\ workerRetry # 0
               /\ callbacks' = [callbacks EXCEPT
                    ![c].pc = IF r.pc = "done" THEN "supersede" ELSE "enqueue",
                    ![c].queue = workerRetry]
      <3> DEFINE pc == IF r.pc = "done" THEN "supersede" ELSE "enqueue"
      <3>1. pc \in Inside
        BY DEF Inside
      <3>2. r.key \in Keys
        BY <1>4 DEF Lookup, Typed, CallbackTypes
      <3> DEFINE new == [r EXCEPT !.pc = pc, !.queue = workerRetry]
      <3>3. callbacks' = [callbacks EXCEPT ![c] = new]
        BY <2>3
      <3> HIDE DEF pc
      <3>4. /\ new \in Callback
            /\ new.key = r.key
            /\ new.queue = workerRetry
        BY <1>1, <3>1 DEF Callback, Typed, ManagerTypes
      <3> HIDE DEF new
      <3>5. CallbackTypes'
        BY <2>3, <3>2, <3>3, <3>4 DEF CallbackTypes, Typed
      <3>6. QED
        BY <2>1, <3>5 DEF Typed, ManagerTypes, PendingTypes, BookTypes,
             LoopTypes, OtherTypes, manager, content, queues, worker
    <2>4. QED
      BY <1>4, <2>2, <2>3, Zenon DEF Lookup
  <1>5. CASE Supersede(c)
    <2> DEFINE q == r.queue
               k == r.key
    <2>1. q \in QueueIds /\ k \in Keys
      BY <1>1, <1>5, ReportsAssumption DEF Supersede, Typed, CallbackTypes,
           Callback, QueueIds
    <2>2. CallbackTypes'
      BY <1>5, MoveOnTypes DEF Supersede, Typed
    <2>3. UNCHANGED <<manager, content, sequence, stopped, loops, worker,
                      excused, inputs>>
      BY <1>5 DEF Supersede
    <2>4. PendingTypes' /\ latest' \in [QueueIds -> [Keys -> Nat]]
      <3>1. CASE Put(q, k, NoReport) /\ Mark(q, k, 0)
        <4> HIDE DEF q, k
        <4>1. QED
          BY <2>1, <3>1, NoReportType, PutTypes, MarkTypes DEF Typed
      <3>2. CASE UNCHANGED <<pending, latest>>
        BY <3>2 DEF Typed, PendingTypes, BookTypes
      <3>3. QED
        BY <1>5, <3>1, <3>2, Zenon DEF Supersede
    <2>5. QED
      BY <2>2, <2>3, <2>4 DEF Typed, ManagerTypes, BookTypes, LoopTypes,
           OtherTypes, manager, content, worker
  <1>6. CASE EnqueueReport(c)
    <2> DEFINE q == r.queue
               k == r.key
    <2>1. q \in QueueIds /\ k \in Keys
      BY <1>1, <1>6, ReportsAssumption DEF EnqueueReport, Typed, CallbackTypes,
           Callback, QueueIds
    <2>2. CallbackTypes'
      BY <1>6, MoveOnTypes DEF EnqueueReport, Typed
    <2>3. UNCHANGED <<manager, content, stopped, loops, worker, inputs>>
      BY <1>6 DEF EnqueueReport
    <2>4. /\ PendingTypes'
          /\ latest' \in [QueueIds -> [Keys -> Nat]]
          /\ sequence' \in [QueueIds -> Nat]
          /\ excused' \in SUBSET Keys
      <3>0. r.version \in Nat
        BY <1>1 DEF Callback
      <3>1. ASSUME NEW d \in Keys \cup {NoKey}, Enqueue(q, k, r.version, d)
            PROVE  /\ PendingTypes'
                   /\ latest' \in [QueueIds -> [Keys -> Nat]]
                   /\ sequence' \in [QueueIds -> Nat]
                   /\ excused' \in SUBSET Keys
        <4> HIDE DEF q, k, r
        <4>1. QED
          BY <2>1, <3>0, <3>1, EnqueueTypes DEF Typed
      <3>2. CASE /\ \/ excused' = excused
                    \/ excused' = excused \cup ({k} \cap Chats)
                 /\ UNCHANGED <<pending, latest, sequence>>
        BY <2>1, <3>2 DEF Typed, PendingTypes, BookTypes, OtherTypes
      <3>3. QED
        BY <1>6, <3>1, <3>2, Zenon DEF EnqueueReport
    <2>5. QED
      BY <2>2, <2>3, <2>4 DEF Typed, ManagerTypes, BookTypes, LoopTypes,
           OtherTypes, manager, content, worker
  <1>7. QED
    BY <1>2, <1>3, <1>4, <1>5, <1>6 DEF CallbackStep

\* stopAndWait and the steps of the retry loop keep the types.
LEMMA LoopStepTypes ==
  ASSUME Typed, NEW q \in QueueIds, StopQueue(q) \/ LoopStep(q)
  PROVE  Typed'
  <1> DEFINE r == loops[q]
  <1>1. r \in Loop
    BY DEF Typed, LoopTypes
  <1>2. CASE StopQueue(q)
    <2>1. UNCHANGED <<job, jobsMade, stopping, disconnected,
                      reconnectGeneration, workerRetry, queuesMade, after,
                      stopper, rejoins, content, sequence, loops, callbacks,
                      worker, excused, inputs>>
      BY <1>2 DEF StopQueue
    <2>2. ManagerTypes'
      BY <1>2, <2>1 DEF StopQueue, Typed, ManagerTypes, content
    <2>3. PendingTypes'
      BY <1>2, NoReportType DEF StopQueue, Typed, PendingTypes
    <2>4. stopped' \in [QueueIds -> BOOLEAN]
      <3>1. TRUE \in BOOLEAN
        BY Zenon
      <3>2. stopped' = [stopped EXCEPT ![q] = TRUE]
        BY <1>2 DEF StopQueue
      <3>3. QED
        BY <3>1, <3>2 DEF Typed, BookTypes
    <2>5. latest' \in [QueueIds -> [Keys -> Nat]]
      BY <1>2 DEF StopQueue, Typed, BookTypes
    <2>6. QED
      BY <2>1, <2>2, <2>3, <2>4, <2>5 DEF Typed, BookTypes, CallbackTypes,
           LoopTypes, OtherTypes, worker, content
  <1>3. ASSUME NEW k \in Keys, Takes(q, k) PROVE Typed'
    <2> DEFINE new == [pc |-> "taken", key |-> k, seq |-> pending[q][k].seq,
                       attempts |-> pending[q][k].attempts,
                       version |-> pending[q][k].version]
    <2>1. UNCHANGED <<manager, content, latest, sequence, stopped, callbacks,
                      worker, excused, inputs>>
      BY <1>3 DEF Takes
    <2>2. PendingTypes'
      BY <1>3, NoReportType, PutTypes DEF Takes, Typed
    <2>3. new \in Loop /\ new.key = k /\ new.attempts < MaxAttempts
      BY DEF Typed, PendingTypes, Report, Loop
    <2>4. loops' = [loops EXCEPT ![q] = new]
      BY <1>3 DEF Takes
    <2> HIDE DEF new
    <2>5. LoopTypes'
      BY <2>3, <2>4 DEF Typed, LoopTypes
    <2>6. QED
      BY <2>1, <2>2, <2>5 DEF Typed, ManagerTypes, BookTypes, CallbackTypes,
           OtherTypes, manager, content, worker
  <1>4. CASE Drops(q)
    <2>1. UNCHANGED <<manager, content, sequence, stopped, callbacks, worker,
                      excused, inputs>>
      BY <1>4 DEF Drops
    <2>2. LoopTypes'
      BY <1>4, SleepTypes DEF Drops, Typed
    <2>3. r.key \in Keys
      BY <1>4 DEF Drops, Typed, LoopTypes
    <2>4. PendingTypes' /\ latest' \in [QueueIds -> [Keys -> Nat]]
      <3>1. CASE Put(q, r.key, NoReport) /\ Mark(q, r.key, 0)
        BY <2>3, <3>1, NoReportType, PutTypes, MarkTypes DEF Typed
      <3>2. CASE UNCHANGED <<pending, latest>>
        BY <3>2 DEF Typed, PendingTypes, BookTypes
      <3>3. QED
        BY <1>4, <3>1, <3>2, Zenon DEF Drops
    <2>5. QED
      BY <2>1, <2>2, <2>4 DEF Typed, ManagerTypes, BookTypes, CallbackTypes,
           OtherTypes, manager, content, worker
  <1>5. CASE Refreshes(q)
    <2> DEFINE new == [r EXCEPT !.pc = "publish", !.version = Refreshed(r),
                                !.attempts = r.attempts + 1]
    <2>1. UNCHANGED <<manager, content, queues, callbacks, worker, excused,
                      inputs>>
      BY <1>5 DEF Refreshes
    <2>2. r.key \in Keys /\ r.attempts < MaxAttempts
      BY <1>5 DEF Refreshes, Typed, LoopTypes
    <2>3. r.attempts + 1 \in 0..MaxAttempts
      BY <1>1, <2>2, ReportsAssumption DEF Loop
    <2>4. new \in Loop
      BY <1>1, <2>3 DEF Typed, ManagerTypes, Loop, Refreshed
    <2>5. new.key = r.key /\ new.pc = "publish"
      BY <1>1 DEF Loop
    <2>6. loops' = [loops EXCEPT ![q] = new]
      BY <1>5 DEF Refreshes
    <2> HIDE DEF new
    <2>7. LoopTypes'
      BY <2>2, <2>4, <2>5, <2>6 DEF Typed, LoopTypes
    <2>8. QED
      BY <2>1, <2>7 DEF Typed, ManagerTypes, PendingTypes, BookTypes,
           CallbackTypes, OtherTypes, manager, content, queues, worker
  <1>6. ASSUME NEW applied \in BOOLEAN, NEW result \in Results,
               Retries(q, applied, result)
        PROVE  Typed'
    <2>1. /\ UNCHANGED <<manager, content, sequence, stopped, callbacks,
                         inputs>>
          /\ r.pc = "publish"
          /\ Post(r.key, r.version, applied, result)
          /\ Sleep(q)
      BY <1>6 DEF Retries
    <2>2. r.key \in Keys /\ r.version \in Nat
      BY <1>1, <2>1 DEF Typed, LoopTypes, Loop
    <2>3. /\ seen' \in [State -> Nat] /\ delivered' \in SUBSET Chats
          /\ confirmed' \in Nat
      BY <2>1, <2>2, PostTypes DEF Typed
    <2>4. LoopTypes'
      BY <2>1, SleepTypes DEF Typed
    <2>5. /\ PendingTypes'
          /\ latest' \in [QueueIds -> [Keys -> Nat]]
          /\ excused' \in SUBSET Keys
      <3>1. CASE /\ Again(q, result)
                 /\ Put(q, r.key, [seq |-> r.seq, attempts |-> r.attempts,
                                   version |-> r.version])
                 /\ UNCHANGED <<latest, excused>>
        <4>1. /\ [seq |-> r.seq, attempts |-> r.attempts,
                  version |-> r.version] \in Report
              /\ [seq |-> r.seq, attempts |-> r.attempts,
                  version |-> r.version].attempts < MaxAttempts
          BY <1>1, <3>1 DEF Loop, Report, Again
        <4>2. PendingTypes'
          BY <2>2, <3>1, <4>1, PutTypes DEF Typed
        <4>3. QED
          BY <3>1, <4>2 DEF Typed, BookTypes, OtherTypes
      <3>2. CASE /\ Put(q, r.key, NoReport)
                 /\ Mark(q, r.key, 0)
                 /\ excused' = IF result = "done" THEN excused
                               ELSE excused \cup {r.key}
        <4>1. PendingTypes' /\ latest' \in [QueueIds -> [Keys -> Nat]]
          BY <2>2, <3>2, NoReportType, PutTypes, MarkTypes DEF Typed
        <4>2. excused' \in SUBSET Keys
          BY <2>2, <3>2 DEF Typed, OtherTypes
        <4>3. QED
          BY <4>1, <4>2
      <3>3. CASE UNCHANGED <<pending, latest, excused>>
        BY <3>3 DEF Typed, PendingTypes, BookTypes, OtherTypes
      <3>4. QED
        BY <1>6, <3>1, <3>2, <3>3, Zenon DEF Retries
    <2>6. QED
      BY <2>1, <2>3, <2>4, <2>5 DEF Typed, ManagerTypes, BookTypes,
           CallbackTypes, OtherTypes, manager, content
  <1>7. CASE Ends(q)
    <2>1. UNCHANGED <<manager, content, queues, callbacks, worker, excused,
                      inputs>>
      BY <1>7 DEF Ends
    <2>2. LoopTypes'
      BY <1>1, <1>7 DEF Ends, Typed, LoopTypes, Loop
    <2>3. QED
      BY <2>1, <2>2 DEF Typed, ManagerTypes, PendingTypes, BookTypes,
           CallbackTypes, OtherTypes, manager, content, queues, worker
  <1>8. QED
    BY <1>2, <1>3, <1>4, <1>5, <1>6, <1>7 DEF LoopStep

\* Every step keeps the types.
THEOREM NextTypeOK == TypeOK /\ [Next]_vars => TypeOK'
  <1> SUFFICES ASSUME Typed, [Next]_vars PROVE Typed'
    BY Types
  <1>1. CASE \/ StartCommit \/ StopBegin \/ StopFails \/ StopFinish
             \/ \E rejoin \in BOOLEAN : DiscordDisconnected(rejoin)
             \/ DiscordConnected
             \/ \E g \in rejoins : Rejoined(g) \/ RejoinEnds(g)
    <2>1. /\ ManagerTypes' /\ OtherTypes'
          /\ UNCHANGED <<queues, loops, callbacks, worker>>
      BY <1>1, ManagerSteps DEF Typed
    <2>2. QED
      BY <2>1 DEF Typed, PendingTypes, BookTypes, CallbackTypes, LoopTypes,
           queues
  <1>2. CASE UNCHANGED vars
    BY <1>2 DEF vars, manager, content, queues, worker, Typed, ManagerTypes,
         PendingTypes, BookTypes, CallbackTypes, LoopTypes, OtherTypes
  <1>3. QED
    BY <1>1, <1>2, EventTypes, CallbackStepTypes, LoopStepTypes DEF Next

\* Every reachable state of the reports and their queues has its types, for
\* any number of callbacks and queues: in particular no report is attempted
\* more than maxWorkerEventRetryAttempts times by a retry loop.
THEOREM TypeCorrect == Spec => []TypeOK
  BY InitTypeOK, NextTypeOK, PTL DEF Spec

-----------------------------------------------------------------------------
(* participantReportMu, and the order in which the Worker sees reports.    *)

\* The Manager and the events never make the participant state older.
LEMMA VersionGrows ==
  ASSUME Typed, [Next]_vars
  PROVE  version' \in Nat /\ version <= version'
  <1>1. version \in Nat
    BY DEF Typed, ManagerTypes
  <1>2. version' = version \/ version' = version + 1
    BY DEF Next, StartCommit, StopBegin, StopFails, StopFinish,
         DiscordDisconnected, DiscordConnected, Rejoined, RejoinEnds, Event,
         ParticipantChanged, ParticipantsSynced, SetSpeakerState, Changes,
         ClearSpeakers, Replays, ChatReceived, CallbackStep, Enter, Publish,
         Lookup, Supersede, EnqueueReport, StopQueue, LoopStep, Takes, Drops,
         Refreshes, Retries, Ends, vars, content
  <1>3. QED
    BY <1>1, <1>2

\* A step of a callback that takes no lock, or holds it and publishes nothing
\* more, keeps the order.
LEMMA CallbackMoves ==
  ASSUME Typed, OrderInv, NEW c \in Callbacks,
         version' \in Nat, version <= version',
         UNCHANGED <<loops, seen>>,
         \A d \in Callbacks : d # c => callbacks'[d] = callbacks[d],
         \/ callbacks'[c].pc \notin Inside
         \/ callbacks[c].pc \in Inside /\ callbacks'[c].pc # "publish"
  PROVE  OrderInv'
  <1>1. "publish" \in Inside
    BY DEF Inside
  <1>2. Exclusive'
    BY DEF OrderInv, Exclusive
  <1>3. /\ version \in Nat
        /\ seen[Participants] \in Nat
        /\ \A d \in Callbacks : callbacks[d].version \in Nat
        /\ \A q \in QueueIds : loops[q].version \in Nat
    BY DEF Typed, ManagerTypes, OtherTypes, CallbackTypes, LoopTypes, Callback,
         Loop, State
  <1>4. InOrder'
    BY <1>1, <1>3 DEF OrderInv, InOrder
  <1>5. QED
    BY <1>2, <1>4 DEF OrderInv

\* A step of a loop that does not come to publish keeps the order.
LEMMA LoopMoves ==
  ASSUME Typed, OrderInv, NEW q \in QueueIds,
         UNCHANGED <<callbacks, seen, version>>,
         \A p \in QueueIds : p # q => loops'[p] = loops[p],
         loops'[q].pc # "publish"
  PROVE  OrderInv'
  BY DEF OrderInv, Exclusive, InOrder

\* A request of the holder of the lock never takes the Worker back.
LEMMA PostForward ==
  ASSUME Typed, NEW k \in Keys, NEW v \in Nat,
         k = Participants => seen[k] <= v /\ v <= version,
         seen[Participants] <= version,
         NEW applied, NEW result, Post(k, v, applied, result)
  PROVE  /\ seen[Participants] <= seen'[Participants]
         /\ seen'[Participants] <= version
  <1>1. Participants \in State /\ seen[Participants] \in Nat
    BY DEF Typed, OtherTypes, State
  <1>2. CASE Apply(k, v)
    BY <1>1, <1>2 DEF Apply
  <1>3. CASE UNCHANGED seen
    BY <1>1, <1>3
  <1>4. QED
    BY <1>2, <1>3 DEF Post

\* Ending a report leaves the lock and concerns one callback.
LEMMA MoveOnFrees ==
  ASSUME Typed, NEW c \in Callbacks, MoveOn(c)
  PROVE  /\ callbacks'[c].pc \notin Inside
         /\ \A d \in Callbacks : d # c => callbacks'[d] = callbacks[d]
  <1>1. callbacks \in [Callbacks -> Callback]
    BY DEF Typed, CallbackTypes
  <1>2. callbacks'[c] =
          IF callbacks[c].speaker
            THEN [callbacks[c] EXCEPT !.pc = "wait", !.key = Speaker,
                                      !.speaker = FALSE, !.queue = 0]
            ELSE Idle
    BY <1>1 DEF MoveOn
  <1>3. callbacks'[c].pc \in {"wait", "idle"}
    BY <1>1, <1>2 DEF Idle, Callback
  <1>4. \A d \in Callbacks : d # c => callbacks'[d] = callbacks[d]
    BY <1>1 DEF MoveOn
  <1>5. QED
    BY <1>3, <1>4 DEF Inside

\* After the holder of the lock has published, everybody else is outside.
LEMMA PublishedOrder ==
  ASSUME Typed, OrderInv, UNCHANGED version,
         seen'[Participants] <= version,
         \A c \in Callbacks : callbacks'[c].pc # "publish",
         \A q \in QueueIds : loops'[q].pc # "publish",
         Exclusive'
  PROVE  OrderInv'
  BY DEF OrderInv, InOrder

\* Every step keeps the lock and the order; none takes the Worker back.
THEOREM NextOrder ==
  TypeOK /\ OrderInv /\ [Next]_vars =>
    OrderInv' /\ seen[Participants] <= seen'[Participants]
  <1> DEFINE Forward == seen[Participants] <= seen'[Participants]
  <1> SUFFICES ASSUME Typed, OrderInv, [Next]_vars PROVE OrderInv' /\ Forward
    BY Types
  <1>1. version \in Nat /\ version' \in Nat /\ version <= version'
    BY VersionGrows DEF Typed, ManagerTypes
  <1>2. /\ callbacks \in [Callbacks -> Callback]
        /\ loops \in [QueueIds -> Loop]
        /\ seen[Participants] \in Nat
    BY DEF Typed, CallbackTypes, LoopTypes, OtherTypes, State
  <1>3. UNCHANGED seen => Forward
    BY <1>2
  <1>4. seen[Participants] <= version
    BY DEF OrderInv, InOrder
  <1> HIDE DEF Forward
  <1>5. ASSUME UNCHANGED <<loops, callbacks, seen>> PROVE OrderInv' /\ Forward
    <2>1. \A c \in Callbacks : callbacks[c].version \in Nat
      BY <1>2 DEF Callback
    <2>2. \A q \in QueueIds : loops[q].version \in Nat
      BY <1>2 DEF Loop
    <2>3. InOrder'
      BY <1>1, <1>2, <1>5, <2>1, <2>2 DEF OrderInv, InOrder
    <2>4. Exclusive'
      BY <1>5 DEF OrderInv, Exclusive
    <2>5. QED
      BY <1>3, <1>5, <2>3, <2>4 DEF OrderInv
  <1>6. ASSUME \/ StartCommit \/ StopBegin \/ StopFails \/ StopFinish
               \/ \E rejoin \in BOOLEAN : DiscordDisconnected(rejoin)
               \/ DiscordConnected
               \/ \E g \in rejoins : Rejoined(g) \/ RejoinEnds(g)
        PROVE  OrderInv' /\ Forward
    BY <1>5, <1>6, ManagerSteps DEF Typed, worker
  <1>7. ASSUME NEW c \in Callbacks, Event(c) PROVE OrderInv' /\ Forward
    <2>1. \E k, speaker, rev : Reporting(c, k, speaker, rev)
      BY <1>7 DEF Event, ParticipantChanged, ParticipantsSynced,
           SetSpeakerState, Changes, ClearSpeakers, Replays, ChatReceived
    <2>2. UNCHANGED <<loops, worker>>
      BY <1>7 DEF Event, ParticipantChanged, ParticipantsSynced,
           SetSpeakerState, Changes, ClearSpeakers, Replays, ChatReceived
    <2>3. /\ callbacks'[c].pc = "wait"
          /\ \A d \in Callbacks : d # c => callbacks'[d] = callbacks[d]
      BY <1>2, <2>1 DEF Reporting
    <2>4. "wait" \notin Inside
      BY DEF Inside
    <2>5. QED
      BY <1>1, <1>3, <2>2, <2>3, <2>4, CallbackMoves DEF worker
  <1>8. ASSUME NEW c \in Callbacks, Enter(c) PROVE OrderInv' /\ Forward
    <2>1. UNCHANGED <<loops, seen, version>> /\ ReportsFree
      BY <1>8 DEF Enter, worker, content
    <2>2. CASE MoveOn(c)
      BY <1>1, <1>3, <2>1, <2>2, MoveOnFrees, CallbackMoves
    <2>3. CASE callbacks' = [callbacks EXCEPT ![c].pc = "publish",
                                              ![c].version = version]
      <3>1. /\ callbacks'[c].pc = "publish"
            /\ callbacks'[c].version = version
            /\ callbacks'[c].key = callbacks[c].key
            /\ \A d \in Callbacks : d # c => callbacks'[d] = callbacks[d]
        BY <1>2, <2>3 DEF Callback
      <3>2. /\ \A d \in Callbacks : callbacks[d].pc \notin Inside
            /\ \A q \in QueueIds : loops[q].pc # "publish"
        BY <2>1 DEF ReportsFree
      <3>3. Exclusive'
        BY <2>1, <3>1, <3>2 DEF Exclusive
      <3>4. "publish" \in Inside
        BY DEF Inside
      <3>5. InOrder'
        BY <1>1, <1>4, <2>1, <3>1, <3>2, <3>4 DEF InOrder
      <3>6. QED
        BY <1>3, <2>1, <3>3, <3>5 DEF OrderInv
    <2>4. QED
      BY <1>8, <2>2, <2>3 DEF Enter
  <1>9. ASSUME NEW c \in Callbacks, NEW applied \in BOOLEAN,
               NEW result \in Results, Publish(c, applied, result)
        PROVE  OrderInv' /\ Forward
    <2> DEFINE r == callbacks[c]
    <2>1. /\ r.pc = "publish" /\ UNCHANGED <<loops, version>>
          /\ Post(r.key, r.version, applied, result)
      BY <1>9 DEF Publish, content
    <2>2. /\ r.key \in Keys /\ r.version \in Nat
          /\ r.key = Participants =>
               seen[r.key] <= r.version /\ r.version <= version
      BY <1>2, <2>1 DEF Typed, CallbackTypes, Callback, OrderInv, InOrder
    <2>3. /\ seen[Participants] <= seen'[Participants]
          /\ seen'[Participants] <= version
      BY <1>4, <2>1, <2>2, PostForward
    <2>4. /\ callbacks'[c].pc # "publish"
          /\ \A d \in Callbacks : d # c => callbacks'[d] = callbacks[d]
      <3>1. CASE /\ result \in {"done", "failed"}
                 /\ callbacks' = [callbacks EXCEPT ![c].pc = result]
        BY <1>2, <3>1 DEF Callback
      <3>2. CASE MoveOn(c)
        BY <3>2, MoveOnFrees DEF Inside
      <3>3. QED
        BY <1>9, <3>1, <3>2 DEF Publish
    <2>5. "publish" \in Inside
      BY DEF Inside
    <2>6. Exclusive'
      BY <2>1, <2>4, <2>5 DEF OrderInv, Exclusive
    <2>7. \A d \in Callbacks : callbacks'[d].pc # "publish"
      BY <2>1, <2>4, <2>5 DEF OrderInv, Exclusive
    <2>8. \A q \in QueueIds : loops'[q].pc # "publish"
      BY <2>1, <2>5 DEF OrderInv, Exclusive
    <2>9. QED
      BY <2>1, <2>3, <2>6, <2>7, <2>8, PublishedOrder DEF Forward
  <1>10. ASSUME NEW c \in Callbacks,
                Lookup(c) \/ Supersede(c) \/ EnqueueReport(c)
         PROVE  OrderInv' /\ Forward
    <2>1. UNCHANGED <<loops, seen, version>>
      BY <1>10 DEF Lookup, Supersede, EnqueueReport, worker, content
    <2>2. callbacks[c].pc \in Inside
      BY <1>10 DEF Lookup, Supersede, EnqueueReport, Inside
    <2>3. CASE MoveOn(c)
      BY <1>1, <1>3, <2>1, <2>3, MoveOnFrees, CallbackMoves
    <2>4. CASE callbacks' = [callbacks EXCEPT
                 ![c].pc = IF callbacks[c].pc = "done" THEN "supersede"
                           ELSE "enqueue",
                 ![c].queue = workerRetry]
      <3>1. /\ callbacks'[c].pc # "publish"
            /\ \A d \in Callbacks : d # c => callbacks'[d] = callbacks[d]
        BY <1>2, <2>4 DEF Callback
      <3>2. QED
        BY <1>1, <1>3, <2>1, <2>2, <3>1, CallbackMoves
    <2>5. QED
      BY <1>10, <2>3, <2>4, Zenon DEF Lookup, Supersede, EnqueueReport
  <1>11. ASSUME NEW q \in QueueIds, StopQueue(q) PROVE OrderInv' /\ Forward
    BY <1>5, <1>11 DEF StopQueue, worker
  <1>12. ASSUME NEW q \in QueueIds,
                (\E k \in Keys : Takes(q, k)) \/ Drops(q) \/ Ends(q)
         PROVE  OrderInv' /\ Forward
    <2>1. UNCHANGED <<callbacks, seen, version>>
      BY <1>12 DEF Takes, Drops, Ends, worker, content
    <2>2. /\ loops'[q].pc # "publish"
          /\ \A p \in QueueIds : p # q => loops'[p] = loops[p]
      BY <1>2, <1>12 DEF Takes, Drops, Ends, Sleep, Asleep, Loop
    <2>3. QED
      BY <1>3, <2>1, <2>2, LoopMoves
  <1>13. ASSUME NEW q \in QueueIds, Refreshes(q) PROVE OrderInv' /\ Forward
    <2>1. UNCHANGED <<callbacks, seen, version>> /\ ReportsFree
      BY <1>13 DEF Refreshes, LoopMayEnter, worker, content
    <2>2. /\ loops'[q].pc = "publish"
          /\ loops'[q].key = Participants => loops'[q].version = version
          /\ \A p \in QueueIds : p # q => loops'[p] = loops[p]
      BY <1>2, <1>13, ReportsAssumption DEF Refreshes, Loop, Refreshed
    <2>3. /\ \A d \in Callbacks : callbacks[d].pc \notin Inside
          /\ \A p \in QueueIds : loops[p].pc # "publish"
      BY <2>1 DEF ReportsFree
    <2>4. "publish" \in Inside
      BY DEF Inside
    <2>5. Exclusive'
      BY <2>1, <2>2, <2>3 DEF Exclusive
    <2>6. InOrder'
      BY <1>1, <1>4, <2>1, <2>2, <2>3, <2>4 DEF InOrder
    <2>7. QED
      BY <1>3, <2>1, <2>5, <2>6 DEF OrderInv
  <1>14. ASSUME NEW q \in QueueIds, NEW applied \in BOOLEAN,
                NEW result \in Results, Retries(q, applied, result)
         PROVE  OrderInv' /\ Forward
    <2> DEFINE r == loops[q]
    <2>1. /\ r.pc = "publish" /\ UNCHANGED <<callbacks, version>>
          /\ Post(r.key, r.version, applied, result)
          /\ Sleep(q)
      BY <1>14 DEF Retries, content
    <2>2. /\ r.key \in Keys /\ r.version \in Nat
          /\ r.key = Participants =>
               seen[r.key] <= r.version /\ r.version <= version
      BY <1>2, <2>1 DEF Typed, LoopTypes, Loop, OrderInv, InOrder
    <2>3. /\ seen[Participants] <= seen'[Participants]
          /\ seen'[Participants] <= version
      BY <1>4, <2>1, <2>2, PostForward
    <2>4. /\ loops'[q].pc # "publish"
          /\ \A p \in QueueIds : p # q => loops'[p] = loops[p]
      BY <1>2, <2>1 DEF Sleep, Asleep
    <2>5. "publish" \in Inside
      BY DEF Inside
    <2>6. /\ \A p \in QueueIds : loops'[p].pc # "publish"
          /\ \A c \in Callbacks : callbacks'[c].pc \notin Inside
      BY <2>1, <2>4 DEF OrderInv, Exclusive
    <2>7. Exclusive'
      BY <2>6 DEF Exclusive
    <2>8. \A c \in Callbacks : callbacks'[c].pc # "publish"
      BY <2>5, <2>6
    <2>9. QED
      BY <2>1, <2>3, <2>6, <2>7, <2>8, PublishedOrder DEF Forward
  <1>15. CASE UNCHANGED vars
    BY <1>5, <1>15 DEF vars, worker
  <1>16. QED
    BY <1>6, <1>7, <1>8, <1>9, <1>10, <1>11, <1>12, <1>13, <1>14, <1>15
       DEF Next, CallbackStep, LoopStep

\* In the first states nobody holds the lock and the Worker has nothing.
LEMMA InitOrder == Init => OrderInv
  <1> SUFFICES ASSUME Init PROVE OrderInv
    OBVIOUS
  <1>1. /\ \A c \in Callbacks : callbacks[c].pc = "idle"
        /\ \A q \in QueueIds : loops[q].pc = "idle"
        /\ seen[Participants] = 0
        /\ version = 0
    BY DEF Init, Idle, Asleep, State
  <1>2. QED
    BY <1>1 DEF OrderInv, Exclusive, InOrder, Inside

-----------------------------------------------------------------------------
(* What waits in a queue: nothing once it is stopped, and never too much.  *)

\* Taking a report out, or putting one in, changes one queue by one key.
LEMMA PutWaits ==
  ASSUME Typed, NEW q \in QueueIds, NEW k \in Keys, NEW r \in Report,
         Put(q, k, r)
  PROVE  /\ Waiting(q)' = IF r.seq = 0 THEN Waiting(q) \ {k}
                          ELSE Waiting(q) \cup {k}
         /\ \A p \in QueueIds : p # q => Waiting(p)' = Waiting(p)
  <1>1. \A p \in QueueIds, x \in Keys :
          pending'[p][x] = IF p = q /\ x = k THEN r ELSE pending[p][x]
    BY DEF Typed, PendingTypes, Put
  <1>2. QED
    BY <1>1 DEF Waiting

\* enqueue replaces the report it drops by the new one.
LEMMA EnqueueWaits ==
  ASSUME Typed, NEW q \in QueueIds, NEW k \in Keys,
         NEW v, NEW d \in Keys \cup {NoKey}, Enqueue(q, k, v, d)
  PROVE  /\ Waiting(q)' = (Waiting(q) \ {d}) \cup {k}
         /\ \A p \in QueueIds : p # q => Waiting(p)' = Waiting(p)
  <1> DEFINE rep == [seq |-> sequence[q] + 1, attempts |-> 0, version |-> v]
             new == [x \in Keys |->
                CASE x = k -> rep
                  [] x = d -> NoReport
                  [] OTHER -> pending[q][x]]
  <1>0. d # k
    BY ReportsAssumption DEF Enqueue, Evict
  <1>1. pending' = [pending EXCEPT ![q] = new]
    BY DEF Enqueue
  <1>2. sequence[q] + 1 # 0 /\ NoReport.seq = 0
    BY DEF Typed, BookTypes, NoReport
  <1>3. \A x \in Keys : new[x].seq # 0 <=>
                         x = k \/ (x # d /\ pending[q][x].seq # 0)
    <2> SUFFICES ASSUME NEW x \in Keys
                 PROVE  new[x].seq # 0 <=>
                          x = k \/ (x # d /\ pending[q][x].seq # 0)
      OBVIOUS
    <2>1. CASE x = k
      <3>1. new[x] = rep
        BY <1>0, <2>1
      <3>2. new[x].seq = sequence[q] + 1
        BY <3>1
      <3>3. QED
        BY <1>2, <2>1, <3>2
    <2>2. CASE x # k /\ x = d
      BY <1>2, <2>2
    <2>3. CASE x # k /\ x # d
      BY <2>3
    <2>4. QED
      BY <2>1, <2>2, <2>3
  <1> HIDE DEF new
  <1>4. \A p \in QueueIds : pending'[p] = IF p = q THEN new ELSE pending[p]
    BY <1>1 DEF Typed, PendingTypes
  <1>5. QED
    BY <1>3, <1>4 DEF Waiting

\* The loop of queue q has a report in hand
InHand(q) == loops[q].pc \in {"taken", "publish"}

\* How a queue may change: not at all, emptied, less a report, with a report
\* enqueued in the place of another, with the report in hand put back
Same(q) ==
  Waiting(q)' = Waiting(q) /\ stopped'[q] = stopped[q] /\ loops'[q] = loops[q]

Emptied(q) == Waiting(q)' = {}

Removed(q) ==
  /\ stopped'[q] = stopped[q]
  /\ \E k \in Keys : /\ Waiting(q)' = Waiting(q) \ {k}
                     /\ InHand(q)' => InHand(q) \/ k \in Waiting(q)

Unloaded(q) ==
  Waiting(q)' = Waiting(q) /\ stopped'[q] = stopped[q]
    /\ (InHand(q)' => InHand(q))

Enqueued(q) ==
  /\ ~stopped[q] /\ stopped'[q] = stopped[q]
  /\ loops'[q] = loops[q]
  /\ \E k \in Keys : \E d \in Evict(q, k) :
       Waiting(q)' = (Waiting(q) \ {d}) \cup {k}

Requeued(q) ==
  /\ ~stopped[q] /\ stopped'[q] = stopped[q]
  /\ InHand(q) /\ ~InHand(q)'
  /\ \E k \in Keys : Waiting(q)' = Waiting(q) \cup {k}

QueueChanges(q) ==
  \/ Same(q) \/ Emptied(q) \/ Removed(q) \/ Unloaded(q) \/ Enqueued(q)
  \/ Requeued(q)

\* There is no other way for a queue to change.
LEMMA QueueStep ==
  ASSUME Typed, [Next]_vars, NEW p \in QueueIds
  PROVE  QueueChanges(p)
  <1>1. ASSUME UNCHANGED <<pending, stopped, loops>> PROVE Same(p)
    BY <1>1 DEF Same, Waiting
  <1>2. ASSUME \/ StartCommit \/ StopBegin \/ StopFails \/ StopFinish
               \/ \E rejoin \in BOOLEAN : DiscordDisconnected(rejoin)
               \/ DiscordConnected
               \/ \E g \in rejoins : Rejoined(g) \/ RejoinEnds(g)
        PROVE  Same(p)
    BY <1>1, <1>2, ManagerSteps DEF Typed, queues
  <1>3. ASSUME NEW c \in Callbacks, Event(c) PROVE Same(p)
    BY <1>1, <1>3 DEF Event, ParticipantChanged, ParticipantsSynced,
         SetSpeakerState, Changes, ClearSpeakers, Replays, ChatReceived, queues
  <1>4. ASSUME NEW c \in Callbacks, NEW applied, NEW result,
               Enter(c) \/ Publish(c, applied, result) \/ Lookup(c)
        PROVE  Same(p)
    BY <1>1, <1>4 DEF Enter, Publish, Lookup, queues
  <1>5. ASSUME NEW c \in Callbacks, Supersede(c) PROVE QueueChanges(p)
    <2> DEFINE q == callbacks[c].queue
               k == callbacks[c].key
    <2>1. q \in QueueIds /\ k \in Keys
      BY <1>5, ReportsAssumption DEF Supersede, Typed, CallbackTypes,
           Callback, QueueIds
    <2>2. UNCHANGED <<stopped, loops>>
      BY <1>5 DEF Supersede
    <2>3. CASE Put(q, k, NoReport)
      <3> HIDE DEF q, k
      <3>1. NoReport.seq = 0
        BY DEF NoReport
      <3>2. \/ p = q /\ Waiting(p)' = Waiting(p) \ {k}
            \/ p # q /\ Waiting(p)' = Waiting(p)
        BY <2>1, <2>3, <3>1, NoReportType, PutWaits
      <3>3. QED
        BY <2>1, <2>2, <3>2 DEF QueueChanges, Same, Removed, InHand
    <2>4. CASE UNCHANGED pending
      BY <1>1, <2>2, <2>4 DEF QueueChanges
    <2>5. QED
      BY <1>5, <2>3, <2>4 DEF Supersede
  <1>6. ASSUME NEW c \in Callbacks, EnqueueReport(c) PROVE QueueChanges(p)
    <2> DEFINE q == callbacks[c].queue
               k == callbacks[c].key
    <2>1. q \in QueueIds /\ k \in Keys
      BY <1>6, ReportsAssumption DEF EnqueueReport, Typed, CallbackTypes,
           Callback, QueueIds
    <2>2. UNCHANGED <<stopped, loops>>
      BY <1>6 DEF EnqueueReport
    <2>3. ASSUME ~stopped[q], NEW d \in Keys \cup {NoKey},
                 Enqueue(q, k, callbacks[c].version, d)
          PROVE  QueueChanges(p)
      <3> HIDE DEF q, k
      <3>1. d \in Evict(q, k)
        BY <2>3 DEF Enqueue
      <3>2. \/ p = q /\ Waiting(p)' = (Waiting(p) \ {d}) \cup {k}
            \/ p # q /\ Waiting(p)' = Waiting(p)
        BY <2>1, <2>3, EnqueueWaits
      <3>3. QED
        BY <2>1, <2>2, <2>3, <3>1, <3>2 DEF QueueChanges, Same, Enqueued
    <2>4. CASE UNCHANGED pending
      BY <1>1, <2>2, <2>4 DEF QueueChanges
    <2>5. QED
      BY <1>6, <2>3, <2>4 DEF EnqueueReport, Accepts
  <1>7. ASSUME NEW q \in QueueIds, StopQueue(q) PROVE QueueChanges(p)
    <2>1. /\ UNCHANGED loops
          /\ pending' = [pending EXCEPT ![q] = [k \in Keys |-> NoReport]]
          /\ stopped' = [stopped EXCEPT ![q] = TRUE]
      BY <1>7 DEF StopQueue
    <2>2. CASE p = q
      <3>1. \A k \in Keys : pending'[p][k] = NoReport
        BY <2>1, <2>2 DEF Typed, PendingTypes
      <3>2. Waiting(p)' = {}
        BY <3>1 DEF Waiting, NoReport
      <3>3. QED
        BY <3>2 DEF QueueChanges, Emptied
    <2>3. CASE p # q
      <3>1. pending'[p] = pending[p] /\ stopped'[p] = stopped[p]
        BY <2>1, <2>3 DEF Typed, PendingTypes, BookTypes
      <3>2. Waiting(p)' = Waiting(p)
        BY <3>1 DEF Waiting
      <3>3. QED
        BY <2>1, <3>1, <3>2 DEF QueueChanges, Same
    <2>4. QED
      BY <2>2, <2>3
  <1>8. ASSUME NEW q \in QueueIds, NEW k \in Keys, Takes(q, k)
        PROVE  QueueChanges(p)
    <2>1. NoReport.seq = 0
      BY DEF NoReport
    <2>2. \/ p = q /\ Waiting(p)' = Waiting(p) \ {k}
          \/ p # q /\ Waiting(p)' = Waiting(p)
      BY <1>8, <2>1, NoReportType, PutWaits DEF Takes
    <2>3. /\ k \in Waiting(q) /\ UNCHANGED stopped
          /\ p # q => loops'[p] = loops[p]
      BY <1>8 DEF Takes, Typed, LoopTypes
    <2>4. QED
      BY <2>2, <2>3 DEF QueueChanges, Same, Removed
  <1>9. ASSUME NEW q \in QueueIds, Drops(q) PROVE QueueChanges(p)
    <2> DEFINE k == loops[q].key
    <2>1. k \in Keys
      BY <1>9 DEF Drops, Typed, LoopTypes
    <2>2. /\ UNCHANGED stopped
          /\ p # q => loops'[p] = loops[p]
          /\ p = q => ~InHand(p)'
      BY <1>9 DEF Drops, Sleep, Asleep, Typed, LoopTypes, InHand
    <2>3. CASE Put(q, k, NoReport)
      <3> HIDE DEF k
      <3>1. NoReport.seq = 0
        BY DEF NoReport
      <3>2. \/ p = q /\ Waiting(p)' = Waiting(p) \ {k}
            \/ p # q /\ Waiting(p)' = Waiting(p)
        BY <2>1, <2>3, <3>1, NoReportType, PutWaits
      <3>3. QED
        BY <2>1, <2>2, <3>2 DEF QueueChanges, Same, Removed
    <2>4. CASE UNCHANGED pending
      <3>1. Waiting(p)' = Waiting(p)
        BY <2>4 DEF Waiting
      <3>2. QED
        BY <2>2, <3>1 DEF QueueChanges, Same, Unloaded
    <2>5. QED
      BY <1>9, <2>3, <2>4 DEF Drops
  <1>10. ASSUME NEW q \in QueueIds, Refreshes(q) \/ Ends(q)
         PROVE  QueueChanges(p)
    <2>1. UNCHANGED <<pending, stopped>>
      BY <1>10 DEF Refreshes, Ends, queues
    <2>2. InHand(p)' => InHand(p)
      BY <1>10 DEF Refreshes, Ends, Typed, LoopTypes, Loop, InHand
    <2>3. Waiting(p)' = Waiting(p)
      BY <2>1 DEF Waiting
    <2>4. QED
      BY <2>1, <2>2, <2>3 DEF QueueChanges, Unloaded
  <1>11. ASSUME NEW q \in QueueIds, NEW applied, NEW result,
                Retries(q, applied, result)
         PROVE  QueueChanges(p)
    <2> DEFINE k == loops[q].key
               r == [seq |-> loops[q].seq, attempts |-> loops[q].attempts,
                     version |-> loops[q].version]
    <2>1. k \in Keys /\ r \in Report
      BY <1>11 DEF Retries, Typed, LoopTypes, Loop, Report
    <2>2. /\ UNCHANGED stopped
          /\ p # q => loops'[p] = loops[p]
          /\ p = q => InHand(p) /\ ~InHand(p)'
      BY <1>11 DEF Retries, Sleep, Asleep, Typed, LoopTypes, InHand
    <2>3. CASE Put(q, k, NoReport)
      <3> HIDE DEF k
      <3>1. NoReport.seq = 0
        BY DEF NoReport
      <3>2. \/ p = q /\ Waiting(p)' = Waiting(p) \ {k}
            \/ p # q /\ Waiting(p)' = Waiting(p)
        BY <2>1, <2>3, <3>1, NoReportType, PutWaits
      <3>3. QED
        BY <2>1, <2>2, <3>2 DEF QueueChanges, Same, Removed
    <2>4. CASE ~stopped[q] /\ Put(q, k, r)
      <3> HIDE DEF k, r
      <3>1. \/ p = q /\ Waiting(p)' = Waiting(p) \ {k}
            \/ p = q /\ Waiting(p)' = Waiting(p) \cup {k}
            \/ p # q /\ Waiting(p)' = Waiting(p)
        BY <2>1, <2>4, PutWaits
      <3>2. QED
        BY <2>1, <2>2, <2>4, <3>1 DEF QueueChanges, Same, Removed, Requeued
    <2>5. CASE UNCHANGED pending
      <3>1. Waiting(p)' = Waiting(p)
        BY <2>5 DEF Waiting
      <3>2. QED
        BY <2>2, <3>1 DEF QueueChanges, Same, Unloaded
    <2>6. QED
      BY <1>11, <2>3, <2>4, <2>5, Zenon DEF Retries, Again
  <1>12. CASE UNCHANGED vars
    BY <1>1, <1>12 DEF vars, queues, QueueChanges
  <1>13. QED
    BY <1>2, <1>3, <1>4, <1>5, <1>6, <1>7, <1>8, <1>9, <1>10, <1>11, <1>12
       DEF Next, CallbackStep, LoopStep, QueueChanges

\* No step puts a report into a stopped queue.
LEMMA NextStopped ==
  TypeOK /\ StoppedIsEmpty /\ [Next]_vars => StoppedIsEmpty'
  <1> SUFFICES ASSUME Typed, StoppedIsEmpty, [Next]_vars, NEW q \in QueueIds,
                      stopped'[q]
               PROVE  Waiting(q)' = {}
    BY Types DEF StoppedIsEmpty
  <1>1. QueueChanges(q)
    BY QueueStep
  <1>2. QED
    BY <1>1 DEF QueueChanges, Same, Emptied, Removed, Unloaded, Enqueued,
         Requeued, StoppedIsEmpty

\* A queue that was stopped is empty, and stays so whoever still held it.
THEOREM StoppedCorrect == Spec => []StoppedIsEmpty
  <1>1. Init => StoppedIsEmpty
    BY DEF Init, StoppedIsEmpty
  <1>2. QED
    BY <1>1, NextStopped, InitTypeOK, NextTypeOK, PTL DEF Spec

\* A full queue without one of the two kinds of state has a chat message.
LEMMA ChatWaits ==
  ASSUME NEW W \in SUBSET Keys, IsFiniteSet(W), Cardinality(W) >= MaxPending,
         NEW k \in State, k \notin W
  PROVE  W \cap Chats # {}
  <1> SUFFICES ASSUME W \cap Chats = {} PROVE FALSE
    OBVIOUS
  <1>1. PICK s : W \subseteq {s}
    BY DEF Keys, State
  <1>2. IsFiniteSet({s}) /\ Cardinality({s}) = 1
    BY FS_Singleton
  <1>3. Cardinality(W) <= 1
    BY <1>1, <1>2, FS_Subset
  <1>4. Cardinality(W) \in Nat
    BY FS_CardinalityType
  <1>5. QED
    BY <1>3, <1>4, ReportsAssumption

\* enqueue never makes a queue longer than the bound, or than it was.
LEMMA EnqueueFits ==
  ASSUME NEW q \in QueueIds, NEW k \in Keys, NEW d \in Evict(q, k),
         IsFiniteSet(Waiting(q))
  PROVE  LET W == (Waiting(q) \ {d}) \cup {k}
         IN  /\ IsFiniteSet(W)
             /\ \/ Cardinality(W) <= MaxPending
                \/ Cardinality(W) <= Cardinality(Waiting(q))
  <1> DEFINE W == Waiting(q)
             V == W \ {d}
  <1>1. W \subseteq Keys
    BY DEF Waiting
  <1>2. NoKey \notin Keys
    BY ReportsAssumption
  <1> HIDE DEF W
  <1>3. IsFiniteSet(W) /\ Cardinality(W) \in Nat
    BY FS_CardinalityType DEF W
  <1>4. IsFiniteSet(V) /\ Cardinality(V) =
          IF d \in W THEN Cardinality(W) - 1 ELSE Cardinality(W)
    BY <1>3, FS_RemoveElement
  <1> HIDE DEF V
  <1>5. IsFiniteSet(V \cup {k}) /\ Cardinality(V \cup {k}) =
          IF k \in V THEN Cardinality(V) ELSE Cardinality(V) + 1
    BY <1>4, FS_AddElement
  <1>6. CASE k \in W
    <2>1. d = NoKey
      BY <1>6 DEF Evict, W
    <2>2. V = W
      BY <1>1, <1>2, <2>1 DEF V
    <2>3. QED
      BY <1>3, <1>5, <1>6, <2>2 DEF W, V
  <1>7. CASE Cardinality(W) < MaxPending
    <2>1. d = NoKey
      BY <1>7 DEF Evict, W
    <2>2. V = W
      BY <1>1, <1>2, <2>1 DEF V
    <2>3. Cardinality(V \cup {k}) <= MaxPending
      BY <1>3, <1>5, <1>7, <2>2, ReportsAssumption
    <2>4. QED
      BY <1>5, <2>3 DEF W, V
  <1>8. CASE k \notin W /\ ~(Cardinality(W) < MaxPending)
    <2>1. d \in W
      BY <1>8 DEF Evict, W
    <2>2. Cardinality(V \cup {k}) <= Cardinality(W)
      BY <1>3, <1>4, <1>5, <2>1
    <2>3. QED
      BY <1>5, <2>2 DEF W, V
  <1>9. QED
    BY <1>6, <1>7, <1>8

\* The bound as an inductive invariant: finite, and one more than the bound
\* only while the loop has nothing in hand
RoomInv == RoomInHand /\ \A q \in QueueIds : IsFiniteSet(Waiting(q))

\* Every step keeps the bound.
THEOREM NextRoom == TypeOK /\ RoomInv /\ [Next]_vars => RoomInv'
  <1> SUFFICES ASSUME Typed, RoomInv, [Next]_vars, NEW q \in QueueIds
               PROVE  /\ IsFiniteSet(Waiting(q)')
                      /\ Cardinality(Waiting(q)') <= MaxPending + 1
                      /\ InHand(q)' => Cardinality(Waiting(q)') <= MaxPending
    BY Types DEF RoomInv, RoomInHand, InHand
  <1> DEFINE W == Waiting(q)
             n == Cardinality(W)
  <1>1. /\ IsFiniteSet(W)
        /\ n \in Nat
        /\ n <= MaxPending + 1
        /\ InHand(q) => n <= MaxPending
    BY FS_CardinalityType DEF RoomInv, RoomInHand, InHand
  <1>2. MaxPending \in Nat
    BY ReportsAssumption
  <1>3. QueueChanges(q)
    BY QueueStep
  <1>4. loops'[q] = loops[q] => (InHand(q)' <=> InHand(q))
    BY DEF InHand
  <1>5. CASE Same(q) \/ Unloaded(q)
    BY <1>1, <1>4, <1>5 DEF Same, Unloaded
  <1>6. CASE Emptied(q)
    <2>1. Waiting(q)' = {}
      BY <1>6 DEF Emptied
    <2>2. QED
      BY <1>2, <2>1, FS_EmptySet
  <1>7. CASE Removed(q)
    <2>1. PICK k \in Keys : /\ Waiting(q)' = W \ {k}
                            /\ InHand(q)' => InHand(q) \/ k \in W
      BY <1>7 DEF Removed
    <2>2. /\ IsFiniteSet(W \ {k})
          /\ Cardinality(W \ {k}) = IF k \in W THEN n - 1 ELSE n
      BY <1>1, FS_RemoveElement
    <2> HIDE DEF W, n
    <2>3. QED
      BY <1>1, <1>2, <2>1, <2>2
  <1>8. CASE Enqueued(q)
    <2>1. PICK k \in Keys : \E d \in Evict(q, k) :
                              Waiting(q)' = (W \ {d}) \cup {k}
      BY <1>8 DEF Enqueued
    <2>2. PICK d \in Evict(q, k) : Waiting(q)' = (W \ {d}) \cup {k}
      BY <2>1
    <2>3. /\ IsFiniteSet((W \ {d}) \cup {k})
          /\ \/ Cardinality((W \ {d}) \cup {k}) <= MaxPending
             \/ Cardinality((W \ {d}) \cup {k}) <= n
      BY <1>1, EnqueueFits
    <2>4. Cardinality((W \ {d}) \cup {k}) \in Nat
      BY <2>3, FS_CardinalityType
    <2>5. InHand(q)' => InHand(q)
      BY <1>4, <1>8 DEF Enqueued
    <2> HIDE DEF W, n
    <2>6. QED
      BY <1>1, <1>2, <2>2, <2>3, <2>4, <2>5
  <1>9. CASE Requeued(q)
    <2>1. PICK k \in Keys : Waiting(q)' = W \cup {k}
      BY <1>9 DEF Requeued
    <2>2. InHand(q) /\ ~InHand(q)'
      BY <1>9 DEF Requeued
    <2>3. /\ IsFiniteSet(W \cup {k})
          /\ Cardinality(W \cup {k}) = IF k \in W THEN n ELSE n + 1
      BY <1>1, FS_AddElement
    <2> HIDE DEF W, n
    <2>4. QED
      BY <1>1, <1>2, <2>1, <2>2, <2>3
  <1>10. QED
    BY <1>3, <1>5, <1>6, <1>7, <1>8, <1>9 DEF QueueChanges

\* In the first states nothing waits.
LEMMA InitRoom == Init => RoomInv
  <1> SUFFICES ASSUME Init PROVE RoomInv
    OBVIOUS
  <1>1. \A q \in QueueIds : Waiting(q) = {}
    BY DEF Init, Waiting, NoReport
  <1>2. QED
    BY <1>1, FS_EmptySet, ReportsAssumption DEF RoomInv, RoomInHand

\* State reports are never refused: a full queue finds a chat message to drop.
LEMMA StateFits ==
  ASSUME RoomInv, NEW q \in QueueIds, NEW k \in State
  PROVE  Evict(q, k) # {}
  <1>1. IsFiniteSet(Waiting(q)) /\ Waiting(q) \in SUBSET Keys
    BY DEF RoomInv, Waiting
  <1>2. Cardinality(Waiting(q)) \in Nat
    BY <1>1, FS_CardinalityType
  <1>3. CASE k \in Waiting(q) \/ Cardinality(Waiting(q)) < MaxPending
    BY <1>3 DEF Evict
  <1>4. CASE ~(k \in Waiting(q) \/ Cardinality(Waiting(q)) < MaxPending)
    <2>1. Cardinality(Waiting(q)) >= MaxPending /\ k \notin Waiting(q)
      BY <1>2, <1>4, ReportsAssumption
    <2>2. Evict(q, k) = Waiting(q) \cap Chats
      BY <1>4 DEF Evict
    <2>3. QED
      BY <1>1, <2>1, <2>2, ChatWaits
  <1>5. QED
    BY <1>3, <1>4

-----------------------------------------------------------------------------
(* Nothing is forgotten in silence.                                        *)

\* The reports that are owed to the Worker whatever happens: a speaker report
\* gives way to a newer revision, participants and chat messages do not
Owed == Keys \ {Speaker}

\* The Worker has what there is to know under key k
Known(k) == IF k \in Chats THEN k \in delivered ELSE seen[k] = version

\* A callback of this connection is going to read what there is under key k
Asked(k) ==
  \E c \in Callbacks :
    /\ callbacks[c].key = k
    /\ callbacks[c].pc = "wait"
    /\ callbacks[c].gen = reconnectGeneration

Coming(k) == k \in excused \/ Asked(k)

\* A callback that carries the generation of the connection carries its job:
\* the job changes only together with the generation.
Fresh ==
  \A c \in Callbacks : callbacks[c].pc # "idle" =>
    /\ callbacks[c].gen <= reconnectGeneration
    /\ callbacks[c].gen = reconnectGeneration /\ job # 0 =>
         callbacks[c].job = job

\* A live job has a queue, and whoever holds that queue found it under the
\* generation that is still current.
Installed ==
  /\ Live => workerRetry # 0
  /\ workerRetry <= queuesMade
  /\ \A c \in Callbacks :
       /\ callbacks[c].queue <= queuesMade
       /\ /\ callbacks[c].pc \in {"supersede", "enqueue"}
          /\ callbacks[c].queue = workerRetry
          => callbacks[c].gen = reconnectGeneration

\* A report that waits is the latest of its key, and a loop has a number in
\* hand.
Numbered ==
  /\ \A q \in QueueIds, k \in Keys :
       pending[q][k].seq # 0 => pending[q][k].seq = latest[q][k]
  /\ \A q \in QueueIds : InHand(q) => loops[q].seq # 0

\* What the holder of participantReportMu may rely on.  A publication that is
\* under way has the newest participants, or a callback waits that is going to
\* read them; a report that was published, or that goes to a queue that has
\* been replaced, is not the last word on its key.
Obliged(c) ==
  LET r == callbacks[c]
  IN  r.gen = reconnectGeneration /\ r.key \in Owed =>
        /\ r.pc = "publish" /\ r.key = Participants =>
             r.version = version \/ Coming(r.key)
        /\ r.pc \in {"done", "supersede"} => Known(r.key) \/ Coming(r.key)
        /\ r.pc = "enqueue" /\ r.queue # workerRetry => Coming(r.key)

LoopObliged(q) ==
  LET r == loops[q]
  IN  q = workerRetry /\ r.pc = "publish" /\ r.key = Participants =>
        r.version = version \/ Coming(r.key)

Covered ==
  Live => /\ \A c \in Callbacks : Obliged(c)
          /\ \A q \in QueueIds : LoopObliged(q)

\* Callback c has report k and is going to hand it on
Carries(c, k) ==
  /\ callbacks[c].key = k
  /\ callbacks[c].pc \in {"wait", "publish", "failed", "enqueue"}
  /\ callbacks[c].gen = reconnectGeneration

\* Queue q, or the loop that empties it, has report k
Queued(q, k) ==
  \/ k \in Waiting(q)
  \/ loops[q].key = k /\ InHand(q) /\ IsLatest(q)

Accounted(k) ==
  \/ Known(k)
  \/ k \in excused
  \/ \E c \in Callbacks : Carries(c, k)
  \/ Queued(workerRetry, k)

\* The queue of the job runs
Armed == Live /\ ~stopped[workerRetry] /\ workerRetry \notin retiring

Reports == {Participants} \cup received

AllAccounted == Armed => \A k \in Reports : Accounted(k)

Promises == Fresh /\ Installed /\ Numbered /\ Covered /\ AllAccounted

\* AllAccounted is NotForgotten in the terms of the proof.
LEMMA Restated ==
  ASSUME TypeOK, AllAccounted
  PROVE  NotForgotten
  <1>1. received \subseteq Chats /\ Participants \notin Chats
    BY ReportsAssumption DEF TypeOK, State
  <1>2. ASSUME NEW k PROVE OnItsWay(k) <=>
             \/ \E c \in Callbacks : Carries(c, k)
             \/ Queued(workerRetry, k)
    BY DEF OnItsWay, Carries, Queued, InHand
  <1>3. QED
    BY <1>1, <1>2 DEF AllAccounted, Armed, Accounted, Reports, Known,
         NotForgotten

\* How a report ends: the callback is idle, or goes for the speaker.
LEMMA MoveOnLeaves ==
  ASSUME Typed, NEW c \in Callbacks, MoveOn(c)
  PROVE  /\ \A d \in Callbacks : d # c => callbacks'[d] = callbacks[d]
         /\ callbacks'[c].queue = 0
         /\ \/ callbacks'[c].pc = "idle" /\ callbacks'[c].key = NoKey
            \/ /\ callbacks'[c].pc = "wait"
               /\ callbacks'[c].key = Speaker
               /\ callbacks'[c].gen = callbacks[c].gen
               /\ callbacks'[c].job = callbacks[c].job
  <1>1. callbacks \in [Callbacks -> Callback]
    BY DEF Typed, CallbackTypes
  <1>2. callbacks'[c] =
          IF callbacks[c].speaker
            THEN [callbacks[c] EXCEPT !.pc = "wait", !.key = Speaker,
                                      !.speaker = FALSE, !.queue = 0]
            ELSE Idle
    BY <1>1 DEF MoveOn
  <1>3. callbacks[c] \in Callback
    BY <1>1
  <1>4. \A d \in Callbacks : d # c => callbacks'[d] = callbacks[d]
    BY <1>1 DEF MoveOn
  <1>5. QED
    BY <1>2, <1>3, <1>4 DEF Idle, Callback

\* A section of the Manager either excuses everything, or changes nothing a
\* report depends on; either way a live job has a queue that nobody holds who
\* is not of its generation.
LEMMA ManagerExcuses ==
  ASSUME Typed, Fresh, Installed,
         \/ StartCommit \/ StopBegin \/ StopFails \/ StopFinish
         \/ \E rejoin \in BOOLEAN : DiscordDisconnected(rejoin)
         \/ DiscordConnected
         \/ \E g \in rejoins : Rejoined(g) \/ RejoinEnds(g)
  PROVE  /\ \/ excused' = Keys
            \/ UNCHANGED <<job, stopping, disconnected, reconnectGeneration,
                           workerRetry, retiring, version, received, excused>>
         /\ received' = received
         /\ \/ reconnectGeneration' = reconnectGeneration + 1
            \/ /\ reconnectGeneration' = reconnectGeneration
               /\ job' = job \/ job' = 0
         /\ \/ workerRetry' = 0
            \/ workerRetry' = queuesMade + 1 /\ queuesMade' = queuesMade + 1
            \/ workerRetry' = workerRetry
               /\ reconnectGeneration' = reconnectGeneration
         /\ queuesMade' = queuesMade \/ queuesMade' = queuesMade + 1
         /\ Live' => workerRetry' # 0
  <1>1. /\ job \in Nat /\ jobsMade \in Nat /\ queuesMade \in Nat
        /\ workerRetry \in Nat /\ reconnectGeneration \in Nat
    BY ReportsAssumption DEF Typed, ManagerTypes
  <1>2. Live => workerRetry # 0
    BY DEF Installed
  <1>3. CASE StartCommit
    BY <1>1, <1>3 DEF StartCommit, NewQueue
  <1>4. CASE StopBegin
    BY <1>1, <1>4 DEF StopBegin, NoQueue, Live, content
  <1>5. CASE StopFails
    <2>1. CASE NewQueue(0)
      BY <1>1, <1>5, <2>1 DEF StopFails, NewQueue, content
    <2>2. CASE UNCHANGED <<stopping, workerRetry, queuesMade, after, excused>>
      BY <1>1, <1>2, <1>5, <2>2 DEF StopFails, Live, content
    <2>3. QED
      BY <1>5, <2>1, <2>2 DEF StopFails
  <1>6. CASE StopFinish
    BY <1>1, <1>6 DEF StopFinish, NoQueue, Live
  <1>7. ASSUME NEW rejoin \in BOOLEAN, DiscordDisconnected(rejoin)
        PROVE  /\ excused' = Keys /\ received' = received
               /\ reconnectGeneration' = reconnectGeneration + 1
               /\ workerRetry' = 0 /\ queuesMade' = queuesMade
               /\ ~Live'
    BY <1>7 DEF DiscordDisconnected, NoQueue, Live, content
  <1>8. CASE DiscordConnected
    <2>1. CASE job # 0 /\ ~stopping /\ NewQueue(workerRetry)
      BY <1>1, <1>8, <2>1 DEF DiscordConnected, NewQueue, content
    <2>2. CASE (job = 0 \/ stopping) /\ NoQueue
      BY <1>1, <1>8, <2>2 DEF DiscordConnected, NoQueue, Live, content
    <2>3. QED
      BY <1>8, <2>1, <2>2 DEF DiscordConnected
  <1>9. ASSUME NEW g \in rejoins, Rejoined(g)
        PROVE  /\ excused' = Keys
               /\ UNCHANGED <<job, received, reconnectGeneration>>
               /\ \/ workerRetry' = queuesMade + 1
                     /\ queuesMade' = queuesMade + 1
                  \/ /\ UNCHANGED <<workerRetry, queuesMade>>
                     /\ Live' => Live
    <2>1. CASE NewQueue(workerRetry)
      BY <1>9, <2>1 DEF Rejoined, NewQueue, content
    <2>2. CASE /\ excused' = Keys
               /\ UNCHANGED <<disconnected, workerRetry, queuesMade, after>>
      BY <1>9, <2>2 DEF Rejoined, Live, content
    <2>3. QED
      BY <1>9, <2>1, <2>2 DEF Rejoined
  <1>10. ASSUME NEW g \in rejoins, RejoinEnds(g)
         PROVE  /\ UNCHANGED <<job, stopping, disconnected, received,
                               reconnectGeneration, workerRetry, retiring,
                               version, excused, queuesMade>>
                /\ Live' => Live
    BY <1>10 DEF RejoinEnds, Live, content
  <1>11. QED
    BY <1>1, <1>2, <1>3, <1>4, <1>5, <1>6, <1>7, <1>8, <1>9, <1>10

\* Such a section keeps every promise.
LEMMA ManagerPromises ==
  ASSUME Typed, Promises,
         \/ StartCommit \/ StopBegin \/ StopFails \/ StopFinish
         \/ \E rejoin \in BOOLEAN : DiscordDisconnected(rejoin)
         \/ DiscordConnected
         \/ \E g \in rejoins : Rejoined(g) \/ RejoinEnds(g)
  PROVE  Promises'
  <1>1. UNCHANGED <<queues, loops, callbacks, worker>>
    BY ManagerSteps DEF Typed
  <1>2. /\ reconnectGeneration \in Nat /\ queuesMade \in Nat
        /\ workerRetry \in Nat
        /\ callbacks \in [Callbacks -> Callback]
        /\ \A c \in Callbacks : /\ callbacks[c].gen \in Nat
                                /\ callbacks[c].queue \in Nat
                                /\ callbacks[c].pc \in {"supersede", "enqueue"}
                                     => callbacks[c].queue # 0
    BY ReportsAssumption DEF Typed, ManagerTypes, CallbackTypes, Callback
  <1>3. Fresh'
    BY <1>1, <1>2, ManagerExcuses DEF Promises, Fresh
  <1>4. Installed'
    BY <1>1, <1>2, ManagerExcuses DEF Promises, Installed
  <1>5. Numbered'
    BY <1>1 DEF Promises, Numbered, InHand, queues
  <1>6. CASE excused' = Keys
    <2>1. Participants \in Keys /\ received' \subseteq Keys
      BY ManagerExcuses DEF Promises, Typed, OtherTypes, Keys, State
    <2>2. AllAccounted'
      BY <1>6, <2>1 DEF AllAccounted, Accounted, Reports
    <2>3. Covered'
      BY <1>6, <2>1 DEF Covered, Obliged, LoopObliged, Coming, Owed
    <2>4. QED
      BY <1>3, <1>4, <1>5, <2>2, <2>3 DEF Promises
  <1>7. CASE UNCHANGED <<job, stopping, disconnected, reconnectGeneration,
                         workerRetry, retiring, version, received, excused>>
    <2>1. UNCHANGED <<pending, latest, stopped, seen, delivered>>
      BY <1>1 DEF queues, worker
    <2>2. Covered'
      BY <1>1, <1>7, <2>1 DEF Promises, Covered, Obliged, LoopObliged, Coming,
           Asked, Known, Live
    <2>3. AllAccounted'
      BY <1>1, <1>7, <2>1 DEF Promises, AllAccounted, Armed, Live, Reports,
           Accounted, Known, Carries, Queued, Waiting, InHand, IsLatest
    <2>4. QED
      BY <1>3, <1>4, <1>5, <2>2, <2>3 DEF Promises
  <1>8. QED
    BY <1>6, <1>7, ManagerExcuses DEF Promises

\* A callback keeps the generation and the job it was started with, and takes
\* up the queue of its generation.
LEMMA CallbackKeeps ==
  ASSUME Typed, Fresh, Installed, NEW c \in Callbacks, UNCHANGED manager,
         \A d \in Callbacks : d # c => callbacks'[d] = callbacks[d],
         \/ callbacks'[c].pc = "idle"
         \/ /\ callbacks[c].pc # "idle"
            /\ callbacks'[c].gen = callbacks[c].gen
            /\ callbacks'[c].job = callbacks[c].job
         \/ /\ callbacks'[c].gen = reconnectGeneration
            /\ callbacks'[c].job = job,
         callbacks'[c].pc \in {"supersede", "enqueue"} =>
           callbacks'[c].gen = reconnectGeneration,
         callbacks'[c].queue \in {0, workerRetry, callbacks[c].queue}
  PROVE  Fresh' /\ Installed'
  <1>1. /\ reconnectGeneration \in Nat /\ queuesMade \in Nat
        /\ workerRetry \in Nat
    BY ReportsAssumption DEF Typed, ManagerTypes
  <1>2. UNCHANGED <<job, stopping, disconnected, reconnectGeneration,
                    workerRetry, queuesMade>>
    BY DEF manager
  <1>3. Fresh'
    BY <1>1, <1>2 DEF Fresh
  <1>4. Installed'
    BY <1>1, <1>2 DEF Installed, Live
  <1>5. QED
    BY <1>3, <1>4

\* Steps that leave callbacks, job and installed queue alone.
LEMMA OthersKeep ==
  ASSUME Fresh, Installed,
         UNCHANGED <<job, stopping, disconnected, reconnectGeneration,
                     workerRetry, queuesMade, callbacks>>
  PROVE  Fresh' /\ Installed'
  BY DEF Fresh, Installed, Live

\* What Put and Mark do, entry by entry.
LEMMA PutAt ==
  ASSUME Typed, NEW q \in QueueIds, NEW k \in Keys, NEW r, Put(q, k, r)
  PROVE  \A p \in QueueIds, x \in Keys :
           pending'[p][x] = IF p = q /\ x = k THEN r ELSE pending[p][x]
  BY DEF Typed, PendingTypes, Put

LEMMA MarkAt ==
  ASSUME Typed, NEW q \in QueueIds, NEW k \in Keys, NEW n, Mark(q, k, n)
  PROVE  \A p \in QueueIds, x \in Keys :
           latest'[p][x] = IF p = q /\ x = k THEN n ELSE latest[p][x]
  BY DEF Typed, BookTypes, Mark

\* What enqueue does: the new report has the next number, what was dropped has
\* none, the rest stays.
LEMMA EnqueueAt ==
  ASSUME Typed, NEW q \in QueueIds, NEW k \in Keys, NEW v,
         NEW d \in Keys \cup {NoKey}, Enqueue(q, k, v, d)
  PROVE  /\ sequence[q] + 1 # 0
         /\ d # k
         /\ \A p \in QueueIds, x \in Keys :
              IF p = q /\ x = k
              THEN /\ pending'[p][x].seq = sequence[q] + 1
                   /\ pending'[p][x].version = v
                   /\ latest'[p][x] = sequence[q] + 1
              ELSE IF p = q /\ x = d
              THEN pending'[p][x] = NoReport /\ latest'[p][x] = 0
              ELSE /\ pending'[p][x] = pending[p][x]
                   /\ latest'[p][x] = latest[p][x]
  <1> DEFINE rep  == [seq |-> sequence[q] + 1, attempts |-> 0, version |-> v]
             newP == [x \in Keys |->
                CASE x = k -> rep
                  [] x = d -> NoReport
                  [] OTHER -> pending[q][x]]
             newL == [x \in Keys |->
                CASE x = k -> sequence[q] + 1 [] x = d -> 0
                  [] OTHER -> latest[q][x]]
  <1>1. d # k
    BY ReportsAssumption DEF Enqueue, Evict
  <1>2. /\ pending' = [pending EXCEPT ![q] = newP]
        /\ latest' = [latest EXCEPT ![q] = newL]
    BY DEF Enqueue
  <1>3. sequence[q] + 1 # 0
    BY DEF Typed, BookTypes
  <1>4. ASSUME NEW x \in Keys
        PROVE  /\ x = k => /\ newP[x].seq = sequence[q] + 1
                           /\ newP[x].version = v
                           /\ newL[x] = sequence[q] + 1
               /\ x # k /\ x = d => newP[x] = NoReport /\ newL[x] = 0
               /\ x # k /\ x # d => /\ newP[x] = pending[q][x]
                                    /\ newL[x] = latest[q][x]
    <2>1. CASE x = k
      <3>1. newP[x] = rep
        BY <1>1, <2>1
      <3>2. newL[x] = sequence[q] + 1
        BY <1>1, <2>1
      <3>3. newP[x].seq = sequence[q] + 1 /\ newP[x].version = v
        BY <3>1
      <3>4. QED
        BY <2>1, <3>2, <3>3
    <2>2. CASE x # k /\ x = d
      BY <2>2
    <2>3. CASE x # k /\ x # d
      BY <2>3
    <2>4. QED
      BY <2>1, <2>2, <2>3
  <1> HIDE DEF newP, newL
  <1>5. \A p \in QueueIds : /\ pending'[p] = IF p = q THEN newP ELSE pending[p]
                            /\ latest'[p] = IF p = q THEN newL ELSE latest[p]
    BY <1>2 DEF Typed, PendingTypes, BookTypes
  <1>6. QED
    BY <1>1, <1>3, <1>4, <1>5

\* The report a callback or a loop has is one of a queue that exists.
LEMMA HasQueue ==
  ASSUME Typed, NEW c \in Callbacks,
         callbacks[c].pc \in {"supersede", "enqueue"}
  PROVE  callbacks[c].queue \in QueueIds /\ callbacks[c].key \in Keys
  BY ReportsAssumption DEF Typed, CallbackTypes, Callback, QueueIds

\* What a loop does that comes to publish.
LEMMA RefreshAt ==
  ASSUME Typed, NEW q \in QueueIds, Refreshes(q)
  PROVE  /\ loops[q].pc = "taken" /\ loops'[q].pc = "publish"
         /\ loops'[q].key = loops[q].key
         /\ loops'[q].seq = loops[q].seq
         /\ loops'[q].version = Refreshed(loops[q])
         /\ \A p \in QueueIds : p # q => loops'[p] = loops[p]
  <1> DEFINE r   == loops[q]
             v   == Refreshed(loops[q])
             n   == loops[q].attempts + 1
             new == [r EXCEPT !.pc = "publish", !.version = v, !.attempts = n]
  <1>1. loops \in [QueueIds -> Loop] /\ r \in Loop
    BY DEF Typed, LoopTypes
  <1>2. loops' = [loops EXCEPT ![q] = new] /\ r.pc = "taken"
    BY DEF Refreshes
  <1> HIDE DEF v, n
  <1>3. /\ new.pc = "publish" /\ new.key = r.key
        /\ new.seq = r.seq /\ new.version = v
    BY <1>1 DEF Loop
  <1> HIDE DEF new, r
  <1>4. /\ loops'[q] = new
        /\ \A p \in QueueIds : p # q => loops'[p] = loops[p]
    BY <1>1, <1>2
  <1>5. QED
    BY <1>2, <1>3, <1>4 DEF r, v

\* Every step keeps the numbers of the reports that wait.
LEMMA NextNumbered ==
  ASSUME Typed, Numbered, [Next]_vars
  PROVE  Numbered'
  <1> DEFINE Good(q, k) ==
               pending[q][k].seq # 0 => pending[q][k].seq = latest[q][k]
             Holds(q) == InHand(q) => loops[q].seq # 0
  <1>0. /\ \A q \in QueueIds, k \in Keys : Good(q, k)
        /\ \A q \in QueueIds : Holds(q)
    BY DEF Numbered
  <1>1. SUFFICES /\ \A q \in QueueIds, k \in Keys : Good(q, k)'
                 /\ \A q \in QueueIds : Holds(q)'
    BY DEF Numbered
  <1>2. NoReport.seq = 0
    BY DEF NoReport
  <1>3. ASSUME UNCHANGED <<pending, latest, loops>>
        PROVE  /\ \A q \in QueueIds, k \in Keys : Good(q, k)'
               /\ \A q \in QueueIds : Holds(q)'
    BY <1>0, <1>3 DEF InHand
  <1>4. ASSUME \/ StartCommit \/ StopBegin \/ StopFails \/ StopFinish
               \/ \E rejoin \in BOOLEAN : DiscordDisconnected(rejoin)
               \/ DiscordConnected
               \/ \E g \in rejoins : Rejoined(g) \/ RejoinEnds(g)
        PROVE  UNCHANGED <<pending, latest, loops>>
    BY <1>4, ManagerSteps DEF Typed, queues
  <1>5. ASSUME NEW c \in Callbacks, Event(c)
        PROVE  UNCHANGED <<pending, latest, loops>>
    BY <1>5 DEF Event, ParticipantChanged, ParticipantsSynced,
         SetSpeakerState, Changes, ClearSpeakers, Replays, ChatReceived, queues
  <1>6. ASSUME NEW c \in Callbacks, NEW applied, NEW result,
               Enter(c) \/ Publish(c, applied, result) \/ Lookup(c)
        PROVE  UNCHANGED <<pending, latest, loops>>
    BY <1>6 DEF Enter, Publish, Lookup, queues
  <1>7. ASSUME NEW q \in QueueIds, NEW k \in Keys,
               Put(q, k, NoReport), Mark(q, k, 0)
        PROVE  \A p \in QueueIds, x \in Keys : Good(p, x)'
    BY <1>0, <1>2, <1>7, PutAt, MarkAt
  <1>8. ASSUME NEW c \in Callbacks, Supersede(c)
        PROVE  /\ \A q \in QueueIds, k \in Keys : Good(q, k)'
               /\ \A q \in QueueIds : Holds(q)'
    <2>1. /\ callbacks[c].queue \in QueueIds /\ callbacks[c].key \in Keys
          /\ UNCHANGED loops
      BY <1>8, HasQueue DEF Supersede
    <2>2. CASE /\ Put(callbacks[c].queue, callbacks[c].key, NoReport)
               /\ Mark(callbacks[c].queue, callbacks[c].key, 0)
      BY <1>0, <1>7, <2>1, <2>2 DEF InHand
    <2>3. CASE UNCHANGED <<pending, latest>>
      BY <1>3, <2>1, <2>3
    <2>4. QED
      BY <1>8, <2>2, <2>3 DEF Supersede
  <1>9. ASSUME NEW c \in Callbacks, EnqueueReport(c)
        PROVE  /\ \A q \in QueueIds, k \in Keys : Good(q, k)'
               /\ \A q \in QueueIds : Holds(q)'
    <2> DEFINE q == callbacks[c].queue
               k == callbacks[c].key
    <2>1. q \in QueueIds /\ k \in Keys /\ UNCHANGED loops
      BY <1>9, HasQueue DEF EnqueueReport
    <2>2. ASSUME NEW d \in Keys \cup {NoKey},
                 Enqueue(q, k, callbacks[c].version, d)
          PROVE  \A p \in QueueIds, x \in Keys : Good(p, x)'
      <3> HIDE DEF q, k
      <3>1. QED
        BY <1>0, <1>2, <2>1, <2>2, EnqueueAt
    <2>3. CASE UNCHANGED <<pending, latest>>
      BY <1>3, <2>1, <2>3
    <2>4. QED
      BY <1>0, <1>9, <2>1, <2>2, <2>3 DEF EnqueueReport, InHand
  <1>10. ASSUME NEW q \in QueueIds, StopQueue(q)
         PROVE  /\ \A p \in QueueIds, k \in Keys : Good(p, k)'
                /\ \A p \in QueueIds : Holds(p)'
    <2>1. /\ UNCHANGED loops
          /\ pending' = [pending EXCEPT ![q] = [k \in Keys |-> NoReport]]
          /\ latest' = [latest EXCEPT ![q] = [k \in Keys |-> 0]]
      BY <1>10 DEF StopQueue
    <2>2. \A p \in QueueIds, k \in Keys :
            \/ pending'[p][k] = NoReport
            \/ pending'[p] = pending[p] /\ latest'[p] = latest[p]
      BY <2>1 DEF Typed, PendingTypes, BookTypes
    <2>3. QED
      BY <1>0, <1>2, <2>1, <2>2 DEF InHand
  <1>11. ASSUME NEW q \in QueueIds, NEW k \in Keys, Takes(q, k)
         PROVE  /\ \A p \in QueueIds, x \in Keys : Good(p, x)'
                /\ \A p \in QueueIds : Holds(p)'
    <2>1. /\ Put(q, k, NoReport) /\ UNCHANGED latest
          /\ pending[q][k].seq # 0
      BY <1>11 DEF Takes, Waiting
    <2>2. \A p \in QueueIds, x \in Keys : Good(p, x)'
      BY <1>0, <1>2, <2>1, PutAt
    <2>3. /\ loops'[q].seq = pending[q][k].seq
          /\ \A p \in QueueIds : p # q => loops'[p] = loops[p]
      BY <1>11 DEF Takes, Typed, LoopTypes
    <2>4. QED
      BY <1>0, <2>1, <2>2, <2>3 DEF InHand
  <1>12. ASSUME NEW q \in QueueIds, Drops(q)
         PROVE  /\ \A p \in QueueIds, x \in Keys : Good(p, x)'
                /\ \A p \in QueueIds : Holds(p)'
    <2>1. loops[q].key \in Keys
      BY <1>12 DEF Drops, Typed, LoopTypes
    <2>2. /\ ~InHand(q)'
          /\ \A p \in QueueIds : p # q => loops'[p] = loops[p]
      BY <1>12 DEF Drops, Sleep, Asleep, Typed, LoopTypes, InHand
    <2>3. \A p \in QueueIds : Holds(p)'
      BY <1>0, <2>2 DEF InHand
    <2>4. CASE /\ Put(q, loops[q].key, NoReport)
               /\ Mark(q, loops[q].key, 0)
      BY <1>7, <2>1, <2>3, <2>4
    <2>5. CASE UNCHANGED <<pending, latest>>
      BY <1>0, <2>3, <2>5
    <2>6. QED
      BY <1>12, <2>4, <2>5 DEF Drops
  <1>13. ASSUME NEW q \in QueueIds, Refreshes(q) \/ Ends(q)
         PROVE  /\ \A p \in QueueIds, x \in Keys : Good(p, x)'
                /\ \A p \in QueueIds : Holds(p)'
    <2>1. UNCHANGED <<pending, latest>>
      BY <1>13 DEF Refreshes, Ends, queues
    <2>2. \A p \in QueueIds : /\ InHand(p)' => InHand(p)
                              /\ loops'[p].seq = loops[p].seq
      <3>1. CASE Refreshes(q)
        BY <3>1, RefreshAt DEF InHand
      <3>2. CASE Ends(q)
        BY <3>2 DEF Ends, Typed, LoopTypes, Loop, InHand
      <3>3. QED
        BY <1>13, <3>1, <3>2
    <2>3. QED
      BY <1>0, <2>1, <2>2
  <1>14. ASSUME NEW q \in QueueIds, NEW applied, NEW result,
                Retries(q, applied, result)
         PROVE  /\ \A p \in QueueIds, x \in Keys : Good(p, x)'
                /\ \A p \in QueueIds : Holds(p)'
    <2> DEFINE k == loops[q].key
               r == [seq |-> loops[q].seq, attempts |-> loops[q].attempts,
                     version |-> loops[q].version]
    <2>1. k \in Keys /\ r.seq = loops[q].seq
      BY <1>14 DEF Retries, Typed, LoopTypes, Loop
    <2>2. /\ ~InHand(q)'
          /\ \A p \in QueueIds : p # q => loops'[p] = loops[p]
      BY <1>14 DEF Retries, Sleep, Asleep, Typed, LoopTypes, InHand
    <2>3. \A p \in QueueIds : Holds(p)'
      BY <1>0, <2>2 DEF InHand
    <2>4. CASE Put(q, k, NoReport) /\ Mark(q, k, 0)
      BY <1>7, <2>1, <2>3, <2>4
    <2>5. CASE /\ latest[q][k] = loops[q].seq
               /\ Put(q, k, r) /\ UNCHANGED latest
      <3> HIDE DEF k, r
      <3>1. QED
        BY <1>0, <2>1, <2>3, <2>5, PutAt
    <2>6. CASE UNCHANGED <<pending, latest>>
      BY <1>0, <2>3, <2>6
    <2>7. QED
      BY <1>14, <2>4, <2>5, <2>6, Zenon DEF Retries
  <1>15. CASE UNCHANGED vars
    BY <1>3, <1>15 DEF vars, queues
  <1> HIDE DEF Good, Holds
  <1>16. QED
    BY <1>3, <1>4, <1>5, <1>6, <1>8, <1>9, <1>10, <1>11, <1>12, <1>13, <1>14,
       <1>15 DEF Next, CallbackStep, LoopStep

\* An event changes what there is to know under one key, and a callback of
\* this connection goes to read it.
LEMMA EventAsks ==
  ASSUME Typed, NEW c \in Callbacks, Event(c)
  PROVE  /\ UNCHANGED <<manager, queues, loops, worker>>
         /\ callbacks[c].pc = "idle"
         /\ \A d \in Callbacks : d # c => callbacks'[d] = callbacks[d]
         /\ callbacks'[c].pc = "wait"
         /\ callbacks'[c].gen = reconnectGeneration
         /\ callbacks'[c].job = job
         /\ callbacks'[c].queue = 0
         /\ callbacks'[c].key \in Owed
         /\ excused \ {callbacks'[c].key} \subseteq excused'
         /\ received' \subseteq received \cup {callbacks'[c].key}
         /\ callbacks'[c].key = Participants \/ version' = version
  <1>1. callbacks \in [Callbacks -> Callback]
    BY DEF Typed, CallbackTypes
  <1>2. Participants \in Owed /\ Chats \subseteq Owed
    BY ReportsAssumption DEF Owed, Keys, State
  <1>3. ASSUME NEW k, NEW s, NEW rev, Reporting(c, k, s, rev)
        PROVE  /\ \A d \in Callbacks : d # c => callbacks'[d] = callbacks[d]
               /\ callbacks'[c].pc = "wait"
               /\ callbacks'[c].gen = reconnectGeneration
               /\ callbacks'[c].job = job
               /\ callbacks'[c].queue = 0
               /\ callbacks'[c].key = k
    BY <1>1, <1>3 DEF Reporting
  <1>4. ASSUME NEW s, Changes(c, s) PROVE
               /\ UNCHANGED <<manager, queues, loops, worker, received>>
               /\ callbacks[c].pc = "idle"
               /\ excused' = excused \ {Participants}
               /\ \E rev : Reporting(c, Participants, s, rev)
    BY <1>4 DEF Changes
  <1>5. CASE ParticipantChanged(c) \/ ParticipantsSynced(c)
               \/ SetSpeakerState(c)
    BY <1>2, <1>3, <1>4, <1>5
       DEF ParticipantChanged, ParticipantsSynced, SetSpeakerState
  <1>6. CASE ClearSpeakers(c)
    BY <1>2, <1>3, <1>6 DEF ClearSpeakers
  <1>7. CASE Replays(c)
    BY <1>2, <1>3, <1>7 DEF Replays, content
  <1>8. ASSUME NEW chat \in Chats, ChatReceived(c, chat)
        PROVE  /\ UNCHANGED <<manager, queues, loops, worker, version>>
               /\ callbacks[c].pc = "idle"
               /\ excused' = excused \ {chat}
               /\ received' = received \cup {chat}
               /\ \E s, rev : Reporting(c, chat, s, rev)
    BY <1>8 DEF ChatReceived
  <1>9. QED
    BY <1>2, <1>3, <1>5, <1>6, <1>7, <1>8 DEF Event

\* An event keeps every promise: its own callback is going to keep them.
LEMMA EventPromises ==
  ASSUME Typed, Promises, NEW c \in Callbacks, Event(c), Numbered'
  PROVE  Promises'
  <1>0. PICK K : K = callbacks'[c].key
    OBVIOUS
  <1>1. /\ UNCHANGED <<manager, queues, loops, worker>>
        /\ callbacks[c].pc = "idle"
        /\ \A d \in Callbacks : d # c => callbacks'[d] = callbacks[d]
        /\ callbacks'[c].pc = "wait"
        /\ callbacks'[c].gen = reconnectGeneration
        /\ callbacks'[c].job = job
        /\ callbacks'[c].queue = 0
        /\ K \in Owed
        /\ excused \ {K} \subseteq excused'
        /\ received' \subseteq received \cup {K}
        /\ K = Participants \/ version' = version
    BY <1>0, EventAsks
  <1>2. UNCHANGED <<job, stopping, disconnected, reconnectGeneration,
                    workerRetry, retiring, pending, latest, stopped, seen,
                    delivered>>
    BY <1>1 DEF manager, queues, worker
  <1>3. Fresh' /\ Installed'
    BY <1>1, CallbackKeeps DEF Promises
  <1>4. Asked(K)' /\ Carries(c, K)'
    BY <1>0, <1>1, <1>2 DEF Asked, Carries
  <1>5. ASSUME NEW k, Asked(k) PROVE Asked(k)'
    <2>1. PICK d \in Callbacks : /\ callbacks[d].key = k
                                 /\ callbacks[d].pc = "wait"
                                 /\ callbacks[d].gen = reconnectGeneration
      BY <1>5 DEF Asked
    <2>2. d # c
      BY <1>1, <2>1
    <2>3. QED
      BY <1>1, <1>2, <2>1, <2>2 DEF Asked
  <1>6. ASSUME NEW k, Coming(k) PROVE Coming(k)'
    BY <1>1, <1>4, <1>5, <1>6 DEF Coming
  <1>7. ASSUME NEW k \in Owed, Known(k) PROVE Known(k)' \/ Coming(k)'
    <2>1. k = Participants \/ k \in Chats
      BY DEF Owed, Keys, State
    <2>2. QED
      BY <1>1, <1>2, <1>4, <1>7, <2>1 DEF Known, Coming
  <1>8. Covered'
    <2> SUFFICES ASSUME Live'
                 PROVE  /\ \A d \in Callbacks : Obliged(d)'
                        /\ \A q \in QueueIds : LoopObliged(q)'
      BY DEF Covered
    <2>1. Live
      BY <1>2 DEF Live
    <2>2. ASSUME NEW d \in Callbacks PROVE Obliged(d)'
      <3>1. CASE d = c
        BY <1>1, <3>1 DEF Obliged
      <3>2. CASE d # c
        <4>1. Obliged(d) /\ callbacks'[d] = callbacks[d]
          BY <1>1, <2>1, <3>2 DEF Promises, Covered
        <4>2. version' = version \/ Coming(Participants)'
          BY <1>1, <1>4 DEF Coming
        <4>3. QED
          BY <1>2, <1>6, <1>7, <4>1, <4>2 DEF Obliged
      <3>3. QED
        BY <3>1, <3>2
    <2>3. ASSUME NEW q \in QueueIds PROVE LoopObliged(q)'
      <3>1. LoopObliged(q)
        BY <2>1 DEF Promises, Covered
      <3>2. version' = version \/ Coming(Participants)'
        BY <1>1, <1>4 DEF Coming
      <3>3. QED
        BY <1>1, <1>2, <1>6, <3>1, <3>2 DEF LoopObliged
    <2>4. QED
      BY <2>2, <2>3
  <1>9. AllAccounted'
    <2> SUFFICES ASSUME Armed', NEW k \in Reports' PROVE Accounted(k)'
      BY DEF AllAccounted
    <2>1. CASE k = K
      BY <1>4, <2>1 DEF Accounted
    <2>2. CASE k # K
      <3>1. k \in Reports /\ Armed
        BY <1>1, <1>2, <2>2 DEF Reports, Armed, Live
      <3>2. Accounted(k)
        BY <3>1 DEF Promises, AllAccounted
      <3>3. k \in Owed
        BY <3>1, ReportsAssumption DEF Reports, Owed, Keys, State, Typed,
             OtherTypes
      <3>4. CASE Known(k)
        <4>1. k = Participants => version' = version
          BY <1>1, <2>2
        <4>2. Known(k)'
          BY <1>2, <3>1, <3>4, <4>1 DEF Known, Reports, Typed, OtherTypes
        <4>3. QED
          BY <4>2 DEF Accounted
      <3>5. CASE k \in excused
        BY <1>1, <2>2, <3>5 DEF Accounted
      <3>6. ASSUME NEW d \in Callbacks, Carries(d, k) PROVE Carries(d, k)'
        BY <1>1, <1>2, <3>6 DEF Carries
      <3>7. CASE Queued(workerRetry, k)
        <4>1. Queued(workerRetry, k)'
          BY <1>1, <1>2, <3>7 DEF Queued, Waiting, InHand, IsLatest
        <4>2. QED
          BY <4>1 DEF Accounted
      <3>8. QED
        BY <3>2, <3>4, <3>5, <3>6, <3>7 DEF Accounted
    <2>3. QED
      BY <2>1, <2>2
  <1>10. QED
    BY <1>3, <1>8, <1>9 DEF Promises

\* While a callback holds participantReportMu nobody else does.
LEMMA Alone ==
  ASSUME OrderInv, NEW c \in Callbacks, callbacks[c].pc \in Inside
  PROVE  /\ \A d \in Callbacks : d # c => callbacks[d].pc \notin Inside
         /\ \A q \in QueueIds : loops[q].pc # "publish"
  BY DEF OrderInv, Exclusive

\* Then only its own obligations are to be looked at.
LEMMA CoveredByOne ==
  ASSUME NEW c \in Callbacks,
         \A d \in Callbacks : d # c => callbacks[d].pc \notin Inside,
         \A q \in QueueIds : loops[q].pc # "publish",
         UNCHANGED loops,
         \A d \in Callbacks : d # c => callbacks'[d] = callbacks[d],
         Live' => Obliged(c)'
  PROVE  Covered'
  <1>1. {"publish", "done", "supersede", "enqueue"} \subseteq Inside
    BY DEF Inside
  <1>2. ASSUME NEW d \in Callbacks, d # c PROVE Obliged(d)'
    BY <1>1, <1>2 DEF Obliged
  <1>3. ASSUME NEW q \in QueueIds PROVE LoopObliged(q)'
    BY <1>3 DEF LoopObliged
  <1>4. QED
    BY <1>2, <1>3 DEF Covered

\* A report that is owed is not a speaker report.
LEMMA ReportsOwed ==
  ASSUME Typed
  PROVE  /\ Reports \subseteq Owed
         /\ \A k \in Owed : k = Participants \/ k \in Chats
         /\ Participants \notin Chats /\ NoKey \notin Owed
         /\ Speaker \notin Owed /\ Participants \in State
  BY ReportsAssumption DEF Reports, Owed, Keys, State, Typed, OtherTypes

\* A step of callback c accounts for what c carried and for what waited.
LEMMA CallbackAccounts ==
  ASSUME Typed, AllAccounted, NEW c \in Callbacks,
         UNCHANGED <<manager, received, stopped>>,
         \A d \in Callbacks : d # c => callbacks'[d] = callbacks[d],
         excused \subseteq excused',
         \A k \in Reports : Known(k) => Known(k)',
         \A k \in Reports : Armed /\ Carries(c, k) => Accounted(k)',
         \A k \in Reports :
           Armed /\ Queued(workerRetry, k) => Accounted(k)'
  PROVE  AllAccounted'
  <1> SUFFICES ASSUME Armed', NEW k \in Reports' PROVE Accounted(k)'
    BY DEF AllAccounted
  <1>1. UNCHANGED <<job, stopping, disconnected, reconnectGeneration,
                    workerRetry, retiring>>
    BY DEF manager
  <1>2. Armed /\ k \in Reports
    BY <1>1 DEF Armed, Live, Reports
  <1>3. Accounted(k)
    BY <1>2 DEF AllAccounted
  <1>4. ASSUME NEW d \in Callbacks, Carries(d, k), d # c PROVE Accounted(k)'
    <2>1. Carries(d, k)'
      BY <1>1, <1>4 DEF Carries
    <2>2. QED
      BY <2>1 DEF Accounted
  <1>5. Known(k)' \/ k \in excused' => Accounted(k)'
    BY DEF Accounted
  <1>6. QED
    BY <1>2, <1>3, <1>4, <1>5 DEF Accounted

\* What was coming to key k is still coming after a step of a callback that
\* was not waiting, and accounts for k.
LEMMA ComingKept ==
  ASSUME NEW c \in Callbacks, callbacks[c].pc # "wait",
         UNCHANGED reconnectGeneration,
         \A d \in Callbacks : d # c => callbacks'[d] = callbacks[d],
         excused \subseteq excused', NEW k, Coming(k)
  PROVE  Coming(k)' /\ Accounted(k)'
  <1>1. CASE k \in excused
    BY <1>1 DEF Coming, Accounted
  <1>2. CASE Asked(k)
    <2>1. PICK d \in Callbacks : /\ callbacks[d].key = k
                                 /\ callbacks[d].pc = "wait"
                                 /\ callbacks[d].gen = reconnectGeneration
      BY <1>2 DEF Asked
    <2>2. callbacks'[d] = callbacks[d]
      BY <2>1
    <2>3. Asked(k)' /\ Carries(d, k)'
      BY <2>1, <2>2 DEF Asked, Carries
    <2>4. QED
      BY <2>3 DEF Coming, Accounted
  <1>3. QED
    BY <1>1, <1>2 DEF Coming

\* What waits is not affected by a step that leaves the queues alone.
LEMMA QueuedKept ==
  ASSUME UNCHANGED <<workerRetry, pending, latest, stopped, loops>>,
         NEW k, Queued(workerRetry, k)
  PROVE  Accounted(k)'
  <1>1. Queued(workerRetry, k)'
    BY DEF Queued, Waiting, InHand, IsLatest
  <1>2. QED
    BY <1>1 DEF Accounted

\* The fences of a report that is owed let it pass while its connection lasts.
LEMMA EnterPromises ==
  ASSUME Typed, Promises, NEW c \in Callbacks, Enter(c), Numbered'
  PROVE  Promises'
  <1>1. /\ UNCHANGED <<manager, content, queues, loops, worker, excused>>
        /\ ReportsFree /\ callbacks[c].pc = "wait"
    BY DEF Enter
  <1>2. UNCHANGED <<job, stopping, disconnected, reconnectGeneration,
                    workerRetry, version, received, pending, latest, stopped,
                    seen, delivered>>
    BY <1>1 DEF manager, content, queues, worker
  <1>3. /\ \A d \in Callbacks : callbacks[d].pc \notin Inside
        /\ \A q \in QueueIds : loops[q].pc # "publish"
    BY <1>1 DEF ReportsFree
  <1>4. ASSUME NEW k \in Reports, Known(k) PROVE Known(k)'
    BY <1>2, <1>4 DEF Known
  <1>5. ASSUME NEW k \in Reports, Queued(workerRetry, k) PROVE Accounted(k)'
    BY <1>1, <1>2, <1>5, QueuedKept
  <1>6. CASE /\ Fences(callbacks[c])
             /\ callbacks' = [callbacks EXCEPT ![c].pc = "publish",
                                               ![c].version = version]
    <2>1. /\ \A d \in Callbacks : d # c => callbacks'[d] = callbacks[d]
          /\ callbacks'[c].pc = "publish"
          /\ callbacks'[c].version = version
          /\ callbacks'[c].key = callbacks[c].key
          /\ callbacks'[c].gen = callbacks[c].gen
          /\ callbacks'[c].job = callbacks[c].job
          /\ callbacks'[c].queue = callbacks[c].queue
      BY <1>6 DEF Typed, CallbackTypes, Callback
    <2>2. Fresh' /\ Installed'
      BY <1>1, <2>1, CallbackKeeps DEF Promises
    <2>3. Obliged(c)'
      BY <1>2, <2>1 DEF Obliged
    <2>4. Covered'
      BY <1>1, <1>3, <2>1, <2>3, CoveredByOne
    <2>5. ASSUME NEW k \in Reports, Carries(c, k) PROVE Accounted(k)'
      <3>1. Carries(c, k)'
        BY <1>2, <2>1, <2>5 DEF Carries
      <3>2. QED
        BY <3>1 DEF Accounted
    <2>6. AllAccounted'
      BY <1>1, <1>2, <1>4, <1>5, <2>1, <2>5, CallbackAccounts DEF Promises
    <2>7. QED
      BY <2>2, <2>4, <2>6 DEF Promises
  <1>7. CASE ~Fences(callbacks[c]) /\ MoveOn(c)
    <2>1. /\ \A d \in Callbacks : d # c => callbacks'[d] = callbacks[d]
          /\ callbacks'[c].queue = 0
          /\ \/ callbacks'[c].pc = "idle" /\ callbacks'[c].key = NoKey
             \/ /\ callbacks'[c].pc = "wait"
                /\ callbacks'[c].key = Speaker
                /\ callbacks'[c].gen = callbacks[c].gen
                /\ callbacks'[c].job = callbacks[c].job
      BY <1>7, MoveOnLeaves
    <2>2. Fresh' /\ Installed'
      BY <1>1, <2>1, CallbackKeeps DEF Promises
    <2>3. Obliged(c)'
      BY <2>1, ReportsOwed DEF Obliged
    <2>4. Covered'
      BY <1>1, <1>3, <2>1, <2>3, CoveredByOne
    <2>5. ASSUME NEW k \in Reports, Armed, Carries(c, k) PROVE FALSE
      <3>1. /\ callbacks[c].key = k /\ k # Speaker
            /\ callbacks[c].gen = reconnectGeneration
        BY <2>5, ReportsOwed DEF Carries
      <3>2. Live /\ job # 0
        BY <2>5 DEF Armed, Live
      <3>3. callbacks[c].job = job
        BY <1>1, <3>1, <3>2 DEF Promises, Fresh
      <3>4. QED
        BY <1>7, <3>1, <3>2, <3>3 DEF Fences
    <2>6. AllAccounted'
      BY <1>1, <1>2, <1>4, <1>5, <2>1, <2>5, CallbackAccounts DEF Promises
    <2>7. QED
      BY <2>2, <2>4, <2>6 DEF Promises
  <1>8. QED
    BY <1>6, <1>7 DEF Enter

\* The Worker does not forget: a request of the holder of the lock leaves
\* known what was known.
LEMMA KnownKept ==
  ASSUME Typed, OrderInv, OrderInv', UNCHANGED version,
         seen[Participants] <= seen'[Participants],
         \A s \in State : seen'[s] \in Nat,
         delivered \subseteq delivered', NEW k \in Owed, Known(k)
  PROVE  Known(k)'
  <1>1. CASE k \in Chats
    BY <1>1 DEF Known
  <1>2. CASE k = Participants /\ k \notin Chats
    <2>1. k \in State /\ seen[k] = version /\ version \in Nat
      BY <1>2 DEF Known, State, Typed, ManagerTypes
    <2>2. seen[k] <= seen'[k] /\ seen'[k] <= version /\ seen'[k] \in Nat
      BY <1>2, <2>1 DEF OrderInv, InOrder
    <2>3. QED
      BY <1>2, <2>1, <2>2 DEF Known
  <1>3. QED
    BY <1>1, <1>2, ReportsOwed

\* A request that was applied makes its content known.
LEMMA PostKnown ==
  ASSUME Typed, Typed', NEW k \in Keys, NEW v, NEW applied \in BOOLEAN,
         NEW result, Post(k, v, applied, result), UNCHANGED version
  PROVE  /\ delivered \subseteq delivered'
         /\ \A s \in State : seen'[s] \in Nat
         /\ result = "done" /\ k \in Owed /\ (k = Participants => v = version)
              => Known(k)'
  <1>1. \A s \in State : seen'[s] \in Nat
    BY DEF Typed, OtherTypes
  <1>2. CASE applied /\ Apply(k, v)
    BY <1>1, <1>2, ReportsOwed DEF Apply, Known
  <1>3. CASE ~applied /\ UNCHANGED <<seen, delivered>>
    BY <1>1, <1>3 DEF Post
  <1>4. QED
    BY <1>2, <1>3 DEF Post

\* A publication that succeeds tells the newest, or the newest is coming; one
\* that fails stays with the callback; one that is refused is excused.
LEMMA PublishPromises ==
  ASSUME Typed, Typed', OrderInv, OrderInv', Promises, NEW c \in Callbacks,
         NEW applied \in BOOLEAN, NEW result \in Results,
         Publish(c, applied, result), Numbered',
         seen[Participants] <= seen'[Participants]
  PROVE  Promises'
  <1> DEFINE r == callbacks[c]
  <1>1. /\ r.pc = "publish"
        /\ UNCHANGED <<manager, content, queues, loops>>
        /\ Post(r.key, r.version, applied, result)
    BY DEF Publish
  <1>2. UNCHANGED <<job, stopping, disconnected, reconnectGeneration,
                    workerRetry, version, received, pending, latest, stopped>>
    BY <1>1 DEF manager, content, queues
  <1>3. r.key \in Keys /\ r.pc \in Inside
    BY <1>1 DEF Typed, CallbackTypes, Inside
  <1>4. /\ delivered \subseteq delivered'
        /\ \A s \in State : seen'[s] \in Nat
        /\ \A k \in Owed :
             /\ result = "done" /\ k = r.key
             /\ k = Participants => r.version = version
             => Known(k)'
    <2>1. PICK k \in Keys : k = callbacks[c].key
      BY <1>3
    <2>2. PICK v : v = callbacks[c].version
      OBVIOUS
    <2>3. Post(k, v, applied, result)
      BY <1>1, <2>1, <2>2
    <2>4. /\ delivered \subseteq delivered'
          /\ \A s \in State : seen'[s] \in Nat
          /\ result = "done" /\ k \in Owed /\ (k = Participants => v = version)
               => Known(k)'
      BY <1>2, <2>3, PostKnown
    <2>5. QED
      BY <2>1, <2>2, <2>4
  <1>5. ASSUME NEW k \in Reports, Known(k) PROVE Known(k)'
    BY <1>2, <1>4, <1>5, KnownKept, ReportsOwed
  <1>6. ASSUME NEW k \in Reports, Queued(workerRetry, k) PROVE Accounted(k)'
    BY <1>1, <1>2, <1>6, QueuedKept
  <1>7. /\ \A d \in Callbacks : d # c => callbacks[d].pc \notin Inside
        /\ \A q \in QueueIds : loops[q].pc # "publish"
    BY <1>3, Alone
  <1>8. CASE /\ result \in {"done", "failed"}
             /\ callbacks' = [callbacks EXCEPT ![c].pc = result]
             /\ UNCHANGED excused
    <2>1. /\ \A d \in Callbacks : d # c => callbacks'[d] = callbacks[d]
          /\ callbacks'[c].pc = result
          /\ callbacks'[c].key = r.key
          /\ callbacks'[c].gen = r.gen
          /\ callbacks'[c].job = r.job
          /\ callbacks'[c].queue = r.queue
      BY <1>8 DEF Typed, CallbackTypes, Callback
    <2>2. Fresh' /\ Installed'
      BY <1>1, <1>8, <2>1, CallbackKeeps DEF Promises
    <2>3. ASSUME Live, NEW k \in Owed, k = r.key, r.gen = reconnectGeneration,
                 result = "done"
          PROVE  Known(k)' \/ (Coming(k)' /\ Accounted(k)')
      <3>1. Obliged(c)
        BY <2>3 DEF Promises, Covered
      <3>2. (k = Participants => r.version = version) \/ Coming(k)
        BY <1>1, <2>3, <3>1 DEF Obliged
      <3>3. CASE Coming(k)
        BY <1>1, <1>2, <1>8, <2>1, <3>3, ComingKept
      <3>4. CASE k = Participants => r.version = version
        BY <1>4, <2>3, <3>4
      <3>5. QED
        BY <3>2, <3>3, <3>4
    <2>4. Live' => Obliged(c)'
      <3> SUFFICES ASSUME Live', callbacks'[c].gen = reconnectGeneration',
                          callbacks'[c].key \in Owed, result = "done"
                   PROVE  Known(r.key)' \/ Coming(r.key)'
        BY <1>8, <2>1 DEF Obliged
      <3>1. Live /\ r.gen = reconnectGeneration /\ r.key \in Owed
        BY <1>2, <2>1 DEF Live
      <3>2. PICK k \in Owed : k = callbacks[c].key
        BY <3>1
      <3>3. Known(k)' \/ Coming(k)'
        BY <2>3, <3>1, <3>2
      <3>4. k = callbacks'[c].key
        BY <2>1, <3>2
      <3>5. QED
        BY <3>3, <3>4
    <2>5. Covered'
      BY <1>1, <1>7, <2>1, <2>4, CoveredByOne
    <2>6. ASSUME NEW k \in Reports, Armed, Carries(c, k) PROVE Accounted(k)'
      <3>1. /\ Live /\ k \in Owed /\ k = r.key
            /\ r.gen = reconnectGeneration
        BY <2>6, ReportsOwed DEF Armed, Carries
      <3>2. CASE result = "done"
        <4>1. Known(k)' \/ Accounted(k)'
          BY <2>3, <3>1, <3>2
        <4>2. QED
          BY <4>1 DEF Accounted
      <3>3. CASE result = "failed"
        <4>1. Carries(c, k)'
          BY <1>2, <2>1, <3>1, <3>3 DEF Carries
        <4>2. QED
          BY <4>1 DEF Accounted
      <3>4. QED
        BY <1>8, <3>2, <3>3
    <2>7. AllAccounted'
      BY <1>1, <1>2, <1>5, <1>6, <1>8, <2>1, <2>6, CallbackAccounts
         DEF Promises
    <2>8. QED
      BY <2>2, <2>5, <2>7 DEF Promises
  <1>9. CASE MoveOn(c) /\ excused' = excused \cup {r.key}
    <2>1. /\ \A d \in Callbacks : d # c => callbacks'[d] = callbacks[d]
          /\ callbacks'[c].queue = 0
          /\ \/ callbacks'[c].pc = "idle" /\ callbacks'[c].key = NoKey
             \/ /\ callbacks'[c].pc = "wait"
                /\ callbacks'[c].key = Speaker
                /\ callbacks'[c].gen = callbacks[c].gen
                /\ callbacks'[c].job = callbacks[c].job
      BY <1>9, MoveOnLeaves
    <2>2. Fresh' /\ Installed'
      BY <1>1, <2>1, CallbackKeeps DEF Promises
    <2>3. Obliged(c)'
      BY <2>1, ReportsOwed DEF Obliged
    <2>4. Covered'
      BY <1>1, <1>7, <2>1, <2>3, CoveredByOne
    <2>5. ASSUME NEW k \in Reports, Carries(c, k) PROVE Accounted(k)'
      BY <1>9, <2>5 DEF Carries, Accounted
    <2>6. AllAccounted'
      BY <1>1, <1>2, <1>5, <1>6, <1>9, <2>1, <2>5, CallbackAccounts
         DEF Promises
    <2>7. QED
      BY <2>2, <2>4, <2>6 DEF Promises
  <1>10. QED
    BY <1>8, <1>9 DEF Publish

\* A callback that ends a report it is not to hand on, or that somebody else
\* has, keeps every promise.
LEMMA LeavePromises ==
  ASSUME Typed, OrderInv, Promises, NEW c \in Callbacks,
         callbacks[c].pc \in Inside, MoveOn(c), Numbered',
         UNCHANGED <<manager, content, stopped, loops, worker>>,
         excused \subseteq excused',
         \A k \in Reports : Armed /\ Carries(c, k) => Accounted(k)',
         \A k \in Reports :
           Armed /\ Queued(workerRetry, k) => Accounted(k)'
  PROVE  Promises'
  <1>1. /\ \A d \in Callbacks : d # c => callbacks'[d] = callbacks[d]
        /\ callbacks'[c].queue = 0
        /\ \/ callbacks'[c].pc = "idle" /\ callbacks'[c].key = NoKey
           \/ /\ callbacks'[c].pc = "wait"
              /\ callbacks'[c].key = Speaker
              /\ callbacks'[c].gen = callbacks[c].gen
              /\ callbacks'[c].job = callbacks[c].job
    BY MoveOnLeaves
  <1>2. callbacks[c].pc # "idle"
    BY DEF Inside
  <1>3. Fresh' /\ Installed'
    BY <1>1, <1>2, CallbackKeeps DEF Promises
  <1>4. Obliged(c)'
    BY <1>1, ReportsOwed DEF Obliged
  <1>5. Covered'
    BY <1>1, <1>4, Alone, CoveredByOne
  <1>6. ASSUME NEW k \in Reports, Known(k) PROVE Known(k)'
    BY <1>6 DEF Known, worker, content
  <1>7. received' = received
    BY DEF content
  <1>8. AllAccounted'
    BY <1>1, <1>6, <1>7, CallbackAccounts DEF Promises
  <1>9. QED
    BY <1>3, <1>5, <1>8 DEF Promises

\* Whoever looks for the queue of his generation finds it while the job is
\* live.
LEMMA LookupPromises ==
  ASSUME Typed, OrderInv, Promises, NEW c \in Callbacks, Lookup(c), Numbered'
  PROVE  Promises'
  <1> DEFINE r == callbacks[c]
             valid == /\ workerRetry # 0 /\ job = r.job
                      /\ reconnectGeneration = r.gen
  <1>1. /\ r.pc \in {"done", "failed"}
        /\ UNCHANGED <<manager, content, queues, loops, worker, excused>>
    BY DEF Lookup
  <1>2. UNCHANGED <<job, stopping, disconnected, reconnectGeneration,
                    workerRetry, version, received, pending, latest, stopped,
                    seen, delivered>>
    BY <1>1 DEF manager, content, queues, worker
  <1>3. r.pc \in Inside /\ r.pc # "idle" /\ r.pc # "wait"
    BY <1>1 DEF Inside
  <1>4. ASSUME NEW k \in Reports, Queued(workerRetry, k) PROVE Accounted(k)'
    BY <1>1, <1>2, <1>4, QueuedKept
  <1>5. CASE /\ valid
             /\ callbacks' = [callbacks EXCEPT
                  ![c].pc = IF r.pc = "done" THEN "supersede" ELSE "enqueue",
                  ![c].queue = workerRetry]
    <2>1. /\ \A d \in Callbacks : d # c => callbacks'[d] = callbacks[d]
          /\ callbacks'[c].pc = IF r.pc = "done" THEN "supersede"
                                ELSE "enqueue"
          /\ callbacks'[c].key = r.key
          /\ callbacks'[c].gen = r.gen
          /\ callbacks'[c].job = r.job
          /\ callbacks'[c].queue = workerRetry
      BY <1>5 DEF Typed, CallbackTypes, Callback
    <2>2. Fresh' /\ Installed'
      BY <1>1, <1>3, <1>5, <2>1, CallbackKeeps DEF Promises
    <2>3. ASSUME Live', callbacks'[c].key \in Owed, r.pc = "done"
          PROVE  \E k : /\ k = callbacks'[c].key
                        /\ Known(k)' \/ Coming(k)'
      <3>1. Live
        BY <1>2, <2>3 DEF Live
      <3>2. PICK k \in Owed : k = callbacks[c].key
        BY <2>1, <2>3
      <3>3. Obliged(c)
        BY <3>1 DEF Promises, Covered
      <3>4. Known(k) \/ Coming(k)
        BY <1>5, <2>3, <3>2, <3>3 DEF Obliged
      <3>5. CASE Known(k)
        <4>1. Known(k)'
          BY <1>2, <3>5 DEF Known
        <4>2. QED
          BY <2>1, <3>2, <4>1
      <3>6. CASE Coming(k)
        <4>1. Coming(k)'
          BY <1>1, <1>2, <1>3, <2>1, <3>6, ComingKept
        <4>2. QED
          BY <2>1, <3>2, <4>1
      <3>7. QED
        BY <3>4, <3>5, <3>6
    <2>4. Live' => Obliged(c)'
      BY <1>1, <1>2, <2>1, <2>3 DEF Obliged
    <2>5. Covered'
      BY <1>1, <1>3, <2>1, <2>4, Alone, CoveredByOne
    <2>6. ASSUME NEW k \in Reports, Carries(c, k) PROVE Accounted(k)'
      <3>1. Carries(c, k)'
        BY <1>1, <1>2, <2>1, <2>6 DEF Carries
      <3>2. QED
        BY <3>1 DEF Accounted
    <2>7. ASSUME NEW k \in Reports, Known(k) PROVE Known(k)'
      BY <1>2, <2>7 DEF Known
    <2>8. AllAccounted'
      BY <1>1, <1>2, <1>4, <2>1, <2>6, <2>7, CallbackAccounts DEF Promises
    <2>9. QED
      BY <2>2, <2>5, <2>8 DEF Promises
  <1>6. CASE ~valid /\ MoveOn(c)
    <2>1. ASSUME NEW k \in Reports, Armed, Carries(c, k) PROVE FALSE
      <3>1. r.gen = reconnectGeneration /\ Live /\ job # 0
        BY <2>1 DEF Carries, Armed, Live
      <3>2. r.job = job /\ workerRetry # 0
        BY <1>3, <3>1 DEF Promises, Fresh, Installed
      <3>3. QED
        BY <1>6, <3>1, <3>2
    <2>2. QED
      BY <1>1, <1>2, <1>3, <1>4, <1>6, <2>1, LeavePromises
  <1>7. QED
    BY <1>5, <1>6, Zenon DEF Lookup

\* supersedeWorkerEventRetry takes a report away only when the Worker knows
\* the newest, or the newest is coming.
LEMMA SupersedePromises ==
  ASSUME Typed, OrderInv, Promises, NEW c \in Callbacks, Supersede(c),
         Numbered'
  PROVE  Promises'
  <1> DEFINE q == callbacks[c].queue
             k == callbacks[c].key
  <1>1. /\ callbacks[c].pc = "supersede" /\ MoveOn(c)
        /\ UNCHANGED <<manager, content, stopped, loops, worker, excused>>
    BY DEF Supersede
  <1>2. UNCHANGED <<job, stopping, disconnected, reconnectGeneration,
                    workerRetry, version, received, seen, delivered>>
    BY <1>1 DEF manager, content, worker
  <1>3. /\ callbacks[c].pc \in Inside /\ callbacks[c].pc # "wait"
        /\ q \in QueueIds /\ k \in Keys
    BY <1>1, HasQueue DEF Inside
  <1>4. \A x : ~Carries(c, x)
    BY <1>1 DEF Carries
  <1>5. ASSUME NEW x \in Reports, Armed, Queued(workerRetry, x)
        PROVE  Accounted(x)'
    <2>1. /\ workerRetry \in QueueIds /\ x \in Keys /\ x \in Owed
          /\ Live /\ ~stopped[workerRetry]
      <3>1. workerRetry # 0 /\ workerRetry \in 0..MaxQueues
        BY <1>5 DEF Promises, Installed, Armed, Typed, ManagerTypes
      <3>2. workerRetry \in QueueIds
        BY <3>1, ReportsAssumption DEF QueueIds
      <3>3. QED
        BY <1>5, <3>2, ReportsOwed DEF Armed, Owed
    <2>2. CASE q = workerRetry /\ x = k
      <3>1. callbacks[c].gen = reconnectGeneration
        BY <1>1, <2>2 DEF Promises, Installed
      <3>2. Obliged(c)
        BY <2>1 DEF Promises, Covered
      <3>3. Known(x) \/ Coming(x)
        BY <1>1, <2>1, <2>2, <3>1, <3>2 DEF Obliged
      <3>4. CASE Known(x)
        <4>1. Known(x)'
          BY <1>2, <3>4 DEF Known
        <4>2. QED
          BY <4>1 DEF Accounted
      <3>5. CASE Coming(x)
        BY <1>1, <1>2, <1>3, <3>5, MoveOnLeaves, ComingKept
      <3>6. QED
        BY <3>3, <3>4, <3>5
    <2>3. CASE ~(q = workerRetry /\ x = k)
      <3>1. /\ pending'[workerRetry][x] = pending[workerRetry][x]
            /\ latest'[workerRetry][x] = latest[workerRetry][x]
        <4>1. CASE UNCHANGED <<pending, latest>>
          BY <4>1
        <4>2. CASE Put(q, k, NoReport) /\ Mark(q, k, 0)
          <5> HIDE DEF q, k
          <5>1. QED
            BY <1>3, <2>1, <2>3, <4>2, PutAt, MarkAt
        <4>3. QED
          BY <4>1, <4>2 DEF Supersede
      <3>2. Queued(workerRetry, x)'
        BY <1>1, <1>2, <1>5, <2>1, <3>1
           DEF Queued, Waiting, InHand, IsLatest
      <3>3. QED
        BY <3>2 DEF Accounted
    <2>4. QED
      BY <2>2, <2>3
  <1>6. QED
    BY <1>1, <1>3, <1>4, <1>5, LeavePromises

\* enqueue puts the report into the queue of the job, or that queue is gone
\* and its keys are excused; the chat message it drops is excused.
LEMMA EnqueuePromises ==
  ASSUME Typed, OrderInv, RoomInv, Promises, NEW c \in Callbacks,
         EnqueueReport(c), Numbered'
  PROVE  Promises'
  <1> DEFINE q == callbacks[c].queue
             k == callbacks[c].key
  <1>1. /\ callbacks[c].pc = "enqueue" /\ MoveOn(c)
        /\ UNCHANGED <<manager, content, stopped, loops, worker>>
    BY DEF EnqueueReport
  <1>2. UNCHANGED <<job, stopping, disconnected, reconnectGeneration,
                    workerRetry, version, received, seen, delivered>>
    BY <1>1 DEF manager, content, worker
  <1>3. /\ callbacks[c].pc \in Inside /\ callbacks[c].pc # "wait"
        /\ q \in QueueIds /\ k \in Keys
    BY <1>1, HasQueue DEF Inside
  <1>4. Armed => /\ workerRetry \in QueueIds
                 /\ Live /\ ~stopped[workerRetry]
    <2>1. Armed => workerRetry # 0 /\ workerRetry \in 0..MaxQueues
      BY DEF Promises, Installed, Armed, Typed, ManagerTypes
    <2>2. QED
      BY <2>1, ReportsAssumption DEF QueueIds, Armed
  <1>5. k \in State => Evict(q, k) # {}
    BY <1>3, StateFits
  <1>6. ASSUME NEW x \in Reports, Armed, Carries(c, x), q # workerRetry,
               excused \subseteq excused'
        PROVE  Accounted(x)'
    <2>1. /\ x = k /\ callbacks[c].gen = reconnectGeneration
          /\ k \in Owed
      BY <1>6, ReportsOwed DEF Carries
    <2>2. Obliged(c)
      BY <1>4, <1>6 DEF Promises, Covered
    <2>3. Coming(x)
      BY <1>1, <1>6, <2>1, <2>2 DEF Obliged
    <2>4. QED
      BY <1>1, <1>2, <1>3, <1>6, <2>3, MoveOnLeaves, ComingKept
  <1>7. ASSUME Accepts(q), NEW d \in Keys \cup {NoKey},
               Enqueue(q, k, callbacks[c].version, d)
        PROVE  Promises'
    <2>1. excused' = excused \cup ({d} \ {NoKey})
      BY <1>7 DEF Enqueue
    <2> HIDE DEF q, k
    <2>2. ASSUME NEW x \in Reports, Armed, Carries(c, x)
          PROVE  Accounted(x)'
      <3>1. CASE q = workerRetry
        <4>1. x = k /\ k \in Keys
          BY <1>3, <2>2 DEF Carries, k
        <4>2. /\ sequence[q] + 1 # 0
              /\ pending'[q][k].seq = sequence[q] + 1
          BY <1>3, <1>7, EnqueueAt
        <4>3. k \in Waiting(workerRetry)'
          BY <1>2, <3>1, <4>1, <4>2 DEF Waiting
        <4>4. QED
          BY <4>1, <4>3 DEF Accounted, Queued
      <3>2. CASE q # workerRetry
        BY <1>6, <2>1, <2>2, <3>2
      <3>3. QED
        BY <3>1, <3>2
    <2>3. ASSUME NEW x \in Reports, Armed, Queued(workerRetry, x)
          PROVE  Accounted(x)'
      <3>1. x \in Keys /\ workerRetry \in QueueIds
        BY <1>4, <2>3, ReportsOwed DEF Owed
      <3>2. x # NoKey
        BY <3>1, ReportsAssumption
      <3>3. CASE q = workerRetry /\ x = k
        <4>1. /\ sequence[q] + 1 # 0
              /\ pending'[q][k].seq = sequence[q] + 1
          BY <1>3, <1>7, EnqueueAt
        <4>2. x \in Waiting(workerRetry)'
          BY <1>2, <3>1, <3>3, <4>1 DEF Waiting
        <4>3. QED
          BY <4>2 DEF Accounted, Queued
      <3>4. CASE x = d
        BY <2>1, <3>2, <3>4 DEF Accounted
      <3>5. CASE ~(q = workerRetry /\ x = k) /\ x # d
        <4>1. /\ pending'[workerRetry][x] = pending[workerRetry][x]
              /\ latest'[workerRetry][x] = latest[workerRetry][x]
          BY <1>3, <1>7, <3>1, <3>5, EnqueueAt
        <4>2. Queued(workerRetry, x)'
          BY <1>1, <1>2, <2>3, <3>1, <4>1
             DEF Queued, Waiting, InHand, IsLatest
        <4>3. QED
          BY <4>2 DEF Accounted
      <3>6. QED
        BY <3>3, <3>4, <3>5
    <2>4. QED
      BY <1>1, <1>3, <2>1, <2>2, <2>3, LeavePromises
  <1>8. CASE ~Accepts(q) /\ UNCHANGED <<pending, latest, sequence, excused>>
    <2>1. ASSUME NEW x \in Reports, Queued(workerRetry, x)
          PROVE  Accounted(x)'
      BY <1>1, <1>2, <1>8, <2>1, QueuedKept
    <2>2. ASSUME NEW x \in Reports, Armed, Carries(c, x)
          PROVE  Accounted(x)'
      <3>1. q # workerRetry
        BY <1>4, <1>8, <2>2 DEF Accepts
      <3>2. QED
        BY <1>6, <1>8, <2>2, <3>1
    <2>3. QED
      BY <1>1, <1>3, <1>8, <2>1, <2>2, LeavePromises
  <1>9. CASE /\ Evict(q, k) = {}
             /\ excused' = excused \cup ({k} \cap Chats)
             /\ UNCHANGED <<pending, latest, sequence>>
    <2>1. ASSUME NEW x \in Reports, Queued(workerRetry, x)
          PROVE  Accounted(x)'
      BY <1>1, <1>2, <1>9, <2>1, QueuedKept
    <2>2. ASSUME NEW x \in Reports, Armed, Carries(c, x)
          PROVE  Accounted(x)'
      <3>1. x = k /\ x \in Keys
        BY <1>3, <2>2 DEF Carries
      <3>2. x \in Chats
        BY <1>5, <1>9, <3>1 DEF Keys, State
      <3>3. QED
        BY <1>9, <3>1, <3>2 DEF Accounted
    <2>3. QED
      BY <1>1, <1>3, <1>9, <2>1, <2>2, LeavePromises
  <1>10. QED
    BY <1>7, <1>8, <1>9, Zenon DEF EnqueueReport

\* A step of a queue or of its loop that tells the Worker nothing keeps every
\* promise, as long as what waited is accounted for.
LEMMA QuietPromises ==
  ASSUME Typed, Promises, NEW q \in QueueIds, Numbered',
         UNCHANGED <<job, stopping, disconnected, reconnectGeneration,
                     workerRetry, queuesMade, callbacks, content, worker,
                     excused>>,
         \A p \in QueueIds : p # q => loops'[p] = loops[p],
         \/ loops'[q] = loops[q]
         \/ loops'[q].pc # "publish"
         \/ loops'[q].key = Participants => loops'[q].version = version,
         Armed' => Armed,
         \A k \in Reports :
           Armed' /\ Queued(workerRetry, k) => Queued(workerRetry, k)'
  PROVE  Promises'
  <1>1. UNCHANGED <<version, received, seen, delivered>>
    BY DEF content, worker
  <1>2. Fresh' /\ Installed'
    BY OthersKeep DEF Promises
  <1>3. ASSUME NEW k PROVE /\ Known(k)' <=> Known(k)
                           /\ Coming(k)' <=> Coming(k)
                           /\ \A c \in Callbacks :
                                Carries(c, k) => Carries(c, k)'
    BY <1>1 DEF Known, Coming, Asked, Carries
  <1>4. ASSUME Live' PROVE /\ \A c \in Callbacks : Obliged(c)'
                           /\ \A p \in QueueIds : LoopObliged(p)'
    <2>1. /\ \A c \in Callbacks : Obliged(c)
          /\ \A p \in QueueIds : LoopObliged(p)
      BY <1>4 DEF Promises, Covered, Live
    <2>2. \A c \in Callbacks : Obliged(c)'
      BY <1>1, <1>3, <2>1 DEF Obliged
    <2>3. ASSUME NEW p \in QueueIds PROVE LoopObliged(p)'
      <3>1. CASE loops'[p] = loops[p]
        BY <1>1, <1>3, <2>1, <3>1 DEF LoopObliged
      <3>2. CASE \/ loops'[p].pc # "publish"
                 \/ loops'[p].key = Participants => loops'[p].version = version
        BY <1>1, <3>2 DEF LoopObliged
      <3>3. QED
        BY <3>1, <3>2
    <2>4. QED
      BY <2>2, <2>3
  <1>5. ASSUME Armed', NEW k \in Reports' PROVE Accounted(k)'
    <2>1. k \in Reports /\ Accounted(k)
      BY <1>1, <1>5 DEF Promises, AllAccounted, Reports
    <2>2. QED
      BY <1>3, <1>5, <2>1 DEF Accounted
  <1>6. QED
    BY <1>2, <1>4, <1>5 DEF Promises, Covered, AllAccounted

\* The queue of the job, while it runs, is a queue.
LEMMA ArmedQueue ==
  ASSUME Typed, Installed, Armed
  PROVE  workerRetry \in QueueIds /\ Live /\ ~stopped[workerRetry]
  BY ReportsAssumption DEF Installed, Armed, Typed, ManagerTypes, QueueIds

\* stopAndWait, the taking of a report, and the end of a loop.
LEMMA QuietSteps ==
  ASSUME Typed, Promises, NEW q \in QueueIds, Numbered',
         \/ StopQueue(q) \/ (\E k \in Keys : Takes(q, k)) \/ Drops(q)
         \/ Refreshes(q) \/ Ends(q)
  PROVE  Promises'
  <1>1. loops \in [QueueIds -> Loop]
    BY DEF Typed, LoopTypes
  <1>2. Armed => workerRetry \in QueueIds /\ Live /\ ~stopped[workerRetry]
    BY ArmedQueue DEF Promises
  <1>3. CASE StopQueue(q)
    <2>1. /\ UNCHANGED <<job, stopping, disconnected, reconnectGeneration,
                         workerRetry, queuesMade, callbacks, content, worker,
                         excused, loops>>
          /\ retiring' = retiring \ {q}
          /\ stopped' = [stopped EXCEPT ![q] = TRUE]
          /\ pending' = [pending EXCEPT ![q] = [k \in Keys |-> NoReport]]
          /\ latest' = [latest EXCEPT ![q] = [k \in Keys |-> 0]]
      BY <1>3 DEF StopQueue
    <2>2. /\ stopped'[q] = TRUE
          /\ \A p : p # q => /\ stopped'[p] = stopped[p]
                             /\ pending'[p] = pending[p]
                             /\ latest'[p] = latest[p]
      BY <2>1 DEF Typed, BookTypes, PendingTypes
    <2>3. Armed' => workerRetry # q
      BY <2>1, <2>2 DEF Armed
    <2>4. Armed' => Armed
      BY <2>1, <2>2, <2>3 DEF Armed, Live
    <2>5. ASSUME NEW k, Armed', Queued(workerRetry, k)
          PROVE  Queued(workerRetry, k)'
      BY <2>1, <2>2, <2>3, <2>5 DEF Queued, Waiting, InHand, IsLatest
    <2>6. QED
      BY <2>1, <2>4, <2>5, QuietPromises
  <1>4. ASSUME NEW k \in Keys, Takes(q, k) PROVE Promises'
    <2>1. /\ UNCHANGED <<manager, content, latest, stopped, callbacks, worker,
                         excused>>
          /\ loops[q].pc = "idle" /\ k \in Waiting(q)
          /\ Put(q, k, NoReport)
      BY <1>4 DEF Takes
    <2>2. UNCHANGED <<job, stopping, disconnected, reconnectGeneration,
                      workerRetry, queuesMade, retiring>>
      BY <2>1 DEF manager
    <2>3. /\ loops'[q].pc = "taken"
          /\ loops'[q].key = k
          /\ loops'[q].seq = pending[q][k].seq
          /\ \A p \in QueueIds : p # q => loops'[p] = loops[p]
      BY <1>1, <1>4 DEF Takes
    <2>4. Armed' => Armed
      BY <2>1, <2>2 DEF Armed, Live
    <2>5. ASSUME NEW x \in Reports, Armed', Queued(workerRetry, x)
          PROVE  Queued(workerRetry, x)'
      <3>1. workerRetry \in QueueIds /\ ~stopped[workerRetry] /\ x \in Keys
        BY <1>2, <2>4, <2>5, ReportsOwed DEF Owed
      <3>2. CASE workerRetry = q /\ x = k
        <4>1. latest[q][k] = pending[q][k].seq
          BY <2>1 DEF Promises, Numbered, Waiting
        <4>2. QED
          BY <2>1, <2>2, <2>3, <3>1, <3>2, <4>1 DEF Queued, InHand, IsLatest
      <3>3. CASE workerRetry = q /\ x # k
        <4>1. x \in Waiting(q)
          BY <2>1, <2>5, <3>3 DEF Queued, InHand
        <4>2. x \in Waiting(q)'
          BY <2>1, <3>1, <3>3, <4>1, PutAt DEF Waiting
        <4>3. QED
          BY <2>2, <3>3, <4>2 DEF Queued
      <3>4. CASE workerRetry # q
        <4>1. \A y \in Keys :
                pending'[workerRetry][y] = pending[workerRetry][y]
          BY <2>1, <3>1, <3>4, PutAt
        <4>2. loops'[workerRetry] = loops[workerRetry]
          BY <2>3, <3>1, <3>4
        <4>3. QED
          BY <2>1, <2>2, <2>5, <4>1, <4>2
             DEF Queued, Waiting, InHand, IsLatest
      <3>5. QED
        BY <3>2, <3>3, <3>4
    <2>6. QED
      BY <2>1, <2>2, <2>3, <2>4, <2>5, QuietPromises
  <1>5. CASE Drops(q)
    <2>1. /\ UNCHANGED <<manager, content, stopped, callbacks, worker,
                         excused>>
          /\ loops[q].pc = "taken" /\ ~IsCurrent(q)
      BY <1>5 DEF Drops
    <2>2. UNCHANGED <<job, stopping, disconnected, reconnectGeneration,
                      workerRetry, queuesMade, retiring>>
      BY <2>1 DEF manager
    <2>3. /\ loops'[q].pc = "idle"
          /\ \A p \in QueueIds : p # q => loops'[p] = loops[p]
      BY <1>1, <1>5 DEF Drops, Sleep, Asleep
    <2>4. Armed' => Armed
      BY <2>1, <2>2 DEF Armed, Live
    <2>5. ASSUME NEW x \in Reports, Armed', Queued(workerRetry, x)
          PROVE  Queued(workerRetry, x)'
      <3>1. workerRetry \in QueueIds /\ ~stopped[workerRetry]
        BY <1>2, <2>4, <2>5
      <3>2. CASE workerRetry = q
        <4>1. ~IsLatest(q) /\ latest[q][loops[q].key] # loops[q].seq
          BY <2>1, <3>1, <3>2 DEF IsCurrent, IsLatest
        <4>2. UNCHANGED pending
          BY <1>5, <4>1 DEF Drops
        <4>3. x \in Waiting(q)
          BY <2>5, <3>2, <4>1 DEF Queued
        <4>4. QED
          BY <2>2, <3>2, <4>2, <4>3 DEF Queued, Waiting
      <3>3. CASE workerRetry # q
        <4>1. loops[q].key \in Keys
          BY <2>1 DEF Typed, LoopTypes
        <4>2. pending'[workerRetry] = pending[workerRetry]
              /\ latest'[workerRetry] = latest[workerRetry]
          BY <1>5, <3>1, <3>3 DEF Drops, Put, Mark, Typed, PendingTypes,
               BookTypes
        <4>3. loops'[workerRetry] = loops[workerRetry]
          BY <2>3, <3>1, <3>3
        <4>4. QED
          BY <2>1, <2>2, <2>5, <4>2, <4>3
             DEF Queued, Waiting, InHand, IsLatest
      <3>4. QED
        BY <3>2, <3>3
    <2>6. QED
      BY <2>1, <2>2, <2>3, <2>4, <2>5, QuietPromises
  <1>6. CASE Refreshes(q) \/ Ends(q)
    <2>1. UNCHANGED <<manager, content, pending, latest, stopped, callbacks,
                      worker, excused>>
      BY <1>6 DEF Refreshes, Ends, queues
    <2>2. UNCHANGED <<job, stopping, disconnected, reconnectGeneration,
                      workerRetry, queuesMade, retiring>>
      BY <2>1 DEF manager
    <2>3. /\ \/ loops[q].pc = "taken" /\ loops'[q].pc = "publish"
             \/ loops[q].pc = "idle" /\ loops'[q].pc = "ended"
          /\ loops'[q].pc = "publish" /\ loops'[q].key = Participants =>
               loops'[q].version = version
          /\ loops'[q].key = loops[q].key
          /\ loops'[q].seq = loops[q].seq
          /\ \A p \in QueueIds : p # q => loops'[p] = loops[p]
      BY <1>1, <1>6, ReportsAssumption DEF Refreshes, Ends, Loop, Refreshed
    <2>4. Armed' => Armed
      BY <2>1, <2>2 DEF Armed, Live
    <2>5. ASSUME NEW x \in Reports, Armed', Queued(workerRetry, x)
          PROVE  Queued(workerRetry, x)'
      <3>1. workerRetry \in QueueIds
        BY <1>2, <2>4, <2>5
      <3>2. CASE workerRetry = q
        BY <2>1, <2>2, <2>3, <2>5, <3>2 DEF Queued, Waiting, InHand, IsLatest
      <3>3. CASE workerRetry # q
        <4>1. loops'[workerRetry] = loops[workerRetry]
          BY <2>3, <3>1, <3>3
        <4>2. QED
          BY <2>1, <2>2, <2>5, <4>1 DEF Queued, Waiting, InHand, IsLatest
      <3>4. QED
        BY <3>2, <3>3
    <2>6. QED
      BY <2>1, <2>2, <2>3, <2>4, <2>5, QuietPromises
  <1>7. QED
    BY <1>3, <1>4, <1>5, <1>6

\* A retry that succeeds tells the newest, or the newest is coming; one that
\* may be repeated goes back to the queue; the others are excused.
LEMMA RetriesPromises ==
  ASSUME Typed, Typed', OrderInv, OrderInv', Promises, NEW q \in QueueIds,
         NEW applied \in BOOLEAN, NEW result \in Results,
         Retries(q, applied, result), Numbered',
         seen[Participants] <= seen'[Participants]
  PROVE  Promises'
  <1>1. PICK k : k = loops[q].key
    OBVIOUS
  <1>2. PICK v : v = loops[q].version
    OBVIOUS
  <1>3. PICK n : n = loops[q].seq
    OBVIOUS
  <1>4. /\ loops[q].pc = "publish"
        /\ UNCHANGED <<manager, content, sequence, stopped, callbacks>>
        /\ Post(k, v, applied, result)
        /\ Sleep(q)
    BY <1>1, <1>2 DEF Retries
  <1>5. UNCHANGED <<job, stopping, disconnected, reconnectGeneration,
                    workerRetry, queuesMade, retiring, version, received>>
    BY <1>4 DEF manager, content
  <1>6. k \in Keys /\ n # 0 /\ InHand(q)
    BY <1>1, <1>3, <1>4 DEF Typed, LoopTypes, Promises, Numbered, InHand
  <1>7. /\ delivered \subseteq delivered'
        /\ \A s \in State : seen'[s] \in Nat
        /\ result = "done" /\ k \in Owed /\ (k = Participants => v = version)
             => Known(k)'
    BY <1>4, <1>5, <1>6, PostKnown
  <1>8. ASSUME NEW x \in Reports, Known(x) PROVE Known(x)'
    BY <1>5, <1>7, <1>8, KnownKept, ReportsOwed
  <1>9. /\ loops'[q].pc = "idle"
        /\ \A p \in QueueIds : p # q => loops'[p] = loops[p]
    BY <1>4 DEF Sleep, Asleep, Typed, LoopTypes
  <1>10. /\ \A c \in Callbacks : callbacks[c].pc \notin Inside
         /\ \A p \in QueueIds : loops'[p].pc # "publish"
    <2>1. \A p \in QueueIds : p # q => loops[p].pc # "publish"
      BY <1>4 DEF OrderInv, Exclusive
    <2>2. \A c \in Callbacks : callbacks[c].pc \notin Inside
      BY <1>4 DEF OrderInv, Exclusive
    <2>3. QED
      BY <1>9, <2>1, <2>2
  <1>11. excused \subseteq excused'
    BY DEF Retries
  <1>12. Fresh' /\ Installed'
    BY <1>4, <1>5, OthersKeep DEF Promises
  <1>13. Covered'
    <2>1. {"publish", "done", "supersede", "enqueue"} \subseteq Inside
      BY DEF Inside
    <2>2. ASSUME NEW c \in Callbacks PROVE Obliged(c)'
      BY <1>4, <1>10, <2>1 DEF Obliged
    <2>3. ASSUME NEW p \in QueueIds PROVE LoopObliged(p)'
      BY <1>10 DEF LoopObliged
    <2>4. QED
      BY <2>2, <2>3 DEF Covered
  <1>14. ASSUME NEW x \in Reports, Armed, Queued(workerRetry, x)
         PROVE  Accounted(x)'
    <2>1. /\ workerRetry \in QueueIds /\ Live /\ ~stopped[workerRetry]
          /\ x \in Keys /\ x \in Owed
      BY <1>14, ArmedQueue, ReportsOwed DEF Promises, Owed
    <2>2. CASE workerRetry # q
      <3>1. pending'[workerRetry] = pending[workerRetry]
            /\ latest'[workerRetry] = latest[workerRetry]
        BY <2>1, <2>2 DEF Retries, Put, Mark, Typed, PendingTypes, BookTypes
      <3>2. loops'[workerRetry] = loops[workerRetry]
        BY <1>9, <2>1, <2>2
      <3>3. Queued(workerRetry, x)'
        BY <1>4, <1>5, <1>14, <3>1, <3>2
           DEF Queued, Waiting, InHand, IsLatest
      <3>4. QED
        BY <3>3 DEF Accounted
    <2>3. CASE workerRetry = q /\ latest[q][k] = n /\ x = k
      <3>1. CASE /\ Put(q, k, [seq |-> loops[q].seq,
                               attempts |-> loops[q].attempts,
                               version |-> loops[q].version])
        <4>1. pending'[q][k].seq = n
          BY <1>3, <1>6, <3>1, PutAt
        <4>2. x \in Waiting(workerRetry)'
          BY <1>5, <1>6, <2>1, <2>3, <4>1 DEF Waiting
        <4>3. QED
          BY <4>2 DEF Accounted, Queued
      <3>2. CASE /\ excused' = IF result = "done" THEN excused
                               ELSE excused \cup {loops[q].key}
        <4>1. CASE result = "done"
          <5>1. LoopObliged(q)
            BY <2>1 DEF Promises, Covered
          <5>2. (k = Participants => v = version) \/ Coming(k)
            BY <1>1, <1>2, <1>4, <2>3, <5>1 DEF LoopObliged
          <5>3. CASE k = Participants => v = version
            BY <1>7, <2>1, <2>3, <4>1, <5>3 DEF Accounted
          <5>4. CASE Coming(k)
            BY <1>4, <1>5, <1>11, <2>3, <5>4
               DEF Coming, Asked, Carries, Accounted
          <5>5. QED
            BY <5>2, <5>3, <5>4
        <4>2. CASE result # "done"
          BY <1>1, <2>3, <3>2, <4>2 DEF Accounted
        <4>3. QED
          BY <4>1, <4>2
      <3>3. QED
        BY <1>1, <1>3, <2>3, <3>1, <3>2 DEF Retries
    <2>4. CASE workerRetry = q /\ ~(latest[q][k] = n /\ x = k)
      <3>1. x \in Waiting(q)
        BY <1>1, <1>3, <1>14, <2>4 DEF Queued, IsLatest
      <3>2. pending'[q][x] = pending[q][x]
        <4>1. CASE latest[q][k] # n
          BY <1>1, <1>3, <4>1 DEF Retries
        <4>2. CASE x # k
          <5>1. \/ UNCHANGED pending
                \/ \E r : Put(q, k, r)
            BY <1>1 DEF Retries
          <5>2. QED
            BY <1>6, <2>1, <4>2, <5>1, PutAt
        <4>3. QED
          BY <2>4, <4>1, <4>2
      <3>3. x \in Waiting(workerRetry)'
        BY <1>5, <2>1, <2>4, <3>1, <3>2 DEF Waiting
      <3>4. QED
        BY <3>3 DEF Accounted, Queued
    <2>5. QED
      BY <2>2, <2>3, <2>4
  <1>15. ASSUME Armed', NEW x \in Reports' PROVE Accounted(x)'
    <2>1. Armed /\ x \in Reports
      BY <1>4, <1>5, <1>15 DEF Armed, Live, Reports
    <2>2. Accounted(x)
      BY <2>1 DEF Promises, AllAccounted
    <2>3. ASSUME NEW c \in Callbacks, Carries(c, x) PROVE Carries(c, x)'
      BY <1>4, <1>5, <2>3 DEF Carries
    <2>4. QED
      BY <1>8, <1>11, <1>14, <2>1, <2>2, <2>3 DEF Accounted
  <1>16. QED
    BY <1>12, <1>13, <1>15 DEF Promises, AllAccounted

\* Every step keeps every promise.
THEOREM NextPromises ==
  TypeOK /\ OrderInv /\ RoomInv /\ Promises /\ [Next]_vars => Promises'
  <1> SUFFICES ASSUME TypeOK, OrderInv, RoomInv, Promises, [Next]_vars
               PROVE  Promises'
    OBVIOUS
  <1>1. Typed /\ Typed'
    BY NextTypeOK, Types
  <1>2. OrderInv' /\ seen[Participants] <= seen'[Participants]
    BY NextOrder
  <1>3. Numbered'
    BY <1>1, NextNumbered DEF Promises
  <1>4. CASE \/ StartCommit \/ StopBegin \/ StopFails \/ StopFinish
             \/ \E rejoin \in BOOLEAN : DiscordDisconnected(rejoin)
             \/ DiscordConnected
             \/ \E g \in rejoins : Rejoined(g) \/ RejoinEnds(g)
    BY <1>1, <1>4, ManagerPromises
  <1>5. ASSUME NEW c \in Callbacks, Event(c) PROVE Promises'
    BY <1>1, <1>3, <1>5, EventPromises
  <1>6. ASSUME NEW c \in Callbacks, CallbackStep(c) PROVE Promises'
    BY <1>1, <1>2, <1>3, <1>6, EnterPromises, PublishPromises,
       LookupPromises, SupersedePromises, EnqueuePromises DEF CallbackStep
  <1>7. ASSUME NEW q \in QueueIds, StopQueue(q) \/ LoopStep(q)
        PROVE  Promises'
    BY <1>1, <1>2, <1>3, <1>7, QuietSteps, RetriesPromises DEF LoopStep
  <1>8. CASE UNCHANGED vars
    <2>1. UNCHANGED <<job, stopping, disconnected, reconnectGeneration,
                      workerRetry, queuesMade, retiring, callbacks, loops,
                      version, received, pending, latest, stopped, seen,
                      delivered, excused>>
      BY <1>8 DEF vars, manager, content, queues, worker
    <2>2. Fresh' /\ Installed'
      BY <2>1, OthersKeep DEF Promises
    <2>3. Covered'
      BY <2>1 DEF Promises, Covered, Obliged, LoopObliged, Coming, Asked,
           Known, Live
    <2>4. AllAccounted'
      BY <2>1 DEF Promises, AllAccounted, Armed, Live, Reports, Accounted,
           Known, Carries, Queued, Waiting, InHand, IsLatest
    <2>5. QED
      BY <1>3, <2>2, <2>3, <2>4 DEF Promises
  <1>9. QED
    BY <1>4, <1>5, <1>6, <1>7, <1>8 DEF Next

\* In the first states there is no job.
LEMMA InitPromises == Init => Promises
  <1> SUFFICES ASSUME Init PROVE Promises
    OBVIOUS
  <1>1. /\ \A c \in Callbacks : /\ callbacks[c].pc = "idle"
                                /\ callbacks[c].queue = 0
        /\ \A q \in QueueIds : loops[q].pc = "idle"
        /\ \A q \in QueueIds, k \in Keys : pending[q][k].seq = 0
        /\ ~Live /\ workerRetry = 0 /\ queuesMade = 0
    BY DEF Init, Idle, Asleep, NoReport, Live
  <1>2. QED
    BY <1>1 DEF Promises, Fresh, Installed, Numbered, InHand, Covered,
         AllAccounted, Armed

\* Nothing is forgotten in silence: while a job is live with a queue that
\* runs, the Worker has the newest participants and every chat message, or the
\* report is on its way, or there is a reason why it was given up.
THEOREM ForgottenCorrect == Spec => []NotForgotten
  <1>1. TypeOK /\ Promises => NotForgotten
    BY Restated DEF Promises
  <1>2. Spec => [](TypeOK /\ OrderInv /\ RoomInv)
    <2>1. TypeOK /\ OrderInv /\ [Next]_vars => OrderInv'
      BY NextOrder
    <2>2. QED
      BY <2>1, InitTypeOK, NextTypeOK, InitOrder, InitRoom, NextRoom, PTL
         DEF Spec
  <1>3. QED
    BY <1>1, <1>2, InitPromises, NextPromises, PTL DEF Spec
-----------------------------------------------------------------------------
(* The books of a queue.                                                   *)

\* How the books of queue q and its loop may change, entry by entry
SameBooks(q) ==
  /\ pending'[q] = pending[q]
  /\ latest'[q] = latest[q]
  /\ sequence'[q] = sequence[q]

Without(q, k) ==
  /\ sequence'[q] = sequence[q]
  /\ \A x \in Keys :
       /\ pending'[q][x] = IF x = k THEN NoReport ELSE pending[q][x]
       /\ latest'[q][x] = IF x = k THEN 0 ELSE latest[q][x]

\* Nothing, supersede and stopAndWait
Rests(q) == loops'[q] = loops[q] /\ SameBooks(q)

Cleared(q) == loops'[q] = loops[q] /\ \E k \in Keys : Without(q, k)

Wiped(q) ==
  /\ loops'[q] = loops[q] /\ sequence'[q] = sequence[q] /\ stopped'[q]
  /\ \A x \in Keys : pending'[q][x] = NoReport /\ latest'[q][x] = 0

\* enqueue, by callback c
Accepted(q, c) ==
  /\ loops'[q] = loops[q]
  /\ callbacks[c].pc = "enqueue" /\ callbacks[c].queue = q
  /\ sequence'[q] = sequence[q] + 1
  /\ \A x \in Keys :
       \/ /\ x = callbacks[c].key
          /\ pending'[q][x].seq = sequence[q] + 1
          /\ pending'[q][x].version = callbacks[c].version
          /\ latest'[q][x] = sequence[q] + 1
       \/ pending'[q][x] = NoReport /\ latest'[q][x] = 0
       \/ pending'[q][x] = pending[q][x] /\ latest'[q][x] = latest[q][x]

\* next
Taken(q, k) ==
  /\ q <= queuesMade /\ k \in Waiting(q)
  /\ loops[q].pc = "idle" /\ loops'[q].pc = "taken"
  /\ loops'[q].key = k
  /\ loops'[q].seq = pending[q][k].seq
  /\ loops'[q].version = pending[q][k].version
  /\ latest'[q] = latest[q] /\ sequence'[q] = sequence[q]
  /\ \A x \in Keys :
       pending'[q][x] = IF x = k THEN NoReport ELSE pending[q][x]

\* The loop comes to publish, or ends
Begun(q) ==
  /\ loops[q].pc = "taken" /\ loops'[q].pc = "publish"
  /\ loops'[q].key = loops[q].key
  /\ loops'[q].seq = loops[q].seq
  /\ loops'[q].version = Refreshed(loops[q])
  /\ LoopMayEnter(q)
  /\ SameBooks(q)

Ended(q) ==
  /\ q <= queuesMade
  /\ loops[q].pc = "idle" /\ loops'[q].pc = "ended"
  /\ loops'[q].version = loops[q].version
  /\ SameBooks(q)

\* markDelivered, markDropped and requeue of the report in hand
Settled(q) ==
  LET r == loops[q]
  IN  /\ InHand(q) /\ r.key \in Keys
      /\ loops'[q] = Asleep
      /\ \/ latest[q][r.key] # r.seq /\ SameBooks(q)
         \/ latest[q][r.key] = r.seq /\ Without(q, r.key)
         \/ /\ IsLatest(q) /\ r.pc = "publish"
            /\ latest'[q] = latest[q] /\ sequence'[q] = sequence[q]
            /\ \A x \in Keys : x # r.key => pending'[q][x] = pending[q][x]
            /\ pending'[q][r.key].seq = r.seq
            /\ pending'[q][r.key].version = r.version

BookChanges(q) ==
  \/ Rests(q) \/ Cleared(q) \/ Wiped(q)
  \/ \E c \in Callbacks : Accepted(q, c)
  \/ \E k \in Keys : Taken(q, k)
  \/ Begun(q) \/ Ended(q) \/ Settled(q)

\* Put and Mark of one key leave a queue without it, and the others alone.
LEMMA WithoutKey ==
  ASSUME Typed, NEW q \in QueueIds, NEW k \in Keys, NEW p \in QueueIds,
         Put(q, k, NoReport), Mark(q, k, 0), UNCHANGED sequence
  PROVE  (p = q /\ Without(p, k)) \/ (p # q /\ SameBooks(p))
  <1>1. p = q => \A x \in Keys :
             /\ pending'[p][x] = IF x = k THEN NoReport ELSE pending[p][x]
             /\ latest'[p][x] = IF x = k THEN 0 ELSE latest[p][x]
    BY PutAt, MarkAt
  <1>2. p # q => pending'[p] = pending[p] /\ latest'[p] = latest[p]
    BY DEF Put, Mark, Typed, PendingTypes, BookTypes
  <1>3. QED
    BY <1>1, <1>2 DEF Without, SameBooks

\* There is no other way for the books to change, and a queue that is stopped
\* stays so.
LEMMA BookStep ==
  ASSUME Typed, [Next]_vars, NEW p \in QueueIds
  PROVE  BookChanges(p) /\ (stopped[p] => stopped'[p])
  <1>1. ASSUME UNCHANGED <<queues, loops>>
        PROVE  Rests(p) /\ (stopped[p] => stopped'[p])
    BY <1>1 DEF Rests, SameBooks, queues
  <1>2. ASSUME \/ StartCommit \/ StopBegin \/ StopFails \/ StopFinish
               \/ \E rejoin \in BOOLEAN : DiscordDisconnected(rejoin)
               \/ DiscordConnected
               \/ \E g \in rejoins : Rejoined(g) \/ RejoinEnds(g)
        PROVE  UNCHANGED <<queues, loops>>
    BY <1>2, ManagerSteps DEF Typed
  <1>3. ASSUME NEW c \in Callbacks, Event(c)
        PROVE  UNCHANGED <<queues, loops>>
    BY <1>3 DEF Event, ParticipantChanged, ParticipantsSynced,
         SetSpeakerState, Changes, ClearSpeakers, Replays, ChatReceived
  <1>4. ASSUME NEW c \in Callbacks, NEW applied, NEW result,
               Enter(c) \/ Publish(c, applied, result) \/ Lookup(c)
        PROVE  UNCHANGED <<queues, loops>>
    BY <1>4 DEF Enter, Publish, Lookup
  <1>5. ASSUME NEW c \in Callbacks, Supersede(c)
        PROVE  BookChanges(p) /\ (stopped[p] => stopped'[p])
    <2>1. PICK q, k : q = callbacks[c].queue /\ k = callbacks[c].key
      OBVIOUS
    <2>2. /\ q \in QueueIds /\ k \in Keys
          /\ UNCHANGED <<sequence, stopped, loops>>
      BY <1>5, <2>1, HasQueue DEF Supersede
    <2>3. CASE Put(q, k, NoReport) /\ Mark(q, k, 0)
      BY <2>2, <2>3, WithoutKey DEF BookChanges, Cleared, Rests
    <2>4. CASE UNCHANGED <<pending, latest>>
      BY <2>2, <2>4 DEF BookChanges, Rests, SameBooks
    <2>5. QED
      BY <1>5, <2>1, <2>3, <2>4 DEF Supersede
  <1>6. ASSUME NEW c \in Callbacks, EnqueueReport(c)
        PROVE  BookChanges(p) /\ (stopped[p] => stopped'[p])
    <2>1. PICK q, k, v : /\ q = callbacks[c].queue /\ k = callbacks[c].key
                         /\ v = callbacks[c].version
      OBVIOUS
    <2>2. /\ q \in QueueIds /\ k \in Keys
          /\ UNCHANGED <<stopped, loops>> /\ callbacks[c].pc = "enqueue"
      BY <1>6, <2>1, HasQueue DEF EnqueueReport
    <2>3. ASSUME NEW d \in Keys \cup {NoKey}, Enqueue(q, k, v, d)
          PROVE  BookChanges(p)
      <3>1. sequence'[p] = IF p = q THEN sequence[q] + 1 ELSE sequence[p]
        BY <2>2, <2>3 DEF Enqueue, Typed, BookTypes
      <3>2. CASE p = q
        <4>1. Accepted(p, c)
          BY <2>1, <2>2, <2>3, <3>1, <3>2, EnqueueAt DEF Accepted
        <4>2. QED
          BY <4>1 DEF BookChanges
      <3>3. CASE p # q
        <4>1. pending'[p] = pending[p] /\ latest'[p] = latest[p]
          BY <2>3, <3>3 DEF Enqueue, Typed, PendingTypes, BookTypes
        <4>2. QED
          BY <2>2, <3>1, <3>3, <4>1 DEF BookChanges, Rests, SameBooks
      <3>4. QED
        BY <3>2, <3>3
    <2>4. CASE UNCHANGED <<pending, latest, sequence>>
      BY <2>2, <2>4 DEF BookChanges, Rests, SameBooks
    <2>5. BookChanges(p)
      BY <1>6, <2>1, <2>3, <2>4 DEF EnqueueReport
    <2>6. QED
      BY <2>2, <2>5
  <1>7. ASSUME NEW q \in QueueIds, StopQueue(q)
        PROVE  BookChanges(p) /\ (stopped[p] => stopped'[p])
    <2>1. /\ UNCHANGED <<loops, sequence>>
          /\ pending' = [pending EXCEPT ![q] = [k \in Keys |-> NoReport]]
          /\ latest' = [latest EXCEPT ![q] = [k \in Keys |-> 0]]
          /\ stopped' = [stopped EXCEPT ![q] = TRUE]
      BY <1>7 DEF StopQueue
    <2>2. CASE p = q
      <3>1. \A x \in Keys : pending'[p][x] = NoReport /\ latest'[p][x] = 0
        BY <2>1, <2>2 DEF Typed, PendingTypes, BookTypes
      <3>2. stopped'[p]
        BY <2>1, <2>2 DEF Typed, BookTypes
      <3>3. QED
        BY <2>1, <3>1, <3>2 DEF BookChanges, Wiped
    <2>3. CASE p # q
      BY <2>1, <2>3 DEF Typed, PendingTypes, BookTypes, BookChanges, Rests,
           SameBooks
    <2>4. QED
      BY <2>2, <2>3
  <1>8. ASSUME NEW q \in QueueIds, NEW k \in Keys, Takes(q, k)
        PROVE  BookChanges(p) /\ (stopped[p] => stopped'[p])
    <2>1. /\ Put(q, k, NoReport) /\ k \in Waiting(q) /\ q <= queuesMade
          /\ UNCHANGED <<latest, sequence, stopped>> /\ loops[q].pc = "idle"
      BY <1>8 DEF Takes, Runs
    <2>2. CASE p = q
      <3>1. \A x \in Keys :
              pending'[p][x] = IF x = k THEN NoReport ELSE pending[p][x]
        BY <2>1, <2>2, PutAt
      <3>2. /\ loops'[q].pc = "taken" /\ loops'[q].key = k
            /\ loops'[q].seq = pending[q][k].seq
            /\ loops'[q].version = pending[q][k].version
        BY <1>8 DEF Takes, Typed, LoopTypes
      <3>3. Taken(p, k)
        BY <2>1, <2>2, <3>1, <3>2 DEF Taken
      <3>4. QED
        BY <2>1, <3>3 DEF BookChanges
    <2>3. CASE p # q
      BY <1>8, <2>1, <2>3 DEF Takes, Put, Typed, PendingTypes, LoopTypes,
           BookChanges, Rests, SameBooks
    <2>4. QED
      BY <2>2, <2>3
  <1>9. ASSUME NEW q \in QueueIds, Drops(q)
        PROVE  BookChanges(p) /\ (stopped[p] => stopped'[p])
    <2>1. PICK k, n : k = loops[q].key /\ n = loops[q].seq
      OBVIOUS
    <2>2. /\ k \in Keys /\ InHand(q)
          /\ UNCHANGED <<sequence, stopped>>
          /\ loops'[q] = Asleep
          /\ p # q => loops'[p] = loops[p]
      BY <1>9, <2>1 DEF Drops, Sleep, Typed, LoopTypes, InHand
    <2>3. CASE latest[q][k] = n /\ Put(q, k, NoReport) /\ Mark(q, k, 0)
      <3>1. (p = q /\ Without(p, k)) \/ (p # q /\ SameBooks(p))
        BY <2>2, <2>3, WithoutKey
      <3>2. QED
        BY <2>1, <2>2, <2>3, <3>1 DEF BookChanges, Rests, Settled
    <2>4. CASE latest[q][k] # n /\ UNCHANGED <<pending, latest>>
      BY <2>1, <2>2, <2>4 DEF BookChanges, Rests, Settled, SameBooks
    <2>5. QED
      BY <1>9, <2>1, <2>3, <2>4 DEF Drops
  <1>10. ASSUME NEW q \in QueueIds, Refreshes(q)
         PROVE  BookChanges(p) /\ (stopped[p] => stopped'[p])
    <2>1. UNCHANGED <<pending, latest, sequence, stopped>> /\ LoopMayEnter(q)
      BY <1>10 DEF Refreshes, queues
    <2>2. QED
      BY <1>10, <2>1, RefreshAt DEF BookChanges, Rests, Begun, SameBooks
  <1>11. ASSUME NEW q \in QueueIds, Ends(q)
         PROVE  BookChanges(p) /\ (stopped[p] => stopped'[p])
    <2>1. UNCHANGED <<pending, latest, sequence, stopped>>
      BY <1>11 DEF Ends, queues
    <2>2. /\ loops[q].pc = "idle" /\ loops'[q].pc = "ended"
          /\ loops'[q].version = loops[q].version
          /\ p # q => loops'[p] = loops[p]
          /\ q <= queuesMade
      BY <1>11 DEF Ends, Runs, Typed, LoopTypes, Loop
    <2>3. QED
      BY <2>1, <2>2 DEF BookChanges, Rests, Ended, SameBooks
  <1>12. ASSUME NEW q \in QueueIds, NEW applied, NEW result,
                Retries(q, applied, result)
         PROVE  BookChanges(p) /\ (stopped[p] => stopped'[p])
    <2>1. PICK k, n, v, a : /\ k = loops[q].key /\ n = loops[q].seq
                            /\ v = loops[q].version /\ a = loops[q].attempts
      OBVIOUS
    <2>2. /\ k \in Keys /\ InHand(q) /\ loops[q].pc = "publish"
          /\ UNCHANGED <<sequence, stopped>>
          /\ loops'[q] = Asleep
          /\ p # q => loops'[p] = loops[p]
      BY <1>12, <2>1 DEF Retries, Sleep, Typed, LoopTypes, InHand
    <2>3. CASE latest[q][k] = n /\ Put(q, k, NoReport) /\ Mark(q, k, 0)
      <3>1. (p = q /\ Without(p, k)) \/ (p # q /\ SameBooks(p))
        BY <2>2, <2>3, WithoutKey
      <3>2. QED
        BY <2>1, <2>2, <2>3, <3>1 DEF BookChanges, Rests, Settled
    <2>4. CASE latest[q][k] # n /\ UNCHANGED <<pending, latest>>
      BY <2>1, <2>2, <2>4 DEF BookChanges, Rests, Settled, SameBooks
    <2>5. CASE /\ latest[q][k] = n /\ ~stopped[q] /\ UNCHANGED latest
               /\ Put(q, k, [seq |-> n, attempts |-> a, version |-> v])
      <3>1. IsLatest(q)
        BY <2>1, <2>5 DEF IsLatest
      <3>2. CASE p = q
        <4>1. /\ \A x \in Keys : x # k => pending'[p][x] = pending[p][x]
              /\ pending'[p][k] = [seq |-> n, attempts |-> a, version |-> v]
          BY <2>2, <2>5, <3>2, PutAt
        <4>2. pending'[p][k].seq = n /\ pending'[p][k].version = v
          BY <4>1
        <4>3. Settled(p)
          BY <2>1, <2>2, <2>5, <3>1, <3>2, <4>1, <4>2 DEF Settled
        <4>4. QED
          BY <2>2, <4>3 DEF BookChanges
      <3>3. CASE p # q
        BY <2>2, <2>5, <3>3 DEF Put, Typed, PendingTypes, BookChanges, Rests,
             SameBooks
      <3>4. QED
        BY <3>2, <3>3
    <2>6. QED
      BY <1>12, <2>1, <2>3, <2>4, <2>5, Zenon DEF Retries, Again
  <1>13. CASE UNCHANGED vars
    BY <1>1, <1>13 DEF vars, BookChanges
  <1>14. QED
    BY <1>1, <1>2, <1>3, <1>4, <1>5, <1>6, <1>7, <1>8, <1>9, <1>10, <1>11,
       <1>12, <1>13 DEF Next, CallbackStep, LoopStep, BookChanges

\* Every key that has a number has a report that waits or is in hand.
Booked ==
  \A q \in QueueIds, k \in Keys : latest[q][k] # 0 =>
    pending[q][k].seq = latest[q][k] \/ Handles(q, k, latest[q][k])

\* Every step keeps the books.
LEMMA NextBooked ==
  ASSUME Typed, Booked, [Next]_vars
  PROVE  Booked'
  <1> SUFFICES ASSUME NEW q \in QueueIds, NEW k \in Keys, latest'[q][k] # 0
               PROVE  \/ pending'[q][k].seq = latest'[q][k]
                      \/ Handles(q, k, latest[q][k])'
    BY DEF Booked
  <1>1. BookChanges(q)
    BY BookStep
  <1>2. latest[q][k] # 0 =>
          pending[q][k].seq = latest[q][k] \/ Handles(q, k, latest[q][k])
    BY DEF Booked
  <1>3. CASE Rests(q)
    BY <1>2, <1>3 DEF Rests, SameBooks, Handles
  <1>4. CASE Cleared(q)
    BY <1>2, <1>4 DEF Cleared, Without, Handles
  <1>5. CASE Wiped(q)
    BY <1>5 DEF Wiped
  <1>6. ASSUME NEW c \in Callbacks, Accepted(q, c)
        PROVE  \/ pending'[q][k].seq = latest'[q][k]
               \/ Handles(q, k, latest[q][k])'
    BY <1>2, <1>6 DEF Accepted, Handles
  <1>7. ASSUME NEW x \in Keys, Taken(q, x)
        PROVE  \/ pending'[q][k].seq = latest'[q][k]
               \/ Handles(q, k, latest[q][k])'
    BY <1>2, <1>7 DEF Taken, Handles
  <1>8. CASE Begun(q)
    BY <1>2, <1>8 DEF Begun, SameBooks, Handles
  <1>9. CASE Ended(q)
    BY <1>2, <1>9 DEF Ended, SameBooks, Handles
  <1>10. CASE Settled(q)
    BY <1>2, <1>10 DEF Settled, SameBooks, Without, Handles, IsLatest, InHand
  <1>11. QED
    BY <1>1, <1>3, <1>4, <1>5, <1>6, <1>7, <1>8, <1>9, <1>10 DEF BookChanges

\* The books of a queue stay within bounds: no more reports wait than the
\* limit and the one that requeue may put on top, and a sequence number is
\* kept only for a report that waits or is being retried.
THEOREM BooksCorrect == Spec => []BooksBounded
  <1>1. Init => Booked
    BY DEF Init, Booked
  <1>2. TypeOK /\ Booked /\ [Next]_vars => Booked'
    BY Types, NextBooked
  <1>3. RoomInv /\ Booked => BooksBounded
    BY DEF RoomInv, RoomInHand, Booked, BooksBounded
  <1>4. QED
    BY <1>1, <1>2, <1>3, InitTypeOK, NextTypeOK, InitRoom, NextRoom, PTL
       DEF Spec

-----------------------------------------------------------------------------
(* The order of the speaker's reports.                                     *)

\* A queue that has not been made is empty, numbers grow, and a report that is
\* in hand is not waiting as well.
Tidy(q) ==
  /\ \A k \in Keys : pending[q][k].seq <= sequence[q]
  /\ InHand(q) => /\ loops[q].seq <= sequence[q]
                  /\ pending[q][loops[q].key].seq # loops[q].seq
  /\ loops[q].pc = "publish" => pending[q][loops[q].key].seq = 0
  /\ queuesMade < q => loops[q].pc = "idle" /\ Waiting(q) = {}

\* Every step keeps that.
LEMMA NextTidy ==
  ASSUME Typed, Typed', OrderInv, Numbered, Installed, [Next]_vars,
         NEW q \in QueueIds, Tidy(q)
  PROVE  Tidy(q)'
  <1>1. BookChanges(q) /\ queuesMade <= queuesMade'
    <2>1. queuesMade \in Nat
      BY ReportsAssumption DEF Typed, ManagerTypes
    <2>2. queuesMade' = queuesMade \/ queuesMade' = queuesMade + 1
      BY DEF Next, StartCommit, StopBegin, StopFails, StopFinish,
         DiscordDisconnected, DiscordConnected, Rejoined, RejoinEnds, Event,
         ParticipantChanged, ParticipantsSynced, SetSpeakerState, Changes,
         ClearSpeakers, Replays, ChatReceived, CallbackStep, Enter, Publish,
         Lookup, Supersede, EnqueueReport, StopQueue, LoopStep, Takes, Drops,
         Refreshes, Retries, Ends, vars, manager, NewQueue, NoQueue
    <2>3. QED
      BY <2>1, <2>2, BookStep
  <1>2. /\ queuesMade \in Nat /\ queuesMade' \in Nat /\ q \in Nat
        /\ sequence[q] \in Nat /\ sequence'[q] \in Nat
        /\ loops[q].seq \in Nat /\ NoReport.seq = 0
        /\ \A k \in Keys : pending[q][k].seq \in Nat /\ latest[q][k] \in Nat
    <2>1. queuesMade \in Nat /\ queuesMade' \in Nat /\ q \in Nat
      BY ReportsAssumption DEF Typed, ManagerTypes, QueueIds
    <2>2. sequence[q] \in Nat /\ sequence'[q] \in Nat
      BY DEF Typed, BookTypes
    <2>3. loops[q].seq \in Nat /\ NoReport.seq = 0
      BY DEF Typed, LoopTypes, Loop, NoReport
    <2>4. \A k \in Keys : pending[q][k].seq \in Nat /\ latest[q][k] \in Nat
      BY DEF Typed, BookTypes, PendingTypes, Report
    <2>5. QED
      BY <2>1, <2>2, <2>3, <2>4
  <1>3. /\ InHand(q) => loops[q].key \in Keys /\ loops[q].seq # 0
        /\ \A k \in Keys : pending[q][k].seq # 0 =>
             pending[q][k].seq = latest[q][k]
    BY DEF Typed, LoopTypes, Numbered, InHand
  <1>4. CASE Rests(q)
    BY <1>1, <1>2, <1>4 DEF Rests, SameBooks, Tidy, InHand, Waiting
  <1>5. CASE Cleared(q)
    BY <1>1, <1>2, <1>3, <1>5 DEF Cleared, Without, Tidy, InHand, Waiting
  <1>6. CASE Wiped(q)
    BY <1>1, <1>2, <1>3, <1>6 DEF Wiped, Tidy, InHand, Waiting
  <1>7. ASSUME NEW c \in Callbacks, Accepted(q, c) PROVE Tidy(q)'
    <2>1. loops[q].pc # "publish" /\ q <= queuesMade
      BY <1>7, Alone DEF Accepted, Inside, Installed
    <2>2. \A k \in Keys : pending'[q][k].seq \in
            {0, sequence[q] + 1, pending[q][k].seq}
      BY <1>2, <1>7 DEF Accepted
    <2>3. loops'[q] = loops[q] /\ sequence'[q] = sequence[q] + 1
      BY <1>7 DEF Accepted
    <2>4. QED
      BY <1>1, <1>2, <1>3, <2>1, <2>2, <2>3 DEF Tidy, InHand
  <1>8. ASSUME NEW k \in Keys, Taken(q, k) PROVE Tidy(q)'
    BY <1>1, <1>2, <1>3, <1>8 DEF Taken, Tidy, InHand, Waiting
  <1>9. CASE Begun(q)
    <2>1. pending[q][loops[q].key].seq = 0
      BY <1>3, <1>9 DEF Begun, Tidy, InHand, LoopMayEnter, IsCurrent, IsLatest
    <2>2. q <= queuesMade
      BY <1>2, <1>9 DEF Begun, Tidy
    <2>3. QED
      BY <1>1, <1>2, <1>3, <1>9, <2>1, <2>2 DEF Begun, SameBooks, Tidy, InHand
  <1>10. CASE Ended(q)
    BY <1>1, <1>2, <1>10 DEF Ended, SameBooks, Tidy, InHand
  <1>11. CASE Settled(q)
    <2>1. loops'[q].pc = "idle" /\ InHand(q) /\ q <= queuesMade
      BY <1>2, <1>11 DEF Settled, Asleep, Tidy, InHand
    <2>2. sequence'[q] = sequence[q]
      BY <1>11 DEF Settled, SameBooks, Without
    <2>3. \A k \in Keys : pending'[q][k].seq \in
            {0, loops[q].seq, pending[q][k].seq}
      BY <1>2, <1>11 DEF Settled, SameBooks, Without
    <2>4. QED
      BY <1>1, <1>2, <2>1, <2>2, <2>3 DEF Tidy, InHand
  <1>12. QED
    BY <1>1, <1>4, <1>5, <1>6, <1>7, <1>8, <1>9, <1>10, <1>11 DEF BookChanges

\* Nothing is newer than the participant state.
Past ==
  /\ confirmed <= version
  /\ \A c \in Callbacks : callbacks[c].version <= version
  /\ \A q \in QueueIds : loops[q].version <= version
  /\ \A q \in QueueIds, k \in Keys : pending[q][k].version <= version

\* How a callback may change: not at all, by leaving participantReportMu or
\* staying outside, by entering, with an answer, with a queue found
Waits(c) ==
  /\ callbacks'[c].pc \notin Inside
  /\ callbacks'[c].version \in {0, callbacks[c].version}

Enters(c) ==
  /\ ReportsFree /\ Live
  /\ callbacks'[c].pc = "publish"
  /\ callbacks'[c].version = version
  /\ callbacks'[c].gen = reconnectGeneration

Answered(c) ==
  /\ callbacks[c].pc = "publish" /\ callbacks'[c].pc \in {"done", "failed"}
  /\ callbacks'[c].key = callbacks[c].key
  /\ callbacks'[c].version = callbacks[c].version
  /\ callbacks'[c].gen = callbacks[c].gen

Finds(c) ==
  /\ \/ callbacks[c].pc = "done" /\ callbacks'[c].pc = "supersede"
     \/ callbacks[c].pc = "failed" /\ callbacks'[c].pc = "enqueue"
  /\ callbacks'[c].key = callbacks[c].key
  /\ callbacks'[c].version = callbacks[c].version
  /\ callbacks'[c].gen = reconnectGeneration
  /\ callbacks'[c].queue = workerRetry

CallbackChanges(c) ==
  \/ callbacks'[c] = callbacks[c]
  \/ Waits(c) \/ Enters(c) \/ Answered(c) \/ Finds(c)

\* Ending a report is such a change.
LEMMA MoveOnChanges ==
  ASSUME Typed, NEW c \in Callbacks, NEW d \in Callbacks, MoveOn(c)
  PROVE  CallbackChanges(d)
  <1>1. callbacks \in [Callbacks -> Callback]
    BY DEF Typed, CallbackTypes
  <1>2. callbacks'[c] =
          IF callbacks[c].speaker
            THEN [callbacks[c] EXCEPT !.pc = "wait", !.key = Speaker,
                                      !.speaker = FALSE, !.queue = 0]
            ELSE Idle
    BY <1>1 DEF MoveOn
  <1>3. callbacks'[c].version \in {0, callbacks[c].version}
    BY <1>1, <1>2 DEF Idle, Callback
  <1>4. QED
    BY <1>3, MoveOnFrees DEF CallbackChanges, Waits

\* An event gives its callback a report to make.
LEMMA ReportingChanges ==
  ASSUME Typed, NEW c \in Callbacks, NEW d \in Callbacks,
         NEW key, NEW speaker, NEW rev, Reporting(c, key, speaker, rev)
  PROVE  CallbackChanges(d)
  <1>1. CASE d = c
    BY <1>1 DEF Reporting, Typed, CallbackTypes, CallbackChanges, Waits,
         Inside
  <1>2. CASE d # c
    BY <1>2 DEF Reporting, Typed, CallbackTypes, CallbackChanges
  <1>3. QED
    BY <1>1, <1>2

\* There is no other way for a callback to change.
LEMMA CallbackStepChanges ==
  ASSUME Typed, [Next]_vars, NEW d \in Callbacks
  PROVE  CallbackChanges(d)
  <1>1. ASSUME UNCHANGED callbacks PROVE CallbackChanges(d)
    BY <1>1 DEF CallbackChanges
  <1>2. ASSUME \/ StartCommit \/ StopBegin \/ StopFails \/ StopFinish
               \/ \E rejoin \in BOOLEAN : DiscordDisconnected(rejoin)
               \/ DiscordConnected
               \/ \E g \in rejoins : Rejoined(g) \/ RejoinEnds(g)
        PROVE  UNCHANGED callbacks
    BY <1>2, ManagerSteps DEF Typed
  <1>3. ASSUME NEW c \in Callbacks, Event(c) PROVE CallbackChanges(d)
    <2>1. \E key, speaker, rev : Reporting(c, key, speaker, rev)
      BY <1>3 DEF Event, ParticipantChanged, ParticipantsSynced,
           SetSpeakerState, Changes, ClearSpeakers, Replays, ChatReceived
    <2>2. QED
      BY <2>1, ReportingChanges
  <1>4. ASSUME NEW c \in Callbacks, CallbackStep(c), ~MoveOn(c)
        PROVE  CallbackChanges(d)
    <2>1. callbacks \in [Callbacks -> Callback] /\ callbacks[c] \in Callback
      BY DEF Typed, CallbackTypes
    <2>2. CASE Enter(c)
      <3>1. /\ callbacks' = [callbacks EXCEPT ![c].pc = "publish",
                                              ![c].version = version]
            /\ ReportsFree /\ Fences(callbacks[c])
        BY <1>4, <2>2 DEF Enter
      <3>2. /\ callbacks'[c].pc = "publish"
            /\ callbacks'[c].version = version
            /\ callbacks'[c].gen = callbacks[c].gen
            /\ d # c => callbacks'[d] = callbacks[d]
        BY <2>1, <3>1 DEF Callback
      <3>3. Live /\ callbacks[c].gen = reconnectGeneration
        BY <3>1 DEF Fences
      <3>4. QED
        BY <3>1, <3>2, <3>3 DEF CallbackChanges, Enters
    <2>3. ASSUME NEW applied, NEW result, Publish(c, applied, result)
          PROVE  CallbackChanges(d)
      <3>1. /\ callbacks' = [callbacks EXCEPT ![c].pc = result]
            /\ result \in {"done", "failed"} /\ callbacks[c].pc = "publish"
        BY <1>4, <2>3 DEF Publish
      <3>2. /\ callbacks'[c].pc = result
            /\ callbacks'[c].key = callbacks[c].key
            /\ callbacks'[c].version = callbacks[c].version
            /\ callbacks'[c].gen = callbacks[c].gen
            /\ d # c => callbacks'[d] = callbacks[d]
        BY <2>1, <3>1 DEF Callback
      <3>3. QED
        BY <3>1, <3>2 DEF CallbackChanges, Answered
    <2>4. CASE Lookup(c)
      <3>1. PICK pc : pc = IF callbacks[c].pc = "done" THEN "supersede"
                           ELSE "enqueue"
        OBVIOUS
      <3>2. /\ callbacks' = [callbacks EXCEPT ![c].pc = pc,
                                              ![c].queue = workerRetry]
            /\ callbacks[c].gen = reconnectGeneration
            /\ callbacks[c].pc \in {"done", "failed"}
        BY <1>4, <2>4, <3>1 DEF Lookup
      <3>3. /\ callbacks'[c].pc = pc
            /\ callbacks'[c].queue = workerRetry
            /\ callbacks'[c].key = callbacks[c].key
            /\ callbacks'[c].version = callbacks[c].version
            /\ callbacks'[c].gen = callbacks[c].gen
            /\ d # c => callbacks'[d] = callbacks[d]
        BY <2>1, <3>2 DEF Callback
      <3>4. QED
        BY <3>1, <3>2, <3>3 DEF CallbackChanges, Finds
    <2>5. QED
      BY <1>4, <2>2, <2>3, <2>4 DEF CallbackStep, Supersede, EnqueueReport
  <1>5. ASSUME NEW q \in QueueIds, StopQueue(q) \/ LoopStep(q)
        PROVE  UNCHANGED callbacks
    BY <1>5 DEF StopQueue, LoopStep, Takes, Drops, Refreshes, Ends, Retries
  <1>6. CASE UNCHANGED vars
    BY <1>1, <1>6 DEF vars
  <1>7. QED
    BY <1>1, <1>2, <1>3, <1>4, <1>5, <1>6, MoveOnChanges DEF Next

\* What the Worker confirms and applies is what a holder of
\* participantReportMu has published.
LEMMA WorkerStep ==
  ASSUME Typed, [Next]_vars
  PROVE  \/ UNCHANGED <<seen, confirmed>>
         \/ \E c \in Callbacks, applied \in BOOLEAN, result \in Results :
              Publish(c, applied, result)
         \/ \E q \in QueueIds, applied \in BOOLEAN, result \in Results :
              Retries(q, applied, result)
  <1>1. ASSUME \/ StartCommit \/ StopBegin \/ StopFails \/ StopFinish
               \/ \E rejoin \in BOOLEAN : DiscordDisconnected(rejoin)
               \/ DiscordConnected
               \/ \E g \in rejoins : Rejoined(g) \/ RejoinEnds(g)
        PROVE  UNCHANGED worker
    BY <1>1, ManagerSteps DEF Typed
  <1>2. ASSUME NEW c \in Callbacks, Event(c) PROVE UNCHANGED worker
    BY <1>2 DEF Event, ParticipantChanged, ParticipantsSynced,
         SetSpeakerState, Changes, ClearSpeakers, Replays, ChatReceived
  <1>3. ASSUME NEW c \in Callbacks,
               Enter(c) \/ Lookup(c) \/ Supersede(c) \/ EnqueueReport(c)
        PROVE  UNCHANGED worker
    BY <1>3 DEF Enter, Lookup, Supersede, EnqueueReport
  <1>4. ASSUME NEW q \in QueueIds,
               \/ StopQueue(q) \/ Drops(q) \/ Refreshes(q) \/ Ends(q)
               \/ \E k \in Keys : Takes(q, k)
        PROVE  UNCHANGED worker
    BY <1>4 DEF StopQueue, Drops, Refreshes, Ends, Takes
  <1>5. QED
    BY <1>1, <1>2, <1>3, <1>4 DEF Next, CallbackStep, LoopStep, vars, worker

\* The Worker confirms nothing but the report that is published.
LEMMA PostSpeaker ==
  ASSUME Typed, NEW k \in Keys, NEW v \in Nat, NEW applied, NEW result,
         Post(k, v, applied, result)
  PROVE  /\ confirmed' = IF k = Speaker /\ result = "done" THEN v
                         ELSE confirmed
         /\ seen'[Speaker] # seen[Speaker] =>
              k = Speaker /\ seen'[Speaker] = v
  <1>1. Speaker \in State
    BY DEF State
  <1>2. QED
    BY <1>1 DEF Post, Apply

\* Every step keeps the versions within the present one.
LEMMA NextPast ==
  ASSUME Typed, Typed', [Next]_vars, Past
  PROVE  Past'
  <1>1. version \in Nat /\ version' \in Nat /\ version <= version'
    BY VersionGrows DEF Typed, ManagerTypes
  <1>2. /\ \A c \in Callbacks : callbacks[c].version \in Nat
        /\ \A q \in QueueIds : loops[q].version \in Nat
        /\ confirmed \in Nat /\ NoReport.version = 0 /\ Asleep.version = 0
    BY DEF Typed, CallbackTypes, Callback, LoopTypes, Loop, OtherTypes,
         NoReport, Asleep
  <1>3. \A q \in QueueIds, k \in Keys : pending[q][k].version \in Nat
    BY DEF Typed, PendingTypes, Report
  <1>4. ASSUME NEW c \in Callbacks PROVE callbacks'[c].version <= version'
    <2>1. CallbackChanges(c)
      BY CallbackStepChanges
    <2>2. callbacks'[c].version \in {0, version, callbacks[c].version}
      BY <2>1 DEF CallbackChanges, Waits, Enters, Answered, Finds
    <2>3. callbacks[c].version <= version
      BY DEF Past
    <2>4. QED
      BY <1>1, <1>2, <2>2, <2>3
  <1>5. ASSUME NEW q \in QueueIds
        PROVE  /\ loops'[q].version <= version'
               /\ \A k \in Keys : pending'[q][k].version <= version'
    <2>1. BookChanges(q)
      BY BookStep
    <2>2. /\ loops[q].version <= version
          /\ \A k \in Keys : pending[q][k].version <= version
          /\ \A c \in Callbacks : callbacks[c].version <= version
      BY DEF Past
    <2>3. CASE Rests(q)
      BY <1>1, <1>2, <1>3, <2>2, <2>3 DEF Rests, SameBooks
    <2>4. CASE Cleared(q)
      BY <1>1, <1>2, <1>3, <2>2, <2>4 DEF Cleared, Without
    <2>5. CASE Wiped(q)
      BY <1>1, <1>2, <1>3, <2>2, <2>5 DEF Wiped
    <2>6. ASSUME NEW c \in Callbacks, Accepted(q, c)
          PROVE  /\ loops'[q].version <= version'
                 /\ \A k \in Keys : pending'[q][k].version <= version'
      BY <1>1, <1>2, <1>3, <2>2, <2>6 DEF Accepted
    <2>7. ASSUME NEW k \in Keys, Taken(q, k)
          PROVE  /\ loops'[q].version <= version'
                 /\ \A x \in Keys : pending'[q][x].version <= version'
      BY <1>1, <1>2, <1>3, <2>2, <2>7 DEF Taken
    <2>8. CASE Begun(q)
      BY <1>1, <1>2, <1>3, <2>2, <2>8 DEF Begun, Refreshed, SameBooks
    <2>9. CASE Ended(q)
      BY <1>1, <1>2, <1>3, <2>2, <2>9 DEF Ended, SameBooks
    <2>10. CASE Settled(q)
      <3>1. loops'[q].version = 0
        BY <1>2, <2>10 DEF Settled
      <3>2. \A k \in Keys : pending'[q][k].version \in
              {0, loops[q].version, pending[q][k].version}
        BY <1>2, <2>10 DEF Settled, SameBooks, Without
      <3>3. QED
        BY <1>1, <1>2, <1>3, <2>2, <3>1, <3>2
    <2>11. QED
      BY <2>1, <2>3, <2>4, <2>5, <2>6, <2>7, <2>8, <2>9, <2>10
         DEF BookChanges
  <1>6. confirmed' <= version'
    <2>1. confirmed <= version
      BY DEF Past
    <2>2. ASSUME NEW c \in Callbacks, NEW applied, NEW result,
                 Publish(c, applied, result)
          PROVE  confirmed' \in {confirmed, callbacks[c].version}
      BY <2>2 DEF Publish, Post
    <2>3. ASSUME NEW q \in QueueIds, NEW applied, NEW result,
                 Retries(q, applied, result)
          PROVE  confirmed' \in {confirmed, loops[q].version}
      BY <2>3 DEF Retries, Post
    <2>4. QED
      BY <1>1, <1>2, <2>1, <2>2, <2>3, WorkerStep DEF Past
  <1>7. QED
    BY <1>4, <1>5, <1>6 DEF Past

\* Queue q has no report of the speaker
NoSpeaker(q) ==
  Speaker \notin Waiting(q) /\ ~(InHand(q) /\ loops[q].key = Speaker)

\* Queue q's loop is publishing a speaker, and the Worker has confirmed no
\* newer one
Forward(q) ==
  loops[q].pc = "publish" /\ loops[q].key = Speaker =>
    confirmed <= loops[q].version

\* No report of the speaker that queue q may yet publish is too old
Timely(q) ==
  /\ Speaker \in Waiting(q) => confirmed <= pending[q][Speaker].version
  /\ InHand(q) /\ loops[q].key = Speaker /\ IsLatest(q) =>
       confirmed <= loops[q].version

\* The installed queue was made after a holder of participantReportMu that is
\* not of its time entered, and nobody has given it a speaker since.
Displaced ==
  /\ job = 0 => workerRetry = 0
  /\ workerRetry # 0 =>
       /\ \A c \in Callbacks :
            /\ callbacks[c].pc \in Inside
            /\ \/ callbacks[c].gen # reconnectGeneration
               \/ /\ callbacks[c].pc \in {"supersede", "enqueue"}
                  /\ callbacks[c].queue # workerRetry
            => NoSpeaker(workerRetry)
       /\ \A p \in QueueIds :
            loops[p].pc = "publish" /\ p # workerRetry =>
              NoSpeaker(workerRetry)

\* A callback has been told that the Worker knows the speaker, and has not
\* cleared the queue yet
Heard ==
  \E c \in Callbacks :
    callbacks[c].key = Speaker /\ callbacks[c].pc \in {"done", "supersede"}

SpeakerOrder ==
  /\ \A c \in Callbacks :
       callbacks[c].pc \in Inside /\ callbacks[c].key = Speaker =>
         confirmed <= callbacks[c].version
  /\ \A q \in QueueIds : Forward(q)
  /\ workerRetry # 0 /\ ~Heard => Timely(workerRetry)

\* Nothing but enqueue gives a queue a report of the speaker.
LEMMA StillNoSpeaker ==
  ASSUME Typed, NEW q \in QueueIds, BookChanges(q), NoSpeaker(q),
         \A c \in Callbacks : Accepted(q, c) => callbacks[c].key # Speaker
  PROVE  NoSpeaker(q)'
  <1>1. Speaker \in Keys /\ NoReport.seq = 0 /\ Asleep.pc = "idle"
    BY DEF Keys, NoReport, Asleep
  <1>2. CASE Rests(q)
    BY <1>1, <1>2 DEF Rests, SameBooks, NoSpeaker, InHand, Waiting
  <1>3. CASE Cleared(q)
    BY <1>1, <1>3 DEF Cleared, Without, NoSpeaker, InHand, Waiting
  <1>4. CASE Wiped(q)
    BY <1>1, <1>4 DEF Wiped, NoSpeaker, InHand, Waiting
  <1>5. ASSUME NEW c \in Callbacks, Accepted(q, c) PROVE NoSpeaker(q)'
    BY <1>1, <1>5 DEF Accepted, NoSpeaker, InHand, Waiting
  <1>6. ASSUME NEW k \in Keys, Taken(q, k) PROVE NoSpeaker(q)'
    BY <1>1, <1>6 DEF Taken, NoSpeaker, InHand, Waiting
  <1>7. CASE Begun(q)
    BY <1>1, <1>7 DEF Begun, SameBooks, NoSpeaker, InHand, Waiting
  <1>8. CASE Ended(q)
    BY <1>1, <1>8 DEF Ended, SameBooks, NoSpeaker, InHand, Waiting
  <1>9. CASE Settled(q)
    BY <1>1, <1>9
       DEF Settled, SameBooks, Without, NoSpeaker, InHand, Waiting
  <1>10. QED
    BY <1>2, <1>3, <1>4, <1>5, <1>6, <1>7, <1>8, <1>9 DEF BookChanges

\* A queue keeps no speaker that is too old, unless the Worker confirms one.
LEMMA StillTimely ==
  ASSUME Typed, Typed', NEW q \in QueueIds, BookChanges(q), Timely(q),
         stopped[q] => stopped'[q], UNCHANGED confirmed, Forward(q),
         \A c \in Callbacks : Accepted(q, c) /\ callbacks[c].key = Speaker =>
           confirmed <= callbacks[c].version,
         Numbered, Tidy(q)
  PROVE  Timely(q)'
  <1>1. /\ Speaker \in Keys /\ NoReport.seq = 0 /\ Asleep.pc = "idle"
        /\ stopped[q] \in BOOLEAN /\ stopped'[q] \in BOOLEAN
        /\ InHand(q) => loops[q].seq # 0
    BY DEF Keys, NoReport, Asleep, Typed, BookTypes, Numbered
  <1>2. CASE Rests(q)
    BY <1>1, <1>2 DEF Rests, SameBooks, Timely, IsLatest, InHand, Waiting
  <1>3. CASE Cleared(q)
    <2>1. PICK k \in Keys : Without(q, k)
      BY <1>3 DEF Cleared
    <2>2. loops'[q] = loops[q]
      BY <1>3 DEF Cleared
    <2>3. CASE k = Speaker
      <3>1. pending'[q][Speaker].seq = 0 /\ latest'[q][Speaker] = 0
        BY <1>1, <2>1, <2>3 DEF Without
      <3>2. QED
        BY <1>1, <2>2, <3>1 DEF Timely, IsLatest, InHand, Waiting
    <2>4. CASE k # Speaker
      BY <1>1, <2>1, <2>2, <2>4
         DEF Without, Timely, IsLatest, InHand, Waiting
    <2>5. QED
      BY <2>3, <2>4
  <1>4. CASE Wiped(q)
    <2>1. /\ pending'[q][Speaker].seq = 0 /\ latest'[q][Speaker] = 0
          /\ loops'[q] = loops[q]
      BY <1>1, <1>4 DEF Wiped
    <2>2. QED
      BY <1>1, <2>1 DEF Timely, IsLatest, InHand, Waiting
  <1>5. ASSUME NEW c \in Callbacks, Accepted(q, c) PROVE Timely(q)'
    <2>1. /\ loops'[q] = loops[q] /\ (IsLatest(q)' => ~stopped[q])
          /\ InHand(q) => loops[q].seq # sequence[q] + 1
      <3>1. sequence[q] \in Nat /\ loops[q].seq \in Nat
        BY DEF Typed, BookTypes, LoopTypes, Loop
      <3>2. QED
        BY <1>1, <1>5, <3>1 DEF Accepted, Tidy, IsLatest
    <2>2. CASE pending'[q][Speaker] = NoReport /\ latest'[q][Speaker] = 0
      BY <1>1, <2>1, <2>2 DEF Timely, IsLatest, InHand, Waiting
    <2>3. CASE /\ pending'[q][Speaker] = pending[q][Speaker]
               /\ latest'[q][Speaker] = latest[q][Speaker]
      BY <1>1, <2>1, <2>3 DEF Timely, IsLatest, InHand, Waiting
    <2>4. CASE /\ Speaker = callbacks[c].key
               /\ pending'[q][Speaker].version = callbacks[c].version
               /\ latest'[q][Speaker] = sequence[q] + 1
      BY <1>1, <1>5, <2>1, <2>4 DEF Timely, IsLatest, InHand, Waiting
    <2>5. QED
      BY <1>1, <1>5, <2>2, <2>3, <2>4 DEF Accepted
  <1>6. ASSUME NEW k \in Keys, Taken(q, k) PROVE Timely(q)'
    BY <1>1, <1>6 DEF Taken, Timely, IsLatest, InHand, Waiting
  <1>7. CASE Begun(q)
    BY <1>1, <1>7
       DEF Begun, Refreshed, SameBooks, Timely, IsLatest, InHand, Waiting
  <1>8. CASE Ended(q)
    BY <1>1, <1>8 DEF Ended, SameBooks, Timely, InHand, Waiting
  <1>9. CASE Settled(q)
    BY <1>1, <1>9
       DEF Settled, SameBooks, Without, Timely, Forward, InHand, Waiting
  <1>10. QED
    BY <1>2, <1>3, <1>4, <1>5, <1>6, <1>7, <1>8, <1>9 DEF BookChanges

Ordered == Displaced /\ SpeakerOrder

\* The sections of the Manager: a queue that is installed is new and empty.
LEMMA ManagerOrdered ==
  ASSUME Typed, Typed', Fresh, Installed, \A q \in QueueIds : Tidy(q),
         Ordered,
         \/ StartCommit \/ StopBegin \/ StopFails \/ StopFinish
         \/ \E rejoin \in BOOLEAN : DiscordDisconnected(rejoin)
         \/ DiscordConnected
         \/ \E g \in rejoins : Rejoined(g) \/ RejoinEnds(g)
  PROVE  Ordered'
  <1>1. UNCHANGED <<pending, latest, stopped, loops, callbacks, confirmed>>
    BY ManagerSteps DEF Typed, queues, worker
  <1>2. /\ workerRetry \in Nat /\ queuesMade \in Nat
        /\ workerRetry' # 0 => workerRetry' \in QueueIds
    BY ReportsAssumption DEF Typed, ManagerTypes, QueueIds
  <1>3. job = 0 => workerRetry = 0
    BY DEF Ordered, Displaced
  <1>4. job' = 0 => workerRetry' = 0
    <2>1. CASE StartCommit
      BY <2>1 DEF StartCommit, Typed, ManagerTypes
    <2>2. CASE StopBegin \/ StopFinish
      BY <2>2 DEF StopBegin, StopFinish, NoQueue
    <2>3. CASE StopFails
      BY <1>3, <2>3 DEF StopFails
    <2>4. ASSUME NEW rejoin \in BOOLEAN, DiscordDisconnected(rejoin)
          PROVE  workerRetry' = 0
      BY <2>4 DEF DiscordDisconnected, NoQueue
    <2>5. CASE DiscordConnected
      BY <1>3, <2>5 DEF DiscordConnected, NoQueue
    <2>6. ASSUME NEW g \in rejoins, Rejoined(g) \/ RejoinEnds(g)
          PROVE  job' = 0 => workerRetry' = 0
      BY <1>3, <2>6 DEF Rejoined, RejoinEnds
    <2>7. QED
      BY <2>1, <2>2, <2>3, <2>4, <2>5, <2>6
  <1>5. CASE workerRetry' = 0
    BY <1>1, <1>5 DEF Ordered, Displaced, SpeakerOrder, Forward
  <1>6. CASE workerRetry' = queuesMade + 1
    <2>1. /\ workerRetry' \in QueueIds
          /\ loops[workerRetry'].pc = "idle" /\ Waiting(workerRetry') = {}
      BY <1>2, <1>6 DEF Tidy
    <2>2. NoSpeaker(workerRetry)' /\ Timely(workerRetry)'
      BY <1>1, <2>1 DEF NoSpeaker, Timely, InHand, Waiting
    <2>3. QED
      BY <1>1, <1>4, <2>2 DEF Ordered, Displaced, SpeakerOrder, Forward
  <1>7. CASE /\ workerRetry' = workerRetry
             /\ reconnectGeneration' = reconnectGeneration
    <2>1. /\ NoSpeaker(workerRetry)' <=> NoSpeaker(workerRetry)
          /\ Timely(workerRetry)' <=> Timely(workerRetry)
          /\ Heard' <=> Heard
      BY <1>1, <1>7 DEF NoSpeaker, Timely, InHand, Waiting, IsLatest, Heard
    <2>2. QED
      BY <1>1, <1>4, <1>7, <2>1 DEF Ordered, Displaced, SpeakerOrder, Forward
  <1>8. QED
    BY <1>5, <1>6, <1>7, ManagerExcuses

\* What the other steps leave alone.
LEMMA OthersLeave ==
  ASSUME \/ \E c \in Callbacks : Event(c) \/ CallbackStep(c)
         \/ \E q \in QueueIds : StopQueue(q) \/ LoopStep(q)
  PROVE  UNCHANGED <<job, reconnectGeneration, workerRetry>>
  BY DEF Event, ParticipantChanged, ParticipantsSynced, SetSpeakerState,
       Changes, ClearSpeakers, Replays, ChatReceived, CallbackStep, Enter,
       Publish, Lookup, Supersede, EnqueueReport, StopQueue, LoopStep, Takes,
       Drops, Refreshes, Retries, Ends, manager

\* Everything the steps below may rely on
Grounds ==
  /\ Typed /\ Typed' /\ OrderInv /\ Promises /\ StoppedIsEmpty
  /\ Past /\ \A q \in QueueIds : Tidy(q)
  /\ Ordered /\ [Next]_vars

\* The steps of events, of the loops up to the request, and of callbacks on
\* their way in change no report in hand.
LEMMA QuietOrdered ==
  ASSUME Grounds,
         UNCHANGED <<job, reconnectGeneration, workerRetry, confirmed>>,
         \A c \in Callbacks : callbacks'[c] = callbacks[c]
                              \/ (Waits(c) /\ callbacks[c].pc \notin Inside)
                              \/ Enters(c),
         \A q \in QueueIds : loops'[q] = loops[q] \/ loops'[q].pc # "publish"
                             \/ Begun(q),
         \A q \in QueueIds, c \in Callbacks : ~Accepted(q, c)
  PROVE  Ordered'
  <1>1. {"publish", "done", "supersede", "enqueue"} \subseteq Inside
    BY DEF Inside
  <1>2. \A q \in QueueIds : /\ BookChanges(q)
                            /\ stopped[q] => stopped'[q]
    BY BookStep DEF Grounds
  <1>3. workerRetry # 0 => workerRetry \in QueueIds
    BY ReportsAssumption DEF Grounds, Typed, ManagerTypes, QueueIds
  <1>4. workerRetry # 0 /\ NoSpeaker(workerRetry) => NoSpeaker(workerRetry)'
    BY <1>2, <1>3, StillNoSpeaker DEF Grounds
  <1>5. Heard' <=> Heard
    BY <1>1 DEF Heard, Waits, Enters, ReportsFree
  <1>6. workerRetry # 0 /\ Timely(workerRetry) => Timely(workerRetry)'
    BY <1>2, <1>3, StillTimely DEF Grounds, Ordered, SpeakerOrder, Promises
  <1>7. Displaced'
    <2>1. ASSUME workerRetry # 0, NEW c \in Callbacks,
                 callbacks'[c].pc \in Inside,
                 \/ callbacks'[c].gen # reconnectGeneration
                 \/ /\ callbacks'[c].pc \in {"supersede", "enqueue"}
                    /\ callbacks'[c].queue # workerRetry
          PROVE  NoSpeaker(workerRetry)
      BY <2>1 DEF Waits, Enters, Grounds, Ordered, Displaced
    <2>2. ASSUME workerRetry # 0, NEW p \in QueueIds,
                 loops'[p].pc = "publish", p # workerRetry
          PROVE  NoSpeaker(workerRetry)
      BY <2>2 DEF Begun, LoopMayEnter, IsCurrent, Grounds, Ordered, Displaced
    <2>3. QED
      BY <1>4, <2>1, <2>2 DEF Grounds, Ordered, Displaced
  <1>8. \A c \in Callbacks :
          callbacks'[c].pc \in Inside /\ callbacks'[c].key = Speaker =>
            confirmed <= callbacks'[c].version
    BY DEF Waits, Enters, Grounds, Ordered, SpeakerOrder, Past
  <1>9. ASSUME NEW q \in QueueIds PROVE Forward(q)'
    <2>1. CASE Begun(q) /\ loops[q].key = Speaker
      <3>1. /\ ReportsFree /\ workerRetry = q /\ IsLatest(q) /\ InHand(q)
            /\ loops'[q].version = loops[q].version
        BY <2>1 DEF Begun, LoopMayEnter, IsCurrent, InHand, Refreshed
      <3>2. ~Heard /\ workerRetry # 0
        BY <1>1, <3>1 DEF ReportsFree, Heard, QueueIds
      <3>3. QED
        BY <2>1, <3>1, <3>2 DEF Grounds, Ordered, SpeakerOrder, Timely,
             Forward
    <2>2. CASE Begun(q) /\ loops[q].key # Speaker
      BY <2>2 DEF Begun, Forward
    <2>3. CASE loops'[q] = loops[q] \/ loops'[q].pc # "publish"
      BY <2>3 DEF Grounds, Ordered, SpeakerOrder, Forward
    <2>4. QED
      BY <2>1, <2>2, <2>3
  <1>10. SpeakerOrder'
    BY <1>5, <1>6, <1>8, <1>9 DEF Grounds, Ordered, SpeakerOrder
  <1>11. QED
    BY <1>7, <1>10 DEF Ordered

\* A callback that has the answer of the Worker.
LEMMA PublishOrdered ==
  ASSUME Grounds, NEW c \in Callbacks, NEW applied \in BOOLEAN,
         NEW result \in Results, Publish(c, applied, result)
  PROVE  Ordered' /\ (seen'[Speaker] # seen[Speaker] =>
                        confirmed <= seen'[Speaker])
  <1>1. PICK k, v : k = callbacks[c].key /\ v = callbacks[c].version
    OBVIOUS
  <1>2. /\ callbacks[c].pc = "publish" /\ Post(k, v, applied, result)
        /\ UNCHANGED <<pending, latest, stopped, loops>>
    BY <1>1 DEF Publish, queues
  <1>3. k \in Keys /\ v \in Nat /\ confirmed \in Nat
    BY <1>1, <1>2 DEF Grounds, Typed, CallbackTypes, Callback, OtherTypes
  <1>4. /\ callbacks[c].pc \in Inside
        /\ \A d \in Callbacks : d # c => callbacks[d].pc \notin Inside
        /\ \A q \in QueueIds : loops[q].pc # "publish"
    <2>1. callbacks[c].pc \in Inside
      BY <1>2 DEF Inside
    <2>2. QED
      BY <2>1, Alone DEF Grounds
  <1>5. /\ confirmed' = IF k = Speaker /\ result = "done" THEN v
                        ELSE confirmed
        /\ seen'[Speaker] # seen[Speaker] =>
             k = Speaker /\ seen'[Speaker] = v
    BY <1>2, <1>3, PostSpeaker DEF Grounds
  <1>6. k = Speaker => confirmed <= v
    BY <1>1, <1>4 DEF Grounds, Ordered, SpeakerOrder
  <1>7. UNCHANGED <<job, reconnectGeneration, workerRetry>>
    BY OthersLeave DEF CallbackStep
  <1>8. /\ \A d \in Callbacks : d # c => callbacks'[d] = callbacks[d]
        /\ \/ callbacks'[c].pc \notin Inside
           \/ /\ callbacks'[c].pc = result /\ result \in {"done", "failed"}
              /\ callbacks'[c].key = k /\ callbacks'[c].version = v
              /\ callbacks'[c].gen = callbacks[c].gen
    <2>1. CASE MoveOn(c)
      BY <2>1, MoveOnFrees DEF Grounds
    <2>2. CASE /\ callbacks' = [callbacks EXCEPT ![c].pc = result]
               /\ result \in {"done", "failed"}
      BY <1>1, <2>2 DEF Grounds, Typed, CallbackTypes, Callback
    <2>3. QED
      BY <2>1, <2>2 DEF Publish
  <1>9. /\ NoSpeaker(workerRetry)' <=> NoSpeaker(workerRetry)
        /\ confirmed' = confirmed =>
             (Timely(workerRetry)' <=> Timely(workerRetry))
    BY <1>2, <1>7 DEF NoSpeaker, Timely, InHand, Waiting, IsLatest
  <1>10. Displaced'
    BY <1>2, <1>4, <1>7, <1>8, <1>9 DEF Grounds, Ordered, Displaced
  <1>11. ~Heard
    BY <1>2, <1>4 DEF Heard, Inside
  <1>12. k = Speaker /\ result = "done" => Heard'
    <2>1. ASSUME result = "done"
          PROVE  callbacks' = [callbacks EXCEPT ![c].pc = result]
      BY <2>1 DEF Publish
    <2>2. result = "done" => callbacks'[c].pc = "done" /\ callbacks'[c].key = k
      BY <1>1, <2>1 DEF Grounds, Typed, CallbackTypes, Callback
    <2>3. QED
      BY <2>2 DEF Heard
  <1>13. SpeakerOrder'
    <2>1. \A d \in Callbacks :
            callbacks'[d].pc \in Inside /\ callbacks'[d].key = Speaker =>
              confirmed' <= callbacks'[d].version
      BY <1>3, <1>4, <1>5, <1>6, <1>8
    <2>2. \A q \in QueueIds : Forward(q)'
      BY <1>2, <1>4 DEF Forward
    <2>3. workerRetry' # 0 /\ ~Heard' => Timely(workerRetry)'
      BY <1>5, <1>7, <1>9, <1>11, <1>12 DEF Grounds, Ordered, SpeakerOrder
    <2>4. QED
      BY <2>1, <2>2, <2>3 DEF SpeakerOrder
  <1>14. QED
    BY <1>5, <1>6, <1>10, <1>13 DEF Ordered

\* A callback that leaves, once the queue has no speaker that is too old.
LEMMA LeaveOrdered ==
  ASSUME Grounds, NEW c \in Callbacks, callbacks[c].pc \in Inside, MoveOn(c),
         UNCHANGED <<job, reconnectGeneration, workerRetry, loops, confirmed>>,
         workerRetry # 0 => Timely(workerRetry)'
  PROVE  Ordered'
  <1>1. /\ \A d \in Callbacks : d # c => callbacks[d].pc \notin Inside
        /\ \A q \in QueueIds : loops[q].pc # "publish"
    BY Alone DEF Grounds
  <1>2. \A d \in Callbacks : callbacks'[d].pc \notin Inside
    BY <1>1, MoveOnFrees DEF Grounds
  <1>3. QED
    BY <1>1, <1>2 DEF Grounds, Ordered, Displaced, SpeakerOrder, Forward

\* A callback that looks for the queue.
LEMMA LookupOrdered ==
  ASSUME Grounds, NEW c \in Callbacks, Lookup(c)
  PROVE  Ordered'
  <1>1. /\ callbacks[c].pc \in {"done", "failed"}
        /\ UNCHANGED <<pending, latest, stopped, loops, confirmed>>
    BY DEF Lookup, queues, worker
  <1>2. callbacks[c].pc \in Inside
    BY <1>1 DEF Inside
  <1>3. UNCHANGED <<job, reconnectGeneration, workerRetry>>
    BY OthersLeave DEF CallbackStep
  <1>4. /\ NoSpeaker(workerRetry)' <=> NoSpeaker(workerRetry)
        /\ Timely(workerRetry)' <=> Timely(workerRetry)
    BY <1>1, <1>3 DEF NoSpeaker, Timely, InHand, Waiting, IsLatest
  <1>5. /\ \A d \in Callbacks : d # c => callbacks[d].pc \notin Inside
        /\ \A q \in QueueIds : loops[q].pc # "publish"
    BY <1>2, Alone DEF Grounds
  <1>6. CASE MoveOn(c)
    <2>1. workerRetry # 0 => Timely(workerRetry)
      <3>1. CASE Heard
        <4>1. callbacks[c].pc = "done" /\ callbacks[c].key = Speaker
          BY <1>1, <1>5, <3>1 DEF Heard, Inside
        <4>2. ~(/\ workerRetry # 0 /\ job = callbacks[c].job
                /\ reconnectGeneration = callbacks[c].gen)
          <5>1. callbacks'[c].pc \notin Inside
            BY <1>6, MoveOnFrees DEF Grounds
          <5>2. CASE callbacks' = [callbacks EXCEPT ![c].pc = "supersede",
                                     ![c].queue = workerRetry]
            <6>1. callbacks'[c].pc = "supersede"
              BY <5>2 DEF Grounds, Typed, CallbackTypes, Callback
            <6>2. QED
              BY <5>1, <6>1 DEF Inside
          <5>3. QED
            BY <4>1, <5>2 DEF Lookup
        <4>3. workerRetry # 0 => callbacks[c].gen # reconnectGeneration
          BY <1>1, <4>2 DEF Grounds, Ordered, Displaced, Promises, Fresh
        <4>4. workerRetry # 0 => NoSpeaker(workerRetry)
          BY <1>2, <4>3 DEF Grounds, Ordered, Displaced
        <4>5. QED
          BY <4>4 DEF NoSpeaker, Timely
      <3>2. CASE ~Heard
        BY <3>2 DEF Grounds, Ordered, SpeakerOrder
      <3>3. QED
        BY <3>1, <3>2
    <2>2. QED
      BY <1>1, <1>2, <1>3, <1>4, <1>6, <2>1, LeaveOrdered
  <1>7. CASE ~MoveOn(c)
    <2>1. PICK pc : pc = IF callbacks[c].pc = "done" THEN "supersede"
                         ELSE "enqueue"
      OBVIOUS
    <2>2. /\ callbacks' = [callbacks EXCEPT ![c].pc = pc,
                                            ![c].queue = workerRetry]
          /\ callbacks[c].gen = reconnectGeneration
      BY <1>7, <2>1 DEF Lookup
    <2>3. /\ callbacks'[c].pc = pc
          /\ callbacks'[c].queue = workerRetry
          /\ callbacks'[c].key = callbacks[c].key
          /\ callbacks'[c].version = callbacks[c].version
          /\ callbacks'[c].gen = callbacks[c].gen
          /\ \A d \in Callbacks : d # c => callbacks'[d] = callbacks[d]
      BY <2>2 DEF Grounds, Typed, CallbackTypes, Callback
    <2>4. Heard => Heard'
      BY <1>1, <1>5, <2>1, <2>3 DEF Heard, Inside
    <2>5. Displaced'
      BY <1>1, <1>3, <1>4, <1>5, <2>2, <2>3 DEF Grounds, Ordered, Displaced
    <2>6. SpeakerOrder'
      BY <1>1, <1>2, <1>3, <1>4, <1>5, <2>3, <2>4
         DEF Grounds, Ordered, SpeakerOrder, Forward
    <2>7. QED
      BY <2>5, <2>6 DEF Ordered
  <1>8. QED
    BY <1>6, <1>7

\* A callback that clears the queue of the report it has published.
LEMMA SupersedeOrdered ==
  ASSUME Grounds, NEW c \in Callbacks, Supersede(c)
  PROVE  Ordered'
  <1>1. PICK q, k : q = callbacks[c].queue /\ k = callbacks[c].key
    OBVIOUS
  <1>2. /\ callbacks[c].pc = "supersede" /\ MoveOn(c)
        /\ UNCHANGED <<stopped, loops, confirmed>>
    BY DEF Supersede, worker
  <1>3. q \in QueueIds /\ k \in Keys /\ callbacks[c].pc \in Inside
    BY <1>1, <1>2, HasQueue DEF Grounds, Inside
  <1>4. UNCHANGED <<job, reconnectGeneration, workerRetry>>
    BY OthersLeave DEF CallbackStep
  <1>5. \A d \in Callbacks : d # c => callbacks[d].pc \notin Inside
    BY <1>3, Alone DEF Grounds
  <1>6. /\ workerRetry # 0 => workerRetry \in QueueIds
        /\ Speaker \in Keys /\ NoReport.seq = 0
    BY ReportsAssumption DEF Grounds, Typed, ManagerTypes, QueueIds, Keys,
         NoReport
  <1>7. /\ \A d \in Callbacks, p \in QueueIds : ~Accepted(p, d)
        /\ \A p \in QueueIds : BookChanges(p) /\ (stopped[p] => stopped'[p])
    <2>1. \A d \in Callbacks : callbacks[d].pc # "enqueue"
      BY <1>2, <1>5 DEF Inside
    <2>2. QED
      BY <2>1, BookStep DEF Accepted, Grounds
  <1>8. ASSUME workerRetry # 0 PROVE Timely(workerRetry)'
    <2>1. CASE ~Heard
      <3>1. Timely(workerRetry)
        BY <1>8, <2>1 DEF Grounds, Ordered, SpeakerOrder
      <3>2. Timely(workerRetry)'
        BY <1>2, <1>4, <1>6, <1>7, <1>8, <3>1, StillTimely
           DEF Grounds, Ordered, SpeakerOrder, Promises
      <3>3. QED
        BY <3>2
    <2>2. CASE Heard /\ q # workerRetry
      <3>1. NoSpeaker(workerRetry)
        BY <1>1, <1>2, <1>3, <1>8, <2>2 DEF Grounds, Ordered, Displaced
      <3>2. NoSpeaker(workerRetry)'
        BY <1>4, <1>6, <1>7, <1>8, <3>1, StillNoSpeaker DEF Grounds
      <3>3. QED
        BY <3>2 DEF NoSpeaker, Timely
    <2>3. CASE Heard /\ q = workerRetry
      <3>1. k = Speaker
        BY <1>1, <1>2, <1>5, <2>3 DEF Heard, Inside
      <3>2. InHand(q) => loops[q].seq # 0
        BY <1>3 DEF Grounds, Promises, Numbered
      <3>3. CASE Put(q, k, NoReport) /\ Mark(q, k, 0)
        <4>1. pending'[q][Speaker].seq = 0 /\ latest'[q][Speaker] = 0
          BY <1>3, <1>6, <3>1, <3>3, PutAt, MarkAt DEF Grounds
        <4>2. QED
          BY <1>2, <1>4, <2>3, <3>2, <4>1
             DEF Timely, Waiting, IsLatest, InHand
      <3>4. CASE stopped[q] /\ UNCHANGED <<pending, latest>>
        <4>1. Waiting(q) = {}
          BY <1>3, <3>4 DEF Grounds, StoppedIsEmpty
        <4>2. QED
          BY <1>2, <1>4, <2>3, <3>4, <4>1 DEF Timely, Waiting, IsLatest
      <3>5. QED
        BY <1>1, <3>3, <3>4 DEF Supersede
    <2>4. QED
      BY <2>1, <2>2, <2>3
  <1>9. QED
    BY <1>2, <1>3, <1>4, <1>8, LeaveOrdered

\* A callback that gives the queue its report.
LEMMA EnqueueOrdered ==
  ASSUME Grounds, NEW c \in Callbacks, EnqueueReport(c)
  PROVE  Ordered'
  <1>1. /\ callbacks[c].pc = "enqueue" /\ MoveOn(c)
        /\ UNCHANGED <<loops, confirmed>>
    BY DEF EnqueueReport, worker
  <1>2. callbacks[c].pc \in Inside
    BY <1>1 DEF Inside
  <1>3. UNCHANGED <<job, reconnectGeneration, workerRetry>>
    BY OthersLeave DEF CallbackStep
  <1>4. \A d \in Callbacks : d # c => callbacks[d].pc \notin Inside
    BY <1>2, Alone DEF Grounds
  <1>5. workerRetry # 0 => workerRetry \in QueueIds
    BY ReportsAssumption DEF Grounds, Typed, ManagerTypes, QueueIds
  <1>6. ~Heard
    BY <1>1, <1>4 DEF Heard, Inside
  <1>7. \A d \in Callbacks :
          callbacks[d].pc = "enqueue" /\ callbacks[d].key = Speaker =>
            confirmed <= callbacks[d].version
    BY DEF Grounds, Ordered, SpeakerOrder, Inside
  <1>8. ASSUME workerRetry # 0 PROVE Timely(workerRetry)'
    <2>1. Timely(workerRetry)
      BY <1>6, <1>8 DEF Grounds, Ordered, SpeakerOrder
    <2>2. BookChanges(workerRetry) /\ (stopped[workerRetry] =>
                                         stopped'[workerRetry])
      BY <1>5, <1>8, BookStep DEF Grounds
    <2>3. \A d \in Callbacks :
            Accepted(workerRetry, d) /\ callbacks[d].key = Speaker =>
              confirmed <= callbacks[d].version
      BY <1>7 DEF Accepted
    <2>4. PICK q \in QueueIds : q = workerRetry
      BY <1>5, <1>8
    <2>5. Timely(q)'
      BY <1>1, <2>1, <2>2, <2>3, <2>4, StillTimely
         DEF Grounds, Ordered, SpeakerOrder, Promises
    <2>6. QED
      BY <1>3, <2>4, <2>5
  <1>9. QED
    BY <1>1, <1>2, <1>3, <1>8, LeaveOrdered

\* A loop that has the answer of the Worker.
LEMMA RetriesOrdered ==
  ASSUME Grounds, NEW q \in QueueIds, NEW applied \in BOOLEAN,
         NEW result \in Results, Retries(q, applied, result)
  PROVE  Ordered' /\ (seen'[Speaker] # seen[Speaker] =>
                        confirmed <= seen'[Speaker])
  <1>1. PICK k, v : k = loops[q].key /\ v = loops[q].version
    OBVIOUS
  <1>2. /\ loops[q].pc = "publish" /\ Post(k, v, applied, result)
        /\ UNCHANGED <<callbacks, stopped>>
    BY <1>1 DEF Retries
  <1>3. k \in Keys /\ v \in Nat /\ confirmed \in Nat
    BY <1>1, <1>2 DEF Grounds, Typed, LoopTypes, Loop, OtherTypes
  <1>4. /\ loops'[q].pc = "idle"
        /\ \A p \in QueueIds : p # q => loops'[p] = loops[p]
    BY DEF Retries, Sleep, Asleep, Grounds, Typed, LoopTypes
  <1>5. /\ \A c \in Callbacks : callbacks[c].pc \notin Inside
        /\ \A p \in QueueIds : loops'[p].pc # "publish"
    BY <1>2, <1>4 DEF Grounds, OrderInv, Exclusive
  <1>6. /\ confirmed' = IF k = Speaker /\ result = "done" THEN v
                        ELSE confirmed
        /\ seen'[Speaker] # seen[Speaker] =>
             k = Speaker /\ seen'[Speaker] = v
    BY <1>2, <1>3, PostSpeaker DEF Grounds
  <1>7. k = Speaker => confirmed <= v
    BY <1>1, <1>2 DEF Grounds, Ordered, SpeakerOrder, Forward
  <1>8. UNCHANGED <<job, reconnectGeneration, workerRetry>>
    BY OthersLeave DEF LoopStep
  <1>9. /\ workerRetry # 0 => workerRetry \in QueueIds
        /\ Speaker \in Keys /\ NoReport.seq = 0
    BY ReportsAssumption DEF Grounds, Typed, ManagerTypes, QueueIds, Keys,
         NoReport
  <1>10. /\ \A c \in Callbacks, p \in QueueIds : ~Accepted(p, c)
         /\ \A p \in QueueIds : BookChanges(p) /\ (stopped[p] => stopped'[p])
    <2>1. \A c \in Callbacks : callbacks[c].pc # "enqueue"
      BY <1>5 DEF Inside
    <2>2. QED
      BY <2>1, BookStep DEF Accepted, Grounds
  <1>11. ~Heard
    BY <1>5 DEF Heard, Inside
  <1>12. ASSUME workerRetry # 0 PROVE Timely(workerRetry)'
    <2>1. CASE confirmed' = confirmed
      <3>1. PICK p \in QueueIds : p = workerRetry
        BY <1>9, <1>12
      <3>2. Timely(p)
        BY <1>11, <1>12, <3>1 DEF Grounds, Ordered, SpeakerOrder
      <3>3. Timely(p)'
        BY <1>10, <2>1, <3>2, StillTimely
           DEF Grounds, Ordered, SpeakerOrder, Promises
      <3>4. QED
        BY <1>8, <3>1, <3>3
    <2>2. CASE k = Speaker /\ result = "done" /\ workerRetry # q
      <3>1. NoSpeaker(workerRetry)
        BY <1>2, <1>12, <2>2 DEF Grounds, Ordered, Displaced
      <3>2. PICK p \in QueueIds : p = workerRetry
        BY <1>9, <1>12
      <3>3. NoSpeaker(p)'
        BY <1>10, <3>1, <3>2, StillNoSpeaker DEF Grounds
      <3>4. QED
        BY <1>8, <3>2, <3>3 DEF NoSpeaker, Timely
    <2>3. CASE k = Speaker /\ result = "done" /\ workerRetry = q
      <3>1. pending[q][Speaker].seq = 0
        BY <1>1, <1>2, <2>3 DEF Grounds, Tidy
      <3>2. pending'[q][Speaker].seq = 0
        <4>1. ~Again(q, result)
          BY <2>3 DEF Again
        <4>2. UNCHANGED pending \/ Put(q, k, NoReport)
          BY <1>1, <4>1 DEF Retries
        <4>3. QED
          BY <1>3, <1>9, <3>1, <4>2, PutAt DEF Grounds
      <3>3. QED
        BY <1>4, <1>8, <2>3, <3>2 DEF Timely, Waiting, InHand
    <2>4. QED
      BY <1>6, <2>1, <2>2, <2>3
  <1>13. Ordered'
    BY <1>2, <1>5, <1>8, <1>12
       DEF Grounds, Ordered, Displaced, SpeakerOrder, Forward
  <1>14. QED
    BY <1>6, <1>7, <1>13

\* The steps that neither publish nor hold participantReportMu.
LEMMA QuietStep ==
  ASSUME Grounds,
         \/ \E c \in Callbacks : Event(c) \/ Enter(c)
         \/ \E q \in QueueIds : \/ StopQueue(q) \/ Drops(q) \/ Refreshes(q)
                                \/ Ends(q) \/ \E k \in Keys : Takes(q, k)
  PROVE  Ordered' /\ UNCHANGED seen
  <1>1. UNCHANGED <<job, reconnectGeneration, workerRetry>>
    BY OthersLeave DEF CallbackStep, LoopStep
  <1>2. UNCHANGED <<seen, confirmed, sequence>>
    BY DEF Event, ParticipantChanged, ParticipantsSynced, SetSpeakerState,
         Changes, ClearSpeakers, Replays, ChatReceived, Enter, StopQueue,
         Drops, Refreshes, Ends, Takes, worker, queues
  <1>3. \A q \in QueueIds, c \in Callbacks : ~Accepted(q, c)
    <2>1. \A q \in QueueIds : sequence[q] \in Nat
      BY DEF Grounds, Typed, BookTypes
    <2>2. QED
      BY <1>2, <2>1 DEF Accepted
  <1>4. ASSUME NEW d \in Callbacks
        PROVE  \/ callbacks'[d] = callbacks[d]
               \/ Waits(d) /\ callbacks[d].pc \notin Inside
               \/ Enters(d)
    <2>1. CallbackChanges(d)
      BY CallbackStepChanges DEF Grounds
    <2>2. ASSUME NEW c \in Callbacks, Event(c) \/ Enter(c)
          PROVE  /\ d # c => callbacks'[d] = callbacks[d]
                 /\ callbacks[c].pc \in {"idle", "wait"}
      <3>1. CASE Event(c)
        BY <3>1 DEF Event, ParticipantChanged, ParticipantsSynced,
             SetSpeakerState, Changes, ClearSpeakers, Replays, ChatReceived,
             Reporting, Grounds, Typed, CallbackTypes
      <3>2. CASE Enter(c) /\ MoveOn(c)
        BY <3>2, MoveOnFrees DEF Enter, Grounds
      <3>3. CASE Enter(c) /\ ~MoveOn(c)
        BY <3>3 DEF Enter, Grounds, Typed, CallbackTypes
      <3>4. QED
        BY <2>2, <3>1, <3>2, <3>3
    <2>3. CASE UNCHANGED callbacks
      BY <2>3
    <2>4. CASE \E c \in Callbacks : Event(c) \/ Enter(c)
      BY <2>1, <2>2, <2>4 DEF CallbackChanges, Answered, Finds, Inside
    <2>5. QED
      BY <2>3, <2>4 DEF StopQueue, Drops, Refreshes, Ends, Takes
  <1>5. ASSUME NEW q \in QueueIds
        PROVE  loops'[q] = loops[q] \/ loops'[q].pc # "publish" \/ Begun(q)
    <2>1. BookChanges(q)
      BY BookStep DEF Grounds
    <2>2. QED
      BY <2>1 DEF BookChanges, Rests, Cleared, Wiped, Accepted, Taken, Ended,
           Settled, Asleep
  <1>6. QED
    BY <1>1, <1>2, <1>3, <1>4, <1>5, QuietOrdered

\* Every step keeps the order of the speaker's reports, and none replaces a
\* confirmed speaker by an older one.
LEMMA NextOrdered ==
  ASSUME Grounds
  PROVE  Ordered' /\ (seen'[Speaker] # seen[Speaker] =>
                        confirmed <= seen'[Speaker])
  <1>1. ASSUME \/ StartCommit \/ StopBegin \/ StopFails \/ StopFinish
               \/ \E rejoin \in BOOLEAN : DiscordDisconnected(rejoin)
               \/ DiscordConnected
               \/ \E g \in rejoins : Rejoined(g) \/ RejoinEnds(g)
        PROVE  Ordered' /\ UNCHANGED seen
    BY <1>1, ManagerOrdered, ManagerSteps DEF Grounds, Promises, Typed, worker
  <1>2. ASSUME NEW c \in Callbacks, CallbackStep(c)
        PROVE  Ordered' /\ (seen'[Speaker] # seen[Speaker] =>
                              confirmed <= seen'[Speaker])
    <2>1. CASE Lookup(c) \/ Supersede(c) \/ EnqueueReport(c)
      <3>1. UNCHANGED seen
        BY <2>1 DEF Lookup, Supersede, EnqueueReport, worker
      <3>2. QED
        BY <2>1, <3>1, LookupOrdered, SupersedeOrdered, EnqueueOrdered
    <2>2. QED
      BY <1>2, <2>1, PublishOrdered, QuietStep DEF CallbackStep
  <1>3. ASSUME NEW q \in QueueIds, StopQueue(q) \/ LoopStep(q)
        PROVE  Ordered' /\ (seen'[Speaker] # seen[Speaker] =>
                              confirmed <= seen'[Speaker])
    BY <1>3, RetriesOrdered, QuietStep DEF LoopStep
  <1>4. CASE UNCHANGED vars
    <2>1. UNCHANGED <<job, reconnectGeneration, workerRetry, pending, latest,
                      stopped, loops, callbacks, confirmed, seen>>
      BY <1>4 DEF vars, manager, queues, worker
    <2>2. Ordered'
      BY <2>1 DEF Grounds, Ordered, Displaced, SpeakerOrder, NoSpeaker,
           Timely, Forward, Heard, Waiting, InHand, IsLatest
    <2>3. QED
      BY <2>1, <2>2
  <1>5. QED
    BY <1>1, <1>2, <1>3, <1>4, QuietStep DEF Next, Grounds

\* The order of the reports, with all that it rests on
OrderedInv ==
  /\ TypeOK /\ OrderInv /\ RoomInv /\ StoppedIsEmpty /\ Promises
  /\ Past /\ (\A q \in QueueIds : Tidy(q)) /\ Ordered

\* The Worker never goes back: no step replaces newer participants by older
\* ones, or a speaker that the Worker has confirmed by an older one, however
\* callbacks, retries, reconnects and restarts interleave.
THEOREM OrderCorrect == Spec => NeverGoesBack
  <1>1. Init => OrderedInv
    <2> SUFFICES ASSUME Init PROVE OrderedInv
      OBVIOUS
    <2>1. TypeOK /\ OrderInv /\ RoomInv /\ Promises
      BY InitTypeOK, InitOrder, InitRoom, InitPromises
    <2>2. /\ \A q \in QueueIds : /\ loops[q] = Asleep /\ ~stopped[q]
                                 /\ sequence[q] = 0
                                 /\ \A k \in Keys : pending[q][k] = NoReport
          /\ \A c \in Callbacks : callbacks[c] = Idle
          /\ workerRetry = 0 /\ confirmed = 0 /\ version = 0
      BY DEF Init
    <2>3. /\ Asleep.pc = "idle" /\ Asleep.version = 0
          /\ Idle.pc = "idle" /\ Idle.version = 0
          /\ NoReport.seq = 0 /\ NoReport.version = 0
      BY DEF Asleep, Idle, NoReport
    <2>4. Past /\ StoppedIsEmpty
      BY <2>2, <2>3 DEF Past, StoppedIsEmpty
    <2>5. \A q \in QueueIds : Tidy(q)
      BY <2>2, <2>3 DEF Tidy, InHand, Waiting
    <2>6. Ordered
      BY <2>2, <2>3 DEF Ordered, Displaced, SpeakerOrder, Forward, Inside
    <2>7. QED
      BY <2>1, <2>4, <2>5, <2>6 DEF OrderedInv
  <1>2. OrderedInv /\ [Next]_vars =>
          /\ OrderedInv'
          /\ seen[Participants] <= seen'[Participants]
          /\ seen'[Speaker] # seen[Speaker] => confirmed <= seen'[Speaker]
    <2> SUFFICES ASSUME OrderedInv, [Next]_vars
                 PROVE  /\ OrderedInv'
                        /\ seen[Participants] <= seen'[Participants]
                        /\ seen'[Speaker] # seen[Speaker] =>
                             confirmed <= seen'[Speaker]
      OBVIOUS
    <2> USE DEF OrderedInv
    <2>1. /\ Typed /\ Typed' /\ TypeOK'
          /\ OrderInv' /\ seen[Participants] <= seen'[Participants]
          /\ RoomInv' /\ Promises'
      BY NextTypeOK, Types, NextOrder, NextRoom, NextPromises
    <2>2. StoppedIsEmpty'
      BY NextStopped
    <2>3. Past' /\ \A q \in QueueIds : Tidy(q)'
      BY <2>1, NextPast, NextTidy DEF Promises
    <2>4. Grounds
      BY <2>1 DEF Grounds
    <2>5. QED
      BY <2>1, <2>2, <2>3, <2>4, NextOrdered
  <1>3. QED
    BY <1>1, <1>2, PTL DEF Spec, NeverGoesBack
=============================================================================
