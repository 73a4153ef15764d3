---------------------------- MODULE WorkerReports ----------------------------
(***************************************************************************)
(* What the Worker is told about a job: the reports of participants,       *)
(* active speaker and chat messages (Manager.reportParticipantsIfCurrent,  *)
(* reportActiveSpeakerIfCurrent, ChatMessageReceived) and the              *)
(* workerEventRetryQueue that keeps the ones that failed.                  *)
(*                                                                         *)
(* One action is one critical section of Manager.mu or of a queue's mutex. *)
(* participantReportMu is held from the fences of a report to the last use *)
(* of the queue, by the callbacks and by the retry loop alike; taking it   *)
(* is part of the section that follows.  The content of a report is the    *)
(* version of the participant state it was read from.  Timers fire at any  *)
(* time, the Worker answers anything, and it has applied a request when    *)
(* the request returns or it never does.  The jobs name a Worker and its   *)
(* token: without both, Reporter.post returns at once and nothing is sent. *)
(***************************************************************************)
EXTENDS Naturals, FiniteSets

CONSTANTS
  Callbacks,    \* goroutines of Discord handlers and of the sync loop
  Participants, \* key of the participants report of the stream
  Speaker,      \* key of the active speaker report of the stream
  Chats,        \* keys of chat messages: message identifiers
  NoKey,        \* no report
  MaxPending,   \* maxWorkerEventRetryPending
  MaxAttempts,  \* maxWorkerEventRetryAttempts
  MaxQueues,    \* bound: newWorkerEventRetryQueue calls in one behaviour
  MaxInputs     \* bound: requests and Discord events in one behaviour

Keys  == {Participants, Speaker} \cup Chats
State == {Participants, Speaker}

ASSUME ReportsAssumption ==
  /\ Participants # Speaker
  /\ State \cap Chats = {}
  /\ NoKey \notin Keys
  /\ MaxPending \in Nat /\ MaxPending >= 2
  /\ MaxAttempts \in Nat \ {0}
  /\ MaxQueues \in Nat
  /\ MaxInputs \in Nat

QueueIds == 1..MaxQueues

VARIABLES
  job,                       \* Manager.current: its number, 0 for none
  jobsMade,                  \* jobs started so far
  stopping,                  \* Manager.stopping
  disconnected,              \* Manager.disconnected
  reconnectGeneration,       \* Manager.reconnectGeneration
  participantStateRevision,  \* Manager.participantStateRevision
  version,                   \* the participant state itself, numbered
  workerRetry,               \* Manager.workerRetry: a queue, 0 for nil
  queuesMade,                \* queues made so far
  retiring,                  \* queues on which stopAndWait is going to run
  stopper,                   \* a Stop is inside LeaveVoice
  rejoins,                   \* generations of the rejoin goroutines
  pending,                   \* pending[q]: the queue's reports, by key
  latest,                    \* latest[q]: sequence number by key, 0 for none
  sequence,                  \* sequence[q]
  stopped,                   \* stopped[q]
  after,                     \* after[q]: the queue whose end q's loop awaits
  loops,                     \* loops[q]: q's retry loop
  callbacks,                 \* the callbacks
  seen,                      \* version of each report the Worker has applied
  confirmed,                 \* history: version of the newest speaker report
                             \* that was answered with success
  received,                  \* chat messages received
  delivered,                 \* chat messages the Worker has applied
  excused,                   \* keys that were given up, and the code says so
  inputs                     \* requests and events so far

manager == <<job, jobsMade, stopping, disconnected, reconnectGeneration,
             workerRetry, queuesMade, retiring, after, stopper, rejoins>>
content == <<participantStateRevision, version, received>>
queues  == <<pending, latest, sequence, stopped>>
worker  == <<seen, confirmed, delivered>>
vars    == <<manager, content, queues, loops, callbacks, worker, excused,
             inputs>>

NoReport == [seq |-> 0, attempts |-> 0, version |-> 0]
Idle     == [pc |-> "idle", key |-> NoKey, speaker |-> FALSE, job |-> 0,
             gen |-> 0, rev |-> 0, version |-> 0, queue |-> 0]
Asleep   == [pc |-> "idle", key |-> NoKey, seq |-> 0, attempts |-> 0,
             version |-> 0]

Init ==
  /\ job = 0 /\ jobsMade = 0
  /\ stopping = FALSE /\ disconnected = FALSE
  /\ reconnectGeneration = 0
  /\ participantStateRevision = 0 /\ version = 0
  /\ workerRetry = 0 /\ queuesMade = 0 /\ retiring = {}
  /\ stopper = FALSE /\ rejoins = {}
  /\ pending = [q \in QueueIds |-> [k \in Keys |-> NoReport]]
  /\ latest = [q \in QueueIds |-> [k \in Keys |-> 0]]
  /\ sequence = [q \in QueueIds |-> 0]
  /\ stopped = [q \in QueueIds |-> FALSE]
  /\ after = [q \in QueueIds |-> 0]
  /\ loops = [q \in QueueIds |-> Asleep]
  /\ callbacks = [c \in Callbacks |-> Idle]
  /\ seen = [k \in State |-> 0] /\ confirmed = 0
  /\ received = {} /\ delivered = {}
  /\ excused = Keys
  /\ inputs = 0

-----------------------------------------------------------------------------
(* The Manager, as far as it makes, replaces and stops queues.             *)

Input == inputs < MaxInputs /\ inputs' = inputs + 1

\* eventsPausedLocked is false and there is a job
Live == job # 0 /\ ~stopping /\ ~disconnected

\* previousWorkerRetry: what was read before m.workerRetry was assigned
Retire == retiring' = retiring \cup ({workerRetry} \ {0})

\* newWorkerEventRetryQueue; its loop starts after stopAndWait of queue p
NewQueue(p) ==
  /\ queuesMade < MaxQueues
  /\ queuesMade' = queuesMade + 1
  /\ workerRetry' = queuesMade + 1
  /\ after' = [after EXCEPT ![queuesMade + 1] = p]
  /\ excused' = Keys

NoQueue ==
  /\ workerRetry' = 0
  /\ excused' = Keys
  /\ UNCHANGED <<queuesMade, after>>

\* The second critical section of Start
StartCommit ==
  /\ Input
  /\ reconnectGeneration' = reconnectGeneration + 1
  /\ Retire
  /\ NewQueue(workerRetry)
  /\ job' = jobsMade + 1
  /\ jobsMade' = jobsMade + 1
  /\ stopping' = FALSE
  /\ disconnected' = FALSE
  /\ participantStateRevision' = 0
  /\ version' = version + 1
  /\ UNCHANGED <<stopper, rejoins, received, queues, loops, callbacks, worker>>

StopBegin ==
  /\ Input
  /\ job # 0 /\ ~stopping /\ ~stopper
  /\ stopping' = TRUE
  /\ Retire
  /\ NoQueue
  /\ reconnectGeneration' = reconnectGeneration + 1
  /\ stopper' = TRUE
  /\ UNCHANGED <<job, jobsMade, disconnected, rejoins, content, queues, loops,
                 callbacks, worker>>

StopFails ==
  /\ stopper
  /\ \/ /\ stopping /\ job # 0
        /\ stopping' = FALSE
        /\ NewQueue(0)
     \/ /\ ~(stopping /\ job # 0)
        /\ UNCHANGED <<stopping, workerRetry, queuesMade, after, excused>>
  /\ stopper' = FALSE
  /\ UNCHANGED <<job, jobsMade, disconnected, reconnectGeneration, retiring,
                 rejoins, content, queues, loops, callbacks, worker, inputs>>

StopFinish ==
  /\ stopper
  /\ Retire
  /\ NoQueue
  /\ job' = 0
  /\ stopping' = FALSE
  /\ version' = version + 1
  /\ stopper' = FALSE
  /\ UNCHANGED <<jobsMade, disconnected, reconnectGeneration, rejoins,
                 participantStateRevision, received, queues, loops, callbacks,
                 worker, inputs>>

\* A voice disconnect starts a rejoin goroutine, a Gateway disconnect does not
DiscordDisconnected(rejoin) ==
  /\ Input
  /\ disconnected' = TRUE
  /\ Retire
  /\ NoQueue
  /\ reconnectGeneration' = reconnectGeneration + 1
  /\ rejoins' = rejoins \cup
       {g \in {reconnectGeneration + 1} : rejoin /\ job # 0 /\ ~stopping}
  /\ UNCHANGED <<job, jobsMade, stopping, stopper, content, queues, loops,
                 callbacks, worker>>

DiscordConnected ==
  /\ Input
  /\ disconnected' = FALSE
  /\ Retire
  /\ \/ job # 0 /\ ~stopping /\ NewQueue(workerRetry)
     \/ (job = 0 \/ stopping) /\ NoQueue
  /\ UNCHANGED <<job, jobsMade, stopping, reconnectGeneration, stopper,
                 rejoins, content, queues, loops, callbacks, worker>>

\* rejoinVoiceWithBackoff after JoinVoice.  A goroutine that is no longer
\* current stops the queue it finds and leaves it installed.
Rejoined(g) ==
  /\ g \in rejoins
  /\ rejoins' = rejoins \ {g}
  /\ Retire
  /\ \/ /\ g = reconnectGeneration /\ job # 0 /\ ~stopping
        /\ disconnected' = FALSE
        /\ NewQueue(workerRetry)
     \/ /\ ~(g = reconnectGeneration /\ job # 0 /\ ~stopping)
        /\ excused' = Keys
        /\ UNCHANGED <<disconnected, workerRetry, queuesMade, after>>
  /\ UNCHANGED <<job, jobsMade, stopping, reconnectGeneration, stopper,
                 content, queues, loops, callbacks, worker, inputs>>

\* The goroutine ends without having joined
RejoinEnds(g) ==
  /\ g \in rejoins
  /\ rejoins' = rejoins \ {g}
  /\ UNCHANGED <<job, jobsMade, stopping, disconnected, reconnectGeneration,
                 workerRetry, queuesMade, retiring, after, stopper, content,
                 queues, loops, callbacks, worker, excused, inputs>>

-----------------------------------------------------------------------------
(* The queue.                                                              *)


\* stopAndWait up to the wait
StopQueue(q) ==
  /\ q \in retiring
  /\ retiring' = retiring \ {q}
  /\ stopped' = [stopped EXCEPT ![q] = TRUE]
  /\ pending' = [pending EXCEPT ![q] = [k \in Keys |-> NoReport]]
  /\ latest' = [latest EXCEPT ![q] = [k \in Keys |-> 0]]
  /\ UNCHANGED <<job, jobsMade, stopping, disconnected, reconnectGeneration,
                 workerRetry, queuesMade, after, stopper, rejoins, content,
                 sequence, loops, callbacks, worker, excused, inputs>>

Waiting(q) == {k \in Keys : pending[q][k].seq # 0}

Put(q, k, r)  == pending' = [pending EXCEPT ![q][k] = r]
Mark(q, k, n) == latest' = [latest EXCEPT ![q][k] = n]

\* dropOldestChatLocked: what may be dropped to make room for key k.  Which
\* chat message is the oldest is left open.
Evict(q, k) ==
  IF k \in Waiting(q) \/ Cardinality(Waiting(q)) < MaxPending THEN {NoKey}
  ELSE Waiting(q) \cap Chats

\* Mutated form of Enqueue: the message dropped keeps its sequence number
EnqueueLeaking(q, k, v, d) ==
  LET n == sequence[q] + 1
      r == [seq |-> n, attempts |-> 0, version |-> v]
  IN  /\ d \in Evict(q, k)
      /\ sequence' = [sequence EXCEPT ![q] = n]
      /\ pending' = [pending EXCEPT ![q] =
           [x \in Keys |-> CASE x = k -> r [] x = d -> NoReport
                             [] OTHER -> pending[q][x]]]
      /\ Mark(q, k, n)
      /\ excused' = excused \cup ({d} \ {NoKey})

\* enqueue of a report with key k and the content of version v that makes room
\* by dropping d, on a queue that is not stopped
Enqueue(q, k, v, d) ==
  LET n == sequence[q] + 1
      r == [seq |-> n, attempts |-> 0, version |-> v]
  IN  /\ d \in Evict(q, k)
      /\ sequence' = [sequence EXCEPT ![q] = n]
      /\ pending' = [pending EXCEPT ![q] =
           [x \in Keys |-> CASE x = k -> r [] x = d -> NoReport
                             [] OTHER -> pending[q][x]]]
      /\ latest' = [latest EXCEPT ![q] =
           [x \in Keys |-> CASE x = k -> n [] x = d -> 0
                             [] OTHER -> latest[q][x]]]
      /\ excused' = excused \cup ({d} \ {NoKey})

-----------------------------------------------------------------------------
(* The callbacks.                                                          *)

\* participantReportMu
Inside      == {"publish", "done", "failed", "supersede", "enqueue"}
ReportsFree == /\ \A c \in Callbacks : callbacks[c].pc \notin Inside
               /\ \A q \in QueueIds : loops[q].pc # "publish"

\* The callback reads the state and goes for participantReportMu
Reporting(c, key, speaker, rev) ==
  callbacks' = [callbacks EXCEPT ![c] =
    [pc |-> "wait", key |-> key, speaker |-> speaker, job |-> job,
     gen |-> reconnectGeneration, rev |-> rev, version |-> 0, queue |-> 0]]

\* The participant state changes; the active speaker, where the callback
\* reports it, is reported after the participants
Changes(c, speaker) ==
  /\ Input
  /\ callbacks[c].pc = "idle"
  /\ Live
  /\ participantStateRevision' = participantStateRevision + 1
  /\ version' = version + 1
  /\ excused' = excused \ {Participants}
  /\ Reporting(c, Participants, speaker, participantStateRevision + 1)
  /\ UNCHANGED <<manager, received, queues, loops, worker>>

\* A participant joins, or leaves; if he was speaking that is reported too
ParticipantChanged(c) == \E speaker \in BOOLEAN : Changes(c, speaker)

\* participantsSynced that passes its fences with a new snapshot.  Speakers
\* that are gone are not reported.
ParticipantsSynced(c) == Changes(c, FALSE)

SetSpeakerState(c) == Changes(c, TRUE)

\* clearSpeakerStates asks only for a job
ClearSpeakers(c) ==
  /\ Input
  /\ callbacks[c].pc = "idle"
  /\ job # 0
  /\ participantStateRevision' = participantStateRevision + 1
  /\ version' = version + 1
  /\ excused' = IF Live THEN excused \ {Participants} ELSE excused
  /\ Reporting(c, Participants, TRUE, participantStateRevision + 1)
  /\ UNCHANGED <<manager, received, queues, loops, worker>>

\* participantsSynced that finds nothing new and reports what there is
Replays(c) ==
  /\ Input
  /\ callbacks[c].pc = "idle"
  /\ Live
  /\ Reporting(c, Participants, FALSE, participantStateRevision)
  /\ UNCHANGED <<manager, content, queues, loops, worker, excused>>

\* The first critical section of ChatMessageReceived
ChatReceived(c, chat) ==
  /\ Input
  /\ callbacks[c].pc = "idle"
  /\ Live
  /\ chat \notin received
  /\ received' = received \cup {chat}
  /\ excused' = excused \ {chat}
  /\ Reporting(c, chat, FALSE, participantStateRevision)
  /\ UNCHANGED <<manager, participantStateRevision, version, queues, loops,
                 worker>>

\* The report is over and participantReportMu free; the speaker is next
MoveOn(c) ==
  callbacks' = [callbacks EXCEPT ![c] =
    IF @.speaker THEN [@ EXCEPT !.pc = "wait", !.key = Speaker,
                                !.speaker = FALSE, !.queue = 0]
    ELSE Idle]

\* The fences of a report: only the speaker's gives way to a newer revision
Fences(r) ==
  /\ Live
  /\ job = r.job
  /\ reconnectGeneration = r.gen
  /\ r.key = Speaker => participantStateRevision = r.rev

\* participantReportMu is taken.  Participants are read again; the speaker is
\* that of the callback, which the fence makes the newest one.
Enter(c) ==
  /\ callbacks[c].pc = "wait"
  /\ ReportsFree
  /\ \/ /\ Fences(callbacks[c])
        /\ callbacks' = [callbacks EXCEPT ![c].pc = "publish",
                                          ![c].version = version]
     \/ /\ ~Fences(callbacks[c])
        /\ MoveOn(c)
  /\ UNCHANGED <<manager, content, queues, loops, worker, excused, inputs>>

\* The Worker applies report k with the content of version v
Apply(k, v) ==
  /\ seen' = [s \in State |-> IF s = k THEN v ELSE seen[s]]
  /\ delivered' = delivered \cup ({k} \cap Chats)

\* Reporter.post: applied or not, and answered with success, an error that may
\* be retried, or one that may not (a cancelled context included)
Post(k, v, applied, result) ==
  /\ result = "done" => applied
  /\ \/ applied /\ Apply(k, v)
     \/ ~applied /\ UNCHANGED <<seen, delivered>>
  /\ confirmed' = IF k = Speaker /\ result = "done" THEN v ELSE confirmed

Publish(c, applied, result) ==
  LET r == callbacks[c]
  IN  /\ r.pc = "publish"
      /\ Post(r.key, r.version, applied, result)
      /\ \/ /\ result \in {"done", "failed"}
            /\ callbacks' = [callbacks EXCEPT ![c].pc = result]
            /\ UNCHANGED excused
         \/ /\ result = "refused"
            /\ MoveOn(c)
            /\ excused' = excused \cup {r.key}
      /\ UNCHANGED <<manager, content, queues, loops, inputs>>

\* The section on Manager.mu of enqueueWorkerEventRetry and of
\* supersedeWorkerEventRetry
Lookup(c) ==
  LET r     == callbacks[c]
      valid == workerRetry # 0 /\ job = r.job /\ reconnectGeneration = r.gen
  IN  /\ r.pc \in {"done", "failed"}
      /\ \/ /\ valid
            /\ callbacks' = [callbacks EXCEPT
                 ![c].pc = IF r.pc = "done" THEN "supersede" ELSE "enqueue",
                 ![c].queue = workerRetry]
         \/ /\ ~valid
            /\ MoveOn(c)
      /\ UNCHANGED <<manager, content, queues, loops, worker, excused, inputs>>

\* Mutated form of Supersede: the older report of the key still waits
SupersedeNothing(c) ==
  /\ callbacks[c].pc = "supersede"
  /\ MoveOn(c)
  /\ UNCHANGED <<manager, content, queues, loops, worker, excused, inputs>>

\* supersedeWorkerEventRetry: the key has been reported
Supersede(c) ==
  LET q == callbacks[c].queue
      k == callbacks[c].key
  IN  /\ callbacks[c].pc = "supersede"
      /\ \/ ~stopped[q] /\ Put(q, k, NoReport) /\ Mark(q, k, 0)
         \/ stopped[q] /\ UNCHANGED <<pending, latest>>
      /\ MoveOn(c)
      /\ UNCHANGED <<manager, content, sequence, stopped, loops, worker,
                     excused, inputs>>

Accepts(q) == ~stopped[q]

\* enqueue, of a queue that may have been replaced and stopped since; a queue
\* full of state refuses a chat message
EnqueueReport(c) ==
  LET q == callbacks[c].queue
      k == callbacks[c].key
  IN  /\ callbacks[c].pc = "enqueue"
      /\ \/ /\ Accepts(q)
            /\ \E d \in Keys \cup {NoKey} :
                 Enqueue(q, k, callbacks[c].version, d)
         \/ /\ ~Accepts(q)
            /\ UNCHANGED <<pending, latest, sequence, excused>>
         \/ /\ Accepts(q)
            /\ Evict(q, k) = {}
            /\ excused' = excused \cup ({k} \cap Chats)
            /\ UNCHANGED <<pending, latest, sequence>>
      /\ MoveOn(c)
      /\ UNCHANGED <<manager, content, stopped, loops, worker, inputs>>

-----------------------------------------------------------------------------
(* The retry loop: loop and deliverWorkerEventRetry.                       *)

\* The goroutine runs: stopAndWait of the queue before it has returned
Runs(q) ==
  /\ q <= queuesMade
  /\ after[q] \in {0} \cup {p \in QueueIds : loops[p].pc = "ended"}

\* next: whichever report is due
Takes(q, k) ==
  /\ Runs(q)
  /\ loops[q].pc = "idle"
  /\ k \in Waiting(q)
  /\ Put(q, k, NoReport)
  /\ loops' = [loops EXCEPT ![q] =
       [pc |-> "taken", key |-> k, seq |-> pending[q][k].seq,
        attempts |-> pending[q][k].attempts,
        version |-> pending[q][k].version]]
  /\ UNCHANGED <<manager, content, latest, sequence, stopped, callbacks,
                 worker, excused, inputs>>

\* isLatest
IsLatest(q) == ~stopped[q] /\ latest[q][loops[q].key] = loops[q].seq

\* isCurrentWorkerRetryReport and refreshWorkerRetryReport.  Job and
\* generation of a report cannot change while its queue is installed, except
\* by Stop, which takes the queue away.
IsCurrent(q) == IsLatest(q) /\ workerRetry = q

Sleep(q) == loops' = [loops EXCEPT ![q] = Asleep]

\* Mutated form of Drops: a newer report of the same key goes too
DropsNewer(q) ==
  /\ loops[q].pc = "taken"
  /\ ~IsCurrent(q)
  /\ Put(q, loops[q].key, NoReport)
  /\ Mark(q, loops[q].key, 0)
  /\ Sleep(q)
  /\ UNCHANGED <<manager, content, sequence, stopped, callbacks, worker,
                 excused, inputs>>

\* markDropped
Drops(q) ==
  /\ loops[q].pc = "taken"
  /\ ~IsCurrent(q)
  /\ \/ /\ latest[q][loops[q].key] = loops[q].seq
        /\ Put(q, loops[q].key, NoReport)
        /\ Mark(q, loops[q].key, 0)
     \/ /\ latest[q][loops[q].key] # loops[q].seq
        /\ UNCHANGED <<pending, latest>>
  /\ Sleep(q)
  /\ UNCHANGED <<manager, content, sequence, stopped, callbacks, worker,
                 excused, inputs>>

LoopMayEnter(q) == ReportsFree /\ IsCurrent(q)

\* What refreshWorkerRetryReport makes of a report's content.  A speaker report
\* keeps its speaker: only his flag and name are read again.
Refreshed(r) == IF r.key = Speaker THEN r.version ELSE version

\* Mutated form of Refreshes: the attempt is not counted
RefreshesUncounted(q) ==
  /\ loops[q].pc = "taken"
  /\ LoopMayEnter(q)
  /\ loops' = [loops EXCEPT ![q] =
       [@ EXCEPT !.pc = "publish", !.version = Refreshed(loops[q])]]
  /\ UNCHANGED <<manager, content, queues, callbacks, worker, excused, inputs>>

\* The content is read again, then published
Refreshes(q) ==
  /\ loops[q].pc = "taken"
  /\ LoopMayEnter(q)
  /\ loops' = [loops EXCEPT ![q] =
       [@ EXCEPT !.pc = "publish", !.version = Refreshed(loops[q]),
                 !.attempts = loops[q].attempts + 1]]
  /\ UNCHANGED <<manager, content, queues, callbacks, worker, excused, inputs>>

\* The error may be retried, and there are attempts left
Again(q, result) ==
  result = "failed" /\ ~stopped[q] /\ loops[q].attempts < MaxAttempts

\* markDelivered, markDropped or requeue, as the answer demands
Retries(q, applied, result) ==
  LET r     == loops[q]
      mine  == latest[q][r.key] = r.seq
      again == Again(q, result)
  IN  /\ r.pc = "publish"
      /\ Post(r.key, r.version, applied, result)
      /\ \/ /\ mine /\ again
            /\ Put(q, r.key, [seq |-> r.seq, attempts |-> r.attempts,
                              version |-> r.version])
            /\ UNCHANGED <<latest, excused>>
         \/ /\ mine /\ ~again
            /\ Put(q, r.key, NoReport)
            /\ Mark(q, r.key, 0)
            /\ excused' = IF result = "done" THEN excused
                          ELSE excused \cup {r.key}
         \/ ~mine /\ UNCHANGED <<pending, latest, excused>>
      /\ Sleep(q)
      /\ UNCHANGED <<manager, content, sequence, stopped, callbacks, inputs>>

\* ctx.Done
Ends(q) ==
  /\ Runs(q)
  /\ loops[q].pc = "idle"
  /\ stopped[q]
  /\ loops' = [loops EXCEPT ![q].pc = "ended"]
  /\ UNCHANGED <<manager, content, queues, callbacks, worker, excused, inputs>>

-----------------------------------------------------------------------------
Results == {"done", "failed", "refused"}

CallbackStep(c) ==
  \/ Enter(c) \/ Lookup(c) \/ Supersede(c) \/ EnqueueReport(c)
  \/ \E applied \in BOOLEAN, result \in Results : Publish(c, applied, result)

LoopStep(q) ==
  \/ \E k \in Keys : Takes(q, k)
  \/ Drops(q) \/ Refreshes(q) \/ Ends(q)
  \/ \E applied \in BOOLEAN, result \in Results : Retries(q, applied, result)

Event(c) ==
  \/ ParticipantChanged(c) \/ ParticipantsSynced(c) \/ SetSpeakerState(c)
  \/ ClearSpeakers(c) \/ Replays(c)
  \/ \E chat \in Chats : ChatReceived(c, chat)

Next ==
  \/ StartCommit \/ StopBegin \/ StopFails \/ StopFinish
  \/ \E rejoin \in BOOLEAN : DiscordDisconnected(rejoin)
  \/ DiscordConnected
  \/ \E g \in rejoins : Rejoined(g) \/ RejoinEnds(g)
  \/ \E c \in Callbacks : Event(c) \/ CallbackStep(c)
  \/ \E q \in QueueIds : StopQueue(q) \/ LoopStep(q)

Spec == Init /\ [][Next]_vars

\* Go runs every runnable goroutine, timers fire and a publish has a timeout
\* of 3 s.  Nothing is assumed of users, of Discord or of the Worker's answers.
Fairness ==
  /\ \A c \in Callbacks : WF_vars(CallbackStep(c))
  /\ \A q \in QueueIds : WF_vars(StopQueue(q)) /\ WF_vars(LoopStep(q))

FairSpec == Spec /\ Fairness

-----------------------------------------------------------------------------
(* Properties.                                                             *)

Report   == [seq : Nat, attempts : 0..MaxAttempts, version : Nat]
Callback == [pc : Inside \cup {"idle", "wait"}, key : Keys \cup {NoKey},
             speaker : BOOLEAN, job : Nat, gen : Nat, rev : Nat,
             version : Nat, queue : 0..MaxQueues]
Loop     == [pc : {"idle", "taken", "publish", "ended"},
             key : Keys \cup {NoKey}, seq : Nat, attempts : 0..MaxAttempts,
             version : Nat]

ManagerTypes ==
  /\ job \in Nat /\ jobsMade \in Nat
  /\ stopping \in BOOLEAN /\ disconnected \in BOOLEAN /\ stopper \in BOOLEAN
  /\ reconnectGeneration \in Nat
  /\ workerRetry \in 0..MaxQueues /\ queuesMade \in 0..MaxQueues
  /\ retiring \in SUBSET QueueIds
  /\ after \in [QueueIds -> 0..MaxQueues]
  /\ rejoins \in SUBSET Nat
  /\ participantStateRevision \in Nat /\ version \in Nat
  /\ inputs \in Nat

QueueTypes ==
  /\ pending \in [QueueIds -> [Keys -> Report]]
  /\ latest \in [QueueIds -> [Keys -> Nat]]
  /\ sequence \in [QueueIds -> Nat]
  /\ stopped \in [QueueIds -> BOOLEAN]

ThreadTypes ==
  /\ callbacks \in [Callbacks -> Callback]
  /\ \A c \in Callbacks : callbacks[c].pc # "idle" => callbacks[c].key \in Keys
  /\ \A c \in Callbacks :
       callbacks[c].pc \in {"supersede", "enqueue"} => callbacks[c].queue # 0
  /\ loops \in [QueueIds -> Loop]
  /\ \A q \in QueueIds :
       loops[q].pc \in {"taken", "publish"} => loops[q].key \in Keys
  /\ \A q \in QueueIds :
       loops[q].pc = "taken" => loops[q].attempts < MaxAttempts
  /\ \A q \in QueueIds, k \in Keys : pending[q][k].attempts < MaxAttempts

\* Every variable has its type; a report is published at most
\* maxWorkerEventRetryAttempts times by the loop.
TypeOK ==
  /\ ManagerTypes /\ QueueTypes /\ ThreadTypes
  /\ seen \in [State -> Nat] /\ confirmed \in Nat
  /\ received \in SUBSET Chats /\ delivered \in SUBSET Chats
  /\ excused \in SUBSET Keys

\* The Worker never goes back: neither a callback that was overtaken nor a
\* retry of an older failure, nor a report of the job before, replaces newer
\* participants by older ones, or a speaker the Worker has confirmed by an
\* older one.  A speaker that was applied and answered with an error may be
\* followed by an older one that waits for its retry: the retry keeps its
\* speaker (refreshWorkerRetryReport).
NeverGoesBack ==
  [][/\ seen[Participants] <= seen'[Participants]
     /\ seen'[Speaker] # seen[Speaker] => confirmed <= seen'[Speaker]]_vars

\* Report k is on its way, in a callback or in the queue of the job
OnItsWay(k) ==
  \/ \E c \in Callbacks :
       /\ callbacks[c].key = k
       /\ callbacks[c].pc \in {"wait", "publish", "failed", "enqueue"}
       /\ callbacks[c].gen = reconnectGeneration
  \/ k \in Waiting(workerRetry)
  \/ /\ loops[workerRetry].key = k
     /\ loops[workerRetry].pc \in {"taken", "publish"}
     /\ IsLatest(workerRetry)

\* Nothing is forgotten in silence.  While a job is live with a queue that
\* runs, the Worker has the newest participants and every chat message, or the
\* report is on its way, or it was given up for a reason: an error that is not
\* to be retried, too many attempts, a chat message dropped from a full queue
\* or refused by one, or the queue itself replaced or taken away.
NotForgotten ==
  Live /\ ~stopped[workerRetry] /\ workerRetry \notin retiring =>
    /\ \/ seen[Participants] = version
       \/ Participants \in excused
       \/ OnItsWay(Participants)
    /\ \A k \in received :
         k \in delivered \/ k \in excused \/ OnItsWay(k)

\* The retry loop has report k in hand, under sequence number n.
Handles(q, k, n) ==
  loops[q].pc \in {"taken", "publish"} /\ loops[q].key = k /\ loops[q].seq = n

\* The books of a queue stay within bounds however long the job and however
\* many messages are delivered, dropped or evicted: no more reports wait than
\* maxWorkerEventRetryPending and the one that requeue may put on top, and a
\* key has a sequence number only while its newest report waits or is in the
\* hands of the retry loop.
BooksBounded ==
  \A q \in QueueIds :
    /\ Cardinality(Waiting(q)) <= MaxPending + 1
    /\ \A k \in Keys : latest[q][k] # 0 =>
         pending[q][k].seq = latest[q][k] \/ Handles(q, k, latest[q][k])

\* A queue that was stopped is empty, and stays so whoever still held it.
StoppedIsEmpty == \A q \in QueueIds : stopped[q] => Waiting(q) = {}

\* A report that waits for its retry does not wait for ever.
QueueDrains == \A q \in QueueIds : Waiting(q) # {} ~> Waiting(q) = {}


-----------------------------------------------------------------------------
(* What the proofs need besides.                                           *)

\* participantReportMu has one holder, a callback or a retry loop.
Exclusive ==
  /\ \A c, d \in Callbacks :
       callbacks[c].pc \in Inside /\ callbacks[d].pc \in Inside => c = d
  /\ \A p, q \in QueueIds :
       loops[p].pc = "publish" /\ loops[q].pc = "publish" => p = q
  /\ \A c \in Callbacks, q \in QueueIds :
       callbacks[c].pc \in Inside => loops[q].pc # "publish"

\* The participants being published are at least as new as what the Worker has.
InOrder ==
  /\ seen[Participants] <= version
  /\ \A c \in Callbacks :
       callbacks[c].pc = "publish" /\ callbacks[c].key = Participants =>
         /\ seen[Participants] <= callbacks[c].version
         /\ callbacks[c].version <= version
  /\ \A q \in QueueIds :
       loops[q].pc = "publish" /\ loops[q].key = Participants =>
         /\ seen[Participants] <= loops[q].version
         /\ loops[q].version <= version

\* requeue exceeds the bound only by the report the loop has in hand.
RoomInHand ==
  \A q \in QueueIds :
    /\ Cardinality(Waiting(q)) <= MaxPending + 1
    /\ loops[q].pc \in {"taken", "publish"} =>
         Cardinality(Waiting(q)) <= MaxPending

OrderInv == Exclusive /\ InOrder

IInv == TypeOK /\ OrderInv /\ StoppedIsEmpty /\ RoomInHand
=============================================================================
