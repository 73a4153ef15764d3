--------------------------- MODULE VoiceLifecycle ---------------------------
(***************************************************************************)
(* The life of a voice job: jobs.Manager (Start, Stop, DiscordConnected,   *)
(* DiscordDisconnected, the rejoin goroutines) together with the part of   *)
(* discord.RealClient it drives (JoinVoice, LeaveVoice, ReconcileGateway,  *)
(* the Gateway callbacks and the Opus forwarding loops).                   *)
(*                                                                         *)
(* Both objects have a mutex of their own and call each other with neither *)
(* held, so a handler is a sequence of critical sections.  One action is   *)
(* one critical section, together with the stopAndWait of the retry queue  *)
(* it replaced (nothing else can use a replaced queue).  The sink call of  *)
(* markVoiceDisconnectedLocked is part of its action: speakerDispatchMu is *)
(* held across it, and what it did to the client before the call commutes  *)
(* with every step that can come in between.                               *)
(*                                                                         *)
(* Participants, speakers, chat and the auto-start and auto-stop maps are  *)
(* left out: they never decide whether a job is current or in voice.       *)
(***************************************************************************)
EXTENDS Naturals, FiniteSets

CONSTANTS
  Streams,        \* stream identifiers
  Jobs,           \* VoiceJob values, told apart by sameWorkerEventJob
  NoJob,          \* the zero VoiceJob
  StreamOf,       \* StreamOf[j] is the StreamID of job j
  Forwarding,     \* the jobs with a forwarder and an Encoder or caption URL
  Stoppers,       \* goroutines serving POST /jobs/{id}/stop
  RejoinEnabled,  \* ReconnectPolicy.Enabled
  MaxAttempts,    \* ReconnectPolicy.MaxAttempts
  MaxInputs       \* bound: requests and Discord events in one behaviour

ASSUME VoiceLifecycleAssumption ==
  /\ NoJob \notin Jobs
  /\ StreamOf \in [Jobs -> Streams]
  /\ Forwarding \subseteq Jobs
  /\ RejoinEnabled \in BOOLEAN
  /\ MaxAttempts \in Nat \ {0}
  /\ MaxInputs \in Nat

VARIABLES
  current,              \* Manager.current
  stopping,             \* Manager.stopping
  disconnected,         \* Manager.disconnected
  reconnectGeneration,  \* Manager.reconnectGeneration
  workerRetry,          \* Manager.workerRetry: a queue number, 0 for nil
  queuesMade,           \* number of newWorkerEventRetryQueue calls so far
  deadQueues,           \* queues on which stopAndWait has run
  strayStops,           \* history: queues stopped by a rejoin goroutine that
                        \* had lost its job
  syncLoop,             \* the sync loop that participantSyncCancel cancels
  session,              \* RealClient.session # nil
  connected,            \* RealClient.status.Connected
  clientJob,            \* RealClient.job
  voiceConnected,       \* RealClient.status.VoiceConnected (voice # nil)
  voiceGeneration,      \* RealClient.voiceGeneration
  audioStop,            \* generation of the audioStop channel, 0 for nil
  closedStops,          \* generations whose audioStop channel is closed
  audioLoops,           \* generations whose forwardOpus loop runs
  unstarted,            \* generations whose loop JoinVoice has yet to start
  starter,              \* the one Start call (runtimeRefreshMu serialises)
  stops,                \* the Stop calls
  rejoins,              \* the rejoinVoiceWithBackoff goroutines
  callbacks,            \* Gateway handlers between client and Manager
  reconciler,           \* the one ReconcileGateway call
  inputs                \* requests and events so far

manager == <<current, stopping, disconnected, reconnectGeneration,
             workerRetry, queuesMade, deadQueues, strayStops, syncLoop>>
gateway == <<session, connected>>
voice   == <<clientJob, voiceConnected, voiceGeneration, audioStop,
             closedStops, audioLoops, unstarted>>
gwcalls == <<callbacks, reconciler>>
threads == <<starter, stops, rejoins, gwcalls>>
vars    == <<manager, gateway, voice, threads, inputs>>

JobOrNone == Jobs \cup {NoJob}
NoSync    == [job |-> NoJob, gen |-> 0]
IdleStart == [pc |-> "idle", job |-> NoJob]
IdleStop  == [pc |-> "idle", job |-> NoJob]

CallbackKinds == {"connected", "disconnected", "voiceLost"}

Init ==
  /\ current = NoJob
  /\ stopping = FALSE
  /\ disconnected = FALSE
  /\ reconnectGeneration = 0
  /\ workerRetry = 0
  /\ queuesMade = 0
  /\ deadQueues = {}
  /\ strayStops = {}
  /\ syncLoop = NoSync
  /\ session = FALSE
  /\ connected = FALSE
  /\ clientJob = NoJob
  /\ voiceConnected = FALSE
  /\ voiceGeneration = 0
  /\ audioStop = 0
  /\ closedStops = {}
  /\ audioLoops = {}
  /\ unstarted = {}
  /\ starter = IdleStart
  /\ stops = [s \in Stoppers |-> IdleStop]
  /\ rejoins = {}
  /\ callbacks = [k \in CallbackKinds |-> 0]
  /\ reconciler = "idle"
  /\ inputs = 0

-----------------------------------------------------------------------------
(* Pieces of the handlers.                                                 *)

\* One more request or Discord event; the environment stops after MaxInputs.
Input == inputs < MaxInputs /\ inputs' = inputs + 1

\* previousWorkerRetry.stopAndWait()
RetireQueue == deadQueues' = deadQueues \cup ({workerRetry} \ {0})

\* m.workerRetry = newWorkerEventRetryQueue(), then start
InstallQueue == workerRetry' = queuesMade + 1 /\ queuesMade' = queuesMade + 1

\* m.workerRetry = nil
ClearQueue == workerRetry' = 0 /\ UNCHANGED queuesMade

\* restartParticipantSyncLocked, then go keepVoiceParticipantsSynced(job, gen)
RestartSync(job, gen) == syncLoop' = [job |-> job, gen |-> gen]

\* Manager.DiscordConnected
DiscordConnected ==
  /\ disconnected' = FALSE
  /\ RetireQueue
  /\ \/ /\ current # NoJob /\ ~stopping
        /\ InstallQueue
        /\ RestartSync(current, reconnectGeneration)
     \/ /\ current = NoJob \/ stopping
        /\ ClearQueue
        /\ UNCHANGED syncLoop
  /\ UNCHANGED <<current, stopping, reconnectGeneration, strayStops>>

\* shouldRejoinVoice
ShouldRejoinVoice(reason) ==
  RejoinEnabled /\ current # NoJob /\ reason # "gateway_disconnect"

\* Manager.DiscordDisconnected, the goroutine it may start included
DiscordDisconnected(reason) ==
  /\ syncLoop' = NoSync
  /\ disconnected' = TRUE
  /\ RetireQueue
  /\ ClearQueue
  /\ reconnectGeneration' = reconnectGeneration + 1
  /\ rejoins' = rejoins \cup
       {r \in {[gen |-> reconnectGeneration + 1, job |-> current,
                attempt |-> 1, pc |-> "check"]} :
          ~stopping /\ ShouldRejoinVoice(reason)}
  /\ UNCHANGED <<current, stopping, strayStops>>

\* Program points of a JoinVoice that holds gatewayMu: before the sink call of
\* connectGateway, before the answer of ChannelVoiceJoin, and while it takes
\* the former connection down, before it starts the loop of the new one
Holding == {"opening", "joining", "entered"}

\* gatewayMu is free
GatewayFree ==
  /\ starter.pc \notin Holding
  /\ \A r \in rejoins : r.pc \notin Holding
  /\ reconciler = "idle"

\* JoinVoice takes gatewayMu; connectGateway finds the Gateway open, or opens
\* it and has its sink call (pc "opening") before it
OpenGateway(pc) ==
  /\ GatewayFree
  /\ \/ connected /\ pc = "joining" /\ UNCHANGED connected
     \/ ~connected /\ session /\ pc = "opening" /\ connected' = TRUE
  /\ UNCHANGED <<manager, session, voice>>

\* JoinVoice fails: no session, Open fails, or ChannelVoiceJoin fails
JoinCanFail(pc) == (pc = "join" /\ GatewayFree /\ ~connected) \/ pc = "joining"

\* JoinVoice from ChannelVoiceJoin's answer on, speakerDispatchMu held.  The
\* loop of the new generation, if the job has a target, is not started yet.
EnterVoice(job) ==
  /\ clientJob' = job
  /\ voiceConnected' = TRUE
  /\ voiceGeneration' = voiceGeneration + 1
  /\ closedStops' = closedStops \cup ({audioStop} \ {0})
  /\ audioStop' = voiceGeneration + 1
  /\ unstarted' = {g \in {voiceGeneration + 1} : job \in Forwarding}
  /\ UNCHANGED <<gateway, audioLoops>>

\* The end of JoinVoice, no mutex of the state held: the former connection is
\* closed, its loop awaited (two seconds at most), and the new loop started
StartLoop ==
  /\ audioLoops' = audioLoops \cup unstarted
  /\ unstarted' = {}
  /\ UNCHANGED <<gateway, clientJob, voiceConnected, voiceGeneration,
                 audioStop, closedStops>>

\* Mutated form of ExitVoice: audioStop is closed but not set to nil
ExitVoiceKeepingStop ==
  /\ clientJob' = NoJob
  /\ voiceConnected' = FALSE
  /\ voiceGeneration' = voiceGeneration + 1
  /\ closedStops' = closedStops \cup ({audioStop} \ {0})
  /\ UNCHANGED <<audioStop, audioLoops, unstarted>>

\* LeaveVoice past its stream check, speakerDispatchMu held
ExitVoice ==
  /\ clientJob' = NoJob
  /\ voiceConnected' = FALSE
  /\ voiceGeneration' = voiceGeneration + 1
  /\ closedStops' = closedStops \cup ({audioStop} \ {0})
  /\ audioStop' = 0
  /\ UNCHANGED <<audioLoops, unstarted>>

\* The error "stream_id does not match current voice job" of LeaveVoice
LeaveMismatch(stream) == clientJob # NoJob /\ StreamOf[clientJob] # stream

\* markVoiceDisconnectedLocked: the job stays, the connection goes
MarkVoiceDisconnected(reason, closeAudioStop) ==
  /\ voiceConnected' = FALSE
  /\ closedStops' = closedStops \cup
       {g \in {audioStop} \ {0} : closeAudioStop}
  /\ audioStop' = IF closeAudioStop THEN 0 ELSE audioStop
  /\ \/ voiceConnected /\ DiscordDisconnected(reason)
     \/ ~voiceConnected /\ UNCHANGED <<manager, rejoins>>
  /\ UNCHANGED <<clientJob, voiceGeneration, unstarted, gateway>>

-----------------------------------------------------------------------------
(* Mutated forms of the actions below: what plausible slips would make of  *)
(* them.  No run uses them; each shows that some property can fail.        *)

\* StartCommit that forgets previousWorkerRetry.stopAndWait()
StartCommitLeaking ==
  /\ starter.pc = "joined"
  /\ reconnectGeneration' = reconnectGeneration + 1
  /\ RestartSync(starter.job, reconnectGeneration + 1)
  /\ InstallQueue
  /\ current' = starter.job
  /\ stopping' = FALSE
  /\ disconnected' = FALSE
  /\ starter' = IdleStart
  /\ UNCHANGED <<deadQueues, strayStops, gateway, voice, stops, rejoins,
                 gwcalls, inputs>>

\* StopBegin that does not start a new generation
StopBeginSameGeneration(s) ==
  /\ Input
  /\ stops[s].pc = "idle"
  /\ current # NoJob
  /\ ~stopping
  /\ stopping' = TRUE
  /\ RetireQueue
  /\ ClearQueue
  /\ stops' = [stops EXCEPT ![s] = [pc |-> "leave", job |-> current]]
  /\ UNCHANGED <<current, disconnected, reconnectGeneration, strayStops,
                 syncLoop, gateway, voice, starter, rejoins, gwcalls>>

\* StopFailed that puts the job back without its queue and its sync loop
StopFailedUnserved(s) ==
  /\ stops[s].pc = "failed"
  /\ stopping' = FALSE
  /\ stops' = [stops EXCEPT ![s] = IdleStop]
  /\ UNCHANGED <<current, disconnected, reconnectGeneration, workerRetry,
                 queuesMade, deadQueues, strayStops, syncLoop, gateway, voice,
                 starter, rejoins, gwcalls, inputs>>

\* StopFinish that leaves participantSyncCancel alone
StopFinishKeepingSync(s) ==
  /\ stops[s].pc = "left"
  /\ RetireQueue
  /\ ClearQueue
  /\ current' = NoJob
  /\ stopping' = FALSE
  /\ stops' = [stops EXCEPT ![s] = IdleStop]
  /\ UNCHANGED <<disconnected, reconnectGeneration, strayStops, syncLoop,
                 gateway, voice, starter, rejoins, gwcalls, inputs>>

\* StopFailed that only reports the error
StopFailedStuck(s) ==
  /\ stops[s].pc = "failed"
  /\ stops' = [stops EXCEPT ![s] = IdleStop]
  /\ UNCHANGED <<manager, gateway, voice, starter, rejoins, gwcalls, inputs>>

\* RejoinRetry that never counts its attempts
RejoinRetryForever(r) ==
  /\ r.pc = "failed"
  /\ rejoins' = (rejoins \ {r}) \cup {[r EXCEPT !.pc = "check"]}
  /\ UNCHANGED <<manager, gateway, voice, starter, stops, gwcalls, inputs>>

\* RevokeGateway without gatewayMu
RevokeGatewayUnlocked ==
  /\ Input
  /\ reconciler = "idle"
  /\ session' = FALSE
  /\ connected' = FALSE
  /\ reconciler' = "revoking"
  /\ UNCHANGED <<manager, voice, starter, stops, rejoins, callbacks>>

\* OpusClosed of a loop that only ends itself
OpusClosedSilently(g) ==
  /\ Input
  /\ audioLoops' = audioLoops \ {g}
  /\ UNCHANGED <<manager, gateway, clientJob, voiceConnected, voiceGeneration,
                 audioStop, closedStops, unstarted, rejoins, starter, stops,
                 gwcalls>>

-----------------------------------------------------------------------------
(* Start: POST /jobs/start, under runtimeRefreshMu from end to end.        *)

StartBegin(job) ==
  /\ Input
  /\ starter.pc = "idle"
  /\ ~stopping
  /\ current # NoJob => StreamOf[current] = StreamOf[job]
  /\ starter' = [pc |-> "join", job |-> job]
  /\ UNCHANGED <<manager, gateway, voice, stops, rejoins, gwcalls>>

StartOpen ==
  /\ starter.pc = "join"
  /\ \E pc \in Holding :
       /\ OpenGateway(pc)
       /\ starter' = [starter EXCEPT !.pc = pc]
  /\ UNCHANGED <<stops, rejoins, gwcalls, inputs>>

\* connectGateway tells the Manager, gatewayMu still held
StartOpened ==
  /\ starter.pc = "opening"
  /\ DiscordConnected
  /\ starter' = [starter EXCEPT !.pc = "joining"]
  /\ UNCHANGED <<gateway, voice, stops, rejoins, gwcalls, inputs>>

StartJoinFails ==
  /\ JoinCanFail(starter.pc)
  /\ starter' = IdleStart
  /\ UNCHANGED <<manager, gateway, voice, stops, rejoins, gwcalls, inputs>>

StartJoined ==
  /\ starter.pc = "joining"
  /\ EnterVoice(starter.job)
  /\ starter' = [starter EXCEPT !.pc = "entered"]
  /\ UNCHANGED <<manager, stops, rejoins, gwcalls, inputs>>

StartForwards ==
  /\ starter.pc = "entered"
  /\ StartLoop
  /\ starter' = [starter EXCEPT !.pc = "joined"]
  /\ UNCHANGED <<manager, stops, rejoins, gwcalls, inputs>>

\* The second critical section of Start: nothing is re-validated
StartCommit ==
  /\ starter.pc = "joined"
  /\ reconnectGeneration' = reconnectGeneration + 1
  /\ RestartSync(starter.job, reconnectGeneration + 1)
  /\ RetireQueue
  /\ InstallQueue
  /\ current' = starter.job
  /\ stopping' = FALSE
  /\ disconnected' = FALSE
  /\ starter' = IdleStart
  /\ UNCHANGED <<strayStops, gateway, voice, stops, rejoins, gwcalls, inputs>>

-----------------------------------------------------------------------------
(* Stop: POST /jobs/{id}/stop, which takes no lock of the start path.      *)

StopBegin(s) ==
  /\ Input
  /\ stops[s].pc = "idle"
  /\ current # NoJob
  /\ ~stopping
  /\ stopping' = TRUE
  /\ RetireQueue
  /\ ClearQueue
  /\ reconnectGeneration' = reconnectGeneration + 1
  /\ stops' = [stops EXCEPT ![s] = [pc |-> "leave", job |-> current]]
  /\ UNCHANGED <<current, disconnected, strayStops, syncLoop, gateway, voice,
                 starter, rejoins, gwcalls>>

StopLeave(s) ==
  /\ stops[s].pc = "leave"
  /\ ~LeaveMismatch(StreamOf[stops[s].job])
  /\ ExitVoice
  /\ \E result \in {"left"} \cup {f \in {"failed"} : voiceConnected} :
       stops' = [stops EXCEPT ![s].pc = result]
  /\ UNCHANGED <<manager, gateway, starter, rejoins, gwcalls, inputs>>

StopLeaveMismatch(s) ==
  /\ stops[s].pc = "leave"
  /\ LeaveMismatch(StreamOf[stops[s].job])
  /\ stops' = [stops EXCEPT ![s].pc = "failed"]
  /\ UNCHANGED <<manager, gateway, voice, starter, rejoins, gwcalls, inputs>>

\* m.current.StreamID == currentStreamID && m.stopping
StillHolds(s) ==
  /\ stopping
  /\ current # NoJob
  /\ StreamOf[current] = StreamOf[stops[s].job]

\* LeaveVoice returned an error: put the job back, unless it changed hands
StopFailed(s) ==
  /\ stops[s].pc = "failed"
  /\ \/ /\ StillHolds(s)
        /\ stopping' = FALSE
        /\ RestartSync(current, reconnectGeneration)
        /\ InstallQueue
        /\ UNCHANGED <<current, disconnected, reconnectGeneration, deadQueues,
                       strayStops>>
     \/ ~StillHolds(s) /\ UNCHANGED manager
  /\ stops' = [stops EXCEPT ![s] = IdleStop]
  /\ UNCHANGED <<gateway, voice, starter, rejoins, gwcalls, inputs>>

\* The last critical section of Stop: nothing is re-validated
StopFinish(s) ==
  /\ stops[s].pc = "left"
  /\ syncLoop' = NoSync
  /\ RetireQueue
  /\ ClearQueue
  /\ current' = NoJob
  /\ stopping' = FALSE
  /\ stops' = [stops EXCEPT ![s] = IdleStop]
  /\ UNCHANGED <<disconnected, reconnectGeneration, strayStops, gateway,
                 voice, starter, rejoins, gwcalls, inputs>>

-----------------------------------------------------------------------------
(* rejoinVoiceWithBackoff, one goroutine per voice disconnect.             *)

\* generation fence, job fence and stop fence of the loop
StillCurrent(r) == r.gen = reconnectGeneration /\ r.job = current /\ ~stopping

Become(r, pc) == rejoins' = (rejoins \ {r}) \cup {[r EXCEPT !.pc = pc]}

RejoinCheck(r) ==
  /\ r.pc = "check"
  /\ \/ StillCurrent(r) /\ Become(r, "join")
     \/ ~StillCurrent(r) /\ rejoins' = rejoins \ {r}
  /\ UNCHANGED <<manager, gateway, voice, starter, stops, gwcalls, inputs>>

RejoinOpen(r) ==
  /\ r.pc = "join"
  /\ \E pc \in Holding : OpenGateway(pc) /\ Become(r, pc)
  /\ UNCHANGED <<starter, stops, gwcalls, inputs>>

RejoinOpened(r) ==
  /\ r.pc = "opening"
  /\ DiscordConnected
  /\ Become(r, "joining")
  /\ UNCHANGED <<gateway, voice, starter, stops, gwcalls, inputs>>

\* JoinVoice failed; the last critical section of the loop body
RejoinFails(r) ==
  /\ JoinCanFail(r.pc)
  /\ Become(r, "failed")
  /\ UNCHANGED <<manager, gateway, voice, starter, stops, gwcalls, inputs>>

RejoinRetry(r) ==
  /\ r.pc = "failed"
  /\ \/ /\ r.gen = reconnectGeneration /\ r.job = current
        /\ r.attempt < MaxAttempts
        /\ rejoins' = (rejoins \ {r}) \cup
             {[r EXCEPT !.pc = "check", !.attempt = r.attempt + 1]}
     \/ /\ \/ ~(r.gen = reconnectGeneration /\ r.job = current)
           \/ r.attempt = MaxAttempts
        /\ rejoins' = rejoins \ {r}
  /\ UNCHANGED <<manager, gateway, voice, starter, stops, gwcalls, inputs>>

RejoinJoined(r) ==
  /\ r.pc = "joining"
  /\ EnterVoice(r.job)
  /\ Become(r, "entered")
  /\ UNCHANGED <<manager, starter, stops, gwcalls, inputs>>

RejoinForwards(r) ==
  /\ r.pc = "entered"
  /\ StartLoop
  /\ Become(r, "joined")
  /\ UNCHANGED <<manager, starter, stops, gwcalls, inputs>>

\* previousWorkerRetry is stopped whether or not it was replaced: a goroutine
\* that lost its job stops the queue of the job that is current now
RejoinFinish(r) ==
  /\ r.pc = "joined"
  /\ RetireQueue
  /\ \/ /\ StillCurrent(r)
        /\ disconnected' = FALSE
        /\ InstallQueue
        /\ RestartSync(r.job, r.gen)
        /\ UNCHANGED strayStops
     \/ /\ ~StillCurrent(r)
        /\ strayStops' = strayStops \cup ({workerRetry} \ {0})
        /\ UNCHANGED <<disconnected, workerRetry, queuesMade, syncLoop>>
  /\ rejoins' = rejoins \ {r}
  /\ UNCHANGED <<current, stopping, reconnectGeneration, gateway, voice,
                 starter, stops, gwcalls, inputs>>

-----------------------------------------------------------------------------
(* The Gateway: ReconcileGateway and the DiscordGo handlers.  DiscordGo    *)
(* runs each handler in a goroutine of its own, so the Manager's half of a *)
(* handler may be late.                                                    *)

\* ReconcileGateway(selected): a new session, or the unchanged one opened.
\* An active job keeps its session untouched.
SelectGateway(opened) ==
  /\ Input
  /\ GatewayFree
  /\ clientJob = NoJob
  /\ session' = TRUE
  /\ connected' = opened
  /\ reconciler' = IF opened THEN "opening" ELSE "idle"
  /\ UNCHANGED <<manager, voice, starter, stops, rejoins, callbacks>>

\* connectGateway tells the Manager, gatewayMu still held
SelectOpened ==
  /\ reconciler = "opening"
  /\ DiscordConnected
  /\ reconciler' = "idle"
  /\ UNCHANGED <<gateway, voice, starter, stops, rejoins, callbacks, inputs>>

\* ReconcileGateway(not selected): revokeGateway detaches the session
RevokeGateway ==
  /\ Input
  /\ GatewayFree
  /\ session' = FALSE
  /\ connected' = FALSE
  /\ reconciler' = "revoking"
  /\ UNCHANGED <<manager, voice, starter, stops, rejoins, callbacks>>

\* LeaveVoice("") of revokeGateway, whose error is only reported
RevokeLeave ==
  /\ reconciler = "revoking"
  /\ ExitVoice
  /\ reconciler' = "idle"
  /\ UNCHANGED <<manager, gateway, starter, stops, rejoins, callbacks, inputs>>

\* onReady and onGatewayResumed up to the sink call
GatewayUp ==
  /\ Input
  /\ session
  /\ connected' = TRUE
  /\ callbacks' = [callbacks EXCEPT !["connected"] = @ + 1]
  /\ UNCHANGED <<manager, session, voice, starter, stops, rejoins, reconciler>>

\* onGatewayDisconnect up to the sink call
GatewayDown ==
  /\ Input
  /\ session
  /\ connected' = FALSE
  /\ callbacks' = [callbacks EXCEPT !["disconnected"] = @ + 1]
  /\ UNCHANGED <<manager, session, voice, starter, stops, rejoins, reconciler>>

\* onVoiceStateUpdate sees the Bot's own departure; the job it read decides
SelfVoiceLost ==
  /\ Input
  /\ session
  /\ clientJob # NoJob
  /\ callbacks' = [callbacks EXCEPT !["voiceLost"] = @ + 1]
  /\ UNCHANGED <<manager, gateway, voice, starter, stops, rejoins, reconciler>>

Deliver(kind) ==
  /\ callbacks[kind] > 0
  /\ callbacks' = [callbacks EXCEPT ![kind] = @ - 1]
  /\ UNCHANGED <<starter, stops, reconciler, inputs>>

DeliverConnected ==
  /\ Deliver("connected")
  /\ DiscordConnected
  /\ UNCHANGED <<gateway, voice, rejoins>>

DeliverDisconnected ==
  /\ Deliver("disconnected")
  /\ DiscordDisconnected("gateway_disconnect")
  /\ UNCHANGED <<gateway, voice>>

\* markVoiceDisconnected("voice_state_disconnected", true)
DeliverVoiceLost ==
  /\ Deliver("voiceLost")
  /\ MarkVoiceDisconnected("voice_state_disconnected", TRUE)
  /\ UNCHANGED audioLoops

-----------------------------------------------------------------------------
(* The forwardOpus loops.                                                  *)

\* Mutated form of LoopCurrent: any connection counts as the loop's own
LoopCurrentAnyGeneration(g) == voiceConnected

\* isCurrentVoiceJob for the loop of generation g
LoopCurrent(g) == g = voiceGeneration /\ voiceConnected

\* OpusRecv is closed: markVoiceDisconnectedForJob("opus_recv_closed", false)
OpusClosed(g) ==
  /\ Input
  /\ audioLoops' = audioLoops \ {g}
  /\ \/ LoopCurrent(g) /\ MarkVoiceDisconnected("opus_recv_closed", FALSE)
     \/ /\ ~LoopCurrent(g)
        /\ UNCHANGED <<manager, gateway, clientJob, voiceConnected,
                       voiceGeneration, audioStop, closedStops, unstarted,
                       rejoins>>
  /\ UNCHANGED <<starter, stops, gwcalls>>

\* stop is closed, or a tick or a packet finds the job no longer current
OpusStops(g) ==
  /\ g \in closedStops \/ ~LoopCurrent(g)
  /\ audioLoops' = audioLoops \ {g}
  /\ UNCHANGED <<manager, gateway, clientJob, voiceConnected, voiceGeneration,
                 audioStop, closedStops, unstarted, threads, inputs>>

-----------------------------------------------------------------------------
StartStep == StartOpen \/ StartOpened \/ StartJoinFails \/ StartJoined
               \/ StartForwards \/ StartCommit

StopStep(s) == StopLeave(s) \/ StopLeaveMismatch(s) \/ StopFailed(s)
                 \/ StopFinish(s)

RejoinStep(r) == RejoinCheck(r) \/ RejoinOpen(r) \/ RejoinOpened(r)
                   \/ RejoinFails(r) \/ RejoinRetry(r) \/ RejoinJoined(r)
                   \/ RejoinForwards(r) \/ RejoinFinish(r)

ReconcileStep == SelectOpened \/ RevokeLeave

DeliverStep == DeliverConnected \/ DeliverDisconnected \/ DeliverVoiceLost

Next ==
  \/ \E j \in Jobs : StartBegin(j)
  \/ StartStep
  \/ \E s \in Stoppers : StopBegin(s) \/ StopStep(s)
  \/ \E r \in rejoins : RejoinStep(r)
  \/ \E opened \in BOOLEAN : SelectGateway(opened)
  \/ RevokeGateway
  \/ ReconcileStep
  \/ GatewayUp
  \/ GatewayDown
  \/ SelfVoiceLost
  \/ DeliverStep
  \/ \E g \in audioLoops : OpusClosed(g) \/ OpusStops(g)

Spec == Init /\ [][Next]_vars

\* Go runs every runnable goroutine, and each request has a timeout: a handler
\* that has begun goes on.  Nothing is assumed of requests or of Discord.
Fairness ==
  /\ WF_vars(StartStep)
  /\ \A s \in Stoppers : WF_vars(StopStep(s))
  /\ WF_vars(\E r \in rejoins : RejoinStep(r))
  /\ WF_vars(ReconcileStep)
  /\ WF_vars(DeliverStep)

FairSpec == Spec /\ Fairness

-----------------------------------------------------------------------------
(* Properties.                                                             *)

StartPcs  == {"idle", "join", "opening", "joining", "entered", "joined"}
StopPcs   == {"idle", "leave", "left", "failed"}
RejoinPcs == {"check", "join", "opening", "joining", "entered", "joined",
              "failed"}

ManagerTypes ==
  /\ current \in JobOrNone
  /\ stopping \in BOOLEAN
  /\ disconnected \in BOOLEAN
  /\ reconnectGeneration \in Nat
  /\ workerRetry \in Nat
  /\ queuesMade \in Nat
  /\ deadQueues \in SUBSET Nat
  /\ strayStops \in SUBSET Nat
  /\ syncLoop \in [job : JobOrNone, gen : Nat]

ClientTypes ==
  /\ session \in BOOLEAN
  /\ connected \in BOOLEAN
  /\ clientJob \in JobOrNone
  /\ voiceConnected \in BOOLEAN
  /\ voiceGeneration \in Nat
  /\ audioStop \in Nat
  /\ closedStops \in SUBSET Nat
  /\ audioLoops \in SUBSET Nat
  /\ unstarted \in SUBSET Nat

Rejoin == [gen : Nat, job : Jobs, attempt : 1..MaxAttempts, pc : RejoinPcs]

ThreadTypes ==
  /\ starter \in [pc : StartPcs, job : JobOrNone]
  /\ starter.pc # "idle" => starter.job \in Jobs
  /\ stops \in [Stoppers -> [pc : StopPcs, job : JobOrNone]]
  /\ \A s \in Stoppers : stops[s].pc # "idle" => stops[s].job \in Jobs
  /\ callbacks \in [CallbackKinds -> Nat]
  /\ reconciler \in {"idle", "opening", "revoking"}
  /\ inputs \in Nat

\* Every variable has its type; a thread carries the job it works for, and a
\* rejoin goroutine never counts past MaxAttempts.
TypeOK ==
  ManagerTypes /\ ClientTypes /\ ThreadTypes /\ rejoins \in SUBSET Rejoin

\* The job is current, not stopping and not disconnected.
Live == current # NoJob /\ ~stopping /\ ~disconnected

\* A live job has a participant sync loop of its own generation and a worker
\* retry queue that runs, whatever the order of Start, a failing Stop,
\* reconnects and rejoins.  The one way to lose the queue is a rejoin goroutine
\* that had lost its job and stopped the queue it found (RejoinFinish).
LiveJobServed ==
  Live =>
    /\ workerRetry # 0
    /\ workerRetry \in deadQueues => workerRetry \in strayStops
    /\ syncLoop = [job |-> current, gen |-> reconnectGeneration]

\* The queue kept for a live job runs: workerEventRetryQueue "keeps one
\* bounded, cancellable retry loop for the current Discord job".
LiveQueueRuns == Live => workerRetry \notin deadQueues

\* A retry queue that has not been stopped is the Manager's own: no handler
\* leaves a second delivery goroutine behind when it replaces the queue.
NoQueueLeak == \A q \in 1..queuesMade : q \in deadQueues \/ q = workerRetry

\* Between jobs nothing of a job is left: no queue, no sync loop, no stop in
\* progress, although Stop forgets the job without looking at the state again.
NothingOutlivesJob ==
  current = NoJob => workerRetry = 0 /\ syncLoop = NoSync /\ ~stopping

\* The generation fence of rejoinVoiceWithBackoff: at most one goroutine has
\* the current generation, it works for the current job (or there is none),
\* and it does not exist while a Stop is in progress.
GenerationFence ==
  \A r \in rejoins :
    /\ r.gen <= reconnectGeneration
    /\ \A q \in rejoins : q.gen = r.gen => q = r
    /\ r.gen = reconnectGeneration => ~stopping /\ current \in {r.job, NoJob}

\* Once revokeGateway is done the client (no session) is not in voice, and
\* cannot be put back by a JoinVoice that was under way: both hold gatewayMu.
RevokedIsOut ==
  ~session => ~connected /\ (voiceConnected => reconciler = "revoking")

\* Some JoinVoice has entered voice and not yet come to the start of its loop.
Entering == starter.pc = "entered" \/ \E r \in rejoins : r.pc = "entered"

\* A voice connection the status reports, of a job with a target, has a
\* forwarding loop reading it, or the JoinVoice that made it is about to start
\* one: a stale loop, or a stale close, never ends the loop of a live
\* connection, and no interleaving makes JoinVoice lose the loop to start.
ConnectedIsForwarded ==
  voiceConnected /\ clientJob \in Forwarding =>
    voiceGeneration \in audioLoops
      \/ (voiceGeneration \in unstarted /\ Entering)

\* Closing a closed channel panics.  RealClient never holds on to an
\* audioStop channel that was closed, and every stale loop was told to stop
\* or will see that its generation is over.
NoDoubleClose == audioStop # 0 => audioStop \notin closedStops

\* A forwarding loop that was left behind by a later join ends without
\* consequences: however late its channel is closed, it neither disconnects
\* the connection that replaced its own nor has the Manager rejoin
\* (markVoiceDisconnectedForJob).
StaleLoopHarmless ==
  [][\A g \in audioLoops \ audioLoops' :
       g # voiceGeneration =>
         UNCHANGED <<manager, voiceConnected, rejoins>>]_vars

\* Stop always comes to an end: the job is gone or usable again.
StopSettles == stopping ~> ~stopping

\* A voice rejoin comes to an end, joined or given up.
RejoinSettles == rejoins # {} ~> rejoins = {}

\* When no handler is under way and no job is current, the Bot is not in
\* voice: a stopped job has left.
StoppedIsOut ==
  /\ current = NoJob
  /\ starter.pc = "idle"
  /\ \A s \in Stoppers : stops[s].pc = "idle"
  /\ rejoins = {}
  => ~voiceConnected

-----------------------------------------------------------------------------
(* What the proofs need besides: the parts of the inductive invariant that *)
(* no reader would ask for on their own.                                   *)

\* While a Stop is in progress the Manager has no queue, so StopFailed may
\* install one without stopping another.
QuietWhileStopping == stopping => workerRetry = 0

\* A thread that holds gatewayMu opened the Gateway, and only a holder of
\* gatewayMu could take the session away.
JoinersHaveSession ==
  /\ starter.pc \in Holding => session
  /\ \A r \in rejoins : r.pc \in Holding => session
  /\ reconciler = "opening" => session

\* The audioStop channel of a live connection is the one of its generation,
\* and generations are not reused.
AudioStopFresh ==
  /\ voiceConnected => audioStop = voiceGeneration
  /\ voiceConnected => voiceGeneration # 0
  /\ audioStop <= voiceGeneration
  /\ \A g \in closedStops : g <= voiceGeneration

\* Queue numbers are not reused, so a queue just made has not been stopped.
QueuesFresh ==
  workerRetry <= queuesMade /\ \A q \in deadQueues : q <= queuesMade

ManagerInv == /\ LiveJobServed
              /\ QueuesFresh
              /\ NoQueueLeak
              /\ NothingOutlivesJob
              /\ QuietWhileStopping

ClientInv == /\ RevokedIsOut
             /\ JoinersHaveSession
             /\ ConnectedIsForwarded
             /\ NoDoubleClose
             /\ AudioStopFresh

IInv == TypeOK /\ ManagerInv /\ GenerationFence /\ ClientInv
=============================================================================
