------------------------------ MODULE AutoStop ------------------------------
(***************************************************************************)
(* Stopping a stream whose voice channel is empty: the autoStop* maps of   *)
(* jobs.Manager, the autoStopWhenEmpty goroutines, and the rejoin intents  *)
(* that keep a join made while a stop request was on its way.              *)
(*                                                                         *)
(* One action is one critical section of Manager.mu.  All streams use the  *)
(* same voice channel, the case in which they meet in rejoinIntents.  Of   *)
(* the participants only whether there are any is kept.  Timers fire at    *)
(* any time; the Control Panel answers anything.                           *)
(***************************************************************************)
EXTENDS Naturals, FiniteSets

CONSTANTS
  Streams,          \* stream identifiers
  NoStream,         \* the empty stream identifier
  RetryDelays,      \* len(autoStopRetryDelays)
  ReconcileRounds,  \* len(rejoinReconcileDelay)
  MaxInputs         \* bound: requests and Discord events in one behaviour

ASSUME AutoStopAssumption ==
  /\ NoStream \notin Streams
  /\ RetryDelays \in Nat
  /\ ReconcileRounds \in Nat \ {0}
  /\ MaxInputs \in Nat

VARIABLES
  current,              \* Manager.current.StreamID
  stopping,             \* Manager.stopping
  disconnected,         \* Manager.disconnected
  reconnectGeneration,  \* Manager.reconnectGeneration
  occupied,             \* len(Manager.participants) > 0
  autoStopPending,      \* Manager.autoStopPending
  autoStopGeneration,   \* Manager.autoStopGeneration
  autoStopAttempts,     \* Manager.autoStopAttempts
  cooling,              \* autoStopLastAttempt is within autoStopCooldown
  autoStopInFlight,     \* generation of Manager.autoStopInFlight, 0 for none
  watchers,             \* the autoStopWhenEmpty goroutines
  intent,               \* the rejoin intent of the voice channel
  intentSequence,       \* Manager.rejoinIntentSequence
  reconcilers,          \* the reconcileAutoStopRejoin goroutines
  starter,              \* stream of the Start call inside JoinVoice
  stopper,              \* stream of the Stop call inside LeaveVoice
  inputs                \* requests and events so far

job     == <<current, stopping, disconnected, reconnectGeneration, occupied>>
maps    == <<autoStopPending, autoStopGeneration, autoStopAttempts, cooling,
             autoStopInFlight>>
rejoin  == <<intent, intentSequence, reconcilers>>
calls   == <<starter, stopper>>
vars    == <<job, maps, watchers, rejoin, calls, inputs>>

NoIntent == [source |-> NoStream, seq |-> 0]
NoRun    == [pc |-> "none", round |-> 0, seq |-> 0]

Init ==
  /\ current = NoStream
  /\ stopping = FALSE
  /\ disconnected = FALSE
  /\ reconnectGeneration = 0
  /\ occupied = FALSE
  /\ autoStopPending = [s \in Streams |-> FALSE]
  /\ autoStopGeneration = [s \in Streams |-> 0]
  /\ autoStopAttempts = [s \in Streams |-> 0]
  /\ cooling = [s \in Streams |-> FALSE]
  /\ autoStopInFlight = [s \in Streams |-> 0]
  /\ watchers = {}
  /\ intent = NoIntent
  /\ intentSequence = 0
  /\ reconcilers = [s \in Streams |-> NoRun]
  /\ starter = NoStream
  /\ stopper = NoStream
  /\ inputs = 0

-----------------------------------------------------------------------------
(* Pieces of the critical sections.                                        *)

Input == inputs < MaxInputs /\ inputs' = inputs + 1

\* autoStopStillValidLocked (a stopper is configured)
StillValid(s, g) ==
  /\ autoStopGeneration[s] = g
  /\ autoStopPending[s]
  /\ current = s
  /\ ~occupied

\* autoStopStillValidForJobLocked: a new job is always a new generation
StillValidForJob(w) ==
  StillValid(w.stream, w.gen) /\ reconnectGeneration = w.rg

\* request.cancel() of the request in flight for stream s
CancelRequest(ws, s) ==
  {IF w.stream = s /\ w.gen = autoStopInFlight[s]
     THEN [w EXCEPT !.cancelled = TRUE] ELSE w : w \in ws}

\* invalidateAutoStopLocked
Invalidate(s) ==
  /\ autoStopGeneration' = [autoStopGeneration EXCEPT ![s] = @ + 1]
  /\ autoStopPending' = [autoStopPending EXCEPT ![s] = FALSE]
  /\ autoStopAttempts' = [autoStopAttempts EXCEPT ![s] = 0]
  /\ cooling' = [cooling EXCEPT ![s] = FALSE]

\* Mutated form of Cancel: the request stays registered
CancelKeepingEntry(s, ws) ==
  /\ Invalidate(s)
  /\ watchers' = CancelRequest(ws, s)
  /\ UNCHANGED autoStopInFlight

\* cancelAutoStopLocked, leaving the goroutines ws
Cancel(s, ws) ==
  /\ Invalidate(s)
  /\ watchers' = CancelRequest(ws, s)
  /\ autoStopInFlight' = [autoStopInFlight EXCEPT ![s] = 0]

\* finishAutoStopLocked
Finish(s, g) ==
  /\ autoStopInFlight' =
       [autoStopInFlight EXCEPT ![s] = IF @ = g THEN 0 ELSE @]
  /\ \/ /\ autoStopGeneration[s] = g
        /\ autoStopPending' = [autoStopPending EXCEPT ![s] = FALSE]
        /\ autoStopAttempts' = [autoStopAttempts EXCEPT ![s] = 0]
     \/ /\ autoStopGeneration[s] # g
        /\ UNCHANGED <<autoStopPending, autoStopAttempts>>
  /\ UNCHANGED <<autoStopGeneration, cooling>>

\* recordAutoStopRejoinIntentLocked
RecordIntent(s) ==
  \/ intent.source = s /\ UNCHANGED <<intent, intentSequence>>
  \/ /\ intent.source # s
     /\ intentSequence' = intentSequence + 1
     /\ intent' = [source |-> s, seq |-> intentSequence + 1]

\* A goroutine started by updateAutoStopForParticipantSetLocked
NewWatcher(s) ==
  [stream |-> s, gen |-> autoStopGeneration[s] + 1, passed |-> FALSE,
   pc |-> "wait", rg |-> 0, cancelled |-> FALSE]

\* Mutated form of UpdateAutoStop: returning participants cancel nothing
UpdateAutoStopDeaf(occ, ws) ==
  LET s == current IN
  \/ /\ occ
     /\ watchers' = ws
     /\ UNCHANGED <<maps, intent, intentSequence>>
  \/ /\ ~occ /\ (autoStopPending[s] \/ cooling[s])
     /\ watchers' = ws
     /\ UNCHANGED <<maps, intent, intentSequence>>
  \/ /\ ~occ /\ ~autoStopPending[s] /\ ~cooling[s]
     /\ autoStopPending' = [autoStopPending EXCEPT ![s] = TRUE]
     /\ autoStopGeneration' = [autoStopGeneration EXCEPT ![s] = @ + 1]
     /\ autoStopAttempts' = [autoStopAttempts EXCEPT ![s] = 0]
     /\ watchers' = ws \cup {NewWatcher(s)}
     /\ UNCHANGED <<cooling, autoStopInFlight, intent, intentSequence>>

\* updateAutoStopForParticipantSetLocked for the set the caller stored
UpdateAutoStop(occ, ws) ==
  LET s == current IN
  \/ /\ occ
     /\ \/ autoStopInFlight[s] # 0 /\ RecordIntent(s)
        \/ autoStopInFlight[s] = 0 /\ UNCHANGED <<intent, intentSequence>>
     /\ Cancel(s, ws)
  \/ /\ ~occ /\ (autoStopPending[s] \/ cooling[s])
     /\ watchers' = ws
     /\ UNCHANGED <<maps, intent, intentSequence>>
  \/ /\ ~occ /\ ~autoStopPending[s] /\ ~cooling[s]
     /\ autoStopPending' = [autoStopPending EXCEPT ![s] = TRUE]
     /\ autoStopGeneration' = [autoStopGeneration EXCEPT ![s] = @ + 1]
     /\ autoStopAttempts' = [autoStopAttempts EXCEPT ![s] = 0]
     /\ watchers' = ws \cup {NewWatcher(s)}
     /\ UNCHANGED <<cooling, autoStopInFlight, intent, intentSequence>>

Others(w)      == watchers \ {w}
GoOn(w, pc)    == watchers' = Others(w) \cup {[w EXCEPT !.pc = pc]}
End(w)         == watchers' = Others(w)

-----------------------------------------------------------------------------
(* Mutated forms of actions: what plausible slips would make of them.      *)

\* FindsEmpty without the return after it deferred
FindsEmptyFallingThrough(w) ==
  /\ w.pc = "empty"
  /\ \/ /\ StillValidForJob(w)
        /\ watchers' = Others(w) \cup
             {[w EXCEPT !.pc = "send"],
              [w EXCEPT !.pc = "wait", !.passed = TRUE]}
     \/ ~StillValidForJob(w) /\ End(w)
  /\ UNCHANGED <<job, maps, rejoin, calls, inputs>>

-----------------------------------------------------------------------------
(* The job, as far as it drives the automatic stop.                        *)

StartBegin(s) ==
  /\ Input
  /\ starter = NoStream
  /\ ~stopping
  /\ current \in {NoStream, s}
  /\ Cancel(s, watchers)
  /\ starter' = s
  /\ UNCHANGED <<job, rejoin, stopper>>

StartFails ==
  /\ starter # NoStream
  /\ starter' = NoStream
  /\ UNCHANGED <<job, maps, watchers, rejoin, stopper, inputs>>

StartCommit ==
  /\ starter # NoStream
  /\ current' = starter
  /\ stopping' = FALSE
  /\ disconnected' = FALSE
  /\ reconnectGeneration' = reconnectGeneration + 1
  /\ occupied' = FALSE
  /\ starter' = NoStream
  /\ UNCHANGED <<maps, watchers, rejoin, stopper, inputs>>

\* The Panel's own request is not cancelled, only outdated
StopBegin ==
  /\ Input
  /\ stopper = NoStream
  /\ current # NoStream
  /\ ~stopping
  /\ Invalidate(current)
  /\ stopping' = TRUE
  /\ reconnectGeneration' = reconnectGeneration + 1
  /\ stopper' = current
  /\ UNCHANGED <<current, disconnected, occupied, autoStopInFlight, watchers,
                 rejoin, starter>>

StopFails ==
  /\ stopper # NoStream
  /\ stopping' = (stopping /\ current # stopper)
  /\ stopper' = NoStream
  /\ UNCHANGED <<current, disconnected, reconnectGeneration, occupied, maps,
                 watchers, rejoin, starter, inputs>>

StopFinish ==
  /\ stopper # NoStream
  /\ current' = NoStream
  /\ stopping' = FALSE
  /\ occupied' = FALSE
  /\ stopper' = NoStream
  /\ UNCHANGED <<disconnected, reconnectGeneration, maps, watchers, rejoin,
                 starter, inputs>>

DiscordDisconnected ==
  /\ Input
  /\ disconnected' = TRUE
  /\ reconnectGeneration' = reconnectGeneration + 1
  /\ UNCHANGED <<current, stopping, occupied, maps, watchers, rejoin, calls>>

\* Manager.DiscordConnected, and rejoinVoiceWithBackoff that still is current
DiscordConnected ==
  /\ disconnected
  /\ disconnected' = FALSE
  /\ UNCHANGED <<current, stopping, reconnectGeneration, occupied, maps,
                 watchers, rejoin, calls, inputs>>

\* ParticipantChanged and participantsSynced that pass their fences
ParticipantsChanged(occ) ==
  /\ Input
  /\ current # NoStream /\ ~stopping /\ ~disconnected
  /\ occupied' = occ
  /\ UpdateAutoStop(occ, watchers)
  /\ UNCHANGED <<current, stopping, disconnected, reconnectGeneration,
                 reconcilers, calls>>

\* inFlightAutoStopStreamForVoiceLocked
InFlightStream(s) == {t \in Streams : autoStopInFlight[t] # 0} = {s}

\* VoiceUserJoined meets a stop request in flight for one of the streams ss,
\* the ones the event has authority for
MeetsRequest(ss) ==
  \/ current \in ss /\ autoStopInFlight[current] # 0
  \/ current = NoStream /\ \E s \in ss : InFlightStream(s)

KeepsIntent ==
  \/ /\ current # NoStream
     /\ RecordIntent(current)
     /\ Cancel(current, watchers)
  \/ /\ current = NoStream
     /\ \E s \in Streams : InFlightStream(s) /\ RecordIntent(s)
     /\ UNCHANGED <<maps, watchers>>

\* VoiceUserJoined of a Gateway event
VoiceUserJoined ==
  /\ Input
  /\ MeetsRequest(Streams)
  /\ KeepsIntent
  /\ UNCHANGED <<job, reconcilers, calls>>

\* autoStopCooldown after the last attempt
Cooled(s) ==
  /\ cooling[s]
  /\ cooling' = [cooling EXCEPT ![s] = FALSE]
  /\ UNCHANGED <<job, autoStopPending, autoStopGeneration, autoStopAttempts,
                 autoStopInFlight, watchers, rejoin, calls, inputs>>

-----------------------------------------------------------------------------
(* autoStopWhenEmpty.                                                      *)

\* The delay is over: read the job
Fires(w) ==
  /\ w.pc = "wait"
  /\ \/ /\ StillValid(w.stream, w.gen)
        /\ watchers' = Others(w) \cup
             {[w EXCEPT !.pc = "read", !.rg = reconnectGeneration]}
     \/ ~StillValid(w.stream, w.gen) /\ End(w)
  /\ UNCHANGED <<job, maps, rejoin, calls, inputs>>

\* SnapshotVoiceParticipants, without Manager.mu
Reads(w) ==
  /\ w.pc = "read"
  /\ \E pc \in {"cancel", "sync", "empty"} : GoOn(w, pc)
  /\ UNCHANGED <<job, maps, rejoin, calls, inputs>>

\* A snapshot with participants goes through participantsSynced, which may
\* find it outdated
Syncs(w) ==
  /\ w.pc = "sync"
  /\ \/ GoOn(w, "cancel") /\ UNCHANGED <<occupied, maps, rejoin>>
     \/ /\ current = w.stream /\ ~stopping /\ ~disconnected
        /\ reconnectGeneration = w.rg
        /\ occupied' = TRUE
        /\ UpdateAutoStop(TRUE, Others(w) \cup {[w EXCEPT !.pc = "cancel"]})
        /\ UNCHANGED reconcilers
  /\ UNCHANGED <<current, stopping, disconnected, reconnectGeneration, calls,
                 inputs>>

\* The snapshot is missing or has participants: no stop
Cancels(w) ==
  /\ w.pc = "cancel"
  /\ \/ StillValidForJob(w) /\ Cancel(w.stream, Others(w))
     \/ ~StillValidForJob(w) /\ End(w) /\ UNCHANGED maps
  /\ UNCHANGED <<job, rejoin, calls, inputs>>

\* The snapshot is empty: once more after emptyConfirmDelay, then confirmed
FindsEmpty(w) ==
  /\ w.pc = "empty"
  /\ \/ /\ StillValidForJob(w)
        /\ watchers' = Others(w) \cup
             {[w EXCEPT !.pc = IF w.passed THEN "send" ELSE "wait",
                        !.passed = TRUE]}
     \/ ~StillValidForJob(w) /\ End(w)
  /\ UNCHANGED <<job, maps, rejoin, calls, inputs>>

Confirmed(w) ==
  /\ w.pc = "send"
  /\ \/ /\ StillValidForJob(w)
        /\ GoOn(w, "request")
        /\ cooling' = [cooling EXCEPT ![w.stream] = TRUE]
        /\ autoStopInFlight' = [autoStopInFlight EXCEPT ![w.stream] = w.gen]
     \/ /\ ~StillValidForJob(w)
        /\ End(w)
        /\ UNCHANGED <<cooling, autoStopInFlight>>
  /\ UNCHANGED <<job, autoStopPending, autoStopGeneration, autoStopAttempts,
                 rejoin, calls, inputs>>

\* StopStreamContext returns.  An answer that came too late starts nothing
\* but the reconciliation of a rejoin.
Answered(w, result) ==
  /\ w.pc = "request"
  /\ autoStopInFlight' =
       [autoStopInFlight EXCEPT ![w.stream] = IF @ = w.gen THEN 0 ELSE @]
  /\ \/ StillValid(w.stream, w.gen) /\ GoOn(w, result)
     \/ /\ ~StillValid(w.stream, w.gen)
        /\ intent.source = w.stream
        /\ GoOn(w, "schedule")
     \/ /\ ~StillValid(w.stream, w.gen)
        /\ intent.source # w.stream
        /\ End(w)
  /\ UNCHANGED <<job, autoStopPending, autoStopGeneration, autoStopAttempts,
                 cooling, rejoin, calls, inputs>>

\* scheduleAutoStopRejoinReconciliation, and go reconcileAutoStopRejoin
Schedules(w) ==
  /\ w.pc = "schedule"
  /\ reconcilers' =
       IF intent.source = w.stream /\ reconcilers[w.stream].pc = "none"
         THEN [reconcilers EXCEPT ![w.stream] =
                 [pc |-> "wait", round |-> 1, seq |-> 0]]
         ELSE reconcilers
  /\ End(w)
  /\ UNCHANGED <<job, maps, intent, intentSequence, calls, inputs>>

\* Success, or an error that is not to be retried
Finishes(w) ==
  /\ w.pc = "ok"
  /\ Finish(w.stream, w.gen)
  /\ End(w)
  /\ UNCHANGED <<job, rejoin, calls, inputs>>

\* scheduleAutoStopRetry
Retry(w) ==
  /\ w.pc = "retry"
  /\ \/ /\ StillValid(w.stream, w.gen)
        /\ autoStopAttempts[w.stream] < RetryDelays
        /\ autoStopAttempts' = [autoStopAttempts EXCEPT ![w.stream] = @ + 1]
        /\ GoOn(w, "wait")
        /\ UNCHANGED <<autoStopPending, autoStopGeneration, cooling,
                       autoStopInFlight>>
     \/ /\ StillValid(w.stream, w.gen)
        /\ autoStopAttempts[w.stream] >= RetryDelays
        /\ Finish(w.stream, w.gen)
        /\ End(w)
     \/ /\ ~StillValid(w.stream, w.gen)
        /\ End(w)
        /\ UNCHANGED maps
  /\ UNCHANGED <<job, rejoin, calls, inputs>>

-----------------------------------------------------------------------------
(* reconcileAutoStopRejoin.  The deferred delete of rejoinReconcileRun is  *)
(* a critical section of its own.                                          *)

GoTo(s, pc) == reconcilers' = [reconcilers EXCEPT ![s].pc = pc]

\* A round begins: read the intent; the refresh follows without Manager.mu
ReconcileReads(s) ==
  /\ reconcilers[s].pc = "wait"
  /\ reconcilers[s].round <= ReconcileRounds
  /\ \/ /\ intent.source = s
        /\ reconcilers' = [reconcilers EXCEPT ![s].pc = "refresh",
                                              ![s].seq = intent.seq]
     \/ intent.source # s /\ GoTo(s, "end")
  /\ UNCHANGED <<job, maps, watchers, intent, intentSequence, calls, inputs>>

\* Mutated form of NextRound: the round is not counted
NextRoundUncounted(s) ==
  reconcilers' = [reconcilers EXCEPT ![s].pc = "wait"]

NextRound(s) ==
  reconcilers' = [reconcilers EXCEPT ![s] =
    [@ EXCEPT !.pc = "wait", !.round = reconcilers[s].round + 1]]

\* The refresh fails
ReconcileAgain(s) ==
  /\ reconcilers[s].pc = "refresh"
  /\ NextRound(s)
  /\ UNCHANGED <<job, maps, watchers, intent, intentSequence, calls, inputs>>

\* The refresh succeeds; it may or may not find the stream armed again with
\* the same assignment epoch
ReconcileChecks(s) ==
  LET same == intent = [source |-> s, seq |-> reconcilers[s].seq] IN
  /\ reconcilers[s].pc = "refresh"
  /\ \/ ~same /\ GoTo(s, "end") /\ UNCHANGED intent
     \/ /\ same /\ current \notin {NoStream, s}
        /\ intent' = NoIntent
        /\ GoTo(s, "end")
     \/ same /\ current \in {NoStream, s} /\ NextRound(s) /\ UNCHANGED intent
     \/ /\ same /\ current = NoStream
        /\ intent' = NoIntent
        /\ GoTo(s, "join")
  /\ UNCHANGED <<job, maps, watchers, intentSequence, calls, inputs>>

\* VoiceUserJoined for the stream the intent was about
ReconcileJoins(s) ==
  /\ reconcilers[s].pc = "join"
  /\ \/ MeetsRequest({s}) /\ KeepsIntent
     \/ /\ ~MeetsRequest({s})
        /\ UNCHANGED <<maps, watchers, intent, intentSequence>>
  /\ GoTo(s, "end")
  /\ UNCHANGED <<job, calls, inputs>>

\* The rounds are exhausted
ReconcileGivesUp(s) ==
  /\ reconcilers[s].pc = "wait"
  /\ reconcilers[s].round > ReconcileRounds
  /\ intent' = IF intent.source = s THEN NoIntent ELSE intent
  /\ GoTo(s, "end")
  /\ UNCHANGED <<job, maps, watchers, intentSequence, calls, inputs>>

ReconcileEnds(s) ==
  /\ reconcilers[s].pc = "end"
  /\ reconcilers' = [reconcilers EXCEPT ![s] = NoRun]
  /\ UNCHANGED <<job, maps, watchers, intent, intentSequence, calls, inputs>>

-----------------------------------------------------------------------------
WatcherStep(w) ==
  \/ Fires(w) \/ Reads(w) \/ Syncs(w) \/ Cancels(w) \/ FindsEmpty(w)
  \/ Confirmed(w)
  \/ \E result \in {"ok", "retry"} : Answered(w, result)
  \/ Schedules(w) \/ Finishes(w) \/ Retry(w)

ReconcileStep(s) ==
  \/ ReconcileReads(s) \/ ReconcileAgain(s) \/ ReconcileChecks(s)
  \/ ReconcileJoins(s) \/ ReconcileGivesUp(s) \/ ReconcileEnds(s)

Next ==
  \/ \E s \in Streams : StartBegin(s) \/ Cooled(s) \/ ReconcileStep(s)
  \/ StartFails \/ StartCommit
  \/ StopBegin \/ StopFails \/ StopFinish
  \/ DiscordDisconnected \/ DiscordConnected
  \/ \E occ \in BOOLEAN : ParticipantsChanged(occ)
  \/ VoiceUserJoined
  \/ \E w \in watchers : WatcherStep(w)

Spec == Init /\ [][Next]_vars

\* Timers fire, requests and refreshes have timeouts (20 s and 10 s), and Go
\* runs every runnable goroutine.  Nothing is assumed of users or the Panel.
Fairness ==
  /\ WF_vars(\E w \in watchers : WatcherStep(w))
  /\ \A s \in Streams : WF_vars(ReconcileStep(s))

FairSpec == Spec /\ Fairness

-----------------------------------------------------------------------------
(* Properties.                                                             *)

WatcherPcs == {"wait", "read", "sync", "cancel", "empty", "send", "request",
               "schedule", "ok", "retry"}
Watcher    == [stream : Streams, gen : Nat \ {0}, passed : BOOLEAN,
               pc : WatcherPcs, rg : Nat, cancelled : BOOLEAN]

JobTypes ==
  /\ current \in Streams \cup {NoStream}
  /\ stopping \in BOOLEAN
  /\ disconnected \in BOOLEAN
  /\ reconnectGeneration \in Nat
  /\ occupied \in BOOLEAN
  /\ starter \in Streams \cup {NoStream}
  /\ stopper \in Streams \cup {NoStream}
  /\ inputs \in Nat

MapTypes ==
  /\ autoStopPending \in [Streams -> BOOLEAN]
  /\ autoStopGeneration \in [Streams -> Nat]
  /\ autoStopAttempts \in [Streams -> 0..RetryDelays]
  /\ cooling \in [Streams -> BOOLEAN]
  /\ autoStopInFlight \in [Streams -> Nat]

RejoinTypes ==
  /\ intent \in [source : Streams \cup {NoStream}, seq : Nat]
  /\ intentSequence \in Nat
  /\ reconcilers \in
       [Streams -> [pc : {"none", "wait", "refresh", "join", "end"},
                    round : 0..(ReconcileRounds + 1), seq : Nat]]
  /\ \A s \in Streams :
       reconcilers[s].pc = "refresh" => reconcilers[s].round <= ReconcileRounds

\* Every variable has its type; retries and rounds stay within their limits.
TypeOK == JobTypes /\ MapTypes /\ RejoinTypes /\ watchers \in SUBSET Watcher

Outstanding(s) == {w \in watchers : w.stream = s /\ w.pc = "request"}

\* Of the goroutines of one stream at most one has the stream's generation: a
\* channel that flickers never has two valid countdowns.
OneCountdown ==
  \A v, w \in watchers :
    /\ w.gen <= autoStopGeneration[w.stream]
    /\ v.stream = w.stream /\ v.gen = w.gen => v = w

\* A stop request that still counts (nothing outdated it) was confirmed, and
\* the channel of its job is empty: whoever came back since has withdrawn it.
LiveRequestIsForEmpty ==
  \A s \in Streams : \A w \in Outstanding(s) :
    w.gen = autoStopGeneration[s] =>
      /\ w.passed
      /\ current = s => ~occupied
      /\ autoStopPending[s]

\* Only a request on its way is registered as in flight, under its generation.
InFlightIsOutstanding ==
  \A s \in Streams : autoStopInFlight[s] # 0 =>
    \E w \in Outstanding(s) : w.gen = autoStopInFlight[s] /\ ~w.cancelled

\* Stop leaves the Panel's request alone: a request is cancelled only by a
\* participant, a missing snapshot or a new Start.
StopKeepsRequest ==
  [][stopper = NoStream /\ stopper' # NoStream =>
       \A w \in watchers : w \in watchers']_vars

\* What the two above rest on: who sends has confirmed, and a cancelled request
\* belongs to a generation that is over.
Stages ==
  \A w \in watchers :
    /\ w.pc \in {"send", "request", "schedule", "ok", "retry"} => w.passed
    /\ w.cancelled => /\ w.pc \in {"request", "schedule"}
                      /\ w.gen < autoStopGeneration[w.stream]

\* The inductive invariant of the countdowns and requests
IInv ==
  /\ TypeOK
  /\ OneCountdown
  /\ Stages
  /\ LiveRequestIsForEmpty
  /\ InFlightIsOutstanding

\* reconcileAutoStopRejoin gives up after its rounds, so that the flag
\* rejoinReconcileRun never blocks a stream's reconciliation for good.
ReconciliationEnds ==
  \A s \in Streams : reconcilers[s].pc # "none" ~> reconcilers[s].pc = "none"

\* "a leave lost during a gateway reconnect cannot keep an empty VC alive
\* indefinitely": while an automatic stop is pending, later snapshots schedule
\* nothing, so a goroutine has to be at it.
EmptyIsWatched ==
  \A s \in Streams :
    current = s /\ ~occupied /\ autoStopPending[s] =>
      \E w \in watchers : w.stream = s /\ w.gen = autoStopGeneration[s]
=============================================================================
