----------------------------- MODULE AutoStart -----------------------------
(***************************************************************************)
(* Starting a stream when somebody is in its voice channel: the waiting    *)
(* streams that the Control Panel projects to the Bot, the events of       *)
(* members who join or are found there, the reservation and the retry      *)
(* goroutine of each start request, the mark that an explicit stop leaves, *)
(* and runtimeRefreshMu, under which the projection is replaced.           *)
(*                                                                         *)
(* One action is one critical section of Manager.mu or RealClient.mu.  All *)
(* streams use the same voice channel, the case in which they compete.     *)
(* Humans come and go, the Gateway and the Panel fail and timers fire at   *)
(* any time.  An assignment epoch is a number, 0 the empty one; the Panel  *)
(* may project anything but an epoch older than the one it projected       *)
(* before.  No automatic stop is in flight: those are AutoStop's.  Who is  *)
(* in the channel is known to be human; joins of members whose identity    *)
(* arrives later (unknownAutoStartJoins) are left out.                     *)
(***************************************************************************)
EXTENDS Naturals, FiniteSets

CONSTANTS
  Streams,         \* stream identifiers
  NoStream,        \* the empty stream identifier
  Callbacks,       \* Gateway callback goroutines
  Reservations,    \* bound: autoStartRetry structs, each with its goroutine
  NoReservation,   \* nil
  Sync,            \* the member sync run by a refresh
  Loop, Http,      \* runRuntimeConfigRefreshLoop and the start handler
  NoOne,           \* nobody holds runtimeRefreshMu
  NoMark,          \* no entry in autoStartStopped
  MaxEpoch,        \* bound: epochs of a stream
  RetryDelays,     \* len(autoStartRetryDelays)
  MonitorFilters,  \* the Panel sends discord_waiting_monitor
  MaxInputs        \* bound: requests, refreshes and Discord events

\* The threads that call VoiceUserJoined, and those that refresh
Owners  == Callbacks \cup Reservations \cup {Sync}
Holders == Callbacks \cup Reservations \cup {Loop, Http}
Epochs  == 1..MaxEpoch

ASSUME AutoStartAssumption ==
  /\ IsFiniteSet(Streams)
  /\ NoStream \notin Streams
  /\ NoReservation \notin Reservations
  /\ Callbacks \cap Reservations = {}
  /\ {Sync, Loop, Http, NoOne} \cap (Callbacks \cup Reservations) = {}
  /\ Sync \notin {Loop, Http, NoOne}
  /\ Loop \notin {Http, NoOne}
  /\ Http # NoOne
  /\ MaxEpoch \in Nat \ {0}
  /\ NoMark \notin 0..MaxEpoch
  /\ RetryDelays \in Nat
  /\ MonitorFilters \in BOOLEAN
  /\ MaxInputs \in Nat

VARIABLES
  newest,        \* history: the last epoch projected for each stream
  current,       \* Manager.current.StreamID
  currentEpoch,  \* Manager.currentAssignmentEpoch
  stopping,      \* Manager.stopping
  generation,    \* Manager.reconnectGeneration
  defaults,      \* epochs of Manager.streamDefaults, 0 for none
  lastDefaults,  \* epochs of Manager.lastStreamDefaults, 0 for none
  execution,     \* Manager.executionAuthorityStreams
  pending,       \* Manager.autoStartPending, within autoStartCooldown or not
  stopped,       \* epochs of Manager.autoStartStopped
  retry,         \* Manager.autoStartRetries
  refreshed,     \* autoStartRefreshAt is within autoStartRefreshWait
  targets,       \* RealClient.autoStartTargets
  holder,        \* who holds Manager.runtimeRefreshMu
  refresh,       \* what it is doing there
  starter,       \* the start request of Http, past its checks
  stopper,       \* the stream that the stop handler is stopping
  joins,         \* the VoiceUserJoined calls of each thread
  goroutines,    \* the goroutine of each reservation
  ended,         \* history: epoch of the last job stopped, until a real join
  inputs         \* requests, refreshes and events so far

job      == <<current, currentEpoch, stopping, generation>>
config   == <<newest, defaults, lastDefaults, execution>>
starts   == <<pending, stopped, retry>>
lock     == <<holder, refresh>>
handlers == <<starter, stopper>>
vars     == <<job, config, starts, refreshed, targets, lock,
              handlers, joins, goroutines, ended, inputs>>

Target   == [stream : Streams, epoch : Epochs]
NoTarget == [stream |-> NoStream, epoch |-> 0]
NoJoin   == [pc |-> "none", todo |-> {}, target |-> NoTarget,
             existing |-> FALSE, stream |-> NoStream]
Gone     == [pc |-> "none", target |-> NoTarget, existing |-> FALSE,
             gen |-> 0, attempt |-> 0, seen |-> FALSE, busy |-> FALSE]
NoStart  == [pc |-> "none", stream |-> NoStream, epoch |-> 0]
Nothing  == [s \in Streams |-> 0]

Waiting == {s \in Streams : defaults[s] # 0}

\* The targets of the projection
Selected == {[stream |-> s, epoch |-> defaults[s]] : s \in Waiting}

\* Mutated form of Ambiguous: candidates are counted by stream
AmbiguousByStream(w) ==
  \E s \in Streams : Cardinality({t \in {s} : w[t] # 0}) > 1

\* More than one waiting stream uses the channel
Ambiguous(w) == Cardinality({s \in Streams : w[s] # 0}) > 1

\* selectDiscordWaitingGateway leaves out streams that share a voice channel
SelectWaiting(w) == IF Ambiguous(w) THEN Nothing ELSE w

\* streamDiscordDefaultsFromRuntimeConfig: without a monitor, every assigned
\* stream that is to start with a join
Project(w) == IF MonitorFilters THEN SelectWaiting(w) ELSE w

\* The Panel assigns the streams that execute; without discord_waiting_monitor,
\* those that wait too.  A stream that does not wait is taken to execute: one
\* that is not assigned at all is not among the inputs
Assigned(w) == {s \in Streams : w[s] = 0 \/ ~MonitorFilters}

\* The Bot comes up with a first projection, before the Gateway is connected
Init ==
  /\ \E w \in [Streams -> 0..1] : /\ defaults = Project(w)
                                  /\ execution = Assigned(w)
  /\ newest = defaults
  /\ lastDefaults = defaults
  /\ current = NoStream
  /\ currentEpoch = 0
  /\ stopping = FALSE
  /\ generation = 0
  /\ pending = [s \in Streams |-> "none"]
  /\ stopped = [s \in Streams |-> NoMark]
  /\ retry = [s \in Streams |-> NoReservation]
  /\ refreshed = FALSE
  /\ targets = Selected
  /\ holder = NoOne
  /\ refresh = "idle"
  /\ starter = NoStart
  /\ stopper = NoStream
  /\ joins = [o \in Owners |-> NoJoin]
  /\ goroutines = [r \in Reservations |-> Gone]
  /\ ended = Nothing
  /\ inputs = 0

Input == inputs < MaxInputs /\ inputs' = inputs + 1

-----------------------------------------------------------------------------
(* Helpers of the Manager, called with Manager.mu held.                    *)

\* matchingAutoStartStreamLocked: the only waiting stream of the channel
Matching ==
  IF Cardinality(Waiting) = 1 THEN CHOOSE s \in Waiting : TRUE ELSE NoStream

\* autoStartEventAuthorizedLocked
Authorized(s, target) ==
  s # NoStream /\ target.stream = s /\ target.epoch = defaults[s]

\* cancelAllAutoStartRetriesLocked: the context of a reservation is cancelled
\* exactly when the map no longer holds it
CancelAll == retry' = [s \in Streams |-> NoReservation]

StreamOf(r) == goroutines[r].target.stream

Held(r) == StreamOf(r) # NoStream /\ retry[StreamOf(r)] = r

\* autoStartRetryStillValidLocked
StillValid(r) ==
  /\ Held(r)
  /\ current = NoStream
  /\ generation = goroutines[r].gen
  /\ Authorized(Matching, goroutines[r].target)

-----------------------------------------------------------------------------
(* SetStreamVoiceDefaults.                                                 *)

\* Mutated form of NewAuthority: any projection of the stream counts as new
NewAuthorityAny(s, w) == w[s] # 0 /\ stopped[s] # NoMark

\* The projection gives a stopped stream another epoch
NewAuthority(s, w) == w[s] # 0 /\ stopped[s] \notin {NoMark, w[s]}

\* The epochs that are remembered although the stream is not waiting any more
Retained(w, assigned) ==
  [s \in Streams |->
     LET keep == \/ s = current
                 \/ s \in assigned
                 \/ retry[s] # NoReservation
                 \/ pending[s] # "none"
     IN  IF w[s] # 0 THEN w[s]
         ELSE IF ~keep THEN 0
         ELSE IF defaults[s] # 0 THEN defaults[s] ELSE lastDefaults[s]]

\* Mutated form of Kept: a reservation survives a change of epoch
KeptWaiting(s, w) == retry[s] # NoReservation /\ w[s] # 0

\* The reservation is of the epoch that is projected
Kept(s, w) ==
  retry[s] # NoReservation /\ goroutines[retry[s]].target.epoch = w[s]

SetStreamVoiceDefaults(w, assigned) ==
  /\ newest' = [s \in Streams |-> IF w[s] # 0 THEN w[s] ELSE newest[s]]
  /\ defaults' = w
  /\ lastDefaults' = Retained(w, assigned)
  /\ execution' = assigned
  /\ pending' = [s \in Streams |->
       IF \/ w[s] = 0
          \/ defaults[s] \notin {0, w[s]}
          \/ NewAuthority(s, w)
         THEN "none" ELSE pending[s]]
  /\ retry' = [s \in Streams |->
       IF Kept(s, w) THEN retry[s] ELSE NoReservation]
  /\ stopped' = [s \in Streams |->
       IF NewAuthority(s, w) THEN NoMark ELSE stopped[s]]

-----------------------------------------------------------------------------
(* RefreshRuntimeConfig: runtimeRefreshMu is held from Lock to Unlock.     *)

\* What the Panel may project as waiting
Projections ==
  {w \in [Streams -> 0..MaxEpoch] :
     \A s \in Streams : w[s] = 0 \/ w[s] >= newest[s]}

\* The lock is taken and the Panel asked
Lock(h) ==
  /\ Input
  /\ holder = NoOne
  /\ holder' = h
  /\ refresh' = "fetched"

\* The refresh that a join asks for, the one after a stale start, a tick of
\* runRuntimeConfigRefreshLoop, and startJob: the Panel starts a stream here
JoinRefresh(o) ==
  /\ joins[o].pc = "mutex"
  /\ Lock(o)
  /\ joins' = [joins EXCEPT ![o].pc = "refreshing"]
  /\ UNCHANGED <<job, config, starts, refreshed, targets, handlers,
                 goroutines, ended>>

StaleRefresh(r) ==
  /\ goroutines[r].pc = "mutex"
  /\ Lock(r)
  /\ goroutines' = [goroutines EXCEPT ![r].pc = "refreshing"]
  /\ UNCHANGED <<job, config, starts, refreshed, targets, handlers,
                 joins, ended>>

LoopTick ==
  /\ Lock(Loop)
  /\ UNCHANGED <<job, config, starts, refreshed, targets, handlers,
                 joins, goroutines, ended>>

StartRequest(s) ==
  /\ current \in {NoStream, s}
  /\ Lock(Http)
  /\ starter' = [NoStart EXCEPT !.stream = s]
  /\ UNCHANGED <<job, config, starts, refreshed, targets, stopper,
                 joins, goroutines, ended>>

\* The Panel does not answer: who asked for the refresh gives up, the lock is
\* free again
JoinRefreshFails(o) ==
  /\ joins[o].pc = "mutex"
  /\ holder = NoOne
  /\ joins' = [joins EXCEPT ![o].pc = "next", ![o].target = NoTarget]
  /\ UNCHANGED <<job, config, starts, refreshed, targets, lock,
                 handlers, goroutines, ended, inputs>>

StaleRefreshFails(r) ==
  /\ goroutines[r].pc = "mutex"
  /\ holder = NoOne
  /\ goroutines' = [goroutines EXCEPT ![r].pc = "finish"]
  /\ UNCHANGED <<job, config, starts, refreshed, targets, lock,
                 handlers, joins, ended, inputs>>

\* The callback returns and the lock is released: who asked for the refresh
\* goes on, or gives up after an error
Unlock(ok) ==
  LET waits == holder \in Owners /\ joins[holder].pc = "refreshing"
  IN  /\ holder' = NoOne
      /\ refresh' = "idle"
      /\ joins' = IF waits
           THEN [joins EXCEPT ![holder].pc = IF ok THEN "again" ELSE "next",
                   ![holder].target = IF ok THEN @ ELSE NoTarget]
           ELSE joins
      /\ goroutines' = IF holder \in Reservations /\ ~waits
           THEN [goroutines EXCEPT ![holder].pc =
                   IF ok THEN "successor" ELSE "finish"]
           ELSE goroutines
      /\ starter' = NoStart

\* reconcileRuntimeGateway and applyRuntimeConfigToManager.  A monitor with
\* ambiguous streams is refused unless a stream executes
Apply ==
  /\ refresh = "fetched"
  /\ holder # Http
  /\ \E w \in Projections :
       /\ current # NoStream => current \in Assigned(w)
       /\ Ambiguous(w) => Assigned(w) # {}
       /\ SetStreamVoiceDefaults(Project(w), Assigned(w))
  /\ refresh' = "targets"
  /\ UNCHANGED <<job, refreshed, targets, holder, handlers, joins,
                 goroutines, ended, inputs>>

\* The configuration is refused, or there is no credential: no stream is
\* waiting.  The start handler has recorded the assignments before
Refuse ==
  /\ refresh = "fetched"
  /\ \E w \in Projections :
       /\ holder = Http => starter.stream \in Assigned(w)
       /\ SetStreamVoiceDefaults(Nothing,
            IF holder = Http THEN Assigned(w) ELSE execution)
  /\ refresh' = "refused"
  /\ UNCHANGED <<job, refreshed, targets, holder, handlers, joins,
                 goroutines, ended, inputs>>

\* SetAutoStartVoiceTargets: syncAutoStartVoiceMembers finds humans or none
SetTargets(found) ==
  /\ refresh \in {"targets", "refused"}
  /\ targets' = Selected
  /\ refresh' = IF refresh = "targets" THEN "sync" ELSE "syncRefused"
  /\ joins' = [joins EXCEPT ![Sync] =
       [NoJoin EXCEPT !.pc = "next", !.existing = TRUE,
          !.todo = IF found THEN Selected ELSE {}]]
  /\ UNCHANGED <<job, config, starts, refreshed, holder, handlers,
                 goroutines, ended, inputs>>

\* The events of the members found are through: the refresh is over
Synced ==
  /\ refresh \in {"sync", "syncRefused"}
  /\ joins[Sync].pc = "none"
  /\ Unlock(refresh = "sync")
  /\ UNCHANGED <<job, config, starts, refreshed, targets, stopper, ended,
                 inputs>>

-----------------------------------------------------------------------------
(* Manager.Start, called by the start handler, Manager.Stop and            *)
(* DiscordDisconnected.  JoinVoice and LeaveVoice are VoiceLifecycle's.    *)

\* The epoch of a job is the projected one, or the last one remembered
StartEpoch(s) == IF defaults[s] # 0 THEN defaults[s] ELSE lastDefaults[s]

\* The stream is assigned to this Bot, the Gateway is there and nothing stops.
\* Only a holder of the lock reads what SetExecutionAuthorityStreams records,
\* so it is one step with the first section of Start
StartBegin ==
  LET s == starter.stream
  IN  /\ refresh = "fetched"
      /\ holder = Http
      /\ \E w \in Projections :
           s \in Assigned(w) /\ execution' = Assigned(w)
      /\ ~stopping
      /\ current \in {NoStream, s}
      /\ starter' = [pc |-> "join", stream |-> s, epoch |-> StartEpoch(s)]
      /\ refresh' = "idle"
      /\ UNCHANGED <<job, newest, defaults, lastDefaults, starts, refreshed,
                     targets, holder, stopper, joins, goroutines, ended,
                     inputs>>

\* The stream is not assigned to this Bot, or the job is stopping
StartRefused ==
  /\ refresh = "fetched"
  /\ holder = Http
  /\ \/ UNCHANGED execution
     \/ /\ stopping
        /\ \E w \in Projections :
             /\ starter.stream \in Assigned(w)
             /\ execution' = Assigned(w)
  /\ Unlock(FALSE)
  /\ UNCHANGED <<job, newest, defaults, lastDefaults, starts, refreshed,
                 targets, stopper, ended, inputs>>

JoinVoiceFails ==
  /\ starter.pc = "join"
  /\ Unlock(FALSE)
  /\ UNCHANGED <<job, config, starts, refreshed, targets, stopper,
                 ended, inputs>>

StartCommit ==
  /\ starter.pc = "join"
  /\ current' = starter.stream
  /\ currentEpoch' = starter.epoch
  /\ stopping' = FALSE
  /\ generation' = generation + 1
  /\ pending' = [pending EXCEPT ![starter.stream] = "none"]
  /\ CancelAll
  /\ Unlock(TRUE)
  /\ UNCHANGED <<config, stopped, refreshed, targets, stopper, ended,
                 inputs>>

StopBegin ==
  /\ Input
  /\ stopper = NoStream
  /\ CancelAll
  /\ current # NoStream
  /\ ~stopping
  /\ stopper' = current
  /\ stopping' = TRUE
  /\ generation' = generation + 1
  /\ UNCHANGED <<current, currentEpoch, config, pending, stopped,
                 refreshed, targets, lock, starter, joins, goroutines, ended>>

\* Manager.Stop returns early: nothing is to be stopped, or another stream
StopRefused ==
  /\ Input
  /\ \E s \in Streams : s # current \/ stopping
  /\ CancelAll
  /\ UNCHANGED <<job, config, pending, stopped, refreshed, targets, lock,
                 handlers, joins, goroutines, ended>>

\* LeaveVoice fails: the job stays, unless it changed hands
StopFails ==
  /\ stopper # NoStream
  /\ stopping' = (stopping /\ current # stopper)
  /\ stopper' = NoStream
  /\ UNCHANGED <<current, currentEpoch, generation, config, starts,
                 refreshed, targets, lock, starter, joins, goroutines, ended,
                 inputs>>

\* Somebody has joined: the event is on its way, or the goroutine of its
\* reservation runs, which may evaluate the event once more
RealJoinUnderWay ==
  \/ \E o \in Owners : joins[o].pc # "none" /\ ~joins[o].existing
  \/ \E r \in Reservations :
       goroutines[r].pc \notin {"none", "finish"} /\ ~goroutines[r].existing

\* LeaveVoice is through: the job is over and the stop leaves its mark
StopFinish ==
  /\ stopper # NoStream
  /\ stopped' = [stopped EXCEPT ![stopper] = currentEpoch]
  /\ ended' = [ended EXCEPT ![stopper] =
       IF RealJoinUnderWay THEN 0 ELSE currentEpoch]
  /\ current' = NoStream
  /\ stopping' = FALSE
  /\ stopper' = NoStream
  /\ UNCHANGED <<currentEpoch, generation, config, pending, retry,
                 refreshed, targets, lock, starter, joins, goroutines, inputs>>

DiscordDisconnected ==
  /\ Input
  /\ CancelAll
  /\ generation' = generation + 1
  /\ UNCHANGED <<current, currentEpoch, stopping, config, pending,
                 stopped, refreshed, targets, lock, handlers, joins,
                 goroutines, ended>>

-----------------------------------------------------------------------------
(* VoiceUserJoined, called for each target by a Gateway callback, by the   *)
(* sync of a refresh and by the goroutine of a stale start.                *)

Return(o) == joins' = [joins EXCEPT
  ![o].pc = "next", ![o].target = NoTarget, ![o].stream = NoStream]

JoinStays == UNCHANGED <<job, config, targets, lock, handlers, ended,
                         inputs>>

\* autoStartAuthorityCurrent: only targets that are still selected go on
JoinNext(o) ==
  /\ joins[o].pc = "next"
  /\ IF joins[o].todo = {}
       THEN /\ joins' = [joins EXCEPT ![o] = NoJoin]
            /\ goroutines' = IF o \in Reservations
                 THEN [goroutines EXCEPT ![o].pc = "finish"] ELSE goroutines
       ELSE \E t \in joins[o].todo :
              /\ joins' = [joins EXCEPT ![o].todo = @ \ {t},
                   ![o].target = IF t \in targets THEN t ELSE NoTarget,
                   ![o].pc = IF t \in targets THEN "enter" ELSE "next"]
              /\ UNCHANGED goroutines
  /\ UNCHANGED <<starts, refreshed>>
  /\ JoinStays

\* The first section: ignore the event, ask for a refresh or go on
JoinEnter(o) ==
  /\ joins[o].pc = "enter"
  /\ \/ /\ current # NoStream
        /\ Return(o)
        /\ UNCHANGED refreshed
     \/ /\ current = NoStream
        /\ Matching = NoStream /\ ~refreshed
        /\ joins' = [joins EXCEPT ![o].pc = "mutex"]
        /\ refreshed' = TRUE
     \/ /\ current = NoStream
        /\ Matching # NoStream \/ refreshed
        /\ joins' = [joins EXCEPT ![o].pc = "decide", ![o].stream = Matching]
        /\ UNCHANGED refreshed
  /\ UNCHANGED <<starts, goroutines>>
  /\ JoinStays

\* The event is of another assignment, or only of somebody who stayed in the
\* channel of a stopped stream
Ignored(s, o) ==
  \/ ~Authorized(s, joins[o].target)
  \/ stopped[s] # NoMark /\ joins[o].existing

\* The second section, for the stream found: a real join removes the mark of a
\* stop, and a start is requested unless one is already or was just before
Decide(s, o) ==
  LET marked == stopped[s] # NoMark
  IN  IF Ignored(s, o) THEN UNCHANGED <<starts, goroutines>>
      ELSE /\ stopped' = [stopped EXCEPT ![s] = NoMark]
           /\ \/ /\ \/ retry[s] # NoReservation
                    \/ pending[s] = "fresh" /\ ~marked
                 /\ pending' = [pending EXCEPT ![s] =
                      IF marked THEN "none" ELSE @]
                 /\ UNCHANGED <<retry, goroutines>>
              \/ /\ retry[s] = NoReservation
                 /\ pending[s] # "fresh" \/ marked
                 /\ pending' = [pending EXCEPT ![s] = "fresh"]
                 /\ \E r \in Reservations :
                      /\ goroutines[r].pc = "none"
                      /\ retry' = [retry EXCEPT ![s] = r]
                      /\ goroutines' = [goroutines EXCEPT ![r] =
                           [Gone EXCEPT !.pc = "check", !.gen = generation,
                              !.target = joins[o].target,
                              !.existing = joins[o].existing]]

JoinDecide(o) ==
  /\ joins[o].pc = "decide"
  /\ Decide(joins[o].stream, o)
  /\ Return(o)
  /\ UNCHANGED refreshed
  /\ JoinStays

\* After its refresh, the stream is looked up again
JoinAgain(o) ==
  /\ joins[o].pc = "again"
  /\ IF current # NoStream THEN UNCHANGED <<starts, goroutines>>
     ELSE Decide(Matching, o)
  /\ Return(o)
  /\ UNCHANGED refreshed
  /\ JoinStays

-----------------------------------------------------------------------------
(* The goroutine of a reservation.                                         *)

Go(r, pc) == goroutines' = [goroutines EXCEPT ![r].pc = pc]

GoStays == UNCHANGED <<job, config, refreshed, targets, lock, handlers, ended,
                       inputs>>

\* autoStartRetryStillValid: the Manager's state, then the channel as
\* AutoStartVoicePresence sees it, then the Manager's state again
GoCheck(r) ==
  /\ goroutines[r].pc = "check"
  /\ Go(r, IF StillValid(r) THEN "presence" ELSE "finish")
  /\ UNCHANGED <<starts, joins>>
  /\ GoStays

GoPresence(r, found) ==
  /\ goroutines[r].pc = "presence"
  /\ goroutines' = [goroutines EXCEPT ![r].pc = "recheck",
       ![r].seen = found /\ goroutines[r].target \in targets]
  /\ UNCHANGED <<starts, joins>>
  /\ GoStays

GoRecheck(r) ==
  LET empty == StillValid(r) /\ ~goroutines[r].seen
  IN  /\ goroutines[r].pc = "recheck"
      /\ goroutines' = [goroutines EXCEPT ![r] =
           [@ EXCEPT !.seen = FALSE,
              !.pc = IF StillValid(r) /\ ~empty THEN "request"
                     ELSE "finish"]]
      /\ retry' = IF empty THEN [retry EXCEPT ![StreamOf(r)] = NoReservation]
                  ELSE retry
      /\ pending' = IF empty THEN [pending EXCEPT ![StreamOf(r)] = "none"]
                    ELSE pending
      /\ UNCHANGED <<stopped, joins>>
      /\ GoStays

\* How the goroutine goes on after an answer of the Panel
GoOn(r, answer) ==
  IF answer \in {"busy", "transient"} /\ goroutines[r].attempt < RetryDelays
    THEN "wait"
  ELSE IF answer = "stale" /\ goroutines[r].attempt = 0 THEN "mutex"
  ELSE "finish"

\* StartStream returns, and noteAutoStartCapacityResult
StartStream(r, answer) ==
  /\ goroutines[r].pc = "request"
  /\ goroutines' = [goroutines EXCEPT
       ![r].pc = GoOn(r, answer),
       ![r].attempt = IF GoOn(r, answer) = "wait" THEN @ + 1 ELSE @,
       ![r].busy = IF Held(r) THEN answer = "busy" ELSE @]
  /\ UNCHANGED <<starts, joins>>
  /\ GoStays

\* The delay is over, or the context was cancelled
GoTimer(r) ==
  /\ goroutines[r].pc = "wait"
  /\ Go(r, "check")
  /\ UNCHANGED <<starts, joins>>
  /\ GoStays

GoCancelled(r) ==
  /\ goroutines[r].pc = "wait"
  /\ ~Held(r)
  /\ Go(r, "finish")
  /\ UNCHANGED <<starts, joins>>
  /\ GoStays

\* After a stale start and a refresh: with a successor, the event is
\* evaluated once more
GoSuccessor(r) ==
  LET successor == IF current = NoStream THEN Matching ELSE NoStream
  IN  /\ goroutines[r].pc = "successor"
      /\ IF successor \in {NoStream, StreamOf(r)}
           THEN Go(r, "finish") /\ UNCHANGED joins
           ELSE /\ Go(r, "reenter")
                /\ joins' = [joins EXCEPT ![r] =
                     [NoJoin EXCEPT !.pc = "enter",
                        !.target = goroutines[r].target,
                        !.existing = goroutines[r].existing]]
      /\ UNCHANGED <<starts>>
      /\ GoStays

\* Mutated form of Forget: the entry of a busy Panel is left behind
ForgetIdle(r) ==
  retry' = IF Held(r) /\ ~goroutines[r].busy
             THEN [retry EXCEPT ![StreamOf(r)] = NoReservation] ELSE retry

Forget(r) ==
  retry' = IF Held(r) THEN [retry EXCEPT ![StreamOf(r)] = NoReservation]
           ELSE retry

\* finishAutoStartRetry
GoFinish(r) ==
  /\ goroutines[r].pc = "finish"
  /\ Forget(r)
  /\ pending' = IF Held(r) /\ goroutines[r].busy /\ current = NoStream
                  THEN [pending EXCEPT ![StreamOf(r)] = "none"] ELSE pending
  /\ goroutines' = [goroutines EXCEPT ![r] = Gone]
  /\ UNCHANGED <<stopped, joins>>
  /\ GoStays

-----------------------------------------------------------------------------
(* Discord and the clock.                                                  *)

Elsewhere == UNCHANGED <<job, config, stopped, retry, lock, handlers,
                         goroutines, targets>>

\* onVoiceStateUpdate: a human enters the channel
Enters(c) ==
  /\ Input
  /\ joins[c].pc = "none"
  /\ joins' = [joins EXCEPT ![c] =
       [NoJoin EXCEPT !.pc = "next", !.todo = targets]]
  /\ ended' = Nothing
  /\ UNCHANGED <<pending, refreshed>>
  /\ Elsewhere

\* onReady, onGatewayResumed, onGuildCreate: syncAutoStartVoiceMembers finds
\* humans
Resyncs(c) ==
  /\ Input
  /\ joins[c].pc = "none"
  /\ joins' = [joins EXCEPT ![c] =
       [NoJoin EXCEPT !.pc = "next", !.todo = targets, !.existing = TRUE]]
  /\ UNCHANGED <<pending, refreshed, ended>>
  /\ Elsewhere

\* autoStartCooldown and autoStartRefreshWait run out
CooldownEnds(s) ==
  /\ pending[s] = "fresh"
  /\ pending' = [pending EXCEPT ![s] = "old"]
  /\ UNCHANGED <<refreshed, joins, ended, inputs>>
  /\ Elsewhere

RefreshWaitEnds ==
  /\ refreshed
  /\ refreshed' = FALSE
  /\ UNCHANGED <<pending, joins, ended, inputs>>
  /\ Elsewhere

-----------------------------------------------------------------------------
Answers == {"accepted", "busy", "transient", "stale", "refused"}

RefreshStep ==
  \/ \E o \in Owners : JoinRefresh(o) \/ JoinRefreshFails(o)
  \/ \E r \in Reservations : StaleRefresh(r) \/ StaleRefreshFails(r)
  \/ Apply \/ Refuse
  \/ \E found \in BOOLEAN : SetTargets(found)
  \/ Synced

HandlerStep == StartBegin \/ StartRefused \/ JoinVoiceFails \/ StartCommit
                 \/ StopFails \/ StopFinish

JoinStep(o) == JoinNext(o) \/ JoinEnter(o) \/ JoinDecide(o) \/ JoinAgain(o)

GoStep(r) ==
  \/ GoCheck(r)
  \/ \E found \in BOOLEAN : GoPresence(r, found)
  \/ GoRecheck(r)
  \/ \E answer \in Answers : StartStream(r, answer)
  \/ GoTimer(r) \/ GoCancelled(r) \/ GoSuccessor(r) \/ GoFinish(r)

Outside ==
  \/ LoopTick \/ StopBegin \/ StopRefused
  \/ DiscordDisconnected \/ RefreshWaitEnds
  \/ \E s \in Streams : StartRequest(s) \/ CooldownEnds(s)
  \/ \E c \in Callbacks : Enters(c) \/ Resyncs(c)

Next ==
  \/ RefreshStep
  \/ HandlerStep
  \/ \E o \in Owners : JoinStep(o)
  \/ \E r \in Reservations : GoStep(r)
  \/ Outside

Spec == Init /\ [][Next]_vars

-----------------------------------------------------------------------------
(* Properties.                                                             *)

MaybeStream == Streams \cup {NoStream}

\* Every variable holds values of the kind the program keeps there
TypeOK ==
  /\ newest \in [Streams -> 0..MaxEpoch]
  /\ current \in MaybeStream
  /\ currentEpoch \in 0..MaxEpoch
  /\ stopping \in BOOLEAN
  /\ generation \in Nat
  /\ defaults \in [Streams -> 0..MaxEpoch]
  /\ lastDefaults \in [Streams -> 0..MaxEpoch]
  /\ execution \in SUBSET Streams
  /\ pending \in [Streams -> {"none", "fresh", "old"}]
  /\ stopped \in [Streams -> 0..MaxEpoch \cup {NoMark}]
  /\ retry \in [Streams -> Reservations \cup {NoReservation}]
  /\ refreshed \in BOOLEAN
  /\ targets \in SUBSET Target
  /\ holder \in Holders \cup {NoOne}
  /\ refresh \in {"idle", "fetched", "targets", "refused", "sync",
                  "syncRefused"}
  /\ starter \in [pc : {"none", "join"}, stream : MaybeStream,
                  epoch : 0..MaxEpoch]
  /\ stopper \in MaybeStream
  /\ joins \in
       [Owners ->
         [pc : {"none", "next", "enter", "mutex", "refreshing", "again",
                "decide"},
          todo : SUBSET Target, target : Target \cup {NoTarget},
          existing : BOOLEAN, stream : MaybeStream]]
  /\ goroutines \in
       [Reservations ->
         [pc : {"none", "check", "presence", "recheck", "request", "wait",
                "mutex", "refreshing", "successor", "reenter", "finish"},
          target : Target \cup {NoTarget}, existing : BOOLEAN, gen : Nat,
          attempt : 0..RetryDelays, seen : BOOLEAN, busy : BOOLEAN]]
  /\ ended \in [Streams -> 0..MaxEpoch]
  /\ inputs \in 0..MaxInputs

\* An entry of autoStartRetries belongs to a goroutine that is still running
\* for that stream, so that no entry is left to hold back every later join
ReservationLive ==
  \A s \in Streams : retry[s] # NoReservation =>
    /\ goroutines[retry[s]].pc # "none"
    /\ StreamOf(retry[s]) = s

\* Between its check of the Manager's state and its end, a goroutine that was
\* not cancelled acts for the epoch that is projected now, with no job and no
\* disconnect since: every Start, Stop, disconnect and projection that changes
\* this cancels it.  Before the check it need not hold: VoiceUserJoined may
\* reserve after a Start that came between its two sections
HeldIsCurrent ==
  \A r \in Reservations :
    Held(r) /\ goroutines[r].pc \notin {"check", "finish"} =>
      /\ current = NoStream
      /\ generation = goroutines[r].gen
      /\ defaults[StreamOf(r)] = goroutines[r].target.epoch

\* r is the reservation of s, made because somebody was found in the channel
ByPresence(r, s) ==
  /\ Held(r)
  /\ StreamOf(r) = s
  /\ goroutines[r].existing

\* Once a stop has left its mark, no start is reserved because somebody is
\* still in the channel, whatever was projected meanwhile: only a real join or
\* another epoch starts the stream again
RestartNeedsJoin ==
  [][\A r \in Reservations, s \in Streams :
       ByPresence(r, s)' /\ ~ByPresence(r, s) =>
         ended[s] # goroutines'[r].target.epoch]_vars

\* The member sync of a refresh never waits for the lock that its own
\* goroutine holds for the refresh
NoSelfWait == joins[Sync].pc # "mutex"
=============================================================================
