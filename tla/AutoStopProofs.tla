--------------------------- MODULE AutoStopProofs ---------------------------
(***************************************************************************)
(* Theorems about AutoStop, for any set of streams, any retry limits and   *)
(* any number of requests and events, overlapping or not.                  *)
(***************************************************************************)
EXTENDS AutoStop, TLAPS

-----------------------------------------------------------------------------
(* Type correctness.                                                       *)

\* Cancelling marks requests and changes nothing else of a goroutine.
LEMMA CancelMembers ==
  ASSUME NEW ws \in SUBSET Watcher, NEW s \in Streams,
         NEW x \in CancelRequest(ws, s)
  PROVE  \E w \in ws :
           \/ /\ x = w
              /\ ~(w.stream = s /\ w.gen = autoStopInFlight[s])
           \/ /\ x = [w EXCEPT !.cancelled = TRUE]
              /\ w.stream = s /\ w.gen = autoStopInFlight[s]
  BY DEF CancelRequest

\* A goroutine whose request is not the one in flight stays as it is.
LEMMA CancelKeeps ==
  ASSUME NEW ws \in SUBSET Watcher, NEW s \in Streams, NEW w \in ws,
         ~(w.stream = s /\ w.gen = autoStopInFlight[s])
  PROVE  w \in CancelRequest(ws, s)
  BY DEF CancelRequest

\* cancelAutoStopLocked keeps the types.
LEMMA CancelTypes ==
  ASSUME MapTypes, NEW s \in Streams, NEW ws \in SUBSET Watcher, Cancel(s, ws)
  PROVE  MapTypes' /\ watchers' \in SUBSET Watcher
  <1>1. ASSUME NEW x \in CancelRequest(ws, s) PROVE x \in Watcher
    <2>1. PICK w \in ws : x = w \/ x = [w EXCEPT !.cancelled = TRUE]
      BY CancelMembers
    <2>2. QED
      BY <2>1 DEF Watcher
  <1>2. 0 \in 0..RetryDelays
    BY AutoStopAssumption
  <1>3. QED
    BY <1>1, <1>2 DEF Cancel, Invalidate, MapTypes

\* recordAutoStopRejoinIntentLocked keeps the types.
LEMMA RecordTypes ==
  ASSUME RejoinTypes, NEW s \in Streams, RecordIntent(s)
  PROVE  /\ intent' \in [source : Streams \cup {NoStream}, seq : Nat]
         /\ intentSequence' \in Nat
  BY DEF RejoinTypes, RecordIntent

\* updateAutoStopForParticipantSetLocked keeps the types.
LEMMA UpdateTypes ==
  ASSUME MapTypes, RejoinTypes, current \in Streams,
         NEW ws \in SUBSET Watcher, NEW occ \in BOOLEAN,
         UpdateAutoStop(occ, ws)
  PROVE  /\ MapTypes'
         /\ watchers' \in SUBSET Watcher
         /\ intent' \in [source : Streams \cup {NoStream}, seq : Nat]
         /\ intentSequence' \in Nat
  <1>1. CASE occ
    <2>1. Cancel(current, ws)
      BY <1>1, Zenon DEF UpdateAutoStop
    <2>2. RecordIntent(current) \/ UNCHANGED <<intent, intentSequence>>
      BY <1>1, Zenon DEF UpdateAutoStop
    <2>3. QED
      BY <2>1, <2>2, CancelTypes, RecordTypes DEF RejoinTypes
  <1>2. CASE ~occ /\ (autoStopPending[current] \/ cooling[current])
    <2>1. watchers' = ws /\ UNCHANGED <<maps, intent, intentSequence>>
      BY <1>2, Zenon DEF UpdateAutoStop
    <2>2. QED
      BY <2>1 DEF RejoinTypes, MapTypes, maps
  <1>3. CASE ~occ /\ ~autoStopPending[current] /\ ~cooling[current]
    <2>1. /\ autoStopPending' = [autoStopPending EXCEPT ![current] = TRUE]
          /\ autoStopGeneration' =
               [autoStopGeneration EXCEPT ![current] = @ + 1]
          /\ autoStopAttempts' = [autoStopAttempts EXCEPT ![current] = 0]
          /\ watchers' = ws \cup {NewWatcher(current)}
          /\ UNCHANGED <<cooling, autoStopInFlight, intent, intentSequence>>
      BY <1>3, Zenon DEF UpdateAutoStop
    <2>2. NewWatcher(current) \in Watcher
      BY DEF NewWatcher, Watcher, WatcherPcs, MapTypes
    <2>3. 0 \in 0..RetryDelays
      BY AutoStopAssumption
    <2>4. QED
      BY <2>1, <2>2, <2>3 DEF MapTypes, RejoinTypes
  <1>4. QED
    BY <1>1, <1>2, <1>3

\* A new Manager has the types of TypeOK.
THEOREM InitTypeOK == Init => TypeOK
  <1> SUFFICES ASSUME Init PROVE TypeOK
    OBVIOUS
  <1>1. /\ stopping \in BOOLEAN
        /\ disconnected \in BOOLEAN
        /\ occupied \in BOOLEAN
    BY Zenon DEF Init
  <1>2. QED
    BY <1>1, AutoStopAssumption
       DEF Init, TypeOK, JobTypes, MapTypes, RejoinTypes, NoIntent, NoRun

\* The join that meets a request in flight keeps the types.
LEMMA KeepsTypes ==
  ASSUME TypeOK, KeepsIntent
  PROVE  /\ MapTypes'
         /\ watchers' \in SUBSET Watcher
         /\ intent' \in [source : Streams \cup {NoStream}, seq : Nat]
         /\ intentSequence' \in Nat
  <1>1. CASE current # NoStream /\ RecordIntent(current)
             /\ Cancel(current, watchers)
    BY <1>1, CancelTypes, RecordTypes DEF TypeOK, JobTypes
  <1>2. CASE /\ \E s \in Streams : InFlightStream(s) /\ RecordIntent(s)
             /\ UNCHANGED <<maps, watchers>>
    BY <1>2, RecordTypes DEF TypeOK, MapTypes, maps
  <1>3. QED
    BY <1>1, <1>2, Zenon DEF KeepsIntent

\* A round that is counted was one of the rounds there are.
LEMMA NextRoundTypes ==
  ASSUME RejoinTypes, NEW s \in Streams, reconcilers[s].pc = "refresh",
         NextRound(s), UNCHANGED <<intent, intentSequence>>
  PROVE  RejoinTypes'
  <1> DEFINE Run == [pc : {"none", "wait", "refresh", "join", "end"},
                     round : 0..(ReconcileRounds + 1), seq : Nat]
             r   == reconcilers[s]
             new == [r EXCEPT !.pc = "wait", !.round = r.round + 1]
  <1>1. reconcilers \in [Streams -> Run] /\ r.round <= ReconcileRounds
    BY DEF RejoinTypes
  <1>2. r \in Run /\ ReconcileRounds \in Nat
    BY <1>1, AutoStopAssumption
  <1>3. r.round + 1 \in 0..(ReconcileRounds + 1)
    BY <1>1, <1>2
  <1>4. new \in Run /\ new.pc = "wait"
    BY <1>2, <1>3
  <1>5. reconcilers' = [reconcilers EXCEPT ![s] = new]
    BY DEF NextRound
  <1> HIDE DEF new, Run, r
  <1>6. /\ reconcilers' \in [Streams -> Run]
        /\ \A t \in Streams : reconcilers'[t] = IF t = s THEN new
                                              ELSE reconcilers[t]
    BY <1>1, <1>4, <1>5
  <1>7. \A t \in Streams : reconcilers'[t].pc = "refresh" =>
                            reconcilers'[t].round <= ReconcileRounds
    BY <1>4, <1>6 DEF RejoinTypes
  <1>8. QED
    BY <1>6, <1>7 DEF RejoinTypes, Run

\* Every critical section keeps them.
THEOREM NextTypeOK == TypeOK /\ [Next]_vars => TypeOK'
  <1> SUFFICES ASSUME TypeOK, [Next]_vars PROVE TypeOK'
    OBVIOUS
  <1> USE DEF TypeOK
  <1>a. UNCHANGED <<job, calls, inputs>> => JobTypes'
    BY DEF JobTypes, job, calls
  <1>b. UNCHANGED maps => MapTypes'
    BY DEF MapTypes, maps
  <1>c. UNCHANGED rejoin => RejoinTypes'
    BY DEF RejoinTypes, rejoin
  <1>d. ASSUME NEW w \in watchers
        PROVE  /\ Others(w) \in SUBSET Watcher
               /\ w.stream \in Streams
               /\ End(w) => watchers' \in SUBSET Watcher
               /\ \A pc \in WatcherPcs :
                    GoOn(w, pc) => watchers' \in SUBSET Watcher
    BY DEF Others, End, GoOn, Watcher
  <1>e. ASSUME NEW s \in Streams, NEW g, Finish(s, g) PROVE MapTypes'
    <2>1. 0 \in 0..RetryDelays
      BY AutoStopAssumption
    <2>2. autoStopPending' \in [Streams -> BOOLEAN]
      BY <1>e DEF Finish, MapTypes
    <2>3. autoStopAttempts' \in [Streams -> 0..RetryDelays]
      BY <1>e, <2>1 DEF Finish, MapTypes
    <2>4. autoStopInFlight' \in [Streams -> Nat]
      BY <1>e DEF Finish, MapTypes
    <2>5. QED
      BY <1>e, <2>2, <2>3, <2>4 DEF Finish, MapTypes
  <1>1. ASSUME NEW s \in Streams, StartBegin(s) PROVE TypeOK'
    BY <1>1, <1>c, CancelTypes DEF StartBegin, Input, JobTypes, job
  <1>2. CASE StartFails
    BY <1>2, <1>b, <1>c DEF StartFails, JobTypes, job
  <1>3. CASE StartCommit
    <2>1. stopping' \in BOOLEAN /\ disconnected' \in BOOLEAN
          /\ occupied' \in BOOLEAN
      BY <1>3, Zenon DEF StartCommit
    <2>2. QED
      BY <1>3, <2>1, <1>b, <1>c DEF StartCommit, JobTypes
  <1>4. CASE StopBegin
    <2>1. stopping' \in BOOLEAN
      BY <1>4, Zenon DEF StopBegin
    <2>2. MapTypes'
      BY <1>4, AutoStopAssumption DEF StopBegin, Invalidate, MapTypes, JobTypes
    <2>3. QED
      BY <1>4, <2>1, <2>2, <1>c DEF StopBegin, Input, JobTypes
  <1>5. CASE StopFails
    <2>1. stopping' \in BOOLEAN
      BY <1>5, Zenon DEF StopFails
    <2>2. QED
      BY <1>5, <2>1, <1>b, <1>c DEF StopFails, JobTypes
  <1>6. CASE StopFinish
    <2>1. stopping' \in BOOLEAN /\ occupied' \in BOOLEAN
      BY <1>6, Zenon DEF StopFinish
    <2>2. QED
      BY <1>6, <2>1, <1>b, <1>c DEF StopFinish, JobTypes
  <1>7. CASE DiscordDisconnected
    <2>1. disconnected' \in BOOLEAN
      BY <1>7, Zenon DEF DiscordDisconnected
    <2>2. QED
      BY <1>7, <2>1, <1>b, <1>c DEF DiscordDisconnected, Input, JobTypes, calls
  <1>8. CASE DiscordConnected
    <2>1. disconnected' \in BOOLEAN
      BY <1>8, Zenon DEF DiscordConnected
    <2>2. QED
      BY <1>8, <2>1, <1>b, <1>c DEF DiscordConnected, JobTypes, calls
  <1>9. ASSUME NEW occ \in BOOLEAN, ParticipantsChanged(occ) PROVE TypeOK'
    BY <1>9, UpdateTypes
       DEF ParticipantsChanged, Input, JobTypes, RejoinTypes, calls
  <1>10. CASE VoiceUserJoined
    BY <1>10, KeepsTypes DEF VoiceUserJoined, Input, JobTypes, RejoinTypes,
                             job, calls
  <1>11. ASSUME NEW s \in Streams, Cooled(s) PROVE TypeOK'
    <2>1. cooling' \in [Streams -> BOOLEAN]
      BY <1>11 DEF Cooled, MapTypes
    <2>2. QED
      BY <1>11, <2>1, <1>a, <1>c DEF Cooled, MapTypes
  <1>12. ASSUME NEW w \in watchers, WatcherStep(w) PROVE TypeOK'
    <2>1. CASE Fires(w)
      <3>1. watchers' \in SUBSET Watcher
        <4>1. [w EXCEPT !.pc = "read", !.rg = reconnectGeneration] \in Watcher
          BY DEF JobTypes, Watcher, WatcherPcs
        <4>2. QED
          BY <2>1, <4>1, <1>d DEF Fires
      <3>2. QED
        BY <2>1, <3>1, <1>a, <1>b, <1>c DEF Fires
    <2>2. CASE Reads(w)
      BY <2>2, <1>a, <1>b, <1>c, <1>d DEF Reads, WatcherPcs
    <2>3. CASE Syncs(w)
      <3>1. Others(w) \cup {[w EXCEPT !.pc = "cancel"]} \in SUBSET Watcher
        BY <1>d DEF Watcher, WatcherPcs
      <3>2. CASE GoOn(w, "cancel") /\ UNCHANGED <<occupied, maps, rejoin>>
        BY <2>3, <3>2, <1>b, <1>c, <1>d
           DEF Syncs, JobTypes, WatcherPcs, calls
      <3>3. CASE /\ current = w.stream /\ occupied' = TRUE
                 /\ UpdateAutoStop(TRUE,
                      Others(w) \cup {[w EXCEPT !.pc = "cancel"]})
                 /\ UNCHANGED reconcilers
        <4>1. occupied' \in BOOLEAN
          BY <3>3, Zenon
        <4>2. QED
          BY <2>3, <3>1, <3>3, <4>1, <1>d, UpdateTypes
             DEF Syncs, JobTypes, RejoinTypes, calls
      <3>4. QED
        BY <2>3, <3>2, <3>3, Zenon DEF Syncs
    <2>4. CASE Cancels(w)
      BY <2>4, <1>a, <1>b, <1>c, <1>d, CancelTypes DEF Cancels
    <2>5. CASE FindsEmpty(w)
      <3>1. watchers' \in SUBSET Watcher
        <4>1. [w EXCEPT !.pc = IF w.passed THEN "send" ELSE "wait",
                        !.passed = TRUE] \in Watcher
          BY DEF Watcher, WatcherPcs
        <4>2. QED
          BY <2>5, <4>1, <1>d DEF FindsEmpty
      <3>2. QED
        BY <2>5, <3>1, <1>a, <1>b, <1>c DEF FindsEmpty
    <2>6. CASE Confirmed(w)
      <3>1. cooling' \in [Streams -> BOOLEAN]
        BY <2>6 DEF Confirmed, MapTypes
      <3>2. autoStopInFlight' \in [Streams -> Nat]
        BY <2>6 DEF Confirmed, MapTypes, Watcher
      <3>3. watchers' \in SUBSET Watcher
        BY <2>6, <1>d DEF Confirmed, WatcherPcs
      <3>4. QED
        BY <2>6, <3>1, <3>2, <3>3, <1>a, <1>c DEF Confirmed, MapTypes
    <2>7. ASSUME NEW result \in {"ok", "retry"}, Answered(w, result)
          PROVE  TypeOK'
      BY <2>7, <1>a, <1>c, <1>d DEF Answered, MapTypes, WatcherPcs
    <2>8. CASE Schedules(w)
      <3>1. RejoinTypes'
        BY <2>8, <1>d, AutoStopAssumption DEF Schedules, RejoinTypes
      <3>2. QED
        BY <2>8, <3>1, <1>a, <1>b, <1>d DEF Schedules
    <2>9. CASE Finishes(w)
      BY <2>9, <1>a, <1>c, <1>d, <1>e DEF Finishes
    <2>10. CASE Retry(w)
      <3>1. watchers' \in SUBSET Watcher
        BY <2>10, <1>d DEF Retry, WatcherPcs
      <3>2. MapTypes'
        <4>1. CASE Finish(w.stream, w.gen)
          BY <4>1, <1>d, <1>e
        <4>2. CASE UNCHANGED maps
          BY <4>2, <1>b
        <4>3. CASE /\ autoStopAttempts[w.stream] < RetryDelays
                   /\ autoStopAttempts' =
                        [autoStopAttempts EXCEPT ![w.stream] = @ + 1]
                   /\ UNCHANGED <<autoStopPending, autoStopGeneration, cooling,
                                  autoStopInFlight>>
          BY <4>3, <1>d, AutoStopAssumption DEF MapTypes
        <4>4. QED
          BY <2>10, <4>1, <4>2, <4>3, Zenon DEF Retry
      <3>3. QED
        BY <2>10, <3>1, <3>2, <1>a, <1>c DEF Retry
    <2>11. QED
      BY <1>12, <2>1, <2>2, <2>3, <2>4, <2>5, <2>6, <2>7, <2>8, <2>9, <2>10
         DEF WatcherStep
  <1>13. ASSUME NEW s \in Streams, ReconcileStep(s) PROVE TypeOK'
    <2>1. CASE ReconcileReads(s)
      BY <2>1, <1>a, <1>b DEF ReconcileReads, GoTo, RejoinTypes
    <2>2. CASE ReconcileAgain(s)
      <3>1. RejoinTypes'
        BY <2>2, NextRoundTypes DEF ReconcileAgain
      <3>2. QED
        BY <2>2, <3>1, <1>a, <1>b DEF ReconcileAgain
    <2>3. CASE ReconcileChecks(s)
      <3>1. CASE NextRound(s) /\ UNCHANGED intent
        <4>1. RejoinTypes'
          BY <2>3, <3>1, NextRoundTypes DEF ReconcileChecks
        <4>2. QED
          BY <2>3, <4>1, <1>a, <1>b DEF ReconcileChecks
      <3>2. CASE ~(NextRound(s) /\ UNCHANGED intent)
        BY <2>3, <3>2, <1>a, <1>b
           DEF ReconcileChecks, GoTo, NoIntent, RejoinTypes
      <3>3. QED
        BY <3>1, <3>2
    <2>4. CASE ReconcileJoins(s)
      BY <2>4, <1>a, <1>b, KeepsTypes DEF ReconcileJoins, GoTo, RejoinTypes
    <2>5. CASE ReconcileGivesUp(s)
      BY <2>5, <1>a, <1>b DEF ReconcileGivesUp, GoTo, NoIntent, RejoinTypes
    <2>6. CASE ReconcileEnds(s)
      <3>1. NoRun \in [pc : {"none", "wait", "refresh", "join", "end"},
                        round : 0..(ReconcileRounds + 1), seq : Nat]
        BY AutoStopAssumption DEF NoRun
      <3>2. NoRun.pc # "refresh"
        BY DEF NoRun
      <3>3. QED
        BY <2>6, <3>1, <3>2, <1>a, <1>b DEF ReconcileEnds, RejoinTypes
    <2>7. QED
      BY <1>13, <2>1, <2>2, <2>3, <2>4, <2>5, <2>6 DEF ReconcileStep
  <1>14. CASE UNCHANGED vars
    BY <1>14, <1>a, <1>b, <1>c DEF vars
  <1>15. QED
    BY <1>1, <1>2, <1>3, <1>4, <1>5, <1>6, <1>7, <1>8, <1>9, <1>10, <1>11,
       <1>12, <1>13, <1>14 DEF Next

\* Every state of the automatic stop has its types: retries and reconciliation
\* rounds stay within the limits the Manager was built with.
THEOREM TypeCorrect == Spec => []TypeOK
  BY InitTypeOK, NextTypeOK, PTL DEF Spec

-----------------------------------------------------------------------------
(* Countdowns and requests.                                                *)

\* The conjuncts of IInv other than the types, for the goroutines ws.
OneCountdownOf(ws) ==
  \A v, w \in ws :
    /\ w.gen <= autoStopGeneration[w.stream]
    /\ v.stream = w.stream /\ v.gen = w.gen => v = w

StagesOf(ws) ==
  \A w \in ws :
    /\ w.pc \in {"send", "request", "schedule", "ok", "retry"} => w.passed
    /\ w.cancelled => /\ w.pc \in {"request", "schedule"}
                      /\ w.gen < autoStopGeneration[w.stream]

LiveOf(ws) ==
  \A w \in ws :
    w.pc = "request" /\ w.gen = autoStopGeneration[w.stream] =>
      /\ w.passed
      /\ current = w.stream => ~occupied
      /\ autoStopPending[w.stream]

FlightOf(ws) ==
  \A s \in Streams : autoStopInFlight[s] # 0 =>
    \E w \in ws : /\ w.stream = s /\ w.pc = "request"
                  /\ w.gen = autoStopInFlight[s] /\ ~w.cancelled

CountdownsOf(ws) ==
  /\ ws \in SUBSET Watcher
  /\ OneCountdownOf(ws)
  /\ StagesOf(ws)
  /\ LiveOf(ws)
  /\ FlightOf(ws)

\* The inductive invariant, with the goroutines as a parameter.
LEMMA Unfold == IInv <=> TypeOK /\ CountdownsOf(watchers)
  <1>1. TypeOK => watchers \in SUBSET Watcher
    BY DEF TypeOK
  <1>2. OneCountdown <=> OneCountdownOf(watchers)
    BY DEF OneCountdown, OneCountdownOf
  <1>3. Stages <=> StagesOf(watchers)
    BY DEF Stages, StagesOf
  <1>4. TypeOK => (LiveRequestIsForEmpty <=> LiveOf(watchers))
    BY DEF LiveRequestIsForEmpty, LiveOf, Outstanding, TypeOK, Watcher
  <1>5. InFlightIsOutstanding <=> FlightOf(watchers)
    BY DEF InFlightIsOutstanding, FlightOf, Outstanding
  <1>6. QED
    BY <1>1, <1>2, <1>3, <1>4, <1>5 DEF IInv, CountdownsOf

\* A goroutine that is not inside its request may end or go on.
LEMMA Moves ==
  ASSUME TypeOK, CountdownsOf(watchers), NEW w \in watchers, w.pc # "request",
         NEW x \in Watcher, x.stream = w.stream, x.gen = w.gen,
         x.cancelled = w.cancelled, x.pc # "request",
         x.pc \in {"send", "schedule", "ok", "retry"} => x.passed,
         w.cancelled => x.pc = "schedule"
  PROVE  /\ CountdownsOf(Others(w))
         /\ CountdownsOf(Others(w) \cup {x})
  <1> USE DEF CountdownsOf
  <1>1. /\ OneCountdownOf(Others(w))
        /\ OneCountdownOf(Others(w) \cup {x})
    BY DEF OneCountdownOf, Others
  <1>2. /\ StagesOf(Others(w))
        /\ StagesOf(Others(w) \cup {x})
    BY DEF StagesOf, Others
  <1>3. /\ LiveOf(Others(w))
        /\ LiveOf(Others(w) \cup {x})
    BY DEF LiveOf, Others
  <1>4. /\ FlightOf(Others(w))
        /\ FlightOf(Others(w) \cup {x})
    BY DEF FlightOf, Others
  <1>5. QED
    BY <1>1, <1>2, <1>3, <1>4 DEF Others

\* cancelAutoStopLocked, whether or not participants came back.
LEMMA CancelCountdowns ==
  ASSUME TypeOK, NEW ws, CountdownsOf(ws), NEW s \in Streams, Cancel(s, ws),
         current' = current, occupied' = occupied \/ current = s
  PROVE  CountdownsOf(watchers)'
  <1> USE DEF CountdownsOf, TypeOK
  <1>1. \A t \in Streams : autoStopGeneration'[t] =
          IF t = s THEN autoStopGeneration[t] + 1 ELSE autoStopGeneration[t]
    BY DEF Cancel, Invalidate, MapTypes
  <1>2. \A t \in Streams : autoStopInFlight'[t] =
          IF t = s THEN 0 ELSE autoStopInFlight[t]
    BY DEF Cancel, MapTypes
  <1>3. watchers' = CancelRequest(ws, s) /\ watchers' \in SUBSET Watcher
    BY CancelTypes DEF Cancel
  <1>a. ws \in SUBSET Watcher
    OBVIOUS
  <1>b. \A x \in watchers' : \E w \in ws :
          \/ /\ x = w
             /\ ~(w.stream = s /\ w.gen = autoStopInFlight[s])
          \/ /\ x = [w EXCEPT !.cancelled = TRUE]
             /\ w.stream = s /\ w.gen = autoStopInFlight[s]
    <2>1. \A x \in CancelRequest(ws, s) : \E w \in ws :
            \/ /\ x = w
               /\ ~(w.stream = s /\ w.gen = autoStopInFlight[s])
            \/ /\ x = [w EXCEPT !.cancelled = TRUE]
               /\ w.stream = s /\ w.gen = autoStopInFlight[s]
      BY <1>a, CancelMembers
    <2>2. QED
      BY <1>3, <2>1, Zenon
  <1>4. ASSUME NEW x \in watchers'
        PROVE  \E w \in ws :
                 /\ x.stream = w.stream /\ x.gen = w.gen /\ x.pc = w.pc
                 /\ x.passed = w.passed
                 /\ x = w \/ /\ x = [w EXCEPT !.cancelled = TRUE]
                             /\ w.stream = s /\ w.pc = "request"
    <2>1. PICK w \in ws :
            \/ x = w
            \/ /\ x = [w EXCEPT !.cancelled = TRUE]
               /\ w.stream = s /\ w.gen = autoStopInFlight[s]
      BY <1>b
    <2>2. CASE x = w
      BY <2>2
    <2>3. CASE /\ x = [w EXCEPT !.cancelled = TRUE]
               /\ w.stream = s /\ w.gen = autoStopInFlight[s]
      <3>1. autoStopInFlight[s] # 0 /\ w \in Watcher
        BY <2>3 DEF Watcher
      <3>2. PICK v \in ws : v.stream = s /\ v.pc = "request"
                            /\ v.gen = autoStopInFlight[s]
        BY <3>1 DEF FlightOf
      <3>3. v = w
        BY <2>3, <3>2 DEF OneCountdownOf
      <3>4. QED
        BY <2>3, <3>1, <3>2, <3>3 DEF Watcher
    <2>4. QED
      BY <2>1, <2>2, <2>3
  <1>5. OneCountdownOf(watchers)'
    <2>1. ASSUME NEW v \in watchers', NEW w \in watchers',
                 v.stream = w.stream, v.gen = w.gen
          PROVE  v = w
      <3>1. PICK a \in ws :
              \/ v = a /\ ~(a.stream = s /\ a.gen = autoStopInFlight[s])
              \/ /\ v = [a EXCEPT !.cancelled = TRUE]
                 /\ a.stream = s /\ a.gen = autoStopInFlight[s]
        BY <1>b
      <3>2. PICK b \in ws :
              \/ w = b /\ ~(b.stream = s /\ b.gen = autoStopInFlight[s])
              \/ /\ w = [b EXCEPT !.cancelled = TRUE]
                 /\ b.stream = s /\ b.gen = autoStopInFlight[s]
        BY <1>b
      <3>3. /\ v.stream = a.stream /\ v.gen = a.gen
            /\ w.stream = b.stream /\ w.gen = b.gen
        <4>1. a \in Watcher /\ b \in Watcher
          OBVIOUS
        <4>2. QED
          BY <3>1, <3>2, <4>1 DEF Watcher
      <3>4. a = b
        BY <2>1, <3>3 DEF OneCountdownOf
      <3>5. QED
        BY <3>1, <3>2, <3>4
    <2>2. \A w \in watchers' : w.gen <= autoStopGeneration'[w.stream]
      BY <1>1, <1>4 DEF OneCountdownOf, Watcher, MapTypes
    <2>3. QED
      BY <2>1, <2>2 DEF OneCountdownOf
  <1>6. StagesOf(watchers)'
    <2> SUFFICES ASSUME NEW x \in watchers'
                 PROVE  /\ x.pc \in {"send", "request", "schedule", "ok",
                                     "retry"} => x.passed
                        /\ x.cancelled =>
                             /\ x.pc \in {"request", "schedule"}
                             /\ x.gen < autoStopGeneration'[x.stream]
      BY DEF StagesOf
    <2>1. PICK w \in ws :
            /\ x.stream = w.stream /\ x.gen = w.gen /\ x.pc = w.pc
            /\ x.passed = w.passed
            /\ x = w \/ /\ x = [w EXCEPT !.cancelled = TRUE]
                        /\ w.stream = s /\ w.pc = "request"
      BY <1>4
    <2>2. w.gen <= autoStopGeneration[w.stream] /\ w \in Watcher
      BY DEF OneCountdownOf
    <2>3. CASE x = w
      BY <1>1, <2>2, <2>3 DEF StagesOf, Watcher, MapTypes
    <2>4. CASE w.stream = s /\ w.pc = "request"
      BY <1>1, <2>1, <2>2, <2>4 DEF StagesOf, Watcher, MapTypes
    <2>5. QED
      BY <2>1, <2>3, <2>4
  <1>7. LiveOf(watchers)'
    <2> SUFFICES ASSUME NEW x \in watchers', x.pc = "request",
                        x.gen = autoStopGeneration'[x.stream]
                 PROVE  /\ x.passed
                        /\ current' = x.stream => ~occupied'
                        /\ autoStopPending'[x.stream]
      BY DEF LiveOf
    <2>1. PICK w \in ws : x.stream = w.stream /\ x.gen = w.gen /\ x.pc = w.pc
                          /\ x.passed = w.passed
      BY <1>4
    <2>2. w.gen <= autoStopGeneration[w.stream] /\ w \in Watcher
      BY DEF OneCountdownOf
    <2>3. w.stream # s
      BY <1>1, <2>1, <2>2 DEF Watcher, MapTypes
    <2>4. w.gen = autoStopGeneration[w.stream]
      BY <1>1, <2>1, <2>2, <2>3 DEF Watcher
    <2>5. autoStopPending'[w.stream] = autoStopPending[w.stream]
      BY <2>2, <2>3 DEF Cancel, Invalidate, MapTypes, Watcher
    <2>6. w.passed /\ (current = w.stream => ~occupied)
          /\ autoStopPending[w.stream]
      BY <2>1, <2>4 DEF LiveOf
    <2>7. QED
      BY <2>1, <2>3, <2>5, <2>6
  <1>8. FlightOf(watchers)'
    <2> SUFFICES ASSUME NEW t \in Streams, autoStopInFlight'[t] # 0
                 PROVE  \E w \in watchers' :
                          /\ w.stream = t /\ w.pc = "request"
                          /\ w.gen = autoStopInFlight'[t] /\ ~w.cancelled
      BY DEF FlightOf
    <2>1. t # s /\ autoStopInFlight'[t] = autoStopInFlight[t]
      BY <1>2
    <2>2. PICK w \in ws : /\ w.stream = t /\ w.pc = "request"
                          /\ w.gen = autoStopInFlight[t] /\ ~w.cancelled
      BY <2>1 DEF FlightOf
    <2>3. w \in watchers'
      BY <1>3, <2>1, <2>2, CancelKeeps
    <2>4. QED
      BY <2>1, <2>2, <2>3
  <1>9. QED
    BY <1>3, <1>5, <1>6, <1>7, <1>8

\* updateAutoStopForParticipantSetLocked, whatever set was stored.
LEMMA UpdateCountdowns ==
  ASSUME TypeOK, NEW ws, CountdownsOf(ws), NEW occ \in BOOLEAN,
         current \in Streams, UpdateAutoStop(occ, ws),
         current' = current, occupied' = occ
  PROVE  CountdownsOf(watchers)'
  <1> USE DEF CountdownsOf, TypeOK
  <1>1. CASE occ
    <2>1. Cancel(current, ws)
      BY <1>1, Zenon DEF UpdateAutoStop
    <2>2. QED
      BY <2>1, CancelCountdowns
  <1>2. CASE ~occ /\ (autoStopPending[current] \/ cooling[current])
    <2>1. watchers' = ws /\ UNCHANGED <<maps, intent, intentSequence>>
      BY <1>2, Zenon DEF UpdateAutoStop
    <2>2. QED
      BY <1>2, <2>1
         DEF maps, OneCountdownOf, StagesOf, LiveOf, FlightOf
  <1>3. CASE ~occ /\ ~autoStopPending[current] /\ ~cooling[current]
    <2>1. /\ autoStopPending' = [autoStopPending EXCEPT ![current] = TRUE]
          /\ autoStopGeneration' =
               [autoStopGeneration EXCEPT ![current] = @ + 1]
          /\ watchers' = ws \cup {NewWatcher(current)}
          /\ UNCHANGED autoStopInFlight
      BY <1>3, Zenon DEF UpdateAutoStop
    <2> DEFINE n == NewWatcher(current)
    <2>2. /\ n \in Watcher /\ n.stream = current /\ n.pc = "wait"
          /\ n.gen = autoStopGeneration[current] + 1
      BY DEF NewWatcher, Watcher, WatcherPcs, MapTypes
    <2>3. ~n.cancelled
      BY DEF NewWatcher
    <2> HIDE DEF n
    <2>4. \A t \in Streams : autoStopGeneration'[t] =
            IF t = current THEN autoStopGeneration[t] + 1
                           ELSE autoStopGeneration[t]
      BY <2>1 DEF MapTypes
    <2>5. watchers' = ws \cup {n} /\ watchers' \in SUBSET Watcher
      BY <2>1, <2>2 DEF n
    <2>6. \A w \in ws : /\ \/ w.gen < autoStopGeneration'[w.stream]
                           \/ w.stream # current
                        /\ w.gen <= autoStopGeneration'[w.stream]
      BY <2>4 DEF OneCountdownOf, Watcher, MapTypes
    <2>7. OneCountdownOf(watchers)'
      BY <2>2, <2>4, <2>5, <2>6 DEF OneCountdownOf, Watcher
    <2>8. StagesOf(watchers)'
      BY <2>2, <2>3, <2>4, <2>5, <2>6 DEF StagesOf, Watcher, MapTypes
    <2>9. LiveOf(watchers)'
      <3> SUFFICES ASSUME NEW x \in watchers', x.pc = "request",
                          x.gen = autoStopGeneration'[x.stream]
                   PROVE  /\ x.passed
                          /\ current' = x.stream => ~occupied'
                          /\ autoStopPending'[x.stream]
        BY DEF LiveOf
      <3>1. x \in ws /\ x \in Watcher
        BY <2>2, <2>5
      <3>2. x.stream # current
        BY <2>6, <3>1 DEF Watcher, MapTypes
      <3>3. /\ x.gen = autoStopGeneration[x.stream]
            /\ autoStopPending'[x.stream] = autoStopPending[x.stream]
        BY <2>1, <2>4, <3>1, <3>2 DEF Watcher, MapTypes
      <3>4. x.passed /\ autoStopPending[x.stream]
        BY <3>1, <3>3 DEF LiveOf
      <3>5. QED
        BY <3>2, <3>3, <3>4
    <2>10. FlightOf(watchers)'
      BY <2>1, <2>5 DEF FlightOf
    <2>11. QED
      BY <2>5, <2>7, <2>8, <2>9, <2>10
  <1>4. QED
    BY <1>1, <1>2, <1>3

\* A join that meets a request in flight.
LEMMA KeepsCountdowns ==
  ASSUME TypeOK, CountdownsOf(watchers), KeepsIntent, UNCHANGED job
  PROVE  CountdownsOf(watchers)'
  <1>1. CASE current # NoStream /\ Cancel(current, watchers)
    <2>1. current \in Streams /\ current' = current /\ occupied' = occupied
      BY <1>1 DEF job, TypeOK, JobTypes
    <2>2. QED
      BY <1>1, <2>1, CancelCountdowns
  <1>2. CASE UNCHANGED <<maps, watchers>>
    BY <1>2 DEF CountdownsOf, OneCountdownOf, StagesOf, LiveOf, FlightOf,
                maps, job
  <1>3. QED
    BY <1>1, <1>2, Zenon DEF KeepsIntent

\* Every critical section keeps the invariant of the countdowns and requests.
THEOREM NextCountdowns ==
  TypeOK /\ CountdownsOf(watchers) /\ [Next]_vars => CountdownsOf(watchers)'
  <1> SUFFICES ASSUME TypeOK, CountdownsOf(watchers), [Next]_vars
               PROVE  CountdownsOf(watchers)'
    OBVIOUS
  <1>a. ASSUME NEW ws, CountdownsOf(ws), watchers' = ws,
               UNCHANGED <<autoStopPending, autoStopGeneration,
                           autoStopInFlight>>,
               current' = current \/ ~occupied', occupied' => occupied
        PROVE  CountdownsOf(watchers)'
    BY <1>a DEF CountdownsOf, OneCountdownOf, StagesOf, LiveOf, FlightOf
  <1>b. ASSUME NEW ws, CountdownsOf(ws), watchers' = ws,
               UNCHANGED <<job, maps>>
        PROVE  CountdownsOf(watchers)'
    BY <1>a, <1>b DEF job, maps
  <1>1. ASSUME NEW s \in Streams, StartBegin(s) PROVE CountdownsOf(watchers)'
    BY <1>1, CancelCountdowns DEF StartBegin, job
  <1>2. CASE StartFails
    BY <1>2, <1>b DEF StartFails
  <1>3. CASE StartCommit
    BY <1>3, <1>a DEF StartCommit, maps
  <1>4. CASE StopBegin
    <2>1. current \in Streams /\ autoStopGeneration \in [Streams -> Nat]
      BY <1>4 DEF StopBegin, TypeOK, JobTypes, MapTypes
    <2>2. \A t \in Streams : autoStopGeneration'[t] =
            IF t = current THEN autoStopGeneration[t] + 1
                           ELSE autoStopGeneration[t]
      BY <1>4, <2>1 DEF StopBegin, Invalidate
    <2>3. \A t \in Streams \ {current} :
            autoStopPending'[t] = autoStopPending[t]
      BY <1>4, <2>1 DEF StopBegin, Invalidate, TypeOK, MapTypes
    <2>4. /\ UNCHANGED <<current, occupied, autoStopInFlight, watchers>>
          /\ watchers \in SUBSET Watcher
      BY <1>4 DEF StopBegin, TypeOK
    <2>5. OneCountdownOf(watchers)' /\ StagesOf(watchers)'
      BY <2>1, <2>2, <2>4
         DEF CountdownsOf, OneCountdownOf, StagesOf, Watcher
    <2>6. LiveOf(watchers)'
      BY <2>1, <2>2, <2>3, <2>4
         DEF CountdownsOf, OneCountdownOf, LiveOf, Watcher
    <2>7. FlightOf(watchers)'
      BY <2>4 DEF CountdownsOf, FlightOf
    <2>8. QED
      BY <2>4, <2>5, <2>6, <2>7 DEF CountdownsOf
  <1>5. CASE StopFails
    BY <1>5, <1>a DEF StopFails, maps
  <1>6. CASE StopFinish
    BY <1>6, <1>a DEF StopFinish, maps
  <1>7. CASE DiscordDisconnected
    BY <1>7, <1>a DEF DiscordDisconnected, maps
  <1>8. CASE DiscordConnected
    BY <1>8, <1>a DEF DiscordConnected, maps
  <1>9. ASSUME NEW occ \in BOOLEAN, ParticipantsChanged(occ)
        PROVE  CountdownsOf(watchers)'
    BY <1>9, UpdateCountdowns DEF ParticipantsChanged, TypeOK, JobTypes
  <1>10. CASE VoiceUserJoined
    BY <1>10, KeepsCountdowns DEF VoiceUserJoined
  <1>11. ASSUME NEW s \in Streams, Cooled(s) PROVE CountdownsOf(watchers)'
    BY <1>11, <1>a DEF Cooled, job
  <1>12. ASSUME NEW w \in watchers, WatcherStep(w)
         PROVE  CountdownsOf(watchers)'
    <2> w \in Watcher
      BY DEF TypeOK
    <2>a. w.cancelled => w.pc \in {"request", "schedule"}
      BY DEF CountdownsOf, StagesOf
    <2>b. w.pc \in {"send", "request", "schedule", "ok", "retry"} => w.passed
      BY DEF CountdownsOf, StagesOf
    <2>c. w.pc # "request" => CountdownsOf(Others(w))
      BY <2>a, <2>b, Moves
    <2>1. CASE Fires(w)
      <3> DEFINE x == [w EXCEPT !.pc = "read", !.rg = reconnectGeneration]
      <3>1. x \in Watcher /\ x.stream = w.stream /\ x.gen = w.gen
            /\ x.pc = "read"
        BY DEF Watcher, WatcherPcs, TypeOK, JobTypes
      <3>2. x.cancelled = w.cancelled /\ ~w.cancelled /\ w.pc # "request"
        BY <2>1, <2>a DEF Watcher, Fires
      <3>3. CountdownsOf(Others(w) \cup {x})
        BY <3>1, <3>2, Moves
      <3>4. QED
        BY <2>1, <2>c, <3>2, <3>3, <1>b DEF Fires, End
    <2>d. ASSUME NEW pc \in WatcherPcs \ {"request"}, w.pc # "request",
                 w.cancelled => pc = "schedule",
                 pc \in {"send", "schedule", "ok", "retry"} => w.passed
          PROVE  CountdownsOf(Others(w) \cup {[w EXCEPT !.pc = pc]})
      <3> DEFINE x == [w EXCEPT !.pc = pc]
      <3>1. x \in Watcher /\ x.stream = w.stream /\ x.gen = w.gen /\ x.pc = pc
        BY DEF Watcher
      <3>2. x.cancelled = w.cancelled /\ x.passed = w.passed
        BY DEF Watcher
      <3>3. QED
        BY <2>d, <3>1, <3>2, Moves
    <2>2. CASE Reads(w)
      BY <2>2, <2>a, <2>d, <1>b DEF Reads, GoOn, WatcherPcs
    <2>3. CASE Syncs(w)
      <3>1. CountdownsOf(Others(w) \cup {[w EXCEPT !.pc = "cancel"]})
        BY <2>3, <2>a, <2>d DEF Syncs, WatcherPcs
      <3>2. CASE GoOn(w, "cancel") /\ UNCHANGED <<occupied, maps, rejoin>>
        BY <2>3, <3>1, <3>2, <1>a DEF Syncs, GoOn, maps
      <3>3. CASE /\ current = w.stream /\ occupied' = TRUE
                 /\ UpdateAutoStop(TRUE,
                      Others(w) \cup {[w EXCEPT !.pc = "cancel"]})
        <4>1. current \in Streams /\ current' = current
          BY <2>3, <3>3 DEF Syncs, Watcher
        <4>2. QED
          BY <3>1, <3>3, <4>1, UpdateCountdowns
      <3>4. QED
        BY <2>3, <3>2, <3>3, Zenon DEF Syncs
    <2>4. CASE Cancels(w)
      <3>1. w.pc # "request" /\ w.stream \in Streams /\ UNCHANGED job
        BY <2>4 DEF Cancels, Watcher
      <3>2. CASE Cancel(w.stream, Others(w))
        BY <2>c, <3>1, <3>2, CancelCountdowns DEF job
      <3>3. CASE End(w) /\ UNCHANGED maps
        BY <2>c, <3>1, <3>3, <1>b DEF End
      <3>4. QED
        BY <2>4, <3>2, <3>3 DEF Cancels
    <2>5. CASE FindsEmpty(w)
      <3> DEFINE x == [w EXCEPT !.pc = IF w.passed THEN "send" ELSE "wait",
                                !.passed = TRUE]
      <3>1. x \in Watcher /\ x.stream = w.stream /\ x.gen = w.gen
            /\ x.pc \in {"send", "wait"}
        BY DEF Watcher, WatcherPcs
      <3>2. x.cancelled = w.cancelled /\ ~w.cancelled /\ w.pc # "request"
        BY <2>5, <2>a DEF Watcher, FindsEmpty
      <3>3. x.passed
        BY DEF Watcher
      <3>4. CountdownsOf(Others(w) \cup {x})
        BY <3>1, <3>2, <3>3, Moves
      <3>5. QED
        BY <2>5, <2>c, <3>2, <3>4, <1>b DEF FindsEmpty, End
    <2>6. CASE Confirmed(w)
      <3>1. CASE ~StillValidForJob(w)
        BY <2>6, <2>c, <3>1, <1>a DEF Confirmed, End, job
      <3>2. CASE StillValidForJob(w)
        <4> DEFINE x == [w EXCEPT !.pc = "request"]
        <4>1. /\ w.pc = "send" /\ watchers' = Others(w) \cup {x}
              /\ autoStopInFlight' =
                   [autoStopInFlight EXCEPT ![w.stream] = w.gen]
              /\ UNCHANGED <<current, occupied, autoStopPending,
                             autoStopGeneration>>
          BY <2>6, <3>2 DEF Confirmed, GoOn, job
        <4>2. x \in Watcher /\ x.stream = w.stream /\ x.gen = w.gen
              /\ x.pc = "request"
          BY DEF Watcher, WatcherPcs
        <4>3. x.passed = w.passed /\ w.passed /\ ~x.cancelled
          BY <2>a, <2>b, <4>1 DEF Watcher
        <4>4. /\ autoStopPending[w.stream] /\ current = w.stream /\ ~occupied
          BY <3>2 DEF StillValidForJob, StillValid
        <4> HIDE DEF x
        <4>5. OneCountdownOf(watchers)'
          BY <4>1, <4>2 DEF CountdownsOf, OneCountdownOf, Others
        <4>a. StagesOf(watchers)'
          BY <4>1, <4>2, <4>3 DEF CountdownsOf, StagesOf, Others
        <4>6. LiveOf(watchers)'
          BY <4>1, <4>2, <4>3, <4>4 DEF CountdownsOf, LiveOf, Others
        <4>7. FlightOf(watchers)'
          BY <4>1, <4>2, <4>3
             DEF CountdownsOf, FlightOf, Others, TypeOK, MapTypes, Watcher
        <4>8. watchers' \in SUBSET Watcher
          BY <4>1, <4>2 DEF Others, TypeOK
        <4>9. QED
          BY <4>5, <4>a, <4>6, <4>7, <4>8 DEF CountdownsOf
      <3>3. QED
        BY <3>1, <3>2
    <2>7. ASSUME NEW result \in {"ok", "retry"}, Answered(w, result)
          PROVE  CountdownsOf(watchers)'
      <3>1. /\ w.pc = "request"
            /\ autoStopInFlight' = [autoStopInFlight EXCEPT
                 ![w.stream] = IF @ = w.gen THEN 0 ELSE @]
            /\ UNCHANGED <<current, occupied, autoStopPending,
                           autoStopGeneration>>
        BY <2>7 DEF Answered, job
      <3>2. \A s \in Streams : autoStopInFlight'[s] # 0 =>
              \E v \in Others(w) : /\ v.stream = s /\ v.pc = "request"
                                   /\ v.gen = autoStopInFlight'[s]
                                   /\ ~v.cancelled
        BY <3>1 DEF CountdownsOf, FlightOf, Others, TypeOK, MapTypes, Watcher
      <3>3. Others(w) \in SUBSET watchers /\ Others(w) \in SUBSET Watcher
        BY DEF Others, TypeOK
      <3>4. CASE End(w)
        <4>1. watchers' = Others(w)
          BY <3>4 DEF End
        <4>2. OneCountdownOf(watchers)' /\ LiveOf(watchers)'
          BY <3>1, <3>3, <4>1 DEF CountdownsOf, OneCountdownOf, LiveOf
        <4>3. StagesOf(watchers)'
          BY <3>1, <3>3, <4>1 DEF CountdownsOf, StagesOf
        <4>4. FlightOf(watchers)'
          BY <3>2, <4>1 DEF FlightOf
        <4>5. QED
          BY <3>3, <4>1, <4>2, <4>3, <4>4 DEF CountdownsOf
      <3>5. ASSUME NEW pc \in {"schedule", "ok", "retry"},
                   w.cancelled => pc = "schedule", GoOn(w, pc)
            PROVE  CountdownsOf(watchers)'
        <4> DEFINE x == [w EXCEPT !.pc = pc]
        <4>1. x \in Watcher /\ x.stream = w.stream /\ x.gen = w.gen
              /\ x.pc = pc
          BY DEF Watcher, WatcherPcs
        <4>2. x.passed = w.passed /\ w.passed /\ x.cancelled = w.cancelled
          BY <2>b, <3>1 DEF Watcher
        <4>3. watchers' = Others(w) \cup {x} /\ watchers' \in SUBSET Watcher
          BY <3>3, <3>5, <4>1 DEF GoOn
        <4> HIDE DEF x
        <4>4. OneCountdownOf(watchers)'
          BY <3>1, <4>1, <4>3 DEF CountdownsOf, OneCountdownOf, Others
        <4>5. StagesOf(watchers)'
          <5>1. ASSUME NEW v \in Others(w)
                PROVE  /\ v.pc \in {"send", "request", "schedule", "ok",
                                    "retry"} => v.passed
                       /\ v.cancelled =>
                            /\ v.pc \in {"request", "schedule"}
                            /\ v.gen < autoStopGeneration'[v.stream]
            BY <3>1, <3>3 DEF CountdownsOf, StagesOf
          <5>2. /\ x.passed
                /\ x.cancelled => /\ x.pc = "schedule"
                                  /\ x.gen < autoStopGeneration'[x.stream]
            BY <3>1, <3>5, <4>1, <4>2 DEF CountdownsOf, StagesOf
          <5>3. QED
            BY <4>3, <5>1, <5>2 DEF StagesOf
        <4>6. LiveOf(watchers)'
          BY <3>1, <3>3, <4>1, <4>3 DEF CountdownsOf, LiveOf
        <4>7. FlightOf(watchers)'
          BY <3>2, <4>3 DEF FlightOf
        <4>8. QED
          BY <4>3, <4>4, <4>5, <4>6, <4>7 DEF CountdownsOf
      <3>6. StillValid(w.stream, w.gen) => ~w.cancelled
        BY DEF StillValid, CountdownsOf, StagesOf, TypeOK, MapTypes, Watcher
      <3>7. QED
        BY <2>7, <3>4, <3>5, <3>6 DEF Answered
    <2>8. CASE Schedules(w)
      BY <2>8, <2>c, <1>b DEF Schedules, End
    <2>e. ASSUME w.pc \in {"ok", "retry"}, Finish(w.stream, w.gen), End(w),
                 UNCHANGED job
          PROVE  CountdownsOf(watchers)'
      <3>1. CountdownsOf(Others(w)) /\ Others(w) \in SUBSET Watcher
        BY <2>c, <2>e DEF CountdownsOf
      <3>2. \A v \in Others(w) : ~(v.stream = w.stream /\ v.gen = w.gen)
        BY DEF CountdownsOf, OneCountdownOf, Others
      <3>3. autoStopInFlight[w.stream] # w.gen
        BY <2>e, <3>2 DEF CountdownsOf, FlightOf, OneCountdownOf, Watcher
      <3>4. /\ UNCHANGED <<autoStopInFlight, autoStopGeneration, current,
                           occupied>>
            /\ watchers' = Others(w)
        BY <2>e, <3>3 DEF Finish, End, TypeOK, MapTypes, job, Watcher
      <3>5. \A t \in Streams :
              \/ autoStopPending'[t] = autoStopPending[t]
              \/ t = w.stream /\ autoStopGeneration[t] = w.gen
        <4>1. CASE autoStopGeneration[w.stream] # w.gen
          <5>1. UNCHANGED autoStopPending
            BY <2>e, <4>1, Zenon DEF Finish
          <5>2. QED
            BY <5>1
        <4>2. CASE autoStopGeneration[w.stream] = w.gen
          <5>1. autoStopPending' = [autoStopPending EXCEPT ![w.stream] = FALSE]
            BY <2>e, <4>2, Zenon DEF Finish
          <5>2. QED
            BY <4>2, <5>1 DEF TypeOK, MapTypes
        <4>3. QED
          BY <4>1, <4>2
      <3>6. LiveOf(watchers)'
        BY <3>1, <3>2, <3>4, <3>5 DEF CountdownsOf, LiveOf, Watcher
      <3>7. QED
        BY <3>1, <3>4, <3>6
           DEF CountdownsOf, OneCountdownOf, StagesOf, FlightOf
    <2>9. CASE Finishes(w)
      BY <2>9, <2>e DEF Finishes
    <2>10. CASE Retry(w)
      <3>1. w.pc = "retry" /\ UNCHANGED job
        BY <2>10 DEF Retry
      <3>2. CASE Finish(w.stream, w.gen) /\ End(w)
        BY <2>e, <3>1, <3>2
      <3>3. CASE End(w) /\ UNCHANGED maps
        BY <2>c, <3>1, <3>3, <1>b DEF End
      <3>4. CASE GoOn(w, "wait") /\ UNCHANGED <<autoStopPending,
                   autoStopGeneration, cooling, autoStopInFlight>>
        BY <2>a, <2>d, <3>1, <3>4, <1>a DEF GoOn, WatcherPcs, job
      <3>5. QED
        BY <2>10, <3>2, <3>3, <3>4, Zenon DEF Retry
    <2>11. QED
      BY <1>12, <2>1, <2>2, <2>3, <2>4, <2>5, <2>6, <2>7, <2>8, <2>9, <2>10
         DEF WatcherStep
  <1>13. ASSUME NEW s \in Streams, ReconcileStep(s)
         PROVE  CountdownsOf(watchers)'
    <2>1. CASE ReconcileJoins(s)
      <3>1. CASE KeepsIntent
        BY <2>1, <3>1, KeepsCountdowns DEF ReconcileJoins
      <3>2. CASE UNCHANGED <<maps, watchers>>
        BY <2>1, <3>2, <1>b DEF ReconcileJoins
      <3>3. QED
        BY <2>1, <3>1, <3>2 DEF ReconcileJoins
    <2>2. CASE ~ReconcileJoins(s)
      BY <1>13, <2>2, <1>b
         DEF ReconcileStep, ReconcileReads, ReconcileAgain, ReconcileChecks,
             ReconcileGivesUp, ReconcileEnds
    <2>3. QED
      BY <2>1, <2>2
  <1>14. CASE UNCHANGED vars
    BY <1>14, <1>b DEF vars
  <1>15. QED
    BY <1>1, <1>2, <1>3, <1>4, <1>5, <1>6, <1>7, <1>8, <1>9, <1>10, <1>11,
       <1>12, <1>13, <1>14 DEF Next

\* For any number of streams and however requests overlap: a channel has at
\* most one valid countdown, a stop request that still counts is for an empty
\* channel, and only requests on their way are registered as in flight.
THEOREM CountdownsCorrect ==
  Spec => [](OneCountdown /\ LiveRequestIsForEmpty /\ InFlightIsOutstanding)
  <1>1. Init => CountdownsOf(watchers)
    BY DEF Init, CountdownsOf, OneCountdownOf, StagesOf, LiveOf, FlightOf
  <1>2. TypeOK /\ CountdownsOf(watchers) =>
          OneCountdown /\ LiveRequestIsForEmpty /\ InFlightIsOutstanding
    BY Unfold DEF IInv
  <1>3. QED
    BY <1>1, <1>2, NextCountdowns, TypeCorrect, PTL DEF Spec

\* A channel that flickers has one countdown that counts (autoStopGeneration).
THEOREM OneCountdownCorrect == Spec => []OneCountdown
  BY CountdownsCorrect, PTL

\* autoStopInFlight holds only requests that are on their way.
THEOREM InFlightCorrect == Spec => []InFlightIsOutstanding
  BY CountdownsCorrect, PTL

\* Stop never touches the goroutines: the Panel's own request goes on.
THEOREM StopKeepsCorrect == Spec => StopKeepsRequest
  <1>1. ASSUME [Next]_vars, stopper = NoStream, stopper' # NoStream
        PROVE  \A w \in watchers : w \in watchers'
    <2>1. CASE StopBegin
      BY <2>1 DEF StopBegin
    <2>2. CASE ~StopBegin
      <3>1. stopper' = stopper \/ stopper' = NoStream
        BY <1>1, <2>2
           DEF Next, StartBegin, StartFails, StartCommit, StopFails,
               StopFinish, DiscordDisconnected, DiscordConnected,
               ParticipantsChanged, VoiceUserJoined, Cooled, WatcherStep,
               Fires, Reads, Syncs, Cancels, FindsEmpty, Confirmed, Answered,
               Schedules, Finishes, Retry, ReconcileStep, ReconcileReads,
               ReconcileAgain, ReconcileChecks, ReconcileJoins,
               ReconcileGivesUp, ReconcileEnds, calls, vars
      <3>2. QED
        BY <1>1, <3>1
    <2>3. QED
      BY <2>1, <2>2
  <1>2. QED
    BY <1>1, PTL DEF Spec, StopKeepsRequest

=============================================================================
