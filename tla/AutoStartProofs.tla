-------------------------- MODULE AutoStartProofs --------------------------
(***************************************************************************)
(* Proofs about AutoStart, for any finite set of streams, any callbacks,   *)
(* reservations, retries and epochs, and any number of requests.           *)
(*                                                                         *)
(* The types come together with the discipline of runtimeRefreshMu         *)
(* (LockInv): only because whoever replays the members holds the lock is   *)
(* the replay itself never a holder.                                       *)
(***************************************************************************)
EXTENDS AutoStart, FiniteSetTheorems, TLAPS

JoinPcs == {"none", "next", "enter", "mutex", "refreshing", "again",
            "decide"}
GoPcs   == {"none", "check", "presence", "recheck", "request", "wait",
            "mutex", "refreshing", "successor", "reenter", "finish"}

JoinCall  == [pc : JoinPcs, todo : SUBSET Target,
              target : Target \cup {NoTarget}, existing : BOOLEAN,
              stream : MaybeStream]
Goroutine == [pc : GoPcs, target : Target \cup {NoTarget},
              existing : BOOLEAN, gen : Nat, attempt : 0..RetryDelays,
              seen : BOOLEAN, busy : BOOLEAN]

\* TypeOK in parts
JobTypes ==
  /\ current \in MaybeStream
  /\ currentEpoch \in 0..MaxEpoch
  /\ stopping \in BOOLEAN
  /\ generation \in Nat
  /\ ended \in [Streams -> 0..MaxEpoch]
  /\ inputs \in 0..MaxInputs

ConfigTypes ==
  /\ newest \in [Streams -> 0..MaxEpoch]
  /\ defaults \in [Streams -> 0..MaxEpoch]
  /\ lastDefaults \in [Streams -> 0..MaxEpoch]
  /\ execution \in SUBSET Streams
  /\ targets \in SUBSET Target
  /\ refreshed \in BOOLEAN

StartTypes ==
  /\ pending \in [Streams -> {"none", "fresh", "old"}]
  /\ stopped \in [Streams -> 0..MaxEpoch \cup {NoMark}]
  /\ retry \in [Streams -> Reservations \cup {NoReservation}]

LockTypes ==
  /\ holder \in Holders \cup {NoOne}
  /\ refresh \in {"idle", "fetched", "targets", "refused", "sync",
                  "syncRefused"}
  /\ starter \in [pc : {"none", "join"}, stream : MaybeStream,
                  epoch : 0..MaxEpoch]
  /\ stopper \in MaybeStream

ThreadTypes ==
  /\ joins \in [Owners -> JoinCall]
  /\ goroutines \in [Reservations -> Goroutine]

Typed == JobTypes /\ ConfigTypes /\ StartTypes /\ LockTypes /\ ThreadTypes

\* TypeOK is the conjunction of its parts.
LEMMA Types == TypeOK <=> Typed
  BY DEF TypeOK, Typed, JobTypes, ConfigTypes, StartTypes, LockTypes,
         ThreadTypes, JoinCall, Goroutine, JoinPcs, GoPcs

\* Who refreshes holds runtimeRefreshMu; so does a start until it is through;
\* and the members are replayed only within a refresh.
LockInv ==
  /\ refresh # "idle" => holder # NoOne
  /\ starter.pc = "join" => holder = Http /\ refresh = "idle"
  /\ joins[Sync].pc # "none" => refresh \in {"sync", "syncRefused"}

-----------------------------------------------------------------------------
(* Values that the actions store have their types.                         *)

LEMMA Constants ==
  /\ NoJoin \in JoinCall
  /\ Gone \in Goroutine
  /\ NoStart \in [pc : {"none", "join"}, stream : MaybeStream,
                  epoch : 0..MaxEpoch]
  /\ Nothing \in [Streams -> 0..MaxEpoch]
  /\ Sync \in Owners /\ Sync \notin Holders
  <1> USE AutoStartAssumption
  <1>1. NoJoin \in JoinCall
    BY DEF NoJoin, JoinCall, JoinPcs, MaybeStream
  <1>2. Gone \in Goroutine
    BY DEF Gone, Goroutine, GoPcs
  <1>3. NoStart \in [pc : {"none", "join"}, stream : MaybeStream,
                     epoch : 0..MaxEpoch]
    BY DEF NoStart, MaybeStream
  <1>4. Nothing \in [Streams -> 0..MaxEpoch]
    BY DEF Nothing
  <1>5. Sync \in Owners /\ Sync \notin Holders
    BY DEF Owners, Holders
  <1>6. QED
    BY <1>1, <1>2, <1>3, <1>4, <1>5

LEMMA SelectedTypes ==
  ASSUME ConfigTypes PROVE Selected \in SUBSET Target
  BY AutoStartAssumption
     DEF ConfigTypes, Selected, Waiting, Target, Epochs

LEMMA MatchingTypes ==
  ASSUME ConfigTypes PROVE Matching \in MaybeStream
  <1>1. ASSUME Cardinality(Waiting) = 1 PROVE Waiting # {}
    BY <1>1, FS_EmptySet
  <1>2. Waiting \subseteq Streams
    BY DEF Waiting
  <1>3. QED
    BY <1>1, <1>2 DEF Matching, MaybeStream

LEMMA ProjectTypes ==
  ASSUME NEW w \in [Streams -> 0..MaxEpoch]
  PROVE  /\ Project(w) \in [Streams -> 0..MaxEpoch]
         /\ Assigned(w) \in SUBSET Streams
  BY Constants DEF Project, SelectWaiting, Assigned

\* A goroutine that is held is of a stream.
LEMMA HeldHasStream ==
  ASSUME ThreadTypes, NEW r \in Reservations, Held(r)
  PROVE  StreamOf(r) \in Streams
  BY DEF Held, StreamOf, ThreadTypes, Goroutine, Target, NoTarget

LEMMA InitTyped == Init => Typed /\ LockInv
  <1> SUFFICES ASSUME Init PROVE Typed /\ LockInv
    OBVIOUS
  <1> USE AutoStartAssumption
  <1>1. PICK w \in [Streams -> 0..1] : /\ defaults = Project(w)
                                       /\ execution = Assigned(w)
    BY DEF Init
  <1>2. w \in [Streams -> 0..MaxEpoch]
    OBVIOUS
  <1>3. refreshed \in BOOLEAN /\ stopping \in BOOLEAN
    BY DEF Init
  <1>4. ConfigTypes
    <2>1. /\ defaults \in [Streams -> 0..MaxEpoch]
          /\ execution \in SUBSET Streams
      BY <1>1, <1>2, ProjectTypes
    <2>2. Selected \in SUBSET Target
      BY <2>1 DEF Selected, Waiting, Target, Epochs
    <2>3. QED
      BY <1>3, <2>1, <2>2 DEF Init, ConfigTypes
  <1>5. JobTypes
    BY <1>3, Constants DEF Init, JobTypes, MaybeStream
  <1>6. StartTypes
    BY DEF Init, StartTypes
  <1>7. LockTypes
    BY Constants DEF Init, LockTypes, MaybeStream
  <1>8. ThreadTypes
    BY Constants DEF Init, ThreadTypes
  <1>9. LockInv
    BY Constants DEF Init, LockInv, NoStart, NoJoin
  <1>10. QED
    BY <1>4, <1>5, <1>6, <1>7, <1>8, <1>9 DEF Typed

-----------------------------------------------------------------------------
(* What a step leaves alone keeps its type.                                *)

LEMMA JobStays ==
  ASSUME JobTypes, UNCHANGED <<job, ended>>,
         inputs' = inputs \/ Input
  PROVE  JobTypes'
  BY AutoStartAssumption DEF JobTypes, job, Input

LEMMA ConfigStays ==
  ASSUME ConfigTypes, UNCHANGED <<config, targets, refreshed>>
  PROVE  ConfigTypes'
  BY DEF ConfigTypes, config

LEMMA StartsStay ==
  ASSUME StartTypes, UNCHANGED starts
  PROVE  StartTypes'
  BY DEF StartTypes, starts

LEMMA LockStays ==
  ASSUME LockTypes, UNCHANGED <<lock, handlers>>
  PROVE  LockTypes'
  BY DEF LockTypes, lock, handlers

LEMMA ThreadsStay ==
  ASSUME ThreadTypes, UNCHANGED <<joins, goroutines>>
  PROVE  ThreadTypes'
  BY DEF ThreadTypes

LEMMA InvStays ==
  ASSUME LockInv, UNCHANGED <<lock, starter>>,
         joins'[Sync].pc # "none" => joins[Sync].pc # "none"
  PROVE  LockInv'
  BY DEF LockInv, lock

\* Cancelling all reservations keeps the types.
LEMMA CancelAllTypes ==
  ASSUME CancelAll
  PROVE  retry' \in [Streams -> Reservations \cup {NoReservation}]
  BY DEF CancelAll

-----------------------------------------------------------------------------
(* The refresh lock.                                                       *)

\* Taking it
LEMMA LockTaken ==
  ASSUME Typed, LockInv, NEW h \in Holders, Lock(h)
  PROVE  /\ holder' \in Holders \cup {NoOne} /\ refresh' = "fetched"
         /\ refresh = "idle" /\ holder' # NoOne
         /\ starter.pc # "join" /\ joins[Sync].pc = "none"
         /\ inputs' \in 0..MaxInputs
  <1> USE AutoStartAssumption
  <1>1. holder = NoOne /\ holder' = h /\ refresh' = "fetched"
    BY DEF Lock
  <1>2. h # NoOne
    BY DEF Holders
  <1>3. refresh = "idle"
    BY <1>1 DEF LockInv
  <1>4. starter.pc # "join" /\ joins[Sync].pc = "none"
    BY <1>1, <1>3 DEF LockInv
  <1>5. inputs' \in 0..MaxInputs
    BY DEF Lock, Input, Typed, JobTypes
  <1>6. QED
    BY <1>1, <1>2, <1>3, <1>4, <1>5

\* Releasing it
LEMMA LockReleased ==
  ASSUME Typed, LockInv, NEW ok \in BOOLEAN, Unlock(ok),
         joins[Sync].pc = "none"
  PROVE  /\ holder' = NoOne /\ refresh' = "idle" /\ starter' = NoStart
         /\ ThreadTypes' /\ LockInv'
  <1>1. holder' = NoOne /\ refresh' = "idle" /\ starter' = NoStart
    BY DEF Unlock
  <1>2. holder \in Holders \cup {NoOne} /\ holder # Sync
    BY Constants, AutoStartAssumption DEF Typed, LockTypes
  <1>3. joins' \in [Owners -> JoinCall] /\ joins'[Sync] = joins[Sync]
    <2>1. joins \in [Owners -> JoinCall] /\ Sync \in Owners
      BY Constants DEF Typed, ThreadTypes
    <2>2. CASE holder \in Owners /\ joins[holder].pc = "refreshing"
      <3>1. PICK p \in {"again", "next"}, t \in Target \cup {NoTarget} :
              joins' = [joins EXCEPT ![holder].pc = p, ![holder].target = t]
        <4>1. joins[holder].target \in Target \cup {NoTarget}
          BY <2>1, <2>2 DEF JoinCall
        <4>2. joins' = [joins EXCEPT
                ![holder].pc = IF ok THEN "again" ELSE "next",
                ![holder].target = IF ok THEN joins[holder].target
                                         ELSE NoTarget]
          BY <2>2 DEF Unlock
        <4>3. QED
          BY <4>1, <4>2
      <3>2. QED
        BY <1>2, <2>1, <2>2, <3>1 DEF JoinCall, JoinPcs
    <2>3. CASE ~(holder \in Owners /\ joins[holder].pc = "refreshing")
      BY <2>1, <2>3 DEF Unlock
    <2>4. QED
      BY <2>2, <2>3
  <1>4. goroutines' \in [Reservations -> Goroutine]
    <2>1. goroutines \in [Reservations -> Goroutine]
      BY DEF Typed, ThreadTypes
    <2>2. \/ goroutines' = goroutines
          \/ /\ holder \in Reservations
             /\ \E p \in {"successor", "finish"} :
                  goroutines' = [goroutines EXCEPT ![holder].pc = p]
      BY DEF Unlock
    <2>3. QED
      BY <2>1, <2>2 DEF Goroutine, GoPcs
  <1>5. LockInv'
    BY <1>1, <1>3 DEF LockInv, NoStart
  <1>6. QED
    BY <1>1, <1>3, <1>4, <1>5 DEF ThreadTypes

\* SetStreamVoiceDefaults keeps the types.
LEMMA DefaultsTypes ==
  ASSUME Typed, NEW w \in [Streams -> 0..MaxEpoch],
         NEW assigned \in SUBSET Streams,
         SetStreamVoiceDefaults(w, assigned), UNCHANGED <<targets, refreshed>>
  PROVE  ConfigTypes' /\ StartTypes'
  <1> USE AutoStartAssumption
  <1>1. ConfigTypes /\ StartTypes
    BY DEF Typed
  <1>2. newest' \in [Streams -> 0..MaxEpoch]
    BY <1>1 DEF SetStreamVoiceDefaults, ConfigTypes
  <1>3. lastDefaults' \in [Streams -> 0..MaxEpoch]
    BY <1>1 DEF SetStreamVoiceDefaults, Retained, ConfigTypes
  <1>4. pending' \in [Streams -> {"none", "fresh", "old"}]
    BY <1>1 DEF SetStreamVoiceDefaults, StartTypes
  <1>5. retry' \in [Streams -> Reservations \cup {NoReservation}]
    BY <1>1 DEF SetStreamVoiceDefaults, StartTypes
  <1>6. stopped' \in [Streams -> 0..MaxEpoch \cup {NoMark}]
    BY <1>1 DEF SetStreamVoiceDefaults, StartTypes
  <1>7. defaults' = w /\ execution' = assigned
    BY DEF SetStreamVoiceDefaults
  <1>8. QED
    BY <1>1, <1>2, <1>3, <1>4, <1>5, <1>6, <1>7 DEF ConfigTypes, StartTypes

-----------------------------------------------------------------------------
(* Every step keeps the types and the discipline of the lock.              *)

LEMMA RefreshTyped ==
  ASSUME Typed, LockInv, RefreshStep
  PROVE  Typed' /\ LockInv'
  <1> USE AutoStartAssumption
  <1>1. JobTypes /\ ConfigTypes /\ StartTypes /\ LockTypes /\ ThreadTypes
    BY DEF Typed
  <1>2. ASSUME NEW o \in Owners, JoinRefresh(o)
        PROVE  Typed' /\ LockInv'
    <2>1. holder = NoOne /\ refresh = "idle"
      BY <1>2 DEF JoinRefresh, Lock, LockInv
    <2>2. o # Sync
      BY <1>2, <2>1 DEF JoinRefresh, LockInv
    <2>3. o \in Holders
      BY <2>2 DEF Owners, Holders
    <2>4. Lock(o)
      BY <1>2 DEF JoinRefresh
    <2>5. /\ holder' \in Holders \cup {NoOne} /\ refresh' = "fetched"
          /\ holder' # NoOne
          /\ starter.pc # "join" /\ joins[Sync].pc = "none"
          /\ inputs' \in 0..MaxInputs
      BY <2>3, <2>4, LockTaken
    <2>6. JobTypes'
      BY <1>1, <1>2, <2>5 DEF JoinRefresh, JobTypes, job
    <2>7. ConfigTypes' /\ StartTypes'
      BY <1>1, <1>2, ConfigStays, StartsStay DEF JoinRefresh
    <2>8. LockTypes'
      BY <1>1, <1>2, <2>5 DEF JoinRefresh, LockTypes, handlers
    <2>9. ThreadTypes' /\ joins'[Sync] = joins[Sync]
      BY <1>1, <1>2, <2>2, Constants
         DEF JoinRefresh, ThreadTypes, JoinCall, JoinPcs
    <2>10. LockInv'
      BY <1>2, <2>5, <2>9 DEF JoinRefresh, LockInv, handlers
    <2>11. QED
      BY <2>6, <2>7, <2>8, <2>9, <2>10 DEF Typed
  <1>3. ASSUME NEW r \in Reservations, StaleRefresh(r)
        PROVE  Typed' /\ LockInv'
    <2>1. r \in Holders /\ Lock(r)
      BY <1>3 DEF Holders, StaleRefresh
    <2>2. /\ holder' \in Holders \cup {NoOne} /\ refresh' = "fetched"
          /\ holder' # NoOne
          /\ starter.pc # "join" /\ joins[Sync].pc = "none"
          /\ inputs' \in 0..MaxInputs
      BY <2>1, LockTaken
    <2>3. JobTypes'
      BY <1>1, <1>3, <2>2 DEF StaleRefresh, JobTypes, job
    <2>4. ConfigTypes' /\ StartTypes'
      BY <1>1, <1>3, ConfigStays, StartsStay DEF StaleRefresh
    <2>5. LockTypes'
      BY <1>1, <1>3, <2>2 DEF StaleRefresh, LockTypes, handlers
    <2>6. ThreadTypes'
      BY <1>1, <1>3 DEF StaleRefresh, ThreadTypes, Goroutine, GoPcs
    <2>7. LockInv'
      BY <1>3, <2>2 DEF StaleRefresh, LockInv, handlers
    <2>8. QED
      BY <2>3, <2>4, <2>5, <2>6, <2>7 DEF Typed
  <1>4. ASSUME NEW o \in Owners, JoinRefreshFails(o)
        PROVE  Typed' /\ LockInv'
    <2>1. ThreadTypes'
      BY <1>1, <1>4 DEF JoinRefreshFails, ThreadTypes, JoinCall, JoinPcs
    <2>2. joins'[Sync].pc # "none" => joins[Sync].pc # "none"
      BY <1>1, <1>4, Constants DEF JoinRefreshFails, ThreadTypes
    <2>3. JobTypes' /\ ConfigTypes' /\ StartTypes' /\ LockTypes'
      BY <1>1, <1>4, JobStays, ConfigStays, StartsStay, LockStays
         DEF JoinRefreshFails
    <2>4. LockInv'
      BY <1>4, <2>2, InvStays DEF JoinRefreshFails, handlers
    <2>5. QED
      BY <2>1, <2>3, <2>4 DEF Typed
  <1>5. ASSUME NEW r \in Reservations, StaleRefreshFails(r)
        PROVE  Typed' /\ LockInv'
    <2>1. ThreadTypes'
      BY <1>1, <1>5 DEF StaleRefreshFails, ThreadTypes, Goroutine, GoPcs
    <2>2. JobTypes' /\ ConfigTypes' /\ StartTypes' /\ LockTypes'
      BY <1>1, <1>5, JobStays, ConfigStays, StartsStay, LockStays
         DEF StaleRefreshFails
    <2>3. LockInv'
      BY <1>5, InvStays DEF StaleRefreshFails, handlers
    <2>4. QED
      BY <2>1, <2>2, <2>3 DEF Typed
  <1>6. ASSUME Apply \/ Refuse PROVE Typed' /\ LockInv'
    <2>1. PICK w \in [Streams -> 0..MaxEpoch], a \in SUBSET Streams :
            SetStreamVoiceDefaults(w, a)
      <3>1. CASE Apply
        <4>1. PICK v \in Projections :
                SetStreamVoiceDefaults(Project(v), Assigned(v))
          BY <3>1 DEF Apply
        <4>2. v \in [Streams -> 0..MaxEpoch]
          BY DEF Projections
        <4>3. QED
          BY <4>1, <4>2, ProjectTypes
      <3>2. CASE Refuse
        <4>1. PICK v \in Projections :
                SetStreamVoiceDefaults(Nothing,
                  IF holder = Http THEN Assigned(v) ELSE execution)
          BY <3>2 DEF Refuse
        <4>2. v \in [Streams -> 0..MaxEpoch]
          BY DEF Projections
        <4>3. execution \in SUBSET Streams /\ Assigned(v) \in SUBSET Streams
          BY <1>1, <4>2, ProjectTypes DEF ConfigTypes
        <4>4. (IF holder = Http THEN Assigned(v) ELSE execution)
                \in SUBSET Streams
          BY <4>3
        <4>5. QED
          BY <4>1, <4>4, Constants
      <3>3. QED
        BY <1>6, <3>1, <3>2
    <2>2. ConfigTypes' /\ StartTypes'
      BY <1>6, <2>1, DefaultsTypes DEF Apply, Refuse
    <2>3. JobTypes' /\ ThreadTypes'
      BY <1>1, <1>6, JobStays, ThreadsStay DEF Apply, Refuse
    <2>4. /\ refresh = "fetched" /\ refresh' \in {"targets", "refused"}
          /\ UNCHANGED <<holder, handlers, joins>>
      BY <1>6 DEF Apply, Refuse
    <2>5. LockTypes'
      BY <1>1, <2>4 DEF LockTypes, handlers
    <2>6. LockInv'
      BY <2>4 DEF LockInv, handlers
    <2>7. QED
      BY <2>2, <2>3, <2>5, <2>6 DEF Typed
  <1>7. ASSUME NEW found \in BOOLEAN, SetTargets(found)
        PROVE  Typed' /\ LockInv'
    <2>1. Selected \in SUBSET Target
      BY <1>1, SelectedTypes
    <2>2. ThreadTypes'
      <3> DEFINE j == [NoJoin EXCEPT !.pc = "next", !.existing = TRUE,
                         !.todo = IF found THEN Selected ELSE {}]
      <3>1. j \in JoinCall
        BY <2>1, Constants DEF JoinCall, JoinPcs
      <3>2. joins' = [joins EXCEPT ![Sync] = j] /\ UNCHANGED goroutines
        BY <1>7 DEF SetTargets
      <3> HIDE DEF j
      <3>3. QED
        BY <1>1, <3>1, <3>2 DEF ThreadTypes
    <2>3. ConfigTypes'
      BY <1>1, <1>7, <2>1 DEF SetTargets, ConfigTypes, config
    <2>4. JobTypes' /\ StartTypes'
      BY <1>1, <1>7, JobStays, StartsStay DEF SetTargets
    <2>5. /\ refresh \in {"targets", "refused"}
          /\ refresh' \in {"sync", "syncRefused"}
          /\ UNCHANGED <<holder, handlers>>
      BY <1>7 DEF SetTargets
    <2>6. LockTypes'
      BY <1>1, <2>5 DEF LockTypes, handlers
    <2>7. LockInv'
      BY <2>5 DEF LockInv, handlers
    <2>8. QED
      BY <2>2, <2>3, <2>4, <2>6, <2>7 DEF Typed
  <1>8. ASSUME Synced PROVE Typed' /\ LockInv'
    <2>1. joins[Sync].pc = "none" /\ Unlock(refresh = "sync")
      BY <1>8 DEF Synced
    <2>2. /\ holder' = NoOne /\ refresh' = "idle" /\ starter' = NoStart
          /\ ThreadTypes' /\ LockInv'
      BY <2>1, LockReleased
    <2>3. JobTypes' /\ ConfigTypes' /\ StartTypes'
      BY <1>1, <1>8, JobStays, ConfigStays, StartsStay DEF Synced
    <2>4. LockTypes'
      BY <1>1, <1>8, <2>2, Constants DEF Synced, LockTypes
    <2>5. QED
      BY <2>2, <2>3, <2>4 DEF Typed
  <1>9. QED
    BY <1>2, <1>3, <1>4, <1>5, <1>6, <1>7, <1>8 DEF RefreshStep

LEMMA HandlerTyped ==
  ASSUME Typed, LockInv, HandlerStep
  PROVE  Typed' /\ LockInv'
  <1> USE AutoStartAssumption
  <1>1. JobTypes /\ ConfigTypes /\ StartTypes /\ LockTypes /\ ThreadTypes
    BY DEF Typed
  <1>2. ASSUME StartBegin PROVE Typed' /\ LockInv'
    <2>1. starter.stream \in Streams
      <3>1. starter.stream \in MaybeStream
        BY <1>1 DEF LockTypes
      <3>2. starter.stream \in execution' /\ execution' \in SUBSET Streams
        <4>1. PICK w \in Projections :
                starter.stream \in Assigned(w) /\ execution' = Assigned(w)
          BY <1>2 DEF StartBegin
        <4>2. w \in [Streams -> 0..MaxEpoch]
          BY DEF Projections
        <4>3. QED
          BY <4>1, <4>2, ProjectTypes
      <3>3. QED
        BY <3>2
    <2>2. execution' \in SUBSET Streams
      <3>1. PICK w \in Projections : execution' = Assigned(w)
        BY <1>2 DEF StartBegin
      <3>2. QED
        BY <3>1, ProjectTypes DEF Projections
    <2>3. starter' \in [pc : {"none", "join"}, stream : MaybeStream,
                        epoch : 0..MaxEpoch]
      <3>1. StartEpoch(starter.stream) \in 0..MaxEpoch
        BY <1>1, <2>1 DEF StartEpoch, ConfigTypes
      <3>2. QED
        BY <1>2, <2>1, <3>1 DEF StartBegin, MaybeStream
    <2>4. ConfigTypes'
      BY <1>1, <1>2, <2>2 DEF StartBegin, ConfigTypes
    <2>5. JobTypes' /\ StartTypes' /\ ThreadTypes'
      BY <1>1, <1>2, JobStays, StartsStay, ThreadsStay DEF StartBegin
    <2>6. LockTypes'
      BY <1>1, <1>2, <2>3 DEF StartBegin, LockTypes
    <2>7. LockInv'
      BY <1>2 DEF StartBegin, LockInv
    <2>8. QED
      BY <2>4, <2>5, <2>6, <2>7 DEF Typed
  <1>3. ASSUME StartRefused PROVE Typed' /\ LockInv'
    <2>1. joins[Sync].pc = "none" /\ Unlock(FALSE)
      BY <1>3 DEF StartRefused, LockInv
    <2>2. /\ holder' = NoOne /\ refresh' = "idle" /\ starter' = NoStart
          /\ ThreadTypes' /\ LockInv'
      BY <2>1, LockReleased
    <2>3. execution' \in SUBSET Streams
      <3>1. \/ execution' = execution
            \/ \E w \in Projections : execution' = Assigned(w)
        BY <1>3 DEF StartRefused
      <3>2. QED
        BY <1>1, <3>1, ProjectTypes DEF Projections, ConfigTypes
    <2>4. ConfigTypes'
      BY <1>1, <1>3, <2>3 DEF StartRefused, ConfigTypes
    <2>5. JobTypes' /\ StartTypes'
      BY <1>1, <1>3, JobStays, StartsStay DEF StartRefused
    <2>6. LockTypes'
      BY <1>1, <1>3, <2>2, Constants DEF StartRefused, LockTypes
    <2>7. QED
      BY <2>2, <2>4, <2>5, <2>6 DEF Typed
  <1>4. ASSUME JoinVoiceFails PROVE Typed' /\ LockInv'
    <2>1. joins[Sync].pc = "none" /\ Unlock(FALSE)
      BY <1>4 DEF JoinVoiceFails, LockInv
    <2>2. /\ holder' = NoOne /\ refresh' = "idle" /\ starter' = NoStart
          /\ ThreadTypes' /\ LockInv'
      BY <2>1, LockReleased
    <2>3. JobTypes' /\ ConfigTypes' /\ StartTypes'
      BY <1>1, <1>4, JobStays, ConfigStays, StartsStay DEF JoinVoiceFails
    <2>4. LockTypes'
      BY <1>1, <1>4, <2>2, Constants DEF JoinVoiceFails, LockTypes
    <2>5. QED
      BY <2>2, <2>3, <2>4 DEF Typed
  <1>5. ASSUME StartCommit PROVE Typed' /\ LockInv'
    <2>1. joins[Sync].pc = "none" /\ Unlock(TRUE)
      BY <1>5 DEF StartCommit, LockInv
    <2>2. /\ holder' = NoOne /\ refresh' = "idle" /\ starter' = NoStart
          /\ ThreadTypes' /\ LockInv'
      BY <2>1, LockReleased
    <2>3. /\ current' \in MaybeStream /\ currentEpoch' \in 0..MaxEpoch
          /\ stopping' \in BOOLEAN /\ generation' \in Nat
          /\ UNCHANGED <<ended, inputs>>
      <3>1. /\ starter.stream \in MaybeStream
            /\ starter.epoch \in 0..MaxEpoch /\ generation + 1 \in Nat
        BY <1>1 DEF LockTypes, JobTypes
      <3>2. QED
        BY <1>5, <3>1 DEF StartCommit
    <2>4. JobTypes'
      BY <1>1, <2>3 DEF JobTypes
    <2>5. ConfigTypes'
      BY <1>1, <1>5, ConfigStays DEF StartCommit
    <2>6. StartTypes'
      BY <1>1, <1>5, CancelAllTypes DEF StartCommit, StartTypes
    <2>7. LockTypes'
      BY <1>1, <1>5, <2>2, Constants DEF StartCommit, LockTypes
    <2>8. QED
      BY <2>2, <2>4, <2>5, <2>6, <2>7 DEF Typed
  <1>6. ASSUME StopFails PROVE Typed' /\ LockInv'
    <2>1. stopping' \in BOOLEAN
      BY <1>6 DEF StopFails
    <2>2. JobTypes'
      BY <1>1, <1>6, <2>1 DEF StopFails, JobTypes
    <2>3. ConfigTypes' /\ StartTypes' /\ ThreadTypes'
      BY <1>1, <1>6, ConfigStays, StartsStay, ThreadsStay DEF StopFails
    <2>4. LockTypes'
      BY <1>1, <1>6 DEF StopFails, LockTypes, lock, MaybeStream
    <2>5. LockInv'
      BY <1>6, InvStays DEF StopFails
    <2>6. QED
      BY <2>2, <2>3, <2>4, <2>5 DEF Typed
  <1>7. ASSUME StopFinish PROVE Typed' /\ LockInv'
    <2>1. ended' \in [Streams -> 0..MaxEpoch]
      <3>1. \/ ended' = [ended EXCEPT ![stopper] = 0]
            \/ ended' = [ended EXCEPT ![stopper] = currentEpoch]
        BY <1>7 DEF StopFinish
      <3>2. 0 \in 0..MaxEpoch /\ currentEpoch \in 0..MaxEpoch
        BY <1>1 DEF JobTypes
      <3>3. ended \in [Streams -> 0..MaxEpoch]
        BY <1>1 DEF JobTypes
      <3>4. QED
        BY <3>1, <3>2, <3>3
    <2>2. JobTypes'
      BY <1>1, <1>7, <2>1 DEF StopFinish, JobTypes, MaybeStream
    <2>3. ConfigTypes' /\ ThreadTypes'
      BY <1>1, <1>7, ConfigStays, ThreadsStay DEF StopFinish
    <2>4. StartTypes'
      BY <1>1, <1>7 DEF StopFinish, StartTypes, JobTypes
    <2>5. LockTypes'
      BY <1>1, <1>7 DEF StopFinish, LockTypes, lock, MaybeStream
    <2>6. LockInv'
      BY <1>7, InvStays DEF StopFinish
    <2>7. QED
      BY <2>2, <2>3, <2>4, <2>5, <2>6 DEF Typed
  <1>8. QED
    BY <1>2, <1>3, <1>4, <1>5, <1>6, <1>7 DEF HandlerStep

\* The second sections of VoiceUserJoined
LEMMA DecideTypes ==
  ASSUME Typed, NEW s \in MaybeStream, NEW o \in Owners, Decide(s, o)
  PROVE  StartTypes' /\ goroutines' \in [Reservations -> Goroutine]
  <1> USE AutoStartAssumption
  <1>1. StartTypes /\ ThreadTypes /\ JobTypes
    BY DEF Typed
  <1>2. CASE Ignored(s, o)
    BY <1>1, <1>2, StartsStay DEF Decide, ThreadTypes
  <1>3. CASE ~Ignored(s, o)
    <2>1. s \in Streams
      BY <1>3 DEF Ignored, Authorized, MaybeStream
    <2>2. stopped' \in [Streams -> 0..MaxEpoch \cup {NoMark}]
      BY <1>1, <1>3 DEF Decide, StartTypes
    <2>3. PICK p \in {"none", "fresh", pending[s]} :
            pending' = [pending EXCEPT ![s] = p]
      BY <1>3 DEF Decide
    <2>4. pending' \in [Streams -> {"none", "fresh", "old"}]
      BY <1>1, <2>1, <2>3 DEF StartTypes
    <2>5. CASE UNCHANGED <<retry, goroutines>>
      BY <1>1, <2>2, <2>4, <2>5 DEF StartTypes, ThreadTypes
    <2>6. ASSUME NEW r \in Reservations,
                 retry' = [retry EXCEPT ![s] = r],
                 goroutines' = [goroutines EXCEPT ![r] =
                           [Gone EXCEPT !.pc = "check", !.gen = generation,
                              !.target = joins[o].target,
                              !.existing = joins[o].existing]]
          PROVE  StartTypes' /\ goroutines' \in [Reservations -> Goroutine]
      <3>1. /\ joins[o].target \in Target \cup {NoTarget}
            /\ joins[o].existing \in BOOLEAN /\ generation \in Nat
        BY <1>1 DEF ThreadTypes, JoinCall, JobTypes
      <3>2. [Gone EXCEPT !.pc = "check", !.gen = generation,
               !.target = joins[o].target, !.existing = joins[o].existing]
              \in Goroutine
        BY <3>1, Constants DEF Goroutine, GoPcs
      <3>3. QED
        BY <1>1, <2>2, <2>4, <2>6, <3>2 DEF StartTypes, ThreadTypes
    <2>7. \/ UNCHANGED <<retry, goroutines>>
          \/ \E r \in Reservations :
               /\ retry' = [retry EXCEPT ![s] = r]
               /\ goroutines' = [goroutines EXCEPT ![r] =
                    [Gone EXCEPT !.pc = "check", !.gen = generation,
                       !.target = joins[o].target,
                       !.existing = joins[o].existing]]
      BY <1>3 DEF Decide
    <2>8. QED
      BY <2>5, <2>6, <2>7
  <1>4. QED
    BY <1>2, <1>3

LEMMA JoinTyped ==
  ASSUME Typed, LockInv, NEW o \in Owners, JoinStep(o)
  PROVE  Typed' /\ LockInv'
  <1> USE AutoStartAssumption
  <1>1. JobTypes /\ ConfigTypes /\ StartTypes /\ LockTypes /\ ThreadTypes
    BY DEF Typed
  <1>2. joins \in [Owners -> JoinCall] /\ joins[o] \in JoinCall
    BY <1>1 DEF ThreadTypes
  <1>3. ASSUME JoinStays PROVE JobTypes' /\ LockTypes'
    BY <1>1, <1>3, JobStays, LockStays DEF JoinStays
  <1>4. ASSUME JoinStays, joins[o].pc # "none", NEW j \in JoinCall,
               joins' = [joins EXCEPT ![o] = j]
        PROVE  joins' \in [Owners -> JoinCall] /\ LockInv'
    <2>1. joins' \in [Owners -> JoinCall]
      BY <1>2, <1>4
    <2>2. joins'[Sync].pc # "none" => joins[Sync].pc # "none"
      BY <1>2, <1>4, Constants
    <2>3. QED
      BY <1>4, <2>1, <2>2, InvStays DEF JoinStays, handlers
  <1>5. ASSUME JoinStays, UNCHANGED refreshed PROVE ConfigTypes'
    BY <1>1, <1>5, ConfigStays DEF JoinStays
  <1>6. ASSUME Return(o)
        PROVE  \E j \in JoinCall : joins' = [joins EXCEPT ![o] = j]
    <2> DEFINE j == [joins[o] EXCEPT !.pc = "next", !.target = NoTarget,
                                     !.stream = NoStream]
    <2>1. j \in JoinCall
      BY <1>2 DEF JoinCall, JoinPcs, MaybeStream
    <2>2. joins' = [joins EXCEPT ![o] = j]
      BY <1>2, <1>6 DEF Return
    <2>3. QED
      BY <2>1, <2>2
  <1>7. CASE JoinNext(o)
    <2>1. JoinStays /\ UNCHANGED refreshed /\ joins[o].pc # "none"
      BY <1>7 DEF JoinNext
    <2>2. \E j \in JoinCall : joins' = [joins EXCEPT ![o] = j]
      <3>1. CASE joins[o].todo = {}
        BY <1>7, <3>1, Constants DEF JoinNext
      <3>2. CASE joins[o].todo # {}
        <4>1. PICK t \in joins[o].todo :
                joins' = [joins EXCEPT ![o].todo = @ \ {t},
                     ![o].target = IF t \in targets THEN t ELSE NoTarget,
                     ![o].pc = IF t \in targets THEN "enter" ELSE "next"]
          BY <1>7, <3>2 DEF JoinNext
        <4> DEFINE j == [joins[o] EXCEPT !.todo = @ \ {t},
                     !.target = IF t \in targets THEN t ELSE NoTarget,
                     !.pc = IF t \in targets THEN "enter" ELSE "next"]
        <4>2. j \in JoinCall
          BY <1>2 DEF JoinCall, JoinPcs
        <4>3. joins' = [joins EXCEPT ![o] = j]
          BY <1>2, <4>1
        <4>4. QED
          BY <4>2, <4>3
      <3>3. QED
        BY <3>1, <3>2
    <2>3. goroutines' \in [Reservations -> Goroutine]
      <3>1. goroutines \in [Reservations -> Goroutine]
        BY <1>1 DEF ThreadTypes
      <3>2. \/ goroutines' = goroutines
            \/ /\ o \in Reservations
               /\ goroutines' = [goroutines EXCEPT ![o].pc = "finish"]
        BY <1>7 DEF JoinNext
      <3>3. QED
        BY <3>1, <3>2 DEF Goroutine, GoPcs
    <2>4. StartTypes'
      BY <1>1, <1>7, StartsStay DEF JoinNext
    <2>5. QED
      BY <1>3, <1>4, <1>5, <2>1, <2>2, <2>3, <2>4 DEF Typed, ThreadTypes
  <1>8. CASE JoinEnter(o)
    <2>1. JoinStays /\ joins[o].pc # "none" /\ UNCHANGED <<starts, goroutines>>
      BY <1>8 DEF JoinEnter
    <2>2. \E j \in JoinCall : joins' = [joins EXCEPT ![o] = j]
      <3>1. CASE Return(o)
        BY <1>6, <3>1
      <3>2. CASE joins' = [joins EXCEPT ![o].pc = "mutex"]
        <4>1. [joins[o] EXCEPT !.pc = "mutex"] \in JoinCall
          BY <1>2 DEF JoinCall, JoinPcs
        <4>2. joins' = [joins EXCEPT ![o] = [joins[o] EXCEPT !.pc = "mutex"]]
          BY <1>2, <3>2
        <4>3. QED
          BY <4>1, <4>2
      <3>3. CASE joins' = [joins EXCEPT ![o].pc = "decide",
                                        ![o].stream = Matching]
        <4> DEFINE j == [joins[o] EXCEPT !.pc = "decide", !.stream = Matching]
        <4>1. Matching \in MaybeStream
          BY <1>1, MatchingTypes
        <4>2. j \in JoinCall
          BY <1>2, <4>1 DEF JoinCall, JoinPcs
        <4>3. joins' = [joins EXCEPT ![o] = j]
          BY <1>2, <3>3
        <4>4. QED
          BY <4>2, <4>3
      <3>4. QED
        BY <1>8, <3>1, <3>2, <3>3 DEF JoinEnter
    <2>3. refreshed' \in BOOLEAN
      BY <1>1, <1>8 DEF JoinEnter, ConfigTypes
    <2>4. ConfigTypes'
      BY <1>1, <2>1, <2>3 DEF JoinStays, ConfigTypes, config
    <2>5. StartTypes'
      BY <1>1, <2>1, StartsStay
    <2>6. goroutines' \in [Reservations -> Goroutine]
      BY <1>1, <2>1 DEF ThreadTypes
    <2>7. QED
      BY <1>3, <1>4, <2>1, <2>2, <2>4, <2>5, <2>6 DEF Typed, ThreadTypes
  <1>9. CASE JoinDecide(o) \/ JoinAgain(o)
    <2>1. /\ JoinStays /\ joins[o].pc # "none" /\ Return(o)
          /\ UNCHANGED refreshed
      BY <1>9 DEF JoinDecide, JoinAgain
    <2>2. \/ UNCHANGED <<starts, goroutines>>
          \/ \E s \in MaybeStream : Decide(s, o)
      <3>1. joins[o].stream \in MaybeStream /\ Matching \in MaybeStream
        BY <1>1, <1>2, MatchingTypes DEF JoinCall
      <3>2. \/ UNCHANGED <<starts, goroutines>>
            \/ Decide(joins[o].stream, o)
            \/ Decide(Matching, o)
        BY <1>9 DEF JoinDecide, JoinAgain
      <3>3. QED
        BY <3>1, <3>2
    <2>3. StartTypes' /\ goroutines' \in [Reservations -> Goroutine]
      BY <1>1, <2>2, DecideTypes, StartsStay DEF ThreadTypes
    <2>4. QED
      BY <1>3, <1>4, <1>5, <1>6, <2>1, <2>3 DEF Typed, ThreadTypes
  <1>10. QED
    BY <1>7, <1>8, <1>9 DEF JoinStep

\* The goroutine of a reservation
LEMMA GoTyped ==
  ASSUME Typed, LockInv, NEW r \in Reservations, GoStep(r)
  PROVE  Typed' /\ LockInv'
  <1> USE AutoStartAssumption
  <1>1. JobTypes /\ ConfigTypes /\ StartTypes /\ LockTypes /\ ThreadTypes
    BY DEF Typed
  <1>2. goroutines \in [Reservations -> Goroutine]
        /\ goroutines[r] \in Goroutine
    BY <1>1 DEF ThreadTypes
  <1>3. GoStays
    BY DEF GoStep, GoCheck, GoPresence, GoRecheck, StartStream, GoTimer,
           GoCancelled, GoSuccessor, GoFinish
  <1>4. JobTypes' /\ ConfigTypes' /\ LockTypes'
    BY <1>1, <1>3, JobStays, ConfigStays, LockStays DEF GoStays
  <1>5. ASSUME NEW p \in GoPcs, Go(r, p)
        PROVE  goroutines' \in [Reservations -> Goroutine]
    <2>1. [goroutines[r] EXCEPT !.pc = p] \in Goroutine
      BY <1>2, <1>5 DEF Goroutine
    <2>2. goroutines' = [goroutines EXCEPT ![r] =
                           [goroutines[r] EXCEPT !.pc = p]]
      BY <1>2, <1>5 DEF Go
    <2>3. QED
      BY <1>2, <2>1, <2>2
  <1>6. ASSUME NEW g \in Goroutine, goroutines' = [goroutines EXCEPT ![r] = g]
        PROVE  goroutines' \in [Reservations -> Goroutine]
    BY <1>2, <1>6
  <1>7. ASSUME goroutines' \in [Reservations -> Goroutine], StartTypes',
               UNCHANGED joins
        PROVE  Typed' /\ LockInv'
    <2>1. ThreadTypes'
      BY <1>1, <1>7 DEF ThreadTypes
    <2>2. LockInv'
      BY <1>3, <1>7, InvStays DEF GoStays, handlers
    <2>3. QED
      BY <1>4, <1>7, <2>1, <2>2 DEF Typed
  <1>8. CASE GoCheck(r)
    <2>1. PICK p \in {"presence", "finish"} : Go(r, p)
      BY <1>8 DEF GoCheck
    <2>2. goroutines' \in [Reservations -> Goroutine]
      BY <1>5, <2>1 DEF GoPcs
    <2>3. QED
      BY <1>1, <1>7, <1>8, <2>2, StartsStay DEF GoCheck
  <1>9. ASSUME NEW found \in BOOLEAN, GoPresence(r, found)
        PROVE  Typed' /\ LockInv'
    <2>1. PICK b \in BOOLEAN :
            goroutines' = [goroutines EXCEPT ![r].pc = "recheck",
                             ![r].seen = b]
      BY <1>9 DEF GoPresence
    <2>2. [goroutines[r] EXCEPT !.pc = "recheck", !.seen = b] \in Goroutine
      BY <1>2 DEF Goroutine, GoPcs
    <2>3. goroutines' = [goroutines EXCEPT ![r] =
            [goroutines[r] EXCEPT !.pc = "recheck", !.seen = b]]
      BY <1>2, <2>1
    <2>4. goroutines' \in [Reservations -> Goroutine]
      BY <1>6, <2>2, <2>3
    <2>5. QED
      BY <1>1, <1>7, <1>9, <2>4, StartsStay DEF GoPresence
  <1>10. CASE GoRecheck(r)
    <2>1. PICK p \in {"request", "finish"} :
            goroutines' = [goroutines EXCEPT ![r].seen = FALSE, ![r].pc = p]
      BY <1>10 DEF GoRecheck
    <2>2. [goroutines[r] EXCEPT !.seen = FALSE, !.pc = p] \in Goroutine
      BY <1>2 DEF Goroutine, GoPcs
    <2>3. goroutines' = [goroutines EXCEPT ![r] =
            [goroutines[r] EXCEPT !.seen = FALSE, !.pc = p]]
      BY <1>2, <2>1
    <2>4. goroutines' \in [Reservations -> Goroutine]
      BY <1>6, <2>2, <2>3
    <2>5. StartTypes'
      BY <1>1, <1>10 DEF GoRecheck, StartTypes
    <2>6. QED
      BY <1>7, <1>10, <2>4, <2>5 DEF GoRecheck
  <1>11. ASSUME NEW answer \in Answers, StartStream(r, answer)
         PROVE  Typed' /\ LockInv'
    <2> DEFINE p == GoOn(r, answer)
               a == IF p = "wait" THEN goroutines[r].attempt + 1
                    ELSE goroutines[r].attempt
               b == IF Held(r) THEN answer = "busy" ELSE goroutines[r].busy
    <2>1. p \in GoPcs /\ a \in 0..RetryDelays
      <3>1. goroutines[r].attempt \in 0..RetryDelays
        BY <1>2 DEF Goroutine
      <3>2. p \in {"wait", "mutex", "finish"}
        BY DEF GoOn
      <3>3. p = "wait" => goroutines[r].attempt < RetryDelays
        BY DEF GoOn
      <3> HIDE DEF p
      <3>4. QED
        BY <3>1, <3>2, <3>3 DEF GoPcs
    <2>2. b \in BOOLEAN
      BY <1>2 DEF Goroutine
    <2>3. goroutines' = [goroutines EXCEPT ![r] =
            [goroutines[r] EXCEPT !.pc = p, !.attempt = a, !.busy = b]]
      BY <1>2, <1>11 DEF StartStream
    <2> HIDE DEF p, a, b
    <2>4. [goroutines[r] EXCEPT !.pc = p, !.attempt = a, !.busy = b]
            \in Goroutine
      BY <1>2, <2>1, <2>2 DEF Goroutine
    <2>5. goroutines' \in [Reservations -> Goroutine]
      BY <1>6, <2>3, <2>4
    <2>6. QED
      BY <1>1, <1>7, <1>11, <2>5, StartsStay DEF StartStream
  <1>12. CASE GoTimer(r) \/ GoCancelled(r)
    <2>1. PICK p \in {"check", "finish"} : Go(r, p)
      BY <1>12 DEF GoTimer, GoCancelled
    <2>2. goroutines' \in [Reservations -> Goroutine]
      BY <1>5, <2>1 DEF GoPcs
    <2>3. QED
      BY <1>1, <1>7, <1>12, <2>2, StartsStay DEF GoTimer, GoCancelled
  <1>13. CASE GoSuccessor(r)
    <2>1. PICK p \in {"finish", "reenter"} : Go(r, p)
      BY <1>13 DEF GoSuccessor
    <2>2. goroutines' \in [Reservations -> Goroutine]
      BY <1>5, <2>1 DEF GoPcs
    <2> DEFINE j == [NoJoin EXCEPT !.pc = "enter",
                       !.target = goroutines[r].target,
                       !.existing = goroutines[r].existing]
    <2>3. j \in JoinCall
      <3>1. /\ goroutines[r].target \in Target \cup {NoTarget}
            /\ goroutines[r].existing \in BOOLEAN
        BY <1>2 DEF Goroutine
      <3>2. QED
        BY <3>1, Constants DEF JoinCall, JoinPcs
    <2>4. UNCHANGED joins \/ joins' = [joins EXCEPT ![r] = j]
      BY <1>13 DEF GoSuccessor
    <2> HIDE DEF j
    <2>5. r \in Owners /\ r # Sync
      BY DEF Owners
    <2>6. joins' \in [Owners -> JoinCall] /\ joins'[Sync] = joins[Sync]
      BY <1>1, <2>3, <2>4, <2>5, Constants DEF ThreadTypes
    <2>7. LockInv'
      BY <1>3, <2>6, InvStays DEF GoStays, handlers
    <2>8. StartTypes'
      BY <1>1, <1>13, StartsStay DEF GoSuccessor
    <2>9. QED
      BY <1>4, <2>2, <2>6, <2>7, <2>8 DEF Typed, ThreadTypes
  <1>14. CASE GoFinish(r)
    <2>1. goroutines' \in [Reservations -> Goroutine]
      BY <1>6, <1>14, Constants DEF GoFinish
    <2>2. StartTypes'
      BY <1>1, <1>14 DEF GoFinish, Forget, StartTypes
    <2>3. QED
      BY <1>7, <1>14, <2>1, <2>2 DEF GoFinish
  <1>15. QED
    BY <1>8, <1>9, <1>10, <1>11, <1>12, <1>13, <1>14 DEF GoStep

\* Requests, Discord and the clock
LEMMA OutsideTyped ==
  ASSUME Typed, LockInv, Outside
  PROVE  Typed' /\ LockInv'
  <1> USE AutoStartAssumption
  <1>1. JobTypes /\ ConfigTypes /\ StartTypes /\ LockTypes /\ ThreadTypes
    BY DEF Typed
  <1>2. ASSUME LoopTick \/ (\E s \in Streams : StartRequest(s))
        PROVE  Typed' /\ LockInv'
    <2>1. PICK h \in Holders : Lock(h)
      BY <1>2 DEF LoopTick, StartRequest, Holders
    <2>2. /\ holder' \in Holders \cup {NoOne} /\ refresh' = "fetched"
          /\ holder' # NoOne
          /\ starter.pc # "join" /\ joins[Sync].pc = "none"
          /\ inputs' \in 0..MaxInputs
      BY <2>1, LockTaken
    <2>3. /\ starter' \in [pc : {"none", "join"}, stream : MaybeStream,
                           epoch : 0..MaxEpoch]
          /\ starter'.pc # "join"
      <3>1. CASE LoopTick
        BY <1>1, <2>2, <3>1 DEF LoopTick, handlers, LockTypes
      <3>2. ASSUME NEW s \in Streams, StartRequest(s)
            PROVE  /\ starter' \in [pc : {"none", "join"},
                                    stream : MaybeStream, epoch : 0..MaxEpoch]
                   /\ starter'.pc # "join"
        BY <3>2 DEF StartRequest, NoStart, MaybeStream
      <3>3. QED
        BY <1>2, <3>1, <3>2
    <2>4. /\ UNCHANGED <<job, config, starts, refreshed, targets, joins,
                         goroutines, ended>>
          /\ stopper' = stopper
      BY <1>2 DEF LoopTick, StartRequest, handlers
    <2>5. JobTypes'
      BY <1>1, <2>2, <2>4 DEF JobTypes, job
    <2>6. ConfigTypes' /\ StartTypes' /\ ThreadTypes'
      BY <1>1, <2>4, ConfigStays, StartsStay, ThreadsStay
    <2>7. LockTypes'
      BY <1>1, <2>2, <2>3, <2>4 DEF LockTypes
    <2>8. LockInv'
      BY <2>2, <2>3, <2>4 DEF LockInv
    <2>9. QED
      BY <2>5, <2>6, <2>7, <2>8 DEF Typed
  <1>3. ASSUME StopBegin \/ StopRefused \/ DiscordDisconnected
        PROVE  Typed' /\ LockInv'
    <2>1. /\ Input /\ CancelAll
          /\ UNCHANGED <<current, currentEpoch, config, pending, stopped,
                         refreshed, targets, lock, starter, joins,
                         goroutines, ended>>
      BY <1>3 DEF StopBegin, StopRefused, DiscordDisconnected, job, handlers
    <2>2. /\ generation' \in {generation, generation + 1}
          /\ stopping' \in {TRUE, stopping}
          /\ stopper' \in {current, stopper}
      BY <1>3 DEF StopBegin, StopRefused, DiscordDisconnected, job, handlers
    <2>3. stopping' \in BOOLEAN
      BY <1>1, <2>2 DEF JobTypes
    <2>4. JobTypes'
      BY <1>1, <2>1, <2>2, <2>3 DEF JobTypes, Input
    <2>5. StartTypes'
      BY <1>1, <2>1, CancelAllTypes DEF StartTypes
    <2>6. ConfigTypes' /\ ThreadTypes'
      BY <1>1, <2>1, ConfigStays, ThreadsStay
    <2>7. LockTypes'
      BY <1>1, <2>1, <2>2 DEF LockTypes, lock, JobTypes
    <2>8. LockInv'
      BY <2>1, InvStays
    <2>9. QED
      BY <2>4, <2>5, <2>6, <2>7, <2>8 DEF Typed
  <1>4. ASSUME RefreshWaitEnds \/ (\E s \in Streams : CooldownEnds(s))
        PROVE  Typed' /\ LockInv'
    <2>1. /\ UNCHANGED <<job, config, stopped, retry, lock, handlers,
                         goroutines, targets, joins, ended, inputs>>
      BY <1>4 DEF RefreshWaitEnds, CooldownEnds, Elsewhere
    <2>2. refreshed' \in BOOLEAN
      BY <1>1, <1>4 DEF RefreshWaitEnds, CooldownEnds, ConfigTypes
    <2>3. pending' \in [Streams -> {"none", "fresh", "old"}]
      BY <1>1, <1>4 DEF RefreshWaitEnds, CooldownEnds, StartTypes
    <2>4. JobTypes' /\ LockTypes' /\ ThreadTypes'
      BY <1>1, <2>1, JobStays, LockStays, ThreadsStay
    <2>5. ConfigTypes'
      BY <1>1, <2>1, <2>2 DEF ConfigTypes, config
    <2>6. StartTypes'
      BY <1>1, <2>1, <2>3 DEF StartTypes
    <2>7. LockInv'
      BY <2>1, InvStays DEF handlers
    <2>8. QED
      BY <2>4, <2>5, <2>6, <2>7 DEF Typed
  <1>5. ASSUME NEW c \in Callbacks, Enters(c) \/ Resyncs(c)
        PROVE  Typed' /\ LockInv'
    <2>1. /\ Input
          /\ UNCHANGED <<job, config, stopped, retry, lock, handlers,
                         goroutines, targets, pending, refreshed>>
          /\ ended' \in {ended, Nothing}
      BY <1>5 DEF Enters, Resyncs, Elsewhere
    <2>2. PICK j \in JoinCall : joins' = [joins EXCEPT ![c] = j]
      <3>1. targets \in SUBSET Target
        BY <1>1 DEF ConfigTypes
      <3>2. /\ [NoJoin EXCEPT !.pc = "next", !.todo = targets] \in JoinCall
            /\ [NoJoin EXCEPT !.pc = "next", !.todo = targets,
                              !.existing = TRUE] \in JoinCall
        BY <3>1, Constants DEF JoinCall, JoinPcs
      <3>3. QED
        BY <1>5, <3>2 DEF Enters, Resyncs
    <2>3. c \in Owners /\ c # Sync
      BY DEF Owners
    <2>4. ThreadTypes' /\ joins'[Sync] = joins[Sync]
      BY <1>1, <2>1, <2>2, <2>3, Constants DEF ThreadTypes
    <2>5. JobTypes'
      BY <1>1, <2>1, Constants DEF JobTypes, job, Input
    <2>6. ConfigTypes' /\ LockTypes'
      BY <1>1, <2>1, ConfigStays, LockStays
    <2>7. StartTypes'
      BY <1>1, <2>1 DEF StartTypes
    <2>8. LockInv'
      BY <2>1, <2>4, InvStays DEF handlers
    <2>9. QED
      BY <2>4, <2>5, <2>6, <2>7, <2>8 DEF Typed
  <1>6. QED
    BY <1>2, <1>3, <1>4, <1>5 DEF Outside

\* Every step of the specification keeps both.
LEMMA NextTyped == Typed /\ LockInv /\ [Next]_vars => Typed' /\ LockInv'
  <1> SUFFICES ASSUME Typed, LockInv, [Next]_vars PROVE Typed' /\ LockInv'
    OBVIOUS
  <1>1. CASE UNCHANGED vars
    <2>1. UNCHANGED <<job, config, starts, refreshed, targets, lock,
                      handlers, joins, goroutines, ended, inputs>>
      BY <1>1 DEF vars
    <2>2. Typed'
      BY <2>1, JobStays, ConfigStays, StartsStay, LockStays, ThreadsStay
         DEF Typed
    <2>3. LockInv'
      BY <2>1, InvStays DEF handlers
    <2>4. QED
      BY <2>2, <2>3
  <1>2. CASE Next
    BY <1>2, RefreshTyped, HandlerTyped, JoinTyped, GoTyped, OutsideTyped
       DEF Next
  <1>3. QED
    BY <1>1, <1>2

\* The types hold and runtimeRefreshMu is used as one lock: a start and a
\* replay of members happen only in the hands of its holder.
THEOREM TypeCorrect == Spec => [](TypeOK /\ LockInv)
  <1>1. Init => Typed /\ LockInv
    BY InitTyped
  <1>2. (Typed /\ LockInv) /\ [Next]_vars => (Typed /\ LockInv)'
    BY NextTyped
  <1>3. (Typed /\ LockInv) => (TypeOK /\ LockInv)
    BY Types
  <1>4. QED
    BY <1>1, <1>2, <1>3, PTL DEF Spec

-----------------------------------------------------------------------------
(* Reservations.                                                           *)

\* A goroutine that evaluates the event again waits for that evaluation.
Reentered ==
  \A r \in Reservations : joins[r].pc # "none" => goroutines[r].pc = "reenter"

\* A goroutine that holds runtimeRefreshMu is in a refresh, its own after a
\* stale start or that of the evaluation it waits for.
HolderRefreshes ==
  holder \in Reservations =>
    joins[holder].pc = "refreshing" \/ goroutines[holder].pc = "refreshing"

\* Past its first check and not yet at its end
Acting(g) == g.pc \notin {"check", "finish"}

IInv == /\ Typed /\ LockInv /\ Reentered /\ HolderRefreshes
        /\ ReservationLive /\ HeldIsCurrent

\* The replay of a refresh is about the projection of that refresh.
SyncAims ==
  /\ Cardinality(Waiting) <= 1
  /\ joins[Sync].pc # "none" => joins[Sync].todo \subseteq Selected
  /\ joins[Sync].pc = "enter" => joins[Sync].target \in Selected

SelfInv == MonitorFilters => SyncAims /\ NoSelfWait

\* With the monitor, at most one stream is projected as waiting.
LEMMA OneSelected ==
  ASSUME MonitorFilters, NEW w \in [Streams -> 0..MaxEpoch]
  PROVE  Cardinality({s \in Streams : Project(w)[s] # 0}) <= 1
  <1> DEFINE W == {s \in Streams : Project(w)[s] # 0}
  <1>1. IsFiniteSet(W)
    BY AutoStartAssumption, FS_Subset
  <1>2. Cardinality(W) \in Nat
    BY <1>1, FS_CardinalityType
  <1>3. CASE Ambiguous(w)
    <2>1. W = {}
      BY <1>3 DEF Project, SelectWaiting, Nothing
    <2>2. QED
      BY <2>1, FS_EmptySet
  <1>4. CASE ~Ambiguous(w)
    <2>1. W = {s \in Streams : w[s] # 0}
      BY <1>4 DEF Project, SelectWaiting
    <2>2. ~(Cardinality(W) > 1)
      BY <1>4, <2>1 DEF Ambiguous
    <2> HIDE DEF W
    <2>3. Cardinality(W) <= 1
      BY <1>2, <2>2
    <2>4. QED
      BY <2>3 DEF W
  <1>5. QED
    BY <1>3, <1>4

\* Then a selected target is of the stream that is found.
LEMMA OneMatches ==
  ASSUME ConfigTypes, Cardinality(Waiting) <= 1, Selected # {}
  PROVE  Matching \in Streams
  <1>1. Waiting # {} /\ Waiting \subseteq Streams
    BY DEF Selected, Waiting
  <1>2. IsFiniteSet(Waiting) /\ Cardinality(Waiting) \in Nat
    BY <1>1, AutoStartAssumption, FS_Subset, FS_CardinalityType
  <1>3. Cardinality(Waiting) # 0
    BY <1>1, <1>2, FS_EmptySet
  <1>4. Cardinality(Waiting) = 1
    BY <1>2, <1>3
  <1>5. QED
    BY <1>1, <1>4 DEF Matching

LEMMA InitReserved == Init => IInv /\ SelfInv
  <1> SUFFICES ASSUME Init PROVE IInv /\ SelfInv
    OBVIOUS
  <1> USE AutoStartAssumption
  <1>1. Typed /\ LockInv
    BY InitTyped
  <1>2. \A o \in Owners : joins[o].pc = "none"
    BY DEF Init, NoJoin
  <1>3. \A r \in Reservations : goroutines[r] = Gone
    BY DEF Init
  <1>4. \A s \in Streams : retry[s] = NoReservation
    BY DEF Init
  <1>5. Reentered /\ HolderRefreshes
    BY <1>2 DEF Reentered, HolderRefreshes, Owners, Init
  <1>6. ReservationLive
    BY <1>4 DEF ReservationLive
  <1>7. HeldIsCurrent
    BY <1>3 DEF HeldIsCurrent, Held, StreamOf, Gone, NoTarget
  <1>8. ASSUME MonitorFilters PROVE Cardinality(Waiting) <= 1
    <2>1. PICK w \in [Streams -> 0..1] : defaults = Project(w)
      BY DEF Init
    <2>2. w \in [Streams -> 0..MaxEpoch]
      OBVIOUS
    <2>3. Waiting = {s \in Streams : Project(w)[s] # 0}
      BY <2>1 DEF Waiting
    <2>4. QED
      BY <1>8, <2>2, <2>3, OneSelected
  <1>9. SelfInv
    BY <1>2, <1>8, Constants DEF SelfInv, SyncAims, NoSelfWait
  <1>10. QED
    BY <1>1, <1>5, <1>6, <1>7, <1>9 DEF IInv

\* A step that makes no reservation and lets no goroutine past its check
LEMMA Onward ==
  ASSUME Typed, Typed', ReservationLive, HeldIsCurrent,
         \A s \in Streams : retry'[s] \in {retry[s], NoReservation},
         \A s \in Streams : retry'[s] # NoReservation =>
           /\ goroutines'[retry[s]].pc # "none"
           /\ goroutines'[retry[s]].target = goroutines[retry[s]].target
           /\ goroutines'[retry[s]].gen = goroutines[retry[s]].gen
           /\ Acting(goroutines'[retry[s]]) => Acting(goroutines[retry[s]])
           /\ defaults'[s] \in {defaults[s],
                                goroutines[retry[s]].target.epoch}
           /\ generation' = generation
           /\ current = NoStream => current' = NoStream
  PROVE  ReservationLive' /\ HeldIsCurrent'
  <1> USE AutoStartAssumption
  <1>1. ReservationLive'
    BY DEF ReservationLive, StreamOf
  <1>2. ASSUME NEW r \in Reservations, Held(r)', Acting(goroutines'[r])
        PROVE  /\ current' = NoStream
               /\ generation' = goroutines'[r].gen
               /\ defaults'[StreamOf(r)'] = goroutines'[r].target.epoch
    <2> DEFINE s == goroutines'[r].target.stream
    <2>1. s \in Streams /\ retry'[s] = r
      BY <1>2 DEF Held, StreamOf, Typed, ThreadTypes, Goroutine, Target,
                  NoTarget
    <2>2. retry'[s] # NoReservation /\ retry[s] = r
      BY <2>1
    <2>3. /\ goroutines'[r].target = goroutines[r].target
          /\ goroutines'[r].gen = goroutines[r].gen
          /\ Acting(goroutines[r])
          /\ defaults'[s] \in {defaults[s], goroutines[r].target.epoch}
          /\ generation' = generation
          /\ current = NoStream => current' = NoStream
      BY <1>2, <2>1, <2>2
    <2>4. StreamOf(r) = s /\ StreamOf(r)' = s
      BY <2>3 DEF StreamOf
    <2>5. Held(r)
      BY <2>1, <2>2, <2>4 DEF Held
    <2>6. /\ current = NoStream
          /\ generation = goroutines[r].gen
          /\ defaults[s] = goroutines[r].target.epoch
      BY <2>3, <2>4, <2>5 DEF HeldIsCurrent, Acting
    <2>7. QED
      BY <2>3, <2>4, <2>6
  <1>3. HeldIsCurrent'
    BY <1>2 DEF HeldIsCurrent, Acting
  <1>4. QED
    BY <1>1, <1>3

\* A step that cancels all reservations
LEMMA Cancels ==
  ASSUME Typed', CancelAll
  PROVE  ReservationLive' /\ HeldIsCurrent'
  <1>1. \A s \in Streams : retry'[s] = NoReservation
    BY DEF CancelAll
  <1>2. ReservationLive'
    BY <1>1 DEF ReservationLive
  <1>3. ASSUME NEW r \in Reservations, Held(r)' PROVE FALSE
    <2>1. goroutines'[r].target.stream \in Streams
      BY <1>3 DEF Held, StreamOf, Typed, ThreadTypes, Goroutine, Target,
                  NoTarget
    <2>2. retry'[goroutines'[r].target.stream] = r
      BY <1>3 DEF Held, StreamOf
    <2>3. QED
      BY <1>1, <2>1, <2>2, AutoStartAssumption
  <1>4. QED
    BY <1>2, <1>3 DEF HeldIsCurrent

\* The goroutine of r keeps its target and is not let past its check
GoesOn(r) ==
  /\ goroutines[r].pc # "none" => goroutines'[r].pc # "none"
  /\ goroutines'[r].target = goroutines[r].target
  /\ goroutines'[r].gen = goroutines[r].gen
  /\ Acting(goroutines'[r]) => Acting(goroutines[r])

LEMMA FewerReservations ==
  ASSUME Typed, Typed', ReservationLive, HeldIsCurrent,
         \A s \in Streams : retry'[s] \in {retry[s], NoReservation},
         UNCHANGED <<defaults, generation>>,
         current = NoStream => current' = NoStream,
         \A r \in Reservations : GoesOn(r)
  PROVE  ReservationLive' /\ HeldIsCurrent'
  <1>1. ASSUME NEW s \in Streams, retry'[s] # NoReservation
        PROVE  /\ goroutines'[retry[s]].pc # "none"
               /\ goroutines'[retry[s]].target = goroutines[retry[s]].target
               /\ goroutines'[retry[s]].gen = goroutines[retry[s]].gen
               /\ Acting(goroutines'[retry[s]])
                    => Acting(goroutines[retry[s]])
               /\ defaults'[s] \in {defaults[s],
                                    goroutines[retry[s]].target.epoch}
               /\ generation' = generation
               /\ current = NoStream => current' = NoStream
    <2>1. retry[s] # NoReservation
      BY <1>1
    <2>2. retry[s] \in Reservations /\ goroutines[retry[s]].pc # "none"
      BY <2>1 DEF ReservationLive, Typed, StartTypes
    <2>3. GoesOn(retry[s])
      BY <2>2
    <2>4. QED
      BY <2>2, <2>3 DEF GoesOn
  <1>2. QED
    BY <1>1, Onward

LEMMA SameReservations ==
  ASSUME Typed, Typed', ReservationLive, HeldIsCurrent,
         UNCHANGED <<retry, defaults, generation>>,
         current = NoStream => current' = NoStream,
         \A r \in Reservations : GoesOn(r)
  PROVE  ReservationLive' /\ HeldIsCurrent'
  <1>1. \A s \in Streams : retry'[s] \in {retry[s], NoReservation}
    OBVIOUS
  <1>2. QED
    BY <1>1, FewerReservations

\* Goroutines that do not move go on.
LEMMA StillGoesOn ==
  ASSUME UNCHANGED goroutines
  PROVE  \A r \in Reservations : GoesOn(r)
  BY DEF GoesOn

\* So does one that only moves to another place.
LEMMA MovesOn ==
  ASSUME Typed, NEW r \in Reservations, NEW p,
         goroutines' = [goroutines EXCEPT ![r].pc = p],
         p \notin {"none"},
         p \in {"check", "finish"} \/ Acting(goroutines[r])
  PROVE  /\ \A q \in Reservations : GoesOn(q)
         /\ goroutines'[r].pc = p
         /\ \A q \in Reservations : q # r => goroutines'[q] = goroutines[q]
  <1>1. goroutines \in [Reservations -> Goroutine]
    BY DEF Typed, ThreadTypes
  <1>2. /\ goroutines'[r] = [goroutines[r] EXCEPT !.pc = p]
        /\ \A q \in Reservations : q # r => goroutines'[q] = goroutines[q]
    BY <1>1
  <1>3. goroutines[r] \in Goroutine
    BY <1>1
  <1>4. /\ goroutines'[r].pc = p
        /\ goroutines'[r].target = goroutines[r].target
        /\ goroutines'[r].gen = goroutines[r].gen
    BY <1>2, <1>3 DEF Goroutine
  <1>5. GoesOn(r)
    BY <1>4 DEF GoesOn, Acting
  <1>6. \A q \in Reservations : q # r => GoesOn(q)
    BY <1>2 DEF GoesOn
  <1>7. QED
    BY <1>2, <1>4, <1>5, <1>6

\* Releasing the lock
LEMMA UnlockReserved ==
  ASSUME IInv, NEW ok \in BOOLEAN, Unlock(ok)
  PROVE  /\ Reentered' /\ HolderRefreshes'
         /\ \A r \in Reservations : GoesOn(r)
  <1> USE AutoStartAssumption
  <1>1. Typed /\ Reentered /\ HolderRefreshes
    BY DEF IInv
  <1>2. HolderRefreshes'
    BY DEF Unlock, HolderRefreshes
  <1>3. joins \in [Owners -> JoinCall]
    BY <1>1 DEF Typed, ThreadTypes
  <1>4. CASE holder \in Owners /\ joins[holder].pc = "refreshing"
    <2>1. UNCHANGED goroutines
      BY <1>4 DEF Unlock
    <2>2. \A o \in Owners : joins'[o].pc # "none" => joins[o].pc # "none"
      BY <1>3, <1>4 DEF Unlock
    <2>3. Reentered'
      BY <1>1, <2>1, <2>2 DEF Reentered, Owners
    <2>4. QED
      BY <1>2, <2>1, <2>3, StillGoesOn
  <1>5. CASE ~(holder \in Owners /\ joins[holder].pc = "refreshing")
    <2>1. UNCHANGED joins
      BY <1>5 DEF Unlock
    <2>2. CASE holder \in Reservations
      <3>1. goroutines[holder].pc = "refreshing"
        BY <1>1, <1>5, <2>2 DEF HolderRefreshes, Owners
      <3>2. PICK p \in {"successor", "finish"} :
              goroutines' = [goroutines EXCEPT ![holder].pc = p]
        BY <1>5, <2>2 DEF Unlock
      <3>3. /\ \A q \in Reservations : GoesOn(q)
            /\ \A q \in Reservations :
                 q # holder => goroutines'[q] = goroutines[q]
        BY <1>1, <2>2, <3>1, <3>2, MovesOn DEF Acting
      <3>4. joins[holder].pc = "none"
        BY <1>1, <2>2, <3>1 DEF Reentered
      <3>5. Reentered'
        BY <1>1, <2>1, <3>3, <3>4 DEF Reentered
      <3>6. QED
        BY <1>2, <3>3, <3>5
    <2>3. CASE holder \notin Reservations
      <3>1. UNCHANGED goroutines
        BY <1>5, <2>3 DEF Unlock
      <3>2. Reentered'
        BY <1>1, <2>1, <3>1 DEF Reentered
      <3>3. QED
        BY <1>2, <3>1, <3>2, StillGoesOn
    <2>4. QED
      BY <2>2, <2>3
  <1>6. QED
    BY <1>4, <1>5

\* Replacing the projection
LEMMA DefaultsReserved ==
  ASSUME IInv, Typed', NEW w \in [Streams -> 0..MaxEpoch],
         NEW assigned, SetStreamVoiceDefaults(w, assigned),
         UNCHANGED <<goroutines, current, generation>>
  PROVE  ReservationLive' /\ HeldIsCurrent'
  <1>1. Typed /\ ReservationLive /\ HeldIsCurrent
    BY DEF IInv
  <1>2. ASSUME NEW s \in Streams
        PROVE  /\ retry'[s] \in {retry[s], NoReservation}
               /\ retry'[s] # NoReservation =>
                    /\ retry[s] # NoReservation
                    /\ goroutines[retry[s]].target.epoch = w[s]
    BY DEF SetStreamVoiceDefaults, Kept
  <1>3. ASSUME NEW s \in Streams, retry'[s] # NoReservation
        PROVE  /\ goroutines'[retry[s]].pc # "none"
               /\ goroutines'[retry[s]].target = goroutines[retry[s]].target
               /\ goroutines'[retry[s]].gen = goroutines[retry[s]].gen
               /\ Acting(goroutines'[retry[s]])
                    => Acting(goroutines[retry[s]])
               /\ defaults'[s] \in {defaults[s],
                                    goroutines[retry[s]].target.epoch}
               /\ generation' = generation
               /\ current = NoStream => current' = NoStream
    BY <1>1, <1>2, <1>3 DEF ReservationLive, SetStreamVoiceDefaults
  <1>4. QED
    BY <1>1, <1>2, <1>3, Onward

-----------------------------------------------------------------------------
(* Every step keeps the reservations.                                      *)

Reserved == Reentered /\ HolderRefreshes /\ ReservationLive /\ HeldIsCurrent

\* Neither the threads nor the holder of the lock move
LEMMA ThreadsReserved ==
  ASSUME Reentered, HolderRefreshes, UNCHANGED <<goroutines, joins, holder>>
  PROVE  Reentered' /\ HolderRefreshes'
  BY DEF Reentered, HolderRefreshes

LEMMA RefreshReserved ==
  ASSUME IInv, RefreshStep PROVE Reserved'
  <1> USE AutoStartAssumption
  <1>1. /\ Typed /\ LockInv /\ Reentered /\ HolderRefreshes
        /\ ReservationLive /\ HeldIsCurrent
    BY DEF IInv
  <1>2. Typed'
    BY <1>1, RefreshTyped
  <1>3. /\ joins \in [Owners -> JoinCall]
        /\ goroutines \in [Reservations -> Goroutine]
    BY <1>1 DEF Typed, ThreadTypes
  <1>4. ASSUME NEW o \in Owners, JoinRefresh(o) \/ JoinRefreshFails(o)
        PROVE  Reserved'
    <2>1. /\ joins[o].pc = "mutex" /\ holder = NoOne
          /\ UNCHANGED <<job, config, starts, goroutines>>
      BY <1>4 DEF JoinRefresh, JoinRefreshFails, Lock
    <2>2. \A q \in Owners : joins'[q].pc # "none" => joins[q].pc # "none"
      BY <1>3, <1>4, <2>1 DEF JoinRefresh, JoinRefreshFails
    <2>3. Reentered'
      BY <1>1, <2>1, <2>2 DEF Reentered, Owners
    <2>4. HolderRefreshes'
      <3>1. CASE JoinRefresh(o)
        <4>1. holder' = o /\ joins'[o].pc = "refreshing"
          BY <1>3, <3>1 DEF JoinRefresh, Lock, JoinCall
        <4>2. QED
          BY <4>1 DEF HolderRefreshes
      <3>2. CASE JoinRefreshFails(o)
        BY <2>1, <3>2 DEF JoinRefreshFails, lock, HolderRefreshes
      <3>3. QED
        BY <1>4, <3>1, <3>2
    <2>5. ReservationLive' /\ HeldIsCurrent'
      BY <1>1, <1>2, <2>1, StillGoesOn, SameReservations
         DEF job, config, starts
    <2>6. QED
      BY <2>3, <2>4, <2>5 DEF Reserved
  <1>5. ASSUME NEW r \in Reservations, StaleRefresh(r) \/ StaleRefreshFails(r)
        PROVE  Reserved'
    <2>1. /\ goroutines[r].pc = "mutex" /\ holder = NoOne
          /\ UNCHANGED <<job, config, starts, joins>>
      BY <1>5 DEF StaleRefresh, StaleRefreshFails, Lock
    <2>2. PICK p \in {"refreshing", "finish"} :
            /\ goroutines' = [goroutines EXCEPT ![r].pc = p]
            /\ \/ p = "refreshing" /\ holder' = r
               \/ holder' = NoOne
      BY <1>5, <2>1 DEF StaleRefresh, StaleRefreshFails, Lock, lock
    <2>3. /\ \A q \in Reservations : GoesOn(q)
          /\ goroutines'[r].pc = p
          /\ \A q \in Reservations : q # r => goroutines'[q] = goroutines[q]
      BY <1>1, <2>1, <2>2, MovesOn DEF Acting
    <2>4. joins[r].pc = "none"
      BY <1>1, <2>1 DEF Reentered
    <2>5. Reentered'
      BY <1>1, <2>1, <2>3, <2>4 DEF Reentered
    <2>6. HolderRefreshes'
      BY <2>2, <2>3 DEF HolderRefreshes
    <2>7. ReservationLive' /\ HeldIsCurrent'
      BY <1>1, <1>2, <2>1, <2>3, SameReservations DEF job, config, starts
    <2>8. QED
      BY <2>5, <2>6, <2>7 DEF Reserved
  <1>6. ASSUME Apply \/ Refuse PROVE Reserved'
    <2>1. PICK w \in [Streams -> 0..MaxEpoch] :
            \E a : SetStreamVoiceDefaults(w, a)
      <3>1. CASE Apply
        <4>1. PICK v \in Projections :
                SetStreamVoiceDefaults(Project(v), Assigned(v))
          BY <3>1 DEF Apply
        <4>2. Project(v) \in [Streams -> 0..MaxEpoch]
          BY ProjectTypes DEF Projections
        <4>3. QED
          BY <4>1, <4>2
      <3>2. CASE Refuse
        <4>1. \E a : SetStreamVoiceDefaults(Nothing, a)
          BY <3>2 DEF Refuse
        <4>2. QED
          BY <4>1, Constants
      <3>3. QED
        BY <1>6, <3>1, <3>2
    <2>2. UNCHANGED <<goroutines, joins, holder, current, generation>>
      BY <1>6 DEF Apply, Refuse, job
    <2>3. ReservationLive' /\ HeldIsCurrent'
      BY <1>2, <2>1, <2>2, DefaultsReserved
    <2>4. QED
      BY <1>1, <2>2, <2>3, ThreadsReserved DEF Reserved
  <1>7. ASSUME NEW found \in BOOLEAN, SetTargets(found) PROVE Reserved'
    <2>1. UNCHANGED <<job, config, starts, goroutines, holder>>
      BY <1>7 DEF SetTargets
    <2>2. \A q \in Reservations : q # Sync /\ q \in Owners
      BY DEF Owners
    <2>3. \A q \in Reservations : joins'[q] = joins[q]
      BY <1>3, <1>7, <2>2 DEF SetTargets
    <2>4. Reentered' /\ HolderRefreshes'
      BY <1>1, <2>1, <2>3 DEF Reentered, HolderRefreshes
    <2>5. ReservationLive' /\ HeldIsCurrent'
      BY <1>1, <1>2, <2>1, StillGoesOn, SameReservations
         DEF job, config, starts
    <2>6. QED
      BY <2>4, <2>5 DEF Reserved
  <1>8. ASSUME Synced PROVE Reserved'
    <2>1. /\ Reentered' /\ HolderRefreshes'
          /\ \A r \in Reservations : GoesOn(r)
      BY <1>8, UnlockReserved DEF Synced
    <2>2. ReservationLive' /\ HeldIsCurrent'
      BY <1>1, <1>2, <1>8, <2>1, SameReservations
         DEF Synced, job, config, starts
    <2>3. QED
      BY <2>1, <2>2 DEF Reserved
  <1>9. QED
    BY <1>4, <1>5, <1>6, <1>7, <1>8 DEF RefreshStep

LEMMA HandlerReserved ==
  ASSUME IInv, HandlerStep PROVE Reserved'
  <1> USE AutoStartAssumption
  <1>1. /\ Typed /\ LockInv /\ Reentered /\ HolderRefreshes
        /\ ReservationLive /\ HeldIsCurrent
    BY DEF IInv
  <1>2. Typed'
    BY <1>1, HandlerTyped
  <1>3. ASSUME StartBegin \/ StopFails \/ StopFinish PROVE Reserved'
    <2>1. /\ UNCHANGED <<retry, defaults, generation, goroutines, joins,
                         holder>>
          /\ current = NoStream => current' = NoStream
      BY <1>3 DEF StartBegin, StopFails, StopFinish, job, config, starts,
                  lock
    <2>2. ReservationLive' /\ HeldIsCurrent'
      BY <1>1, <1>2, <2>1, StillGoesOn, SameReservations
    <2>3. QED
      BY <1>1, <2>1, <2>2, ThreadsReserved DEF Reserved
  <1>4. ASSUME StartRefused \/ JoinVoiceFails PROVE Reserved'
    <2>1. /\ UNCHANGED <<retry, defaults, generation, current>>
          /\ Unlock(FALSE)
      BY <1>4 DEF StartRefused, JoinVoiceFails, job, config, starts
    <2>2. /\ Reentered' /\ HolderRefreshes'
          /\ \A r \in Reservations : GoesOn(r)
      BY <2>1, UnlockReserved
    <2>3. ReservationLive' /\ HeldIsCurrent'
      BY <1>1, <1>2, <2>1, <2>2, SameReservations
    <2>4. QED
      BY <2>2, <2>3 DEF Reserved
  <1>5. ASSUME StartCommit PROVE Reserved'
    <2>1. CancelAll /\ Unlock(TRUE)
      BY <1>5 DEF StartCommit
    <2>2. QED
      BY <1>2, <2>1, UnlockReserved, Cancels DEF Reserved
  <1>6. QED
    BY <1>3, <1>4, <1>5 DEF HandlerStep

LEMMA OutsideReserved ==
  ASSUME IInv, Outside PROVE Reserved'
  <1> USE AutoStartAssumption
  <1>1. /\ Typed /\ LockInv /\ Reentered /\ HolderRefreshes
        /\ ReservationLive /\ HeldIsCurrent
    BY DEF IInv
  <1>2. Typed'
    BY <1>1, OutsideTyped
  <1>3. ASSUME LoopTick \/ (\E s \in Streams : StartRequest(s))
        PROVE  Reserved'
    <2>1. /\ UNCHANGED <<job, config, starts, joins, goroutines>>
          /\ holder' \in {Loop, Http}
      BY <1>3 DEF LoopTick, StartRequest, Lock
    <2>2. Reentered' /\ HolderRefreshes'
      BY <1>1, <2>1 DEF Reentered, HolderRefreshes
    <2>3. ReservationLive' /\ HeldIsCurrent'
      BY <1>1, <1>2, <2>1, StillGoesOn, SameReservations
         DEF job, config, starts
    <2>4. QED
      BY <2>2, <2>3 DEF Reserved
  <1>4. ASSUME StopBegin \/ StopRefused \/ DiscordDisconnected
        PROVE  Reserved'
    <2>1. CancelAll /\ UNCHANGED <<goroutines, joins, holder>>
      BY <1>4 DEF StopBegin, StopRefused, DiscordDisconnected, lock
    <2>2. QED
      BY <1>1, <1>2, <2>1, Cancels, ThreadsReserved DEF Reserved
  <1>5. ASSUME RefreshWaitEnds \/ (\E s \in Streams : CooldownEnds(s))
        PROVE  Reserved'
    <2>1. UNCHANGED <<job, config, retry, lock, goroutines, joins>>
      BY <1>5 DEF RefreshWaitEnds, CooldownEnds, Elsewhere
    <2>2. ReservationLive' /\ HeldIsCurrent'
      BY <1>1, <1>2, <2>1, StillGoesOn, SameReservations DEF job, config
    <2>3. QED
      BY <1>1, <2>1, <2>2, ThreadsReserved DEF Reserved, lock
  <1>6. ASSUME NEW c \in Callbacks, Enters(c) \/ Resyncs(c)
        PROVE  Reserved'
    <2>1. UNCHANGED <<job, config, retry, lock, goroutines>>
      BY <1>6 DEF Enters, Resyncs, Elsewhere
    <2>2. \A q \in Reservations : joins'[q] = joins[q]
      <3>1. \A q \in Reservations : q # c /\ q \in Owners
        BY DEF Owners
      <3>2. PICK j : joins' = [joins EXCEPT ![c] = j]
        BY <1>6 DEF Enters, Resyncs
      <3>3. QED
        BY <1>1, <3>1, <3>2 DEF Typed, ThreadTypes
    <2>3. Reentered' /\ HolderRefreshes'
      BY <1>1, <2>1, <2>2 DEF Reentered, HolderRefreshes, lock
    <2>4. ReservationLive' /\ HeldIsCurrent'
      BY <1>1, <1>2, <2>1, StillGoesOn, SameReservations DEF job, config
    <2>5. QED
      BY <2>3, <2>4 DEF Reserved
  <1>7. QED
    BY <1>3, <1>4, <1>5, <1>6 DEF Outside

\* A new reservation is of a goroutine that was not running, for the stream
\* of its target, and has its check before it.
LEMMA DecideReserved ==
  ASSUME IInv, Typed', NEW s \in MaybeStream, NEW o \in Owners, Decide(s, o),
         UNCHANGED <<current, generation, defaults>>
  PROVE  /\ ReservationLive' /\ HeldIsCurrent'
         /\ \A q \in Reservations : goroutines[q].pc # "none" =>
              goroutines'[q] = goroutines[q]
  <1> USE AutoStartAssumption
  <1>1. Typed /\ ReservationLive /\ HeldIsCurrent
    BY DEF IInv
  <1>2. CASE UNCHANGED <<retry, goroutines>>
    BY <1>1, <1>2, StillGoesOn, SameReservations
  <1>3. CASE ~UNCHANGED <<retry, goroutines>>
    <2>1. ~Ignored(s, o)
      BY <1>3 DEF Decide, starts
    <2>2. s \in Streams /\ joins[o].target.stream = s
      BY <2>1 DEF Ignored, Authorized, MaybeStream
    <2>3. PICK r \in Reservations :
            /\ retry[s] = NoReservation
            /\ goroutines[r].pc = "none"
            /\ retry' = [retry EXCEPT ![s] = r]
            /\ goroutines' = [goroutines EXCEPT ![r] =
                 [Gone EXCEPT !.pc = "check", !.gen = generation,
                    !.target = joins[o].target,
                    !.existing = joins[o].existing]]
      BY <1>3, <2>1 DEF Decide
    <2>4. /\ goroutines'[r].pc = "check"
          /\ goroutines'[r].target.stream = s
          /\ \A q \in Reservations : q # r => goroutines'[q] = goroutines[q]
      <3>1. goroutines'[r] = [Gone EXCEPT !.pc = "check", !.gen = generation,
                    !.target = joins[o].target,
                    !.existing = joins[o].existing]
        BY <1>1, <2>3 DEF Typed, ThreadTypes
      <3>2. \A q \in Reservations : q # r => goroutines'[q] = goroutines[q]
        BY <1>1, <2>3 DEF Typed, ThreadTypes
      <3>3. QED
        BY <2>2, <3>1, <3>2 DEF Gone
    <2>5. /\ retry'[s] = r
          /\ \A t \in Streams : t # s => retry'[t] = retry[t]
      BY <1>1, <2>2, <2>3 DEF Typed, StartTypes
    <2>6. \A t \in Streams : retry[t] # r
      BY <1>1, <2>3 DEF ReservationLive
    <2>7. ReservationLive'
      <3> SUFFICES ASSUME NEW t \in Streams, retry'[t] # NoReservation
                   PROVE  /\ goroutines'[retry'[t]].pc # "none"
                          /\ goroutines'[retry'[t]].target.stream = t
        BY DEF ReservationLive, StreamOf
      <3>1. CASE t = s
        BY <2>4, <2>5, <3>1
      <3>2. CASE t # s
        <4>1. retry'[t] = retry[t] /\ retry[t] # r
          BY <2>5, <2>6, <3>2
        <4>2. retry[t] \in Reservations
          BY <1>1, <4>1 DEF Typed, StartTypes
        <4>3. QED
          BY <1>1, <2>4, <4>1, <4>2 DEF ReservationLive, StreamOf
      <3>3. QED
        BY <3>1, <3>2
    <2>8. HeldIsCurrent'
      <3> SUFFICES ASSUME NEW q \in Reservations, Held(q)',
                          goroutines'[q].pc \notin {"check", "finish"}
                   PROVE  /\ current' = NoStream
                          /\ generation' = goroutines'[q].gen
                          /\ defaults'[StreamOf(q)'] =
                               goroutines'[q].target.epoch
        BY DEF HeldIsCurrent
      <3>1. q # r
        BY <2>4
      <3>2. goroutines'[q] = goroutines[q]
        BY <2>4, <3>1
      <3>3. StreamOf(q)' = StreamOf(q) /\ StreamOf(q) # NoStream
        BY <3>2 DEF StreamOf, Held
      <3>4. StreamOf(q) \in Streams
        BY <1>1, <3>3 DEF StreamOf, Typed, ThreadTypes, Goroutine, Target,
                          NoTarget
      <3>5. Held(q)
        BY <2>5, <3>1, <3>3, <3>4 DEF Held
      <3>6. QED
        BY <1>1, <3>2, <3>3, <3>5 DEF HeldIsCurrent
    <2>9. QED
      BY <2>3, <2>4, <2>7, <2>8
  <1>4. QED
    BY <1>2, <1>3

LEMMA JoinReserved ==
  ASSUME IInv, NEW o \in Owners, JoinStep(o) PROVE Reserved'
  <1> USE AutoStartAssumption
  <1>1. /\ Typed /\ LockInv /\ Reentered /\ HolderRefreshes
        /\ ReservationLive /\ HeldIsCurrent
    BY DEF IInv
  <1>2. Typed'
    BY <1>1, JoinTyped
  <1>3. /\ joins \in [Owners -> JoinCall]
        /\ goroutines \in [Reservations -> Goroutine]
    BY <1>1 DEF Typed, ThreadTypes
  <1>4. /\ joins[o].pc \in {"next", "enter", "decide", "again"}
        /\ JoinStays /\ UNCHANGED <<current, generation, defaults, holder>>
    BY DEF JoinStep, JoinNext, JoinEnter, JoinDecide, JoinAgain, JoinStays,
           job, config, lock
  <1>5. \A q \in Owners : q # o => joins'[q] = joins[q]
    <2>1. ASSUME Return(o)
          PROVE  \A q \in Owners : q # o => joins'[q] = joins[q]
      BY <1>3, <2>1 DEF Return
    <2>2. CASE JoinNext(o)
      BY <1>3, <2>2 DEF JoinNext
    <2>3. CASE JoinEnter(o)
      BY <1>3, <2>1, <2>3 DEF JoinEnter
    <2>4. CASE JoinDecide(o) \/ JoinAgain(o)
      BY <2>1, <2>4 DEF JoinDecide, JoinAgain
    <2>5. QED
      BY <2>2, <2>3, <2>4 DEF JoinStep
  <1>6. o \in Reservations => goroutines[o].pc = "reenter"
    BY <1>1, <1>4 DEF Reentered
  <1>7. ASSUME \A q \in Reservations :
                 goroutines[q].pc # "none" => goroutines'[q] = goroutines[q]
        PROVE  Reentered' /\ HolderRefreshes'
    <2>1. ASSUME NEW q \in Reservations, joins'[q].pc # "none"
          PROVE  goroutines'[q].pc = "reenter"
      <3>1. CASE q = o
        BY <1>6, <1>7, <3>1
      <3>2. CASE q # o
        BY <1>1, <1>5, <1>7, <2>1, <3>2 DEF Reentered, Owners
      <3>3. QED
        BY <3>1, <3>2
    <2>2. HolderRefreshes'
      <3> SUFFICES ASSUME holder \in Reservations
                   PROVE  \/ joins'[holder].pc = "refreshing"
                          \/ goroutines'[holder].pc = "refreshing"
        BY <1>4 DEF HolderRefreshes
      <3>1. holder # o
        BY <1>1, <1>4, <1>6 DEF HolderRefreshes
      <3>2. joins'[holder] = joins[holder]
        BY <1>5, <3>1 DEF Owners
      <3>3. QED
        BY <1>1, <1>7, <3>2 DEF HolderRefreshes
    <2>3. QED
      BY <2>1, <2>2 DEF Reentered
  <1>8. CASE JoinNext(o)
    <2>1. CASE UNCHANGED goroutines
      BY <1>1, <1>2, <1>4, <1>7, <1>8, <2>1, StillGoesOn, SameReservations
         DEF Reserved, JoinNext, starts
    <2>2. CASE ~UNCHANGED goroutines
      <3>1. /\ o \in Reservations
            /\ goroutines' = [goroutines EXCEPT ![o].pc = "finish"]
            /\ joins' = [joins EXCEPT ![o] = NoJoin]
            /\ UNCHANGED retry
        BY <1>8, <2>2 DEF JoinNext, starts
      <3>2. /\ \A q \in Reservations : GoesOn(q)
            /\ \A q \in Reservations : q # o => goroutines'[q] = goroutines[q]
        BY <1>1, <3>1, MovesOn
      <3>3. ReservationLive' /\ HeldIsCurrent'
        BY <1>1, <1>2, <1>4, <3>1, <3>2, SameReservations
      <3>4. joins'[o].pc = "none"
        BY <1>3, <3>1 DEF NoJoin
      <3>5. Reentered'
        BY <1>1, <1>5, <3>2, <3>4 DEF Reentered, Owners
      <3>6. HolderRefreshes'
        <4>1. holder # o
          BY <1>1, <1>4, <1>6, <3>1 DEF HolderRefreshes
        <4>2. QED
          BY <1>1, <1>4, <1>5, <3>2, <4>1 DEF HolderRefreshes, Owners
      <3>7. QED
        BY <3>3, <3>5, <3>6 DEF Reserved
    <2>3. QED
      BY <2>1, <2>2
  <1>9. CASE JoinEnter(o)
    <2>1. UNCHANGED <<goroutines, retry>>
      BY <1>9 DEF JoinEnter, starts
    <2>2. ReservationLive' /\ HeldIsCurrent'
      BY <1>1, <1>2, <1>4, <2>1, StillGoesOn, SameReservations
    <2>3. QED
      BY <1>7, <2>1, <2>2 DEF Reserved
  <1>10. CASE JoinDecide(o) \/ JoinAgain(o)
    <2>1. \/ UNCHANGED <<retry, goroutines>>
          \/ \E s \in MaybeStream : Decide(s, o)
      <3>1. ConfigTypes
        BY <1>1 DEF Typed
      <3>2. joins[o].stream \in MaybeStream /\ Matching \in MaybeStream
        BY <1>3, <3>1, MatchingTypes DEF JoinCall
      <3>3. \/ UNCHANGED <<starts, goroutines>>
            \/ Decide(joins[o].stream, o)
            \/ Decide(Matching, o)
        BY <1>10 DEF JoinDecide, JoinAgain
      <3>4. QED
        BY <3>2, <3>3 DEF starts
    <2>2. /\ ReservationLive' /\ HeldIsCurrent'
          /\ \A q \in Reservations : goroutines[q].pc # "none" =>
               goroutines'[q] = goroutines[q]
      <3>1. CASE UNCHANGED <<retry, goroutines>>
        BY <1>1, <1>2, <1>4, <3>1, StillGoesOn, SameReservations
      <3>2. CASE \E s \in MaybeStream : Decide(s, o)
        BY <1>2, <1>4, <3>2, DecideReserved
      <3>3. QED
        BY <2>1, <3>1, <3>2
    <2>3. QED
      BY <1>7, <2>2 DEF Reserved
  <1>11. QED
    BY <1>8, <1>9, <1>10 DEF JoinStep

LEMMA GoReserved ==
  ASSUME IInv, NEW r \in Reservations, GoStep(r) PROVE Reserved'
  <1> USE AutoStartAssumption
  <1>1. /\ Typed /\ LockInv /\ Reentered /\ HolderRefreshes
        /\ ReservationLive /\ HeldIsCurrent
    BY DEF IInv
  <1>2. Typed'
    BY <1>1, GoTyped
  <1>3. /\ joins \in [Owners -> JoinCall]
        /\ goroutines \in [Reservations -> Goroutine]
        /\ goroutines[r] \in Goroutine
    BY <1>1 DEF Typed, ThreadTypes
  <1>4. /\ goroutines[r].pc \notin {"none", "refreshing", "reenter"}
        /\ UNCHANGED <<current, generation, defaults, holder>>
    BY DEF GoStep, GoCheck, GoPresence, GoRecheck, StartStream, GoTimer,
           GoCancelled, GoSuccessor, GoFinish, GoStays, job, config, lock
  <1>5. joins[r].pc = "none" /\ holder # r
    BY <1>1, <1>4 DEF Reentered, HolderRefreshes
  <1>6. \A q \in Reservations : q # r => goroutines'[q] = goroutines[q]
    BY <1>3 DEF GoStep, GoCheck, GoPresence, GoRecheck, StartStream, GoTimer,
                GoCancelled, GoSuccessor, GoFinish, Go
  <1>7. ASSUME UNCHANGED joins PROVE Reentered' /\ HolderRefreshes'
    BY <1>1, <1>4, <1>5, <1>6, <1>7 DEF Reentered, HolderRefreshes
  <1>8. ASSUME UNCHANGED <<retry, joins>>, GoesOn(r) PROVE Reserved'
    <2>1. \A q \in Reservations : GoesOn(q)
      BY <1>6, <1>8 DEF GoesOn
    <2>2. ReservationLive' /\ HeldIsCurrent'
      BY <1>1, <1>2, <1>4, <1>8, <2>1, SameReservations
    <2>3. QED
      BY <1>7, <1>8, <2>2 DEF Reserved
  <1>9. CASE GoCheck(r)
    <2>1. UNCHANGED <<retry, joins>>
      BY <1>9 DEF GoCheck, starts
    <2>2. CASE ~StillValid(r)
      <3>1. PICK p \in {"check", "finish"} :
              goroutines' = [goroutines EXCEPT ![r].pc = p]
        BY <1>9, <2>2 DEF GoCheck, Go
      <3>2. GoesOn(r)
        BY <1>1, <3>1, MovesOn
      <3>3. QED
        BY <1>8, <2>1, <3>2
    <2>3. CASE StillValid(r)
      <3>1. goroutines' = [goroutines EXCEPT ![r].pc = "presence"]
        BY <1>9, <2>3 DEF GoCheck, Go
      <3>2. /\ goroutines'[r].pc = "presence"
            /\ goroutines'[r].target = goroutines[r].target
            /\ goroutines'[r].gen = goroutines[r].gen
        BY <1>3, <3>1 DEF Goroutine
      <3>3. /\ current = NoStream
            /\ generation = goroutines[r].gen
            /\ defaults[StreamOf(r)] = goroutines[r].target.epoch
        BY <2>3 DEF StillValid, Authorized, StreamOf
      <3>4. ReservationLive'
        BY <1>1, <1>6, <2>1, <3>2
           DEF ReservationLive, StreamOf, Typed, StartTypes
      <3>5. \A q \in Reservations : StreamOf(q)' = StreamOf(q)
        BY <1>6, <3>2 DEF StreamOf
      <3>6. \A q \in Reservations : Held(q)' => Held(q)
        BY <2>1, <3>5 DEF Held
      <3>7. HeldIsCurrent'
        BY <1>1, <1>4, <1>6, <3>2, <3>3, <3>5, <3>6 DEF HeldIsCurrent
      <3>8. QED
        BY <1>7, <2>1, <3>4, <3>7 DEF Reserved
    <2>4. QED
      BY <2>2, <2>3
  <1>10. ASSUME NEW found \in BOOLEAN, GoPresence(r, found) PROVE Reserved'
    <2>1. /\ goroutines'[r].pc = "recheck"
          /\ goroutines'[r].target = goroutines[r].target
          /\ goroutines'[r].gen = goroutines[r].gen
      BY <1>3, <1>10 DEF GoPresence, Goroutine
    <2>2. GoesOn(r)
      BY <1>10, <2>1 DEF GoesOn, Acting, GoPresence
    <2>3. QED
      BY <1>8, <1>10, <2>2 DEF GoPresence, starts
  <1>11. CASE GoRecheck(r)
    <2>1. /\ goroutines'[r].pc # "none"
          /\ goroutines'[r].target = goroutines[r].target
          /\ goroutines'[r].gen = goroutines[r].gen
      <3>1. PICK p \in {"request", "finish"} :
              goroutines' = [goroutines EXCEPT ![r].seen = FALSE, ![r].pc = p]
        BY <1>11 DEF GoRecheck
      <3>2. QED
        BY <1>3, <3>1 DEF Goroutine
    <2>2. GoesOn(r)
      BY <1>11, <2>1 DEF GoesOn, Acting, GoRecheck
    <2>3. \A s \in Streams : retry'[s] \in {retry[s], NoReservation}
      BY <1>1, <1>11 DEF GoRecheck, Typed, StartTypes
    <2>4. \A q \in Reservations : GoesOn(q)
      BY <1>6, <2>2 DEF GoesOn
    <2>5. ReservationLive' /\ HeldIsCurrent'
      BY <1>1, <1>2, <1>4, <2>3, <2>4, FewerReservations
    <2>6. QED
      BY <1>7, <1>11, <2>5 DEF Reserved, GoRecheck
  <1>12. ASSUME NEW answer \in Answers, StartStream(r, answer)
         PROVE  Reserved'
    <2> DEFINE p == GoOn(r, answer)
    <2>1. p # "none"
      BY DEF GoOn
    <2>2. PICK a, b : goroutines' = [goroutines EXCEPT ![r].pc = p,
                        ![r].attempt = a, ![r].busy = b]
      BY <1>12 DEF StartStream
    <2> HIDE DEF p
    <2>3. /\ goroutines'[r].pc = p
          /\ goroutines'[r].target = goroutines[r].target
          /\ goroutines'[r].gen = goroutines[r].gen
      BY <1>3, <2>2 DEF Goroutine
    <2>4. GoesOn(r)
      BY <1>12, <2>1, <2>3 DEF GoesOn, Acting, StartStream
    <2>5. QED
      BY <1>8, <1>12, <2>4 DEF StartStream, starts
  <1>13. CASE GoTimer(r) \/ GoCancelled(r)
    <2>1. PICK p \in {"check", "finish"} :
            goroutines' = [goroutines EXCEPT ![r].pc = p]
      BY <1>13 DEF GoTimer, GoCancelled, Go
    <2>2. GoesOn(r)
      BY <1>1, <2>1, MovesOn
    <2>3. QED
      BY <1>8, <1>13, <2>2 DEF GoTimer, GoCancelled, starts
  <1>14. CASE GoSuccessor(r)
    <2>1. PICK p \in {"finish", "reenter"} :
            /\ goroutines' = [goroutines EXCEPT ![r].pc = p]
            /\ p = "finish" => UNCHANGED joins
      BY <1>14 DEF GoSuccessor, Go
    <2>2. Acting(goroutines[r])
      BY <1>14 DEF GoSuccessor, Acting
    <2>3. /\ \A q \in Reservations : GoesOn(q)
          /\ goroutines'[r].pc = p
      BY <1>1, <2>1, <2>2, MovesOn
    <2>4. CASE p = "finish"
      BY <1>8, <1>14, <2>1, <2>3, <2>4 DEF GoSuccessor, starts
    <2>5. CASE p = "reenter"
      <3>1. \A q \in Owners : q # r => joins'[q] = joins[q]
        BY <1>3, <1>14 DEF GoSuccessor
      <3>2. Reentered'
        BY <1>1, <1>6, <2>3, <2>5, <3>1 DEF Reentered, Owners
      <3>3. HolderRefreshes'
        BY <1>1, <1>4, <1>5, <1>6, <3>1 DEF HolderRefreshes, Owners
      <3>4. UNCHANGED retry
        BY <1>14 DEF GoSuccessor, starts
      <3>5. ReservationLive' /\ HeldIsCurrent'
        BY <1>1, <1>2, <1>4, <2>3, <3>4, SameReservations
      <3>6. QED
        BY <3>2, <3>3, <3>5 DEF Reserved
    <2>6. QED
      BY <2>1, <2>4, <2>5
  <1>15. CASE GoFinish(r)
    <2>1. UNCHANGED joins /\ Forget(r)
      BY <1>15 DEF GoFinish
    <2>2. \A s \in Streams : /\ retry'[s] \in {retry[s], NoReservation}
                             /\ retry[s] = r => retry'[s] = NoReservation
      <3>1. \A s \in Streams : retry'[s] \in {retry[s], NoReservation}
        BY <1>1, <2>1 DEF Forget, Typed, StartTypes
      <3>2. ASSUME NEW s \in Streams, retry[s] = r
            PROVE  retry'[s] = NoReservation
        <4>1. StreamOf(r) = s
          BY <1>1, <3>2 DEF ReservationLive
        <4>2. Held(r)
          BY <3>2, <4>1 DEF Held
        <4>3. QED
          BY <1>1, <2>1, <4>1, <4>2 DEF Forget, Typed, StartTypes
      <3>3. QED
        BY <3>1, <3>2
    <2>3. ASSUME NEW s \in Streams, retry'[s] # NoReservation
          PROVE  retry[s] \in Reservations /\ retry[s] # r
      BY <1>1, <2>2, <2>3 DEF Typed, StartTypes
    <2>4. ASSUME NEW s \in Streams, retry'[s] # NoReservation
          PROVE  /\ goroutines'[retry[s]] = goroutines[retry[s]]
                 /\ goroutines[retry[s]].pc # "none"
      BY <1>1, <1>6, <2>2, <2>3, <2>4 DEF ReservationLive
    <2>5. ReservationLive' /\ HeldIsCurrent'
      BY <1>1, <1>2, <1>4, <2>2, <2>4, Onward
    <2>6. QED
      BY <1>7, <2>1, <2>5 DEF Reserved
  <1>16. QED
    BY <1>9, <1>10, <1>11, <1>12, <1>13, <1>14, <1>15 DEF GoStep

LEMMA NextReserved == IInv /\ [Next]_vars => IInv'
  <1> SUFFICES ASSUME IInv, [Next]_vars PROVE IInv'
    OBVIOUS
  <1>1. /\ Typed /\ LockInv /\ Reentered /\ HolderRefreshes
        /\ ReservationLive /\ HeldIsCurrent
    BY DEF IInv
  <1>2. Typed' /\ LockInv'
    BY <1>1, NextTyped
  <1>3. CASE UNCHANGED vars
    <2>1. UNCHANGED <<goroutines, joins, holder, retry, defaults, generation,
                      current>>
      BY <1>3 DEF vars, job, config, starts, lock
    <2>2. QED
      BY <1>1, <1>2, <2>1, ThreadsReserved, StillGoesOn, SameReservations
         DEF IInv
  <1>4. CASE Next
    <2>1. Reserved'
      BY <1>4, RefreshReserved, HandlerReserved, JoinReserved, GoReserved,
         OutsideReserved DEF Next
    <2>2. QED
      BY <1>2, <2>1 DEF IInv, Reserved
  <1>5. QED
    BY <1>3, <1>4

\* No entry of autoStartRetries outlives the goroutine that made it, for any
\* number of streams, callbacks and retries.
THEOREM ReservationCorrect == Spec => []ReservationLive
  <1>1. Init => IInv
    BY InitReserved
  <1>2. IInv => ReservationLive
    BY DEF IInv
  <1>3. QED
    BY <1>1, <1>2, NextReserved, PTL DEF Spec

\* A goroutine of the automatic start that was not cancelled acts for the
\* epoch that is projected, with no job and no disconnect since its check.
THEOREM HeldCorrect == Spec => []HeldIsCurrent
  <1>1. Init => IInv
    BY InitReserved
  <1>2. IInv => HeldIsCurrent
    BY DEF IInv
  <1>3. QED
    BY <1>1, <1>2, NextReserved, PTL DEF Spec

-----------------------------------------------------------------------------
(* The refresh lock is not waited for by its own holder.                   *)

\* Only a selected target is ahead of the replay, so it finds its stream.
LEMMA SyncStep ==
  ASSUME Typed, LockInv, SyncAims, NoSelfWait, UNCHANGED defaults,
         JoinStep(Sync)
  PROVE  SyncAims' /\ NoSelfWait'
  <1> USE AutoStartAssumption
  <1>1. Waiting' = Waiting /\ Selected' = Selected
    BY DEF Waiting, Selected
  <1>2. /\ joins \in [Owners -> JoinCall] /\ Sync \in Owners
        /\ joins[Sync] \in JoinCall
    BY Constants DEF Typed, ThreadTypes
  <1>3. ASSUME Return(Sync) PROVE SyncAims' /\ NoSelfWait'
    <2>1. /\ joins'[Sync].pc = "next"
          /\ joins'[Sync].todo = joins[Sync].todo
      BY <1>2, <1>3 DEF Return, JoinCall
    <2>2. ASSUME joins[Sync].pc # "none" PROVE SyncAims' /\ NoSelfWait'
      BY <1>1, <2>1, <2>2 DEF SyncAims, NoSelfWait
    <2>3. joins[Sync].pc # "none"
      BY DEF JoinStep, JoinNext, JoinEnter, JoinDecide, JoinAgain
    <2>4. QED
      BY <2>2, <2>3
  <1>4. CASE JoinNext(Sync)
    <2>1. CASE joins[Sync].todo = {}
      <3>1. joins'[Sync] = NoJoin
        BY <1>2, <1>4, <2>1 DEF JoinNext
      <3>2. QED
        BY <1>1, <3>1 DEF SyncAims, NoSelfWait, NoJoin
    <2>2. CASE joins[Sync].todo # {}
      <3>1. PICK t \in joins[Sync].todo :
              joins' = [joins EXCEPT ![Sync].todo = @ \ {t},
                   ![Sync].target = IF t \in targets THEN t ELSE NoTarget,
                   ![Sync].pc = IF t \in targets THEN "enter" ELSE "next"]
        BY <1>4, <2>2 DEF JoinNext
      <3>2. /\ joins'[Sync].todo = joins[Sync].todo \ {t}
            /\ joins'[Sync].pc \in {"enter", "next"}
            /\ joins'[Sync].pc = "enter" => joins'[Sync].target = t
        BY <1>2, <3>1 DEF JoinCall
      <3>3. joins[Sync].todo \subseteq Selected
        BY <1>4 DEF JoinNext, SyncAims
      <3>4. QED
        BY <1>1, <3>2, <3>3 DEF SyncAims, NoSelfWait
    <2>3. QED
      BY <2>1, <2>2
  <1>5. CASE JoinEnter(Sync)
    <2>1. joins[Sync].pc = "enter" /\ joins[Sync].target \in Selected
      BY <1>5 DEF JoinEnter, SyncAims
    <2>2. Matching # NoStream
      BY <2>1, OneMatches DEF Typed, SyncAims
    <2>3. \/ Return(Sync)
          \/ joins' = [joins EXCEPT ![Sync].pc = "decide",
                                    ![Sync].stream = Matching]
      BY <1>5, <2>2 DEF JoinEnter
    <2>4. CASE joins' = [joins EXCEPT ![Sync].pc = "decide",
                                      ![Sync].stream = Matching]
      <3>1. /\ joins'[Sync].pc = "decide"
            /\ joins'[Sync].todo = joins[Sync].todo
        BY <1>2, <2>4 DEF JoinCall
      <3>2. QED
        BY <1>1, <2>1, <3>1 DEF SyncAims, NoSelfWait
    <2>5. QED
      BY <1>3, <2>3, <2>4
  <1>6. CASE JoinDecide(Sync) \/ JoinAgain(Sync)
    BY <1>3, <1>6 DEF JoinDecide, JoinAgain
  <1>7. QED
    BY <1>4, <1>5, <1>6 DEF JoinStep

\* A step that touches neither the projection nor the replay
LEMMA SyncStays ==
  ASSUME SyncAims, NoSelfWait, UNCHANGED defaults, joins'[Sync] = joins[Sync]
  PROVE  SyncAims' /\ NoSelfWait'
  <1>1. Waiting' = Waiting /\ Selected' = Selected
    BY DEF Waiting, Selected
  <1>2. QED
    BY <1>1 DEF SyncAims, NoSelfWait

LEMMA UnlockSync ==
  ASSUME Typed, NEW ok \in BOOLEAN, Unlock(ok)
  PROVE  joins'[Sync] = joins[Sync]
  <1>1. holder # Sync
    BY Constants, AutoStartAssumption DEF Typed, LockTypes
  <1>2. QED
    BY <1>1, Constants DEF Unlock, Typed, ThreadTypes

LEMMA NextSelf ==
  ASSUME MonitorFilters, Typed, LockInv, SyncAims, NoSelfWait, [Next]_vars
  PROVE  SyncAims' /\ NoSelfWait'
  <1> USE AutoStartAssumption
  <1>1. joins \in [Owners -> JoinCall] /\ Sync \in Owners
    BY Constants DEF Typed, ThreadTypes
  <1>2. CASE UNCHANGED vars
    BY <1>2, SyncStays DEF vars, config
  <1>3. ASSUME NEW o \in Owners, JoinRefresh(o) \/ JoinRefreshFails(o)
        PROVE  SyncAims' /\ NoSelfWait'
    <2>1. o # Sync
      BY <1>3 DEF JoinRefresh, JoinRefreshFails, NoSelfWait
    <2>2. joins'[Sync] = joins[Sync]
      BY <1>1, <1>3, <2>1 DEF JoinRefresh, JoinRefreshFails
    <2>3. QED
      BY <1>3, <2>2, SyncStays DEF JoinRefresh, JoinRefreshFails, config
  <1>4. ASSUME NEW r \in Reservations, StaleRefresh(r) \/ StaleRefreshFails(r)
        PROVE  SyncAims' /\ NoSelfWait'
    BY <1>4, SyncStays DEF StaleRefresh, StaleRefreshFails, config
  <1>5. ASSUME Apply \/ Refuse PROVE SyncAims' /\ NoSelfWait'
    <2>1. joins[Sync].pc = "none" /\ UNCHANGED joins
      BY <1>5 DEF Apply, Refuse, LockInv
    <2>2. Cardinality(Waiting') <= 1
      <3>1. CASE Apply
        <4>1. PICK w \in Projections : defaults' = Project(w)
          BY <3>1 DEF Apply, SetStreamVoiceDefaults
        <4>2. w \in [Streams -> 0..MaxEpoch]
          BY DEF Projections
        <4>3. Waiting' = {s \in Streams : Project(w)[s] # 0}
          BY <4>1 DEF Waiting
        <4>4. QED
          BY <4>2, <4>3, OneSelected
      <3>2. CASE Refuse
        <4>1. defaults' = Nothing
          BY <3>2 DEF Refuse, SetStreamVoiceDefaults
        <4>2. Waiting' = {}
          BY <4>1 DEF Waiting, Nothing
        <4>3. QED
          BY <4>2, FS_EmptySet
      <3>3. QED
        BY <1>5, <3>1, <3>2
    <2>3. QED
      BY <2>1, <2>2 DEF SyncAims, NoSelfWait
  <1>6. ASSUME NEW found \in BOOLEAN, SetTargets(found)
        PROVE  SyncAims' /\ NoSelfWait'
    <2>1. Waiting' = Waiting /\ Selected' = Selected
      BY <1>6 DEF SetTargets, config, Waiting, Selected
    <2>2. /\ joins'[Sync].pc = "next"
          /\ joins'[Sync].todo \in {Selected, {}}
      BY <1>1, <1>6 DEF SetTargets, NoJoin
    <2>3. QED
      BY <2>1, <2>2 DEF SyncAims, NoSelfWait
  <1>7. ASSUME Synced \/ StartRefused \/ JoinVoiceFails \/ StartCommit
        PROVE  SyncAims' /\ NoSelfWait'
    <2>1. /\ \E ok \in BOOLEAN : Unlock(ok)
          /\ UNCHANGED defaults
      BY <1>7 DEF Synced, StartRefused, JoinVoiceFails, StartCommit, config
    <2>2. QED
      BY <2>1, UnlockSync, SyncStays
  <1>8. ASSUME StartBegin \/ StopFails \/ StopFinish
        PROVE  SyncAims' /\ NoSelfWait'
    BY <1>8, SyncStays DEF StartBegin, StopFails, StopFinish, config
  <1>9. ASSUME NEW o \in Owners, JoinStep(o) PROVE SyncAims' /\ NoSelfWait'
    <2>1. UNCHANGED defaults
      BY <1>9 DEF JoinStep, JoinNext, JoinEnter, JoinDecide, JoinAgain,
                  JoinStays, config
    <2>2. CASE o = Sync
      BY <1>9, <2>1, <2>2, SyncStep
    <2>3. CASE o # Sync
      <3>1. ASSUME Return(o) PROVE joins'[Sync] = joins[Sync]
        BY <1>1, <2>3, <3>1 DEF Return
      <3>2. joins'[Sync] = joins[Sync]
        BY <1>1, <1>9, <2>3, <3>1
           DEF JoinStep, JoinNext, JoinEnter, JoinDecide, JoinAgain
      <3>3. QED
        BY <2>1, <3>2, SyncStays
    <2>4. QED
      BY <2>2, <2>3
  <1>10. ASSUME NEW r \in Reservations, GoStep(r)
         PROVE  SyncAims' /\ NoSelfWait'
    <2>1. r # Sync
      OBVIOUS
    <2>2. joins'[Sync] = joins[Sync] /\ UNCHANGED defaults
      BY <1>1, <1>10, <2>1
         DEF GoStep, GoCheck, GoPresence, GoRecheck, StartStream, GoTimer,
             GoCancelled, GoSuccessor, GoFinish, GoStays, config
    <2>3. QED
      BY <2>2, SyncStays
  <1>11. ASSUME Outside PROVE SyncAims' /\ NoSelfWait'
    <2>1. \A c \in Callbacks : c # Sync
      OBVIOUS
    <2>2. joins'[Sync] = joins[Sync] /\ UNCHANGED defaults
      BY <1>1, <1>11, <2>1
         DEF Outside, LoopTick, StopBegin, StopRefused, DiscordDisconnected,
             RefreshWaitEnds, StartRequest, CooldownEnds, Enters, Resyncs,
             Elsewhere, config
    <2>3. QED
      BY <2>2, SyncStays
  <1>12. QED
    BY <1>2, <1>3, <1>4, <1>5, <1>6, <1>7, <1>8, <1>9, <1>10, <1>11
       DEF Next, RefreshStep, HandlerStep

\* With discord_waiting_monitor, a refresh never waits for the lock that its
\* own goroutine holds, however many streams and members there are.
THEOREM SelfWaitCorrect == Spec => [](MonitorFilters => NoSelfWait)
  <1>1. Init => Typed /\ LockInv /\ SelfInv
    BY InitReserved DEF IInv
  <1>2. (Typed /\ LockInv /\ SelfInv) /\ [Next]_vars
          => (Typed /\ LockInv /\ SelfInv)'
    <2>1. ASSUME Typed, LockInv, SelfInv, [Next]_vars PROVE SelfInv'
      BY <2>1, NextSelf DEF SelfInv
    <2>2. QED
      BY <2>1, NextTyped
  <1>3. SelfInv => (MonitorFilters => NoSelfWait)
    BY DEF SelfInv
  <1>4. QED
    BY <1>1, <1>2, <1>3, PTL DEF Spec

-----------------------------------------------------------------------------
(* Restarting a stopped stream.                                            *)

\* A thread that evaluates a real join, and a goroutine made by one
RealJoin(o) == joins[o].pc # "none" /\ ~joins[o].existing
RealGo(r)   == goroutines[r].pc \notin {"none", "finish"}
                 /\ ~goroutines[r].existing

\* Whether an event was of a real join is not forgotten while a goroutine runs
Remembers ==
  \A r \in Reservations : \/ goroutines'[r].existing = goroutines[r].existing
                          \/ goroutines'[r] = Gone

\* A step that reserves nothing and lets nobody join
Quiet ==
  /\ \A s \in Streams : retry'[s] \in {retry[s], NoReservation}
  /\ Remembers
  /\ RealJoinUnderWay' => RealJoinUnderWay

\* Neither the calls nor the goroutines become real joins
LEMMA NothingReal ==
  ASSUME \A o \in Owners : RealJoin(o)' => RealJoinUnderWay,
         \A r \in Reservations : RealGo(r)' => RealJoinUnderWay
  PROVE  RealJoinUnderWay' => RealJoinUnderWay
  BY DEF RealJoinUnderWay, RealJoin, RealGo

LEMMA SomethingReal ==
  /\ \A o \in Owners : RealJoin(o) => RealJoinUnderWay
  /\ \A r \in Reservations : RealGo(r) => RealJoinUnderWay
  BY DEF RealJoinUnderWay, RealJoin, RealGo

LEMMA StillReal ==
  ASSUME UNCHANGED <<joins, goroutines>>
  PROVE  Remembers /\ (RealJoinUnderWay' => RealJoinUnderWay)
  BY DEF RealJoinUnderWay, Remembers

\* A goroutine that moves on remembers, and is a real join only if it was
LEMMA MovesReal ==
  ASSUME Typed, NEW r \in Reservations, NEW p,
         goroutines' = [goroutines EXCEPT ![r].pc = p],
         p = "finish" \/ goroutines[r].pc \notin {"none", "finish"}
  PROVE  /\ Remembers
         /\ \A q \in Reservations : RealGo(q)' => RealGo(q)
  <1>1. goroutines \in [Reservations -> Goroutine]
    BY DEF Typed, ThreadTypes
  <1>2. /\ goroutines'[r] = [goroutines[r] EXCEPT !.pc = p]
        /\ \A q \in Reservations : q # r => goroutines'[q] = goroutines[q]
        /\ goroutines[r] \in Goroutine
    BY <1>1
  <1>3. /\ goroutines'[r].pc = p
        /\ goroutines'[r].existing = goroutines[r].existing
    BY <1>2 DEF Goroutine
  <1>4. QED
    BY <1>2, <1>3 DEF Remembers, RealGo

LEMMA UnlockReal ==
  ASSUME IInv, NEW ok \in BOOLEAN, Unlock(ok)
  PROVE  Remembers /\ (RealJoinUnderWay' => RealJoinUnderWay)
  <1>1. Typed /\ HolderRefreshes
    BY DEF IInv
  <1>2. joins \in [Owners -> JoinCall]
    BY <1>1 DEF Typed, ThreadTypes
  <1>3. \A o \in Owners : RealJoin(o)' => RealJoin(o)
    <2>1. CASE holder \in Owners /\ joins[holder].pc = "refreshing"
      <3>1. PICK p, t : joins' = [joins EXCEPT ![holder].pc = p,
                                               ![holder].target = t]
        BY <2>1 DEF Unlock
      <3>2. joins'[holder].existing = joins[holder].existing
        BY <1>2, <2>1, <3>1 DEF JoinCall
      <3>3. \A o \in Owners : o # holder => joins'[o] = joins[o]
        BY <1>2, <3>1
      <3>4. QED
        BY <2>1, <3>2, <3>3 DEF RealJoin
    <2>2. CASE ~(holder \in Owners /\ joins[holder].pc = "refreshing")
      BY <2>2 DEF Unlock, RealJoin
    <2>3. QED
      BY <2>1, <2>2
  <1>4. /\ Remembers
        /\ \A q \in Reservations : RealGo(q)' => RealGo(q)
    <2>1. CASE UNCHANGED goroutines
      BY <2>1 DEF Remembers, RealGo
    <2>2. CASE ~UNCHANGED goroutines
      <3>1. PICK p : /\ holder \in Reservations
                     /\ joins[holder].pc # "refreshing"
                     /\ goroutines' = [goroutines EXCEPT ![holder].pc = p]
        BY <2>2 DEF Unlock, Owners
      <3>2. goroutines[holder].pc = "refreshing"
        BY <1>1, <3>1 DEF HolderRefreshes
      <3>3. QED
        BY <1>1, <3>1, <3>2, MovesReal
    <2>3. QED
      BY <2>1, <2>2
  <1>5. QED
    BY <1>3, <1>4, NothingReal, SomethingReal

LEMMA RefreshQuiet ==
  ASSUME IInv, RefreshStep PROVE Quiet
  <1> USE AutoStartAssumption
  <1>1. Typed
    BY DEF IInv
  <1>2. joins \in [Owners -> JoinCall]
    BY <1>1 DEF Typed, ThreadTypes
  <1>3. ASSUME NEW o \in Owners, JoinRefresh(o) \/ JoinRefreshFails(o)
        PROVE  Quiet
    <2>1. UNCHANGED <<retry, goroutines>> /\ joins[o].pc = "mutex"
      BY <1>3 DEF JoinRefresh, JoinRefreshFails, starts
    <2>2. /\ joins'[o].existing = joins[o].existing
          /\ \A q \in Owners : q # o => joins'[q] = joins[q]
      BY <1>2, <1>3 DEF JoinRefresh, JoinRefreshFails, JoinCall
    <2>3. \A q \in Owners : RealJoin(q)' => RealJoin(q)
      BY <2>1, <2>2 DEF RealJoin
    <2>4. Remembers /\ \A r \in Reservations : RealGo(r)' => RealGo(r)
      BY <2>1 DEF Remembers, RealGo
    <2>5. QED
      BY <2>1, <2>3, <2>4, NothingReal, SomethingReal DEF Quiet
  <1>4. ASSUME NEW r \in Reservations, StaleRefresh(r) \/ StaleRefreshFails(r)
        PROVE  Quiet
    <2>1. /\ UNCHANGED <<retry, joins>>
          /\ goroutines[r].pc \notin {"none", "finish"}
          /\ \E p : goroutines' = [goroutines EXCEPT ![r].pc = p]
      BY <1>4 DEF StaleRefresh, StaleRefreshFails, starts
    <2>2. Remembers /\ \A q \in Reservations : RealGo(q)' => RealGo(q)
      BY <1>1, <2>1, MovesReal
    <2>3. \A o \in Owners : RealJoin(o)' => RealJoin(o)
      BY <2>1 DEF RealJoin
    <2>4. QED
      BY <2>1, <2>2, <2>3, NothingReal, SomethingReal DEF Quiet
  <1>5. ASSUME Apply \/ Refuse PROVE Quiet
    <2>1. UNCHANGED <<joins, goroutines>>
      BY <1>5 DEF Apply, Refuse
    <2>2. \A s \in Streams : retry'[s] \in {retry[s], NoReservation}
      <3>1. PICK w, a : SetStreamVoiceDefaults(w, a)
        BY <1>5 DEF Apply, Refuse
      <3>2. QED
        BY <3>1 DEF SetStreamVoiceDefaults
    <2>3. QED
      BY <2>1, <2>2, StillReal DEF Quiet
  <1>6. ASSUME NEW found \in BOOLEAN, SetTargets(found) PROVE Quiet
    <2>1. UNCHANGED <<retry, goroutines>>
      BY <1>6 DEF SetTargets, starts
    <2>2. /\ joins'[Sync].existing = TRUE
          /\ \A q \in Owners : q # Sync => joins'[q] = joins[q]
      BY <1>2, <1>6, Constants DEF SetTargets, NoJoin
    <2>3. \A q \in Owners : RealJoin(q)' => RealJoin(q)
      BY <2>2 DEF RealJoin
    <2>4. Remembers /\ \A r \in Reservations : RealGo(r)' => RealGo(r)
      BY <2>1 DEF Remembers, RealGo
    <2>5. QED
      BY <2>1, <2>3, <2>4, NothingReal, SomethingReal DEF Quiet
  <1>7. ASSUME Synced PROVE Quiet
    BY <1>7, UnlockReal DEF Synced, starts, Quiet
  <1>8. QED
    BY <1>3, <1>4, <1>5, <1>6, <1>7 DEF RefreshStep

LEMMA HandlerQuiet ==
  ASSUME IInv, HandlerStep PROVE Quiet
  <1>1. ASSUME StartBegin \/ StopFails \/ StopFinish PROVE Quiet
    <2>1. UNCHANGED <<retry, joins, goroutines>>
      BY <1>1 DEF StartBegin, StopFails, StopFinish, starts
    <2>2. QED
      BY <2>1, StillReal DEF Quiet
  <1>2. ASSUME StartRefused \/ JoinVoiceFails \/ StartCommit PROVE Quiet
    <2>1. /\ \E ok \in BOOLEAN : Unlock(ok)
          /\ UNCHANGED retry \/ CancelAll
      BY <1>2 DEF StartRefused, JoinVoiceFails, StartCommit, starts
    <2>2. QED
      BY <2>1, UnlockReal DEF Quiet, CancelAll
  <1>3. QED
    BY <1>1, <1>2 DEF HandlerStep

LEMMA OutsideQuiet ==
  ASSUME IInv, Outside PROVE Quiet \/ \E c \in Callbacks : Enters(c)
  <1> USE AutoStartAssumption
  <1>1. joins \in [Owners -> JoinCall]
    BY DEF IInv, Typed, ThreadTypes
  <1>2. ASSUME NEW c \in Callbacks, Resyncs(c) PROVE Quiet
    <2>1. UNCHANGED <<retry, goroutines>>
      BY <1>2 DEF Resyncs, Elsewhere
    <2>2. c \in Owners
      BY DEF Owners
    <2>3. /\ joins'[c].existing = TRUE
          /\ \A q \in Owners : q # c => joins'[q] = joins[q]
      BY <1>1, <1>2, <2>2 DEF Resyncs, NoJoin
    <2>4. \A q \in Owners : RealJoin(q)' => RealJoin(q)
      BY <2>3 DEF RealJoin
    <2>5. Remembers /\ \A r \in Reservations : RealGo(r)' => RealGo(r)
      BY <2>1 DEF Remembers, RealGo
    <2>6. QED
      BY <2>1, <2>4, <2>5, NothingReal, SomethingReal DEF Quiet
  <1>3. ASSUME \/ LoopTick \/ StopBegin \/ StopRefused
               \/ DiscordDisconnected \/ RefreshWaitEnds
               \/ \E s \in Streams : StartRequest(s) \/ CooldownEnds(s)
        PROVE  Quiet
    <2>1. UNCHANGED <<joins, goroutines>> /\ (UNCHANGED retry \/ CancelAll)
      BY <1>3 DEF LoopTick, StopBegin, StopRefused, DiscordDisconnected,
                  RefreshWaitEnds, StartRequest, CooldownEnds, Elsewhere,
                  starts
    <2>2. QED
      BY <2>1, StillReal DEF Quiet, CancelAll
  <1>4. QED
    BY <1>2, <1>3 DEF Outside

LEMMA JoinEffects ==
  ASSUME IInv, NEW o \in Owners, JoinStep(o)
  PROVE  /\ joins[o].pc # "none"
         /\ RealJoinUnderWay' => RealJoinUnderWay
         /\ Quiet \/ \E s \in MaybeStream : Decide(s, o)
  <1> USE AutoStartAssumption
  <1>1. Typed
    BY DEF IInv
  <1>2. /\ joins \in [Owners -> JoinCall]
        /\ goroutines \in [Reservations -> Goroutine]
    BY <1>1 DEF Typed, ThreadTypes
  <1>3. joins[o].pc # "none"
    BY DEF JoinStep, JoinNext, JoinEnter, JoinDecide, JoinAgain
  <1>4. \A q \in Owners : RealJoin(q)' => RealJoin(q)
    <2>1. ASSUME NEW j, joins' = [joins EXCEPT ![o] = j],
                 j.existing = joins[o].existing \/ j.pc = "none"
          PROVE  \A q \in Owners : RealJoin(q)' => RealJoin(q)
      BY <1>2, <1>3, <2>1 DEF RealJoin
    <2>2. ASSUME Return(o)
          PROVE  \A q \in Owners : RealJoin(q)' => RealJoin(q)
      <3>1. /\ joins'[o].existing = joins[o].existing
            /\ \A q \in Owners : q # o => joins'[q] = joins[q]
        BY <1>2, <2>2 DEF Return, JoinCall
      <3>2. QED
        BY <1>3, <3>1 DEF RealJoin
    <2>3. CASE JoinNext(o)
      <3>1. CASE joins[o].todo = {}
        BY <2>1, <2>3, <3>1 DEF JoinNext, NoJoin
      <3>2. CASE joins[o].todo # {}
        <4>1. PICK t, a, b : joins' = [joins EXCEPT ![o].todo = @ \ {t},
                                         ![o].target = a, ![o].pc = b]
          BY <2>3, <3>2 DEF JoinNext
        <4>2. /\ joins'[o].existing = joins[o].existing
              /\ \A q \in Owners : q # o => joins'[q] = joins[q]
          BY <1>2, <4>1 DEF JoinCall
        <4>3. QED
          BY <1>3, <4>2 DEF RealJoin
      <3>3. QED
        BY <3>1, <3>2
    <2>4. CASE JoinEnter(o)
      <3>1. CASE Return(o)
        BY <2>2, <3>1
      <3>2. CASE ~Return(o)
        <4>1. /\ joins'[o].existing = joins[o].existing
              /\ \A q \in Owners : q # o => joins'[q] = joins[q]
          BY <1>2, <2>4, <3>2 DEF JoinEnter, JoinCall
        <4>2. QED
          BY <1>3, <4>1 DEF RealJoin
      <3>3. QED
        BY <3>1, <3>2
    <2>5. CASE JoinDecide(o) \/ JoinAgain(o)
      BY <2>2, <2>5 DEF JoinDecide, JoinAgain
    <2>6. QED
      BY <2>3, <2>4, <2>5 DEF JoinStep
  <1>5. ASSUME UNCHANGED <<retry, goroutines>> PROVE Quiet
    <2>1. Remembers /\ \A r \in Reservations : RealGo(r)' => RealGo(r)
      BY <1>5 DEF Remembers, RealGo
    <2>2. QED
      BY <1>4, <1>5, <2>1, NothingReal, SomethingReal DEF Quiet
  <1>6. CASE JoinNext(o)
    <2>1. CASE UNCHANGED goroutines
      BY <1>3, <1>5, <1>6, <2>1 DEF JoinNext, starts, Quiet
    <2>2. CASE ~UNCHANGED goroutines
      <3>1. /\ o \in Reservations /\ UNCHANGED retry
            /\ goroutines' = [goroutines EXCEPT ![o].pc = "finish"]
        BY <1>6, <2>2 DEF JoinNext, starts
      <3>2. Remembers /\ \A r \in Reservations : RealGo(r)' => RealGo(r)
        BY <1>1, <3>1, MovesReal
      <3>3. QED
        BY <1>3, <1>4, <3>1, <3>2, NothingReal, SomethingReal DEF Quiet
    <2>3. QED
      BY <2>1, <2>2
  <1>7. CASE JoinEnter(o)
    BY <1>3, <1>5, <1>7 DEF JoinEnter, starts, Quiet
  <1>8. CASE JoinDecide(o) \/ JoinAgain(o)
    <2>1. \/ UNCHANGED <<retry, goroutines>>
          \/ \E s \in MaybeStream : Decide(s, o)
      <3>1. ConfigTypes
        BY <1>1 DEF Typed
      <3>2. joins[o].stream \in MaybeStream /\ Matching \in MaybeStream
        BY <1>2, <3>1, MatchingTypes DEF JoinCall
      <3>3. \/ UNCHANGED <<starts, goroutines>>
            \/ Decide(joins[o].stream, o)
            \/ Decide(Matching, o)
        BY <1>8 DEF JoinDecide, JoinAgain
      <3>4. QED
        BY <3>2, <3>3 DEF starts
    <2>2. CASE UNCHANGED <<retry, goroutines>>
      BY <1>3, <1>5, <2>2 DEF Quiet
    <2>3. CASE ~UNCHANGED <<retry, goroutines>>
      <3>1. PICK s \in MaybeStream : Decide(s, o)
        BY <2>1, <2>3
      <3>2. PICK r \in Reservations :
              goroutines' = [goroutines EXCEPT ![r] =
                [Gone EXCEPT !.pc = "check", !.gen = generation,
                   !.target = joins[o].target,
                   !.existing = joins[o].existing]]
        BY <2>3, <3>1 DEF Decide, starts
      <3>3. /\ goroutines'[r].existing = joins[o].existing
            /\ \A q \in Reservations : q # r => goroutines'[q] = goroutines[q]
        BY <1>2, <3>2 DEF Gone
      <3>4. \A q \in Reservations : RealGo(q)' => RealJoinUnderWay
        <4>1. RealGo(r)' => RealJoin(o)
          BY <1>3, <3>3 DEF RealGo, RealJoin
        <4>2. \A q \in Reservations : q # r => (RealGo(q)' => RealGo(q))
          BY <3>3 DEF RealGo
        <4>3. QED
          BY <4>1, <4>2, SomethingReal
      <3>5. RealJoinUnderWay' => RealJoinUnderWay
        BY <1>4, <3>4, NothingReal, SomethingReal
      <3>6. QED
        BY <1>3, <3>1, <3>5
    <2>4. QED
      BY <2>2, <2>3
  <1>9. QED
    BY <1>6, <1>7, <1>8 DEF JoinStep

LEMMA GoQuiet ==
  ASSUME IInv, NEW r \in Reservations, GoStep(r) PROVE Quiet
  <1> USE AutoStartAssumption
  <1>1. Typed
    BY DEF IInv
  <1>2. /\ joins \in [Owners -> JoinCall] /\ r \in Owners
        /\ goroutines \in [Reservations -> Goroutine]
        /\ goroutines[r] \in Goroutine
    BY <1>1 DEF Typed, ThreadTypes, Owners
  <1>3. \A q \in Reservations : q # r => goroutines'[q] = goroutines[q]
    BY <1>2 DEF GoStep, GoCheck, GoPresence, GoRecheck, StartStream, GoTimer,
                GoCancelled, GoSuccessor, GoFinish, Go
  <1>4. \A s \in Streams : retry'[s] \in {retry[s], NoReservation}
    BY <1>1 DEF GoStep, GoCheck, GoPresence, GoRecheck, StartStream, GoTimer,
                GoCancelled, GoSuccessor, GoFinish, Forget, starts, Typed,
                StartTypes
  <1>5. CASE GoFinish(r)
    <2>1. goroutines'[r] = Gone /\ UNCHANGED joins
      BY <1>2, <1>5 DEF GoFinish
    <2>2. Remembers /\ \A q \in Reservations : RealGo(q)' => RealGo(q)
      BY <1>3, <2>1 DEF Remembers, RealGo, Gone
    <2>3. \A o \in Owners : RealJoin(o)' => RealJoin(o)
      BY <2>1 DEF RealJoin
    <2>4. QED
      BY <1>4, <2>2, <2>3, NothingReal, SomethingReal DEF Quiet
  <1>6. CASE ~GoFinish(r)
    <2>1. /\ goroutines[r].pc \notin {"none", "finish"}
          /\ goroutines'[r].existing = goroutines[r].existing
      <3>1. goroutines[r].pc \notin {"none", "finish"}
        BY <1>6 DEF GoStep, GoCheck, GoPresence, GoRecheck, StartStream,
                    GoTimer, GoCancelled, GoSuccessor
      <3>2. CASE GoRecheck(r)
        <4>1. PICK p : goroutines' = [goroutines EXCEPT ![r].seen = FALSE,
                                        ![r].pc = p]
          BY <3>2 DEF GoRecheck
        <4>2. QED
          BY <1>2, <3>1, <4>1 DEF Goroutine
      <3>3. ASSUME NEW found \in BOOLEAN, GoPresence(r, found)
            PROVE  goroutines'[r].existing = goroutines[r].existing
        <4>1. PICK b : goroutines' = [goroutines EXCEPT ![r].pc = "recheck",
                                        ![r].seen = b]
          BY <3>3 DEF GoPresence
        <4>2. QED
          BY <1>2, <4>1 DEF Goroutine
      <3>4. ASSUME NEW answer \in Answers, StartStream(r, answer)
            PROVE  goroutines'[r].existing = goroutines[r].existing
        <4>1. PICK p, a, b : goroutines' = [goroutines EXCEPT ![r].pc = p,
                               ![r].attempt = a, ![r].busy = b]
          BY <3>4 DEF StartStream
        <4>2. QED
          BY <1>2, <4>1 DEF Goroutine
      <3>5. CASE \E p : Go(r, p)
        <4>1. PICK p : goroutines' = [goroutines EXCEPT ![r].pc = p]
          BY <3>5 DEF Go
        <4>2. QED
          BY <1>2, <3>1, <4>1 DEF Goroutine
      <3>6. QED
        BY <1>6, <3>1, <3>2, <3>3, <3>4, <3>5
           DEF GoStep, GoCheck, GoTimer, GoCancelled, GoSuccessor
    <2>2. Remembers /\ \A q \in Reservations : RealGo(q)' => RealGo(q)
      BY <1>3, <2>1 DEF Remembers, RealGo
    <2>3. \A o \in Owners : RealJoin(o)' => RealJoinUnderWay
      <3>1. CASE UNCHANGED joins
        BY <3>1, SomethingReal DEF RealJoin
      <3>2. CASE ~UNCHANGED joins
        <4>1. joins' = [joins EXCEPT ![r] =
                [NoJoin EXCEPT !.pc = "enter",
                   !.target = goroutines[r].target,
                   !.existing = goroutines[r].existing]]
          BY <1>6, <3>2 DEF GoStep, GoCheck, GoPresence, GoRecheck,
                 StartStream, GoTimer, GoCancelled, GoSuccessor
        <4>2. /\ joins'[r].existing = goroutines[r].existing
              /\ \A o \in Owners : o # r => joins'[o] = joins[o]
          BY <1>2, <4>1 DEF NoJoin
        <4>3. RealJoin(r)' => RealGo(r)
          BY <2>1, <4>2 DEF RealJoin, RealGo
        <4>4. \A o \in Owners : o # r => (RealJoin(o)' => RealJoin(o))
          BY <4>2 DEF RealJoin
        <4>5. QED
          BY <4>3, <4>4, SomethingReal
      <3>3. QED
        BY <3>1, <3>2
    <2>4. QED
      BY <1>4, <2>2, <2>3, NothingReal, SomethingReal DEF Quiet
  <1>7. QED
    BY <1>5, <1>6

\* The stop handler stops the current job, and a start that is joining is for
\* it or for none.
JobAligned ==
  /\ stopper # NoStream => current = stopper
  /\ starter.pc = "join" => /\ starter.stream \in Streams
                            /\ current \in {NoStream, starter.stream}

\* No epoch is newer than the last one projected.
EpochsKnown ==
  /\ \A s \in Streams : /\ defaults[s] \in {0, newest[s]}
                        /\ lastDefaults[s] <= newest[s]
                        /\ ended[s] <= newest[s]
  /\ current # NoStream => currentEpoch <= newest[current]
  /\ starter.pc = "join" => starter.epoch <= newest[starter.stream]

\* A stream that was stopped with no real join under way keeps its mark until
\* a newer epoch is projected, and no real join is under way since.
EndedIsMarked ==
  \A s \in Streams : ended[s] # 0 =>
    /\ ~RealJoinUnderWay
    /\ \/ stopped[s] = ended[s]
       \/ stopped[s] = NoMark /\ ended[s] < newest[s]

EndInv == JobAligned /\ EpochsKnown /\ EndedIsMarked

LEMMA InitEnded == Init => EndInv
  <1> SUFFICES ASSUME Init PROVE EndInv
    OBVIOUS
  <1> USE AutoStartAssumption
  <1>1. Typed
    BY InitTyped
  <1>2. JobAligned
    BY DEF Init, JobAligned, NoStart
  <1>3. \A s \in Streams : newest[s] \in Nat
    BY <1>1 DEF Typed, ConfigTypes
  <1>4. EpochsKnown
    BY <1>3 DEF Init, EpochsKnown, NoStart, Nothing
  <1>5. EndedIsMarked
    BY DEF Init, EndedIsMarked, Nothing
  <1>6. QED
    BY <1>2, <1>4, <1>5 DEF EndInv

\* A step that leaves jobs, projection and marks alone
LEMMA EndStays ==
  ASSUME EndInv, UNCHANGED <<stopper, current, currentEpoch, newest, defaults,
                             lastDefaults, ended, stopped>>,
         UNCHANGED starter \/ starter'.pc # "join",
         RealJoinUnderWay' => RealJoinUnderWay
  PROVE  EndInv'
  <1>1. JobAligned'
    BY DEF EndInv, JobAligned
  <1>2. EpochsKnown'
    BY DEF EndInv, EpochsKnown
  <1>3. EndedIsMarked'
    BY DEF EndInv, EndedIsMarked
  <1>4. QED
    BY <1>1, <1>2, <1>3 DEF EndInv

\* Replacing the projection: another epoch that removes a mark is newer.
LEMMA DefaultsEnded ==
  ASSUME IInv, EndInv, Typed', NEW w \in [Streams -> 0..MaxEpoch],
         NEW assigned, SetStreamVoiceDefaults(w, assigned),
         \A s \in Streams : w[s] = 0 \/ w[s] >= newest[s],
         UNCHANGED <<current, currentEpoch, stopper, starter, ended>>,
         RealJoinUnderWay' => RealJoinUnderWay
  PROVE  EndInv'
  <1> USE AutoStartAssumption
  <1>1. Typed /\ ConfigTypes /\ JobTypes /\ StartTypes /\ LockTypes
    BY DEF IInv, Typed
  <1>2. ASSUME NEW s \in Streams
        PROVE  /\ newest[s] \in 0..MaxEpoch /\ w[s] \in 0..MaxEpoch
               /\ newest'[s] = IF w[s] # 0 THEN w[s] ELSE newest[s]
               /\ newest'[s] >= newest[s] /\ newest'[s] \in Nat
               /\ defaults'[s] = w[s]
    BY <1>1 DEF SetStreamVoiceDefaults, ConfigTypes
  <1>3. JobAligned'
    BY DEF EndInv, JobAligned
  <1>4. ASSUME NEW s \in Streams
        PROVE  /\ defaults'[s] \in {0, newest'[s]}
               /\ lastDefaults'[s] <= newest'[s]
               /\ ended'[s] <= newest'[s]
    <2>1. /\ defaults[s] \in {0, newest[s]} /\ lastDefaults[s] <= newest[s]
          /\ ended[s] <= newest[s]
      BY DEF EndInv, EpochsKnown
    <2>2. /\ defaults[s] \in Nat /\ lastDefaults[s] \in Nat
          /\ ended[s] \in Nat
      BY <1>1 DEF ConfigTypes, JobTypes
    <2>3. lastDefaults'[s] \in {w[s], 0, defaults[s], lastDefaults[s]}
          /\ (w[s] = 0 => lastDefaults'[s] \in
                            {0, defaults[s], lastDefaults[s]})
          /\ (w[s] # 0 => lastDefaults'[s] = w[s])
      BY DEF SetStreamVoiceDefaults, Retained
    <2>4. QED
      BY <1>2, <2>1, <2>2, <2>3
  <1>5. current' # NoStream => currentEpoch' <= newest'[current']
    <2>1. ASSUME current # NoStream PROVE currentEpoch <= newest'[current]
      <3>1. current \in Streams /\ currentEpoch \in Nat
        BY <1>1, <2>1 DEF JobTypes, MaybeStream
      <3>2. currentEpoch <= newest[current]
        BY <2>1 DEF EndInv, EpochsKnown
      <3>3. QED
        BY <1>2, <3>1, <3>2
    <2>2. QED
      BY <2>1
  <1>6. starter'.pc = "join" => starter'.epoch <= newest'[starter'.stream]
    <2>1. ASSUME starter.pc = "join"
          PROVE  starter.epoch <= newest'[starter.stream]
      <3>1. starter.stream \in Streams /\ starter.epoch \in Nat
        BY <1>1, <2>1 DEF EndInv, JobAligned, LockTypes
      <3>2. starter.epoch <= newest[starter.stream]
        BY <2>1 DEF EndInv, EpochsKnown
      <3>3. QED
        BY <1>2, <3>1, <3>2
    <2>2. QED
      BY <2>1
  <1>7. EndedIsMarked'
    <2> SUFFICES ASSUME NEW s \in Streams, ended[s] # 0
                 PROVE  /\ ~RealJoinUnderWay'
                        /\ \/ stopped'[s] = ended[s]
                           \/ /\ stopped'[s] = NoMark
                              /\ ended[s] < newest'[s]
      BY DEF EndedIsMarked
    <2>1. /\ ~RealJoinUnderWay
          /\ \/ stopped[s] = ended[s]
             \/ stopped[s] = NoMark /\ ended[s] < newest[s]
      BY DEF EndInv, EndedIsMarked
    <2>2. ended[s] \in Nat /\ ended[s] <= newest[s]
      BY <1>1 DEF EndInv, EpochsKnown, JobTypes
    <2>3. stopped'[s] = IF NewAuthority(s, w) THEN NoMark ELSE stopped[s]
      BY DEF SetStreamVoiceDefaults
    <2>4. CASE NewAuthority(s, w)
      <3>1. w[s] # 0 /\ stopped[s] # NoMark /\ w[s] # stopped[s]
        BY <2>4 DEF NewAuthority
      <3>2. stopped[s] = ended[s] /\ newest'[s] = w[s] /\ w[s] >= newest[s]
        BY <1>2, <2>1, <3>1
      <3>3. w[s] # ended[s] /\ w[s] \in Nat /\ newest[s] \in Nat
        BY <1>2, <3>1, <3>2
      <3>4. ended[s] < newest'[s]
        BY <2>2, <3>2, <3>3
      <3>5. QED
        BY <2>1, <2>3, <2>4, <3>4
    <2>5. CASE ~NewAuthority(s, w)
      <3>1. newest[s] \in Nat /\ newest'[s] \in Nat /\ newest'[s] >= newest[s]
        BY <1>2
      <3>2. ended[s] < newest[s] => ended[s] < newest'[s]
        BY <2>2, <3>1
      <3>3. QED
        BY <2>1, <2>3, <2>5, <3>2
    <2>6. QED
      BY <2>4, <2>5
  <1>8. EpochsKnown'
    BY <1>4, <1>5, <1>6 DEF EpochsKnown
  <1>9. QED
    BY <1>3, <1>7, <1>8 DEF EndInv

LEMMA RefreshEnded ==
  ASSUME IInv, EndInv, RefreshStep PROVE EndInv'
  <1> USE AutoStartAssumption
  <1>1. Typed /\ LockInv
    BY DEF IInv
  <1>2. Typed'
    BY <1>1, RefreshTyped
  <1>3. RealJoinUnderWay' => RealJoinUnderWay
    BY RefreshQuiet DEF Quiet
  <1>4. CASE Apply \/ Refuse
    <2>1. UNCHANGED <<current, currentEpoch, stopper, starter, ended>>
      BY <1>4 DEF Apply, Refuse, job, handlers
    <2>2. PICK w, a :
            /\ w \in [Streams -> 0..MaxEpoch]
            /\ SetStreamVoiceDefaults(w, a)
            /\ \A s \in Streams : w[s] = 0 \/ w[s] >= newest[s]
      <3>1. CASE Apply
        <4>1. PICK v \in Projections :
                SetStreamVoiceDefaults(Project(v), Assigned(v))
          BY <3>1 DEF Apply
        <4>2. /\ v \in [Streams -> 0..MaxEpoch]
              /\ \A s \in Streams : v[s] = 0 \/ v[s] >= newest[s]
          BY DEF Projections
        <4>3. \A s \in Streams : Project(v)[s] \in {0, v[s]}
          BY DEF Project, SelectWaiting, Nothing
        <4>4. Project(v) \in [Streams -> 0..MaxEpoch]
          BY <4>2, ProjectTypes
        <4>5. \A s \in Streams :
                Project(v)[s] = 0 \/ Project(v)[s] >= newest[s]
          BY <4>2, <4>3
        <4>6. QED
          BY <4>1, <4>4, <4>5
      <3>2. CASE Refuse
        <4>1. PICK a : SetStreamVoiceDefaults(Nothing, a)
          BY <3>2 DEF Refuse
        <4>2. \A s \in Streams : Nothing[s] = 0
          BY DEF Nothing
        <4>3. QED
          BY <4>1, <4>2, Constants
      <3>3. QED
        BY <1>4, <3>1, <3>2
    <2>3. QED
      BY <1>2, <1>3, <2>1, <2>2, DefaultsEnded
  <1>5. CASE ~(Apply \/ Refuse)
    <2>1. UNCHANGED <<stopper, current, currentEpoch, newest, defaults,
                      lastDefaults, ended, stopped>>
      BY <1>5 DEF RefreshStep, JoinRefresh, JoinRefreshFails, StaleRefresh,
             StaleRefreshFails, SetTargets, Synced, job, config, starts,
             handlers
    <2>2. UNCHANGED starter \/ starter' = NoStart
      BY <1>5 DEF RefreshStep, JoinRefresh, JoinRefreshFails, StaleRefresh,
             StaleRefreshFails, SetTargets, Synced, Unlock, handlers
    <2>3. UNCHANGED starter \/ starter'.pc # "join"
      BY <2>2 DEF NoStart
    <2>4. QED
      BY <1>3, <2>1, <2>3, EndStays
  <1>6. QED
    BY <1>4, <1>5

LEMMA HandlerEnded ==
  ASSUME IInv, EndInv, HandlerStep PROVE EndInv'
  <1> USE AutoStartAssumption
  <1>1. Typed /\ JobTypes /\ ConfigTypes /\ LockTypes /\ StartTypes
    BY DEF IInv, Typed
  <1>2. RealJoinUnderWay' => RealJoinUnderWay
    BY HandlerQuiet DEF Quiet
  <1>3. CASE StartBegin
    <2>1. UNCHANGED <<stopper, current, currentEpoch, newest, defaults,
                      lastDefaults, ended, stopped>>
      BY <1>3 DEF StartBegin, job, starts
    <2>2. /\ starter.stream \in Streams
          /\ current \in {NoStream, starter.stream}
          /\ starter' = [pc |-> "join", stream |-> starter.stream,
                         epoch |-> StartEpoch(starter.stream)]
      BY <1>3 DEF StartBegin, Assigned
    <2>3. StartEpoch(starter.stream) <= newest[starter.stream]
      <3>1. /\ defaults[starter.stream] \in {0, newest[starter.stream]}
            /\ lastDefaults[starter.stream] <= newest[starter.stream]
        BY <2>2 DEF EndInv, EpochsKnown
      <3>2. newest[starter.stream] \in Nat
        BY <1>1, <2>2 DEF ConfigTypes
      <3>3. QED
        BY <3>1, <3>2 DEF StartEpoch
    <2>4. JobAligned'
      BY <2>1, <2>2 DEF EndInv, JobAligned
    <2>5. EpochsKnown'
      BY <2>1, <2>2, <2>3 DEF EndInv, EpochsKnown
    <2>6. EndedIsMarked'
      BY <1>2, <2>1 DEF EndInv, EndedIsMarked
    <2>7. QED
      BY <2>4, <2>5, <2>6 DEF EndInv
  <1>4. CASE StartRefused \/ JoinVoiceFails
    <2>1. UNCHANGED <<stopper, current, currentEpoch, newest, defaults,
                      lastDefaults, ended, stopped>>
      BY <1>4 DEF StartRefused, JoinVoiceFails, job, config, starts
    <2>2. starter' = NoStart
      BY <1>4 DEF StartRefused, JoinVoiceFails, Unlock
    <2>3. QED
      BY <1>2, <2>1, <2>2, EndStays DEF NoStart
  <1>5. CASE StartCommit
    <2>1. /\ starter.pc = "join" /\ current' = starter.stream
          /\ currentEpoch' = starter.epoch /\ starter' = NoStart
          /\ UNCHANGED <<stopper, newest, defaults, lastDefaults, ended,
                         stopped>>
      BY <1>5 DEF StartCommit, Unlock, config
    <2>2. /\ starter.stream \in Streams
          /\ current \in {NoStream, starter.stream}
          /\ starter.epoch <= newest[starter.stream]
      BY <2>1 DEF EndInv, JobAligned, EpochsKnown
    <2>3. JobAligned'
      BY <2>1, <2>2 DEF EndInv, JobAligned, NoStart
    <2>4. EpochsKnown'
      BY <2>1, <2>2 DEF EndInv, EpochsKnown, NoStart
    <2>5. EndedIsMarked'
      BY <1>2, <2>1 DEF EndInv, EndedIsMarked
    <2>6. QED
      BY <2>3, <2>4, <2>5 DEF EndInv
  <1>6. CASE StopFails
    <2>1. /\ stopper' = NoStream
          /\ UNCHANGED <<current, currentEpoch, starter, newest, defaults,
                         lastDefaults, ended, stopped>>
      BY <1>6 DEF StopFails, config, starts
    <2>2. JobAligned' /\ EpochsKnown'
      BY <2>1 DEF EndInv, JobAligned, EpochsKnown
    <2>3. EndedIsMarked'
      BY <1>2, <2>1 DEF EndInv, EndedIsMarked
    <2>4. QED
      BY <2>2, <2>3 DEF EndInv
  <1>7. CASE StopFinish
    <2>1. /\ stopper' = NoStream /\ current' = NoStream
          /\ stopper \in Streams /\ current = stopper
          /\ UNCHANGED <<currentEpoch, starter, newest, defaults,
                         lastDefaults>>
      BY <1>1, <1>7 DEF StopFinish, config, EndInv, JobAligned, LockTypes,
                        MaybeStream
    <2>2. /\ currentEpoch <= newest[stopper] /\ currentEpoch \in 0..MaxEpoch
          /\ newest[stopper] \in Nat /\ currentEpoch # NoMark
      BY <1>1, <2>1 DEF EndInv, EpochsKnown, JobTypes, ConfigTypes
    <2>3. /\ stopped'[stopper] = currentEpoch
          /\ ended'[stopper] = IF RealJoinUnderWay THEN 0 ELSE currentEpoch
          /\ \A s \in Streams : s # stopper =>
               stopped'[s] = stopped[s] /\ ended'[s] = ended[s]
      BY <1>1, <1>7, <2>1 DEF StopFinish, StartTypes, JobTypes
    <2>4. JobAligned'
      BY <2>1 DEF EndInv, JobAligned
    <2>5. ended'[stopper] <= newest[stopper]
      BY <2>2, <2>3
    <2>6. EpochsKnown'
      BY <2>1, <2>3, <2>5 DEF EndInv, EpochsKnown
    <2>7. EndedIsMarked'
      <3> SUFFICES ASSUME NEW s \in Streams, ended'[s] # 0
                   PROVE  /\ ~RealJoinUnderWay'
                          /\ \/ stopped'[s] = ended'[s]
                             \/ /\ stopped'[s] = NoMark
                                /\ ended'[s] < newest'[s]
        BY DEF EndedIsMarked
      <3>1. CASE s = stopper
        BY <1>2, <2>3, <3>1
      <3>2. CASE s # stopper
        BY <1>2, <2>1, <2>3, <3>2 DEF EndInv, EndedIsMarked
      <3>3. QED
        BY <3>1, <3>2
    <2>8. QED
      BY <2>4, <2>6, <2>7 DEF EndInv
  <1>8. QED
    BY <1>3, <1>4, <1>5, <1>6, <1>7 DEF HandlerStep

\* Only a real join removes a mark, and then no stream is recorded as ended.
LEMMA JoinEnded ==
  ASSUME IInv, EndInv, NEW o \in Owners, JoinStep(o) PROVE EndInv'
  <1> USE AutoStartAssumption
  <1>1. Typed /\ StartTypes
    BY DEF IInv, Typed
  <1>2. /\ joins[o].pc # "none"
        /\ RealJoinUnderWay' => RealJoinUnderWay
    BY JoinEffects
  <1>3. UNCHANGED <<stopper, starter, current, currentEpoch, newest, defaults,
                    lastDefaults, ended>>
    BY DEF JoinStep, JoinNext, JoinEnter, JoinDecide, JoinAgain, JoinStays,
           job, config, handlers
  <1>4. CASE UNCHANGED stopped
    BY <1>2, <1>3, <1>4, EndStays
  <1>5. CASE ~UNCHANGED stopped
    <2>1. PICK s : Decide(s, o)
      BY <1>5 DEF JoinStep, JoinNext, JoinEnter, JoinDecide, JoinAgain, starts
    <2>2. /\ ~Ignored(s, o) /\ stopped' = [stopped EXCEPT ![s] = NoMark]
      BY <1>5, <2>1 DEF Decide, starts
    <2>3. stopped[s] # NoMark
      BY <1>1, <1>5, <2>2 DEF StartTypes
    <2>4. RealJoinUnderWay
      BY <1>2, <2>2, <2>3, SomethingReal DEF Ignored, RealJoin
    <2>5. \A t \in Streams : ended[t] = 0
      BY <2>4 DEF EndInv, EndedIsMarked
    <2>6. JobAligned' /\ EpochsKnown'
      BY <1>3 DEF EndInv, JobAligned, EpochsKnown
    <2>7. EndedIsMarked'
      BY <1>3, <2>5 DEF EndedIsMarked
    <2>8. QED
      BY <2>6, <2>7 DEF EndInv
  <1>6. QED
    BY <1>4, <1>5

LEMMA GoEnded ==
  ASSUME IInv, EndInv, NEW r \in Reservations, GoStep(r) PROVE EndInv'
  <1>1. RealJoinUnderWay' => RealJoinUnderWay
    BY GoQuiet DEF Quiet
  <1>2. UNCHANGED <<stopper, starter, current, currentEpoch, newest, defaults,
                    lastDefaults, ended, stopped>>
    BY DEF GoStep, GoCheck, GoPresence, GoRecheck, StartStream, GoTimer,
           GoCancelled, GoSuccessor, GoFinish, GoStays, job, config,
           handlers, starts
  <1>3. QED
    BY <1>1, <1>2, EndStays

LEMMA OutsideEnded ==
  ASSUME IInv, EndInv, Outside PROVE EndInv'
  <1> USE AutoStartAssumption
  <1>1. Typed /\ LockInv /\ ConfigTypes
    BY DEF IInv, Typed
  <1>2. ASSUME NEW c \in Callbacks, Enters(c) PROVE EndInv'
    <2>1. /\ ended' = Nothing
          /\ UNCHANGED <<stopper, starter, current, currentEpoch, newest,
                         defaults, lastDefaults>>
      BY <1>2 DEF Enters, Elsewhere, job, config, handlers
    <2>2. \A s \in Streams : ended'[s] = 0 /\ newest[s] \in Nat
      BY <1>1, <2>1 DEF Nothing, ConfigTypes
    <2>3. JobAligned'
      BY <2>1 DEF EndInv, JobAligned
    <2>4. EpochsKnown'
      BY <2>1, <2>2 DEF EndInv, EpochsKnown
    <2>5. EndedIsMarked'
      BY <2>2 DEF EndedIsMarked
    <2>6. QED
      BY <2>3, <2>4, <2>5 DEF EndInv
  <1>3. ASSUME Quiet, ~\E c \in Callbacks : Enters(c) PROVE EndInv'
    <2>1. CASE StopBegin
      <3>1. /\ stopper' = current
            /\ UNCHANGED <<starter, current, currentEpoch, newest, defaults,
                           lastDefaults, ended, stopped>>
        BY <2>1 DEF StopBegin, config
      <3>2. JobAligned' /\ EpochsKnown'
        BY <3>1 DEF EndInv, JobAligned, EpochsKnown
      <3>3. EndedIsMarked'
        BY <1>3, <3>1 DEF EndInv, EndedIsMarked, Quiet
      <3>4. QED
        BY <3>2, <3>3 DEF EndInv
    <2>2. CASE ~StopBegin
      <3>1. UNCHANGED <<stopper, current, currentEpoch, newest, defaults,
                        lastDefaults, ended, stopped>>
        BY <1>3, <2>2
           DEF Outside, LoopTick, StopRefused, DiscordDisconnected,
               RefreshWaitEnds, StartRequest, CooldownEnds, Resyncs,
               Elsewhere, job, config, starts, handlers
      <3>2. UNCHANGED starter \/ starter'.pc # "join"
        BY <1>3, <2>2
           DEF Outside, LoopTick, StopRefused, DiscordDisconnected,
               RefreshWaitEnds, StartRequest, CooldownEnds, Resyncs,
               Elsewhere, handlers, NoStart
      <3>3. QED
        BY <1>3, <3>1, <3>2, EndStays DEF Quiet
    <2>3. QED
      BY <2>1, <2>2
  <1>4. QED
    BY <1>2, <1>3, OutsideQuiet

LEMMA NextEnded == IInv /\ EndInv /\ [Next]_vars => EndInv'
  <1> SUFFICES ASSUME IInv, EndInv, [Next]_vars PROVE EndInv'
    OBVIOUS
  <1>1. CASE UNCHANGED vars
    <2>1. UNCHANGED <<stopper, starter, current, currentEpoch, newest,
                      defaults, lastDefaults, ended, stopped, joins,
                      goroutines>>
      BY <1>1 DEF vars, job, config, starts, handlers
    <2>2. QED
      BY <2>1, StillReal, EndStays
  <1>2. CASE Next
    BY <1>2, RefreshEnded, HandlerEnded, JoinEnded, GoEnded, OutsideEnded
       DEF Next
  <1>3. QED
    BY <1>1, <1>2

\* Without a new reservation nobody starts acting for presence.
LEMMA QuietPresence ==
  ASSUME IInv, NEW r \in Reservations, NEW s \in Streams,
         \A t \in Streams : retry'[t] \in {retry[t], NoReservation},
         Remembers, ByPresence(r, s)'
  PROVE  ByPresence(r, s)
  <1> USE AutoStartAssumption
  <1>1. /\ goroutines'[r].target.stream = s /\ retry'[s] = r
        /\ goroutines'[r].existing
    BY DEF ByPresence, Held, StreamOf
  <1>2. retry[s] = r
    BY <1>1
  <1>3. StreamOf(r) = s
    BY <1>2 DEF IInv, ReservationLive
  <1>4. goroutines'[r] # Gone
    BY <1>1 DEF Gone, NoTarget
  <1>5. goroutines[r].existing
    BY <1>1, <1>4 DEF Remembers
  <1>6. QED
    BY <1>2, <1>3, <1>5 DEF ByPresence, Held

LEMMA DecidePresence ==
  ASSUME IInv, EndInv, NEW o \in Owners, NEW t \in MaybeStream, Decide(t, o),
         NEW r \in Reservations, NEW s \in Streams,
         ByPresence(r, s)', ~ByPresence(r, s)
  PROVE  ended[s] # goroutines'[r].target.epoch
  <1> USE AutoStartAssumption
  <1>1. /\ Typed /\ ReservationLive
        /\ goroutines \in [Reservations -> Goroutine]
        /\ retry \in [Streams -> Reservations \cup {NoReservation}]
    BY DEF IInv, Typed, ThreadTypes, StartTypes
  <1>2. ~UNCHANGED <<retry, goroutines>>
    BY DEF ByPresence, Held, StreamOf
  <1>3. ~Ignored(t, o)
    BY <1>2 DEF Decide, starts
  <1>4. PICK q \in Reservations :
          /\ goroutines[q].pc = "none"
          /\ retry' = [retry EXCEPT ![t] = q]
          /\ goroutines' = [goroutines EXCEPT ![q] =
               [Gone EXCEPT !.pc = "check", !.gen = generation,
                  !.target = joins[o].target,
                  !.existing = joins[o].existing]]
    BY <1>2, <1>3 DEF Decide
  <1>5. /\ goroutines'[q].target = joins[o].target
        /\ goroutines'[q].existing = joins[o].existing
        /\ \A p \in Reservations : p # q => goroutines'[p] = goroutines[p]
    BY <1>1, <1>4 DEF Gone
  <1>6. /\ t \in Streams /\ joins[o].target.stream = t
        /\ joins[o].target.epoch = defaults[t]
        /\ joins[o].existing => stopped[t] = NoMark
    BY <1>3 DEF Ignored, Authorized, MaybeStream
  <1>7. /\ goroutines'[r].target.stream = s /\ retry'[s] = r
        /\ goroutines'[r].existing
    BY DEF ByPresence, Held, StreamOf
  <1>8. r = q
    <2> SUFFICES ASSUME r # q PROVE FALSE
      OBVIOUS
    <2>1. goroutines'[r] = goroutines[r]
      BY <1>5
    <2>2. s # t /\ retry[s] = r
      BY <1>1, <1>4, <1>6, <1>7
    <2>3. ByPresence(r, s)
      BY <1>7, <2>1, <2>2 DEF ByPresence, Held, StreamOf
    <2>4. QED
      BY <2>3
  <1>9. s = t /\ stopped[s] = NoMark
    BY <1>5, <1>6, <1>7, <1>8
  <1>10. joins[o].target.epoch \in 1..MaxEpoch
    <2>1. joins[o].target \in Target \cup {NoTarget}
      BY <1>1 DEF Typed, ThreadTypes, JoinCall
    <2>2. QED
      BY <1>6, <2>1 DEF Target, Epochs, NoTarget
  <1>11. defaults[s] = newest[s] /\ defaults[s] # 0
    BY <1>6, <1>9, <1>10 DEF EndInv, EpochsKnown
  <1>12. ended[s] \in 0..MaxEpoch /\ newest[s] \in 0..MaxEpoch
    BY <1>1 DEF Typed, JobTypes, ConfigTypes
  <1>13. ended[s] # defaults[s]
    <2>1. CASE ended[s] = 0
      BY <1>11, <2>1
    <2>2. CASE ended[s] # 0
      <3>1. ended[s] < newest[s]
        BY <1>9, <1>12, <2>2 DEF EndInv, EndedIsMarked
      <3>2. QED
        BY <1>11, <1>12, <3>1
    <2>3. QED
      BY <2>1, <2>2
  <1>14. QED
    BY <1>5, <1>6, <1>8, <1>9, <1>13

LEMMA RestartStep ==
  ASSUME IInv, EndInv, [Next]_vars,
         NEW r \in Reservations, NEW s \in Streams,
         ByPresence(r, s)', ~ByPresence(r, s)
  PROVE  ended[s] # goroutines'[r].target.epoch
  <1>1. ~Quiet
    BY QuietPresence DEF Quiet
  <1>2. ~UNCHANGED <<retry, goroutines>>
    BY DEF ByPresence, Held, StreamOf
  <1>3. Next
    BY <1>2 DEF vars, starts
  <1>4. ~\E c \in Callbacks : Enters(c)
    BY <1>2 DEF Enters, Elsewhere
  <1>5. PICK o \in Owners : JoinStep(o)
    BY <1>1, <1>3, <1>4, RefreshQuiet, HandlerQuiet, GoQuiet, OutsideQuiet
       DEF Next
  <1>6. PICK t \in MaybeStream : Decide(t, o)
    BY <1>1, <1>5, JoinEffects
  <1>7. QED
    BY <1>6, DecidePresence

\* A stream that was stopped is not started because somebody is still in its
\* channel, unless its epoch is another one: the mark of the stop survives
\* every projection that is not newer, and only a real join removes it.
THEOREM RestartCorrect == Spec => RestartNeedsJoin
  <1>1. Init => IInv /\ EndInv
    BY InitReserved, InitEnded
  <1>2. (IInv /\ EndInv) /\ [Next]_vars => (IInv /\ EndInv)'
    BY NextReserved, NextEnded
  <1>3. (IInv /\ EndInv) /\ [Next]_vars =>
          [\A r \in Reservations, s \in Streams :
             ByPresence(r, s)' /\ ~ByPresence(r, s) =>
               ended[s] # goroutines'[r].target.epoch]_vars
    BY RestartStep
  <1>4. QED
    BY <1>1, <1>2, <1>3, PTL DEF Spec, RestartNeedsJoin

=============================================================================
