--------------------- MODULE NotificationReceiptsProofs ---------------------
(***************************************************************************)
(* Theorems about NotificationReceipts, for any sets of requests, events   *)
(* and channels and any limit on the receipts.                             *)
(***************************************************************************)
EXTENDS NotificationReceipts, FiniteSetTheorems, TLAPS

ReceiptMaps == [Events -> Callers \cup {NoCaller}]
Receipt     == [channel : Channels \cup {NoChannel},
                state : {"none", "sending", "sent", "failed"}, at : Nat]
Call        == [pc : CallPcs, event : Events,
                channel : Channels \cup {NoChannel},
                on : Callers \cup {NoCaller}]

-----------------------------------------------------------------------------
(* What a prune may do.                                                    *)

\* Leaving receipts out of the map keeps or forgets each of them.
LEMMA WithoutKeeps ==
  ASSUME NEW rs \in ReceiptMaps, NEW es
  PROVE  /\ Without(rs, es) \in ReceiptMaps
         /\ \A e \in Events :
              Without(rs, es)[e] = IF e \in es THEN NoCaller ELSE rs[e]
  BY DEF Without, ReceiptMaps

\* pruneNotificationReceiptsLocked forgets only receipts of calls that are
\* through, whatever the cutoff and however full the map.
LEMMA PruneKeeps ==
  ASSUME receipts \in ReceiptMaps, NEW cutoff
  PROVE  /\ Prune(cutoff) \in ReceiptMaps
         /\ \A e \in Events :
              /\ Prune(cutoff)[e] \in {receipts[e], NoCaller}
              /\ receipts[e] # NoCaller /\ made[receipts[e]].state # "sent"
                   => Prune(cutoff)[e] = receipts[e]
  <1> DEFINE fresh == Without(receipts, Expired(receipts, cutoff))
  <1>1. /\ fresh \in ReceiptMaps
        /\ \A e \in Events :
             fresh[e] = IF e \in Expired(receipts, cutoff)
                          THEN NoCaller ELSE receipts[e]
    BY WithoutKeeps
  <1>2. /\ Without(fresh, Oldest(fresh)) \in ReceiptMaps
        /\ \A e \in Events :
             Without(fresh, Oldest(fresh))[e] =
               IF e \in Oldest(fresh) THEN NoCaller ELSE fresh[e]
    <2> HIDE DEF fresh
    <2>1. QED
      BY <1>1, WithoutKeeps
  <1>3. Prune(cutoff) = Without(fresh, Oldest(fresh))
    BY DEF Prune
  <1>4. \A e \in Expired(receipts, cutoff) : made[receipts[e]].state = "sent"
    BY DEF Expired, Completed
  <1> HIDE DEF fresh
  <1>5. \A e \in Oldest(fresh) : made[fresh[e]].state = "sent"
    BY DEF Oldest, Completed
  <1>6. QED
    BY <1>1, <1>2, <1>3, <1>4, <1>5

-----------------------------------------------------------------------------
(* Type correctness.                                                       *)

\* The type invariant in terms of the sets above
Typed ==
  /\ channel \in Channels \cup {NoChannel}
  /\ receipts \in ReceiptMaps
  /\ made \in [Callers -> Receipt]
  /\ calls \in [Callers -> Call]
  /\ \A c \in Callers : calls[c].pc # "idle" => calls[c].channel \in Channels
  /\ clock \in Nat
  /\ posts \in SUBSET [by : Callers, event : Events, channel : Channels]
  /\ forgot \in [Events -> Nat]
  /\ jobs \in Nat

\* The two are the same, before and after a step.
LEMMA Types == (TypeOK <=> Typed) /\ (TypeOK' <=> Typed')
  BY DEF TypeOK, Typed, ReceiptMaps, Receipt, Call

\* A call that goes on stays a call, and keeps its channel.
LEMMA GoOnTypes ==
  ASSUME TypeOK, NEW c \in Callers, NEW pc \in CallPcs, GoOn(c, pc),
         calls[c].pc # "idle"
  PROVE  /\ calls' \in [Callers -> Call]
         /\ \A d \in Callers :
              calls'[d].pc # "idle" => calls'[d].channel \in Channels
  BY Types DEF Typed, GoOn, Call

\* The first states have their types.
THEOREM InitTypeOK == Init => TypeOK
  <1> SUFFICES ASSUME Init PROVE TypeOK
    OBVIOUS
  <1>1. PICK e \in [Callers -> Events] : calls = [c \in Callers |-> Idle(e[c])]
    BY DEF Init
  <1>2. /\ calls \in [Callers -> Call]
        /\ \A c \in Callers : calls[c].pc = "idle"
    BY <1>1 DEF Idle, Call, CallPcs, Underway
  <1>3. QED
    BY <1>2, Types DEF Typed, Init, ReceiptMaps, Receipt, NoReceipt

\* Every step keeps the types.
THEOREM NextTypeOK == TypeOK /\ [Next]_vars => TypeOK'
  <1> SUFFICES ASSUME TypeOK, [Next]_vars PROVE TypeOK'
    OBVIOUS
  <1> USE Types DEF Typed
  <1>1. ASSUME NEW ch \in Channels \cup {NoChannel}, JobChanges(ch)
        PROVE  TypeOK'
    BY <1>1 DEF JobChanges
  <1>2. ASSUME NEW c \in Callers, NEW ch \in Channels, Resolves(c, ch)
        PROVE  TypeOK'
    BY <1>2 DEF Resolves, Call, CallPcs
  <1>3. ASSUME NEW c \in Callers, Refused(c) PROVE TypeOK'
    <2>1. "refused" \in CallPcs
      BY DEF CallPcs
    <2>2. QED
      BY <1>3, <2>1, GoOnTypes DEF Refused
  <1>4. ASSUME NEW c \in Callers, NEW cutoff, Notify(c, cutoff)
        PROVE  TypeOK'
    <2> DEFINE rs == Prune(cutoff)
    <2>1. rs \in ReceiptMaps
      BY PruneKeeps
    <2>2. forgot' \in [Events -> Nat]
      BY <1>4 DEF Notify, Forgets
    <2>3. /\ calls[c].pc = "notify"
          /\ calls[c].event \in Events
          /\ calls[c].channel = channel
          /\ channel \in Channels
      BY <1>4 DEF Notify, Call
    <2>4. UNCHANGED <<channel, clock, posts, jobs>>
      BY <1>4 DEF Notify
    <2>5. CASE \E pc \in {"conflict", "capacity"} :
                 GoOn(c, pc) /\ receipts' = rs /\ UNCHANGED made
      <3>1. \A pc \in {"conflict", "capacity"} : pc \in CallPcs
        BY DEF CallPcs
      <3>2. QED
        BY <2>1, <2>2, <2>3, <2>4, <2>5, <3>1, GoOnTypes
    <2>6. CASE /\ calls' = [calls EXCEPT ![c].pc = "waiting",
                                         ![c].on = Found(rs, calls[c].event)]
               /\ receipts' = rs
               /\ UNCHANGED made
      <3>1. rs[calls[c].event] \in Callers \cup {NoCaller}
        BY <2>1, <2>3 DEF ReceiptMaps
      <3>2. /\ calls' \in [Callers -> Call]
            /\ \A d \in Callers :
                 calls'[d].pc # "idle" => calls'[d].channel \in Channels
        BY <2>3, <2>6, <3>1 DEF Found, Call, CallPcs
      <3>3. QED
        BY <2>1, <2>2, <2>4, <2>6, <3>2
    <2>7. CASE /\ GoOn(c, "sending")
               /\ receipts' = [rs EXCEPT ![calls[c].event] = c]
               /\ made' = [made EXCEPT ![c].channel = channel,
                                       ![c].state = "sending"]
      <3>1. "sending" \in CallPcs
        BY DEF CallPcs, Underway
      <3>2. made' \in [Callers -> Receipt]
        BY <2>7 DEF Receipt
      <3>3. receipts' \in ReceiptMaps
        BY <2>1, <2>3, <2>7 DEF ReceiptMaps
      <3>4. QED
        BY <2>2, <2>3, <2>4, <2>7, <3>1, <3>2, <3>3, GoOnTypes
    <2>8. QED
      BY <1>4, <2>5, <2>6, <2>7, Zenon DEF Notify
  <1>5. ASSUME NEW c \in Callers, NEW posted \in BOOLEAN,
               NEW answered \in BOOLEAN, SendMessage(c, posted, answered)
        PROVE  TypeOK'
    <2>1. "succeeded" \in CallPcs /\ "failed" \in CallPcs
      BY DEF CallPcs, Underway
    <2>2. [by |-> c, event |-> calls[c].event, channel |-> calls[c].channel]
            \in [by : Callers, event : Events, channel : Channels]
      BY <1>5 DEF SendMessage, Call
    <2>3. QED
      BY <1>5, <2>1, <2>2, GoOnTypes DEF SendMessage
  <1>6. ASSUME NEW c \in Callers, Succeeds(c) PROVE TypeOK'
    <2>1. "sent" \in CallPcs
      BY DEF CallPcs
    <2>2. clock + 1 \in Nat
      OBVIOUS
    <2>3. [made[c] EXCEPT !.state = "sent", !.at = clock + 1] \in Receipt
      BY <2>2 DEF Receipt
    <2>4. made' = [made EXCEPT ![c] =
                     [made[c] EXCEPT !.state = "sent", !.at = clock + 1]]
      BY <1>6 DEF Succeeds
    <2>5. QED
      BY <1>6, <2>1, <2>2, <2>3, <2>4, GoOnTypes DEF Succeeds
  <1>7. ASSUME NEW c \in Callers, Fails(c) PROVE TypeOK'
    <2>1. "error" \in CallPcs
      BY DEF CallPcs
    <2>2. made' \in [Callers -> Receipt]
      BY <1>7 DEF Fails, Receipt
    <2>3. calls[c].event \in Events
      BY DEF Call
    <2>4. receipts' \in ReceiptMaps /\ forgot' \in [Events -> Nat]
      BY <1>7, <2>3 DEF Fails, ReceiptMaps
    <2>5. QED
      BY <1>7, <2>1, <2>2, <2>4, GoOnTypes DEF Fails
  <1>8. ASSUME NEW c \in Callers, Waited(c) \/ GivesUp(c) PROVE TypeOK'
    <2>1. \A pc \in {"already", "error", "unavailable"} : pc \in CallPcs
      BY DEF CallPcs
    <2>2. PICK pc \in {"already", "error", "unavailable"} : GoOn(c, pc)
      BY <1>8 DEF Waited, GivesUp
    <2>3. QED
      BY <1>8, <2>1, <2>2, GoOnTypes DEF Waited, GivesUp
  <1>9. CASE UNCHANGED vars
    BY <1>9 DEF vars
  <1>10. QED
    BY <1>1, <1>2, <1>3, <1>4, <1>5, <1>6, <1>7, <1>8, <1>9
       DEF Next, NotifyStep, SendStep

\* Every reachable state of the notification receipts has its types, for any
\* number of requests and events.
THEOREM TypeCorrect == Spec => []TypeOK
  BY InitTypeOK, NextTypeOK, PTL DEF Spec

-----------------------------------------------------------------------------
(* Calls under way keep their receipts, and answers are true.              *)

\* The first states have no receipts and no answers.
THEOREM InitHonest == Init => HonestInv
  <1> SUFFICES ASSUME Init PROVE HonestInv
    OBVIOUS
  <1>1. PICK e \in [Callers -> Events] : calls = [c \in Callers |-> Idle(e[c])]
    BY DEF Init
  <1>2. \A c \in Callers : calls[c].pc = "idle" /\ made[c].state = "none"
    BY <1>1 DEF Init, Idle, NoReceipt
  <1>3. \A f \in Events : receipts[f] = NoCaller
    BY DEF Init
  <1>4. QED
    BY <1>2, <1>3 DEF HonestInv, InFlightKept, ReceiptsMatch, ReceiptsMade,
         ReceiptsHonest, WaitsForItsOwn, AlreadySentIsTrue, Underway

\* A step that only moves a call that is not sending on to an end changes
\* nothing of this, if the answer "already" is true.
LEMMA EndsHonest ==
  ASSUME TypeOK, HonestInv, NEW c \in Callers,
         NEW pc \in {"refused", "conflict", "capacity", "already", "error",
                     "unavailable"},
         calls[c].pc \in {"notify", "waiting"},
         GoOn(c, pc), UNCHANGED <<made, posts>>,
         receipts' \in ReceiptMaps,
         \A e \in Events :
           /\ receipts'[e] \in {receipts[e], NoCaller}
           /\ receipts[e] # NoCaller /\ made[receipts[e]].state # "sent"
                => receipts'[e] = receipts[e],
         pc = "already" => \E p \in posts : /\ p.event = calls[c].event
                                            /\ p.channel = calls[c].channel
  PROVE  HonestInv'
  <1> USE Types DEF Typed
  <1>1. \A d \in Callers :
          /\ calls'[d].event = calls[d].event
          /\ calls'[d].channel = calls[d].channel
          /\ calls'[d].on = calls[d].on
          /\ d # c => calls'[d].pc = calls[d].pc
    BY DEF GoOn, Call
  <1>2. calls'[c].pc = pc
    BY DEF GoOn, Call
  <1>3. pc \notin Underway \cup {"idle", "notify", "succeeded", "waiting"}
    BY DEF Underway
  <1>4. InFlightKept'
    BY <1>1, <1>2, <1>3 DEF HonestInv, InFlightKept, Call
  <1>5. ReceiptsMatch' /\ ReceiptsMade'
    BY <1>1 DEF HonestInv, ReceiptsMatch, ReceiptsMade, ReceiptMaps
  <1>6. ReceiptsHonest'
    BY <1>1, <1>2, <1>3 DEF HonestInv, ReceiptsHonest
  <1>7. WaitsForItsOwn'
    BY <1>1, <1>2, <1>3 DEF HonestInv, WaitsForItsOwn
  <1>8. AlreadySentIsTrue'
    BY <1>1, <1>2 DEF HonestInv, AlreadySentIsTrue
  <1>9. QED
    BY <1>4, <1>5, <1>6, <1>7, <1>8 DEF HonestInv

\* Every step keeps the calls under way and the truth of the answers.
THEOREM NextHonest == TypeOK /\ HonestInv /\ [Next]_vars => HonestInv'
  <1> SUFFICES ASSUME TypeOK, HonestInv, [Next]_vars PROVE HonestInv'
    OBVIOUS
  <1> USE Types DEF Typed
  <1>1. ASSUME NEW ch \in Channels \cup {NoChannel}, JobChanges(ch)
        PROVE  HonestInv'
    BY <1>1 DEF JobChanges, HonestInv, InFlightKept, ReceiptsMatch,
         ReceiptsMade, ReceiptsHonest, WaitsForItsOwn, AlreadySentIsTrue
  <1>2. ASSUME NEW c \in Callers, NEW ch \in Channels, Resolves(c, ch)
        PROVE  HonestInv'
    <2>1. \A d \in Callers :
            /\ calls'[d].event = calls[d].event
            /\ calls'[d].on = calls[d].on
            /\ d # c => calls'[d] = calls[d]
      BY <1>2 DEF Resolves, Call
    <2>2. calls[c].pc = "idle" /\ calls'[c].pc = "notify"
      BY <1>2 DEF Resolves, Call
    <2>3. UNCHANGED <<receipts, made, posts>>
      BY <1>2 DEF Resolves
    <2>4. InFlightKept' /\ ReceiptsMatch' /\ ReceiptsMade'
      BY <2>1, <2>2, <2>3 DEF HonestInv, InFlightKept, ReceiptsMatch,
           ReceiptsMade, Underway, ReceiptMaps, Call
    <2>5. ReceiptsHonest'
      BY <2>1, <2>2, <2>3 DEF HonestInv, ReceiptsHonest, Underway
    <2>6. WaitsForItsOwn' /\ AlreadySentIsTrue'
      BY <2>1, <2>2, <2>3 DEF HonestInv, WaitsForItsOwn, AlreadySentIsTrue
    <2>7. QED
      BY <2>4, <2>5, <2>6 DEF HonestInv
  <1>3. ASSUME NEW c \in Callers, Refused(c) PROVE HonestInv'
    BY <1>3, EndsHonest DEF Refused
  <1>4. ASSUME NEW c \in Callers, NEW cutoff, Notify(c, cutoff)
        PROVE  HonestInv'
    <2> DEFINE rs == Prune(cutoff)
               e  == calls[c].event
    <2>1. /\ rs \in ReceiptMaps
          /\ \A f \in Events :
               /\ rs[f] \in {receipts[f], NoCaller}
               /\ receipts[f] # NoCaller /\ made[receipts[f]].state # "sent"
                    => rs[f] = receipts[f]
      BY PruneKeeps
    <2>2. calls[c].pc = "notify" /\ e \in Events /\ calls[c].channel = channel
      BY <1>4 DEF Notify, Call
    <2>3. UNCHANGED posts
      BY <1>4 DEF Notify
    <2>4. Found(rs, e) = rs[e]
      BY DEF Found
    <2> HIDE DEF rs
    <2>5. CASE \E pc \in {"conflict", "capacity"} :
                 GoOn(c, pc) /\ receipts' = rs /\ UNCHANGED made
      BY <2>1, <2>2, <2>3, <2>5, EndsHonest
    <2>6. CASE /\ rs[e] # NoCaller
               /\ made[rs[e]].channel = channel
               /\ calls' = [calls EXCEPT ![c].pc = "waiting", ![c].on = rs[e]]
               /\ receipts' = rs
               /\ UNCHANGED made
      <3>1. \A d \in Callers :
              /\ calls'[d].event = calls[d].event
              /\ calls'[d].channel = calls[d].channel
              /\ d # c => calls'[d] = calls[d]
        BY <2>6 DEF Call
      <3>2. calls'[c].pc = "waiting" /\ calls'[c].on = rs[e]
        BY <2>6 DEF Call
      <3>3. rs[e] = receipts[e] /\ rs[e] \in Callers
        BY <2>1, <2>2, <2>6 DEF ReceiptMaps
      <3>4. InFlightKept'
        BY <2>1, <2>6, <3>1, <3>2 DEF HonestInv, InFlightKept, Underway, Call
      <3>5. ReceiptsMatch' /\ ReceiptsMade'
        BY <2>1, <2>6, <3>1 DEF HonestInv, ReceiptsMatch, ReceiptsMade,
             ReceiptMaps
      <3>6. ReceiptsHonest'
        BY <2>3, <2>6, <3>1, <3>2 DEF HonestInv, ReceiptsHonest, Underway
      <3>7. WaitsForItsOwn'
        BY <2>2, <2>6, <3>1, <3>2, <3>3 DEF HonestInv, WaitsForItsOwn,
             ReceiptsMatch, ReceiptsMade
      <3>8. AlreadySentIsTrue'
        BY <2>3, <3>1, <3>2 DEF HonestInv, AlreadySentIsTrue
      <3>9. QED
        BY <3>4, <3>5, <3>6, <3>7, <3>8 DEF HonestInv
    <2>7. CASE /\ rs[e] = NoCaller
               /\ GoOn(c, "sending")
               /\ receipts' = [rs EXCEPT ![e] = c]
               /\ made' = [made EXCEPT ![c].channel = channel,
                                       ![c].state = "sending"]
      <3>1. \A d \in Callers :
              /\ calls'[d].event = calls[d].event
              /\ calls'[d].channel = calls[d].channel
              /\ calls'[d].on = calls[d].on
              /\ d # c => calls'[d] = calls[d] /\ made'[d] = made[d]
        BY <2>7 DEF GoOn, Call
      <3>2. /\ calls'[c].pc = "sending"
            /\ made'[c].channel = channel
            /\ made'[c].state = "sending"
        BY <2>7 DEF GoOn, Call, Receipt
      <3>3. made[c].state = "none"
        BY <2>2 DEF HonestInv, ReceiptsHonest
      <3>4. /\ receipts'[e] = c
            /\ \A f \in Events : f # e => receipts'[f] = rs[f]
        BY <2>1, <2>2, <2>7 DEF ReceiptMaps
      <3>5. \A d \in Callers : calls[d].pc \in Underway => calls[d].event # e
        BY <2>1, <2>2, <2>7, ReceiptsAssumption DEF HonestInv, InFlightKept
      <3>6. InFlightKept'
        BY <2>1, <3>1, <3>2, <3>4, <3>5 DEF HonestInv, InFlightKept, Call
      <3>7. ReceiptsMatch'
        BY <2>1, <3>1, <3>4 DEF HonestInv, ReceiptsMatch, ReceiptMaps
      <3>8. ReceiptsMade'
        BY <2>1, <3>1, <3>2, <3>4 DEF HonestInv, ReceiptsMade, ReceiptMaps
      <3>9. ReceiptsHonest'
        BY <2>2, <2>3, <3>1, <3>2 DEF HonestInv, ReceiptsHonest, Underway
      <3>10. WaitsForItsOwn'
        BY <3>1, <3>2, <3>3 DEF HonestInv, WaitsForItsOwn
      <3>11. AlreadySentIsTrue'
        BY <2>3, <3>1, <3>2 DEF HonestInv, AlreadySentIsTrue
      <3>12. QED
        BY <3>6, <3>7, <3>8, <3>9, <3>10, <3>11 DEF HonestInv
    <2>8. QED
      BY <1>4, <2>4, <2>5, <2>6, <2>7, Zenon DEF Notify, rs
  <1>5. ASSUME NEW c \in Callers, NEW posted \in BOOLEAN,
               NEW answered \in BOOLEAN, SendMessage(c, posted, answered)
        PROVE  HonestInv'
    <2>1. \A d \in Callers :
            /\ calls'[d].event = calls[d].event
            /\ calls'[d].channel = calls[d].channel
            /\ calls'[d].on = calls[d].on
            /\ d # c => calls'[d] = calls[d]
      BY <1>5 DEF SendMessage, GoOn, Call
    <2>2. /\ calls[c].pc = "sending"
          /\ calls'[c].pc = IF answered THEN "succeeded" ELSE "failed"
          /\ posts \subseteq posts'
          /\ UNCHANGED <<receipts, made>>
      BY <1>5 DEF SendMessage, GoOn, Call
    <2>3. answered => \E p \in posts' : /\ p.event = calls[c].event
                                        /\ p.channel = calls[c].channel
      <3> DEFINE q == [by |-> c, event |-> calls[c].event,
                       channel |-> calls[c].channel]
      <3>1. answered => q \in posts'
        BY <1>5 DEF SendMessage
      <3>2. q.event = calls[c].event /\ q.channel = calls[c].channel
        OBVIOUS
      <3>3. QED
        BY <3>1, <3>2
    <2>4. InFlightKept' /\ ReceiptsMatch' /\ ReceiptsMade'
      BY <2>1, <2>2 DEF HonestInv, InFlightKept, ReceiptsMatch,
           ReceiptsMade, Underway, ReceiptMaps, Call
    <2>5. ReceiptsHonest'
      BY <2>1, <2>2, <2>3 DEF HonestInv, ReceiptsHonest, Underway
    <2>6. WaitsForItsOwn' /\ AlreadySentIsTrue'
      BY <2>1, <2>2 DEF HonestInv, WaitsForItsOwn, AlreadySentIsTrue
    <2>7. QED
      BY <2>4, <2>5, <2>6 DEF HonestInv
  <1>6. ASSUME NEW c \in Callers, Succeeds(c) PROVE HonestInv'
    <2>1. \A d \in Callers :
            /\ calls'[d].event = calls[d].event
            /\ calls'[d].channel = calls[d].channel
            /\ calls'[d].on = calls[d].on
            /\ made'[d].channel = made[d].channel
            /\ d # c => calls'[d] = calls[d] /\ made'[d] = made[d]
      BY <1>6 DEF Succeeds, GoOn, Call, Receipt
    <2>2. /\ calls[c].pc = "succeeded"
          /\ calls'[c].pc = "sent"
          /\ made'[c].state = "sent"
          /\ UNCHANGED <<receipts, posts>>
      BY <1>6 DEF Succeeds, GoOn, Call, Receipt
    <2>3. InFlightKept' /\ ReceiptsMatch' /\ ReceiptsMade'
      BY <2>1, <2>2 DEF HonestInv, InFlightKept, ReceiptsMatch,
           ReceiptsMade, Underway, ReceiptMaps, Call
    <2>4. ReceiptsHonest'
      BY <2>1, <2>2 DEF HonestInv, ReceiptsHonest, Underway
    <2>5. WaitsForItsOwn' /\ AlreadySentIsTrue'
      BY <2>1, <2>2 DEF HonestInv, WaitsForItsOwn, AlreadySentIsTrue
    <2>6. QED
      BY <2>3, <2>4, <2>5 DEF HonestInv
  <1>7. ASSUME NEW c \in Callers, Fails(c) PROVE HonestInv'
    <2>1. \A d \in Callers :
            /\ calls'[d].event = calls[d].event
            /\ calls'[d].channel = calls[d].channel
            /\ calls'[d].on = calls[d].on
            /\ made'[d].channel = made[d].channel
            /\ d # c => calls'[d] = calls[d] /\ made'[d] = made[d]
      BY <1>7 DEF Fails, GoOn, Call, Receipt
    <2>2. /\ calls[c].pc = "failed"
          /\ calls'[c].pc = "error"
          /\ made'[c].state = "failed"
          /\ UNCHANGED posts
      BY <1>7 DEF Fails, GoOn, Call, Receipt
    <2>3. calls[c].event \in Events
      BY DEF Call
    <2>4. /\ receipts'[calls[c].event] = NoCaller
          /\ \A f \in Events :
               f # calls[c].event => receipts'[f] = receipts[f]
      BY <1>7, <2>3 DEF Fails, ReceiptMaps
    <2>5. \A d \in Callers :
            d # c /\ calls[d].pc \in Underway =>
              calls[d].event # calls[c].event
      BY <2>2 DEF HonestInv, InFlightKept, Underway
    <2>6. InFlightKept'
      BY <2>1, <2>2, <2>4, <2>5 DEF HonestInv, InFlightKept, Underway, Call
    <2>7. ReceiptsMatch' /\ ReceiptsMade'
      BY <2>1, <2>2, <2>4 DEF HonestInv, ReceiptsMatch, ReceiptsMade,
           ReceiptMaps
    <2>8. ReceiptsHonest'
      BY <2>1, <2>2 DEF HonestInv, ReceiptsHonest, Underway
    <2>9. WaitsForItsOwn' /\ AlreadySentIsTrue'
      BY <2>1, <2>2 DEF HonestInv, WaitsForItsOwn, AlreadySentIsTrue
    <2>10. QED
      BY <2>6, <2>7, <2>8, <2>9 DEF HonestInv
  <1>8. ASSUME NEW c \in Callers, Waited(c) PROVE HonestInv'
    <2>1. /\ calls[c].pc = "waiting"
          /\ UNCHANGED <<receipts, made, posts>>
      BY <1>8 DEF Waited
    <2>2. receipts' \in ReceiptMaps
      BY <2>1
    <2>3. CASE made[calls[c].on].state = "sent" /\ GoOn(c, "already")
      <3>1. \E p \in posts : /\ p.event = calls[c].event
                             /\ p.channel = calls[c].channel
        BY <2>1, <2>3 DEF HonestInv, WaitsForItsOwn, ReceiptsHonest
      <3>2. QED
        BY <2>1, <2>2, <2>3, <3>1, EndsHonest
    <2>4. CASE GoOn(c, "error")
      BY <2>1, <2>2, <2>4, EndsHonest
    <2>5. QED
      BY <1>8, <2>3, <2>4 DEF Waited
  <1>9. ASSUME NEW c \in Callers, GivesUp(c) PROVE HonestInv'
    BY <1>9, EndsHonest DEF GivesUp
  <1>10. CASE UNCHANGED vars
    BY <1>10 DEF vars, HonestInv, InFlightKept, ReceiptsMatch, ReceiptsMade,
         ReceiptsHonest, WaitsForItsOwn, AlreadySentIsTrue
  <1>11. QED
    BY <1>1, <1>2, <1>3, <1>4, <1>5, <1>6, <1>7, <1>8, <1>9, <1>10
       DEF Next, NotifyStep, SendStep

\* A call that is sending holds the receipt of its event until it is through,
\* and whoever is told "already sent" is told the truth: for any number of
\* requests, events and receipts.
THEOREM HonestCorrect == Spec => [](InFlightKept /\ AlreadySentIsTrue)
  <1>1. HonestInv => InFlightKept /\ AlreadySentIsTrue
    BY DEF HonestInv
  <1>2. QED
    BY <1>1, InitTypeOK, NextTypeOK, InitHonest, NextHonest, PTL DEF Spec

\* Whoever is told that a notification was already sent is told the truth
\* (SendYouTubeLiveNotification).
THEOREM AlreadySentCorrect == Spec => []AlreadySentIsTrue
  BY HonestCorrect, PTL

-----------------------------------------------------------------------------
(* Counting: the receipts are bounded, and so are the posts of an event.   *)

\* A prune leaves fewer receipts or as many.
LEMMA PruneHolds ==
  ASSUME TypeOK, IsFiniteSet(Held(receipts)), NEW cutoff
  PROVE  /\ IsFiniteSet(Held(Prune(cutoff)))
         /\ Cardinality(Held(Prune(cutoff))) <= Cardinality(Held(receipts))
  <1>1. receipts \in ReceiptMaps
    BY Types DEF Typed
  <1>2. Held(Prune(cutoff)) \subseteq Held(receipts)
    BY <1>1, PruneKeeps DEF Held
  <1>3. QED
    BY <1>2, FS_Subset

\* The number of receipts is finite and within the limit
BoundInv == IsFiniteSet(Held(receipts)) /\ Bounded

\* Every step keeps the limit on the receipts.
THEOREM NextBound == TypeOK /\ BoundInv /\ [Next]_vars => BoundInv'
  <1> SUFFICES ASSUME TypeOK, BoundInv, [Next]_vars PROVE BoundInv'
    OBVIOUS
  <1>1. ASSUME NEW rs, receipts' = rs, IsFiniteSet(Held(rs)),
               Cardinality(Held(rs)) <= MaxReceipts
        PROVE  BoundInv'
    BY <1>1 DEF BoundInv, Bounded, Held
  <1>2. CASE UNCHANGED receipts
    BY <1>1, <1>2 DEF BoundInv, Bounded
  <1>3. ASSUME NEW c \in Callers, NEW cutoff, Notify(c, cutoff)
        PROVE  BoundInv'
    <2> DEFINE rs == Prune(cutoff)
               e  == calls[c].event
    <2>1. /\ IsFiniteSet(Held(rs))
          /\ Cardinality(Held(rs)) <= Cardinality(Held(receipts))
      BY PruneHolds DEF BoundInv
    <2>2. Cardinality(Held(rs)) \in Nat /\ Cardinality(Held(receipts)) \in Nat
      BY <2>1, FS_CardinalityType DEF BoundInv
    <2>3. rs \in ReceiptMaps /\ e \in Events
      BY Types, PruneKeeps DEF Typed, Call
    <2> HIDE DEF rs
    <2>4. CASE receipts' = rs
      BY <1>1, <2>1, <2>2, <2>4, ReceiptsAssumption DEF BoundInv, Bounded
    <2>5. CASE /\ rs[e] = NoCaller
               /\ ~Full(rs)
               /\ receipts' = [rs EXCEPT ![e] = c]
      <3> DEFINE new == [rs EXCEPT ![e] = c]
      <3>1. Held(new) = Held(rs) \cup {e} /\ e \notin Held(rs)
        BY <2>3, <2>5, ReceiptsAssumption DEF Held, ReceiptMaps
      <3>2. /\ IsFiniteSet(Held(new))
            /\ Cardinality(Held(new)) = Cardinality(Held(rs)) + 1
        BY <2>1, <3>1, FS_AddElement
      <3>3. Cardinality(Held(rs)) < MaxReceipts
        BY <2>2, <2>5, ReceiptsAssumption DEF Full
      <3> HIDE DEF new
      <3>4. Cardinality(Held(new)) <= MaxReceipts
        BY <2>2, <3>2, <3>3, ReceiptsAssumption
      <3>5. receipts' = new
        BY <2>5 DEF new
      <3>6. QED
        BY <1>1, <3>2, <3>4, <3>5
    <2>6. QED
      BY <1>3, <2>4, <2>5, Zenon DEF Notify, Found, rs
  <1>4. ASSUME NEW c \in Callers, Fails(c) PROVE BoundInv'
    <2> DEFINE new == [receipts EXCEPT ![calls[c].event] = NoCaller]
    <2>1. Held(new) \subseteq Held(receipts)
      BY Types DEF Typed, ReceiptMaps, Held
    <2>2. /\ IsFiniteSet(Held(new))
          /\ Cardinality(Held(new)) <= Cardinality(Held(receipts))
      BY <2>1, FS_Subset DEF BoundInv
    <2>3. Cardinality(Held(new)) \in Nat /\ Cardinality(Held(receipts)) \in Nat
      BY <2>2, FS_CardinalityType DEF BoundInv
    <2>4. receipts' = new
      BY <1>4 DEF Fails
    <2> HIDE DEF new
    <2>5. Cardinality(Held(new)) <= MaxReceipts
      BY <2>2, <2>3, ReceiptsAssumption DEF BoundInv, Bounded
    <2>6. QED
      BY <1>1, <2>2, <2>4, <2>5
  <1>5. QED
    BY <1>2, <1>3, <1>4
       DEF Next, NotifyStep, SendStep, JobChanges, Resolves, Refused,
           SendMessage, Succeeds, Waited, GivesUp, vars

\* There never are more receipts than maxNotificationReceipts, however many
\* requests overlap.
THEOREM BoundedCorrect == Spec => []Bounded
  <1>1. Init => BoundInv
    <2> SUFFICES ASSUME Init PROVE BoundInv
      OBVIOUS
    <2>1. Held(receipts) = {}
      BY DEF Init, Held
    <2>2. QED
      BY <2>1, FS_EmptySet, ReceiptsAssumption DEF BoundInv, Bounded
  <1>2. BoundInv => Bounded
    BY DEF BoundInv
  <1>3. QED
    BY <1>1, <1>2, InitTypeOK, NextTypeOK, NextBound, PTL DEF Spec

\* The messages posted for event e
PostsOf(e) == {p \in posts : p.event = e}

\* The receipt of event e is there and its call may have posted
MayHavePosted(e) ==
  IF receipts[e] # NoCaller /\ calls[receipts[e]].pc # "sending" THEN 1 ELSE 0

\* Every post but the one the receipt stands for is paid for by a receipt that
\* was dropped: what RepostNeedsForgetting needs to be inductive
PaidFor ==
  \A e \in Events :
    /\ IsFiniteSet(PostsOf(e))
    /\ Cardinality(PostsOf(e)) <= forgot[e] + MayHavePosted(e)

\* Every step keeps the account of posts and dropped receipts.
THEOREM NextPaidFor ==
  TypeOK /\ HonestInv /\ PaidFor /\ [Next]_vars => PaidFor'
  <1> SUFFICES ASSUME TypeOK, HonestInv, PaidFor, [Next]_vars PROVE PaidFor'
    OBVIOUS
  <1> USE Types DEF Typed
  <1>1. \A e \in Events :
          /\ Cardinality(PostsOf(e)) \in Nat
          /\ forgot[e] \in Nat
          /\ MayHavePosted(e) \in {0, 1}
    BY FS_CardinalityType DEF PaidFor, MayHavePosted
  <1>2. ASSUME UNCHANGED posts,
               \A e \in Events :
                 /\ forgot'[e] \in Nat
                 /\ forgot[e] + MayHavePosted(e)
                      <= forgot'[e] + MayHavePosted(e)'
        PROVE  PaidFor'
    <2>1. \A e \in Events : PostsOf(e)' = PostsOf(e)
      BY <1>2 DEF PostsOf
    <2>2. \A e \in Events : MayHavePosted(e)' \in {0, 1}
      BY DEF MayHavePosted
    <2>3. QED
      BY <1>1, <1>2, <2>1, <2>2 DEF PaidFor
  <1>3. ASSUME UNCHANGED <<receipts, posts, forgot>>,
               \A d \in Callers :
                 calls[d].pc = "sending" <=> calls'[d].pc = "sending"
        PROVE  PaidFor'
    <2>1. \A e \in Events : MayHavePosted(e)' = MayHavePosted(e)
      BY <1>3 DEF MayHavePosted, ReceiptMaps
    <2>2. QED
      BY <1>1, <1>2, <1>3, <2>1
  <1>4. ASSUME NEW ch \in Channels \cup {NoChannel}, JobChanges(ch)
        PROVE  PaidFor'
    BY <1>3, <1>4 DEF JobChanges
  <1>5. ASSUME NEW c \in Callers, NEW ch \in Channels, Resolves(c, ch)
        PROVE  PaidFor'
    BY <1>3, <1>5 DEF Resolves, Call
  <1>6. ASSUME NEW c \in Callers,
               Refused(c) \/ Succeeds(c) \/ Waited(c) \/ GivesUp(c)
        PROVE  PaidFor'
    BY <1>3, <1>6 DEF Refused, Succeeds, Waited, GivesUp, GoOn, Call
  <1>7. ASSUME NEW c \in Callers, NEW cutoff, Notify(c, cutoff)
        PROVE  PaidFor'
    <2> DEFINE rs == Prune(cutoff)
    <2>1. /\ rs \in ReceiptMaps
          /\ \A f \in Events : rs[f] \in {receipts[f], NoCaller}
      BY PruneKeeps
    <2>2. \A f \in Events :
            forgot'[f] = IF receipts[f] # NoCaller /\ rs[f] = NoCaller
                           THEN forgot[f] + 1 ELSE forgot[f]
      BY <1>7 DEF Notify, Forgets
    <2>3. /\ UNCHANGED posts
          /\ calls[c].pc = "notify"
          /\ calls[c].event \in Events
      BY <1>7 DEF Notify, Call
    <2>4. \A f \in Events : receipts[f] # NoCaller =>
            receipts[f] \in Callers /\ receipts[f] # c
      BY <2>3 DEF HonestInv, ReceiptsMade, ReceiptsHonest, ReceiptMaps
    <2>5. \A d \in Callers : d # c => calls'[d] = calls[d]
      BY <1>7 DEF Notify, GoOn
    <2> HIDE DEF rs
    <2>6. ASSUME NEW f \in Events, receipts'[f] = rs[f]
          PROVE  forgot[f] + MayHavePosted(f)
                   <= forgot'[f] + MayHavePosted(f)'
      BY <1>1, <2>1, <2>2, <2>4, <2>5, <2>6 DEF MayHavePosted
    <2>7. ASSUME NEW f \in Events, rs[f] = NoCaller, receipts'[f] # rs[f]
          PROVE  forgot[f] + MayHavePosted(f)
                   <= forgot'[f] + MayHavePosted(f)'
      BY <1>1, <2>1, <2>2, <2>7 DEF MayHavePosted
    <2>8. \A f \in Events : receipts'[f] = rs[f] \/ rs[f] = NoCaller
      <3>1. CASE receipts' = rs
        BY <3>1
      <3>2. CASE /\ rs[calls[c].event] = NoCaller
                 /\ receipts' = [rs EXCEPT ![calls[c].event] = c]
        BY <2>1, <3>2 DEF ReceiptMaps
      <3>3. QED
        BY <1>7, <3>1, <3>2, Zenon DEF Notify, Found, rs
    <2>9. \A f \in Events : forgot'[f] \in Nat
      BY <1>1, <2>2
    <2>10. QED
      BY <1>2, <2>3, <2>6, <2>7, <2>8, <2>9
  <1>8. ASSUME NEW c \in Callers, NEW posted \in BOOLEAN,
               NEW answered \in BOOLEAN, SendMessage(c, posted, answered)
        PROVE  PaidFor'
    <2> DEFINE q == [by |-> c, event |-> calls[c].event,
                     channel |-> calls[c].channel]
    <2>1. /\ calls[c].pc = "sending"
          /\ calls'[c].pc # "sending"
          /\ \A d \in Callers : d # c => calls'[d] = calls[d]
          /\ UNCHANGED <<receipts, forgot>>
          /\ calls[c].event \in Events
      BY <1>8 DEF SendMessage, GoOn, Call
    <2>2. receipts[calls[c].event] = c
      BY <2>1 DEF HonestInv, InFlightKept, Underway
    <2>3. \A f \in Events : f # calls[c].event => receipts[f] # c
      BY ReceiptsAssumption DEF HonestInv, ReceiptsMatch
    <2>4. posts' = posts \/ posts' = posts \cup {q}
      BY <1>8 DEF SendMessage
    <2>5. ASSUME NEW f \in Events, f # calls[c].event
          PROVE  /\ IsFiniteSet(PostsOf(f)')
                 /\ Cardinality(PostsOf(f)') <= forgot'[f] + MayHavePosted(f)'
      <3>1. PostsOf(f)' = PostsOf(f)
        BY <2>4, <2>5 DEF PostsOf
      <3>2. MayHavePosted(f)' = MayHavePosted(f)
        BY <2>1, <2>3, <2>5 DEF MayHavePosted, ReceiptMaps
      <3>3. QED
        BY <2>1, <3>1, <3>2 DEF PaidFor
    <2>6. ASSUME NEW f \in Events, f = calls[c].event
          PROVE  /\ IsFiniteSet(PostsOf(f)')
                 /\ Cardinality(PostsOf(f)') <= forgot'[f] + MayHavePosted(f)'
      <3>0. q.event = f
        BY <2>6
      <3>1. PostsOf(f)' = PostsOf(f) \/ PostsOf(f)' = PostsOf(f) \cup {q}
        <4> HIDE DEF q
        <4>1. QED
          BY <2>4, <3>0 DEF PostsOf
      <3>2. MayHavePosted(f) = 0 /\ MayHavePosted(f)' = 1
        BY <2>1, <2>2, <2>6, ReceiptsAssumption DEF MayHavePosted
      <3>3. IsFiniteSet(PostsOf(f))
        BY DEF PaidFor
      <3>4. /\ IsFiniteSet(PostsOf(f) \cup {q})
            /\ Cardinality(PostsOf(f) \cup {q})
                 \in {Cardinality(PostsOf(f)), Cardinality(PostsOf(f)) + 1}
        BY <3>3, FS_AddElement
      <3> HIDE DEF q
      <3>5. Cardinality(PostsOf(f)) <= forgot[f]
        BY <1>1, <3>2 DEF PaidFor
      <3>6. forgot'[f] = forgot[f] /\ forgot[f] \in Nat
        BY <1>1, <2>1
      <3>7. \A n \in {Cardinality(PostsOf(f)), Cardinality(PostsOf(f)) + 1} :
              n <= forgot[f] + 1
        BY <1>1, <3>5, <3>6
      <3>8. /\ IsFiniteSet(PostsOf(f)')
            /\ Cardinality(PostsOf(f)') <= forgot[f] + 1
        BY <3>1, <3>3, <3>4, <3>7, Zenon
      <3>9. QED
        BY <3>2, <3>6, <3>8
    <2>7. QED
      BY <2>5, <2>6 DEF PaidFor
  <1>9. ASSUME NEW c \in Callers, Fails(c) PROVE PaidFor'
    <2>1. /\ calls[c].pc = "failed"
          /\ calls[c].event \in Events
          /\ \A d \in Callers : d # c => calls'[d] = calls[d]
          /\ UNCHANGED posts
      BY <1>9 DEF Fails, GoOn, Call
    <2>2. \A f \in Events : f # calls[c].event => receipts[f] # c
      BY ReceiptsAssumption DEF HonestInv, ReceiptsMatch
    <2>3. ASSUME NEW f \in Events
          PROVE  /\ forgot'[f] \in Nat
                 /\ forgot[f] + MayHavePosted(f)
                      <= forgot'[f] + MayHavePosted(f)'
      <3>1. CASE f = calls[c].event
        <4>1. forgot'[f] = forgot[f] + 1 /\ receipts'[f] = NoCaller
          BY <1>9, <3>1 DEF Fails, ReceiptMaps
        <4>2. MayHavePosted(f)' = 0
          BY <4>1 DEF MayHavePosted
        <4>3. QED
          BY <1>1, <4>1, <4>2
      <3>2. CASE f # calls[c].event
        <4>1. forgot'[f] = forgot[f] /\ receipts'[f] = receipts[f]
          BY <1>9, <3>2 DEF Fails, ReceiptMaps
        <4>2. MayHavePosted(f)' = MayHavePosted(f)
          BY <2>1, <2>2, <3>2, <4>1 DEF MayHavePosted, ReceiptMaps
        <4>3. QED
          BY <1>1, <4>1, <4>2
      <3>3. QED
        BY <3>1, <3>2
    <2>4. QED
      BY <1>2, <2>1, <2>3
  <1>10. CASE UNCHANGED vars
    BY <1>3, <1>10 DEF vars
  <1>11. QED
    BY <1>4, <1>5, <1>6, <1>7, <1>8, <1>9, <1>10
       DEF Next, NotifyStep, SendStep

\* An event is posted again only after its receipt was dropped, by an error, by
\* age or for room: however its requests overlap.
THEOREM RepostCorrect == Spec => []RepostNeedsForgetting
  <1>1. Init => PaidFor
    <2> SUFFICES ASSUME Init, NEW e \in Events
                 PROVE  /\ IsFiniteSet(PostsOf(e))
                        /\ Cardinality(PostsOf(e)) <=
                             forgot[e] + MayHavePosted(e)
      BY DEF PaidFor
    <2>1. PostsOf(e) = {} /\ forgot[e] = 0 /\ MayHavePosted(e) = 0
      BY DEF Init, PostsOf, MayHavePosted
    <2>2. QED
      BY <2>1, FS_EmptySet
  <1>2. TypeOK /\ PaidFor => RepostNeedsForgetting
    <2> SUFFICES ASSUME TypeOK, PaidFor, NEW e \in Events
                 PROVE  Cardinality({p \in posts : p.event = e})
                          <= forgot[e] + 1
      BY DEF RepostNeedsForgetting
    <2>1. forgot[e] \in Nat /\ MayHavePosted(e) \in {0, 1}
      BY Types DEF Typed, MayHavePosted
    <2>2. Cardinality(PostsOf(e)) \in Nat
      BY FS_CardinalityType DEF PaidFor
    <2>3. Cardinality(PostsOf(e)) <= forgot[e] + 1
      BY <2>1, <2>2 DEF PaidFor
    <2>4. QED
      BY <2>3 DEF PostsOf
  <1>3. QED
    BY <1>1, <1>2, InitTypeOK, NextTypeOK, InitHonest, NextHonest,
       NextPaidFor, PTL DEF Spec

=============================================================================
