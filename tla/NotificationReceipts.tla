------------------------ MODULE NotificationReceipts ------------------------
(***************************************************************************)
(* Announcing a stream in its text channel: POST of a YouTube live         *)
(* notification, Manager.NotifyYouTubeLive and the receipts that keep a    *)
(* repeated event from being announced twice.                              *)
(*                                                                         *)
(* A receipt is named by the call that made it.  Of a request's payload    *)
(* only the text channel is kept; all requests are about one stream.  Time *)
(* is the order of completions.                                            *)
(***************************************************************************)
EXTENDS Naturals, FiniteSets

CONSTANTS
  Callers,      \* requests, each sent once; a repetition is another request
  Events,       \* event_id values
  Channels,     \* text channels
  NoCaller,     \* no receipt
  NoChannel,    \* no live job
  MaxReceipts,  \* maxNotificationReceipts
  MaxJobs       \* bound: changes of the live job

ASSUME ReceiptsAssumption ==
  /\ NoCaller \notin Callers
  /\ NoChannel \notin Channels
  /\ MaxReceipts \in Nat \ {0}
  /\ MaxJobs \in Nat

VARIABLES
  channel,   \* Manager.current.TextChannelID
  receipts,  \* Manager.notificationReceipts
  made,      \* the receipts themselves, by the call that made them
  calls,     \* the calls
  clock,     \* completions so far
  posts,     \* messages Discord has posted
  forgot,    \* times an event's receipt was dropped
  jobs       \* changes of the live job so far

vars == <<channel, receipts, made, calls, clock, posts, forgot, jobs>>

NoReceipt == [channel |-> NoChannel, state |-> "none", at |-> 0]
Idle(e)   == [pc |-> "idle", event |-> e, channel |-> NoChannel,
              on |-> NoCaller]

Init ==
  /\ channel = NoChannel
  /\ receipts = [e \in Events |-> NoCaller]
  /\ made = [c \in Callers |-> NoReceipt]
  /\ \E e \in [Callers -> Events] : calls = [c \in Callers |-> Idle(e[c])]
  /\ clock = 0
  /\ posts = {}
  /\ forgot = [e \in Events |-> 0]
  /\ jobs = 0

-----------------------------------------------------------------------------
(* pruneNotificationReceiptsLocked.                                        *)

Held(rs)      == {e \in Events : rs[e] # NoCaller}
Completed(rs) == {e \in Held(rs) : made[rs[e]].state = "sent"}
Without(rs, es) == [e \in Events |-> IF e \in es THEN NoCaller ELSE rs[e]]

\* Those completed at or before the cutoff are older than the TTL
Expired(rs, cutoff) == {e \in Completed(rs) : made[rs[e]].at <= cutoff}

\* Mutated form of Oldest: calls under way are taken for old ones
OldestAny(rs) ==
  IF Cardinality(Held(rs)) < MaxReceipts THEN {}
  ELSE {e \in Held(rs) : \A f \in Held(rs) : made[rs[e]].at <= made[rs[f]].at}

\* The oldest completed one goes when there is no room.  One is enough: there
\* never are more than MaxReceipts.
Oldest(rs) ==
  IF Cardinality(Held(rs)) < MaxReceipts THEN {}
  ELSE {e \in Completed(rs) :
          \A f \in Completed(rs) : made[rs[e]].at <= made[rs[f]].at}

Prune(cutoff) ==
  LET fresh == Without(receipts, Expired(receipts, cutoff))
  IN  Without(fresh, Oldest(fresh))

-----------------------------------------------------------------------------
GoOn(c, pc) == calls' = [calls EXCEPT ![c].pc = pc]

Forgets(rs) ==
  forgot' = [e \in Events |->
               IF receipts[e] # NoCaller /\ rs[e] = NoCaller
                 THEN forgot[e] + 1 ELSE forgot[e]]

\* The job ends, or is started with another text channel
JobChanges(ch) ==
  /\ jobs < MaxJobs
  /\ jobs' = jobs + 1
  /\ ch # channel
  /\ channel' = ch
  /\ UNCHANGED <<receipts, made, calls, clock, posts, forgot>>

\* The handler takes the channel from a runtime config or from the job; either
\* may be outdated when NotifyYouTubeLive runs
Resolves(c, ch) ==
  /\ calls[c].pc = "idle"
  /\ calls' = [calls EXCEPT ![c].pc = "notify", ![c].channel = ch]
  /\ UNCHANGED <<channel, receipts, made, clock, posts, forgot, jobs>>

\* validateLiveNotificationStateLocked fails
Refused(c) ==
  /\ calls[c].pc = "notify"
  /\ calls[c].channel # channel
  /\ GoOn(c, "refused")
  /\ UNCHANGED <<channel, receipts, made, clock, posts, forgot, jobs>>

\* Mutated form of Found: a receipt that is through is not looked at
FoundUnderway(rs, e) ==
  IF rs[e] # NoCaller /\ made[rs[e]].state = "sent" THEN NoCaller ELSE rs[e]

\* The receipt of event e, if there is one
Found(rs, e) == rs[e]

Full(rs) == Cardinality(Held(rs)) >= MaxReceipts

\* The first critical section of NotifyYouTubeLive
Notify(c, cutoff) ==
  LET rs == Prune(cutoff)
      e  == calls[c].event
      r  == Found(rs, e)
  IN  /\ calls[c].pc = "notify"
      /\ calls[c].channel = channel
      /\ Forgets(rs)
      /\ \/ /\ r # NoCaller
            /\ made[r].channel # channel
            /\ GoOn(c, "conflict")
            /\ receipts' = rs
            /\ UNCHANGED made
         \/ /\ r # NoCaller
            /\ made[r].channel = channel
            /\ calls' = [calls EXCEPT ![c].pc = "waiting", ![c].on = r]
            /\ receipts' = rs
            /\ UNCHANGED made
         \/ /\ r = NoCaller
            /\ Full(rs)
            /\ GoOn(c, "capacity")
            /\ receipts' = rs
            /\ UNCHANGED made
         \/ /\ r = NoCaller
            /\ ~Full(rs)
            /\ GoOn(c, "sending")
            /\ receipts' = [rs EXCEPT ![e] = c]
            /\ made' = [made EXCEPT ![c].channel = channel,
                                    ![c].state = "sending"]
      /\ UNCHANGED <<channel, clock, posts, jobs>>

\* RealClient.SendMessage: Discord posts the message and answers, does not
\* post it, or posts it while the answer is lost
SendMessage(c, posted, answered) ==
  /\ calls[c].pc = "sending"
  /\ answered => posted
  /\ posts' = IF posted
                THEN posts \cup {[by |-> c, event |-> calls[c].event,
                                  channel |-> calls[c].channel]}
                ELSE posts
  /\ GoOn(c, IF answered THEN "succeeded" ELSE "failed")
  /\ UNCHANGED <<channel, receipts, made, clock, forgot, jobs>>

\* Mutated form of Succeeds: done is closed for a failure
SucceedsAlways(c) ==
  /\ calls[c].pc \in {"succeeded", "failed"}
  /\ made' = [made EXCEPT ![c].state = "sent", ![c].at = clock + 1]
  /\ clock' = clock + 1
  /\ GoOn(c, "sent")
  /\ UNCHANGED <<channel, receipts, posts, forgot, jobs>>

\* The second critical section, after a success and after an error
Succeeds(c) ==
  /\ calls[c].pc = "succeeded"
  /\ made' = [made EXCEPT ![c].state = "sent", ![c].at = clock + 1]
  /\ clock' = clock + 1
  /\ GoOn(c, "sent")
  /\ UNCHANGED <<channel, receipts, posts, forgot, jobs>>

\* Mutated form of Fails: the error is not signalled
FailsSilently(c) ==
  /\ calls[c].pc = "failed"
  /\ receipts' = [receipts EXCEPT ![calls[c].event] = NoCaller]
  /\ forgot' = [forgot EXCEPT ![calls[c].event] = @ + 1]
  /\ GoOn(c, "error")
  /\ UNCHANGED <<channel, made, clock, posts, jobs>>

Fails(c) ==
  /\ calls[c].pc = "failed"
  /\ made' = [made EXCEPT ![c].state = "failed"]
  /\ receipts' = [receipts EXCEPT ![calls[c].event] = NoCaller]
  /\ forgot' = [forgot EXCEPT ![calls[c].event] = @ + 1]
  /\ GoOn(c, "error")
  /\ UNCHANGED <<channel, clock, posts, jobs>>

\* A repetition waits for the receipt it found: done is closed
Waited(c) ==
  /\ calls[c].pc = "waiting"
  /\ \/ made[calls[c].on].state = "sent" /\ GoOn(c, "already")
     \/ made[calls[c].on].state = "failed" /\ GoOn(c, "error")
  /\ UNCHANGED <<channel, receipts, made, clock, posts, forgot, jobs>>

\* or the request's context is cancelled
GivesUp(c) ==
  /\ calls[c].pc = "waiting"
  /\ GoOn(c, "unavailable")
  /\ UNCHANGED <<channel, receipts, made, clock, posts, forgot, jobs>>

-----------------------------------------------------------------------------
SendStep(c) ==
  \/ \E posted, answered \in BOOLEAN : SendMessage(c, posted, answered)
  \/ Succeeds(c) \/ Fails(c)

NotifyStep(c) ==
  \/ Refused(c)
  \/ \E cutoff \in 0..clock : Notify(c, cutoff)

Next ==
  \/ \E ch \in Channels \cup {NoChannel} : JobChanges(ch)
  \/ \E c \in Callers :
       \/ \E ch \in Channels : Resolves(c, ch)
       \/ NotifyStep(c) \/ SendStep(c) \/ Waited(c) \/ GivesUp(c)

Spec == Init /\ [][Next]_vars

\* The handlers run, and the REST client has a timeout.  Nobody is assumed to
\* cancel a request that waits.
Fairness ==
  \A c \in Callers :
    WF_vars(NotifyStep(c)) /\ WF_vars(SendStep(c)) /\ WF_vars(Waited(c))

FairSpec == Spec /\ Fairness

-----------------------------------------------------------------------------
(* Properties.                                                             *)

Underway == {"sending", "succeeded", "failed"}
CallPcs  == Underway \cup {"idle", "notify", "waiting", "refused", "conflict",
              "capacity", "sent", "error", "already", "unavailable"}

\* Every variable has its type, and a request that was resolved its channel.
TypeOK ==
  /\ channel \in Channels \cup {NoChannel}
  /\ receipts \in [Events -> Callers \cup {NoCaller}]
  /\ made \in [Callers -> [channel : Channels \cup {NoChannel},
                           state : {"none", "sending", "sent", "failed"},
                           at : Nat]]
  /\ calls \in [Callers -> [pc : CallPcs, event : Events,
                            channel : Channels \cup {NoChannel},
                            on : Callers \cup {NoCaller}]]
  /\ \A c \in Callers : calls[c].pc # "idle" => calls[c].channel \in Channels
  /\ clock \in Nat
  /\ posts \in SUBSET [by : Callers, event : Events, channel : Channels]
  /\ forgot \in [Events -> Nat]
  /\ jobs \in Nat

\* A call that is sending has the receipt of its event until it is through,
\* whatever is pruned meanwhile: no second call sends the same event beside it.
InFlightKept ==
  \A c \in Callers : calls[c].pc \in Underway =>
    /\ receipts[calls[c].event] = c
    /\ made[c].state = "sending"

\* An event is posted again only after its receipt was dropped.
RepostNeedsForgetting ==
  \A e \in Events :
    Cardinality({p \in posts : p.event = e}) <= forgot[e] + 1

\* Whoever is told that the event was already sent is told the truth: it was
\* posted, to the channel of the repeated request.
AlreadySentIsTrue ==
  \A c \in Callers : calls[c].pc = "already" =>
    \E p \in posts : /\ p.event = calls[c].event
                     /\ p.channel = calls[c].channel

\* There are never more receipts than maxNotificationReceipts.
Bounded == Cardinality(Held(receipts)) <= MaxReceipts

-----------------------------------------------------------------------------
(* What the proofs need besides.                                           *)

\* The receipt of an event was made by a request about that event.
ReceiptsMatch ==
  \A e \in Events : receipts[e] # NoCaller => calls[receipts[e]].event = e

\* A call makes its receipt when it begins to send, for its own channel, and
\* the receipt says "sent" only of what Discord has posted.
ReceiptsHonest ==
  \A c \in Callers :
    /\ calls[c].pc \in {"idle", "notify"} => made[c].state = "none"
    /\ calls[c].pc \in Underway => made[c].channel = calls[c].channel
    /\ calls[c].pc = "succeeded" \/ made[c].state = "sent" =>
         \E p \in posts : /\ p.event = calls[c].event
                          /\ p.channel = made[c].channel

\* A repetition waits for a receipt of its own event and channel.
WaitsForItsOwn ==
  \A c \in Callers : calls[c].pc = "waiting" =>
    /\ calls[c].on \in Callers
    /\ calls[calls[c].on].event = calls[c].event
    /\ made[calls[c].on].channel = calls[c].channel
    /\ made[calls[c].on].state # "none"

\* A receipt in the map has been made.
ReceiptsMade ==
  \A e \in Events :
    receipts[e] # NoCaller => made[receipts[e]].state # "none"

HonestInv == /\ InFlightKept
             /\ ReceiptsMatch
             /\ ReceiptsMade
             /\ ReceiptsHonest
             /\ WaitsForItsOwn
             /\ AlreadySentIsTrue

IInv == TypeOK /\ HonestInv

-----------------------------------------------------------------------------
\* Every request that reaches the Manager is answered.
CallsReturn ==
  \A c \in Callers :
    calls[c].pc = "notify" ~> calls[c].pc \notin Underway \cup
                                {"notify", "waiting"}
=============================================================================
