---------------------------- MODULE OpusForward -----------------------------
(***************************************************************************)
(* The way of a voice packet from Discord to the Encoder and to the        *)
(* caption service, for one voice connection: the loop forwardOpus         *)
(* (internal/discord/audio_forward.go), the bounded BatchQueue of each     *)
(* target with its consumer, and the HTTP client's attempts                *)
(* (internal/audioforward).                                                *)
(*                                                                         *)
(* An action of the loop ends where another goroutine can be seen: where   *)
(* it looks at the connection again, looks a speaker up or enqueues.  A    *)
(* packet is its number, its SSRC and how its speaker is known; the        *)
(* speaking updates that name the speaker of an SSRC are numbered.  Audio, *)
(* URLs and texts are left out.  Time is free: a tick may find any flush   *)
(* interval and any identity window over.                                  *)
(***************************************************************************)
EXTENDS Naturals, Sequences, FiniteSets

CONSTANTS
  SSRCs,          \* synchronisation sources, one for each speaker
  BatchMax,       \* packets that make a batch full, by target
  QueueMax,       \* opusForwardQueueBatches
  MaxUnresolved,  \* packets kept for an SSRC without speaker (50)
  MaxAttempts,    \* Config.RetryMax, by target
  Feed,           \* the SSRC of each packet Discord sends, in order
  MaxPackets,     \* bound: packets of a behaviour, by kind of job
  MaxMappings     \* bound: speaking updates for one SSRC

Targets == {"encoder", "caption"}

\* A job names an Encoder, a caption service or both.  Captions wait for the
\* speaker's name within a window, or have no window (0 ms), or no token.
JobKinds ==
  [targets : {{"encoder"}}, captions : {"off"}] \cup
  [targets : {{"caption"}, Targets}, captions : {"window", "now", "noToken"}]

ASSUME OpusAssumption ==
  /\ BatchMax \in [Targets -> Nat \ {0}]
  /\ QueueMax \in Nat \ {0}
  /\ MaxUnresolved \in Nat
  /\ MaxAttempts \in [Targets -> Nat \ {0}]
  /\ Feed \in Seq(SSRCs)
  /\ MaxPackets \in [JobKinds -> Nat]
  /\ MaxMappings \in Nat

VARIABLES
  job,         \* what the job asks for: targets, and how captions are sent
  current,     \* isCurrentVoiceJob of this loop's job and generation
  stop,        \* the channel audioStop is closed
  known,       \* number of the update that last named the speaker of each
               \* SSRC, 0 for none
  heard,       \* SSRC of each packet received (AudioPacketsReceived)
  loop,        \* where forwardOpus is
  visit,       \* SSRCs flushExpiredUnresolved has not visited yet
  fallback,    \* fallbackUserID is set in this round of the loop
  pending,     \* the packet to append once the visits are over
  due,         \* targets to flush in this round
  batch,       \* encoderBatch and captionBatch
  unresolved,  \* packets that wait for their speaker, by SSRC
  cancelled,   \* runCtx is cancelled
  queue,       \* BatchQueue.batches of each target
  consumer,    \* where BatchQueue.Run of each target is
  sending,     \* the batch in ForwardOpus
  attempt,     \* the attempt of ForwardOpus
  forwarded,   \* AudioPacketsForwarded, CaptionPacketsForwarded
  drops,       \* AudioForwardQueueDrops, CaptionForwardQueueDrops
  failed,      \* history: packets of batches whose failure was recorded
  errors,      \* AudioForwardErrors, CaptionForwardErrors
  overflow,    \* caption packets beyond MaxUnresolved
  arrived      \* batches that reached each target, in order

loopVars == <<heard, loop, visit, fallback, pending, due, batch, unresolved,
              overflow>>
sendVars == <<consumer, sending, attempt, forwarded, arrived>>
fixed == <<job>>
vars == <<job, current, stop, known, loopVars, cancelled, queue, sendVars,
          drops, failed, errors>>

\* Whose packet it is: the user of mapping number map, or the only human who
\* is present, or nobody knows
Users  == [how : {"mapped", "fallback", "none"}, map : Nat]
Nobody == [how |-> "none", map |-> 0]
Packet == [n : Nat, ssrc : SSRCs, user : Users]

TypeOK ==
  /\ job \in JobKinds
  /\ current \in BOOLEAN /\ stop \in BOOLEAN /\ cancelled \in BOOLEAN
  /\ known \in [SSRCs -> Nat] /\ visit \subseteq SSRCs
  /\ heard \in Seq(SSRCs)
  /\ loop \in {"select", "release", "flush", "waiting", "ended"}
  /\ fallback \in BOOLEAN
  /\ pending \in Seq(Packet) /\ Len(pending) <= 1
  /\ due \subseteq Targets
  /\ batch \in [Targets -> Seq(Packet)]
  /\ unresolved \in [SSRCs -> Seq(Packet)]
  /\ queue \in [Targets -> Seq(Seq(Packet))]
  /\ consumer \in [Targets -> {"idle", "sending", "ended"}]
  /\ sending \in [Targets -> Seq(Packet)]
  /\ \A t \in Targets : Len(queue[t]) <= QueueMax
  /\ attempt \in [Targets -> Nat]
  /\ forwarded \in [Targets -> Nat]
  /\ drops \in [Targets -> Nat]
  /\ failed \in [Targets -> Nat] /\ errors \in [Targets -> Nat]
  /\ overflow \in Nat
  /\ arrived \in [Targets -> Seq(Seq(Packet))]

\* JoinVoice starts the loop only for a job that names a target.
Init ==
  /\ job \in JobKinds
  /\ current = TRUE /\ stop = FALSE /\ cancelled = FALSE
  /\ known = [s \in SSRCs |-> 0]
  /\ visit = {} /\ due = {} /\ pending = <<>>
  /\ heard = <<>> /\ loop = "select" /\ fallback = FALSE
  /\ batch = [t \in Targets |-> <<>>]
  /\ unresolved = [s \in SSRCs |-> <<>>]
  /\ queue = [t \in Targets |-> <<>>]
  /\ consumer = [t \in Targets |->
                   IF t \in job.targets THEN "idle" ELSE "ended"]
  /\ sending = [t \in Targets |-> <<>>]
  /\ attempt = [t \in Targets |-> 0]
  /\ forwarded = [t \in Targets |-> 0]
  /\ drops = [t \in Targets |-> 0]
  /\ failed = [t \in Targets |-> 0] /\ errors = [t \in Targets |-> 0]
  /\ overflow = 0
  /\ arrived = [t \in Targets |-> <<>>]

-----------------------------------------------------------------------------
(* Discord and the rest of the client.                                     *)

\* onVoiceSpeakingUpdate names the speaker of an SSRC, or another speaker.
\* (userForSSRC records one that DiscordGo knows when there is none yet.)
SpeakerKnown(s) ==
  /\ current /\ known[s] < MaxMappings
  /\ known' = [known EXCEPT ![s] = @ + 1]
  /\ UNCHANGED <<fixed, current, stop, loopVars, cancelled, queue, sendVars,
                 drops, failed, errors>>

\* LeaveVoice, a disconnect, or JoinVoice for the next job.
Disconnected ==
  /\ current
  /\ current' = FALSE /\ stop' = TRUE
  /\ known' = [s \in SSRCs |-> 0]
  /\ UNCHANGED <<fixed, loopVars, cancelled, queue, sendVars, drops, failed,
                 errors>>

-----------------------------------------------------------------------------
(* The loop.                                                               *)

\* recordAudioPacketReceived
RecordReceived(s) == heard' = Append(heard, s)

\* Mutated form of Resolve: the only human present is preferred to the mapping.
ResolveFallbackFirst(s, fb) ==
  IF fb THEN [how |-> "fallback", map |-> 0]
  ELSE IF known[s] # 0 /\ current THEN [how |-> "mapped", map |-> known[s]]
  ELSE Nobody

\* userForSSRC, and resolveFallbackUser when it finds nobody.  The fallback
\* is looked up at most once in a round of the loop (it is kept for 250 ms).
Resolve(s, fb) ==
  IF known[s] # 0 /\ current THEN [how |-> "mapped", map |-> known[s]]
  ELSE IF fb THEN [how |-> "fallback", map |-> 0] ELSE Nobody

\* Another packet may come.
HasInput == Len(heard) < Len(Feed) /\ Len(heard) < MaxPackets[job]

Waiting == {s \in SSRCs : unresolved[s] # <<>>}

\* Which batches the size makes due, caption and encoder.
Full(b) == {t \in Targets : Len(b[t]) >= BatchMax[t]}

FlushOrSelect(d) == IF d = {} THEN "select" ELSE "flush"

\* The Encoder mixes by SSRC: whose packet it is makes no difference there.
Unnamed(p) == [p EXCEPT !.user = Nobody]

\* A packet without speaker is kept for captions, up to a limit; the Encoder
\* gets it at once.
Keep(p) ==
  /\ IF Len(unresolved[p.ssrc]) < MaxUnresolved
     THEN /\ unresolved' = [unresolved EXCEPT ![p.ssrc] = Append(@, p)]
          /\ UNCHANGED overflow
     ELSE overflow' = overflow + 1 /\ UNCHANGED unresolved
  /\ due' = Full(batch')
  /\ loop' = FlushOrSelect(due')
  /\ UNCHANGED <<visit, pending>>

\* Mutated form of Release: the waiting packets are not visited first.
ReleaseLate(p) ==
  /\ loop' = "release" /\ visit' = {} /\ pending' = <<p>> /\ due' = {}
  /\ UNCHANGED <<unresolved, overflow>>

\* Before a packet with a speaker is appended, those that wait are visited.
Release(p) ==
  /\ loop' = "release" /\ visit' = Waiting /\ pending' = <<p>> /\ due' = {}
  /\ UNCHANGED <<unresolved, overflow>>

SkipCaption ==
  /\ due' = Full(batch') /\ loop' = FlushOrSelect(due')
  /\ UNCHANGED <<visit, pending, unresolved, overflow>>

Receive(fb) ==
  LET s    == Feed[Len(heard) + 1]
      user == Resolve(s, fb)
      p    == [n |-> Len(heard) + 1, ssrc |-> s, user |-> user]
  IN  /\ loop = "select" /\ current /\ HasInput
      /\ RecordReceived(s)
      /\ batch' = IF "encoder" \in job.targets
                  THEN [batch EXCEPT !["encoder"] = Append(@, Unnamed(p))]
                  ELSE batch
      /\ CASE "caption" \notin job.targets     -> SkipCaption
           [] "caption" \in job.targets /\ user.how = "none"
                  /\ job.captions # "now"
                                               -> Keep(p)
           [] OTHER                            -> Release(p)
      /\ fallback' = (fb /\ loop' = "release")
      /\ UNCHANGED <<fixed, current, stop, known, cancelled, queue, sendVars,
                     drops, failed, errors>>

\* A tick: the visits, then the targets whose interval is over.
Tick(d, fb) ==
  /\ loop = "select" /\ current
  /\ Waiting # {} \/ \E t \in d : batch[t] # <<>>
  /\ loop' = "release" /\ visit' = Waiting /\ pending' = <<>>
  /\ due' = d /\ fallback' = fb
  /\ UNCHANGED <<fixed, current, stop, known, heard, batch, unresolved,
                 overflow, cancelled, queue, sendVars, drops, failed, errors>>

\* One SSRC of flushExpiredUnresolved; the order is that of a Go map.
Visit(s, over) ==
  LET user == Resolve(s, fallback)
  IN  /\ loop = "release" /\ s \in visit
      /\ visit' = visit \ {s}
      /\ IF user.how = "none" /\ ~over
         THEN UNCHANGED <<batch, unresolved>>
         ELSE /\ batch' = [batch EXCEPT !["caption"] = @ \o
                   [i \in DOMAIN unresolved[s] |->
                      [unresolved[s][i] EXCEPT !.user = user]]]
              /\ unresolved' = [unresolved EXCEPT ![s] = <<>>]
      /\ UNCHANGED <<fixed, current, stop, known, heard, loop, fallback,
                     pending, due, overflow, cancelled, queue, sendVars,
                     drops, failed, errors>>

\* appendCaptionPacket; after a packet the size decides what is flushed.
Visited ==
  /\ loop = "release" /\ visit = {}
  /\ batch' = [batch EXCEPT !["caption"] = @ \o pending]
  /\ due' = IF pending = <<>> THEN due ELSE Full(batch')
  /\ loop' = FlushOrSelect(due')
  /\ pending' = <<>> /\ fallback' = FALSE
  /\ UNCHANGED <<fixed, current, stop, known, heard, visit, unresolved,
                 overflow, cancelled, queue, sendVars, drops, failed, errors>>

RecordError(t) ==
  errors' = IF current THEN [errors EXCEPT ![t] = @ + 1] ELSE errors

\* recordForwardQueueDropForJob counts the packets, and one error
RecordDrop(t, b) ==
  /\ drops' = IF current THEN [drops EXCEPT ![t] = @ + Len(b)] ELSE drops
  /\ RecordError(t)

\* setForwardErrorForJob counts one error, however many packets the batch has
RecordFailure(t, b) ==
  /\ failed' = IF current THEN [failed EXCEPT ![t] = @ + Len(b)] ELSE failed
  /\ RecordError(t)

\* Mutated forms of Enqueue: a drop without a record, and a send that waits
\* for room.
EnqueueUncounted(t, b) ==
  /\ queue' = IF Len(queue[t]) < QueueMax
              THEN [queue EXCEPT ![t] = Append(@, b)] ELSE queue
  /\ UNCHANGED <<drops, errors>>

EnqueueWaits(t, b) ==
  /\ Len(queue[t]) < QueueMax
  /\ queue' = [queue EXCEPT ![t] = Append(@, b)]
  /\ UNCHANGED <<drops, errors>>

\* The select of BatchQueue.Enqueue: with no room the batch is dropped.
Enqueue(t, b) ==
  IF Len(queue[t]) < QueueMax
  THEN queue' = [queue EXCEPT ![t] = Append(@, b)]
       /\ UNCHANGED <<drops, errors>>
  ELSE RecordDrop(t, b) /\ UNCHANGED queue

\* A batch of a connection that is over is dropped.
EnqueueIfCurrent(t, b) ==
  IF current THEN Enqueue(t, b) ELSE UNCHANGED <<queue, drops, errors>>

\* flush: captions first, and none without a token.
Flush(t) ==
  /\ loop = "flush" /\ t \in due /\ (t = "encoder" => "caption" \notin due)
  /\ batch' = [batch EXCEPT ![t] = <<>>]
  /\ due' = due \ {t} /\ loop' = FlushOrSelect(due')
  /\ CASE batch[t] = <<>>  -> UNCHANGED <<queue, drops, failed, errors>>
       [] batch[t] # <<>> /\ t = "caption" /\ job.captions = "noToken" ->
            RecordFailure(t, batch[t]) /\ UNCHANGED <<queue, drops>>
       [] OTHER -> EnqueueIfCurrent(t, batch[t]) /\ UNCHANGED failed
  /\ UNCHANGED <<fixed, current, stop, known, heard, visit, fallback,
                 pending, unresolved, overflow, cancelled, sendVars>>

\* Mutated form of Return: the deferred function does not cancel.
ReturnUncancelled ==
  /\ loop' = "waiting"
  /\ batch' = [t \in Targets |-> <<>>]
  /\ unresolved' = [s \in SSRCs |-> <<>>]
  /\ UNCHANGED <<fixed, heard, visit, fallback, pending, due, overflow, queue,
                 sendVars, drops, failed, errors, cancelled>>

\* The returns of the loop: its deferred function cancels the consumers, and
\* what its variables still hold is lost.
Return ==
  /\ loop' = "waiting" /\ cancelled' = TRUE
  /\ batch' = [t \in Targets |-> <<>>]
  /\ unresolved' = [s \in SSRCs |-> <<>>]
  /\ UNCHANGED <<fixed, heard, visit, fallback, pending, due, overflow, queue,
                 sendVars, drops, failed, errors>>

StopSeen ==
  loop = "select" /\ stop /\ Return /\ UNCHANGED <<current, stop, known>>

NotCurrent ==
  loop = "select" /\ ~current /\ Return /\ UNCHANGED <<current, stop, known>>

\* opus_recv_closed: markVoiceDisconnectedForJob leaves audioStop open.
ReceiveClosed ==
  /\ loop = "select" /\ Return
  /\ current' = FALSE /\ known' = [s \in SSRCs |-> 0]
  /\ UNCHANGED stop

\* forwarders.Wait
Ended ==
  /\ loop = "waiting" /\ \A t \in Targets : consumer[t] = "ended"
  /\ loop' = "ended"
  /\ UNCHANGED <<fixed, current, stop, known, heard, visit, fallback,
                 pending, due, batch, unresolved, overflow, cancelled, queue,
                 sendVars, drops, failed, errors>>

\* The goroutine that turns the closing of audioStop into a cancellation.
Monitor ==
  /\ stop /\ ~cancelled /\ cancelled' = TRUE
  /\ UNCHANGED <<fixed, current, stop, known, loopVars, queue, sendVars,
                 drops, failed, errors>>

-----------------------------------------------------------------------------
(* The consumer of a target: BatchQueue.Run around ForwardOpus.            *)

Take(t) ==
  /\ consumer[t] = "idle" /\ queue[t] # <<>>
  /\ queue' = [queue EXCEPT ![t] = Tail(@)]
  /\ IF cancelled
     THEN consumer' = [consumer EXCEPT ![t] = "ended"]
          /\ UNCHANGED <<sending, attempt>>
     ELSE /\ consumer' = [consumer EXCEPT ![t] = "sending"]
          /\ sending' = [sending EXCEPT ![t] = Head(queue[t])]
          /\ attempt' = [attempt EXCEPT ![t] = 1]
  /\ UNCHANGED <<fixed, current, stop, known, loopVars, cancelled, forwarded,
                 arrived, drops, failed, errors>>

Quit(t) ==
  /\ consumer[t] = "idle" /\ cancelled
  /\ consumer' = [consumer EXCEPT ![t] = "ended"]
  /\ UNCHANGED <<fixed, current, stop, known, loopVars, cancelled, queue,
                 sending, attempt, forwarded, arrived, drops, failed, errors>>

\* The request has returned: nothing is recorded once Run is cancelled.
Returned(t) ==
  /\ consumer' = [consumer EXCEPT ![t] =
                    IF cancelled THEN "ended" ELSE "idle"]
  /\ sending' = [sending EXCEPT ![t] = <<>>]
  /\ attempt' = [attempt EXCEPT ![t] = 0]

Arrives(t) == arrived' = [arrived EXCEPT ![t] = Append(@, sending[t])]

\* The target answers 2xx.
Succeeds(t) ==
  /\ consumer[t] = "sending"
  /\ Arrives(t)
  /\ Returned(t)
  /\ forwarded' = IF ~cancelled /\ current
                  THEN [forwarded EXCEPT ![t] = @ + Len(sending[t])]
                  ELSE forwarded
  /\ UNCHANGED <<fixed, current, stop, known, loopVars, cancelled, queue,
                 drops, failed, errors>>

\* An attempt fails, with or without effect at the target.  Whatever effect
\* it has it has before it fails: a request that times out or is cancelled is
\* not taken to be carried out later.
AttemptFails(t) == Arrives(t) \/ UNCHANGED arrived

\* Mutated form of Retry: the batch goes to the end of the queue.
RetryLater(t) ==
  /\ consumer[t] = "sending" /\ ~cancelled /\ queue[t] # <<>>
  /\ AttemptFails(t)
  /\ sending' = [sending EXCEPT ![t] = Head(queue[t])]
  /\ queue' = [queue EXCEPT ![t] = Append(Tail(@), sending[t])]
  /\ UNCHANGED <<fixed, current, stop, known, loopVars, cancelled, consumer,
                 attempt, forwarded, drops, failed, errors>>

\* A status that allows it, or no answer at all: the batch is sent again.
Retry(t) ==
  /\ consumer[t] = "sending" /\ ~cancelled /\ attempt[t] < MaxAttempts[t]
  /\ AttemptFails(t)
  /\ attempt' = [attempt EXCEPT ![t] = @ + 1]
  /\ UNCHANGED <<fixed, current, stop, known, loopVars, cancelled, queue,
                 consumer, sending, forwarded, drops, failed, errors>>

\* The last attempt, a permanent error, the end of the request's time, or
\* the cancellation, which also ends the pause before a retry.
GivesUp(t) ==
  /\ consumer[t] = "sending"
  /\ AttemptFails(t)
  /\ Returned(t)
  /\ IF cancelled THEN UNCHANGED <<failed, errors>>
     ELSE RecordFailure(t, sending[t])
  /\ UNCHANGED <<fixed, current, stop, known, loopVars, cancelled, queue,
                 forwarded, drops>>

-----------------------------------------------------------------------------
Next ==
  \/ Disconnected \/ StopSeen \/ NotCurrent \/ ReceiveClosed \/ Ended
  \/ Monitor \/ Visited
  \/ \E s \in SSRCs :
       \/ SpeakerKnown(s)
       \/ \E over \in BOOLEAN : Visit(s, over)
  \/ \E fb \in BOOLEAN : Receive(fb)
  \/ \E d \in SUBSET job.targets, fb \in BOOLEAN : Tick(d, fb)
  \/ \E t \in Targets :
       Flush(t) \/ Take(t) \/ Quit(t) \/ Succeeds(t) \/ Retry(t) \/ GivesUp(t)

Spec == Init /\ [][Next]_vars

\* The deferred steps of the loop, the visits and flushes of a round.
LoopSteps ==
  \/ StopSeen \/ NotCurrent \/ Ended \/ Visited
  \/ \E s \in SSRCs, b \in BOOLEAN : Visit(s, b)
  \/ \E t \in Targets : Flush(t)

\* The Encoder's requests end by their timeout; those of either target end
\* when they are cancelled.  Nothing is assumed of the caption service.
Answered(t) == Succeeds(t) \/ GivesUp(t)

Fairness ==
  /\ WF_vars(LoopSteps) /\ WF_vars(Monitor)
  /\ SF_vars(\E fb \in BOOLEAN : Tick(job.targets, fb))
  /\ WF_vars(Take("encoder")) /\ WF_vars(Answered("encoder"))
  /\ \A t \in Targets :
       WF_vars(Quit(t)) /\ WF_vars(cancelled /\ Answered(t))

FairSpec == Spec /\ Fairness

-----------------------------------------------------------------------------
(* Properties.                                                             *)

\* What OrderedDelivery promises, to the Encoder and to the caption service.
Encoder == INSTANCE OrderedDelivery WITH
  Sources <- SSRCs, PerSource <- FALSE,
  accepted <- heard, delivered <- arrived["encoder"], open <- loop # "ended"

Caption == INSTANCE OrderedDelivery WITH
  Sources <- SSRCs, PerSource <- TRUE,
  accepted <- heard, delivered <- arrived["caption"], open <- loop # "ended"

\* The Encoder gets the packets in the order in which they came, whoever
\* speaks, a batch is repeated only directly after itself, and nothing
\* arrives once forwardOpus has returned (BatchQueue, ForwardOpus).
EncoderInOrder == Encoder!Spec

\* The caption service gets the packets of one speaker in order, although
\* some wait for their speaker's name (flushExpiredUnresolved).
CaptionInOrder == Caption!Spec

Has(b, n) == \E i \in DOMAIN b : b[i].n = n

\* The packets received that are on their way to target t, by their numbers.
UnderWay(t) ==
  {n \in DOMAIN heard :
     \/ Has(batch[t], n)
     \/ Has(sending[t], n)
     \/ \E i \in DOMAIN queue[t] : Has(queue[t][i], n)
     \/ /\ t = "caption"
        /\ Has(pending, n) \/ \E s \in SSRCs : Has(unresolved[s], n)}

\* As long as the connection is current, every packet received is on its way
\* to each target, was counted as forwarded, was counted as dropped by a full
\* queue, or was in a batch whose failure was recorded; and in none of these
\* twice.  The status has no count of the packets that failed: its error count
\* is of batches, and of the dropped ones too, so it is not zero once a packet
\* is lost, and not above the number of packets lost.  The one loss without a
\* trace is a caption packet beyond the buffer of its SSRC.
NoSilentLoss ==
  current => \A t \in job.targets :
    /\ Len(heard) = Cardinality(UnderWay(t))
                    + forwarded[t] + drops[t] + failed[t]
                    + (IF t = "caption" THEN overflow ELSE 0)
    /\ errors[t] <= drops[t] + failed[t]
    /\ drops[t] + failed[t] > 0 => errors[t] > 0

\* The names that the caption service is given for an SSRC follow the order in
\* which its speakers were recorded (ssrcUsers): a later batch never names by
\* an older record than an earlier batch, nor, once one has named a recorded
\* speaker, by the only human present or not at all.  Within a batch it may
\* happen: a record can come between the look-up for a packet and the visits
\* it causes.
IdentityKept ==
  LET a == arrived["caption"]
  IN  \A k, l \in DOMAIN a : (k < l /\ a[k] # a[l]) =>
        \A i \in DOMAIN a[k], j \in DOMAIN a[l] :
          a[k][i].ssrc = a[l][j].ssrc =>
            a[k][i].user.map <= a[l][j].user.map

OnTheWay(t) == batch[t] # <<>> \/ queue[t] # <<>> \/ sending[t] # <<>>

\* A caption service that never answers does not hold up the Encoder: what is
\* on its way to the Encoder leaves, or the loop ends (BatchQueue's promise
\* that one route cannot stall another or the receive loop).
EncoderKeepsUp == OnTheWay("encoder") ~> (~OnTheWay("encoder") \/ ~current)

\* A connection that is over ends its loop and both consumers, whatever the
\* targets answer.  LeaveVoice and the next JoinVoice wait for that, but for
\* two seconds at most (opusForwardStopWait).
LoopEnds == ~current ~> loop = "ended"
=============================================================================
