------------------------- MODULE OpusForwardProofs --------------------------
(***************************************************************************)
(* The way of the voice packets implements OrderedDelivery, towards the    *)
(* Encoder and towards the caption service, for any SSRCs, packets, batch  *)
(* sizes, queues and attempts.                                             *)
(*                                                                         *)
(* Behind the properties stands one line of packets.  From its head: the   *)
(* batches that have arrived, the batch being sent, the queue, the batch   *)
(* being filled and, for captions, the packets that wait for a speaker and *)
(* the one to be appended.  Of each flow the packets of an earlier place   *)
(* are older than those of a later one.  As a batch of a connection that   *)
(* is over is never enqueued, the part behind the queue needs to hold only *)
(* while the connection is current; and it does not hold afterwards: a     *)
(* visit may then leave the packets of a speaker waiting whose later       *)
(* packet is appended.                                                     *)
(*                                                                         *)
(* The same line, with the age of the record that names the speaker in     *)
(* place of the packet's number, shows that names follow the records; and  *)
(* as no packet is in two places of it, counting the line shows that none  *)
(* is lost in silence.                                                     *)
(***************************************************************************)
EXTENDS OpusForward, SequenceTheorems, FiniteSetTheorems, TLAPS

-----------------------------------------------------------------------------
(* The line.                                                               *)

Flow(t, p, q) == t = "caption" => p.ssrc = q.ssrc

Before(t, b, c) ==
  \A i \in DOMAIN b, j \in DOMAIN c : Flow(t, b[i], c[j]) => b[i].n < c[j].n

InOrder(t, b) ==
  \A i, j \in DOMAIN b : (i < j /\ Flow(t, b[i], b[j])) => b[i].n < b[j].n

\* The packets of b are among those heard, h.
Heard(h, b) ==
  \A i \in DOMAIN b : b[i].n \in DOMAIN h /\ b[i].ssrc = h[b[i].n]

\* b is later than what has arrived, a, is being sent, x, and is queued, q.
Follows(t, a, x, q, b) ==
  /\ \A k \in DOMAIN a : Before(t, a[k], b)
  /\ Before(t, x, b)
  /\ \A i \in DOMAIN q : Before(t, q[i], b)

AllHeard(h, a, x, q) ==
  /\ \A k \in DOMAIN a : Heard(h, a[k])
  /\ Heard(h, x)
  /\ \A i \in DOMAIN q : Heard(h, q[i])

\* What is being sent is later than what has arrived, or arrived last.
SendingInOrder(t, a, x) ==
  /\ InOrder(t, x)
  /\ \/ \A k \in DOMAIN a : Before(t, a[k], x)
     \/ a # <<>> /\ a[Len(a)] = x

QueueInOrder(t, a, x, q) ==
  \A i \in DOMAIN q :
    /\ InOrder(t, q[i])
    /\ Before(t, x, q[i])
    /\ \A k \in DOMAIN a : Before(t, a[k], q[i])
    /\ \A j \in DOMAIN q : i < j => Before(t, q[i], q[j])

\* The part of the line that a consumer works on.
Sent(t, h, a, x, q) ==
  /\ AllHeard(h, a, x, q)
  /\ SendingInOrder(t, a, x)
  /\ QueueInOrder(t, a, x, q)

\* A batch that may be enqueued.
Ready(t, h, a, x, q, b) ==
  Heard(h, b) /\ InOrder(t, b) /\ Follows(t, a, x, q, b)

\* The same of the variables.
SentInv(t) == Sent(t, heard, arrived[t], sending[t], queue[t])
MayEnqueue(t, b) == Ready(t, heard, arrived[t], sending[t], queue[t], b)

\* The packets that wait for their speaker's name.
WaitingInv ==
  \A s \in SSRCs :
    /\ MayEnqueue("caption", unresolved[s])
    /\ \A i \in DOMAIN unresolved[s] : unresolved[s][i].ssrc = s
    /\ Before("caption", batch["caption"], unresolved[s])

\* Why nothing of its speaker is left waiting when the pending packet is
\* appended: the round that found its speaker finds it again.
Findable(p) ==
  /\ p.ssrc \notin visit => unresolved[p.ssrc] = <<>>
  /\ p.user.how = "mapped" => known[p.ssrc] # 0
  /\ p.user.how = "fallback" => fallback
  /\ p.user.how = "none" => job.captions = "now"

PendingInv ==
  /\ loop # "release" => pending = <<>>
  /\ MayEnqueue("caption", pending)
  /\ Before("caption", batch["caption"], pending)
  /\ \A s \in SSRCs : Before("caption", unresolved[s], pending)
  /\ \A i \in DOMAIN pending : Findable(pending[i])
  /\ job.captions = "now" => \A s \in SSRCs : unresolved[s] = <<>>

\* The part of the line that the loop works on.
LoopInv ==
  /\ \A t \in Targets : MayEnqueue(t, batch[t])
  /\ WaitingInv
  /\ PendingInv

\* forwardOpus waits for its consumers.
EndedInv == loop = "ended" => \A t \in Targets : consumer[t] = "ended"

LineInv ==
  /\ \A t \in Targets : SentInv(t)
  /\ current => LoopInv
  /\ EndedInv

-----------------------------------------------------------------------------
(* Types.                                                                  *)

\* The speaker found is one of the three kinds.
LEMMA ResolveType ==
  ASSUME known \in [SSRCs -> Nat], NEW s \in SSRCs, NEW fb
  PROVE  Resolve(s, fb) \in Users
<1>1. known[s] \in Nat
  OBVIOUS
<1> QED
  BY <1>1 DEF Resolve, Users, Nobody

\* Packets that are given another user are packets still.
LEMMA Relabelled ==
  ASSUME NEW b \in Seq(Packet), NEW u \in Users
  PROVE  /\ [i \in DOMAIN b |-> [b[i] EXCEPT !.user = u]] \in Seq(Packet)
         /\ DOMAIN [i \in DOMAIN b |-> [b[i] EXCEPT !.user = u]] = DOMAIN b
         /\ \A i \in DOMAIN b :
              /\ [b[i] EXCEPT !.user = u].n = b[i].n
              /\ [b[i] EXCEPT !.user = u].ssrc = b[i].ssrc
<1> DEFINE R == [i \in DOMAIN b |-> [b[i] EXCEPT !.user = u]]
<1>1. /\ Len(b) \in Nat /\ DOMAIN b = 1 .. Len(b)
      /\ \A i \in DOMAIN b : b[i] \in Packet
  BY LenProperties, ElementOfSeq
<1>2. \A i \in DOMAIN b : [b[i] EXCEPT !.user = u] \in Packet
  BY <1>1 DEF Packet
<1>3. R \in [1 .. Len(b) -> Packet]
  BY <1>1, <1>2
<1>4. R \in Seq(Packet)
  BY <1>1, <1>3, IsASeq
<1>5. \A i \in DOMAIN b :
        /\ [b[i] EXCEPT !.user = u].n = b[i].n
        /\ [b[i] EXCEPT !.user = u].ssrc = b[i].ssrc
  BY <1>1 DEF Packet
<1> QED
  BY <1>4, <1>5

LEMMA TypeInit == Init => TypeOK
<1> SUFFICES ASSUME Init PROVE TypeOK
  OBVIOUS
<1>1. QueueMax \in Nat
  BY OpusAssumption
<1>2. /\ <<>> \in Seq(SSRCs) /\ <<>> \in Seq(Packet)
      /\ <<>> \in Seq(Seq(Packet)) /\ Len(<<>>) = 0
  BY EmptySeq
<1>3. /\ batch \in [Targets -> Seq(Packet)]
      /\ unresolved \in [SSRCs -> Seq(Packet)]
      /\ queue \in [Targets -> Seq(Seq(Packet))]
      /\ sending \in [Targets -> Seq(Packet)]
      /\ arrived \in [Targets -> Seq(Seq(Packet))]
  BY <1>2 DEF Init
<1>4. \A t \in Targets : Len(queue[t]) <= QueueMax
  BY <1>1, <1>2 DEF Init
<1>5. consumer \in [Targets -> {"idle", "sending", "ended"}]
  BY DEF Init
<1>6. pending \in Seq(Packet) /\ Len(pending) <= 1
  BY <1>2 DEF Init
<1>7. /\ attempt \in [Targets -> Nat] /\ forwarded \in [Targets -> Nat]
      /\ drops \in [Targets -> Nat] /\ failed \in [Targets -> Nat]
      /\ errors \in [Targets -> Nat] /\ known \in [SSRCs -> Nat]
  BY DEF Init
<1> QED
  BY <1>2, <1>3, <1>4, <1>5, <1>6, <1>7 DEF Init, TypeOK

LEMMA TypeReceive ==
  ASSUME TypeOK, NEW fb \in BOOLEAN, Receive(fb)
  PROVE  TypeOK'
<1> DEFINE s == Feed[Len(heard) + 1]
           p == [n |-> Len(heard) + 1, ssrc |-> s, user |-> Resolve(s, fb)]
<1>1. Len(heard) \in Nat /\ Len(heard) + 1 \in 1 .. Len(Feed)
  <2>1. Len(heard) \in Nat /\ Len(Feed) \in Nat
    BY OpusAssumption, LenProperties DEF TypeOK
  <2>2. Len(heard) < Len(Feed)
    BY DEF Receive, HasInput
  <2> QED
    BY <2>1, <2>2
<1>2. s \in SSRCs
  BY <1>1, OpusAssumption, ElementOfSeq
<1>3. p \in Packet /\ Unnamed(p) \in Packet
  <2>1. Resolve(s, fb) \in Users
    BY <1>2, ResolveType DEF TypeOK
  <2>2. Nobody \in Users
    BY DEF Nobody, Users
  <2> QED
    BY <1>1, <1>2, <2>1, <2>2 DEF Packet, Unnamed
<1>4. heard' \in Seq(SSRCs)
  BY <1>2 DEF TypeOK, Receive, RecordReceived
<1>5. batch' \in [Targets -> Seq(Packet)]
  <2>1. Append(batch["encoder"], Unnamed(p)) \in Seq(Packet)
    BY <1>3 DEF TypeOK, Targets
  <2>2. batch' = batch
        \/ batch' = [batch EXCEPT !["encoder"] =
                       Append(batch["encoder"], Unnamed(p))]
    BY DEF Receive
  <2> QED
    BY <2>1, <2>2 DEF TypeOK
<1>6. /\ unresolved' \in [SSRCs -> Seq(Packet)] /\ overflow' \in Nat
      /\ pending' \in Seq(Packet) /\ Len(pending') <= 1
      /\ visit' \subseteq SSRCs /\ due' \subseteq Targets
      /\ loop' \in {"select", "release", "flush"}
  <2>1. CASE Keep(p)
    <3>1. Append(unresolved[s], p) \in Seq(Packet)
      BY <1>2, <1>3 DEF TypeOK
    <3>2. p.ssrc = s
      OBVIOUS
    <3> HIDE DEF p, s
    <3>3. \/ unresolved' = unresolved
          \/ unresolved' =
               [unresolved EXCEPT ![s] = Append(unresolved[s], p)]
      BY <2>1, <3>2 DEF Keep
    <3>4. unresolved' \in [SSRCs -> Seq(Packet)]
      BY <3>1, <3>3 DEF TypeOK
    <3>5. overflow' \in Nat
      BY <2>1 DEF Keep, TypeOK
    <3> QED
      BY <2>1, <3>4, <3>5 DEF Keep, TypeOK, Full, FlushOrSelect
  <2>2. CASE Release(p)
    <3>1. <<p>> \in Seq(Packet) /\ Len(<<p>>) = 1
      BY <1>3
    <3> HIDE DEF p, s
    <3> QED
      BY <2>2, <3>1 DEF Release, TypeOK, Waiting
  <2>3. CASE SkipCaption
    BY <2>3 DEF SkipCaption, TypeOK, Full, FlushOrSelect
  <2> QED
    BY <2>1, <2>2, <2>3 DEF Receive
<1>7. fallback' \in BOOLEAN
  BY DEF Receive
<1>8. UNCHANGED <<job, current, stop, known, cancelled, queue, sendVars,
                  drops, failed, errors>>
  BY DEF Receive, fixed
<1> QED
  BY <1>4, <1>5, <1>6, <1>7, <1>8 DEF TypeOK, sendVars

LEMMA TypeVisit ==
  ASSUME TypeOK, NEW s \in SSRCs, NEW over \in BOOLEAN, Visit(s, over)
  PROVE  TypeOK'
<1> DEFINE R == [i \in DOMAIN unresolved[s] |->
                   [unresolved[s][i] EXCEPT !.user = Resolve(s, fallback)]]
<1>1. R \in Seq(Packet)
  <2>1. unresolved[s] \in Seq(Packet) /\ Resolve(s, fallback) \in Users
    BY ResolveType DEF TypeOK
  <2> QED
    BY <2>1, Relabelled
<1>2. batch["caption"] \o R \in Seq(Packet)
  BY <1>1, ConcatProperties DEF TypeOK, Targets
<1>3. \/ UNCHANGED <<batch, unresolved>>
      \/ /\ batch' = [batch EXCEPT !["caption"] = batch["caption"] \o R]
         /\ unresolved' = [unresolved EXCEPT ![s] = <<>>]
  BY DEF Visit
<1> HIDE DEF R
<1>4. /\ batch' \in [Targets -> Seq(Packet)]
      /\ unresolved' \in [SSRCs -> Seq(Packet)]
  <2>1. /\ batch \in [Targets -> Seq(Packet)]
        /\ unresolved \in [SSRCs -> Seq(Packet)]
    BY DEF TypeOK
  <2> QED
    BY <1>2, <1>3, <2>1, EmptySeq
<1> QED
  BY <1>4 DEF TypeOK, Visit, sendVars, fixed

LEMMA TypeFlush ==
  ASSUME TypeOK, NEW t \in Targets, Flush(t)
  PROVE  TypeOK'
<1>1. batch' \in [Targets -> Seq(Packet)] /\ batch[t] \in Seq(Packet)
  BY EmptySeq DEF TypeOK, Flush
<1>2. Len(batch[t]) \in Nat
  BY <1>1
<1>3. /\ drops' \in [Targets -> Nat] /\ failed' \in [Targets -> Nat]
      /\ errors' \in [Targets -> Nat]
  <2>1. /\ drops \in [Targets -> Nat] /\ failed \in [Targets -> Nat]
        /\ errors \in [Targets -> Nat]
    BY DEF TypeOK
  <2>2. /\ \/ drops' = drops
           \/ drops' = [drops EXCEPT ![t] = @ + Len(batch[t])]
        /\ \/ failed' = failed
           \/ failed' = [failed EXCEPT ![t] = @ + Len(batch[t])]
        /\ \/ errors' = errors
           \/ errors' = [errors EXCEPT ![t] = @ + 1]
    BY DEF Flush, RecordFailure, EnqueueIfCurrent, Enqueue, RecordDrop,
           RecordError
  <2>3. /\ drops[t] + Len(batch[t]) \in Nat
        /\ failed[t] + Len(batch[t]) \in Nat
    BY <1>2, <2>1
  <2>4. drops' \in [Targets -> Nat]
    BY <2>1, <2>2, <2>3
  <2>5. failed' \in [Targets -> Nat]
    BY <2>1, <2>2, <2>3
  <2>6. errors' \in [Targets -> Nat]
    BY <2>1, <2>2
  <2> QED
    BY <2>4, <2>5, <2>6
<1>4. \/ queue' = queue
      \/ /\ Len(queue[t]) < QueueMax
         /\ queue' = [queue EXCEPT ![t] = Append(queue[t], batch[t])]
  BY DEF Flush, EnqueueIfCurrent, Enqueue
<1>5. /\ Append(queue[t], batch[t]) \in Seq(Seq(Packet))
      /\ Len(Append(queue[t], batch[t])) = Len(queue[t]) + 1
      /\ Len(queue[t]) \in Nat
  BY <1>1, AppendProperties, LenProperties DEF TypeOK
<1>6. QueueMax \in Nat
  BY OpusAssumption
<1>7. /\ queue' \in [Targets -> Seq(Seq(Packet))]
      /\ \A u \in Targets : Len(queue'[u]) <= QueueMax
  <2>1. CASE queue' = queue
    BY <2>1 DEF TypeOK
  <2>2. CASE /\ Len(queue[t]) < QueueMax
             /\ queue' = [queue EXCEPT ![t] = Append(queue[t], batch[t])]
    <3>1. queue'[t] = Append(queue[t], batch[t])
      BY <2>2 DEF TypeOK
    <3>2. \A u \in Targets : u # t => queue'[u] = queue[u]
      BY <2>2 DEF TypeOK
    <3>3. Len(queue'[t]) <= QueueMax
      BY <1>5, <1>6, <2>2, <3>1
    <3> QED
      BY <1>5, <2>2, <3>2, <3>3 DEF TypeOK
  <2> QED
    BY <1>4, <2>1, <2>2
<1> QED
  BY <1>1, <1>3, <1>7 DEF TypeOK, Flush, FlushOrSelect, sendVars, fixed

LEMMA TypeConsumer ==
  ASSUME TypeOK, NEW t \in Targets,
         \/ Take(t) \/ Quit(t) \/ Succeeds(t) \/ Retry(t) \/ GivesUp(t)
  PROVE  TypeOK'
<1>1. UNCHANGED <<job, current, stop, known, loopVars, cancelled, drops>>
  BY DEF Take, Quit, Succeeds, Retry, GivesUp, fixed
<1>2. sending[t] \in Seq(Packet) /\ Len(sending[t]) \in Nat
  BY LenProperties DEF TypeOK
<1>3. Append(arrived[t], sending[t]) \in Seq(Seq(Packet))
  BY <1>2, AppendProperties DEF TypeOK
<1>4. arrived' \in [Targets -> Seq(Seq(Packet))]
  <2>1. arrived' = arrived
        \/ arrived' = [arrived EXCEPT ![t] = Append(arrived[t], sending[t])]
    BY DEF Take, Quit, Succeeds, Retry, GivesUp, AttemptFails, Arrives
  <2> QED
    BY <1>3, <2>1 DEF TypeOK
<1>5. /\ consumer' \in [Targets -> {"idle", "sending", "ended"}]
      /\ attempt' \in [Targets -> Nat]
  <2>1. /\ consumer \in [Targets -> {"idle", "sending", "ended"}]
        /\ attempt \in [Targets -> Nat]
    BY DEF TypeOK
  <2>2. /\ \/ consumer' = consumer
           \/ \E c \in {"idle", "sending", "ended"} :
                consumer' = [consumer EXCEPT ![t] = c]
        /\ \/ attempt' = attempt
           \/ attempt' = [attempt EXCEPT ![t] = 0]
           \/ attempt' = [attempt EXCEPT ![t] = 1]
           \/ attempt' = [attempt EXCEPT ![t] = @ + 1]
    BY DEF Take, Quit, Succeeds, Retry, GivesUp, Returned
  <2> QED
    BY <2>1, <2>2
<1>6. /\ forwarded' \in [Targets -> Nat] /\ failed' \in [Targets -> Nat]
      /\ errors' \in [Targets -> Nat]
  <2>1. /\ forwarded \in [Targets -> Nat] /\ failed \in [Targets -> Nat]
        /\ errors \in [Targets -> Nat]
    BY DEF TypeOK
  <2>2. /\ \/ forwarded' = forwarded
           \/ forwarded' =
                [forwarded EXCEPT ![t] = forwarded[t] + Len(sending[t])]
        /\ \/ failed' = failed
           \/ failed' = [failed EXCEPT ![t] = failed[t] + Len(sending[t])]
        /\ \/ errors' = errors
           \/ errors' = [errors EXCEPT ![t] = errors[t] + 1]
    BY DEF Take, Quit, Succeeds, Retry, GivesUp, RecordFailure, RecordError
  <2>3. /\ forwarded[t] + Len(sending[t]) \in Nat
        /\ failed[t] + Len(sending[t]) \in Nat
    BY <1>2, <2>1
  <2>4. forwarded' \in [Targets -> Nat]
    BY <2>1, <2>2, <2>3
  <2>5. failed' \in [Targets -> Nat]
    BY <2>1, <2>2, <2>3
  <2>6. errors' \in [Targets -> Nat]
    BY <2>1, <2>2
  <2> QED
    BY <2>4, <2>5, <2>6
<1>7. /\ queue' \in [Targets -> Seq(Seq(Packet))]
      /\ \A u \in Targets : Len(queue'[u]) <= QueueMax
      /\ sending' \in [Targets -> Seq(Packet)]
  <2>1. CASE Take(t)
    <3>1. queue[t] \in Seq(Seq(Packet)) /\ queue[t] # <<>>
      BY <2>1 DEF TypeOK, Take
    <3>2. /\ Head(queue[t]) \in Seq(Packet)
          /\ Tail(queue[t]) \in Seq(Seq(Packet))
          /\ Len(Tail(queue[t])) = Len(queue[t]) - 1
          /\ Len(queue[t]) \in Nat
      BY <3>1, HeadTailProperties, LenProperties
    <3>3. QueueMax \in Nat /\ Len(queue[t]) <= QueueMax
      BY OpusAssumption DEF TypeOK
    <3>4. queue' = [queue EXCEPT ![t] = Tail(queue[t])]
      BY <2>1 DEF Take
    <3>5. queue'[t] = Tail(queue[t])
          /\ \A u \in Targets : u # t => queue'[u] = queue[u]
      BY <3>4 DEF TypeOK
    <3>6. \A u \in Targets : Len(queue'[u]) <= QueueMax
      <4>1. Len(queue'[t]) <= QueueMax
        BY <3>2, <3>3, <3>5
      <4>2. \A u \in Targets : Len(queue[u]) <= QueueMax
        BY DEF TypeOK
      <4> QED
        BY <3>5, <4>1, <4>2
    <3>7. queue \in [Targets -> Seq(Seq(Packet))]
          /\ sending \in [Targets -> Seq(Packet)]
      BY DEF TypeOK
    <3>8. sending' = sending
          \/ sending' = [sending EXCEPT ![t] = Head(queue[t])]
      BY <2>1 DEF Take
    <3> QED
      BY <3>2, <3>4, <3>6, <3>7, <3>8
  <2>2. CASE Quit(t) \/ Succeeds(t) \/ Retry(t) \/ GivesUp(t)
    <3>1. /\ queue' = queue
          /\ sending' = sending \/ sending' = [sending EXCEPT ![t] = <<>>]
      BY <2>2 DEF Quit, Succeeds, Retry, GivesUp, Returned
    <3>2. /\ queue \in [Targets -> Seq(Seq(Packet))]
          /\ \A u \in Targets : Len(queue[u]) <= QueueMax
          /\ sending \in [Targets -> Seq(Packet)]
      BY DEF TypeOK
    <3> QED
      BY <3>1, <3>2, EmptySeq
  <2> QED
    BY <2>1, <2>2
<1> QED
  BY <1>1, <1>4, <1>5, <1>6, <1>7 DEF TypeOK, loopVars

LEMMA TypeOther ==
  ASSUME TypeOK,
         \/ Disconnected \/ StopSeen \/ NotCurrent \/ ReceiveClosed \/ Ended
         \/ Monitor \/ Visited
         \/ \E s \in SSRCs : SpeakerKnown(s)
         \/ \E d \in SUBSET job.targets, fb \in BOOLEAN : Tick(d, fb)
         \/ UNCHANGED vars
  PROVE  TypeOK'
<1> USE EmptySeq
<1>0. [s \in SSRCs |-> 0] \in [SSRCs -> Nat]
  OBVIOUS
<1>1. CASE Disconnected \/ Monitor \/ UNCHANGED vars \/ Ended
  <2>1. CASE Disconnected
    <3>1. known' \in [SSRCs -> Nat]
      BY <1>0, <2>1 DEF Disconnected
    <3> QED
      BY <2>1, <3>1 DEF Disconnected, TypeOK, loopVars, sendVars, fixed
  <2>2. CASE Monitor
    BY <2>2 DEF Monitor, TypeOK, loopVars, sendVars, fixed
  <2>3. CASE UNCHANGED vars
    BY <2>3 DEF TypeOK, vars, loopVars, sendVars
  <2>4. CASE Ended
    BY <2>4 DEF Ended, TypeOK, sendVars, fixed
  <2> QED
    BY <1>1, <2>1, <2>2, <2>3, <2>4
<1>2. CASE StopSeen \/ NotCurrent \/ ReceiveClosed
  <2>1. Return
    BY <1>2 DEF StopSeen, NotCurrent, ReceiveClosed
  <2>2. /\ UNCHANGED stop /\ current' \in BOOLEAN
        /\ known' \in [SSRCs -> Nat]
    BY <1>0, <1>2 DEF StopSeen, NotCurrent, ReceiveClosed, TypeOK
  <2>3. /\ batch' \in [Targets -> Seq(Packet)]
        /\ unresolved' \in [SSRCs -> Seq(Packet)]
    BY <2>1 DEF Return
  <2> QED
    BY <2>1, <2>2, <2>3 DEF Return, TypeOK, sendVars, fixed
<1>3. CASE Visited
  <2>1. batch["caption"] \o pending \in Seq(Packet)
    BY ConcatProperties DEF TypeOK, Targets
  <2>2. batch' \in [Targets -> Seq(Packet)]
    BY <1>3, <2>1 DEF Visited, TypeOK
  <2>3. due' \subseteq Targets
    BY <1>3 DEF Visited, TypeOK, Full
  <2>4. pending' \in Seq(Packet) /\ Len(pending') <= 1
    BY <1>3 DEF Visited
  <2> QED
    BY <1>3, <2>2, <2>3, <2>4
       DEF Visited, TypeOK, FlushOrSelect, sendVars, fixed
<1>4. ASSUME NEW s \in SSRCs, SpeakerKnown(s) PROVE TypeOK'
  BY <1>4 DEF SpeakerKnown, TypeOK, loopVars, sendVars, fixed
<1>5. ASSUME NEW d \in SUBSET job.targets, NEW fb \in BOOLEAN, Tick(d, fb)
      PROVE  TypeOK'
  <2>1. d \subseteq Targets
    BY DEF TypeOK, JobKinds, Targets
  <2>2. Waiting \subseteq SSRCs
    BY DEF Waiting
  <2>3. pending' \in Seq(Packet) /\ Len(pending') <= 1
    BY <1>5 DEF Tick
  <2>4. visit' \subseteq SSRCs /\ due' \subseteq Targets
        /\ fallback' \in BOOLEAN /\ loop' = "release"
    BY <1>5, <2>1, <2>2 DEF Tick
  <2>5. UNCHANGED <<job, current, stop, known, heard, batch, unresolved,
                    overflow, cancelled, queue, consumer, sending, attempt,
                    forwarded, arrived, drops, failed, errors>>
    BY <1>5 DEF Tick, sendVars, fixed
  <2> QED
    BY <2>3, <2>4, <2>5 DEF TypeOK
<1> QED
  BY <1>1, <1>2, <1>3, <1>4, <1>5

LEMMA TypeStep == TypeOK /\ [Next]_vars => TypeOK'
<1> SUFFICES ASSUME TypeOK, [Next]_vars PROVE TypeOK'
  OBVIOUS
<1> QED
  BY TypeReceive, TypeVisit, TypeFlush, TypeConsumer, TypeOther DEF Next

\* Every reachable state has its types: no queue is longer than
\* opusForwardQueueBatches, and at most one packet is about to be appended.
THEOREM TypeCorrect == Spec => []TypeOK
BY TypeInit, TypeStep, PTL DEF Spec

-----------------------------------------------------------------------------
(* Moving packets along the line.                                          *)

Batches == Seq(Packet)

\* Where an element of a concatenation comes from.
LEMMA ConcatElements ==
  ASSUME NEW b \in Batches, NEW c \in Batches,
         NEW i \in DOMAIN (b \o c)
  PROVE  \/ i \in DOMAIN b /\ (b \o c)[i] = b[i]
         \/ /\ i > Len(b) /\ i - Len(b) \in DOMAIN c
            /\ (b \o c)[i] = c[i - Len(b)]
<1>1. /\ b \o c \in Seq(Packet) /\ Len(b \o c) = Len(b) + Len(c)
      /\ \A k \in 1 .. Len(b) + Len(c) :
           (b \o c)[k] = IF k <= Len(b) THEN b[k] ELSE c[k - Len(b)]
  BY ConcatProperties DEF Batches
<1>2. /\ Len(b) \in Nat /\ DOMAIN b = 1 .. Len(b)
      /\ Len(c) \in Nat /\ DOMAIN c = 1 .. Len(c)
      /\ DOMAIN (b \o c) = 1 .. Len(b) + Len(c)
  BY <1>1, LenProperties DEF Batches
<1> QED
  BY <1>1, <1>2

LEMMA EmptyBatch ==
  ASSUME NEW t, NEW h, NEW a, NEW x, NEW q, NEW c
  PROVE  Ready(t, h, a, x, q, <<>>) /\ Before(t, <<>>, c)
         /\ Before(t, c, <<>>)
<1>1. DOMAIN <<>> = {}
  OBVIOUS
<1> QED
  BY <1>1 DEF Ready, Heard, InOrder, Follows, Before

LEMMA ConcatBefore ==
  ASSUME NEW t, NEW b \in Batches, NEW c \in Batches, NEW d,
         Before(t, b, d), Before(t, c, d)
  PROVE  Before(t, b \o c, d)
BY ConcatElements DEF Before

LEMMA ConcatAfter ==
  ASSUME NEW t, NEW b \in Batches, NEW c \in Batches, NEW d,
         Before(t, d, b), Before(t, d, c)
  PROVE  Before(t, d, b \o c)
BY ConcatElements DEF Before

LEMMA ConcatInOrder ==
  ASSUME NEW t, NEW b \in Batches, NEW c \in Batches,
         InOrder(t, b), InOrder(t, c), Before(t, b, c)
  PROVE  InOrder(t, b \o c)
<1> SUFFICES ASSUME NEW i \in DOMAIN (b \o c), NEW j \in DOMAIN (b \o c),
                    i < j, Flow(t, (b \o c)[i], (b \o c)[j])
             PROVE  (b \o c)[i].n < (b \o c)[j].n
  BY DEF InOrder
<1>1. /\ Len(b) \in Nat /\ DOMAIN b = 1 .. Len(b)
      /\ Len(c) \in Nat /\ DOMAIN c = 1 .. Len(c)
  BY LenProperties DEF Batches
<1>2. CASE i \in DOMAIN b /\ (b \o c)[i] = b[i]
  <2>1. CASE j \in DOMAIN b /\ (b \o c)[j] = b[j]
    BY <1>2, <2>1 DEF InOrder
  <2>2. CASE j - Len(b) \in DOMAIN c /\ (b \o c)[j] = c[j - Len(b)]
    BY <1>2, <2>2 DEF Before
  <2> QED
    BY <2>1, <2>2, ConcatElements
<1>3. CASE /\ i > Len(b) /\ i - Len(b) \in DOMAIN c
           /\ (b \o c)[i] = c[i - Len(b)]
  <2>1. i \in Int /\ j \in Int
    <3>1. b \o c \in Seq(Packet)
      BY ConcatProperties DEF Batches
    <3> QED
      BY <3>1, LenProperties
  <2>2. j \notin DOMAIN b
    BY <1>1, <1>3, <2>1
  <2>3. j - Len(b) \in DOMAIN c /\ (b \o c)[j] = c[j - Len(b)]
    BY <2>2, ConcatElements
  <2>4. i - Len(b) < j - Len(b)
    BY <1>1, <2>1
  <2> QED
    BY <1>3, <2>3, <2>4 DEF InOrder
<1> QED
  BY <1>2, <1>3, ConcatElements

\* A ready batch may be followed by another that is later than it.
LEMMA ConcatReady ==
  ASSUME NEW t, NEW h, NEW a, NEW x, NEW q,
         NEW b \in Batches, NEW c \in Batches,
         Ready(t, h, a, x, q, b), Ready(t, h, a, x, q, c), Before(t, b, c)
  PROVE  Ready(t, h, a, x, q, b \o c)
<1>1. InOrder(t, b \o c)
  BY ConcatInOrder DEF Ready
<1>2. Heard(h, b \o c)
  BY ConcatElements DEF Ready, Heard
<1>3. Follows(t, a, x, q, b \o c)
  BY ConcatAfter DEF Ready, Follows
<1> QED
  BY <1>1, <1>2, <1>3 DEF Ready

\* The consumer takes the first batch of its queue.
LEMMA TakeLine ==
  ASSUME NEW t, NEW h, NEW a, NEW x, NEW q \in Seq(Batches), q # <<>>,
         Sent(t, h, a, x, q)
  PROVE  /\ Sent(t, h, a, x, Tail(q))
         /\ Sent(t, h, a, Head(q), Tail(q))
         /\ \A b : Ready(t, h, a, x, q, b) =>
              /\ Ready(t, h, a, x, Tail(q), b)
              /\ Ready(t, h, a, Head(q), Tail(q), b)
<1>1. /\ Len(q) \in Nat /\ DOMAIN q = 1 .. Len(q) /\ Len(q) > 0
      /\ Tail(q) \in Seq(Batches) /\ Len(Tail(q)) = Len(q) - 1
      /\ \A i \in 1 .. Len(q) - 1 : Tail(q)[i] = q[i + 1]
      /\ Head(q) = q[1]
  BY HeadTailProperties, LenProperties, EmptySeq
<1>2. DOMAIN Tail(q) = 1 .. Len(q) - 1
  BY <1>1, LenProperties
<1> DEFINE r == Tail(q)
<1>3. /\ 1 \in DOMAIN q /\ Head(q) = q[1]
      /\ \A i \in DOMAIN r : /\ i + 1 \in DOMAIN q /\ r[i] = q[i + 1]
                             /\ 1 < i + 1
      /\ \A i, j \in DOMAIN r : i < j => i + 1 < j + 1
  BY <1>1, <1>2
<1> HIDE DEF r
<1>4. AllHeard(h, a, x, r) /\ AllHeard(h, a, Head(q), r)
  BY <1>3 DEF Sent, AllHeard
<1>5. QueueInOrder(t, a, x, r) /\ QueueInOrder(t, a, Head(q), r)
  BY <1>3 DEF Sent, QueueInOrder
<1>6. SendingInOrder(t, a, x) /\ SendingInOrder(t, a, Head(q))
  BY <1>3 DEF Sent, SendingInOrder, QueueInOrder
<1>7. ASSUME NEW b, Ready(t, h, a, x, q, b)
      PROVE  Ready(t, h, a, x, r, b) /\ Ready(t, h, a, Head(q), r, b)
  BY <1>3, <1>7 DEF Ready, Follows
<1> QED
  BY <1>4, <1>5, <1>6, <1>7 DEF Sent, r

\* The batch that is sent arrives, and stays or not.
LEMMA ArriveLine ==
  ASSUME NEW t, NEW h, NEW a \in Seq(Batches), NEW x \in Batches, NEW q,
         Sent(t, h, a, x, q)
  PROVE  /\ Sent(t, h, Append(a, x), x, q)
         /\ \A b : Ready(t, h, a, x, q, b) =>
                     Ready(t, h, Append(a, x), x, q, b)
<1> DEFINE e == Append(a, x)
<1>1. /\ Len(a) \in Nat /\ DOMAIN a = 1 .. Len(a)
      /\ DOMAIN e = 1 .. Len(a) + 1 /\ Len(e) = Len(a) + 1
      /\ \A k \in 1 .. Len(a) : e[k] = a[k]
      /\ e[Len(a) + 1] = x
  BY AppendProperties, LenProperties
<1>2. \A k \in DOMAIN e : e[k] = x \/ (k \in DOMAIN a /\ e[k] = a[k])
  BY <1>1
<1>3. e # <<>> /\ e[Len(e)] = x
  BY <1>1
<1> HIDE DEF e
<1>4. AllHeard(h, e, x, q)
  BY <1>2 DEF Sent, AllHeard
<1>5. QueueInOrder(t, e, x, q)
  BY <1>2 DEF Sent, QueueInOrder
<1>6. SendingInOrder(t, e, x)
  BY <1>3 DEF Sent, SendingInOrder
<1>7. ASSUME NEW b, Ready(t, h, a, x, q, b) PROVE Ready(t, h, e, x, q, b)
  BY <1>2, <1>7 DEF Ready, Follows
<1> QED
  BY <1>4, <1>5, <1>6, <1>7 DEF Sent, e

\* The request is over.
LEMMA ReturnLine ==
  ASSUME NEW t, NEW h, NEW a, NEW x, NEW q, Sent(t, h, a, x, q)
  PROVE  /\ Sent(t, h, a, <<>>, q)
         /\ \A b : Ready(t, h, a, x, q, b) => Ready(t, h, a, <<>>, q, b)
<1>1. \A b : Before(t, <<>>, b) /\ Before(t, b, <<>>)
  BY EmptyBatch
<1>2. Heard(h, <<>>) /\ InOrder(t, <<>>)
  BY EmptyBatch DEF Ready
<1>3. AllHeard(h, a, <<>>, q)
  BY <1>2 DEF Sent, AllHeard
<1>4. SendingInOrder(t, a, <<>>)
  BY <1>1, <1>2 DEF SendingInOrder
<1>5. QueueInOrder(t, a, <<>>, q)
  BY <1>1 DEF Sent, QueueInOrder
<1>6. ASSUME NEW b, Ready(t, h, a, x, q, b)
      PROVE  Ready(t, h, a, <<>>, q, b)
  BY <1>1, <1>6 DEF Ready, Follows
<1> QED
  BY <1>3, <1>4, <1>5, <1>6 DEF Sent

\* A ready batch is enqueued.
LEMMA EnqueueLine ==
  ASSUME NEW t, NEW h, NEW a, NEW x, NEW q \in Seq(Batches),
         NEW b \in Batches,
         Sent(t, h, a, x, q), Ready(t, h, a, x, q, b)
  PROVE  /\ Sent(t, h, a, x, Append(q, b))
         /\ \A c : Ready(t, h, a, x, q, c) /\ Before(t, b, c) =>
                     Ready(t, h, a, x, Append(q, b), c)
<1> DEFINE r == Append(q, b)
<1>1. /\ Len(q) \in Nat /\ DOMAIN q = 1 .. Len(q)
      /\ DOMAIN r = 1 .. Len(q) + 1
      /\ \A k \in 1 .. Len(q) : r[k] = q[k]
      /\ r[Len(q) + 1] = b
  BY AppendProperties, LenProperties
<1>2. \A k \in DOMAIN r :
        \/ k = Len(q) + 1 /\ r[k] = b
        \/ k \in DOMAIN q /\ r[k] = q[k]
  BY <1>1
<1>3. \A j, k \in DOMAIN r : j < k => j \in DOMAIN q /\ r[j] = q[j]
  BY <1>1
<1>4. \A k \in DOMAIN r : r[k] = b \/ (k \in DOMAIN q /\ r[k] = q[k])
  BY <1>2
<1> HIDE DEF r
<1>5. AllHeard(h, a, x, r)
  BY <1>4 DEF Sent, AllHeard, Ready
<1>6. ASSUME NEW i \in DOMAIN r
      PROVE  /\ InOrder(t, r[i]) /\ Before(t, x, r[i])
             /\ \A k \in DOMAIN a : Before(t, a[k], r[i])
  BY <1>4 DEF Sent, QueueInOrder, Ready, Follows
<1>7. ASSUME NEW i \in DOMAIN r, NEW j \in DOMAIN r, i < j
      PROVE  Before(t, r[i], r[j])
  <2>1. i \in DOMAIN q /\ r[i] = q[i]
    BY <1>3, <1>7
  <2>2. CASE r[j] = b
    BY <2>1, <2>2 DEF Ready, Follows
  <2>3. CASE j \in DOMAIN q /\ r[j] = q[j]
    BY <1>7, <2>1, <2>3 DEF Sent, QueueInOrder
  <2> QED
    BY <1>4, <2>2, <2>3
<1>8. QueueInOrder(t, a, x, r)
  BY <1>6, <1>7 DEF QueueInOrder
<1>9. ASSUME NEW c, Ready(t, h, a, x, q, c), Before(t, b, c)
      PROVE  Ready(t, h, a, x, r, c)
  BY <1>4, <1>9 DEF Ready, Follows
<1> QED
  BY <1>5, <1>8, <1>9 DEF Sent, r

\* A packet is heard: what was heard remains so, and it is the latest.
LEMMA HearLine ==
  ASSUME NEW t, NEW h \in Seq(SSRCs), NEW s \in SSRCs, NEW u \in Users,
         NEW a, NEW x, NEW q, Sent(t, h, a, x, q),
         \A k \in DOMAIN a : a[k] \in Batches, x \in Batches,
         \A i \in DOMAIN q : q[i] \in Batches
  PROVE  LET e == Append(h, s)
             p == [n |-> Len(h) + 1, ssrc |-> s, user |-> u]
         IN  /\ Sent(t, e, a, x, q)
             /\ \A b : Ready(t, h, a, x, q, b) => Ready(t, e, a, x, q, b)
             /\ Ready(t, e, a, x, q, <<p>>)
             /\ \A b \in Batches : Heard(h, b) => Before(t, b, <<p>>)
<1> DEFINE e == Append(h, s)
           p == [n |-> Len(h) + 1, ssrc |-> s, user |-> u]
<1>1. /\ Len(h) \in Nat /\ DOMAIN h = 1 .. Len(h)
      /\ DOMAIN e = 1 .. Len(h) + 1
      /\ \A k \in 1 .. Len(h) : e[k] = h[k]
      /\ e[Len(h) + 1] = s
  BY AppendProperties, LenProperties
<1>2. DOMAIN <<p>> = {1} /\ <<p>>[1] = p /\ p.n = Len(h) + 1 /\ p.ssrc = s
  OBVIOUS
<1>3. Len(h) + 1 \in DOMAIN e
  BY <1>1
<1>4. \A k \in DOMAIN h : k \in DOMAIN e /\ e[k] = h[k]
  BY <1>1
<1> HIDE DEF p, e
<1>5. \A b : Heard(h, b) => Heard(e, b)
  BY <1>4 DEF Heard
<1>6. ASSUME NEW b \in Batches, Heard(h, b) PROVE Before(t, b, <<p>>)
  <2>1. \A i \in DOMAIN b : b[i].n \in 1 .. Len(h)
    BY <1>1, <1>6 DEF Heard
  <2>2. \A i \in DOMAIN b : b[i].n < Len(h) + 1
    BY <1>1, <2>1
  <2> QED
    BY <1>2, <2>2 DEF Before
<1>7. Sent(t, e, a, x, q)
  BY <1>5 DEF Sent, AllHeard
<1>8. \A b : Ready(t, h, a, x, q, b) => Ready(t, e, a, x, q, b)
  BY <1>5 DEF Ready
<1>9. Ready(t, e, a, x, q, <<p>>)
  <2>1. Heard(e, <<p>>)
    BY <1>1, <1>2, <1>3 DEF Heard
  <2>2. InOrder(t, <<p>>)
    BY <1>2 DEF InOrder
  <2>3. Follows(t, a, x, q, <<p>>)
    BY <1>6 DEF Follows, Sent, AllHeard
  <2> QED
    BY <2>1, <2>2, <2>3 DEF Ready
<1> QED
  BY <1>6, <1>7, <1>8, <1>9 DEF e, p

\* Naming the speaker of packets moves nothing.
LEMMA RelabelLine ==
  ASSUME NEW t, NEW h, NEW a, NEW x, NEW q, NEW b \in Batches,
         NEW u \in Users
  PROVE  LET R == [i \in DOMAIN b |-> [b[i] EXCEPT !.user = u]]
         IN  /\ Ready(t, h, a, x, q, b) => Ready(t, h, a, x, q, R)
             /\ \A c : Before(t, b, c) => Before(t, R, c)
             /\ \A c : Before(t, c, b) => Before(t, c, R)
<1> DEFINE R == [i \in DOMAIN b |-> [b[i] EXCEPT !.user = u]]
<1>1. /\ DOMAIN R = DOMAIN b
      /\ \A i \in DOMAIN b : R[i].n = b[i].n /\ R[i].ssrc = b[i].ssrc
  <2>1. b \in Seq(Packet)
    BY DEF Batches
  <2>2. \A i \in DOMAIN b :
          /\ [b[i] EXCEPT !.user = u].n = b[i].n
          /\ [b[i] EXCEPT !.user = u].ssrc = b[i].ssrc
    BY <2>1, Relabelled
  <2>3. DOMAIN R = DOMAIN b
        /\ \A i \in DOMAIN b : R[i] = [b[i] EXCEPT !.user = u]
    OBVIOUS
  <2> QED
    BY <2>2, <2>3
<1> HIDE DEF R
<1>2. \A c : Before(t, b, c) => Before(t, R, c)
  BY <1>1 DEF Before, Flow
<1>3. \A c : Before(t, c, b) => Before(t, c, R)
  BY <1>1 DEF Before, Flow
<1>4. Heard(h, b) => Heard(h, R)
  BY <1>1 DEF Heard
<1>5. InOrder(t, b) => InOrder(t, R)
  BY <1>1 DEF InOrder, Flow
<1>6. Ready(t, h, a, x, q, b) => Ready(t, h, a, x, q, R)
  BY <1>3, <1>4, <1>5 DEF Ready, Follows
<1> QED
  BY <1>2, <1>3, <1>6 DEF R

-----------------------------------------------------------------------------
(* The steps.                                                              *)

LEMMA LineInit == Init => LineInv
<1> SUFFICES ASSUME Init PROVE LineInv
  OBVIOUS
<1>1. DOMAIN <<>> = {}
  OBVIOUS
<1>2. ASSUME NEW t \in Targets PROVE SentInv(t)
  <2>1. /\ arrived[t] = <<>> /\ sending[t] = <<>> /\ queue[t] = <<>>
    BY DEF Init
  <2>2. Heard(heard, <<>>) /\ InOrder(t, <<>>)
    BY EmptyBatch DEF Ready
  <2> QED
    BY <1>1, <2>1, <2>2
       DEF SentInv, Sent, AllHeard, SendingInOrder, QueueInOrder
<1>3. \A t \in Targets : MayEnqueue(t, batch[t])
  BY EmptyBatch DEF Init, MayEnqueue
<1>4. WaitingInv
  <2>1. \A s \in SSRCs : unresolved[s] = <<>>
    BY DEF Init
  <2> QED
    BY <1>1, <2>1, EmptyBatch DEF WaitingInv, MayEnqueue
<1>5. PendingInv
  BY <1>1, EmptyBatch DEF Init, PendingInv, MayEnqueue
<1>6. EndedInv
  BY DEF Init, EndedInv
<1> QED
  BY <1>2, <1>3, <1>4, <1>5, <1>6 DEF LineInv, LoopInv

\* What the loop holds stays in line when only the consumers move.
LEMMA LoopKept ==
  ASSUME LoopInv,
         UNCHANGED <<job, known, loop, visit, fallback, pending, batch,
                     unresolved>>,
         \A t \in Targets : \A b : MayEnqueue(t, b) =>
           Ready(t, heard', arrived'[t], sending'[t], queue'[t], b)
  PROVE  LoopInv'
<1>1. "caption" \in Targets
  BY DEF Targets
<1>2. (\A t \in Targets : MayEnqueue(t, batch[t]))'
  BY DEF LoopInv, MayEnqueue
<1>3. WaitingInv'
  BY <1>1 DEF LoopInv, WaitingInv, MayEnqueue
<1>4. PendingInv'
  <2>1. MayEnqueue("caption", pending)'
    BY <1>1 DEF LoopInv, PendingInv, MayEnqueue
  <2> QED
    BY <2>1 DEF LoopInv, PendingInv, Findable
<1> QED
  BY <1>2, <1>3, <1>4 DEF LoopInv

LEMMA LineConsumer ==
  ASSUME TypeOK, LineInv, NEW t \in Targets,
         \/ Take(t) \/ Quit(t) \/ Succeeds(t) \/ Retry(t) \/ GivesUp(t)
  PROVE  LineInv'
<1> DEFINE a == arrived[t]
           x == sending[t]
           q == queue[t]
           After(e, y, r) ==
             /\ Sent(t, heard, e, y, r)
             /\ \A b : MayEnqueue(t, b) => Ready(t, heard, e, y, r, b)
<1>1. UNCHANGED <<job, current, stop, known, loopVars>>
  BY DEF Take, Quit, Succeeds, Retry, GivesUp, fixed
<1>2. /\ arrived \in [Targets -> Seq(Batches)]
      /\ sending \in [Targets -> Batches]
      /\ queue \in [Targets -> Seq(Batches)]
      /\ consumer \in [Targets -> {"idle", "sending", "ended"}]
  BY DEF TypeOK, Batches
<1>3. \A u \in Targets : u # t =>
        /\ arrived'[u] = arrived[u] /\ sending'[u] = sending[u]
        /\ queue'[u] = queue[u]
  BY <1>2 DEF Take, Quit, Succeeds, Retry, GivesUp, Returned, Arrives,
              AttemptFails
<1>4. Sent(t, heard, a, x, q) /\ \A u \in Targets : SentInv(u)
  BY DEF LineInv, SentInv
<1>5. After(a, x, q) /\ After(a, <<>>, q)
  BY <1>4, ReturnLine DEF MayEnqueue
<1>6. After(Append(a, x), x, q) /\ After(Append(a, x), <<>>, q)
  <2>1. After(Append(a, x), x, q)
    BY <1>2, <1>4, ArriveLine DEF MayEnqueue
  <2> QED
    BY <2>1, ReturnLine
<1>7. q # <<>> => After(a, x, Tail(q)) /\ After(a, Head(q), Tail(q))
  BY <1>2, <1>4, TakeLine DEF MayEnqueue
<1>8. \/ arrived'[t] = a /\ sending'[t] = x /\ queue'[t] = q
      \/ arrived'[t] = a /\ sending'[t] = <<>> /\ queue'[t] = q
      \/ arrived'[t] = Append(a, x) /\ sending'[t] = x /\ queue'[t] = q
      \/ arrived'[t] = Append(a, x) /\ sending'[t] = <<>> /\ queue'[t] = q
      \/ /\ q # <<>> /\ arrived'[t] = a /\ queue'[t] = Tail(q)
         /\ sending'[t] = x \/ sending'[t] = Head(q)
  <2>1. CASE Take(t)
    BY <1>2, <2>1 DEF Take
  <2>2. CASE Quit(t)
    BY <2>2 DEF Quit
  <2>3. CASE Succeeds(t)
    BY <1>2, <2>3 DEF Succeeds, Arrives, Returned
  <2>4. CASE Retry(t)
    BY <1>2, <2>4 DEF Retry, AttemptFails, Arrives
  <2>5. CASE GivesUp(t)
    BY <1>2, <2>5 DEF GivesUp, AttemptFails, Arrives, Returned
  <2> QED
    BY <2>1, <2>2, <2>3, <2>4, <2>5
<1> HIDE DEF a, x, q, After
<1>9. After(arrived'[t], sending'[t], queue'[t])
  BY <1>5, <1>6, <1>7, <1>8
<1>10. heard' = heard
  BY <1>1 DEF loopVars
<1>11. ASSUME NEW u \in Targets
       PROVE  /\ SentInv(u)'
              /\ \A b : MayEnqueue(u, b) =>
                   Ready(u, heard', arrived'[u], sending'[u], queue'[u], b)
  <2>1. CASE u = t
    BY <1>9, <1>10, <2>1 DEF After, SentInv
  <2>2. CASE u # t
    BY <1>3, <1>4, <1>10, <2>2 DEF SentInv, MayEnqueue
  <2> QED
    BY <2>1, <2>2
<1>12. current' => LoopInv'
  BY <1>1, <1>11, LoopKept DEF LineInv, loopVars
<1>13. EndedInv'
  <2>1. consumer[t] # "ended"
    BY DEF Take, Quit, Succeeds, Retry, GivesUp
  <2>2. loop # "ended"
    BY <2>1 DEF LineInv, EndedInv
  <2> QED
    BY <1>1, <2>2 DEF EndedInv, loopVars
<1> QED
  BY <1>11, <1>12, <1>13 DEF LineInv

\* The loop's steps leave the consumers alone.
SentStays == UNCHANGED <<heard, arrived, sending, queue>>

LEMMA SentKept ==
  ASSUME LineInv, SentStays
  PROVE  \A t \in Targets :
           /\ SentInv(t)'
           /\ \A b : MayEnqueue(t, b) =>
                Ready(t, heard', arrived'[t], sending'[t], queue'[t], b)
BY DEF LineInv, SentStays, SentInv, MayEnqueue

LEMMA LineSmall ==
  ASSUME TypeOK, LineInv,
         \/ Disconnected \/ Ended \/ Monitor \/ UNCHANGED vars
         \/ \E s \in SSRCs : SpeakerKnown(s)
         \/ \E d \in SUBSET job.targets, fb \in BOOLEAN : Tick(d, fb)
         \/ StopSeen \/ NotCurrent \/ ReceiveClosed
  PROVE  LineInv'
<1>0. SentStays
  BY DEF Disconnected, Ended, Monitor, SpeakerKnown, Tick, StopSeen,
         NotCurrent, ReceiveClosed, Return, vars, loopVars, sendVars,
         SentStays
<1>1. \A t \in Targets :
           /\ SentInv(t)'
           /\ \A b : MayEnqueue(t, b) =>
                Ready(t, heard', arrived'[t], sending'[t], queue'[t], b)
  BY <1>0, SentKept
<1>2. EndedInv'
  BY DEF LineInv, EndedInv, Disconnected, Ended, Monitor, SpeakerKnown, Tick,
         StopSeen, NotCurrent, ReceiveClosed, Return, vars, loopVars,
         sendVars
<1>3. CASE Disconnected
  BY <1>1, <1>2, <1>3 DEF LineInv, Disconnected
<1>4. CASE Monitor \/ UNCHANGED vars
  <2>1. current' = current /\ UNCHANGED <<job, known, loop, visit, fallback,
                                          pending, batch, unresolved>>
    BY <1>4 DEF Monitor, vars, loopVars, fixed
  <2> QED
    BY <1>1, <1>2, <2>1, LoopKept DEF LineInv
<1>5. CASE Ended
  <2>1. /\ current' = current /\ loop = "waiting"
        /\ UNCHANGED <<job, known, visit, fallback, pending, batch,
                       unresolved>>
    BY <1>5 DEF Ended, fixed
  <2>2. ASSUME current PROVE LoopInv'
    <3>1. LoopInv /\ pending = <<>> /\ "caption" \in Targets
      BY <2>1, <2>2 DEF LineInv, LoopInv, PendingInv, Targets
    <3>2. (\A t \in Targets : MayEnqueue(t, batch[t]))'
      BY <1>1, <2>1, <3>1 DEF LoopInv, MayEnqueue
    <3>3. WaitingInv'
      BY <1>1, <2>1, <3>1 DEF LoopInv, WaitingInv, MayEnqueue
    <3>4. MayEnqueue("caption", pending)'
      BY <1>1, <2>1, <3>1 DEF LoopInv, PendingInv, MayEnqueue
    <3>5. PendingInv'
      BY <2>1, <3>1, <3>4 DEF LoopInv, PendingInv, Findable
    <3> QED
      BY <3>2, <3>3, <3>5 DEF LoopInv
  <2> QED
    BY <1>1, <1>2, <2>1, <2>2 DEF LineInv
<1>6. ASSUME NEW s \in SSRCs, SpeakerKnown(s) PROVE LineInv'
  <2>0. \A v \in SSRCs : known[v] # 0 => known'[v] # 0
    <3>1. known \in [SSRCs -> Nat]
      BY DEF TypeOK
    <3>2. \A v \in SSRCs : known'[v] = IF v = s THEN known[v] + 1 ELSE known[v]
      BY <1>6, <3>1 DEF SpeakerKnown
    <3> QED
      BY <3>1, <3>2
  <2>1. /\ current' = current
        /\ UNCHANGED <<job, loop, visit, fallback, pending, batch,
                       unresolved>>
    BY <1>6 DEF SpeakerKnown, fixed, loopVars
  <2>2. ASSUME current PROVE LoopInv'
    <3>1. LoopInv /\ "caption" \in Targets
      BY <2>2 DEF LineInv, Targets
    <3>2. (\A t \in Targets : MayEnqueue(t, batch[t]))'
      BY <1>1, <2>1, <3>1 DEF LoopInv, MayEnqueue
    <3>3. WaitingInv'
      BY <1>1, <2>1, <3>1 DEF LoopInv, WaitingInv, MayEnqueue
    <3>4. MayEnqueue("caption", pending)'
      BY <1>1, <2>1, <3>1 DEF LoopInv, PendingInv, MayEnqueue
    <3>5. (\A i \in DOMAIN pending : Findable(pending[i]))'
      <4>1. \A i \in DOMAIN pending : pending[i].ssrc \in SSRCs
        <5>1. pending \in Seq(Packet)
          BY DEF TypeOK
        <5>2. \A i \in DOMAIN pending : pending[i] \in Packet
          BY <5>1, ElementOfSeq, LenProperties
        <5> QED
          BY <5>2 DEF Packet
      <4> QED
        BY <2>0, <2>1, <3>1, <4>1 DEF LoopInv, PendingInv, Findable
    <3>6. PendingInv'
      BY <2>1, <3>1, <3>4, <3>5 DEF LoopInv, PendingInv
    <3> QED
      BY <3>2, <3>3, <3>6 DEF LoopInv
  <2> QED
    BY <1>1, <1>2, <2>1, <2>2 DEF LineInv
<1>7. ASSUME NEW d \in SUBSET job.targets, NEW fb \in BOOLEAN, Tick(d, fb)
      PROVE  LineInv'
  <2>1. /\ current' = current /\ pending' = <<>>
        /\ UNCHANGED <<job, known, batch, unresolved>>
    BY <1>7 DEF Tick, fixed
  <2>2. ASSUME current PROVE LoopInv'
    <3>1. LoopInv /\ "caption" \in Targets
      BY <2>2 DEF LineInv, Targets
    <3>2. (\A t \in Targets : MayEnqueue(t, batch[t]))'
      BY <1>1, <2>1, <3>1 DEF LoopInv, MayEnqueue
    <3>3. WaitingInv'
      BY <1>1, <2>1, <3>1 DEF LoopInv, WaitingInv, MayEnqueue
    <3>4. MayEnqueue("caption", pending)' /\ DOMAIN pending' = {}
      BY <2>1, EmptyBatch DEF MayEnqueue
    <3>5. PendingInv'
      BY <2>1, <3>1, <3>4, EmptyBatch DEF LoopInv, PendingInv
    <3> QED
      BY <3>2, <3>3, <3>5 DEF LoopInv
  <2> QED
    BY <1>1, <1>2, <2>1, <2>2 DEF LineInv
<1>8. CASE StopSeen \/ NotCurrent \/ ReceiveClosed
  <2>1. /\ current' => current /\ pending = <<>> /\ pending' = pending
        /\ \A t \in Targets : batch'[t] = <<>>
        /\ \A s \in SSRCs : unresolved'[s] = <<>>
    <3>1. current' => current
      BY <1>8 DEF StopSeen, NotCurrent, ReceiveClosed
    <3>2. Return /\ loop = "select"
      BY <1>8 DEF StopSeen, NotCurrent, ReceiveClosed
    <3> QED
      BY <3>1, <3>2 DEF LineInv, LoopInv, PendingInv, Return
  <2>2. ASSUME current' PROVE LoopInv'
    <3>1. /\ "caption" \in Targets /\ DOMAIN <<>> = {}
          /\ pending' = <<>>
          /\ \A t \in Targets : batch'[t] = <<>>
          /\ \A s \in SSRCs : unresolved'[s] = <<>>
      BY <2>1, <2>2 DEF Targets
    <3>2. (\A t \in Targets : MayEnqueue(t, batch[t]))'
      BY <3>1, EmptyBatch DEF MayEnqueue
    <3>3. WaitingInv'
      BY <3>1, EmptyBatch DEF WaitingInv, MayEnqueue
    <3>4. PendingInv'
      BY <3>1, EmptyBatch DEF PendingInv, MayEnqueue
    <3> QED
      BY <3>2, <3>3, <3>4 DEF LoopInv
  <2> QED
    BY <1>1, <1>2, <2>2 DEF LineInv
<1> QED
  BY <1>3, <1>4, <1>5, <1>6, <1>7, <1>8

LEMMA LineFlush ==
  ASSUME TypeOK, LineInv, NEW t \in Targets, Flush(t)
  PROVE  LineInv'
<1>1. /\ UNCHANGED <<job, current, heard, known, visit, fallback, pending,
                     unresolved, arrived, sending, consumer>>
      /\ batch' = [batch EXCEPT ![t] = <<>>]
  BY DEF Flush, fixed, sendVars
<1>2. \/ queue' = queue
      \/ current /\ queue' = [queue EXCEPT ![t] = Append(queue[t], batch[t])]
  BY DEF Flush, EnqueueIfCurrent, Enqueue
<1>3. /\ queue \in [Targets -> Seq(Batches)]
      /\ batch \in [Targets -> Batches] /\ "caption" \in Targets
  BY DEF TypeOK, Batches, Targets
<1>4. /\ batch'[t] = <<>>
      /\ \A u \in Targets : u # t =>
           batch'[u] = batch[u] /\ queue'[u] = queue[u]
  BY <1>1, <1>2, <1>3
<1>5. \A u \in Targets : SentInv(u)
  BY DEF LineInv
<1>6. \/ queue'[t] = queue[t]
      \/ current /\ queue'[t] = Append(queue[t], batch[t])
  BY <1>2, <1>3
<1>7. /\ SentInv(t)'
      /\ \A b : MayEnqueue(t, b) /\ Before(t, batch[t], b) =>
           Ready(t, heard', arrived'[t], sending'[t], queue'[t], b)
  <2>1. CASE queue'[t] = queue[t]
    BY <1>1, <1>5, <2>1 DEF SentInv, MayEnqueue
  <2>2. CASE current /\ queue'[t] = Append(queue[t], batch[t])
    <3>1. Ready(t, heard, arrived[t], sending[t], queue[t], batch[t])
      BY <2>2 DEF LineInv, LoopInv, MayEnqueue
    <3>2. Sent(t, heard, arrived[t], sending[t], queue[t])
      BY <1>5 DEF SentInv
    <3>3. /\ Sent(t, heard, arrived[t], sending[t],
                  Append(queue[t], batch[t]))
          /\ \A c : Ready(t, heard, arrived[t], sending[t], queue[t], c)
                    /\ Before(t, batch[t], c) =>
               Ready(t, heard, arrived[t], sending[t],
                     Append(queue[t], batch[t]), c)
      BY <1>3, <3>1, <3>2, EnqueueLine
    <3> QED
      BY <1>1, <2>2, <3>3 DEF SentInv, MayEnqueue
  <2> QED
    BY <1>6, <2>1, <2>2
<1>8. ASSUME NEW u \in Targets, u # t
      PROVE  /\ SentInv(u)'
             /\ \A b : MayEnqueue(u, b) =>
                  Ready(u, heard', arrived'[u], sending'[u], queue'[u], b)
  BY <1>1, <1>4, <1>5, <1>8 DEF SentInv, MayEnqueue
<1>9. ASSUME current PROVE LoopInv'
  <2>1. LoopInv /\ pending = <<>> /\ pending' = <<>>
    BY <1>1, <1>9 DEF LineInv, LoopInv, PendingInv, Flush
  <2>2. ASSUME NEW u \in Targets PROVE MayEnqueue(u, batch[u])'
    <3>1. CASE u = t
      BY <1>4, <3>1, EmptyBatch DEF MayEnqueue
    <3>2. CASE u # t
      BY <1>4, <1>8, <2>1, <3>2 DEF LoopInv, MayEnqueue
    <3> QED
      BY <3>1, <3>2
  <2>3. ASSUME NEW s \in SSRCs
        PROVE  /\ MayEnqueue("caption", unresolved[s])'
               /\ Before("caption", batch'["caption"], unresolved[s])
    <3>1. /\ MayEnqueue("caption", unresolved[s])
          /\ Before("caption", batch["caption"], unresolved[s])
      BY <2>1 DEF LoopInv, WaitingInv
    <3>2. CASE t = "caption"
      BY <1>1, <1>4, <1>7, <3>1, <3>2, EmptyBatch DEF MayEnqueue
    <3>3. CASE t # "caption"
      BY <1>1, <1>3, <1>4, <1>8, <3>1, <3>3 DEF MayEnqueue
    <3> QED
      BY <3>2, <3>3
  <2>4. WaitingInv'
    BY <1>1, <2>1, <2>3 DEF LoopInv, WaitingInv
  <2>5. DOMAIN pending' = {}
    BY <2>1
  <2>6. PendingInv'
    BY <1>1, <2>1, <2>5, EmptyBatch DEF LoopInv, PendingInv, MayEnqueue
  <2> QED
    BY <2>2, <2>4, <2>6 DEF LoopInv
<1>10. EndedInv'
  BY DEF Flush, FlushOrSelect, EndedInv
<1> QED
  BY <1>1, <1>7, <1>8, <1>9, <1>10 DEF LineInv

LEMMA LineVisited ==
  ASSUME TypeOK, LineInv, Visited
  PROVE  LineInv'
<1> DEFINE B == batch["caption"]
<1>1. /\ UNCHANGED <<job, current, known, heard, visit, unresolved, arrived,
                     sending, queue, consumer>>
      /\ pending' = <<>> /\ visit = {} /\ loop = "release"
      /\ batch' = [batch EXCEPT !["caption"] = B \o pending]
  BY DEF Visited, fixed, sendVars
<1>2. \A t \in Targets :
           /\ SentInv(t)'
           /\ \A b : MayEnqueue(t, b) =>
                Ready(t, heard', arrived'[t], sending'[t], queue'[t], b)
  BY <1>1, SentKept DEF SentStays
<1>3. /\ batch \in [Targets -> Batches] /\ pending \in Batches
      /\ B \in Batches /\ "caption" \in Targets
      /\ unresolved \in [SSRCs -> Batches]
  BY DEF TypeOK, Batches, Targets
<1>4. /\ batch'["caption"] = B \o pending
      /\ \A u \in Targets : u # "caption" => batch'[u] = batch[u]
  BY <1>1, <1>3
<1>5. ASSUME current PROVE LoopInv'
  <2>1. LoopInv
    BY <1>5 DEF LineInv
  <2>2. /\ MayEnqueue("caption", B) /\ MayEnqueue("caption", pending)
        /\ Before("caption", B, pending)
    BY <1>3, <2>1 DEF LoopInv, PendingInv
  <2>3. MayEnqueue("caption", B \o pending)
    BY <1>3, <2>2, ConcatReady DEF MayEnqueue
  <2>4. ASSUME NEW u \in Targets PROVE MayEnqueue(u, batch[u])'
    BY <1>2, <1>4, <2>1, <2>3 DEF LoopInv, MayEnqueue
  <2>5. ASSUME NEW s \in SSRCs
        PROVE  Before("caption", batch'["caption"], unresolved[s])
    <3>1. Before("caption", B, unresolved[s])
      BY <2>1 DEF LoopInv, WaitingInv
    <3>2. \A i \in DOMAIN pending :
            unresolved[pending[i].ssrc] = <<>>
      BY <1>1, <2>1 DEF LoopInv, PendingInv, Findable
    <3>3. \A j \in DOMAIN unresolved[s] : unresolved[s][j].ssrc = s
      BY <2>1 DEF LoopInv, WaitingInv
    <3>4. DOMAIN <<>> = {}
      OBVIOUS
    <3>5. Before("caption", pending, unresolved[s])
      BY <3>2, <3>3, <3>4 DEF Before, Flow
    <3> QED
      BY <1>3, <1>4, <3>1, <3>5, ConcatBefore
  <2>6. WaitingInv'
    BY <1>1, <1>2, <1>3, <2>1, <2>5 DEF LoopInv, WaitingInv, MayEnqueue
  <2>7. DOMAIN pending' = {}
    BY <1>1
  <2>8. PendingInv'
    BY <1>1, <2>1, <2>7, EmptyBatch DEF LoopInv, PendingInv, MayEnqueue
  <2> QED
    BY <2>4, <2>6, <2>8 DEF LoopInv
<1>6. EndedInv'
  BY DEF Visited, FlushOrSelect, EndedInv
<1> QED
  BY <1>1, <1>2, <1>5, <1>6 DEF LineInv

LEMMA LineVisit ==
  ASSUME TypeOK, LineInv, NEW s \in SSRCs, NEW over \in BOOLEAN,
         Visit(s, over)
  PROVE  LineInv'
<1> DEFINE B == batch["caption"]
           user == Resolve(s, fallback)
           R == [i \in DOMAIN unresolved[s] |->
                   [unresolved[s][i] EXCEPT !.user = user]]
<1>1. /\ UNCHANGED <<job, current, known, heard, loop, fallback, pending,
                     arrived, sending, queue, consumer>>
      /\ visit' = visit \ {s} /\ loop = "release"
  BY DEF Visit, fixed, sendVars
<1>2. \A t \in Targets :
           /\ SentInv(t)'
           /\ \A b : MayEnqueue(t, b) =>
                Ready(t, heard', arrived'[t], sending'[t], queue'[t], b)
  BY <1>1, SentKept DEF SentStays
<1>3. /\ batch \in [Targets -> Batches] /\ pending \in Batches
      /\ B \in Batches /\ "caption" \in Targets
      /\ unresolved \in [SSRCs -> Batches] /\ unresolved[s] \in Batches
      /\ user \in Users
  BY ResolveType DEF TypeOK, Batches, Targets
<1>4. R \in Batches
  BY <1>3, Relabelled DEF Batches
<1>5. \/ user.how = "none" /\ UNCHANGED <<batch, unresolved>>
      \/ /\ batch' = [batch EXCEPT !["caption"] = B \o R]
         /\ unresolved' = [unresolved EXCEPT ![s] = <<>>]
  BY DEF Visit
<1>6. EndedInv'
  BY <1>1 DEF EndedInv
<1>7. ASSUME current, user.how = "none", UNCHANGED <<batch, unresolved>>
      PROVE  LoopInv'
  <2>1. LoopInv
    BY <1>7 DEF LineInv
  <2>2. (\A t \in Targets : MayEnqueue(t, batch[t]))'
    BY <1>2, <1>7, <2>1 DEF LoopInv, MayEnqueue
  <2>3. WaitingInv'
    BY <1>2, <1>3, <1>7, <2>1 DEF LoopInv, WaitingInv, MayEnqueue
  <2>4. MayEnqueue("caption", pending)'
    BY <1>1, <1>2, <1>3, <2>1 DEF LoopInv, PendingInv, MayEnqueue
  <2>5. ASSUME NEW i \in DOMAIN pending PROVE Findable(pending[i])'
    <3>1. Findable(pending[i]) /\ pending' = pending
      BY <1>1, <2>1 DEF LoopInv, PendingInv
    <3>2. pending[i] \in Packet
      BY <1>3, ElementOfSeq, LenProperties DEF Batches
    <3>3. CASE pending[i].ssrc # s
      BY <1>1, <1>7, <3>1, <3>3 DEF Findable
    <3>4. CASE pending[i].ssrc = s
      <4>1. pending[i].user.how \notin {"mapped", "fallback"}
        BY <1>7, <3>1, <3>4 DEF Findable, Resolve
      <4>2. pending[i].user.how = "none"
        BY <3>2, <4>1 DEF Packet, Users
      <4>3. unresolved[s] = <<>>
        BY <2>1, <3>1, <4>2 DEF LoopInv, PendingInv, Findable
      <4> QED
        BY <1>1, <1>7, <3>1, <3>4, <4>3 DEF Findable
    <3> QED
      BY <3>3, <3>4
  <2>6. PendingInv'
    BY <1>1, <1>7, <2>1, <2>4, <2>5 DEF LoopInv, PendingInv
  <2> QED
    BY <2>2, <2>3, <2>6 DEF LoopInv
<1>8. ASSUME current, batch' = [batch EXCEPT !["caption"] = B \o R],
             unresolved' = [unresolved EXCEPT ![s] = <<>>]
      PROVE  LoopInv'
  <2>1. LoopInv
    BY <1>8 DEF LineInv
  <2>2. /\ batch'["caption"] = B \o R
        /\ \A u \in Targets : u # "caption" => batch'[u] = batch[u]
        /\ unresolved'[s] = <<>>
        /\ \A v \in SSRCs : v # s => unresolved'[v] = unresolved[v]
    BY <1>3, <1>8
  <2>3. /\ MayEnqueue("caption", B) /\ MayEnqueue("caption", unresolved[s])
        /\ Before("caption", B, unresolved[s])
        /\ Before("caption", unresolved[s], pending)
    BY <1>3, <2>1 DEF LoopInv, WaitingInv, PendingInv
  <2>4. /\ MayEnqueue("caption", R) /\ Before("caption", B, R)
        /\ Before("caption", R, pending)
    BY <1>3, <2>3, RelabelLine DEF MayEnqueue
  <2>5. MayEnqueue("caption", B \o R)
    BY <1>3, <1>4, <2>3, <2>4, ConcatReady DEF MayEnqueue
  <2>6. \A i \in DOMAIN R : R[i].ssrc = s
    <3>1. \A i \in DOMAIN unresolved[s] :
            /\ unresolved[s][i].ssrc = s
            /\ [unresolved[s][i] EXCEPT !.user = user].ssrc
                 = unresolved[s][i].ssrc
      BY <1>3, <2>1, Relabelled DEF LoopInv, WaitingInv, Batches
    <3> QED
      BY <3>1
  <2> HIDE DEF R, user
  <2>7. ASSUME NEW u \in Targets PROVE MayEnqueue(u, batch[u])'
    BY <1>2, <2>1, <2>2, <2>5 DEF LoopInv, MayEnqueue
  <2>8. ASSUME NEW v \in SSRCs
        PROVE  Before("caption", batch'["caption"], unresolved'[v])
    <3>1. CASE v = s
      BY <2>2, <3>1, EmptyBatch
    <3>2. CASE v # s
      <4>1. /\ Before("caption", B, unresolved[v])
            /\ \A j \in DOMAIN unresolved[v] : unresolved[v][j].ssrc = v
        BY <2>1 DEF LoopInv, WaitingInv
      <4>2. Before("caption", R, unresolved[v])
        BY <2>6, <3>2, <4>1 DEF Before, Flow
      <4> QED
        BY <1>3, <1>4, <2>2, <3>2, <4>1, <4>2, ConcatBefore
    <3> QED
      BY <3>1, <3>2
  <2>9. ASSUME NEW v \in SSRCs
        PROVE  /\ MayEnqueue("caption", unresolved[v])'
               /\ \A i \in DOMAIN unresolved'[v] : unresolved'[v][i].ssrc = v
    <3>1. CASE v = s
      BY <2>2, <3>1, EmptyBatch DEF MayEnqueue
    <3>2. CASE v # s
      BY <1>2, <1>3, <2>1, <2>2, <3>2 DEF LoopInv, WaitingInv, MayEnqueue
    <3> QED
      BY <3>1, <3>2
  <2>10. WaitingInv'
    BY <2>8, <2>9 DEF WaitingInv
  <2>11. MayEnqueue("caption", pending)'
    BY <1>1, <1>2, <1>3, <2>1 DEF LoopInv, PendingInv, MayEnqueue
  <2>12. Before("caption", batch'["caption"], pending)
    <3>1. Before("caption", B, pending)
      BY <2>1 DEF LoopInv, PendingInv
    <3> QED
      BY <1>3, <1>4, <2>2, <2>4, <3>1, ConcatBefore
  <2>13. \A v \in SSRCs : Before("caption", unresolved'[v], pending)
    BY <2>1, <2>2, EmptyBatch DEF LoopInv, PendingInv
  <2>14. ASSUME NEW i \in DOMAIN pending PROVE Findable(pending[i])'
    <3>1. Findable(pending[i]) /\ pending[i].ssrc \in SSRCs
      <4>1. pending[i] \in Packet
        BY <1>3, ElementOfSeq, LenProperties DEF Batches
      <4> QED
        BY <2>1, <4>1 DEF LoopInv, PendingInv, Packet
    <3> QED
      BY <1>1, <2>2, <3>1 DEF Findable
  <2>15. (job.captions = "now" => \A v \in SSRCs : unresolved[v] = <<>>)'
    BY <1>1, <2>1, <2>2 DEF LoopInv, PendingInv
  <2>16. PendingInv'
    BY <1>1, <2>11, <2>12, <2>13, <2>14, <2>15 DEF PendingInv
  <2> QED
    BY <2>7, <2>10, <2>16 DEF LoopInv
<1> QED
  BY <1>1, <1>2, <1>5, <1>6, <1>7, <1>8 DEF LineInv

LEMMA LineReceive ==
  ASSUME TypeOK, LineInv, NEW fb \in BOOLEAN, Receive(fb)
  PROVE  LineInv'
<1> DEFINE s == Feed[Len(heard) + 1]
           P(u) == [n |-> Len(heard) + 1, ssrc |-> s, user |-> u]
           user == Resolve(s, fb)
           p == P(user)
<1>1. /\ UNCHANGED <<job, current, known, arrived, sending, queue, consumer>>
      /\ heard' = Append(heard, s) /\ current /\ loop = "select"
  BY DEF Receive, RecordReceived, fixed, sendVars
<1>2. LoopInv /\ pending = <<>>
  BY <1>1 DEF LineInv, LoopInv, PendingInv
<1>3. s \in SSRCs /\ Len(heard) + 1 \in Nat
  <2>1. Len(heard) \in Nat /\ Len(Feed) \in Nat /\ Len(heard) < Len(Feed)
    BY OpusAssumption, LenProperties DEF TypeOK, Receive, HasInput
  <2>2. Len(heard) + 1 \in 1 .. Len(Feed)
    BY <2>1
  <2> QED
    BY <2>1, <2>2, OpusAssumption, ElementOfSeq
<1>4. /\ heard \in Seq(SSRCs)
      /\ arrived \in [Targets -> Seq(Batches)]
      /\ sending \in [Targets -> Batches]
      /\ queue \in [Targets -> Seq(Batches)]
      /\ batch \in [Targets -> Batches]
      /\ unresolved \in [SSRCs -> Batches]
  BY DEF TypeOK, Batches
<1>5. \A u \in Users : /\ P(u) \in Packet /\ <<P(u)>> \in Batches
                       /\ P(u).ssrc = s /\ P(u).user = u
  BY <1>3 DEF Packet, Batches
<1>6. user \in Users /\ Nobody \in Users
  BY <1>3, ResolveType DEF TypeOK, Users, Nobody
<1>7. "caption" \in Targets /\ "encoder" \in Targets
  BY DEF Targets
<1>8. Unnamed(p) = P(Nobody)
  BY DEF Unnamed
<1>9. ASSUME NEW t \in Targets, NEW u \in Users
      PROVE  /\ Sent(t, heard', arrived[t], sending[t], queue[t])
             /\ \A b : MayEnqueue(t, b) =>
                  Ready(t, heard', arrived[t], sending[t], queue[t], b)
             /\ Ready(t, heard', arrived[t], sending[t], queue[t], <<P(u)>>)
             /\ \A b \in Batches : Heard(heard, b) => Before(t, b, <<P(u)>>)
  <2>1. Sent(t, heard, arrived[t], sending[t], queue[t])
    BY DEF LineInv, SentInv
  <2>2. /\ \A k \in DOMAIN arrived[t] : arrived[t][k] \in Batches
        /\ sending[t] \in Batches
        /\ \A i \in DOMAIN queue[t] : queue[t][i] \in Batches
    <3>1. arrived[t] \in Seq(Batches) /\ queue[t] \in Seq(Batches)
      BY <1>4
    <3> QED
      BY <1>4, <3>1, ElementOfSeq, LenProperties
  <2> HIDE DEF s
  <2> QED
    BY <1>1, <1>3, <1>4, <2>1, <2>2, HearLine DEF MayEnqueue
<1> HIDE DEF s, P, user
<1>10. ASSUME NEW t \in Targets, NEW b \in Batches, MayEnqueue(t, b),
              NEW u \in Users
       PROVE  Ready(t, heard', arrived[t], sending[t], queue[t],
                    Append(b, P(u)))
  <2>1. Append(b, P(u)) = b \o <<P(u)>>
    BY <1>5, AppendIsConcat DEF Batches
  <2>2. Heard(heard, b)
    BY <1>10 DEF MayEnqueue, Ready
  <2>3. Ready(t, heard', arrived[t], sending[t], queue[t], b)
        /\ Ready(t, heard', arrived[t], sending[t], queue[t], <<P(u)>>)
        /\ Before(t, b, <<P(u)>>)
    BY <1>9, <1>10, <2>2
  <2> QED
    BY <1>5, <2>1, <2>3, ConcatReady
<1>11. (\A t \in Targets : SentInv(t))'
  BY <1>1, <1>6, <1>9 DEF SentInv
<1>12. ASSUME NEW t \in Targets PROVE MayEnqueue(t, batch[t])'
  <2>1. MayEnqueue(t, batch[t]) /\ batch[t] \in Batches
    BY <1>2, <1>4 DEF LoopInv
  <2>2. batch'[t] = batch[t] \/ batch'[t] = Append(batch[t], P(Nobody))
    <3>1. batch' = batch
          \/ batch' = [batch EXCEPT !["encoder"] =
                         Append(batch["encoder"], P(Nobody))]
      BY <1>8 DEF Receive, p, P, s, user
    <3> QED
      BY <1>4, <3>1
  <2> QED
    BY <1>1, <1>6, <1>9, <1>10, <2>1, <2>2 DEF MayEnqueue
<1>13. batch'["caption"] = batch["caption"]
  BY <1>4, <1>7 DEF Receive
<1>14. \/ SkipCaption
       \/ Keep(p) /\ job.captions # "now"
       \/ Release(p) /\ (user.how = "none" => job.captions = "now")
  BY DEF Receive, p, P, s, user
<1>15. fallback' = (fb /\ loop' = "release")
  BY DEF Receive
<1>16. ASSUME NEW v \in SSRCs
       PROVE  /\ MayEnqueue("caption", unresolved[v])
              /\ \A i \in DOMAIN unresolved[v] : unresolved[v][i].ssrc = v
              /\ Before("caption", batch["caption"], unresolved[v])
              /\ Heard(heard, unresolved[v])
  BY <1>2 DEF LoopInv, WaitingInv, MayEnqueue, Ready
<1>17. ASSUME unresolved' = unresolved PROVE WaitingInv'
  BY <1>1, <1>6, <1>7, <1>9, <1>13, <1>16, <1>17 DEF WaitingInv, MayEnqueue
<1>18. ASSUME pending' = <<>>,
              job.captions # "now" \/ unresolved' = unresolved
       PROVE  PendingInv'
  <2>1. DOMAIN pending' = {}
    BY <1>18
  <2>2. (job.captions = "now" => \A v \in SSRCs : unresolved[v] = <<>>)'
    BY <1>1, <1>2, <1>18 DEF LoopInv, PendingInv
  <2> QED
    BY <1>18, <2>1, <2>2, EmptyBatch DEF PendingInv, MayEnqueue
<1>19. CASE SkipCaption
  <2>1. unresolved' = unresolved /\ pending' = <<>> /\ loop' # "ended"
    BY <1>2, <1>19 DEF SkipCaption, FlushOrSelect
  <2> QED
    BY <1>11, <1>12, <1>17, <1>18, <2>1 DEF LineInv, LoopInv, EndedInv
<1>20. CASE Keep(p) /\ job.captions # "now"
  <2>1. pending' = <<>> /\ loop' # "ended"
    BY <1>2, <1>20 DEF Keep, FlushOrSelect
  <2>2. p.ssrc = s
    BY <1>5, <1>6
  <2> HIDE DEF p
  <2>3. \/ unresolved' = unresolved
        \/ unresolved' = [unresolved EXCEPT ![s] = Append(unresolved[s], p)]
    BY <1>20, <2>2 DEF Keep
  <2>4. CASE unresolved' = [unresolved EXCEPT ![s] = Append(unresolved[s], p)]
    <3> DEFINE U == unresolved[s]
    <3>1. /\ unresolved'[s] = Append(U, p)
          /\ \A v \in SSRCs : v # s => unresolved'[v] = unresolved[v]
      BY <1>3, <1>4, <2>4
    <3>2. U \in Batches /\ Append(U, p) = U \o <<p>> /\ <<p>> \in Batches
      BY <1>3, <1>4, <1>5, <1>6, AppendIsConcat DEF Batches, p
    <3>3. Ready("caption", heard', arrived["caption"], sending["caption"],
                queue["caption"], Append(U, p))
      BY <1>3, <1>6, <1>7, <1>10, <1>16, <3>2 DEF p
    <3>4. \A i \in DOMAIN (U \o <<p>>) : (U \o <<p>>)[i].ssrc = s
      <4>1. DOMAIN <<p>> = {1} /\ <<p>>[1] = p
        OBVIOUS
      <4>2. \A i \in DOMAIN U : U[i].ssrc = s
        BY <1>3, <1>16
      <4> QED
        BY <2>2, <3>2, <4>1, <4>2, ConcatElements
    <3>5. Before("caption", batch["caption"], U \o <<p>>)
      <4>1. /\ Before("caption", batch["caption"], U)
            /\ batch["caption"] \in Batches
            /\ Heard(heard, batch["caption"])
        BY <1>2, <1>3, <1>4, <1>7, <1>16
           DEF LoopInv, MayEnqueue, Ready
      <4>2. Before("caption", batch["caption"], <<p>>)
        BY <1>6, <1>7, <1>9, <4>1 DEF p
      <4> QED
        BY <3>2, <4>1, <4>2, ConcatAfter
    <3>6. ASSUME NEW v \in SSRCs
          PROVE  /\ MayEnqueue("caption", unresolved[v])'
                 /\ \A i \in DOMAIN unresolved'[v] :
                      unresolved'[v][i].ssrc = v
                 /\ Before("caption", batch["caption"], unresolved'[v])
      <4>1. CASE v = s
        BY <1>1, <3>1, <3>2, <3>3, <3>4, <3>5, <4>1 DEF MayEnqueue
      <4>2. CASE v # s
        BY <1>1, <1>6, <1>7, <1>9, <1>16, <3>1, <4>2 DEF MayEnqueue
      <4> QED
        BY <4>1, <4>2
    <3>7. WaitingInv'
      BY <1>13, <3>6 DEF WaitingInv
    <3> QED
      BY <1>11, <1>12, <1>18, <1>20, <2>1, <3>7
         DEF LineInv, LoopInv, EndedInv
  <2>5. CASE unresolved' = unresolved
    BY <1>11, <1>12, <1>17, <1>18, <2>1, <2>5 DEF LineInv, LoopInv, EndedInv
  <2> QED
    BY <2>3, <2>4, <2>5
<1>21. CASE Release(p) /\ (user.how = "none" => job.captions = "now")
  <2>1. /\ unresolved' = unresolved /\ pending' = <<p>>
        /\ visit' = Waiting /\ loop' = "release"
    BY <1>21 DEF Release
  <2>2. p.ssrc = s /\ p.user = user /\ p \in Packet /\ <<p>> \in Batches
    BY <1>5, <1>6
  <2>3. DOMAIN <<p>> = {1} /\ <<p>>[1] = p
    OBVIOUS
  <2>4. MayEnqueue("caption", pending)'
    BY <1>1, <1>6, <1>7, <1>9, <2>1 DEF MayEnqueue, p
  <2>5. ASSUME NEW b \in Batches, Heard(heard, b)
        PROVE  Before("caption", b, <<p>>)
    BY <1>6, <1>7, <1>9, <2>5 DEF p
  <2>6. Before("caption", batch["caption"], <<p>>)
    BY <1>2, <1>4, <1>7, <2>5 DEF LoopInv, MayEnqueue, Ready
  <2>7. \A v \in SSRCs : Before("caption", unresolved[v], <<p>>)
    BY <1>4, <1>16, <2>5
  <2> HIDE DEF p
  <2>8. /\ p.ssrc \notin visit' => unresolved'[p.ssrc] = <<>>
        /\ p.user.how = "mapped" => known'[p.ssrc] # 0
        /\ p.user.how = "fallback" => fallback'
        /\ p.user.how = "none" => job'.captions = "now"
    <3>1. s \notin Waiting => unresolved[s] = <<>>
      BY <1>3 DEF Waiting
    <3>2. /\ user.how = "mapped" => known[s] # 0
          /\ user.how = "fallback" => fb
      BY DEF user, Resolve, Nobody
    <3>3. user.how = "fallback" => fallback'
      BY <1>15, <2>1, <3>2
    <3> QED
      BY <1>1, <1>21, <2>1, <2>2, <3>1, <3>2, <3>3
  <2>9. \A i \in DOMAIN pending' : pending'[i] = p
    BY <2>1, <2>3
  <2>10. (\A i \in DOMAIN pending : Findable(pending[i]))'
    BY <2>8, <2>9 DEF Findable
  <2>11. PendingInv'
    BY <1>1, <1>2, <1>13, <2>1, <2>4, <2>6, <2>7, <2>10
       DEF LoopInv, PendingInv
  <2> QED
    BY <1>11, <1>12, <1>17, <2>1, <2>11 DEF LineInv, LoopInv, EndedInv
<1> QED
  BY <1>14, <1>19, <1>20, <1>21

LEMMA LineStep == TypeOK /\ LineInv /\ [Next]_vars => LineInv'
<1> SUFFICES ASSUME TypeOK, LineInv, [Next]_vars PROVE LineInv'
  OBVIOUS
<1> QED
  BY LineReceive, LineVisit, LineVisited, LineFlush, LineConsumer, LineSmall
     DEF Next

\* The line holds in every reachable state.
THEOREM LineCorrect == Spec => [](TypeOK /\ LineInv)
<1>1. Init => TypeOK /\ LineInv
  BY TypeInit, LineInit
<1>2. TypeOK /\ LineInv /\ [Next]_vars => (TypeOK /\ LineInv)'
  BY TypeStep, LineStep
<1> QED
  BY <1>1, <1>2, PTL DEF Spec

-----------------------------------------------------------------------------
(* The refinement.                                                         *)

\* What a step does to one target, seen from outside.
LEMMA OutsideStep ==
  ASSUME TypeOK, LineInv, [Next]_vars, NEW t \in Targets
  PROVE  \/ /\ \E s \in SSRCs : heard' = Append(heard, s)
            /\ arrived'[t] = arrived[t]
            /\ loop # "ended" /\ loop' # "ended"
         \/ /\ arrived'[t] = Append(arrived[t], sending[t])
            /\ heard' = heard
            /\ loop # "ended" /\ loop' # "ended"
         \/ /\ arrived'[t] = arrived[t] /\ heard' = heard
            /\ loop # "ended" /\ loop' = "ended"
         \/ /\ arrived'[t] = arrived[t] /\ heard' = heard
            /\ (loop # "ended") = (loop' # "ended")
<1>1. ASSUME NEW fb \in BOOLEAN, Receive(fb)
      PROVE  /\ \E s \in SSRCs : heard' = Append(heard, s)
             /\ arrived'[t] = arrived[t]
             /\ loop # "ended" /\ loop' # "ended"
  <2>1. Feed[Len(heard) + 1] \in SSRCs
    <3>1. Len(heard) \in Nat /\ Len(Feed) \in Nat /\ Len(heard) < Len(Feed)
      BY <1>1, OpusAssumption, LenProperties DEF TypeOK, Receive, HasInput
    <3>2. Len(heard) + 1 \in 1 .. Len(Feed)
      BY <3>1
    <3> QED
      BY <3>2, OpusAssumption, ElementOfSeq
  <2>2. heard' = Append(heard, Feed[Len(heard) + 1]) /\ arrived' = arrived
    BY <1>1 DEF Receive, RecordReceived, sendVars
  <2>3. loop = "select" /\ loop' # "ended"
    BY <1>1 DEF Receive, SkipCaption, Keep, Release, FlushOrSelect
  <2> QED
    BY <2>1, <2>2, <2>3
<1>2. ASSUME NEW u \in Targets,
             \/ Take(u) \/ Quit(u) \/ Succeeds(u) \/ Retry(u) \/ GivesUp(u)
      PROVE  /\ heard' = heard /\ loop' = loop /\ loop # "ended"
             /\ \/ arrived'[t] = arrived[t]
                \/ arrived'[t] = Append(arrived[t], sending[t])
  <2>1. heard' = heard /\ loop' = loop
    BY <1>2 DEF Take, Quit, Succeeds, Retry, GivesUp, loopVars
  <2>2. consumer[u] # "ended"
    BY <1>2 DEF Take, Quit, Succeeds, Retry, GivesUp
  <2>3. loop # "ended"
    BY <2>2 DEF LineInv, EndedInv
  <2>4. arrived' = arrived
        \/ arrived' = [arrived EXCEPT ![u] = Append(arrived[u], sending[u])]
    BY <1>2 DEF Take, Quit, Succeeds, Retry, GivesUp, AttemptFails, Arrives
  <2> QED
    BY <2>1, <2>3, <2>4 DEF TypeOK
<1>3. CASE Ended
  BY <1>3 DEF Ended, sendVars
<1>4. CASE \/ Disconnected \/ StopSeen \/ NotCurrent \/ ReceiveClosed
           \/ Monitor \/ Visited \/ UNCHANGED vars
           \/ \E s \in SSRCs :
                \/ SpeakerKnown(s)
                \/ \E over \in BOOLEAN : Visit(s, over)
           \/ \E d \in SUBSET job.targets, fb \in BOOLEAN : Tick(d, fb)
           \/ \E u \in Targets : Flush(u)
  <2>1. heard' = heard /\ arrived' = arrived
    BY <1>4 DEF Disconnected, StopSeen, NotCurrent, ReceiveClosed, Return,
                Monitor, Visited, SpeakerKnown, Visit, Tick, Flush, vars,
                loopVars, sendVars
  <2>2. loop' = loop \/ (loop # "ended" /\ loop' # "ended")
    BY <1>4 DEF Disconnected, StopSeen, NotCurrent, ReceiveClosed, Return,
                Monitor, Visited, SpeakerKnown, Visit, Tick, Flush, vars,
                loopVars, FlushOrSelect
  <2> QED
    BY <2>1, <2>2
<1> QED
  BY <1>1, <1>2, <1>3, <1>4 DEF Next

\* What a batch that arrives is for OrderedDelivery.
LEMMA EncoderArrival ==
  ASSUME LineInv
  PROVE  Encoder!MayDeliver(sending["encoder"])
         \/ Encoder!MayRepeat(sending["encoder"])
<1>1. Sent("encoder", heard, arrived["encoder"], sending["encoder"],
           queue["encoder"])
  BY DEF LineInv, SentInv, Targets
<1>2. Encoder!Genuine(sending["encoder"])
  BY <1>1 DEF Sent, AllHeard, Heard, Encoder!Genuine
<1>3. Encoder!Sorted(sending["encoder"])
  BY <1>1 DEF Sent, SendingInOrder, InOrder, Flow, Encoder!Sorted,
              Encoder!SameFlow
<1>4. CASE \A k \in DOMAIN arrived["encoder"] :
             Before("encoder", arrived["encoder"][k], sending["encoder"])
  BY <1>2, <1>3, <1>4
     DEF Before, Flow, Encoder!MayDeliver, Encoder!Older, Encoder!SameFlow
<1>5. CASE /\ arrived["encoder"] # <<>>
           /\ arrived["encoder"][Len(arrived["encoder"])]
                = sending["encoder"]
  BY <1>5 DEF Encoder!MayRepeat
<1> QED
  BY <1>1, <1>4, <1>5 DEF Sent, SendingInOrder

LEMMA CaptionArrival ==
  ASSUME LineInv
  PROVE  Caption!MayDeliver(sending["caption"])
         \/ Caption!MayRepeat(sending["caption"])
<1>1. Sent("caption", heard, arrived["caption"], sending["caption"],
           queue["caption"])
  BY DEF LineInv, SentInv, Targets
<1>2. Caption!Genuine(sending["caption"])
  BY <1>1 DEF Sent, AllHeard, Heard, Caption!Genuine
<1>3. Caption!Sorted(sending["caption"])
  BY <1>1 DEF Sent, SendingInOrder, InOrder, Flow, Caption!Sorted,
              Caption!SameFlow
<1>4. CASE \A k \in DOMAIN arrived["caption"] :
             Before("caption", arrived["caption"][k], sending["caption"])
  BY <1>2, <1>3, <1>4
     DEF Before, Flow, Caption!MayDeliver, Caption!Older, Caption!SameFlow
<1>5. CASE /\ arrived["caption"] # <<>>
           /\ arrived["caption"][Len(arrived["caption"])]
                = sending["caption"]
  BY <1>5 DEF Caption!MayRepeat
<1> QED
  BY <1>1, <1>4, <1>5 DEF Sent, SendingInOrder

\* A batch that arrives is the last of those that have arrived.
LEMMA Appended ==
  ASSUME NEW a \in Seq(Batches), NEW x \in Batches, NEW e, e = Append(a, x)
  PROVE  Len(e) = Len(a) + 1 /\ e[Len(e)] = x /\ e = Append(a, e[Len(e)])
<1>1. Len(e) = Len(a) + 1 /\ e[Len(a) + 1] = x
  BY AppendProperties
<1> QED
  BY <1>1

LEMMA EncoderStep ==
  TypeOK /\ LineInv /\ [Next]_vars => [Encoder!Next]_(Encoder!vars)
<1> SUFFICES ASSUME TypeOK, LineInv, [Next]_vars
             PROVE  [Encoder!Next]_(Encoder!vars)
  OBVIOUS
<1> DEFINE a == arrived["encoder"]
           x == sending["encoder"]
<1>1. "encoder" \in Targets /\ a \in Seq(Batches) /\ x \in Batches
  BY DEF TypeOK, Targets, Batches
<1>2. CASE /\ \E s \in SSRCs : heard' = Append(heard, s)
           /\ a' = a /\ loop # "ended" /\ loop' # "ended"
  BY <1>2 DEF Encoder!Next, Encoder!Accept
<1>3. CASE /\ a' = Append(a, x) /\ heard' = heard
           /\ loop # "ended" /\ loop' # "ended"
  <2>1. Len(a') = Len(a) + 1 /\ a'[Len(a')] = x
        /\ a' = Append(a, a'[Len(a')])
    BY <1>1, <1>3, Appended
  <2>2. Encoder!MayDeliver(a'[Len(a')]) \/ Encoder!MayRepeat(a'[Len(a')])
    BY <2>1, EncoderArrival
  <2> QED
    BY <1>3, <2>1, <2>2 DEF Encoder!Next, Encoder!Deliver
<1>4. CASE a' = a /\ heard' = heard /\ loop # "ended" /\ loop' = "ended"
  BY <1>4 DEF Encoder!Next, Encoder!Close
<1>5. CASE a' = a /\ heard' = heard /\ (loop # "ended") = (loop' # "ended")
  BY <1>5 DEF Encoder!vars
<1> QED
  BY <1>1, <1>2, <1>3, <1>4, <1>5, OutsideStep

LEMMA CaptionStep ==
  TypeOK /\ LineInv /\ [Next]_vars => [Caption!Next]_(Caption!vars)
<1> SUFFICES ASSUME TypeOK, LineInv, [Next]_vars
             PROVE  [Caption!Next]_(Caption!vars)
  OBVIOUS
<1> DEFINE a == arrived["caption"]
           x == sending["caption"]
<1>1. "caption" \in Targets /\ a \in Seq(Batches) /\ x \in Batches
  BY DEF TypeOK, Targets, Batches
<1>2. CASE /\ \E s \in SSRCs : heard' = Append(heard, s)
           /\ a' = a /\ loop # "ended" /\ loop' # "ended"
  BY <1>2 DEF Caption!Next, Caption!Accept
<1>3. CASE /\ a' = Append(a, x) /\ heard' = heard
           /\ loop # "ended" /\ loop' # "ended"
  <2>1. Len(a') = Len(a) + 1 /\ a'[Len(a')] = x
        /\ a' = Append(a, a'[Len(a')])
    BY <1>1, <1>3, Appended
  <2>2. Caption!MayDeliver(a'[Len(a')]) \/ Caption!MayRepeat(a'[Len(a')])
    BY <2>1, CaptionArrival
  <2> QED
    BY <1>3, <2>1, <2>2 DEF Caption!Next, Caption!Deliver
<1>4. CASE a' = a /\ heard' = heard /\ loop # "ended" /\ loop' = "ended"
  BY <1>4 DEF Caption!Next, Caption!Close
<1>5. CASE a' = a /\ heard' = heard /\ (loop # "ended") = (loop' # "ended")
  BY <1>5 DEF Caption!vars
<1> QED
  BY <1>1, <1>2, <1>3, <1>4, <1>5, OutsideStep

\* The loop, the queue and the attempts of the HTTP client implement ordered
\* delivery to the Encoder: in the order of arrival, whoever speaks, with
\* repetitions only of the last batch and nothing after forwardOpus returned.
THEOREM EncoderCorrect == Spec => EncoderInOrder
<1>1. Init => Encoder!Init
  BY DEF Init, Encoder!Init, Targets
<1>2. TypeOK /\ LineInv /\ [Next]_vars => [Encoder!Next]_(Encoder!vars)
  BY EncoderStep
<1> QED
  BY <1>1, <1>2, LineCorrect, PTL DEF Spec, EncoderInOrder, Encoder!Spec

\* The same for the caption service and each speaker, although packets wait
\* for their speaker's name (flushExpiredUnresolved) while others go on.
THEOREM CaptionCorrect == Spec => CaptionInOrder
<1>1. Init => Caption!Init
  BY DEF Init, Caption!Init, Targets
<1>2. TypeOK /\ LineInv /\ [Next]_vars => [Caption!Next]_(Caption!vars)
  BY CaptionStep
<1> QED
  BY <1>1, <1>2, LineCorrect, PTL DEF Spec, CaptionInOrder, Caption!Spec

-----------------------------------------------------------------------------
(* Whose packet it is.  The same line, with another order on its places:   *)
(* the record that named a speaker in one place is not younger than the    *)
(* one that did in a later place.  Both are at most the record of now.     *)

Keeps(b, c) ==
  \A i \in DOMAIN b, j \in DOMAIN c :
    b[i].ssrc = c[j].ssrc => b[i].user.map <= c[j].user.map

NamesKept(a, x, q) ==
  /\ \A k, l \in DOMAIN a : (k < l /\ a[k] # a[l]) => Keeps(a[k], a[l])
  /\ \A k \in DOMAIN a : a[k] = x \/ Keeps(a[k], x)
  /\ \A i \in DOMAIN q :
       /\ Keeps(x, q[i])
       /\ \A k \in DOMAIN a : Keeps(a[k], q[i])
       /\ \A j \in DOMAIN q : i < j => Keeps(q[i], q[j])

NamedAfter(a, x, q, b) ==
  /\ \A k \in DOMAIN a : Keeps(a[k], b)
  /\ Keeps(x, b)
  /\ \A i \in DOMAIN q : Keeps(q[i], b)

\* The record that named a speaker is there, or a later one, as long as the
\* connection is.
Learned(kn, b) ==
  \A i \in DOMAIN b :
    /\ b[i].ssrc \in SSRCs /\ b[i].user.map \in Nat
    /\ b[i].user.map <= kn[b[i].ssrc]

AllLearned(kn, a, x, q) ==
  /\ \A k \in DOMAIN a : Learned(kn, a[k])
  /\ Learned(kn, x)
  /\ \A i \in DOMAIN q : Learned(kn, q[i])

\* What the loop may enqueue.
Named(kn, a, x, q, b) == Learned(kn, b) /\ NamedAfter(a, x, q, b)

MayName(b) ==
  Named(known, arrived["caption"], sending["caption"], queue["caption"], b)

NameInv ==
  /\ NamesKept(arrived["caption"], sending["caption"], queue["caption"])
  /\ current =>
       /\ AllLearned(known, arrived["caption"], sending["caption"],
                     queue["caption"])
       /\ MayName(batch["caption"])
       /\ MayName(pending)

LEMMA EmptyNamed ==
  ASSUME NEW kn, NEW a, NEW x, NEW q, NEW c
  PROVE  /\ Named(kn, a, x, q, <<>>) /\ Keeps(<<>>, c) /\ Keeps(c, <<>>)
<1>1. DOMAIN <<>> = {}
  OBVIOUS
<1> QED
  BY <1>1 DEF Named, Learned, NamedAfter, Keeps

LEMMA ConcatNamed ==
  ASSUME NEW kn, NEW a, NEW x, NEW q, NEW b \in Batches, NEW c \in Batches,
         Named(kn, a, x, q, b), Named(kn, a, x, q, c)
  PROVE  Named(kn, a, x, q, b \o c)
<1>1. ASSUME NEW d, Keeps(d, b), Keeps(d, c) PROVE Keeps(d, b \o c)
  BY <1>1, ConcatElements DEF Keeps
<1>2. Learned(kn, b \o c)
  BY ConcatElements DEF Named, Learned
<1> QED
  BY <1>1, <1>2 DEF Named, NamedAfter

\* Packets of one speaker, named as the loop names them now, may follow.
LEMMA NamedNow ==
  ASSUME NEW kn \in [SSRCs -> Nat], NEW a, NEW x, NEW q,
         AllLearned(kn, a, x, q), NEW s \in SSRCs, NEW b,
         \A i \in DOMAIN b : b[i].ssrc = s /\ b[i].user.map = kn[s]
  PROVE  Named(kn, a, x, q, b)
<1>1. ASSUME NEW d, Learned(kn, d) PROVE Keeps(d, b)
  BY <1>1 DEF Learned, Keeps
<1>2. Learned(kn, b)
  BY DEF Learned
<1> QED
  BY <1>1, <1>2 DEF Named, NamedAfter, AllLearned

LEMMA TakeNames ==
  ASSUME NEW kn, NEW a, NEW x, NEW q \in Seq(Batches), q # <<>>,
         NamesKept(a, x, q)
  PROVE  /\ NamesKept(a, x, Tail(q)) /\ NamesKept(a, Head(q), Tail(q))
         /\ AllLearned(kn, a, x, q) =>
              /\ AllLearned(kn, a, x, Tail(q))
              /\ AllLearned(kn, a, Head(q), Tail(q))
         /\ \A b : Named(kn, a, x, q, b) =>
              /\ Named(kn, a, x, Tail(q), b)
              /\ Named(kn, a, Head(q), Tail(q), b)
<1>1. /\ Len(q) \in Nat /\ DOMAIN q = 1 .. Len(q) /\ Len(q) > 0
      /\ Tail(q) \in Seq(Batches) /\ Len(Tail(q)) = Len(q) - 1
      /\ \A i \in 1 .. Len(q) - 1 : Tail(q)[i] = q[i + 1]
      /\ Head(q) = q[1]
  BY HeadTailProperties, LenProperties, EmptySeq
<1>2. DOMAIN Tail(q) = 1 .. Len(q) - 1
  BY <1>1, LenProperties
<1> DEFINE r == Tail(q)
<1>3. /\ 1 \in DOMAIN q /\ Head(q) = q[1]
      /\ \A i \in DOMAIN r : /\ i + 1 \in DOMAIN q /\ r[i] = q[i + 1]
                             /\ 1 < i + 1
      /\ \A i, j \in DOMAIN r : i < j => i + 1 < j + 1
  BY <1>1, <1>2
<1> HIDE DEF r
<1>4. NamesKept(a, x, r) /\ NamesKept(a, Head(q), r)
  BY <1>3 DEF NamesKept
<1>5. AllLearned(kn, a, x, q) =>
        AllLearned(kn, a, x, r) /\ AllLearned(kn, a, Head(q), r)
  BY <1>3 DEF AllLearned
<1>6. ASSUME NEW b, Named(kn, a, x, q, b)
      PROVE  Named(kn, a, x, r, b) /\ Named(kn, a, Head(q), r, b)
  BY <1>3, <1>6 DEF Named, NamedAfter
<1> QED
  BY <1>4, <1>5, <1>6 DEF r

LEMMA ArriveNames ==
  ASSUME NEW kn, NEW a \in Seq(Batches), NEW x \in Batches, NEW q,
         NamesKept(a, x, q)
  PROVE  /\ NamesKept(Append(a, x), x, q)
         /\ AllLearned(kn, a, x, q) => AllLearned(kn, Append(a, x), x, q)
         /\ \A b : Named(kn, a, x, q, b) => Named(kn, Append(a, x), x, q, b)
<1> DEFINE e == Append(a, x)
<1>1. /\ Len(a) \in Nat /\ DOMAIN a = 1 .. Len(a)
      /\ DOMAIN e = 1 .. Len(a) + 1
      /\ \A k \in 1 .. Len(a) : e[k] = a[k]
      /\ e[Len(a) + 1] = x
  BY AppendProperties, LenProperties
<1>2. \A k \in DOMAIN e : e[k] = x \/ (k \in DOMAIN a /\ e[k] = a[k])
  BY <1>1
<1>3. \A k, l \in DOMAIN e : k < l => k \in DOMAIN a /\ e[k] = a[k]
  BY <1>1
<1> HIDE DEF e
<1>4. \A k, l \in DOMAIN e : (k < l /\ e[k] # e[l]) => Keeps(e[k], e[l])
  BY <1>2, <1>3 DEF NamesKept
<1>5. NamesKept(e, x, q)
  BY <1>2, <1>4 DEF NamesKept
<1>6. AllLearned(kn, a, x, q) => AllLearned(kn, e, x, q)
  BY <1>2 DEF AllLearned
<1>7. ASSUME NEW b, Named(kn, a, x, q, b) PROVE Named(kn, e, x, q, b)
  BY <1>2, <1>7 DEF Named, NamedAfter
<1> QED
  BY <1>5, <1>6, <1>7 DEF e

LEMMA ReturnNames ==
  ASSUME NEW kn, NEW a, NEW x, NEW q, NamesKept(a, x, q)
  PROVE  /\ NamesKept(a, <<>>, q)
         /\ AllLearned(kn, a, x, q) => AllLearned(kn, a, <<>>, q)
         /\ \A b : Named(kn, a, x, q, b) => Named(kn, a, <<>>, q, b)
<1>1. \A c : Keeps(<<>>, c) /\ Keeps(c, <<>>)
  BY EmptyNamed
<1>2. Learned(kn, <<>>)
  BY EmptyNamed DEF Named
<1> QED
  BY <1>1, <1>2 DEF NamesKept, AllLearned, Named, NamedAfter

LEMMA EnqueueNames ==
  ASSUME NEW kn, NEW a, NEW x, NEW q \in Seq(Batches), NEW b \in Batches,
         NamesKept(a, x, q), AllLearned(kn, a, x, q), Named(kn, a, x, q, b)
  PROVE  /\ NamesKept(a, x, Append(q, b))
         /\ AllLearned(kn, a, x, Append(q, b))
<1> DEFINE r == Append(q, b)
<1>1. /\ Len(q) \in Nat /\ DOMAIN q = 1 .. Len(q)
      /\ DOMAIN r = 1 .. Len(q) + 1
      /\ \A k \in 1 .. Len(q) : r[k] = q[k]
      /\ r[Len(q) + 1] = b
  BY AppendProperties, LenProperties
<1>2. \A k \in DOMAIN r : r[k] = b \/ (k \in DOMAIN q /\ r[k] = q[k])
  BY <1>1
<1>3. \A j, k \in DOMAIN r : j < k => j \in DOMAIN q /\ r[j] = q[j]
  BY <1>1
<1> HIDE DEF r
<1>4. \A i \in DOMAIN r : /\ Keeps(x, r[i])
                          /\ \A k \in DOMAIN a : Keeps(a[k], r[i])
  BY <1>2 DEF NamesKept, Named, NamedAfter
<1>5. \A i, j \in DOMAIN r : i < j => Keeps(r[i], r[j])
  BY <1>2, <1>3 DEF NamesKept, Named, NamedAfter
<1>6. NamesKept(a, x, r)
  BY <1>4, <1>5 DEF NamesKept
<1>7. AllLearned(kn, a, x, r)
  BY <1>2 DEF AllLearned, Named
<1> QED
  BY <1>6, <1>7 DEF r

LEMMA NameInit == Init => NameInv
<1> SUFFICES ASSUME Init PROVE NameInv
  OBVIOUS
<1>1. /\ arrived["caption"] = <<>> /\ sending["caption"] = <<>>
      /\ queue["caption"] = <<>> /\ batch["caption"] = <<>>
      /\ pending = <<>> /\ DOMAIN <<>> = {}
  BY DEF Init, Targets
<1>2. Learned(known, <<>>)
  BY EmptyNamed DEF Named
<1> QED
  BY <1>1, <1>2, EmptyNamed DEF NameInv, NamesKept, AllLearned, MayName

LEMMA NameConsumer ==
  ASSUME TypeOK, NameInv, NEW t \in Targets,
         \/ Take(t) \/ Quit(t) \/ Succeeds(t) \/ Retry(t) \/ GivesUp(t)
  PROVE  NameInv'
<1> DEFINE a == arrived["caption"]
           x == sending["caption"]
           q == queue["caption"]
           After(e, y, r) ==
             /\ NamesKept(e, y, r)
             /\ AllLearned(known, a, x, q) => AllLearned(known, e, y, r)
             /\ \A b : MayName(b) => Named(known, e, y, r, b)
<1>1. UNCHANGED <<current, known, batch, pending>>
  BY DEF Take, Quit, Succeeds, Retry, GivesUp, fixed, loopVars
<1>2. /\ arrived \in [Targets -> Seq(Batches)]
      /\ sending \in [Targets -> Batches]
      /\ queue \in [Targets -> Seq(Batches)] /\ "caption" \in Targets
  BY DEF TypeOK, Batches, Targets
<1>3. NamesKept(a, x, q)
  BY DEF NameInv
<1>4. After(a, x, q) /\ After(a, <<>>, q)
  BY <1>3, ReturnNames DEF MayName
<1>5. After(Append(a, x), x, q) /\ After(Append(a, x), <<>>, q)
  <2>1. After(Append(a, x), x, q)
    BY <1>2, <1>3, ArriveNames DEF MayName
  <2> QED
    BY <2>1, ReturnNames
<1>6. q # <<>> => After(a, x, Tail(q)) /\ After(a, Head(q), Tail(q))
  BY <1>2, <1>3, TakeNames DEF MayName
<1>7. \/ a' = a /\ x' = x /\ q' = q
      \/ a' = a /\ x' = <<>> /\ q' = q
      \/ a' = Append(a, x) /\ x' = x /\ q' = q
      \/ a' = Append(a, x) /\ x' = <<>> /\ q' = q
      \/ /\ q # <<>> /\ a' = a /\ q' = Tail(q)
         /\ x' = x \/ x' = Head(q)
  <2>1. CASE t # "caption"
    BY <1>2, <2>1 DEF Take, Quit, Succeeds, Retry, GivesUp, Returned,
                      Arrives, AttemptFails
  <2>2. CASE t = "caption" /\ Take(t)
    BY <1>2, <2>2 DEF Take
  <2>3. CASE t = "caption" /\ Quit(t)
    BY <2>3 DEF Quit
  <2>4. CASE t = "caption" /\ Succeeds(t)
    BY <1>2, <2>4 DEF Succeeds, Arrives, Returned
  <2>5. CASE t = "caption" /\ Retry(t)
    BY <1>2, <2>5 DEF Retry, AttemptFails, Arrives
  <2>6. CASE t = "caption" /\ GivesUp(t)
    BY <1>2, <2>6 DEF GivesUp, AttemptFails, Arrives, Returned
  <2> QED
    BY <2>1, <2>2, <2>3, <2>4, <2>5, <2>6
<1> HIDE DEF After
<1>8. After(a', x', q')
  <2> HIDE DEF a, x, q
  <2> QED
    BY <1>4, <1>5, <1>6, <1>7
<1> QED
  BY <1>1, <1>8 DEF After, NameInv, MayName

\* The caption's places outside the loop stay as they are.
SentStill ==
  UNCHANGED <<arrived["caption"], sending["caption"], queue["caption"]>>

LEMMA NameReceive ==
  ASSUME TypeOK, LineInv, NameInv, NEW fb \in BOOLEAN, Receive(fb)
  PROVE  NameInv'
<1> DEFINE s == Feed[Len(heard) + 1]
           p == [n |-> Len(heard) + 1, ssrc |-> s, user |-> Resolve(s, fb)]
<1>1. SentStill /\ UNCHANGED <<current, known>> /\ current
  BY DEF Receive, SentStill, sendVars
<1>2. batch'["caption"] = batch["caption"]
  BY DEF Receive, TypeOK, Targets
<1>3. pending' = pending \/ pending' = <<p>>
  BY DEF Receive, SkipCaption, Keep, Release
<1>4. MayName(<<p>>)
  <2>1. DOMAIN <<p>> = {1} /\ <<p>>[1] = p /\ p.ssrc = s
        /\ p.user = Resolve(s, fb)
    OBVIOUS
  <2>2. Resolve(s, fb).map = known[s]
    BY <1>1 DEF Resolve, Nobody
  <2>3. AllLearned(known, arrived["caption"], sending["caption"],
                   queue["caption"])
    BY <1>1 DEF NameInv
  <2>5. s \in SSRCs
    <3>1. Len(heard) \in Nat /\ Len(Feed) \in Nat /\ Len(heard) < Len(Feed)
      BY OpusAssumption, LenProperties DEF TypeOK, Receive, HasInput
    <3>2. Len(heard) + 1 \in 1 .. Len(Feed)
      BY <3>1
    <3> QED
      BY <3>2, OpusAssumption, ElementOfSeq
  <2>6. known \in [SSRCs -> Nat]
    BY DEF TypeOK
  <2> HIDE DEF p, s
  <2>4. \A i \in DOMAIN <<p>> :
          <<p>>[i].ssrc = s /\ <<p>>[i].user.map = known[s]
    BY <2>1, <2>2
  <2> QED
    BY <2>3, <2>4, <2>5, <2>6, NamedNow DEF MayName
<1> HIDE DEF p, s
<1> QED
  BY <1>1, <1>2, <1>3, <1>4 DEF NameInv, MayName, SentStill

LEMMA NameVisit ==
  ASSUME TypeOK, LineInv, NameInv, NEW s \in SSRCs, NEW over \in BOOLEAN,
         Visit(s, over)
  PROVE  NameInv'
<1> DEFINE user == Resolve(s, fallback)
           R == [i \in DOMAIN unresolved[s] |->
                   [unresolved[s][i] EXCEPT !.user = user]]
<1>1. SentStill /\ UNCHANGED <<current, known, pending>>
  BY DEF Visit, SentStill, sendVars
<1>2. batch'["caption"] = batch["caption"]
      \/ batch'["caption"] = batch["caption"] \o R
  BY DEF Visit, TypeOK, Targets
<1>3. ASSUME current PROVE MayName(batch["caption"] \o R)
  <2>1. /\ unresolved[s] \in Seq(Packet) /\ user \in Users
        /\ batch["caption"] \in Batches
    BY ResolveType DEF TypeOK, Batches, Targets
  <2>2. R \in Batches
    BY <2>1, Relabelled DEF Batches
  <2>3. \A i \in DOMAIN R : R[i].ssrc = s /\ R[i].user = user
    <3>1. \A i \in DOMAIN unresolved[s] :
            /\ unresolved[s][i] \in Packet /\ unresolved[s][i].ssrc = s
            /\ [unresolved[s][i] EXCEPT !.user = user].ssrc
                 = unresolved[s][i].ssrc
      BY <1>3, <2>1, Relabelled, ElementOfSeq, LenProperties
         DEF LineInv, LoopInv, WaitingInv
    <3>2. \A i \in DOMAIN unresolved[s] :
            [unresolved[s][i] EXCEPT !.user = user].user = user
      BY <3>1 DEF Packet
    <3> QED
      BY <3>1, <3>2
  <2>4. user.map = known[s] /\ known \in [SSRCs -> Nat]
    BY <1>3 DEF Resolve, Nobody, TypeOK
  <2> HIDE DEF R, user
  <2>5. MayName(R)
    BY <1>3, <2>3, <2>4, NamedNow DEF NameInv, MayName
  <2> QED
    BY <1>3, <2>1, <2>2, <2>5, ConcatNamed DEF NameInv, MayName
<1> HIDE DEF R
<1> QED
  BY <1>1, <1>2, <1>3 DEF NameInv, MayName, SentStill

LEMMA NameFlush ==
  ASSUME TypeOK, LineInv, NameInv, NEW t \in Targets, Flush(t)
  PROVE  NameInv'
<1> DEFINE q == queue["caption"]
           b == batch["caption"]
<1>1. /\ UNCHANGED <<current, known, pending, arrived, sending>>
      /\ loop = "flush"
  BY DEF Flush, sendVars
<1>2. /\ queue \in [Targets -> Seq(Batches)]
      /\ batch \in [Targets -> Batches] /\ "caption" \in Targets
  BY DEF TypeOK, Batches, Targets
<1>3. current => pending = <<>>
  BY <1>1 DEF LineInv, LoopInv, PendingInv
<1>4. \/ q' = q /\ (b' = b \/ b' = <<>>)
      \/ current /\ q' = Append(q, b) /\ b' = <<>>
  BY <1>2 DEF Flush, EnqueueIfCurrent, Enqueue
<1>5. current =>
        /\ NamesKept(arrived["caption"], sending["caption"], Append(q, b))
        /\ AllLearned(known, arrived["caption"], sending["caption"],
                      Append(q, b))
  BY <1>2, EnqueueNames DEF NameInv, MayName
<1>6. CASE q' = q /\ (b' = b \/ b' = <<>>)
  BY <1>1, <1>6, EmptyNamed DEF NameInv, MayName
<1>7. CASE current /\ q' = Append(q, b) /\ b' = <<>>
  BY <1>1, <1>3, <1>5, <1>7, EmptyNamed DEF NameInv, MayName
<1> QED
  BY <1>4, <1>6, <1>7

LEMMA NameOther ==
  ASSUME TypeOK, LineInv, NameInv,
         \/ Disconnected \/ StopSeen \/ NotCurrent \/ ReceiveClosed \/ Ended
         \/ Monitor \/ Visited \/ UNCHANGED vars
         \/ \E s \in SSRCs : SpeakerKnown(s)
         \/ \E d \in SUBSET job.targets, fb \in BOOLEAN : Tick(d, fb)
  PROVE  NameInv'
<1>1. SentStill
  BY DEF Disconnected, Ended, Monitor, SpeakerKnown, Tick, StopSeen, Visited,
         NotCurrent, ReceiveClosed, Return, vars, loopVars, sendVars,
         SentStill
<1>0. /\ known \in [SSRCs -> Nat]
      /\ current' => /\ current
                     /\ \/ known' = known
                        \/ \E s \in SSRCs :
                             known' = [known EXCEPT ![s] = known[s] + 1]
  BY DEF Disconnected, Ended, Monitor, SpeakerKnown, Tick, StopSeen, Visited,
         NotCurrent, ReceiveClosed, Return, vars, TypeOK
<1>2. /\ current' => current
      /\ current' => \A s \in SSRCs : /\ known[s] \in Nat
                                      /\ known'[s] \in Nat
                                      /\ known[s] <= known'[s]
  BY <1>0
<1>3. pending' = pending \/ pending' = <<>>
  BY DEF Disconnected, Ended, Monitor, SpeakerKnown, Tick, StopSeen, Visited,
         NotCurrent, ReceiveClosed, Return, vars, loopVars
<1>4. "caption" \in Targets /\ batch \in [Targets -> Batches]
      /\ pending \in Batches
  BY DEF TypeOK, Batches, Targets
<1>5. LET b == batch["caption"]
      IN  b' = b \/ b' = <<>> \/ b' = b \o pending
  BY <1>4 DEF Disconnected, Ended, Monitor, SpeakerKnown, Tick, StopSeen,
              Visited, NotCurrent, ReceiveClosed, Return, vars, loopVars
<1>6. ASSUME current'
      PROVE  /\ \A b : Learned(known, b) => Learned(known', b)
             /\ \A b : MayName(b) =>
                  Named(known', arrived["caption"], sending["caption"],
                        queue["caption"], b)
  BY <1>2, <1>6 DEF Learned, MayName, Named
<1>7. current => MayName(batch["caption"] \o pending)
  BY <1>4, ConcatNamed DEF NameInv, MayName
<1>8. ASSUME current'
      PROVE  AllLearned(known', arrived["caption"], sending["caption"],
                        queue["caption"])
  BY <1>2, <1>6, <1>8 DEF NameInv, AllLearned
<1> QED
  BY <1>1, <1>2, <1>3, <1>5, <1>6, <1>7, <1>8, EmptyNamed
     DEF NameInv, MayName, SentStill

LEMMA NameStep == TypeOK /\ LineInv /\ NameInv /\ [Next]_vars => NameInv'
<1> SUFFICES ASSUME TypeOK, LineInv, NameInv, [Next]_vars PROVE NameInv'
  OBVIOUS
<1> QED
  BY NameReceive, NameVisit, NameFlush, NameConsumer, NameOther DEF Next

\* A later batch never names the speaker of an SSRC by an older record than
\* an earlier batch, nor by none after one, although speaking updates come
\* between look-ups, visits and a disconnect (onVoiceSpeakingUpdate,
\* userForSSRC, flushExpiredUnresolved, Enqueue).
THEOREM IdentityCorrect == Spec => []IdentityKept
<1>1. Init => NameInv
  BY NameInit
<1>2. TypeOK /\ LineInv /\ NameInv /\ [Next]_vars => NameInv'
  BY NameStep
<1>3. NameInv => IdentityKept
  BY DEF NameInv, NamesKept, Keeps, IdentityKept
<1> QED
  BY <1>1, <1>2, <1>3, LineCorrect, PTL DEF Spec

-----------------------------------------------------------------------------
(* Counting.  While the connection is current the places of a target's     *)
(* line share no packet, and no batch holds one twice: a batch of k        *)
(* packets that leaves the line takes k numbers with it, which is what the *)
(* loop or the consumer adds to a count.                                   *)

Nums(h, b) == {n \in DOMAIN h : Has(b, n)}

\* The numbers in a batch b, being sent, x, queued, q, and held, w.
Line(h, b, x, q, w) ==
  {n \in DOMAIN h : \/ Has(b, n) \/ Has(x, n)
                    \/ \E i \in DOMAIN q : Has(q[i], n)
                    \/ n \in w}

\* What the loop holds for captions besides the batch.
Held(t) ==
  {n \in DOMAIN heard :
     /\ t = "caption"
     /\ Has(pending, n) \/ \E s \in SSRCs : Has(unresolved[s], n)}

Balanced(t) ==
  Len(heard) = Cardinality(UnderWay(t))
               + forwarded[t] + drops[t] + failed[t]
               + (IF t = "caption" THEN overflow ELSE 0)

InBalance == current => \A t \in job.targets : Balanced(t)

\* A consumer is cancelled, or the loop stopped, only after the connection;
\* and a consumer that sends nothing holds nothing.
CountInv ==
  /\ stop \/ cancelled => ~current
  /\ \A t \in Targets : consumer[t] # "sending" => sending[t] = <<>>

LEMMA HeardFinite ==
  ASSUME NEW h \in Seq(SSRCs), NEW S, S \subseteq DOMAIN h
  PROVE  IsFiniteSet(S) /\ Cardinality(S) \in Nat
<1>1. Len(h) \in Nat /\ DOMAIN h = 1 .. Len(h)
  BY LenProperties
<1>2. IsFiniteSet(DOMAIN h)
  BY <1>1, FS_Interval
<1>3. S \in SUBSET (DOMAIN h)
  OBVIOUS
<1>4. IsFiniteSet(S)
  BY <1>2, <1>3, FS_Subset
<1> QED
  BY <1>4, FS_CardinalityType

\* A batch in order holds as many numbers as packets.
LEMMA CountBatch ==
  ASSUME NEW t, NEW h \in Seq(SSRCs), NEW b \in Batches, Heard(h, b),
         InOrder(t, b)
  PROVE  Cardinality(Nums(h, b)) = Len(b) /\ Len(b) \in Nat
<1> DEFINE I == 1 .. Len(b)
           f == [i \in I |-> b[i].n]
<1>1. Len(b) \in Nat /\ DOMAIN b = I
  BY LenProperties DEF Batches
<1>2. \A i \in I : b[i].n \in Nat
  <2>1. \A i \in I : b[i] \in Packet
    BY <1>1, ElementOfSeq DEF Batches
  <2> QED
    BY <2>1 DEF Packet
<1>3. \A i, j \in I : b[i].n = b[j].n => Flow(t, b[i], b[j])
  BY <1>1 DEF Heard, Flow
<1>4. \A i, j \in I : i < j => b[i].n # b[j].n
  <2> SUFFICES ASSUME NEW i \in I, NEW j \in I, i < j, b[i].n = b[j].n
               PROVE  FALSE
    OBVIOUS
  <2>1. b[i].n < b[j].n
    BY <1>1, <1>3 DEF InOrder
  <2> QED
    BY <1>2, <2>1
<1>5. \A i, j \in I : b[i].n = b[j].n => i = j
  <2> SUFFICES ASSUME NEW i \in I, NEW j \in I, i # j
               PROVE  b[i].n # b[j].n
    OBVIOUS
  <2>1. i < j \/ j < i
    BY <1>1
  <2> QED
    BY <1>4, <2>1
<1>6. f \in [I -> Nums(h, b)]
  BY <1>1 DEF Nums, Has, Heard
<1>7. \A i, j \in I : f[i] = f[j] => i = j
  BY <1>5
<1>8. \A n \in Nums(h, b) : \E i \in I : f[i] = n
  BY <1>1 DEF Nums, Has
<1> HIDE DEF f
<1>9. f \in Bijection(I, Nums(h, b))
  BY <1>6, <1>7, <1>8 DEF Bijection, Injection, Surjection, IsInjective
<1>10. ExistsBijection(I, Nums(h, b))
  BY <1>9 DEF ExistsBijection
<1>11. IsFiniteSet(I) /\ Cardinality(I) = Len(b)
  <2>1. 1 \in Int /\ Len(b) \in Int
    BY <1>1
  <2>2. /\ IsFiniteSet(I)
        /\ Cardinality(I) = IF 1 > Len(b) THEN 0 ELSE Len(b) - 1 + 1
    BY <2>1, FS_Interval
  <2> QED
    BY <1>1, <2>2
<1>12. Cardinality(Nums(h, b)) = Cardinality(I)
  <2> HIDE DEF I
  <2> QED
    BY <1>10, <1>11, FS_Bijection
<1> QED
  BY <1>1, <1>11, <1>12

\* Batches of which one is before the other share no packet.
LEMMA Apart ==
  ASSUME NEW t, NEW h \in Seq(SSRCs), NEW b, NEW c, Heard(h, b), Heard(h, c),
         Before(t, b, c) \/ Before(t, c, b), NEW n \in DOMAIN h, Has(b, n)
  PROVE  ~Has(c, n)
<1> SUFFICES ASSUME Has(c, n) PROVE FALSE
  OBVIOUS
<1>1. PICK i \in DOMAIN b : b[i].n = n
  BY DEF Has
<1>2. PICK j \in DOMAIN c : c[j].n = n
  BY DEF Has
<1>3. b[i].ssrc = c[j].ssrc
  BY <1>1, <1>2 DEF Heard
<1>4. n < n
  BY <1>1, <1>2, <1>3 DEF Before, Flow
<1>5. n \in Nat
  BY LenProperties
<1> QED
  BY <1>4, <1>5

\* A batch leaves a set of numbers that holds it.
LEMMA RemoveBatch ==
  ASSUME NEW t, NEW h \in Seq(SSRCs), NEW b \in Batches, Heard(h, b),
         InOrder(t, b), NEW S, NEW T, S \subseteq DOMAIN h,
         T \subseteq DOMAIN h,
         \A n \in DOMAIN h : n \in S <=> Has(b, n) \/ n \in T,
         \A n \in DOMAIN h : Has(b, n) => n \notin T
  PROVE  /\ Cardinality(S) = Cardinality(T) + Len(b)
         /\ Cardinality(T) \in Nat
<1> DEFINE B == Nums(h, b)
<1>1. B \subseteq DOMAIN h
  BY DEF Nums
<1>2. T = S \ B /\ S \cap B = B
  BY DEF Nums
<1>3. Cardinality(B) = Len(b) /\ Len(b) \in Nat
  BY CountBatch
<1> HIDE DEF B
<1>4. Cardinality(S) \in Nat /\ IsFiniteSet(S) /\ Cardinality(T) \in Nat
  BY HeardFinite
<1>5. Cardinality(S \ B) = Cardinality(S) - Cardinality(S \cap B)
  BY <1>4, FS_Difference
<1>6. Cardinality(T) = Cardinality(S) - Len(b)
  BY <1>2, <1>3, <1>5
<1> QED
  BY <1>3, <1>4, <1>6

\* One more number is heard, m, and at most that one joins the set S.
Grows(h, s, m, S, T) ==
  /\ h \in Seq(SSRCs) /\ s \in SSRCs /\ m = Len(h) + 1
  /\ S \subseteq DOMAIN h /\ T \subseteq DOMAIN Append(h, s)
  /\ \A n \in DOMAIN h : n \in T <=> n \in S

LEMMA GrowLine ==
  ASSUME NEW h, NEW s, NEW m, NEW S, NEW T, Grows(h, s, m, S, T)
  PROVE  /\ m \in T => Cardinality(T) = Cardinality(S) + 1
         /\ m \notin T => Cardinality(T) = Cardinality(S)
<1> USE DEF Grows
<1>1. /\ Len(h) \in Nat /\ DOMAIN h = 1 .. Len(h)
      /\ DOMAIN Append(h, s) = 1 .. m
  BY AppendProperties, LenProperties
<1>2. m \notin S /\ \A n \in T : n = m \/ n \in DOMAIN h
  BY <1>1
<1>3. IsFiniteSet(S)
  BY HeardFinite
<1>4. CASE m \in T
  <2>1. T = S \cup {m}
    BY <1>2, <1>4
  <2> QED
    BY <1>2, <1>3, <1>4, <2>1, FS_AddElement
<1>5. CASE m \notin T
  <2>1. T = S
    BY <1>2, <1>5
  <2> QED
    BY <1>5, <2>1
<1> QED
  BY <1>4, <1>5

\* Where the numbers of batches put together, extended or relabelled are.
LEMMA HasEmpty == \A n : ~Has(<<>>, n)
BY DEF Has

LEMMA HasConcat ==
  ASSUME NEW b \in Batches, NEW c \in Batches, NEW n
  PROVE  Has(b \o c, n) <=> Has(b, n) \/ Has(c, n)
<1>1. /\ b \o c \in Seq(Packet) /\ Len(b \o c) = Len(b) + Len(c)
      /\ \A k \in 1 .. Len(b) + Len(c) :
           (b \o c)[k] = IF k <= Len(b) THEN b[k] ELSE c[k - Len(b)]
  BY ConcatProperties DEF Batches
<1>2. /\ Len(b) \in Nat /\ DOMAIN b = 1 .. Len(b)
      /\ Len(c) \in Nat /\ DOMAIN c = 1 .. Len(c)
      /\ DOMAIN (b \o c) = 1 .. Len(b) + Len(c)
  BY <1>1, LenProperties DEF Batches
<1>3. ASSUME NEW i \in DOMAIN b, b[i].n = n PROVE Has(b \o c, n)
  <2>1. i \in DOMAIN (b \o c) /\ (b \o c)[i] = b[i]
    BY <1>1, <1>2
  <2> QED
    BY <1>3, <2>1 DEF Has
<1>4. ASSUME NEW j \in DOMAIN c, c[j].n = n PROVE Has(b \o c, n)
  <2>1. /\ Len(b) + j \in DOMAIN (b \o c)
        /\ (b \o c)[Len(b) + j] = c[j]
    <3>1. Len(b) + j \in 1 .. Len(b) + Len(c) /\ ~(Len(b) + j <= Len(b))
          /\ (Len(b) + j) - Len(b) = j
      BY <1>2
    <3> QED
      BY <1>1, <1>2, <3>1
  <2> QED
    BY <1>4, <2>1 DEF Has
<1>5. ASSUME Has(b \o c, n) PROVE Has(b, n) \/ Has(c, n)
  <2>1. PICK i \in DOMAIN (b \o c) : (b \o c)[i].n = n
    BY <1>5 DEF Has
  <2> QED
    BY <2>1, ConcatElements DEF Has
<1> QED
  BY <1>3, <1>4, <1>5 DEF Has

LEMMA HasAppend ==
  ASSUME NEW b \in Batches, NEW p \in Packet, NEW n
  PROVE  Has(Append(b, p), n) <=> Has(b, n) \/ p.n = n
<1> DEFINE e == Append(b, p)
<1>1. /\ Len(b) \in Nat /\ DOMAIN b = 1 .. Len(b)
      /\ DOMAIN e = 1 .. Len(b) + 1
      /\ \A k \in 1 .. Len(b) : e[k] = b[k]
      /\ e[Len(b) + 1] = p
  BY AppendProperties, LenProperties DEF Batches
<1>2. /\ \A k \in DOMAIN b : k \in DOMAIN e /\ e[k] = b[k]
      /\ Len(b) + 1 \in DOMAIN e
      /\ \A k \in DOMAIN e : e[k] = p \/ (k \in DOMAIN b /\ e[k] = b[k])
  BY <1>1
<1> HIDE DEF e
<1>3. Has(e, n) <=> Has(b, n) \/ p.n = n
  BY <1>1, <1>2 DEF Has
<1> QED
  BY <1>3 DEF e

LEMMA HasRelabelled ==
  ASSUME NEW b \in Batches, NEW u \in Users, NEW n
  PROVE  Has([i \in DOMAIN b |-> [b[i] EXCEPT !.user = u]], n) <=> Has(b, n)
<1> DEFINE R == [i \in DOMAIN b |-> [b[i] EXCEPT !.user = u]]
<1>1. \A i \in DOMAIN b : [b[i] EXCEPT !.user = u].n = b[i].n
  BY Relabelled DEF Batches
<1>2. DOMAIN R = DOMAIN b /\ \A i \in DOMAIN b : R[i].n = b[i].n
  BY <1>1
<1> HIDE DEF R
<1>3. Has(R, n) <=> Has(b, n)
  BY <1>2 DEF Has
<1> QED
  BY <1>3 DEF R

\* Enqueueing the batch and taking the head of the queue lose nothing.
LEMMA EnqueuedLine ==
  ASSUME NEW h, NEW b \in Batches, NEW x, NEW q \in Seq(Batches), NEW w
  PROVE  Line(h, <<>>, x, Append(q, b), w) = Line(h, b, x, q, w)
<1> DEFINE r == Append(q, b)
<1>1. /\ Len(q) \in Nat /\ DOMAIN q = 1 .. Len(q)
      /\ DOMAIN r = 1 .. Len(q) + 1
      /\ \A k \in 1 .. Len(q) : r[k] = q[k]
      /\ r[Len(q) + 1] = b
  BY AppendProperties, LenProperties
<1>2. /\ \A k \in DOMAIN q : k \in DOMAIN r /\ r[k] = q[k]
      /\ Len(q) + 1 \in DOMAIN r
      /\ \A k \in DOMAIN r : r[k] = b \/ (k \in DOMAIN q /\ r[k] = q[k])
  BY <1>1
<1> HIDE DEF r
<1>3. ASSUME NEW n
      PROVE  (\E i \in DOMAIN r : Has(r[i], n))
               <=> Has(b, n) \/ \E i \in DOMAIN q : Has(q[i], n)
  BY <1>1, <1>2
<1>4. Line(h, <<>>, x, r, w) = Line(h, b, x, q, w)
  BY <1>3, HasEmpty DEF Line
<1> QED
  BY <1>4 DEF r

LEMMA TakenLine ==
  ASSUME NEW h, NEW b, NEW q \in Seq(Batches), q # <<>>, NEW w
  PROVE  Line(h, b, Head(q), Tail(q), w) = Line(h, b, <<>>, q, w)
<1> DEFINE r == Tail(q)
<1>1. /\ Len(q) \in Nat /\ DOMAIN q = 1 .. Len(q) /\ Len(q) > 0
      /\ Tail(q) \in Seq(Batches) /\ Len(Tail(q)) = Len(q) - 1
      /\ \A i \in 1 .. Len(q) - 1 : Tail(q)[i] = q[i + 1]
      /\ Head(q) = q[1]
  BY HeadTailProperties, LenProperties, EmptySeq
<1>2. DOMAIN r = 1 .. Len(q) - 1
  BY <1>1, LenProperties
<1>3. /\ 1 \in DOMAIN q
      /\ \A i \in DOMAIN r : i + 1 \in DOMAIN q /\ r[i] = q[i + 1]
      /\ \A k \in DOMAIN q : k = 1 \/ (k - 1 \in DOMAIN r /\ r[k - 1] = q[k])
  BY <1>1, <1>2
<1> HIDE DEF r
<1>4. ASSUME NEW n
      PROVE  (\E k \in DOMAIN q : Has(q[k], n))
               <=> Has(Head(q), n) \/ \E i \in DOMAIN r : Has(r[i], n)
  BY <1>1, <1>3
<1>5. Line(h, b, Head(q), r, w) = Line(h, b, <<>>, q, w)
  BY <1>4, HasEmpty DEF Line
<1> QED
  BY <1>5 DEF r

\* The batch that is filled leaves, and the batch that is sent.
LEMMA DroppedLine ==
  ASSUME NEW t, NEW h \in Seq(SSRCs), NEW a, NEW x, NEW q, NEW w,
         NEW b \in Batches, Sent(t, h, a, x, q), Ready(t, h, a, x, q, b),
         \A n \in DOMAIN h : Has(b, n) => n \notin w
  PROVE  /\ Cardinality(Line(h, b, x, q, w)) =
              Cardinality(Line(h, <<>>, x, q, w)) + Len(b)
         /\ Cardinality(Line(h, <<>>, x, q, w)) \in Nat
<1> DEFINE S == Line(h, b, x, q, w)
           T == Line(h, <<>>, x, q, w)
<1>1. /\ Heard(h, b) /\ InOrder(t, b) /\ Heard(h, x) /\ Before(t, x, b)
      /\ \A i \in DOMAIN q : Heard(h, q[i]) /\ Before(t, q[i], b)
  BY DEF Ready, Follows, Sent, AllHeard
<1>2. ASSUME NEW n \in DOMAIN h, Has(b, n)
      PROVE  ~Has(x, n) /\ \A i \in DOMAIN q : ~Has(q[i], n)
  BY <1>1, <1>2, Apart
<1>3. S \subseteq DOMAIN h /\ T \subseteq DOMAIN h
  BY DEF Line
<1>4. \A n \in DOMAIN h : n \in S <=> Has(b, n) \/ n \in T
  BY HasEmpty DEF Line
<1>5. \A n \in DOMAIN h : Has(b, n) => n \notin T
  BY <1>2, HasEmpty DEF Line
<1> HIDE DEF S, T
<1>6. Cardinality(S) = Cardinality(T) + Len(b) /\ Cardinality(T) \in Nat
  BY <1>1, <1>3, <1>4, <1>5, RemoveBatch
<1> QED
  BY <1>6 DEF S, T

LEMMA SentLine ==
  ASSUME NEW t, NEW h \in Seq(SSRCs), NEW a, NEW x \in Batches, NEW q, NEW w,
         NEW b, Sent(t, h, a, x, q), Ready(t, h, a, x, q, b),
         \A n \in DOMAIN h : Has(x, n) => n \notin w
  PROVE  /\ Cardinality(Line(h, b, x, q, w)) =
              Cardinality(Line(h, b, <<>>, q, w)) + Len(x)
         /\ Cardinality(Line(h, b, <<>>, q, w)) \in Nat
<1> DEFINE S == Line(h, b, x, q, w)
           T == Line(h, b, <<>>, q, w)
<1>1. /\ Heard(h, b) /\ InOrder(t, x) /\ Heard(h, x) /\ Before(t, x, b)
      /\ \A i \in DOMAIN q : Heard(h, q[i]) /\ Before(t, x, q[i])
  BY DEF Ready, Follows, Sent, AllHeard, SendingInOrder, QueueInOrder
<1>2. ASSUME NEW n \in DOMAIN h, Has(x, n)
      PROVE  ~Has(b, n) /\ \A i \in DOMAIN q : ~Has(q[i], n)
  BY <1>1, <1>2, Apart
<1>3. S \subseteq DOMAIN h /\ T \subseteq DOMAIN h
  BY DEF Line
<1>4. \A n \in DOMAIN h : n \in S <=> Has(x, n) \/ n \in T
  BY HasEmpty DEF Line
<1>5. \A n \in DOMAIN h : Has(x, n) => n \notin T
  BY <1>2, HasEmpty DEF Line
<1> HIDE DEF S, T
<1>6. Cardinality(S) = Cardinality(T) + Len(x) /\ Cardinality(T) \in Nat
  BY <1>1, <1>3, <1>4, <1>5, RemoveBatch
<1> QED
  BY <1>6 DEF S, T

LEMMA UnderWayLine ==
  ASSUME NEW t
  PROVE  /\ UnderWay(t) =
              Line(heard, batch[t], sending[t], queue[t], Held(t))
         /\ UnderWay(t)' =
              Line(heard', batch'[t], sending'[t], queue'[t], Held(t)')
<1>1. UnderWay(t) = Line(heard, batch[t], sending[t], queue[t], Held(t))
  BY DEF UnderWay, Line, Held
<1>2. UnderWay(t)' = Line(heard', batch'[t], sending'[t], queue'[t], Held(t)')
  BY DEF UnderWay, Line, Held
<1> QED
  BY <1>1, <1>2

\* What the loop holds for captions is neither in the batch nor being sent.
LEMMA HeldApart ==
  ASSUME TypeOK, LineInv, current, NEW t \in Targets,
         NEW n \in DOMAIN heard, Has(batch[t], n) \/ Has(sending[t], n)
  PROVE  n \notin Held(t)
<1> SUFFICES ASSUME t = "caption" PROVE n \notin Held(t)
  BY DEF Held
<1>1. heard \in Seq(SSRCs)
  BY DEF TypeOK
<1>2. Heard(heard, sending[t]) /\ Heard(heard, batch[t])
  BY DEF LineInv, SentInv, Sent, AllHeard, LoopInv, MayEnqueue, Ready
<1>3. /\ Heard(heard, pending) /\ Before(t, sending[t], pending)
      /\ Before(t, batch[t], pending)
  BY DEF LineInv, LoopInv, PendingInv, MayEnqueue, Ready, Follows
<1>4. \A s \in SSRCs :
        /\ Heard(heard, unresolved[s]) /\ Before(t, sending[t], unresolved[s])
        /\ Before(t, batch[t], unresolved[s])
  BY DEF LineInv, LoopInv, WaitingInv, MayEnqueue, Ready, Follows
<1>5. ~Has(pending, n)
  BY <1>1, <1>2, <1>3, Apart
<1>6. \A s \in SSRCs : ~Has(unresolved[s], n)
  BY <1>1, <1>2, <1>4, Apart
<1> QED
  BY <1>5, <1>6 DEF Held

LEMMA CountInit == Init => CountInv
BY DEF Init, CountInv

LEMMA CountStep == TypeOK /\ CountInv /\ [Next]_vars => CountInv'
<1> SUFFICES ASSUME TypeOK, CountInv, [Next]_vars PROVE CountInv'
  OBVIOUS
<1>1. /\ consumer \in [Targets -> {"idle", "sending", "ended"}]
      /\ sending \in [Targets -> Seq(Packet)]
  BY DEF TypeOK
<1>2. CASE \E t \in Targets :
             Take(t) \/ Quit(t) \/ Succeeds(t) \/ Retry(t) \/ GivesUp(t)
  <2>1. PICK t \in Targets :
          Take(t) \/ Quit(t) \/ Succeeds(t) \/ Retry(t) \/ GivesUp(t)
    BY <1>2
  <2>2. UNCHANGED <<stop, cancelled, current>>
    BY <2>1 DEF Take, Quit, Succeeds, Retry, GivesUp
  <2>3. \A u \in Targets : u # t =>
          consumer'[u] = consumer[u] /\ sending'[u] = sending[u]
    BY <1>1, <2>1 DEF Take, Quit, Succeeds, Retry, GivesUp, Returned
  <2>4. consumer'[t] # "sending" => sending'[t] = <<>>
    BY <1>1, <2>1
       DEF Take, Quit, Succeeds, Retry, GivesUp, Returned, CountInv
  <2> QED
    BY <2>2, <2>3, <2>4 DEF CountInv
<1>3. CASE ~\E t \in Targets :
              Take(t) \/ Quit(t) \/ Succeeds(t) \/ Retry(t) \/ GivesUp(t)
  <2>1. UNCHANGED <<consumer, sending>>
    BY <1>3 DEF Next, vars, sendVars, Disconnected, StopSeen, NotCurrent,
         ReceiveClosed, Return, Ended, Monitor, Visited, SpeakerKnown, Visit,
         Receive, Tick, Flush
  <2>2. stop' \/ cancelled' => ~current'
    BY <1>3 DEF CountInv, Next, vars, Disconnected, StopSeen, NotCurrent,
         ReceiveClosed, Return, Ended, Monitor, Visited, SpeakerKnown, Visit,
         Receive, Tick, Flush
  <2> QED
    BY <2>1, <2>2 DEF CountInv
<1> QED
  BY <1>2, <1>3

LEMMA LossInit == Init => InBalance
<1> SUFFICES ASSUME Init, NEW t \in job.targets PROVE Balanced(t)
  BY DEF InBalance
<1>1. t \in Targets
  BY DEF Init, JobKinds, Targets
<1>2. /\ heard = <<>> /\ forwarded[t] = 0 /\ drops[t] = 0 /\ failed[t] = 0
      /\ overflow = 0 /\ DOMAIN heard = {} /\ Len(heard) = 0
  BY <1>1 DEF Init
<1>3. UnderWay(t) = {}
  BY <1>2 DEF UnderWay
<1>4. Cardinality(UnderWay(t)) = 0
  BY <1>3, FS_EmptySet
<1> QED
  BY <1>2, <1>4 DEF Balanced

\* A step that moves packets only within the line.
LEMMA LossKept ==
  ASSUME InBalance, current' => current,
         UNCHANGED <<job, heard, forwarded, drops, failed, overflow>>,
         current' => \A t \in job.targets : UnderWay(t)' = UnderWay(t)
  PROVE  InBalance'
BY DEF InBalance, Balanced

LEMMA LossVisit ==
  ASSUME TypeOK, LineInv, InBalance, NEW s \in SSRCs,
         NEW over \in BOOLEAN, Visit(s, over)
  PROVE  InBalance'
<1> DEFINE R == [i \in DOMAIN unresolved[s] |->
                   [unresolved[s][i] EXCEPT !.user = Resolve(s, fallback)]]
<1>1. UNCHANGED <<job, heard, current, forwarded, drops, failed, overflow,
                  queue, sending, pending>>
  BY DEF Visit, fixed, sendVars
<1>2. /\ unresolved \in [SSRCs -> Batches] /\ batch \in [Targets -> Batches]
      /\ "caption" \in Targets /\ Resolve(s, fallback) \in Users
  BY ResolveType DEF TypeOK, Batches, Targets
<1>3. R \in Batches /\ \A n : Has(R, n) <=> Has(unresolved[s], n)
  <2>1. unresolved[s] \in Batches
    BY <1>2
  <2> QED
    BY <1>2, <2>1, Relabelled, HasRelabelled DEF Batches
<1>4. \/ UNCHANGED <<batch, unresolved>>
      \/ /\ batch' = [batch EXCEPT !["caption"] = batch["caption"] \o R]
         /\ unresolved' = [unresolved EXCEPT ![s] = <<>>]
  BY DEF Visit
<1> HIDE DEF R
<1>5. CASE UNCHANGED <<batch, unresolved>>
  BY <1>1, <1>5, LossKept DEF UnderWay
<1>6. CASE /\ batch' = [batch EXCEPT !["caption"] = batch["caption"] \o R]
           /\ unresolved' = [unresolved EXCEPT ![s] = <<>>]
  <2>1. /\ \A t \in Targets : t # "caption" => batch'[t] = batch[t]
        /\ batch'["caption"] = batch["caption"] \o R
        /\ unresolved'[s] = <<>>
        /\ \A v \in SSRCs : v # s => unresolved'[v] = unresolved[v]
    BY <1>2, <1>6
  <2>2. \A n : Has(batch'["caption"], n) <=>
                 Has(batch["caption"], n) \/ Has(unresolved[s], n)
    BY <1>2, <1>3, <2>1, HasConcat
  <2>3. \A n : (\E v \in SSRCs : Has(unresolved[v], n)) <=>
                 \/ Has(unresolved[s], n)
                 \/ \E v \in SSRCs : Has(unresolved'[v], n)
    BY <2>1, HasEmpty
  <2>4. ASSUME NEW t \in Targets PROVE UnderWay(t)' = UnderWay(t)
    <3>1. CASE t # "caption"
      BY <1>1, <2>1, <3>1 DEF UnderWay
    <3>2. CASE t = "caption"
      BY <1>1, <2>2, <2>3, <3>2 DEF UnderWay
    <3> QED
      BY <3>1, <3>2
  <2>5. job.targets \subseteq Targets
    BY DEF TypeOK, JobKinds, Targets
  <2> QED
    BY <1>1, <2>4, <2>5, LossKept
<1> QED
  BY <1>4, <1>5, <1>6

LEMMA LossVisited ==
  ASSUME TypeOK, LineInv, InBalance, Visited
  PROVE  InBalance'
<1>1. UNCHANGED <<job, heard, current, forwarded, drops, failed, overflow,
                  queue, sending, unresolved>>
  BY DEF Visited, fixed, sendVars
<1>2. /\ batch \in [Targets -> Batches] /\ pending \in Batches
      /\ "caption" \in Targets /\ job.targets \subseteq Targets
  BY DEF TypeOK, Batches, Targets, JobKinds
<1>3. /\ \A t \in Targets : t # "caption" => batch'[t] = batch[t]
      /\ batch'["caption"] = batch["caption"] \o pending
      /\ pending' = <<>>
  BY <1>2 DEF Visited
<1>4. \A n : Has(batch'["caption"], n) <=>
               Has(batch["caption"], n) \/ Has(pending, n)
  BY <1>2, <1>3, HasConcat
<1>5. ASSUME NEW t \in Targets PROVE UnderWay(t)' = UnderWay(t)
  <2>1. CASE t # "caption"
    BY <1>1, <1>3, <2>1 DEF UnderWay
  <2>2. CASE t = "caption"
    BY <1>1, <1>3, <1>4, <2>2, HasEmpty DEF UnderWay
  <2> QED
    BY <2>1, <2>2
<1> QED
  BY <1>1, <1>2, <1>5, LossKept

\* A step on target t that takes a batch of k packets out of its line and
\* adds k to one of its counts.
LEMMA LossCounted ==
  ASSUME TypeOK, InBalance, NEW t \in Targets, NEW k \in Nat,
         current, UNCHANGED <<job, heard, overflow>>,
         \A u \in job.targets : u # t =>
           /\ UnderWay(u)' = UnderWay(u)
           /\ UNCHANGED <<forwarded[u], drops[u], failed[u]>>,
         Cardinality(UnderWay(t)) = Cardinality(UnderWay(t)') + k,
         Cardinality(UnderWay(t)') \in Nat,
         \/ forwarded'[t] = forwarded[t] + k
            /\ drops'[t] = drops[t] /\ failed'[t] = failed[t]
         \/ forwarded'[t] = forwarded[t]
            /\ drops'[t] = drops[t] + k /\ failed'[t] = failed[t]
         \/ forwarded'[t] = forwarded[t]
            /\ drops'[t] = drops[t] /\ failed'[t] = failed[t] + k
  PROVE  InBalance'
<1>1. ASSUME NEW u \in job.targets PROVE Balanced(u)'
  <2>1. Balanced(u)
    BY DEF InBalance, Balanced
  <2>2. CASE u # t
    BY <1>1, <2>1, <2>2 DEF Balanced
  <2>3. CASE u = t
    <3>1. /\ forwarded[t] \in Nat /\ drops[t] \in Nat /\ failed[t] \in Nat
          /\ overflow \in Nat
      BY DEF TypeOK
    <3>2. Len(heard) = Cardinality(UnderWay(t)')
                       + forwarded'[t] + drops'[t] + failed'[t]
                       + (IF t = "caption" THEN overflow ELSE 0)
      <4>1. PICK o : o = IF t = "caption" THEN overflow ELSE 0
        OBVIOUS
      <4>2. o \in Nat
        BY <3>1, <4>1
      <4>3. Len(heard) = Cardinality(UnderWay(t)) + forwarded[t] + drops[t]
                         + failed[t] + o
        BY <2>1, <2>3, <4>1 DEF Balanced
      <4>4. /\ forwarded'[t] \in Nat /\ drops'[t] \in Nat
            /\ failed'[t] \in Nat
        BY <3>1
      <4>5. PICK c \in Nat : c = Cardinality(UnderWay(t)')
        OBVIOUS
      <4>6. Len(heard) = (c + k) + forwarded[t] + drops[t] + failed[t] + o
        BY <4>3, <4>5
      <4>7. Len(heard) = c + forwarded'[t] + drops'[t] + failed'[t] + o
        <5>1. PICK f \in Nat, d \in Nat, e \in Nat :
                f = forwarded[t] /\ d = drops[t] /\ e = failed[t]
          BY <3>1
        <5>2. PICK g \in Nat, i \in Nat, j \in Nat :
                g = forwarded'[t] /\ i = drops'[t] /\ j = failed'[t]
          BY <4>4
        <5>3. \/ g = f + k /\ i = d /\ j = e
              \/ g = f /\ i = d + k /\ j = e
              \/ g = f /\ i = d /\ j = e + k
          BY <5>1, <5>2
        <5>4. (c + k) + f + d + e + o = c + g + i + j + o
          BY <4>2, <5>3
        <5> QED
          BY <4>6, <5>1, <5>2, <5>4
      <4> QED
        BY <4>1, <4>5, <4>7
    <3> QED
      BY <2>3, <3>2 DEF Balanced
  <2> QED
    BY <2>2, <2>3
<1> QED
  BY <1>1 DEF InBalance, Balanced

\* A batch goes to the queue, or it is dropped and counted.
LEMMA LossFlush ==
  ASSUME TypeOK, TypeOK', LineInv, InBalance, NEW t \in Targets, Flush(t)
  PROVE  InBalance'
<1> SUFFICES ASSUME current PROVE InBalance'
  BY DEF Flush, InBalance
<1> DEFINE b == batch[t]
           q == queue[t]
<1>1. UNCHANGED <<job, heard, current, forwarded, overflow, sending, pending,
                  unresolved>>
  BY DEF Flush, fixed, sendVars
<1>2. /\ batch \in [Targets -> Batches] /\ queue \in [Targets -> Seq(Batches)]
      /\ drops \in [Targets -> Nat] /\ failed \in [Targets -> Nat]
      /\ drops' \in [Targets -> Nat] /\ failed' \in [Targets -> Nat]
      /\ forwarded' \in [Targets -> Nat]
      /\ heard \in Seq(SSRCs) /\ job.targets \subseteq Targets
  BY DEF TypeOK, Batches, JobKinds, Targets
<1>3. /\ \A u \in Targets : u # t => batch'[u] = batch[u]
      /\ batch'[t] = <<>>
  BY <1>2 DEF Flush
<1>4. \/ b = <<>> /\ UNCHANGED <<queue, drops, failed, errors>>
      \/ /\ queue' = [queue EXCEPT ![t] = Append(q, b)]
         /\ UNCHANGED <<drops, failed, errors>>
      \/ /\ \/ drops' = [drops EXCEPT ![t] = @ + Len(b)] /\ failed' = failed
            \/ failed' = [failed EXCEPT ![t] = @ + Len(b)] /\ drops' = drops
         /\ UNCHANGED queue
  BY DEF Flush, RecordFailure, EnqueueIfCurrent, Enqueue, RecordDrop
<1>5. \A u \in Targets : u # t =>
        queue'[u] = queue[u] /\ drops'[u] = drops[u] /\ failed'[u] = failed[u]
  <2> HIDE DEF b, q
  <2> QED
    BY <1>2, <1>4
<1>6. \A u \in Targets : u # t => UnderWay(u)' = UnderWay(u)
  BY <1>1, <1>3, <1>5 DEF UnderWay
<1>7. Held(t)' = Held(t)
  BY <1>1 DEF Held
<1>8. CASE b = <<>> /\ UNCHANGED <<queue, drops, failed, errors>>
  <2>1. batch'[t] = batch[t] /\ queue'[t] = queue[t]
    BY <1>3, <1>8
  <2>2. UnderWay(t)' = UnderWay(t)
    BY <1>1, <2>1 DEF UnderWay
  <2> QED
    BY <1>1, <1>2, <1>6, <1>8, <2>2, LossKept
<1>9. CASE /\ queue' = [queue EXCEPT ![t] = Append(q, b)]
           /\ UNCHANGED <<drops, failed, errors>>
  <2>1. queue'[t] = Append(q, b)
    BY <1>2, <1>9
  <2>2. /\ UnderWay(t) = Line(heard, b, sending[t], q, Held(t))
        /\ UnderWay(t)' = Line(heard, <<>>, sending[t], Append(q, b), Held(t))
    BY <1>1, <1>3, <1>7, <2>1, UnderWayLine
  <2>3. UnderWay(t)' = UnderWay(t)
    <3>1. b \in Batches /\ q \in Seq(Batches)
      BY <1>2
    <3> HIDE DEF b, q
    <3> QED
      BY <2>2, <3>1, EnqueuedLine
  <2> QED
    BY <1>1, <1>2, <1>6, <1>9, <2>3, LossKept
<1>10. CASE /\ \/ drops' = [drops EXCEPT ![t] = @ + Len(b)] /\ failed' = failed
               \/ failed' = [failed EXCEPT ![t] = @ + Len(b)]
                  /\ drops' = drops
            /\ UNCHANGED queue
  <2>1. Len(b) \in Nat /\ b \in Batches
    BY <1>2, LenProperties DEF Batches
  <2>2. /\ Sent(t, heard, arrived[t], sending[t], q)
        /\ Ready(t, heard, arrived[t], sending[t], q, b)
    BY DEF LineInv, SentInv, LoopInv, MayEnqueue
  <2>3. \A n \in DOMAIN heard : Has(b, n) => n \notin Held(t)
    BY HeldApart
  <2>4. /\ UnderWay(t) = Line(heard, b, sending[t], q, Held(t))
        /\ UnderWay(t)' = Line(heard, <<>>, sending[t], q, Held(t))
    BY <1>1, <1>3, <1>7, <1>10, UnderWayLine
  <2>5. /\ Cardinality(UnderWay(t)) = Cardinality(UnderWay(t)') + Len(b)
        /\ Cardinality(UnderWay(t)') \in Nat
    <3> HIDE DEF b, q
    <3> QED
      BY <1>2, <2>1, <2>2, <2>3, <2>4, DroppedLine
  <2>6. \/ drops'[t] = drops[t] + Len(b) /\ failed'[t] = failed[t]
        \/ failed'[t] = failed[t] + Len(b) /\ drops'[t] = drops[t]
    <3> HIDE DEF b
    <3> QED
      BY <1>2, <1>10
  <2>7. forwarded'[t] = forwarded[t]
    BY <1>1
  <2> HIDE DEF b, q
  <2>8. \A u \in job.targets : u # t =>
          /\ UnderWay(u)' = UnderWay(u)
          /\ UNCHANGED <<forwarded[u], drops[u], failed[u]>>
    BY <1>1, <1>2, <1>5, <1>6
  <2> QED
    BY <1>1, <2>1, <2>5, <2>6, <2>7, <2>8, LossCounted
<1> QED
  BY <1>4, <1>8, <1>9, <1>10

\* The head of the queue is sent; a batch sent is forwarded or failed.
LEMMA LossConsumer ==
  ASSUME TypeOK, TypeOK', LineInv, CountInv, InBalance, NEW t \in Targets,
         Take(t) \/ Quit(t) \/ Succeeds(t) \/ Retry(t) \/ GivesUp(t)
  PROVE  InBalance'
<1>1. UNCHANGED <<job, heard, current, drops, overflow, pending, unresolved,
                  batch, cancelled>>
  BY DEF Take, Quit, Succeeds, Retry, GivesUp, fixed, loopVars
<1> SUFFICES ASSUME current PROVE InBalance'
  BY <1>1 DEF InBalance
<1>2. ~cancelled
  BY DEF CountInv
<1> DEFINE x == sending[t]
           q == queue[t]
<1>3. /\ sending \in [Targets -> Batches]
      /\ queue \in [Targets -> Seq(Batches)]
      /\ forwarded \in [Targets -> Nat] /\ failed \in [Targets -> Nat]
      /\ forwarded' \in [Targets -> Nat] /\ failed' \in [Targets -> Nat]
      /\ drops' \in [Targets -> Nat]
      /\ heard \in Seq(SSRCs) /\ job.targets \subseteq Targets
  BY DEF TypeOK, Batches, JobKinds, Targets
<1>4. Held(t)' = Held(t)
  BY <1>1 DEF Held
<1>5. CASE Take(t)
  <2>1. UNCHANGED <<forwarded, failed>> /\ x = <<>> /\ q # <<>>
    BY <1>5 DEF Take, CountInv
  <2>2. sending'[t] = Head(q) /\ queue'[t] = Tail(q)
    BY <1>2, <1>3, <1>5 DEF Take
  <2>3. \A u \in Targets : u # t =>
          sending'[u] = sending[u] /\ queue'[u] = queue[u]
    BY <1>2, <1>3, <1>5 DEF Take
  <2>4. UnderWay(t)' = UnderWay(t)
    <3>1. /\ UnderWay(t) = Line(heard, batch[t], <<>>, q, Held(t))
          /\ UnderWay(t)' =
               Line(heard, batch[t], Head(q), Tail(q), Held(t))
      BY <1>1, <1>4, <2>1, <2>2, UnderWayLine
    <3>2. q \in Seq(Batches)
      BY <1>3
    <3> HIDE DEF q
    <3> QED
      BY <2>1, <3>1, <3>2, TakenLine
  <2>5. \A u \in Targets : u # t => UnderWay(u)' = UnderWay(u)
    BY <1>1, <2>3 DEF UnderWay
  <2> QED
    BY <1>1, <1>3, <2>1, <2>4, <2>5, LossKept
<1>6. CASE Quit(t) \/ Retry(t)
  <2>1. UNCHANGED <<forwarded, failed, sending, queue>>
    BY <1>6 DEF Quit, Retry
  <2> QED
    BY <1>1, <2>1, LossKept DEF UnderWay
<1>7. CASE Succeeds(t) \/ GivesUp(t)
  <2>1. /\ UNCHANGED queue /\ sending' = [sending EXCEPT ![t] = <<>>]
        /\ \/ forwarded' = [forwarded EXCEPT ![t] = @ + Len(x)]
              /\ failed' = failed
           \/ failed' = [failed EXCEPT ![t] = @ + Len(x)]
              /\ forwarded' = forwarded
    BY <1>2, <1>7 DEF Succeeds, GivesUp, Returned, RecordFailure
  <2>2. Len(x) \in Nat /\ x \in Batches
    BY <1>3, LenProperties DEF Batches
  <2>3. /\ Sent(t, heard, arrived[t], x, q)
        /\ Ready(t, heard, arrived[t], x, q, batch[t])
    BY DEF LineInv, SentInv, LoopInv, MayEnqueue
  <2>4. \A n \in DOMAIN heard : Has(x, n) => n \notin Held(t)
    BY HeldApart
  <2>5. /\ sending'[t] = <<>>
        /\ \A u \in Targets : u # t => sending'[u] = sending[u]
    BY <1>3, <2>1
  <2>6. /\ UnderWay(t) = Line(heard, batch[t], x, q, Held(t))
        /\ UnderWay(t)' = Line(heard, batch[t], <<>>, q, Held(t))
    BY <1>1, <1>4, <2>1, <2>5, UnderWayLine
  <2>7. \A u \in Targets : u # t => UnderWay(u)' = UnderWay(u)
    BY <1>1, <2>1, <2>5 DEF UnderWay
  <2> HIDE DEF x, q
  <2>8. /\ Cardinality(UnderWay(t)) = Cardinality(UnderWay(t)') + Len(x)
        /\ Cardinality(UnderWay(t)') \in Nat
    BY <1>3, <2>2, <2>3, <2>4, <2>6, SentLine
  <2>9. /\ \/ forwarded'[t] = forwarded[t] + Len(x) /\ failed'[t] = failed[t]
           \/ failed'[t] = failed[t] + Len(x) /\ forwarded'[t] = forwarded[t]
        /\ \A u \in Targets : u # t =>
             forwarded'[u] = forwarded[u] /\ failed'[u] = failed[u]
    BY <1>3, <2>1
  <2>10. drops'[t] = drops[t]
    BY <1>1
  <2>11. \A u \in job.targets : u # t =>
           /\ UnderWay(u)' = UnderWay(u)
           /\ UNCHANGED <<forwarded[u], drops[u], failed[u]>>
    BY <1>1, <1>3, <2>7, <2>9
  <2> QED
    BY <1>1, <2>2, <2>8, <2>9, <2>10, <2>11, LossCounted
<1> QED
  BY <1>5, <1>6, <1>7

LEMMA LossSmall ==
  ASSUME TypeOK, LineInv, CountInv, InBalance,
         \/ Disconnected \/ StopSeen \/ NotCurrent \/ ReceiveClosed \/ Ended
         \/ Monitor \/ UNCHANGED vars
         \/ \E s \in SSRCs : SpeakerKnown(s)
         \/ \E d \in SUBSET job.targets, fb \in BOOLEAN : Tick(d, fb)
  PROVE  InBalance'
<1>1. CASE Disconnected \/ StopSeen \/ NotCurrent \/ ReceiveClosed
  BY <1>1 DEF Disconnected, StopSeen, NotCurrent, ReceiveClosed, CountInv,
              InBalance
<1>2. CASE \/ Ended \/ Monitor \/ UNCHANGED vars
           \/ \E s \in SSRCs : SpeakerKnown(s)
           \/ \E d \in SUBSET job.targets, fb \in BOOLEAN : Tick(d, fb)
  <2>1. UNCHANGED <<job, current, heard, forwarded, drops, failed, overflow,
                    batch, sending, queue, unresolved>>
    BY <1>2 DEF Ended, Monitor, vars, SpeakerKnown, Tick, loopVars, sendVars,
                fixed
  <2>2. current => pending' = pending
    BY <1>2 DEF Ended, Monitor, vars, SpeakerKnown, Tick, loopVars,
                LineInv, LoopInv, PendingInv
  <2> QED
    BY <2>1, <2>2, LossKept DEF UnderWay
<1> QED
  BY <1>1, <1>2

\* A packet received enters the line of every target, or is counted as one
\* beyond the buffer of its SSRC.
LEMMA LossReceive ==
  ASSUME TypeOK, LineInv, InBalance, NEW fb \in BOOLEAN, Receive(fb)
  PROVE  InBalance'
<1> DEFINE s == Feed[Len(heard) + 1]
           m == Len(heard) + 1
           p == [n |-> m, ssrc |-> s, user |-> Resolve(s, fb)]
<1>1. /\ UNCHANGED <<job, current, forwarded, drops, failed, queue, sending>>
      /\ heard' = Append(heard, s) /\ current /\ loop = "select"
  BY DEF Receive, RecordReceived, fixed, sendVars
<1>2. Len(heard) \in Nat /\ m \in Nat /\ s \in SSRCs
  <2>1. Len(heard) \in Nat /\ Len(Feed) \in Nat /\ Len(heard) < Len(Feed)
    BY OpusAssumption, LenProperties DEF TypeOK, Receive, HasInput
  <2>2. m \in 1 .. Len(Feed)
    BY <2>1
  <2> QED
    BY <2>1, <2>2, OpusAssumption, ElementOfSeq
<1>3. /\ p \in Packet /\ Unnamed(p) \in Packet /\ p.n = m
      /\ Unnamed(p).n = m /\ p.ssrc = s
  <2>1. Resolve(s, fb) \in Users /\ Nobody \in Users
    BY <1>2, ResolveType DEF TypeOK, Users, Nobody
  <2> QED
    BY <1>2, <2>1 DEF Packet, Unnamed
<1>4. /\ batch \in [Targets -> Batches] /\ unresolved \in [SSRCs -> Batches]
      /\ heard \in Seq(SSRCs) /\ job.targets \subseteq Targets
      /\ "caption" \in Targets /\ "encoder" \in Targets /\ overflow \in Nat
      /\ forwarded \in [Targets -> Nat] /\ drops \in [Targets -> Nat]
      /\ failed \in [Targets -> Nat]
  BY DEF TypeOK, Batches, JobKinds, Targets
<1>5. /\ DOMAIN heard = 1 .. Len(heard) /\ DOMAIN heard' = 1 .. m
      /\ Len(heard') = m
  BY <1>1, <1>2, <1>4, AppendProperties, LenProperties
<1>6. m \notin DOMAIN heard /\ m \in DOMAIN heard'
      /\ DOMAIN heard \subseteq DOMAIN heard'
  BY <1>2, <1>5
<1>7. pending = <<>>
  BY <1>1 DEF LineInv, LoopInv, PendingInv
<1>8. \A c : Heard(heard, c) => ~Has(c, m)
  BY <1>6 DEF Heard, Has
<1>9. ASSUME NEW t \in Targets
      PROVE  /\ ~Has(sending[t], m) /\ ~Has(batch[t], m)
             /\ \A i \in DOMAIN queue[t] : ~Has(queue[t][i], m)
             /\ \A v \in SSRCs : ~Has(unresolved[v], m)
  BY <1>1, <1>8 DEF LineInv, SentInv, Sent, AllHeard, LoopInv, MayEnqueue,
                    Ready, WaitingInv
<1>10. /\ batch'["caption"] = batch["caption"]
       /\ "encoder" \in job.targets =>
            batch'["encoder"] = Append(batch["encoder"], Unnamed(p))
  BY <1>4 DEF Receive
<1>11. "caption" \in job.targets => Keep(p) \/ Release(p)
  BY DEF Receive
<1> HIDE DEF p, m, s
\* What a target's line gains is at most the new number.
<1>12. ASSUME NEW t \in job.targets,
              \A n \in DOMAIN heard : n \in UnderWay(t)' <=> n \in UnderWay(t),
              \/ m \in UnderWay(t)' /\ (t = "caption" => overflow' = overflow)
              \/ /\ m \notin UnderWay(t)' /\ t = "caption"
                 /\ overflow' = overflow + 1
       PROVE  Balanced(t)'
  <2>1. /\ UnderWay(t) \subseteq DOMAIN heard
        /\ UnderWay(t)' \subseteq DOMAIN heard'
    BY DEF UnderWay
  <2>2. /\ m \in UnderWay(t)' =>
             Cardinality(UnderWay(t)') = Cardinality(UnderWay(t)) + 1
        /\ m \notin UnderWay(t)' =>
             Cardinality(UnderWay(t)') = Cardinality(UnderWay(t))
    <3>1. PICK S, T : S = UnderWay(t) /\ T = UnderWay(t)'
      OBVIOUS
    <3>2. /\ S \subseteq DOMAIN heard /\ T \subseteq DOMAIN Append(heard, s)
          /\ \A n \in DOMAIN heard : n \in T <=> n \in S
      BY <1>1, <1>12, <2>1, <3>1
    <3>3. Grows(heard, s, m, S, T)
      BY <1>2, <1>4, <3>2 DEF Grows, m
    <3>4. /\ m \in T => Cardinality(T) = Cardinality(S) + 1
          /\ m \notin T => Cardinality(T) = Cardinality(S)
      BY <3>3, GrowLine
    <3> QED
      BY <3>1, <3>4
  <2>3. PICK c \in Nat : c = Cardinality(UnderWay(t))
    BY <1>4, <2>1, HeardFinite
  <2>4. PICK f \in Nat, d \in Nat, e \in Nat :
          f = forwarded[t] /\ d = drops[t] /\ e = failed[t]
    BY <1>4
  <2>5. PICK o \in Nat : o = IF t = "caption" THEN overflow ELSE 0
    BY <1>4
  <2>6. Len(heard) = c + f + d + e + o
    BY <1>1, <2>3, <2>4, <2>5 DEF InBalance, Balanced
  <2>7. \/ /\ Cardinality(UnderWay(t)') = c + 1
           /\ (IF t = "caption" THEN overflow' ELSE 0) = o
        \/ /\ Cardinality(UnderWay(t)') = c
           /\ (IF t = "caption" THEN overflow' ELSE 0) = o + 1
    BY <1>12, <2>2, <2>3, <2>5
  <2>8. m = Cardinality(UnderWay(t)') + f + d + e
            + (IF t = "caption" THEN overflow' ELSE 0)
    <3>1. PICK g, r : /\ g = Cardinality(UnderWay(t)')
                      /\ r = IF t = "caption" THEN overflow' ELSE 0
      OBVIOUS
    <3>2. (g = c + 1 /\ r = o) \/ (g = c /\ r = o + 1)
      BY <2>7, <3>1
    <3>3. m = c + f + d + e + o + 1
      BY <2>6 DEF m
    <3>4. m = g + f + d + e + r
      BY <3>2, <3>3
    <3> QED
      BY <3>1, <3>4
  <2> QED
    BY <1>1, <1>5, <2>4, <2>8 DEF Balanced
<1>13. ASSUME "encoder" \in job.targets PROVE Balanced("encoder")'
  <2>1. \A n : Has(batch'["encoder"], n) <=>
                 Has(batch["encoder"], n) \/ n = m
    <3>1. PICK b \in Batches, u \in Packet :
            b = batch["encoder"] /\ u = Unnamed(p)
      BY <1>3, <1>4
    <3>2. \A n : Has(Append(b, u), n) <=> Has(b, n) \/ u.n = n
      BY HasAppend
    <3>3. u.n = m /\ batch'["encoder"] = Append(b, u)
      BY <1>3, <1>10, <1>13, <3>1
    <3> QED
      BY <3>1, <3>2, <3>3
  <2>2. \A n \in DOMAIN heard :
          n \in UnderWay("encoder")' <=> n \in UnderWay("encoder")
    BY <1>1, <1>6, <2>1 DEF UnderWay
  <2>3. m \in UnderWay("encoder")'
    BY <1>6, <2>1 DEF UnderWay
  <2> QED
    BY <1>12, <1>13, <2>2, <2>3
<1>14. ASSUME "caption" \in job.targets PROVE Balanced("caption")'
  <2>1. CASE Release(p)
    <3>1. UNCHANGED <<unresolved, overflow>> /\ pending' = <<p>>
      BY <2>1 DEF Release
    <3>2. \A n : Has(<<p>>, n) <=> n = m
      BY <1>3 DEF Has
    <3>3. \A n \in DOMAIN heard :
            n \in UnderWay("caption")' <=> n \in UnderWay("caption")
      BY <1>1, <1>6, <1>7, <1>10, <3>1, <3>2, HasEmpty DEF UnderWay
    <3>4. m \in UnderWay("caption")'
      BY <1>6, <3>1, <3>2 DEF UnderWay
    <3> QED
      BY <1>12, <1>14, <3>1, <3>3, <3>4
  <2>2. CASE /\ unresolved' = [unresolved EXCEPT ![s] = Append(@, p)]
             /\ overflow' = overflow /\ pending' = pending
    <3>1. /\ unresolved'[s] = Append(unresolved[s], p)
          /\ \A v \in SSRCs : v # s => unresolved'[v] = unresolved[v]
      BY <1>2, <1>4, <2>2
    <3>2. \A n : Has(unresolved'[s], n) <=> Has(unresolved[s], n) \/ n = m
      BY <1>2, <1>3, <1>4, <3>1, HasAppend
    <3>3. \A n : (\E v \in SSRCs : Has(unresolved'[v], n)) <=>
                   n = m \/ \E v \in SSRCs : Has(unresolved[v], n)
      BY <1>2, <3>1, <3>2
    <3>4. \A n \in DOMAIN heard :
            n \in UnderWay("caption")' <=> n \in UnderWay("caption")
      BY <1>1, <1>6, <1>10, <2>2, <3>3 DEF UnderWay
    <3>5. m \in UnderWay("caption")'
      BY <1>6, <3>3 DEF UnderWay
    <3> QED
      BY <1>12, <1>14, <2>2, <3>4, <3>5
  <2>3. CASE /\ UNCHANGED <<unresolved, pending>>
             /\ overflow' = overflow + 1
    <3>1. \A n \in DOMAIN heard :
            n \in UnderWay("caption")' <=> n \in UnderWay("caption")
      BY <1>1, <1>6, <1>10, <2>3 DEF UnderWay
    <3>2. m \notin UnderWay("caption")'
      BY <1>1, <1>4, <1>7, <1>9, <1>10, <2>3, HasEmpty DEF UnderWay
    <3> QED
      BY <1>12, <1>14, <2>3, <3>1, <3>2
  <2> QED
    BY <1>3, <1>11, <1>14, <2>1, <2>2, <2>3 DEF Keep
<1> QED
  BY <1>1, <1>4, <1>13, <1>14 DEF InBalance, Balanced, Targets

LEMMA LossStep ==
  /\ TypeOK /\ TypeOK' /\ LineInv /\ CountInv /\ InBalance /\ [Next]_vars
  => InBalance'
<1> SUFFICES ASSUME TypeOK, TypeOK', LineInv, CountInv, InBalance,
                    [Next]_vars
             PROVE  InBalance'
  OBVIOUS
<1> QED
  BY LossReceive, LossVisit, LossVisited, LossFlush, LossConsumer, LossSmall
     DEF Next

-----------------------------------------------------------------------------
(* The count of errors.  It grows by one where drops or failures grow by   *)
(* the packets of a batch; and as no batch that leaves the loop is empty,  *)
(* it grows exactly when they do.                                          *)

Accounted(e, d, f) == e <= d + f /\ (d + f > 0 => e > 0)

NoEmptyBatch ==
  \A t \in Targets :
    /\ consumer[t] = "sending" => sending[t] # <<>>
    /\ \A i \in DOMAIN queue[t] : queue[t][i] # <<>>

ErrorInv ==
  /\ NoEmptyBatch
  /\ \A t \in Targets : Accounted(errors[t], drops[t], failed[t])

LEMMA AccountedMore ==
  ASSUME NEW e \in Nat, NEW d \in Nat, NEW f \in Nat, Accounted(e, d, f),
         NEW k \in Nat, k > 0
  PROVE  Accounted(e + 1, d + k, f) /\ Accounted(e + 1, d, f + k)
BY DEF Accounted

LEMMA ErrorInit == Init => ErrorInv
<1> SUFFICES ASSUME Init, NEW t \in Targets
             PROVE  /\ consumer[t] = "sending" => sending[t] # <<>>
                    /\ \A i \in DOMAIN queue[t] : queue[t][i] # <<>>
                    /\ Accounted(errors[t], drops[t], failed[t])
  BY DEF ErrorInv, NoEmptyBatch
<1>1. /\ consumer[t] # "sending" /\ DOMAIN queue[t] = {}
      /\ errors[t] = 0 /\ drops[t] = 0 /\ failed[t] = 0
  BY DEF Init
<1> QED
  BY <1>1 DEF Accounted

\* One step of target t: nothing is counted, or a batch b that is not empty.
LEMMA ErrorCounted ==
  ASSUME TypeOK, ErrorInv, NEW t \in Targets, NEW b \in Seq(Packet),
         \/ UNCHANGED <<drops, failed, errors>>
         \/ /\ b # <<>>
            /\ errors' = [errors EXCEPT ![t] = errors[t] + 1]
            /\ \/ /\ drops' = [drops EXCEPT ![t] = drops[t] + Len(b)]
                  /\ failed' = failed
               \/ /\ failed' = [failed EXCEPT ![t] = failed[t] + Len(b)]
                  /\ drops' = drops
  PROVE  \A u \in Targets : Accounted(errors'[u], drops'[u], failed'[u])
<1>1. /\ errors \in [Targets -> Nat] /\ drops \in [Targets -> Nat]
      /\ failed \in [Targets -> Nat]
      /\ \A u \in Targets : Accounted(errors[u], drops[u], failed[u])
  BY DEF TypeOK, ErrorInv
<1>2. CASE UNCHANGED <<drops, failed, errors>>
  BY <1>1, <1>2
<1>3. CASE /\ b # <<>>
           /\ errors' = [errors EXCEPT ![t] = errors[t] + 1]
           /\ \/ /\ drops' = [drops EXCEPT ![t] = drops[t] + Len(b)]
                 /\ failed' = failed
              \/ /\ failed' = [failed EXCEPT ![t] = failed[t] + Len(b)]
                 /\ drops' = drops
  <2>1. Len(b) \in Nat /\ Len(b) > 0
    BY <1>3, EmptySeq, LenProperties
  <2>2. PICK k \in Nat : k = Len(b) /\ k > 0
    BY <2>1
  <2>3. /\ errors[t] \in Nat /\ drops[t] \in Nat /\ failed[t] \in Nat
        /\ Accounted(errors[t], drops[t], failed[t])
    BY <1>1
  <2>4. /\ Accounted(errors[t] + 1, drops[t] + k, failed[t])
        /\ Accounted(errors[t] + 1, drops[t], failed[t] + k)
    BY <2>2, <2>3, AccountedMore
  <2>5. /\ errors'[t] = errors[t] + 1
        /\ \/ drops'[t] = drops[t] + k /\ failed'[t] = failed[t]
           \/ drops'[t] = drops[t] /\ failed'[t] = failed[t] + k
        /\ \A u \in Targets : u # t => /\ errors'[u] = errors[u]
                                       /\ drops'[u] = drops[u]
                                       /\ failed'[u] = failed[u]
    BY <1>1, <1>3, <2>2
  <2> QED
    BY <1>1, <2>4, <2>5
<1> QED
  BY <1>2, <1>3

LEMMA ErrorFlush ==
  ASSUME TypeOK, ErrorInv, NEW t \in Targets, Flush(t)
  PROVE  ErrorInv'
<1> DEFINE b == batch[t]
           q == queue[t]
<1>1. UNCHANGED <<consumer, sending>>
  BY DEF Flush, sendVars
<1>2. b \in Seq(Packet) /\ queue \in [Targets -> Seq(Seq(Packet))]
  BY DEF TypeOK
<1>3. /\ \/ UNCHANGED <<drops, failed, errors>>
         \/ /\ b # <<>>
            /\ errors' = [errors EXCEPT ![t] = errors[t] + 1]
            /\ \/ /\ drops' = [drops EXCEPT ![t] = drops[t] + Len(b)]
                  /\ failed' = failed
               \/ /\ failed' = [failed EXCEPT ![t] = failed[t] + Len(b)]
                  /\ drops' = drops
      /\ \/ queue' = queue
         \/ b # <<>> /\ queue' = [queue EXCEPT ![t] = Append(q, b)]
  BY DEF Flush, RecordFailure, RecordDrop, RecordError, EnqueueIfCurrent,
         Enqueue
<1>4. \A u \in Targets : Accounted(errors'[u], drops'[u], failed'[u])
  <2> HIDE DEF b
  <2> QED
    BY <1>2, <1>3, ErrorCounted
<1>5. ASSUME NEW u \in Targets, NEW i \in DOMAIN queue'[u]
      PROVE  queue'[u][i] # <<>>
  <2>1. CASE queue'[u] = queue[u]
    BY <1>5, <2>1 DEF ErrorInv, NoEmptyBatch
  <2>2. CASE u = t /\ b # <<>> /\ queue'[t] = Append(q, b)
    <3>1. q \in Seq(Seq(Packet)) /\ \A j \in DOMAIN q : q[j] # <<>>
      BY <1>2 DEF ErrorInv, NoEmptyBatch
    <3> HIDE DEF b, q
    <3>2. /\ DOMAIN Append(q, b) = 1 .. Len(q) + 1 /\ Len(q) \in Nat
          /\ DOMAIN q = 1 .. Len(q) /\ Append(q, b)[Len(q) + 1] = b
          /\ \A j \in 1 .. Len(q) : Append(q, b)[j] = q[j]
      BY <1>2, <3>1, AppendProperties, LenProperties
    <3>3. i \in DOMAIN q \/ i = Len(q) + 1
      BY <1>5, <2>2, <3>2
    <3> QED
      BY <2>2, <3>1, <3>2, <3>3
  <2> HIDE DEF b, q
  <2> QED
    BY <1>2, <1>3, <2>1, <2>2
<1> QED
  BY <1>1, <1>4, <1>5 DEF ErrorInv, NoEmptyBatch

LEMMA ErrorConsumer ==
  ASSUME TypeOK, ErrorInv, NEW t \in Targets,
         Take(t) \/ Quit(t) \/ Succeeds(t) \/ Retry(t) \/ GivesUp(t)
  PROVE  ErrorInv'
<1> DEFINE x == sending[t]
           q == queue[t]
<1>1. /\ x \in Seq(Packet) /\ queue \in [Targets -> Seq(Seq(Packet))]
      /\ sending \in [Targets -> Seq(Packet)]
      /\ consumer \in [Targets -> {"idle", "sending", "ended"}]
  BY DEF TypeOK
<1>2. \/ UNCHANGED <<drops, failed, errors>>
      \/ /\ x # <<>>
         /\ errors' = [errors EXCEPT ![t] = errors[t] + 1]
         /\ failed' = [failed EXCEPT ![t] = failed[t] + Len(x)]
         /\ drops' = drops
  BY DEF Take, Quit, Succeeds, Retry, GivesUp, RecordFailure, RecordError,
         ErrorInv, NoEmptyBatch
<1>3. \A u \in Targets : Accounted(errors'[u], drops'[u], failed'[u])
  <2> HIDE DEF x
  <2> QED
    BY <1>1, <1>2, ErrorCounted
<1>4. \A u \in Targets : u # t => /\ consumer'[u] = consumer[u]
                                  /\ sending'[u] = sending[u]
                                  /\ queue'[u] = queue[u]
  BY <1>1 DEF Take, Quit, Succeeds, Retry, GivesUp, Returned
<1>5. /\ \A i \in DOMAIN q : q[i] # <<>>
      /\ consumer[t] = "sending" => x # <<>>
  BY DEF ErrorInv, NoEmptyBatch
<1>6. CASE Take(t)
  <2>1. q \in Seq(Seq(Packet)) /\ q # <<>>
    BY <1>1, <1>6 DEF Take
  <2>2. /\ queue'[t] = Tail(q)
        /\ \/ consumer'[t] = "ended"
           \/ sending'[t] = Head(q)
    BY <1>1, <1>6 DEF Take
  <2> HIDE DEF q
  <2>3. /\ Len(q) \in Nat /\ DOMAIN q = 1 .. Len(q) /\ Len(q) > 0
        /\ Tail(q) \in Seq(Seq(Packet)) /\ Len(Tail(q)) = Len(q) - 1
        /\ \A i \in 1 .. Len(q) - 1 : Tail(q)[i] = q[i + 1]
        /\ Head(q) = q[1]
    BY <2>1, HeadTailProperties, LenProperties, EmptySeq
  <2>4. DOMAIN Tail(q) = 1 .. Len(q) - 1
    BY <2>3, LenProperties
  <2>5. Head(q) # <<>> /\ \A i \in DOMAIN Tail(q) : Tail(q)[i] # <<>>
    BY <1>5, <2>3, <2>4
  <2> QED
    BY <1>3, <1>4, <2>2, <2>5 DEF ErrorInv, NoEmptyBatch
<1>7. CASE Quit(t) \/ Succeeds(t) \/ GivesUp(t)
  <2>1. queue'[t] = q /\ consumer'[t] # "sending"
    BY <1>1, <1>7 DEF Quit, Succeeds, GivesUp, Returned
  <2> QED
    BY <1>3, <1>4, <1>5, <2>1 DEF ErrorInv, NoEmptyBatch
<1>8. CASE Retry(t)
  <2>1. UNCHANGED <<queue, consumer, sending>>
    BY <1>8 DEF Retry
  <2> QED
    BY <1>3, <2>1 DEF ErrorInv, NoEmptyBatch
<1> QED
  BY <1>6, <1>7, <1>8

LEMMA ErrorStep == TypeOK /\ ErrorInv /\ [Next]_vars => ErrorInv'
<1> SUFFICES ASSUME TypeOK, ErrorInv, [Next]_vars PROVE ErrorInv'
  OBVIOUS
<1>1. CASE \/ Disconnected \/ StopSeen \/ NotCurrent \/ ReceiveClosed
           \/ Ended \/ Monitor \/ Visited \/ UNCHANGED vars
           \/ \E s \in SSRCs :
                SpeakerKnown(s) \/ \E over \in BOOLEAN : Visit(s, over)
           \/ \E fb \in BOOLEAN : Receive(fb)
           \/ \E d \in SUBSET job.targets, fb \in BOOLEAN : Tick(d, fb)
  <2>1. UNCHANGED <<queue, consumer, sending, drops, failed, errors>>
    BY <1>1 DEF Disconnected, StopSeen, NotCurrent, ReceiveClosed, Return,
         Ended, Monitor, Visited, SpeakerKnown, Visit, Receive, Tick, vars,
         sendVars
  <2> QED
    BY <2>1 DEF ErrorInv, NoEmptyBatch
<1> QED
  BY <1>1, ErrorFlush, ErrorConsumer DEF Next

\* As long as the connection is current no packet disappears: received
\* packets are on their way, counted as forwarded, counted as dropped, or in a
\* batch whose failure was recorded, and in none of these twice; and the
\* errors the status shows are none exactly when no packet was dropped or
\* failed (recordAudioPacketReceived, BatchQueue.Enqueue,
\* recordForwardQueueDropForJob, setForwardErrorForJob).
THEOREM LossCorrect == Spec => []NoSilentLoss
<1>1. Init => CountInv /\ InBalance /\ ErrorInv
  BY CountInit, LossInit, ErrorInit
<1>2. /\ TypeOK /\ LineInv /\ CountInv /\ InBalance /\ ErrorInv
      /\ [Next]_vars
      => (CountInv /\ InBalance /\ ErrorInv)'
  BY CountStep, LossStep, ErrorStep, TypeStep
<1>3. TypeOK /\ InBalance /\ ErrorInv => NoSilentLoss
  <2>1. TypeOK => job.targets \subseteq Targets
    BY DEF TypeOK, JobKinds, Targets
  <2> QED
    BY <2>1 DEF InBalance, Balanced, ErrorInv, Accounted, NoSilentLoss
<1> QED
  BY <1>1, <1>2, <1>3, LineCorrect, PTL DEF Spec
=============================================================================
