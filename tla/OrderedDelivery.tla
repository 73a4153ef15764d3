-------------------------- MODULE OrderedDelivery ---------------------------
(***************************************************************************)
(* What the Bot promises one receiver of voice packets (the Encoder, or    *)
(* the caption service).  Packets are accepted one by one and delivered in *)
(* batches.  Any packet may be lost and a batch may come twice in a row,   *)
(* but what comes was accepted, and no packet comes after a later one of   *)
(* its flow.  A closed delivery delivers nothing more.                     *)
(***************************************************************************)
EXTENDS Naturals, Sequences

CONSTANTS
  Sources,    \* who packets come from (SSRCs)
  PerSource   \* TRUE: each source is a flow; FALSE: all are one flow

VARIABLES
  accepted,   \* the source of each packet, in the order of arrival
  delivered,  \* the batches delivered, in order
  open        \* deliveries are still possible

vars == <<accepted, delivered, open>>

-----------------------------------------------------------------------------
SameFlow(p, q) == PerSource => p.ssrc = q.ssrc

\* Of each flow, the packets of b are older than those of c.
Older(b, c) ==
  \A i \in DOMAIN b, j \in DOMAIN c :
    SameFlow(b[i], c[j]) => b[i].n < c[j].n

\* Of each flow, the packets of b are in the order of their arrival.
Sorted(b) ==
  \A i, j \in DOMAIN b :
    (i < j /\ SameFlow(b[i], b[j])) => b[i].n < b[j].n

\* The packets of b were accepted, from the source they name.
Genuine(b) ==
  \A i \in DOMAIN b :
    b[i].n \in DOMAIN accepted /\ b[i].ssrc = accepted[b[i].n]

-----------------------------------------------------------------------------
Init == accepted = <<>> /\ delivered = <<>> /\ open = TRUE

Accept ==
  /\ open = TRUE
  /\ \E s \in Sources : accepted' = Append(accepted, s)
  /\ UNCHANGED <<delivered, open>>

\* A new batch, all of it later than what came before.
MayDeliver(b) ==
  /\ Sorted(b)
  /\ Genuine(b)
  /\ \A k \in DOMAIN delivered : Older(delivered[k], b)

\* The last batch once more: its sender could not know that it had arrived.
MayRepeat(b) ==
  delivered # <<>> /\ b = delivered[Len(delivered)]

Deliver ==
  /\ open = TRUE
  /\ Len(delivered') = Len(delivered) + 1
  /\ LET b == delivered'[Len(delivered')]
     IN  /\ delivered' = Append(delivered, b)
         /\ MayDeliver(b) \/ MayRepeat(b)
  /\ UNCHANGED <<accepted, open>>

Close ==
  open = TRUE /\ open' = FALSE /\ UNCHANGED <<accepted, delivered>>

Next == Accept \/ Deliver \/ Close

Spec == Init /\ [][Next]_vars
=============================================================================
