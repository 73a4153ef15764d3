----------------------- MODULE SpeakerDetectionProofs -----------------------
(***************************************************************************)
(* Proofs about SpeakerDetection, for any users, SSRCs, connections and    *)
(* length of a behaviour.                                                  *)
(*                                                                         *)
(* TypeOK, CallbacksFenced and HighlightConsistent are inductive by        *)
(* themselves.  The other properties look at one end of the way from a     *)
(* detector to the Manager and need what is known of its middle:           *)
(* GateFollowed says that a callback under way for an outdated edge has    *)
(* its correction waiting behind it, LookingIsSaid that a lookup holds an  *)
(* answer of its own connection.                                           *)
(***************************************************************************)
EXTENDS SpeakerDetection, TLAPS

ConnType ==
  /\ gen \in 0..MaxGen /\ connected \in BOOLEAN
  /\ lines \in 0..MaxLines /\ voice \in 0..lines /\ line \in 0..lines
  /\ connected => voice # 0

DetectType ==
  /\ said \in [1..MaxLines -> [SSRCs -> SUBSET Users]]
  /\ ssrcUsers \in [SSRCs -> Users \cup {None}]
  /\ audioSpeakers \subseteq Users /\ told \subseteq Users
  /\ looking \subseteq Look
  /\ heard \subseteq [gen : Nat, user : Users]
  /\ pending \subseteq Edge /\ gate \subseteq Edge
  /\ \A e, f \in gate : e = f

ManagerType ==
  /\ current \in BOOLEAN /\ stopping \in BOOLEAN /\ disconnected \in BOOLEAN
  /\ starts \in Nat /\ stops \in Nat /\ leaves \in Nat
  /\ participants \subseteq Users /\ activeSpeakers \subseteq Users
  /\ activeSpeaker \in Users \cup {None}

\* TypeOK is the conjunction of its parts.
LEMMA TypeParts ==
  TypeOK <=> ConnType /\ DetectType /\ ManagerType /\ inputs \in 0..MaxInputs
  BY DEF TypeOK, ConnType, DetectType, ManagerType

\* A callback for an edge that is outdated by now has the right one waiting.
GateFollowed ==
  connected =>
    \A e \in gate :
      (e.user \in audioSpeakers) # e.speaking =>
        \E f \in pending : /\ f.gen = gen /\ f.user = e.user
                           /\ f.speaking = (e.user \in audioSpeakers)

\* A lookup holds a user whom an event of its own connection named.
LookingIsSaid == \A l \in looking : l.user \in said[l.voice][l.ssrc]

-----------------------------------------------------------------------------
(* Every step preserves the types.                                         *)

LEMMA InitTypeOK == Init => TypeOK
  <1> SUFFICES ASSUME Init PROVE TypeOK
    OBVIOUS
  <1> USE SpeakerAssumption
  <1>1. ConnType
    <2>1. connected = FALSE
      BY DEF Init
    <2>2. /\ gen \in 0..MaxGen /\ lines \in 0..MaxLines
          /\ voice \in 0..lines /\ line \in 0..lines
      BY DEF Init
    <2>3. QED
      BY <2>1, <2>2 DEF ConnType
  <1>2. DetectType
    BY DEF Init, DetectType, Nobody
  <1>3. ManagerType
    BY DEF Init, ManagerType
  <1>4. inputs \in 0..MaxInputs
    BY DEF Init
  <1>5. QED
    BY <1>1, <1>2, <1>3, <1>4, TypeParts

\* The actions of the connection.
LEMMA ConnectionType ==
  ASSUME TypeOK,
         \/ StartJoins \/ RejoinJoins
         \/ StopLeaves \/ RevokeLeaves \/ VoiceLost
  PROVE  ConnType' /\ DetectType' /\ ManagerType'
  <1> USE SpeakerAssumption
  <1>1. ConnType /\ DetectType /\ ManagerType
    BY TypeParts
  <1>2. CASE StartJoins \/ RejoinJoins
    <2>1. JoinVoice
      BY <1>2 DEF StartJoins, RejoinJoins
    <2>2. ConnType'
      BY <1>1, <2>1 DEF ConnType, JoinVoice
    <2>3. DetectType'
      BY <1>1, <2>1 DEF DetectType, JoinVoice, Nobody
    <2>4. ManagerType'
      <3>1. starts' \in Nat
        BY <1>1, <1>2 DEF ManagerType, StartJoins, RejoinJoins
      <3>2. QED
        BY <1>1, <2>1, <3>1 DEF ManagerType, JoinVoice
    <2>5. QED
      BY <2>2, <2>3, <2>4
  <1>3. CASE StopLeaves \/ RevokeLeaves
    <2>1. LeaveVoice
      BY <1>3 DEF StopLeaves, RevokeLeaves
    <2>2. ConnType'
      <3>1. connected' = FALSE
        BY <2>1 DEF LeaveVoice
      <3>2. /\ gen' \in 0..MaxGen /\ lines' \in 0..MaxLines
            /\ voice' \in 0..lines' /\ line' \in 0..lines'
        BY <1>1, <2>1 DEF LeaveVoice, ConnType
      <3>3. QED
        BY <3>1, <3>2 DEF ConnType
    <2>3. DetectType'
      BY <1>1, <2>1 DEF LeaveVoice, DetectType, Nobody
    <2>4. ManagerType'
      <3>1. stops' \in Nat /\ leaves' \in Nat
        BY <1>1, <1>3 DEF ManagerType, StopLeaves, RevokeLeaves
      <3>2. QED
        BY <1>1, <2>1, <3>1 DEF LeaveVoice, ManagerType
    <2>5. QED
      BY <2>2, <2>3, <2>4
  <1>4. CASE VoiceLost
    <2>1. ConnType'
      <3>1. connected' = FALSE
        BY <1>4 DEF VoiceLost
      <3>2. /\ gen' \in 0..MaxGen /\ lines' \in 0..MaxLines
            /\ voice' \in 0..lines' /\ line' \in 0..lines'
        BY <1>1, <1>4 DEF VoiceLost, ConnType
      <3>3. QED
        BY <3>1, <3>2 DEF ConnType
    <2>2. DetectType'
      BY <1>1, <1>4 DEF VoiceLost, DetectType, Nobody
    <2>3. ManagerType'
      BY <1>1, <1>4 DEF VoiceLost, ManagerType
    <2>4. QED
      BY <2>1, <2>2, <2>3
  <1>5. QED
    BY <1>2, <1>3, <1>4

\* The actions that detect and dispatch leave the connection and the Manager.
LEMMA DetectionType ==
  ASSUME TypeOK,
         \/ \E s \in SSRCs : PacketFrom(s)
         \/ \E s \in SSRCs, u \in Users :
              \/ Recorded(s, u)
              \/ \E b \in BOOLEAN : SpeakingUpdate(s, u, b)
         \/ \E idle \in SUBSET audioSpeakers : Expire(idle)
         \/ \E l \in looking : LookedUp(l)
         \/ \E h \in heard : RecordActivity(h)
         \/ \E e \in pending : Dispatch(e)
  PROVE  /\ DetectType'
         /\ UNCHANGED <<connVars, managerVars>>
  <1> USE SpeakerAssumption
  <1>1. ConnType /\ DetectType
    BY TypeParts
  <1>2. /\ gen \in Nat /\ inputs + 1 \in Nat
        /\ connected => voice \in 1..MaxLines
    BY <1>1, TypeParts DEF ConnType
  <1>3. ASSUME NEW s \in SSRCs, PacketFrom(s)
        PROVE  DetectType' /\ UNCHANGED <<connVars, managerVars>>
    <2>1. connected
      BY <1>3 DEF PacketFrom, LoopIdle
    <2>2. heard' \subseteq [gen : Nat, user : Users]
      BY <1>1, <1>2, <1>3 DEF PacketFrom, DetectType, OnlyHuman
    <2>3. looking' \subseteq Look
      BY <1>1, <1>2, <1>3, <2>1 DEF PacketFrom, DetectType, Look
    <2>4. QED
      BY <1>1, <1>3, <2>2, <2>3 DEF PacketFrom, DetectType
  <1>4. ASSUME NEW s \in SSRCs, NEW u \in Users, Recorded(s, u)
        PROVE  DetectType' /\ UNCHANGED <<connVars, managerVars>>
    <2>1. line \in 1..MaxLines
      BY <1>1, <1>4 DEF Recorded, ConnType
    <2>2. said' \in [1..MaxLines -> [SSRCs -> SUBSET Users]]
      BY <1>1, <1>4, <2>1 DEF Recorded, DetectType
    <2>3. QED
      BY <1>1, <1>4, <2>2 DEF Recorded, DetectType, detectVars
  <1>5. ASSUME NEW s \in SSRCs, NEW u \in Users, NEW b \in BOOLEAN,
               SpeakingUpdate(s, u, b)
        PROVE  DetectType' /\ UNCHANGED <<connVars, managerVars>>
    <2>1. [gen |-> gen, by |-> inputs + 1, user |-> u, speaking |-> b] \in Edge
      BY <1>2 DEF Edge
    <2>2. QED
      BY <1>1, <1>5, <2>1 DEF SpeakingUpdate, DetectType
  <1>6. ASSUME NEW idle \in SUBSET audioSpeakers, Expire(idle)
        PROVE  DetectType' /\ UNCHANGED <<connVars, managerVars>>
    <2>1. [gen : {gen}, by : {Loop}, user : idle, speaking : {FALSE}]
            \subseteq Edge
      <3>1. gen \in Nat /\ Loop \in Nat /\ idle \subseteq Users
        BY <1>1, <1>2 DEF Loop, DetectType
      <3>2. QED
        BY <3>1 DEF Edge
    <2>2. QED
      BY <1>1, <1>6, <2>1 DEF Expire, DetectType
  <1>7. ASSUME NEW l \in looking, LookedUp(l)
        PROVE  DetectType' /\ UNCHANGED <<connVars, managerVars>>
    <2>1. l \in Look
      BY <1>1 DEF DetectType
    <2>2. QED
      BY <1>1, <1>7, <2>1 DEF LookedUp, DetectType, Look
  <1>8. ASSUME NEW h \in heard, RecordActivity(h)
        PROVE  DetectType' /\ UNCHANGED <<connVars, managerVars>>
    <2>1. h.user \in Users
      BY <1>1 DEF DetectType
    <2>2. [gen |-> gen, by |-> Loop, user |-> h.user, speaking |-> TRUE]
            \in Edge
      BY <1>2, <2>1 DEF Edge, Loop
    <2>3. QED
      BY <1>1, <1>8, <2>1, <2>2 DEF RecordActivity, DetectType
  <1>9. ASSUME NEW e \in pending, Dispatch(e)
        PROVE  DetectType' /\ UNCHANGED <<connVars, managerVars>>
    BY <1>1, <1>9 DEF Dispatch, DetectType
  <1>10. QED
    BY <1>3, <1>4, <1>5, <1>6, <1>7, <1>8, <1>9

\* The speakers the Manager keeps are users, and so is the highlighted one.
LEMMA SpeakerTypes ==
  ASSUME ManagerType
  PROVE  /\ \A s \in SUBSET Users : KeepOrAny(s) \subseteq Users \cup {None}
         /\ \A u : Unhighlight(u) =>
              /\ activeSpeakers' \subseteq Users
              /\ activeSpeaker' \in Users \cup {None}
         /\ \A u \in Users, b, o \in BOOLEAN : SetSpeakerState(u, b, o) =>
              /\ activeSpeakers' \subseteq Users
              /\ activeSpeaker' \in Users \cup {None}
  <1>1. \A s \in SUBSET Users : KeepOrAny(s) \subseteq Users \cup {None}
    BY DEF KeepOrAny, AnyActive, ManagerType
  <1>2. ASSUME NEW u, Unhighlight(u)
        PROVE  /\ activeSpeakers' \subseteq Users
               /\ activeSpeaker' \in Users \cup {None}
    BY <1>2 DEF Unhighlight, AnyActive, ManagerType
  <1>3. ASSUME NEW u \in Users, NEW b \in BOOLEAN, NEW o \in BOOLEAN,
               SetSpeakerState(u, b, o)
        PROVE  /\ activeSpeakers' \subseteq Users
               /\ activeSpeaker' \in Users \cup {None}
    BY <1>2, <1>3 DEF SetSpeakerState, ManagerType
  <1>4. QED
    BY <1>1, <1>2, <1>3

\* The Manager's own actions leave what the client holds.
LEMMA ManagerStepType ==
  ASSUME TypeOK,
         \/ \E u \in Users \cup {None} : SetActiveSpeaker(u)
         \/ \E u \in Users : Joined(u) \/ Left(u)
         \/ \E present \in SUBSET Users : Synced(present)
         \/ GatewayChanges
         \/ StartCommits \/ StopBegins \/ StopEnds \/ StopFails
  PROVE  /\ ManagerType'
         /\ UNCHANGED <<connVars, said, detectVars, gate, told>>
  <1> USE SpeakerAssumption
  <1>1. ManagerType /\ told \subseteq Users
    BY TypeParts DEF DetectType
  <1>2. ASSUME NEW u \in Users \cup {None}, SetActiveSpeaker(u)
        PROVE  ManagerType' /\ ManagerOnly
    <2>1. /\ activeSpeakers' \subseteq Users
          /\ activeSpeaker' \in Users \cup {None}
      BY <1>1, <1>2, SpeakerTypes DEF SetActiveSpeaker, ClearSpeakerStates
    <2>2. QED
      BY <1>1, <1>2, <2>1 DEF SetActiveSpeaker, jobVars, ManagerType
  <1>3. ASSUME NEW present \in SUBSET Users, Prune(present)
        PROVE  /\ activeSpeakers' \subseteq Users
               /\ activeSpeaker' \in Users \cup {None}
    BY <1>1, <1>3, SpeakerTypes DEF Prune, ManagerType
  <1>4. ASSUME NEW u \in Users, Joined(u)
        PROVE  ManagerType' /\ ManagerOnly
    BY <1>1, <1>4 DEF Joined, jobVars, ManagerType
  <1>5. ASSUME NEW u \in Users, Left(u)
        PROVE  ManagerType' /\ ManagerOnly
    <2>1. /\ activeSpeakers' \subseteq Users
          /\ activeSpeaker' \in Users \cup {None}
      BY <1>1, <1>5, SpeakerTypes DEF Left
    <2>2. QED
      BY <1>1, <1>5, <2>1 DEF Left, jobVars, ManagerType
  <1>6. ASSUME NEW present \in SUBSET Users, Synced(present)
        PROVE  ManagerType' /\ ManagerOnly
    BY <1>1, <1>3, <1>6 DEF Synced, jobVars, ManagerType
  <1>7. ASSUME GatewayChanges
        PROVE  ManagerType' /\ ManagerOnly
    BY <1>1, <1>7 DEF GatewayChanges, ManagerType
  <1>8. ASSUME StartCommits \/ StopEnds
        PROVE  ManagerType' /\ ManagerOnly
    <2>1. starts' \in Nat /\ stops' \in Nat /\ leaves' \in Nat
      BY <1>1, <1>8 DEF StartCommits, StopEnds, ManagerType
    <2>2. /\ current' \in BOOLEAN /\ stopping' \in BOOLEAN
          /\ disconnected' \in BOOLEAN
      BY <1>1, <1>8, Zenon DEF StartCommits, StopEnds, ManagerType
    <2>3. Cleared
      BY <1>8 DEF StartCommits, StopEnds
    <2>4. /\ participants' \subseteq Users /\ activeSpeakers' \subseteq Users
          /\ activeSpeaker' \in Users \cup {None} /\ ManagerOnly
      BY <2>3 DEF Cleared
    <2>5. QED
      BY <2>1, <2>2, <2>4, Zenon DEF ManagerType
  <1>9. ASSUME StopBegins \/ StopFails
        PROVE  ManagerType' /\ ManagerOnly
    <2>1. starts' \in Nat /\ stops' \in Nat /\ leaves' \in Nat
      BY <1>1, <1>9 DEF StopBegins, StopFails, ManagerType
    <2>2. /\ current' \in BOOLEAN /\ disconnected' \in BOOLEAN
          /\ UNCHANGED <<participants, activeSpeakers, activeSpeaker>>
          /\ ManagerOnly
      BY <1>1, <1>9 DEF StopBegins, StopFails, ManagerType
    <2>3. stopping' \in BOOLEAN
      BY <1>1, <1>9, Zenon DEF StopBegins, StopFails, ManagerType
    <2>4. QED
      BY <1>1, <2>1, <2>2, <2>3 DEF ManagerType
  <1>10. ManagerType' /\ ManagerOnly
    BY <1>2, <1>4, <1>5, <1>6, <1>7, <1>8, <1>9
       DEF GatewayChanges, StartCommits, StopEnds, Cleared, StopBegins,
           StopFails
  <1>11. QED
    BY <1>10 DEF ManagerOnly

\* A callback changes what the sink was told and the Manager's speakers.
LEMMA CallbackType ==
  ASSUME TypeOK, NEW e \in gate, Callback(e)
  PROVE  DetectType' /\ ManagerType' /\ UNCHANGED connVars
  <1>1. ManagerType /\ DetectType
    BY TypeParts
  <1>2. e.user \in Users /\ e.speaking \in BOOLEAN
    BY <1>1 DEF DetectType, Edge
  <1>3. DetectType'
    BY <1>1, <1>2 DEF Callback, DetectType, detectVars
  <1>4. /\ activeSpeakers' \subseteq Users
        /\ activeSpeaker' \in Users \cup {None}
    BY <1>1, <1>2, SpeakerTypes DEF Callback, ManagerType
  <1>5. ManagerType'
    BY <1>1, <1>4 DEF Callback, jobVars, ManagerType
  <1>6. QED
    BY <1>3, <1>5 DEF Callback

LEMMA NextTypeOK == TypeOK /\ [Next]_vars => TypeOK'
  <1> SUFFICES ASSUME TypeOK, [Next]_vars PROVE TypeOK'
    OBVIOUS
  <1> USE SpeakerAssumption
  <1>1. ConnType /\ DetectType /\ ManagerType /\ inputs \in 0..MaxInputs
    BY TypeParts
  <1>2. inputs' \in 0..MaxInputs
    BY <1>1 DEF Next, vars
  <1>3. ASSUME UNCHANGED connVars PROVE ConnType'
    BY <1>1, <1>3 DEF ConnType, connVars
  <1>4. ASSUME UNCHANGED <<said, detectVars, gate, told>> PROVE DetectType'
    BY <1>1, <1>4 DEF DetectType, detectVars
  <1>5. ASSUME UNCHANGED managerVars PROVE ManagerType'
    BY <1>1, <1>5 DEF ManagerType, managerVars, jobVars
  <1>6. ASSUME Input PROVE ConnType' /\ DetectType' /\ ManagerType'
    BY <1>3, <1>4, <1>5, <1>6, DetectionType, ManagerStepType DEF Input
  <1>7. ASSUME Step PROVE ConnType' /\ DetectType' /\ ManagerType'
    BY <1>3, <1>4, <1>5, <1>7, ConnectionType, DetectionType,
       ManagerStepType, CallbackType DEF Step
  <1>8. ASSUME UNCHANGED vars PROVE ConnType' /\ DetectType' /\ ManagerType'
    BY <1>3, <1>4, <1>5, <1>8 DEF vars
  <1>9. ConnType' /\ DetectType' /\ ManagerType'
    BY <1>6, <1>7, <1>8 DEF Next
  <1>10. QED
    BY <1>2, <1>9, TypeParts DEF TypeOK, ConnType, DetectType, ManagerType

\* Every reachable state of the detectors, the dispatch and the Manager's
\* speakers has its types; at most one callback holds speakerDispatchMu.
THEOREM TypeCorrect == Spec => []TypeOK
  BY InitTypeOK, NextTypeOK, PTL DEF Spec

-----------------------------------------------------------------------------
(* The dispatch: no edge is lost, no callback is late.                     *)

DispatchInv == CallbacksFenced /\ GateFollowed /\ EdgesReachSink

\* Steps that touch neither the connection nor an edge.
LEMMA DispatchStays ==
  ASSUME DispatchInv,
         UNCHANGED <<gen, connected, audioSpeakers, pending, gate, told>>
  PROVE  DispatchInv'
  BY DEF DispatchInv, CallbacksFenced, GateFollowed, EdgesReachSink, Waiting,
         IsCurrent

\* A detector changes audioSpeakers for the users in set, and has an edge wait
\* for each of them.
LEMMA DetectKeeps ==
  ASSUME DispatchInv, connected, NEW set \in SUBSET Users,
         \A u \in Users \ set : (u \in audioSpeakers') = (u \in audioSpeakers),
         \A u \in set : \E f \in pending' :
           f.gen = gen /\ f.user = u /\ f.speaking = (u \in audioSpeakers'),
         pending \subseteq pending', gate \subseteq Edge,
         UNCHANGED <<gen, connected, gate, told>>
  PROVE  DispatchInv'
  <1>1. CallbacksFenced'
    BY DEF DispatchInv, CallbacksFenced, IsCurrent
  <1>2. ASSUME NEW e \in gate, (e.user \in audioSpeakers') # e.speaking
        PROVE  \E f \in pending' : /\ f.gen = gen /\ f.user = e.user
                                   /\ f.speaking = (e.user \in audioSpeakers')
    <2>1. e.user \in Users
      BY DEF Edge
    <2>2. CASE e.user \in set
      BY <2>2
    <2>3. CASE e.user \notin set
      <3>1. (e.user \in audioSpeakers') = (e.user \in audioSpeakers)
        BY <2>1, <2>3
      <3>2. PICK f \in pending : /\ f.gen = gen /\ f.user = e.user
                                 /\ f.speaking = (e.user \in audioSpeakers)
        BY <1>2, <3>1 DEF DispatchInv, GateFollowed
      <3>3. QED
        BY <3>1, <3>2
    <2>4. QED
      BY <2>2, <2>3
  <1>3. GateFollowed'
    BY <1>2 DEF GateFollowed
  <1>4. ASSUME NEW u \in Users, (u \in audioSpeakers') # (u \in told)
        PROVE  \E f \in pending' \cup gate :
                 /\ f.gen = gen /\ f.user = u
                 /\ f.speaking = (u \in audioSpeakers')
    <2>1. CASE u \in set
      BY <2>1
    <2>2. CASE u \notin set
      <3>1. (u \in audioSpeakers') = (u \in audioSpeakers)
        BY <2>2
      <3>2. PICK f \in pending \cup gate :
              /\ f.gen = gen /\ f.user = u
              /\ f.speaking = (u \in audioSpeakers)
        BY <1>4, <3>1 DEF DispatchInv, EdgesReachSink, Waiting
      <3>3. QED
        BY <3>1, <3>2
    <2>3. QED
      BY <2>1, <2>2
  <1>5. EdgesReachSink'
    BY <1>4 DEF EdgesReachSink, Waiting
  <1>6. QED
    BY <1>1, <1>3, <1>5 DEF DispatchInv

\* The three actions that detect an edge.
LEMMA DetectionKeeps ==
  ASSUME TypeOK, DispatchInv,
         \/ \E s \in SSRCs, u \in Users, b \in BOOLEAN :
              SpeakingUpdate(s, u, b)
         \/ \E h \in heard : RecordActivity(h)
         \/ \E idle \in SUBSET audioSpeakers : Expire(idle)
  PROVE  DispatchInv'
  <1>1. DetectType
    BY TypeParts
  <1>2. gate \subseteq Edge /\ audioSpeakers \subseteq Users
    BY <1>1 DEF DetectType
  <1>3. ASSUME NEW s \in SSRCs, NEW u \in Users, NEW b \in BOOLEAN,
               SpeakingUpdate(s, u, b)
        PROVE  DispatchInv'
    <2>1. connected /\ UNCHANGED <<gen, connected, gate, told>>
      BY <1>3 DEF SpeakingUpdate, connVars
    <2>2. (u \in audioSpeakers') = b
      BY <1>3 DEF SpeakingUpdate
    <2>3. \A v \in Users \ {u} : (v \in audioSpeakers') = (v \in audioSpeakers)
      BY <1>3 DEF SpeakingUpdate
    <2>4. \E f \in pending' :
            f.gen = gen /\ f.user = u /\ f.speaking = (u \in audioSpeakers')
      <3> DEFINE f == [gen |-> gen, by |-> inputs + 1, user |-> u,
                       speaking |-> b]
      <3>1. f \in pending'
        BY <1>3 DEF SpeakingUpdate
      <3>2. f.gen = gen /\ f.user = u /\ f.speaking = b
        OBVIOUS
      <3>3. QED
        BY <2>2, <3>1, <3>2
    <2>5. pending \subseteq pending'
      BY <1>3 DEF SpeakingUpdate
    <2>6. QED
      <3>1. {u} \in SUBSET Users
        OBVIOUS
      <3>2. \A v \in {u} : \E f \in pending' :
              f.gen = gen /\ f.user = v /\ f.speaking = (v \in audioSpeakers')
        BY <2>4
      <3>3. QED
        BY <1>2, <2>1, <2>3, <2>5, <3>1, <3>2, DetectKeeps
  <1>4. ASSUME NEW h \in heard, RecordActivity(h)
        PROVE  DispatchInv'
    <2>1. CASE ~IsCurrent(h.gen) \/ h.user \in audioSpeakers
      <3>1. UNCHANGED <<audioSpeakers, pending>>
        BY <1>4, <2>1 DEF RecordActivity
      <3>2. QED
        BY <1>4, <3>1, DispatchStays DEF RecordActivity, connVars
    <2>2. CASE IsCurrent(h.gen) /\ h.user \notin audioSpeakers
      <3>1. h.user \in Users
        BY <1>1 DEF DetectType
      <3>2. /\ connected /\ UNCHANGED <<gen, connected, gate, told>>
            /\ audioSpeakers' = audioSpeakers \cup {h.user}
            /\ pending' = pending \cup {[gen |-> gen, by |-> Loop,
                                         user |-> h.user, speaking |-> TRUE]}
        BY <1>4, <2>2 DEF RecordActivity, IsCurrent, connVars
      <3>3. \A v \in Users \ {h.user} :
              (v \in audioSpeakers') = (v \in audioSpeakers)
        BY <3>2
      <3>4. \E f \in pending' :
              /\ f.gen = gen /\ f.user = h.user
              /\ f.speaking = (h.user \in audioSpeakers')
        <4> DEFINE f == [gen |-> gen, by |-> Loop, user |-> h.user,
                         speaking |-> TRUE]
        <4>1. f \in pending' /\ h.user \in audioSpeakers'
          BY <3>2
        <4>2. f.gen = gen /\ f.user = h.user /\ f.speaking = TRUE
          OBVIOUS
        <4>3. QED
          BY <4>1, <4>2
      <3>5. {h.user} \in SUBSET Users /\ pending \subseteq pending'
        BY <3>1, <3>2
      <3>6. \A v \in {h.user} : \E f \in pending' :
              f.gen = gen /\ f.user = v /\ f.speaking = (v \in audioSpeakers')
        BY <3>4
      <3>7. QED
        BY <1>2, <3>2, <3>3, <3>5, <3>6, DetectKeeps
    <2>3. QED
      BY <2>1, <2>2
  <1>5. ASSUME NEW idle \in SUBSET audioSpeakers, Expire(idle)
        PROVE  DispatchInv'
    <2>1. connected /\ UNCHANGED <<gen, connected, gate, told>>
      BY <1>5 DEF Expire, LoopIdle, connVars
    <2>2. idle \in SUBSET Users
      BY <1>2
    <2>3. \A v \in Users \ idle :
            (v \in audioSpeakers') = (v \in audioSpeakers)
      BY <1>5 DEF Expire
    <2>4. ASSUME NEW u \in idle
          PROVE  \E f \in pending' :
                   /\ f.gen = gen /\ f.user = u
                   /\ f.speaking = (u \in audioSpeakers')
      <3> DEFINE f == [gen |-> gen, by |-> Loop, user |-> u,
                       speaking |-> FALSE]
      <3>1. f \in [gen : {gen}, by : {Loop}, user : idle,
                   speaking : {FALSE}]
        OBVIOUS
      <3>2. f \in pending' /\ u \notin audioSpeakers'
        BY <1>5, <3>1 DEF Expire
      <3>3. f.gen = gen /\ f.user = u /\ f.speaking = FALSE
        OBVIOUS
      <3>4. (u \in audioSpeakers') = FALSE
        BY <3>2
      <3> HIDE DEF f
      <3>5. QED
        BY <3>2, <3>3, <3>4, Zenon
    <2>5. pending \subseteq pending'
      BY <1>5 DEF Expire
    <2>6. QED
      BY <1>2, <2>1, <2>2, <2>3, <2>4, <2>5, DetectKeeps
  <1>6. QED
    BY <1>3, <1>4, <1>5

\* The lock is taken; an edge that is outdated is dropped.
LEMMA DispatchKeeps ==
  ASSUME TypeOK, DispatchInv, NEW e \in pending, Dispatch(e)
  PROVE  DispatchInv'
  <1>1. /\ gate = {} /\ pending' = pending \ {e}
        /\ gate' = IF StillTrue(e) THEN {e} ELSE {}
        /\ UNCHANGED <<gen, connected, audioSpeakers, told>>
    BY DEF Dispatch, Free, connVars
  <1>2. CallbacksFenced'
    BY <1>1 DEF CallbacksFenced, StillTrue, IsCurrent
  <1>3. GateFollowed'
    BY <1>1 DEF GateFollowed, StillTrue
  <1>4. ASSUME connected, NEW u \in Users,
               (u \in audioSpeakers) # (u \in told)
        PROVE  \E f \in pending' \cup gate' :
                 /\ f.gen = gen /\ f.user = u
                 /\ f.speaking = (u \in audioSpeakers)
    <2>1. PICK f \in pending \cup gate :
            f.gen = gen /\ f.user = u /\ f.speaking = (u \in audioSpeakers)
      BY <1>4 DEF DispatchInv, EdgesReachSink, Waiting
    <2>2. f = e => StillTrue(e)
      BY <1>4, <2>1 DEF StillTrue, IsCurrent
    <2>3. f \in pending' \cup gate'
      BY <1>1, <2>1, <2>2
    <2>4. QED
      BY <2>1, <2>3
  <1>5. EdgesReachSink'
    BY <1>1, <1>4 DEF EdgesReachSink, Waiting
  <1>6. QED
    BY <1>2, <1>3, <1>5 DEF DispatchInv

\* The Manager is told, and the lock released.
LEMMA CallbackKeeps ==
  ASSUME TypeOK, DispatchInv, NEW e \in gate, Callback(e)
  PROVE  DispatchInv'
  <1>1. /\ gate' = gate \ {e}
        /\ told' = IF e.speaking THEN told \cup {e.user} ELSE told \ {e.user}
        /\ UNCHANGED <<gen, connected, audioSpeakers, pending>>
    BY DEF Callback, connVars, detectVars
  <1>2. e \in Edge /\ \A f \in gate : f = e
    BY DEF TypeOK
  <1>3. e.user \in Users /\ e.speaking \in BOOLEAN
    BY <1>2 DEF Edge
  <1>4. gate' = {}
    BY <1>1, <1>2
  <1>5. CallbacksFenced' /\ GateFollowed'
    BY <1>4 DEF CallbacksFenced, GateFollowed
  <1>6. ASSUME connected, NEW u \in Users,
               (u \in audioSpeakers) # (u \in told')
        PROVE  \E f \in pending :
                 /\ f.gen = gen /\ f.user = u
                 /\ f.speaking = (u \in audioSpeakers)
    <2>1. CASE u = e.user
      <3>1. (u \in told') = e.speaking
        BY <1>1, <1>3, <2>1
      <3>2. QED
        BY <1>6, <2>1, <3>1 DEF DispatchInv, GateFollowed
    <2>2. CASE u # e.user
      <3>1. (u \in told') = (u \in told)
        BY <1>1, <2>2
      <3>2. PICK f \in pending \cup gate :
              f.gen = gen /\ f.user = u /\ f.speaking = (u \in audioSpeakers)
        BY <1>6, <3>1 DEF DispatchInv, EdgesReachSink, Waiting
      <3>3. f \in pending
        BY <1>2, <2>2, <3>2
      <3>4. QED
        BY <3>2, <3>3
    <2>3. QED
      BY <2>1, <2>2
  <1>7. EdgesReachSink'
    BY <1>1, <1>4, <1>6 DEF EdgesReachSink, Waiting
  <1>8. QED
    BY <1>5, <1>7 DEF DispatchInv

\* A change of connection waits for the callback.
LEMMA ConnectionKeeps ==
  ASSUME TypeOK, DispatchInv,
         \/ StartJoins \/ RejoinJoins
         \/ StopLeaves \/ RevokeLeaves \/ VoiceLost
  PROVE  DispatchInv'
  <1>1. gate = {} /\ gate' = {}
    BY DEF StartJoins, RejoinJoins, JoinVoice, StopLeaves, RevokeLeaves,
           LeaveVoice, VoiceLost, Free
  <1>2. \/ connected' = FALSE
        \/ audioSpeakers' = {} /\ told' = {}
    BY DEF StartJoins, RejoinJoins, JoinVoice, StopLeaves, RevokeLeaves,
           LeaveVoice, VoiceLost
  <1>3. CallbacksFenced' /\ GateFollowed'
    BY <1>1 DEF CallbacksFenced, GateFollowed
  <1>4. EdgesReachSink'
    BY <1>2 DEF EdgesReachSink
  <1>5. QED
    BY <1>3, <1>4 DEF DispatchInv

LEMMA NextDispatch == TypeOK /\ DispatchInv /\ [Next]_vars => DispatchInv'
  <1> SUFFICES ASSUME TypeOK, DispatchInv, [Next]_vars PROVE DispatchInv'
    OBVIOUS
  <1>1. ASSUME UNCHANGED <<connVars, audioSpeakers, pending, gate, told>>
        PROVE  DispatchInv'
    BY <1>1, DispatchStays DEF connVars
  <1>2. ASSUME NEW s \in SSRCs, PacketFrom(s) PROVE DispatchInv'
    BY <1>1, <1>2 DEF PacketFrom
  <1>3. ASSUME NEW s \in SSRCs, NEW u \in Users, Recorded(s, u)
        PROVE  DispatchInv'
    BY <1>1, <1>3 DEF Recorded, detectVars
  <1>4. ASSUME NEW l \in looking, LookedUp(l) PROVE DispatchInv'
    BY <1>1, <1>4 DEF LookedUp
  <1>5. ASSUME \/ \E u \in Users \cup {None} : SetActiveSpeaker(u)
               \/ \E u \in Users : Joined(u) \/ Left(u)
               \/ \E present \in SUBSET Users : Synced(present)
               \/ GatewayChanges
               \/ StartCommits \/ StopBegins \/ StopEnds \/ StopFails
        PROVE  DispatchInv'
    BY <1>1, <1>5, ManagerStepType DEF detectVars
  <1>6. CASE Input
    BY <1>2, <1>3, <1>5, <1>6, DetectionKeeps DEF Input
  <1>7. CASE Step
    BY <1>4, <1>5, <1>7, DetectionKeeps, DispatchKeeps, CallbackKeeps,
       ConnectionKeeps DEF Step
  <1>8. CASE UNCHANGED vars
    BY <1>1, <1>8 DEF vars, detectVars
  <1>9. QED
    BY <1>6, <1>7, <1>8 DEF Next

\* The dispatch's part of the inductive invariant.
THEOREM DispatchInvariant == Spec => []DispatchInv
  <1>1. Init => DispatchInv
    BY DEF Init, DispatchInv, CallbacksFenced, GateFollowed, EdgesReachSink
  <1>2. QED
    BY <1>1, NextDispatch, TypeCorrect, PTL DEF Spec

\* While a connection lasts, whoever the sink believes in another state than
\* the detectors has an edge on its way (dispatchActiveSpeakerState).
THEOREM EdgesCorrect == Spec => []EdgesReachSink
  BY DispatchInvariant, PTL DEF DispatchInv

\* No callback of a former connection runs (speakerDispatchMu in JoinVoice,
\* LeaveVoice and markVoiceDisconnected).
THEOREM FenceCorrect == Spec => []CallbacksFenced
  BY DispatchInvariant, PTL DEF DispatchInv

-----------------------------------------------------------------------------
(* The mapping of SSRCs.                                                   *)

MappingInv == LookingIsSaid /\ MappingIsOurs

\* Lookups and mappings stay true when nothing of theirs changes, and when
\* the mapping is emptied with its connection.
LEMMA MappingStays ==
  ASSUME MappingInv, UNCHANGED <<said, looking>>,
         UNCHANGED <<voice, ssrcUsers>> \/ ssrcUsers' = Nobody
  PROVE  MappingInv'
  BY DEF MappingInv, LookingIsSaid, MappingIsOurs, Nobody

LEMMA NextMapping == TypeOK /\ MappingInv /\ [Next]_vars => MappingInv'
  <1> SUFFICES ASSUME TypeOK, MappingInv, [Next]_vars PROVE MappingInv'
    OBVIOUS
  <1> USE SpeakerAssumption
  <1>1. ConnType /\ DetectType
    BY TypeParts
  <1>2. ASSUME UNCHANGED <<connVars, said, looking, ssrcUsers>>
        PROVE  MappingInv'
    BY <1>2, MappingStays DEF connVars
  <1>3. ASSUME \/ StartJoins \/ RejoinJoins
               \/ StopLeaves \/ RevokeLeaves \/ VoiceLost
        PROVE  MappingInv'
    BY <1>3, MappingStays
       DEF StartJoins, RejoinJoins, JoinVoice, StopLeaves, RevokeLeaves,
           LeaveVoice, VoiceLost
  <1>4. ASSUME NEW s \in SSRCs, PacketFrom(s) PROVE MappingInv'
    <2>1. UNCHANGED <<voice, said, ssrcUsers>>
      BY <1>4 DEF PacketFrom, connVars
    <2>2. \A l \in looking' : l.user \in said[l.voice][l.ssrc]
      BY <1>4 DEF PacketFrom, MappingInv, LookingIsSaid
    <2>3. QED
      BY <2>1, <2>2 DEF MappingInv, LookingIsSaid, MappingIsOurs
  <1>5. ASSUME NEW s \in SSRCs, NEW u \in Users, Recorded(s, u)
        PROVE  MappingInv'
    <2>1. UNCHANGED <<voice, looking, ssrcUsers>>
      BY <1>5 DEF Recorded, connVars, detectVars
    <2>2. \A v \in 1..MaxLines, t \in SSRCs : said[v][t] \subseteq said'[v][t]
      <3>1. line \in 1..MaxLines
        BY <1>1, <1>5 DEF Recorded, ConnType
      <3>2. QED
        BY <1>1, <1>5, <3>1 DEF Recorded, DetectType
    <2>3. LookingIsSaid'
      BY <1>1, <2>1, <2>2 DEF MappingInv, LookingIsSaid, DetectType, Look
    <2>4. MappingIsOurs'
      <3>1. voice # 0 => voice \in 1..MaxLines
        BY <1>1 DEF ConnType
      <3>2. QED
        BY <2>1, <2>2, <3>1 DEF MappingInv, MappingIsOurs
    <2>5. QED
      BY <2>3, <2>4 DEF MappingInv
  <1>6. ASSUME NEW s \in SSRCs, NEW u \in Users, NEW b \in BOOLEAN,
               SpeakingUpdate(s, u, b)
        PROVE  MappingInv'
    <2>1. /\ UNCHANGED <<voice, looking, said>>
          /\ voice # 0 /\ u \in said[voice][s]
          /\ ssrcUsers' = [ssrcUsers EXCEPT ![s] = u]
      BY <1>1, <1>6 DEF SpeakingUpdate, connVars, ConnType
    <2>2. QED
      BY <1>1, <2>1
         DEF MappingInv, LookingIsSaid, MappingIsOurs, DetectType
  <1>7. ASSUME NEW l \in looking, LookedUp(l) PROVE MappingInv'
    <2>1. UNCHANGED <<voice, said>> /\ looking' \subseteq looking
      BY <1>7 DEF LookedUp, connVars
    <2>2. LookingIsSaid'
      BY <2>1 DEF MappingInv, LookingIsSaid
    <2>3. CASE SameLine(l)
      <3>1. voice # 0 /\ l.voice = voice
        BY <1>1, <2>3 DEF SameLine, IsCurrent, ConnType
      <3>2. l.user \in said[voice][l.ssrc]
        BY <3>1 DEF MappingInv, LookingIsSaid
      <3>3. PICK u : /\ ssrcUsers' = [ssrcUsers EXCEPT ![l.ssrc] = u]
                     /\ u = l.user \/ u = ssrcUsers[l.ssrc]
        BY <1>7, <2>3 DEF LookedUp
      <3>4. MappingIsOurs'
        BY <1>1, <2>1, <3>1, <3>2, <3>3
           DEF MappingInv, MappingIsOurs, DetectType, Look
      <3>5. QED
        BY <2>2, <3>4 DEF MappingInv
    <2>4. CASE ~SameLine(l)
      BY <1>7, <2>1, <2>2, <2>4 DEF LookedUp, MappingInv, MappingIsOurs
    <2>5. QED
      BY <2>3, <2>4
  <1>8. ASSUME \/ \E h \in heard : RecordActivity(h)
               \/ \E idle \in SUBSET audioSpeakers : Expire(idle)
               \/ \E e \in pending : Dispatch(e)
               \/ \E e \in gate : Callback(e)
        PROVE  MappingInv'
    BY <1>2, <1>8 DEF RecordActivity, Expire, Dispatch, Callback, detectVars
  <1>9. ASSUME \/ \E u \in Users \cup {None} : SetActiveSpeaker(u)
               \/ \E u \in Users : Joined(u) \/ Left(u)
               \/ \E present \in SUBSET Users : Synced(present)
               \/ GatewayChanges
               \/ StartCommits \/ StopBegins \/ StopEnds \/ StopFails
        PROVE  MappingInv'
    BY <1>2, <1>9, ManagerStepType DEF detectVars
  <1>10. CASE Input
    BY <1>4, <1>5, <1>6, <1>8, <1>9, <1>10 DEF Input
  <1>11. CASE Step
    BY <1>3, <1>7, <1>8, <1>9, <1>11 DEF Step
  <1>12. CASE UNCHANGED vars
    BY <1>2, <1>12 DEF vars, detectVars
  <1>13. QED
    BY <1>10, <1>11, <1>12 DEF Next

\* The user of an SSRC was named by an event of the present connection,
\* however slow a lookup is (userForSSRC).
THEOREM MappingCorrect == Spec => []MappingIsOurs
  <1>1. Init => MappingInv
    BY DEF Init, MappingInv, LookingIsSaid, MappingIsOurs, Nobody
  <1>2. MappingInv => MappingIsOurs
    BY DEF MappingInv
  <1>3. QED
    BY <1>1, <1>2, NextMapping, TypeCorrect, PTL DEF Spec

-----------------------------------------------------------------------------
(* The Manager's speakers.                                                 *)

\* Whom KeepOrAny offers.
LEMMA KeepOrAnyIsKept ==
  ASSUME NEW s \in SUBSET Users, NEW a \in KeepOrAny(s)
  PROVE  IF s = {} THEN a = None ELSE a \in s
  BY DEF KeepOrAny, AnyActive

\* A speaker who stops, or leaves, hands the highlight on.
LEMMA UnhighlightKeeps ==
  ASSUME HighlightConsistent, NEW u, Unhighlight(u),
         participants \ {u} \subseteq participants'
  PROVE  HighlightConsistent'
  <1>1. activeSpeakers' = activeSpeakers \ {u}
    BY DEF Unhighlight
  <1>2. IF activeSpeakers' = {} THEN activeSpeaker' = None
                                ELSE activeSpeaker' \in activeSpeakers'
    <2>1. CASE activeSpeaker = u
      BY <1>1, <2>1 DEF Unhighlight, AnyActive
    <2>2. CASE activeSpeaker # u
      BY <1>1, <2>2 DEF Unhighlight, HighlightConsistent
    <2>3. QED
      BY <2>1, <2>2
  <1>3. QED
    BY <1>1, <1>2 DEF HighlightConsistent

\* setSpeakerState keeps the highlight among the speakers.
LEMMA SetKeepsHighlight ==
  ASSUME HighlightConsistent, NEW u \in participants,
         NEW b \in BOOLEAN, NEW o \in BOOLEAN, SetSpeakerState(u, b, o),
         UNCHANGED participants
  PROVE  HighlightConsistent'
  <1>1. CASE UNCHANGED <<activeSpeakers, activeSpeaker>>
    BY <1>1 DEF HighlightConsistent
  <1>2. CASE /\ activeSpeakers' = (IF o THEN activeSpeakers ELSE {}) \cup {u}
             /\ activeSpeaker' = u
    BY <1>2 DEF HighlightConsistent
  <1>3. CASE Unhighlight(u)
    BY <1>3, UnhighlightKeeps
  <1>4. QED
    BY <1>1, <1>2, <1>3 DEF SetSpeakerState

\* Deleting the highlights of those who are not present keeps it too.
LEMMA PruneKeepsHighlight ==
  ASSUME TypeOK, NEW present, Prune(present), participants' = present
  PROVE  HighlightConsistent'
  <1>1. activeSpeakers \cap present \in SUBSET Users
    BY DEF TypeOK
  <1>2. IF activeSpeakers' = {} THEN activeSpeaker' = None
                                ELSE activeSpeaker' \in activeSpeakers'
    BY <1>1, KeepOrAnyIsKept DEF Prune
  <1>3. QED
    BY <1>2 DEF Prune, HighlightConsistent

LEMMA NextSpeakers ==
  TypeOK /\ HighlightConsistent /\ [Next]_vars => HighlightConsistent'
  <1> SUFFICES ASSUME TypeOK, HighlightConsistent, [Next]_vars
               PROVE  HighlightConsistent'
    OBVIOUS
  <1>1. ASSUME UNCHANGED <<participants, activeSpeakers, activeSpeaker>>
        PROVE  HighlightConsistent'
    BY <1>1 DEF HighlightConsistent
  <1>2. ASSUME \/ StartJoins \/ RejoinJoins
               \/ StopLeaves \/ RevokeLeaves \/ VoiceLost
        PROVE  HighlightConsistent'
    BY <1>1, <1>2
       DEF StartJoins, RejoinJoins, JoinVoice, StopLeaves, RevokeLeaves,
           LeaveVoice, VoiceLost
  <1>3. ASSUME UNCHANGED managerVars PROVE HighlightConsistent'
    BY <1>1, <1>3 DEF managerVars
  <1>4. ASSUME \/ \E s \in SSRCs : PacketFrom(s)
               \/ \E s \in SSRCs, u \in Users :
                    \/ Recorded(s, u)
                    \/ \E b \in BOOLEAN : SpeakingUpdate(s, u, b)
               \/ \E idle \in SUBSET audioSpeakers : Expire(idle)
               \/ \E l \in looking : LookedUp(l)
               \/ \E h \in heard : RecordActivity(h)
               \/ \E e \in pending : Dispatch(e)
        PROVE  HighlightConsistent'
    BY <1>3, <1>4, DetectionType
  <1>5. ASSUME NEW e \in gate, Callback(e) PROVE HighlightConsistent'
    <2>1. e.speaking \in BOOLEAN
      BY DEF TypeOK, Edge
    <2>2. CASE Accepts(e.user) /\ SetSpeakerState(e.user, e.speaking, TRUE)
      <3>1. e.user \in participants /\ UNCHANGED participants
        BY <1>5, <2>2 DEF Accepts, Callback
      <3>2. QED
        BY <2>1, <2>2, <3>1, SetKeepsHighlight
    <2>3. CASE UNCHANGED <<activeSpeakers, activeSpeaker>>
      BY <1>1, <1>5, <2>3 DEF Callback
    <2>4. QED
      BY <1>5, <2>2, <2>3 DEF Callback
  <1>6. ASSUME NEW u \in Users \cup {None}, SetActiveSpeaker(u)
        PROVE  HighlightConsistent'
    <2>1. CASE ClearSpeakerStates
      BY <1>6, <2>1
         DEF SetActiveSpeaker, ClearSpeakerStates, HighlightConsistent
    <2>2. CASE u \in Users /\ Accepts(u) /\ SetSpeakerState(u, TRUE, FALSE)
      <3>1. u \in participants /\ UNCHANGED participants
        BY <1>6, <2>2 DEF Accepts, SetActiveSpeaker
      <3>2. QED
        BY <2>2, <3>1, SetKeepsHighlight
    <2>3. QED
      BY <1>6, <2>1, <2>2 DEF SetActiveSpeaker
  <1>7. ASSUME NEW u \in Users, Joined(u) PROVE HighlightConsistent'
    BY <1>7 DEF Joined, HighlightConsistent
  <1>8. ASSUME NEW u \in Users, Left(u) PROVE HighlightConsistent'
    BY <1>8, UnhighlightKeeps DEF Left
  <1>9. ASSUME NEW present \in SUBSET Users, Synced(present)
        PROVE  HighlightConsistent'
    BY <1>9, PruneKeepsHighlight DEF Synced
  <1>10. ASSUME StartCommits \/ StopEnds PROVE HighlightConsistent'
    BY <1>10 DEF StartCommits, StopEnds, Cleared, HighlightConsistent
  <1>11. ASSUME GatewayChanges \/ StopBegins \/ StopFails
         PROVE  HighlightConsistent'
    BY <1>1, <1>11 DEF GatewayChanges, StopBegins, StopFails
  <1>12. CASE Input
    BY <1>4, <1>6, <1>7, <1>8, <1>9, <1>11, <1>12 DEF Input
  <1>13. CASE Step
    BY <1>2, <1>4, <1>5, <1>10, <1>11, <1>13 DEF Step
  <1>14. CASE UNCHANGED vars
    BY <1>3, <1>14 DEF vars
  <1>15. QED
    BY <1>12, <1>13, <1>14 DEF Next

\* Only participants are highlighted, and somebody is exactly when somebody
\* speaks (setSpeakerState, ParticipantChanged, ParticipantsSynced).
THEOREM HighlightCorrect == Spec => []HighlightConsistent
  <1>1. Init => HighlightConsistent
    BY DEF Init, HighlightConsistent
  <1>2. QED
    BY <1>1, NextSpeakers, TypeCorrect, PTL DEF Spec

=============================================================================
