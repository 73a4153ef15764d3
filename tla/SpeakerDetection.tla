-------------------------- MODULE SpeakerDetection --------------------------
(***************************************************************************)
(* Who is speaking: from the packets and the speaking events of a voice    *)
(* connection (internal/discord/audio_speakers.go) to the highlighted      *)
(* speakers of the Manager (internal/jobs/active_speakers.go).             *)
(*                                                                         *)
(* Speakers are detected by the audio loop of a generation and by the      *)
(* handlers of speaking events: DiscordGo starts a goroutine for every     *)
(* event, so that any number of handlers run at once.  Each detector       *)
(* changes audioSpeakers under c.mu and then, with c.mu released, waits    *)
(* for speakerDispatchMu to tell the Manager: an edge is pending in        *)
(* between, and the connection, the job and audioSpeakers can all change   *)
(* before it is looked at again, which happens in any order of the edges.  *)
(*                                                                         *)
(* One guild and one stream at a time.  Reports to the Worker, which the   *)
(* callback makes before it returns, are those of WorkerReports.  Time is  *)
(* free: any speaker may have been idle for long enough.                   *)
(***************************************************************************)
EXTENDS Naturals, FiniteSets

CONSTANTS
  Users,     \* members of the channel
  SSRCs,     \* synchronisation sources of their packets
  None,      \* no user, no highlighted speaker
  MaxGen,    \* bound: voice generations of a behaviour
  MaxLines,  \* bound: VoiceConnection objects of a behaviour
  MaxInputs  \* bound: packets, events and requests of a behaviour

ASSUME SpeakerAssumption ==
  /\ None \notin Users
  /\ MaxGen \in Nat /\ MaxLines \in Nat /\ MaxInputs \in Nat

VARIABLES
  gen,            \* voiceGeneration
  connected,      \* status.VoiceConnected
  voice,          \* c.voice: a VoiceConnection, 0 for nil
  line,           \* the VoiceConnection DiscordGo keeps for the guild, or 0
  lines,          \* VoiceConnections made so far
  said,           \* speaking events DiscordGo has recorded, by connection
  ssrcUsers,      \* c.ssrcUsers
  audioSpeakers,  \* keys of c.audioSpeakers
  looking,        \* audio loops between the two sections of userForSSRC
  heard,          \* audio loops about to record a user's activity
  pending,        \* edges that wait for speakerDispatchMu
  gate,           \* the edge whose callback holds speakerDispatchMu
  told,           \* speakers the sink was last told of in this generation
  current,        \* Manager.current is set
  stopping,       \* Manager.stopping
  disconnected,   \* Manager.disconnected
  starts,         \* calls of Start that have joined and not committed
  stops,          \* calls of Stop that have begun and not left
  leaves,         \* calls of Stop that have left and not ended
  participants,   \* Manager.participants
  activeSpeakers, \* Manager.activeSpeakers
  activeSpeaker,  \* Manager.activeSpeaker
  inputs          \* packets, events and requests so far

connVars    == <<gen, connected, voice, line, lines>>
detectVars  == <<ssrcUsers, audioSpeakers, looking, heard, pending>>
jobVars     == <<current, stopping, disconnected, starts, stops, leaves>>
managerVars == <<jobVars, participants, activeSpeakers, activeSpeaker>>
vars == <<connVars, said, detectVars, gate, told, managerVars, inputs>>

\* An edge is of the audio loop, or of the handler of the event that came as
\* input number by.
Loop == 0
Edge == [gen : Nat, by : Nat, user : Users, speaking : BOOLEAN]
Look == [gen : Nat, voice : 1..MaxLines, ssrc : SSRCs, user : Users]

TypeOK ==
  /\ gen \in 0..MaxGen /\ connected \in BOOLEAN
  /\ lines \in 0..MaxLines /\ voice \in 0..lines /\ line \in 0..lines
  /\ connected => voice # 0
  /\ said \in [1..MaxLines -> [SSRCs -> SUBSET Users]]
  /\ ssrcUsers \in [SSRCs -> Users \cup {None}]
  /\ audioSpeakers \subseteq Users /\ told \subseteq Users
  /\ looking \subseteq Look
  /\ heard \subseteq [gen : Nat, user : Users]
  /\ pending \subseteq Edge /\ gate \subseteq Edge
  /\ \A e, f \in gate : e = f
  /\ current \in BOOLEAN /\ stopping \in BOOLEAN /\ disconnected \in BOOLEAN
  /\ starts \in Nat /\ stops \in Nat /\ leaves \in Nat
  /\ participants \subseteq Users /\ activeSpeakers \subseteq Users
  /\ activeSpeaker \in Users \cup {None}
  /\ inputs \in 0..MaxInputs

Nobody == [s \in SSRCs |-> None]

Init ==
  /\ gen = 0 /\ connected = FALSE /\ voice = 0 /\ line = 0 /\ lines = 0
  /\ said = [v \in 1..MaxLines |-> [s \in SSRCs |-> {}]]
  /\ ssrcUsers = Nobody /\ audioSpeakers = {} /\ told = {}
  /\ looking = {} /\ heard = {} /\ pending = {} /\ gate = {}
  /\ current = FALSE /\ stopping = FALSE /\ disconnected = FALSE
  /\ starts = 0 /\ stops = 0 /\ leaves = 0
  /\ participants = {} /\ activeSpeakers = {} /\ activeSpeaker = None
  /\ inputs = 0

-----------------------------------------------------------------------------
(* The voice connection.  Whoever changes it holds speakerDispatchMu, so   *)
(* it waits for a callback that is under way.                              *)

\* Mutated form of Free: the lock is not taken to change the connection.
FreeAlways == TRUE

Free == gate = {}

\* JoinVoice: DiscordGo hands out the connection it keeps for the guild, or a
\* new one.  What the detectors know of the former generation is forgotten;
\* the Manager's highlights are not.
JoinVoice ==
  /\ Free /\ gen < MaxGen
  /\ \/ line # 0 /\ UNCHANGED <<line, lines>>
     \/ /\ line = 0 /\ lines < MaxLines
        /\ lines' = lines + 1 /\ line' = lines + 1
  /\ voice' = line' /\ connected' = TRUE /\ gen' = gen + 1
  /\ ssrcUsers' = Nobody /\ audioSpeakers' = {}
  /\ told' = {}
  /\ UNCHANGED <<said, looking, heard, pending, gate, current, stopping,
                 disconnected, stops, leaves, participants, activeSpeakers,
                 activeSpeaker>>

\* Start joins before it commits its job, the first one or the current one
\* again.  What it and a rejoin have checked may be long past: the job can be
\* connected again, stopping or gone.
StartJoins  == JoinVoice /\ starts' = starts + 1
RejoinJoins == gen # 0 /\ JoinVoice /\ UNCHANGED starts

\* LeaveVoice; Disconnect makes DiscordGo forget the connection.
LeaveVoice ==
  /\ Free /\ gen < MaxGen
  /\ gen' = gen + 1 /\ connected' = FALSE /\ voice' = 0
  /\ line' = IF voice = 0 THEN line ELSE 0
  /\ ssrcUsers' = Nobody /\ audioSpeakers' = {}
  /\ UNCHANGED <<lines, said, looking, heard, pending, gate, told, current,
                 stopping, disconnected, starts, participants,
                 activeSpeakers, activeSpeaker>>

StopLeaves ==
  stops > 0 /\ stops' = stops - 1 /\ leaves' = leaves + 1 /\ LeaveVoice

\* revokeGateway
RevokeLeaves == LeaveVoice /\ UNCHANGED <<stops, leaves>>

\* markVoiceDisconnected: the Manager hears of it under the same lock.  The
\* generation stays, and DiscordGo keeps the connection.
VoiceLost ==
  /\ connected /\ Free
  /\ connected' = FALSE /\ voice' = 0
  /\ ssrcUsers' = Nobody /\ audioSpeakers' = {}
  /\ disconnected' = TRUE
  /\ UNCHANGED <<gen, line, lines, said, looking, heard, pending, gate, told,
                 current, stopping, starts, stops, leaves, participants,
                 activeSpeakers, activeSpeaker>>

-----------------------------------------------------------------------------
(* Detection.                                                              *)

IsCurrent(g) == g = gen /\ connected

\* The audio loop of the current generation is between two packets.
LoopIdle ==
  /\ connected
  /\ \A e \in pending \cup gate : ~(e.by = Loop /\ e.gen = gen)
  /\ \A l \in looking : l.gen # gen
  /\ \A h \in heard : h.gen # gen

\* DiscordGo records a speaking event before any handler runs, also one that
\* comes before JoinVoice has added ours.
Recorded(s, u) ==
  /\ line # 0 /\ u \notin said[line][s]
  /\ said' = [said EXCEPT ![line][s] = @ \cup {u}]
  /\ UNCHANGED <<connVars, detectVars, gate, told, managerVars>>

\* onVoiceSpeakingUpdate, for an event of the client's own connection.  The
\* handler runs once more for each time the connection was joined, which is
\* one more event with the same contents.
SpeakingUpdate(s, u, speaking) ==
  /\ connected /\ u \in said[voice][s]
  /\ ssrcUsers' = [ssrcUsers EXCEPT ![s] = u]
  /\ audioSpeakers' = IF speaking THEN audioSpeakers \cup {u}
                                  ELSE audioSpeakers \ {u}
  /\ pending' = pending \cup {[gen |-> gen, by |-> inputs + 1, user |-> u,
                               speaking |-> speaking]}
  /\ UNCHANGED <<connVars, said, looking, heard, gate, told, managerVars>>

\* uniqueHumanVoiceParticipant: whoever Discord's State has alone in the
\* channel at that moment.
OnlyHuman == Users

\* A packet: the first section of userForSSRC finds its user, or the events
\* DiscordGo recorded are consulted, or the only human present is taken.
PacketFrom(s) ==
  /\ LoopIdle
  /\ \/ /\ ssrcUsers[s] # None
        /\ heard' = heard \cup {[gen |-> gen, user |-> ssrcUsers[s]]}
        /\ UNCHANGED looking
     \/ /\ ssrcUsers[s] = None
        /\ \E u \in said[voice][s] :
             looking' = looking \cup {[gen |-> gen, voice |-> voice,
                                       ssrc |-> s, user |-> u]}
        /\ UNCHANGED heard
     \/ /\ ssrcUsers[s] = None /\ said[voice][s] = {}
        /\ \E u \in OnlyHuman :
             heard' = heard \cup {[gen |-> gen, user |-> u]}
        /\ UNCHANGED looking
  /\ UNCHANGED <<connVars, said, ssrcUsers, audioSpeakers, pending, gate,
                 told, managerVars>>

\* Mutated form of SameLine: the connection is not looked at again.
SameLineUnchecked(l) == connected

\* The condition of the second section of userForSSRC.
SameLine(l) == l.voice = voice /\ IsCurrent(l.gen)

\* The second section; a mapping that came meanwhile is preferred.
LookedUp(l) ==
  /\ l \in looking /\ looking' = looking \ {l}
  /\ IF SameLine(l)
     THEN LET u == IF ssrcUsers[l.ssrc] # None THEN ssrcUsers[l.ssrc]
                                               ELSE l.user
          IN  /\ ssrcUsers' = [ssrcUsers EXCEPT ![l.ssrc] = u]
              /\ heard' = heard \cup {[gen |-> l.gen, user |-> u]}
     ELSE UNCHANGED <<ssrcUsers, heard>>
  /\ UNCHANGED <<connVars, said, audioSpeakers, pending, gate, told,
                 managerVars>>

\* recordAudioSpeakerActivity: only the first packet makes an edge.
RecordActivity(h) ==
  /\ h \in heard /\ heard' = heard \ {h}
  /\ IF IsCurrent(h.gen)
     THEN /\ audioSpeakers' = audioSpeakers \cup {h.user}
          /\ pending' = IF h.user \in audioSpeakers THEN pending
                        ELSE pending \cup {[gen |-> gen, by |-> Loop,
                               user |-> h.user, speaking |-> TRUE]}
     ELSE UNCHANGED <<audioSpeakers, pending>>
  /\ UNCHANGED <<connVars, said, ssrcUsers, looking, gate, told,
                 managerVars>>

\* expireIdleAudioSpeakers, in a tick of the loop
Expire(idle) ==
  /\ LoopIdle /\ idle # {} /\ idle \subseteq audioSpeakers
  /\ audioSpeakers' = audioSpeakers \ idle
  /\ pending' = pending \cup [gen : {gen}, by : {Loop}, user : idle,
                             speaking : {FALSE}]
  /\ UNCHANGED <<connVars, said, ssrcUsers, looking, heard, gate, told,
                 managerVars>>

-----------------------------------------------------------------------------
(* The Manager.                                                            *)

\* eventsPausedLocked
Paused == stopping \/ disconnected

\* anyActiveSpeaker: the order is that of a Go map.
AnyActive(s) == IF s = {} THEN {None} ELSE s

\* The highlighted speaker once only those in s are left.
KeepOrAny(s) == IF activeSpeaker \in s THEN {activeSpeaker} ELSE AnyActive(s)

\* The conditions of setSpeakerState.
Accepts(u) == ~Paused /\ current /\ u \in participants

\* Nothing changes when the speaker has that state already.
Already(u, speaking, preserveOthers) ==
  /\ (u \in activeSpeakers) = speaking
  /\ preserveOthers \/ activeSpeakers = {u}

\* One speaker is not active any more; only if it was the highlighted one
\* another is chosen.
Unhighlight(u) ==
  /\ activeSpeakers' = activeSpeakers \ {u}
  /\ activeSpeaker' \in IF activeSpeaker = u
                        THEN AnyActive(activeSpeakers \ {u})
                        ELSE {activeSpeaker}

\* setSpeakerState
SetSpeakerState(u, speaking, preserveOthers) ==
  \/ /\ Already(u, speaking, preserveOthers)
     /\ UNCHANGED <<activeSpeakers, activeSpeaker>>
  \/ /\ ~Already(u, speaking, preserveOthers) /\ speaking
     /\ activeSpeakers' =
          (IF preserveOthers THEN activeSpeakers ELSE {}) \cup {u}
     /\ activeSpeaker' = u
  \/ /\ ~Already(u, speaking, preserveOthers) /\ ~speaking
     /\ Unhighlight(u)

\* Mutated form of StillTrue: the edge is passed on whatever came meanwhile.
StillTrueUnchecked(e) == IsCurrent(e.gen)

\* What dispatchActiveSpeakerState looks at again under the lock.
StillTrue(e) ==
  IsCurrent(e.gen) /\ (e.user \in audioSpeakers) = e.speaking

\* dispatchActiveSpeakerState: the lock, and the edge looked at again.
Dispatch(e) ==
  /\ Free /\ e \in pending
  /\ pending' = pending \ {e}
  /\ gate' = IF StillTrue(e) THEN {e} ELSE {}
  /\ UNCHANGED <<connVars, said, ssrcUsers, audioSpeakers, looking, heard,
                 told, managerVars>>

\* ActiveSpeakerStateChanged, and the lock is released.
Callback(e) ==
  /\ e \in gate /\ gate' = gate \ {e}
  /\ told' = IF e.speaking THEN told \cup {e.user} ELSE told \ {e.user}
  /\ \/ Accepts(e.user) /\ SetSpeakerState(e.user, e.speaking, TRUE)
     \/ ~Accepts(e.user) /\ UNCHANGED <<activeSpeakers, activeSpeaker>>
  /\ UNCHANGED <<connVars, said, detectVars, jobVars, participants>>

\* The rest of the Manager leaves the client alone.
ManagerOnly == UNCHANGED <<connVars, said, detectVars, gate, told>>

ClearSpeakerStates ==
  /\ current /\ activeSpeakers # {}
  /\ activeSpeakers' = {} /\ activeSpeaker' = None

\* SetActiveSpeaker, from the HTTP API: one speaker, or none (None).
SetActiveSpeaker(u) ==
  /\ \/ u = None /\ ClearSpeakerStates
     \/ u \in Users /\ Accepts(u) /\ SetSpeakerState(u, TRUE, FALSE)
  /\ UNCHANGED <<jobVars, participants>> /\ ManagerOnly

\* ParticipantChanged
Joined(u) ==
  /\ current /\ ~Paused /\ participants' = participants \cup {u}
  /\ UNCHANGED <<jobVars, activeSpeakers, activeSpeaker>> /\ ManagerOnly

Left(u) ==
  /\ current /\ ~Paused /\ participants' = participants \ {u}
  /\ Unhighlight(u)
  /\ UNCHANGED jobVars /\ ManagerOnly

\* Mutated form of Prune: highlights of those who left are kept.
PruneNobody(present) == UNCHANGED <<activeSpeakers, activeSpeaker>>

\* Highlights of those who are not present any more are deleted.
Prune(present) ==
  /\ activeSpeakers' = activeSpeakers \cap present
  /\ activeSpeaker' \in KeepOrAny(activeSpeakers \cap present)

\* ParticipantsSynced
Synced(present) ==
  /\ current /\ ~Paused /\ participants' = present
  /\ Prune(present)
  /\ UNCHANGED jobVars /\ ManagerOnly

\* Start commits its job, or Stop is through: nobody is highlighted.
Cleared ==
  /\ participants' = {} /\ activeSpeakers' = {} /\ activeSpeaker' = None
  /\ ManagerOnly

StartCommits ==
  /\ starts > 0 /\ starts' = starts - 1
  /\ current' = TRUE /\ stopping' = FALSE /\ disconnected' = FALSE
  /\ UNCHANGED <<stops, leaves>> /\ Cleared

StopBegins ==
  /\ current /\ ~stopping /\ stopping' = TRUE /\ stops' = stops + 1
  /\ UNCHANGED <<current, disconnected, starts, leaves, participants,
                 activeSpeakers, activeSpeaker>>
  /\ ManagerOnly

StopEnds ==
  /\ leaves > 0 /\ leaves' = leaves - 1
  /\ current' = FALSE /\ stopping' = FALSE
  /\ UNCHANGED <<disconnected, starts, stops>> /\ Cleared

\* Stop fails with LeaveVoice, which has given up the connection by then.
StopFails ==
  /\ leaves > 0 /\ leaves' = leaves - 1
  /\ stopping' = (stopping /\ ~current)
  /\ UNCHANGED <<current, disconnected, starts, stops, participants,
                 activeSpeakers, activeSpeaker>>
  /\ ManagerOnly

\* DiscordDisconnected of the Gateway; DiscordConnected, or a rejoin is over.
GatewayChanges ==
  /\ disconnected' = ~disconnected
  /\ UNCHANGED <<current, stopping, starts, stops, leaves, participants,
                 activeSpeakers, activeSpeaker>>
  /\ ManagerOnly

-----------------------------------------------------------------------------
\* What comes from Discord and over HTTP.
Input ==
  \/ \E s \in SSRCs : PacketFrom(s)
  \/ \E s \in SSRCs, u \in Users :
       \/ Recorded(s, u)
       \/ \E b \in BOOLEAN : SpeakingUpdate(s, u, b)
  \/ \E idle \in SUBSET audioSpeakers : Expire(idle)
  \/ \E u \in Users \cup {None} : SetActiveSpeaker(u)
  \/ \E u \in Users : Joined(u) \/ Left(u)
  \/ \E present \in SUBSET Users : Synced(present)
  \/ GatewayChanges

\* What the client and the Manager do about it.
Step ==
  \/ StartJoins \/ RejoinJoins \/ StopLeaves \/ RevokeLeaves \/ VoiceLost
  \/ \E l \in looking : LookedUp(l)
  \/ \E h \in heard : RecordActivity(h)
  \/ \E e \in pending : Dispatch(e)
  \/ \E e \in gate : Callback(e)
  \/ StartCommits \/ StopBegins \/ StopEnds \/ StopFails

Next ==
  \/ Input /\ inputs < MaxInputs /\ inputs' = inputs + 1
  \/ Step /\ UNCHANGED inputs

Spec == Init /\ [][Next]_vars

-----------------------------------------------------------------------------
(* Properties.                                                             *)

Waiting(u, speaking) ==
  \E e \in pending \cup gate :
    e.gen = gen /\ e.user = u /\ e.speaking = speaking

\* No edge is lost between the goroutines that detect: while a connection
\* lasts, a user for whom audioSpeakers and the sink's last callback disagree
\* has an edge on its way that sets this right, whatever was detected, expired
\* or dropped as outdated in between (dispatchActiveSpeakerState).
EdgesReachSink ==
  connected =>
    \A u \in Users :
      (u \in audioSpeakers) # (u \in told) =>
        Waiting(u, u \in audioSpeakers)

\* A speaker callback runs only for the connection the client still has:
\* JoinVoice, LeaveVoice and a disconnect wait for it, so no callback of a
\* former generation reaches the Manager after them.
CallbacksFenced == \A e \in gate : IsCurrent(e.gen)

\* Only participants are highlighted, and the highlighted speaker is one of
\* the active ones, nobody only when there is none, however joins, leaves,
\* snapshots, callbacks and the HTTP API interleave.
HighlightConsistent ==
  /\ activeSpeakers \subseteq participants
  /\ IF activeSpeakers = {} THEN activeSpeaker = None
                            ELSE activeSpeaker \in activeSpeakers

\* The user of an SSRC was named by a speaking event of the connection the
\* client has now: a lookup that began on a former one cannot leave its answer
\* behind (second section of userForSSRC).
MappingIsOurs ==
  \A s \in SSRCs :
    ssrcUsers[s] # None => voice # 0 /\ ssrcUsers[s] \in said[voice][s]
=============================================================================
