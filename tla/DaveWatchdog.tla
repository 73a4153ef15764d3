---------------------------- MODULE DaveWatchdog ----------------------------
(***************************************************************************)
(* The watchdog of a voice connection's encryption session                 *)
(* (internal/davewatch/watchdog.go) and the client's side of it            *)
(* (internal/discord/dave_adapter.go).                                     *)
(*                                                                         *)
(* JoinVoice starts one watchdog for each voice generation.  A tick looks  *)
(* at the session and may resend the key package or reset the session,     *)
(* which takes time: the connection can be over when the call returns, and *)
(* the watchdog of the next one may run already.  A failed resend is       *)
(* followed by a reset in the same tick.                                   *)
(*                                                                         *)
(* What the session reports (Health) is DiscordGo's and Discord's: a tick  *)
(* may find any of it.  The stamps of attempts are sets of times, since no *)
(* two ticks of a ticker have the same time.                               *)
(***************************************************************************)
EXTENDS Naturals, FiniteSets

CONSTANTS
  ResendLimit, ResendWindow,   \* Config: attempts to resend, and in which time
  ResetLimit, ResetWindow,     \* the same for soft resets
  MaxGen,                      \* bound: voice generations of a behaviour
  MaxTime                      \* bound: time of a behaviour

\* New replaces limits and windows that are not positive by the defaults.
ASSUME WatchdogAssumption ==
  /\ ResendLimit \in Nat \ {0} /\ ResendWindow \in Nat \ {0}
  /\ ResetLimit \in Nat \ {0} /\ ResetWindow \in Nat \ {0}
  /\ MaxGen \in Nat /\ MaxTime \in Nat

Gens == 1..MaxGen

VARIABLES
  now,        \* the time, in ticks of the clock
  gen,        \* voiceGeneration
  connected,  \* c.voice is the connection of this generation
  dog,        \* where the watchdog of each generation is
  cancelled,  \* its context is cancelled (daveCancel)
  tick,       \* the time of its last tick
  acted,      \* its last tick found a reason to resend, to reset, or neither
  resends,    \* Watchdog.resends
  resets,     \* Watchdog.resets
  allResends, \* history: when it called ResendKeyPackage
  allResets,  \* history: when it called SoftReset
  reason      \* the generation DAVELastRecoveryReason is from, 0 for ""

history == <<allResends, allResets>>
stamps  == <<resends, resets, history>>
vars == <<now, gen, connected, dog, cancelled, tick, acted, stamps, reason>>

Stamps == SUBSET Nat

TypeOK ==
  /\ now \in 0..MaxTime /\ gen \in 0..MaxGen /\ connected \in BOOLEAN
  /\ dog \in [Gens -> {"off", "waiting", "resending", "resetting"}]
  /\ cancelled \in [Gens -> BOOLEAN]
  /\ tick \in [Gens -> 0..now]
  /\ acted \in [Gens -> {"none", "resend", "reset"}]
  /\ resends \in [Gens -> Stamps] /\ resets \in [Gens -> Stamps]
  /\ allResends \in [Gens -> Stamps] /\ allResets \in [Gens -> Stamps]
  /\ reason \in 0..gen
  /\ \A g \in Gens : /\ Cardinality(resends[g]) <= ResendLimit
                     /\ Cardinality(resets[g]) <= ResetLimit

Init ==
  /\ now = 0 /\ gen = 0 /\ connected = FALSE /\ reason = 0
  /\ dog = [g \in Gens |-> "off"]
  /\ cancelled = [g \in Gens |-> FALSE]
  /\ tick = [g \in Gens |-> 0]
  /\ acted = [g \in Gens |-> "none"]
  /\ resends = [g \in Gens |-> {}] /\ allResends = [g \in Gens |-> {}]
  /\ resets = [g \in Gens |-> {}] /\ allResets = [g \in Gens |-> {}]

Passes ==
  /\ now < MaxTime /\ now' = now + 1
  /\ UNCHANGED <<gen, connected, dog, cancelled, tick, acted, stamps, reason>>

-----------------------------------------------------------------------------
(* The connection.                                                         *)

\* Mutated form of Cancel: daveCancel is not called.
CancelNot == UNCHANGED cancelled

\* daveCancel, if there is one
Cancel ==
  cancelled' = [g \in Gens |-> cancelled[g] \/ g = gen]

JoinVoice ==
  /\ gen < MaxGen /\ gen' = gen + 1 /\ connected' = TRUE
  /\ Cancel
  /\ dog' = [dog EXCEPT ![gen + 1] = "waiting"]
  /\ reason' = 0
  /\ UNCHANGED <<now, tick, acted, stamps>>

\* The last reason stays in the status.
LeaveVoice ==
  /\ gen < MaxGen /\ gen' = gen + 1 /\ connected' = FALSE
  /\ Cancel
  /\ UNCHANGED <<now, dog, tick, acted, stamps, reason>>

VoiceLost ==
  /\ connected /\ connected' = FALSE
  /\ Cancel
  /\ UNCHANGED <<now, gen, dog, tick, acted, stamps, reason>>

-----------------------------------------------------------------------------
(* The watchdog of generation g.                                           *)

IsCurrent(g) == g = gen /\ connected

\* Mutated forms of PruneOlderThan: nothing is pruned, an attempt is
\* forgotten one unit of time too early.
PruneNothing(s, t, window) == s
PruneEarly(s, t, window)   == {r \in s : r + window > t + 1}

\* pruneOlderThan: stamps after t - window are kept.
PruneOlderThan(s, t, window) == {r \in s : r + window > t}

AtLimit(kept, limit) == Cardinality(kept) >= limit

\* tryResend up to the call of ResendKeyPackage.
TryResend(g, t) ==
  LET kept == PruneOlderThan(resends[g], t, ResendWindow)
  IN  IF AtLimit(kept, ResendLimit)
      THEN /\ resends' = [resends EXCEPT ![g] = kept]
           /\ UNCHANGED <<dog, allResends>>
      ELSE /\ resends' = [resends EXCEPT ![g] = kept \cup {t}]
           /\ allResends' = [allResends EXCEPT ![g] = @ \cup {t}]
           /\ dog' = [dog EXCEPT ![g] = "resending"]

\* tryReset up to the call of SoftReset.
TryReset(g, t) ==
  LET kept == PruneOlderThan(resets[g], t, ResetWindow)
  IN  IF AtLimit(kept, ResetLimit)
      THEN /\ resets' = [resets EXCEPT ![g] = kept]
           /\ dog' = [dog EXCEPT ![g] = "waiting"]
           /\ UNCHANGED allResets
      ELSE /\ resets' = [resets EXCEPT ![g] = kept \cup {t}]
           /\ allResets' = [allResets EXCEPT ![g] = @ \cup {t}]
           /\ dog' = [dog EXCEPT ![g] = "resetting"]

\* What a tick may find, once the session is initialized and OP26 was sent:
\* each timeout is over or not.
Health == [diverged : BOOLEAN, established : BOOLEAN, stuck : BOOLEAN,
           missing : BOOLEAN]

\* The switch of Tick.
Remedy(h) ==
  CASE h.diverged                                       -> "reset"
    [] ~h.diverged /\ ~h.established /\ h.stuck         -> "resend"
    [] ~h.diverged /\ h.established /\ h.missing        -> "reset"
    [] OTHER                                            -> "none"

\* remoteVoiceParticipantPresent: the connection is the client's, and somebody
\* else is in the channel.
Present(g, others) == IsCurrent(g) /\ others

\* Tick, with the time t at which the ticker sent it.  It does nothing for a
\* connection that is over, without another participant and before the
\* session is initialized (ready).
Tick(g, t, h, others, ready) ==
  LET remedy == IF Present(g, others) /\ ready THEN Remedy(h) ELSE "none"
  IN  /\ dog[g] = "waiting" /\ tick[g] < t /\ t <= now
      /\ tick' = [tick EXCEPT ![g] = t]
      /\ acted' = [acted EXCEPT ![g] = remedy]
      /\ CASE remedy = "resend" ->
                TryResend(g, t) /\ UNCHANGED <<resets, allResets>>
           [] remedy = "reset" ->
                TryReset(g, t) /\ UNCHANGED <<resends, allResends>>
           [] OTHER -> UNCHANGED <<dog, stamps>>
      /\ UNCHANGED <<now, gen, connected, cancelled, reason>>

\* recordDAVERecovery: an event of another connection is not shown.
RecordRecovery(g) == reason' = IF IsCurrent(g) THEN g ELSE reason

\* ResendKeyPackage returns; a failure falls through to a reset.
Resent(g) ==
  /\ dog[g] = "resending" /\ dog' = [dog EXCEPT ![g] = "waiting"]
  /\ RecordRecovery(g)
  /\ UNCHANGED <<now, gen, connected, cancelled, tick, acted, stamps>>

ResendFailed(g) ==
  /\ dog[g] = "resending"
  /\ RecordRecovery(g)
  /\ TryReset(g, tick[g])
  /\ UNCHANGED <<now, gen, connected, cancelled, tick, acted, resends,
                 allResends>>

\* SoftReset returns, with or without success.
WasReset(g) ==
  /\ dog[g] = "resetting" /\ dog' = [dog EXCEPT ![g] = "waiting"]
  /\ RecordRecovery(g)
  /\ UNCHANGED <<now, gen, connected, cancelled, tick, acted, stamps>>

\* Run sees its context cancelled.
Quit(g) ==
  /\ dog[g] = "waiting" /\ cancelled[g]
  /\ dog' = [dog EXCEPT ![g] = "off"]
  /\ UNCHANGED <<now, gen, connected, cancelled, tick, acted, stamps, reason>>

-----------------------------------------------------------------------------
Next ==
  \/ Passes \/ JoinVoice \/ LeaveVoice \/ VoiceLost
  \/ \E g \in Gens :
       \/ \E t \in 1..now, h \in Health, others, ready \in BOOLEAN :
            Tick(g, t, h, others, ready)
       \/ Resent(g) \/ ResendFailed(g) \/ WasReset(g) \/ Quit(g)

Spec == Init /\ [][Next]_vars

-----------------------------------------------------------------------------
(* Properties.                                                             *)

\* At most limit times of s fall into any span of the length of the window,
\* of which the later end belongs to it and the earlier does not.
Bounded(s, limit, window) ==
  \A t \in 0..MaxTime :
    Cardinality({r \in s : r <= t /\ r + window > t}) <= limit

\* A watchdog resends the key package at most ResendLimit times in any span
\* of ResendWindow, and resets at most ResetLimit times in any span of
\* ResetWindow, also when failed resends turn into resets ("Recovery is
\* rate-bounded independently", Watchdog.Run).
RateBounded ==
  \A g \in Gens :
    /\ Bounded(allResends[g], ResendLimit, ResendWindow)
    /\ Bounded(allResets[g], ResetLimit, ResetWindow)

\* The limits delay recovery but never end it: when the last tick found a
\* reason to resend or to reset, there was an attempt within the window up to
\* that tick, however many attempts were made before.
KeepsTrying ==
  \A g \in Gens :
    /\ acted[g] = "resend" =>
         \E r \in allResends[g] : r + ResendWindow > tick[g]
    /\ acted[g] = "reset" =>
         \E r \in allResets[g] : r + ResetWindow > tick[g]

\* The recovery shown for a connection is one of its own: a call that was
\* under way when the client joined again does not show up there.
ReasonIsOurs == connected => reason \in {0, gen}

\* Only the connection the client has now has a watchdog that is not told to
\* end: JoinVoice, LeaveVoice and a disconnect each cancel the former one.
NoOrphanWatchdog ==
  \A g \in Gens : dog[g] # "off" => cancelled[g] \/ IsCurrent(g)

=============================================================================
