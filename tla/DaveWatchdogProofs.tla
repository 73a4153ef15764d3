------------------------- MODULE DaveWatchdogProofs -------------------------
(***************************************************************************)
(* Proofs about DaveWatchdog, for any limits, windows, number of voice     *)
(* generations and length of time.                                         *)
(*                                                                         *)
(* That the rate is bounded is not inductive: a watchdog forgets attempts, *)
(* and the property is about all it ever made.  Remembered says what it    *)
(* may forget, namely only what no window from its last tick on reaches.   *)
(***************************************************************************)
EXTENDS DaveWatchdog, FiniteSetTheorems, TLAPS

\* What a watchdog remembers (kept) of the attempts it made (all) is enough
\* for every window that ends at its last tick t or later.
Remembered(kept, all, window, t) ==
  /\ all \subseteq 0..t
  /\ kept \subseteq all
  /\ \A r \in all : r + window > t => r \in kept

\* The same for one kind of attempt, with its limit
WithinLimit(kept, all, limit, window, t) ==
  /\ Remembered(kept, all, window, t)
  /\ Cardinality(kept) <= limit
  /\ Bounded(all, limit, window)

\* What tryResend and tryReset do at time t, from kept and all to kept2 and
\* all2
Tried(kept, all, kept2, all2, limit, window, t) ==
  LET pruned == PruneOlderThan(kept, t, window)
  IN  \/ AtLimit(pruned, limit) /\ kept2 = pruned /\ all2 = all
      \/ /\ ~AtLimit(pruned, limit)
         /\ kept2 = pruned \cup {t} /\ all2 = all \cup {t}

\* The part of TypeOK that is not about attempts
Plain ==
  /\ now \in 0..MaxTime /\ gen \in 0..MaxGen /\ connected \in BOOLEAN
  /\ dog \in [Gens -> {"off", "waiting", "resending", "resetting"}]
  /\ cancelled \in [Gens -> BOOLEAN]
  /\ tick \in [Gens -> 0..now]
  /\ acted \in [Gens -> {"none", "resend", "reset"}]
  /\ reason \in 0..gen

Sets ==
  /\ resends \in [Gens -> Stamps] /\ resets \in [Gens -> Stamps]
  /\ allResends \in [Gens -> Stamps] /\ allResets \in [Gens -> Stamps]

ResendRate(g) ==
  WithinLimit(resends[g], allResends[g], ResendLimit, ResendWindow, tick[g])

ResetRate(g) ==
  WithinLimit(resets[g], allResets[g], ResetLimit, ResetWindow, tick[g])

\* The inductive invariant
IInv == Plain /\ Sets /\ \A g \in Gens : ResendRate(g) /\ ResetRate(g)

-----------------------------------------------------------------------------
(* Lemmas about the operators.                                             *)

\* What is remembered is finite.
LEMMA MemoryFinite ==
  ASSUME NEW t \in Nat, NEW kept, NEW all, NEW window,
         Remembered(kept, all, window, t)
  PROVE  /\ IsFiniteSet(kept) /\ Cardinality(kept) \in Nat
         /\ IsFiniteSet(all) /\ Cardinality(all) \in Nat
  <1>1. IsFiniteSet(0..t)
    BY FS_Interval
  <1>2. IsFiniteSet(all)
    BY <1>1, FS_Subset DEF Remembered
  <1>3. IsFiniteSet(kept)
    BY <1>2, FS_Subset DEF Remembered
  <1>4. QED
    BY <1>2, <1>3, FS_CardinalityType

\* Pruning at a later tick leaves what the windows from there on reach.
LEMMA PruneRemembers ==
  ASSUME NEW t \in Nat, NEW u \in Nat, t <= u, NEW window \in Nat,
         NEW kept, NEW all, Remembered(kept, all, window, t)
  PROVE  /\ Remembered(kept, all, window, u)
         /\ Remembered(PruneOlderThan(kept, u, window), all, window, u)
         /\ PruneOlderThan(kept, u, window) \subseteq kept
  <1>1. \A r \in all : r \in Nat /\ r <= u
    BY DEF Remembered
  <1>2. \A r \in all : r + window > u => r + window > t
    BY <1>1
  <1>3. all \subseteq 0..u
    BY <1>1
  <1>4. kept \subseteq all
    BY DEF Remembered
  <1>5. \A r \in all : r + window > u => r \in kept
    BY <1>2 DEF Remembered
  <1>6. PruneOlderThan(kept, u, window) \subseteq kept
    BY DEF PruneOlderThan
  <1>7. \A r \in all : r + window > u => r \in PruneOlderThan(kept, u, window)
    BY <1>5 DEF PruneOlderThan
  <1>8. QED
    BY <1>3, <1>4, <1>5, <1>6, <1>7 DEF Remembered

\* Pruning does not add to the number of attempts.
LEMMA PruneFewer ==
  ASSUME NEW t \in Nat, NEW u \in Nat, t <= u, NEW window \in Nat,
         NEW kept, NEW all, Remembered(kept, all, window, t)
  PROVE  Cardinality(PruneOlderThan(kept, u, window)) <= Cardinality(kept)
  <1>1. IsFiniteSet(kept)
    BY MemoryFinite
  <1>2. PruneOlderThan(kept, u, window) \subseteq kept
    BY DEF PruneOlderThan
  <1>3. QED
    BY <1>1, <1>2, FS_Subset

\* The heart of the argument: an attempt that the limit on what is remembered
\* allows keeps the rate of all attempts within the limit.
LEMMA OneMoreBounded ==
  ASSUME NEW limit \in Nat \ {0}, NEW window \in Nat \ {0}, NEW t \in Nat,
         NEW kept, NEW all, Remembered(kept, all, window, t),
         ~AtLimit(kept, limit), Bounded(all, limit, window)
  PROVE  /\ Remembered(kept \cup {t}, all \cup {t}, window, t)
         /\ Cardinality(kept \cup {t}) <= limit
         /\ Bounded(all \cup {t}, limit, window)
  <1>1. Remembered(kept \cup {t}, all \cup {t}, window, t)
    BY DEF Remembered
  <1>2. /\ IsFiniteSet(kept) /\ Cardinality(kept) \in Nat
        /\ Cardinality(kept) < limit
    BY MemoryFinite DEF AtLimit
  <1>3. /\ IsFiniteSet(kept \cup {t})
        /\ Cardinality(kept \cup {t}) \in Nat
        /\ Cardinality(kept \cup {t}) <= limit
    <2>1. /\ IsFiniteSet(kept \cup {t})
          /\ Cardinality(kept \cup {t}) =
               IF t \in kept THEN Cardinality(kept) ELSE Cardinality(kept) + 1
      BY <1>2, FS_AddElement
    <2>2. QED
      BY <1>2, <2>1
  <1>4. ASSUME NEW u \in 0..MaxTime
        PROVE  Cardinality({r \in all \cup {t} : r <= u /\ r + window > u})
                 <= limit
    <2> DEFINE Old == {r \in all : r <= u /\ r + window > u}
               New == {r \in all \cup {t} : r <= u /\ r + window > u}
    <2> USE WatchdogAssumption
    <2>1. CASE u < t
      <3>1. New = Old
        BY <2>1
      <3>2. QED
        BY <3>1 DEF Bounded
    <2>2. CASE t <= u
      <3>1. \A r \in all \cup {t} : r \in Nat
        BY DEF Remembered
      <3>2. \A r \in all \cup {t} : r + window > u => r + window > t
        BY <2>2, <3>1
      <3>3. New \subseteq kept \cup {t}
        BY <3>2 DEF Remembered
      <3>4. IsFiniteSet(New) /\ Cardinality(New) <= Cardinality(kept \cup {t})
        BY <1>3, <3>3, FS_Subset
      <3>5. Cardinality(New) \in Nat
        BY <3>4, FS_CardinalityType
      <3>6. QED
        BY <1>3, <3>4, <3>5
    <2>3. QED
      BY <2>1, <2>2
  <1>5. QED
    BY <1>1, <1>3, <1>4 DEF Bounded

\* A limit that is reached is reached by attempts.
LEMMA LimitHasAttempt ==
  ASSUME NEW limit \in Nat \ {0}, NEW kept, IsFiniteSet(kept),
         AtLimit(kept, limit)
  PROVE  kept # {}
  <1>1. Cardinality({}) = 0
    BY FS_EmptySet
  <1>2. QED
    BY <1>1 DEF AtLimit

\* A later tick that attempts nothing keeps all of it.
LEMMA LaterWithin ==
  ASSUME NEW s \in Nat, NEW t \in Nat, s <= t, NEW window \in Nat \ {0},
         NEW kept, NEW all, NEW limit, WithinLimit(kept, all, limit, window, s)
  PROVE  WithinLimit(kept, all, limit, window, t)
  BY PruneRemembers DEF WithinLimit

\* An attempt, made or refused, keeps the rate within its limit, and there is
\* one in the window up to it.
LEMMA TriedWithin ==
  ASSUME NEW s \in Nat, NEW t \in Nat, s <= t,
         NEW limit \in Nat \ {0}, NEW window \in Nat \ {0},
         NEW kept, NEW all, NEW kept2, NEW all2,
         WithinLimit(kept, all, limit, window, s),
         Tried(kept, all, kept2, all2, limit, window, t)
  PROVE  /\ WithinLimit(kept2, all2, limit, window, t)
         /\ \E r \in all2 : r + window > t
  <1> DEFINE pruned == PruneOlderThan(kept, t, window)
  <1>1. /\ Remembered(pruned, all, window, t)
        /\ IsFiniteSet(pruned)
    BY PruneRemembers, MemoryFinite DEF WithinLimit
  <1>2. CASE AtLimit(pruned, limit) /\ kept2 = pruned /\ all2 = all
    <2>1. Cardinality(pruned) <= limit
      <3>1. Cardinality(pruned) <= Cardinality(kept)
        BY PruneFewer DEF WithinLimit
      <3>2. Cardinality(kept) \in Nat /\ Cardinality(kept) <= limit
        BY MemoryFinite DEF WithinLimit
      <3>3. Cardinality(pruned) \in Nat
        BY <1>1, MemoryFinite
      <3> HIDE DEF pruned
      <3>4. QED
        BY <3>1, <3>2, <3>3
    <2>2. PICK r \in pruned : TRUE
      BY <1>1, <1>2, LimitHasAttempt
    <2>3. r \in all /\ r + window > t
      BY <2>2, <1>1 DEF Remembered, PruneOlderThan
    <2>4. QED
      BY <1>1, <1>2, <2>1, <2>3 DEF WithinLimit
  <1>3. CASE /\ ~AtLimit(pruned, limit)
             /\ kept2 = pruned \cup {t} /\ all2 = all \cup {t}
    <2>1. Bounded(all, limit, window)
      BY DEF WithinLimit
    <2> HIDE DEF pruned
    <2>2. /\ Remembered(pruned \cup {t}, all \cup {t}, window, t)
          /\ Cardinality(pruned \cup {t}) <= limit
          /\ Bounded(all \cup {t}, limit, window)
      BY <1>1, <1>3, <2>1, OneMoreBounded
    <2>3. QED
      BY <1>3, <2>2 DEF WithinLimit
  <1>4. QED
    BY <1>2, <1>3 DEF Tried

-----------------------------------------------------------------------------
(* The inductive invariant.                                                *)

\* It holds initially.
LEMMA InitIInv == Init => IInv
  <1> SUFFICES ASSUME Init PROVE IInv
    OBVIOUS
  <1> USE WatchdogAssumption
  <1>1. Plain /\ Sets
    <2>1. cancelled \in [Gens -> BOOLEAN] /\ connected \in BOOLEAN
      BY Zenon DEF Init
    <2>2. /\ now \in 0..MaxTime /\ gen \in 0..MaxGen /\ reason \in 0..gen
          /\ tick \in [Gens -> 0..now]
      BY DEF Init
    <2>3. /\ dog \in [Gens -> {"off", "waiting", "resending", "resetting"}]
          /\ acted \in [Gens -> {"none", "resend", "reset"}]
      BY DEF Init
    <2>4. Sets
      BY DEF Init, Sets, Stamps
    <2>5. QED
      BY <2>1, <2>2, <2>3, <2>4 DEF Plain
  <1>2. ASSUME NEW limit \in Nat \ {0}, NEW window
        PROVE  WithinLimit({}, {}, limit, window, 0)
    <2>1. Cardinality({}) = 0
      BY FS_EmptySet
    <2>2. \A t : {r \in {} : r <= t /\ r + window > t} = {}
      OBVIOUS
    <2>3. QED
      BY <2>1, <2>2 DEF WithinLimit, Remembered, Bounded
  <1>3. \A g \in Gens : ResendRate(g) /\ ResetRate(g)
    BY <1>2 DEF Init, ResendRate, ResetRate
  <1>4. QED
    BY <1>1, <1>3 DEF IInv

\* tryResend and tryReset change the stamps of their own watchdog, and those
\* as Tried says.
LEMMA ResendIsTried ==
  ASSUME IInv, NEW g \in Gens, NEW t \in Nat, TryResend(g, t)
  PROVE  /\ Tried(resends[g], allResends[g], resends'[g], allResends'[g],
                  ResendLimit, ResendWindow, t)
         /\ resends' \in [Gens -> Stamps] /\ allResends' \in [Gens -> Stamps]
         /\ \A h \in Gens \ {g} : /\ resends'[h] = resends[h]
                                  /\ allResends'[h] = allResends[h]
  BY DEF IInv, Sets, TryResend, Tried, Stamps, PruneOlderThan

LEMMA ResetIsTried ==
  ASSUME IInv, NEW g \in Gens, NEW t \in Nat, TryReset(g, t)
  PROVE  /\ Tried(resets[g], allResets[g], resets'[g], allResets'[g],
                  ResetLimit, ResetWindow, t)
         /\ resets' \in [Gens -> Stamps] /\ allResets' \in [Gens -> Stamps]
         /\ \A h \in Gens \ {g} : /\ resets'[h] = resets[h]
                                  /\ allResets'[h] = allResets[h]
  BY DEF IInv, Sets, TryReset, Tried, Stamps, PruneOlderThan

\* No step makes a variable lose its type.
LEMMA NextPlain == IInv /\ [Next]_vars => Plain'
  <1> SUFFICES ASSUME IInv, [Next]_vars PROVE Plain'
    OBVIOUS
  <1> USE WatchdogAssumption
  <1>1. Plain
    BY DEF IInv
  <1>2. CASE Passes
    BY <1>1, <1>2 DEF Passes, Plain
  <1>3. ASSUME Cancel PROVE cancelled' \in [Gens -> BOOLEAN]
    BY <1>3, Zenon DEF Cancel
  <1>4. CASE JoinVoice
    BY <1>1, <1>3, <1>4 DEF JoinVoice, Plain, Gens
  <1>5. CASE LeaveVoice
    <2>1. cancelled' \in [Gens -> BOOLEAN]
      BY <1>3, <1>5 DEF LeaveVoice
    <2>2. gen' \in 0..MaxGen /\ reason' \in 0..gen'
      BY <1>1, <1>5 DEF LeaveVoice, Plain
    <2>3. connected' \in BOOLEAN /\ UNCHANGED <<now, dog, tick, acted>>
      BY <1>5 DEF LeaveVoice
    <2>4. QED
      BY <1>1, <2>1, <2>2, <2>3 DEF Plain
  <1>6. CASE VoiceLost
    BY <1>1, <1>3, <1>6 DEF VoiceLost, Plain
  <1>7. ASSUME NEW g \in Gens, NEW t \in 1..now, NEW h \in Health,
               NEW others \in BOOLEAN, NEW ready \in BOOLEAN,
               Tick(g, t, h, others, ready)
        PROVE  Plain'
    <2> DEFINE remedy == IF Present(g, others) /\ ready THEN Remedy(h)
                                                        ELSE "none"
    <2>1. remedy \in {"none", "resend", "reset"}
      BY DEF Remedy
    <2> HIDE DEF remedy
    <2>2. dog' \in [Gens -> {"off", "waiting", "resending", "resetting"}]
      BY <1>1, <1>7 DEF Tick, TryResend, TryReset, Plain
    <2>3. acted' \in [Gens -> {"none", "resend", "reset"}]
      <3>1. acted' = [acted EXCEPT ![g] = remedy]
        BY <1>7 DEF Tick, remedy
      <3>2. QED
        BY <1>1, <2>1, <3>1 DEF Plain
    <2>4. tick' \in [Gens -> 0..now']
      BY <1>1, <1>7 DEF Tick, Plain
    <2>5. UNCHANGED <<now, gen, connected, cancelled, reason>>
      BY <1>7 DEF Tick
    <2>6. QED
      BY <1>1, <2>2, <2>3, <2>4, <2>5 DEF Plain
  <1>8. ASSUME NEW g \in Gens, Resent(g) \/ WasReset(g)
        PROVE  Plain'
    <2>1. dog' \in [Gens -> {"off", "waiting", "resending", "resetting"}]
      BY <1>1, <1>8 DEF Resent, WasReset, Plain
    <2>2. reason' \in 0..gen
      BY <1>1, <1>8 DEF Resent, WasReset, RecordRecovery, IsCurrent, Plain
    <2>3. UNCHANGED <<now, gen, connected, cancelled, tick, acted>>
      BY <1>8 DEF Resent, WasReset
    <2>4. QED
      BY <1>1, <2>1, <2>2, <2>3 DEF Plain
  <1>9. ASSUME NEW g \in Gens, ResendFailed(g)
        PROVE  Plain'
    <2>1. dog' \in [Gens -> {"off", "waiting", "resending", "resetting"}]
      BY <1>1, <1>9 DEF ResendFailed, TryReset, Plain
    <2>2. reason' \in 0..gen
      BY <1>1, <1>9 DEF ResendFailed, RecordRecovery, IsCurrent, Plain
    <2>3. UNCHANGED <<now, gen, connected, cancelled, tick, acted>>
      BY <1>9 DEF ResendFailed
    <2>4. QED
      BY <1>1, <2>1, <2>2, <2>3 DEF Plain
  <1>10. ASSUME NEW g \in Gens, Quit(g)
         PROVE  Plain'
    BY <1>1, <1>10 DEF Quit, Plain
  <1>11. CASE UNCHANGED vars
    BY <1>1, <1>11 DEF vars, Plain
  <1>12. QED
    BY <1>2, <1>4, <1>5, <1>6, <1>7, <1>8, <1>9, <1>10, <1>11 DEF Next

\* The actions that make no attempt and see no tick.
LEMMA QuietRate ==
  ASSUME IInv, UNCHANGED <<tick, stamps>>
  PROVE  Sets' /\ \A g \in Gens : ResendRate(g)' /\ ResetRate(g)'
  BY DEF IInv, Sets, ResendRate, ResetRate, stamps, history

\* A tick that attempts nothing, or an attempt of one kind, for watchdog g.
LEMMA TickRate ==
  ASSUME IInv, NEW g \in Gens, NEW t \in Nat, tick[g] <= t,
         \/ TryResend(g, t)
         \/ UNCHANGED <<resends, allResends>>,
         \/ TryReset(g, t)
         \/ UNCHANGED <<resets, allResets>>,
         tick' = [tick EXCEPT ![g] = t]
  PROVE  Sets' /\ \A h \in Gens : ResendRate(h)' /\ ResetRate(h)'
  <1> USE WatchdogAssumption
  <1>1. /\ tick \in [Gens -> Nat] /\ tick' \in [Gens -> Nat]
        /\ tick'[g] = t
        /\ \A h \in Gens \ {g} : tick'[h] = tick[h]
    BY DEF IInv, Plain
  <1>2. /\ resends' \in [Gens -> Stamps] /\ allResends' \in [Gens -> Stamps]
        /\ \A h \in Gens \ {g} : /\ resends'[h] = resends[h]
                                 /\ allResends'[h] = allResends[h]
    BY ResendIsTried DEF IInv, Sets
  <1>3. /\ resets' \in [Gens -> Stamps] /\ allResets' \in [Gens -> Stamps]
        /\ \A h \in Gens \ {g} : /\ resets'[h] = resets[h]
                                 /\ allResets'[h] = allResets[h]
    BY ResetIsTried DEF IInv, Sets
  <1>4. WithinLimit(resends'[g], allResends'[g], ResendLimit, ResendWindow, t)
    <2>1. WithinLimit(resends[g], allResends[g], ResendLimit, ResendWindow,
                      tick[g])
      BY DEF IInv, ResendRate
    <2>2. CASE TryResend(g, t)
      BY <1>1, <2>1, <2>2, ResendIsTried, TriedWithin
    <2>3. CASE UNCHANGED <<resends, allResends>>
      BY <1>1, <2>1, <2>3, LaterWithin
    <2>4. QED
      BY <2>2, <2>3
  <1>5. WithinLimit(resets'[g], allResets'[g], ResetLimit, ResetWindow, t)
    <2>1. WithinLimit(resets[g], allResets[g], ResetLimit, ResetWindow,
                      tick[g])
      BY DEF IInv, ResetRate
    <2>2. CASE TryReset(g, t)
      BY <1>1, <2>1, <2>2, ResetIsTried, TriedWithin
    <2>3. CASE UNCHANGED <<resets, allResets>>
      BY <1>1, <2>1, <2>3, LaterWithin
    <2>4. QED
      BY <2>2, <2>3
  <1>6. ASSUME NEW h \in Gens PROVE ResendRate(h)' /\ ResetRate(h)'
    <2>1. CASE h = g
      BY <1>1, <1>4, <1>5, <2>1 DEF ResendRate, ResetRate
    <2>2. CASE h # g
      BY <1>1, <1>2, <1>3, <2>2 DEF IInv, ResendRate, ResetRate
    <2>3. QED
      BY <2>1, <2>2
  <1>7. QED
    BY <1>2, <1>3, <1>6 DEF Sets

\* Every step keeps what is remembered and the rate of all attempts.
LEMMA NextRate ==
  IInv /\ [Next]_vars =>
    Sets' /\ \A g \in Gens : ResendRate(g)' /\ ResetRate(g)'
  <1> SUFFICES ASSUME IInv, [Next]_vars
               PROVE  Sets' /\ \A g \in Gens : ResendRate(g)' /\ ResetRate(g)'
    OBVIOUS
  <1>1. ASSUME NEW g \in Gens, NEW t \in 1..now, NEW h \in Health,
               NEW others \in BOOLEAN, NEW ready \in BOOLEAN,
               Tick(g, t, h, others, ready)
        PROVE  Sets' /\ \A i \in Gens : ResendRate(i)' /\ ResetRate(i)'
    <2>1. t \in Nat /\ tick[g] \in Nat
      BY DEF IInv, Plain
    <2>2. tick[g] <= t /\ tick' = [tick EXCEPT ![g] = t]
      BY <1>1, <2>1 DEF Tick
    <2>3. /\ \/ TryResend(g, t)
             \/ UNCHANGED <<resends, allResends>>
          /\ \/ TryReset(g, t)
             \/ UNCHANGED <<resets, allResets>>
      BY <1>1 DEF Tick, stamps, history
    <2>4. QED
      BY <2>1, <2>2, <2>3, TickRate
  <1>2. ASSUME NEW g \in Gens, ResendFailed(g)
        PROVE  Sets' /\ \A i \in Gens : ResendRate(i)' /\ ResetRate(i)'
    <2>1. tick[g] \in Nat /\ tick[g] <= tick[g]
      BY DEF IInv, Plain
    <2>2. tick' = [tick EXCEPT ![g] = tick[g]]
      BY <1>2 DEF ResendFailed, IInv, Plain
    <2>3. TryReset(g, tick[g]) /\ UNCHANGED <<resends, allResends>>
      BY <1>2 DEF ResendFailed
    <2>4. QED
      BY <2>1, <2>2, <2>3, TickRate
  <1>3. CASE Passes \/ JoinVoice \/ LeaveVoice \/ VoiceLost
    BY <1>3, QuietRate DEF Passes, JoinVoice, LeaveVoice, VoiceLost
  <1>4. ASSUME NEW g \in Gens, Resent(g) \/ WasReset(g) \/ Quit(g)
        PROVE  Sets' /\ \A i \in Gens : ResendRate(i)' /\ ResetRate(i)'
    BY <1>4, QuietRate DEF Resent, WasReset, Quit
  <1>5. CASE UNCHANGED vars
    BY <1>5, QuietRate DEF vars
  <1>6. QED
    BY <1>1, <1>2, <1>3, <1>4, <1>5 DEF Next

LEMMA NextIInv == IInv /\ [Next]_vars => IInv'
  <1>1. Gens' = Gens
    BY DEF Gens
  <1>2. QED
    BY <1>1, NextPlain, NextRate DEF IInv

\* The inductive invariant holds in every reachable state.
THEOREM IInvCorrect == Spec => []IInv
  BY InitIInv, NextIInv, PTL DEF Spec

-----------------------------------------------------------------------------
(* What follows from it.                                                   *)

\* Every reachable state has its types, and a watchdog never holds more stamps
\* than its limits (Watchdog.resends, Watchdog.resets).
THEOREM TypeCorrect == Spec => []TypeOK
  <1>1. IInv => TypeOK
    BY DEF IInv, Plain, Sets, ResendRate, ResetRate, WithinLimit, TypeOK
  <1>2. QED
    BY <1>1, IInvCorrect, PTL

\* In no span of its window does a watchdog resend or reset more often than
\* its limit allows, although it forgets attempts (Watchdog.Tick).
THEOREM RateCorrect == Spec => []RateBounded
  <1>1. IInv => RateBounded
    BY DEF IInv, ResendRate, ResetRate, WithinLimit, RateBounded
  <1>2. QED
    BY <1>1, IInvCorrect, PTL

\* A tick that found a reason to act made an attempt, or one is still within
\* the window (tryResend, tryReset).
THEOREM KeepsTryingCorrect == Spec => []KeepsTrying
  <1>1. Init => KeepsTrying
    BY DEF Init, KeepsTrying
  <1>2. IInv /\ KeepsTrying /\ [Next]_vars => KeepsTrying'
    <2> SUFFICES ASSUME IInv, KeepsTrying, [Next]_vars
                 PROVE  KeepsTrying'
      OBVIOUS
    <2> USE WatchdogAssumption
    <2>1. ASSUME NEW g \in Gens, NEW t \in 1..now, NEW h \in Health,
                 NEW others \in BOOLEAN, NEW ready \in BOOLEAN,
                 Tick(g, t, h, others, ready)
          PROVE  KeepsTrying'
      <3>1. /\ t \in Nat /\ tick[g] \in Nat /\ tick[g] <= t
            /\ tick' = [tick EXCEPT ![g] = t]
            /\ tick \in [Gens -> Nat]
        BY <2>1 DEF Tick, IInv, Plain
      <3>2. PICK remedy \in {"none", "resend", "reset"} :
              /\ acted' = [acted EXCEPT ![g] = remedy]
              /\ remedy = "resend" =>
                   TryResend(g, t) /\ UNCHANGED <<resets, allResets>>
              /\ remedy = "reset" =>
                   TryReset(g, t) /\ UNCHANGED <<resends, allResends>>
              /\ remedy = "none" => UNCHANGED stamps
        BY <2>1 DEF Tick, Remedy
      <3>3. /\ acted' \in [Gens -> {"none", "resend", "reset"}]
            /\ acted'[g] = remedy
        BY <3>2 DEF IInv, Plain
      <3>4. CASE remedy = "resend"
        <4>1. Tried(resends[g], allResends[g], resends'[g], allResends'[g],
                    ResendLimit, ResendWindow, t)
          BY <3>1, <3>2, <3>4, ResendIsTried
        <4>2. WithinLimit(resends[g], allResends[g], ResendLimit,
                          ResendWindow, tick[g])
          BY DEF IInv, ResendRate
        <4>3. \E r \in allResends'[g] : r + ResendWindow > t
          BY <3>1, <4>1, <4>2, TriedWithin
        <4>4. \A i \in Gens \ {g} :
                /\ allResends'[i] = allResends[i]
                /\ allResets'[i] = allResets[i]
                /\ acted'[i] = acted[i] /\ tick'[i] = tick[i]
          BY <3>1, <3>2, <3>4, ResendIsTried DEF IInv, Plain
        <4>5. QED
          BY <3>1, <3>3, <3>4, <4>3, <4>4 DEF KeepsTrying
      <3>5. CASE remedy = "reset"
        <4>1. Tried(resets[g], allResets[g], resets'[g], allResets'[g],
                    ResetLimit, ResetWindow, t)
          BY <3>1, <3>2, <3>5, ResetIsTried
        <4>2. WithinLimit(resets[g], allResets[g], ResetLimit,
                          ResetWindow, tick[g])
          BY DEF IInv, ResetRate
        <4>3. \E r \in allResets'[g] : r + ResetWindow > t
          BY <3>1, <4>1, <4>2, TriedWithin
        <4>4. \A i \in Gens \ {g} :
                /\ allResends'[i] = allResends[i]
                /\ allResets'[i] = allResets[i]
                /\ acted'[i] = acted[i] /\ tick'[i] = tick[i]
          BY <3>1, <3>2, <3>5, ResetIsTried DEF IInv, Plain
        <4>5. QED
          BY <3>1, <3>3, <3>5, <4>3, <4>4 DEF KeepsTrying
      <3>6. CASE remedy = "none"
        <4>1. \A i \in Gens \ {g} : acted'[i] = acted[i] /\ tick'[i] = tick[i]
          BY <3>1, <3>2 DEF IInv, Plain
        <4>2. QED
          BY <3>2, <3>3, <3>6, <4>1 DEF KeepsTrying, stamps, history
      <3>7. QED
        BY <3>2, <3>4, <3>5, <3>6
    <2>2. ASSUME NEW g \in Gens, ResendFailed(g)
          PROVE  KeepsTrying'
      <3>1. \A i \in Gens : allResets[i] \subseteq allResets'[i]
        BY <2>2 DEF ResendFailed, TryReset, IInv, Sets
      <3>2. UNCHANGED <<acted, tick, allResends>>
        BY <2>2 DEF ResendFailed
      <3>3. QED
        BY <3>1, <3>2 DEF KeepsTrying
    <2>3. ASSUME UNCHANGED <<acted, tick, allResends, allResets>>
          PROVE  KeepsTrying'
      BY <2>3 DEF KeepsTrying
    <2>4. CASE Passes \/ JoinVoice \/ LeaveVoice \/ VoiceLost
      BY <2>3, <2>4
         DEF Passes, JoinVoice, LeaveVoice, VoiceLost, stamps, history
    <2>5. ASSUME NEW g \in Gens, Resent(g) \/ WasReset(g) \/ Quit(g)
          PROVE  KeepsTrying'
      BY <2>3, <2>5 DEF Resent, WasReset, Quit, stamps, history
    <2>6. CASE UNCHANGED vars
      BY <2>3, <2>6 DEF vars, stamps, history
    <2>7. QED
      BY <2>1, <2>2, <2>4, <2>5, <2>6 DEF Next
  <1>3. QED
    BY <1>1, <1>2, IInvCorrect, PTL DEF Spec

\* No watchdog runs on for a connection the client has given up
\* (daveCancel in JoinVoice, LeaveVoice and markVoiceDisconnected).
THEOREM NoOrphanCorrect == Spec => []NoOrphanWatchdog
  <1>1. Init => NoOrphanWatchdog
    BY DEF Init, NoOrphanWatchdog
  <1>2. IInv /\ NoOrphanWatchdog /\ [Next]_vars => NoOrphanWatchdog'
    <2> SUFFICES ASSUME IInv, NoOrphanWatchdog, [Next]_vars
                 PROVE  NoOrphanWatchdog'
      OBVIOUS
    <2> USE WatchdogAssumption DEF NoOrphanWatchdog, IsCurrent
    <2>1. Plain
      BY DEF IInv
    <2>2. CASE JoinVoice
      BY <2>1, <2>2 DEF JoinVoice, Cancel, Plain, Gens
    <2>3. CASE LeaveVoice
      BY <2>1, <2>3 DEF LeaveVoice, Cancel, Plain
    <2>4. CASE VoiceLost
      BY <2>1, <2>4 DEF VoiceLost, Cancel, Plain
    <2>5. ASSUME NEW g \in Gens, dog[g] # "off",
                 \A h \in Gens \ {g} : dog'[h] = dog[h],
                 UNCHANGED <<gen, connected, cancelled>>
          PROVE  NoOrphanWatchdog'
      BY <2>5
    <2>6. ASSUME NEW g \in Gens, NEW t \in 1..now, NEW h \in Health,
                 NEW others \in BOOLEAN, NEW ready \in BOOLEAN,
                 Tick(g, t, h, others, ready)
          PROVE  NoOrphanWatchdog'
      <3>1. dog[g] # "off" /\ \A i \in Gens \ {g} : dog'[i] = dog[i]
        BY <2>1, <2>6 DEF Tick, TryResend, TryReset, Plain
      <3>2. QED
        BY <2>5, <2>6, <3>1 DEF Tick
    <2>7. ASSUME NEW g \in Gens,
                 Resent(g) \/ ResendFailed(g) \/ WasReset(g) \/ Quit(g)
          PROVE  NoOrphanWatchdog'
      <3>1. dog[g] # "off" /\ \A i \in Gens \ {g} : dog'[i] = dog[i]
        BY <2>1, <2>7
           DEF Resent, ResendFailed, WasReset, Quit, TryReset, Plain
      <3>2. QED
        BY <2>5, <2>7, <3>1 DEF Resent, ResendFailed, WasReset, Quit
    <2>8. CASE Passes \/ UNCHANGED vars
      BY <2>8 DEF Passes, vars
    <2>9. QED
      BY <2>2, <2>3, <2>4, <2>6, <2>7, <2>8 DEF Next
  <1>3. QED
    BY <1>1, <1>2, IInvCorrect, PTL DEF Spec

\* A recovery that was under way when the client joined again is not shown
\* for the new connection (recordDAVERecovery).
THEOREM ReasonCorrect == Spec => []ReasonIsOurs
  <1>1. Init => ReasonIsOurs
    BY DEF Init, ReasonIsOurs
  <1>2. ReasonIsOurs /\ [Next]_vars => ReasonIsOurs'
    <2> SUFFICES ASSUME ReasonIsOurs, [Next]_vars PROVE ReasonIsOurs'
      OBVIOUS
    <2> USE DEF ReasonIsOurs, RecordRecovery, IsCurrent
    <2>1. CASE Passes \/ JoinVoice \/ LeaveVoice \/ VoiceLost
      BY <2>1 DEF Passes, JoinVoice, LeaveVoice, VoiceLost
    <2>2. ASSUME NEW g \in Gens, NEW t \in 1..now, NEW h \in Health,
                 NEW others \in BOOLEAN, NEW ready \in BOOLEAN,
                 Tick(g, t, h, others, ready)
          PROVE  ReasonIsOurs'
      BY <2>2 DEF Tick
    <2>3. ASSUME NEW g \in Gens,
                 Resent(g) \/ ResendFailed(g) \/ WasReset(g) \/ Quit(g)
          PROVE  ReasonIsOurs'
      BY <2>3 DEF Resent, ResendFailed, WasReset, Quit
    <2>4. CASE UNCHANGED vars
      BY <2>4 DEF vars
    <2>5. QED
      BY <2>1, <2>2, <2>3, <2>4 DEF Next
  <1>3. QED
    BY <1>1, <1>2, PTL DEF Spec

=============================================================================
