--------------------------- MODULE BanListProofs ----------------------------
(***************************************************************************)
(* The properties of BanList, for any number of attempts and addresses,    *)
(* any limits, any time a caller waits for the lock and any run of the     *)
(* clock.                                                                  *)
(***************************************************************************)
EXTENDS BanList, FiniteSetTheorems, TLAPS

\* What is known of entry e of key k at moment c, with T the keys of the map.
\* The last two conjuncts carry the argument: whatever a caller may still
\* find active, or recent, at the present moment is in the map.
Sound(k, e, T, c) ==
    /\ e \in BanEntry
    /\ k \notin T => e = DefaultEntry
    /\ k \in T => Cardinality(e.failures) < MaxFailures
    /\ IsFiniteSet(e.failures)
    /\ \A f \in e.failures : f.at <= c /\ KeyOf(f.by) = k
    /\ e.banned_at <= c
    /\ e.banned_at # None => e.failures = {} /\ bans[k].evidence # {}
    /\ c < bans[k].until =>
          k \in T /\ e.banned_at # None /\ e.banned_at + Duration = bans[k].until
    /\ \A f \in since[k] : c - f.at < Window => f \in e.failures

\* The failures behind a ban.
Justified(k, evidence) ==
    /\ MaxFailures > 0
    /\ Cardinality(evidence) >= MaxFailures
    /\ \A f, g \in evidence : KeyOf(f.by) = k /\ f.at - g.at < Window + MaxDelay

IInv ==
    /\ TypeOK
    /\ Cardinality(tracked) <= MaxTracked
    /\ \A p \in pending : now[p] <= clock /\ clock - now[p] <= MaxDelay
    /\ \A k \in Keys : Sound(k, entries[k], tracked, clock)
    /\ \A k \in Keys : bans[k].evidence # {} => Justified(k, bans[k].evidence)
    /\ \A a \in Attempt : stage[a] = "rejected" => bans[KeyOf(a)].evidence # {}
    /\ \A a \in Attempt : stage[a] = "inside" /\ clock < bans[KeyOf(a)].until
                              => a \in bans[KeyOf(a)].inside

-----------------------------------------------------------------------------
(* Facts about the table.                                                  *)

\* There are finitely many keys, so every set of tracked keys is finite.
LEMMA KeysFinite == IsFiniteSet(Keys)
  <1> DEFINE f == [a \in Attempt |-> KeyOf(a)]
  <1>1. f \in Surjection(Attempt, Keys)
    BY DEF Keys, Surjection
  <1>2. IsFiniteSet(Attempt)
    BY BanAssumption
  <1> HIDE DEF f
  <1> QED
    BY <1>1, <1>2, FS_Surjection

\* Every attempt has its key among them.
LEMMA KeyOfInKeys == \A a \in Attempt : KeyOf(a) \in Keys
  BY DEF Keys

\* What is young enough at moment c is so at any earlier moment t.
LEMMA ElapsedLess ==
  ASSUME NEW t \in Int, NEW c \in Int, NEW at \in Int, NEW limit \in Nat \ {0},
         t <= c, c - at < limit
  PROVE  Elapsed(t, at) < limit
  BY DEF Elapsed

\* Addresses of one client have one key (ban_key).
LEMMA SameClientSameKey ==
  ASSUME NEW a \in Attempt, NEW b \in Attempt, SameClient(PeerOf[a], PeerOf[b])
  PROVE  KeyOf(a) = KeyOf(b)
  <1>1. PeerOf[a] \in Address /\ PeerOf[b] \in Address
    BY BanAssumption
  <1> QED
    BY <1>1 DEF Address, SameClient, KeyOf, ban_key, canonical_ip

\* A purge at an earlier moment than the present one loses nothing that
\* matters at the present one.
LEMMA RemainingSound ==
  ASSUME IInv,
         NEW t \in Nat, t <= clock,
         NEW kept, Survivors(t) \subseteq kept, kept \subseteq tracked,
         NEW k \in Keys
  PROVE  Sound(k, Remaining(kept)[k], kept, clock)
  <1>1. Sound(k, entries[k], tracked, clock)
    BY DEF IInv
  <1>2. CASE k \in kept
    <2>1. Remaining(kept)[k] = entries[k]
      BY <1>2 DEF Remaining
    <2> QED
      BY <1>1, <1>2, <2>1 DEF Sound
  <1>3. CASE k \notin kept
    <2>1. Remaining(kept)[k] = DefaultEntry
      BY <1>3 DEF Remaining
    <2>2. clock \in Nat /\ bans[k] \in Ban /\ since[k] \in SUBSET Failure /\ entries[k] \in BanEntry
      BY DEF IInv, TypeOK
    <2>3. ~(clock < bans[k].until)
      <3> SUFFICES ASSUME clock < bans[k].until PROVE FALSE
        OBVIOUS
      <3>1. /\ k \in tracked
            /\ entries[k].banned_at # None
            /\ entries[k].banned_at + Duration = bans[k].until
            /\ entries[k].banned_at <= clock
        BY <1>1 DEF Sound
      <3>2. entries[k].banned_at \in Nat
        BY <2>2, <3>1 DEF BanEntry
      <3>3. Elapsed(t, entries[k].banned_at) < Duration
        <4>1. clock - entries[k].banned_at < Duration
          BY <3>1, <3>2, <2>2, BanAssumption
        <4> QED
          BY <4>1, <3>2, <2>2, ElapsedLess, BanAssumption
      <3>4. k \in Survivors(t)
        BY <3>1, <3>3 DEF Survivors, ban_active
      <3> QED
        BY <3>4, <1>3
    <2>4. \A f \in since[k] : ~(clock - f.at < Window)
      <3> SUFFICES ASSUME NEW f \in since[k], clock - f.at < Window PROVE FALSE
        OBVIOUS
      <3>1. f \in entries[k].failures
        BY <1>1 DEF Sound
      <3>2. k \in tracked
        BY <1>1, <3>1 DEF Sound, DefaultEntry
      <3>3. f.at \in Nat
        BY <2>2 DEF Failure
      <3>4. Elapsed(t, f.at) < Window
        BY <3>3, <2>2, ElapsedLess, BanAssumption
      <3>5. f \in Retained(k, t)
        BY <3>1, <3>4 DEF Retained, Recent
      <3>6. k \in Survivors(t)
        BY <3>2, <3>5 DEF Survivors
      <3> QED
        BY <3>6, <1>3
    <2>5. DefaultEntry \in BanEntry /\ DefaultEntry.failures = {} /\ DefaultEntry.banned_at = None
      BY DEF DefaultEntry, BanEntry
    <2>6. IsFiniteSet({})
      BY FS_EmptySet
    <2> QED
      BY <1>3, <2>1, <2>2, <2>3, <2>4, <2>5, <2>6 DEF Sound, None
  <1> QED
    BY <1>2, <1>3

\* make_room keeps at least what a purge keeps.
LEMMA AfterMakeRoomBetween ==
  ASSUME NEW k, NEW t
  PROVE  /\ Survivors(t) \subseteq AfterMakeRoom(k, t)
         /\ AfterMakeRoom(k, t) \subseteq tracked
         /\ k \in tracked => AfterMakeRoom(k, t) = tracked
  BY DEF AfterMakeRoom, Survivors, TableFull

\* A set of tracked keys is finite and no larger than the table.
LEMMA SubsetOfTracked ==
  ASSUME IInv, NEW kept, kept \subseteq tracked
  PROVE  /\ IsFiniteSet(kept)
         /\ Cardinality(kept) \in Nat
         /\ Cardinality(kept) <= MaxTracked
  <1>1. IsFiniteSet(tracked)
    BY KeysFinite, FS_Subset DEF IInv, TypeOK
  <1>2. IsFiniteSet(kept) /\ Cardinality(kept) <= Cardinality(tracked)
    BY <1>1, FS_Subset
  <1>3. Cardinality(kept) \in Nat /\ Cardinality(tracked) \in Nat
    BY <1>1, <1>2, FS_CardinalityType
  <1> QED
    BY <1>2, <1>3, BanAssumption DEF IInv

\* A map from which entries were purged is a map.
LEMMA RemainingType ==
  ASSUME TypeOK, NEW kept
  PROVE  Remaining(kept) \in [Keys -> BanEntry]
  BY DEF TypeOK, Remaining, DefaultEntry, BanEntry

-----------------------------------------------------------------------------
(* The invariant is inductive.                                             *)

\* An empty table satisfies the invariant.
LEMMA InitIInv == Init => IInv
  <1> SUFFICES ASSUME Init PROVE IInv
    OBVIOUS
  <1>1. DefaultEntry \in BanEntry /\ DefaultEntry.failures = {} /\ DefaultEntry.banned_at = None
    BY DEF DefaultEntry, BanEntry
  <1>2. NoBan \in Ban /\ NoBan.until = 0 /\ NoBan.evidence = {}
    BY DEF NoBan, Ban
  <1>3. TypeOK
    BY <1>1, <1>2 DEF Init, TypeOK, Stages
  <1>4. IsFiniteSet({}) /\ Cardinality({}) = 0
    BY FS_EmptySet
  <1>5. \A k \in Keys : Sound(k, entries[k], tracked, clock)
    BY <1>1, <1>2, <1>4 DEF Init, Sound, None
  <1> QED
    BY <1>2, <1>3, <1>4, <1>5, KeyOfInKeys, BanAssumption DEF Init, IInv

\* A caller that comes back leaves the others as they are.
LEMMA ReturnFact ==
  ASSUME IInv, NEW p \in Callers, Return(p)
  PROVE  /\ clock' = clock /\ clock' \in Nat
         /\ pending' \subseteq Callers
         /\ now' \in [Callers -> Nat]
         /\ \A q \in pending' : now'[q] <= clock' /\ clock' - now'[q] <= MaxDelay
  BY DEF IInv, TypeOK, Return

\* Instant::now(): the moment read is the present one.
LEMMA ReadClockIInv ==
  ASSUME IInv, NEW p \in Callers, ReadClock(p)
  PROVE  IInv'
  <1> USE DEF ReadClock, tableVars, historyVars
  <1>1. TypeOK'
    BY DEF IInv, TypeOK
  <1>2. \A q \in pending' : now'[q] <= clock' /\ clock' - now'[q] <= MaxDelay
    BY BanAssumption DEF IInv, TypeOK
  <1>3. \A k \in Keys : Sound(k, entries[k], tracked, clock)'
    BY DEF IInv, Sound
  <1> QED
    BY <1>1, <1>2, <1>3 DEF IInv

\* Steps that touch neither the table nor the clock.
LEMMA StageIInv ==
  ASSUME IInv, NEW a \in Attempt, NEW s \in {"rejected", "inside", "over"},
         stage' = [stage EXCEPT ![a] = s],
         s = "rejected" => ban_active(entries[KeyOf(a)], now[a]),
         s = "inside" => a \in pending /\ ~ban_active(entries[KeyOf(a)], now[a]),
         clock' = clock,
         pending' \subseteq Callers,
         now' \in [Callers -> Nat],
         \A q \in pending' : now'[q] <= clock' /\ clock' - now'[q] <= MaxDelay,
         UNCHANGED <<tableVars, historyVars>>
  PROVE  IInv'
  <1> USE DEF tableVars, historyVars
  <1>1. TypeOK'
    BY DEF IInv, TypeOK, Stages
  <1>2. \A k \in Keys : Sound(k, entries[k], tracked, clock)'
    BY DEF IInv, Sound
  <1>3. Sound(KeyOf(a), entries[KeyOf(a)], tracked, clock) /\ KeyOf(a) \in Keys
    BY KeyOfInKeys DEF IInv
  <1>4. s = "rejected" => bans[KeyOf(a)].evidence # {}
    BY <1>3 DEF Sound, ban_active
  <1>5. s = "inside" => ~(clock < bans[KeyOf(a)].until)
    <2> SUFFICES ASSUME s = "inside", clock < bans[KeyOf(a)].until PROVE FALSE
      OBVIOUS
    <2>1. /\ entries[KeyOf(a)].banned_at \in Nat
          /\ entries[KeyOf(a)].banned_at # None
          /\ entries[KeyOf(a)].banned_at + Duration = bans[KeyOf(a)].until
      BY <1>3 DEF Sound, BanEntry
    <2>2. now[a] \in Nat /\ clock \in Nat /\ now[a] <= clock
      BY DEF IInv, TypeOK, Callers
    <2>3. Elapsed(now[a], entries[KeyOf(a)].banned_at) < Duration
      <3>1. clock - entries[KeyOf(a)].banned_at < Duration
        BY <2>1, <2>2, BanAssumption
      <3> QED
        BY <3>1, <2>1, <2>2, ElapsedLess, BanAssumption
    <2> QED
      BY <2>1, <2>3 DEF ban_active
  <1>6. \A b \in Attempt : stage'[b] = "rejected" => bans'[KeyOf(b)].evidence # {}
    BY <1>4 DEF IInv, TypeOK
  <1>7. \A b \in Attempt : stage'[b] = "inside" /\ clock' < bans'[KeyOf(b)].until
                              => b \in bans'[KeyOf(b)].inside
    BY <1>5 DEF IInv, TypeOK
  <1> QED
    BY <1>1, <1>2, <1>6, <1>7 DEF IInv

\* Time goes by: what the map must hold only becomes less.
LEMMA TickIInv == IInv /\ Tick => IInv'
  <1> SUFFICES ASSUME IInv, Tick PROVE IInv'
    OBVIOUS
  <1> USE DEF Tick, callVars, tableVars, historyVars
  <1>1. TypeOK'
    BY DEF IInv, TypeOK
  <1>2. \A q \in pending' : now'[q] <= clock' /\ clock' - now'[q] <= MaxDelay
    BY BanAssumption DEF IInv, TypeOK
  <1>3. ASSUME NEW k \in Keys PROVE Sound(k, entries[k], tracked, clock)'
    <2>1. Sound(k, entries[k], tracked, clock)
      BY DEF IInv
    <2>2. /\ clock \in Nat /\ clock' = clock + 1
          /\ entries[k] \in BanEntry /\ bans[k] \in Ban /\ since[k] \subseteq Failure
      BY DEF IInv, TypeOK
    <2>3. \A f \in entries[k].failures : f.at <= clock' /\ KeyOf(f.by) = k
      BY <2>1, <2>2 DEF Sound, BanEntry, Failure
    <2>4. entries[k].banned_at <= clock'
      BY <2>1, <2>2 DEF Sound, BanEntry, None
    <2>5. clock' < bans[k].until =>
             /\ k \in tracked /\ entries[k].banned_at # None
             /\ entries[k].banned_at + Duration = bans[k].until
      BY <2>1, <2>2 DEF Sound, Ban
    <2>6. \A f \in since[k] : clock' - f.at < Window => f \in entries[k].failures
      BY <2>1, <2>2, BanAssumption DEF Sound, Failure
    <2> QED
      BY <2>1, <2>3, <2>4, <2>5, <2>6 DEF Sound
  <1>4. \A b \in Attempt : stage[b] = "inside" /\ clock' < bans[KeyOf(b)].until
                              => b \in bans[KeyOf(b)].inside
    BY KeyOfInKeys DEF IInv, TypeOK, Ban
  <1> QED
    BY <1>1, <1>2, <1>3, <1>4 DEF IInv

\* A purge, by the purger or by make_room, that finds no room all the same.
LEMMA ShrinkIInv ==
  ASSUME IInv, NEW t \in Nat, t <= clock,
         NEW kept, Survivors(t) \subseteq kept, kept \subseteq tracked,
         tracked' = kept,
         entries' = Remaining(kept),
         last_full_purge' \in Nat \cup {None},
         stage' \in [Attempt -> Stages],
         \A b \in Attempt : stage'[b] # stage[b] => stage'[b] = "over",
         clock' = clock,
         pending' \subseteq Callers,
         now' \in [Callers -> Nat],
         \A q \in pending' : now'[q] <= clock' /\ clock' - now'[q] <= MaxDelay,
         UNCHANGED historyVars
  PROVE  IInv'
  <1> USE DEF historyVars
  <1>1. TypeOK'
    BY RemainingType DEF IInv, TypeOK
  <1>2. Cardinality(tracked') <= MaxTracked
    BY SubsetOfTracked
  <1>3. ASSUME NEW k \in Keys PROVE Sound(k, entries[k], tracked, clock)'
    <2>1. Sound(k, Remaining(kept)[k], kept, clock)
      BY RemainingSound
    <2> QED
      BY <2>1 DEF Sound
  <1>4. \A b \in Attempt : stage'[b] = "rejected" => bans'[KeyOf(b)].evidence # {}
    BY DEF IInv
  <1>5. \A b \in Attempt : stage'[b] = "inside" /\ clock' < bans'[KeyOf(b)].until
                              => b \in bans'[KeyOf(b)].inside
    BY DEF IInv
  <1>6. \A k \in Keys : bans'[k].evidence # {} => Justified(k, bans'[k].evidence)
    BY DEF IInv
  <1> QED
    BY <1>1, <1>2, <1>3, <1>4, <1>5, <1>6 DEF IInv

\* What a failure adds to its entry: finitely many failures of one key, all
\* within the window as its caller sees it.
LEMMA CountedFact ==
  ASSUME IInv, NEW a \in Attempt, a \in pending
  PROVE  /\ Counted(a) \subseteq Failure
         /\ IsFiniteSet(Counted(a))
         /\ Cardinality(Counted(a)) \in Nat
         /\ \A f \in Counted(a) : f.at <= clock /\ KeyOf(f.by) = KeyOf(a)
         /\ \A f, g \in Counted(a) : f.at - g.at < Window + MaxDelay
         /\ \A f \in entries[KeyOf(a)].failures : clock - f.at < Window => f \in Counted(a)
         /\ [at |-> now[a], by |-> a] \in Counted(a)
  <1> DEFINE k == KeyOf(a)
             new == [at |-> now[a], by |-> a]
  <1>1. k \in Keys /\ Sound(k, entries[k], tracked, clock)
    BY KeyOfInKeys DEF IInv
  <1>2. /\ now[a] \in Nat /\ clock \in Nat
        /\ now[a] <= clock /\ clock - now[a] <= MaxDelay
    BY DEF IInv, TypeOK, Callers
  <1>3. entries[k].failures \subseteq Failure
    BY <1>1 DEF Sound, BanEntry
  <1>4. new \in Failure /\ new.at = now[a] /\ new.by = a
    BY <1>2 DEF Failure
  <1>5. Retained(k, now[a]) \subseteq entries[k].failures
    BY DEF Retained
  <1>6. IsFiniteSet(Retained(k, now[a]))
    BY <1>1, <1>5, FS_Subset DEF Sound
  <1>7. IsFiniteSet(Counted(a))
    BY <1>6, FS_AddElement DEF Counted
  <1>8. \A f \in Counted(a) : /\ f.at \in Nat /\ f.at <= clock
                             /\ KeyOf(f.by) = k
                             /\ now[a] - f.at < Window
    <2> SUFFICES ASSUME NEW f \in Counted(a)
                 PROVE  /\ f.at \in Nat /\ f.at <= clock
                        /\ KeyOf(f.by) = k
                        /\ now[a] - f.at < Window
      OBVIOUS
    <2>1. CASE f = new
      BY <2>1, <1>2, <1>4, BanAssumption
    <2>2. CASE f \in Retained(k, now[a])
      <3>1. f.at \in Nat /\ f.at <= clock /\ KeyOf(f.by) = k
        BY <2>2, <1>1, <1>3, <1>5 DEF Sound, Failure
      <3>2. Elapsed(now[a], f.at) < Window
        BY <2>2 DEF Retained, Recent
      <3> QED
        BY <3>1, <3>2, <1>2, BanAssumption DEF Elapsed
    <2> QED
      BY <2>1, <2>2 DEF Counted
  <1>9. \A f, g \in Counted(a) : f.at - g.at < Window + MaxDelay
    <2> SUFFICES ASSUME NEW f \in Counted(a), NEW g \in Counted(a)
                 PROVE  f.at - g.at < Window + MaxDelay
      OBVIOUS
    <2>1. f.at \in Nat /\ f.at <= clock /\ g.at \in Nat /\ now[a] - g.at < Window
      BY <1>8
    <2> QED
      BY <2>1, <1>2, BanAssumption
  <1>10. \A f \in entries[k].failures : clock - f.at < Window => f \in Counted(a)
    <2> SUFFICES ASSUME NEW f \in entries[k].failures, clock - f.at < Window
                 PROVE  f \in Retained(k, now[a])
      BY DEF Counted
    <2>1. f.at \in Nat
      BY <1>3 DEF Failure
    <2>2. Elapsed(now[a], f.at) < Window
      BY <2>1, <1>2, ElapsedLess, BanAssumption
    <2> QED
      BY <2>2 DEF Retained, Recent
  <1>11. Counted(a) \subseteq Failure
    BY <1>3, <1>4, <1>5 DEF Counted
  <1> QED
    BY <1>7, <1>8, <1>9, <1>10, <1>11, FS_CardinalityType DEF Counted

\* What the two verdicts that change the entry have in common.
LEMMA CountFailureFact ==
  ASSUME IInv, NEW a \in Attempt, CountFailure(a)
  PROVE  /\ a \in pending /\ MaxFailures > 0
         /\ clock' = clock
         /\ pending' \subseteq Callers
         /\ now' \in [Callers -> Nat]
         /\ \A q \in pending' : now'[q] <= clock' /\ clock' - now'[q] <= MaxDelay
         /\ stage' \in [Attempt -> Stages]
         /\ \A b \in Attempt : stage'[b] # stage[b] => stage'[b] = "over"
         /\ last_full_purge' \in Nat \cup {None}
         /\ tracked' \subseteq Keys
         /\ KeyOf(a) \in tracked'
         /\ Cardinality(tracked') <= MaxTracked
         /\ Remaining(tracked') \in [Keys -> BanEntry]
         /\ \A k \in Keys \ {KeyOf(a)} : Sound(k, Remaining(tracked')[k], tracked', clock)
  <1> DEFINE k == KeyOf(a)
             t == now[a]
             kept == AfterMakeRoom(k, t)
  <1>1. /\ a \in pending /\ MaxFailures > 0
        /\ stage' = [stage EXCEPT ![a] = "over"]
        /\ Return(a)
        /\ tracked' = kept \cup {k}
        /\ HasRoom(k, t)
        /\ MarkFullPurge(k, t)
    BY DEF CountFailure, Failing
  <1>2. k \in Keys /\ a \in Callers /\ t \in Nat /\ t <= clock
    BY <1>1, KeyOfInKeys DEF IInv, TypeOK, Callers
  <1>3. /\ clock' = clock
        /\ pending' \subseteq Callers
        /\ now' \in [Callers -> Nat]
        /\ \A q \in pending' : now'[q] <= clock' /\ clock' - now'[q] <= MaxDelay
    BY SMTT(30), <1>1, <1>2, ReturnFact
  <1>4. /\ stage' \in [Attempt -> Stages]
        /\ \A b \in Attempt : stage'[b] # stage[b] => stage'[b] = "over"
    BY SMTT(30), <1>1 DEF IInv, TypeOK, Stages
  <1>5. last_full_purge' \in Nat \cup {None}
    BY <1>1, <1>2 DEF MarkFullPurge, IInv, TypeOK
  <1>6. /\ Survivors(t) \subseteq kept
        /\ kept \subseteq tracked
        /\ k \in tracked => kept = tracked
    BY SMTT(30), AfterMakeRoomBetween
  <1>7. tracked' \subseteq Keys /\ k \in tracked'
    BY <1>1, <1>2, <1>6 DEF IInv, TypeOK
  <1>8. Cardinality(tracked') <= MaxTracked
    <2>1. CASE k \in tracked
      <3>1. tracked' = tracked
        BY <2>1, <1>1, <1>6
      <3> QED
        BY <3>1 DEF IInv
    <2>2. CASE k \notin tracked
      <3>1. Cardinality(kept) < MaxTracked
        BY <2>2, <1>1 DEF HasRoom
      <3>2. IsFiniteSet(kept) /\ Cardinality(kept) \in Nat /\ k \notin kept
        BY <1>6, <2>2, SubsetOfTracked
      <3>3. Cardinality(kept \cup {k}) = Cardinality(kept) + 1
        BY Zenon, <3>2, FS_AddElement
      <3> QED
        BY <3>1, <3>2, <3>3, <1>1, BanAssumption
    <2> QED
      BY SMTT(30), <2>1, <2>2
  <1>9. Remaining(tracked') \in [Keys -> BanEntry]
    BY RemainingType DEF IInv
  <1>10. ASSUME NEW x \in Keys \ {k}
         PROVE  Sound(x, Remaining(tracked')[x], tracked', clock)
    <2>1. Sound(x, Remaining(kept)[x], kept, clock)
      BY <1>2, <1>6, RemainingSound
    <2>2. Remaining(tracked')[x] = Remaining(kept)[x] /\ (x \in tracked' <=> x \in kept)
      BY SMTT(30), <1>1 DEF Remaining
    <2> QED
      BY <2>1, <2>2 DEF Sound
  <1> QED
    BY Zenon, <1>1, <1>3, <1>4, <1>5, <1>7, <1>8, <1>9, <1>10

\* FailureVerdict::Counted keeps every failure that is still in the window.
LEMMA FailureCountedIInv ==
  ASSUME IInv, NEW a \in Attempt, FailureCounted(a)
  PROVE  IInv'
  <1> DEFINE k == KeyOf(a)
             new == [at |-> now[a], by |-> a]
             entry == [failures |-> Counted(a), banned_at |-> None]
  <1>1. /\ CountFailure(a)
        /\ Cardinality(Counted(a)) < MaxFailures
        /\ entries' = [Remaining(tracked') EXCEPT ![k] = entry]
        /\ since' = [since EXCEPT ![k] = @ \cup {new}]
        /\ bans' = bans
        /\ ~ban_active(entries[k], now[a])
    BY DEF FailureCounted, CountFailure
  <1>2. k \in Keys /\ a \in pending
    BY <1>1, KeyOfInKeys, CountFailureFact
  <1>3. Counted(a) \subseteq Failure /\ new \in Counted(a)
    BY <1>2, CountedFact
  <1>4. entry \in BanEntry
    BY SMTT(30), <1>3 DEF BanEntry
  <1>5. TypeOK'
    BY SMTT(30), <1>1, <1>2, <1>3, <1>4, CountFailureFact DEF IInv, TypeOK
  <1>6. Sound(k, entries[k], tracked, clock)
    BY SMTT(30), <1>2 DEF IInv
  <1>7. ~(clock < bans[k].until)
    <2> SUFFICES ASSUME clock < bans[k].until PROVE FALSE
      BY SMTT(30)
    <2>1. /\ entries[k].banned_at \in Nat /\ entries[k].banned_at # None
          /\ entries[k].banned_at + Duration = bans[k].until
      BY SMTT(30), <1>6 DEF Sound, BanEntry
    <2>2. now[a] \in Nat /\ clock \in Nat /\ now[a] <= clock
      BY <1>2 DEF IInv, TypeOK, Callers
    <2>3. clock - entries[k].banned_at < Duration
      BY <2>1, <2>2, BanAssumption
    <2> QED
      BY <1>1, <2>1, <2>2, <2>3, ElapsedLess, BanAssumption DEF ban_active
  <1>8. ASSUME NEW x \in Keys PROVE Sound(x, entries[x], tracked, clock)'
    <2>1. CASE x = k
      <3>1. entries'[x] = entry /\ clock' = clock /\ k \in tracked'
        BY <1>1, <1>2, <2>1, CountFailureFact
      <3>2. IsFiniteSet(Counted(a)) /\ \A f \in Counted(a) : f.at <= clock /\ KeyOf(f.by) = k
        BY Zenon, <1>2, CountedFact
      <3>3. \A f \in since'[x] : clock - f.at < Window => f \in Counted(a)
        <4>1. since'[x] = since[k] \cup {new}
          BY <1>1, <1>2, <2>1 DEF IInv, TypeOK
        <4>2. \A f \in since[k] : clock - f.at < Window => f \in Counted(a)
          BY ZenonT(30), <1>2, <1>6, CountedFact DEF Sound
        <4> QED
          BY SMTT(30), <4>1, <4>2, <1>3
      <3>4. None <= clock
        BY DEF IInv, TypeOK, None
      <3> QED
        BY SMTT(30), <1>1, <1>4, <1>7, <2>1, <3>1, <3>2, <3>3, <3>4 DEF Sound
    <2>2. CASE x # k
      <3>1. /\ entries'[x] = Remaining(tracked')[x] /\ since'[x] = since[x]
            /\ clock' = clock /\ bans' = bans
        BY Zenon, <1>1, <2>2, CountFailureFact DEF IInv, TypeOK
      <3>2. Sound(x, Remaining(tracked')[x], tracked', clock)
        BY Zenon, <1>1, <2>2, CountFailureFact
      <3> QED
        BY <3>1, <3>2 DEF Sound
    <2> QED
      BY SMTT(30), <2>1, <2>2
  <1>9. /\ clock' = clock
        /\ \A b \in Attempt : stage'[b] # stage[b] => stage'[b] = "over"
        /\ \A q \in pending' : now'[q] <= clock' /\ clock' - now'[q] <= MaxDelay
        /\ Cardinality(tracked') <= MaxTracked
    BY SMTT(30), <1>1, CountFailureFact
  <1> QED
    BY <1>1, <1>5, <1>8, <1>9 DEF IInv

\* FailureVerdict::Banned: the entry is cleared and the ban begins.  It cannot
\* cut an earlier one short, which is over by now.
LEMMA FailureBansIInv ==
  ASSUME IInv, NEW a \in Attempt, FailureBans(a)
  PROVE  IInv'
  <1> DEFINE k == KeyOf(a)
             t == now[a]
             entry == [failures |-> {}, banned_at |-> t]
             end == IF bans[k].until > t + Duration THEN bans[k].until ELSE t + Duration
             ban == [until |-> end, inside |-> {b \in Attempt : stage[b] = "inside"},
                     evidence |-> Counted(a)]
  <1>1. /\ CountFailure(a)
        /\ Cardinality(Counted(a)) >= MaxFailures
        /\ entries' = [Remaining(tracked') EXCEPT ![k] = entry]
        /\ since' = [since EXCEPT ![k] = {}]
        /\ bans' = [bans EXCEPT ![k] = ban]
        /\ ~ban_active(entries[k], t)
    BY SMTT(30) DEF FailureBans, CountFailure
  <1>2. k \in Keys /\ a \in pending /\ MaxFailures > 0 /\ bans[k] \in Ban
    BY SMTT(30), <1>1, KeyOfInKeys, CountFailureFact DEF IInv, TypeOK
  <1>3. t \in Nat /\ clock \in Nat /\ t <= clock
    BY SMTT(30), <1>2 DEF IInv, TypeOK, Callers
  <1>4. entry \in BanEntry /\ entry.banned_at = t /\ entry.failures = {}
    BY <1>3 DEF BanEntry
  <1>5. bans[k].until \in Nat /\ end \in Nat
    BY <1>2, <1>3, BanAssumption DEF Ban
  <1>6. Counted(a) \subseteq Failure /\ Counted(a) # {} /\ Justified(k, Counted(a))
    BY Zenon, <1>1, <1>2, CountedFact DEF Justified
  <1>7. ban \in Ban
    BY <1>5, <1>6 DEF Ban
  <1>8. TypeOK'
    BY <1>1, <1>2, <1>4, <1>7, CountFailureFact DEF IInv, TypeOK
  <1>9. ~(clock < bans[k].until)
    <2> SUFFICES ASSUME clock < bans[k].until PROVE FALSE
      BY SMTT(30)
    <2>1. /\ entries[k].banned_at \in Nat /\ entries[k].banned_at # None
          /\ entries[k].banned_at + Duration = bans[k].until
      BY <1>2 DEF IInv, Sound, BanEntry
    <2>2. clock - entries[k].banned_at < Duration
      BY SMTT(30), <2>1, <1>3, BanAssumption
    <2> QED
      BY SMTT(30), <1>1, <1>3, <2>1, <2>2, ElapsedLess, BanAssumption DEF ban_active
  <1>10. bans'[k] = ban /\ ban.until = end /\ ban.evidence = Counted(a)
    BY SMTT(30), <1>1, <1>2 DEF IInv, TypeOK
  <1>11. ASSUME NEW x \in Keys PROVE Sound(x, entries[x], tracked, clock)'
    <2>1. CASE x = k
      <3>1. entries'[x] = entry /\ clock' = clock /\ k \in tracked' /\ since'[x] = {}
        BY <1>1, <1>2, <2>1, CountFailureFact DEF IInv, TypeOK
      <3>2. IsFiniteSet({}) /\ Cardinality({}) = 0
        BY FS_EmptySet
      <3>3. clock < end => t + Duration = end
        BY <1>3, <1>5, <1>9, BanAssumption
      <3>4. t # None
        BY SMTT(30), <1>3 DEF None
      <3> QED
        BY SMTT(30), <1>2, <1>3, <1>4, <1>6, <1>10, <2>1, <3>1, <3>2, <3>3, <3>4 DEF Sound
    <2>2. CASE x # k
      <3>1. /\ entries'[x] = Remaining(tracked')[x] /\ since'[x] = since[x]
            /\ clock' = clock /\ bans'[x] = bans[x]
        BY <1>1, <2>2, CountFailureFact DEF IInv, TypeOK
      <3>2. Sound(x, Remaining(tracked')[x], tracked', clock)
        BY <1>1, <2>2, CountFailureFact
      <3> QED
        BY SMTT(30), <3>1, <3>2 DEF Sound
    <2> QED
      BY SMTT(30), <2>1, <2>2
  <1>12. /\ clock' = clock
         /\ \A b \in Attempt : stage'[b] # stage[b] => stage'[b] = "over"
         /\ \A q \in pending' : now'[q] <= clock' /\ clock' - now'[q] <= MaxDelay
         /\ Cardinality(tracked') <= MaxTracked
    BY <1>1, CountFailureFact
  <1>13. \A x \in Keys : x # k => bans'[x] = bans[x]
    BY SMTT(30), <1>1 DEF IInv, TypeOK
  <1>14. \A x \in Keys : bans'[x].evidence # {} => Justified(x, bans'[x].evidence)
    BY SMTT(30), <1>6, <1>10, <1>13 DEF IInv
  <1>15. \A b \in Attempt : stage'[b] = "rejected" => bans'[KeyOf(b)].evidence # {}
    BY <1>6, <1>10, <1>12, <1>13, KeyOfInKeys DEF IInv
  <1>16. \A b \in Attempt : stage'[b] = "inside" /\ clock' < bans'[KeyOf(b)].until
                               => b \in bans'[KeyOf(b)].inside
    <2> SUFFICES ASSUME NEW b \in Attempt, stage'[b] = "inside",
                        clock' < bans'[KeyOf(b)].until
                 PROVE  b \in bans'[KeyOf(b)].inside
      OBVIOUS
    <2>1. stage[b] = "inside" /\ KeyOf(b) \in Keys
      BY SMTT(30), <1>12, KeyOfInKeys
    <2>2. CASE KeyOf(b) = k
      <3>1. b \in ban.inside
        BY SMTT(30), <2>1
      <3> QED
        BY <1>10, <2>2, <3>1
    <2>3. CASE KeyOf(b) # k
      <3>1. bans'[KeyOf(b)] = bans[KeyOf(b)] /\ clock < bans[KeyOf(b)].until
        BY <1>12, <1>13, <2>1, <2>3
      <3> QED
        BY <2>1, <3>1 DEF IInv
    <2> QED
      BY <2>2, <2>3
  <1> QED
    BY <1>8, <1>11, <1>12, <1>14, <1>15, <1>16 DEF IInv

\* Every step of an attempt preserves the invariant.
LEMMA AttemptIInv ==
  ASSUME IInv, NEW a \in Attempt, AttemptStep(a)
  PROVE  IInv'
  <1> USE KeyOfInKeys
  <1>0. a \in Callers
    BY DEF Callers
  <1>1. CASE CallIsBanned(a) \/ CallRecordFailure(a)
    BY <1>0, <1>1, ReadClockIInv DEF CallIsBanned, CallRecordFailure
  <1>2. CASE IsBanned(a)
    <2> DEFINE s == IF ban_active(entries[KeyOf(a)], now[a]) THEN "rejected" ELSE "inside"
    <2>1. stage' = [stage EXCEPT ![a] = s] /\ a \in pending /\ Return(a)
          /\ UNCHANGED <<tableVars, historyVars>>
      BY <1>2 DEF IsBanned
    <2> QED
      BY Zenon, <1>0, <2>1, StageIInv, ReturnFact
  <1>3. CASE Leave(a)
    <2>1. /\ clock' = clock
          /\ pending' \subseteq Callers
          /\ now' \in [Callers -> Nat]
          /\ \A q \in pending' : now'[q] <= clock' /\ clock' - now'[q] <= MaxDelay
      BY <1>3 DEF Leave, callVars, IInv, TypeOK
    <2> QED
      BY Zenon, <1>3, <2>1, StageIInv DEF Leave
  <1>4. CASE FailureDisabled(a) \/ FailureWhileBanned(a)
    <2>1. stage' = [stage EXCEPT ![a] = "over"] /\ Return(a)
          /\ UNCHANGED <<tableVars, historyVars>>
      BY <1>4 DEF FailureDisabled, FailureWhileBanned, Failing
    <2> QED
      BY Zenon, <1>0, <2>1, StageIInv, ReturnFact
  <1>5. CASE FailureUntracked(a)
    <2> DEFINE k == KeyOf(a)
               kept == AfterMakeRoom(k, now[a])
    <2>1. /\ a \in pending /\ Return(a)
          /\ stage' = [stage EXCEPT ![a] = "over"]
          /\ tracked' = kept
          /\ entries' = Remaining(kept)
          /\ MarkFullPurge(k, now[a])
          /\ UNCHANGED historyVars
      BY SMTT(30), <1>5 DEF FailureUntracked, Failing
    <2>2. now[a] \in Nat /\ now[a] <= clock
      BY <1>0, <2>1 DEF IInv, TypeOK
    <2>3. Survivors(now[a]) \subseteq kept /\ kept \subseteq tracked
      BY AfterMakeRoomBetween
    <2>4. last_full_purge' \in Nat \cup {None}
      BY Zenon, <2>1, <2>2 DEF MarkFullPurge, IInv, TypeOK
    <2>5. /\ stage' \in [Attempt -> Stages]
          /\ \A b \in Attempt : stage'[b] # stage[b] => stage'[b] = "over"
      BY Zenon, <2>1 DEF IInv, TypeOK, Stages
    <2>6. /\ clock' = clock
          /\ pending' \subseteq Callers
          /\ now' \in [Callers -> Nat]
          /\ \A q \in pending' : now'[q] <= clock' /\ clock' - now'[q] <= MaxDelay
      BY <1>0, <2>1, ReturnFact
    <2> HIDE DEF kept
    <2> QED
      BY <2>1, <2>2, <2>3, <2>4, <2>5, <2>6, ShrinkIInv
  <1>6. CASE FailureCounted(a)
    BY <1>6, FailureCountedIInv
  <1>7. CASE FailureBans(a)
    BY <1>7, FailureBansIInv
  <1> QED
    BY <1>1, <1>2, <1>3, <1>4, <1>5, <1>6, <1>7 DEF AttemptStep

\* Every step preserves the invariant.
LEMMA NextIInv == IInv /\ [Next]_vars => IInv'
  <1> SUFFICES ASSUME IInv, [Next]_vars PROVE IInv'
    OBVIOUS
  <1>1. CASE \E a \in Attempt : AttemptStep(a)
    BY <1>1, AttemptIInv
  <1>2. CASE CallPurge \/ CallStats
    BY <1>2, ReadClockIInv DEF CallPurge, CallStats, Callers
  <1>3. CASE Purge
    <2> DEFINE t == now["purger"]
               kept == Survivors(t)
    <2>1. /\ "purger" \in pending /\ Return("purger")
          /\ tracked' = kept /\ entries' = Remaining(kept)
          /\ UNCHANGED <<stage, last_full_purge, historyVars>>
      BY SMTT(30), <1>3 DEF Purge
    <2>2. "purger" \in Callers /\ t \in Nat /\ t <= clock
      BY <2>1 DEF IInv, TypeOK
    <2>3. Survivors(t) \subseteq kept /\ kept \subseteq tracked
      BY DEF Survivors
    <2>4. /\ last_full_purge' \in Nat \cup {None}
          /\ stage' \in [Attempt -> Stages]
          /\ \A b \in Attempt : stage'[b] # stage[b] => stage'[b] = "over"
      BY <2>1 DEF IInv, TypeOK
    <2>5. /\ clock' = clock
          /\ pending' \subseteq Callers
          /\ now' \in [Callers -> Nat]
          /\ \A q \in pending' : now'[q] <= clock' /\ clock' - now'[q] <= MaxDelay
      BY SMTT(30), <2>1, <2>2, ReturnFact
    <2> HIDE DEF kept, t
    <2> QED
      BY <2>1, <2>2, <2>3, <2>4, <2>5, ShrinkIInv
  <1>4. CASE Stats
    <2>1. /\ "reporter" \in Callers /\ Return("reporter")
          /\ UNCHANGED <<stage, tableVars, historyVars>>
      BY Zenon, <1>4 DEF Stats, IInv, TypeOK
    <2>2. /\ clock' = clock /\ clock' \in Nat
          /\ pending' \subseteq Callers
          /\ now' \in [Callers -> Nat]
          /\ \A q \in pending' : now'[q] <= clock' /\ clock' - now'[q] <= MaxDelay
      BY SMTT(30), <2>1, ReturnFact
    <2>3. TypeOK'
      BY <2>1, <2>2 DEF IInv, TypeOK, tableVars, historyVars
    <2>4. \A k \in Keys : Sound(k, entries[k], tracked, clock)'
      BY ZenonT(30), <2>1, <2>2 DEF IInv, Sound, tableVars, historyVars
    <2> QED
      BY SMTT(30), <2>1, <2>2, <2>3, <2>4 DEF IInv, tableVars, historyVars
  <1>5. CASE Tick
    BY SMTT(30), <1>5, TickIInv
  <1>6. CASE UNCHANGED vars
    <2>1. TypeOK'
      BY <1>6 DEF IInv, TypeOK, vars
    <2>2. \A k \in Keys : Sound(k, entries[k], tracked, clock)'
      BY Zenon, <1>6 DEF IInv, Sound, vars
    <2> QED
      <3>1. /\ Cardinality(tracked') <= MaxTracked
            /\ \A p \in pending' : now'[p] <= clock' /\ clock' - now'[p] <= MaxDelay
        BY <1>6 DEF IInv, vars
      <3>2. \A k \in Keys :
              bans'[k].evidence # {} => Justified(k, bans'[k].evidence)
        BY SMTT(30), <1>6 DEF IInv, vars
      <3>3. \A a \in Attempt :
              /\ stage'[a] = "rejected" => bans'[KeyOf(a)].evidence # {}
              /\ stage'[a] = "inside" /\ clock' < bans'[KeyOf(a)].until
                  => a \in bans'[KeyOf(a)].inside
        BY SMTT(30), <1>6 DEF IInv, vars
      <3> QED
        BY SMTT(30), <2>1, <2>2, <3>1, <3>2, <3>3 DEF IInv
  <1> QED
    BY <1>1, <1>2, <1>3, <1>4, <1>5, <1>6 DEF Next

-----------------------------------------------------------------------------
(* The theorems.                                                           *)

\* The inductive invariant holds in every reachable state.
THEOREM Invariance == Spec => []IInv
  BY InitIInv, NextIInv, PTL DEF Spec

\* Type correctness, and the bounds of the table: never more than max_tracked
\* entries nor max_failures failures in one of them.
THEOREM TableIsBounded == Spec => [](TypeOK /\ TableBounded)
  <1>1. IInv => TypeOK /\ TableBounded
    BY Zenon DEF IInv, TypeOK, TableBounded, Sound
  <1> QED
    BY <1>1, Invariance, PTL

\* A ban lasts for `duration`, whatever else is called and however late.
THEOREM BansHold == Spec => []BanHolds
  <1>1. IInv => BanHolds
    <2> SUFFICES ASSUME IInv, NEW k \in Keys, clock < bans[k].until
                 PROVE  k \in tracked /\ ban_active(entries[k], clock)
      BY SMTT(30) DEF BanHolds
    <2>1. /\ k \in tracked /\ entries[k].banned_at \in Nat /\ entries[k].banned_at # None
          /\ entries[k].banned_at + Duration = bans[k].until
      <3>1. Sound(k, entries[k], tracked, clock)
        BY DEF IInv
      <3> QED
        BY <3>1 DEF Sound, BanEntry
    <2>2. clock \in Nat
      BY DEF IInv, TypeOK
    <2>3. clock - entries[k].banned_at < Duration
      BY SMTT(30), <2>1, <2>2, BanAssumption
    <2> QED
      BY <2>1, <2>2, <2>3, ElapsedLess, BanAssumption DEF ban_active
  <1> QED
    BY <1>1, Invariance, PTL

\* No address of a banned client is let in.
THEOREM BannedClientsStayOut == Spec => []BannedStayOut
  <1>1. IInv => BannedStayOut
    BY SameClientSameKey DEF IInv, BannedStayOut
  <1> QED
    BY <1>1, Invariance, PTL

\* Fewer than max_failures wrong passwords per window and client go unpunished.
THEOREM GuessingIsBounded == Spec => []GuessesBounded
  <1>1. IInv => GuessesBounded
    <2> SUFFICES ASSUME IInv, MaxFailures > 0, NEW k \in Keys
                 PROVE  Cardinality({f \in since[k] : clock - f.at < Window}) < MaxFailures
      BY SMTT(30) DEF GuessesBounded
    <2> DEFINE recent == {f \in since[k] : clock - f.at < Window}
               failures == entries[k].failures
    <2>1. recent \subseteq failures /\ IsFiniteSet(failures)
      BY DEF IInv, Sound
    <2>2. Cardinality(failures) < MaxFailures
      <3>1. CASE k \in tracked
        BY <3>1 DEF IInv, Sound
      <3>2. CASE k \notin tracked
        <4>1. failures = {}
          BY <3>2 DEF IInv, Sound, DefaultEntry
        <4> QED
          BY SMTT(30), <4>1, FS_EmptySet
      <3> QED
        BY SMTT(30), <3>1, <3>2
    <2>3. Cardinality(recent) <= Cardinality(failures) /\ IsFiniteSet(recent)
      BY <2>1, FS_Subset
    <2>4. Cardinality(recent) \in Nat /\ Cardinality(failures) \in Nat
      BY <2>1, <2>3, FS_CardinalityType
    <2> HIDE DEF recent, failures
    <2>5. Cardinality(recent) < MaxFailures
      BY SMTT(30), <2>2, <2>3, <2>4, BanAssumption
    <2> QED
      BY <2>5 DEF recent
  <1> QED
    BY <1>1, Invariance, PTL

\* Nobody is turned away without max_failures failures of its own client.
THEOREM RejectionsAreJustified == Spec => []RejectionJustified
  <1>1. IInv => RejectionJustified
    BY KeyOfInKeys DEF IInv, RejectionJustified, Justified
  <1> QED
    BY <1>1, Invariance, PTL
=============================================================================
