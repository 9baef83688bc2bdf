------------------------------ MODULE BanList -------------------------------
(***************************************************************************)
(* Brute-force protection: the table of failed logins and bans             *)
(* (src/policy/ban_list.rs and ban_list_inner.rs), called by the accept    *)
(* loop (is_banned), by the connection tasks (record_failure), by the      *)
(* purger (purge) and by the stats reporter (stats).                       *)
(*                                                                         *)
(* Every call reads the clock BEFORE it takes the lock, so each is two     *)
(* steps here, and the table is updated with a moment that may be older    *)
(* than what other callers have already written.                           *)
(***************************************************************************)
EXTENDS Integers, FiniteSets

CONSTANTS
    Attempt,        \* connections of clients; each sends at most one password
    PeerOf,         \* the peer address of each attempt
    Background,     \* the background tasks that run: "purger", "reporter"
    MaxFailures,    \* BanConfig::max_failures, 0 disables banning
    Window,         \* BanConfig::window
    Duration,       \* BanConfig::duration
    MaxTracked,     \* BanConfig::max_tracked
    PurgeInterval,  \* FULL_TABLE_PURGE_INTERVAL
    MaxDelay,       \* bound: ticks between reading the clock and the lock
    MaxTime         \* bound: the last moment of the clock

-----------------------------------------------------------------------------
(* Addresses: an IPv4 address, an IPv4 address mapped into IPv6, or an     *)
(* IPv6 address.  `net` stands for the upper 64 bits of an IPv6 address    *)
(* and for half of an IPv4 address, `host` for the rest.                   *)
Address == [kind : {"v4", "mapped", "v6"}, net : Nat, host : Nat]

canonical_ip(ip) == IF ip.kind = "mapped" THEN [ip EXCEPT !.kind = "v4"] ELSE ip

\* Mutant: IPv6 clients are tracked by their whole address.
ban_key_whole(ip) == canonical_ip(ip)

\* IPv6 clients are tracked per /64.
ban_key(ip) ==
    LET canonical == canonical_ip(ip) IN
    IF canonical.kind = "v6" THEN [canonical EXCEPT !.host = 0] ELSE canonical

KeyOf(a) == ban_key(PeerOf[a])
Keys == {KeyOf(a) : a \in Attempt}

\* What ServerConfig::from_settings admits, and finitely many attempts.
ASSUME BanAssumption ==
    /\ IsFiniteSet(Attempt)
    /\ PeerOf \in [Attempt -> Address]
    /\ Background \subseteq {"purger", "reporter"}
    /\ MaxFailures \in Nat
    /\ Window \in Nat \ {0}
    /\ Duration \in Nat \ {0}
    /\ MaxTracked \in Nat \ {0}
    /\ PurgeInterval \in Nat \ {0}
    /\ MaxDelay \in Nat
    /\ MaxTime \in Nat

VARIABLES
    clock,            \* the monotonic clock behind Instant::now()
    pending,          \* the callers between reading the clock and the lock
    now,              \* the moment each of them has read, 0 for the others
    stage,            \* how far each attempt is
    tracked,          \* the keys of the map `entries`
    entries,          \* what it holds for them, the default for other keys
    last_full_purge,  \* None or the moment of the last one
    bans,             \* history: the ban of each key
    since             \* history: failures counted for each key since its ban

vars == <<clock, pending, now, stage, tracked, entries, last_full_purge, bans, since>>

callVars == <<pending, now>>
tableVars == <<tracked, entries, last_full_purge>>
historyVars == <<bans, since>>

-----------------------------------------------------------------------------
None == -1

Stages == {"arriving", "rejected", "inside", "over"}

Callers == Attempt \cup Background

\* A failure moment; `by` tells apart failures of the same moment.  Nothing
\* reads the order of the deque, so it is a set.
Failure == [at : Nat, by : Attempt]

BanEntry == [failures : SUBSET Failure, banned_at : Nat \cup {None}]

DefaultEntry == [failures |-> {}, banned_at |-> None]

\* History of the last ban: when it ends, who was inside when it began, and
\* the failures it was imposed for.
Ban == [until : Nat, inside : SUBSET Attempt, evidence : SUBSET Failure]

NoBan == [until |-> 0, inside |-> {}, evidence |-> {}]

Init ==
    /\ clock = 0
    /\ pending = {}
    /\ now = [p \in Callers |-> 0]
    /\ stage = [a \in Attempt |-> "arriving"]
    /\ tracked = {}
    /\ entries = [k \in Keys |-> DefaultEntry]
    /\ last_full_purge = None
    /\ bans = [k \in Keys |-> NoBan]
    /\ since = [k \in Keys |-> {}]

-----------------------------------------------------------------------------
(* The rules of BanListInner, at the moment t a caller has read.           *)

\* Mutant: a moment that lies ahead counts as long past.
ElapsedWraps(t, at) == IF t >= at THEN t - at ELSE Window + Duration

\* saturating_duration_since
Elapsed(t, at) == IF t > at THEN t - at ELSE 0

ban_active(entry, t) ==
    /\ entry.banned_at # None
    /\ Elapsed(t, entry.banned_at) < Duration

Recent(f, t) == Elapsed(t, f.at) < Window

\* Mutant: old failures are never dropped.
RetainedAll(k, t) == entries[k].failures

Retained(k, t) == {f \in entries[k].failures : Recent(f, t)}

\* Mutant: an entry is kept for its failures only.
SurvivorsWithoutBans(t) == {k \in tracked : Retained(k, t) # {}}

\* The keys that purge keeps.
Survivors(t) ==
    {k \in tracked : ban_active(entries[k], t) \/ Retained(k, t) # {}}

\* What the map holds once only the keys `kept` are left in it.
Remaining(kept) == [k \in Keys |-> IF k \in kept THEN entries[k] ELSE DefaultEntry]

PurgeDue(t) ==
    \/ last_full_purge = None
    \/ Elapsed(t, last_full_purge) >= PurgeInterval

\* A failure of an address that is not in the map finds the map full.
TableFull(k) == k \notin tracked /\ Cardinality(tracked) >= MaxTracked

\* make_room: the keys left when the entry of k is looked up ...
AfterMakeRoom(k, t) ==
    IF TableFull(k) /\ PurgeDue(t) THEN Survivors(t) ELSE tracked

\* Mutant: whether the purge has freed anything is not looked at.
HasRoomOncePurged(k, t) == k \in tracked \/ ~TableFull(k) \/ PurgeDue(t)

\* ... and whether the entry is there or may be added.
HasRoom(k, t) ==
    k \in tracked \/ Cardinality(AfterMakeRoom(k, t)) < MaxTracked

\* make_room leaves its mark only when it purges.
MarkFullPurge(k, t) ==
    last_full_purge' = IF TableFull(k) /\ PurgeDue(t) THEN t ELSE last_full_purge

-----------------------------------------------------------------------------
(* Calls: the clock is read, then the lock is taken.                       *)

ReadClock(p) ==
    /\ p \notin pending
    /\ pending' = pending \cup {p}
    /\ now' = [now EXCEPT ![p] = clock]
    /\ UNCHANGED <<clock, stage, tableVars, historyVars>>

Return(p) ==
    /\ pending' = pending \ {p}
    /\ now' = [now EXCEPT ![p] = 0]
    /\ UNCHANGED clock

\* admit asks about a new client; there is one accept loop.
CallIsBanned(a) ==
    /\ stage[a] = "arriving"
    /\ \A b \in pending \cap Attempt : stage[b] # "arriving"
    /\ ReadClock(a)

\* authenticate: the password is wrong.
CallRecordFailure(a) ==
    /\ stage[a] = "inside"
    /\ ReadClock(a)

CallPurge == "purger" \in Background /\ ReadClock("purger")

CallStats == "reporter" \in Background /\ ReadClock("reporter")

IsBanned(a) ==
    /\ a \in pending
    /\ stage[a] = "arriving"
    /\ stage' = [stage EXCEPT ![a] =
                    IF ban_active(entries[KeyOf(a)], now[a]) THEN "rejected" ELSE "inside"]
    /\ Return(a)
    /\ UNCHANGED <<tableVars, historyVars>>

\* The connection ends, or logs in, without a failure.
Leave(a) ==
    /\ stage[a] = "inside"
    /\ a \notin pending
    /\ stage' = [stage EXCEPT ![a] = "over"]
    /\ UNCHANGED <<clock, callVars, tableVars, historyVars>>

\* record_failure has the lock; the connection is over after any verdict.
Failing(a) ==
    /\ a \in pending
    /\ stage[a] = "inside"
    /\ stage' = [stage EXCEPT ![a] = "over"]
    /\ Return(a)

\* FailureVerdict::Disabled
FailureDisabled(a) ==
    /\ MaxFailures = 0
    /\ Failing(a)
    /\ UNCHANGED <<tableVars, historyVars>>

\* FailureVerdict::Untracked
FailureUntracked(a) ==
    LET k == KeyOf(a)
        t == now[a]
    IN
    /\ MaxFailures > 0
    /\ ~HasRoom(k, t)
    /\ Failing(a)
    /\ tracked' = AfterMakeRoom(k, t)
    /\ entries' = Remaining(tracked')
    /\ MarkFullPurge(k, t)
    /\ UNCHANGED historyVars

\* FailureVerdict::Banned, by a ban that is active already.
FailureWhileBanned(a) ==
    /\ MaxFailures > 0
    /\ KeyOf(a) \in tracked
    /\ ban_active(entries[KeyOf(a)], now[a])
    /\ Failing(a)
    /\ UNCHANGED <<tableVars, historyVars>>

\* The failures in the window, this one included.
Counted(a) ==
    Retained(KeyOf(a), now[a]) \cup {[at |-> now[a], by |-> a]}

\* Mutant: failures count although banning is disabled.
CountFailureAlways(a) ==
    LET k == KeyOf(a)
        t == now[a]
    IN
    /\ HasRoom(k, t)
    /\ ~ban_active(entries[k], t)
    /\ Failing(a)
    /\ tracked' = AfterMakeRoom(k, t) \cup {k}
    /\ MarkFullPurge(k, t)

\* The failure is added to the entry, which is created if need be.
CountFailure(a) ==
    LET k == KeyOf(a)
        t == now[a]
    IN
    /\ MaxFailures > 0
    /\ HasRoom(k, t)
    /\ ~ban_active(entries[k], t)
    /\ Failing(a)
    /\ tracked' = AfterMakeRoom(k, t) \cup {k}
    /\ MarkFullPurge(k, t)

\* FailureVerdict::Counted
FailureCounted(a) ==
    LET k == KeyOf(a) IN
    /\ CountFailure(a)
    /\ Cardinality(Counted(a)) < MaxFailures
    /\ entries' = [Remaining(tracked') EXCEPT
                      ![k] = [failures |-> Counted(a), banned_at |-> None]]
    /\ since' = [since EXCEPT ![k] = @ \cup {[at |-> now[a], by |-> a]}]
    /\ UNCHANGED bans

\* FailureVerdict::Banned, by this failure.
FailureBans(a) ==
    LET k == KeyOf(a)
        t == now[a]
    IN
    /\ CountFailure(a)
    /\ Cardinality(Counted(a)) >= MaxFailures
    /\ entries' = [Remaining(tracked') EXCEPT
                      ![k] = [failures |-> {}, banned_at |-> t]]
    /\ bans' = [bans EXCEPT ![k] =
                   [until |-> IF @.until > t + Duration THEN @.until ELSE t + Duration,
                    inside |-> {b \in Attempt : stage[b] = "inside"},
                    evidence |-> Counted(a)]]
    /\ since' = [since EXCEPT ![k] = {}]

Purge ==
    /\ "purger" \in pending
    /\ tracked' = Survivors(now["purger"])
    /\ entries' = Remaining(tracked')
    /\ Return("purger")
    /\ UNCHANGED <<stage, last_full_purge, historyVars>>

\* BanListStats::tracked in the stats line.
TrackedClients == Cardinality(tracked)

Stats ==
    /\ "reporter" \in pending
    /\ Return("reporter")
    /\ UNCHANGED <<stage, tableVars, historyVars>>

\* Time passes; nobody waits for the lock longer than MaxDelay.
Tick ==
    /\ clock < MaxTime
    /\ \A p \in pending : clock - now[p] < MaxDelay
    /\ clock' = clock + 1
    /\ UNCHANGED <<callVars, stage, tableVars, historyVars>>

AttemptStep(a) ==
    \/ CallIsBanned(a)
    \/ IsBanned(a)
    \/ Leave(a)
    \/ CallRecordFailure(a)
    \/ FailureDisabled(a)
    \/ FailureUntracked(a)
    \/ FailureWhileBanned(a)
    \/ FailureCounted(a)
    \/ FailureBans(a)

Next ==
    \/ \E a \in Attempt : AttemptStep(a)
    \/ CallPurge
    \/ Purge
    \/ CallStats
    \/ Stats
    \/ Tick

Spec == Init /\ [][Next]_vars

-----------------------------------------------------------------------------
(* Properties.                                                             *)

TypeOK ==
    /\ clock \in Nat
    /\ pending \subseteq Callers
    /\ now \in [Callers -> Nat]
    /\ stage \in [Attempt -> Stages]
    /\ tracked \subseteq Keys
    /\ entries \in [Keys -> BanEntry]
    /\ last_full_purge \in Nat \cup {None}
    /\ bans \in [Keys -> Ban]
    /\ since \in [Keys -> SUBSET Failure]

\* Memory is bounded whatever the clients do: the table never has more than
\* max_tracked addresses, and no address more failures than it takes to ban
\* it; a banned one has none (record_failure and make_room).
TableBounded ==
    /\ Cardinality(tracked) <= MaxTracked
    /\ \A k \in tracked :
          /\ Cardinality(entries[k].failures) < MaxFailures
          /\ entries[k].banned_at # None => entries[k].failures = {}

\* A ban lasts: until `duration` after the failure that imposed it, no purge,
\* no full table and no call that read the clock earlier or later lifts or
\* shortens it, and is_banned says so.
BanHolds ==
    \A k \in Keys :
        clock < bans[k].until => k \in tracked /\ ban_active(entries[k], clock)

\* One client, as the documentation of the ban list means it: an IPv4 address,
\* mapped or not, or any address of an IPv6 /64.
SameClient(x, y) ==
    /\ x.net = y.net
    /\ IF "v6" \in {x.kind, y.kind} THEN x.kind = y.kind ELSE x.host = y.host

\* While a ban is in force no password of the banned client is looked at, from
\* whichever of its addresses, save on connections that were inside when the
\* ban began: admit asks is_banned once, and a banned client is never let in.
BannedStayOut ==
    \A a, b \in Attempt :
        /\ SameClient(PeerOf[a], PeerOf[b])
        /\ stage[a] = "inside"
        /\ clock < bans[KeyOf(b)].until
        => a \in bans[KeyOf(b)].inside

\* Guessing is bounded: of the failures a key has had counted since its last
\* ban, fewer than max_failures lie within the window, so that none is ever
\* forgotten before its time (retain, purge and the full-table purge all run
\* with the clock of their caller).
GuessesBounded ==
    MaxFailures > 0 =>
        \A k \in Keys :
            Cardinality({f \in since[k] : clock - f.at < Window}) < MaxFailures

\* Nobody is turned away without cause: a rejected client's /64 had
\* max_failures failures within the window, give or take the time a caller
\* waits for the lock.  With max_failures = 0 nobody is turned away.
RejectionJustified ==
    \A a \in Attempt :
        stage[a] = "rejected" =>
            LET evidence == bans[KeyOf(a)].evidence IN
            /\ MaxFailures > 0
            /\ Cardinality(evidence) >= MaxFailures
            /\ \A f, g \in evidence :
                  /\ KeyOf(f.by) = KeyOf(a)
                  /\ f.at - g.at < Window + MaxDelay

\* "Addresses with recent failures or an active ban.", the doc of `tracked`,
\* said of the moment the reporter has read.
TrackedCountsActive ==
    "reporter" \in pending =>
        TrackedClients = Cardinality(Survivors(now["reporter"]))
=============================================================================
