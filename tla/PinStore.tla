------------------------------ MODULE PinStore ------------------------------
(***************************************************************************)
(* Enrolled pins (src/src/pin_store.c), the TLS session that uses them     *)
(* (pinned_tls.c) and the policy of its two users, the NTS key exchange    *)
(* (nts.c) and DNS over HTTPS (dns.c): a leaf whose key is pinned is       *)
(* accepted; another must be vouched for by a CA, and is enrolled at once  *)
(* (first run, all pins expired, renewal window open) or, when it comes    *)
(* early, only once something else confirms it.                            *)
(*                                                                         *)
(* Connections run on worker threads.  Each reads a copy of the record,    *)
(* talks to the network, and decides on the copy; the store is locked for  *)
(* one operation at a time, writing pins.dat included.  The program may    *)
(* die between any two steps.  The two pools have fewer endpoints than     *)
(* the store has entries (PINSTORE_MAX_ENTRIES), so it is never full.      *)
(***************************************************************************)
EXTENDS Integers, SequencesExt

CONSTANTS
    Threads,
    Hosts,                                    \* endpoints
    Certs,                                    \* leaves: [key, from, until, vouched]
    PIN_STORE_MAX_SPKIS,                      \* 4
    PINSTORE_RENEWAL_MARGIN_CAP_SECONDS,      \* 30 days
    PINSTORE_RENEWAL_RETRY_COOLDOWN_SECONDS,  \* 1 hour
    DOH_ROTATION_CORROBORATE_MS,              \* 10 minutes
    DOH_ROT_CANDIDATES,                       \* 2
    SystemSkews,                              \* how wrong the system clock may be at a restart
    WatchedThread, WatchedKey,                \* those the two ghosts are about
    Start, Horizon,                           \* bounds on true time
    MaxRestarts

ASSUME PinConstants ==
    /\ Hosts # {} /\ Certs # {}
    /\ \A c \in Certs : c.from \in Nat /\ c.until \in Nat /\ c.vouched \in BOOLEAN
    /\ PIN_STORE_MAX_SPKIS \in Nat \ {0} /\ DOH_ROT_CANDIDATES \in Nat \ {0}
    /\ PINSTORE_RENEWAL_MARGIN_CAP_SECONDS \in Nat
    /\ PINSTORE_RENEWAL_RETRY_COOLDOWN_SECONDS \in Nat /\ DOH_ROTATION_CORROBORATE_MS \in Nat
    /\ 0 \in SystemSkews /\ SystemSkews \subseteq Int
    /\ WatchedThread \in Threads /\ Start \in Nat \ {0}

VARIABLES
    kind,        \* is an endpoint an NTS server or a DoH resolver?  It never changes
    utc,         \* true time; the tick count advances with it
    skew,        \* the system clock is off by this much
    disciplined, \* does Clock_NowUtcMs answer?
    leaf,        \* the certificate each endpoint presents
    mem,         \* g_entries: [spkis, stamp] for each endpoint
    file,        \* pins.dat: the lines of each endpoint
    cand,        \* DoH rotation candidates: sets of [key, first]
    worker,      \* each thread: [pc, host, usable, due, cert, ok, scheduled]
    restarts,
    renewed,     \* ghost: when WatchedThread last renewed a pin of an endpoint on
                 \* schedule, 0 for never
    sighted      \* ghost: when an endpoint first came with WatchedKey in this run

env == <<kind, utc, skew, disciplined, leaf>>
store == <<mem, file>>
ghost == <<renewed, sighted>>
vars == <<env, store, cand, worker, restarts, ghost>>

NoRecord == [spkis |-> <<>>, stamp |-> 0]
Resting == [pc |-> "idle", host |-> CHOOSE h \in Hosts : TRUE, usable |-> {},
            due |-> FALSE, cert |-> CHOOSE c \in Certs : TRUE, ok |-> FALSE,
            scheduled |-> FALSE]
-----------------------------------------------------------------------------
(***************************************************************************)
(* Clocks and dates.                                                       *)
(***************************************************************************)
System == IF utc + skew > 0 THEN utc + skew ELSE 0

NowUnixSeconds == IF disciplined THEN utc ELSE System

\* A third of the validity, 30 days at most.
RenewalMarginSeconds(c) ==
    LET third == (c.until - c.from) \div 3
    IN  IF c.from > 0 /\ c.from < c.until /\ third < PINSTORE_RENEWAL_MARGIN_CAP_SECONDS
        THEN third ELSE PINSTORE_RENEWAL_MARGIN_CAP_SECONDS

RenewalDue(c) ==
    LET due == c.until - RenewalMarginSeconds(c) IN IF due < 0 THEN 0 ELSE due

\* A CA's certificates do not end in the first month of 1970, so that zero can stand
\* for no date.
ASSUME RenewalsHaveDates == \A c \in Certs : c.vouched => RenewalDue(c) > 0

\* Windows decides, on the system clock.
CaAccepts(c) == c.vouched /\ System >= c.from /\ System < c.until
-----------------------------------------------------------------------------
(***************************************************************************)
(* The record of an endpoint, and the file.                                *)
(***************************************************************************)
Place(spkis, c) == SelectInSeq(spkis, LAMBDA d : d.key = c.key)

\* Mutant: a full record gives up the key it confirmed last.
UpsertOverNewest(spkis, c) ==
    IF Place(spkis, c) # 0 THEN Append(RemoveAt(spkis, Place(spkis, c)), c)
    ELSE IF Len(spkis) < PIN_STORE_MAX_SPKIS THEN Append(spkis, c)
    ELSE Append(Front(spkis), c)

\* A known key becomes the newest; a new key may push the oldest out.
Upsert(spkis, c) ==
    IF Place(spkis, c) # 0 THEN Append(RemoveAt(spkis, Place(spkis, c)), c)
    ELSE IF Len(spkis) < PIN_STORE_MAX_SPKIS THEN Append(spkis, c)
    ELSE Append(Tail(spkis), c)

\* One line for each key, oldest first.
Serialize == [h \in Hosts |-> mem[h].spkis]

\* The lines are taken in one by one; no attempt is remembered.
Parse(lines) ==
    [h \in Hosts |-> [spkis |-> FoldLeft(Upsert, <<>>, lines[h]), stamp |-> 0]]

\* The keys of the record that have not expired.
CollectValidSpkis(rec) ==
    {c.key : c \in {d \in Range(rec.spkis) :
        d.until > 0 /\ (NowUnixSeconds <= 0 \/ NowUnixSeconds < d.until)}}

\* Mutant: the renewal is due again as soon as it was made.
ShouldRenewAlways(rec) ==
    \/ rec.spkis = <<>>
    \/ NowUnixSeconds >= RenewalDue(Last(rec.spkis))

\* In the window of the newest key, and not just attempted.
ShouldRenew(rec) ==
    \/ rec.spkis = <<>>
    \/ RenewalDue(Last(rec.spkis)) <= 0
    \/ NowUnixSeconds <= 0
    \/ /\ NowUnixSeconds >= RenewalDue(Last(rec.spkis))
       /\ ~ /\ rec.stamp > 0
            /\ NowUnixSeconds - rec.stamp < PINSTORE_RENEWAL_RETRY_COOLDOWN_SECONDS
-----------------------------------------------------------------------------
Init ==
    /\ kind \in [Hosts -> {"nts", "doh"}]
    /\ utc = Start /\ skew = 0 /\ disciplined = FALSE
    /\ leaf \in [Hosts -> {c \in Certs : c.vouched /\ c.from <= Start /\ Start < c.until}]
    /\ mem = [h \in Hosts |-> NoRecord]
    /\ file = Serialize
    /\ cand = [h \in Hosts |-> {}]
    /\ worker = [t \in Threads |-> Resting]
    /\ restarts = 0
    /\ renewed = [h \in Hosts |-> 0]
    /\ sighted = [h \in Hosts |-> 0]

Goto(t, pc) == worker' = [worker EXCEPT ![t].pc = pc]
Unlocked == \A t \in Threads : worker[t].pc # "write"

\* The connection is over; the thread may ask another endpoint.
Finish(t, ok) == worker' = [worker EXCEPT ![t] =
    [Resting EXCEPT !.host = worker[t].host, !.ok = ok]]

(***************************************************************************)
(* A connection.                                                           *)
(***************************************************************************)
\* The TCP connection stands: copy the record, choose the pins, look at the
\* renewal window.
Read(t, h) ==
    /\ worker[t].pc = "idle" /\ Unlocked
    /\ LET usable == CollectValidSpkis(mem[h])
       IN  worker' = [worker EXCEPT ![t] =
             [Resting EXCEPT !.pc = "handshake", !.host = h, !.usable = usable,
                             !.due = (usable = {} \/ ShouldRenew(mem[h]))]]
    /\ UNCHANGED <<env, store, cand, restarts, ghost>>

NetworkFails(t) ==
    /\ worker[t].pc = "handshake"
    /\ Finish(t, FALSE)
    /\ UNCHANGED <<env, store, cand, restarts, ghost>>

Matched(t, c) == c.key \in worker[t].usable

\* PinnedTls_OpenEnrolledSet: the CA is asked about a leaf that matches no pin,
\* and about one that does when a refresh is due.
AsksCa(t, c) == ~Matched(t, c) \/ worker[t].due

\* The leaf is early: some pin is usable, none is this, no renewal is due.
Early(t, c) == worker[t].usable # {} /\ ~Matched(t, c) /\ ~worker[t].due

\* The peer presents c, and the CA, if asked, answers ca.
Handshake(t, c, ca) ==
    /\ worker[t].pc = "handshake"
    /\ ca => AsksCa(t, c) /\ CaAccepts(c)
    /\ IF ca
       THEN worker' = [worker EXCEPT ![t] =
              [Resting EXCEPT !.host = worker[t].host, !.cert = c,
                 !.pc = IF ~Early(t, c) THEN "save"
                        ELSE IF kind[worker[t].host] = "doh" THEN "observe" ELSE "pending",
                 !.scheduled = (worker[t].due /\ Matched(t, c))]]
       ELSE Finish(t, Matched(t, c))    \* a failed refresh breaks no pin
    /\ UNCHANGED <<env, store, cand, restarts, ghost>>
-----------------------------------------------------------------------------
(***************************************************************************)
(* An early key, and what confirms it.                                     *)
(***************************************************************************)
\* NTS: the cycle the sample was in passed the gate with an enrolled peer of
\* another operator, so the aggregator saves the key; or it did not, or the
\* exchange failed after all.
Promote(t) ==
    /\ worker[t].pc = "pending"
    /\ Goto(t, "save")
    /\ UNCHANGED <<env, store, cand, restarts, ghost>>

Discard(t) ==
    /\ worker[t].pc = "pending"
    /\ Finish(t, TRUE)
    /\ UNCHANGED <<env, store, cand, restarts, ghost>>

Oldest(cs) == CHOOSE x \in cs : \A y \in cs : x.first <= y.first

\* Mutant: the key takes over the slot with the time of the key it displaces.
SightedInSlot(cs, c) ==
    IF Cardinality(cs) < DOH_ROT_CANDIDATES
    THEN cs \cup {[key |-> c.key, first |-> utc]}
    ELSE (cs \ {Oldest(cs)}) \cup {[key |-> c.key, first |-> Oldest(cs).first]}

\* A new candidate takes a free slot or that of the oldest.
Sighted(cs, c) ==
    (IF Cardinality(cs) < DOH_ROT_CANDIDATES THEN cs ELSE cs \ {Oldest(cs)})
        \cup {[key |-> c.key, first |-> utc]}

\* DoH: the same key, seen again long enough after, is saved.
Observe(t) ==
    LET h == worker[t].host
        c == worker[t].cert
        known == {x \in cand[h] : x.key = c.key}
    IN  /\ worker[t].pc = "observe"
        /\ sighted' = IF c.key = WatchedKey /\ sighted[h] = 0
                      THEN [sighted EXCEPT ![h] = utc] ELSE sighted
        /\ \/ /\ \E x \in known : utc - x.first >= DOH_ROTATION_CORROBORATE_MS
              /\ cand' = [cand EXCEPT ![h] = @ \ known]
              /\ Goto(t, "save")
           \/ /\ \A x \in known : utc - x.first < DOH_ROTATION_CORROBORATE_MS
              /\ cand' = [cand EXCEPT ![h] = IF known = {} THEN Sighted(@, c) ELSE @]
              /\ Finish(t, TRUE)
    /\ UNCHANGED <<env, store, restarts, renewed>>
-----------------------------------------------------------------------------
(***************************************************************************)
(* PinStore_SavePin: the store is locked from here to the end of Rename.   *)
(***************************************************************************)
Save(t) ==
    LET h == worker[t].host
    IN  /\ worker[t].pc = "save" /\ Unlocked
        /\ mem' = [mem EXCEPT ![h] = [spkis |-> Upsert(@.spkis, worker[t].cert),
                                      stamp |-> NowUnixSeconds]]
        /\ renewed' = IF t = WatchedThread /\ worker[t].scheduled
                      THEN [renewed EXCEPT ![h] = NowUnixSeconds] ELSE renewed
        /\ worker' = [worker EXCEPT ![t] = [Resting EXCEPT !.pc = "write", !.host = h]]
        /\ UNCHANGED <<env, file, cand, restarts, sighted>>

\* pins.dat.tmp was written and flushed, and takes the name pins.dat.  Until then
\* pins.dat is as it was; a temporary file that is left over is never read.
Rename(t) ==
    /\ worker[t].pc = "write"
    /\ file' = Serialize
    /\ Finish(t, TRUE)
    /\ UNCHANGED <<env, mem, cand, restarts, ghost>>

\* No path, no encryption, disk full, file held by another program: the pins
\* stay in memory, and the session goes on.
PersistFails(t) ==
    /\ worker[t].pc = "write"
    /\ Finish(t, TRUE)
    /\ UNCHANGED <<env, store, cand, restarts, ghost>>
-----------------------------------------------------------------------------
(***************************************************************************)
(* The world.                                                              *)
(***************************************************************************)
\* An operator never lets its certificate lapse.
Tick ==
    /\ utc < Horizon /\ \A h \in Hosts : utc + 1 < leaf[h].until
    /\ utc' = utc + 1
    /\ UNCHANGED <<kind, skew, disciplined, leaf, store, cand, worker, restarts, ghost>>

Rotate(h, c) ==
    /\ c.vouched /\ c.from <= utc /\ utc < c.until /\ c # leaf[h]
    /\ leaf' = [leaf EXCEPT ![h] = c]
    /\ UNCHANGED <<kind, utc, skew, disciplined, store, cand, worker, restarts, ghost>>

\* The clock engine starts to answer, or loses its anchor (with a right system
\* clock nobody can tell).  A ghost that was taken on the other clock is forgotten.
Discipline(d) ==
    /\ skew # 0 /\ disciplined # d /\ disciplined' = d
    /\ renewed' = [h \in Hosts |-> 0]
    /\ UNCHANGED <<kind, utc, skew, leaf, store, cand, worker, restarts, sighted>>

\* The system clock is put right.
SystemClockSet ==
    /\ skew # 0 /\ skew' = 0 /\ disciplined' = FALSE
    /\ renewed' = [h \in Hosts |-> 0]
    /\ UNCHANGED <<kind, utc, leaf, store, cand, worker, restarts, sighted>>

\* The program ends, at any point, and starts again: PinStore_Init takes every
\* line of the file or, if it cannot be read, decrypted or parsed, none.
Restart(readable, s) ==
    /\ restarts < MaxRestarts /\ restarts' = restarts + 1
    /\ skew' = s /\ disciplined' = FALSE
    /\ mem' = IF readable THEN Parse(file) ELSE [h \in Hosts |-> NoRecord]
    /\ cand' = [h \in Hosts |-> {}]
    /\ worker' = [t \in Threads |-> Resting]
    /\ renewed' = [h \in Hosts |-> 0] /\ sighted' = [h \in Hosts |-> 0]
    /\ UNCHANGED <<kind, utc, leaf, file>>
-----------------------------------------------------------------------------
Presented(t) == {leaf[worker[t].host]} \cup {c \in Certs : ~c.vouched}

Connection(t) ==
    \/ \E h \in Hosts : Read(t, h)
    \/ NetworkFails(t)
    \/ \E c \in Presented(t), ca \in BOOLEAN : Handshake(t, c, ca)
    \/ Promote(t) \/ Discard(t) \/ Observe(t)
    \/ Save(t) \/ Rename(t) \/ PersistFails(t)

World ==
    \/ Tick \/ SystemClockSet
    \/ \E h \in Hosts, c \in Certs : Rotate(h, c)
    \/ \E d \in BOOLEAN : Discipline(d)
    \/ \E r \in BOOLEAN, s \in SystemSkews : Restart(r, s)

Next == World \/ \E t \in Threads : Connection(t)

Spec == Init /\ [][Next]_vars
-----------------------------------------------------------------------------
(***************************************************************************)
(* Properties.                                                             *)
(***************************************************************************)
\* pin_store.c keeps its promise (PinLedger): whatever the threads do, wherever
\* a write fails and whenever the program dies, an endpoint is left with the
\* keys a CA confirmed last, in that order, in memory; and the next run finds
\* exactly what was last written, or nothing.
Ledger == INSTANCE PinLedger WITH
    MaxKeys <- PIN_STORE_MAX_SPKIS, known <- [h \in Hosts |-> mem[h].spkis], durable <- file
KeepsLedger == Ledger!Spec

\* pin_store.c: inside the window "re-attempt the CA refresh at most this often".
\* A thread that renewed a pin renews it again no sooner than the cooldown, on
\* whatever copies of the record the threads decide, as long as one clock is
\* used throughout.
NoRenewalStorm == [][
    worker[WatchedThread].pc = "save" /\ worker[WatchedThread].scheduled
        /\ worker'[WatchedThread].pc = "write"
        => LET last == renewed[worker[WatchedThread].host]
           IN  \/ last = 0
               \/ NowUnixSeconds - last >= PINSTORE_RENEWAL_RETRY_COOLDOWN_SECONDS]_vars

\* dns.c: "the new key is persisted only once the SAME key is seen again at least
\* DOH_ROTATION_CORROBORATE_MS later", however many keys compete for the slots.
SecondSighting == [][\A t \in Threads :
    worker[t].pc = "observe" /\ worker'[t].pc = "save" /\ worker[t].cert.key = WatchedKey
        => /\ sighted[worker[t].host] > 0
           /\ utc - sighted[worker[t].host] >= DOH_ROTATION_CORROBORATE_MS]_vars
=============================================================================
