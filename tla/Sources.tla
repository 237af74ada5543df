------------------------------ MODULE Sources ------------------------------
(***************************************************************************)
(* Which servers a polling cycle asks (src/src/ntp.c, nts.c).  Each core   *)
(* slot and each NTS slot is given a primary and a replacement, striped    *)
(* over one draw; its worker asks them in turn.                            *)
(*                                                                         *)
(* Core: a random draw from the pool, without the hosts that sent a        *)
(* kiss-o'-death.  A worker that overruns its cycle is detached and goes   *)
(* on with the candidates it was given.                                    *)
(*                                                                         *)
(* NTS: a random draw of distinct operators, near providers first, which   *)
(* is kept for some cycles while the clock is trusted.  It reads how near  *)
(* they are once for each of three passes, without a lock, while a worker  *)
(* detached from an earlier cycle may report a round trip.                 *)
(*                                                                         *)
(* The two halves share nothing but the trust of the clock, which either   *)
(* finds as it may be.                                                     *)
(***************************************************************************)
EXTENDS Integers, SequencesExt

CONSTANTS
    CoreHosts, CoreSlots,         \* kCorePool, NTP_CORE_COUNT
    KOD_RATE_COOLDOWN_MS,         \* 15 minutes
    Providers, Operator,          \* kProviders and operator_family
    NtsSlots,                     \* NTP_NTS_COUNT
    NTS_STICKY_ROTATE_CYCLES      \* 8

Attempts == 2                     \* NTP_CORE_SLOT_ATTEMPTS, NTP_NTS_SLOT_ATTEMPTS
Operators == {Operator[p] : p \in Providers}

\* The static assertions of ntp.c and nts.c, and what the shipped pool satisfies: a
\* draw of NTS providers can be one of distinct operators.
ASSUME PoolsSuffice ==
    /\ CoreSlots \in Nat \ {0} /\ NtsSlots \in Nat \ {0}
    /\ KOD_RATE_COOLDOWN_MS \in Nat /\ IsFiniteSet(CoreHosts) /\ IsFiniteSet(Providers)
    /\ CoreSlots * Attempts <= Cardinality(CoreHosts)
    /\ NtsSlots * Attempts <= Cardinality(Operators)

VARIABLES
    cooling,    \* g_coreKodUntilTick: what is left of the exclusion of each host
    core,       \* the workers of the core slots, of this cycle and detached
    tier,       \* how each provider is drawn: 0 near, 1 never measured, 2 far
    sticky, age, \* the draw that was made last, and the cycles it was used again
    running,    \* a cycle is using it, or drawing one
    slot,       \* each NTS slot: [i, ok], the candidate it is at and whether it answered
    draw,       \* a draw going on: [pass, ordered], the tiers read and what was in them
    late,       \* the provider a detached worker will yet report, as a set of one or none
    raced       \* history: a tier changed between the passes of the draw made last

coreVars == <<cooling, core>>
ntsVars == <<tier, sticky, age, running, slot, draw, late, raced>>

\* Primary k, replacement k + n, as far as the draw goes.
Candidates(s, k, n, attempts) ==
    [a \in 1 .. Cardinality({a \in 1 .. attempts : k + (a - 1) * n <= Len(s)})
        |-> s[k + (a - 1) * n]]
-----------------------------------------------------------------------------
(***************************************************************************)
(* Core.                                                                   *)
(***************************************************************************)
Forever == KOD_RATE_COOLDOWN_MS + 1
Gens == {"now", "late"}
Done == [left |-> <<>>, pc |-> "ask", told |-> {}]

CoreInit ==
    /\ cooling = [h \in CoreHosts |-> 0]
    /\ core = [k \in (1 .. CoreSlots) \X Gens |-> Done]

\* Mutant: when too few hosts are left, all are eligible.
EligibleOrAll ==
    LET free == {h \in CoreHosts : cooling[h] = 0}
    IN  IF Cardinality(free) < CoreSlots THEN CoreHosts ELSE free

Eligible == {h \in CoreHosts : cooling[h] = 0}

\* PickCoreSources.
PickCore(n) == {s \in [1 .. n -> Eligible] : IsInjective(s)}

\* A cycle starts: one attempt for each slot when the clock is trusted.
CoreDraw(trusted) ==
    LET most == CoreSlots * Attempts
        n == IF Cardinality(Eligible) < most THEN Cardinality(Eligible) ELSE most
    IN  /\ \A k \in 1 .. CoreSlots : core[<<k, "now">>] = Done
        /\ \E s \in PickCore(n) : core' = [kg \in DOMAIN core |->
             IF kg[2] = "late" THEN core[kg]
             ELSE [Done EXCEPT !.left = Candidates(s, kg[1], CoreSlots,
                                                   IF trusted THEN 1 ELSE Attempts)]]
        /\ UNCHANGED cooling

Ask(kg) ==
    /\ core[kg].pc = "ask" /\ core[kg].left # <<>>
    /\ core' = [core EXCEPT ![kg].pc = "wait"]
    /\ UNCHANGED cooling

\* The next candidate, if there is one.
NextCandidate(w) == [w EXCEPT !.left = Tail(@), !.pc = "ask",
                              !.told = IF Len(w.left) = 1 THEN {} ELSE @]

\* A sample, or nothing usable in time.
Sample(kg) ==
    /\ core[kg].pc = "wait"
    /\ core' = [core EXCEPT ![kg] = Done]
    /\ UNCHANGED cooling

NoSample(kg) ==
    /\ core[kg].pc = "wait"
    /\ core' = [core EXCEPT ![kg] = NextCandidate(@)]
    /\ UNCHANGED cooling

\* Ntp_MarkKissOfDeath: DENY and RSTR for the rest of the session, any other code
\* for the cooldown, from now, whatever was there.  The ghost told remembers which
\* workers hold the host already.
Kiss(kg, forever) ==
    LET h == Head(core[kg].left)
    IN  /\ core[kg].pc = "wait"
        /\ cooling' = [cooling EXCEPT ![h] = IF forever THEN Forever ELSE KOD_RATE_COOLDOWN_MS]
        /\ core' = [g \in DOMAIN core |->
             IF g = kg THEN NextCandidate(core[g])
             ELSE IF h \in Range(core[g].left) THEN [core[g] EXCEPT !.told = @ \cup {h}]
             ELSE core[g]]

\* The cycle does not wait any longer.  Bound: one detached worker for each slot.
Detach(k) ==
    /\ core[<<k, "now">>] # Done /\ core[<<k, "late">>] = Done
    /\ core' = [core EXCEPT ![<<k, "late">>] = core[<<k, "now">>],
                              ![<<k, "now">>] = Done]
    /\ UNCHANGED cooling

Cool ==
    /\ cooling' = [h \in CoreHosts |->
         IF cooling[h] \in {0, Forever} THEN cooling[h] ELSE cooling[h] - 1]
    /\ UNCHANGED core

CoreNext ==
    \/ \E trusted \in BOOLEAN : CoreDraw(trusted)
    \/ \E kg \in DOMAIN core :
         \/ Ask(kg) \/ Sample(kg) \/ NoSample(kg)
         \/ \E forever \in BOOLEAN : Kiss(kg, forever)
    \/ \E k \in 1 .. CoreSlots : Detach(k)
    \/ Cool

CoreSpec == CoreInit /\ [][CoreNext]_coreVars
-----------------------------------------------------------------------------
(***************************************************************************)
(* NTS.                                                                    *)
(***************************************************************************)
Wanted == NtsSlots * Attempts
Unasked == [i |-> 1, ok |-> FALSE]
NoDraw == [pass |-> 0, ordered |-> <<>>]

NtsInit ==
    /\ tier = [p \in Providers |-> 1]
    /\ sticky = <<>> /\ age = 0 /\ running = FALSE
    /\ slot = [k \in 1 .. NtsSlots |-> Unasked]
    /\ draw = NoDraw /\ late = {} /\ raced = FALSE

\* Mutant: a pass takes the nearer ones once more.
ShuffledUpTo(n) ==
    LET these == {p \in Providers : tier[p] <= n}
    IN  {s \in [1 .. Cardinality(these) -> these] : IsInjective(s)}

\* The providers whose tier is n when it is read, shuffled.
Shuffled(n) ==
    LET these == {p \in Providers : tier[p] = n}
    IN  {s \in [1 .. Cardinality(these) -> these] : IsInjective(s)}

\* What is looked at of the ordering: an entry for each provider.  One that no pass
\* wrote holds what the stack held (an index within the pool, here); one too many is
\* not looked at.
Filled(ordered) ==
    LET n == Cardinality(Providers)
    IN  IF Len(ordered) >= n THEN {SubSeq(ordered, 1, n)}
        ELSE {ordered \o rest : rest \in [1 .. n - Len(ordered) -> Providers]}

\* The places of the first provider of each operator, and of the others.
Firsts(ordered) == {i \in DOMAIN ordered : \A j \in 1 .. i - 1 :
                       Operator[ordered[j]] # Operator[ordered[i]]}
Others(ordered) == {i \in DOMAIN ordered \ Firsts(ordered) : \A j \in 1 .. i - 1 :
                       ordered[j] # ordered[i]}

\* What is in the given places.
InPlaces(ordered, places) ==
    [k \in 1 .. Cardinality(places) |->
        ordered[CHOOSE i \in places : Cardinality({j \in places : j <= i}) = k]]

\* The first of each operator, then the others, as many as are wanted.
Picked(ordered) ==
    LET all == InPlaces(ordered, Firsts(ordered)) \o InPlaces(ordered, Others(ordered))
    IN  IF Len(all) <= Wanted THEN all ELSE SubSeq(all, 1, Wanted)

Reused(trusted) ==
    trusted /\ Len(sticky) = Wanted /\ age < NTS_STICKY_ROTATE_CYCLES

\* A cycle starts; one that finds the clock untrusted calls Nts_ForceRepick first.
NtsReuse ==
    /\ ~running /\ running' = TRUE
    /\ Reused(TRUE)
    /\ age' = age + 1
    /\ UNCHANGED <<tier, sticky, slot, draw, late, raced>>

\* Nts_PickProviders: the near ones, of the draw before nothing is used any more;
NtsDraw(trusted) ==
    /\ ~running /\ running' = TRUE
    /\ ~Reused(trusted)
    /\ sticky' = <<>> /\ age' = 0 /\ raced' = FALSE
    /\ \E s \in Shuffled(0) : draw' = [pass |-> 1, ordered |-> s]
    /\ UNCHANGED <<tier, slot, late>>

\* those never measured;
NtsPass ==
    /\ draw.pass = 1
    /\ \E s \in Shuffled(1) : draw' = [pass |-> 2, ordered |-> draw.ordered \o s]
    /\ UNCHANGED <<tier, sticky, age, running, slot, late, raced>>

\* the far ones, and what is taken of them all.
NtsTake ==
    /\ draw.pass = 2 /\ draw' = NoDraw
    /\ \E s \in Shuffled(2) : \E ordered \in Filled(draw.ordered \o s) :
          sticky' = Picked(ordered)
    /\ UNCHANGED <<tier, age, running, slot, late, raced>>

\* What the draw comes to while no tier changes under it: the nearest of each operator,
\* near operators first.
FreshDraws(t) == {s \in [1 .. Wanted -> Providers] :
    /\ \A i, j \in 1 .. Wanted : i < j =>
         t[s[i]] <= t[s[j]] /\ Operator[s[i]] # Operator[s[j]]
    /\ \A p \in Providers : \A i \in 1 .. Wanted :
         t[p] < t[s[i]] => \E j \in 1 .. Wanted :
             Operator[s[j]] = Operator[p] /\ t[s[j]] <= t[p]}

\* Mutant: a slot takes the next providers of the draw.
MineInARow(d, k) == Candidates(d, (k - 1) * Attempts + 1, 1, Attempts)

Mine(d, k) == Candidates(d, k, NtsSlots, Attempts)

Working(k) == running /\ ~slot[k].ok /\ slot[k].i <= Len(Mine(sticky, k))

\* Nts_ReportRtt: the running mean of the round trips comes out near or far.
Reported(p) == \E far \in {0, 2} : tier' = [tier EXCEPT ![p] = far]

Served(k) ==
    /\ Working(k)
    /\ slot' = [slot EXCEPT ![k].ok = TRUE]
    /\ Reported(Mine(sticky, k)[slot[k].i])
    /\ UNCHANGED <<sticky, age, running, draw, late, raced>>

Failed(k) ==
    /\ Working(k)
    /\ slot' = [slot EXCEPT ![k].i = @ + 1]
    /\ UNCHANGED <<tier, sticky, age, running, draw, late, raced>>

\* A detached worker is served, if it ever is, in any later cycle.
ServedLate ==
    /\ \E p \in late : Reported(p)
    /\ late' = {}
    /\ raced' = (raced \/ (draw # NoDraw /\ tier' # tier))
    /\ UNCHANGED <<sticky, age, running, slot, draw>>

\* What a slot may yet be served by.
Ahead(k) == {Mine(sticky, k)[i] : i \in slot[k].i .. Len(Mine(sticky, k))}

\* The cycle is over; a slot that overran counts as failed, and its worker goes on.
\* Bound: one such worker that is served yet.
NtsEnd ==
    /\ running /\ draw = NoDraw /\ running' = FALSE
    /\ slot' = [k \in 1 .. NtsSlots |-> Unasked]
    /\ late' \in {late} \cup UNION {{{p} : p \in Ahead(k)} : k \in {k \in 1 .. NtsSlots : Working(k)}}
    /\ UNCHANGED <<tier, sticky, age, draw, raced>>

NtsNext ==
    \/ NtsReuse \/ (\E trusted \in BOOLEAN : NtsDraw(trusted)) \/ NtsPass \/ NtsTake
    \/ \E k \in 1 .. NtsSlots : Served(k) \/ Failed(k)
    \/ ServedLate
    \/ NtsEnd

NtsSpec == NtsInit /\ [][NtsNext]_ntsVars
-----------------------------------------------------------------------------
(***************************************************************************)
(* Properties.                                                             *)
(***************************************************************************)
\* ntp.c: a kiss is "an explicit server request to back off".  A host is not asked
\* while it is excluded, except by a worker that was given it before.
KodHonoured == [][\A kg \in DOMAIN core :
    (/\ core[kg].left # <<>> /\ core[kg].pc = "ask"
     /\ core'[kg] = [core[kg] EXCEPT !.pc = "wait"]
     /\ cooling[Head(core[kg].left)] > 0)
        => Head(core[kg].left) \in core[kg].told]_coreVars

\* The gate needs two operators: whichever slots answered, with their primary or
\* their replacement, their providers are of distinct operators.
PairAlwaysDiverse ==
    \A k, l \in 1 .. NtsSlots : k # l /\ slot[k].ok /\ slot[l].ok =>
        Operator[Mine(sticky, k)[slot[k].i]] # Operator[Mine(sticky, l)[slot[l].i]]

\* They are, unless a worker detached from an earlier cycle reported a round trip
\* between the passes of the draw: then a provider is in no pass or in two, its
\* operator may be missing, and the draw is filled up with one it has already.
PairDiverse == ~raced => PairAlwaysDiverse

\* With tiers t, an operator is in reach when one of those that answer would be
\* drawn for it.
InReach(o, up, t) == \E p \in up : Operator[p] = o /\
    \A q \in Providers : Operator[q] = o => t[p] <= t[q]

\* A cycle with this draw ends with an answer in each slot.
Pairs(d, up) == \A k \in 1 .. NtsSlots : Range(Mine(d, k)) \cap up # {}

\* Any two operators in reach make a pair, under some shuffle.
Pairable(t) ==
    LET draws == FreshDraws(t)
    IN  \A up \in SUBSET Providers :
          Cardinality({o \in Operators : InReach(o, up, t)}) >= NtsSlots
            => \E d \in draws : Pairs(d, up)

\* For every order of tiers at once.
Verdicts == {<<t, Pairable(t)>> : t \in [Providers -> 0 .. 2]}

\* ntp.c: while the clock is not trusted the draw rotates, so that "re-anchor never
\* gambles on a bad or stale-cookie provider".  Whatever the cycles so far have
\* measured, and whichever providers answer from now on, as long as two operators are
\* in reach some shuffle of a draw that no late report disturbs gives both slots a
\* provider that answers: no order of tiers puts the two in one slot for good.
PairInReach == ~running /\ sticky # <<>> => <<tier, TRUE>> \in Verdicts
=============================================================================
