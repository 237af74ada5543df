-------------------------------- MODULE Dns --------------------------------
(***************************************************************************)
(* Name resolution (src/src/dns.c) and the connection made with the        *)
(* address (nts.c, ntp.c): a cache; a pool of pinned resolvers reached     *)
(* over IPv4 or IPv6, HTTP/2 or HTTP/1.1, which back off after repeated    *)
(* failures; and, for NTS alone, the system's resolver when the whole pool *)
(* fails.                                                                  *)
(*                                                                         *)
(* Worker threads look names up at the same time.  The table of resolvers  *)
(* and the cache are locked for one access at a time, so a query runs with *)
(* what its thread read before it: the preferred family, the back-off.     *)
(* Some threads are followed step by step; of the others, however many,    *)
(* only what they do to the shared state is there, at any moment.          *)
(* Times are kept as what is left of them, so the state space is finite    *)
(* and time goes on for ever.  The random source is taken not to fail, and *)
(* a literal address, which is returned as it is, is not looked up.        *)
(***************************************************************************)
EXTENDS Integers, SequencesExt

CONSTANTS
    Threads,                     \* the worker threads that are followed
    Hosts, Families,             \* names, and the families each has records in
    Resolvers, H2Only,           \* the pool, and those that refuse HTTP/1.1
    DOH_BACKOFF_AFTER_FAILURES,  \* 3
    DOH_BACKOFF_MS,              \* 1 hour
    DNS_CACHE_N,                 \* 32
    DNS_TTL_FLOOR, DNS_TTL_CEIL, \* 15 minutes, 1 hour
    Ttls,                        \* what a record may say
    Networks                     \* sets of families a network may route

ASSUME DnsConstants ==
    /\ IsFiniteSet(Resolvers) /\ H2Only \subseteq Resolvers
    /\ Hosts # {} /\ Families \in [Hosts -> (SUBSET {4, 6}) \ {{}}]
    /\ \A N \in Networks : N \subseteq {4, 6} /\ \A h \in Hosts : Families[h] \cap N # {}
    /\ DOH_BACKOFF_AFTER_FAILURES \in Nat \ {0} /\ DOH_BACKOFF_MS \in Nat \ {0}
    /\ DNS_CACHE_N \in Nat \ {0}
    /\ DNS_TTL_FLOOR \in Nat \ {0} /\ DNS_TTL_CEIL \in Nat
    /\ DNS_TTL_FLOOR <= DNS_TTL_CEIL /\ Ttls \subseteq Nat

VARIABLES
    routed,     \* the families the network routes once nothing is lost and every server
                \* answers; {} in a storm, when any of that may fail, or not
    fails,      \* consecutiveFailures of each resolver
    backoff,    \* what is left of its back-off
    h1only,     \* the resolvers that are spoken to over HTTP/1.1 for the rest of the run
    preferred,  \* g_preferred_family
    cache,      \* live entries: [host, family, left]
    task,       \* each thread
    relieved    \* ghost: resolvers whose back-off ended during a thread's sweep

pool == <<fails, backoff, h1only>>
vars == <<routed, pool, preferred, cache, task, relieved>>

Storm == routed = {}

Other(family) == IF family = 4 THEN 6 ELSE 4

\* pc: "pick" and "asking" in a sweep; "system"; "connect"; "idle", or
\* "unresolved" or "unreached" when the last lookup ended so.
\* A lookup is for NTS or for SNTP; which one is settled when it first matters.
Idle == [pc |-> "idle", nts |-> FALSE, host |-> CHOOSE h \in Hosts : TRUE,
         first |-> 4, family |-> 4,     \* the family asked first, and now
         order |-> <<>>, pass |-> 0, i |-> 1, skipped |-> FALSE, tried |-> {}, group |-> 4]

Ended == {"idle", "unresolved", "unreached"}

Init ==
    /\ routed = {}
    /\ fails = [r \in Resolvers |-> 0]
    /\ backoff = [r \in Resolvers |-> 0]
    /\ h1only = {}
    /\ preferred = 4
    /\ cache = {}
    /\ task = [t \in Threads |-> Idle]
    /\ relieved = [t \in Threads |-> {}]

EndsIn(t, pc) == task' = [task EXCEPT ![t] = [Idle EXCEPT !.pc = pc]]

\* An address of the name, of this family, was found.
Found(t, h, family, nts) ==
    task' = [task EXCEPT ![t] =
    [Idle EXCEPT !.pc = "connect", !.nts = nts, !.host = h, !.family = family]]
-----------------------------------------------------------------------------
(***************************************************************************)
(* The cache.                                                              *)
(***************************************************************************)
Clamp(ttl) ==
    IF ttl < DNS_TTL_FLOOR THEN DNS_TTL_FLOOR
    ELSE IF ttl > DNS_TTL_CEIL THEN DNS_TTL_CEIL ELSE ttl

Cached(h) == {e \in cache : e.host = h}

\* A name keeps its slot, else takes a free one, else that of the entry that
\* expires first.
CacheInsert(h, family, ttl) ==
    LET new == [host |-> h, family |-> family, left |-> Clamp(ttl)]
        others == cache \ Cached(h)
        soonest == CHOOSE e \in others : \A d \in others : e.left <= d.left
    IN  IF Cached(h) # {} \/ Cardinality(cache) < DNS_CACHE_N THEN others \cup {new}
        ELSE (others \ {soonest}) \cup {new}

Invalidate(h) == cache \ Cached(h)
-----------------------------------------------------------------------------
(***************************************************************************)
(* A sweep of the pool for one type of record.                             *)
(***************************************************************************)
Orders == SetToSeqs(Resolvers)

\* Dns_PickResolvers shuffles the whole pool.
SweepStarts(t, h, first, family, order) ==
    task' = [task EXCEPT ![t] =
        [Idle EXCEPT !.pc = "pick", !.host = h, !.first = first, !.family = family,
                     !.order = order]]

\* The ghost: rs are back; a sweep that has looked at no resolver yet starts afresh.
Relieve(rs) == relieved' = [t \in Threads |->
    IF task'[t].tried = {} /\ ~task'[t].skipped THEN {} ELSE relieved[t] \cup rs]

\* A cycle's worker resolves the name it was given.
Lookup(t, h, order) ==
    /\ task[t].pc \in Ended
    /\ IF Cached(h) # {}
       THEN \E e \in Cached(h), nts \in BOOLEAN : Found(t, h, e.family, nts)
       ELSE SweepStarts(t, h, preferred, preferred, order)
    /\ Relieve({})
    /\ UNCHANGED <<routed, pool, preferred, cache>>

Resolver(t) == task[t].order[task[t].i]
BackedOff(r) == backoff[r] > 0

\* Mutant: the resolvers that are backed off are left alone.
ThisPassSkipping(t, r) == ~BackedOff(r)

\* Pass 0 asks those that are not backed off, pass 1 the others.
ThisPass(t, r) == (task[t].pass = 1) = BackedOff(r)

\* Look at the next resolver of the order.
PickNext(t) ==
    /\ task[t].pc = "pick" /\ task[t].i <= Len(task[t].order)
    /\ LET r == Resolver(t)
       IN  task' = IF ThisPass(t, r)
             THEN [task EXCEPT ![t].pc = "asking", ![t].group = preferred,
                               ![t].tried = @ \cup {r}]
             ELSE [task EXCEPT ![t].i = @ + 1,
                               ![t].skipped = @ \/ (task[t].pass = 0 /\ BackedOff(r))]
    /\ Relieve({})
    /\ UNCHANGED <<routed, pool, preferred, cache>>

\* The pass is over: a second one if some were skipped; then the sweep for the
\* other type of record; then, for NTS, the system's resolver.
SweepFails(t, order) ==
    IF task[t].family = task[t].first
    THEN SweepStarts(t, task[t].host, task[t].first, Other(task[t].first), order)
    ELSE \/ task' = [task EXCEPT ![t] = [Idle EXCEPT !.pc = "system", !.host = task[t].host]]
         \/ EndsIn(t, "unresolved")

PassEnds(t, order) ==
    /\ task[t].pc = "pick" /\ task[t].i > Len(task[t].order)
    /\ IF task[t].pass = 0 /\ task[t].skipped
       THEN task' = [task EXCEPT ![t].pass = 1, ![t].i = 1]
       ELSE SweepFails(t, order)
    /\ Relieve({})
    /\ UNCHANGED <<routed, pool, preferred, cache>>
-----------------------------------------------------------------------------
(***************************************************************************)
(* One resolver is asked: all its addresses of the preferred family, then  *)
(* those of the other, until one of them gives a DNS answer.               *)
(***************************************************************************)
\* Can r answer at all?
Serves(r) == ~(r \in H2Only /\ r \in h1only)

\* Mutant: a connection leaves the preferred family as it is.
ReachedForgotten(t) == {preferred}

\* The families of the addresses that were reached, the last one stays preferred.
Reached(t) ==
    IF Storm THEN {4, 6}
    ELSE IF task[t].group \in routed THEN {task[t].group} ELSE {Other(task[t].group)}

NoteSuccess(r) ==
    /\ fails' = [fails EXCEPT ![r] = 0]
    /\ backoff' = [backoff EXCEPT ![r] = 0]
    /\ Relieve({r} \cap {q \in Resolvers : BackedOff(q)})

NoteFailure(r) ==
    IF fails[r] + 1 >= DOH_BACKOFF_AFTER_FAILURES
    THEN /\ fails' = [fails EXCEPT ![r] = 0]
         /\ backoff' = [backoff EXCEPT ![r] = DOH_BACKOFF_MS]
    ELSE fails' = [fails EXCEPT ![r] = @ + 1] /\ UNCHANGED backoff

\* Records: the first address goes to the cache and to the caller.
AnswerRecords(t, ttl) ==
    LET r == Resolver(t)  h == task[t].host  f == task[t].family
    IN  /\ task[t].pc = "asking" /\ Serves(r) /\ f \in Families[h]
        /\ \E nts \in BOOLEAN : Found(t, h, f, nts)
        /\ NoteSuccess(r)
        /\ preferred' \in Reached(t)
        /\ cache' = CacheInsert(h, f, ttl)
        /\ UNCHANGED <<routed, h1only>>

\* NODATA, wrongly at times in a storm: no other resolver is asked for this type.
AnswerEmpty(t, order) ==
    LET r == Resolver(t)
    IN  /\ task[t].pc = "asking" /\ Serves(r)
        /\ Storm \/ task[t].family \notin Families[task[t].host]
        /\ SweepFails(t, order)
        /\ NoteSuccess(r)
        /\ preferred' \in Reached(t)
        /\ UNCHANGED <<routed, h1only, cache>>

\* SERVFAIL and the like: in service, but the next one is asked.
AnswerError(t) ==
    LET r == Resolver(t)
    IN  /\ task[t].pc = "asking" /\ Serves(r) /\ Storm
        /\ task' = [task EXCEPT ![t].pc = "pick", ![t].i = @ + 1]
        /\ NoteSuccess(r)
        /\ preferred' \in Reached(t)
        /\ UNCHANGED <<routed, h1only, cache>>

\* No address answered: not reached, TLS or HTTP failed, or the reply was
\* malformed.  The last address that was reached sets the preferred family; an
\* HTTP/2 exchange that broke off, for whatever reason, is not tried again.
AnswerFails(t) ==
    LET r == Resolver(t)
    IN  /\ task[t].pc = "asking" /\ (Storm \/ ~Serves(r))
        /\ NoteFailure(r)
        /\ preferred' \in {preferred} \cup (IF Storm THEN {4, 6} ELSE routed)
        /\ h1only' \in {h1only, h1only \cup ({r} \cap H2Only)}
        /\ task' = [task EXCEPT ![t].pc = "pick", ![t].i = @ + 1]
        /\ Relieve({})
        /\ UNCHANGED <<routed, cache>>
-----------------------------------------------------------------------------
(***************************************************************************)
(* The system's resolver, and the connection.                              *)
(***************************************************************************)
SystemLookup(t) ==
    LET h == task[t].host
    IN  /\ task[t].pc = "system"
        /\ \/ Found(t, h, IF preferred \in Families[h] THEN preferred ELSE Other(preferred), TRUE)
           \/ EndsIn(t, "unresolved")
    /\ UNCHANGED <<routed, pool, preferred, cache, relieved>>

Connects(t) ==
    /\ task[t].pc = "connect" /\ (Storm \/ task[t].family \in routed)
    /\ EndsIn(t, "idle")
    /\ UNCHANGED <<routed, pool, preferred, cache, relieved>>

\* NTS drops the address; SNTP, which sends a datagram, does not.
ConnectFails(t) ==
    /\ task[t].pc = "connect" /\ (Storm \/ task[t].family \notin routed)
    /\ EndsIn(t, "unreached")
    /\ cache' = IF task[t].nts THEN Invalidate(task[t].host) ELSE cache
    /\ UNCHANGED <<routed, pool, preferred, relieved>>
-----------------------------------------------------------------------------
(***************************************************************************)
(* The world.                                                              *)
(***************************************************************************)
Tick ==
    /\ backoff' = [r \in Resolvers |-> IF backoff[r] > 0 THEN backoff[r] - 1 ELSE 0]
    /\ cache' = {[e EXCEPT !.left = @ - 1] : e \in {d \in cache : d.left > 1}}
    /\ UNCHANGED <<routed, fails, h1only, preferred, task>>
    /\ Relieve({r \in Resolvers : backoff[r] = 1})

\* The network settles, or a storm begins.
Weather(n) ==
    /\ routed # n /\ (Storm \/ n = {})
    /\ routed' = n
    /\ UNCHANGED <<pool, preferred, cache, task, relieved>>

\* Another worker connects to a resolver, loses an HTTP/2 exchange, ends a query,
\* caches an address or drops one.  In a calm, it has come to use a family the network
\* routes.
OtherWorker ==
    /\ UNCHANGED <<routed, task>>
    /\ \/ /\ preferred' \in IF Storm THEN {4, 6} ELSE routed
          /\ UNCHANGED <<pool, cache>> /\ Relieve({})
       \/ /\ Storm /\ (\E r \in H2Only : h1only' = h1only \cup {r})
          /\ UNCHANGED <<fails, backoff, preferred, cache>> /\ Relieve({})
       \/ \E r \in Resolvers :
            /\ \/ Serves(r) /\ NoteSuccess(r)
               \/ (Storm \/ ~Serves(r)) /\ NoteFailure(r) /\ Relieve({})
            /\ UNCHANGED <<h1only, preferred, cache>>
       \/ /\ \E h \in Hosts :
               \/ \E f \in Families[h], ttl \in Ttls :
                     (Storm \/ f \in routed) /\ cache' = CacheInsert(h, f, ttl)
               \/ cache' = Invalidate(h)
          /\ UNCHANGED <<pool, preferred>> /\ Relieve({})

Step(t) ==
    \/ \E h \in Hosts, o \in Orders : Lookup(t, h, o)
    \/ PickNext(t)
    \/ \E o \in Orders : PassEnds(t, o) \/ AnswerEmpty(t, o)
    \/ \E ttl \in Ttls : AnswerRecords(t, ttl)
    \/ AnswerError(t) \/ AnswerFails(t)
    \/ SystemLookup(t) \/ Connects(t) \/ ConnectFails(t)

Next ==
    \/ Tick \/ OtherWorker
    \/ \E n \in Networks \cup {{}} : Weather(n)
    \/ \E t \in Threads : Step(t)

\* The shell polls for ever, every call has a timeout, and time passes.
Spec == Init /\ [][Next]_vars /\ WF_vars(Tick) /\ \A t \in Threads : WF_vars(Step(t))
-----------------------------------------------------------------------------
(***************************************************************************)
(* Properties.                                                             *)
(***************************************************************************)
\* dns.c: "a back-off can never strand a lookup".  A sweep that fails has asked every
\* resolver, except one whose back-off ended while the sweep was under way: that one
\* may have been passed over twice, as backed off and then as healthy.
NeverStranded == \A t \in Threads :
    /\ task[t].pc = "pick" /\ task[t].i > Len(task[t].order)
    /\ ~(task[t].pass = 0 /\ task[t].skipped)
    => Resolvers = task[t].tried \cup relieved[t]

\* Once the network has settled, every lookup ends up succeeding, and its address
\* answering, whatever the storm left behind: back-offs, resolvers cut off from HTTP/2,
\* a preferred family and cached addresses of a family that is no longer routed; so long
\* as one resolver speaks both versions of HTTP.
Recovers == <>[]~Storm =>
    <>[](\A t \in Threads : task[t].pc \notin {"unresolved", "unreached"})
=============================================================================
