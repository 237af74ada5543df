------------------------------ MODULE CookieJar ------------------------------
(***************************************************************************)
(* The NTS cookie jar of one provider host (src/src/nts.c): the cookies    *)
(* and keys of a key exchange, kept for the authenticated exchanges that   *)
(* follow.  Its users are the NTS workers, each in Nts_FetchSampleEx; the  *)
(* workers of one cycle are at different hosts, but a worker that outlives *)
(* its cycle meets those of the next.  Each jar function is one critical   *)
(* section; the network lies between them.  The jars of different hosts    *)
(* never meet: the pool has fewer hosts than g_jars has slots.             *)
(***************************************************************************)
EXTENDS Integers, SequencesExt

CONSTANTS
    Workers,
    NTSKE_MAX_COOKIES,   \* 8
    MaxSessions,         \* bound on the key exchanges of a behaviour
    MaxCookies           \* bound on the cookies the server ever issues

ASSUME JarConstants ==
    /\ NTSKE_MAX_COOKIES \in Nat \ {0} /\ MaxSessions \in Nat /\ MaxCookies \in Nat

VARIABLES
    jar,        \* [valid, session, cookies, old]: the keys are those of a session
    worker,     \* each worker: [pc, session, cookies, pending, result]
    enrolled,   \* for each key exchange so far: was its leaf an enrolled pin?
    issued,     \* how many cookies the server has issued; a cookie is
                \* [serial, session]: it works with the keys of its session only
    spent       \* serials of the cookies that were sent

vars == <<jar, worker, enrolled, issued, spent>>
server == <<enrolled, issued>>

NoJar == [valid |-> FALSE, session |-> 0, cookies |-> <<>>, old |-> FALSE]
Resting == [pc |-> "idle", session |-> 0, cookies |-> <<>>, pending |-> FALSE,
            result |-> "none"]

Init ==
    /\ jar = NoJar
    /\ worker = [w \in Workers |-> Resting]
    /\ enrolled = <<>> /\ issued = 0 /\ spent = {}

\* The next n cookies the server issues for a session.
Fresh(n, s) == [i \in 1..n |-> [serial |-> issued + i, session |-> s]]
Goto(w, pc) == worker' = [worker EXCEPT ![w].pc = pc]
-----------------------------------------------------------------------------
(***************************************************************************)
(* Path A of Nts_FetchSampleEx: a cookie from the jar.                     *)
(***************************************************************************)
Begin(w) ==
    /\ worker[w].pc = "idle"
    /\ worker' = [worker EXCEPT ![w] = [Resting EXCEPT !.pc = "take"]]
    /\ UNCHANGED <<jar, server, spent>>

\* Mutant: the cookie that is taken stays in the jar.
TakenCopied == jar.cookies

\* What is left in the jar when its last cookie is taken.
Taken == Front(jar.cookies)

\* jar_take: nothing from an empty jar; one too old is emptied.
Take(w) ==
    /\ worker[w].pc = "take"
    /\ IF jar.cookies = <<>> \/ jar.old
       THEN jar' = [jar EXCEPT !.cookies = <<>>] /\ Goto(w, "ke")
       ELSE /\ jar' = [jar EXCEPT !.cookies = Taken]
            /\ worker' = [worker EXCEPT ![w] =
                 [@ EXCEPT !.pc = "reuse", !.session = jar.session,
                           !.cookies = <<Last(jar.cookies)>>]]
    /\ UNCHANGED <<server, spent>>

\* The cookie in hand is sent, and the server answers with n new ones.
Answered(w, n) ==
    LET cookie == Head(worker[w].cookies)
    IN  /\ cookie.session = worker[w].session
        /\ issued + n <= MaxCookies
        /\ issued' = issued + n
        /\ spent' = spent \cup {cookie.serial}
        /\ worker' = [worker EXCEPT ![w].pc = "add",
                                    ![w].cookies = Fresh(n, cookie.session)]
        /\ UNCHANGED <<jar, enrolled>>

\* nts_udp_exchange succeeds: the keys are those the cookie was made for.
ReuseAnswered(w, n) == worker[w].pc = "reuse" /\ Answered(w, n)

\* It fails: a datagram lost, or the cookie rejected.
ReuseFails(w) ==
    /\ worker[w].pc = "reuse"
    /\ spent' = spent \cup {Head(worker[w].cookies).serial}
    /\ Goto(w, "drop")
    /\ UNCHANGED <<jar, server>>

\* jar_drop, whatever the jar holds by now; then a key exchange.
DropRejected(w) ==
    /\ worker[w].pc = "drop"
    /\ jar' = NoJar
    /\ worker' = [worker EXCEPT ![w] = [Resting EXCEPT !.pc = "ke"]]
    /\ UNCHANGED <<server, spent>>
-----------------------------------------------------------------------------
(***************************************************************************)
(* Path B: a key exchange of its own.                                      *)
(***************************************************************************)
KeFails(w) ==
    /\ worker[w].pc = "ke"
    /\ worker' = [worker EXCEPT ![w] = [Resting EXCEPT !.pc = "done", !.result = "keFailed"]]
    /\ UNCHANGED <<jar, server, spent>>

\* Nts_DoKeEx: keys and n cookies; a leaf outside the pins leaves a rotation
\* pending.
Ke(w, n, pending) ==
    /\ worker[w].pc = "ke"
    /\ Len(enrolled) < MaxSessions /\ issued + n <= MaxCookies
    /\ LET s == Len(enrolled) + 1
       IN  /\ enrolled' = Append(enrolled, ~pending)
           /\ issued' = issued + n
           /\ worker' = [worker EXCEPT ![w] =
                [@ EXCEPT !.pc = "store", !.session = s, !.cookies = Fresh(n, s),
                          !.pending = pending]]
    /\ UNCHANGED <<jar, spent>>

\* All the cookies but the one the exchange that follows will spend.
Kept(w) == Tail(worker[w].cookies)

\* Mutant: the session of a pending rotation is kept for reuse.
MayKeepAny(w) == TRUE

MayKeep(w) == ~worker[w].pending

\* jar_store of an enrolled session with cookies to spare, or jar_drop.
Store(w) ==
    /\ worker[w].pc = "store"
    /\ jar' = IF MayKeep(w) /\ Len(worker[w].cookies) > 1
              THEN [valid |-> TRUE, session |-> worker[w].session, cookies |-> Kept(w),
                    old |-> FALSE]
              ELSE NoJar
    /\ worker' = [worker EXCEPT ![w] =
                    [@ EXCEPT !.pc = "exchange", !.cookies = <<Head(worker[w].cookies)>>]]
    /\ UNCHANGED <<server, spent>>

ExchangeAnswered(w, n) == worker[w].pc = "exchange" /\ Answered(w, n)

\* Rotation evidence of a failed fetch is wiped.
ExchangeFails(w) ==
    /\ worker[w].pc = "exchange"
    /\ spent' = spent \cup {Head(worker[w].cookies).serial}
    /\ worker' = [worker EXCEPT ![w] = [Resting EXCEPT !.pc = "done", !.result = "failed"]]
    /\ UNCHANGED <<jar, server>>

\* jar_add_cookies: as many as the jar holds.
AddUpToFull(cookies) ==
    SubSeq(cookies, 1, Min({Len(cookies), NTSKE_MAX_COOKIES - Len(jar.cookies)}))

\* The new cookies go to the jar there is, unless there is none or the session
\* is that of a pending rotation; and the sample to the slot.
Add(w) ==
    /\ worker[w].pc = "add"
    /\ jar' = IF worker[w].pending \/ ~jar.valid THEN jar
              ELSE [jar EXCEPT !.cookies = @ \o AddUpToFull(worker[w].cookies)]
    /\ worker' = [worker EXCEPT ![w] =
         [@ EXCEPT !.pc = "done", !.cookies = <<>>,
                   !.result = IF worker[w].pending THEN "rotated" ELSE "enrolled"]]
    /\ UNCHANGED <<server, spent>>

\* The sample is harvested, and the slot fetches again in a later cycle.
Return(w) ==
    /\ worker[w].pc = "done"
    /\ worker' = [worker EXCEPT ![w] = Resting]
    /\ UNCHANGED <<jar, server, spent>>

\* NTS_JAR_MAX_AGE_MS has passed since the jar was stored.
Age ==
    /\ jar.valid /\ ~jar.old
    /\ jar' = [jar EXCEPT !.old = TRUE]
    /\ UNCHANGED <<worker, server, spent>>
-----------------------------------------------------------------------------
Fetch(w) ==
    \/ Begin(w) \/ Take(w) \/ ReuseFails(w) \/ DropRejected(w)
    \/ KeFails(w) \/ Store(w) \/ ExchangeFails(w) \/ Add(w) \/ Return(w)
    \/ \E n \in 0..NTSKE_MAX_COOKIES : ReuseAnswered(w, n) \/ ExchangeAnswered(w, n)
    \/ \E n \in 1..NTSKE_MAX_COOKIES, pending \in BOOLEAN : Ke(w, n, pending)

Next == Age \/ \E w \in Workers : Fetch(w)

Spec == Init /\ [][Next]_vars
-----------------------------------------------------------------------------
(***************************************************************************)
(* Properties.                                                             *)
(***************************************************************************)

\* The serials a worker may still send or keep.
InHand(w) == {worker[w].cookies[i].serial : i \in DOMAIN worker[w].cookies}
InJar == {jar.cookies[i].serial : i \in DOMAIN jar.cookies}

\* RFC 8915, as the comment on the jar has it: an exchange spends one cookie.
\* No cookie is sent twice, in whatever order the workers of overlapping cycles
\* take, store, drop and add: a cookie is in one place, and none that was sent
\* is in any.
SpentOnce ==
    /\ Cardinality(InJar) = Len(jar.cookies)
    /\ InJar \cap spent = {}
    /\ \A w \in Workers :
          /\ worker[w].pc \in {"reuse", "exchange", "add"} => InHand(w) \cap (spent \cup InJar) = {}
          /\ \A v \in Workers \ {w} : InHand(v) \cap InHand(w) = {}

\* nts.c: "a jar sample is always an enrolled pin".  A session that waits for
\* corroboration leaves nothing in a jar, and a sample says of its session what
\* its key exchange found.
EnrolledMeansEnrolled ==
    /\ \A i \in DOMAIN jar.cookies : enrolled[jar.cookies[i].session]
    /\ jar.valid => enrolled[jar.session]
    /\ \A w \in Workers :
          /\ worker[w].result = "enrolled" => enrolled[worker[w].session]
          /\ worker[w].result = "rotated" => ~enrolled[worker[w].session]

\* nts.c: "Keys and cookies from one KE session belong together ..., so the jar
\* holds them as a unit".
JarOneSession == \A i \in DOMAIN jar.cookies : jar.cookies[i].session = jar.session
=============================================================================
