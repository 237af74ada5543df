------------------------------ MODULE Exchange ------------------------------
(***************************************************************************)
(* One exchange with a time server (NtpQueryHost of src/src/ntp.c, and     *)
(* nts_udp_exchange of src/src/nts.c, which computes the same): a request, *)
(* two stamps of the server, and a reply, bracketed by QPC.  The sample    *)
(* says what UTC was when the reply came, how long the exchange took, and  *)
(* how far off the server says it may be.  A step happens at now, and some *)
(* time passes after it: the network's, the server's, or a preempted       *)
(* thread's.  True UTC at a QPC value is that value in milliseconds.       *)
(***************************************************************************)
EXTENDS CArith

CONSTANTS
    QpcFreq,                  \* QPC ticks in a second
    NTP_EPOCH_DELTA_MS,       \* where the origin of UTC lies in the NTP era
    ERA_MS,                   \* 2^32 seconds
    Starts, Delays,           \* when an exchange may start, what a step may take, in ticks
    Claims,                   \* [delay, disp]: root delay and dispersion, 16.16 seconds
    Errors                    \* how far off, in milliseconds, a server may be

ASSUME ExchangeConstants ==
    /\ QpcFreq \in Nat \ {0}
    /\ NTP_EPOCH_DELTA_MS \in Nat /\ ERA_MS \in Nat \ {0}
    /\ Starts \subseteq Nat /\ Delays \subseteq Nat
    /\ Claims \subseteq [delay : Nat, disp : Nat]
    /\ Errors \subseteq Int /\ \A e \in Errors : -e <= NTP_EPOCH_DELTA_MS

VARIABLES
    step,        \* where the exchange is
    now,         \* QPC
    authed,      \* an NTS exchange
    claim,       \* what the server's header says of its error
    qpcT1,       \* when the request was sent
    t2, t3,      \* the server's stamps, in milliseconds of the era
    sample       \* what the last exchange left: [got, utc, qpc, rtt, root]

exVars == <<step, now, authed, claim, qpcT1, t2, t3, sample>>

Nothing(got) == [got |-> got, utc |-> 0, qpc |-> 0, rtt |-> 0, root |-> 0]

ExInit ==
    /\ step = "idle" /\ now = 0 /\ authed = FALSE
    /\ claim = [delay |-> 0, disp |-> 0]
    /\ qpcT1 = 0 /\ t2 = 0 /\ t3 = 0
    /\ sample = Nothing("nothing")

Ms(qpc) == RoundDiv(qpc * 1000, QpcFreq)

TimePasses == \E d \in Delays : now' = now + d
-----------------------------------------------------------------------------
\* The host resolves, the socket opens, the request goes out.
Send(nts, start) ==
    /\ step = "idle" /\ step' = "request"
    /\ authed' = nts /\ sample' = Nothing("nothing")
    /\ qpcT1' = start
    /\ \E d \in Delays : now' = start + d
    /\ UNCHANGED <<claim, t2, t3>>

\* A server with this claim is no further off than it says; one that is, the gate of
\* Concur has to find.
Honest(e, c) == 131072 * Abs(e) <= 1000 * (2 * c.disp + c.delay)

\* A stamp has 32 bits of seconds; the fraction that arrives is cut to milliseconds.
Stamp(q, e) == ((q * 1000) \div QpcFreq + e + NTP_EPOCH_DELTA_MS) % ERA_MS

ServerReceives(c, e) ==
    /\ step = "request" /\ step' = "server"
    /\ Honest(e, c) /\ claim' = c
    /\ t2' = Stamp(now, e)
    /\ TimePasses
    /\ UNCHANGED <<authed, qpcT1, t3, sample>>

\* Its clock may have been steered in between.
ServerReplies(e) ==
    /\ step = "server" /\ step' = "reply"
    /\ Honest(e, claim)
    /\ t3' = Stamp(now, e)
    /\ TimePasses
    /\ UNCHANGED <<authed, claim, qpcT1, t2, sample>>

\* Nothing comes within the timeout, or resolving, opening or sending failed.
TimedOut ==
    /\ step # "idle" /\ step' = "idle"
    /\ sample' = Nothing("nothing")
    /\ UNCHANGED <<now, authed, claim, qpcT1, t2, t3>>

FixedMs(f) == (f * 1000) \div 65536

\* Mutant: the root delay is not counted.
DispersionOnly(c) == FixedMs(c.disp)

\* NtpRootErrMs, nts_root_err_ms.  (Their limit of 2^31 is beyond what 16.16 holds.)
RootErrMs(c) == FixedMs(c.disp) + FixedMs(c.delay) \div 2

Rtt == NonNeg(RoundDiv((now - qpcT1) * 1000, QpcFreq))

NetRtt == NonNeg(Rtt - NonNeg(t3 - t2))

UtcAtT4 == t3 - NTP_EPOCH_DELTA_MS + NetRtt \div 2

\* No stamp within the first second of the era, whose seconds are zero.
Stamped == t2 >= 1000 /\ t3 >= 1000

\* The reply is in the form of a server that is synchronised, and under NTS it is
\* authentic and of this request.
ReceiveTime ==
    /\ step = "reply" /\ step' = "idle"
    /\ sample' = IF Stamped
                 THEN [got |-> "time", utc |-> UtcAtT4, qpc |-> now, rtt |-> Rtt,
                       root |-> RootErrMs(claim)]
                 ELSE Nothing("nothing")
    /\ UNCHANGED <<now, authed, claim, qpcT1, t2, t3>>

\* Any other reply yields nothing; the kiss of a core server is handed on.
ReceiveOther(kiss) ==
    /\ step = "reply" /\ step' = "idle"
    /\ sample' = Nothing(IF kiss /\ ~authed THEN "kiss" ELSE "nothing")
    /\ UNCHANGED <<now, authed, claim, qpcT1, t2, t3>>

ExNext ==
    \/ \E nts \in BOOLEAN, start \in Starts : Send(nts, start)
    \/ \E c \in Claims, e \in Errors : ServerReceives(c, e)
    \/ \E e \in Errors : ServerReplies(e)
    \/ TimedOut \/ ReceiveTime
    \/ \E kiss \in BOOLEAN : ReceiveOther(kiss)

ExSpec == ExInit /\ [][ExNext]_exVars
-----------------------------------------------------------------------------
\* The stamps of a sample are all of the first era: it ends on 7 February 2036.
InEra == Ms(sample.qpc) + sample.root + 1 < ERA_MS - NTP_EPOCH_DELTA_MS

\* Clock and Concur take half the round trip and the server's claim for the error of
\* a sample (ntp.c: the uncertainty "measured from the anchor exchange itself").
\* However asymmetric the route, however long the server or the thread dawdled,
\* wherever the server's clock was steered to within its claim between its two
\* stamps: these two cover the error, but for 3 ms lost in cutting to milliseconds.
ErrorExplained ==
    sample.got = "time" /\ InEra
        => Abs(sample.utc - Ms(sample.qpc)) <= sample.rtt \div 2 + sample.root + 3
=============================================================================
