----------------------------- MODULE MCWorkers -----------------------------
(***************************************************************************)
(* What the workers of a cycle do: small instances of Sources, of          *)
(* CookieJar, of Exchange and of H2.  The parts (core draw, NTS draw, the  *)
(* jar of one host, one exchange of time, one with a resolver) share no    *)
(* variable, so each is run while the others rest.                         *)
(***************************************************************************)
EXTENDS Sources, CookieJar, Exchange, H2, TLC

CONSTANTS a1, a2, b, c, d

VARIABLE part

\* Two providers of one operator, three of one each.
MCOperator == [p \in Providers |-> IF p = a2 THEN a1 ELSE p]

\* Providers that are alone are interchangeable.
MCSymmetry == Permutations({b, c, d})

\* Undisturbed, the passes of a draw come to the draws that Pairable reasons about.
TierTypes == {t \in [Providers -> 0 .. 2] : t[b] <= t[c] /\ t[c] <= t[d]}
AllShuffled == {s \in [1 .. Cardinality(Providers) -> Providers] : IsInjective(s)}
InTierOrder(t) == {s \in AllShuffled :
    \A i, j \in DOMAIN s : i < j => t[s[i]] <= t[s[j]]}
ASSUME DrawsAreFresh ==
    \A t \in TierTypes : {Picked(s) : s \in InTierOrder(t)} = FreshDraws(t)

\* Headers that lose a part of a millisecond in every cut.
MCClaims == {[delay |-> 130, disp |-> 65], [delay |-> 393, disp |-> 240]}
MCErrors == -6 .. 6

\* A header of 3 is longer than the table, one of 4 longer than the client's buffers.
MCField(name, value) == [name |-> name, value |-> value]
MCStatic == <<MCField("status", 200), MCField("x", 0)>>
MCCost == [v \in Values |-> IF v \in {3, 4} THEN v ELSE 1]
MCInterim == {<<MCField("status", 103), MCField("x", v)>> : v \in {1, 3}}
MCFinal == {<<MCField("status", s), MCField("x", v)>> : s \in {200, 503}, v \in {1, 2}}
MCTrailers == {<<MCField("x", v)>> : v \in {2, 4}}

MCInit ==
    /\ CoreInit /\ NtsInit /\ Init /\ ExInit /\ H2Init
    /\ part \in {"core", "nts", "jar", "exchange", "h2"}

MCNext ==
    /\ part' = part
    /\ \/ part = "core" /\ CoreNext /\ UNCHANGED <<ntsVars, vars, exVars, h2Vars>>
       \/ part = "nts" /\ NtsNext /\ UNCHANGED <<coreVars, vars, exVars, h2Vars>>
       \/ part = "jar" /\ Next /\ UNCHANGED <<coreVars, ntsVars, exVars, h2Vars>>
       \/ part = "exchange" /\ ExNext /\ UNCHANGED <<coreVars, ntsVars, vars, h2Vars>>
       \/ part = "h2" /\ H2Next /\ UNCHANGED <<coreVars, ntsVars, vars, exVars>>

MCSpec == MCInit /\ [][MCNext]_<<coreVars, ntsVars, vars, exVars, h2Vars, part>>
=============================================================================
