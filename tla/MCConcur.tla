------------------------------ MODULE MCConcur ------------------------------
(***************************************************************************)
(* Small instances of Concur: one QPC tick is half a millisecond, so that  *)
(* odd values round, the gate is 4 ms wide and a cluster 2 ms.  A report   *)
(* is made of the true error of the sample and the QPC value it was        *)
(* captured at.                                                            *)
(***************************************************************************)
EXTENDS Concur

Failed == [ok |-> FALSE, utc |-> 0, qpc |-> 0]
CoreAt(e, q) == [ok |-> TRUE, utc |-> QpcTicksToMs(q) + e, qpc |-> q]

NtsFailed == [ok |-> FALSE, utc |-> 0, qpc |-> 0, rtt |-> 0, root |-> 0,
              auth |-> "none", family |-> ""]
NtsAt(e, q, rtt, pin) == [ok |-> TRUE, utc |-> QpcTicksToMs(q) + e, qpc |-> q,
                          rtt |-> rtt, root |-> 0, auth |-> pin[1], family |-> pin[2]]

MCErrors == {-3, 0, 2, 6}
Rtts == {0, 3}

\* Two operators, the second with a pin just rotated; every error of both, and
\* captured apart.  Then the pairs the gate refuses outright.
MCNts == {NtsFailed,
          NtsAt(0, 0, 0, <<"rotated", "ptb">>), NtsAt(0, 0, 0, <<"enrolled", "">>)}
    \cup {NtsAt(e, 1, rtt, <<"enrolled", "ptb">>) : e \in MCErrors, rtt \in Rtts}
    \cup {NtsAt(e, 14, rtt, <<"rotated", "netnod">>) : e \in MCErrors, rtt \in Rtts}

MCCores == {Failed} \cup {CoreAt(e, q) : e \in {0, 6}, q \in {0, 19}} \cup {CoreAt(2, 19)}
=============================================================================
