------------------------------ MODULE PinLedger ------------------------------
(***************************************************************************)
(* What the pin store promises: for each endpoint, the last few keys a CA  *)
(* has vouched for, most recently confirmed last.  What was flushed is     *)
(* what a later run finds, whole, or it finds nothing and enrolls anew.    *)
(***************************************************************************)
EXTENDS Integers, SequencesExt

CONSTANTS
    Hosts,       \* endpoints
    Certs,       \* certificates: records with at least a key, and vouched
    MaxKeys      \* keys kept for an endpoint

VARIABLES
    known,       \* for each endpoint, its certificates, one for each key
    durable      \* what the next run would find

Nothing == [h \in Hosts |-> <<>>]
Latest(s) == SubSeq(s, IF Len(s) > MaxKeys THEN Len(s) - MaxKeys + 1 ELSE 1, Len(s))

Init == known = Nothing /\ durable = Nothing

\* A certificate is confirmed: it replaces what was known of its key.
Learn(h, c) ==
    /\ c.vouched
    /\ known' = [known EXCEPT
         ![h] = Latest(Append(RemoveFirstMatch(@, LAMBDA d : d.key = c.key), c))]
    /\ UNCHANGED durable

Flush == durable' = known /\ UNCHANGED known

Reopen == known' \in {durable, Nothing} /\ UNCHANGED durable

Next ==
    \/ \E h \in Hosts, c \in Certs : Learn(h, c)
    \/ Flush
    \/ Reopen

Spec == Init /\ [][Next]_<<known, durable>>
=============================================================================
