---------------------------- MODULE EventLedger ----------------------------
(***************************************************************************)
(* What the event store promises of its two files (src/lunar.tcl,          *)
(* events_persist and events_read_file).  What a reader can make out of    *)
(* the current file only grows, in the order the events were made.  It     *)
(* leaves as a whole, for the older generation, and only once it alone is  *)
(* over its limit.  The older generation is given up whole as well, in a   *)
(* step of its own: a rotation that stops half-way leaves none, but it     *)
(* begins only when the current file is over the limit.  So the newest     *)
(* Limit records that were stored can always be read.                      *)
(***************************************************************************)
EXTENDS Integers, SequencesExt

CONSTANT Limit               \* of the current file, in records

VARIABLES older, current     \* sequences of event numbers

Ascending(s) == \A i \in 1 .. Len(s) - 1 : s[i] < s[i + 1]

Init == older = <<>> /\ current = <<>>

Store == /\ UNCHANGED older
         /\ IsPrefix(current, current')
         /\ Ascending(older \o current')

Retire == /\ Len(current) > Limit
          /\ older' = <<>> /\ UNCHANGED current

Rotate == /\ Len(current) > Limit /\ older = <<>>
          /\ older' = current /\ current' = <<>>

Spec == Init /\ [][Store \/ Retire \/ Rotate]_<<older, current>>
=============================================================================
