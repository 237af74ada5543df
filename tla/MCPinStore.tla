----------------------------- MODULE MCPinStore -----------------------------
(***************************************************************************)
(* Small instances of PinStore.  A unit of time is a few days for a        *)
(* certificate and an hour for a cooldown: only their order matters.  Three  *)
(* keys compete for the two places of an endpoint, and a fourth is vouched *)
(* for by nobody.                                                          *)
(***************************************************************************)
EXTENDS PinStore

MCCerts == {
    [key |-> "a", from |-> 1, until |-> 6, vouched |-> TRUE],
    [key |-> "b", from |-> 3, until |-> 12, vouched |-> TRUE],
    [key |-> "c", from |-> 1, until |-> 8, vouched |-> TRUE],
    [key |-> "x", from |-> 1, until |-> 12, vouched |-> FALSE]}
=============================================================================
