------------------------------- MODULE MCDns -------------------------------
(***************************************************************************)
(* A small instance of Dns: a pool of two, one of which speaks HTTP/2      *)
(* only; a name with both kinds of address.                                *)
(***************************************************************************)
EXTENDS Dns

CONSTANTS w, dual, quad, both

MCFamilies == [h \in Hosts |-> {4, 6}]
=============================================================================
