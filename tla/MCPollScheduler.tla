-------------------------- MODULE MCPollScheduler --------------------------
(***************************************************************************)
(* Small instances of PollScheduler: one unit stands for some ten seconds. *)
(***************************************************************************)
EXTENDS PollScheduler

World(outcomes, breaks, syncs, steps) ==
    [outcomes |-> outcomes, breaks |-> breaks, syncs |-> syncs, steps |-> steps]

MCHealthyWorld == World({"pass"}, FALSE, TRUE, FALSE)

\* Only the timer polls; the user polls too; everything goes wrong; the system
\* clock is stepped.
MCWorlds == {
    World({"pass"}, FALSE, FALSE, FALSE),
    MCHealthyWorld,
    World({"pass", "hold", "fail"}, TRUE, FALSE, FALSE),
    World({"pass"}, FALSE, FALSE, TRUE)}
=============================================================================
