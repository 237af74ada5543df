------------------------------ MODULE MCShell ------------------------------
(***************************************************************************)
(* Small instances of PollScheduler and of TimeZone, the timers and the    *)
(* wall clock of the shell.  They share no variable, so each is run while  *)
(* the other rests in one of its initial states.                           *)
(***************************************************************************)
EXTENDS MCPollScheduler, MCTimeZone

VARIABLE part

ShellInit ==
    /\ Init /\ ZoneInit
    /\ \/ part = "timers" /\ cache = NoCache /\ almanac.year = 2025
       \/ part = "wall clock" /\ world = MCHealthyWorld

ShellNext ==
    /\ part' = part
    /\ \/ part = "timers" /\ Next /\ UNCHANGED zoneVars
       \/ part = "wall clock" /\ WalkNext /\ UNCHANGED vars

ShellSpec == ShellInit /\ [][ShellNext]_<<vars, zoneVars, part>>
=============================================================================
