------------------------ MODULE MCIncidentTriage -------------------------
(***************************************************************************)
(* IncidentTriage on four alerts: two unrelated incidents (1 with a host,  *)
(* 4 with a user), the bridge between them (3), and a low-severity alert   *)
(* that shares the host (2).                                               *)
(***************************************************************************)
EXTENDS IncidentTriage, TLC

CONSTANTS p1, p2, host, user

MCAt == <<0, 1, 1, 2>>

MCKeys == <<{host}, {host}, {host, user}, {user}>>

\* The feeds of two sources, of which the second is late, has a bad line and holds an
\* alert twice; a file of too many lines; and one with a time that is out of range.
MCFiles == {<<1, 4>>, <<2, Bad, 3, 3>>, <<1, 2, 3, 4, 4>>, <<3, Unhandled, 4>>}

\* The whole history, and a lookback that has lost the first alert.
MCPeriods == {<<0, 2>>, <<1, 2>>}
==========================================================================
