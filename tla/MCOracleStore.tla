--------------------------- MODULE MCOracleStore ---------------------------
(***************************************************************************)
(* TLC instances of OracleStore, with real minutes.                        *)
(***************************************************************************)
EXTENDS OracleStore

\* Restores that take no time, the usual hour, and around the two hours that
\* the polling loop is written for and what is left of them at intervals of 45
\* and 70 minutes, and one that outlasts every attempt.
MCRestoreTimes == {0, 1, 60, 90, 91, 120, 121, 1000}
=============================================================================
