------------------------- MODULE MCInteractiveServer -------------------------
(***************************************************************************)
(* Two operator connections, three servers, and a thread identifier for    *)
(* each.                                                                   *)
(***************************************************************************)
EXTENDS InteractiveServer, TLC

CONSTANTS o1, o2

\* The web server's pages start, stop and quit through one connection while
\* the dashboard asks for the status through another.  The servers stop alike.
Pages == ({"start"} \X Servers) \cup {<<"stop", "modbus">>, <<"quit", "modbus">>}

PagesAndDashboard == o1 :> Pages @@ o2 :> {Ask}

\* A server that is disabled in the settings is never started.
ModbusOnly == o1 :> {<<"start", "modbus">>, <<"quit", "modbus">>}
=============================================================================
