-------------------------------- MODULE MCSync --------------------------------
(***************************************************************************)
(* Sync for TLC.  The commands are those whose effects meet in one field of *)
(* the document (a power and a mode; a speed, a boost and a preset), and    *)
(* one that is refused; the appliance's own changes bring a value no table  *)
(* knows, one that is dropped, and one that only a snapshot brings.         *)
(***************************************************************************)
EXTENDS Sync

MCFactory ==
    [k \in Key |-> CASE k \in {"poweron", "extra"} -> TRUE
                     [] k \in {"mode", "windlevel"} -> 2
                     [] k \in {"templevel", "temperature"} -> 72
                     [] k \in {"worktime", "wrong"} -> 0
                     [] OTHER -> FALSE]
MCQuiet == {"worktime"}
MCPresses == {<<"windlevel", Odd>>, <<"templevel", Container>>, <<"worktime", 8>>}
MCCommands ==
    [topic : {"hvac_mode"}, payload : {"off", "cool"}]
    \cup [topic : {"fan_mode"}, payload : {"low", "turbo"}]
    \cup {[topic |-> "preset", payload |-> "eco"]}
=============================================================================
