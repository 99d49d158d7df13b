----------------------------- MODULE MCSessions -----------------------------
(* A small instance of Sessions: two sessions whose identifiers share a     *)
(* beginning and that record the same directory, one pane, a replay and a   *)
(* watch, and a record that is only observed while the end goes to both     *)
(* files.                                                                   *)
EXTENDS Sessions

CONSTANTS a, b, left

MCAbout ==
  [s \in Streams |-> [id |-> IF s = a THEN <<1, 2>> ELSE <<1, 3, 1>>,
                      root |-> Here, sidechain |-> FALSE]]

MCPlace == [p \in Panes |-> [tab |-> 1, workspace |-> 1]]
MCEventFiles == <<"observations", "metrics">>
MCRoutedTo == [k \in 1..MaxRecords |-> {"observations"}]
MCCommands == [r \in Runs |-> IF r = 1 THEN {"replay"} ELSE {"watch", "pane"}]
=============================================================================
