------------------------------- MODULE MCDaemon -------------------------------
(* An instance of Daemon for TLC.  Nineteen, cut to an int, is descriptor 3.   *)
EXTENDS Daemon

Pids == {0, 1, -1, 16}
FdLists == {<< >>, <<3>>, <<4, 3>>, <<19>>}
==============================================================================
