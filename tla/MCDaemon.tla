------------------------------- MODULE MCDaemon -------------------------------
(* Values of the command line for the runs of Daemon.                      *)
EXTENDS Daemon

\* -t only clears daemonize (pepd.cpp:169-172), as -F does, since main() resets
\* shar_checkonly (291): the foreground lines have that case.
\* In the background with a pid file, and in the foreground; with and without -f.
ServingLines == {o \in Options : ~o.checkonly /\ (o.pidfile <=> o.daemonize)}
=============================================================================
