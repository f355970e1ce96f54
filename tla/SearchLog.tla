------------------------------- MODULE SearchLog -------------------------------
(***************************************************************************)
(* What readers of a search's events rely on: the log only grows, one      *)
(* event at a time, and SEARCH_TERMINAL is its last event.                 *)
(***************************************************************************)
EXTENDS Naturals, Sequences

CONSTANTS Types  \* types of the events before the last, not SEARCH_TERMINAL

VARIABLE log     \* search_event of the search: the type of each seq

Terminal == "SEARCH_TERMINAL"

Closed == log # <<>> /\ log[Len(log)] = Terminal

LogInit == log = <<>>

Write == ~Closed /\ \E type \in Types : log' = Append(log, type)
Close == ~Closed /\ log' = Append(log, Terminal)

LogNext == Write \/ Close

LogSpec == LogInit /\ [][LogNext]_log
=============================================================================
