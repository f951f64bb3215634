--------------------------- MODULE AppendOnlyLog ---------------------------
(***************************************************************************)
(* What the audit ledger promises to its readers: a log of events to which *)
(* entries are only ever added, one at a time and at the end, and in which *)
(* no event occurs twice.  AuditLedger implements it.                      *)
(***************************************************************************)
EXTENDS Naturals, Sequences

CONSTANT Event

VARIABLE log

Record(e) ==
  /\ \A i \in DOMAIN log : log[i] # e
  /\ log' = Append(log, e)

LogInit == log = << >>

LogNext == \E e \in Event : Record(e)

LogSpec == LogInit /\ [][LogNext]_log
=============================================================================
