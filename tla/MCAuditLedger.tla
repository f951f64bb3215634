--------------------------- MODULE MCAuditLedger ---------------------------
(***************************************************************************)
(* Three concurrent calls, two payloads (so that two entries can differ    *)
(* only by the hash they link to) and one document with a foreign key.     *)
(***************************************************************************)
EXTENDS AuditLedger

CONSTANTS c1, c2, c3, p1, p2, s1

MCCalls == {c1, c2, c3}
MCPayloads == {p1, p2}
MCScans == {s1}
=============================================================================
