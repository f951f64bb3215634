---------------------------- MODULE AuditLedger ----------------------------
(***************************************************************************)
(* The audit ledger of backend/audit_ledger/core/hash_chain.py: calls of   *)
(* append_event that run concurrently, each in a database session of its   *)
(* own, over the audit_ledger table, and the in-process chain that stands  *)
(* in when a call is given no session.                                     *)
(*                                                                         *)
(* append_event reads the entry with the largest sequence_num, suspends,   *)
(* and inserts an entry that links to what it read.  Nothing locks the     *)
(* table between the two steps: only the UNIQUE constraint on sequence_num *)
(* stands between two concurrent calls and a forked chain.                 *)
(*                                                                         *)
(* SHA-256 is idealised as collision-free: a hash is the tuple of what was *)
(* hashed.  The timestamp that is hashed is stored in the same row and     *)
(* never distinguishes two rows that the previous hash does not, so it is  *)
(* left out.                                                               *)
(***************************************************************************)
EXTENDS Integers, FiniteSets, Sequences

CONSTANTS
  Calls,      \* the calls of append_event made during a behaviour
  Payloads,   \* the payload hashes those calls may carry
  Scans,      \* documents an entry may refer to
  NoScan,     \* document_id = None
  Genesis     \* settings.ledger_genesis_hash

ASSUME NoScanIsNoScan == NoScan \notin Scans

VARIABLES
  table,      \* the rows of audit_ledger
  memory,     \* _IN_MEMORY_CHAIN
  scanEvents, \* the committed rows of scan_events, target of the foreign key
  pc,         \* where each call is
  link,       \* the entry a suspended call has built
  response    \* the sequence_num a finished call returned; 0 if it returned none

vars == <<table, memory, scanEvents, pc, link, response>>

(***************************************************************************)
(* How a call ends.  "conflict", "orphan" and "unwritten" are the three    *)
(* ways its commit fails; the code answers all three like a success.       *)
(***************************************************************************)
Answered == {"stored", "conflict", "orphan", "unwritten"}
Finished == Answered \cup {"raised", "inMemory", "crashed"}

RecordHash(payloadHash, prevRecordHash) == <<payloadHash, prevRecordHash>>

Entry(c, s, p, seq, prev) ==
  [call |-> c, scan |-> s, seq |-> seq, payloadHash |-> p,
   prev |-> prev, recordHash |-> RecordHash(p, prev)]

(***************************************************************************)
(* SELECT ... ORDER BY sequence_num DESC LIMIT 1                           *)
(***************************************************************************)
IsLatest(r) == r \in table /\ \A q \in table : q.seq <= r.seq

(***************************************************************************)
(* Mutant: the record hash is computed before the previous hash is filled  *)
(* in.                                                                     *)
(***************************************************************************)
LinksHashedTooEarly(c, s, p) ==
  IF table = {}
  THEN {Entry(c, s, p, 1, Genesis)}
  ELSE {[Entry(c, s, p, r.seq + 1, r.recordHash) EXCEPT !.recordHash = RecordHash(p, Genesis)]
          : r \in {q \in table : IsLatest(q)}}

(***************************************************************************)
(* Mutant: the entry copies the latest row's previous hash instead of its  *)
(* own hash.                                                               *)
(***************************************************************************)
LinksToPreviousHash(c, s, p) ==
  IF table = {}
  THEN {Entry(c, s, p, 1, Genesis)}
  ELSE {Entry(c, s, p, r.seq + 1, r.prev) : r \in {q \in table : IsLatest(q)}}

(***************************************************************************)
(* The entries that call c may build from what it reads.                   *)
(***************************************************************************)
Links(c, s, p) ==
  IF table = {}
  THEN {Entry(c, s, p, 1, Genesis)}
  ELSE {Entry(c, s, p, r.seq + 1, r.recordHash) : r \in {q \in table : IsLatest(q)}}

(***************************************************************************)
(* Mutant: sequence_num is indexed but not UNIQUE.                         *)
(***************************************************************************)
SequenceUnchecked(e) == e.seq \in Nat

(***************************************************************************)
(* The constraints that the database checks as the row is inserted.        *)
(***************************************************************************)
SequenceIsFree(e) == \A r \in table : r.seq # e.seq
ScanExists(e)     == e.scan = NoScan \/ e.scan \in scanEvents

-----------------------------------------------------------------------------
Init ==
  /\ table = {}
  /\ memory = << >>
  /\ scanEvents = {}
  /\ pc = [c \in Calls |-> "idle"]
  /\ link = [c \in Calls |-> Entry(c, NoScan, Genesis, 0, Genesis)]
  /\ response = [c \in Calls |-> 0]

(***************************************************************************)
(* A screening commits its scan_events row.                                *)
(***************************************************************************)
CommitScan(s) ==
  /\ s \notin scanEvents
  /\ scanEvents' = scanEvents \cup {s}
  /\ UNCHANGED <<table, memory, pc, link, response>>

(***************************************************************************)
(* The call reads the latest entry, builds its own and starts the insert.  *)
(***************************************************************************)
ReadLatest(c) ==
  /\ pc[c] = "idle"
  /\ \E p \in Payloads, s \in Scans \cup {NoScan} :
       \E e \in Links(c, s, p) : link' = [link EXCEPT ![c] = e]
  /\ pc' = [pc EXCEPT ![c] = "linked"]
  /\ UNCHANGED <<table, memory, scanEvents, response>>

(***************************************************************************)
(* The select is outside the try: an unreachable database, or a session    *)
(* that an earlier failed flush left unusable, raises to the caller.       *)
(***************************************************************************)
ReadRaises(c) ==
  /\ pc[c] = "idle"
  /\ pc' = [pc EXCEPT ![c] = "raised"]
  /\ UNCHANGED <<table, memory, scanEvents, link, response>>

(***************************************************************************)
(* Mutant: the answer is the next free number, not that of the entry.      *)
(***************************************************************************)
AnswerNextFree(c, outcome) ==
  /\ pc[c] = "linked"
  /\ pc' = [pc EXCEPT ![c] = outcome]
  /\ response' = [response EXCEPT ![c] = Cardinality(table) + 1]
  /\ UNCHANGED <<memory, scanEvents, link>>

(***************************************************************************)
(* The call ends and returns the sequence number of the entry it built.    *)
(***************************************************************************)
Answer(c, outcome) ==
  /\ pc[c] = "linked"
  /\ pc' = [pc EXCEPT ![c] = outcome]
  /\ response' = [response EXCEPT ![c] = link[c].seq]
  /\ UNCHANGED <<memory, scanEvents, link>>

CommitStored(c) ==
  /\ SequenceIsFree(link[c])
  /\ ScanExists(link[c])
  /\ Answer(c, "stored")
  /\ table' = table \cup {link[c]}

(***************************************************************************)
(* Mutant: the insert is ON CONFLICT DO UPDATE: the loser replaces the row.*)
(***************************************************************************)
ConflictReplacesRow(c) ==
  /\ ~SequenceIsFree(link[c])
  /\ Answer(c, "conflict")
  /\ table' = {r \in table : r.seq # link[c].seq} \cup {link[c]}

CommitConflict(c) ==
  /\ ~SequenceIsFree(link[c])
  /\ Answer(c, "conflict")
  /\ UNCHANGED table

CommitOrphan(c) ==
  /\ ~ScanExists(link[c])
  /\ Answer(c, "orphan")
  /\ UNCHANGED table

(***************************************************************************)
(* The connection is lost before the commit takes effect.                  *)
(***************************************************************************)
CommitUnwritten(c) ==
  /\ Answer(c, "unwritten")
  /\ UNCHANGED table

(***************************************************************************)
(* With no session the entry joins the in-process chain, without an await. *)
(***************************************************************************)
AppendInMemory(c) ==
  /\ pc[c] = "idle"
  /\ \E p \in Payloads, s \in Scans \cup {NoScan} :
       LET e == IF memory = << >>
                THEN Entry(c, s, p, 1, Genesis)
                ELSE Entry(c, s, p, memory[Len(memory)].seq + 1,
                           memory[Len(memory)].recordHash)
       IN  /\ memory' = Append(memory, e)
           /\ response' = [response EXCEPT ![c] = e.seq]
  /\ pc' = [pc EXCEPT ![c] = "inMemory"]
  /\ UNCHANGED <<table, scanEvents, link>>

(***************************************************************************)
(* The server process dies: suspended calls end, the in-process chain is   *)
(* gone, the table stays.  A commit that reached the database before the   *)
(* process died is a CommitStored followed by Crash.                       *)
(***************************************************************************)
Crash ==
  /\ memory' = << >>
  /\ pc' = [c \in Calls |-> IF pc[c] = "linked" THEN "crashed" ELSE pc[c]]
  /\ UNCHANGED <<table, scanEvents, link, response>>

Next ==
  \/ \E s \in Scans : CommitScan(s)
  \/ \E c \in Calls :
       \/ ReadLatest(c)
       \/ ReadRaises(c)
       \/ CommitStored(c)
       \/ CommitConflict(c)
       \/ CommitOrphan(c)
       \/ CommitUnwritten(c)
       \/ AppendInMemory(c)
  \/ Crash

Spec == Init /\ [][Next]_vars

-----------------------------------------------------------------------------
(***************************************************************************)
(* verify_chain.  The rows are visited in the order of their sequence      *)
(* numbers; a row is sound when it links to the row before it, and its own *)
(* hash is that of its content.  The chain is valid when every row is.     *)
(***************************************************************************)
IsPredecessor(q, r, rows) ==
  /\ q \in rows
  /\ q.seq < r.seq
  /\ \A o \in rows : o.seq < r.seq => o.seq <= q.seq

RowVerifies(r, rows) ==
  /\ r.recordHash = RecordHash(r.payloadHash, r.prev)
  /\ (\A q \in rows : r.seq <= q.seq) => r.prev = Genesis
  /\ \A q \in rows : IsPredecessor(q, r, rows) => r.prev = q.recordHash

VerifyChain(rows) == \A r \in rows : RowVerifies(r, rows)

-----------------------------------------------------------------------------
TypeOK ==
  /\ IsFiniteSet(table)
  /\ \A r \in table :
       /\ r = Entry(r.call, r.scan, r.payloadHash, r.seq, r.prev)
       /\ r.call \in Calls
       /\ r.scan \in Scans \cup {NoScan}
       /\ r.seq \in Nat
  /\ scanEvents \subseteq Scans
  /\ pc \in [Calls -> Finished \cup {"idle", "linked"}]
  /\ DOMAIN link = Calls
  /\ \A c \in Calls :
       /\ link[c] = Entry(c, link[c].scan, link[c].payloadHash, link[c].seq, link[c].prev)
       /\ link[c].scan \in Scans \cup {NoScan}
       /\ link[c].seq \in Nat
  /\ response \in [Calls -> Nat]

(***************************************************************************)
(* However the calls interleave, fail and crash, the sequence numbers in   *)
(* the table are 1 .. n, each used once (the UNIQUE constraint with the    *)
(* read of the latest row in append_event).                                *)
(***************************************************************************)
Contiguous ==
  /\ \A r, q \in table : r.seq = q.seq => r = q
  /\ {r.seq : r \in table} = 1 .. Cardinality(table)

(***************************************************************************)
(* verify_chain never reports a corruption on a table that only            *)
(* append_event wrote: concurrent appends cannot fork or reorder the chain.*)
(* Nor does it on the in-process chain, before or after a restart.         *)
(***************************************************************************)
ChainVerifies ==
  /\ VerifyChain(table)
  /\ VerifyChain({memory[i] : i \in DOMAIN memory})

(***************************************************************************)
(* An answer that reports a stored entry or lost a race names a row that   *)
(* exists, and the row is the call's own exactly when the call was stored: *)
(* a loser is never told a number that nobody holds.                       *)
(***************************************************************************)
AnswerNamesARow ==
  \A c \in Calls : pc[c] \in {"stored", "conflict"} =>
    \E r \in table : r.seq = response[c] /\ (r.call = c <=> pc[c] = "stored")

(***************************************************************************)
(* The table, read in the order of its sequence numbers, is an append-only *)
(* log of the calls: every step adds nothing or one new call at the end.   *)
(***************************************************************************)
RowAt(n) == CHOOSE r \in table : r.seq = n

logOfTable == [n \in 1 .. Cardinality(table) |-> RowAt(n).call]

Abstract == INSTANCE AppendOnlyLog WITH Event <- Calls, log <- logOfTable

ImplementsLog == Abstract!LogSpec

-----------------------------------------------------------------------------
(***************************************************************************)
(* The inductive invariant.  An entry extends the rows when it starts the  *)
(* chain or links to one of them; every stored row does, and so does every *)
(* entry a suspended call still holds, because rows are never removed.     *)
(* With unique sequence numbers this leaves one place for a new row: the   *)
(* end of the chain.                                                       *)
(***************************************************************************)
ExtendsChain(e, rows) ==
  \/ e.seq = 1 /\ e.prev = Genesis
  \/ \E q \in rows : e.seq = q.seq + 1 /\ e.prev = q.recordHash

RowsExtendChain ==
  \A r \in table : ExtendsChain(r, table) /\ pc[r.call] = "stored"

HeldLinksExtendChain ==
  \A c \in Calls : pc[c] = "linked" =>
    link[c].call = c /\ ExtendsChain(link[c], table)

MemoryChain ==
  /\ memory \in Seq({memory[i] : i \in DOMAIN memory})
  /\ \A i \in 1 .. Len(memory) :
       /\ memory[i].seq = i
       /\ memory[i].recordHash = RecordHash(memory[i].payloadHash, memory[i].prev)
       /\ memory[i].prev = IF i = 1 THEN Genesis ELSE memory[i - 1].recordHash

IInv ==
  /\ TypeOK
  /\ Contiguous
  /\ RowsExtendChain
  /\ HeldLinksExtendChain
  /\ MemoryChain
=============================================================================
