------------------------- MODULE AuditLedgerProofs -------------------------
(***************************************************************************)
(* Proofs about AuditLedger, for any number of calls, payloads and scans.  *)
(***************************************************************************)
EXTENDS AuditLedger, FiniteSetTheorems, SequenceTheorems, TLAPS

(***************************************************************************)
(* A new row whose sequence number is free and which extends the chain     *)
(* carries the number after the last one: it goes at the end.              *)
(***************************************************************************)
LEMMA FreeMeansNext ==
  ASSUME IsFiniteSet(table), Contiguous,
         \A r \in table : r.seq \in Nat,
         NEW e, e.seq \in Nat,
         ExtendsChain(e, table), SequenceIsFree(e)
  PROVE  /\ Cardinality(table) \in Nat
         /\ e.seq = Cardinality(table) + 1
         /\ e \notin table
         /\ IsFiniteSet(table \cup {e})
         /\ Cardinality(table \cup {e}) = Cardinality(table) + 1
<1> DEFINE n == Cardinality(table)
<1>1. n \in Nat
  BY FS_CardinalityType
<1>2. \A k \in 1 .. n : \E r \in table : r.seq = k
  BY DEF Contiguous
<1>3. \A r \in table : r.seq \in 1 .. n
  BY DEF Contiguous
<1>4. e.seq \notin 1 .. n
  BY <1>2 DEF SequenceIsFree
<1>5. e.seq \in 1 .. n + 1
  <2>1. CASE e.seq = 1
    BY <1>1, <2>1
  <2>2. CASE \E q \in table : e.seq = q.seq + 1
    BY <1>1, <1>3, <2>2
  <2>3. QED
    BY <2>1, <2>2 DEF ExtendsChain
<1>6. e.seq = n + 1
  BY <1>1, <1>4, <1>5
<1>7. e \notin table
  BY DEF SequenceIsFree
<1>8. IsFiniteSet(table \cup {e}) /\ Cardinality(table \cup {e}) = n + 1
  BY <1>7, FS_AddElement
<1>9. QED
  BY <1>1, <1>6, <1>7, <1>8

(***************************************************************************)
(* What an entry extends, it still extends when rows are added.            *)
(***************************************************************************)
LEMMA ExtendsMonotone ==
  ASSUME NEW e, NEW S, NEW T, S \subseteq T, ExtendsChain(e, S)
  PROVE  ExtendsChain(e, T)
BY DEF ExtendsChain

-----------------------------------------------------------------------------
(***************************************************************************)
(* The empty ledger satisfies the inductive invariant.                     *)
(***************************************************************************)
LEMMA InitIInv == Init => IInv
<1> SUFFICES ASSUME Init PROVE IInv
  OBVIOUS
<1>1. IsFiniteSet(table) /\ Cardinality(table) = 0
  BY FS_EmptySet DEF Init
<1>2. TypeOK
  BY <1>1 DEF Init, TypeOK, Entry, RecordHash, Finished, Answered
<1>3. Contiguous
  BY <1>1 DEF Init, Contiguous
<1>4. RowsExtendChain /\ HeldLinksExtendChain
  BY DEF Init, RowsExtendChain, HeldLinksExtendChain
<1>5. MemoryChain
  BY DEF Init, MemoryChain
<1>6. QED
  BY <1>2, <1>3, <1>4, <1>5 DEF IInv

(***************************************************************************)
(* The in-process chain: an entry linked to the last one keeps the chain.  *)
(***************************************************************************)
LEMMA MemoryAppend ==
  ASSUME NEW c \in Calls, AppendInMemory(c), MemoryChain
  PROVE  MemoryChain'
<1>1. PICK p \in Payloads, s \in Scans \cup {NoScan} :
        memory' = Append(memory,
                    IF memory = << >>
                    THEN Entry(c, s, p, 1, Genesis)
                    ELSE Entry(c, s, p, memory[Len(memory)].seq + 1,
                               memory[Len(memory)].recordHash))
  BY DEF AppendInMemory
<1> DEFINE e == IF memory = << >>
                THEN Entry(c, s, p, 1, Genesis)
                ELSE Entry(c, s, p, memory[Len(memory)].seq + 1,
                           memory[Len(memory)].recordHash)
           E == {memory[i] : i \in DOMAIN memory} \cup {e}
<1>2. memory \in Seq(E) /\ e \in E
  <2>1. memory \in Seq({memory[i] : i \in DOMAIN memory})
    BY DEF MemoryChain
  <2>2. memory \in Seq(E)
    BY <2>1
  <2>3. QED
    BY <2>2
<1> HIDE DEF E
<1>3. /\ memory' \in Seq(E)
      /\ Len(memory') = Len(memory) + 1
      /\ \A i \in 1 .. Len(memory) : memory'[i] = memory[i]
      /\ memory'[Len(memory) + 1] = e
  <2> HIDE DEF e
  <2>1. memory' = Append(memory, e)
    BY <1>1 DEF e
  <2>2. QED
    BY <1>2, <2>1, AppendProperties
<1>4. memory' \in Seq({memory'[i] : i \in DOMAIN memory'})
  <2>1. DOMAIN memory' = 1 .. Len(memory') /\ Len(memory') \in Nat
    BY <1>3, LenProperties
  <2>2. memory' = [i \in 1 .. Len(memory') |-> memory'[i]]
    BY <1>3, <2>1
  <2>3. QED
    BY <2>1, <2>2
<1>5. Len(memory) \in Nat /\ (memory = << >> <=> Len(memory) = 0)
  BY <1>2, EmptySeq, LenProperties
<1>6. /\ e.seq = Len(memory) + 1
      /\ e.recordHash = RecordHash(e.payloadHash, e.prev)
      /\ e.prev = IF Len(memory) = 0 THEN Genesis ELSE memory[Len(memory)].recordHash
  BY <1>5 DEF MemoryChain, Entry
<1>7. ASSUME NEW i \in 1 .. Len(memory')
      PROVE  /\ memory'[i].seq = i
             /\ memory'[i].recordHash = RecordHash(memory'[i].payloadHash, memory'[i].prev)
             /\ memory'[i].prev = IF i = 1 THEN Genesis ELSE memory'[i - 1].recordHash
  <2> HIDE DEF e
  <2>1. CASE i = Len(memory) + 1
    BY <1>3, <1>5, <1>6, <2>1
  <2>2. CASE i \in 1 .. Len(memory)
    <3>1. i = 1 \/ i - 1 \in 1 .. Len(memory)
      BY <1>5, <2>2
    <3>2. QED
      BY <1>3, <2>2, <3>1 DEF MemoryChain
  <2>3. QED
    BY <1>3, <1>5, <2>1, <2>2
<1>8. QED
  BY <1>4, <1>7 DEF MemoryChain

-----------------------------------------------------------------------------
(***************************************************************************)
(* Steps that leave the table alone and release or keep links.             *)
(***************************************************************************)
LEMMA TableUnchanged ==
  ASSUME IInv, UNCHANGED table,
         \A r \in table : pc'[r.call] = "stored",
         \A c \in Calls : pc'[c] = "linked" => pc[c] = "linked" /\ link'[c] = link[c]
  PROVE  Contiguous' /\ RowsExtendChain' /\ HeldLinksExtendChain'
<1>1. Contiguous'
  BY DEF IInv, Contiguous
<1>2. RowsExtendChain'
  BY DEF IInv, RowsExtendChain, ExtendsChain
<1>3. HeldLinksExtendChain'
  BY DEF IInv, HeldLinksExtendChain, ExtendsChain
<1>4. QED
  BY <1>1, <1>2, <1>3

(***************************************************************************)
(* A call that reads the latest row comes to hold an entry that extends    *)
(* the chain.                                                              *)
(***************************************************************************)
LEMMA ReadStep ==
  ASSUME IInv, NEW c \in Calls, ReadLatest(c)
  PROVE  IInv'
<1>0. PICK p \in Payloads, s \in Scans \cup {NoScan} :
        \E e \in Links(c, s, p) : link' = [link EXCEPT ![c] = e]
  BY DEF ReadLatest
<1>1. PICK e \in Links(c, s, p) : link' = [link EXCEPT ![c] = e]
  BY <1>0
<1>2. /\ e = Entry(c, s, p, e.seq, e.prev)
      /\ e.call = c /\ e.scan = s /\ e.payloadHash = p /\ e.seq \in Nat
      /\ ExtendsChain(e, table)
  <2>1. CASE table = {}
    BY <1>1, <2>1 DEF Links, Entry, ExtendsChain
  <2>2. CASE table # {}
    <3>1. PICK r \in table : e = Entry(c, s, p, r.seq + 1, r.recordHash)
      BY <1>1, <2>2 DEF Links, IsLatest
    <3>2. r.seq \in Nat
      BY DEF IInv, TypeOK
    <3>3. QED
      BY <3>1, <3>2 DEF Entry, ExtendsChain
  <2>3. QED
    BY <2>1, <2>2
<1>3. link'[c] = e /\ \A d \in Calls \ {c} : link'[d] = link[d]
  BY <1>1 DEF IInv, TypeOK
<1>4. pc'[c] = "linked" /\ \A d \in Calls \ {c} : pc'[d] = pc[d]
  BY DEF ReadLatest, IInv, TypeOK
<1>5. UNCHANGED <<table, memory, scanEvents, response>> /\ pc[c] = "idle"
  BY DEF ReadLatest
<1>6. TypeOK'
  <2>1. pc' \in [Calls -> Finished \cup {"idle", "linked"}] /\ DOMAIN link' = Calls
    BY <1>1 DEF ReadLatest, IInv, TypeOK
  <2>2. \A d \in Calls :
          /\ link'[d] = Entry(d, link'[d].scan, link'[d].payloadHash, link'[d].seq, link'[d].prev)
          /\ link'[d].scan \in Scans \cup {NoScan}
          /\ link'[d].seq \in Nat
    BY <1>2, <1>3 DEF IInv, TypeOK
  <2>3. QED
    BY <1>5, <2>1, <2>2 DEF IInv, TypeOK
<1>7. Contiguous'
  BY <1>5 DEF IInv, Contiguous
<1>8. RowsExtendChain'
  BY <1>4, <1>5 DEF IInv, RowsExtendChain, TypeOK, ExtendsChain
<1>9. HeldLinksExtendChain'
  BY <1>2, <1>3, <1>4, <1>5 DEF IInv, HeldLinksExtendChain, ExtendsChain
<1>10. MemoryChain'
  BY <1>5 DEF IInv, MemoryChain
<1>11. QED
  BY <1>6, <1>7, <1>8, <1>9, <1>10 DEF IInv

(***************************************************************************)
(* A stored entry becomes the last one of the chain.                       *)
(***************************************************************************)
LEMMA StoreStep ==
  ASSUME IInv, NEW c \in Calls, CommitStored(c)
  PROVE  /\ IInv'
         /\ link[c].call = c
         /\ link[c].seq = Cardinality(table) + 1
         /\ Cardinality(table) \in Nat
         /\ Cardinality(table') = Cardinality(table) + 1
<1> DEFINE e == link[c]
           n == Cardinality(table)
<1>1. /\ table' = table \cup {e}
      /\ UNCHANGED <<memory, scanEvents, link>>
      /\ pc[c] = "linked" /\ SequenceIsFree(e)
      /\ pc' = [pc EXCEPT ![c] = "stored"]
      /\ response' = [response EXCEPT ![c] = e.seq]
  BY DEF CommitStored, Answer
<1>2. e.call = c /\ ExtendsChain(e, table) /\ e.seq \in Nat
  BY <1>1 DEF IInv, HeldLinksExtendChain, TypeOK
<1>3. /\ n \in Nat /\ e.seq = n + 1 /\ e \notin table
      /\ IsFiniteSet(table') /\ Cardinality(table') = n + 1
  BY <1>1, <1>2, FreeMeansNext DEF IInv, TypeOK
<1> HIDE DEF n
<1>4. pc'[c] = "stored" /\ \A d \in Calls \ {c} : pc'[d] = pc[d]
  BY <1>1 DEF IInv, TypeOK
<1>5. TypeOK'
  <2>1. /\ e = Entry(e.call, e.scan, e.payloadHash, e.seq, e.prev)
        /\ e.scan \in Scans \cup {NoScan}
    BY <1>2 DEF IInv, TypeOK
  <2>2. \A r \in table' :
          /\ r = Entry(r.call, r.scan, r.payloadHash, r.seq, r.prev)
          /\ r.call \in Calls
          /\ r.scan \in Scans \cup {NoScan}
          /\ r.seq \in Nat
    BY <1>1, <1>2, <2>1 DEF IInv, TypeOK
  <2>3. pc' \in [Calls -> Finished \cup {"idle", "linked"}] /\ response' \in [Calls -> Nat]
    BY <1>1, <1>2 DEF IInv, TypeOK, Finished, Answered
  <2>4. QED
    BY <1>1, <1>3, <2>2, <2>3 DEF IInv, TypeOK
<1>6. Contiguous'
  <2>1. \A r, q \in table' : r.seq = q.seq => r = q
    BY <1>1 DEF IInv, Contiguous, SequenceIsFree
  <2>2. {r.seq : r \in table'} = {r.seq : r \in table} \cup {e.seq}
    BY <1>1
  <2>3. {r.seq : r \in table} = 1 .. n
    BY DEF IInv, Contiguous, n
  <2>4. {r.seq : r \in table'} = 1 .. n + 1
    BY <1>3, <2>2, <2>3
  <2>5. QED
    BY <1>3, <2>1, <2>4 DEF Contiguous
<1>7. RowsExtendChain'
  <2>1. ASSUME NEW r \in table'
        PROVE  ExtendsChain(r, table') /\ pc'[r.call] = "stored"
    <3>1. CASE r = e
      BY <1>1, <1>2, <1>4, <3>1, ExtendsMonotone
    <3>2. CASE r \in table
      <4>1. ExtendsChain(r, table')
        BY <1>1, <3>2, ExtendsMonotone DEF IInv, RowsExtendChain
      <4>2. pc'[r.call] = "stored"
        BY <1>4, <3>2 DEF IInv, RowsExtendChain, TypeOK
      <4>3. QED
        BY <4>1, <4>2
    <3>3. QED
      BY <1>1, <3>1, <3>2
  <2>2. QED
    BY <2>1 DEF RowsExtendChain, ExtendsChain
<1>8. HeldLinksExtendChain'
  <2>1. ASSUME NEW d \in Calls, pc'[d] = "linked"
        PROVE  link'[d].call = d /\ ExtendsChain(link'[d], table')
    <3>1. pc[d] = "linked" /\ link'[d] = link[d]
      BY <1>1, <1>4, <2>1
    <3>2. link[d].call = d /\ ExtendsChain(link[d], table)
      BY <3>1 DEF IInv, HeldLinksExtendChain
    <3>3. QED
      BY <1>1, <3>1, <3>2, ExtendsMonotone
  <2>2. QED
    BY <2>1 DEF HeldLinksExtendChain, ExtendsChain
<1>9. MemoryChain'
  BY <1>1 DEF IInv, MemoryChain
<1>10. QED
  BY <1>2, <1>3, <1>5, <1>6, <1>7, <1>8, <1>9 DEF IInv, n

(***************************************************************************)
(* A call that ends without storing its entry disturbs nothing.            *)
(***************************************************************************)
LEMMA QuietStep ==
  ASSUME IInv, NEW c \in Calls, NEW outcome \in Finished,
         Answer(c, outcome), UNCHANGED table
  PROVE  IInv'
<1>1. /\ UNCHANGED <<table, memory, scanEvents, link>> /\ pc[c] = "linked"
      /\ pc' = [pc EXCEPT ![c] = outcome]
      /\ response' = [response EXCEPT ![c] = link[c].seq]
  BY DEF Answer
<1>2. pc'[c] = outcome /\ outcome # "linked" /\ \A d \in Calls \ {c} : pc'[d] = pc[d]
  BY <1>1 DEF IInv, TypeOK, Finished, Answered
<1>3. TypeOK'
  BY <1>1 DEF IInv, TypeOK
<1>4. Contiguous' /\ RowsExtendChain' /\ HeldLinksExtendChain'
  <2>1. \A r \in table : pc'[r.call] = "stored"
    BY <1>1, <1>2 DEF IInv, TypeOK, RowsExtendChain
  <2>2. \A d \in Calls : pc'[d] = "linked" => pc[d] = "linked" /\ link'[d] = link[d]
    BY <1>1, <1>2
  <2>3. QED
    BY <1>1, <2>1, <2>2, TableUnchanged
<1>5. MemoryChain'
  BY <1>1 DEF IInv, MemoryChain
<1>6. QED
  BY <1>3, <1>4, <1>5 DEF IInv

(***************************************************************************)
(* Every step preserves the inductive invariant.                           *)
(***************************************************************************)
LEMMA NextIInv == IInv /\ [Next]_vars => IInv'
<1> SUFFICES ASSUME IInv, [Next]_vars PROVE IInv'
  OBVIOUS
<1>1. ASSUME NEW s \in Scans, CommitScan(s) PROVE IInv'
  <2>1. TypeOK' /\ MemoryChain'
    BY <1>1 DEF CommitScan, IInv, TypeOK, MemoryChain
  <2>2. Contiguous' /\ RowsExtendChain' /\ HeldLinksExtendChain'
    BY <1>1, TableUnchanged DEF CommitScan, IInv, RowsExtendChain
  <2>3. QED
    BY <2>1, <2>2 DEF IInv
<1>2. ASSUME NEW c \in Calls, ReadLatest(c) PROVE IInv'
  BY <1>2, ReadStep
<1>3. ASSUME NEW c \in Calls, ReadRaises(c) PROVE IInv'
  <2>1. pc'[c] = "raised" /\ pc[c] = "idle" /\ \A d \in Calls \ {c} : pc'[d] = pc[d]
    BY <1>3 DEF ReadRaises, IInv, TypeOK
  <2>2. TypeOK' /\ MemoryChain'
    BY <1>3 DEF ReadRaises, IInv, TypeOK, MemoryChain, Finished
  <2>3. Contiguous' /\ RowsExtendChain' /\ HeldLinksExtendChain'
    BY <1>3, <2>1, TableUnchanged DEF ReadRaises, IInv, RowsExtendChain, TypeOK
  <2>4. QED
    BY <2>2, <2>3 DEF IInv
<1>4. ASSUME NEW c \in Calls, CommitStored(c) PROVE IInv'
  BY <1>4, StoreStep
<1>5. ASSUME NEW c \in Calls, CommitConflict(c) PROVE IInv'
  BY <1>5, QuietStep DEF CommitConflict, Finished, Answered
<1>6. ASSUME NEW c \in Calls, CommitOrphan(c) PROVE IInv'
  BY <1>6, QuietStep DEF CommitOrphan, Finished, Answered
<1>7. ASSUME NEW c \in Calls, CommitUnwritten(c) PROVE IInv'
  BY <1>7, QuietStep DEF CommitUnwritten, Finished, Answered
<1>8. ASSUME NEW c \in Calls, AppendInMemory(c) PROVE IInv'
  <2>1. pc'[c] = "inMemory" /\ pc[c] = "idle" /\ \A d \in Calls \ {c} : pc'[d] = pc[d]
    BY <1>8 DEF AppendInMemory, IInv, TypeOK
  <2>2. MemoryChain'
    BY <1>8, MemoryAppend DEF IInv
  <2>3. response' \in [Calls -> Nat]
    <3>1. PICK p \in Payloads, s \in Scans \cup {NoScan} :
            response' = [response EXCEPT ![c] =
              (IF memory = << >>
               THEN Entry(c, s, p, 1, Genesis)
               ELSE Entry(c, s, p, memory[Len(memory)].seq + 1,
                          memory[Len(memory)].recordHash)).seq]
      BY <1>8 DEF AppendInMemory
    <3>2. Len(memory) \in Nat /\ (memory = << >> <=> Len(memory) = 0)
      BY EmptySeq, LenProperties DEF IInv, MemoryChain
    <3>3. memory # << >> => memory[Len(memory)].seq \in Nat
      BY <3>2 DEF IInv, MemoryChain
    <3>4. QED
      BY <3>1, <3>3 DEF IInv, TypeOK, Entry
  <2>4. TypeOK'
    BY <1>8, <2>3 DEF AppendInMemory, IInv, TypeOK, Finished
  <2>5. Contiguous' /\ RowsExtendChain' /\ HeldLinksExtendChain'
    BY <1>8, <2>1, TableUnchanged DEF AppendInMemory, IInv, RowsExtendChain, TypeOK
  <2>6. QED
    BY <2>2, <2>4, <2>5 DEF IInv
<1>9. CASE Crash
  <2>1. TypeOK'
    BY <1>9 DEF Crash, IInv, TypeOK, Finished
  <2>2. MemoryChain'
    BY <1>9 DEF Crash, MemoryChain
  <2>3. Contiguous' /\ RowsExtendChain' /\ HeldLinksExtendChain'
    BY <1>9, TableUnchanged DEF Crash, IInv, RowsExtendChain, TypeOK
  <2>4. QED
    BY <2>1, <2>2, <2>3 DEF IInv
<1>10. CASE UNCHANGED vars
  BY <1>10 DEF vars, IInv, TypeOK, Contiguous, RowsExtendChain, HeldLinksExtendChain,
               ExtendsChain, MemoryChain
<1>11. QED
  BY <1>1, <1>2, <1>3, <1>4, <1>5, <1>6, <1>7, <1>8, <1>9, <1>10 DEF Next

-----------------------------------------------------------------------------
(***************************************************************************)
(* The invariant holds throughout.                                         *)
(***************************************************************************)
THEOREM Invariance == Spec => []IInv
BY InitIInv, NextIInv, PTL DEF Spec

(***************************************************************************)
(* Type correctness of the ledger.                                         *)
(***************************************************************************)
THEOREM TypeCorrect == Spec => []TypeOK
<1>1. IInv => TypeOK
  BY DEF IInv
<1>2. QED
  BY Invariance, <1>1, PTL

(***************************************************************************)
(* The table's sequence numbers are 1 .. n, whatever append_event calls    *)
(* race, fail or die.                                                      *)
(***************************************************************************)
THEOREM SequenceContiguous == Spec => []Contiguous
<1>1. IInv => Contiguous
  BY DEF IInv
<1>2. QED
  BY Invariance, <1>1, PTL

(***************************************************************************)
(* A chain whose rows each extend the chain passes verify_chain: the row   *)
(* that a row links to is its predecessor.                                 *)
(***************************************************************************)
LEMMA IInvVerifies == IInv => ChainVerifies
<1> SUFFICES ASSUME IInv PROVE ChainVerifies
  OBVIOUS
<1>1. VerifyChain(table)
  <2>1. SUFFICES ASSUME NEW r \in table PROVE RowVerifies(r, table)
    BY DEF VerifyChain
  <2>2. /\ r.seq \in Nat /\ \A q \in table : q.seq \in Nat /\ q.seq >= 1
        /\ r.recordHash = RecordHash(r.payloadHash, r.prev)
    <3>1. \A q \in table : q.seq \in 1 .. Cardinality(table)
      BY DEF IInv, Contiguous
    <3>2. Cardinality(table) \in Nat
      BY FS_CardinalityType DEF IInv, TypeOK
    <3>3. r.recordHash = RecordHash(r.payloadHash, r.prev)
      BY DEF IInv, TypeOK, Entry
    <3>4. QED
      BY <3>1, <3>2, <3>3
  <2>3. CASE r.seq = 1 /\ r.prev = Genesis
    BY <2>2, <2>3 DEF RowVerifies, IsPredecessor
  <2>4. CASE \E q \in table : r.seq = q.seq + 1 /\ r.prev = q.recordHash
    <3>1. PICK q \in table : r.seq = q.seq + 1 /\ r.prev = q.recordHash
      BY <2>4
    <3>2. ~(\A o \in table : r.seq <= o.seq)
      BY <2>2, <3>1
    <3>3. ASSUME NEW o \in table, IsPredecessor(o, r, table)
          PROVE  o = q
      <4>1. o.seq < r.seq /\ q.seq <= o.seq
        BY <2>2, <3>1, <3>3 DEF IsPredecessor
      <4>2. o.seq = q.seq
        BY <2>2, <3>1, <4>1
      <4>3. QED
        BY <4>2 DEF IInv, Contiguous
    <3>4. QED
      BY <2>2, <3>1, <3>2, <3>3 DEF RowVerifies
  <2>5. QED
    BY <2>3, <2>4 DEF IInv, RowsExtendChain, ExtendsChain
<1>2. VerifyChain({memory[i] : i \in DOMAIN memory})
  <2> DEFINE R == {memory[i] : i \in DOMAIN memory}
  <2>1. Len(memory) \in Nat /\ DOMAIN memory = 1 .. Len(memory)
    BY LenProperties DEF IInv, MemoryChain
  <2>2. SUFFICES ASSUME NEW i \in 1 .. Len(memory) PROVE RowVerifies(memory[i], R)
    BY <2>1 DEF VerifyChain
  <2>3. \A j \in 1 .. Len(memory) :
          /\ memory[j].seq = j
          /\ memory[j].recordHash = RecordHash(memory[j].payloadHash, memory[j].prev)
          /\ memory[j].prev = IF j = 1 THEN Genesis ELSE memory[j - 1].recordHash
    BY DEF IInv, MemoryChain
  <2>4. ASSUME \A q \in R : memory[i].seq <= q.seq
        PROVE  memory[i].prev = Genesis
    <3>1. memory[1] \in R
      BY <2>1
    <3>2. i = 1
      BY <2>1, <2>3, <2>4, <3>1
    <3>3. QED
      BY <2>3, <3>2
  <2>5. ASSUME NEW q \in R, IsPredecessor(q, memory[i], R)
        PROVE  memory[i].prev = q.recordHash
    <3>1. PICK j \in 1 .. Len(memory) : q = memory[j]
      BY <2>1
    <3>2. j < i
      BY <2>3, <2>5, <3>1 DEF IsPredecessor
    <3>3. memory[i - 1] \in R /\ i - 1 \in 1 .. Len(memory)
      BY <2>1, <3>2
    <3>4. i - 1 <= j
      BY <2>3, <2>5, <3>1, <3>3, SMTT(20) DEF IsPredecessor
    <3>5. j = i - 1
      BY <3>2, <3>4
    <3>6. QED
      BY <2>3, <3>1, <3>2, <3>5
  <2>6. QED
    BY <2>3, <2>4, <2>5 DEF RowVerifies
<1>3. QED
  BY <1>1, <1>2 DEF ChainVerifies

(***************************************************************************)
(* verify_chain accepts whatever append_event wrote, in the table and in   *)
(* the in-process chain.                                                   *)
(***************************************************************************)
THEOREM ChainAlwaysVerifies == Spec => []ChainVerifies
BY Invariance, IInvVerifies, PTL

(***************************************************************************)
(* An answered call that was stored or lost a race names an existing row,  *)
(* its own exactly when it was stored.                                     *)
(***************************************************************************)
THEOREM AnswersNameRows == Spec => []AnswerNamesARow
<1>1. Init => AnswerNamesARow
  BY DEF Init, AnswerNamesARow
<1>2. IInv /\ AnswerNamesARow /\ [Next]_vars => AnswerNamesARow'
  <2> SUFFICES ASSUME IInv, AnswerNamesARow, [Next]_vars PROVE AnswerNamesARow'
    OBVIOUS
  <2>1. ASSUME NEW c \in Calls, CommitStored(c) PROVE AnswerNamesARow'
    <3>1. /\ table' = table \cup {link[c]} /\ link[c].call = c
          /\ pc'[c] = "stored" /\ response'[c] = link[c].seq
          /\ \A d \in Calls \ {c} : pc'[d] = pc[d] /\ response'[d] = response[d]
      BY <2>1, StoreStep DEF CommitStored, Answer, IInv, TypeOK
    <3>2. QED
      BY <3>1 DEF AnswerNamesARow
  <2>2. ASSUME NEW c \in Calls, CommitConflict(c) PROVE AnswerNamesARow'
    <3>1. /\ UNCHANGED table /\ ~SequenceIsFree(link[c]) /\ pc[c] = "linked"
          /\ pc'[c] = "conflict" /\ response'[c] = link[c].seq
          /\ \A d \in Calls \ {c} : pc'[d] = pc[d] /\ response'[d] = response[d]
      BY <2>2 DEF CommitConflict, Answer, IInv, TypeOK
    <3>2. \A r \in table : r.call # c
      BY <3>1 DEF IInv, RowsExtendChain
    <3>3. QED
      BY <3>1, <3>2 DEF AnswerNamesARow, SequenceIsFree
  <2>3. ASSUME UNCHANGED table,
               \A c \in Calls : pc'[c] \in {"stored", "conflict"} =>
                                   pc'[c] = pc[c] /\ response'[c] = response[c]
        PROVE  AnswerNamesARow'
    BY <2>3 DEF AnswerNamesARow
  <2>4. ASSUME NEW c \in Calls,
               CommitOrphan(c) \/ CommitUnwritten(c) \/ ReadLatest(c) \/ ReadRaises(c)
                 \/ AppendInMemory(c)
        PROVE  AnswerNamesARow'
    <3>1. UNCHANGED table /\ pc'[c] \notin {"stored", "conflict"}
      BY <2>4 DEF CommitOrphan, CommitUnwritten, Answer, ReadLatest, ReadRaises,
                  AppendInMemory, IInv, TypeOK
    <3>2. \A d \in Calls \ {c} : pc'[d] = pc[d] /\ response'[d] = response[d]
      BY <2>4 DEF CommitOrphan, CommitUnwritten, Answer, ReadLatest, ReadRaises,
                  AppendInMemory, IInv, TypeOK
    <3>3. QED
      BY <2>3, <3>1, <3>2
  <2>5. CASE (\E s \in Scans : CommitScan(s)) \/ Crash \/ UNCHANGED vars
    BY <2>3, <2>5 DEF CommitScan, Crash, vars, IInv, TypeOK
  <2>6. QED
    BY <2>1, <2>2, <2>4, <2>5 DEF Next
<1>3. QED
  BY <1>1, <1>2, Invariance, PTL DEF Spec

-----------------------------------------------------------------------------
(***************************************************************************)
(* Storing an entry appends its call to the log that the table represents. *)
(***************************************************************************)
LEMMA StoreAppends ==
  ASSUME IInv, NEW c \in Calls, CommitStored(c)
  PROVE  Abstract!Record(c)
<1>0. PICK n \in Nat, e \in {link[c]} :
        /\ n = Cardinality(table) /\ e = link[c] /\ e.seq = n + 1 /\ e.call = c
        /\ Cardinality(table') = n + 1
  BY StoreStep
<1>1. IInv' /\ table' = table \cup {e} /\ pc[c] = "linked"
  BY <1>0, StoreStep DEF CommitStored, Answer
<1>2. ASSUME NEW k \in 1 .. n
      PROVE  /\ \E r \in table : r.seq = k /\ RowAt(k) = r /\ RowAt(k)' = r
             /\ RowAt(k).call \in Calls \ {c}
  <2>1. PICK r \in table : r.seq = k
    BY <1>0 DEF IInv, Contiguous
  <2>2. RowAt(k) = r
    BY <2>1 DEF IInv, Contiguous, RowAt
  <2>3. RowAt(k)' = r
    BY <1>1, <2>1 DEF IInv, Contiguous, RowAt
  <2>4. r.call \in Calls /\ pc[r.call] = "stored"
    BY <2>1 DEF IInv, RowsExtendChain, TypeOK
  <2>5. QED
    BY <1>1, <2>1, <2>2, <2>3, <2>4
<1>3. RowAt(n + 1)' = e
  BY <1>0, <1>1 DEF IInv, Contiguous, RowAt
<1>4. logOfTable = [k \in 1 .. n |-> RowAt(k).call] /\ logOfTable \in Seq(Calls)
  BY <1>0, <1>2 DEF logOfTable
<1>5. logOfTable' = [k \in 1 .. n + 1 |-> RowAt(k)'.call]
  BY <1>0 DEF logOfTable
<1>6. logOfTable' = Append(logOfTable, c)
  <2>1. Len(logOfTable) = n
    BY <1>0, <1>4
  <2>2. Append(logOfTable, c) = [k \in 1 .. n + 1 |-> IF k = n + 1 THEN c ELSE logOfTable[k]]
    BY <1>0, <1>4, <2>1
  <2>3. \A k \in 1 .. n + 1 : RowAt(k)'.call = IF k = n + 1 THEN c ELSE logOfTable[k]
    BY <1>0, <1>2, <1>3, <1>4
  <2>4. QED
    BY <1>5, <2>2, <2>3
<1>7. \A i \in DOMAIN logOfTable : logOfTable[i] # c
  BY <1>2, <1>4
<1>8. QED
  BY <1>6, <1>7 DEF Abstract!Record

(***************************************************************************)
(* The ledger implements the append-only log: a step of append_event       *)
(* either stores a new call at the end of the log or leaves the log alone. *)
(***************************************************************************)
THEOREM LedgerImplementsLog == Spec => ImplementsLog
<1>1. Init => Abstract!LogInit
  <2>1. ASSUME Init PROVE logOfTable = << >>
    <3>1. Cardinality(table) = 0
      BY <2>1, FS_EmptySet DEF Init
    <3>2. QED
      BY <3>1 DEF logOfTable
  <2>2. QED
    BY <2>1 DEF Abstract!LogInit
<1>2. IInv /\ [Next]_vars => [Abstract!LogNext]_logOfTable
  <2> SUFFICES ASSUME IInv, [Next]_vars PROVE [Abstract!LogNext]_logOfTable
    OBVIOUS
  <2>1. ASSUME NEW c \in Calls, CommitStored(c) PROVE Abstract!LogNext
    BY <2>1, StoreAppends DEF Abstract!LogNext
  <2>2. ASSUME UNCHANGED table PROVE UNCHANGED logOfTable
    BY <2>2 DEF logOfTable, RowAt
  <2>3. CASE UNCHANGED table
    BY <2>2, <2>3
  <2>4. CASE ~UNCHANGED table
    BY <2>1, <2>4 DEF Next, CommitScan, ReadLatest, ReadRaises, CommitConflict, CommitOrphan,
                      CommitUnwritten, AppendInMemory, Crash, vars
  <2>5. QED
    BY <2>3, <2>4
<1>3. QED
  BY <1>1, <1>2, Invariance, PTL DEF Spec, ImplementsLog, Abstract!LogSpec
=============================================================================
