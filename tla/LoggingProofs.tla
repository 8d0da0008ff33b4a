---------------------------- MODULE LoggingProofs ----------------------------
(***************************************************************************)
(* Proofs about the audit log: the records that threads and processes      *)
(* write into one log file, the files that the logs of several rule sets   *)
(* share, and which transactions are saved, with which parts.              *)
(***************************************************************************)
EXTENDS AuditLog, AuditRecord, FiniteSetTheorems, SequenceTheorems, WellFoundedInduction, TLAPS

-----------------------------------------------------------------------------
(* What a process has written, as if its buffer were flushed.              *)

Piece     == AuditThreads \X {"begin", "end"}
Processes == {"p1", "p2"}
Stream(p) == shared \o buffer[p]

Buffers == {"fwrite", "flush", "flush short"}
Locks   == Buffers \cup {"locked", "unlock", "unlock short"}
LoggingStates ==
    Locks \cup {"idle", "left", "HTTPS", "Parallel", "Serial", "index",
                "failed", "done"}

RecordTypeOK ==
    /\ auditConf \in AuditConfs /\ processOf \in Deployments
    /\ logging \in [AuditThreads -> LoggingStates]
    /\ records \in [AuditThreads -> {"none", "whole", "part"}]
    /\ shared \in Seq(Piece)
    /\ buffer \in [Processes -> Seq(Piece)]
    /\ stdioLock \in [Processes -> AuditThreads \cup {Unset}]
    /\ unlocked \subseteq AuditThreads /\ unwritten \subseteq Processes

(* A thread is on the way of the writer that was configured.               *)
WriterAsConfigured ==
    \A t \in AuditThreads :
        /\ logging[t] \in {"HTTPS", "Parallel", "Serial"} => logging[t] = auditConf.type
        /\ logging[t] = "index" => auditConf.type = "Parallel"

(* The lock of fcntl keeps the threads of other processes out, where no    *)
(* thread goes on without it.                                              *)
LockIsHeld ==
    NothingTears =>
        \A t \in AuditThreads :
            logging[t] \in Locks =>
                \/ fileLock = processOf[t]
                \/ \A u \in AuditThreads : processOf[u] = processOf[t]

(* A buffer is empty but for what its threads are about to flush, and what *)
(* a failed write left.                                                    *)
BufferIsInUse ==
    \A p \in Processes :
        buffer[p] # << >> =>
            \E t \in AuditThreads :
                processOf[t] = p /\ (logging[t] \in Buffers \/ p \in unwritten)

(* The end of a record is preceded by its beginning.                       *)
Whole(s) ==
    \A k \in DOMAIN s :
        s[k][2] = "end" => k > 1 /\ s[k - 1] = <<s[k][1], "begin">>

EndsWith(s, x) == s # << >> /\ s[Len(s)] = x

StreamsAreWhole == NothingTears => \A p \in Processes : Whole(Stream(p))

(* The thread inside of fwrite has the FILE, and its beginning is the last *)
(* thing that was written.                                                 *)
FwriteIsAlone ==
    \A t \in AuditThreads :
        logging[t] = "fwrite" =>
            /\ stdioLock[processOf[t]] = t
            /\ NothingTears => EndsWith(Stream(processOf[t]), <<t, "begin">>)

EndIn(s, t) == \E k \in DOMAIN s : s[k] = <<t, "end">>

(* What is finished for is in the file or about to get there, unless the   *)
(* process failed to write.                                                *)
EndIsWritten ==
    \A t \in AuditThreads :
        processOf[t] \notin unwritten =>
            /\ logging[t] = "flush" => EndIn(shared, t) \/ EndIn(buffer[processOf[t]], t)
            /\ logging[t] = "unlock" => EndIn(shared, t)
            /\ logging[t] = "done" /\ auditConf.type # "HTTPS" /\ auditConf.paths # {}
                  => EndIn(shared, t)

(* Of Parallel, a thread that writes the index has made its file.          *)
Made       == {t \in AuditThreads : records[t] # "none"}
Names(s)   == {s[k][1] : k \in DOMAIN s}
IndexAfterRecord ==
    auditConf.type = "Parallel" =>
        /\ \A t \in AuditThreads : logging[t] \in Locks \cup {"index"} => t \in Made
        /\ Names(shared) \subseteq Made
        /\ \A p \in Processes : Names(buffer[p]) \subseteq Made

RecordInv ==
    /\ RecordTypeOK /\ WriterAsConfigured /\ LockIsHeld /\ BufferIsInUse
    /\ StreamsAreWhole /\ FwriteIsAlone /\ EndIsWritten /\ IndexAfterRecord

-----------------------------------------------------------------------------
(* Sequences of pieces.                                                    *)

LEMMA AppendToConcat ==
    ASSUME NEW s \in Seq(Piece), NEW b \in Seq(Piece), NEW x \in Piece
    PROVE  s \o Append(b, x) = Append(s \o b, x)
OBVIOUS

LEMMA NothingIsASequence == << >> \in Seq(Piece)
OBVIOUS

LEMMA ConcatEmpty ==
    ASSUME NEW s \in Seq(Piece)
    PROVE  s \o << >> = s
OBVIOUS

(* The end of a record keeps the log whole right after its beginning.      *)
LEMMA AppendWhole ==
    ASSUME NEW s \in Seq(Piece), NEW x \in Piece, Whole(s),
           x[2] = "end" => s # << >> /\ s[Len(s)] = <<x[1], "begin">>
    PROVE  Whole(Append(s, x))
<1>1. ASSUME NEW k \in DOMAIN Append(s, x), Append(s, x)[k][2] = "end"
      PROVE  k > 1 /\ Append(s, x)[k - 1] = <<Append(s, x)[k][1], "begin">>
    <2>1. CASE k = Len(s) + 1
        <3>1. Append(s, x)[k] = x /\ s # << >> /\ s[Len(s)] = <<x[1], "begin">>
            BY <1>1, <2>1
        <3>2. k > 1 /\ Append(s, x)[k - 1] = s[Len(s)]
            BY <2>1, <3>1
        <3> QED  BY <3>1, <3>2
    <2>2. CASE k # Len(s) + 1
        <3>1. k \in DOMAIN s /\ Append(s, x)[k] = s[k]
            BY <1>1, <2>2
        <3>2. k > 1 /\ s[k - 1] = <<s[k][1], "begin">>
            BY <1>1, <3>1 DEF Whole
        <3>3. Append(s, x)[k - 1] = s[k - 1]
            BY <3>1, <3>2
        <3> QED  BY <3>1, <3>2, <3>3
    <2> QED  BY <2>1, <2>2
<1> QED  BY <1>1 DEF Whole

(* What is in a log stays in it.                                           *)
LEMMA AppendKeeps ==
    ASSUME NEW s \in Seq(Piece), NEW x \in Piece, NEW t, EndIn(s, t)
    PROVE  EndIn(Append(s, x), t)
<1>1. PICK k \in DOMAIN s : s[k] = <<t, "end">>  BY DEF EndIn
<1>2. k \in DOMAIN Append(s, x) /\ Append(s, x)[k] = s[k]  BY <1>1
<1> QED  BY <1>1, <1>2 DEF EndIn

LEMMA AppendEnds ==
    ASSUME NEW s \in Seq(Piece), NEW t, <<t, "end">> \in Piece
    PROVE  EndIn(Append(s, <<t, "end">>), t)
<1>1. Len(s) + 1 \in DOMAIN Append(s, <<t, "end">>)  OBVIOUS
<1>2. Append(s, <<t, "end">>)[Len(s) + 1] = <<t, "end">>  OBVIOUS
<1> QED  BY <1>1, <1>2 DEF EndIn

LEMMA ConcatKeeps ==
    ASSUME NEW s \in Seq(Piece), NEW b \in Seq(Piece), NEW t, EndIn(s, t)
    PROVE  EndIn(s \o b, t)
<1>1. PICK k \in DOMAIN s : s[k] = <<t, "end">>  BY DEF EndIn
<1>2. k \in DOMAIN (s \o b) /\ (s \o b)[k] = s[k]  BY <1>1
<1> QED  BY <1>1, <1>2 DEF EndIn

LEMMA AppendNames ==
    ASSUME NEW s \in Seq(Piece), NEW x \in Piece
    PROVE  Names(Append(s, x)) \subseteq Names(s) \cup {x[1]}
<1>1. ASSUME NEW k \in DOMAIN Append(s, x)
      PROVE  Append(s, x)[k][1] \in Names(s) \cup {x[1]}
    <2>1. CASE k = Len(s) + 1  BY <2>1
    <2>2. CASE k # Len(s) + 1
        <3>1. k \in DOMAIN s /\ Append(s, x)[k] = s[k]  BY <1>1, <2>2
        <3> QED  BY <3>1 DEF Names
    <2> QED  BY <2>1, <2>2
<1> QED  BY <1>1 DEF Names

LEMMA ConcatNames ==
    ASSUME NEW s \in Seq(Piece), NEW b \in Seq(Piece)
    PROVE  Names(s \o b) \subseteq Names(s) \cup Names(b)
<1>1. ASSUME NEW k \in DOMAIN (s \o b)
      PROVE  (s \o b)[k][1] \in Names(s) \cup Names(b)
    <2>1. CASE k <= Len(s)
        <3>1. k \in DOMAIN s /\ (s \o b)[k] = s[k]  BY <1>1, <2>1
        <3> QED  BY <3>1 DEF Names
    <2>2. CASE k > Len(s)
        <3>1. k - Len(s) \in DOMAIN b /\ (s \o b)[k] = b[k - Len(s)]  BY <1>1, <2>2
        <3> QED  BY <3>1 DEF Names
    <2> QED  BY <1>1, <2>1, <2>2
<1> QED  BY <1>1 DEF Names

LEMMA ConcatEnds ==
    ASSUME NEW s \in Seq(Piece), NEW b \in Seq(Piece), NEW t, EndIn(b, t)
    PROVE  EndIn(s \o b, t)
<1>1. PICK k \in DOMAIN b : b[k] = <<t, "end">>  BY DEF EndIn
<1>2. Len(s) + k \in DOMAIN (s \o b) /\ (s \o b)[Len(s) + k] = b[k]  BY <1>1
<1> QED  BY <1>1, <1>2 DEF EndIn

LEMMA ConcatType ==
    ASSUME NEW s \in Seq(Piece), NEW b \in Seq(Piece)
    PROVE  s \o b \in Seq(Piece)
OBVIOUS

(* What a failed write leaves: the beginning of the buffer in the file.    *)
LEMMA CutTypes ==
    ASSUME NEW b \in Seq(Piece), NEW k \in 0 .. Len(b)
    PROVE  /\ SubSeq(b, 1, k) \in Seq(Piece) /\ SubSeq(b, k + 1, Len(b)) \in Seq(Piece)
           /\ Names(SubSeq(b, 1, k)) \subseteq Names(b)
           /\ Names(SubSeq(b, k + 1, Len(b))) \subseteq Names(b)
<1>1. /\ SubSeq(b, 1, k) \in Seq(Piece) /\ Len(SubSeq(b, 1, k)) = k
      /\ \A i \in 1 .. k : SubSeq(b, 1, k)[i] = b[i] /\ i \in DOMAIN b
    OBVIOUS
<1>2. /\ SubSeq(b, k + 1, Len(b)) \in Seq(Piece)
      /\ Len(SubSeq(b, k + 1, Len(b))) = Len(b) - k
      /\ \A i \in 1 .. Len(b) - k : SubSeq(b, k + 1, Len(b))[i] = b[k + i] /\ k + i \in DOMAIN b
    OBVIOUS
<1>3. Names(SubSeq(b, 1, k)) \subseteq Names(b)
    BY <1>1 DEF Names
<1>4. Names(SubSeq(b, k + 1, Len(b))) \subseteq Names(b)
    BY <1>2 DEF Names
<1> QED  BY <1>1, <1>2, <1>3, <1>4

LEMMA CutWhole ==
    ASSUME NEW s \in Seq(Piece), NEW b \in Seq(Piece), NEW k \in 0 .. Len(b), Whole(s \o b)
    PROVE  Whole(s \o SubSeq(b, 1, k))
<1> DEFINE c == s \o SubSeq(b, 1, k)
           d == s \o b
<1>1. SubSeq(b, 1, k) \in Seq(Piece)  BY CutTypes
<1>2. c \in Seq(Piece) /\ d \in Seq(Piece)  BY <1>1
<1>3. ASSUME NEW i \in DOMAIN c
      PROVE  i \in DOMAIN d /\ d[i] = c[i] /\ (i > 1 => i - 1 \in DOMAIN c)
    <2>1. Len(SubSeq(b, 1, k)) = k /\ \A j \in 1 .. k : SubSeq(b, 1, k)[j] = b[j]
        OBVIOUS
    <2> QED  BY <1>1, <1>3, <2>1
<1>4. Whole(d)  OBVIOUS
<1> HIDE DEF c, d
<1>5. ASSUME NEW i \in DOMAIN c, c[i][2] = "end"
      PROVE  i > 1 /\ c[i - 1] = <<c[i][1], "begin">>
    <2>1. i \in DOMAIN d /\ d[i] = c[i]  BY <1>3
    <2>2. i > 1 /\ d[i - 1] = <<c[i][1], "begin">>  BY <1>2, <1>4, <1>5, <2>1 DEF Whole
    <2>3. i - 1 \in DOMAIN c  BY <1>3, <2>2
    <2> QED  BY <1>3, <2>2, <2>3
<1>6. Whole(c)  BY ONLY <1>5 DEF Whole
<1> QED  BY <1>6 DEF c

LEMMA Rejoined ==
    ASSUME NEW b \in Seq(Piece), NEW a \in Seq(Piece), NEW r \in Seq(Piece),
           Len(b) = Len(a) + Len(r), \A i \in 1 .. Len(a) : a[i] = b[i],
           \A i \in 1 .. Len(r) : r[i] = b[Len(a) + i]
    PROVE  a \o r = b
<1> DEFINE c == a \o r
<1>1. c \in Seq(Piece) /\ Len(c) = Len(b)  OBVIOUS
<1>2. ASSUME NEW i \in 1 .. Len(c)  PROVE c[i] = b[i]
    <2>1. CASE i <= Len(a)  BY <2>1
    <2>2. CASE i > Len(a)
        <3>1. i - Len(a) \in 1 .. Len(r) /\ Len(a) + (i - Len(a)) = i  BY <2>2
        <3> QED  BY <2>2, <3>1
    <2> QED  BY <2>1, <2>2
<1> HIDE DEF c
<1>3. c = b  BY <1>1, <1>2, SeqEqual
<1> QED  BY <1>3 DEF c

LEMMA CutConcat ==
    ASSUME NEW s \in Seq(Piece), NEW b \in Seq(Piece), NEW k \in 0 .. Len(b)
    PROVE  (s \o SubSeq(b, 1, k)) \o SubSeq(b, k + 1, Len(b)) = s \o b
<1> DEFINE a == SubSeq(b, 1, k)
           r == SubSeq(b, k + 1, Len(b))
<1>1. a \in Seq(Piece) /\ Len(a) = k /\ \A i \in 1 .. k : a[i] = b[i]
    OBVIOUS
<1>2. /\ r \in Seq(Piece) /\ Len(r) = Len(b) - k
      /\ \A i \in 1 .. Len(r) : r[i] = b[k + i]
    OBVIOUS
<1> HIDE DEF a, r
<1>3. Len(b) = Len(a) + Len(r)  BY <1>1, <1>2
<1>4. a \o r = b  BY <1>1, <1>2, <1>3, Rejoined
<1>5. (s \o a) \o r = s \o (a \o r)  BY <1>1, <1>2, ConcatAssociative
<1> QED  BY <1>4, <1>5 DEF a, r

-----------------------------------------------------------------------------
(* Facts of a state in the invariant.                                      *)

OneProcess == \A t, u \in AuditThreads : processOf[t] = processOf[u]

LEMMA PlacesOf ==
    ASSUME RecordTypeOK
    PROVE  /\ processOf \in [AuditThreads -> Processes]
           /\ \A t \in AuditThreads : processOf[t] \in Processes /\ processOf[t] # Unset
           /\ shared \in Seq(Piece) /\ \A p \in Processes : buffer[p] \in Seq(Piece)
           /\ \A p \in Processes : Stream(p) \in Seq(Piece)
           /\ \/ OneProcess
              \/ \A u, v \in AuditThreads : processOf[u] = processOf[v] => u = v
<1>1. processOf \in [AuditThreads -> Processes]
    BY DeploymentAssumption DEF RecordTypeOK, DeploymentAssumption, Processes
<1>2. \A t \in AuditThreads : processOf[t] \in Processes /\ processOf[t] # Unset
    BY <1>1 DEF Processes, Unset
<1>3. shared \in Seq(Piece) /\ \A p \in Processes : buffer[p] \in Seq(Piece)
    BY DEF RecordTypeOK
<1>4. \A p \in Processes : Stream(p) \in Seq(Piece)
    BY <1>3 DEF Stream
<1>5. \/ OneProcess
      \/ \A u, v \in AuditThreads : processOf[u] = processOf[v] => u = v
    BY DeploymentAssumption DEF RecordTypeOK, DeploymentAssumption, OneProcess
<1> QED  BY <1>1, <1>2, <1>3, <1>4, <1>5

(* While a thread has the lock, those that have it too are of its process. *)
LEMMA LockIsOfOneProcess ==
    ASSUME RecordInv, NothingTears, NEW t \in AuditThreads, NEW u \in AuditThreads,
           logging[t] \in Locks, logging[u] \in Locks
    PROVE  processOf[t] = processOf[u]
BY DEF RecordInv, LockIsHeld

(* What another process may have is in the log already.                    *)
LEMMA OthersHaveNothing ==
    ASSUME RecordInv, NothingTears, NEW t \in AuditThreads,
           logging[t] \in Locks \/ OneProcess,
           NEW p \in Processes, p # processOf[t]
    PROVE  buffer[p] = << >>
<1>1. SUFFICES ASSUME buffer[p] # << >>  PROVE FALSE  OBVIOUS
<1>2. PICK u \in AuditThreads :
          processOf[u] = p /\ (logging[u] \in Buffers \/ p \in unwritten)
    BY <1>1 DEF RecordInv, BufferIsInUse
<1>3. ~OneProcess  BY <1>2 DEF OneProcess
<1>4. unwritten = {}  BY <1>3 DEF NothingTears, OneProcess
<1>5. logging[t] \in Locks /\ logging[u] \in Locks
    BY <1>2, <1>3, <1>4 DEF Locks
<1> QED  BY <1>2, <1>5, LockIsOfOneProcess

LEMMA BuffersAreLocked == Buffers \subseteq Locks  BY DEF Locks

(* Inside of fwrite nobody else of the process is.                         *)
LEMMA OneInside ==
    ASSUME RecordInv, NEW t \in AuditThreads, NEW u \in AuditThreads, u # t,
           logging[u] = "fwrite", stdioLock[processOf[t]] \in {t, Unset}
    PROVE  processOf[u] # processOf[t]
BY AuditRecordAssumption DEF RecordInv, FwriteIsAlone

LEMMA RecordInit == InitAuditRecord => RecordInv
<1> SUFFICES ASSUME InitAuditRecord PROVE RecordInv  OBVIOUS
<1> USE DEF InitAuditRecord
<1>1. \A t \in AuditThreads : logging[t] = "idle"  OBVIOUS
<1>2. \A p \in Processes : buffer[p] = << >> /\ Stream(p) = << >>
    BY DEF Processes, Stream
<1>3. RecordTypeOK
    BY DEF RecordTypeOK, LoggingStates, Processes, Unset
<1>4. WriterAsConfigured  BY <1>1 DEF WriterAsConfigured
<1>5. LockIsHeld /\ BufferIsInUse
    BY <1>1, <1>2 DEF LockIsHeld, BufferIsInUse, Locks, Buffers
<1>6. StreamsAreWhole
    <2>1. Whole(<< >>)  BY DEF Whole
    <2> QED  BY <2>1, <1>2 DEF StreamsAreWhole
<1>7. FwriteIsAlone /\ EndIsWritten
    BY <1>1 DEF FwriteIsAlone, EndIsWritten
<1>8. IndexAfterRecord
    <2>1. \A t \in AuditThreads : logging[t] \notin Locks \cup {"index"}
        BY <1>1 DEF Locks, Buffers
    <2>2. Names(shared) = {} /\ \A p \in Processes : Names(buffer[p]) = {}
        BY <1>2 DEF Names
    <2> QED  BY <2>1, <2>2 DEF IndexAfterRecord
<1> QED  BY <1>3, <1>4, <1>5, <1>6, <1>7, <1>8 DEF RecordInv

-----------------------------------------------------------------------------
(* Steps that write nothing: one thread goes on, and the streams stay.     *)

GoesOn(t, next) ==
    /\ logging' = [logging EXCEPT ![t] = next]
    /\ next \in LoggingStates
    /\ UNCHANGED <<auditConf, processOf, shared, buffer, stdioLock, unwritten>>
    /\ unlocked \subseteq unlocked' /\ unlocked' \subseteq AuditThreads
    /\ next \in {"HTTPS", "Parallel", "Serial"} => next = auditConf.type
    /\ next = "index" => auditConf.type = "Parallel"
    /\ logging[t] \notin Buffers /\ next \notin Buffers
    /\ next # "unlock"
    /\ next = "done" /\ auditConf.type # "HTTPS" /\ auditConf.paths # {} => logging[t] = "unlock"
    /\ records' \in [AuditThreads -> {"none", "whole", "part"}] /\ Made \subseteq Made'
    /\ next \in Locks \cup {"index"} /\ auditConf.type = "Parallel" => t \in Made'

LEMMA GoesOnStep ==
    ASSUME RecordInv, NEW t \in AuditThreads, NEW next, GoesOn(t, next), LockIsHeld'
    PROVE  RecordInv'
<1> USE DEF RecordInv, GoesOn
<1>1. \A u \in AuditThreads : logging'[u] = IF u = t THEN next ELSE logging[u]
    BY DEF RecordTypeOK
<1>2. \A p \in Processes : Stream(p)' = Stream(p)
    BY DEF Stream
<1>s. NothingTears' => NothingTears
    BY DEF NothingTears
<1>3. RecordTypeOK'
    BY DEF RecordTypeOK
<1>4. WriterAsConfigured'  BY <1>1 DEF WriterAsConfigured
<1>5. BufferIsInUse'  BY <1>1 DEF BufferIsInUse
<1>6. StreamsAreWhole'  BY <1>2, <1>s DEF StreamsAreWhole
<1>7. processOf \in [AuditThreads -> Processes]  BY PlacesOf
<1>8. FwriteIsAlone'
    <2>1. ASSUME NEW u \in AuditThreads, (logging[u] = "fwrite")'
          PROVE  (/\ stdioLock[processOf[u]] = u
                  /\ NothingTears => EndsWith(Stream(processOf[u]), <<u, "begin">>))'
        <3>1. u # t /\ logging[u] = "fwrite"  BY <1>1, <2>1 DEF Buffers
        <3>2. Stream(processOf[u])' = Stream(processOf[u])  BY <1>2, <1>7
        <3> QED  BY <3>1, <3>2, <1>s DEF FwriteIsAlone, EndsWith
    <2> QED  BY <2>1 DEF FwriteIsAlone
<1>9. EndIsWritten'
    <2>1. ASSUME NEW u \in AuditThreads, processOf[u] \notin unwritten
          PROVE  /\ logging'[u] = "flush" => EndIn(shared, u) \/ EndIn(buffer[processOf[u]], u)
                 /\ logging'[u] = "unlock" => EndIn(shared, u)
                 /\ logging'[u] = "done" /\ auditConf.type # "HTTPS" /\ auditConf.paths # {}
                       => EndIn(shared, u)
        BY <1>1, <2>1 DEF EndIsWritten, Buffers
    <2> QED  BY <2>1 DEF EndIsWritten, EndIn
<1>10. IndexAfterRecord'
    BY <1>1 DEF IndexAfterRecord, Names
<1> QED  BY <1>3, <1>4, <1>5, <1>6, <1>8, <1>9, <1>10

(* Nobody gets among those that hold the lock.                             *)
LEMMA LockStays ==
    ASSUME RecordInv, NEW t \in AuditThreads, NEW next,
           logging' = [logging EXCEPT ![t] = next],
           next \in Locks => logging[t] \in Locks,
           UNCHANGED <<processOf, fileLock>>, NothingTears' => NothingTears
    PROVE  LockIsHeld'
<1>1. \A u \in AuditThreads : logging'[u] \in Locks => logging[u] \in Locks
    BY DEF RecordInv, RecordTypeOK
<1> QED  BY <1>1 DEF RecordInv, LockIsHeld

LEMMA LogTransactionStep ==
    ASSUME RecordInv, NEW t \in AuditThreads, NEW x \in AuditTransactions,
           NEW l \in Modifiers, logTransaction(t, x, l)
    PROVE  RecordInv'
<1> USE DEF logTransaction, LogFileStays
<1>1. PICK next \in {auditConf.type, "left"} : logging' = [logging EXCEPT ![t] = next]
    OBVIOUS
<1>2. auditConf.type \in {"Serial", "Parallel", "HTTPS"}
    BY AuditRecordAssumption DEF RecordInv, RecordTypeOK
<1>3. next \notin Locks \cup {"index", "done"}
    BY <1>1, <1>2 DEF Locks, Buffers
<1>4. GoesOn(t, next)
    <2>1. logging[t] \notin Buffers /\ next \notin Buffers
        BY <1>3, BuffersAreLocked DEF Buffers
    <2>2. next \in LoggingStates
        BY <1>1, <1>2 DEF LoggingStates
    <2>3. next # "unlock"
        BY <1>3 DEF Locks
    <2> QED
        BY <1>1, <1>2, <1>3, <2>1, <2>2, <2>3 DEF GoesOn, RecordInv, RecordTypeOK, Made
<1>5. LockIsHeld'
    BY <1>1, <1>3, LockStays DEF NothingTears
<1> QED  BY <1>4, <1>5, GoesOnStep

LEMMA HttpsWriteStep ==
    ASSUME RecordInv, NEW t \in AuditThreads, httpsWrite(t)
    PROVE  RecordInv'
<1> USE DEF httpsWrite, LogFileStays
<1>1. auditConf.type = "HTTPS"
    BY DEF RecordInv, WriterAsConfigured
<1>2. GoesOn(t, "done")
    BY <1>1 DEF GoesOn, RecordInv, RecordTypeOK, LoggingStates, Buffers, Locks, Made
<1>3. LockIsHeld'
    BY LockStays DEF NothingTears, Locks, Buffers
<1> QED  BY <1>2, <1>3, GoesOnStep

LEMMA ParallelWriteStep ==
    ASSUME RecordInv, NEW t \in AuditThreads, parallelWrite(t)
    PROVE  RecordInv'
<1> USE DEF parallelWrite, LogFileStays
<1>1. PICK next \in {"failed", "done", "index"} :
        /\ logging' = [logging EXCEPT ![t] = next]
        /\ next = "done" => auditConf.paths = {}
        /\ next # "failed" => \E file \in {"whole", "part"} : records' = [records EXCEPT ![t] = file]
        /\ next = "failed" =>
              \/ UNCHANGED records
              \/ \E file \in {"whole", "part"} : records' = [records EXCEPT ![t] = file]
    BY DEF AfterRecord
<1>2. auditConf.type = "Parallel"
    BY DEF RecordInv, WriterAsConfigured
<1>3. GoesOn(t, next)
    <2>1. records' \in [AuditThreads -> {"none", "whole", "part"}] /\ Made \subseteq Made'
        BY <1>1 DEF RecordInv, RecordTypeOK, Made
    <2>2. next = "index" => t \in Made'
        BY <1>1 DEF Made, RecordInv, RecordTypeOK
    <2>3. next \notin Locks /\ next \in LoggingStates /\ logging[t] \notin Buffers
        BY DEF Locks, Buffers, LoggingStates
    <2>4. next \notin Buffers /\ next # "unlock"
        BY DEF Buffers
    <2>5. unlocked' \subseteq AuditThreads  BY DEF RecordInv, RecordTypeOK
    <2> QED  BY <1>1, <1>2, <2>1, <2>2, <2>3, <2>4, <2>5 DEF GoesOn
<1>4. LockIsHeld'
    BY <1>1, LockStays DEF NothingTears, Locks, Buffers
<1> QED  BY <1>3, <1>4, GoesOnStep

(* Whoever has the lock when it is taken is of the process that takes it.  *)
LEMMA LockFileStep ==
    ASSUME RecordInv, NEW t \in AuditThreads, lockFile(t)
    PROVE  RecordInv'
<1> USE DEF lockFile
<1>1. CASE auditConf.paths = {}
    <2>1. GoesOn(t, "failed")
        BY <1>1 DEF GoesOn, RecordInv, RecordTypeOK, LoggingStates, Buffers, Locks, Made
    <2>2. LockIsHeld'
        BY <1>1, LockStays DEF NothingTears, Locks, Buffers
    <2> QED  BY <2>1, <2>2, GoesOnStep
<1>2. CASE auditConf.paths # {}
    <2>1. auditConf.type = "Parallel" => t \in Made
        BY DEF RecordInv, WriterAsConfigured, IndexAfterRecord
    <2>2. logging[t] \notin Buffers
        BY DEF Buffers
    <2>3. GoesOn(t, "locked")
        BY <1>2, <2>1, <2>2
           DEF GoesOn, RecordInv, RecordTypeOK, LoggingStates, Buffers, Locks, Made
    <2>4. \A u \in AuditThreads : processOf[u] # Unset
        BY PlacesOf DEF RecordInv
    <2>5. LockIsHeld'
        <3>1. CASE unlocked' = unlocked \cup {t}
            <4>1. NothingTears' => OneProcess
                BY <3>1 DEF NothingTears, OneProcess
            <4> QED  BY <4>1 DEF LockIsHeld, OneProcess
        <3>2. CASE /\ fileLock \in {Unset, processOf[t]}
                   /\ fileLock' = processOf[t] /\ UNCHANGED unlocked
            BY <1>2, <2>4, <3>2 DEF RecordInv, RecordTypeOK, LockIsHeld, NothingTears
        <3> QED  BY <1>2, <3>1, <3>2
    <2> QED  BY <2>3, <2>5, GoesOnStep
<1> QED  BY <1>1, <1>2

(* The lock of the process is gone with the first thread that gives it     *)
(* back; where other threads have it still, no other process is there.     *)
LEMMA UnlockFileStep ==
    ASSUME RecordInv, NEW t \in AuditThreads, unlockFile(t)
    PROVE  RecordInv'
<1> USE DEF unlockFile
<1>1. PICK next \in {"done", "failed"} :
        /\ logging' = [logging EXCEPT ![t] = next]
        /\ next = "done" <=> logging[t] = "unlock"
    BY DEF RecordInv, RecordTypeOK
<1>2. GoesOn(t, next)
    <2>2. next \in LoggingStates /\ next \notin Locks /\ next # "index"
        BY <1>1 DEF LoggingStates, Locks, Buffers
    <2>3. next \notin Buffers /\ logging[t] \notin Buffers /\ next # "unlock"
        BY <1>1 DEF Buffers
    <2> QED
        BY <1>1, <2>2, <2>3 DEF GoesOn, RecordInv, RecordTypeOK, Made
<1>3. LockIsHeld'
    <2>1. ASSUME NothingTears', NEW u \in AuditThreads, logging'[u] \in Locks
          PROVE  \/ fileLock' = processOf[u]
                 \/ \A v \in AuditThreads : processOf[v] = processOf[u]
        <3>1. u # t /\ logging[u] \in Locks
            BY <1>1, <2>1 DEF RecordInv, RecordTypeOK, Locks, Buffers
        <3>2. logging[t] \in Locks /\ NothingTears  BY <2>1 DEF Locks, NothingTears
        <3>3. processOf[u] = processOf[t]
            BY <3>1, <3>2, LockIsOfOneProcess
        <3> QED  BY <3>1, <3>3, PlacesOf DEF RecordInv, OneProcess
    <2> QED  BY <2>1 DEF LockIsHeld
<1> QED  BY <1>2, <1>3, GoesOnStep

-----------------------------------------------------------------------------
(* Steps that write to the buffer of the process.                          *)

Writes(t, x, next) ==
    /\ logging' = [logging EXCEPT ![t] = next]
    /\ buffer' = [buffer EXCEPT ![processOf[t]] = Append(@, x)]
    /\ UNCHANGED <<auditConf, processOf, records, shared, fileLock, unlocked, unwritten>>
    /\ logging[t] \in Locks /\ next \in Buffers
    /\ x \in Piece /\ x[1] = t
    /\ stdioLock[processOf[t]] \in {t, Unset}

(* The stream of the process gets a piece, and the others stay.            *)
LEMMA WritesToStream ==
    ASSUME RecordInv, NEW t \in AuditThreads, NEW x, NEW next, Writes(t, x, next)
    PROVE  /\ Stream(processOf[t])' = Append(Stream(processOf[t]), x)
           /\ \A p \in Processes : p # processOf[t] => Stream(p)' = Stream(p)
           /\ buffer' \in [Processes -> Seq(Piece)]
           /\ \A p \in Processes : buffer'[p] = IF p = processOf[t] THEN Append(buffer[p], x)
                                                ELSE buffer[p]
<1> USE DEF Writes
<1>1. processOf[t] \in Processes /\ shared \in Seq(Piece)
        /\ buffer[processOf[t]] \in Seq(Piece) /\ buffer \in [Processes -> Seq(Piece)]
    BY PlacesOf DEF RecordInv, RecordTypeOK
<1>2. \A p \in Processes : buffer'[p] = IF p = processOf[t] THEN Append(buffer[p], x)
                                        ELSE buffer[p]
    BY <1>1
<1>3. Stream(processOf[t])' = Append(Stream(processOf[t]), x)
    BY <1>1, <1>2, AppendToConcat DEF Stream
<1>4. \A p \in Processes : p # processOf[t] => Stream(p)' = Stream(p)
    BY <1>1 DEF Stream
<1>5. buffer' \in [Processes -> Seq(Piece)]
    BY <1>1
<1> QED  BY <1>2, <1>3, <1>4, <1>5

(* What a step of fwrite keeps, whatever it writes.                        *)
LEMMA WritesStep ==
    ASSUME RecordInv, NEW t \in AuditThreads, NEW x, NEW next, Writes(t, x, next),
           stdioLock' \in [Processes -> AuditThreads \cup {Unset}],
           NothingTears /\ x[2] = "end" => EndsWith(Stream(processOf[t]), <<t, "begin">>),
           next = "fwrite" => x = <<t, "begin">> /\ stdioLock'[processOf[t]] = t,
           \A p \in Processes : p # processOf[t] => stdioLock'[p] = stdioLock[p],
           next = "flush" => x = <<t, "end">>
    PROVE  RecordInv'
<1>t. /\ processOf[t] \in Processes /\ shared \in Seq(Piece)
      /\ Stream(processOf[t]) \in Seq(Piece) /\ buffer[processOf[t]] \in Seq(Piece)
      /\ processOf \in [AuditThreads -> Processes]
    BY PlacesOf DEF RecordInv
<1>p. /\ UNCHANGED <<auditConf, processOf, records, shared, fileLock, unlocked, unwritten>>
      /\ x \in Piece /\ x[1] = t
    BY DEF Writes
<1>s. NothingTears' <=> NothingTears  BY <1>p DEF NothingTears
<1>1. \A u \in AuditThreads : logging'[u] = IF u = t THEN next ELSE logging[u]
    BY DEF RecordInv, RecordTypeOK, Writes
<1>2. next \in Buffers /\ next \in Locks /\ next \in LoggingStates /\ logging[t] \in Locks
    BY DEF Writes, Locks, LoggingStates
<1>3. RecordTypeOK'
    BY <1>2, WritesToStream DEF RecordInv, RecordTypeOK, Writes
<1>4. WriterAsConfigured'
    <2>1. WriterAsConfigured  BY DEF RecordInv
    <2>2. next \notin {"HTTPS", "Parallel", "Serial", "index"}
        BY <1>2 DEF Buffers
    <2> QED
        BY ONLY <1>1, <1>p, <2>1, <2>2 DEF WriterAsConfigured
<1>5. LockIsHeld'
    BY <1>2, <1>s, LockStays DEF Writes
<1>6. BufferIsInUse'
    <2>1. ASSUME NEW p \in Processes, buffer'[p] # << >>
          PROVE  \E u \in AuditThreads :
                    processOf[u] = p /\ (logging'[u] \in Buffers \/ p \in unwritten)
        <3>1. CASE p = processOf[t]  BY <3>1, <1>1, <1>2
        <3>2. CASE p # processOf[t]
            <4>1. buffer[p] # << >>
                BY <2>1, <3>2, WritesToStream
            <4> QED  BY <4>1, <3>2, <1>1 DEF RecordInv, BufferIsInUse
        <3> QED  BY <3>1, <3>2
    <2> QED  BY <2>1, <1>p DEF BufferIsInUse
<1>7. StreamsAreWhole'
    <2>1. SUFFICES ASSUME NothingTears, NEW p \in Processes  PROVE Whole(Stream(p)')
        BY <1>s DEF StreamsAreWhole, Whole
    <2>2. CASE p = processOf[t]
        <3>1. Whole(Stream(processOf[t]))  BY <2>1, <1>t DEF RecordInv, StreamsAreWhole
        <3>2. Whole(Append(Stream(processOf[t]), x))
            BY <2>1, <3>1, <1>t, <1>p, AppendWhole DEF EndsWith
        <3>3. Stream(p)' = Append(Stream(processOf[t]), x)
            BY <2>2, <1>p, WritesToStream DEF Stream
        <3> QED  BY <3>2, <3>3
    <2>3. CASE p # processOf[t]
        BY <2>1, <2>3, WritesToStream DEF RecordInv, StreamsAreWhole
    <2> QED  BY <2>2, <2>3
<1>8. FwriteIsAlone'
    <2>1. ASSUME NEW u \in AuditThreads, logging'[u] = "fwrite"
          PROVE  (/\ stdioLock[processOf[u]] = u
                  /\ NothingTears => EndsWith(Stream(processOf[u]), <<u, "begin">>))'
        <3>1. CASE u = t
            <4>1. x = <<t, "begin">> /\ stdioLock'[processOf[t]] = t
                BY <2>1, <3>1, <1>1
            <4>2. Stream(processOf[t])' = Append(Stream(processOf[t]), x)
                BY WritesToStream
            <4>3. EndsWith(Append(Stream(processOf[t]), x), x)
                BY <1>t, <1>p DEF EndsWith
            <4> QED  BY <3>1, <4>1, <4>2, <4>3, <1>p DEF EndsWith
        <3>2. CASE u # t
            <4>1. logging[u] = "fwrite" /\ processOf[u] # processOf[t]
                BY <2>1, <3>2, <1>1, OneInside DEF Writes
            <4>2. Stream(processOf[u])' = Stream(processOf[u])
                  /\ stdioLock'[processOf[u]] = stdioLock[processOf[u]]
                BY <4>1, <1>t, <1>p, WritesToStream
            <4> QED  BY <4>1, <4>2, <1>p, <1>s DEF RecordInv, FwriteIsAlone, EndsWith
        <3> QED  BY <3>1, <3>2
    <2> QED  BY <2>1 DEF FwriteIsAlone
<1>9. EndIsWritten'
    <2>1. ASSUME NEW u \in AuditThreads, processOf[u] \notin unwritten
          PROVE  /\ logging'[u] = "flush" => EndIn(shared, u) \/ EndIn(buffer'[processOf[u]], u)
                 /\ logging'[u] = "unlock" => EndIn(shared, u)
                 /\ logging'[u] = "done" /\ auditConf.type # "HTTPS" /\ auditConf.paths # {}
                       => EndIn(shared, u)
        <3>1. CASE u = t
            <4>1. logging'[u] = next /\ next \notin {"unlock", "done"}
                BY <1>1, <1>2, <3>1 DEF Buffers
            <4>2. ASSUME next = "flush"  PROVE EndIn(buffer'[processOf[u]], u)
                <5>1. EndIn(Append(buffer[processOf[t]], x), t)
                    BY <4>2, <1>t, <1>p, AppendEnds
                <5> QED  BY <5>1, <3>1, <1>t, WritesToStream
            <4> QED  BY <4>1, <4>2
        <3>2. CASE u # t
            <4>1. logging'[u] = logging[u]  BY <3>2, <1>1
            <4>2. ASSUME EndIn(buffer[processOf[u]], u)  PROVE EndIn(buffer'[processOf[u]], u)
                <5>1. CASE processOf[u] = processOf[t]
                    <6>1. EndIn(Append(buffer[processOf[t]], x), u)
                        BY <4>2, <5>1, <1>t, <1>p, AppendKeeps
                    <6> QED  BY <5>1, <6>1, <1>t, WritesToStream
                <5>2. CASE processOf[u] # processOf[t]
                    BY <4>2, <5>2, <1>t, WritesToStream
                <5> QED  BY <5>1, <5>2
            <4> QED  BY <2>1, <4>1, <4>2 DEF RecordInv, EndIsWritten
        <3> QED  BY <3>1, <3>2
    <2> QED  BY <2>1, <1>p DEF EndIsWritten, EndIn
<1>10. IndexAfterRecord'
    <2>1. SUFFICES ASSUME auditConf.type = "Parallel"
                   PROVE  /\ \A u \in AuditThreads :
                                logging'[u] \in Locks \cup {"index"} => u \in Made
                          /\ Names(shared) \subseteq Made
                          /\ \A p \in Processes : Names(buffer'[p]) \subseteq Made
        BY <1>p DEF IndexAfterRecord, Made, Names
    <2>2. t \in Made /\ Names(shared) \subseteq Made
        BY <2>1, <1>2 DEF RecordInv, IndexAfterRecord
    <2>3. \A u \in AuditThreads : logging'[u] \in Locks \cup {"index"} => u \in Made
        BY <2>1, <2>2, <1>1 DEF RecordInv, IndexAfterRecord
    <2>4. ASSUME NEW p \in Processes
          PROVE  Names(buffer'[p]) \subseteq Made
        <3>1. Names(buffer[p]) \subseteq Made  BY <2>1 DEF RecordInv, IndexAfterRecord
        <3>2. CASE p = processOf[t]
            <4>1. Names(Append(buffer[p], x)) \subseteq Names(buffer[p]) \cup {t}
                BY <3>2, <1>t, <1>p, AppendNames
            <4> QED  BY <3>1, <3>2, <4>1, <2>2, WritesToStream
        <3>3. CASE p # processOf[t]  BY <3>1, <3>3, WritesToStream
        <3> QED  BY <3>2, <3>3
    <2> QED  BY <2>2, <2>3, <2>4
<1> QED
    BY <1>3, <1>4, <1>5, <1>6, <1>7, <1>8, <1>9, <1>10 DEF RecordInv

LEMMA BeginFwriteStep ==
    ASSUME RecordInv, NEW t \in AuditThreads, beginFwrite(t)
    PROVE  RecordInv'
<1> USE DEF beginFwrite, TakesFile
<1>1. processOf[t] \in Processes  BY PlacesOf DEF RecordInv
<1>2. Writes(t, <<t, "begin">>, "fwrite")
    BY DEF Writes, Piece, Locks, Buffers
<1>3. stdioLock \in [Processes -> AuditThreads \cup {Unset}]
    BY DEF RecordInv, RecordTypeOK
<1>4. /\ stdioLock' \in [Processes -> AuditThreads \cup {Unset}]
      /\ stdioLock'[processOf[t]] = t
      /\ \A p \in Processes : p # processOf[t] => stdioLock'[p] = stdioLock[p]
    BY <1>1, <1>3
<1> QED  BY <1>2, <1>4, WritesStep

LEMMA FullFwriteStep ==
    ASSUME RecordInv, NEW t \in AuditThreads, logging[t] = "fwrite",
           stdioLock' = [stdioLock EXCEPT ![processOf[t]] = Unset],
           buffer' = [buffer EXCEPT ![processOf[t]] = Append(@, <<t, "end">>)],
           logging' = [logging EXCEPT ![t] = "flush"],
           UNCHANGED <<auditConf, processOf, records, shared, fileLock, unlocked, unwritten>>
    PROVE  RecordInv'
<1>1. processOf[t] \in Processes  BY PlacesOf DEF RecordInv
<1>2. /\ stdioLock[processOf[t]] = t
      /\ NothingTears => EndsWith(Stream(processOf[t]), <<t, "begin">>)
    BY DEF RecordInv, FwriteIsAlone
<1>3. Writes(t, <<t, "end">>, "flush")
    BY <1>2 DEF Writes, Piece, Locks, Buffers
<1>4. stdioLock \in [Processes -> AuditThreads \cup {Unset}]
    BY DEF RecordInv, RecordTypeOK
<1>5. /\ stdioLock' \in [Processes -> AuditThreads \cup {Unset}]
      /\ \A p \in Processes : p # processOf[t] => stdioLock'[p] = stdioLock[p]
    BY <1>1, <1>4
<1> QED  BY <1>2, <1>3, <1>5, WritesStep

-----------------------------------------------------------------------------
(* Steps that move the buffer of a process to the file.                    *)

Flushes(t, next) ==
    /\ logging[t] \in Buffers
    /\ BufferToFile(processOf[t])
    /\ logging' = [logging EXCEPT ![t] = next]
    /\ next \in Locks
    /\ UNCHANGED <<auditConf, processOf, records, fileLock, stdioLock, unlocked>>
    /\ \/ logging[t] = next /\ next = "fwrite"
       \/ /\ next \in {"unlock", "unlock short"}
          /\ next = "unlock" => logging[t] = "flush"

(* Where nothing tears, the file is what the process has written.          *)
LEMMA FlushesStream ==
    ASSUME RecordInv, NEW t \in AuditThreads, NEW next, Flushes(t, next)
    PROVE  /\ shared' = Stream(processOf[t]) /\ shared' \in Seq(Piece)
           /\ buffer' \in [Processes -> Seq(Piece)]
           /\ \A p \in Processes : buffer'[p] = IF p = processOf[t] THEN << >> ELSE buffer[p]
           /\ NothingTears => \A p \in Processes : Stream(p)' = Stream(processOf[t])
<1> USE DEF Flushes, BufferToFile
<1>1. /\ processOf[t] \in Processes /\ Stream(processOf[t]) \in Seq(Piece)
      /\ buffer \in [Processes -> Seq(Piece)]
    BY PlacesOf DEF RecordInv, RecordTypeOK
<1>2. shared' = Stream(processOf[t])
    BY DEF Stream
<1>3. /\ buffer' \in [Processes -> Seq(Piece)]
      /\ \A p \in Processes : buffer'[p] = IF p = processOf[t] THEN << >> ELSE buffer[p]
    BY <1>1, NothingIsASequence
<1>4. ASSUME NothingTears, NEW p \in Processes  PROVE Stream(p)' = Stream(processOf[t])
    <2>1. p # processOf[t] => buffer[p] = << >>
        BY <1>4, OthersHaveNothing, BuffersAreLocked
    <2>2. Stream(p)' = Stream(processOf[t]) \o << >>
        BY <1>2, <1>3, <2>1 DEF Stream
    <2> QED  BY <2>2, <1>1, ConcatEmpty
<1> QED  BY <1>1, <1>2, <1>3, <1>4

LEMMA FlushesStep ==
    ASSUME RecordInv, NEW t \in AuditThreads, NEW next, Flushes(t, next)
    PROVE  RecordInv'
<1> USE DEF RecordInv
<1>t. /\ processOf[t] \in Processes /\ Stream(processOf[t]) \in Seq(Piece)
      /\ shared \in Seq(Piece) /\ buffer[processOf[t]] \in Seq(Piece)
      /\ processOf \in [AuditThreads -> Processes]
    BY PlacesOf
<1>p. /\ UNCHANGED <<auditConf, processOf, records, fileLock, stdioLock, unlocked, unwritten>>
      /\ shared' = shared \o buffer[processOf[t]]
    BY DEF Flushes, BufferToFile
<1>1. \A u \in AuditThreads : logging'[u] = IF u = t THEN next ELSE logging[u]
    BY DEF RecordTypeOK, Flushes
<1>2. next \in Locks /\ next \in LoggingStates /\ logging[t] \in Locks
    BY DEF Flushes, Locks, LoggingStates
<1>n. NothingTears' <=> NothingTears  BY <1>p DEF NothingTears
<1>s. /\ shared' = Stream(processOf[t]) /\ shared' \in Seq(Piece)
      /\ buffer' \in [Processes -> Seq(Piece)]
      /\ \A p \in Processes : buffer'[p] = IF p = processOf[t] THEN << >> ELSE buffer[p]
      /\ NothingTears => \A p \in Processes : Stream(p)' = Stream(processOf[t])
    BY FlushesStream
<1>3. RecordTypeOK'
    BY <1>2, <1>s, <1>p DEF RecordTypeOK, Flushes
<1>4. WriterAsConfigured'
    BY <1>1, <1>2, <1>p DEF WriterAsConfigured, Locks, Buffers
<1>5. LockIsHeld'
    BY <1>2, <1>n, LockStays DEF Flushes
<1>6. BufferIsInUse'
    <2>1. ASSUME NEW p \in Processes, buffer'[p] # << >>
          PROVE  \E u \in AuditThreads :
                    processOf[u] = p /\ (logging'[u] \in Buffers \/ p \in unwritten)
        <3>1. p # processOf[t] /\ buffer[p] # << >>  BY <2>1, <1>s
        <3>2. PICK u \in AuditThreads :
                  processOf[u] = p /\ (logging[u] \in Buffers \/ p \in unwritten)
            BY <3>1 DEF BufferIsInUse
        <3> QED  BY <3>1, <3>2, <1>1
    <2> QED  BY <2>1, <1>p DEF BufferIsInUse
<1>7. StreamsAreWhole'
    <2>1. NothingTears => Whole(Stream(processOf[t]))  BY <1>t DEF StreamsAreWhole
    <2>2. NothingTears => \A p \in Processes : Whole(Stream(p)')  BY <2>1, <1>s
    <2> QED  BY ONLY <2>2, <1>n DEF StreamsAreWhole, Whole
<1>8. FwriteIsAlone'
    <2>1. ASSUME NEW u \in AuditThreads, logging'[u] = "fwrite"
          PROVE  (/\ stdioLock[processOf[u]] = u
                  /\ NothingTears => EndsWith(Stream(processOf[u]), <<u, "begin">>))'
        <3>1. logging[u] = "fwrite"
            BY <1>1, <2>1 DEF Flushes
        <3>2. ASSUME NothingTears  PROVE EndsWith(Stream(processOf[u])', <<u, "begin">>)
            <4>1. processOf[u] = processOf[t]
                BY <3>1, <3>2, <1>2, LockIsOfOneProcess DEF Locks, Buffers
            <4>2. Stream(processOf[u])' = Stream(processOf[u])
                BY <3>2, <4>1, <1>s, <1>t, <1>p
            <4> QED  BY <3>1, <3>2, <4>2 DEF FwriteIsAlone, EndsWith
        <3> QED  BY <3>1, <3>2, <1>p, <1>n DEF FwriteIsAlone, EndsWith
    <2> QED  BY <2>1 DEF FwriteIsAlone
<1>9. EndIsWritten'
    <2>1. ASSUME NEW u \in AuditThreads, processOf[u] \notin unwritten
          PROVE  /\ logging'[u] = "flush" => EndIn(shared', u) \/ EndIn(buffer'[processOf[u]], u)
                 /\ logging'[u] = "unlock" => EndIn(shared', u)
                 /\ logging'[u] = "done" /\ auditConf.type # "HTTPS" /\ auditConf.paths # {}
                       => EndIn(shared', u)
        <3>1. EndIn(shared, u) => EndIn(shared', u)
            BY <1>t, <1>p, ConcatKeeps
        <3>2. EndIn(buffer[processOf[u]], u) =>
                  IF processOf[u] = processOf[t] THEN EndIn(shared', u)
                  ELSE EndIn(buffer'[processOf[u]], u)
            BY <1>t, <1>p, <1>s, ConcatEnds
        <3>3. CASE u = t
            <4>1. /\ logging'[u] \notin {"flush", "done"}
                  /\ logging'[u] = "unlock" => logging[u] = "flush"
                BY <3>3, <1>1, <1>2 DEF Flushes, Locks, Buffers
            <4> QED  BY <2>1, <3>1, <3>2, <3>3, <4>1 DEF EndIsWritten
        <3>4. CASE u # t
            <4>1. logging'[u] = logging[u]  BY <3>4, <1>1
            <4> QED  BY <2>1, <3>1, <3>2, <4>1 DEF EndIsWritten
        <3> QED  BY <3>3, <3>4
    <2> QED  BY <2>1, <1>p DEF EndIsWritten, EndIn
<1>10. IndexAfterRecord'
    <2>1. SUFFICES ASSUME auditConf.type = "Parallel"
                   PROVE  /\ \A u \in AuditThreads :
                                logging'[u] \in Locks \cup {"index"} => u \in Made
                          /\ Names(shared') \subseteq Made
                          /\ \A p \in Processes : Names(buffer'[p]) \subseteq Made
        BY <1>p DEF IndexAfterRecord, Made, Names
    <2>2. \A u \in AuditThreads : logging'[u] \in Locks \cup {"index"} => u \in Made
        BY <2>1, <1>1, <1>2 DEF IndexAfterRecord
    <2>3. Names(shared') \subseteq Made
        BY <2>1, <1>p, <1>t, ConcatNames DEF IndexAfterRecord
    <2>4. \A p \in Processes : Names(buffer'[p]) \subseteq Made
        BY <2>1, <1>s DEF IndexAfterRecord, Names
    <2> QED  BY <2>2, <2>3, <2>4
<1> QED  BY <1>3, <1>4, <1>5, <1>6, <1>7, <1>8, <1>9, <1>10

LEMMA SpillStep ==
    ASSUME RecordInv, NEW t \in AuditThreads, spill(t)
    PROVE  RecordInv'
<1>1. logging' = [logging EXCEPT ![t] = "fwrite"]
    BY DEF spill, RecordInv, RecordTypeOK
<1>2. Flushes(t, "fwrite")
    BY <1>1 DEF spill, Flushes, Locks, Buffers
<1> QED  BY <1>2, FlushesStep

-----------------------------------------------------------------------------
(* Steps that lose or delay what a process wrote: among several processes  *)
(* nothing is said of the order of their pieces any more, and in one the   *)
(* beginning of a whole stream is whole.                                   *)

Loses(p, lost) ==
    /\ UNCHANGED <<auditConf, processOf, records, fileLock, unlocked>>
    /\ \A q \in Processes : q # p => buffer'[q] = buffer[q]
    /\ lost \in Seq(Piece)
    /\ shared' \in Seq(Piece) /\ buffer'[p] \in {<< >>, lost}
    /\ \E k \in 0 .. Len(buffer[p]) :
          /\ shared' = shared \o SubSeq(buffer[p], 1, k)
          /\ lost = SubSeq(buffer[p], k + 1, Len(buffer[p]))
    /\ buffer' \in [Processes -> Seq(Piece)]
    /\ unwritten' = unwritten \cup {p}

LEMMA LosesOrder ==
    ASSUME RecordInv, NEW p \in Processes, NEW lost, Loses(p, lost),
           \E t \in AuditThreads : processOf[t] = p
    PROVE  /\ NothingTears' => OneProcess /\ NothingTears
           /\ StreamsAreWhole'
<1>1. NothingTears' => OneProcess /\ NothingTears
    BY DEF Loses, NothingTears, OneProcess
<1>2. PICK t \in AuditThreads : processOf[t] = p  OBVIOUS
<1>3. shared \in Seq(Piece) /\ \A q \in Processes : buffer[q] \in Seq(Piece)
    BY PlacesOf DEF RecordInv
<1>4. SUFFICES ASSUME OneProcess, NothingTears, NEW q \in Processes
               PROVE  Whole(shared' \o buffer'[q])
    BY <1>1 DEF StreamsAreWhole, Stream, Whole
<1>5. Whole(shared \o buffer[p])
    BY <1>4 DEF RecordInv, StreamsAreWhole, Stream
<1>6. PICK k \in 0 .. Len(buffer[p]) :
          /\ shared' = shared \o SubSeq(buffer[p], 1, k)
          /\ lost = SubSeq(buffer[p], k + 1, Len(buffer[p]))
    BY DEF Loses
<1>7. Whole(shared')
    BY <1>3, <1>5, <1>6, CutWhole
<1>8. shared' \o << >> = shared'
    BY ConcatEmpty DEF Loses
<1>9. CASE buffer'[q] = << >>
    BY <1>7, <1>8, <1>9
<1>10. CASE q # p
    <2>1. buffer[q] = << >>  BY <1>2, <1>4, <1>10, OthersHaveNothing
    <2> QED  BY <2>1, <1>9, <1>10 DEF Loses
<1>11. CASE q = p /\ buffer'[q] = lost
    <2>1. shared' \o lost = shared \o buffer[p]
        BY <1>3, <1>6, CutConcat
    <2> QED  BY <2>1, <1>5, <1>11
<1> QED  BY <1>9, <1>10, <1>11 DEF Loses

LEMMA LosesNames ==
    ASSUME RecordInv, NEW p \in Processes, NEW lost, Loses(p, lost)
    PROVE  /\ Names(shared') \subseteq Names(shared) \cup Names(buffer[p])
           /\ \A q \in Processes : Names(buffer'[q]) \subseteq Names(buffer[q])
           /\ \A u : EndIn(shared, u) => EndIn(shared', u)
<1>1. shared \in Seq(Piece) /\ \A q \in Processes : buffer[q] \in Seq(Piece)
    BY PlacesOf DEF RecordInv
<1>2. PICK k \in 0 .. Len(buffer[p]) :
          /\ shared' = shared \o SubSeq(buffer[p], 1, k)
          /\ lost = SubSeq(buffer[p], k + 1, Len(buffer[p]))
    BY DEF Loses
<1>c. PICK c : c = SubSeq(buffer[p], 1, k)  OBVIOUS
<1>3. /\ c \in Seq(Piece) /\ shared' = shared \o c
      /\ Names(c) \subseteq Names(buffer[p])
      /\ Names(lost) \subseteq Names(buffer[p])
    BY <1>1, <1>2, <1>c, CutTypes
<1>4. Names(shared') \subseteq Names(shared) \cup Names(buffer[p])
    BY <1>1, <1>3, ConcatNames
<1>5. Names(<< >>) = {}  BY DEF Names
<1>6. \A q \in Processes : Names(buffer'[q]) \subseteq Names(buffer[q])
    BY <1>3, <1>5 DEF Loses
<1>7. \A u : EndIn(shared, u) => EndIn(shared', u)
    BY <1>1, <1>3, ConcatKeeps
<1> QED  BY <1>4, <1>6, <1>7

(* A thread whose write fails goes on all the same.                        *)
FallsShort(t, next, lost) ==
    /\ logging[t] \in Buffers
    /\ \/ logging[t] = "fwrite" /\ next = "flush short"
       \/ /\ logging[t] # "fwrite" /\ next \in {"unlock", "unlock short"}
          /\ stdioLock[processOf[t]] = Unset
    /\ logging' = [logging EXCEPT ![t] = next]
    /\ stdioLock' = [stdioLock EXCEPT ![processOf[t]] = Unset]
    /\ Loses(processOf[t], lost)

LEMMA FallsShortStep ==
    ASSUME RecordInv, NEW t \in AuditThreads, NEW next, NEW lost, FallsShort(t, next, lost)
    PROVE  RecordInv'
<1> USE DEF RecordInv
<1>t. /\ processOf[t] \in Processes /\ processOf \in [AuditThreads -> Processes]
    BY PlacesOf
<1>p. /\ UNCHANGED <<auditConf, processOf, records, fileLock, unlocked>>
      /\ unwritten' = unwritten \cup {processOf[t]}
      /\ logging[t] \in Buffers /\ Loses(processOf[t], lost)
    BY DEF FallsShort, Loses
<1>1. \A u \in AuditThreads : logging'[u] = IF u = t THEN next ELSE logging[u]
    BY DEF RecordTypeOK, FallsShort
<1>2. next \in Locks /\ next \in LoggingStates /\ logging[t] \in Locks /\ next # "fwrite"
    BY DEF FallsShort, Locks, Buffers, LoggingStates
<1>s. (NothingTears' => OneProcess /\ NothingTears) /\ StreamsAreWhole'
    BY <1>p, <1>t, LosesOrder
<1>3. RecordTypeOK'
    BY <1>t, <1>2, <1>p DEF RecordTypeOK, FallsShort, Loses
<1>4. WriterAsConfigured'
    BY <1>1, <1>2, <1>p DEF WriterAsConfigured, Locks, Buffers
<1>5. LockIsHeld'
    BY <1>2, <1>p, <1>s, LockStays DEF FallsShort
<1>6. BufferIsInUse'
    <2>1. ASSUME NEW q \in Processes, buffer'[q] # << >>
          PROVE  \E u \in AuditThreads :
                    processOf[u] = q /\ (logging'[u] \in Buffers \/ q \in unwritten')
        <3>1. CASE q = processOf[t]  BY <3>1, <1>p
        <3>2. CASE q # processOf[t]
            <4>1. buffer[q] # << >>  BY <2>1, <3>2, <1>p DEF Loses
            <4>2. PICK u \in AuditThreads :
                      processOf[u] = q /\ (logging[u] \in Buffers \/ q \in unwritten)
                BY <4>1 DEF BufferIsInUse
            <4> QED  BY <3>2, <4>2, <1>1, <1>p
        <3> QED  BY <3>1, <3>2
    <2> QED  BY <2>1, <1>p DEF BufferIsInUse
<1>7. FwriteIsAlone'
    <2>1. ASSUME NEW u \in AuditThreads, logging'[u] = "fwrite"
          PROVE  (/\ stdioLock[processOf[u]] = u
                  /\ NothingTears => EndsWith(Stream(processOf[u]), <<u, "begin">>))'
        <3>1. u # t /\ logging[u] = "fwrite"  BY <1>1, <1>2, <2>1
        <3>2. stdioLock[processOf[t]] \in {t, Unset}
            BY DEF FallsShort, FwriteIsAlone
        <3>3. processOf[u] # processOf[t]  BY <3>1, <3>2, OneInside
        <3>4. stdioLock'[processOf[u]] = stdioLock[processOf[u]]
            BY <3>3, <1>t DEF RecordTypeOK, FallsShort
        <3>5. ~NothingTears'  BY <3>3, <1>s DEF OneProcess
        <3> QED  BY <3>1, <3>4, <3>5, <1>p DEF FwriteIsAlone
    <2> QED  BY <2>1 DEF FwriteIsAlone
<1>8. EndIsWritten'
    <2>1. ASSUME NEW u \in AuditThreads, processOf[u] \notin unwritten'
          PROVE  /\ logging'[u] = "flush" => EndIn(shared', u) \/ EndIn(buffer'[processOf[u]], u)
                 /\ logging'[u] = "unlock" => EndIn(shared', u)
                 /\ logging'[u] = "done" /\ auditConf.type # "HTTPS" /\ auditConf.paths # {}
                       => EndIn(shared', u)
        <3>1. processOf[u] # processOf[t] /\ processOf[u] \notin unwritten  BY <2>1, <1>p
        <3>2. logging'[u] = logging[u]  BY <3>1, <1>1
        <3>3. buffer'[processOf[u]] = buffer[processOf[u]]  BY <3>1, <1>t, <1>p DEF Loses
        <3>4. EndIn(shared, u) => EndIn(shared', u)  BY <1>t, <1>p, LosesNames
        <3> QED  BY <3>1, <3>2, <3>3, <3>4 DEF EndIsWritten
    <2> QED  BY <2>1, <1>p DEF EndIsWritten, EndIn
<1>9. IndexAfterRecord'
    <2>1. SUFFICES ASSUME auditConf.type = "Parallel"
                   PROVE  /\ \A u \in AuditThreads :
                                logging'[u] \in Locks \cup {"index"} => u \in Made
                          /\ Names(shared') \subseteq Made
                          /\ \A q \in Processes : Names(buffer'[q]) \subseteq Made
        BY <1>p DEF IndexAfterRecord, Made, Names
    <2>2. \A u \in AuditThreads : logging'[u] \in Locks \cup {"index"} => u \in Made
        BY <2>1, <1>1, <1>2 DEF IndexAfterRecord
    <2>3. Names(shared') \subseteq Made /\ \A q \in Processes : Names(buffer'[q]) \subseteq Made
        BY <2>1, <1>p, <1>t, LosesNames DEF IndexAfterRecord
    <2> QED  BY <2>2, <2>3
<1> QED  BY <1>3, <1>4, <1>5, <1>6, <1>7, <1>8, <1>9, <1>s

(* What a failing write does to the buffer and the file.                   *)
LEMMA CutLoses ==
    ASSUME RecordInv, NEW p \in Processes, NEW k \in 0 .. Len(buffer[p]), NEW rest,
           rest \in {<< >>, SubSeq(buffer[p], k + 1, Len(buffer[p]))},
           shared' = shared \o SubSeq(buffer[p], 1, k),
           buffer' = [buffer EXCEPT ![p] = rest]
    PROVE  /\ \A q \in Processes : q # p => buffer'[q] = buffer[q]
           /\ SubSeq(buffer[p], k + 1, Len(buffer[p])) \in Seq(Piece)
           /\ shared' \in Seq(Piece) /\ buffer'[p] = rest
           /\ buffer' \in [Processes -> Seq(Piece)]
<1>1. /\ shared \in Seq(Piece) /\ buffer[p] \in Seq(Piece)
      /\ buffer \in [Processes -> Seq(Piece)]
    BY PlacesOf DEF RecordInv, RecordTypeOK
<1>2. /\ SubSeq(buffer[p], 1, k) \in Seq(Piece)
      /\ SubSeq(buffer[p], k + 1, Len(buffer[p])) \in Seq(Piece)
    BY <1>1, CutTypes
<1>3. shared' \in Seq(Piece)
    BY <1>1, <1>2, ConcatType
<1>4. rest \in Seq(Piece)
    BY <1>2, NothingIsASequence
<1> QED  BY <1>1, <1>2, <1>3, <1>4

LEMMA WriteFailsLoses ==
    ASSUME RecordInv, NEW p \in Processes, WriteFails(p),
           UNCHANGED <<auditConf, processOf, records, fileLock, unlocked>>
    PROVE  \E lost : Loses(p, lost)
<1>0. PICK k \in 0 .. Len(buffer[p]) :
          /\ shared' = shared \o SubSeq(buffer[p], 1, k)
          /\ \E rest \in {<< >>, SubSeq(buffer[p], k + 1, Len(buffer[p]))} :
                buffer' = [buffer EXCEPT ![p] = rest]
    BY DEF WriteFails
<1>1. PICK rest \in {<< >>, SubSeq(buffer[p], k + 1, Len(buffer[p]))} :
          buffer' = [buffer EXCEPT ![p] = rest]
    BY <1>0
<1>2. PICK lost : lost = SubSeq(buffer[p], k + 1, Len(buffer[p]))  OBVIOUS
<1>3. Loses(p, lost)
    BY <1>0, <1>1, <1>2, CutLoses DEF Loses, WriteFails
<1> QED  BY <1>3

LEMMA EndFwriteStep ==
    ASSUME RecordInv, NEW t \in AuditThreads, endFwrite(t)
    PROVE  RecordInv'
<1>1. CASE logging' = [logging EXCEPT ![t] = "flush short"] /\ WriteFails(processOf[t])
    <2>1. processOf[t] \in Processes  BY PlacesOf DEF RecordInv
    <2>2. PICK lost : Loses(processOf[t], lost)
        BY <1>1, <2>1, WriteFailsLoses DEF endFwrite
    <2>3. FallsShort(t, "flush short", lost)
        BY <1>1, <2>2 DEF FallsShort, endFwrite, Buffers
    <2> QED  BY <2>3, FallsShortStep
<1>2. CASE /\ buffer' = [buffer EXCEPT ![processOf[t]] = Append(@, <<t, "end">>)]
           /\ logging' = [logging EXCEPT ![t] = "flush"]
           /\ UNCHANGED <<shared, unwritten>>
    BY <1>2, FullFwriteStep DEF endFwrite
<1> QED  BY <1>1, <1>2 DEF endFwrite

LEMMA FlushFileStep ==
    ASSUME RecordInv, NEW t \in AuditThreads, flushFile(t)
    PROVE  RecordInv'
<1>1. PICK next \in {"unlock", "unlock short"} :
        /\ logging' = [logging EXCEPT ![t] = next]
        /\ next = "unlock" => logging[t] = "flush"
    BY DEF flushFile, RecordInv, RecordTypeOK
<1>2. CASE BufferToFile(processOf[t])
    <2>1. Flushes(t, next)
        BY <1>1, <1>2 DEF flushFile, Flushes, Locks, Buffers
    <2> QED  BY <2>1, FlushesStep
<1>3. CASE WriteFails(processOf[t])
    <2>1. processOf[t] \in Processes  BY PlacesOf DEF RecordInv
    <2>2. PICK lost : Loses(processOf[t], lost)
        BY <1>3, <2>1, WriteFailsLoses DEF flushFile
    <2>3. stdioLock' = [stdioLock EXCEPT ![processOf[t]] = Unset]
        BY <2>1 DEF flushFile, RecordInv, RecordTypeOK
    <2>4. FallsShort(t, next, lost)
        BY <1>1, <2>2, <2>3 DEF FallsShort, flushFile, Buffers
    <2> QED  BY <2>4, FallsShortStep
<1> QED  BY <1>2, <1>3 DEF flushFile

(* A buffer that is not empty when its threads are done is one that a      *)
(* write failed to empty.                                                  *)
LEMMA CloseFileStep ==
    ASSUME RecordInv, NEW p \in Processes, closeFile(p)
    PROVE  RecordInv'
<1> USE DEF RecordInv
<1>1. PICK t \in AuditThreads : processOf[t] = p /\ p \in unwritten
    BY DEF closeFile, BufferIsInUse, Buffers
<1>p. UNCHANGED <<auditConf, processOf, logging, records, fileLock, stdioLock, unlocked, unwritten>>
    BY DEF closeFile
<1>2. PICK k \in 0 .. Len(buffer[p]) : shared' = shared \o SubSeq(buffer[p], 1, k)
    BY DEF closeFile
<1>3. PICK lost : lost = SubSeq(buffer[p], k + 1, Len(buffer[p]))  OBVIOUS
<1>4. unwritten' = unwritten \cup {p}
    BY <1>1, <1>p
<1>5. /\ \A q \in Processes : q # p => buffer'[q] = buffer[q]
      /\ lost \in Seq(Piece)
      /\ shared' \in Seq(Piece) /\ buffer'[p] = << >>
      /\ buffer' \in [Processes -> Seq(Piece)]
    <2>1. buffer' = [buffer EXCEPT ![p] = << >>]  BY DEF closeFile
    <2> QED  BY <1>2, <1>3, <2>1, CutLoses
<1>6. Loses(p, lost)
    BY <1>2, <1>3, <1>4, <1>5, <1>p DEF Loses
<1>s. (NothingTears' => OneProcess /\ NothingTears) /\ StreamsAreWhole'
    BY <1>1, <1>6, LosesOrder
<1>7. RecordTypeOK' /\ WriterAsConfigured' /\ LockIsHeld'
    BY <1>5, <1>p, <1>s DEF RecordTypeOK, WriterAsConfigured, LockIsHeld
<1>8. BufferIsInUse'
    BY <1>5, <1>p DEF BufferIsInUse
<1>9. FwriteIsAlone'
    <2>1. ASSUME NEW u \in AuditThreads, logging[u] = "fwrite"  PROVE ~NothingTears'
        <3>1. processOf[u] # p  BY <2>1 DEF closeFile
        <3> QED  BY <3>1, <1>1, <1>s DEF OneProcess
    <2> QED  BY <2>1, <1>p DEF FwriteIsAlone
<1>10. EndIsWritten'
    <2>1. ASSUME NEW u \in AuditThreads, processOf[u] \notin unwritten
          PROVE  /\ processOf[u] \in Processes
                 /\ buffer'[processOf[u]] = buffer[processOf[u]]
                 /\ EndIn(shared, u) => EndIn(shared', u)
        BY <2>1, <1>1, <1>5, <1>6, LosesNames, PlacesOf
    <2> QED  BY <2>1, <1>p DEF EndIsWritten, EndIn
<1>11. IndexAfterRecord'
    <2>1. ASSUME auditConf.type = "Parallel"
          PROVE  /\ Names(shared') \subseteq Made
                 /\ \A q \in Processes : Names(buffer'[q]) \subseteq Made
        BY <2>1, <1>6, LosesNames DEF IndexAfterRecord
    <2> QED  BY <2>1, <1>p DEF IndexAfterRecord, Made, Names
<1> QED  BY <1>7, <1>8, <1>9, <1>10, <1>11, <1>s

-----------------------------------------------------------------------------
LEMMA RecordNext == RecordInv /\ [NextAuditRecord]_auditRecordVars => RecordInv'
<1> SUFFICES ASSUME RecordInv, [NextAuditRecord]_auditRecordVars
             PROVE  RecordInv'
    OBVIOUS
<1>1. CASE UNCHANGED auditRecordVars
    <2>1. UNCHANGED <<auditConf, processOf, logging, records, shared, buffer, fileLock,
                      stdioLock, unlocked, unwritten>>
        BY <1>1 DEF auditRecordVars
    <2>2. (RecordTypeOK /\ WriterAsConfigured)'
        BY <2>1 DEF RecordInv, RecordTypeOK, WriterAsConfigured
    <2>3. (LockIsHeld /\ BufferIsInUse)'
        BY <2>1 DEF RecordInv, LockIsHeld, BufferIsInUse, NothingTears
    <2>4. (StreamsAreWhole /\ FwriteIsAlone)'
        BY <2>1 DEF RecordInv, StreamsAreWhole, FwriteIsAlone, Whole, Stream, EndsWith, NothingTears
    <2>5. EndIsWritten'
        BY <2>1 DEF RecordInv, EndIsWritten, EndIn
    <2>6. IndexAfterRecord'
        BY <2>1 DEF RecordInv, IndexAfterRecord, Names, Made
    <2> QED  BY <2>2, <2>3, <2>4, <2>5, <2>6 DEF RecordInv
<1>2. ASSUME NEW t \in AuditThreads,
             \/ \E x \in AuditTransactions, l \in Modifiers : logTransaction(t, x, l)
             \/ httpsWrite(t) \/ parallelWrite(t)
             \/ lockFile(t) \/ beginFwrite(t) \/ spill(t) \/ endFwrite(t)
             \/ flushFile(t) \/ unlockFile(t)
      PROVE  RecordInv'
    BY <1>2, LogTransactionStep, HttpsWriteStep, ParallelWriteStep, LockFileStep,
       BeginFwriteStep, SpillStep, EndFwriteStep, FlushFileStep, UnlockFileStep
<1>3. ASSUME NEW t \in AuditThreads, closeFile(processOf[t])  PROVE RecordInv'
    <2>1. processOf[t] \in Processes  BY PlacesOf DEF RecordInv
    <2> QED  BY <1>3, <2>1, CloseFileStep
<1> QED  BY <1>1, <1>2, <1>3 DEF NextAuditRecord

LEMMA WholeStreamsArrive == RecordInv => RecordsArrive
<1> SUFFICES ASSUME RecordInv PROVE RecordsArrive  OBVIOUS
<1> USE DEF RecordInv
<1>1. ASSUME NEW i \in DOMAIN shared
      PROVE  /\ i \in DOMAIN Stream("p1") /\ Stream("p1")[i] = shared[i]
             /\ i > 1 => Stream("p1")[i - 1] = shared[i - 1]
    <2>1. shared \in Seq(Piece) /\ buffer["p1"] \in Seq(Piece)
        BY DEF RecordTypeOK, Processes
    <2> QED  BY <2>1 DEF Stream
<1>2. RecordsAreWhole
    <2>1. ASSUME NothingTears, NEW i \in DOMAIN shared, shared[i][2] = "end"
          PROVE  i > 1 /\ shared[i - 1] = <<shared[i][1], "begin">>
        <3>1. i \in DOMAIN Stream("p1") /\ Stream("p1")[i] = shared[i]  BY <1>1
        <3>2. i > 1 /\ Stream("p1")[i - 1] = <<shared[i][1], "begin">>
            BY <2>1, <3>1 DEF StreamsAreWhole, Processes, Whole
        <3> QED  BY <3>2, <1>1
    <2>2. ASSUME NEW t \in AuditThreads, logging[t] = "done", auditConf.type # "HTTPS",
                 auditConf.paths # {}
          PROVE  \/ \E i \in DOMAIN shared : shared[i] = <<t, "end">>
                 \/ processOf[t] \in unwritten
        BY <2>2 DEF EndIsWritten, EndIn
    <2> QED  BY <2>1, <2>2 DEF RecordsAreWhole
<1>3. IndexNamesRecords
    <2>1. SUFFICES ASSUME auditConf.type = "Parallel", NEW i \in DOMAIN shared
                   PROVE  records[shared[i][1]] # "none"
        BY DEF IndexNamesRecords
    <2>2. shared[i][1] \in Names(shared)  BY DEF Names
    <2> QED  BY <2>1, <2>2 DEF IndexAfterRecord, Made
<1> QED  BY <1>2, <1>3 DEF RecordsArrive

(* Whatever threads of one process, or processes of one thread each, log   *)
(* at the same time through SharedFiles::write, in whatever order fcntl,   *)
(* the lock of the FILE and the spilling of its buffer let them go on, and *)
(* whatever call of the system fails: the threads of one process never     *)
(* tear each other's records, nor do processes as long as no lock was      *)
(* refused and no write failed; a record or line of the index that was     *)
(* reported as written is there unless a write of its process failed; and  *)
(* every line of the index names a file that was made.                     *)
THEOREM RecordsArriveWhole == SpecAuditRecord => []RecordsArrive
<1>1. InitAuditRecord => RecordInv  BY RecordInit
<1>2. RecordInv /\ [NextAuditRecord]_auditRecordVars => RecordInv'  BY RecordNext
<1>3. RecordInv => RecordsArrive  BY WholeStreamsArrive
<1> QED  BY <1>1, <1>2, <1>3, PTL DEF SpecAuditRecord

-----------------------------------------------------------------------------
(* The table of open files: what each operation of SharedFiles, and each   *)
(* writer, adds to the count of a path and takes from it.                  *)

Table(h) ==
    /\ DOMAIN h \subseteq Paths
    /\ \A p \in DOMAIN h : h[p] \in Nat \ {0}

Count(h, q) == IF q \in DOMAIN h THEN h[q] ELSE 0
One(b)      == IF b THEN 1 ELSE 0

LEMMA CountType ==
    ASSUME NEW h, Table(h), NEW q
    PROVE  /\ Count(h, q) \in Nat
           /\ Count(h, q) = 0 <=> q \notin DOMAIN h
BY DEF Table, Count

LEMMA OneType == \A b \in BOOLEAN : One(b) \in {0, 1} /\ (One(b) = 1 <=> b)
BY DEF One

LEMMA OpenCounts ==
    ASSUME NEW h, Table(h), NEW p \in Path, NEW bad
    PROVE  /\ Open(h, p, bad).ok \in BOOLEAN
           /\ Table(Open(h, p, bad).h)
           /\ \A q \in Paths :
                Count(Open(h, p, bad).h, q) = Count(h, q) + One(Open(h, p, bad).ok /\ q = p)
           /\ ~Open(h, p, bad).ok => /\ Open(h, p, bad).h = h /\ p \notin DOMAIN h
                                     /\ p = Empty \/ p \in bad
           /\ p \in DOMAIN h => Open(h, p, bad).ok
<1>1. CASE p \in DOMAIN h
    <2>1. Open(h, p, bad) = [ok |-> TRUE, h |-> [h EXCEPT ![p] = @ + 1]]
        BY <1>1 DEF Open
    <2> QED  BY <1>1, <2>1 DEF Table, Count, One
<1>2. CASE p \notin DOMAIN h /\ (p = Empty \/ p \in bad)
    <2>1. Open(h, p, bad) = [ok |-> FALSE, h |-> h]
        BY <1>2 DEF Open
    <2> QED  BY <1>2, <2>1, CountType DEF One
<1>3. CASE p \notin DOMAIN h /\ ~(p = Empty \/ p \in bad)
    <2> DEFINE made == [q \in DOMAIN h \cup {p} |-> IF q = p THEN 1 ELSE h[q]]
    <2>1. Open(h, p, bad) = [ok |-> TRUE, h |-> made]
        BY <1>3 DEF Open
    <2>2. p \in Paths  BY <1>3 DEF Path
    <2>3. Table(made)
        BY <2>2 DEF Table
    <2>4. \A q \in Paths : Count(made, q) = Count(h, q) + One(q = p)
        BY <1>3 DEF Table, Count, One
    <2> HIDE DEF made
    <2> QED  BY <1>3, <2>1, <2>3, <2>4
<1> QED  BY <1>1, <1>2, <1>3

LEMMA CloseCounts ==
    ASSUME NEW h, Table(h), NEW p
    PROVE  /\ Table(Close(h, p))
           /\ \A q \in Paths :
                Count(Close(h, p), q) = Count(h, q) - One(q = p /\ q \in DOMAIN h)
           /\ p \notin DOMAIN h => Close(h, p) = h
<1>1. CASE p \notin DOMAIN h
    <2>1. Close(h, p) = h  BY <1>1 DEF Close
    <2> QED  BY <1>1, <2>1, CountType DEF One
<1>2. CASE p \in DOMAIN h /\ h[p] = 1
    <2>1. Close(h, p) = [q \in DOMAIN h \ {p} |-> h[q]]
        BY <1>2 DEF Close, Restrict
    <2> QED  BY <1>2, <2>1 DEF Table, Count, One
<1>3. CASE p \in DOMAIN h /\ h[p] # 1
    <2>1. Close(h, p) = [h EXCEPT ![p] = @ - 1]
        BY <1>3 DEF Close
    <2> QED  BY <1>3, <2>1 DEF Table, Count, One
<1> QED  BY <1>1, <1>2, <1>3

Writers   == {"null", "Serial", "Parallel", "Https"}
LogRecord == [alive : BOOLEAN, path1 : Path, path2 : Path, dir : BOOLEAN, type : Types,
              status : Status, ctl : BOOLEAN, writer : Writers, debug : Path]

(* The uses of a file by a writer of a log.                                *)
First(l, w, q)  == w \in {"Serial", "Parallel"} /\ l.path1 = q
Second(l, w, q) == w = "Parallel" /\ l.path2 = q
HeldBy(l, w, q) == One(First(l, w, q)) + One(Second(l, w, q))

LEMMA HeldType == \A l, w, q : HeldBy(l, w, q) \in 0..2
BY DEF HeldBy, First, Second, One

LEMMA NoEmptyPath == ASSUME NEW h, Table(h)  PROVE Empty \notin DOMAIN h
BY AuditLogAssumption DEF Table

(* The destructor of a writer takes away what the writer holds.            *)
LEMMA DestroyCounts ==
    ASSUME NEW h, Table(h), NEW l, NEW w,
           \A q \in Paths : HeldBy(l, w, q) <= Count(h, q)
    PROVE  /\ Table(Destroy(h, l, w))
           /\ \A q \in Paths : Count(Destroy(h, l, w), q) = Count(h, q) - HeldBy(l, w, q)
<1>1. CASE w = "Serial"
    <2>1. Destroy(h, l, w) = Close(h, l.path1)  BY <1>1 DEF Destroy
    <2>2. ASSUME NEW q \in Paths
          PROVE  Count(Close(h, l.path1), q) = Count(h, q) - HeldBy(l, w, q)
        <3>1. HeldBy(l, w, q) = One(l.path1 = q)
            BY <1>1 DEF HeldBy, First, Second, One
        <3>2. l.path1 = q => q \in DOMAIN h
            BY <3>1, CountType DEF One
        <3> QED  BY <3>1, <3>2, CloseCounts DEF One
    <2> QED  BY <2>1, <2>2, CloseCounts
<1>2. CASE w = "Parallel"
    <2> DEFINE one == Close(h, l.path1)
    <2>1. Destroy(h, l, w) = Close(one, l.path2)  BY <1>2 DEF Destroy
    <2>2. Table(one) /\ Table(Close(one, l.path2))  BY CloseCounts
    <2>3. ASSUME NEW q \in Paths
          PROVE  Count(Close(one, l.path2), q) = Count(h, q) - HeldBy(l, w, q)
        <3>1. HeldBy(l, w, q) = One(l.path1 = q) + One(l.path2 = q)
            BY <1>2 DEF HeldBy, First, Second
        <3>2. Count(one, q) = Count(h, q) - One(q = l.path1 /\ q \in DOMAIN h)
            BY CloseCounts
        <3>3. Count(Close(one, l.path2), q) = Count(one, q) - One(q = l.path2 /\ q \in DOMAIN one)
            BY <2>2, CloseCounts
        <3>4. /\ Count(h, q) \in Nat /\ (Count(h, q) = 0 <=> q \notin DOMAIN h)
              /\ Count(one, q) \in Nat /\ (Count(one, q) = 0 <=> q \notin DOMAIN one)
            BY <2>2, CountType
        <3>5. HeldBy(l, w, q) <= Count(h, q)  OBVIOUS
        <3> HIDE DEF one
        <3> QED  BY ONLY <3>1, <3>2, <3>3, <3>4, <3>5 DEF One
    <2> QED  BY <2>1, <2>2, <2>3
<1>3. CASE w \notin {"Serial", "Parallel"}
    <2>1. Destroy(h, l, w) = h  BY <1>3 DEF Destroy
    <2>2. \A q : HeldBy(l, w, q) = 0  BY <1>3 DEF HeldBy, First, Second, One
    <2> QED  BY <2>1, <2>2, CountType
<1> QED  BY <1>1, <1>2, <1>3

(* A path of Parallel::init, which may be empty.                           *)
Opened(h, p, bad, o) ==
    /\ o.ok \in BOOLEAN /\ Table(o.h)
    /\ o.ok => \A q \in Paths : Count(o.h, q) = Count(h, q) + One(p = q)
    /\ ~o.ok => o.h = h /\ p \notin DOMAIN h /\ (p = Empty \/ p \in bad)

LEMMA OpenedCounts ==
    ASSUME NEW h, Table(h), NEW p \in Path, NEW bad, NEW o,
           \/ o = Open(h, p, bad)
           \/ p = Empty /\ o.ok = TRUE /\ o.h = h
    PROVE  Opened(h, p, bad, o)
<1>1. CASE o = Open(h, p, bad)
    <2>1. \A q \in Paths : Count(o.h, q) = Count(h, q) + One(o.ok /\ q = p)
        BY <1>1, OpenCounts
    <2>2. o.ok => \A q \in Paths : Count(o.h, q) = Count(h, q) + One(p = q)
        BY <2>1 DEF One
    <2> QED  BY <1>1, <2>2, OpenCounts DEF Opened
<1>2. CASE p = Empty /\ o.ok = TRUE /\ o.h = h
    <2>1. \A q \in Paths : Count(o.h, q) = Count(h, q) + One(p = q)
        BY <1>2, CountType, AuditLogAssumption DEF One
    <2> QED  BY <1>2, <2>1 DEF Opened
<1> QED  BY <1>1, <1>2

(* A writer that is initialised has opened what it holds; of one that is   *)
(* not the destructor closes what was opened, unless init stopped at its   *)
(* first path while another log has the second one.                        *)
WriterMade(h, l, w, bad, made) ==
    /\ made.ok \in BOOLEAN /\ Table(made.h)
    /\ made.ok => \A q \in Paths : Count(made.h, q) = Count(h, q) + HeldBy(l, w, q)
    /\ ~made.ok => Table(Destroy(made.h, l, w))
    /\ ~made.ok /\ ~(w = "Parallel" /\ StopsAtFirst(h, l, bad)) =>
         \A q \in Paths : Count(Destroy(made.h, l, w), q) = Count(h, q)

LEMMA SerialInitCounts ==
    ASSUME NEW h, Table(h), NEW l \in LogRecord, NEW bad, NEW made,
           made = Open(h, l.path1, bad)
    PROVE  WriterMade(h, l, "Serial", bad, made)
<1>p. l.path1 \in Path  BY DEF LogRecord
<1>1. Opened(h, l.path1, bad, made)  BY <1>p, OpenedCounts
<1>2. \A q : HeldBy(l, "Serial", q) = One(l.path1 = q)
    BY DEF HeldBy, First, Second, One
<1>3. ASSUME ~made.ok  PROVE Destroy(made.h, l, "Serial") = h
    BY <1>1, <1>3, CloseCounts DEF Opened, Destroy
<1> QED  BY <1>1, <1>2, <1>3 DEF WriterMade, Opened

LEMMA ParallelInitCounts ==
    ASSUME NEW h, Table(h), NEW l \in LogRecord, NEW bad, NEW mkdirFails \in BOOLEAN,
           NEW made, made = ParallelInit(h, l, bad, mkdirFails)
    PROVE  WriterMade(h, l, "Parallel", bad, made)
<1>p. l.path1 \in Path /\ l.path2 \in Path /\ l.dir \in BOOLEAN  BY DEF LogRecord
<1>a. PICK first :
        first = IF l.path1 = Empty THEN [ok |-> TRUE, h |-> h] ELSE Open(h, l.path1, bad)
    OBVIOUS
<1>b. PICK second :
        second = IF l.path2 = Empty THEN first ELSE Open(first.h, l.path2, bad)
    OBVIOUS
<1>1. made = IF ~first.ok THEN first
             ELSE IF ~second.ok THEN second
             ELSE [second EXCEPT !.ok = ~(l.dir /\ mkdirFails)]
    BY <1>a, <1>b DEF ParallelInit
<1>2. \A q : HeldBy(l, "Parallel", q) = One(l.path1 = q) + One(l.path2 = q)
    BY DEF HeldBy, First, Second
<1>3. \A g : Destroy(g, l, "Parallel") = Close(Close(g, l.path1), l.path2)
    BY DEF Destroy
<1>4. Opened(h, l.path1, bad, first)
    BY <1>p, <1>a, OpenedCounts
<1>5. CASE ~first.ok
    <2>1. made = first /\ made.h = h /\ l.path1 \notin DOMAIN h
        BY <1>1, <1>4, <1>5 DEF Opened
    <2>0. made.ok = FALSE  BY <1>4, <1>5, <2>1 DEF Opened
    <2>2. Destroy(made.h, l, "Parallel") = Close(h, l.path2)
        BY <1>3, <2>1, CloseCounts
    <2>3. l.path1 \in bad \/ l.path1 = Empty  BY <1>4, <1>5 DEF Opened
    <2>4. l.path1 # Empty  BY <1>a, <1>5
    <2>5. ~StopsAtFirst(h, l, bad) => Close(h, l.path2) = h
        BY <2>1, <2>3, <2>4, CloseCounts DEF StopsAtFirst
    <2>6. Table(Close(h, l.path2))  BY CloseCounts
    <2> QED  BY <2>0, <2>1, <2>2, <2>5, <2>6 DEF WriterMade
<1>6. CASE first.ok
    <2>1. Table(first.h)
          /\ \A q \in Paths : Count(first.h, q) = Count(h, q) + One(l.path1 = q)
        BY <1>4, <1>6 DEF Opened
    <2>2. Opened(first.h, l.path2, bad, second)
        <3>1. \/ second = Open(first.h, l.path2, bad)
              \/ l.path2 = Empty /\ second.ok = TRUE /\ second.h = first.h
            BY <1>a, <1>b, <1>4, <1>6 DEF Opened
        <3> QED  BY <1>p, <2>1, <3>1, OpenedCounts
    <2>3. CASE ~second.ok
        <3>1. made = second /\ made.h = first.h /\ l.path2 \notin DOMAIN first.h
            BY <1>1, <1>6, <2>2, <2>3 DEF Opened
        <3>0. made.ok = FALSE  BY <2>2, <2>3, <3>1 DEF Opened
        <3>2. PICK one : one = Close(first.h, l.path1)  OBVIOUS
        <3>3. /\ Table(one)
              /\ \A q \in Paths :
                    Count(one, q) = Count(first.h, q) - One(q = l.path1 /\ q \in DOMAIN first.h)
            BY <2>1, <3>2, CloseCounts
        <3>4. ASSUME NEW q \in Paths  PROVE Count(one, q) = Count(h, q)
            <4>1. /\ Count(h, q) \in Nat /\ Count(first.h, q) \in Nat
                  /\ Count(first.h, q) = 0 <=> q \notin DOMAIN first.h
                BY <2>1, CountType
            <4> QED  BY <2>1, <3>3, <4>1 DEF One
        <3>5. l.path2 \notin DOMAIN one
            <4>1. SUFFICES ASSUME l.path2 \in DOMAIN one  PROVE FALSE  OBVIOUS
            <4>2. l.path2 \in Paths /\ Count(one, l.path2) # 0
                BY <3>3, <4>1, CountType DEF Table
            <4>3. Count(first.h, l.path2) = 0
                BY <3>1, <2>1, CountType
            <4> QED  BY <4>2, <4>3, <3>3, <3>1 DEF One
        <3>6. Destroy(made.h, l, "Parallel") = one
            BY <1>3, <3>1, <3>2, <3>3, <3>5, CloseCounts
        <3> QED  BY <2>1, <3>0, <3>1, <3>3, <3>4, <3>6 DEF WriterMade
    <2>4. CASE second.ok
        <3>1. made.h = second.h /\ made.ok \in BOOLEAN
            <4>1. made = [second EXCEPT !.ok = ~(l.dir /\ mkdirFails)]
                BY <1>1, <1>6, <2>4
            <4>2. second = [ok |-> second.ok, h |-> second.h]
                BY <1>a, <1>b DEF Open
            <4> QED  BY <4>1, <4>2
        <3>2. Table(second.h)
              /\ \A q \in Paths : Count(second.h, q) = Count(first.h, q) + One(l.path2 = q)
            BY <2>2, <2>4 DEF Opened
        <3>3. ASSUME NEW q \in Paths
              PROVE  /\ Count(second.h, q) = Count(h, q) + HeldBy(l, "Parallel", q)
                     /\ HeldBy(l, "Parallel", q) <= Count(second.h, q)
            <4>1. Count(h, q) \in Nat  BY CountType
            <4> QED  BY <1>2, <2>1, <3>2, <4>1 DEF One
        <3>4. /\ Table(Destroy(second.h, l, "Parallel"))
              /\ \A q \in Paths : Count(Destroy(second.h, l, "Parallel"), q)
                    = Count(second.h, q) - HeldBy(l, "Parallel", q)
            BY <3>2, <3>3, DestroyCounts
        <3>5. ASSUME NEW q \in Paths
              PROVE  Count(Destroy(second.h, l, "Parallel"), q) = Count(h, q)
            <4>1. Count(h, q) \in Nat /\ HeldBy(l, "Parallel", q) \in 0..2
                BY CountType, HeldType
            <4> QED  BY <3>3, <3>4, <4>1
        <3> QED  BY <3>1, <3>2, <3>3, <3>4, <3>5 DEF WriterMade
    <2> QED  BY <2>2, <2>3, <2>4 DEF Opened
<1> QED  BY <1>4, <1>5, <1>6 DEF Opened

LEMMA InitCounts ==
    ASSUME NEW h, Table(h), NEW l \in LogRecord, NEW w, NEW bad, NEW mkdirFails \in BOOLEAN
    PROVE  WriterMade(h, l, w, bad, WriterInit(h, l, w, bad, mkdirFails))
<1>1. CASE w = "Serial"
    BY <1>1, SerialInitCounts DEF WriterInit
<1>2. CASE w = "Parallel"
    BY <1>2, ParallelInitCounts DEF WriterInit
<1>3. CASE w \notin {"Serial", "Parallel"}
    <2>1. WriterInit(h, l, w, bad, mkdirFails) = [ok |-> TRUE, h |-> h]
        BY <1>3 DEF WriterInit
    <2>2. \A q : HeldBy(l, w, q) = 0  BY <1>3 DEF HeldBy, First, Second, One
    <2> QED  BY <2>1, <2>2, CountType DEF WriterMade
<1> QED  BY <1>1, <1>2, <1>3

LEMMA DestroyTable ==
    ASSUME NEW h, Table(h), NEW l, NEW w
    PROVE  Table(Destroy(h, l, w))
<1>1. Table(Close(h, l.path1)) /\ Table(Close(Close(h, l.path1), l.path2))
    BY CloseCounts
<1>2. Destroy(h, l, w) \in {h, Close(h, l.path1), Close(Close(h, l.path1), l.path2)}
    BY DEF Destroy
<1> QED  BY <1>1, <1>2

Watched(l) == l.status \in {"On", "RelevantOnly"} \/ l.ctl

(* What AuditLog::init does to the table and to its log.                   *)
InitDone(h, l, bad, r) ==
    /\ r.ok \in BOOLEAN /\ Table(r.h)
    /\ \E w \in Writers : r.l = [l EXCEPT !.writer = w]
    /\ r.ok /\ Watched(l) => r.l.writer # "null"
    /\ (\A q \in Paths : HeldBy(l, l.writer, q) <= Count(h, q)) =>
           \/ ~r.ok /\ WriterOf(l) = "Parallel" /\ StopsAtFirst(h, l, bad)
           \/ \A q \in Paths : Count(r.h, q)
                = (Count(h, q) - HeldBy(l, l.writer, q)) + HeldBy(l, r.l.writer, q)

LEMMA InitIsDone ==
    ASSUME NEW h, Table(h), NEW l \in LogRecord, NEW bad, NEW mkdirFails \in BOOLEAN,
           NEW r, r = init(h, l, bad, mkdirFails)
    PROVE  InitDone(h, l, bad, r)
<1>l. l = [l EXCEPT !.writer = l.writer] /\ l.writer \in Writers /\ l.status \in Status
      /\ l.ctl \in BOOLEAN
    BY DEF LogRecord
<1>w. WriterOf(l) \in Writers \ {"null"}  BY DEF WriterOf, Writers
<1>d. /\ Table(Destroy(h, l, l.writer))
      /\ (\A q \in Paths : HeldBy(l, l.writer, q) <= Count(h, q)) =>
            \A q \in Paths : Count(Destroy(h, l, l.writer), q)
                = Count(h, q) - HeldBy(l, l.writer, q)
    BY DestroyTable, DestroyCounts
<1>n. \A q \in Paths : /\ Count(h, q) \in Nat
                       /\ \A w : HeldBy(l, w, q) \in 0..2
    BY CountType, HeldType
<1>1. CASE l.status \in {"Off", "NotSet"} /\ ~l.ctl
    <2>1. r = [ok |-> TRUE, h |-> Destroy(h, l, l.writer), l |-> [l EXCEPT !.writer = "null"]]
        BY <1>1 DEF init
    <2>2. r.l.writer = "null" /\ "null" \in Writers
        BY <2>1 DEF LogRecord, Writers
    <2>3. \A q : HeldBy(l, "null", q) = 0  BY DEF HeldBy, First, Second, One
    <2>4. ~Watched(l)  BY <1>1 DEF Watched
    <2>5. (\A q \in Paths : HeldBy(l, l.writer, q) <= Count(h, q)) =>
            \A q \in Paths : Count(r.h, q)
                = (Count(h, q) - HeldBy(l, l.writer, q)) + HeldBy(l, r.l.writer, q)
        BY <2>1, <2>2, <2>3, <1>d, <1>n
    <2> QED  BY <2>1, <2>2, <2>4, <2>5, <1>d DEF InitDone
<1>2. CASE ~(l.status \in {"Off", "NotSet"} /\ ~l.ctl)
    <2>m. PICK made : made = WriterInit(h, l, WriterOf(l), bad, mkdirFails)  OBVIOUS
    <2>w. WriterMade(h, l, WriterOf(l), bad, made)  BY <2>m, InitCounts
    <2>1. CASE ~made.ok
        <3>1. r = [ok |-> FALSE, h |-> Destroy(made.h, l, WriterOf(l)), l |-> l]
            BY <1>2, <2>m, <2>1 DEF init
        <3>2. Table(r.h)  BY <2>w, <2>1, <3>1 DEF WriterMade
        <3>3. ~(WriterOf(l) = "Parallel" /\ StopsAtFirst(h, l, bad)) =>
                \A q \in Paths : Count(r.h, q) = Count(h, q)
            BY <2>w, <2>1, <3>1 DEF WriterMade
        <3>4. \A q \in Paths :
                Count(h, q) = (Count(h, q) - HeldBy(l, l.writer, q)) + HeldBy(l, l.writer, q)
            BY <1>n
        <3>5. r.ok = FALSE /\ r.l = l  BY <3>1
        <3> QED  BY <3>2, <3>3, <3>4, <3>5, <1>l DEF InitDone
    <2>2. CASE made.ok
        <3>1. r = [ok |-> TRUE, h |-> Destroy(made.h, l, l.writer),
                   l |-> [l EXCEPT !.writer = WriterOf(l)]]
            BY <1>2, <2>m, <2>2 DEF init
        <3>2. \A q \in Paths : Count(made.h, q) = Count(h, q) + HeldBy(l, WriterOf(l), q)
            BY <2>w, <2>2 DEF WriterMade
        <3>3. Table(made.h)  BY <2>w DEF WriterMade
        <3>4. r.l.writer = WriterOf(l)  BY <3>1, <1>w DEF LogRecord
        <3>5. ASSUME \A q \in Paths : HeldBy(l, l.writer, q) <= Count(h, q)
              PROVE  \A q \in Paths : Count(r.h, q)
                        = (Count(h, q) - HeldBy(l, l.writer, q)) + HeldBy(l, r.l.writer, q)
            <4>1. \A q \in Paths : HeldBy(l, l.writer, q) <= Count(made.h, q)
                BY <3>2, <3>5, <1>n
            <4>2. \A q \in Paths : Count(Destroy(made.h, l, l.writer), q)
                    = Count(made.h, q) - HeldBy(l, l.writer, q)
                BY <3>3, <4>1, DestroyCounts
            <4> QED  BY <3>1, <3>2, <3>4, <4>2, <1>n
        <3>6. Table(r.h)  BY <3>1, <3>3, DestroyTable
        <3> QED  BY <3>1, <3>4, <3>5, <3>6, <1>w DEF InitDone
    <2> QED  BY <2>1, <2>2
<1> QED  BY <1>1, <1>2

UsesOf(l, q) == HeldBy(l, l.writer, q) + One(l.debug = q)

Conf(f) ==
    /\ f.path1 \in Path /\ f.path2 \in Path /\ f.debug \in Path
    /\ f.dir \in BOOLEAN /\ f.ctl \in BOOLEAN
    /\ f.type \in Types /\ f.status \in Status

LEMMA MergedConfKeeps ==
    ASSUME NEW l \in LogRecord, NEW f, Conf(f)
    PROVE  LET c == MergedConf(l, f)
           IN  /\ c \in LogRecord
               /\ c.alive = l.alive /\ c.writer = l.writer /\ c.debug = l.debug
<1>1. PICK p1 \in Path, p2 \in Path, d \in BOOLEAN, t \in Types, s \in Status, e \in BOOLEAN :
        MergedConf(l, f) = [l EXCEPT !.path1 = p1, !.path2 = p2, !.dir = d, !.type = t,
                                     !.status = s, !.ctl = e]
    <2>1. /\ Over(l.path1, f.path1, Empty) \in Path /\ Over(l.path2, f.path2, Empty) \in Path
          /\ (l.dir \/ f.dir) \in BOOLEAN /\ Over(l.type, f.type, "NotSet") \in Types
          /\ Over(l.status, f.status, "NotSet") \in Status /\ (l.ctl \/ f.ctl) \in BOOLEAN
        BY DEF LogRecord, Conf, Over
    <2> QED  BY <2>1 DEF MergedConf
<1> QED  BY <1>1 DEF LogRecord

(* What mergeProperties does to the table and to the log.  The debug log   *)
(* named by "from" is open already: by the Driver, or by the other set.    *)
MergeDone(h, l, f, bad, m) ==
    /\ m.ok \in BOOLEAN /\ Table(m.h)
    /\ m.l \in LogRecord /\ m.l.alive = l.alive
    /\ m.ok /\ Watched(m.l) => m.l.writer # "null"
    /\ (\A q \in Paths : UsesOf(l, q) + One(f.debug = q) <= Count(h, q)) =>
           \/ Slips(l, m, h, bad)
           \/ \A q \in Paths : Count(m.h, q) = (Count(h, q) - UsesOf(l, q)) + UsesOf(m.l, q)

LEMMA MergeIsDone ==
    ASSUME NEW h, Table(h), NEW l \in LogRecord, NEW f, Conf(f), NEW bad,
           NEW mkdirFails \in BOOLEAN, NEW m, m = mergeLogs(h, l, f, bad, mkdirFails)
    PROVE  MergeDone(h, l, f, bad, m)
<1>c. PICK c : c = MergedConf(l, f)  OBVIOUS
<1>a. PICK audit : audit = init(h, c, bad, mkdirFails)  OBVIOUS
<1>1. /\ c \in LogRecord /\ c.alive = l.alive /\ c.writer = l.writer /\ c.debug = l.debug
      /\ f.debug \in Path
    BY <1>c, MergedConfKeeps DEF Conf
<1>2. InitDone(h, c, bad, audit)
    BY <1>1, <1>a, InitIsDone
<1>3. PICK w \in Writers : audit.l = [c EXCEPT !.writer = w]
    BY <1>2 DEF InitDone
<1>4. /\ audit.l \in LogRecord /\ audit.l.writer = w
      /\ audit.l.alive = l.alive /\ audit.l.debug = l.debug
      /\ audit.l.path1 = c.path1 /\ audit.l.path2 = c.path2 /\ audit.l.type = c.type
      /\ audit.l.status = c.status /\ audit.l.ctl = c.ctl
    BY <1>1, <1>3 DEF LogRecord
<1>5. audit.ok /\ Watched(audit.l) => audit.l.writer # "null"
    BY <1>2, <1>4 DEF InitDone, Watched
<1>n. \A q \in Paths : /\ Count(h, q) \in Nat /\ One(f.debug = q) \in {0, 1}
                       /\ One(l.debug = q) \in {0, 1}
                       /\ \A k, v : HeldBy(k, v, q) \in 0..2
    BY CountType, HeldType DEF One
(* The audit log, by itself.                                               *)
<1>6. ASSUME NEW r, r.l.path1 = c.path1, r.l.path2 = c.path2, r.l.type = c.type,
             ~audit.ok => r.ok = FALSE,
             ~Slips(l, r, h, bad),
             \A q \in Paths : UsesOf(l, q) + One(f.debug = q) <= Count(h, q)
      PROVE  \A q \in Paths :
                Count(audit.h, q) = (Count(h, q) - HeldBy(l, l.writer, q)) + HeldBy(audit.l, w, q)
    <2>1. \A q : HeldBy(c, c.writer, q) = HeldBy(l, l.writer, q)
        <3>1. /\ l.writer \in {"Serial", "Parallel"} => l.path1 = c.path1
              /\ l.writer = "Parallel" => l.path2 = c.path2
            BY <1>6 DEF Slips
        <3> QED  BY <3>1, <1>1 DEF HeldBy, First, Second
    <2>2. \A q : HeldBy(c, w, q) = HeldBy(audit.l, w, q)
        BY <1>4 DEF HeldBy, First, Second
    <2>3. ~(~audit.ok /\ WriterOf(c) = "Parallel" /\ StopsAtFirst(h, c, bad))
        BY <1>6 DEF Slips, WriterOf, StopsAtFirst
    <2>4. \A q \in Paths : HeldBy(c, c.writer, q) <= Count(h, q)
        BY <1>6, <1>n, <2>1 DEF UsesOf
    <2>5. \A q \in Paths : Count(audit.h, q)
                = (Count(h, q) - HeldBy(c, c.writer, q)) + HeldBy(c, audit.l.writer, q)
        BY <1>2, <2>3, <2>4 DEF InitDone
    <2> QED  BY <2>1, <2>2, <2>5, <1>4
<1>7. CASE ~audit.ok \/ f.debug = Empty \/ audit.l.debug # Empty
    <2>1. m = audit
        BY <1>7, <1>a, <1>c DEF mergeLogs, merge
    <2>2. ASSUME \A q \in Paths : UsesOf(l, q) + One(f.debug = q) <= Count(h, q),
                 ~Slips(l, m, h, bad)
          PROVE  \A q \in Paths : Count(m.h, q) = (Count(h, q) - UsesOf(l, q)) + UsesOf(m.l, q)
        <3>1. \A q \in Paths :
                Count(audit.h, q) = (Count(h, q) - HeldBy(l, l.writer, q)) + HeldBy(audit.l, w, q)
            BY <1>2, <1>4, <1>6, <2>1, <2>2 DEF InitDone
        <3> QED  BY <1>n, <1>4, <2>1, <3>1 DEF UsesOf
    <2> QED  BY <1>2, <1>4, <1>5, <2>1, <2>2 DEF MergeDone, InitDone
<1>8. CASE audit.ok /\ f.debug # Empty /\ audit.l.debug = Empty
    <2>d. PICK debug : debug = Open(audit.h, f.debug, bad)  OBVIOUS
    <2>1. m = [ok |-> debug.ok, h |-> debug.h, l |-> [audit.l EXCEPT !.debug = f.debug]]
        BY <1>8, <1>a, <1>c, <2>d DEF mergeLogs, merge
    <2>2. /\ m.l \in LogRecord /\ m.l.alive = l.alive /\ m.l.writer = w /\ m.l.debug = f.debug
          /\ m.l.path1 = c.path1 /\ m.l.path2 = c.path2 /\ m.l.type = c.type
          /\ m.l.status = c.status /\ m.l.ctl = c.ctl
        BY <1>1, <1>4, <2>1 DEF LogRecord
    <2>3. Table(audit.h) /\ audit.ok = TRUE  BY <1>2, <1>8 DEF InitDone
    <2>4. /\ debug.ok \in BOOLEAN /\ Table(debug.h)
          /\ \A q \in Paths : Count(debug.h, q) = Count(audit.h, q) + One(debug.ok /\ q = f.debug)
          /\ f.debug \in DOMAIN audit.h => debug.ok
        <3>1. PICK g, p : g = audit.h /\ p = f.debug  OBVIOUS
        <3>2. Table(g) /\ p \in Path /\ debug = Open(g, p, bad)  BY <1>1, <2>d, <2>3, <3>1
        <3>3. /\ debug.ok \in BOOLEAN /\ Table(debug.h)
              /\ \A q \in Paths : Count(debug.h, q) = Count(g, q) + One(debug.ok /\ q = p)
              /\ p \in DOMAIN g => debug.ok
            BY <3>2, OpenCounts
        <3> QED  BY <3>1, <3>3
    <2>5. ASSUME \A q \in Paths : UsesOf(l, q) + One(f.debug = q) <= Count(h, q),
                 ~Slips(l, m, h, bad)
          PROVE  \A q \in Paths : Count(m.h, q) = (Count(h, q) - UsesOf(l, q)) + UsesOf(m.l, q)
        <3>1. \A q \in Paths :
                Count(audit.h, q) = (Count(h, q) - HeldBy(l, l.writer, q)) + HeldBy(audit.l, w, q)
            BY <1>6, <2>2, <2>3, <2>5
        <3>2. f.debug \in Paths  BY <1>1, <1>8 DEF Path
        <3>3. Count(audit.h, f.debug) # 0
            <4>1. UsesOf(l, f.debug) + 1 <= Count(h, f.debug)
                BY <2>5, <3>2 DEF One
            <4>2. /\ UsesOf(l, f.debug) = HeldBy(l, l.writer, f.debug) + One(l.debug = f.debug)
                  /\ One(l.debug = f.debug) \in {0, 1} /\ Count(h, f.debug) \in Nat
                  /\ HeldBy(l, l.writer, f.debug) \in 0..2 /\ HeldBy(audit.l, w, f.debug) \in 0..2
                BY <1>n, <3>2 DEF UsesOf
            <4> QED  BY <3>1, <3>2, <4>1, <4>2
        <3>4. debug.ok = TRUE
            BY <2>3, <2>4, <3>3, CountType
        <3>5. \A q \in Paths : l.debug # q
            BY <1>4, <1>8, AuditLogAssumption
        <3>6. \A q : HeldBy(audit.l, w, q) = HeldBy(m.l, w, q)
            BY <1>4, <2>2 DEF HeldBy, First, Second
        <3>7. ASSUME NEW q \in Paths
              PROVE  Count(m.h, q) = (Count(h, q) - UsesOf(l, q)) + UsesOf(m.l, q)
            <4>1. UsesOf(l, q) = HeldBy(l, l.writer, q)
                BY <1>n, <3>5 DEF UsesOf, One
            <4>2. UsesOf(m.l, q) = HeldBy(audit.l, w, q) + One(f.debug = q)
                BY <2>2, <3>6 DEF UsesOf
            <4>3. Count(m.h, q) = Count(audit.h, q) + One(f.debug = q)
                BY <2>1, <2>4, <3>4 DEF One
            <4> QED  BY <4>1, <4>2, <4>3, <3>1, <1>n
        <3> QED  BY <3>7
    <2>6. m.ok /\ Watched(m.l) => m.l.writer # "null"
        BY <1>4, <1>5, <2>2, <2>3 DEF Watched
    <2> QED  BY <2>1, <2>2, <2>4, <2>5, <2>6 DEF MergeDone
<1> QED  BY <1>7, <1>8

-----------------------------------------------------------------------------
(* The uses of a path, as a sum of those of one log and those of others.   *)

LogsTypeOK ==
    /\ Table(handlers)
    /\ log \in [RuleSets -> LogRecord]
    /\ slipped \in BOOLEAN
    /\ broken \in [RuleSets -> BOOLEAN]

Others(q, r) == {u \in Uses(q) : u[1] # r}

LEMMA UsesMembers ==
    \A q, u : u \in Uses(q) <=>
        \E s \in Alive :
            \/ u = <<s, "path1">> /\ First(log[s], log[s].writer, q)
            \/ u = <<s, "path2">> /\ Second(log[s], log[s].writer, q)
            \/ u = <<s, "debug">> /\ log[s].debug = q
BY DEF Uses, First, Second

LEMMA AddIf ==
    ASSUME NEW S, IsFiniteSet(S), NEW x, x \notin S, NEW c \in BOOLEAN
    PROVE  LET T == IF c THEN S \cup {x} ELSE S
           IN  IsFiniteSet(T) /\ Cardinality(T) = Cardinality(S) + One(c)
BY FS_AddElement, FS_CardinalityType DEF One

LEMMA UsesAreFinite == ASSUME NEW q  PROVE IsFiniteSet(Uses(q))
<1>1. IsFiniteSet({"path1", "path2", "debug"})
    <2>1. IsFiniteSet({"path1"})  BY FS_Singleton
    <2>2. IsFiniteSet({"path1"} \cup {"path2"})  BY <2>1, FS_AddElement
    <2>3. IsFiniteSet(({"path1"} \cup {"path2"}) \cup {"debug"})  BY <2>2, FS_AddElement
    <2>4. ({"path1"} \cup {"path2"}) \cup {"debug"} = {"path1", "path2", "debug"}  OBVIOUS
    <2> QED  BY <2>3, <2>4
<1>2. IsFiniteSet(RuleSets \X {"path1", "path2", "debug"})
    BY <1>1, AuditLogAssumption, FS_Product
<1>3. Uses(q) \subseteq RuleSets \X {"path1", "path2", "debug"}
    BY DEF Uses, Alive
<1> QED  BY <1>2, <1>3, FS_Subset

LEMMA UsesAreASum ==
    ASSUME LogsTypeOK, NEW q \in Paths, NEW r \in Alive
    PROVE  /\ Cardinality(Others(q, r)) \in Nat
           /\ Cardinality(Uses(q)) = Cardinality(Others(q, r)) + UsesOf(log[r], q)
           /\ UsesOf(log[r], q) \in 0..3
<1> DEFINE a == First(log[r], log[r].writer, q)
           b == Second(log[r], log[r].writer, q)
           c == log[r].debug = q
           S0 == Others(q, r)
           S1 == IF a THEN S0 \cup {<<r, "path1">>} ELSE S0
           S2 == IF b THEN S1 \cup {<<r, "path2">>} ELSE S1
           S3 == IF c THEN S2 \cup {<<r, "debug">>} ELSE S2
<1>1. IsFiniteSet(S0)
    BY UsesAreFinite, FS_Subset DEF Others
<1>2. <<r, "path1">> \notin S0 /\ <<r, "path2">> \notin S1 /\ <<r, "debug">> \notin S2
    BY DEF Others
<1>3. Uses(q) = S3
    <2>1. ASSUME NEW u, u \in Uses(q)  PROVE u \in S3
        <3>1. PICK s \in Alive :
                \/ u = <<s, "path1">> /\ First(log[s], log[s].writer, q)
                \/ u = <<s, "path2">> /\ Second(log[s], log[s].writer, q)
                \/ u = <<s, "debug">> /\ log[s].debug = q
            BY <2>1, UsesMembers
        <3>2. CASE s = r  BY <3>1, <3>2
        <3>3. CASE s # r
            <4>1. u[1] = s  BY <3>1
            <4>2. u \in S0  BY <2>1, <3>3, <4>1 DEF Others
            <4> QED  BY <4>2
        <3> QED  BY <3>2, <3>3
    <2>2. a => <<r, "path1">> \in Uses(q)  BY UsesMembers
    <2>3. b => <<r, "path2">> \in Uses(q)  BY UsesMembers
    <2>4. c => <<r, "debug">> \in Uses(q)  BY UsesMembers
    <2>5. S0 \subseteq Uses(q)  BY DEF Others
    <2> HIDE DEF S0, a, b, c
    <2> QED  BY <2>1, <2>2, <2>3, <2>4, <2>5
<1>4. a \in BOOLEAN /\ b \in BOOLEAN /\ c \in BOOLEAN
    BY DEF First, Second
<1>5. UsesOf(log[r], q) = (One(a) + One(b)) + One(c)
    BY DEF UsesOf, HeldBy
<1> HIDE DEF a, b, c, S0
<1>6. IsFiniteSet(S1) /\ Cardinality(S1) = Cardinality(S0) + One(a)
    BY <1>1, <1>2, <1>4, AddIf
<1> HIDE DEF S1
<1>7. IsFiniteSet(S2) /\ Cardinality(S2) = Cardinality(S1) + One(b)
    BY <1>2, <1>4, <1>6, AddIf
<1> HIDE DEF S2
<1>8. IsFiniteSet(S3) /\ Cardinality(S3) = Cardinality(S2) + One(c)
    BY <1>2, <1>4, <1>7, AddIf
<1>9. Cardinality(S0) \in Nat  BY <1>1, FS_CardinalityType
<1>10. Cardinality(Uses(q)) = Cardinality(S0) + UsesOf(log[r], q)
       /\ UsesOf(log[r], q) \in 0..3
    BY <1>3, <1>5, <1>6, <1>7, <1>8, <1>9, <1>4, OneType
<1> QED  BY <1>9, <1>10 DEF S0

SumsUp ==
    \A q \in Paths : \A r \in Alive :
        /\ Cardinality(Others(q, r)) \in Nat
        /\ Cardinality(Uses(q)) = Cardinality(Others(q, r)) + UsesOf(log[r], q)
        /\ UsesOf(log[r], q) \in 0..3

LEMMA UsesSumUp == LogsTypeOK => SumsUp
BY UsesAreASum DEF SumsUp

(* The debug log of another rule set is among the other uses.              *)
LEMMA DebugIsAUse ==
    ASSUME LogsTypeOK, NEW q \in Paths, NEW r \in Alive, NEW s \in Alive \ {r}
    PROVE  One(log[s].debug = q) <= Cardinality(Others(q, r))
<1>1. IsFiniteSet(Others(q, r))  BY UsesAreFinite, FS_Subset DEF Others
<1>2. Cardinality(Others(q, r)) \in Nat  BY <1>1, FS_CardinalityType
<1>3. CASE log[s].debug = q
    <2>1. <<s, "debug">> \in Uses(q)  BY <1>3, UsesMembers
    <2>2. <<s, "debug">> \in Others(q, r)  BY <2>1 DEF Others
    <2>3. Cardinality(Others(q, r)) # 0  BY <1>1, <2>2, FS_EmptySet
    <2> QED  BY <1>2, <2>3 DEF One
<1>4. CASE log[s].debug # q  BY <1>2, <1>4 DEF One
<1> QED  BY <1>3, <1>4

(* A step that changes one log leaves the uses of the others.              *)
LEMMA OthersStay ==
    ASSUME LogsTypeOK, NEW q, NEW r \in Alive, NEW l \in LogRecord,
           log' = [log EXCEPT ![r] = l]
    PROVE  /\ Others(q, r)' = Others(q, r)
           /\ ~l.alive => Uses(q)' = Others(q, r)
<1>1. \A s \in RuleSets : log'[s] = IF s = r THEN l ELSE log[s]
    BY DEF LogsTypeOK, Alive
<1>2. \A s : s # r => (s \in Alive' <=> s \in Alive)
    BY <1>1 DEF Alive
<1>3. \A s \in Alive : s # r => log'[s] = log[s]
    BY <1>1 DEF Alive
<1>4. \A u : u \in Uses(q)' <=>
        \E s \in Alive' :
            \/ u = <<s, "path1">> /\ First(log'[s], log'[s].writer, q)
            \/ u = <<s, "path2">> /\ Second(log'[s], log'[s].writer, q)
            \/ u = <<s, "debug">> /\ log'[s].debug = q
    BY DEF Uses, First, Second
<1>5. ASSUME NEW u, u[1] # r  PROVE u \in Uses(q)' <=> u \in Uses(q)
    BY <1>2, <1>3, <1>4, <1>5, UsesMembers
<1>6. Others(q, r)' = Others(q, r)
    BY <1>5 DEF Others
<1>7. ASSUME ~l.alive  PROVE Uses(q)' = Others(q, r)
    <2>1. r \notin Alive'  BY <1>1, <1>7 DEF Alive
    <2>2. \A u \in Uses(q)' : u[1] # r  BY <1>4, <2>1
    <2> QED  BY <1>5, <2>2 DEF Others
<1> QED  BY <1>6, <1>7

-----------------------------------------------------------------------------
LogsInv == LogsTypeOK /\ FilesAreCounted /\ WriterIsThere

Counted == \A p \in Paths : Cardinality(Uses(p)) = Count(handlers, p)

LEMMA CountedAgain == FilesAreCounted <=> (~slipped => Counted)
BY DEF FilesAreCounted, Counted, Count

LEMMA LogsInit == InitAudit => LogsInv
<1> SUFFICES ASSUME InitAudit PROVE LogsInv  OBVIOUS
<1> USE DEF InitAudit
<1>1. NewLog \in LogRecord
    BY DEF NewLog, LogRecord, Path, Types, Status, Writers
<1>2. LogsTypeOK
    <2>1. DOMAIN handlers = {}  OBVIOUS
    <2>2. Table(handlers)  BY <2>1 DEF Table
    <2> QED  BY <1>1, <2>2 DEF LogsTypeOK
<1>3. \A r \in Alive : /\ log[r] = NewLog /\ log[r].writer = "null" /\ log[r].debug = Empty
                       /\ ~Watched(log[r])
    BY DEF NewLog, Alive, Watched
<1>4. FilesAreCounted
    <2>1. ASSUME NEW p \in Paths, NEW u \in Uses(p)  PROVE FALSE
        <3>1. PICK r \in Alive :
                \/ First(log[r], log[r].writer, p) \/ Second(log[r], log[r].writer, p)
                \/ log[r].debug = p
            BY <2>1, UsesMembers
        <3> QED  BY <1>3, <3>1, AuditLogAssumption DEF First, Second
    <2>2. ASSUME NEW p \in Paths
          PROVE  Cardinality(Uses(p)) = IF p \in DOMAIN handlers THEN handlers[p] ELSE 0
        <3>1. Uses(p) = {}  BY <2>1
        <3>2. Cardinality(Uses(p)) = 0  BY <3>1, FS_EmptySet
        <3>3. DOMAIN handlers = {}  OBVIOUS
        <3> QED  BY <3>2, <3>3
    <2> QED  BY <2>2 DEF FilesAreCounted
<1>5. WriterIsThere
    BY <1>3 DEF WriterIsThere, Watched
<1> QED  BY <1>2, <1>4, <1>5 DEF LogsInv

(* A merge into the log of r, given a table in which everything that is in *)
(* use is counted, and the debug log it brings along once more.            *)
LEMMA MergeKeepsLogs ==
    ASSUME LogsInv, NEW r \in Alive, NEW h, Table(h), NEW f, Conf(f), NEW bad,
           NEW mkdirFails \in BOOLEAN, NEW m, m = mergeLogs(h, log[r], f, bad, mkdirFails),
           Merge(r, h, f, bad, mkdirFails),
           ~slipped => \A q \in Paths :
               One(f.debug = q) + UsesOf(log[r], q) <= Count(h, q)
    PROVE  /\ Table(m.h)
           /\ log' \in [RuleSets -> LogRecord]
           /\ slipped' \in BOOLEAN /\ broken' \in [RuleSets -> BOOLEAN]
           /\ WriterIsThere'
           /\ slipped => slipped'
           /\ r \in Alive' /\ log'[r] = m.l
           /\ \A q \in Paths : Others(q, r)' = Others(q, r)
           /\ ~slipped' => \A q \in Paths :
                Count(m.h, q) = (Count(h, q) - UsesOf(log[r], q)) + UsesOf(m.l, q)
<1> USE DEF LogsInv
<1>t. /\ LogsTypeOK /\ r \in RuleSets /\ log[r] \in LogRecord /\ log[r].alive
      /\ log \in [RuleSets -> LogRecord] /\ broken \in [RuleSets -> BOOLEAN]
      /\ slipped \in BOOLEAN
    BY DEF LogsTypeOK, Alive
<1>m. /\ log' = [log EXCEPT ![r] = m.l]
      /\ broken' = [broken EXCEPT ![r] = ~m.ok]
      /\ slipped' = (slipped \/ Slips(log[r], m, h, bad))
    BY DEF Merge
<1>1. MergeDone(h, log[r], f, bad, m)
    BY <1>t, MergeIsDone
<1>2. m.l \in LogRecord /\ m.l.alive /\ m.ok \in BOOLEAN /\ Table(m.h)
    BY <1>1, <1>t DEF MergeDone
<1>3. log' \in [RuleSets -> LogRecord] /\ broken' \in [RuleSets -> BOOLEAN]
      /\ slipped' \in BOOLEAN
    BY <1>m, <1>t, <1>2
<1>4. \A s \in RuleSets : /\ log'[s] = IF s = r THEN m.l ELSE log[s]
                          /\ broken'[s] = IF s = r THEN ~m.ok ELSE broken[s]
    BY <1>m, <1>t
<1>5. WriterIsThere'
    <2>1. ASSUME NEW s \in Alive', Watched(log'[s])
          PROVE  log'[s].writer # "null" \/ broken'[s]
        <3>1. s \in RuleSets  BY DEF Alive
        <3>2. CASE s = r
            BY <1>1, <1>2, <1>4, <2>1, <3>1, <3>2 DEF MergeDone
        <3>3. CASE s # r
            BY <1>4, <2>1, <3>1, <3>3 DEF Alive, WriterIsThere, Watched
        <3> QED  BY <3>2, <3>3
    <2> QED  BY <2>1 DEF WriterIsThere, Watched
<1>6. r \in Alive' /\ log'[r] = m.l
    BY <1>2, <1>4, <1>t DEF Alive
<1>7. \A q \in Paths : Others(q, r)' = Others(q, r)
    BY <1>m, <1>t, <1>2, OthersStay
<1>8. ASSUME ~slipped'
      PROVE  \A q \in Paths :
                Count(m.h, q) = (Count(h, q) - UsesOf(log[r], q)) + UsesOf(m.l, q)
    <2>1. ~slipped /\ ~Slips(log[r], m, h, bad)  BY <1>8, <1>m
    <2>2. \A q \in Paths : UsesOf(log[r], q) + One(f.debug = q) <= Count(h, q)
        <3>1. \A q \in Paths : UsesOf(log[r], q) \in 0..3 /\ One(f.debug = q) \in {0, 1}
            BY <1>t, UsesAreASum DEF One
        <3> QED  BY <2>1, <3>1, CountType
    <2> QED  BY <1>1, <2>1, <2>2 DEF MergeDone
<1> QED  BY <1>2, <1>3, <1>5, <1>6, <1>7, <1>8, <1>m

(* The Driver has the debug log of the file open meanwhile.                *)
LEMMA LoadStep ==
    ASSUME LogsInv, NEW r \in Alive, NEW f \in Files, NEW bad, NEW mkdirFails \in BOOLEAN,
           load(r, f, bad, mkdirFails)
    PROVE  LogsInv'
<1> USE DEF LogsInv
<1>c. Conf(f)  BY AuditLogAssumption DEF Conf
<1>d. PICK debug : debug = IF f.debug = Empty THEN [ok |-> TRUE, h |-> handlers]
                                              ELSE Open(handlers, f.debug, bad)
    OBVIOUS
<1>m. PICK m : m = mergeLogs(debug.h, log[r], f, bad, mkdirFails)  OBVIOUS
<1>t. Table(handlers) /\ f.debug \in Path  BY <1>c DEF LogsTypeOK, Conf
<1>o. Opened(handlers, f.debug, bad, debug)
    BY <1>d, <1>t, OpenedCounts
<1>1. CASE ~debug.ok
    <2>1. UNCHANGED <<handlers, log, slipped, broken>>  BY <1>1, <1>d DEF load
    <2> QED
        BY <2>1 DEF LogsTypeOK, FilesAreCounted, WriterIsThere, Uses, Alive
<1>2. CASE debug.ok
    <2>1. Merge(r, debug.h, f, bad, mkdirFails) /\ handlers' = Close(m.h, f.debug)
        BY <1>2, <1>d, <1>m DEF load
    <2>2. Table(debug.h)
          /\ \A q \in Paths : Count(debug.h, q) = Count(handlers, q) + One(f.debug = q)
        BY <1>2, <1>o DEF Opened
    <2>s. \A q \in Paths : /\ Cardinality(Others(q, r)) \in Nat
                           /\ Cardinality(Uses(q)) = Cardinality(Others(q, r)) + UsesOf(log[r], q)
                           /\ UsesOf(log[r], q) \in 0..3 /\ One(f.debug = q) \in {0, 1}
        BY UsesAreASum DEF One
    <2>3. ASSUME ~slipped, NEW q \in Paths
          PROVE  /\ Count(debug.h, q)
                       = (Cardinality(Others(q, r)) + UsesOf(log[r], q)) + One(f.debug = q)
                 /\ One(f.debug = q) + UsesOf(log[r], q) <= Count(debug.h, q)
        <3>1. Count(handlers, q) = Cardinality(Others(q, r)) + UsesOf(log[r], q)
            BY <2>s, <2>3, CountedAgain DEF Counted
        <3> QED  BY <2>2, <2>s, <3>1
    <2>4. /\ Table(m.h)
          /\ log' \in [RuleSets -> LogRecord]
          /\ slipped' \in BOOLEAN /\ broken' \in [RuleSets -> BOOLEAN]
          /\ WriterIsThere'
          /\ slipped => slipped'
          /\ r \in Alive' /\ log'[r] = m.l
          /\ \A q \in Paths : Others(q, r)' = Others(q, r)
          /\ ~slipped' => \A q \in Paths :
                Count(m.h, q) = (Count(debug.h, q) - UsesOf(log[r], q)) + UsesOf(m.l, q)
        BY <1>c, <1>m, <2>1, <2>2, <2>3, MergeKeepsLogs
    <2>5. /\ Table(Close(m.h, f.debug))
          /\ \A q \in Paths : Count(Close(m.h, f.debug), q)
                = Count(m.h, q) - One(q = f.debug /\ q \in DOMAIN m.h)
        BY <2>4, CloseCounts
    <2>6. LogsTypeOK'  BY <2>1, <2>4, <2>5 DEF LogsTypeOK
    <2>7. ASSUME ~slipped', NEW q \in Paths
          PROVE  Cardinality(Uses(q))' = Count(handlers, q)'
        <3>1. Cardinality(Uses(q))' = Cardinality(Others(q, r)) + UsesOf(m.l, q)
              /\ UsesOf(m.l, q) \in 0..3
            <4>1. Cardinality(Uses(q)') = Cardinality(Others(q, r)') + UsesOf(log'[r], q)
                  /\ UsesOf(log'[r], q) \in 0..3
                <5>1. (LogsTypeOK => SumsUp)'  BY UsesSumUp, PTL
                <5>2. SumsUp'  BY <5>1, <2>6
                <5> QED  BY <5>2, <2>4, <2>7 DEF SumsUp, UsesOf, HeldBy, First, Second
            <4> QED  BY <4>1, <2>4
        <3>2. Count(m.h, q) = (Cardinality(Others(q, r)) + UsesOf(m.l, q)) + One(f.debug = q)
            BY <2>3, <2>4, <2>7, <2>s, <3>1
        <3>3. Count(Close(m.h, f.debug), q) = Count(m.h, q) - One(f.debug = q)
            BY <2>4, <2>5, <2>s, <3>1, <3>2, CountType DEF One
        <3>4. Count(Close(m.h, f.debug), q) = Cardinality(Others(q, r)) + UsesOf(m.l, q)
            BY <2>s, <3>1, <3>2, <3>3
        <3>5. Count(handlers, q)' = Count(Close(m.h, f.debug), q)
            BY <2>1 DEF Count
        <3> QED  BY <3>1, <3>4, <3>5
    <2>8. FilesAreCounted'
        <3>1. ~slipped' => Counted'  BY <2>7 DEF Counted
        <3> QED  BY <3>1 DEF FilesAreCounted, Counted, Count
    <2> QED  BY <2>4, <2>6, <2>8
<1> QED  BY <1>1, <1>2, <1>o DEF Opened

LEMMA MergeRuleSetStep ==
    ASSUME LogsInv, NEW r \in Alive, NEW s \in Alive \ {r}, NEW bad,
           NEW mkdirFails \in BOOLEAN, mergeRuleSet(r, s, bad, mkdirFails)
    PROVE  LogsInv'
<1> USE DEF LogsInv
<1>m. PICK m : m = mergeLogs(handlers, log[r], log[s], bad, mkdirFails)  OBVIOUS
<1>c. Conf(log[s]) /\ Table(handlers)
    BY DEF Conf, LogsTypeOK, LogRecord, Alive
<1>1. Merge(r, handlers, log[s], bad, mkdirFails) /\ handlers' = m.h
    BY <1>m DEF mergeRuleSet
<1>s. \A q \in Paths : /\ Cardinality(Others(q, r)) \in Nat
                       /\ Cardinality(Uses(q)) = Cardinality(Others(q, r)) + UsesOf(log[r], q)
                       /\ UsesOf(log[r], q) \in 0..3
                       /\ One(log[s].debug = q) <= Cardinality(Others(q, r))
                       /\ One(log[s].debug = q) \in {0, 1}
    BY UsesAreASum, DebugIsAUse DEF One
<1>2. ASSUME ~slipped, NEW q \in Paths
      PROVE  /\ Count(handlers, q) = Cardinality(Others(q, r)) + UsesOf(log[r], q)
             /\ One(log[s].debug = q) + UsesOf(log[r], q) <= Count(handlers, q)
    <2>1. Count(handlers, q) = Cardinality(Others(q, r)) + UsesOf(log[r], q)
        BY <1>s, <1>2, CountedAgain DEF Counted
    <2> QED  BY <1>s, <2>1
<1>3. /\ Table(m.h)
      /\ log' \in [RuleSets -> LogRecord]
      /\ slipped' \in BOOLEAN /\ broken' \in [RuleSets -> BOOLEAN]
      /\ WriterIsThere'
      /\ slipped => slipped'
      /\ r \in Alive' /\ log'[r] = m.l
      /\ \A q \in Paths : Others(q, r)' = Others(q, r)
      /\ ~slipped' => \A q \in Paths :
            Count(m.h, q) = (Count(handlers, q) - UsesOf(log[r], q)) + UsesOf(m.l, q)
    BY <1>c, <1>m, <1>1, <1>2, MergeKeepsLogs
<1>4. LogsTypeOK'  BY <1>1, <1>3 DEF LogsTypeOK
<1>5. ASSUME ~slipped', NEW q \in Paths
      PROVE  Cardinality(Uses(q))' = Count(handlers, q)'
    <2>1. Cardinality(Uses(q)') = Cardinality(Others(q, r)') + UsesOf(log'[r], q)
          /\ UsesOf(log'[r], q) \in 0..3
        <3>1. (LogsTypeOK => SumsUp)'  BY UsesSumUp, PTL
        <3>2. SumsUp'  BY <3>1, <1>4
        <3> QED  BY <3>2, <1>3, <1>5 DEF SumsUp, UsesOf, HeldBy, First, Second
    <2>2. Cardinality(Uses(q))' = Cardinality(Others(q, r)) + UsesOf(m.l, q)
          /\ UsesOf(m.l, q) \in 0..3
        BY <2>1, <1>3
    <2>3. Count(m.h, q) = Cardinality(Others(q, r)) + UsesOf(m.l, q)
        BY <1>2, <1>3, <1>5, <1>s, <2>2
    <2>4. Count(handlers, q)' = Count(m.h, q)
        BY <1>1 DEF Count
    <2> QED  BY <2>2, <2>3, <2>4
<1>6. FilesAreCounted'
    <2>1. ~slipped' => Counted'  BY <1>5 DEF Counted
    <2> QED  BY <2>1 DEF FilesAreCounted, Counted, Count
<1> QED  BY <1>3, <1>4, <1>6

LEMMA CleanupStep ==
    ASSUME LogsInv, NEW r \in Alive, cleanup(r)
    PROVE  LogsInv'
<1> USE DEF LogsInv
<1>t. /\ Table(handlers) /\ r \in RuleSets /\ log[r] \in LogRecord
      /\ log \in [RuleSets -> LogRecord]
    BY DEF LogsTypeOK, Alive
<1>d. PICK h : h = Close(handlers, log[r].debug)  OBVIOUS
<1>l. PICK l : l = [log[r] EXCEPT !.alive = FALSE]  OBVIOUS
<1>1. /\ handlers' = Destroy(h, log[r], log[r].writer)
      /\ log' = [log EXCEPT ![r] = l]
      /\ l \in LogRecord /\ ~l.alive
      /\ UNCHANGED <<slipped, broken>>
    BY <1>d, <1>l, <1>t DEF cleanup, LogRecord
<1>2. /\ Table(h)
      /\ \A q \in Paths : Count(h, q)
            = Count(handlers, q) - One(q = log[r].debug /\ q \in DOMAIN handlers)
    BY <1>d, <1>t, CloseCounts
<1>3. LogsTypeOK'
    BY <1>1, <1>2, <1>t, DestroyTable DEF LogsTypeOK
<1>4. WriterIsThere'
    <2>1. \A s \in Alive' : s \in Alive /\ log'[s] = log[s]
        BY <1>1, <1>t DEF Alive
    <2> QED  BY <2>1, <1>1 DEF WriterIsThere
<1>5. FilesAreCounted'
    <2>1. SUFFICES ASSUME ~slipped  PROVE Counted'
        BY <1>1 DEF FilesAreCounted, Counted, Count
    <2>2. ASSUME NEW q \in Paths
          PROVE  /\ Count(handlers, q)
                       = Cardinality(Others(q, r)) + (HeldBy(log[r], log[r].writer, q)
                                                       + One(log[r].debug = q))
                 /\ Cardinality(Others(q, r)) \in Nat
                 /\ HeldBy(log[r], log[r].writer, q) \in 0..2
                 /\ One(log[r].debug = q) \in {0, 1}
        BY <2>1, UsesAreASum, CountedAgain, HeldType DEF Counted, UsesOf, One
    <2>3. ASSUME NEW q \in Paths
          PROVE  Count(h, q) = Cardinality(Others(q, r)) + HeldBy(log[r], log[r].writer, q)
        <3>1. log[r].debug = q => q \in DOMAIN handlers
            BY <1>t, <2>2, CountType DEF One
        <3> QED  BY <1>2, <2>2, <3>1 DEF One
    <2>4. \A q \in Paths : HeldBy(log[r], log[r].writer, q) <= Count(h, q)
        BY <2>2, <2>3
    <2>5. \A q \in Paths : Count(Destroy(h, log[r], log[r].writer), q)
            = Count(h, q) - HeldBy(log[r], log[r].writer, q)
        <3>1. PICK k, w : k = log[r] /\ w = log[r].writer  OBVIOUS
        <3>2. \A q \in Paths : Count(Destroy(h, k, w), q) = Count(h, q) - HeldBy(k, w, q)
            BY <1>2, <2>4, <3>1, DestroyCounts
        <3> QED  BY <3>1, <3>2
    <2>6. \A q \in Paths : Uses(q)' = Others(q, r)
        BY <1>1, OthersStay
    <2>7. ASSUME NEW q \in Paths
          PROVE  Cardinality(Uses(q))' = Count(handlers, q)'
        <3>1. Count(handlers, q)' = Count(Destroy(h, log[r], log[r].writer), q)
            BY <1>1 DEF Count
        <3> QED  BY <2>2, <2>3, <2>5, <2>6, <3>1
    <2> QED  BY <2>7 DEF Counted
<1> QED  BY <1>3, <1>4, <1>5

LEMMA LogsNext == LogsInv /\ [NextAudit]_auditVars => LogsInv'
<1> SUFFICES ASSUME LogsInv, [NextAudit]_auditVars  PROVE LogsInv'  OBVIOUS
<1>1. CASE UNCHANGED auditVars
    BY <1>1 DEF auditVars, LogsInv, LogsTypeOK, FilesAreCounted, WriterIsThere, Uses, Alive
<1>2. CASE NextAudit
    <2>1. PICK r \in Alive :
            \/ \E f \in Files, bad \in SUBSET Paths, d \in BOOLEAN : load(r, f, bad, d)
            \/ \E s \in Alive \ {r}, bad \in SUBSET Paths, d \in BOOLEAN :
                   mergeRuleSet(r, s, bad, d)
            \/ cleanup(r)
        BY <1>2 DEF NextAudit
    <2> QED  BY <2>1, LoadStep, MergeRuleSetStep, CleanupStep
<1> QED  BY <1>1, <1>2

(* SharedFiles counts what the writers and debug logs of all rule sets     *)
(* hold on to, through every order of loads, merges and destructions and   *)
(* every failure of fopen and mkdir, until one of the two ways of closing  *)
(* what was not opened happens; and whatever may be logged has a writer,   *)
(* unless the last AuditLog::init failed.                                  *)
THEOREM LogsStayCounted == SpecAudit => []LogsAreKept
<1>1. InitAudit => LogsInv  BY LogsInit
<1>2. LogsInv /\ [NextAudit]_auditVars => LogsInv'  BY LogsNext
<1>3. LogsInv => LogsAreKept  BY DEF LogsInv, LogsAreKept
<1> QED  BY <1>1, <1>2, <1>3, PTL DEF SpecAudit

-----------------------------------------------------------------------------
(* Which transactions are saved, and with which parts.  The parts are a    *)
(* recursive function of the list of modifications: what it computes is    *)
(* shown by induction, in the form of sets of numbers.                     *)

LEMMA LessIsRelated == \A x, y \in Nat : x < y => <<x, y>> \in OpToRel(<, Nat)
BY DEF OpToRel

LEMMA NatSetInduction ==
    ASSUME NEW S, 0 \in S, \A n \in Nat : n \in S => n + 1 \in S
    PROVE  Nat \subseteq S
<1> DEFINE T == Nat \ S
<1>1. SUFFICES ASSUME T # {} PROVE FALSE  OBVIOUS
<1>2. PICK x \in T : \A y \in T : ~(<<y, x>> \in OpToRel(<, Nat))
    <2> DEFINE R == OpToRel(<, Nat)
    <2>1. IsWellFoundedOn(R, Nat)  BY NatLessThanWellFounded
    <2>2. T \subseteq Nat  OBVIOUS
    <2> HIDE DEF R, T
    <2> QED  BY ONLY <1>1, <2>1, <2>2, WFMin DEF R
<1>3. x - 1 \in Nat /\ x - 1 < x /\ (x - 1) + 1 = x
    <2>1. x \in Nat /\ x # 0  OBVIOUS
    <2> QED  BY <2>1
<1>4. x - 1 \in T  BY <1>3
<1> QED  BY <1>2, <1>3, <1>4, LessIsRelated

Modifier == [add : BOOLEAN, parts : SUBSET AuditLogLetters]

Modified(parts, m) == IF m.add THEN parts \cup m.parts ELSE parts \ m.parts

(* f[i]: the parts after the first i of n modifications.                   *)
AreModified(f, conf, list, n) ==
    f = [i \in 0 .. n |-> IF i = 0 THEN getParts(conf) ELSE Modified(f[i - 1], list[i])]

LEMMA ModifiedStep ==
    ASSUME NEW f, NEW conf, NEW list, NEW n \in Nat, AreModified(f, conf, list, n)
    PROVE  /\ f[0] = getParts(conf)
           /\ \A i \in Nat : i + 1 <= n => f[i + 1] = Modified(f[i], list[i + 1])
<1>1. f[0] = getParts(conf)
    <2>1. 0 \in 0 .. n  OBVIOUS
    <2> QED  BY <2>1 DEF AreModified
<1>2. ASSUME NEW i \in Nat, i + 1 <= n
      PROVE  f[i + 1] = Modified(f[i], list[i + 1])
    <2>1. i + 1 \in 0 .. n /\ i + 1 # 0 /\ (i + 1) - 1 = i  BY <1>2
    <2> QED  BY <2>1 DEF AreModified
<1> QED  BY <1>1, <1>2

LEMMA ModifiedExists ==
    ASSUME NEW conf, NEW list
    PROVE  \A n \in Nat : \E f : AreModified(f, conf, list, n)
<1> DEFINE S == {n \in Nat : \E f : AreModified(f, conf, list, n)}
<1>1. 0 \in S
    <2>1. PICK f : f = [i \in 0 .. 0 |-> getParts(conf)]  OBVIOUS
    <2>2. f = [i \in 0 .. 0 |-> IF i = 0 THEN getParts(conf) ELSE Modified(f[i - 1], list[i])]
        BY <2>1
    <2> QED  BY <2>2 DEF AreModified
<1>2. ASSUME NEW n \in Nat, n \in S
      PROVE  n + 1 \in S
    <2>1. PICK f : AreModified(f, conf, list, n)  BY <1>2
    <2>2. PICK g : g = [i \in 0 .. n + 1 |->
                           IF i = n + 1 THEN Modified(f[n], list[n + 1]) ELSE f[i]]
        OBVIOUS
    <2>3. \A i \in 0 .. n : g[i] = f[i] /\ i # n + 1  BY <2>2
    <2>4. ASSUME NEW i \in 0 .. n + 1
          PROVE  g[i] = IF i = 0 THEN getParts(conf) ELSE Modified(g[i - 1], list[i])
        <3>1. CASE i = n + 1
            <4>1. g[i] = Modified(f[n], list[n + 1])  BY <2>2, <3>1
            <4>2. g[n] = f[n] /\ i - 1 = n /\ i # 0  BY <2>3, <3>1
            <4> QED  BY <3>1, <4>1, <4>2
        <3>2. CASE i # n + 1 /\ i # 0
            <4>1. i \in 0 .. n /\ i - 1 \in 0 .. n  BY <3>2
            <4>2. f[i] = Modified(f[i - 1], list[i])  BY <2>1, <3>2, <4>1 DEF AreModified
            <4> QED  BY <2>3, <3>2, <4>1, <4>2
        <3>3. CASE i = 0
            <4>1. 0 \in 0 .. n  OBVIOUS
            <4> QED  BY <2>1, <2>3, <3>3, <4>1, ModifiedStep
        <3> QED  BY <3>1, <3>2, <3>3
    <2>5. g = [i \in 0 .. n + 1 |-> g[i]]  BY <2>2
    <2>6. g = [i \in 0 .. n + 1 |-> IF i = 0 THEN getParts(conf) ELSE Modified(g[i - 1], list[i])]
        BY ONLY <2>4, <2>5, Zenon
    <2> QED  BY <2>6 DEF AreModified
<1> HIDE DEF S
<1>3. Nat \subseteq S  BY <1>1, <1>2, NatSetInduction
<1> QED  BY <1>3 DEF S

(* What the last of the first i modifications that names p makes of it.    *)
Decided(conf, list, i, p) ==
    \/ /\ \A j \in 1 .. i : p \notin list[j].parts
       /\ p \in getParts(conf)
    \/ \E j \in 1 .. i :
          /\ p \in list[j].parts /\ list[j].add
          /\ \A k \in 1 .. i : p \in list[k].parts => k <= j

LEMMA ListFacts ==
    ASSUME NEW list \in Seq(Modifier)
    PROVE  /\ Len(list) \in Nat /\ DOMAIN list = 1 .. Len(list)
           /\ \A i \in 1 .. Len(list) : list[i] \in Modifier
OBVIOUS

(* One more modification decides over what it names.                       *)
LEMMA OneMore ==
    ASSUME NEW conf, NEW list, NEW i \in Nat, NEW p
    PROVE  Decided(conf, list, i + 1, p)
             <=> IF p \in list[i + 1].parts THEN list[i + 1].add = TRUE
                 ELSE Decided(conf, list, i, p)
<1>1. 1 .. i + 1 = (1 .. i) \cup {i + 1}  OBVIOUS
<1> QED  BY <1>1 DEF Decided

LEMMA LastDecides ==
    ASSUME NEW conf, NEW list \in Seq(Modifier), NEW p
    PROVE  p \in PartsOf(conf, list) <=> Decided(conf, list, Len(list), p)
<1>1. PICK n \in Nat : n = Len(list)  BY ListFacts
<1>2. PICK f : f = CHOOSE g : AreModified(g, conf, list, n)  OBVIOUS
<1>3. AreModified(f, conf, list, n)  BY <1>2, ModifiedExists
<1>4. PartsOf(conf, list) = f[n]
    BY ONLY <1>1, <1>2, Zenon DEF PartsOf, AreModified, Modified
<1>5. /\ f[0] = getParts(conf)
      /\ \A i \in Nat : i + 1 <= n => f[i + 1] = Modified(f[i], list[i + 1])
    BY <1>3, ModifiedStep
<1> DEFINE S == {i \in Nat : i <= n => (p \in f[i] <=> Decided(conf, list, i, p))}
<1>6. 0 \in S
    <2>1. 1 .. 0 = {}  OBVIOUS
    <2> QED  BY <1>5, <2>1 DEF Decided
<1>7. ASSUME NEW i \in Nat, i \in S
      PROVE  i + 1 \in S
    <2>1. SUFFICES ASSUME i + 1 <= n
                   PROVE  p \in f[i + 1] <=> Decided(conf, list, i + 1, p)
        OBVIOUS
    <2>2. p \in f[i] <=> Decided(conf, list, i, p)  BY <1>7, <2>1
    <2>3. PICK m \in Modifier : m = list[i + 1]  BY <1>1, <2>1, ListFacts
    <2>4. p \in f[i + 1] <=> IF p \in m.parts THEN m.add = TRUE ELSE p \in f[i]
        BY <1>5, <2>1, <2>3 DEF Modified, Modifier
    <2> QED  BY <2>2, <2>3, <2>4, OneMore
<1> HIDE DEF S
<1>8. Nat \subseteq S  BY <1>6, <1>7, NatSetInduction
<1>9. p \in f[n] <=> Decided(conf, list, n, p)  BY <1>8 DEF S
<1> QED  BY <1>1, <1>4, <1>9
-----------------------------------------------------------------------------
Saved(conf, x, l) ==
    [parts |-> PartsOf(conf, l), transaction |-> x, modifiers |-> l]

(* What a thread has of its transaction, by how far it is.                 *)
AsAsked(t) ==
    /\ logging[t] = "idle" => saved[t] = NoRecord
    /\ logging[t] = "left" =>
          \E x \in AuditTransactions :
             saved[t] = [NoRecord EXCEPT !.transaction = x] /\ ~MustSave(auditConf, x)
    /\ logging[t] \notin {"idle", "left"} =>
          \E x \in AuditTransactions, l \in Modifiers :
             saved[t] = Saved(auditConf, x, l) /\ MustSave(auditConf, x)

AskedInv ==
    /\ auditConf \in AuditConfs
    /\ DOMAIN logging = AuditThreads /\ DOMAIN saved = AuditThreads
    /\ \A t \in AuditThreads : AsAsked(t)

LEMMA AskedInit == InitAuditRecord => AskedInv
BY DEF InitAuditRecord, AskedInv, AsAsked

(* The writers leave the record, and the decision, as they are.            *)
LEMMA WriterKeepsAsked ==
    ASSUME AskedInv, NEW t \in AuditThreads, NEW next,
           logging[t] \notin {"idle", "left"}, next \notin {"idle", "left"},
           logging' = [logging EXCEPT ![t] = next], UNCHANGED <<auditConf, saved>>
    PROVE  AskedInv'
<1>1. \A u \in AuditThreads : logging'[u] = IF u = t THEN next ELSE logging[u]
    BY DEF AskedInv
<1>2. ASSUME NEW u \in AuditThreads  PROVE AsAsked(u)'
    BY <1>1 DEF AskedInv, AsAsked
<1> QED  BY <1>2 DEF AskedInv

LEMMA LogTransactionAsked ==
    ASSUME AskedInv, NEW t \in AuditThreads, NEW x \in AuditTransactions,
           NEW l \in Modifiers, logTransaction(t, x, l)
    PROVE  AskedInv'
<1>1. auditConf.type \in {"Serial", "Parallel", "HTTPS"}
    BY AuditRecordAssumption DEF AskedInv
<1>2. logging[t] = "idle" /\ saved[t] = NoRecord /\ auditConf' = auditConf
    BY DEF AskedInv, AsAsked, logTransaction
<1>3. PICK next, record :
          /\ logging' = [logging EXCEPT ![t] = next]
          /\ saved' = [saved EXCEPT ![t] = record]
          /\ MustSave(auditConf, x) =>
                next = auditConf.type /\ record = Saved(auditConf, x, l)
          /\ ~MustSave(auditConf, x) =>
                next = "left" /\ record = [NoRecord EXCEPT !.transaction = x]
    <2>1. CASE MustSave(auditConf, x)
        BY <2>1 DEF logTransaction, Saved
    <2>2. CASE ~MustSave(auditConf, x)
        BY <1>2, <2>2 DEF logTransaction
    <2> QED  BY <2>1, <2>2
<1>4. \A u \in AuditThreads :
          /\ logging'[u] = IF u = t THEN next ELSE logging[u]
          /\ saved'[u] = IF u = t THEN record ELSE saved[u]
    BY <1>3 DEF AskedInv
<1>5. ASSUME NEW u \in AuditThreads  PROVE AsAsked(u)'
    <2>1. CASE u # t
        BY <1>2, <1>4, <2>1 DEF AskedInv, AsAsked
    <2>2. CASE u = t
        BY <1>1, <1>2, <1>3, <1>4, <2>2 DEF AsAsked
    <2> QED  BY <2>1, <2>2
<1> QED  BY <1>2, <1>3, <1>5 DEF AskedInv

LEMMA AskedNext == AskedInv /\ [NextAuditRecord]_auditRecordVars => AskedInv'
<1> SUFFICES ASSUME AskedInv, [NextAuditRecord]_auditRecordVars
             PROVE  AskedInv'
    OBVIOUS
<1>1. CASE UNCHANGED auditRecordVars
    BY <1>1 DEF auditRecordVars, AskedInv, AsAsked
<1>2. ASSUME NEW t \in AuditThreads, NEW x \in AuditTransactions, NEW l \in Modifiers,
             logTransaction(t, x, l)
      PROVE  AskedInv'
    BY <1>2, LogTransactionAsked
<1>3. ASSUME NEW t \in AuditThreads,
             \/ httpsWrite(t) \/ parallelWrite(t) \/ lockFile(t) \/ beginFwrite(t)
             \/ endFwrite(t) \/ flushFile(t) \/ unlockFile(t)
      PROVE  AskedInv'
    <2>1. logging[t] \notin {"idle", "left"} /\ UNCHANGED <<auditConf, saved>>
        BY <1>3 DEF httpsWrite, parallelWrite, lockFile, beginFwrite, endFwrite, flushFile,
                    unlockFile
    <2>2. PICK next : next \notin {"idle", "left"} /\ logging' = [logging EXCEPT ![t] = next]
        <3>1. CASE httpsWrite(t)  BY <3>1 DEF httpsWrite
        <3>2. CASE parallelWrite(t)  BY <3>2 DEF parallelWrite, AfterRecord
        <3>3. CASE lockFile(t)  BY <3>3 DEF lockFile
        <3>4. CASE beginFwrite(t)  BY <3>4 DEF beginFwrite
        <3>5. CASE endFwrite(t)  BY <3>5 DEF endFwrite
        <3>6. CASE flushFile(t)  BY <3>6 DEF flushFile, AskedInv
        <3>7. CASE unlockFile(t)  BY <3>7 DEF unlockFile, AskedInv
        <3> QED  BY <1>3, <3>1, <3>2, <3>3, <3>4, <3>5, <3>6, <3>7
    <2> QED  BY <2>1, <2>2, WriterKeepsAsked
<1>4. ASSUME NEW t \in AuditThreads, spill(t) \/ closeFile(processOf[t])  PROVE AskedInv'
    BY <1>4 DEF spill, closeFile, AskedInv, AsAsked
<1> QED  BY <1>1, <1>2, <1>3, <1>4 DEF NextAuditRecord

LEMMA AskedIsRecorded == AskedInv => RecordIsAsAsked
<1> SUFFICES ASSUME AskedInv PROVE LastModifierDecides /\ LeftOutIsUnwanted
    BY DEF RecordIsAsAsked
<1>1. \A t \in AuditThreads : AsAsked(t)  BY DEF AskedInv
<1>2. LeftOutIsUnwanted
    <2>1. ASSUME NEW t \in AuditThreads, logging[t] # "idle"
          PROVE  LET x      == saved[t].transaction
                     engine == EngineOf(auditConf, x)
                     wanted == isRelevant(auditConf, x) \/ FALSE \in x.noAuditLog
                 IN  /\ logging[t] = "left" =>
                           engine # "On" /\ (engine = "RelevantOnly" => ~wanted)
                     /\ logging[t] # "left" =>
                           engine = "On" \/ (engine = "RelevantOnly" /\ wanted)
        <3>1. PICK x \in AuditTransactions :
                  saved[t].transaction = x /\ (MustSave(auditConf, x) <=> logging[t] # "left")
            <4>1. CASE logging[t] = "left"
                <5>1. PICK x \in AuditTransactions :
                          saved[t] = [NoRecord EXCEPT !.transaction = x] /\ ~MustSave(auditConf, x)
                    BY <1>1, <4>1 DEF AsAsked
                <5>2. saved[t].transaction = x  BY <5>1 DEF NoRecord
                <5> QED  BY <4>1, <5>1, <5>2
            <4>2. CASE logging[t] # "left"
                <5>1. PICK x \in AuditTransactions, l \in Modifiers :
                          saved[t] = Saved(auditConf, x, l) /\ MustSave(auditConf, x)
                    BY <1>1, <2>1, <4>2 DEF AsAsked
                <5>2. saved[t].transaction = x  BY <5>1 DEF Saved
                <5> QED  BY <4>2, <5>1, <5>2
            <4> QED  BY <4>1, <4>2
        <3> QED  BY ONLY <3>1 DEF MustSave
    <2> QED  BY <2>1 DEF LeftOutIsUnwanted
<1>3. LastModifierDecides
    <2>1. ASSUME NEW t \in AuditThreads, logging[t] \notin {"idle", "left"}, NEW p
          PROVE  LET list == saved[t].modifiers
                     named == {i \in DOMAIN list : p \in list[i].parts}
                 IN  p \in saved[t].parts <=>
                        IF named = {} THEN p \in getParts(auditConf)
                        ELSE \E i \in named : (\A j \in named : j <= i) /\ list[i].add
        <3>1. PICK x \in AuditTransactions, l \in Modifiers :
                  saved[t] = Saved(auditConf, x, l)
            BY <1>1, <2>1 DEF AsAsked
        <3>2. saved[t].modifiers = l /\ saved[t].parts = PartsOf(auditConf, l)
            BY <3>1 DEF Saved
        <3>3. l \in Seq(Modifier)  BY AuditRecordAssumption DEF Modifier
        <3>4. p \in PartsOf(auditConf, l) <=> Decided(auditConf, l, Len(l), p)
            BY <3>3, LastDecides
        <3>5. DOMAIN l = 1 .. Len(l)  BY <3>3, ListFacts
        <3>6. PICK named : named = {i \in DOMAIN l : p \in l[i].parts}  OBVIOUS
        <3>7. Decided(auditConf, l, Len(l), p)
                <=> \/ named = {} /\ p \in getParts(auditConf)
                    \/ \E i \in named : (\A j \in named : j <= i) /\ l[i].add
            BY ONLY <3>5, <3>6 DEF Decided
        <3>8. named = {} => ~\E i \in named : (\A j \in named : j <= i) /\ l[i].add
            OBVIOUS
        <3> QED  BY ONLY <3>2, <3>4, <3>6, <3>7, <3>8
    <2> QED  BY <2>1 DEF LastModifierDecides
<1> QED  BY <1>2, <1>3

(* Of whatever list of ctl:auditLogParts a transaction runs, in whatever   *)
(* setting of the log: the last modification of a part decides whether the *)
(* record has it, a part that none names is as configured, and a           *)
(* transaction is left out exactly if neither the engine, nor its status,  *)
(* nor a rule asks for it.                                                 *)
THEOREM RecordsAreAsAsked == SpecAuditRecord => []RecordIsAsAsked
<1>1. InitAuditRecord => AskedInv  BY AskedInit
<1>2. AskedInv /\ [NextAuditRecord]_auditRecordVars => AskedInv'  BY AskedNext
<1>3. AskedInv => RecordIsAsAsked  BY AskedIsRecorded
<1> QED  BY <1>1, <1>2, <1>3, PTL DEF SpecAuditRecord
=============================================================================
