---------------------------- MODULE AuditRecord ----------------------------
(***************************************************************************)
(* The audit record of a transaction: whether it is saved, which parts it  *)
(* is asked to have, and how it is written, down to the log file that      *)
(* threads and processes share (SharedFiles::write), where every call of   *)
(* the system may fail.                                                    *)
(***************************************************************************)
EXTENDS Naturals, Sequences

CONSTANTS AuditThreads,     \* each logs one transaction
          Deployments,      \* the process each thread is in: see DeploymentAssumption
          AuditConfs,       \* the settings of the audit log
          AuditTransactions,\* what is logged: see logTransaction
          Modifiers         \* the lists of ctl:auditLogParts a transaction may run

(* Where one process has several threads in the file and another writes to *)
(* it too, a lock of fcntl keeps nobody out: it is the process's, and the  *)
(* first thread that is done gives it back.                                *)
DeploymentAssumption ==
    \A d \in Deployments :
        /\ d \in [AuditThreads -> {"p1", "p2"}]
        /\ \/ \A t, u \in AuditThreads : d[t] = d[u]
           \/ \A t, u \in AuditThreads : d[t] = d[u] => t = u
ASSUME DeploymentAssumption

VARIABLES auditConf, processOf, logging,
          saved,            \* what each thread logs: [parts, transaction, modifiers]
          records,          \* the file of Parallel, by transaction
          shared,           \* the log file: pieces of records or index lines
          buffer,           \* of the FILE of each process
          fileLock,         \* the process that has the lock of fcntl
          stdioLock,        \* the thread that has the FILE of its process
          unlocked,         \* history: threads that fcntl gave no lock to
          unwritten         \* history: processes of which a write() failed

auditRecordVars ==
    <<auditConf, processOf, logging, saved, records, shared, buffer, fileLock, stdioLock,
      unlocked, unwritten>>

Unset == "none"

AuditLogLetters == {"A", "B", "C", "D", "E", "F", "G", "H", "I", "J", "K", "Z"}

ASSUME AuditRecordAssumption ==
    /\ Unset \notin AuditThreads
    /\ \A c \in AuditConfs : c.type \in {"Serial", "Parallel", "HTTPS"}
    /\ \A x \in AuditTransactions : x.noAuditLog \subseteq BOOLEAN
    /\ Modifiers \subseteq Seq([add : BOOLEAN, parts : SUBSET AuditLogLetters])

DefaultParts == {"A", "B", "C", "F", "H", "Z"}

-----------------------------------------------------------------------------
(* getParts, and the modifications in the order the actions ran.           *)
getParts(conf) == IF conf.parts = {Unset} THEN DefaultParts ELSE conf.parts

(* addParts and removeParts, one after the other.                          *)
PartsOf(conf, modifiers) ==
    LET parts[i \in 0..Len(modifiers)] ==
            IF i = 0 THEN getParts(conf)
            ELSE IF modifiers[i].add THEN parts[i - 1] \cup modifiers[i].parts
            ELSE parts[i - 1] \ modifiers[i].parts
    IN  parts[Len(modifiers)]

(* The engine of the transaction, the return code, and a message of a rule *)
(* without noauditlog.                                                     *)
isRelevant(conf, t) == conf.relevant /\ t.code = "relevant"

EngineOf(conf, t) == IF t.engine # Unset THEN t.engine ELSE conf.engine

(* Mutant: the return code alone decides.                                  *)
MutMustSave(conf, t) ==
    \/ EngineOf(conf, t) = "On"
    \/ EngineOf(conf, t) = "RelevantOnly" /\ isRelevant(conf, t)

(* saveIfRelevant.                                                         *)
MustSave(conf, t) ==
    \/ EngineOf(conf, t) = "On"
    \/ EngineOf(conf, t) = "RelevantOnly" /\ (isRelevant(conf, t) \/ FALSE \in t.noAuditLog)

-----------------------------------------------------------------------------
NoTransaction == [engine |-> Unset, code |-> Unset, noAuditLog |-> {}]
NoRecord == [parts |-> {}, transaction |-> NoTransaction, modifiers |-> << >>]

InitAuditRecord ==
    /\ auditConf \in AuditConfs
    /\ processOf \in Deployments
    /\ logging = [t \in AuditThreads |-> "idle"]
    /\ saved = [t \in AuditThreads |-> NoRecord]
    /\ records = [t \in AuditThreads |-> "none"]
    /\ shared = << >>
    /\ buffer = [p \in {"p1", "p2"} |-> << >>]
    /\ fileLock = Unset
    /\ stdioLock = [p \in {"p1", "p2"} |-> Unset]
    /\ unlocked = {} /\ unwritten = {}

LogFileStays == UNCHANGED <<shared, buffer, fileLock, stdioLock, unlocked, unwritten>>

(* Transaction::processLogging, up to the writer.  The rule engine is not  *)
(* disabled, and the rules of the phase have run.                          *)
logTransaction(t, transaction, modifiers) ==
    /\ logging[t] = "idle"
    /\ IF MustSave(auditConf, transaction)
       THEN /\ saved' = [saved EXCEPT ![t] =
                            [parts |-> PartsOf(auditConf, modifiers),
                             transaction |-> transaction, modifiers |-> modifiers]]
            /\ logging' = [logging EXCEPT ![t] = auditConf.type]
       ELSE /\ logging' = [logging EXCEPT ![t] = "left"]
            /\ saved' = [saved EXCEPT ![t].transaction = transaction]
    /\ UNCHANGED <<auditConf, processOf, records>> /\ LogFileStays

(* Https::write: whatever becomes of it, it is sent.                       *)
httpsWrite(t) ==
    /\ logging[t] = "HTTPS"
    /\ logging' = [logging EXCEPT ![t] = "done"]
    /\ UNCHANGED <<auditConf, processOf, saved, records>> /\ LogFileStays

(* The index is the next thing, if there is one and the digest for it.     *)
AfterRecord == IF auditConf.paths = {} THEN {"done"} ELSE {"index", "failed"}

(* Parallel::write, the file of the transaction: without a directory, or   *)
(* where one or the file cannot be made, it gives up.  It opens the file   *)
(* and closes it, and opens it again as an ofstream: whether that opens,   *)
(* and whether all is written, nobody looks, and the index follows.        *)
parallelWrite(t) ==
    /\ logging[t] = "Parallel"
    /\ \/ logging' = [logging EXCEPT ![t] = "failed"] /\ UNCHANGED records
       \/ /\ auditConf.storageDir
          /\ \E file \in {"whole", "part"} : records' = [records EXCEPT ![t] = file]
          /\ \E next \in AfterRecord : logging' = [logging EXCEPT ![t] = next]
    /\ UNCHANGED <<auditConf, processOf, saved>> /\ LogFileStays

(* SharedFiles::write: the file, which is not open when there is no path,  *)
(* and the lock, which another process may have and the own one may too.   *)
(* What fcntl returns is not looked at: without the lock it goes on too.   *)
lockFile(t) ==
    /\ logging[t] \in {"Serial", "index"}
    /\ \/ /\ auditConf.paths = {}
          /\ logging' = [logging EXCEPT ![t] = "failed"] /\ UNCHANGED <<fileLock, unlocked>>
       \/ /\ auditConf.paths # {}
          /\ logging' = [logging EXCEPT ![t] = "locked"]
          /\ \/ /\ fileLock \in {Unset, processOf[t]}
                /\ fileLock' = processOf[t] /\ UNCHANGED unlocked
             \/ unlocked' = unlocked \cup {t} /\ UNCHANGED fileLock
    /\ UNCHANGED <<auditConf, processOf, saved, records, shared, buffer, stdioLock, unwritten>>

(* Mutant: fwrite_unlocked.                                                *)
MutTakesFile(t) == TRUE

(* fwrite, which no other thread of the process enters meanwhile.          *)
TakesFile(t) == stdioLock[processOf[t]] = Unset

beginFwrite(t) ==
    /\ logging[t] = "locked" /\ TakesFile(t)
    /\ stdioLock' = [stdioLock EXCEPT ![processOf[t]] = t]
    /\ buffer' = [buffer EXCEPT ![processOf[t]] = Append(@, <<t, "begin">>)]
    /\ logging' = [logging EXCEPT ![t] = "fwrite"]
    /\ UNCHANGED <<auditConf, processOf, saved, records, shared, fileLock, unlocked, unwritten>>

(* write() of the library: the buffer goes to the file.                    *)
BufferToFile(p) ==
    /\ shared' = shared \o buffer[p]
    /\ buffer' = [buffer EXCEPT ![p] = << >>]
    /\ UNCHANGED unwritten

(* Where it fails a part of the buffer may be in the file, and the rest is *)
(* dropped by some libraries and kept for the next write by others.        *)
WriteFails(p) ==
    /\ \E k \in 0..Len(buffer[p]) :
        /\ shared' = shared \o SubSeq(buffer[p], 1, k)
        /\ \E rest \in {<< >>, SubSeq(buffer[p], k + 1, Len(buffer[p]))} :
              buffer' = [buffer EXCEPT ![p] = rest]
    /\ unwritten' = unwritten \cup {p}

(* The text is longer than the buffer: what is there goes to the file.     *)
spill(t) ==
    /\ logging[t] = "fwrite" /\ buffer[processOf[t]] # << >>
    /\ BufferToFile(processOf[t])
    /\ UNCHANGED <<auditConf, processOf, logging, saved, records, fileLock, stdioLock, unlocked>>

(* All of it, or less where write() failed: the caller is told, after the  *)
(* flush.                                                                  *)
endFwrite(t) ==
    /\ logging[t] = "fwrite"
    /\ stdioLock' = [stdioLock EXCEPT ![processOf[t]] = Unset]
    /\ \/ /\ buffer' = [buffer EXCEPT ![processOf[t]] = Append(@, <<t, "end">>)]
          /\ logging' = [logging EXCEPT ![t] = "flush"]
          /\ UNCHANGED <<shared, unwritten>>
       \/ logging' = [logging EXCEPT ![t] = "flush short"] /\ WriteFails(processOf[t])
    /\ UNCHANGED <<auditConf, processOf, saved, records, fileLock, unlocked>>

(* fflush waits for the FILE as fwrite does; what it returns is not looked *)
(* at.                                                                     *)
flushFile(t) ==
    /\ logging[t] \in {"flush", "flush short"} /\ stdioLock[processOf[t]] = Unset
    /\ BufferToFile(processOf[t]) \/ WriteFails(processOf[t])
    /\ logging' = [logging EXCEPT ![t] = IF @ = "flush" THEN "unlock" ELSE "unlock short"]
    /\ UNCHANGED <<auditConf, processOf, saved, records, fileLock, stdioLock, unlocked>>

unlockFile(t) ==
    /\ logging[t] \in {"unlock", "unlock short"}
    /\ fileLock' = IF fileLock = processOf[t] THEN Unset ELSE fileLock
    /\ logging' = [logging EXCEPT ![t] = IF @ = "unlock" THEN "done" ELSE "failed"]
    /\ UNCHANGED <<auditConf, processOf, saved, records, shared, buffer, stdioLock>>
    /\ UNCHANGED <<unlocked, unwritten>>

(* SharedFiles::close, when the last rule set is gone: fclose writes what  *)
(* a failed write left in the buffer, without any lock.                    *)
closeFile(p) ==
    /\ \A t \in AuditThreads : processOf[t] = p => logging[t] \in {"done", "failed", "left"}
    /\ buffer[p] # << >>
    /\ \E k \in 0..Len(buffer[p]) : shared' = shared \o SubSeq(buffer[p], 1, k)
    /\ buffer' = [buffer EXCEPT ![p] = << >>]
    /\ UNCHANGED <<auditConf, processOf, logging, saved, records, fileLock, stdioLock>>
    /\ UNCHANGED <<unlocked, unwritten>>

NextAuditRecord ==
    \E t \in AuditThreads :
        \/ \E x \in AuditTransactions, l \in Modifiers : logTransaction(t, x, l)
        \/ httpsWrite(t) \/ parallelWrite(t)
        \/ lockFile(t) \/ beginFwrite(t) \/ spill(t) \/ endFwrite(t) \/ flushFile(t) \/ unlockFile(t)
        \/ closeFile(processOf[t])

SpecAuditRecord == InitAuditRecord /\ [][NextAuditRecord]_auditRecordVars

-----------------------------------------------------------------------------
(* Nothing tears a record: among the threads of one process whatever       *)
(* fails, since each calls fwrite once; among processes as long as neither *)
(* a lock was refused nor a write failed, for nobody looks at the lock and *)
(* a text that a failed flush left behind arrives when anyone writes.      *)
NothingTears ==
    \/ \A t, u \in AuditThreads : processOf[t] = processOf[u]
    \/ unlocked = {} /\ unwritten = {}

(* No record in the log, and no line of the index, is torn: the end of     *)
(* each comes right after its beginning, whatever threads of one process,  *)
(* or whatever processes of one thread, write at the same time; and one    *)
(* that was reported as written is there, unless a write() of its process  *)
(* failed: the result of fflush is ignored.                                *)
RecordsAreWhole ==
    /\ NothingTears => \A i \in DOMAIN shared :
          shared[i][2] = "end" => i > 1 /\ shared[i - 1] = <<shared[i][1], "begin">>
    /\ \A t \in AuditThreads :
        logging[t] = "done" /\ auditConf.type # "HTTPS" /\ auditConf.paths # {} =>
            \/ \E i \in DOMAIN shared : shared[i] = <<t, "end">>
            \/ processOf[t] \in unwritten

(* A line of the index names a file that was made, whatever failed since:  *)
(* the index is never ahead of the records.  That the file is whole it     *)
(* does not say: nobody looks whether the ofstream wrote all of it.        *)
IndexNamesRecords ==
    auditConf.type = "Parallel" =>
        \A i \in DOMAIN shared : records[shared[i][1]] # "none"

(* The last modification of a part decides, and a part none of them names  *)
(* is as configured.                                                       *)
LastModifierDecides ==
    \A t \in AuditThreads : \A p \in {"B", "C", "E", "H"} :
        logging[t] \notin {"idle", "left"} =>
            LET list == saved[t].modifiers
                named == {i \in DOMAIN list : p \in list[i].parts}
            IN  p \in saved[t].parts <=>
                    IF named = {} THEN p \in getParts(auditConf)
                    ELSE \E i \in named : (\A j \in named : j <= i) /\ list[i].add

(* A transaction is left out exactly if nothing asks for it: the engine,   *)
(* of the rule set or of ctl:auditEngine, is off for it, or logs what is   *)
(* relevant only, and neither its status nor a rule that matched without   *)
(* noauditlog makes it so.                                                 *)
LeftOutIsUnwanted ==
    \A t \in AuditThreads :
        logging[t] # "idle" =>
            LET x      == saved[t].transaction
                engine == EngineOf(auditConf, x)
                wanted == isRelevant(auditConf, x) \/ FALSE \in x.noAuditLog
            IN  /\ logging[t] = "left" => engine # "On" /\ (engine = "RelevantOnly" => ~wanted)
                /\ logging[t] # "left" => engine = "On" \/ (engine = "RelevantOnly" /\ wanted)

(* Records reach the log file whole, and the index after them.             *)
RecordsArrive == RecordsAreWhole /\ IndexNamesRecords

(* Which transactions are saved, and with which parts.                     *)
RecordIsAsAsked == LastModifierDecides /\ LeftOutIsUnwanted
=============================================================================
