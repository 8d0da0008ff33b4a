-------------------------------- MODULE LMDB --------------------------------
(***************************************************************************)
(* The LMDB backend: one database, opened with MDB_DUPSORT and shared by   *)
(* the workers of several processes.  Every function is one LMDB           *)
(* transaction: a writer works on its own view of the database, which      *)
(* becomes the database when the transaction commits; LMDB lets one writer *)
(* in at a time.  Each call of the library may fail, and a process may     *)
(* die, at any point of a transaction.                                     *)
(***************************************************************************)
EXTENDS CollectionData, FiniteSets

CONSTANTS Keys,
          Extends,   \* for each key, the keys that start with it
          Workers,
          Seconds,   \* arguments of expirevar
          MaxTime,   \* bound: ticks of the clock
          MaxUnread  \* bound: keys with a record hidden by a failed mdb_get

ASSUME KeysAssumption ==
    /\ Extends \in [Keys -> SUBSET Keys]
    /\ \A k \in Keys : k \in Extends[k]
    /\ Seconds \subseteq Nat

VARIABLES db,           \* committed records
          writer,       \* the worker whose write transaction is open
          txn,          \* what each worker does in its write transaction
          now,
          expiredVars,  \* keys each worker still has to delIfExpired
          did,          \* history: the last function that took effect
          got,          \* what it returned
          unread        \* history: keys written while a failed mdb_get hid
                        \* their record

lmdbVars == <<db, writer, txn, now, expiredVars, did, got, unread>>

-----------------------------------------------------------------------------
(* CollectionData::getSerialized writes the expiry time in whole seconds   *)
(* since the epoch, and setFromSerialized reads no expiry time as 0.       *)

NoExpire == 0

Serialized == [expire : Nat, value : Values \cup {NoValue}]

getSerialized(d) ==
    [expire |-> IF hasExpiry(d) THEN d.expiry \div TicksPerSecond ELSE NoExpire,
     value  |-> d.value]

setFromSerialized(x) ==
    [expiry |-> IF x.expire > NoExpire THEN x.expire * TicksPerSecond ELSE Never,
     value  |-> x.value]

Record == [key : Keys, data : Serialized]

-----------------------------------------------------------------------------
NoWorker == "none"
Idle     == [pc |-> "idle"]

ASSUME NamesAssumption == NoWorker \notin Workers

Writes == {"store", "update", "expire", "del", "purge"}

LMDBTypeOK ==
    /\ db \subseteq Record
    /\ writer \in Workers \cup {NoWorker}
    /\ \A w \in Workers :
          /\ txn[w].pc \in {"idle", "get", "put", "commit"}
          /\ txn[w] # Idle <=> writer = w
          /\ txn[w] # Idle => /\ txn[w].op \in Writes /\ txn[w].key \in Keys
                              /\ txn[w].view \subseteq Record
                              /\ txn[w].missed \in BOOLEAN
    /\ now \in Nat
    /\ expiredVars \in [Workers -> SUBSET Keys]
    /\ did \in [Workers -> Writes \cup {"none", "resolve"}]
    /\ got \in [Workers -> SUBSET (Keys \X Values)]
    /\ unread \subseteq Keys

(* The clock stands at some time after the first second of the epoch.      *)
LMDBInit ==
    /\ db = {}
    /\ writer = NoWorker
    /\ txn = [w \in Workers |-> Idle]
    /\ now = TicksPerSecond
    /\ expiredVars = [w \in Workers |-> {}]
    /\ did = [w \in Workers |-> "none"]
    /\ got = [w \in Workers |-> {}]
    /\ unread = {}

Returns(w, op, found) == /\ did' = [did EXCEPT ![w] = op]
                         /\ got' = [got EXCEPT ![w] = found]

-----------------------------------------------------------------------------
(* A write transaction.                                                    *)

Begin(w, op, k, arg) ==
    /\ txn[w] = Idle /\ writer = NoWorker
    /\ writer' = w
    /\ txn' = [txn EXCEPT ![w] = [pc |-> "get", op |-> op, key |-> k,
                                 arg |-> arg, view |-> db, missed |-> FALSE]]
    /\ UNCHANGED <<db, now, did, got, unread>>

Call(w, op, k, arg) ==
    /\ expiredVars[w] = {}
    /\ Begin(w, op, k, arg)
    /\ UNCHANGED expiredVars

storeOrUpdateFirst(w, k, v) == Call(w, "store", k, v)
updateFirst(w, k, v)        == Call(w, "update", k, v)
del(w, k)                   == Call(w, "del", k, NoValue)
setExpiryOf(w, k, seconds)  == Call(w, "expire", k, seconds)

delIfExpired(w) ==
    \E k \in expiredVars[w] :
       /\ Begin(w, "purge", k, NoValue)
       /\ expiredVars' = [expiredVars EXCEPT ![w] = @ \ {k}]

(* txn_begin fails: the environment could not be opened, or LMDB refuses.  *)
(* The callers return, storeOrUpdateFirst with true; delIfExpired goes on  *)
(* with the next key.                                                      *)
txn_begin_fails(w) ==
    /\ txn[w] = Idle /\ expiredVars[w] # {}
    /\ \E k \in expiredVars[w] :
          expiredVars' = [expiredVars EXCEPT ![w] = @ \ {k}]
    /\ UNCHANGED <<db, writer, txn, now, did, got, unread>>

(* What mdb_get finds in the view of the writer: the records of the key.   *)
Found(w) == {r \in txn[w].view : r.key = txn[w].key}

(* The element a function writes in place of an old one.                   *)
NewElement(w, old) ==
    IF txn[w].op = "expire"
    THEN setExpiry(IF hasValue(old) THEN old ELSE EmptyData, now, txn[w].arg)
    ELSE setValue(IF hasExpiry(old) THEN old ELSE EmptyData, txn[w].arg)

Proceed(w, label, view, new, missed) ==
    txn' = [txn EXCEPT ![w] = [pc |-> label, op |-> txn[w].op,
              key |-> txn[w].key, arg |-> new, view |-> view,
              missed |-> missed]]

GoTo(w, label, view, new) == Proceed(w, label, view, new, txn[w].missed)

(* Mutant: the old record is not deleted.                                  *)
MutGet(w) ==
    /\ txn[w].pc = "get"
    /\ \/ \E r \in Found(w) :
             LET old == setFromSerialized(r.data)
             IN  GoTo(w, "put", txn[w].view, NewElement(w, old))
       \/ /\ Found(w) = {} /\ txn[w].op \in {"store", "expire"}
          /\ GoTo(w, "put", txn[w].view, NewElement(w, EmptyData))
    /\ UNCHANGED <<db, writer, now, expiredVars, did, got, unread>>

(* mdb_get and mdb_del.                                                    *)
Get(w) ==
    /\ txn[w].pc = "get"
    /\ \/ \E r \in Found(w) :
             LET old  == setFromSerialized(r.data)
                 less == txn[w].view \ {r}
             IN  CASE txn[w].op \in {"store", "update", "expire"} ->
                        GoTo(w, "put", less, NewElement(w, old))
                   [] txn[w].op = "del" -> GoTo(w, "commit", less, NoValue)
                   [] txn[w].op = "purge" ->
                        GoTo(w, "commit", IF isExpired(old, now) THEN less
                                          ELSE txn[w].view, NoValue)
       \/ /\ Found(w) = {} /\ txn[w].op \in {"store", "expire"}
          /\ GoTo(w, "put", txn[w].view, NewElement(w, EmptyData))
    /\ UNCHANGED <<db, writer, now, expiredVars, did, got, unread>>

(* mdb_put.                                                                *)
Put(w) ==
    /\ txn[w].pc = "put"
    /\ GoTo(w, "commit", txn[w].view \cup
              {[key |-> txn[w].key, data |-> getSerialized(txn[w].arg)]},
            txn[w].arg)
    /\ UNCHANGED <<db, writer, now, expiredVars, did, got, unread>>

(* mdb_txn_commit.                                                         *)
Commit(w) ==
    /\ txn[w].pc = "commit"
    /\ db' = txn[w].view
    /\ unread' = IF txn[w].missed THEN unread \cup {txn[w].key} ELSE unread
    /\ writer' = NoWorker
    /\ txn' = [txn EXCEPT ![w] = Idle]
    /\ IF txn[w].op = "purge" THEN UNCHANGED <<did, got>>
       ELSE Returns(w, txn[w].op, {})
    /\ UNCHANGED <<now, expiredVars>>

mdb_txn_abort(w) ==
    /\ writer' = NoWorker
    /\ txn' = [txn EXCEPT ![w] = Idle]
    /\ UNCHANGED <<db, now, expiredVars, did, got, unread>>

(* Mutant: a function returns without ending its transaction.              *)
MutGetFails(w) ==
    /\ txn[w].pc = "get" /\ txn[w].op \in {"update", "del", "purge"}
    /\ txn' = [txn EXCEPT ![w] = Idle]
    /\ UNCHANGED <<db, writer, now, expiredVars, did, got, unread>>

(* mdb_get fails, whether there is a record or not.  update, del and purge *)
(* end (end_get, where they end too if there is none); store and expire    *)
(* take any error for a new key and go on to mdb_put.  The library may     *)
(* refuse the other calls of a transaction in which one has failed; the    *)
(* code does not ask, and nothing of the kind is assumed.                  *)
GetFails(w) ==
    /\ txn[w].pc = "get"
    /\ \/ /\ txn[w].op \in {"store", "expire"}
          /\ Found(w) # {} => Cardinality(unread) < MaxUnread
          /\ Proceed(w, "put", txn[w].view, NewElement(w, EmptyData), Found(w) # {})
          /\ UNCHANGED <<db, writer, now, expiredVars, did, got, unread>>
       \/ txn[w].op \in {"update", "del", "purge"} /\ mdb_txn_abort(w)

(* end_del: mdb_del fails.                                                 *)
DelFails(w) == txn[w].pc = "get" /\ Found(w) # {} /\ mdb_txn_abort(w)

(* Mutant: what was done so far is committed.                              *)
MutPutFails(w) ==
    /\ txn[w].pc = "put"
    /\ db' = txn[w].view
    /\ writer' = NoWorker
    /\ txn' = [txn EXCEPT ![w] = Idle]
    /\ UNCHANGED <<now, expiredVars, did, got, unread>>

(* end_put: the value is too long, or the map is full.                     *)
PutFails(w) == txn[w].pc = "put" /\ mdb_txn_abort(w)

(* end_commit: mdb_txn_commit has freed the transaction itself.            *)
CommitFails(w) ==
    /\ txn[w].pc = "commit"
    /\ writer' = NoWorker
    /\ txn' = [txn EXCEPT ![w] = Idle]
    /\ UNCHANGED <<db, now, expiredVars, did, got, unread>>

(* The process of a worker dies and is started again.  LMDB gives the lock *)
(* of a dead writer to the next one.                                       *)
Crash(w) ==
    /\ writer' = IF writer = w THEN NoWorker ELSE writer
    /\ txn' = [txn EXCEPT ![w] = Idle]
    /\ expiredVars' = [expiredVars EXCEPT ![w] = {}]
    /\ UNCHANGED <<db, now, did, got, unread>>

-----------------------------------------------------------------------------
(* A read transaction sees one committed state: it is one step.  The keys  *)
(* of expired records are purged after it, each in a transaction.          *)

Shown(K) ==
    {p \in K \X Values : \E r \in db :
        /\ r.key = p[1]
        /\ Visible(setFromSerialized(r.data), now)
        /\ r.data.value = p[2]}

ExpiredKeys(K) ==
    {k \in K : \E r \in db : r.key = k /\ isExpired(setFromSerialized(r.data), now)}

(* Look for K, purging what expired among P.                               *)
LookAt(w, K, P) ==
    /\ txn[w] = Idle /\ expiredVars[w] = {}
    /\ Returns(w, "resolve", Shown(K))
    /\ expiredVars' = [expiredVars EXCEPT ![w] = ExpiredKeys(P)]
    /\ UNCHANGED <<db, writer, txn, now, unread>>

resolveFirst(w, k) == LookAt(w, {k}, {k})

(* Records whose key starts with the one asked for; whatever expired is    *)
(* purged, and the exclusions of the variable are not looked at.           *)
resolveMultiMatches(w, k) == LookAt(w, Extends[k], Keys)

(* matched are the keys in which the expression is found.                  *)
resolveRegularExpression(w, matched, omit) == LookAt(w, matched \ omit, Keys)

(* The read transaction fails: nothing is found.                           *)
ReadFails(w) == LookAt(w, {}, {})

(* A tick is longer than a write transaction.                              *)
Tick == /\ now < MaxTime
        /\ writer = NoWorker
        /\ now' = now + 1
        /\ UNCHANGED <<db, writer, txn, expiredVars, did, got, unread>>

-----------------------------------------------------------------------------
Write(w, k) ==
    \/ \E v \in Values : storeOrUpdateFirst(w, k, v) \/ updateFirst(w, k, v)
    \/ \E s \in Seconds : setExpiryOf(w, k, s)
    \/ del(w, k)

Read(w) ==
    \/ \E k \in Keys : resolveFirst(w, k) \/ resolveMultiMatches(w, k)
    \/ \E matched \in SUBSET Keys : \E omit \in SUBSET matched :
          resolveRegularExpression(w, matched, omit)
    \/ ReadFails(w)

Transact(w) == \/ Get(w) \/ GetFails(w) \/ DelFails(w)
               \/ Put(w) \/ PutFails(w)
               \/ Commit(w) \/ CommitFails(w)

LMDBNext == \/ \E w \in Workers : \/ \E k \in Keys : Write(w, k)
                                  \/ Read(w)
                                  \/ delIfExpired(w) \/ txn_begin_fails(w)
                                  \/ Transact(w)
                                  \/ Crash(w)
            \/ Tick

LMDBSpec == LMDBInit /\ [][LMDBNext]_lmdbVars

(* A worker inside a transaction keeps running.                            *)
LMDBFairSpec == LMDBSpec /\ \A w \in Workers : WF_lmdbVars(Transact(w))

-----------------------------------------------------------------------------
(* The database holds two records of a key, which MDB_DUPSORT allows, only *)
(* if a function put one while a failed mdb_get hid the other: all others  *)
(* delete what they found before they put, in one transaction.  mdb_get    *)
(* and mdb_del see only one of several records.                            *)
OneRecordPerKey ==
    \A r, s \in db : r.key = s.key /\ r.key \notin unread => r = s

(* The backend implements a Collection in which elements expire less than  *)
(* a second early.                                                         *)
ElementOf(k) ==
    IF \E r \in db : r.key = k
    THEN setFromSerialized((CHOOSE r \in db : r.key = k).data)
    ELSE EmptyData

Abstract == INSTANCE Collection WITH
               data <- [k \in Keys |-> ElementOf(k)],
               Slack <- TicksPerSecond - 1

(* A function takes effect as a whole or not at all, whatever fails and    *)
(* whenever a process dies, until a put of a key whose record a failed     *)
(* mdb_get hid is committed; from then on the old record may come back.    *)
ImplementsCollection ==
    Abstract!Init /\ [][unread' = {} => Abstract!Next]_Abstract!vars

(* Every write transaction ends, on every path through its errors: the     *)
(* other workers are never locked out.                                     *)
WriterLeaves == \A w \in Workers : writer = w ~> writer # w
=============================================================================
