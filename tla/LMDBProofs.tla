----------------------------- MODULE LMDBProofs -----------------------------
(***************************************************************************)
(* The LMDB backend keeps one record per key and implements a Collection,  *)
(* for every set of workers and keys, whatever call of the library fails   *)
(* and whenever a process dies.                                            *)
(***************************************************************************)
EXTENDS LMDB, TLAPS

-----------------------------------------------------------------------------
(* The inductive invariant.                                                *)

(* A worker is in a transaction exactly if it is the writer.               *)
TransactionsTyped ==
    /\ txn = [w \in Workers |-> txn[w]]
    /\ \A w \in Workers :
          \/ txn[w] = Idle /\ writer # w
          \/ /\ writer = w /\ txn[w].pc \in {"get", "put", "commit"}
             /\ txn[w].op \in Writes /\ txn[w].key \in Keys
             /\ txn[w].view \subseteq Record /\ txn[w].missed \in BOOLEAN

(* setvar writes a value and expirevar an expiry time: no record is empty. *)
NotBare(r) == r.data.value # NoValue \/ r.data.expire > NoExpire

NoBareRecord == \A r \in db : NotBare(r)

(* The clock is past the first second, whose number 0 means no expiry.     *)
Epoch == now \in Nat /\ now >= TicksPerSecond

(* An element is what was read from its record, or it has no record.       *)
Readable(d) == d = EmptyData \/ \E x \in Serialized : d = setFromSerialized(x)

(* What a function may put: a value or an expiry time added to an element. *)
Writable(d) ==
    \E e : /\ Readable(e)
           /\ \/ \E v \in Values : d = setValue(e, v)
              \/ \E s \in Seconds : d = setExpiry(e, now, s)

(* The view of a writer, at each step of its function: the database as it  *)
(* is, that without the record of the key, or that with the new record.    *)
(* If mdb_get failed over the record, it is still there; if that happened  *)
(* before, one record of several is gone.                                  *)
Others(k) == {r \in db : r.key # k}

Clean(w) == ~txn[w].missed /\ txn[w].key \notin unread

Promised(w, d) ==
    LET old == ElementOf(txn[w].key)
    IN  \/ /\ txn[w].op = "store" \/ (txn[w].op = "update" /\ old # EmptyData)
           /\ \E v \in Values : d = setValue(old, v)
        \/ /\ txn[w].op = "expire"
           /\ \E s \in Seconds : d = setExpiry(old, now, s)

AtGet(w) ==
    /\ txn[w].view = db /\ ~txn[w].missed
    /\ txn[w].op \in {"store", "update"} => txn[w].arg \in Values
    /\ txn[w].op = "expire" => txn[w].arg \in Seconds

AtPut(w) == /\ Others(txn[w].key) \subseteq txn[w].view
            /\ txn[w].view \subseteq db
            /\ Writable(txn[w].arg)
            /\ Clean(w) => /\ txn[w].view = Others(txn[w].key)
                           /\ Promised(w, txn[w].arg)

Planned(w) ==
    \/ /\ Promised(w, txn[w].arg)
       /\ txn[w].view = Others(txn[w].key) \cup
             {[key |-> txn[w].key, data |-> getSerialized(txn[w].arg)]}
    \/ /\ txn[w].op = "del"
       /\ txn[w].view = Others(txn[w].key)
    \/ /\ txn[w].op = "purge"
       /\ \/ txn[w].view = db
          \/ /\ isExpired(ElementOf(txn[w].key), now)
             /\ txn[w].view = Others(txn[w].key)

AtCommit(w) ==
    /\ {r \in txn[w].view : r.key # txn[w].key} = Others(txn[w].key)
    /\ \A r \in txn[w].view : NotBare(r)
    /\ Clean(w) => Planned(w)

ViewIsPlanned ==
    \A w \in Workers : /\ txn[w].pc = "get" => AtGet(w)
                       /\ txn[w].pc = "put" => AtPut(w)
                       /\ txn[w].pc = "commit" => AtCommit(w)

History == /\ expiredVars \in [Workers -> SUBSET Keys]
           /\ did \in [Workers -> Writes \cup {"none", "resolve"}]
           /\ got \in [Workers -> SUBSET (Keys \X Values)]
           /\ unread \subseteq Keys

Stored == db \subseteq Record /\ OneRecordPerKey /\ NoBareRecord

Inv == /\ Stored /\ Epoch /\ History
       /\ writer \in Workers \cup {NoWorker}
       /\ TransactionsTyped /\ ViewIsPlanned

-----------------------------------------------------------------------------
(* Seconds and ticks.                                                      *)

LEMMA WholeSeconds ==
    ASSUME NEW t \in Nat
    PROVE  /\ t \div TicksPerSecond \in Nat
           /\ t - (t \div TicksPerSecond) * TicksPerSecond
                 \in 0 .. (TicksPerSecond - 1)
           /\ t >= TicksPerSecond => t \div TicksPerSecond > 0
<1> DEFINE T == TicksPerSecond
<1>0. T \in Nat \ {0}
  BY DataAssumption
<1> HIDE DEF T
<1>1. /\ t \div T \in Int /\ t % T \in 0 .. (T - 1)
      /\ t = T * (t \div T) + (t % T)
  BY <1>0
<1>2. t \div T \in Nat /\ t - (t \div T) * T \in 0 .. (T - 1)
  BY <1>0, <1>1
<1>3. t >= T => t \div T > 0
  BY <1>0
<1> QED
  BY <1>2, <1>3 DEF T

LEMMA SecondsBack ==
    ASSUME NEW s \in Nat
    PROVE  (s * TicksPerSecond) \div TicksPerSecond = s
<1> DEFINE T == TicksPerSecond
<1>0. T \in Nat \ {0}
  BY DataAssumption
<1> HIDE DEF T
<1>1. (s * T) \div T = s
  BY <1>0
<1> QED
  BY <1>1 DEF T

(* Writing a value keeps the expiry time as it was read.                   *)
LEMMA ValueSurvives ==
    ASSUME NEW d, Readable(d), NEW v \in Values
    PROVE  /\ getSerialized(setValue(d, v)) \in Serialized
           /\ getSerialized(setValue(d, v)).value = v
           /\ setFromSerialized(getSerialized(setValue(d, v))) = setValue(d, v)
<1> DEFINE y == getSerialized(setValue(d, v))
<1>1. CASE d.expiry = Never
  <2>1. d.value = d.value /\ d = [value |-> d.value, expiry |-> Never]
    BY <1>1 DEF Readable, EmptyData, setFromSerialized
  <2>2. setValue(d, v) = [value |-> v, expiry |-> Never]
    BY <2>1 DEF setValue
  <2>3. y = [expire |-> NoExpire, value |-> v]
    BY <2>2 DEF getSerialized, hasExpiry
  <2> QED
    BY <2>2, <2>3 DEF setFromSerialized, Serialized, NoExpire
<1>2. CASE d.expiry # Never
  <2>1. PICK x \in Serialized : d = setFromSerialized(x)
    BY <1>2 DEF Readable, EmptyData
  <2>2. x.expire \in Nat /\ x.expire > NoExpire
    BY <1>2, <2>1 DEF setFromSerialized, Serialized
  <2>3. setValue(d, v) = [value |-> v, expiry |-> x.expire * TicksPerSecond]
    BY <2>1, <2>2 DEF setFromSerialized, setValue
  <2>4. x.expire * TicksPerSecond # Never
    BY <1>2, <2>1, <2>2 DEF setFromSerialized
  <2>5. y = [expire |-> x.expire, value |-> v]
    BY <2>2, <2>3, <2>4, SecondsBack DEF getSerialized, hasExpiry
  <2> QED
    BY <2>2, <2>3, <2>5 DEF setFromSerialized, Serialized
<1> QED
  BY <1>1, <1>2

(* An expiry time is rounded down to a whole second, less than a second    *)
(* early, and never to the 0 that means none.                              *)
LEMMA ExpiryRoundsDown ==
    ASSUME NEW d, Readable(d), Epoch, NEW s \in Seconds
    PROVE  /\ getSerialized(setExpiry(d, now, s)) \in Serialized
           /\ getSerialized(setExpiry(d, now, s)).expire > NoExpire
           /\ \E early \in 0 .. (TicksPerSecond - 1) :
                 setFromSerialized(getSerialized(setExpiry(d, now, s))) =
                    setExpiry(d, now - early, s)
<1> DEFINE e == now + s * TicksPerSecond
           f == e \div TicksPerSecond
           early == e - f * TicksPerSecond
           y == getSerialized(setExpiry(d, now, s))
<1>0. /\ s \in Nat /\ now \in Nat /\ now >= TicksPerSecond
      /\ TicksPerSecond \in Nat \ {0}
  BY KeysAssumption, DataAssumption DEF Epoch
<1>1. e \in Nat /\ e >= TicksPerSecond /\ s * TicksPerSecond \in Nat
  BY <1>0
<1>2. f \in Nat /\ f > 0 /\ early \in 0 .. (TicksPerSecond - 1)
  BY <1>1, WholeSeconds
<1>3. f * TicksPerSecond \in Nat
  BY <1>0, <1>2
<1>4. /\ d.value \in Values \cup {NoValue}
      /\ d = [value |-> d.value, expiry |-> d.expiry]
  BY DEF Readable, EmptyData, setFromSerialized, Serialized
<1>5. setExpiry(d, now, s) = [value |-> d.value, expiry |-> e]
  BY <1>4 DEF setExpiry
<1>6. y = [expire |-> f, value |-> d.value]
  BY <1>1, <1>5, DataAssumption DEF getSerialized, hasExpiry
<1>7. setFromSerialized(y) = [value |-> d.value, expiry |-> f * TicksPerSecond]
  BY <1>2, <1>6 DEF setFromSerialized, NoExpire
<1>8. f * TicksPerSecond = now - early + s * TicksPerSecond
  BY <1>0, <1>1, <1>2, <1>3
<1>9. setFromSerialized(y) = setExpiry(d, now - early, s)
  BY <1>4, <1>7, <1>8 DEF setExpiry
<1> QED
  BY <1>2, <1>4, <1>6, <1>9 DEF Serialized, NoExpire

-----------------------------------------------------------------------------
(* The element of a key in a set of records.                               *)

Element(D, k) == IF \E r \in D : r.key = k
                 THEN setFromSerialized((CHOOSE r \in D : r.key = k).data)
                 ELSE EmptyData

Single(D, k) == \A r, s \in D : r.key = k /\ s.key = k => r = s

LEMMA ElementOfRecord ==
    ASSUME NEW D, NEW r \in D, Single(D, r.key)
    PROVE  Element(D, r.key) = setFromSerialized(r.data)
<1> DEFINE c == CHOOSE s \in D : s.key = r.key
<1>1. c \in D /\ c.key = r.key
  OBVIOUS
<1>2. c = r
  BY <1>1 DEF Single
<1> QED
  BY <1>2 DEF Element

LEMMA ElementsAreReadable ==
    ASSUME Stored, NEW k
    PROVE  /\ Readable(ElementOf(k))
           /\ \A r \in db : Readable(setFromSerialized(r.data))
           /\ k \notin unread =>
                 \A r \in db : r.key = k => ElementOf(k) = setFromSerialized(r.data)
           /\ (\A r \in db : r.key # k) => ElementOf(k) = EmptyData
           /\ (\E r \in db : r.key = k) => ElementOf(k) # EmptyData
<1>1. k \notin unread =>
         \A r \in db : r.key = k => ElementOf(k) = setFromSerialized(r.data)
  BY ElementOfRecord DEF Stored, OneRecordPerKey, Single, Element, ElementOf
<1>2. (\A r \in db : r.key # k) => ElementOf(k) = EmptyData
  BY DEF ElementOf
<1>3. \A r \in db : Readable(setFromSerialized(r.data))
  BY DEF Readable, Stored, Record
<1>4. ASSUME \E r \in db : r.key = k
      PROVE  Readable(ElementOf(k)) /\ ElementOf(k) # EmptyData
  <2>1. PICK r \in db : ElementOf(k) = setFromSerialized(r.data)
    BY <1>4 DEF ElementOf
  <2>2. r.data \in Serialized
    BY DEF Stored, Record
  <2>3. r.data.value # NoValue \/ r.data.expire > NoExpire
    BY DEF Stored, NoBareRecord, NotBare
  <2>4. r.data.expire > NoExpire => r.data.expire * TicksPerSecond \in Nat
    BY <2>2, DataAssumption DEF Serialized
  <2>5. ElementOf(k) # EmptyData
    BY <2>1, <2>3, <2>4, DataAssumption DEF setFromSerialized, EmptyData
  <2> QED
    BY <1>3, <2>1, <2>5
<1> QED
  BY <1>1, <1>2, <1>3, <1>4 DEF Readable

LEMMA PutsARecord ==
    ASSUME Epoch, NEW d, Writable(d)
    PROVE  /\ getSerialized(d) \in Serialized
           /\ getSerialized(d).value # NoValue \/ getSerialized(d).expire > NoExpire
<1>1. PICK e : /\ Readable(e)
               /\ \/ \E v \in Values : d = setValue(e, v)
                  \/ \E s \in Seconds : d = setExpiry(e, now, s)
  BY DEF Writable
<1>2. ASSUME NEW v \in Values, d = setValue(e, v)
      PROVE  getSerialized(d) \in Serialized /\ getSerialized(d).value # NoValue
  BY <1>1, <1>2, ValueSurvives, DataAssumption
<1>3. ASSUME NEW s \in Seconds, d = setExpiry(e, now, s)
      PROVE  getSerialized(d) \in Serialized /\ getSerialized(d).expire > NoExpire
  BY <1>1, <1>3, ExpiryRoundsDown
<1> QED
  BY <1>1, <1>2, <1>3

(* Committing the database without the record of a key.                    *)
LEMMA CommitWithout ==
    ASSUME Stored, Stored', unread = {}, unread' = {},
           NEW k \in Keys, db' = Others(k)
    PROVE  [c \in Keys |-> ElementOf(c)]' =
              [[c \in Keys |-> ElementOf(c)] EXCEPT ![k] = EmptyData]
<1>2. \A c : Single(db, c) /\ Single(db', c)
  BY DEF Stored, OneRecordPerKey, Single
<1>3. \A c : ElementOf(c) = Element(db, c) /\ ElementOf(c)' = Element(db', c)
  BY DEF ElementOf, Element
<1>4. Element(db', k) = EmptyData
  BY DEF Element, Others
<1>5. ASSUME NEW c \in Keys, c # k
      PROVE  Element(db', c) = Element(db, c)
  <2>1. CASE \E r \in db : r.key = c
    <3>1. PICK r \in db : r.key = c
      BY <2>1
    <3>2. r \in db'
      BY <1>5, <3>1 DEF Others
    <3> QED
      BY <1>2, <3>1, <3>2, ElementOfRecord
  <2>2. CASE ~\E r \in db : r.key = c
    BY <2>2 DEF Element, Others
  <2> QED
    BY <2>1, <2>2
<1> QED
  BY <1>3, <1>4, <1>5

(* Committing it with a new record of the key.                             *)
LEMMA CommitWith ==
    ASSUME Stored, Stored', unread = {}, unread' = {}, NEW k \in Keys, NEW x,
           db' = Others(k) \cup {[key |-> k, data |-> x]}
    PROVE  [c \in Keys |-> ElementOf(c)]' =
              [[c \in Keys |-> ElementOf(c)] EXCEPT ![k] = setFromSerialized(x)]
<1> DEFINE n == [key |-> k, data |-> x]
<1>0. n.key = k /\ n.data = x /\ db' = Others(k) \cup {n}
  OBVIOUS
<1> HIDE DEF n
<1>2. \A c : Single(db, c) /\ Single(db', c)
  BY DEF Stored, OneRecordPerKey, Single
<1>3. \A c : ElementOf(c) = Element(db, c) /\ ElementOf(c)' = Element(db', c)
  BY DEF ElementOf, Element
<1>4. Element(db', k) = setFromSerialized(x)
  <2>1. n \in db'
    BY <1>0
  <2> QED
    BY <1>0, <1>2, <2>1, ElementOfRecord
<1>5. ASSUME NEW c \in Keys, c # k
      PROVE  Element(db', c) = Element(db, c)
  <2>1. CASE \E r \in db : r.key = c
    <3>1. PICK r \in db : r.key = c
      BY <2>1
    <3>2. r \in db'
      BY <1>5, <3>1 DEF Others
    <3> QED
      BY <1>2, <3>1, <3>2, ElementOfRecord
  <2>2. CASE ~\E r \in db : r.key = c
    <3>1. ~\E r \in db' : r.key = c
      BY <1>0, <1>5, <2>2 DEF Others
    <3> QED
      BY <2>2, <3>1 DEF Element
  <2> QED
    BY <2>1, <2>2
<1> QED
  BY <1>3, <1>4, <1>5

-----------------------------------------------------------------------------
(* One writer at a time: how its record in txn changes.                    *)

(* What holds of a worker inside a transaction.                            *)
LEMMA Inside ==
    ASSUME Inv, NEW w \in Workers, txn[w].pc # "idle"
    PROVE  /\ writer = w /\ txn[w].pc \in {"get", "put", "commit"}
           /\ txn[w].op \in Writes /\ txn[w].key \in Keys
           /\ txn[w].view \in SUBSET Record /\ txn[w].missed \in BOOLEAN
BY DEF Inv, TransactionsTyped, Idle

(* A writer goes on, or an idle worker becomes the writer.                 *)
LEMMA WriterAt ==
    ASSUME Inv, NEW w \in Workers, writer \in {w, NoWorker}, writer' = w,
           NEW t, txn' = [txn EXCEPT ![w] = t],
           t.pc \in {"get", "put", "commit"}, t.op \in Writes, t.key \in Keys,
           t.view \subseteq Record, t.missed \in BOOLEAN
    PROVE  /\ TransactionsTyped'
           /\ txn'[w] = t
           /\ \A o \in Workers : o # w => txn'[o].pc = "idle"
<1>1. \A o \in Workers : o # w => txn'[o] = Idle
  BY NamesAssumption DEF Inv, TransactionsTyped
<1>2. txn'[w] = t
  BY DEF Inv, TransactionsTyped
<1>3. txn' = [o \in Workers |-> txn'[o]]
  BY DEF Inv, TransactionsTyped
<1> QED
  BY <1>1, <1>2, <1>3 DEF TransactionsTyped, Idle

LEMMA Proceeds ==
    ASSUME Inv, NEW w \in Workers, txn[w].pc # "idle", writer' = writer,
           NEW label \in {"put", "commit"}, NEW new, NEW view \in SUBSET Record,
           NEW missed \in BOOLEAN, Proceed(w, label, view, new, missed)
    PROVE  /\ TransactionsTyped'
           /\ txn'[w] = [pc |-> label, op |-> txn[w].op, key |-> txn[w].key,
                         arg |-> new, view |-> view, missed |-> missed]
           /\ \A o \in Workers : o # w => txn'[o].pc = "idle"
<1>1. /\ writer = w /\ writer' = w
      /\ txn[w].op \in Writes /\ txn[w].key \in Keys
  BY Inside
<1> DEFINE t == [pc |-> label, op |-> txn[w].op, key |-> txn[w].key,
                 arg |-> new, view |-> view, missed |-> missed]
<1>2. txn' = [txn EXCEPT ![w] = t]
  BY DEF Proceed
<1>3. /\ t.pc \in {"get", "put", "commit"} /\ t.op \in Writes /\ t.key \in Keys
      /\ t.view \subseteq Record /\ t.missed \in BOOLEAN
  BY <1>1
<1> HIDE DEF t
<1>4. /\ TransactionsTyped' /\ txn'[w] = t
      /\ \A o \in Workers : o # w => txn'[o].pc = "idle"
  BY <1>1, <1>2, <1>3, WriterAt
<1> QED
  BY <1>4 DEF t

LEMMA GoesTo ==
    ASSUME Inv, NEW w \in Workers, txn[w].pc # "idle", writer' = writer,
           NEW label \in {"put", "commit"}, NEW new, NEW view \in SUBSET Record,
           GoTo(w, label, view, new)
    PROVE  /\ TransactionsTyped'
           /\ txn'[w] = [pc |-> label, op |-> txn[w].op, key |-> txn[w].key,
                         arg |-> new, view |-> view, missed |-> txn[w].missed]
           /\ \A o \in Workers : o # w => txn'[o].pc = "idle"
BY Inside, Proceeds DEF GoTo

(* The writer leaves.                                                      *)
LEMMA WriterGone ==
    ASSUME Inv, NEW w \in Workers, writer = w, writer' = NoWorker,
           txn' = [txn EXCEPT ![w] = Idle]
    PROVE  TransactionsTyped' /\ ViewIsPlanned'
<1>1. \A o \in Workers : txn'[o] = Idle
  BY DEF Inv, TransactionsTyped
<1>2. txn' = [o \in Workers |-> txn'[o]]
  BY DEF Inv, TransactionsTyped
<1>3. TransactionsTyped'
  BY <1>1, <1>2, NamesAssumption DEF TransactionsTyped
<1>4. ViewIsPlanned'
  BY <1>1 DEF ViewIsPlanned, Idle
<1> QED
  BY <1>3, <1>4

-----------------------------------------------------------------------------
(* Every step keeps the invariant and is a step of the Collection or none. *)

LEMMA DatabaseKept ==
    ASSUME Inv, UNCHANGED <<db, now, did, got, unread>>
    PROVE  /\ UNCHANGED Abstract!vars
           /\ Stored' /\ Epoch'
           /\ \A k : ElementOf(k)' = ElementOf(k) /\ Others(k)' = Others(k)
<1>1. \A k : ElementOf(k)' = ElementOf(k) /\ Others(k)' = Others(k)
  BY DEF ElementOf, Others
<1>2. UNCHANGED Abstract!vars
  BY <1>1 DEF Abstract!vars
<1> QED
  BY <1>1, <1>2 DEF Inv, Stored, OneRecordPerKey, NoBareRecord, Epoch

LEMMA BeginStep ==
    ASSUME Inv, NEW w \in Workers, NEW op \in Writes, NEW k \in Keys, NEW arg,
           op \in {"store", "update"} => arg \in Values,
           op = "expire" => arg \in Seconds,
           expiredVars' \in [Workers -> SUBSET Keys],
           Begin(w, op, k, arg)
    PROVE  Inv' /\ UNCHANGED Abstract!vars
<1>0. UNCHANGED <<db, now, did, got, unread>> /\ writer = NoWorker /\ writer' = w
  BY DEF Begin
<1>1. UNCHANGED Abstract!vars /\ Stored' /\ Epoch'
  BY <1>0, DatabaseKept
<1>2. db \in SUBSET Record
  BY DEF Inv, Stored
<1>3. /\ TransactionsTyped'
      /\ txn'[w] = [pc |-> "get", op |-> op, key |-> k, arg |-> arg,
                    view |-> db, missed |-> FALSE]
      /\ \A o \in Workers : o # w => txn'[o].pc = "idle"
  <2> DEFINE t == [pc |-> "get", op |-> op, key |-> k, arg |-> arg,
                   view |-> db, missed |-> FALSE]
  <2>1. txn' = [txn EXCEPT ![w] = t]
    BY DEF Begin
  <2>2. /\ t.pc \in {"get", "put", "commit"} /\ t.op \in Writes
        /\ t.key \in Keys /\ t.view \subseteq Record /\ t.missed \in BOOLEAN
    BY <1>2
  <2> HIDE DEF t
  <2>3. /\ TransactionsTyped' /\ txn'[w] = t
        /\ \A o \in Workers : o # w => txn'[o].pc = "idle"
    BY <1>0, <2>1, <2>2, WriterAt
  <2> QED
    BY <2>3 DEF t
<1>4. ViewIsPlanned'
  BY <1>0, <1>3 DEF ViewIsPlanned, AtGet
<1> QED
  BY <1>0, <1>1, <1>3, <1>4 DEF Inv, History

LEMMA WriteStep ==
    ASSUME Inv, NEW w \in Workers, NEW k \in Keys, Write(w, k)
    PROVE  Inv' /\ UNCHANGED Abstract!vars
<1>1. ASSUME NEW v \in Values, storeOrUpdateFirst(w, k, v) \/ updateFirst(w, k, v)
      PROVE  Inv' /\ UNCHANGED Abstract!vars
  BY <1>1, BeginStep
  DEF storeOrUpdateFirst, updateFirst, Call, Inv, History, Writes
<1>2. ASSUME NEW s \in Seconds, setExpiryOf(w, k, s)
      PROVE  Inv' /\ UNCHANGED Abstract!vars
  BY <1>2, BeginStep DEF setExpiryOf, Call, Inv, History, Writes
<1>3. CASE del(w, k)
  BY <1>3, BeginStep DEF del, Call, Inv, History, Writes
<1> QED
  BY <1>1, <1>2, <1>3 DEF Write

LEMMA PurgeBegins ==
    ASSUME Inv, NEW w \in Workers, delIfExpired(w)
    PROVE  Inv' /\ UNCHANGED Abstract!vars
<1>1. PICK k \in expiredVars[w] :
         /\ Begin(w, "purge", k, NoValue)
         /\ expiredVars' = [expiredVars EXCEPT ![w] = @ \ {k}]
  BY DEF delIfExpired
<1>2. k \in Keys /\ expiredVars' \in [Workers -> SUBSET Keys]
  BY <1>1 DEF Inv, History
<1> QED
  BY <1>1, <1>2, BeginStep DEF Writes

(* The worker keeps its hands off the database: nothing is begun.          *)
LEMMA NothingBegun ==
    ASSUME Inv, UNCHANGED <<db, writer, txn, now, did, got, unread>>,
           expiredVars' \in [Workers -> SUBSET Keys]
    PROVE  Inv' /\ UNCHANGED Abstract!vars
<1>1. /\ UNCHANGED Abstract!vars /\ Stored' /\ Epoch'
      /\ \A k : ElementOf(k)' = ElementOf(k) /\ Others(k)' = Others(k)
  BY DatabaseKept
<1>2. TransactionsTyped'
  BY DEF Inv, TransactionsTyped
<1>3. ViewIsPlanned'
  BY <1>1 DEF Inv, ViewIsPlanned, AtGet, AtPut, AtCommit, Promised, Planned,
     Clean, Writable
<1> QED
  BY <1>1, <1>2, <1>3 DEF Inv, History

LEMMA BeginFails ==
    ASSUME Inv, NEW w \in Workers, txn_begin_fails(w)
    PROVE  Inv' /\ UNCHANGED Abstract!vars
<1>1. expiredVars' \in [Workers -> SUBSET Keys]
  BY DEF txn_begin_fails, Inv, History
<1> QED
  BY <1>1, NothingBegun DEF txn_begin_fails

(* What a function puts in place of an element.                            *)
LEMMA NewElementIs ==
    ASSUME Inv, NEW w \in Workers, txn[w].pc = "get",
           txn[w].op \in {"store", "update", "expire"},
           NEW old, Readable(old)
    PROVE  /\ \/ /\ txn[w].op # "expire"
                 /\ \E v \in Values : NewElement(w, old) = setValue(old, v)
              \/ /\ txn[w].op = "expire"
                 /\ \E s \in Seconds : NewElement(w, old) = setExpiry(old, now, s)
           /\ Writable(NewElement(w, old))
<1>2. old = [value |-> old.value, expiry |-> old.expiry]
  BY DEF Readable, EmptyData, setFromSerialized
<1>3. AtGet(w)
  BY DEF Inv, ViewIsPlanned
<1>4. CASE txn[w].op = "expire"
  <2>1. txn[w].arg \in Seconds
    BY <1>3, <1>4 DEF AtGet
  <2>2. NewElement(w, old) = setExpiry(old, now, txn[w].arg)
    <3>1. CASE hasValue(old)
      BY <1>4, <3>1 DEF NewElement
    <3>2. CASE ~hasValue(old)
      BY <1>2, <1>4, <3>2 DEF NewElement, hasValue, setExpiry, EmptyData
    <3> QED
      BY <3>1, <3>2
  <2> QED
    BY <1>4, <2>1, <2>2 DEF Writable
<1>5. CASE txn[w].op # "expire"
  <2>1. txn[w].arg \in Values
    BY <1>3, <1>5 DEF AtGet
  <2>2. NewElement(w, old) = setValue(old, txn[w].arg)
    <3>1. CASE hasExpiry(old)
      BY <1>5, <3>1 DEF NewElement
    <3>2. CASE ~hasExpiry(old)
      BY <1>2, <1>5, <3>2 DEF NewElement, hasExpiry, setValue, EmptyData
    <3> QED
      BY <3>1, <3>2
  <2> QED
    BY <1>5, <2>1, <2>2 DEF Writable
<1> QED
  BY <1>4, <1>5

LEMMA Unchanged ==
    ASSUME UNCHANGED <<db, now, unread>>
    PROVE  /\ \A c : ElementOf(c)' = ElementOf(c) /\ Others(c)' = Others(c)
           /\ \A d : Writable(d)' <=> Writable(d)
BY DEF ElementOf, Others, Writable

LEMMA GetStep ==
    ASSUME Inv, NEW w \in Workers, Get(w)
    PROVE  Inv' /\ UNCHANGED Abstract!vars
<1> DEFINE k == txn[w].key
           old == ElementOf(txn[w].key)
           single == txn[w].key \notin unread
<1>0. /\ txn[w].pc = "get" /\ AtGet(w)
      /\ UNCHANGED <<db, writer, now, expiredVars, did, got, unread>>
  BY DEF Get, Inv, ViewIsPlanned
<1>1. /\ UNCHANGED Abstract!vars /\ Stored' /\ Epoch'
      /\ \A c : ElementOf(c)' = ElementOf(c) /\ Others(c)' = Others(c)
      /\ \A d : Writable(d)' <=> Writable(d)
  BY <1>0, DatabaseKept, Unchanged
<1>2. /\ writer = w /\ txn[w].op \in Writes /\ k \in Keys
      /\ Stored /\ db \in SUBSET Record /\ txn[w].missed = FALSE
      /\ \A r \in db : NotBare(r)
  BY <1>0, Inside DEF Inv, Stored, NoBareRecord, AtGet
<1>3. /\ \A r \in Found(w) : /\ r \in db /\ Readable(setFromSerialized(r.data))
                             /\ db \ {r} \in SUBSET Record
                             /\ Others(k) \subseteq db \ {r}
                             /\ old # EmptyData
                             /\ single => /\ old = setFromSerialized(r.data)
                                          /\ db \ {r} = Others(k)
      /\ Found(w) = {} => db = Others(k) /\ old = EmptyData
  <2>1. Found(w) = {r \in db : r.key = k}
    BY <1>0 DEF Found, AtGet
  <2>2. \A r \in Found(w) : single => db \ {r} = Others(k)
    BY <1>2, <2>1 DEF Others, Stored, OneRecordPerKey
  <2>3. \A r \in Found(w) : Others(k) \subseteq db \ {r} /\ db \ {r} \in SUBSET Record
    BY <1>2, <2>1 DEF Others
  <2>4. \A r \in Found(w) : /\ Readable(setFromSerialized(r.data)) /\ old # EmptyData
                            /\ single => old = setFromSerialized(r.data)
    BY <1>2, <2>1, ElementsAreReadable
  <2>5. Found(w) = {} => db = Others(k) /\ old = EmptyData
    BY <1>2, <2>1, ElementsAreReadable DEF Others
  <2> QED
    BY <2>1, <2>2, <2>3, <2>4, <2>5
<1>4. ASSUME NEW view \in SUBSET Record, NEW e, Readable(e),
             Others(k) \subseteq view, view \subseteq db,
             txn[w].op \in {"store", "update", "expire"},
             txn[w].op = "update" => old # EmptyData,
             single => view = Others(k) /\ e = old,
             GoTo(w, "put", view, NewElement(w, e))
      PROVE  Inv'
  <2>1. /\ TransactionsTyped'
        /\ txn'[w] = [pc |-> "put", op |-> txn[w].op, key |-> k,
                      arg |-> NewElement(w, e), view |-> view, missed |-> txn[w].missed]
        /\ \A o \in Workers : o # w => txn'[o].pc = "idle"
    BY <1>0, <1>4, GoesTo
  <2>2. Writable(txn[w].arg)'
    BY <1>0, <1>1, <1>4, <2>1, NewElementIs
  <2>3. Clean(w)' => single
    BY <1>0, <2>1 DEF Clean
  <2>4. single => Promised(w, txn[w].arg)'
    BY <1>0, <1>1, <1>4, <2>1, NewElementIs DEF Promised
  <2>5. AtPut(w)'
    BY <1>0, <1>1, <1>4, <2>1, <2>2, <2>3, <2>4 DEF AtPut
  <2>6. ViewIsPlanned'
    BY <2>1, <2>5 DEF ViewIsPlanned
  <2> QED
    BY <1>0, <1>1, <2>1, <2>6 DEF Inv, History
<1>5. ASSUME NEW view \in SUBSET Record,
             Others(k) \subseteq view, view \subseteq db,
             \/ txn[w].op = "del" /\ (single => view = Others(k))
             \/ /\ txn[w].op = "purge"
                /\ \/ view = db
                   \/ single => isExpired(old, now) /\ view = Others(k),
             GoTo(w, "commit", view, NoValue)
      PROVE  Inv'
  <2>1. /\ TransactionsTyped'
        /\ txn'[w] = [pc |-> "commit", op |-> txn[w].op, key |-> k,
                      arg |-> NoValue, view |-> view, missed |-> txn[w].missed]
        /\ \A o \in Workers : o # w => txn'[o].pc = "idle"
    BY <1>0, <1>5, GoesTo
  <2>2. {r \in view : r.key # k} = Others(k) /\ \A r \in view : NotBare(r)
    BY <1>2, <1>5 DEF Others
  <2>3. Clean(w)' => single
    BY <1>0, <2>1 DEF Clean
  <2>4. single => Planned(w)'
    BY <1>0, <1>1, <1>5, <2>1 DEF Planned
  <2>5. AtCommit(w)'
    BY <1>1, <2>1, <2>2, <2>3, <2>4 DEF AtCommit
  <2>6. ViewIsPlanned'
    BY <2>1, <2>5 DEF ViewIsPlanned
  <2> QED
    BY <1>0, <1>1, <2>1, <2>6 DEF Inv, History
<1>7. CASE \E r \in Found(w) :
             LET was  == setFromSerialized(r.data)
                 less == txn[w].view \ {r}
             IN  CASE txn[w].op \in {"store", "update", "expire"} ->
                        GoTo(w, "put", less, NewElement(w, was))
                   [] txn[w].op = "del" -> GoTo(w, "commit", less, NoValue)
                   [] txn[w].op = "purge" ->
                        GoTo(w, "commit", IF isExpired(was, now) THEN less
                                          ELSE txn[w].view, NoValue)
  <2>1. PICK r \in Found(w) :
             LET was  == setFromSerialized(r.data)
                 less == txn[w].view \ {r}
             IN  CASE txn[w].op \in {"store", "update", "expire"} ->
                        GoTo(w, "put", less, NewElement(w, was))
                   [] txn[w].op = "del" -> GoTo(w, "commit", less, NoValue)
                   [] txn[w].op = "purge" ->
                        GoTo(w, "commit", IF isExpired(was, now) THEN less
                                          ELSE txn[w].view, NoValue)
    BY <1>7
  <2> DEFINE was == setFromSerialized(r.data)
  <2>2. /\ txn[w].view = db /\ Readable(was) /\ old # EmptyData
        /\ db \ {r} \in SUBSET Record /\ Others(k) \subseteq db \ {r}
        /\ Others(k) \subseteq db /\ db \ {r} \subseteq db
        /\ single => was = old /\ db \ {r} = Others(k)
    BY <1>0, <1>3 DEF AtGet
  <2>3. CASE txn[w].op \in {"store", "update", "expire"}
    <3>1. GoTo(w, "put", db \ {r}, NewElement(w, was))
      BY <2>1, <2>2, <2>3
    <3> QED
      BY <1>1, <1>4, <2>2, <2>3, <3>1
  <2>4. CASE txn[w].op = "del"
    <3>1. GoTo(w, "commit", db \ {r}, NoValue)
      BY <2>1, <2>2, <2>4
    <3> QED
      BY <1>1, <1>5, <2>2, <2>4, <3>1
  <2>5. CASE txn[w].op = "purge"
    <3>1. GoTo(w, "commit", IF isExpired(was, now) THEN db \ {r} ELSE db,
               NoValue)
      BY <2>1, <2>2, <2>5
    <3>2. CASE isExpired(was, now)
      BY <1>1, <1>5, <2>2, <2>5, <3>1, <3>2
    <3>3. CASE ~isExpired(was, now)
      BY <1>1, <1>2, <1>5, <2>2, <2>5, <3>1, <3>3
    <3> QED
      BY <3>2, <3>3
  <2> QED
    BY <1>2, <2>3, <2>4, <2>5 DEF Writes
<1>8. CASE /\ Found(w) = {} /\ txn[w].op \in {"store", "expire"}
            /\ GoTo(w, "put", txn[w].view, NewElement(w, EmptyData))
  <2>1. txn[w].view = db /\ db = Others(k) /\ old = EmptyData /\ Readable(EmptyData)
    BY <1>0, <1>3, <1>8 DEF AtGet, Readable
  <2> QED
    BY <1>1, <1>2, <1>4, <1>8, <2>1
<1> QED
  BY <1>7, <1>8 DEF Get

(* mdb_get fails: the record, if there is one, stays.                      *)
LEMMA MissedStep ==
    ASSUME Inv, NEW w \in Workers, txn[w].pc = "get",
           txn[w].op \in {"store", "expire"},
           Proceed(w, "put", txn[w].view, NewElement(w, EmptyData), Found(w) # {}),
           UNCHANGED <<db, writer, now, expiredVars, did, got, unread>>
    PROVE  Inv' /\ UNCHANGED Abstract!vars
<1> DEFINE k == txn[w].key
<1>1. /\ UNCHANGED Abstract!vars /\ Stored' /\ Epoch'
      /\ \A c : ElementOf(c)' = ElementOf(c) /\ Others(c)' = Others(c)
      /\ \A d : Writable(d)' <=> Writable(d)
  BY DatabaseKept, Unchanged
<1>2. AtGet(w) /\ Stored /\ db \in SUBSET Record /\ Readable(EmptyData)
  BY DEF Inv, ViewIsPlanned, Stored, Readable
<1>0. PICK m \in BOOLEAN : m <=> Found(w) # {}
  OBVIOUS
<1>3. /\ TransactionsTyped'
      /\ txn'[w] = [pc |-> "put", op |-> txn[w].op, key |-> k,
                    arg |-> NewElement(w, EmptyData), view |-> db, missed |-> m]
      /\ \A o \in Workers : o # w => txn'[o].pc = "idle"
  <2>1. txn[w].view = db /\ txn[w].pc # "idle"
    BY <1>2 DEF AtGet
  <2>2. m = (Found(w) # {})
    BY <1>0
  <2>3. Proceed(w, "put", db, NewElement(w, EmptyData), m)
    BY <2>1, <2>2
  <2> QED
    BY <1>2, <2>1, <2>3, Proceeds
<1>4. Clean(w)' => Found(w) = {}
  BY <1>0, <1>3 DEF Clean
<1>5. Found(w) = {} => db = Others(k) /\ ElementOf(k) = EmptyData
  BY <1>2, ElementsAreReadable DEF Found, AtGet, Others
<1>6. Writable(txn[w].arg)' /\ Others(k) \subseteq db
  BY <1>1, <1>2, <1>3, NewElementIs DEF Others
<1>7. Found(w) = {} => Promised(w, txn[w].arg)'
  BY <1>1, <1>2, <1>3, <1>5, NewElementIs DEF Promised
<1>8. AtPut(w)'
  BY <1>1, <1>3, <1>4, <1>5, <1>6, <1>7 DEF AtPut
<1>9. ViewIsPlanned'
  BY <1>3, <1>8 DEF ViewIsPlanned
<1> QED
  BY <1>1, <1>3, <1>9 DEF Inv, History

LEMMA PutStep ==
    ASSUME Inv, NEW w \in Workers, Put(w)
    PROVE  Inv' /\ UNCHANGED Abstract!vars
<1> DEFINE k == txn[w].key
           d == txn[w].arg
           x == getSerialized(txn[w].arg)
           n == [key |-> k, data |-> x]
           view == txn[w].view
<1>0. /\ txn[w].pc = "put" /\ AtPut(w)
      /\ UNCHANGED <<db, writer, now, expiredVars, did, got, unread>>
  BY DEF Put, Inv, ViewIsPlanned
<1>1. /\ UNCHANGED Abstract!vars /\ Stored' /\ Epoch'
      /\ \A c : ElementOf(c)' = ElementOf(c) /\ Others(c)' = Others(c)
  BY <1>0, DatabaseKept, Unchanged
<1>2. /\ writer = w /\ txn[w].op \in Writes /\ k \in Keys
      /\ view \in SUBSET Record
  BY <1>0, Inside
<1>3. x \in Serialized /\ NotBare(n) /\ n.key = k
  BY <1>0, PutsARecord DEF AtPut, Inv, NotBare
<1>4. view \cup {n} \in SUBSET Record
  BY <1>2, <1>3 DEF Record
<1>5. /\ TransactionsTyped'
      /\ txn'[w] = [pc |-> "commit", op |-> txn[w].op, key |-> k, arg |-> d,
                    view |-> view \cup {n}, missed |-> txn[w].missed]
      /\ \A o \in Workers : o # w => txn'[o].pc = "idle"
  BY <1>0, <1>4, GoesTo DEF Put
<1>6. AtCommit(w)'
  <2>1. Clean(w) => Promised(w, d)' /\ view = Others(k)
    BY <1>0, <1>1, <1>5 DEF AtPut, Promised
  <2>2. d' = d /\ k' = k /\ x' = x /\ (Clean(w)' <=> Clean(w))
    BY <1>0, <1>5 DEF getSerialized, hasExpiry, Clean
  <2>3. Clean(w) => Planned(w)'
    BY <1>1, <1>5, <2>1, <2>2 DEF Planned, Promised
  <2>4. \A r \in view \cup {n} : NotBare(r)
    BY <1>0, <1>3 DEF AtPut, Inv, Stored, NoBareRecord
  <2>5. {r \in view \cup {n} : r.key # k} = Others(k)
    <3>1. {r \in view : r.key # k} = Others(k)
      BY <1>0 DEF AtPut, Others
    <3> HIDE DEF n
    <3> QED
      BY <1>3, <3>1
  <2> QED
    BY <1>1, <1>5, <2>2, <2>3, <2>4, <2>5 DEF AtCommit
<1>7. ViewIsPlanned'
  BY <1>5, <1>6 DEF ViewIsPlanned
<1> QED
  BY <1>0, <1>1, <1>5, <1>7 DEF Inv, History

LEMMA AbortStep ==
    ASSUME Inv, NEW w \in Workers, txn[w].pc # "idle", mdb_txn_abort(w)
    PROVE  Inv' /\ UNCHANGED Abstract!vars
<1>1. UNCHANGED <<db, now, expiredVars, did, got, unread>> /\ writer' = NoWorker
  BY DEF mdb_txn_abort
<1>2. UNCHANGED Abstract!vars /\ Stored' /\ Epoch'
  BY <1>1, DatabaseKept
<1>3. TransactionsTyped' /\ ViewIsPlanned'
  BY Inside, WriterGone DEF mdb_txn_abort
<1> QED
  BY <1>1, <1>2, <1>3 DEF Inv, History

LEMMA FailureStep ==
    ASSUME Inv, NEW w \in Workers,
           GetFails(w) \/ DelFails(w) \/ PutFails(w) \/ CommitFails(w)
    PROVE  Inv' /\ UNCHANGED Abstract!vars
<1>1. CASE GetFails(w)
  BY <1>1, AbortStep, MissedStep DEF GetFails
<1>2. CASE DelFails(w) \/ PutFails(w) \/ CommitFails(w)
  BY <1>2, AbortStep DEF DelFails, PutFails, CommitFails, mdb_txn_abort
<1> QED
  BY <1>1, <1>2

LEMMA CrashStep ==
    ASSUME Inv, NEW w \in Workers, Crash(w)
    PROVE  Inv' /\ UNCHANGED Abstract!vars
<1>0. /\ UNCHANGED <<db, now, did, got, unread>>
      /\ expiredVars' \in [Workers -> SUBSET Keys]
  BY DEF Crash, Inv, History
<1>1. CASE txn[w] = Idle
  <2>1. writer # w
    BY <1>1 DEF Inv, TransactionsTyped, Idle
  <2>2. txn' = txn
    <3>1. txn' = [txn EXCEPT ![w] = Idle] /\ txn = [o \in Workers |-> txn[o]]
      BY DEF Crash, Inv, TransactionsTyped
    <3> QED
      BY <1>1, <3>1
  <2> QED
    BY <1>0, <2>1, <2>2, NothingBegun DEF Crash
<1>2. CASE txn[w] # Idle
  <2>1. writer = w /\ writer' = NoWorker /\ txn' = [txn EXCEPT ![w] = Idle]
    BY <1>2 DEF Crash, Inv, TransactionsTyped
  <2>2. TransactionsTyped' /\ ViewIsPlanned'
    BY <2>1, WriterGone
  <2>3. UNCHANGED Abstract!vars /\ Stored' /\ Epoch'
    BY <1>0, DatabaseKept
  <2> QED
    BY <1>0, <2>1, <2>2, <2>3 DEF Inv, History
<1> QED
  BY <1>1, <1>2

(* A commit is the one step of a function that the Collection sees.        *)
LEMMA CommitStep ==
    ASSUME Inv, NEW w \in Workers, Commit(w)
    PROVE  Inv' /\ (unread' = {} => [Abstract!Next]_Abstract!vars)
<1> DEFINE k == txn[w].key
           d == txn[w].arg
           old == ElementOf(txn[w].key)
           bar == [c \in Keys |-> ElementOf(c)]
<1>0. /\ txn[w].pc = "commit" /\ AtCommit(w) /\ db' = txn[w].view
      /\ UNCHANGED <<now, expiredVars>>
      /\ unread' = IF txn[w].missed THEN unread \cup {k} ELSE unread
      /\ txn[w].op = "purge" => UNCHANGED <<did, got>>
      /\ txn[w].op # "purge" => Returns(w, txn[w].op, {})
  BY DEF Commit, Inv, ViewIsPlanned
<1>1. /\ writer = w /\ txn[w].op \in Writes /\ k \in Keys
      /\ Stored /\ Readable(old) /\ Epoch
  BY <1>0, Inside, ElementsAreReadable DEF Inv
<1>2. /\ writer' = NoWorker /\ Epoch' /\ History'
      /\ TransactionsTyped' /\ ViewIsPlanned'
  <2>1. TransactionsTyped' /\ ViewIsPlanned' /\ writer' = NoWorker
    BY <1>1, WriterGone DEF Commit
  <2>2. Epoch' /\ History'
    BY <1>0, <1>1 DEF Inv, Epoch, History, Returns, Writes
  <2> QED
    BY <2>1, <2>2
<1>3. Stored'
  <2>1. db' \subseteq Record /\ \A r \in db' : NotBare(r)
    BY <1>0, Inside DEF AtCommit
  <2>2. ASSUME NEW r \in db', NEW s \in db', r.key = s.key, r.key \notin unread'
        PROVE  r = s
    <3>1. r.key \notin unread
      BY <1>0, <2>2
    <3>2. CASE r.key # k
      <4>1. r \in Others(k) /\ s \in Others(k)
        BY <1>0, <2>2, <3>2 DEF AtCommit
      <4> QED
        BY <1>1, <2>2, <3>1, <4>1 DEF Others, Stored, OneRecordPerKey
    <3>3. CASE r.key = k
      <4>1. Planned(w)
        BY <1>0, <2>2, <3>1, <3>3 DEF AtCommit, Clean
      <4> QED
        BY <1>0, <1>1, <2>2, <3>1, <3>3, <4>1
        DEF Planned, Others, Stored, OneRecordPerKey
    <3> QED
      BY <3>2, <3>3
  <2> QED
    BY <2>1, <2>2 DEF Stored, OneRecordPerKey, NoBareRecord
<1>9. Inv'
  BY <1>2, <1>3 DEF Inv
<1>10. SUFFICES ASSUME unread' = {}
                PROVE  [Abstract!Next]_Abstract!vars
  BY <1>9
<1>11. unread = {} /\ Planned(w)
  BY <1>0, <1>10 DEF AtCommit, Clean
<1>4. txn[w].op # "purge" => Abstract!Calls(w, txn[w].op, {})
  BY <1>0 DEF Returns, Abstract!Calls
<1>5. CASE /\ Promised(w, d)
           /\ db' = Others(k) \cup {[key |-> k, data |-> getSerialized(d)]}
  <2>1. CASE txn[w].op \in {"store", "update"}
    <3>1. PICK v \in Values : d = setValue(old, v)
      BY <1>5, <2>1 DEF Promised
    <3>2. /\ getSerialized(d) \in Serialized /\ getSerialized(d).value = v
          /\ setFromSerialized(getSerialized(d)) = d
      BY <1>1, <3>1, ValueSurvives
    <3>3. bar' = [bar EXCEPT ![k] = setValue(old, v)]
      BY <1>1, <1>3, <1>5, <1>10, <1>11, <3>1, <3>2, CommitWith
    <3>4. CASE txn[w].op = "store"
      <4>1. Abstract!StoreOrUpdateFirst(w, k, v)
        BY <1>0, <1>1, <1>4, <3>3, <3>4
        DEF Abstract!StoreOrUpdateFirst, setValue, Abstract!setValue
      <4> QED
        BY <1>1, <4>1 DEF Abstract!Next, Abstract!Write
    <3>5. CASE txn[w].op = "update"
      <4>1. old # EmptyData
        BY <1>5, <3>5 DEF Promised
      <4>2. Abstract!UpdateFirst(w, k, v)
        BY <1>0, <1>1, <1>4, <3>3, <3>5, <4>1
        DEF Abstract!UpdateFirst, setValue, Abstract!setValue, EmptyData,
            Abstract!EmptyData
      <4> QED
        BY <1>1, <4>2 DEF Abstract!Next, Abstract!Write
    <3> QED
      BY <2>1, <3>4, <3>5
  <2>2. CASE txn[w].op = "expire"
    <3>1. PICK s \in Seconds : d = setExpiry(old, now, s)
      BY <1>5, <2>2 DEF Promised
    <3>2. /\ getSerialized(d) \in Serialized
          /\ getSerialized(d).expire > NoExpire
          /\ \E early \in 0 .. (TicksPerSecond - 1) :
                setFromSerialized(getSerialized(d)) =
                   setExpiry(old, now - early, s)
      BY <1>1, <3>1, ExpiryRoundsDown
    <3>3. PICK early \in 0 .. (TicksPerSecond - 1) :
             setFromSerialized(getSerialized(d)) = setExpiry(old, now - early, s)
      BY <3>2
    <3>4. bar' = [bar EXCEPT ![k] = setFromSerialized(getSerialized(d))]
      BY <1>1, <1>3, <1>5, <1>10, <1>11, CommitWith
    <3>5. bar' = [bar EXCEPT ![k] = setExpiry(bar[k], now - early, s)]
      BY <1>1, <3>3, <3>4
    <3>6. Abstract!SetExpiry(w, k, s)
      BY <1>0, <1>4, <2>2, <3>5
      DEF Abstract!SetExpiry, setExpiry, Abstract!setExpiry
    <3> QED
      BY <1>1, <3>6 DEF Abstract!Next, Abstract!Write
  <2> QED
    BY <1>5, <2>1, <2>2 DEF Promised
<1>6. CASE txn[w].op = "del" /\ db' = Others(k)
  <2>1. bar' = [bar EXCEPT ![k] = EmptyData]
    BY <1>1, <1>3, <1>6, <1>10, <1>11, CommitWithout
  <2>2. Abstract!Del(w, k)
    BY <1>0, <1>4, <1>6, <2>1 DEF Abstract!Del, Abstract!EmptyData, EmptyData
  <2> QED
    BY <1>1, <2>2 DEF Abstract!Next, Abstract!Write
<1>7. CASE txn[w].op = "purge" /\ db' = db
  BY <1>0, <1>7, <1>10, <1>11, DatabaseKept
<1>8. CASE txn[w].op = "purge" /\ isExpired(old, now) /\ db' = Others(k)
  <2>1. bar' = [bar EXCEPT ![k] = EmptyData]
    BY <1>1, <1>3, <1>8, <1>10, <1>11, CommitWithout
  <2>2. Abstract!Purge(k)
    BY <1>0, <1>1, <1>8, <2>1
    DEF Abstract!Purge, Abstract!EmptyData, EmptyData, Abstract!isExpired,
        Abstract!hasExpiry, isExpired, hasExpiry
  <2> QED
    BY <1>1, <2>2 DEF Abstract!Next
<1> QED
  BY <1>0, <1>5, <1>6, <1>7, <1>8, <1>11 DEF Planned

(* A read shows what the Collection shows of the same keys.                *)
LEMMA ShownIsVisible ==
    ASSUME Inv, unread = {}, NEW K \in SUBSET Keys
    PROVE  Shown(K) = {p \in K \X Values :
                          /\ Visible(ElementOf(p[1]), now)
                          /\ ElementOf(p[1]).value = p[2]}
<1> SUFFICES ASSUME NEW p \in K \X Values
             PROVE  (\E r \in db :
                        /\ r.key = p[1]
                        /\ Visible(setFromSerialized(r.data), now)
                        /\ r.data.value = p[2])
                    <=> /\ Visible(ElementOf(p[1]), now)
                        /\ ElementOf(p[1]).value = p[2]
  BY DEF Shown
<1>1. \A r \in db : r.key = p[1] =>
         /\ ElementOf(p[1]) = setFromSerialized(r.data)
         /\ setFromSerialized(r.data).value = r.data.value
  BY ElementsAreReadable DEF Inv, setFromSerialized
<1>2. CASE \E r \in db : r.key = p[1]
  BY <1>1, <1>2
<1>3. CASE \A r \in db : r.key # p[1]
  <2>1. ElementOf(p[1]) = EmptyData
    BY <1>3, ElementsAreReadable DEF Inv
  <2> QED
    BY <1>3, <2>1 DEF Visible, hasValue, EmptyData
<1> QED
  BY <1>2, <1>3

LEMMA LookStep ==
    ASSUME Inv, NEW w \in Workers, NEW K \in SUBSET Keys,
           NEW P \in SUBSET Keys, LookAt(w, K, P)
    PROVE  Inv' /\ (unread' = {} => Abstract!Next)
<1>0. UNCHANGED <<db, writer, txn, now, unread>> /\ Returns(w, "resolve", Shown(K))
  BY DEF LookAt
<1>1. \A k : ElementOf(k)' = ElementOf(k) /\ Others(k)' = Others(k)
  BY <1>0 DEF ElementOf, Others
<1>2. Stored' /\ Epoch' /\ TransactionsTyped' /\ ViewIsPlanned'
  <2>1. Stored' /\ Epoch' /\ TransactionsTyped'
    BY <1>0
    DEF Inv, Stored, OneRecordPerKey, NoBareRecord, Epoch, TransactionsTyped
  <2>2. ViewIsPlanned'
    BY <1>0, <1>1 DEF Inv, ViewIsPlanned, AtGet, AtPut, AtCommit, Promised, Planned,
     Clean, Writable
  <2> QED
    BY <2>1, <2>2
<1>3. History'
  <2>1. Shown(K) \in SUBSET (Keys \X Values) /\ ExpiredKeys(P) \in SUBSET Keys
    BY DEF Shown, ExpiredKeys
  <2> QED
    BY <2>1 DEF LookAt, Returns, Inv, History
<1>4. unread' = {} => Abstract!Resolve(w, K)
  BY <1>0, <1>1, ShownIsVisible
  DEF Abstract!Resolve, Abstract!Calls, Returns, Abstract!Visible,
      Abstract!isExpired, Abstract!hasExpiry, Abstract!hasValue, Visible,
      isExpired, hasExpiry, hasValue
<1> QED
  BY <1>0, <1>2, <1>3, <1>4 DEF Inv, Abstract!Next

LEMMA ReadStep ==
    ASSUME Inv, NEW w \in Workers, Read(w)
    PROVE  Inv' /\ (unread' = {} => Abstract!Next)
<1>1. \A k \in Keys : {k} \in SUBSET Keys /\ Extends[k] \in SUBSET Keys
  BY KeysAssumption
<1>2. \E K, P \in SUBSET Keys : LookAt(w, K, P)
  <2>1. CASE \E k \in Keys : resolveFirst(w, k) \/ resolveMultiMatches(w, k)
    <3>1. Keys \in SUBSET Keys
      OBVIOUS
    <3> QED
      BY <1>1, <2>1, <3>1 DEF resolveFirst, resolveMultiMatches
  <2>2. CASE \E matched \in SUBSET Keys : \E omit \in SUBSET matched :
                resolveRegularExpression(w, matched, omit)
    <3>1. \A matched \in SUBSET Keys : \A omit : matched \ omit \in SUBSET Keys
      OBVIOUS
    <3>2. Keys \in SUBSET Keys
      OBVIOUS
    <3> QED
      BY <2>2, <3>1, <3>2 DEF resolveRegularExpression
  <2>3. CASE ReadFails(w)
    <3>1. {} \in SUBSET Keys
      OBVIOUS
    <3> QED
      BY <2>3, <3>1 DEF ReadFails
  <2> QED
    BY <2>1, <2>2, <2>3 DEF Read
<1> QED
  BY <1>2, LookStep

LEMMA TickStep ==
    ASSUME Inv, Tick
    PROVE  Inv' /\ Abstract!Next
<1>0. UNCHANGED <<db, writer, txn, expiredVars, did, got, unread>> /\ now' = now + 1
  BY DEF Tick
<1>1. \A w \in Workers : txn[w] = Idle
  BY NamesAssumption DEF Tick, Inv, TransactionsTyped
<1>2. Stored' /\ TransactionsTyped' /\ ViewIsPlanned' /\ Epoch' /\ History'
  <2>1. Stored' /\ TransactionsTyped' /\ History'
    BY <1>0
    DEF Inv, Stored, OneRecordPerKey, NoBareRecord, TransactionsTyped, History
  <2>2. ViewIsPlanned'
    BY <1>0, <1>1 DEF ViewIsPlanned, Idle
  <2>3. Epoch'
    BY <1>0, DataAssumption DEF Inv, Epoch
  <2> QED
    BY <2>1, <2>2, <2>3
<1>3. Abstract!Tick
  BY <1>0 DEF Abstract!Tick, ElementOf
<1> QED
  BY <1>0, <1>2, <1>3 DEF Inv, Abstract!Next

LEMMA LMDBStep ==
    ASSUME Inv, [LMDBNext]_lmdbVars
    PROVE  Inv' /\ (unread' = {} => [Abstract!Next]_Abstract!vars)
<1>1. ASSUME NEW w \in Workers, NEW k \in Keys, Write(w, k)
      PROVE  Inv' /\ UNCHANGED Abstract!vars
  BY <1>1, WriteStep
<1>2. ASSUME NEW w \in Workers, Read(w)
      PROVE  Inv' /\ (unread' = {} => Abstract!Next)
  BY <1>2, ReadStep
<1>3. ASSUME NEW w \in Workers, delIfExpired(w) \/ txn_begin_fails(w)
      PROVE  Inv' /\ UNCHANGED Abstract!vars
  BY <1>3, PurgeBegins, BeginFails
<1>4. ASSUME NEW w \in Workers, Transact(w)
      PROVE  Inv' /\ (unread' = {} => [Abstract!Next]_Abstract!vars)
  BY <1>4, GetStep, PutStep, CommitStep, FailureStep DEF Transact
<1>5. ASSUME NEW w \in Workers, Crash(w)
      PROVE  Inv' /\ UNCHANGED Abstract!vars
  BY <1>5, CrashStep
<1>6. CASE Tick
  BY <1>6, TickStep
<1>7. CASE UNCHANGED lmdbVars
  BY <1>7, NothingBegun DEF lmdbVars, Inv, History
<1> QED
  BY <1>1, <1>2, <1>3, <1>4, <1>5, <1>6, <1>7 DEF LMDBNext

LEMMA LMDBStart ==
    ASSUME LMDBInit
    PROVE  Inv /\ Abstract!Init
<1>1. Epoch /\ TicksPerSecond \in Nat
  BY DataAssumption DEF LMDBInit, Epoch
<1>2. Stored /\ History
  BY DEF LMDBInit, Stored, OneRecordPerKey, NoBareRecord, History, Writes
<1>3. TransactionsTyped /\ ViewIsPlanned
  <2>1. \A w \in Workers : txn[w] = Idle /\ writer # w
    BY NamesAssumption DEF LMDBInit
  <2>2. txn = [w \in Workers |-> txn[w]]
    BY DEF LMDBInit
  <2> QED
    BY <2>1, <2>2 DEF TransactionsTyped, ViewIsPlanned, Idle
<1>4. Abstract!Init
  BY <1>1 DEF LMDBInit, Abstract!Init, Abstract!EmptyData, EmptyData, ElementOf
<1> QED
  BY <1>1, <1>2, <1>3, <1>4 DEF Inv, LMDBInit

-----------------------------------------------------------------------------
(* In every reachable state of the LMDB backend no key has two records,    *)
(* though MDB_DUPSORT would store them, but for the keys that were put     *)
(* while a failed mdb_get hid their record: between the mdb_del and the    *)
(* mdb_put of a function nobody else writes, a worker being inside a       *)
(* write transaction exactly if it holds the lock of LMDB, and a function  *)
(* that fails in between leaves the database as it was.                    *)
THEOREM OneRecord == LMDBSpec => [](LMDBTypeOK /\ OneRecordPerKey)
<1>1. LMDBInit => Inv
  BY LMDBStart
<1>2. Inv /\ [LMDBNext]_lmdbVars => Inv'
  BY LMDBStep
<1>3. Inv => LMDBTypeOK /\ OneRecordPerKey
  BY DEF Inv, Stored, Epoch, History, TransactionsTyped, LMDBTypeOK, Idle
<1> QED
  BY <1>1, <1>2, <1>3, PTL DEF LMDBSpec

(* The LMDB backend implements the Collection the in-memory one does, with *)
(* elements that expire less than a second early, until a failed mdb_get   *)
(* lets a second record of a key be committed: every function takes        *)
(* effect whole at its commit or not at all, whichever call of the library *)
(* fails and at whatever point a process dies, and what a purge removes    *)
(* has expired although the keys were collected in an earlier transaction. *)
THEOREM LMDBRefinement == LMDBSpec => ImplementsCollection
<1>1. LMDBInit => Inv /\ Abstract!Init
  BY LMDBStart
<1>2. Inv /\ [LMDBNext]_lmdbVars
        => Inv' /\ [unread' = {} => Abstract!Next]_Abstract!vars
  BY LMDBStep
<1> QED
  BY <1>1, <1>2, PTL DEF LMDBSpec, ImplementsCollection
=============================================================================
