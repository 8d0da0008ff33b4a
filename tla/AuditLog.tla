------------------------------ MODULE AuditLog ------------------------------
(***************************************************************************)
(* The audit and debug logs of the rule sets of one process, and the table *)
(* of open files they share (SharedFiles, a singleton that counts its      *)
(* users).  A log is configured by the files loaded into its rule set: the *)
(* AuditLog of the Driver that read a file is merged into the one of the   *)
(* rule set, which then makes a new writer and destroys the old one.       *)
(***************************************************************************)
EXTENDS Naturals, FiniteSets, Functions

CONSTANTS RuleSets,    \* the rule sets of the process
          Paths,       \* names of log files
          Files,       \* what configuration files say of the logs
          MaxLoads     \* bound: loads and merges, all in all

VARIABLES handlers,    \* SharedFiles::m_handlers: open path -> its count
          log,         \* the logs of each rule set
          slipped,     \* history: a writer was destroyed, or is going to be,
                       \* whose paths are not those its init opened
          broken,      \* history: the last init of the log failed
          loads

auditVars == <<handlers, log, slipped, broken, loads>>

Empty  == ""           \* an empty path
Path   == Paths \cup {Empty}
Types  == {"NotSet", "Serial", "Parallel", "Https"}
Status == {"NotSet", "On", "Off", "RelevantOnly"}

(* AuditLog and DebugLog of a rule set, as their constructors leave them.  *)
NewLog == [alive |-> TRUE, path1 |-> Empty, path2 |-> Empty,
           dir |-> FALSE, type |-> "NotSet", status |-> "NotSet",
           ctl |-> FALSE, writer |-> "null", debug |-> Empty]

ASSUME AuditLogAssumption ==
    /\ IsFiniteSet(RuleSets)
    /\ Empty \notin Paths
    /\ Files \subseteq [path1 : Path, path2 : Path, dir : BOOLEAN, type : Types,
                        status : Status, ctl : BOOLEAN, debug : Path]
    /\ MaxLoads \in Nat

-----------------------------------------------------------------------------
(* SharedFiles.  "bad" are the paths fopen refuses at the moment.          *)

(* Mutant: a second user of a file is not counted.                         *)
MutOpen(h, p, bad) ==
    IF p \in DOMAIN h THEN [ok |-> TRUE, h |-> h]
    ELSE IF p = Empty \/ p \in bad THEN [ok |-> FALSE, h |-> h]
    ELSE [ok |-> TRUE,
          h |-> [q \in DOMAIN h \cup {p} |-> IF q = p THEN 1 ELSE h[q]]]

Open(h, p, bad) ==
    IF p \in DOMAIN h THEN [ok |-> TRUE, h |-> [h EXCEPT ![p] = @ + 1]]
    ELSE IF p = Empty \/ p \in bad THEN [ok |-> FALSE, h |-> h]
    ELSE [ok |-> TRUE,
          h |-> [q \in DOMAIN h \cup {p} |-> IF q = p THEN 1 ELSE h[q]]]

Close(h, p) ==
    IF p \notin DOMAIN h THEN h
    ELSE IF h[p] = 1 THEN Restrict(h, DOMAIN h \ {p})
    ELSE [h EXCEPT ![p] = @ - 1]

-----------------------------------------------------------------------------
(* The writers.  They have no paths of their own: init and destructor look *)
(* at the AuditLog they belong to.                                         *)

(* Serial::~Serial, Parallel::~Parallel, Https::~Https.                    *)
Destroy(h, l, writer) ==
    CASE writer = "Serial"   -> Close(h, l.path1)
      [] writer = "Parallel" -> Close(Close(h, l.path1), l.path2)
      [] OTHER               -> h

(* Parallel::init: empty paths are not opened; then the storage directory. *)
ParallelInit(h, l, bad, mkdirFails) ==
    LET first  == IF l.path1 = Empty THEN [ok |-> TRUE, h |-> h]
                                     ELSE Open(h, l.path1, bad)
        second == IF l.path2 = Empty THEN first ELSE Open(first.h, l.path2, bad)
    IN  IF ~first.ok THEN first
        ELSE IF ~second.ok THEN second
        ELSE [second EXCEPT !.ok = ~(l.dir /\ mkdirFails)]

WriterInit(h, l, writer, bad, mkdirFails) ==
    CASE writer = "Serial"   -> Open(h, l.path1, bad)
      [] writer = "Parallel" -> ParallelInit(h, l, bad, mkdirFails)
      [] OTHER               -> [ok |-> TRUE, h |-> h]

WriterOf(l) == IF l.type \in {"Parallel", "Https"} THEN l.type ELSE "Serial"

(* AuditLog::init.  A new writer that cannot be initialised is deleted,    *)
(* and its destructor closes what its init opened.                         *)
init(h, l, bad, mkdirFails) ==
    LET w    == WriterOf(l)
        made == WriterInit(h, l, w, bad, mkdirFails)
    IN  IF l.status \in {"Off", "NotSet"} /\ ~l.ctl
          THEN [ok |-> TRUE, h |-> Destroy(h, l, l.writer),
                l |-> [l EXCEPT !.writer = "null"]]
        ELSE IF ~made.ok
          THEN [ok |-> FALSE, h |-> Destroy(made.h, l, w), l |-> l]
        ELSE [ok |-> TRUE, h |-> Destroy(made.h, l, l.writer),
              l |-> [l EXCEPT !.writer = w]]

(* AL_MERGE_STRING_CONF and its likes: what "from" sets, wins.             *)
Over(old, new, unset) == IF new = unset THEN old ELSE new

MergedConf(l, from) ==
    [l EXCEPT !.path1 = Over(@, from.path1, Empty),
              !.path2 = Over(@, from.path2, Empty),
              !.dir = @ \/ from.dir,
              !.type = Over(@, from.type, "NotSet"),
              !.status = Over(@, from.status, "NotSet"),
              !.ctl = @ \/ from.ctl]

merge(h, l, from, bad, mkdirFails) == init(h, MergedConf(l, from), bad, mkdirFails)

(* The log part of RulesSetProperties::mergeProperties: a failure of the   *)
(* audit log leaves the debug log alone, and nobody looks at the result.   *)
mergeLogs(h, l, from, bad, mkdirFails) ==
    LET audit == merge(h, l, from, bad, mkdirFails)
        debug == Open(audit.h, from.debug, bad)
    IN  IF ~audit.ok \/ from.debug = Empty \/ audit.l.debug # Empty THEN audit
        ELSE [ok |-> debug.ok, h |-> debug.h,
              l |-> [audit.l EXCEPT !.debug = from.debug]]

-----------------------------------------------------------------------------
Alive == {r \in RuleSets : log[r].alive}

InitAudit ==
    /\ handlers = << >>
    /\ log = [r \in RuleSets |-> NewLog]
    /\ slipped = FALSE
    /\ broken = [r \in RuleSets |-> FALSE]
    /\ loads = 0

(* Parallel::init failed on its first path while its destructor closes the *)
(* second one, that another log has opened.                                *)
StopsAtFirst(h, l, bad) == l.path1 \in bad \ DOMAIN h /\ l.path2 \in DOMAIN h

Slips(old, done, h, bad) ==
    \/ old.writer \in {"Serial", "Parallel"} /\ old.path1 # done.l.path1
    \/ old.writer = "Parallel" /\ old.path2 # done.l.path2
    \/ WriterOf(done.l) = "Parallel" /\ ~done.ok /\ StopsAtFirst(h, done.l, bad)

Merge(r, h, from, bad, mkdirFails) ==
    LET done == mergeLogs(h, log[r], from, bad, mkdirFails)
    IN  /\ log' = [log EXCEPT ![r] = done.l]
        /\ broken' = [broken EXCEPT ![r] = ~done.ok]
        /\ slipped' = (slipped \/ Slips(log[r], done, h, bad))

(* RulesSet::load: the Driver opens its debug log while it reads the file, *)
(* never makes a writer, and closes the debug log when it is deleted.  A   *)
(* debug log that cannot be opened is an error of the file.                *)
load(r, f, bad, mkdirFails) ==
    LET debug == IF f.debug = Empty THEN [ok |-> TRUE, h |-> handlers]
                                    ELSE Open(handlers, f.debug, bad)
        done  == mergeLogs(debug.h, log[r], f, bad, mkdirFails)
    IN  /\ loads < MaxLoads
        /\ loads' = loads + 1
        /\ IF debug.ok
             THEN /\ Merge(r, debug.h, f, bad, mkdirFails)
                  /\ handlers' = Close(done.h, f.debug)
             ELSE UNCHANGED <<handlers, log, slipped, broken>>

(* RulesSet::merge of another rule set, as for a nested location.          *)
mergeRuleSet(r, from, bad, mkdirFails) ==
    /\ loads < MaxLoads
    /\ loads' = loads + 1
    /\ Merge(r, handlers, log[from], bad, mkdirFails)
    /\ handlers' = mergeLogs(handlers, log[r], log[from], bad, mkdirFails).h

(* RulesSetProperties::~RulesSetProperties: debug log, then audit log.     *)
cleanup(r) ==
    /\ handlers' = Destroy(Close(handlers, log[r].debug), log[r], log[r].writer)
    /\ log' = [log EXCEPT ![r].alive = FALSE]
    /\ UNCHANGED <<slipped, broken, loads>>

NextAudit ==
    \E r \in Alive :
        \/ \E f \in Files, bad \in SUBSET Paths, d \in BOOLEAN : load(r, f, bad, d)
        \/ \E s \in Alive \ {r}, bad \in SUBSET Paths, d \in BOOLEAN :
               mergeRuleSet(r, s, bad, d)
        \/ cleanup(r)

SpecAudit == InitAudit /\ [][NextAudit]_auditVars

-----------------------------------------------------------------------------
(* Properties.                                                             *)

(* The uses of a path by the writers and debug logs that are alive.        *)
Uses(p) ==
    {<<r, "path1">> : r \in {r \in Alive : log[r].writer \in {"Serial", "Parallel"}
                                           /\ log[r].path1 = p}}
    \cup {<<r, "path2">> : r \in {r \in Alive : log[r].writer = "Parallel"
                                                /\ log[r].path2 = p}}
    \cup {<<r, "debug">> : r \in {r \in Alive : log[r].debug = p}}

(* SharedFiles counts (shared_files.cc:64-101): a file is open exactly     *)
(* while some log uses it, and has as many users as were counted, through  *)
(* every failure of fopen and mkdir, change of type and status, merge and  *)
(* destruction; up to the two ways in which a writer closes what it did    *)
(* not open: its log was given other paths (audit_log.cc:335), or          *)
(* Parallel::init stopped at its first path (parallel.cc:86).              *)
FilesAreCounted ==
    ~slipped => \A p \in Paths :
        Cardinality(Uses(p)) = (IF p \in DOMAIN handlers THEN handlers[p] ELSE 0)

(* audit_log.cc:317, "Internal error, audit log writer is null": a log     *)
(* that may be written to, by its status or by a ctl:auditEngine of its    *)
(* rules, has a writer unless its last init failed.                        *)
WriterIsThere ==
    \A r \in Alive :
        log[r].status \in {"On", "RelevantOnly"} \/ log[r].ctl =>
            log[r].writer # "null" \/ broken[r]

(* shared_files.cc:60, "false positive, fp is closed in                    *)
(* SharedFiles::close": when the last rule set is gone no file is open.    *)
(* It is not so when a second file of directives names another log: merge  *)
(* (audit_log.cc:335) overwrites the path before the old writer is         *)
(* destroyed, and that one then closes the new log and leaves the old one. *)
AllFilesAreClosed == Alive = {} => handlers = << >>

(* What the logs of the rule sets hold on to, and what they write with.    *)
LogsAreKept == FilesAreCounted /\ WriterIsThere
=============================================================================
