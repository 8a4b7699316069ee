------------------------------ MODULE Watchers ------------------------------
(***************************************************************************)
(* The source watchers: from a change of a file to an event row a pass     *)
(* will read, through everything that can interrupt them.                  *)
(*                                                                         *)
(* A host runs one kind of watcher:                                        *)
(*   "fs"    fanotify, FID mode, one mark for the whole filesystem         *)
(*   "dirs"  fanotify, FID mode, one mark per directory                    *)
(*   "map", "dirmap"  the same two without open_by_handle_at: the paths of *)
(*           handles come from a map that is built beforehand              *)
(*   "path"  fanotify degraded to fd-path mode: only content is visible    *)
(*   "usn"   the Windows USN journal, with its persisted cursor            *)
(*   "dir"   ReadDirectoryChangesW: Windows without access to the journal  *)
(* On "usn" a session that fails hands over to the directory watcher.      *)
(*                                                                         *)
(* The source is a directory in which Dir is a subdirectory (that may be   *)
(* created while the watcher runs) and Child a file of it.  A pass is one  *)
(* step that takes the rows and one that ends; SyncCycles has its cycles.  *)
(***************************************************************************)
EXTENDS Integers, FiniteSets, Sequences

CONSTANTS
    Dir, Child,   \* a directory of the source and a file in it
    Host,         \* the kinds of watcher a run explores
    Cap,          \* events the queue of the kernel holds
    None,         \* no cursor
    Bound         \* the budgets of environment steps a run explores

Env == {"edit", "db", "die", "conf", "crash", "jump", "fail", "manual", "late"}

ASSUME WatchersAssumption ==
    /\ Dir # Child
    /\ Host \subseteq {"fs", "dirs", "map", "dirmap", "path", "usn", "dir"}
    /\ Cap \in Nat
    /\ Bound \subseteq [Env -> Nat]

Path == {Dir, Child}

VARIABLES
    host,      \* the watcher of this machine
    made,      \* Dir exists
    stale,     \* paths changed since a pass last read them
    log,       \* actionable rows no pass has consumed
    fresh,     \* a row was committed since the last pass took the rows
    notice,    \* restart notice
    cursor,    \* windows_usn_cursor: [jid, next] or None
    journal,   \* USN journal: [jid, low, recs]
    sched,     \* the scheduler thread
    pass,      \* "idle", or who runs the pass: "sched" or "manual"
    taken,     \* the rows the running pass consumes
    dirty,     \* paths changed since it started
    wake,      \* the flag of signal.rs
    owes,      \* the watcher has committed a row, not yet notified
    armed,     \* WATCHER_ARMED
    stop,      \* the watcher's shutdown flag
    pc,        \* the watcher thread
    known,     \* Dir is marked, its handle mapped / in the directory index: "new",
               \* "yes", "blind" (it cannot be) or "lost" (its event went with an
               \* overflow: no mark, or its handle stands for an old path)
    queue,     \* events in the buffer of the kernel
    over,      \* that buffer overflowed
    batch,     \* events read from it, not yet persisted
    sticky,    \* WatchCtx.sticky_rescan
    usn,       \* the USN session: [jid, next, tip, todo, rebuild]
    reported,  \* reported_unavailable
    downtime,  \* history: changes the restart notice stands for
    unheard,   \* history: changes in a window no marker covers
    dropped,   \* history: changes in a range of the journal found unreadable
    budget     \* environment steps left

dbVars    == <<log, fresh, notice, cursor>>
schedVars == <<sched, pass, taken, dirty>>
sigVars   == <<wake, owes, armed, stop>>
fanVars   == <<known, queue, over, batch, sticky>>
winVars   == <<usn, reported>>
history   == <<downtime, unheard, dropped>>
vars == <<host, made, stale, dbVars, journal, schedVars, sigVars, pc, fanVars, winVars,
          history, budget>>

ByMap    == host \in {"map", "dirmap"}          \* mount_fd is None
ByDir    == host \in {"dirs", "dirmap"}         \* recursive_marks
ByFid    == host \in {"fs", "dirs", "map", "dirmap"}
Fanotify == ByFid \/ host = "path"
Up == sched # "down"

Spend(k) == budget[k] > 0 /\ budget' = [budget EXCEPT ![k] = @ - 1]

NoRows == [paths |-> {}, rescan |-> FALSE]
NoUsn  == [jid |-> 0, next |-> 0, tip |-> 0, todo |-> <<>>, rebuild |-> FALSE]

Plus(rows, ps, r) == [paths |-> rows.paths \cup ps, rescan |-> rows.rescan \/ r]

\* What a pass that consumes these events reads: an event of Dir is a walk of it
Beneath(ps) == ps \cup (IF Dir \in ps THEN {Child} ELSE {})
ReadBy(rows) == IF rows.rescan THEN Path ELSE Beneath(rows.paths)

Tip == journal.low + Len(journal.recs)

Init ==
    /\ host \in Host /\ made \in BOOLEAN
    /\ stale = {} /\ log = NoRows /\ fresh = FALSE /\ notice = FALSE
    /\ cursor = None
    /\ journal = [jid |-> 1, low |-> 0, recs |-> <<>>]
    /\ sched = "down" /\ pass = "idle" /\ taken = NoRows /\ dirty = {}
    /\ wake = FALSE /\ owes = FALSE /\ armed = FALSE /\ stop = FALSE
    /\ pc = "off" /\ known = "new" /\ queue = {} /\ over = FALSE
    /\ batch = NoRows /\ sticky = FALSE
    /\ usn = NoUsn /\ reported = FALSE
    /\ downtime = {} /\ unheard = {} /\ dropped = {}
    /\ budget \in Bound

\* What the rows and the running pass already cover
Logged == ReadBy(log) \cup (IF pass = "idle" THEN {} ELSE ReadBy(taken) \ dirty)

----------------------------------------------------------------------------
(* Event rows and the wakeup of the scheduler *)

\* record_event / record_events_batch: the commit, then notify_scheduler
Record(ps, r) ==
    /\ log' = Plus(log, ps, r) /\ fresh' = TRUE
    /\ owes' = TRUE

\* notify_scheduler
Notify ==
    /\ owes
    /\ owes' = FALSE /\ wake' = TRUE
    /\ UNCHANGED <<host, made, stale, dbVars, journal, schedVars, armed, stop, pc, fanVars,
                   winVars, history, budget>>

----------------------------------------------------------------------------
(* Changes of the source *)

Live == pc \in {"read", "persist"}   \* fanotify: the marks are in place

\* The kernel queues an event for this change (on Windows, from the first call
\* of ReadDirectoryChangesW)
Audible(p, k) ==
    CASE Fanotify -> /\ Live
                     /\ host = "path" => k = "content"
                     /\ ByDir /\ p = Child => known = "yes"
      [] OTHER -> pc \in {"dtop", "dread", "dpersist"}

\* No event and no marker will stand for this change: a fanotify watcher that
\* has failed is not back yet (or was not waited for), fd-path mode does not
\* see removals, a directory could not be marked, ReadDirectoryChangesW is
\* not running.
Hole(p, k) ==
    /\ sched \notin {"down", "boot"}
    /\ CASE Fanotify ->
              \/ pc \in {"setup", "degraded", "backoff"} /\ sched \notin {"join", "rearm"}
              \/ host = "path" /\ k = "entry"
              \/ ByDir /\ p = Child /\ known \in {"blind", "lost"}
         [] OTHER -> host = "dir" /\ pc \notin {"dtop", "dread", "dpersist"}

\* What becomes of Dir when an event of it is lost: it has no mark and is in no
\* map, or a cached handle goes on to stand for its old path
Untracked ==
    IF known = "new" /\ (ByDir \/ ByMap) THEN {"lost"}
    ELSE IF ByFid /\ made THEN {known, "lost"} ELSE {known}

\* Mutant: events pile up beyond the queue.
HeardUnbounded(p, k) ==
    /\ queue' = IF Audible(p, k) THEN queue \cup {p} ELSE queue
    /\ UNCHANGED <<over, known>>

\* The queue merges equal events; what does not fit is replaced by an overflow
Heard(p, k) ==
    IF ~Audible(p, k) \/ p \in queue THEN UNCHANGED <<queue, over, known>>
    ELSE IF Cardinality(queue) < Cap
    THEN queue' = queue \cup {p} /\ UNCHANGED <<over, known>>
    ELSE /\ over' = TRUE
         /\ known' \in IF p = Dir THEN Untracked ELSE {known}
         /\ UNCHANGED queue

\* A path changes in its content, or appears, disappears or is renamed
Change(p, k) ==
    /\ Spend("edit")
    /\ p = Child => made
    /\ p = Dir => k = "entry"
    /\ made' = TRUE
    /\ stale' = stale \cup {p}
    /\ dirty' = IF pass = "idle" THEN {} ELSE dirty \cup {p}
    /\ Heard(p, k)
    /\ journal' = IF host = "usn" THEN [journal EXCEPT !.recs = Append(@, p)] ELSE journal
    /\ downtime' = IF Fanotify /\ sched \in {"down", "boot"} THEN downtime \cup {p} ELSE downtime
    /\ unheard' = IF Hole(p, k) \/ (host = "dir" /\ sched \in {"down", "boot"} /\ ~Audible(p, k))
                  THEN unheard \cup {p} ELSE unheard
    /\ UNCHANGED <<host, dbVars, sched, pass, taken, sigVars, pc, batch, sticky, winVars, dropped>>

\* The journal forgets its oldest record, or is deleted and created again
JournalTrimmed ==
    /\ host = "usn" /\ journal.recs # <<>> /\ Spend("jump")
    /\ journal' = [journal EXCEPT !.low = @ + 1, !.recs = Tail(@)]
    /\ UNCHANGED <<host, made, stale, dbVars, schedVars, sigVars, pc, fanVars, winVars, history>>

JournalRecreated ==
    /\ host = "usn" /\ Spend("jump")
    /\ journal' = [jid |-> journal.jid + 1, low |-> 0, recs |-> <<>>]
    /\ UNCHANGED <<host, made, stale, dbVars, schedVars, sigVars, pc, fanVars, winVars, history>>

----------------------------------------------------------------------------
(* fanotify *)

\* source_root and setup_fid_name_fanotify: marks for the whole tree, then
\* on_armed.  A directory made between the walk for the map and the marks is in
\* neither, nor is one whose handle cannot be computed.
FanSetup ==
    /\ pc = "setup" /\ ByFid /\ ~owes
    /\ pc' = "read" /\ armed' = TRUE
    /\ known' \in IF ~made THEN {"new"} ELSE IF ByMap THEN {"yes", "blind"} ELSE {"yes"}
    /\ queue' = {} /\ over' = FALSE /\ sticky' = FALSE /\ batch' = NoRows
    /\ UNCHANGED <<host, made, stale, dbVars, journal, schedVars, wake, owes, stop, winVars,
                   history, budget>>

\* FID mode is not available: a reconcile is recorded before the marks of fd-path
FanDegrade ==
    /\ pc = "setup" /\ host = "path" /\ ~owes
    /\ pc' = "degraded"
    /\ \/ Record({}, TRUE) /\ UNCHANGED <<budget, unheard>>
       \/ /\ Spend("db") /\ unheard' = unheard \cup (stale \ Logged)
          /\ UNCHANGED <<log, fresh, owes>>
    /\ UNCHANGED <<host, made, stale, notice, cursor, journal, schedVars, wake, armed, stop,
                   fanVars, winVars, downtime, dropped>>

FanMark ==
    /\ pc = "degraded" /\ ~owes
    /\ pc' = "read" /\ armed' = TRUE
    /\ queue' = {} /\ over' = FALSE /\ sticky' = FALSE /\ batch' = NoRows
    /\ UNCHANGED <<host, made, stale, dbVars, journal, schedVars, wake, owes, stop, known,
                   winVars, history, budget>>

\* track_new_path_and_mark_directory: what becomes of Dir when its event is
\* read, and whether watch_mark_failed is recorded.  Only the handle of Dir
\* itself goes into the map, not those of directories below.
Tracked ==
    {<<"yes", FALSE>>} \cup (IF ByMap \/ known = "blind" THEN {<<"blind", FALSE>>} ELSE {})
    \cup (IF ByDir /\ budget["die"] > 0 THEN {<<"blind", TRUE>>} ELSE {})

\* What becomes of it otherwise: an overflow rebuilds the map, not more often
\* than every ten minutes
Kept == {<<known, FALSE>>} \cup (IF over /\ ByMap THEN {<<"yes", FALSE>>} ELSE {})

\* Events that resolve to no path, or to one that is no more: their directory is
\* in no map or cached under an old path, and the read does not set that right
Unresolved ==
    IF ByFid /\ Dir \notin queue /\ known \in {"blind", "lost"} THEN queue \cap {Child} ELSE {}

\* read() and the collection of its events; unresolved ones leave a debug line
FanRead ==
    /\ pc = "read" /\ ~stop /\ ~owes /\ (queue # {} \/ over)
    /\ \E m \in IF ByFid /\ Dir \in queue THEN Tracked ELSE Kept :
          /\ known' = m[1]
          /\ batch' = [paths |-> queue \ Unresolved, rescan |-> over \/ m[2]]
          /\ IF m[2] THEN Spend("die") ELSE UNCHANGED budget
    /\ unheard' = IF batch'.rescan THEN unheard
                  ELSE unheard \cup ((Unresolved \cap stale) \ Logged)
    /\ pc' = IF batch' = NoRows THEN pc ELSE "persist"
    /\ queue' = {} /\ over' = FALSE
    /\ UNCHANGED <<host, made, stale, dbVars, journal, schedVars, sigVars, sticky, winVars,
                   downtime, dropped>>

\* parse_events: one transaction, preceded by the gap of an earlier loss
FanPersist ==
    /\ pc = "persist" /\ ~owes
    /\ pc' = "read" /\ batch' = NoRows
    /\ \/ /\ Record(batch.paths, batch.rescan \/ sticky)
          /\ sticky' = FALSE /\ UNCHANGED budget
       \/ /\ Spend("db") /\ sticky' = TRUE
          /\ UNCHANGED <<log, fresh, owes>>
    /\ UNCHANGED <<host, made, stale, notice, cursor, journal, schedVars, wake, armed, stop,
                   known, queue, over, winVars, history>>

\* run_fanotify_loop returns: the queue goes with the descriptor
FanEnds(next) ==
    /\ pc' = next
    /\ queue' = {} /\ over' = FALSE /\ batch' = NoRows /\ sticky' = FALSE
    /\ UNCHANGED <<host, made, stale, dbVars, journal, schedVars, sigVars, known, winVars, history>>

FanStop  == pc = "read" /\ stop /\ ~owes /\ FanEnds("off") /\ UNCHANGED budget
FanFails == pc \in {"setup", "degraded", "read"} /\ ~owes /\ Fanotify /\ Spend("die") /\ FanEnds("dying")

\* The supervisor: note_armed, then watcher_restart_gap (whose failure is ignored)
FanGap ==
    /\ pc = "dying"
    /\ pc' = "backoff" /\ armed' = TRUE
    /\ \/ Record({}, TRUE) /\ UNCHANGED <<budget, unheard>>
       \/ /\ Spend("db") /\ unheard' = unheard \cup (stale \ Logged)
          /\ UNCHANGED <<log, fresh, owes>>
    /\ UNCHANGED <<host, made, stale, notice, cursor, journal, schedVars, wake, stop, fanVars,
                   winVars, downtime, dropped>>

FanRestart ==
    /\ pc = "backoff" /\ ~owes
    /\ pc' = IF stop THEN "off" ELSE "setup"
    /\ UNCHANGED <<host, made, stale, dbVars, journal, schedVars, sigVars, fanVars, winVars,
                   history, budget>>

----------------------------------------------------------------------------
(* The USN journal *)

Readable(c) == c.jid = journal.jid /\ c.next >= journal.low

SetCursor(next) ==
    /\ ~owes
    /\ cursor' = [jid |-> usn.jid, next |-> usn.next]
    /\ pc' = next
    /\ UNCHANGED <<host, made, stale, log, fresh, notice, journal, schedVars, sigVars, fanVars,
                   winVars, history, budget>>

\* initial_next_usn: continue at the cursor, or reconcile and start at the tip
UsnOpen ==
    /\ pc = "open" /\ host = "usn" /\ ~owes
    /\ known' = IF made THEN "yes" ELSE "new"
    /\ IF cursor # None /\ Readable(cursor)
       THEN /\ usn' = [NoUsn EXCEPT !.jid = journal.jid, !.next = cursor.next, !.tip = Tip]
            /\ pc' = "check" /\ UNCHANGED <<log, fresh, owes>>
       ELSE /\ usn' = [NoUsn EXCEPT !.jid = journal.jid, !.next = Tip, !.tip = Tip]
            /\ pc' = "rebase" /\ Record({}, TRUE)
    /\ UNCHANGED <<host, made, stale, notice, cursor, journal, schedVars, wake, armed, stop,
                   queue, over, batch, sticky, reported, history, budget>>

UsnRebase == pc = "rebase" /\ SetCursor("check")

\* The top of the loop: usn_journal_changed and usn_gap
UsnCheck ==
    /\ pc = "check" /\ ~owes
    /\ IF stop THEN pc' = "off" /\ UNCHANGED <<usn, known, log, fresh, owes>>
       ELSE IF Readable(usn)
       THEN pc' = "uread" /\ usn' = [usn EXCEPT !.tip = Tip] /\ UNCHANGED <<known, log, fresh, owes>>
       ELSE /\ usn' = [NoUsn EXCEPT !.jid = journal.jid, !.next = Tip, !.tip = Tip]
            /\ known' = IF made THEN "yes" ELSE "new"
            /\ pc' = "reset" /\ Record({}, TRUE)
    /\ UNCHANGED <<host, made, stale, notice, cursor, journal, schedVars, wake, armed, stop,
                   queue, over, batch, sticky, reported, history, budget>>

UsnReset == pc = "reset" /\ SetCursor("uread")

\* read_usn_batch: as many records as the buffer holds
UsnRead ==
    /\ pc = "uread" /\ Readable(usn)
    /\ LET from == usn.next - journal.low
           left == Len(journal.recs) - from
       IN IF left = 0 THEN pc' = "setcur" /\ UNCHANGED usn
          ELSE \E n \in 1 .. left :
                 /\ usn' = [usn EXCEPT !.next = @ + n,
                                       !.todo = SubSeq(journal.recs, from + 1, from + n)]
                 /\ pc' = "upersist"
    /\ UNCHANGED <<host, made, stale, dbVars, journal, schedVars, sigVars, fanVars, reported,
                   history, budget>>

\* The range went between the check and the read.  Its row carries neither a
\* path nor rescan_required, so no pass acts on it.
UsnGap ==
    /\ pc = "uread" /\ ~Readable(usn)
    /\ owes' = TRUE /\ dropped' = dropped \cup (stale \ Logged)
    /\ pc' = "requery"
    /\ UNCHANGED <<host, made, stale, dbVars, journal, schedVars, wake, armed, stop, fanVars,
                   winVars, downtime, unheard, budget>>

UsnRequery ==
    /\ pc = "requery" /\ ~owes
    /\ usn' = [usn EXCEPT !.jid = journal.jid, !.next = Tip]
    /\ known' = IF made THEN "yes" ELSE "new"
    /\ dropped' = dropped \cup (stale \ Logged)
    /\ pc' = "setcur"
    /\ UNCHANGED <<host, made, stale, dbVars, journal, schedVars, sigVars, queue, over, batch,
                   sticky, reported, downtime, unheard, budget>>

\* persist_matching_record: a record whose parent is not in the directory index
\* is skipped
UsnPersist ==
    /\ pc = "upersist" /\ ~owes /\ usn.todo # <<>>
    /\ LET p == Head(usn.todo) IN
          /\ usn' = [usn EXCEPT !.todo = Tail(@), !.rebuild = @ \/ p = Dir]
          /\ IF p = Child /\ known # "yes" THEN UNCHANGED <<log, fresh, owes>>
             ELSE Record({p}, FALSE)
    /\ UNCHANGED <<host, made, stale, notice, cursor, journal, schedVars, wake, armed, stop, pc,
                   fanVars, reported, history, budget>>

\* The batch is persisted: rebuild_directory_index when it named a directory
UsnBatchEnd ==
    /\ pc = "upersist" /\ ~owes /\ usn.todo = <<>>
    /\ known' = IF usn.rebuild /\ made THEN "yes" ELSE known
    /\ usn' = [usn EXCEPT !.rebuild = FALSE]
    /\ pc' = IF usn.next >= usn.tip \/ stop THEN "setcur" ELSE "uread"
    /\ UNCHANGED <<host, made, stale, dbVars, journal, schedVars, sigVars, queue, over, batch,
                   sticky, reported, history, budget>>

UsnSetCursor == pc = "setcur" /\ SetCursor("check")

\* Any error of the session, and no access to the journal at all
UsnEnds ==
    /\ ~owes
    /\ \/ pc = "open" /\ host = "dir" /\ UNCHANGED budget
       \/ host = "usn" /\ Spend("die")
          /\ pc \in {"open", "rebase", "check", "reset", "uread", "upersist", "requery", "setcur"}
    /\ pc' = "dopen" /\ usn' = NoUsn
    /\ UNCHANGED <<host, made, stale, dbVars, journal, schedVars, sigVars, fanVars, reported,
                   history>>

----------------------------------------------------------------------------
(* The directory watcher of Windows *)

DirOpen ==
    /\ pc = "dopen"
    /\ pc' = "dfirst" /\ queue' = {} /\ over' = FALSE /\ batch' = NoRows
    /\ UNCHANGED <<host, made, stale, dbVars, journal, schedVars, sigVars, known, sticky,
                   winVars, history, budget>>

\* The loop condition, and the call that blocks until there is a change
DirWait ==
    /\ pc \in {"dfirst", "dtop"} /\ ~stop /\ ~owes
    /\ pc' = "dread"
    /\ UNCHANGED <<host, made, stale, dbVars, journal, schedVars, sigVars, fanVars, winVars,
                   history, budget>>

\* The handle is closed; what it had buffered is gone
DirClosed(next, silent) ==
    /\ pc' = next /\ queue' = {} /\ over' = FALSE /\ batch' = NoRows
    /\ unheard' = IF host = "dir" /\ silent THEN unheard \cup (stale \ Logged) ELSE unheard
    /\ UNCHANGED <<host, made, stale, dbVars, journal, schedVars, sigVars, known, sticky, winVars,
                   downtime, dropped>>

DirStop == pc \in {"dfirst", "dtop"} /\ stop /\ ~owes /\ DirClosed("off", TRUE) /\ UNCHANGED budget

DirEnds == pc \in {"dopen", "dread", "dpersist"} /\ ~owes /\ Spend("die") /\ DirClosed("dfail", reported)

DirRead ==
    /\ pc = "dread" /\ (queue # {} \/ over)
    /\ queue' = {} /\ over' = FALSE
    /\ IF over
       THEN pc' = "dtop" /\ Record({}, TRUE) /\ UNCHANGED batch
       ELSE pc' = "dpersist" /\ batch' = [NoRows EXCEPT !.paths = queue]
            /\ UNCHANGED <<log, fresh, owes>>
    /\ UNCHANGED <<host, made, stale, notice, cursor, journal, schedVars, wake, armed, stop,
                   known, sticky, winVars, history, budget>>

DirPersist ==
    /\ pc = "dpersist" /\ ~owes
    /\ \E p \in batch.paths :
          /\ Record({p}, FALSE)
          /\ batch' = [batch EXCEPT !.paths = @ \ {p}]
          /\ pc' = IF batch'.paths = {} THEN "dtop" ELSE pc
    /\ UNCHANGED <<host, made, stale, notice, cursor, journal, schedVars, wake, armed, stop,
                   known, queue, over, sticky, winVars, history, budget>>

\* windows_watcher_unavailable, once per watcher thread
DirReport ==
    /\ pc = "dfail" /\ pc' = "retry" /\ reported' = TRUE
    /\ IF reported THEN UNCHANGED <<log, fresh, owes, unheard, budget>>
       ELSE \/ Record({}, TRUE) /\ UNCHANGED <<unheard, budget>>
            \/ /\ Spend("db") /\ UNCHANGED <<log, fresh, owes>>
               /\ unheard' = IF host = "dir" THEN unheard \cup (stale \ Logged) ELSE unheard
    /\ UNCHANGED <<host, made, stale, notice, cursor, journal, schedVars, wake, armed, stop,
                   fanVars, usn, downtime, dropped>>

DirRetry ==
    /\ pc = "retry" /\ ~owes
    /\ pc' = IF stop THEN "off" ELSE "open"
    /\ UNCHANGED <<host, made, stale, dbVars, journal, schedVars, sigVars, fanVars, winVars,
                   history, budget>>

----------------------------------------------------------------------------
(* The scheduler thread *)

\* spawn_source_watcher_thread; on Windows it counts as armed at once
StartWatcher ==
    /\ pc' = IF Fanotify THEN "setup" ELSE "open"
    /\ armed' = ~Fanotify /\ stop' = FALSE /\ reported' = FALSE
    /\ known' = IF Fanotify THEN "new" ELSE known

\* wait_for_watcher_armed: 900 s at most
ArmedOrLate == armed \/ budget["late"] > 0

Boot ==
    /\ sched = "down" /\ sched' = "boot"
    /\ StartWatcher
    /\ UNCHANGED <<host, made, stale, dbVars, journal, pass, taken, dirty, wake, owes, queue,
                   over, batch, sticky, usn, history, budget>>

\* raise_restart_notices: one that cannot be written is only logged
RaiseNotice ==
    \/ notice' = (notice \/ Fanotify) /\ UNCHANGED <<unheard, budget>>
    \/ /\ Fanotify /\ ~notice /\ Spend("db")
       /\ unheard' = unheard \cup (downtime \ Logged)
       /\ UNCHANGED notice

\* wait_for_watcher_armed, then the notices
BootArmed ==
    /\ sched = "boot" /\ ArmedOrLate
    /\ sched' = "top" /\ RaiseNotice
    /\ UNCHANGED <<host, made, stale, log, fresh, cursor, journal, pass, taken, dirty, sigVars,
                   pc, fanVars, winVars, downtime, dropped>>

\* The watched part of the configuration changed: stop_watcher, which joins
Reconfigure ==
    /\ sched = "top" /\ Spend("conf")
    /\ sched' = "join" /\ stop' = TRUE
    /\ UNCHANGED <<host, made, stale, dbVars, journal, pass, taken, dirty, wake, owes, armed, pc,
                   fanVars, winVars, history>>

Joined ==
    /\ sched = "join" /\ pc = "off" /\ ~owes
    /\ sched' = "rearm"
    /\ StartWatcher
    /\ UNCHANGED <<host, made, stale, dbVars, journal, pass, taken, dirty, wake, owes, queue,
                   over, batch, sticky, usn, history, budget>>

\* Mutant: only the windows of a crash and of a failure are recorded.
RearmGapUnrecorded == UNCHANGED <<log, fresh, wake, unheard, budget>>

\* watcher_restart_gap, unless the platform has a journal; a failure is logged
RearmGap ==
    IF ~Fanotify THEN UNCHANGED <<log, fresh, wake, unheard, budget>>
    ELSE \/ /\ log' = Plus(log, {}, TRUE) /\ fresh' = TRUE /\ wake' = TRUE
            /\ UNCHANGED <<unheard, budget>>
         \/ /\ Spend("db") /\ unheard' = unheard \cup (stale \ Logged)
            /\ UNCHANGED <<log, fresh, wake>>

Rearmed ==
    /\ sched = "rearm" /\ ArmedOrLate
    /\ sched' = "top"
    /\ RearmGap
    /\ UNCHANGED <<host, made, stale, notice, cursor, journal, pass, taken, dirty, owes, armed,
                   stop, pc, fanVars, winVars, downtime, dropped>>

\* Mutant: the flag is cleared on the way into the wait.
EnterWaitClearing == sched' = "wait" /\ wake' = FALSE

\* wait_for_activity
EnterWait == sched' = "wait" /\ UNCHANGED wake

\* A pass of the scheduler, or of a manual request, takes the rows
Take(who) ==
    /\ pass = "idle" /\ log # NoRows
    /\ pass' = who /\ taken' = log /\ log' = NoRows /\ fresh' = FALSE /\ dirty' = {}
    /\ UNCHANGED <<host, made, stale, notice, cursor, journal, sigVars, pc, fanVars, winVars,
                   history>>

PassStart   == sched = "top" /\ sched' = "sync" /\ Take("sched") /\ UNCHANGED budget
ManualStart == Up /\ Take("manual") /\ Spend("manual") /\ UNCHANGED sched

NothingDue ==
    /\ sched = "top" /\ pass = "idle" /\ log = NoRows
    /\ EnterWait
    /\ UNCHANGED <<host, made, stale, dbVars, journal, pass, taken, dirty, owes, armed, stop, pc,
                   fanVars, winVars, history, budget>>

PassOver ==
    /\ pass' = "idle" /\ taken' = NoRows /\ dirty' = {}
    /\ IF pass = "sched" THEN EnterWait ELSE UNCHANGED <<sched, wake>>
    /\ UNCHANGED <<host, made, notice, cursor, journal, owes, armed, stop, pc, fanVars, winVars>>

\* The destinations are verified for the cycle of the rows
PassDone ==
    /\ pass # "idle"
    /\ LET now == stale \ (ReadBy(taken) \ dirty) IN
          /\ stale' = now
          /\ downtime' = downtime \cap now
          /\ unheard' = unheard \cap now
          /\ dropped' = dropped \cap now
    /\ PassOver
    /\ UNCHANGED <<log, fresh, budget>>

\* It fails: the rows are still those of cycles no destination has passed
PassFails ==
    /\ pass # "idle" /\ Spend("fail")
    /\ log' = Plus(log, taken.paths, taken.rescan)
    /\ PassOver
    /\ UNCHANGED <<stale, fresh, history>>

\* Mutant: the wait has no timeout.
AwakeNotified ==
    /\ sched = "wait" /\ wake
    /\ sched' = "top" /\ wake' = FALSE
    /\ UNCHANGED <<host, made, stale, dbVars, journal, pass, taken, dirty, owes, armed, stop, pc,
                   fanVars, winVars, history, budget>>

\* Notified, or after five seconds
Awake ==
    /\ sched = "wait"
    /\ sched' = "top" /\ wake' = FALSE
    /\ UNCHANGED <<host, made, stale, dbVars, journal, pass, taken, dirty, owes, armed, stop, pc,
                   fanVars, winVars, history, budget>>

\* The process dies: rows, notice and cursor survive, and with fanotify the
\* restart notice will stand for the rest
Crash ==
    /\ Up /\ Spend("crash")
    /\ sched' = "down" /\ pass' = "idle" /\ taken' = NoRows /\ dirty' = {}
    /\ log' = Plus(log, taken.paths, taken.rescan)
    /\ fresh' = FALSE
    /\ wake' = FALSE /\ owes' = FALSE /\ armed' = FALSE /\ stop' = FALSE
    /\ pc' = "off" /\ queue' = {} /\ over' = FALSE /\ batch' = NoRows /\ sticky' = FALSE
    /\ usn' = NoUsn /\ reported' = FALSE
    /\ LET lost == stale \ ReadBy(log') IN
          /\ downtime' = IF Fanotify THEN downtime \cup lost ELSE downtime
          /\ unheard' = IF host = "dir" THEN unheard \cup lost ELSE unheard
    /\ UNCHANGED <<host, made, stale, notice, cursor, journal, known, dropped>>

----------------------------------------------------------------------------

Fan == FanSetup \/ FanDegrade \/ FanMark \/ FanRead \/ FanPersist \/ FanStop \/ FanFails
       \/ FanGap \/ FanRestart

Usn == UsnOpen \/ UsnRebase \/ UsnCheck \/ UsnReset \/ UsnRead \/ UsnGap \/ UsnRequery
       \/ UsnPersist \/ UsnBatchEnd \/ UsnSetCursor \/ UsnEnds

WinDir == DirOpen \/ DirWait \/ DirRead \/ DirPersist \/ DirStop \/ DirEnds \/ DirReport \/ DirRetry

Watcher == Fan \/ Usn \/ WinDir \/ Notify

Scheduler == Boot \/ BootArmed \/ Reconfigure \/ Joined \/ Rearmed \/ PassStart \/ NothingDue
             \/ PassDone \/ PassFails \/ Awake

World ==
    \/ \E p \in Path, k \in {"content", "entry"} : Change(p, k)
    \/ JournalTrimmed \/ JournalRecreated
    \/ ManualStart \/ Crash

Next == Watcher \/ Scheduler \/ World

Spec == Init /\ [][Next]_vars

\* Every thread keeps running, a pass ends, and the service manager restarts
\* the process.
FairSpec == Spec /\ WF_vars(Watcher) /\ WF_vars(Scheduler) /\ WF_vars(PassDone)

----------------------------------------------------------------------------
(* What the watchers promise *)

Rows == [paths : SUBSET Path, rescan : BOOLEAN]

TypeOK ==
    /\ host \in Host /\ made \in BOOLEAN /\ stale \subseteq Path
    /\ log \in Rows /\ taken \in Rows /\ batch \in Rows
    /\ {fresh, notice, wake, owes, armed, stop, over, sticky, reported} \subseteq BOOLEAN
    /\ cursor # None => cursor.jid \in 1 .. journal.jid /\ cursor.next \in Nat
    /\ sched \in {"down", "boot", "top", "join", "rearm", "sync", "wait"}
    /\ pass \in {"idle", "sched", "manual"} /\ (sched = "sync") = (pass = "sched")
    /\ dirty \subseteq Path /\ queue \subseteq Path /\ Cardinality(queue) <= Cap
    /\ known \in {"new", "yes", "blind", "lost"}
    /\ usn.next \in Nat /\ usn.tip \in Nat /\ usn.todo \in Seq(Path)
    /\ downtime \cup unheard \cup dropped \subseteq stale
    /\ budget \in [Env -> Nat]

InSession == pc \in {"rebase", "check", "reset", "uread", "upersist", "requery", "setcur"}

RecordsFrom(n) == {journal.recs[i] : i \in (n - journal.low + 1) .. Len(journal.recs)}

\* What a USN watcher will still find: in the running session, or after it in
\* the next one, whose check of the cursor notices a range that is gone
InJournal ==
    IF InSession
    THEN IF Readable(usn)
         THEN Beneath(RecordsFrom(usn.next) \cup {usn.todo[i] : i \in DOMAIN usn.todo})
         ELSE Path
    ELSE IF cursor # None /\ Readable(cursor) THEN Beneath(RecordsFrom(cursor.next)) ELSE Path

\* A marker is still to be recorded, whatever happens
MarkerDue ==
    \/ over \/ sticky
    \/ Fanotify /\ (pc = "dying" \/ sched \in {"join", "rearm"})
    \/ host = "dir" /\ pc = "dfail" /\ ~reported

InWatcher ==
    CASE host = "usn" -> InJournal
      [] host # "usn" /\ MarkerDue -> Path
      [] OTHER -> Beneath(queue) \cup ReadBy(batch)

ByNotice == IF notice \/ sched \in {"down", "boot"} THEN downtime ELSE {}

\* A change of the source is on its way to the destinations: a row names it or
\* asks for a reconcile, the running pass will read it, the watcher holds it or
\* will record a gap, the restart notice tells the user.  The exceptions are
\* the windows the code leaves open: `unheard` and, for a range of the journal
\* that vanished between a check and a read, `dropped`.
NothingForgotten == stale \subseteq Logged \cup InWatcher \cup ByNotice \cup unheard \cup dropped

\* A lost range of the journal is always reconciled ("a possible-event-loss
\* signal"; "this matches the in-session gap path").
JournalLossReconciled == stale \subseteq Logged \cup InWatcher \cup ByNotice \cup unheard

\* What changed while nothing ran is announced once the start is over ("raise a
\* persistent per-source notice").
DowntimeNoticed ==
    sched \notin {"down", "boot"} => downtime \subseteq Logged \cup InWatcher \cup ByNotice

\* A directory of which nothing will be heard is found out when its event is read
\* ("must trigger a reconcile instead of a silent blind spot").
NoBlindSpot ==
    [][pc = "read" /\ known # "blind" /\ known' = "blind" => batch'.rescan]_vars

\* The scheduler does not sleep its five seconds on a row: the flag of
\* signal.rs is up, or the thread that committed the row is about to raise it.
WakePending == sched = "wait" /\ fresh => wake \/ owes

\* Waiting for something that may not come: sticky_rescan for the next event,
\* a journal behind a directory watcher for the end of its session, a stopped
\* directory watcher for the change that ends its blocking call.
Waiting ==
    \/ sticky
    \/ host = "usn" /\ pc \in {"dopen", "dfirst", "dtop", "dread", "dpersist", "dfail", "retry"}
    \/ host = "dir" /\ sched = "join" /\ pc = "dread"

\* A change is applied to the destinations, without a user's help and without
\* a further change, except in the windows named above.
Reconciles ==
    \A p \in Path : p \in stale ~> \/ p \notin stale \ (downtime \cup unheard \cup dropped)
                                   \/ Waiting

=============================================================================
