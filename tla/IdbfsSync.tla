------------------------------ MODULE IdbfsSync ------------------------------
(***************************************************************************)
(* fs: 'idbfs': one IndexedDB object store shared by all workers of the    *)
(* origin, and in each worker the in-memory copy of /home/user that a run  *)
(* fills from the store, edits and writes back (web/zsh-worker.js, and     *)
(* IDBFS and MEMFS in web/zsh.js).                                         *)
(*                                                                         *)
(* Both transfers take two transactions: a readonly one that lists paths   *)
(* and timestamps, and a readwrite one that moves what differs.  Two       *)
(* entries of a path are taken for equal when their timestamps are.        *)
(*                                                                         *)
(* Below the mount point there is one directory, which stands for any, and *)
(* the files of Inside are in it.  Contents are numbered by the write that *)
(* made them; 0 is the empty file, and the contents of a directory.        *)
(***************************************************************************)
EXTENDS Naturals, FiniteSets

CONSTANTS
    Workers,    \* the workers, of one pool or of several tabs
    Files,      \* paths of files
    Dir,        \* the path of a directory
    Inside,     \* the files in Dir; the others are in the mount point itself
    MaxTime,    \* bound on Date.now()
    MaxRuns,    \* bound on the number of runs
    MaxWrites,  \* bound on the number of writes
    Ties,       \* two changes may fall into the same millisecond
    Truncates,  \* scripts may empty a file without writing to it
    Faults      \* requests of a transaction may fail

ASSUME SyncAssumption ==
    /\ Dir \notin Files
    /\ Inside \subseteq Files
    /\ MaxTime \in Nat \ {0} /\ MaxRuns \in Nat /\ MaxWrites \in Nat
    /\ Ties \in BOOLEAN /\ Truncates \in BOOLEAN /\ Faults \in BOOLEAN

Paths == Files \union {Dir}

Entry   == [time : 0..MaxTime, data : 0..MaxWrites]
Absent  == [time |-> 0, data |-> 0]
Nowhere == [p \in Paths |-> Absent]

Present(e) == e.time # 0

Times(fs) == [p \in Paths |-> fs[p].time]

VARIABLES
    store,    \* the object store FILE_DATA
    now,      \* Date.now()
    runs,     \* how many runs have started
    written,  \* how many contents have been written
    pc,       \* per worker: "idle", "populating", "running", "saving" or "lost"
    local,    \* per worker: the files below its mount point
    seen,     \* per worker: the timestamps that getRemoteSet() returned
    touched   \* per worker: the paths its script has changed

vars == <<store, now, runs, written, pc, local, seen, touched>>

-------------------------------------------------------------------------------
Init ==
    /\ store = Nowhere
    /\ now = 1
    /\ runs = 0
    /\ written = 0
    /\ pc = [w \in Workers |-> "idle"]
    /\ local = [w \in Workers |-> Nowhere]
    /\ seen = [w \in Workers |-> Times(Nowhere)]
    /\ touched = [w \in Workers |-> {}]

\* The clock at the next change.
Clock == now' \in (IF Ties THEN {now, now + 1} ELSE {now + 1}) /\ now' <= MaxTime

Goes(w, from, to) == pc[w] = from /\ pc' = [pc EXCEPT ![w] = to]

-------------------------------------------------------------------------------
(* syncfs(true): from the store to the fresh mount *)

\* The mount is empty; getRemoteSet() lists the store.  The module was started no
\* less than a millisecond after what the store has.
Populate(w) ==
    /\ runs < MaxRuns
    /\ runs' = runs + 1
    /\ now < MaxTime
    /\ now' = now + 1
    /\ Goes(w, "idle", "populating")
    /\ seen' = [seen EXCEPT ![w] = Times(store)]
    /\ UNCHANGED <<store, written, local, touched>>

Listed(w) == {p \in Paths : seen[w][p] # 0}

\* Every listed entry still is there, and a file has the directory it is in.
Loadable(w) ==
    /\ \A p \in Listed(w) : Present(store[p])
    /\ Listed(w) \intersect Inside # {} => Dir \in Listed(w)

\* Mutation of Fetched: what is in a directory is not listed.
FetchedTop(w) == [p \in Paths |-> IF p \in Listed(w) \ Inside THEN store[p] ELSE Absent]

\* Paths are stored in ascending order: the directory, with its own time, and then
\* its files, each of which makes it change again.
Fetched(w) ==
    [p \in Paths |->
        IF p \notin Listed(w) THEN Absent
        ELSE IF p = Dir /\ Listed(w) \intersect Inside # {}
             THEN [store[p] EXCEPT !.time = now']
        ELSE store[p]]

Fetch(w) ==
    /\ Loadable(w)
    /\ Clock
    /\ Goes(w, "populating", "running")
    /\ local' = [local EXCEPT ![w] = Fetched(w)]
    /\ touched' = [touched EXCEPT ![w] = {}]
    /\ UNCHANGED <<store, runs, written, seen>>

\* syncfs() reports an error, the handler throws, and nothing more is posted.
FetchFails(w) ==
    /\ Faults \/ ~Loadable(w)
    /\ Goes(w, "populating", "lost")
    /\ UNCHANGED <<store, now, runs, written, local, seen, touched>>

-------------------------------------------------------------------------------
(* The script: MEMFS *)

InPlace(w, p) == p \in Inside => Present(local[w][Dir])

\* The run's files become fs.  Dir changes too when a name in it was made or removed.
Changes(w, fs, paths, names) ==
    /\ local' = [local EXCEPT ![w] =
                     IF names \intersect Inside = {} THEN fs ELSE [fs EXCEPT ![Dir].time = now']]
    /\ touched' = [touched EXCEPT ![w] = @ \union paths]
    /\ UNCHANGED <<store, runs, pc, seen>>

\* Mutation of Write: a write to an existing file does not set its time.
WriteUnstamped(w, p) ==
    /\ pc[w] = "running"
    /\ InPlace(w, p)
    /\ written < MaxWrites
    /\ written' = written + 1
    /\ Clock
    /\ LET old  == local[w][p]
           time == IF Present(old) THEN old.time ELSE now'
       IN  Changes(w, [local[w] EXCEPT ![p] = [time |-> time, data |-> written']],
                   {p}, IF Present(old) THEN {} ELSE {p})

Write(w, p) ==
    /\ pc[w] = "running"
    /\ InPlace(w, p)
    /\ written < MaxWrites
    /\ written' = written + 1
    /\ Clock
    /\ Changes(w, [local[w] EXCEPT ![p] = [time |-> now', data |-> written']],
               {p}, IF Present(local[w][p]) THEN {} ELSE {p})

\* O_TRUNC or ftruncate(): setattr() knows no attribute "timestamp".
Truncate(w, p) ==
    /\ Truncates
    /\ pc[w] = "running"
    /\ Present(local[w][p])
    /\ Clock
    /\ Changes(w, [local[w] EXCEPT ![p].data = 0], {p}, {})
    /\ UNCHANGED written

Remove(w, p) ==
    /\ pc[w] = "running"
    /\ Present(local[w][p])
    /\ Clock
    /\ Changes(w, [local[w] EXCEPT ![p] = Absent], {p}, {p})
    /\ UNCHANGED written

\* A renamed file keeps its time.
Rename(w, p, q) ==
    /\ pc[w] = "running"
    /\ p # q /\ Present(local[w][p]) /\ InPlace(w, q)
    /\ Clock
    /\ Changes(w, [local[w] EXCEPT ![p] = Absent, ![q] = local[w][p]], {p, q}, {p, q})
    /\ UNCHANGED written

MakeDir(w) ==
    /\ pc[w] = "running"
    /\ ~Present(local[w][Dir])
    /\ Clock
    /\ Changes(w, [local[w] EXCEPT ![Dir] = [time |-> now', data |-> 0]], {Dir}, {})
    /\ UNCHANGED written

\* Mutation of RemoveDir: a directory that is not empty goes too.
RemoveDirFull(w) ==
    /\ pc[w] = "running"
    /\ Present(local[w][Dir])
    /\ Clock
    /\ Changes(w, [local[w] EXCEPT ![Dir] = Absent], {Dir}, {})
    /\ UNCHANGED written

\* rmdir() refuses a directory that is not empty.
RemoveDir(w) ==
    /\ pc[w] = "running"
    /\ Present(local[w][Dir])
    /\ \A p \in Inside : ~Present(local[w][p])
    /\ Clock
    /\ Changes(w, [local[w] EXCEPT ![Dir] = Absent], {Dir}, {})
    /\ UNCHANGED written

-------------------------------------------------------------------------------
(* syncfs(false): from the mount to the store *)

BeginSave(w) ==
    /\ Goes(w, "running", "saving")
    /\ seen' = [seen EXCEPT ![w] = Times(store)]
    /\ UNCHANGED <<store, now, runs, written, local, touched>>

Created(w) == {p \in Paths : Present(local[w][p]) /\ local[w][p].time # seen[w][p]}

\* Mutation of Removed: nothing is deleted.
RemovedNone(w) == {p \in Listed(w) : FALSE}

Removed(w) == {p \in Listed(w) : ~Present(local[w][p])}

\* The store once the requests for these paths have been carried out.
Stored(w, paths) == [p \in Paths |-> IF p \in paths THEN local[w][p] ELSE store[p]]

Commit(w) ==
    /\ Goes(w, "saving", "idle")
    /\ store' = Stored(w, Created(w) \union Removed(w))
    /\ local' = [local EXCEPT ![w] = Nowhere]
    /\ UNCHANGED <<now, runs, written, seen, touched>>

\* The error of a request is reported but, prevented from its default action, does
\* not abort the transaction: the other requests are committed.
CommitFails(w) ==
    /\ Faults
    /\ Goes(w, "saving", "lost")
    /\ \E done \in SUBSET (Created(w) \union Removed(w)) : store' = Stored(w, done)
    /\ UNCHANGED <<now, runs, written, local, seen, touched>>

\* Mutation of Terminate: the worker is not replaced.
TerminateOnly(w) ==
    /\ pc[w] # "idle"
    /\ pc' = [pc EXCEPT ![w] = "terminated"]
    /\ local' = [local EXCEPT ![w] = Nowhere]
    /\ UNCHANGED <<store, now, runs, written, seen, touched>>

\* The page's timer ends the worker, a transaction not yet committed with it, and
\* the next run has a new worker.
Terminate(w) ==
    /\ pc[w] # "idle"
    /\ pc' = [pc EXCEPT ![w] = "idle"]
    /\ local' = [local EXCEPT ![w] = Nowhere]
    /\ UNCHANGED <<store, now, runs, written, seen, touched>>

-------------------------------------------------------------------------------
(* The specification *)

Script(w) ==
    \/ \E p \in Files : Write(w, p) \/ Truncate(w, p) \/ Remove(w, p)
    \/ \E p, q \in Files : Rename(w, p, q)
    \/ MakeDir(w)
    \/ RemoveDir(w)

Step(w) ==
    \/ Populate(w) \/ Fetch(w) \/ FetchFails(w)
    \/ Script(w)
    \/ BeginSave(w) \/ Commit(w) \/ CommitFails(w)
    \/ Terminate(w)

Next == \E w \in Workers : Step(w)

Spec == Init /\ [][Next]_vars

-------------------------------------------------------------------------------
(* Properties *)

TypeOK ==
    /\ store \in [Paths -> Entry]
    /\ now \in 1..MaxTime
    /\ runs \in 0..MaxRuns
    /\ written \in 0..MaxWrites
    /\ pc \in [Workers -> {"idle", "populating", "running", "saving", "lost"}]
    /\ local \in [Workers -> [Paths -> Entry]]
    /\ seen \in [Workers -> [Paths -> 0..MaxTime]]
    /\ touched \in [Workers -> SUBSET Paths]

\* Every stored file has its directory in the store.  Where it does not, no later
\* run gets past syncfs(true).
StoreIsTree == \A p \in Inside : Present(store[p]) => Present(store[Dir])

\* Copies of a path that carry the same time have the same contents, wherever they
\* are, unless one was emptied: comparing times is comparing contents.
StampsAgree ==
    LET copies == {store} \union {local[w] : w \in Workers}
    IN  \A f, g \in copies : \A p \in Paths :
            f[p].time = g[p].time =>
                f[p].data = g[p].data \/ (Truncates /\ 0 \in {f[p].data, g[p].data})

\* What a run saves differs from what was stored only where its script changed it.
OnlyTouched ==
    [][\A w \in Workers : Commit(w) =>
           \A p \in Files \ touched[w] :
               store'[p].data = store[p].data /\ Present(store'[p]) = Present(store[p])]_vars

Seen(fs) == [p \in Paths |-> IF Present(fs[p]) THEN {fs[p].data} ELSE {}]

AtWork == \E w \in Workers : pc[w] \in {"running", "saving"}

View ==
    IF AtWork THEN Seen(local[CHOOSE w \in Workers : pc[w] \in {"running", "saving"}])
    ELSE Seen(Nowhere)

Home == INSTANCE HomeDirectory WITH
    Contents <- {{n} : n \in 0..MaxWrites},
    Nothing <- {},
    home <- Seen(store), view <- View, open <- AtWork

\* With one run at a time, IndexedDB, the two transfers and the timestamps amount
\* to a directory that is replaced as a whole or not at all.  This is for runs that
\* never write twice within a millisecond (Ties), empty no file without writing to it
\* (Truncates) and have no request that fails (Faults).
KeepsHome == Home!Spec
===============================================================================
