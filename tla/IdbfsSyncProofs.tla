--------------------------- MODULE IdbfsSyncProofs ---------------------------
(***************************************************************************)
(* Theorems about IdbfsSync.  For any number of workers, the timestamps    *)
(* are sound when no two changes share a millisecond and nothing is        *)
(* truncated (StampInv): every transfer copies entries with their times,   *)
(* and the only new contents carry a time that no entry has yet.           *)
(*                                                                         *)
(* With one worker, what getRemoteSet() has listed is what the store has   *)
(* until the transfer is done (FreshInv).  So a save makes the store equal *)
(* to the mount (SaveIsWhole): the stored tree is kept, and so is what a   *)
(* run has not touched (UntouchedInv), even when changes share             *)
(* milliseconds and files are truncated; without those IdbfsSync           *)
(* implements HomeDirectory.                                               *)
(***************************************************************************)
EXTENDS IdbfsSync, TLAPS

Stores == {store} \union {local[w] : w \in Workers}

\* No time is later than the clock's.
ClockInv == \A f \in Stores : \A p \in Paths : f[p].time <= now

\* A time belongs to one content of a file, under whichever name and in whichever copy.
StampInv ==
    /\ \A f, g \in Stores : \A p, q \in Files : f[p].time = g[q].time => f[p].data = g[q].data
    /\ \A f \in Stores : f[Dir].data = 0

\* Absent files have no contents.
AbsentInv == \A f \in Stores : \A p \in Paths : f[p].time = 0 => f[p].data = 0

-------------------------------------------------------------------------------
(* The types *)

\* What a transfer or a script leaves in a mount is a mount.
LEMMA FetchedType ==
  ASSUME TypeOK, NEW w \in Workers, now' \in 1..MaxTime
  PROVE  Fetched(w) \in [Paths -> Entry]
<1>1. Absent \in Entry
  BY SyncAssumption DEF Absent, Entry
<1>2. \A e \in Entry : [e EXCEPT !.time = now'] \in Entry
  BY SyncAssumption DEF Entry
<1> QED BY <1>1, <1>2 DEF Fetched, TypeOK

\* The same for a script's change, whose only news is the directory's time.
LEMMA ChangesType ==
  ASSUME TypeOK, NEW w \in Workers, NEW fs \in [Paths -> Entry], NEW paths \in SUBSET Paths,
         NEW names, now' \in 1..MaxTime, Changes(w, fs, paths, names)
  PROVE  /\ local' \in [Workers -> [Paths -> Entry]]
         /\ touched' \in [Workers -> SUBSET Paths]
         /\ UNCHANGED <<store, runs, pc, seen>>
<1>1. [fs EXCEPT ![Dir].time = now'] \in [Paths -> Entry]
  BY SyncAssumption DEF Entry, Paths
<1> QED BY <1>1 DEF Changes, TypeOK

\* The clock stays within its bound.
LEMMA ClockType ==
  ASSUME TypeOK, Clock
  PROVE  now' \in 1..MaxTime /\ now' \in Nat /\ now <= now'
  BY SyncAssumption DEF TypeOK, Clock

\* Every step of a script keeps the types.
LEMMA ScriptType ==
  ASSUME TypeOK, NEW w \in Workers, Script(w)
  PROVE  TypeOK'
<1>1. now' \in 1..MaxTime
  BY ClockType DEF Script, Write, Truncate, Remove, Rename, MakeDir, RemoveDir
<1>2. \A p \in Files : p \in Paths
  BY DEF Paths
<1>3. Dir \in Paths /\ local[w] \in [Paths -> Entry]
  BY DEF Paths, TypeOK
<1>4. ASSUME NEW p \in Files, Write(w, p) PROVE TypeOK'
  <2>1. written' \in 0..MaxWrites
    BY <1>4, SyncAssumption DEF Write, TypeOK
  <2>2. [local[w] EXCEPT ![p] = [time |-> now', data |-> written']] \in [Paths -> Entry]
    BY <1>1, <1>2, <1>3, <2>1 DEF Entry
  <2> QED BY <1>1, <1>2, <1>4, <2>1, <2>2, ChangesType DEF Write, TypeOK
<1>5. ASSUME NEW p \in Files, Truncate(w, p) PROVE TypeOK'
  <2>1. [local[w] EXCEPT ![p].data = 0] \in [Paths -> Entry]
    BY <1>2, <1>3, SyncAssumption DEF Entry
  <2> QED BY <1>1, <1>2, <1>5, <2>1, ChangesType DEF Truncate, TypeOK
<1>6. Absent \in Entry
  BY SyncAssumption DEF Absent, Entry
<1>7. ASSUME NEW p \in Files, Remove(w, p) PROVE TypeOK'
  <2>1. [local[w] EXCEPT ![p] = Absent] \in [Paths -> Entry]
    BY <1>2, <1>3, <1>6
  <2> QED BY <1>1, <1>2, <1>7, <2>1, ChangesType DEF Remove, TypeOK
<1>8. ASSUME NEW p \in Files, NEW q \in Files, Rename(w, p, q) PROVE TypeOK'
  <2>1. [local[w] EXCEPT ![p] = Absent, ![q] = local[w][p]] \in [Paths -> Entry]
    BY <1>2, <1>3, <1>6
  <2> QED BY <1>1, <1>2, <1>8, <2>1, ChangesType DEF Rename, TypeOK
<1>9. CASE MakeDir(w)
  <2>1. [local[w] EXCEPT ![Dir] = [time |-> now', data |-> 0]] \in [Paths -> Entry]
    BY <1>1, <1>3, SyncAssumption DEF Entry
  <2> QED BY <1>1, <1>3, <1>9, <2>1, ChangesType DEF MakeDir, TypeOK
<1>10. CASE RemoveDir(w)
  <2>1. [local[w] EXCEPT ![Dir] = Absent] \in [Paths -> Entry]
    BY <1>3, <1>6
  <2> QED BY <1>1, <1>3, <1>10, <2>1, ChangesType DEF RemoveDir, TypeOK
<1> QED BY <1>4, <1>5, <1>7, <1>8, <1>9, <1>10 DEF Script

\* Every variable of IdbfsSync keeps its type, for any number of workers, files and runs.
THEOREM TypeCorrect == Spec => []TypeOK
<1>1. Init => TypeOK
  BY SyncAssumption DEF Init, TypeOK, Nowhere, Absent, Entry, Times
<1>2. TypeOK /\ [Next]_vars => TypeOK'
  <2> SUFFICES ASSUME TypeOK, [Next]_vars PROVE TypeOK'
    OBVIOUS
  <2>1. Times(store) \in [Paths -> 0..MaxTime] /\ Nowhere \in [Paths -> Entry]
    BY SyncAssumption DEF TypeOK, Times, Entry, Nowhere, Absent
  <2>2. \A w \in Workers, done \in SUBSET Paths : Stored(w, done) \in [Paths -> Entry]
    BY DEF TypeOK, Stored
  <2>3. \A w \in Workers : Created(w) \in SUBSET Paths /\ Removed(w) \in SUBSET Paths
    BY DEF Created, Removed, Listed
  <2>4. ASSUME NEW w \in Workers, Populate(w) PROVE TypeOK'
    BY <2>1, <2>4, SyncAssumption DEF Populate, Goes, TypeOK
  <2>5. ASSUME NEW w \in Workers, Fetch(w) PROVE TypeOK'
    BY <2>5, FetchedType, ClockType DEF Fetch, Goes, TypeOK
  <2>6. ASSUME NEW w \in Workers, FetchFails(w) PROVE TypeOK'
    BY <2>6 DEF FetchFails, Goes, TypeOK
  <2>7. ASSUME NEW w \in Workers, BeginSave(w) PROVE TypeOK'
    BY <2>1, <2>7 DEF BeginSave, Goes, TypeOK
  <2>8. ASSUME NEW w \in Workers, Commit(w) PROVE TypeOK'
    BY <2>1, <2>2, <2>3, <2>8 DEF Commit, Goes, TypeOK
  <2>9. ASSUME NEW w \in Workers, CommitFails(w) PROVE TypeOK'
    BY <2>2, <2>3, <2>9 DEF CommitFails, Goes, TypeOK
  <2>10. ASSUME NEW w \in Workers, Terminate(w) PROVE TypeOK'
    BY <2>1, <2>10 DEF Terminate, TypeOK
  <2>11. CASE UNCHANGED vars
    BY <2>11 DEF vars, TypeOK
  <2> QED BY <2>4, <2>5, <2>6, <2>7, <2>8, <2>9, <2>10, <2>11, ScriptType DEF Next, Step
<1> QED BY <1>1, <1>2, PTL DEF Spec

-------------------------------------------------------------------------------
(* The timestamps *)

Inv == TypeOK /\ ClockInv /\ StampInv /\ AbsentInv

\* A step that copies entries between stores, mounts and names, that gives a time of
\* its own to at most one new content, and that at most changes the directory's time,
\* keeps the timestamps sound.
LEMMA CopyKeepsStamps ==
  ASSUME Inv, TypeOK', now <= now', NEW d,
         \A f \in Stores', p \in Files :
            \/ f[p] = Absent
            \/ \E g \in Stores, q \in Files : f[p] = g[q]
            \/ now < now' /\ f[p] = [time |-> now', data |-> d],
         \A f \in Stores' :
            /\ f[Dir].data = 0
            /\ \/ f[Dir].time \in {0, now'}
               \/ \E g \in Stores : f[Dir].time = g[Dir].time
  PROVE  ClockInv' /\ StampInv' /\ AbsentInv'
<1> DEFINE Old(e) == \E g \in Stores, q \in Files : e = g[q]
           New(e) == now < now' /\ e = [time |-> now', data |-> d]
<1>1. \A f \in Stores', p \in Files : f[p] = Absent \/ Old(f[p]) \/ New(f[p])
  OBVIOUS
<1>2. now \in Nat /\ now' \in Nat /\ now' # 0
  BY SyncAssumption DEF Inv, TypeOK
<1>3. \A f \in Stores, p \in Paths : f[p].time \in Nat /\ f[p].time <= now
  BY SyncAssumption DEF Inv, TypeOK, ClockInv, Stores, Entry
<1>4. \A e : Old(e) => e.time \in Nat /\ e.time <= now /\ (e.time = 0 => e.data = 0)
  BY <1>3 DEF Inv, AbsentInv, Paths
<1>5. ASSUME NEW f \in Stores', NEW p \in Files
      PROVE  f[p].time <= now' /\ (f[p].time = 0 => f[p].data = 0)
  <2>1. CASE f[p] = Absent
    BY <2>1, <1>2 DEF Absent
  <2>2. CASE Old(f[p])
    BY <2>2, <1>2, <1>4
  <2>3. CASE New(f[p])
    BY <2>3, <1>2
  <2> QED BY <1>1, <2>1, <2>2, <2>3
<1>6. ASSUME NEW f \in Stores' PROVE f[Dir].time <= now'
  BY <1>2, <1>3 DEF Paths
<1>7. ASSUME NEW e, NEW e2, e.time = e2.time,
             e = Absent \/ Old(e) \/ New(e), e2 = Absent \/ Old(e2) \/ New(e2)
      PROVE  e.data = e2.data
  <2>1. CASE Old(e) /\ Old(e2)
    BY <1>7, <2>1 DEF Inv, StampInv
  <2>2. CASE e = Absent \/ e2 = Absent
    BY <1>2, <1>4, <1>7, <2>2 DEF Absent
  <2>3. CASE New(e) \/ New(e2)
    BY <1>2, <1>4, <1>7, <2>3 DEF Absent
  <2> QED BY <1>7, <2>1, <2>2, <2>3
<1>8. ASSUME NEW f \in Stores', NEW h \in Stores', NEW p \in Files, NEW q \in Files,
             f[p].time = h[q].time
      PROVE  f[p].data = h[q].data
  BY <1>1, <1>7, <1>8
<1> QED BY <1>5, <1>6, <1>8 DEF ClockInv, StampInv, AbsentInv, Paths

\* In the next state, too, a store is the object store or one of the mounts.
LEMMA StoresNext ==
  ASSUME NEW w \in Workers, NEW fs, TypeOK,
         local' = [local EXCEPT ![w] = fs], NEW f \in Stores'
  PROVE  f = store' \/ f = fs \/ f \in Stores
  BY DEF Stores, TypeOK

\* A script's change: a new content, a copy under another name, or nothing but times.
LEMMA ScriptStamps ==
  ASSUME Inv, ~Ties, ~Truncates, NEW w \in Workers, Script(w), TypeOK'
  PROVE  ClockInv' /\ StampInv' /\ AbsentInv'
<1> DEFINE old == local[w]
<1>1. now < now' /\ now <= now'
  <2>1. Clock
    BY DEF Script, Write, Truncate, Remove, Rename, MakeDir, RemoveDir
  <2>2. now \in Nat
    BY SyncAssumption DEF Inv, TypeOK
  <2> QED BY <2>1, <2>2 DEF Clock
<1>2. old \in Stores /\ old \in [Paths -> Entry] /\ store \in Stores
  BY DEF Stores, Inv, TypeOK
<1>3. Dir \in Paths /\ Files \subseteq Paths /\ Dir \notin Files
  BY SyncAssumption DEF Paths
<1>4. \A f \in Stores : f[Dir].data = 0
  BY DEF Inv, StampInv
<1>5. ASSUME NEW fs \in [Paths -> Entry], NEW paths, NEW names, Changes(w, fs, paths, names), NEW d,
             \A p \in Files : \/ fs[p] = Absent
                              \/ \E q \in Files : fs[p] = old[q]
                              \/ fs[p] = [time |-> now', data |-> d],
             fs[Dir].data = 0, fs[Dir].time \in {0, now', old[Dir].time}
      PROVE  ClockInv' /\ StampInv' /\ AbsentInv'
  <2> DEFINE new == IF names \intersect Inside = {} THEN fs ELSE [fs EXCEPT ![Dir].time = now']
  <2>1. local' = [local EXCEPT ![w] = new] /\ store' = store
    BY <1>5 DEF Changes
  <2>2. /\ \A p \in Files : new[p] = fs[p]
        /\ new[Dir].data = 0 /\ new[Dir].time \in {0, now', old[Dir].time}
    BY <1>3, <1>5 DEF Entry
  <2> HIDE DEF new
  <2>3. \A f \in Stores' : f = new \/ f \in Stores
    BY <1>2, <2>1, StoresNext DEF Inv
  <2>4. \A f \in Stores', p \in Files :
            \/ f[p] = Absent
            \/ \E g \in Stores, q \in Files : f[p] = g[q]
            \/ now < now' /\ f[p] = [time |-> now', data |-> d]
    BY <1>1, <1>2, <1>5, <2>2, <2>3
  <2>5. \A f \in Stores' : f[Dir].data = 0 /\ (f[Dir].time \in {0, now'}
                              \/ \E g \in Stores : f[Dir].time = g[Dir].time)
    BY <1>2, <1>4, <2>2, <2>3
  <2> QED BY <1>1, <2>4, <2>5, CopyKeepsStamps
<1>6. ASSUME NEW p \in Files, Write(w, p) PROVE ClockInv' /\ StampInv' /\ AbsentInv'
  <2> DEFINE fs == [old EXCEPT ![p] = [time |-> now', data |-> written']]
  <2>1. fs \in [Paths -> Entry] /\ fs[p] = [time |-> now', data |-> written']
    <3>1. [time |-> now', data |-> written'] \in Entry
      BY SyncAssumption DEF TypeOK, Entry
    <3> QED BY <1>2, <1>3, <3>1
  <2>2. fs[Dir] = old[Dir] /\ \A q \in Files \ {p} : fs[q] = old[q]
    BY <1>2, <1>3
  <2>3. PICK names : Changes(w, fs, {p}, names)
    BY <1>6 DEF Write
  <2> HIDE DEF fs
  <2> QED BY <1>2, <1>4, <1>5, <2>1, <2>2, <2>3
<1>7. ASSUME NEW p \in Files, Remove(w, p) PROVE ClockInv' /\ StampInv' /\ AbsentInv'
  <2> DEFINE fs == [old EXCEPT ![p] = Absent]
  <2>1. fs \in [Paths -> Entry] /\ fs[p] = Absent
    <3>1. Absent \in Entry
      BY SyncAssumption DEF Absent, Entry
    <3> QED BY <1>2, <1>3, <3>1
  <2>2. fs[Dir] = old[Dir] /\ \A q \in Files \ {p} : fs[q] = old[q]
    BY <1>2, <1>3
  <2>3. Changes(w, fs, {p}, {p})
    BY <1>7 DEF Remove
  <2> HIDE DEF fs
  <2> QED BY <1>2, <1>4, <1>5, <2>1, <2>2, <2>3
<1>8. ASSUME NEW p \in Files, NEW q \in Files, Rename(w, p, q)
      PROVE  ClockInv' /\ StampInv' /\ AbsentInv'
  <2> DEFINE fs == [old EXCEPT ![p] = Absent, ![q] = old[p]]
  <2>1. fs \in [Paths -> Entry] /\ fs[p] = Absent /\ fs[q] = old[p]
    <3>1. Absent \in Entry
      BY SyncAssumption DEF Absent, Entry
    <3>2. p # q
      BY <1>8 DEF Rename
    <3> QED BY <1>2, <1>3, <3>1, <3>2
  <2>2. fs[Dir] = old[Dir] /\ \A r \in Files \ {p, q} : fs[r] = old[r]
    BY <1>2, <1>3
  <2>3. Changes(w, fs, {p, q}, {p, q})
    BY <1>8 DEF Rename
  <2> HIDE DEF fs
  <2>4. \A r \in Files : fs[r] = Absent \/ \E o \in Files : fs[r] = old[o]
    BY <2>1, <2>2
  <2>5. fs[Dir].data = 0 /\ fs[Dir].time = old[Dir].time
    BY <1>2, <1>4, <2>2
  <2> QED BY <1>5, <2>1, <2>3, <2>4, <2>5
<1>9. CASE MakeDir(w)
  <2> DEFINE fs == [old EXCEPT ![Dir] = [time |-> now', data |-> 0]]
  <2>1. fs \in [Paths -> Entry] /\ fs[Dir] = [time |-> now', data |-> 0]
    <3>1. [time |-> now', data |-> 0] \in Entry
      BY SyncAssumption DEF TypeOK, Entry
    <3> QED BY <1>2, <1>3, <3>1
  <2>2. \A q \in Files : fs[q] = old[q]
    BY <1>2, <1>3
  <2>3. Changes(w, fs, {Dir}, {})
    BY <1>9 DEF MakeDir
  <2> HIDE DEF fs
  <2> QED BY <1>5, <2>1, <2>2, <2>3
<1>10. CASE RemoveDir(w)
  <2> DEFINE fs == [old EXCEPT ![Dir] = Absent]
  <2>1. fs \in [Paths -> Entry] /\ fs[Dir].time = 0 /\ fs[Dir].data = 0
    <3>1. Absent \in Entry
      BY SyncAssumption DEF Absent, Entry
    <3> QED BY <1>2, <1>3, <3>1 DEF Absent
  <2>2. \A q \in Files : fs[q] = old[q]
    BY <1>2, <1>3
  <2>3. Changes(w, fs, {Dir}, {})
    BY <1>10 DEF RemoveDir
  <2> HIDE DEF fs
  <2> QED BY <1>5, <2>1, <2>2, <2>3
<1> QED BY <1>6, <1>7, <1>8, <1>9, <1>10 DEF Script, Truncate

\* The steps of syncfs() and terminate() only copy entries.
LEMMA SyncStamps ==
  ASSUME Inv, TypeOK', NEW w \in Workers,
         \/ Populate(w) \/ Fetch(w) \/ FetchFails(w)
         \/ BeginSave(w) \/ Commit(w) \/ CommitFails(w) \/ Terminate(w)
  PROVE  ClockInv' /\ StampInv' /\ AbsentInv'
<1>1. now <= now'
  <2>1. now \in Nat
    BY SyncAssumption DEF Inv, TypeOK
  <2> QED BY <2>1 DEF Clock, Populate, Fetch, FetchFails, BeginSave, Commit, CommitFails, Terminate
<1>2. local[w] \in Stores /\ store \in Stores
  BY DEF Stores
<1>3. Dir \in Paths /\ Files \subseteq Paths /\ Dir \notin Files
  BY SyncAssumption DEF Paths
<1>4. \A f \in Stores : f[Dir].data = 0
  BY DEF Inv, StampInv
<1> DEFINE Copy(g) ==
             /\ \A p \in Files : g[p] = Absent \/ \E f \in Stores : g[p] = f[p]
             /\ g[Dir].data = 0
             /\ g[Dir].time \in {0, now'} \/ \E f \in Stores : g[Dir].time = f[Dir].time
<1>5. \A g \in Stores : Copy(g)
  BY <1>4
<1>6. ASSUME NEW fs, local' = [local EXCEPT ![w] = fs], Copy(store'), Copy(fs)
      PROVE  ClockInv' /\ StampInv' /\ AbsentInv'
  <2>1. \A f \in Stores' : f = store' \/ f = fs \/ f \in Stores
    BY <1>6, StoresNext DEF Inv
  <2>2. \A f \in Stores' : Copy(f)
    BY <1>5, <1>6, <2>1
  <2>3. \A f \in Stores', p \in Files :
            f[p] = Absent \/ \E g \in Stores, q \in Files : f[p] = g[q]
    BY <2>2
  <2>4. \A f \in Stores' : f[Dir].data = 0 /\ (f[Dir].time \in {0, now'}
                              \/ \E g \in Stores : f[Dir].time = g[Dir].time)
    BY <2>2
  <2> QED BY <1>1, <2>3, <2>4, CopyKeepsStamps
<1>7. Copy(store) /\ Copy(local[w]) /\ local = [local EXCEPT ![w] = local[w]]
  BY <1>2, <1>5 DEF Inv, TypeOK
<1>8. Copy(Nowhere)
  BY <1>3 DEF Nowhere, Absent
<1>9. \A p \in Paths, g \in {store, local[w]} : g[p] \in Entry
  BY DEF Inv, TypeOK
<1>10. ASSUME NEW done \in SUBSET Paths, store' = Stored(w, done) PROVE Copy(store')
  <2>1. \A p \in Paths : store'[p] = local[w][p] \/ store'[p] = store[p]
    BY <1>10 DEF Stored
  <2> HIDE DEF Stored
  <2>2. \A p \in Files : store'[p] = Absent \/ \E f \in Stores : store'[p] = f[p]
    BY <1>2, <1>3, <2>1
  <2>3. \E f \in Stores : store'[Dir] = f[Dir]
    BY <1>2, <1>3, <2>1
  <2> QED BY <1>4, <2>2, <2>3
<1>11. \A v \in Workers : Created(v) \in SUBSET Paths /\ Removed(v) \in SUBSET Paths
  BY DEF Created, Removed, Listed
<1>12. Copy(Fetched(w))
  <2> DEFINE fs == Fetched(w)
  <2>1. \A p \in Files : fs[p] = Absent \/ fs[p] = store[p]
    BY <1>3 DEF Fetched
  <2>2. fs[Dir] = Absent \/ fs[Dir] = store[Dir] \/ fs[Dir] = [store[Dir] EXCEPT !.time = now']
    BY <1>3 DEF Fetched
  <2>3. store[Dir] \in Entry /\ store[Dir].data = 0
    BY <1>2, <1>3, <1>4, <1>9
  <2>4. fs[Dir].data = 0 /\ fs[Dir].time \in {0, now', store[Dir].time}
    BY <2>2, <2>3 DEF Absent, Entry
  <2>5. fs[Dir].time \in {0, now'} \/ \E f \in Stores : fs[Dir].time = f[Dir].time
    BY <1>2, <2>4
  <2>6. \A p \in Files : fs[p] = Absent \/ \E f \in Stores : fs[p] = f[p]
    BY <1>2, <2>1
  <2> HIDE DEF fs
  <2>7. Copy(fs)
    BY <2>4, <2>5, <2>6
  <2> QED BY <2>7 DEF fs
<1> HIDE DEF Copy
<1>13. CASE Populate(w) \/ FetchFails(w) \/ BeginSave(w)
  <2>1. UNCHANGED <<store, local>>
    BY <1>13 DEF Populate, FetchFails, BeginSave
  <2> QED BY <1>6, <1>7, <2>1
<1>14. CASE Fetch(w)
  BY <1>6, <1>7, <1>12, <1>14 DEF Fetch
<1>15. CASE Commit(w)
  BY <1>6, <1>8, <1>10, <1>11, <1>15 DEF Commit
<1>16. CASE CommitFails(w)
  BY <1>6, <1>7, <1>10, <1>11, <1>16 DEF CommitFails
<1>17. CASE Terminate(w)
  BY <1>6, <1>7, <1>8, <1>17 DEF Terminate
<1> QED BY <1>13, <1>14, <1>15, <1>16, <1>17

\* The invariant is inductive, given that no two changes share a millisecond and
\* that nothing is emptied without a write.
THEOREM Stamped ==
  ASSUME ~Ties, ~Truncates
  PROVE  Spec => []Inv
<1>1. Init => Inv
  <2> SUFFICES ASSUME Init PROVE Inv
    OBVIOUS
  <2>1. TypeOK
    BY SyncAssumption DEF Init, TypeOK, Nowhere, Absent, Entry, Times
  <2>2. \A f \in Stores, p \in Paths : f[p] = Absent
    BY DEF Init, Stores, Nowhere
  <2>3. now = 1
    BY DEF Init
  <2> QED BY <2>1, <2>2, <2>3, SyncAssumption DEF Inv, ClockInv, StampInv, AbsentInv, Absent, Paths
<1>2. Inv /\ TypeOK' /\ [Next]_vars => Inv'
  <2> SUFFICES ASSUME Inv, TypeOK', [Next]_vars PROVE Inv'
    OBVIOUS
  <2>1. CASE UNCHANGED vars
    BY <2>1 DEF vars, Inv, ClockInv, StampInv, AbsentInv, Stores
  <2> QED BY <2>1, ScriptStamps, SyncStamps DEF Next, Step, Inv
<1> QED BY <1>1, <1>2, TypeCorrect, PTL DEF Spec

\* Whoever runs at the same time, whatever fails and whoever is terminated, equal
\* times mean equal contents, which is what reconcile() goes by.
THEOREM StampsSound ==
  ASSUME ~Ties, ~Truncates
  PROVE  Spec => []StampsAgree
<1>1. Inv => StampsAgree
  BY SyncAssumption DEF Inv, StampInv, StampsAgree, Stores, Paths
<1> QED BY <1>1, Stamped, PTL
-------------------------------------------------------------------------------
(* One worker *)

Tree(fs) == \A p \in Inside : Present(fs[p]) => Present(fs[Dir])

\* The listing is current while a transfer waits for its second transaction.
FreshInv == \A w \in Workers : pc[w] \in {"populating", "saving"} => seen[w] = Times(store)

TreeInv == StoreIsTree /\ \A w \in Workers : Tree(local[w])

\* A worker's own steps keep its listing current; only a save changes the store.
LEMMA FreshStep ==
  ASSUME NEW w, Workers = {w}, TypeOK, FreshInv, Next
  PROVE  FreshInv'
<1>1. Step(w)
  BY DEF Next
<1>2. CASE Script(w)
  <2>1. UNCHANGED <<store, pc, seen>>
    BY <1>2 DEF Script, Write, Truncate, Remove, Rename, MakeDir, RemoveDir, Changes
  <2> QED BY <2>1 DEF FreshInv, Times
<1>3. CASE Populate(w) \/ BeginSave(w)
  BY <1>3 DEF Populate, BeginSave, Goes, FreshInv, TypeOK, Times
<1>4. CASE Fetch(w) \/ FetchFails(w) \/ Commit(w) \/ CommitFails(w) \/ Terminate(w)
  BY <1>4 DEF Fetch, FetchFails, Commit, CommitFails, Terminate, Goes, FreshInv, TypeOK
<1> QED BY <1>1, <1>2, <1>3, <1>4 DEF Step

\* A save from a current listing leaves in the store the names that the mount has.
LEMMA SaveKeepsNames ==
  ASSUME TypeOK, NEW w \in Workers, seen[w] = Times(store),
         store' = Stored(w, Created(w) \union Removed(w)), NEW p \in Paths
  PROVE  Present(store'[p]) <=> Present(local[w][p])
<1>1. seen[w][p] = store[p].time
  BY DEF Times
<1>2. CASE p \in Created(w) \union Removed(w)
  BY <1>2 DEF Stored
<1>3. CASE p \notin Created(w) \union Removed(w)
  <2>1. store'[p] = store[p]
    BY <1>3 DEF Stored
  <2> QED BY <1>1, <1>3, <2>1 DEF Created, Removed, Listed, Present
<1> QED BY <1>2, <1>3

\* With sound timestamps, the contents too.
LEMMA SaveIsWhole ==
  ASSUME Inv, NEW w \in Workers, seen[w] = Times(store),
         store' = Stored(w, Created(w) \union Removed(w))
  PROVE  Seen(store') = Seen(local[w])
<1> SUFFICES ASSUME NEW p \in Paths
             PROVE  /\ Present(store'[p]) <=> Present(local[w][p])
                    /\ store'[p].data = local[w][p].data
  BY DEF Seen
<1>1. Present(store'[p]) <=> Present(local[w][p])
  BY SaveKeepsNames DEF Inv
<1>2. CASE p \in Created(w) \union Removed(w)
  BY <1>1, <1>2 DEF Stored
<1>3. CASE p \notin Created(w) \union Removed(w)
  <2>1. store'[p] = store[p] /\ seen[w][p] = store[p].time
    BY <1>3 DEF Stored, Times
  <2>2. store[p].time = local[w][p].time
    BY <1>3, <2>1 DEF Created, Removed, Listed, Present
  <2>3. store \in Stores /\ local[w] \in Stores
    BY DEF Stores
  <2>4. store[p].data = local[w][p].data
    BY <2>2, <2>3 DEF Inv, StampInv, Paths
  <2> QED BY <1>1, <2>1, <2>4
<1> QED BY <1>2, <1>3

\* A script keeps its mount a tree: it makes files only in a directory, and removes
\* only an empty one.
LEMMA ScriptKeepsTree ==
  ASSUME TypeOK, NEW w \in Workers, Tree(local[w]), Script(w)
  PROVE  Tree(local'[w])
<1> DEFINE old == local[w]
<1>1. now' # 0 /\ Dir \in Paths /\ Files \subseteq Paths /\ Inside \subseteq Files /\ Dir \notin Files
  <2>1. Clock
    BY DEF Script, Write, Truncate, Remove, Rename, MakeDir, RemoveDir
  <2> QED BY <2>1, ClockType, SyncAssumption DEF Paths
<1>2. old \in [Paths -> Entry]
  BY DEF TypeOK
<1>3. ASSUME NEW fs, DOMAIN fs = Paths, NEW paths, NEW names, Changes(w, fs, paths, names), Tree(fs)
      PROVE  Tree(local'[w])
  <2> DEFINE new == IF names \intersect Inside = {} THEN fs ELSE [fs EXCEPT ![Dir].time = now']
  <2>1. local'[w] = new
    BY <1>3 DEF Changes, TypeOK
  <2>2. \A p \in Inside : new[p] = fs[p]
    BY <1>1, <1>3
  <2>3. Present(fs[Dir]) => Present(new[Dir])
    BY <1>1, <1>3 DEF Present
  <2> HIDE DEF new
  <2> QED BY <1>3, <2>1, <2>2, <2>3 DEF Tree
<1>4. ASSUME NEW p \in Files, Write(w, p) PROVE Tree(local'[w])
  <2>1. Tree([old EXCEPT ![p] = [time |-> now', data |-> written']])
    BY <1>1, <1>2, <1>4 DEF Write, InPlace, Tree, Present
  <2> QED BY <1>2, <1>3, <1>4, <2>1 DEF Write
<1>5. ASSUME NEW p \in Files, Truncate(w, p) PROVE Tree(local'[w])
  <2>1. Tree([old EXCEPT ![p].data = 0])
    BY <1>1, <1>2 DEF Tree, Present, Entry
  <2> QED BY <1>2, <1>3, <1>5, <2>1 DEF Truncate
<1>6. ASSUME NEW p \in Files, Remove(w, p) PROVE Tree(local'[w])
  <2>1. Tree([old EXCEPT ![p] = Absent])
    BY <1>1, <1>2 DEF Tree, Present, Absent
  <2> QED BY <1>2, <1>3, <1>6, <2>1 DEF Remove
<1>7. ASSUME NEW p \in Files, NEW q \in Files, Rename(w, p, q) PROVE Tree(local'[w])
  <2>1. Tree([old EXCEPT ![p] = Absent, ![q] = old[p]])
    BY <1>1, <1>2, <1>7 DEF Rename, InPlace, Tree, Present, Absent
  <2> QED BY <1>2, <1>3, <1>7, <2>1 DEF Rename
<1>8. CASE MakeDir(w)
  <2>1. Tree([old EXCEPT ![Dir] = [time |-> now', data |-> 0]])
    BY <1>1, <1>2 DEF Tree, Present
  <2> QED BY <1>2, <1>3, <1>8, <2>1 DEF MakeDir
<1>9. CASE RemoveDir(w)
  <2>1. Tree([old EXCEPT ![Dir] = Absent])
    BY <1>1, <1>2, <1>9 DEF RemoveDir, Tree, Present, Absent
  <2> QED BY <1>2, <1>3, <1>9, <2>1 DEF RemoveDir
<1> QED BY <1>4, <1>5, <1>6, <1>7, <1>8, <1>9 DEF Script

\* Neither does any other step make an orphan.
LEMMA TreeStep ==
  ASSUME NEW w, Workers = {w}, ~Faults, TypeOK, FreshInv, TreeInv, Next
  PROVE  TreeInv'
<1>1. Step(w)
  BY DEF Next
<1>2. Tree(Nowhere)
  BY SyncAssumption DEF Tree, Nowhere, Present, Absent, Paths
<1>3. Dir \in Paths /\ Inside \subseteq Paths /\ Dir \notin Inside
  BY SyncAssumption DEF Paths
<1>4. CASE Script(w)
  <2>1. UNCHANGED store
    BY <1>4 DEF Script, Write, Truncate, Remove, Rename, MakeDir, RemoveDir, Changes
  <2> QED BY <1>4, <2>1, ScriptKeepsTree DEF TreeInv, StoreIsTree
<1>5. CASE Populate(w) \/ FetchFails(w) \/ BeginSave(w)
  BY <1>5 DEF Populate, FetchFails, BeginSave, TreeInv, StoreIsTree
<1>6. CASE Fetch(w)
  <2>1. now' # 0
    BY <1>6, ClockType DEF Fetch
  <2>2. Tree(Fetched(w))
    BY <1>3, <1>6, <2>1 DEF Fetch, Loadable, Fetched, Tree, Present, Absent
  <2> QED BY <1>6, <2>2 DEF Fetch, TreeInv, StoreIsTree, TypeOK
<1>7. CASE Commit(w)
  <2>1. seen[w] = Times(store)
    BY <1>7 DEF Commit, Goes, FreshInv
  <2>2. \A p \in Paths : Present(store'[p]) <=> Present(local[w][p])
    BY <1>7, <2>1, SaveKeepsNames DEF Commit
  <2>3. StoreIsTree'
    BY <1>3, <2>2 DEF TreeInv, Tree, StoreIsTree
  <2> QED BY <1>2, <1>7, <2>3 DEF Commit, TreeInv, TypeOK
<1>8. CASE Terminate(w)
  BY <1>2, <1>8 DEF Terminate, TreeInv, StoreIsTree, TypeOK
<1> QED BY <1>1, <1>4, <1>5, <1>6, <1>7, <1>8 DEF Step, CommitFails

\* The invariants of a single worker.
THEOREM Serial ==
  ASSUME NEW w, Workers = {w}, ~Faults
  PROVE  Spec => [](FreshInv /\ TreeInv)
<1>1. Init => FreshInv /\ TreeInv
  BY SyncAssumption DEF Init, FreshInv, TreeInv, StoreIsTree, Tree, Nowhere, Present, Absent, Paths
<1>2. TypeOK /\ FreshInv /\ TreeInv /\ [Next]_vars => (FreshInv /\ TreeInv)'
  <2> SUFFICES ASSUME TypeOK, FreshInv, TreeInv, [Next]_vars PROVE (FreshInv /\ TreeInv)'
    OBVIOUS
  <2>1. CASE Next
    BY <2>1, FreshStep, TreeStep
  <2>2. CASE UNCHANGED vars
    BY <2>2 DEF vars, FreshInv, TreeInv, StoreIsTree, Tree, Times
  <2> QED BY <2>1, <2>2
<1> QED BY <1>1, <1>2, TypeCorrect, PTL DEF Spec

\* One run at a time, and no failing request: every stored file has its directory,
\* so syncfs(true) never meets an orphan.
THEOREM TreeKept ==
  ASSUME NEW w, Workers = {w}, ~Faults
  PROVE  Spec => []StoreIsTree
<1>1. TreeInv => StoreIsTree
  BY DEF TreeInv
<1> QED BY <1>1, Serial, PTL

-------------------------------------------------------------------------------
(* What a run has not touched *)

\* A mount has the file that is stored, or neither has one.
SameFile(w, p) ==
    /\ Present(local[w][p]) <=> Present(store[p])
    /\ Present(store[p]) => local[w][p] = store[p]

\* From the transfer in to the transfer out, a mount differs from the store only
\* in what the script has touched.
UntouchedInv ==
    \A w \in Workers : pc[w] \in {"running", "saving"} =>
        \A p \in Files \ touched[w] : SameFile(w, p)

\* A script's change leaves every file but those it names.
LEMMA ScriptUntouched ==
  ASSUME TypeOK, NEW w \in Workers, Script(w), NEW p \in Files, p \notin touched'[w]
  PROVE  p \notin touched[w] /\ local'[w][p] = local[w][p]
<1>1. p \in Paths /\ p # Dir /\ local[w] \in [Paths -> Entry]
  BY SyncAssumption DEF Paths, TypeOK
<1>2. ASSUME NEW fs, DOMAIN fs = Paths, NEW paths, NEW names, Changes(w, fs, paths, names)
      PROVE  p \notin touched[w] /\ p \notin paths /\ local'[w][p] = fs[p]
  <2>1. touched'[w] = touched[w] \union paths
    BY <1>2 DEF Changes, TypeOK
  <2>2. local'[w] = IF names \intersect Inside = {} THEN fs ELSE [fs EXCEPT ![Dir].time = now']
    BY <1>2 DEF Changes, TypeOK
  <2> QED BY <1>1, <1>2, <2>1, <2>2
<1>3. ASSUME NEW q \in Files, Write(w, q) PROVE p \notin touched[w] /\ local'[w][p] = local[w][p]
  BY <1>1, <1>2, <1>3 DEF Write
<1>4. ASSUME NEW q \in Files, Truncate(w, q) PROVE p \notin touched[w] /\ local'[w][p] = local[w][p]
  BY <1>1, <1>2, <1>4 DEF Truncate
<1>5. ASSUME NEW q \in Files, Remove(w, q) PROVE p \notin touched[w] /\ local'[w][p] = local[w][p]
  BY <1>1, <1>2, <1>5 DEF Remove
<1>6. ASSUME NEW q \in Files, NEW r \in Files, Rename(w, q, r)
      PROVE  p \notin touched[w] /\ local'[w][p] = local[w][p]
  BY <1>1, <1>2, <1>6 DEF Rename
<1>7. CASE MakeDir(w)
  BY <1>1, <1>2, <1>7 DEF MakeDir
<1>8. CASE RemoveDir(w)
  BY <1>1, <1>2, <1>8 DEF RemoveDir
<1> QED BY <1>3, <1>4, <1>5, <1>6, <1>7, <1>8 DEF Script

\* Neither transfer, with a current listing, makes a difference of its own.
LEMMA UntouchedStep ==
  ASSUME NEW w, Workers = {w}, TypeOK, FreshInv, UntouchedInv, Next
  PROVE  UntouchedInv'
<1>1. Step(w) /\ w \in Workers
  BY DEF Next
<1>2. Files \subseteq Paths /\ Dir \notin Files
  BY SyncAssumption DEF Paths
<1>3. CASE Script(w)
  <2>1. UNCHANGED <<store, pc>> /\ pc[w] = "running"
    BY <1>3 DEF Script, Write, Truncate, Remove, Rename, MakeDir, RemoveDir, Changes
  <2>2. ASSUME NEW p \in Files \ touched'[w] PROVE SameFile(w, p)'
    BY <1>1, <1>3, <2>1, <2>2, ScriptUntouched DEF UntouchedInv, SameFile, Present
  <2> QED BY <2>2 DEF UntouchedInv
<1>4. CASE Populate(w) \/ FetchFails(w) \/ Commit(w) \/ CommitFails(w) \/ Terminate(w)
  <2>1. pc'[w] \notin {"running", "saving"}
    BY <1>4 DEF Populate, FetchFails, Commit, CommitFails, Terminate, Goes, TypeOK
  <2> QED BY <2>1 DEF UntouchedInv
<1>5. CASE Fetch(w)
  <2>1. seen[w] = Times(store) /\ UNCHANGED store /\ local'[w] = Fetched(w)
    BY <1>1, <1>5 DEF Fetch, Goes, FreshInv, TypeOK
  <2>2. ASSUME NEW p \in Files PROVE SameFile(w, p)'
    <3>1. p \in Listed(w) <=> Present(store[p])
      BY <1>2, <2>1 DEF Listed, Times, Present
    <3>2. Fetched(w)[p] = IF p \in Listed(w) THEN store[p] ELSE Absent
      BY <1>2 DEF Fetched
    <3> QED BY <2>1, <3>1, <3>2 DEF SameFile, Present, Absent
  <2> QED BY <2>2 DEF UntouchedInv
<1>6. CASE BeginSave(w)
  <2>1. UNCHANGED <<store, local, touched>> /\ pc[w] = "running"
    BY <1>6 DEF BeginSave, Goes
  <2> QED BY <2>1 DEF UntouchedInv, SameFile
<1> QED BY <1>1, <1>3, <1>4, <1>5, <1>6 DEF Step

\* One run at a time, whatever fails, however coarse the clock and whatever is
\* truncated: a completed save leaves every file that its script has not touched.
THEOREM TouchedOnly ==
  ASSUME NEW o, Workers = {o}
  PROVE  Spec => OnlyTouched
<1> DEFINE OnlyHis ==
      \A w \in Workers : Commit(w) =>
          \A p \in Files \ touched[w] :
              store'[p].data = store[p].data /\ Present(store'[p]) = Present(store[p])
<1>1. Init => FreshInv /\ UntouchedInv
  BY DEF Init, FreshInv, UntouchedInv
<1>2. TypeOK /\ FreshInv /\ UntouchedInv /\ [Next]_vars => (FreshInv /\ UntouchedInv)'
  <2>1. CASE Next
    BY <2>1, FreshStep, UntouchedStep
  <2>2. CASE UNCHANGED vars
    BY <2>2 DEF vars, FreshInv, UntouchedInv, SameFile, Times
  <2> QED BY <2>1, <2>2
<1>3. TypeOK /\ FreshInv /\ UntouchedInv /\ [Next]_vars => [OnlyHis]_vars
  <2> SUFFICES ASSUME TypeOK, FreshInv, UntouchedInv, NEW w \in Workers, Commit(w),
                      NEW p \in Files \ touched[w]
               PROVE  store'[p] = store[p]
    OBVIOUS
  <2>1. p \in Paths
    BY DEF Paths
  <2>2. seen[w][p] = store[p].time
    BY <2>1 DEF Commit, Goes, FreshInv, Times
  <2>3. SameFile(w, p)
    BY <2>1 DEF Commit, Goes, UntouchedInv
  <2>4. p \notin Created(w) /\ p \notin Removed(w)
    BY <2>2, <2>3 DEF SameFile, Created, Removed, Listed, Present
  <2> QED BY <2>1, <2>4 DEF Commit, Stored
<1> QED BY <1>1, <1>2, <1>3, TypeCorrect, PTL DEF Spec, OnlyTouched

-------------------------------------------------------------------------------
(* The refinement *)

\* What a run sees, when there is one worker.
LEMMA ViewOfOne ==
  ASSUME NEW w, Workers = {w}
  PROVE  /\ AtWork <=> pc[w] \in {"running", "saving"}
         /\ AtWork => View = Seen(local[w])
         /\ ~AtWork => View = Seen(Nowhere)
  BY DEF AtWork, View

\* ... and in the next state.
LEMMA ViewOfOneNext ==
  ASSUME NEW w, Workers = {w}
  PROVE  /\ AtWork' <=> pc'[w] \in {"running", "saving"}
         /\ AtWork' => View' = Seen(local'[w])
         /\ ~AtWork' => View' = Seen(Nowhere)
  BY DEF AtWork, View, Nowhere, Absent, Seen, Present

\* No files are an empty directory, and any files are a tree of the specification.
LEMMA SeenType ==
  /\ Seen(Nowhere) = Home!Empty
  /\ \A fs \in [Paths -> Entry] : Seen(fs) \in Home!Trees
<1>1. Seen(Nowhere) = Home!Empty
  BY DEF Seen, Nowhere, Present, Absent, Home!Empty
<1>2. ASSUME NEW fs \in [Paths -> Entry] PROVE Seen(fs) \in Home!Trees
  BY DEF Seen, Entry, Home!Trees
<1> QED BY <1>1, <1>2

\* A transfer from a current listing shows the run everything that is stored.
LEMMA FetchIsWhole ==
  ASSUME TypeOK, NEW w \in Workers, seen[w] = Times(store), now' # 0
  PROVE  Seen(Fetched(w)) = Seen(store)
<1> SUFFICES ASSUME NEW p \in Paths
             PROVE  /\ Present(Fetched(w)[p]) <=> Present(store[p])
                    /\ Present(store[p]) => Fetched(w)[p].data = store[p].data
  BY DEF Seen
<1>1. p \in Listed(w) <=> Present(store[p])
  BY DEF Listed, Times, Present
<1>2. store[p] \in Entry
  BY DEF TypeOK
<1>3. CASE p \in Listed(w)
  BY <1>1, <1>2, <1>3 DEF Fetched, Entry, Present
<1>4. CASE p \notin Listed(w)
  BY <1>1, <1>4 DEF Fetched, Absent, Present
<1> QED BY <1>3, <1>4

\* A step that changes neither the store nor what the run sees is none of HomeDirectory.
LEMMA Invisible ==
  ASSUME UNCHANGED store, AtWork' <=> AtWork, View' = View
  PROVE  UNCHANGED Home!vars
<1>1. Seen(store)' = Seen(store)
  BY DEF Seen
<1>2. AtWork' = AtWork
  BY DEF AtWork
<1> QED BY <1>1, <1>2 DEF Home!vars

\* Every step of one worker is a step of HomeDirectory or none.
LEMMA StepMapped ==
  ASSUME NEW w, Workers = {w}, ~Faults, Inv, TypeOK', FreshInv, Next
  PROVE  Home!Next \/ UNCHANGED Home!vars
<1>1. Step(w) /\ w \in Workers
  BY DEF Next
<1> USE ViewOfOne, ViewOfOneNext
<1>2. CASE Script(w)
  <2>1. UNCHANGED <<store, pc>> /\ pc[w] = "running"
    BY <1>2 DEF Script, Write, Truncate, Remove, Rename, MakeDir, RemoveDir, Changes
  <2>2. Seen(local'[w]) \in Home!Trees
    BY <1>1, SeenType DEF TypeOK
  <2>3. AtWork /\ AtWork' /\ Seen(store)' = Seen(store)
    BY <2>1 DEF Seen
  <2> QED BY <2>2, <2>3 DEF Home!Next, Home!Edit
<1>3. CASE Populate(w) \/ FetchFails(w)
  <2>1. UNCHANGED store /\ ~AtWork /\ ~AtWork'
    BY <1>1, <1>3 DEF Populate, FetchFails, Goes, Inv, TypeOK
  <2>2. View' = View
    BY <2>1
  <2> QED BY <2>1, <2>2, Invisible
<1>4. CASE Fetch(w)
  <2>1. seen[w] = Times(store) /\ now' # 0 /\ UNCHANGED store
    BY <1>1, <1>4, ClockType DEF Fetch, Goes, FreshInv, Inv
  <2>2. ~AtWork /\ AtWork' /\ local'[w] = Fetched(w)
    BY <1>1, <1>4 DEF Fetch, Goes, Inv, TypeOK
  <2>3. View' = Seen(store)
    BY <1>1, <2>1, <2>2, FetchIsWhole DEF Inv
  <2> QED BY <2>1, <2>2, <2>3 DEF Home!Next, Home!Start, Seen
<1>5. CASE BeginSave(w)
  <2>1. UNCHANGED <<store, local>> /\ AtWork /\ AtWork'
    BY <1>1, <1>5 DEF BeginSave, Goes, Inv, TypeOK
  <2>2. View' = View
    BY <2>1
  <2> QED BY <2>1, <2>2, Invisible
<1>6. CASE Commit(w)
  <2>1. seen[w] = Times(store)
    BY <1>1, <1>6 DEF Commit, Goes, FreshInv
  <2>2. Seen(store') = Seen(local[w])
    BY <1>1, <1>6, <2>1, SaveIsWhole DEF Commit
  <2>3. AtWork /\ ~AtWork'
    BY <1>1, <1>6 DEF Commit, Goes, Inv, TypeOK
  <2>4. View = Seen(local[w]) /\ View' = Home!Empty
    BY <2>3, SeenType
  <2>5. Home!Finish
    <3>1. AtWork' = FALSE
      BY <2>3 DEF AtWork
    <3>2. Seen(store)' = View
      BY <2>2, <2>4 DEF Seen
    <3> QED BY <2>3, <2>4, <3>1, <3>2 DEF Home!Finish
  <2> QED BY <2>5 DEF Home!Next
<1>7. CASE Terminate(w)
  <2>1. UNCHANGED store /\ ~AtWork'
    BY <1>1, <1>7 DEF Terminate, Inv, TypeOK
  <2>2. View' = Home!Empty
    BY <2>1, SeenType
  <2>3. CASE AtWork
    BY <2>1, <2>2, <2>3 DEF Home!Next, Home!GiveUp, Seen
  <2>4. CASE ~AtWork
    <3>1. View' = View
      BY <2>1, <2>4
    <3> QED BY <2>1, <2>4, <3>1, Invisible
  <2> QED BY <2>3, <2>4
<1> QED BY <1>1, <1>2, <1>3, <1>4, <1>5, <1>6, <1>7 DEF Step, CommitFails

\* One run at a time, no failing request, no two changes in one millisecond and no
\* truncation: /home/user is a directory that every completed run replaces as a whole
\* and that no other run changes.
THEOREM Refinement ==
  ASSUME NEW w, Workers = {w}, ~Faults, ~Ties, ~Truncates
  PROVE  Spec => KeepsHome
<1>1. Init => Home!Init
  BY SeenType, ViewOfOne DEF Init, Home!Init, AtWork
<1>2. Inv /\ TypeOK' /\ FreshInv /\ [Next]_vars => [Home!Next]_(Home!vars)
  <2> SUFFICES ASSUME Inv, TypeOK', FreshInv, [Next]_vars
               PROVE  Home!Next \/ UNCHANGED Home!vars
    OBVIOUS
  <2>1. CASE Next
    BY <2>1, StepMapped
  <2>2. CASE UNCHANGED vars
    BY <2>2 DEF vars, Home!vars, Seen, View, AtWork
  <2> QED BY <2>1, <2>2
<1> QED BY <1>1, <1>2, Stamped, Serial, TypeCorrect, PTL DEF Spec, KeepsHome, Home!Spec
===============================================================================
