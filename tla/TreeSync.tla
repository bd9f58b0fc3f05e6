-------------------------------- MODULE TreeSync --------------------------------
(***************************************************************************)
(* Directories of the two trees: creation copies a whole tree, deletion    *)
(* inspects before it removes, a rename moves the tree on the other side   *)
(* and falls back to a reconciliation, and a reconciliation plans over a   *)
(* snapshot of both trees.  Each of them takes many steps, and users, the  *)
(* events still under way and a crash come in between.                     *)
(*                                                                         *)
(* Two levels: directories in the root, files in them.  A file is a        *)
(* version, new with every write; 0 is no file, and no row of the state    *)
(* db.  Versions are ordered by age.  What happens inside the handling of  *)
(* one file is SyncPair's subject: here it is one step.  Policies are the  *)
(* defaults (preserve, union, preserve-unknown); a failed event asks for a *)
(* full resync at once (retry_max_attempts 1).  The dispatcher keeps the   *)
(* events of a directory in order and a rename apart from everything       *)
(* (EngineLoop), so one worker is enough.  The watcher reports what it     *)
(* promises in WatchTree.                                                  *)
(***************************************************************************)
EXTENDS Naturals, Sequences, FiniteSets

CONSTANTS Dirs,        \* names of directories
          NoDir,       \* no directory
          Names,       \* names of files
          UserOps,     \* what users do
          MaxVersion,  \* bound: writes of users
          MaxOps,      \* bound: operations of users
          MaxCrashes,  \* bound: crashes
          Hurry        \* how close users and timers come to each other, see below

Side     == {"A", "B"}
Other(s) == IF s = "A" THEN "B" ELSE "A"
Files    == Dirs \X Names
In(d)    == {d} \X Names
Version  == 0..MaxVersion
Kind     == {"content", "delete", "move"}

\* Each of these steps over an edge at which the program fails (README, "Where the
\* passing runs stop").
\*   stale   users remove what an event on its way is about, or make or remove a
\*           directory while an event is pending for a file of it that is gone
\*   race    users change a directory while changes to its twin are under way
\*   busy    users change a directory the engine is working on
\*   late    the echo of a directory operation comes after ForgetSubtree
\*   kept    users remove a directory whose twin keeps versions of conflicts
\*   half    users remove a directory while one side alone has changed or recorded a
\*           file, or add files to a directory that is being renamed
\*   order   the timer of a file expires before that of its directory, or a file is
\*           deleted within a window of the renaming of its directory
\*   torn    the process dies between changing a directory and recording it
\*   behind  a full resync overtakes deletions and renames that are pending
Hurries == {"stale", "race", "busy", "late", "kept", "half", "order", "torn", "behind"}

ASSUME TreeAssumption ==
    /\ NoDir \notin Dirs \cup Files /\ Dirs \cap Files = {}
    /\ UserOps \subseteq {"write", "delete", "mkdir", "rmtree", "rename"}
    /\ MaxVersion \in Nat /\ MaxOps \in Nat /\ MaxCrashes \in Nat
    /\ Hurry \subseteq Hurries

VARIABLES
    has,      \* disk: the directories of each side
    file,     \* disk: the version of each file
    kept,     \* disk: versions in .sync-conflict- copies inside a directory
    aside,    \* disk: versions in preserved directories, which nothing syncs
    rowDir,   \* entries: directories recorded on each side
    row,      \* entries: version recorded for each file
    slot,     \* debouncer: pending event of a path
    sent,     \* events on their way to the worker
    job,      \* what the worker, or the loop in a barrier, is doing
    resync,   \* e.resync: a full resync is due
    up,       \* the watchers run
    clock,    \* versions written so far
    dead,     \* history: versions a user replaced or deleted
    ops, crashes

disk    == <<has, file, kept, aside>>
state   == <<rowDir, row>>
events  == <<slot, sent>>
bounds  == <<clock, dead, ops, crashes>>
vars    == <<disk, state, events, job, resync, up, bounds>>

Event  == [side : Side, kind : Kind, path : Dirs \cup Files, from : Dirs \cup {NoDir}]
Shot   == [has : [Side -> SUBSET Dirs], file : [Side -> [Files -> Version]]]
At     == {"idle", "mkdir", "copy", "note", "walkA", "walkB", "inspect", "aside",
           "rmtree", "unrecord", "move", "renote", "scan", "next"}
Job    == [at : At, src : Side, dir : Dirs \cup {NoDir}, from : Dirs \cup {NoDir},
           todo : SUBSET Files, deep : BOOLEAN, echo : {"none", "content", "delete", "move"},
           scope : SUBSET Dirs, inv : Shot, plan : SUBSET (Dirs \cup Files)]

Nothing   == [s \in Side |-> {}]
NoFiles   == [s \in Side |-> [p \in Files |-> 0]]
EmptyShot == [has |-> Nothing, file |-> NoFiles]
Idle == [at |-> "idle", src |-> "A", dir |-> NoDir, from |-> NoDir, todo |-> {}, deep |-> FALSE,
         echo |-> "none", scope |-> {}, inv |-> EmptyShot, plan |-> {}]
Quiet == /\ up /\ job = Idle /\ sent = << >> /\ ~resync
         /\ \A s \in Side, p \in Dirs \cup Files : slot[s][p] = "none"

\* The daemon starts with two empty trees and an empty db, its watchers running.
Init ==
    /\ has = Nothing /\ file = NoFiles /\ aside = {}
    /\ kept = [s \in Side |-> [d \in Dirs |-> {}]]
    /\ rowDir = Nothing /\ row = NoFiles
    /\ slot = [s \in Side |-> [p \in Dirs \cup Files |-> "none"]]
    /\ sent = << >> /\ job = Idle /\ resync = FALSE /\ up = TRUE
    /\ clock = 0 /\ dead = {} /\ ops = 0 /\ crashes = 0

-------------------------------------------------------------------------------
(* How close users come to each other and to the engine.                      *)

FileOf(s, p)     == file[s][p] # 0
FilesIn(s, d)    == {p \in In(d) : FileOf(s, p)}
VersionsIn(s, d) == {file[s][p] : p \in FilesIn(s, d)} \cup kept[s][d]

\* What is under way ...
Busy(d)        == job.at # "idle" /\ (job.scope # {} \/ d \in {job.dir, job.from})
Sent(s, p)     == \E i \in DOMAIN sent : sent[i].side = s /\ p \in {sent[i].path, sent[i].from}
Pending(s, p)  == slot[s][p] # "none" \/ Sent(s, p)
Leaving(s, p)  == \/ slot[s][p] = "delete"
                  \/ \E i \in DOMAIN sent : sent[i].side = s /\ sent[i].kind = "delete" /\ sent[i].path = p
Ghost(s, p)    == ~FileOf(s, p) /\ (slot[s][p] = "content" \/ Sent(s, p))
Renaming(d)    == \E i \in DOMAIN sent : sent[i].kind = "move" /\ d \in {sent[i].path, sent[i].from}

\* ... and what is settled: the rows tell the truth and agree.
Settled(s, p)  == file[s][p] = row[s][p] /\ row["A"][p] = row["B"][p]
Unknown(p)     == row["A"][p] = 0 /\ row["B"][p] = 0
Recorded(s, d) == (d \in has[s] <=> d \in rowDir[s]) /\ \A p \in In(d) : Settled(s, p)
Clean(s, d)    == Recorded(s, d) /\ \A p \in In(d) \cup {d} : ~Pending(s, p)

\* May a user of side s touch d?  May the paths of P go, or d come, now?
Free(d)        == "busy" \in Hurry \/ ~Busy(d)
May(s, d)      == Free(d) /\ ("race" \in Hurry \/ Clean(Other(s), d))
MayGo(s, d, P) == /\ "stale" \in Hurry \/ \A p \in P : ~Sent(s, p)
                  /\ "stale" \in Hurry \/ \A p \in In(d) : ~Ghost(s, p)

\* A directory may go while the other side has files of its own in it, never seen.
Kept(s, d)      == "kept" \in Hurry \/ kept[Other(s)][d] \subseteq kept[s][d]
Whole(s, p)     == \/ "half" \in Hurry \/ Settled(Other(s), p)
                   \/ Unknown(p) /\ 0 \in {file["A"][p], file["B"][p]}
MayRemove(s, d) == /\ Free(d) /\ Kept(s, d)
                   /\ "race" \in Hurry \/ ~Pending(Other(s), d)
                   /\ "race" \in Hurry \/ \A p \in In(d) : Whole(s, p)

\* A new name may be given at any time, on both sides too, unless the name, or the
\* directory with it, is on its way from there.
MayWrite(s, p) ==
    \/ May(s, p[1])
    \/ /\ Free(p[1]) /\ file[s][p] = 0 /\ Unknown(p) /\ ~Leaving(Other(s), p)
       /\ file[Other(s)][p] = 0 \/ \A x \in Side : ~Pending(x, p[1])
       /\ "half" \in Hurry \/ ~Renaming(p[1])

-------------------------------------------------------------------------------
(* Users.  The subtree expectation of a running operation claims whatever     *)
(* happens below the directory on the side it writes.                         *)

Guarded(s, d) == /\ job.at \notin {"idle", "scan", "next"}
                 /\ s = Other(job.src) /\ d \in {job.dir, job.from}
Heard(s, d)   == up /\ ~Guarded(s, d)

Acts(k) == k \in UserOps /\ ops < MaxOps /\ ops' = ops + 1
Slot(s, P, k) == slot' = [slot EXCEPT ![s] = [p \in DOMAIN @ |-> IF p \in P THEN k ELSE @[p]]]
Tell(s, d, P, k) == IF Heard(s, d) THEN Slot(s, P, k) ELSE UNCHANGED slot

MakeDir(s, d) ==
    /\ Acts("mkdir") /\ d \notin has[s] /\ May(s, d) /\ MayGo(s, d, {})
    /\ has' = [has EXCEPT ![s] = @ \cup {d}]
    /\ Tell(s, d, {d}, "content")
    /\ UNCHANGED <<file, kept, aside, state, sent, job, resync, up, clock, dead, crashes>>

Write(s, p) ==
    /\ Acts("write") /\ p[1] \in has[s] /\ MayWrite(s, p)
    /\ clock < MaxVersion /\ clock' = clock + 1
    /\ file' = [file EXCEPT ![s][p] = clock + 1]
    /\ dead' = dead \cup ({file[s][p]} \ {0})
    /\ Tell(s, p[1], {p}, "content")
    /\ UNCHANGED <<has, kept, aside, state, sent, job, resync, up, crashes>>

Delete(s, p) ==
    /\ Acts("delete") /\ FileOf(s, p) /\ May(s, p[1]) /\ MayGo(s, p[1], {p})
    /\ "order" \in Hurry \/ ~Renaming(p[1])
    /\ file' = [file EXCEPT ![s][p] = 0]
    /\ dead' = dead \cup {file[s][p]}
    /\ Tell(s, p[1], {p}, "delete")
    /\ UNCHANGED <<has, kept, aside, state, sent, job, resync, up, clock, crashes>>

\* rm -r: the files, then the directory.
RemoveTree(s, d) ==
    /\ Acts("rmtree") /\ d \in has[s] /\ MayRemove(s, d) /\ MayGo(s, d, In(d) \cup {d})
    /\ has' = [has EXCEPT ![s] = @ \ {d}]
    /\ file' = [file EXCEPT ![s] = [p \in Files |-> IF p \in In(d) THEN 0 ELSE @[p]]]
    /\ kept' = [kept EXCEPT ![s][d] = {}]
    /\ dead' = dead \cup VersionsIn(s, d)
    /\ Tell(s, d, FilesIn(s, d) \cup {d}, "delete")
    /\ UNCHANGED <<aside, state, sent, job, resync, up, clock, crashes>>

\* The debouncer passes a Move on at once and drops what the two names had pending.
MovedTo(f, d, e) == [p \in Files |-> IF p[1] = e THEN f[<<d, p[2]>>] ELSE IF p[1] = d THEN 0 ELSE f[p]]
RenameDir(s, d, e) ==
    /\ Acts("rename") /\ d \in has[s] /\ e \notin has[s] /\ May(s, d) /\ May(s, e)
    /\ MayGo(s, d, In(d) \cup In(e) \cup {d, e}) /\ Kept(s, d)
    /\ "order" \in Hurry \/ \A p \in In(d) \cup In(e) : slot[s][p] # "delete"
    /\ has' = [has EXCEPT ![s] = (@ \ {d}) \cup {e}]
    /\ file' = [file EXCEPT ![s] = MovedTo(@, d, e)]
    /\ kept' = [kept EXCEPT ![s] = [@ EXCEPT ![d] = {}, ![e] = kept[s][d]]]
    /\ IF Heard(s, e)
       THEN /\ Slot(s, {d, e}, "none")
            /\ sent' = Append(sent, [side |-> s, kind |-> "move", path |-> e, from |-> d])
       ELSE UNCHANGED events
    /\ UNCHANGED <<aside, state, job, resync, up, clock, dead, crashes>>

\* A debounce window closes.
TimerFires(s, p) ==
    /\ up /\ slot[s][p] # "none"
    /\ "order" \in Hurry \/ IF p \in Dirs THEN \A q \in In(p) : slot[s][p] = "content" \/ slot[s][q] # "delete"
                          ELSE slot[s][p] = "delete" \/ slot[s][p[1]] # "content"
    /\ sent' = Append(sent, [side |-> s, kind |-> slot[s][p], path |-> p, from |-> NoDir])
    /\ Slot(s, {p}, "none")
    /\ UNCHANGED <<disk, state, job, resync, up, bounds>>

-------------------------------------------------------------------------------
(* What the worker and a reconciliation share.  Users are not here: ops,      *)
(* clock, dead, crashes stay.                                                 *)

Still == UNCHANGED <<up, bounds>>

\* An operation is over: back to the plan, or to rest.  A failed event asks for a
\* full resync, a failed path of a reconciliation is only counted.
Ended  == IF job.scope # {} THEN [Idle EXCEPT !.at = "next", !.scope = job.scope,
                                              !.inv = job.inv, !.plan = job.plan]
          ELSE Idle
Finish == job' = Ended /\ UNCHANGED resync
Fail   == job' = Ended /\ resync' = (resync \/ job.scope = {})
Proceed(at) == job' = [job EXCEPT !.at = at] /\ UNCHANGED resync

SetRow(p, a, b) == row' = [row EXCEPT !["A"][p] = a, !["B"][p] = b]
Both(f)         == [s \in Side |-> f]

\* Mutant: the file is copied where its directory may not be.
CopyWithoutDir(s, p, forced) ==
    LET t == Other(s)  v == file[s][p]
    IN /\ IF v = 0 THEN UNCHANGED <<file, row>>
          ELSE file' = [file EXCEPT ![t][p] = v] /\ SetRow(p, v, v)
       /\ UNCHANGED <<has, kept, aside, rowDir, slot>>

\* propagateContent of a file, the conflict included: the version of t is kept
\* beside it.  CopyFile makes the directory first, and nothing claims that event.
Differs(s, p, forced) == /\ FileOf(Other(s), p) /\ file[Other(s)][p] # file[s][p]
                         /\ forced \/ row[Other(s)][p] # file[Other(s)][p]
PropagateContent(s, p, forced) ==
    LET t == Other(s)  d == p[1]  v == file[s][p]
    IN /\ has' = [has EXCEPT ![t] = @ \cup {d}]
       /\ IF d \notin has[t] THEN Slot(t, {d}, "content") ELSE UNCHANGED slot
       /\ IF v = 0 THEN UNCHANGED <<file, kept, row>>
          ELSE /\ file' = [file EXCEPT ![t][p] = v]
               /\ kept' = IF Differs(s, p, forced) THEN [kept EXCEPT ![t][d] = @ \cup {file[t][p]}] ELSE kept
               /\ SetRow(p, v, v)
       /\ UNCHANGED <<aside, rowDir>>

RemoveFile(t, p) ==
    /\ file' = [file EXCEPT ![t][p] = 0] /\ SetRow(p, 0, 0)
    /\ UNCHANGED <<has, kept, aside, rowDir, slot>>

StartDir(s, d)    == [job EXCEPT !.at = "mkdir", !.src = s, !.dir = d]
StartRemove(s, d) == [job EXCEPT !.at = "inspect", !.src = s, !.dir = d]

-------------------------------------------------------------------------------
(* process: one event, taken in order.                                        *)

Ev == Head(sent)
Taking(k) == /\ up /\ job = Idle /\ sent # << >> /\ Ev.kind = k /\ sent' = Tail(sent)

\* alreadySynced: both rows exist, the source is as recorded, the rows agree.
ProcessFile ==
    /\ Taking("content") /\ Ev.path \in Files
    /\ LET s == Ev.side  p == Ev.path
       IN IF row[s][p] # 0 /\ file[s][p] = row[s][p] /\ row["A"][p] = row["B"][p]
          THEN UNCHANGED <<disk, state, slot, job, resync>>
          ELSE /\ PropagateContent(s, p, FALSE)
               /\ UNCHANGED job
               /\ resync' = (resync \/ file[s][p] = 0)
    /\ Still

\* A deletion is believed without a look at the source.
ProcessFileGone ==
    /\ Taking("delete") /\ Ev.path \in Files
    /\ LET t == Other(Ev.side)  p == Ev.path
       IN IF row["A"][p] # 0 /\ row["B"][p] # 0 /\ ~FileOf(t, p)
          THEN UNCHANGED <<disk, state, slot>>
          ELSE RemoveFile(t, p)
    /\ UNCHANGED <<job, resync>> /\ Still

\* Directories have no digest, so their creation is never "already synced".
ProcessDir ==
    /\ Taking("content") /\ Ev.path \in Dirs
    /\ job' = StartDir(Ev.side, Ev.path)
    /\ UNCHANGED <<disk, state, slot, resync>> /\ Still

ProcessDirGone ==
    /\ Taking("delete") /\ Ev.path \in Dirs
    /\ LET t == Other(Ev.side)  d == Ev.path
       IN job' = IF d \in rowDir["A"] \cap rowDir["B"] /\ d \notin has[t] THEN job
                 ELSE StartRemove(Ev.side, d)
    /\ UNCHANGED <<disk, state, slot, resync>> /\ Still

ProcessMove ==
    /\ Taking("move")
    /\ job' = [job EXCEPT !.at = "move", !.src = Ev.side, !.dir = Ev.path, !.from = Ev.from]
    /\ UNCHANGED <<disk, state, slot, resync>> /\ Still

-------------------------------------------------------------------------------
(* The operations on directories, step by step.  Dst is the side they write.  *)

Doing(at) == up /\ job.at = at
Dst == Other(job.src)
D   == job.dir

\* What an operation did to the directory itself comes back as an event.  The
\* subtree expectation claims it, unless it comes after ForgetSubtree.
Leak == \/ UNCHANGED events
        \/ /\ "late" \in Hurry /\ job.echo \in {"content", "delete"} /\ slot[Dst][D] = "none"
           /\ Slot(Dst, {D}, job.echo) /\ UNCHANGED sent
        \/ /\ "late" \in Hurry /\ job.echo = "move"
           /\ Slot(Dst, {D, job.from}, "none")
           /\ sent' = Append(sent, [side |-> Dst, kind |-> "move", path |-> D, from |-> job.from])

\* propagateDir: isEmptyDir, then Mkdir, or CopyTree, which starts with it.
Mkdir ==
    /\ Doing("mkdir")
    /\ IF D \notin has[job.src] THEN Fail /\ UNCHANGED has
       ELSE /\ has' = [has EXCEPT ![Dst] = @ \cup {D}]
            /\ LET full == VersionsIn(job.src, D) # {}
               IN job' = [job EXCEPT !.at = IF full THEN "copy" ELSE "note", !.deep = full,
                                     !.todo = FilesIn(job.src, D),
                                     !.echo = IF D \in has[Dst] THEN "none" ELSE "content"]
            /\ UNCHANGED resync
    /\ UNCHANGED <<file, kept, aside, state, events>> /\ Still

\* rsync copies the files it listed, whatever the other side has; the excludes
\* of the configuration are not its own.
CopyOne ==
    /\ Doing("copy") /\ job.todo # {}
    /\ \E p \in job.todo :
         IF FileOf(job.src, p) /\ D \in has[Dst]
         THEN /\ file' = [file EXCEPT ![Dst][p] = file[job.src][p]]
              /\ job' = [job EXCEPT !.todo = @ \ {p}]
              /\ UNCHANGED resync
         ELSE Fail /\ UNCHANGED file
    /\ UNCHANGED <<has, kept, aside, state, events>> /\ Still

CopyDone ==
    /\ Doing("copy") /\ job.todo = {}
    /\ kept' = IF D \in has[Dst] THEN [kept EXCEPT ![Dst][D] = @ \cup kept[job.src][D]] ELSE kept
    /\ Proceed("note")
    /\ UNCHANGED <<has, file, aside, state, events>> /\ Still

\* recordPair of the directory; it needs both.
Note ==
    /\ Doing("note")
    /\ IF D \in has["A"] \cap has["B"]
       THEN /\ rowDir' = [s \in Side |-> rowDir[s] \cup {D}]
            /\ IF job.deep THEN Proceed("walkA") /\ UNCHANGED events ELSE Finish /\ Leak
       ELSE Fail /\ UNCHANGED <<rowDir, events>>
    /\ UNCHANGED <<disk, row>> /\ Still

\* recordSubtree walks A, then B, and records what it finds on that side.
RecordTree(s) ==
    /\ row' = [row EXCEPT ![s] = [p \in Files |-> IF p \in FilesIn(s, D) THEN file[s][p] ELSE @[p]]]
    /\ rowDir' = [rowDir EXCEPT ![s] = @ \cup ({D} \cap has[s])]

WalkA ==
    /\ Doing("walkA") /\ RecordTree("A") /\ Proceed("walkB")
    /\ UNCHANGED <<disk, events>> /\ Still

WalkB ==
    /\ Doing("walkB") /\ RecordTree("B") /\ Finish
    /\ Leak
    /\ UNCHANGED disk /\ Still

\* Mutant: a file without a row counts as synchronised.
UnsyncedKnown(t, d) == {p \in FilesIn(t, d) : row[t][p] \notin {0, file[t][p]}}

\* removeDir: unsyncedUnder lists what the state does not know, ...
Unsynced(t, d) == {p \in FilesIn(t, d) : row[t][p] # file[t][p]}

Inspect ==
    /\ Doing("inspect")
    /\ job' = [job EXCEPT !.at = "aside", !.todo = Unsynced(Dst, D)]
    /\ UNCHANGED <<disk, state, events, resync>> /\ Still

\* ... which is moved out, file by file, ...
MoveAside ==
    /\ Doing("aside") /\ job.todo # {}
    /\ \E p \in job.todo :
         IF FileOf(Dst, p)
         THEN /\ aside' = aside \cup {file[Dst][p]}
              /\ file' = [file EXCEPT ![Dst][p] = 0]
              /\ job' = [job EXCEPT !.todo = @ \ {p}]
              /\ UNCHANGED resync
         ELSE Fail /\ UNCHANGED <<file, aside>>
    /\ UNCHANGED <<has, kept, state, events>> /\ Still

\* ... and the rest is removed, whatever it is by then.
RmTree ==
    /\ Doing("aside") /\ job.todo = {}
    /\ has' = [has EXCEPT ![Dst] = @ \ {D}]
    /\ file' = [file EXCEPT ![Dst] = [p \in Files |-> IF p \in In(D) THEN 0 ELSE @[p]]]
    /\ kept' = [kept EXCEPT ![Dst][D] = {}]
    /\ job' = [job EXCEPT !.at = "unrecord", !.echo = IF D \in has[Dst] THEN "delete" ELSE "none"]
    /\ UNCHANGED <<aside, state, events, resync>> /\ Still

\* Mutant: the rows of the files below stay.
DeleteOneRow(d) == rowDir' = [s \in Side |-> rowDir[s] \ {d}] /\ UNCHANGED row

\* DeleteSubtree, for both sides.
DeleteRows(d) ==
    /\ rowDir' = [s \in Side |-> rowDir[s] \ {d}]
    /\ row' = [s \in Side |-> [p \in Files |-> IF p \in In(d) THEN 0 ELSE row[s][p]]]

Unrecord ==
    /\ Doing("unrecord") /\ DeleteRows(D) /\ Finish
    /\ Leak
    /\ UNCHANGED disk /\ Still

\* propagateMove.  rename(2) replaces an empty directory and refuses a full one.
MoveDir ==
    /\ Doing("move")
    /\ IF job.from \notin has[Dst]
       THEN /\ DeleteRows(job.from)
            /\ job' = [Idle EXCEPT !.at = "scan", !.scope = {D}]
            /\ UNCHANGED <<has, file, kept, resync>>
       ELSE /\ UNCHANGED state
            /\ IF D \in has[Dst] /\ VersionsIn(Dst, D) # {} THEN Fail /\ UNCHANGED <<has, file, kept>>
               ELSE /\ has' = [has EXCEPT ![Dst] = (@ \ {job.from}) \cup {D}]
                    /\ file' = [file EXCEPT ![Dst] = MovedTo(@, job.from, D)]
                    /\ kept' = [kept EXCEPT ![Dst] = [@ EXCEPT ![job.from] = {}, ![D] = kept[Dst][job.from]]]
                    /\ job' = [job EXCEPT !.at = "renote", !.echo = "move"]
                    /\ UNCHANGED resync
    /\ UNCHANGED <<aside, events>> /\ Still

\* The rows follow: those of the old name and below the new one go, the
\* directory is recorded, then recordSubtree.
Renote ==
    /\ Doing("renote")
    /\ IF D \in has["A"] \cap has["B"]
       THEN /\ rowDir' = [s \in Side |-> (rowDir[s] \ {job.from}) \cup {D}]
            /\ row' = [s \in Side |-> [p \in Files |-> IF p[1] \in {job.from, D} THEN 0 ELSE row[s][p]]]
            /\ Proceed("walkA")
       ELSE DeleteRows(job.from) /\ Fail
    /\ UNCHANGED <<disk, events>> /\ Still

-------------------------------------------------------------------------------
(* reconcile: scan both sides, then go through the plan, directories first.   *)

Departing == \/ \E s \in Side, p \in Dirs \cup Files : slot[s][p] = "delete"
             \/ \E i \in DOMAIN sent : sent[i].kind # "content"

\* Mutant: the request that is being answered stays.
ResyncStaysDue ==
    /\ up /\ job = Idle /\ resync
    /\ "behind" \in Hurry \/ ~Departing
    /\ job' = [Idle EXCEPT !.at = "scan", !.scope = Dirs]
    /\ UNCHANGED <<disk, state, events, resync>> /\ Still

StartResync ==
    /\ up /\ job = Idle /\ resync
    /\ "behind" \in Hurry \/ ~Departing
    /\ resync' = FALSE
    /\ job' = [Idle EXCEPT !.at = "scan", !.scope = Dirs]
    /\ UNCHANGED <<disk, state, events>> /\ Still

Scan ==
    /\ Doing("scan")
    /\ LET inv == [has  |-> [s \in Side |-> has[s] \cap job.scope],
                   file |-> [s \in Side |-> [p \in Files |-> IF p[1] \in job.scope THEN file[s][p] ELSE 0]]]
       IN job' = [job EXCEPT !.at = "next", !.inv = inv,
                             !.plan = inv.has["A"] \cup inv.has["B"] \cup
                                      {p \in Files : \E s \in Side : inv.file[s][p] # 0}]
    /\ UNCHANGED <<disk, state, events, resync>> /\ Still

Ahead == CHOOSE p \in job.plan : p \in Dirs \/ job.plan \cap Dirs = {}
Turn(P) == /\ Doing("next") /\ job.plan # {} /\ Ahead \in P
SeenDir(s, d)  == d \in job.inv.has[s]
SeenFile(s, p) == job.inv.file[s][p]
Rest(P) == [job EXCEPT !.plan = @ \ P]

\* Attributes decide whether a directory on both sides is recorded: equal ones are
\* "nothing to do", and then nothing is written down.
ReconcileDir ==
    /\ Turn(Dirs) /\ \A s \in Side : SeenDir(s, Ahead)
    /\ job' = Rest({Ahead})
    /\ rowDir' \in {rowDir} \cup {[s \in Side |-> rowDir[s] \cup {d}] : d \in {Ahead} \cap has["A"] \cap has["B"]}
    /\ UNCHANGED <<disk, row, events, resync>> /\ Still

\* A directory on one side is copied or removed as a whole: its files leave the plan.
\* A row of the other side means it was deleted there.
Handled(d) == {d} \cup In(d)

\* Mutant: what one side lacks is copied there, whatever the rows say.
AlwaysCopied ==
    /\ Turn(Dirs)
    /\ \E s \in Side :
         /\ SeenDir(s, Ahead) /\ ~SeenDir(Other(s), Ahead)
         /\ job' = [StartDir(s, Ahead) EXCEPT !.plan = @ \ Handled(Ahead)]
    /\ UNCHANGED <<disk, state, events, resync>> /\ Still

ReconcileOneDir ==
    /\ Turn(Dirs)
    /\ \E s \in Side :
         /\ SeenDir(s, Ahead) /\ ~SeenDir(Other(s), Ahead)
         /\ LET start == IF Ahead \in rowDir[Other(s)] THEN StartRemove(Other(s), Ahead) ELSE StartDir(s, Ahead)
            IN job' = [start EXCEPT !.plan = @ \ Handled(Ahead)]
    /\ UNCHANGED <<disk, state, events, resync>> /\ Still

ReconcileOneFile ==
    /\ Turn(Files)
    /\ \E s \in Side :
         /\ SeenFile(s, Ahead) # 0 /\ SeenFile(Other(s), Ahead) = 0
         /\ IF row[Other(s)][Ahead] # 0 THEN RemoveFile(s, Ahead) ELSE PropagateContent(s, Ahead, FALSE)
    /\ job' = Rest({Ahead})
    /\ UNCHANGED <<sent, resync>> /\ Still

\* originOf: the side that left the recorded version; without one, a conflict,
\* with the newer version as its origin.
Changed(s, p) == SeenFile(s, p) # row[s][p]
Origin(p) ==
    LET known == row["A"][p] # 0 /\ row["B"][p] # 0
        only  == {s \in Side : Changed(s, p) /\ ~Changed(Other(s), p)}
    IN IF known /\ only # {} THEN only ELSE {}
Newer(p) == IF SeenFile("B", p) > SeenFile("A", p) THEN "B" ELSE "A"

ReconcileFile ==
    /\ Turn(Files) /\ \A s \in Side : SeenFile(s, Ahead) # 0
    /\ LET p == Ahead
           here == FileOf("A", p) /\ FileOf("B", p)
       IN IF SeenFile("A", p) = SeenFile("B", p)
          THEN /\ IF here THEN SetRow(p, file["A"][p], file["B"][p]) ELSE UNCHANGED row
               /\ UNCHANGED <<disk, rowDir, slot>>
          ELSE IF Origin(p) # {} THEN PropagateContent(CHOOSE s \in Origin(p) : TRUE, p, FALSE)
          ELSE IF here THEN PropagateContent(Newer(p), p, TRUE)
          ELSE UNCHANGED <<disk, state, slot>>
    /\ job' = Rest({Ahead})
    /\ UNCHANGED <<sent, resync>> /\ Still

ReconcileDone ==
    /\ Doing("next") /\ job.plan = {}
    /\ job' = Idle
    /\ UNCHANGED <<disk, state, events, resync>> /\ Still

-------------------------------------------------------------------------------
(* The process dies, and comes back: watchers first, then the first sync.     *)

Crash ==
    /\ up /\ crashes < MaxCrashes /\ crashes' = crashes + 1
    /\ "torn" \in Hurry \/ job.at \notin {"unrecord", "renote"}
    /\ up' = FALSE /\ job' = Idle /\ sent' = << >> /\ resync' = FALSE
    /\ slot' = [s \in Side |-> [p \in Dirs \cup Files |-> "none"]]
    /\ UNCHANGED <<disk, state, clock, dead, ops>>

Boot ==
    /\ ~up /\ up' = TRUE
    /\ job' = [Idle EXCEPT !.at = "scan", !.scope = Dirs]
    /\ UNCHANGED <<disk, state, events, resync, bounds>>

UserStep == \E s \in Side :
    \/ \E d \in Dirs : MakeDir(s, d) \/ RemoveTree(s, d)
    \/ \E p \in Files : Write(s, p) \/ Delete(s, p)
    \/ \E d, e \in Dirs : RenameDir(s, d, e)

Process   == ProcessFile \/ ProcessFileGone \/ ProcessDir \/ ProcessDirGone \/ ProcessMove
Operate   == \/ Mkdir \/ CopyOne \/ CopyDone \/ Note \/ WalkA \/ WalkB
             \/ Inspect \/ MoveAside \/ RmTree \/ Unrecord \/ MoveDir \/ Renote
Reconcile == \/ StartResync \/ Scan \/ ReconcileDir \/ ReconcileOneDir
             \/ ReconcileOneFile \/ ReconcileFile \/ ReconcileDone
Daemon    == Process \/ Operate \/ Reconcile \/ Boot

Next == \/ UserStep \/ Daemon \/ Crash
        \/ \E s \in Side, p \in Dirs \cup Files : TimerFires(s, p)

\* The worker takes what there is, timers expire, systemd restarts the service.
Fairness == WF_vars(Daemon) /\ \A s \in Side, p \in Dirs \cup Files : WF_vars(TimerFires(s, p))

Spec == Init /\ [][Next]_vars /\ Fairness

-------------------------------------------------------------------------------
\* Types; and a file is in a directory that exists, whatever step failed half-way.
TypeOK ==
    /\ has \in [Side -> SUBSET Dirs] /\ file \in [Side -> [Files -> Version]]
    /\ kept \in [Side -> [Dirs -> SUBSET Version]] /\ aside \subseteq Version
    /\ rowDir \in [Side -> SUBSET Dirs] /\ row \in [Side -> [Files -> Version]]
    /\ slot \in [Side -> [Dirs \cup Files -> {"none", "content", "delete"}]]
    /\ sent \in Seq(Event) /\ job \in Job
    /\ resync \in BOOLEAN /\ up \in BOOLEAN
    /\ clock \in Version /\ dead \subseteq Version /\ ops \in 0..MaxOps /\ crashes \in 0..MaxCrashes
    /\ \A s \in Side, p \in Files : FileOf(s, p) => p[1] \in has[s]

\* A version no user replaced or deleted is somewhere on a disk.
NothingLost ==
    \A v \in 1..clock : v \in dead \/ v \in aside \/ \E s \in Side, d \in Dirs : v \in VersionsIn(s, d)

\* Once everything is handled, both sides hold the same directories and files, and
\* the rows describe them: the next deletion or reconciliation decides by those.
Converged == Quiet => has["A"] = has["B"] /\ file["A"] = file["B"] /\ row = file

\* What a user deleted or replaced does not come back.
StaysDead == Quiet => \A s \in Side, p \in Files : file[s][p] \notin dead

\* The machinery comes to rest.
Settles == <>[]Quiet
===============================================================================
