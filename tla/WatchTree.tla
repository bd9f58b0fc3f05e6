------------------------------- MODULE WatchTree -------------------------------
(***************************************************************************)
(* internal/watcher and internal/inotify: one side's watcher.  inotify is  *)
(* not recursive, so the watcher keeps a registry of watched directories   *)
(* (tree.byWd, tree.byPath), extends it when a directory appears, renames  *)
(* it when one moves, and turns the kernel's notices into events.  A watch *)
(* belongs to a directory (an inode), the registry to its path: users move *)
(* directories while notices about their old names are still queued, and   *)
(* that difference is what this module is about.                           *)
(*                                                                         *)
(* Threads: users, the read loop (job 0), and one goroutine per expired    *)
(* movePairWindow (job c, c the cookie of the half rename).                *)
(*                                                                         *)
(* Abstractions.  Only notices that change what exists are modelled: the   *)
(* content of a file is SyncPair's subject.  Excluded names are left out.  *)
(* Whether a path is a directory or a file is told by its last name.  The  *)
(* send on the out channel always finds room.  removeSubtree and the       *)
(* rm_watch calls for what it returned are one step.  in.Add and tree.add  *)
(* are two, except where nobody else could look at the registry in between *)
(* (FilesOnly): there they are one.                                        *)
(***************************************************************************)
EXTENDS Naturals, Sequences, SequencesExt, FiniteSets

CONSTANTS Paths,      \* bound: the places that may exist, with every prefix; << >> is the root
          FileNames,  \* a path ending in one of these is a file
          MaxInodes,  \* bound: directories that exist at a time, the root is 1
          MaxWatches, \* fs.inotify.max_user_watches, as far as this side goes
          MaxWd,      \* bound: watch descriptors handed out
          MaxOps,     \* bound: operations of users
          Hurry       \* what users do while notices are in flight, see below

Root   == << >>
IsFile(p) == p # Root /\ Last(p) \in FileNames
DirPaths  == {p \in Paths : ~IsFile(p)}
Parent(p) == Front(p)

Inodes == 1..MaxInodes
Wds    == 1..MaxWd
NoPath == << "none" >>
None   == 0            \* no entry; no watch; no descriptor
FileEntry == MaxInodes + 1

\* "moves": directories are moved at all, not only made and removed; "rename":
\* also renamed, or moved out, before the watcher caught up; "reuse": a name is
\* taken again before that; "again": a directory is made while there still is news
\* of an earlier one of that name; "replace": a directory is renamed over an
\* empty one; "overflow": the kernel's queue may overflow with directories' notices;
\* "scan": what a scan or a full resync found may go before its directory is watched;
\* "slow": a directory may go while a timer's goroutine is between placing its watch
\* and registering it;
\* "late": movePairWindow may expire while the other half is still queued;
\* "stop": the watcher may be stopped, or fail to read, at any moment.
Hurries == {"moves", "rename", "reuse", "again", "replace", "overflow", "scan", "slow", "late",
            "stop"}

ASSUME ConstantsAssumption ==
    /\ Paths \subseteq Seq(STRING) /\ Root \in Paths
    /\ \A p \in Paths \ {Root} : Front(p) \in DirPaths /\ Last(p) # "self"
    /\ \A p \in Paths : \A n \in 0..Len(p) : SubSeq(p, 1, n) \in Paths
    /\ IsFiniteSet(Paths)
    /\ MaxInodes \in Nat \ {0} /\ MaxWatches \in Nat \ {0}
    /\ MaxWd \in Nat \ {0} /\ MaxOps \in Nat
    /\ Hurry \subseteq Hurries
    /\ NoPath \notin Paths

VARIABLES
    disk,      \* the tree: None, FileEntry or the inode of a directory
    rootGone,  \* the root was moved away
    mark,      \* kernel: watch descriptor of an inode, or None
    nextWd,    \* kernel: the next descriptor, they are not reused
    kq,        \* kernel: queued notices
    byWd,      \* tree.byWd
    byPath,    \* tree.byPath
    pending,   \* w.pending: halves of renames waiting for the other one
    job,       \* what the loop (0) and the expired timers are doing
    placed,    \* the watch a walk has placed and not registered yet, or None
    resync,    \* the overflow signal
    fatal,     \* the fatal signal
    stopped,   \* the read loop returned, which closes w.out
    blind,     \* history: a watch was refused at the limit
    view,      \* history: the paths that exist by the events emitted so far
    ops        \* operations of users so far; it numbers the renames

users   == <<disk, rootGone, ops>>
kernel  == <<mark, nextWd, kq>>
tree    == <<byWd, byPath>>
signals == <<resync, fatal, stopped, blind>>
vars    == <<users, kernel, tree, pending, placed, job, signals, view>>

Cookies == 1..MaxOps
Jobs    == 0..MaxOps
Names   == {Last(p) : p \in Paths \ {Root}}
Self    == "self"      \* the name in a notice about the watched directory itself

Notice == [wd : 0..MaxWd, name : Names \cup {Self}, cookie : Jobs,
           what : {"CREATE", "DELETE", "FROM", "TO", "MOVED", "IGNORED", "OVERFLOW"}]

\* What the watcher knows is names: a path that is out of date need not be in Paths.
AnyPath == Seq(Names \cup {"none"})
Half    == [rel : AnyPath, from : BOOLEAN]
NoHalf  == [rel |-> NoPath, from |-> FALSE]
Task   == [at : {"idle", "add", "register", "read", "scan", "gone", "announce"},
           rel : AnyPath, todo : Seq(AnyPath)]
Idle == [at |-> "idle", rel |-> Root, todo |-> << >>]

\* isUnder, with and without the path itself; the path after a rename.
Under(p, top)       == IsStrictPrefix(top, p)
Within(p, top)      == IsPrefix(top, p)
Rebase(p, from, to) == to \o SubSeq(p, Len(from) + 1, Len(p))

IsDir(p)    == p \in Paths /\ disk[p] \in Inodes
Exists      == {p \in Paths \ {Root} : disk[p] # None}
Children(p) == {q \in Exists : Parent(q) = p}
Doing(j, at) == job[j].at = at
Ahead(j)    == Head(job[j].todo)
Quiet       == /\ kq = << >> /\ ~resync
               /\ \A c \in Cookies : pending[c] = NoHalf
               /\ \A j \in Jobs : job[j] = Idle

Init ==
    /\ disk = [p \in Paths |-> IF p = Root THEN 1 ELSE None]
    /\ mark = [i \in Inodes |-> IF i = 1 THEN 1 ELSE None]
    /\ nextWd = 2 /\ kq = << >>
    /\ byWd = [w \in Wds |-> IF w = 1 THEN Root ELSE NoPath]
    /\ byPath = [p \in DirPaths |-> IF p = Root THEN 1 ELSE None]
    /\ pending = [c \in Cookies |-> NoHalf]
    /\ job = [j \in Jobs |-> Idle] /\ placed = [j \in Jobs |-> None]
    /\ rootGone = FALSE /\ resync = FALSE /\ fatal = FALSE /\ stopped = FALSE
    /\ blind = FALSE /\ view = {} /\ ops = 0

-------------------------------------------------------------------------------
(* Users and the kernel.  A notice goes to the watch of the parent, if any.  *)

Told(p, what, c) ==
    LET w == mark[disk[Parent(p)]]
    IN IF w = None THEN << >> ELSE <<[wd |-> w, what |-> what, name |-> Last(p), cookie |-> c]>>

ToldSelf(i, what) ==
    IF mark[i] = None THEN << >>
    ELSE <<[wd |-> mark[i], what |-> what, name |-> Self, cookie |-> 0]>>

Ignored(w) == [wd |-> w, what |-> "IGNORED", name |-> Self, cookie |-> 0]
Overflowed == [wd |-> None, what |-> "OVERFLOW", name |-> Self, cookie |-> 0]

\* A directory that ceases to exist takes its watch with it.
Destroyed(p) == IF IsDir(p) THEN ToldSelf(disk[p], "DELETE") \o ToldSelf(disk[p], "IGNORED")
                ELSE << >>
Unmarked(p)  == IF IsDir(p) THEN [mark EXCEPT ![disk[p]] = None] ELSE mark

\* The kernel queues the notices of an operation on p, or drops them and says so.
Queue(p, ns) ==
    \/ kq' = kq \o ns
    \/ /\ IsFile(p) \/ "overflow" \in Hurry
       /\ ns # << >> /\ kq' = Append(kq, Overflowed)

\* An inode number nobody uses: not on the disk, and no longer watched.
Unused(i)  == i \notin Range(disk) /\ mark[i] = None
FreshInode == CHOOSE i \in Inodes : Unused(i)
InodesLeft == \E i \in Inodes : Unused(i)

\* Mutant: a notice about the directory itself is joined as if it had a name.
PathAlwaysJoined(n) == Append(byWd[n.wd], n.name)

PathOf(n) == IF n.name = Self THEN byWd[n.wd] ELSE Append(byWd[n.wd], n.name)

\* What users call a watch: by the name it is registered under, or is about to be.
KnownAs(w) == IF byWd[w] = NoPath /\ \E j \in Jobs : placed[j] = w
             THEN Ahead(CHOOSE j \in Jobs : placed[j] = w) ELSE byWd[w]
Concerned(S) == {IF n.name = Self THEN KnownAs(n.wd) ELSE Append(KnownAs(n.wd), n.name) :
                 n \in {m \in S : KnownAs(m.wd) # NoPath}}

\* Where the watcher still has something to do: the paths of queued notices, of
\* waiting halves and of running jobs; for the halves, those of renames only.
Halves == Concerned({n \in Range(kq) : n.cookie # 0})
          \cup {pending[c].rel : c \in {d \in Cookies : pending[d] # NoHalf}}
          \cup {job[c].rel : c \in {d \in Cookies : job[d] # Idle}}
InHand == Concerned({n \in Range(kq) : n.wd # None}) \cup Halves \cup {job[0].rel}
Apart(p, S) == \A x \in S \ {Root} : ~Within(x, p) /\ ~Within(p, x)

\* A name may be given.  Unless users hurry, it was not given up by half a rename the
\* watcher is still thinking about; deleting and making again is always allowed.
FreeName(p) ==
    /\ p # Root /\ IsDir(Parent(p))
    /\ "reuse" \in Hurry \/ Apart(p, Halves)

\* A path may go.  Unless users hurry, it was not found in a directory that is not
\* watched yet, or not under the name it has.
Followed(p) == mark[disk[p]] # None /\ byPath[p] = mark[disk[p]]
MayGo(p) ==
    /\ "scan" \in Hurry \/ blind \/ (p \in view => Followed(Parent(p)))
    /\ "slow" \in Hurry \/ \A c \in Cookies : Doing(c, "register") => ~Within(Ahead(c), p)

\* A directory may move.  Unless users hurry, the watcher has announced it and
\* everything below, and is not busy there.
MayMove(p) ==
    /\ MayGo(p)
    /\ \/ IsFile(p)
       \/ /\ "moves" \in Hurry
          /\ \/ "rename" \in Hurry
             \/ Apart(p, InHand) /\ \A q \in Exists : Within(q, p) => q \in view

UserMoves == ~rootGone /\ ops < MaxOps /\ ops' = ops + 1
Unheard   == UNCHANGED <<rootGone, nextWd, tree, pending, placed, job, signals, view>>

Make(p) ==
    /\ UserMoves /\ FreeName(p) /\ disk[p] = None /\ InodesLeft
    /\ IsFile(p) \/ "again" \in Hurry \/ \A x \in InHand : ~Within(x, p)
    /\ disk' = [disk EXCEPT ![p] = IF IsFile(p) THEN FileEntry ELSE FreshInode]
    /\ Queue(p, Told(p, "CREATE", 0))
    /\ UNCHANGED mark /\ Unheard

\* unlink, or rmdir: the notices of the directory itself come first.
Unlink(p) ==
    /\ UserMoves /\ p \in Exists /\ MayGo(p) /\ Children(p) = {}
    /\ disk' = [disk EXCEPT ![p] = None]
    /\ Queue(p, Destroyed(p) \o Told(p, "DELETE", 0))
    /\ mark' = Unmarked(p)
    /\ Unheard

\* rename(2) within the tree: to a free name, over a file, or over an empty
\* directory, whose own notices come last.
CanMove(p, q) ==
    /\ p \in Exists /\ q \in Paths \ {Root} /\ IsFile(p) = IsFile(q) /\ ~Within(q, p)
    /\ \A x \in Exists : Within(x, p) => Rebase(x, p, q) \in Paths
    /\ MayMove(p) /\ FreeName(q)
    /\ IsFile(q) \/ "reuse" \in Hurry \/ Apart(q, InHand)
    /\ disk[q] = None \/ IsFile(q) \/ ("replace" \in Hurry /\ Children(q) = {})

Moved(p, q) ==
    [x \in Paths |-> IF Within(x, q) /\ Rebase(x, q, p) \in Paths THEN disk[Rebase(x, q, p)]
                     ELSE IF Within(x, p) THEN None ELSE disk[x]]

Rename(p, q) ==
    /\ UserMoves /\ CanMove(p, q)
    /\ disk' = Moved(p, q)
    /\ Queue(p, Told(p, "FROM", ops + 1) \o Told(q, "TO", ops + 1) \o Destroyed(q))
    /\ mark' = Unmarked(q)
    /\ Unheard

\* rename(2) across the border of the tree: one half is all there is.
MoveOut(p) ==
    /\ UserMoves /\ p \in Exists /\ MayMove(p)
    /\ disk' = [x \in Paths |-> IF Within(x, p) THEN None ELSE disk[x]]
    /\ Queue(p, Told(p, "FROM", ops + 1))
    /\ UNCHANGED mark /\ Unheard

MoveIn(p) ==
    /\ UserMoves /\ FreeName(p) /\ disk[p] = None /\ ~IsFile(p) /\ InodesLeft
    /\ "moves" \in Hurry
    /\ disk' = [x \in Paths |-> IF x = p THEN FreshInode
                                ELSE IF Under(x, p) /\ IsFile(x) /\ Parent(x) = p THEN FileEntry
                                ELSE disk[x]]
    /\ Queue(p, Told(p, "TO", ops + 1))
    /\ UNCHANGED mark /\ Unheard

\* The root itself is moved away.
LoseRoot ==
    /\ UserMoves
    /\ rootGone' = TRUE
    /\ kq' = kq \o ToldSelf(1, "MOVED")
    /\ UNCHANGED <<disk, mark, nextWd, tree, pending, placed, job, signals, view>>

-------------------------------------------------------------------------------
(* The registry (tree.go), each operation under its lock, and inotify.Add.   *)

TreeAdd(w, p) ==
    /\ byPath' = [q \in DirPaths |-> IF q = p THEN w
                                     ELSE IF q = byWd[w] THEN None ELSE byPath[q]]
    /\ byWd' = [byWd EXCEPT ![w] = p]

TreeRemove(w) ==
    /\ byPath' = [q \in DirPaths |-> IF q = byWd[w] THEN None ELSE byPath[q]]
    /\ byWd' = [byWd EXCEPT ![w] = NoPath]

WdsWithin(top) == {byPath[q] : q \in {x \in DirPaths : Within(x, top)}} \ {None}

RemoveSubtree(top) ==
    /\ byPath' = [q \in DirPaths |-> IF Within(q, top) THEN None ELSE byPath[q]]
    /\ byWd' = [w \in Wds |-> IF w \in WdsWithin(top) THEN NoPath ELSE byWd[w]]

\* Mutant: byPath follows the rename, byWd does not.
RenameByPathOnly(from, to) ==
    /\ byPath' = [q \in DirPaths |->
                     IF Within(q, to) /\ Rebase(q, to, from) \in DirPaths /\ byPath[Rebase(q, to, from)] # None
                     THEN byPath[Rebase(q, to, from)]
                     ELSE IF Within(q, from) THEN None ELSE byPath[q]]
    /\ UNCHANGED byWd

RenameSubtree(from, to) ==
    LET Source(q) == Rebase(q, to, from)
        Lands(q)  == Within(q, to) /\ Source(q) \in DirPaths /\ byPath[Source(q)] # None
    IN /\ byPath' = [q \in DirPaths |-> IF Lands(q) THEN byPath[Source(q)]
                                        ELSE IF Within(q, from) THEN None ELSE byPath[q]]
       /\ byWd' = [w \in Wds |-> IF w \in WdsWithin(from) THEN Rebase(byWd[w], from, to)
                                 ELSE byWd[w]]

\* inotify_add_watch: a directory already watched keeps its descriptor, and a
\* new watch fails with ENOSPC at the limit.
WatchLeft(i) == mark[i] # None \/ Cardinality({x \in Inodes : mark[x] # None}) < MaxWatches
AddWatch(i) ==
    IF mark[i] = None THEN nextWd <= MaxWd /\ mark' = [mark EXCEPT ![i] = nextWd] /\ nextWd' = nextWd + 1
    ELSE UNCHANGED <<mark, nextWd>>

-------------------------------------------------------------------------------
(* The events.  What they make of the other side is replayed into "view": a  *)
(* Create of a path that is gone again fails there, a Delete is believed     *)
(* unseen, a Move of a path the other side does not have has its new place   *)
(* reconciled.                                                               *)

EmitCreate(p) == view' = IF p \in Exists THEN view \cup {p} ELSE view
EmitDelete(p) == view' = {q \in view : ~Within(q, p)}
EmitMove(from, to) ==
    view' = {q \in view : ~Within(q, from)} \cup
            IF from \in view THEN {Rebase(q, from, to) : q \in {x \in view : Within(x, from)}} \cap Paths
            ELSE {q \in Exists : Within(q, to)}

\* What becomes of a path that appeared, and of one that disappeared.
Found(p) == [at |-> "add", rel |-> p, todo |-> IF IsFile(p) THEN << >> ELSE <<p>>]
Lost(p)  == [at |-> IF IsFile(p) THEN "announce" ELSE "gone", rel |-> p, todo |-> << >>]

-------------------------------------------------------------------------------
(* The read loop takes one notice at a time and finishes with it.            *)

Next1 == Head(kq)
Rel   == PathOf(Next1)
Taking(what) == ~stopped /\ job[0] = Idle /\ kq # << >> /\ Next1.what \in what /\ kq' = Tail(kq)
Known == byWd[Next1.wd] # NoPath

HandleOverflow ==
    /\ Taking({"OVERFLOW"})
    /\ resync' = TRUE
    /\ UNCHANGED <<users, mark, nextWd, tree, pending, placed, job, fatal, stopped, blind, view>>

HandleIgnored ==
    /\ Taking({"IGNORED"})
    /\ TreeRemove(Next1.wd)
    /\ UNCHANGED <<users, mark, nextWd, pending, placed, job, signals, view>>

\* The watch was discarded: a residual notice.
HandleResidual ==
    /\ Taking({"CREATE", "DELETE", "FROM", "TO", "MOVED"}) /\ ~Known
    /\ UNCHANGED <<users, mark, nextWd, tree, pending, placed, job, signals, view>>

HandleCreate ==
    /\ Taking({"CREATE"}) /\ Known
    /\ job' = [job EXCEPT ![0] = Found(Rel)]
    /\ UNCHANGED <<users, mark, nextWd, tree, pending, placed, signals, view>>

HandleDelete ==
    /\ Taking({"DELETE"}) /\ Known
    /\ job' = [job EXCEPT ![0] = Lost(Rel)]
    /\ UNCHANGED <<users, mark, nextWd, tree, pending, placed, signals, view>>

\* IN_MOVE_SELF concerns the root only.
HandleMoved ==
    /\ Taking({"MOVED"}) /\ Known
    /\ fatal' = (fatal \/ Rel = Root)
    /\ UNCHANGED <<users, mark, nextWd, tree, pending, placed, job, resync, stopped, blind, view>>

\* halfMove: the other half waits, and the pair is a rename ...
Pair ==
    /\ Taking({"FROM", "TO"}) /\ Known
    /\ LET other == pending[Next1.cookie]
           from  == IF Next1.what = "FROM" THEN Rel ELSE other.rel
           to    == IF Next1.what = "FROM" THEN other.rel ELSE Rel
       IN /\ other # NoHalf /\ other.from = (Next1.what = "TO")
          /\ IF IsFile(Rel) THEN UNCHANGED tree ELSE RenameSubtree(from, to)
          /\ EmitMove(from, to)
    /\ pending' = [pending EXCEPT ![Next1.cookie] = NoHalf]
    /\ UNCHANGED <<users, mark, nextWd, placed, job, signals>>

\* ... or this half is the first, and waits.
Wait ==
    /\ Taking({"FROM", "TO"}) /\ Known /\ pending[Next1.cookie] = NoHalf
    /\ pending' = [pending EXCEPT ![Next1.cookie] = [rel |-> Rel, from |-> Next1.what = "FROM"]]
    /\ UNCHANGED <<users, mark, nextWd, tree, placed, job, signals, view>>


\* movePairWindow expires: the half is an orphan, handled by its own goroutine.
TimerFires(c) ==
    /\ pending[c] # NoHalf /\ job[c] = Idle
    /\ "late" \in Hurry \/ \A i \in DOMAIN kq : kq[i].cookie # c
    /\ pending' = [pending EXCEPT ![c] = NoHalf]
    /\ job' = [job EXCEPT ![c] = IF pending[c].from THEN Lost(pending[c].rel)
                                 ELSE Found(pending[c].rel)]
    /\ UNCHANGED <<users, kernel, tree, placed, signals, view>>

\* loop returns between two notices: after Stop, a cancelled context, or an error
\* of the read itself.  Timers that are armed stay armed.
LoopEnds ==
    /\ "stop" \in Hurry /\ ~stopped /\ job[0] = Idle
    /\ stopped' = TRUE
    /\ UNCHANGED <<users, kernel, tree, pending, placed, job, resync, fatal, blind, view>>

-------------------------------------------------------------------------------
(* addTree and rescan walk the disk step by step; users go on meanwhile.     *)

\* Nobody but the loop touches the registry until this walk is over: no directory's
\* half waits, and no timer's goroutine walks a directory or unwatches one.
FilesOnly(j) ==
    j = 0 /\ \A c \in Cookies :
                 /\ pending[c] = NoHalf \/ IsFile(pending[c].rel)
                 /\ job[c].at \in {"idle", "scan", "announce"} \/ IsFile(job[c].rel)

\* The watch is placed before the entries are read, in.Add ...
WalkWatch(j) ==
    /\ Doing(j, "add") /\ job[j].todo # << >> /\ ~FilesOnly(j)
    /\ IsDir(Ahead(j)) /\ WatchLeft(disk[Ahead(j)])
    /\ AddWatch(disk[Ahead(j)])
    /\ placed' = [placed EXCEPT ![j] = mark'[disk[Ahead(j)]]]
    /\ job' = [job EXCEPT ![j].at = "register"]
    /\ UNCHANGED <<users, kq, tree, pending, signals, view>>

\* ... and then it is registered, tree.add, whatever happened in between.
WalkRegister(j) ==
    /\ Doing(j, "register")
    /\ TreeAdd(placed[j], Ahead(j))
    /\ placed' = [placed EXCEPT ![j] = None]
    /\ job' = [job EXCEPT ![j].at = "read"]
    /\ UNCHANGED <<users, kernel, pending, signals, view>>

\* The two as one step, where nobody else could see the moment between them.
WalkAdd(j) ==
    /\ Doing(j, "add") /\ job[j].todo # << >> /\ FilesOnly(j)
    /\ IsDir(Ahead(j)) /\ WatchLeft(disk[Ahead(j)])
    /\ AddWatch(disk[Ahead(j)])
    /\ TreeAdd(mark'[disk[Ahead(j)]], Ahead(j))
    /\ job' = [job EXCEPT ![j].at = "read"]
    /\ UNCHANGED <<users, kq, pending, placed, signals, view>>

\* A directory that is gone again is skipped; any other failure ends the walk,
\* with a warning and nothing else.
WalkSkip(j) ==
    /\ Doing(j, "add") /\ job[j].todo # << >>
    /\ \/ ~IsDir(Ahead(j)) /\ job' = [job EXCEPT ![j].todo = Tail(@)] /\ UNCHANGED blind
       \/ /\ IsDir(Ahead(j)) /\ ~WatchLeft(disk[Ahead(j)])
          /\ job' = [job EXCEPT ![j].todo = << >>] /\ blind' = TRUE
    /\ UNCHANGED <<users, kernel, tree, pending, placed, resync, fatal, stopped, view>>

\* Mutant: only the new directory is registered, not what is in it already.
WalkAlone(j) ==
    /\ Doing(j, "read")
    /\ job' = [job EXCEPT ![j].at = "add", ![j].todo = Tail(@)]
    /\ UNCHANGED <<users, kernel, tree, pending, placed, signals, view>>

WalkRead(j) ==
    /\ Doing(j, "read")
    /\ job' = [job EXCEPT ![j].at = "add",
                          ![j].todo = SetToSeq({q \in Children(Ahead(j)) : IsDir(q)}) \o Tail(@)]
    /\ UNCHANGED <<users, kernel, tree, pending, placed, signals, view>>

\* Mutant: no rescan of a new directory.
WalkWithoutScan(j) ==
    /\ Doing(j, "add") /\ job[j].todo = << >>
    /\ EmitCreate(job[j].rel)
    /\ job' = [job EXCEPT ![j] = Idle]
    /\ UNCHANGED <<users, kernel, tree, pending, placed, signals>>

\* The path itself is announced, then what is already in it.
WalkDone(j) ==
    /\ Doing(j, "add") /\ job[j].todo = << >>
    /\ EmitCreate(job[j].rel)
    /\ job' = [job EXCEPT ![j] = IF IsFile(job[j].rel) THEN Idle
                                 ELSE [at |-> "scan", rel |-> job[j].rel, todo |-> <<job[j].rel>>]]
    /\ UNCHANGED <<users, kernel, tree, pending, placed, signals>>

ScanVisit(j) ==
    /\ Doing(j, "scan")
    /\ IF Ahead(j) = job[j].rel THEN UNCHANGED view ELSE EmitCreate(Ahead(j))
    /\ LET rest == SetToSeq(Children(Ahead(j))) \o Tail(job[j].todo)
       IN job' = [job EXCEPT ![j] = IF rest = << >> THEN Idle ELSE [@ EXCEPT !.todo = rest]]
    /\ UNCHANGED <<users, kernel, tree, pending, placed, signals>>

\* removeSubtree by path, and the kernel confirms each watch it drops.
Unwatch(j) ==
    /\ Doing(j, "gone")
    /\ RemoveSubtree(job[j].rel)
    /\ LET live == WdsWithin(job[j].rel) \cap Range(mark)
       IN /\ mark' = [i \in Inodes |-> IF mark[i] \in live THEN None ELSE mark[i]]
          /\ kq' = kq \o [n \in 1..Cardinality(live) |-> Ignored(SetToSeq(live)[n])]
    /\ job' = [job EXCEPT ![j].at = "announce"]
    /\ UNCHANGED <<users, nextWd, pending, placed, signals, view>>

Announce(j) ==
    /\ Doing(j, "announce")
    /\ EmitDelete(job[j].rel)
    /\ job' = [job EXCEPT ![j] = Idle]
    /\ UNCHANGED <<users, kernel, tree, pending, placed, signals>>

\* The engine answers the overflow signal: a full resync reads both disks.
FullResync ==
    /\ resync
    /\ resync' = FALSE /\ view' = Exists
    /\ UNCHANGED <<users, kernel, tree, pending, placed, job, fatal, stopped, blind>>

UserStep ==
    \/ \E p \in Paths : Make(p) \/ Unlink(p) \/ MoveOut(p) \/ MoveIn(p)
    \/ \E p, q \in Paths : Rename(p, q)
    \/ LoseRoot

LoopStep == HandleOverflow \/ HandleIgnored \/ HandleResidual \/ HandleCreate
            \/ HandleDelete \/ HandleMoved \/ Pair \/ Wait

JobStep(j) == \/ WalkAdd(j) \/ WalkWatch(j) \/ WalkRegister(j) \/ WalkSkip(j) \/ WalkRead(j)
              \/ WalkDone(j) \/ ScanVisit(j) \/ Unwatch(j) \/ Announce(j)

Next == \/ UserStep \/ LoopStep \/ LoopEnds \/ FullResync
        \/ \E c \in Cookies : TimerFires(c)
        \/ \E j \in Jobs : JobStep(j)

\* Goroutines that can run do run, and timers expire.
Fairness == /\ WF_vars(LoopStep) /\ WF_vars(FullResync)
            /\ \A c \in Cookies : WF_vars(TimerFires(c))
            /\ \A j \in Jobs : WF_vars(JobStep(j))

Spec == Init /\ [][Next]_vars /\ Fairness

-------------------------------------------------------------------------------
\* Types of the watcher's, the kernel's and the disk's state.
TypeOK ==
    /\ disk \in [Paths -> {None, FileEntry} \cup Inodes]
    /\ mark \in [Inodes -> 0..MaxWd] /\ nextWd \in 1..(MaxWd + 1)
    /\ kq \in Seq(Notice)
    /\ byWd \in [Wds -> AnyPath]
    /\ byPath \in [DirPaths -> 0..MaxWd]
    /\ pending \in [Cookies -> Half]
    /\ job \in [Jobs -> Task] /\ placed \in [Jobs -> 0..MaxWd]
    /\ view \subseteq Paths /\ ops \in 0..MaxOps
    /\ rootGone \in BOOLEAN /\ resync \in BOOLEAN /\ fatal \in BOOLEAN /\ stopped \in BOOLEAN
    /\ blind \in BOOLEAN

\* A path in byPath leads to a descriptor that leads back to it, so no two paths share
\* one, and removing or renaming a subtree takes exactly the descriptors of its paths.
\* One direction only: byWd may keep a descriptor its path no longer has.
Registry == \A p \in DirPaths : byPath[p] # None => byWd[byPath[p]] = p

\* Once the watcher has caught up, every directory is watched under the path
\* it has now, and nothing else is registered; or the failure was raised.  At
\* the limit a directory may be unwatched, but is never taken for another one.
Watched ==
    Quiet /\ ~stopped => IF rootGone THEN fatal
             ELSE \A p \in DirPaths :
                      IF IsDir(p) THEN byPath[p] = mark[disk[p]] /\ (byPath[p] # None \/ blind)
                      ELSE byPath[p] = None

\* Once the watcher has caught up, the events add up to the disk: nothing
\* that appeared goes unannounced, nothing that is gone stays.
Announced == Quiet /\ ~rootGone /\ ~stopped /\ ~blind => view = Exists

\* Nobody is on the way to a send when w.out is closed.
NoSendOnClosed == stopped => \A j \in Jobs : job[j] = Idle

===============================================================================
