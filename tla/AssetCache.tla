------------------------------ MODULE AssetCache ------------------------------
(***************************************************************************)
(* One entry of the asset cache that the daemons of a host share           *)
(* (client/src/assets.rs): daemons that download it and keep a lease while *)
(* they run, the upload that stores a copy of it, and evictions on behalf  *)
(* of other assets.  They meet only in the file system: the entry, its     *)
(* .part directory and its lock file.                                      *)
(*                                                                         *)
(* A lock is a flock on the inode that the open found.  Eviction removes   *)
(* the lock file, so an inode that is open may no longer be the one at the *)
(* lock's path.                                                            *)
(***************************************************************************)
EXTENDS Integers, FiniteSets, FiniteSetsExt

CONSTANTS
    Downloaders,  \* daemons that prefetch the asset
    Stores,       \* the upload that puts the asset into the cache, if any
    Evictors,     \* fills of other assets that make room
    Evictions,    \* evictions begun in all (bound)
    Deaths        \* daemons that fail or die and removals that fail, in all (bound)

Processes == Downloaders \cup Stores \cup Evictors
None == 0

(* An entry is named by the ID of its asset, which is new for every save:  *)
(* one upload at most stores it.                                           *)
ASSUME AssetCacheAssumption ==
    /\ IsFiniteSet(Processes) /\ None \notin Processes
    /\ \A s, t \in Stores : s = t
    /\ Downloaders \cap Stores = {} /\ (Downloaders \cup Stores) \cap Evictors = {}
    /\ Evictions \in Nat /\ Deaths \in Nat

(* Every process has one lock file open at most, and one is at the path.   *)
Inodes == 1 .. Cardinality(Processes) + 1

VARIABLES
    entry,     \* the published directory: none, partial, whole, or damaged,
               \* when its removal has begun and it may lack some of its files
    part,      \* the .part directory: who made it, or has begun to remove it
               \* (or None), and if complete
    lockFile,  \* the inode at the lock's path, or None
    proc,      \* per process: where it is, the inode it has open, its lock
    evictions, deaths,
    unsafe     \* history: evictions "between" two locks of a download, and
               \* evictions that came "late", under a lock file already removed

entryVars == <<entry, part, lockFile, proc, evictions, deaths, unsafe>>

NoPart == [by |-> None, whole |-> FALSE]
Closed(at) == [at |-> at, inode |-> None, lock |-> "none"]

EntryTypeOK ==
    /\ entry \in {"none", "partial", "whole", "damaged"}
    /\ part \in [by : Processes \cup {None}, whole : BOOLEAN]
    /\ lockFile \in Inodes \cup {None}
    /\ proc \in [Processes -> [
           at : {"start", "opened", "wait", "found", "fill", "rename", "share",
                 "relock", "leased", "entry", "part", "clear_entry", "clear_part",
                 "unlink", "done", "failed"},
           inode : Inodes \cup {None}, lock : {"none", "shared", "exclusive"}]]
    /\ evictions \in 0 .. Evictions /\ deaths \in 0 .. Deaths
    /\ unsafe \subseteq {"between", "late"}

(* A daemon may have died before and left its .part behind, or the entry   *)
(* that it was removing.                                                   *)
EntryInit ==
    /\ entry \in {"none", "whole", "damaged"}
    /\ part \in {NoPart} \cup [by : Processes, whole : BOOLEAN]
    /\ lockFile = None
    /\ proc = [p \in Processes |-> Closed("start")]
    /\ evictions = 0 /\ deaths = 0 /\ unsafe = {}

(***************************************************************************)
(* The lock file                                                           *)
(***************************************************************************)
InUse == {lockFile} \cup {proc[p].inode : p \in Processes}
Opened == IF lockFile # None THEN lockFile ELSE Min(Inodes \ InUse)

OpenLock(p, at) ==
    /\ lockFile' = Opened
    /\ proc' = [proc EXCEPT ![p] = [at |-> at, inode |-> Opened, lock |-> "none"]]

Others(p) == {q \in Processes \ {p} : proc[q].inode = proc[p].inode}
CanShare(p) == \A q \in Others(p) : proc[q].lock # "exclusive"
(* A mutation of CanExclude: nobody may so much as have the file open.     *)
NobodyElse(p) == Others(p) = {}

CanExclude(p) == \A q \in Others(p) : proc[q].lock = "none"

(* A mutation of Current: the lock is taken on whatever was opened.        *)
AnyInode(p) == TRUE

(* The inode that was locked is still the one at the path.                 *)
Current(p) == proc[p].inode = lockFile

Open(p) ==
    /\ p \in Downloaders \cup Stores /\ proc[p].at = "start"
    /\ OpenLock(p, "opened")
    /\ UNCHANGED <<entry, part, evictions, deaths, unsafe>>

(***************************************************************************)
(* download                                                                *)
(***************************************************************************)
Goto(p, at) == proc' = [proc EXCEPT ![p].at = at]

(* lock(), and its lock given up again; or once more for another inode.    *)
Lock(d) ==
    /\ d \in Downloaders /\ proc[d].at = "opened" /\ CanShare(d)
    /\ proc' = [proc EXCEPT ![d] =
                   IF Current(d) THEN [@ EXCEPT !.at = "wait"] ELSE Closed("start")]
    /\ UNCHANGED <<entry, part, lockFile, evictions, deaths, unsafe>>

(* Until the entry is there or nobody else holds a lock.                   *)
Wait(d) ==
    /\ proc[d].at = "wait"
    /\ \/ entry # "none" /\ Goto(d, "found")
       \/ /\ entry = "none" /\ CanExclude(d)
          /\ proc' = [proc EXCEPT ![d].at = "found", ![d].lock = "exclusive"]
    /\ UNCHANGED <<entry, part, lockFile, evictions, deaths, unsafe>>

(* If the entry is missing a new .part is made, the old one removed.       *)
Find(d) ==
    /\ proc[d].at = "found"
    /\ \/ entry # "none" /\ Goto(d, "share") /\ UNCHANGED part
       \/ entry = "none" /\ Goto(d, "fill") /\ part' = [by |-> d, whole |-> FALSE]
    /\ UNCHANGED <<entry, lockFile, evictions, deaths, unsafe>>

(* All ranges are unpacked and the hash is right; what was written is in   *)
(* the .part this process made, if that is still there.                    *)
Fill(p) ==
    /\ proc[p].at = "fill"
    /\ part' = IF part.by = p THEN [part EXCEPT !.whole = TRUE] ELSE part
    /\ Goto(p, "rename")
    /\ UNCHANGED <<entry, lockFile, evictions, deaths, unsafe>>

(* A directory is not renamed over another one that has anything in it.    *)
Rename(p) ==
    /\ proc[p].at = "rename"
    /\ \/ /\ part.by # None /\ entry \in {"none", "damaged"}
          /\ entry' = IF part.whole THEN "whole" ELSE "partial"
          /\ part' = NoPart
          /\ proc' = [proc EXCEPT ![p] =
                         IF p \in Stores THEN Closed("done") ELSE [@ EXCEPT !.at = "share"]]
       \/ /\ part.by = None \/ entry # "none"
          /\ proc' = [proc EXCEPT ![p] = Closed("failed")]
          /\ UNCHANGED <<entry, part>>
    /\ UNCHANGED <<lockFile, evictions, deaths, unsafe>>

(* lock_shared on a file that may be locked exclusively drops that lock    *)
(* and takes the other.                                                    *)
Downgrade(d) ==
    /\ proc[d].at = "share"
    /\ proc' = [proc EXCEPT ![d].at = "relock", ![d].lock = "none"]
    /\ UNCHANGED <<entry, part, lockFile, evictions, deaths, unsafe>>

(* The lease, if the entry could be touched; or everything again.          *)
Share(d) ==
    /\ proc[d].at = "relock" /\ CanShare(d)
    /\ proc' = [proc EXCEPT ![d] =
                   IF entry # "none" THEN [@ EXCEPT !.at = "leased", !.lock = "shared"]
                   ELSE Closed("start")]
    /\ UNCHANGED <<entry, part, lockFile, evictions, deaths, unsafe>>

(* The daemon ends and drops its lease.                                    *)
Close(d) ==
    /\ proc[d].at = "leased"
    /\ proc' = [proc EXCEPT ![d] = Closed("done")]
    /\ UNCHANGED <<entry, part, lockFile, evictions, deaths, unsafe>>

(* store(): the shared lock is kept while the copy is made.                *)
Store(s) ==
    /\ s \in Stores /\ proc[s].at = "opened" /\ CanShare(s)
    /\ \/ ~Current(s) /\ proc' = [proc EXCEPT ![s] = Closed("start")] /\ UNCHANGED part
       \/ /\ Current(s) /\ entry # "none"
          /\ proc' = [proc EXCEPT ![s] = Closed("done")] /\ UNCHANGED part
       \/ /\ Current(s) /\ entry = "none"
          /\ part' = [by |-> s, whole |-> FALSE]
          /\ proc' = [proc EXCEPT ![s].at = "fill", ![s].lock = "shared"]
    /\ UNCHANGED <<entry, lockFile, evictions, deaths, unsafe>>

(* The download fails, or the daemon dies, also one that evicts: its locks *)
(* go, its .part and what it was removing stay as they are.                *)
Die(p) ==
    /\ deaths < Deaths /\ deaths' = deaths + 1
    /\ proc[p].at \notin {"start", "done", "failed"}
    /\ proc' = [proc EXCEPT ![p] = Closed("failed")]
    /\ UNCHANGED <<entry, part, lockFile, evictions, unsafe>>

(***************************************************************************)
(* evict: the entry or a .part was listed, its lock file is opened         *)
(***************************************************************************)
OpenVictim(e) ==
    /\ e \in Evictors /\ proc[e].at = "start" /\ evictions < Evictions
    /\ \/ entry # "none" /\ OpenLock(e, "entry")
       \/ part.by # None /\ OpenLock(e, "part")
    /\ evictions' = evictions + 1
    /\ UNCHANGED <<entry, part, deaths, unsafe>>

(* A download past the check of lock() and without a lock will not look at *)
(* the lock's path again.                                                  *)
BetweenLocks(e) ==
    \E d \in Others(e) \cap Downloaders : proc[d].at # "opened" /\ proc[d].lock = "none"

Risks(e) == (IF BetweenLocks(e) THEN {"between"} ELSE {})
            \cup (IF Current(e) THEN {} ELSE {"late"})

(* Passed over if somebody holds a lock, or the directory is gone; that    *)
(* the inode is still at the path is not looked at.                        *)
RemoveVictim(e) ==
    /\ e \in Evictors /\ proc[e].at \in {"entry", "part"}
    /\ LET there == IF proc[e].at = "entry" THEN entry # "none" ELSE part.by # None IN
       \/ /\ ~CanExclude(e) \/ ~there
          /\ proc' = [proc EXCEPT ![e] = Closed("start")]
          /\ UNCHANGED <<entry, part, unsafe>>
       \/ /\ CanExclude(e) /\ there
          /\ unsafe' = unsafe \cup Risks(e)
          /\ entry' = IF proc[e].at = "entry" THEN "damaged" ELSE entry
          /\ part' = IF proc[e].at = "part" THEN [by |-> e, whole |-> FALSE] ELSE part
          /\ proc' = [proc EXCEPT ![e].at = IF @ = "entry" THEN "clear_entry" ELSE "clear_part",
                                  ![e].lock = "exclusive"]
    /\ UNCHANGED <<lockFile, evictions, deaths>>

Clearing == {"clear_entry", "clear_part"}

(* remove_dir_all has removed the last of it; or it fails, and the rest of *)
(* the directory is left where it was, without a lock.                     *)
Removed(e) ==
    /\ proc[e].at \in Clearing
    /\ entry' = IF proc[e].at = "clear_entry" THEN "none" ELSE entry
    /\ part' = IF proc[e].at = "clear_part" THEN NoPart ELSE part
    /\ Goto(e, "unlink")
    /\ UNCHANGED <<lockFile, evictions, deaths, unsafe>>

RemovalFails(e) ==
    /\ deaths < Deaths /\ deaths' = deaths + 1
    /\ proc[e].at \in Clearing
    /\ proc' = [proc EXCEPT ![e] = Closed("start")]
    /\ UNCHANGED <<entry, part, lockFile, evictions, unsafe>>

RemoveLockFile(e) ==
    /\ proc[e].at = "unlink"
    /\ lockFile' = None
    /\ proc' = [proc EXCEPT ![e] = Closed("start")]
    /\ UNCHANGED <<entry, part, evictions, deaths, unsafe>>

Step(p) ==
    \/ Open(p) \/ Lock(p) \/ Wait(p) \/ Find(p) \/ Fill(p) \/ Rename(p)
    \/ Downgrade(p) \/ Share(p) \/ Store(p)
    \/ RemoveVictim(p) \/ Removed(p) \/ RemoveLockFile(p)

EntryNext ==
    \E p \in Processes :
        Step(p) \/ Close(p) \/ Die(p) \/ OpenVictim(p) \/ RemovalFails(p)

EntrySpec == EntryInit /\ [][EntryNext]_entryVars

(* Every process goes on, a lock that can be had is had; daemons run as    *)
(* long as they like, and nothing has to fail or to be evicted.            *)
EntryFairSpec == EntrySpec /\ \A p \in Processes : WF_entryVars(Step(p))

(***************************************************************************)
(* Properties                                                              *)
(***************************************************************************)
Leased(d) == proc[d].at = "leased"

(* docs/architecture.md: "In-use entries are never evicted."               *)
InUseNeverEvicted == \A d \in Downloaders : Leased(d) => entry # "none"

(* Nobody works on the .part of another, so the asset is downloaded once   *)
(* for all daemons of the host.                                            *)
OneFiller == Cardinality({p \in Processes : proc[p].at \in {"fill", "rename"}}) <= 1

(* A daemon's asset is there and complete for as long as it has the lease, *)
(* and was filled by one process alone, whatever others download, store,   *)
(* evict or leave behind when they die.  Three things are excepted: that   *)
(* it was evicted while somebody was between giving up the lock of lock()  *)
(* and taking the next; that it was evicted under a lock file which        *)
(* another eviction had removed; and that its removal was cut off before   *)
(* the lease, for what is left of it is taken for the asset.               *)
LeftBehind == entry = "damaged" /\ \A e \in Evictors : proc[e].at # "clear_entry"

LeaseHolds ==
    unsafe = {} => OneFiller /\ \A d \in Downloaders :
                                  Leased(d) => entry = "whole" \/ LeftBehind

(* Every daemon gets its lease or its error, and no lock is waited for     *)
(* forever, neither that of a filler or an eviction which died nor one     *)
(* that was removed; with the first two exceptions.                        *)
WaitsEnd ==
    <>(unsafe # {} \/ \A d \in Downloaders : proc[d].at \in {"leased", "done", "failed"})
=============================================================================
