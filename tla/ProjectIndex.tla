---------------------------- MODULE ProjectIndex ----------------------------
(***************************************************************************)
(* The index of the open project (electron/projectIndex/coordinator.cts):  *)
(* a scan of its files that is loaded from a manifest or made anew,        *)
(* validated against the disk, and kept up to date by deltas for the files *)
(* a watcher reports.  Everything that awaits is a job here; jobs of the   *)
(* project before go on after a switch, and find out for themselves.       *)
(*                                                                         *)
(* Of a file only its version counts, 0 standing for a file that is not    *)
(* there; stat tells versions apart (mtime and size).  A stat or a read    *)
(* that fails is taken for a file that is not there.                       *)
(***************************************************************************)
EXTENDS OpenProject

CONSTANTS
  Files,        \* numbers: a scan or a delta reads them in this order
  Jobs,         \* 1..n: bound on the jobs of a behaviour
  Flushes,      \* 1..n: bound on the flushes of watchers under way at once
  MaxChanges,   \* bound: changes of files on disk, and stats and reads that fail
  Reopens       \* whether a project may be opened again

ASSUME IndexAssumption ==
  /\ Files \subseteq Nat
  /\ Jobs \subseteq Nat \ {0}
  /\ None \notin Jobs
  /\ Flushes \subseteq Nat
  /\ MaxChanges \in Nat
  /\ Reopens \in BOOLEAN

VARIABLES
  disk,         \* [Roots -> [Files -> Nat]]
  changes,      \* counts what MaxChanges bounds
  manifest,     \* [Roots -> Manifests \cup {None}]
  indexRoot,    \* activeRoot
  currentScan,  \* what is served: [of : root, files : versions], or None
  validating,
  deltaTail,    \* the last job of the delta chain, or None
  watchers,     \* the activations whose watcher is open
  stopWatcher,  \* the activation whose watcher a stop closes, or None
  touched,      \* [Roots -> SUBSET Files]: the files pending in the watchers
  flush,        \* [Flushes -> Flush]: what a watcher has taken to report
  job,          \* [Jobs -> Job]
  crossed,      \* history: a project was opened or scanned again under its own jobs
  missed        \* history: <<root, file>> nothing need look at again: not in the
                \* manifest served, stamped there with a version that was not
                \* read, served by a scan and a delta that raced, reported as
                \* gone after it was back, or lost by a read that failed

indexVars == <<disk, changes, manifest, indexRoot, currentScan, validating, deltaTail,
               watchers, stopWatcher, touched, flush, job, crossed, missed>>

Versions == [Files -> 0..MaxChanges + 1]
Scan == [of : Roots, files : Versions]
Manifests == [scan : Scan, stamps : Versions]

ASSUME ManifestAssumption == None \notin Manifests \cup Scan

JobKind == {"free", "load", "probe", "manifest", "check", "fix", "scan", "queued",
            "delta", "stamp", "save", "over"}

\* todo: files to read; scan: what it works on; stamps: what stat said of it;
\* validates: it is a backgroundValidate; before: the delta it comes after.
Job == [kind : JobKind, root : Roots \cup {None}, todo : SUBSET Files,
        scan : Scan \cup {None}, stamps : Versions, touches : SUBSET Files,
        validates : BOOLEAN, before : Jobs \cup {None}]

\* todo: files to stat; deleted: files that the stat has not found.
Flush == [root : Roots \cup {None}, files : SUBSET Files, todo : SUBSET Files,
          deleted : SUBSET Files]

NoFlush == [root |-> None, files |-> {}, todo |-> {}, deleted |-> {}]

Nothing == [f \in Files |-> 0]

Idle == [kind |-> "free", root |-> None, todo |-> {}, scan |-> None,
         stamps |-> Nothing, touches |-> {}, validates |-> FALSE, before |-> None]

Saved(r, files) == [scan |-> [of |-> r, files |-> files], stamps |-> files]

\* A manifest may be of now, or of when the project was empty.
IndexInit ==
  /\ disk = [r \in Roots |-> [f \in Files |-> 1]]
  /\ changes = 0
  /\ \E kept \in [Roots -> {"none", "empty", "current"}] :
       manifest = [r \in Roots |-> CASE kept[r] = "none" -> None
                                     [] kept[r] = "empty" -> Saved(r, Nothing)
                                     [] OTHER -> Saved(r, disk[r])]
  /\ indexRoot = None
  /\ currentScan = None
  /\ validating = FALSE
  /\ deltaTail = None
  /\ watchers = {}
  /\ stopWatcher = None
  /\ touched = [r \in Roots |-> {}]
  /\ flush = [k \in Flushes |-> NoFlush]
  /\ job = [j \in Jobs |-> Idle]
  /\ crossed = FALSE
  /\ missed = {}

\* A job that is over keeps its project only.
Ended(j) == [Idle EXCEPT !.kind = "over", !.root = job[j].root]

Active(j) == job[j].kind \notin {"free", "over"}

Works(r) == \E j \in Jobs : Active(j) /\ job[j].root = r

\* The job that a call begins: the first that is free.
Fresh(j) == job[j].kind = "free" /\ \A i \in Jobs : i < j => job[i].kind # "free"

Watched(r) == \E w \in watchers : job[w].root = r

Flushing(r, f) == \E k \in Flushes : flush[k].root = r /\ f \in flush[k].files

\* The watchers have seen a change of the file and have not reported it.
Unreported(r, f) == f \in touched[r] \/ Flushing(r, f)

Listed(r, f) == manifest[r] # None /\ manifest[r].stamps[f] # 0

\* What a stat or a read of the file finds: its version, or nothing if it fails.
Finds(r, f, version) ==
  \/ version = disk[r][f] /\ UNCHANGED changes
  \/ /\ version = 0
     /\ disk[r][f] # 0
     /\ changes < MaxChanges
     /\ changes' = changes + 1

-----------------------------------------------------------------------------
(* Starting and stopping.                                                  *)

\* Seeded fault: the watcher is closed and still held.
StopIndex_keepsStop ==
  /\ watchers' = watchers \ {stopWatcher}
  /\ touched' = [r \in Roots |-> {}]
  /\ currentScan' = None
  /\ validating' = FALSE
  /\ deltaTail' = None
  /\ UNCHANGED stopWatcher

\* stopProjectIndex.  Jobs are not cancelled, nor a flush that has begun; what
\* is pending in the watcher is forgotten.
StopIndex ==
  /\ watchers' = watchers \ {stopWatcher}
  /\ stopWatcher' = None
  /\ touched' = [r \in Roots |->
       IF \E w \in watchers' : job[w].root = r THEN touched[r] ELSE {}]
  /\ currentScan' = None
  /\ validating' = FALSE
  /\ deltaTail' = None

\* activateProjectIndex up to its first await of the disk.
IndexOpened(r) ==
  /\ Reopens \/ \A j \in Jobs : job[j].root # r
  /\ StopIndex
  /\ indexRoot' = r
  /\ \E j \in Jobs :
       /\ Fresh(j)
       /\ job' = [job EXCEPT ![j] = [Idle EXCEPT !.kind = "load", !.root = r]]
  /\ crossed' = (crossed \/ Works(r) \/ \E j \in Jobs : job[j].kind = "probe")
  /\ UNCHANGED <<disk, changes, manifest, flush, missed>>

\* The process ends: manifests and files stay.
IndexRestarted ==
  /\ StopIndex
  /\ indexRoot' = None
  /\ job' = [j \in Jobs |-> IF job[j].kind = "free" THEN Idle ELSE Ended(j)]
  /\ flush' = [k \in Flushes |-> NoFlush]
  /\ UNCHANGED <<disk, changes, manifest, crossed, missed>>

StartWatcher(j) ==
  /\ watchers' = watchers \cup {j}
  /\ stopWatcher' = j

\* fullRescan, called by an activation or a validation.
BeginsScan(j) ==
  /\ job' = [job EXCEPT ![j].kind = "scan", ![j].todo = Files,
                        ![j].scan = [of |-> job[j].root, files |-> Nothing]]

\* The manifest is served at once; backgroundValidate begins unless one runs.
\* It looks at the files of the manifest, so one that was added is not found.
ServesManifest(j) ==
  LET r == job[j].root
  IN  /\ currentScan' = manifest[r].scan
      /\ missed' = missed \cup
           {<<r, f>> : f \in {g \in Files : /\ ~Listed(r, g)
                                            /\ manifest[r].scan.files[g] # disk[r][g]}}
      /\ IF validating \/ indexRoot # r
         THEN job' = [job EXCEPT ![j] = Ended(j)] /\ UNCHANGED validating
         ELSE /\ job' = [job EXCEPT ![j].kind = "manifest", ![j].validates = TRUE]
              /\ validating' = TRUE

Loaded(j) ==
  /\ job[j].kind = "load"
  /\ LET r == job[j].root
     IN  \/ /\ indexRoot # r
            /\ job' = [job EXCEPT ![j] = Ended(j)]
            /\ UNCHANGED <<currentScan, validating, missed, watchers, stopWatcher>>
         \/ /\ indexRoot = r
            /\ manifest[r] = None
            /\ BeginsScan(j)
            /\ StartWatcher(j)
            /\ UNCHANGED <<currentScan, validating, missed>>
         \/ /\ indexRoot = r
            /\ manifest[r] # None
            /\ IF manifest[r].scan.files = Nothing
               THEN /\ job' = [job EXCEPT ![j].kind = "probe"]
                    /\ UNCHANGED <<currentScan, validating, missed, watchers, stopWatcher>>
               ELSE ServesManifest(j) /\ StartWatcher(j)
  /\ UNCHANGED <<disk, changes, manifest, indexRoot, deltaTail, touched, flush, crossed>>

\* A manifest without source files: is there an application by now?  The root
\* is not looked at again before the answer is acted on.
Probed(j) ==
  /\ job[j].kind = "probe"
  /\ IF disk[job[j].root] # Nothing
     THEN BeginsScan(j) /\ UNCHANGED <<currentScan, validating, missed>>
     ELSE ServesManifest(j)
  /\ IF indexRoot = job[j].root THEN StartWatcher(j)
                                ELSE UNCHANGED <<watchers, stopWatcher>>
  /\ UNCHANGED <<disk, changes, manifest, indexRoot, deltaTail, touched, flush, crossed>>

\* project:rescan.
RescanCalled ==
  /\ indexRoot # None
  /\ \E j \in Jobs :
       /\ Fresh(j)
       /\ job' = [job EXCEPT ![j] =
            [Idle EXCEPT !.kind = "scan", !.root = indexRoot, !.todo = Files,
                         !.scan = [of |-> indexRoot, files |-> Nothing]]]
  /\ crossed' = (crossed \/ Works(indexRoot))
  /\ UNCHANGED <<disk, changes, manifest, indexRoot, currentScan, validating,
                 deltaTail, watchers, stopWatcher, touched, flush, missed>>

-----------------------------------------------------------------------------
(* Reading and committing.                                                 *)

\* applyScanDelta on what is served now: files known to be gone are taken
\* out, the others are read one after the other.
Applies(j, kind) ==
  LET gone == {f \in job[j].touches : job[j].stamps[f] = 0}
  IN  job' = [job EXCEPT
        ![j].kind = kind,
        ![j].todo = job[j].touches \ gone,
        ![j].scan = [of |-> currentScan.of,
                     files |-> [f \in Files |->
                                  IF f \in gone THEN 0 ELSE currentScan.files[f]]]]

\* A job reads its next file; a validation stats its files in any order.  A
\* file whose stat or read fails counts as deleted and is left out of the scan.
ReadFile(j, f) ==
  /\ job[j].kind \in {"scan", "fix", "delta", "check"}
  /\ f \in job[j].todo
  /\ job[j].kind = "check" \/ \A g \in job[j].todo : f <= g
  /\ \E version \in {0, disk[job[j].root][f]} :
       /\ Finds(job[j].root, f, version)
       /\ job' = IF job[j].kind = "check"
                 THEN [job EXCEPT ![j].todo = @ \ {f}, ![j].stamps[f] = version,
                                  ![j].touches = IF version = job[j].stamps[f]
                                                 THEN @ ELSE @ \cup {f}]
                 ELSE [job EXCEPT ![j].todo = @ \ {f}, ![j].scan.files[f] = version]
       /\ missed' = IF version = disk[job[j].root][f] THEN missed
                                                    ELSE missed \cup {<<job[j].root, f>>}
  /\ UNCHANGED <<disk, manifest, indexRoot, currentScan, validating, deltaTail,
                 watchers, stopWatcher, touched, flush, crossed>>

\* A job is over; a validation is then no longer running, whoever's it is.
Over(j) ==
  /\ job' = [job EXCEPT ![j] = Ended(j)]
  /\ validating' = (validating /\ ~job[j].validates)

\* Seeded fault: the root is not looked at after the scan.
StillOpen_unchecked(j) == indexRoot # None

StillOpen(j) == indexRoot = job[j].root

IsDelta(j) == job[j].touches # {} /\ ~job[j].validates

\* Files that another job of the project is about to serve as they were before
\* j: a scan or a validation overtakes a delta, or the other way round.
Overwritten(j) ==
  {f \in Files : \E i \in Jobs :
     /\ job[i].root = job[j].root
     /\ job[i].kind \in {"scan", "fix", "delta"}
     /\ ~(IsDelta(i) /\ IsDelta(j))
     /\ f \notin job[i].todo
     /\ job[i].scan.files[f] # job[j].scan.files[f]}

\* setScan, and the delta's commit: served now, persisted next.
Commit(j) ==
  /\ job[j].kind \in {"scan", "fix", "delta"}
  /\ job[j].todo = {}
  /\ IF ~StillOpen(j)
     THEN Over(j) /\ UNCHANGED <<currentScan, missed>>
     ELSE /\ currentScan' = job[j].scan
          /\ job' = [job EXCEPT ![j].kind = "stamp"]
          /\ missed' = missed \cup ({job[j].root} \X Overwritten(j))
          /\ UNCHANGED validating
  /\ UNCHANGED <<disk, changes, manifest, indexRoot, deltaTail, watchers, stopWatcher,
                 touched, flush, crossed>>

\* scanProject throws.
ScanFails(j) ==
  /\ job[j].kind = "scan"
  /\ Over(j)
  /\ missed' = missed \cup ({job[j].root} \X Files)
  /\ UNCHANGED <<disk, changes, manifest, indexRoot, currentScan, deltaTail,
                 watchers, stopWatcher, touched, flush, crossed>>

\* A change of the file is still to be reported or read, more than deltas is
\* under way for the project, or a newer scan is served by now.
Pending(j, f) ==
  LET r == job[j].root
  IN  \/ Unreported(r, f)
      \/ \E i \in Jobs :
           /\ Active(i) /\ job[i].root = r
           /\ (i # j /\ f \in job[i].touches) \/ ~IsDelta(i)
      \/ currentScan # job[j].scan

\* stampManifestFiles: a file whose stat fails is not listed.
Stamps(j, lost) ==
  [f \in Files |-> IF job[j].scan.files[f] = 0 \/ f \in lost THEN 0
                   ELSE disk[job[j].root][f]]

\* saveManifest: stat every file of the scan, then write the manifest.  The
\* stamps may be newer than what the scan has read.
Stamp(j) ==
  /\ job[j].kind = "stamp"
  /\ LET r == job[j].root
         read == job[j].scan.files
     IN  \E lost \in SUBSET {f \in Files : read[f] # 0 /\ disk[r][f] # 0} :
           /\ \/ lost = {} /\ UNCHANGED changes
              \/ lost # {} /\ changes < MaxChanges /\ changes' = changes + 1
           /\ job' = [job EXCEPT ![j].kind = "save", ![j].stamps = Stamps(j, lost)]
           /\ missed' = missed \cup
                {<<r, f>> : f \in {g \in Files : read[g] # disk[r][g] /\ Pending(j, g)}}
  /\ UNCHANGED <<disk, manifest, indexRoot, currentScan, validating, deltaTail,
                 watchers, stopWatcher, touched, flush, crossed>>

Save(j) ==
  /\ job[j].kind = "save"
  /\ manifest' = [manifest EXCEPT ![job[j].root] =
       [scan |-> job[j].scan, stamps |-> job[j].stamps]]
  /\ Over(j)
  /\ UNCHANGED <<disk, changes, indexRoot, currentScan, deltaTail, watchers,
                 stopWatcher, touched, flush, crossed, missed>>

SaveFails(j) ==
  /\ job[j].kind = "save"
  /\ Over(j)
  /\ UNCHANGED <<disk, changes, manifest, indexRoot, currentScan, deltaTail,
                 watchers, stopWatcher, touched, flush, crossed, missed>>

-----------------------------------------------------------------------------
(* Validating.                                                             *)

\* backgroundValidate has loaded the manifest again.
ManifestRead(j) ==
  /\ job[j].kind = "manifest"
  /\ LET r == job[j].root
     IN  IF manifest[r] = None \/ indexRoot # r
         THEN Over(j)
         ELSE /\ job' = [job EXCEPT ![j].kind = "check",
                           ![j].stamps = manifest[r].stamps,
                           ![j].todo = {f \in Files : Listed(r, f)}]
              /\ UNCHANGED validating
  /\ UNCHANGED <<disk, changes, manifest, indexRoot, currentScan, deltaTail,
                 watchers, stopWatcher, touched, flush, crossed, missed>>

\* validateManifestEntries is over: nothing has drifted; a few files have,
\* which are read again on top of what is served now; or many have, and the
\* project is scanned.  Which project is open by now is not asked.
Checked(j) ==
  /\ job[j].kind = "check"
  /\ job[j].todo = {}
  /\ \/ /\ job[j].touches = {}
        /\ job[j].stamps # Nothing
        /\ Over(j)
     \/ /\ job[j].touches # {}
        /\ currentScan # None
        /\ Applies(j, "fix")
        /\ UNCHANGED validating
     \/ /\ job[j].touches # {} \/ job[j].stamps = Nothing
        /\ BeginsScan(j)
        /\ UNCHANGED validating
  /\ UNCHANGED <<disk, changes, manifest, indexRoot, currentScan, deltaTail,
                 watchers, stopWatcher, touched, flush, crossed, missed>>

-----------------------------------------------------------------------------
(* Deltas.                                                                 *)

\* enqueueDelta: chained.  A file the batch has as deleted is taken out unread.
EnqueueDelta(r, F, deleted) ==
  \E j \in Jobs :
    /\ Fresh(j)
    /\ job' = [job EXCEPT ![j] =
         [Idle EXCEPT !.kind = "queued", !.root = r, !.touches = F,
                      !.stamps = [f \in Files |-> IF f \in deleted THEN 0 ELSE 1],
                      !.before = deltaTail]]
    /\ deltaTail' = j

\* The watcher's debounce is over: flush takes what is pending.
FlushBegins(r) ==
  /\ touched[r] # {}
  /\ Watched(r)
  /\ \E k \in Flushes :
       /\ flush[k].root = None
       /\ \A i \in Flushes : i < k => flush[i].root # None
       /\ flush' = [flush EXCEPT ![k] = [NoFlush EXCEPT !.root = r, !.files = touched[r],
                                                       !.todo = touched[r]]]
  /\ touched' = [touched EXCEPT ![r] = {}]
  /\ UNCHANGED <<disk, changes, manifest, indexRoot, currentScan, validating, deltaTail,
                 watchers, stopWatcher, job, crossed, missed>>

\* One await of its loop.
StatTouched(k, f) ==
  /\ f \in flush[k].todo
  /\ \E version \in {0, disk[flush[k].root][f]} :
       /\ Finds(flush[k].root, f, version)
       /\ flush' = [flush EXCEPT ![k].todo = @ \ {f},
                                 ![k].deleted = IF version = 0 THEN @ \cup {f} ELSE @]
  /\ UNCHANGED <<disk, manifest, indexRoot, currentScan, validating, deltaTail, watchers,
                 stopWatcher, touched, job, crossed, missed>>

\* Files that a flush hands over as deleted and that are on disk, as a newer
\* flush has said before it or as the stat has failed.
Revived(k) ==
  {f \in flush[k].deleted :
     /\ disk[flush[k].root][f] # 0
     /\ f \notin touched[flush[k].root]
     /\ \A i \in Flushes \ {k} : flush[i].root = flush[k].root => f \notin flush[i].files}

\* onBatch, whether the watcher is closed by now or not; the batch is dropped
\* without a scan of the project to apply it to.
FlushEnds(k) ==
  /\ flush[k].root # None
  /\ flush[k].todo = {}
  /\ flush' = [flush EXCEPT ![k] = NoFlush]
  /\ IF currentScan = None \/ indexRoot # flush[k].root
     THEN UNCHANGED <<job, deltaTail, missed>>
     ELSE /\ EnqueueDelta(flush[k].root, flush[k].files, flush[k].deleted)
          /\ missed' = missed \cup ({flush[k].root} \X Revived(k))
  /\ UNCHANGED <<disk, changes, manifest, indexRoot, currentScan, validating, watchers,
                 stopWatcher, touched, crossed>>

\* Seeded fault: the next delta of the chain starts from the scan it was
\* queued with, not from what the one before has made of it.
MayStart_unchained(j) == TRUE

MayStart(j) == job[j].before \in {i \in Jobs : ~Active(i)} \cup {None}

DeltaStarts(j) ==
  /\ job[j].kind = "queued"
  /\ MayStart(j)
  /\ IF currentScan = None \/ indexRoot # job[j].root
     THEN Over(j)
     ELSE Applies(j, "delta") /\ UNCHANGED validating
  /\ UNCHANGED <<disk, changes, manifest, indexRoot, currentScan, deltaTail,
                 watchers, stopWatcher, touched, flush, crossed,
                 missed>>

\* Anybody changes, adds or deletes a file.  The watchers see it; a job that
\* is under way for the project may have read the file already.
FileChanges(r, f) ==
  /\ changes < MaxChanges
  /\ changes' = changes + 1
  /\ \E version \in {0, changes + 2} :
       /\ version # disk[r][f]
       /\ disk' = [disk EXCEPT ![r][f] = version]
  /\ touched' = IF Watched(r) THEN [touched EXCEPT ![r] = @ \cup {f}] ELSE touched
  /\ UNCHANGED <<manifest, indexRoot, currentScan, validating, deltaTail,
                 watchers, stopWatcher, flush, job, crossed, missed>>

IndexStep ==
  \/ \E j \in Jobs :
       \/ Loaded(j) \/ Probed(j) \/ ManifestRead(j) \/ Checked(j) \/ Commit(j)
       \/ ScanFails(j) \/ Stamp(j) \/ Save(j) \/ SaveFails(j) \/ DeltaStarts(j)
       \/ \E f \in Files : ReadFile(j, f)
  \/ \E r \in Roots : FlushBegins(r) \/ \E f \in Files : FileChanges(r, f)
  \/ \E k \in Flushes : FlushEnds(k) \/ \E f \in Files : StatTouched(k, f)
  \/ RescanCalled

IndexNext ==
  \/ IndexStep /\ UNCHANGED projectVars
  \/ \E r \in Roots : Opens(r) /\ IndexOpened(r)
  \/ Restarts /\ IndexRestarted

IndexSpec == ProjectInit /\ IndexInit /\ [][IndexNext]_<<projectVars, indexVars>>
-----------------------------------------------------------------------------
IndexTypeOK ==
  /\ disk \in [Roots -> Versions]
  /\ changes \in 0..MaxChanges
  /\ manifest \in [Roots -> Manifests \cup {None}]
  /\ indexRoot \in Roots \cup {None}
  /\ currentScan \in Scan \cup {None}
  /\ validating \in BOOLEAN
  /\ deltaTail \in Jobs \cup {None}
  /\ watchers \subseteq Jobs
  /\ stopWatcher \in watchers \cup {None}
  /\ touched \in [Roots -> SUBSET Files]
  /\ flush \in [Flushes -> Flush]
  /\ job \in [Jobs -> Job]

(* What is served is a scan of the open project, whatever jobs of projects *)
(* before it are still under way.  The root checks after the awaits of the *)
(* coordinator give this, unless a project is opened again before its own  *)
(* jobs are over, or while the folder of an empty one is probed.           *)
IndexServesOpenProject ==
  currentScan # None /\ ~crossed => currentScan.of = indexRoot

(* An index with nothing left to do serves what is on disk: after scans,   *)
(* validations, overlapping flushes, deltas and manifests of earlier       *)
(* sessions in any order.  Excepted are the files that saveManifest stamps *)
(* with a version it has not read, that a scan and a delta race for, that  *)
(* the manifest never listed, that a flush hands over as deleted after a   *)
(* newer one has reported them back (projectWatcher.cts:48-71), and whose  *)
(* stat or read fails (enqueueDelta's chain, backgroundValidate, setScan). *)
IndexUpToDate ==
  /\ indexRoot # None /\ currentScan # None /\ ~crossed
  /\ Watched(indexRoot) /\ \A f \in Files : ~Unreported(indexRoot, f)
  /\ ~Works(indexRoot)
  => \A f \in Files :
       <<indexRoot, f>> \in missed \/ currentScan.files[f] = disk[indexRoot][f]
==============================================================================
