# BryantLabs Studio: a verification project

BryantLabs Studio is an Electron application that edits and generates
TypeScript projects with the help of language models. Its main process
(`electron/`) owns the disk, the child processes and the provider requests; its
renderer (`src/`) decides what to ask of it. Nearly everything between the two is
an asynchronous IPC handler, so the hard part of the program is not in its
algorithms but in what may happen between two `await`s: another handler, a
failing write, the user's own editor, a Stop, a project switch, a quit.

These TLA+ modules model that part: one action stands for what the code does
between two awaits, and every other actor may step in between. TLC checks the
modules on small instances; TLAPS proves the theorems for every value of the
constants.

Paths below are those of the repository.

## 1. Inventory

| component | state it keeps | operations | hard behaviour | what makes it correct |
|---|---|---|---|---|
| Undo transaction, `electron/undoTransaction.cts` | the running attempt: snapshots, the applied operations; the stored `attemptBasis` | `runUndoTransaction`, its compensation, a retry | a write fails after others succeeded; compensation fails as well; another program writes in between; a retry after such a failure | all or nothing, and whatever a failure left changed is named; a retry starts from the state the first attempt saw |
| Last-edit store, `electron/lastEditBatch.cts`, edit handlers of `main.cts` | the last batch and its basis | record, replace, clear, undo | an edit, an undo and a project switch overlap | an undo concerns the newest batch of the open project |
| Plan apply, `src/app/orchestration/applyPlanApply.ts`, `src/core/build/followUpCheckpoint.ts` | the loop over the approved files, the applied ones | apply, rollback of a partial apply, replacement of the undo batch | a file in the middle fails; the rollback fails; a run is superseded; the user saves meanwhile | a failed run leaves the project as it was; one undo takes back a successful one |
| File writer, `electron/fileWriter.cts`, `electron/safeFs.cts` | none | `applyEdit`, `createProjectFile`, `writeVerified` | a write fails half way; time passes between the comparison and the write | what it reports is what is on disk |
| Provider request registry, `electron/providers/providerRequestRegistry.cts` | a stack of scopes, the requests under way, a bounded list of cancelled scopes | enter, leave, begin, end, cancel one, cancel all | handlers overlap on one global stack; the list forgets | Stop reaches its generation, and it alone |
| Greenfield write, `electron/greenfield/write.cts`, `writeIpc.cts` | the committed entries, the file it is at | write a tree, stop, roll back, inspect | failure or Stop at any file; failing restores; another writer | either the tree is complete or every change is undone or named |
| Preview, `electron/greenfield/preview.cts`, `electron/processTree.cts` | child, tracked pids, URL, scope, the stop in flight | start, stop, cancel, child events, timers | starts overlap across awaits; late events; orphans | at most one preview; a stop ends what ran; a start is answered |
| Quit teardown, `electron/quitTeardown.cts` | started, allowed | intercept, race of stop and timer, resume | a stop that never settles; both racers; work begun during the teardown | Studio ends and leaves nothing running |
| Agent execution, `electron/agentExecution.cts` | previews, one-shot tokens, epoch, in-flight count, child pid | preview, confirm, execute, clear | checks several awaits before the effect; clear beside a run | the limit locks nobody out; a clear ends what was approved in its session |
| Git branch, worktree, push, `electron/git*.cts` | tokens, epoch, in-flight flags, child | preview, execute, clear | the same, and state of the repository read before and used after | what is executed is what was approved |
| Project index, `electron/projectIndex/`, `electron/projectWatcher.cts` | active root, scan, state, delta chain, watcher | activate, full scan, delta, validate, stop | scan and delta overlap; project switches between awaits | the index converges to the disk; nothing of an old project is stored |
| Run checkpoints, `electron/runCheckpoint.cts` | one file per project, an older shared file | save, clear, load and migrate | clear beside a queued save; a crash or failure in the migration | a cleared checkpoint stays away; a migrated one is never lost |
| Project activation, `electron/projectActivate.cts` | active root, a generation number | switch | order of teardown and activation | the old project's work is over before the new one's begins |
| Terminals, settings and secrets, semantic index, project problems, MCP, shadow workspace | tables and files | | mostly request and answer | |
| Renderer: pipelines, agent loop, automatic repair, planner, context, diagnostics, views | React state | | sequential flows over the answers of the main process | |

How they interact. The renderer reaches the main process only by IPC.
`edit:apply` and `edit:createFile` call the file writer and record the edit in
the last-edit store; plan apply calls them once per file and then replaces the
batch by its own; `edit:undoLast` hands the batch to the undo transaction.
`greenfield:generate` enters its scope in the request registry, sends provider
requests and writes the tree; the preview is started after it. A Stop goes
through the registry, which aborts requests, marks the scope, and asks the
preview to stop if it belongs to that scope. A project switch destroys the
terminals, awaits the preview's stop, stops the index and activates the new
root. A quit is intercepted until the preview has been stopped or a timer has
fired.

`switchProjectRoot` clears the branch, worktree and push sessions and the
agent's, each of which terminates its child, before it stops the terminals and the
preview; then it empties the edit store, stops the index of the old project and
begins that of the new one in one turn. What was under way in these parts goes on
and finds out for itself that the project is another.

`PROJECT.json` lists the components with their status and the hazards with
their lines.

## 2. Modules

| module | models | relation to others |
|---|---|---|
| `BatchContract` | what writing a batch of files promises: one atomic step, or a failure that names what it changed | abstract; the three below implement it |
| `UndoTransaction` | `runUndoTransaction`, step by step | implements `BatchContract` |
| `PlanApply` | the apply loop, the file writer, the rollback, the undo batch | implements `BatchContract` |
| `RequestScopes` | the request registry under the handlers that use it | |
| `GreenfieldWrite` | the transactional write of a generated tree and its IPC gate | implements `BatchContract` |
| `PreviewLifecycle` | starts, stops and child events of the preview | |
| `QuitTeardown` | the quit coordinator | extends `PreviewLifecycle`: its steps are preview steps, or leave the preview alone |
| `OpenProject` | which project is open; restarts of the process | extended by the six below |
| `EditSession` | the store of the last edit under edits, undos and switches | `UndoTransaction` has the steps of one of its undos |
| `ProjectIndex` | activation, scans, manifest, validation, deltas, watcher | |
| `RunCheckpoint` | saves behind their queue, clears, loads and the migration | |
| `GitBranch` | approvals and executions of branch commands, the session's clears | |
| `GitWorktree` | the same for worktrees, with the rollback of a create | |
| `AgentExecution` | inspections, project code and package scripts, with the one limit and the one tracked process they share | |
| `ProjectSession` | `switchProjectRoot`, window, restarts, over the six parts | composes them: it implements each of their specifications |
| `ApprovalSessions_proofs` | theorems of `GitBranch`, `GitWorktree` and `AgentExecution` | |
| `ProjectSession_proofs` | theorems of the other three, and of the composition | extends `ApprovalSessions_proofs` |
| other `*_proofs` | theorems of the module they are named after | |
| `MC*` | model values and symmetry for TLC | |

Actions bear the names of the code's steps, and `PROJECT.json` maps each to its
lines. Operators whose name has a suffix after an underscore (`Compare_skipped`)
are seeded faults: no specification uses them; put in the place of the
definition they are named after they must break the property they are listed
with, which shows that the property can fail.

### BatchContract
Studio writes several files as one in three places: an undo, the approved files of a
plan, a generated tree. The code of the three has nothing in common, but the promise
is one: every file gets its new content, or none does except those of the batch that
the failure names. Files that somebody else writes meanwhile are `raced` and not
covered. Each of the three says with `VisibleFiles` how its disk looks from
outside: while it runs, as before. What its failures name is read off the result:

| | names |
|---|---|
| `UndoTransaction` | the dirty files and `failedPath` |
| `PlanApply` | the file of the error; after a failed rollback the applied files as well; for a superseded run nothing, so any file may have changed |
| `GreenfieldWrite` | the written list; for a call that throws nothing, so any file of the tree may have changed |

### UndoTransaction
`phase` is where the attempt is; `pos` the loop index; `snap` the snapshots;
`applied` the operations to compensate; `basis` the stored `attemptBasis`. Each
phase is a loop of the code: validate, snapshot, compare with the basis, apply,
compensate. Any file operation may fail; a failing write may leave the old
content, the new one or part of it, because `writeVerified` writes in place,
re-reads, and may reject. `touched` is history: files that somebody else wrote
after their snapshot. What is promised excludes them. After an incomplete
compensation the model shows what the code does: as `attemptBasis` is compared
with the disk, every retry is refused until the dirty file is again as it was.

### PlanApply
`step` and `file` follow the loop; `back` follows the rollback, which takes the
applied files in the order they were applied. `stale` is set when a run with
another id begins. A
failing write may truncate (`halfway` records it), and the user may save any file
at any time (`saved`). Both kinds of file are excluded from what a failed run
promises: the code compares a file before it writes it, and several awaits lie
between. The write and the re-reading of the rollback are one step, since the
rollback looks only at the joint result. The checks before the loop, and the
verification and repair after it, are outside.

### RequestScopes
A handler goes through `Enter`, `Prepare`, `Send`, `Settle` or an abort, and
ends with `Answer` or `GiveUp`. The scope of a request is the top of the stack at
`Send`, whoever pushed it: this is the code, and the reason for the finding
below. `overlapped` is history: handlers that were not alone all their time.

### GreenfieldWrite
`phase` follows `writeGreenfieldFiles`: look for a Stop, examine the target,
capture what is there, write, look for a Stop again; on failure restore the
committed entries, newest first, then read each back. Contents that are not UTF-8
are read as their decoding, as the code reads them; the comparison after a
rollback is one of decodings. A read that throws in the middle of the loop leaves
the call by an exception that passes the rollback by (`CaptureThrows`), and the
properties speak of calls that returned a result. Directories the loop creates
are never removed by the code, and are left out.

### PreviewLifecycle
A start is one call, the generation it serves and the processes it spawns: `npm`,
which spawns one `server`. `Start` begins with a stop; `Prepare` and `PickPort`
are its awaits; `Spawn` sets the module's variables; `Ready`, `Timeout`, `SpawnError`
and `Close` are the events, of which the first decides the start; a "close" comes once
for each child (`child`), also after the "error" of one that could not be spawned. Nothing keeps starts from overlapping, in the code or in the model: two of them may
pass their stops and then both spawn. `overlapped` is history: it is set by a start that is called
while another is before its spawn (`Childless`), and reset by one that comes when none
is, no process runs and no stop is in flight. A stop takes everything known, expands the process
tree below it and ends it; a second stop joins the one in flight. Process facts
are external: SIGKILL ends a process; a server comes up while its start waits for
it; npm that was told to end spawns nothing. `LosesNpm` is the set of phases in
which npm may die with its server living on. The code remembers descendants when
the preview becomes ready, so it survives that in phase "ready" and has no means
to survive it before: the runs and theorems say which they allow.

### QuitTeardown
`Intercept` begins the teardown with a stop of its own; `StopOrTimeout` is the
race; `EndTeardown` destroys the terminals and resumes quit. While it waits,
everything else in the preview goes on. `quiet` and `timedOut` are history and say
when the preview may outlive Studio: a start that was pending at the quit or was
called since, or a stop that did not come before the timer.

### EditSession
An edit is a call of `edit:apply` or `edit:createFile` (called, written,
recorded) or of `edit:replaceUndoBatch` (one step); it stands for its record too.
An undo is one call with the awaits of its transaction between `UndoCalled` and
its end. `batch` and `attemptBasis` are the two variables of
`createLastEditStore`. Neither the record of an edit nor the end of an undo asks
what the store holds or which project is open by then. So two histories
say where a promise can be made: `newest` is the edit recorded last, `clean` says
that it was recorded in the project it was called in and while no undo ran.

### ProjectIndex
Everything that awaits is a job: `Loaded`, `Probed`, `ManifestRead`, `Checked` are
the awaits of `activateProjectIndex` and `backgroundValidate`, `ReadFile` is one
file of a scan, of a delta or of a validation, `Commit` is `setScan`, `Stamp` and `Save`
are the two halves of `saveManifest`. The watcher's `flush` is three actions: `FlushBegins`
takes what is pending, `StatTouched` is the await of one stat, `FlushEnds` hands the batch to
`enqueueDelta`. A newer flush may pass an older one meanwhile, whose "deleted" then comes
last, and a closed watcher's flush goes on. A file is a version; a stat or a read of it may
fail, and it then counts as deleted, as in the code (`Finds`, `Stamps`). `stopProjectIndex`
cancels no job; each looks at `indexRoot` after its awaits, where the code does.
The code loses track in known ways, and two histories exclude them: `crossed`
(a project was opened or scanned again while its own jobs were under way, or
while a folder was probed) and `missed` (files stamped with a version that was not
read, overtaken by a scan and a delta at once, never listed in the manifest, handed over as
deleted after they were reported back (`Revived`), or lost by a stat or read that failed).
Section 6 has their lines.

### RunCheckpoint
`writeQueue` is the queue of `enqueueSerializedWrite`, one per project. A save
is queued in the turn it is called; `WriteDone` and `WriteFails` take its head. A
clear unlinks the file beside the queue and then rewrites the legacy file; a load
reads the project's file, then the legacy one, and queues the migrated checkpoint. The
legacy file is read and rewritten as a whole by calls of several projects
(`legacySeen`). `overlapped`, `failed` and `excused` are history: where a clear
or a migration met other calls, where the disk failed, where a checkpoint was
meant to go or could not be written.

### GitBranch and GitWorktree
A call is a preflight and the execution of the token it leaves. Both modules have
the tokens, `sessionEpoch`, the in-flight flag, the tracked process and the clear in
flight, which a second clear joins. `branchDoomed` and `wtDoomed` name the process
that the clear terminates and awaits. The two differ as the code does: the branch
session raises its flag in the turn that tests it and lowers it only in its own
epoch, the worktree session raises it after the inspection and lowers it always, so
two creates run together there. A create adds a branch and a tree (the two
steps of `git worktree add -b`), verifies, writes a record, looks whether
the project is still open, and otherwise takes back tree, branch and record. The
user commits, makes and moves branches in a terminal. `wtStuck` is history: creates
that could not take back all of theirs.

### AgentExecution
A call is an inspection, or one preview of project code or of a package script with
the question, the token and the execution that follow from it; `agentAt` is the await
it is at. `agentInFlight` is `inFlight`, `activeAgentPid` is `activePid` (the call
whose process it is), `agentEpochOf` the epoch a preview or token was given.
`Enters` is the wait for a clear at the top of an execution, `Admits` the limit,
`Spawned` the turn that raises the count, and `AgentFinally` the `finally` block, which
lowers the count and forgets the tracked process, whoever's it is by then. The
three kinds differ as the code does: an inspection is not looked at again before it
spawns, a package script loses its token at the limit and at a clear, and project
code alone is compared with the epoch in the turn that starts it (`MaySpawn`). A
clear raises the epoch, terminates the tracked process (`agentDoomed`), recovers the
sealed copies and zeroes the count; one called meanwhile joins it. `agentShared` is
history: the execution that began last was not alone.

Reasons to refuse a call (cancelled, expired, script or executable changed, another
owner) are one action, `AgentRefused`, allowed at each await where the code has such a
test. Ended processes are external: the clear's SIGTERM and then SIGKILL end one, as for
the preview.

### ProjectSession
A switch clears the branch session, awaits it, clears the worktree session, awaits
it, clears the agent's, awaits that, stops the rest and opens. Several may be under way: the handlers do not
keep them from overlapping, nor from the calls of each part. `oldBranches` and `oldCode`
are history: what ran as a switch called a clear, which may be one it only joins. Of
worktrees nothing of the kind holds, as of two creates one is not tracked, nor of
executions of the agent that overlap. A closed window clears without waiting. A restart keeps what is on disk: checkpoints, manifests, the repository.

## 3. Runs

| run | question | bounds |
|---|---|---|
| `undo` | Is the undo all or nothing, does a retry start from the recorded state, does a started attempt end, and is it all one step of `BatchContract`? | three files, up to three operations, two attempts, one foreign write |
| `undo_claim` | Is the project restored when the message says so? **No**: see findings | two files |
| `plan` | Does a failed apply leave the originals, is a successful one undone by one undo, does the run end, and is it one step of `BatchContract`? | three files, one of them created, two saves |
| `plan_stale` | Also when another run has begun? **No** | no saves |
| `scopes` | Is the stack balanced, are stops remembered, and is a Stop exact for handlers that were alone? | three handlers, three generations, two requests each, three stops, a list of two |
| `scopes_hits` | Also for overlapping ones? **No** | two handlers |
| `green` | Is the tree complete or accounted for, is a stopped call never a success, does the call return, and is it one step of `BatchContract`? | two files, one required, one path not allowed, one foreign write, which leaves a file that is not UTF-8 |
| `preview_overlap` | Is every process within reach of a stop, and every start answered? | two overlapping starts, close events at any time, one stop |
| `preview_gone` | After a stop that was called while a start was pending, is the preview gone? **No** | two starts, two stops |
| `quit` | One preview at a time, does a stop end what ran, does Studio end, and what may outlive it? npm may die when the preview is ready | two starts, the teardown's stop, one terminal; either the starts overlap or another stop is called (`OneOfTwo`) |
| `session` | Between switches and restarts: does undo reach the newest edit, does the index serve the open project and what is on disk, are checkpoints neither lost nor replaced by older ones, does one git command change branches, is a worktree made whole or not at all, can the agent be locked out, does a clear reach the project code it runs, and is what a switch clears over when it goes on? | two projects, three switches, two for the checkpoints, one restart; three edits, two undos; two files, three jobs, two flushes at once, at most three switches, changes of files, failing stats and reads and rescans together; two saves, a clear, a load, an old file with both projects; three branch calls; two creates, one remove; an inspection, a project code and a package script; one clear of each of the three sessions under way |
| `checkpoint_cleared` | Does a cleared checkpoint stay cleared? **No** | one save, one clear |

Why the bounds are enough to meet the interesting cases. Undo needs one operation
that succeeded, one that fails, and one never reached: three; and two attempts for
a retry. The same three hold for a plan (an applied file, the failing one, one not
reached), with the created file in the middle so that the rollback meets both
kinds. A tree of two files has a committed entry and a failing one, and a
generation that names one path twice. Three handlers are needed for an order of
leaving that is neither a stack's nor a queue's, and the list of cancelled scopes
is full at two so that three stops make it forget. In `undo` the paths are named in one
order (`NamedInOrder`), and no operation aims at the bytes a failed write leaves
(`Telling`): a write that fails and leaves its target is a case of its own. What `undo`
and `green` find at paths they never write is one value or two, as at most its absence
counts. Starts overlap in pairs: a
third adds nothing that two do not do to each other. What it could do is end the history
`overlapped`, which is left to the proof (`OverlapEnds`). In `quit` a stop joins another
with the teardown's and one more, while starts that overlap meet the teardown's own.

In `session` one part is at work in a behaviour (`focus`), because the parts meet
only in the open project, in the order of a switch and in restarts, which come
between any two of its steps; the theorems `SessionHas...` show that composing them
adds no behaviour to a part. For a part that a switch does not clear, a switch is one
step (`SwitchAtOnce`): its earlier steps change what that part does not read. So is the
first switch of the others, which clears sessions where nothing has been called yet.
Windows close only while branches or the agent are at work, as a switch to the same
project clears worktrees in the same way. A clear of a session where nothing is at work
ends before anything else is done (`ClearsAtRest`): its steps touch only variables that
the part at work does not read, so they commute with that part's. A restart leaves
of branches and the agent what a fresh start with fewer calls has, and is left out there;
it is also left out for the index, where the manifests of the initial states stand for
what an earlier process wrote, and for the worktrees, where it multiplies the states;
the theorems have it everywhere.

`UntilCrossed` and `UntilMissed` cut the index where no property speaks any more.
`StatsFirst` takes the stats of a flush together unless a file changes between them, as
what they find shows at its end only; `ChangesSeen` leaves out changes of a project with
no manifest before it is opened, which only choose what its files begin with (files that are not
there come with the empty manifest of other initial states). `FewOutside`
bounds the switches, the changes of files, the stats and reads that fail and the rescans that
the index's jobs meet: a project is left and opened again (three switches), its files change
twice under one activation, before it is opened and after, or once around a switch to the
other project; two jobs of the old project and one of the new meet at three. That is enough
for every race of `missed`: a flush that overtakes an older one takes a switch, two changes
of one file and three jobs, and if any of its clauses that speak of overlapping flushes, failing
reads or overtaking scans is dropped, TLC finds `IndexUpToDate` violated within the bounds. Calls of a kind are interchangeable: the creates by
`Alike`, sound as every property of the run is an invariant, the others by `InTurn`, which
numbers them in the order they come. Two creates that pass
the flag together need a remove to take what one of them has made. One call of each
kind lets every kind overlap every other, before and after a clear, and three of them
are more than the limit. A second switch of branches joins the clear of the first, or of
a closed window.

`CHECK_DEADLOCK FALSE` is set throughout: an attempt, a run and a process end,
and bounds on the callers' numbers stop the rest.

### Findings
Five runs end in a violation that TLC shows step by step.

* `undo_claim`: `failAfterMutation` compensates the operations that succeeded.
  The one that failed may have changed its file (an in-place write that broke, a
  re-reading that failed), yet with nothing dirty the message says the project was
  restored to its pre-undo state. The path is the result's `failedPath`, which
  is what `FailureReportsEveryChange`, a theorem, can still promise.
* `plan_stale`: a run that fails after another one has begun returns before its
  rollback and leaves the files it has applied.
* `scopes_hits`: with overlapping handlers a request takes the scope of the
  handler that entered last; stopping that generation aborts the other's request.
* `preview_gone`: a stop that comes while a start is between its own stop and its
  spawn finds nothing to stop. The start goes on and spawns, after a project switch
  for example.
* `checkpoint_cleared`: `clearProjectRunCheckpoint` unlinks the file at once, while a
  save of the same project is still in the queue, which then writes it again: the
  renderer starts both without waiting, and the interrupted run is offered again.

## 4. Fairness
Only what the program owes is fair. Weak fairness on the steps of a started
undo, apply or write says that awaited file operations settle, which Node's file
API does, with a result or an error; both are allowed. Nobody has to call anything,
no other program has to write, no failure has to happen. In `PreviewLifecycle`
stops settle (termination has a grace time and ends in SIGKILL) and timers fire;
nothing says that npm ever prints a URL, so `StartSettles` rests on the timer of
`startPreview`. In `quit` fairness is on the end of the teardown and on the exit
after `app.quit`, and not on the stop: `QuitCompletes` rests on the timer of the
teardown. `ProjectSession` and its parts state no fairness: what is asked of them is
safety.

## 5. Proofs
All theorems hold for every value of the constants that satisfies the named
assumptions of the modules (distinct values, bounds that are numbers, a null that is
neither a job nor a scan or a manifest).

**UndoTransaction_proofs.** `UndoInvariant` is inductive (`InvariantHolds`). The
two results, `SuccessRestores` and `FailureReports`, speak of the end of an
attempt and are not inductive. What carries them is, for each position of the
batch: before `pos` the file holds its target and the position is in `applied` if
it needs compensation; from `pos` on the file is as snapshotted (`ApplyProgress`);
during compensation a position no longer in `applied` is put back or reported
(`CompensationProgress`). Both need that no path occurs twice (`DistinctPaths`),
which the code checks first. `RetryFromBasis` and the action property `BasisKept`
follow from it with `BasisCompared`. `Implements` is the refinement of `BatchContract`: under
`VisibleFiles` the files of a running attempt look as they were found, so that all
steps between begin and end stutter, a success becomes one atomic step and a
failure changes what it names. `AttemptIsBounded` is as much of liveness as
can be proved here: `StepsLeft` is a number that each step of a running attempt lowers,
that a write by others leaves alone, and that is zero exactly when the attempt is over.

**PlanApply_proofs.** `Placed` ties step, file and the rollback's index together.
`Tidy` says what the undo batch holds in each step and gives `UndoCovers`;
`UndoOfApplied` is inductive with `Placed`. `Clean` says of every file that was
neither saved nor torn whether it holds its original or its new content, by its
place relative to `file` and `back`: together they give `FailureLeaves`.
`Implements` needs one clause more, `HalfwayHere`: the only torn file is the one the
run is at. So an error that names this file alone is honest when the rollback succeeded,
and when it failed `Clean` shows that what is still changed lies before `file`, among
the applied ones.
`RunIsBounded` is the variant of `RunEnds`: three steps a file, and three a file back.

**PreviewLifecycle_proofs.** `NothingLost`: if npm never dies before its server,
every running process is, or descends from, something a stop will find (`Held`),
for any overlap. `Alone` says that one preview runs and that a stop has collected, or ended, all
that ran when it was called. It is inductive as long as `overlapped` does not hold, given
`Orderly`, the bookkeeping of children and stops that holds always; where the history ends,
`OverlapEnds` has it anew, as nothing runs then and no stop is awaited. It gives `OneAtATime` and
`StopEndsAll`, for any number of starts and stops, overlapping as they like. These two hold when npm may die as well (`NpmOutlives`), as in `quit`: the
descendants of npm are remembered when the server answers, so that from then on a server is
held by itself (`Kept`). Two cases are outside, and would be false: npm that dies while the
phase is still "starting", before anything of its tree was remembered, and a close event
of an earlier child that clears `previewProc` before the tree of the new one is read.
`StartIsBounded` is what `StartSettles` rests on: a start takes five steps at most, and
none of them waits for a stop that is not in flight (`Awaited`), whatever overlaps.

**QuitTeardown_proofs.** `PreviewUnderQuit` shows that a system that may quit
behaves, in the preview's variables, as `PreviewLifecycle` specifies; what is
proved there carries over. `QuitLeavesNothing` uses `StopEndsAll`, under `NpmOutlives`
and no bound on overlapping starts, and so includes a server whose npm has died. `QuitIsBounded` is
the variant of `QuitCompletes`: three steps, and the resumed quit is let through.

**GreenfieldWrite_proofs.** `FailureAccounts` rests on the ledger of rollback
entries (`Ledger`): a path without an entry is as it was, a path with one has an
entry that holds the original text. While the loop runs the written list covers
the entries (`Listed`); in the inspection what has been looked at is as its entry
says or is found different (`Inspected`). So whether the restores succeed does not
matter to the account: the inspection names what still differs. `SuccessComplete`
follows `WrittenSoFar` through the loop, where a later file of a path replaces an
earlier one; `StoppedFails` is a property of each step. `CallIsBounded` is the
variant of `CallReturns`; it needs that a file has one rollback entry at most (`OneEntryEach`).
`Implements` follows from the two accounts and `EntriesOfBatch`, that only files of the
tree have entries: a failure changes files of the tree that its written list names, a
success leaves each path with its last content.

**RequestScopes_proofs.** `StackBalanced` says that for each scope the stack has as
many entries as there are running handlers of it. The invariant is `Balanced`:
some one-to-one assignment gives each entry a handler it may belong to. Entering
extends it; leaving removes the newest entry of the scope, which may be another
handler's, and that handler takes over the entry of the one that leaves. With it,
a handler that was alone all the time finds its own scope at the top
(`LoneCurrent`), which gives `LoneExact`, `LoneReached` and `StoppedCancels`. `RecentMarked`
shows that the bounded list is the end of the history of stops (`ListIsEnd`).

**ApprovalSessions_proofs.** `BInv` says which call may hold flag and process: the one
that executes in the present epoch (`Current`) is the only one, it is tracked from
its spawn on, and one of an earlier epoch that still runs is the clear's to
terminate. It gives `OneBranchCommand`, of which `GitTyped` gives the types.
`CreateAllOrNothing` is inductive with `WInv`: a create owns its tree and its
record alone; the branch it shares with other creates and the user, so that
`RolledBack` says for each step of a rollback what is gone or given up as stuck,
and `Whole` says that the branch of a create that has answered exists while its tree
is listed, as nobody deletes a branch a tree is on.
`AInv` says of the agent that an execution that began alone is alone until another
begins; that approved project code on its way to the spawn is never of the present
epoch while a clear runs, so none starts then; and that once the clear recovers the
copies its process is gone. With it the tracked process is the lone execution's, or
the one the clear terminates (`ClearReaches`). `AgentNotLockedOut` counts: a spawn adds
one to both sides, an end takes one from both (`CountedExecutions`), a clear zeroes the smaller.

**ProjectSession_proofs.** `EInv` ties the store to the running undos: as long
as `clean` holds each of them was called on the newest edit or before it was recorded.
`CQueue` says a call is in its project's queue exactly while it waits there, once.
`CMoved` gives `MigrationKeeps`: a call that has passed its write, and will
rewrite the legacy file without its project, finds that project safe. `CLatest` gives
`LastSaveStands`: while saves wait, the newest is the last of the queue. `IShape` and
`Probes` are the types of jobs; `Serves` says that a job which works on a scan has
one of its own project, which gives `IndexServes`.

`IndexServesDisk` says that an index at rest serves what is on disk. At rest nothing is
said of how it got there, so the invariant speaks of the jobs on their way, in three layers.
`Kinds`: what a job is by its phase, and that numbers are given in order. `Ordered`: as
long as no project is opened or scanned again under its own jobs, at most one job loads,
validates or scans the open project, nothing else is at work before its watcher is open, and
its deltas form a chain of which all but the first are queued, each behind one that has not
ended. `Settled`, for each file: it is recorded as missed; or a change of it is still to be
reported, pending or in a flush (`Unreported`), or to be read by a queued delta (`Unsettled`),
of which the last takes the file out unread only if it is gone (`Reported`: `FlushEnds` records
the files where it is not); or whatever is served, or about to be committed, is right
(`UpToDate`). Right means equal to the disk, unless the one main job will still find the
difference, which `Allows` says phase by phase: a manifest to be loaded whose stamp differs, a
file still to be compared, a scan that will replace all. For a validation that loads the
manifest while a delta saves a newer one it needs `Same` and `Stamped`: a manifest does not list
a file, or stamps it with the version in its scan, as `Stamp` records the files where this is not
so. The lemmas `SettlesByOther`, `SettlesByMain`, `SettlesByDelta`, `SettledByReport`,
`SettledByFlush` and `SettledByChange` take the steps by who takes them; at rest no job is
left to `Allows` anything else. The number of flushes under way at once is any.

`SessionHasEdits` and its five
siblings show that the composition implements each part's specification (the refinement
is the projection on the part's variables), so that `SessionSafe` and `SessionTyped`
follow from what was proved about the parts alone. `SwitchWaits` is about
the composition itself: what ran as a switch called a clear is in the hands of the clear in
flight, whoever began it (`OldBranches`, `OldCode`, from `BInv` and `AInv`), which ends no
sooner than that has ended; and a call that ran does not run again.

Every invariant and action property that a passing run checks is stated by a theorem.
Left to TLC are the five liveness properties, as TLAPS proves neither fairness nor
ENABLED: of each the variant above is proved, a number that its own steps lower and
nothing else raises. No theorem uses induction over data or a recursive operator, and
no module declares one.

## 6. Not modelled
Text and its handling (prompts, parsing of model output, repair of generated
code, diagnostics, the index's chunks and vectors), which is functions of
strings; the views; provider wire formats; path checks, which appear as a
refusal that may happen. Two loops of plan apply with one run id, which the
watchdog of 30 s makes possible, are not modelled, nor is the renderer's own
order of preview starts.

The IPC handler does not keep preview starts from overlapping (`main.cts:1368`). Two that pass
`preview.cts:265` both spawn at `preview.cts:346`; a stop that joins one in flight
(`preview.cts:207`) then returns while a younger preview runs, and so does a quit whose stop
does. `SinglePreview`, `StopEndsWhatRan` and `ExitLeavesNothing` say nothing there (`overlapped`);
`NoOrphan`, `StartSettles` and `QuitCompletes` still hold.

The push session is not modelled; it has the shape of the branch session,
except that its clear lowers the flag of a push that is still running
(`gitPush.cts:252`). Of the agent's part, the sealed copies of scripts on disk, the
owners of approvals and their expiry are refusals only, and the commands a terminal
runs are left out.

The session modules show behaviours that their properties exclude, as nothing
better holds of the code: an edit recorded during an undo, or in
another project than its own (`lastEditBatch.cts:232`, `main.cts:849`); a scan that
overwrites what a delta has found meanwhile (`coordinator.cts:230`); activations of one project that
overlap (`coordinator.cts:355`); stamps taken after the files were read
(`manifest.cts:94`), and files added while the project was closed, which the manifest does
not list; a "deleted" of an older flush that is handed over after a newer one has reported the
file back (`projectWatcher.cts:48`); a stat or read that fails and drops a file that is there
(`projectWatcher.cts:65`, `projectScanner.cts:520` with `deltaScanner.cts:67`,
`manifest.cts:148`), while one that fails as the manifest is stamped (`manifest.cts:58`) leaves
the file unlisted; a rollback that deletes a branch the user has made at the same commit
(`gitWorktree.cts:961`); executions of the agent that overlap, of which one forgets
the other's process at its end (`agentExecution.cts:575`); inspections and package
scripts that pass their last test before a clear and spawn during it or after it
(`agentExecution.cts:474`, `agentExecution.cts:1994`); a token that takes the epoch of
after a clear, although its preview was approved before (`agentExecution.cts:1297`).

Of the index, `notifyProjectFilesChanged` (`coordinator.cts:329`), which queues a delta for
Studio's own writes at once, is left out, as the watcher reports these files too; so are a
manifest that cannot be read, which is as none, and a probe that fails. Of the
checkpoints, a read that fails in `readProjectRunCheckpoint` is left out.

## 7. Plan
Done: `UndoTransaction`, `PlanApply`, `RequestScopes`, `GreenfieldWrite`,
`PreviewLifecycle`, `QuitTeardown`; `EditSession`, `ProjectIndex`, `RunCheckpoint`,
`GitBranch`, `GitWorktree`, `AgentExecution` and their composition `ProjectSession`; proofs of each.
To come, in the order of importance:

1. The push session of git, a part of `ProjectSession` like the others.
2. A switch ends: liveness of `ProjectSession` with the ends of children fair.
3. The semantic index behind the project index; the request table of an MCP server.
4. The retry and fall-back chain of the providers.
