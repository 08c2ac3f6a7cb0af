# dv-backup: a formal model

`dv-backup` backs up and restores named Docker volumes. It stops the containers
that use a volume, runs a helper container with `tar` on it, writes or reads an
archive, and starts the containers again. This directory holds TLA+ models of
that program, the TLC configurations that check them on small instances, and
proofs, checked by TLAPS, that hold for every instance.

File and line references are to the repository (`internal/…` and `cmd/…` lie in
`src/`). `PROJECT.json` maps each definition to the lines it models.

## 1. The system

### Components

| component | state it keeps | operations | talks to |
|---|---|---|---|
| stopper (`internal/stopper`) | the record of stopped containers, with the start time each had | `UsersOf`, `Stop`, `Restart` | Docker daemon, one request at a time |
| archive writer (`internal/archive/writer.go`) | the open `.partial` file, `done` | `NewWriter`, `AddVolume`, `Finish`, `Abort` | file system |
| archive reader (`internal/archive/reader.go`) | the entries of an open archive and its manifest | `Open`, `Verify`, `OpenVolume` | file system |
| helper runner (`internal/dockerx/helper.go`) | per call: the attach connection, two copy goroutines, the wait channels | `RunHelper` | Docker daemon; the caller's `Stdin`, `Stdout` |
| Docker client (`internal/dockerx/client.go`) | none | single requests | Docker daemon |
| backup run (`internal/backup`) | per run: listing, selection, manifest, named result `err` | `Run`, `backupVolume` | stopper, writer, helper runner (through a pipe and a goroutine) |
| restore plan (`internal/restore/plan.go`) | none, pure | `BuildPlan`, `Blocked`, `ToStop` | – |
| restore run (`internal/restore/restore.go`) | per run: listing, observations, plan, the three outcome lists | `Run`, `observe`, `apply` | stopper, reader, plan, helper runner |
| selection (`internal/selection`) | none, pure | `Filter`, `Named`, `Volumes` | – |
| manifest (`internal/manifest`) | none, pure | encode, parse, validate | – |
| stat (`internal/stat`) | none | prints tables | Docker daemon, reader |
| command line (`cmd/dv-backup`) | the context that SIGINT and SIGTERM cancel | `backupCmd`, `restoreCmd`, `finish` | all |

What lies outside the program but is part of every behaviour: the Docker daemon,
which carries out a stop request up to the container's stop timeout after it
accepted it; the containers, which write to their volumes, exit and are
restarted; other users of the daemon and of the output directory, a second
`dv-backup` among them; signals, process death and power cuts.

### What is hard

* **Requests that outlive their caller.** A cancelled `StopContainer` returns an
  error while the daemon goes on stopping the container.
* **Decisions from a listing.** Who is stopped, what is marked consistent and
  what a restore may overwrite are decided from one listing that grows stale.
* **Deferred calls and a named result.** `Restart`, then `Abort` if `err` is set,
  on every return path; the exit code merges three outcomes.
* **Two runs.** Nothing keeps a second run from starting; the two know of each
  other only by the state of the containers and by equal file names.
* **Goroutines around one connection.** `RunHelper` has five parties that end in
  any order, and the caller closes its streams right after the call. Around it
  `backupVolume` puts a pipe and a goroutine, either end of which may fail first.
* **Names and crashes.** The archive is built under one name and renamed to
  another; two runs may share both; a power cut may come between any two steps.
* **Partial failure.** One of several stops, starts or volumes fails.

### What makes each component correct

* stopper: only users of the wanted volumes are stopped; while volumes are
  worked on nobody untouched by others runs on them; every container taken down
  comes back or is named; nothing else is started; the start order is kept.
* writer: a published archive is whole, even after a crash; a cut one shows it;
  a name never passes to the file of another run; no `.partial` is left behind
  unless its removal failed.
* helper runner: success means all output was delivered and all input was taken;
  success is not turned into failure; no goroutine outlives the call; a cancelled
  call returns.
* reader: what it opens is whole, whatever file the name holds; what a run has
  published it opens; what is unpacked is what was verified.
* selection: the union of what is asked for, each volume once; an error if and
  only if something asked for is missing or nothing is selected.
* both runs: whichever way they end, every container they took down is back or
  named.
* helper in a pipe: no stream that was cut becomes an entry, and neither side
  waits for ever on the other.
* backup: no volume is archived torn and called consistent, but for the doings
  of others; no helper is at work when containers restart; no archive after an
  error; the exit code is true.
* restore: nothing is changed before everything is verified and planned, nor if
  the plan is blocked; restored volumes are exactly the archive's; the printed
  outcome is true and complete.

## 2. The modules

| module | models | composes |
|---|---|---|
| `Stopper` | stopper, the daemon's containers, other actors | |
| `Rivals` | two runs at once on one daemon | `A`, `B == INSTANCE Stopper` |
| `ArchiveWriter` | writer, one directory, several runs | |
| `Selection` | `Filter`, and what it is meant to be; pure operators | |
| `ArchiveReader` | reader, and what a restore does with it | extends `ArchiveWriter`; `Sel == INSTANCE Selection` |
| `RunHelper` | one helper call | |
| `VolumeCall` | what `backupVolume` promises `Run` (abstract) | |
| `BackupVolume` | `backupVolume`: pipe, goroutine, helper | `H == INSTANCE RunHelper`; implements `V == INSTANCE VolumeCall` |
| `Backup` | backup run, exit code | `S == INSTANCE Stopper`, `W == INSTANCE ArchiveWriter` with one writer; implements `V == INSTANCE VolumeCall` |
| `RestorePlan` | plan, pure operators | |
| `Restore` | restore run, exit code, host volumes | `S == INSTANCE Stopper`, `P == INSTANCE RestorePlan` |
| `StopperProofs`, `ArchiveWriterProofs`, `RunHelperProofs`, `BackupProofs`, `RestoreProofs` | theorems | each extends its module |
| `ArchiveReaderProofs` | theorems on the reader and on `Selection` | extends `ArchiveReader`, `ArchiveWriterProofs` |
| `BackupVolumeProofs` | theorems | `HP == INSTANCE RunHelperProofs` |
| `RivalsProofs` | theorems | `AP`, `BP == INSTANCE StopperProofs` |
| `MCStopper`, `MCRivals`, `MCArchiveWriter`, `MCArchiveReader`, `MCBackup`, `MCRestore` | instances for TLC | |

Three modules are also *abstract specifications*. `Stopper` and `ArchiveWriter`
are the protocols of the two runs: `Backup` and `Restore` state, as properties,
that each of their steps is a step of the protocol or leaves it alone
(`ImplementsStopper`, `ImplementsWriter`); the refinement mapping is the identity
on the protocol's variables, which the composed modules share. `VolumeCall` is
the contract between `Run` and `backupVolume`, five stages and the outcome of a
helper. Both sides are shown against it: `Backup`, where the helper is one step,
uses the call only as the contract says, and `BackupVolume`, where it is all of
`RunHelper` behind a pipe, keeps the contract. Here the mapping computes the
stage from the two program counters.

**Stopper.** `phase` is the program counter of the run as far as containers are
concerned: `start`, `listed` (`ListContainers`), `stop`/`inspected`/`sent` (the
loop of `Stop`: `StartedAt`, `StopContainer` sent, answered), `held` (`Stop`
returned nil and the volumes are worked on), `failed` (it returned an error),
`restart`, `done`, `killed`. A stop request is in `inflight` from its acceptance
until the daemon carries it out. `StopOk` is an answer (204 or 304, both success
to the client); `StopRefused` an error without effect; `StopLost` an error
although the request lives on, which is what a cancelled context or a broken
connection gives. `StartFails` covers starts that fail and starts whose answer
is lost. Actions that send a request under the run's context need `~cancelled`;
`Restart` has `context.WithoutCancel`. `touched` records the containers other
actors acted on, `broughtDown` and `revived` what this run's requests did.
`UsersOf` and the lists are sets: the stopping order (by name) is left open. The
restart order is not, except between equal start times, which the code breaks by
the stopping order. Paused containers cannot be started, as in the daemon.

**ArchiveWriter.** A file is the sequence of blocks appended to it, two per tar
entry, so that a cut inside an entry differs from one between entries. `partial`
and `final` are directory entries that hold a file (identified with the writer
that created it); `Rename` and `Abort` act on whatever the name holds. `wpc` is
the writer's stage. A step that fails while it appends may leave the header of its
entry (`AddFails`, `FinishFails`). `PowerLoss` cuts each file anywhere at or after
its synced length and may lose or undo changes of the directory, which nobody
syncs: a new name is gone, a removed `.partial` is back, a rename is undone. The
temporary file in which `AddVolume` compresses is not modelled (section 6).

**Rivals.** Two stoppers share the daemon's containers. A step of one that
changes a container is, for the other, a step of another actor (`OtherStep`), so
that everything shown of one run with others around holds of each of the two.
A request of one run that is still in flight may take effect at any later time,
also after the other has restarted its containers.

**Selection** has the loop of `Filter` as a recursive function over the list and,
beside it, the set and the order it is meant to compute.

**ArchiveReader** opens whatever file one of the two names holds at that moment:
whole, growing, cut by a power cut, given up, or about to be replaced. It goes
through the file block by block, as `Open` does through tar headers and skipped
data (`entries`, `manifest`), then selects, verifies and unpacks from the file it
has open (`file`), whatever its name holds by then. The data of at most one entry
goes bad: of the manifest, which `Open` then refuses because it does not parse or
names a wrong entry or size, or of a volume, which `Verify` finds.

**RunHelper.** `pc` is the calling goroutine; `out` and `send` the copy
goroutines (`done` = result in the channel); `AfterFunc` the cancellation
callback; `conn` the connection any of them may close. Output and input are
counted in pieces, so that "delivered" and "sent" can fall short; a piece that
`StdCopy` has read and not yet written is `inHand`. At most `Buffer` pieces are
under way, and a container whose output nobody reads is `Blocked` until the
connection is closed. The three `select`s are the alternatives at `send`,
`await`/`result` and `drain`. `fault` is set whenever the environment made
something fail.

**BackupVolume.** `apc` is the goroutine that called `backupVolume` and runs
`AddVolume`, `gpc` the one that calls `RunHelper`, whose actions are those of
`RunHelper` itself. The pipe has no buffer: `StdCopy`'s write and `AddVolume`'s
read are one step (`Transfer`); after `GiveUp` the write fails (`PipeRefuses`).
`writeEnd` and `readEnd` are its two ends, each closed by its own side.

**Backup.** `bpc` is where `Run` is. Each action takes a step of the stopper, of
the writer, of both or of neither. The helper is abstracted to running or ended
with tar's status 0, 1, 2 or an error, and `backupVolume`'s goroutine and pipe to
`VolumeCall`: the volume is done when the helper ended and the writer read to the
end; if the writer fails, `backupVolume` still waits for the helper (`Drained`). A
helper is running as long as `RunHelper` has not returned: a container whose
removal failed may live longer, as `RunHelper` discards that error. `torn` records
that a running container wrote to a volume while a helper read it. The settings
(`noStop`, the selection) are chosen in the initial state. The deferred calls run
in the order `Restart`, `Abort`.

**RestorePlan** is the table of `BuildPlan`. **Restore** follows `Run`, `observe`
and `apply`; of a volume's content it keeps whether there is data that is not the
archive's (`foreign`) and how much of the archive's was unpacked (`filled`). A
helper's mount creates a missing volume (`Provide`), also if the helper or what
follows it fails, and a failing clear may have emptied the volume. `corrupt` are the volumes
whose entries fail `Verify`, for a file that does not change during the run.

## 3. The runs

Deadlock checking is off throughout: every run of the program ends.

| run | states | shows |
|---|---|---|
| `stopper` | 0.23 M | all safety properties of the stopper and, under `Fairness`, `BroughtBack`: two containers that share a volume, a helper on it, one step of others, two start times |
| `stopper_cancel` | violation | `AlwaysRestarted` fails (finding 1) |
| `rivals` | 1.6 M | `AllBack`, `OnlyOurs`: two runs, each wanting one or both of two volumes, two containers |
| `rivals_held` | violation | `HeldFromRival` fails (finding 2) |
| `reader` | 3.0 M | two writers of one name and a reader of it: the safety of the writer, of the reader and of the selection, with a damaged entry, power cuts and deaths |
| `writer_overwrite` | violation | `NeverOverwrites` fails (finding 3) |
| `backup` | 1.2 M | safety of a backup and its three refinements: two volumes, two containers, a foreign helper, one step of others |
| `backup_nostop` | violation | `TornIsMarked` fails (finding 4) |
| `helper` | 28 k | safety of `RunHelper` and, under `FairSpec`, `CancelReturns`: two pieces of input and output |
| `volume` | 40 k | `StreamIsWhole`, the refinement of `VolumeCall` and, under `VFairSpec`, `VolumeReturns`: three pieces of output, two of which fit into the buffer |
| `restore` | 0.98 M | safety of a restore and its refinement: a volume with two users and one with none, which may be missing |
| `restore_unforced` | violation | `UnforcedOnlyEmpty` fails (finding 5) |

Each property of a passing run has a mutant in its module, a plausible bug under
a comment that starts with "Mutant"; with the mutant in place of the definition
the property is violated.

A refinement of `Stopper` alone allows stuttering: it says that a run uses the
protocol and nothing beside it, not that it gets to the protocol's end.
`ImplementsStopper` therefore has a second part: when the run is over every
container it took down is back or named, so that no return of `Run` misses the
deferred `Restart`. `TornOnlyByOthers` and `HeldWhileRead` exclude the
containers that others acted on: they say where the code's guarantee ends, and do
not cover a restart policy or an operator that starts a container again.

### Bounds, and why they are enough

`OtherSteps` bounds the steps of other container actors to 1: a container that was
touched is excluded from the claims, so one step decides what happens to it, and
the proofs hold for any number. In `rivals` the other actor is the other run,
which takes each container down at most once and brings it up at most once:
`OtherSteps` is twice the number of containers and cuts nothing off
(`RivalsAssumption`). `VolumeSteps` is the bound of the same kind for volumes.
`FirstTimes` has two values where the start order matters. Two containers suffice
for the order of restarts and for a failure in the middle (the proofs drop this
bound); a third is a helper. Two volumes give a first and a last one, and a
selection that is neither nothing nor everything; one belongs to a project, and
another project has no volume. Two writers are the fewest that can disturb each
other. In `reader` an action constraint, `WhenItMatters`, lets the writers move
only before the file is opened, by a step of the writer of the open file while it
is scanned, and before the first volume is unpacked; any other step of theirs
changes neither the open file nor anything the reader looks at, and may as well
come before or after; and projects are selected only while the other writer is
idle, as `Filter` looks at the manifest alone (the proofs do without the
constraint). Two pieces of output can be half delivered; with three pieces and a
buffer of two a container blocks. `clock` grows only with starts, which are
bounded by containers and `OtherSteps`. Two writers, as they are interchangeable,
and the containers of `restore` are symmetric; no temporal property is checked
under a symmetry but refinement of a safety specification.

### Fairness

`Stopper!Fairness`: the run takes its next step and the daemon carries out what
it accepted (it kills a container that exceeds its stop timeout). Nothing forces
a signal, a lost answer, another actor or a kill. `RunHelper!FairSpec`: the
goroutines are scheduled, a `Read` or `Write` of the caller's streams returns (the
contract in `helper.go:128-135`), the daemon answers; the container itself is
*not* assumed to end or to read. `BackupVolume!VFairSpec` drops the assumption on
the streams, as the stream is the pipe and its other end is now in the model: a
write to it returns only if `AddVolume` reads or has closed its end. In turn a
container that is not blocked goes on and ends (tar reads a finite volume). Nothing
makes `AddVolume` fail, and nothing lets a blocked container go on but a reader or
the closing of the connection, which is what `VolumeReturns` is about.

## 4. Findings

1. *A cancelled stop is not undone* (`stopper.go:66`). If `StopContainer` returns
   an error while the daemon goes on, the container is not recorded and stays
   down, against `backup.go:35`. The error that names it is replaced by
   `errInterrupted` when a signal was the cause; the progress line remains. The
   weaker `RestartedOrReported` holds and is proved.
2. *Two runs do not exclude each other* (`stopper.go:92`). Of two overlapping runs
   on a volume the one that ends first starts the containers while the other still
   reads, and the archive is marked consistent, against `README.md:11`. That all
   containers come back, `AllBack`, holds.
3. *The rename overwrites* (`writer.go:148`) an archive that appeared since the
   test, against `README.md:61` "it never overwrites".
4. *Stale consistency mark* (`backup.go:164`): with `--no-stop` a container
   started after the listing leaves `consistent: true`, against `README.md:118`.
5. *An unforced restore into a volume in use* (`restore.go:196`): what was
   observed is not looked at again, against the help text, `main.go:44`.

## 5. Proofs

All theorems hold for any sets of containers and mounts, finite or not (finite in
`Rivals`, where containers are counted), any first states, any number of steps of
others and any number of writers. Every invariant and every refinement of a
passing run is proved; only liveness is not.

### Assumptions

Each is named, stated in the module that declares the constants, and evaluated by
TLC in a run of that module.

| assumption | says |
|---|---|
| `ConstantsAssumption` (`Stopper`) | the mounts and first times fit the containers; `OtherSteps` is a number; `None` is no container |
| `WriterAssumption` (`ArchiveWriter`) | `None` and `Foreign` are no writers, the names of the fixed entries no volumes; `Volumes` is finite, as `MaxBlocks` counts it |
| `ReaderAssumption` (`ArchiveReader`) | `None` is no set of volumes: a file without a manifest is told from one whose manifest is empty |
| `RunHelperAssumption`, `VolumeAssumption` | the amounts of input and output and the buffer are numbers |
| `BackupAssumption`, `RestoreAssumption` | those of the modules they compose; `None` is no exit code (a run without one is still going on) |
| `RivalsAssumption` | that of `Stopper`, and `OtherSteps` is large enough to let every step of the other run happen |

### The arguments

**StopperProofs.** `TypeCorrect`, and `Inductive` for `IInv == TypeOK /\ UserInv
/\ DownInv /\ VisitInv /\ AccountInv /\ OrderInv`. No property is inductive alone.
`VolumesHeld` speaks only of the moment `Stop` has returned, so `VisitInv` says
that until then every user is still to be visited, at hand or recorded, and
`DownInv` that an untouched container is down if it was taken down and as listed
otherwise. `RestartedOrReported` speaks of the end, so `AccountInv` names, at
each phase, who answers for a container that is down: the request at hand, the
record, the list still to restart, or an error. It also needs that a request
still in flight is the one at hand or belongs to a reported container.
`StartOrderKept` needs that those restarted were started before those to come
(`OrderInv`). From `Inductive` follow `BystandersSafe`, `VolumesAtRest`,
`AllAccountedFor`, `RestartScope` and `RestartOrder`. Three lemmas at the end say
what one step of the run, or of others, may change; the composed modules use them.

**ArchiveWriterProofs.** `WTypeCorrect`; `Ownership` (inductive with the types);
`WInductive` for `WInv`, which adds what a file holds at each stage (`ContentInv`)
and what a published file holds within its synced prefix (`PublishedInv`). From it
`PublishedWhole`, `ManifestIsLast` and `CleanEnd`. The lemmas at the top say what
appending and cutting do to a sequence of blocks.

**ArchiveReaderProofs.** A reader changes nothing of the writers' world
(`ReaderAside`), so `WInv` holds while it reads. `AInductive` adds the form of any
file, however cut: headers and bodies in turn, nothing after the trailer
(`FormInv`); where the reader stands in it (`ReaderInv`); that what it has met
there is there for good, although the file may still grow (`ManifestInv`); and
that under the final name it meets whatever a whole file has (`WholeInv`, the
part that keeps `PublishedOpens` from being refused). `AcceptedIsWhole` follows
from `ManifestInv` and the writers' `ManifestAfterVolumes`: the reader skips the
volumes' data, and it is the manifest's place in the file that vouches for them.
`UnpackedVerified` rests on `VerifiedInv`, which counts the volumes verified along
the list of those selected.

`SelectionIsRight` is an induction over a list. The library's induction theorems
take an operator, which the provers cannot instantiate, so it is carried by
sets: `Least` (a set of numbers has a least one, from the well-foundedness of the
order), `UpTo` (a set with 0 and closed under the next number holds all of them),
and `Recursion` (a loop given by its start and its turns exists). `ScanDefined`
applies them to the loop of `Filter`, `VisitMeets` is one turn, `ScanMeets` the
whole loop, and `FilterRight` compares its result with what is meant.

**RunHelperProofs.** `HInductive` for `HInv == HTypeOK /\ StageInv /\ EndInv /\
TroubleInv`. Where the calling goroutine is decides what the two others may be
doing, as this is what its `select`s wait for (`StageInv`); hence `NothingOutlives`.
A goroutine that ended without an error has moved all there was (`EndInv`); hence
`CompleteWhenOk`. `SuccessReported` needs a cause for every failure on the way
(`TroubleInv`): the closed connection, the failed wait and each error of a
goroutine trace back to a cancellation, a fault or the end of the grace period.

**BackupVolumeProofs.** Each step of the call is one of `RunHelper` or leaves it
alone (`HelperSteps`), so that `HInv` holds inside the call. `PipeInv` ties the two
ends of the pipe to the two goroutines; `WholeStream` follows. For
`VolumeImplementsCall` the stage of the abstract call is computed from both program
counters and the ends of the pipe, and each step is a step of `VolumeCall` or a
stutter.

**BackupProofs.** `BackupIsStopper` and `BackupImplementsWriter`: initial
states map to initial states, and each action maps to a step or a stutter, by
cases. Hence the invariants of `StopperProofs` and `ArchiveWriterProofs` hold of
every backup (`StopsAlways`, `WritesAlways`). `BackupImplementsVolumeCall` needs
that no error is set before the deferred calls, and that from the start of a
volume until its outcome is judged there is a helper, running or ended
(`CallInv`). The backup's own safety follows from `BInv`, which says for each
`bpc` where the two protocols are (`StopperAt`, `WriterAt`), which volumes the
archive holds (`ArchivedInv`), who can be running on a selected volume
(`HoldInv`), who wrote to it while it was read (`TornInv`) and what `err` and
the exit code stand for (`ExitInv`). `StopperAt` says that a run that is over has
come to the end of the stopper's protocol; with the stopper's
`RestartedOrReported` the other half of `BackupImplementsStopper` follows.

**RestoreProofs.** `RestoreIsStopper` and `RestoreImplementsStopper` as above.
`RInv` has the same parts, and in its centre that what `observe` found does not go stale by itself
(`SeenInv`): until `Restart` a volume that was absent is mounted by nobody, and
one that was empty without users in use is written to only by what others started
or created. The plan inherits this (`PlanHolds`), and each step of a volume relies
on it (`VolumeAt`), also for the volumes whose users `Stop` was not given. Two
theorems are about the plan alone, whatever was observed: it is blocked exactly
if `--force` is missing and a volume has data or is in use (`RefusedExactlyWhen`),
and if it is not, it stops all that is in use (`StopsAllInUse`).

**RivalsProofs.** Each of two runs is a behaviour of `Stopper` in which the other
run is the other actor (`EachIsAStopper`), so all of `StopperProofs` holds of
both. Those theorems excuse what others touched; here there is nothing to excuse:
a container on which one run saw the other act is one that either took down
(`TouchedInv`), and one of the two answers for each of these (`AnsweredInv`).

**Only model-checked:** liveness (`BroughtBack`, `CancelReturns`, `VolumeReturns`),
as fairness and ENABLED are beyond the prover, and the five properties that are
violated. Each inductive invariant was checked by TLC on the instance of its run
before it was proved. `PublishedWhole`, `ManifestIsLast`, `EachIsAStopper` and the
inductive invariants are proved and not run.

## 6. Not modelled

* `stat` (four requests whose answers are printed), the test double `fake.go`, the
  version constant: no state, and nothing depends on what they give.
* The YAML encoding, the validation of single fields and the texts of `manifest`;
  flag parsing. A manifest that goes bad and yet parses and agrees with the entries.
* `Named` and `IsAnonymous` of `selection`, predicates on the text of a name: they
  decide which volumes there are for `Filter`.
* Within the modelled parts: compression and hashing (a volume's data is good or
  bad), the format of the file name, `warnFreeSpace` (a warning), the tail of
  stderr, tar's metadata options.
* In `Rivals`, death of a process: what it leaves down nobody restarts, which
  `Stopper` covers. Two runs with their archives: equal names are in
  `ArchiveWriter`, different ones do not meet.

* The temporary file of `AddVolume`. Its name is unique and nothing else reads it.
  The deferred removal (`writer.go:86-89`) discards its error, and a process that
  dies does not get there: a `.tmp` may be left beside the archive, and no property
  says otherwise; `NothingLeftBehind` speaks of the `.partial`.

A power cut after the rename may lose the directory entry or undo the rename; the
code makes no promise about it. A helper container whose creation answer or removal was lost
remains; the code discards that error on purpose, and `stat` names what it finds
(the hint of `stat.go:64-81` also names the helper of a run that is still at
work). Both are behaviours of the models, without a property against them.

## 7. Plan

Done, in this order: `Stopper` and its proofs, `ArchiveWriter` and its proofs,
`Backup` with its refinements, `RunHelper`, `RestorePlan`, `Restore`; then
`VolumeCall` and `BackupVolume`, `Selection` and `ArchiveReader`, `Rivals`.

Then the proofs: `RunHelper`, the safety of `Backup` and of `Restore`,
`BackupVolume`, `Rivals`, `ArchiveReader` and `Selection`.

Next, to prove more:

1. Two runs with `HeldFromRival` as far as it does hold: while both work on a
   volume nobody untouched by others runs on it, up to the first `Restart`.
2. The part of `BroughtBack` that needs no fairness: which step each phase of
   `Restart` waits for, so that no state but the last is without one.
3. That the helper of `Backup` and of `Restore` is gone when the run has returned,
   from `NothingOutlives` and the contract of the call.
