# Verification of the curation service backend

TLA+ models of `digitaldu-backend-curation-service`, the Flask service that moves digitised packages from
staff folders through QA into Archivematica and copies the resulting AIPs and DIPs to Wasabi. The modules are
translated from the code; TLC checks them on small instances and TLAPS proves the central properties for every
value of the constants. Paths below are relative to the repository (`lib/…` is `src/lib/…` in `PROJECT.json`).

- [Inventory of the system](#inventory-of-the-system)
- [Modules](#modules)
- [The staging area: Staging and PackageCustody](#the-staging-area)
- [The SFTP upload: SftpUpload](#the-sftp-upload)
- [The copy of an AIP: AipCopy](#the-copy-of-an-aip)
- [A batch before it is packaged: DigitalObjects, ReadyNames, CollectionFile, BatchScan](#a-batch-before-it-is-packaged)
- [What moves bytes: ChunkReader, DcpReader, SftpSlots, UsageCache, DipCopy, Derivatives](#what-moves-bytes)
- [Runs](#runs)
- [Proofs](#proofs)
- [Where the code departs from its comments](#where-the-code-departs-from-its-comments)
- [What is not modelled, and the plan](#what-is-not-modelled-and-the-plan)

Tools: `tlc -workers 2 -config staging_custody.cfg MCStaging.tla`, `tlapm StagingProofs.tla`.

## Inventory of the system

The service runs as four gunicorn *sync* workers (`deploy/curation-api.service:25-37`): four processes, each
serving one request at a time, killed when a request exceeds `--timeout` and recycled after `--max-requests`. They
share nothing but the file system, flocks and the remote stores. A Node application is the only client; it
drives packages through the stages with separate requests, polls, retries and lets staff cancel.

| Component | State it keeps | Operations | Interacts with | What is hard | What makes it correct |
|---|---|---|---|---|---|
| **Staging area** `lib/archivematica_ops.py:412-498,907-1121,1426-1542`, `lib/wasabi.py:275-433` | `001-ready/<folder>`, `002-ingest/<uuid>`, its `.lock` file, the batch archive in Wasabi | `move_to_ingest`, `move_from_ingest_to_ready`, `move_to_ingested` | SFTP upload (shares `002-ingest/<uuid>`), Wasabi | a lock file inside the directory it protects, two releases per rollback, an archive that takes no lock, killed workers | moves exclude one another; no file leaves the disk unverified; no lock outlives its request |
| **SFTP upload** `lib/archivematica_ops.py:231-409,1127-1420,1545-1606` | put registry of each process, put flock, two marker files, the remote tree | `move_to_sftp`, `check_sftp`, `request_upload_cancel`, `clean_up_sftp` | staging area, SFTP slots | a thread that outlives its request and dies with its process; the outcome travels through marker files and file counts | one writer per package; every put's outcome can be read; a verdict is true |
| **SFTP sessions** `lib/archivematica_ops.py:108-228` | host-wide flock slots, pacing state | `_open_sftp`, `_sftp_connect`, `pace` | every SFTP user | slots at their limit, retries that hold one, release on every path | never more sessions than slots; a waiter gets one or is refused; no slot is taken without a live holder (one path leaks one, [see below](#where-the-code-departs-from-its-comments)) |
| **Ready-stage QA** `lib/archivematica_ops.py:501-904` | `001-ready`, a file named `collection` in the working directory | folder, package and file name checks that rename, `uri.txt`, batch size | staging area | renames that collide, threads, one shared `collection` file for all clients | a rename loses no file; a request works on the folder it named |
| **AIP copy, Archivematica** `lib/aip_ops.py:126-503` | one progress file per AIP, the Wasabi object | `copy_aip_to_wasabi`, progress | Archivematica storage service, Wasabi | probe, delete, upload with no lock between; concurrent callers; crashes | an object with the right key and size is the AIP; a failure never leaves one that is not |
| **AIP copy, DuraCloud / DCP** `lib/duracloud_ops.py:138-1009`, `lib/dcp.py` | chunk reader position, digests, progress file, the Wasabi object | manifest, chunk stream with retry and MD5, cleanup delete | DuraCloud, S3, Wasabi | verification after the upload; a retry of a chunk half delivered; a cleanup that fails | bytes delivered are verified bytes in order; a corrupt copy is never kept |
| **DIP copy** `lib/dip_ops.py:208-444`, `scripts/dip_backfill.py` | the Wasabi objects | completeness gate, per-file copy with verification and retries | DCP, Wasabi | listings that are stale by the time of the copy, retries, overlapping copies | a DIP is reported copied only when all served files are there |
| **Wasabi client** `lib/wasabi.py` | none but the remote store | streamed uploads, probes, listings, part size | S3 | part-size arithmetic at its limits, size check after upload | at most 10,000 parts; success means the size agreed |
| **Bucket usage cache** `lib/storage_usage.py:52-227` | result file, `computing` marker | read, background recompute | Wasabi | two workers start at once, a worker dies with the marker | the cache is a whole result or missing; a dead marker expires and the result is computed again |
| **Digital objects** `lib/make_digital_object.py:182-760`, `routes/astools.py` | ArchivesSpace records, `uri.txt` files | create, attach, write `uri.txt`, revert | ArchivesSpace | create succeeds and the link, a component or the write of `uri.txt` fails; retries; a script that outlives its request | success means done; nothing is made twice; an entry id goes to its own file |
| **Batch structure** `lib/batch_structure.py:89-328` | none | classify a directory tree | the other views of a batch | four sweeps with rules of their own over one tree | no batch falls between the views; the sweeps agree |
| **TIFF conversion** `lib/convert_ops.py:95-382`, `routes/convert.py` | image store, temporary files | fetch, convert, rename; serve | DuraCloud, DCP | two conversions to one name, a full disk, a failure or kill in the middle, a reader in between | a reader is sent a whole image; no temporary file stays |
| **Archive listing, path checks, key check, configuration** `routes/archive.py`, `lib/safe_names.py`, `auth.py`, `app.py`, `config.py` | none | read-only | — | — | stateless |
| **Repair scripts** `scripts/*.py` | Wasabi and a restore directory | reconcile, restore, sync, abort uploads | Wasabi | run by hand, one at a time | a plan repairs exactly what differs |

Every component is listed with its status in `PROJECT.json`, and every hazard with its line and the property
that watches it.

## Modules

| Module | What it is |
|---|---|
| `PackageCustody` | abstract specification: a package is ready, in ingest or archived, and a file leaves the disk only after it was verified |
| `Staging` | the staging area of one collection, one action per file-system call of the three requests; refines `PackageCustody` |
| `SftpUpload` | the upload of the packages of one collection, its status, cancellation and cleanup, and what a rollback does to it |
| `AipCopy` | the copies of one AIP to its key in Wasabi, from Archivematica, DuraCloud or DuraCloud Preserve |
| `DigitalObjects` | runs of Make Digital Objects on one batch, their requests to ArchivesSpace, the revert |
| `ReadyNames` | the requests that sweep hidden files and normalise names in a batch folder, with their threads |
| `CollectionFile` | the one file `collection` that carries the folder of every client |
| `BatchScan` | the four sweeps over a batch folder, as operators, and the revert that moves a batch between views |
| `VerifiedStream` | abstract specification: an object is handed over in order, each byte once, and ended only when whole |
| `ChunkReader`, `DcpReader` | the two readers of `lib/duracloud_ops.py`; both refine `VerifiedStream` |
| `SftpSlots` | the host-wide slots for SFTP sessions, their waiters and their holders |
| `UsageCache` | the cache of what the buckets hold: polls, walks, temporary file and marker |
| `DipCopy` | the copies of one DIP to Wasabi, by requests and by the backfill script |
| `Derivatives` | one derivative image: the conversions that write it, the requests that read it |
| `MCStaging`, `MCSftpUpload`, `MCAipCopy` | instances for TLC: the sets of requests and cleanups, symmetry |
| `ReadyStage` | `DigitalObjects`, `ReadyNames`, `CollectionFile` and `BatchScan` side by side |
| `Transfers` | `ChunkReader`, `DcpReader`, `SftpSlots`, `UsageCache`, `DipCopy` and `Derivatives` side by side |
| `MCReady`, `MCTransfers` | instances of those two (see [Runs](#runs)) |
| `StagingProofs`, `CustodyProofs`, `SftpProofs`, `AipProofs` | theorems and their proofs about the staging area, the upload and the copy of an AIP |
| `HostProofs` | the same about `SftpSlots`, `UsageCache` and `Derivatives`, what the workers of a host share |
| `StreamProofs` | about `ChunkReader`, `DcpReader` and `DipCopy`, and about `Transfers` |
| `ReadyProofs` | about `ReadyNames`, `CollectionFile` and `BatchScan`, and about `ReadyStage` |
| `ObjectsProofs` | about `DigitalObjects` |

`Staging` and `SftpUpload` are of one collection (one `uuid`/`pid`): the lock, the directory, the put lock and the markers of one
collection are disjoint from those of another; `AipCopy` is of one AIP, whose key and
progress file are its own. Only the SFTP session slots are shared between collections; `SftpSlots` models them for every caller,
and the modules of the callers see a connection that succeeds or fails. The modules of one batch (`DigitalObjects`, `ReadyNames`,
`BatchScan`) are about a batch in WORKSPACE, one in `001-ready`, and either.

<a name="the-staging-area"></a>
## The staging area: Staging and PackageCustody

**State.** `loc[p]` is where the package directory is and `cont[p]` the files left in it; `dir` and `batch` say whether
`002-ingest/<uuid>` and `001-ready/<folder>` exist; `lock` names the worker whose `.lock` file is in the
collection directory (the code writes no owner into it: the name is the model's, and no action of a worker reads
it). `wasabi` holds the files whose size `upload_directory` has verified. Each worker has a program point, the
arguments of its request and the local variables that survive a step: the entries `os.walk` or `rmtree` has listed
(`walk`), the files still to handle (`todo`), the counts of `upload_directory` (`tally`). `stolen` is a history
variable: the workers in a locked section whose `.lock` another worker has removed; `stale`, another, is set when the `.lock` that lies there has
been left behind by a killed worker, a failed removal or a failed write.

**Actions.** One per file-system call, because another worker may run between any two.

| Action | Code |
|---|---|
| `LockMakedirs`, `LockTest`, `LockOpen` | `_lock_uuid`: `makedirs`, `exists`, `open(O_CREAT\|O_EXCL)`; a `FileNotFoundError` of the last is not caught and ends the request; so does a write that fails after the create, and then the `.lock` stays |
| `Unlock` | `_unlock_uuid`: removes whatever `.lock` is there; a removal that fails is only logged, and the file stays |
| `InCheck`, `InMkdir`, `InMove`, `InUnlock` | `move_to_ingest` |
| `RbCheck` … `RbFinal` | `move_from_ingest_to_ready`, with both releases: `RbUnlock` (line 1093) and `RbFinal` (line 1121) |
| `ArIsdir`, `ArWalk`, `ArVisit`, `ArUpload`, `ArDecide`, `ArRaise` | `move_to_ingested` and `wasabi.upload_directory`: the walk, each directory, each file with its size check, the verdict, an exception that no file's `except` catches |
| `ArScan`, `ArRmOpen`, `ArRmFile`, `ArRmPkg`, `ArRmLock`, `ArRmDir` | `shutil.rmtree`, entry by entry; it works relative to open directories, so a package renamed away keeps losing files |
| `Crash` | gunicorn kills the worker: no `finally` clause runs |

`shutil.move` into `002-ingest/<uuid>` is one `rename` (both areas are on one file system). When the target directory has
vanished the rename makes the package *be* the collection directory: `loc = "spilled"`.

**Abstracted.** File modes (`reset_permissions` changes nothing else), names, dotfiles (neither uploaded nor
expected: staff packages have none that matter), the markers of an upload (they live in the same directory; they
are in `SftpUpload`), snapshots that are in Wasabi before the archive starts. Staff do not remove the batch folder
while the service works on it. `Init` lets the packages start anywhere between ready and ingest.

**The client's discipline.** The code has no lock around `move_to_ingested`. With `Overlap = FALSE` clients never have
an archive and a `move_to_ingest` of the same collection in flight together: an assumption about the clients, which
nothing in this repository enforces. With `Overlap = TRUE` they send anything at any time.

<a name="the-sftp-upload"></a>
## The SFTP upload: SftpUpload

**State.** `inflight[w]` is `_sftp_puts_in_flight` of process `w`; `pc`, `left`, `cur` are the put thread of a package in a
worker (where it is, files to send, file being sent); `flock[p]` is the put lock, `closing` the packages whose put
has left the registry and not yet closed the lock; `error` and `cancel` are the marker files; `local` and
`staging` the local package and its collection directory; `top`, `rdir`, `remote` the remote directories and, per
file, whether it is absent, partly or wholly there; `cl`, `clop`, `doomed` a cleanup at work; `told[p]` the last answer
of `check_sftp`. `ended` (how the last put of a package ended) and `asked` (packages whose put was asked to
stop while it had files to send) are history variables.

**Actions.** `MoveToSftp` and `RequestUploadCancel` are requests; a poll, `check_sftp`, is two steps: `CheckMarker` reads the marker, and only after an SFTP session
has been opened, which may wait for a slot and retry for minutes, `CheckWalk` counts the remote files. `told[p]` is `"asking"` in between, and `"crossed"` once a put of the package is or
has been at work meanwhile; one poll per package is followed. The thread is `PutLock` (the flock, or the
bow-out), `PutClear` (stale markers), `PutCheck`, `PutConnect`, `PutStat`/`PutMkTop`/`PutMkPkg` (`_sftp_mkdir_p`: a `stat`
followed by a `mkdir`, before the walk and once more in it), `PutWalk`, `PutSend`, `PutSending`, `PutConfirm` (one file: the
cancellation check, the open that truncates, the transfer with its checks every 8 MB, paramiko's size check),
`PutVerify`, `PutBreaks` (any remote operation raises, the close of the session after the last file included), `PutFailed`, `PutCancelled`, `PutDiscard`, `PutClose`. `CleanBegin` … `CleanRmTop` are `clean_up_sftp`, for its own request
or for a rollback, which then moves the package away (`RollbackMove`); `MoveToIngest` brings it back. `Kill` is the
death of a worker with all its threads and flocks.

**Local failures.** The lock file may not be made or opened (lines 1216-1217, outside the `try`: the thread dies, in `PutLock`), a stale marker may not be removed (`PutClear`), nor a
cancellation flag (`PutCancelled`), and the error marker may not be written (lines 1276-1277, in `PutFailed`). `ended[p]` tells how the last put ended; `"mute"` are those that could leave no word of it, for lack of
a lock file or of a marker. `MaxFaults` bounds failures of both kinds, remote and local.

**Abstracted.** A connection is one step that succeeds or fails (slots, retries and back-off are
`SftpSlots`). A package is one flat directory.
Byte counts in the answer only feed a progress bar. The put of the whole `002-ingest` tree (a request without a
package) is not modelled: it takes a put lock of its own key, which keeps it apart from no package's put; the Node worker always names a package.

<a name="the-copy-of-an-aip"></a>
## The copy of an AIP: AipCopy

**State.** `obj` is what is at the AIP's key: nothing, the AIP (`good`), an object of its size that is not it (`bad`), or one
of another size (`short`). `progress` says whether the progress file exists; all copies of the AIP share it. Each
caller has a program point, its source (`route`), whether it knows the size (`known`), what it uploaded
(`sent`), the answer it is going to give (`verdict`) and its last one (`ans`). Fixed from the start, but any:
whether the AIP is over the threshold with DuraCloud configured (`large`), how the replica is held (`source`: a DCP
object, a DuraCloud object, or chunks with a manifest), and whether the installed urllib3 rejects a body shorter than
its Content-Length (`strict`; `requirements.txt` does not pin it). History: `seen[w]`, the object as w's probe saw it; `by`
and `refuted`, who stored the object and whether its manifest refutes it, from the upload on and so before anybody has verified it; `slipped`, whether the delete of a refuted object failed or its worker died;
`leftover`, whether the progress file that lies there was left by a failed removal or a killed worker; `crossed`, whether two copies have been in flight together.

| Action | Code |
|---|---|
| `Begin` | the two routes |
| `LookUp`, `ResolveKeyAndSize` | Archivematica's metadata, with the hand-over of a large AIP; the listing of the replica when it is down (no size) |
| `Probe`, `Delete` | `head_object` and its verdict, the delete of an object of the wrong size |
| `Manifest`, `Open`, `Seed` | the manifest (404: a single object), the stream and the first progress file; DCP opens before it seeds, outside its `try` |
| `Upload`, `WriteProgress` | `upload_fileobj`: the object is replaced when the upload completes, and not before |
| `Verify`, `CleanUp` | `verify_total` of a chunked replica after the upload, and the delete of what it refutes, whose failure is logged |
| `Finish` | the `finally` that tries to clear the progress file (a failure is swallowed), and the answer |
| `Kill` | the worker dies; an upload under way never completes |

**Abstracted.** The readers of chunks and ranges, with their retries, appear by their outcome: the stream is delivered, breaks,
or breaks in a way that calls for the cleanup. A single object and a DCP object are verified by their readers before the last byte is handed over, so what of them is wrong breaks the upload; the check that follows it in
`lib/duracloud_ops.py:728` is out of reach. Writing the progress file may fail without effect (`WriteCopyProgress`). A manifest without an MD5, of which `verify_total` compares only the size, is not modelled. The replica's manifest describes the AIP, and what passes the digest of the whole
is the AIP; without a digest, an object of the right size may still be wrong, and `GoodKept` does not promise
otherwise. Configuration errors answer before anything happens.

<a name="a-batch-before-it-is-packaged"></a>
## A batch before it is packaged: DigitalObjects, ReadyNames, CollectionFile, BatchScan

### DigitalObjects

**State.** On disk, `uriTxt[p]` (none, truncated and not yet written, naming the package's item, or naming another record) and `files[p]`.
In ArchivesSpace, `catalog[p]` (items with the component id), `object` (identifiers of digital objects that are
taken), `instances[p]` (digital objects attached to the item) and `rows[p]` (components, with their Kaltura entry ids). A run
has a program point, how many packages it has begun, the package at hand, the titles its tree listed, the files left, its
mapping and the packages that failed; `waiting` are the runs whose worker waits for them. History: `refused`
(runs that had a post refused), `reverted` (runs during which a `uri.txt` was removed), `crossed` (two runs have been at work
together), `trouble` (failures and kills so far).

| Action | Code |
|---|---|
| `MakeDigitalObjects`, `Finish`, `Answer`, `Timeout`, `KillWaiter` | the route (`routes/astools.py`): the subprocess, its exit code, the hour after which it is killed; a killed worker leaves it running |
| `CheckUriTxt`, `UriFails`, `SearchItem`, `NoSingleItem`, `WriteUriTxt` | `check_uri_txt`, `write_uri_txt`: the cached URI, the search that must find one item, `open(.., 'w')` and the write |
| `CheckDigitalObject`, `TooManyObjects`, `WriteDigitalObject`, `IdentifierTaken`, `PostLink` | `check_digital_object`, `write_digital_object`: the object, then the link from the item |
| `FetchTree`, `NoFiles`, `ProcessSingleFile` | `process_files`: the tree is read once, then each file's component is created, completed with its entry id, or left |
| `PostRefused`, `RequestFails`, `AnswerLost` | an answer other than 200 (printed by `post_json`), an exception, an exception after the effect |
| `Revert` | one turn of `revert_to_make_digital_objects` |
| `Prepare` | staff, between runs: files come and go, items are catalogued, objects attached by hand, a `uri.txt` is copied |

**Abstracted.** Captions, file versions, publish flags and the repeated post of `is_representative` are data of a record that no property tells
apart; Kaltura entries without a package (an old format) are left out; the components of one title are completed in one step.
ArchivesSpace is external: identifiers are unique, a record that changed since it was read is refused, a tree lists its first `PageSize`
children (`PageSize` stands for 200).

### ReadyNames

**State.** `parcelName`, `itemName` are the names of package directories and files, by what the normalisation tells apart: a word, upper
case, blanks, a dot. `hidden` and `junk` are the hidden files in packages and in the batch folder. A request has its kind,
program point, the packages it has listed and not come to, and what its main thread has seen; `threads` are the threads of
`check_file_names`, one per package, each with the names it has listed. `disturbed` is a history variable: the requests
that met another one or a hidden file.

**Actions.** `BeginCheck` lists the packages; `Look`, `Sweep`, `SweepRaises` remove a hidden file from a folder listed before; `PackageTurn`
renames a package (`check_package_names_threads`); `FileTurn` starts the thread of a package, whose steps are `ThreadList`, `ThreadSweep`, `ThreadRename`,
`ThreadDies`; `MainList`, `MainSweep`, `MainRaises` are the main thread's own sweep beside it; `EndCheck` joins the threads. An exception in the main thread
answers with status 500 and leaves its threads running (`Raise`). `KillCheck` takes request and threads; `HiddenAppears`
is a workstation that leaves a `.DS_Store`. A `rename` is POSIX: it fails on a directory that holds something, replaces an empty one and
replaces a file.

**Abstracted.** Read-only answers of the ready stage (batch size, missing `uri.txt`, empty packages) are in `BatchScan` or keep no state. Nothing writes the
errors file that one request reads.

### CollectionFile

`OpenCollection` truncates the file, `WriteCollection` writes the client's folder (a name written over a longer one leaves a
mixture), `ReadCollection` is the later request that says `collection` for its folder. `overtaken` are the clients that another one met on the way.

### BatchScan

A tree is a folder name, a flag for loose files and a sequence of directories, each by what the sweeps tell apart: kind of name, readable, `uri.txt` (none, a
file, a directory), content, nesting. `Flags` is `scan_batch`, `InWorkspace` and `InProcessed` the two views, `MissingUri`,
`MissingUriQa` and `Listed` the checks of the ArchivesSpace QA and the ready stage. `PackageProcessed` and `RevertBatch` are the two things that change a tree between looks. The view of processed batches ends its search at a directory
it cannot read, junk-named or not, while the workspace looks only at packages: a batch all of whose packages are processed is in neither view when such a directory is listed before them (`BlindedByJunk`, and `AlwaysInSight` below).

<a name="what-moves-bytes"></a>
## What moves bytes: ChunkReader, DcpReader, SftpSlots, UsageCache, DipCopy, Derivatives

**ChunkReader** (`ChunkStreamReader`, `_transfer_config_for`). The upload asks for a part (`PartSize`), which is filled from `buffer`, the
verified chunk (`FullPart`, `LastPart`); `LoadNextChunk`, `OpenStream`, `StreamUnit`, `StreamBreaks`, `Resume`, `StreamEnds`, `VerifyChunk`, `ChunkIsWrong`,
`DownloadFails` are the download of a chunk into a spool, with its resumes and repetitions, `VerifyTotal` the check at the end.
Sizes are in units; a unit is its number, or 0 when it is corrupt. *Found while modelling:* `response.raw.read` raises urllib3's own exceptions,
which `except (requests.RequestException, RuntimeError)` (`lib/duracloud_ops.py:320`) does not name, so a body that breaks
with an exception ends the read; only a body that ends short is resumed. `StreamBreaks` follows the code.

**DcpReader** (`DcpStreamReader`, `DCPClient.open_range`). `received` is the list of bytes handed over, each with the version of the object it came from.
`Breaks` and `OpenRange` are `_resume`, whose budget is renewed by progress and whose request is pinned to the first ETag;
`ObjectReplaced` is another writer. S3 always reports a size; the single object of DuraCloud without a Content-Length is left out.

**SftpSlots** (`_acquire_global_slot`, `_open_sftp`, `_release_slot_on_close`). `flock[s]` is the worker whose open file has the lock of a slot; a caller scans the slots
(`TakeSlot`, `SkipSlot`), naps (`Exhausted`, `Wakes`), gives up after its `Deadline`; it holds its slot while it connects, backs off and has a session
(`Connects`, `ConnectFails`, `ConnectAgain`, `Close`). `SftpCloseRaises` is the path on which the client is never closed; `KillWorker` releases its flocks. The pacing
of connects within a worker is a delay and nothing else.

**UsageCache** (`lib/storage_usage.py`). `cache` and `tmp` are the contents of the two files, `file[w]` the file that a walk writes: a rename moves the open file with it, so
a walk may go on writing what has become the cache. `Computing` reads the marker, `ForceRefresh` does not; `MarkerAges`
is half an hour. Errors of writing the marker or the temporary file are logged and have no further effect; they are left out.

**DipCopy** (`copy_dip_from_dcp` and the backfill). Contents are classes: `first` and `second` are what DCP has, `older` what an earlier DIP left in Wasabi, `wrong` bytes of the
first's size. `ListDcp` has the completeness gate, `ListWasabi` the second listing; per file `Skip`, `ReadFile`, `ReadBreaks`, `PutFile`, `PutBreaks`, `PutDiffers`. `Written` and `Renewed` are
Archivematica, which still writes the DIP or replaces a file. A run of the script is a request in `Backfill`: no gate, Wasabi listed first, no retries. A copy in Wasabi that a listing shows without an ETag is left out.

**Derivatives** (`write_derivative`, `get_image`). `jpg` and `tmpfile` are what the two files hold, piece by piece: `handle[c]` is the file a conversion has open, which a rename moves and a removal
leaves without a name, and a write behind the end of a file that another truncated leaves a `Hole`. `OpenTmpFile`, `WritePiece`, `EndWrite` (all of it, some of it on a full disk, or an exception), `StatTmpFile`,
`ReplaceTmpFile`, `RemoveTmpFile` (whose failing `unlink` is swallowed) are the steps of `write_derivative`, `KillConversion` the death of its worker. `LookAt` is `get_image`; `Measure` and `SendImage` are werkzeug's
`send_file`, which takes the length before it opens the file. All conversions are to one name (`derivative_name` gives `a.tif` and `a.tiff` the same). The space
check, the fetch and the decoding keep no state: a conversion that they refuse changes nothing.

## Runs

| Run | Instance | Shows |
|---|---|---|
| `staging_custody` | 2 workers, 2 packages of 2 files, all requests, `Overlap = FALSE`, 1 killed worker | the lock is acquired atomically and lost only by another worker's release of it; no file leaves the disk unverified; every step is a step of `PackageCustody` |
| `staging_overlap` | 2 workers, 1 package of 2 files, all requests overlapping, 1 killed worker | a prune or an `rmtree` never takes a directory that has an entry; a `.lock` is left only by a killed worker, a failed removal or a failed write; every request is answered |
| `sftp_full` | 2 workers, 1 package of 2 files, cancellations, cleanups, rollbacks, 1 fault, 1 killed worker | one writer; the remote area stays a tree; a cancellation stops the put it was meant for |
| `sftp_outcome` | 1 worker, 2 packages of 2 files, 1 fault, remote or local | the outcome of the last put can be read off the disks; `upload_complete` at rest is true, but for a put without a verdict and a poll that a failing put crossed; a put settles unless its lock file or its marker cannot be made |
| `aip_copy` | 2 callers, any replica, any urllib3, 2 killed workers, sizes always reported | a good copy is lost only to a copy that had probed before it was there, and never without overlap; ok means the right size; a copy that its manifest refutes goes unless its delete fails or its worker dies; the progress file means an active copy unless its removal failed or a worker died |
| `ready_stage` | 2 runs of Make Digital Objects on 2 packages, 1 failure or kill, 1 edit or overlapping run; 2 name checks on 2 packages, 2 files; 2 clients of the `collection` file; every batch folder of up to one directory and the well-named ones of two | success means done, nothing is made twice or taken away, what is half done has a cause; a rename loses a file only to a namesake, an undisturbed check normalises; a request works on its own folder unless overtaken; a batch is in the view that its packages call for, with one exception that is named |
| `transfers` | AIPs of 1 to 3 chunks of 3 units; an object of 4 bytes; 3 callers in 2 workers on 2 slots; 2 polls, 2 walks; 2 copies of a DIP of 3 files, one a backfill; 2 conversions to one name, of 2 images, and a reader; each with breaks, retries and a kill | both readers implement `VerifiedStream`; parts fit; a taken slot has a live holder; the cache is whole; copied means there; a reader is sent a whole image and a temporary file stays only after a kill or a failed removal; nothing hangs |
| `v_exclusion`, `v_unarchived`, `v_registry`, `v_complete`, `v_masquerade` | the smallest instance that shows it | the five findings below |

**Bounds.** Two workers are enough for every race between two requests; a third request is served by a worker that
has answered its first. Two packages are needed for siblings (shared collection directory, shared remote parent),
two files for "some but not all". `MaxCrashes`, `MaxKills` and `MaxFaults` bound how often a worker dies and an operation of the upload, remote or local,
fails: a second crash or fault meets the same program points as the first. Wasabi's uploads may fail any number
of times, and so may the local calls of the other modules whose failure the code handles or swallows (the removal of a lock, of a progress file, of a temporary file). Requests are unbounded: every run covers retries of
retries. `staging_overlap` has one package because its liveness property forbids symmetry. `aip_copy` has two callers because a copy
is endangered by one other; each may ask again without end. `Sizeless = FALSE` is what S3 guarantees.

`ready_stage` and `transfers` check several modules in one run, composed by `ReadyStage` and `Transfers`. The parts share no state: `part` (or `component`) says which of them a behaviour is about, and
the others stay as they are (`ReadyPartsApart` and `TransfersApart` prove that each part still follows its own specification), so the states of the run are the *sum* of the parts' states and not their product.

- *DigitalObjects*: `PageSize = 1` puts the second component of a package beyond the page, `MaxRows` = 4 leaves room for one retry of everything, `MaxTrouble = 1` and
  `MaxEdits = 1` are one failure or kill, and one revert, edit or overlapping run, anywhere. Two files, one name in common, two mappings that disagree.
- *ReadyNames*: names that collide before and after normalisation, an empty package a rename can replace, one hidden file.
- *BatchScan*: the properties compare sweeps that look at each directory by itself, or count; two directories are enough for "some but not all".
- *ChunkReader*: a chunk of 3 units is not a multiple of the part of 2, so parts end inside chunks; 3 chunks exceed `MaxParts = 2` default parts, so parts grow.
- *SftpSlots*: 3 callers for 2 slots, two of them in one worker. *UsageCache*: 2 walks, for the races are between two. *DipCopy*: a METS, a multipart file whose size never changes,
  one that the site does not serve. *Derivatives*: an image of 2 pieces and one of 1, so that sizes agree or differ; `MaxShared = 1`, two conversions together once.

**Fairness.** `Staging!FairSpec` is weak fairness of each worker's own step: a worker is a process, no step of it waits
for another request, so it cannot be stopped for good except by being killed. Nothing obliges a request to arrive
or a worker to die. `SftpUpload!FairSpec` is weak fairness of each put thread and of the close of its lock; polls,
cancellations, cleanups and kills need never come. In both, a call to a remote store is assumed to return in the end
(it has timeouts, and gunicorn kills what has not). In `transfers`: weak fairness of each reader's own steps (it is driven by an upload that reads
on), of each waiter's scan and of its deadline (time passes), of each poll and each walk, and of the age of a marker; a `UsageCache` whose clients stop polling
need not be refreshed, so its clients poll on. `DipCopy`, `Derivatives` and the modules of `ready_stage` assume no fairness: only safety is checked.

**Deadlock** is checked in every run but `transfers`, whose streams and copies end, and never occurs: a new request is always possible. Waiting is what the
liveness properties are about.

**Mutants.** Each property has a plausible bug beside the action it concerns (an operator whose comment starts
with "Mutant:"), for example `LockOpenShared` (`O_CREAT` without `O_EXCL`), `RbCheckReturns` (early returns outside the
`try`), `ArDecideAny` (some file uploaded is enough), `PutLockIgnored`, `PutLockClears` (markers cleared before the lock is
taken), `CheckMarkerSkipped` (the marker is not consulted). TLC finds the property violated when the mutant takes the
place of the action. Next never uses a mutant. `TransfersEnd` joins the liveness of four modules and has four mutants.

## Proofs

| Theorem | Module | States |
|---|---|---|
| `TypeCorrect` | `StagingProofs` | `Spec => []TypeOK` |
| `LockOwned`, `ExclusiveUnlessStolen` | `StagingProofs` | who is in a locked section owns the `.lock`, unless robbed; two in a section means one was robbed |
| `LockReleased` | `StagingProofs` | no way out of a locked section leaves a `.lock` behind, but a kill, a failed removal and a failed write |
| `EntriesHeld` | `StagingProofs` | no prune and no `rmtree` takes a directory with an entry |
| `NothingLost` | `CustodyProofs` | `~Overlap => (Spec => []RemovedOnlyVerified)` |
| `CustodyKept` | `CustodyProofs` | `~Overlap => (Spec => CustodySpec)`: `Staging` implements `PackageCustody` |
| `AipTypeCorrect`, `RefutedGoes`, `ProgressActive` | `AipProofs` | types; a refuted object goes unless its delete fails or its worker dies; a progress file means an active copy unless its removal failed or a worker died |
| `SeenIsSafe`, `GoodStays` | `AipProofs` | `~Sizeless => (Spec => LostToStaleProbe)` and `~Sizeless => (Spec => GoodKept)` |
| `OkMeansSized` | `AipProofs` | `Spec => OkIsSized`: without overlap, ok means the size the caller knew (no `~Sizeless` needed) |
| `CancelReaches` | `SftpProofs` | a put asked to stop while it had files to send never finishes |
| `OutcomeReadable` | `SftpProofs` | `Cleanups = {}` gives `Spec => []OutcomeKnown` |
| `CompleteWhenAtRest` | `SftpProofs` | `Cleanups = {}` gives `Spec => CompleteAtRest` |
| `SftpTypeCorrect`, `SingleWriter`, `AreaStaysTree` | `SftpProofs` | types; never two writers of a remote package; the remote area stays a tree |
| `SlotsTypeCorrect`, `HoldersMatch`, `SessionsBounded` | `HostProofs` | types; a taken slot has a live holder of its own or was leaked; never more sessions than slots |
| `UsageTypeCorrect`, `CacheStaysWhole` | `HostProofs` | types; while walks do not overlap the cache is missing or whole |
| `DerivativeTypeCorrect`, `DerivativesStayWhole` | `HostProofs` | types; a reader is sent a whole image, and a temporary file stays behind only by a kill or a removal that failed |
| `DcpTypeCorrect`, `DcpReaderVerifies` | `StreamProofs` | types; `DcpSpec => DcpVerified`: `DcpReader` implements `VerifiedStream` |
| `ChunkTypeCorrect`, `ChunkReaderVerifies`, `PartsAlwaysFit` | `StreamProofs` | types; `ChunkSpec => ChunksVerified`: `ChunkReader` implements `VerifiedStream`; every part but the last is full and there are never too many |
| `DipTypeCorrect`, `CopiedIsThere` | `StreamProofs` | types; a DIP reported as copied has every served file in Wasabi, as far as the checks of a copy can tell |
| `TransfersApart`, `TransferTypesCorrect` | `StreamProofs` | composed, the six components still follow their specifications; all types |
| `FolderTypeCorrect`, `SentinelKept` | `ReadyProofs` | types; a request works on its client's folder unless another client had the file open in between |
| `NamesTypeCorrect`, `QuietChecksNormalise` | `ReadyProofs` | types; an answered check that met nobody and no hidden file has normalised its names |
| `LostFilesHaveNamesakes` | `ReadyProofs` | whatever interleaves, no directory with files is lost and a file only to a namesake of its package |
| `BatchesStayInSight`, `SweepsAlwaysAgree` | `ReadyProofs` | for every set of trees: a batch with content is in the workspace until all its packages are processed and then only in the processed view, unless an unreadable junk-named directory precedes them; the sweeps agree |
| `ReadyPartsApart`, `ReadyTypesCorrect` | `ReadyProofs` | `ReadySpec` implements `ObjectsSpec`, `NamesSpec`, `FolderSpec` and `ScanSpec`; all types |
| `ComponentsKept`, `EntryIdsOwn` | `ObjectsProofs` | nothing is taken from a component; entry ids are those of its own package and file |
| `ComponentsOnce` | `ObjectsProofs` | without overlap, a second component of a title lies beyond the first page |
| `HalfDoneExplained`, `SuccessIsDone` | `ObjectsProofs` | an object without its link, or an empty `uri.txt`, is in the hands of a run as long as nothing has failed or was killed; success means that the work of every package is done |

They hold for any sets of workers, packages and files and any bounds, from the assumption each module
states about its constants (`StagingAssumption`, `SlotsAssumption`, …): the "nobody" values are not workers, `.lock` is not a package, a package has a file, sizes
and bounds are natural numbers, the names in a directory differ at first.
TLC evaluates each assumption in every run of its module.

**The arguments.**

- `LockOwned` is inductive with `TypeOK`: `LockOpen` is the only way into a section and finds no lock file; every removal of
  somebody's lock adds that worker to `stolen`. `ExclusiveUnlessStolen` follows: two owners of one file are one.
- `ReleasedUnlessStale` is inductive with the types alone: a `.lock` that is not `stale` is of a worker in its section, which leaves it only through `Unlock`; what `Unlock` does not remove it marks, and
  the two releases of a rollback can only remove more. A later removal, by anyone, clears the mark: it is about the file that lies there now.
- `EntriesHeld` is inductive by itself: `rmdir` fails on a directory that is not empty, however stale the listing was
  on which it was decided.
- `NothingLost` needs `CustodyInv`. That every file removed is verified is not inductive: one must know that when
  `rmtree` starts, *every* file in the directory is verified (`RemovalVerified`); for that, that while `upload_directory`
  has counted no failure every file present is still in its walk, still to be uploaded, or verified
  (`UploadTracked`); and for both that nothing arrives meanwhile, which is where the clients' discipline enters
  (`InFlight`: each worker's program point agrees with its request, and no archive is in flight with an arrival).
- `CustodyKept` maps `loc`, `cont`, `wasabi` to `place`, `kept`, `safe`, with "spilled" as in ingest, "gone" as archived. A step
  that retires a package must find it empty (`RemovalTracked`: `rmtree` still has before it all files left), and the removal of a
  directory may retire at most one package, the one that is the directory (`OneSpill`).
- `SingleWriter` is inductive with `FlockHeld`: a put beyond `PutLock` holds the flock of its package, and a lock about to be
  closed is held by a worker whose put is over.
- `CancelReaches` needs to know that the request finds the put. `AskedStops` says that for each package asked to stop there is a put that will stop: one with files left whose marker still lies
  there, or one that has given up. It is inductive with `FlockHeld` (no other put of the package clears the marker, because only the holder of the flock does), `Registered` (a running
  thread is in its worker's registry, so no second start overwrites it) and `LeftFiles` (only a put that is filing, or gave up, has files left).
- `OutcomeReadable` rests on `OutcomeInv`: the disks tell how the last put ended (`Settled`), or a put at work holds the flock and its end will tell (`Accounted`); and a put has sent all its
  files but those it has left and the one in hand (`SentSoFar`). A cleanup removes what a put has sent: hence the hypothesis. Kills, cancellations and failed markers need none: such a put has ended, but
  neither `"sent"` nor `"failed"`, and `DeathIsTold` below is what the code does not keep of them.
- `CompleteWhenAtRest` adds `PollUncrossed`: a poll that nobody crossed has seen no marker, and there is still none. So when it counts all files of a package at rest, the last put of it was sent, or was silent; and
  one that was crossed and is answered beside an error marker is the poll that a failing put overtook.
- `AreaStaysTree` is inductive with the types: `rmdir` spares a directory with entries, and a file is only created in an existing one.
- `RefutedGoes` rests on `RefutedIsOwned`: a refuted object is its own uploader's, which is on its way to verify it, and will refute it (`Refutes`), or to delete it. A copy that overlaps may replace the object,
  and then it is not refuted, or is in the care of that copy.
- `ProgressActive` needs to know *who* has the file in its care: `ProgressShown` names the program points between the seed and the
  `finally` (`Shown`), which for DCP begin one step later, and `leftover` who may have failed in that care.
- `SeenIsSafe` rests on `ProbedUnseen`: nobody passes its probe having seen a good object. A HEAD without a size would break
  it, hence `~Sizeless`.
- `GoodStays` needs `Lone` (without overlap one copy is in flight) and `OwnObject`: before its upload the key holds no good object, and
  between upload and verification it holds what this copy uploaded, so what the verification refutes is what the cleanup deletes.
- `OkMeansSized` rests on `Lone` and `SizedInv`: while no copies have crossed, a copy at its verification finds at the key what it has uploaded, and one that is about to answer ok to a caller that knows
  the size has seen an object of this size there.
- `HoldersMatch` needs both directions at once (`SlotInv`): a caller that holds has a lock in its own worker's name (`HolderHasLock`), no two have the same
  (`OneHolder`), and a lock that is taken has a caller or was lost (`TakenHasHolder`, `LostIsTaken`): otherwise a `Close` could free another caller's lock. `SessionsBounded` then is an
  injection of the holders into the slots.
- `CacheStaysWhole` rests on `OneWriter`: without overlap at most one walk has the temporary file open, so what is renamed is what one walk wrote.
- `DerivativesStayWhole` rests on `OwnState` (only a conversion that writes has a file open, and what is open is there) and, as long as no temporary file was opened under another conversion, on `Apart`: one conversion
  is at work, the temporary file is a beginning of *its* image or gone (`TmpFileOf`), of full length once its size was compared. A removal by a conversion that failed earlier is harmless: the other finds the file missing and fails.
- `DcpReaderVerifies` rests on `DcpInv`: the open stream is always of the first ETag, so the bytes received are positions 1, 2, … of one version.
- `ChunkReaderVerifies` rests on `ChunkInv`: where the reader is among the chunks (`ChunkPlace`), that the spool is a prefix of one chunk, right or marked wrong (`ChunkSpool`), that what is
  buffered follows what is delivered (`ChunkOwn`), and that every finished part is full (`PartsFilled`). `PartsAlwaysFit` adds the arithmetic of `_transfer_config_for`
  (`PartSizeFits`): rounding up twice still leaves at most `MaxParts` parts.
- `CopiedIsThere` rests on `DipInv`: a listing of DCP is at most as new as DCP (`ListingOld`); what a listing of Wasabi showed is still there or has been replaced by a verified copy
  (`ListingReplaced`, which is why a skip is safe however old the listing is); what is in hand agrees with the listing (`HandVerified`); what is done without failure is there (`DoneIsThere`), and stays (`ThereStays`).
- `LostFilesHaveNamesakes` needs that names within a directory differ (so that a rename moves one file), and that a file's name stays `Alike` its original one (`NamesInv`): a namesake that is
  itself overwritten hands its debt to the file that took its place, since `Alike` is an equivalence.
- `QuietChecksNormalise` needs `QuietInv`, of every request that met nobody and no hidden file (`Quiet`): it is alone (`AloneThere`), a package it has passed is normalised or its new name taken
  (`PackagesDone`), a file is normalised, or its package is still listed, or in the hands of a thread that has not come to it (`FilesDone`); each package has one thread, and every name a thread has listed
  still has a file (`OwnThreads`), even when an earlier rename of the same thread overwrote that file. So no thread dies, which is the one way to lose names unheard. `QuietBefore` is the frame: whoever
  starts next to a quiet request disturbs it.
- `ReadyPartsApart` and `TransfersApart` are refinements without a mapping: a step of one part is a stutter of the others. `ReadyTypesCorrect` and `TransferTypesCorrect` then join the type theorems of the parts.
- `BatchesStayInSight` needs one fact beyond the types: an answer 200 means that the revert left no `uri.txt` file (`RevertedAll`). `SweepsAlwaysAgree` follows from the operators alone.
- `SuccessIsDone` is the deepest: `Located` ties the point of a script to its package and what it still has to do; `WorkDone` says of every package it has begun that it is attached, described or
  among the failures, and is kept because no step of anybody undoes it (`RowsGrow`, `UriKept`, and for `files` that staff edit only between runs).
  `ComponentsOnce` needs `Alone` (without overlap one script is at work) and `Fresh` (the page it read is still the page).

**Only model-checked:** the liveness properties (`Answered`, `Settles`, `TransfersEnd`), which are out of this prover's reach. Every safety invariant, action
property and refinement of the passing runs is a theorem; where a theorem needs `Overlap = FALSE`, `~Sizeless` or no cleanups, it names that as a hypothesis.

## Where the code departs from its comments

Five are runs that end in a violation, with the line they contradict in `PROJECT.json`:

1. **`v_exclusion`** — a rollback releases the lock at line 1093 and again in the `finally` at line 1121. In between another
   request can take it; the second release removes *its* lock and a third request enters.
2. **`v_unarchived`** — `move_to_ingested` takes no lock. A package that arrives between the upload's walk and the
   `rmtree` is removed without ever having been uploaded.
3. **`v_registry`** — a put that bows out returns before the `try` whose `finally` clears the registry: that worker answers
   `upload_already_running` for the package from then on.
4. **`v_complete`** — `check_sftp` counts files: the last one counts as soon as it exists, while it is still being sent.
5. **`v_masquerade`** — the delete of a chunked copy that `verify_total` refuted may fail. Nothing remembers that, and the next
   request, which knows the size, finds an object of it and takes that for the AIP.

The modules state more that the code does not keep; no run is spent on them, but each shows up when it is made
the INVARIANT (or PROPERTY) of the config named here:

| Property | Config | What TLC shows |
|---|---|---|
| `NoServerError` | `v_exclusion` | a prune removes the directory between `makedirs` and `open` of `_lock_uuid`; the exception is not caught (`lib/archivematica_ops.py:456`) |
| `PackagesStayPackages` | `v_exclusion` | the directory is pruned before `shutil.move`: the package becomes the collection directory (line 940) |
| `NoStaleLock` | `staging_overlap` | a killed worker, a failed removal or a failed write leaves a `.lock`; nothing breaks it and every later move is refused (line 475 promises otherwise) |
| `ReadyIsWhole` | `v_unarchived` | a rollback during the archive's `rmtree` returns a package that has lost files (they are in Wasabi) |
| `NoSpuriousError` | `sftp_outcome` with `MaxFaults = 0` | two packages create the remote parent at the same time; one `mkdir` fails (line 241) |
| `NoStaleVerdict` | `sftp_outcome` | a poll after a retry was started and before its thread clears the old marker reports the old failure |
| `ReturnedIsClean` | `sftp_full` | a rollback does not stop the put: files arrive after the cleanup |
| `DeathIsTold` | `sftp_outcome` | a put that dies with its worker (`MaxKills = 1`), cannot open its lock file (line 1216) or cannot write its marker (line 1276) leaves no word, and the poller waits for good |
| `CompleteIsFinal` | `sftp_outcome` | a poll reads no marker, a put fails on its last file, the poll then counts all files: `upload_complete` for an upload that has failed (lines 1329, 1350, 1356); so too after a put without a marker |
| `ProgressIsActive` | `aip_copy` | a failed removal (`lib/aip_ops.py:193-205`) or a killed worker leaves the progress file, which shows a copy that nobody makes |
| `OkIsSizedAlways` | `v_masquerade` | a short download from Archivematica is stored and answered with ok when urllib3 does not reject it: nothing compares the stored size (`lib/aip_ops.py:469`, where the comment at line 341 speaks of a size-only check) |
| `AcceptedStays` | `aip_copy` | a copy that probed earlier replaces or deletes the object another caller was told is there |
| `GoodKept` | `v_masquerade` with `Sizeless = TRUE` | an object of unknown size is copied over; the new copy may be wrong |
| `SuccessMeansDoneAlways` | `ready_stage` | a post that ArchivesSpace refuses is only printed (`lib/make_digital_object.py:84-109`): the run reports success without the link or the component |
| `ProcessedIsAttached` | `ready_stage` | a package counts as processed by its `uri.txt` (`lib/batch_structure.py:308-313`), which is written before the digital object is made |
| `NeverDuplicates` | `ready_stage` | overlapping runs, and objects with more components than a page of the tree, get second components |
| `AnsweredIsNormalAlways` | `ready_stage` | a thread of `check_file_names` that loses the race for a hidden file dies unheard (`lib/archivematica_ops.py:735-740`) and leaves its names as they were |
| `NothingLost` | `ready_stage` | two names of a package that normalise to one: a rename overwrites the other file (`lib/archivematica_ops.py:749`) |
| `AlwaysInSight` | `ready_stage` | all packages of a batch are processed and an unreadable junk-named directory is listed before them: the batch is in neither view (`lib/batch_structure.py:308`, `lib/archivesspace_ops.py:262-278`) |
| `SentinelIsOwnAlways` | `ready_stage` | two clients cross: one works on the other's folder through the file `collection` |
| `ProcessedAreListed` | `ready_stage` | a batch with processed packages and an unreadable directory is missing from the processed view (`lib/archivesspace_ops.py:276-278`) |
| `FolderNamesAgree` | `ready_stage` | a folder name passes the structure scan (`lib/batch_structure.py:82`) and fails the ready stage (`lib/archivematica_ops.py:588-599`) |
| `SlotsCannotLeak` | `transfers` | `sftp.close()` raises, `client.close()` is skipped, and the slot stays taken until the worker ends (`lib/archivematica_ops.py:95-97,165-169`) |
| `CacheWholeAlways` | `transfers` | two walks share one temporary file: one renames it over the cache while the other has truncated it (`lib/storage_usage.py:116`, "atomically write the cache") |
| `ImageServedAlways` | `transfers` | two conversions to one name share the temporary file: a reader is sent an empty, cut or mixed image (`lib/convert_ops.py:22`, "readers can never observe a partial or 0-byte file"); so is one that measured the file before another image replaced it |
| `DipOkMeansThereAlways` | `transfers` | an older multipart object of the same size is skipped and reported as there (`lib/dip_ops.py:376`) |

A cancellation that arrives after `move_to_sftp` answered and before the thread clears markers is lost in the same way; that
is why `CancelStops` speaks of puts that have files to send.

## What is not modelled, and the plan

Done, in the order of how much depends on the behaviour: `Staging` with `PackageCustody`; `SftpUpload`; `AipCopy`; `ChunkReader` and `DcpReader` with
`VerifiedStream`; `SftpSlots`; `DigitalObjects`; `DipCopy`; `UsageCache`; `ReadyNames`, `CollectionFile`, `BatchScan`; `Derivatives`. All with proofs.

Next:

1. The put of the whole `002-ingest` tree (a request without a package): it takes its put lock under another key, so nothing keeps it apart from the put of a package. The Node worker always names a package, so nothing that the
   service's client does today reaches it.
2. The repair scripts as operators on two listings (`reconcile_ingested_wasabi.py`, `restore_ingested_from_wasabi.py`, `sync_missing_to_wasabi.py`): that a plan repairs exactly what differs. They are
   run by hand, one process at a time.
3. `SftpUpload` with cleanups: what a poller may conclude when a rollback has removed a remote copy; `OutcomeReadable` and `CompleteWhenAtRest` are about puts without them.

Not planned: listings, presigned URLs, health probes, the key check, path-segment checks, configuration, nginx and log
rotation: they keep no state. The pool of threads and the report of the backfill script. The tests are read as statements of what is promised.
