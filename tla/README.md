# Jester in TLA+

Jester mines public discussions for problems people have and turns them into
product ideas. A Go worker walks communities, forums and property portals and
stores what it finds; a Python pipeline extracts *nuggets* from it, archives them,
writes *ideas* on groups of nuggets, scores them, and lets a person edit, publish
and follow them up. A second collector keeps *signals* (tenders, postings,
announcements) with their life cycle, and a console serves all of it over HTTP. All
of it meets in one SQLite file (and a Qdrant collection beside it) that several
processes write at once: the scheduled worker, scheduled `cycle` ticks, manual
commands, and the request threads and job threads of one or more consoles. Nothing
but SQLite's transactions, a few `BEGIN IMMEDIATE` blocks and two process-local
locks stands between them, and every long step is a model call or a network call
that may take minutes, fail, or never return. That is what these modules are about.

## 1. Inventory

| component | code | state | operations | hard because |
|---|---|---|---|---|
| Shared queue and skip-list | `store.py`, `go/internal/store/store.go` | `ingest_batch`, `ingested_comments` | EnqueueBatch, MarkIngested, mark_batch_processed | two programs write it, statement by statement |
| Ingest worker | `go/cmd/worker/main.go` | `thread_state`, the budget, comments in hand | list, skip unchanged, fetch, examine, mark, enqueue, record | the skip-list is written before the batch; exits anywhere; counts that grow between listing and fetch |
| Source rotation | `main.go`, `store.go` | `source_state`, `run_outcome`, ceilings of a run | SourceOrder, visit, TouchSource, record | a visit that fails, dies or is capped must not starve another source |
| Planned fetch | `scheduler.py`, `cli.py` | yields, the probe's turn | source_plan, the run that walks it | the turn must reach every barren source |
| Backfill | `hackernews/hn.go`, `cmd/worker/backfill.go` | a cursor in time | page, fetch, keep, move the cursor | interrupted and resumed; ties in time at a page's edge |
| Pipeline run | `cli.py`, `agents/extractor.py`, `agents/archivist.py` | `runs`, `nuggets`, the vectors | reap, start, bite, extract, archive, settle, finish; reembed | a run is declared dead by age; stand-ins; point before row |
| Ingest cycle and presses | `cli.py`, `worker.py`, `console/api.py` | one turn: its fetch, its run, its drain, its export | cmd_cycle, `ingest`, the press, `run` | turns overlap; a tick must not report what it did not do |
| Idea synthesis | `agents/synthesizer.py`, `agents/critic.py`, `idea_dedup.py` | `ideas`, `nuggets.synthesized_at`, the idea collection | group, draft, claim and insert, absorb, re-score; resynth; rescore; mark | rows held across model calls and written back whole; two processes on one pool; a quota that ends half way |
| Themes and drafts | `clustering.py`, `store.py`, `console/api.py` | `clusters`, members, drafts | cluster, replace, draft, save, promote, discard | a pass deletes and renumbers what others hold ids of |
| Vector space | `agents/archivist.py`, `cli.py` | vectors, `meta.corpus_embedding_model` | archive, reembed (backlog, --all, --recreate), retention | drop, then rebuild; a tag over many writes |
| Edit regime | `edits.py`, `console/api_chat.py` | `edit_proposals`, `edit_log`, rows, two yaml files | propose, apply, reject, expire, revert | request threads; a file and a log row that are two writes |
| Console jobs | `jobs.py` | `jobs`, one thread per console | start, end, reap | a row is declared dead by age; the last write may fail |
| Console server | `console/server.py` | connections, bodies | accept, check, read, answer, drain, time out | a body that is not read desynchronises the next request |
| Chat | `chat/*.py` | sessions, messages, traces | a turn: ask, rounds of tools, proposals, note, answer | a turn that dies half way; windows and sequence numbers |
| LLM transport | `llm.py` | one call's deadline | chat with retries and waits | all waits share one deadline |
| Quota blocks | `llm_quota.py`, `roles.py` | `llm_quota` by key | record_block, clear_block, settle | several runs, shared keys, stand-ins that must not pass for answers |
| Daily budgets | `quota.py`, `competitors.py` | `quota` by day | spend, search | several processes |
| Specs of sites | `specs.py` | a spec's status, its samples | propose, validate, approve, activate, run, drift | human gates; status read in one statement and written in another |
| Signals | `signals/run.py`, `signals/__init__.py`, `signals/limits.py` | records with revisions, events, budgets, cool-downs | collect, upsert, close, restore, reclassify, sweep | a record declared gone because a page was not read |
| Signals export | `signals/__init__.py`, `signals/clickhouse.py` | CSV shards, a manifest, the loaded table | export_csv, load, reconcile | power may be lost between a write and its sync |
| Listings, property dedup | `main.go`, `store.go`, `agents/property_dedup.py` | observations, listings, verdicts | observe, enqueue, sweep, dedup | one advert seen by several visits while payloads age |
| Leads and brief | `signals/from_archive.py`, `leads.py`, `brief.py` | the rows made of what the worker archived, their outcomes, two files | score, note an outcome, gather, write | a row scored again after somebody worked it; files written from rows read earlier |
| Evidence pack | `evidence.py` | three files in a run's folder | read the run, write the pack | two commands write one folder, a kill in between |
| CSV export | `export.py` | a tree, its staging, what was retired | export, swap, prune | a kill between two renames |
| Backup | `backup.py` | sets, the live archive | back up, verify, prune, restore, drill | killed half way; rot; pruning the last good set |
| Scheduling | `schedule.py` | tasks, launchers, desired state | apply, install, remove, drift | create and disable are two calls |
| Configuration | `config.py`, `sources.py`, `console/api.py` | yaml files and their mirrors | add, update, delete, thresholds, models | read, change, replace by concurrent requests |
| Schema | `store.py` | tables, `_legacy` copies, version | open_db, reconcile_schema | two builds open one archive |
| Journal | `journal/*.py` | articles, versions, approvals, experiments, publications | move, set, plan, run, save, check, approve, snapshot, export, variant, post, measure | gates a person opens for one version; files written while a command reads them; posts whose answer is lost |
| Adapters, prefilters, reviews, calibration | see `PROJECT.json` | none another part acts on | | I/O or pure functions |

How they interact. The worker and the pipeline share only the queue and the
skip-list, and neither waits for the other (`cmd_cycle` and `cmd_treat` start a run
whatever the worker is doing). A run ends with synthesis on what it and earlier runs
archived; a manual `resynth`, a `rescore` and an operator's `mark` write the same
idea rows, as does an applied edit, which chat turns propose. The console starts the
same verbs as jobs, in threads, and `cycle` reaps the job rows a dead console left.
The scheduler of the operating system starts `cycle`, `treat` and the collectors;
what one of them may spend is told by the ledgers of blocks and budgets. Retention
and `prune_exports` take things away behind everyone's back.

What makes each part correct:

* queue: a comment on the skip-list is in a batch; a batch leaves the queue only
  when every comment of it is answered for;
* worker, rotation, plan, backfill: a ceiling is overshot by a thread at most; no
  source is overtaken for ever; a walk leaves no hole behind its cursor;
* run and vectors: one at a time; every row has a vector or a flag; a text is kept
  once; all vectors that count are of one model;
* ideas and themes: what is claimed is cited; births are disjoint; a score belongs
  to the evidence beside it; a draft is placed on a theme that is there;
* models and budgets: nobody asks a blocked key; a stand-in is never taken for an
  answer; a day's searches stay within its budget; a call ends by its deadline;
* edits, settings, schedule, schema: the log is the history of what it describes;
  a profile keeps its own models; what applied is what was desired; no row is lost
  by opening the archive;
* console: every connection ends, every answer can be read by its client, every job
  is settled, a chat turn accounts for what it did;
* signals, listings, exports, backups: a record says what was seen; a company that was
  worked is not handed out as new; a pack in a folder agrees with itself; a manifest
  vouches for what is there; an advert is queued once; the tree swapped in is whole;
  a set that verifies restores;
* specs and journal: no path of commands skips a human's gate.

`PROJECT.json` lists every hazard at its line with the properties that cover it.

## 2. Modules

| module | models | composes |
|---|---|---|
| `Queue` | the two shared tables; every operator is one committed statement | |
| `Fetch` | the Go worker over a listing source | extends `Queue` |
| `RunProcess` | `jester run` from the reaping to the settled batch, and `reembed` | extends `Queue` |
| `Custody` | abstract: where a comment is, and when it may leave the queue | |
| `Pipeline` | worker and runs over one database | extends `Fetch` and `RunProcess`; implements `Custody` |
| `Rotation` | a live run over its sources: order, visits, ceilings, the two rows of a visit | |
| `Plan` | the planned fetch: yields, the probe of barren sources, the run that walks | |
| `Backfill` | the walk back through an archive by creation time | |
| `Cycle` | turns of the loop: ticks, presses, `run`, with fetch, drain and export | |
| `IdeaArchive` | the idea tables and the processes that write them | |
| `Themes` | clustering passes, drafting, saving, promoting, discarding | |
| `Corpus` | the vectors, their tag, the archivist, the repairs, retention | |
| `Edits` | the edit regime | |
| `Jobs` | the jobs table, its threads and its reapers | |
| `Requests` | connections of the console's server | |
| `ChatTurn` | one turn of the chat, with its tools, proposals and trace | |
| `GroqChat` | one call of a hosted model: retries, waits, deadline | |
| `Llm` | the roles of a run, their quota blocks and stand-ins | |
| `Budget` | the daily budget of searches (theorem included) | |
| `SpecJourney` | specs of sites from proposal to drift | |
| `Signals` | the life of a signal record | |
| `SignalChain` | the chain of sources: budgets, retries, cool-downs, the ledger | |
| `SignalExport` | the signals' CSV, its manifest, and the load | |
| `Leads` | the scoring of archived posts into signals, outcomes, `leads.csv` and the brief | |
| `Listings` | adverts: observations, the queue, payload sweep, dedup verdicts | |
| `CsvExport` | the CSV tree and its swap (theorem included) | |
| `Packs` | the evidence pack of a run and the commands that write it | |
| `Backup` | backup sets, pruning, restore | |
| `Schedule` | the declared schedule against the system's scheduler | |
| `Settings` | the console's edits of source lists, thresholds and models | |
| `Schema` | opening the archive by several builds | |
| `Journal` | one article: stages, versions, approvals, export, one channel | |
| `ReadersProofs` | theorems on `Fetch`, `Backfill`, `Rotation`, `Listings`, `Cycle`, `SpecJourney`, `Signals`, `SignalChain`, `SignalExport`, `Leads` | extends them |
| `DeskProofs` | theorems on `Corpus`, `Packs`, `Llm`, `GroqChat`, `ChatTurn`, `Schedule`, `Settings`, `Schema`, `Backup`, `Themes`, `Edits` | extends them |
| `IdeaArchiveProofs` | theorems on `IdeaArchive` and `Requests` | extends them |
| `RunProcessProofs` | theorems on `RunProcess` and `Pipeline` | extends them |
| `JournalProofs` | theorems on `Journal` | extends it |
| `MCFetch`, `MCIdeaArchive`, `MCJournal`, `MCPipeline`, `MCPlan`, `MCSchema` | instances for TLC: functions, sequences, symmetry | |
| `MCReaders`, `MCDesk`, `MCUpkeep` | one instance of each of several components | see below |

Conventions. One action is one SQLite transaction, one model or network call, or the
in-memory work between two of them; what a process read before a call is in its own
variables and may be stale when it is used. A definition named `XMutant` in front of
`X` is `X` with a plausible bug; no specification uses it, it serves to show that the
property named with it in `PROJECT.json` can fail. Ghost variables are marked so
where they are declared, and no guard reads one.

The composites. `MCReaders`, `MCDesk` and `MCUpkeep` each hold one instance of
several programs that share no state their properties are about. Their variable
`part`, chosen at the start, says whose behaviour it is; the others stay at one of
their initial states. Their reachable states are thus the disjoint union of those of
the parts, nothing of a part is cut off (its initial states are all enumerated when
it is the one that runs), and each property is checked exactly as it would be in a
run of its own. Programs that do share state are composed by interleaving instead:
inside `IdeaArchive`, `RunProcess`, `Edits`, `Signals`, `Corpus`, `Settings` and the
others the actors are many, and `Pipeline` joins worker and run.

### Fetch

`posted` is the platform. `ListThreads` is the listing with the count it publishes
for each thread (or none: -1, `Unpublished`), `SkipUnchanged` and `FetchThread` are
the two branches of the loop in `fetchSource`, and what the page holds may have grown
since the listing. `PassOver`, `Take`, `Mark`, `StopExamining` and `Enqueue` are
`enqueueComments`: `AlreadyIngested` and `MarkIngested` are two statements, and the
batch is stored after the loop. `MarkThreadRead` is best-effort. `FetchExit` is
`fail()` or a kill at any point; the ghost `lost` collects what was marked and in no
batch at that moment. The prefilter is the set `Kept`.

### Rotation, Plan, Backfill

`StartLive` takes one of the orders `SourceOrder` may give (sources never visited are
ties), or that of the file when `-only` names
some or `source_state` cannot be read. A visit opens its feed or fails
(`OpenFeed`, `FeedFailed`, `SessionFailed`), reads threads or adverts until a ceiling
is met, and leaves two rows, `TouchSource` and `RecordRunOutcome`, either of which
may not be written. Time is the number of the run: visits of one run may share a
second. In `Plan`, a run takes the worthy sources and one barren source by its turn
(`_run_seq`), and what it brings decides the next ranking. In `Backfill`, a page is
the newest stories strictly before the cursor; `Shared` says whether two stories may
have been created in one second.

### RunProcess

`Reap` and `Start` are separate because `reap_running` commits on its own before
`start_run`'s transaction. `ReadQueue` is `bounded_bite`, parsing and the second
prefilter. `ExtractFailed` has the two outcomes of a stand-in: this comment's batch
stays queued, or, on a refused quota, so do the batches of all comments not reached.
The archivist's `Refuse`, `Defer`, `Admit`, `Upsert` and `Insert` keep the order
point, row. `MarkDone` and `MarkSkip` are separate commits. `Raise` is an exception,
which closes the run; `Die` is a kill, which does not. `Age` lets the reap window
pass; with `SlowRun` also for a run that is alive. Similarity is equality of
`TextOf`.

### Cycle

A turn is a tick (`cmd_cycle`), a press of the console, `jester ingest` or `jester
run`. Each fetches, or finds a fetch refused, then runs unless a run is active, drains
what is pending up to a ceiling, and exports; what it reports is compared with what
it did. A fetch does not look for another fetch: two may be under way.

### IdeaArchive

A worker is one process: a scheduled run, a manual resynth, or `rescore --pending`.
`Draft` is the model call, the critic and the search of the idea index;
`ClaimAndInsert`, `FoundDuplicate` and `ClaimedElsewhere` are the three outcomes of
`_claim_and_insert`; `Absorb` is `_absorb`'s transaction, followed by `Requeue` or by
the re-score in three steps. `SelectPending` reads whole rows for the loop that
follows, and `UpdateIdea` writes whole rows back: that is where stale data comes from,
in the model as in the code. A row's scores are abstracted to `scoredOn`, the evidence
they were given for.

### Themes and Corpus

A clustering pass fills a chunk collection, reads each chunk's nearest neighbours (a
reading out of a given set, one of them with a confusion in it), groups, and replaces
the themes in one transaction; `Drafters` and `Savers` hold theme and draft ids
meanwhile. In `Corpus`, the archivist writes the point, then the row; a repair writes
the vectors of the rows it read at its start, marks them one by one, and stamps the
tag when it covered the archive and nothing failed; the ghost `torn` says that it
began under another model and has not stamped. `Overlap` is the choice between a
vector server, which is shared, and the local store, which locks its folder.

### Edits and Settings

`Edits` has one row with the cells one edit kind may write, and settings. A row edit
checks status and drift in `ApplyBegin`/`ApplyCompare`, before the lock, and writes
row, log and status in one transaction; a setting edit checks again under the lock,
writes the file and then the log. `Settings` has the files themselves: two requests
that read, change and replace them, the mirror of a profile written after the served
copy, thresholds checked against one reading and edited on another.

### Jobs, Requests, ChatTurn

`StartReap` and `StartThread` are `start_job`, two commits under the process lock;
`End` and `EndUnwritten` are the thread's last update; `CycleReap` is the tick's
reaping. `Requests` follows one connection: the walls in the order the server tries
them, a body by its framing, what is drained after a refusal and what closes the
connection. A `ChatTurn` reads the window, asks the model, runs its tools, stages
proposals with their traces, and ends with a note or an answer, or dies.

### GroqChat, Llm, Budget

`GroqChat` counts seconds: each request may take the time that is left, each wait is
affordable or not taken. `Llm` has runs whose roles share keys: extraction in one
batch and then item by item, blocks recorded and settled, stand-ins filed as such.
`Budget` is the one statement of `spend` and what it pays for.

### SpecJourney

A command reads the status, works, and writes the status it was going to, whatever it
is by then; the ghost `gates` notes what was shown and by whom.

### Signals, SignalChain, SignalExport

`Signals`: queries see pages of a platform that changes; a record is inserted, seen
again, revised, closed when a complete pass missed it, restored when it is back,
reclassified under new rules, and swept; a failure leaves a row to recover.
`SignalChain`: the sources of a run in order, each with its request budget and the
cool-down of its host. `SignalExport`: shards and manifest on a disk that may lose
what was not synced, and a load that reconciles against the manifest.

### Leads

`StorePost` is the worker storing a copy of a room's post, `PostAdvert` a board that
changes. A scorer's run is `CollectBoards` and `ScoreRooms`, what they read, then
`PeekLead` and `WriteLeads`: `upsert` reads its first row before its transaction opens,
so an insert may meet the row that came since (`InsertClashes`), and the transaction
goes with it. `FindLead` and `SaveOutcome` are `set_outcome`, a look-up and an update.
`GatherLeads` reads the rows of `leads.csv`; `OpenSheet` empties the file and
`WriteSheet` writes them, over those of a writer that overlaps. `ReadBrief` and
`WriteBrief` are the brief. What a post says is one of `Says`, with what the
classifiers make of it in sets: they are functions of text. The ghost `said` is what a
person last wrote of a post.

### Listings, CsvExport, Packs, Backup

`Listings`: a visit's look-up, its guard, its insert; the payload sweep; the verdict
over blocked pairs. `CsvExport`: the staging tree, the two renames, what a failure
puts back and what retention clears. `Packs`: a command reads the run, then writes
the pack's files one after another, over those of whoever wrote there before. `Backup`:
the set is copied, hashed and named by
its manifest, `Keep` sets are kept, rot may strike, and a restore checks before it
replaces.

### Schedule and Schema

`Schedule`: desired state, launchers and tasks as the operating system has them, each
call of `schtasks` an action that may fail. `Schema`: openers of several builds, each
statement of `reconcile_schema` an action; a table is a shape and its rows.

### Journal

One action is one command of the terminal, or one of its steps where an editor, the
clock or a crash may come in between: an export reads the file in `ExportCheck`,
`ExportRead`, `ExportHash` and `ExportWrite`; `ApproveVersion` and `ApproveRecord`,
`MakeVersion` and `VersionPath` are two commits each; `PostCheck`, `PostRead`,
`PostSend`, `PostRecord` are `post`, and `PostFailed` is an answer that never comes,
whether or not the platform took the post. `vetted` and `permit` are the verdicts and
approvals of the latest version: no code of the modelled commands looks at an older
version's. `given` is the kinds of approval on file, with "run" for a run that
counts. What an approval of publishing names (figures and saved copies) is one version
number, `evidence`; `healthy` is whether the saved copies are neither dead nor marked
stale. All experiments are one set, `lab`, of what holds of each of them. The three
fields a brief is asked for before `published` are three, the four before
`researching` are one. `EditDuring` names the steps between which the editor may
write.

## 3. Runs

| run | expects | properties | bounds | what it shows |
|---|---|---|---|---|
| `Upkeep` | pass | EvidenceIsSound, WaitingIsServed, JobsSettle, ProbedInTurn, ConnectionsEnd, AnswerArrives | ideas: 2 workers, 3 nuggets of one thread (1 arrives late), 1 crash; jobs: 2 consoles, 3 rows, 2 restarts or lost writes; plan: 3 sources, one of them worthy once; 1 connection with every kind of request; 53k states | The promises that outlive one pass, over an archive with two workers, a console's jobs, a run's plan and the console's connections: evidence, claims and births of ideas, every waiting nugget served, every job settled, every barren source probed in its turn, every connection ended and every answer one its client can read. |
| `Pipeline_custody` | pass | KeepsCustody, EveryCommentSettles | 1 worker, 1 process, 2 comments with one text, 1 crash, 1 failed call, no worker exit; 370k states | The worker and a run over one queue, with a kill and an outage: the composition implements Custody, and under its fairness every comment taken is settled. |
| `Readers` | pass | SkippedIsQueued, NoneOvertaken, NoHole, BudgetKept, VouchedIsTrue, AdvertQueuedOnce, TickIsHonest, ActiveIsProved, VisitsAreExact, RowsStand, RecordsAreTrue, ScoreMatchesEvidence, HandedOnce | a worker with 2 threads and 4 comments; 3 sources, 3 live runs, 1 break; 4 stories, pages of 2; 2 signals with 2 texts, 2 queries, 1 collector, 1 fault; 2 sources of 2 requests; 2 shards, 3 writes, 1 load; 2 adverts on 2 portals; 1 idea worker with the operator, 4 nuggets; 3 turns, 1 kill; 2 processes on one spec, 5 commands; 1 room post and 1 advert, 2 scorers, 1 person; texts of signals are symmetric; 2.6M states | The programs that read what others publish, and the synthesis of what they brought, one instance each: the fetch, the source rotation, the archive backfill, the signals collector with its source chain and export, the listings, one worker of the idea archive beside the operator's commands, the turns of the loop, the journey of a site's spec, and the leads with their two files. |
| `Desk` | pass | BatchesAreKept, OneSpace, AppliedIsDesired, SearchesPaid, ChatKeepsItsTime, PlacedAlive, ExportWhole, ProfilesKeepTheirOwn, RowsKept, TurnIsAccounted, SettledStands, RepliesAreTrue, BackupsAreGood, EditsAreTrue, NothingTwice, PackAgrees | 2 processes, batches {a,b} and {a,c}, a and b one text; 2 threads, 1 cell, 1 setting, 2 proposals; 2 runs of roles sharing a key; 2 nuggets, 2 models, 2 repairs, 2 faults; 2 backup sets, 1 rot; 2 tasks, 2 versions; 2 processes, budget 2, 2 days; 4 seconds, 2 retries; 4 chunks, 2 passes; 2 exporters, 3 trees, 2 kills; 2 editors, 2 profiles; 2 openers, 2 builds; 2 turns; 2 nuggets, 1 idea, 2 commands and 2 packs; request threads are symmetric; 2.2M states | The programs of the desk, one instance each: a pipeline run, the edit regime, the roles' quota blocks, the vector space of the corpus, the backup and restore, the declared schedule, the daily search budget, the chat transport and its turns, the themes and their drafts, the export's tree, the settings files, the opening of the archive by two builds and the evidence pack of a run. |
| `Journal_gates` | pass | PastItsGates, OnePostPerVersion, PublicIsApproved | 1 article with an experiment, 2 texts, 1 channel with a key, 1 version for it, 2 writes of the editor, 1 change of the evidence, 1 crash; texts are symmetric; 2.7M states | An entry of the journal from draft to posts, with edits of its text and its evidence in between and a kill: no gate is skipped and nothing is posted that was not approved. |
| `IdeaArchive_lost` | violation | ClaimedIsSupported | 2 processes, 4 nuggets in two threads, idea index on | With the index, two workers and a crash: a merge is lost under a re-score that writes back the row it read. |
| `Edits_stomped` | violation | NothingStomped | 1 thread, 2 cells, 2 proposals | Undoing one edit of a row overwrites a later edit of another column of it. |
| `Fetch_dropped` | violation | NothingLost | 1 worker, 1 exit, no ceiling | A kill between the skip-list and the queue loses the comments for good. |
| `Corpus_rebuilt` | violation | RebuiltIsSame | 2 nuggets, 2 models, retention on | A rebuild of the collection after the retention sweep embeds the empty string for swept rows and records success. |
| `Backfill_gap` | violation | NoHole | 5 stories, pages of 2, times may be shared | Stories that share the second of a page's oldest hit are skipped by the strict cursor. |
| `Plan_stuck` | violation | ProbedInTurn | 3 sources, no one publishes anything new | Three sources of which no one has anything new: the turn of the probe moves only with runs that bring a batch, and all but one barren source are never walked again. |
| `Schema_dropped` | violation | RowsKept | 2 openers, 3 builds, 2 tables, no kills | Two builds in turn reshape one table: the second drops the table the first had set aside, with its rows. |

Bounds. Two actors are enough for every property of this project that speaks of two;
the third (time, the operator, a reaper) is an action of its own. Two comments with
the same text, two threads and overlapping batches produce every relation the guards
of the pipeline look at; three sources, of which one is a browser's, one a portal and
one a single thread, are every kind the rotation distinguishes, and three runs let a
source be passed over and come back. A page of two with four or five stories has a
page in the middle and ties at both edges. Four chunks of three nuggets give a nugget
with two chunks and a group above the size limit. Fault and kill bounds are one or
two: the properties are about what one failure leaves behind, and a second one is
there where the first leaves something that the next command clears. Counters are
bounded in guards only, each by a CONSTANT whose name ends in `Bound`, `Kills`,
`Faults`, `Ops` or `Deaths` (and `Times`, `Days`, `LongestWait`, which cap time).

Deadlock is checked in `Upkeep`, `Pipeline_custody` and the violations of
`IdeaArchive`, `Fetch` and `Backfill`. The other runs say CHECK_DEADLOCK FALSE because
their systems may stop: once every proposal is decided, the article abandoned, the
last export made or the run's plan walked, nobody has to do anything.

## 4. Fairness

* `PipelineFairSpec`: the schedule starts the worker again and again and a running
  one goes on (weak fairness); a thread that is tried for ever opens in the end (strong
  fairness, the platform's part); the schedule ticks, a live process goes on, and a dead
  run's row gets old. Nothing is assumed of failing calls but that they are bounded.
* `UpkeepFairSpec` states the fairness of four programs, each restricted to the
  behaviours that are its own (`OfArchive` and so on), so that a fairness never asks a
  step of a program that is not running:
  * ideas: workers go on; the critic's quota returns each day, so a run that could
    re-score is not paused for ever (strong fairness of a selection that finds
    something); half an hour passes over an abandoned claim;
  * jobs: a thread's operation returns (the verbs have timeouts), time passes, `cycle`
    ticks. No fairness on consoles being restarted or used;
  * plan: the schedule starts the next run, and a run goes on with its sources;
  * requests: the server's thread goes on, since each of its reads has a timeout.
    Clients are not fair: they may stall, stop half way or hang up.
* `PlanFairSpec` is the same for a plan alone.

## 5. Proofs

Five modules of proofs and two components that hold their own (`CsvExport`, `Budget`)
state every safety and action property of section 3 as a theorem of the specification,
for any processes, data and bounds the assumptions admit; the hypotheses below are part
of the theorems. Each argument is the same: the property is not inductive, because what a
process read earlier is used later, so the invariant says of every copy in a process's
hands what the property says of the tables. Steps are lemmas, one per group of actions,
and the last step of a theorem combines them.

| theorem | states | hypotheses |
|---|---|---|
| `SkipListIsBacked`, `ReReadingIsExact` | SkippedIsQueued, VisitsAreExact | the second: one worker, no cap on a thread |
| `WalksHaveNoHole` | NoHole | no two stories of one second |
| `NoSourceIsStarved` | NoneOvertaken | |
| `OneVisitorQueuesOnce` | AdvertQueuedOnce | one worker |
| `TurnsAreHonest` | TickIsHonest | |
| `NoneActiveUnproved` | ActiveIsProved | |
| `OneCollectorKeepsHistory` | RecordsAreTrue | one collector; no restore between its read and its write |
| `DailyRequestsAreKept` | BudgetKept | |
| `WhatLeavesIsVouched` | VouchedIsTrue | directories can be synced, files unlinked, retention paused |
| `NobodyIsHandedTwice` | HandedOnce | |
| `NoCommentIsLost`, `NothingIsDoneTwice` | BatchesAreKept, NothingTwice | the second: no live run outlasts the reap window |
| `PipelineLosesNothing` | BatchesAreKept, NothingTwice, of the composition | as above for the second; any number of workers and exits |
| `PipelineKeepsCustody` | KeepsCustody | one worker, which does not exit in the middle of a thread; no live run outlasts the reap window |
| `EvidenceStaysClaimed` | EvidenceIsSound | |
| `ScoresAreCurrent` | ScoreMatchesEvidence | until a process is killed |
| `OneWorkerLetsRowsStand` | RowsStand | one process, and the operator's commands |
| `AnswersReachTheirClients` | AnswerArrives | no client sends a body with a read |
| `SpaceIsOne` | OneSpace | the local vector store, which locks its folder |
| `DraftsArePlaced` | PlacedAlive | |
| `TheLogIsTrue` | EditsAreTrue | |
| `RepliesStayTrue`, `SettlingHolds` | RepliesAreTrue, SettledStands | |
| `CallsKeepTheirTime` | ChatKeepsItsTime | |
| `TurnsAreAccounted` | TurnIsAccounted | |
| `AppliedStays` | AppliedIsDesired | no two tasks share a command |
| `ProfilesStayApart` | ProfilesKeepTheirOwn | |
| `NoRowIsLost` | RowsKept | one opening at a time; no table broken by two builds |
| `BackupsHold` | BackupsAreGood | |
| `OnePackAgrees` | PackAgrees | |
| `TargetIsWhole` | ExportWhole | |
| `BudgetIsNeverPassed` | SearchesPaid | |
| `NoGateIsSkipped` | PastItsGates | |
| `PostedOnce` | OnePostPerVersion | a channel that takes an idempotency key |
| `PublicWasApproved` | PublicIsApproved | no write of the editor between `post`'s two readings; fewer than three within one export, or none before its last look |

The hypotheses are what the code needs: for each, section 3 or 6 shows what it does
without (two workers queue twice, a restore in the window loses a revision, three writes
deceive an export). `FetchTypes`, `RunTypes`, `ArchiveTypes` and `JournalTypes` are the
type invariants; the other modules' types are the first conjuncts of their invariants.

`ReadersProofs`.

* `Fetch`. `FetchInv` adds `HandHeld`: between threads a worker has nothing in hand, so a
  comment on the skip-list is in a batch, in a hand, or in `lost`, which only `FetchExit`
  fills. `VisitInv` and `ExhaustInv` follow one thread: what it holds is of that thread,
  opened before the ceiling was met, and unless the thread has grown past its listing,
  all it keeps is marked or still to be examined. With one worker (`OnceInv`) what is to
  be marked is not on the list and what is in hand is in no batch.
* `Backfill`. `BackfillInv`: the cursor is the oldest story a listing has taken, stories
  are of distinct seconds, so the next page starts where this one ended.
* `Rotation`. `OrderKept` holds through a run: the sources to come are in the order of
  their last visits, and whatever was passed over was excused once by a failure. Each
  source is thus overtaken once, and once more for each thing that broke.
* `Listings`, `Cycle`. An advert on its way to the queue has no batch there; a turn
  whose fetch failed goes nowhere but to the export of its rows.
* `SpecJourney`. A command writes the status it was going to, long after it read the one
  it was allowed by: `CommandBacked` says that the gates behind the status a command
  *took its spec from* are passed, and stay so (`BackedKept`: gates only accumulate).
* `Signals`. `ArchiveIsSound` (what was shown is in the row or among its revisions, each
  under its own number, all below the row's), `OldIsCurrent` (a row read before the
  transaction is the row there is, or is gone) and `ReadsAreWhole` (what a query read to
  its end did not return was off the source, or too old). `RefreshKeeps` is the lemma on
  one row that is refreshed, whatever it was scored by.
* `SignalChain`. `Accounts`: what was sent today is at most what the row says, what died
  unsaved, and what the run at hand has not noted; the run was given no more than the
  row left, also when midnight passes.
* `SignalExport`. `Beside`: a manifest and a CSV that may end up together, by a write-back
  or a loss of power, are of one export. `LoadInv`: while no record leaves the table the
  copy never holds one the table lacks.
* `Leads`. `OutcomesSaid` (a row's outcome is what a person last wrote) and `GatheredTrue`
  (what a writer has gathered and not yet written is as true as the file).

`DeskProofs`.

* `Corpus`. `OneHolder` (the store's lock), `TagFirst`, `PointFirst`, `RepairTold` (a
  repair writes under the tag, or the corpus is torn), `MarkedWritten`, and
  `RepairCovers`: what a repair of the whole archive has left behind is of its model,
  which makes the stamp at its end true.
* `Packs`. `ReadThrough` says what is known after each of the four readings, from the
  order they are made in: ideas first, so that what they cite is there when the nuggets
  are read.
* `Llm`. A reply is of its comment or the stand-in's, and calls less fallbacks are the
  replies used (`CountIsTrue`); `SettlingHolds` is an action property about a fold over a
  run's roles, whose last element that ran out decides (`LastOfSome`).
* `GroqChat`, `ChatTurn`. A wait that is taken leaves time for a request
  (`RetryKeepsTime`); outside the step that records it, no proposal of a turn is untold,
  and a turn that starts has its question last in the transcript.
* `Schedule`. `ApplyIsOnItsWay`: the tasks behind an apply do not drift; a task's own
  command keeps a later launcher from being an earlier one's.
* `Settings`. `EditIsSound`: what a request is about to write is as good as what it read,
  and the one model it sets was chosen for the one profile it goes to.
* `Schema`. `Built`: a table that is there has the shape of a build no later than the one
  at work, and once rows of it are set aside, of one after its break (`Break`), so nothing
  sets it aside a second time.
* `Backup`. `Stage` (the files of a set under way, step by step), `Restores` (what a
  restore holds of the set it reads, whatever happens to the set meanwhile) and `SetIs`
  (every file of a set holds the snapshot, a part of it, or rot); `OneGoodSet` survives
  pruning because the set just verified is newer than all that is removed.
* `Themes`. Groups are what `Reached` gives, the least set that no link leaves; a group
  is wide enough to have nuggets, so a card finds a theme that shares one with it when
  any does. No number is given twice (`DraftOf`): a theme that is there when its draft
  arrives is the one it was drafted for. `PlacedAlive` is an action property.
* `Edits`. `AtWork` (a proposal a thread has under the lock is untouched), `Chained` and
  `Standing`: the log of a setting is a chain up to the value that stands, or, while a
  write is between file and log, up to the one it replaced.

`IdeaArchiveProofs`.

* `ArchiveInv`, for the types and the evidence: `Stored` (each row cites only claimed
  nuggets, was born on a part of them, and births are disjoint), `MarkHeld` and `Held`
  (so does every copy a process holds). As `claimed` only grows, a stale copy can never
  cite a nugget that went back to the pool, and births are compared with `claimed` under
  the write lock, so a late insert cannot meet an older one.
* `ScoreInv`: a row is up to date, or a worker is on its way to repair it (`Repairs`, from
  the merge to the write that ends its re-scoring). A kill in between leaves no one.
* `StandInv`: while the row on file is not marked, the copy a worker asks about is as the
  row is, and the row cites no more than it. With a second worker that is false, and
  `IdeaArchive_lost` is the reason.
* `Requests`. `Accounted`: at each place a connection's thread can be, what the client has
  not sent and what waits in the socket add up to what is left of the body.

`RunProcessProofs`. `RunInv` says of each process that every comment of a batch in its
bite (and not degraded) is answered for or still open in its own heaps (`Tracked`); that
its heaps hold comments of the batches they name (`Real`); that the batch a nugget is
credited to is the last one that holds the comment (`Ordered`); that a heap is empty once
its phase is over (`Cleared`); that a row is only inserted after its point
(`PointFirst`). `OwedLater` is what makes it inductive when runs overlap: a comment of a
batch that is done is kept or is in a pending batch *further back* in the queue;
`BatchesAreKept` alone allows two processes to leave a comment each to the other's batch.
`TwiceInv` adds `HoldsRow` (who works has the one young row that runs), `TwinsBare` (the
twins of the nugget being archived are those no search finds) and `Reembeds`.

The composition with the worker rests on the same invariants: whatever the worker does,
the queue only grows at its end (`Grows`), which a run does not notice
(`GrowthKeepsRun`). For the refinement, `WorkerInv` says that what is in a hand or on its
way to the mark is in no batch, and that no comment is in two; `InBite`, that a process
only works on comments whose batch is pending, since nobody else settles it. Then marking
is `Hold`, enqueueing is `Hand`, a row or a drop of the prefilter is `Keep`, and marking a
batch done is `Settle`: by `Tracked` each of its comments is answered for or in a later
batch, and there is no such batch. All other steps are stutters.

`JournalProofs`. `PastItsGates` is inductive with `Backed` (what a gate reads was put
there by a decision on file) and `RowOK`; `Lower` is the reason that steps back and
resuming are free: the gates of a stage include those of every stage before it. The types
need `Held`, what a command has in hand at each step. `PublicInv` counts the writes an
editor needs to deceive each reading of an export.

`CsvExport`: the staging tree is of one export, its manifest comes after its last shard,
and what was put aside, which a failure puts back, was whole (`StagedSoFar`). `Budget`:
searches sent and paid for are within the day's row, and the row within the budget; the
lemmas count the processes that wait (`OneLessWaits`).

Induction over data is not needed anywhere: a least or greatest element comes from
`NatLessThanWellFounded` (`LeastOfNaturals`, `GreatestOfSome`, `LastOfSome`), and closures
are defined as least sets.

What stays with TLC. Liveness (`WaitingIsServed`, `JobsSettle`, `ProbedInTurn`,
`ConnectionsEnd`, `EveryCommentSettles`) is out of the prover's reach.
Every other property that a passing run checks is stated by a theorem.

## 6. Disagreements between code and its own words

Each has a run that shows it (`PROJECT.json`, findings):

* `IdeaArchive_lost` (ClaimedIsSupported, `src/python/jester/store.py:1433`): update_idea writes every mutable column, supporting_nuggets and support_key included, from the row the caller read before its model call; evidence merged meanwhile is dropped from the idea while its nuggets stay claimed. The merge is documented to prevent this: 'so the row and its evidence can never disagree about what this idea rests on' (src/python/jester/agents/synthesizer.py:439).
* `Edits_stomped` (NothingStomped, `src/python/jester/edits.py:1110`): revert_edit compares only the columns the edit wrote (after_json) and writes back every column of the edit kind (before_json, built by _images at line 363): undoing an edit of an idea's title also undoes a later edit of its problem_statement, and the log row does not name the value lost. edits.py says 'Nothing in this regime can silently stomp a value that changed underneath it.' (src/python/jester/edits.py:33).
* `Fetch_dropped` (NothingLost, `src/go/cmd/worker/main.go:1175`): enqueueComments commits each fingerprint to the skip-list before EnqueueBatch stores the batch, and every error in between ends the process (EnqueueBatch is not retried on SQLITE_BUSY either): the comments are on the skip-list and in no batch, so no later visit takes them. The skip-list write is documented as 'S-03: a write that loses the lock race must not lose the comment' (src/go/internal/store/store.go:437).
* `Corpus_rebuilt` (RebuiltIsSame, `src/python/jester/cli.py:2782`): cmd_reembed embeds `raw_text or ""` and marks the row re-embedded; retention_sweep (src/python/jester/store.py:2017) sets raw_text to NULL on rows that stay in the corpus, so after a sweep a rebuild gives them the vector of the empty string and clears their flag. backup.py relies on the opposite: 'Qdrant vectors are derived; rebuild them with `jester reembed --all`' (src/python/jester/backup.py:456).
* `Backfill_gap` (NoHole, `src/go/internal/hackernews/hn.go:329`): BackfillStories moves its cursor to the creation second of the oldest hit of a page and asks for stories strictly before it: a story of that same second that did not fit the page is on no later page. The function says it 'walks the archive with no overlap and no page limit' (src/go/internal/hackernews/hn.go:258).
* `Plan_stuck` (ProbedInTurn, `src/python/jester/scheduler.py:214`): source_plan picks the probed source by _run_seq, the number of distinct runs in ingest_batch (line 137): a run that brings no batch does not move it, so while nothing new is published every run probes the same barren source and the others are walked by none. The module says such a source 'walks only on its rotating probe turn — one per run, round-robin' (src/python/jester/scheduler.py:21).
* `Schema_dropped` (RowsKept, `src/python/jester/store.py:579`): reconcile_schema drops `<table>_legacy` before it sets the incompatible table aside under that name: when an earlier build had set one aside there, its rows are gone, whatever it held. The docstring says 'Nothing is ever dropped with data in it' (src/python/jester/store.py:553).

Limits met while modelling, which the runs above step around and which in most cases
the same modules show when a constant is changed.

Pipeline, ideas, themes, vectors:

* `IdeaArchive` with `UseIndex = TRUE` and two workers: a vector match is absorbed
  without `count_claimed_nuggets` (`agents/synthesizer.py:322`), so one group may
  support two ideas.
* `IdeaArchive`, one worker, `CrashBound = 1`: a process that dies between the commit
  of a merge and its re-score leaves a score for less evidence, and no queue holds the
  idea (ScoreMatchesEvidence; `agents/synthesizer.py:443`).
* `IdeaArchive` with two workers: a silent critic still rewrites the row read before
  the call (`agents/critic.py:252`).
* `RunProcess` with `SlowRun = TRUE`: a run older than the window is reaped while it
  works, and a second one starts beside it (`cli.py:349`, `store.py:1677`).
* `Fetch` with `ThreadCap = 1`: a thread cut at `max_comments_per_thread` is recorded as
  read at its full count and skipped with comments unread (`main.go:543`).
* `Fetch` with two workers: both may find a comment new and queue it; the archivist's
  key makes that harmless.
* `Cycle`: the fetch phase is unguarded. A tick looks for a run that is 'running', so two
  turns may fetch at once; a cycle whose run is refused ends without exporting, and a
  count of pending batches that cannot be read lets a collection proceed
  (`cli.py:1193`).
* `Rotation`: a session that does not open is not touched (`main.go:251`), so a source
  whose browser never starts stays first; a source whose visit always kills the worker
  does too. `NoneOvertaken` excuses one visit for each.
* `Corpus`: a backlog reembed under a changed model mixes two spaces and is what `torn`
  stands for; a kill after `--recreate` leaves rows without a vector and without a flag;
  with `Overlap = TRUE` an archivist may start during a repair and be stamped over.
* `Themes`: promotion reads the draft and then inserts the idea (`store.py:1153`), so
  two requests may promote one draft; the chunk collection is shared and a second pass
  empties it under the first.

Console, chat, models, settings:

* `Edits`, two threads on one row proposal: both pass the checks before the lock and two
  log rows are written (`edits.py:935`); a reject may overtake an apply
  (`edits.py:474`).
* `Jobs` with `SlowJob = TRUE`: a job longer than the window is reported dead while it
  works (`jobs.py:190`).
* `Requests`: a POST body cut before its first byte is acted on as an empty object
  (`server.py:900`); a crash before the body is read answers without draining.
* `ChatTurn`: the reply is cut to eight calls (`chat/client.py:80`) before the session
  looks for more than eight, so nothing is ever dropped as abusive
  (`chat/session.py:38`, `chat/session.py:209`); two consoles in one session can push the
  question out of the window.
* `Llm`: two roles that share a key overwrite each other's wait; a re-scoring that ends
  while a treat is blocked may clear its block.
* `Settings`: two requests at once lose an edit; two patches each valid alone can leave a
  `thresholds.yaml` with min above max, which does not load (`config.py:507`); mirrors
  diverge after a kill between two files; `update_source` compares no addresses.
* `Schema`: `Together = TRUE` (two builds opening at the same moment) loses rows in a
  second way; a lock that times out is taken for "already present".
* `Schedule`: a `schtasks /create` that fails leaves the new launcher under the old task;
  launchers are files by command, so that tasks that share a command overwrite each
  other's;
  a kill between create and disable leaves a paused task enabled; two tasks that share a
  command never converge.

Signals, leads, listings, exports, backups, specs:

* `Leads`: `set_outcome` looks a record up and then updates it: one that retention
  deletes in between is written nowhere and nothing says so
  (`signals/__init__.py:563`); a record that was worked and is deleted by retention
  comes back untouched when its post is scored again; the brief leaves out adverts that
  are old or gone, a company whose only worked advert is one of them shows as new
  (`signals/brief.py:140`).
* `Signals` with a second collector, or a restore between its read and its write: a record
  may be closed that is there. A page shift of the platform between two requests is
  abstracted.
* `SignalChain`: a source that yielded nothing may be called healthy (`run.py:238`,
  against `health.py:17`); a cool-down noted late is not always kept (`limits.py:132`).
* `SignalExport` holds with `DirSyncs = TRUE`, `UnlinkFails = FALSE` and
  `Retires = FALSE` only.
* `Listings`: a pending listing batch is never done, so its payload outlives its time;
  duplicates are not always reported (`property_dedup.py:674`).
* `CsvExport`: a kill between the two renames leaves no export at all until the next one,
  and the leftover is cleared (`export.py:722` against "A crash costs nothing visible",
  `export.py:549`); two exporters at once are not excluded by anything.
* `Backup`: the partial sets of killed backups count towards `--keep`; rot between the
  write and the manifest is outside what a manifest can tell.
* `SpecJourney`: an approve that read 'validated' overwrites a drift in between with
  'approved'; ids from a count collide within a second.

Journal:

* with `EditBound = 3`: a file that alternates between two texts three times within one
  export gets the unapproved one committed, each reading finding the text it hopes for
  (PublicIsApproved; `journal/publish.py:476`);
* with `Keyed = FALSE` (Bluesky, Dev.to): a post whose answer is lost is posted again
  (OnePostPerVersion; `journal/channels.py:321`);
* with "post-read" in `EditDuring`: the version file is hashed and then read again, and a
  write in that instant is posted unapproved (`journal/channels.py:311`);
* read off the actions: numbers go to the last post of a channel only (`cli.py:3820`), so
  a first post without them keeps `measured` out of reach; an export asks for an approval
  to publish and not for a review of that version (`journal/publish.py:66`).

## 7. Not modelled, and the plan

Parts of modelled components that are left out (their components are `partly` in
`PROJECT.json`): batches that cannot be read and their requeueing; a second terminal in
the journal, its experiments one by one, Dev.to drafts; the Reddit form of backfill,
whose pages are opaque tokens; the crontab path of the schedule; staged signal rules;
the support-key backfill of the schema; alerts on listings; health verdicts and
digests of signals; the second copy of a backup; the pacing of searches across
processes. They would be actions of the modules that are there.

Left out for good: fetching and parsing of pages and network transport (no shared state;
`Fetch`, `Rotation`, `Signals` take what they return as arbitrary), embeddings and
similarity (external; the modules take equality of an abstract text, or a set of readings),
prefilters, chunking and scoring (pure functions on text), prompts, rendering and the
console's pages, read-only reviews and digests, offline calibration and benchmarks.

Worth proving next: `OneWorkerLetsRowsStand` in parts, since a manual resynth leaves the ideas
there are also beside other workers; and for each theorem with a hypothesis, the weaker
property that holds without it.
