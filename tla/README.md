# A specification of job, the Linux batch facility

`job` runs batch jobs from queues that may be shared by many machines.  It has
no server and no database: the (distributed) file system is both.  A job is a
file; the directory the file is in is the job's state; its name says when it is
due; `flock(2)` on it says who runs it.  Daemons on every machine scan the
directories and act on what they find.  What can go wrong is therefore in the
interleaving of `open`, `flock`, `rename`, `fopen(.., "w")`, `unlink`, `fork`
and signals, by daemons that may die at any point, and that is what these
modules are about.

Everything is translated from the code in `src/` (`src/src` in paths of the
repository as it is mounted here); `PROJECT.json` maps every definition to the
lines it stands for.

## Components

| component | state | operations | what is hard |
|---|---|---|---|
| job files (`job/file.cxx`, `job/multipart.cxx`) | the file, the name last used (`oldnam`), the locked descriptor | `lock`, `load`, `repath`, `store`, `unlock`, `remove` | a lock is on an inode, a rename and a store go by name; `store` unlocks (in `repath`) before it writes; it truncates before it writes |
| submission (`mkjob.cxx`) | a new job file | create in hold, store, move to pend, remove | death in between; the manager seeing an empty file |
| job manager (`jobman.cxx`), one per queue and machine | `finmap` of running children, the job::file of each, timers | solicit pending jobs and run them, reap and retry, raise the dead, kill, clean, complete groups | all managers do all of this at once on the same files; deaths; clocks that differ |
| the managers' loop (`jobman.cxx`, `queman.cxx`) | a timer per task, two flags | run what is due, sleep, SIGHUP, SIGTERM | many signals must neither put a task off nor keep the loop from ending |
| group jobs (`jobman.cxx`, `job/queue.cxx`) | the ties in the group's file | split into children, check that all are done | several files must change together; the children move while they are counted |
| child processes (`job/launch.cxx`) | `finmap`, state and pid of each pad, the `needs_reaping` flag | `start`, `kill`, `reap_zombies`, the SIGCHLD handler | fork and table entry race with the child's exit; signals; process ids used again |
| queue manager (`queman.cxx`, `job/daemon.cxx`) | known and failed queues, `finmap` | check for new and gone queues, reap, end | queues come and go while it looks; managers die; signals before the loop |
| job ids (`job/seqnum.cxx`, `job/file.cxx`) | the sequence file | `next`, `curr`; an id made of a number | processes compete; short writes; death in between; several sites, whose ids only mkjob tells apart by a zone |
| names and listings (`job/file.cxx`, `job/queue.cxx`) | the parts of a name | put together, take apart, filter by time, sort, find by id | all is done on texts; listings are stale when used |
| text of a job file (`job/multipart.cxx`) | sections with headers and bodies | `load`, `store`; the job appends | the reader must find the sections again whatever the job prints |
| queue scripts (`mkjobq`, `rmjobq`) | directories | make, count, ask, remove | no locks, while everybody works in the queue |
| strings (`job/string.cxx`) | none | split, trim, replace, quote | a job's arguments go through all of it and a shell |
| logger (`job/log.cxx`) | one global object: format, place in it, last message | begin a message, put a value in, print | the signal handlers use the same object; the last message is mailed to users |
| configuration (`job/config.cxx`) | sections, tags, values, comments | `load`, `get`, `to_string` | what is written back must mean the same |
| system calls (`job/isafe.cxx`) | none | call again after EINTR, and while the file system is busy | what the last try says of the ones before |
| viewing (`catjob`; `lsjob`, `lsjobq`) | none | look a job up by its id, print | it moves meanwhile |
| status, paths, options, editing scripts, init script, packaging | | | |

Interaction: `mkjob` makes files and signals the manager; managers meet only
through files and locks; a manager owns its children through `job::launch`;
`queman` owns the managers through `job::launch`; all ids come from one
sequence file per site; `mkjobq` and `rmjobq` make and remove the directories
under all of them.

What makes each correct: no job runs twice at the same time, is lost, or is in
two states; retries are counted and bounded; a manager keeps to its run limit; a
job that was released ends, whoever dies; a group is done after its children and
once for each member; every child is reaped and none outlives its daemon; each
queue has exactly one manager per machine; a number is never given twice; every
task of a loop comes in time, and the loop ends; jobs are taken in the order of
their names; a removed queue is gone; and what is said by arguments,
configurations, outputs and messages arrives as it was said.

## Modules

| module | models | built on |
|---|---|---|
| `JobFile` | the file system: entries, contents, locks; names, listings, the sections of a file | |
| `JobMan` | mkjob, and a job manager per node: every task of its work loop at the grain of file-system calls; child processes, users, the clock, deaths | `JobFile` |
| `JobQueue` | what a shared queue promises, with no files, names or clocks: abstract specification of `JobMan` | |
| `JobManInv` | the invariants behind `OneRunner`, `RunLimitKept` and `KeepsPromise` | `JobMan` |
| `JobManProofs` | theorems about `JobMan`: types, run limit, one process per job, held locks | `JobManInv`, `TLAPS` |
| `PromiseProofs` | theorems about `JobMan`: one state per job, moves along the edges, `JobQueue` implemented, what is in the files | `JobManProofs` |
| `Group`, `GroupProofs` | splitting and completing one group job, directory by directory | |
| `Launch`, `LaunchProofs` | `job::launch`: the daemon and its children, signal by signal | |
| `QueMan`, `QueManProofs` | the queue manager's loop and signals | |
| `WorkLoop` | the timers and flags of a daemon's loop, in seconds | |
| `SeqNum` | the sequence file, byte by byte, and the ids that mkjob and job managers make of its numbers | |
| `QueueScripts` | mkjobq and rmjobq, directory by directory, among mkjob and managers | |
| `Finder` | `catjob`'s look-up of a job that moves | |
| `Isafe` | one system call and its repetitions | |
| `Logger` | the logger object, main and signal handler | `Strings` |
| `JobText` | the lines of a job file, written by the manager and the job | `Strings` |
| `Names` | names of jobs as texts, the time filter and the order of a listing | `Strings` |
| `TextProofs` | theorems about the text of a job file and that of a configuration | `JobText`, `Config`, `StringsProofs` |
| `Strings` | `string.cxx`, quoting, and the shell that reads the result | |
| `StringsProofs` | induction over texts, and theorems about the helpers and the quoting | `Strings`, `TLAPS` |
| `Config` | `config.cxx`: text to configuration and back | `Strings` |
| `Parts` | the parts that there are theorems about, side by side, constants and variables under names of their own | `WorkLoop`, `SeqNum`, `Isafe`, `Finder`, `QueueScripts`, `Logger`, `Names`, `Strings` |
| `PartsProofs` | theorems about these parts | `Parts`, `StringsProofs` |
| `MC...` | constants and symmetry for TLC | one of the above |
| `Daemons`, `MCDaemons` | job::launch and the queue manager, side by side for one run and for the proofs | `Launch`, `QueMan` |
| `MCParts` | ten parts that do not interact, side by side in one run | `Parts`, `JobText`, `Config` |

### JobFile and JobMan

`at`, `data` and `flk` are the file system: for each inode its entry (state, run
time, id), its contents, and the node that has it locked.  `Open` resolves a
name to an inode, `LockPending` locks that inode, `LoadPending` resolves the
name again: exactly the windows the code has.  `OpenForWrite` truncates or
*creates* what the name in hand says, `Flush` writes to the inode that was
opened, whatever it is called by then.

`proc[n]` is where node n's manager is.  Between tasks it is `"idle"`; any task
may come next, which covers every setting of the timers.

| code | actions |
|---|---|
| mkjob | `CreateJob`, `FillJob`, `ReleaseJob`, `AbortJob` |
| `solicit_on_the_street`, `run_a_job` | `Solicit`, `OpenPending`, `LockPending`, `LoadPending`, `RejectPending`, `ClaimPending`, `TruncateRun`, `WriteRun`, `LaunchJob`, `EndLoop` |
| `reap_zombies`, `try_done` | `TryDone`, `TruncateEnd`, `WriteEnd` |
| `bring_out_yer_dead` | `BringOutYerDead`, `OpenDead`, `RaiseDead` |
| `group_hug` for a job without ties | `GroupHug`, `OpenTied`, `MoveTied` |
| `terminate_with_predjudice` | `Terminate` |
| `kellys_kleaning_kompany` | `Clean` |
| SIGTERM, SIGKILL, power loss; queman | `Die`, `Restart` |
| a process ends; a kill file is made; time | `KidExits`, `OrphanExits`, `KillOrder`, `Tick` |

Abstracted: priorities (any order of a listing is allowed), submitter, owner and
permissions, arguments, environment, notification; what a child writes into its
own file; the error paths for a file system that refuses (except rename and open
of a missing file, a failed launch, a failed release).  A file is
truncated and later written as a whole: a crash leaves all or nothing.  In
`bring_out_yer_dead`, `group_hug` and mkjob's release, flock, rename and close
are one step: whoever meets the lock in between skips the job, as it would
afterwards.  In `run_a_job` the lock is kept, and there it is a step.

### Group

`entry` is the group's file in each of its directories; `kid` and `of` the
children.  `Lock`, `MakeKid`, `ReleaseKid`, `TieGroup`, `Truncate`, `Write` are
`breaking_up_is_hard_to_do`; `Load`, `Walk`, `Conclude` are `group_hug`, with
one `Walk` per state directory and `ggot` counted as `state_scanner` counts it.
A child that was not made is tied to job 0, and "0" is looked for like any other.

### Launch, QueMan, SeqNum

`Launch` has a step for each of fork, table entry, ACK, prctl, log file, read of
the ACK, setuid, exec, exit and reaping; process ids are used again as soon as
they are free.  `QueMan` has the check in three steps (read, stop, start), so
that directories, signals and deaths come in between.  In `SeqNum` a
number up to `Last` is `Width` bytes, of which a write may move any prefix; `BytesOf`
says which bytes, and is only assumed to pair numbers and texts of `Width` bytes one
to one, as a number in memory and the file do, whatever the order of the bytes.
`Close` makes a job id of each number (`JobId`), for which mkjob has set the zone
(`Submitters`; `mkjob.cxx:201`) and job managers, which make the children of a group
(`jobman.cxx:216`), have not.

### WorkLoop

`JobMan` and `QueMan` let any task come next; `WorkLoop` says when each does come.
All timers of a round are compared with the `now` read at its top and set from
it, so a round is one step (`Round`) and the time it takes (`Busy`, `Worked`);
timers are kept relative to `now`.  `Hup`, `Term` and `Chld` may come at any
second, and end a sleep; what is left of it decides with `run_jobs` whether
the loop goes on.

### QueueScripts

A step for each directory that a script makes, counts, reads, empties or
removes, and for each file that `rm -fr` unlinks, in two orders of the listing.
Jobs are submitted, moved, purged, loaded and stored in between: a store makes
a file again under the name that the manager knows, if its directory is there.
`mkjobq`'s JSTATES has kill and `rmjobq`'s has not, so kill files are not counted;
`rmjobq` leaves the queue's file in `qdefs` behind.

### Names, Finder and JobText

`Names` has the text of a name from `name()`, its way back through
`_init_from_path` and `parse`, `time_filter` with `std::string`'s order, and
`jobcompare`.  Where that takes two jobs for equal `std::sort` may leave them either way,
so `Eligible` is the set of the orders that there may be.  Three digits stand for the ten of
a time, 127 for the highest int.

`Finder` reads one directory at a time, in the order of `state_t`, and then loads
by the name it found, while the job moves, is stored, retried and purged.

`JobText` keeps a file as a sequence of tokens (a newline or a piece of a line)
and has the whole reader of `multipart::load` as a loop over its lines.  `Tries`
and `TryDone` load, change and store the text; the job appends tokens, among them
one that looks like a header and the "## " that sets the sub-status.  The history
variable `should` has the sections that the file should consist of.

Loops over texts, here and in `Strings` and `Logger`, are recursive functions: `at[k]`
is what the loop knows after k rounds.  That is what the proofs need, and TLC
evaluates them all the same.

### Logger, Strings, Config, Isafe

`Logger` is a message put together value by value, with `SignalHandler` between any
two steps.  `Strings` has the helpers as operators, and with `Command` and
`Words` the way of an argument from the header line to the words of `wordexp`
(whatever is expanded becomes the character "expanded"; a backslash in double quotes
stands for itself, as `qq` never puts one there).
`Config` has `load` line by line (`ConfigLine`): what is left of a line is a comment, a
section or a tag, and where the code scans character by character the
definitions name the place that it stops at (`Past`, `Until`).  `to_string` writes
sections and tags in the order that `Order` chooses: no property depends on which.
`Isafe` counts what a call has done (`effect`) against what it reports.  For the
texts a behaviour types keys, and the properties are about each text typed.

Some behaviour that no property is about is in the definitions all the same: the
logger prints "%%" as "\%" (`log.cxx:436`, met by `launch.cxx:281`); a `split` into
one part is a split without a limit; `%X` is not
folded to `%x` (the test is `f > 'z'`) and, like any conversion unknown for a
type, is shown as "##"; the line "a;: v" of a configuration is accepted.  Left
out are a "[" at the end of a configuration (`load` reads past the text), a job
that prints its own boundary, and NUL bytes.

## Runs

Every configuration sets CHECK_DEADLOCK FALSE: when all jobs are done and purged,
ids given out or daemons ended, nothing has to happen any more.

### That pass

| run | instance | shows |
|---|---|---|
| `jobs_two` | 2 nodes, 2 jobs, 3 inodes, no deaths | one process per job, one file per job, commands kept, run limit and try limit kept |
| `jobs_crash` | 2 nodes, 1 job, 2 inodes, 2 deaths anywhere, orphans | a running job's lock is held; the documented state changes only; sections in order across retries and resurrections; `JobQueue` implemented |
| `jobs_live` | 2 nodes, 1 job, 1 death anywhere, children die with the manager, EINPROGRESS | every released job ends; `IInv`, the inductive invariant behind the proof of `OneRunner`, holds on the way |
| `daemons` | `Launch` with 3 pids and 3 pads; `QueMan` with 2 queues and 3 pids | no lost child, no lost wakeup, nothing runs unlisted, all die with the daemon; one manager per queue, queues served, none left behind, SIGHUP answered |
| `group_crash` | 2 managers, 2 members, 3 children, a crash anywhere but within the writing of the group's file, a failure, purges | a group that is done was done for every member |
| `group_ends` | 2 managers, 2 members, 2 children, a death outside of the split | one file per group, one child per member, the group is done last, and gets done |
| `parts` | ten parts, see below | each part's own properties |

In `daemons` and `parts` a behaviour chooses its part at the start and takes the steps
of that part alone, the variables of the others keeping their first values; 105 918
and 49 191 states in all.

| part | instance | shows |
|---|---|---|
| loop | reap, poll and clean, first after 0, 2 and 4, then every 1, 3 and 5 seconds, cut to 0, 1 and 2; rounds of up to a second | `TasksInTime`: no task is late, whatever signals come; `LoopEnds`: SIGTERM ends the loop |
| ids | 2 mkjobs at one site, 1 at another, 3 calls, numbers of 3 bits | no number twice, no counting back, no job id twice, every call returns; with a job manager among them see `ids_zones` |
| call | 3 further tries, counter of 3 bits | `AnswerIsTrue`: success means done once, an error not done, and passing errors are tried Limit times more |
| find | 2 queues, one retry | `FoundUnlessBack`: a job that only moves on is found |
| log | the texts of a result, an error and mixed values, at level "info" | `MessagesWhole`: a message reads as meant whatever is in its values, and is the one the user is told |
| text | 3 tries of 2 tokens each | `OutputKept`: every output is kept to the byte, the sections are found again, the sub-status is the last one printed |
| names | 3 jobs, 5 run times, 2 priorities, 3 ids, 3 times of the clock | `DueInOrder`: exactly the due jobs, by priority and time, each under its own name |
| sh | 1 job, 2 orders of listing | `AskedUnlessBack`: no incomplete job is removed unasked unless it came while counting; `RemovedWhole`: what is said to be removed is gone |
| words | texts of up to 4 keys, cut in two anywhere | `ArgsArrive`: arguments arrive as typed, if a header line can hold them and they are quoted; `qq` is safe; `split` and `join` |
| config | texts of up to 5 keys | `ConfigKept`: what is loaded is what the lines say, and written back it means the same |

### That fail, and what they show of the code

| run | statement of the documentation | the code |
|---|---|---|
| `jobs_reboot` | jobs survive reboots (`man/job.pod:308`) | a crash after truncation loses the command |
| `jobs_remote` | one state at a time (`man/job.pod:274`) | `try_done` stores after it unlocked; a tied job is moved meanwhile |
| `kids_users` | kids die with the parent (`launch.hxx:125`) | setuid clears the signal |
| `group_torn` | done after all children (`man/mkjob.pod:46`) | the file is read while truncated |
| `ids_zones` | unique ids, also on clusters with zones (`man/job.pod:279`) | a job manager makes the children of a group without a zone: its number 11 is the id that mkjob makes of number 1 at the site with zone 1 |

### More of them, one change away

These are seen with the configuration of a passing run, changed as the second
column says (for an invariant or property that the configuration does not list,
list it alone).  They are not kept as runs of their own.  What a theorem assumes and
one of these changes makes false is an `ASSUME` of its own in `MCParts`, to be dropped
with the change.

| property | configuration, and the change | the code |
|---|---|---|
| `TryLimitKept` (`mkjob.pod:85`: no more runs than this) | `MCJobMan_two`, `MaxDeaths = 1` | `run_a_job` (`jobman.cxx:620`) counts a resurrected try but does not compare; only `try_done` does |
| `KillSticks` (`job.pod:482`: they'll cancel that job) | `MCJobMan_crash` | the kill file is unlinked (`jobman.cxx:810`) for one SIGTERM; a job that exits with EAGAIN retries |
| `AgeCountsFromDone` (`job.pod:437`: 30 days in done) | `MCJobMan_crash` | error paths (`jobman.cxx:604,706`) keep the run time a job was submitted with, 1999 by default |
| `OneRunner` (`IMPLEMENTATION:49`: flock manages contention) | `MCJobMan_two`, `PromptStore = FALSE` | `repath` unlocks before `store` writes (`file.cxx:376,432`); a write that takes longer than the retry delay makes a second file |
| `OneRunner` | `MCJobMan_crash` (where `KidsDie` is FALSE) | no lock is taken for no process (`jobman.cxx:306`); a process that outlived its manager is doubled |
| `OneRunner` | `MCJobMan_two`, `MaxSkew = 1` | the retry time is by one clock (`jobman.cxx:165`), the poll by another that may run ahead by as much |
| `NeverReissued` (`seqnum.hxx:64`: won't issue the same number) | `parts` (ids), `Tears = TRUE` | a short write in place and then a death mixes two numbers (`seqnum.cxx:157`) |
| `CallsReturn` | `parts` (ids), `Tears = TRUE` | a file of 1 to 7 bytes is read for ever with the lock held (`seqnum.cxx:129`) |
| `KidsDieWithParent` (`launch.hxx:125`) | `daemons`, `PromptKids = FALSE` | nobody checks after `prctl` (`launch.cxx:139`) that the parent is still there |
| `DaemonSurvives` (`launch.hxx:113`: the callback, good or bad) | `daemons` | a child that ends before the ACK: SIGPIPE ends the daemon (`launch.cxx:221`) |
| `GoneNotFailed` (`queman.cxx:217`: gone queues leave the failed list) | `daemons` (`Man!`) | `gone_queues` is a part of the known ones, a failed one never was (`queman.cxx:218`) |
| `TermEnds` (`queman.pod:95`: SIGTERM for a clean shutdown) | `daemons` (`Man!`) | `run_queues` is set (`queman.cxx:152`) after the handler that clears it is installed |
| `HupRescans` (`queman.pod:92`: SIGHUP rescans) | `daemons`, `Daemonised = TRUE` | `daemonise` ignores SIGHUP (`daemon.cxx:63`) after `main` has installed the handler |
| `OneKidEach` (`mkjob.pod:43`: a child for each item) | `MCGroup_ends`, `Abrupt = TRUE`, three `Kid`s, `Spec` | ties are only stored when the last child has been made (`jobman.cxx:240`) |
| `GroupEnds` (`jobman.cxx:374`) | `MCGroup_ends`, `Purges = TRUE` | a purged child is never "done" (`jobman.cxx:381`) |
| `LoopEnds` (`jobman.pod:101`: SIGTERM for a clean shutdown) | `parts` (loop), `EarlySignals = TRUE` | `run_jobs` is set (`jobman.cxx:857`) after the handler that clears it is installed |
| `AnswerIsTrue` | `parts` (call), `ClosesAnyway = TRUE` | Linux frees the descriptor whatever `close` returns: the repetition closes another's, or fails with EBADF |
| `AlwaysShown` (`job.pod:280`: the id refers to the job before, during, and after the job runs) | `parts` (find) | a job that goes back to pend behind the scan (`queue.cxx:166`), or moves before it is loaded |
| `ShownWhole` (the same) | `parts` (find) | `catjob` loads without a lock what a manager is storing |
| `AllArgsKept` (`mkjob.pod:19`: any additional arguments are passed to COMMAND) | `parts` (words), in place of `ArgsKept` | empty arguments, blanks around one, "$", "~" and a lone '"' (not in `qqif`'s list); a newline ends the header line, and what follows can make the file impossible to load |
| `AnyTextKept` (no error, so nothing is lost) | `parts` (config), in place of `ConfigKept` | a last comment without a newline runs into the next line (`config.cxx:83,180`) |
| `MessagesWhole` | `parts` (log), `Cur` "verbose" | the handler resets the object in the middle of a message, and "Got signal" is what the user is told |
| `MessagesWhole` | `parts` (log), `Cur` "warn" | a message that is not printed leaves the last one to be mailed (`jobman.cxx:190`) |
| `MessagesWhole` | `parts` (log), a message with the format "%s%s" and the values "\\" and "b" | `get_chunk` takes the backslash at the end of a value for the one that hides a "%" (`log.cxx:432`); `WellMade` says that no message is made so, and no message of the code is |
| `OutputKept` | `parts` (text), `LateOutput = TRUE` | what a process left behind prints lands in the header of the next section |
| `DueInOrder` (`job.pod:251`: priority 2 before priority 3) | `parts` (names), `Clock` {99} | the limit of the time filter is not padded (`queue.cxx:78`): "t1000000000" comes before "t999999999.zzz", so a job of after September 2001 was due before |
| `DueInOrder` | `parts` (names), `Clock` past `MaxInt` | `int2str` of a time after 2038 is negative |
| `AlwaysAsked` (`rmjobq:113` asks) | `parts` (sh) | a job that is retried during the count is never counted |
| `RemovedForGood` (TODO:177) | `parts` (sh) | a manager stores a job of the removed queue under its old name into the one made anew |

These divergences fix the environment of the passing runs: `PromptStore`,
`KidsDie`, `MaxSkew < Delay`, `Exits` without "remote", `Tears`, `PromptKids`,
`Users`, `WholeStores`, `Purges`, `Abrupt`, `Daemonised`, `EarlySignals`, `ClosesAnyway`,
`LateOutput`, `Cur`, `Clock` and the bounds on deaths each switch one of them off
where the run is about something else.  `WholeStores` takes a store of the group's file
for one step, so that no manager dies within it either (`jobs_reboot` is about such
a death).  `IdsDistinct` is only about processes that make their ids in the same way.

### Bounds, and why they are enough

- Two managers: every race here is between one that acts on something stale and
  one that has acted since.  Two jobs in `jobs_two` let a manager have one in
  hand and one running; one more inode than jobs lets a store create a second file.
- `Delay` 1 or 2 ticks, run times 0 and one later time, `MaxSkew` 1: a job can
  be seen early, on time and late by either clock.
- `TryLimit` 2: a first try, a last try, and one too many.
- `MaxDeaths` 2 lets the manager that raised a dead job die too.  `jobs_live`
  has 1: the question there is whether the other manager takes over.
- The clock stops when no name waits for it, and `Doomed`, `MaxChanges`,
  `MaxFailures`, `MaxCrashes`, `MaxCalls`, `MaxTries`, `MaxOutput`, `MaxRetries`,
  `MaxJobs` and `MaxWork` bound what the environment does.
- `SizeT` 256 for 2^64; in `SeqNum` three bytes of a bit each, lowest first, for eight
  of eight: the properties only need a borrow, and carries over more than one place.
- The loop's three tasks are one that is always due (reap), one whose interval is
  its first wait or more (poll) and one that a SIGHUP brings forward by much (clean);
  what matters is the order of interval, cap and round, and the theorem is for all.
- A script meets one job, as it has no memory of the others but a count; with two
  jobs and one order of listing the same properties hold in 230 562 states.
- Two tokens for each of three tries let an output end in the middle of a line, in a
  header-like line, in an empty line, and repeat that after each kind of result.
- Texts of four and five keys have each special character next to each other one,
  two at a time in two arguments; the clock of three digits is one digit
  wider than the shortest time, and at `MaxInt` the widest.

## Fairness

A manager's work loop is one thread that comes to each of its tasks again and
again (`will_work_for_food`), but a task finds something to do only from time to
time: strong fairness for starting tasks, weak fairness for the steps within one.
Queman restarts a dead manager (`q_done`, `yearn_for_queues`): weak fairness of
`Restart`.  Children are assumed to exit.  `queman` is one thread with a check
that comes due: strong fairness of what it does once a second.  In `Group`, managers take
up the group again and again and children that are pending get started and end.
In `SeqNum`, a lock that is free again and again is got, a process that has it goes
on (weak fairness of `Step`), and writes are not short for ever.  In `WorkLoop`
the daemon does not stop (weak fairness of `Awake`), and signals do not come in
every single second for ever: a sleep that may be slept out again and again is
(strong fairness of `Slept`); a stream of signals without a gap does keep the
loop going.  `daemons` and `parts` give each part the fairness of its own module.
The other
modules have safety properties only.

## Proofs

`JobManProofs`, for every finite or infinite set of nodes, jobs and inodes and
every value of the other constants that meets `JobFileAssumption` and
`JobManAssumption` (constants are what they are said to be; the special values
are outside the sets; the run limit fits a size_t):

- `TypeCorrect`: `Spec => []TypeOK`.  `TypeOK` is not inductive: a step that uses
  the name or the lock file in hand must know there is one.  `TInv` adds that
  (`HandInUse`), and is preserved action by action; the steps that only change
  the file system go through lemmas on `Renamed`, `Unlinked` and the sections.
- `RunLimitSafe`: `Spec => []RunLimitKept`.  The run limit is an invariant only
  together with what a poll may still start: `RunInv` says that children and
  need together stay within the limit, that the need is positive while a job is in
  hand and zero outside of a poll.  The size_t arithmetic of `Room` is
  exact because the children never outnumber the limit; the cardinalities come from
  `FiniteSetTheorems`.

The second half of `JobManProofs`, under `OneRunnerAssumption`: children die with their manager
(`KidsDie`), a store that follows its rename is over before the clock moves on
(`PromptStore`), and clocks differ by less than the first retry delay
(`MaxSkew < Delay`).  Without any one of them the statement is false of the code
(see the runs).  Deaths, EINPROGRESS, kill orders, failed launches and stale
listings are all in.

- `IInvSafe`: `Spec => []IInv`, the inductive invariant that the others rest on.
- `OneRunnerSafe`: `Spec => []OneRunner`, no job has two live processes.
- `LockSafe`: `Spec => []OwnerHoldsLock`, what a manager has launched it holds.

The last two are not inductive: that nobody calls a running job dead depends on what every
other manager has in hand.  `IInv` says so, in parts:

- `UniqueActive`: a job that can still run (hold, pend, run) has one entry;
  `EntriesSubmitted`: entries belong to jobs that were submitted.
- `HandOpened`: an inode that was opened for a job is that job's file still, or
  the job is over (`Bound`).  A lock taken late is therefore a lock on
  the right file, or on one that no name of that job finds.
- `HandLocked`, `PadsOwned`: from the load on, lock, name and inode agree.
- `HandEnding`: between the rename of `try_done` and its store, which is not
  under the lock, the job is over, or due later than any clock says it is, so that
  nobody touches the file.  This is where skew, delay and `PromptStore` are needed.

The proof first says what a change of the file system must leave alone for a
manager that does not move (`FsKeeps`) and that it then keeps its part of `IInv`
(`NodeKept`).  Then it has one lemma per step: what the step does to the files is one
of a few kinds (`NothingMoved`, `FileMoved`, `FileWritten`, `OverMoved`), and
what it does to the manager's own part is shown directly.

`PromiseProofs`, under `OneRunnerAssumption` and if no job exits with
EINPROGRESS (one that does gets a second file, see `jobs_remote`):

- `SingleStateSafe`: `Spec => []SingleState`.
- `StateEdgesSafe`: `Spec => StateEdges`, entries move along the edges of the
  diagram only.
- `PromiseKept`: `Spec => KeepsPromise`, `JobMan` implements `JobQueue`.

`PInv` is `IInv`, `SingleState` and what a step needs besides: no file is tied
(`NoTies`, `NoneRemote`), only mkjob touches a file in hold (`HoldFree`), and what
`try_done` has renamed and still has to store is where it put it (`EndingKept`:
nobody takes a retry before it is due, nobody purges what has only just ended).
The refinement goes by way of a third view, `FileStep`: what a step of a manager
does to one inode.  Each step of `JobMan` is a `FileStep`, which is where `IInv` ties
names to inodes; each `FileStep` leaves a job with one file, hence `PInv`; and with
one file for each job (`Mapping`) it is a step of `JobQueue` for that job, or changes
nothing there (`OneFileMapped`, `AllLeftMapped`, `CreateMapped`, `HoldMovedMapped`).

The second half of `PromiseProofs`, about what is in the files:

- `LogSafe`: `Spec => []LogInOrder` under `OneRunnerAssumption`, with deaths anywhere.
- `CommandKeptSafe`: `Spec => []CommandKept`, if besides managers end between two
  tasks only, as SIGTERM ends them (`KeptAssumption`: `Abrupt` is FALSE, or
  `MaxDeaths` 0), however often they do and leave jobs behind for others to raise.
  With deaths in the middle of a task it is false of the code: the run `jobs_reboot`.
- `TryLimitSafe`: `Spec => []TryLimitKept`, if no manager ends at all (`NoDeaths`);
  else it is false of the code, see the table above: who raises a job does not compare.

A manager writes a file from a copy that it loaded some steps before.  `LogInv`
therefore says of files and of copies in hand that their sections are in order, and
that what is claimed, launched or running has a try without a result (`TryInHand`),
which is why the result that `try_done` appends belongs to it.  `IInv` says that nobody
else has written the file in the meantime (`OthersUnwritten`).  `KInv` says what the
second pair needs: an empty file is in the hands of the one who will write it, and a copy
about to be stored has its command (`StoreWhole`), which holds over a death because nobody
who is about to write dies; and, without deaths, a file in pend has a try left, a copy
is within the limit, and a file in run belongs to a manager that has claimed or launched
it (`Owned`), which is why `bring_out_yer_dead` finds every lock taken and moves nothing
back to pend.
The steps are told apart by what they do to entries, claims and contents (`EntryStep`,
`HoldStep`, `DataStep`), each shown of all steps and then used once.

`PartsProofs`, about the parts that work on their own.  Each has an inductive
invariant in which the property is a consequence or a part:

- `TasksInTimeSafe`, for every set of tasks, intervals and caps.  How long a task has
  waited says nothing of how long it still will: `Timers` adds that wait and timer
  together stay within the interval, and that a SIGHUP which has not cut the timers
  yet is not older than the round.
- `CountsOnSafe` and `NeverReissuedSafe`, for any sites, processes and width of a number,
  if no call ends between a short write and its repetition (`~Tears`; else both are
  false of the code) and the numbers are not used up (`MaxCalls < Last`; at 2^64 they
  begin anew).  `IdsInv` has for each site a number that it has come to (`Reached`): the
  file says it or, while it is being written, its writer is about to; what was given
  out is not above it; and with the calls that have still to add one it is not above
  the number of calls, so that nothing wraps round.  That one process
  reads, adds and writes at a time (`Locked`) keeps it so.
- `IdsDistinctSafe`, under the condition of these two and if the sites that have a zone
  have each its own: processes that make their ids in the same way (`Alike`), all with a
  zone, or at one site without, never make the same.  Of two sites the last digit tells
  them apart; at one site it is that each id is made of a number that was given
  out (`Made`), and no number makes two (`Apart`).  Between one way and the other,
  mkjob and a job manager, ids do clash (`ids_zones`).
- `AnswerSafe`, for every limit that fits the counter, if a close that reports an error
  has not freed its descriptor (`~ClosesAnyway`; see the table above).
- `FoundSafe`, for any number of queues and retries.  A job that has not come back is
  in a directory still to be read (`Ahead`): the scan goes in the order
  of the states, and so do jobs.
- `AskedSafe` and `RemovedSafe`, for any set of jobs and orders of listing.  A job that
  is incomplete and not counted came back, or is in a state that is still to be
  counted (`CountedNone`); who stores a file does so where the job is, or where `rm`
  took it away (`HandsHold`), and no file is in a directory that is gone (`DirsStand`).

- `MessagesWholeSafe`, for any messages with any number of values of any text, if they
  are logged at the level in force (`Logs`) and "verbose", at which the signal handler
  logs, is not, and if no value that ends in a backslash stands directly before a
  conversion (`WellMade`); see the table above for each of them.  `LogInv` says that
  after n values the object is what the message says so far and the rest of its format
  (`InFormat`); that `get_chunk` finds the next conversion of the format and none in
  a value (`ChunkFound`, `FilledIn`) is what keeps it so (`FilledIsSaid`).
- `DueInOrderSafe`, for any numbers of jobs, times, priorities and ids, if no time has more
  digits than names have (`NamesAssumption`) and time(0) has as many and fits an int
  (`ClockShown`; the table above has the clock on either side of it).  What has to be
  shown is what a name is worth: digits are read as the number they were written for
  (`DigitsRead`) and zeros in front of them are not seen (`PaddedRead`); of two names
  with as many digits the lower number's comes first, whatever is behind it (`FilterIs`); and
  `split` takes a name apart at the separators it was put together with and no other
  (`NameSplit`), so that a job found by its name is opened under that name (`ReadBack`).
- `ArgsArriveSafe`, for a text of any length; see `StringsProofs`.

`Parts` only gives the modules' constants and variables names of their own, so each
theorem is about the module as it stands and for every value of its constants; the
run `parts` checks the same formulas in one small instance of each.

`LaunchProofs`: `NoLostChildSafe`, `RunsListedSafe`, `ZombieNoticedSafe` for any
number of pads and process ids, and `KidsDieSafe` if children are armed before
their daemon dies and none changes its user.  The invariant ties the table to the
processes: an entry is for one that is not reaped (`TableInv`), a process
without an entry is the one that `start` has just forked and has not told to go on
(`Listed`), whoever goes on is armed (`ArmedInv`).

`QueManProofs`: `OneManagerSafe`, `KnownSafe`, `NoneLeftSafe` for any set of queues
and any number of changes and failures (`QueManAssumption` only says that these are
numbers).  One pad for each queue and each process
(`OnePad`) is what keeps a reap from taking the wrong entry, and `AllDead` carries
the kill at the end through the exit.

`GroupProofs`, for any number of managers, members and children, any failures and
purges, and as long as no look at the group's file falls into the writing of it
(`WholeStores`; without it the run `group_torn` refutes them):

- `MembersServedSafe` and `OneGroupFileSafe`, with managers that die anywhere else.
- `GroupDoneLastSafe` and `OneKidEachSafe`, if none dies while it splits the group
  (`Orderly`): one that dies between two children leaves some that nobody will
  know of.  Who only looks may die at any directory of its walk.

`GInv` is the first pair's: the file is pending, tied or done and nothing else
(`Files`), who splits has the lock and who stores is alone (`Hands`), and a walk,
which collects the children's states over many steps while they move, looks for a
child that was never made, or for at least one child of each member (`WalkOf`).
The first kind never ends well, so a walk that may conclude is of the second, and
what it has seen done stays done or is purged.  `CInv` adds for the second pair that
every living child is one the ties name (`KidsKnown`), that who is still to make a
child has none for that member (`NoneYet`), and that a walk which looks for a
child of each member looks for all there are (`AllAsked`).

`StringsProofs`, for texts of any length.  The helpers are loops, so the proofs are
inductions; as no prover here can instantiate an induction theorem with a predicate, `NatInd`
is induction with a set in the place of one, proved from the well-foundedness of `<`.
`Iterates` and `SameHistory` say that a loop has a history and only one, and from there
each helper gets laws of its own: `ReadsAllConcat`, `JoinAppend`, `SplitLoop`, ...

- `QqSafeForAll`: a shell makes of `qq(s)` one word, s, for every string s.
- `ArgsKeptForAll`: the words of the command that `run_a_job` builds are the command
  and its arguments, for any number of them, if a header line holds each (`Holds`) and it
  is quoted or needs no quotes (`Quotable`); the exceptions are the `AllArgsKept` row above.
- `SplitsWholeForAll`: `join` undoes `split`, for every separator but the empty one.

`TextProofs`: `OutputKeptSafe`, for any tokens a job may print but the boundary, any
number of tries, and any length of output, if nothing prints after the job has ended
(`~LateOutput`; see the table above).  `TextInv` says that the file is what `to_string` makes
of the sections that it should have, and that a running job's output is the last.
That `load` finds them again (`RoundTrip`) is shown section by section
(`SectionIsRead`) and line by line (`LinesConcat`, `BodyIsRead`): a section's body is
changed by its own lines and the newline before the boundary and by nothing else,
and the boundary is not among them.

`ConfigKeptSafe`, for any text of a configuration, if no character of a tag is a blank
or has a meaning of its own (`ConfigAssumption`) and the last line is whole; see the
`AnyTextKept` row above.  That the lines are meant as they are written (`TextIsMeant`)
has two halves: a value is there once its line is read (`SaysIsSet`), and later
lines only touch the tags they name (`ValuesStay`, `RemarksStay`).  That what is
written comes back (`EachComesBack`) rests on what `load` can make at all (`Configs`): no
name of a section has a "]" or a blank behind its first character, no
value begins or ends with a blank, every remark is a whole line.  Then the
tags that are written and read grow by one entry, remark or head at a time
(`EntryIsLoaded`, `RemarksAreLoaded`, `HeadIsLoaded`), whatever their order (`OrderIs`).

With this every safety property that a passing run checks is a theorem, of any size of
the system.  Left to TLC are the liveness properties (`EveryJobEnds`, `GroupEnds`,
`QueuesServed`, `HupRescans`, `LoopEnds`, `CallsReturn`: fairness, ENABLED).

The modules meet in what they assume of each other.  That `JobMan` submits each id once is
`NeverReissuedSafe` and `IdsDistinctSafe`, as long as no job manager shares the queues
with an mkjob that has a zone and splits groups; that its system calls happen or fail is
`AnswerSafe`; that a child's end gets to its manager is `NoLostChildSafe` and
`ZombieNoticedSafe`, and that it dies with it (`KidsDie`) is `KidsDieSafe`; that a queue
has one manager on each machine is `OneManagerSafe`.  These links are made here
in words, not by a proof.

## Not modelled

- `job-cfg.cxx`: it uses a namespace and classes that are not in this repository,
  and is not built.
- `status.cxx` (a number and a text), `path.cxx` (constants), `getopt.cxx` and the
  vendored option parser below it, dates and times as texts.
- `lsjob` and `lsjobq`, which list directories and print; `edjob`, `rmjob`, `mvjob`,
  `edjobq`, `mvjobq`, which only say "not yet implemented".
- Of the logger the header of a line, the syslog (whose priority is made with
  `||` in the place of `|`), and what ends the program; of the queues
  the `statemask` of `scan_queue`, which `&&` turns into all or nothing.
- `find()` returns the text of an error as if it were a file name when the queues
  cannot be listed; then `catjob` cannot load it.
- The test-only `launch::wait`, `notify_user` beyond what it says, the second
  instance of queman that the lock on the configuration file keeps out, the
  init script, packaging and tests.

## Plan

Done, in the order of importance: files, managers and the promise (`JobFile`,
`JobMan`, `JobQueue`), their proofs up to the refinement, `Launch`, `SeqNum`,
`QueMan` and `Group`, the loop, the scripts, and the texts.

Left: `Group` with children that are those of `JobMan`, in one module.
