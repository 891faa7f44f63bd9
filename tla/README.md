# tvpvrd: a verification project

tvpvrd is a video recorder daemon in C. Clients ask for recordings over a socket
or a web page, one thread starts them when their time has come, a thread per
recording reads the card and afterwards has `ffmpeg` transcode the file. A second
program, tvpowerd, switches the recording server off and on. This directory holds
TLA+ modules for the parts of both that decide something, TLC configurations that
check them on small instances, and TLAPS proofs for every instance. Paths below
are relative to the repository's `src/src/`.

## The system

| Component | State | Operations | Modules |
|---|---|---|---|
| Scheduler (`tvpvrsrv.c`: `chkrec`, `startrec`, end of `main`) | `ongoing_recs`, `abort_video` per card; a thread per recording; `rec_threads` | a pass over the cards every `time_resolution` seconds; set-up, capture, stop of a recording; abort all and wait | `RecScheduler`, `RecSchedule` |
| Queues (`recs.c`) | `recs`, `num_entries` per card, `global_seqnbr`, `recurrence_id` | overlap test, insert, delete, remove the top, sort | `Recs`, `Database` |
| Dates of series (`datetimeutil.c`) | none | `increcdays`, `adjust_initital_repeat_date` | `Calendar` |
| Commands (`tvcmd.c`) | none of their own; ~60 commands | see below | `Series`, `Commands`, and the module of what each changes |
| DB file (`tvxmldb.c`) | one XML file of the pending recordings | written after each change; read back as entries | `RecScheduler`, `Database` |
| Transcoding (`transc.c`, end of `startrec`, `futils.c`) | `ongoing_transcodings`, `wtrans`, working directories, MP2 and MP4 files | wait for the load to fall, fork, watch, move the files; kill | `Transcoding` |
| File lists (`transc.c`) | `ongoing_filelist_transcodings`, a thread each | read, enqueue, submit, dequeue, show | `FileLists` |
| Client connections (`tvpvrsrv.c`) | `client_socket`, `cli_threads`, `ncli_threads`, `htmlencode_flag` | accept, password, one command at a time, time-outs, signals, end | `Server` |
| Web pages (`httpreq.c`, `tvwebcmd.c`, `tvwebui.c`) | the login cookie | parse, log in, turn a form into a command, list | `WebRequests`, `Server` |
| Video cards (`vcard.c`, `vctrl.c`), channels (`freqmap.c`) | the registers of the card; descriptors | set up a card for a recording and at the start; control commands | `Cards`, `FreqMap` |
| Automatic shutdown (`tvshutdown.c`) | settings, the alarm clock | look for reasons to stay up, set the alarm, stop the machine | `AutoShutdown` |
| Power-on daemon (`tvpowerd/`) | the next recording | ask, shut down, wait, wake | `PowerDaemon` |
| Lock file (`lockfile.c`), first half of `main` | two files | check, create, take over, delete | `LockFile` |
| History, statistics (`tvhistory.c`, `stats.c`) | a ring of recordings, counters; a file each | read, add, write, reset | `History`, `Restart` |
| Mail, shell, log, INI parser, string helpers | | formatting and I/O | no |

### How the parts interact

- `recs_mutex` guards `recs`, `ongoing_recs` and the two transcoding tables.
  `clientsrv` (`tvpvrsrv.c:1465-1475`) and the web server hold it for a *whole*
  command, including what the command writes to its socket and the mails it sends.
  `chkrec` holds it for a whole pass over the cards. `startrec` takes it only to
  clear `ongoing_recs` and around each access to the tables of `transc.c`. `main`
  takes it while it aborts the recordings and closes the sockets.
- `abort_video` is *not* guarded: `startrec` resets it after the set-up (`879`),
  tests it after each read and resets it at its end; commands and `main` set it.
- `chkrec` moves a recording from `recs` to `ongoing_recs` and creates its thread;
  the thread takes it from there. The card is free when `ongoing_recs` is NULL.
- `socks_mutex` guards the tables of clients, for a few lines at a time;
  `htmlencode_flag` is guarded by whoever holds `recs_mutex`.
- Pages list recordings after their command has given the mutex back.
- The history and the statistics are called by recording threads with no mutex.
- `chkrec` calls the automatic shutdown before each pass and without the mutex but
  for one look-up. tvpowerd asks over ssh and over the client port.
- Transcoding threads share directories and files with nothing to guard them.

### What is hard, and what makes each part right

The hazards, each at its line, are in `PROJECT.json`. In short:

- *Scheduler.* A recording's thread stops late; flags belong to cards, not to
  recordings; time is read before a lock is taken; the thread may not come to be.
  Right if a card has one reader, each recording is in one place and comes to an
  end, and nothing is started early, late or out of order.
- *Queues and dates.* A removal moves the last entry to the front and sorts again;
  a series is checked on some dates and stored on others; six weekday patterns are
  coded twice, as loops and as tables. Right if recordings of a card never overlap
  and a series takes the days its name says.
- *DB file.* What an earlier server left in it is kept and not read. Right if it lists
  what is pending from the first change on, whenever a command could end, and if what
  is left of a series is what reading it gives.
- *Transcoding.* Slots outlive processes; processes are killed, hang, do not start;
  two files want one name; lists are freed while they are read. Right if nothing is
  deleted that was not transcoded, slots have one owner, no file is worked on twice in
  one directory, and all threads end.
- *Clients.* Descriptors are used again; one mutex and one flag serve all; a client
  stops reading. Right if tables and threads agree, answers have the form their
  reader needs, no freed recording is shown, and none runs a command unknown.
- *Cards.* The driver refuses some orders of settings and keeps the last ones; calls
  fail and are tried again, cards lack controls, names of sizes are not checked before they
  are used. Right if what is recorded is what was asked for.
- *Power.* Decisions rest on what was read minutes ago, packets are lost, users come
  in between. Right if the server is up for what it knew of and cuts nothing off.
- *Files across restarts.* Processes die at any line and their numbers come back.
  Right if one server runs and the files say what happened.

## The modules

**`Recs`** is `recs.c` without state: `isentryoverlapping`, `Refused` and `Expand`
(the two halves of `insertrec`), `Inserted`, `WithoutTop`, `Kept`. A queue is a
sequence; `sortrecs` yields some sorted sequence (`qsort` is not stable, but equal
start times on one card overlap and are refused). The dates of the k-th occurrence
are CONSTANT operators, so that `Recs` and everything above it can be checked with
a simple calendar or the real one and proved about for any.

**`RecScheduler`** EXTENDS `Recs`. Actions: the commands `AddRec`, `AddRecToFull`,
`DeleteRec`, `AbortRec`, `SaveDb`; the `chkrec` thread `ReadTime` (`now` is read
before the lock), `BeginPass`, one of `SkipVideo`, `MissRec`, `StartRec` per card,
`EndPass`; a recording thread's `SetupVideo`, `MakeFile`, `FailRec`, `Capture`
(the loop's test of `abort_video`), `CheckEnd` (its test of the clock), `StopRec`;
`main`'s `AbortAll`, `FirstLook`, `Wait`, `Exit`; and `Tick`. A command is one step
because it holds `recs_mutex` from its first line to its last; so do `chkrec`'s
lines for one card, but between cards the threads, which need no mutex for most
they do, may run. `ended` and `cancelled` are history variables. `Init` is a server
after `init_tvxmldb`, which makes a DB file if there is none and otherwise leaves the
one that is there: `xmldb` starts as any of `EarlierDbs`, empty or with recordings of
the server before, and the queues are empty.

**`RecSchedule`** says what a client may rely on: bookings of a card that do not
overlap, started one at a time, the earliest first, no more than `time_resolution`
before their time, and given up unrecorded only more than ten minutes late or when
deleted. `RecScheduler` implements it (`ImplementsSchedule`) with queues read as
sets. The clock of the schedule is the real one, not the one `chkrec` has read: a
pass that waits for the mutex acts on an older time, which makes it start and
miss later, never earlier; the refinement holds all the same.

**`Calendar`** is `datetimeutil.c` on days and seconds of the day: recurrence types
1 to 9 with `SkippedBy`, `StepDays`, `AdjustDays`, `increcdays`,
`adjust_initital_repeat_date`. A month is its first day; a day too many runs over
into the next month as `mktime` has it. Summer time is left out.

**`Series`** runs `ar` step by step: the number of occurrences (given, or counted
until a day, in `_cmd_add`), the date, the loop of `isentryoverlapping`, the
adjustment, and the loop of `insertrec`, each reading the clock anew where the code
does. `LoopsAreExpand` says these loops compute what `Recs` takes as one step.

**`Database`** EXTENDS `Series` by the life of the series in the file: its entries
with their numbers and mangled names, one recorded (`remove_toprec`) or deleted
(`delete_recid`) after the other, the master record `_writeXMLFile` makes of what is
left, and what `processRecording` and `insertrec` make of the record. `readXMLFile`
has no caller in this version; the module says what reading would give.

**`Commands`** is what commands do to and collect from the recordings when times do
not matter: a recording is its number, card and series. **`WebRequests`** EXTENDS it
by requests: cookie and user agent, path and arguments, and one operator per form.
**`Server`** EXTENDS both by threads. `Accept`, `Refuse`, `StopServing`, `CloseAll`,
`Exit` are `main` and `startupsrv`; a client thread goes `Start`, `Password`,
`Welcome`, `Send`, `Execute`, `WriteRaw`, `Answer`, `Leave`; a web thread `Start`,
`Request`, `Execute`, ..., `NextRecordings`, `RestOfPage`, `Leave`. A command
collects pointers (`seen`) when it takes the mutex and follows them when it writes.
`Schedule` is `chkrec` freeing and moving recordings. A `Slow` client may stop
reading, and then a write to it never ends.

**`Transcoding`** follows a recording after it has given up its card, and the
threads of `tf`. A thread is a record of its place and local variables (`rid`,
`tidx`, `transcoding_problem`, `keep_mp2_file`); the tables are as in `transc.c`;
`mv_and_rename` and the making and removing of directories are split where another
thread can come between (`ChooseName`/`MoveMp4`, `CheckDir`/`MakeDir`/`LinkFile`,
`CleanDir`/`RemoveDir`). The directory of a `tf` thread has the name of its file without
the suffix (`NameOf`), the link in it the name with it (`FileOf`). A kill command is two steps per slot (stop, 50 ms, kill)
with the mutex held. Load, run time and exit status are choices. A process ends as
`ok` or `bad`; a process without a slot runs on.

**`FileLists`** is `tl` and `lq` with the memory they use: parameters and arrays have
addresses that are freed (`FreeParam`, `FreeArray`) while the thread still follows
them, keep their content or hold junk, and are handed out again. Following junk, and
freeing what is free, ends the server (`Crash`).

**`Machine`** is the environment of both shutdown programs: power, alarm, users,
tvpvrd with the start times of its recordings. **`AutoShutdown`** is
`check_for_shutdown` in steps (`check_for_shutdown`, `LookUp`, `Decide`, `RunScript`,
`ShutdownDirectly`) and the pass that follows; **`PowerDaemon`** is `server_loop`, an
action per question or order; **`Power`** composes them on one machine.

**`LockFile`** is `lockfile.c` with the way from the command line to a daemon of
another number: `Check` (`stat`), `ReadLock` (open and read), `Look` (`/proc`),
`TakeOver` or `createlockfile`, `startdaemon` and `updatelockfilepid`, with other
servers, other programs and kills between any two of them. `gaps` remembers which of
its ways past the lock a server has taken. **`History`** is the data a server keeps in
files; **`Restart`** composes them into servers that start, record, end, fail and are
killed. `listed`, `saved` and `counted` say what the files should say; `misread` that a
whole history was given up for a title.

**`FreqMap`** is how a channel's name becomes a frequency. **`Cards`** is one card
between recordings: `setup_video` call by call, `setup_capture_cards`, and commands
that set controls meanwhile. An operation is a sequence of writes and reads of
registers; `Ends` gives the ways it may end: refused for its value or for a control the
card lacks (`missing`), busy, or broken. The names of sizes of the picture are looked up
where the code does, in letters of either case first (`SizeKnown`) and as they are
spelled in the table last (`SizeNamed`).

`MCRecScheduler`, `MCSeries`, `MCTranscoding`, `MCPower`, `MCServer`, `MCFileLists`,
`MCRestart` and `MCCards` give values; the modules named `...Proofs` hold the theorems
(see The proofs). Operators commented as a mutant of another are that operator with a
plausible bug; for each property of a passing run, one of them, put in the other's
place, makes TLC find it violated.

## The runs

| Run | Expected | What it shows |
|---|---|---|
| `RecOneCard` | pass | One card, queue of 2, closely spaced recordings and a series, all interleavings: `NoOverlap`, `CardExclusive`, `Accounted`, `NoInheritedCancel`, `DbCurrent`, `ImplementsSchedule` |
| `RecTwoCards` | pass | Two cards, failing `pthread_create`, shutdown: `CardExclusive`, `Accounted`, `ImplementsSchedule` |
| `RecLiveness` | pass | `EverySettled`, with failing DB writes |
| `SeriesDates` | pass | All types, all weekdays, times before, at and after now: `EveryNamedDay`, `NoSelfOverlap`, `StoredAsChecked`, `UntilFromLaterDay`, `LoopsAreExpand`; written and read back after recordings and a deletion: `ReadsBack` |
| `Transcoding` | pass | `SlotsMatch`, `WaitingListed`, `DirExclusive`, `FailedKeepsMp2`, `EveryThreadEnds` |
| `FileLists` | pass | Lists whose memory is freed under their threads: `QueueNamesRunning`, `GoesThroughItsList`, `AllOrNothing`, `EveryListEnds` |
| `Server` | pass | Two terminals and a browser for two slots: `SlotsMatch`, `EncodedForBrowsers`, `ListedAlive`, `CommandsNeedLogin`, `SlotsFreed` |
| `Cards` | pass | Recordings, commands, failing calls, missing controls and misspelt sizes on one card: `RecordsAsAsked`, `FailsCleanly` |
| `Power` | pass | Both shutdown programs on one machine: `WakesForNext`, `WokenInTime`, `KnownNotCut` |
| `Restart` | pass | Servers started and killed, lock files that vanish, a history that is misread: `OneServer`, `HistoryIsLatest`, `NothingUncounted` |
| `TranscodingLost` | violation | With the table of processes full a recording is deleted untranscoded |
| `PowerNeverOff` | violation | The daemon does not understand the answer that says no card records |

### Bounds, and why they are enough

- The three `Rec` runs start with an empty DB file and with one in which an earlier
  server has left a recording (`NewOrLeft`): what else it may list makes no difference,
  as nothing reads it.
- `RecOneCard`: 3 sequence numbers, 5 clock values, `MaxEntries` 2, `TimeRes` 1,
  `MissLimit` 2. Recordings follow each other without a gap, so a late stop meets
  the next start; the clock reaches past the limit for missed ones; the queue fills.
  Three recordings allow one recording, one pending and one being added or deleted.
- `RecTwoCards`: 2 numbers, queue of 1, the clock up to 2 with `MissLimit` 0 so that
  recordings can be missed; enough for a scan between whose cards a thread ends, for
  both cards recording, and for the shutdown to come at any time. Cards share
  nothing else.
- `SeriesDates`: every type from every weekday with the real patterns of weekdays and
  months, days of 4 time units, counts past two weeks, end dates, lengths up to three units and one too long; each series then
  loses entries from its front and up to one (`MaxDeleted`) anywhere; start numbers
  2 and 100, so that numbers to exclude lie on both sides of the first entry's.
- `Transcoding`: four pairs of threads (`Together`), one slot in either table, so
  that two threads contend for it: two recordings, one of them with two profiles; a
  recording and a file of its name; two threads for one file; two files of one name and
  different suffixes. `mv_and_rename` has two names to try. Three threads with two slots
  have been checked for the same invariants apart from the configuration kept here
  (`Together` = `{{film, news, fileA}, {fileA, fileB, fileC}}` with `news` a third
  recording, `MaxOngoing` 2: 5.4 million states in three minutes); `kt` over several
  slots happens there only.
- `FileLists`: three lists, of two files, one, and one that is missing; a queue of
  one, so that a list finds it full; two addresses of each kind, so that the memory
  of one list is handed out to the next while the first still follows it; one failed
  thread (`MaxFaults`).
- `Server`: two terminals, one of which may stop reading, and a browser for
  `max_clients` 2 and three descriptors, so that one is refused or comes when a slot
  and a descriptor are used again; one recording, added, listed, deleted, dumped and
  scheduled; two tries at the password instead of three, one command each, one thread
  that cannot be created; every path of the pages, with right, wrong and missing
  cookies and arguments. Slots are told apart only by being free: a third adds none.
- `Cards`: three profiles whose rates lie apart and across one another and two whose
  size is misspelt, in its case or altogether; a station, a channel and an input; five
  configurations of switch, tuner and profiles, the card lacking one of the image or
  one of the audio controls in two of them; three failures (`MaxFaults`), which outlast
  the two retries; five descriptors (`MaxFd` 7), enough for two leaked by one set-up to
  show. The encoder starts with values of none of the profiles (`EncodersFound`), so that a
  recording for which nobody sets it shows. Recordings follow one another without end.
- `Power`: minutes 0 to 7, two cards, two start times, recordings of three minutes,
  one failure. The times of the configuration are the smallest that keep their
  order: every wait can be overtaken by a recording, a user or the other program.
- `Restart`: three process numbers, one of them a digit shorter, for servers, other
  programs and the two forks of a daemon; three starts, by root or a user, none after
  the lock has failed (`StartsAfterGap`: `OneServer` promises nothing then); three
  recordings for a history of two, the last with a title that XML reads as markup (`Odd`);
  two recording threads, symmetric (`AnyThread`: nothing tells threads apart); one file
  that cannot be opened.
- `CHECK_DEADLOCK FALSE` where the system stops: the server exits, a command is
  answered, the threads end, the clock or the number of starts is bounded. `Cards`
  never stops and is checked for deadlock.

### Fairness

`RecLiveness`: the clock runs; `chkrec` goes on (WF: the mutex is
free again after each command, a command being one step); a recording thread goes
on, with SF for the two steps that need `recs_mutex`, since `chkrec` gives it up
between passes and sleeps at least a second. Cards deliver data and commands end:
`startrec` reads with a time-out. Nothing is assumed of clients.

`Transcoding`: each thread goes on (SF, as it takes the mutex a kill command may
hold again and again; clients do not kill processes all the time); a kill command
ends. Nothing is assumed of `ffmpeg`: the watchdog ends the wait for it. That a
thread in `wait_to_transcode` gets past it means the load falls or the waiting time is limited.

`FileLists`: each list's thread goes on (WF; it waits for nobody but the clock).
`transcode_file` starts a thread and returns.

`Server`: some client thread that can go on does (WF of all of them together:
there are finitely many steps for the clients there are), `main` goes on when told to
stop. A client that does not answer runs into a time-out, which the code has for
the password (2 minutes), the request (2 seconds) and the next command
(`max_idle_time`). A client that does not *read* has none: `SlotsFreed` excepts it.

The other specifications state no fairness and no liveness.

## What the runs found

The two violations are in `PROJECT.json` with the lines they are about. These too
have been found with the modules here; each is one change of a run away:

- *A cancellation is lost.* An abort during set-up is answered and then forgotten,
  `tvpvrsrv.c:879` (`RecOneCard` with `CancelStands`).
- *The wait at shutdown ends too soon.* It looks at flags that the threads reset or
  that `main` has toggled off, `tvpvrsrv.c:2098-2130` (`RecOneCard` with
  `MayShutdown = TRUE` and `ExitWhenStopped`).
- *A recording is stored nowhere.* A single recording for a full card gets a number,
  `recs.c:593` (`RecOneCard` with `MaxEntries = 1` and `NoneDropped`).
- *A card is lost.* After a failed `pthread_create` (`tvpvrsrv.c:1284`) nothing frees
  `ongoing_recs` (`RecLiveness` with `ThreadMayFail = TRUE`).
- *A series overlaps.* It is checked on the dates asked for (`recs.c:494`) and stored
  on the adjusted ones (`recs.c:517`): `NoOverlap` fails with adjusted dates, that is
  when `OccStart` and the other three are the operators of `Calendar`.
- *A series until an end date* asked for from today stops a day early or late,
  `tvcmd.c:627-649` (`UntilEndDate` in `Series`); its count may be 0, and `recs.c:524`
  asserts it is not (`Series` has `pc = "aborted"`).
- *A series until an end date, from a later day and with no end time* (variant 3 of `ar`)
  keeps the number counted from today: `tvcmd.c:625-626` says "if a startdate is given
  then this will be recalculated", but only the variant with an end time does so
  (`898-930`, not `1011-1110`). It goes on past its end day by as many occurrences as lie
  before its first (`SeriesDates` with `EndsOnTime` for every `cmd`); excepted in
  `UntilFromLaterDay`.
- *Off without an alarm.* `tvshutdown.c:376` logs that the automatic shutdown is
  disabled when the alarm cannot be set, and shuts down (`Power` with `OffWithAlarm`).
- *A page follows freed recordings.* `tvwebui.c:358` lists without the mutex that
  the commands hold (`Server` with `PageListsAlive`).
- *Two servers.* Started at the same time both find no lock file
  (`Restart` with `StartsOverlap = TRUE`: `OneServer`). Started one after the other they
  both get in if a lock has failed before (`StartsAfterGap = TRUE` and `OneServer` without
  `gaps = {}`), which it does in three ways. The file that `stat` has seen is deleted by a
  server of root that exits, and cannot be opened: `lockfile.c:114` has no `else`, and
  `createlockfile` returns 0 with no lock taken. `/var/run` may not be written and `getcwd`
  fails, for a name of 256 characters: `lockfile.c:157` has no `else` either. A number with
  fewer digits than the one in the file leaves a digit of it behind, the file being opened
  without `O_TRUNC` (`lockfile.c:89,152`), and names a process that is not there.
- *The history loses its order or an entry* when two recordings end at the same time
  (`Restart` with `EndsOverlap = TRUE`: `HistoryIsLatest`).
- *The whole history is lost* to one title with a `&` or a `<`: `tvhistory.c:289` writes it
  as it is, the next server's parser gives up, and `hist_init` (`332-345`) replaces the
  file by an empty one (`Restart` with `HistoryIsLatest` without `~misread`).
- *Three files of one name.* A thread that removes its directory removes whatever link is in
  it (`futils.c:70-115`): between the `stat` and the `symlink` of a second, the link of
  a third may go, and both work in one directory, which `transc.c:499-501` says cannot
  be. `DirExclusive` excepts the case (`Transcoding` with three threads of one file
  breaks it without the exception).
- *Two suffixes, one directory.* `transc.c:504-513` strips the suffix from the name of the
  directory, `533` keeps it in the name of the link: `tf` of `film.mpg` and of `film.avi` at
  the same time have a link each, and both `ffmpeg` work in the one directory, again
  against `499-501` (`Transcoding` with `DirExclusive` without `FileOf[f] # FileOf[g]`).
- *Woken too late.* The daemon switches off for a recording at least `min_poweroff_time`
  away and warns for `shutdown_warning_time` first, but compares neither with
  `wakeup_margin_time` (`tvpowerd.c:486-492`): with a large margin the machine is woken
  later than the margin before the recording. `OnInTime` needs `MarginFits`.
- *The profile of the highest bit rate* is not found among three or more: each is
  compared with the first only, `tvpvrsrv.c:858-871` (`Cards` with the list
  `<<"low", "high", "normal">>`: `RecordsAsAsked`). `BetterInOrder` says which lists
  startrec reads right, `RecordedAsChosen` what holds of the others.
- *A recording that ends when it starts* is taken by `_cmd_add` (`tvcmd.c:1169`) and
  refused as corrupt when the file is read (`tvxmldb.c:327`); the excluded occurrence of
  a series does not advance its dates (`recs.c:529`), so those after it move. Both are
  excepted in `ReadsBack`.
- *With an external switch no profile is set.* `vcard.c:290-301` sets the encoder in the
  branch without a switch only, whereas `etc/tvpvrd.conf.full.template.in:342-355` says that
  each profile adjusts the card unless this is switched off: the recording has the
  encoding somebody left on the card (`Cards` with `RecordsAsAsked` with `conf.allow`
  for `Adjusts`; excepted there as `AsFound`).
- *A misspelt size of the picture* is found when the recording starts, and lost is the
  recording: `transcprofile.c:163-169` takes any text, and `vcard.c:68-73` refuses what is
  in no table. `VGA` passes there (`vctrl.c:1336` ignores case) and is refused when all else is
  set (`vctrl.c:1298`, which does not). `FailsCleanly` counts it as a fault of the
  configuration (`SizeMisspelt`); `Cards` finds it without.
- *A control the card lacks* ends the settings at the start: the configuration's template
  (`etc/tvpvrd.conf.full.template.in:755-776`) says controls that are not supported are ignored,
  but at the first of the four of the image `setup_audio_image_controls`
  (`vcard.c:320-327`) returns, and the volume is never set (`Cards.SetControls`).
- *The descriptor of the encoder* stays open when the tuner has a device of its own
  and the external switch is given no station (`vcard.c:187-192`; excepted in
  `FailsCleanly`).

Met while reading, and in the modules where they are about control:

- `main` toggles the abort flags (`tvpvrsrv.c:2098-2107`): a recording a client has
  just aborted goes on at shutdown.
- The date in the titles of a series is that of its first recording (`recs.c:547`
  passes `entry`), whereas the manual says each is mangled with its date.
- A monthly series from the 29th to the 31st skips or shifts in a shorter month, and
  across midnight may end before it starts (`datetimeutil.c:354-355`).
- `get_nextsched_rec` (`recs.c:1773-1800`) does not always return the entry whose
  time it returns; only the time is used.
- A transcoding that gives up waiting stays on the waiting list (`transc.c:1588`).
- `mv_and_rename` looks for a name and renames later (`futils.c:141-186`): of two
  files of one name, one may replace the other. This breaks `DeletedIsTranscoded`
  too, on a longer trace than the one `TranscodingLost` prints.
- `readXMLFile` is called by nobody: `tvpvrsrv.c:1991` says "Read the initial recording
  DB", but `init_tvxmldb` only looks whether there is one (`tvxmldb.c:669-679`). A server
  that is started again has none of its recordings, the file goes on listing them, and the
  first change overwrites it. `DbCurrent` excepts the file until then.
- File lists are freed by the command that started them (`transc.c:1186`, `1293`) and
  again by their thread (`1108-1119`); `td` is in no table of commands.
- An ssh that fails counts as no users (`tvpowerd.c:908`, `tvshutdown.c:104`); a lost
  wake-up packet is not sent again.
- `clientsrv` writes the authentication error after it has closed the socket
  (`tvpvrsrv.c:1407`); a failed `pthread_create` leaves the socket and may leave the slot.
- Every page thread makes the login cookie in one static buffer (`httpreq.c:116`).
- `chkrec` runs before `hist_init` (`tvpvrsrv.c:2028`, `2060`).
- `stats_update` divides by the whole minutes of a recording (`stats.c:105`), of which one
  of less than a minute has none.
- `va 50` without a card reads a field that is not there (`tvcmd.c:1811`; `Cards.Die`).
- `list_recskeyval` has room for `2*max_entries` of `max_video*max_entries` entries
  (`recs.c:1586`).
- The commands that send mail hold `recs_mutex` while they talk to the mail server.

### What the properties except

Where the code is known to go wrong, a property that would otherwise fail says so in
its text: a client that does not read (`SlotsFreed`), a lost packet or a stopped
daemon (`WokenInTime`), servers and recordings at the same time (`StartsOverlap`,
`EndsOverlap`), a lock that has failed (`OneServer`, `HistoryIsLatest`: `gaps`), a
server killed before it has written and a history given up for a title
(`HistoryIsLatest`: `misread`), memory handed out again (`GoesThroughItsList`), a third
thread of one file and files that differ in their suffix (`DirExclusive`), the file of an
earlier server before the first change (`DbCurrent`), a series with no end time or from
today (`UntilFromLaterDay`), the encoding behind an external switch (`RecordsAsAsked`),
a misspelt size and a switch without a station (`FailsCleanly`). Named assumptions say what is taken of the
configuration: `DelayFits` and `WarningFits` (the alarm or the next recording must
come after the machine is down; the code does not compare these values), `OneSocketMore`,
`StationsKnown`, `ProfilesOrdered`, `FoundOrdered` (whoever used the card before kept its
peak rate above its rate), `ProfilesKnown`, `ChannelsKnown`, `ControlsConfigured`,
`SomeDescriptors` (three files can be open at once), `ListsNonEmpty`,
`PidsPositive`, `ManglingsKnown`. The others give the constants their
types: `SchedulerAssumption`, `EarlierDbsAssumption`, `DatesAssumption`, `MaxEntriesAssumption`,
`TranscodingAssumption`, `ServerAssumption`, `MaxNbrAssumption`, `HistoryAssumption`,
`MachineAssumption`, `AutoAssumption`, `DaemonAssumption`, `FileListsAssumption`,
`CalendarAssumption` (months of 28 to 31 days) and `CommandsAssumption` (the longest
recording, `MaxLength`, is shorter than a day). `Power` gives tvpvrd the answer that
tvpowerd expects (`FreeReply = "None."`), as with the real one it never shuts down.

## The proofs

All are checked by `tlapm` with no omitted step. They hold for every value of the
constants that satisfies the named assumptions, which TLC evaluates on every run. A
hypothesis beyond those is named in the theorem and marks a way the code is known to
go wrong (What the runs found).

**`RecSchedulerProofs`**, for every number of cards, every queue size, every set of
requests and all faults:

- `TypeCorrect`: `[]TypeOK`.
- `CardIsExclusive`: `[]CardExclusive`, inductive with `TypeOK`: a thread is created
  only by `StartRec`, whose guard finds the card free, and `CardExclusive` says that a
  free card has no thread; every step that frees a card ends its thread in the same
  step. What makes it true in the code is that the thread frees its card last.
- `NeverOverlap`: `SeriesAsAsked => []NoOverlap`. `NoOverlap` alone is not inductive:
  `isentryoverlapping` finds a common second only of recordings that do not end before
  they start. `OverlapInv` adds that, of the pending recordings and the one under way.
  The rest is in lemmas about `Refused`, `Expand` and `sortrecs`. Where the dates of a
  series are adjusted, `SeriesAsAsked` is false, and so is `NoOverlap`. `MCRecScheduler`'s
  calendar satisfies it (`DailyAsAsked`, an assumption TLC evaluates).
- `CollisionIsACommonSecond`: the chain of tests in `isentryoverlapping` refuses two
  recordings exactly if some second belongs to both.
- `FileIsCurrent`: `~XmlMayFail => []DbCurrent`. Inductive is `FileInv`, that the file
  lists the queues in *every* state, or no recording has been asked for and the file is
  the one found: the code changes and writes under one lock.
- `CancelledAsMeant`: `[]NoInheritedCancel`, from `CancelInv`, which says of every thread
  whose flag is still to be read that it was set for its own recording.
- `NothingLost`: `[]Accounted`. `Accounted` counts; `NumberInv` says instead that queues,
  cards and ends divide the numbers among them and none holds one twice. The lemmas
  say which numbers `Inserted`, `WithoutTop` and `Kept` leave, for any sorting.
- `RecordingsMoveForward`: `[][MovesForward]_vars`, about steps where the invariants are about
  states. A recording enters a queue with a new number, keeps its dates, gets the card of
  that queue, not before its time, and ends once and as what is said of it: recorded if the
  card had it to its end (`StopInv`), missed if its time was over by the real clock, not
  only by the one `chkrec` has read (`OrderInv`).
- `NoCardIsLost`: `~ThreadMayFail => []BusyHasThread`, a busy card has the thread that will free
  it. A failed `pthread_create` is therefore the only way to lose a card.
- `SchedulerImplementsSchedule`: `SeriesAsAsked => ImplementsSchedule`. The mapping reads
  the sorted queues as sets; one lemma per action says which step of `RecSchedule`
  it is, or that it is none. `OrderInv` (queues sorted, `chkrec` not ahead of the
  clock) and `OverlapInv` are what the steps need.

**`TranscodingProofs`**, for any threads, profiles, table sizes and fates of processes:
`TypeCorrect`, `SlotsAgree` and `WaitingIsListed` come from `BaseInv`, which joins
`TypeOK`, `KillerInRange` and `TableInv` (a process that was reaped has been seen in its
slot): none is inductive without the others. `DirectoriesExclusive` (`[]DirExclusive`)
follows from `DirInv`: who works in a directory has its link there unless a third has
removed it, and there is one link per file. `FailedIsKept`
(`[]FailedKeepsMp2`) follows the problem from the process's end to the test of the directory.

**`ServerProofs`**, for any clients, sockets, slots and requests: `MutexInv` (who is between
taking and giving back `recs_mutex`, and how the flag stands then) gives
`AnswersAreEncoded` and `ListedAreAlive`; `LoginInv` (where a browser's request is and what
it has shown) gives `BrowsersLogIn`; `SlotInv` (each thread's slot holds its descriptor, the
descriptors are apart, and `ncli_threads` is the number of slots taken) gives `SlotsAreHeld`.

**`RestartProofs`**: `ServersAreAlone`, `~StartsOverlap => []OneServer`, from
`gaps = {} => LockSafe`: where each server's file is, what it has read there, and that
a file names the server or one that is gone; each gap is a step that leaves this behind.
`HistoryIsTheLatest`, with `~EndsOverlap` as well, `=> []HistoryIsLatest`, from `HistIInv` until a
gap or a misread history: each server remembers what the file and its own recordings
give, and a thread in the middle of an entry is the only one. `AllCounted`: `[]NothingUncounted`.

**`PowerProofs`**: `WakesForTheNext`, `KnownAreNotCut` and, if `MarginFits`, `OnInTime`
(`[]WakesForNext`, `KnownNotCut`, `[]WokenInTime`). `MachineInv` says for each place of the
chkrec thread and of tvpowerd what its readings still mean: which recordings had
been asked for, how far the clock may have gone, whose order to stop is pending.

**`FileListsProofs`**, for any lists, addresses and size of the queue: `Typed`;
`SlotsNameRunning` (`[]QueueNamesRunning`) from `QueueInv`, a one-to-one function
from taken slots to the threads they name, and `num_filelists` their number; `InTheirOrder`
(`[]GoesThroughItsList`) from `PlaceInv`, how far a thread whose array is its own has
come; `NoneInPart` (`[]AllOrNothing`) from `SuppliedInv`, that junk or the memory of another
list yields files of *whole* lists only, hence `FilesApart`: no file is in a whole list
and in one with a missing file (it would rightly be transcoded for the whole one).

**`SeriesProofs`**, for every date, time and command:

- `AdjustedToFirst`, `StepsToNext`: the tables of `adjust_initital_repeat_date` and
  the loops of `increcdays` are two codings of one thing, and agree.
- `StoredWhatWasChecked`, `OneStepOfTheScheduler`: `[]StoredAsChecked`, `[]LoopsAreExpand`
  from `LoopInv`: both loops walk the occurrences, one from the dates given, the
  other from the adjusted ones. The second licenses `RecScheduler`'s one step.
- `NoneRunsIntoTheNext`: `[]NoSelfOverlap`. With `LengthInv` (a recording is at most
  `MaxLength`) it comes down to two dates of a month less than a day apart, each
  carried over into a next month that may be too short for one, both or none.
- `EndsOnItsDay`: `[]UntilFromLaterDay`. `UntilInv` remembers that the number was counted from
  midnight of the first day; the days of a series do not depend on the time of day. For the
  variant that is never counted again `FromNowInv` remembers that it was counted from
  today: a series that begins later and has as many occurrences ends no earlier.
- `TakesItsDays`: `[]EveryNamedDay`. The first date is the first day due and each step goes to
  the next day due, for each type; so the days of any number of occurrences
  are all the days due between the first and the last (`AllTheDue`), each once.

- `SeriesIsReadBack`: `[]ReadsBack`, of the specification that also writes the series to the file,
  records and deletes entries and reads it back. `DbInv` says that the entries left are
  occurrences of *one* series in their order, and that between the first of them and
  the last exactly those are missing whose numbers are excluded (`LeftOf`). Taking an entry
  out keeps this (`OneLess`). The date of each occurrence is one its type does not leave out
  (`AdjustedStays`), so reading adjusts nothing, and the loop of `insertrec` makes again the
  numbers that are not excluded, as many as were written (`MakesTheKept`).
- `SeriesStaysRight`: the five properties above hold of that specification too.

The last five take a calendar without a last month (`EndlessCalendar`); TLC's has one.
Neither prover can be given an operator, so what recursive functions (`Occurrences`, `Count`)
compute is proved by induction over *sets* of numbers: the least number
outside the set (`WFMin`) has a predecessor inside.

**`CardsProofs`**, for any profiles, lists of them, channels, controls, switches, failures of
the driver and commands in between:

- `FailuresAreFaults`: `[]FailsCleanly`, from `Open /\ SetUp /\ Untouched`. `Open` says which descriptors
  the thread holds at which call of `setup_video` and that the numbers open are those somebody
  holds, but for the one way the property names. `SetUp` says which registers are as
  the recording wants them after each call; with the peak rate never below the
  rate (`OnCard`), whatever was set before, no call asks for a value that the driver must refuse.
- `RecordedAsChosen`: `[]RecordsAsChosen`, what is captured has the channel or input and the
  encoding of the profile `startrec` chose, from `SetUp` again; and, from `Untouched`, that
  behind an external switch the encoder is as it was found.
- `RecordedAsAsked`: if `BetterInOrder`, `[]RecordsAsAsked`: that profile is one of the best
  of the list. The hypothesis is needed: see the profile of the highest bit rate, above.
  TLC evaluates it for the lists of the run (`ListsInOrder`).

Every safety property of a passing run, the refinement included, is stated by a theorem.
Only model-checked: `EverySettled`, `EveryThreadEnds`, `EveryListEnds` and `SlotsFreed`, as the
prover does not reason about fairness; and the two violations, which do not hold.

## Not modelled

- *Mail* (`mailutil.c`, `libsmtpmail/`): a dialogue with an SMTP server whose outcome
  nothing depends on; that it is held under the mutex is listed with the hazards.
- *Formatting and parsing*: the layout of listings and pages, INI and XML syntax, help,
  dates in words, the log. What a parser accepts is the input of the modules.
- *Floating-point statistics*, the load average: a choice, or left out.
- *The command line, settings of the log and of directories*, and the way tvpowerd
  becomes a daemon.
- *The shell*: a client, and `Server` lets clients do anything.
- *Numbers of transcoding processes* and what signals to a reused one would do.
- *Summer time*; a clock that is set.
- *A crash while the DB file is written*: no code reads it afterwards.

Components and their status are listed in `PROJECT.json`.

## The plan

The parts of the server whose steps depend on one another are modelled, and the safety
properties the runs check are proved. What is left:

1. The buffer of cookies that the page threads share (`httpreq.c:116`), and the dialogue
   of the SMTP client with its error paths: the two hazards of threads outside the modules.
2. The DB file cut and written in place, once something reads it at the start.
3. The killing of processes at shutdown with numbers that have been used again.
