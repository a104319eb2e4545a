# A TLA+ model of wayweather

wayweather shows the weather in Waybar. It is one C program with three faces:
short-lived commands that edit `config.json`, a daemon that prints a line
whenever there is something new to show, and a terminal interface (TUI) that
edits the same file and previews the weather with a worker thread. There is no
server between them: the processes share a file, a lock and signals. That is
where the difficult behaviour is, and what these modules are about.

`src/` below is the repository; `main.c:50` means `src/src/main.c`, line 50.

## The system and its parts

| part | state | operations | talks to | what must hold |
|---|---|---|---|---|
| config record (`config.c`, `config.h`) | current location, active index, geolocation flag, saved list with one default | add, remove, move, set default, use, match, save with rounding, load with repairs, migrate, upgrade | commands, daemon, TUI | one default; active index in range and on the loaded location; limit kept |
| config file (`config.c`, `util.c`) | the file, its mtime, the lock file | lock, load (creates a missing file, upgrades an old one), save (temporary file, rename), unlock | every process | no half-written file is read; no edit is lost; nobody keeps the lock |
| commands (`main.c`) | none between runs | `add` … `reset`, each begin_edit / logic / end_edit | config file | each does what it says, on whatever file it meets |
| next / prev (`app.c`) | none | `app_cycle` | command and daemon | a rotation through all locations |
| daemon (`daemon.c`) | loaded config, force flag, failures, last line | render, wait, handle signals and inotify, reload | config file, Waybar, fetch | the bar shows the current config; requests and terminations are not lost |
| daemon registry (`daemon.c`) | PID files | add, remove, signal all | `refresh` | signals reach the daemons that run, and only those |
| TUI file sharing (`tui.c`) | record in memory, remembered mtime | load, save, reload if changed | config file | the TUI shows the file; it does not undo others' edits |
| TUI preview worker (`tui.c`) | slots, wanted slot, busy, stop | request, fetch, drop geolocation, stop | UI thread, fetch | previews belong to their location, arrive, and quitting ends |
| TUI editing (`tui.c`) | record, selection, filter, undo buffer | add, edit, delete, undo, use, default, move, save current, settings | config record | as for the commands; the selection stays valid |
| weather (`weather.c`) | one cache file per place and units | get weather, from the cache or the service | network, daemon, commands, TUI worker | what is not marked stale is young; failures fall back to the cache |
| geolocation (`app.c`, `geolocate.c`, `geocode.c`) | one cached fix, one cached place name per cell of 0.01° | resolve, geolocate, look up the name | gpsd, GeoClue, web services | the position comes from a source the setting allows, and the name from its own cell |
| place search, HTTP, rendering, units, UI widgets, help, log, C library | none that is shared | | | formatting and I/O |

Behaviours that are hard to test, with their lines, are the `hazards` of
`PROJECT.json`: interleavings around the file and its mtime, creation and
upgrade of the file without the lock, questions asked with the lock held, kills and full disks in the middle of a save, the order
of signals, inotify events and the timer in the daemon, slots that are given
away while the worker fetches for them, long sequences of commands over files
that a user or an older version wrote and of keys between a deletion and its
undo, caches shared by programs with different settings and read with a clock
that was set back, and PIDs that are given to another process.

## Modules

| module | models | code |
|---|---|---|
| `Locations` | the record and the pure operations on it | `config.c:37-68, 180-389, 514-596`, `app.c:77-109` |
| `ConfigCommands` | the commands, each one step; migration; hand edits | `main.c:361-1081`, one setting of `tui.c` |
| `AtomicConfig` | abstract: every edit happens at once | |
| `ConfigSharing` | processes that share the file, one step per visible system call | `config.c:393-483`, `util.c:332-393`, `main.c:32-70`, `tui.c:288-371` |
| `Daemon` | the main loop with signals, inotify, timer and the lock | `daemon.c:77-280` |
| `PreviewWorker` | UI thread and worker thread | `tui.c:28-228` |
| `TuiEditing`, `MCTuiEditing` | the TUI's record, filtered list, selection and undo; the files it meets in the run | `tui.c:308-371, 752-1061, 1164-1207, 1611-1829` |
| `WallClock` | time, and the clock the caches read | |
| `Weather` | `weather_get` under several programs | `weather.c:142-333`, `daemon.c:172-213`, `http.c` |
| `Geolocation`, `MCGeolocation` | `geolocate` under several programs; its symmetry for TLC | `geolocate.c:66-396`, `app.c:14-75`, `geocode.c:106-169` |
| `Registry` | PID files and `daemon_signal_all` | `daemon.c:26-73` |
| `ConfigProofs`, `SharingProofs`, `DaemonProofs`, `PreviewProofs`, `TuiProofs`, `WeatherProofs`, `GeolocationProofs`, `RegistryProofs` | theorems about the module each is named for | |

`TuiEditing` extends `Locations` as `ConfigCommands` does; `Weather` and
`Geolocation` extend `WallClock`. `Daemon` and `PreviewWorker` take the outcome of
a fetch as a choice (fresh, stale or failed); `Weather` and `Geolocation` say what
lies behind it. `Registry` ends where `Daemon` begins, with a signal
that arrives.

### Locations and ConfigCommands

`file` is the configuration on disk, as a record. `Saved` is `config_to_json`: it
rounds every coordinate to the precision of the file (`Grid`; 1e-5 degree in the
code). `Loaded` is `parse_v3`: it cuts the list at the limit, keeps the last
default and resets an active index outside the list. A command is one action that
loads, works on the record as the function in `main.c` does, and saves. A refused command saves nothing and is
no step. Three kinds of files are met: ones that commands produced from the
defaults (`author = "program"`), ones that started from a migrated, upgraded or
hand-edited file (`"mixed"`), and ones an editor has just written (`"user"`).
A `set` of a place finer than the file (`Rough`) makes a file `"mixed"` as well,
for the reason given as disagreement 8 below. `author` is a history variable;
the program keeps no such thing.

Abstractions: positions are 1-based and `None` is 0 (the code: 0-based, -1). A
coordinate pair is an integer on one axis with a tolerance, which keeps what
matters about `location_same_place`: it is symmetric and not transitive. Names
and address fields are left out, so `config_find` becomes any position, and
`remove` takes two references (the descending order matters from two on). One
hand edit of four kinds may come between two commands. `Migrated` (the TOML of the
Bash versions) and `Upgraded` (a `config.json` without a version) are among the
initial files; an upgrade leaves no active index. `geo provider` changes
a setting none of this reads, so its action saves the record just as it was loaded.

### ConfigSharing and AtomicConfig

`files` lists every file ever written, and a position in it is the file, an open
handle of it and its mtime at once: `write_file_atomic` never writes to a file
that has been renamed into place, so a handle that was opened keeps its
contents, as on a POSIX file system. Contents are the set of edits they
reflect. Each process has a `pc`; every step is one system call another process
can notice. `Crash` kills a process anywhere (the kernel drops its flock),
`WriteFails` is a full disk, `LockFails` a lock file that cannot be opened.
The daemon's `cycle_next` has the shape of a command and is an `Editor`; `get`,
`print`, `list`, the daemon's reloads and the C library are `Readers`.
`Starts` says what there may be at the beginning: no file, one of the format
without a version (`"legacy"`), or one of today. The first two are saved by whoever
loads them (`OpenNothing`, `Upgrade`), with the lock or without. The commands in
`Asking` wait for an answer between load and save, with the lock held (`confirm` in
`remove` and `reset --all`). A TUI with a dialog open does not look at the file.
Not modelled: two saves within one tick of the file system's clock, a symlinked
config, deletion of the file while programs run. A failed save of a TUI is
followed by the same reading of the mtime as a successful one, as in the code.

`AtomicConfig` has one variable, the contents, and two actions: a command adds
its edit to the contents, and a TUI replaces the contents by its copy.
`ConfigSharing` implements it, with `contents` the contents of the file at the
path, when a file of this version exists and the lock can be taken.

### Daemon

`pc` follows the main loop: load, watch, render, wait, then the signals and the
inotify events a poll has reported. A config is the number of the save that
wrote it, a rendered line is that number and the outcome of the fetch (fresh,
failed). `owed` is a history variable: the version on disk, if the daemon
has been told of it or wrote it. Signals of one kind and inotify events coalesce.
The deadline cannot have passed before the first poll of a wait if something is
ready, since it lies at least 30 s ahead; later it can, because debouncing and
`cycle_next` take time, and then signals that are still pending are handled
after the next rendering. `cycle_next` waits in `config_lock` (`pc = "lock"`) while
another program holds the lock (`locked`), or goes on when the lock file cannot be
opened. The environment saves by rename, writes in place (invalid until closed),
touches other files of the directory, takes and gives up the lock, sends signals
and may close the pipe.

### PreviewWorker

Each action is one critical section of `pv.mu`; the fetch happens outside of it,
between taking the wanted slot (`Loop`) and storing the result (`Fetched`). A key
stands for a location with its units; `GeoKey` for geolocation, whose answer
depends on the provider in `pvGeo` at the time the job was taken. `when` orders
the ends of fetches, and `Expire` lets ten minutes pass. `want_force`, `cache_ttl`
and `updated` steer only the fetch and the drawing. At `_exit` the worker is
simply gone.

### TuiEditing

`cfg` is the record in memory, `list` what the screen shows of it: the filter, the
positions that pass it (`view`) and the selected row. A dialog runs to its end
before another key is read, so each action is one step. A place stands for
names as well as coordinates, so a filter text is the set of places it matches.
`origin` is a history variable: where each entry stood before the last deletion.
`config_add`, `config_remove`, `config_move` and `config_use` are those of
`Locations`. The three tabs are left out, since each action is a Tab key away.
The record it opens, and each reload, is one of `Files`, whatever they are: for the
theorems any set of configurations, in the run the five of `MCTuiEditing`, made by
commands, by a migration (an active index under geolocation) and by hand (an index
on another location, a list too long with two defaults). `ConfigSharing` says when
a reload comes.
Saving is not modelled here except where its failure changes the screen:
`add_location` then leaves the new entry off the list.

### Weather and Geolocation

`clock` is true time, `Wall` what `time(NULL)` returns; `SetBack` may set it back
once. An answer of the weather service is named by the request it answers (who,
when), a position is a cell of 0.01° and a point in it, and a place name is the
position the services were asked about. Reading a cache file, the request, and writing are separate steps,
with other programs in between. A request ends within `Timeout`.

`Weather`: bars render when their interval has elapsed, or when a signal or a
change wakes them, with the ttl of `daemon.c:178`; commands use `cache_ttl`. A
reply is nothing, an error, an answer that came with an HTTP error (returned but
not cached), or an answer. There is one cache file, since files of other places
and units never meet.

`Geolocation`: the build has GeoClue or not; the sources of the build that the
setting allows are asked in turn; only the web services report a place. When
none answers, `app_resolve` falls back to the configured location. The cache of
place names (`places`) has one file per cell, since its path has the coordinates with
two decimals (`geocode.c:106-108`). It never expires, so a position may get the name
found for another point of its cell. A forced fetch skips the cache of fixes but not that of names.

### Registry

`proc` says what runs under each number: a registered daemon, one that has not
registered yet or could not, one about to end, another program of the user, one
of another user, a zombie whose parent has not waited for it (`kill` still succeeds,
so a scan counts it and leaves its file), or nothing. A scan is the loop of `daemon_signal_all`: `readdir`
returns what was in the directory when it was opened and perhaps what has been
added, `kill` and `unlink` are separate steps. Entries that are not `daemon.PID`
are skipped by the code and left out. `steady`, `stale`, `listed` and `orphan` are history.

## What the runs check

All runs use two workers; the longest (`Daemon`, `TuiEditing`) take two to three
minutes.

| run | properties | instance, and why it is enough |
|---|---|---|
| `ConfigCommands` | `TypeOK`, `SavedIsWellFormed`, `ActiveIsLoaded`, `CycleIsARotation`, `RemovalKeepsTheRest` | 3 locations, 3 places in a row of which the outer two are not close, and a fourth between two that a file can hold, which leaves the tolerance of the first when it is rounded: duplicates, near places, the full list and rounding all occur; one unit choice, since no property here reads units |
| `ConfigSharing` | `TypeOK`, `EditsAreAtomic`, `CommandsEnd`, `TuiNoticesChanges` | a file of this version, 2 editors of which one asks, 1 reader, 1 TUI saving once; every pair of kinds of processes meets |
| `ConfigFirstRun` | `NoPartialLoad` | no file or an old one, failing lock, a user who breaks the file, 1 editor, 1 reader and 1 TUI |
| `ConfigTuiSave` | `CommandEditsSurvive` — **violated** | 1 editor, 1 TUI |
| `Daemon` | `TypeOK`, `BarIsCurrent`, `ChangesAreShown`, `RefreshIsForced`, `TermEnds` | 3 versions, 2 failures; with `Interval` 50 and `RetryMin` 30 the delays are 30 and the interval, so the second failure meets the limit; signals, events of other files and changes of the lock are not bounded |
| `PreviewWorker` | `TypeOK`, `NoRequestIsLost`, `DataIsForKey`, `PreviewSettles`, `QuitEnds` | 3 keys for 2 slots, so slots are given away; 2 moves, 1 refresh, 1 expiry, 2 providers |
| `PreviewGeo` | `GeoIsForgotten` — **violated** | the same |
| `TuiEditing` | `TypeOK`, `RecordIsWellFormed`, `ViewIsValid`, `SelectionFollows`, `DeleteIsUndone`, `UndoRestoresOrder`, `EditsStayConsistent` | 3 locations, so that an entry has neighbours on both sides; 2 places, of which the filter matches one; the five files of `MCTuiEditing`; one unit choice, as no property here reads units |
| `Weather` | `TypeOK`, `FreshIsYoung`, `NoWorseThanCache`, `TickRefetches` | a bar and a command; interval 2 less margin 1 is below `cache_ttl` 3, so the two ttls differ; the timeout 2 is above the margin, as in the code; in 3 units of time an answer can be older than either ttl allows the bar |
| `Geolocation` | `TypeOK`, `PositionIsAllowed`, `FixIsYoung` | 2 programs; the settings `auto`, which uses every source, and `geoclue`, which names one a build may lack; one spot; 2 units of time |
| `GeoNames` | `NameIsOfPosition` | the same programs and settings; 2 cells of 2 points; names do not age, so time stands still |
| `Registry` | `TypeOK`, `ScanIsComplete`, `OnlyTheDeadAreUnlinked`, `OnlyReusedPidsAreHit` | 2 numbers, so that one is reused while the other stays; 2 scanners with 2 scans each |

The runs of `ConfigSharing`, `Daemon` and `PreviewWorker` switch the deadlock
check off: commands end, the daemon ends, the TUI exits. The others always have
something to do (a command, a key, a fetch, a process that starts), so it is left on.

Bounds: `LegacyEntries`, `TuiSaves`, `MaxSaves`, `MaxMoves`, `MaxRefreshes`,
`MaxExpiries`, `MaxProviders` and `MaxScans` limit what users and other programs
do, `MaxTime` and `Jump` the time that passes and how far the clock
is set back. `FailureBound` stops the failure counter where `WaitAfter` no longer
changes. Nothing the program does by itself is bounded.

### Properties worth a word

* `ActiveIsLoaded` claims more than `config.h:57` writes down, and only for
  configurations that commands alone have made. It speaks of the file, so of
  places that have been rounded; a `set` of a place finer than the file is left
  out (disagreement 8), an `add` or `edit` of one is not.
* `CycleIsARotation` holds although `config_match_current` compares places with a
  tolerance that is not transitive: it prefers the active entry, and the mutant
  that does not gets stuck between near duplicates.
* `EditsAreAtomic` is refinement: every step of the processes is a step of
  `AtomicConfig` or changes nothing there, kills and full disks included.
* `CommandsEnd` has a hypothesis, that every question is answered in the end:
  `remove` and `reset --all` ask theirs with the lock held (`main.c:605, 1062`).
* `ChangesAreShown` is `README.md:87` as far as it is true: changes the daemon
  has had notice of. It, `RefreshIsForced` and `TermEnds` hold under `LeftInPeace`
  (see Fairness).
* `TuiNoticesChanges` is what `reload_if_changed` achieves, not the sentence of
  `README.md:172`, for a user who does not stay in a dialog for ever.
* `UndoRestoresOrder` looks at the list as it was before the deletion and
  as it is after the undo, with any additions and edits between. Its mutant is a
  move that keeps the undo buffer.
* `EditsStayConsistent`: no key makes a record that agrees with `config.h:57`
  disagree with it, except one undo (disagreement 7). A record that disagrees
  already when it is read (disagreement 6, or a user's edit) may stay so for many
  keys, and an edit of its active entry may even move the index further from
  current; that is why the property says nothing of such records.
* `FreshIsYoung` and `FixIsYoung` give the bound that holds: a stamp is set after the
  request, so an answer may be one timeout older than the ttl, and older by
  what the clock was set back.
* `TickRefetches` holds only for answers the bar showed as fresh. One it
  showed as stale may come back unmarked: the retry after a forced request that
  failed does not force any more and finds the cached answer young enough.
* `NoWorseThanCache` speaks of the answer read at the beginning of the call.
* `NameIsOfPosition`: the name shown was found for some point of the position's own
  cell of 0.01°, or is empty. That it was found for the position itself is not true.
* `OnlyReusedPidsAreHit`: a stranger is signalled only if a file of its number was
  there when the directory was opened or was added since, and the daemon that wrote
  it has ended. It is what the registry can promise; a PID file has nothing but its
  number to tell a daemon by.

### Disagreements found

Two runs show a sentence of the repository violated; `findings` in `PROJECT.json`
has the details.

1. The TUI saves its copy without loading under the lock (`tui.c:297`), so it takes
   back what a command has saved since; `config.h:82` says "Exclusive advisory lock
   for read-modify-write cycles". Run `ConfigTuiSave`.
2. `preview_drop_geo` (`tui.c:221`), which is to "Forget cached geolocation previews",
   spares the slot that is wanted, and the provider the worker reads is set only by
   the next drawing (`tui.c:159`). In between lies the save of the new provider, which
   may wait for the lock (`tui.c:1179-1180, 1463`). If the worker takes the wanted slot
   there, it fetches from the old provider; the slot is pending, so the drawing asks
   for nothing, and the answer is kept for ten minutes. Run `PreviewGeo`.

The same modules show more, each with a short behaviour that TLC finds when the
sentence is stated as a property. They have no run of their own:

3. The TUI reads the mtime after the first load and after each save
   (`tui.c:1952`, `tui.c:299`). A save in between is taken for the version loaded and never
   shown, against "If the config changes outside the TUI, it reloads
   automatically" (`README.md:172`). In `ConfigSharing`, `<>[](copy[t] = Contents)` for a TUI
   that stays open fails.
4. `config_load` creates a missing file without the lock (`config.c:407`): a reader
   that found no file saves the defaults over what a command saved under the
   lock. It saves an upgraded file without the lock too (`config.c:442`), over what a
   command has upgraded and edited since. `CommandEditsSurvive` and `EditsAreAtomic` fail with one
   editor, one reader and `Starts` either `{"none"}` or `{"legacy"}`.
5. The daemon loads the configuration and then adds the watch (`daemon.c:148`): a
   change in between is not shown until the next one, against `README.md:87` "The
   daemon redraws immediately whenever the config changes". In `Daemon`, "the bar
   shows the file for good once it no longer changes" fails.
6. `migrate_legacy` sets the active index although geolocation is on
   (`config.c:381`); `edit` of that entry then does not load it into current
   (`main.c:702`), and the index is no longer that of the "saved location loaded into
   current" (`config.h:57`). The TUI opens such a record as well, and there an edit of
   the entry does the same (`tui.c:934`). `ActiveIsCurrent(file)` fails in
   `ConfigCommands` once migrated files are admitted.
7. Delete the shown location, show another one, undo: `action_undo` sets
   the active index to the restored entry whatever current holds by then
   (`tui.c:994`). `EditsStayConsistent` fails in `TuiEditing` without its exception.
8. `set` looks up the active index before its coordinates are rounded by saving
   (`main.c:873`, `config.c:180-189`). After `add` of a place at 0 and `set --lat
   0.009996` the index is that of the entry, since the two are less than 0.01 apart;
   the file says 0.01, and once it is loaded they are not "the same" place any more
   (`config.c:583`). `ActiveIsLoaded` fails without its exception for `Rough` places.

And some behaviours no sentence speaks of: falling back to the cache after a
failure may show an older answer than one that came with an HTTP error and was
shown before; a forced fetch with all sources down shows the configured location
although a young fix is cached; a failed lookup of a name is cached with the fix
and not repeated until the fix expires; a daemon that could not write its PID file is
never signalled; an unanswered question of `remove` stops every other writer; events in
the config directory, of any file, that never pause for the time of the debounce
(`daemon.c:249`) keep a daemon from its signals, `SIGTERM` among them, and so does a
lock that `cycle_next` waits for (`daemon.c:123`).

## Fairness

* `ConfigSharing`: every process that can take a step of its own takes one
  (`WF` of `Step`, and of a TUI's `Stat`): the operating system schedules it, and `flock` wakes
  a waiter when the lock is free. A waiter might be overtaken by another one; since every
  process locks a bounded number of times, weak fairness is enough. A TUI looks at the file
  in every pass of its loop that is a second after the last look; dialogs interrupt
  this again and again but do not prevent it, hence `SF` of `ReloadIfChanged`. Nobody is
  made to answer a question, to press a key, to be killed or to run out of disk.
* `Daemon`: the loop runs whenever it can (`WF` of `Step`). Fetches end since the
  HTTP client has a timeout, a wait ends since it has a deadline. Signals, saves
  and a closed pipe are not owed by anybody. The liveness properties assume
  `LeftInPeace`: that the daemon is time and again outside its signal handling, its
  wait for the lock and its debounce. Nothing in the code bounds how long others can
  keep it in each of them, and `TermEnds` fails when any of the three is struck from the hypothesis.
* `TuiEditing`, `Weather`, `Geolocation` and `Registry` have safety properties only and
  state no fairness.
* `PreviewWorker`: the worker runs and its fetches end; the UI draws (its input
  has a timeout of 250 ms, `tui.c:1972`; a dialog that stays open would keep it
  from drawing), and joins when the worker has left.

## What is proved

Every safety property of the passing runs is a theorem of its module's `Spec`, for
every value of the constants: any number of processes, slots, keys, saved
locations and scans, any times and tolerance. `theorems` in `PROJECT.json` lists
them. Each proof module has one inductive invariant, one lemma per action (or
group of actions that touch the same state) that it is kept, and theorems that
follow from it. The only assumptions are the named ones beside the constants,
with one exception that is said below.

| module | theorems | the inductive invariant, and why it is needed |
|---|---|---|
| `ConfigProofs` | `TypeCorrect`, `SavedFilesAreWellFormed`, `ActiveIndexIsLoaded`, `RemovalsKeepTheRest`, `TwinsAreKept`, `CyclesRotate` | `Inv`: types, well-formedness, and of a file made by commands that it tracks its active index and holds no place finer than `Grid` |
| `TuiProofs` | `TypeCorrect`, `RecordsAreWellFormed`, `ViewsAreValid`, `SelectionsFollow`, `DeletionsAreUndone`, `UndoneInOrder`, `EditsAreConsistent` | `Inv`: a well-formed record, a valid screen, an undo buffer whose `origin` is old entries in order, then new ones |
| `SharingProofs` | `TypeCorrect`, `LoadsAreWhole`, `SharingImplementsAtomicConfig` | `WholeInv` and `SharedInv`: what each process holds at each `pc` |
| `DaemonProofs` | `TypeCorrect`, `WaitingBarIsCurrent` | types, and that the last line compared with is the one printed (`EmitInv`) |
| `PreviewProofs` | `TypeCorrect`, `RequestsAreKept`, `DataIsOfTheKey` | the three properties together, and that a fetch under way has a slot |
| `WeatherProofs` | `TypeCorrect`, `UnmarkedAnswersAreYoung`, `CallsImproveOnTheCache`, `TicksRefetch` | times of requests, arrivals and stamps in order, for the cache and for each call under way |
| `GeolocationProofs` | `TypeCorrect`, `PositionsAreAllowed`, `NamesFollowPositions`, `FixesAreYoung` | the same for fixes, with the source and the name each came with |
| `RegistryProofs` | `TypeCorrect`, `ScansAreComplete`, `LivingFilesStay`, `StraySignalsAreOfReusedPids` | per scan and number, what the scan has done already or still has in front of it |

**Configuration.** `SavedIsWellFormed` says nothing of a file a user has written, and
`ActiveIsLoaded` nothing of a mixed one. What carries the steps is `LoadedIsGood`:
`Loaded` turns *any* record of the type into a well-formed one (`Good`);
`LoadedTracks`: of a file that tracks its active index, loading keeps that; and
`SavedMaintains`: so does saving. Tracking means that the two places are close before
and after rounding (`Close`); when the index is looked up (`LookupMaintains`), current
is on the grid or the file becomes `"mixed"`, and the entries are on the grid (`Gridded`),
since they were read from the file. Each
operation of `Locations` has a lemma that it maintains `Good` and `Tracks`, with the
range of the index it is given. `RemovalsKeepTheRest` needs that the ascending
sequence of a set of positions exists and is unique; the later of two positions
goes first, so the other still means the same entry. `CyclesRotate` rests on
`CycleShowsNextSlot`: `Cycle` moves to the neighbouring slot although places match
with a tolerance that is not transitive, since the active index is preferred.

**Editing.** `TuiProofs` takes the lemmas of `ConfigProofs` through the instance `Cmd`, in
which the record in memory is the file and nothing is rounded (`Grid` is 1). The
record is well formed, whatever file it was read from (`Files` is any set of
configurations). `EditsAreConsistent` goes from one record to the next, each action by
the lemma of its operation, so it needs no more than that. `UndoneInOrder` needs `OriginIsOld`: since the deletion
entries were only appended, so the first n - 1 entries are the old ones, in their order.

**Sharing.** `LoadsAreWhole` needs no assumption on the environment: kills, full disks,
a missing or an old file, a lock that fails and a user who breaks the file are all allowed.
Its invariant (`WholeInv`) says that what is at the path is not partial, nor is any
file a process has open for reading, and that a temporary file is complete
before it is renamed.
`SharingImplementsAtomicConfig` assumes `Cooperative` (a file of this version exists at
the start, the lock can be taken, no user breaks the file), as the refinement does not
hold otherwise (disagreement 4 above is a counterexample). `SharedInv` says
that whoever is between its lock and its unlock holds the lock, that what a command
has loaded is what the file still holds when it saves (a TUI saves under the lock
as well), and that an edit is known to nobody else before it is saved. The proof
takes each step to a step of `AtomicConfig` or to a stutter.

**Daemon and previews.** `WaitIsBounded` and `ShiftIsPositive` bound the retry delay for any
interval and bounds of the shape the code has. `SlotForIsASlot` and `LeastSlot` say
that a request always finds a slot, of which the least recently used is taken.

**Caches.** The ages in `FreshIsYoung` and `FixIsYoung` come from a chain of
inequalities between true time and the clock, which was set back by `Jump` at
most. `TicksRefetch` holds for any margin and timeout because an answer is
told from another by when it came, and a bar sleeps for an interval after that.

`NamesFollowPositions` says that each cached name was found for a point of the
cell it is filed under, and that a call keeps the cell it asks about.

**Registry.** `readdir` returns all that was there when the directory was opened, so a
daemon that has been there throughout is in front of the scan or has been signalled,
and a stale file is in front of it or is the one being unlinked. What a scan has in
front of it was in the directory at the opening or was added later, so a number it
signals belongs to a file that is there, or to one whose daemon has ended since.

Attempting the proofs corrected the models in a few places, without changing what
they say of the code: the types of `Registry` now say that files are named by
numbers; answers in `Weather` carry the time they arrived, since two of the same
moment could be confused when the timeout exceeds the margin; positions in order
are `Ascending`, defined by its meaning and not by a sort; the order after an undo
is stated by quantifiers; some sets of names are assumed disjoint, as they are
(`ProcsAreDistinct`, `NothingAssumption`, `NamesAssumption`).

Model-checked only:

* The liveness properties (`CommandsEnd`, `TuiNoticesChanges`, `ChangesAreShown`, `RefreshIsForced`,
  `TermEnds`, `PreviewSettles`, `QuitEnds`): proofs under fairness need `ENABLED`, which
  the installed prover does not reason about.
* The two violations, which are counterexamples.

The induction theorems of the library take an operator as a parameter, which the
provers cannot instantiate; where `CyclesRotate`, the least slot or the ascending
order need induction over numbers, the proof takes the least counterexample instead.

## Not modelled

Drawing, dialogs and the line editor, rendering and units, help and logging have
no shared state. The C library loads the configuration as a reader does; its handles and
copies are not modelled. In `ConfigSharing` a TUI reloads only what an mtime has told
it of; the key R, which reloads at once (`tui.c:1690`), is in `TuiEditing`. Of geocoding, the search for places has no state; of the
conversations with gpsd, GeoClue and the web services only the outcome is
modelled. The settings the list logic does not read are stored and displayed
only. What a weather payload says does not matter to any property here.

## Plan

Done: all modules of the table, and theorems for all their safety properties. Next:

1. `LineEditor` and the scrolling lists of `ui.c`, checked against a reference
   definition, and lemmas about them.
2. Refinement where a property is now a bound: an abstract cache that `Weather` and
   `Geolocation` both implement.
3. More of the TUI's settings and of the C library's handles.
