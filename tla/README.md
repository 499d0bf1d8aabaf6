# Notify Me: a TLA+ model

This directory holds TLA+ modules for the parts of Notify Me that carry its
logic, TLC configurations that check them on small instances, and TLAPS proofs
for all values of the parameters. `PROJECT.json` maps every definition to the
source lines it stands for, and lists the hazards the properties are about.

## The system

Notify Me runs on an Android phone and, for one of its two modes, with a macOS
client. Paths of the app are relative to
`src/android/app/src/main/java/vishal/vaf/notifyme/`, those of the client to
`src/macOS-client/`.

**AssistBot mode.** The first message of a sender is answered with a greeting;
the sender is then listed, and every later message is sent to api.ai in an
`AsyncTask` whose answer is sent back. **Notify mode.** Messages are written to
Firebase; the desktop shows them and stores replies under `desktop`, which the
service sends with the reply action filed in `hashMap`.

The client turns on Firebase's persistence (`Notify Me/AppDelegate.swift:18`),
whose storage engine, LevelDB, is in the repository with its source
(`Pods/leveldb-library`). It is by far the largest body of code here, and what
the client shows after a restart rests on it.

| Part | State it keeps | Operations | Interacts through |
| --- | --- | --- | --- |
| `services/NotificationListener.java` | mode flags, `phoneNumber`, `reference`, lists of greeted senders, `hashMap`, the fields with the reply action, pending `AsyncTask`s | life cycle, `onReceive`, `onNotificationPosted` and `Removed`, `onDataChange`, `onPostExecute` | broadcasts (in), preferences, Firebase, PendingIntents (out), api.ai |
| `activitites/MainActivity.java` | four switches, `fromWhatsapp`, `fromFbMsg` | `onCreate`, `onActivityResult`, four `onCheckedChanged` | preferences (read), `ENABLE_*` broadcasts (out) |
| `activitites/LoginActivity.java` | `state`, `phoneNumber`, verification id, token, the button | click, verification callbacks, `onComplete`, `onStart`, save and restore | Firebase Auth, preferences (write) |
| `activitites/CustomizationActivity.java` | the text shown | `onCreate`, Save | preferences |
| `Notify Me/ViewController.swift` | `notifData`, the notification centre | observers of `app` and `remove`, `showNotification`, `didActivate` | Firebase |
| Firebase Realtime Database (external) | one value each under `app`, `desktop`, `remove`; the client's cache and queue of writes | `setValue`, value events, reconnection | phone and client |
| leveldb `db/db_impl.cc` | memtables, logs, the queue of writers, the background thread, manual compactions | `Write`, `Get`, `CompactRange`, `BackgroundCall`, `Open`, the destructor | mutex, condition variables, files |
| leveldb `db/version_set.cc`, `version_edit.cc` | levels of files, the descriptor | `LogAndApply`, `Recover`, picking a compaction | files |
| leveldb `db/log_*.cc`, `write_batch.cc`, `memtable.cc`, `skiplist.h` | the log, batches, the list in memory | append, read, insert, search | files, readers without a lock |
| leveldb `table/`, `db/builder.cc`, `db/db_iter.cc` | table files, iterators | build, open, `InternalGet`, `Seek`, `Next`, `Prev` | files, caches |
| leveldb `util/cache.cc`, `db/table_cache.cc` | cached blocks and open tables, reference counts | `Lookup`, `Insert`, `Release`, `Erase`, `Evict` | threads of the database |
| leveldb `util/env_posix.cc` | the LOCK file, the thread's queue, limits on files | `LockFile`, `Schedule`, `NewRandomAccessFile` | the system |
| leveldb `db/filename.cc`, `DestroyDB` | names of files, the directory | `ParseFileName`, `DestroyDB` | files, the LOCK file, other processes |
| leveldb `db/repair.cc` | what was found, what was salvaged | `RepairDB` | files |

`utils/NetworkManagement.java` is an empty class, the macOS
`NotificationModel.swift` is not used, and the other pods are binaries, headers
and a compression category.

What is hard about it:

- A tap on a switch runs a chain of nested listeners. Each sends a broadcast;
  the service applies them one at a time and is the only one that saves modes.
  Activity, preferences, flags and registrations agree only after the last one,
  and a service that is not bound loses broadcasts.
- Android binds, unbinds and kills the service, and stops, rotates and kills
  activities, whenever it likes. Old objects live on behind tasks and observers.
- Answers come back later, through fields that other notifications overwrite, or
  to a screen that has changed meanwhile.
- Client and phone share single Firebase slots without a protocol; the client
  starts from a cache of its last session.
- In LevelDB: writers hand over a queue, wait for a background thread and share
  its signals; readers take no lock; files are deleted while others are being
  made; a crash may come between any two steps, the next recovery included.

What makes each part correct is said by the properties below.

## Modules

| Module | Models |
| --- | --- |
| `Phone` | process, preferences in memory and on disk, the service's phase, the broadcast queue |
| `NotificationListener` | the service, extends `Phone` |
| `MainActivity` | screens and switches, extends `Phone` |
| `PhoneApp` | service and activity in one process |
| `LoginActivity` | the phone verification |
| `Desktop` | the macOS client and the Firebase slots |
| `LogFile` | `log_writer.cc`, `log_reader.cc` |
| `Coding`, `WriteBatch`, `VersionEdit` | varints; batches and the memtable they go to; edits of the descriptor |
| `WritePath`, `AtomicStore` | the threads of `db_impl.cc`; the store they implement |
| `LSM` | levels, compactions, snapshots, `Get` |
| `Recovery` | files of a database, `DB::Open`, obsolete files, crashes |
| `Directory` | file names, `DestroyDB` beside processes that open the database |
| `Repair` | `repair.cc` |
| `SkipList` | `skiplist.h`, load by load |
| `Comparator`, `Block`, `TableFile` | key order and short separators; a block; a table file |
| `Cursor`, `MergingIterator`, `TwoLevelIterator`, `DBIter` | what `Iterator` promises and three iterators |
| `HandleTable`, `HandleMap`, `TableCache` | the cache's hash table and the map it implements; a shard of the cache, and open tables in it |
| `PosixFiles`, `BackgroundThread` | parts of `env_posix.cc` |
| `*Proofs` | theorems, see below |
| `MC*` | instances for TLC |

An `MC` module puts several instances ("settings") of one or more modules into
one run: the variable `setting` is chosen in the initial state and never
changes, and each setting takes the steps of its own instance. A property that
only holds for some settings says so (`setting = "..." => P`).

### The app

*Threads.* All Java code modelled runs on the app's main thread, so a callback
is one step. The background half of the `AsyncTask` only waits for api.ai:
`tasks` is the serial executor's queue and `onPostExecute` the head's end. (On
Android 5 and 6 some callbacks come on a binder thread; the model follows the
versions that use the main thread.)

*Objects.* The fields of a service object are functions on `Instances`; `cur` is
the bound object. `onCreate` takes the next one; old ones keep their tasks and
observers. A death of the process clears all of them and takes back preferences
that did not reach the file. `prefs` is what `get*` returns, `disk` the file;
`Flush` is the later write of `apply()`.

*Broadcasts.* `intents` is the queue of `ENABLE_*` broadcasts accepted for the
registered receiver. Sent while `phase = "down"` they go nowhere; they are
dropped when the service is destroyed. `onReceive` has one disjunct per outcome:
null `editor` (before `onListenerConnected`), null `reference` (Notify off
before it was ever on), and the normal one. Firebase calls a listener once per
registration and forgets one registration per removal, so `observers` counts.

*Notifications.* A record with what the code looks at: the app, the title, what
`handleConversationalBot` tests the text for, and whether there are actions and
one with remote inputs. A conversation (app and title) stands for the reply
action taken from a notification. `IdOf` is the normalisation of titles to ids,
any function: what it identifies is up to the instance. Entries of `hashMap`
without a reply action are `None`: looking one up returns early, as a missing
one throws and is caught. The condition at `NotificationListener.java:377`
reads `!contains("new messages") || !contains("new message")` and is modelled as
written. `out` records what a step sent, `greeted` and `mirrored` are history.

*Switches.* `calls` is the stack of statements that the nested
`onCheckedChanged` calls still have to run. `SetChecked` is
`CompoundButton.setChecked`: nothing happens if nothing changes, and a switch
whose listener is running does not call it again (`broadcasting`). The chain
runs one statement per step; no other step is taken in between, as the main
thread is busy. (A kill in the middle is the same as one before: the broadcasts
die with the process.) `Recreate` is a rotation: `onCreate` reads the
preferences, and then the framework sets the switches, in layout order and with
listeners, to what the old activity showed.

*Disturbances.* `disturbed` in `PhoneApp` is a history variable: a broadcast was
lost, an activity was made while broadcasts were on their way, or the process
started from a preference file with half a mode change. The properties of the
run `modes` hold up to that point and fail after it, so they say precisely
which events the code does not cope with.

*Login.* The actions of `LoginActivity` are the click (by `state`), the four
verification callbacks, the two outcomes of a sign-in, stop and start, rotation
and kill with the bundle that is saved. `requests` and `signIns` are what
Firebase Auth has still to answer; callbacks belong to a request and are
detached when the activity stops. Numbers and codes are disjoint sets of texts.
`gaveUp` is history: the button was hidden and what would have shown it is lost.

*Client.* `Desktop` keeps the server's slots, the client's local view with its
queued writes (on disk, so that they outlive the app) and the events that wait
for the main thread. `msgListener` and `notificationRemoveListener` are the
observers; force-unwrapping a missing text is a crash. `lost`, `safe` and
`since` are history: what was erased unseen, what was written while the client
was in step, what was shown since the last reply.

### LevelDB

*Steps.* In `WritePath` an action is what a thread does between taking and
giving up `mutex_`, or one step without it; sleeping threads run only after a
signal of their condition variable. In `SkipList` every load and store of a link
is a step; readers may see any earlier `max_height_`. In `TableCache` and `DBIter`
the long methods take several steps (the first under its mutex, so nothing else
happens in between; the second with writes in between). In `Recovery` and
`Repair` every operation on a file is a step that a crash may follow. In
`Directory` every system call of `DestroyDB` is a step; of a process that opens
the database the steps are those that touch the directory and LOCK, and a lock
belongs to the file that was opened, whatever has its name by then.

*Data.* `WritePath` and `Recovery` know updates by their sequence numbers, `LSM`
entries by key, number and type; sizes count entries. `LogFile`, `WriteBatch`
and `VersionEdit` work on bytes, with smaller blocks and digits: `BlockSize`,
`HeaderSize`, `Base`, `Limit32` and `Limit64` are parameters. Checksums are
ideal. `TableFile` counts in units and takes a block as a sequence of keys;
`Block` is what is inside it.

*Which level or file* an automatic compaction takes (scores, `compact_pointer_`,
seek counts) is left open in `LSM`, which therefore has more behaviours than the
code.

*Refinements.* `WritePath` implements `AtomicStore` (`Linearizable`): with the
mapping at the end of `WritePath`, a write takes effect when its group has been
inserted and `last_sequence` advances, and a read when it takes its snapshot.
`MergingIterator`, `Block` and `TwoLevelIterator` implement `Cursor`;
`HandleTable` implements `HandleMap`.

## Runs

| Run | Settings and bounds | Properties |
| --- | --- | --- |
| `service` | `bot`: 2 titles in two apps, summaries, missing texts and reply actions, 1 task, 2 objects; `relay`: 6 notifications (both apps with one id, no reply action, no title, another app), 2 registrations, observers leak on unbinding | TypeOK, PrefsMirror, NotifyListens, RelayRoutes, AnswersGreeted |
| `modes` | `modes`: a tap with up to 2 broadcasts on their way, 2 objects, all faults; `bot`: one sender in both apps, 1 task | ModesConsistent, ServiceFollowsSwitches, ObserveOnce, GreetedFirst, NoToggleCrash |
| `screens` | login with all faults, with interruptions only, with late answers only (2 numbers, 2 to 3 requests under way); the main screen with rotation | LoginTypeOK, OffersHaveSession, NeverStuck, ResumesOrCrashes, PressAnswered, TapSettles |
| `desktop` | `killed`: one sender, 2 posts, one without text, a kill, a lost connection, a reply; `alive`: no kill, a removal | ShownRight, ClientSettles |
| `log` | a log in blocks of 7 bytes: 3 records read from 6 offsets; one damaged byte; a failed append, damage and reuse; batches of up to 4 operations in digits of base 2; edits of 3 fields | RecordsReadBack, EncodingsReadBack |
| `write` | 3 writers (one batch of 2, one synchronous), a reader; 2 failures with room in level 0, 1 failure without | AcknowledgedKept, Linearizable |
| `threads` | skip list with 3 keys, 2 levels, a reader; 3 writers with a manual compaction and the destructor, with a failure; 3 items and 2 callers of `Schedule`; a user iterator over 2 keys | ListIntact, SearchMissesNothing, ReadsEnd, CallersReturn, RunsInOrder |
| `lsm` | 2 keys with a snapshot and manual compactions; 3 keys with files of one entry; 4 writes, 3 levels | VersionWellFormed, ReadsLatest |
| `recovery` | 2 power losses with 3 writes; kills with `reuse_logs`; compactions and an iterator; a repair that is stopped and run again; a repair and a crash of the machine; 2 processes that open and destroy, 1 file, 2 LOCK files, 1 failed deletion, numbers 0 to 7 in base 3 | FilesIntact, UpdatesSurvive, RepairKeeps, DirectoryKept |
| `tables` | tables of 3 entries with one damaged part; tables with blocks of up to two filter windows; a block of 5 entries with any 3 of them bad; 3 children or 4 blocks with 5 keys; a user iterator over 3 keys; the hash table with 5 keys | TablesReadRight, ShowsSnapshot, IteratorsAreCursors, ChainsAreMap |
| `cache` | a shard of 2 with 3 cells; 2 readers of the table cache; the lock between 3 processes, 3 threads of one, and 2 threads beside a process; 4 users of a limit of 1 mapping and 2 descriptors | CacheConsistent, TableCacheSafe, FilesShared |
| `mixup` | 2 tasks, 1 object | violated: AnswerGoesToAsker |

Several properties are conjunctions of named parts, which say one thing about
one component each:

- ModesConsistent: types; the switches show at most one mode (OneModeShown).
- ShownRight: types; a client in step erases nothing unseen (KeepsUp); a
  notification says what came since the last reply (TextSinceReply).
  ClientSettles: the slot is emptied (ClientDrains), and clearing it comes to an
  end (ClientRests).
- RecordsReadBack: whole records are read from every offset; damage costs its
  blocks only; nothing is read that was not written. EncodingsReadBack: a batch
  reads back, a cut one is noticed, a snapshot sees the newest operation; the
  same for edits, and a reused one keeps its pointers only.
- AcknowledgedKept: types; what returned OK is in a table or in a log that
  recovery reads (Durable).
- ListIntact: types; levels sorted; readers on linked nodes. ReadsEnd,
  CallersReturn, RunsInOrder: searches and iterator calls end; `Write`,
  `CompactRange` and the destructor return; scheduled work runs in order, once.
- VersionWellFormed: types; disjoint levels.
- FilesIntact: types; `DB::Open` is never refused; an iterator's files stay.
  UpdatesSurvive: synced updates survive a power loss, all of them a kill, and
  sequence numbers are fresh. RepairKeeps: a repair destroys nothing, recovers
  all it can read, and leaves fresh numbers. DirectoryKept: file names parse
  back, and numbers that do not fit are refused; one user of the directory at a
  time, but for users whose LOCK file was removed; DestroyDB removes all that is the database's and nothing else.
- TablesReadRight: no entry is lost or replaced without an error; approximate
  offsets increase. IteratorsAreCursors: the three refinements of `Cursor`.
  ChainsAreMap: the refinement of `HandleMap`, and `elems_`.
- CacheConsistent: reference counts, both lists, table, usage and order agree.
  TableCacheSafe: the right table, not a stale one, while the file is there.
  FilesShared: one holder of the lock but for a
  process that dropped its own, free when idle; limits held and given
  back; no more open tables than the capacity and the readers account for.

Why the bounds are enough. *App:* every flag has its own switch and all four are
in the instances; two objects make one old and one new; two broadcasts waiting
when a tap is made let the queue hold the chains of two taps; two titles with
two ids and two apps give both a collision and a difference. The constraint
`Undisturbed` of `modes` stops at disturbed states, of which its properties say
nothing; a process that dies after a disturbance with a consistent file is in a
state that is also reached without one. `MaxObservers` stops toggles (not code)
once a listener is registered that often; `MaxTasks` stops messages that would
start one more query; `MaxInstances` stops bindings in one process. *Client:*
two posts let the second meet the clearing of the first. *LevelDB:* a block of 7
bytes with a header of 3 has every remainder a trailer can meet, and 9 bytes
span three blocks; three writers give a leader, a follower and the next leader;
three keys let an insertion fall before, between and after others, and a
compaction have a gap; two crashes let one fall into the recovery from the
other; three children give a merge one that is neither current nor next.

*Fairness.* App (`AppFairness`, `screens`): weak fairness of `RunListener` and
`Deliver`: the looper finishes the listener it runs and takes the next message;
Android delivers an accepted broadcast while the receiver is registered. For
PressAnswered, Firebase answers every request and sign-in, as its callbacks
promise. Nothing is assumed of the user, the notifications, api.ai, binding or
writing the file. Client: the network comes back, server, phone and the main
thread keep working. LevelDB: threads that can run do (weak fairness of each
thread's steps); mutexes are handed out fairly, which for the background queue,
where callers and thread contend for one mutex again and again, is strong
fairness of taking it; a thread asleep on a condition variable is woken only by
a signal. That calls are made, or that operations fail, is never assumed.

### Where the code does not do what one would expect

Checked by `mixup`: *answers to the wrong person*. The answer to one sender is
sent through the reply action of whoever wrote last.

Met while modelling, and kept out of the properties by what the instances and
preconditions leave out:

- *Both modes on.* Tap Messenger, leave, reopen before the broadcasts are
  delivered, tap Notify: the new activity believed AssistBot was off and sent no
  ENABLE_ASSIST "0". (ModesConsistent and ServiceFollowsSwitches stop there.)
- *Replies through the wrong app.* The desktop reply to "Bob" in WhatsApp goes to
  "Bob" in Messenger, because ids do not tell apps apart.
- *Login.* The click that verifies stores the code in `phoneNumber`, and a login
  by code saves it as the phone number; after a timeout the code in the field is
  used as the number to send to; one that comes back during the sign-in by code
  asks for a code to be sent to the code. An activity that is made anew in the
  middle of a verification (rotation, or the process killed while the user looks
  for the code) crashes: the bundle keeps the flag and not the number, which
  `onStart` then matches. ResumesOrCrashes says that this happens, every time,
  and in no other way. A failed sign-in leaves the button hidden; a resend after
  a refused number is lost when the app is left. These are the two reasons
  (`gaveUp`) that NeverStuck admits.
- *Client.* A notification that arrives while the slot is being cleared is
  erased unseen; one without text crashes the client at every start; a reply
  equal to the last one makes no event on the phone.
- *Levels.* Entries of one key may be split over two files of a level by a
  compaction with a snapshot; a later compaction that takes only the file with
  the newer ones hides them behind older ones. A flush may place a file into a
  gap between the inputs of a manual compaction whose output then covers it.
  `lsm` has large files where there are snapshots, and adjacent keys where there
  are manual compactions.
- *Manual compactions.* A request that is withdrawn while it is being compacted
  (shutdown, or an error of another thread) leaves `manual_compaction_` NULL,
  which the background thread dereferences at the end (`db_impl.cc:759`). The
  model has that crash.
- *Groups.* A NULL batch (`TEST_CompactMemTable`) that joins the group of another
  writer returns without the memtable having been switched.
- *Logs.* With `reuse_logs` records appended after a torn tail are lost with it;
  after a failed append the writer's offset and the file's differ, so records up
  to the next block may be dropped. Power losses and `reuse_logs` are therefore
  separate settings of `recovery`.
- *Creation.* CURRENT may name MANIFEST-1 before that file is synced
  (`CreationSafe` leaves out a power loss in between).
- *Repair.* Logs are read without checksums, although the comment above says
  otherwise (`repair.cc:189`); tables end up in level 0 ordered by number, which
  is not their age (logs are converted in no order, compactions gave old entries
  high numbers), so a repaired database may answer with an older value; copies
  and the descriptor are not synced; when the copy cannot be created, the damaged
  table is neither archived nor listed and the next `Open` deletes it; archiving
  a second file of one name replaces the first. RepairKeeps is about what
  entries are there and claims it without crashes of the machine and without
  that failure.
- *The lock.* A second `LockFile` in the process that holds the lock is refused,
  but closing its descriptor gives up the process's lock: another process can
  then take it. So does the last step of `UnlockFile`, which closes the file after
  it took the name out of the table, when another thread has locked it again in
  between. `dropped` records both, and OneHolder says that two callers hold the
  lock at once in no other way.
- *DestroyDB.* It unlocks LOCK and then removes it. A process whose `LockFile`
  opens the old file in between holds a lock that the next process, which makes a
  new LOCK, does not see: both use the database. OneUser (in DirectoryKept) excepts
  the processes whose LOCK was unlinked so (`stolen`), and nobody else. The list of files is made before the lock is taken, so what
  another process made in between stays, and DestroyDB still says OK; DirectoryKept
  claims an empty directory only if nobody came in between (`alone`).
- *Checksums.* Without `paranoid_checks`, the index and filter of a table are
  not verified even with `verify_checksums`; `tables` has both on.

## Proofs

The first part of `PhoneAppProofs` proves `Spec => []P` for `TypeOK`, `PrefsMirror`,
`NotifyListens` and `RelayRoutes`, for all phones, titles, ids, notifications
and bounds, from the assumptions named in `Phone` and `NotificationListener`
(the null-like constants are none of the real values, `IdOf` maps titles to ids,
the bounds are natural numbers). The inductive invariant `IInv` adds two facts.
`Bound`: a service that is not down has an object, so the fields that
`PrefsMirror` and `NotifyListens` read are there. `HashMapRoutes`: every stored
reply action is filed under the id of its sender; `RelayRoutes` alone says
nothing of the map the next reply is taken from. One lemma per group of handlers
shows that it is kept; `DiesIInv` covers all crashes and kills, and `ReplyType`
says once what `reply` may do to the lists and the map. Nothing has to be
assumed about the order or number of broadcasts: `NotifyListens` survives
repeated ENABLE_NOTIFY "1", which is why an extra registration can be left
behind (ObserveOnce needs the activity) but never one missing.

It also proves `AnswersGreeted`: while Notify mode is not used, the bot
only answers in greeted conversations. Its invariant `GInv` traces everything an
answer is made from back to a greeting: the lists that let a message through,
the fields with the reply action, and the tasks, whose senders are listed again
when the answer is sent (`ListedGreeted`, `FieldsGreeted`, `TasksGreeted`);
`NotifyUnused` rules out desktop replies, which list their senders when they
arrive after Notify mode was left. With Notify mode in use the property rests on
the registrations being right, and is proved as GreetedFirst below.

Its second part proves the five properties of the activity and the service
together, `ModesConsistent`, `ServiceFollowsSwitches`, `ObserveOnce`,
`GreetedFirst` and `NoToggleCrash` (a property of steps), for every number of
service objects, broadcasts and tasks and every set of faults. Of its invariant
`AppInv` TLC agreed on the states of `modes` before the proof. While nothing has
disturbed the app it says:

- *SwitchesOK*, where a tap is. The call stack of nested listeners is far from
  inductive to describe in order; the proof only uses which statements are still
  to come. `Starting`: between taps. `TurningOff`: a tap that ends in Notify mode
  or in none only switches off, and whatever has to go (the mode that is left,
  apps without the bot, the bot without apps) has a statement to come.
  `TurningOn`: a tap that ends in AssistBot mode; here `fromWhatsapp` and
  `fromFbMsg` are what keeps the other app on, from `ensureAssist` to the
  `resetFrom` at the end of the bot's listener. Each of the statements keeps one
  of the three in any order (`OffSet` to `OnReturn`), and with none to come the
  switches are consistent (`AtRest`).
- *QueueOK*: the broadcasts on their way about one mode alternate, starting with
  the opposite of the saved flag and ending with what the switch shows
  (`Leads`). A switch broadcasts exactly when it changes (`Announced`,
  `LeadsOn`), and each delivery changes its flag (`LeadsDelivered`). With
  PrefsMirror this is ServiceFollowsSwitches; it also is why an "off" always
  meets a registration and a non-null reference (NoToggleCrash).
- *Registered*: ObserveOnce. ENABLE_NOTIFY alternates, so "on" finds no
  registration and "off" finds one; `onDestroy` removes it where the base class
  calls `onListenerDisconnected`.
- *BotGreeted*: the lists, fields and tasks of GInv. Registered makes a desktop
  reply come only to an object in Notify mode, where `reply` lists nobody.

`DesktopProofs` proves `ShownRight` of the client, from `DesktopAssumption`
and `ValuesAssumption` (ids and notifications are not the null-like constants).
KeepsUp is not inductive, as `lost` only grows when the server applies a
clearing that the client wrote long before. `Unerased` says what protects a
notification that was written while the client was in step and is not shown yet:
no clearing is under way, on disk or at the server, and all that the client will
hear, or has waiting for its observer, of the slot is this notification. So the
next call of `msgListener` shows it before it writes the clearing. That no
older clearing comes after it needs `AcksCounted`, since the client takes a write
off its queue when an acknowledgement arrives, through any number of
reconnections: those under way are as many as the writes that the server
applied on this connection. `Known` (an observer is called, and the slot
cleared, only when something is cached) and `Numbered` (numbers tell
notifications apart) complete it. TextSinceReply is inductive by itself.

At the end of `LoginActivity`, `LoginTypeOK`, `OffersHaveSession`, `NeverStuck`
and `ResumesOrCrashes` are proved for every set of numbers, codes and faults and
any number of requests. That an activity which is told to send again has a
number, when it is the object that sent (`HasNumber`), is not inductive, since a
click on the first screen with an empty field empties `phoneNumber`: it needs
that the first screen has no button while a verification is in progress.
OffersHaveSession needs that a code that was sent was told to this object, for
the timeout that may follow. NeverStuck needs the reasons of an activity that
was left (`HiddenHasReason`): a sign-in that goes on, or the flag that makes
`onStart` send again. A first request goes with that flag as long as there is
one request at a time (`OneRequest`).

`SkipListProofs` proves `ListIntact` and `SearchMissesNothing` for every number
of keys, levels and readers, from `SkipAssumption` (N is a natural number,
MaxHeight a positive one). What makes LevelsSorted inductive is `WriterReady`:
the predecessors that Insert collected before it chose a height still are the
neighbours of the new key on every level that is left to link, because there is
one writer; and between the two stores of a level the new node already has its
successor's link. The frame lemmas say that readers change nothing the writer
relies on (`WriterKeeps`) and that the writer only adds nodes, so readers stay on
linked ones (`ReadersKeep`, with `ReadersSee` for iterators that rest on a
node). That a finished search misses nothing then follows from the lowest level
alone (`FoundHere`), which is why the stale `max_height_` that readers may use
does no harm.

`WritePathProofs` proves `AcknowledgedKept` and the refinement `Linearizable`,
from `WriteAssumption`, for every set of writers, readers and manual compactions,
all batch sizes and every buffer and fault bound. The inductive invariant has six
parts; each names something a step relies on and another thread could break
while the mutex is free:

- *TypeOK*; *LogsOK*: `imm_` is the memtable before the current one, its log is
  kept until it is in level 0, and a flush runs only while there is an `imm_`.
- *QueueOK*: a waiting writer is queued once, only the first one is past its
  wait, and the group it writes is the front of the queue. So no second thread
  writes the log while the leader has released the mutex.
- *NumbersOK*: a batch has numbers from the moment its group starts, as many as
  it has updates, above `last_sequence` until the group ends; groups follow one
  another and never overlap.
- *DataOK*: a batch that left the queue is held as a whole and logged if its
  status is OK, and otherwise not held at all; what is held above
  `last_sequence` belongs to the group that is being inserted. AcknowledgedKept
  follows from this part, with LogsOK for the logs that recovery reads.
- *ReadOK*: the memtables and tables a running `Get` took references to hold
  everything up to its snapshot, and the snapshot divides no batch. It is why a
  memtable switch or a flush in mid-read cannot hide an entry.

TLC agreed that the invariant holds, in states of `write` and of `threads`,
before the proof. Linearizable then maps the threads to `AtomicStore`: the store
is the set of batches that are held with numbers up to `last_sequence`, ordered
by them. Only the end of a group changes it (`FinishCommits`: the batches of the
group take effect, in queue order, at that moment; a failed group has none), a
`Get` takes its snapshot at its call (`GetReads`) and returns whole batches of
that moment (`LookupAnswers`), a call returns after it took effect with the
status that tells whether it did (`ReplyReturns`), and every other step is
invisible (`Hidden`). Finite sets of numbers carry the argument: `SizeTo` counts
updates with `Cardinality`, and its lemmas replace induction over the queue.

`TableCacheProofs` proves `CacheConsistent` of a shard (`ShardConsistent`), and
of the table cache with its readers `CacheConsistent`, `TableCacheSafe` and the
bound on open tables together (`TablesSafe`), from `CacheAssumption` (the list
heads are no entries, charges are natural numbers, the capacity is positive) and
`ReadersAssumption` (finitely many readers, at least one). Two subjects have
theories of their own, with the pointers and charges as arguments. *Lists*:
`Threaded` says that neighbours belong on one list and point back to each other,
and that `lru_`, followed from its head, is the order in which entries became
idle; removing an entry (`RemoveThreaded`) and appending one to either list
(`AppendIdle`, `AppendUsed`) keep it, and every method does one, the other or
both. *Charges*: `usage_` counts the units of a union of disjoint sets, so that
an entry that is added or removed changes it by its charge (`UnitsAdded`), with
no sum over entries. The invariant `CacheInv` of the shard is CacheConsistent
with these and `victim = Nil` when no method runs. `TCInv` adds who holds what:
the references of clients are the readers that use a table (`HeldByReaders`),
of a file of a live version (`ReadersOK`), which is why an eviction in
between, a second entry for the file, or a deletion takes nothing from under
them. The bound needs two more: until `Insert` evicts, `usage_` is within the
capacity or every open table has a reader (`AllocBounded`); and not every reader
can have a table that the cache has dropped, since the last one that got one has
it from the cache (`SomeoneCached`). TLC had agreed on one instance to a smaller
bound, the larger of capacity and readers; the proof did not go through, and a
capacity of 2 with 2 readers and 4 cells has 3 open tables: one cached and
unused, and two of one file, opened by readers that raced. `OpenTablesBounded`
now is capacity plus readers less one.

`RecoveryProofs` proves `FilesIntact` and `UpdatesSurvive`, from
`RecoveryAssumption` (the bounds are natural numbers, and one file can be made),
for every number of updates, files, flushes, compactions, failed edits and kills,
and, where `Covered` says so, of power losses: with `CreationSafe` and without
`reuse_logs`, the two exceptions described above. Without a power loss
(`MaxCrashes = 0`) both are allowed. A version is a set of tables and the oldest
log it still needs, and it is `Good` if these together hold the synced updates
(in what cannot be lost) and, until power fails, all updates, with fresh sequence
numbers. The invariant says:

- *DiskInv*, of the files alone, so that it survives every kill: each record at
  which a reader may find the descriptor to end (`Readable`: any from the last
  synced one on) describes a Good version, and has numbers above all that it and
  the records before it mention, so a file that a stopped process left behind is
  overwritten, never believed.
- *VersionInv* and *OpeningInv*, between `Recover` and the record of `DB::Open`:
  the version in memory is Good too, and is the one the descriptor ends with
  until the next record is written or CURRENT is moved.
- *MemoryInv*: a log that the version needs is still to be replayed, or is the
  memtable's, or its updates are in tables or in `imm_`. This is what makes the
  newer version Good that a flush or the end of a replay installs
  (`NewerVersion`).
- *RecordInv*, *FlushInv* and *CompactInv*, for the edit of the background thread:
  once its record is written and not yet synced, the descriptor may end before
  or after it, and both versions are Good with the files that are there; only
  when it is synced and installed are the older log and the inputs deleted
  (`ObsoleteDeleted`). A compaction's output holds what its inputs held. After a
  failed edit `bg_error_` is set and nothing is claimed but that nothing is
  deleted.
- *PinnedInv*: an iterator's tables are there, with numbers that are not given out
  again while the process runs.

TLC agreed with the invariant on the settings of `recovery` before the proof.
Making tables (`TableMade`), appending a record (`RecordAppended`), deleting
files and cutting them in a power loss (`CutLog`, `CutFiles`) are lemmas that several
steps share. `Open` replays logs in the order of their numbers; that a least one
exists (`LeastExists`) is the library's well-founded induction, applied to a
fixed relation.

`RecoveryProofs` ends with the theorems about the LOCK file and the limits of
`PosixFiles`, which are parts of FilesShared. `OneHolderHolds` is proved for any
threads of any processes. Its invariant `LockInv` says that a caller that was
let in is in its process's table of locked files from before it asks the system
until after it has unlocked, which keeps out other threads of the process; and
that it has the system's lock in between, which keeps out other processes,
unless its process is in `dropped`: a thread that was refused closed the file
while its process had the lock (see *The lock* above). `FreeWhenIdleHolds`
follows from the same invariant. `LimitsHoldAlways` and `NothingLeaksEver` rest on `FilesInv`: the places
a limiter has left, and the users that hold one, add up to its limit, however the
threads race between asking for a place and opening the file. FilesShared
itself is a conjunction over instances in `MCTableCache`, with other parameters
each, so no one theorem states it.

`LSMProofs` proves `VersionWellFormed` and `ReadsLatest`, from `LSMAssumption` (two
levels to compact between at least, limits that are natural numbers), for any
number of keys, levels, files, writes and snapshots. Both are false of the code as
it stands (see *Levels* above), so each theorem names what must not happen, and
a second one shows where it does not:

- `VersionsWellFormed` assumes `NoGaps`: every key in the range of a running
  compaction's inputs is in the range of one of them. `NoGapsAutomatic` proves that
  of every compaction that `PickCompaction` starts, so `AutomaticWellFormed` has no
  condition but `Manual = FALSE`.
- `ReadsAreLatest` assumes `KeysWhole`: no two files of a level below 0 share a key.
  `KeysStayWhole` proves it without manual compactions and snapshots, since a
  compaction then keeps one entry of each key, and `ReadsAreLatestAlone` follows.
  With a snapshot it fails: that is the split which hides newer entries.

Searching a level, growing a range in level 0 and merging inputs are recursive
functions. What they compute needs no induction theorem with a predicate as a
parameter: each argument takes the least point at which one fixed claim fails
(`Least`, from the library's well-founded order of the naturals) and refutes it
from the step before. The sequence of a finite set in a strict order (`Ranked`, of
which `Sorted` and `InOrder` are cases) has each element once and in increasing
order, because an element's index counts those before it. Two invariants rest on
these, each with `Typed` (entries are updates of the history, a running compaction's
inputs are still there):

- *Apart*: the files of a level below 0 are apart, and what the output level keeps
  lies before or after all of a running compaction's inputs (`InputsApart`). The
  second part is why its output may be installed after a memtable was flushed in
  its middle (`FlushApart`): the new file overlaps no input, so without a gap it is
  beside them all.
- *Fresh*: of two entries of one key the newer is looked at first: memtables,
  level 0 by file number, then level by level (`MemNewest`, `LaterNewer`,
  `DeeperOlder`); and what the history ends with for a key before a snapshot is
  stored, or is a deletion with nothing older left (`Current`). A running compaction
  must not break that when it ends: `LeftNewer` and `InputsClosed` say that what stays
  behind in its two levels is newer, or shares no key with what moves; `BaseKept` that
  files which came below it since it started share no key with it, so that
  IsBaseLevelForKey may go by the version of the start; `SnapshotsKept` that no
  snapshot taken meanwhile is older than `smallest_snapshot`.

Only model-checked: all liveness (fairness is out of the prover's reach), the
refinements of `Cursor` and `HandleMap`, `BackgroundThread`, repairs, the
directory, ReadsLatest where snapshots or manual compactions occur and
KeysWhole is not assumed, and the modules about bytes, blocks, tables and
iterators: there the properties are about what recursive definitions over the
data compute (logs, encodings, restart points), or are stated for several
instances at once.

## Not modelled

*App:* CustomizationActivity (two texts saved by one `apply()`, which the model
abstracts) and its place on top of MainActivity; the wording of messages; the
restore of the switches when Android recreates an activity whose process it had
killed; binder-thread callbacks of Android 5 and 6; failures inside the api.ai
library other than "no response". `NetworkManagement` and the macOS
`NotificationModel` do nothing. *Client:* titles, images and sounds; Firebase
and its use of LevelDB in between (binary), so nothing composes the two.
*LevelDB:* `GetProperty` and `GetApproximateSizes` of the database,
the C binding `c.cc`, the dump tools, the arena, hash functions and the
comparison of bytes in a Bloom filter (a filter is any superset here), CRC
(ideal), `ChangeOptions`, the alternate `.sst` suffix in a repair, the options
that refuse to open, the cache's destructor, its 16 independent shards and
capacity 0, the in-memory Env, logging and `DebugString`. *Other pods:* binaries
and headers.

## Plan

1. Done: the app, the login, the client, LevelDB's log, batches, edits, write
   path, levels, recovery, repair, tables, iterators, caches, skip list and Env;
   proofs about the service, the app, the login, the client, the skip list, the
   write path with its refinement, the levels, recovery, the caches, the lock and
   the limits.
2. Theorems about `BackgroundThread` and about `DestroyDB` in `Directory`.
3. A composition of service and client over the Firebase slots, and an abstract
   specification of the mode that the undisturbed `PhoneApp` implements.
