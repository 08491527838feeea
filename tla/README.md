# A TLA+ verification of the Conan Exiles TeamSpeak plugin

The plugin gives TeamSpeak 3 proximity voice for Conan Exiles: a game mod writes the position of
the local player to a file or posts it over HTTP, the plugin sends it to the other players through
TeamSpeak plugin commands, computes a gain and a direction for every speaker, and shapes the
playback of each voice. It is C code that runs inside the TeamSpeak client and shares its state
between threads it does not own. Paths below are relative to `src/src/` of the repository.

Nothing here models floating-point audio or geometry. What is modelled is what makes the program
hard to get right: which thread may see which half-finished change of another one, and what happens
to a request, a flag, a slot or a session when events come in an order nobody tried.

## Inventory

### Threads

| thread | runs | may block |
|---|---|---|
| callback | every `ts3plugin_on*` handler, one at a time, and every TeamSpeak API call | no |
| audio (PCM) | `ts3plugin_onEditPlaybackVoiceDataEvent`, one block of one speaker at a time | never: no lock, no API, no allocation |
| wakeup | `ts3_wakeup_thread`: turns requests into CEDRAIN plugin commands | sleeps on an event |
| position watcher, HTTP server | read the game's position | on files and sockets |
| key watcher, overlay, dialogs | user interface | on windows |

Only the callback thread may call the TeamSpeak API, and TeamSpeak offers no timer. So every other
thread that wants something done raises a flag (*pending work*) and asks for a wakeup. The wakeup
thread sends the command CEDRAIN to the plugin itself, TeamSpeak relays it back, and its handler on
the callback thread dispatches the pending work of every source.

### Components

| component | state | operations | interacts with | what makes it correct |
|---|---|---|---|---|
| wakeup and identity (`ts/adapter/ts3_adapter.c`, `core/util/drain_target.h`, `wakeup_policy.h`) | `g_connected`, `g_activeConnection`, `g_localClientID`, `g_wakeupPending/Urgent/Stop`, event, `g_drainEpoch`, `g_drainEchoMs`, the probe | request, send, probe, stop; connect, disconnect, tab switch | all producers, TeamSpeak, dispatcher | no request forgotten, work dispatched, identity never half switched, thread joined before teardown |
| dispatcher (`ts/entry/ts3_entry.c`) | none of its own; overlay gate flags | connection events, CEDRAIN, other commands, start and shutdown | everything on the callback thread | reset before adoption, re-wake for leftovers, order of shutdown |
| audio snapshots (`core/proximity/audio_snap.h`) | `seq` and a struct for each client | publish, read | callback writes, audio reads | a read is the last publication or BUSY |
| proximity audio (`ts/proximity/ts3_proximity_audio.c`) | mode, snapshots, generations, dirty flags, unmute flags and counter, reverb pool, render state | recompute, publish, invalidate, reset, unmute flush, process a block | player table, audio thread | no stale target, exact counters, no foreign echo |
| command ring (`ts/adapter/ts3_cmd_ring.h`) | ring of 256 commands, drop counter | push, bounded drain | any producer, dispatcher | first in first out, nothing taken twice |
| channel management (`ts/channel/*`), return codes | wanted channel, move in flight, back-off, ignore cache, audio mode | tick, request move, own move, move failed, leave | server profile, anonymizer | one move in flight, user's will wins, back-off resets |
| nick anonymizer (`ts/nick/*`) | saved nickname | apply, restore | channel management | the real name comes back once |
| CEPOS, CEMODE, CEPING, CEAUTH, CEVER (`ts/proximity/ts3_ce*.c`, `ts/info/*`) | pending and last-sent state, peers' values, sequence numbers | flush, receive, reset | player table, recompute | announced after connect, nothing lost by a throttle, late and duplicate messages harmless |
| player table, talk state, TS 3D | tables by client id | upsert, expire, iterate | recompute | no entry of an old session, fair iteration |
| position watcher, parser, HTTP server | current position, freshness | poll, parse, serve | recompute, channel management | stale positions expire, clean teardown |
| voice modes, key watcher, UI, overlay, config | settings, queues | edit, save, key events | chat queue, wakeup | worker and queue handshakes, shutdown joins |
| hub parser, mod password, server profile, geometry, effects, log | mostly pure functions | parse, compute | | functional correctness |

The full list, with the files of each part and what is left out, is `components` in
`PROJECT.json`; the behaviours that are hard to test, each at the line where it bites, are
`hazards` there.

## Modules

| module | models | abstract specification, composition |
|---|---|---|
| `DrainTarget` | the decision logic of `drain_target.h` and `wakeup_policy.h`, operators on a record | used by `Wakeup` |
| `Wakeup` | wakeup thread, producers, callback-thread stores of the identity, dispatch, shutdown | EXTENDS `DrainTarget` |
| `SnapRegister` | an atomic register with a read that may give up | abstract specification of `AudioSnap` |
| `AudioSnap` | the seqlock, one memory access per step | implements `SnapRegister` |
| `Unmute` | unmute flags and counter, flush, invalidate, reset | relies on `Wakeup` for being dispatched |
| `CommandRing` | the typed command queue, its lock, the drain and its re-wake | |
| `WorkerSlot` | the hand-over of a thread handle between starter and stopper | |
| `CaveSlots` | the reverb pool and its lock-free hand-over | uses the snapshot as the register |
| `RenderSession` | one client id over tab changes: reset, adoption, block rendering | uses the snapshot as the register |
| `RemotePlayers` | received positions, player table, dirty flags, recompute passes, range latch | feeds the snapshot |
| `Ts3d` | TeamSpeak's own 3D stage: cache, refusals, budget, cursor | |
| `ChannelMove` | channel management, back-off, return codes, with server, user and clock | EXTENDS `Nickname` |
| `Nickname`, `NickTabs` | the anonymizer as operators; the anonymizer over several servers | `NickTabs` EXTENDS `Nickname` |
| `ServerProfile` | the Root channel's profile: lookup, request, refresh, apply, lock-free reader | |
| `HubDescription` | the description parser, line by line, against a declarative reading | |
| `PeerExchange` | CEMODE, CEAUTH and CEVER among the clients of one server | |
| `VersionMap` | the open-addressing version table | against the map `vmKnown` |
| `PositionSend` | the sending half of CEPOS | |
| `Heartbeat` | CEPING over an unreliable network | |
| `PositionFeed` | the watcher of Pos.txt and injected positions | |
| `HttpListener` | the HTTP position server and the mod password | |
| `LibraryScan` | both readers of libraryfolders.vdf | against one reference |
| `ConfigFile` | the configuration and plugin.cfg, with crashes | |
| `RangeUnits`, `Settings` | voice distances in two units; the settings dialog | `Settings` EXTENDS `RangeUnits` |
| `VoiceKeys` | poller and hotkey event of the voice key | |
| `HudSync` | mirrors and refreshes of the HUD | |
| `Lifecycle` | start and stop of all user-interface threads | |
| `MCThreads`, `MCPlugin`, `MCInputs`, `MCLive` | the modules above put together for TLC | extend or instantiate them |
| `Wakeup_proofs` | theorems about `Wakeup` | |
| `Threads_proofs` | ... about `AudioSnap`, `Unmute`, `CommandRing`, `WorkerSlot`, `CaveSlots` | the refinement of `SnapRegister` |
| `Session_proofs` | ... about `RenderSession`, `ServerProfile`, `HubDescription` | |
| `Names_proofs` | ... about `ChannelMove`, `NickTabs` | |
| `Peers_proofs` | ... about `VersionMap`, `RemotePlayers`, `Heartbeat`, `PeerExchange` | |
| `Feeds_proofs` | ... about `PositionFeed`, `HttpListener`, `PositionSend`, `LibraryScan` | |
| `Settings_proofs` | ... about `ConfigFile`, `Settings` | |
| `Ui_proofs` | ... about `Lifecycle`, `HudSync`, `VoiceKeys` | |

The header of every module names its files and its variables; `map` in `PROJECT.json` gives the
lines each definition stands for. Conventions common to all: a function of the C code that runs on
one thread without being observed in between is an operator from state to state; a handler whose
intermediate states another thread can see is cut into one action per shared access; clock values
are replaced by the comparisons made on them; what the outside may do (events, faults, clicks) is
bounded by a constant named `...Max...`, which stands in the guard of that action.

### Wakeup

A handler of the callback thread is the sequence `cbTodo` of the stores and calls it still has to
make; `CallbackStore` makes the next one, so every other thread runs between two of them.
`EstablishIdentity`, `SwitchIdentity` and `ClearIdentity` are the store sequences of
`ts3_on_connect_status_changed` and `ts3_on_active_server_changed`, `StopOps` those of
`ts3_wakeup_stop`, `FlushOps` the dispatch of `ts3plugin_onPluginCommandEvent`. The wakeup thread
has one action per read or write of shared state (`Wake`, `LoopTop`, `Gate`, ..., `ClearUrgent`),
and so has a request of a producer (`CheckStop`, `SetUrgent`, `SetPending`, `Signal`).

Pending work has two representatives: `chat`, which is urgent and flushed completely, and `dirty`,
which has a budget per drain (the recompute) and may need a re-wake. TeamSpeak is external: a
command to the server comes back to us, a command to the own client comes back if `env.echo`, and
names its sender if `env.named`; both are chosen once. Commands in flight on a tab that is lost are
lost. `windowOpen` stands for the 30 ms since the last send, `drain.aged` for 2 s since the run
began, `echoed` compares the newest echo with the start of the run. A second of `Sleep` is not a
step: it delays the thread, and any delay is a behaviour anyway.

### Audio: AudioSnap, Unmute, CaveSlots, RenderSession

In `AudioSnap` the two accesses to `seq` and each word of the struct are steps; between the two the
words are stored and loaded in any order, which is what the compiler and the processor may do.
`latest` is a history variable, the last completed publication, and is what `SnapRegister` calls
`cur`. The sequence number does not wrap in the model; it has 32 bits in the code.

In `Unmute` every interlocked operation is a step of its own. `rearm[c]` says that the client was
unmuted less than 500 ms ago (`TS3_UNMUTE_REARM_MS`); `RearmOver` ends that window at any moment, so
that no number of flushes fits into it. `ResetRaces` says whether a block of audio may signal while
a reset runs. The reset sets the pass-through mode first, so only a block
that read the mode before can do so; with `ResetRaces = FALSE` those blocks are over too.

In `CaveSlots`, `owner` and `acquireEpoch` are written by the callback thread, `seenEpoch` and the
reverb memory `dsp` by the audio thread. The memory is the set of clients whose voice rings in it.
The audio thread looks at the owner before the call, at its start, loads the epoch and looks again.

`RenderSession` follows one client id over several tabs. Each adoption of a tab is a numbered
session, and a target or gain is the number of the session it was computed in. In the last two the
snapshot is an atomic register, as `AudioSnap` justifies.

### Speakers: RemotePlayers, Ts3d, PositionSend, Heartbeat, PeerExchange, VersionMap

`RemotePlayers` holds the table (slots, and the order they were written in, which is what the time
stamps are compared for), the dirty flags and a pass in two steps, because the watcher moves the
listener while a pass runs. `target[p]` records the positions a published target was computed from.

`PositionSend` is the other half: what is true of the player, what was sent last, and what a peer
received. `psQuiet` counts the ticks since something last got in the way; the property is about
quiet times only, since a send may fail. In `Heartbeat` a beat travels by its true position in the
count and is seen by the receiver modulo `HbMod`, so that the wrap is there after three beats.
`HbStarts` are the counts a restarted peer begins with: one the window takes for old, one it does
not. A restart whose count lies just inside the window is left out: its first two beats changing
places would be told as a loss, which the window of the code cannot distinguish.

`PeerExchange` has the three announcement protocols in one module, because they differ only in how
a flush treats its flag: CEMODE clears it after the send and takes it back when it failed, CEAUTH
clears it before, CEVER answers at once. The server delivers in one order; a client may look at
another tab, disconnect, be rate limited or fail to send.

### Channels: ChannelMove, Nickname, NickTabs, ServerProfile, HubDescription

The state of `channel_manage.c` is a record `ch`, and its functions are operators on it, composed
as the code calls them; each asks its TeamSpeak calls of an `Outcome`, so that each call may fail.
The server answers a move by the error event, by the move itself, late, or never; the user moves
himself, an admin moves him, channels disappear, the profile and the password come and go.

`NickTabs` looks at the anonymizer alone, over several tabs and servers. At each look the id of the
server is known or not (`Now`); `blind` is a history variable that is set when a name goes to a
server it does not belong to while one of the two ids is not known.

`ServerProfile` keeps what the server has (`rooms`, `text`), what the TeamSpeak client knows
(`described`), what is on its way (`wire`) and what the plugin made of it (`prof`, `inUse`);
`seen` is the Root the plugin has looked up. `HubDescription` reads one line per step; `Meaning`
says in terms of the text alone what the settings are: the section of a line is that of the last
header, an entry's lines reach to the next beginning or header, and so on.

### The game and the files: PositionFeed, HttpListener, LibraryScan, ConfigFile, Settings

`PositionFeed` has the tick of the watcher in its unlocked steps and the injection in its own, over
one copy of the quad (sample, validity, source, hold). Ages are small numbers that saturate at
their last threshold. `HttpListener` has one action for each wait or shared access of the listener
thread, start and stop on the callback thread, and requests that differ in how they arrive
(complete, cut off, too slow, too long) and in what they hold. Socket numbers are used again after
a close, which is what makes a double close dangerous.

In `LibraryScan` each library is nine lines of libraryfolders.vdf (brace, path, name, applications,
of which there are two), read by two readers at their own pace; the one of the dialog counts
braces, the one of the watcher does not. Braces inside of a path are left out.

`ConfigFile` keeps the file as it would be found after a crash at any step, `cfgTmp` and `cfgDisk`.
Most changes of the memory are followed by a save of the thread that made them. Two are not: the
preview of the HUD's look in the open dialog (`DialogPreviews`, `ui_cfg_hud_preview`) and its undoing
when the dialog is closed (`DialogCloses`, `ui_cfg_dialog_end`). A save of any thread writes what it
finds, a preview included, so at rest the look in the file may be another one than in memory;
`cfgHud.unsaved` says that it was changed since the last text was formatted. The flags a profile
forces (`profile_forces_mutator`) are a change with a save like `ServerDefaults` and not a step of
their own.
`Settings` has the working copy, the live configuration and three writers behind the dialog's back.

### User interface: Lifecycle, WorkerSlot, HudSync, VoiceKeys

`Lifecycle` covers one life of the DLL, from `ts3plugin_init` to the end of `ts3plugin_shutdown`,
with every caller that can open the settings dialog. `WorkerSlot` looks at the slot of the overlay
monitor without the gate in front of it, because the header promises to be safe on its own.

In `VoiceKeys` a poll is a step for each access to what others write: it takes the reset flag
(`PollResets`), takes the notify flag of the key (`PollTakesNotify`), asks `GetAsyncKeyState`
(`PollSamples`), asks `GetKeyState` and decides (`PollDecides`), and then reads and exchanges the mode
(`PollReads`, `PollToggles`). The event of TeamSpeak, the player's finger and a reset may come between
any two of them. Both calls of Windows are taken to return the key's state at that moment.

## Runs

Each run is a `.cfg` of that name; `PROJECT.json` lists its properties.

The `MC...` modules put several components into one run: `part` (`Inputs` in `MCInputs`) is chosen
in the initial state and never changes, only the component it names moves, and every property
speaks of its own component. Components that have theorems are extended: they keep their own
variables, and while they are not the part they stay in one fixed initial state, so that the
states of a run are the sum of those of its components and not their product. So TLC checks the
very definitions that the theorems are about and evaluates their assumptions, which the
`MC...Assumption` of each module names. In `MCLive` four more components (`ChannelMove`,
`PositionFeed`, `HttpListener`, `Ts3d`) are instances with bounds of their own, smaller than those
of the safety runs; they share the variables `s1` to `s18`, each under the names of its own module
(`INSTANCE ... WITH`). The types of the components that are extended are proved and not checked.

### plugin_safe

| part | property | says | bounds |
|---|---|---|---|
| profile | `ProfileIsCurrent` | at rest the profile in use is that of the description the client knows | 2 valid descriptions with the races in different orders, 1 invalid; 3 edits, deletions or moves of the Root |
| hub | `ReadAsWritten` | the settings are what the text says, whatever the order of its lines | 5 lines of all kinds, 2 values, room for 1 entry of each kind |
| library | `BothFindTheGame` | both readers find the library that a reference definition finds, in all files of two libraries | 2 libraries, with paths that fit, are too long, or empty |
| block | `NoOldTarget` | neither the target nor the gain of a block is older than the session of its tab | 2 tabs, 3 events, the tab change before the status |
| cave | `NoForeignEcho`, `PoolConsistent` | nobody is heard with the echo of another client; no reverb slot is lost or shared | 3 clients, 2 slots, 2 acquisitions: a slot changes hands and comes back |
| versions | `TableIsMap` | the table holds exactly the clients it should, each findable, whatever the tombstones | 4 slots, 5 client ids of which three share a home slot, 2 identities |
| channel | `NamesAreSafe` | while digits are shown the real name is saved for this connection (`NameRecoverable`), and the playback gate fits the channel of the client (`GateFitsChannel`) | 2 events and 2 faults beside the server's and the clock's own steps |
| channel | `NameBackOutside` | no step of the plugin leaves digits outside the game channel unless a rename was refused | |
| nick | `NoForeignName` | no tab is given the name of another server, unless the id of one of the two was not known when the name was saved or given back | 2 tabs, 2 servers, ids known or not at every look, 4 connects |

### inputs_safe

| part | property | says | bounds |
|---|---|---|---|
| config | `FileIsCurrent` | plugin.cfg is whole after a crash at any step, and at rest reads as the memory, but for a look of the HUD that was previewed or undone since the last text was formatted | 3 threads, 2 changes with a save and any number of previews, 1 crash, 1 failing call |
| settings | `SettingsAreStored` | nothing of the dialog is live that was not saved, the preview of the HUD apart; a distance means the same in both units | 5 clicks, 2 outside events |
| position | `PositionIsSafe` | the hold keeps coordinates, a leftover file is never taken for the game, the lock outlives its readers | thresholds 1 to 3 units in the order of the code's; 2 writes or injections |
| http | `HttpIsSafe` | no socket is closed twice or by the wrong thread; a password is whole; occlusion is in place before its position; no error is answered twice or not at all | 2 sockets, 2 clients, 2 faults |
| send | `PlaceIsSent` | in quiet times every peer knows the place, the distance and the name within the keep-alive | 3 places, 3 events, 1 fault |
| heartbeat | `LossesAreTrue` | no loss is told that did not happen, and every gap is told | a count of 16, a window of 2, 5 beats, 2 events |
| keys | `KeyIsAnsweredOnce` | from the moment the poller has taken the flag of the event it leaves that press alone, and it answers none twice, unless a reset armed the held key or the key went up between the two reads of a poll; of two callers that switch at once only one reports a change | 2 presses, suppression of 2 polls, 1 reset |
| hud | `HudIsCurrent` | at rest mirrors and image show the sources | 2 position threads, 3 changes, 2 connection changes |
| wakeup | `PublishedIdentity` | while connected is 1 the connection and the own id of one established tab are in place | 2 tabs and 3 tab events, enough for a tab to be established, left for the other and shown again; no producers, which write nothing these two read |
| wakeup | `QuietAfterShutdown` | identity and event are torn down only after the wakeup thread has ended | |

### threads

| part | property | says | bounds |
|---|---|---|---|
| snap | `ImplementsRegister`, `ReadReturns` | the seqlock behaves like the register; a read ends although writers may stall | 2 writers, 1 reader, 2 words, 2 targets, 3 attempts, 4 publications: more than the attempts of a read |
| unmute | `CounterMatches`, `EveryFlagServed` | the counter is the number of flags up to what is owed; every flagged client is unmuted, or was within its window, unless the windows of a full batch of lower ids end again and again | 3 clients, a batch of 2, windows that end at any moment or never, 1 refusal, 2 leavings, no reset during a signal (`unmute_reset` has that) |
| ring | `RingIsSafe` | what is executed is what was accepted, in order, once each (`FirstInFirstOut`); commands in the ring have a wakeup on its way (`NeverStranded`) | capacity 2, 2 producers, 6 commands: it wraps three times and is full |
| worker | `OneOwner` | the handle of a created worker belongs to exactly one of starter, slot and stopper | the one starter and stopper of the code |
| wakeup | `WakeNotForgotten` | a pending request has its event set, or somebody about to set it, while the thread sleeps | 1 tab, 1 producer with chat, the position feed, dirty clients raised by the announcement of a session, 1 command in flight, a probe of 1 send, self echo or not |
| wakeup | `WorkIsDispatched`, `StopEndsThread` | raised work is dispatched, or the connection or the plugin ends; a stop request ends the thread | |

### live

| part | property | says | bounds |
|---|---|---|---|
| lifecycle | `LifecycleSafe`, `ShutdownEnds` | no thread, window or handle outlives the plugin, one dialog at a time; a shutdown ends | 2 dialogs |
| exchange | `ExchangeSafe`, `ExchangeEnds` | at rest everybody who must be known is known, and nobody by a stale value; announcements end | 2 clients, 3 events, 2 faults |
| players | `PlayersSafe`, `NobodyDisplacedEarly`, `EverybodyServed` | a voice is shaped by the last positions of its own speaker; a fresh entry is evicted only when all are fresh, and then the oldest; every dirty speaker is recomputed | 3 speakers, 2 slots, a budget of 1, 3 positions |
| ts3d | `HandedOverInTheEnd` | TeamSpeak holds every audible position once they stay | 3 speakers, 1 call a pass, 2 events, 1 refusal |
| position | `CoordinatesExpire` | the coordinates expire when nothing sends any | as in inputs_safe |
| http | `ListenerLives` | a stop ends, and a listener that lost its socket listens again | 1 client, 2 faults |
| channel | `ReachesGame` | a player who keeps wanting to play and may, gets to the game channel | 2 events, 1 fault, position feed |

Runs that end in states without a successor set `CHECK_DEADLOCK FALSE`: the bounds stop the
system, and after a shutdown it rests. Smaller bounds than these hide something each; larger ones
were tried for single components while the model grew (`ConfigFile` with a second crash,
`ChannelMove` with three events and three faults, `HubDescription` with six lines) and showed
nothing new.

Liveness is written with `[]<>` where that says the same as a leads-to (`P ~> ~P` is `[]<>~P`, and
a stop request is never taken back), because TLC's tableau stays small that way.

### Fairness

Threads are scheduled by Windows: each thread that can run, runs (weak fairness of every step of a
thread and of every handler the adapter delivers). TeamSpeak delivers commands of an established
tab, and clocks advance. Nobody is obliged to raise work, to switch tabs, to edit, to press or to
shut down. `PositionFeed` in `Wakeup` adds the position watcher, which asks for a wakeup with every
sample while the game runs (`chan_signal_position_update`). In `Unmute` and `ChannelMove` a flush
or drain comes again and again while there is work (strong fairness, or `[]<>~DrainDue`), which
`Wakeup!WorkIsDispatched` justifies. The run `threads` does not ask that a re-arm window ends;
`unmute_starves` does (`UmTimedSpec`), because time passes also when flush follows flush, and without
it a client might stay within its window for ever. In `AudioSnap` only the reader is fair: writers
may stall in the middle of a publication. In `PositionFeed` time passes only between ticks and injections, so
its fairness is strong. In `ChannelMove` the server answers in the end unless the answer is one of
the faults.

`MCThreads` and `MCLive` ask for the fairness of each component while it is the one that moves: in
`MCThreads` action by action (`SnapTurn`, `UnmuteTurn`, `WakeupTurn`), in `MCLive` with one action
of each component joined to a disjunction (`First` to `Fifth`). As `part` is constant, the weak
fairness of that disjunction is the weak fairness of the action of the component that moves, which
keeps the number of fairness conditions small.

### What the violated runs show

- `wakeup_lost` (`ts3_adapter.c:605`): pending is cleared after the send has returned. If the
  command is dispatched before, and new work is raised and requested in between, that request is
  erased; its event finds pending at 0. With the position feed the next sample repairs this, which
  is why the run `threads` has it; without a running game nothing does.
- `unmute_reset` (`ts3_proximity_audio.c:1489-1492`): a signal between the sweep and the clearing
  of the counter leaves a flag that the counter does not know (`FlagIsFound`). No flush looks at it,
  and no signal can set it again, until another client is flagged or a reset happens.
- `unmute_starves` (`ts3_proximity_audio.c:1361-1365`): a scan starts at id 1 and stops at a full batch.
  Flushes that come later than the windows of that batch end find it full of the same clients again,
  and the comment's "can never starve the others" fails for a higher id. In the code the batch is 63,
  so that this needs 63 voices with lower ids that signal all the time, and flushes that are always
  late; what holds without any such ratio is `EveryFlagServed`.
- `render_established` (`ts3_entry.c:540-549`): established adopts before it resets, unlike the tab
  switch, which resets first for the reason its comment gives.
- `new_root` (`ts3_server_profile.c:578-587`): the Root channel is deleted, which clears its id, and
  created anew; it is then "found" and not "changed", so with an active profile its description is
  never requested, against the exception of lines 634-636.
- `exchange_complete` (`ts3_entry.c:499-503`): a client that looked at another tab has forgotten its
  peers and announces itself, but they have answered it once already and stay silent, so that it
  does not know their mode until they change it. `doku/module/ce-protokoll.md:197` calls the
  exchange complete.
- `preview_saved` (`ui_config_state.c:103`): a look that is only previewed is in `g_config` when another
  thread saves; Cancel restores the memory and not the file, and the next start shows the look that
  was cancelled. `doku/module/ui_config.md:77` says of the preview "keine Datei".
- `voice_key` (`voice_modes.c:62`): the event tells the poller to leave the press alone by a flag. A
  poll that took the flag before it was raised reads the key afterwards and answers the press, which
  the event answers too. `doku/aenderungen/003-...md:142` promises one change for each press. The
  property leaves out what `VoiceKeys!OnePressOneSwitch` is about, below.

### What does not hold, without a run of its own

The modules state these too, each as a formula that TLC finds violated when it is checked as an
invariant (`UnreadableFileKept`: as an action property), with constants like those of the runs; the
properties and theorems above leave them out.

- `Wakeup!SendsOnEstablishedTab` (`ts3_adapter.c:572-577`): the thread reads connected, then the id
  of the connection. A switch to a tab that is still connecting runs in between, and the CEDRAIN
  goes to that tab, which the comment at 163-165 says the order of the stores rules out.
  `PublishedIdentity` is about that order, what is published at each instant; this is about the two
  reads.
- `Wakeup!OwnDrainsAccepted` (`ts3_adapter.c:134`): the shown tab is established before the change
  of tabs is reported, and getClientID fails for it: the own id stays that of the tab before, and
  the filter of `drain_target.h`, which is to fail open (130-132), takes the own drains for a
  stranger's.
- `Wakeup!NoSignalAfterClose` (`ts3_adapter.c:655-663`): a producer looks at the stop flag, the
  shutdown signals, joins and closes the event, and the producer sets it.
- `VoiceKeys!ResetAwaitsRelease` (`voice_modes.c:268`): a reset arms all keys at once and not "as
  soon as they are seen released" (45-46), so a key that is held during it is answered again.
- `VoiceKeys!OnePressOneSwitch` (`voice_modes.c:71-75`): a held key goes up between the two reads of
  a poll; the second arms it and the first still answers it, a second switch for the same press.
- `NickTabs!OwnNamesOnly` (`nick_anonymize.c:50`): digits are shown on one server, the tab connects
  to another, and the server's id is not available at one of the two looks. The handler id alone
  then decides, and the restore gives the second server the name of the first, against lines 22-24.
- `ConfigFile!UnreadableFileKept` (`config.c:273`): the log says the unreadable file is left
  untouched; the first save of the session, which the start itself may make after it found the Saved
  path, replaces it by defaults.
- `Settings!ZoneNotStored` (`ui_config_command.c:83-87`): the player leaves a zone, the fields of
  the open dialog still show its distance, and a save stores it as his own.
- `ServerProfile!OwnRaceOnly` (`ts3_server_profile.c:474`): the index of the race is read before the
  lock; a profile applied in between gives the reader the race of another player at that index.

### What else the models made visible

Kept here because the models contain it and no document of the repository says otherwise:
the own-move event clears the in-flight mark although the own request is unanswered, and the late
error of a timed-out move counts against the newer one (`ChannelMove`); after a reconnect with
digits straight into the hub the real name comes back with the next move only; a change of tabs
overwrites the saved name (`NickTabs`); a profile request that timed out is not repeated within
30 s although the log says it will be, and an edit within 500 ms of a request is not requested
again (`ServerProfile`); the send flag of CEPOS is cleared after the send, which the next tick
repairs (`PositionSend`); CEAUTH clears its flag when the send fails (`PeerExchange`); a `[RACE]`
section above `[GLOBAL]` inherits no limits, and `Race = Name` with blanks begins no race
(`HubDescription`); injections and ticks write validity, source and hold without a common lock
(`PositionFeed`); a message box of the settings dialog without a window handle holds up the join of
a shutdown (`Lifecycle`, where it is assumed to be answered).

## Proofs

`tlapm` checks all of the following for every value of the constants: any number of clients, tabs,
slots, threads, events and faults, where the runs have two or three. Every invariant and every
safety action property of a passing run is a theorem; what stays with TLC is listed at the end of
this section.

Each proof has the same shape. The property is seldom inductive; the inductive invariant named
below is, and says where the work that will restore the property is at every step in between. A
lemma for each action shows that the action keeps it, lemmas about operators say once what a helper
returns, and the theorem joins them by `PTL`. The inductive invariants were first checked by TLC.

**Wakeup_proofs.** `NoForgottenWake` by `SignalInv`: a thread that clears urgent is about to sleep,
and one that woke by its timer has not consumed an event, so both places count as awake.
`IdentityIsPublishedWhole` by `IdentityInv`: of the stores of a tab event that are left, those that
take the identity down come before those that write it, and connected comes last; it assumes
`~IdMayFail`, that getClientID answers for a tab that is up (`OwnDrainsAccepted` fails without it,
see *Runs*). `ThreadEndsFirst` by `StopInv`: the join is before every store of the
teardown.

**Threads_proofs.**
- Seqlock: `SeqlockCorrect` proves `SeqlockInv` (`LockInv`: at most one writer is inside and the
  parity of `seq` says so; `DataInv`: the struct is the last publication while `seq` is even;
  `CopyInv`: while `seq` has not moved, what was copied is a part of the last publication). From it
  follow `ReadsAreLatest` and `SeqlockImplementsRegister`, in which every step maps to a step of
  the register or to a stutter.
- Unmute: `UnmuteTypes`, with the bound on the batch; `CounterIsExact` by `CounterInv` under
  `~ResetRaces` (the run `unmute_reset` shows what happens without): each swap owes one change of
  the counter, and the sweep of a reset leaves no flag behind it (`ResetInv`).
- Ring: `RingKeepsItsCommands` for every capacity. The slots from tail on, `count` of them and
  counted modulo the capacity, are the commands accepted and not yet popped; the proof is mostly
  about that arithmetic when head or tail wraps.
- Worker: `HandleHasOneOwner` and `WorkerIsJoinedByOne` from an invariant that says, for each place
  of the two threads, where the handle is and whether the stop request was seen.
- Reverb: `HandOver` proves that owner, epoch and memory fit together (`OwnerInv`, `BlockInv`): a
  memory that holds foreign voices belongs to an epoch the audio thread has not seen, and a block
  that passed both looks has loaded an epoch that shows it; `NoForeignEchoHolds` follows.
  `PoolAgreesWithMap` by `MapInv`: owners and map are one relation at every step.

**Session_proofs.**
- `NoOldTargetIsHeard` under `~StatusFirst`, that TeamSpeak reports a tab change before the status
  of the tab that is now shown (`render_established` is the other order): a session begins only
  when the id is clean (`CleanInv`, `UpInv`, `SessionInv`).
- `ProfileIsTheServers`: `WireInv`, the newest text on its way is the server's, an edit is followed
  by its text, and nothing is on its way for a room that is not there yet; `HashInv`, what the hash
  stands for; `SeenInv`, what the plugin has looked up.
- `DescriptionIsRead`: until the end of a text the parser's state is a function of the lines read.
  The section and the keys are those of the text so far (`KeysInv`), and each list of entries is the
  list of blocks that the text has, in their order, of which only the current one is still open
  (`EntryInv`). Half of the proof is about the text alone: what one more line does to the last
  header, to the section, to the last range, to the end of a block and to the n-th beginning.

**Names_proofs.**
- `NamesStaySafe` by `ChanInv`: until the plugin has stopped the digits that are shown can be
  undone, as the real name is saved for the connection (`NameHeld`), also while the tab is offline,
  when it is in no channel and on its way to none (`OutHeld`), and the playback gate fits the
  channel. A return code that is free is found by counting (`FreshIsCode`).
- `NameComesBack`, an action property: what each function leaves for the next one is that the real
  name is shown, or that a move into the game channel is under way (`Fit`).
- `TabsKeepTheirNames`: a saved name is bound to the server it was shown on, unless its id was not
  known then (`SavedIsBound`).

**Peers_proofs.**
- `TableStandsForMap`: every known client is in one slot, all slots before it on its probe path are
  taken or tombstones, and nobody else is in the table.
- `VoicesAreShapedRight` and the action property `NobodyIsDisplacedEarly`: a client is in one slot
  (`SlotInv`); a pass works on the slots as they are, and on where the listener is unless another
  pass will be asked for (`PassInv`); who is not marked is shaped from the last positions, save
  while the listener has moved (`ShapeInv`).
- `LossesAreTold`: by its position in the count, which the number on the wire gives modulo `HbMod`,
  as long as there are fewer beats than half of it (`HbAssumption`); `TrackInv` says which beat the
  receiver has come to, `FateInv` that nothing is known beyond it.
- `ExchangeIsSafe`: `OwnInv` for each client alone and `PairInv` for each two: who has announced
  himself is about to be known, or about to be answered, or there is a message in a box that will
  do it, in any order of the boxes.

**Feeds_proofs.**
- `LocalPositionIsSafe`: which thread can be where in the life of the watcher (`LifeInv`), what an
  injection leaves behind that the tick has not crossed (`HoldInv`), and that a file of the time
  before the start has not been taken (`LeftoverInv`).
- `HttpServerIsSafe`: every open socket is held in exactly one of three places (`SocketInv`,
  `OwnerInv`), and the handler keeps its order (`RequestInv`).
- `EverybodyIsTold`: `QuietInv` says what a tick without any event or refusal leaves: a look is due,
  or it found nothing to send, or its packet, with the place as it is, is on the way.
- `LibraryIsFound`: as a library is nine lines, the line number alone says what path each reader
  holds and how deep in braces it is (`WatcherInv`, `DialogInv`).

**Settings_proofs.** `ConfigFileIsSafe`: who saves holds the lock and its text is whole
(`SaveInv`), and the text of a save is the memory's, but for the look while it is unsaved, or another
save is still to come (`CurrentInv`); `ConfigTypes` for the ranges. `SettingsAreSafe` by `SetInv`: the dialog
remembers the display that is stored.

**Ui_proofs.** `LifecycleIsSafe`: flags follow the shutdown (`FlagsInv`), each thread that runs has
a handle that will be joined (`KeyInv`, `OverlayInv`, `DialogInv`), and the guard of the dialog is
set exactly while one holder is there (`GuardInv`). `HudShowsItsSources`: a raised flag has
somebody on the way (`FlagIsServed`), and what mirrors or image lack is still to be copied
(`MirrorComes`, `ImageComes`). `KeysAreAnsweredOnce` by `KeysInv`: the key of a press that
is held is disarmed from the poller's answer on, and from the moment the poller has taken the flag
of its event, which is raised until then (`HeldDisarmed`). The two excuses of the property, a reset
and a release between the two reads, are recorded with each press when they happen, and each is
needed: `ResetAwaitsRelease` and `OnePressOneSwitch`, which do without, fail.

### Assumptions

- Each module with constants names what it assumes of them, as weak as the code justifies: sizes
  and bounds are naturals, ids are not the null id, thresholds are in the order of the code's
  (`PosAssumption`), a range is within the limits (`HdAssumption`, `SetAssumption`), the counter is
  larger than twice the beats (`HbAssumption`). TLC evaluates them for the values of every run.
- `~ResetRaces`, `~StatusFirst` and `~IdMayFail` are hypotheses of the theorems named above. What
  happens otherwise: the runs `unmute_reset` and `render_established`, and the predicate
  `OwnDrainsAccepted`.
- What the modules abstract from, see *Modules* and *Not modelled*.

### Only model-checked

- Liveness (`ReadReturns`, `EveryFlagServed`, `WorkIsDispatched`, `StopEndsThread`, `ShutdownEnds`,
  `ExchangeEnds`, `EverybodyServed`, `HandedOverInTheEnd`, `CoordinatesExpire`, `ListenerLives`,
  `ReachesGame`): it needs fairness and ENABLED, which the prover does not have. `Ts3d` has no
  other property than such a one, and so no theorem.
- What is violated in a run, of course.
- What a recursive function computes for every input: the models of what is proved have none, their
  helpers are written with sets, quantifiers and CHOOSE.

## Not modelled

- Numbers: gains, filters, HRTF, occlusion geometry, zone shapes, the round-trip average, and
  parsing and printing of numbers. Of the geometry only the hysteresis of the range is modelled.
- Windows: layout, drawing, controls, preset files, the message windows, the info panel, the chat
  ring, the talk state (a table of flags written and read under one lock for the overlay).
- Logs, and text that no decision depends on.
- Truncation of very long library paths (`swprintf`), the wrap of the 32-bit sequence number of the
  seqlock, and the re-use of a message box by several threads.
- `src/sdk`, the vendored TeamSpeak headers and its example plugin, which is not part of the program.

TeamSpeak, Windows and the game mod are external and modelled by how the code uses them. The full
list is `components` in `PROJECT.json`.

## Plan

What is left, in the order of what it would show:

1. The chat ring and the talk state, together with the queue of the UI's chat lines.
2. Zone priority as a pure function against its reference definition.
3. `NoOldTarget` for a fixed order of adoption and reset, to have a proof at hand when
   `render_established` is repaired.
