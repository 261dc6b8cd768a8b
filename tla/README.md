# A TLA+ model of m-dplayer

m-dplayer is a Discord music bot: `/dplay <url>` resolves a URL, joins the
caller's voice channel and queues the track; a worker goroutine per guild plays
the queue through `yt-dlp` and `ffmpeg`; `/dstop` and `/dnext` skip, `/dterm`
ends, `/dqueue` lists, `/dvol` sets the volume, and the bot leaves by itself
when the queue is empty. This directory holds specifications of its parts, the
TLC runs that check them on small instances, and theorems about them that TLAPS
checks for all instances.

    cd tla
    tlc -workers 2 -config MCSession_safety.cfg MCSession.tla
    tlc -workers 2 -config MCSessionManager_safety.cfg MCSessionManager.tla
    tlc -workers 2 -config MCAudioPipeline.cfg AudioPipeline.tla
    tlapm SessionProofs.tla

A cfg `MC<Module>[_<run>].cfg` belongs to `MC<Module>.tla` where there is one,
else to `<Module>.tla`. `PROJECT.json` lists the runs, the mutants that show
what each property notices, the lines of the source each definition models, the
hazards, the findings and the theorems.

## 1. Inventory

| Component | State | Operations | Correct when | Module |
| --- | --- | --- | --- | --- |
| Guild session, `internal/session/session.go` | `queue`, `current` and its cancel function, `closed`, `ctx`, `conn`, `idleSpeaking`, `tempFiles`, `volume`; locks `mu`, `sendMu`, `closeOnce`, condition `queueCond` | `Enqueue`, `WaitDequeue`, `StartCurrent`, `FinishCurrent`, `SkipCurrent`, `ClearQueue`, `TrackTempFile`, `RemoveTempFile`, `WithConnExclusive`, `SetIdleSpeakingActive`, `SetVolume`, `Close` | tracks play once, in order, one at a time; one user of the connection; no file lost or left; a closed session stays closed and gets closed | `Session` (volume: `PCMStream`) |
| Session manager, `internal/session/manager.go` | the map from guild to session, under `mu` | `Create`, `Get`, `Destroy`, `Detach`, `Close`, `remove` | no session is left without somebody who ends it; a session removes only itself | `SessionManager` |
| Slash commands, `internal/bot/music_handlers.go` | none of their own; `/dplay` runs in a goroutine of its own, the others in the event loop | `processDPlay`, `processDStopLike`, `processDTerm`, `processDVol`, `queueSnapshotMessage` | what the answer says has happened | `Session`, `SessionManager`, `PCMStream` |
| Playback worker, `music_handlers.go` | the request it holds | `runPlaybackWorker`, `processPlaybackRequest` | the queue drains; the session ends when it is empty | `Session` |
| Keepalive and priming, `internal/bot/events.go` | `idleSpeaking` of the session | `runIdleVoiceKeepAlive`, `primeVoiceConnection` | silence only between tracks and only on an open connection | `Session` |
| Voice gateway recovery, `events.go` | `voiceGatewayRecoveries` with their timers, under `voiceGatewayCloseMu` | `WaitForVoiceServerRecovery`, `OnVoiceServerUpdate`, `onVoiceGatewayEvent`, `OnGuildVoiceStateUpdate`, `Close` | at most one fallback, none after a recovery; a recovery ends | `VoiceRecovery` |
| Recoverable gateway, `internal/bot/voice_conn_factory.go` | the gateway in use, `recreateOnNextOpen`, under `mu` | `Open`, `Close`, the close callbacks | a terminated gateway is replaced, none is left open behind the current one, a stall ends | `RecoverableGateway` |
| Audio processes, `internal/audio/ffmpeg_pcm.go`, `internal/music/ytdlp_source.go` | processes, pipes, the pump goroutine, `closeOnce` | start, read, `Close` | everything ends, in every order of end of input, failure and `Close`; failures are reported, skips are not | `AudioPipeline` |
| Sender and PCM stream, `internal/audio/opus_sender.go`, `pcm_stream.go` | a frame buffer | `SendOpusFrameStream`, `NextOpusFrame`, `Close` | the frames are the track, whole, at one volume each | `AudioPipeline`, `PCMStream` |
| Resolver, `internal/music` | the temporary file of a direct download | `Classify`, `Resolve` | the file exists exactly when a source was returned; the limit is exact | `Resolver` |
| Commands, configuration, main | none after start-up | registration, `Load`, start and shutdown | - | the shutdown only |

The parts meet in three places. The **session** is shared by the `/dplay`
calls, the worker, the two silence writers, the `/dterm`, `/dstop`, `/dnext`,
`/dqueue` and `/dvol` calls and whoever destroys it (the worker itself,
`/dterm`, the event loop on a leave event, main at shutdown, a creator that was
refused, the cleanup of a failed `Open`). The **manager's map** hands out
pointers that outlive the entry, and `Destroy` and `Detach` take a guild id, not
a session. The **recovery map** is shared by the gateway's goroutine, timers and
the event loop, and is filed under the guild, not under the session.

Hard behaviours, listed line by line as "hazards" in `PROJECT.json`: sequences
of short critical sections where the world changes in between (empty queue then
destroy, current then skip, track the file then enqueue), a `Close` that runs
against all of them, one mutex held for a whole track, a condition variable,
timers that fire while they are being stopped, callbacks that run late, pointers
or guild ids that outlive what they named, and goroutines and processes that
end one another through pipes.

## 2. Plan and what is left of it

`Session`, `SessionManager`, `VoiceRecovery`, `RecoverableGateway`,
`AudioPipeline`, `PCMStream` and `Resolver` are written and checked, and each
has a module of proofs (`Session` has two, `SessionProofs` and
`SessionRefinement`). Three more modules are abstract:

- `PlaybackQueue`, what the users of a guild see; `Session` implements it;
- `SessionLife`, the life of one session; `Session` implements it, and the
  sessions of `SessionManager` take no other steps;
- `Recovery`, what a recovery comes to; `VoiceRecovery` implements it, and the
  recoveries of `RecoverableGateway` take no other steps.

The last two are how the modules are composed: what one module assumes of the
component it abstracts from, the other one is shown to do.
Left: the answer of `/dqueue`, and the other hazards of `PROJECT.json` that have
a note and no property, for nothing in the repository says what should happen.

No module that is proved about uses a RECURSIVE operator; parameters are
constants with named assumptions; invariants are conjunctions of named parts.

## 3. The modules

Operators named `...Fault` are not part of a specification. Each stands before
the operator whose plausible slip it is, and the mutants of `PROJECT.json` show
that a property notices the slip.

### PlaybackQueue

What a guild's player promises: a track is accepted while the player is open
and not more than `Capacity` + 1 tracks are pending, tracks start in the order
of acceptance, one at a time, each at most once; nothing is accepted or started
after the shutdown. A pending track is lost in two ways only: with the shutdown,
or by a clear, of which each `/dterm` has one, when it comes to it (`clearing`).
A clear may leave the one track that the worker has already taken out.

### SessionLife

The interface of `Session` and `SessionManager`: how far a session is, whether
the map has it, how many tracks wait, and whether its worker checks the queue,
waits for a track, plays or destroys. A worker leaves an open session only when
it found the queue empty, its `Destroy` returns when the session has left the
map, the connection is closed when no track is sent, and the session leaves the
map last. A track that the worker holds when `Close` begins is over for this
interface unless it is being sent at that moment.

### Recovery

The interface of `VoiceRecovery` and `RecoverableGateway`: a gateway close is
handled once and becomes the pending recovery or is refused; the pending one is
cancelled, superseded or given up, and one that was given up falls back once.
`RecoverableGateway` does not have the cancellations by a leave event and by the
shutdown, after which the session, and the gateway with it, is closed anyway.

### Session

One session from the moment `Manager.Create` has registered it. A step is one
critical section of `s.mu`, one acquisition or release of `s.sendMu`, or one
external operation. Reads that nobody can tell apart from one are merged
(the two tests in `WithConnExclusive`, the `ctx.Err` and
`ShouldAutoDisconnect` of the loop); every write is a step of its own critical
section.

| Code | Model |
| --- | --- |
| fields of `Session` | `queue`, `current`, `closed`, `ctxDone`, `idleSpeaking`, `tempFiles`; `conn` is nil exactly when `closed`, `currentCancel` exactly when `current` is |
| `sendMu` | `sendMu`, its holder; `s.mu` is the atomicity of the steps |
| `closeOnce` and the body of `Close` | `closePhase`: `BeginClose`, `CloseCancel`, `CloseConn` (under `sendMu`), `CloseFiles`, `CloseUnregister`; callers that come later wait in pc `closing` |
| the manager's entry | `registered` |
| the temporary directory | `disk`; a file has the name of its item |
| `processDPlay` | `call[i]`: resolve, (open), track, enqueue, and after a refusal untrack, unlink, destroy, cleanup |
| `runPlaybackWorker`, `processPlaybackRequest` | `worker`, and `hand`, the request it holds |
| `runIdleVoiceKeepAlive`, `primeVoiceConnection` | `idler` |
| `processDTerm`, `processDStopLike` | `term`, `skip` |
| leave events, `Manager.Close`, the goroutine of `cleanupFailedVoiceSession` | `closer` |
| `Detach(guildID)` after the failed `Open` of an earlier session of the guild | `DetachedLate`, if `LateOpen` |

A `/dplay` call and the item it builds are one value, because each call builds
one. A playback context is represented by the items whose own cancel function
ran (`cancelled`), together with `ctxDone`. Tracks end, fail or are stopped at
any time; `SetSpeaking` and UDP writes may fail; every external call that the
code bounds by a timeout returns.

Left out: volume, metadata, the texts of answers and posts, the identity of the
connection, whether a pending recovery mutes the keepalive (the keepalive may
always skip a tick), processes and pipes.

### SessionManager

The sessions of one guild as the manager and its callers see them. Guilds share
nothing but the lock of the map. A session is named by the `/dplay` call that
created it and reduced to the length of its queue, its worker and the body of
`Close`; `Session` has the inside.

| Code | Model |
| --- | --- |
| `m.sessions[guildID]` | `entry` |
| the life of a session | `phase`: `none`, `open`, `closing` (closed and cancelled), `unhooked` (after `beforeClose`), `left` (connection closed), `gone` (after `onClose`) |
| `len(s.queue)` | `waiting` |
| `VoiceManager` of the client, its connections | `voiceConn`, `connOf`, `connected`: `CreateConn` hands out the connection that is registered for the guild, `RemoveConn` takes a guild |
| `processDPlay`, its local `sess` | `call`, `target` |
| `processDTerm`, its local `sess` | `term`, `termOf` |
| `Destroy(guildID)` | `DestroyFinds` / `DestroyMisses`, then `CloseReturns`; `victim[d]` is the session whose `Close` the goroutine d is in |

`Close` needs `sendMu`, which the worker holds while it plays (`CloseConn`).
`Exists` before `Destroy` in the leave event reads the same map twice and is
merged with it.

### VoiceRecovery

The recoveries of one guild while its sessions come and go. A timer is armed,
firing (its function waits for the mutex), decided (it has taken the entry) or
done: `time.Timer.Stop` prevents only a function that has not started. The
cancellation by the gateway, by the event loop and by main is in two steps as
in the code, the entry under the mutex and the timer after it. A timer that
has taken the entry first looks for the session (`Look`) and then falls back
(`FallBack`), and the session may end in between. The fallback itself, which
closes the old gateway, is external; the one that needs no recovery, because
there is no session, is in `RecoverableGateway`.

### RecoverableGateway

The gateway of one connection. The library's gateways are external: each is
new, open, ready, ended by itself (`terminated` for close code 4022, `lost` for
anything else) or closed by its user; only an end by itself starts the close
callback, in a goroutine (`callback`). `Open` is the critical section that may
replace the gateway; `Dial` is `current.Open` after the mutex is released.
Nothing in the code keeps two `Open`s apart, or a closed connection from being
opened, and nothing in the model does: a gateway that is opened after another
`Open` has replaced it is noted in `overtaken`.
A recovery is reduced to pending and expired, the variables of `Recovery`;
`VoiceRecovery` has its timers.

### AudioPipeline

One track: `yt-dlp`, pipe 1, the pump goroutine, pipe 2, `ffmpeg`, pipe 3 and
the worker, or `ffmpeg` reading a file. A chunk of sound stays one chunk from
end to end. `shut` holds the ends of pipes this program closed, `once` the body
of `closeOnce` in `pumpReaderToPipe` (close the writing end of pipe 2, close
pipe 1, wait for `yt-dlp`), whoever runs it. A process ends, fails, breaks when
it writes to a pipe nobody reads, or is killed when the playback context is
cancelled. Encoding or sending a frame may fail, and ends the sender the same
way. The error that `Close` returns is computed as in the code:
`firstErr` in the order of its four parts, with what a done context suppresses.

### PCMStream

A track of bytes that `io.ReadFull` collects into frames in chunks of any size,
through one reused buffer; the samples, their sign and their scaling by the
session's volume; `/dvol` at any time. `scalePCM16` computes in `float64`.
Compared with exact arithmetic for every 16-bit sample and every volume this
differs at ties of volume 7 only (0.7 is not exact), so `Scaled` yields either
neighbour there and the exact rounding elsewhere. The clamp at the ends of
`int16` cannot be reached, for the scale is below one.

### Resolver

`Resolve` for one URL against a world chosen at the start: what `HEAD` and `GET`
answer, how long the body is and how long it is said to be, whether it is cut,
what `yt-dlp` says, and at which step the disk fails. `Classify` is an operator
over the same world.

## 4. The runs

| Run | Instance | Shows |
| --- | --- | --- |
| `MCSession_safety` | 3 `/dplay` calls, the later two with a download, queue of 2, 1 `/dterm`, 1 leave event, the `Open` of an earlier session; 2.7 million states up to symmetry | the safety properties, that nobody waits for good, and that `Session` implements `PlaybackQueue` |
| `MCSession_liveness` | 2 `/dplay` calls with downloads, queue of 1, 1 `/dterm`, 1 `/dnext`, with fairness; 0.13 million | `Close` completes, goroutines end, files go, a stopped track leaves, accepted tracks do not wait for ever |
| `MCSession_autodisconnect` | 2 `/dplay` calls | finding 1 |
| `MCSession_skipannounce` | 2 `/dplay` calls, 1 `/dstop` | finding 2 |
| `MCVoiceRecovery` | 2 sessions, 3 gateway closes, 4 timers, with fairness; 1.1 million | the timers implement `Recovery`, so that a recovery falls back at most once; no fallback after a cancellation, no stray timer; a recovery ends |
| `MCVoiceRecovery_extension` | 1 session, 1 gateway close, 1 extension | finding 3 |
| `MCSessionManager_safety` | 3 `/dplay` calls, queue of 1, 1 leave event, shutdown; 3.6 million up to symmetry | every open session has somebody who ends it, a guild is freed in turn, each session takes only the steps of `SessionLife` |
| `MCSessionManager_liveness` | 2 `/dplay` calls, 1 `/dterm`, shutdown, with fairness; 0.21 million | nobody waits in `Close` or on an empty queue for good, whoever closes another session than its own has not left its own open, every `/dplay` is answered, a session whose tracks end gives the guild back |
| `MCAudioPipeline` | 3 chunks, from `yt-dlp` or a file, pipes that hold one, with fairness; 0.07 million | nothing is left behind or cut short, failures are reported, skips are quiet; `Close` returns, a skip ends everything |
| `MCRecoverableGateway` | 2 `Open`s at a time, 2 gateways, 3 ends, with fairness; 0.28 million | a terminated gateway is replaced, no gateway stays open behind the current one unless its `Open` was overtaken, a stall ends |
| `MCPCMStream` | frames of 2 samples, every track of up to 5 bytes out of 3 values | the frames are the track, whole |
| `MCResolver` | a limit of 2 and lengths up to 4; 0.66 million | file exactly for a direct source, whole and within the limit, `Classify` agrees |

**Bounds.** In `Session` the only bounds are the constants. Three calls on a
queue of two are what it takes for one track to play and two to wait, where
order shows, and for one call to be refused by the full queue, the creator's own
included. One `/dterm` and one leave event, with the worker, the creator and the
detached goroutine, make up to four callers of `Close`. `/dnext`, which holds no
lock and nothing that others wait for, is in the run for liveness; the theorems
cover it. In `SessionManager` the constants are the only bounds, too: two calls
make two sessions, of which the second can be hit by what was meant for the
first; the third makes a row of three. All call from one channel: one from
another channel is turned away, or comes when the guild is free. `/dterm` is in
the run for liveness only, for the theorems below show that larger instances of
both modules, with every kind of closer, have the same safety properties. In
`VoiceRecovery`, `MaxSessions`, `MaxRecoveries` and `MaxTimers` bound what is
observed: three recoveries allow one that is replaced, one that is cancelled and
one that falls back in one behaviour. In `RecoverableGateway` three ends and two
gateways allow an end, a reopening of the same gateway, another end, a
replacement, and an end of its successor, while a second `Open` is about to open
either. Three chunks and pipes of one make every pipe full, empty and
half read at every failure. In `PCMStream` five bytes are a full frame and a
partial one with an odd byte; the byte values make positive and negative
samples, a tie of volume 7, and -1; volumes -1 and 11 are refused. In `Resolver`
the lengths reach two beyond the limit. With the bounds used up, or at the end
of a track or a URL, the system may really stop: the runs of `VoiceRecovery`,
`RecoverableGateway`, `PCMStream` and `Resolver` do not look for deadlocks.
Those of `Session`, `SessionManager` and `AudioPipeline` do: their only end is a
state in which everything is over.

Symmetry is used in runs of safety properties only, among `/dplay` calls that
are treated alike. Every property of a run is violated by a mutant of the code
listed with it.

**Fairness.** Weak fairness of each goroutine: the Go scheduler runs what can
run, and each external call has a timeout in the code. Strong fairness for the
acquisitions of `sendMu` in `Session`: a `sync.Mutex` whose waiter has waited
1 ms switches to handing the lock to the longest waiter, so whoever keeps trying
gets it although the keepalive comes for it every 20 ms. Nothing is assumed of
users, voice events, gateway losses or the end of a track: `QueueDrains` excepts
a track that is sent for ever, and `SessionsEnd` is about sessions in which no
track is. `SessionManager!TrackStops` is the sender noticing that its
context is cancelled. `RecoveryEnds` holds when the voice server updates cease,
which `MaxTimers` makes them do: an unbounded stream of them extends a recovery
for ever by design. `RecoverableGateway` assumes that callbacks run and timers
fire, and nothing of the library's `Open` or of Discord.
`AudioPipeline` assumes that goroutines run and that a process of a cancelled
context is killed (`exec.CommandContext`); that the processes get on is a
premise of `StreamCloses` (`ProcessesGetOn`) and of nothing else.

### What the code does otherwise than its texts say

1. `AutoDisconnectOnlyWhenEmpty`: the worker finds the queue empty
   (`ShouldAutoDisconnect`), a second `/dplay` is accepted and answered, then
   the worker destroys the session with that track in it. README.md:35 of the
   program promises the disconnect for an empty queue.
2. `SkipStopsAnnounced`: `/dstop` reads the current track A, A ends and B
   starts, `/dstop` stops B and announces A. README.md:21 of the program:
   it stops the track now playing.
3. `ExtensionHolds`: the timer expires, a voice server update extends the
   recovery before the timer's function gets the mutex, the function finds its
   recovery still pending and falls back. `events_test.go:153`: "fallback
   should be extended after voice server update".

The models have some more behaviours that one may not expect. No run is about
them: the texts do not clearly rule them out, or they depend on what an external
part does.

- A worker finds its queue empty, a `/dterm` ends its session, another `/dplay`
  opens a new one: the worker's `Destroy`, which takes the guild id, ends
  the new session (`WorkerDestroys` with `entry` another session). A refused
  creator, the cleanup of a failed `Open` and a `/dterm` can do the same;
  `DestroysOwnFirst` says only that nobody does so while its own session is open
  with nobody to close it.
- Of two first `/dplay` calls from one channel the second is refused by
  `Create` and answered as a failed connection (`call` is `exists`).
- A `/dterm` closes the session while its connection is being opened; `Open`
  may then succeed on the closed connection (`OpenSucceeds` when `phase` is
  `gone`).
- A session created after the snapshot of `Manager.Close` is not closed by it.
- When the creator's `Open` fails, or others have filled the queue before its
  own `Enqueue`, the tracks already accepted from other calls go with the
  session.
- A close callback of a gateway that comes late, when the gateway has been
  opened again, starts a recovery that only the next readiness cancels.
- With two overlapping `Open`s of one connection a replaced gateway may be
  opened after it was replaced (`current.Open` is outside the mutex), and no
  `Close` reaches it: it is in `overtaken`, which `NoStrayGateway` excepts.
- A recovery that falls back closes the connection even if its session has ended
  between the timer's test and the fallback.
- A URL with an audio extension is never offered to `yt-dlp`.

## 5. The proofs

All theorems are about the safety specification, without fairness, for all
values of the constants that satisfy the named assumptions of the module. Every
invariant property of the passing runs has a theorem, and so has every action
property and every refinement.

**`SessionProofs`** proves every invariant of `MCSession_safety`, for any
set of calls, any set of downloads, any capacity and any numbers of `/dterm`,
`/dstop` and closers. It assumes that the creator is a call, `NoItem` is
none, downloads belong to calls, the capacity is positive, and the detached
goroutine is no other closer. None of the properties is inductive.
`NoOrphanFile`, say, needs to know that a call which was refused untracks only
its own file; `TrackFileAvailable`, that no file is in two queues. `Inv` adds to
the properties:

- `PhaseInv`: `closed` and `ctxDone` follow the body of `closeOnce`;
- `StartInv`: the goroutines exist only after the creator's call started them;
- `RequestInv`: a request is in one place, and its call was accepted;
- `TrackedInv`: a tracked file exists, its call is past `TrackTempFile`; while
  the session is open, whatever waits or plays is tracked;
- `DoomedInv`: a file that `Close` or `ClearQueue` took over is not tracked any
  more and not about to be.

There is one lemma per action, one step per part of `Inv`; the parts whose
variables the action leaves alone come in one step. `CloseKeeps` is shared by
the four ways into `Close`. `NextInv` puts the lemmas together,
`InductiveInvariant` is the temporal step, and each property follows.

`RestsOnlyWhilePlaying` is about who can go on. `CallMoves`, `WorkerMoves` and
the others say when a goroutine has a step of its own, one that no user, voice
event or end of a track has to bring; they are written out, for `ENABLED` is out
of the prover's reach, and TLC has found them equal to `ENABLED` of the fair
step groups in every state of the run. The property needs two more invariants.
`HolderInv`: whoever has `sendMu` is at a step that uses the connection, and so
can go on or is playing; whoever waits for `Close` found it begun; and `Close`
leaves no file. `HandedOverInv`: whoever gives up an open session leaves it to
somebody, to the goroutine of `Detach` if the entry is gone or to the `/dterm`
that emptied the queue. The argument then goes backwards from a state in which
nobody can move: `sendMu` is free or the worker is sending; so the body of
`Close`, if it has begun, is done, and nobody waits for it; if it has not begun,
the worker is parked on an empty queue or gone, and `HandedOverInv` names
somebody who can still move.

**`SessionRefinement`** proves that `SafetySpec` implements `PlaybackQueue` and
`SessionLife`. `PlaybackQueue` needs no more than `Inv`: the one case that is
not obvious is a request that `StartCurrent` refuses, which by
`CurrentIsWorkers` happens only on a closed session, where the abstract player
forgets it. The start of a `/dterm` is `Terminate`, its `ClearQueue` is `Clear`.
For `SessionLife`, the phases of `Close` map to its stages, and the
steps of the worker between two tracks to one of its positions; that the worker
is out of the connection when it is closed is `ConnSafe`, and that it returns
from its `Destroy` only when the session has left the map is `PhaseInv`.

**`SessionManagerProofs`**: `Inv` adds `OwnerInv` (a call owns the session it
created and no other; a worker exists after its call was accepted; a `/dterm`
that clears has a session), `VictimInv` (whoever is not in `Close` holds no
session to close) to the safety properties. The argument of `SomeoneEndsIt`:
the entry changes only through `Create`, which finds it empty, so that no open
session loses it; through `Detach`, which hands the session to the cleanup
goroutine; and through `remove`, whose session is past being open and which
leaves the entry of another one alone. A worker or a creator gives up its
session only to a `Destroy`, which finds the entry as long as the session is
open. `GuildFreedInTurn` is an action property that follows from `Inv` and the
case analysis of `Next`. A further invariant, `CloserInv`, says that a session
that is being closed was created, and that a worker in `Close` is in that of its
own session unless that one has lost the entry. By it a worker's `Destroy`, even
when it closes another session, returns only when its own one has left the map,
which is what `ImplementsLives` needs. `StrayInv` says the same of every
goroutine that destroys for a session of its own: if it closes another one, its
own had lost the entry. It stays so, for an entry is given only to a session
that is being created. An open session without the entry has somebody in its
`Close` (`SomeoneEndsIt`), and that is `DestroysOwnFirst`.
`RestsOnlyWhilePlaying` of the guild
follows from `CloserInv`, `SomeoneEndsIt` and `NobodyParksForGood`: when nobody
can move, each session is open or gone, so that whoever is in `Close` could
return, and whoever has an open session is playing.

**`VoiceRecoveryProofs`**: each recovery has timers that name it, and at most
one of them is armed or firing and not replaced; `pending` is the recovery whose
entry is in the map. The auxiliary invariant says which timer each pending
recovery owns, that a decided timer's recovery has left the map, and what the
two-step cancellations have taken over. With it the timers implement
`Recovery`: a recovery is given up when its timer takes the entry, and has yet
to fall back until that timer is done. A timer that fires late decides nothing,
which is a stutter.

**`RecoverableGatewayProofs`**: the types, `TerminatedIsReplaced` and
`NoStrayGateway` hold for any number of openers: a gateway is closed in the step
that replaces it, and opened later only by a `Dial` that was overtaken. With one
opener nothing is ever overtaken (`NothingOvertaken`). `RecoveriesAreAbstract` is
the other half of the composition: a close callback is `Start` or `Refuse` of
`Recovery`, and the gateway takes no step with a recovery that `Recovery` lacks.

**`AudioPipelineProofs`** proves every invariant of `MCAudioPipeline`, for a
track of any length and pipes of any positive size. The properties speak of the
end of a track only; `Inv` says what leads there:

- `CountInv`: the chunks in the pipes, in the hands of the pump and the worker,
  and sent, are no more than were made, and all of them while nothing has gone
  wrong;
- `StartInv`: which processes and goroutines exist at each step of the worker;
- `OnceInv`, `ClosedInv`: who runs `closeAll`, how far it is, and so which pipes
  are closed and which processes reaped;
- `ResultInv`: a result is there when the worker has stopped sending, and a
  cancelled context makes no error;
- `FailureInv`: where the error of a failed process is on its way to the result;
- `WholeInv`: an end of input that ffmpeg or the pump sees is the real one: it
  is seen only after the source has written everything, or has failed.

`TrackIsWhole` follows: when the worker reads the end of the stream and both
processes ended well, no chunk is in between, so that all of them were sent.
`ProcessEnds` is shared by the four ways in which a process ends.

`NoCircularWait` is the safety half of `StreamCloses` and `LeakIsBounded`: as
long as the worker is at work somebody can go on without a failure or a kill,
and after it a process at least can be killed with its context. As above, what
"can go on" means is written out and was compared with `ENABLED` by TLC. It
needs `BehindInv`: the worker waits for the pump and for ffmpeg only when it has
closed the pipe they write to. The proof takes whoever runs `closeAll`, then
the pump, then the worker, and follows each wait along the pipes: a reader waits
for an empty pipe, a writer for a full one, and a pipe is not both.

**`PCMStreamProofs`**: `Inv` says where in the track the sender is (`PlaceOK`),
that the reused buffer holds what was read of this frame and silence, nothing
of the frame before it (`BufferOK`), and that the volume of this moment is one
that was in force during the frame (`HeardOK`). `FramesCorrect` follows for
frames of any size and every track. `ScaledIsAsLoud` is about the samples alone:
with a half rounded either way, a scaled sample is within half a unit of its
volume's share and a 16-bit number again. The ends of the ranges have names
(`MinInt16`, `MaxByte`), which keep large numerals out of the arithmetic steps.

**`ResolverProofs`**: `Inv` adds the world that does not change (`WorldOK`),
what the probe showed and where it led (`PathOK`), and where the file is at each
step (`FileOK`), for any limit.

Some theorems have no run of their own. TLC has checked their formulas on the
instances of section 4, but the runs have a stronger property, or one that shows
more, in their place:

| Theorem | States |
| --- | --- |
| `SessionProofs!NoWakeupIsLost`, `CurrentIsBeingPlayed` | `NoLostWakeup`: a worker that waits has nothing to take; `CurrentIsWorkers` |
| `SessionRefinement!ImplementsTheLife` | `Session` implements `SessionLife` |
| `SessionManagerProofs!NoParkedWorker`, `RegisteredSessionIsAlive` | `NobodyParksForGood`; `EntryIsAlive`: no session is handed out after its `Close` is over |
| `SessionManagerProofs!ManagerTypeCorrect` | the types |
| `VoiceRecoveryProofs!FallsBackOnce`, `PendingIsTimed` | `AtMostOneFallback`, `PendingHasTimer` |
| `RecoverableGatewayProofs!RecoveriesAreAbstract` | its recoveries take only the steps of `Recovery` |
| `AudioPipelineProofs!NoCircularWait` | `NobodyWaitsInACircle` |
| `ResolverProofs!ResolverTypeCorrect` | the types |

Only model-checked: everything about liveness (fairness and `ENABLED` are out
of the prover's reach), and the findings, which are counterexamples.

## 6. Not modelled

`/dqueue` reads `Current` and `SnapshotQueue` in two critical sections and
changes nothing; its answer is not modelled. Command registration, configuration
and the start-up of main are straight-line code without state. Discord,
`disgo`'s voice connection and gateways, HTTP, `ffmpeg`, `yt-dlp` and the opus
encoder are external: they answer, succeed or fail. Titles, file names, headers
and the texts of messages are left out; a response looks direct or it does not.
That a pending recovery mutes the keepalive is left out of `Session`. The
program keeps nothing across a restart, so there is no crash recovery to model.
