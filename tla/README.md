# Verification of palmtop

palmtop streams a laptop's screen to a phone and sends the phone's touches back
as keyboard and mouse input. This directory holds TLA+ specifications of it,
translated from the source, the TLC configurations that check them on small
instances, and proofs of the most important facts for instances of any size.

    tlc -workers 2 -config StreamSession_safety.cfg StreamSession
    tlapm StreamSessionProofs.tla

Paths below are relative to the repository. `PROJECT.json` names, for every
definition that models code, the lines it stands for, and lists the components,
runs, mutants, findings, hazards and theorems.

## 1. The system

### Host (`crates/palmtopd`, Rust)

| Component | State | Operations | Hard behaviour | What makes it correct |
|---|---|---|---|---|
| Accept loop and session registry (`session.rs`: `run`, `ActiveSession`, `ReleaseOnDrop`) | one slot for the registered session: its stop flag and a clone of its socket | accept, authenticate, take over, release | a displaced session unwinds after its successor registered; threads parked in reads without a timeout; phones that vanish | the newest paired client holds the screen; everyone else that still runs has been told to stop and is freed; nobody unpaired disturbs |
| Streaming session (`session.rs`: `handle_client`) | encoder stage, stop flags, the `Outgoing` queue, a channel of requested modes | start, announce, switch mode, tear down | eight threads, joins in a fixed order, an early return in the middle of a switch | frames and announcements in order; every stopped session ends |
| Capture (`capture.rs`, `platform/*/capture.rs`) | `FrameSlot`: the newest frame | publish, take | the stop flag against a frame that is ready | at most one frame waits |
| Encoder stage (`encode.rs`) | ffmpeg, `TimestampFifo`, `AnnexBSplitter`, `LatestEncoded` | feed, split, publish, clear, take | ffmpeg dies, blocks or restarts; positional pairing of times and frames | output of one encoder is never mixed with that of another; no queue grows |
| Modes (`modes.rs`) | none | preset, clamp to the device | odd and zero sizes | a preset the device can decode |
| Input injection (`platform/*/input.rs`) | the virtual devices, for the daemon's life; what is down on them | inject | keys that stay down when a session ends; a mask on one platform, none on the other | the laptop holds what the phone shows as held |
| Start-up (`main.rs`), configuration (`palmtop-config`), pairing (`pairing.rs`), doctor | `host.toml`, the advertised address | load, create secrets, select and pin an encoder, diagnose, watch the address | partial writes, processes side by side, hardware that appears and goes | one identity; an encoder that works; a diagnosis that is true |
| Protocol (`palmtop-proto`) | Noise nonces, the reassembly buffer | handshake, chunk, encrypt, reassemble, parse | a shared lock, ends of stream inside a message, two implementations of one layout | what is received is what was sent, in order |

### Client (`android/app`, Java)

`MainActivity` runs a network thread, a writer thread with an outbox, codec
callbacks and the UI thread; `ConnectionState`, `ModifierLatch`, `CursorDriver`,
`LatencyTracker`, `DeviceStore` and the geometry classes keep smaller states.
Its hard behaviours are reconnections whose old threads are still running,
input permits of a codec that is being replaced, and what is in the outbox when
the connection is torn down.

### How the parts interact

`run` spawns one thread per connection. After the Noise handshake and the token
check it registers its session under a mutex, which stops the previous session
and shuts its socket. It then asks the user, through the desktop portal, for the
screen, and starts capture, the encoder stage, the writer, the watchdog and the
reader. Frames pass through mailboxes of one place (`FrameSlot`,
`LatestEncoded`); everything else for the phone passes through the `Outgoing`
queue, because only the writer may write to the socket. The reader sets the
session's stop flag when it ends. A mode change stops and joins the encoder
stage, starts another and announces it with a `VideoConfig`. Input goes from
every reader into the one injector of the daemon.

## 2. What is modelled

### `StreamSession`

One session from the portal dialog to the end of `handle_client`. Each thread has
a program counter with the points where it can be interleaved: `main`
(`handle_client`), `cap`, `feeder`, `ffmpeg` (external), `encReader`, `writer`,
`netReader` and `watchdog`. `stop` and `stageStop` are the two flags; `slot`,
`latest` and `out` are `FrameSlot`, `LatestEncoded` and the `Outgoing` queue;
`pipe` is what ffmpeg and its two pipes hold.

A frame or a `VideoConfig` is reduced to its *generation*, the number of the
encoder stage that made it, because every property of the data path is about
which encoder a picture belongs to. `announced` and `shown` are the generations of
the last config and the last frame on the wire. Two subtleties of the code are
kept: `take_latest_blocking` looks at the slot before the flag, and an access
unit is complete only when the next begins, so that ffmpeg's last unit is lost.

The early returns are actions of their own, with what they leave running:
`PortalRefused`, `FirstStageFails` (capture runs on), `SocketCloneFails` (capture
and the encoder run on; `main = "orphaned"`) and `StageRestartFails` (reader,
writer and capture run on). The constant `Faults` says which failures may happen.
Input events leave no trace here; a `SetMode` increments `requested`.
Statuses that `main` writes itself before the writer exists change nothing,
whether they arrive or not, and are left out.

### `SessionRegistry` and `ScreenHolder`

`SessionRegistry` is the accept loop and the registry with any set of
connections, each going through the phases of `handle_client`. `Register` is
the code's critical section: stop flag, shutdown of the socket, new entry. A
session is reduced to one reader and one capture thread; what else it does is
the matter of `StreamSession`, whose `TakenOver` and `Registered` are the other
side of `StopPrevious` and `Release`.

`ScreenHolder` is the promise in three actions: a newcomer takes the screen from
whoever holds it and that session is told; a newcomer may fail while doing so;
only the holder gives the screen up by finishing. The mapping is
`holder <- active`, `inside <-` the sessions holding a `ReleaseOnDrop`, and
`told <-` those of them that are stopped and not registered.

### `ClientDecoder`

One connected session of `MainActivity` as its decoder sees it: the network
thread (`net`: `feedDecoder`, and the rebuild of `handleVideoConfigChange`), the
UI thread (`ui`: the surface callbacks) and the callback thread of every codec.
They share `codec`, `availableInputs` (`offered`) and `inFlight` (`permits`)
without a lock, so `releaseCodec` and `configureCodec` are modelled statement by
statement, for either thread.

A codec is a number and an input buffer the number of the codec that offered it:
what matters of a buffer is whether it still belongs to the decoder in use.
MediaCodec itself is external: `configure` fails on a destroyed surface and on one
that another codec uses, a buffer comes back with its output, and an index the
codec does not know throws. A codec starts from a keyframe only: frames it is fed
before the first one are never output and keep their permits (`Fed`: `primed`,
`dead`), as the comment on `handleVideoFrame` describes. `late` says whether a
callback may still be running after its codec was stopped, which Android does not
specify. A frame that is skipped (`!keyframe`, and more in the socket behind it)
changes nothing of this state, so the model simply does not take it; keyframes are
never skipped. The release in `teardown` and reconnections are left out.

### `NoiseLink` and `MessageQueue`

The encrypted connection in both directions at once: the two handshake messages,
`Hello` and `HelloAck`, then messages of either end, cut into chunks, encrypted,
written frame by frame, read, decrypted and put together. A chunk is the stretch
of a message it carries and the nonce it was encrypted with: decryption succeeds
if and only if that nonce is due, which is all the Noise state contributes. The
sizes of chunks, of the length field and of the tag are kept, because the
arithmetic of `chunk_and_encrypt` and `Reassembler::push` depends on them.

Each end has the reader and the writer of the session; they share the Noise
state, which the reader has under its lock only while it decrypts
(`recv_encrypted`). The host may refuse a client and then closes the connection;
`Cut` breaks it anywhere, inside a frame as well. `ReadTimesOut` is a client that
calls `recv` again after a timeout, as the test client does; it belongs to
`RetrySpec` only.

`MessageQueue` is what the ends rely on: send, deliver the next message whole,
close. `sent`, `received` and `link` map to themselves, a cut counting as a close.

### `WireFormat`, `QualityModes` and `Negotiation`

`WireFormat` has the layout of each message as its writer writes it and as its
reader reads it, in Rust and in Java; `Encode` and `Decode` are one definition for
both, since both ends write big-endian fields one after the other. A byte is a
place in a value of a type. A field that is read as something else than was
written therefore shows, and a message with such a field counts as refused. Of
what the Rust end can write or read, the half that only the test client uses is
left out.

`QualityModes` is `modes.rs` and the arguments of ffmpeg that size and rate depend
on. `clamped_to` multiplies in `f64`: a product that is a whole number may come out
just below it and be truncated, and both results are allowed.

`Negotiation` composes them: a phone says in its `Hello` what it can decode, the
host clamps, starts, announces; the user picks modes at any time, the connection
is lost and made again. Every message crosses as its bytes. A mode picked in the
moment between the comparison of `applyInitialVideoConfig` and `connected = true`
is neither re-asserted nor sent; `missed` marks it.

### `HostConfig` and `HostStart`

`HostConfig` is `host.toml` as lines and what `palmtop-config` does with them: what
the toml crate reads, the lines `load` appends, `rewrite_codec`, and the choice of
an encoder from what the probes find.

`HostStart` runs the daemon and its commands against one such file, each with the
steps of `main`: load, truncate, write, then what it was started for. A process may
be killed between any two of them; hardware and address change. `identity`
remembers the secrets of the first completed load, `damaged` a kill between
truncating and writing, `verdict`, `offered` and `expected` what the user was told.
`Exclusive` says that processes start one after the other.

### `EncoderOutput`

The way of a frame through the stage: `FrameSlot`, the feeder with its push to
`TimestampFifo` and its write, ffmpeg, reads that end anywhere in the output,
`AnnexBSplitter`, the stamp, `LatestEncoded`, the writer. An access unit is a
sequence of NAL units (parameter sets before the slices of a keyframe, slices alone
otherwise), each a start code, a type and a rest; that a read may end between any
two of these is what makes the splitter hard. `Slices` is how many slices ffmpeg
makes of a picture: one with the hardware encoders, one for each thread with libx264
tuned for zero latency. The splitter is a recursive function over the places it has
scanned (`Scanned`): the units cut out so far, where the next begins, and where the
last start code was.

### `RemoteInput`

The user latches modifiers, holds buttons and types; `MainActivity` queues the
events, a writer thread encrypts and sends them, the host's reader injects them. The
threads of a connection carry its generation, but `outbox`, `noise`, `socket` and
`connected` are fields of the activity, and each access to them is a step. Of the
steps of `runNetwork` (publish the socket and connect, handshake, `Hello`, first
`VideoConfig`, open, end) only the start of the writer, the loop and the reset of
`connected` look at the generation: an older thread that is still on its way
overwrites the fields of the newer connection, and does so in the model. What it does
with the Noise state of a newer connection spoils that connection, and the host ends
a session at a frame it cannot decrypt. On Linux the mask of a key event becomes the
modifiers of the virtual keyboard; on Windows it is ignored and the modifiers are the
keys that are down. The last connection of a run (`MaxGen`) is not torn down, and
neither is the activity destroyed. Pings, pointer motion, scrolling and presses of
direct touch are left out.

## 3. What is checked

Every property of a passing run has a mutant in `PROJECT.json`: a plausible bug
in one mapped definition that makes TLC refute the property under the same
configuration. The mutants stand beside the definition they vary, marked
`Mutant`.

| Run | Bounds | Shows |
|---|---|---|
| `stream_safety` | two encoder generations, a pipe of two, one ping waiting, all failures | types; no frame follows the config of a newer encoder (`NoStaleFrame`); the last config is that of the running encoder (`AnnouncementsKeepUp`) |
| `stream_live` | the same without pings; the phone vanishes or the restart fails | a stopped session ends with all its threads (`StopEndsEveryThread`); a stream without a picture is reported (`SilenceIsReported`); mode changes complete (`ModeChangesComplete`) |
| `registry` | three connections, two of them paired, all failures | the registry implements `ScreenHolder` (`OneHolder`); unstopped means registered (`RegistryIsCurrent`); only paired clients disturb (`OnlyThePairedDisturb`); stopped sessions end (`StoppedSessionsUnwind`); vanished phones release the screen (`VanishedPhoneReleases`) |
| `client_decoder` | one surface recreation, one change of dimensions, two buffers | a surface recreation alone does not end the session (`SurfaceIsHarmless`); no permit is lost (`NeverStalls`); the network thread is never stuck in the decoder (`NetworkGoesOn`); frames are shown again on the new surface, if no decoder is fed another frame before a keyframe (`PictureReturns`) |
| `noise_link` | chunks of 5 bytes, messages of 1 and 2, three messages each way, one frame under way | the link implements `MessageQueue` (`Implements`); only a cut makes an error (`OnlyACutIsAnError`); neither direction blocks the other (`EverythingArrives`); a refused client learns why (`RefusalIsHeard`) |
| `host_start` | four files, three sets of encoders, two addresses, three processes, one change | the secrets survive (`PersistForever`); a pinned encoder is used (`PinIsHonoured`); the doctor is right (`DoctorPredicts`); the pairing info follows the address (`PairingInfoFollows`) |
| `encoder` | four frames in two groups, two stamps, any read of the pipe | whole access units, correctly labelled (`WholeFrames`), with the capture time of their own frame (`StampsAreTrue`); none sent twice or behind a newer one (`OnlyNewPictures`); only the newest picture may wait (`NewPicturesAreSent`) |
| `input` | one latch, one button, two events, two connections, either platform | the laptop holds what the phone shows (`FirstSessionAgrees`); nothing typed for one connection is injected by another (`NothingCrossesOver`); a letter typed for the newest connection goes down and up on the laptop while the session lasts, once no older writer runs (`InputArrives`) |
| `negotiation` | five phones, three protocol versions, two choices, two connections | both ends read what was meant (`HeardAsSaid`); the stream fits the phone (`FitsTheDevice`); the picker shows what is streamed (`PickerTellsTheTruth`) |
| `stream_overtake` | as `stream_safety`, no failures | *violated*: a frame of the new encoder precedes its config (`FramesMatchConfig`) |
| `registry_zombie` | two paired connections | *violated*: after a failed restart two clients are served at once (`OneClientAtATime`) |
| `input_stuck` | one latch, one event, two connections | *violated*: Super, latched, stays down when the connection drops (`NoModifierStuck`) |

### Bounds, and why they are enough

`MaxGen = 2` of `StreamSession` lets one mode change happen at any point of the
session; the state after a change is that of a first stage except for what the old
stage left behind, which is what the properties compare. `Depth = 2` is the
smallest pipe in which a unit is complete while another is begun, and in which a
feeder can block. `MaxOut` limits only pings, which are otherwise unbounded; configs
and statuses always fit. Three connections let a session be displaced while it
displaces another, with an unpaired one throughout; sessions interact only through
the registry's one slot. The safety results of `StreamSession` and of
`SessionRegistry` are proved for every value of the constants.

In `ClientDecoder` one recreation and one change of dimensions bring the two
threads into `releaseCodec` and `configureCodec` at the same time, which is all they
can do to each other; two buffers are the least with which a second frame can be
in the decoder. `MaxCodec` is the number of codecs these need. Nothing in the code
bounds the permits of the semaphore, so `TypeOK` does not either; a callback that
outlives its codec adds one. The invariants are proved for every value of the
constants.

In `NoiseLink` a chunk of 5 bytes holds the length field and one byte more, so that
messages of 1 and 2 bytes fill one chunk exactly and need a second one; with three
messages each way the greeting is followed by two that may cross. A window of one
frame is where two full directions could keep each other waiting. Safety and the
refinement are proved for all values.

In `HostStart` the files are the shapes `load` and `rewrite_codec` tell apart; three
processes are a first run, a command and a restart, and one change of the world may
fall between any two of their steps. In `EncoderOutput` four frames are two groups
of pictures; `FifoBound = 2`, for the 8 of the code, lets the queue of stamps
overflow with as few; `Slices = 1` is an encoder for which the claims hold. Its invariants
are proved for all frames and sizes. In `RemoteInput` two connections are an old and a new one, and two
events are a key held and a letter typed, or one event on either side of the
reconnection. The invariants of `HostStart` and of `RemoteInput` are proved for every
value of the constants. In `Negotiation` the phones are one that reports nothing, one like
the fallback profile, one whose scaled width falls short in `f64`, one with odd and
tight limits and one beyond every preset; two choices can be under way at once.

### Fairness

Weak fairness of each thread: the operating system schedules it, its timed waits
expire, a read on a closed socket returns. Keepalive closes a silent connection
(`configure_socket`), and ffmpeg exits when its standard input closes. No
fairness is assumed of the user at the portal, of the client, of new frames or of
failures. `ModeChangesComplete` has the hypothesis `EncoderKeepsUp`: the feeder
keeps coming back to an empty `FrameSlot` and then acts on its flag. Without it
the property fails (`StreamSession_busy.cfg`, section 4). In `ClientDecoder` a
destroyed surface comes back and the host goes on sending frames, of which
infinitely many reach `feedDecoder`: keyframes always do, and the encoder makes one
at regular intervals (`-g`). `NeverStalls` and `PictureReturns` exclude late callbacks
and changes of dimensions, with which they fail, and `PictureReturns` a decoder that
is fed another frame before its first keyframe, which keeps the only permit for ever
(`ClientDecoder_frozen.cfg`, section 4).

`NoiseLink` assumes that each end goes on sending until `MaxSent`: a session has
pings, pongs and frames all the time. Nothing is assumed of `CloseRefused` and
`Cut`. `EncoderOutput` is fair to the feeder, ffmpeg, the reader and the writer but
not to capture; `RemoteInput` to the threads of both ends and to the second half of
a teardown but not to the user or the network; `HostStart` only to the thread that
watches the address.

A send blocks while its peer is silent, until the connection is closed. TCP does
not probe while data is unacknowledged; retransmission then gives up instead,
later than keepalive would. Time is not modelled, so both are `KeepaliveExpires`.

## 4. Findings

Three runs show the code doing something else than it or its documentation says:

1. **A frame can precede its config** (`session.rs:542`, `stream_overtake`). The
   restarted encoder publishes into the mailbox before the config is queued. The
   client may receive a frame of the new size while it decodes for the old one, and
   the `clear()` that goes with the config may then discard the new stream's IDR.
2. **A failed restart leaves a session nobody can stop** (`session.rs:542`,
   `registry_zombie`): its reader goes on injecting input, unregistered, beside the
   next client.
3. **A latched modifier stays down** (`MainActivity.java:1588`, `input_stuck`).
   `README.md:206` promises that latched modifiers are released if the connection
   drops, "so your laptop can never be left with a stuck Super key". In the run's trace
   Super is latched while the connection opens, its press is sent and injected, the
   network fails, the host's session and the network thread end, and Super stays down
   for ever while the phone still shows it latched: the end of `runNetwork` touches no
   latch, and the host releases nothing when a session ends. Reconnecting does not
   mend it. `teardown` enqueues releases only while `connected`, and even then clears
   the outbox and closes the socket before the writer can have sent them.

Further configurations, which are not among the runs of `PROJECT.json`, are refuted
by TLC and show limits of what was said above:

| Configuration | Refutes | Because |
|---|---|---|
| `StreamSession_busy.cfg` | `FeederHeedsStop` | a feeder that always finds a frame does not look at its stop flag (`capture.rs:86`); the mode change that would relieve it waits in a join |
| `ClientDecoder_permit.cfg` | `OneInFlight` | `releaseCodec` refills the semaphore while the network thread holds a permit (`MainActivity.java:1626`): two frames are in flight and `queuedAtUs` belongs to the wrong one |
| `ClientDecoder_surface.cfg` | `SessionUp` | the surface holder is never null once there was one, so a `VideoConfig` of another size during a recreation ends the session (`MainActivity.java:1885`) |
| `ClientDecoder_frozen.cfg` | `PictureComesBack` | `surfaceCreated` rebinds the decoder in mid-stream and nobody requests a keyframe (`MainActivity.java:851`). Unless the next frame happens to be one, the new decoder takes it and never outputs it; the only permit is gone, every later frame is dropped as "decoder saturated", keyframes too, and the picture stays frozen, as `MainActivity.java:2052-2060` describes of a skipped keyframe |
| `RemoteInput_windows.cfg` | `ModifiersAreDown` | the Shift of a capital letter travels only in the mask of its events (`MainActivity.java:1805`), which the Windows injector ignores (`windows/input.rs:94`): the letter comes out small. On Linux the mask stays in force until the next key, so that a click after a capital letter is a Shift-click; hence the exception in `FirstSessionAgrees` |
| `EncoderOutput_keyframe.cfg` | `KeyframesAreSent` | `LatestEncoded` replaces a keyframe that was not taken in time like any other frame (`encode.rs:327`); the client waits for the next |
| `EncoderOutput_slices.cfg` | `WholeFrames` | the splitter ends an access unit behind every slice (`encode.rs:406`). `-tune zerolatency` (`encode.rs:255`) makes x264 encode in sliced threads, a slice for each, which is x264's doing and not to be seen in this repository. With the Software encoder every slice is then a unit of its own, takes a capture time from the queue, and may be replaced in `LatestEncoded` by another part of its picture |
| `NoiseLink_timeout.cfg` (`RetrySpec`) | `TimeoutIsHarmless` | `recv` that is called again after a timeout has lost the chunks, or the part of a frame, it had read (`noise.rs:137`). Of the clients here only the test client does so |
| `HostStart_race.cfg` | `PersistForever` | with two processes starting at once each generates secrets, or one reads the file the other has truncated (`palmtop-config/src/lib.rs:168`) |

## 5. What is proved

TLAPS checks these for every value of the constants allowed by the modules'
assumptions (`StreamAssumption`, `RegistryAssumption`, `DecoderAssumption`,
`LinkAssumption`, `InputAssumption`, `StartAssumption`, `NegotiationAssumption`,
`EncoderAssumption`), which the runs evaluate.
Two of these say more than types:

- `InputAssumption`: buttons, modifiers, the letter and the mode switch are different
  codes (`linux/input.rs` tells them apart by code).
- `StartAssumption`: every secret that is generated is new and not blank, and the
  initial files consist of lines the toml crate tells apart. An initial file that
  parses and lacks a secret is `Appendable`: `[pairing]` is its last section (a
  comment in `load` relies on it, `palmtop-config/src/lib.rs:116`) and the key that
  is missing is not there with a blank value. An initial file that does not parse may
  look like anything.

`StreamSessionProofs`. The invariant is `IInv`. `NoStaleFrame` is not inductive:
that the writer holds no old frame depends on the mailbox holding none, which
depends on the new config not having been sent before the mailbox was cleared,
and on the pipes holding units of the running encoder only, which depends on the
joins. `IInv` adds `JoinedMeansDrained` (a reader that has ended has emptied the
pipes), `StageStartsClean` (what is in them was made by the running encoder
alone), `NothingFromTheFuture` (no generation exceeds `gen`), `MailboxIsFresh`
and `WriterIsFresh`. Steps that touch no data are dismissed
together (`DataUnchanged`); the others have a lemma each. From `Invariance` follow
`TypeCorrect`, `NoStaleFrames`, `CleanStart` and `GenerationsAdvance`.
`AnnouncementsNeverLag` (`AnnouncementsKeepUp`) needs `AnnounceInv` on top: at most
one message is in the writer's hand (`OneInHand`), and the configs in the hand and in
the queue come in the order of their encoders, none before the one announced last
(`ConfigsInOrder`).

`SessionRegistryProofs`. `IInv` adds `Outset` to the checked invariants: before
it registers a connection is not stopped, and one that is stopped before its
reader starts has its socket shut already. From it follow `TypeCorrect`,
`RegistryStaysCurrent`, `ReadersAreFreed`, the action property `Undisturbed`, and
`Implements`: that the registry implements `ScreenHolder`. Its steps are a `Take`,
a `TakeInVain`, a `Finish` or a stutter; that a reader's end is a stutter needs
`RegistryIsCurrent`. `OneUntold` uses the refinement: that all running sessions but
the holder have been told to leave is proved of `ScreenHolder` (`HolderIsAlone`) and
then holds of the registry.

`ClientDecoderProofs` proves `SurfaceStaysHarmless`. `configure` must find a codec
that was just made and a surface no codec is bound to. The invariant therefore says
that while the first config stays in force the network thread never builds
(`NetworkOnlyFeeds`), that the UI thread builds only with a surface
(`ReadyToStart`), and that every started codec is bound to an earlier surface from
the moment the present one goes until the new codec has started
(`SurfaceIsFree`). A callback that outlives its codec changes none of this.

It further proves `TypeCorrect`, for which no codec may have more buffers about than
it owns (`BuffersKept`), and `PermitsReturn` (`NeverStalls`). `NeverStalls` speaks of
a decoder at rest, and a permit is anywhere but in the semaphore most of the time:
`PermitThere` counts those in the semaphore, in the network thread's hand and inside
the codec, and says that they are one more than are about to be lost. One is
about to be lost while a used buffer of an old codec is still in the queue or in the
network thread's hand; that there is never more than one such buffer (`OneLost`)
depends on the state of the codec at every statement of the rebuild (`CodecState`,
`QueueState`). All of it holds as long as there was no late callback and no change of
dimensions, as `NeverStalls` has it.

`NoiseLinkProofs`. That a chunk decrypts (`OnlyACutIsAnError`) depends on the nonces
of everything under way, and that messages arrive whole (`InOrder`) on where each
chunk begins and ends. The invariant `Inv` therefore follows one direction from the
sender's list over the wire to the frame in the reader's hand: the nonces count on
from the one that is due (`Places`); a chunk with the due nonce goes on where the
reassembler stands, and one with the next nonce where the one before it ends
(`Chain`); before both ends are through the handshake there is nothing but its
messages (`Setup`); errors come from a cut (`Faults`). `ChunksFit` is the arithmetic of
`chunk_and_encrypt`. From `Invariance` follow `TypeCorrect`, `Unbroken`, `Delivers`
(what arrives is a prefix of what was sent) and `Refines`: the link implements
`MessageQueue`.

`RemoteInputProofs`. `InputStaysWithItsSession` (`NothingCrossesOver`): an old writer may
take what was typed for the newest connection out of the outbox, and its own socket
may even be open still, if a still older thread had overwritten the field that
`teardown` closes. But it never again encrypts with the state of its own connection,
and the host refuses any other: a writer is started only while its connection is the
newest, and the teardown that ends this empties the field (`OldWriters`). `Own` says
whose events the outbox, the newest writer's hand and the wire hold.
`LaptopHoldsWhatThePhoneShows` (`FirstSessionAgrees`) speaks of a moment at which
nothing is under way. Its invariant therefore follows everything that is: `Pending`
is the sequence of events in the wire, in the writer's hand and in the outbox, and
`KeysSettle` says that the last of them about each key leaves it as the phone shows
it, or that the laptop has it so already when there is none; `MaskSettles` says the
same of the mask on Linux. `CarriedType` and the lemmas around it say what
appending, sending and injecting do to such a sequence.

`HostStartProofs` begins with `HostConfig` alone, for texts of any length:
`CompletingIsExact` (what `load` appends makes a file parse to the configuration it
returns, and changes nothing else of it) and `RewritingIsExact` (`rewrite_codec`
changes the codec and nothing else, and does not repair a file that does not
parse). They rest on lemmas about where the first and the last of the lines with a
key are after an append, a replacement and an insertion. The second half has the
invariant `IInv` of `HostStart`: what a file is like depends on whether it is
damaged and on whether a load was completed (`Fits`: ruined; unparsable or fit to be
completed; with the secrets of `identity`), and so does the text that a process is
about to write (`Completing`, `Setting`); what the user was told is true of the
file (`Told`); and a configuration in memory is the one in the file (`OfFile`).
`SecretsPersist`, `PinHolds` and `HealthyStarts` (the action property
`DoctorPredicts`) follow. They have the hypothesis `Exclusive`, processes that start
one after the other, under which the run checks them as well; without it
`HostStart_race.cfg` refutes `PersistForever`.

`NegotiationProofs` has three parts, for any set of phones (`Devices`), any laptop
screen (`Source`) and any number of choices and connections.

- The wire. `Understood`: what `Encode` writes of a message `Decode` reads back,
  whatever its values, if both ends have one layout for it that names each field
  once and has nothing behind the rest of the message. Both are recursive functions
  over the fields of a layout. That they have a value, and what it is, is shown by
  the least counterexample among the numbers of fields (`Induction`). That the
  layouts of Rust and Java agree is then a lemma for each message.
- The presets. Clamping only ever reduces (`OnlyReduces`) and leaves the time between
  keyframes as it was to within one frame (`KeyframesKeepTime`), of every preset and
  profile; the run has the four presets and its phones, and the sharper bounds that
  hold for those.
- The two ends. The invariant is `IInv`, which TLC checked on the run's instance
  before it was proved. `Kept`: what is on a wire is a message that end can send.
  `Hosts`: while the host starts or streams, the profile it keeps is that of this
  phone, and its preset is a clamping of `mode` for it. `Greets` and `Waits`: before
  the first announcement is read the contents of both wires are known exactly.
  `Agrees`: afterwards a choice is on its way, or an announcement is, or the
  picker shows the mode, or the choice was `missed`; and the last announcement on
  the way is that of the current stream, or there is none and the phone has
  described it to itself already. `TypeCorrect`, `Understanding` (`HeardAsSaid`),
  `StreamFits` (`FitsTheDevice`) and `PickerIsRight` (`PickerTellsTheTruth`)
  follow.

`EncoderOutputProofs` has two parts, for any number of frames and any sizes of the
queues and pipes.

- The splitter. That `Scanned` has a value, and what the next place makes of it, is
  shown as for the layouts (`ScannedIs`). `IsStream` says that a sequence consists of
  whole pictures, and where each ends. `ScanStream` follows the scan over such a
  sequence, place by place (`Reached`), and `SplitStream` concludes: of any beginning of
  it the splitter gives out the pictures behind which another has begun and holds
  back the rest. Growing at one end, being cut anywhere and losing its first picture
  leave a stream of pictures (`StreamGrows`, `ReadStream`, `StreamDrops`).
- The stage. The invariant is `IInv`. `Types` is what the variables hold. `InOrder`
  says that there are pictures `ps` that have been encoded and not published, such
  that `ready` holds the first of them and `buf` with `stdout` is a stream of the others
  (`Carried`); that the frames of `ps`, those inside ffmpeg and the one being written are a
  `line` (`InLine`) in the order of capture, older than anything that is still to come
  (`Ordered`) and newer than what was published and shown (`Sent`); and that the queue of
  stamps is the end of that line, and all of it unless it was cleared (`Stamped`). TLC
  checked these on the run's instance before they were proved.

`TypeCorrect` holds for any number of slices. `WholeUnits` (`WholeFrames`),
`StampsMatch` (`StampsAreTrue`) and `NewestLast` (`OnlyNewPictures`) have the hypothesis
`OneSlice`, which is that of the run; for two slices `EncoderOutput_slices.cfg`
refutes the first.

Only model-checked: the liveness properties, which the proof system does not reach.
Every invariant and every action property of the passing runs is proved.

## 6. What is not modelled

Pixels, bitstreams below NAL units, the ffmpeg arguments that neither size nor rate
depend on, statuses' wording, portal and PipeWire negotiation, the Windows capture
thread, panics, and an `accept` error (which ends the daemon). Cryptography beyond
nonces. Of the client: screens, gestures and zoom, the cursor and joystick drivers,
latency estimates, which depend on clocks; device store, discovery and QR scanning, which are Android services. The spikes, the test
client (except how it retries a read) and installation.

Time is abstracted: a timeout may expire at any moment. The relaxed ordering of the
stop flags is modelled as immediate visibility: they carry no data, and a late read
of one is the same as a late step of the thread. The same holds for the `volatile`
fields of `MainActivity`; for those that are not, a stale read is not modelled.

`RemoteInput` leaves out presses of direct touch, which are not remembered for a
teardown, and that the device list advances the generation before it tears down:
neither adds a state that a reconnection does not reach. The end of the activity
(`onDestroy`), a teardown after which no connection begins, is left out as well, and so
are pings, with which an older writer can spoil the newest connection's Noise state as
it can with an event.

## 7. Plan

1. `ClientDecoder`: the release at teardown, and which frames are skipped when the
   socket holds more.
2. `RemoteInput` composed with `SessionRegistry`: a retry while the user is at the
   portal.
3. The Windows capture thread, whose callback runs beside `run`.
