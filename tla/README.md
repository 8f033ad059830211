# Verification of rust_proxy

TLA+ models, TLC runs and TLAPS proofs for the proxy server in `src/src/`: two
servers (AnyTLS over TLS, Hysteria2 over QUIC) that authenticate clients and
relay their TCP streams and UDP packets to destinations. `PROJECT.json` holds the
machine-readable side: which definition models which lines, what every run
checks, which change of the model breaks each property, and the list of hazards.

## The system

| Part | Source | State it keeps | Operations | Module |
|---|---|---|---|---|
| AnyTLS server | `anytls/server.rs` | semaphore of connection permits, one task per connection | accept, TLS handshake with a timeout, peek prefix and hash, padding, fallback relay, session | `AnyTlsServer` |
| AnyTLS session | `anytls/session.rs`, `types.rs` | `streams` and `stream_tasks` maps, outgoing channel, settings, `is_closed`, writer and write buffer locks | `recv_loop`, `handle_frame`, `process_outgoing`, `write_control_frame`, `close`, `run`, one handler task per stream | `AnyTlsSession` |
| AnyTLS stream | `anytls/stream.rs` | data channel, `stream_closed`, `eof` | `poll_read`, `poll_write`, `poll_shutdown`, `Drop` | `AnyTlsSession`, `CopyBidirectional` |
| One direction of a relay | `copy_bidirectional.rs:17-157` | ring buffer, `read_done`, `need_flush` | `poll_copy` | `CopyBuffer`, which implements `ByteChannel` |
| Relay | `copy_bidirectional.rs:159-299` | a `TransferState` per direction | `poll`, `transfer_one_direction` | `CopyBidirectional` |
| Hysteria2 server | `hysteria2.rs`, `quic_stream.rs` | permits, connection tasks, stream tasks | accept, set-up, authentication with a timeout, three loops under `try_join!`, TCP streams | `Hysteria2Server` |
| Hysteria2 UDP | `hysteria2.rs:231-628` | session table, fragment caches, reply loops | read a datagram, create a session, reassemble, change address, send, clean up | `Hysteria2Udp` |
| Hysteria2 replies | `hysteria2.rs:290-396`, `792-811` | packet id | `run_udp_remote_to_local_loop`: one datagram or fragments | `Hysteria2Reply` |
| UDP over TCP, many destinations | `udp_relay.rs:296-462` | session table, receive tasks, response channel | `run_udp_routing`, `recv_loop` | `UdpRouting` |
| UDP over TCP, one destination | `udp_relay.rs:29-294` | a message and a `TransferState` per direction, timer | `run_udp_copy`, `poll_copy`, `poll` | `MessageCopy` |
| Message streams | `message_stream.rs` | `SlideBuffer`; read buffer and pending write | read a packet, read a message | `PacketAddrStream`, `VlessMessageStream` |
| Stream reader | `stream_reader.rs` | buffer with two offsets | peek, consume, read, hand over | `StreamReader` |
| Resolver | `resolver.rs` | LRU cache with a time to live | `resolve` | `Resolver` |
| Addresses | `address.rs` | none | `Address::from`, `NetLocation::from_str` | `Location` |
| Dialling, padding, configuration, start-up, TLS and sockets, traits, utilities | `dial.rs`, `padding.rs`, `config.rs`, `main.rs`, `tls_config.rs`, `socket_util.rs`, `async_stream.rs`, `util.rs` | none of their own | | outcomes only, see *Not modelled* |

How they interact: the AnyTLS server hands an authenticated connection to a
session, the session starts a handler per SYN, and the handler runs a relay (or a
UDP relay) between its stream and a destination. A UDP relay reads packets from a
`PacketAddrStream` and routes them, or messages from a `VlessMessageStream` and
copies them to one destination. The Hysteria2 server runs a TCP accept loop whose
streams are relays, and the UDP loop with a reply loop for each session, per
connection. Both servers read what a client sends first through a `StreamReader`
and ask one `Resolver`.

What is hard about it: the session has three kinds of tasks that share two maps,
two bounded channels and two locks, each of which can wait for the others; a
timeout can drop a half-finished write; `close` can be called by anybody; ids are
reused; datagrams are lost, repeated and reordered while a bounded cache evicts;
tasks are detached from the connection they belong to; and polled code must
register a waker for everything it waits for.

## The modules

**`AnyTlsSession`.** An action is what one task does between two points where it
can be suspended. `rcv` is the control state of `run` and `recv_loop`, `opc` that
of `process_outgoing`, `tpc[t]` that of handler `t`; `streams` and `handles` are
the two maps, `chan[t]` and `out` the bounded channels, `wst[a]` the progress of a
`write_frame` by actor `a` (waiting for the write buffer's lock, writing, idle),
`closer` who runs `close` and how far it got. `wire[t]` records the frames of a
stream on the connection; `cut` records that a frame was given up part way;
`lostFin` the FINs that `Drop` could not queue. A payload is the
position of its PSH frame, so order and gaps are visible. Left out: padding and
buffering in `write_frame` (never enabled on the server), the byte layout of
frames, time (a timeout may fire while what it guards is unfinished). An aborted
task is dropped where it is suspended; that it might first finish the poll it is
in is not modelled separately. A handler may run before it is registered.

**`CopyBuffer`, `ByteChannel`.** `poll_copy` loop by loop, one action per
`poll_read` or `poll_write` result, over a ring of `Size` slots; bytes are their
positions in the source. The task is polled only when a waker it registered
fires. `ByteChannel` is the abstract promise: take, give in order, finish when
empty. The cooperative budget and the ping are left out.

**`CopyBidirectional`.** `poll` over two directions, each used through what
`ByteChannel` promises (counts are enough once order is known). `kind` says
what the client's stream does after a shutdown or the loss of its connection: an
AnyTLS stream fails to read once it is shut down, a plain one does not. After
`Pending` the future waits until a peer has moved.

**`AnyTlsServer`, `Hysteria2Server`.** `permits` is the semaphore, `phase[c]` where
the task of a connection is. In `Hysteria2Server`, `loop` holds what the three
loops returned, `stream` the detached tasks of TCP streams; a relay that waits for
its destination alone (state `waiting`) is not woken by the loss of the client.
`UdpPanics` is the end of a connection's task in the middle of a datagram, see below.
A session that keeps tasks after `run` (see *Findings*) is the exception to
counting connections by permits.

**`Hysteria2Udp`.** `sessions` is the table, with a fragment cache in order of use
and the remembered address; `loops` the reply loops that were ever started, by
session and state. Any fragment of any packet may arrive at any time, and so may one
whose number is past its packet's count and a datagram that cannot be parsed. Two of
these are not ignored: a datagram that ends within its address length (`RecvCut`,
`hysteria2.rs:453`) and a fragment number that is no index (`FragmentOutOfRange`, 568)
panic. The connection's task is unwound past `cancel_token.cancel()` (116), so `conn`
is `unwound` and the reply loops go on. Time is counted in ticks.

**`Hysteria2Reply`.** One reply loop. It reads the size of a datagram once
(`ReplyStarts`); a packet whose header leaves no room in it fails the assertion
(`AssertFails`, 357-360). Each other packet takes the next id and becomes one
datagram or `div_ceil` fragments, both with their widths (the count modulo
`CountRange`, the id modulo `IdRange`). A send may fail after any fragment.

**`UdpRouting`.** `task` is where the routing task is between two awaits, with the
packet or answer it has in hand; `sessions` is the table, `sockets` the sockets and
receive tasks ever created, `responses` the unbounded channel. `fits` says whether
an address is of the family of the session's socket: a name may resolve to another
family later, and `send_to` then fails unnoticed. The session may abort the task at
any await.

**`MessageCopy`.** `poll` is where the one task is inside `CopyBidirectional::poll`,
step by step through `poll_copy` for both directions, with the locals of the loop;
`wakers` is what would wake it. `StartPoll` polls the timer, which leaves the task's
waker with it whether it was ready or not; one that was ready is set again, and a
sleep that is reset keeps its waker. `pendingWrite` is the message a
`VlessMessageStream` has taken and not flushed. A socket is always flushed and
shut down at once.

**`PacketAddrStream`, `VlessMessageStream`, `StreamReader`.** The buffers byte by
byte: a byte is its position in the stream, so that what is lost, repeated or taken
from stale memory shows. Reads return any number of bytes the buffer has room for,
nothing at the end of the stream, or an error. Addresses are reduced to how many
bytes they take (`head`) or after how many they are refused (`bad`).

**`Resolver`.** `cache` in order of use, `call` the calls in progress. A lookup is
started, sees the record at some moment and returns later, so that several overlap;
an address is the version of the record the lookup saw.

**`Location`.** The two parsers as operators on sequences of character classes.

The `MC*` modules give names to clients, packets and frames for the small
instances. `MCServers`, `MCUdp` and `MCHysteria2` hold parts that share no state
the properties see; a behaviour of theirs is one of one part, chosen in the initial
state. The `*_proofs` modules hold the proofs, see *Proofs*.

## Runs

Every run is `tlc -config <run>.cfg <module>`. States are distinct states.

| Run | Module | Shows | States |
|---|---|---|---|
| `session_streams` | `MCAnyTlsSession` | two ids that may be reopened, two handlers, every kind of first frame, a client that may stall: a stream's frames are SYNACK, data, one FIN; payloads in order without a gap; the stream and handle tables follow the tasks; settings before SYNACK; a close by `run` leaves no live handler alone; a frame that was cut off has closed the session | 1.3 M |
| `session_liveness` | `MCAnyTlsSession` | fair, the connection may fail: unless it does, a hand-over of `recv_loop` completes and a hangup ends the session and its handlers | 134 k |
| `copy_buffer` | `CopyBuffer` | fair, ring of 3, 5 bytes: refinement of `ByteChannel`; all bytes arrive, a closed source ends the copy | 22 k |
| `relay` | `CopyBidirectional` | fair, plain and AnyTLS streams: Ok is complete; shut down only after the data; every byte and the EOF of a peer reach the other, unless the relay fails, which between plain streams takes a lost connection; two closed peers end it | 91 k |
| `servers` | `MCServers` | fair: permits of both servers conserved; only users get a session; a queued client is accepted; the reader is exact; a gone Hysteria2 connection ends its task and streams; one that waits for a permit is served unless every permit stays with a connected client in a phase without a timer | 20 k |
| `hysteria2_udp` | `MCHysteria2` | fair: only whole packets, to the right address; no cancelled session in the table; reply loops end with the connection unless its task panicked; the parts of a reply fit, have no gap, and are all of it exactly when the count can say their number | 146 k |
| `udp` | `MCUdp` | fair: packets and answers in order and from the right socket; no socket without a session or a cancelled token; only idle sessions removed; receive tasks end; the copy keeps messages in order, is honest about Ok, ends with its client and when it was idle for too long; packets and messages come out whole; cached addresses are recent | 103 k |

Five more runs expect a violation; see *Findings*.

### Bounds

Two ids, two handlers and ids opened twice are the least that let handlers compete
for the channel, the write lock and `close`, and that show reuse. Channel
capacities of one make "full" the common case. Four client frames after the
settings cover SYN, address, payload and FIN, or a stream that ends and is
reopened. What authentication has read ahead is one frame of any kind, or settings,
SYN and payload at once. A ring of three with five bytes wraps around with reads and writes of
every length. Three clients for two permits, and two connections for one, exceed
the limits, and several clients can be queued at once. A fragment cache of one has to evict, two packets share an id with
different counts, and four datagrams are enough to start a session, leave one
packet half received and complete another; with a timeout of zero, one tick makes a
session idle, so that it is removed and started again. A fragment count of two bits and a
packet id below three wrap where the code's would at 256 and 65536; replies of up to
nine bytes, with headers of ten and eleven in datagrams of eleven or fourteen bytes, find
no room, fit, need every count up to the largest, and wrap it. A reader of three bytes is filled, emptied and compacted by a stream of
six. The packet buffer of six bytes with a threshold of two meets packets that fit
it exactly and ones it must refuse; the message buffer holds two bytes of length
and two of payload, and three messages lie behind each other in it. Three packets
and answers in all, to two destinations, let a session be removed while its answer
is under way, let it come back, and let a packet go to its first destination after
one to the other; one tick is more than the association's timeout of
zero. Two callers, a cache of one and a time to live of one tick let lookups
overtake each other and evict; the record of one of the two names changes, since a
name's answers depend on the other only through eviction. Two messages or failures of
a side (`MaxInAll`) meet in every order in the message copy, whose safety properties are
proved for any number; with two ticks and limits of one tick its timer fires before the
association is too old, and has to fire again. Runs whose system may stop (a client that sends
nothing more, a relay that has returned) do not check for deadlock.

### Fairness

Weak fairness of a task's steps is tokio polling a task that was woken; strong
fairness of `LockWriteBuf` is tokio's FIFO mutex. Timers fire, and calls on a QUIC
connection that is gone return. A destination that is still there takes what it is
given. Clients are not assumed to send, answer or close, with one exception:
`BusySpec` (`servers`) lets every connection past its handshake end or go on
at some time, and `accept` not pass over a queued client for ever, since
`QueuedIsServed` is about the permits alone. `H2WaitingIsServed` needs nothing of the
clients: it assumes that quinn's `accept` does not pass over a connection for ever
(strong fairness of `Accept`), and leaves the case that clients keep every permit in a
phase without a timer to its statement. `udp` assumes that a stream or socket
takes another message at some time (`RoomBack`) and that a timer that is due wakes a
task whose waker it has (`TimerFires`); it does not assume that time passes: `IdleEnds`
speaks of an association that is already too old.

### Findings

Five runs expect a violation: the code does something else than its comments, its
documentation or its log messages say. `PROJECT.json` has the quotations.

| Run | What happens |
|---|---|
| `session_closed_ends` | a handler's SYNACK times out and closes the session; `recv_loop` stays in its read of a silent client and `run` does not return |
| `relay_half_close` | after the destination's EOF an AnyTLS stream cannot be read, so the direction from the client is cut instead of going on |
| `hysteria2_inactive` | a UDP session in use is removed as inactive: `last_activity` is never refreshed |
| `hysteria2_parse` | a datagram that ends within its address length, or has a fragment number past its count, panics and ends the connection, where the comment says that parse errors are ignored |
| `ipv6_literal` | `[::1]:80` is read as a host name `[::1]`, not as an IPv6 address |

Limits of the passing runs that a reader should know, most of them listed as a
hazard:

* a SYN handled after a handler's timed out control frame closed the session starts
  a handler that nobody aborts (`CloseAbortsAll` is about a close by `run`);
* after a failed write with the outgoing channel full, a handler in its shutdown and
  `recv_loop` in its hand-over wait for each other (`session_liveness` promises
  nothing once the connection has failed);
* a control frame cut off by its timeout may be followed by frames of writers that
  waited for the lock (`CutFrameEndsSession` only says that the session is closed);
* the reads between the TLS handshake and the session are not timed, nor are the QUIC
  handshake and the set-up of HTTP/3;
* when a connection's task panics, its reply loops are not cancelled: each ends only
  when its socket or a send fails (`LoopsEnd` leaves the case out);
* a reply loop that ended by itself is not noticed, its session stays in the table until
  the clean-up (`TableIsLive` is about loops that were told to stop);
* a reply that needs 256 fragments or more is sent cut off, or not at all. No UDP packet
  is that long for a path of 1200 bytes; a client that announces smaller datagrams can
  get there (`ReplyIsWhole` says exactly when a reply is complete);
* an empty datagram or message ends a message copy, since it looks like the end of
  the stream; `OkMeansDone` counts the messages before it;
* idle sessions of `run_udp_routing` are only looked for when a packet or an answer
  wakes the loop, so `OnlyIdleRemoved` has no counterpart that removes them in time;
* when the session aborts a routing task its tokens are dropped, not cancelled: a
  receive task on a silent socket stays until the next datagram (`RecvTasksEnd` is
  about a task that ends by itself);
* `resolver.rs:57` speaks of dropping stale entries; a stale entry stays in the cache,
  and is moved to its front, until a lookup replaces it or others push it out. What
  callers see is the same (`AnswersAreRecent`).

## Proofs

Checked by `tlapm`, for every value of the constants that the named assumptions
allow. Every safety invariant of the passing runs has a theorem, and so have the
action property `OnlyIdleRemoved` and the refinement of `ByteChannel`.

The assumptions, next to the constants they are about: capacities and sizes are not
zero; `None` and the names of tasks and ids differ; sets whose elements are counted
are finite. Three say more.

* `NumberedAssumption`: the n-th SYN (PSH) of an id in the data that comes with the
  authentication has number n. Numbers are how the model names payloads.
* `DistinctAssumption`: two packets of a session that have one id have different
  fragment counts. The id has 16 bits; the code cannot tell packets apart otherwise.
* `OneVersion`, a hypothesis of `SettingsComeFirst` alone: the Settings frames of the
  client agree in their version. With two that differ `peer_version` changes under
  handlers that are running. The runs send one Settings frame.

Few of the invariants are inductive as they stand. What each proof adds:

**`AnyTlsSession_proofs`**: a session, frame by frame.

* `TypeCorrect`: `TypeOK` is inductive, one step per action.
* `DeadEntries`: `FinInv` adds that an entry belongs to the task whose id it has
  (`EntryOwner`), that a task that is gone has closed its stream (`GoneIsShut`), and
  that a closed stream with an entry has a FIN queued, in hand, being handled, or
  recorded as lost (`ShutHasFin`).
* `CloseOnce`: whoever runs `close` has set `is_closed` (`CloserWon`).
* `CutFrame`: a frame is given up by an actor that has closed the session or by an
  aborted handler, and handlers are only aborted in `close` (`CutInv`).
* `FramesKeepOrder`: `FramesInv` relates the wire to what is still to be written:
  before `send_synack` nothing of a handler is under way, behind its FIN nothing is,
  and a stream that is not closed has no FIN anywhere.

**`AnyTlsTasks_proofs`**: which handlers there are. `SessionInv` joins the above with

* `PipeNumbered`: the SYN and PSH frames of an id in the pipe from the client are
  numbered in order, none missing;
* `OneTaskPerSyn`: two handlers of one id, or a handler and a SYN of its id still in
  the pipe, need two SYN frames;
* `RecvSane`: where `recv_loop` writes, and for which handlers it holds payloads;
* `Registered`: the handle of a handler is in `stream_tasks` until it has cleaned up,
  but for the time between spawn and insert.

`HandlesAreTasks` follows. `CloseAborts` needs `CloseInv`: once `run` closes, no handler
is spawned or registered any more, and what each stage of `close` leaves behind.

**`AnyTlsUpload_proofs`**: what both ends see. `SettingsComeFirst` rests on
`AnnouncedOnce`: there is one version, and when it is 2 or more, no handler exists
before ServerSettings is written. `UploadsComeInOrder` rests on `UploadInv`: what a
handler took, what is in its channel and the payload in the hand of `recv_loop` are
consecutive, and the pipe goes on where they end as long as the handler can be fed.

**`Servers_proofs`**: `PermitsAreConserved` and `H2PermitsAreConserved` count how each
action changes the set of connections that hold a permit; `ConnectionLimit` follows.
`SessionsBelongToUsers` is inductive with the types: one action alone leads to the
states it is about.
`ReaderExact`: `ReaderInv` says that the unread bytes of the buffer are those behind the
consumed ones (`HoldsUnread`) and that a call never waits for more than the buffer holds
(`CallFits`), so that "cache is full" cannot be met. `ServersAreSafe` joins them for the
composition `AllSpec` of `MCServers`.

**`Relay_proofs`**: both directions of a relay, and the resolver both servers ask.
`RelayInv`: an EOF is read behind the last byte and from a peer that ended
(`EofIsLast`), and a direction stops copying with nothing held and shuts its stream
before it is done (`PhasesInOrder`). `AnswersStayRecent`: `ResolverInv` says of an
entry of the cache, and of a lookup at each stage, since when at most its address may
have been out of date.

**`Forwarding_proofs`**: packets to many destinations, and one direction of a relay.
`RoutingInv`: the packets forwarded, in hand and not read yet are numbered upwards
(`PacketsInOrder`); a session has a socket of its own and used no other (`OwnSockets`);
its last activity is no earlier than what was sent to its destination (`LastIsLatest`);
and the answers written, in hand and queued are all that the receive tasks took, in
turn (`AllGiven`). From it `PacketsAreForwardedInOrder`, `AnswersComeInOrder`,
`SocketsHaveOwners` and the action property `SessionsLast`. `CopyInv` says what the ring
holds: the slot `k` places after `startIndex`, modulo the size, has byte
`Len(delivered)+k+1` (`RingHolds`), and `read_done` is only set when the source has ended
(`EofIsReal`). From it `DoneIsComplete` and, step by step, `Refinement`: a step of the
copy is a `Take`, a `Give`, a `Finish` or a stutter of `ByteChannel`.

**`Messages_proofs`**: messages to one destination, and the two framings. `CopyInv`:
what waits at a side is what follows the messages read from it (`WaitingInOrder`), a
direction that has left its loop holds nothing back (`EndIsClean`), and what each step
of `poll_copy` may rely on (`StepOK`). From it `MessagesCopiedInOrder` and
`OkIsComplete`. `PacketsAreWhole`, `MessagesAreWhole`: the buffer holds the bytes behind
what was delivered (`HoldsRest`, `HoldsNext`), and packets and messages follow each other
without a gap, so that the front of the buffer is always the first byte of the next.

**`Hysteria2_proofs`**: `UdpInv` says that an entry of a fragment cache holds fragments
of one packet of its session and counts them right (`GoodEntry`), that a cached address
is the one of the session's location unless it is overridden (`GoodSession`), and what
the loop has in hand at each await (`GoodHand`). From it `ForwardedWhole`,
`ForwardedToRightAddress` and `TableStaysLive`. `RepliesAreWhole` is the arithmetic of
`div_ceil`, without an assumption on the sizes: with `r` bytes of room and `n` the
rounded up quotient, `(n-1)*r < len <= n*r` (`CeilBounds`), so that `n` is below `CountRange`
exactly when `len` is at most `(CountRange-1)*r`; from there on the count, which is smaller
than `n`, leaves out the end (`CountWraps`).

Only model-checked: everything temporal under fairness (`HandoverCompletes`,
`HangupEndsSession`, `EveryByteArrives`, `CloseEndsCopy`, `AllReachesOther`,
`BothClosedEnds`, `QueuedIsServed`, `H2GoneConnectionEnds`, `H2WaitingIsServed`, `LoopsEnd`,
`RecvTasksEnd`, `ClientEndEndsCopy`, `IdleEnds`), which the prover does not handle. The parsers of
`Location` and what the other runs of *Findings* show have nothing to prove: there the
code does not do what is said of it.

## Not modelled

* `anytls/padding.rs`: a parser of the configured text. The server sends the text and
  compares its digest; `write_frame` would use the sizes only with padding enabled,
  which nothing on the server does.
* The byte layout of frames (`types.rs`), of addresses and of datagram headers beyond
  their lengths: what the models tell apart is where a unit begins and ends.
* The write side of `PacketAddrStream`: `run_udp_routing` writes and flushes one answer
  before it does anything else, so that writing an answer is one step that succeeds
  or fails. The write side of `VlessMessageStream` is part of `MessageCopy`.
* `dial.rs`: one connect with a timeout; connected, failed and timed out are actions of
  its callers. Lookups that fail are likewise.
* `async_stream.rs` declares traits and forwards calls; `quic_stream.rs` is used through
  what it returns.
* `config.rs`, `main.rs`, `tls_config.rs`, `socket_util.rs`, `util.rs`, logging: no state
  that several steps share. `main.rs` starts the servers and aborts them at the end.
* The cooperative budget of tokio, and pings, which no stream in use supports.
