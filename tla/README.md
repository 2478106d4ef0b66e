# A TLA+ model of is_rtsp_server

is_rtsp_server is a cut-down version of the feng RTSP server: a C program on
glib and libev that streams stored (and, with `LIVE_STREAMING`, live) media to
RTSP clients. This directory models its core in TLA+, checks the models with
TLC on small instances, and proves with TLAPS, for every size, every invariant
that the passing runs check, and that the buffer queue implements a broadcast log.

Line numbers refer to the repository's source files.

## 1. The system

A listening socket (`rtsp.c`, `incoming.c`) accepts connections. Every client
gets a thread of its own with a libev loop (`rtsp_client.c: client_loop`). In it
run the socket callbacks, the RTSP methods, a timer that kicks idle clients,
and one timer for each RTP session that sends packets (`rtp.c: rtp_write_cb`).
Each resource has a pool with one thread, the *fill thread*
(`resource.c: r_read_cb`), which reads packets from the demuxer and puts them
into the queue of the track. Writers are consumers of that queue.

| Part | State it keeps | Operations | What makes it correct |
|---|---|---|---|
| Buffer queue (`bufferqueue.c`) | list of buffers with `seen` counts, `next_serial`, `queue_serial`; for each consumer a raw pointer, the last serial, the generation | put, reset, new, move, get, unseen, free | every consumer sees every buffer once and in order; a buffer goes when the last consumer has passed it, and never earlier |
| Stored resource and fill thread (`resource.c`) | `lock`, `fill_pool`, its jobs, `eor`, the demuxer's position | seek, fill, read, resume, pause, free | no thread touches a freed consumer; packets are in order; the writer is fed; handlers return |
| Shared live resource (`resource.c`, `LIVE_STREAMING`) | hash of resources and its lock, `count` | open, close | the thread runs while and only while there are clients |
| RTP sessions (`rtp.c`) | consumer, range, timers, last send time | new, resume, pause, write, free | sends what is due from a buffer that is still there |
| RTSP session and methods (`rtsp_method_*.c`, `rtsp_utils.c`) | state, edit list of ranges, RTP sessions, resource | SETUP, PLAY, PAUSE, TEARDOWN | no freed range is used; pause points are right |
| Client timeout (`rtsp_client.c`) | `ev_timeout` | arm, fire, stop | runs while the session plays and finds a session |
| Connection (`rtsp_state_machine.c`, `ragel_request_line.c`, `rtsp_lowlevel.c`) | input buffer, parser status, pending request, `last_cseq`, output queue, write watcher | read, parse, check, dispatch, queue, write | each request is answered once, in order, wherever TCP cuts it |
| Interleaved channels (`rtsp_interleaved.c`) | table of channels, `first_free_channel` | allocate, send, receive | channels do not collide |
| UDP transport (`rtsp_lowlevel.c`) | two descriptors and two addresses for each RTP session | open, bind, connect, send, close, with an error path from each | every descriptor is closed once, by its owner; the reply names the ports in use |
| Parsers of the URI, Transport and Range (`ragel_*.c`) | generated automata with a few registers | read a character | what is written is understood as it was meant |
| HTTP tunnel (`http_tunnelling.c`) | table of pairs (never made), idle clients | GET, POST, idle | both halves end together |
| RTCP, SDP (`rtcp.c`, `rtsp_method_describe.c`) | none | format | formats; reports agree with the packets |
| Start-up, addresses, responses, configuration | static | | |

How they interact: the methods call the resource (`r_seek`, `r_pause`) and the
RTP sessions; the writer calls the queue and `r_fill`, which pushes the
consumer to the pool; the fill thread calls the demuxer (not in the
repository), which puts into the queue. Replies and interleaved RTP packets
share the output queue of the connection. Shared between threads are the queue
(a mutex), `Resource::lock`, the atomics `fill_pool` and `eor`, and for live
resources the hash with its lock.

What is hard here, and not reached by a test: consumers that join, leave and
lag around a reset, with raw pointers kept between calls; PAUSE, PLAY and
TEARDOWN against the fill thread; the end of the media seen by two threads;
sequences of requests that build and free ranges that writers point to; timers
that outlive what they look at; requests cut and pipelined by TCP; socket calls
that fail in the middle of SETUP while other threads open and close descriptors
of the same process; headers outside of the grammar. The list with lines is
`hazards` in `PROJECT.json`.

### How the code is built

The Makefile defines neither `LIVE_STREAMING` nor `ENABLE_SCTP`. Without
`LIVE_STREAMING` no live resource exists and the table of demuxers that
`r_find_demuxer` searches is empty: demuxers and media parsers are external,
used through `Demuxer::read_packet` and `seek`. The call of `bq_producer_put` in
`mparser_buffer_write` is commented out (bufferqueue.c:875), so the model lets
the external demuxer put its buffers itself. `RTSP_handler` is modelled as a
position independent build compiles it, with the HTTP states; the other table
has them commented out (rtsp_state_machine.c:426-428).

## 2. The modules

| Module | Models | Lines of the source |
|---|---|---|
| `BufferQueue` | the buffer queue | bufferqueue.c |
| `BroadcastLog` | what the queue promises: an abstract log with one cursor for each reader | (abstract) |
| `BufferQueueProofs`, `BufferQueueLogProofs` | theorems about `BufferQueue`; that it implements `BroadcastLog` | |
| `Streaming` | a stored resource with its fill thread, writers and PLAY/PAUSE/TEARDOWN; contains `BufferQueue` | resource.c, rtp.c, parts of rtsp_method_* |
| `SharedResource` | a shared live resource with its clients; contains `BufferQueue` | resource.c |
| `RtspSession` | the methods, the edit list, the timers of one session | rtsp_method_*.c, rtsp_utils.c, rtsp_client.c |
| `Clients` | all connections with the transports of their sessions: descriptors, ports, channels | rtsp_lowlevel.c, rtsp_interleaved.c, rtp.c, rtsp_client.c, http_tunnelling.c |
| `TransportHeader`, `RangeHeader`, `UriParser` | the generated parsers | ragel_transport.c, ragel_range.c, ragel_uri.c |
| `Headers` | a client that writes what these read, with the grammar it should keep to; contains the three | (client) |
| `RtspConnection` | one TCP connection: parser loop, dispatch, output | rtsp_state_machine.c, rtsp_lowlevel.c, ragel_request_line.c |
| `StreamingProofs`, `SharedResourceProofs`, `RtspSessionProofs`, `RtspConnectionProofs`, `ClientsProofs`, `HeadersProofs` | theorems about the module of that name | |
| `MC...` | instances for TLC | |

`map` in `PROJECT.json` gives the lines of each definition. Definitions whose
comment begins with "Mutant:" are deliberately wrong versions of the definition
below them; no specification uses them, and each breaks the property named in
`mutants`.

**BufferQueue.** A buffer is its position in the order of all puts (`elem` over
`first..puts`), with the `seq_no` and `seen` of `BufferQueue_Element`. `current` is
the raw pointer of a consumer: it stays when the buffer is freed, and
following it then is the fault `dangling`. A failed `g_assert` is the fault
`assert`, and `serial` for the one about the wrap of `next_serial`. Each function is one
action because it holds the producer's mutex; `bq_consumer_free` is split where
its loop of moves is (`FreeMoveAll`, `bq_decrement_seen_on_free`).
With `Live` the numbers come from the source (any start, wrapping), otherwise
from `next_serial`.

**Streaming.** The client's thread (`at`, `todo`) and the fill thread (`fill_at`,
`fill_for`) interleave at every lock, wait and atomic: `r_pause` takes
`Resource::lock`, clears `fill_pool` and waits in `g_thread_pool_free`; `r_read_cb`
looks at the pool, then at `bq_consumer_unseen`, then takes the lock, then reads.
One `read_packet` writes a frame as one packet or as up to `MaxFragments`
(the marker of mediaparser.h:105 and bufferqueue.c:852 is for that), and
`bq_consumer_unseen` is not asked again in between (`ReadFragment`).
`rtp_write_cb` is cut where it uses a buffer without a lock and before it reads
`eor`. A packet is its position in the media; `due` remembers what each session
has to send next. The resource is `seekable` or not from the start.

**SharedResource.** Clients in threads of their own call `r_open_hashed`, take a
consumer, and call `r_close`; the same fill thread, without a consumer to look at.
Its source is live, and its numbers may wrap.

**RtspSession.** All in one thread, one action for each handler. Times are whole
seconds; ranges are numbered as they are allocated, so that a freed one is told
from a new one. Seeks may fail. PLAY comes with a Range, without one, and as VLC
sends it (a Range while playing, which pauses first). A Range of `NptHeaders` may end
before it begins or behind the media: `parse_range_header` tests neither and cuts the end only. One that begins
behind the media is left out; the code leaves it to the demuxer's seek. RTP time is `start` of each
session (`start_rtptime`, modulo `RtpModulus`) and what the client was `told` by
the last reply. Whether a transport could be set up is left to `Clients`.

**RtspConnection.** Messages are records that travel in pieces between which TCP
may cut. The handlers of `RTSP_handler`'s loop are actions. The generated parsers do
not test for the end of the buffer (`write exec` without an end test: there is
no `p == pe` in the loops of ragel_request_line.c, only in the return statement), so
their result for an incomplete message depends on the bytes behind the input;
the model chooses among the three outcomes. Compiled on its own, the parser
returns 0 for half a line followed by a zero byte and -1 for the same half line
followed by the headers of an earlier request, and -1 for an empty input
in front of a request line that was just removed, as `g_byte_array` leaves it.
A message says whether its URI has a path: a method that checks one that is not there ends
the process (`RTSP_handle_content_null`).

**Clients.** A descriptor is a number with an owner (a connection, one of its
SETUPs, or the process) and the UDP port it is bound to; `socket` and `accept` take
the lowest free one. A thread is cut at every open and close, so that another
may take a number in between; TEARDOWN and the end of a connection free one
session after the other (`rtp_session_free`). `rtp_s` is the session under construction, which
`rtp_session_new` hands from one offer to the next as the last one left it:
descriptors 0 from `g_slice_new0`, addresses that are freed and still set. `stray` remembers the
first close of a descriptor that belonged to somebody else; `crashed` is the call through the
missing SCTP entry, the second `g_slice_free1` of an address, or a URI whose path
is NULL (`NullPath`, place `url`). Any call on a socket may fail, the bind to an adjacent
port that is free too. A list of offers
is what `TransportHeader` may give. An HTTP GET leaves its client `idle` for ever.

**TransportHeader, RangeHeader, UriParser.** The tables of the Ragel automata are
read back into the grammars behind them, over tokens (a word, a number, a
separator) instead of characters; the actions, with their registers
(`number`, `seconds`, `mark` ...), are those of the `switch` of each parser. The automaton
for Transport follows two readings of a comma at a time; they are a set of
threads. An IP literal of a URI is a count of groups and a gap instead of the 150
states it has in the table. The three modules were compared with the tables of the
source by running both on thousands of random token sequences, in and out of
the grammar, and agreed on every one. In `map`, a definition about one part of a grammar names the rows of
the tables that belong to that part, with the numbers of the states; one about all of them (`Kinds`,
`After`, `Target` ...) names the whole table.

A number is its value, so that leading zeros, those of a fraction too, are left out;
the doubles of `ragel_parse_range_header` are tenths, cut.

**Headers.** Writes tokens to the parsers and keeps, beside them, what has been
meant by the grammar of RFC 2326 and RFC 3986 as long as the client keeps to it.
The grammars are tables of phases. An IPv6 address is planned ahead (`Addresses`): `plan`
counts the groups before and after the gap and the octets still to be written, with the
separator that is due, so that every one of them is written and none is
enumerated. The token for a semicolon or a comma is called that.

## 3. The runs

All bounds are named constants. Deadlock is not checked: clients may stop
sending, and a model whose bound on puts, time or messages is used up stops.

| Run | Bounds | Distinct states | Shows |
|---|---|---|---|
| `queue` | 3 consumers, 4 puts, 3 generations | 305 000 | counts are exact, nothing leaks, no assertion fails, the pointer check suffices, `unseen` never under-reports; the inductive invariant of the proofs; `BufferQueue` implements `BroadcastLog`; it drains once the consumers settle |
| `streaming` | 2 sessions, media of 3 packets, frames of up to 2, 4 puts, 2 resets, 2 frames buffered, 1 job waiting | 480 020 | freed consumers and buffers are never used, packets in order; a frame is read for a lone session only while fewer than `BufferedFrames` packets wait; an armed writer sends again, until its stream ends or is stopped |
| `shared` | 3 clients, small queue | 81 811 | count, thread and queue of a shared resource agree; the last close returns |
| `session_safety` | 2 RTP sessions (symmetric), 5 s, 3 ranges, RTP time modulo 8 | 4 417 148 | ranges live as long as they are used; replies, packets and sender reports agree on RTP time |
| `connection` | 2 messages of 12 kinds, input of 7 pieces, 1 media packet | 1 170 283 | pipelined requests are each answered once and in order; the loop ends; output is FIFO and goes out |
| `headers` | 2 offers, 2 times npt, 6 separators in a URI (those of IP literals not counted), a number within and one above both limits | 371 687 | a header or URI of the grammar is understood as meant; any other leaves the parser safe |
| `clients` | 2 connections (symmetric), 7 descriptors, 3 ports, 5 channels, 2 SETUPs, 2 steps with a failing call | 3 118 561 | descriptors are neither lost nor closed for others, with two exceptions that are named; ports and channels are as announced; every crash is one of three |
| `streaming_pause`, `streaming_bye`, `session_timer`, `session_pause_point`, `connection_incremental` | as above or smaller | | disagreements, section 5 |

Why the bounds are enough to mean something: three consumers are needed for one
to join while a second lags and a third leaves; two generations of the queue
are reached by a reset and one more by draining it. Media longer than
`BufferedFrames` makes the fill thread stop and be asked again; one job that waits
and one that runs are the two sessions that may ask. Both bounds of `QueueBounded` are reached: with either one lower the run fails. `MaxTime` exceeds the timeout, so the timer fires in
all states of a session. Two steps with a failing call are what it takes to make both of two
offers fail; five channels (0 to 4) let two sessions whose channels the server chose, 1-2 and 3-4, live on one
connection; seven descriptors and three ports run out, so that SETUP meets the limit of
both and a port pair that is not adjacent. Six separators give a URI
all of its parts and a second path segment. Of the two numbers of a
Transport header one fits a channel and a port, the other exceeds both and is cut to a
value that tells the two limits apart; of those of a Range header one may be minutes and the
other has three digits, of which a fraction keeps the first. With `BufferedFrames = 1` the writer
and the fill thread wait for each other (`KeepsStreaming` fails), so that 2 is the
smallest value of interest. The input takes one request and a short one, but not two
long ones, so that both pipelining and overflow occur.

**Fairness.** A thread that can take a step takes one (weak fairness of the
handlers, of `r_read_cb`, of `RTSP_handler`); a thread in the middle of a function
does not stop. The event loop serves timers that are armed; as a timer's callback
is disabled while another handler of the same thread runs, that is strong
fairness of `rtp_write_cb`. In `BufferQueue` the consumers move (their timers) and
nobody is obliged to put, to join or to leave. The write callback of a
connection is called as long as the watcher is started, that is as long as the
client reads. Nothing is assumed of clients' requests or of the demuxer.

## 4. The proofs

A theorem here holds for every finite set of consumers, clients, sessions or
connections and every value of the bounds that the assumption of its module
allows. Those assumptions give constants their types; the only others are that a
stored resource is not live (`StreamingAssumption`), that all its media may be put, that no
connection is called "nobody" or "process", the other owners of a descriptor, and that the
numbers of a Range header have up to nine digits, which a double sums exactly.
Each inductive invariant was checked by TLC before it was proved; `queue` still does so.
`PROJECT.json` lists under `theorems` what a reader should know of.

**BufferQueue** (`BufferQueueProofs`). `TypeCorrect` needs no more than the assumption on the
constants. The other theorems assume `NoWrap`: a stored source, or a live one
whose first number and puts stay within the 16 bits. With wrapping numbers the
comparison in `bq_consumer_confirm_pointer` is not an order, and
`PointerReliable` is false (section 5). `UnseenCoversWaitingSafe` is for a stored source only, as
`bq_consumer_unseen` compares serials that a live source may choose.

None of the properties is inductive alone: whether the count of a buffer is right after
`bq_consumer_elem_unref` depends on where the other cursors stand, on the serials
being consecutive, and on the number of consumers. The inductive invariant is
`BookkeepingInv`: types; no fault; `consumers` is the number of registered ones;
the serials of the queued buffers are consecutive up to `next_serial - 1`
(`SerialsConsecutive`); a cursor of the current generation points to the buffer of
its last serial or nowhere (`CursorConsistent`); one consumer at a time leaves,
after passing everything (`FreeExclusive`); `SeenExact`; `NothingLeaks`.

The argument: the only interesting step is a move. `ConfirmedPointer` shows that
what passes `bq_consumer_confirm_pointer` is queued and, by the serials, the buffer
the consumer remembers; `SeenBound` that its count is below the number of
consumers; hence the assertions hold (`UnrefSafe`). The move then either selects
a first buffer (`SelectStep`, with `SearchTarget` for the search by serial) or
passes one (`AdvanceStep`): the set `SeenBy` of that one buffer gains exactly this
consumer, and if it becomes everybody the buffer is the head (all later ones
lack somebody) and is destroyed, as the count says. `LeaveStep` takes the
consumer out of every `SeenBy` as the code decrements every count.

**The broadcast log** (`BufferQueueLogProofs`). `QueueImplementsLog` proves
`ImplementsLog`, the refinement: under `BookkeepingInv` the mapped cursor of a consumer
is the first buffer it has not passed (`LeastOfInterval`, as the passed ones are a prefix), so that
a put appends to the log, a move that passes a buffer advances one cursor and forgets
what nobody waits for, a move that only selects a buffer is a
stutter, and a reset, a leave and a join are steps of the log.
With `StreamingUsesQueue`, which shows that the module only ever takes the queue's steps, this gives
`StreamingImplementsLog`: the queue between a fill thread and its writers is that log. There is no such
theorem for a shared resource: its source is live, and once the numbers wrap the queue is not a log.

**Streaming** (`StreamingProofs`), in layers. `ControlInv` is about threads only: the lists of sessions hold
each once; without a pool there is no job, and after `g_thread_pool_free` has returned no fill
thread (`PoolInv`); which timers may be armed at each place of the client's thread
(`TimerInv`). It gives `FillConsumerAlive`, and that every use of the
queue is one `BufferQueue` allows: `StreamingUsesQueue`, so that all theorems of the
queue hold of it (`QueueInv`). On these rest `PacketInv` (a queued buffer has the packet that its
distance from the demuxer's position says; the buffer a writer sends is still queued:
`BufferHeld`), then `OrderInv` (while nothing was cut off, what is due to a playing session is
what its cursor is at: `SentInOrder`), then `BoundInv` (`QueueBounded`: each place of
`r_read_cb` bounds what waits for the consumer it looked at: fewer than `BufferedFrames` from the test to the first packet of
the frame, and one more for each packet of the frame).

**SharedResource** (`SharedResourceProofs`). `ResourceUsesQueue`, for the types of the queue, and `ResourceInv`: the lock is held
by the one client that starts or stops the thread; the pool is there while a
client is in; the fill thread has stopped and the queue is empty before the next start.
Nothing here depends on the numbers of the source, so that these theorems need no `NoWrap`;
what `ResetAlone` says is that nobody consumes from the queue, or holds the resource, while it is reset.

**RtspSession** (`RtspSessionProofs`). `SessionInv` adds to the types that what is in the edit list
is allocated and begins no later than the clock allows (`Shapes`); that a session with an armed writer is in
the list, plays the first range, and was told where that begins and at which RTP time
(`WriterInv`); and that the first range of a playing session has been begun
(`FirstPlayed`). The arithmetic of RTP time is modulo any width, by lemmas about `%`.

**RtspConnection** (`RtspConnectionProofs`). `BasicInv` has the types and that the output queue
holds growing positions of what was queued, all after the last one delivered:
`DeliveredInOrder`. `ConversationInv` says, as long as the client keeps to the grammar and no parser read
past its input (`Orderly`), that input and wire are the rest of the messages sent
(`StreamInv`), and that there is an `n` such that the parser stands after message `n`
(`Progress`) and exactly the due ones of the first `n` were answered (`Replied`). When
`RTSP_handler` has returned, `n` is the number of messages completely received: `AnsweredAsSent`.

**Clients** (`ClientsProofs`). `ShapeInv`: what each place of a thread knows about its
session under construction. On it stand `CrashInv` (`CrashExplained`), `ChannelInv`
(`ChannelsGiven`: the counter is beyond every channel it gave), `HeldInv`
(`SocketsAccounted`) and, with `NumberedInv` (the numbers of SETUPs grow along the list, and
nothing about to be closed belongs to a session of the list), `StrayInv` for
`SocketsOwn` and `PortsAnnounced`: until somebody else's descriptor is closed each
connection and session owns what it names, the session under construction too as long as it
was tried once, and the closes to come are of different descriptors.
`UdpOutcomes` brings the steps of `rtp_udp_transport` to three outcomes (it failed, opened a
socket, or is done), so that each invariant has one case for each.
`LowestFreeIsFree` is by well-founded induction on the numbers.

**Headers** (`HeadersProofs`). That a whole header is understood as it was written is not proved
by induction over the header: client and parser take each token together, so it is an
invariant, a relation between the phase of the client with what it has meant and the state of the parser with
its registers. `HeadersInv` has one for each parser, and types that hold
outside of the grammar too; a token disturbs one of them and leaves the other two alone.

- Transport: `TransportRelation` names the one thread that reads what is meant (`IsMain`); all
  others are ghosts that took an earlier comma for a part of a value. They are at one place of
  their grammar that the phase determines (`GhostAt`), and never where a number is read or a transport
  is written, so they change nothing (`GhostMoves`, `GhostIdle`) until they die. The current transport is the
  last offer but for a number read and not yet assigned, or a mode not yet set (`SameOffer`).
  `TransportSet` rests on `SkipsFresh`: nothing is left of an offer that failed.
- Range: in each phase the time meant is the sum so far and the number not yet added, with the
  weight that it has if nothing follows (`SoFar`); a colon after the first number makes hours
  of seconds on both sides. `FractionIs` shows that numerator over denominator is
  the first digit of the fraction.
- URI: the machine may be at several places in one phase (`PlacesOf`), as it does not know
  yet whether it reads user information or a host. Until it does (`HostOpen`), `uri.host` may hold the user;
  all other parts are the same at every token, and the mark is where the client began the part.
  `UriRules` brings the grammar to three kinds of rules: inside a part, at the end of
  one, and at an empty segment. `InLiteral` balances the groups and octets read and
  planned; it implies that the machine has room for what is planned and
  accepts `]` when nothing is left.

The proofs made the models better. A leaf about `Pieces` in `RtspConnection` could not be
proved because two arms of a CASE overlapped; arms that overlap were then
removed from the parsers too. TEARDOWN in `Clients` used to take all sessions out of
the list at once, with a fold over the sockets to close; it now frees one at a time, as
`g_slist_foreach` does, which is both nearer to the code and open to proof.
The IP literals of `Headers` used to be an enumerated set of sequences of tokens, picked from
for TLC; the counters of `plan` write every address.

Only model-checked:

- liveness (`QueueDrains`, `KeepsStreaming` and the like), as ENABLED and fairness are out of the prover's
  reach.

## 5. Disagreements between the code and what it says

Each is a run that TLC is expected to refute, with a finding in `PROJECT.json`.

- **`streaming_pause`**: `r_pause` holds `Resource::lock` in `g_thread_pool_free`
  while the fill thread waits for it at resource.c:467: PAUSE never returns.
- **`streaming_bye`**: `eor` is read after the queue was found empty; the last
  packets may arrive in between, and the writer goes away without sending them.
- **`session_timer`**: TEARDOWN leaves the inactivity timer armed; its callback
  reads `rtsp->session->rtp_sessions` of a NULL session.
- **`session_pause_point`**: PLAY without a Range while playing resets the start
  of the range; the next PAUSE records a point before what was sent.
- **`connection_incremental`**: a request that arrives in two reads may be
  answered 400, and once more when the rest arrives.

Also met while modelling, kept as they are in the models and not given a run:

- `bq_consumer_unseen` returns one more than is waiting (1 for an empty queue;
  bufferqueue.c:714 against 692-693). `QueueBounded` and `UnseenCoversWaiting`
  hold with it.
- The numbers of a live source wrap at 16 bits and are compared with `<`
  (bufferqueue.c:225, 621), against 204-206 ("if any condition happened that would make it unreliable, set
  it to NULL"). Behind the wrap a consumer is set back to the head of the queue and marks it as seen
  twice; it is freed early, and another consumer's pointer to it still passes
  `bq_consumer_confirm_pointer`. TLC shows it as a violation of `PointerReliable` with 2 consumers, 3 puts, 2 generations,
  `Live`, `SerialModulus` 16 and `FirstLiveSeq` 15. Only with `LIVE_STREAMING`.
- `next_serial` wraps into its own assertion after 65535 puts without an empty queue
  (bufferqueue.c:430).
- The limit on buffered frames is tested before each `read_packet` and not for each packet
  (resource.c:462): a frame of many fragments goes over it by all but one of them.
- `feng_srv.buffered_frames` is never set, so it is 0 and `r_read_cb` never reads
  (resource.c:449); the runs take 2.
- `eor` is not cleared by a seek (resource.c:475).
- A fill pool without a running job counts as a running fill thread for the
  next client of a shared resource after the source has ended (resource.c:256).
- SETUP is accepted while playing; PLAY does not start such a session
  (rtsp_method_play.c:310) and the inactivity timer counts it as unserved since the epoch
  (rtsp_client.c:135). `end_time` of a range has no reader (rtsp_method_play.c:250).
- `first_free_channel` ignores the channels clients chose, and its first number is 1,
  not the "First channel free" of rtsp.h:106 (rtsp_interleaved.c:99).
- A failing `rtp_udp_transport` closes the descriptors it has not opened: 0 in a
  fresh session, which is standard input or, once that was closed, the socket of
  whoever got the number; after an earlier failing UDP offer, the numbers of that one
  (rtsp_lowlevel.c:266-269). Two UDP offers that both fail at `connect` free the
  addresses twice (260-263). An offer of SCTP is called through NULL (rtp.c:412).
- `http_tunnel_initialise` has no caller: a POST is always refused, and a client that
  sends GET with a cookie goes idle, ends its thread and is never freed
  (http_tunnelling.c:194, rtsp_client.c:219).
- Across PAUSE and PLAY, RTP time goes on by the silence, not from the last
  packet (rtp.c:112, 186): it goes back if the pause was shorter than what had been played.
  The reply says so, so that `RtpTimesAgree` holds. The sequence number restarts at 1 whenever
  the queue drains (bufferqueue.c:509), and RTP-Info always says `seq=1`.
- Transport: a quoted `mode="PLAY,RECORD"` begins a second offer at the comma if an R follows.
- Range: `npt=now-` is refused; `time=` has no effect on what is played; the seconds
  of a specification that was given up are added to the next one; for a resource that is not seekable a
  Range is refused only if begin *and* end differ from 0- (rtsp_method_play.c:237).
- URI: of "user:1pw@" only the password is kept as user information
  (the mark moves at a digit behind the colon); "scheme:/a/b" loses its
  first segment; empty segments are dropped, and `path` is NULL for a URI without one. Every method but OPTIONS then calls
  `strstr(NULL)` (rtsp_utils.c:158). SETUP of a path with an escape that cannot be decoded calls
  `strrchr(NULL)` (rtsp_method_setup.c:87-89).
- The flag of libev errors (rtsp_client.c:194) is set in the thread that met the
  error and never reset: for `ev_loop_new` that is the accepting thread.
- After an unsupported method the parser is in state headers with
  `pending_request` NULL (rtsp_state_machine.c:317-322), against rtsp.h:126-127; a
  request with Content-Length reaches `g_assert_not_reached`. Both, and a method on a URI without a path, end a behaviour
  of `RtspConnection` as `crashed`.
- A refused line or header block stays in the input and is answered again at every read.
- `rtsp_tcp_write_cb` drops what `send` did not take.

## 6. Not modelled

Formatting of texts (SDP, replies, RTCP packets), address conversion, logging, and the
configuration code under `conf.rem`, which the Makefile does not build. Of a request
only the line, headers and body as pieces, and the URI, Transport and Range; the
table of header names is left out. DESCRIBE and OPTIONS
change no state. `rtsp_process_complete` is for SCTP, which is not built. The
coupling of two connections by an HTTP tunnel cannot happen, as the table of
pairs is never made. `clients_list` and `connection_count` have no reader
(`rtsp_connection_limit` begins with `return true`). Start-up is sequential.
Resources with several tracks: each track has a queue of its own, and the
modules have one. The RTCP reports the writer sends (SDES at times, BYE at the end, rtp.c:293,
316, 336) do not change the state modelled; received RTCP is dropped, as its
handler is commented out (rtsp_interleaved.c:57).

## 7. Plan

1. Possible extensions: the descriptors of the event loops and the errors of
   libev; several tracks in one resource; SETUP's selection of a track; the
   text of header blocks.
2. Safety is proved for what is modelled; new components come with their own proofs.
   Liveness stays with TLC.
