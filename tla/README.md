# A TLA+ model of rmw_ndn

`rmw_ndn` is a ROS 2 middleware (`rmw`) on top of Named Data Networking. A
publisher keeps the last packets of its stream and answers interests; a
subscription discovers publishers, asks where each stream is, and then requests
one packet after the other. Messages travel as CBOR, written and read by
functions that a template generates per message type.

This directory holds TLA+ modules translated from that code, the TLC
configurations that check them on small instances, and proofs checked by TLAPS.
`PROJECT.json` maps every definition to the source lines it stands for. `cbor.c` and
`byteorder.h` exist twice, in `cbor` and in `cbor_cpp`, with the same text; where two
definitions stand for the same lines the map may name either copy.

## 1. Inventory

| Component | Source | State | Operations | Correct when |
|---|---|---|---|---|
| TopicPublisher | `rmw_ndn/src/topic.hpp` 33-117 | `_seq_num`, `_req_seq_num`, `_queue` | `push`, `onInterest`, `setName` | a request is answered exactly for the last WINDOW packets, by the packet it names; a request that came early is answered when its packet is pushed |
| SyncPublisher | `sync.hpp` 33-95 | `_seq_num`, `_content` | `push`, `onInterest`, `setName` | the number and the content of a reply belong together |
| Publisher | `rmw_pub.cpp` | `_id`, `_seq_num`, the two above, a heartbeat | constructor, probe (`onUsedId`, `onFreeId`), `push`, destruction | the three sequence numbers agree; an announced identifier is served; what is named as it is served is what is asked for |
| Discovery | `discovery.hpp` | `_name` of a heartbeat; discovered nodes, publishers, subscribers; callbacks | `heartbeat`, `setName`, `onInterest`, the queries | each publisher starts each subscription once; a heartbeat beats while its object lives |
| Subscriber | `rmw_sub.cpp`, `requestSync`, `requestData` | `_queue`, pending interests | constructor, `onData`, `onError`, `take` | one live chain of requests per publisher; no message skipped except through a sync |
| rmw_wait | `rmw_wait.cpp` | the wait set of a call, the clock | run the face, scan the subscriptions | reports every message, no timeout while one waits, and returns |
| Nodes, graph queries | `rmw_node.cpp` | a heartbeat, allocated names | create, destroy, list | a failed copy leaves nothing allocated; a good one is the whole table |
| Guard conditions, wait sets, clients | `rmw_guard.cpp`, `functions.c` | allocated handles | create, destroy | nothing is freed twice |
| Stubs | the rest of `functions.c` | none | log and return | - |
| CBOR | `cbor.c` (two identical copies) | `cbor_stream_t` | one serializer and one deserializer per kind; a printer | no overrun; what is written is read back; the printer finds every item |
| Byte order | `byteorder.h` (two identical copies) | none | swaps, `hton`, `ntoh` | a value is the same on every host |
| Generated typesupports | `msg__type_support.c.em`, `.cpp.em` | local `ret` and stream | `serialize`, `deserialize` | numbers and characters are received as they were sent, from either language to either; of the sizes of strings this is not true |
| Generators, introspection tables | `__init__.py`, CMake, headers | none | build time | - |

**How they interact.** Everything runs on one thread per process: `rmw_wait`
calls `face.processEvents`, which runs the scheduler (heartbeats) and the
callbacks of the face (interests, data, Nacks, timeouts); the application calls
`rmw_publish` and `rmw_take_with_info` in between. Processes interact only by
the network: *interests* (sync and data requests, probes, heartbeats) and *data
packets*. `Publisher` calls its `SyncPublisher` and `TopicPublisher` on every push
and names all three members when its identifier is claimed; `DiscoveryClient`
calls the subscriptions of a topic when it hears a new identifier.

**What is hard.** The order of the callbacks of several actors; interests and data
that are late, lost or repeated; timeouts that race answers; a probe that misses
the owner of an identifier; the arithmetic of the window; three copies of a
sequence number; random components that come again when `std::rand` starts over; a
buffer at its limit, or with old bytes in it; one field of a message that is skipped.
`PROJECT.json` lists each such hazard at its line with the properties that cover
it, or why none does.

## 2. Modules

| Module | Models | Used by |
|---|---|---|
| `NdnFace` | the `ndn::Face` and the forwarder as the handlers see them: interests on the wire, data in the network, heartbeats heard, interest filters; packet names | all the protocol modules |
| `TopicPublisher`, `SyncPublisher`, `HeartbeatEmiter` | the three classes a publisher owns | `Publisher` |
| `Publisher` | class `Publisher` and its `rmw` functions, with `PublisherSpec` for publishers alone | `RmwNdn` |
| `PublisherLog` | **abstract**: an append-only log with a window | `Publisher!Promise` |
| `Subscriber` | class `Subscriber`, the request functions, the publisher half of `DiscoveryClient`, with `SubscriberSpec` for a process alone | `RmwNdn` |
| `RmwNdn` | one topic: publishers, network, one process with subscriptions | - |
| `TopicStream` | **abstract**: what a subscription receives of one stream | `RmwNdn!Stream` |
| `RmwNdnRestart` | `RmwNdn` with processes that crash and start again | - |
| `RmwWait` | `rmw_wait` between the callbacks that fill the queues and the executor that empties them | - |
| `Lifecycle` | what a process creates and destroys, and what the scheduler, the face and the discovery client still hold | - |
| `GraphQueries` | the tables of `DiscoveryClient` and their copies for the caller | - |
| `ByteOrder` | `byteorder.h` and its uses in `cbor.c` | - |
| `Cbor` | the serializers and deserializers of `cbor.c` as operators | `CborStream`, `Typesupport` |
| `CborStream` | items written to a buffer, sent, read back: its operations and what they must do | `CborDecode` |
| `HalfFloat` | the conversion between floats and half-width floats, as operators | `CborStream` |
| `CborDecode` | `CborStream` with `cbor_stream_decode`, the printer, beside a reference parse of the items | - |
| `Typesupport` | the generated `serialize` and `deserialize`, field by field, and what they leave in the receiver's message | - |
| `RmwNdnProofs` | theorems on `Publisher`, on `Subscriber` and on their composition `RmwNdn`, in three parts | - |
| `CborProofs` | lemmas on the operators of `Cbor` | `CborStreamProofs`, `TypesupportProofs` |
| `RmwWaitProofs`, `LifecycleProofs`, `GraphQueriesProofs`, `ByteOrderProofs`, `CborStreamProofs`, `TypesupportProofs` | theorems on the module each is named after | - |
| `MC*` | what TLC needs: symmetry, sets of items, fields and messages | - |

### State and actions against the code

*Publisher.* `tSeqNum`, `reqSeqNum`, `queue` are the members of `TopicPublisher`;
`sSeqNum`, `content` those of `SyncPublisher`; `heartbeatId` the identifier in
`DiscoveryHeartbeatEmiter::_name`; `id`, `seqNum` those of `Publisher`. `phase`
stands for the callback that is pending (the probe) and `log` is a history
variable. `Create` is `rmw_create_publisher` with the constructor and the first
probe, `OnUsedId` and `OnFreeId` are the two callbacks of the probe (the second
sets the three names, hence the filters), `Push` is `rmw_publish` with both inner
pushes, `ReceiveInterest` dispatches to `TopicOnInterest` or `SyncOnInterest`.
Early returns of a handler that change nothing are steps the action does not take.

*Subscriber.* `created` are the objects built, `discovered` is
`_discovered_publishers` of the topic, `inbox` is `_queue`. The pending interests
live in the face, with the callbacks they are bound to: `pit` records them.
`position` and `refused` are history, and so is `drawn`, the sync requests named since
`std::rand` was last seeded: one run of `std::rand` does not name two requests alike
(`FreshNonce`), but nothing keeps a component from those an earlier run drew. `Reseed`
begins a new run: `rmw_create_publisher` calls `std::srand` with the time in seconds
(`rmw_pub.cpp:152`), so a second publisher of a process replays the sequence of the
first when both are created within a second. `OnData`, `OnError`, `OnSyncNack` are the
three ways a pending interest ends; which of them the code distinguishes depends
on the request: `requestSync` binds the Nack to an empty function,
`requestData` binds it to `onError`.

*Network.* `wire` and `net` are sets that keep what was put in them, so an
interest or a data packet is delivered any number of times, in any order, or
never. An interest can outlive the request that sent it, because a publisher
reads its socket only inside `rmw_wait`. `ForgetSync` lets the network drop the
traces of a sync request nobody waits for, and its component may then be drawn again
within the same run: a finite model needs that, and to the later request it is as
good as new. What is not forgotten can meet a request of a later run.

*Topic.* `Mode` reads off the pending request what a subscription makes of a
stream, and `Stream` is `TopicStream` under that mapping.

*Crashes.* Nothing is persisted, so `CrashPublisher` and `CrashSubscriber` put the
members of the process back to what they are before it is created, and take its
filters and pending interests with it; `net`, `wire` and what other processes
discovered stay. `CrashSubscriber` empties `drawn` too: nothing seeds `std::rand` in a
process without publishers, so the process that starts again draws the components of
the dead one, in front of the replies to them that the network still holds.
`SeedAgain` is `Reseed` without a crash. A publisher that starts again is another
element of `Pubs` with the same identifier. `bounds` is the case of `Cases` a run is.

*rmw_wait.* `Call` is the beginning of a call, `ProcessEvents` the return of
`face.processEvents` (during which `Deliver` fills the queues), `ReturnOk`,
`RunAgain` and `ReturnTimeout` the three ways the scan ends. `Cleared` is the
second loop with its `return` inside the body. `Dispatch` is the executor, one
entry of the wait set after the other. `now` is `system_clock`, which may be set.

*Lifecycle.* `objects` are the C++ objects that exist, `heap` the blocks that
`malloc` gave, `events` what is in the scheduler, `held` the callbacks bound to an
object in the face and in `_pubs_cb`. The destructors of `Publisher` and
`Subscriber` are the implicit ones: `DestroyEndpoint` destroys the object, cancels
the event of its heartbeat and leaves `held`. Running a callback of a destroyed
object has no meaning in C++: the model then sets `broken` and stops. The caller
is legal: it destroys what it was given, once.

*Graph queries.* `result` are the arrays of the caller and `live` the blocks
allocated; `StoreName` and `FailCleanup` are the two outcomes of an allocation in
the loops `CopyNode` and `CopyTopic`. The functions of `rcutils` are external.

*Byte order.* A value is the sequence of its bytes, most significant first, and
`Memory` what a host keeps at increasing addresses. `Encode` and `Decode` say which
conversion `cbor.c` uses for which item; the kind `union` stands for
`byteorder_ltob` and `byteorder_btol`, which the repository does not call.

*CBOR.* A `uint64_t` is the sequence of its eight bytes, so widths, truncation
and two's complement are those of the program. `cbor_stream_t` is the sequence `data` of
the bytes written (its length is `pos`) with the size of the buffer; `after` is the
byte that follows a received buffer, which the readers without a size test read.
`cbor_init` and `cbor_clear` leave the bytes of the buffer as they are: `old` is what it
held when the stream was last empty, and `Contents` the written bytes with what is left
of `old` behind them.

*Printer.* What `cbor_stream_decode` prints is modelled by the offsets it finds
items at. It reads `Buffer`, the whole buffer with its `pos`: only the loop over the top level and
`cbor_at_end` look at `pos`, while the deserializers test their reads against the size
and read old bytes behind `pos` as if they had been written.
`DecodeAt` is the recursive function, `DecodeElements` its loops;
`ret` is what the C function returns and `at` its local `offset`, which differ
when a key is read and its value is not. These operators are `RECURSIVE`, so
`CborDecode` stays out of the reach of the proofs. `CborStream` has none of them, and
`StreamSpec` is the writer and the receiver without the printer. Every step of
`DecodeSpec` is a step of `StreamSpec` or the printer's, which leaves `streamVars` as
they are; so what is proved of `StreamSpec` is what the run `cbor` checks of `DecodeSpec`.

*Typesupport.* The generated functions treat the fields one by one and never
stop; `WriteField` and `ReadField` are one field each, `Transmit` is what
`Publisher::push` sends, with any of `AfterBytes` behind it, `Finish` the comparison in
`Subscriber::take`. `Stores` is what a read leaves in the receiver's message. A string
is its characters and its size apart: the C template allocates the data anew and sets
the size to what the read returned, head included (`msg__type_support.c.em:235-237`);
the C++ template copies to `data()` and leaves `size()` (`msg__type_support.cpp.em:193-194`),
which is then any of `HeldSizes`.

## 3. What is checked

All runs but two expect no error. Distinct states are of the full run.

| Run | Instance | States | Question |
|---|---|---|---|
| `publisher` | 1 publisher, identifiers {0,1}, window 2, 4 messages, any answer to the probe | 118,735 | does a publisher answer what it promises, whatever it is asked and whenever? |
| `subscriber` | 2 subscriptions, 1 identifier, 2 random components, `std::rand` may start again, answers numbered 0..1 | 86,549 | does each subscription keep exactly one request pending per publisher? |
| `pubsub` | 1 publisher, 1 subscription, window 1, 3 messages, fairness | 105,421 | does a subscription follow the stream, under loss, delay and repetition, and receive its end? |
| `restart` | up to 2 publishers with one identifier, 1 subscription, window 1, up to 2 messages, five cases, crashes, `std::rand` starts again, fairness | 141,360 | does a subscription survive a crash of either side, and the same random components? |
| `wait` | 3 subscriptions in 2 orders, timeouts of 0, half and 2.5 ms, 2 messages each, fairness | 116,211 | is a return of `rmw_wait` true, does every call return, is every message taken? |
| `lifecycle` | 1 node, 1 publisher, 2 subscriptions, 1 guard condition, wait set and client, 1 identifier to discover | 101,196 | what does a legal caller leave behind? |
| `graph_queries` | 2 node names, 2 topics, 2 identifiers | 4,364 | is a copy whole, and a failed one undone? |
| `byte_order` | hosts of 2 byte orders and 3 builds, 30 values of 2, 4 and 8 bytes | 1,620 | is a value the same on every host? |
| `cbor` | four loads, see below | 514,340 | do serializers, deserializers and the printer agree at every boundary and nesting? |
| `typesupport` | every message of at most 3 fields out of 21, both languages on both sides, a buffer of 14 bytes, 4 bytes that may follow it, 2 sizes a `std::string` had | 1,073,564 | what of a message is received as it was sent? |
| `exact_fit` | the first load of `cbor` | - | a comment of the code that the code contradicts |
| `printed_items` | the third load of `cbor` | - | a comment of the printer that the code contradicts |

The loads of `cbor` are its initial states (`load`): *pairs*, 2 items out of 36 kinds
and values in buffers of 0..14 bytes, sent and read back; *halves*, one float of
6,902 around every rounding bit and exponent boundary, all denormal halves among
them, sent as a half-width float; *nested*, at most 5 items out of 9 kinds, in arrays
and maps, in buffers of 3 and 8 bytes that held zeros or initial bytes that announce
eight more (27), printed; *reused*, at most 4 of the same items in a buffer of 6 bytes
that held 27 and was cleared, empty or with one item in it, any number of times.

Every property of a passing run has a mutant of the code that breaks it
(`PROJECT.json`, "mutants"); a mutant stands just before the definition it
mutates.

### Properties

*Publisher.* `Lockstep`: the three sequence numbers and the sync content describe
one stream. `WindowIsSuffix`: the queue is the end of the log.
`AnswersInWindow`: the guard of the handler accepts exactly the last Window
numbers and the index arithmetic picks the packet of that number.
`RequestsAhead`, `EarlyRequestsAnswered`: a recorded request never falls behind
and is answered by the push that produces its packet. `AnswersGenuine`: what goes
out was published. `AnnouncedServed`: a heartbeat carries an identifier that is
served, or the initial 0. `NamedAsServed`: a message published before the claim
keeps the identifier that was probed then; no sync reply ever leads a peer to ask
for it under another name. `ImplementsLog`: refinement of `PublisherLog`.

*Subscriber.* `SingleChain`, `ChainAlive`: at most, and unless refused at least,
one request pending per known publisher; a pending data request is for the packet
after the last one received (`SingleChain`). `RefusedForever`: after the Nack of a
sync request a chain never restarts.

*Topic.* `InboxGenuine` relates what a subscription receives to the log of the
publisher, `NeverAhead` the positions of both ends. `NeverAhead` and the liveness
properties speak of a *sole owner* of an identifier: nothing in the code makes
identifiers unique (`std::srand(time)`; an owner that published nothing does not
answer the probe), so a property that ignored this would be false, and one that only
spoke of distinct identifiers would hide it. `ImplementsStream` is the refinement of
`TopicStream`: in order while the stream is followed, a repetition of at most the
last message when it is found again, and no end but a refusal. It holds within one run
of `std::rand`, which is what a process has unless it creates publishers: an old reply
under a component drawn again may lead a subscription back by more than one message.
`CatchesUp` is liveness. `RestartHeals` is liveness across crashes and new runs of
`std::rand`: an old reply may answer a new request, and the subscription still receives
the last message of a publisher that stays.

*rmw_wait.* `ReturnTrue` relates a return to the queues and to the time that passed;
for `RMW_RET_OK` it says exactly which entries stay in the wait set.
`EveryCallReturns` and `EveryMessageHandled` are liveness.

*Lifecycle.* `HeartbeatsOfTheLiving`: the event in the scheduler is always the one
the destructor cancels. `LeftBehind`, `NoDiscoveryAfterDestroy` and `MemoryAccounted` state what the code does, which is not what a caller would
wish: a destroyed node is announced for ever; the filters, the probe, the
discovery callback and the requests of a destroyed object stay; the first
heartbeat of a new publisher after that runs a callback of the destroyed
subscription; and four kinds of blocks are never freed. They are invariants
because a change of the destructors is the kind of change that must not happen
by accident, and so that the list of what is left behind is known to be complete.

*Graph queries.* `NothingLost`: an error leaves nothing allocated, and a success
nothing beyond its result. `CompleteCopy`: the result is the table, each name once.

*Byte order.* `Portable`: whatever hosts a value visits it stays the same, and it
travels with the most significant byte first.

*Half-width floats.* `NearestHalf` compares with the midpoints between neighbouring
halves, which are computed apart from the encoder; it leaves out the exponents the
code sends as zero or as infinity on purpose (below 103, above 142). `HalfStable`
(relaying, signs, NaN) holds for every float.

*Printer.* `NestingPrinted` compares with a parse of the items written; it leaves
out the streams that `printed_items` is about (`ShortTails`). `StaysAligned` holds
for these too, as long as the head of a container is one byte (fewer than 24
elements) and until the printer first reads behind the end of what was written: up to
there it lands on items, sometimes on one it has printed, whatever the buffer holds.

*CBOR and typesupports.* `NoOverrun`, `RoundTrip` (values and offsets),
`StrictReaders`; `PrefixTaken`, `PrefixFaithful`. Numbers and booleans arrive, and the
characters of a string do, in its data; the size of a received C string counts the head
of the item too, and that of a `std::string` is the one it had before. A message of
which a field in the *middle* was skipped is outside the last two properties: the code
may then accept it with fields exchanged. `StaysOnItems` holds for those too: values may
change places, but none is made of parts of two, and what is sent is what was written.
`SkippedUntouched` is about the fields of the receiver that were not sent. They stay as
they were, except that a bool becomes either value, a C string is emptied (its data is
new, its size 0), and a 64-bit integer is set when the byte behind the buffer looks like
the head of one: to 0, or an `int64` to -1 when that byte is in 32..63
(`cbor.c:496-507`). `RelayWithinAllocation` is about the size a C string is left with.

### Bounds, and why they are enough

- `MaxPublish` (messages per publisher): larger than `Window` by 2 in
  `publisher` and `pubsub`, so that the window fills, slides and leaves requests
  behind.
- `Window` is 10 in the code. The theorems hold for every positive value; the
  runs take 1 and 2.
- `MaxInbox` bounds `_queue` by guarding `OnData`: a full inbox delays a delivery,
  which the network may do anyway.
- `MaxSeq` bounds what peers of `SubscriberSpec` answer; 1 is enough for a next
  packet and for a stale one.
- `Nonces` bounds the random components; two per identifier let one request wait
  while traces of another are still in the network, and a component of an earlier run
  meet its own old reply.
- Sequence numbers are naturals: the `uint64_t` of the code would wrap after 2^64
  messages.
- `Loads` bounds the items of a stream and the sizes of its buffer. A refused item
  leaves no trace, so the nested streams of a small buffer are those of a large one.
- `fills` and `maxCleared` of a load bound what a buffer held before: one byte all over,
  0 or 27, and what was written before a `cbor_clear`. 0 is an item by itself, 27 the head
  of one of nine bytes, which never fits, so a read behind `pos` succeeds or fails.
- `BufferSize` is 512 in the code and 14 in the run: two long fields fill it.
- `AfterBytes` holds a byte of each sort that the readers tell apart: an unsigned head, a
  negative one (32), a string's, and a special value. `HeldSizes` are 0 and 5.
- `Cases` bounds the runs of `restart`, because the product of all its bounds is out of
  reach. Each case says who may draw the identifier, how many publishers run at a time,
  how many messages each publishes, how many replies to probes the network holds and how
  often `std::rand` starts again (a crash of the process with subscriptions is one of
  those). One publisher with two messages and the same components again; two publishers
  at a time, with a probe between them or with the same components again; one after the
  other, with packets of the dead ahead of the living or behind. Two messages let a data
  request be sent, answered by the wrong publisher's packet, and fail.
- `MaxMessages`, `MaxClock` and `Ticks` (`RmwWait`): two messages let one wait behind
  another, `MaxClock` is beyond the longest timeout, and two ticks to a millisecond
  give timeouts below and between milliseconds.
- `MaxGraphGuards` and `MaxBuffers` (`Lifecycle`) bound leaks that grow at every call;
  every object is created once, and two subscriptions let one live when the other
  is destroyed.
- Strings are up to 24 bytes (the two-byte CBOR head); `LengthBytes` limits the
  model to strings shorter than 2^16, and a buffer has 512 bytes.

### Deadlock

TLC checks for deadlock in every protocol run. `CborDecode` and `Typesupport`
describe one transfer and really stop, so their configurations turn it off.
`lifecycle` turns it off because a broken program is not followed further, and
`restart` because every process may have crashed.

### Fairness

Weak fairness of heartbeats, of the discovery handler, of `take`, of the end of
a request by its timeout and of the network's forgetting; each is run by the face
or scheduler as long as both processes call `rmw_wait`, or by the application.
Strong fairness for a sync request reaching its publisher and for its answer
reaching the subscription: the network is fair-lossy, so an exchange that
is retried for ever sometimes succeeds within its lifetime. Nothing is assumed of data requests: all of them
may be lost, and the subscription still catches up by syncing. `CatchesUp`
excludes a chain that a Nack ended, which `RefusedForever` shows to be final.
This is the fairness of `pubsub`; `restart` has the same, and none for crashes.

In `wait` every step of the thread is weakly fair: an executor calls `rmw_wait`
again and again, and `processEvents` returns after its timeout. The clock may show
anything each time, so one strong condition is added: it is not set back in every
round for ever, hence some round of a long wait sees its end. Nothing is assumed
of the arrival of messages.

## 4. What the violated runs show

- `exact_fit`: `CBOR_ENSURE_SIZE` (`cbor.c:78`) refuses a write that fills the
  buffer exactly. Its comment (`cbor.c:76`) says it ensures that the stream is
  big enough. The last byte of every buffer stays unused.
- `printed_items`: `cbor_stream_decode_at` adds `cbor_at_break` to the bytes of every
  container (`cbor.c:971`, `cbor.c:1005`), but only one of unknown length ends with a
  break. After a container of a known length, the last byte of the stream, or the
  break of an outer container, is taken for its own: when the stream holds an empty
  array and behind it one more item of a single byte (a small integer, or a second
  empty array), only the first array is printed, although every item is to be
  printed (`cbor.h:195`). The cause is `cbor_at_end` (`cbor.c:872`), which is true
  from the offset of the last byte on. The printer is used for debugging only.

Four more defects are stated by properties that hold, because no doc or test of the
repository speaks of them. They say exactly what the code does, so that a repair of it
will show:

- a `std::string` that is received keeps the size it had, usually 0, so `size()` and the
  strings assigned from it do not have the characters copied to its data (`PrefixFaithful`);
- the size of a received C string is too large by the head of the item
  (`PrefixFaithful`, `RelayWithinAllocation`);
- a missing 64-bit integer may be set by a byte that is not part of the message
  (`SkippedUntouched`);
- the printer may go on inside an item after it read old bytes of the buffer: the value
  fails, and `cbor_stream_decode_at` returns less than it passed (`cbor.c:996-1006`).
  This is the limit `StaysAligned` states.

## 5. What is proved

Of the 40 properties of the passing runs, 34 are also theorems: they hold for every
value of the constants, from the named assumptions of the modules alone
(`FaceAssumption`, `WindowAssumption`, `MaxPublishAssumption`, `SubscriberAssumption`,
`WaitAssumption`, `LifecycleAssumption`, `NullAssumption`, `TypesupportAssumption`,
`StreamAssumption`, `ByteOrderAssumption`, ...), which TLC evaluates in the runs. Each rests on an
inductive invariant, of which a lemma per action, or per part, shows that every step
keeps it. The inductive invariants were checked by TLC on the instances of the runs
before they were proved.

### Publisher (`RmwNdnProofs`, first part)

For every set of publishers, identifiers and random components, every positive window
and every bound on the messages.

    PubInv     == PublisherTypeOK /\ StreamInv /\ RequestsAhead /\ AnswersGenuine
    StreamInv  == LogNumbered /\ Lockstep /\ WindowIsSuffix
    PubFullInv == PubInv /\ Claim /\ AnnouncedServed /\ RepliesServed /\ NamedAsServed

None of its parts is inductive alone. `RequestsAhead` needs `Lockstep`, because the
handler compares with `tSeqNum` and the property with the log; `AnswersGenuine`
needs `WindowIsSuffix` and `LogNumbered` to know which packet the index picks.
`AnswerIsEntry` and `WindowIsRecent` hold the index arithmetic and are what
`AnswersInWindowCorrect` and the refinement rest on. `Claim` relates the phase of the
probe to the three names; `RepliesServed` says that who gave a sync reply serves the
identifier of the reply, which is what `NamedAsServed` needs.

| Theorem | Says |
|---|---|
| `PublisherTypeCorrect` | `[]PublisherTypeOK` |
| `LockstepCorrect`, `WindowCorrect` | `[]Lockstep`, `[]WindowIsSuffix` |
| `AnswersInWindowCorrect`, `RequestsAheadCorrect` | `[]AnswersInWindow`, `[]RequestsAhead` |
| `AnswersCorrect` | `[]AnswersGenuine` |
| `EarlyRequestsCorrect` | `EarlyRequestsAnswered`, an action property |
| `PublisherImplementsLog` | every behaviour of the publisher is one of `PublisherLog` |
| `AnnouncedCorrect`, `NamedAsServedCorrect` | `[]AnnouncedServed`, `[]NamedAsServed` |

### Subscriber (`RmwNdnProofs`, second part)

For any number of subscriptions, identifiers and random components, and any answers
of the peers.

    SubInv == SubTypeOK /\ Chains
    Chains == OnlyKnown /\ OneEach /\ NextAsked /\ EndedByNack

A chain is started when a subscription or a publisher is new. `OnlyKnown` is why this
never makes a second one: no request of a pair is pending before both are known.
`EndedByNack` says of every pair of known ends that there is no pending request if
and only if a Nack ended the chain, so `ChainAlive` and `RefusedForever` are its two
directions. The lemmas about a step are stated for `SubscriberStep`, what the process
itself does, so that the third part uses them as they are.

| Theorem | Says |
|---|---|
| `SingleChainCorrect` | `[]SingleChain` |
| `ChainAliveCorrect` | `[]ChainAlive` |
| `RefusedForeverCorrect` | `[]RefusedForever` |

### One topic (`RmwNdnProofs`, third part)

    BothInv == PubFullInv /\ SubInv /\ LogBounded /\ WireExpected /\ InboxGenuine /\ BehindNamed
    OneInv  == BothInv /\ Traced /\ ReplyFresh

The invariants of the two sides are proved under what their peers may do; what one side
does to the wire and the network is such a thing in the specification of the other
(`WireExpected`: a data request on the wire is one a publisher alone has to expect), so
both hold together. `BehindNamed` says that positions, requests under way and requests
recorded are all behind a stream that carries the identifier; for a sole owner this is
`NeverAhead`. `ReplyFresh` is what the random component is for: a reply to the *pending*
sync request is not behind what was received before that request. It needs `Traced`: the
sync requests on the wire and the replies in the network are of components drawn in this
run of `std::rand`, so a component that is fresh has no reply yet.

| Theorem | Says |
|---|---|
| `InboxGenuineCorrect`, `NeverAheadCorrect` | `[]InboxGenuine`, `[]NeverAhead`, for any numbers of publishers and subscriptions |
| `StreamImplemented` | `ImplementsStream`: every step of the composition is a step of `TopicStream` or none |

`StreamImplemented` assumes `OneStream`: one publisher and one identifier on the topic
and any number of subscriptions. This is not a convenience. With a second publisher
of the same identifier the refinement is false (see *sole owner* above), and a stream
of `TopicStream` is that of one identifier. The instance of `pubsub` satisfies it. And it
is a theorem of `Spec`, whose one process draws all its components from one run of
`std::rand`.

### rmw_wait (`RmwWaitProofs`)

    WaitInv == ReturnTrue /\ EntriesGiven /\ RanForTimeout

`ReturnTrue` speaks of the moment of a return; the two others carry what it needs
through the call: the wait set is the one given until the call returns, and the time
spent adds up, however the clock is set. `MillisecondsLoss` is the arithmetic of the
conversion to milliseconds. The theorem is `ReturnTrueCorrect`.

### Lifecycle (`LifecycleProofs`)

    LifeInv == LifeTypeOK /\ ObjectsExist /\ HeartbeatsOfTheLiving /\ HeldInv /\ MemoryByBlock

For any number of handles of every kind (the kinds are disjoint, `LifecycleAssumption`).
`HeldInv` says callback by callback what the face and the client hold; `MemoryByBlock`
is `MemoryAccounted` for one block at a time, which no step on another handle disturbs.

| Theorem | Says |
|---|---|
| `HeartbeatsCorrect` | `[]HeartbeatsOfTheLiving` |
| `MemoryCorrect` | `[]MemoryAccounted` |
| `LeftBehindCorrect` | `[]LeftBehind` |
| `NoDiscoveryCorrect` | `NoDiscoveryAfterDestroy`, an action property |

### Graph queries (`GraphQueriesProofs`)

    QueryInv == QueryTypeOK /\ ResultKept /\ Progress /\ NothingLost

For every set of nodes and topics, whichever allocation fails. `Progress` says how far
a call has come: the entries up to `index` are copied and no array holds anything else,
which is why `FailCleanup` finds every block there is to free. `SetToSeqIs` (the sequence of a finite set has
each element once) gives `CompleteCopy`. `NullAssumption`: no name is the null pointer.

| Theorem | Says |
|---|---|
| `NothingLostCorrect` | `[]NothingLost` |
| `CompleteCopyCorrect` | `CompleteCopy`, an action property |

### CBOR, value by value (`CborProofs`)

What `cbor.c` does with one value, wherever it stands in a buffer. `CborStreamProofs` and
`TypesupportProofs` both rest on it:

- `IntBytesIs`, `DecodeIntAt`: `encode_int` writes at most nine bytes, which
  `decode_int` reads back wherever they stand, for every `Uint64`;
- `SignedIs`: a negative number survives the width of the item, whichever of the
  integer functions wrote and read it;
- `StringAt`, `DoubleAt`: the same for byte and text strings and for doubles.

### Items in a stream (`CborStreamProofs`)

For every load whose items have values of their C types (`StreamAssumption`: a number or
a float is its bytes, a string is shorter than 2^16), every size of the buffer, whatever
the buffer held before and whatever byte follows a received one.

    StreamInv == /\ Written /\ Stream /\ ReadSoFar
                 /\ \E start : Layout(start) /\ InStep(start)

`RoundTrip` is not inductive: that a read leads to the next item says nothing unless the
items lie in the bytes one behind the other, which is `Layout`; `InStep` says that the
receiver stands at the start of the first item it has not read, and `ReadSoFar` that what
it has read is `ReadBack` of the items, which is the value itself for every kind but the
half-width float.

Two facts per kind of item carry the steps. `SerializeIs`: a serializer appends exactly
`BytesOf` the item or nothing, and only if they fit. `ItemRead`: the deserializer of the
kind, at these bytes, returns their number and the value. `OtherKindFails` is
`StrictReaders` for one item: from what the first byte of an item of each kind can be
(`FirstByte`), a reader of another kind returns 0.

The half-width floats are arithmetic on the bits. A float is a sign, eight bits of
exponent and 23 of mantissa (`FloatParts`), and its magnitude is these last 31 bits as a
number. `Scaled(g)` is the magnitude of a half with one bit more: that of the half `h` is
`Scaled(2 * h)`, the midpoint to the next one `Scaled(2 * h + 1)`. `ScaledGrows`: it is
strictly increasing, across the step from the denormals to the normals too. `EncodeIs`
goes through the branches of `encode_float_half` and shows that each rounds from the one
bit it keeps besides (`RoundedFrom`), and `RoundedNearest` that this is what `RoundsTo`
demands. `DecodeIs` shows that `decode_float_half` gives the float of magnitude
`Scaled(2 * h)`; `HalfKept` that encoding this float gives `h` back; `HalfSent` puts them
together for any float, infinities and NaN included.

| Theorem | Says |
|---|---|
| `NoOverrunCorrect` | `[]NoOverrun`: no write past the buffer, no read leading past the bytes |
| `RoundTripCorrect` | `[]RoundTrip`: the receiver reads the values written, up to the last byte |
| `StrictReadersCorrect` | `[]StrictReaders`: an item of another kind is refused |
| `NearestHalfCorrect` | `[]NearestHalf`: a float in the range is sent as the nearest half |
| `HalfStableCorrect` | `[]HalfStable`: relaying rounds once; signs and NaN are kept |

They are theorems of `StreamSpec`; section 2 says why they hold of `DecodeSpec`.

### Typesupports (`TypesupportProofs`)

For every message whose fields have values of their types (`TypesupportAssumption`: a
string is shorter than 2^16, an integer has its bytes), every size of the buffer, every
byte behind it, every size a `std::string` had, both languages at both ends. Of the fields the module shows first:

- `NumberRead`, `StringRead`, `DoubleRead`, collected in `ItemRead`: a read at an item,
  *as a field of any type*, passes the whole item or nothing, and one of the type of the
  item stores the value written;
- `EndRead`: a read at the end of the stream passes nothing, whatever byte follows; that
  of a 64-bit integer may still store 0, and that of a signed one -1.

The inductive invariant is:

    TsInv == /\ TsTypeOK /\ Stream /\ OnItems /\ Received /\ RelayWithinAllocation
             /\ \E start : Layout(start) /\ InStep(start)

`OnItems`: from every offset where an item ends, the end of the stream or another item
starts, so that reads out of step still move from item to item. `Layout` gives the
offset where each field starts, and `InStep` says that the reader of a message that
lost only its end stands at the offset of the field it reads.

| Theorem | Says |
|---|---|
| `PrefixTakenCorrect`, `PrefixFaithfulCorrect` | `[]PrefixTaken`, `[]PrefixFaithful` |
| `StaysOnItemsCorrect` | `[]StaysOnItems`, for messages that lost any field |
| `SkippedUntouchedCorrect` | `[]SkippedUntouched` |
| `RelayCorrect` | `[]RelayWithinAllocation` |

### Byte order (`ByteOrderProofs`)

For any hosts, byte orders, builds and values of two, four or eight bytes
(`ByteOrderAssumption`): `PortableCorrect`, `[]Portable`. The three builds of the 16-bit
swap are the same function, the swap is its own inverse, and so every `Encode` gives the
bytes of the value itself, whatever the host, and every `Decode` takes them back
(`ItemsKeepValues`). `Portable` is then inductive.

### Only model-checked

- Liveness under fairness (`CatchesUp`, `RestartHeals`, `EveryCallReturns`,
  `EveryMessageHandled`): TLAPS 1.4.5 does not reason about `ENABLED` and fairness.
- `NestingPrinted` and `StaysAligned`: the operators of the printer are `RECURSIVE`, and
  what a recursion computes needs induction over data.

## 6. What is not modelled

- **Stubs**: the functions on services, the counts, the comparisons of gids and the
  rest of `functions.c`, `rmw_take`, `rmw_trigger_guard_condition`, `rmw_init`. They
  return OK and change no state; their output variables keep what the caller
  put there. Build-time generators, CMake, introspection tables.
- **Restarts outside `Cases`**: a publisher that starts again under *another* identifier
  while the packets of the first stay in the network, and more than two publishers. Of two
  live owners of one identifier `restart` only says what happens once one of them is left.
- **After a callback of a destroyed object**: C++ says nothing of what follows, and
  neither does `Lifecycle`.
- **NULL of `malloc`** in `rmw_create_*`, which the code does not test; allocations that
  the code does test may fail in `GraphQueries`.
- **The other arguments of rmw_wait** (guard conditions, services, clients), which it
  ignores.
- **cbor.c**: dates and tags, which are compiled only with
  `MODULE_CBOR_SEMANTIC_TAGGING` and `MODULE_CBOR_CTIME` (the build defines only
  `MODULE_CBOR_FLOAT`); `dump_memory`. Half floats,
  readers without a copy, `cbor_destroy` and the printer are modelled although
  nothing in the repository calls them.
- Several topics: no handler relates two. Signatures and the trust model of NDN.

## 7. Plan

1. *Done.* Face, publisher, abstract log; subscriber; composition, its abstract stream,
   liveness and restarts; `rmw_wait`; creation and destruction; graph queries; CBOR,
   half floats, the printer, typesupports; byte order.
2. *Done.* The theorems of section 5.
3. *Done.* The theorems on the streams of `cbor.c` for every kind of item, half-width
   floats among them.

What is left to TLC is what section 5 lists: liveness, and the printer.
