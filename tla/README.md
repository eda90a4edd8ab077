# Verification of utility-polypacket

TLA+ specifications of the C library in this repository (packets, the ack/retry
spool, the service) and of the code its generator emits
(`UT/testService.c`), with model-checking configurations for TLC and proofs for
TLAPS. `PROJECT.json` lists the runs, the lines each definition models, the
hazards of the code and the findings.

## 1. The system

| Component | State | Operations | Interacts with |
|---|---|---|---|
| Spool `poly_spool.c` | entries (`mState`, `mTimeOut`, `mAttempts`, `mTrash`, `mPacket`), three counters, `mTimeOut`, `mMaxRetries`, `mFailedMessages`, a mutex | `init`, `push` (with `get_next_free`, which may evict), `pop`, `ack`, `tick`, `deinit` | called by the service; calls `poly_packet_clean`, `poly_packet_reset` and the ack callback |
| Service `poly_service.c` | interfaces (receive fifo, spool, `mTxReady`, callbacks), registered descriptors, `mAutoAck` | `start`, `feed`, `try_parse`, `spool`, `despool`, `tick`, `set_retry`, JSON entry points | fifo, parser, spool, `f_TxBytes`/`f_TxPacket` |
| Generated service `UT/testService.c` | the static packet and response of `tp_service_process` | `process`, `dispatch`, `send`, `tick`, `auto_ack`, `enable_tx`/`disable_tx`, setters and getters | handlers of the application |
| Packet codec `poly_packet.c` | a packet: header, fields, ownership flags | `build`, `pack`, `parse_buffer`, `copy`, `reset`, `clean`, sizes | fields |
| Fields `poly_field.c` | data, size, presence, allocation | `set`, `get`, `copy`, `bind`, `parse`, variable-size numbers | - |
| JSON, in `poly_packet.c`, `poly_field.c`, `poly_service.c`, `testService.c` | a buffer of text | `print_json`, `parse_json`, `parse_str`, `feed_json_msg`, `tp_handle_json` | packets and fields; an external parser |
| External | COBS fifo, JSON parser, mutex | - | - |

An application calls `tp_service_process` in a loop. One call takes at most one
valid frame from the interfaces, offers it to the spool if it is an
acknowledgement, dispatches it to a handler, spools the response on the
interface the request came from, and then sends at most one packet on each
interface. Other threads (receive interrupts, timers, senders) call `feed`,
`tick` and `send` in between. A packet that wants an acknowledgement
(`ACK_TYPE_TOKEN`) stays in the spool as WAITING after it was sent; `tick` makes
it READY again or gives it up, an answer with its token and the ack bit
releases it. `tp_packet_build` leaves `ACK_TYPE_NONE` in a packet, so
acknowledgements are asked for by applications that build with
`poly_packet_build` or set `mAckType`.

What is hard here: counters and marks kept by hand across five operations;
eviction by priority in the middle of a push; retries against late, lost,
duplicated or colliding answers; sends and ticks between the steps of a
process pass; fairness among interfaces; sizes, lengths and checksums at their
limits; memory shared by the application and the spool; work done after the
mutex was released; text in which strings and numbers are printed from memory
that remembers earlier contents. What must hold: no packet is
lost, doubled, revived or cleaned wrongly in a spool; the retries are those
configured and they end; an acknowledgement means that the peer accepted that
packet; an answer goes where its request came from; every frame is looked at
and every ready packet sent; a frame parses into the packet it was made of or
is refused, and survives JSON if JSON can carry it; every block of memory is freed
once, by its owner, and what is sent is what was handed over.

## 2. Modules

| Module | Models | Correspondence |
|---|---|---|
| `PolySpoolOps` | `poly_spool.c` | one operator from spool to spool per critical section |
| `PolySpool` | the spool of an interface | one action per function, any order and arguments; history variables `fate`, `sent`, `cleans`, `wild`, `requested` |
| `SpoolContract` | what a spool promises | no entries, counters or timers: packets move through a life cycle |
| `PolyService` | `poly_service.c` and `tp_service_process` | one action per step of a pass, one per call of another thread |
| `PolyLink` | two services and a line | two instances of `PolyService`; frames in two bags |
| `PolyVarSize` | `poly_var_size_pack`, `poly_var_size_read` | operators on byte sequences |
| `PolyPacketCodec` | `poly_packet_pack`, `poly_packet_parse_buffer`, sizes, JSON of packets | set fields again and again; pack, damage, parse; print as JSON, feed it back or handle it |
| `PolyPacketMemory` | `poly_field.c` and the memory side of `poly_packet.c`, `tp_packet_build`, `tp_send`, `tp_clean` | arrays of fields with their blocks; packet structures of the application and their copies in the spool |
| `PolySpoolThreads` | the code around the critical sections | extends `PolySpool` with the steps of the process thread before the lock and after the unlock, and the two writes of `set_retry` |
| `PolyField` | `poly_field.c`, descriptors | operators: build a descriptor and a field, set, get, print and read as text |
| `PolySpoolOpsProofs` | - | lemmas about the operators on spools |
| `PolySpoolProofs`, `PolySpoolRefinement` | - | theorems about `PolySpool`: invariants, cleaning and timeouts; the contract |
| `PolySpoolThreadsProofs`, `PolyServiceProofs`, `PolyLinkProofs`, `PolyPacketCodecProofs`, `PolyPacketMemoryProofs` | - | theorems about the module each is named after |
| `MC...` | - | instances for TLC |

**Spool.** A spool is one record of functions over the slots, named like the
fields of the C structures (`mTimer` is the `mTimeOut` of an entry). A packet is
a model value with a priority, an ack type and a token, split into its 15 bits
and the ack bit. The initial retry limit and timeout are any of the configured
ones: the source starts with 5 and 2500 ms, and `poly_service_set_retry`
replaces them at any time. A packet is pushed once: `poly_packet_reset` gives a
reusable packet new fields and a new token, which makes it another packet to
the spool. `fate` says what became of a packet, `sent` counts the pops that
handed it out, `cleans` the calls of `poly_packet_clean`. The code of
`poly_spool_push` after a refused entry, `poly_spool_ack`'s mark on entry 0 and
the empty loop of `poly_spool_deinit` are modelled as they are written.

**Threads.** `PolySpoolThreads` has one thread that runs `tp_service_process`
and any number that push, tick and configure. `held` is the packet the process
thread has in its hands outside the mutex, `at` the entry it came from, and
`refilled` whether another packet has come into that entry since. The unlocked
read of `mReadyCount` may also see the value in the middle of a push that has
evicted an entry and not yet filled it (`ReadableCounts`). Every step is one
of `PolySpool` or leaves the spool alone, and a theorem says so.

**Service.** `pc` and `at` say where a pass of `tp_service_process` is and
which interface its loop has reached. Frames are packets, or `Malformed` ones
that are too short, of an unregistered type, or refused by the parser. Handlers
the application defines return any status; the weak ones handle Ping and Ack and
pass everything else on to the default handler. A frame of a struct type, or a
Ping of another protocol version at the weak handler, stops the service at an
assertion. The application sends each packet at most once
successfully, and tries again after a refusal. `handled`, `transmitted`,
`acked` and `lost` are history variables.

**Link.** The client sends commands that want acknowledgements, the server
handles them with any status. The line delivers in any order; `lossless` says
whether it also loses at will, while the client's timeouts expire and retries
make duplicates, or loses nothing and is faster than the timeout. A command of a
struct type, or a Ping of another protocol version, takes the server to its
assertion, after which it neither works nor receives. Only the client's clock is
needed: answers are sent once. `MaxSent` bounds the commands sent in a behaviour.

**Codec.** `Base`, `WordMod`, `Seed` and `HeaderSize` are parameters, so that
TLC reaches two-byte sizes and wrapping checksums with short frames. Whatever
the parser reads behind the end of a frame, the cursor ends beyond the length
or the identifier is invalid, so the result is `PACKET_PARSING_ERROR`: the model
reads zeros there. Memory touched by such a read is not modelled.

**JSON.** A text is what its parser makes of it: per field the string or the
number printed, not its characters. What `%s` prints is the block up to the
first zero, so that what an earlier, longer string left behind is seen; a
number is read back in base ten or sixteen as the format of the field says, byte
order included, and what does not fit the `LongBytes` of a `long` comes back as
its limit (`Saturated`; `strtoul` and `strtol` return that type, and four bytes
are the fewest C allows it, `FieldAssumption`). What is found in an array of
numbers, or in a number that was printed as characters, is any byte. Strings are
printed as characters, which is their format unless the descriptor asks for
another one (`CodecAssumption`), and nothing in them is escaped. A quote or a
backslash (`MustEscape`), in the string itself or in what lies behind it, makes
another text of the whole message: it is `Garbled`, what the JSON parser makes of
it is unknown, and the behaviour ends there (`Misread`). Which fields JSON can
carry is `Legible`, and `JsonRoundTrip` promises those only, in whatever company
they travel, of a message that is not garbled.

**Memory.** An array of fields has an identity, because the copy of a packet in
the spool shares it with the application; the block of a field has none of its
own, because `poly_field_copy` is deep. A block knows its bytes and whether it
is live, so that freeing, losing, overrunning or using it wrongly shows as a
`fault`. The spool's entries are there with their trash marks, because these
decide how often a packet is cleaned: a push cleans the packet it evicts, and
whatever the entry held if it carries a mark, which may be the same packet again,
as the mark is never taken off; a packet given up or sent for good has its entry
marked, an acknowledged one has entry 0 marked in place of its own. Priorities,
tokens, attempts and timers are left out: which entry is evicted, and when an
entry is released, is open, which allows all that `poly_spool.c` does. Each array
remembers in `fate` whether the spool cleaned it a second time at its eviction
(`evicted`) or forgot it (`forgotten`); these two are the exemptions of
`MemorySafe` and `OneOwner`, and the findings `spool_double_clean` and
`spool_leak`. The application keeps to the flags: it uses a packet that it built
and that the spool has not taken over, or a reusable one. `written` and `content`
record what the application wrote and what it handed over.

Definitions named `Bug...` are slips a programmer could make; `PROJECT.json`
pairs each property with one that TLC must find.

## 3. Runs

States are distinct states found by TLC.

| Run | Bounds | Shows |
|---|---|---|
| `spool_safety` | 2 entries, 3 packets (two share a token, one has a higher priority), ticks of 1 and 2, limits 1 and 2, timeouts 0, 2 and one above `INT_MAX` (268,856 states) | types, counters, entries, trash marks, attempts, cleaning; final fates are final; timeouts are honoured; `PolySpool` implements `SpoolContract` |
| `spool_liveness` | the threads of `PolySpoolThreads` on 2 entries: 3 packets of which one wants no acknowledgement, one tick size, limits 1 and 2, timeouts 0 and 2 (143,424) | every accepted packet settles; a pop finds what the unlocked count promised; what the process thread holds outside the mutex is disturbed by nothing but a push into its entry |
| `service` | 2 interfaces, 2 entries each, 2 arriving frames out of a request, an acknowledgement, a struct type, a Ping of another protocol version and a malformed frame, a retried command of the application (158,272) | answers stay on their interface; only what was transmitted is acknowledged; frames are parsed, ready packets sent |
| `link` | 2 out of 3 commands, of which one is of a struct type, 2 attempts each, on either kind of line (625,930) | an acknowledged command was accepted by the peer; on the line that loses nothing handled commands are acknowledged, unless the server stopped at its assertion |
| `codec` | base 4; a byte in hexadecimal, a string of 0, 1, 5 or 16 characters or of two of which one has to be escaped, an array of one or two words of two bytes, a signed number of eight bytes where a `long` has four; fields set again and again (271,201) | round trip, single damage detected, packed size within its buffer, JSON carries what it can |
| `memory` | 2 packets, a spool of two entries, three arrays; a string of two characters that is set to three or one, so that it is reallocated (530,674) | no block overrun, lost or used after it was freed, and none freed twice but that of an evicted packet; one owner for every array but those an acknowledgement forgets; what is sent is what was handed over |
| `spool_double_clean`, `spool_leak`, `spool_callback`, `codec_longer`, `codec_empty_packet`, `memory_reusable` | the bounds of `spool_safety`, the first with a fourth packet; those of `spool_liveness`; those of `codec`; two fields; those of `memory` | violations, section 6 |

Two entries are enough for the spool because no operation relates more than two
entries at a time (the one it changes and entry 0, or the one chosen and the
one it is compared with); with three packets of two priorities every eviction,
collision and overflow occurs. The theorems hold for any number. `a`, `b` and
`c` are interchangeable, so `spool_safety` uses them as a symmetry set, as
`memory` does with its two packets; the runs that check liveness use none. Two
interfaces are the fewest between which a service can confuse anything, and two
commands the fewest whose answers can be confused. In the codec one field of
each kind is there: fixed, string, array of larger objects, printed in decimal
and in hexadecimal; the string takes sizes of one, two and three bytes, and sums
wrap. In `memory` both entries of the spool, entry 0 and another one, are filled,
marked and forgotten; with three arrays the two entries are full while the
application still has a packet, or a forgotten array is never reused while the
other two go round. Fields of fixed length, which are never reallocated, and more
than one field are left to the proofs. `MaxFed` bounds the frames fed to a
service, `MaxSent` the commands sent over the link, `MaxArrays` the arrays that
exist at one time, and the retry limits the attempts; packets are pushed once, so
no other counter needs a bound. Deadlock checking is off where the system may
stop: a spool may be torn down, an application may have nothing left to send, a
service may stand at an assertion, a parsed packet ends a behaviour of the codec,
and a memory whose arrays are all forgotten allows no further packet.

**Fairness.** `ThreadFairSpec` of `PolySpoolThreads`: weak fairness of the steps
of the process thread (`tp_service_process` is called in a loop) and of `tick` (a
timer); pushes and `set_retry` are not fair. `FairSpec` of `PolyService`: weak
fairness of the steps of `tp_service_process`; nothing is assumed of the callers,
and `ReadyIsTransmitted` excuses an interface whose transmission is disabled
again and again. `FairSpec` of `PolyLink`: both main loops run and the line
delivers, and this is asked of a `lossless` line only (`Reliably`), the only one
of which `HandledIsAcked` speaks.

## 4. Proofs

All theorems hold for every value of the constants that satisfies the named
assumptions of the modules.

**The spool.** `PolySpoolOpsProofs` proves about the operators what each
operation does to the entries and to the counters (`PushEffect`, `PopEffect`,
`AckEffect`, `TickEffect`), and that it keeps a spool well-formed. The
bookkeeping rests on two facts about finite sets of slots: `MoveEntry` (one
entry changing state changes the counts by one) and
`CountDifference`/`CountUnion` (for the many entries of a tick). `Min` is
characterised by well-founded induction on sets of naturals.

| Theorem | Inductive invariant, and why it is needed |
|---|---|
| `TypeCorrect`, `CountersCorrect` | `SpoolInv`: neither is inductive alone, the counters stay in range because they count slots, and push uses the range |
| `EntriesCorrect` | `EntriesHoldSpooled` with `SpoolInv`; an operation settles exactly the packets of the entries it releases |
| `TrashCorrect` | with `FirstFilled`: if any entry has held a packet then entry 0 has. Without it the mark `poly_spool_ack` puts on entry 0 could be on an empty packet |
| `FinalCorrect` | an action property from `EntriesHoldSpooled`: an operation touches only packets in used entries |
| `RetriesCorrect` | with `AttemptsLeft`: a waiting packet was sent at least once, a ready one that was sent still has attempts under some limit |
| `TimeoutsCorrect` | `TimeoutKept`: the timeout in the spool is the integer the last request converts to |
| `CleaningCorrect` | `CleanInv`: which packets an entry's mark can stand for. An eviction makes a packet `wild`, and only wild ones can be cleaned twice |
| `ContractImplemented` | `SpoolInv`, `EntriesHoldSpooled`, the retry budget and "a packet that waits wants an acknowledgement". The refinement mapping reads a packet's status from the entry that holds it, and `Housed` says that there is exactly one |

**The threads.** `ThreadsImplementSpool` proves that every step between the
critical sections is a step of `PolySpool` or a stutter, so its safety theorems
carry over (`ThreadTypeCorrect`, `ThreadRetriesCorrect`; the two writes of
`set_retry` keep the limits one by one). `ReadyCountReliable` needs that between
the unlocked look and the pop the count never falls to zero, because whoever
evicts a ready packet puts a ready one in its place (`SharedInv`);
`HeldUndisturbed` needs that the packet held is not spooled elsewhere and its
entry was not refilled (`HeldInv`).

**The service.** `ServiceTypeCorrect`, `AnswersCorrect` and `AcksCorrect` from
`ServiceInv`: types, every spool sound (`Sound`: well-formed, with the effects
above), and a ledger that ties every packet of the application to one place
(unsent, spooled, sent, acknowledged) and every answer to a handled request.

**The link.** `AckedCorrect` from `LinkInv`, which follows a token on its way:
what is on the line, in a fifo, in hand or in the server's spool are answers to
commands the server handled (`Answered`, monotone in `sHandled`). The theorem
assumes that the commands have distinct tokens, as the run does;
`AckedTokenCorrect` says what is left without. `LinkTypeCorrect` adds to `LinkInv`
the types it does not speak of (`ClientTypes`, `ServerTypes`, and that the line
stays a bag, `BagsKept`). `AssertionCorrect` says which assertions of
`tp_service_dispatch` can be reached, with that step among those of both ends: the
client comes to none, because only answers reach it, and the server only with a
command that is a struct or a Ping of another protocol version.

**The memory.** `MemoryTypeCorrect`, `MemorySafeCorrect`, `OneOwnerCorrect` and
`ContentsCorrect` from `MemoryInv`: shapes, and for every array (`Sane`) its
owners, its blocks and its contents. The possible owners (`Holder`) are the
packets of the application and the entries of the spool, those in use and those
marked. That entry 0 is filled first, and is in use or marked from then on
(`Shape`), is why the mark an acknowledgement gives it finds an array there. The
lemmas about handing an array over follow the two cleans of a push: the second is
one of what the first has just freed, or of an array nobody else holds, so that
only an evicted packet is freed twice. The loop of the parser keeps every field
sound, by induction over the frame (`InductionSet`, stated for a set of naturals
and proved from its well-foundedness). The theorems hold for any fields, of fixed
length too, and any number of entries and arrays.

**The codec.** `RoundTripCorrect` and `ExcessIsIgnoredCorrect` hold of any
descriptor and contents (the latter says what the code always does where its
comments promise an error, finding `codec_longer`) under three conditions that the
theorems name: the
identifiers (`IdsFit`) and the sizes (`SizesFit`) take at most the four bytes
`poly_var_size_read` takes, and the packed data is no longer than `mDataLen` can
say. `ReadBack` proves that a number of variable size is read back whatever
surrounds it: its digits are its remainders (`Digits`), and the reader stops at the
first byte without the mark. `Layout` says where `poly_packet_pack` puts each
field (`Spreads`, from `FlattenSeq`), `FieldReadBack` that the parser standing
there reads that field and stands at the next one, and `WholeRead` follows the loop
over the fields: absent ones take no turn, and after the last the loop stands
still. The invariant `CodecInv` says that fields stay packable however often they
are set and that the frame stays what `poly_packet_pack` made of them.
`PackedFitsCorrect` adds up both sizes field by field; it asks for identifiers of
one byte and sizes of at most three (`OverheadFits`), which is what the four bytes
`poly_packet_max_packed_size` allows for each field stand for.

`CodecTypeCorrect` follows bytes through everything that touches them: setting,
packing, the parser on a frame nobody packed (`FieldsReadType`: whatever it finds,
its fields stay fields of bytes that lie within their blocks), and the reader of a
text (`PrintedReads`, `CStringBytes`), for which the invariant remembers which text
was printed (`TextInv`).

`DamageDetectedCorrect` is about a sum. One altered byte changes it, modulo
`WordMod` too (`ByteChangesSum`), and a lost end leaves fewer bytes
than the length says (`CutStatus`). An altered length is the hard case: the parser
refuses it unless it names the end of one of the fields (`ShortRead`: until it
comes upon that end the parser reads what was packed, field by field), and then
the bytes checked are those of a packet of only the first fields
(`FirstFieldsData`). Such a frame is a valid shorter packet unless the checksum
tells, which it does when the bytes behind that field do not add up to a multiple
of 2^16: the hypothesis `TailsSeen`, needed for an altered length only.
`ShortPacketDamageDetected` discharges it for packets of at most 256 bytes of
data: an identifier that follows another is not zero (`NextIdentifier`), so the
sum grows, and so few bytes cannot bring it round to where it was (`TailCounts`).
The invariant `DamageInv` says that the frame is the packed one, damaged once.

`JsonRoundTripCorrect` follows a packet through its text to the handler, directly
or through another frame, if none of its strings has a quote or a backslash where
it is printed (`~Garbled`). A number is its bytes (`BytesBack`), which a `long` of
as many bytes holds (`SaturatedIs`, so `NumberCarries`), a string that ends within
its block is printed as it is, whatever lies behind
(`EndsWithin`, `StringCarries`), and everything else is still read as some
content that can be packed (`FieldCarries`), so that a field JSON mutilates does
not harm the others. `JsonInv` says that the text is one of the packet, that a
frame made of it carries fields `Faithful` to the packet, and that what is parsed
is what JSON promises. Beside `IdsFit` the theorem asks that four bytes are enough
for the size of anything a field is read as (`JsonSizesFit`, one byte more than
`SizesFit` because `%s` may run past the block), and that the frame made of the
text is no longer than `mDataLen` can say.

In `codec` the conditions on the constants and on the length hold, and so does
`TailsSeen` in every state; short packets, there, are those of up to eight bytes.

Only model-checked are the liveness properties, which like `ENABLED` are beyond
TLAPS as used here; every invariant and action property of the passing runs is a
theorem. What the recursive functions of the codec compute (`CheckSum`,
`NumberOf`, `BytesOf`, the loop of the parser) is proved from their equations by
induction over sets of naturals (`InductionSet`, `Loop`, `OneLoop`); of the folds
that build a descriptor nothing is used but `CodecAssumption`.

## 5. Not modelled

- *External code*: the COBS fifo (a sequence of frames), the mutex (a critical
  section is one step), the JSON parser (a text is what it makes of it).
- *Service start and teardown*: `poly_service_init`, registration and
  `poly_service_start` run in one call before anything else, and the state they
  leave is the initial state; callbacks are taken to be registered before the
  first packet is sent. `poly_service_deinit` frees what nothing uses any more.
- *JSON messages of an unknown type*, which make the library pack or read an
  uninitialised packet; header attributes; floating point, for fields and in
  JSON.
- `poly_field_bind` and fields without memory of their own (nothing calls for
  them), and the plain setters and getters generated for each field (wrappers of
  `FieldSet` and `Content`).
- Diagnostics that the code never updates (`mPacketsIn`, `mPacketsOut`,
  `mSuccessfulMessages`, `mSeq`, `f_mFailedCallback`). No duplicate suppression
  exists in the code, and none is claimed: a retried command may be handled twice.

## 6. Findings

| Run | Disagreement |
|---|---|
| `spool_double_clean` | the trash mark is never taken off: an evicted packet may be cleaned twice, or another one while it is spooled |
| `spool_leak` | `poly_spool_ack` marks entry 0 instead of the entry it frees: acknowledged packets leak |
| `spool_callback` | `poly_spool_ack` reads the callback from the entry after it unlocked the spool: a push in between makes the callback of another packet run |
| `codec_longer` | a buffer that is longer than its frame parses as `PACKET_VALID`, where `poly_packet.h:194` and `poly_service.h:164` and `:177` promise `PACKET_PARSING_ERROR` for it (missed delimiter) |
| `codec_empty_packet` | a packet with none of its fields set is never parsed |
| `memory_reusable` | `poly_packet_reset` leaves a reusable packet the mutex that the spool will delete |

Other disagreements met while modelling, which the models show but no run is
spent on:

- `poly_service_set_retry` stores a `uint32_t` in an `int`: a timeout above
  `INT_MAX` reads as "no acknowledgements". `TimeoutHonoured` excludes it.
- `mAttempts` counts the first transmission, so "number of retries"
  (`poly_service.h:142`) is one too many: `RetryBudget` says what the limit means.
- A frame of a registered struct type is valid and takes `tp_service_dispatch` to
  the `assert(false)` below "we should never get here"
  (`UT/testService.c:169`), and a Ping of another protocol version fails the
  assertion of the weak handler: `DispatchAsserts`.
- `tp_service_process` ignores the status of `tp_send`, so the answer to a handled
  request is dropped when the spool is full: the variable `lost`. With the bounds
  of `link` the server's spool is never full, so `HandledIsAcked` need not excuse it
  and does not show it.
- Equal random tokens let the answer to one command acknowledge another:
  `AckedWasHandled` is checked with distinct tokens only, `SpoolContract` says what
  is promised without.
- `tp_send` marks a reusable packet as spooled although it has fields of its own
  again, so `tp_clean` never frees them: only `poly_packet_clean` does (`Destruct`).
- `mMaxPacketSize` of a descriptor leaves out the field identifiers, so a full
  packet exceeds it, and `poly_packet_update_header` and
  `poly_service_feed_json_msg` pack into buffers of that size: the state
  `overrun` of `PolyPacketCodec`. `poly_service_start` looks for the maximum from
  a value nothing has initialised.
- `poly_service_despool_interface` packs fields that another thread may have
  freed, after `poly_spool_pop` unlocked; `OnlyRefillDisturbs` shows that it takes
  a push into that very entry.
- The loop of `poly_spool_deinit` runs to a bound it has just cleared, so nothing
  is cleaned.
- A string is printed with `%s` from its block: what a longer string left behind
  is printed too, and a block that is full has no terminator. Numbers of several
  bytes printed in hexadecimal come back with their bytes reversed. Of an array
  one number is read back, and a number wider than a `long` comes back as the
  limit of that type. The test's `"sensorA":"0x6ca"`
  (`UT/PolyService_C_UT.cpp:187`) is read in base ten, as 0. `Legible` is what is
  left.
- A string is printed without escaping (`poly_field.c:331`), so one with a quote or
  a backslash spoils not only itself but the message: other fields may be lost,
  changed or added, or nothing is read at all (`Garbled`, `Misread`).
- The JSON of a packet without present fields ends in a comma.
  `poly_service_parse_json` frees the parsed message only when it fails, and
  `poly_service_feed_json_msg` goes on after a failure. An Ack made of JSON carries
  a token without the ack bit. A `TYPE_DOUBLE` field is filled from a
  variable that was never set (`poly_field.c:310`).
- The checksum is a sum: a frame whose length was altered to the end of an earlier
  field is taken for the packet of the fields before it if the bytes it drops add
  up to a multiple of 2^16, which takes more than 256 bytes of data
  (`TailsSeen` in `PolyPacketCodecProofs`).
- `poly_service_start` computes a fifo depth to "ensure fifo is on 8byte alignment"
  (`poly_service.c:80`) and never uses it.
- `poly_service_start` clears the transmit callbacks: those registered before it
  are gone. The generated code registers them afterwards.
- `poly_packet_desc_add_field` drops fields beyond the declared number without a
  word (`AddField`).
- After `tp_send` a packet that is not reusable is still built, and the setters
  reach fields the spool owns (`poly_packet.c:190`); the models let an application
  use only what it owns.

## 7. Plan

What is left, in the order of its worth: registration, callbacks and start of the
service as actions, with two services of different depth in one program; a theorem
that a buffer of `mMaxPacketSize` bytes is overrun only by identifiers, and by how
many.

The order so far was that of the damage a mistake would do: the spool is shared
by threads and everything else relies on it, so it came first with its contract
and its proofs, then the service that drives it, then two services together, then
the codec and the memory of packets, and last the threads and JSON.
