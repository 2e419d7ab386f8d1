# Verification of nckernel

nckernel is a library of network-coding protocols in C and C++.  An
application puts source packets into an *encoder*, takes coded packets from it
and sends them; at the other end it puts what arrives into a *decoder* and takes
source packets out; *recoders* on the way combine what they have received.  Each
protocol brings its own encoder, decoder and perhaps recoder, and they talk to
each other in a feedback packet.  The library never sends, sleeps or starts a
thread: everything happens inside a call of the application, or inside a timer
callback that the application's main loop runs.

This directory holds TLA+ models of that code, the TLC configurations that check
them on small instances, and proofs that TLAPS checks for every value of the
constants.  `PROJECT.json` names, for every definition, the lines it models.

Contents: 1 inventory, 2 how the code is modelled, 3 modules, 4 runs, 5 what the
runs show of the code (disagreements), 6 fairness, 7 proofs, 8 not modelled,
9 plan.

## 1. Inventory of the system

### Parts, their state and their operations

An encoder offers `put_source`, `full`, `has_coded`, `get_coded`, `flush_coded`,
`put_feedback`; a decoder `put_coded`, `has_source`, `get_source`,
`flush_source`, `has_feedback`, `get_feedback`, `complete`; a recoder both.
`src/nckernel.c` and `include/` dispatch these calls through a table; there are
*triggers* (`on_coded_ready`, `on_source_ready`, `on_feedback_ready`) that call
the application back from inside a call.

| Part | State | What is hard about it | What makes it correct |
|---|---|---|---|
| CODARQ encoder `src/codarq/encoder.c` | list of containers (one per open generation: kodo encoder, rank, planned packets, last sequence number), `to_send`, `gen_newest`, `seqno`, repair timer | two counters for one plan, changed in five places; feedback that is late, repeated, overtaken; a timer armed and cancelled in three places | counters agree, the assertion in `get_coded` holds, it is never silent while it holds data, it drops nothing that may still be needed |
| CODARQ decoder `src/codarq/decoder.c` | list of containers, `gen_newest`, `gen_oldest_deleted`, `last_seqno`, feedback flag and timer | packets of any generation in any order; generations end across deletions; feedback that says what is missing | symbols leave once and in order; every packet finds its container; feedback asks only for what is missing |
| GACK `src/gack/` | encoder: one generation and three flags; decoder: one kodo decoder, an index, one pending feedback; recoder: the same, and what it has promised | an acknowledgement ends a generation, there is no other progress; a recoder answers in the decoder's place | an acknowledgement means decoded; no generations mixed; everything arrives |
| Timer schedule `src/timer_schedule.c`, `src/timer_base.c` | a list ordered by start time, the clock | callbacks change the list that the loop is walking | in order, once, not early, not after a cancel; the loop ends; the time returned is exact |
| GSAW `src/gsaw/` | one generation, a count of packets left, acknowledgement | stop and wait without a timer, although docs/protocols/gsaw.rst speaks of a timeout | as GACK; a generation is given up only when it was decoded |
| NOACK `src/noack/` | one generation, packets left, flush timers of encoder, decoder and recoder | progress without feedback, timers that flush a half-full generation while packets of it are still in flight | no symbol twice or out of order, nothing decoded is dropped but what was left unread for two generations, the encoder never stays full with nothing to send |
| NOCODE `src/nocode/` | one packet slot in each coder | a second packet overwrites the first | what leaves was put in |
| PACE `src/pace/` | one generation, packets to send so far and in the tail, feedback on a rank that stands still, a queue of flushed symbols; a recoder that is both ends | the next generation flushes the last one into a queue that may not be empty; feedback of an earlier generation | as NOACK |
| PACEMG `src/pacemg/` | PACE with a list of open generations on both sides, all reported in one feedback | as CODARQ; an encoder that adds a generation drops the oldest; callbacks that free what the caller goes on using | as NOACK; nothing given up that a decoder still lacks; the encoder's assertions |
| Tetrys `src/tetrys/` | elastic window of symbols on both sides, rows of a Gauss elimination | feedback names symbols that may be gone; a new window lays aside rows that are not read | as NOACK; never drops what is missing; the encoder's assertion |
| Sliding window encoder `src/sliding_window/encoder.cpp` | a kodo window, per slot: enabled, systematic, attempts left, the packet that last carried it; `source_symbols`, `feedback_first_missing`, the rate control, a timer | a slot is used again as soon as it is free; feedback tells of slots, not of symbols, and of a window that has moved since; planned retransmissions are counted in three places | the window never moves past what the decoder needs; the counters agree, the assertions hold; every lost symbol is sent again |
| Sliding window decoder `src/sliding_window/decoder.cpp` | a kodo window, a ring buffer, a flush point, a queue of symbols that had to leave, a cached `has_source`, two timers | the window is moved by packets, the ring by the application; what is not taken in time leaves the window; the consumer may call from inside the call that moves both | symbols leave in order, once, and none is skipped that can still come; the cached flag is true of the ring |
| Sliding window recoder `src/sliding_window/recoder.cpp` | the decoder's state, and which symbols it may combine, credits, the packet a flush is for, the last feedback | window and ring are moved by packets from one side and by feedback from the other; credit is spent before it is known what is drawn | as the decoder; every packet that is due is paid for, a flush is passed on |
| Interflow `src/interflow_sw/` | the three sliding window coders again, with encoders (*nodes*) that share the numbers of one stream | a number is made from a symbol and a node in the header, but not in repair packets and feedback | as the sliding window, for each flow |
| Ring buffer `contrib/rbufmgr.h` | how many blocks are readable, up to which number, in which slots | boundaries: full, empty, a jump by more than the ring | numbers map to slots one to one |
| Rate control `src/util/rate*` | phase counters, credits | integer boundaries; a packet counted on but not sent | redundancy over systematic packets as configured |
| Chain `src/chain/` | a list of stages | triggers move packets between stages inside one call | nothing stays between two stages |
| Kodo wrapper `src/kodo.c` | none of its own | which symbol is decoded, what a packet may contain | |
| skb, segments, options, registry, tracing, finite field arithmetic, libevent timer | buffers and tables | sequential code | |
| Examples and tests | simulator with lossy, jittery paths | clients of the library | |

### How the parts interact

* **Calls.**  The application calls encoder, decoder and recoder.  A call runs
  to its end; there are no threads.  Interleaving is at the level of calls.
* **Messages.**  Coded packets and feedback travel through a network that the
  application provides.  `examples/simulator_common.c` loses packets at random
  and delays them with jitter (which reorders them); nothing in the library
  forbids repetition.
* **Callbacks.**  Triggers call the application from inside a call; timers
  call protocol code from `nck_schedule_run`.
* **Shared state.**  Parts share nothing but the timer schedule.

### Behaviours that are hard

Reordering and loss of packets and of feedback; feedback that describes a state
that has passed; timers that race with answers; 16- and 32-bit arithmetic on
numbers that travel; pairs of counters that must agree; callbacks that change
what the caller walks over.  `PROJECT.json` lists each with its line under
"hazards", with the properties that would catch it.

## 2. How the code is modelled

* **One action per call.**  An action is a whole handler: everything the C
  function changes, in one step.  Its guard is what the documented protocol
  requires of the caller (`get_coded` after `has_coded`, `put_source` while not
  `full`) or the code's own early return.
* **Triggers are later steps, or `eager`.**  `on_coded_ready` and its like only call
  the application, which then calls `get_coded`.  The models let the application
  make that call as a step of its own: at once, later, in part, in another
  order.  What is lost is a call made from *inside* the trigger, before the
  triggering function returns.  In the CODARQ and GACK code what follows a
  trigger in the same function only sets a timer, or calls another trigger, from
  the state as it then is, so that the later step comes to the same.  In the sliding
  window coders and in NOCODE, NOACK, GSAW, PACE and Tetrys the function goes on
  with what the consumer left; there the option `eager` says whether the consumer
  takes the symbols inside the call.
* **Applications read when they like.**  The library asks of nobody to empty a decoder
  before the next packet, and neither does `receive_data` of the simulator: between two
  packets the application of the models takes all that is ready, a part, or nothing.
  GACK's orderly application and, in `NckNet`, the option `drain` are the exceptions:
  with it all is read before the next packet or flush.  PACEMG's networks have it, and
  one of GSAW's; section 5 says what happens without.
* **Coding.**  `Rlnc` models kodo over GF(2).  A coding vector is the set of the
  symbols it combines, a decoder is the set of all vectors it can produce.  Rank,
  "symbol decoded" and "innovative" are exact; random coefficients are a
  nondeterministic choice among all vectors, the zero vector included.
  The systematic phase sends the symbols in order first.  Payload bytes are the
  slot (generation, position) they came from.
* **Integers.**  The CODARQ sequence number lives in a space of `SeqSpace`
  numbers and the rank difference of the feedback wraps at `RankSpace`: 2^32 and
  2^16 in the code, small here.  Generation numbers and the numbers of the
  sliding window do not wrap; the slots of its window do.
* **Timers.**  In CODARQ a timer is a Boolean: armed or not; an armed timer may
  expire at any time.  That the schedule calls armed entries back, in order, and
  not after they were cancelled is what `TimerSchedule` shows.
* **Channels.**  A sequence of packets in flight for each hop, and options that say
  whether it may lose, reorder or repeat them (in `SwLink` and `NckNet`: how often).
* **Options.**  `GackLink`, `SwLink` and `NckNet` take a set `Options` of records: the
  options of the coders, the topology, the applications' habits and the bounds.  The
  variable `opt` is one of them, chosen in the initial state and never changed, so
  that one run looks at several configurations.
* **State.**  CODARQ, GACK and the timer schedule keep their state in variables.
  The other coders keep it in one record each, `enc`, `rec` and `dec`, with the
  names of the C structure, and an operation is an operator from the record before a
  call to the one after, because the calls use each other (a recoder is a decoder
  and an encoder, a container of PACEMG a decoder of PACE).
* **History variables.**  `sent`, `delivered` and the field `read` hold the slots
  accepted from and handed to the application; `rec_read` the generations a recoder
  has read.  `dec_lost` records that CODARQ's `put_coded` would fail its assertion or
  loop for ever, the field `failed` that an assertion of the other coders failed.

## 3. Modules

| Module | Models |
|---|---|
| `Rlnc` | coding vectors, spans, rank, systematic phase (`src/kodo.c`, external kodo) |
| `ReliableStream` | abstract: a stream that delivers each symbol once, in order |
| `Codarq` | CODARQ's packets, feedback and serial arithmetic |
| `CodarqEncoder` | `src/codarq/encoder.c`: `EncPutSource`, `EncGetCoded`, `EncRepairTimeout`, `EncPutFeedback` |
| `CodarqDecoder` | `src/codarq/decoder.c`: `DecPutCoded`, `DecGetSource`, `DecGetFeedback`, `DecSendFeedback` (timer) |
| `CodarqLink` | encoder, decoder, applications and two channels; refines `ReliableStream` |
| `Alarms` | abstract: alarms that are set, unset and go off |
| `TimerSchedule` | `src/timer_schedule.c`, `src/timer_base.c`; refines `Alarms` |
| `Gack` | GACK's packets; `kodo_skip_undecoded` |
| `GackEncoder`, `GackDecoder`, `GackRecoder` | `src/gack/encoder.c`, `decoder.c`, `recoder.c` |
| `GackEnds` | encoder, decoder and applications; refines `ReliableStream` |
| `GackLink` | the ends joined by channels, directly or over a recoder (topology `single_rec` of the simulator) |
| `MCGackLink` | the configurations of GACK that the runs look at |
| `LossyStream` | abstract: a stream that may skip symbols, but hands none out twice or late |
| `Generation` | what the coders of one generation share: slots, the decoder's index, `kodo_flush_source` and its queue |
| `Nocode`, `Noack`, `Gsaw`, `Pace`, `Pacemg`, `Tetrys` | the protocols of the same names, each with the coders it has |
| `Nck` | the interface: `src/nckernel.c` and the headers under `include/` call a coder of one of these protocols |
| `NckNet` | encoder, decoder and perhaps a recoder with the applications of the simulator; refines `LossyStream` |
| `MCNckNet` | the 22 networks that the run looks at |
| `RingBuffer` | `contrib/rbufmgr.h` |
| `RateControl` | `src/util/rate.h`, `rate_dual.c`, `rate_credit.c` |
| `SlidingWindow` | options and the kodo sliding window coders (external) under all three coders |
| `SwEncoder`, `SwDecoder`, `SwRecoder` | `src/sliding_window/encoder.cpp`, `decoder.cpp`, `recoder.cpp`; `src/interflow_sw/` |
| `SwLink` | sliding window encoders and a decoder, directly or over a recoder, with applications and channels; interflow headers |
| `MCSwLink` | the configurations of the sliding window that the runs look at |
| `DataLemmas`, `RlncLemmas` | facts about sets, sequences, minima, maxima and spans |
| `CodarqEnds_proof`, `CodarqLink_proof`, `GackLink_proof`, `NckNet_proof`, `SwLink_proof`, `TimerSchedule_proof` | theorems |

Definitions keep the names of the code with a prefix for the part (`enc_`,
`dec_`, `rec_`).  Definitions whose comment begins with "Mutant" are the plausible
bugs that show each property able to fail; nothing uses them otherwise.

**CODARQ.**  The sorted container list is a function from generations to
containers; `cont_oldest` and `cont_newest`, refreshed after each insertion and
deletion, are its ends.  `EncPutFeedback` is the whole handler: delete what is
delivered, fill plans of containers whose last packet the report covers, cancel
or re-arm the timer.  `DecPutCoded` has the three ways through the function:
packet of a delivered generation (feedback only), container found or opened,
and neither (which the code asserts not to happen).

**Timer schedule.**  `nck_schedule_run` is taken apart at its callbacks: `Run`
enters, `CallBack` unlinks the first due entry, the callback makes any number of
calls (`Add`, `Rearm`, `Cancel`, `Free`), `CallbackReturns`, and `RunReturns`
computes the time to the next entry.  A cancelled entry is called back with
success 0, on which every callback of the library returns at once: `Cancel` is
one step.

**GACK.**  An *orderly* application is the simulator's: it fills a generation
before it sends, drains the decoder before anything else happens there, and
flushes the encoder only at the end of its data.  A free one calls whenever the
interface allows it.  `DecPutCoded` begins with the move to the next generation,
which a complete decoder makes on whatever packet comes.

`DecPutCoded` and `RecPutFeedback` answer for the next hop in the
decoder's place; a feedback is one frame that the recoder and, if it is near
enough, the encoder hear at once.

**NOCODE to Tetrys.**  One operator per function of the protocol's table; `Nck` is the
table.  The helpers `CASE` over the protocol are the dispatch, nothing else.
`Generation` holds `kodo_flush_source` as the code has it: it copies the
decoded symbols behind the index into a queue, skipping what is not decoded.
PACE computes in hundredths of a packet, rounded as the code rounds.  A PACEMG
container is a decoder of PACE without feedback; its feedback is a list of all
containers.  `PacemgEncList` is the encoder with other containers, `gen_newest` then
being the newest one's number as `nck_pacemg_enc_update_stat` sets it, which may be a
step back.  `PacemgDecPutCodeds` is a set, because the code may read a container
that its callback has freed.  Tetrys' rows are vectors of the window, reduced
against each other as `put_coded` does, over GF(2) instead of GF(256); `missing` in a
feedback is what `get_feedback` leaves uninitialised where it writes no id, which is
the option `zero` (section 5).

**Sliding window.**  kodo's sliding window decoder is a span and a sequence number: a
decoder without rows takes over any sequence number; when the window moves, the rows
whose pivot leaves it go and the others stay; a vector that is out of the window, or
reaches out of it, is not read.  `EncPutFeedback` is the whole handler: the loop over
the symbols the feedback covers is a fold that carries the encoder, the losses
counted, the retransmissions planned and the repair packets in flight that were
already counted on.  `DecPutCoded` runs through the function in its order: skip and
queue what the packet pushes out of the window, read the packet, look at the head of
the ring, decide on feedback and timers, call the consumer.

**Sliding window recoder.**  A recoder extends the decoder's record: the two C files
share their source half line by line, and `SwRecoder` names the decoder's operators
where they do; they part in `RecConsumeOld`, where the recoder does not count the lost
blocks again after the consumer was called.  Its window is moved by packets
(`RecPutCoded`) and by feedback ahead of it (`RecCatchUp`); `enabled` marks the slots it combines.

**Interflow.**  `interflow_sw/decoder.cpp` and `recoder.cpp` are the sliding window's
files with the names replaced, `encoder.cpp` differs in the header it writes.
`Global` is the number of a flow's symbol in the common stream, `Header` what the
header says.  A repair packet names its symbols by slots of a window the decoder
believes to be its own, as in the code.

## 4. Runs

All runs have two symbols per generation or window: the smallest number with a systematic
phase, coded combinations, a partly decoded and a partly filled generation.
Every model stops when its bounded input is used up, so deadlock is not checked.

| Run | Question | Bounds and why they are enough |
|---|---|---|
| `codarq_disorder` | Is CODARQ a reliable FIFO over a channel that does everything wrong, and do the encoder's counters and its timer hold? | 3 symbols (a full generation and a partly filled one), 5 coded packets, window of 2; two packets and a feedback in flight so that each may overtake, repeat and be lost; both timers may expire at any time |
| `codarq_fifo` | With order kept: are windows respected, containers found, ranks never ahead, plans never for more than a generation has, and repairs only for what is missing? | 5 symbols, three generations with a window of 2: the window fills and moves |
| `codarq_live` | Does every symbol arrive, does a full encoder get room again? | window 1, so that it is full at once and the last feedback matters; `SeqSpace` 4 so that sequence numbers wrap |
| `codarq_reorder_plan` | (disagreement) | |
| `timer_schedule` | Does the list stay in order, do entries go off as alarms do, is the time returned exact, does nothing starve and every run end? | three entries: one can be put before, between and behind the others; clock up to 3 |
| `gack` | Does an acknowledgement mean decoded, is GACK a reliable FIFO, does everything arrive and get acknowledged, also over a recoder, and what holds for every application? | 5 configurations.  Direct and orderly: 6 symbols, three generations, so that the decoder's move to the next generation, old packets and old feedback all occur, with two packets and two feedbacks in flight.  Free applications: 2 symbols with two packets in flight, 3 with one, flushes on both sides, every fault.  Over a recoder: 5 symbols with one packet on each hop, and 2 with two |
| `gack_lost_ack` | (disagreement) | |
| `sw_lossy` | Are the sliding window coders reliable and in order when they are configured to be, do the counters and assertions hold, and what holds when they give up? | 12 configurations: three reliable, two that give up, four over a recoder, three with interflow headers; with consumers that call from inside `put_coded` and ones that do not.  A window of 2 and 3 symbols, so that slots are used again and the window moves past symbols; 5 packets, two of them in flight in any order, one or two losses or repetitions of packets or feedback, timers that expire at any time.  Over a recoder, which squares the interleavings, 2 or 3 symbols, 3 packets, one on each hop, one or two feedbacks and one fault (5 symbols and two faults where nothing is repaired) |
| `sw_live` | Does every symbol arrive? | 3 configurations; 4 symbols, twice the window; 3 losses or repetitions; the limit of 30 packets is never reached |
| `sw_coded_retrans`, `sw_lost_flush` | (disagreements) | |
| `nck_net` | Is what NOCODE, NOACK, PACE, PACEMG, GSAW and Tetrys deliver an honest part of what was put in; is anything decoded dropped or given up early; does a full encoder take symbols again? | 22 networks: each protocol with consumers that read in the callback and ones that read between packets, at once, later or in part (PACEMG only with one that reads all at once, section 5), with and without a relay where it has one.  3 symbols, a full generation and a partly filled one, or 5, three generations: so that an unread queue of NOACK and PACE can be overwritten, and where generations or acknowledgements of different ones must meet; or a window of 2 or 3; one or two packets in flight on each hop, in any order where the protocol can tell; one loss of a packet or a feedback; timers that expire at any time.  NOACK with and without redundancy.  PACEMG with two generations at a time and with three, the smallest number with which the newest can be done before the oldest (the code's default is eight) |

In the direct and relayed configurations of `gack` feedback is not lost (losing the
last acknowledgement is what `gack_lost_ack` is about); for the safety properties that
leaves nothing out, because a feedback may stay in flight, or unsent and overwritten,
for ever.  `MaxCoded` and `MaxPlanned` cap the CODARQ counters in the guards of
`CodarqLink`; `MaxTime` caps the clock in `SetTime`; `FlushSource` of GACK is capped
by `source`, because every flush moves the decoder a generation on; `packets` caps what
an encoder of the sliding window or of PACEMG sends, which number their packets,
`reports` the feedback of the sliding window decoder.

In the runs of the sliding window `zero` is FALSE: no repair packet has all
coefficients zero, but a recoder with nothing enabled can draw no other.  Section 5
says what such a packet does when the channel also reorders; without reordering it
only costs time, but nothing bounds how often it is drawn.  In `sw_live` the timers
are `patient`: they expire when nothing is in flight, which is what a timeout above
the round trip time means.  The safety of `sw_lossy` does not rest on it.

In `nck_net` the option `fill` is the simulator's habit of filling the encoder before
packets are taken; `flush` flushes both ends at the end of the data; `timeout` says
whether the coders have timers; `tap` whether somebody reads at the relay.
Networks with a relay have timers or losses, not both, but for NOCODE: the two
together have too many interleavings.

Properties worth a second look:

* `NothingDroppedEarly` relates the encoder's deletions to the decoder's
  deliveries over everything in flight between them.
* `RepairsOnlyMissing`: a feedback fills a plan only if no packet of that
  generation is in flight, and then with no more than the decoder still lacks.
* `EncNeverSilent`: no order of calls, feedback and expiries leaves an encoder
  with data, no plan and no timer.
* `AckedIsDecoded`, `AnswersForDecoder`: what an acknowledgement means, also when
  a recoder gives it in the decoder's place.
* `NothingOverrun` and `FreedIsSeen` relate what the sliding window encoder has given
  up, by window and by slot, to what the decoder can still decode.  The second is the
  subtle one: the feedback reports a slot as arrived when some row has it as its pivot,
  although it may not be decoded yet.
* `HeadIsReady` ties a flag that is cached across calls to a window and a ring that
  packets, the application and, in the recoder, feedback move.
* `ReadInOrder` covers every flow, also when symbols are given up, and what a consumer
  at the recoder gets; `NoneMissing` is the other half of a reliable stream.
* `OnlyUnreadIsOverwritten` looks at all ways a decoder has to leave symbols behind: the
  next generation, a flush by the application or by a timer, a row that is evicted,
  a container that is pushed out.  What it lets go is what the code does overwrite:
  when a generation begins NOACK and PACE queue what is unread of the last one, and
  the queue of the one before that, unread still, goes (`pace/decoder.c:258`,
  `noack/decoder.c:188`); NOCODE has room for one symbol.  A symbol that was flushed
  over while it was not decoded counts as lost: it "can never be recovered again"
  (`nckernel.h:201`), also where a packet decodes it later.
* `NoAssertFails` needs both ends of PACEMG: the encoder's assertion is about a rank the
  decoder noted, under a number the encoder may have given out again; it says exactly
  until when it holds (`NumbersApart`).
* `GivenUpIsSettled`: a feedback, late or echoed by a recoder, makes an encoder let
  go only of what some receiver has, or is past.
* `InOrder`, `StreamSpec` and `GoesOffInOrder` are refinements of `ReliableStream`,
  `LossyStream` and `Alarms`.

## 5. What the runs show of the code

1. `codarq_reorder_plan`: the CODARQ decoder takes the encoder's rank from every
   packet, also from an overtaken one, and reports a 16-bit difference that wraps;
   the encoder then plans up to 65535 packets.  Data is not lost
   (`codarq_disorder`), the encoder just keeps sending.
2. `gack_lost_ack`: when the last acknowledgement of a generation is lost, the
   decoder never gives another.
3. `sw_coded_retrans`: with `coded_retransmissions` a lost symbol is planned as one
   more repair packet.  Every feedback that later reports it as arrived takes one
   packet back, also the second: the encoder's assertion on `repair_counter` fails, or
   the counter becomes negative.  One lost packet is enough.
4. `sw_lost_flush`: a sliding window recoder pays for the packet that is to carry a
   flush when the flush arrives (`recoder.cpp:496`, "on a flush, definitely send a
   packet"), spends the credit before it draws (578), and throws the packet away when
   all coefficients are zero, which feedback that disables every slot makes certain
   (586).  `flush_next` stays set with no credit, and as it is set no later flush is
   paid for either.

### Observations

Other behaviour, met on the way, that contradicts no line of the repository or is left
out of a property, whose definition then says so.  Where an option is named, a
configuration with it shows the behaviour in TLC; where a condition of a property is
named, TLC finds the property violated without it on the networks of `MCNckNet` and
the configurations of `MCSwLink`.

GACK and GSAW:

* A GACK decoder acknowledges, with full rank, a newer generation of which it has
  nothing.  With an orderly application it is unreachable that the encoder believes
  it (`AckedIsDecoded`); with `orderly` FALSE it loses a generation.
* The GACK recoder's branch for delayed packets repeats the comparison of the branch
  before it and cannot be taken; such a packet is mixed into the present
  generation.  `OneGeneration` holds only for hops that keep the order.
* Flushing a GACK encoder that is empty or just acknowledged marks it full
  (`gack/encoder.c:102`): `put_source` is then never wanted again.  The simulator
  flushes only at the end of its data.
* GSAW sends a generation and waits.  When its packets or the acknowledgement are lost
  nothing is sent again: there is no timer, although by docs/protocols/gsaw.rst a coded
  packet is sent again after a timeout.  `Reopens` leaves GSAW out for this reason.
  Without `fill`, a report on the half-filled generation ends it while the encoder goes
  on counting the symbols that came later (`GivenUpIsSettled` fails).
* A GSAW decoder goes to the next generation when its application has read all of the
  present one.  A packet of the next that arrives before is dropped and answered with
  full rank (`gsaw/decoder.c:155`): "decoder has full information"
  (`gsaw/encoder.c:168`), and the encoder gives up what the decoder never had.
  `GivenUpIsSettled` asks for `drain` or `eager` of GSAW's networks for this reason.

NOACK:

* An encoder with redundancy 0 that is flushed, by the application or by its timer, when
  it has sent all it had is full and has nothing to send, and only sending makes it not
  full (`noack/encoder.c:142`, `193`): it stays so, although the timeout is documented
  as the time until "the generation is closed" (`docs/protocols/noack.rst:15`).
  `Reopens` asks for redundancy.

PACEMG and Tetrys:

* Deleting a container sets PACEMG's `gen_newest` to the newest that is left
  (`pacemg/encoder.c:81`, `102`).  With three or more generations at a time
  (`max_active_containers`, by default eight) and one loss, on paths that keep the
  order, the newest may be done before an older one; the next generation then gets its
  number again (141).  A report on the earlier generation of that number has a higher
  rank than the encoder, and `assert(rank_missing >= 0)` (714) fails; or it reports
  full rank, and the encoder takes the later generation, which is not even full, for
  "fully delivered" (728) and deletes it.  `NoAssertFails` therefore ends with
  `NumbersApart`, and in `StreamSpec` and `GivenUpIsSettled` a slot of such a network
  names the symbols of both generations.
* PACEMG's decoder reports the encoder's rank of the packet that arrived last.  With
  `reorder` an overtaken packet sets it below the decoder's own rank, and the
  encoder's `assert(rank_missing >= 0)` (`pacemg/encoder.c:714`) fails:
  `NoAssertFails` is violated.
* A PACEMG container that is flushed twice begins its queue again
  (`pacemg/decoder.c:370`): what an application has read of the queue by then it gets a
  second time.  Without `drain` a PACEMG network violates `StreamSpec`.
* A PACEMG consumer that reads in the callback (`eager`) frees the container that
  `flush_container` and `flush_source` go on with (`pacemg/decoder.c:362-374`).
* On `nck_flush_source` a decoder "should react by making all decoded source symbols
  available" (`nckernel.h:199-200`); Tetrys' does nothing, PACEMG's moves each
  container's index but `has_source` looks at the oldest only.  `FlushedIsAvailable` leaves both out.
* Tetrys' `get_feedback` writes an id it has not initialised when the decoder holds
  no row (`tetrys/decoder.c:628`, `658`).  Below the encoder's window it makes
  `assert(symbol->id <= missing_id)` (`tetrys/encoder.c:289`) fail: with `zero`,
  which lets a first packet of all zeros arrive, `NoAssertFails` is violated.

Sliding window:

* A decoder whose rows have all left takes over any sequence number.  With `zero` and
  `reorder` an overtaken packet moves such a decoder back, and a symbol is delivered
  twice (`ReadInOrder` fails).
* When the window moves on, the decoder counts the blocks it has to queue again after it
  has called the consumer, because the count "is not accurate anymore!"
  (`decoder.cpp:369`).  The recoder, whose function has the same task, does not
  (`recoder.cpp:381`): after a consumer that read in the callback it takes as many
  blocks too many.  When the ring is empty `rbufmgr_read` returns slot 0, and the symbol
  there, perhaps just handed out, is queued and handed out again.  `ReadInOrder` leaves
  out what an `eager` consumer at a recoder (`EagerRelay`) gets.
* Without the option `sequence` a decoder takes the first number that arrives for the
  first: what was sent before is given up.
* `nck_sw_enc_free_symbols` frees the slots of `seq - rank + 1 .. seq`, one beyond the
  symbols in the window; modulo the window these are the same slots when it is full.
  When it is not, the oldest symbol stays.
* Feedback is numbered from 0, and the recoder takes 0 for the last number it has
  heard (`recoder.cpp:790`): it ignores the first feedback.
* `apply_feedback` hands `apply_forward_window` a sequence number where it expects a
  distance (`recoder.cpp:723`), and moves kodo's window but not the ring; when the
  packet follows, the rate control is advanced over the same symbols again.
* Interflow: `n_nodes` is 0 unless it is set.  With two nodes a repair packet names
  the wrong symbols, and the encoder reads the common numbers of a feedback as its
  own; two nodes are checked without repair packets and feedback for this reason.

## 6. Fairness

* The application takes coded packets, source symbols and feedback that it is
  told of: weak fairness of `SendCoded`, `GetSource`, `SendFeedback`.  Triggers
  exist for exactly this, and the simulator's main loop polls for it.
* The main loop runs expired timers: weak fairness of `RepairTimeout`.  It rests
  on `TimerSchedule`: `NoneStarves` and `RunEnds`.
* A channel that is offered packets again and again delivers one: strong
  fairness of receiving.  A channel that loses everything can promise nothing.
* Random coefficients: a packet that brings the receiver something new is drawn
  and gets through in the end if that is possible again and again (`SendInnovative`,
  `ReceiveInnovative`, strong).  With probability one this is so.
* In `TimerSchedule` a callback returns after finitely many calls and the main
  loop goes on.  Delays are positive there: an entry that re-arms itself with a
  delay of zero keeps `nck_schedule_run` in its loop for ever.  No fairness is
  assumed of the application's calls or of the clock.
* In GACK the application also puts in its data (an orderly encoder waits for
  a full generation).
* In `GackLink` sending, relaying and answering are weakly fair, receiving strongly, on
  every hop.  In the free configurations no liveness is claimed, and where feedback
  may be lost only its repetition could make up for it (`gack_lost_ack`).
* In `NckNet` every step of the applications and every timer of the encoders and the
  decoder is weakly fair, and losses are finitely many.  TLC takes too long to find
  when the steps are enabled, so that the conditions are written out as formulas.
  Of the combinations an encoder draws again and again one is news
  for the decoder (`SendNews`).  A relay need not send: `Reopens` does not rest on it.
* In `SwLink` every step but the faults is weakly fair, and the faults are finitely
  many: the application goes on putting symbols in, flushes at the end of its data as
  the simulator does, and takes what it is told of.  No fairness is asked of the
  coefficients: every vector but the empty one may be drawn each time.

## 7. Proofs

The theorems hold for all generation sizes, windows, redundancies, number
spaces, channel capacities and sets of timer entries, and whatever packets and
feedback arrive.  They assume only what the modules state of their constants:
`Symbols`, `MaxContainers`, `SeqSpace`, `RankSpace` positive, `Redundancy`,
`MaxTime` and the delays natural numbers, flags Boolean; those about GACK
need more of the configurations, and state it.

* **CODARQ encoder** (`CodarqEnds_proof`).  `EncSpec` is the encoder among
  callers that may report anything.  `EncInv` is the type invariant, the sum of the
  plans, the window, and the timer's promise.  The sum is not inductive
  without the window (the newest container has to be the one a symbol goes to) and
  without finiteness of the list.  From it: `EncTypeCorrect`, `EncSumCorrect`,
  `EncAssertionHolds` (the assertion in `get_coded`, which no run checks besides),
  `EncKeepsRepairing`, `EncWindowCorrect`.
* **CODARQ decoder** (`CodarqEnds_proof`).  `DecSpec` is fed every packet.
  `DecInv` adds to `DecContiguous` that an open generation is not completely
  delivered (otherwise a deletion could skip one) and that only the oldest one
  has been delivered from.  From it: `DecTypeCorrect`, `DecAlwaysFinds`, and
  `DecInOrder`: every step moves the position in the stream by one slot if it is
  `get_source` and not at all otherwise.
* **CODARQ end to end** (`CodarqLink_proof`).  `LinkInv` joins both invariants
  and says of everything in flight that it is no newer than its sender: packets
  name generations the encoder has opened, feedback names deliveries the decoder
  has made.  From it: `LinkTypeCorrect`, `LinkDropsNothingEarly`,
  `LinkBoundsDecoder`, over channels that lose, repeat and reorder.
* **CODARQ over channels that keep the order** (`CodarqLink_proof`).  With `~Reorder`
  the decoder's rank never passes the rank it was told of (`LinkRankNeverAhead`) and no
  feedback plans more packets than a generation has symbols (`LinkPlansNecessary`);
  with reordering the run `codarq_reorder_plan` refutes the latter.  `OrderInv` is
  inductive: `RanksInOrder`, a packet combines only symbols its header tells of, tells
  of no fewer than an earlier packet of its generation and of no more than the encoder
  has; `SpansInOrder`, a decoder combines only symbols it was told of, and neither a
  packet still to come nor the encoder tells of fewer.  A span of r symbols has at most
  r rows, so the difference of ranks in a report stays in range (`ReportsBounded`).
  Where the channels also repeat nothing and sequence numbers do not come round
  (`OneByOne`) a feedback fills a plan only when nothing of the generation is in
  flight, and with no more than the decoder then lacks (`LinkRepairsOnlyMissing`).
  `RepairInv` adds what ties the report to the present: `NumbersInOrder`, what is in
  flight is newer than what was read, in the order it was sent; `RanksHeard`, a decoder
  that has heard nothing says nothing, and one that has is behind the encoder in
  generations and ranks; `IndexDecoded`, what was delivered was decoded; `ReportsNews`,
  a report at least as new as the last packet of a generation still tells the truth:
  the decoder has the generation open and lacks what it asked for.
* **CODARQ is a reliable stream** (`CodarqLink_proof`): `LinkImplementsStream`,
  the refinement `InOrder` of the run `codarq_disorder`.  The argument counts slots:
  `Place(g, k)` is the place of symbol k of generation g when every generation is
  filled before the next is opened.  `SentStream` says that the i-th accepted symbol
  has the place i, `DeliveredStream` that the decoder's position counts what was
  delivered and is not ahead of what was accepted, `Origin` that packets and decoders
  combine only symbols that were put in.  The first needs the second: a generation
  the encoder has dropped was full, because feedback that drops it says that it was
  delivered, and the position of the decoder is at most the number of symbols
  accepted.  What the decoder can decode was put in, and there is one slot for each
  place, so `get_source` hands out the next accepted symbol.
* **GACK** (`GackLink_proof`), directly and over a recoder, for channels of any
  capacity that lose and repeat packets.  All but the types assume `HopsKeepOrder`:
  on the way over a recoder packets do not overtake each other.  It is needed, for
  the recoder reads an older packet into its present generation (section 5).
  The invariant is built in layers, each inductive only with those below it:
  `TypeInv`; `OrderInv`, nothing in flight is newer than its sender and packets for
  the recoder are in order, so the recoder is always at or behind the packet it
  reads and never behind a feedback; `OriginInv`, every vector combines only
  symbols that were put into the generation it is sent under; `DeliveredInv`, the
  decoder never goes back; `AckInv`, for orderly applications: a generation is seen
  outside the encoder only when it takes no more symbols, every report, on the way
  or remembered, is of a rank that was decoded, and the generation before the
  encoder's is decoded completely.  That the decoder acknowledges and drops a
  packet of a newer generation is excluded by the last of these: `FullRank` (from
  `RlncLemmas`: a span closed under addition with as many pivots as symbols holds
  every unit vector) makes a drained decoder complete.  From these:
  `GackTypeCorrect`, `GackOneGeneration`, `GackNoneTwice` (any application),
  `GackAckedIsDecoded`, `GackAnswersForDecoder` (recoders between orderly
  applications).  `StreamInv` adds that slots are put in and come out one after the
  other: `GackImplementsStream`, the safety of `ReliableStream`; it also
  assumes that one of the configurations has the most source symbols, without which
  the stream has no set of data.
* **GSAW, NOACK and PACE** (`NckNet_proof`), directly and, but for GSAW, over a
  recoder, for any options, any capacity, paths that lose and reorder, with timers,
  flushes and a consumer that reads in the callback.  The theorems are about the
  networks for which `Successive` holds, 13 of the 22 the run looks at:
  one of the three protocols, which send one generation after the other, with a whole
  number of credits.  Their invariant is `NetInv`.  `SentOk`: the slots that were put
  in ascend, up to the encoder's generation and rank.  `DecOk`: a decoder, its rows
  and its queue know only symbols that were put in (`SpanOrigin`, over all coders and
  paths); what was handed out, what is queued and what is to come at the index ascend
  in this order (`InTurn`); and once it is flushed it stands at a decoded symbol or at
  the end (`Aligned`).  `FeedbackOk`, for PACE: a report in flight, or about to be
  written, tells no more than the rank its coder has, or its coder is past the
  generation.  `LossyStream` alone is not inductive: without `InTurn` a queue could
  hold what was handed out, and without `SpanOrigin` a recoder could make up symbols.
  Calls of a decoder within a generation keep `Goes`: what was handed out stays as it is
  and is extended (`Extends`), and nothing decoded is lost (`Kept`).  Every call keeps
  `Over`, which is `Goes` but for a later generation, which begins with a queue of its
  own in place of what was still in the queue: the application may have left anything
  unread.  The loop in which a
  consumer takes symbols in the callback is a fold; what one `get_source` keeps the
  fold keeps.  From these: `NetInvariant`, `NetImplementsStream`, and
  `NetOverwritesUnread`, the property `OnlyUnreadIsOverwritten`.
  `NetFlushAvailable` counts: each of the calls after a flush hands out one more
  symbol or there is none, and no decoder hands out more than was put in, for what it
  hands out ascends in what was put in (`AscendingFits`).  `NetGivesUpSettled` leaves
  GSAW out: its decoder answers a packet of a newer generation with full rank and
  drops it, so that what its encoder gives up is settled only where the application
  fills a generation before it sends and empties the decoder before the next packet
  (section 5), and the property itself leaves out GSAW's other applications.
* **Tetrys** (`NckNet_proof`), for the networks for which `Elastic` holds: any window,
  any capacity, paths that lose and reorder, timers, flushes and a consumer that reads in
  the callback.  Packets of zeros (`zero`) are excluded, for with them the assertions do
  fail (section 5).  A number is *gone* once the encoder has let it go, *seen* when it is
  before `next_id` or the pivot of a row.  `ElasticInv`: what is gone was seen (`Fits`);
  the decoder's rows are reduced, each with a pivot of its own, and one of them is at or
  after `oldest` as soon as it was fed (`Holds`), which keeps feedback from being written
  by a decoder that knows nothing; packets combine what the encoder has and begin after
  what is gone (`Vectored`); a report claims only what was seen and names nothing that is
  gone, and no report behind it takes back what it claims (`ReportsOk`).  `NoAssertFails`
  is far from inductive: that the encoder's assertion holds for a late report follows
  from what all the reports ahead of it have made the encoder let go, hence the last part.
  Reduction and eviction are folds over sets of rows; `SetFoldExists` and the lemmas behind
  it say what such a fold keeps in whatever order it takes the rows.  From these:
  `ElasticInvariant`, `TetrysAssertsHold`, `TetrysGivesUpTheSettled`,
  `TetrysDropsNothing` and `TetrysImplementsStream`.
* **NOCODE** (`NckNet_proof`), directly and over a recoder, over paths that keep the order
  (`Buffering`): packets have no numbers, so that with reordering nothing could be
  promised.  `BufferInv` lines up seven places, from what was handed out over the
  decoder's buffer, the path, the recoder's buffer, the path before it and the encoder's
  buffer to what is yet to be put in (`Levels`); every symbol of a place is before every
  symbol of the places behind it (`Chain`).  Each step passes one symbol on to an earlier
  place or drops it (`PassOn`).  `LossyStream` alone is not inductive, for it says nothing
  of what is on its way.  From it: `BufferInvariant`, `NocodeImplementsStream`,
  `NocodeOverwritesUnread` (the buffered symbol is taken, stays, or is overwritten by
  another) and `NocodeFlushAvailable`; the last needs that no more symbols
  are put in than the application has, so that it takes one at least.
* **Sliding window** (`SwLink_proof`), directly and over a recoder, plain and
  interflow, with limited or unlimited attempts, over channels of any capacity that
  lose, repeat and reorder, with timers that expire at any time.
  `SwAccounts` assumes only that lost symbols are not answered with coded
  retransmissions, with which the assertion does fail (`sw_coded_retrans`).  Its
  invariant is `EncOk` of every encoder.  `EncBalanced` alone is not inductive: a
  retransmission that is planned in the future would be taken back from a rate control
  that does not count it, so that `EncOk` adds that no slot's systematic time is ahead
  of the packets sent, that slots marked or with attempts left lie below the sequence
  number, and that the phases of the rate control are never both over.  The loop of
  `put_feedback` is a fold; what one turn keeps, the fold keeps (`FoldExists`).
  `LinkNumbers` adds that everything in flight is numbered.
  The others assume `Plain`: besides, no repair packet is all zero, over a recoder the
  decoder hears the recoder only, and no application reads in the recoder's callback
  (such a recoder may read blocks that are not lost, section 5).  `LinkHeads` is their invariant:
  `RingOk`, the ring's indices are its numbers modulo the size and its newest number is
  kodo's; `SpanOk`, kodo's rows lie in its window and it has rows as soon as it has a
  number; `ReadOk`, what was read, what is queued and the head of the ring ascend in
  this order; the cached flag is true of the head; and no number runs ahead of where
  it comes from: the decoder's and the answers' are not beyond the recoder's, and with
  one flow nothing is beyond the encoder's.  The last is what keeps the recoder's
  `apply_feedback` from moving kodo's window without the ring, and `SpanOk` what keeps
  a packet from moving it back.  From it: `SwTypeCorrect`, `SwHeadIsReady`, and for one
  flow `SwReadInOrder`.  `Plain` is needed by this argument: a decoder that also hears
  the encoder can be ahead of the recoder, whose kodo then moves alone; a packet of
  zeros leaves kodo without rows, so that it takes over any number (section 5).  Two
  nodes' repair packets name the wrong symbols (section 5), hence one flow.
* **The sliding window is a reliable stream** (`SwLink_proof`), still under `Plain`:
  with unlimited attempts, feedback and a decoder that gives nothing up the encoder
  frees a slot only when the decoder has seen its symbol (`SwFreedIsSeen`), its window
  passes decoded symbols only (`SwNothingOverrun`), and with one flow the application
  is handed every symbol (`SwNoneMissing`).  A symbol is *seen* once it was passed on or
  a row has it as its pivot, and *ready* once it was passed on or is decoded.  None of
  the three is inductive, for a report can be many windows old.  The argument is that
  old reports do not become false: no step of the decoder takes back what was seen or
  ready (`Grown`), also not when kodo's window moves or a row is replaced, because what
  leaves the window was passed on, queued, or lies before the flush point and is ready.
  Hence `LinkTold`: every report in flight, and the one a recoder keeps, is honest
  (`Honest`: what it does not call missing was seen, what lies before its first missing
  symbol is ready), and every encoder has acted on honest reports only (`EncTold`); it
  also never runs out of flushes, with which it would free slots unasked.  A report names
  slots, not symbols; it frees the right one because it is never ahead of the encoder
  (`LinkHeads`).  `NoneMissing` is the decoder's side: `Whole`, what lies between the
  head of the ring and the flush point is decoded and what was read and is queued has
  no gaps.  A packet could break it by pushing undecoded symbols out of the window; it
  never does (`Clear`), for a packet is no newer than an encoder whose window has
  passed ready symbols only.
* **Timer schedule** (`TimerSchedule_proof`).  `SchedInv` is the type invariant
  and the order of the list, which is inductive because `rearm` removes an entry
  before it inserts it.  From it: `SchedTypeCorrect`, `SchedKeepsOrder`,
  `SchedReturnsExact` (the time returned is the one to the earliest start in the
  list, and nothing due is left), and `SchedImplementsAlarms`: every step of the schedule is a
  step of `Alarms` or a stutter.  The delays may be zero here.

The lemmas about data (`DataLemmas`, `RlncLemmas`) state what the library's
`Min`, `Max`, `RemoveAt`, `InsertAt`, `RemoveFirst` return, that reading a
packet keeps a span within the vectors, closed under addition, and its rank
within the generation, and `FullRank`.

Only model-checked:

* all liveness, and what rests on fairness;
* what the sliding window coders do with `overheard`, `zero` or several flows, beyond
  `EncAccounts`;
* in `NckNet`: PACEMG, for the networks of `nck_net` only, Tetrys with packets of zeros,
  and `GivenUpIsSettled` for GSAW;
* that a span has as many pivots as its rank, for spans that are built by a
  fold over all vectors: induction over data.

## 8. Not modelled, and why

* Parts marked *not_modelled* in `PROJECT.json`; section 9 names the planned ones.
* Destructors.  The models end before an object is freed.
* Packets that are too short or otherwise malformed, and source symbols longer
  than `source_size`: the interface excludes them.
* Calls the interface excludes: `get_coded` without `has_coded`, `put_source`
  while full (CODARQ's early return is modelled as the guard).
* Calls from inside a trigger before the triggering call has returned, but for the
  option `eager` (section 2 says why that leaves nothing out of CODARQ and GACK).
* Wrap-around of 32-bit generation numbers.
* The timer schedule's `free_all` (it ends the schedule) and `print`; `free` of
  a pending entry, which the code does not unlink (all protocols cancel first).
* The GACK recoder as a sink: `has_source` is never set, so `get_source` and
  `flush_source` only move an index that nothing else reads.
* The `set_` functions, which change options while a coder runs.
* The PACEMG recoder.  It reads and writes another packet header than PACEMG's encoder
  and decoder: what they send does not reach it as what was sent.
* Chain: the packets of a stage are the source symbols of the next.  The models know
  symbols by their slot; a packet as a symbol needs payloads and lengths.
* skb, segments, option parsing, tracing, finite field arithmetic, the libevent timer:
  sequential code without a protocol; the tests reach it.
* Interflow encoders with two nodes that repair or hear feedback (section 5).
* What a symbol's payload becomes when its slot is written while a consumer still
  holds it: a symbol is its number here.
* Configurations without a timer backend.

## 9. Plan

Done: all protocols of the library but Chain and PACEMG's recoder, the timer schedule,
the ring buffer and the rate control.  In this order from here:

1. **Proofs** about PACEMG: `LossyStream` over its two lists of generations, and, for two
   generations at a time, the assertion of its encoder.
2. **PACEMG recoder**, between encoders and decoders of its own header.
3. **Chain**: stages of NOACK and NOCODE, where the payload of a packet is a packet.
4. **Options that change while a coder runs**, for the phases of the rate control.
