# A TLA+ verification of wifibroadcast_bridge

wfb_bridge carries IP traffic over a one-way, lossy radio: packets read from a
TUN device are cut into coded groups, injected raw into a wifi card, caught by
another card in monitor mode, rebuilt from what arrived and written to the TUN
device of the other side.  This directory models the parts of the program that
carry its logic, checks them with TLC on small instances, and proves the main
safety properties with TLAPS for every instance.

Paths are relative to the root of the repository (`src/fec.cc` is the coder of
the program; `PROJECT.json` names it `src/src/fec.cc`).

## 1. Inventory

| Component | State | Operations | Interacts with |
|---|---|---|---|
| `FECBlock` (`include/wifibroadcast/fec.hh`) | header: sequence number, block, sizes; two bytes of length; data | sizes, data/FEC test | encoder, decoder |
| `FECEncoder` (`src/fec.cc`) | group being gathered, blocks to send, sequence number | `get_next_block`, `add_block`, `flush`, `get_block`, `is_flushed` | send thread (owner), TUN thread (reads `is_flushed()` without a lock) |
| `FECDecoder` (`src/fec.cc`) | blocks and FEC blocks of the group, block size, previous header, counters, blocks to release | `add_block`, `decode`, `get_block`, `stats` | decode thread |
| FEC codec (`src/fec.c`) | tables of GF(256) | `fec_init`, `fec_encode`, `fec_decode` | every encoder and decoder constructed runs `fec_init()` on the same tables |
| `FECBufferEncoder` (`src/fec.cc`) | sequence number | `encode_buffer` | test program only |
| `SharedQueue` (`include/shared_queue.hh`) | deque, mutex, condition variable | `push`, `pop`, `try_pop` | every pair of threads |
| TUN interface (`src/tun_interface.cc`) | file descriptor | `read` with timeout, `write`, `tun_raw_thread` | outqueue, the encoders |
| `raw_send_thread`, `raw_relay_thread` (`src/raw_send_thread.cc`) | current message | send loop, relay loop | outqueue, relay queue, send socket, `reset_wifi` |
| `fec_decode_thread`, UDP loops (`src/udp_send.cc`, `src/udp_receive.cc`) | a decoder and last counters per port | decode loop, send loop, receive loop | inqueue, send queue, TransferStats |
| main loop (`src/wfb_bridge.cc`) | current device list, thread pointers, `reset_wifi` | detect a change, stop, join and start the radio threads | all of the above |
| `UDevInterface` (`src/udev_interface.cc`) | device list | scan, subscribe, monitor | main loop (list and flag, no lock) |
| `TransferStats` (`src/transfer_stats.cc`), `log_thread` (`src/log_thread.cc`) | counters and averages of both sides | add, read, serialise, update; status exchange; log | decode and send threads, the other bridge |
| `HTTPServer` (`src/http_server.cc`) | card, list of frequencies, current frequency | list, set and get frequency, `update_frequencies` | main loop, web clients, the card |
| raw sockets (`src/raw_socket.cc`) | sockets, send buffer, side (air or ground) | open, send, receive, tune, monitor mode | cards, `configure_device()` |

What is hard here, and hard to test:

* **Loss patterns.** What the decoder does depends on which packets of which
  groups arrive, on message lengths, on early flushes, on the wrap of a one-byte
  sequence number that skips zero, and on copies repeated by a relay.
* **Interleavings.** `reset_wifi` is written by three threads and read by four;
  the card list is rebuilt while main() reads it; the flush decision is taken
  from an encoder another thread is using; the queue notifies after unlocking;
  counters move between two reads of the log thread; cards are tuned outside
  the mutex of the web server; the tables of the codec are filled in again while
  another thread multiplies with them.
* **Bounds.** Every queue drops when it is full, the wake-up message of a thread
  that is to stop included.
* **Liveness.** Threads that must end, cards that must be taken into use again,
  partial groups that must be flushed, counters that must reach the other side.

## 2. Modules and the code

**`FECBlock`** is the packet format: header fields, sizes, data/FEC test and the
successor of a sequence number.  A payload is the identity and the length of
its message; `intact` says whether all bytes are there, identity 0 stands for
bytes of no message.

**`FECEncoder`** has one action per operation (`EncAddBlock`, `Flush`,
`EncGetBlock`); `EncodeBlocks` is `encode_blocks()`, including the renumbering
of a group closed early.  An FEC packet carries the messages its rows were
computed from.

**`FECDecoder`** is `add_block()` case by case in the order of the code: no
coding (`PassThrough`), break in the sequence (`Break`, with what is kept and
what is counted), the packet skipped until a group starts (`SkipBlock`), a data
block (`AddDataBlock`), an FEC block (`HoldFecBlock`, `DecodeGroup`).
`fec_decode()` is taken by its contract (`Solvable`), which `FECCodec` shows: as many different rows of
one group as blocks are missing rebuild them; anything else gives bytes of no
message, with any length the two length bytes may show.  `m_block_size`
limits how many bytes are rebuilt, as in the code.  The rebuilt blocks whose
length fits are released in order (`Sublist`, `Nth`: a sublist given by the
positions kept).

**`FECLink`** composes the two: `raw_send_thread` feeds and drains the encoder,
the radio hears or loses each packet, a relay may repeat one later,
`fec_decode_thread` feeds and drains the decoder.  `delivered` is the history of
what went to the TUN device, `air` the group on the air, what arrived of it, and
how many groups went by since a packet was last heard (`silent`).
**`DatagramLink`** is what the pair promises: messages are released in the order
they were handed over, each at most once, any may be missing, and blocks that
are no message may come between them.  The mapping counts the messages handed
over and keeps the identities of what was delivered.

**`GaloisField`** is the arithmetic of `src/fec.c` as `generate_gf()` builds it:
powers, logarithms, inverses, `modnn()` and the product by logarithms, with
multiplication of polynomials as the reference.  **`FECCodec`** is the codec at
work: `fec_init()` filling the table row by row and then putting the zeros
right, `fec_encode()` turn by turn of its unrolled loops, and `fec_decode()` as
`reduce()`, `invert_mat()` column by column with its pivots and swaps, and the
multiplication.  In the program "bridge", `fec_init()` runs again in the decode
thread while the send thread encodes: a reading of the table then gives what is
there or anything that run stores there.  In the program "test",
`encode_buffer()` cuts buffers into groups.

**`SharedQueue`** takes each stretch of code under the mutex as one step, and
the notification after it as another; waiting threads may wake spuriously.
**`DropQueue`** is what it promises: a bounded FIFO that drops at its tail.
The mapping keeps `m_queue` and `taken` and forgets who waits.

**`TunSend`** is the TUN thread, the out queue and the send thread for several
links: packets, timeouts that queue a flush for each link that looks unflushed,
full queues, the send loop that drops FEC blocks when the queue has grown, and
main() pushing the empty message of a restart.

**`WifiSupervisor`** is the loop of main() statement group by statement group,
the udev monitor, and the receive, send and relay threads at their tests of
`reset_wifi` and their blocking calls.  Cards come and go, `receive()` fails,
cards cannot be set up.  The constant `EventTags` says which udev events a change
of a card raises, and the monitor gets those that pass its filter (`Filter`):
the cards listed are devices of subsystem "net", the filter asks for "usb" and
"pci", so a card is announced only if its driver raises such an event too.
`reset_wifi` is a plain `bool` shared between threads;
each reading is taken as a reading of its current value, since calls to other
translation units lie between any two of them.  main() sees the card list as it
is at some moment of its rebuilding; a read torn inside the `std::vector` is
undefined behaviour and is not modelled.

**`Status`** is the accounting of `fec_decode_thread`, the counters of both
bridges, and both log threads with the UDP loops between them.  Four counters
stand for those that are kept the same way; averages and the counters by IP port,
of which the log shows nothing (section 6), are left out.  Messages are
lost, come back to their sender, and are repeated late by a relay.

**`Frequency`** is `HTTPServer`: main() configuring cards
(`update_frequencies()` clears the list, tunes the card to every channel under
the mutex, then sets the configured one) and web threads setting frequencies,
with the mutex exactly where the code has it.  A card may refuse any channel at
any time, also while the list is rebuilt.  The ghosts `finished` and `offered`
keep the last list that was finished and what every list of a request's time has.

**`Radio`** is several bridges on the air.  `Configure` is the part of main()
that decides which card sends, relays and receives and on which side
(`configure_device()` with the mode of the card, over three loops that treat the
mode differently); `Send` and `RelaySend` are the two sending threads with the
frames `RawSendSocket::send()` makes, and `Transmit` what those who hear a frame
do with it: the filter, `receive()`, the push to the relay queue, the decoder of
the port.  Links are without coding, since `FECLink` has the coding; so the
uncoded branch of `add_block()` is exercised here (`Counted`), not in the runs
of `FECLink`.  A packet carries, for the properties only, its place on its link,
the turn its number is in (`turns` counts the wraps) and the side it was first
sent for.

`MC*` modules only give the constants values.  Operators commented `Mutant:`
are faulty variants of the definition after them; the specifications do not use
them.  `PROJECT.json` lists which property each of them breaks.

## 3. Runs

| Run | States | What it shows |
|---|---|---|
| `fec` | 760 000 | groups of 3+2, 5 messages of 2 lengths, any losses and flushes, numbers that wrap after the second group: recovery, what is held, what is counted, and the pair implements `DatagramLink` |
| `relay` | 195 000 | 2+1 blocks, packets repeated late: one group held at a time, and garbage only from repeated or left-over blocks |
| `queue_drop` | 9 500 | 2 writers, 2 readers, 1 poller, size 2, 5 pushes: implements the dropping FIFO, loses no wakeup, drains |
| `hotplug` | 450 000 | 2 cards (one for both directions, whose events pass the filter, and one relay, whose events do not), queue size 1, 2 plug events, 1 receive error, 1 set-up failure |
| `tun_quiet` | 6 700 | a 3+2 link and a plain one, queue size 3, 1 restart |
| `status` | 410 000 | ground receives on two ports, of which one loses, air sends, both exchange status over a network that loses messages and repeats one late, queues of 2 and 1 |
| `frequency` | 890 000 | 2 cards with one channel in common, any channel refused at any time, 2 web threads, 2 configurations |
| `codec` | 67 000 | the field of 8 elements: groups of several shapes, every loss, every choice and order of rows, rows repeated, buffers of several sizes, `fec_init()` run again at any moment |
| `radio` | 1 370 000 | an air bridge, a ground repeater whose relay card is set to air, and a bridge as `conf/wfb_bridge.conf` shows it, of mode air with a receiver of mode ground; 2 links with different headers, a number that wraps, 4 changes of devices |
| `stale_fec`, `longest_lost`, `recv_error` | | counterexamples, see section 6 |

Why the bounds are enough.  The decoder keeps nothing but the group in progress
and the previous header, so three groups (before, at, after) with every pattern
of loss show every transition; 3+2 is the smallest code with a loss ahead of,
between and after received blocks and with FEC blocks to spare.  `StartSeq = 6`
of `SeqMod = 8` puts the wrap inside the run.  `LinkAssumption` keeps messages
of a coded link within their buffers.  In `SharedQueue` two of each kind give
every race about one notification; the proofs cover the rest.  In
`WifiSupervisor` a queue of size 1 makes the wake-up message meet a full queue,
and two plug events make one hit each phase of handling another.  In `Status`
one block on each of two ports already separates per-port from shared
accounting, and losing any message stands for losing many; one repeat can come
after any later message.

In the codec a field of 8 elements leaves 4 data blocks and 4 FEC blocks (128
and 128 in the program).  Every table is built by the same recurrences from the
polynomial of that width, the matrix has the same shape (`inverse[row ^ col]`
with the high bit telling rows from columns), and with 3 rows a repeated one
sends `invert_mat()` off the diagonal, to swap rows and then to fail; different
rows never leave the diagonal.  `UNROLL = 2` makes groups
that end inside, at and after an unrolled turn.  In `Radio` the MTU is small and
the lengths are the largest that fits and the largest the TUN device allows; 4
changes of devices let all three bridges come up and the third one take the other
side with its second change.  With `SeqMod = 4` and four packets the number wraps
with the packet before the wrap heard or lost.

Deadlock checking is off for the runs of `FECLink`, `FECCodec` and `Radio`: they
end when the bounded messages, buffers or packets are used up.

Fairness.  Weak fairness for each thread of the program: it has its own kernel
thread and its loops never stop by themselves; `receive()` returns at its
timeout.  `Status` assumes it of the log threads only.
Nothing is assumed of cards, packets or web clients.  In `TunSend` the send
thread is assumed to run, that is, a card to transmit on is present, and the
timeout to be positive; that the device falls quiet is a premise of
`FlushedWhenQuiet`, not an assumption.  In `Status` a status message comes due
again and again on the air (the period has passed), and, of messages sent again and again,
one is delivered again and again (strong fairness: a radio that never works
would refute nothing about the code); that the received queue does not overflow
for ever is a premise of `GroundLearns`, and that logs are posted one of
`LogCatchesUp`.

## 4. Properties

* `ImplementsDatagramLink`, `PrefixDelivered`, `GroupRecovered`: what the user of the
  link is promised.  Messages ahead of a loss never wait, a group of which
  enough arrived is delivered whole (if its longest lost block is no longer than
  the longest received, see section 6), and nothing comes twice or out of order.
* `HeldGroup`, `OneGroupHeld`: what `decode()` relies on when it indexes by block
  number.  `HeldGroup` takes `NoLongOutage`: if a whole turn of sequence numbers
  (254 groups in a row) is lost, the next group bears the number of the one in
  progress and its blocks are put behind those held, still of one number
  (`OneGroupHeld`) but perhaps with a block number twice.  The run sends fewer
  groups than there are numbers.  `GarbageNeedsMixture`: bytes of no message need a left-over or
  repeated block.  `NoFalseAlarm`: a radio that loses nothing is never reported
  to lose.
* `TablesRight`: the tables are the field.  `SingularWhenRepeated`, `LostRebuilt`:
  any lost blocks are rebuilt from as many different rows in any order, and only
  repeated rows have no inverse.  `OnlyZerosDisturbed` (and the premise of
  `LostRebuilt`): what `fec_init()` under a running encoder can spoil is exactly
  bounded.  `BufferRestored`: what the test program compares.
* `OtherSideSamePort`: links do not mix; and if every bridge with a relay card has
  cards that fit (`RelaysFit`: the relay card names the other side, no other card
  a foreign one), a packet comes in only by sockets that listen for the side it was
  first sent for, over any number of relays and also to and from bridges that
  change sides; between two bridges that fit (`Fits`) no echo is delivered.  It
  claims nothing of the side a receiver card with a mode of its own ends up on
  (section 6).  `WholeIfItFits`: frames lose nothing but what does not fit.
  `GapsExact`: the gap counter of an uncoded link is the packets missing and one for
  each wrap, as long as packets come in turn (`InTurn`: none twice or late, no gap
  of a whole turn).
* `GroupGathered`, `GroupsContiguous`: what the encoder puts on the air.
* `NoLostWakeup`, `ImplementsDropQueue`, `EventuallyDrained`: the queue.
* `JoinSafe`: a thread main() joins sees the flag and is not left in `pop()`,
  though the message that wakes it may be dropped by a full queue and though two
  other threads write the flag.  `StopCompletes`, `StartsUp`: the main loop makes
  progress.  `CardsNoticed`: main() works with the list of the monitor in the end,
  and that list misses no change of a card whose events pass the filter, but for
  the window before the monitor subscribes.
* `NothingLeftBehind`, `FlushedWhenQuiet`: partial groups do not stay for ever.
* `TotalsAdd`, `NothingInvented`, `KnownGrows`, `GroundLearns`: the
  counters shown are the counters counted, and those of the other side go back
  only when a relay repeats a message.  `LogCatchesUp`: the intervals logged never
  exceed what was counted, and reach it again whenever logs are posted after the
  counting rests, whatever is counted while a log is being written.
* `CommonNeverRefused`: a frequency that was in the list when a request came and is
  in every list finished since is not refused, though main() clears the list and
  refills it channel by channel.  `SettledAgrees`, for calls nobody overlaps;
  `RequestsEnd`.

## 5. Proofs

Eight modules hold proofs, each for all values of the constants under the named
assumptions of the module it extends.  The constants that bound a run (messages,
plug events, repeats) may be any natural number.  TLC checked each
property on the instance of its run before it was proved.

* **`FECEncoderProofs`.**  Invariant `EncInv` = type correctness, the group
  gathered is numbered 0.. under the current number (`GroupGathered`), the output
  is a run of whole groups (`GroupsContiguous`), and an uncoded encoder gathers
  nothing.  The last part is needed because the two ways of `add_block()` exclude
  each other only by the constants.  The lemmas say what one group looks like
  (`GroupShape`) and that a whole group appended keeps the output contiguous
  (`GroupAppended`).  Theorems: `EncoderTypeOK`, `EncoderGathers`,
  `EncoderContiguous`.
* **`SharedQueueProofs`.**  `TypeOK` is inductive; `NoLostWakeup` (a blocked
  reader with items in the queue is owed a notification) needs only `TypeOK`
  and finiteness of the thread sets, for the counting argument that each step
  changes both sides by one.  `QueueImplements`: each step is a push, a take or
  a stutter of `DropQueue`.  `clear_on_full` is covered by the proofs; the
  program never uses it, and no run does.
* **`WifiSupervisorProofs`.**  Invariant `IInv` = `TypeOK`, a relay thread has a
  queue (`RelayHasQueue`: without it the push of the wake-up message might count
  from the null queue), and `JoinSafe`.  Theorems: `SupervisorTypeOK`,
  `JoinsAreSafe`.

* **`FECLinkProofs`** (encoder, air and decoder together).  Several invariants, all
  on top of `EncInv`, since what the decoder may see follows from what the encoder
  sends.
  - `LinkInv`: the packets on the air and in a relay are such as the encoder makes
    (number not 0, a payload, coded or not like the link), and `m_block_size` is 0
    exactly when no data block is held (`SizeTells`).  `OneGroupHeld` needs the
    latter: a packet that finds `m_block_size` 0 is added without clearing anything.
    Theorem `GroupsNeverMix`, with any losses and any relay.
  - `CleanInv`: as long as nothing is lost the decoder is in step (`InStep`): before
    a group nothing is held and its number is not the previous one; within it
    the previous packet is the one before, and the data blocks so far are held until
    the last completes the group.  That the next packet is the one expected is
    `GroupsContiguous`.  Theorem `NoLossReported`, for a coded link without a relay.
    Both hypotheses are needed: an uncoded link counts one at each wrap and a
    repeated packet counts as lost (section 6).
  - `PrefixInv`: the packets still to send are the rest of one group, whose last FEC
    packet carries all its messages (`OutGroup`); and once a group is under way
    (`Underway`) each message with no loss up to it is delivered, or the one block
    released, and if nothing is lost so far the decoder holds exactly the blocks
    so far.  That no block is cut short is a counting argument about `MaxLength`.
    Theorem `PrefixArrives`, for a coded link without a relay, any losses and any
    number of wraps.
  - `TypeInv`: an FEC block held stands for a whole group (`RealFec`), from which
    `decode()` takes the message of any block number it asks for; what it releases is
    a message or garbage of a possible length.  Theorem `LinkTypeOK`, with any losses
    and any relay.
  - `HeldInv`: the data blocks held are those heard of the group on the air
    (`TracksGroup`), and the number of that group is as many steps after the last one
    heard as groups began in silence (`SilentGroups`), fewer than there are numbers.
    Theorem `LinkHoldsGroup`, under `[]NoLongOutage`.  `LinkImplements` adds to it
    (`DatagramInv`) that the messages delivered, released, held, on the air and
    gathered follow each other in this order; each delivery is then a step of
    `DatagramLink` and every other step a stutter or the handing over of a message.
  - `RecoverInv`: for a group the decoder was ready for, either it is still waiting for
    more blocks, and then holds exactly the data and FEC blocks of the group that
    arrived (`Waiting`), or every message is delivered or on its way out
    (`Settled`).  The step that matters is the packet that makes the number of
    blocks sufficient: the FEC blocks held are different rows of one group
    (`SolvableGroup`), so each missing block is rebuilt with its own message
    (`DecodedAll`) and passes the length test (`LongestFits`).  Theorem
    `GroupsRecovered`, for a coded link without a relay, any losses, wraps and early
    flushes, and no assumption on outages.
  - `GarbageInv`: `HeldInv`; FEC blocks left without a data block end with one of the
    last group heard (`FecLast`), and FEC blocks that all bear the number of the
    group in progress are rows of it (`FecTracks`).  Theorem `OnlyMixtureIsGarbage`:
    without a relay and under `[]NoLongOutage`, `decode()` releases bytes of no
    message only from a mixture of groups.  With a relay this is model-checked (run
    `relay`).

  The hypothesis `[]NoLongOutage` is about the radio, not the program, and is
  satisfied by every run shorter than a turn of the sequence number; section 4 says
  why it cannot be dropped.
* **`TunSendProofs`.**  `IInv` = `TypeOK` and `NothingLeftBehind`: the drained output
  of one link is what makes the next step's counts those of a single encoder.
  Theorems: `TunTypeOK`, `NothingStays`.
* **`FrequencyProofs`.**  `IInv` adds to `CommonNeverRefused`: the mutex is held
  exactly while channels are tried (`MutexHeld`); whenever it is free the list is
  the one last finished, and no request was offered more than that
  (`ListComplete`: this is what lets main() rebuild the list at any
  time); there is a card once there is a list
  (`CardKnown`); and a call that is alone finds the card as it tuned it
  (`AloneAgrees`).  Theorems: `CommonAccepted`, `ReportedIsTuned`.
* **`StatusProofs`.**  `IInv` = `TypeOK`, `NothingInvented`, and:
  the counters of the decoder and those accounted differ only for the port in hand
  (`Accounted`: no difference is negative); no error without a block
  (`ErrorsBounded`); a side sends only its own counters (`OwnStatus`); until a
  relay repeats one, the status messages are in order from what the ground knows
  to the queue of the air (`InOrder`).  Theorems: `StatusTypeOK`, `StatusGenuine`
  and the action property `KnowledgeGrows`.  `TotalsAddUp`, for any set of
  ports, counts the packets as pairs of a port and a number: a packet decoded adds
  one pair, and `Accounted` says that `add()` moves exactly what is in hand.
* **`RadioProofs`.**  `IInv` types the sockets, queues and decoders and says that a
  socket is on a card of its own bridge and that a relay socket has its queue: a
  message waiting in a relay is one that could have come from the air, so any
  number of relays changes nothing.  Theorems: `RadioTypeOK`, `ArrivesWhole`.
  `SidesAndPorts` adds, where the repeaters' cards fit, that only bridges that fit
  relay and that each socket of such a bridge keeps one side (`SidesKept`), so that
  a message waiting in a relay was sent for the side the relay speaks for
  (`OnlyOthers`).  Nothing is assumed of the cards of the other bridges.  That
  repeaters fit is a premise within the property, since without it the statement is
  false (`wfb_bridge.cc:393-401`, section 6).  `GapsCounted` (invariant `GapsInv`):
  a packet's place on its link is its turn times the numbers of a turn plus its number
  (`Numbered`), and each decoder remembers the number of the last packet that came on
  its port (`Exact`).  Two packets less than a turn apart are then in the same turn or
  in two that follow each other (`LessThanATurn`), and every gap is counted once.

Only model-checked:

* every liveness property, those of the supervisor included: the prover has no
  reasoning about fairness;
* `GarbageNeedsMixture` with a relay: copies come in any order and number, and the
  invariant of the proof rests on packets coming in order;
* the codec: it computes with exclusive or (`Bitwise`), which the prover has no
  theory of, and with tables defined by recursion over the field, whose values for
  every width would take induction.

## 6. Where the code does otherwise

Each is a run that TLC refutes, and a finding of `PROJECT.json`:

* `stale_fec`: an FEC block received before any data block of its group stays in
  `m_fec_blocks` and is mixed into the next group; wrong bytes are delivered.
* `longest_lost`: a lost block longer than all blocks received is not rebuilt
  although enough blocks arrived, because `m_block_size` ignores the FEC blocks.
* `recv_error`: after an error of `receive()` on a card that stays plugged in,
  no receive thread is ever started again.  An ill-formed packet is such an
  error (`raw_socket.cc:674-704`).

Seen while modelling, without a run of their own:

* both sides send their status to the address of the ground (`wfb_bridge.cc:86`),
  so that the air never learns what the ground counted, although "Each side
  shares stats via periodic" messages (`wfb_bridge.cc:122`);
* the loop that starts the receive thread hands main()'s own `mode` to
  `configure_device()` and opens the socket with a copy made before
  (`wfb_bridge.cc:393-401`): the `mode` of a receiver card, which
  `conf/wfb_bridge.conf` says overrides the global mode (its example, lines
  158-163, is a receiver of mode ground in a file whose global mode is air), is
  ignored for its own socket and changes the side of every card configured later.
  The run `radio` has a bridge configured so: it listens for the ground's frames
  first and for the air's after the next change of devices;
* the monitor asks udev for events of subsystem "usb" and "pci" with devtype "wlan"
  (`udev_interface.cc:118-119`), while the cards it lists are of subsystem "net"
  (`72`), whose own events do not match: a card whose driver raises no other event
  is noticed only together with another one;
* a channel that a card refuses while the list of frequencies is rebuilt is missing
  from the list (`raw_socket.cc:348-355`) and answered INVALID until the next
  configuration, also if the card supports it;
* `fec_init()` run by a decoder while the send thread encodes can spoil FEC blocks
  wherever a data block holds a zero; the comment at `fec.cc:19` suspects it;
* `encode_buffer()` accepts 255 blocks (`fec.cc:365`), `fec_encode()` 128 by
  assertions that are compiled out; beyond that the index leaves `inverse[]`.
  Blocks larger than the maximum less two overrun their buffer;
* more than 16 links overrun `port_lut` (`wfb_bridge.cc:189`) and share the four
  bits of the port; `transfer_stats.cc:62` lets port 16 through (`<=`);
* the latency is right modulo 256 ms at best, wrong when the second changes
  between sending and receiving, and not set for short frames
  (`raw_socket.cc:683-688`); a relay passes the rate it read from radiotap as an
  index of data rates (`raw_send_thread.cc:74`);
* a relayed copy on an uncoded link adds 65535 to the packets counted as dropped,
  or a wrapped distance if it comes late (`fec.cc:138`);
* a rebuilt block up to two bytes longer than the longest received passes the
  length test at `fec.cc:312` and is released with its last bytes missing;
* enough FEC blocks without a data block rebuild nothing (`fec.cc:254`, `195`);
* at a break in the sequence more packets are counted as dropped than were lost
  (`fec.cc:170`, `205`), and an uncoded link counts one each time the sequence
  number wraps past zero (`fec.cc:138`);
* a packet of exactly the MTU given to the TUN device is two bytes longer than
  the data a block can hold (`fec.hh:107`, `wfb_bridge.cc:133`, `165`);
* a packet repeated by a relay reaches the branch commented "This shouldn't
  happen." (`fec.cc:182`) and is added a second time;
* a udev event that raises `reset_wifi` just after main() adopted the list it
  announced stops the new threads for good, and a card plugged in between the
  first scan and the subscription is not noticed;
* while other links keep the TUN device busy, a partial group is never flushed;
* "Active ports" of the log is always empty: `ps = s` (`log_thread.cc:187`) comes
  before the differences to `ps` are taken (`193`);
* two web requests can leave the card on the frequency of one and the report on
  that of the other; a configured frequency a card does not have leaves it on
  the last channel tried.

## 7. Not modelled

The radiotap header (data rates, signal strength, antennas) and the latency;
the assembler variants of the codec, which the build leaves out; the text
formats of the log and of the status message; averages (rssi, latency, times);
driver and type tables of udev; netlink, pcap and TUN system calls; power and
data rate settings of a card; the vendored radiotap parser and option parser;
the test programs, except for what `run_test()` of `test_fec.cc` does with
buffers.  Crashes are not modelled: the program persists nothing.

## 8. State of the project

Done: the coder and one link with its abstract specification, the codec, the
queue and its refinement, the supervisor, the TUN thread, the counters, the
frequency and the radio.  Every invariant, action property and refinement the
runs check is a theorem, except for the codec (and `GarbageNeedsMixture` is one only
without a relay).  What would come next:

1. `GarbageNeedsMixture` with a relay, from an invariant on sets of packets instead
   of their order;
2. the codec over an abstract field, given by its laws, with the tables of
   `fec_init()` shown by TLC to be an instance;
3. radiotap: data rates, signal strength and the latency.
