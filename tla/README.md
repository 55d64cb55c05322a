# Verification of the multi-board AWG

A specification in TLA+ of the ring of FPGA boards in this repository and of the
host that operates it: models of the RTL and of the Python code, TLC runs on small
instances, and theorems that the TLA+ proof system checks for every instance.

The repository drives up to sixteen XEM8320 boards as one arbitrary waveform
generator. The boards are cabled into a ring of Aurora links; one of them, the
*master*, is talked to by a host over USB. Waveforms go from the host through
the master and round the ring to the board they are meant for; a trigger must
then start all boards at the same instant. The host is a web console; it brings
the ring up, remembers what no board can be asked for, arms waveforms, and keeps
a calibration in each board's flash.

## 1. The system

### Components, their state and their operations

| Component | Source | State | Operations | Modelled in |
|---|---|---|---|---|
| Ring control channel (Layer 3) | `aurora_ctrl_channel.v`, `aurora_rx_beat0_gate.v` | one forward and one backward frame slot, transmit and receive machines, enumeration result, ACK counter, reservation and DIAG results | host commands (enumerate, trigger, reserve, DIAG), eight frame types, three timeouts | `RingCtrl` |
| Ring data channel (Layer 2) | `aurora_data_channel_relayfifo.v` | receive machine, lock, relay FIFO, transmit arbiter | relay, deliver, originate, drain, lock and unlock | `DataChannel`; its lock also in `RingCtrl` |
| Link arbiter | `aurora_tx1_arbiter.v` | grant, watchdog | give tx1 to control, reply or data; abort a frame that stalls | `Tx1Arbiter` |
| Flow control | `aurora_nfc_ctrl.v` | request, cooldown | pause the previous board before a FIFO fills | `FlowControl` |
| Dispatcher | `dispatcher.v` | packet being routed, one register per output, stall counter | route each packet from USB or from the ring to the registers, DDR, flash, the ring, or two of them | `Dispatcher`, and per frame `RingCommands` |
| Packet machine of the registers | `local_reg_handler.v` | header, beat index, kept words, pulses, answer registers | one effect per packet type, with its last beat; take down an answer, a report's, its own or the debug pattern | `LocalRegs` |
| Other registers | `board_cfg_reg.v`, `sine_ctrl_regs.v`, `awg_calib_regs.v`, ... | the board's settings; two sides of the mode, swapped by a trigger | take a pulse; save and load | `BringUp` (id, master, clock, mode), `Playback` (mode, groups), `Calibration` (scale, amplitude, coefficients, target sector) |
| Trigger path | `trig_merge.v`, `group_trig_select.v`, `group_trig_scheduler.v`, `dac_trig_queue.v`, `trig_timer.v` | schedule and its countdown, queue of fires with a delay | merge, select by group, rotate, delay, start | `Playback` (scheduler, groups); the hop count in `RingCtrl` |
| Waveform memory | `ddr_writer.v`, `waveform_controller.v`, `fp_ddr4_rw.v`, `ddr_zero_writer.v`, ... | packet being received, FIFO, AXI master; per module a list and a player of two readers | write, list, play, refill; fill, read back | `DdrWriter`, `Playback` |
| Status replies | `status_reply_capture.v`, `aurora_reply_tx.v`, `aurora_ctrl_mux.v` | snapshot, reply in flight, the table with the last answer | capture, answer, merge into the ring | as the host sees them: one table, answers that are late |
| Flash | `flash_payload_cdc.v`, `flash_config_writer.v`, `flash_startup_loader.v`, `fpga_flash_ctrl.v`, `spi_flash_ctrl.v` | payload block, writer, sectors, outcome | collect, erase, program, load at power-on | `FlashPayload` (words), `Calibration` (sectors) |
| Clock crossings | `level_cdc.v`, `trigger_cdc.v`, `handshake_level_cdc.v`, ... | two-flop synchronisers, request/acknowledge pair | carry a level, a pulse or a word | no |
| Bring-up | `web/init_flow.py`, `post_flash_checklist.py` | phase, board looked at | a list of phases, each a command and a look at every board | `BringUp`, with the chip `Initialize` |
| Clock chip tools | `si5332_usb_linux.py`, `si5332_configure_linux.py`, `web/si5332_ctrl.py` | sessions, expander pins, staged configuration, saved outputs | configure, switch an output, put the saved outputs back | `ClockChip` |
| Console | `web/app.py`, page | cache of every board's status, its file, event queues of the browsers | refresh, bring up, one route per setting, events, restart | `Console` |
| Arming and playing | `web/board_ctrl.py`, panels of `web/app.py` | none of their own: packets in order | write waveforms, list them, play, rotate, stop | `Playback` |
| Calibration | `web/calib_ctrl.py`, `web/flash_ctrl.py`, routes of `web/app.py` | none of their own | set, read, save to flash, poll for the outcome | `Calibration` |
| Packets | `awg_common.py` | USB handle | build, pad and send a packet; query and take the answer | the Send actions and queries of the modules above |

`PROJECT.json` lists every part, those left out included, with the reason.

### How they interact

A board's *rx0/tx0* side is cabled to the *tx1/rx1* side of the board before it.
Forward frames (requests, broadcasts, data) leave at tx1 and arrive at the next
board's rx0; backward frames (acknowledgements) leave at tx0 and arrive at rx1.
Control frames are exactly two 64-bit beats. Layer 3 takes the types it knows
off the receive bus, Layer 2 everything else; both look at the same bus and both
discard, with the same gate, a header whose ids lie outside the ring. On the way
out the arbiter merges control, reply and data frames.

Layer 3 commands Layer 2 by two pulses, `lock_req` and `unlock_req`, and reads
one level, `is_busy`. What Layer 2 delivers goes through a FIFO into the
`sys_clk` domain, where the dispatcher merges it with the packets of a USB host
and hands each to the registers, the DDR writer, the flash or back to the ring.
The host reaches the board its cable is in: every board number, every setting
and every status question goes through that dispatcher and, for other boards,
round the ring. Nothing the host sends is acknowledged. What it knows it asks
for, and the answer is whatever the master's table holds after a pause.

The console is one process. Requests that use the boards take `_lock`, those that
use the clock chip `_si5332_lock`; Initialize System uses the chip under the first
of them. Events go to every browser through a queue of its own.

### What is hard in it, and what makes it correct

| Where | Hard | Correct when |
|---|---|---|
| Trigger | every board has its own clock; one slot per direction; a two-phase protocol (PAUSE_REQ, an ACK of every board, GO) with no retry and no timeout | all boards hold back when the GO is decided; each fires once per GO, with its group, at one instant; the trigger completes |
| Lock | shared by triggers and reservations, opened by a third thing, the end of any stream | a granted reservation means a locked path |
| Enumeration | the counter, a station's number and the total share one 4-bit field | ids are distinct and the total is the number of boards |
| Faults | a cable drops mid-frame; a board restarts alone; a slot is overwritten | every fire is that of a GO; nothing stale completes a later round wrongly |
| Data channel | rx0 has no `tlast`; local and relayed frames share one port; noise, cut and garbled frames | frames no fault touched leave whole and in turn; nothing keeps the port |
| Link arbiter | fixed priorities and sources that may hang | no frame is torn by another; every source is served |
| Flow control | pauses run out by themselves, and act a link latency late | the FIFO never overflows and the sender is not stopped for ever |
| Commands | a broadcast is passed on by two parts of every board | everyone addressed carries a command out, in order; the ring comes to rest |
| One board's packets | two sources, four outputs with their own back-pressure, a link that fails, a board number that changes meanwhile | packets stay whole, effects use values of one packet, a waveform and a flash block are stored as sent, the host is always served |
| Bring-up | unacknowledged broadcasts, looks that may see an earlier answer, registers with a hidden side, boards another master has named | done means ready: ids, clock, mode, one master |
| Clock chip | two threads, neither of whose locks keeps the other out; sessions that break off half way; a bit changed by read and write back | sessions find the pins settled, the operator's outputs outlive a reconfiguration |
| Console | state no register can be read back for; answers filed under the wrong board; events between a snapshot and a queue; a process that dies | a refresh repairs, pages agree with the server, what is recorded was told, a restart keeps it |
| Playback | slots of different lengths in one region; players that miss a trigger while they refill; a schedule written entry by entry; two sides of the mode | what plays is one request's waveforms, sets last their time and go round, Stop is quiet |
| Calibration | erase and program with a loss of power between; an outcome that stays from the last time; the loader over settings that came before it | what was reported saved stays and comes back, the tab shows what the board has |

`PROJECT.json` names each of these at its line, with the properties about it.

## 2. The plan

Done, in this order:

1. `RingCtrl` (control channel of N boards); `RingPhases`, `RingLosses` and `Ring_proofs`,
   which prove what the ring promises, without faults and with them.
2. `TriggerBarrier`, the trigger as an abstract barrier;
   `RingBarrier`, the mapping by which `RingCtrl` implements it.
3. `DataChannel` with its proofs; `Tx1Arbiter` and `FlowControl`, the two ends of a cable in
   `MCLinks`; `DataChannel_proofs` has the proofs of all three.
4. `RingCommands`: dispatchers and data channels of all boards, frame by frame, with its proofs.
5. `Packets`, `Dispatcher`, `LocalRegs`, `FlashPayload`, `DdrWriter`, composed
   beat by beat in `Board`, with its proofs.
6. `BringUp`; `ClockChip`; `Initialize`, their composition, with the proofs of `BringUp` and the
   proof that it implements `BringUp`.
7. `Console` and its proofs.
8. `Playback` and its proofs.
9. `Calibration` and its proofs.

Left, most useful first: the delay queue `dac_trig_queue.v` (the signed comparison,
a ninth waiting fire); the machines behind the status replies (`aurora_reply_tx.v`
drops a query while an answer is under way, `status_reply_capture.v` crosses in two
groups); the USB block pipe `fp_input_wr.v`; pauses all round the ring; the sine
slots and the amplitude ramp; the manual schedule (`trig_timer.v`,
`api_board_group_sched`) and the two-stage arming; the clock crossings.

## 3. The modules

### RingCtrl

One state for all boards, functions over `Board`. The unit of a step is one beat
sent or taken, one host command, one timeout or one fault:

* `fwd`, `fwdPending`, `ftxBeat1` are `fwd_beat0/1`, `fwd_pending` and the state
  of the forward transmitter; `FwdTxBeat0` sends the header as the slot holds it
  then, `FwdTxBeat1` the payload as it is one step later. `QueueFwd` overwrites
  whatever the slot holds. `bwd...` is the other direction.
* `fLink`, `bLink` are the beats on a cable, `up` its `channel_up`.
* `frx`, `brx` are the latched header of the frame being received. `RxHeader` is
  FRX_IDLE with the beat 0 gate; one `Rx...` action per type is FRX_BEAT1, with
  everything the code assigns in that branch.
* `locked`, `busy`, `relayQ` are Layer 2's lock, the transmit state TX_LOCAL and
  the relay FIFO. `StreamStart`, `StreamEnd` are a local data frame; `RxDataLast`
  is the 0x14 frame that unlocks what it passes.
* `boardIndex` and `total` come from the enumeration, `boardId` and `totalIn`
  from T_BOARD_ID_ASSIGN. A board it has not reached has id 0xFFFE, as in the RTL.
* `fires`, `bypassed`, `goLog` record what the outputs did: the fires of each
  board by GO, the master's local fires, and the GOs it decided.

Data is abstracted to what the properties tell apart: a beat is its type, source,
destination and a nine-bit payload. `AckWidth` is the width of `ack_bitmask` (10
in the code). The delay of a fire is counted in hops; the cycles per hop, a
division of the measured round trip, are left out. The two constants that are not
in the code shape the environment: `Paced` makes the host wait for the ring to
settle between commands, as a person at the web page does, and `QuickDrain` makes
a slot drain before the next frame reaches the board, as the hardware does when
no data frame holds the link.

### TriggerBarrier and RingBarrier

`TriggerBarrier` is what a trigger promises: boards pause one by one, a GO is
decided only when all have, and each then fires once with the GO's group.
`RingBarrier` maps the ring to it: `paused` is the set of locked boards, `decided`
the log of GOs, `fired` the fires. `ring_trigger` checks the mapping step by step.
`RingPhases` describes the states of a ring without faults, `RingLosses` those of a ring
that loses frames (section 5).

### Tx1Arbiter

`aurora_tx1_arbiter.v` cycle by cycle (`Clock`), between three sources with
`tvalid`, `tlast` and `tready`: the grant by priority, a watchdog that counts from
the grant, the poison beat, and the lockout of the source that was cut until a
data frame has ended or nobody else has anything to send. A source in `Stuck` may
have a frame that never ends; `Resume` gives a FIFO that ran empty in mid-frame
its next beat.

### DataChannel

One board's `aurora_data_channel_relayfifo.v`. `arriving` is the frame on rx0,
`local` the one this board's dispatcher sends. `RxBeat` is the receive machine,
with its own count of beats; `Choose` is TX_IDLE with the drains of frames whose
source is not valid and the turns (`rrLocal`); `SendLocal` counts `budget` down and
ends in `SendPoison`. A frame the gate refuses is not counted: each of its later beats is
a header again (`RxHeader`), which may be any of `Readings`, one with pkt_len 0 included;
`misread` remembers that one of them was acted on. `RxNoise`, `RxPoison` and a frame that
is cut are the faults;
`LockReq`, `UnlockReq` come from Layer 3 at any time; `Assign` changes
`total_boards`. `channel_up` is part of the gate and not a variable, and the
output of the empty relay FIFO is taken to carry no `tlast`.

### FlowControl

`aurora_nfc_ctrl.v` with the FIFO it watches and the sender at the other end of
the link, cycle by cycle. `Latency` delays beats and requests alike, `AckDelay` is
how long the Aurora core may keep a request waiting: properties of the core, not
of the sources. The assumption states what the margins must allow for; the instance
takes the least depth that satisfies it, and one word less overflows. `MCLinks` puts
it behind the same cable as `Tx1Arbiter`: one run, in which each behaviour is that
of one end.

### RingCommands

The way of a command from a host to the boards it is for, in whole frames: the USB
queue, the dispatcher, the data channel's relay FIFO and the local queue of every
board. `Dispatch` routes, `TransmitRelay` and `TransmitLocal` send a frame and do
what the next board's receiver does with it. The hosts' 10 ms pauses around a
broadcast are `MaySend`; without them a copy of a broadcast that goes through a
dispatcher overtakes an earlier command waiting in a relay FIFO, which `InOrder`'s
mutant shows. Either queue may have the transmitter's turn: the turns are in
`DataChannel`; a lock of the local queue is a delay here. A command for a board that is
not there is refused by its header alone, and the receiver takes the second beat for the
header of a frame (`Reads`): `Strays` are what that beat can say. It is the payload of a
command, so its length is 0 (only T_SINE_CTRL and T_SINE_LIST_CTRL fill the upper word,
where a setting can read as any type, a stream with destination 0xFFFF included; such
commands to boards that are not there are left out). The dispatcher drops it as padding,
the relay FIFO takes it without `tlast`, and the transmitter then takes only relayed beats
until a command has passed (`holding`). What the host's 10 ms are worth behind such a port
is `MaySend`: nothing. `unpaced` remembers that something was sent then.

### Board and the modules it composes

One cycle of `sys_clk` is one step, in which every module takes what the others
show (`Clock`): `Dispatcher` (both states, the give-up of beats for the ring, the
id put into USB headers and into the first beat of an ASSIGN), `LocalRegs` (the
packet machine, a pulse with its values, and the answer registers, which the board's own
answers and the debug trigger write beside the packets), `FlashPayload` (header dropped by count,
two words to a beat) and `DdrWriter` (input side, FIFO with its registered
`rd_en`, AXI master, a slave that answers in its own time). A packet's kind stands
for its shape: `list` and `report` keep words from beat to beat, `set` and `enum`
are the others of two beats and of one; `query` is one the board itself answers. `Padding` is the zeros that fill a USB
block. Addresses count words from `wave_start_addr`. Left out are the FIFO before
the registers, which is emptied in every cycle, and the one after the flash
words, which keeps their order. `MaySendWave` keeps a host from sending a waveform
while the last one is still being written: `ddr_writer.v` leaves its stream state
with the last AXI response, not with the packet's last beat, and takes a header
that comes before as data. The hosts leave far more time.

### BringUp

The phases of `run_init`, and as a second `tool` those of `post_flash_checklist.py`,
in their two orders (`After`). A command is a phase whose broadcast reaches all
boards or, as a fault, all but one (`Reaches`). A look goes round the boards one by
one (`at`), remembers whether there was anything to complain about (`good`), and
takes as its answer what the table of the master holds: the answer of that board, or,
as a fault or because no board has that id, the one before. The checklist has a cable
in every board and reads registers directly. A board is its id, `is_master`, its clock
selection, and the two sides of its mode register; `Behind` is the ring as another
master has left it, that master perhaps without power since. `index` is the master's
`board_index`, which is what it takes for its id when it unlocks itself; an enumeration
gives the boards it passes theirs and leaves the master's alone, so that after a time
behind another master it is not 0. The id the master then has is a second time on the
ring (`Twin`): that board takes the master's frames for its own come home and drops them.
`Heard`, `Fires`, `Addressed` and `Answering` are what this leaves of a broadcast, a
trigger, a packet to one id and the answer to it. Between two bring-ups the operator sets
modes, fires triggers and switches the boards off.

### ClockChip

A thread's `todo` is the list of its sessions with the chip; a session is `Begin`
(open, and the walk over the GPIO expanders' pins, `_AUX_SEQ`) and one of the actions
that finish it. The registers are "blank", "partly" or "target" and the set of outputs
that are on. `Begin` and `Breaks` raise, on the way or in the body; what becomes of
the thread then depends on the class of the exception (`Fails`). A session that is
not closed may leave the device hung (`latched`), as the comment at `close` says.
`apply_saved_output_state` compares the outputs with the file one by one: the list
`<<Set(c, ..), Differ(want, c + 1)>>` is its loop at output c, so that an error or a
browser finds it anywhere between two outputs.

### Initialize

`BringUp` over `ClockChip`: the phase `si5332` is what the thread "init" does, and a
board's clock is the output that feeds it (`Feeds`) while the chip is active.

### Console

A request is the list of the steps of its route, and holds `_lock` until it is empty.
There is one action per kind of step: a command to a board, a query whose answer is
kept or not, an entry recorded, an event pushed, the file emptied and filled. `Asked`
and `_carry_sticky_fields` say what becomes of a cache entry. What a board holds is
six values: two that can be read back, its clock, and three it is only ever told.
`armed_ddr` is one value per board here; the code merges it module by module
(`app.py:436-442`).
A query takes the answer of the board, a late one out of the table, or raises. Browsers
subscribe, take their snapshot and read their queue without the lock. The process
dies and starts again (`Crash`, `Start`), boards lose power, the clock changes.
What holds between the steps is `IInv` of `Console_proofs` (section 5).

### Playback

One board of `M` modules: the packets a request still has to send (`job`), the memory
in bursts, each of which says for which request, module and slot it was written, the
lists, the players (`fsm`, `cur`, `next`, `shows`, `loads`, `play_pos`), the mode's two
sides, the groups and the scheduler. `Refill`, `Fire` and triggers of other boards
(`Elsewhere`) go on between any two packets. The arm functions differ in the order and
the addresses of their packets and are sequences built from the same steps; every module
of a request has a list of lengths of its own, and so its own number of slots and its own
field of the depth. An interval of the schedule is the set whose duration it is, and
whether that leaves the players time to refill (`long`): `Fire` waits for them only then.

### Calibration

A request is the list of its packets and queries as above. A board is its live
registers, what the loader found (`boot`), its flash by sector, the selected sector, the
writer and its outcome. `Erase` and `Program` look the sector up when they run, as
`flash_config_writer.v` does. A loss of power or an SPI error in between leaves the
sector torn: its contents are then any the loader takes or none. `kept` is what a save
that met no fault has reported as saved, and stays so until the sector is saved again.
A later save that loses its selection packet writes over the sector that is still
selected, a saved one or not; `strayed` names that sector, and `SavesSurvive` says what
may then be in it (what it had, nothing whole, or the payload of the other sector) and
that every other sector has what was saved.

## 4. The runs

| Run | Instance | Question | States |
|---|---|---|---|
| `ring_trigger` | 4 boards, start-up, 2 triggers, a reservation and a DIAG (of board 2) | Does the ring stay in the phases of `RingPhases`, in which boards are numbered right and fire in order, does it implement the barrier, do all fire at the same instant? Yes. | 162,000 |
| `ring_traffic` | 3 boards; 2 triggers, a reservation, a DIAG (to ids 1..3, of which 3 is nobody), a stream; slots drain at any speed | With frames overwritten and torn: is every fire that of a GO, the master's once, is no GO early while nobody streams, does a grant mean the path is locked, is a DIAG answered by the board asked? Yes. | 2.9 M |
| `ring_faults` | 3 boards, 2 enumerations, 2 triggers, one reset, one cable drop | Is every fire that of a GO, does a later trigger complete in spite of a stale count? Yes. | 654,000 |
| `ring_eleven_boards` | 11 boards, one trigger | Does the trigger complete? **No.** | |
| `data` | board 1; 2 frames of any kind from the ring, 2 of its own, one fault, 3 boards that become 2, so that frames are refused | Do frames leave whole and in turn, does everything leave, but for what a cut frame or misread payload holds up? Yes. | 1.04 M |
| `links` | arbiter: 2 frames of each source, up to 3 beats, watchdog 3, replies that hang; flow control: pause 6, cooldown 3, threshold 2, depth 10, latency 2, delay 1 | Does a frame mix with another, is every source served, does the FIFO overflow, does the sender resume? No; yes; no; yes. | 82,500 |
| `commands` | 3 boards, hosts at 0 (2 commands) and 1 (1), to board 2, to nobody, to all; the second beat of a refused command is refused too, or a frame of board 0 for itself or for all | Does everyone addressed carry out what was sent, in order; does the ring come to rest? Yes, if no port is held for ever. | 533,000 |
| `board` | one board that is renumbered; 2 of 4 USB packets, 1 of 4 from the ring, one link change or debug trigger | Do packets stay whole at every output, are effects, answers, waveforms and flash blocks those of one packet, is the host always served? Yes. | 617,500 |
| `console` | 2 boards, the 2 of `BOARD_MAP`, one browser, 3 requests, 1 fault | Does a refresh repair the cache, do pages agree, is what is recorded what was told, does a restart keep it? Yes. | 5.2 M |
| `initialize` | 3 boards, 2 lost packets or answers, 2 outputs, a browser's request, a USB error, 2 operations; the ring new or left by another master | Does done mean ready, does the mode stay, do the operator's outputs outlive a reconfiguration, is every board clocked? Yes. | 4.24 M |
| `playback` | 2 modules, each with one of three layouts of up to 3 slots, regions of 5 bursts with a margin of 1; 2 arm requests, another setting, one exception | Is what plays whole, do sets last their time and go round, is Stop quiet? Yes. | 1.74 M |
| `calibration` | 2 boards, values 0 and 1, 3 requests, 1 fault | Does what was saved survive and come back, does the tab show what the board has? Yes. | 1.56 M |

The runs in which requests or frames are counted say `CHECK_DEADLOCK FALSE`: their
budgets end, and a ring without commands is quiet. In `links` and `board` the
clock never stops, and deadlock is checked.

**Bounds.** Three boards are the smallest ring with a board that relays both ways
and is neither the master's neighbour on both sides nor the master; four give two
relays in a row, where ACKs of different boards queue up behind each other.
Two triggers suffice for state left over by one round to reach the next; two
groups to tell their fires apart. Eleven boards is the first ring beyond the
bitmask; that run delivers backward traffic first to stay small. Two frames per
side are the fewest with which a turn can be given twice or a beat land in the
wrong frame; one fault because the properties speak of what one leaves behind.
In `board`, a memory of three words, bursts of two and a waveform of three words
make a full burst, a short one, and words that wait in a FIFO of one; the other
packets are as long as the shape they stand for; an answer is its type and one word, the
least of which a debug trigger can leave a mixture. Two USB packets and one from the
ring put every pair of packets next to each other and one in between.
Bring-up has two faults because `DoneMeansReady` says what one can do, and the second
must be seen to be outside it; three boards, so that a stale answer can come from a
board that is neither the master nor next. The console's three requests are a setting,
what spoils its record, and the refresh that shows it; its fault is any of five kinds.
In `playback` three slots stand for eight: the depth field holds one value less, so that
a full list wraps, and a region has room for two of the three layouts. Three calibration
requests are a setting, a save, and one that comes between or after; the flash loader
finds four sectors, as in the code.

**Fairness.** Clocked machines step whenever their guard holds; nothing is asked
of the hosts, the timeouts or the faults.

| Specification | Assumed | Because |
|---|---|---|
| `RingCtrl`, `LiveSpec` | weak: `SendGo`, every board's transmitters and receivers | clocked; the links deliver |
| `MCLinks`, `LinkSpec`, arbiter | weak: `Clock(TRUE)` and `Resume` | tx1 takes a beat again and again; whoever writes a FIFO goes on |
| `MCLinks`, `LinkSpec`, flow control | weak: a clock with a sender that has data; strong: one in which a word is drained | the reader of the FIFO takes a word again and again while there is one |
| `DataChannel`, `LiveSpec` | weak: `Transmit`, `RxBeat` | tx1 is ready again and again; the board before ends what it began |
| `RingCommands`, `LiveSpec` | weak, per board: `Dispatch`, `Apply`, both transmitters | clocked; the two sides take turns (`FairTurns`) |
| `Board`, `LiveSpec` | weak: a clock in which everything that waits is shown and the memory is ready, the ring never | the AXI slave answers; no assumption on the ring, whose stalling `HostServed` is about |
| `Playback`, `Spec` | weak: `Fire`, every module's `Refill` | the scheduler and the players run on the board's clock |

The other modules have safety properties only, and no fairness.

**What the violation says.** `ring_eleven_boards`: the eleventh board's ACK falls
off the ten-bit bitmask, and the ring waits for ever, though the comments promise
sixteen boards. The lines it contradicts are quoted in `PROJECT.json`.

**Divergences met, not among the runs.** In the RTL:

* The poison beat that closes a cut frame is counted by the next board as payload
  (`aurora_data_channel_relayfifo.v:350`, against `aurora_tx1_arbiter.v:121-127`, by which
  it is neither relayed nor delivered): board A is cut after two beats of four, board
  B takes the poison beat for the third and waits for one more, which is the first beat
  of the next frame.
* A broadcast is delivered and relayed by the data channel, and the dispatcher it is
  delivered to sends it once more (`dispatcher.v:221`, against `dispatcher.v:196-200` and
  `aurora_data_channel.v:28-35`): board k carries it out 2^(k-1) times.
* A second T_TRIG_START during a round overwrites the group the first one will
  fire with on the master (`aurora_ctrl_channel.v:757`, against 541-545).
* RESERVE_REQ reads `is_busy` a clock before the lock is set (942, 947, 953): a
  local frame that starts in between runs on a path reported as reserved.
* The last frame of any stream (0x14) unlocks a board that paused for a trigger
  (`aurora_data_channel_relayfifo.v:365`, against the role `aurora_data_channel.v:99-102`
  gives the lock).
* A frame the gate refuses is not one beat of noise (`aurora_data_channel_relayfifo.v:335-341`
  and 244-248, by which ignoring it keeps the board from sticking and the noise from being
  passed on): its other beats are headers to the receiver. A two-beat command to a board
  that is not there with payload 0 is followed by "source 0, destination 0, pkt_len 0":
  every board but 0 puts that beat in the relay FIFO without `tlast` (294), and the
  transmitter waits in TX_RELAY for the rest (491-492), which is the next relayed frame;
  until then none of the board's own leaves. `commands` without its premises shows both
  consequences: a board's last command never leaves, and one held back behind such a port
  comes after the host's next one and undoes it.
* A header of a Layer 3 type that the gate refuses still makes the receiver skip
  the next one (335, against 337-342), and a refused header of type 0x14 and one
  beat still unlocks (363, against 248-251).
* The arbiter's watchdog counts from the grant whether or not beats move
  (`aurora_tx1_arbiter.v:199-226`), while its comment (103-107) speaks of a stall: a
  frame that flow control holds back long enough is cut.
* `fp_input_wr.v` pauses the host between blocks, so that its FIFO must have room
  for one more block when it says it is full.
* `status_reply_capture.v:30-34` says that an answer cannot be read torn; its words
  cross in two groups.
* A loader that meets an SPI error keeps the sectors it has loaded already, though the
  comment at S_ERR says that all stay at their defaults. Records have no checksum: a
  torn sector whose magic is there is loaded.

In the host:

* The broadcast T_BOARD_ID_ASSIGN leaves `is_master` alone (`board_cfg_reg.v:176-184`,
  against the docstring of `post_flash_checklist.py`): behind a former master neither
  tool completes a bring-up until that board's power has been off.
* The id a master gives itself is its `board_index` (`board_cfg_reg.v:180-181`), not a fixed
  0. Only a reset clears it (`aurora_ctrl_channel.v:597`); relaying another master's ENUM_COUNT
  sets it (888). A board that becomes master after it has been a slave keeps the index it had:
  `run_init` fails on it, even if the former master has been switched off, until the board
  itself has been reset or configured anew, and the checklist says done with two boards of
  one id (`init_flow.py:207` and the comment of `board_cfg_reg.v` have the master at 0).
* The debug trigger writes the answer registers whatever packet is under way
  (`local_reg_handler.v:434-440`); a T_STATUS_REPORT it falls into is filed with words of both.
* `usb.core.USBError` is not a `Si5332USBError`: raised in `apply_saved_output_state`, it
  ends `run_init`, though `init_flow.py:130-135` calls that step "Deliberately
  non-fatal". An `__enter__` whose open raises is not followed by `close`.
* On Linux the routes that show the chip's status and reconfigure it call tools that
  are only there on Windows.
* A query that raises throws the whole cache entry away, with the fields that the
  comment at `app.py:152-159` keeps; and Initialize lays the old `ext_clk_freq_hz` over
  the one it has just measured, against the docstring at `app.py:162-170`.
* The arm functions write DDR to the idle side of the mode only: the trigger they send
  shows it, the next one brings Sine back (`board_ctrl.py:971-973`).
* Run or Stop of one board triggers all groups of all boards, which shifts every running rotation and flips every
  mode; a rotation on a board that is not the master counts and never plays.
* A list of eight slots is announced with depth 0: it goes round all the same, but
  `play_pos` stays 0.
* The outcome of a flash write is a level that stays until the next one begins: if the
  payload packet is lost, the last save's `done` is taken for this one's. If the
  selection is lost, the payload goes over another sector, the board's identity among
  them, and is reported as saved. An exception while polling leaves the board writing,
  and the next save moves the address under it.
* The answer of QT_CALIB_FLASH is what was loaded at power-on, not what the flash has,
  against the docstrings that call it that.

## 5. What is proved

### Ring_proofs

Whatever the hosts do: for every `N` from 2 to 16, every master, budget, group set and
bitmask width, faults and resets included, and with `Paced` and `QuickDrain` either way:

* `TypeCorrect`: `Spec => []TypeOK`. One lemma per action. The facts that carry
  it are about payload widths: a 4-bit field plus one fits 0..16, a payload fits
  nine bits even when a header is taken for one.
* `MasterFiresAtMostOnce`: `Spec => []MasterFiresOncePerGo`. The inductive
  invariant `FireInv` is `TypeOK`, `MasterKnown` (the master's board id and index
  are 0), `OwnFrames` (every GO in a slot, on a cable or half received carries
  source 0, and every enumeration frame destination 0), `SlotDiscipline`, and the
  property. `OwnFrames` is needed because a GO that comes back to the master must
  be recognised as its own, or it would fire twice; `MasterKnown` because that
  comparison uses the board id, which T_BOARD_ID_ASSIGN rewrites from the
  enumeration result; the enumeration result stays 0 at the master because a
  frame that returns to it carries its id as destination.
* `SlotsHeld`: a transmitter between its two beats still holds the frame.

Of a ring without faults whose host waits for it, `CalmHost`: `Paced`; no cable drop and
no reset in the budget; no more boards than the bitmask has bits (`N <= AckWidth`: with
eleven the trigger is stuck, `ring_eleven_boards`); and a board count written by hand,
where there is one, that is right (`Manual \in {0, N}`). All else is any: the number of
boards, the master's place, what the host commands and how often, to boards that exist or
not, who streams and when, how slowly slots and cables drain.

* `RingStaysCalm`: `[]Calm`, the inductive invariant, which `ring_trigger` checks too.
* `EnumerationCounts`: `[]EnumCorrect`; `FiresInOrder`: `[]FiresFollowGo`; `FiresInStep`:
  no board is two fires ahead of another; `GoAfterAllPaused`: `GoOnlyWhenAllPaused`;
  `FiresAligned`: `FireInstantsAligned`; `GrantsLockPath`: `ReservedPathLocked`;
  `DiagAnswersFromTarget`: `DiagAnswersQuery`.
* `RingIsBarrier`: if nobody streams, the ring implements `TriggerBarrier`. The safety
  part of `BarrierImplemented`; that fires come at all is left to the run.
* `FireInStep`: of the barrier itself, no board is two fires ahead of another, and what two
  have both fired they fired with the same groups. This needs nothing of the ring.

None of these follows from what a single board does: that the GO is not early rests on
every ACK having passed every board behind the one it comes from. `Calm` (`RingPhases`)
says this as eight phases (`Resting`, `Enumerating`, `Assigning`, `Pausing`, `Going`,
`Gone`, `Reserving`, `Diagnosing`), in each of which one control frame at most goes
round; the phase says where it is (`AloneAt`) and what the boards it has passed have
done: have their index, are locked, have fired. A frame on its way between two boards is
at one of five stages (slot, header sent, header latched, both beats sent, payload left:
`Carries`), with data frames anywhere in between. Two things do not fit that picture and
have places of their own in it. ACKs travel against the request, several at a time, and may
overwrite each other in a slot between their beats, so that only the sets of their headers
and payloads are known (`Answers`); that is enough, because the index an ACK carries is
that of a board that has locked itself, and a second ACK of the same board is not counted.
And PAUSE_REQ need not have come home when the last ACK does: the GO leaves behind its
tail, and the hop from the last board to the master may hold parts of both (`Ends`).
The proof shows what each transmitter and receiver does to one hop, for any frame; from that
what it does to the frame that is alone on the ring; and then takes the actions one by
one, most of which stay in their phase.

Outside `CalmHost` some of these theorems are false and the others open. With faults a GO may
be lost and a trigger stay without an answer. What is left is that nothing is made up:

* `FiresNeverMadeUp`: `[]FiresAreGos`, for `PacedHost`: any ring, any `Manual` and
  `AckWidth`, any number of cable drops and returns and of resets by the host, at any
  moment of a frame; the host waits for the ring between its commands, and nobody streams.

A board that starts over between the two beats of a GO never sends the second; at the next
board, which has latched the header, the next beat becomes the payload, whatever it is, and
the board fires it. The inductive invariant `Losses` (`RingLosses`) says why there is no
such beat: behind the hop that holds what is left of the GO every hop is clear (`GoAt`), and
the hop itself can hold nothing after it, at any of the stages at which the GO may have been
cut (`Travels`). The boards beyond it have not fired for it
(`LacksLast`), those of them that a fault keeps from firing never will. A ring that a
command leaves in the other kinds of traffic (`Asking`) has no GO at all. TLC checked
`Losses` first, on rings of three boards with up to two drops and a reset, and with
either drain. It also showed that neither hypothesis can go. With a stream, the
next beat is the header of a data frame, and the board fires the low bits of its
destination. With a host that does not wait, a new trigger overwrites the slot and the group
of a GO the master has not fired for, and the master fires the new group.

### DataChannel_proofs

For every board, list of board counts, frames of any kind and length on either side,
noise words and budgets:

* `ChannelTypes`: `Spec => []TypeOK`; `ChannelFairTurns`: `Spec => []FairTurns`;
  `ChannelFramesWhole`: `Spec => FramesWhole`.

Assumed is only that no frame is announced with no beats (`h.len # 0`): pkt_len counts the
header. The inductive invariant `IInv` has five parts. `Ranges` and `Port` hold whatever
rx0 brings, and make this board's frames whole: while one of them is on `data_tx1` the
port keeps to it, and the budget is what its header announced less what has gone, so that
it runs out before the end only if the frame is longer than it says. `Received` and
`Relaying` hold as long as rx0 brought neither noise nor a broken frame, and no payload of
a refused frame was acted on (`Clean`). The receiver has no tlast: `Received` says that its
count is what the wire has still to bring, or, in a refused frame, that it takes beat after
beat for headers that are refused too, and that what it copies to the local output is as far as the frame has come. The relay
FIFO can hold the end of one frame, several whole ones and the start of another, while
the transmitter is in the middle of a frame of either side: `Relaying` says that its beats
are chained (`Chain`), that the first goes on from the beat last sent or is a header
(if the transmitter is between frames), and that the last goes on into the beat on rx0
(`Mid`) or ends its frame. With that the transmitter may empty the FIFO in the middle of
a frame and still find its next beat there. `Turns` says who has been passed over has
the next turn. TLC checked `IInv` first, with the constants of `data`.

### RingCommands_proofs

For every ring, hosts, destinations (boards that are not there included) and number of
commands:

* `CommandTypes`: `Spec => []TypeOK`; `CommandsInOrder`: `Spec => InOrder`.

No single queue keeps this order. A command is in five kinds of queue on its way, commands
for different boards leave the path at different places, and a broadcast is in several
queues at once, since every board passes it on twice. The invariant `IInv` therefore takes
the queues as one function of their places. A command for one board has a position on its
way (`Pos`), the kind of queue and the hops from its host, and every move takes it exactly
one further; no two places on the way of one command have the same position
(`Positions`). `Ordered` says that the one further on, or nearer to the head of the same
queue, was given first. `Belongs` keeps commands on their way: it is where the gate of the
receiver is needed, and where a frame that meets its own board comes off. `Alone` is what
the hosts' pauses around broadcasts are for (`MaySend`): while any copy of a broadcast is
on the ring nothing else of its host is. `Later` relates what is under way to what was
carried out, and `Counted` both to what was sent, so that a new command is later than all.
What the second beat of a refused command is taken for is in the relay FIFOs too; it is no
command (`IsCommand`), and the invariant passes over it. `InOrder` and all but the types
hold as long as nothing was sent while a transmitter was holding (`unpaced`): the pauses
of the hosts are for nothing then, and the code does let a late copy undo a setting.
Apart from `Send` and `Apply` every action is a move of one command to the ends of other
queues (`Shift`): what a move keeps is proved once. TLC checked `IInv` first, with the
constants of `commands`.

### Board_proofs

Of `Board`, for every menu of packets, every number of them, every size of the memory, of
a burst, of pacc_fifo, of a flash block and of a report, and every number of link changes:

* `BoardTypes`: `Spec => []TypeOK`.
* `BoardFiresWhole`: `[]FiredWhole`; `BoardBlockWhole`: `[]BlockWhole`; `BoardWaveStored`:
  `[]WaveStored`; `BoardWholePackets`: `WholePackets`.

Assumed of the packets is what the hosts build (`PacketAssumption`): a waveform is a whole
number of 16-byte words (the assertion in `make_waveform_stream_pkt`), at least one of
them and no more than the memory has room for (`pad_to_burst`, and the lengths the arm
functions choose); `write_flash_payload` always sends a whole block; a list entry has four
beats, a setting two, a T_ENUM_START one. That a source brings a packet whole is part of
the model: frames cut on the ring are the subject of `DataChannel` and `RingCtrl`. The
assumption is needed: of a waveform with an odd number of beats the last is left in
half_buf when the writer says it is done.

The modules have no end marks between them. Each counts for itself, from a header it was
shown, and two counts that disagree once disagree for ever. The inductive invariant `IInv`
therefore ties every count to one thing, the beat an output
handed over last (`taken`). `Sourced` says that a source holds a chain of whole packets and
that the one under way goes on with the beat `remaining` says; `PutOut` that what an output
shows comes after what it handed over, and that the next beat of the packet under way comes
after both, where the packet goes to that output; `subst` is set exactly behind the header
of a T_BOARD_ID_ASSIGN that was given this board's values. `Locally`, `Flashing` and
`Taking` give the registers, the half-filled block and the waveform writer's input side as
functions of that beat, `Replying` the words of an answer that is being taken down: an answer
of the board's own to a T_QUERY comes in the cycle after that packet's last beat, before a
report can have begun, so that only a debug trigger (`struck`) can spoil one. For the ring `PutOut` holds until a beat is dropped (`Honest`).

The waveform writer is the hard part: four places hold words at once (memory, AXI data
register, pacc_fifo, half_buf), and two machines that share only a FIFO and two pulses count
them. `Popped` and `Stored` are the two counts that matter, read off the state of the AXI
machine (`cnt` back at 0 in `ST_W` means a whole burst, `rdEn` is a pop still to come).
`Taking` says that what has come is the memory below `Stored`, the data register, the FIFO
from `Popped` on, and half_buf; `Writing` that a burst never asks for more than is left and
that the last word of a burst carries `wlast`. `OneWave` is what the hosts' pace comes to
(`MaySendWave`): no second header is on the way while a waveform is being stored, so that
the memory under comparison is that of one packet. TLC checked `IInv` first,
with the constants of `board`.

### DataChannel_proofs: the ends of a link

Of the arbiter (`Tx1Arbiter`), for every watchdog limit, frame length, number of frames and
set of sources that hang:

* `ArbiterTypeCorrect`: `ArbiterSpec => []ArbiterTypeOK`, among it that the watchdog never
  passes its limit.
* `FramesDoNotMix`: `ArbiterSpec => OneFrameAtATime`. The action property needs what the
  grant says of the frame that is open, in every state and across steps that
  change nothing: while a source is granted no other has a frame open, and a
  frame that was cut is closed by the poison beat before anything else is sent.

Of the pause requests (`FlowControl`):

For every pause, cooldown, threshold, depth, link latency and delay that satisfy
`FlowAssumption`, whatever the sender wants to send and however the FIFO is drained,
not at all included:

* `FlowTypeCorrect`: `FlowSpec => []FlowTypeOK`; `FifoNeverOverflows`:
  `FlowSpec => []NoOverflow`.

The inductive invariant is a budget. While the FIFO says it is almost full, the words in
it and on the way (`load`) fit together with those that can be sent before a request
arrives, at most `due` cycles from now (`Unasked`, or `Asked` once it has been sent), or
the sender is held back until the next request arrives (`Held`). `OneUnderWay` says that
a request on the way is the one the cooldown is for, so that the pause it brings starts a
known number of cycles before the next; `Renewed` that in the cooldown such a request is
on the way or its pause still lasts, also while the FIFO was not congested: it is what
the budget rests on when the FIFO fills again. `FlowAssumption` also asks that a request
has arrived before the next is made (`Latency <= Cooldown`): with a cooldown of 160 and
the 62 cycles of latency that depth and threshold leave, that is no restriction.

### Initialize_proofs

Of `BringUp`, for every number of boards and of faults, with either tool, whatever another master
or earlier bring-ups have left:

* `BringUpTypeCorrect`: `Spec => []TypeOK`.
* `InitializedIsReady`: `Spec => []DoneMeansReady`; `InitializedPlaysDDR`:
  `Spec => []ModeStaysZero`.

The inductive invariant `Phasewise` says, phase by phase, what the phases so far have
established; during a look it speaks of the boards looked at, and only while there
was nothing to complain about. The part that is not obvious is `Missing`. If the ids
did not reach board m, the look at m finds the answer of board m-1 in the table, whose
id is not m: one fault cannot both lose the packet and hide it. The looks at
`is_master` and at the mode do not have that protection, since there the answers of
two boards are alike; hence `faults = 0` in the second half of `DoneMeansReady`, and
for the mode an argument of its own, in `Zeroed`: after the swap what one lost packet
has spoilt on the active side is seen, and what it has spoilt on the other is not
promised. `Residue` is the master that went before: with its ids there is also its
`is_master`, which is why the first look may not be content with a ring that was named
by someone else; that what is left are the ids of their places holds only if this master's
index is 0. `Displaced` follows a master whose index is not: `run_init` finds the board of
the same id, at the latest in the look at `is_master`, and does not get past it. The
checklist does, and of it the theorem claims no ids, but clocks and modes still: a board
behind the twin does not hear the commands, and the looks, which go over its own USB, see
that it has not. `Zeroed` therefore speaks of the boards that hear (`Heard`) and of those
that fire (`Fires`).

Of the whole of Initialize:

* `SystemImplements`: `SpecSystem => Spec`: Initialize System over the chip, with its
  sessions, errors and browsers, implements `BringUp`, in which configuring the chip is
  one choice and clocks come and go at any time. A refinement: initial states map to
  initial states, every step of the system is one of `BringUp` or changes none of its
  variables.
* `SystemIsReady`: with it, `DoneMeansReady` and `ModeStaysZero` hold of the system.
* `SystemChipInOrder`: `SpecSystem => []ChipInOrder`, for any number of outputs, errors and
  browsers' requests. `ClockInv` has five parts. `Lines` says which lists of sessions either
  thread can have left; `Pins` that a walk broken off at any point leaves expander pins from
  which the next whole walk arrives at `_AUX_SETTLED`; `Holding` that whoever holds the chip
  has done that walk. `Truthful` is what the loop of `apply_saved_output_state` needs: as long
  as nothing disturbed the thread the outputs before the one it has come to are as in the
  file (`SetTo`), the rest as it has read them (`AsRead`); when it ends, all are as in
  the file. A browser's request that has the chip to itself may be between its switch and
  its save (`Keeping`).
* `SystemDoneMeansClocked`: `SpecSystem => []DoneMeansClocked`. `Measured` says during the
  phase `ext_clk_freq` that the boards looked at so far have a clock, and afterwards that
  all have: the answer that said so was read in that phase and cannot be an old one as
  long as nothing was lost, and clocks go only where an output is switched (`switched`).

### Calibration_proofs

For any boards, values, requests and faults:

* `SavedIsKept`: `Spec => []SavesSurvive`; `BootIsSaved`: `Spec => []BootRestores`;
  `TabIsLive`: `Spec => []ShownIsLive`.

The inductive invariant `IInv` goes by the number of steps a save has left (`Jobs`).
`Overwritten` is what keeps other sectors safe: where a writer is at work, or may still
come to write (`Erase` and `Program` look the sector up when they run), nothing is counted
as kept, unless the sector has been noted as `strayed` because a lost selection left it
selected, and then the payload is not one of its own kind. The theorem does not say that
such a sector keeps its contents: the code does overwrite it.
`Undisturbed` is what makes the outcome that is polled this save's: a request without a
fault begins at a board at rest, so that the payload starts the writer and clears the
last outcome (`write_flash_payload`); from then on the board is erasing, programming,
done with this payload in its sector, or in error (`Writing`), and an answer in the table
that says done came after that. Before the payload the table's answer is of another
type, the one of the live value, which is why a late answer cannot be the last save's.
With it, what becomes kept is in the flash and is the live value; and `BootRestores`
(of sectors that are not `strayed`) follows the loader sector by sector. Assumed is that what stands for an erased or torn
sector, and for no value, is none of the payloads or values (`ContentsAssumption`).

### Playback_proofs

For any number of modules, three slots or more (the code has eight), any region and margin,
any layouts of waveforms (of 2 to `MaxSlots` slots, each of at least one burst, whether they
fit their region or not), any modules a request may cover, and any number of requests,
exceptions and triggers from elsewhere:

* `TypeCorrect`: `Spec => []TypeOK`; `PlayersPlayWhole`: `Spec => []WhatPlaysIsWhole`.
* `StopsAreQuiet`: `Spec => []StopIsQuiet`; `SetsLastTheirTime`: `Spec => []SetLastsItsTime`.

A request is a list of packets, and any of them may be the last one sent before it raises.
What has been done can therefore only be said by what is left: `Requested` says of `job` that
it holds packets of one request, over some modules `S` and with waveforms of some lengths
for each of them (`lens`), in an order in which off comes before any write, a slot is listed after it was
written, play comes after all of them and the schedule last (`Ordered`); that while a write
or play is left, either all modules are off or off is left as well; that a slot whose
write is not left is in the memory and one whose listing is not left is in the list
(`Writing`); and which entries of a rotation are written (`Rotating`). That no later write
spoils a slot rests on the arithmetic of the addresses: the slots of a module follow each
other with margins between (`BeginsApart`), those that pass `_check_slot_fits` stay in
the module's region, and the regions lie apart (`RegionsApart`), so that two slots have no burst
in common (`SlotsApart`). A route's list is a concatenation of pieces, module by module; that
each is such a request is proved of the lists the arm functions build (`FreshRequest`).

`Players` says what a module that is on has: all its slots whole, `cur`, `next`, `shows`,
`loads` and `play_pos` in step, with depth 0 for a full list; for this `inc_idx`, which works
modulo `MaxSlots`, is shown to go round the slots one by one (`IncSucc`). `Stopping` follows
a Stop through its list: once the play packet has gone the modules are on with its zeroes,
and the last trigger, which waits for the players to load, shows them. `Round` ties the
scheduler's index to each player's position: while set i plays the index is the entry after
i, which is where `start_rotation_schedule` has put the duration of set i. Any other trigger,
new grouping or stop ends the undisturbed rotation (`rot`) the property speaks of.

The addresses, the lists and the flattening are recursive functions; what is said of them for
all lengths is proved by taking the least number that fails (`NatInSet`, from `WFMin`), as
the induction theorems cannot be used here. To make that possible `Playback` states the
addresses as a function (`Begins`) and the modules' steps as one flattened sequence
(`ForEach`). Assumed is, besides the types (`PlaybackAssumption`), that a request covers some
module, and that what stands for an empty slot is no slot. TLC checked `IInv` first, with the
constants of `playback` (its parts over finite sets). The proof then asked for two more
facts, that no slot is listed before it is written and that play is left as long as a write is.

### Console_proofs

For any boards, `BOARD_MAP`, values, browsers, requests and faults, however far a
browser lags behind:

* `ConsoleStaysTrue`: `Spec => []IInv`; `ConsoleTypeCorrect`: `Spec => []TypeOK`.
* `RefreshPutsRight`: `Spec => []RefreshRepairs`; `PagesShowCache`: `Spec => []PagesAgree`;
  `RecordsAreTrue`: `Spec => []RecordsTrue`; `RestartBringsBack`: `Spec => []RestartKeeps`.

The four speak of a console that is idle; what makes them inductive is what they come to
in the middle of a request. `IInv` says it by the steps
that are left (`job`): a board is not yet refreshed only if it is still to be asked
(`Repaired`); a cache entry is not what the board was told only if the very next step
records it (`CacheTrue`, `RecordDue`); the file differs from the cache, or is torn, only
if the rest of the request writes it and nothing in that rest can end the request early
(`WillDump`, `FileCurrent`); a page and the queue before it may be behind only by an event
that the rest of the request is sure to send (`WillPush`, `PagesFollow`: the last event
in the queue that touches a field says what the cache has, or no such event is there
and the page does). For that the list of steps must be known to be one that some
route can have left: `Grammar` says of each step what follows it, that no record comes
without its command right before it, no truncate without its dump right after it, and
that after the first write nothing can fail. Every route is shown to begin with such a
list, whatever the number of boards, and tails of such lists are such lists.

The proof found the first statement of `RestartKeeps` too strong: the process may die a
second time, between the two halves of the write that ends the refresh at the start, and
then `STATE_FILE` is empty and every record is gone. `kept` now forgets what was
recorded in that case. The file is not written to a second name and renamed
(`app.py:186`), so that this is what the code does. Assumed of the values is that what
stands for no entry, a torn file and a failed transfer is none of the others
(`ConsoleAssumption`). Before the proof `IInv` was checked as an invariant on five
instances, of one and of two boards, with one and two browsers and up to two faults.


The assumptions are the named ASSUMEs of the modules, which TLC evaluates in
every run, and `CalmHost` or `PacedHost` where it is named.

### Only model-checked

All liveness properties: `TriggerCompletes`, `AllLeave`, `EverySourceServed`,
`SenderResumes`, `EveryoneHears`, `ComesToRest`, `HostServed`, `RotationGoesRound`, and the
liveness part of `BarrierImplemented` (fairness and ENABLED are out of the prover's reach).
Every other property of the passing runs is a theorem above. Each module has a `TypeOK` or its like; where it is not
proved it documents the types, and no run of its own checks it.

## 6. What is not modelled

* Metastability and analogue behaviour; the vendor's Aurora, FIFO and memory cores
  except as the modules above see them (their words are kept in order, a beat sent
  on a link that is up arrives); the clock crossings.
* The look-up tables, multipliers, slots and ramp of the sine generator, and the
  arithmetic of waveforms on the host (`board_ctrl.py`, `multitone_scan.py`): numbers a
  simulation or a unit test checks better. `Playback` has the lengths they lead to.
* The delay queue of the fires, the single timer and the manual schedule
  (`api_board_group_sched`), the two-stage arming (`arm_mode`), the filler and the
  single-word port of the memory, the USB block pipe.
* The machines that gather and send an answer. Their effect on the host, an answer
  that is late or dropped, is a fault of the host modules; the cycles in which it
  happens are not there.
* The SPI bit machine and the magic words; who else might write a sector.
* Diagnostic counters; the page but for the state it keeps; scripts that run one
  command after the other (`flash_and_reload.py`, `query_board_status.py`, `install.sh`);
  modules no design instantiates.

Section 2 lists what of this would be worth adding.
